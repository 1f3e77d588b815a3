------------------------------- MODULE Payments -------------------------------
(***************************************************************************)
(* The payment state machines of lexe-ln/src/payments: the five payment    *)
(* kinds that the code can create, the status of each, and the `check_*`   *)
(* transition of each kind.  A transition is a pure operator from the      *)
(* current payment to the payment that the code would persist next.        *)
(*                                                                         *)
(* Data is reduced to what the transitions and the properties tell apart:  *)
(* kind, status, note, whether finalized_at is set, and the replacement    *)
(* txid of an onchain payment.  Hashes, preimages, secrets and amounts     *)
(* always match: they come from LDK for the very payment that they name.   *)
(***************************************************************************)
EXTENDS Naturals

CONSTANTS
    RpTxids,    \* txids that may replace one of our onchain transactions
    Notes,      \* personal notes that a user may write on a payment
    None        \* Rust's None, and the Err of a `check_*` function

Kinds == {"OnchainSend", "OnchainReceive", "InboundInvoice",
          "InboundSpontaneous", "OutboundInvoice"}

OnchainSendStatus ==
    {"Created", "Broadcasted", "ReplacementBroadcasted", "PartiallyConfirmed",
     "PartiallyReplaced", "FullyConfirmed", "FullyReplaced", "Dropped"}

OnchainReceiveStatus ==
    {"Zeroconf", "PartiallyConfirmed", "PartiallyReplaced",
     "FullyConfirmed", "FullyReplaced", "Dropped"}

InboundInvoicePaymentStatus == {"InvoiceGenerated", "Claiming", "Completed", "Expired"}

InboundSpontaneousPaymentStatus == {"Claiming", "Completed"}

OutboundInvoicePaymentStatus == {"Pending", "Abandoning", "Completed", "Failed"}

Statuses == OnchainSendStatus \cup OnchainReceiveStatus
              \cup InboundInvoicePaymentStatus \cup InboundSpontaneousPaymentStatus
              \cup OutboundInvoicePaymentStatus

Payment == [kind : Kinds, status : Statuses, note : Notes \cup {None},
            replacement : RpTxids \cup {None}, finalized_at : BOOLEAN]

ASSUME NoneIsNoValue ==
    /\ None \notin Notes
    /\ None \notin RpTxids
    /\ None \notin Payment

CompletedStatuses == {"FullyConfirmed", "Completed"}
FailedStatuses    == {"FullyReplaced", "Dropped", "Expired", "Failed"}

(* Payment::status: the specific status collapsed to the general one. *)
PaymentStatus(p) ==
    CASE p.status \in CompletedStatuses -> "Completed"
      [] p.status \in FailedStatuses    -> "Failed"
      [] OTHER                          -> "Pending"

IsPending(p) == PaymentStatus(p) = "Pending"

(* Payment::set_note. *)
set_note(p, note) == [p EXCEPT !.note = note]

NewPayment(kind, status, note) ==
    [kind |-> kind, status |-> status, note |-> note,
     replacement |-> None, finalized_at |-> FALSE]

(* The constructors: InboundInvoicePayment::new and so on. *)
NewInboundInvoice        == NewPayment("InboundInvoice", "InvoiceGenerated", None)
NewInboundSpontaneous    == NewPayment("InboundSpontaneous", "Claiming", None)
NewOutboundInvoice(note) == NewPayment("OutboundInvoice", "Pending", note)
NewOnchainSend(note)     == NewPayment("OnchainSend", "Created", note)
NewOnchainReceive        == NewPayment("OnchainReceive", "Zeroconf", None)

To(p, status)       == [p EXCEPT !.status = status]
Finalize(p, status) == [p EXCEPT !.status = status, !.finalized_at = TRUE]

-----------------------------------------------------------------------------
(* Lightning payments.  `is_expired` says whether the invoice has expired. *)

(* InboundInvoicePayment::check_payment_claimable.  A second               *)
(* PaymentClaimable for a payment in Claiming is accepted, but not once    *)
(* its invoice has expired.                                                *)
IipCheckClaimable(p, is_expired) ==
    IF ~is_expired /\ p.status \in {"InvoiceGenerated", "Claiming"}
    THEN To(p, "Claiming") ELSE None

(* InboundSpontaneousPayment::check_payment_claimable. *)
IspCheckClaimable(p) == IF p.status = "Claiming" THEN p ELSE None

(* Payment::check_payment_claimable: the match on kind and purpose. *)
CheckClaimable(p, purpose, is_expired) ==
    IF p.kind = "InboundInvoice" /\ purpose = "Invoice"
    THEN IipCheckClaimable(p, is_expired)
    ELSE IF p.kind = "InboundSpontaneous" /\ purpose = "Spontaneous"
    THEN IspCheckClaimable(p)
    ELSE None

(* InboundInvoicePayment::check_payment_claimed. *)
IipCheckClaimed(p) ==
    IF p.status \in {"InvoiceGenerated", "Claiming"}
    THEN Finalize(p, "Completed") ELSE None

(* InboundSpontaneousPayment::check_payment_claimed. *)
IspCheckClaimed(p) ==
    IF p.status = "Claiming" THEN Finalize(p, "Completed") ELSE None

(* PaymentsData::check_payment_claimed's match on the pending payment. *)
CheckClaimed(p, purpose) ==
    IF p.kind = "InboundInvoice" /\ purpose = "Invoice" THEN IipCheckClaimed(p)
    ELSE IF p.kind = "InboundSpontaneous" /\ purpose = "Spontaneous"
    THEN IspCheckClaimed(p)
    ELSE None

CheckSent(p) ==
    IF p.kind = "OutboundInvoice" /\ p.status \in {"Pending", "Abandoning"}
    THEN Finalize(p, "Completed") ELSE None

CheckFailed(p) ==
    IF p.kind = "OutboundInvoice" /\ p.status \in {"Pending", "Abandoning"}
    THEN Finalize(p, "Failed") ELSE None

(* MUTANT of IipCheckExpiry: an invoice being claimed expires too. *)
MutExpiryWhileClaiming(p, is_expired) ==
    IF is_expired /\ p.status \in {"InvoiceGenerated", "Claiming"}
    THEN Finalize(p, "Expired") ELSE None

(* InboundInvoicePayment::check_invoice_expiry: None when nothing changes. *)
IipCheckExpiry(p, is_expired) ==
    IF is_expired /\ p.status = "InvoiceGenerated" THEN Finalize(p, "Expired") ELSE None

(* OutboundInvoicePayment::check_invoice_expiry. *)
OipCheckExpiry(p, is_expired) ==
    IF is_expired /\ p.status = "Pending" THEN To(p, "Abandoning") ELSE None

(* PaymentsData::check_invoice_expiries, for one pending payment. *)
CheckInvoiceExpiry(p, is_expired) ==
    IF p.kind = "InboundInvoice" THEN IipCheckExpiry(p, is_expired)
    ELSE IF p.kind = "OutboundInvoice" THEN OipCheckExpiry(p, is_expired)
    ELSE None

-----------------------------------------------------------------------------
(* Onchain payments. *)

ConfirmationThreshold == 6

(* esplora.rs: TxConfStatus. *)
TxConfStatus(confCounts) ==
    [type : {"ZeroConf", "Dropped"}]
      \cup [type : {"InBestChain"}, confs : confCounts]
      \cup [type : {"HasReplacement"}, confs : confCounts, rp_txid : RpTxids]

(* OnchainSend::broadcasted. *)
broadcasted(p) ==
    IF p.kind = "OnchainSend" /\ p.status \in {"Created", "Broadcasted"}
    THEN To(p, "Broadcasted") ELSE None

(* The status that a pending onchain payment takes on a conf status. *)
ConfirmedStatus(p, conf) ==
    CASE conf.type = "ZeroConf" /\ p.kind = "OnchainReceive" -> "Zeroconf"
      [] conf.type = "ZeroConf" /\ p.kind = "OnchainSend" ->
            IF p.status = "ReplacementBroadcasted" THEN p.status ELSE "Broadcasted"
      [] conf.type = "InBestChain" ->
            IF conf.confs < ConfirmationThreshold
            THEN "PartiallyConfirmed" ELSE "FullyConfirmed"
      [] conf.type = "HasReplacement" ->
            IF conf.confs < ConfirmationThreshold
            THEN "PartiallyReplaced" ELSE "FullyReplaced"
      [] conf.type = "Dropped" -> "Dropped"

(* check_onchain_conf of both onchain kinds, for a payment that is still   *)
(* pending: None when the send awaits its broadcast or nothing changes.    *)
CheckOnchainConf(p, conf) ==
    LET new_status == ConfirmedStatus(p, conf)
        new_replacement == IF conf.type = "HasReplacement" THEN conf.rp_txid ELSE None
        clone == [p EXCEPT !.status = new_status, !.replacement = new_replacement]
    IN  IF p.status = "Created" \/ clone = p THEN None
        ELSE [clone EXCEPT !.finalized_at = ~IsPending(clone)]

(* Payment::assert_invariants, which `commit` runs in debug builds. *)
assert_invariants(p) == IsPending(p) <=> ~p.finalized_at
=============================================================================
