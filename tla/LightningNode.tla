----------------------------- MODULE LightningNode -----------------------------
(***************************************************************************)
(* A node's Lightning payments end to end: the API calls create_invoice    *)
(* and pay_invoice (command.rs), the event handler (event_handler.rs) and  *)
(* the background processor (background_processor.rs), composed with the   *)
(* payments manager and with LDK's channel manager.                        *)
(*                                                                         *)
(* The node runs on a single-threaded Tokio runtime, so code between two   *)
(* awaits is one step.  LDK is external.  What matters of it here: an      *)
(* event stays in the queue of the channel manager until it is drained, a  *)
(* persisted channel manager holds every event not drained by then, and a  *)
(* reboot delivers those again.                                            *)
(***************************************************************************)
EXTENDS PaymentsManager

CONSTANTS
    InvHashes,      \* hashes of the invoices that this node may create
    KsHashes,       \* hashes of keysends that others may send to it
    OutHashes,      \* hashes of the invoices that it may pay
    Expirable,      \* hashes whose invoice may expire
    Faults          \* may the node crash, and may the backend fail?

ASSUME HashesArePartitioned ==
    /\ LnHashes = InvHashes \cup KsHashes \cup OutHashes
    /\ InvHashes \cap KsHashes = {}
    /\ InvHashes \cap OutHashes = {}
    /\ KsHashes \cap OutHashes = {}
    /\ Expirable \subseteq InvHashes \cup OutHashes
    /\ Faults \in BOOLEAN

VARIABLES
    htlc,       \* what LDK and the network know of each payment
    issued,     \* invoices that create_invoice has returned to the user
    preflighted,\* invoices with a pay_invoice call past its preflight
    failing,    \* pay_invoice calls that LDK refused: to be failed
    handled,    \* events drained from the queue of the channel manager
    notified,   \* does get_persistable_update_future() resolve?
    bgp,        \* where the background processor is
    snap,       \* the channel manager that it is persisting
    cmDb,       \* the persisted channel manager
    tasks,      \* event handlers spawned and not yet finished
    holder,     \* the handler that holds the lock on PaymentsData, if one does
    fatal,      \* fatal_event
    shutdown,   \* has a shutdown been sent?
    done,       \* history: events handled successfully, ever
    rejected    \* history: events that a check has rejected

cm == <<htlc, handled, notified>>
bgpVars == <<bgp, snap, cmDb>>
history == <<done, rejected>>
calls == <<preflighted, failing>>
nodeVars == <<vars, cm, bgpVars, history, issued, calls, tasks, holder,
              fatal, shutdown>>

Event == {"PaymentClaimable", "PaymentClaimed", "PaymentSent", "PaymentFailed"} \X LnHashes

(* The events that LDK has generated, given how far each payment is. *)
EventsOf(h, state) ==
    CASE state \in {"received", "failedBack", "claiming"} -> {<<"PaymentClaimable", h>>}
      [] state = "claimed" -> {<<"PaymentClaimable", h>>, <<"PaymentClaimed", h>>}
      [] state = "sent"    -> {<<"PaymentSent", h>>}
      [] state = "failed"  -> {<<"PaymentFailed", h>>}
      [] OTHER             -> {}

Generated == UNION {EventsOf(h, htlc[h]) : h \in LnHashes}

pending_events == Generated \ handled

InboundState  == {"none", "received", "failedBack", "claiming", "claimed"}
OutboundState == {"none", "sending", "lost", "sent", "failed"}

(* What a serialised channel manager holds. *)
ChannelManager == [handled : SUBSET Event, claims : SUBSET LnHashes,
                   sends : SUBSET LnHashes]

Serialized(drained) ==
    [handled |-> drained,
     claims  |-> {h \in LnHashes : htlc[h] \in {"claiming", "claimed"}},
     sends   |-> {h \in OutHashes : htlc[h] # "none"}]

NodeInit ==
    /\ Init
    /\ htlc = [h \in LnHashes |-> "none"]
    /\ issued = {} /\ preflighted = {} /\ failing = {} /\ handled = {} /\ tasks = {}
    /\ done = {} /\ rejected = {}
    /\ notified = FALSE /\ fatal = FALSE /\ shutdown = FALSE
    /\ bgp = "idle" /\ snap = None /\ holder = {}
    /\ cmDb = [handled |-> {}, claims |-> {}, sends |-> {}]

-----------------------------------------------------------------------------
(* LDK and its peers (external). *)

(* The HTLC for an issued invoice or a keysend has arrived in full. *)
HtlcArrives(h) ==
    /\ up /\ htlc[h] = "none" /\ h \in issued \cup KsHashes
    /\ htlc' = [htlc EXCEPT ![h] = "received"]
    /\ notified' = TRUE
    /\ UNCHANGED <<vars, handled, bgpVars, history, issued, calls, tasks,
                   holder, fatal, shutdown>>

(* An HTLC that nobody claims is failed back by LDK before it times out. *)
HtlcTimesOut(h) ==
    /\ Faults
    /\ up /\ htlc[h] = "received"
    /\ htlc' = [htlc EXCEPT ![h] = "failedBack"]
    /\ notified' = TRUE
    /\ UNCHANGED <<vars, handled, bgpVars, history, issued, calls, tasks,
                   holder, fatal, shutdown>>

(* The monitor update that claims the HTLC is complete.  Of all events this*)
(* is the one that comes without a persistable update.                     *)
ClaimCompletes(h) ==
    /\ up /\ htlc[h] = "claiming"
    /\ htlc' = [htlc EXCEPT ![h] = "claimed"]
    /\ UNCHANGED <<vars, handled, notified, bgpVars, history, issued, calls,
                   tasks, holder, fatal, shutdown>>

(* The payment is fulfilled, or has failed for good. *)
SendEnds(h, outcome) ==
    /\ up /\ htlc[h] = "sending"
    /\ htlc' = [htlc EXCEPT ![h] = outcome]
    /\ notified' = TRUE
    /\ UNCHANGED <<vars, handled, bgpVars, history, issued, calls, tasks,
                   holder, fatal, shutdown>>

-----------------------------------------------------------------------------
(* command.rs *)

Call(change) ==
    /\ change
    /\ holder' = {}
    /\ UNCHANGED <<cm, bgpVars, history, issued, tasks, fatal, shutdown>>

(* The invoice is returned to the user once new_payment has succeeded. *)
create_invoice(h) ==
    /\ Call(new_payment(h, NewInboundInvoice))
    /\ UNCHANGED calls

(* preflight_pay_invoice_inner, which looks under the lock whether the     *)
(* payment is known and then releases it to find a route.                  *)
preflight(h) ==
    /\ up /\ LockFree
    /\ h \notin expired
    /\ ~contains_payment_id(h)
    /\ h \notin preflighted
    /\ preflighted' = preflighted \cup {h}
    /\ UNCHANGED <<vars, cm, bgpVars, history, issued, failing, tasks, holder, fatal,
                   shutdown>>

(* new_payment, which send_payment follows once it has succeeded.  Another *)
(* call for the same invoice may be past its preflight too.                *)
pay_invoice(h) ==
    /\ h \in preflighted
    /\ Call(new_payment(h, NewOutboundInvoice(None)))
    /\ preflighted' \in {preflighted, preflighted \ {h}}
    /\ UNCHANGED failing

(* No route was found, or another call has registered the payment. *)
RefusePayInvoice(h) ==
    /\ up /\ h \in preflighted
    /\ preflighted' = preflighted \ {h}
    /\ UNCHANGED <<vars, cm, bgpVars, history, issued, failing, tasks, holder, fatal,
                   shutdown>>

(* LDK refused to send: pay_invoice registers the failure. *)
RegisterSendFailure(h) ==
    /\ h \in failing
    /\ Call(payment_failed(h))
    /\ failing' = failing \ {h}
    /\ UNCHANGED preflighted

(* abandon_payment only stops LDK from retrying: the payment may still be  *)
(* fulfilled.                                                              *)
ExpiryCheck ==
    /\ Call(CheckInvoiceExpiries)
    /\ UNCHANGED calls

-----------------------------------------------------------------------------
(* event_handler.rs: every drained event is handled by a detached task. *)

purpose(h) == IF h \in KsHashes THEN "Spontaneous" ELSE "Invoice"

(* fail_htlc_backwards_with_reason: no effect unless LDK holds the HTLC. *)
FailHtlcBackwards(h) ==
    IF htlc[h] = "received"
    THEN htlc' = [htlc EXCEPT ![h] = "failedBack"] /\ notified' = TRUE
    ELSE UNCHANGED <<htlc, notified>>

(* claim_funds: likewise. *)
ClaimFunds(h) ==
    IF htlc[h] = "received"
    THEN htlc' = [htlc EXCEPT ![h] = "claiming"] /\ notified' = TRUE
    ELSE UNCHANGED <<htlc, notified>>

Checked(event, h) ==
    CASE event = "PaymentClaimable" -> check_payment_claimable(h, purpose(h))
      [] event = "PaymentClaimed"   -> check_payment_claimed(h, purpose(h))
      [] event = "PaymentSent"      -> check_payment_sent(h)
      [] event = "PaymentFailed"    -> check_payment_failed(h)

(* MUTANT of HandleEvent: claim_funds is called before the persist. *)
MutClaimBeforePersist(event, h) ==
    /\ <<event, h>> \in tasks
    /\ event = "PaymentClaimable" /\ payment_claimable(h, purpose(h))
    /\ ClaimFunds(h)
    /\ holder' = {<<event, h>>}
    /\ UNCHANGED <<handled, bgpVars, history, issued, calls, tasks, fatal, shutdown>>

(* handle_event_fallible, up to the persist. *)
HandleEvent(event, h) ==
    /\ <<event, h>> \in tasks
    /\ \/ event = "PaymentClaimable" /\ payment_claimable(h, purpose(h))
       \/ event = "PaymentClaimed" /\ payment_claimed(h, purpose(h))
       \/ event = "PaymentSent" /\ payment_sent(h)
       \/ event = "PaymentFailed" /\ payment_failed(h)
    /\ holder' = {<<event, h>>}
    /\ UNCHANGED <<cm, bgpVars, history, issued, calls, tasks, fatal, shutdown>>

(* EventHandleError::Fatal: send a shutdown, then tell the BGP. *)
FatalError(event, h) ==
    /\ tasks' = tasks \ {<<event, h>>}
    /\ shutdown' = TRUE
    /\ fatal' = TRUE
    /\ IF event = "PaymentClaimable" THEN FailHtlcBackwards(h)
       ELSE UNCHANGED <<htlc, notified>>

(* The check has rejected the event. *)
RejectEvent(event, h) ==
    /\ <<event, h>> \in tasks
    /\ up /\ LockFree
    /\ Checked(event, h) = None
    /\ FatalError(event, h)
    /\ rejected' = rejected \cup {<<event, h>>}
    /\ UNCHANGED <<vars, handled, bgpVars, done, issued, calls, holder>>

(* The persist has succeeded, and the caller goes on to its next await. *)
CommitEvent(event, h) ==
    /\ holder = {<<event, h>>}
    /\ Commit
    /\ tasks' = tasks \ holder
    /\ done' = done \cup holder
    /\ IF event = "PaymentClaimable" THEN ClaimFunds(h) ELSE UNCHANGED <<htlc, notified>>
    /\ holder' = {}
    /\ UNCHANGED <<handled, bgpVars, rejected, issued, calls, fatal, shutdown>>

(* create_invoice, the expiry checker, and a registered send failure. *)
CommitCall ==
    /\ holder = {}
    /\ op.name = "new" => \A h \in OutHashes : op.batch[h] = None
    /\ Commit
    /\ issued' = IF op.name = "new"
                 THEN issued \cup {h \in InvHashes : op.batch[h] # None} ELSE issued
    /\ holder' = {}
    /\ UNCHANGED <<cm, bgpVars, history, calls, tasks, fatal, shutdown>>

(* pay_invoice: LDK takes the payment, or refuses it for lack of a route or*)
(* because the invoice has expired in the meantime.                        *)
CommitPayInvoice(h, accepted) ==
    /\ holder = {} /\ op.name = "new" /\ op.batch[h] # None
    /\ Commit
    /\ IF accepted
       THEN /\ htlc' = [htlc EXCEPT ![h] = "sending"]
            /\ notified' = TRUE
            /\ UNCHANGED failing
       ELSE /\ failing' = failing \cup {h}
            /\ UNCHANGED <<htlc, notified>>
    /\ UNCHANGED preflighted
    /\ holder' = {}
    /\ UNCHANGED <<handled, bgpVars, history, issued, tasks, fatal, shutdown>>

(* The persist has failed. *)
AbortEvent(event, h) ==
    /\ holder = {<<event, h>>}
    /\ Abort
    /\ FatalError(event, h)
    /\ holder' = {}
    /\ UNCHANGED <<handled, bgpVars, history, issued, calls>>

AbortCall ==
    /\ holder = {}
    /\ Abort
    /\ holder' = {}
    /\ UNCHANGED <<cm, bgpVars, history, issued, calls, tasks, fatal, shutdown>>

Backend ==
    /\ BackendApplies \/ (Faults /\ BackendRefuses)
    /\ UNCHANGED <<cm, bgpVars, history, issued, calls, tasks, holder, fatal, shutdown>>

-----------------------------------------------------------------------------
(* background_processor.rs *)

(* MUTANT of BgpProcess: events are processed on persistable updates only. *)
MutWakesOnUpdatesOnly ==
    /\ up /\ bgp = "idle" /\ (notified \/ fatal)
    /\ tasks' = tasks \cup pending_events
    /\ handled' = Generated
    /\ notified' = FALSE
    /\ IF fatal THEN bgp' = "exited" /\ UNCHANGED snap
       ELSE bgp' = "persisting" /\ snap' = Serialized(Generated)
    /\ UNCHANGED <<vars, htlc, cmDb, history, issued, calls, holder, fatal, shutdown>>

(* One iteration, on a persistable update, on a notification or on a timer *)
(* tick that finds something to do: drain the queue and spawn the handlers;*)
(* stop if an event has failed; otherwise persist the channel manager if   *)
(* it had an update, for which the biased select looks first.  Draining is *)
(* itself an update.                                                       *)
BgpProcess ==
    /\ up /\ bgp = "idle"
    /\ notified \/ pending_events # {} \/ fatal
    /\ tasks' = tasks \cup pending_events
    /\ handled' = Generated
    /\ notified' = (pending_events # {})
    /\ IF fatal THEN bgp' = "exited" /\ UNCHANGED snap
       ELSE IF notified THEN bgp' = "persisting" /\ snap' = Serialized(Generated)
       ELSE UNCHANGED <<bgp, snap>>
    /\ UNCHANGED <<vars, htlc, cmDb, history, issued, calls, holder, fatal, shutdown>>

(* The persist has succeeded. *)
BgpPersisted ==
    /\ up /\ bgp = "persisting"
    /\ cmDb' = snap /\ snap' = None /\ bgp' = "idle"
    /\ UNCHANGED <<vars, cm, history, issued, calls, tasks, holder, fatal, shutdown>>

(* It has failed, though the write may have been applied: shut down, and   *)
(* persist one last time.                                                  *)
BgpPersistFails ==
    /\ Faults
    /\ up /\ bgp = "persisting"
    /\ cmDb' \in {cmDb, snap}
    /\ shutdown' = TRUE
    /\ bgp' = "final" /\ snap' = Serialized(handled)
    /\ UNCHANGED <<vars, cm, history, issued, calls, tasks, holder, fatal>>

(* ShutdownChannel::send, by the inactivity timer or by any other task. *)
SendShutdown ==
    /\ Faults
    /\ up /\ ~shutdown
    /\ shutdown' = TRUE
    /\ UNCHANGED <<vars, cm, bgpVars, history, issued, calls, tasks, holder, fatal>>

(* The shutdown branch of the select: persist one last time. *)
BgpShutdown ==
    /\ up /\ bgp = "idle" /\ shutdown
    /\ bgp' = "final" /\ snap' = Serialized(handled)
    /\ UNCHANGED <<vars, cm, cmDb, history, issued, calls, tasks, holder, fatal, shutdown>>

BgpFinalPersist ==
    /\ up /\ bgp = "final"
    /\ \/ cmDb' = snap
       \/ Faults /\ UNCHANGED cmDb
    /\ bgp' = "exited" /\ snap' = None
    /\ UNCHANGED <<vars, cm, history, issued, calls, tasks, holder, fatal, shutdown>>

-----------------------------------------------------------------------------
(* What LDK makes of a payment after a crash.  A send that the persisted   *)
(* channel manager does not know may never have left the node; a claim or  *)
(* a failure whose updates were not persisted is as if it had not been made.*)
AfterReboot(h) ==
    CASE htlc[h] = "sending" /\ h \notin cmDb.sends -> {"sending", "lost"}
      [] htlc[h] = "claiming"   -> {"claiming", "received"}
      [] htlc[h] = "failedBack" -> {"failedBack", "received"}
      [] OTHER                  -> {htlc[h]}

(* The process ends: it crashes, or exits after a shutdown. *)
NodeCrash ==
    /\ Faults
    /\ Crash
    /\ \E after \in [LnHashes -> UNION {AfterReboot(h) : h \in LnHashes}] :
          /\ \A h \in LnHashes : after[h] \in AfterReboot(h)
          /\ htlc' = after
    /\ handled' = cmDb.handled
    /\ notified' = FALSE /\ fatal' = FALSE /\ shutdown' = FALSE
    /\ tasks' = {} /\ preflighted' = {} /\ failing' = {} /\ holder' = {}
    /\ bgp' = "idle" /\ snap' = None
    /\ UNCHANGED <<cmDb, history, issued>>

NodeBoot ==
    /\ Boot
    /\ UNCHANGED <<cm, bgpVars, history, issued, calls, tasks, holder, fatal, shutdown>>

NodeInvoiceExpires(h) ==
    /\ InvoiceExpires(h)
    /\ UNCHANGED <<cm, bgpVars, history, issued, calls, tasks, holder, fatal, shutdown>>

NodeNext ==
    \/ \E h \in InvHashes \cup KsHashes :
          HtlcArrives(h) \/ HtlcTimesOut(h) \/ ClaimCompletes(h)
    \/ \E h \in OutHashes : SendEnds(h, "sent") \/ SendEnds(h, "failed")
    \/ \E h \in InvHashes : create_invoice(h)
    \/ \E h \in OutHashes : preflight(h) \/ pay_invoice(h) \/ RefusePayInvoice(h)
                            \/ RegisterSendFailure(h)
    \/ ExpiryCheck
    \/ \E e \in tasks : HandleEvent(e[1], e[2]) \/ RejectEvent(e[1], e[2])
    \/ \E e \in tasks : CommitEvent(e[1], e[2]) \/ AbortEvent(e[1], e[2])
    \/ CommitCall \/ AbortCall
    \/ \E h \in OutHashes, accepted \in BOOLEAN : CommitPayInvoice(h, accepted)
    \/ Backend
    \/ BgpProcess \/ BgpPersisted \/ BgpPersistFails
    \/ SendShutdown \/ BgpShutdown \/ BgpFinalPersist
    \/ NodeCrash \/ NodeBoot
    \/ \E h \in Expirable : NodeInvoiceExpires(h)

NodeSpec == NodeInit /\ [][NodeNext]_nodeVars

(* Fairness: the runtime polls every task that can run, Tokio's mutex is   *)
(* FIFO, the backend answers, and LDK resolves what it is sending and what *)
(* it is claiming.  Nothing is assumed of users, payers or time.           *)
FairNodeSpec ==
    /\ NodeSpec
    /\ WF_nodeVars(BgpProcess \/ BgpPersisted \/ BgpFinalPersist)
    /\ WF_nodeVars(Backend)
    /\ WF_nodeVars(CommitCall)
    /\ WF_nodeVars(\E h \in OutHashes, accepted \in BOOLEAN : CommitPayInvoice(h, accepted))
    /\ \A e \in Event :
          /\ SF_nodeVars(HandleEvent(e[1], e[2]))
          /\ WF_nodeVars(CommitEvent(e[1], e[2]))
    /\ \A h \in OutHashes :
          /\ SF_nodeVars(RegisterSendFailure(h))
          /\ WF_nodeVars(SendEnds(h, "sent") \/ SendEnds(h, "failed"))
    /\ \A h \in InvHashes \cup KsHashes : WF_nodeVars(ClaimCompletes(h))

-----------------------------------------------------------------------------
(* Properties. *)

(* Types; a running handler was drained from the queue, and only one that  *)
(* is running holds the lock.                                              *)
NodeTypeOK ==
    /\ TypeOK
    /\ \A h \in LnHashes :
          htlc[h] \in IF h \in OutHashes THEN OutboundState ELSE InboundState
    /\ issued \subseteq InvHashes
    /\ preflighted \subseteq OutHashes /\ failing \subseteq OutHashes
    /\ tasks \subseteq handled /\ handled \subseteq Event
    /\ bgp \in {"idle", "persisting", "final", "exited"}
    /\ snap \in ChannelManager <=> bgp \in {"persisting", "final"}
    /\ cmDb \in ChannelManager
    /\ holder \subseteq tasks /\ (LockFree => holder = {})

HasStatus(h, statuses) == db[h] # None /\ db[h].status \in statuses

(* What the durable record says of a finished payment is what happened on  *)
(* the network, through crashes, lost replies and replayed events: a       *)
(* Completed payment was fulfilled or claimed, one that LDK may still      *)
(* fulfil is never recorded as Failed, and an invoice whose HTLC we claimed*)
(* is never recorded as Expired.                                           *)
RecordIsTrue ==
    \A h \in LnHashes :
        /\ HasStatus(h, {"Completed"}) => htlc[h] \in {"sent", "claimed"}
        /\ HasStatus(h, {"Failed"})    => htlc[h] \in {"none", "lost", "failed"}
        /\ HasStatus(h, {"Expired"})   => htlc[h] \notin {"claiming", "claimed"}

(* pay_invoice registers a payment before it sends it, and no invoice is   *)
(* sent twice: LDK knows nothing of a payment that is being registered,    *)
(* however often the user retries and whatever was lost on the way.        *)
PaidAtMostOnce ==
    \A h \in OutHashes :
        /\ htlc[h] # "none" => db[h] # None
        /\ op.name = "new" /\ op.batch[h] # None =>
              htlc[h] = "none" /\ h \notin failing

(* When nothing fails, every payment that LDK sends or claims is eventually*)
(* recorded with its outcome, and every event is eventually handled.       *)
EventuallyRecorded ==
    /\ \A h \in OutHashes :
          htlc[h] = "sending" \/ h \in failing ~> HasStatus(h, {"Completed", "Failed"})
    /\ \A h \in InvHashes \cup KsHashes :
          htlc[h] = "received" ~> HasStatus(h, {"Completed"})

(* "Event handling must be *idempotent*": an event that was handled        *)
(* successfully is not rejected when it is delivered again.                *)
HandlingIsIdempotent == done \cap rejected = {}

(* "It is the BGP's responsibility to ensure that events are not lost by   *)
(* preventing the channel manager [...] from being repersisted": after a   *)
(* fatal event, the BGP starts no persist of the channel manager.          *)
NoPersistAfterFatal ==
    [][fatal /\ bgp = "idle" => bgp' \notin {"persisting", "final"}]_nodeVars

(* "If a persisted `Payment` is already `Completed`, then it must be true  *)
(* that the persisted channel manager is aware that we have already called *)
(* `claim_funds`".                                                         *)
CompletedClaimIsPersisted ==
    \A h \in InvHashes \cup KsHashes :
        HasStatus(h, {"Completed"}) => h \in cmDb.claims

-----------------------------------------------------------------------------
(* The inductive invariant behind the theorems of LightningNodeProofs.     *)

(* A handler runs for what LDK has really reported. *)
TasksAt(h) ==
    /\ <<"PaymentClaimable", h>> \in tasks => h \notin OutHashes
    /\ <<"PaymentClaimed", h>> \in tasks => htlc[h] = "claimed"
    /\ <<"PaymentSent", h>> \in tasks => htlc[h] = "sent"
    /\ <<"PaymentFailed", h>> \in tasks => htlc[h] = "failed"

(* A record, or one that is being persisted, is true if it is final. *)
TrueOf(h, p) ==
    p # None =>
        /\ p.status = "Completed" => htlc[h] \in {"sent", "claimed"}
        /\ p.status = "Failed" => h \in OutHashes /\ htlc[h] \in {"none", "lost", "failed"}

(* What was sent is on record and in memory, and so is what LDK refused.   *)
SentAt(h) ==
    h \in OutHashes =>
        /\ htlc[h] # "none" => db[h] # None /\ (up => contains_payment_id(h))
        /\ h \in failing => htlc[h] = "none" /\ contains_payment_id(h)

(* What the request of the lock holder is about. *)
RequestAt(h) ==
    /\ op.name = "new" /\ op.batch[h] # None =>
          /\ op.batch[h].status \in {"Pending", "InvoiceGenerated"}
          /\ h \in OutHashes => htlc[h] = "none" /\ h \notin failing
    /\ holder = {<<"PaymentClaimable", h>>} => op.name = "claimable" /\ op.batch[h] # None

NodeInvAt(h) ==
    /\ htlc[h] \in IF h \in OutHashes THEN OutboundState ELSE InboundState
    /\ htlc[h] \in {"claiming", "claimed"} => h \in claimed
    /\ TasksAt(h) /\ TrueOf(h, db[h]) /\ TrueOf(h, op.batch[h])
    /\ SentAt(h) /\ RequestAt(h)

(* The invariant of the payments manager (manager.rs), and what the        *)
(* network, the handlers (event_handler.rs) and the calls under way        *)
(* (command.rs) say of each payment.                                       *)
NodeInv ==
    /\ IInv
    /\ htlc \in [LnHashes -> InboundState \cup OutboundState]
    /\ tasks \subseteq Event /\ issued \subseteq InvHashes /\ failing \subseteq OutHashes
    /\ \A h \in LnHashes : NodeInvAt(h)
=============================================================================
