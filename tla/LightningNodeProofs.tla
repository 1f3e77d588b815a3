-------------------------- MODULE LightningNodeProofs --------------------------
(***************************************************************************)
(* Proofs about PaymentsManager and about LightningNode, which extends it. *)
(* For the manager, for every set of payments, notes and confirmation      *)
(* counts, IInv is shown inductive; its safety properties and the          *)
(* refinement of PaymentLifecycle follow from it.  For the node, for any   *)
(* sets of invoices and keysends, with crashes, replayed events and lost   *)
(* replies of the backend, NodeInv is shown inductive above IInv.          *)
(***************************************************************************)
EXTENDS LightningNode, TLAPS

-----------------------------------------------------------------------------
(* The transitions of single payments. *)

(* A payment is pending exactly when its status is in neither final set:   *)
(* the mapping from specific to general status has no other cases.         *)
LEMMA PendingStatus ==
    ASSUME NEW p
    PROVE  /\ IsPending(p) <=> p.status \notin CompletedStatuses \cup FailedStatuses
           /\ PaymentStatus(p) \in {"Pending", "Completed", "Failed"}
  BY Zenon DEF IsPending, PaymentStatus, CompletedStatuses, FailedStatuses

(* Every status that a transition assigns is one of Statuses. *)
LEMMA StatusNames ==
    Statuses = {"Created", "Broadcasted", "ReplacementBroadcasted",
                "PartiallyConfirmed", "PartiallyReplaced", "FullyConfirmed",
                "FullyReplaced", "Dropped", "Zeroconf", "InvoiceGenerated",
                "Claiming", "Completed", "Expired", "Pending", "Abandoning",
                "Failed"}
  BY Zenon DEF Statuses, OnchainSendStatus, OnchainReceiveStatus,
     InboundInvoicePaymentStatus, InboundSpontaneousPaymentStatus,
     OutboundInvoicePaymentStatus

(* A successor of a pending payment: same kind, same note, and consistent  *)
(* with assert_invariants.                                                 *)
Successor(p, q) ==
    /\ q \in Payment
    /\ q.kind = p.kind
    /\ q.note = p.note
    /\ assert_invariants(q)

(* To moves a pending payment to another pending status. *)
LEMMA ToIsSuccessor ==
    ASSUME NEW p \in Payment, assert_invariants(p), IsPending(p),
           NEW s \in Statuses, s \notin CompletedStatuses \cup FailedStatuses
    PROVE  Successor(p, To(p, s)) /\ To(p, s).status = s /\ IsPending(To(p, s))
<1>1. To(p, s) \in Payment /\ To(p, s).status = s /\ To(p, s).kind = p.kind
      /\ To(p, s).note = p.note /\ To(p, s).finalized_at = p.finalized_at
  BY Zenon DEF Payment, To
<1>2. IsPending(To(p, s)) BY Zenon, <1>1, PendingStatus
<1> QED BY Zenon, <1>1, <1>2 DEF Successor, assert_invariants

(* Finalize moves it to a final one and stamps finalized_at. *)
LEMMA FinalizeIsSuccessor ==
    ASSUME NEW p \in Payment, NEW s \in Statuses,
           s \in CompletedStatuses \cup FailedStatuses
    PROVE  Successor(p, Finalize(p, s)) /\ Finalize(p, s).status = s
<1>1. Finalize(p, s) \in Payment /\ Finalize(p, s).status = s
      /\ Finalize(p, s).kind = p.kind /\ Finalize(p, s).note = p.note
      /\ Finalize(p, s).finalized_at = TRUE
  BY Zenon DEF Payment, Finalize
<1>2. ~IsPending(Finalize(p, s)) BY Zenon, <1>1, PendingStatus
<1> QED BY Zenon, <1>1, <1>2 DEF Successor, assert_invariants

(* PaymentClaimable leads to Claiming. *)
LEMMA ClaimableTransition ==
    ASSUME NEW p \in Payment, assert_invariants(p), IsPending(p),
           NEW why, NEW e, CheckClaimable(p, why, e) # None
    PROVE  /\ Successor(p, CheckClaimable(p, why, e))
           /\ CheckClaimable(p, why, e).status = "Claiming"
<1>1. Successor(p, To(p, "Claiming")) /\ To(p, "Claiming").status = "Claiming"
  BY ZenonT(30), ToIsSuccessor, StatusNames DEF CompletedStatuses, FailedStatuses
<1>2. Successor(p, p) BY Zenon DEF Successor
<1>3. CheckClaimable(p, why, e) = To(p, "Claiming")
      \/ (p.status = "Claiming" /\ CheckClaimable(p, why, e) = p)
  BY Zenon DEF CheckClaimable, IipCheckClaimable, IspCheckClaimable
<1> QED BY Zenon, <1>1, <1>2, <1>3

(* PaymentClaimed leads to Completed. *)
LEMMA ClaimedTransition ==
    ASSUME NEW p \in Payment, NEW why, CheckClaimed(p, why) # None
    PROVE  /\ Successor(p, CheckClaimed(p, why))
           /\ CheckClaimed(p, why).status = "Completed"
<1>1. /\ Successor(p, Finalize(p, "Completed"))
      /\ Finalize(p, "Completed").status = "Completed"
  BY Zenon, FinalizeIsSuccessor, StatusNames DEF CompletedStatuses, FailedStatuses
<1> QED BY Zenon, <1>1 DEF CheckClaimed, IipCheckClaimed, IspCheckClaimed

(* PaymentSent and PaymentFailed finalize a payment that was never claimed.*)
LEMMA OutboundTransitions ==
    ASSUME NEW p \in Payment
    PROVE  /\ CheckSent(p) # None =>
                Successor(p, CheckSent(p)) /\ p.status \in {"Pending", "Abandoning"}
           /\ CheckFailed(p) # None =>
                Successor(p, CheckFailed(p)) /\ p.status \in {"Pending", "Abandoning"}
<1>1. Successor(p, Finalize(p, "Completed")) /\ Successor(p, Finalize(p, "Failed"))
  BY Zenon, FinalizeIsSuccessor, StatusNames DEF CompletedStatuses, FailedStatuses
<1> QED BY Zenon, <1>1 DEF CheckSent, CheckFailed

(* Expiry spares a payment that is being claimed. *)
LEMMA ExpiryTransition ==
    ASSUME NEW p \in Payment, assert_invariants(p), IsPending(p),
           NEW e, CheckInvoiceExpiry(p, e) # None
    PROVE  /\ Successor(p, CheckInvoiceExpiry(p, e))
           /\ p.status \in {"Pending", "InvoiceGenerated"}
<1>1. Successor(p, To(p, "Abandoning"))
  BY ZenonT(30), ToIsSuccessor, StatusNames DEF CompletedStatuses, FailedStatuses
<1>2. Successor(p, Finalize(p, "Expired"))
  BY Zenon, FinalizeIsSuccessor, StatusNames DEF CompletedStatuses, FailedStatuses
<1> QED BY Zenon, <1>1, <1>2 DEF CheckInvoiceExpiry, IipCheckExpiry, OipCheckExpiry

(* What the onchain checks return, when they do not reject: a broadcast    *)
(* keeps a send pending, a conf status may also finalize a payment.        *)
LEMMA OnchainTransitions ==
    ASSUME NEW p \in Payment, assert_invariants(p), IsPending(p),
           p.kind \in {"OnchainSend", "OnchainReceive"},
           NEW conf \in TxConfStatus(ConfCounts)
    PROVE  CheckOnchainConf(p, conf) # None => Successor(p, CheckOnchainConf(p, conf))
<1> DEFINE new_status == ConfirmedStatus(p, conf)
<1> DEFINE new_replacement == IF conf.type = "HasReplacement" THEN conf.rp_txid ELSE None
<1> DEFINE clone == [p EXCEPT !.status = new_status, !.replacement = new_replacement]
<1>1. /\ conf.type \in {"ZeroConf", "Dropped", "InBestChain", "HasReplacement"}
      /\ conf.type = "HasReplacement" => conf.rp_txid \in RpTxids
  BY Zenon DEF TxConfStatus
<1>2. new_status \in Statuses
  <2>1. CASE conf.type = "ZeroConf"
    <3>1. CASE p.kind = "OnchainReceive"
      BY Zenon, <2>1, <3>1, StatusNames DEF ConfirmedStatus
    <3>2. CASE p.kind = "OnchainSend"
      <4>1. new_status \in {"ReplacementBroadcasted", "Broadcasted"}
        BY Zenon, <2>1, <3>2 DEF ConfirmedStatus
      <4> QED BY Zenon, <4>1, StatusNames
    <3> QED BY Zenon, <3>1, <3>2
  <2>2. CASE conf.type = "InBestChain"
    <3>1. new_status \in {"PartiallyConfirmed", "FullyConfirmed"}
      BY Zenon, <2>2 DEF ConfirmedStatus
    <3> QED BY Zenon, <3>1, StatusNames
  <2>3. CASE conf.type = "HasReplacement"
    <3>1. new_status \in {"PartiallyReplaced", "FullyReplaced"}
      BY Zenon, <2>3 DEF ConfirmedStatus
    <3> QED BY Zenon, <3>1, StatusNames
  <2>4. CASE conf.type = "Dropped"
    BY Zenon, <2>4, StatusNames DEF ConfirmedStatus
  <2> QED BY Zenon, <1>1, <2>1, <2>2, <2>3, <2>4
<1>3. new_replacement \in RpTxids \cup {None} BY Zenon, <1>1
<1> HIDE DEF new_status, new_replacement
<1>4. /\ clone \in Payment /\ clone.kind = p.kind /\ clone.note = p.note
  BY Zenon, <1>2, <1>3 DEF Payment
<1> HIDE DEF clone
<1> DEFINE stamped == [clone EXCEPT !.finalized_at = ~IsPending(clone)]
<1>5. /\ stamped \in Payment /\ stamped.kind = p.kind /\ stamped.note = p.note
      /\ stamped.status = clone.status /\ stamped.finalized_at = ~IsPending(clone)
  <2>1. (~IsPending(clone)) \in BOOLEAN BY Zenon DEF IsPending
  <2> QED BY Zenon, <1>4, <2>1 DEF Payment
<1>6. IsPending(stamped) <=> IsPending(clone)
  BY Zenon, <1>5, PendingStatus
<1>7. Successor(p, stamped)
  BY Zenon, <1>5, <1>6 DEF Successor, assert_invariants
<1>8. CheckOnchainConf(p, conf) \in {None, stamped}
  BY Zenon DEF CheckOnchainConf, clone, new_status, new_replacement
<1> QED BY Zenon, <1>7, <1>8

(* Registering a broadcast keeps a send pending. *)
LEMMA BroadcastTransition ==
    ASSUME NEW p \in Payment, assert_invariants(p), IsPending(p)
    PROVE  broadcasted(p) # None =>
             Successor(p, broadcasted(p)) /\ IsPending(broadcasted(p))
<1>1. Successor(p, To(p, "Broadcasted")) /\ IsPending(To(p, "Broadcasted"))
  BY ZenonT(30), ToIsSuccessor, StatusNames DEF CompletedStatuses, FailedStatuses
<1> QED BY Zenon, <1>1 DEF broadcasted

(* New payments are pending. *)
LEMMA NewPaymentsArePending ==
    ASSUME NEW n \in Notes \cup {None},
           NEW p \in {NewInboundInvoice, NewInboundSpontaneous,
                      NewOutboundInvoice(n), NewOnchainSend(n), NewOnchainReceive}
    PROVE  p \in Payment /\ IsPending(p) /\ assert_invariants(p)
<1>1. PICK k \in Kinds, s \in Statuses, m \in Notes \cup {None} :
        /\ p = NewPayment(k, s, m)
        /\ s \notin CompletedStatuses \cup FailedStatuses
  BY ZenonT(30), StatusNames DEF NewInboundInvoice, NewInboundSpontaneous, NewOutboundInvoice,
     NewOnchainSend, NewOnchainReceive, Kinds, CompletedStatuses, FailedStatuses
<1>2. p \in Payment /\ p.status = s /\ p.finalized_at = FALSE
  BY Zenon, <1>1 DEF NewPayment, Payment
<1>3. IsPending(p) BY Zenon, <1>1, <1>2, PendingStatus
<1> QED BY Zenon, <1>2, <1>3 DEF assert_invariants

(* Writing a note changes nothing else. *)
LEMMA NoteTransition ==
    ASSUME NEW p \in Payment, NEW n \in Notes \cup {None}, assert_invariants(p)
    PROVE  /\ set_note(p, n) \in Payment /\ set_note(p, n).kind = p.kind
           /\ set_note(p, n).status = p.status /\ set_note(p, n).note = n
           /\ assert_invariants(set_note(p, n))
           /\ IsPending(set_note(p, n)) <=> IsPending(p)
           /\ set_note(p, n) = set_note(p, set_note(p, n).note)
<1>1. /\ set_note(p, n) \in Payment /\ set_note(p, n).kind = p.kind
      /\ set_note(p, n).status = p.status /\ set_note(p, n).note = n
      /\ set_note(p, n).finalized_at = p.finalized_at
  BY Zenon DEF set_note, Payment
<1>2. IsPending(set_note(p, n)) <=> IsPending(p) BY Zenon, <1>1, PendingStatus
<1> QED BY Zenon, <1>1, <1>2 DEF assert_invariants
-----------------------------------------------------------------------------
(* Check steps: the request that an operation sends is sound. *)

(* What a request must satisfy when its operation takes the lock. *)
SoundRequest(name, batch) ==
    /\ batch \in Table
    /\ \A i \in Ids : batch[i] # None =>
        /\ assert_invariants(batch[i])
        /\ pending[i] # None =>
             /\ batch[i].kind = pending[i].kind
             /\ name # "note" => batch[i].note = pending[i].note
             /\ i \notin LnHashes /\ name # "confs" => IsPending(batch[i])
        /\ i \in finalized => name = "note" /\ batch[i] = set_note(db[i], batch[i].note)
        /\ ~contains_payment_id(i) => IsPending(batch[i])
        /\ name = "claimable" => batch[i].status = "Claiming"
        /\ i \notin LnHashes => batch[i].kind \in {"OnchainSend", "OnchainReceive"}
        /\ i \in claimed => batch[i].status \in {"Claiming", "Completed"}

(* Taking the lock with a sound request preserves the invariant. *)
LEMMA BeginPreserves ==
    ASSUME IInv, NEW name \in OpNames, NEW create \in BOOLEAN, NEW batch,
           SoundRequest(name, batch), Begin(name, create, batch),
           confIds' \in {confIds, {}}, name = "confs" => confIds' = {},
           recvIds' \in SUBSET Txids
    PROVE  IInv'
<1> USE DEF Begin
<1>1. /\ op'.name = name /\ op'.create = create /\ op'.batch = batch
      /\ op'.reply = "waiting" /\ name # "idle" /\ up /\ up' /\ op = Idle
  BY Zenon DEF IInv, OpShape, LockFree, OpNames
<1>2. TypeOK'
  BY Zenon DEF IInv, TypeOK, SoundRequest
<1>3. OpShape'
  BY Zenon, <1>1 DEF OpShape
<1>4. MemoryNotAhead'
  BY Zenon DEF IInv, MemoryNotAhead
<1>5. PaymentsDataInvariants'
  BY Zenon DEF IInv, PaymentsDataInvariants
<1>6. (\A i \in confIds : pending[i] # None)'
  BY Zenon DEF IInv
<1>7. ASSUME NEW i \in Ids PROVE BatchAt(i)'
  BY Zenon, <1>1 DEF BatchAt, SoundRequest, contains_payment_id
<1>8. ASSUME NEW i \in Ids PROVE OnchainAt(i)'
  BY <1>1 DEF IInv, OnchainAt, SoundRequest
<1>9. ASSUME NEW i \in Ids PROVE SyncedAt(i)'
  BY Zenon, <1>1 DEF IInv, SyncedAt, InSyncAt, Idle
<1>10. ASSUME NEW h \in LnHashes PROVE ClaimedAt(h)'
  BY Zenon, <1>1 DEF IInv, ClaimedAt, SoundRequest, contains_payment_id, Ids
<1> QED BY Zenon, <1>2, <1>3, <1>4, <1>5, <1>6, <1>7, <1>8, <1>9, <1>10 DEF IInv

(* A request about one payment of memory that is a successor of it. *)
LEMMA SuccessorRequest ==
    ASSUME IInv, NEW name \in OpNames \ {"note"}, NEW id \in Ids, NEW q,
           pending[id] # None, Successor(pending[id], q),
           id \notin LnHashes /\ name # "confs" => IsPending(q),
           name = "claimable" => q.status = "Claiming",
           id \in claimed => q.status \in {"Claiming", "Completed"}
    PROVE  SoundRequest(name, Only(id, q))
<1>1. Only(id, q) \in Table BY Zenon DEF Only, Table, Successor
<1>2. id \notin finalized /\ contains_payment_id(id)
  BY Zenon DEF IInv, PaymentsDataInvariants, contains_payment_id
<1>3. id \notin LnHashes => q.kind \in {"OnchainSend", "OnchainReceive"}
  BY Zenon DEF IInv, OnchainAt, Successor
<1>4. \A i \in Ids : Only(id, q)[i] # None => i = id /\ Only(id, q)[i] = q
  BY Zenon DEF Only
<1> QED BY Zenon, <1>1, <1>2, <1>3, <1>4 DEF SoundRequest, Successor

(* A request for a payment that memory does not know. *)
LEMMA NewRequest ==
    ASSUME IInv, up, NEW name \in OpNames \ {"note"}, NEW id \in Ids, NEW q \in Payment,
           ~contains_payment_id(id), IsPending(q), assert_invariants(q),
           name = "claimable" => q.status = "Claiming",
           id \notin LnHashes => q.kind \in {"OnchainSend", "OnchainReceive"}
    PROVE  SoundRequest(name, Only(id, q))
<1>1. Only(id, q) \in Table BY Zenon DEF Only, Table
<1>2. pending[id] = None /\ id \notin finalized BY Zenon DEF contains_payment_id
<1>3. id \notin claimed BY Zenon DEF IInv, ClaimedAt, TypeOK
<1>4. \A i \in Ids : Only(id, q)[i] # None => i = id /\ Only(id, q)[i] = q
  BY Zenon DEF Only
<1> QED BY Zenon, <1>1, <1>2, <1>3, <1>4 DEF SoundRequest
(* What the invariant says of a payment in the pending map. *)
LEMMA PendingFacts ==
    ASSUME IInv, NEW id \in Ids, pending[id] # None
    PROVE  /\ pending[id] \in Payment /\ IsPending(pending[id])
           /\ assert_invariants(pending[id])
           /\ id \in claimed => pending[id].status = "Claiming"
           /\ id \notin LnHashes => pending[id].kind \in {"OnchainSend", "OnchainReceive"}
<1>1. pending[id] \in Payment
  BY Zenon DEF IInv, TypeOK, Table
<1>2. id \in claimed => pending[id].status = "Claiming"
  BY Zenon DEF IInv, TypeOK, ClaimedAt
<1> QED BY Zenon, <1>1, <1>2 DEF IInv, PaymentsDataInvariants, OnchainAt

(* Each operation's check step preserves the invariant. *)
LEMMA ChecksPreserve ==
    ASSUME IInv,
           \/ \E h \in LnHashes :
                 \/ new_payment(h, NewInboundInvoice)
                 \/ \E n \in Notes \cup {None} : new_payment(h, NewOutboundInvoice(n))
                 \/ \E why \in {"Invoice", "Spontaneous"} :
                       payment_claimable(h, why) \/ payment_claimed(h, why)
                 \/ payment_sent(h)
                 \/ payment_failed(h)
           \/ \E c \in Cids :
                 \/ \E n \in Notes \cup {None} : new_payment(c, NewOnchainSend(n))
                 \/ onchain_send_broadcasted(c)
           \/ \E i \in Ids, n \in Notes \cup {None} : update_payment_note(i, n)
           \/ CheckInvoiceExpiries
           \/ \E s \in [confIds -> TxConfStatus(ConfCounts)] : CheckOnchainConfs(s)
           \/ \E t \in Txids : RegisterOnchainReceive(t)
    PROVE  IInv'
<1> USE DEF OpNames
<1>0. recvIds \in SUBSET Txids /\ LnHashes \subseteq Ids /\ Cids \subseteq Ids /\ Txids \subseteq Ids
  BY Zenon DEF IInv, TypeOK, Ids
<1>1. ASSUME NEW id \in Ids, NEW p \in Payment, new_payment(id, p),
             IsPending(p), assert_invariants(p),
             id \notin LnHashes => p.kind \in {"OnchainSend", "OnchainReceive"}
      PROVE  IInv'
  <2>1. /\ ~contains_payment_id(id) /\ up
        /\ Begin("new", TRUE, Only(id, p))
        /\ confIds' = confIds /\ recvIds' = recvIds
    BY Zenon, <1>1 DEF new_payment, BeginOne, Begin, check_new_payment
  <2>2. SoundRequest("new", Only(id, p)) BY Zenon, <1>1, <2>1, NewRequest
  <2> QED BY Zenon, <1>0, <2>1, <2>2, BeginPreserves
<1>2. ASSUME NEW h \in LnHashes, new_payment(h, NewInboundInvoice) PROVE IInv'
  BY Zenon, <1>0, <1>1, <1>2, NewPaymentsArePending
<1>3. ASSUME NEW h \in LnHashes, NEW n \in Notes \cup {None},
             new_payment(h, NewOutboundInvoice(n)) PROVE IInv'
  BY Zenon, <1>0, <1>1, <1>3, NewPaymentsArePending
<1>4. ASSUME NEW c \in Cids, NEW n \in Notes \cup {None},
             new_payment(c, NewOnchainSend(n)) PROVE IInv'
  <2>1. NewOnchainSend(n).kind = "OnchainSend" BY Zenon DEF NewOnchainSend, NewPayment
  <2> QED BY Zenon, <1>0, <1>1, <1>4, <2>1, NewPaymentsArePending
<1>5. ASSUME NEW h \in LnHashes, NEW why \in {"Invoice", "Spontaneous"},
             payment_claimable(h, why) PROVE IInv'
  <2> DEFINE q == check_payment_claimable(h, why)
  <2>1. /\ q # None /\ up /\ Begin("claimable", FALSE, Only(h, q))
        /\ confIds' = confIds /\ recvIds' = recvIds
    BY Zenon, <1>5 DEF payment_claimable, BeginOne, Begin
  <2>2. h \notin finalized BY Zenon, <2>1 DEF check_payment_claimable
  <2>3. CASE pending[h] # None
    <3>1. q = CheckClaimable(pending[h], why, h \in expired)
      BY Zenon, <2>2, <2>3 DEF check_payment_claimable
    <3>2. Successor(pending[h], q) /\ q.status = "Claiming"
      BY <1>0, <2>1, <2>3, <3>1, PendingFacts, ClaimableTransition
    <3>3. SoundRequest("claimable", Only(h, q))
      BY Zenon, <1>0, <2>3, <3>2, SuccessorRequest
    <3> QED BY Zenon, <1>0, <2>1, <3>3, BeginPreserves
  <2>4. CASE pending[h] = None
    <3>1. ~contains_payment_id(h) BY Zenon, <2>2, <2>4 DEF contains_payment_id
    <3>2. q = NewInboundSpontaneous
      BY Zenon, <2>1, <2>2, <2>4, <3>1 DEF check_payment_claimable, check_new_payment
    <3>3. q.status = "Claiming" BY <3>2 DEF NewInboundSpontaneous, NewPayment
    <3>4. q \in Payment /\ IsPending(q) /\ assert_invariants(q)
      BY Zenon, <3>2, NewPaymentsArePending
    <3>5. SoundRequest("claimable", Only(h, q))
      BY Zenon, <1>0, <2>1, <3>1, <3>3, <3>4, NewRequest
    <3> QED BY Zenon, <1>0, <2>1, <3>5, BeginPreserves
  <2> QED BY Zenon, <2>3, <2>4
<1>6. ASSUME NEW name \in {"claimed", "sent", "failed", "broadcasted"},
             NEW id \in Ids, NEW q, pending[id] # None, Successor(pending[id], q),
             BeginOne(name, FALSE, id, q), recvIds' = recvIds,
             id \notin LnHashes => IsPending(q),
             id \in claimed => q.status = "Completed"
      PROVE  IInv'
  <2>1. SoundRequest(name, Only(id, q)) BY Zenon, <1>6, SuccessorRequest
  <2> QED BY Zenon, <1>0, <1>6, <2>1, BeginPreserves DEF BeginOne
<1>7. ASSUME NEW h \in LnHashes, NEW why \in {"Invoice", "Spontaneous"},
             payment_claimed(h, why) PROVE IInv'
  <2> DEFINE q == check_payment_claimed(h, why)
  <2>1. pending[h] # None /\ q # None /\ q = CheckClaimed(pending[h], why)
    BY Zenon, <1>7 DEF payment_claimed, BeginOne, check_payment_claimed
  <2>2. Successor(pending[h], q) /\ q.status = "Completed"
    BY Zenon, <1>0, <2>1, PendingFacts, ClaimedTransition
  <2> QED BY Zenon, <1>0, <1>6, <1>7, <2>1, <2>2 DEF payment_claimed
<1>8. ASSUME NEW h \in LnHashes, payment_sent(h) PROVE IInv'
  <2> DEFINE q == check_payment_sent(h)
  <2>1. pending[h] # None /\ q # None /\ q = CheckSent(pending[h])
    BY Zenon, <1>8 DEF payment_sent, BeginOne, check_payment_sent
  <2>2. Successor(pending[h], q) /\ h \notin claimed
    BY Zenon, <1>0, <2>1, PendingFacts, OutboundTransitions
  <2> QED BY Zenon, <1>0, <1>6, <1>8, <2>1, <2>2 DEF payment_sent
<1>9. ASSUME NEW h \in LnHashes, payment_failed(h) PROVE IInv'
  <2> DEFINE q == check_payment_failed(h)
  <2>1. pending[h] # None /\ q # None /\ q = CheckFailed(pending[h])
    BY Zenon, <1>9 DEF payment_failed, BeginOne, check_payment_failed
  <2>2. Successor(pending[h], q) /\ h \notin claimed
    BY Zenon, <1>0, <2>1, PendingFacts, OutboundTransitions
  <2> QED BY Zenon, <1>0, <1>6, <1>9, <2>1, <2>2 DEF payment_failed
<1>10. ASSUME NEW c \in Cids, onchain_send_broadcasted(c) PROVE IInv'
  <2> DEFINE q == check_broadcasted(c)
  <2>1. pending[c] # None /\ q # None /\ q = broadcasted(pending[c])
    BY Zenon, <1>10 DEF onchain_send_broadcasted, BeginOne, check_broadcasted
  <2>2. Successor(pending[c], q) /\ IsPending(q)
    BY Zenon, <1>0, <2>1, PendingFacts, BroadcastTransition
  <2>3. c \notin claimed BY Zenon, IdsAreDisjoint DEF IInv, TypeOK
  <2> QED BY Zenon, <1>0, <1>6, <1>10, <2>1, <2>2, <2>3 DEF onchain_send_broadcasted
<1>11. ASSUME NEW t \in Txids, RegisterOnchainReceive(t) PROVE IInv'
  <2> DEFINE q == NewOnchainReceive
  <2>1. /\ ~contains_payment_id(t) /\ up /\ Begin("new", TRUE, Only(t, q))
        /\ confIds' = confIds /\ recvIds' = recvIds \ {t}
    BY Zenon, <1>11 DEF RegisterOnchainReceive, BeginOne, Begin, check_new_payment
  <2>2. q.kind = "OnchainReceive" BY Zenon DEF NewOnchainReceive, NewPayment
  <2>3. q \in Payment /\ IsPending(q) /\ assert_invariants(q)
    BY Zenon, NewPaymentsArePending
  <2>4. SoundRequest("new", Only(t, q)) BY Zenon, <1>0, <2>1, <2>2, <2>3, NewRequest
  <2> QED BY Zenon, <1>0, <2>1, <2>4, BeginPreserves
<1>12. ASSUME NEW id \in Ids, NEW n \in Notes \cup {None}, update_payment_note(id, n)
       PROVE IInv'
  <2> DEFINE p == IF pending[id] # None THEN pending[id] ELSE db[id]
  <2> DEFINE q == set_note(p, n)
  <2>1. /\ contains_payment_id(id) /\ up /\ Begin("note", FALSE, Only(id, q))
        /\ confIds' = confIds /\ recvIds' = recvIds
    BY Zenon, <1>12 DEF update_payment_note, BeginOne, Begin
  <2>2. db[id] # None
    BY Zenon, <2>1 DEF IInv, MemoryNotAhead, contains_payment_id
  <2>3. db[id] \in Payment /\ assert_invariants(db[id])
    BY Zenon, <2>2 DEF IInv, TypeOK, Table, PaymentsDataInvariants
  <2>4. p \in Payment /\ assert_invariants(p) BY Zenon, <2>3, PendingFacts
  <2>5. id \in claimed => p.status \in {"Claiming", "Completed"}
    BY Zenon, PendingFacts DEF IInv, ClaimedAt, TypeOK
  <2>6. id \notin LnHashes => p.kind \in {"OnchainSend", "OnchainReceive"}
    BY Zenon, <2>2, PendingFacts DEF IInv, OnchainAt
  <2>7. /\ q \in Payment /\ q.kind = p.kind /\ q.status = p.status /\ q.note = n
        /\ assert_invariants(q) /\ (IsPending(q) <=> IsPending(p))
        /\ q = set_note(p, q.note)
    BY Zenon, <2>4, NoteTransition
  <2>8. pending[id] # None => p = pending[id] /\ IsPending(p) /\ id \notin finalized
    BY Zenon, PendingFacts DEF IInv, PaymentsDataInvariants
  <2>9. id \in finalized => p = db[id] BY Zenon, <2>8
  <2>10. \A i \in Ids : Only(id, q)[i] # None => i = id /\ Only(id, q)[i] = q
    BY Zenon DEF Only
  <2>11. Only(id, q) \in Table BY Zenon, <2>7 DEF Only, Table
  <2> HIDE DEF p, q
  <2>12. SoundRequest("note", Only(id, q))
    BY ZenonT(30), <2>1, <2>5, <2>6, <2>7, <2>8, <2>9, <2>10, <2>11 DEF SoundRequest
  <2> QED BY Zenon, <1>0, <2>1, <2>12, BeginPreserves
<1>13. ASSUME CheckInvoiceExpiries PROVE IInv'
  <2> DEFINE batch == check_invoice_expiries
  <2>1. /\ Begin("expiries", FALSE, batch)
        /\ confIds' = confIds /\ recvIds' = recvIds
    BY Zenon, <1>13 DEF CheckInvoiceExpiries
  <2>2. ASSUME NEW i \in Ids, batch[i] # None
        PROVE  /\ pending[i] # None /\ i \in LnHashes /\ i \notin claimed
               /\ Successor(pending[i], batch[i])
    <3>1. /\ pending[i] # None /\ i \in LnHashes
          /\ batch[i] = CheckInvoiceExpiry(pending[i], i \in expired)
      BY Zenon, <2>2 DEF check_invoice_expiries
    <3>2. /\ pending[i] \in Payment /\ IsPending(pending[i])
          /\ assert_invariants(pending[i])
          /\ i \in claimed => pending[i].status = "Claiming"
      BY Zenon, <3>1, PendingFacts
    <3>3. /\ Successor(pending[i], batch[i])
          /\ pending[i].status \in {"Pending", "InvoiceGenerated"}
      BY Zenon, <2>2, <3>1, <3>2, ExpiryTransition
    <3> QED BY Zenon, <3>1, <3>2, <3>3
  <2>3. batch \in Table
    <3>1. \A i \in Ids : batch[i] \in Payment \cup {None} BY Zenon, <2>2 DEF Successor
    <3> QED BY Zenon, <3>1 DEF Table, check_invoice_expiries
  <2>4. \A i \in Ids : pending[i] # None => i \notin finalized /\ contains_payment_id(i)
    BY Zenon DEF IInv, PaymentsDataInvariants, contains_payment_id
  <2> HIDE DEF batch
  <2>5. SoundRequest("expiries", batch)
    BY Zenon, <2>2, <2>3, <2>4 DEF SoundRequest, Successor
  <2> QED BY Zenon, <1>0, <2>1, <2>5, BeginPreserves
<1>14. ASSUME NEW s \in [confIds -> TxConfStatus(ConfCounts)], CheckOnchainConfs(s)
       PROVE  IInv'
  <2> DEFINE batch == check_onchain_confs(confIds, s)
  <2>1. /\ Begin("confs", FALSE, batch)
        /\ confIds' = {} /\ recvIds' = recvIds
    BY Zenon, <1>14 DEF CheckOnchainConfs
  <2>2. ASSUME NEW i \in Ids, batch[i] # None
        PROVE  /\ pending[i] # None /\ i \notin LnHashes
               /\ Successor(pending[i], batch[i])
    <3>1. i \in confIds /\ batch[i] = CheckOnchainConf(pending[i], s[i])
      BY Zenon, <2>2 DEF check_onchain_confs
    <3>2. pending[i] # None /\ i \notin LnHashes
      BY Zenon, <3>1, IdsAreDisjoint DEF IInv, TypeOK
    <3>3. /\ pending[i] \in Payment /\ IsPending(pending[i])
          /\ assert_invariants(pending[i])
          /\ pending[i].kind \in {"OnchainSend", "OnchainReceive"}
      BY Zenon, <3>2, PendingFacts
    <3>4. s[i] \in TxConfStatus(ConfCounts) BY Zenon, <3>1
    <3> QED BY Zenon, <2>2, <3>1, <3>2, <3>3, <3>4, OnchainTransitions
  <2>3. batch \in Table
    <3>1. \A i \in Ids : batch[i] \in Payment \cup {None} BY Zenon, <2>2 DEF Successor
    <3> QED BY Zenon, <3>1 DEF Table, check_onchain_confs
  <2>4. \A i \in Ids : pending[i] # None => i \notin finalized /\ contains_payment_id(i)
    BY Zenon DEF IInv, PaymentsDataInvariants, contains_payment_id
  <2>5. \A i \in Ids : /\ i \in claimed => i \in LnHashes
                       /\ pending[i] # None /\ i \notin LnHashes =>
                            pending[i].kind \in {"OnchainSend", "OnchainReceive"}
    BY Zenon DEF IInv, TypeOK, OnchainAt
  <2> HIDE DEF batch
  <2>6. SoundRequest("confs", batch)
    BY Zenon, <2>2, <2>3, <2>4, <2>5 DEF SoundRequest, Successor
  <2> QED BY Zenon, <1>0, <2>1, <2>6, BeginPreserves
<1> QED BY Zenon, <1>2, <1>3, <1>4, <1>5, <1>7, <1>8, <1>9, <1>10, <1>11, <1>12, <1>13, <1>14

-----------------------------------------------------------------------------
(* The other steps. *)

(* The initial state satisfies the invariant. *)
LEMMA InitInv == Init => IInv
<1> SUFFICES ASSUME Init PROVE IInv OBVIOUS
<1> USE DEF Init
<1>1. NoPayments \in Table BY Zenon DEF NoPayments, Table
<1>2. \A i \in Ids : pending[i] = None /\ db[i] = None /\ op.batch[i] = None
  BY Zenon DEF NoPayments, Idle
<1>3. TypeOK BY Zenon, <1>1 DEF TypeOK, Idle
<1>4. OpShape BY Zenon DEF OpShape, Idle
<1>5. MemoryNotAhead BY Zenon, <1>2 DEF MemoryNotAhead
<1>6. PaymentsDataInvariants BY Zenon, <1>2 DEF PaymentsDataInvariants
<1>7. \A i \in Ids : BatchAt(i) /\ OnchainAt(i) /\ SyncedAt(i)
  BY Zenon, <1>2 DEF BatchAt, OnchainAt, SyncedAt, InSyncAt
<1>8. \A h \in LnHashes : ClaimedAt(h) BY Zenon DEF ClaimedAt
<1> QED BY Zenon, <1>3, <1>4, <1>5, <1>6, <1>7, <1>8 DEF IInv

(* The snapshots of the two onchain checkers touch nothing else, and ids   *)
(* are collected from the pending map under the lock.                      *)
LEMMA SnapshotsPreserve ==
    ASSUME IInv, SnapshotOnchainConfs \/ DropOnchainConfs \/ DropOnchainReceives
                 \/ \E txs \in SUBSET Txids : SnapshotOnchainReceives(txs)
    PROVE  IInv'
<1> USE DEF SnapshotOnchainConfs, DropOnchainConfs, DropOnchainReceives,
            SnapshotOnchainReceives
<1>1. /\ UNCHANGED <<up, pending, finalized, op, expired, claimed, db>> /\ up
      /\ confIds' \in SUBSET (Cids \cup Txids) /\ recvIds' \in SUBSET Txids
      /\ op.name = "confs" => confIds' = {}
      /\ \A i \in confIds' : pending[i] # None
  BY Zenon DEF IInv, TypeOK, OpShape, LockFree
<1>2. TypeOK' BY Zenon, <1>1 DEF IInv, TypeOK
<1>3. OpShape' BY Zenon, <1>1 DEF IInv, OpShape
<1>4. MemoryNotAhead' /\ PaymentsDataInvariants'
  BY Zenon, <1>1 DEF IInv, MemoryNotAhead, PaymentsDataInvariants
<1>5. ASSUME NEW i \in Ids PROVE BatchAt(i)' /\ OnchainAt(i)' /\ SyncedAt(i)'
  BY Zenon, <1>1 DEF IInv, BatchAt, OnchainAt, SyncedAt, InSyncAt, contains_payment_id
<1>6. ASSUME NEW h \in LnHashes PROVE ClaimedAt(h)'
  BY Zenon, <1>1 DEF IInv, ClaimedAt, contains_payment_id
<1> QED BY Zenon, <1>1, <1>2, <1>3, <1>4, <1>5, <1>6 DEF IInv

(* The backend applies or refuses the request of the lock holder. *)
LEMMA BackendPreserves ==
    ASSUME IInv, BackendApplies \/ BackendRefuses
    PROVE  IInv'
<1>1. PICK r \in {"ok", "err"} :
        /\ op' = [op EXCEPT !.reply = r] /\ op.reply = "waiting"
        /\ UNCHANGED <<up, pending, finalized, confIds, recvIds, expired, claimed>>
        /\ \/ db' = Overlay(op.batch, db) /\ (r = "ok" \/ LostReplies)
           \/ db' = db /\ r = "err"
  BY Zenon DEF BackendApplies, BackendRefuses, Reply
<1>2. /\ op'.name = op.name /\ op'.batch = op.batch /\ op'.create = op.create
      /\ op'.reply = r /\ op.name # "idle" /\ up
  BY <1>1 DEF IInv, TypeOK, OpShape, Idle
<1>3. \A i \in Ids : \/ db'[i] = db[i] /\ (r = "ok" => op.batch[i] = None)
                     \/ /\ op.batch[i] # None /\ db'[i] = op.batch[i]
                        /\ r = "ok" \/ LostReplies
  BY Zenon, <1>1 DEF Overlay
<1>4. TypeOK'
  <2>1. db' \in Table BY Zenon, <1>1 DEF IInv, TypeOK, Table, Overlay
  <2> QED BY Zenon, <1>1, <2>1 DEF IInv, TypeOK
<1>5. OpShape' BY Zenon, <1>1, <1>2 DEF IInv, OpShape
<1>6. \A i \in Ids : i \in finalized /\ op.batch[i] # None =>
        ~IsPending(op.batch[i])
  <2> SUFFICES ASSUME NEW i \in Ids, i \in finalized, op.batch[i] # None
               PROVE  ~IsPending(op.batch[i])
    OBVIOUS
  <2>1. op.batch[i] = set_note(db[i], op.batch[i].note) BY Zenon DEF IInv, BatchAt
  <2>2. db[i] # None /\ ~IsPending(db[i]) BY Zenon DEF IInv, MemoryNotAhead
  <2>3. db[i] \in Payment /\ op.batch[i] \in Payment BY Zenon, <2>2 DEF IInv, TypeOK, Table
  <2>4. op.batch[i].status = db[i].status
    BY Zenon, <2>1, <2>3 DEF set_note, Payment
  <2> QED BY Zenon, <2>2, <2>4, PendingStatus
<1>7. MemoryNotAhead'
  BY <1>1, <1>3, <1>6 DEF IInv, MemoryNotAhead, BatchAt
<1>8. PaymentsDataInvariants'
  BY Zenon, <1>1, <1>3 DEF IInv, PaymentsDataInvariants, BatchAt
<1>9. (\A i \in confIds : pending[i] # None)' BY Zenon, <1>1 DEF IInv
<1>10. ASSUME NEW i \in Ids PROVE BatchAt(i)'
  <2>1. op.batch[i] # None /\ i \in finalized =>
          op.batch[i] = set_note(db'[i], op.batch[i].note)
    <3> SUFFICES ASSUME op.batch[i] # None, i \in finalized
                 PROVE  op.batch[i] = set_note(db'[i], op.batch[i].note)
      OBVIOUS
    <3>1. op.batch[i] = set_note(db[i], op.batch[i].note) BY Zenon DEF IInv, BatchAt
    <3>2. op.batch[i] \in Payment BY Zenon DEF IInv, TypeOK, Table
    <3>3. op.batch[i] = set_note(op.batch[i], op.batch[i].note)
      BY Zenon, <3>2 DEF set_note, Payment
    <3> QED BY Zenon, <1>3, <3>1, <3>3
  <2>2. op.batch[i] # None /\ r = "ok" => db'[i] = op.batch[i] BY Zenon, <1>3
  <2> QED BY ZenonT(30), <1>1, <1>2, <2>1, <2>2 DEF IInv, BatchAt, contains_payment_id
<1>11. ASSUME NEW i \in Ids PROVE OnchainAt(i)'
  BY <1>1, <1>2, <1>3 DEF IInv, OnchainAt
<1>12. ASSUME NEW i \in Ids PROVE SyncedAt(i)'
  BY Zenon, <1>1, <1>2, <1>3 DEF IInv, SyncedAt, InSyncAt
<1>13. ASSUME NEW h \in LnHashes PROVE ClaimedAt(h)'
  BY <1>1, <1>2, <1>3 DEF IInv, ClaimedAt, contains_payment_id, Ids
<1> QED BY Zenon, <1>4, <1>5, <1>7, <1>8, <1>9, <1>10, <1>11, <1>12, <1>13 DEF IInv

(* Nothing is under way when the lock is released without a commit. *)
LEMMA AbortPreserves ==
    ASSUME IInv, Abort
    PROVE  IInv'
<1>1. /\ op' = Idle /\ op.reply = "err"
      /\ UNCHANGED <<up, pending, finalized, confIds, recvIds, expired, claimed, db>>
  BY Zenon DEF Abort
<1>2. NoPayments \in Table /\ \A i \in Ids : op'.batch[i] = None
  BY Zenon, <1>1 DEF NoPayments, Table, Idle
<1>3. op'.name = "idle" /\ op'.reply = "none" BY Zenon, <1>1 DEF Idle
<1>4. TypeOK' BY Zenon, <1>1, <1>2 DEF IInv, TypeOK, Idle
<1>5. OpShape' BY Zenon, <1>1, <1>3 DEF IInv, OpShape
<1>6. MemoryNotAhead' /\ PaymentsDataInvariants' /\ (\A i \in confIds : pending[i] # None)'
  BY Zenon, <1>1 DEF IInv, MemoryNotAhead, PaymentsDataInvariants
<1>7. ASSUME NEW i \in Ids PROVE BatchAt(i)' /\ OnchainAt(i)' /\ SyncedAt(i)'
  BY <1>1, <1>2 DEF IInv, BatchAt, OnchainAt, SyncedAt, InSyncAt
<1>8. ASSUME NEW h \in LnHashes PROVE ClaimedAt(h)'
  BY Zenon, <1>1, <1>2 DEF IInv, ClaimedAt, contains_payment_id, Ids
<1> QED BY Zenon, <1>4, <1>5, <1>6, <1>7, <1>8 DEF IInv

(* Commit copies to memory what the backend has just confirmed. *)
LEMMA CommitPreserves ==
    ASSUME IInv, Commit
    PROVE  IInv'
<1>1. /\ op' = Idle /\ op.reply = "ok"
      /\ UNCHANGED <<up, confIds, recvIds, expired, db>>
      /\ pending' = CommitPending(op.batch)
      /\ finalized' = CommitFinalized(op.batch)
      /\ claimed' = IF op.name = "claimable"
                    THEN claimed \cup {h \in LnHashes : op.batch[h] # None}
                    ELSE claimed
  BY Zenon DEF Commit
<1>2. /\ NoPayments \in Table /\ \A i \in Ids : op'.batch[i] = None
      /\ op'.name = "idle" /\ op'.reply = "none"
  BY Zenon, <1>1 DEF NoPayments, Table, Idle
<1>3. up /\ op.name # "idle" BY <1>1 DEF IInv, OpShape, Idle
<1>4. \A i \in Ids :
        \/ op.batch[i] = None /\ pending'[i] = pending[i] /\ (i \in finalized' <=> i \in finalized)
        \/ /\ op.batch[i] # None /\ db[i] = op.batch[i] /\ IsPending(op.batch[i])
           /\ pending'[i] = op.batch[i] /\ i \notin finalized /\ i \notin finalized'
        \/ /\ op.batch[i] # None /\ db[i] = op.batch[i] /\ ~IsPending(op.batch[i])
           /\ pending'[i] = None /\ i \in finalized'
  <2> SUFFICES ASSUME NEW i \in Ids, op.batch[i] # None, IsPending(op.batch[i])
               PROVE  i \notin finalized
    BY Zenon, <1>1 DEF CommitPending, CommitFinalized, IInv, BatchAt
  <2>1. db[i] = op.batch[i] BY Zenon, <1>1 DEF IInv, BatchAt
  <2> QED BY Zenon, <2>1 DEF IInv, MemoryNotAhead
<1>5. TypeOK'
  <2>1. pending' \in Table
    BY Zenon, <1>1 DEF CommitPending, IInv, TypeOK, Table
  <2>2. finalized' \in SUBSET Ids
    BY Zenon, <1>1 DEF CommitFinalized, IInv, TypeOK
  <2>3. claimed' \in SUBSET LnHashes BY Zenon, <1>1 DEF IInv, TypeOK
  <2> QED BY Zenon, <1>1, <1>2, <2>1, <2>2, <2>3 DEF IInv, TypeOK, Idle
<1>6. OpShape' BY Zenon, <1>1, <1>2, <1>3 DEF OpShape
<1>7. MemoryNotAhead' BY Zenon, <1>1, <1>4 DEF IInv, MemoryNotAhead
<1>8. PaymentsDataInvariants'
  BY Zenon, <1>1, <1>4 DEF IInv, PaymentsDataInvariants, BatchAt
<1>9. ASSUME NEW i \in confIds' PROVE pending'[i] # None
  <2>1. /\ i \in confIds /\ pending[i] # None /\ op.name # "confs"
        /\ i \in Ids /\ i \notin LnHashes
    BY Zenon, <1>1, <1>9, IdsAreDisjoint DEF IInv, OpShape, TypeOK, Ids
  <2>2. op.batch[i] # None => IsPending(op.batch[i])
    BY Zenon, <2>1 DEF IInv, BatchAt
  <2> QED BY Zenon, <1>4, <2>1, <2>2
<1>10. ASSUME NEW i \in Ids PROVE BatchAt(i)' /\ OnchainAt(i)' /\ SyncedAt(i)'
  <2>1. BatchAt(i)' BY Zenon, <1>2 DEF BatchAt
  <2>2. OnchainAt(i)' BY <1>1, <1>2, <1>4 DEF IInv, OnchainAt
  <2>3. SyncedAt(i)' BY Zenon, <1>1, <1>2, <1>3, <1>4 DEF IInv, SyncedAt, InSyncAt
  <2> QED BY Zenon, <2>1, <2>2, <2>3
<1>11. ASSUME NEW h \in LnHashes PROVE ClaimedAt(h)'
  <2>1. h \in Ids BY Zenon DEF Ids
  <2>2. \A p : p.status = "Claiming" => IsPending(p)
    BY Zenon, PendingStatus DEF CompletedStatuses, FailedStatuses
  <2>3. CASE h \in claimed
    <3>1. pending'[h] # None => pending'[h].status = "Claiming"
      <4>1. op.batch[h] # None /\ IsPending(op.batch[h]) => op.batch[h].status = "Claiming"
        BY Zenon, <2>3, PendingStatus DEF IInv, ClaimedAt, CompletedStatuses
      <4> QED BY Zenon, <1>4, <2>1, <2>3, <4>1 DEF IInv, ClaimedAt
    <3>2. pending'[h] # None \/ h \in finalized'
      BY Zenon, <1>3, <1>4, <2>1, <2>3 DEF IInv, ClaimedAt, contains_payment_id
    <3> QED BY Zenon, <1>1, <1>2, <2>1, <2>3, <3>1, <3>2 DEF IInv, ClaimedAt, contains_payment_id
  <2>4. CASE h \in claimed' /\ h \notin claimed
    <3>1. op.name = "claimable" /\ op.batch[h] # None BY Zenon, <1>1, <2>4
    <3>2. op.batch[h].status = "Claiming" /\ db[h] = op.batch[h]
      BY Zenon, <1>1, <2>1, <3>1 DEF IInv, BatchAt
    <3>3. pending'[h] = op.batch[h] BY Zenon, <1>4, <2>1, <2>2, <3>1, <3>2
    <3> QED BY Zenon, <1>1, <1>2, <2>1, <3>1, <3>2, <3>3 DEF ClaimedAt, contains_payment_id
  <2> QED BY Zenon, <2>3, <2>4 DEF ClaimedAt
<1> QED BY Zenon, <1>5, <1>6, <1>7, <1>8, <1>9, <1>10, <1>11 DEF IInv

(* A crash forgets memory and keeps the backend. *)
LEMMA CrashPreserves ==
    ASSUME IInv, Crash
    PROVE  IInv'
<1>1. /\ ~up' /\ up' = FALSE /\ pending' = NoPayments /\ finalized' = {} /\ op' = Idle
      /\ confIds' = {} /\ recvIds' = {} /\ UNCHANGED <<expired, claimed, db>>
  BY Zenon DEF Crash
<1>2. /\ NoPayments \in Table
      /\ \A i \in Ids : op'.batch[i] = None /\ pending'[i] = None
      /\ op'.name = "idle" /\ op'.reply = "none"
  BY Zenon, <1>1 DEF NoPayments, Table, Idle
<1>3. TypeOK' BY Zenon, <1>1, <1>2 DEF IInv, TypeOK, Idle
<1>4. OpShape' BY Zenon, <1>1, <1>2 DEF OpShape
<1>5. MemoryNotAhead' BY Zenon, <1>1, <1>2 DEF MemoryNotAhead
<1>6. PaymentsDataInvariants' BY Zenon, <1>1, <1>2 DEF IInv, PaymentsDataInvariants
<1>7. ASSUME NEW i \in Ids PROVE BatchAt(i)' /\ OnchainAt(i)' /\ SyncedAt(i)'
  <2>1. BatchAt(i)' BY Zenon, <1>2 DEF BatchAt
  <2>2. OnchainAt(i)'
    <3>1. OnchainAt(i) BY Zenon DEF IInv
    <3>2. i \notin LnHashes /\ db'[i] # None =>
             db'[i].kind \in {"OnchainSend", "OnchainReceive"}
      BY Zenon, <1>1, <3>1 DEF OnchainAt
    <3> QED BY Zenon, <1>2, <3>2 DEF OnchainAt
  <2>3. SyncedAt(i)' BY Zenon, <1>1 DEF SyncedAt
  <2> QED BY Zenon, <2>1, <2>2, <2>3
<1>8. ASSUME NEW h \in LnHashes PROVE ClaimedAt(h)'
  BY Zenon, <1>1, <1>2 DEF IInv, ClaimedAt, Ids
<1> QED BY Zenon, <1>1, <1>3, <1>4, <1>5, <1>6, <1>7, <1>8 DEF IInv

(* Boot rebuilds memory from the backend. *)
LEMMA BootPreserves ==
    ASSUME IInv, Boot
    PROVE  IInv'
<1>1. /\ ~up /\ up' = TRUE /\ UNCHANGED <<op, confIds, recvIds, expired, claimed, db>>
      /\ pending' = [i \in Ids |-> IF db[i] # None /\ IsPending(db[i])
                                   THEN db[i] ELSE None]
      /\ finalized' = {i \in Ids : db[i] # None /\ ~IsPending(db[i])}
  BY Zenon DEF Boot
<1>2. op = Idle /\ confIds = {} /\ recvIds = {} BY Zenon, <1>1 DEF IInv, OpShape
<1>3. /\ \A i \in Ids : op'.batch[i] = None
      /\ op'.name = "idle" /\ op'.reply = "none"
  BY Zenon, <1>1, <1>2 DEF NoPayments, Idle
<1>4. \A i \in Ids :
        /\ pending'[i] = IF db[i] # None /\ IsPending(db[i]) THEN db[i] ELSE None
        /\ i \in finalized' <=> db[i] # None /\ ~IsPending(db[i])
  BY Zenon, <1>1
<1>5. TypeOK' BY Zenon, <1>1 DEF IInv, TypeOK, Table
<1>6. OpShape' BY Zenon, <1>1, <1>2, <1>3 DEF OpShape
<1>7. MemoryNotAhead' BY Zenon, <1>1, <1>4 DEF MemoryNotAhead
<1>8. PaymentsDataInvariants' BY Zenon, <1>1, <1>4 DEF IInv, PaymentsDataInvariants
<1>9. ASSUME NEW i \in Ids PROVE BatchAt(i)' /\ OnchainAt(i)' /\ SyncedAt(i)'
  BY <1>1, <1>3, <1>4 DEF IInv, BatchAt, OnchainAt, SyncedAt, InSyncAt
<1>10. ASSUME NEW h \in LnHashes PROVE ClaimedAt(h)'
  <2>1. h \in claimed /\ db[h] # None /\ IsPending(db[h]) => db[h].status = "Claiming"
    BY Zenon, PendingStatus DEF IInv, ClaimedAt, CompletedStatuses
  <2> QED BY Zenon, <1>1, <1>3, <1>4, <2>1 DEF IInv, ClaimedAt, contains_payment_id, Ids
<1> QED BY Zenon, <1>1, <1>2, <1>5, <1>6, <1>7, <1>8, <1>9, <1>10 DEF IInv

(* Time passing changes no payment. *)
LEMMA IdlePreserves ==
    ASSUME IInv, UNCHANGED vars \/ \E h \in LnHashes : InvoiceExpires(h)
    PROVE  IInv'
<1>1. /\ UNCHANGED <<up, pending, finalized, op, confIds, recvIds, claimed, db>>
      /\ expired' \in SUBSET LnHashes
  BY Zenon DEF IInv, TypeOK, vars, InvoiceExpires
<1>2. TypeOK' BY Zenon, <1>1 DEF IInv, TypeOK
<1>3. OpShape' BY Zenon, <1>1 DEF IInv, OpShape
<1>4. MemoryNotAhead' /\ PaymentsDataInvariants' /\ (\A i \in confIds : pending[i] # None)'
  BY Zenon, <1>1 DEF IInv, MemoryNotAhead, PaymentsDataInvariants
<1>5. ASSUME NEW i \in Ids PROVE BatchAt(i)' /\ OnchainAt(i)' /\ SyncedAt(i)'
  BY Zenon, <1>1 DEF IInv, BatchAt, OnchainAt, SyncedAt, InSyncAt, contains_payment_id
<1>6. ASSUME NEW h \in LnHashes PROVE ClaimedAt(h)'
  BY Zenon, <1>1 DEF IInv, ClaimedAt, contains_payment_id
<1> QED BY Zenon, <1>2, <1>3, <1>4, <1>5, <1>6 DEF IInv

-----------------------------------------------------------------------------
(* The theorems. *)

(* The inductive invariant holds in every reachable state, whether or not  *)
(* the backend loses replies.                                              *)
THEOREM Invariance == Spec => []IInv
<1>1. Init => IInv BY Zenon, InitInv
<1>2. IInv /\ [Next]_vars => IInv'
  <2> SUFFICES ASSUME IInv, [Next]_vars PROVE IInv' OBVIOUS
  <2>1. CASE UNCHANGED vars \/ \E h \in LnHashes : InvoiceExpires(h)
    BY Zenon, <2>1, IdlePreserves
  <2>2. CASE BackendApplies \/ BackendRefuses BY Zenon, <2>2, BackendPreserves
  <2>3. CASE Commit BY Zenon, <2>3, CommitPreserves
  <2>4. CASE Abort BY Zenon, <2>4, AbortPreserves
  <2>5. CASE Crash BY Zenon, <2>5, CrashPreserves
  <2>6. CASE Boot BY Zenon, <2>6, BootPreserves
  <2>7. CASE SnapshotOnchainConfs \/ DropOnchainConfs \/ DropOnchainReceives
             \/ \E txs \in SUBSET Txids : SnapshotOnchainReceives(txs)
    BY Zenon, <2>7, SnapshotsPreserve
  <2> QED BY Zenon, <2>1, <2>2, <2>3, <2>4, <2>5, <2>6, <2>7, ChecksPreserve DEF Next
<1> QED BY <1>1, <1>2, PTL DEF Spec

(* Types are respected. *)
THEOREM TypeCorrectness == Spec => []TypeOK
<1>1. IInv => TypeOK BY Zenon DEF IInv
<1> QED BY <1>1, Invariance, PTL

(* A payment is pending or finalized, never both, and finalized_at is set  *)
(* exactly on final payments: the assertion in PaymentsData::commit never  *)
(* fails, for any number of payments and even when replies get lost.       *)
THEOREM DataInvariants == Spec => []PaymentsDataInvariants
<1>1. IInv => PaymentsDataInvariants BY Zenon DEF IInv
<1> QED BY <1>1, Invariance, PTL

(* Memory is never ahead of the backend: persist precedes commit. *)
THEOREM PersistBeforeCommit == Spec => []MemoryNotAhead
<1>1. IInv => MemoryNotAhead BY Zenon DEF IInv
<1> QED BY <1>1, Invariance, PTL

(* Funds are claimed only for a payment on durable record, and the record  *)
(* never goes back: it stays Claiming until it is Completed.               *)
THEOREM ClaimsAreRecorded == Spec => []ClaimedIsRecorded
<1>1. IInv => ClaimedIsRecorded BY Zenon DEF IInv, ClaimedAt, ClaimedIsRecorded, TypeOK
<1> QED BY <1>1, Invariance, PTL

(* The confs checker may safely drop the lock while it queries Esplora:    *)
(* its batch never fails because a payment of it has gone missing.         *)
THEOREM SnapshotIsSafe == Spec => []ConfsSnapshotStaysValid
<1>1. IInv => ConfsSnapshotStaysValid
  <2> SUFFICES ASSUME IInv, NEW i \in confIds
               PROVE  pending[i] # None /\ IsPending(pending[i])
    BY Zenon DEF ConfsSnapshotStaysValid, confs_are_valid
  <2>1. i \in Ids /\ pending[i] # None BY Zenon DEF IInv, TypeOK, Ids
  <2> QED BY Zenon, <2>1, PendingFacts
<1> QED BY <1>1, Invariance, PTL

(* With a backend that does not lose replies, a node whose lock is free    *)
(* knows exactly what it would read back after a crash.                    *)
THEOREM MemoryIsInSync ==
    ASSUME ~LostReplies
    PROVE  Spec => []InSync
<1>1. IInv => InSync
  <2> SUFFICES ASSUME IInv, up, LockFree
               PROVE  /\ pending = [i \in Ids |-> IF db[i] # None /\ IsPending(db[i])
                                                  THEN db[i] ELSE None]
                      /\ finalized = {i \in Ids : db[i] # None /\ ~IsPending(db[i])}
    BY Zenon DEF InSync
  <2>1. op.reply = "none" BY DEF IInv, OpShape, LockFree, Idle
  <2>2. \A i \in Ids : InSyncAt(i) BY Zenon, <2>1 DEF IInv, SyncedAt
  <2>3. pending \in Table /\ finalized \in SUBSET Ids BY Zenon DEF IInv, TypeOK
  <2> QED BY Zenon, <2>2, <2>3 DEF InSyncAt, Table
<1> QED BY <1>1, Invariance, PTL

(* What a step of the backend does to one record, without lost replies. *)
LEMMA RecordStep ==
    ASSUME ~LostReplies, IInv, [Next]_vars, NEW i \in Ids, db'[i] # db[i]
    PROVE  /\ op.batch[i] # None /\ db'[i] = op.batch[i]
           /\ db[i] = None => IsPending(op.batch[i])
           /\ db[i] # None /\ IsPending(db[i]) => db[i] = pending[i]
           /\ db[i] # None /\ ~IsPending(db[i]) => i \in finalized
<1>1. op.reply = "waiting" /\ db' = Overlay(op.batch, db)
  <2>1. BackendApplies
    BY Zenon DEF Next, vars, new_payment, update_payment_note, payment_claimable,
       payment_claimed, payment_sent, payment_failed, onchain_send_broadcasted,
       BeginOne, Begin, CheckInvoiceExpiries, SnapshotOnchainConfs,
       CheckOnchainConfs, DropOnchainConfs, SnapshotOnchainReceives,
       RegisterOnchainReceive, DropOnchainReceives, BackendRefuses, Commit,
       Abort, InvoiceExpires, Crash, Boot
  <2> QED BY Zenon, <2>1 DEF BackendApplies
<1>2. op.batch[i] # None /\ db'[i] = op.batch[i] BY Zenon, <1>1 DEF Overlay
<1>3. up /\ InSyncAt(i) BY <1>1 DEF IInv, OpShape, Idle, SyncedAt
<1>4. db[i] = None => IsPending(op.batch[i])
  BY Zenon, <1>2, <1>3 DEF InSyncAt, IInv, BatchAt, contains_payment_id
<1> QED BY Zenon, <1>2, <1>3, <1>4 DEF InSyncAt

(* A record is never lost, never changes kind, and only update_payment_note*)
(* changes a note.                                                         *)
THEOREM RecordsAreKept ==
    ASSUME ~LostReplies
    PROVE  Spec => RecordIsKept
<1> DEFINE Kept == \A i \in Ids : db[i] # None =>
                      /\ db'[i] # None
                      /\ db'[i].kind = db[i].kind
                      /\ db'[i].note # db[i].note => op.name = "note"
<1>1. IInv /\ [Next]_vars => [Kept]_vars
  <2> SUFFICES ASSUME IInv, [Next]_vars, NEW i \in Ids, db[i] # None, db'[i] # db[i]
               PROVE  /\ db'[i] # None
                      /\ db'[i].kind = db[i].kind
                      /\ db'[i].note # db[i].note => op.name = "note"
    OBVIOUS
  <2>1. /\ op.batch[i] # None /\ db'[i] = op.batch[i]
        /\ IsPending(db[i]) => db[i] = pending[i]
        /\ ~IsPending(db[i]) => i \in finalized
    BY Zenon, RecordStep
  <2>2. CASE IsPending(db[i])
    BY Zenon, <2>1, <2>2 DEF IInv, BatchAt
  <2>3. CASE ~IsPending(db[i])
    <3>1. op.name = "note" /\ op.batch[i] = set_note(db[i], op.batch[i].note)
      BY Zenon, <2>1, <2>3 DEF IInv, BatchAt
    <3>2. db[i] \in Payment BY Zenon DEF IInv, TypeOK, Table
    <3>3. op.batch[i].kind = db[i].kind BY Zenon, <3>1, <3>2 DEF set_note, Payment
    <3> QED BY Zenon, <2>1, <3>1, <3>3
  <2> QED BY Zenon, <2>2, <2>3
<1>2. RecordIsKept <=> [][Kept]_vars BY Zenon DEF RecordIsKept
<1> QED BY <1>1, <1>2, Invariance, PTL DEF Spec

(* The durable record of every payment refines PaymentLifecycle: it starts *)
(* pending, is decided at most once, and a decision is final.              *)
THEOREM Refinement ==
    ASSUME ~LostReplies
    PROVE  Spec => LifecycleSpec
<1> DEFINE Life == [i \in Ids |-> IF db[i] = None THEN "Absent" ELSE PaymentStatus(db[i])]
<1>1. Init => Lifecycle!Init
  BY Zenon DEF Init, Lifecycle!Init, NoPayments
<1>2. IInv /\ [Next]_vars => [Lifecycle!Next]_Life
  <2> SUFFICES ASSUME IInv, [Next]_vars PROVE Lifecycle!Next
    BY Zenon
  <2>1. Life' \in [Ids -> {"Absent", "Pending", "Completed", "Failed"}]
    BY Zenon, PendingStatus
  <2>2. ASSUME NEW i \in Ids PROVE Lifecycle!Legal(Life[i], Life'[i])
    <3> USE DEF Lifecycle!Legal
    <3>1. CASE db'[i] = db[i] BY Zenon, <3>1
    <3>2. CASE db'[i] # db[i]
      <4>1. /\ op.batch[i] # None /\ db'[i] = op.batch[i]
            /\ db[i] = None => IsPending(op.batch[i])
            /\ db[i] # None /\ ~IsPending(db[i]) => i \in finalized
        BY Zenon, <3>2, RecordStep
      <4>2. Life'[i] = PaymentStatus(op.batch[i]) BY Zenon, <4>1
      <4>3. CASE db[i] = None
        BY Zenon, <4>1, <4>2, <4>3 DEF IsPending
      <4>4. CASE db[i] # None /\ IsPending(db[i])
        BY Zenon, <4>2, <4>4, PendingStatus DEF IsPending
      <4>5. CASE db[i] # None /\ ~IsPending(db[i])
        <5>1. op.batch[i] = set_note(db[i], op.batch[i].note)
          BY Zenon, <4>1, <4>5 DEF IInv, BatchAt
        <5>2. db[i] \in Payment BY Zenon, <4>5 DEF IInv, TypeOK, Table
        <5>3. op.batch[i].status = db[i].status BY Zenon, <5>1, <5>2 DEF set_note, Payment
        <5>4. PaymentStatus(op.batch[i]) = PaymentStatus(db[i])
          BY Zenon, <5>3 DEF PaymentStatus
        <5> QED BY Zenon, <4>2, <4>5, <5>4
      <4> QED BY Zenon, <4>3, <4>4, <4>5
    <3> QED BY Zenon, <3>1, <3>2
  <2> QED BY Zenon, <2>1, <2>2 DEF Lifecycle!Next
<1> QED BY <1>1, <1>2, Invariance, PTL DEF Spec, LifecycleSpec, Lifecycle!Spec

-----------------------------------------------------------------------------
(* The node. *)

(* The hashes of Lightning payments are ids of payments. *)
LEMMA HashesAreIds ==
    /\ LnHashes \subseteq Ids /\ InvHashes \subseteq LnHashes
    /\ KsHashes \subseteq LnHashes /\ OutHashes \subseteq LnHashes
    /\ InvHashes \cap OutHashes = {} /\ KsHashes \cap OutHashes = {}
BY Zenon, HashesArePartitioned DEF Ids

(* Steps that change none of what the invariant speaks of; a handler may   *)
(* end.                                                                    *)
LEMMA QuietPreserves ==
    ASSUME NodeInv, IInv',
           UNCHANGED <<up, pending, finalized, op, claimed, db, htlc, issued, failing, holder>>,
           tasks' \subseteq tasks
    PROVE  NodeInv'
<1>1. ASSUME NEW h \in LnHashes PROVE NodeInvAt(h)'
  <2>1. NodeInvAt(h)
    BY Zenon DEF NodeInv
  <2>2. TasksAt(h)' /\ TrueOf(h, db[h])' /\ TrueOf(h, op.batch[h])'
    BY Zenon, <2>1 DEF NodeInvAt, TasksAt, TrueOf
  <2>3. SentAt(h)' /\ RequestAt(h)'
    BY Zenon, <2>1 DEF NodeInvAt, SentAt, RequestAt, contains_payment_id
  <2>4. QED  BY Zenon, <2>1, <2>2, <2>3 DEF NodeInvAt
<1>2. QED  BY Zenon, <1>1 DEF NodeInv

(* What LDK or a handler may do to one HTLC, while the records stay. *)
LEMMA NetworkPreserves ==
    ASSUME NodeInv, UNCHANGED vars, UNCHANGED <<issued, failing, holder>>,
           tasks' \subseteq tasks, NEW h \in LnHashes, NEW s,
           htlc' = [htlc EXCEPT ![h] = s],
           \/ (htlc[h] = "none" /\ s = "received" /\ h \notin OutHashes)
           \/ (htlc[h] = "received" /\ s = "failedBack")
           \/ (htlc[h] = "claiming" /\ s = "claimed")
           \/ (htlc[h] = "sending" /\ s \in {"sent", "failed"})
    PROVE  NodeInv'
<1>1. IInv'
  BY Zenon, IdlePreserves DEF NodeInv
<1>2. UNCHANGED <<up, pending, finalized, op, claimed, db>>
  BY Zenon DEF vars
<1>3. /\ htlc \in [LnHashes -> InboundState \cup OutboundState]
      /\ htlc'[h] = s /\ \A g \in LnHashes : g # h => htlc'[g] = htlc[g]
  BY Zenon DEF NodeInv
<1>4. NodeInvAt(h)
  BY Zenon DEF NodeInv
<1>5. /\ h \in OutHashes => htlc[h] = "sending" /\ s \in {"sent", "failed"}
      /\ h \notin OutHashes => s \in {"received", "failedBack", "claimed"}
      /\ s = "claimed" => htlc[h] = "claiming"
  BY Zenon, <1>4 DEF NodeInvAt, OutboundState, InboundState
<1>6. htlc' \in [LnHashes -> InboundState \cup OutboundState]
  BY Zenon, <1>3, <1>5 DEF InboundState, OutboundState
<1>7. ASSUME NEW g \in LnHashes PROVE NodeInvAt(g)'
  <2>1. NodeInvAt(g)
    BY Zenon DEF NodeInv
  <2>2. CASE g # h
    <3>1. htlc'[g] = htlc[g]
      BY Zenon, <1>3, <2>2
    <3>2. TasksAt(g)' /\ TrueOf(g, db[g])' /\ TrueOf(g, op.batch[g])'
      BY Zenon, <1>2, <2>1, <3>1 DEF NodeInvAt, TasksAt, TrueOf
    <3>3. SentAt(g)' /\ RequestAt(g)'
      BY Zenon, <1>2, <2>1, <3>1 DEF NodeInvAt, SentAt, RequestAt, contains_payment_id
    <3>4. QED  BY Zenon, <1>2, <2>1, <3>1, <3>2, <3>3 DEF NodeInvAt
  <2>3. CASE g = h
    <3>1. htlc'[g] \in IF g \in OutHashes THEN OutboundState ELSE InboundState
      BY Zenon, <1>3, <1>5, <2>3 DEF InboundState, OutboundState
    <3>2. htlc'[g] \in {"claiming", "claimed"} => g \in claimed'
      BY Zenon, <1>2, <1>3, <1>4, <1>5, <2>3 DEF NodeInvAt
    <3>3. TasksAt(g)'
      BY Zenon, <1>3, <1>4, <1>5, <2>3 DEF NodeInvAt, TasksAt
    <3>4. TrueOf(g, db[g])' /\ TrueOf(g, op.batch[g])'
      BY Zenon, <1>2, <1>3, <1>4, <1>5, <2>3 DEF NodeInvAt, TrueOf
    <3>5. SentAt(g)' /\ RequestAt(g)'
      BY Zenon, <1>2, <1>3, <1>4, <1>5, <2>3 DEF NodeInvAt, SentAt, RequestAt, contains_payment_id
    <3>6. QED  BY Zenon, <3>1, <3>2, <3>3, <3>4, <3>5 DEF NodeInvAt
  <2>4. QED  BY Zenon, <2>2, <2>3
<1>8. QED  BY Zenon, <1>1, <1>6, <1>7 DEF NodeInv

(* LDK and its peers. *)
LEMMA LdkSteps ==
    ASSUME NodeInv,
           \/ \E h \in InvHashes \cup KsHashes :
                 HtlcArrives(h) \/ HtlcTimesOut(h) \/ ClaimCompletes(h)
           \/ \E h \in OutHashes : SendEnds(h, "sent") \/ SendEnds(h, "failed")
    PROVE  NodeInv'
<1>1. CASE \E h \in InvHashes \cup KsHashes : HtlcArrives(h)
  <2>1. PICK h \in InvHashes \cup KsHashes : HtlcArrives(h)
    BY Zenon, <1>1
  <2>2. h \in LnHashes /\ h \notin OutHashes
    BY Zenon, HashesAreIds
  <2>3. /\ UNCHANGED vars /\ UNCHANGED <<issued, failing, holder>> /\ tasks' \subseteq tasks
        /\ htlc' = [htlc EXCEPT ![h] = "received"] /\ htlc[h] = "none"
    BY Zenon, <2>1 DEF HtlcArrives, calls
  <2>4. QED  BY Zenon, <2>2, <2>3, NetworkPreserves
<1>2. CASE \E h \in InvHashes \cup KsHashes : HtlcTimesOut(h)
  <2>1. PICK h \in InvHashes \cup KsHashes : HtlcTimesOut(h)
    BY Zenon, <1>2
  <2>2. /\ UNCHANGED vars /\ UNCHANGED <<issued, failing, holder>> /\ tasks' \subseteq tasks
        /\ htlc' = [htlc EXCEPT ![h] = "failedBack"] /\ htlc[h] = "received"
    BY Zenon, <2>1 DEF HtlcTimesOut, calls
  <2>3. QED  BY Zenon, <2>2, HashesAreIds, NetworkPreserves
<1>3. CASE \E h \in InvHashes \cup KsHashes : ClaimCompletes(h)
  <2>1. PICK h \in InvHashes \cup KsHashes : ClaimCompletes(h)
    BY Zenon, <1>3
  <2>2. /\ UNCHANGED vars /\ UNCHANGED <<issued, failing, holder>> /\ tasks' \subseteq tasks
        /\ htlc' = [htlc EXCEPT ![h] = "claimed"] /\ htlc[h] = "claiming"
    BY Zenon, <2>1 DEF ClaimCompletes, calls
  <2>3. QED  BY Zenon, <2>2, HashesAreIds, NetworkPreserves
<1>4. CASE \E h \in OutHashes : SendEnds(h, "sent") \/ SendEnds(h, "failed")
  <2>1. PICK h \in OutHashes, s \in {"sent", "failed"} : SendEnds(h, s)
    BY Zenon, <1>4
  <2>2. /\ UNCHANGED vars /\ UNCHANGED <<issued, failing, holder>> /\ tasks' \subseteq tasks
        /\ htlc' = [htlc EXCEPT ![h] = s] /\ htlc[h] = "sending"
    BY Zenon, <2>1 DEF SendEnds, calls
  <2>3. QED  BY Zenon, <2>2, HashesAreIds, NetworkPreserves
<1>5. QED  BY Zenon, <1>1, <1>2, <1>3, <1>4

-----------------------------------------------------------------------------
(* Check steps: what the request of a call or of a handler may say. *)
RequestIsTrue(name, h, p) ==
    p # None =>
        /\ TrueOf(h, p)
        /\ name = "new" =>
              /\ p.status \in {"Pending", "InvoiceGenerated"}
              /\ h \in OutHashes => htlc[h] = "none" /\ h \notin failing

LEMMA RequestPreserves ==
    ASSUME NodeInv, IInv', NEW name, NEW create, NEW batch, Begin(name, create, batch),
           UNCHANGED <<htlc, issued, tasks>>, failing' \subseteq failing,
           \A h \in LnHashes : RequestIsTrue(name, h, batch[h]),
           \A h \in LnHashes : holder' = {<<"PaymentClaimable", h>>} =>
                                  name = "claimable" /\ batch[h] # None
    PROVE  NodeInv'
<1>1. /\ op'.name = name /\ op'.batch = batch
      /\ UNCHANGED <<up, pending, finalized, claimed, db>>
  BY Zenon DEF Begin
<1>2. ASSUME NEW h \in LnHashes PROVE NodeInvAt(h)'
  <2>1. NodeInvAt(h) /\ RequestIsTrue(name, h, batch[h])
    BY Zenon DEF NodeInv
  <2>2. TasksAt(h)' /\ TrueOf(h, db[h])' /\ TrueOf(h, op.batch[h])'
    BY Zenon, <1>1, <2>1 DEF NodeInvAt, TasksAt, TrueOf, RequestIsTrue
  <2>3. SentAt(h)'
    BY Zenon, <1>1, <2>1 DEF NodeInvAt, SentAt, contains_payment_id
  <2>4. RequestAt(h)'
    BY Zenon, <1>1, <2>1 DEF RequestIsTrue, RequestAt
  <2>5. QED  BY Zenon, <1>1, <2>1, <2>2, <2>3, <2>4 DEF NodeInvAt
<1>3. QED  BY Zenon, <1>2 DEF NodeInv

(* The same for a request about one payment. *)
LEMMA OneRequestPreserves ==
    ASSUME NodeInv, IInv', NEW name, NEW create, NEW id \in LnHashes, NEW q,
           BeginOne(name, create, id, q), UNCHANGED <<htlc, issued, tasks>>,
           failing' \subseteq failing, RequestIsTrue(name, id, q),
           \A h \in LnHashes : holder' = {<<"PaymentClaimable", h>>} =>
                                  name = "claimable" /\ h = id
    PROVE  NodeInv'
<1>1. Begin(name, create, Only(id, q)) /\ q # None
  BY Zenon DEF BeginOne
<1>2. \A h \in LnHashes : Only(id, q)[h] = IF h = id THEN q ELSE None
  BY Zenon, HashesAreIds DEF Only
<1>3. \A h \in LnHashes : RequestIsTrue(name, h, Only(id, q)[h])
  BY Zenon, <1>2 DEF RequestIsTrue
<1>4. \A h \in LnHashes : holder' = {<<"PaymentClaimable", h>>} =>
                             name = "claimable" /\ Only(id, q)[h] # None
  BY Zenon, <1>1, <1>2
<1>5. QED  BY Zenon, <1>1, <1>3, <1>4, RequestPreserves

(* The status that each check gives to a payment. *)
LEMMA ClaimableStatus ==
    ASSUME IInv, NEW h \in LnHashes, NEW p, check_payment_claimable(h, p) # None
    PROVE  check_payment_claimable(h, p).status = "Claiming"
<1>1. h \in Ids
  BY Zenon, HashesAreIds
<1>2. CASE pending[h] # None
  <2>1. pending[h] \in Payment /\ IsPending(pending[h]) /\ assert_invariants(pending[h])
    BY Zenon, <1>1, <1>2, PendingFacts
  <2>2. check_payment_claimable(h, p) = CheckClaimable(pending[h], p, h \in expired)
    BY Zenon, <1>2 DEF check_payment_claimable
  <2>3. QED  BY Zenon, <2>1, <2>2, ClaimableTransition
<1>3. CASE pending[h] = None
  <2>1. check_payment_claimable(h, p) = NewInboundSpontaneous
    BY Zenon, <1>3 DEF check_payment_claimable, check_new_payment
  <2>2. QED  BY <2>1 DEF NewInboundSpontaneous, NewPayment
<1>4. QED  BY Zenon, <1>2, <1>3

LEMMA FinalStatus ==
    ASSUME IInv, NEW h \in LnHashes, NEW p
    PROVE  /\ check_payment_claimed(h, p) # None =>
                 check_payment_claimed(h, p).status = "Completed"
           /\ check_payment_sent(h) # None => check_payment_sent(h).status = "Completed"
           /\ check_payment_failed(h) # None => check_payment_failed(h).status = "Failed"
<1>1. CASE pending[h] = None
  BY Zenon, <1>1 DEF check_payment_claimed, check_payment_sent, check_payment_failed
<1>2. CASE pending[h] # None
  <2>1. pending[h] \in Payment
    BY Zenon, <1>2, HashesAreIds, PendingFacts
  <2>2. /\ Finalize(pending[h], "Completed").status = "Completed"
        /\ Finalize(pending[h], "Failed").status = "Failed"
    BY Zenon, <2>1, FinalizeIsSuccessor, StatusNames DEF CompletedStatuses, FailedStatuses
  <2>3. /\ CheckSent(pending[h]) \in {None, Finalize(pending[h], "Completed")}
        /\ CheckFailed(pending[h]) \in {None, Finalize(pending[h], "Failed")}
    BY Zenon DEF CheckSent, CheckFailed
  <2>4. CheckClaimed(pending[h], p) # None => CheckClaimed(pending[h], p).status = "Completed"
    BY Zenon, <2>1, ClaimedTransition
  <2>5. QED
    BY Zenon, <2>2, <2>3, <2>4 DEF check_payment_claimed, check_payment_sent, check_payment_failed
<1>3. QED  BY Zenon, <1>1, <1>2

LEMMA ExpiryStatus ==
    ASSUME IInv, NEW h \in LnHashes, check_invoice_expiries[h] # None
    PROVE  check_invoice_expiries[h].status \in {"Abandoning", "Expired"}
<1>1. h \in Ids
  BY Zenon, HashesAreIds
<1>2. /\ pending[h] # None
      /\ check_invoice_expiries[h] = CheckInvoiceExpiry(pending[h], h \in expired)
  BY Zenon, <1>1 DEF check_invoice_expiries
<1>3. pending[h] \in Payment /\ IsPending(pending[h]) /\ assert_invariants(pending[h])
  BY Zenon, <1>1, <1>2, PendingFacts
<1>4. To(pending[h], "Abandoning").status = "Abandoning"
  BY <1>3, ToIsSuccessor, StatusNames DEF CompletedStatuses, FailedStatuses
<1>5. Finalize(pending[h], "Expired").status = "Expired"
  BY Zenon, <1>3, FinalizeIsSuccessor, StatusNames DEF CompletedStatuses, FailedStatuses
<1>6. CheckInvoiceExpiry(pending[h], h \in expired) \in
        {None, To(pending[h], "Abandoning"), Finalize(pending[h], "Expired")}
  BY Zenon DEF CheckInvoiceExpiry, IipCheckExpiry, OipCheckExpiry
<1>7. QED  BY Zenon, <1>2, <1>4, <1>5, <1>6

(* create_invoice and pay_invoice: a payment that is being registered was  *)
(* unknown to memory, and so was never sent.                               *)
LEMMA NewPaymentSteps ==
    ASSUME NodeInv, \/ \E h \in InvHashes : create_invoice(h)
                    \/ \E h \in OutHashes : pay_invoice(h)
    PROVE  NodeInv'
<1>1. PICK h \in LnHashes, p \in {NewInboundInvoice, NewOutboundInvoice(None)} :
        /\ new_payment(h, p) /\ holder' = {} /\ failing' = failing
        /\ UNCHANGED <<htlc, issued, tasks>>
  <2>1. CASE \E h \in InvHashes : create_invoice(h)
    BY Zenon, <2>1, HashesAreIds DEF create_invoice, Call, calls, cm
  <2>2. CASE \E h \in OutHashes : pay_invoice(h)
    BY Zenon, <2>2, HashesAreIds DEF pay_invoice, Call, cm
  <2>3. QED  BY Zenon, <2>1, <2>2
<1>2. BeginOne("new", TRUE, h, check_new_payment(h, p)) /\ check_new_payment(h, p) # None
  BY Zenon, <1>1 DEF new_payment, BeginOne
<1>3. check_new_payment(h, p) = p /\ ~contains_payment_id(h)
  BY Zenon, <1>2 DEF check_new_payment
<1>4. p.status \in {"Pending", "InvoiceGenerated"}
  BY <1>1 DEF NewInboundInvoice, NewOutboundInvoice, NewPayment
<1>5. h \in OutHashes => htlc[h] = "none" /\ h \notin failing
  <2>1. up /\ NodeInvAt(h)
    BY Zenon, <1>2 DEF BeginOne, Begin, NodeInv
  <2>2. QED  BY Zenon, <1>3, <2>1 DEF NodeInvAt, SentAt
<1>6. RequestIsTrue("new", h, check_new_payment(h, p))
  BY Zenon, <1>3, <1>4, <1>5 DEF RequestIsTrue, TrueOf
<1>7. IInv'
  BY Zenon, <1>1, ChecksPreserve DEF NodeInv
<1>8. QED  BY Zenon, <1>1, <1>2, <1>6, <1>7, OneRequestPreserves

(* LDK refused to send: the payment that fails was never sent. *)
LEMMA SendFailureSteps ==
    ASSUME NodeInv, NEW h \in OutHashes, RegisterSendFailure(h)
    PROVE  NodeInv'
<1>1. /\ h \in failing /\ payment_failed(h) /\ holder' = {} /\ failing' \subseteq failing
      /\ UNCHANGED <<htlc, issued, tasks>>
  BY Zenon DEF RegisterSendFailure, Call, cm
<1>2. BeginOne("failed", FALSE, h, check_payment_failed(h)) /\ check_payment_failed(h) # None
  BY Zenon, <1>1 DEF payment_failed, BeginOne
<1>3. h \in LnHashes
  BY Zenon, HashesAreIds
<1>4. htlc[h] = "none"
  BY Zenon, <1>1, <1>3 DEF NodeInv, NodeInvAt, SentAt
<1>5. check_payment_failed(h).status = "Failed"
  BY Zenon, <1>2, <1>3, FinalStatus DEF NodeInv
<1>6. RequestIsTrue("failed", h, check_payment_failed(h))
  BY Zenon, <1>4, <1>5 DEF RequestIsTrue, TrueOf
<1>7. IInv'
  BY Zenon, <1>1, <1>3, ChecksPreserve DEF NodeInv
<1>8. QED  BY Zenon, <1>1, <1>2, <1>3, <1>6, <1>7, OneRequestPreserves

(* Expiry decides nothing that the network may contradict. *)
LEMMA ExpirySteps ==
    ASSUME NodeInv, ExpiryCheck
    PROVE  NodeInv'
<1>1. /\ CheckInvoiceExpiries /\ holder' = {} /\ failing' = failing
      /\ UNCHANGED <<htlc, issued, tasks>>
  BY Zenon DEF ExpiryCheck, Call, calls, cm
<1>2. Begin("expiries", FALSE, check_invoice_expiries)
  BY Zenon, <1>1 DEF CheckInvoiceExpiries
<1>3. IInv'
  BY Zenon, <1>1, ChecksPreserve DEF NodeInv
<1>4. ASSUME NEW h \in LnHashes
      PROVE  RequestIsTrue("expiries", h, check_invoice_expiries[h])
  <2>1. check_invoice_expiries[h] # None =>
          check_invoice_expiries[h].status \in {"Abandoning", "Expired"}
    BY Zenon, ExpiryStatus DEF NodeInv
  <2>2. QED  BY Zenon, <2>1 DEF RequestIsTrue, TrueOf
<1>5. \A h \in LnHashes : holder' # {<<"PaymentClaimable", h>>}
  BY Zenon, <1>1
<1>6. QED  BY Zenon, <1>1, <1>2, <1>3, <1>4, <1>5, RequestPreserves

(* A handler records what LDK has reported. *)
LEMMA HandlerSteps ==
    ASSUME NodeInv, NEW e \in tasks, HandleEvent(e[1], e[2])
    PROVE  NodeInv'
<1> DEFINE h == e[2]
<1>1. h \in LnHashes /\ e = <<e[1], h>> /\ NodeInvAt(h)
  BY DEF NodeInv, Event
<1>2. /\ <<e[1], h>> \in tasks /\ holder' = {<<e[1], h>>} /\ failing' = failing
      /\ UNCHANGED <<htlc, issued, tasks>>
  BY Zenon DEF HandleEvent, calls, cm
<1>3. /\ htlc[h] = "failed" => h \in OutHashes
      /\ e[1] = "PaymentClaimed" => htlc[h] = "claimed"
      /\ e[1] = "PaymentSent" => htlc[h] = "sent"
      /\ e[1] = "PaymentFailed" => htlc[h] = "failed"
  BY Zenon, <1>1, <1>2 DEF NodeInvAt, TasksAt, InboundState
<1>4. \A g \in LnHashes : holder' = {<<"PaymentClaimable", g>>} =>
                             e[1] = "PaymentClaimable" /\ g = h
  BY <1>2
<1>5. purpose(h) \in {"Invoice", "Spontaneous"}
  BY Zenon DEF purpose
<1> HIDE DEF h
<1>6. CASE e[1] = "PaymentClaimable" /\ payment_claimable(h, purpose(h))
  <2>1. /\ BeginOne("claimable", FALSE, h, check_payment_claimable(h, purpose(h)))
        /\ check_payment_claimable(h, purpose(h)) # None
    BY Zenon, <1>6 DEF payment_claimable, BeginOne
  <2>2. RequestIsTrue("claimable", h, check_payment_claimable(h, purpose(h)))
    BY Zenon, <1>1, <2>1, ClaimableStatus DEF RequestIsTrue, TrueOf, NodeInv
  <2>3. IInv'
    BY Zenon, <1>1, <1>5, <1>6, ChecksPreserve DEF NodeInv
  <2>4. QED  BY Zenon, <1>1, <1>2, <1>4, <2>1, <2>2, <2>3, OneRequestPreserves
<1>7. CASE e[1] = "PaymentClaimed" /\ payment_claimed(h, purpose(h))
  <2>1. /\ BeginOne("claimed", FALSE, h, check_payment_claimed(h, purpose(h)))
        /\ check_payment_claimed(h, purpose(h)) # None
    BY Zenon, <1>7 DEF payment_claimed, BeginOne
  <2>2. RequestIsTrue("claimed", h, check_payment_claimed(h, purpose(h)))
    BY Zenon, <1>1, <1>3, <1>7, <2>1, FinalStatus DEF RequestIsTrue, TrueOf, NodeInv
  <2>3. IInv'
    BY Zenon, <1>1, <1>5, <1>7, ChecksPreserve DEF NodeInv
  <2>4. QED  BY Zenon, <1>1, <1>2, <1>4, <1>7, <2>1, <2>2, <2>3, OneRequestPreserves
<1>8. CASE e[1] = "PaymentSent" /\ payment_sent(h)
  <2>1. BeginOne("sent", FALSE, h, check_payment_sent(h)) /\ check_payment_sent(h) # None
    BY Zenon, <1>8 DEF payment_sent, BeginOne
  <2>2. RequestIsTrue("sent", h, check_payment_sent(h))
    BY Zenon, <1>1, <1>3, <1>8, <2>1, FinalStatus DEF RequestIsTrue, TrueOf, NodeInv
  <2>3. IInv'
    BY Zenon, <1>1, <1>8, ChecksPreserve DEF NodeInv
  <2>4. QED  BY Zenon, <1>1, <1>2, <1>4, <1>8, <2>1, <2>2, <2>3, OneRequestPreserves
<1>9. CASE e[1] = "PaymentFailed" /\ payment_failed(h)
  <2>1. BeginOne("failed", FALSE, h, check_payment_failed(h)) /\ check_payment_failed(h) # None
    BY Zenon, <1>9 DEF payment_failed, BeginOne
  <2>2. RequestIsTrue("failed", h, check_payment_failed(h))
    BY Zenon, <1>1, <1>3, <1>9, <2>1, FinalStatus DEF RequestIsTrue, TrueOf, NodeInv
  <2>3. IInv'
    BY Zenon, <1>1, <1>9, ChecksPreserve DEF NodeInv
  <2>4. QED  BY Zenon, <1>1, <1>2, <1>4, <1>9, <2>1, <2>2, <2>3, OneRequestPreserves
<1>10. QED  BY Zenon, <1>6, <1>7, <1>8, <1>9 DEF HandleEvent, h

-----------------------------------------------------------------------------
(* Persist, commit and abort. *)

LEMMA BackendSteps ==
    ASSUME NodeInv, Backend
    PROVE  NodeInv'
<1>1. /\ BackendApplies \/ BackendRefuses
      /\ UNCHANGED <<htlc, issued, failing, tasks, holder>>
  BY Zenon DEF Backend, cm, calls
<1>2. /\ op'.name = op.name /\ op'.batch = op.batch
      /\ UNCHANGED <<up, pending, finalized, claimed>>
  BY Zenon, <1>1 DEF BackendApplies, BackendRefuses, Reply, NodeInv, IInv, TypeOK
<1>3. \A h \in LnHashes : \/ db'[h] = db[h]
                          \/ (op.batch[h] # None /\ db'[h] = op.batch[h])
  BY Zenon, <1>1, HashesAreIds DEF BackendApplies, BackendRefuses, Overlay
<1>4. IInv'
  BY Zenon, <1>1, BackendPreserves DEF NodeInv
<1>5. ASSUME NEW h \in LnHashes PROVE NodeInvAt(h)'
  <2>1. NodeInvAt(h)
    BY Zenon DEF NodeInv
  <2>2. TasksAt(h)' /\ TrueOf(h, db[h])' /\ TrueOf(h, op.batch[h])'
    BY Zenon, <1>1, <1>2, <1>3, <2>1 DEF NodeInvAt, TasksAt, TrueOf
  <2>3. SentAt(h)' /\ RequestAt(h)'
    BY <1>1, <1>2, <1>3, <2>1 DEF NodeInvAt, SentAt, RequestAt, contains_payment_id
  <2>4. QED  BY Zenon, <1>1, <1>2, <2>1, <2>2, <2>3 DEF NodeInvAt
<1>6. QED  BY Zenon, <1>1, <1>4, <1>5 DEF NodeInv

(* What may happen to a payment in the step that releases the lock. *)
ReleasedAt(h) ==
    \/ htlc'[h] = htlc[h] /\ (h \in failing' => h \in failing)
    \/ /\ htlc[h] = "received" /\ htlc'[h] \in {"failedBack", "claiming"}
       /\ htlc'[h] = "claiming" => h \in claimed'
       /\ h \in failing' => h \in failing
    \/ /\ h \in OutHashes /\ htlc[h] = "none" /\ contains_payment_id(h)'
       /\ \/ htlc'[h] = "none"
          \/ /\ htlc'[h] = "sending" /\ h \notin failing'
             /\ db[h] # None /\ db[h].status \in {"Pending", "InvoiceGenerated"}

LEMMA ReleasePreserves ==
    ASSUME NodeInv, IInv', op' = Idle, UNCHANGED <<up, db>>, claimed \subseteq claimed',
           tasks' \subseteq tasks, issued' \subseteq InvHashes, failing' \subseteq OutHashes,
           holder' = {}, htlc' \in [LnHashes -> InboundState \cup OutboundState],
           \A h \in LnHashes : contains_payment_id(h) => contains_payment_id(h)',
           \A h \in LnHashes : ReleasedAt(h)
    PROVE  NodeInv'
<1>1. op'.name = "idle" /\ \A h \in LnHashes : op'.batch[h] = None
  BY Zenon, HashesAreIds DEF Idle, NoPayments
<1>2. ASSUME NEW h \in LnHashes PROVE NodeInvAt(h)'
  <2>1. NodeInvAt(h) /\ ReleasedAt(h)
    BY Zenon DEF NodeInv
  <2>2. h \in OutHashes => htlc[h] # "received"
    BY Zenon, <2>1 DEF NodeInvAt, OutboundState
  <2>3. htlc'[h] \in IF h \in OutHashes THEN OutboundState ELSE InboundState
    BY Zenon, <2>1, <2>2 DEF NodeInvAt, ReleasedAt, OutboundState, InboundState
  <2>4. htlc'[h] \in {"claiming", "claimed"} => h \in claimed'
    BY Zenon, <2>1 DEF NodeInvAt, ReleasedAt
  <2>5. TasksAt(h)'
    BY Zenon, <2>1 DEF NodeInvAt, ReleasedAt, TasksAt
  <2>6. TrueOf(h, db[h])'
    BY Zenon, <2>1, <2>2 DEF NodeInvAt, ReleasedAt, TrueOf
  <2>7. TrueOf(h, op.batch[h])' /\ RequestAt(h)'
    BY Zenon, <1>1 DEF TrueOf, RequestAt
  <2>8. SentAt(h)'
    BY Zenon, <2>1, <2>2 DEF NodeInvAt, ReleasedAt, SentAt
  <2>9. QED  BY Zenon, <2>3, <2>4, <2>5, <2>6, <2>7, <2>8 DEF NodeInvAt
<1>3. QED  BY Zenon, <1>2 DEF NodeInv

(* A committed batch is on record and in memory, which forgets nothing. *)
LEMMA CommitFacts ==
    ASSUME NodeInv, Commit
    PROVE  /\ IInv' /\ op' = Idle /\ UNCHANGED <<up, db>> /\ claimed \subseteq claimed'
           /\ \A h \in LnHashes : contains_payment_id(h) => contains_payment_id(h)'
           /\ \A h \in LnHashes : op.batch[h] # None =>
                 /\ db[h] = op.batch[h] /\ contains_payment_id(h)'
                 /\ op.name = "claimable" => h \in claimed'
<1>1. IInv' /\ op' = Idle /\ UNCHANGED <<up, db>> /\ claimed \subseteq claimed'
  BY Zenon, CommitPreserves DEF NodeInv, Commit
<1>2. ASSUME NEW h \in LnHashes
      PROVE  /\ contains_payment_id(h) => contains_payment_id(h)'
             /\ op.batch[h] # None => contains_payment_id(h)'
  BY Zenon, HashesAreIds DEF Commit, CommitPending, CommitFinalized, contains_payment_id
<1>3. ASSUME NEW h \in LnHashes, op.batch[h] # None
      PROVE  db[h] = op.batch[h] /\ (op.name = "claimable" => h \in claimed')
  BY Zenon, <1>3, HashesAreIds DEF Commit, NodeInv, IInv, BatchAt
<1>4. QED  BY Zenon, <1>1, <1>2, <1>3

(* pay_invoice sends only what is on record and was not sent before. *)
LEMMA CommitSteps ==
    ASSUME NodeInv, \/ \E e \in tasks : CommitEvent(e[1], e[2])
                    \/ CommitCall
                    \/ \E h \in OutHashes, accepted \in BOOLEAN : CommitPayInvoice(h, accepted)
    PROVE  NodeInv'
<1> USE DEF cm, calls
<1>1. ASSUME NEW e \in tasks, CommitEvent(e[1], e[2]) PROVE NodeInv'
  <2> DEFINE h == e[2]
  <2>1. /\ Commit /\ holder = {<<e[1], h>>} /\ tasks' \subseteq tasks /\ holder' = {}
        /\ UNCHANGED <<issued, failing>> /\ h \in LnHashes
        /\ \/ htlc' = htlc
           \/ /\ htlc[h] = "received" /\ htlc' = [htlc EXCEPT ![h] = "claiming"]
              /\ e[1] = "PaymentClaimable"
    BY Zenon, <1>1 DEF CommitEvent, ClaimFunds, NodeInv, Event
  <2> HIDE DEF h
  <2>2. /\ issued' \subseteq InvHashes /\ failing' \subseteq OutHashes
        /\ htlc' \in [LnHashes -> InboundState \cup OutboundState]
    BY Zenon, <2>1 DEF NodeInv, InboundState
  <2>3. ASSUME NEW g \in LnHashes PROVE ReleasedAt(g)
    <3>1. CASE htlc'[g] = htlc[g]
      BY Zenon, <2>1, <3>1 DEF ReleasedAt
    <3>2. CASE htlc'[g] # htlc[g]
      <4>1. /\ g = h /\ e[1] = "PaymentClaimable" /\ htlc[g] = "received"
            /\ htlc'[g] = "claiming"
        BY Zenon, <2>1, <3>2 DEF NodeInv
      <4>2. op.name = "claimable" /\ op.batch[g] # None
        BY Zenon, <2>1, <4>1 DEF NodeInv, NodeInvAt, RequestAt
      <4>3. g \in claimed'
        BY Zenon, <2>1, <4>2, CommitFacts
      <4>4. QED  BY Zenon, <2>1, <4>1, <4>3 DEF ReleasedAt
    <3>3. QED  BY Zenon, <3>1, <3>2
  <2>4. QED  BY Zenon, <2>1, <2>2, <2>3, CommitFacts, ReleasePreserves
<1>2. CASE CommitCall
  <2>1. /\ Commit /\ holder' = {} /\ UNCHANGED <<htlc, failing, tasks>>
        /\ issued' \subseteq InvHashes /\ failing' \subseteq OutHashes
        /\ tasks' \subseteq tasks
        /\ htlc' \in [LnHashes -> InboundState \cup OutboundState]
    BY Zenon, <1>2 DEF CommitCall, NodeInv
  <2>2. \A g \in LnHashes : ReleasedAt(g)
    BY Zenon, <2>1 DEF ReleasedAt
  <2>3. QED  BY Zenon, <2>1, <2>2, CommitFacts, ReleasePreserves
<1>3. ASSUME NEW h \in OutHashes, NEW accepted \in BOOLEAN, CommitPayInvoice(h, accepted)
      PROVE  NodeInv'
  <2>1. /\ Commit /\ op.name = "new" /\ op.batch[h] # None /\ holder' = {}
        /\ UNCHANGED <<issued, tasks>> /\ h \in LnHashes
        /\ \/ htlc' = [htlc EXCEPT ![h] = "sending"] /\ failing' = failing
           \/ htlc' = htlc /\ failing' = failing \cup {h}
    BY Zenon, <1>3, HashesAreIds DEF CommitPayInvoice
  <2>2. /\ issued' \subseteq InvHashes /\ failing' \subseteq OutHashes
        /\ tasks' \subseteq tasks
        /\ htlc' \in [LnHashes -> InboundState \cup OutboundState]
    BY Zenon, <2>1 DEF NodeInv, OutboundState
  <2>3. /\ htlc[h] = "none" /\ h \notin failing
        /\ op.batch[h].status \in {"Pending", "InvoiceGenerated"}
    BY Zenon, <2>1 DEF NodeInv, NodeInvAt, RequestAt
  <2>4. db[h] = op.batch[h] /\ contains_payment_id(h)'
    BY Zenon, <2>1, CommitFacts
  <2>5. ASSUME NEW g \in LnHashes PROVE ReleasedAt(g)
    <3>1. CASE g = h
      BY Zenon, <2>1, <2>3, <2>4, <3>1 DEF ReleasedAt, NodeInv
    <3>2. CASE g # h
      BY Zenon, <2>1, <3>2 DEF ReleasedAt, NodeInv
    <3>3. QED  BY Zenon, <3>1, <3>2
  <2>6. QED  BY Zenon, <2>1, <2>2, <2>5, CommitFacts, ReleasePreserves
<1>4. QED  BY Zenon, <1>1, <1>2, <1>3

(* A failed persist, and an event that a check rejects. *)
LEMMA FailureSteps ==
    ASSUME NodeInv, \/ AbortCall
                    \/ \E e \in tasks : AbortEvent(e[1], e[2]) \/ RejectEvent(e[1], e[2])
    PROVE  NodeInv'
<1> USE DEF cm, calls
<1>1. ASSUME NEW e \in tasks, FatalError(e[1], e[2])
      PROVE  /\ e[2] \in LnHashes /\ tasks' \subseteq tasks
             /\ \/ htlc' = htlc
                \/ htlc[e[2]] = "received" /\ htlc' = [htlc EXCEPT ![e[2]] = "failedBack"]
  BY Zenon, <1>1 DEF FatalError, FailHtlcBackwards, NodeInv, Event
<1>2. ASSUME Abort, holder' = {}, UNCHANGED <<issued, failing>>, tasks' \subseteq tasks,
             NEW h \in LnHashes,
             \/ htlc' = htlc
             \/ htlc[h] = "received" /\ htlc' = [htlc EXCEPT ![h] = "failedBack"]
      PROVE  NodeInv'
  <2>1. IInv' /\ op' = Idle /\ UNCHANGED <<up, db, pending, finalized, claimed>>
    BY Zenon, <1>2, AbortPreserves DEF Abort, NodeInv
  <2>2. /\ issued' \subseteq InvHashes /\ failing' \subseteq OutHashes
        /\ htlc' \in [LnHashes -> InboundState \cup OutboundState]
    BY Zenon, <1>2 DEF NodeInv, InboundState
  <2>3. \A g \in LnHashes : contains_payment_id(g) => contains_payment_id(g)'
    BY Zenon, <2>1 DEF contains_payment_id
  <2>4. \A g \in LnHashes : ReleasedAt(g)
    BY Zenon, <1>2 DEF ReleasedAt, NodeInv
  <2>5. QED  BY Zenon, <1>2, <2>1, <2>2, <2>3, <2>4, ReleasePreserves
<1>3. CASE AbortCall
  <2>1. CASE LnHashes = {}
    <3>1. /\ IInv' /\ htlc' = htlc /\ tasks' = tasks /\ issued' = issued
          /\ failing' = failing
      BY Zenon, <1>3, AbortPreserves DEF AbortCall, NodeInv
    <3>2. QED  BY Zenon, <2>1, <3>1 DEF NodeInv
  <2>2. CASE LnHashes # {}
    BY Zenon, <1>2, <1>3, <2>2 DEF AbortCall
  <2>3. QED  BY Zenon, <2>1, <2>2
<1>4. ASSUME NEW e \in tasks, AbortEvent(e[1], e[2]) PROVE NodeInv'
  <2>1. Abort /\ FatalError(e[1], e[2]) /\ holder' = {} /\ UNCHANGED <<issued, failing>>
    BY Zenon, <1>4 DEF AbortEvent
  <2>2. QED  BY Zenon, <1>1, <1>2, <2>1
<1>5. ASSUME NEW e \in tasks, RejectEvent(e[1], e[2]) PROVE NodeInv'
  <2>1. FatalError(e[1], e[2]) /\ UNCHANGED vars /\ UNCHANGED <<issued, failing, holder>>
    BY Zenon, <1>5 DEF RejectEvent
  <2>2. IInv'
    BY Zenon, <2>1, IdlePreserves DEF NodeInv
  <2>3. CASE htlc' = htlc
    BY Zenon, <1>1, <2>1, <2>2, <2>3, QuietPreserves DEF vars
  <2>4. CASE htlc' # htlc
    BY Zenon, <1>1, <2>1, <2>4, NetworkPreserves
  <2>5. QED  BY Zenon, <2>3, <2>4
<1>6. QED  BY Zenon, <1>3, <1>4, <1>5

-----------------------------------------------------------------------------
(* The background processor spawns a handler for what LDK has reported. *)
LEMMA SpawnSteps ==
    ASSUME NodeInv, BgpProcess
    PROVE  NodeInv'
<1>1. /\ UNCHANGED vars /\ UNCHANGED <<htlc, issued, failing, holder>>
      /\ tasks' \subseteq tasks \cup Generated
  BY Zenon DEF BgpProcess, pending_events, calls
<1>2. UNCHANGED <<up, pending, finalized, op, claimed, db>> /\ IInv'
  BY Zenon, <1>1, IdlePreserves DEF vars, NodeInv
<1>3. ASSUME NEW e \in Generated
      PROVE  /\ e \in Event
             /\ \E h \in LnHashes :
                   /\ NodeInvAt(h)
                   /\ \/ (e = <<"PaymentClaimable", h>>
                          /\ htlc[h] \in {"received", "failedBack", "claiming", "claimed"})
                      \/ (e = <<"PaymentClaimed", h>> /\ htlc[h] = "claimed")
                      \/ (e = <<"PaymentSent", h>> /\ htlc[h] = "sent")
                      \/ (e = <<"PaymentFailed", h>> /\ htlc[h] = "failed")
  <2>1. PICK h \in LnHashes : e \in EventsOf(h, htlc[h])
    BY Zenon, <1>3 DEF Generated
  <2>2. NodeInvAt(h) /\ htlc[h] \in InboundState \cup OutboundState
    BY Zenon DEF NodeInv
  <2>3. \/ (e = <<"PaymentClaimable", h>>
            /\ htlc[h] \in {"received", "failedBack", "claiming", "claimed"})
        \/ (e = <<"PaymentClaimed", h>> /\ htlc[h] = "claimed")
        \/ (e = <<"PaymentSent", h>> /\ htlc[h] = "sent")
        \/ (e = <<"PaymentFailed", h>> /\ htlc[h] = "failed")
    BY Zenon, <2>1, <2>2 DEF EventsOf, InboundState, OutboundState
  <2>4. QED  BY <2>2, <2>3 DEF Event
<1>4. tasks' \subseteq Event
  BY Zenon, <1>1, <1>3 DEF NodeInv
<1>5. ASSUME NEW h \in LnHashes PROVE NodeInvAt(h)'
  <2>1. NodeInvAt(h)
    BY Zenon DEF NodeInv
  <2>2. TasksAt(h)'
    <3>1. <<"PaymentClaimable", h>> \in Generated => h \notin OutHashes
      BY Zenon, <1>3, <2>1 DEF NodeInvAt, OutboundState
    <3>2. /\ <<"PaymentClaimed", h>> \in Generated => htlc[h] = "claimed"
          /\ <<"PaymentSent", h>> \in Generated => htlc[h] = "sent"
          /\ <<"PaymentFailed", h>> \in Generated => htlc[h] = "failed"
      BY Zenon, <1>3
    <3>3. QED  BY Zenon, <1>1, <2>1, <3>1, <3>2 DEF NodeInvAt, TasksAt
  <2>3. TrueOf(h, db[h])' /\ TrueOf(h, op.batch[h])'
    BY Zenon, <1>1, <1>2, <2>1 DEF NodeInvAt, TrueOf
  <2>4. SentAt(h)' /\ RequestAt(h)'
    BY Zenon, <1>1, <1>2, <2>1 DEF NodeInvAt, SentAt, RequestAt, contains_payment_id
  <2>5. QED  BY Zenon, <1>1, <1>2, <2>1, <2>2, <2>3, <2>4 DEF NodeInvAt
<1>6. QED  BY Zenon, <1>1, <1>2, <1>4, <1>5 DEF NodeInv

(* A crash loses the handlers and the calls, and may undo what LDK had not *)
(* persisted, none of which is on record as done.                          *)
LEMMA CrashSteps ==
    ASSUME NodeInv, NodeCrash
    PROVE  NodeInv'
<1>1. PICK after \in [LnHashes -> UNION {AfterReboot(h) : h \in LnHashes}] :
        /\ \A h \in LnHashes : after[h] \in AfterReboot(h)
        /\ htlc' = after
  BY Zenon DEF NodeCrash
<1>2. /\ IInv' /\ op' = Idle /\ ~up' /\ UNCHANGED <<claimed, db, issued>>
      /\ tasks' = {} /\ failing' = {} /\ holder' = {}
  BY Zenon, CrashPreserves DEF NodeCrash, Crash, NodeInv
<1>3. op'.name = "idle" /\ \A h \in LnHashes : op'.batch[h] = None
  BY Zenon, <1>2, HashesAreIds DEF Idle, NoPayments
<1>4. ASSUME NEW h \in LnHashes
      PROVE  \/ htlc'[h] = htlc[h]
             \/ htlc[h] = "sending" /\ htlc'[h] = "lost"
             \/ htlc[h] \in {"claiming", "failedBack"} /\ htlc'[h] = "received"
  <2>1. htlc'[h] \in AfterReboot(h)
    BY Zenon, <1>1
  <2>2. htlc[h] \in InboundState \cup OutboundState
    BY Zenon DEF NodeInv
  <2>3. QED  BY Zenon, <2>1, <2>2 DEF AfterReboot, InboundState, OutboundState
<1>5. htlc' \in [LnHashes -> InboundState \cup OutboundState]
  <2>1. htlc \in [LnHashes -> InboundState \cup OutboundState]
    BY Zenon DEF NodeInv
  <2>2. \A h \in LnHashes : htlc'[h] \in InboundState \cup OutboundState
    BY Zenon, <1>4, <2>1 DEF InboundState, OutboundState
  <2>3. QED  BY Zenon, <1>1, <2>2
<1>6. ASSUME NEW h \in LnHashes PROVE NodeInvAt(h)'
  <2>1. NodeInvAt(h)
    BY Zenon DEF NodeInv
  <2>2. htlc'[h] \in IF h \in OutHashes THEN OutboundState ELSE InboundState
    BY Zenon, <1>4, <2>1 DEF NodeInvAt, InboundState, OutboundState
  <2>3. htlc'[h] \in {"claiming", "claimed"} => h \in claimed'
    BY Zenon, <1>2, <1>4, <2>1 DEF NodeInvAt
  <2>4. TasksAt(h)' /\ TrueOf(h, op.batch[h])' /\ RequestAt(h)'
    BY Zenon, <1>2, <1>3 DEF TasksAt, TrueOf, RequestAt
  <2>5. TrueOf(h, db[h])'
    BY Zenon, <1>2, <1>4, <2>1 DEF NodeInvAt, TrueOf
  <2>6. SentAt(h)'
    BY Zenon, <1>2, <1>4, <2>1 DEF NodeInvAt, SentAt, OutboundState
  <2>7. QED  BY Zenon, <2>2, <2>3, <2>4, <2>5, <2>6 DEF NodeInvAt
<1>7. QED  BY Zenon, <1>2, <1>5, <1>6 DEF NodeInv

(* A boot loads everything that was sent. *)
LEMMA BootSteps ==
    ASSUME NodeInv, NodeBoot
    PROVE  NodeInv'
<1>1. /\ Boot /\ UNCHANGED <<htlc, issued, failing, tasks, holder>>
  BY Zenon DEF NodeBoot, cm, calls
<1>2. IInv' /\ UNCHANGED <<op, claimed, db>>
  BY Zenon, <1>1, BootPreserves DEF Boot, NodeInv
<1>3. \A h \in LnHashes : contains_payment_id(h)' <=> db[h] # None
  BY Zenon, <1>1, HashesAreIds DEF Boot, contains_payment_id
<1>4. \A h \in LnHashes : ~contains_payment_id(h)
  BY Zenon, <1>1, HashesAreIds DEF Boot, NodeInv, IInv, OpShape, contains_payment_id, NoPayments
<1>5. ASSUME NEW h \in LnHashes PROVE NodeInvAt(h)'
  <2>1. NodeInvAt(h)
    BY Zenon DEF NodeInv
  <2>2. TasksAt(h)' /\ TrueOf(h, db[h])' /\ TrueOf(h, op.batch[h])' /\ RequestAt(h)'
    BY Zenon, <1>1, <1>2, <2>1 DEF NodeInvAt, TasksAt, TrueOf, RequestAt
  <2>3. SentAt(h)'
    BY Zenon, <1>1, <1>2, <1>3, <1>4, <2>1 DEF NodeInvAt, SentAt
  <2>4. QED  BY Zenon, <1>1, <1>2, <2>1, <2>2, <2>3 DEF NodeInvAt
<1>6. QED  BY Zenon, <1>1, <1>2, <1>5 DEF NodeInv

-----------------------------------------------------------------------------
LEMMA NodeInitInv == NodeInit => NodeInv
<1> SUFFICES ASSUME NodeInit PROVE NodeInv  OBVIOUS
<1>1. IInv
  BY Zenon, InitInv DEF NodeInit
<1>2. /\ htlc = [h \in LnHashes |-> "none"]
      /\ issued = {} /\ failing = {} /\ tasks = {} /\ holder = {}
  BY Zenon DEF NodeInit
<1>3. op.name = "idle" /\ \A h \in LnHashes : op.batch[h] = None /\ db[h] = None
  BY Zenon, HashesAreIds DEF NodeInit, Init, Idle, NoPayments
<1>4. ASSUME NEW h \in LnHashes PROVE NodeInvAt(h)
  BY Zenon, <1>2, <1>3 DEF NodeInvAt, TasksAt, TrueOf, SentAt, RequestAt, InboundState, OutboundState
<1>5. QED  BY Zenon, <1>1, <1>2, <1>4 DEF NodeInv, InboundState

(* command.rs, event_handler.rs, background_processor.rs: the invariant    *)
(* that ties the durable records, the handlers and the calls under way to  *)
(* what LDK and the network know holds in every reachable state.           *)
THEOREM NodeInvariance == NodeSpec => []NodeInv
<1>1. NodeInit => NodeInv
  BY Zenon, NodeInitInv
<1>2. NodeInv /\ [NodeNext]_nodeVars => NodeInv'
  <2> SUFFICES ASSUME NodeInv, [NodeNext]_nodeVars PROVE NodeInv'  OBVIOUS
  <2> USE DEF cm, calls
  <2>1. ASSUME UNCHANGED vars, UNCHANGED <<htlc, issued, failing, holder, tasks>>
        PROVE  NodeInv'
    <3>1. IInv'
      BY Zenon, <2>1, IdlePreserves DEF NodeInv
    <3>2. UNCHANGED <<up, pending, finalized, op, claimed, db, htlc, issued, failing, holder>>
          /\ tasks' \subseteq tasks
      BY Zenon, <2>1 DEF vars
    <3>3. QED  BY Zenon, <3>1, <3>2, QuietPreserves
  <2>2. CASE UNCHANGED nodeVars
    BY Zenon, <2>1, <2>2 DEF nodeVars
  <2>3. CASE \E h \in OutHashes : preflight(h) \/ RefusePayInvoice(h)
    BY Zenon, <2>1, <2>3 DEF preflight, RefusePayInvoice
  <2>4. CASE BgpPersisted \/ BgpPersistFails \/ SendShutdown \/ BgpShutdown \/ BgpFinalPersist
    BY Zenon, <2>1, <2>4 DEF BgpPersisted, BgpPersistFails, SendShutdown, BgpShutdown, BgpFinalPersist
  <2>5. CASE \E h \in Expirable : NodeInvoiceExpires(h)
    <3>1. PICK h \in LnHashes : NodeInvoiceExpires(h)
      BY Zenon, <2>5, HashesArePartitioned
    <3>2. IInv'
      BY Zenon, <3>1, IdlePreserves DEF NodeInv, NodeInvoiceExpires
    <3>3. UNCHANGED <<up, pending, finalized, op, claimed, db, htlc, issued, failing, holder>>
          /\ tasks' \subseteq tasks
      BY Zenon, <3>1 DEF NodeInvoiceExpires, InvoiceExpires
    <3>4. QED  BY Zenon, <3>2, <3>3, QuietPreserves
  <2>6. CASE \/ \E h \in InvHashes \cup KsHashes :
                   HtlcArrives(h) \/ HtlcTimesOut(h) \/ ClaimCompletes(h)
             \/ \E h \in OutHashes : SendEnds(h, "sent") \/ SendEnds(h, "failed")
    BY Zenon, <2>6, LdkSteps
  <2>7. CASE \/ \E h \in InvHashes : create_invoice(h)
             \/ \E h \in OutHashes : pay_invoice(h)
    BY Zenon, <2>7, NewPaymentSteps
  <2>8. CASE \E h \in OutHashes : RegisterSendFailure(h)
    BY Zenon, <2>8, SendFailureSteps
  <2>9. CASE ExpiryCheck
    BY Zenon, <2>9, ExpirySteps
  <2>10. CASE \E e \in tasks : HandleEvent(e[1], e[2])
    BY Zenon, <2>10, HandlerSteps
  <2>11. CASE \/ \E e \in tasks : CommitEvent(e[1], e[2])
              \/ CommitCall
              \/ \E h \in OutHashes, accepted \in BOOLEAN : CommitPayInvoice(h, accepted)
    BY Zenon, <2>11, CommitSteps
  <2>12. CASE \/ AbortCall
              \/ \E e \in tasks : AbortEvent(e[1], e[2]) \/ RejectEvent(e[1], e[2])
    BY Zenon, <2>12, FailureSteps
  <2>13. CASE Backend \/ BgpProcess \/ NodeCrash \/ NodeBoot
    BY Zenon, <2>13, BackendSteps, SpawnSteps, CrashSteps, BootSteps
  <2>14. QED
    BY Zenon, <2>2, <2>3, <2>4, <2>5, <2>6, <2>7, <2>8, <2>9, <2>10, <2>11, <2>12, <2>13
       DEF NodeNext
<1>3. QED  BY <1>1, <1>2, PTL DEF NodeSpec

(* event_handler.rs, manager.rs: what the durable record says of a         *)
(* finished payment is what happened on the network, for any invoices and  *)
(* keysends, through crashes, lost replies, expiry and replayed events.    *)
THEOREM RecordsAreTrue == NodeSpec => []RecordIsTrue
<1>1. ASSUME NodeInv PROVE RecordIsTrue
  <2> SUFFICES ASSUME NEW h \in LnHashes
               PROVE  /\ HasStatus(h, {"Completed"}) => htlc[h] \in {"sent", "claimed"}
                      /\ HasStatus(h, {"Failed"})    => htlc[h] \in {"none", "lost", "failed"}
                      /\ HasStatus(h, {"Expired"})   => htlc[h] \notin {"claiming", "claimed"}
    BY Zenon DEF RecordIsTrue
  <2>1. NodeInvAt(h) /\ ClaimedAt(h)
    BY Zenon, <1>1 DEF NodeInv, IInv
  <2>2. QED  BY Zenon, <2>1 DEF NodeInvAt, TrueOf, HasStatus, ClaimedAt
<1>2. QED  BY <1>1, NodeInvariance, PTL

(* command.rs: pay_invoice registers a payment before it sends it, and     *)
(* never sends an invoice twice, however many calls are under way for it   *)
(* and whatever was lost in a crash between two of them.                   *)
THEOREM InvoicesArePaidOnce == NodeSpec => []PaidAtMostOnce
<1>1. ASSUME NodeInv PROVE PaidAtMostOnce
  <2> SUFFICES ASSUME NEW h \in OutHashes
               PROVE  /\ htlc[h] # "none" => db[h] # None
                      /\ op.name = "new" /\ op.batch[h] # None =>
                            htlc[h] = "none" /\ h \notin failing
    BY Zenon DEF PaidAtMostOnce
  <2>1. NodeInvAt(h)
    BY Zenon, <1>1, HashesAreIds DEF NodeInv
  <2>2. QED  BY Zenon, <2>1 DEF NodeInvAt, SentAt, RequestAt
<1>2. QED  BY <1>1, NodeInvariance, PTL
=============================================================================
