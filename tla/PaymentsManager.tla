---------------------------- MODULE PaymentsManager ----------------------------
(***************************************************************************)
(* lexe-ln/src/payments/manager.rs: the payments manager of a node, its    *)
(* in-memory PaymentsData, and the payments table of Lexe's backend.       *)
(*                                                                         *)
(* Every operation is check -> persist -> commit under one Tokio mutex.    *)
(* The check runs in the step that takes the lock; the persist is a        *)
(* request to the backend that the node awaits; the commit and whatever    *)
(* follows it run in the step that releases the lock.  `op` is the         *)
(* operation that holds the lock.  The node may crash between any two      *)
(* steps and boots from the table alone.                                   *)
(*                                                                         *)
(* Callers are unconstrained: any handler may be called at any time, so    *)
(* what holds here holds whatever LDK, the user and the timers do.         *)
(***************************************************************************)
EXTENDS Payments, FiniteSets

CONSTANTS
    LnHashes,       \* LxPaymentId::Lightning: invoices and keysends, by hash
    Cids,           \* LxPaymentId::OnchainSend: by client payment id
    Txids,          \* LxPaymentId::OnchainRecv: by txid
    ConfCounts,     \* numbers of confirmations that Esplora may report
    LostReplies     \* may the backend apply a write whose reply is lost?

Ids == LnHashes \cup Cids \cup Txids

ASSUME IdsAreDisjoint ==
    /\ LnHashes \cap Cids = {}
    /\ LnHashes \cap Txids = {}
    /\ Cids \cap Txids = {}

ASSUME ConfCountsAreNat == ConfCounts \subseteq Nat

ASSUME LostRepliesIsBool == LostReplies \in BOOLEAN

VARIABLES
    up,         \* is the node running?
    pending,    \* PaymentsData.pending: id -> payment, None when absent
    finalized,  \* PaymentsData.finalized
    op,         \* the operation holding the lock on PaymentsData
    confIds,    \* onchain confs checker: ids it has queried without the lock
    recvIds,    \* onchain receive checker: unseen txids it is registering
    expired,    \* invoices whose expiry has passed
    claimed,    \* hashes for which claim_funds has been called
    db          \* payments table of the backend, None when absent

vars == <<up, pending, finalized, op, confIds, recvIds, expired, claimed, db>>

Table == [Ids -> Payment \cup {None}]

NoPayments == [i \in Ids |-> None]

(* A batch of checked payments laid over a table. *)
Overlay(batch, table) ==
    [i \in Ids |-> IF batch[i] # None THEN batch[i] ELSE table[i]]

Only(id, p) == [i \in Ids |-> IF i = id THEN p ELSE None]

OpNames == {"new", "note", "claimable", "claimed", "sent", "failed",
            "expiries", "broadcasted", "confs"}

Idle == [name |-> "idle", create |-> FALSE, batch |-> NoPayments, reply |-> "none"]

LockFree == op.name = "idle"

TypeOK ==
    /\ up \in BOOLEAN
    /\ pending \in Table
    /\ finalized \in SUBSET Ids
    /\ op \in [name : OpNames \cup {"idle"}, create : BOOLEAN, batch : Table,
               reply : {"none", "waiting", "ok", "err"}]
    /\ confIds \in SUBSET (Cids \cup Txids)
    /\ recvIds \in SUBSET Txids
    /\ expired \in SUBSET LnHashes
    /\ claimed \in SUBSET LnHashes
    /\ db \in Table

Init ==
    /\ up = TRUE
    /\ pending = NoPayments
    /\ finalized = {}
    /\ op = Idle
    /\ confIds = {}
    /\ recvIds = {}
    /\ expired = {}
    /\ claimed = {}
    /\ db = NoPayments

-----------------------------------------------------------------------------
(* PaymentsData: the check_* functions, None for Err. *)

contains_payment_id(id) == pending[id] # None \/ id \in finalized

(* MUTANT of check_new_payment: relies on the caller's own check. *)
MutNewPaymentUnchecked(id, p) == p

check_new_payment(id, p) == IF contains_payment_id(id) THEN None ELSE p

check_payment_claimable(h, purpose) ==
    IF h \in finalized THEN None
    ELSE IF pending[h] # None THEN CheckClaimable(pending[h], purpose, h \in expired)
    ELSE IF purpose = "Spontaneous" THEN check_new_payment(h, NewInboundSpontaneous)
    ELSE None

check_payment_claimed(h, purpose) ==
    IF h \in finalized \/ pending[h] = None
    THEN None ELSE CheckClaimed(pending[h], purpose)

check_payment_sent(h) ==
    IF h \in finalized \/ pending[h] = None THEN None ELSE CheckSent(pending[h])

check_payment_failed(h) ==
    IF h \in finalized \/ pending[h] = None THEN None ELSE CheckFailed(pending[h])

check_broadcasted(id) ==
    IF id \in finalized \/ pending[id] = None THEN None ELSE broadcasted(pending[id])

check_invoice_expiries ==
    [i \in Ids |-> IF i \in LnHashes /\ pending[i] # None
                   THEN CheckInvoiceExpiry(pending[i], i \in expired) ELSE None]

(* One missing or already final payment is an Err for the whole batch. *)
confs_are_valid(ids) ==
    \A i \in ids : pending[i] # None /\ IsPending(pending[i])

check_onchain_confs(ids, conf_statuses) ==
    [i \in Ids |-> IF i \in ids THEN CheckOnchainConf(pending[i], conf_statuses[i])
                   ELSE None]

(* MUTANT of CommitPending: a final payment stays in the pending map. *)
MutCommitKeepsFinal(batch) ==
    [i \in Ids |-> IF batch[i] = None THEN pending[i] ELSE batch[i]]

(* PaymentsData::commit, for every payment of a batch. *)
CommitPending(batch) ==
    [i \in Ids |-> IF batch[i] = None THEN pending[i]
                   ELSE IF IsPending(batch[i]) THEN batch[i] ELSE None]

CommitFinalized(batch) ==
    finalized \cup {i \in Ids : batch[i] # None /\ ~IsPending(batch[i])}
-----------------------------------------------------------------------------
(* Check: take the lock, validate, and send the persist request. *)

Begin(name, create, batch) ==
    /\ up /\ LockFree
    /\ op' = [name |-> name, create |-> create, batch |-> batch, reply |-> "waiting"]
    /\ UNCHANGED <<up, pending, finalized, expired, claimed, db>>

(* MUTANT of BeginOne: memory is updated before the persist succeeds. *)
MutCommitBeforePersist(name, create, id, checked) ==
    /\ checked # None
    /\ up /\ LockFree
    /\ op' = [name |-> name, create |-> create, batch |-> Only(id, checked),
              reply |-> "waiting"]
    /\ pending' = CommitPending(Only(id, checked))
    /\ finalized' = CommitFinalized(Only(id, checked))
    /\ UNCHANGED <<up, expired, claimed, db, confIds>>

BeginOne(name, create, id, checked) ==
    /\ checked # None
    /\ Begin(name, create, Only(id, checked))
    /\ UNCHANGED confIds

(* new_payment, called by create_invoice, pay_invoice and pay_onchain. *)
new_payment(id, p) ==
    /\ BeginOne("new", TRUE, id, check_new_payment(id, p))
    /\ UNCHANGED recvIds

(* update_payment_note.  A finalized payment is fetched from the backend   *)
(* under the lock, so nothing comes between the fetch and the persist.     *)
update_payment_note(id, note) ==
    /\ contains_payment_id(id)
    /\ LET p == IF pending[id] # None THEN pending[id] ELSE db[id]
       IN  BeginOne("note", FALSE, id, set_note(p, note))
    /\ UNCHANGED recvIds

payment_claimable(h, purpose) ==
    /\ BeginOne("claimable", FALSE, h, check_payment_claimable(h, purpose))
    /\ UNCHANGED recvIds

payment_claimed(h, purpose) ==
    /\ BeginOne("claimed", FALSE, h, check_payment_claimed(h, purpose))
    /\ UNCHANGED recvIds

payment_sent(h) ==
    /\ BeginOne("sent", FALSE, h, check_payment_sent(h))
    /\ UNCHANGED recvIds

payment_failed(h) ==
    /\ BeginOne("failed", FALSE, h, check_payment_failed(h))
    /\ UNCHANGED recvIds

onchain_send_broadcasted(id) ==
    /\ BeginOne("broadcasted", FALSE, id, check_broadcasted(id))
    /\ UNCHANGED recvIds

(* The abandon_payment calls change nothing that is modelled here.  An     *)
(* empty batch is not persisted.                                           *)
CheckInvoiceExpiries ==
    /\ check_invoice_expiries # NoPayments
    /\ Begin("expiries", FALSE, check_invoice_expiries)
    /\ UNCHANGED <<confIds, recvIds>>

(* check_onchain_confs, first critical section: collect the ids of the     *)
(* pending onchain payments and release the lock to query Esplora.         *)
SnapshotOnchainConfs ==
    /\ up /\ LockFree /\ confIds = {}
    /\ confIds' = {i \in Cids \cup Txids : pending[i] # None}
    /\ confIds' # {}
    /\ UNCHANGED <<up, pending, finalized, op, recvIds, expired, claimed, db>>

(* MUTANT of CheckOnchainConfs: the ids are kept for the next check. *)
MutConfIdsKept(conf_statuses) ==
    /\ confIds # {}
    /\ confs_are_valid(confIds)
    /\ check_onchain_confs(confIds, conf_statuses) # NoPayments
    /\ Begin("confs", FALSE, check_onchain_confs(confIds, conf_statuses))
    /\ UNCHANGED <<confIds, recvIds>>

(* Second critical section, with whatever Esplora said in the meantime. *)
CheckOnchainConfs(conf_statuses) ==
    /\ confIds # {}
    /\ confs_are_valid(confIds)
    /\ check_onchain_confs(confIds, conf_statuses) # NoPayments
    /\ Begin("confs", FALSE, check_onchain_confs(confIds, conf_statuses))
    /\ confIds' = {}
    /\ UNCHANGED recvIds

(* Esplora failed, the batch was invalid, or no payment had changed. *)
DropOnchainConfs ==
    /\ up /\ confIds # {}
    /\ confIds' = {}
    /\ UNCHANGED <<up, pending, finalized, op, recvIds, expired, claimed, db>>

(* check_onchain_receives: of the inbound txs that the wallet lists, keep  *)
(* the unseen ones and release the lock before registering them.           *)
SnapshotOnchainReceives(txs) ==
    /\ up /\ LockFree /\ recvIds = {}
    /\ recvIds' = {t \in txs : ~contains_payment_id(t)}
    /\ recvIds' # {}
    /\ UNCHANGED <<up, pending, finalized, op, confIds, expired, claimed, db>>

(* join_all of one new_payment per unseen tx; each takes the lock in turn. *)
RegisterOnchainReceive(t) ==
    /\ t \in recvIds
    /\ BeginOne("new", TRUE, t, check_new_payment(t, NewOnchainReceive))
    /\ recvIds' = recvIds \ {t}

(* The checker gives up on what is left: a tx could not be fetched, or was *)
(* registered by someone else since the snapshot.                          *)
DropOnchainReceives ==
    /\ up /\ recvIds # {}
    /\ recvIds' = {}
    /\ UNCHANGED <<up, pending, finalized, op, confIds, expired, claimed, db>>

-----------------------------------------------------------------------------
(* Persist: the backend answers the request of the lock holder. *)

Reply(r) ==
    /\ op' = [op EXCEPT !.reply = r]
    /\ UNCHANGED <<up, pending, finalized, confIds, recvIds, expired, claimed>>

IsDuplicate == op.create /\ \E i \in Ids : op.batch[i] # None /\ db[i] # None

(* create_payment inserts and rejects a duplicate id, upsert_payment and   *)
(* the ACID upsert_payment_batch overwrite.  The reply may get lost.       *)
BackendApplies ==
    /\ op.reply = "waiting" /\ ~IsDuplicate
    /\ db' = Overlay(op.batch, db)
    /\ \E r \in {"ok"} \cup (IF LostReplies THEN {"err"} ELSE {}) : Reply(r)

(* The request is refused as a duplicate, or fails before it is applied. *)
BackendRefuses ==
    /\ op.reply = "waiting"
    /\ Reply("err")
    /\ UNCHANGED db

-----------------------------------------------------------------------------
(* Commit: apply the persisted batch to PaymentsData, then claim the       *)
(* funds of a claimable payment; release the lock.                         *)
Commit ==
    /\ op.reply = "ok"
    /\ pending' = CommitPending(op.batch)
    /\ finalized' = CommitFinalized(op.batch)
    /\ claimed' = IF op.name = "claimable"
                  THEN claimed \cup {h \in LnHashes : op.batch[h] # None}
                  ELSE claimed
    /\ op' = Idle
    /\ UNCHANGED <<up, confIds, recvIds, expired, db>>

(* MUTANT of Abort: the batch is committed although its persist failed. *)
MutAbortCommits ==
    /\ op.reply = "err"
    /\ pending' = CommitPending(op.batch)
    /\ finalized' = CommitFinalized(op.batch)
    /\ op' = Idle
    /\ UNCHANGED <<up, confIds, recvIds, expired, claimed, db>>

(* The persist failed: the handler returns the error and memory is left as *)
(* it was.  payment_claimable also fails the HTLC back to the sender.      *)
Abort ==
    /\ op.reply = "err"
    /\ op' = Idle
    /\ UNCHANGED <<up, pending, finalized, confIds, recvIds, expired, claimed, db>>

-----------------------------------------------------------------------------
(* The environment: time passes, the node crashes or is stopped, and boots.*)

InvoiceExpires(h) ==
    /\ h \notin expired
    /\ expired' = expired \cup {h}
    /\ UNCHANGED <<up, pending, finalized, op, confIds, recvIds, claimed, db>>

Crash ==
    /\ up
    /\ up' = FALSE
    /\ pending' = NoPayments
    /\ finalized' = {}
    /\ op' = Idle
    /\ confIds' = {}
    /\ recvIds' = {}
    /\ UNCHANGED <<expired, claimed, db>>

(* MUTANT of Boot: the ids of the finalized payments are not loaded. *)
MutBootForgetsFinalized ==
    /\ ~up
    /\ up' = TRUE
    /\ pending' = [i \in Ids |-> IF db[i] # None /\ IsPending(db[i])
                                 THEN db[i] ELSE None]
    /\ UNCHANGED <<finalized, op, confIds, recvIds, expired, claimed, db>>

(* run.rs reads the pending payments and the ids of the finalized ones,    *)
(* and PaymentsManager::new keeps the payments that are indeed pending.    *)
Boot ==
    /\ ~up
    /\ up' = TRUE
    /\ pending' = [i \in Ids |-> IF db[i] # None /\ IsPending(db[i])
                                 THEN db[i] ELSE None]
    /\ finalized' = {i \in Ids : db[i] # None /\ ~IsPending(db[i])}
    /\ UNCHANGED <<op, confIds, recvIds, expired, claimed, db>>

Next ==
    \/ \E h \in LnHashes :
          \/ new_payment(h, NewInboundInvoice)
          \/ \E n \in Notes \cup {None} : new_payment(h, NewOutboundInvoice(n))
          \/ \E purpose \in {"Invoice", "Spontaneous"} :
                payment_claimable(h, purpose) \/ payment_claimed(h, purpose)
          \/ payment_sent(h)
          \/ payment_failed(h)
          \/ InvoiceExpires(h)
    \/ \E c \in Cids :
          \/ \E n \in Notes \cup {None} : new_payment(c, NewOnchainSend(n))
          \/ onchain_send_broadcasted(c)
    \/ \E i \in Ids, n \in Notes \cup {None} : update_payment_note(i, n)
    \/ CheckInvoiceExpiries
    \/ SnapshotOnchainConfs
    \/ \E s \in [confIds -> TxConfStatus(ConfCounts)] : CheckOnchainConfs(s)
    \/ DropOnchainConfs
    \/ \E txs \in SUBSET Txids : SnapshotOnchainReceives(txs)
    \/ \E t \in Txids : RegisterOnchainReceive(t)
    \/ DropOnchainReceives
    \/ BackendApplies \/ BackendRefuses \/ Commit \/ Abort
    \/ Crash \/ Boot

Spec == Init /\ [][Next]_vars
-----------------------------------------------------------------------------
(* Properties. *)

(* "State updates are in sync" (PaymentsManager's doc comment): whenever   *)
(* no operation holds the lock, the pending map and the finalized set of a *)
(* running node are exactly what a reboot would read back from the         *)
(* backend, so neither a crash nor a failed persist ever changes what the  *)
(* node believes.  Needs a backend that does not lose replies.             *)
InSync ==
    up /\ LockFree =>
        /\ pending = [i \in Ids |-> IF db[i] # None /\ IsPending(db[i])
                                    THEN db[i] ELSE None]
        /\ finalized = {i \in Ids : db[i] # None /\ ~IsPending(db[i])}

(* Persist comes before commit: even when replies get lost, memory never   *)
(* knows of a payment, or of the end of a payment, that the backend would  *)
(* forget in a crash.                                                      *)
MemoryNotAhead ==
    \A i \in Ids :
        /\ pending[i] # None => db[i] # None /\ db[i].kind = pending[i].kind
        /\ i \in finalized => db[i] # None /\ ~IsPending(db[i])

(* commit's debug assertion, and the two halves of PaymentsData: a payment *)
(* is pending or finalized, never both, the pending map holds pending      *)
(* payments only, and finalized_at is set exactly on final payments, in    *)
(* memory and in every record that the backend holds.                      *)
PaymentsDataInvariants ==
    \A i \in Ids :
        /\ pending[i] # None =>
             IsPending(pending[i]) /\ assert_invariants(pending[i]) /\ i \notin finalized
        /\ db[i] # None => assert_invariants(db[i])

(* payment_claimable claims funds only after the payment is on record: a   *)
(* payment whose preimage we released is durably Claiming or Completed,    *)
(* through every crash, lost reply, expiry check and replayed event.       *)
ClaimedIsRecorded ==
    \A h \in claimed : db[h] # None /\ db[h].status \in {"Claiming", "Completed"}

(* The confs checker drops the lock between collecting ids and applying    *)
(* what Esplora said; no payment it is asking about may be finalized in    *)
(* between, or the whole batch fails as "payment was missing".             *)
ConfsSnapshotStaysValid == confs_are_valid(confIds)

(* A record never disappears, never turns into another kind of payment     *)
(* (a hash we invoiced is not paid as an outbound payment), and a user's   *)
(* note is changed only by update_payment_note: no status transition       *)
(* overwrites a newer note with the one it read earlier.                   *)
RecordIsKept ==
    [][\A i \in Ids : db[i] # None =>
            /\ db'[i] # None
            /\ db'[i].kind = db[i].kind
            /\ db'[i].note # db[i].note => op.name = "note"]_vars

(* The durable record of every payment goes through the abstract lifecycle:*)
(* it starts pending, is decided at most once, and stays decided.  Needs a *)
(* backend that does not lose replies.                                     *)
Lifecycle == INSTANCE PaymentLifecycle WITH
    life <- [i \in Ids |-> IF db[i] = None THEN "Absent" ELSE PaymentStatus(db[i])]

LifecycleSpec == Lifecycle!Spec
-----------------------------------------------------------------------------
(* The inductive invariant behind the theorems of LightningNodeProofs.     *)

(* What memory and the backend say of one payment agree. *)
InSyncAt(i) ==
    /\ pending[i] = IF db[i] # None /\ IsPending(db[i]) THEN db[i] ELSE None
    /\ i \in finalized <=> db[i] # None /\ ~IsPending(db[i])

(* A node that is down remembers nothing; an idle lock has no request. *)
OpShape ==
    /\ ~up => /\ pending = NoPayments /\ finalized = {} /\ op = Idle
              /\ confIds = {} /\ recvIds = {}
    /\ op.name = "idle" => op = Idle
    /\ op.name # "idle" => op.reply # "none"
    /\ op.name = "confs" => confIds = {}

(* What the request of the lock holder may say of one payment, given what  *)
(* memory says of it: the check ran against the memory of now, since the   *)
(* lock is held from the check to the commit.                              *)
BatchAt(i) ==
    LET new == op.batch[i] IN
    new # None =>
        /\ assert_invariants(new)
        /\ pending[i] # None =>
             /\ new.kind = pending[i].kind
             /\ op.name # "note" => new.note = pending[i].note
             /\ i \notin LnHashes /\ op.name # "confs" => IsPending(new)
        /\ i \in finalized =>
             op.name = "note" /\ new = set_note(db[i], new.note)
        /\ ~contains_payment_id(i) => IsPending(new)
        /\ op.name = "claimable" => new.status = "Claiming"
        /\ op.reply = "ok" => db[i] = new

(* A payment whose funds were claimed stays Claiming until it is Completed,*)
(* and a running node never forgets it.                                    *)
ClaimedAt(h) ==
    h \in claimed =>
        /\ db[h] # None /\ db[h].status \in {"Claiming", "Completed"}
        /\ pending[h] # None => pending[h].status = "Claiming"
        /\ op.batch[h] # None => op.batch[h].status \in {"Claiming", "Completed"}
        /\ up => contains_payment_id(h)

(* The id of an onchain payment never names a Lightning payment. *)
OnchainAt(i) ==
    i \notin LnHashes =>
        \A table \in {pending, db, op.batch} :
            table[i] # None => table[i].kind \in {"OnchainSend", "OnchainReceive"}

(* Without lost replies the backend is at most one request ahead. *)
SyncedAt(i) ==
    ~LostReplies /\ up =>
        InSyncAt(i) \/ (op.reply = "ok" /\ op.batch[i] # None)

(* Everything the safety properties need, inductive under every action:    *)
(* the properties themselves, the shape of `op`, and the three relations   *)
(* between memory, the request under way and the backend.                  *)
IInv ==
    /\ TypeOK
    /\ OpShape
    /\ MemoryNotAhead
    /\ PaymentsDataInvariants
    /\ \A i \in confIds : pending[i] # None
    /\ \A i \in Ids : BatchAt(i) /\ OnchainAt(i) /\ SyncedAt(i)
    /\ \A h \in LnHashes : ClaimedAt(h)
=============================================================================
