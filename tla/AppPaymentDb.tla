----------------------------- MODULE AppPaymentDb -----------------------------
(***************************************************************************)
(* The app's payment database and its sync with the user node              *)
(* (app-rs/src/{payments,ffs}.rs, and the calls of app.rs and bindings.rs  *)
(* that reach them).  The app calls these functions from several threads:  *)
(* `payment_db` is a std Mutex, held while a batch is written to disk but  *)
(* not while a request to the node is under way.  A panic while it is held *)
(* poisons it, and every later lock().unwrap() panics too.                 *)
(*                                                                         *)
(* The node is the payments table that PaymentsManager models; here it is  *)
(* reduced to what the app sees of it.  The build is a release build: the  *)
(* debug_assert_invariants calls do nothing.                               *)
(***************************************************************************)
EXTENDS PaymentDbState

CONSTANTS
    Torn,           \* the contents of a file that was not written completely
    MaxIndex,       \* indexes of payments are 1..MaxIndex
    Shapes,         \* <<inboundInvoice, amount, description>> of new payments
    Notes,          \* notes that the user writes
    BatchSize,      \* DEFAULT_PAYMENTS_BATCH_SIZE
    Callers,        \* threads that may call sync_payments
    InOrder,        \* FALSE: the node may persist an older index after a newer
    RequestErrors,  \* TRUE: a request to the node may fail
    WriteErrors,    \* TRUE: writing a file may fail
    Crashes,        \* TRUE: the app may be killed
    MayDelete       \* TRUE: the user may delete the payment db

Indexes == 1..MaxIndex

ConstantsAssumption ==
    /\ MaxIndex \in Nat \ {0}
    /\ BatchSize \in Nat \ {0}
    /\ Shapes \subseteq BOOLEAN \X BOOLEAN \X BOOLEAN
    /\ None \notin Notes

BasicPayment == [index : Indexes, status : Statuses, note : Notes \cup {None},
                 inboundInvoice : BOOLEAN, amount : BOOLEAN, description : BOOLEAN]

VARIABLES
    node,       \* the node's payments by index; None if there is none
    app,        \* "up", "down", or "poisoned": a panic while holding the lock
    db,         \* PaymentDbState
    disk,       \* the files by index: a payment, Torn, or None
    sync,       \* each caller's sync: its step, ids to ask for, response
    noteReq     \* note updates that the node has accepted: <<index, note>>

vars == <<node, app, db, disk, sync, noteReq>>

Idle == [step |-> "idle", ids |-> << >>, latest |-> 0, resp |-> << >>]

Init ==
    /\ node = [i \in Indexes |-> None]
    /\ app = "up"
    /\ db = EmptyState
    /\ disk = [i \in Indexes |-> None]
    /\ sync = [c \in Callers |-> Idle]
    /\ noteReq = {}

-----------------------------------------------------------------------------
(* The node. *)

(* A new payment is persisted.  PaymentsManager::new_payment persists in   *)
(* the order of its lock, while the index was fixed when the payment was   *)
(* constructed: onchain receives found together are constructed within one *)
(* millisecond, ordered by txid, and persisted one after the other.        *)
NodeNew(i) ==
    /\ node[i] = None
    /\ InOrder => \A j \in Indexes : j > i => node[j] = None
    /\ \E sh \in Shapes :
         node' = [node EXCEPT ![i] =
                    [index |-> i, status |-> "Pending", note |-> None,
                     inboundInvoice |-> sh[1], amount |-> sh[2], description |-> sh[3]]]
    /\ UNCHANGED <<app, db, disk, sync, noteReq>>

(* An inbound invoice is being claimed: the amount received is known while *)
(* the payment is still pending.                                           *)
NodeClaiming(i) ==
    /\ node[i] # None
    /\ node[i].inboundInvoice /\ is_pending(node[i])
    /\ node' = [node EXCEPT ![i].amount = TRUE]
    /\ UNCHANGED <<app, db, disk, sync, noteReq>>

NodeFinalize(i) ==
    /\ node[i] # None
    /\ is_pending(node[i])
    /\ \/ node' = [node EXCEPT ![i].status = "Completed", ![i].amount = TRUE]
       \/ node' = [node EXCEPT ![i].status = "Failed"]
    /\ UNCHANGED <<app, db, disk, sync, noteReq>>

(* GET /app/payments/new: oldest first, start_index is exclusive. *)
get_new_payments(start_index, limit) ==
    LET newer == {node[i] : i \in {j \in Indexes : j > start_index /\ node[j] # None}}
        all   == SetToSortSeq(newer, LAMBDA x, y : x.index < y.index)
    IN  SubSeq(all, 1, IF Len(all) < limit THEN Len(all) ELSE limit)

(* POST /app/payments/ids. *)
get_payments_by_ids(ids) ==
    LET known == SelectSeq(ids, LAMBDA i : node[i] # None)
    IN  [k \in DOMAIN known |-> node[known[k]]]

-----------------------------------------------------------------------------
(* Files. *)

(* MUTANT of WriteFirst: a batch is written from its end. *)
MutWriteLast(ps, n) ==
    [i \in Indexes |->
        IF \E k \in Len(ps)-n+1..Len(ps) : ps[k].index = i
        THEN (CHOOSE p \in {ps[k] : k \in 1..Len(ps)} : p.index = i)
        ELSE disk[i]]

(* FlatFileFs::write, for the first n of a batch.  It truncates the file   *)
(* and writes it, so that a failure or a crash in between leaves it torn.  *)
WriteFirst(ps, n) ==
    [i \in Indexes |->
        IF \E k \in 1..n : ps[k].index = i
        THEN (CHOOSE p \in {ps[k] : k \in 1..n} : p.index = i)
        ELSE disk[i]]

(* What a failed write of the payment with index i may leave. *)
FailedWrite(d, i) == {d, [d EXCEPT ![i] = Torn]}

OnDisk == {i \in Indexes : disk[i] # None}

(* App::load: PaymentDb::read, which fails if a file cannot be parsed. *)
Load ==
    /\ app = "down"
    /\ \A i \in OnDisk : disk[i] # Torn
    /\ app' = "up"
    /\ db' = from_unsorted_vec({disk[i] : i \in OnDisk})
    /\ UNCHANGED <<node, disk, sync, noteReq>>

(* The user or the system stops the app between two writes. *)
Crash ==
    /\ app # "down"
    /\ Crashes \/ app = "poisoned"
    /\ app' = "down"
    /\ db' = EmptyState
    /\ sync' = [c \in Callers |-> Idle]
    /\ noteReq' = {}
    /\ UNCHANGED <<node, disk>>

(* The app stops while the first n payments of ps are on disk. *)
CrashWhileWriting(ps) ==
    /\ Crashes
    /\ \E n \in 0..Len(ps)-1 :
         disk' \in FailedWrite(WriteFirst(ps, n), ps[n+1].index)
    /\ app' = "down"
    /\ db' = EmptyState
    /\ sync' = [c \in Callers |-> Idle]
    /\ noteReq' = {}
    /\ UNCHANGED node

(* AppHandle::delete_payment_db: memory first, then the directory; a       *)
(* failed delete_all leaves any part of it.                                *)
delete_payment_db ==
    /\ MayDelete
    /\ app = "up"
    /\ db' = EmptyState
    /\ \E left \in (IF WriteErrors THEN SUBSET OnDisk ELSE {{}}) :
         disk' = [i \in Indexes |-> IF i \in left THEN disk[i] ELSE None]
    /\ UNCHANGED <<node, app, sync, noteReq>>

-----------------------------------------------------------------------------
(* AppHandle::update_payment_note: the node first, then the local db. *)

(* The request is answered, or its answer is lost. *)
NoteRemote(i, note) ==
    /\ app = "up"
    /\ get_vec_idx_by_payment_index(db, i) # None
    /\ node[i] # None
    /\ node' = [node EXCEPT ![i].note = note]
    /\ \/ noteReq' = noteReq \cup {<<i, note>>}
       \/ RequestErrors /\ UNCHANGED noteReq
    /\ UNCHANGED <<app, db, disk, sync>>

(* PaymentDb::update_payment_note: memory is changed before the write. *)
NoteLocal(req) ==
    /\ app = "up"
    /\ req \in noteReq
    /\ LET v == get_vec_idx_by_payment_index(db, req[1])
           p == [db.payments[v+1] EXCEPT !.note = req[2]]
       IN  \/ /\ v = None
              /\ noteReq' = noteReq \ {req}
              /\ UNCHANGED <<node, app, db, disk, sync>>
           \/ /\ v # None
              /\ noteReq' = noteReq \ {req}
              /\ db' = [db EXCEPT !.payments[v+1] = p]
              /\ \/ disk' = WriteFirst(<<p>>, 1)
                 \/ WriteErrors /\ disk' \in FailedWrite(disk, req[1])
              /\ UNCHANGED <<node, app, sync>>
           \/ v # None /\ CrashWhileWriting(<<p>>)

-----------------------------------------------------------------------------
(* sync_payments, by caller c.  Each request may fail: SyncFails. *)

Poison(c) ==
    /\ app' = "poisoned"
    /\ sync' = [sync EXCEPT ![c] = Idle]
    /\ UNCHANGED <<node, db, noteReq>>

(* App::sync_payments: payment_sync_lock.try_lock(). *)
TryLock(c) == \A o \in Callers \ {c} : sync[o].step = "idle"

(* sync_pending_payments reads the ids of what it believes is pending. *)
SyncStart(c) ==
    /\ app = "up"
    /\ sync[c].step = "idle"
    /\ TryLock(c)
    /\ \/ /\ PendingIdsPanic(db)
          /\ Poison(c)
          /\ UNCHANGED disk
       \/ /\ ~PendingIdsPanic(db)
          /\ sync' = [sync EXCEPT ![c] =
                        [Idle EXCEPT !.step = IF db.pending = {} THEN "new" ELSE "pending",
                                     !.ids  = pending_ids(db)]]
          /\ UNCHANGED <<node, app, db, disk, noteReq>>

NextBatch(ids) == SubSeq(ids, 1, IF Len(ids) < BatchSize THEN Len(ids) ELSE BatchSize)

SyncPendingRequest(c) ==
    /\ app = "up"
    /\ sync[c].step = "pending"
    /\ LET batch == NextBatch(sync[c].ids)
       IN  sync' = [sync EXCEPT ![c].step = "pending_resp",
                                ![c].ids  = SubSeq(@, Len(batch) + 1, Len(@)),
                                ![c].resp = get_payments_by_ids(batch)]
    /\ UNCHANGED <<node, app, db, disk, noteReq>>

(* The updates that change something. *)
Changed(s, us) ==
    SelectSeq(us, LAMBDA u : s.payments[get_vec_idx_by_payment_index(s, u.index) + 1] # u)

ApplyUpdates(s, us) ==
    FoldLeft(LAMBDA st, u : Updated(st, get_vec_idx_by_payment_index(st, u.index), u), s, us)

(* The first update at which update_pending_payments panics, for its       *)
(* expect on the lookup or its assertions on the indexes.                  *)
PanicsAt(s, us, k) ==
    LET panics(j) == LET v == get_vec_idx_by_payment_index(s, us[j].index)
                     IN  IF v = None THEN TRUE ELSE UpdatePanics(s, v, us[j])
    IN  panics(k) /\ \A j \in 1..k-1 : ~panics(j)

(* The lookup comes before the write of the update, the assertions after.  *)
WrittenAtPanic(s, us, k) ==
    IF get_vec_idx_by_payment_index(s, us[k].index) = None THEN k - 1 ELSE k

AfterPending(c) ==
    [sync[c] EXCEPT !.step = IF sync[c].ids = << >> THEN "new" ELSE "pending",
                    !.resp = << >>]

(* update_pending_payments under the lock: all updates are applied, or one *)
(* panics, or a write fails or is interrupted.                             *)
SyncPendingApply(c) ==
    LET resp     == sync[c].resp
        panicsAt == {k \in DOMAIN resp : PanicsAt(db, resp, k)}
    IN  /\ app = "up"
        /\ sync[c].step = "pending_resp"
        /\ \/ \E k \in panicsAt :
                /\ Poison(c)
                /\ LET us == Changed(db, SubSeq(resp, 1, WrittenAtPanic(db, resp, k)))
                   IN  disk' = WriteFirst(us, Len(us))
           \/ /\ panicsAt = {}
              /\ LET us == Changed(db, resp)
                 IN  \/ /\ db' = ApplyUpdates(db, us)
                        /\ disk' = WriteFirst(us, Len(us))
                        /\ sync' = [sync EXCEPT ![c] = AfterPending(c)]
                        /\ UNCHANGED <<node, app, noteReq>>
                     \/ /\ WriteErrors
                        /\ \E n \in 0..Len(us)-1 :
                             /\ db' = ApplyUpdates(db, SubSeq(us, 1, n))
                             /\ disk' \in FailedWrite(WriteFirst(us, n), us[n+1].index)
                        /\ sync' = [sync EXCEPT ![c] = Idle]
                        /\ UNCHANGED <<node, app, noteReq>>
                     \/ CrashWhileWriting(us)

(* sync_new_payments reads the latest index under the lock. *)
SyncNewStart(c) ==
    /\ app = "up"
    /\ sync[c].step = "new"
    /\ sync' = [sync EXCEPT ![c] = [Idle EXCEPT !.step = "request",
                                                !.latest = latest_payment_index(db)]]
    /\ UNCHANGED <<node, app, db, disk, noteReq>>

SyncNewRequest(c) ==
    /\ app = "up"
    /\ sync[c].step = "request"
    /\ sync' = [sync EXCEPT ![c].step = "new_resp",
                            ![c].resp = get_new_payments(sync[c].latest, BatchSize)]
    /\ UNCHANGED <<node, app, db, disk, noteReq>>

(* A full batch is followed by another request. *)
AfterNew(c, s) ==
    IF Len(sync[c].resp) < BatchSize THEN Idle
    ELSE [Idle EXCEPT !.step = "request", !.latest = latest_payment_index(s)]

(* insert_new_payments under the lock: an empty batch or one that is       *)
(* refused, an index that refuses a position, the whole batch, or a write  *)
(* that fails or is interrupted.                                           *)
SyncNewApply(c) ==
    LET new      == sync[c].resp
        accepted == new # << >> /\ BatchAccepted(db, new)
        stop     == StopAt(db, new)
    IN  /\ app = "up"
        /\ sync[c].step = "new_resp"
        /\ \/ /\ ~accepted
              /\ sync' = [sync EXCEPT ![c] = Idle]
              /\ UNCHANGED <<node, app, db, disk, noteReq>>
           \/ /\ accepted /\ stop <= Len(new)
              /\ db' = InsertIndexes(db, new, stop - 1)
              /\ disk' = WriteFirst(new, stop - 1)
              /\ sync' = [sync EXCEPT ![c] = Idle]
              /\ UNCHANGED <<node, app, noteReq>>
           \/ /\ accepted /\ stop > Len(new)
              /\ db' = Inserted(db, new)
              /\ disk' = WriteFirst(new, Len(new))
              /\ sync' = [sync EXCEPT ![c] = AfterNew(c, db')]
              /\ UNCHANGED <<node, app, noteReq>>
           \/ /\ WriteErrors /\ accepted
              /\ \E n \in 1..Len(new) :
                   /\ n < stop
                   /\ db' = InsertIndexes(db, new, n)
                   /\ disk' \in FailedWrite(WriteFirst(new, n - 1), new[n].index)
              /\ sync' = [sync EXCEPT ![c] = Idle]
              /\ UNCHANGED <<node, app, noteReq>>
           \/ accepted /\ CrashWhileWriting(new)

SyncFails(c) ==
    /\ RequestErrors
    /\ app = "up"
    /\ sync[c].step \in {"pending", "request"}
    /\ sync' = [sync EXCEPT ![c] = Idle]
    /\ UNCHANGED <<node, app, db, disk, noteReq>>

-----------------------------------------------------------------------------
Next ==
    \/ \E i \in Indexes :
         \/ NodeNew(i) \/ NodeClaiming(i) \/ NodeFinalize(i)
         \/ \E note \in Notes : NoteRemote(i, note)
    \/ \E req \in noteReq : NoteLocal(req)
    \/ \E c \in Callers :
         \/ SyncStart(c) \/ SyncPendingRequest(c) \/ SyncPendingApply(c)
         \/ SyncNewStart(c) \/ SyncNewRequest(c) \/ SyncNewApply(c) \/ SyncFails(c)
    \/ Load \/ Crash \/ delete_payment_db

Spec == Init /\ [][Next]_vars

-----------------------------------------------------------------------------
TypeOK ==
    /\ node \in [Indexes -> BasicPayment \cup {None}]
    /\ app \in {"up", "down", "poisoned"}
    /\ db.payments \in Seq(BasicPayment) /\ is_strict_total_order(db.payments)
    /\ db.pending \cup db.pending_not_junk \cup db.finalized_not_junk \subseteq 0..MaxIndex-1
    /\ disk \in [Indexes -> BasicPayment \cup {None, Torn}]
    /\ \A c \in Callers :
         sync[c].step \in {"idle", "pending", "pending_resp", "new", "request", "new_resp"}
    /\ noteReq \subseteq Indexes \X Notes

(* The invariants that the comments at payments.rs:77-104 state: each      *)
(* bitmap holds exactly the positions of the payments it is about.         *)
IndexInvariants ==
    app = "up" =>
        /\ db.pending = build_pending_index(db.payments)
        /\ db.pending_not_junk = build_pending_not_junk_index(db.payments)
        /\ db.finalized_not_junk = build_finalized_not_junk_index(db.payments)

(* What a restart would load is what is in memory, unless a write failed:  *)
(* the second part of debug_assert_invariants (payments.rs:153).           *)
DiskMatchesMemory ==
    app = "up" => db.payments = from_unsorted_vec({disk[i] : i \in OnDisk}).payments

(* The local copy has no gap: a payment that is older than the latest one  *)
(* in the db is in the db, or a later sync, which asks for newer ones      *)
(* only, would never fetch it.  This depends on the order of the writes of *)
(* a batch that a crash interrupts.                                        *)
NoGaps ==
    app = "up" =>
        \A i \in Indexes : (node[i] # None /\ i < latest_payment_index(db)) =>
            get_vec_idx_by_payment_index(db, i) # None

(* A payment that the app has seen finalized stays so: no late response of *)
(* an overlapping sync brings back an older state.  This is what           *)
(* payment_sync_lock is for (app.rs:42).                                   *)
KeepsOutcomes ==
    (app = "up" /\ app' = "up") =>
          \A k \in DOMAIN db.payments : is_finalized(db.payments[k]) =>
            /\ k \in DOMAIN db'.payments
            /\ db'.payments[k].status = db.payments[k].status

(* The payment at scroll position n among those that the filter keeps,     *)
(* newest first: the reference of the test at payments.rs:1283.            *)
naive(Filter(_), n) ==
    LET vs == {v \in 0..Len(db.payments)-1 : Filter(db.payments[v+1])}
    IN  IF n >= Cardinality(vs) THEN None ELSE select(vs, Cardinality(vs) - n - 1)

(* What the full list, the pending and the finalized payments show at each *)
(* scroll position is what filtering all payments gives.                   *)
ScrollLookup ==
    app = "up" =>
        \A n \in 0..MaxIndex :
          /\ get_payment_by_scroll_idx(db, n) = naive(LAMBDA p : TRUE, n)
          /\ get_pending_payment_by_scroll_idx(db, n) = naive(is_pending, n)
          /\ get_finalized_payment_by_scroll_idx(db, n) = naive(is_finalized, n)

(* The same of the two lists without junk. *)
ScrollNotJunk ==
    app = "up" =>
        \A n \in 0..MaxIndex :
          /\ get_pending_not_junk_payment_by_scroll_idx(db, n) = naive(is_pending_not_junk, n)
          /\ get_finalized_not_junk_payment_by_scroll_idx(db, n) = naive(is_finalized_not_junk, n)

(* The expect at payments.rs:300 and the assertions on the indexes hold:   *)
(* no update of a pending payment panics with the lock held.               *)
NeverPoisoned == app # "poisoned"

-----------------------------------------------------------------------------
(* Whether an inbound invoice is junk changes with its note, and with its  *)
(* amount once it is being claimed.  Neither update_payment_note nor       *)
(* update_pending_payment puts a payment that ceases to be junk into the   *)
(* index, so that less can be said of inbound invoices.                    *)

(* Pending payments are indexed exactly, and the two indexes of what is    *)
(* not junk are exact but for inbound invoices that never completed and,   *)
(* among the pending ones, for any inbound invoice.                        *)
IndexedButForInvoices ==
    app = "up" =>
        /\ db.pending = build_pending_index(db.payments)
        /\ db.pending_not_junk \cup db.finalized_not_junk \subseteq 0..Len(db.payments)-1
        /\ \A v \in 0..Len(db.payments)-1 :
             LET p == db.payments[v+1]
             IN  /\ ~p.inboundInvoice =>
                       (v \in db.pending_not_junk <=> is_pending_not_junk(p))
                 /\ (~p.inboundInvoice \/ p.status # "Failed") =>
                       (v \in db.finalized_not_junk <=> is_finalized_not_junk(p))

(* Only an inbound invoice that ceased to be junk while pending, and that  *)
(* the index misses, lets the assertion at payments.rs:334 fail.           *)
PoisonedByInvoice ==
    app = "poisoned" =>
        \E v \in 0..Len(db.payments)-1 :
            /\ db.payments[v+1].inboundInvoice
            /\ is_pending_not_junk(db.payments[v+1])
            /\ v \notin db.pending_not_junk

(* The outcome of a finalized payment, which no later sync fetches again,  *)
(* is the node's, whatever became of its note.                             *)
OutcomesMatchNode ==
    app = "up" =>
        \A k \in DOMAIN db.payments : LET p == db.payments[k] IN
            is_finalized(p) => [p EXCEPT !.note = None] = [node[p.index] EXCEPT !.note = None]

(* All that holds of the app's copy whichever notes and invoices there are.*)
ConsistentButForInvoices ==
    /\ IndexedButForInvoices
    /\ DiskMatchesMemory
    /\ ScrollLookup
    /\ PoisonedByInvoice
    /\ OutcomesMatchNode

(* The payment db is effectively a projection of the user node's payments  *)
(* (payments.rs:7-8): with no request under way, a finalized payment,      *)
(* which no later sync fetches again, is what the node has.                *)
FinalizedMatchesNode ==
    (app = "up" /\ noteReq = {} /\ \A c \in Callers : sync[c] = Idle) =>
        \A k \in DOMAIN db.payments :
            is_finalized(db.payments[k]) => db.payments[k] = node[db.payments[k].index]

=============================================================================
