------------------------------ MODULE WalletDb ------------------------------
(***************************************************************************)
(* The database of the onchain wallet (lexe-ln/src/wallet): DbData, its    *)
(* operations, the batches that BDK commits, the notification of the       *)
(* persister task and the file in the backend.                             *)
(*                                                                         *)
(* A Path is a record [keychain, child].  A transaction is its txid, its   *)
(* details are [txid, conf, raw] where raw says whether the raw            *)
(* transaction comes along.  A utxo is its outpoint.                       *)
(***************************************************************************)
EXTENDS Naturals, Sequences, FiniteSets, SequencesExt

CONSTANTS
    None,          \* Option::None
    Paths,         \* [keychain : {"External", "Internal"}, child : Nat]
    Scripts,
    Outpoints,
    Txids,
    Times,         \* confirmation times and sync times
    Batches,       \* the batches that BDK commits, sequences of operations
    DirectOps,     \* the operations that BDK performs outside of a batch
    MaxIndex,      \* bound on last_index
    ChannelSize,   \* SMALLER_CHANNEL_SIZE
    PersistErrors, \* whether a persist may fail
    Crashes        \* whether the node may crash

Keychains == {"External", "Internal"}

----------------------------------------------------------------------------
(* DbData and its writes.                                                  *)

NewDbData ==
    [path_to_script |-> [p \in Paths |-> None],
     script_to_path |-> [s \in Scripts |-> None],
     utxos          |-> {},
     raw_txs        |-> {},
     tx_metas       |-> [t \in Txids |-> None],
     last_index     |-> [k \in Keychains |-> None],
     sync_time      |-> None,
     checksum       |-> [k \in Keychains |-> None]]

(* The first checksum that is given is kept, later ones must be equal. *)
check_descriptor_checksum(d, k, given) ==
    IF d.checksum[k] = None THEN [d EXCEPT !.checksum[k] = given] ELSE d
ChecksumMismatch(d, k, given) == d.checksum[k] \notin {None, given}

increment_last_index(d, k) ==
    [d EXCEPT !.last_index[k] = IF @ = None THEN 0 ELSE @ + 1]

(* A second path may take over a script, and the maps then disagree. *)
set_script_pubkey(d, s, p) ==
    [d EXCEPT !.path_to_script[p] = s, !.script_to_path[s] = p]
set_utxo(d, o)   == [d EXCEPT !.utxos = @ \cup {o}]
set_raw_tx(d, t) == [d EXCEPT !.raw_txs = @ \cup {t}]

set_tx(d, tx) ==
    [d EXCEPT !.raw_txs = IF tx.raw THEN @ \cup {tx.txid} ELSE @,
              !.tx_metas[tx.txid] = tx.conf]
set_last_index(d, p) == [d EXCEPT !.last_index[p.keychain] = p.child]
set_sync_time(d, t)  == [d EXCEPT !.sync_time = t]

(* Only one of the two maps is changed, as in BDK's own databases. *)
del_script_pubkey_from_path(d, p) == [d EXCEPT !.path_to_script[p] = None]
del_path_from_script_pubkey(d, s) == [d EXCEPT !.script_to_path[s] = None]
del_utxo(d, o)   == [d EXCEPT !.utxos = @ \ {o}]
del_raw_tx(d, t) == [d EXCEPT !.raw_txs = @ \ {t}]
del_tx(d, t, include_raw) ==
    [d EXCEPT !.raw_txs = IF include_raw THEN @ \ {t} ELSE @, !.tx_metas[t] = None]
del_last_index(d, k) == [d EXCEPT !.last_index[k] = None]
del_sync_time(d)     == [d EXCEPT !.sync_time = None]

(* The operations as data, as a batch queues them. *)
DbOp ==
    [op : {"SetPathScript"}, path : Paths, script : Scripts]
        \cup [op : {"DelByPath", "SetLastIndex"}, path : Paths]
        \cup [op : {"DelByScript"}, script : Scripts]
        \cup [op : {"SetUtxo", "DelUtxo"}, outpoint : Outpoints]
        \cup [op : {"SetRawTx", "DelRawTx"}, txid : Txids]
        \cup [op : {"SetTx"}, tx : [txid : Txids, conf : Times, raw : BOOLEAN]]
        \cup [op : {"DelTx"}, txid : Txids, include_raw : BOOLEAN]
        \cup [op : {"DelLastIndex"}, keychain : Keychains]
        \cup [op : {"SetSyncTime"}, time : Times]
        \cup [op : {"DelSyncTime"}]

(* A batch only queues: the database is untouched until commit_batch. *)
begin_batch == << >>
queue(b, o) == Append(b, o)

do_op(d, o) ==
    CASE o.op = "SetPathScript" -> set_script_pubkey(d, o.script, o.path)
      [] o.op = "DelByPath"     -> del_script_pubkey_from_path(d, o.path)
      [] o.op = "DelByScript"   -> del_path_from_script_pubkey(d, o.script)
      [] o.op = "SetUtxo"       -> set_utxo(d, o.outpoint)
      [] o.op = "DelUtxo"       -> del_utxo(d, o.outpoint)
      [] o.op = "SetRawTx"      -> set_raw_tx(d, o.txid)
      [] o.op = "DelRawTx"      -> del_raw_tx(d, o.txid)
      [] o.op = "SetTx"         -> set_tx(d, o.tx)
      [] o.op = "DelTx"         -> del_tx(d, o.txid, o.include_raw)
      [] o.op = "SetLastIndex"  -> set_last_index(d, o.path)
      [] o.op = "DelLastIndex"  -> del_last_index(d, o.keychain)
      [] o.op = "SetSyncTime"   -> set_sync_time(d, o.time)
      [] o.op = "DelSyncTime"   -> del_sync_time(d)

----------------------------------------------------------------------------
VARIABLES
    d,          \* DbData in memory
    notifs,     \* notifications in the channel to the persister task
    task,       \* the persister task: "idle", "persisting" or "ended"
    snapshot,   \* what the persist under way is writing
    file,       \* the file in the backend, None before the first persist
    node,       \* "up", "shutdown" (sent, tasks are ending) or "down"
    wallet,     \* the Tokio mutex around bdk::Wallet: "free" or "syncing"
    unsaved     \* ghost: changed outside of a batch, or a failed persist,
                \* since the last snapshot

vars == <<d, notifs, task, snapshot, file, node, wallet, unsaved>>

Init ==
    /\ d = NewDbData
    /\ notifs = 0
    /\ task = "idle"
    /\ snapshot = None
    /\ file = None
    /\ node = "down"
    /\ wallet = "free"
    /\ unsaved = FALSE

(* read_wallet_db, then Wallet::new, which checks both descriptors. *)
Boot ==
    LET read == IF file = None THEN NewDbData ELSE file
        seen == check_descriptor_checksum(
                    check_descriptor_checksum(read, "External", "ext"), "Internal", "int")
    IN  /\ node = "down"
        /\ \A k \in Keychains :
              ~ChecksumMismatch(read, k, IF k = "External" THEN "ext" ELSE "int")
        /\ d' = seen
        /\ node' = "up"
        /\ task' = "idle" /\ notifs' = 0 /\ wallet' = "free"
        /\ unsaved' = (seen # read \/ file = None)
        /\ UNCHANGED <<snapshot, file>>

(* try_send: a notification is lost only where one is waiting already, or  *)
(* the task has ended and dropped its receiver.                            *)
Notify ==
    notifs' = IF task = "ended" \/ notifs = ChannelSize THEN notifs ELSE notifs + 1

commit_batch(b) ==
    /\ d' = FoldLeft(do_op, d, b)
    /\ Notify

(* LexeWallet::sync holds the mutex from its first request to the commit. *)
SyncStart ==
    /\ node # "down" /\ wallet = "free"
    /\ wallet' = "syncing"
    /\ UNCHANGED <<d, notifs, task, snapshot, file, node, unsaved>>

SyncCommit(b) ==
    /\ wallet = "syncing"
    /\ commit_batch(b)
    /\ wallet' = "free"
    /\ UNCHANGED <<task, snapshot, file, node, unsaved>>

SyncFails ==
    /\ wallet = "syncing"
    /\ wallet' = "free"
    /\ UNCHANGED <<d, notifs, task, snapshot, file, node, unsaved>>

(* What BDK writes without a batch: nobody is notified. *)
DirectOp(o) ==
    /\ node # "down" /\ wallet = "free"
    /\ d' = do_op(d, o)
    /\ unsaved' = TRUE
    /\ UNCHANGED <<notifs, task, snapshot, file, node, wallet>>

(* get_address takes a new index if the last address is used; a new        *)
(* transaction (create_onchain_send, create_and_sign_funding_tx) takes a   *)
(* change address.                                                         *)
NewAddress(k) ==
    /\ node # "down" /\ wallet = "free"
    /\ d.last_index[k] # MaxIndex
    /\ d' = increment_last_index(d, k)
    /\ unsaved' = TRUE
    /\ UNCHANGED <<notifs, task, snapshot, file, node, wallet>>

get_address         == NewAddress("External")
create_onchain_send == NewAddress("Internal")
create_and_sign_funding_tx == NewAddress("Internal")

(* The task takes one notification and all others, and serializes. *)
TaskRecv ==
    /\ node # "down" /\ task = "idle" /\ notifs > 0
    /\ task' = "persisting" /\ snapshot' = d
    /\ notifs' = 0 /\ unsaved' = FALSE
    /\ UNCHANGED <<d, file, node, wallet>>

(* MUTANT of PersistOk: the notifications are drained after the persist. *)
MutDrainAfterPersist ==
    /\ task = "persisting"
    /\ file' = snapshot /\ snapshot' = None /\ task' = "idle"
    /\ notifs' = 0
    /\ UNCHANGED <<d, node, wallet, unsaved>>

PersistOk ==
    /\ task = "persisting"
    /\ file' = snapshot /\ snapshot' = None /\ task' = "idle"
    /\ UNCHANGED <<d, notifs, node, wallet, unsaved>>

(* The request may have been applied all the same. *)
PersistFails ==
    /\ PersistErrors
    /\ task = "persisting"
    /\ file' \in {file, snapshot} /\ snapshot' = None /\ task' = "idle"
    /\ unsaved' = TRUE
    /\ UNCHANGED <<d, notifs, node, wallet>>

SendShutdown ==
    /\ node = "up"
    /\ node' = "shutdown"
    /\ UNCHANGED <<d, notifs, task, snapshot, file, wallet, unsaved>>

(* select! may take the shutdown although there are notifications, and     *)
(* gives up on a persist under way.                                        *)
TaskShutdown ==
    /\ node = "shutdown" /\ task # "ended"
    /\ file' \in IF task = "persisting" THEN {file, snapshot} ELSE {file}
    /\ snapshot' = None /\ task' = "ended"
    /\ UNCHANGED <<d, notifs, node, wallet, unsaved>>

Exit ==
    /\ node = "shutdown" /\ task = "ended"
    /\ node' = "down" /\ wallet' = "free"
    /\ UNCHANGED <<d, notifs, task, snapshot, file, unsaved>>

Crash ==
    /\ Crashes /\ node # "down"
    /\ file' \in IF task = "persisting" THEN {file, snapshot} ELSE {file}
    /\ node' = "down" /\ task' = "ended" /\ snapshot' = None /\ wallet' = "free"
    /\ UNCHANGED <<d, notifs, unsaved>>

Next ==
    \/ Boot \/ SyncStart \/ SyncFails \/ get_address \/ create_onchain_send
    \/ create_and_sign_funding_tx
    \/ \E b \in Batches : SyncCommit(b)
    \/ \E o \in DirectOps : DirectOp(o)
    \/ TaskRecv \/ PersistOk \/ PersistFails
    \/ SendShutdown \/ TaskShutdown \/ Exit \/ Crash

Spec == Init /\ [][Next]_vars

(* The runtime polls the task, and a persist ends because its retries are  *)
(* bounded.                                                                *)
Fairness == WF_vars(TaskRecv) /\ WF_vars(PersistOk) /\ WF_vars(TaskShutdown)
FairSpec == Spec /\ Fairness

----------------------------------------------------------------------------
DbData ==
    [path_to_script : [Paths -> Scripts \cup {None}],
     script_to_path : [Scripts -> Paths \cup {None}],
     utxos          : SUBSET Outpoints,
     raw_txs        : SUBSET Txids,
     tx_metas       : [Txids -> Times \cup {None}],
     last_index     : [Keychains -> 0..MaxIndex \cup {None}],
     sync_time      : Times \cup {None},
     checksum       : [Keychains -> {None, "ext", "int"}]]

(* Type correctness; the channel never holds more than its capacity. *)
TypeOK ==
    /\ d \in DbData
    /\ file \in DbData \cup {None} /\ snapshot \in DbData \cup {None}
    /\ notifs \in 0..ChannelSize
    /\ task \in {"idle", "persisting", "ended"}
    /\ node \in {"up", "shutdown", "down"}
    /\ wallet \in {"free", "syncing"}
    /\ unsaved \in BOOLEAN

(* The assertion at wallet/db/mod.rs:410: once a script is deleted by its  *)
(* path, the script leads to no path.                                      *)
DeletedByPath ==
    \A p \in Paths : d.path_to_script[p] # None =>
        del_script_pubkey_from_path(d, p).script_to_path[d.path_to_script[p]] = None

(* Every committed batch is in the file, or a notification is waiting, or  *)
(* a persist of it is under way: a batch that is committed while the task  *)
(* persists, or while the channel is full, is not forgotten.               *)
CommitsAreNoticed ==
    (node = "up" /\ task = "idle" /\ notifs = 0 /\ ~unsaved) => d = file

(* As the comment on commit_batch has it, data is lost only if the node    *)
(* stops within the time that a persist takes.                             *)
LostOnlyWhilePersisting ==
    (node = "up" /\ task = "idle" /\ notifs = 0) =>
        d.last_index = IF file = None THEN NewDbData.last_index ELSE file.last_index

(* A transaction that a sync has committed is in the file in the end, if   *)
(* it is not deleted and the node is not shut down.                        *)
EventuallyPersisted ==
    \A t \in Txids :
        (node = "up" /\ d.tx_metas[t] # None) ~>
            \/ file # None /\ file.tx_metas[t] # None
            \/ d.tx_metas[t] = None
            \/ node # "up"
=============================================================================
