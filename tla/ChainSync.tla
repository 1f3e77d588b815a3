------------------------------ MODULE ChainSync ------------------------------
(***************************************************************************)
(* The BDK and LDK sync tasks of lexe-ln/src/sync.rs, the resync command   *)
(* that triggers them, and the checker of onchain receives that a BDK sync *)
(* notifies. The two tasks have the same control flow.                     *)
(***************************************************************************)
EXTENDS Naturals, Sequences, Functions, FiniteSets

CONSTANTS
    Clients,      \* calls of /lexe/resync, each made once
    ChannelSize,  \* capacity of a resync channel, SMALLER_CHANNEL_SIZE
    MaxTip,       \* bound on the blocks that arrive
    MaxErrors,    \* bound on failed or timed-out syncs and checks
    CanTimeOut,   \* whether a resync call may give up after its 12 seconds
    CanShutDown   \* whether a shutdown may be sent

ASSUME SyncAssumption == ChannelSize \in Nat /\ MaxTip \in Nat /\ MaxErrors \in Nat

VARIABLES
    tip,       \* the chain's tip
    synced,    \* the tip that each task's last successful sync has seen
    task,      \* "select", "syncing" or "done"
    seen,      \* the tip when the running sync started
    due,       \* whether the interval timer has ticked
    resync,    \* the resync channels
    synced_txs,\* senders taken from the channel and not answered yet
    first,     \* the oneshots of the first sync
    client,    \* what each resync call waits for
    asked,     \* the tip when the call was made
    errors,    \* failures so far
    notified,  \* the notify channel of the onchain receive checker, 0 or 1
    checker,   \* "wait", "checking" or "done"
    checkFrom, \* the wallet's state that the running check reads
    checked,   \* the wallet's state that the last successful check has read
    closed     \* a shutdown was sent

vars == <<tip, synced, task, seen, due, resync, synced_txs, first, client,
          asked, errors, notified, checker, checkFrom, checked, closed>>

Kinds == {"bdk", "ldk"}

TypeOK ==
    /\ tip \in 0..MaxTip
    /\ synced \in [Kinds -> 0..MaxTip]
    /\ task \in [Kinds -> {"select", "syncing", "done"}]
    /\ seen \in [Kinds -> 0..MaxTip]
    /\ due \in [Kinds -> BOOLEAN]
    /\ \A k \in Kinds : /\ resync[k] \in Seq(Clients)
                        /\ Len(resync[k]) <= ChannelSize
    /\ synced_txs \in [Kinds -> SUBSET Clients]
    /\ first \in [Kinds -> {"wait", "ok", "err", "dropped"}]
    /\ client \in [Clients -> [Kinds -> {"none", "wait", "ok", "dropped",
                                         "timeout", "refused"}]]
    /\ asked \in [Clients -> 0..MaxTip]
    /\ errors \in 0..MaxErrors
    /\ notified \in 0..1
    /\ checker \in {"wait", "checking", "done"}
    /\ checkFrom \in 0..MaxTip
    /\ checked \in 0..MaxTip
    /\ closed \in BOOLEAN

-----------------------------------------------------------------------------
(* command::resync: one sender to each task, then wait for both or time out *)

NotCalled(c) == client[c] = [k \in Kinds |-> "none"]

CanSend(k) == task[k] # "done" /\ Len(resync[k]) < ChannelSize

ResyncCall(c) ==
    /\ NotCalled(c)
    /\ asked' = [asked EXCEPT ![c] = tip]
    /\ LET bdk == CanSend("bdk")
           ldk == bdk /\ CanSend("ldk")
       IN  /\ resync' = [k \in Kinds |->
                            IF (k = "bdk" /\ bdk) \/ (k = "ldk" /\ ldk)
                            THEN Append(resync[k], c) ELSE resync[k]]
           /\ client' = [client EXCEPT ![c] = [k \in Kinds |->
                            IF bdk /\ ldk THEN "wait" ELSE "refused"]]
    /\ UNCHANGED <<tip, synced, task, seen, due, synced_txs, first, errors,
                   notified, checker, checkFrom, checked, closed>>

ResyncTimesOut(c, k) ==
    /\ CanTimeOut
    /\ client[c][k] = "wait"
    /\ client' = [client EXCEPT ![c][k] = "timeout"]
    /\ UNCHANGED <<tip, synced, task, seen, due, resync, synced_txs, first,
                   asked, errors, notified, checker, checkFrom, checked, closed>>

ReturnsOk(c) == \A k \in Kinds : client[c][k] = "ok"

-----------------------------------------------------------------------------
(* The sync tasks *)

TimerTicks(k) ==
    /\ task[k] # "done"
    /\ ~due[k]
    /\ due' = [due EXCEPT ![k] = TRUE]
    /\ UNCHANGED <<tip, synced, task, seen, resync, synced_txs, first, client,
                   asked, errors, notified, checker, checkFrom, checked, closed>>

(* sync_trigger_fut: the timer or a request; then drain the channel. *)
SyncStarts(k) ==
    /\ task[k] = "select"
    /\ \/ due[k] /\ due' = [due EXCEPT ![k] = FALSE]
       \/ resync[k] # <<>> /\ UNCHANGED due
    /\ synced_txs' = [synced_txs EXCEPT ![k] = @ \cup Range(resync[k])]
    /\ resync' = [resync EXCEPT ![k] = <<>>]
    /\ seen' = [seen EXCEPT ![k] = tip]
    /\ task' = [task EXCEPT ![k] = "syncing"]
    /\ UNCHANGED <<tip, synced, first, client, asked, errors, notified,
                   checker, checkFrom, checked, closed>>

FirstResult(k, result) ==
    first' = IF first[k] = "wait" THEN [first EXCEPT ![k] = result] ELSE first

Answer(S, k, result) ==
    client' = [c \in Clients |->
                  IF c \in S /\ client[c][k] = "wait"
                  THEN [client[c] EXCEPT ![k] = result] ELSE client[c]]

(* The notify channel holds one notification; a second one is dropped. *)
NotifyChecker(k) == notified' = IF k = "bdk" THEN 1 ELSE notified

EndSync(k) ==
    /\ task' = [task EXCEPT ![k] = "select"]
    /\ seen' = [seen EXCEPT ![k] = 0]

(* Mutant: requests that arrive during the sync are answered with it. *)
MutAnswersLateRequests(k) ==
    /\ task[k] = "syncing"
    /\ synced' = [synced EXCEPT ![k] = seen[k]]
    /\ FirstResult(k, "ok")
    /\ Answer(synced_txs[k] \cup Range(resync[k]), k, "ok")
    /\ synced_txs' = [synced_txs EXCEPT ![k] = {}]
    /\ resync' = [resync EXCEPT ![k] = <<>>]
    /\ NotifyChecker(k)
    /\ EndSync(k)
    /\ UNCHANGED <<tip, due, asked, errors, checker, checkFrom,
                   checked, closed>>

SyncOk(k) ==
    /\ task[k] = "syncing"
    /\ synced' = [synced EXCEPT ![k] = seen[k]]
    /\ FirstResult(k, "ok")
    /\ Answer(synced_txs[k], k, "ok")
    /\ synced_txs' = [synced_txs EXCEPT ![k] = {}]
    /\ NotifyChecker(k)
    /\ EndSync(k)
    /\ UNCHANGED <<tip, due, resync, asked, errors, checker, checkFrom,
                   checked, closed>>

(* The sync fails or takes longer than SYNC_TIMEOUT: waiting senders stay. *)
SyncErr(k) ==
    /\ task[k] = "syncing"
    /\ errors < MaxErrors
    /\ errors' = errors + 1
    /\ FirstResult(k, "err")
    /\ EndSync(k)
    /\ UNCHANGED <<tip, synced, due, resync, synced_txs, client, asked,
                   notified, checker, checkFrom, checked, closed>>

(* Both selects leave the loop on a shutdown; all senders are dropped. *)
SyncShutsDown(k) ==
    /\ closed
    /\ task[k] # "done"
    /\ task' = [task EXCEPT ![k] = "done"]
    /\ FirstResult(k, "dropped")
    /\ Answer(synced_txs[k] \cup Range(resync[k]), k, "dropped")
    /\ synced_txs' = [synced_txs EXCEPT ![k] = {}]
    /\ resync' = [resync EXCEPT ![k] = <<>>]
    /\ UNCHANGED <<tip, synced, seen, due, asked, errors, notified, checker,
                   checkFrom, checked, closed>>

-----------------------------------------------------------------------------
(* The onchain receive checker *)

CheckStarts ==
    /\ checker = "wait"
    /\ notified = 1
    /\ notified' = 0
    /\ checker' = "checking"
    /\ checkFrom' = synced["bdk"]
    /\ UNCHANGED <<tip, synced, task, seen, due, resync, synced_txs, first,
                   client, asked, errors, checked, closed>>

CheckOk ==
    /\ checker = "checking"
    /\ checker' = "wait"
    /\ checkFrom' = 0
    /\ checked' = checkFrom
    /\ UNCHANGED <<tip, synced, task, seen, due, resync, synced_txs, first,
                   client, asked, errors, notified, closed>>

CheckFails ==
    /\ checker = "checking"
    /\ errors < MaxErrors
    /\ errors' = errors + 1
    /\ checker' = "wait"
    /\ checkFrom' = 0
    /\ UNCHANGED <<tip, synced, task, seen, due, resync, synced_txs, first,
                   client, asked, notified, checked, closed>>

CheckerShutsDown ==
    /\ closed
    /\ checker = "wait"
    /\ checker' = "done"
    /\ UNCHANGED <<tip, synced, task, seen, due, resync, synced_txs, first,
                   client, asked, errors, notified, checkFrom, checked, closed>>

-----------------------------------------------------------------------------
BlockArrives ==
    /\ tip < MaxTip
    /\ tip' = tip + 1
    /\ UNCHANGED <<synced, task, seen, due, resync, synced_txs, first, client,
                   asked, errors, notified, checker, checkFrom, checked, closed>>

SendShutdown ==
    /\ CanShutDown
    /\ ~closed
    /\ closed' = TRUE
    /\ UNCHANGED <<tip, synced, task, seen, due, resync, synced_txs, first,
                   client, asked, errors, notified, checker, checkFrom, checked>>

Init ==
    /\ tip = 0
    /\ synced = [k \in Kinds |-> 0]
    /\ task = [k \in Kinds |-> "select"]
    /\ seen = [k \in Kinds |-> 0]
    /\ due = [k \in Kinds |-> TRUE]
    /\ resync = [k \in Kinds |-> <<>>]
    /\ synced_txs = [k \in Kinds |-> {}]
    /\ first = [k \in Kinds |-> "wait"]
    /\ client = [c \in Clients |-> [k \in Kinds |-> "none"]]
    /\ asked = [c \in Clients |-> 0]
    /\ errors = 0
    /\ notified = 0
    /\ checker = "wait"
    /\ checkFrom = 0
    /\ checked = 0
    /\ closed = FALSE

Done ==
    /\ \A k \in Kinds : task[k] = "done"
    /\ checker = "done"
    /\ UNCHANGED vars

SyncStep(k) ==
    SyncStarts(k) \/ SyncOk(k) \/ SyncErr(k) \/ SyncShutsDown(k)

Next ==
    \/ \E c \in Clients : ResyncCall(c) \/ \E k \in Kinds : ResyncTimesOut(c, k)
    \/ \E k \in Kinds : TimerTicks(k) \/ SyncStep(k)
    \/ CheckStarts \/ CheckOk \/ CheckFails \/ CheckerShutsDown
    \/ BlockArrives \/ SendShutdown \/ Done

Spec == Init /\ [][Next]_vars

(* Timers tick, and a sync or a check ends: SYNC_TIMEOUT bounds a sync and  *)
(* request timeouts a check. Failures are bounded, so some syncs succeed.   *)
Fairness ==
    /\ \A k \in Kinds : WF_vars(TimerTicks(k)) /\ WF_vars(SyncStep(k))
    /\ WF_vars(CheckStarts) /\ WF_vars(CheckOk \/ CheckFails)

FairSpec == Spec /\ Fairness

-----------------------------------------------------------------------------
(* Properties *)

(* A resync that returns Ok has seen every block that existed when it was  *)
(* called, in both wallets: it is never answered with a sync that had      *)
(* already started.                                                        *)
ResyncSeesTip ==
    \A c \in Clients : \A k \in Kinds :
        client[c][k] = "ok" => synced[k] >= asked[c]

(* A sender waits in the channel or in synced_txs until it is answered; a  *)
(* failed sync loses none, and only a shutdown closes them.                *)
NoSenderIsLost ==
    \A c \in Clients : \A k \in Kinds :
        /\ client[c][k] = "wait" => c \in synced_txs[k] \cup Range(resync[k])
        /\ client[c][k] = "dropped" => closed

(* Every state of the wallet that a BDK sync leaves behind is looked at by *)
(* the receive checker, or a notification for it is pending, or a check    *)
(* failed: a sync that ends during a check is not forgotten.               *)
ReceivesAreChecked ==
    \/ checked = synced["bdk"]
    \/ notified = 1
    \/ checker = "checking" /\ checkFrom = synced["bdk"]
    \/ errors > 0
    \/ checker = "done"

(* No sync is missed: a resync that returns Ok has seen every block that   *)
(* existed when it was called; no caller is forgotten by a sync that fails *)
(* or was under way; and every state of the wallet that a sync leaves      *)
(* behind is looked at by the receive checker (sync.rs, notify.rs).        *)
NoSyncIsMissed ==
    TypeOK /\ ResyncSeesTip /\ NoSenderIsLost /\ ReceivesAreChecked

(* If nobody gives up and nothing is shut down, a resync is answered in    *)
(* the end, also when the sync it started fails.                           *)
ResyncIsAnswered ==
    \A c \in Clients : client[c]["bdk"] = "wait" ~> ReturnsOk(c)

=============================================================================
