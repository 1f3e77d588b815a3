--------------------------- MODULE NodeSupervision ---------------------------
(***************************************************************************)
(* The life of a node process: UserNode::init, sync and run, the tasks     *)
(* they spawn, the shutdown channel and the inactivity timer.              *)
(***************************************************************************)
EXTENDS Naturals, FiniteSets

CONSTANTS
    Tasks,          \* the background tasks under consideration, a subset of AllTasks
    Interruptible,  \* tasks whose work is raced against the shutdown channel
    Fallible,       \* tasks that may end early, panic or ask for a shutdown
    Stuck,          \* tasks whose work may never end
    TimeLimit,      \* whether SHUTDOWN_TIME_LIMIT may elapse
    MaxHits,        \* bound on the requests to /app endpoints
    ChannelSize,    \* capacity of the activity channel, DEFAULT_CHANNEL_SIZE
    Configs         \* the arguments and stored data a node may start with

VARIABLES
    phase,      \* "init", "sync", "running", "joining" or "exited"
    stage,      \* how far init or sync has come
    exit,       \* how the process ended
    config,     \* the arguments and the stored data of this run
    task,       \* the state of every task
    closed,     \* the semaphore of the shutdown channel is closed
    recved,     \* handles of the channel with have_recved set
    activity,   \* events in the activity channel
    hits,       \* requests to /app endpoints so far
    firstSync,  \* the oneshot of each sync task
    told,       \* whether the LSP is connected and the reconnector knows it
    ready       \* whether the runner was told that the node is ready

vars == <<phase, stage, exit, config, task, closed, recved, activity, hits,
          firstSync, told, ready>>

SyncTasks == {"bdk sync", "ldk sync"}

AllTasks == {"refresh fees", "credentials", "wallet db", "reconnector",
             "payments", "monitors", "app server", "lexe server", "bgp",
             "timer"} \cup SyncTasks

Config ==
    [seed : {"ok", "missing", "wrong"}, prod : BOOLEAN, argsMatch : BOOLEAN,
     approved : {"none", "other version", "other measurement", "ok"},
     lspUrl : BOOLEAN, allow_mock : BOOLEAN, shutdown_after_sync : BOOLEAN]

TypeOK ==
    /\ phase \in {"init", "sync", "running", "joining", "exited"}
    /\ stage \in {"secrets", "vfs", "reads", "wallet", "peers", "payments",
                  "servers", "bgp", "spawn", "first", "lsp", "ready", "done"}
    /\ exit \in {"none", "ok", "error", "panic", "timeout"}
    /\ config \in Configs
    /\ task \in [Tasks -> {"none", "idle", "busy", "stopping", "done",
                           "panicked", "joined"}]
    /\ closed \in BOOLEAN
    /\ recved \in SUBSET (Tasks \cup {"main"})
    /\ activity \in 0..ChannelSize
    /\ hits \in 0..MaxHits
    /\ firstSync \in [SyncTasks -> {"none", "wait", "ok", "err", "dropped"}]
    /\ told \in BOOLEAN
    /\ ready \in BOOLEAN

-----------------------------------------------------------------------------
(* The shutdown channel: send closes the semaphore, and a handle whose recv *)
(* has returned once never resolves again.                                  *)

CanRecv(handle) == closed /\ handle \notin recved

Spawn(S) ==
    task' = [t \in Tasks |-> IF t \in S THEN "idle" ELSE task[t]]

Alive(t) == task[t] \in {"idle", "busy"}

ProcessLives == phase # "exited"

(* An error of init or sync ends the process, and all tasks with it. *)
ExitWith(reason) ==
    /\ phase' = "exited"
    /\ exit' = reason
    /\ UNCHANGED <<stage, config, task, closed, recved, activity, hits,
                   firstSync, told, ready>>

-----------------------------------------------------------------------------
(* UserNode::init: each stage spawns its tasks or ends the process. *)

Advance(from, to, S) ==
    /\ phase = "init"
    /\ stage = from
    /\ stage' = to
    /\ Spawn(S)
    /\ UNCHANGED <<phase, exit, config, closed, recved, activity, hits,
                   firstSync, told, ready>>

(* The sealed seed exists, unseals, and belongs to the user; the arguments *)
(* agree with what was sealed.                                             *)
fetch_provisioned_secrets ==
    /\ config.seed = "ok"
    /\ config.argsMatch
    /\ Advance("secrets", "vfs", {"refresh fees"})

init_google_vfs ==
    Advance("vfs", "reads", IF config.prod THEN {"credentials"} ELSE {})

Authorized == config.prod => config.approved = "ok"

ReadPersisted ==
    /\ Authorized
    /\ Advance("reads", "wallet", {})

InitWallet == Advance("wallet", "peers", {"wallet db"})

InitPeers == Advance("peers", "payments", {"reconnector"})

InitPayments == Advance("payments", "servers", {"payments", "monitors"})

InitServers == Advance("servers", "bgp", {"app server", "lexe server"})

InitBgp ==
    /\ phase = "init"
    /\ stage = "bgp"
    /\ stage' = "spawn"
    /\ phase' = "sync"
    /\ Spawn({"bgp"})
    /\ UNCHANGED <<exit, config, closed, recved, activity, hits, firstSync,
                   told, ready>>

(* Any stage may also fail: a request, a file that cannot be read, ... *)
InitFails ==
    /\ phase = "init"
    /\ ExitWith("error")

-----------------------------------------------------------------------------
(* UserNode::sync *)

StartSync ==
    /\ phase = "sync"
    /\ stage = "spawn"
    /\ stage' = "first"
    /\ Spawn(SyncTasks)
    /\ firstSync' = [k \in SyncTasks |-> "wait"]
    /\ UNCHANGED <<phase, exit, config, closed, recved, activity, hits, told,
                   ready>>

(* A sync task sends the result of its first sync. *)
FirstSync(k) ==
    /\ ProcessLives
    /\ IF k \in Tasks THEN Alive(k) ELSE TRUE
    /\ firstSync[k] = "wait"
    /\ \E result \in {"ok", "err"} :
          firstSync' = [firstSync EXCEPT ![k] = result]
    /\ UNCHANGED <<phase, stage, exit, config, task, closed, recved, activity,
                   hits, told, ready>>

(* Mutant: the result inside the oneshot is not looked at. *)
MutResultIgnored ==
    /\ stage = "first"
    /\ phase = "sync"
    /\ \A k \in SyncTasks : firstSync[k] \in {"ok", "err"}
    /\ stage' = "lsp"
    /\ UNCHANGED <<phase, exit, config, task, closed, recved, activity, hits,
                   firstSync, told, ready>>

FirstSyncsDone ==
    /\ stage = "first"
    /\ phase = "sync"
    /\ \A k \in SyncTasks : firstSync[k] = "ok"
    /\ stage' = "lsp"
    /\ UNCHANGED <<phase, exit, config, task, closed, recved, activity, hits,
                   firstSync, told, ready>>

(* try_join! returns early only when a sender was dropped. *)
FirstSyncFails ==
    /\ stage = "first"
    /\ phase = "sync"
    /\ \/ \E k \in SyncTasks : firstSync[k] = "dropped"
       \/ /\ \A k \in SyncTasks : firstSync[k] \in {"ok", "err"}
          /\ \E k \in SyncTasks : firstSync[k] = "err"
    /\ ExitWith("error")

UsesLsp == config.prod \/ config.lspUrl

maybe_reconnect_to_lsp ==
    /\ phase = "sync"
    /\ stage = "lsp"
    /\ config.allow_mock = ~UsesLsp
    /\ UsesLsp /\ "reconnector" \in Tasks => Alive("reconnector")
    /\ told' = UsesLsp
    /\ stage' = "ready"
    /\ UNCHANGED <<phase, exit, config, task, closed, recved, activity, hits,
                   firstSync, ready>>

(* The flags disagree, the LSP is unreachable after the retries, or the *)
(* reconnector is gone.                                                 *)
ReconnectFails ==
    /\ phase = "sync"
    /\ stage = "lsp"
    /\ config.allow_mock = UsesLsp \/ UsesLsp
    /\ ExitWith("error")

NotifyReady ==
    /\ phase = "sync"
    /\ stage = "ready"
    /\ ready' = TRUE
    /\ stage' = "done"
    /\ phase' = "running"
    /\ Spawn({"timer"})
    /\ UNCHANGED <<exit, config, closed, recved, activity, hits, firstSync,
                   told>>

NotifyReadyFails ==
    /\ phase = "sync"
    /\ stage = "ready"
    /\ ExitWith("error")

-----------------------------------------------------------------------------
(* UserNode::run *)

(* The select is biased: a shutdown is seen before a finished task. *)
RunRecvsShutdown ==
    /\ phase = "running"
    /\ CanRecv("main")
    /\ recved' = recved \cup {"main"}
    /\ phase' = "joining"
    /\ UNCHANGED <<stage, exit, config, task, closed, activity, hits,
                   firstSync, told, ready>>

RunSeesFinishedTask(t) ==
    /\ phase = "running"
    /\ ~CanRecv("main")
    /\ task[t] = "done"
    /\ task' = [task EXCEPT ![t] = "joined"]
    /\ closed' = TRUE
    /\ phase' = "joining"
    /\ UNCHANGED <<stage, exit, config, recved, activity, hits, firstSync,
                   told, ready>>

(* Polling a task that panicked resumes the panic. *)
PropagatePanic(t) ==
    /\ task[t] = "panicked"
    /\ \/ phase = "running" /\ ~CanRecv("main")
       \/ phase = "joining"
    /\ ExitWith("panic")

JoinTask(t) ==
    /\ phase = "joining"
    /\ task[t] = "done"
    /\ task' = [task EXCEPT ![t] = "joined"]
    /\ UNCHANGED <<phase, stage, exit, config, closed, recved, activity, hits,
                   firstSync, told, ready>>

JoinedAll ==
    /\ phase = "joining"
    /\ \A t \in Tasks : task[t] \in {"none", "joined"}
    /\ ExitWith("ok")

(* Mutant: the stuck tasks are logged and the loop goes on. *)
MutNoBreak ==
    /\ TimeLimit
    /\ phase = "joining"
    /\ UNCHANGED vars

JoinTimesOut ==
    /\ TimeLimit
    /\ phase = "joining"
    /\ \E t \in Tasks : task[t] \notin {"none", "joined"}
    /\ ExitWith("timeout")

-----------------------------------------------------------------------------
(* The tasks *)

(* A sync task that ends drops the sender of its first result. *)
DropSender(t) ==
    firstSync' = IF t \in SyncTasks /\ firstSync[t] = "wait"
                 THEN [firstSync EXCEPT ![t] = "dropped"]
                 ELSE firstSync

BeginWork(t) ==
    /\ ProcessLives
    /\ t # "timer"
    /\ task[t] = "idle"
    /\ task' = [task EXCEPT ![t] = "busy"]
    /\ UNCHANGED <<phase, stage, exit, config, closed, recved, activity, hits,
                   firstSync, told, ready>>

EndWork(t) ==
    /\ ProcessLives
    /\ task[t] = "busy"
    /\ task' = [task EXCEPT ![t] = "idle"]
    /\ UNCHANGED <<phase, stage, exit, config, closed, recved, activity, hits,
                   firstSync, told, ready>>

(* The shutdown branch of the task's select leaves its loop. *)
TaskRecvsShutdown(t) ==
    /\ ProcessLives
    /\ CanRecv(t)
    /\ task[t] = "idle" \/ (t \in Interruptible /\ task[t] = "busy")
    /\ recved' = recved \cup {t}
    /\ task' = [task EXCEPT ![t] = "stopping"]
    /\ DropSender(t)
    /\ UNCHANGED <<phase, stage, exit, config, closed, activity, hits, told,
                   ready>>

(* What follows the loop: a final persist, connections that are closed, ... *)
TaskEnds(t) ==
    /\ ProcessLives
    /\ task[t] = "stopping"
    /\ task' = [task EXCEPT ![t] = "done"]
    /\ UNCHANGED <<phase, stage, exit, config, closed, recved, activity, hits,
                   firstSync, told, ready>>

TaskEndsEarly(t) ==
    /\ ProcessLives
    /\ t \in Fallible
    /\ Alive(t)
    /\ \E end \in {"done", "panicked"} : task' = [task EXCEPT ![t] = end]
    /\ DropSender(t)
    /\ UNCHANGED <<phase, stage, exit, config, closed, recved, activity, hits,
                   told, ready>>

(* A fatal error, or the operators' shutdown endpoint. *)
SendShutdown(t) ==
    /\ ProcessLives
    /\ t \in Fallible
    /\ Alive(t)
    /\ closed' = TRUE
    /\ UNCHANGED <<phase, stage, exit, config, task, recved, activity, hits,
                   firstSync, told, ready>>

-----------------------------------------------------------------------------
(* The inactivity timer. Its handle is the task's own; "idle" is the state *)
(* before its first poll and "busy" the loop.                              *)

HitAppEndpoint ==
    /\ ProcessLives
    /\ "app server" \in Tasks => Alive("app server")
    /\ stage \notin {"secrets", "vfs", "reads", "wallet", "peers", "payments",
                     "servers"}
    /\ hits < MaxHits
    /\ hits' = hits + 1
    /\ activity' = IF activity < ChannelSize THEN activity + 1 ELSE activity
    /\ UNCHANGED <<phase, stage, exit, config, task, closed, recved,
                   firstSync, told, ready>>

SendersDropped ==
    "app server" \in Tasks /\ task["app server"] \in {"done", "panicked", "joined"}

TimerStarts ==
    /\ ProcessLives
    /\ task["timer"] = "idle"
    /\ IF config.shutdown_after_sync /\ activity = 0
       THEN /\ task' = [task EXCEPT !["timer"] = "done"]
            /\ closed' = TRUE
            /\ UNCHANGED activity
       ELSE /\ task' = [task EXCEPT !["timer"] = "busy"]
            /\ activity' = IF config.shutdown_after_sync THEN activity - 1
                                                         ELSE activity
            /\ UNCHANGED closed
    /\ UNCHANGED <<phase, stage, exit, config, recved, hits, firstSync, told,
                   ready>>

TimerFires ==
    /\ ProcessLives
    /\ task["timer"] = "busy"
    /\ task' = [task EXCEPT !["timer"] = "done"]
    /\ closed' = TRUE
    /\ UNCHANGED <<phase, stage, exit, config, recved, activity, hits,
                   firstSync, told, ready>>

TimerResets ==
    /\ ProcessLives
    /\ task["timer"] = "busy"
    /\ activity > 0
    /\ activity' = activity - 1
    /\ UNCHANGED <<phase, stage, exit, config, task, closed, recved, hits,
                   firstSync, told, ready>>

(* All senders are gone: the timer ends and sends nothing. *)
TimerDisconnected ==
    /\ ProcessLives
    /\ task["timer"] = "busy"
    /\ SendersDropped
    /\ activity = 0
    /\ task' = [task EXCEPT !["timer"] = "done"]
    /\ UNCHANGED <<phase, stage, exit, config, closed, recved, activity, hits,
                   firstSync, told, ready>>

TimerRecvsShutdown ==
    /\ ProcessLives
    /\ task["timer"] = "busy"
    /\ CanRecv("timer")
    /\ recved' = recved \cup {"timer"}
    /\ task' = [task EXCEPT !["timer"] = "done"]
    /\ UNCHANGED <<phase, stage, exit, config, closed, activity, hits,
                   firstSync, told, ready>>

-----------------------------------------------------------------------------
Init ==
    /\ phase = "init"
    /\ stage = "secrets"
    /\ exit = "none"
    /\ config \in Configs
    /\ task = [t \in Tasks |-> "none"]
    /\ closed = FALSE
    /\ recved = {}
    /\ activity = 0
    /\ hits = 0
    /\ firstSync = [k \in SyncTasks |-> "none"]
    /\ told = FALSE
    /\ ready = FALSE

(* The process has ended; the runner starts a new one when it is needed. *)
Exited == phase = "exited" /\ UNCHANGED vars

TimerNext ==
    /\ "timer" \in Tasks
    /\ \/ TimerStarts \/ TimerFires \/ TimerResets
       \/ TimerDisconnected \/ TimerRecvsShutdown

TaskNext(t) ==
    \/ BeginWork(t)
    \/ t # "timer" /\ (EndWork(t) \/ TaskRecvsShutdown(t) \/ TaskEnds(t))
    \/ TaskEndsEarly(t)
    \/ SendShutdown(t)

InitNext ==
    \/ fetch_provisioned_secrets \/ init_google_vfs \/ ReadPersisted
    \/ InitWallet \/ InitPeers \/ InitPayments \/ InitServers \/ InitBgp
    \/ InitFails

SyncNext ==
    \/ StartSync
    \/ \E k \in SyncTasks : FirstSync(k)
    \/ FirstSyncsDone \/ FirstSyncFails
    \/ maybe_reconnect_to_lsp \/ ReconnectFails
    \/ NotifyReady \/ NotifyReadyFails

RunNext ==
    \/ RunRecvsShutdown \/ JoinedAll \/ JoinTimesOut
    \/ \E t \in Tasks : RunSeesFinishedTask(t) \/ PropagatePanic(t) \/ JoinTask(t)

Next ==
    \/ InitNext \/ SyncNext \/ RunNext \/ TimerNext
    \/ \E t \in Tasks : TaskNext(t)
    \/ HitAppEndpoint
    \/ Exited

Spec == Init /\ [][Next]_vars

(* Fairness: awaits of init and sync end, because requests time out; ready *)
(* futures are polled; the timer fires; work ends unless its task is stuck. *)
Fairness ==
    /\ WF_vars(InitNext)
    /\ WF_vars(SyncNext)
    /\ WF_vars(RunNext)
    /\ WF_vars(TimerNext)
    /\ \A t \in Tasks \ {"timer"} :
          /\ SF_vars(TaskRecvsShutdown(t))
          /\ t \notin Stuck => WF_vars(EndWork(t)) /\ WF_vars(TaskEnds(t))

FairSpec == Spec /\ Fairness

-----------------------------------------------------------------------------
(* Properties *)

(* The runner hears that the node is ready only after both first syncs     *)
(* succeeded and, where there is an LSP, after the peer connection to it   *)
(* (the comment in UserNode::sync explains why: the LSP may be waiting to  *)
(* open a channel). Tasks that die or a shutdown during sync cannot bring  *)
(* the call forward.                                                       *)
ReadyMeansConnected ==
    ready => /\ \A k \in SyncTasks : firstSync[k] = "ok"
             /\ UsesLsp => told
             /\ config.allow_mock => ~UsesLsp

(* In staging and prod nothing is served and no channel is loaded by a     *)
(* version that the user has not approved with this very measurement, or   *)
(* whose seed or arguments do not match.                                   *)
OnlyApprovedRuns ==
    (\E t \in Tasks \cap {"wallet db", "app server", "bgp", "bdk sync"} :
        task[t] # "none")
      => config.seed = "ok" /\ config.argsMatch
         /\ (config.prod => config.approved = "ok")

(* ShutdownChannel::recv resolves once per handle, so a task that has      *)
(* received a shutdown must never go back to waiting for one.              *)
RecvAtMostOnce ==
    \A t \in Tasks : Alive(t) => t \notin recved

(* run() returns Ok without a panic only after a shutdown was signalled,   *)
(* and unless the time limit elapsed only when no task is left.            *)
CleanExit ==
    /\ exit \in {"ok", "timeout"} => closed /\ ready
    /\ exit = "ok" => \A t \in Tasks : task[t] \in {"none", "joined"}
=============================================================================
