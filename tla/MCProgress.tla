----------------------------- MODULE MCProgress -----------------------------
(***************************************************************************)
(* Progress: instances with fairness. A behaviour is one of the instance   *)
(* that `scenario` names; the other components stay in their initial       *)
(* state.                                                                  *)
(***************************************************************************)
EXTENDS Integers, TLC

CONSTANTS
    Scenarios,   \* the scenarios that a run looks at
    None, Torn, c1, v1, lsp, t1, s1, s2, o1

VARIABLES
    scenario,    \* the component, and its instance, that a behaviour is about
    up, monitor, acked, queue, task, job, processed, bgp, snap, upserts,
    fatal, shutdown, stored, drive, stored_vfs, pc, given, lexe, root, cache,
    op, allowed, faults, chan, out, swept, connected, queue_chans, tasks,
    monDb, timers, forwards, bgp_chans, up_chans, shutdown_chans, fatal_chans,
    panicked, ignored, disconnects, boots, phase, stage, exit, config,
    task_sup, closed, recved, activity, hits, firstSync, told, ready, tip,
    synced, task_sync, seen, due, resync, synced_txs, first, client, asked,
    errors, notified, checker, checkFrom, checked, closed_sync, d, notifs,
    task_db, snapshot, file, node, wallet, unsaved, server, call, attempt,
    faults_api, up_acc, h, sealed, creds, root_acc, backup, approved,
    faults_acc, app, store, latest, env, signups, signedUp, release, up_node,
    pending, finalized, op_node, confIds, recvIds, expired, claimed, db, htlc,
    issued, preflighted, failing, handled, notified_node, bgp_node, snap_node,
    cmDb, tasks_node, holder, fatal_node, shutdown_node, done, rejected

-----------------------------------------------------------------------------
(* Channel monitors. *)
monVars == <<up, monitor, acked, queue, task, job, processed, bgp, snap,
    upserts, fatal, shutdown, stored>>

Mon == INSTANCE ChannelMonitorPersister WITH
    Channels <- {c1}, MaxUpdateId <- 2, QueueSize <- 1, GoogleVfs <- FALSE

IdleMon == Mon!Init

-----------------------------------------------------------------------------
(* The Google VFS. *)
vfsVars == <<drive, stored_vfs, pc, given, lexe, root, cache, op, allowed,
    faults>>

Vfs == INSTANCE GoogleVfs WITH
    Files <- {<<0, 1>>}, Data <- {v1}, Clients <- {"a", "b"}, Lossy <- FALSE,
    MaxGids <- 5, MaxFaults <- 1, stored <- stored_vfs

IdleVfs == Vfs!Init

-----------------------------------------------------------------------------
(* Channels: one of ours, and one that the LSP opens. *)
chansVars == <<chan, out, swept, connected, queue_chans, tasks, monDb, timers,
    forwards, bgp_chans, up_chans, shutdown_chans, fatal_chans, panicked,
    ignored, disconnects, boots>>

Events ==
    <<<<"OpenChannelRequest", c1>>, <<"FundingGenerationReady", c1>>,
      <<"ChannelPending", c1>>, <<"ChannelReady", c1>>, <<"ChannelClosed", c1>>,
      <<"SpendableOutputs", c1>>, <<"PendingHTLCsForwardable", c1>>>>

Ours == INSTANCE Channels WITH
    OutboundChans <- {c1}, LspChans <- {}, ForeignChans <- {},
    MaxDisconnects <- 1, MaxBoots <- 1, Faults <- TRUE, queue <- queue_chans,
    bgp <- bgp_chans, up <- up_chans, shutdown <- shutdown_chans,
    fatal <- fatal_chans
Lsps == INSTANCE Channels WITH
    OutboundChans <- {}, LspChans <- {c1}, ForeignChans <- {},
    MaxDisconnects <- 1, MaxBoots <- 1, Faults <- FALSE, queue <- queue_chans,
    bgp <- bgp_chans, up <- up_chans, shutdown <- shutdown_chans,
    fatal <- fatal_chans

IdleChans == Ours!Init

-----------------------------------------------------------------------------
(* The supervisor; and with a task that never ends. *)
supVars == <<phase, stage, exit, config, task_sup, closed, recved, activity,
    hits, firstSync, told, ready>>

LOCAL S == INSTANCE NodeSupervision WITH
    Tasks <- {}, Fallible <- {}, Interruptible <- {}, Stuck <- {},
    TimeLimit <- TRUE, MaxHits <- 0, ChannelSize <- 0, Configs <- {}
GoodConfig ==
    CHOOSE c \in S!Config : /\ c.seed = "ok" /\ c.argsMatch /\ c.approved = "ok"
                            /\ ~c.lspUrl /\ ~c.allow_mock /\ c.prod

Sup == INSTANCE NodeSupervision WITH
    Interruptible <- {"wallet db", "reconnector", "bdk sync", "ldk sync"},
    MaxHits <- 1, ChannelSize <- 1, Configs <- {GoodConfig}, Stuck <- {},
    TimeLimit <- FALSE, Tasks <- {"wallet db", "app server", "timer"},
    Fallible <- {"app server"}, task <- task_sup
StuckTask == INSTANCE NodeSupervision WITH
    Interruptible <- {"wallet db", "reconnector", "bdk sync", "ldk sync"},
    MaxHits <- 1, ChannelSize <- 1, Configs <- {GoodConfig},
    Stuck <- {"app server"}, TimeLimit <- TRUE,
    Tasks <- {"wallet db", "app server", "timer"}, Fallible <- {},
    task <- task_sup

IdleSup == Sup!Init

-----------------------------------------------------------------------------
(* Chain sync. *)
syncVars == <<tip, synced, task_sync, seen, due, resync, synced_txs, first,
    client, asked, errors, notified, checker, checkFrom, checked, closed_sync>>

Sync == INSTANCE ChainSync WITH
    ChannelSize <- 1, MaxTip <- 0, MaxErrors <- 1, Clients <- {"a"},
    CanTimeOut <- FALSE, CanShutDown <- FALSE, task <- task_sync,
    closed <- closed_sync

IdleSync == Sync!Init

-----------------------------------------------------------------------------
(* The wallet database. *)
dbVars == <<d, notifs, task_db, snapshot, file, node, wallet, unsaved>>

Path(k) == [keychain |-> k, child |-> 0]
SetTx == [op |-> "SetTx", tx |-> [txid |-> t1, conf |-> c1, raw |-> TRUE]]
LOCAL D == INSTANCE WalletDb WITH
    Paths <- {}, Scripts <- {}, Outpoints <- {}, Txids <- {}, Times <- {},
    Batches <- {}, DirectOps <- {}, MaxIndex <- 0, ChannelSize <- 1,
    PersistErrors <- FALSE, Crashes <- FALSE, task <- task_db, node <- node

Db == INSTANCE WalletDb WITH
    Paths <- {Path("External")}, Scripts <- {s1}, Outpoints <- {o1},
    Txids <- {t1}, Times <- {c1}, MaxIndex <- 0,
    Batches <- {D!queue(D!begin_batch, SetTx)}, DirectOps <- {},
    ChannelSize <- 1, PersistErrors <- FALSE, Crashes <- FALSE,
    task <- task_db

IdleDb == Db!Init

-----------------------------------------------------------------------------
(* API calls. *)
apiVars == <<server, call, attempt, faults_api>>

Api == INSTANCE ApiCalls WITH
    Calls <- {"a"}, Servers <- {"backend"},
    Ops <- {"upsert_file_with_retries"}, Retries <- 1, Failures <- {},
    StopCodes <- {}, ClientLacks <- {}, BufferSize <- 1, Concurrency <- 1,
    MaxFaults <- 0, faults <- faults_api

IdleApi == Api!Init

-----------------------------------------------------------------------------
(* Accounts. *)
accVars == <<up_acc, h, sealed, creds, root_acc, backup, approved, faults_acc,
    app, store, latest, env, signups, signedUp, release>>

R1 == [version |-> 1, measurement |-> "a"]
R2 == [version |-> 2, measurement |-> "b"]
Staging == [deploy_env |-> "staging", network |-> "testnet"]

Acc == INSTANCE AppAccount WITH
    Releases <- {R1, R2}, Yanked <- [r \in {R1, R2} |-> {}], MAX_SIZE <- 1,
    Seeds <- {s1},
    NodeEnv <- Staging, Orphans <- FALSE, Handlers <- {1}, MaxFaults <- 1,
    AppEnvs <- {Staging}, Passwords <- {TRUE}, Others <- {},
    FileStore <- FALSE, MaxSignups <- 1, Rollbacks <- FALSE, up <- up_acc,
    root <- root_acc, faults <- faults_acc

IdleAcc == Acc!Init /\ release = R1

-----------------------------------------------------------------------------
(* Lightning payments: an invoice of ours and one that we pay; and one that *)
(* we pay and that may expire, while we issue none.                         *)
lnVars == <<up_node, pending, finalized, op_node, confIds, recvIds, expired,
    claimed, db, htlc, issued, preflighted, failing, handled, notified_node,
    bgp_node, snap_node, cmDb, tasks_node, holder, fatal_node, shutdown_node,
    done, rejected>>

LnEvents ==
    <<<<"PaymentClaimable", "i">>, <<"PaymentClaimed", "i">>,
      <<"PaymentSent", "o">>, <<"PaymentFailed", "o">>>>

Ln == INSTANCE LightningNode WITH
    RpTxids <- {}, Notes <- {}, LnHashes <- {"i", "o"}, Cids <- {},
    Txids <- {}, ConfCounts <- {}, LostReplies <- FALSE, InvHashes <- {"i"},
    KsHashes <- {}, OutHashes <- {"o"}, Expirable <- {}, Faults <- FALSE,
    up <- up_node, op <- op_node, notified <- notified_node, bgp <- bgp_node,
    snap <- snap_node, tasks <- tasks_node, fatal <- fatal_node,
    shutdown <- shutdown_node
Late == INSTANCE LightningNode WITH
    RpTxids <- {}, Notes <- {}, LnHashes <- {"i", "o"}, Cids <- {},
    Txids <- {}, ConfCounts <- {}, LostReplies <- FALSE, InvHashes <- {"i"},
    KsHashes <- {}, OutHashes <- {"o"}, Expirable <- {"o"}, Faults <- FALSE,
    up <- up_node, op <- op_node, notified <- notified_node, bgp <- bgp_node,
    snap <- snap_node, tasks <- tasks_node, fatal <- fatal_node,
    shutdown <- shutdown_node
NoInvoiceOfOurs == op_node'.name = "new" => op_node'.batch["i"] = None

IdleLn == Ln!NodeInit

-----------------------------------------------------------------------------
(* The constants of the instances are as their modules require. *)
ASSUME InstancesAreProper ==
    /\ Mon!BoundsAreNat /\ Mon!GoogleVfsIsBool
    /\ Ours!ChannelsArePartitioned /\ Lsps!ChannelsArePartitioned
    /\ Acc!MaxSizeIsPositive /\ Acc!CannotYankCurrentVersion
    /\ Ln!HashesArePartitioned /\ Ln!IdsAreDisjoint /\ Ln!NoneIsNoValue
    /\ Late!HashesArePartitioned /\ Late!IdsAreDisjoint /\ Late!NoneIsNoValue

vars == <<scenario, monVars, vfsVars, chansVars, supVars, syncVars, dbVars,
          apiVars, accVars, lnVars>>

notMon == <<scenario, vfsVars, chansVars, supVars, syncVars, dbVars, apiVars,
          accVars, lnVars>>
notVfs == <<scenario, monVars, chansVars, supVars, syncVars, dbVars, apiVars,
          accVars, lnVars>>
notChans == <<scenario, monVars, vfsVars, supVars, syncVars, dbVars, apiVars,
          accVars, lnVars>>
notSup == <<scenario, monVars, vfsVars, chansVars, syncVars, dbVars, apiVars,
          accVars, lnVars>>
notSync == <<scenario, monVars, vfsVars, chansVars, supVars, dbVars, apiVars,
          accVars, lnVars>>
notDb == <<scenario, monVars, vfsVars, chansVars, supVars, syncVars, apiVars,
          accVars, lnVars>>
notApi == <<scenario, monVars, vfsVars, chansVars, supVars, syncVars, dbVars,
          accVars, lnVars>>
notAcc == <<scenario, monVars, vfsVars, chansVars, supVars, syncVars, dbVars,
          apiVars, lnVars>>
notLn == <<scenario, monVars, vfsVars, chansVars, supVars, syncVars, dbVars,
          apiVars, accVars>>

Init ==
    /\ scenario \in Scenarios
    /\ \/ scenario = "monitors" /\ Mon!Init
       \/ scenario = "vfs" /\ Vfs!Init
       \/ scenario = "opening" /\ Ours!Init
       \/ scenario = "closing" /\ Lsps!Init
       \/ scenario = "supervision" /\ Sup!Init
       \/ scenario = "stuck" /\ StuckTask!Init
       \/ scenario = "chain_sync" /\ Sync!Init
       \/ scenario = "wallet_db" /\ Db!Init
       \/ scenario = "calls" /\ Api!Init
       \/ scenario = "account" /\ Acc!Init
       \/ scenario = "payments" /\ Ln!NodeInit
       \/ scenario = "expiring" /\ Late!NodeInit
    /\ scenario \in {"monitors"} \/ IdleMon
    /\ scenario \in {"vfs"} \/ IdleVfs
    /\ scenario \in {"opening", "closing"} \/ IdleChans
    /\ scenario \in {"supervision", "stuck"} \/ IdleSup
    /\ scenario \in {"chain_sync"} \/ IdleSync
    /\ scenario \in {"wallet_db"} \/ IdleDb
    /\ scenario \in {"calls"} \/ IdleApi
    /\ scenario \in {"account"} \/ IdleAcc
    /\ scenario \in {"payments", "expiring"} \/ IdleLn

Next ==
    \/ scenario = "monitors" /\ Mon!Next /\ UNCHANGED notMon
    \/ scenario = "vfs" /\ Vfs!Next /\ UNCHANGED notVfs
    \/ scenario = "opening" /\ Ours!Next /\ UNCHANGED notChans
    \/ scenario = "closing" /\ Lsps!Next /\ UNCHANGED notChans
    \/ scenario = "supervision" /\ Sup!Next /\ UNCHANGED notSup
    \/ scenario = "stuck" /\ StuckTask!Next /\ UNCHANGED notSup
    \/ scenario = "chain_sync" /\ Sync!Next /\ UNCHANGED notSync
    \/ scenario = "wallet_db" /\ Db!Next /\ UNCHANGED notDb
    \/ scenario = "calls" /\ Api!Next /\ UNCHANGED notApi
    \/ scenario = "account" /\ Acc!Next /\ UNCHANGED notAcc
    \/ scenario = "payments" /\ Ln!NodeNext /\ UNCHANGED notLn
    \/ scenario = "expiring" /\ Late!NodeNext /\ NoInvoiceOfOurs /\ UNCHANGED notLn

-----------------------------------------------------------------------------
(* Fairness.  Each scenario numbers the actions that its component's        *)
(* Fairness has as weakly and as strongly fair.  Only one scenario runs, so *)
(* the fairness of number n speaks of the nth action of that scenario.      *)

(* Upserts end, since their retries are bounded; timers fire; a task that   *)
(* can run does; and tokio::select polls its branches in random order, so   *)
(* that one that is ready again and again is chosen eventually.             *)
MonWeak(n) ==
    \/ n = 1 /\ Mon!Upserts("task")
    \/ n = 2 /\ Mon!Upserts("bgp")
    \/ n = 3 /\ Mon!Task
    \/ n = 4 /\ Mon!Bgp
MonStrong(n) ==
    \/ n = 1 /\ Mon!BgpProcess
    \/ n = 2 /\ Mon!BgpShutdown

(* Requests end and a crashed node is started again; the lock of the VFS is *)
(* fair.                                                                    *)
VfsWeak(n) ==
    \/ n = 1 /\ Vfs!InitSteps
VfsStrong(n) ==
    \/ n = 1 /\ Vfs!Operate("a")
    \/ n = 2 /\ Vfs!Operate("b")

(* The runtime polls every handler, the BGP processes events at least on    *)
(* its timer, outputs mature, and the reconnector brings back the LSP, for  *)
(* which reconnecting is possible again and again.                          *)
OursWeak(n) ==
    \/ n = 1 /\ Ours!BgpProcess
    \/ n = 2 /\ Ours!BgpShutdown
    \/ n = 3 /\ Ours!ProcessPendingHtlcForwards
    \/ n = 4 /\ ~bgp_chans /\ Ours!ProcessEnds
    \/ n = 5 /\ Ours!Boot
    \/ n = 6 /\ Ours!PeerConnects("lsp")
    \/ n = 7 /\ Ours!OutputsMature(c1)
    \/ \E i \in 1..7 :
          n = 7 + i /\ Events[i] \in tasks /\ Ours!Handle(Events[i])
OursStrong(n) ==
    \/ n = 1 /\ Ours!CoopClose(c1)
LspsWeak(n) ==
    \/ n = 1 /\ Lsps!BgpProcess
    \/ n = 2 /\ Lsps!BgpShutdown
    \/ n = 3 /\ Lsps!ProcessPendingHtlcForwards
    \/ n = 4 /\ ~bgp_chans /\ Lsps!ProcessEnds
    \/ n = 5 /\ Lsps!Boot
    \/ n = 6 /\ Lsps!PeerConnects("lsp")
    \/ n = 7 /\ Lsps!OutputsMature(c1)
    \/ \E i \in 1..7 :
          n = 7 + i /\ Events[i] \in tasks /\ Lsps!Handle(Events[i])
LspsStrong(n) ==
    \/ n = 1 /\ Lsps!CoopClose(c1)

(* The awaits of init and sync end, because requests time out; ready        *)
(* futures are polled; the timer fires; work ends unless its task is stuck. *)
SupWeak(n) ==
    \/ n = 1 /\ Sup!InitNext
    \/ n = 2 /\ Sup!SyncNext
    \/ n = 3 /\ Sup!RunNext
    \/ n = 4 /\ Sup!TimerNext
    \/ n = 5 /\ Sup!EndWork("wallet db")
    \/ n = 6 /\ Sup!TaskEnds("wallet db")
    \/ n = 7 /\ Sup!EndWork("app server")
    \/ n = 8 /\ Sup!TaskEnds("app server")
SupStrong(n) ==
    \/ n = 1 /\ Sup!TaskRecvsShutdown("wallet db")
    \/ n = 2 /\ Sup!TaskRecvsShutdown("app server")
StuckTaskWeak(n) ==
    \/ n = 1 /\ StuckTask!InitNext
    \/ n = 2 /\ StuckTask!SyncNext
    \/ n = 3 /\ StuckTask!RunNext
    \/ n = 4 /\ StuckTask!TimerNext
    \/ n = 5 /\ StuckTask!EndWork("wallet db")
    \/ n = 6 /\ StuckTask!TaskEnds("wallet db")
StuckTaskStrong(n) ==
    \/ n = 1 /\ StuckTask!TaskRecvsShutdown("wallet db")
    \/ n = 2 /\ StuckTask!TaskRecvsShutdown("app server")

(* Timers tick, and a sync or a check ends: SYNC_TIMEOUT bounds a sync and  *)
(* request timeouts a check. Failures are bounded, so some syncs succeed.   *)
SyncWeak(n) ==
    \/ n = 1 /\ Sync!TimerTicks("bdk")
    \/ n = 2 /\ Sync!TimerTicks("ldk")
    \/ n = 3 /\ Sync!SyncStep("bdk")
    \/ n = 4 /\ Sync!SyncStep("ldk")
    \/ n = 5 /\ Sync!CheckStarts
    \/ n = 6 /\ (Sync!CheckOk \/ Sync!CheckFails)

(* The runtime polls the task, and a persist ends because its retries are   *)
(* bounded.                                                                 *)
DbWeak(n) ==
    \/ n = 1 /\ Db!TaskRecv
    \/ n = 2 /\ Db!PersistOk
    \/ n = 3 /\ Db!TaskShutdown

(* Timers fire: the client's timeout and backoff, the server's handling     *)
(* timeout and grace period. Nothing is assumed of handlers, of the network *)
(* or of clients closing their connections.                                 *)
ApiWeak(n) ==
    \/ n = 1 /\ Api!ClientTimeout("a")
    \/ n = 2 /\ Api!Resend("a")
    \/ n = 3 /\ Api!HardShutdown

(* The runtime polls the handlers, the app awaits its answer, and the user  *)
(* opens the app again and again; the runner starts the instances.          *)
AccWeak(n) ==
    \/ n = 1 /\ Acc!HandlerStep(1)
             /\ UNCHANGED <<app, store, latest, env, signups, signedUp, release>>
    \/ n = 2 /\ Acc!OrphanEnds(1)
    \/ n = 3 /\ Acc!StartInstance(R1)
    \/ n = 4 /\ Acc!StartInstance(R2)
    \/ n = 5 /\ Acc!Load
    \/ n = 6 /\ Acc!Provisioned
    \/ n = 7 /\ Acc!RecordProvisioned
    \/ n = 8 /\ Acc!CommitSeed
AccStrong(n) ==
    \/ n = 1 /\ Acc!AppStops /\ app.pc = "open"

(* The background processor and the handlers are polled, the lock is FIFO,  *)
(* the backend answers, and LDK resolves what it is sending and claiming.   *)
LnWeak(n) ==
    \/ n = 1 /\ (Ln!BgpProcess \/ Ln!BgpPersisted \/ Ln!BgpFinalPersist)
    \/ n = 2 /\ Ln!Backend
    \/ n = 3 /\ Ln!CommitCall
    \/ n = 4 /\ \E accepted \in BOOLEAN : Ln!CommitPayInvoice("o", accepted)
    \/ n = 5 /\ (Ln!SendEnds("o", "sent") \/ Ln!SendEnds("o", "failed"))
    \/ n = 6 /\ Ln!ClaimCompletes("i")
    \/ \E i \in 1..4 :
          n = 6 + i /\ Ln!CommitEvent(LnEvents[i][1], LnEvents[i][2])
LnStrong(n) ==
    \/ n = 1 /\ Ln!RegisterSendFailure("o")
    \/ \E i \in 1..4 :
          n = 1 + i /\ Ln!HandleEvent(LnEvents[i][1], LnEvents[i][2])
LateWeak(n) ==
    \/ n = 1 /\ (Late!BgpProcess \/ Late!BgpPersisted \/ Late!BgpFinalPersist)
    \/ n = 2 /\ Late!Backend
    \/ n = 3 /\ Late!CommitCall
    \/ n = 4 /\ \E accepted \in BOOLEAN : Late!CommitPayInvoice("o", accepted)
    \/ n = 5 /\ (Late!SendEnds("o", "sent") \/ Late!SendEnds("o", "failed"))
    \/ n = 6 /\ Late!CommitEvent("PaymentSent", "o")
    \/ n = 7 /\ Late!CommitEvent("PaymentFailed", "o")
LateStrong(n) ==
    \/ n = 1 /\ Late!RegisterSendFailure("o")
    \/ n = 2 /\ Late!HandleEvent("PaymentSent", "o")
    \/ n = 3 /\ Late!HandleEvent("PaymentFailed", "o")

Weak(n) ==
    /\ scenario' = scenario
    /\ \/ scenario = "monitors" /\ MonWeak(n)
       \/ scenario = "vfs" /\ VfsWeak(n)
       \/ scenario = "opening" /\ OursWeak(n)
       \/ scenario = "closing" /\ LspsWeak(n)
       \/ scenario = "supervision" /\ SupWeak(n)
       \/ scenario = "stuck" /\ StuckTaskWeak(n)
       \/ scenario = "chain_sync" /\ SyncWeak(n)
       \/ scenario = "wallet_db" /\ DbWeak(n)
       \/ scenario = "calls" /\ ApiWeak(n)
       \/ scenario = "account" /\ AccWeak(n)
       \/ scenario = "payments" /\ LnWeak(n)
       \/ scenario = "expiring" /\ LateWeak(n)
Strong(n) ==
    /\ scenario' = scenario
    /\ \/ scenario = "monitors" /\ MonStrong(n)
       \/ scenario = "vfs" /\ VfsStrong(n)
       \/ scenario = "opening" /\ OursStrong(n)
       \/ scenario = "closing" /\ LspsStrong(n)
       \/ scenario = "supervision" /\ SupStrong(n)
       \/ scenario = "stuck" /\ StuckTaskStrong(n)
       \/ scenario = "account" /\ AccStrong(n)
       \/ scenario = "payments" /\ LnStrong(n)
       \/ scenario = "expiring" /\ LateStrong(n)

(* The variables of the component that runs; the others never change. *)
running ==
    CASE scenario = "monitors" -> monVars
      [] scenario = "vfs" -> vfsVars
      [] scenario = "opening" \/ scenario = "closing" -> chansVars
      [] scenario = "supervision" \/ scenario = "stuck" -> supVars
      [] scenario = "chain_sync" -> syncVars
      [] scenario = "wallet_db" -> dbVars
      [] scenario = "calls" -> apiVars
      [] scenario = "account" -> accVars
      [] scenario = "payments" \/ scenario = "expiring" -> lnVars

Fairness ==
    /\ \A n \in 1..14 : WF_running(Weak(n))
    /\ \A n \in 1..5 : SF_running(Strong(n))

Spec == Init /\ [][Next]_vars /\ Fairness

-----------------------------------------------------------------------------
(* Properties. *)

(* The persister task and the background processor never wait for each     *)
(* other forever: while the node is up every queued update is              *)
(* acknowledged, and after a shutdown both exit (channel_monitor.rs,       *)
(* background_processor.rs).                                               *)
PersisterProgresses ==
    scenario = "monitors" => Mon!UpdatesAreSettled /\ Mon!ShutdownCompletes

(* Every channel that waits for the event handler is decided, also when    *)
(* funding fails or the peer disconnects, HTLCs that wait to be forwarded  *)
(* are processed, and a channel that is closed while no handler fails pays *)
(* out to the wallet (event.rs, event_handler.rs, keys_manager.rs).        *)
ChannelsProgress ==
    /\ []<>(scenario = "opening" => ~Ours!Undecided(c1))
    /\ []<>(scenario = "closing" => ~Lsps!Undecided(c1))
    /\ []<>(scenario = "closing" => ~forwards)
    /\ scenario = "closing" => Lsps!CloseReachesWallet

(* A node that nobody talks to stops in the end, and so does one of which  *)
(* a task ended or panicked; a task that never ends cannot prevent it      *)
(* (run.rs, inactivity_timer.rs, task.rs).                                 *)
NodeEnds == []<>(scenario \in {"supervision", "stuck"} => phase = "exited")

(* Whoever waits for an answer gets one: API calls return and a server     *)
(* that shuts down ends (rest.rs, server.rs), a resync is answered though  *)
(* a sync fails (sync.rs), and an operation of the Google VFS ends         *)
(* (gvfs.rs).                                                              *)
CallersAreAnswered ==
    /\ scenario = "calls" => Api!CallsEnd /\ Api!ServerEnds
    /\ scenario = "chain_sync" => Sync!ResyncIsAnswered
    /\ \A c \in {"a", "b"} : []<>(scenario = "vfs" => op[c] = Vfs!Idle)

(* When nothing fails, every Lightning payment that LDK sends or claims is *)
(* eventually recorded with its outcome, whichever handlers, calls and     *)
(* persists compete for the lock on the payments (event_handler.rs,        *)
(* payments/manager.rs, background_processor.rs).                          *)
EventuallyRecorded ==
    scenario \in {"payments", "expiring"} => Ln!EventuallyRecorded

(* What is behind catches up, if faults stop: an app that is opened again  *)
(* and again reaches the latest release, unless it was killed while it     *)
(* wrote the file that records it, after which it never loads (app.rs,     *)
(* ffs.rs); and what the wallet committed is persisted (wallet/mod.rs).    *)
LaggardsCatchUp ==
    /\ scenario = "account" => Acc!ReachesLatest
    /\ scenario = "wallet_db" => Db!EventuallyPersisted
=============================================================================
