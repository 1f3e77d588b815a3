------------------------ MODULE ChannelMonitorPersister ------------------------
(***************************************************************************)
(* How a node makes its channel monitors and its channel manager durable:  *)
(* NodePersister's Persist impl (node/src/persister.rs) queues monitor     *)
(* updates, the channel monitor persister task (channel_monitor.rs)        *)
(* persists them one at a time in Google Drive and in Lexe's DB,           *)
(* acknowledges them to LDK and waits for the background processor (BGP)   *)
(* to process events; the BGP persists the channel manager; and a boot     *)
(* reads both stores and repairs what differs between them.                *)
(*                                                                         *)
(* A monitor is its version: LDK's update id.  A channel manager is the    *)
(* set of updates that it knows to be persisted.  A request that the node  *)
(* gave up on is applied, if ever, before the next one is sent.            *)
(***************************************************************************)
EXTENDS Naturals, Sequences

CONSTANTS
    Channels,       \* funding outpoints
    MaxUpdateId,    \* bound on the updates of a channel
    QueueSize,      \* capacity of the channel_monitor_persister channel
    GoogleVfs,      \* does the node have a Google VFS?
    None

BoundsAreNat == MaxUpdateId \in Nat /\ QueueSize \in Nat \ {0}
GoogleVfsIsBool == GoogleVfs \in BOOLEAN

VARIABLES
    up,             \* is the node running?
    monitor,        \* version of each channel monitor in memory, 0 for none
    acked,          \* updates that the channel manager knows to be persisted
    queue,          \* channel_monitor_persister channel
    task,           \* where the persister task is
    job,            \* the update that it is handling
    processed,      \* the oneshot channel on which it awaits the BGP
    bgp,            \* where the BGP is
    snap,           \* the channel manager that the BGP is persisting
    upserts,        \* per writer: stores not yet written, and success so far
    fatal,          \* fatal_event
    shutdown,       \* has a shutdown been sent?
    stored          \* what each store holds

memory == <<monitor, acked>>
taskVars == <<queue, task, job>>
bgpVars == <<bgp, snap>>
signals == <<fatal, shutdown>>
vars == <<up, memory, taskVars, processed, bgpVars, upserts, signals, stored>>

Update == Channels \X (1..MaxUpdateId)
Stores == {"Lexe"} \cup (IF GoogleVfs THEN {"Google"} ELSE {})

(* "GDrive has rollback protection [and] is the primary source of truth." *)
Primary == IF GoogleVfs THEN "Google" ELSE "Lexe"

Contents == [monitors : [Channels -> 0..MaxUpdateId], manager : (SUBSET Update) \cup {None}]
NoUpsert == [left |-> {}, ok |-> TRUE]
NewUpsert == [left |-> Stores, ok |-> TRUE]

TypeOK ==
    /\ up \in BOOLEAN /\ fatal \in BOOLEAN /\ shutdown \in BOOLEAN
    /\ monitor \in [Channels -> 0..MaxUpdateId]
    /\ acked \subseteq Update
    /\ queue \in Seq(Update) /\ Len(queue) <= QueueSize
    /\ task \in {"recv", "persisting", "waiting", "exited"}
    /\ job \in Update \cup {None}
    /\ processed \in {"none", "queued", "sent", "dropped"}
    /\ bgp \in {"idle", "persisting", "graph", "final", "exited"}
    /\ snap \in (SUBSET Update) \cup {None}
    /\ upserts \in [{"task", "bgp"} -> [left : SUBSET Stores, ok : BOOLEAN]]
    /\ stored \in [Stores -> Contents]

Init ==
    /\ up = TRUE /\ fatal = FALSE /\ shutdown = FALSE
    /\ queue = <<>> /\ task = "recv" /\ job = None /\ processed = "none"
    /\ bgp = "idle" /\ snap = None
    /\ upserts = [w \in {"task", "bgp"} |-> NoUpsert]
    /\ monitor = [c \in Channels |-> 0]
    /\ acked = {}
    /\ stored = [s \in Stores |-> [monitors |-> monitor, manager |-> None]]

-----------------------------------------------------------------------------
(* MUTANT of update_persisted_channel: returns Completed, not InProgress. *)
MutReturnsCompleted(c) ==
    /\ up /\ monitor[c] < MaxUpdateId
    /\ monitor' = [monitor EXCEPT ![c] = @ + 1]
    /\ acked' = acked \cup {<<c, monitor[c] + 1>>}
    /\ IF Len(queue) < QueueSize /\ task # "exited"
       THEN queue' = Append(queue, <<c, monitor[c] + 1>>) /\ UNCHANGED shutdown
       ELSE shutdown' = TRUE /\ UNCHANGED queue
    /\ UNCHANGED <<up, task, job, processed, bgpVars, upserts, fatal, stored>>

(* persist_new_channel and update_persisted_channel: LDK has a new version *)
(* of a monitor.  It is serialised at once, and queued; when the queue is  *)
(* full, or the task is gone, the update is lost and the node shuts down.  *)
update_persisted_channel(c) ==
    /\ up /\ monitor[c] < MaxUpdateId
    /\ monitor' = [monitor EXCEPT ![c] = @ + 1]
    /\ IF Len(queue) < QueueSize /\ task # "exited"
       THEN queue' = Append(queue, <<c, monitor[c] + 1>>) /\ UNCHANGED shutdown
       ELSE shutdown' = TRUE /\ UNCHANGED queue
    /\ UNCHANGED <<up, acked, task, job, processed, bgpVars, upserts, fatal, stored>>

-----------------------------------------------------------------------------
(* upsert_to_gdrive_and_lexe: both stores are written concurrently. *)

Written(writer, s) ==
    IF writer = "task" THEN [stored EXCEPT ![s].monitors[job[1]] = job[2]]
    ELSE [stored EXCEPT ![s].manager = snap]

UpsertSucceeds(writer, s) ==
    /\ up /\ s \in upserts[writer].left
    /\ stored' = Written(writer, s)
    /\ upserts' = [upserts EXCEPT ![writer].left = @ \ {s}]
    /\ UNCHANGED <<up, memory, taskVars, processed, bgpVars, signals>>

(* All retries have failed, though one of them may have been applied. *)
UpsertFails(writer, s) ==
    /\ up /\ s \in upserts[writer].left
    /\ stored' \in {stored, Written(writer, s)}
    /\ upserts' = [upserts EXCEPT ![writer].left = @ \ {s}, ![writer].ok = FALSE]
    /\ UNCHANGED <<up, memory, taskVars, processed, bgpVars, signals>>

-----------------------------------------------------------------------------
(* spawn_channel_monitor_persister_task and handle_update. *)

Recv ==
    /\ up /\ task = "recv" /\ queue # <<>>
    /\ job' = Head(queue) /\ queue' = Tail(queue)
    /\ task' = "persisting"
    /\ upserts' = [upserts EXCEPT !["task"] = NewUpsert]
    /\ UNCHANGED <<up, memory, processed, bgpVars, signals, stored>>

(* Every error is fatal: send a shutdown and leave the loop. *)
Exit ==
    /\ task' = "exited" /\ job' = None /\ processed' = "none"
    /\ upserts' = [upserts EXCEPT !["task"] = NoUpsert]
    /\ shutdown' = TRUE
    /\ UNCHANGED <<up, memory, queue, bgpVars, fatal, stored>>

(* The shutdown branches of the two selects. *)
Interrupted ==
    /\ up /\ shutdown /\ task \in {"recv", "persisting"}
    /\ Exit

(* MUTANT of Persisted: one store is enough. *)
MutAckAfterOneStore ==
    /\ up /\ task = "persisting"
    /\ upserts["task"].left # Stores /\ upserts["task"].ok
    /\ acked' = acked \cup {job}
    /\ task' = "waiting"
    /\ processed' = IF bgp = "exited" THEN "dropped" ELSE "queued"
    /\ UNCHANGED <<up, monitor, queue, job, bgpVars, upserts, signals, stored>>

(* Acknowledge the update to LDK, then ask the BGP to process events. *)
Persisted ==
    /\ up /\ task = "persisting"
    /\ upserts["task"] = NoUpsert
    /\ acked' = acked \cup {job}
    /\ task' = "waiting"
    /\ processed' = IF bgp = "exited" THEN "dropped" ELSE "queued"
    /\ UNCHANGED <<up, monitor, queue, job, bgpVars, upserts, signals, stored>>

PersistFailure ==
    /\ up /\ task = "persisting"
    /\ upserts["task"] = [left |-> {}, ok |-> FALSE]
    /\ Exit

(* The update is stored, but LDK's chain monitor does not accept the news. *)
ChainMonitorError ==
    /\ up /\ task = "persisting"
    /\ upserts["task"] = NoUpsert
    /\ Exit

EventsProcessed ==
    /\ up /\ task = "waiting" /\ processed = "sent"
    /\ task' = "recv" /\ job' = None /\ processed' = "none"
    /\ UNCHANGED <<up, memory, queue, bgpVars, upserts, signals, stored>>

(* The BGP has dropped the request. *)
EventsProcessRecv ==
    /\ up /\ task = "waiting" /\ processed = "dropped"
    /\ Exit

(* The BGP is busy for longer than PROCESS_EVENTS_TIMEOUT. *)
EventsProcessTimeout ==
    /\ up /\ task = "waiting" /\ processed = "queued" /\ bgp # "idle"
    /\ Exit

-----------------------------------------------------------------------------
(* LexeBackgroundProcessor::start. *)

StartPersist(where) ==
    /\ bgp' = where /\ snap' = acked
    /\ upserts' = [upserts EXCEPT !["bgp"] = NewUpsert]

Answer(queued) == IF processed = "queued" THEN queued ELSE processed

(* MUTANT of BgpProcess: the requests are not answered. *)
MutRequestsUnanswered ==
    /\ up /\ bgp = "idle"
    /\ IF fatal
       THEN bgp' = "exited" /\ processed' = Answer("dropped") /\ UNCHANGED <<snap, upserts>>
       ELSE /\ processed' = processed
            /\ StartPersist("persisting") \/ UNCHANGED <<bgpVars, upserts>>
    /\ UNCHANGED <<up, memory, taskVars, signals, stored>>

(* Process events: after a fatal event return at once, which drops the     *)
(* requests; otherwise answer them, then persist the channel manager if it *)
(* had an update.                                                          *)
BgpProcess ==
    /\ up /\ bgp = "idle"
    /\ IF fatal
       THEN bgp' = "exited" /\ processed' = Answer("dropped") /\ UNCHANGED <<snap, upserts>>
       ELSE /\ processed' = Answer("sent")
            /\ StartPersist("persisting") \/ UNCHANGED <<bgpVars, upserts>>
    /\ UNCHANGED <<up, memory, taskVars, signals, stored>>

(* The network graph and the scorer: no other branch runs meanwhile, and a *)
(* failure is only logged.                                                 *)
BgpPersistGraph ==
    /\ up
    /\ \/ bgp = "idle" /\ bgp' = "graph"
       \/ bgp = "graph" /\ bgp' = "idle"
    /\ UNCHANGED <<up, memory, taskVars, processed, snap, upserts, signals, stored>>

(* A failed persist sends a shutdown and leaves the loop, after which the  *)
(* channel manager is persisted one last time.                             *)
BgpPersisted ==
    /\ up /\ bgp = "persisting" /\ upserts["bgp"].left = {}
    /\ IF upserts["bgp"].ok
       THEN bgp' = "idle" /\ snap' = None /\ UNCHANGED <<upserts, shutdown>>
       ELSE StartPersist("final") /\ shutdown' = TRUE
    /\ UNCHANGED <<up, memory, taskVars, processed, fatal, stored>>

BgpShutdown ==
    /\ up /\ bgp = "idle" /\ shutdown
    /\ StartPersist("final")
    /\ UNCHANGED <<up, memory, taskVars, processed, signals, stored>>

BgpExits ==
    /\ up /\ bgp = "final" /\ upserts["bgp"].left = {}
    /\ bgp' = "exited" /\ snap' = None /\ processed' = Answer("dropped")
    /\ upserts' = [upserts EXCEPT !["bgp"] = NoUpsert]
    /\ UNCHANGED <<up, memory, taskVars, signals, stored>>

-----------------------------------------------------------------------------
(* A shutdown from elsewhere; from the event handler it may be a fatal one.*)
SendShutdown ==
    /\ up /\ ~shutdown
    /\ shutdown' = TRUE /\ fatal' \in BOOLEAN
    /\ UNCHANGED <<up, memory, taskVars, processed, bgpVars, upserts, stored>>

(* The process ends, at any point. *)
Crash ==
    /\ up
    /\ up' = FALSE /\ fatal' = FALSE /\ shutdown' = FALSE
    /\ queue' = <<>> /\ task' = "recv" /\ job' = None /\ processed' = "none"
    /\ bgp' = "idle" /\ snap' = None
    /\ upserts' = [w \in {"task", "bgp"} |-> NoUpsert]
    /\ monitor' = [c \in Channels |-> 0] /\ acked' = {}
    /\ UNCHANGED stored

(* MUTANT of FixMonitor: Lexe's version wins. *)
MutLexeWins(c) ==
    LET google == stored["Google"].monitors[c]
        lexe   == stored["Lexe"].monitors[c]
    IN  /\ google # lexe
        /\ stored' = IF lexe # 0
                     THEN [stored EXCEPT !["Google"].monitors[c] = lexe]
                     ELSE [stored EXCEPT !["Lexe"].monitors[c] = google]

(* compare_channel_monitors_and_fix_errors: Google's version wins. *)
FixMonitor(c) ==
    LET google == stored["Google"].monitors[c]
        lexe   == stored["Lexe"].monitors[c]
    IN  /\ google # lexe
        /\ stored' = IF google # 0
                     THEN [stored EXCEPT !["Lexe"].monitors[c] = google]
                     ELSE [stored EXCEPT !["Google"].monitors[c] = lexe]

(* decrypt_channel_manager_and_fix_errors: likewise. *)
FixManager ==
    LET google == stored["Google"].manager
        lexe   == stored["Lexe"].manager
    IN  /\ google # lexe
        /\ stored' = IF google # None
                     THEN [stored EXCEPT !["Lexe"].manager = google]
                     ELSE [stored EXCEPT !["Google"].manager = lexe]

(* Each repair is a request of its own: the boot may fail after any of them.*)
Repair ==
    /\ ~up /\ GoogleVfs
    /\ FixManager \/ \E c \in Channels : FixMonitor(c)
    /\ UNCHANGED <<up, memory, taskVars, processed, bgpVars, upserts, signals>>

(* read_channel_monitors and read_channel_manager, with nothing to repair. *)
Boot ==
    /\ ~up /\ \A s \in Stores : stored[s] = stored[Primary]
    /\ up' = TRUE
    /\ monitor' = stored[Primary].monitors
    /\ acked' = IF stored[Primary].manager = None THEN {} ELSE stored[Primary].manager
    /\ UNCHANGED <<taskVars, processed, bgpVars, upserts, signals, stored>>

Upserts(writer) == \E s \in Stores : UpsertSucceeds(writer, s) \/ UpsertFails(writer, s)

Task == \/ Recv \/ Interrupted \/ Persisted \/ PersistFailure
        \/ ChainMonitorError
        \/ EventsProcessed \/ EventsProcessRecv \/ EventsProcessTimeout

Bgp == BgpProcess \/ BgpPersistGraph \/ BgpPersisted \/ BgpShutdown \/ BgpExits

Next ==
    \/ \E c \in Channels : update_persisted_channel(c)
    \/ Upserts("task") \/ Upserts("bgp")
    \/ Task \/ Bgp
    \/ SendShutdown \/ Crash \/ Repair \/ Boot

Spec == Init /\ [][Next]_vars

(* Fairness: requests end, since their retries are bounded; timers fire; a *)
(* task that can run does; and tokio::select polls its branches in random order, so that *)
(* one that stays ready, or is ready again and again, is chosen eventually.*)
Fairness ==
    /\ WF_vars(Upserts("task")) /\ WF_vars(Upserts("bgp"))
    /\ WF_vars(Task)
    /\ WF_vars(Bgp)
    /\ SF_vars(BgpProcess) /\ SF_vars(BgpShutdown)

FairSpec == Spec /\ Fairness

-----------------------------------------------------------------------------
(* Properties. *)

(* "Freezes the channel until persistence succeeds": an update that LDK was*)
(* told is persisted is in every store, or superseded there by a later     *)
(* version of the monitor, and stays so through later updates, partial     *)
(* failures, crashes and the repairs of the next boot.                     *)
AckedIsDurable ==
    \A u \in acked, s \in Stores : stored[s].monitors[u[1]] >= u[2]

(* What LDK needs of a boot: the persisted channel manager is never ahead  *)
(* of the persisted monitors, although the two are written by different    *)
(* tasks, to two stores each, and either write may half fail.              *)
ManagerNotAhead ==
    LET manager == stored[Primary].manager IN
    manager # None =>
        \A u \in manager : stored[Primary].monitors[u[1]] >= u[2]

(* "This prevent[s] [...] the newer channel monitor state [from being]     *)
(* overwritten by the older channel monitor state": what a boot would read *)
(* never goes back to an earlier version.                                  *)
NoMonitorRollsBack ==
    \A c \in Channels :
          stored'[Primary].monitors[c] >= stored[Primary].monitors[c]

(* The same of every step, those of the repairs at boot included.          *)
MonitorsNeverRollBack == [][NoMonitorRollsBack]_vars

(* No update is forgotten: unless the node goes down, every queued update  *)
(* is acknowledged, so that its channel does not stay frozen.              *)
UpdatesAreSettled ==
    \A u \in Update :
        (\E i \in 1..Len(queue) : queue[i] = u) ~> (u \in acked \/ shutdown \/ ~up)

(* A shutdown completes: the persister task and the BGP, each of which may *)
(* be waiting for the other or for a request, both come to an end.         *)
ShutdownCompletes ==
    shutdown ~> (~up \/ (task = "exited" /\ bgp = "exited"))
=============================================================================
