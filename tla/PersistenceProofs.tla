--------------------------- MODULE PersistenceProofs ---------------------------
(***************************************************************************)
(* Proofs about how a node makes its state durable.                        *)
(*   ChannelMonitorPersister: for every set of channels, number of updates *)
(*     and size of the queue, with and without a Google VFS.               *)
(*   Cred, an instance of GDriveCredentials: for any number of clients,    *)
(*     any times that satisfy the assumptions, and an unbounded clock.     *)
(***************************************************************************)
EXTENDS ChannelMonitorPersister, TLAPS

-----------------------------------------------------------------------------
(* ChannelMonitorPersister.                                                *)

(* The updates in U are in every store, or superseded there. *)
Durable(U) == \A u \in U : \A s \in Stores : stored[s].monitors[u[1]] >= u[2]

(* Whatever the channel manager, in memory, under way or stored, knows to  *)
(* be persisted is durable.                                                *)
ManagersAreDurable ==
    /\ Durable(acked)
    /\ snap # None => Durable(snap)
    /\ \A s \in Stores : stored[s].manager # None => Durable(stored[s].manager)

(* No store is ahead of memory; a queued update is ahead of no memory, and *)
(* behind no store and no update of its channel that is queued before it.  *)
QueueIsOrdered ==
    /\ up => \A c \in Channels : \A s \in Stores : stored[s].monitors[c] <= monitor[c]
    /\ \A i \in 1..Len(queue) :
          /\ queue[i][2] <= monitor[queue[i][1]]
          /\ \A s \in Stores : stored[s].monitors[queue[i][1]] <= queue[i][2]
    /\ \A i, j \in 1..Len(queue) :
          i < j /\ queue[i][1] = queue[j][1] => queue[i][2] <= queue[j][2]

(* The update that is being persisted is behind no store and ahead of no   *)
(* queued update; the stores that have been written hold it.               *)
JobIsOrdered ==
    task = "persisting" =>
        /\ job \in Update /\ job[2] <= monitor[job[1]]
        /\ \A s \in Stores : stored[s].monitors[job[1]] <= job[2]
        /\ \A i \in 1..Len(queue) : queue[i][1] = job[1] => job[2] <= queue[i][2]
        /\ upserts["task"].ok =>
              \A s \in Stores \ upserts["task"].left : stored[s].monitors[job[1]] = job[2]

(* Only the persisting task writes monitors, and a node that is down has   *)
(* neither tasks nor memory.                                               *)
WritersRun ==
    /\ upserts["task"].left # {} => task = "persisting"
    /\ ~up => acked = {} /\ queue = <<>> /\ task = "recv" /\ snap = None

MonInv == TypeOK /\ ManagersAreDurable /\ QueueIsOrdered /\ JobIsOrdered /\ WritersRun

-----------------------------------------------------------------------------
(* One monitor is written in one store; everything else stays as it is.    *)
Wrote(t, c, v) == stored' = [stored EXCEPT ![t].monitors[c] = v]

(* What that does to the contents of the stores.                           *)
LEMMA WriteMonitor ==
    ASSUME TypeOK, NEW t \in Stores, NEW c \in Channels, NEW v \in 0..MaxUpdateId,
           Wrote(t, c, v)
    PROVE  /\ stored' \in [Stores -> Contents]
           /\ \A s \in Stores : stored'[s].manager = stored[s].manager
           /\ \A s \in Stores, d \in Channels :
                stored'[s].monitors[d] = IF s = t /\ d = c THEN v ELSE stored[s].monitors[d]
<1> DEFINE M == [stored[t].monitors EXCEPT ![c] = v]
<1>1. /\ stored \in [Stores -> Contents]
      /\ \A s \in Stores : stored[s].monitors \in [Channels -> 0..MaxUpdateId]
      /\ \A s \in Stores : stored[s] = [monitors |-> stored[s].monitors, manager |-> stored[s].manager]
      /\ \A s \in Stores : stored[s].manager \in (SUBSET Update) \cup {None}
  BY Zenon DEF TypeOK, Contents
<1>2. stored' = [stored EXCEPT ![t] = [stored[t] EXCEPT !.monitors = M]]
  BY Zenon, <1>1 DEF Wrote
<1>3. M \in [Channels -> 0..MaxUpdateId] /\ \A d \in Channels : M[d] = IF d = c THEN v ELSE stored[t].monitors[d]
  BY Zenon, <1>1
<1> HIDE DEF M
<1>4. stored'[t] = [monitors |-> M, manager |-> stored[t].manager]
  BY <1>1, <1>2
<1>5. \A s \in Stores \ {t} : stored'[s] = stored[s]
  BY Zenon, <1>1, <1>2
<1>6. stored' \in [Stores -> Contents]
  BY <1>1, <1>2, <1>3, <1>4, <1>5 DEF Contents
<1>7. QED  BY <1>3, <1>4, <1>5, <1>6

(* A new version of a monitor is ahead of every store and of every update  *)
(* of its channel that is queued or being persisted, so that it may be     *)
(* queued behind them.                                                     *)
LEMMA StepUpdate ==
    ASSUME BoundsAreNat, GoogleVfsIsBool, MonInv, NEW c \in Channels,
           update_persisted_channel(c)
    PROVE  MonInv'
<1> USE DEF BoundsAreNat, vars, memory, taskVars, bgpVars, signals, update_persisted_channel
<1>1. TypeOK /\ ManagersAreDurable /\ QueueIsOrdered /\ JobIsOrdered /\ WritersRun
  BY Zenon DEF MonInv
<1> DEFINE u == <<c, monitor[c] + 1>>
<1>a. u \in Update /\ monitor[c] \in Nat /\ monitor' \in [Channels -> 0..MaxUpdateId]
      /\ \A d \in Channels : monitor[d] <= monitor'[d]
  BY SMTT(30), <1>1 DEF TypeOK, Update
<1>b. \/ /\ queue' = Append(queue, u) /\ Len(queue) < QueueSize
         /\ queue' \in Seq(Update) /\ Len(queue') = Len(queue) + 1
         /\ \A i \in 1..Len(queue) : queue'[i] = queue[i]
         /\ queue'[Len(queue) + 1] = u
      \/ queue' = queue
  <2>1. CASE Len(queue) < QueueSize /\ task # "exited"
    <3>1. queue' = Append(queue, u)
      BY Zenon, <2>1
    <3>2. QED  BY <1>1, <1>a, <2>1, <3>1 DEF TypeOK
  <2>2. CASE ~(Len(queue) < QueueSize /\ task # "exited")
    BY Zenon, <2>2
  <2>3. QED  BY Zenon, <2>1, <2>2
<1>c. \A i \in 1..Len(queue) : queue[i] \in Update /\ queue[i][1] \in Channels /\ queue[i][2] \in Nat
  BY SMTT(30), <1>1 DEF TypeOK, Update
<1>d. \A d \in Channels : \A s \in Stores : stored[s].monitors[d] \in Nat /\ monitor[d] \in Nat
  BY <1>1 DEF TypeOK, Contents
<1>e. u[1] = c /\ u[2] = monitor[c] + 1 /\ monitor'[c] = u[2] /\ stored' = stored
  BY Zenon, <1>1 DEF TypeOK
<1>f. \A s \in Stores : stored[s].monitors[c] <= monitor[c]
  BY Zenon, <1>1 DEF QueueIsOrdered
<1> HIDE DEF u
<1>2. TypeOK'
  <2>1. queue' \in Seq(Update) /\ Len(queue') <= QueueSize
    BY <1>1, <1>b DEF TypeOK
  <2>2. QED  BY ZenonT(30), <1>1, <1>a, <2>1 DEF TypeOK
<1>3. ManagersAreDurable'
  BY Zenon, <1>1 DEF TypeOK, Update, Contents, ManagersAreDurable, Durable
<1>4. QueueIsOrdered'
  <2>1. up' => \A d \in Channels : \A s \in Stores : stored'[s].monitors[d] <= monitor'[d]
    BY <1>1, <1>a, <1>d DEF QueueIsOrdered, TypeOK
  <2>3. ASSUME NEW i \in 1..Len(queue')
        PROVE  /\ queue'[i][2] <= monitor'[queue'[i][1]]
               /\ \A s \in Stores : stored'[s].monitors[queue'[i][1]] <= queue'[i][2]
    <3>1. CASE i \in 1..Len(queue) /\ queue'[i] = queue[i]
      BY <1>1, <1>a, <1>c, <1>d, <3>1 DEF QueueIsOrdered, TypeOK
    <3>2. CASE queue'[i] = u
      BY SMTT(30), <1>a, <1>d, <1>e, <1>f, <3>2
    <3>3. QED  BY <1>b, <3>1, <3>2
  <2>4. ASSUME NEW i \in 1..Len(queue'), NEW j \in 1..Len(queue'), i < j,
               queue'[i][1] = queue'[j][1]
        PROVE  queue'[i][2] <= queue'[j][2]
    <3>1. CASE j \in 1..Len(queue) /\ queue'[j] = queue[j] /\ queue'[i] = queue[i]
      BY <1>1, <2>4, <3>1 DEF QueueIsOrdered
    <3>2. CASE i \in 1..Len(queue) /\ queue'[i] = queue[i] /\ queue'[j] = u
      <4>1. queue[i][1] = c /\ queue[i][2] <= monitor[c]
        BY Zenon, <1>1, <1>e, <2>4, <3>2 DEF QueueIsOrdered
      <4>2. QED  BY <1>a, <1>c, <1>e, <3>2, <4>1
    <3>3. QED  BY SMTT(30), <1>1, <1>b, <2>4, <3>1, <3>2 DEF TypeOK
  <2>5. QED  BY Zenon, <2>1, <2>3, <2>4 DEF QueueIsOrdered
<1>5. JobIsOrdered'
  <2>1. SUFFICES ASSUME task = "persisting" PROVE JobIsOrdered'
    BY Zenon DEF JobIsOrdered
  <2>2. job' = job /\ job \in Update /\ job[1] \in Channels /\ job[2] \in Nat
    BY <1>1, <2>1 DEF JobIsOrdered, Update
  <2>3. job[2] <= monitor'[job[1]]
    BY <1>1, <1>a, <1>d, <2>1, <2>2 DEF JobIsOrdered, TypeOK
  <2>4. ASSUME NEW i \in 1..Len(queue'), queue'[i][1] = job[1] PROVE job[2] <= queue'[i][2]
    <3>1. CASE i \in 1..Len(queue) /\ queue'[i] = queue[i]
      BY Zenon, <1>1, <2>1, <2>4, <3>1 DEF JobIsOrdered
    <3>2. CASE queue'[i] = u
      <4>1. job[1] = c /\ job[2] <= monitor[c]
        BY Zenon, <1>1, <1>e, <2>1, <2>4, <3>2 DEF JobIsOrdered
      <4>2. QED  BY <1>a, <1>e, <2>2, <3>2, <4>1
    <3>3. QED  BY SMTT(30), <1>b, <2>4, <3>1, <3>2
  <2>5. QED  BY Zenon, <1>1, <2>1, <2>2, <2>3, <2>4 DEF JobIsOrdered
<1>6. WritersRun'
  BY Zenon, <1>1 DEF TypeOK, WritersRun, NoUpsert, NewUpsert
<1>7. QED  BY Zenon, <1>2, <1>3, <1>4, <1>5, <1>6 DEF MonInv

(* The update that the task takes from the queue was the first of its      *)
(* channel there.                                                          *)
LEMMA StepRecv ==
    ASSUME BoundsAreNat, GoogleVfsIsBool, MonInv, Recv
    PROVE  MonInv'
<1> USE DEF BoundsAreNat, vars, memory, taskVars, bgpVars, signals, Recv
<1>1. TypeOK /\ ManagersAreDurable /\ QueueIsOrdered /\ JobIsOrdered /\ WritersRun
  BY Zenon DEF MonInv
<1>a. /\ job' = queue[1] /\ job' \in Update /\ Len(queue) > 0 /\ Len(queue') = Len(queue) - 1
      /\ \A i \in 1..Len(queue') : i + 1 \in 1..Len(queue) /\ queue'[i] = queue[i + 1]
  BY <1>1 DEF TypeOK
<1>2. TypeOK'
  BY SMTT(30), <1>1 DEF TypeOK, Update, Contents, NoUpsert, NewUpsert
<1>3. ManagersAreDurable'
  BY Zenon, <1>1 DEF TypeOK, Update, Contents, ManagersAreDurable, Durable
<1>4. QueueIsOrdered'
  BY SMTT(30), <1>1 DEF TypeOK, Update, Contents, QueueIsOrdered, WritersRun
<1>5. JobIsOrdered'
  <2>1. upserts'["task"] = NewUpsert
    BY Zenon, <1>1 DEF TypeOK
  <2>2. job'[2] <= monitor'[job'[1]] /\ \A s \in Stores : stored'[s].monitors[job'[1]] <= job'[2]
    BY <1>1, <1>a DEF QueueIsOrdered
  <2>3. \A i \in 1..Len(queue') : queue'[i][1] = job'[1] => job'[2] <= queue'[i][2]
    BY <1>1, <1>a DEF QueueIsOrdered, TypeOK
  <2>4. QED  BY <1>a, <2>1, <2>2, <2>3 DEF JobIsOrdered, NewUpsert
<1>6. WritersRun'
  BY Zenon, <1>1 DEF TypeOK, WritersRun, NoUpsert, NewUpsert
<1>7. QED  BY Zenon, <1>2, <1>3, <1>4, <1>5, <1>6 DEF MonInv

(* The task gives up.                                                      *)
LEMMA StepExit ==
    ASSUME BoundsAreNat, GoogleVfsIsBool, MonInv, up, Exit
    PROVE  MonInv'
<1> USE DEF BoundsAreNat, vars, memory, taskVars, bgpVars, signals, Exit
<1>1. TypeOK /\ ManagersAreDurable /\ QueueIsOrdered /\ JobIsOrdered /\ WritersRun
  BY Zenon DEF MonInv
<1>2. TypeOK'
  BY Zenon, <1>1 DEF TypeOK, Update, Contents, NoUpsert, NewUpsert
<1>3. ManagersAreDurable'
  BY Zenon, <1>1 DEF TypeOK, Update, Contents, ManagersAreDurable, Durable
<1>4. QueueIsOrdered'
  BY Zenon, <1>1 DEF TypeOK, Update, Contents, QueueIsOrdered, WritersRun
<1>5. JobIsOrdered'
  BY Zenon, <1>1 DEF TypeOK, Update, Contents, JobIsOrdered, WritersRun, NoUpsert, NewUpsert
<1>6. WritersRun'
  BY Zenon, <1>1 DEF TypeOK, WritersRun, NoUpsert, NewUpsert
<1>7. QED  BY Zenon, <1>2, <1>3, <1>4, <1>5, <1>6 DEF MonInv

(* Every store has been written without an error when an update is         *)
(* acknowledged.                                                           *)
LEMMA StepPersisted ==
    ASSUME BoundsAreNat, GoogleVfsIsBool, MonInv, Persisted
    PROVE  MonInv'
<1> USE DEF BoundsAreNat, vars, memory, taskVars, bgpVars, signals, Persisted
<1>1. TypeOK /\ ManagersAreDurable /\ QueueIsOrdered /\ JobIsOrdered /\ WritersRun
  BY Zenon DEF MonInv
<1>a. job \in Update /\ \A s \in Stores : stored[s].monitors[job[1]] = job[2]
  BY <1>1 DEF JobIsOrdered, NoUpsert
<1>2. TypeOK'
  BY Zenon, <1>1, <1>a DEF TypeOK
<1>3. ManagersAreDurable'
  <2>1. \A s \in Stores : stored[s].monitors[job[1]] >= job[2]
    BY <1>a DEF Update
  <2>2. QED  BY Zenon, <1>1, <2>1 DEF ManagersAreDurable, Durable
<1>4. QueueIsOrdered'
  BY Zenon, <1>1 DEF TypeOK, Update, Contents, QueueIsOrdered, WritersRun
<1>5. JobIsOrdered'
  BY Zenon, <1>1 DEF TypeOK, Update, Contents, JobIsOrdered, WritersRun, NoUpsert, NewUpsert
<1>6. WritersRun'
  BY <1>1 DEF TypeOK, WritersRun, NoUpsert, NewUpsert
<1>7. QED  BY Zenon, <1>2, <1>3, <1>4, <1>5, <1>6 DEF MonInv

(* The task goes on with the next update.                                  *)
LEMMA StepEventsProcessed ==
    ASSUME BoundsAreNat, GoogleVfsIsBool, MonInv, EventsProcessed
    PROVE  MonInv'
<1> USE DEF BoundsAreNat, vars, memory, taskVars, bgpVars, signals, EventsProcessed
<1>1. TypeOK /\ ManagersAreDurable /\ QueueIsOrdered /\ JobIsOrdered /\ WritersRun
  BY Zenon DEF MonInv
<1>2. TypeOK'
  BY Zenon, <1>1 DEF TypeOK, Update, Contents, NoUpsert, NewUpsert
<1>3. ManagersAreDurable'
  BY Zenon, <1>1 DEF TypeOK, Update, Contents, ManagersAreDurable, Durable
<1>4. QueueIsOrdered'
  BY Zenon, <1>1 DEF TypeOK, Update, Contents, QueueIsOrdered, WritersRun
<1>5. JobIsOrdered'
  BY Zenon, <1>1 DEF TypeOK, Update, Contents, JobIsOrdered, WritersRun, NoUpsert, NewUpsert
<1>6. WritersRun'
  BY Zenon, <1>1 DEF TypeOK, WritersRun, NoUpsert, NewUpsert
<1>7. QED  BY Zenon, <1>2, <1>3, <1>4, <1>5, <1>6 DEF MonInv

(* The channel manager that the BGP persists is the one in memory.         *)
LEMMA StepBgpProcess ==
    ASSUME BoundsAreNat, GoogleVfsIsBool, MonInv, BgpProcess
    PROVE  MonInv'
<1> USE DEF BoundsAreNat, vars, memory, taskVars, bgpVars, signals, BgpProcess, StartPersist, Answer
<1>1. TypeOK /\ ManagersAreDurable /\ QueueIsOrdered /\ JobIsOrdered /\ WritersRun
  BY Zenon DEF MonInv
<1>2. TypeOK'
  <2> DEFINE Start == [upserts EXCEPT !["bgp"] = NewUpsert]
  <2>a. upserts' \in {upserts, Start}
    OBVIOUS
  <2>b. Start \in [{"task", "bgp"} -> [left : SUBSET Stores, ok : BOOLEAN]]
    BY Zenon, <1>1 DEF TypeOK, NewUpsert
  <2>1. upserts' \in [{"task", "bgp"} -> [left : SUBSET Stores, ok : BOOLEAN]]
    BY Zenon, <1>1, <2>a, <2>b DEF TypeOK
  <2>2. bgp' \in {"idle", "persisting", "graph", "final", "exited"} /\ snap' \in (SUBSET Update) \cup {None}
    BY Zenon, <1>1 DEF TypeOK
  <2>3. QED  BY Zenon, <1>1, <2>1, <2>2 DEF TypeOK
<1>3. ManagersAreDurable'
  BY Zenon, <1>1 DEF TypeOK, Update, Contents, ManagersAreDurable, Durable
<1>4. QueueIsOrdered'
  BY Zenon, <1>1 DEF TypeOK, Update, Contents, QueueIsOrdered, WritersRun
<1>5. JobIsOrdered'
  BY Zenon, <1>1 DEF TypeOK, Update, Contents, JobIsOrdered, WritersRun, NoUpsert, NewUpsert
<1>6. WritersRun'
  BY Zenon, <1>1 DEF TypeOK, WritersRun, NoUpsert, NewUpsert
<1>7. QED  BY Zenon, <1>2, <1>3, <1>4, <1>5, <1>6 DEF MonInv

(* The network graph has no part in this.                                  *)
LEMMA StepBgpPersistGraph ==
    ASSUME BoundsAreNat, GoogleVfsIsBool, MonInv, BgpPersistGraph
    PROVE  MonInv'
<1> USE DEF BoundsAreNat, vars, memory, taskVars, bgpVars, signals, BgpPersistGraph
<1>1. TypeOK /\ ManagersAreDurable /\ QueueIsOrdered /\ JobIsOrdered /\ WritersRun
  BY Zenon DEF MonInv
<1>2. TypeOK'
  BY <1>1 DEF TypeOK, Update, Contents, NoUpsert, NewUpsert
<1>3. ManagersAreDurable'
  BY Zenon, <1>1 DEF TypeOK, Update, Contents, ManagersAreDurable, Durable
<1>4. QueueIsOrdered'
  BY Zenon, <1>1 DEF TypeOK, Update, Contents, QueueIsOrdered, WritersRun
<1>5. JobIsOrdered'
  BY Zenon, <1>1 DEF TypeOK, Update, Contents, JobIsOrdered, WritersRun, NoUpsert, NewUpsert
<1>6. WritersRun'
  BY Zenon, <1>1 DEF TypeOK, WritersRun, NoUpsert, NewUpsert
<1>7. QED  BY Zenon, <1>2, <1>3, <1>4, <1>5, <1>6 DEF MonInv

(* Likewise after a failed persist.                                        *)
LEMMA StepBgpPersisted ==
    ASSUME BoundsAreNat, GoogleVfsIsBool, MonInv, BgpPersisted
    PROVE  MonInv'
<1> USE DEF BoundsAreNat, vars, memory, taskVars, bgpVars, signals, BgpPersisted, StartPersist
<1>1. TypeOK /\ ManagersAreDurable /\ QueueIsOrdered /\ JobIsOrdered /\ WritersRun
  BY Zenon DEF MonInv
<1>2. TypeOK'
  <2> DEFINE Start == [upserts EXCEPT !["bgp"] = NewUpsert]
  <2>a. upserts' \in {upserts, Start}
    OBVIOUS
  <2>b. Start \in [{"task", "bgp"} -> [left : SUBSET Stores, ok : BOOLEAN]]
    BY Zenon, <1>1 DEF TypeOK, NewUpsert
  <2>1. upserts' \in [{"task", "bgp"} -> [left : SUBSET Stores, ok : BOOLEAN]]
    BY Zenon, <1>1, <2>a, <2>b DEF TypeOK
  <2>2. bgp' \in {"idle", "persisting", "graph", "final", "exited"} /\ snap' \in (SUBSET Update) \cup {None}
    BY Zenon, <1>1 DEF TypeOK
  <2>3. QED  BY Zenon, <1>1, <2>1, <2>2 DEF TypeOK
<1>3. ManagersAreDurable'
  BY Zenon, <1>1 DEF TypeOK, Update, Contents, ManagersAreDurable, Durable
<1>4. QueueIsOrdered'
  BY Zenon, <1>1 DEF TypeOK, Update, Contents, QueueIsOrdered, WritersRun
<1>5. JobIsOrdered'
  BY Zenon, <1>1 DEF TypeOK, Update, Contents, JobIsOrdered, WritersRun, NoUpsert, NewUpsert
<1>6. WritersRun'
  BY Zenon, <1>1 DEF TypeOK, WritersRun, NoUpsert, NewUpsert
<1>7. QED  BY Zenon, <1>2, <1>3, <1>4, <1>5, <1>6 DEF MonInv

(* Likewise before the BGP exits.                                          *)
LEMMA StepBgpShutdown ==
    ASSUME BoundsAreNat, GoogleVfsIsBool, MonInv, BgpShutdown
    PROVE  MonInv'
<1> USE DEF BoundsAreNat, vars, memory, taskVars, bgpVars, signals, BgpShutdown, StartPersist
<1>1. TypeOK /\ ManagersAreDurable /\ QueueIsOrdered /\ JobIsOrdered /\ WritersRun
  BY Zenon DEF MonInv
<1>2. TypeOK'
  BY Zenon, <1>1 DEF TypeOK, Update, Contents, NoUpsert, NewUpsert
<1>3. ManagersAreDurable'
  BY Zenon, <1>1 DEF TypeOK, Update, Contents, ManagersAreDurable, Durable
<1>4. QueueIsOrdered'
  BY Zenon, <1>1 DEF TypeOK, Update, Contents, QueueIsOrdered, WritersRun
<1>5. JobIsOrdered'
  BY Zenon, <1>1 DEF TypeOK, Update, Contents, JobIsOrdered, WritersRun, NoUpsert, NewUpsert
<1>6. WritersRun'
  BY Zenon, <1>1 DEF TypeOK, WritersRun, NoUpsert, NewUpsert
<1>7. QED  BY Zenon, <1>2, <1>3, <1>4, <1>5, <1>6 DEF MonInv

(* The BGP leaves nothing behind.                                          *)
LEMMA StepBgpExits ==
    ASSUME BoundsAreNat, GoogleVfsIsBool, MonInv, BgpExits
    PROVE  MonInv'
<1> USE DEF BoundsAreNat, vars, memory, taskVars, bgpVars, signals, BgpExits, Answer
<1>1. TypeOK /\ ManagersAreDurable /\ QueueIsOrdered /\ JobIsOrdered /\ WritersRun
  BY Zenon DEF MonInv
<1>2. TypeOK'
  BY Zenon, <1>1 DEF TypeOK, Update, Contents, NoUpsert, NewUpsert
<1>3. ManagersAreDurable'
  BY Zenon, <1>1 DEF TypeOK, Update, Contents, ManagersAreDurable, Durable
<1>4. QueueIsOrdered'
  BY Zenon, <1>1 DEF TypeOK, Update, Contents, QueueIsOrdered, WritersRun
<1>5. JobIsOrdered'
  BY Zenon, <1>1 DEF TypeOK, Update, Contents, JobIsOrdered, WritersRun, NoUpsert, NewUpsert
<1>6. WritersRun'
  BY Zenon, <1>1 DEF TypeOK, WritersRun, NoUpsert, NewUpsert
<1>7. QED  BY Zenon, <1>2, <1>3, <1>4, <1>5, <1>6 DEF MonInv

(* A shutdown only sets flags.                                             *)
LEMMA StepSendShutdown ==
    ASSUME BoundsAreNat, GoogleVfsIsBool, MonInv, SendShutdown
    PROVE  MonInv'
<1> USE DEF BoundsAreNat, vars, memory, taskVars, bgpVars, signals, SendShutdown
<1>1. TypeOK /\ ManagersAreDurable /\ QueueIsOrdered /\ JobIsOrdered /\ WritersRun
  BY Zenon DEF MonInv
<1>2. TypeOK'
  BY Zenon, <1>1 DEF TypeOK, Update, Contents, NoUpsert, NewUpsert
<1>3. ManagersAreDurable'
  BY Zenon, <1>1 DEF TypeOK, Update, Contents, ManagersAreDurable, Durable
<1>4. QueueIsOrdered'
  BY Zenon, <1>1 DEF TypeOK, Update, Contents, QueueIsOrdered, WritersRun
<1>5. JobIsOrdered'
  BY Zenon, <1>1 DEF TypeOK, Update, Contents, JobIsOrdered, WritersRun, NoUpsert, NewUpsert
<1>6. WritersRun'
  BY Zenon, <1>1 DEF TypeOK, WritersRun, NoUpsert, NewUpsert
<1>7. QED  BY Zenon, <1>2, <1>3, <1>4, <1>5, <1>6 DEF MonInv

(* A crash leaves the stores alone.                                        *)
LEMMA StepCrash ==
    ASSUME BoundsAreNat, GoogleVfsIsBool, MonInv, Crash
    PROVE  MonInv'
<1> USE DEF BoundsAreNat, vars, memory, taskVars, bgpVars, signals, Crash
<1>1. TypeOK /\ ManagersAreDurable /\ QueueIsOrdered /\ JobIsOrdered /\ WritersRun
  BY Zenon DEF MonInv
<1>2. TypeOK'
  <2>1. upserts' \in [{"task", "bgp"} -> [left : SUBSET Stores, ok : BOOLEAN]]
    BY Zenon DEF NoUpsert
  <2>2. monitor' \in [Channels -> 0..MaxUpdateId] /\ acked' \subseteq Update
    OBVIOUS
  <2>3. queue' \in Seq(Update) /\ Len(queue') <= QueueSize
    OBVIOUS
  <2>4. QED  BY Zenon, <1>1, <2>1, <2>2, <2>3 DEF TypeOK
<1>3. ManagersAreDurable'
  BY Zenon, <1>1 DEF TypeOK, Update, Contents, ManagersAreDurable, Durable
<1>4. QueueIsOrdered'
  BY <1>1 DEF TypeOK, Update, Contents, QueueIsOrdered, WritersRun
<1>5. JobIsOrdered'
  BY Zenon, <1>1 DEF TypeOK, Update, Contents, JobIsOrdered, WritersRun, NoUpsert, NewUpsert
<1>6. WritersRun'
  BY Zenon, <1>1 DEF TypeOK, WritersRun, NoUpsert, NewUpsert
<1>7. QED  BY Zenon, <1>2, <1>3, <1>4, <1>5, <1>6 DEF MonInv

(* A boot starts from stores that agree.                                   *)
LEMMA StepBoot ==
    ASSUME BoundsAreNat, GoogleVfsIsBool, MonInv, Boot
    PROVE  MonInv'
<1> USE DEF BoundsAreNat, vars, memory, taskVars, bgpVars, signals, Boot
<1>1. TypeOK /\ ManagersAreDurable /\ QueueIsOrdered /\ JobIsOrdered /\ WritersRun
  BY Zenon DEF MonInv
<1>a. Primary \in Stores
  BY Zenon DEF Primary, Stores, GoogleVfsIsBool
<1>b. stored[Primary] \in Contents
  BY Zenon, <1>1, <1>a DEF TypeOK
<1>2. TypeOK'
  <2>1. monitor' \in [Channels -> 0..MaxUpdateId] /\ acked' \subseteq Update
    BY Zenon, <1>b DEF Contents
  <2>2. QED  BY <1>1, <2>1 DEF TypeOK
<1>3. ManagersAreDurable'
  BY Zenon, <1>1, <1>a DEF ManagersAreDurable, Durable
<1>4. QueueIsOrdered'
  <2>1. queue' = <<>>
    BY Zenon, <1>1 DEF WritersRun
  <2>2. \A c \in Channels : \A s \in Stores : stored'[s].monitors[c] <= monitor'[c]
    BY <1>b DEF Contents
  <2>3. QED  BY <2>1, <2>2 DEF QueueIsOrdered
<1>5. JobIsOrdered'
  BY Zenon, <1>1 DEF TypeOK, Update, Contents, JobIsOrdered, WritersRun, NoUpsert, NewUpsert
<1>6. WritersRun'
  BY Zenon, <1>1 DEF TypeOK, WritersRun, NoUpsert, NewUpsert
<1>7. QED  BY Zenon, <1>2, <1>3, <1>4, <1>5, <1>6 DEF MonInv

(* The repair of a boot: whichever channel manager is copied is durable.   *)
LEMMA StepFixManager ==
    ASSUME BoundsAreNat, GoogleVfsIsBool, MonInv, ~up, GoogleVfs, FixManager,
           UNCHANGED <<up, memory, taskVars, processed, bgpVars, upserts, signals>>
    PROVE  MonInv'
<1> USE DEF BoundsAreNat, vars, memory, taskVars, bgpVars, signals
<1>1. TypeOK /\ ManagersAreDurable /\ QueueIsOrdered /\ JobIsOrdered /\ WritersRun
  BY Zenon DEF MonInv
<1>a. PICK from \in Stores, to \in Stores :
         stored' = [stored EXCEPT ![to].manager = stored[from].manager]
  BY Zenon DEF FixManager, Stores
<1>b. /\ stored' \in [Stores -> Contents]
      /\ \A s \in Stores : stored'[s].monitors = stored[s].monitors
      /\ \A s \in Stores : stored'[s].manager \in {stored[s].manager, stored[from].manager}
  BY ZenonT(30), <1>1, <1>a DEF TypeOK, Contents
<1>2. TypeOK'
  BY <1>1, <1>b DEF TypeOK
<1>3. ManagersAreDurable'
  BY Zenon, <1>1, <1>b DEF ManagersAreDurable, Durable
<1>4. QueueIsOrdered'
  BY <1>1, <1>b DEF QueueIsOrdered, WritersRun
<1>5. JobIsOrdered'
  BY Zenon, <1>1 DEF JobIsOrdered, WritersRun
<1>6. WritersRun'
  BY Zenon, <1>1 DEF WritersRun
<1>7. QED  BY Zenon, <1>2, <1>3, <1>4, <1>5, <1>6 DEF MonInv

(* Likewise for a monitor: what a manager knows is durable in both stores, *)
(* so that either copy may replace the other.                              *)
LEMMA StepFixMonitor ==
    ASSUME BoundsAreNat, GoogleVfsIsBool, MonInv, ~up, GoogleVfs,
           NEW c \in Channels, FixMonitor(c),
           UNCHANGED <<up, memory, taskVars, processed, bgpVars, upserts, signals>>
    PROVE  MonInv'
<1> USE DEF BoundsAreNat, vars, memory, taskVars, bgpVars, signals
<1>1. TypeOK /\ ManagersAreDurable /\ QueueIsOrdered /\ JobIsOrdered /\ WritersRun
  BY Zenon DEF MonInv
<1>b. \A s \in Stores : stored[s] \in Contents /\ stored[s].monitors[c] \in 0..MaxUpdateId
  BY <1>1 DEF TypeOK, Contents
<1>a. PICK from \in Stores, to \in Stores, v \in 0..MaxUpdateId :
         v = stored[from].monitors[c] /\ Wrote(to, c, v)
  BY Zenon, <1>b DEF FixMonitor, Stores, Wrote
<1>d. /\ stored' \in [Stores -> Contents]
      /\ \A s \in Stores : stored'[s].manager = stored[s].manager
      /\ \A s \in Stores, d \in Channels :
            stored'[s].monitors[d] = IF s = to /\ d = c THEN v ELSE stored[s].monitors[d]
  BY <1>1, <1>a, WriteMonitor
<1>2. TypeOK'
  BY <1>1, <1>d DEF TypeOK
<1>3. ManagersAreDurable'
  <2>1. ASSUME NEW U \in SUBSET Update, Durable(U) PROVE Durable(U)'
    BY <1>a, <1>d, <2>1 DEF Durable, Update
  <2>2. \A s \in Stores : stored'[s].manager # None => Durable(stored[s].manager)'
    BY Zenon, <1>1, <1>b, <1>d, <2>1 DEF ManagersAreDurable, Contents
  <2>3. QED  BY Zenon, <1>1, <1>d, <2>1, <2>2 DEF ManagersAreDurable, WritersRun, Durable
<1>4. QueueIsOrdered'
  BY <1>1 DEF QueueIsOrdered, WritersRun
<1>5. JobIsOrdered'
  BY Zenon, <1>1 DEF JobIsOrdered, WritersRun
<1>6. WritersRun'
  BY Zenon, <1>1 DEF WritersRun
<1>7. QED  BY Zenon, <1>2, <1>3, <1>4, <1>5, <1>6 DEF MonInv

(* What an upsert of writer w to s does to the requests under way.         *)
Requests == [{"task", "bgp"} -> [left : SUBSET Stores, ok : BOOLEAN]]
Done(w, s, ok) ==
    /\ upserts' \in Requests
    /\ upserts'[w].left = upserts[w].left \ {s} /\ upserts'[w].ok = ok
    /\ \A x \in {"task", "bgp"} \ {w} : upserts'[x] = upserts[x]

(* The task writes its update, which is behind no store, to one of them.   *)
LEMMA StepTaskWrites ==
    ASSUME BoundsAreNat, GoogleVfsIsBool, MonInv, NEW s \in Stores,
           up, s \in upserts["task"].left, stored' = Written("task", s),
           NEW ok \in BOOLEAN, ok => upserts["task"].ok,
           Done("task", s, ok),
           UNCHANGED <<up, memory, taskVars, processed, bgpVars, signals>>
    PROVE  MonInv' /\ \A t \in Stores, d \in Channels :
                        stored'[t].monitors[d] >= stored[t].monitors[d]
<1> USE DEF BoundsAreNat, vars, memory, taskVars, bgpVars, signals
<1>1. TypeOK /\ ManagersAreDurable /\ QueueIsOrdered /\ JobIsOrdered /\ WritersRun
  BY Zenon DEF MonInv
<1>a. /\ task = "persisting" /\ job \in Update /\ job[1] \in Channels /\ job[2] \in 1..MaxUpdateId
      /\ Wrote(s, job[1], job[2])
  BY Zenon, <1>1 DEF WritersRun, JobIsOrdered, Update, Written, Wrote
<1>b. /\ stored' \in [Stores -> Contents]
      /\ \A t \in Stores : stored'[t].manager = stored[t].manager
      /\ \A t \in Stores, d \in Channels :
            stored'[t].monitors[d] = IF t = s /\ d = job[1] THEN job[2] ELSE stored[t].monitors[d]
  BY <1>1, <1>a, WriteMonitor
<1>c. \A t \in Stores, d \in Channels : stored[t].monitors[d] \in Nat /\ monitor[d] \in Nat
  BY <1>1 DEF TypeOK, Contents
<1>d. /\ upserts' \in [{"task", "bgp"} -> [left : SUBSET Stores, ok : BOOLEAN]]
      /\ upserts'["task"].left = upserts["task"].left \ {s}
      /\ upserts'["task"].ok = ok /\ upserts'["bgp"] = upserts["bgp"]
  BY Zenon DEF Done, Requests
<1>e. \A t \in Stores, d \in Channels :
         stored'[t].monitors[d] >= stored[t].monitors[d] /\ stored'[t].monitors[d] \in Nat
  BY <1>1, <1>a, <1>b, <1>c DEF JobIsOrdered
<1>f. \A i \in 1..Len(queue) : queue[i][1] \in Channels /\ queue[i][2] \in Nat
  BY SMTT(30), <1>1 DEF TypeOK, Update
<1>2. TypeOK'
  BY <1>1, <1>b, <1>d DEF TypeOK
<1>3. ManagersAreDurable'
  <2>1. ASSUME NEW U \in SUBSET Update, Durable(U) PROVE Durable(U)'
    <3>1. SUFFICES ASSUME NEW u \in U, NEW t \in Stores PROVE stored'[t].monitors[u[1]] >= u[2]
      BY Zenon DEF Durable
    <3>2. u[1] \in Channels /\ u[2] \in Nat /\ stored[t].monitors[u[1]] >= u[2]
      BY <2>1 DEF Durable, Update
    <3>3. QED  BY <1>c, <1>e, <3>2
  <2>2. \A t \in Stores : stored'[t].manager # None => Durable(stored[t].manager)'
    BY <1>1, <1>b, <2>1 DEF ManagersAreDurable, TypeOK, Contents
  <2>3. Durable(acked)' /\ (snap # None => Durable(snap)')
    BY Zenon, <1>1, <2>1 DEF ManagersAreDurable, TypeOK
  <2>4. QED  BY Zenon, <1>b, <2>2, <2>3 DEF ManagersAreDurable, Durable
<1>4. QueueIsOrdered'
  <2>1. \A d \in Channels : \A t \in Stores : stored'[t].monitors[d] <= monitor[d]
    BY <1>1, <1>a, <1>b, <1>c DEF QueueIsOrdered, JobIsOrdered
  <2>2. \A i \in 1..Len(queue) : \A t \in Stores : stored'[t].monitors[queue[i][1]] <= queue[i][2]
    BY SMTT(30), <1>1, <1>a, <1>b, <1>c, <1>f DEF QueueIsOrdered, JobIsOrdered
  <2>3. QED  BY Zenon, <1>1, <2>1, <2>2 DEF QueueIsOrdered
<1>5. JobIsOrdered'
  BY SMTT(30), <1>1, <1>a, <1>b, <1>c, <1>d DEF JobIsOrdered
<1>6. WritersRun'
  BY Zenon, <1>1, <1>a DEF WritersRun
<1>7. QED  BY Zenon, <1>2, <1>3, <1>4, <1>5, <1>6, <1>e DEF MonInv

(* The BGP writes a channel manager, of which all is durable.              *)
LEMMA StepBgpWrites ==
    ASSUME BoundsAreNat, GoogleVfsIsBool, MonInv, NEW s \in Stores,
           up, stored' = Written("bgp", s),
           NEW ok \in BOOLEAN,
           Done("bgp", s, ok),
           UNCHANGED <<up, memory, taskVars, processed, bgpVars, signals>>
    PROVE  MonInv' /\ \A t \in Stores : stored'[t].monitors = stored[t].monitors
<1> USE DEF BoundsAreNat, vars, memory, taskVars, bgpVars, signals
<1>1. TypeOK /\ ManagersAreDurable /\ QueueIsOrdered /\ JobIsOrdered /\ WritersRun
  BY Zenon DEF MonInv
<1>a. /\ stored' \in [Stores -> Contents]
      /\ \A t \in Stores : stored'[t].monitors = stored[t].monitors
      /\ \A t \in Stores : stored'[t].manager = IF t = s THEN snap ELSE stored[t].manager
  BY ZenonT(30), <1>1 DEF TypeOK, Contents, Written
<1>b. /\ upserts' \in [{"task", "bgp"} -> [left : SUBSET Stores, ok : BOOLEAN]]
      /\ upserts'["task"] = upserts["task"]
  BY Zenon DEF Done, Requests
<1>2. TypeOK'
  BY <1>1, <1>a, <1>b DEF TypeOK
<1>3. ManagersAreDurable'
  BY Zenon, <1>1, <1>a DEF ManagersAreDurable, Durable
<1>4. QueueIsOrdered'
  BY Zenon, <1>1, <1>a DEF QueueIsOrdered
<1>5. JobIsOrdered'
  BY Zenon, <1>1, <1>a, <1>b DEF JobIsOrdered
<1>6. WritersRun'
  BY Zenon, <1>1, <1>b DEF WritersRun
<1>7. QED  BY Zenon, <1>2, <1>3, <1>4, <1>5, <1>6, <1>a DEF MonInv

(* A failed upsert may leave its store as it was; only the flag changes.   *)
LEMMA StepWriteFails ==
    ASSUME BoundsAreNat, GoogleVfsIsBool, MonInv, NEW s \in Stores, NEW w \in {"task", "bgp"},
           up, s \in upserts[w].left, stored' = stored,
           Done(w, s, FALSE),
           UNCHANGED <<up, memory, taskVars, processed, bgpVars, signals>>
    PROVE  MonInv'
<1> USE DEF BoundsAreNat, vars, memory, taskVars, bgpVars, signals
<1>1. TypeOK /\ ManagersAreDurable /\ QueueIsOrdered /\ JobIsOrdered /\ WritersRun
  BY Zenon DEF MonInv
<1>b. /\ upserts' \in [{"task", "bgp"} -> [left : SUBSET Stores, ok : BOOLEAN]]
      /\ \/ upserts'["task"] = upserts["task"]
         \/ ~upserts'["task"].ok /\ upserts["task"].left # {}
            /\ upserts'["task"].left \subseteq upserts["task"].left
  BY Zenon DEF Done, Requests
<1>2. TypeOK'
  BY <1>1, <1>b DEF TypeOK
<1>3. ManagersAreDurable'
  BY Zenon, <1>1 DEF ManagersAreDurable, Durable
<1>4. QueueIsOrdered'
  BY Zenon, <1>1 DEF QueueIsOrdered
<1>5. JobIsOrdered'
  BY Zenon, <1>1, <1>b DEF JobIsOrdered
<1>6. WritersRun'
  BY Zenon, <1>1, <1>b DEF WritersRun
<1>7. QED  BY Zenon, <1>2, <1>3, <1>4, <1>5, <1>6 DEF MonInv

-----------------------------------------------------------------------------
(* The invariant holds at first, when nothing is stored.                   *)
LEMMA InitMon ==
    ASSUME BoundsAreNat, GoogleVfsIsBool, Init
    PROVE  MonInv
<1>1. TypeOK
  <2>1. upserts \in [{"task", "bgp"} -> [left : SUBSET Stores, ok : BOOLEAN]]
    BY Zenon DEF Init, NoUpsert
  <2>2. stored \in [Stores -> Contents]
    BY DEF Init, Contents, BoundsAreNat
  <2>3. monitor \in [Channels -> 0..MaxUpdateId] /\ queue \in Seq(Update) /\ Len(queue) <= QueueSize
    BY DEF Init, BoundsAreNat
  <2>4. QED  BY Zenon, <2>1, <2>2, <2>3 DEF Init, TypeOK
<1>2. ManagersAreDurable /\ QueueIsOrdered /\ JobIsOrdered /\ WritersRun
  BY DEF Init, ManagersAreDurable, Durable, QueueIsOrdered, JobIsOrdered, WritersRun, NoUpsert
<1>3. QED  BY Zenon, <1>1, <1>2 DEF MonInv

(* An upsert is the write of one of the two writers, or a failure.         *)
LEMMA StepUpserts ==
    ASSUME BoundsAreNat, GoogleVfsIsBool, MonInv, NEW w \in {"task", "bgp"}, Upserts(w)
    PROVE  MonInv' /\ \A t \in Stores, d \in Channels :
                        stored'[t].monitors[d] >= stored[t].monitors[d]
<1>1. PICK s \in Stores : UpsertSucceeds(w, s) \/ UpsertFails(w, s)
  BY Zenon DEF Upserts
<1>2. /\ upserts \in Requests /\ upserts[w] \in [left : SUBSET Stores, ok : BOOLEAN]
      /\ \A t \in Stores, d \in Channels : stored[t].monitors[d] \in Nat
  BY DEF MonInv, TypeOK, Contents, Requests, BoundsAreNat
<1>3. PICK ok \in BOOLEAN :
         /\ Done(w, s, ok) /\ (ok => upserts[w].ok)
         /\ stored' = Written(w, s) \/ (stored' = stored /\ ok = FALSE)
  <2>1. CASE UpsertSucceeds(w, s)
    <3>1. Done(w, s, upserts[w].ok)
      BY Zenon, <1>2, <2>1 DEF UpsertSucceeds, Done, Requests
    <3>2. upserts[w].ok \in BOOLEAN
      BY Zenon, <1>2
    <3>3. stored' = Written(w, s)
      BY Zenon, <2>1 DEF UpsertSucceeds
    <3>4. QED  BY Zenon, <3>1, <3>2, <3>3
  <2>2. CASE UpsertFails(w, s)
    <3>1. Done(w, s, FALSE)
      BY Zenon, <1>2, <2>2 DEF UpsertFails, Done, Requests
    <3>2. QED  BY Zenon, <2>2, <3>1 DEF UpsertFails
  <2>3. QED  BY Zenon, <1>1, <2>1, <2>2
<1>4. /\ up /\ s \in upserts[w].left
      /\ UNCHANGED <<up, memory, taskVars, processed, bgpVars, signals>>
  BY Zenon, <1>1 DEF UpsertSucceeds, UpsertFails
<1>5. CASE stored' = stored /\ ok = FALSE
  <2>1. Done(w, s, FALSE)
    BY Zenon, <1>3, <1>5
  <2>2. MonInv'
    BY Zenon, <1>4, <1>5, <2>1, StepWriteFails
  <2>3. QED  BY <1>2, <1>5, <2>2
<1>6. CASE stored' = Written(w, s) /\ w = "task"
  BY Zenon, <1>3, <1>4, <1>6, StepTaskWrites
<1>7. CASE stored' = Written(w, s) /\ w = "bgp"
  <2>1. MonInv' /\ \A t \in Stores : stored'[t].monitors = stored[t].monitors
    BY Zenon, <1>3, <1>4, <1>7, StepBgpWrites
  <2>2. QED  BY <1>2, <2>1
<1>8. QED  BY Zenon, <1>3, <1>5, <1>6, <1>7

(* Every step preserves the invariant.                                     *)
LEMMA StepMon ==
    ASSUME BoundsAreNat, GoogleVfsIsBool, MonInv, [Next]_vars
    PROVE  MonInv'
<1>1. CASE UNCHANGED vars
  BY <1>1 DEF MonInv, TypeOK, ManagersAreDurable, Durable, QueueIsOrdered, JobIsOrdered,
              WritersRun, vars, memory, taskVars, bgpVars, signals
<1>2. CASE \E c \in Channels : update_persisted_channel(c)
  BY Zenon, <1>2, StepUpdate
<1>3. CASE Upserts("task") \/ Upserts("bgp")
  BY Zenon, <1>3, StepUpserts
<1>4. CASE Task
  <2>1. CASE Recv
    BY Zenon, <2>1, StepRecv
  <2>2. CASE Persisted
    BY Zenon, <2>2, StepPersisted
  <2>3. CASE EventsProcessed
    BY Zenon, <2>3, StepEventsProcessed
  <2>4. CASE up /\ Exit
    BY Zenon, <2>4, StepExit
  <2>5. QED
    BY Zenon, <1>4, <2>1, <2>2, <2>3, <2>4
       DEF Task, Interrupted, PersistFailure, ChainMonitorError, EventsProcessRecv,
           EventsProcessTimeout
<1>5. CASE Bgp
  BY Zenon, <1>5, StepBgpProcess, StepBgpPersistGraph, StepBgpPersisted, StepBgpShutdown, StepBgpExits
     DEF Bgp
<1>6. CASE SendShutdown \/ Crash \/ Boot
  BY Zenon, <1>6, StepSendShutdown, StepCrash, StepBoot
<1>7. CASE Repair
  <2>1. ~up /\ GoogleVfs /\ UNCHANGED <<up, memory, taskVars, processed, bgpVars, upserts, signals>>
    BY Zenon, <1>7 DEF Repair
  <2>2. CASE FixManager
    BY Zenon, <2>1, <2>2, StepFixManager
  <2>3. CASE \E c \in Channels : FixMonitor(c)
    BY Zenon, <2>1, <2>3, StepFixMonitor
  <2>4. QED  BY Zenon, <1>7, <2>2, <2>3 DEF Repair
<1>8. QED  BY Zenon, <1>1, <1>2, <1>3, <1>4, <1>5, <1>6, <1>7 DEF Next

(* The invariant of the persister holds in every reachable state.          *)
THEOREM MonitorInvariance ==
    ASSUME BoundsAreNat, GoogleVfsIsBool
    PROVE  Spec => []MonInv
<1>1. Init => MonInv
  BY Zenon, InitMon
<1>2. MonInv /\ [Next]_vars => MonInv'
  BY Zenon, StepMon
<1>3. QED  BY <1>1, <1>2, PTL DEF Spec

(* What LDK was told is persisted stays so, in every store, through partial*)
(* failures, crashes and the repairs of the next boot: the acknowledgement *)
(* comes after both upserts (channel_monitor.rs), and stores never go back *)
(* while the node is up.                                                   *)
THEOREM AcksAreDurable ==
    ASSUME BoundsAreNat, GoogleVfsIsBool
    PROVE  Spec => []AckedIsDurable
<1>1. MonInv => AckedIsDurable
  BY Zenon DEF MonInv, ManagersAreDurable, Durable, AckedIsDurable
<1>2. QED  BY <1>1, MonitorInvariance, PTL

(* A boot never reads a channel manager that is ahead of the monitors.     *)
THEOREM ManagerIsNotAhead ==
    ASSUME BoundsAreNat, GoogleVfsIsBool
    PROVE  Spec => []ManagerNotAhead
<1>1. Primary \in Stores
  BY Zenon DEF Primary, Stores, GoogleVfsIsBool
<1>2. MonInv => ManagerNotAhead
  BY Zenon, <1>1 DEF MonInv, ManagersAreDurable, Durable, ManagerNotAhead
<1>3. QED  BY <1>2, MonitorInvariance, PTL

(* What a boot reads of a monitor never goes back to an earlier version:   *)
(* not by a late update, and not by a repair, in which Google's copy wins. *)
THEOREM MonitorsDoNotRollBack ==
    ASSUME BoundsAreNat, GoogleVfsIsBool
    PROVE  Spec => MonitorsNeverRollBack
<1>1. ASSUME MonInv, [Next]_vars PROVE [NoMonitorRollsBack]_vars
  <2>1. Primary \in Stores /\ (GoogleVfs => Primary = "Google" /\ Stores = {"Lexe", "Google"})
    BY Zenon, <1>1 DEF Primary, Stores, GoogleVfsIsBool
  <2>2. \A s \in Stores : stored[s].monitors \in [Channels -> 0..MaxUpdateId]
    BY Zenon, <1>1 DEF MonInv, TypeOK, Contents
  <2>3. CASE stored' = stored
    <3>1. \A n \in 0..MaxUpdateId : n >= n
      BY DEF BoundsAreNat
    <3>2. \A c \in Channels : stored[Primary].monitors[c] \in 0..MaxUpdateId
      BY Zenon, <2>1, <2>2
    <3>3. \A c \in Channels : stored[Primary].monitors[c] >= stored[Primary].monitors[c]
      BY Zenon, <3>1, <3>2
    <3>4. NoMonitorRollsBack
      BY Zenon, <2>3, <3>3 DEF NoMonitorRollsBack
    <3>5. QED  BY Zenon, <3>4
  <2>4. CASE Upserts("task") \/ Upserts("bgp")
    BY Zenon, <1>1, <2>1, <2>4, StepUpserts DEF NoMonitorRollsBack
  <2>5. CASE Repair
    <3>1. CASE FixManager
      BY <1>1, <2>1, <2>2, <2>5, <3>1 DEF Repair, FixManager, MonInv, TypeOK, Contents, NoMonitorRollsBack, BoundsAreNat
    <3>2. CASE \E c \in Channels : FixMonitor(c)
      <4>1. PICK c \in Channels : FixMonitor(c)
        BY Zenon, <3>2
      <4>2. CASE stored["Google"].monitors[c] # 0
        BY <1>1, <2>1, <2>2, <2>5, <4>1, <4>2, WriteMonitor
           DEF Repair, FixMonitor, Wrote, MonInv, NoMonitorRollsBack, BoundsAreNat
      <4>3. CASE stored["Google"].monitors[c] = 0
        BY <1>1, <2>1, <2>2, <2>5, <4>1, <4>3, WriteMonitor
           DEF Repair, FixMonitor, Wrote, MonInv, NoMonitorRollsBack, BoundsAreNat
      <4>4. QED  BY Zenon, <4>2, <4>3
    <3>3. QED  BY Zenon, <2>5, <3>1, <3>2 DEF Repair
  <2>6. QED
    BY Zenon, <1>1, <2>3, <2>4, <2>5
       DEF Next, vars, Task, Bgp, update_persisted_channel, Recv, Exit, Interrupted, Persisted,
           PersistFailure, ChainMonitorError, EventsProcessed, EventsProcessRecv,
           EventsProcessTimeout, BgpProcess, BgpPersistGraph, BgpPersisted, BgpShutdown, BgpExits,
           SendShutdown, Crash, Boot
<1>2. QED  BY <1>1, MonitorInvariance, PTL DEF Spec, MonitorsNeverRollBack

-----------------------------------------------------------------------------
(* GDriveCredentials.                                                      *)

CONSTANTS Clients, Lifetime, MinLifetime, Timeout, MaxTime, MaxFaults

VARIABLES now, expiry, code, stored_cred, cred, holder, req, chan, task_cred, faults

Cred == INSTANCE GDriveCredentials WITH stored <- stored_cred, task <- task_cred

Waiting == {"refresh", "issued"}

(* The types of TypeOK without its bounds. *)
Types ==
    /\ now \in Nat /\ expiry \in Seq(Nat)
    /\ code \in [pc : {"none", "sent", "issued", "done"}, at : Nat]
    /\ stored_cred \in Cred!Credentials \cup {None} /\ cred \in Cred!Credentials \cup {None}
    /\ task_cred \in Cred!Credentials \cup {None}
    /\ chan \in [seen : BOOLEAN, value : Cred!Credentials \cup {None}]
    /\ holder \in Clients \cup {None}
    /\ req \in [Clients -> [pc : {"idle", "lock", "refresh", "issued", "send"},
                            at : Nat, token : Nat]]

(* Credentials hold a token of Google and outlive it by no more than the   *)
(* time that the exchange of the auth code may take.                       *)
Genuine(x) ==
    x # None => /\ x.token \in 1..Len(expiry)
                /\ x.expires_at <= expiry[x.token] + Timeout

AllGenuine == Genuine(stored_cred) /\ Genuine(cred) /\ Genuine(task_cred) /\ Genuine(chan.value)

(* There are no credentials before the exchange, so that the token that it *)
(* is granted is the last one when the reply arrives.                      *)
Exchange ==
    /\ code.pc # "done" => stored_cred = None /\ cred = None /\ task_cred = None /\ chan.seen
    /\ code.pc \in {"sent", "issued"} => code.at <= now /\ now <= code.at + Timeout
    /\ code.pc = "issued" => Len(expiry) > 0 /\ expiry[Len(expiry)] >= code.at + Lifetime

(* A refresh holds the mutex and is of stale credentials; the token of a   *)
(* request outlives the request's timeout.                                 *)
RequestAt(c) ==
    /\ req[c].pc # "idle" => cred # None
    /\ req[c].pc \in Waiting <=> holder = c
    /\ req[c].pc \in Waiting \cup {"send"} =>
          req[c].at <= now /\ now <= req[c].at + Timeout
    /\ req[c].pc \in Waiting => cred.expires_at <= req[c].at + MinLifetime
    /\ req[c].pc = "issued" =>
          req[c].token \in 1..Len(expiry) /\ expiry[req[c].token] >= req[c].at + Lifetime
    /\ req[c].pc = "send" =>
          req[c].token \in 1..Len(expiry) /\ expiry[req[c].token] > req[c].at + Timeout

CredInv == Types /\ AllGenuine /\ Exchange /\ \A c \in Clients : RequestAt(c)

Times == Cred!TimesAssumption /\ Cred!TimeoutIsShort /\ Cred!NoneIsNoValue

-----------------------------------------------------------------------------
(* A token that Google issues leaves the earlier ones as they are.         *)
LEMMA Issue ==
    ASSUME Types, NEW t \in Nat, expiry' = Append(expiry, t)
    PROVE  /\ expiry' \in Seq(Nat) /\ Len(expiry) \in Nat /\ Len(expiry') = Len(expiry) + 1
           /\ \A i \in 1..Len(expiry) : expiry[i] \in Nat /\ expiry'[i] = expiry[i]
           /\ expiry'[Len(expiry) + 1] = t
BY SMTT(30) DEF Types

(* Each expiry is a time. *)
LEMMA ExpiryIsNat ==
    ASSUME Types
    PROVE  Len(expiry) \in Nat /\ \A i \in 1..Len(expiry) : expiry[i] \in Nat
BY DEF Types

Req == [pc : {"idle", "lock", "refresh", "issued", "send"}, at : Nat, token : Nat]

(* The requests after an assignment to one of them. *)
LEMMA SetRequest ==
    ASSUME NEW r \in [Clients -> Req], NEW s, NEW c \in Clients, NEW e \in Req,
           s = [r EXCEPT ![c] = e]
    PROVE  s \in [Clients -> Req] /\ s[c] = e /\ \A d \in Clients : d # c => s[d] = r[d]
OBVIOUS

WithPcAndAt(c, p, n) == [req EXCEPT ![c].pc = p, ![c].at = n]
WithPcAndToken(c, p, n) == [req EXCEPT ![c].pc = p, ![c].token = n]

(* The requests after an assignment to two fields of one of them. *)
LEMMA SetPcAndAt ==
    ASSUME req \in [Clients -> Req], NEW c \in Clients,
           NEW p \in {"idle", "lock", "refresh", "issued", "send"}, NEW n \in Nat,
           req' = WithPcAndAt(c, p, n)
    PROVE  /\ req' \in [Clients -> Req] /\ req'[c].pc = p /\ req'[c].at = n
           /\ req'[c].token = req[c].token /\ \A d \in Clients : d # c => req'[d] = req[d]
<1>1. req[c] \in Req
  OBVIOUS
<1>2. [req[c] EXCEPT !.pc = p] = [pc |-> p, at |-> req[c].at, token |-> req[c].token]
  BY <1>1 DEF Req
<1>3. [[pc |-> p, at |-> req[c].at, token |-> req[c].token] EXCEPT !.at = n] = [pc |-> p, at |-> n, token |-> req[c].token]
  OBVIOUS
<1>4. [[req[c] EXCEPT !.pc = p] EXCEPT !.at = n] = [pc |-> p, at |-> n, token |-> req[c].token]
  BY Zenon, <1>2, <1>3
<1>5. req' = [req EXCEPT ![c] = [pc |-> p, at |-> n, token |-> req[c].token]]
  BY Zenon, <1>1, <1>4 DEF WithPcAndAt
<1>6. [pc |-> p, at |-> n, token |-> req[c].token] \in Req
  BY Zenon, <1>1 DEF Req
<1>7. /\ req' \in [Clients -> Req] /\ req'[c] = [pc |-> p, at |-> n, token |-> req[c].token]
      /\ \A d \in Clients : d # c => req'[d] = req[d]
  BY <1>5, <1>6, SetRequest
<1>8. QED  BY <1>7

(* The requests after an assignment to two fields of one of them. *)
LEMMA SetPcAndToken ==
    ASSUME req \in [Clients -> Req], NEW c \in Clients,
           NEW p \in {"idle", "lock", "refresh", "issued", "send"}, NEW n \in Nat,
           req' = WithPcAndToken(c, p, n)
    PROVE  /\ req' \in [Clients -> Req] /\ req'[c].pc = p /\ req'[c].token = n
           /\ req'[c].at = req[c].at /\ \A d \in Clients : d # c => req'[d] = req[d]
<1>1. req[c] \in Req
  OBVIOUS
<1>2. [req[c] EXCEPT !.pc = p] = [pc |-> p, at |-> req[c].at, token |-> req[c].token]
  BY <1>1 DEF Req
<1>3. [[pc |-> p, at |-> req[c].at, token |-> req[c].token] EXCEPT !.token = n] = [pc |-> p, at |-> req[c].at, token |-> n]
  OBVIOUS
<1>4. [[req[c] EXCEPT !.pc = p] EXCEPT !.token = n] = [pc |-> p, at |-> req[c].at, token |-> n]
  BY Zenon, <1>2, <1>3
<1>5. req' = [req EXCEPT ![c] = [pc |-> p, at |-> req[c].at, token |-> n]]
  BY Zenon, <1>1, <1>4 DEF WithPcAndToken
<1>6. [pc |-> p, at |-> req[c].at, token |-> n] \in Req
  BY Zenon, <1>1 DEF Req
<1>7. /\ req' \in [Clients -> Req] /\ req'[c] = [pc |-> p, at |-> req[c].at, token |-> n]
      /\ \A d \in Clients : d # c => req'[d] = req[d]
  BY <1>5, <1>6, SetRequest
<1>8. QED  BY <1>7

(* Time passes while all deadlines are ahead. *)
LEMMA StepTick ==
    ASSUME Times, CredInv, Cred!Tick
    PROVE  CredInv'
<1>1. Types /\ AllGenuine /\ Exchange /\ \A c \in Clients : RequestAt(c)
  BY Zenon DEF CredInv
<1>2. Types'
  BY <1>1 DEF Types, Cred!Tick, Times, Cred!TimesAssumption
<1>3. AllGenuine'
  BY Zenon, <1>1 DEF AllGenuine, Genuine, Cred!Tick
<1>4. Exchange'
  BY <1>1 DEF Types, Exchange, Cred!Tick, Times, Cred!TimesAssumption
<1>5. ASSUME NEW c \in Clients PROVE RequestAt(c)'
  <2>1. RequestAt(c) /\ req[c].at \in Nat
    BY Zenon, <1>1 DEF Types
  <2>2. QED  BY SMTT(30), <1>1, <2>1 DEF Types, RequestAt, Waiting, Cred!Tick, Times, Cred!TimesAssumption
<1>6. QED  BY Zenon, <1>2, <1>3, <1>4, <1>5 DEF CredInv

(* The exchange starts. *)
LEMMA StepSendAuthCode ==
    ASSUME Times, CredInv, Cred!SendAuthCode
    PROVE  CredInv'
<1>1. Types /\ AllGenuine /\ Exchange /\ \A c \in Clients : RequestAt(c)
  BY Zenon DEF CredInv
<1>2. Types'
  BY Zenon, <1>1 DEF Types, Cred!SendAuthCode
<1>3. AllGenuine'
  BY Zenon, <1>1 DEF AllGenuine, Genuine, Cred!SendAuthCode
<1>4. Exchange'
  BY <1>1 DEF Types, Exchange, Cred!SendAuthCode, Times, Cred!TimesAssumption
<1>5. ASSUME NEW c \in Clients PROVE RequestAt(c)'
  BY Zenon, <1>1 DEF RequestAt, Cred!SendAuthCode
<1>6. QED  BY Zenon, <1>2, <1>3, <1>4, <1>5 DEF CredInv

(* Google grants a token, before there are any credentials. *)
LEMMA StepGoogleGrants ==
    ASSUME Times, CredInv, Cred!GoogleGrants
    PROVE  CredInv'
<1>1. Types /\ AllGenuine /\ Exchange /\ \A c \in Clients : RequestAt(c)
  BY Zenon DEF CredInv
<1>2. now + Lifetime \in Nat /\ code.at \in Nat
  BY <1>1 DEF Types, Times, Cred!TimesAssumption
<1>a. expiry' = Append(expiry, now + Lifetime)
  BY Zenon DEF Cred!GoogleGrants
<1>3. /\ expiry' \in Seq(Nat) /\ Len(expiry) \in Nat /\ Len(expiry') = Len(expiry) + 1
      /\ \A i \in 1..Len(expiry) : expiry[i] \in Nat /\ expiry'[i] = expiry[i]
      /\ expiry'[Len(expiry) + 1] = now + Lifetime
  BY Zenon, <1>1, <1>2, <1>a, Issue
<1>4. Types'
  BY Zenon, <1>1, <1>3 DEF Types, Cred!GoogleGrants
<1>b. \A i \in 1..Len(expiry) : i \in 1..Len(expiry')
  BY <1>3
<1>c. UNCHANGED <<stored_cred, cred, task_cred, chan>>
  BY Zenon DEF Cred!GoogleGrants
<1>5. AllGenuine'
  BY Zenon, <1>1, <1>3, <1>b, <1>c DEF AllGenuine, Genuine
<1>6. Exchange'
  BY SMTT(30), <1>1, <1>2, <1>3 DEF Types, Exchange, Cred!GoogleGrants, Times, Cred!TimesAssumption
<1>7. ASSUME NEW c \in Clients PROVE RequestAt(c)'
  <2>1. RequestAt(c)
    BY Zenon, <1>1
  <2>2. QED  BY <1>3, <2>1 DEF RequestAt, Waiting, Cred!GoogleGrants
<1>8. QED  BY Zenon, <1>4, <1>5, <1>6, <1>7 DEF CredInv

(* The reply to the exchange: expires_at is too late by less than Timeout. *)
LEMMA StepAuthCodeForToken ==
    ASSUME Times, CredInv, Cred!auth_code_for_token
    PROVE  CredInv'
<1>1. Types /\ AllGenuine /\ Exchange /\ \A c \in Clients : RequestAt(c)
  BY Zenon DEF CredInv
<1>2. Len(expiry) \in Nat /\ \A i \in 1..Len(expiry) : expiry[i] \in Nat
  BY Zenon, <1>1, ExpiryIsNat
<1>3. /\ Len(expiry) \in 1..Len(expiry) /\ code.at \in Nat
      /\ now + Lifetime <= expiry[Len(expiry)] + Timeout
  BY SMTT(30), <1>1, <1>2 DEF Types, Exchange, Cred!auth_code_for_token, Times, Cred!TimesAssumption
<1>4. Types'
  BY <1>1, <1>2 DEF Types, Cred!Credentials, Cred!auth_code_for_token, Times, Cred!TimesAssumption
<1>5. AllGenuine'
  BY Zenon, <1>1, <1>3 DEF AllGenuine, Genuine, Cred!auth_code_for_token
<1>6. Exchange'
  BY Zenon DEF Exchange, Cred!auth_code_for_token
<1>7. ASSUME NEW c \in Clients PROVE RequestAt(c)'
  BY Zenon, <1>1 DEF RequestAt, Cred!auth_code_for_token
<1>8. QED  BY Zenon, <1>4, <1>5, <1>6, <1>7 DEF CredInv

(* A node that starts has no request under way. *)
LEMMA CredBoot ==
    ASSUME Times, CredInv, Cred!Boot
    PROVE  CredInv'
<1>1. Types /\ AllGenuine /\ Exchange /\ \A c \in Clients : RequestAt(c)
  BY Zenon DEF CredInv
<1>2. Types'
  BY Zenon, <1>1 DEF Types, Cred!Boot
<1>3. AllGenuine'
  BY Zenon, <1>1 DEF AllGenuine, Genuine, Cred!Boot
<1>4. Exchange'
  BY Zenon, <1>1 DEF Exchange, Cred!Boot
<1>5. ASSUME NEW c \in Clients PROVE RequestAt(c)'
  <2>1. RequestAt(c)
    BY Zenon, <1>1
  <2>2. QED  BY Zenon, <2>1 DEF RequestAt, Waiting, Cred!Boot
<1>6. QED  BY Zenon, <1>2, <1>3, <1>4, <1>5 DEF CredInv

(* A client waits for the mutex. *)
LEMMA StepCall ==
    ASSUME Times, CredInv, NEW c \in Clients, Cred!Call(c)
    PROVE  CredInv'
<1>1. Types /\ AllGenuine /\ Exchange /\ \A d \in Clients : RequestAt(d)
  BY Zenon DEF CredInv
<1>2. /\ req'[c].pc = "lock" /\ \A d \in Clients : d # c => req'[d] = req[d]
      /\ req' \in [Clients -> [pc : {"idle", "lock", "refresh", "issued", "send"},
                               at : Nat, token : Nat]]
  BY ZenonT(30), <1>1 DEF Types, Cred!Call
<1>3. Types'
  BY Zenon, <1>1, <1>2 DEF Types, Cred!Call
<1>4. AllGenuine' /\ Exchange'
  BY Zenon, <1>1 DEF AllGenuine, Genuine, Exchange, Cred!Call
<1>5. ASSUME NEW d \in Clients PROVE RequestAt(d)'
  <2>1. RequestAt(d)
    BY Zenon, <1>1
  <2>2. CASE d = c
    BY Zenon, <1>2, <2>1, <2>2 DEF RequestAt, Waiting, Cred!Call
  <2>3. CASE d # c
    BY Zenon, <1>2, <2>1, <2>3 DEF RequestAt, Waiting, Cred!Call
  <2>4. QED  BY Zenon, <2>2, <2>3
<1>6. QED  BY Zenon, <1>3, <1>4, <1>5 DEF CredInv

(* A fresh token outlives the request by MinLifetime - Timeout; a stale    *)
(* one is refreshed under the mutex.                                       *)
LEMMA StepLock ==
    ASSUME Times, CredInv, NEW c \in Clients, Cred!Lock(c)
    PROVE  CredInv'
<1>1. Types /\ AllGenuine /\ Exchange /\ \A d \in Clients : RequestAt(d)
  BY Zenon DEF CredInv
<1>2. Len(expiry) \in Nat /\ \A i \in 1..Len(expiry) : expiry[i] \in Nat
  BY Zenon, <1>1, ExpiryIsNat
<1>3. /\ cred # None /\ cred.token \in 1..Len(expiry) /\ cred.token \in Nat
      /\ cred.expires_at \in Nat /\ cred.expires_at <= expiry[cred.token] + Timeout
  BY Zenon, <1>1, <1>2 DEF Types, Cred!Credentials, AllGenuine, Genuine, Cred!Lock
<1>4. AllGenuine' /\ Exchange'
  BY Zenon, <1>1 DEF AllGenuine, Genuine, Exchange, Cred!Lock
<1>5. CASE Cred!IsFresh(cred)
  <2>1. /\ req' = [req EXCEPT ![c] = [pc |-> "send", at |-> now, token |-> cred.token]]
        /\ holder' = holder /\ holder = None
    BY Zenon, <1>5 DEF Cred!Lock
  <2>2. /\ req'[c].pc = "send" /\ req'[c].at = now /\ req'[c].token = cred.token
        /\ \A d \in Clients : d # c => req'[d] = req[d]
        /\ req' \in [Clients -> [pc : {"idle", "lock", "refresh", "issued", "send"},
                                 at : Nat, token : Nat]]
    BY Zenon, <1>1, <1>3, <2>1 DEF Types
  <2>3. Types'
    BY Zenon, <1>1, <2>1, <2>2 DEF Types, Cred!Lock
  <2>4. expiry[cred.token] > now + Timeout
    <3>1. /\ now \in Nat /\ Timeout \in Nat /\ MinLifetime \in Nat
          /\ expiry[cred.token] \in Nat /\ 2 * Timeout <= MinLifetime
      BY Zenon, <1>1, <1>2, <1>3 DEF Types, Times, Cred!TimesAssumption, Cred!TimeoutIsShort
    <3>2. cred.expires_at > now + MinLifetime
      BY Zenon, <1>5 DEF Cred!IsFresh
    <3>3. QED  BY <1>3, <3>1, <3>2
  <2>5. ASSUME NEW d \in Clients PROVE RequestAt(d)'
    <3>1. RequestAt(d)
      BY Zenon, <1>1
    <3>2. CASE d = c
      <4>1. c # None
        BY Zenon DEF Times, Cred!NoneIsNoValue
      <4>2. now \in Nat /\ Timeout \in Nat
        BY Zenon, <1>1 DEF Types, Times, Cred!TimesAssumption
      <4>3. QED  BY <1>3, <2>1, <2>2, <2>4, <3>2, <4>1, <4>2 DEF RequestAt, Waiting, Cred!Lock
    <3>3. CASE d # c
      BY Zenon, <2>1, <2>2, <3>1, <3>3 DEF RequestAt, Waiting, Cred!Lock
    <3>4. QED  BY Zenon, <3>2, <3>3
  <2>6. QED  BY Zenon, <1>4, <2>3, <2>5 DEF CredInv
<1>6. CASE ~Cred!IsFresh(cred)
  <2>1. /\ req' = [req EXCEPT ![c].pc = "refresh", ![c].at = now]
        /\ holder' = c /\ holder = None
    BY Zenon, <1>6 DEF Cred!Lock
  <2>2. /\ req'[c].pc = "refresh" /\ req'[c].at = now
        /\ \A d \in Clients : d # c => req'[d] = req[d]
        /\ req' \in [Clients -> [pc : {"idle", "lock", "refresh", "issued", "send"},
                                 at : Nat, token : Nat]]
    <3>1. req \in [Clients -> Req] /\ now \in Nat
      BY Zenon, <1>1 DEF Types, Req
    <3>2. req' = WithPcAndAt(c, "refresh", now)
      BY Zenon, <2>1 DEF WithPcAndAt
    <3>3. /\ req' \in [Clients -> Req] /\ req'[c].pc = "refresh" /\ req'[c].at = now
          /\ \A d \in Clients : d # c => req'[d] = req[d]
      BY Zenon, <3>1, <3>2, SetPcAndAt
    <3>4. QED  BY Zenon, <3>3 DEF Req
  <2>3. Types'
    BY Zenon, <1>1, <2>1, <2>2 DEF Types, Cred!Lock
  <2>4. cred.expires_at <= now + MinLifetime
    BY SMTT(30), <1>1, <1>3, <1>6 DEF Types, Cred!IsFresh, Times, Cred!TimesAssumption
  <2>5. ASSUME NEW d \in Clients PROVE RequestAt(d)'
    <3>1. RequestAt(d) /\ d # None
      BY Zenon, <1>1 DEF Times, Cred!NoneIsNoValue
    <3>2. now \in Nat /\ Timeout \in Nat
      BY Zenon, <1>1 DEF Types, Times, Cred!TimesAssumption
    <3>3. CASE d = c
      BY <1>3, <2>1, <2>2, <2>4, <3>2, <3>3 DEF RequestAt, Waiting, Cred!Lock
    <3>4. CASE d # c
      BY Zenon, <2>1, <2>2, <3>1, <3>4 DEF RequestAt, Waiting, Cred!Lock
    <3>5. QED  BY Zenon, <3>3, <3>4
  <2>6. QED  BY Zenon, <1>4, <2>3, <2>5 DEF CredInv
<1>7. QED  BY Zenon, <1>5, <1>6

(* Google issues a token while the refresh holds the mutex. *)
LEMMA StepGoogleRefreshes ==
    ASSUME Times, CredInv, NEW c \in Clients, Cred!GoogleRefreshes(c)
    PROVE  CredInv'
<1>1. Types /\ AllGenuine /\ Exchange /\ \A d \in Clients : RequestAt(d)
  BY Zenon DEF CredInv
<1>2. /\ now \in Nat /\ Timeout \in Nat /\ Lifetime \in Nat /\ MinLifetime \in Nat
      /\ now + Lifetime \in Nat /\ req[c].at \in Nat
  BY SMTT(30), <1>1 DEF Types, Times, Cred!TimesAssumption
<1>a. expiry' = Append(expiry, now + Lifetime)
  BY Zenon DEF Cred!GoogleRefreshes
<1>3. /\ expiry' \in Seq(Nat) /\ Len(expiry) \in Nat /\ Len(expiry') = Len(expiry) + 1
      /\ \A i \in 1..Len(expiry) : expiry[i] \in Nat /\ expiry'[i] = expiry[i]
      /\ expiry'[Len(expiry) + 1] = now + Lifetime
  BY Zenon, <1>1, <1>2, <1>a, Issue
<1>4. /\ req'[c].pc = "issued" /\ req'[c].at = req[c].at
      /\ req'[c].token = Len(expiry) + 1
      /\ \A d \in Clients : d # c => req'[d] = req[d]
      /\ req' \in [Clients -> [pc : {"idle", "lock", "refresh", "issued", "send"},
                               at : Nat, token : Nat]]
  <2>1. req \in [Clients -> Req] /\ Len(expiry) + 1 \in Nat
    BY <1>1, <1>3 DEF Types, Req
  <2>2. req' = WithPcAndToken(c, "issued", Len(expiry) + 1)
    BY Zenon DEF Cred!GoogleRefreshes, WithPcAndToken
  <2>3. /\ req' \in [Clients -> Req] /\ req'[c].pc = "issued"
        /\ req'[c].token = Len(expiry) + 1 /\ req'[c].at = req[c].at
        /\ \A d \in Clients : d # c => req'[d] = req[d]
    BY Zenon, <2>1, <2>2, SetPcAndToken
  <2>4. QED  BY Zenon, <2>3 DEF Req
<1>5. Types'
  BY Zenon, <1>1, <1>3, <1>4 DEF Types, Cred!GoogleRefreshes
<1>6. AllGenuine'
  <2>1. UNCHANGED <<stored_cred, cred, task_cred, chan>>
    BY Zenon DEF Cred!GoogleRefreshes
  <2>2. QED  BY SMTT(30), <1>1, <1>3, <2>1 DEF AllGenuine, Genuine
<1>7. Exchange'
  <2>1. code.pc = "done"
    BY Zenon, <1>1 DEF Exchange, RequestAt, Cred!GoogleRefreshes
  <2>2. QED  BY Zenon, <2>1 DEF Exchange, Cred!GoogleRefreshes
<1>8. ASSUME NEW d \in Clients PROVE RequestAt(d)'
  <2>1. RequestAt(d)
    BY Zenon, <1>1
  <2>2. CASE d = c
    BY SMTT(30), <1>2, <1>3, <1>4, <2>1, <2>2 DEF RequestAt, Waiting, Cred!GoogleRefreshes
  <2>3. CASE d # c
    BY SMTT(30), <1>3, <1>4, <2>1, <2>3 DEF RequestAt, Waiting, Cred!GoogleRefreshes
  <2>4. QED  BY Zenon, <2>2, <2>3
<1>9. QED  BY Zenon, <1>5, <1>6, <1>7, <1>8 DEF CredInv

(* The reply to a refresh: what is left of the token's life still covers   *)
(* the request, however long the refresh took.                             *)
LEMMA StepRefreshDone ==
    ASSUME Times, CredInv, NEW c \in Clients, Cred!RefreshDone(c)
    PROVE  CredInv'
<1>1. Types /\ AllGenuine /\ Exchange /\ (\A d \in Clients : RequestAt(d)) /\ RequestAt(c)
  BY Zenon DEF CredInv
<1>2. /\ now \in Nat /\ Timeout \in Nat /\ Lifetime \in Nat /\ MinLifetime \in Nat
      /\ req[c].at \in Nat /\ req[c].token \in Nat
      /\ Len(expiry) \in Nat /\ \A i \in 1..Len(expiry) : expiry[i] \in Nat
      /\ MinLifetime < Lifetime /\ 2 * Timeout <= MinLifetime /\ c # None
  BY Zenon, <1>1, ExpiryIsNat DEF Types, Times, Cred!TimesAssumption, Cred!TimeoutIsShort, Cred!NoneIsNoValue
<1>3. /\ req[c].pc = "issued" /\ holder = c /\ now <= req[c].at + Timeout
      /\ req[c].token \in 1..Len(expiry) /\ expiry[req[c].token] >= req[c].at + Lifetime
  BY Zenon, <1>1 DEF RequestAt, Waiting, Cred!RefreshDone
<1>4. expiry[req[c].token] > now + Timeout
  <2>1. expiry[req[c].token] \in Nat
    BY Zenon, <1>2, <1>3
  <2>2. QED  BY SMTT(30), <1>2, <1>3, <2>1
<1>5. /\ req' \in [Clients -> Req] /\ req'[c].pc = "send" /\ req'[c].at = now
      /\ req'[c].token = req[c].token /\ \A d \in Clients : d # c => req'[d] = req[d]
  <2>1. req \in [Clients -> Req]
    BY Zenon, <1>1 DEF Types, Req
  <2>2. req' = WithPcAndAt(c, "send", now)
    BY Zenon DEF Cred!RefreshDone, WithPcAndAt
  <2>3. QED  BY Zenon, <1>2, <2>1, <2>2, SetPcAndAt
<1>6. /\ cred' = [token |-> req[c].token, expires_at |-> req[c].at + Lifetime]
      /\ chan' = [seen |-> FALSE, value |-> cred'] /\ holder' = None
      /\ UNCHANGED <<now, expiry, code, stored_cred, task_cred, faults>>
  BY Zenon DEF Cred!RefreshDone
<1>7. cred' \in Cred!Credentials /\ cred' # None
  BY <1>2, <1>6 DEF Cred!Credentials, Times, Cred!NoneIsNoValue
<1>8. Types'
  BY Zenon, <1>1, <1>5, <1>6, <1>7 DEF Types, Req
<1>9. AllGenuine'
  <2>1. Genuine(cred)'
    BY SMTT(30), <1>2, <1>3, <1>6 DEF Genuine
  <2>2. Genuine(stored_cred)' /\ Genuine(task_cred)'
    BY Zenon, <1>1, <1>6 DEF AllGenuine, Genuine
  <2>3. Genuine(chan.value)'
    BY Zenon, <1>6, <2>1 DEF Genuine
  <2>4. QED  BY Zenon, <2>1, <2>2, <2>3 DEF AllGenuine
<1>10. Exchange'
  <2>1. code.pc = "done"
    BY Zenon, <1>1, <1>3 DEF Exchange, RequestAt
  <2>2. QED  BY Zenon, <1>6, <2>1 DEF Exchange
<1>11. ASSUME NEW d \in Clients PROVE RequestAt(d)'
  <2>1. RequestAt(d) /\ d # None
    BY Zenon, <1>1 DEF Times, Cred!NoneIsNoValue
  <2>2. CASE d = c
    BY SMTT(30), <1>2, <1>3, <1>4, <1>5, <1>6, <1>7, <2>2 DEF RequestAt, Waiting
  <2>3. CASE d # c
    <3>1. req[d].pc \notin Waiting
      BY Zenon, <1>3, <2>1, <2>3 DEF RequestAt
    <3>2. QED  BY Zenon, <1>5, <1>6, <1>7, <2>1, <2>3, <3>1 DEF RequestAt, Waiting
  <2>4. QED  BY Zenon, <2>2, <2>3
<1>12. QED  BY Zenon, <1>8, <1>9, <1>10, <1>11 DEF CredInv

(* A refresh that fails releases the mutex. *)
LEMMA StepRefreshFails ==
    ASSUME Times, CredInv, NEW c \in Clients, Cred!RefreshFails(c)
    PROVE  CredInv'
<1>1. Types /\ AllGenuine /\ Exchange /\ (\A d \in Clients : RequestAt(d)) /\ RequestAt(c)
  BY Zenon DEF CredInv
<1>2. /\ req' \in [Clients -> Req] /\ req'[c] = Cred!IdleReq
      /\ \A d \in Clients : d # c => req'[d] = req[d]
  <2>1. req \in [Clients -> Req] /\ Cred!IdleReq \in Req
    BY Zenon, <1>1 DEF Types, Req, Cred!IdleReq
  <2>2. QED  BY Zenon, <2>1, SetRequest DEF Cred!RefreshFails
<1>3. /\ holder = c /\ holder' = None /\ c # None
      /\ UNCHANGED <<now, expiry, code, stored_cred, cred, chan, task_cred>>
  BY Zenon, <1>1 DEF RequestAt, Waiting, Cred!RefreshFails, Times, Cred!NoneIsNoValue
<1>4. Types'
  BY Zenon, <1>1, <1>2, <1>3 DEF Types, Req
<1>5. AllGenuine' /\ Exchange'
  BY Zenon, <1>1, <1>3 DEF AllGenuine, Genuine, Exchange
<1>6. ASSUME NEW d \in Clients PROVE RequestAt(d)'
  <2>1. RequestAt(d) /\ d # None
    BY Zenon, <1>1 DEF Times, Cred!NoneIsNoValue
  <2>2. CASE d = c
    BY <1>2, <1>3, <2>2 DEF RequestAt, Waiting, Cred!IdleReq
  <2>3. CASE d # c
    BY Zenon, <1>2, <1>3, <2>1, <2>3 DEF RequestAt, Waiting
  <2>4. QED  BY Zenon, <2>2, <2>3
<1>7. QED  BY Zenon, <1>4, <1>5, <1>6 DEF CredInv

(* A request that was answered is over. *)
LEMMA StepGoogleAnswers ==
    ASSUME Times, CredInv, NEW c \in Clients, Cred!GoogleAnswers(c)
    PROVE  CredInv'
<1>1. Types /\ AllGenuine /\ Exchange /\ (\A d \in Clients : RequestAt(d)) /\ RequestAt(c)
  BY Zenon DEF CredInv
<1>2. /\ req' \in [Clients -> Req] /\ req'[c] = Cred!IdleReq
      /\ \A d \in Clients : d # c => req'[d] = req[d]
  <2>1. req \in [Clients -> Req] /\ Cred!IdleReq \in Req
    BY Zenon, <1>1 DEF Types, Req, Cred!IdleReq
  <2>2. QED  BY Zenon, <2>1, SetRequest DEF Cred!GoogleAnswers
<1>3. holder # c /\ UNCHANGED <<now, expiry, code, stored_cred, cred, holder, chan, task_cred>>
  BY Zenon, <1>1 DEF RequestAt, Waiting, Cred!GoogleAnswers
<1>4. Types'
  BY Zenon, <1>1, <1>2, <1>3 DEF Types, Req
<1>5. AllGenuine' /\ Exchange'
  BY Zenon, <1>1, <1>3 DEF AllGenuine, Genuine, Exchange
<1>6. ASSUME NEW d \in Clients PROVE RequestAt(d)'
  <2>1. RequestAt(d)
    BY Zenon, <1>1
  <2>2. CASE d = c
    BY <1>2, <1>3, <2>2 DEF RequestAt, Waiting, Cred!IdleReq
  <2>3. CASE d # c
    BY Zenon, <1>2, <1>3, <2>1, <2>3 DEF RequestAt, Waiting
  <2>4. QED  BY Zenon, <2>2, <2>3
<1>7. QED  BY Zenon, <1>4, <1>5, <1>6 DEF CredInv

(* The persister task stores only what a refresh has published. *)
LEMMA StepPersister ==
    ASSUME Times, CredInv, Cred!Persister \/ Cred!PersistFails
    PROVE  CredInv'
<1>1. Types /\ AllGenuine /\ Exchange /\ \A c \in Clients : RequestAt(c)
  BY Zenon DEF CredInv
<1>2. UNCHANGED <<now, expiry, code, cred, holder, req>>
  BY Zenon DEF Cred!Persister, Cred!CredentialsChanged, Cred!PersistDone, Cred!PersistFails
<1>3. ASSUME NEW c \in Clients PROVE RequestAt(c)'
  <2>1. RequestAt(c)
    BY Zenon, <1>1
  <2>2. QED  BY Zenon, <1>2, <2>1 DEF RequestAt, Waiting
<1>4. Types'
  BY Zenon, <1>1, <1>2 DEF Types, Cred!Persister, Cred!CredentialsChanged, Cred!PersistDone, Cred!PersistFails
<1>5. AllGenuine'
  BY Zenon, <1>1, <1>2 DEF Types, AllGenuine, Genuine, Cred!Persister, Cred!CredentialsChanged, Cred!PersistDone,
                    Cred!PersistFails
<1>6. Exchange'
  BY Zenon, <1>1, <1>2 DEF Types, Exchange, Cred!Persister, Cred!CredentialsChanged, Cred!PersistDone, Cred!PersistFails
<1>7. QED  BY Zenon, <1>3, <1>4, <1>5, <1>6 DEF CredInv

(* A crash forgets the requests and keeps what is stored. *)
LEMMA CredCrash ==
    ASSUME Times, CredInv, Cred!Crash
    PROVE  CredInv'
<1>1. Types /\ AllGenuine /\ Exchange
  BY Zenon DEF CredInv
<1>2. Types'
  BY Zenon, <1>1 DEF Types, Cred!Crash, Cred!IdleReq
<1>3. AllGenuine'
  BY Zenon, <1>1 DEF AllGenuine, Genuine, Cred!Crash
<1>4. Exchange'
  BY Zenon, <1>1 DEF Exchange, Cred!Crash
<1>5. ASSUME NEW c \in Clients PROVE RequestAt(c)'
  BY Zenon DEF RequestAt, Waiting, Cred!Crash, Cred!IdleReq, Times, Cred!NoneIsNoValue
<1>6. QED  BY Zenon, <1>2, <1>3, <1>4, <1>5 DEF CredInv

-----------------------------------------------------------------------------
(* gdrive/src/oauth2.rs, run.rs: whichever way a token was obtained, its   *)
(* real expiry is behind the reckoned one by at most a timeout, and only   *)
(* the holder of the mutex refreshes.                                      *)
THEOREM CredentialsInvariance ==
    ASSUME Times
    PROVE  Cred!Spec => []CredInv
<1>1. Cred!Init => CredInv
  BY DEF Cred!Init, CredInv, Types, AllGenuine, Genuine, Exchange, RequestAt, Waiting, Cred!IdleReq,
         Times, Cred!NoneIsNoValue
<1>2. CredInv /\ [Cred!Next]_(Cred!vars) => CredInv'
  <2> SUFFICES ASSUME CredInv, [Cred!Next]_(Cred!vars) PROVE CredInv'
    OBVIOUS
  <2>1. CASE UNCHANGED Cred!vars
    BY ZenonT(30), <2>1 DEF Cred!vars, CredInv, Types, AllGenuine, Genuine, Exchange, RequestAt, Waiting
  <2>2. CASE Cred!Tick
    BY Zenon, <2>2, StepTick
  <2>3. CASE Cred!SendAuthCode \/ Cred!GoogleGrants \/ Cred!auth_code_for_token
    BY Zenon, <2>3, StepSendAuthCode, StepGoogleGrants, StepAuthCodeForToken
  <2>4. CASE Cred!Boot \/ Cred!Crash
    BY Zenon, <2>4, CredBoot, CredCrash
  <2>5. CASE Cred!Persister \/ Cred!PersistFails
    BY Zenon, <2>5, StepPersister
  <2>6. CASE \E c \in Clients : Cred!Call(c) \/ Cred!Replies(c) \/ Cred!RefreshFails(c)
    BY Zenon, <2>6, StepCall, StepLock, StepGoogleRefreshes, StepRefreshDone, StepGoogleAnswers,
       StepRefreshFails DEF Cred!Replies
  <2>7. QED  BY Zenon, <2>1, <2>2, <2>3, <2>4, <2>5, <2>6 DEF Cred!Next
<1>3. QED  BY <1>1, <1>2, PTL DEF Cred!Spec

(* gdrive/src/oauth2.rs: no request is under way with a token that has     *)
(* expired, although refreshes and the exchange of the auth code take      *)
(* time, clients queue for the mutex, and the node restarts with what it   *)
(* persisted.                                                              *)
THEOREM TokensOutliveRequests ==
    ASSUME Times
    PROVE  Cred!Spec => []Cred!TokenOutlivesRequest
<1>1. ASSUME CredInv PROVE Cred!TokenOutlivesRequest
  <2> SUFFICES ASSUME NEW c \in Clients, req[c].pc = "send"
               PROVE  expiry[req[c].token] > now
    BY Zenon DEF Cred!TokenOutlivesRequest
  <2>1. Types /\ RequestAt(c)
    BY Zenon, <1>1 DEF CredInv
  <2>2. /\ now \in Nat /\ req[c].at \in Nat /\ Timeout \in Nat
        /\ \A i \in 1..Len(expiry) : expiry[i] \in Nat
    BY Zenon, <2>1, ExpiryIsNat DEF Types, Times, Cred!TimesAssumption
  <2>3. QED  BY SMTT(30), <2>1, <2>2 DEF RequestAt
<1>2. QED  BY <1>1, CredentialsInvariance, PTL

(* gdrive/src/lib.rs, oauth2.rs: of many clients that find the token       *)
(* stale, one refreshes it.                                                *)
THEOREM RefreshesAreSingle ==
    ASSUME Times
    PROVE  Cred!Spec => []Cred!OneRefreshAtATime
<1>1. ASSUME CredInv PROVE Cred!OneRefreshAtATime
  <2> SUFFICES ASSUME NEW c \in Clients, req[c].pc \in {"refresh", "issued"}
               PROVE  ~(cred.expires_at > req[c].at + MinLifetime)
    BY Zenon DEF Cred!OneRefreshAtATime
  <2>1. Types /\ RequestAt(c)
    BY Zenon, <1>1 DEF CredInv
  <2>2. cred.expires_at \in Nat /\ req[c].at \in Nat /\ MinLifetime \in Nat
    BY Zenon, <2>1 DEF Types, RequestAt, Cred!Credentials, Times, Cred!TimesAssumption
  <2>3. QED  BY <2>1, <2>2 DEF RequestAt, Waiting
<1>2. QED  BY <1>1, CredentialsInvariance, PTL
================================================================================
