---------------------------- MODULE ServicesProofs ----------------------------
(***************************************************************************)
(* Proofs about the services of a running node.                            *)
(*   ChainSync: for any number of resync calls, any size of the channels,  *)
(*     and any number of blocks and failures.                              *)
(*   Sup, an instance of NodeSupervision: for every set of tasks that a    *)
(*     node has, every set of configurations, and any number of activity   *)
(*     timeouts.                                                           *)
(*   Ln, an instance of Channels: for any channels of the node, the LSP    *)
(*     and other peers, and any number of disconnects, failures and boots. *)
(***************************************************************************)
EXTENDS ChainSync, TLAPS

-----------------------------------------------------------------------------
(* ChainSync.                                                              *)

ClientStates == {"none", "wait", "ok", "dropped", "timeout", "refused"}

SyncTypes ==
    /\ tip \in Nat
    /\ synced \in [Kinds -> Nat] /\ seen \in [Kinds -> Nat] /\ asked \in [Clients -> Nat]
    /\ task \in [Kinds -> {"select", "syncing", "done"}]
    /\ resync \in [Kinds -> Seq(Clients)] /\ synced_txs \in [Kinds -> SUBSET Clients]
    /\ client \in [Clients -> [Kinds -> ClientStates]]
    /\ errors \in Nat

(* Nothing was seen that is not there, and a sync sees no less than the    *)
(* one before.                                                             *)
SeenIsThere ==
    /\ \A c \in Clients : asked[c] <= tip
    /\ \A k \in Kinds : /\ synced[k] <= tip
                        /\ task[k] = "syncing" => synced[k] <= seen[k] /\ seen[k] <= tip

(* Client c and task k: who is in the task's hands has called; the sync    *)
(* that runs will see what those that it answers have asked for; and who   *)
(* waits is in the task's hands.                                           *)
SenderAt(c, k) ==
    /\ c \in synced_txs[k] \cup Range(resync[k]) => client[c][k] # "none"
    /\ c \in synced_txs[k] /\ task[k] = "syncing" => asked[c] <= seen[k]
    /\ client[c][k] = "ok" => synced[k] >= asked[c]
    /\ client[c][k] = "wait" => c \in synced_txs[k] \cup Range(resync[k])
    /\ client[c][k] = "dropped" => closed

(* A check that runs while the wallet moves on will be followed by another.*)
CheckIsCurrent ==
    checker = "checking" => checkFrom = synced["bdk"] \/ notified = 1

SyncInv ==
    /\ SyncTypes /\ SeenIsThere /\ CheckIsCurrent /\ ReceivesAreChecked
    /\ \A c \in Clients, k \in Kinds : SenderAt(c, k)

LEMMA AppendToSet ==
    ASSUME NEW S, NEW s \in Seq(S), NEW c \in S
    PROVE  /\ Append(s, c) \in Seq(S)
           /\ Range(Append(s, c)) = Range(s) \cup {c}
<1>1. Append(s, c) \in Seq(S) /\ Len(Append(s, c)) = Len(s) + 1 /\ Len(s) \in Nat
      /\ Append(s, c)[Len(s) + 1] = c /\ \A i \in 1..Len(s) : Append(s, c)[i] = s[i]
      /\ DOMAIN s = 1..Len(s) /\ DOMAIN Append(s, c) = 1..Len(s) + 1
  OBVIOUS
<1>2. \A x : x \in Range(s) <=> \E i \in 1..Len(s) : s[i] = x
  BY <1>1 DEF Range
<1>3. \A x : x \in Range(Append(s, c)) <=> \E i \in 1..Len(s) + 1 : Append(s, c)[i] = x
  BY <1>1 DEF Range
<1>4. \A i : i \in 1..Len(s) + 1 <=> i \in 1..Len(s) \/ i = Len(s) + 1
  BY <1>1
<1>5. \A x : x \in Range(Append(s, c)) <=> x \in Range(s) \/ x = c
  BY Zenon, <1>1, <1>2, <1>3, <1>4
<1>6. QED  BY Zenon, <1>1, <1>5

LEMMA EmptyToSet == Range(<<>>) = {}
BY DEF Range

-----------------------------------------------------------------------------
(* Calls. *)

LEMMA ResyncCallStep ==
    ASSUME SyncInv, NEW c \in Clients, ResyncCall(c)
    PROVE  SyncInv'
<1>0. SyncTypes
  BY Zenon DEF SyncInv
<1> DEFINE bdk == CanSend("bdk")
           ldk == bdk /\ CanSend("ldk")
<1>1. /\ client[c] = [k \in Kinds |-> "none"] /\ asked' = [asked EXCEPT ![c] = tip]
      /\ resync' = [k \in Kinds |-> IF (k = "bdk" /\ bdk) \/ (k = "ldk" /\ ldk)
                                    THEN Append(resync[k], c) ELSE resync[k]]
      /\ client' = [client EXCEPT ![c] = [k \in Kinds |-> IF bdk /\ ldk THEN "wait" ELSE "refused"]]
      /\ UNCHANGED <<tip, synced, task, seen, synced_txs, errors, notified, checker, checkFrom,
                     checked, closed>>
  BY Zenon DEF ResyncCall, NotCalled
<1> HIDE DEF bdk, ldk
<1>2. \A k \in Kinds : \/ /\ resync'[k] = Append(resync[k], c)
                           /\ Range(resync'[k]) = Range(resync[k]) \cup {c}
                        \/ /\ resync'[k] = resync[k] /\ ~(bdk /\ ldk)
  <2>1. SUFFICES ASSUME NEW k \in Kinds
                 PROVE  \/ /\ resync'[k] = Append(resync[k], c)
                           /\ Range(resync'[k]) = Range(resync[k]) \cup {c}
                        \/ /\ resync'[k] = resync[k] /\ ~(bdk /\ ldk)
    OBVIOUS
  <2>2. resync[k] \in Seq(Clients)
    BY Zenon, <1>0 DEF SyncTypes
  <2>3. Range(Append(resync[k], c)) = Range(resync[k]) \cup {c}
    BY <2>2, AppendToSet
  <2>4. resync'[k] = IF (k = "bdk" /\ bdk) \/ (k = "ldk" /\ ldk)
                     THEN Append(resync[k], c) ELSE resync[k]
    BY Zenon, <1>1
  <2>5. QED  BY Zenon, <2>3, <2>4 DEF Kinds
<1>3. \A k \in Kinds : client[c][k] = "none" /\ client'[c][k] = IF bdk /\ ldk THEN "wait" ELSE "refused"
  BY <1>0, <1>1 DEF SyncTypes
<1>4. \A d \in Clients : d # c => client'[d] = client[d] /\ asked'[d] = asked[d]
  BY <1>0, <1>1 DEF SyncTypes
<1>5. asked'[c] = tip
  BY <1>0, <1>1 DEF SyncTypes
<1>6. SyncTypes'
  <2>1. asked' \in [Clients -> Nat]
    BY <1>0, <1>1 DEF SyncTypes
  <2>2. client' \in [Clients -> [Kinds -> ClientStates]]
    BY <1>0, <1>1 DEF SyncTypes, ClientStates
  <2>3. resync' \in [Kinds -> Seq(Clients)]
    BY <1>0, <1>1 DEF SyncTypes
  <2>4. QED  BY Zenon, <1>0, <1>1, <2>1, <2>2, <2>3 DEF SyncTypes
<1>7. SeenIsThere'
  BY <1>0, <1>1, <1>4, <1>5 DEF SyncInv, SyncTypes, SeenIsThere
<1>8. ASSUME NEW d \in Clients, NEW k \in Kinds PROVE SenderAt(d, k)'
  <2>1. SenderAt(d, k)
    BY Zenon DEF SyncInv
  <2>2. CASE d = c
    <3>1. client'[c][k] \in {"wait", "refused"} /\ (client'[c][k] = "wait" => bdk /\ ldk)
      BY <1>3
    <3>2. c \notin synced_txs[k]
      BY Zenon, <1>3, <2>1, <2>2 DEF SenderAt
    <3>3. client'[c][k] = "wait" => c \in Range(resync'[k])
      BY Zenon, <1>2, <3>1
    <3>4. client'[c][k] # "none" /\ client'[c][k] # "ok" /\ client'[c][k] # "dropped"
      BY <3>1
    <3>5. QED  BY Zenon, <1>1, <2>2, <3>2, <3>3, <3>4 DEF SenderAt
  <2>3. CASE d # c
    <3>1. d \in Range(resync'[k]) <=> d \in Range(resync[k])
      BY Zenon, <1>2, <2>3
    <3>2. QED  BY Zenon, <1>1, <1>4, <2>1, <2>3, <3>1 DEF SenderAt
  <2>4. QED  BY Zenon, <2>2, <2>3
<1>9. CheckIsCurrent' /\ ReceivesAreChecked'
  BY Zenon, <1>1 DEF SyncInv, CheckIsCurrent, ReceivesAreChecked
<1>10. QED  BY Zenon, <1>6, <1>7, <1>8, <1>9 DEF SyncInv

LEMMA TimeOutStep ==
    ASSUME SyncInv, NEW c \in Clients, NEW j \in Kinds, ResyncTimesOut(c, j)
    PROVE  SyncInv'
<1>1. /\ client[c][j] = "wait" /\ client' = [client EXCEPT ![c][j] = "timeout"]
      /\ UNCHANGED <<tip, synced, task, seen, resync, synced_txs, asked, errors, notified, checker,
                     checkFrom, checked, closed>>
  BY Zenon DEF ResyncTimesOut
<1>2. client \in [Clients -> [Kinds -> ClientStates]]
  BY Zenon DEF SyncInv, SyncTypes
<1>3. client' \in [Clients -> [Kinds -> ClientStates]]
  BY <1>1, <1>2 DEF ClientStates
<1>4. \A d \in Clients, k \in Kinds :
         \/ client'[d][k] = client[d][k]
         \/ client'[d][k] = "timeout" /\ client[d][k] = "wait"
  BY <1>1, <1>2
<1>5. SyncTypes' /\ SeenIsThere' /\ CheckIsCurrent' /\ ReceivesAreChecked'
  BY Zenon, <1>1, <1>3 DEF SyncInv, SyncTypes, SeenIsThere, CheckIsCurrent, ReceivesAreChecked
<1>6. ASSUME NEW d \in Clients, NEW k \in Kinds PROVE SenderAt(d, k)'
  <2>1. SenderAt(d, k)
    BY Zenon DEF SyncInv
  <2>2. CASE client'[d][k] = client[d][k]
    BY Zenon, <1>1, <2>1, <2>2 DEF SenderAt
  <2>3. CASE client'[d][k] = "timeout" /\ client[d][k] = "wait"
    <3>1. /\ client'[d][k] # "none" /\ client'[d][k] # "ok" /\ client'[d][k] # "wait"
          /\ client'[d][k] # "dropped"
      BY <2>3
    <3>2. QED  BY Zenon, <1>1, <2>1, <3>1 DEF SenderAt
  <2>4. QED  BY Zenon, <1>4, <2>2, <2>3
<1>7. QED  BY Zenon, <1>5, <1>6 DEF SyncInv

-----------------------------------------------------------------------------
(* The sync tasks. *)

LEMMA SyncStartsStep ==
    ASSUME SyncInv, NEW j \in Kinds, SyncStarts(j)
    PROVE  SyncInv'
<1>0. SyncTypes /\ SeenIsThere
  BY Zenon DEF SyncInv
<1>1. /\ task[j] = "select"
      /\ synced_txs' = [synced_txs EXCEPT ![j] = @ \cup Range(resync[j])]
      /\ resync' = [resync EXCEPT ![j] = <<>>]
      /\ seen' = [seen EXCEPT ![j] = tip] /\ task' = [task EXCEPT ![j] = "syncing"]
      /\ UNCHANGED <<tip, synced, client, asked, errors, notified, checker, checkFrom, checked, closed>>
  BY Zenon DEF SyncStarts
<1>2. /\ synced_txs'[j] = synced_txs[j] \cup Range(resync[j]) /\ resync'[j] = <<>> /\ seen'[j] = tip
      /\ \A k \in Kinds : k # j => /\ synced_txs'[k] = synced_txs[k] /\ resync'[k] = resync[k]
                                   /\ seen'[k] = seen[k] /\ task'[k] = task[k]
  BY <1>0, <1>1 DEF SyncTypes
<1>3. SyncTypes'
  <2>1. Range(resync[j]) \subseteq Clients
    BY <1>0 DEF SyncTypes, Range
  <2>2. synced_txs' \in [Kinds -> SUBSET Clients]
    BY <1>0, <1>1, <2>1 DEF SyncTypes
  <2>3. resync' \in [Kinds -> Seq(Clients)] /\ seen' \in [Kinds -> Nat]
    BY <1>0, <1>1 DEF SyncTypes
  <2>4. task' \in [Kinds -> {"select", "syncing", "done"}]
    BY <1>0, <1>1 DEF SyncTypes
  <2>5. QED  BY Zenon, <1>0, <1>1, <2>2, <2>3, <2>4 DEF SyncTypes
<1>4. SeenIsThere'
  <2>1. \A c \in Clients : asked'[c] <= tip'
    BY Zenon, <1>0, <1>1 DEF SeenIsThere
  <2>2. ASSUME NEW k \in Kinds
        PROVE  /\ synced'[k] <= tip'
               /\ task'[k] = "syncing" => synced'[k] <= seen'[k] /\ seen'[k] <= tip'
    <3>1. CASE k = j
      BY <1>0, <1>1, <1>2, <3>1 DEF SyncTypes, SeenIsThere
    <3>2. CASE k # j
      BY Zenon, <1>0, <1>1, <1>2, <3>2 DEF SeenIsThere
    <3>3. QED  BY Zenon, <3>1, <3>2
  <2>3. QED  BY Zenon, <2>1, <2>2 DEF SeenIsThere
<1>5. ASSUME NEW d \in Clients, NEW k \in Kinds PROVE SenderAt(d, k)'
  <2>1. SenderAt(d, k)
    BY Zenon DEF SyncInv
  <2>2. CASE k = j
    <3>1. asked[d] <= tip
      BY Zenon, <1>0 DEF SeenIsThere
    <3>2. d \in synced_txs'[k] \cup Range(resync'[k]) <=> d \in synced_txs[k] \cup Range(resync[k])
      BY Zenon, <1>2, <2>2, EmptyToSet
    <3>3. QED  BY Zenon, <1>1, <1>2, <2>1, <2>2, <3>1, <3>2 DEF SenderAt
  <2>3. CASE k # j
    BY Zenon, <1>1, <1>2, <2>1, <2>3 DEF SenderAt
  <2>4. QED  BY Zenon, <2>2, <2>3
<1>6. CheckIsCurrent' /\ ReceivesAreChecked'
  BY Zenon, <1>1 DEF SyncInv, CheckIsCurrent, ReceivesAreChecked
<1>7. QED  BY Zenon, <1>3, <1>4, <1>5, <1>6 DEF SyncInv

LEMMA SyncOkStep ==
    ASSUME SyncInv, NEW j \in Kinds, SyncOk(j)
    PROVE  SyncInv'
<1>0. SyncTypes /\ SeenIsThere
  BY Zenon DEF SyncInv
<1>1. /\ task[j] = "syncing" /\ synced' = [synced EXCEPT ![j] = seen[j]]
      /\ Answer(synced_txs[j], j, "ok") /\ synced_txs' = [synced_txs EXCEPT ![j] = {}]
      /\ notified' = (IF j = "bdk" THEN 1 ELSE notified)
      /\ task' = [task EXCEPT ![j] = "select"] /\ seen' = [seen EXCEPT ![j] = 0]
      /\ UNCHANGED <<tip, resync, asked, errors, checker, checkFrom, checked, closed>>
  BY Zenon DEF SyncOk, NotifyChecker, EndSync
<1>2. /\ synced'[j] = seen[j] /\ synced_txs'[j] = {} /\ task'[j] = "select"
      /\ \A k \in Kinds : k # j => /\ synced'[k] = synced[k] /\ synced_txs'[k] = synced_txs[k]
                                   /\ task'[k] = task[k] /\ seen'[k] = seen[k]
  BY <1>0, <1>1 DEF SyncTypes
<1>3. "ok" \in ClientStates
  BY DEF ClientStates
<1>4. /\ client' \in [Clients -> [Kinds -> ClientStates]]
      /\ \A c \in Clients, k \in Kinds :
            \/ /\ client'[c][k] = client[c][k]
               /\ ~(k = j /\ c \in synced_txs[j] /\ client[c][k] = "wait")
            \/ /\ k = j /\ c \in synced_txs[j] /\ client[c][k] = "wait" /\ client'[c][k] = "ok"
  <2>1. /\ client \in [Clients -> [Kinds -> ClientStates]]
        /\ client' = [c \in Clients |-> IF c \in synced_txs[j] /\ client[c][j] = "wait"
                                        THEN [client[c] EXCEPT ![j] = "ok"] ELSE client[c]]
    BY Zenon, <1>0, <1>1 DEF SyncTypes, Answer
  <2>2. client' \in [Clients -> [Kinds -> ClientStates]]
    BY <1>3, <2>1
  <2>3. ASSUME NEW c \in Clients, NEW k \in Kinds
        PROVE  \/ client'[c][k] = client[c][k] /\ ~(k = j /\ c \in synced_txs[j] /\ client[c][k] = "wait")
               \/ /\ k = j /\ c \in synced_txs[j] /\ client[c][k] = "wait"
                  /\ client'[c][k] = "ok"
    BY <2>1
  <2>4. QED  BY Zenon, <2>2, <2>3
<1>5. SyncTypes'
  <2>1. synced' \in [Kinds -> Nat] /\ seen' \in [Kinds -> Nat]
    BY <1>0, <1>1 DEF SyncTypes
  <2>2. synced_txs' \in [Kinds -> SUBSET Clients]
    BY <1>0, <1>1 DEF SyncTypes
  <2>3. task' \in [Kinds -> {"select", "syncing", "done"}]
    BY <1>0, <1>1 DEF SyncTypes
  <2>4. QED  BY Zenon, <1>0, <1>1, <1>4, <2>1, <2>2, <2>3 DEF SyncTypes
<1>6. synced[j] <= synced'[j] /\ synced'[j] <= tip
  BY Zenon, <1>0, <1>1, <1>2 DEF SeenIsThere
<1>7. SeenIsThere'
  <2>1. "select" # "syncing"
    OBVIOUS
  <2>2. QED  BY Zenon, <1>0, <1>1, <1>2, <1>6, <2>1 DEF SeenIsThere
<1>8. ASSUME NEW d \in Clients, NEW k \in Kinds PROVE SenderAt(d, k)'
  <2>1. SenderAt(d, k)
    BY Zenon DEF SyncInv
  <2>2. CASE k # j
    BY Zenon, <1>1, <1>2, <1>4, <2>1, <2>2 DEF SenderAt
  <2>3. CASE k = j
    <3>0. /\ task'[k] # "syncing" /\ "ok" # "none" /\ "ok" # "wait" /\ "ok" # "dropped"
          /\ asked[d] \in Nat /\ seen[j] \in Nat /\ synced[j] \in Nat
      BY <1>0, <1>2, <2>3 DEF SyncTypes
    <3>1. CASE d \in synced_txs[j] /\ client[d][k] = "wait"
      <4>1. client'[d][k] = "ok" /\ asked[d] <= seen[j]
        BY Zenon, <1>1, <1>4, <2>1, <2>3, <3>1 DEF SenderAt
      <4>2. synced'[k] >= asked'[d]
        BY <1>1, <1>2, <2>3, <3>0, <4>1
      <4>3. QED  BY Zenon, <1>1, <1>2, <2>3, <3>0, <4>1, <4>2 DEF SenderAt
    <3>2. CASE ~(d \in synced_txs[j] /\ client[d][k] = "wait")
      <4>1. client'[d][k] = client[d][k]
        BY Zenon, <1>4, <2>3, <3>2
      <4>2. client[d][k] = "ok" => synced'[k] >= asked'[d]
        <5>1. client[d][k] = "ok" => synced[j] >= asked[d]
          BY Zenon, <2>1, <2>3 DEF SenderAt
        <5>2. QED  BY <1>1, <1>2, <1>6, <2>3, <3>0, <5>1
      <4>3. QED  BY Zenon, <1>1, <1>2, <2>1, <2>3, <3>0, <3>2, <4>1, <4>2 DEF SenderAt
    <3>3. QED  BY Zenon, <3>1, <3>2
  <2>4. QED  BY Zenon, <2>2, <2>3
<1>9. CheckIsCurrent' /\ ReceivesAreChecked'
  <2>1. CASE j = "bdk"
    BY Zenon, <1>1, <2>1 DEF CheckIsCurrent, ReceivesAreChecked
  <2>2. CASE j # "bdk"
    <3>1. synced'["bdk"] = synced["bdk"]
      BY Zenon, <1>2, <2>2 DEF Kinds
    <3>2. QED  BY Zenon, <1>1, <2>2, <3>1 DEF SyncInv, CheckIsCurrent, ReceivesAreChecked
  <2>3. QED  BY Zenon, <2>1, <2>2
<1>10. QED  BY Zenon, <1>5, <1>7, <1>8, <1>9 DEF SyncInv

LEMMA SyncErrStep ==
    ASSUME SyncInv, NEW j \in Kinds, SyncErr(j)
    PROVE  SyncInv'
<1>0. SyncTypes
  BY Zenon DEF SyncInv
<1>1. /\ task[j] = "syncing" /\ errors' = errors + 1
      /\ task' = [task EXCEPT ![j] = "select"] /\ seen' = [seen EXCEPT ![j] = 0]
      /\ UNCHANGED <<tip, synced, resync, synced_txs, client, asked, notified, checker, checkFrom,
                     checked, closed>>
  BY Zenon DEF SyncErr, EndSync
<1>2. /\ task'[j] # "syncing"
      /\ \A k \in Kinds : k # j => task'[k] = task[k] /\ seen'[k] = seen[k]
  BY <1>0, <1>1 DEF SyncTypes
<1>3. SyncTypes'
  <2>1. seen' \in [Kinds -> Nat] /\ errors' \in Nat
    BY <1>0, <1>1 DEF SyncTypes
  <2>2. task' \in [Kinds -> {"select", "syncing", "done"}]
    BY <1>0, <1>1 DEF SyncTypes
  <2>3. QED  BY Zenon, <1>0, <1>1, <2>1, <2>2 DEF SyncTypes
<1>4. SeenIsThere'
  BY Zenon, <1>1, <1>2 DEF SyncInv, SeenIsThere
<1>5. \A d \in Clients, k \in Kinds : SenderAt(d, k)'
  BY Zenon, <1>1, <1>2 DEF SyncInv, SenderAt
<1>6. CheckIsCurrent'
  BY Zenon, <1>1 DEF SyncInv, CheckIsCurrent
<1>7. ReceivesAreChecked'
  <2>1. errors' > 0
    BY <1>0, <1>1 DEF SyncTypes
  <2>2. QED  BY Zenon, <2>1 DEF ReceivesAreChecked
<1>8. QED  BY Zenon, <1>3, <1>4, <1>5, <1>6, <1>7 DEF SyncInv

LEMMA SyncShutsDownStep ==
    ASSUME SyncInv, NEW j \in Kinds, SyncShutsDown(j)
    PROVE  SyncInv'
<1>0. SyncTypes
  BY Zenon DEF SyncInv
<1> DEFINE S == synced_txs[j] \cup Range(resync[j])
<1>1. /\ closed /\ task' = [task EXCEPT ![j] = "done"] /\ Answer(S, j, "dropped")
      /\ synced_txs' = [synced_txs EXCEPT ![j] = {}] /\ resync' = [resync EXCEPT ![j] = <<>>]
      /\ UNCHANGED <<tip, synced, seen, asked, errors, notified, checker, checkFrom, checked, closed>>
  BY Zenon DEF SyncShutsDown
<1>2. /\ task'[j] # "syncing" /\ synced_txs'[j] = {} /\ resync'[j] = <<>>
      /\ \A k \in Kinds : k # j => /\ task'[k] = task[k] /\ synced_txs'[k] = synced_txs[k]
                                   /\ resync'[k] = resync[k]
  BY <1>0, <1>1 DEF SyncTypes
<1>3. "dropped" \in ClientStates /\ "dropped" # "ok" /\ "dropped" # "wait"
  BY DEF ClientStates
<1> HIDE DEF S
<1>4. /\ client' \in [Clients -> [Kinds -> ClientStates]]
      /\ \A c \in Clients, k \in Kinds :
            \/ client'[c][k] = client[c][k] /\ ~(k = j /\ c \in S /\ client[c][k] = "wait")
            \/ k = j /\ c \in S /\ client[c][k] = "wait" /\ client'[c][k] = "dropped"
  <2>1. /\ client \in [Clients -> [Kinds -> ClientStates]]
        /\ client' = [c \in Clients |-> IF c \in S /\ client[c][j] = "wait"
                                        THEN [client[c] EXCEPT ![j] = "dropped"] ELSE client[c]]
    BY Zenon, <1>0, <1>1 DEF SyncTypes, Answer
  <2>2. client' \in [Clients -> [Kinds -> ClientStates]]
    BY <1>3, <2>1
  <2>3. ASSUME NEW c \in Clients, NEW k \in Kinds
        PROVE  \/ client'[c][k] = client[c][k] /\ ~(k = j /\ c \in S /\ client[c][k] = "wait")
               \/ /\ k = j /\ c \in S /\ client[c][k] = "wait"
                  /\ client'[c][k] = "dropped"
    BY <2>1
  <2>4. QED  BY Zenon, <2>2, <2>3
<1>5. SyncTypes'
  <2>1. resync' \in [Kinds -> Seq(Clients)]
    BY <1>0, <1>1 DEF SyncTypes
  <2>2. synced_txs' \in [Kinds -> SUBSET Clients]
    BY <1>0, <1>1 DEF SyncTypes
  <2>3. task' \in [Kinds -> {"select", "syncing", "done"}]
    BY <1>0, <1>1 DEF SyncTypes
  <2>4. QED  BY Zenon, <1>0, <1>1, <1>4, <2>1, <2>2, <2>3 DEF SyncTypes
<1>6. SeenIsThere'
  BY Zenon, <1>1, <1>2 DEF SyncInv, SeenIsThere
<1>7. ASSUME NEW d \in Clients, NEW k \in Kinds PROVE SenderAt(d, k)'
  <2>1. SenderAt(d, k)
    BY Zenon DEF SyncInv
  <2>2. CASE k # j
    BY Zenon, <1>1, <1>2, <1>4, <2>1, <2>2 DEF SenderAt
  <2>3. CASE k = j
    <3>1. d \notin synced_txs'[k] \cup Range(resync'[k])
      BY Zenon, <1>2, <2>3, EmptyToSet
    <3>2. client'[d][k] # "wait"
      BY Zenon, <1>3, <1>4, <2>1, <2>3 DEF SenderAt, S
    <3>3. client'[d][k] = "ok" => synced'[k] >= asked'[d]
      BY Zenon, <1>1, <1>3, <1>4, <2>1 DEF SenderAt
    <3>4. QED  BY Zenon, <1>1, <3>1, <3>2, <3>3 DEF SenderAt
  <2>4. QED  BY Zenon, <2>2, <2>3
<1>8. CheckIsCurrent' /\ ReceivesAreChecked'
  BY Zenon, <1>1 DEF SyncInv, CheckIsCurrent, ReceivesAreChecked
<1>9. QED  BY Zenon, <1>5, <1>6, <1>7, <1>8 DEF SyncInv

-----------------------------------------------------------------------------
(* The checker, the timers, the chain and the shutdown. *)

LEMMA CheckerStep ==
    ASSUME SyncInv, CheckStarts \/ CheckOk \/ CheckFails \/ CheckerShutsDown
    PROVE  SyncInv'
<1>0. SyncTypes
  BY Zenon DEF SyncInv
<1>1. UNCHANGED <<tip, synced, task, seen, resync, synced_txs, client, asked, closed>>
  BY Zenon DEF CheckStarts, CheckOk, CheckFails, CheckerShutsDown
<1>2. errors' \in Nat
  BY <1>0 DEF SyncTypes, CheckStarts, CheckOk, CheckFails, CheckerShutsDown
<1>3. SyncTypes' /\ SeenIsThere' /\ \A c \in Clients, k \in Kinds : SenderAt(c, k)'
  BY Zenon, <1>0, <1>1, <1>2 DEF SyncInv, SyncTypes, SeenIsThere, SenderAt
<1>4. CheckIsCurrent' /\ ReceivesAreChecked'
  <2>1. CASE CheckStarts
    BY Zenon, <2>1 DEF CheckStarts, CheckIsCurrent, ReceivesAreChecked
  <2>2. CASE CheckOk
    BY <2>2 DEF CheckOk, SyncInv, CheckIsCurrent, ReceivesAreChecked
  <2>3. CASE CheckFails
    <3>1. errors' > 0 /\ checker' # "checking"
      BY <1>0, <2>3 DEF CheckFails, SyncTypes
    <3>2. QED  BY Zenon, <3>1 DEF CheckIsCurrent, ReceivesAreChecked
  <2>4. CASE CheckerShutsDown
    BY <2>4 DEF CheckerShutsDown, CheckIsCurrent, ReceivesAreChecked
  <2>5. QED  BY Zenon, <2>1, <2>2, <2>3, <2>4
<1>5. QED  BY Zenon, <1>3, <1>4 DEF SyncInv

LEMMA BlockStep ==
    ASSUME SyncInv, BlockArrives
    PROVE  SyncInv'
<1>0. SyncTypes /\ SeenIsThere
  BY Zenon DEF SyncInv
<1>1. /\ tip' = tip + 1
      /\ UNCHANGED <<synced, task, seen, resync, synced_txs, client, asked, errors, notified,
                     checker, checkFrom, checked, closed>>
  BY Zenon DEF BlockArrives
<1>2. tip' \in Nat /\ \A n \in Nat : n <= tip => n <= tip'
  BY <1>0, <1>1 DEF SyncTypes
<1>3. SyncTypes'
  BY Zenon, <1>0, <1>1, <1>2 DEF SyncTypes
<1>4. SeenIsThere'
  <2>1. /\ \A c \in Clients : asked[c] \in Nat
        /\ \A k \in Kinds : synced[k] \in Nat /\ seen[k] \in Nat
    BY Zenon, <1>0 DEF SyncTypes
  <2>2. QED  BY Zenon, <1>0, <1>1, <1>2, <2>1 DEF SeenIsThere
<1>5. \A c \in Clients, k \in Kinds : SenderAt(c, k)'
  BY Zenon, <1>1 DEF SyncInv, SenderAt
<1>6. CheckIsCurrent' /\ ReceivesAreChecked'
  BY Zenon, <1>1 DEF SyncInv, CheckIsCurrent, ReceivesAreChecked
<1>7. QED  BY Zenon, <1>3, <1>4, <1>5, <1>6 DEF SyncInv

(* Steps that leave alone all that the invariant speaks of, but that they  *)
(* may send the shutdown.                                                  *)
LEMMA QuietSyncStep ==
    ASSUME SyncInv,
           UNCHANGED <<tip, synced, task, seen, resync, synced_txs, client, asked, errors, notified,
                       checker, checkFrom, checked>>,
           closed => closed'
    PROVE  SyncInv'
<1>1. SyncTypes' /\ SeenIsThere'
  BY Zenon DEF SyncInv, SyncTypes, SeenIsThere
<1>2. CheckIsCurrent' /\ ReceivesAreChecked'
  BY Zenon DEF SyncInv, CheckIsCurrent, ReceivesAreChecked
<1>3. \A c \in Clients, k \in Kinds : SenderAt(c, k)'
  BY Zenon DEF SyncInv, SenderAt
<1>4. QED  BY Zenon, <1>1, <1>2, <1>3 DEF SyncInv

LEMMA SyncInitially == Init => SyncInv
<1> SUFFICES ASSUME Init PROVE SyncInv
  OBVIOUS
<1>1. SyncTypes
  BY DEF Init, SyncTypes, ClientStates, Kinds
<1>2. SeenIsThere
  BY DEF Init, SeenIsThere, Kinds
<1>3. CheckIsCurrent /\ ReceivesAreChecked
  BY DEF Init, CheckIsCurrent, ReceivesAreChecked, Kinds
<1>4. ASSUME NEW c \in Clients, NEW k \in Kinds PROVE SenderAt(c, k)
  <2>1. client[c][k] = "none" /\ synced_txs[k] = {} /\ resync[k] = <<>>
    BY Zenon DEF Init
  <2>2. c \notin synced_txs[k] \cup Range(resync[k])
    BY Zenon, <2>1, EmptyToSet
  <2>3. "none" # "ok" /\ "none" # "wait" /\ "none" # "dropped"
    OBVIOUS
  <2>4. QED  BY Zenon, <2>1, <2>2, <2>3 DEF SenderAt
<1>5. QED  BY Zenon, <1>1, <1>2, <1>3, <1>4 DEF SyncInv

(* The inductive invariant of the sync tasks: nobody has seen a block that *)
(* is not there, the requests a running sync will answer were made before  *)
(* it read the tip, everyone who waits is known to the task, and a check   *)
(* of an older wallet has a notification behind it.                        *)
THEOREM SyncInvariance == Spec => []SyncInv
<1>1. Init => SyncInv
  BY SyncInitially
<1>2. SyncInv /\ [Next]_vars => SyncInv'
  <2> SUFFICES ASSUME SyncInv, [Next]_vars PROVE SyncInv'
    OBVIOUS
  <2>1. ASSUME NEW c \in Clients, ResyncCall(c) PROVE SyncInv'
    BY Zenon, <2>1, ResyncCallStep
  <2>2. ASSUME NEW c \in Clients, NEW k \in Kinds, ResyncTimesOut(c, k) PROVE SyncInv'
    BY Zenon, <2>2, TimeOutStep
  <2>3. ASSUME NEW k \in Kinds, TimerTicks(k) PROVE SyncInv'
    BY Zenon, <2>3, QuietSyncStep DEF TimerTicks
  <2>4. ASSUME NEW k \in Kinds, SyncStep(k) PROVE SyncInv'
    <3>1. CASE SyncStarts(k)
      BY Zenon, <3>1, SyncStartsStep
    <3>2. CASE SyncOk(k)
      BY Zenon, <3>2, SyncOkStep
    <3>3. CASE SyncErr(k)
      BY Zenon, <3>3, SyncErrStep
    <3>4. CASE SyncShutsDown(k)
      BY Zenon, <3>4, SyncShutsDownStep
    <3>5. QED  BY Zenon, <2>4, <3>1, <3>2, <3>3, <3>4 DEF SyncStep
  <2>5. CASE CheckStarts \/ CheckOk \/ CheckFails \/ CheckerShutsDown
    BY Zenon, <2>5, CheckerStep
  <2>6. CASE BlockArrives
    BY Zenon, <2>6, BlockStep
  <2>7. CASE SendShutdown
    BY Zenon, <2>7, QuietSyncStep DEF SendShutdown
  <2>8. CASE Done \/ UNCHANGED vars
    <3>1. UNCHANGED vars
      BY Zenon, <2>8 DEF Done
    <3>2. QED  BY Zenon, <3>1, QuietSyncStep DEF vars
  <2>9. QED  BY Zenon, <2>1, <2>2, <2>3, <2>4, <2>5, <2>6, <2>7, <2>8 DEF Next
<1>3. QED  BY <1>1, <1>2, PTL DEF Spec


-----------------------------------------------------------------------------
(* Types. *)

LEMMA CallTypes ==
    ASSUME TypeOK, NEW c \in Clients, ResyncCall(c)
    PROVE  TypeOK'
<1> DEFINE bdk == CanSend("bdk")
           ldk == CanSend("bdk") /\ CanSend("ldk")
<1>1. /\ asked' = [asked EXCEPT ![c] = tip]
      /\ resync' = [k \in Kinds |-> IF (k = "bdk" /\ bdk) \/ (k = "ldk" /\ ldk)
                                    THEN Append(resync[k], c) ELSE resync[k]]
      /\ client' = [client EXCEPT ![c] = [k \in Kinds |-> IF bdk /\ ldk THEN "wait" ELSE "refused"]]
      /\ UNCHANGED <<tip, synced, task, seen, due, synced_txs, first, errors, notified, checker,
                     checkFrom, checked, closed>>
  BY Zenon DEF ResyncCall
<1>2. (bdk => Len(resync["bdk"]) < ChannelSize) /\ (ldk => Len(resync["ldk"]) < ChannelSize)
  BY Zenon DEF CanSend
<1> HIDE DEF bdk, ldk
<1>3. asked' \in [Clients -> 0..MaxTip]
  BY <1>1 DEF TypeOK
<1>4. client' \in [Clients -> [Kinds -> {"none", "wait", "ok", "dropped", "timeout", "refused"}]]
  BY <1>1 DEF TypeOK
<1>5. ASSUME NEW k \in Kinds
      PROVE  resync'[k] \in Seq(Clients) /\ Len(resync'[k]) <= ChannelSize
  <2>1. resync[k] \in Seq(Clients) /\ Len(resync[k]) <= ChannelSize
    BY Zenon DEF TypeOK
  <2>2. CASE resync'[k] = resync[k]
    BY Zenon, <2>1, <2>2
  <2>3. CASE resync'[k] = Append(resync[k], c) /\ Len(resync[k]) < ChannelSize
    BY <2>1, <2>3, SyncAssumption
  <2>4. QED  BY Zenon, <1>1, <1>2, <2>2, <2>3
<1>6. QED  BY Zenon, <1>1, <1>3, <1>4, <1>5 DEF TypeOK

LEMMA TaskTypes ==
    ASSUME TypeOK, NEW j \in Kinds, SyncStep(j)
    PROVE  TypeOK'
<1>1. CASE SyncStarts(j)
  <2>1. Range(resync[j]) \subseteq Clients
    BY DEF TypeOK, Range
  <2>2. synced_txs' \in [Kinds -> SUBSET Clients]
    BY <1>1, <2>1 DEF TypeOK, SyncStarts
  <2>3. seen' \in [Kinds -> 0..MaxTip] /\ due' \in [Kinds -> BOOLEAN]
    BY <1>1 DEF TypeOK, SyncStarts
  <2>4. task' \in [Kinds -> {"select", "syncing", "done"}]
    BY <1>1 DEF TypeOK, SyncStarts
  <2>5. \A k \in Kinds : resync'[k] \in Seq(Clients) /\ Len(resync'[k]) <= ChannelSize
    BY <1>1, SyncAssumption DEF TypeOK, SyncStarts
  <2>6. QED  BY Zenon, <1>1, <2>2, <2>3, <2>4, <2>5 DEF TypeOK, SyncStarts
<1>2. CASE SyncOk(j)
  <2>1. synced_txs' \in [Kinds -> SUBSET Clients]
    BY <1>2 DEF TypeOK, SyncOk
  <2>2. seen' \in [Kinds -> 0..MaxTip] /\ synced' \in [Kinds -> 0..MaxTip]
    BY <1>2, SyncAssumption DEF TypeOK, SyncOk, EndSync
  <2>3. task' \in [Kinds -> {"select", "syncing", "done"}]
    BY <1>2 DEF TypeOK, SyncOk, EndSync
  <2>4. first' \in [Kinds -> {"wait", "ok", "err", "dropped"}]
    BY <1>2 DEF TypeOK, SyncOk, FirstResult
  <2>5. client' \in [Clients -> [Kinds -> {"none", "wait", "ok", "dropped", "timeout", "refused"}]]
    BY <1>2 DEF TypeOK, SyncOk, Answer
  <2>6. notified' \in 0..1
    BY <1>2 DEF TypeOK, SyncOk, NotifyChecker
  <2>7. QED  BY Zenon, <1>2, <2>1, <2>2, <2>3, <2>4, <2>5, <2>6 DEF TypeOK, SyncOk
<1>3. CASE SyncErr(j)
  <2>1. seen' \in [Kinds -> 0..MaxTip] /\ errors' \in 0..MaxErrors
    BY <1>3, SyncAssumption DEF TypeOK, SyncErr, EndSync
  <2>2. task' \in [Kinds -> {"select", "syncing", "done"}]
    BY <1>3 DEF TypeOK, SyncErr, EndSync
  <2>3. first' \in [Kinds -> {"wait", "ok", "err", "dropped"}]
    BY <1>3 DEF TypeOK, SyncErr, FirstResult
  <2>4. QED  BY Zenon, <1>3, <2>1, <2>2, <2>3 DEF TypeOK, SyncErr
<1>4. CASE SyncShutsDown(j)
  <2>1. synced_txs' \in [Kinds -> SUBSET Clients]
    BY <1>4 DEF TypeOK, SyncShutsDown
  <2>2. task' \in [Kinds -> {"select", "syncing", "done"}]
    BY <1>4 DEF TypeOK, SyncShutsDown
  <2>3. first' \in [Kinds -> {"wait", "ok", "err", "dropped"}]
    BY <1>4 DEF TypeOK, SyncShutsDown, FirstResult
  <2>4. client' \in [Clients -> [Kinds -> {"none", "wait", "ok", "dropped", "timeout", "refused"}]]
    BY <1>4 DEF TypeOK, SyncShutsDown, Answer
  <2>5. \A k \in Kinds : resync'[k] \in Seq(Clients) /\ Len(resync'[k]) <= ChannelSize
    BY <1>4, SyncAssumption DEF TypeOK, SyncShutsDown
  <2>6. QED  BY Zenon, <1>4, <2>1, <2>2, <2>3, <2>4, <2>5 DEF TypeOK, SyncShutsDown
<1>5. QED  BY Zenon, <1>1, <1>2, <1>3, <1>4 DEF SyncStep

LEMMA TypesInductive == (Init => TypeOK) /\ (TypeOK /\ [Next]_vars => TypeOK')
<1>1. Init => TypeOK
  <2> SUFFICES ASSUME Init PROVE TypeOK
    OBVIOUS
  <2>1. \A k \in Kinds : resync[k] \in Seq(Clients) /\ Len(resync[k]) <= ChannelSize
    BY SyncAssumption DEF Init
  <2>2. /\ tip \in 0..MaxTip /\ synced \in [Kinds -> 0..MaxTip] /\ seen \in [Kinds -> 0..MaxTip]
        /\ asked \in [Clients -> 0..MaxTip] /\ errors \in 0..MaxErrors /\ notified \in 0..1
        /\ checkFrom \in 0..MaxTip /\ checked \in 0..MaxTip
    BY SyncAssumption DEF Init
  <2>3. /\ task \in [Kinds -> {"select", "syncing", "done"}] /\ due \in [Kinds -> BOOLEAN]
        /\ first \in [Kinds -> {"wait", "ok", "err", "dropped"}]
        /\ checker \in {"wait", "checking", "done"} /\ closed \in BOOLEAN
        /\ synced_txs \in [Kinds -> SUBSET Clients]
    BY DEF Init
  <2>4. client \in [Clients -> [Kinds -> {"none", "wait", "ok", "dropped", "timeout", "refused"}]]
    BY DEF Init
  <2>5. QED  BY Zenon, <2>1, <2>2, <2>3, <2>4 DEF TypeOK
<1>2. ASSUME TypeOK, [Next]_vars PROVE TypeOK'
  <2>1. ASSUME NEW c \in Clients, ResyncCall(c) PROVE TypeOK'
    BY Zenon, <1>2, <2>1, CallTypes
  <2>2. ASSUME NEW c \in Clients, NEW k \in Kinds, ResyncTimesOut(c, k) PROVE TypeOK'
    <3>1. client' \in [Clients -> [Kinds -> {"none", "wait", "ok", "dropped", "timeout", "refused"}]]
      BY <1>2, <2>2 DEF TypeOK, ResyncTimesOut
    <3>2. QED  BY Zenon, <1>2, <2>2, <3>1 DEF TypeOK, ResyncTimesOut
  <2>3. ASSUME NEW k \in Kinds, TimerTicks(k) PROVE TypeOK'
    <3>1. due' \in [Kinds -> BOOLEAN]
      BY <1>2, <2>3 DEF TypeOK, TimerTicks
    <3>2. QED  BY Zenon, <1>2, <2>3, <3>1 DEF TypeOK, TimerTicks
  <2>4. ASSUME NEW k \in Kinds, SyncStep(k) PROVE TypeOK'
    BY Zenon, <1>2, <2>4, TaskTypes
  <2>5. CASE CheckStarts
    <3>1. notified' \in 0..1 /\ checker' \in {"wait", "checking", "done"} /\ checkFrom' \in 0..MaxTip
      BY <1>2, <2>5 DEF TypeOK, CheckStarts, Kinds
    <3>2. QED  BY Zenon, <1>2, <2>5, <3>1 DEF TypeOK, CheckStarts
  <2>6. CASE CheckOk
    <3>1. checker' \in {"wait", "checking", "done"} /\ checkFrom' \in 0..MaxTip /\ checked' \in 0..MaxTip
      BY <1>2, <2>6, SyncAssumption DEF TypeOK, CheckOk
    <3>2. QED  BY Zenon, <1>2, <2>6, <3>1 DEF TypeOK, CheckOk
  <2>7. CASE CheckFails
    <3>1. checker' \in {"wait", "checking", "done"} /\ checkFrom' \in 0..MaxTip /\ errors' \in 0..MaxErrors
      BY <1>2, <2>7, SyncAssumption DEF TypeOK, CheckFails
    <3>2. QED  BY Zenon, <1>2, <2>7, <3>1 DEF TypeOK, CheckFails
  <2>8. CASE CheckerShutsDown
    BY <1>2, <2>8 DEF TypeOK, CheckerShutsDown
  <2>9. CASE BlockArrives
    <3>1. tip' \in 0..MaxTip
      BY <1>2, <2>9, SyncAssumption DEF TypeOK, BlockArrives
    <3>2. QED  BY Zenon, <1>2, <2>9, <3>1 DEF TypeOK, BlockArrives
  <2>10. CASE SendShutdown
    BY <1>2, <2>10 DEF TypeOK, SendShutdown
  <2>11. CASE Done \/ UNCHANGED vars
    <3>1. UNCHANGED vars
      BY Zenon, <2>11 DEF Done
    <3>2. QED  BY Zenon, <1>2, <3>1 DEF TypeOK, vars
  <2>12. QED  BY Zenon, <1>2, <2>1, <2>2, <2>3, <2>4, <2>5, <2>6, <2>7, <2>8, <2>9, <2>10, <2>11 DEF Next
<1>3. QED  BY Zenon, <1>1, <1>2

(* No sync is missed, whatever the number of calls, blocks and failures    *)
(* and the size of the channels (NoSyncIsMissed). A resync command that    *)
(* returns Ok has seen, in both wallets, every block that existed when it  *)
(* was called: sync.rs drains the channel before the sync reads the tip,   *)
(* and answers only what it drained. A sender waits in the channel or in   *)
(* synced_txs until it is answered; a failed or timed-out sync loses none. *)
(* And the notification that a BDK sync leaves in a channel of one place   *)
(* is enough for the checker to look at the wallet again, also when the    *)
(* sync ends while an older check still runs.                              *)
THEOREM NoSyncsAreMissed == Spec => []NoSyncIsMissed
<1>1. SyncInv /\ TypeOK => NoSyncIsMissed
  <2>1. SyncInv => ResyncSeesTip
    BY Zenon DEF SyncInv, SenderAt, ResyncSeesTip
  <2>2. SyncInv => NoSenderIsLost
    BY Zenon DEF SyncInv, SenderAt, NoSenderIsLost
  <2>3. QED  BY Zenon, <2>1, <2>2 DEF SyncInv, NoSyncIsMissed
<1>2. Spec => []TypeOK
  BY TypesInductive, PTL DEF Spec
<1>3. QED  BY <1>1, <1>2, SyncInvariance, PTL

-----------------------------------------------------------------------------
(* NodeSupervision.                                                        *)

CONSTANTS Tasks, Fallible, Interruptible, Stuck, TimeLimit, MaxHits, Configs,
          ActivitySize  \* the ChannelSize of NodeSupervision, the activity channel

VARIABLES phase, stage, exit, config, task_sup, closed_sup, recved, activity,
          hits, firstSync, told, ready

Sup == INSTANCE NodeSupervision WITH
    task <- task_sup, closed <- closed_sup, ChannelSize <- ActivitySize

(* The tasks are among those that a node has. *)
TasksAreKnown == Tasks \subseteq Sup!AllTasks

TaskStates == {"none", "idle", "busy", "stopping", "done", "panicked", "joined"}

SupTypes ==
    /\ task_sup \in [Tasks -> TaskStates]
    /\ firstSync \in [Sup!SyncTasks -> {"none", "wait", "ok", "err", "dropped"}]

(* The stages of init and sync in their order, and the one that spawns a task. *)
Stages == <<"secrets", "vfs", "reads", "wallet", "peers", "payments", "servers", "bgp", "spawn",
            "first", "lsp", "ready", "done">>

Rank(s) == CHOOSE i \in 1..13 : Stages[i] = s

SpawnedIn(t) ==
    CASE t = "refresh fees" -> 1
      [] t = "credentials" -> 2
      [] t = "wallet db" -> 4
      [] t = "reconnector" -> 5
      [] t \in {"payments", "monitors"} -> 6
      [] t \in {"app server", "lexe server"} -> 7
      [] t = "bgp" -> 8
      [] t \in Sup!SyncTasks -> 9
      [] t = "timer" -> 12
      [] OTHER -> 0

(* Each task is spawned once, in its stage; and a handle whose recv has    *)
(* resolved belongs to a task that was spawned and no longer waits.        *)
SpawnedInStage == \A t \in Tasks : Rank(stage) <= SpawnedIn(t) => task_sup[t] = "none"

HandleIsUsed == \A t \in Tasks : task_sup[t] \in {"none", "idle", "busy"} => t \notin recved

(* What init and sync have found out by each stage. *)
StageMeans ==
    /\ stage # "secrets" => config.seed = "ok" /\ config.argsMatch
    /\ stage \notin {"secrets", "vfs", "reads"} => Sup!Authorized
    /\ stage \in {"lsp", "ready", "done"} => \A k \in Sup!SyncTasks : firstSync[k] = "ok"
    /\ stage \in {"ready", "done"} => /\ Sup!UsesLsp => told
                                      /\ config.allow_mock => ~Sup!UsesLsp
    /\ ready => stage = "done"

(* How far the process has come. *)
PhaseMeans ==
    /\ phase \in {"running", "joining"} => ready
    /\ phase = "joining" => closed_sup
    /\ phase # "exited" => exit = "none"

SupInv ==
    SupTypes /\ SpawnedInStage /\ HandleIsUsed /\ StageMeans /\ PhaseMeans /\ Sup!CleanExit

-----------------------------------------------------------------------------
(* Steps that leave the stage alone. *)

(* The rest of the invariant, when the stage, the arguments and what sync  *)
(* found out do not change.                                                *)
LEMMA StageKept ==
    ASSUME SupInv, UNCHANGED <<stage, config, told, ready>>,
           \A k \in Sup!SyncTasks : firstSync[k] = "ok" => firstSync'[k] = "ok"
    PROVE  StageMeans'
BY Zenon DEF SupInv, StageMeans, Sup!Authorized, Sup!UsesLsp

LEMMA SpawnedKept ==
    ASSUME SupInv, stage' = stage,
           \A t \in Tasks : task_sup[t] = "none" => task_sup'[t] = "none"
    PROVE  SpawnedInStage'
BY Zenon DEF SupInv, SpawnedInStage

(* While the process lives, exit says nothing yet. *)
LEMMA ExitKept ==
    ASSUME SupInv, Sup!ProcessLives, UNCHANGED <<exit, ready>>, closed_sup => closed_sup',
           \/ phase' = phase
           \/ phase' = "joining" /\ ready /\ closed_sup'
    PROVE  PhaseMeans' /\ Sup!CleanExit'
<1>1. exit = "none" /\ exit' = "none" /\ phase' # "exited"
  BY DEF SupInv, PhaseMeans, Sup!ProcessLives
<1>2. Sup!CleanExit'
  BY <1>1 DEF Sup!CleanExit
<1>3. PhaseMeans'
  BY <1>1 DEF SupInv, PhaseMeans
<1>4. QED  BY <1>2, <1>3

(* A step that moves no task. *)
LEMMA OtherStep ==
    ASSUME SupInv, Sup!ProcessLives, UNCHANGED <<stage, exit, config, task_sup, told, ready>>,
           firstSync' \in [Sup!SyncTasks -> {"none", "wait", "ok", "err", "dropped"}],
           \A k \in Sup!SyncTasks : firstSync[k] = "ok" => firstSync'[k] = "ok",
           closed_sup => closed_sup',
           \A t \in Tasks : t \in recved' => t \in recved,
           \/ phase' = phase
           \/ phase' = "joining" /\ ready /\ closed_sup'
    PROVE  SupInv'
<1>1. SupTypes'
  BY Zenon DEF SupInv, SupTypes
<1>2. HandleIsUsed'
  BY Zenon DEF SupInv, HandleIsUsed
<1>3. SpawnedInStage'
  BY Zenon, SpawnedKept
<1>4. StageMeans'
  BY Zenon, StageKept
<1>5. PhaseMeans' /\ Sup!CleanExit'
  BY Zenon, ExitKept
<1>6. QED  BY Zenon, <1>1, <1>2, <1>3, <1>4, <1>5 DEF SupInv

(* A step that moves one task, which was spawned. *)
LEMMA TaskStep ==
    ASSUME SupInv, Sup!ProcessLives, NEW t \in Tasks, NEW s \in TaskStates \ {"none"},
           task_sup[t] # "none", task_sup' = [task_sup EXCEPT ![t] = s],
           UNCHANGED <<stage, exit, config, told, ready>>,
           firstSync' \in [Sup!SyncTasks -> {"none", "wait", "ok", "err", "dropped"}],
           \A k \in Sup!SyncTasks : firstSync[k] = "ok" => firstSync'[k] = "ok",
           closed_sup => closed_sup',
           \A u \in Tasks : u \in recved' => u \in recved \/ u = t,
           s \in {"idle", "busy"} => Sup!Alive(t) /\ recved' = recved,
           \/ phase' = phase
           \/ phase' = "joining" /\ ready /\ closed_sup'
    PROVE  SupInv'
<1>1. /\ task_sup \in [Tasks -> TaskStates] /\ task_sup' \in [Tasks -> TaskStates]
      /\ task_sup'[t] = s /\ \A u \in Tasks : u # t => task_sup'[u] = task_sup[u]
  BY DEF SupInv, SupTypes
<1>2. SupTypes'
  BY Zenon, <1>1 DEF SupTypes
<1>3. HandleIsUsed'
  <2>1. SUFFICES ASSUME NEW u \in Tasks, task_sup'[u] \in {"none", "idle", "busy"}
                 PROVE  u \notin recved'
    BY Zenon DEF HandleIsUsed
  <2>2. CASE u = t
    <3>1. s \in {"idle", "busy"}
      BY Zenon, <1>1, <2>1, <2>2
    <3>2. task_sup[t] \in {"none", "idle", "busy"} /\ recved' = recved
      BY Zenon, <3>1 DEF Sup!Alive
    <3>3. QED  BY Zenon, <2>2, <3>2 DEF SupInv, HandleIsUsed
  <2>3. CASE u # t
    BY Zenon, <1>1, <2>1, <2>3 DEF SupInv, HandleIsUsed
  <2>4. QED  BY Zenon, <2>2, <2>3
<1>4. SpawnedInStage'
  BY Zenon, <1>1, SpawnedKept
<1>5. StageMeans'
  BY Zenon, StageKept
<1>6. PhaseMeans' /\ Sup!CleanExit'
  BY Zenon, ExitKept
<1>7. QED  BY Zenon, <1>2, <1>3, <1>4, <1>5, <1>6 DEF SupInv

LEMMA ExitStep ==
    ASSUME SupInv, NEW reason, Sup!ExitWith(reason),
           reason \in {"ok", "timeout"} => phase = "joining",
           reason = "ok" => \A t \in Tasks : task_sup[t] \in {"none", "joined"}
    PROVE  SupInv'
<1>1. /\ phase' = "exited" /\ exit' = reason
      /\ UNCHANGED <<stage, config, task_sup, closed_sup, recved, firstSync, told, ready>>
  BY Zenon DEF Sup!ExitWith
<1>2. Sup!CleanExit'
  BY Zenon, <1>1 DEF SupInv, PhaseMeans, Sup!CleanExit
<1>3. PhaseMeans'
  BY <1>1 DEF PhaseMeans
<1>4. SupTypes' /\ HandleIsUsed'
  BY Zenon, <1>1 DEF SupInv, SupTypes, HandleIsUsed
<1>5. SpawnedInStage' /\ StageMeans'
  BY Zenon, <1>1, SpawnedKept, StageKept
<1>6. QED  BY Zenon, <1>2, <1>3, <1>4, <1>5 DEF SupInv

-----------------------------------------------------------------------------
(* Steps to the next stage. *)

LEMMA RankIs ==
    /\ Rank("secrets") = 1 /\ Rank("vfs") = 2 /\ Rank("reads") = 3 /\ Rank("wallet") = 4
    /\ Rank("peers") = 5 /\ Rank("payments") = 6 /\ Rank("servers") = 7 /\ Rank("bgp") = 8
    /\ Rank("spawn") = 9 /\ Rank("first") = 10 /\ Rank("lsp") = 11 /\ Rank("ready") = 12
    /\ Rank("done") = 13
BY DEF Rank, Stages

LEMMA SpawnedInIs ==
    /\ SpawnedIn("refresh fees") = 1 /\ SpawnedIn("credentials") = 2
    /\ SpawnedIn("wallet db") = 4 /\ SpawnedIn("reconnector") = 5
    /\ SpawnedIn("payments") = 6 /\ SpawnedIn("monitors") = 6
    /\ SpawnedIn("app server") = 7 /\ SpawnedIn("lexe server") = 7
    /\ SpawnedIn("bgp") = 8
    /\ SpawnedIn("bdk sync") = 9 /\ SpawnedIn("ldk sync") = 9
    /\ SpawnedIn("timer") = 12
    /\ \A t : SpawnedIn(t) \in Nat
BY DEF SpawnedIn, Sup!SyncTasks

(* Between two stages, tasks of S are spawned. *)
Spawns(from, to, S) ==
    /\ Rank(from) \in Nat /\ Rank(to) = Rank(from) + 1
    /\ \A t \in S : SpawnedIn(t) = Rank(from)

LEMMA StagesSpawn ==
    /\ Spawns("secrets", "vfs", {"refresh fees"})
    /\ Spawns("vfs", "reads", {"credentials"}) /\ Spawns("vfs", "reads", {})
    /\ Spawns("reads", "wallet", {}) /\ Spawns("wallet", "peers", {"wallet db"})
    /\ Spawns("peers", "payments", {"reconnector"})
    /\ Spawns("payments", "servers", {"payments", "monitors"})
    /\ Spawns("servers", "bgp", {"app server", "lexe server"})
    /\ Spawns("bgp", "spawn", {"bgp"}) /\ Spawns("spawn", "first", Sup!SyncTasks)
    /\ Spawns("first", "lsp", {}) /\ Spawns("lsp", "ready", {})
    /\ Spawns("ready", "done", {"timer"})
<1>1. /\ 1 \in Nat /\ 2 \in Nat /\ 3 \in Nat /\ 4 \in Nat /\ 5 \in Nat /\ 6 \in Nat /\ 7 \in Nat
      /\ 8 \in Nat /\ 9 \in Nat /\ 10 \in Nat /\ 11 \in Nat /\ 12 \in Nat
      /\ 2 = 1 + 1 /\ 3 = 2 + 1 /\ 4 = 3 + 1 /\ 5 = 4 + 1 /\ 6 = 5 + 1 /\ 7 = 6 + 1 /\ 8 = 7 + 1
      /\ 9 = 8 + 1 /\ 10 = 9 + 1 /\ 11 = 10 + 1 /\ 12 = 11 + 1 /\ 13 = 12 + 1
  OBVIOUS
<1>2. QED  BY Zenon, <1>1, RankIs, SpawnedInIs DEF Spawns, Sup!SyncTasks

LEMMA SpawnStep ==
    ASSUME SupInv, NEW S, Sup!Spawn(S), Spawns(stage, stage', S), recved' = recved
    PROVE  task_sup' \in [Tasks -> TaskStates] /\ SpawnedInStage' /\ HandleIsUsed'
<1>1. task_sup \in [Tasks -> TaskStates] /\ task_sup' = [t \in Tasks |-> IF t \in S THEN "idle" ELSE task_sup[t]]
  BY Zenon DEF SupInv, SupTypes, Sup!Spawn
<1>2. task_sup' \in [Tasks -> TaskStates]
  BY <1>1 DEF TaskStates
<1>3. \A t \in Tasks : task_sup'[t] = IF t \in S THEN "idle" ELSE task_sup[t]
  BY Zenon, <1>1
<1>4. SpawnedInStage'
  <2>1. SUFFICES ASSUME NEW t \in Tasks, Rank(stage') <= SpawnedIn(t) PROVE task_sup'[t] = "none"
    BY Zenon DEF SpawnedInStage
  <2>2. Rank(stage) <= SpawnedIn(t) /\ SpawnedIn(t) # Rank(stage)
    <3>1. /\ Rank(stage) \in Nat /\ SpawnedIn(t) \in Nat
          /\ Rank(stage) + 1 <= SpawnedIn(t)
      BY Zenon, <2>1, SpawnedInIs DEF Spawns
    <3>2. QED  BY ONLY <3>1
  <2>3. QED  BY Zenon, <1>3, <2>2 DEF SupInv, SpawnedInStage, Spawns
<1>5. HandleIsUsed'
  <2>1. SUFFICES ASSUME NEW t \in Tasks, task_sup'[t] \in {"none", "idle", "busy"}
                 PROVE  t \notin recved
    BY Zenon DEF HandleIsUsed
  <2>2. task_sup[t] \in {"none", "idle", "busy"}
    <3>1. CASE t \in S
      <4>1. Rank(stage) <= SpawnedIn(t)
        BY <3>1 DEF Spawns
      <4>2. QED  BY Zenon, <4>1 DEF SupInv, SpawnedInStage
    <3>2. CASE t \notin S
      BY Zenon, <1>3, <2>1, <3>2
    <3>3. QED  BY Zenon, <3>1, <3>2
  <2>3. QED  BY Zenon, <2>2 DEF SupInv, HandleIsUsed
<1>6. QED  BY Zenon, <1>2, <1>4, <1>5

LEMMA StageStep ==
    ASSUME SupInv, NEW S, Sup!Spawn(S), Spawns(stage, stage', S), Sup!ProcessLives,
           UNCHANGED <<exit, closed_sup, recved>>,
           firstSync' \in [Sup!SyncTasks -> {"none", "wait", "ok", "err", "dropped"}],
           StageMeans', phase' \in {"running", "joining"} => ready', phase' # "joining", phase' # "exited"
    PROVE  SupInv'
<1>1. task_sup' \in [Tasks -> TaskStates] /\ SpawnedInStage' /\ HandleIsUsed'
  BY Zenon, SpawnStep
<1>2. SupTypes'
  BY Zenon, <1>1 DEF SupTypes
<1>3. exit' = "none"
  BY Zenon DEF SupInv, PhaseMeans, Sup!ProcessLives
<1>4. PhaseMeans' /\ Sup!CleanExit'
  BY <1>3 DEF PhaseMeans, Sup!CleanExit
<1>5. QED  BY Zenon, <1>1, <1>2, <1>4 DEF SupInv

(* The stages of init: the next one knows what this one has checked. *)
LEMMA AdvanceStep ==
    ASSUME SupInv, NEW from, NEW to, NEW S, Sup!Advance(from, to, S), Spawns(from, to, S),
           from # "done", to \notin {"secrets", "lsp", "ready", "done"},
           from = "secrets" => config.seed = "ok" /\ config.argsMatch,
           from \in {"secrets", "vfs", "reads"} => to \in {"vfs", "reads"} \/ Sup!Authorized
    PROVE  SupInv'
<1>1. /\ phase = "init" /\ stage = from /\ stage' = to /\ Sup!Spawn(S) /\ phase' = phase
      /\ UNCHANGED <<exit, config, closed_sup, recved, firstSync, told, ready>>
  BY Zenon DEF Sup!Advance
<1>2. "init" \notin {"running", "joining", "exited"}
  OBVIOUS
<1>4. StageMeans'
  <2>1. config.seed = "ok" /\ config.argsMatch
    BY Zenon, <1>1 DEF SupInv, StageMeans
  <2>2. to \notin {"vfs", "reads"} => Sup!Authorized
    BY Zenon, <1>1 DEF SupInv, StageMeans
  <2>3. ~ready
    BY Zenon, <1>1 DEF SupInv, StageMeans
  <2>4. QED  BY <1>1, <2>1, <2>2, <2>3 DEF StageMeans, Sup!Authorized
<1>5. QED
  <2>1. /\ Spawns(stage, stage', S) /\ Sup!ProcessLives
        /\ firstSync' \in [Sup!SyncTasks -> {"none", "wait", "ok", "err", "dropped"}]
        /\ phase' \in {"running", "joining"} => ready'
        /\ phase' # "joining" /\ phase' # "exited"
    BY <1>1, <1>2 DEF Sup!ProcessLives, SupInv, SupTypes
  <2>2. QED  BY Zenon, <1>1, <1>4, <2>1, StageStep

LEMMA InitStep ==
    ASSUME SupInv, Sup!InitNext
    PROVE  SupInv'
<1>1. /\ "secrets" # "done" /\ "vfs" # "done" /\ "reads" # "done" /\ "wallet" # "done"
      /\ "peers" # "done" /\ "payments" # "done" /\ "servers" # "done"
      /\ \A x \in {"vfs", "reads", "wallet", "peers", "payments", "servers", "bgp"} :
            x \notin {"secrets", "lsp", "ready", "done"}
      /\ \A x \in {"wallet", "peers", "payments", "servers", "bgp"} :
            x \notin {"secrets", "vfs", "reads"}
      /\ "vfs" # "secrets" /\ "reads" # "secrets"
  OBVIOUS
<1>2. CASE Sup!fetch_provisioned_secrets
  BY Zenon, <1>1, <1>2, StagesSpawn, AdvanceStep DEF Sup!fetch_provisioned_secrets
<1>3. CASE Sup!init_google_vfs
  <2>1. CASE config.prod
    BY Zenon, <1>1, <1>3, <2>1, StagesSpawn, AdvanceStep DEF Sup!init_google_vfs
  <2>2. CASE ~config.prod
    BY Zenon, <1>1, <1>3, <2>2, StagesSpawn, AdvanceStep DEF Sup!init_google_vfs
  <2>3. QED  BY Zenon, <2>1, <2>2
<1>4. CASE Sup!ReadPersisted
  BY Zenon, <1>1, <1>4, StagesSpawn, AdvanceStep DEF Sup!ReadPersisted
<1>5. CASE Sup!InitWallet
  BY Zenon, <1>1, <1>5, StagesSpawn, AdvanceStep DEF Sup!InitWallet
<1>6. CASE Sup!InitPeers
  BY Zenon, <1>1, <1>6, StagesSpawn, AdvanceStep DEF Sup!InitPeers
<1>7. CASE Sup!InitPayments
  BY Zenon, <1>1, <1>7, StagesSpawn, AdvanceStep DEF Sup!InitPayments
<1>8. CASE Sup!InitServers
  BY Zenon, <1>1, <1>8, StagesSpawn, AdvanceStep DEF Sup!InitServers
<1>9. CASE Sup!InitBgp
  <2>1. /\ phase = "init" /\ stage = "bgp" /\ stage' = "spawn" /\ phase' = "sync" /\ Sup!Spawn({"bgp"})
        /\ UNCHANGED <<exit, config, closed_sup, recved, firstSync, told, ready>>
    BY Zenon, <1>9 DEF Sup!InitBgp
  <2>2. StageMeans'
    BY <2>1 DEF SupInv, StageMeans, Sup!Authorized
  <2>3. /\ Sup!ProcessLives /\ phase' \notin {"running", "joining"} /\ phase' # "exited" /\ phase' # "joining"
        /\ firstSync' \in [Sup!SyncTasks -> {"none", "wait", "ok", "err", "dropped"}]
    BY <2>1 DEF Sup!ProcessLives, SupInv, SupTypes
  <2>4. Spawns(stage, stage', {"bgp"})
    BY Zenon, <2>1, StagesSpawn
  <2>5. QED  BY Zenon, <2>1, <2>2, <2>3, <2>4, StageStep
<1>10. CASE Sup!InitFails
  <2>1. "error" \notin {"ok", "timeout"} /\ "error" # "ok"
    OBVIOUS
  <2>2. QED  BY Zenon, <1>10, <2>1, ExitStep DEF Sup!InitFails
<1>11. QED
  BY Zenon, <1>2, <1>3, <1>4, <1>5, <1>6, <1>7, <1>8, <1>9, <1>10 DEF Sup!InitNext

LEMMA SyncSteps ==
    ASSUME SupInv, Sup!SyncNext
    PROVE  SupInv'
<1>0. /\ task_sup \in [Tasks -> TaskStates]
      /\ firstSync \in [Sup!SyncTasks -> {"none", "wait", "ok", "err", "dropped"}]
  BY Zenon DEF SupInv, SupTypes
<1>a. task_sup' = task_sup => Sup!Spawn({})
  BY <1>0 DEF Sup!Spawn
<1>b. "error" \notin {"ok", "timeout"} /\ "error" # "ok"
  OBVIOUS
<1>1. CASE Sup!StartSync
  <2>1. /\ phase = "sync" /\ stage = "spawn" /\ stage' = "first" /\ phase' = phase /\ Sup!Spawn(Sup!SyncTasks)
        /\ firstSync' = [k \in Sup!SyncTasks |-> "wait"]
        /\ UNCHANGED <<exit, config, closed_sup, recved, told, ready>>
    BY Zenon, <1>1 DEF Sup!StartSync
  <2>2. StageMeans'
    BY <2>1 DEF SupInv, StageMeans, Sup!Authorized
  <2>3. /\ Sup!ProcessLives /\ phase' \notin {"running", "joining"} /\ phase' # "exited" /\ phase' # "joining"
        /\ firstSync' \in [Sup!SyncTasks -> {"none", "wait", "ok", "err", "dropped"}]
    BY <2>1 DEF Sup!ProcessLives
  <2>4. Spawns(stage, stage', Sup!SyncTasks)
    BY Zenon, <2>1, StagesSpawn
  <2>5. QED  BY Zenon, <2>1, <2>2, <2>3, <2>4, StageStep
<1>2. CASE \E k \in Sup!SyncTasks : Sup!FirstSync(k)
  <2>1. PICK k \in Sup!SyncTasks : Sup!FirstSync(k)
    BY Zenon, <1>2
  <2>2. PICK result \in {"ok", "err"} : firstSync' = [firstSync EXCEPT ![k] = result]
    BY Zenon, <2>1 DEF Sup!FirstSync
  <2>3. /\ Sup!ProcessLives /\ firstSync[k] = "wait"
        /\ UNCHANGED <<phase, stage, exit, config, task_sup, closed_sup, recved, told, ready>>
    BY Zenon, <2>1 DEF Sup!FirstSync
  <2>4. /\ firstSync' \in [Sup!SyncTasks -> {"none", "wait", "ok", "err", "dropped"}]
        /\ \A j \in Sup!SyncTasks : firstSync[j] = "ok" => firstSync'[j] = "ok"
    BY <1>0, <2>2, <2>3
  <2>5. QED  BY Zenon, <2>3, <2>4, OtherStep
<1>3. CASE Sup!FirstSyncsDone
  <2>1. /\ phase = "sync" /\ stage = "first" /\ stage' = "lsp" /\ phase' = phase
        /\ \A k \in Sup!SyncTasks : firstSync[k] = "ok"
        /\ UNCHANGED <<exit, config, task_sup, closed_sup, recved, firstSync, told, ready>>
    BY Zenon, <1>3 DEF Sup!FirstSyncsDone
  <2>2. StageMeans'
    BY <2>1 DEF SupInv, StageMeans, Sup!Authorized
  <2>3. Sup!ProcessLives /\ phase' \notin {"running", "joining"} /\ phase' # "exited" /\ phase' # "joining"
    BY <2>1 DEF Sup!ProcessLives
  <2>4. Spawns(stage, stage', {})
    BY Zenon, <2>1, StagesSpawn
  <2>5. QED  BY Zenon, <1>0, <1>a, <2>1, <2>2, <2>3, <2>4, StageStep
<1>4. CASE Sup!FirstSyncFails
  BY Zenon, <1>4, <1>b, ExitStep DEF Sup!FirstSyncFails
<1>5. CASE Sup!maybe_reconnect_to_lsp
  <2>1. /\ phase = "sync" /\ stage = "lsp" /\ stage' = "ready" /\ phase' = phase
        /\ config.allow_mock = ~Sup!UsesLsp /\ told' = Sup!UsesLsp
        /\ UNCHANGED <<exit, config, task_sup, closed_sup, recved, firstSync, ready>>
    BY Zenon, <1>5 DEF Sup!maybe_reconnect_to_lsp
  <2>2. StageMeans'
    <3>1. /\ stage \notin {"secrets", "vfs", "reads", "done"} /\ stage # "secrets"
          /\ stage \in {"lsp", "ready", "done"} /\ stage' # "secrets"
      BY <2>1
    <3>2. /\ config.seed = "ok" /\ config.argsMatch /\ Sup!Authorized /\ ~ready
          /\ \A k \in Sup!SyncTasks : firstSync[k] = "ok"
      BY <3>1 DEF SupInv, StageMeans
    <3>3. (Sup!UsesLsp => told') /\ (config.allow_mock => ~Sup!UsesLsp)
      BY Zenon, <2>1
    <3>4. QED  BY Zenon, <2>1, <3>2, <3>3 DEF StageMeans, Sup!Authorized, Sup!UsesLsp
  <2>3. Sup!ProcessLives /\ phase' \notin {"running", "joining"} /\ phase' # "exited" /\ phase' # "joining"
    BY <2>1 DEF Sup!ProcessLives
  <2>4. Spawns(stage, stage', {})
    BY Zenon, <2>1, StagesSpawn
  <2>5. QED  BY Zenon, <1>0, <1>a, <2>1, <2>2, <2>3, <2>4, StageStep
<1>6. CASE Sup!ReconnectFails
  BY Zenon, <1>6, <1>b, ExitStep DEF Sup!ReconnectFails
<1>7. CASE Sup!NotifyReady
  <2>1. /\ phase = "sync" /\ stage = "ready" /\ stage' = "done" /\ phase' = "running"
        /\ ready' = TRUE /\ Sup!Spawn({"timer"})
        /\ UNCHANGED <<exit, config, closed_sup, recved, firstSync, told>>
    BY Zenon, <1>7 DEF Sup!NotifyReady
  <2>2. StageMeans'
    <3>1. stage \notin {"secrets", "vfs", "reads"} /\ stage # "secrets"
      BY <2>1
    <3>2. /\ config.seed = "ok" /\ config.argsMatch /\ Sup!Authorized
          /\ \A k \in Sup!SyncTasks : firstSync[k] = "ok"
          /\ (Sup!UsesLsp => told) /\ (config.allow_mock => ~Sup!UsesLsp)
      BY Zenon, <2>1, <3>1 DEF SupInv, StageMeans
    <3>3. QED  BY Zenon, <2>1, <3>2 DEF StageMeans, Sup!Authorized, Sup!UsesLsp
  <2>3. Sup!ProcessLives /\ ready' /\ phase' # "exited" /\ phase' # "joining"
    BY <2>1 DEF Sup!ProcessLives
  <2>4. Spawns(stage, stage', {"timer"})
    BY Zenon, <2>1, StagesSpawn
  <2>5. QED  BY Zenon, <1>0, <2>1, <2>2, <2>3, <2>4, StageStep
<1>8. CASE Sup!NotifyReadyFails
  BY Zenon, <1>8, <1>b, ExitStep DEF Sup!NotifyReadyFails
<1>9. QED
  BY Zenon, <1>1, <1>2, <1>3, <1>4, <1>5, <1>6, <1>7, <1>8 DEF Sup!SyncNext

-----------------------------------------------------------------------------
(* run() and the tasks. *)

LEMMA RunSteps ==
    ASSUME SupInv, TasksAreKnown, Sup!RunNext
    PROVE  SupInv'
<1>0. /\ firstSync \in [Sup!SyncTasks -> {"none", "wait", "ok", "err", "dropped"}]
      /\ phase \in {"running", "joining"} => ready
  BY Zenon DEF SupInv, SupTypes, PhaseMeans
<1>a. /\ "running" # "exited" /\ "joining" # "exited" /\ "done" # "none"
      /\ "joined" \in TaskStates \ {"none"} /\ "joined" \notin {"idle", "busy"}
      /\ "panic" \notin {"ok", "timeout"} /\ "panic" # "ok" /\ "timeout" # "ok"
  BY DEF TaskStates
<1>1. CASE Sup!RunRecvsShutdown
  <2>1. /\ phase = "running" /\ closed_sup /\ recved' = recved \cup {"main"} /\ phase' = "joining"
        /\ UNCHANGED <<stage, exit, config, task_sup, closed_sup, firstSync, told, ready>>
    BY Zenon, <1>1 DEF Sup!RunRecvsShutdown, Sup!CanRecv
  <2>2. "main" \notin Tasks
    BY Zenon DEF TasksAreKnown, Sup!AllTasks, Sup!SyncTasks
  <2>3. QED  BY Zenon, <1>0, <1>a, <2>1, <2>2, OtherStep DEF Sup!ProcessLives
<1>2. CASE Sup!JoinedAll
  BY Zenon, <1>2, ExitStep DEF Sup!JoinedAll
<1>3. CASE Sup!JoinTimesOut
  BY Zenon, <1>3, <1>a, ExitStep DEF Sup!JoinTimesOut
<1>4. ASSUME NEW t \in Tasks, Sup!RunSeesFinishedTask(t) PROVE SupInv'
  <2>1. /\ phase = "running" /\ task_sup[t] = "done" /\ task_sup' = [task_sup EXCEPT ![t] = "joined"]
        /\ closed_sup' /\ phase' = "joining"
        /\ UNCHANGED <<stage, exit, config, recved, firstSync, told, ready>>
    BY Zenon, <1>4 DEF Sup!RunSeesFinishedTask
  <2>2. QED  BY Zenon, <1>0, <1>a, <2>1, TaskStep DEF Sup!ProcessLives
<1>5. ASSUME NEW t \in Tasks, Sup!PropagatePanic(t) PROVE SupInv'
  BY Zenon, <1>5, <1>a, ExitStep DEF Sup!PropagatePanic
<1>6. ASSUME NEW t \in Tasks, Sup!JoinTask(t) PROVE SupInv'
  <2>1. /\ phase = "joining" /\ task_sup[t] = "done" /\ task_sup' = [task_sup EXCEPT ![t] = "joined"]
        /\ UNCHANGED <<phase, stage, exit, config, closed_sup, recved, firstSync, told, ready>>
    BY Zenon, <1>6 DEF Sup!JoinTask
  <2>2. QED  BY Zenon, <1>0, <1>a, <2>1, TaskStep DEF Sup!ProcessLives
<1>7. QED  BY Zenon, <1>1, <1>2, <1>3, <1>4, <1>5, <1>6 DEF Sup!RunNext

LEMMA TaskSteps ==
    ASSUME SupInv, NEW t \in Tasks, Sup!TaskNext(t)
    PROVE  SupInv'
<1>0. firstSync \in [Sup!SyncTasks -> {"none", "wait", "ok", "err", "dropped"}]
  BY Zenon DEF SupInv, SupTypes
<1>a. /\ "idle" # "none" /\ "busy" # "none" /\ "stopping" # "none"
      /\ {"idle", "busy", "stopping", "done", "panicked"} \subseteq TaskStates \ {"none"}
      /\ "stopping" \notin {"idle", "busy"} /\ "done" \notin {"idle", "busy"}
      /\ "panicked" \notin {"idle", "busy"}
  BY DEF TaskStates
<1>b. Sup!DropSender(t) => /\ firstSync' \in [Sup!SyncTasks -> {"none", "wait", "ok", "err", "dropped"}]
                           /\ \A k \in Sup!SyncTasks : firstSync[k] = "ok" => firstSync'[k] = "ok"
  BY <1>0 DEF Sup!DropSender
<1>1. CASE Sup!BeginWork(t)
  <2>1. /\ Sup!ProcessLives /\ task_sup[t] = "idle" /\ task_sup' = [task_sup EXCEPT ![t] = "busy"]
        /\ UNCHANGED <<phase, stage, exit, config, closed_sup, recved, firstSync, told, ready>>
    BY Zenon, <1>1 DEF Sup!BeginWork
  <2>2. QED  BY Zenon, <1>0, <1>a, <2>1, TaskStep DEF Sup!Alive
<1>2. CASE Sup!EndWork(t)
  <2>1. /\ Sup!ProcessLives /\ task_sup[t] = "busy" /\ task_sup' = [task_sup EXCEPT ![t] = "idle"]
        /\ UNCHANGED <<phase, stage, exit, config, closed_sup, recved, firstSync, told, ready>>
    BY Zenon, <1>2 DEF Sup!EndWork
  <2>2. QED  BY Zenon, <1>0, <1>a, <2>1, TaskStep DEF Sup!Alive
<1>3. CASE Sup!TaskRecvsShutdown(t)
  <2>1. /\ Sup!ProcessLives /\ recved' = recved \cup {t}
        /\ task_sup[t] = "idle" \/ task_sup[t] = "busy"
        /\ task_sup' = [task_sup EXCEPT ![t] = "stopping"] /\ Sup!DropSender(t)
        /\ UNCHANGED <<phase, stage, exit, config, closed_sup, told, ready>>
    BY Zenon, <1>3 DEF Sup!TaskRecvsShutdown
  <2>2. \A u \in Tasks : u \in recved' => u \in recved \/ u = t
    BY Zenon, <2>1
  <2>3. QED  BY Zenon, <1>a, <1>b, <2>1, <2>2, TaskStep
<1>4. CASE Sup!TaskEnds(t)
  <2>1. /\ Sup!ProcessLives /\ task_sup[t] = "stopping" /\ task_sup' = [task_sup EXCEPT ![t] = "done"]
        /\ UNCHANGED <<phase, stage, exit, config, closed_sup, recved, firstSync, told, ready>>
    BY Zenon, <1>4 DEF Sup!TaskEnds
  <2>2. QED  BY Zenon, <1>0, <1>a, <2>1, TaskStep
<1>5. CASE Sup!TaskEndsEarly(t)
  <2>1. PICK end \in {"done", "panicked"} : task_sup' = [task_sup EXCEPT ![t] = end]
    BY Zenon, <1>5 DEF Sup!TaskEndsEarly
  <2>2. /\ Sup!ProcessLives /\ task_sup[t] # "none" /\ Sup!DropSender(t)
        /\ UNCHANGED <<phase, stage, exit, config, closed_sup, recved, told, ready>>
    BY Zenon, <1>5, <1>a DEF Sup!TaskEndsEarly, Sup!Alive
  <2>3. QED  BY Zenon, <1>a, <1>b, <2>1, <2>2, TaskStep
<1>6. CASE Sup!SendShutdown(t)
  <2>1. /\ Sup!ProcessLives /\ closed_sup'
        /\ UNCHANGED <<phase, stage, exit, config, task_sup, recved, firstSync, told, ready>>
    BY Zenon, <1>6 DEF Sup!SendShutdown
  <2>2. QED  BY Zenon, <1>0, <2>1, OtherStep
<1>7. QED  BY Zenon, <1>1, <1>2, <1>3, <1>4, <1>5, <1>6 DEF Sup!TaskNext

LEMMA TimerSteps ==
    ASSUME SupInv, Sup!TimerNext
    PROVE  SupInv'
<1>0. firstSync \in [Sup!SyncTasks -> {"none", "wait", "ok", "err", "dropped"}] /\ "timer" \in Tasks
  BY Zenon DEF SupInv, SupTypes, Sup!TimerNext
<1>a. /\ "idle" # "none" /\ "busy" # "none"
      /\ {"busy", "done"} \subseteq TaskStates \ {"none"} /\ "done" \notin {"idle", "busy"}
  BY DEF TaskStates
<1>1. CASE Sup!TimerStarts
  <2>1. /\ Sup!ProcessLives /\ task_sup["timer"] = "idle"
        /\ UNCHANGED <<phase, stage, exit, config, recved, firstSync, told, ready>>
        /\ \/ task_sup' = [task_sup EXCEPT !["timer"] = "done"] /\ closed_sup'
           \/ task_sup' = [task_sup EXCEPT !["timer"] = "busy"] /\ closed_sup' = closed_sup
    BY Zenon, <1>1 DEF Sup!TimerStarts
  <2>2. CASE task_sup' = [task_sup EXCEPT !["timer"] = "done"] /\ closed_sup'
    BY Zenon, <1>0, <1>a, <2>1, <2>2, TaskStep
  <2>3. CASE task_sup' = [task_sup EXCEPT !["timer"] = "busy"] /\ closed_sup' = closed_sup
    BY Zenon, <1>0, <1>a, <2>1, <2>3, TaskStep DEF Sup!Alive
  <2>4. QED  BY Zenon, <2>1, <2>2, <2>3
<1>2. CASE Sup!TimerFires
  <2>1. /\ Sup!ProcessLives /\ task_sup["timer"] = "busy" /\ closed_sup'
        /\ task_sup' = [task_sup EXCEPT !["timer"] = "done"]
        /\ UNCHANGED <<phase, stage, exit, config, recved, firstSync, told, ready>>
    BY Zenon, <1>2 DEF Sup!TimerFires
  <2>2. QED  BY Zenon, <1>0, <1>a, <2>1, TaskStep
<1>3. CASE Sup!TimerResets
  <2>1. /\ Sup!ProcessLives
        /\ UNCHANGED <<phase, stage, exit, config, task_sup, closed_sup, recved, firstSync, told, ready>>
    BY Zenon, <1>3 DEF Sup!TimerResets
  <2>2. QED  BY Zenon, <1>0, <2>1, OtherStep
<1>4. CASE Sup!TimerDisconnected
  <2>1. /\ Sup!ProcessLives /\ task_sup["timer"] = "busy" /\ task_sup' = [task_sup EXCEPT !["timer"] = "done"]
        /\ UNCHANGED <<phase, stage, exit, config, closed_sup, recved, firstSync, told, ready>>
    BY Zenon, <1>4 DEF Sup!TimerDisconnected
  <2>2. QED  BY Zenon, <1>0, <1>a, <2>1, TaskStep
<1>5. CASE Sup!TimerRecvsShutdown
  <2>1. /\ Sup!ProcessLives /\ task_sup["timer"] = "busy" /\ task_sup' = [task_sup EXCEPT !["timer"] = "done"]
        /\ recved' = recved \cup {"timer"}
        /\ UNCHANGED <<phase, stage, exit, config, closed_sup, firstSync, told, ready>>
    BY Zenon, <1>5 DEF Sup!TimerRecvsShutdown
  <2>2. \A u \in Tasks : u \in recved' => u \in recved \/ u = "timer"
    BY Zenon, <2>1
  <2>3. QED  BY Zenon, <1>0, <1>a, <2>1, <2>2, TaskStep
<1>6. QED  BY Zenon, <1>1, <1>2, <1>3, <1>4, <1>5 DEF Sup!TimerNext

-----------------------------------------------------------------------------
LEMMA SupInvInitially == Sup!Init => SupInv
<1>1. SUFFICES ASSUME Sup!Init PROVE SupInv
  OBVIOUS
<1>2. SupTypes /\ SpawnedInStage /\ HandleIsUsed
  BY <1>1 DEF Sup!Init, SupTypes, TaskStates, SpawnedInStage, HandleIsUsed
<1>3. StageMeans /\ PhaseMeans /\ Sup!CleanExit
  BY <1>1 DEF Sup!Init, StageMeans, PhaseMeans, Sup!CleanExit
<1>4. QED  BY Zenon, <1>2, <1>3 DEF SupInv

LEMMA SupInvPreserved == TasksAreKnown /\ SupInv /\ [Sup!Next]_(Sup!vars) => SupInv'
<1>1. SUFFICES ASSUME TasksAreKnown, SupInv, [Sup!Next]_(Sup!vars) PROVE SupInv'
  OBVIOUS
<1>2. CASE Sup!InitNext
  BY Zenon, <1>1, <1>2, InitStep
<1>3. CASE Sup!SyncNext
  BY Zenon, <1>1, <1>3, SyncSteps
<1>4. CASE Sup!RunNext
  BY Zenon, <1>1, <1>4, RunSteps
<1>5. CASE Sup!TimerNext
  BY Zenon, <1>1, <1>5, TimerSteps
<1>6. CASE \E t \in Tasks : Sup!TaskNext(t)
  BY Zenon, <1>1, <1>6, TaskSteps
<1>7. CASE Sup!HitAppEndpoint
  <2>1. /\ Sup!ProcessLives
        /\ UNCHANGED <<phase, stage, exit, config, task_sup, closed_sup, recved, firstSync, told, ready>>
    BY Zenon, <1>7 DEF Sup!HitAppEndpoint
  <2>2. firstSync \in [Sup!SyncTasks -> {"none", "wait", "ok", "err", "dropped"}]
    BY Zenon, <1>1 DEF SupInv, SupTypes
  <2>3. QED  BY Zenon, <1>1, <2>1, <2>2, OtherStep
<1>8. CASE UNCHANGED Sup!vars
  BY Zenon, <1>1, <1>8
     DEF Sup!vars, SupInv, SupTypes, SpawnedInStage, HandleIsUsed, StageMeans, Sup!Authorized, Sup!UsesLsp,
         PhaseMeans, Sup!CleanExit
<1>9. QED
  BY Zenon, <1>1, <1>2, <1>3, <1>4, <1>5, <1>6, <1>7, <1>8 DEF Sup!Next, Sup!Exited

(* SupInv is an invariant: each task is spawned once, by the stage that is  *)
(* there for it, and each stage is reached with what it relies on.          *)
THEOREM SupInvariance == ASSUME TasksAreKnown PROVE Sup!Spec => []SupInv
<1>1. Sup!Init => SupInv
  BY SupInvInitially
<1>2. SupInv /\ [Sup!Next]_(Sup!vars) => SupInv'
  BY SupInvPreserved
<1>3. QED  BY <1>1, <1>2, PTL DEF Sup!Spec

LEMMA ServedMeansChecked ==
    ASSUME SupInv
    PROVE  Sup!OnlyApprovedRuns
<1>1. SUFFICES ASSUME NEW t \in Tasks, t \in {"wallet db", "app server", "bgp", "bdk sync"},
                      task_sup[t] # "none"
               PROVE  config.seed = "ok" /\ config.argsMatch /\ Sup!Authorized
  BY Zenon DEF Sup!OnlyApprovedRuns, Sup!Authorized
<1>2. SpawnedIn(t) \in {4, 7, 8, 9}
  BY Zenon, <1>1, SpawnedInIs
<1>3. Rank("secrets") <= SpawnedIn(t) /\ Rank("vfs") <= SpawnedIn(t) /\ Rank("reads") <= SpawnedIn(t)
  BY <1>2, RankIs
<1>4. stage \notin {"secrets", "vfs", "reads"}
  BY Zenon, <1>1, <1>3 DEF SupInv, SpawnedInStage
<1>5. QED  BY Zenon, <1>4 DEF SupInv, StageMeans

(* UserNode::init and sync: the runner is told that the node is ready only  *)
(* after both first syncs succeeded and the LSP is connected, and nothing   *)
(* is served or loaded by a version, seed or arguments that do not match.   *)
THEOREM StartsAsPromised ==
    ASSUME TasksAreKnown PROVE Sup!Spec => [](Sup!ReadyMeansConnected /\ Sup!OnlyApprovedRuns)
<1>1. SupInv => Sup!ReadyMeansConnected
  BY DEF SupInv, StageMeans, Sup!ReadyMeansConnected
<1>2. SupInv => Sup!OnlyApprovedRuns
  BY ServedMeansChecked
<1>3. QED  BY <1>1, <1>2, SupInvariance, PTL

(* UserNode::run returns without an error only after a shutdown was         *)
(* signalled and, unless the time limit elapsed, with all tasks ended; and  *)
(* no task waits for a shutdown that it has received already.               *)
THEOREM EndsAsPromised == ASSUME TasksAreKnown PROVE Sup!Spec => [](Sup!CleanExit /\ Sup!RecvAtMostOnce)
<1>1. SupInv => Sup!CleanExit
  BY DEF SupInv
<1>2. SupInv => Sup!RecvAtMostOnce
  BY Zenon DEF SupInv, HandleIsUsed, Sup!RecvAtMostOnce, Sup!Alive
<1>3. QED  BY <1>1, <1>2, SupInvariance, PTL

-----------------------------------------------------------------------------
(* Channels.                                                               *)

CONSTANTS OutboundChans, LspChans, ForeignChans, MaxDisconnects, MaxBoots, Faults

VARIABLES chan, out, swept, connected, queue, tasks, monDb, timers, forwards,
          bgp, up, shutdown, fatal, panicked, ignored, disconnects, boots

Ln == INSTANCE Channels

(* How far a channel is, what it leaves, and the events about it. *)
ChanAt(c) ==
    /\ out[c] # "none" => chan[c] = "closed"
    /\ c \in ForeignChans =>
          /\ chan[c] \in {"none", "requested", "closed"}
          /\ chan[c] = "requested" => <<"OpenChannelRequest", c>> \in queue \cup tasks
    /\ c \in monDb \/ <<"SpendableOutputs", c>> \in queue \cup tasks =>
          out[c] \in {"DelayedPaymentOutput", "StaticOutput"}
    /\ c \in swept => out[c] = "DelayedPaymentOutput"

Forward(c) == <<"PendingHTLCsForwardable", c>>

(* HTLCs that wait have one event, held by LDK or by a handler, or one     *)
(* timer.                                                                  *)
OneForward ==
    /\ timers \in 0..1 /\ forwards \in BOOLEAN
    /\ ~forwards => timers = 0
    /\ ~forwards \/ timers = 1 => \A c \in Ln!Chans : Forward(c) \notin queue \cup tasks
    /\ \A c, d \in Ln!Chans :
          Forward(c) \in queue \cup tasks /\ Forward(d) \in queue \cup tasks => c = d
    /\ \A c \in Ln!Chans : Forward(c) \notin queue \cap tasks

ChanTypes ==
    /\ chan \in [Ln!Chans -> {"none", "closed"} \cup Ln!Unfunded \cup Ln!Funded]
    /\ out \in [Ln!Chans -> {"none", "forced", "cooperative", "DelayedPaymentOutput", "StaticOutput"}]
    /\ swept \subseteq Ln!Chans /\ monDb \subseteq Ln!Chans
    /\ connected \subseteq Ln!Peers
    /\ queue \subseteq Ln!Event /\ tasks \subseteq Ln!Event

(* Handlers, timers and HTLCs that wait belong to a running process. *)
InProcess == up \/ (tasks = {} /\ ~forwards)

ChanInv ==
    ChanTypes /\ OneForward /\ InProcess /\ \A c \in Ln!Chans : ChanAt(c)

-----------------------------------------------------------------------------
(* Events and channels of different names are different. *)
LEMMA EventIs ==
    ASSUME NEW n \in {"OpenChannelRequest", "FundingGenerationReady", "ChannelPending", "ChannelReady",
          "ChannelClosed", "SpendableOutputs", "PendingHTLCsForwardable"}, NEW c \in Ln!Chans
    PROVE  <<n, c>> \in Ln!Event
BY Zenon DEF Ln!Event

LEMMA EventParts ==
    ASSUME NEW e \in Ln!Event PROVE e[2] \in Ln!Chans /\ e = <<e[1], e[2]>>
BY DEF Ln!Event

(* A step that changes channel s only, and adds at most one event about it *)
(* that is not one of HTLCs.                                               *)
LEMMA ChanStep ==
    ASSUME ChanInv, NEW s \in Ln!Chans, NEW n, n # "PendingHTLCsForwardable",
           <<n, s>> \in Ln!Event,
           chan' \in [Ln!Chans -> {"none", "closed"} \cup Ln!Unfunded \cup Ln!Funded],
           out' \in [Ln!Chans -> {"none", "forced", "cooperative", "DelayedPaymentOutput", "StaticOutput"}],
           \A c \in Ln!Chans \ {s} : chan'[c] = chan[c] /\ out'[c] = out[c] /\ (c \in monDb' <=> c \in monDb),
           queue' \in {queue, queue \cup {<<n, s>>}},
           monDb' \subseteq Ln!Chans, connected' \subseteq Ln!Peers,
           UNCHANGED <<swept, tasks, timers, forwards, up>>,
           ChanAt(s)'
    PROVE  ChanInv'
<1>1. ChanTypes'
  BY DEF ChanInv, ChanTypes
<1>2. \A c \in Ln!Chans : Forward(c) # <<n, s>>
  BY DEF Forward
<1>3. \A c \in Ln!Chans : Forward(c) \in queue' <=> Forward(c) \in queue
  BY Zenon, <1>2
<1>4. OneForward'
  BY Zenon, <1>3 DEF ChanInv, OneForward
<1>5. InProcess'
  BY Zenon DEF ChanInv, InProcess
<1>6. ASSUME NEW c \in Ln!Chans \ {s} PROVE ChanAt(c)'
  <2>1. ChanAt(c)
    BY Zenon DEF ChanInv
  <2>2. <<"SpendableOutputs", c>> # <<n, s>> /\ <<"OpenChannelRequest", c>> # <<n, s>>
    OBVIOUS
  <2>3. /\ <<"SpendableOutputs", c>> \in queue' <=> <<"SpendableOutputs", c>> \in queue
        /\ <<"OpenChannelRequest", c>> \in queue' <=> <<"OpenChannelRequest", c>> \in queue
    BY Zenon, <2>2
  <2>4. QED  BY Zenon, <2>1, <2>3 DEF ChanAt
<1>7. QED  BY Zenon, <1>1, <1>4, <1>5, <1>6 DEF ChanInv

LEMMA OpenSteps ==
    ASSUME Ln!ChannelsArePartitioned, ChanInv, NEW s \in OutboundChans, Ln!open_channel(s)
    PROVE  ChanInv'
<1>1. s \in Ln!Chans /\ s \notin ForeignChans /\ ChanAt(s)
  BY DEF Ln!Chans, Ln!ChannelsArePartitioned, ChanInv
<1>2. /\ up /\ chan[s] = "none" /\ connected' = connected \cup {"lsp"}
      /\ chan' = [chan EXCEPT ![s] = "proposed"]
      /\ UNCHANGED <<out, queue, monDb, forwards, up, swept, tasks, timers>>
  BY Zenon DEF Ln!open_channel, Ln!create_channel, Ln!process
<1>3. /\ chan' \in [Ln!Chans -> {"none", "closed"} \cup Ln!Unfunded \cup Ln!Funded]
      /\ chan'[s] = "proposed" /\ \A c \in Ln!Chans \ {s} : chan'[c] = chan[c]
      /\ connected' \subseteq Ln!Peers
  BY Zenon, <1>2, <1>1 DEF ChanInv, ChanTypes, Ln!Unfunded, Ln!Peers
<1>4. ChanAt(s)'
  BY Zenon, <1>1, <1>2, <1>3 DEF ChanAt
<1>5. <<"ChannelClosed", s>> \in Ln!Event
  BY Zenon, <1>1, EventIs
<1>6. QED  BY <1>1, <1>2, <1>3, <1>4, <1>5, ChanStep DEF ChanInv, ChanTypes

LEMMA CloseSteps ==
    ASSUME Ln!ChannelsArePartitioned, ChanInv, NEW s \in Ln!Chans, NEW f \in BOOLEAN,
           Ln!close_channel(s, f)
    PROVE  ChanInv'
<1>1. ChanAt(s) /\ chan[s] \in Ln!Funded
  BY Zenon DEF ChanInv, Ln!close_channel
<1>2. s \notin ForeignChans /\ out[s] = "none"
  BY Zenon, <1>1 DEF ChanAt, Ln!Funded
<1>3. UNCHANGED <<connected, monDb, forwards, up, swept, tasks, timers>>
  BY Zenon DEF Ln!close_channel, Ln!process
<1>4. /\ chan' = [chan EXCEPT ![s] = IF f THEN "closed" ELSE "closing"]
      /\ out' = IF f THEN [out EXCEPT ![s] = "forced"] ELSE out
      /\ queue' = IF f THEN queue \cup {<<"ChannelClosed", s>>} ELSE queue
  BY Zenon DEF Ln!close_channel, Ln!Emit
<1>5. /\ chan' \in [Ln!Chans -> {"none", "closed"} \cup Ln!Unfunded \cup Ln!Funded]
      /\ out' \in [Ln!Chans -> {"none", "forced", "cooperative", "DelayedPaymentOutput", "StaticOutput"}]
      /\ \A c \in Ln!Chans \ {s} : chan'[c] = chan[c] /\ out'[c] = out[c]
      /\ queue' \in {queue, queue \cup {<<"ChannelClosed", s>>}}
      /\ out'[s] # "none" => chan'[s] = "closed"
  <2>1. CASE f
    BY Zenon, <1>4, <2>1 DEF ChanInv, ChanTypes
  <2>2. CASE ~f
    BY Zenon, <1>2, <1>4, <2>2 DEF ChanInv, ChanTypes, Ln!Funded
  <2>3. QED  BY Zenon, <2>1, <2>2
<1>6. s \notin swept /\ s \notin monDb /\ <<"SpendableOutputs", s>> \notin queue \cup tasks
  BY Zenon, <1>1, <1>2 DEF ChanAt
<1>7. <<"SpendableOutputs", s>> \notin queue' \cup tasks'
  BY <1>3, <1>5, <1>6
<1>8. ChanAt(s)'
  BY Zenon, <1>2, <1>3, <1>5, <1>6, <1>7 DEF ChanAt
<1>9. <<"ChannelClosed", s>> \in Ln!Event
  BY Zenon, EventIs
<1>10. QED  BY <1>3, <1>5, <1>8, <1>9, ChanStep DEF ChanInv, ChanTypes

LEMMA NegotiateSteps ==
    ASSUME Ln!ChannelsArePartitioned, ChanInv, NEW s \in Ln!Chans, Ln!Negotiate(s)
    PROVE  ChanInv'
<1>1. ChanAt(s)
  BY Zenon DEF ChanInv
<1>2. s \in ForeignChans => s \notin OutboundChans
  BY Zenon DEF Ln!ChannelsArePartitioned
<1>3. UNCHANGED <<out, connected, monDb, forwards, up, swept, tasks, timers>>
  BY Zenon DEF Ln!Negotiate, Ln!process
<1>4. ASSUME NEW n \in {"OpenChannelRequest", "FundingGenerationReady", "ChannelPending",
                        "ChannelReady"},
             NEW to \in {"accepted", "requested", "pending", "ready"},
             chan' = [chan EXCEPT ![s] = to], queue' = queue \cup {<<n, s>>},
             chan[s] # "closed",
             s \in ForeignChans => to = "requested" /\ n = "OpenChannelRequest"
      PROVE  ChanInv'
  <2>1. /\ chan' \in [Ln!Chans -> {"none", "closed"} \cup Ln!Unfunded \cup Ln!Funded]
        /\ chan'[s] = to /\ \A c \in Ln!Chans \ {s} : chan'[c] = chan[c]
    BY Zenon, <1>4 DEF ChanInv, ChanTypes, Ln!Unfunded, Ln!Funded
  <2>2. out[s] = "none" /\ s \notin swept /\ s \notin monDb
          /\ <<"SpendableOutputs", s>> \notin queue \cup tasks
    BY Zenon, <1>1, <1>4 DEF ChanAt
  <2>3. <<"SpendableOutputs", s>> \notin queue' \cup tasks'
    BY <1>3, <1>4, <2>2
  <2>4. ChanAt(s)'
    BY Zenon, <1>3, <1>4, <2>1, <2>2, <2>3 DEF ChanAt
  <2>5. n # "PendingHTLCsForwardable" /\ <<n, s>> \in Ln!Event
    BY Zenon, <1>4, EventIs
  <2>6. QED  BY <1>3, <1>4, <2>1, <2>4, <2>5, ChanStep DEF ChanInv, ChanTypes
<1>5. Ln!USER_CONFIG.manually_accept_inbound_channels
  BY DEF Ln!USER_CONFIG
<1>6. CASE s \in OutboundChans /\ chan[s] = "proposed"
           /\ chan' = [chan EXCEPT ![s] = "accepted"] /\ Ln!Emit("FundingGenerationReady", s)
  BY Zenon, <1>2, <1>4, <1>6 DEF Ln!Emit
<1>7. CASE chan[s] = "none" /\ chan' = [chan EXCEPT ![s] = "requested"]
           /\ Ln!Emit("OpenChannelRequest", s)
  BY Zenon, <1>4, <1>7 DEF Ln!Emit
<1>8. CASE /\ \/ s \in OutboundChans /\ chan[s] = "funded"
              \/ s \notin OutboundChans /\ chan[s] = "accepted"
           /\ chan' = [chan EXCEPT ![s] = "pending"] /\ Ln!Emit("ChannelPending", s)
  <2>1. s \notin ForeignChans /\ chan[s] # "closed"
    BY Zenon, <1>1, <1>8 DEF ChanAt
  <2>2. QED  BY Zenon, <1>4, <1>8, <2>1 DEF Ln!Emit
<1>9. CASE chan[s] = "pending" /\ chan' = [chan EXCEPT ![s] = "ready"] /\ Ln!Emit("ChannelReady", s)
  <2>1. s \notin ForeignChans /\ chan[s] # "closed"
    BY Zenon, <1>1, <1>9 DEF ChanAt
  <2>2. QED  BY Zenon, <1>4, <1>9, <2>1 DEF Ln!Emit
<1>10. QED  BY Zenon, <1>5, <1>6, <1>7, <1>8, <1>9 DEF Ln!Negotiate

LEMMA OutputSteps ==
    ASSUME ChanInv, NEW s \in Ln!Chans, Ln!CoopClose(s) \/ Ln!OutputsMature(s) \/ Ln!MonitorPersisted(s)
    PROVE  ChanInv'
<1>1. ChanAt(s)
  BY Zenon DEF ChanInv
<1>2. UNCHANGED <<connected, forwards, up, swept, tasks, timers>>
  BY Zenon DEF Ln!CoopClose, Ln!OutputsMature, Ln!MonitorPersisted, Ln!process
<1>3. CASE Ln!CoopClose(s)
  <2>1. /\ chan[s] = "closing" /\ chan' = [chan EXCEPT ![s] = "closed"]
        /\ out' = [out EXCEPT ![s] = "cooperative"]
        /\ queue' = queue \cup {<<"ChannelClosed", s>>} /\ monDb' = monDb
    BY Zenon, <1>3 DEF Ln!CoopClose, Ln!Emit
  <2>2. /\ chan' \in [Ln!Chans -> {"none", "closed"} \cup Ln!Unfunded \cup Ln!Funded]
        /\ out' \in [Ln!Chans -> {"none", "forced", "cooperative", "DelayedPaymentOutput", "StaticOutput"}]
        /\ \A c \in Ln!Chans \ {s} : chan'[c] = chan[c] /\ out'[c] = out[c]
        /\ chan'[s] = "closed"
    BY Zenon, <2>1 DEF ChanInv, ChanTypes
  <2>3. s \notin swept /\ s \notin monDb /\ <<"SpendableOutputs", s>> \notin queue \cup tasks
    BY Zenon, <1>1, <2>1 DEF ChanAt
  <2>4. <<"SpendableOutputs", s>> \notin queue' \cup tasks'
    BY <1>2, <2>1, <2>3
  <2>5. ChanAt(s)'
    BY Zenon, <1>2, <2>1, <2>2, <2>3, <2>4 DEF ChanAt
  <2>6. <<"ChannelClosed", s>> \in Ln!Event
    BY Zenon, EventIs
  <2>7. QED  BY <1>2, <2>1, <2>2, <2>5, <2>6, ChanStep DEF ChanInv, ChanTypes
<1>4. CASE Ln!OutputsMature(s)
  <2> DEFINE to == IF out[s] = "forced" THEN "DelayedPaymentOutput" ELSE "StaticOutput"
  <2>1. /\ out[s] \in {"forced", "cooperative"} /\ chan' = chan
        /\ out' = [out EXCEPT ![s] = to]
        /\ queue' = queue \cup {<<"SpendableOutputs", s>>} /\ monDb' = monDb \cup {s}
    BY Zenon, <1>4 DEF Ln!OutputsMature, Ln!Emit
  <2>2. /\ out' \in [Ln!Chans -> {"none", "forced", "cooperative", "DelayedPaymentOutput", "StaticOutput"}]
        /\ \A c \in Ln!Chans \ {s} : out'[c] = out[c] /\ (c \in monDb' <=> c \in monDb)
        /\ out'[s] \in {"DelayedPaymentOutput", "StaticOutput"}
        /\ monDb' \subseteq Ln!Chans
    BY Zenon, <2>1 DEF ChanInv, ChanTypes
  <2>3. s \notin swept /\ chan[s] = "closed"
    BY Zenon, <1>1, <2>1 DEF ChanAt
  <2>4. ChanAt(s)'
    BY Zenon, <1>2, <2>1, <2>2, <2>3 DEF ChanAt
  <2>5. <<"SpendableOutputs", s>> \in Ln!Event
    BY Zenon, EventIs
  <2>6. QED  BY <1>2, <2>1, <2>2, <2>4, <2>5, ChanStep DEF ChanInv, ChanTypes
<1>5. CASE Ln!MonitorPersisted(s)
  <2>1. UNCHANGED <<chan, out, queue>> /\ monDb' = monDb \ {s}
    BY Zenon, <1>5 DEF Ln!MonitorPersisted
  <2>2. ChanAt(s)'
    BY Zenon, <1>1, <1>2, <2>1 DEF ChanAt
  <2>3. <<"ChannelClosed", s>> \in Ln!Event
    BY Zenon, EventIs
  <2>4. QED  BY <1>2, <2>1, <2>2, <2>3, ChanStep DEF ChanInv, ChanTypes
<1>6. QED  BY Zenon, <1>3, <1>4, <1>5

LEMMA HtlcSteps ==
    ASSUME ChanInv, NEW s \in Ln!Chans, Ln!HtlcsPending(s)
    PROVE  ChanInv'
<1>1. /\ up /\ ~forwards /\ forwards' = TRUE /\ queue' = queue \cup {Forward(s)}
      /\ UNCHANGED <<chan, out, connected, monDb, up, swept, tasks, timers>>
  BY Zenon DEF Ln!HtlcsPending, Ln!Emit, Forward, Ln!process
<1>2. Forward(s) \in Ln!Event
  BY Zenon, EventIs DEF Forward
<1>3. ChanTypes'
  BY Zenon, <1>1, <1>2 DEF ChanInv, ChanTypes
<1>4. timers = 0 /\ \A c \in Ln!Chans : Forward(c) \notin queue \cup tasks
  BY Zenon, <1>1 DEF ChanInv, OneForward
<1>5. \A c \in Ln!Chans : Forward(c) = Forward(s) => c = s
  BY DEF Forward
<1>6. OneForward'
  <2>1. timers' \in 0..1 /\ timers' # 1
    BY <1>1, <1>4
  <2>2. QED  BY Zenon, <1>1, <1>4, <1>5, <2>1 DEF OneForward
<1>7. ASSUME NEW c \in Ln!Chans PROVE ChanAt(c)'
  <2>1. ChanAt(c)
    BY Zenon DEF ChanInv
  <2>2. <<"SpendableOutputs", c>> # Forward(s)
    BY DEF Forward
  <2>3. QED  BY Zenon, <1>1, <2>1, <2>2 DEF ChanAt
<1>8. QED  BY Zenon, <1>1, <1>3, <1>6, <1>7 DEF ChanInv, InProcess

LEMMA PeerSteps ==
    ASSUME ChanInv, NEW p \in Ln!Peers, Ln!PeerConnects(p) \/ Ln!PeerDisconnects(p)
    PROVE  ChanInv'
<1>1. UNCHANGED <<out, queue, monDb, forwards, up, swept, tasks, timers>>
      /\ connected' \subseteq connected \cup {p}
  BY Zenon DEF Ln!PeerConnects, Ln!PeerDisconnects, Ln!process
<1>2. chan' \in [Ln!Chans -> {"none", "closed"} \cup Ln!Unfunded \cup Ln!Funded]
      /\ \A c \in Ln!Chans : chan'[c] = chan[c] \/ (chan[c] \in Ln!Unfunded /\ chan'[c] = "closed")
  BY Zenon DEF Ln!PeerConnects, Ln!PeerDisconnects, ChanInv, ChanTypes
<1>3. ChanTypes'
  BY Zenon, <1>1, <1>2 DEF ChanInv, ChanTypes
<1>4. ASSUME NEW c \in Ln!Chans PROVE ChanAt(c)'
  <2>1. ChanAt(c)
    BY Zenon DEF ChanInv
  <2>2. QED  BY Zenon, <1>1, <1>2, <2>1 DEF ChanAt, Ln!Unfunded
<1>5. QED  BY Zenon, <1>1, <1>3, <1>4 DEF ChanInv, InProcess, OneForward

(* A handler that is done with its event. *)
LEMMA HandledStep ==
    ASSUME ChanInv, NEW s \in Ln!Chans, NEW n, <<n, s>> \in tasks, tasks' = tasks \ {<<n, s>>},
           chan' \in [Ln!Chans -> {"none", "closed"} \cup Ln!Unfunded \cup Ln!Funded],
           \A c \in Ln!Chans \ {s} : chan'[c] = chan[c],
           swept' \subseteq swept \cup {s},
           timers' = IF n = "PendingHTLCsForwardable" THEN timers + 1 ELSE timers,
           UNCHANGED <<out, queue, monDb, connected, forwards, up>>,
           ChanAt(s)'
    PROVE  ChanInv'
<1>1. ChanTypes'
  BY Zenon DEF ChanInv, ChanTypes
<1>2. InProcess'
  BY Zenon DEF ChanInv, InProcess
<1>3. ASSUME NEW c \in Ln!Chans \ {s} PROVE ChanAt(c)'
  <2>1. ChanAt(c)
    BY Zenon DEF ChanInv
  <2>2. <<"OpenChannelRequest", c>> # <<n, s>>
    OBVIOUS
  <2>3. QED  BY Zenon, <2>1, <2>2 DEF ChanAt
<1>4. CASE n = "PendingHTLCsForwardable"
  <2>1. Forward(s) \in tasks /\ tasks' = tasks \ {Forward(s)}
    BY Zenon, <1>4 DEF Forward
  <2>2. forwards /\ timers # 1 /\ timers \in 0..1 /\ Forward(s) \notin queue
        /\ \A c \in Ln!Chans : Forward(c) \in queue \cup tasks => c = s
    BY Zenon, <2>1 DEF ChanInv, OneForward
  <2>3. timers' = 1 /\ timers' \in 0..1
    BY <1>4, <2>2
  <2>4. \A c \in Ln!Chans : Forward(c) \notin queue' \cup tasks'
    BY Zenon, <2>1, <2>2
  <2>5. OneForward'
    BY Zenon, <2>2, <2>3, <2>4 DEF OneForward, ChanInv
  <2>6. QED  BY Zenon, <1>1, <1>2, <1>3, <2>5 DEF ChanInv
<1>5. CASE n # "PendingHTLCsForwardable"
  <2>1. \A c \in Ln!Chans : Forward(c) # <<n, s>>
    BY <1>5 DEF Forward
  <2>2. OneForward'
    BY Zenon, <1>5, <2>1 DEF OneForward, ChanInv
  <2>3. QED  BY Zenon, <1>1, <1>2, <1>3, <2>2 DEF ChanInv
<1>6. QED  BY Zenon, <1>4, <1>5

LEMMA HandleSteps ==
    ASSUME ChanInv, NEW e \in tasks, Ln!Handle(e)
    PROVE  ChanInv'
<1> DEFINE s == e[2]
<1>1. s \in Ln!Chans /\ e = <<e[1], s>> /\ ChanAt(s)
  BY Zenon, EventParts DEF ChanInv, ChanTypes
<1> HIDE DEF s
<1>2. \/ Ln!handle_open_channel_request(s) \/ Ln!handle_funding_generation_ready(s) \/ Ln!FundingFails(s)
      \/ Ln!handle_spendable_outputs(s) \/ Ln!handle_pending_htlcs_forwardable(s)
      \/ Ln!HandleInformational(e[1], s)
  BY Zenon DEF Ln!Handle, s
<1>3. CASE Ln!handle_open_channel_request(s)
  <2>1. /\ <<"OpenChannelRequest", s>> \in tasks
        /\ tasks' = tasks \ {<<"OpenChannelRequest", s>>}
        /\ UNCHANGED <<out, connected, queue, monDb, forwards, up, swept, timers>>
        /\ \/ chan[s] # "requested" /\ chan' = chan
           \/ Ln!Peer(s) # "lsp" /\ chan' = [chan EXCEPT ![s] = "closed"] /\ chan[s] = "requested"
           \/ Ln!Peer(s) = "lsp" /\ chan' = [chan EXCEPT ![s] = "accepted"] /\ chan[s] = "requested"
    BY Zenon, <1>3 DEF Ln!handle_open_channel_request, Ln!Done
  <2>2. Ln!Peer(s) = "lsp" => s \notin ForeignChans
    BY Zenon DEF Ln!Peer
  <2>3. /\ chan' \in [Ln!Chans -> {"none", "closed"} \cup Ln!Unfunded \cup Ln!Funded]
        /\ \A c \in Ln!Chans \ {s} : chan'[c] = chan[c]
        /\ \/ chan[s] # "requested" /\ chan'[s] = chan[s]
           \/ chan'[s] = "closed" /\ chan[s] = "requested"
           \/ chan'[s] = "accepted" /\ chan[s] = "requested" /\ s \notin ForeignChans
    BY Zenon, <1>1, <2>1, <2>2 DEF ChanInv, ChanTypes, Ln!Unfunded
  <2>4. ChanAt(s)'
    BY Zenon, <1>1, <2>1, <2>3 DEF ChanAt
  <2>5. QED  BY <1>1, <2>1, <2>3, <2>4, HandledStep
<1>4. CASE Ln!handle_funding_generation_ready(s) \/ Ln!FundingFails(s)
  <2>1. /\ <<"FundingGenerationReady", s>> \in tasks
        /\ tasks' = tasks \ {<<"FundingGenerationReady", s>>}
        /\ UNCHANGED <<out, connected, queue, monDb, forwards, up, swept, timers>>
        /\ \/ chan' = chan
           \/ chan[s] = "accepted" /\ chan' = [chan EXCEPT ![s] = "closed"]
           \/ chan[s] = "accepted" /\ chan' = [chan EXCEPT ![s] = "funded"]
    BY Zenon, <1>4 DEF Ln!handle_funding_generation_ready, Ln!FundingFails, Ln!Done, Ln!Fatal, Ln!process
  <2>2. /\ chan' \in [Ln!Chans -> {"none", "closed"} \cup Ln!Unfunded \cup Ln!Funded]
        /\ \A c \in Ln!Chans \ {s} : chan'[c] = chan[c]
        /\ chan'[s] = chan[s] \/ (chan[s] = "accepted" /\ chan'[s] \in {"closed", "funded"})
    BY Zenon, <1>1, <2>1 DEF ChanInv, ChanTypes, Ln!Funded
  <2>3. <<"OpenChannelRequest", s>> # <<"FundingGenerationReady", s>>
    OBVIOUS
  <2>4. ChanAt(s)'
    BY Zenon, <1>1, <2>1, <2>2, <2>3 DEF ChanAt
  <2>5. QED  BY <1>1, <2>1, <2>2, <2>4, HandledStep
<1>5. CASE Ln!handle_spendable_outputs(s)
  <2>1. /\ <<"SpendableOutputs", s>> \in tasks
        /\ tasks' = tasks \ {<<"SpendableOutputs", s>>}
        /\ UNCHANGED <<chan, out, connected, queue, monDb, forwards, up, timers>>
        /\ swept' = swept \/ (swept' = swept \cup {s} /\ out[s] # "StaticOutput")
    BY Zenon, <1>5 DEF Ln!handle_spendable_outputs, Ln!spend_spendable_outputs, Ln!Done, Ln!process, Ln!ldk
  <2>2. <<"OpenChannelRequest", s>> # <<"SpendableOutputs", s>>
    OBVIOUS
  <2>3. out[s] \in {"DelayedPaymentOutput", "StaticOutput"}
    BY Zenon, <1>1, <2>1 DEF ChanAt
  <2>4. ChanAt(s)'
    BY Zenon, <1>1, <2>1, <2>2, <2>3 DEF ChanAt
  <2>5. chan' \in [Ln!Chans -> {"none", "closed"} \cup Ln!Unfunded \cup Ln!Funded]
    BY Zenon, <2>1 DEF ChanInv, ChanTypes
  <2>6. QED  BY <1>1, <2>1, <2>4, <2>5, HandledStep
<1>6. ASSUME NEW n \in {"PendingHTLCsForwardable", "ChannelPending", "ChannelReady", "ChannelClosed"},
             <<n, s>> \in tasks, tasks' = tasks \ {<<n, s>>},
             timers' = IF n = "PendingHTLCsForwardable" THEN timers + 1 ELSE timers,
             UNCHANGED <<Ln!process, Ln!ldk, swept>>
      PROVE  ChanInv'
  <2>1. UNCHANGED <<chan, out, connected, queue, monDb, forwards, up>>
    BY Zenon, <1>6 DEF Ln!process, Ln!ldk
  <2>2. <<"OpenChannelRequest", s>> # <<n, s>>
    BY <1>6
  <2>3. ChanAt(s)'
    BY Zenon, <1>1, <1>6, <2>1, <2>2 DEF ChanAt
  <2>4. chan' \in [Ln!Chans -> {"none", "closed"} \cup Ln!Unfunded \cup Ln!Funded]
    BY Zenon, <2>1 DEF ChanInv, ChanTypes
  <2>5. QED  BY <1>1, <1>6, <2>1, <2>3, <2>4, HandledStep
<1>7. CASE Ln!handle_pending_htlcs_forwardable(s)
  BY Zenon, <1>6, <1>7 DEF Ln!handle_pending_htlcs_forwardable, Ln!Done
<1>8. CASE Ln!HandleInformational(e[1], s)
  BY Zenon, <1>6, <1>8 DEF Ln!HandleInformational, Ln!Done
<1>9. QED  BY Zenon, <1>2, <1>3, <1>4, <1>5, <1>7, <1>8

LEMMA ProcessSteps ==
    ASSUME ChanInv,
           Ln!ProcessPendingHtlcForwards \/ Ln!BgpProcess \/ Ln!BgpShutdown \/ Ln!ProcessEnds \/ Ln!Boot
    PROVE  ChanInv'
<1>1. CASE Ln!ProcessPendingHtlcForwards
  <2>1. /\ timers > 0 /\ timers' = timers - 1 /\ forwards' = FALSE
        /\ UNCHANGED <<chan, out, connected, queue, monDb, up, swept, tasks>>
    BY Zenon, <1>1 DEF Ln!ProcessPendingHtlcForwards, Ln!process
  <2>2. timers = 1 /\ timers' = 0 /\ timers' \in 0..1
    BY <2>1 DEF ChanInv, OneForward
  <2>3. OneForward'
    BY Zenon, <2>1, <2>2 DEF ChanInv, OneForward
  <2>4. QED  BY Zenon, <2>1, <2>3 DEF ChanInv, ChanTypes, ChanAt, InProcess
<1>2. CASE Ln!BgpProcess
  <2>1. /\ up /\ queue' = {} /\ tasks' = tasks \cup queue
        /\ UNCHANGED <<chan, out, connected, monDb, up, swept, timers, forwards>>
    BY Zenon, <1>2 DEF Ln!BgpProcess
  <2>2. queue' \cup tasks' = queue \cup tasks /\ queue' \cap tasks' = {}
    BY Zenon, <2>1
  <2>3. ChanTypes'
    BY Zenon, <2>1 DEF ChanInv, ChanTypes
  <2>4. OneForward'
    BY Zenon, <2>1, <2>2 DEF ChanInv, OneForward
  <2>5. QED  BY Zenon, <2>1, <2>2, <2>3, <2>4 DEF ChanInv, ChanAt, InProcess
<1>3. CASE Ln!BgpShutdown \/ Ln!Boot
  <2>1. UNCHANGED <<Ln!ldk, swept, tasks, timers>> /\ (up' = up \/ up')
    BY Zenon, <1>3 DEF Ln!BgpShutdown, Ln!Boot
  <2>2. QED
    BY Zenon, <2>1 DEF Ln!ldk, ChanInv, ChanTypes, ChanAt, OneForward, InProcess
<1>4. CASE Ln!ProcessEnds
  <2>1. /\ connected' = {} /\ tasks' = {} /\ timers' = 0 /\ forwards' = FALSE
        /\ chan' = [c \in Ln!Chans |-> IF chan[c] \in Ln!Unfunded THEN "closed" ELSE chan[c]]
        /\ queue' = {<<"SpendableOutputs", c>> : c \in monDb}
        /\ UNCHANGED <<out, monDb, swept>>
    BY Zenon, <1>4 DEF Ln!ProcessEnds
  <2>2. chan' \in [Ln!Chans -> {"none", "closed"} \cup Ln!Unfunded \cup Ln!Funded]
    BY Zenon, <2>1 DEF ChanInv, ChanTypes
  <2>3. queue' \subseteq Ln!Event
    BY Zenon, <2>1, EventIs DEF ChanInv, ChanTypes
  <2>4. ChanTypes'
    BY Zenon, <2>1, <2>2, <2>3 DEF ChanInv, ChanTypes
  <2>5. \A c \in Ln!Chans : Forward(c) \notin queue'
    BY <2>1 DEF Forward
  <2>6. 0 \in 0..1 /\ 0 # 1
    OBVIOUS
  <2>7. OneForward'
    BY Zenon, <2>1, <2>5, <2>6 DEF OneForward
  <2>8. ASSUME NEW c \in Ln!Chans PROVE ChanAt(c)'
    <3>1. ChanAt(c)
      BY Zenon DEF ChanInv
    <3>2. chan'[c] = IF chan[c] \in Ln!Unfunded THEN "closed" ELSE chan[c]
      BY Zenon, <2>1
    <3>3. <<"SpendableOutputs", c>> \in queue' => c \in monDb
      BY <2>1
    <3>4. chan'[c] # "requested"
      BY Zenon, <3>2 DEF Ln!Unfunded
    <3>5. QED  BY Zenon, <2>1, <3>1, <3>2, <3>3, <3>4 DEF ChanAt
  <2>9. QED  BY Zenon, <2>1, <2>4, <2>7, <2>8 DEF ChanInv, InProcess
<1>5. QED  BY Zenon, <1>1, <1>2, <1>3, <1>4

LEMMA SpendFailsSteps ==
    ASSUME ChanInv, NEW s \in Ln!Chans, Ln!SpendFails(s)
    PROVE  ChanInv'
<1>1. /\ <<"SpendableOutputs", s>> \in tasks /\ tasks' = tasks \ {<<"SpendableOutputs", s>>}
      /\ UNCHANGED <<chan, out, connected, queue, monDb, forwards, up, swept, timers>>
  BY Zenon DEF Ln!SpendFails, Ln!Fatal, Ln!Done, Ln!ldk
<1>2. <<"OpenChannelRequest", s>> # <<"SpendableOutputs", s>>
  OBVIOUS
<1>3. ChanAt(s)'
  BY Zenon, <1>1, <1>2 DEF ChanInv, ChanAt
<1>4. chan' \in [Ln!Chans -> {"none", "closed"} \cup Ln!Unfunded \cup Ln!Funded]
  BY Zenon, <1>1 DEF ChanInv, ChanTypes
<1>5. QED  BY <1>1, <1>3, <1>4, HandledStep

LEMMA ChannelsInitially == Ln!Init => ChanInv
<1>1. SUFFICES ASSUME Ln!Init PROVE ChanInv
  OBVIOUS
<1>2. ChanTypes /\ InProcess
  BY Zenon, <1>1 DEF Ln!Init, ChanTypes, InProcess
<1>3. 0 \in 0..1 /\ 0 # 1
  OBVIOUS
<1>4. OneForward
  BY Zenon, <1>1, <1>3 DEF Ln!Init, OneForward
<1>5. ASSUME NEW c \in Ln!Chans PROVE ChanAt(c)
  BY Zenon, <1>1 DEF Ln!Init, ChanAt
<1>6. QED  BY Zenon, <1>2, <1>4, <1>5 DEF ChanInv

LEMMA ChannelsInductive ==
    ASSUME Ln!ChannelsArePartitioned, ChanInv, [Ln!Next]_(Ln!vars)
    PROVE  ChanInv'
<1>1. ASSUME NEW s \in OutboundChans, Ln!open_channel(s) PROVE ChanInv'
  BY Zenon, <1>1, OpenSteps
<1>2. ASSUME NEW s \in Ln!Chans, NEW f \in BOOLEAN, Ln!close_channel(s, f) PROVE ChanInv'
  BY Zenon, <1>2, CloseSteps
<1>3. ASSUME NEW p \in Ln!Peers, Ln!PeerConnects(p) \/ Ln!PeerDisconnects(p) PROVE ChanInv'
  BY Zenon, <1>3, PeerSteps
<1>4. ASSUME NEW s \in Ln!Chans, Ln!Negotiate(s) PROVE ChanInv'
  BY Zenon, <1>4, NegotiateSteps
<1>5. ASSUME NEW s \in Ln!Chans, Ln!CoopClose(s) \/ Ln!OutputsMature(s) \/ Ln!MonitorPersisted(s)
      PROVE  ChanInv'
  BY Zenon, <1>5, OutputSteps
<1>6. ASSUME NEW s \in Ln!Chans, Ln!HtlcsPending(s) PROVE ChanInv'
  BY Zenon, <1>6, HtlcSteps
<1>7. ASSUME NEW e \in tasks, Ln!Handle(e) PROVE ChanInv'
  BY Zenon, <1>7, HandleSteps
<1>8. ASSUME NEW s \in Ln!Chans, Ln!SpendFails(s) PROVE ChanInv'
  BY Zenon, <1>8, SpendFailsSteps
<1>9. CASE Ln!ProcessPendingHtlcForwards \/ Ln!BgpProcess \/ Ln!BgpShutdown \/ Ln!ProcessEnds \/ Ln!Boot
  BY Zenon, <1>9, ProcessSteps
<1>10. CASE UNCHANGED Ln!vars
  BY Zenon, <1>10
     DEF Ln!vars, Ln!ldk, Ln!process, ChanInv, ChanTypes, ChanAt, OneForward, InProcess
<1>11. QED
  BY Zenon, <1>1, <1>2, <1>3, <1>4, <1>5, <1>6, <1>7, <1>8, <1>9, <1>10 DEF Ln!Next

(* ChanInv is an invariant: channels, outputs and the events about them    *)
(* agree, whatever is delayed, lost with the process, or handled twice.    *)
THEOREM ChannelInvariance ==
    ASSUME Ln!ChannelsArePartitioned PROVE Ln!Spec => []ChanInv
<1>1. ChanInv /\ [Ln!Next]_(Ln!vars) => ChanInv'
  BY Zenon, ChannelsInductive
<1>2. QED  BY ChannelsInitially, <1>1, PTL DEF Ln!Spec

(* handle_open_channel_request accepts no channel of a peer other than the *)
(* LSP, and each request of one waits for its handler, whatever the order  *)
(* of requests, handlers, disconnects and restarts; and no sweep spends a  *)
(* StaticOutput, which the wallet already owns (spend_spendable_outputs).  *)
THEOREM ChannelsAreAlwaysSafe ==
    ASSUME Ln!ChannelsArePartitioned
    PROVE  Ln!Spec => [](Ln!TypeOK /\ Ln!OnlyTheLspOpens /\ Ln!StaticIsNotSwept)
<1>1. ChanInv => Ln!TypeOK
  BY Zenon DEF ChanInv, ChanTypes, ChanAt, OneForward, InProcess, Ln!TypeOK
<1>2. ChanInv => Ln!OnlyTheLspOpens /\ Ln!StaticIsNotSwept
  BY Zenon DEF ChanInv, ChanTypes, ChanAt, Ln!OnlyTheLspOpens, Ln!StaticIsNotSwept, Ln!Chans
<1>3. QED  BY <1>1, <1>2, ChannelInvariance, PTL

================================================================================
