--------------------------- MODULE BearerAuthProofs ---------------------------
(***************************************************************************)
(* Proofs about connections.                                               *)
(*   BearerAuth, the tokens that connections are made with: for any        *)
(*     callers, any lifetimes and timeouts with AuthTimes, a clock without *)
(*     bound and any failures.                                             *)
(*   P2p, an instance of PeerConnections: for any peers and callers, any   *)
(*     number of updates of the reconnector, and any number of faults.     *)
(***************************************************************************)
EXTENDS BearerAuth, TLAPS

(* A token outlives the request that obtains it and one timeout more. *)
AuthTimes ==
    /\ AuthAssumption
    /\ AuthTimeout + Timeout < Lifetime
    /\ None \notin [token : Nat, expiration : Nat]

Req == [pc : {"idle", "lock", "auth", "issued", "connect"}, now : Nat, at : Nat, token : Nat]

Types ==
    /\ now \in Nat /\ expiry \in Seq(Nat)
    /\ cached # None =>
          cached \in [token : Nat, expiration : Nat] /\ cached.token \in 1..Len(expiry)
    /\ queue \in Seq(Callers)
    /\ req \in [Callers -> Req]

(* What is cached is a token with an expiration on the safe side. *)
CacheIsSafe == cached # None => expiry[cached.token] >= cached.expiration + Margin

(* The callers in the queue are those between `lock` and the release, each *)
(* of them once, in the order of their timestamps.                         *)
Queueing == {"lock", "auth", "issued"}
QueueInv ==
    /\ \A c \in Callers : req[c].pc \in Queueing => \E i \in 1..Len(queue) : queue[i] = c
    /\ \A i \in 1..Len(queue) : req[queue[i]].pc \in Queueing
    /\ \A i, j \in 1..Len(queue) : queue[i] = queue[j] => i = j
    /\ \A i, j \in 1..Len(queue) : i <= j => req[queue[i]].now <= req[queue[j]].now

(* Only the first of the queue authenticates, and finds nothing fresh.     *)
(* One that waits would find a token fresh only if that outlives a         *)
(* connection made now.                                                    *)
CallerAt(c) ==
    /\ req[c].now <= now /\ req[c].at <= now
    /\ req[c].pc = "lock" /\ IsFresh(c) => expiry[cached.token] > now + Timeout
    /\ req[c].pc \in {"auth", "issued"} =>
          /\ Len(queue) > 0 /\ queue[1] = c /\ ~IsFresh(c)
          /\ req[c].now <= req[c].at /\ now <= req[c].at + AuthTimeout
    /\ req[c].pc = "issued" =>
          req[c].token \in 1..Len(expiry) /\ expiry[req[c].token] >= req[c].at + Lifetime
    /\ req[c].pc = "connect" =>
          /\ cached # None /\ now <= req[c].at + Timeout
          /\ expiry[cached.token] > req[c].at + Timeout

AuthInv == Types /\ CacheIsSafe /\ QueueInv /\ \A c \in Callers : CallerAt(c)

-----------------------------------------------------------------------------
(* Sequences. *)

LEMMA ExpiryIsNat ==
    ASSUME Types
    PROVE  Len(expiry) \in Nat /\ \A i \in 1..Len(expiry) : expiry[i] \in Nat
BY DEF Types

LEMMA QueueFacts ==
    ASSUME Types
    PROVE  /\ Len(queue) \in Nat /\ \A i \in 1..Len(queue) : queue[i] \in Callers
           /\ Len(queue) > 0 => queue # <<>> /\ Head(queue) = queue[1]
BY DEF Types

LEMMA QueueGrows ==
    ASSUME Types, NEW c \in Callers, queue' = Append(queue, c)
    PROVE  /\ queue' \in Seq(Callers) /\ Len(queue') = Len(queue) + 1
           /\ \A i \in 1..Len(queue) : queue'[i] = queue[i]
           /\ queue'[Len(queue) + 1] = c
BY DEF Types

LEMMA QueueShrinks ==
    ASSUME Types, Len(queue) > 0, queue' = Tail(queue)
    PROVE  /\ queue' \in Seq(Callers) /\ Len(queue') = Len(queue) - 1
           /\ \A i \in 1..Len(queue') : queue'[i] = queue[i + 1] /\ i + 1 \in 1..Len(queue)
BY DEF Types

LEMMA Issue ==
    ASSUME Types, NEW t \in Nat, expiry' = Append(expiry, t)
    PROVE  /\ expiry' \in Seq(Nat) /\ Len(expiry') = Len(expiry) + 1
           /\ \A i \in 1..Len(expiry) : i \in 1..Len(expiry') /\ expiry'[i] = expiry[i]
           /\ expiry'[Len(expiry) + 1] = t /\ Len(expiry) + 1 \in 1..Len(expiry')
BY DEF Types

-----------------------------------------------------------------------------
(* Assignments to the fields of one request. *)

LEMMA SetRequest ==
    ASSUME req \in [Callers -> Req], NEW c \in Callers, NEW e \in Req,
           req' = [req EXCEPT ![c] = e]
    PROVE  req' \in [Callers -> Req] /\ req'[c] = e /\ \A d \in Callers : d # c => req'[d] = req[d]
BY Zenon

WithPcAndNow(c, p, n)   == [req EXCEPT ![c].pc = p, ![c].now = n]
WithPcAndAt(c, p, n)    == [req EXCEPT ![c].pc = p, ![c].at = n]
WithPcAndToken(c, p, n) == [req EXCEPT ![c].pc = p, ![c].token = n]

LEMMA SetFields ==
    ASSUME NEW r \in Req, NEW p, NEW n
    PROVE  /\ [[r EXCEPT !.pc = p] EXCEPT !.now = n]
                = [pc |-> p, now |-> n, at |-> r.at, token |-> r.token]
           /\ [[r EXCEPT !.pc = p] EXCEPT !.at = n]
                = [pc |-> p, now |-> r.now, at |-> n, token |-> r.token]
           /\ [[r EXCEPT !.pc = p] EXCEPT !.token = n]
                = [pc |-> p, now |-> r.now, at |-> r.at, token |-> n]
<1>1. [r EXCEPT !.pc = p] = [pc |-> p, now |-> r.now, at |-> r.at, token |-> r.token]
  BY DEF Req
<1> DEFINE q == [pc |-> p, now |-> r.now, at |-> r.at, token |-> r.token]
<1>2. [q EXCEPT !.now = n] = [pc |-> p, now |-> n, at |-> r.at, token |-> r.token]
  OBVIOUS
<1>3. [q EXCEPT !.at = n] = [pc |-> p, now |-> r.now, at |-> n, token |-> r.token]
  OBVIOUS
<1>4. [q EXCEPT !.token = n] = [pc |-> p, now |-> r.now, at |-> r.at, token |-> n]
  OBVIOUS
<1>5. QED  BY Zenon, <1>1, <1>2, <1>3, <1>4

LEMMA SetTwo ==
    ASSUME req \in [Callers -> Req], NEW c \in Callers, NEW n \in Nat,
           NEW p \in {"idle", "lock", "auth", "issued", "connect"}
    PROVE  /\ req' = WithPcAndNow(c, p, n) =>
                /\ req' \in [Callers -> Req] /\ \A d \in Callers : d # c => req'[d] = req[d]
                /\ req'[c] = [pc |-> p, now |-> n, at |-> req[c].at, token |-> req[c].token]
           /\ req' = WithPcAndAt(c, p, n) =>
                /\ req' \in [Callers -> Req] /\ \A d \in Callers : d # c => req'[d] = req[d]
                /\ req'[c] = [pc |-> p, now |-> req[c].now, at |-> n, token |-> req[c].token]
           /\ req' = WithPcAndToken(c, p, n) =>
                /\ req' \in [Callers -> Req] /\ \A d \in Callers : d # c => req'[d] = req[d]
                /\ req'[c] = [pc |-> p, now |-> req[c].now, at |-> req[c].at, token |-> n]
<1>1. req[c] \in Req
  BY Zenon
<1>2. /\ [pc |-> p, now |-> n, at |-> req[c].at, token |-> req[c].token] \in Req
      /\ [pc |-> p, now |-> req[c].now, at |-> n, token |-> req[c].token] \in Req
      /\ [pc |-> p, now |-> req[c].now, at |-> req[c].at, token |-> n] \in Req
  BY <1>1 DEF Req
<1> DEFINE q == req[c]
<1>a. /\ [[q EXCEPT !.pc = p] EXCEPT !.now = n]
           = [pc |-> p, now |-> n, at |-> q.at, token |-> q.token]
      /\ [[q EXCEPT !.pc = p] EXCEPT !.at = n]
           = [pc |-> p, now |-> q.now, at |-> n, token |-> q.token]
      /\ [[q EXCEPT !.pc = p] EXCEPT !.token = n]
           = [pc |-> p, now |-> q.now, at |-> q.at, token |-> n]
  <2> HIDE DEF q
  <2>1. q \in Req
    BY Zenon, <1>1 DEF q
  <2>2. QED  BY Zenon, <2>1, SetFields
<1>3. req' = WithPcAndNow(c, p, n) =>
         req' = [req EXCEPT ![c] = [pc |-> p, now |-> n, at |-> req[c].at, token |-> req[c].token]]
  BY Zenon, <1>1, <1>a DEF WithPcAndNow
<1>4. req' = WithPcAndAt(c, p, n) =>
         req' = [req EXCEPT ![c] = [pc |-> p, now |-> req[c].now, at |-> n, token |-> req[c].token]]
  BY Zenon, <1>1, <1>a DEF WithPcAndAt
<1>5. req' = WithPcAndToken(c, p, n) =>
         req' = [req EXCEPT ![c] = [pc |-> p, now |-> req[c].now, at |-> req[c].at, token |-> n]]
  BY Zenon, <1>1, <1>a DEF WithPcAndToken
<1>6. QED  BY Zenon, <1>2, <1>3, <1>4, <1>5, SetRequest

(* A caller that connects or is idle again. *)
LEMMA Reset ==
    ASSUME now \in Nat
    PROVE  /\ IdleCaller \in Req /\ IdleCaller.pc = "idle"
           /\ IdleCaller.now = 0 /\ IdleCaller.at = 0
           /\ [IdleCaller EXCEPT !.pc = "connect", !.at = now]
                = [pc |-> "connect", now |-> 0, at |-> now, token |-> 0]
           /\ [pc |-> "connect", now |-> 0, at |-> now, token |-> 0] \in Req
<1>1. IdleCaller \in Req
  BY DEF IdleCaller, Req
<1>2. [[IdleCaller EXCEPT !.pc = "connect"] EXCEPT !.at = now]
         = [pc |-> "connect", now |-> IdleCaller.now, at |-> now, token |-> IdleCaller.token]
  BY Zenon, <1>1, SetFields
<1>3. IdleCaller.pc = "idle" /\ IdleCaller.now = 0 /\ IdleCaller.at = 0 /\ IdleCaller.token = 0
  BY DEF IdleCaller
<1>4. [pc |-> "connect", now |-> 0, at |-> now, token |-> 0] \in Req
  BY DEF Req
<1>5. QED  BY Zenon, <1>1, <1>2, <1>3, <1>4

-----------------------------------------------------------------------------
(* The queue. *)

(* The queue when nobody enters or leaves it. *)
LEMMA QueueStays ==
    ASSUME AuthInv, NEW c \in Callers, queue' = queue, \A d \in Callers : d # c => req'[d] = req[d],
           req[c].pc \in Queueing, req'[c].pc \in Queueing, req'[c].now = req[c].now
    PROVE  QueueInv'
<1>1. \A d \in Callers : (req'[d].pc \in Queueing <=> req[d].pc \in Queueing) /\ req'[d].now = req[d].now
  BY Zenon
<1>2. \A i \in 1..Len(queue) : queue[i] \in Callers
  BY Zenon, QueueFacts DEF AuthInv
<1>3. QED  BY <1>1, <1>2 DEF AuthInv, QueueInv

(* The queue when a caller enters it, whose timestamp is the latest. *)
LEMMA QueueEntered ==
    ASSUME AuthInv, NEW c \in Callers, queue' = Append(queue, c),
           \A d \in Callers : d # c => req'[d] = req[d],
           req[c].pc \notin Queueing, req'[c].pc \in Queueing, req'[c].now = now
    PROVE  QueueInv'
<1> DEFINE n == Len(queue)
<1>1. /\ n \in Nat /\ Len(queue') = n + 1 /\ queue'[n + 1] = c
      /\ \A i \in 1..n : queue'[i] = queue[i] /\ queue[i] \in Callers
  BY Zenon, QueueFacts, QueueGrows DEF AuthInv
<1>2. \A i \in 1..n : queue[i] # c
  BY Zenon DEF AuthInv, QueueInv
<1>3. \A i \in 1..n : req'[queue'[i]] = req[queue[i]]
  BY Zenon, <1>1, <1>2
<1>4. \A i \in 1..Len(queue') : i \in 1..n \/ i = n + 1
  <2> HIDE DEF n
  <2>1. QED  BY <1>1
<1>5. \A i \in 1..n : i \in 1..Len(queue')
  <2> HIDE DEF n
  <2>1. QED  BY <1>1
<1>6. n + 1 \in 1..Len(queue')
  <2> HIDE DEF n
  <2>1. QED  BY <1>1
<1>7. \A d \in Callers : req'[d].pc \in Queueing => \E i \in 1..Len(queue') : queue'[i] = d
  <2>1. SUFFICES ASSUME NEW d \in Callers, req'[d].pc \in Queueing
                 PROVE  \E i \in 1..Len(queue') : queue'[i] = d
    BY Zenon
  <2>2. CASE d = c
    BY Zenon, <2>2, <1>1, <1>6
  <2>3. CASE d # c
    BY <2>1, <2>3, <1>1, <1>5 DEF AuthInv, QueueInv
  <2>4. QED  BY Zenon, <2>2, <2>3
<1>8. \A i \in 1..Len(queue') : req'[queue'[i]].pc \in Queueing
  BY Zenon, <1>1, <1>3, <1>4 DEF AuthInv, QueueInv
<1>9. \A i, j \in 1..Len(queue') : queue'[i] = queue'[j] => i = j
  BY <1>1, <1>2, <1>4 DEF AuthInv, QueueInv
<1>10. ASSUME NEW i \in 1..Len(queue'), NEW j \in 1..Len(queue'), i <= j
       PROVE  req'[queue'[i]].now <= req'[queue'[j]].now
  <2>1. CASE i \in 1..n /\ j \in 1..n
    BY <2>1, <1>3, <1>10 DEF AuthInv, QueueInv
  <2>2. CASE i \in 1..n /\ j = n + 1
    BY <2>2, <1>1, <1>3 DEF AuthInv, CallerAt
  <2>3. CASE i = n + 1 /\ j = n + 1
    <3>1. now \in Nat
      BY Zenon DEF AuthInv, Types
    <3>2. now <= now
      BY <3>1
    <3>3. QED  BY Zenon, <2>3, <3>2, <1>1
  <2>4. ~(i = n + 1 /\ j \in 1..n)
    <3> HIDE DEF n
    <3>1. QED  BY <1>1, <1>10
  <2>5. QED  BY Zenon, <1>4, <2>1, <2>2, <2>3, <2>4
<1>11. QED  BY Zenon, <1>7, <1>8, <1>9, <1>10 DEF QueueInv

(* The queue when its first caller leaves it. *)
LEMMA QueueLeft ==
    ASSUME AuthInv, NEW c \in Callers, Len(queue) > 0, queue[1] = c, queue' = Tail(queue),
           \A d \in Callers : d # c => req'[d] = req[d], req'[c].pc \notin Queueing
    PROVE  QueueInv'
<1> DEFINE n == Len(queue)
<1>1. /\ n \in Nat /\ Len(queue') = n - 1 /\ \A i \in 1..n : queue[i] \in Callers
      /\ \A i \in 1..Len(queue') : queue'[i] = queue[i + 1] /\ i + 1 \in 1..n
  BY Zenon, QueueFacts, QueueShrinks DEF AuthInv
<1>2. 1 \in 1..n /\ \A i \in 1..Len(queue') : i + 1 # 1
  <2>1. n > 0
    OBVIOUS
  <2> HIDE DEF n
  <2>2. QED  BY <1>1, <2>1
<1>3. \A i \in 1..Len(queue') : queue'[i] # c /\ queue'[i] \in Callers
  BY <1>1, <1>2 DEF AuthInv, QueueInv
<1>4. \A i \in 1..Len(queue') : req'[queue'[i]] = req[queue[i + 1]]
  BY Zenon, <1>1, <1>3
<1>5. \A d \in Callers : req'[d].pc \in Queueing => \E i \in 1..Len(queue') : queue'[i] = d
  <2>1. SUFFICES ASSUME NEW d \in Callers, req'[d].pc \in Queueing
                 PROVE  \E i \in 1..Len(queue') : queue'[i] = d
    BY Zenon
  <2>2. d # c /\ req[d].pc \in Queueing
    BY Zenon, <2>1
  <2>3. PICK i \in 1..n : queue[i] = d
    BY Zenon, <2>2 DEF AuthInv, QueueInv
  <2>4. i # 1
    BY Zenon, <2>2, <2>3
  <2>5. i - 1 \in 1..Len(queue') /\ (i - 1) + 1 = i
    <3> HIDE DEF n
    <3>1. QED  BY <1>1, <2>4
  <2>6. queue'[i - 1] = d
    BY Zenon, <1>1, <2>3, <2>5
  <2>7. QED  BY Zenon, <2>5, <2>6
<1>6. \A i \in 1..Len(queue') : req'[queue'[i]].pc \in Queueing
  BY <1>1, <1>4 DEF AuthInv, QueueInv
<1>7. \A i, j \in 1..Len(queue') : (i + 1 = j + 1 => i = j) /\ (i <= j => i + 1 <= j + 1)
  OBVIOUS
<1>8. \A i, j \in 1..Len(queue') : queue'[i] = queue'[j] => i = j
  BY <1>1, <1>7 DEF AuthInv, QueueInv
<1>9. \A i, j \in 1..Len(queue') : i <= j => req'[queue'[i]].now <= req'[queue'[j]].now
  BY <1>1, <1>4, <1>7 DEF AuthInv, QueueInv
<1>10. QED  BY Zenon, <1>5, <1>6, <1>8, <1>9 DEF QueueInv

-----------------------------------------------------------------------------
(* The steps. *)

(* A caller that is not concerned, when neither the clock nor the cache    *)
(* changes.                                                                *)
LEMMA CallerKept ==
    ASSUME AuthInv, NEW d \in Callers, req'[d] = req[d], now' = now, cached' = cached,
           \A i \in 1..Len(expiry) : i \in 1..Len(expiry') /\ expiry'[i] = expiry[i],
           req[d].pc \in {"auth", "issued"} => Len(queue') > 0 /\ queue'[1] = d
    PROVE  CallerAt(d)'
<1>1. CallerAt(d) /\ (cached # None => cached.token \in 1..Len(expiry))
  BY Zenon DEF AuthInv, Types
<1>2. IsFresh(d)' <=> IsFresh(d)
  BY Zenon DEF IsFresh
<1>3. cached # None => expiry'[cached'.token] = expiry[cached.token]
  BY Zenon, <1>1
<1>4. req[d].pc = "issued" =>
         req[d].token \in 1..Len(expiry') /\ expiry'[req[d].token] = expiry[req[d].token]
  BY Zenon, <1>1 DEF CallerAt
<1>5. IsFresh(d) => cached # None
  BY Zenon DEF IsFresh
<1>6. QED  BY Zenon, <1>1, <1>2, <1>3, <1>4, <1>5 DEF CallerAt

(* Only the first of the queue authenticates. *)
LEMMA OneAuthenticates ==
    ASSUME AuthInv, NEW c \in Callers, NEW d \in Callers, Len(queue) > 0, queue[1] = c,
           req[d].pc \in {"auth", "issued"}
    PROVE  d = c
BY Zenon DEF AuthInv, CallerAt

(* What a caller's request is made of. *)
LEMMA RequestTypes ==
    ASSUME AuthInv, NEW c \in Callers
    PROVE  /\ req[c] \in Req /\ req[c].now \in Nat /\ req[c].at \in Nat /\ req[c].token \in Nat
           /\ req[c].now <= now /\ req[c].at <= now /\ now \in Nat
<1>1. req[c] \in Req /\ req[c].now <= now /\ req[c].at <= now /\ now \in Nat
  BY Zenon DEF AuthInv, Types, CallerAt
<1>2. req[c].now \in Nat /\ req[c].at \in Nat /\ req[c].token \in Nat
  BY <1>1 DEF Req
<1>3. QED  BY Zenon, <1>1, <1>2

(* The first of the queue is in it. *)
LEMMA FirstIsQueued ==
    ASSUME AuthInv, NEW c \in Callers, req[c].pc \in Queueing
    PROVE  Len(queue) > 0 /\ Head(queue) = queue[1] /\ queue # <<>>
<1>1. PICK i \in 1..Len(queue) : queue[i] = c
  BY Zenon DEF AuthInv, QueueInv
<1>2. Len(queue) \in Nat
  BY Zenon, QueueFacts DEF AuthInv
<1>3. Len(queue) > 0
  BY <1>1, <1>2
<1>4. QED  BY Zenon, <1>3, QueueFacts DEF AuthInv

(* The clock moves only while the first of the queue authenticates, who    *)
(* finds nothing fresh; then nobody behind it does.                        *)
LEMMA StepTick ==
    ASSUME AuthTimes, AuthInv, Tick
    PROVE  AuthInv'
<1>1. now' = now + 1 /\ expiry' = expiry /\ cached' = cached /\ queue' = queue /\ req' = req
  BY Zenon DEF Tick
<1>2. Types' /\ now \in Nat
  <2>1. now \in Nat /\ now + 1 \in Nat
    BY DEF AuthInv, Types
  <2>2. QED  BY Zenon, <1>1, <2>1 DEF AuthInv, Types
<1>3. CacheIsSafe' /\ QueueInv'
  BY Zenon, <1>1 DEF AuthInv, CacheIsSafe, QueueInv
<1>4. ASSUME NEW d \in Callers
      PROVE  CallerAt(d)'
  <2>1. CallerAt(d) /\ (IsFresh(d)' <=> IsFresh(d))
    BY Zenon, <1>1, <1>4 DEF AuthInv, IsFresh
  <2>2. /\ req[d].now \in Nat /\ req[d].at \in Nat /\ req[d].now <= now /\ req[d].at <= now
    BY Zenon, <1>4, RequestTypes
  <2>3. req[d].now <= now' /\ req[d].at <= now'
    BY <2>2, <1>1, <1>2
  <2>4. ASSUME req[d].pc = "lock"
        PROVE  ~IsFresh(d)
    <3>1. Len(queue) > 0 /\ Head(queue) = queue[1] /\ queue # <<>>
      BY Zenon, <2>4, <1>4, FirstIsQueued DEF Queueing
    <3>2. Len(queue) \in Nat /\ queue[1] \in Callers /\ 1 \in 1..Len(queue)
      <4>1. Len(queue) \in Nat
        BY Zenon, QueueFacts DEF AuthInv
      <4>2. 1 \in 1..Len(queue)
        BY <3>1, <4>1
      <4>3. QED  BY Zenon, <4>1, <4>2, QueueFacts DEF AuthInv
    <3> DEFINE h == queue[1]
    <3>3. req[h].pc \in Queueing /\ req[h].pc # "lock"
      BY Zenon, <3>1, <3>2 DEF AuthInv, QueueInv, Tick
    <3>4. ~IsFresh(h)
      BY Zenon, <3>2, <3>3 DEF AuthInv, CallerAt, Queueing
    <3>5. PICK i \in 1..Len(queue) : queue[i] = d
      BY Zenon, <2>4, <1>4 DEF AuthInv, QueueInv, Queueing
    <3>6. 1 <= i
      BY <3>2
    <3>7. req[h].now <= req[d].now
      BY Zenon, <3>2, <3>5, <3>6 DEF AuthInv, QueueInv
    <3>8. req[h].now \in Nat
      BY Zenon, <3>2, RequestTypes
    <3>9. cached # None => cached.expiration \in Nat
      BY DEF AuthInv, Types
    <3>10. cached # None => ~(cached.expiration > req[h].now)
      BY Zenon, <3>4 DEF IsFresh
    <3>11. cached # None => ~(cached.expiration > req[d].now)
      <4> HIDE DEF h
      <4>1. QED  BY <3>7, <3>8, <3>9, <3>10, <2>2
    <3>12. QED  BY Zenon, <3>11 DEF IsFresh
  <2>5. ASSUME req[d].pc \in {"auth", "issued"}
        PROVE  now' <= req[d].at + AuthTimeout
    <3>1. now - req[d].at < AuthTimeout /\ AuthTimeout \in Nat
      BY Zenon, <2>5, <1>4 DEF Tick, Authing, AuthTimes, AuthAssumption
    <3>2. QED  BY <3>1, <2>2, <1>1, <1>2
  <2>6. ASSUME req[d].pc = "connect"
        PROVE  now' <= req[d].at + Timeout
    <3>1. now - req[d].at < Timeout /\ Timeout \in Nat
      BY Zenon, <2>6, <1>4 DEF Tick, AuthTimes, AuthAssumption
    <3>2. QED  BY <3>1, <2>2, <1>1, <1>2
  <2>7. QED  BY Zenon, <1>1, <2>1, <2>3, <2>4, <2>5, <2>6 DEF CallerAt
<1>5. QED  BY Zenon, <1>2, <1>3, <1>4 DEF AuthInv

(* A caller reads the clock and queues: a token that is fresh for the      *)
(* present has the margin left, which is no less than a timeout.           *)
LEMMA StepCall ==
    ASSUME AuthTimes, AuthInv, NEW c \in Callers, Call(c)
    PROVE  AuthInv'
<1>1. /\ req[c].pc = "idle" /\ req' = WithPcAndNow(c, "lock", now) /\ queue' = Append(queue, c)
      /\ now' = now /\ expiry' = expiry /\ cached' = cached
  BY Zenon DEF Call, WithPcAndNow
<1>2. now \in Nat /\ req \in [Callers -> Req]
  BY Zenon DEF AuthInv, Types
<1>3. /\ req' \in [Callers -> Req] /\ \A d \in Callers : d # c => req'[d] = req[d]
      /\ req'[c] = [pc |-> "lock", now |-> now, at |-> req[c].at, token |-> req[c].token]
  BY Zenon, <1>1, <1>2, SetTwo
<1>4. req'[c].pc = "lock" /\ req'[c].now = now /\ req'[c].at = req[c].at
  BY <1>3
<1>5. /\ queue' \in Seq(Callers) /\ Len(queue') = Len(queue) + 1
      /\ \A i \in 1..Len(queue) : queue'[i] = queue[i]
  BY Zenon, <1>1, QueueGrows DEF AuthInv
<1>6. Types' /\ CacheIsSafe'
  BY Zenon, <1>1, <1>3, <1>5 DEF AuthInv, Types, CacheIsSafe
<1>7. QueueInv'
  <2>1. req[c].pc \notin Queueing /\ req'[c].pc \in Queueing
    BY <1>1, <1>4 DEF Queueing
  <2>2. QED  BY Zenon, <1>1, <1>3, <1>4, <2>1, QueueEntered
<1>8. ASSUME NEW d \in Callers
      PROVE  CallerAt(d)'
  <2>1. CASE d # c
    <3>1. ASSUME Len(queue) > 0, queue[1] = d
          PROVE  Len(queue') > 0 /\ queue'[1] = d
      <4>1. Len(queue) \in Nat
        BY Zenon, QueueFacts DEF AuthInv
      <4>2. 1 \in 1..Len(queue) /\ Len(queue') > 0
        BY <4>1, <3>1, <1>5
      <4>3. QED  BY Zenon, <3>1, <4>2, <1>5
    <3>2. req[d].pc \in {"auth", "issued"} => Len(queue) > 0 /\ queue[1] = d
      BY Zenon, <1>8 DEF AuthInv, CallerAt
    <3>3. QED  BY Zenon, <1>1, <1>3, <1>8, <2>1, <3>1, <3>2, CallerKept
  <2>2. CASE d = c
    <3>1. req[c].at <= now /\ now <= now
      BY <1>2, RequestTypes
    <3>2. ASSUME cached # None, cached.expiration > now
          PROVE  expiry[cached.token] > now + Timeout
      <4>1. /\ cached.expiration \in Nat /\ cached.token \in 1..Len(expiry)
            /\ expiry[cached.token] >= cached.expiration + Margin
        BY <3>2 DEF AuthInv, Types, CacheIsSafe
      <4>2. expiry[cached.token] \in Nat /\ Timeout \in Nat /\ Margin \in Nat /\ Timeout <= Margin
        BY Zenon, <4>1, ExpiryIsNat DEF AuthInv, AuthTimes, AuthAssumption
      <4>3. QED  BY <3>2, <4>1, <4>2, <1>2
    <3>3. IsFresh(c)' => expiry'[cached'.token] > now' + Timeout
      BY Zenon, <1>1, <1>4, <3>2 DEF IsFresh
    <3>4. req'[c].pc = "lock" /\ req'[c].pc \notin {"auth", "issued"} /\ req'[c].pc # "connect"
      BY <1>4
    <3>5. req'[c].now <= now' /\ req'[c].at <= now'
      BY Zenon, <1>1, <1>4, <3>1
    <3>6. CallerAt(c)'
      BY Zenon, <3>3, <3>4, <3>5 DEF CallerAt
    <3>7. QED  BY Zenon, <2>2, <3>6
  <2>3. QED  BY Zenon, <2>1, <2>2
<1>9. QED  BY Zenon, <1>6, <1>7, <1>8 DEF AuthInv

(* A caller whose request is over or made anew, as the others see it. *)
LEMMA OthersKept ==
    ASSUME AuthInv, NEW c \in Callers, NEW d \in Callers, d # c, req'[d] = req[d],
           now' = now, cached' = cached, expiry' = expiry,
           queue' = queue \/ (Len(queue) > 0 /\ queue[1] = c)
    PROVE  CallerAt(d)'
<1>1. req[d].pc \in {"auth", "issued"} => Len(queue) > 0 /\ queue[1] = d
  BY Zenon DEF AuthInv, CallerAt
<1>2. req[d].pc \in {"auth", "issued"} => Len(queue') > 0 /\ queue'[1] = d
  BY Zenon, <1>1
<1>3. QED  BY Zenon, <1>2, CallerKept

(* A caller that is idle. *)
LEMMA IdleAt ==
    ASSUME NEW c \in Callers, req'[c] = IdleCaller, now' \in Nat
    PROVE  CallerAt(c)'
<1>1. req'[c].pc = "idle" /\ req'[c].now = 0 /\ req'[c].at = 0
  BY DEF IdleCaller
<1>2. /\ req'[c].pc # "lock" /\ req'[c].pc # "issued" /\ req'[c].pc # "connect"
      /\ req'[c].pc \notin {"auth", "issued"}
  BY <1>1
<1>3. req'[c].now <= now' /\ req'[c].at <= now'
  BY <1>1
<1>4. QED  BY Zenon, <1>2, <1>3 DEF CallerAt

(* A caller that is about to connect. *)
LEMMA ConnectAt ==
    ASSUME AuthTimes, NEW c \in Callers, now \in Nat, now' = now,
           req'[c] = [pc |-> "connect", now |-> 0, at |-> now, token |-> 0],
           cached' # None, expiry'[cached'.token] > now + Timeout
    PROVE  CallerAt(c)'
<1>1. req'[c].pc = "connect" /\ req'[c].now = 0 /\ req'[c].at = now
  OBVIOUS
<1>2. req'[c].pc # "lock" /\ req'[c].pc # "issued" /\ req'[c].pc \notin {"auth", "issued"}
  BY <1>1
<1>3. Timeout \in Nat
  BY Zenon DEF AuthTimes, AuthAssumption
<1>4. req'[c].now <= now' /\ req'[c].at <= now' /\ now' <= req'[c].at + Timeout
  BY <1>1, <1>3
<1>5. expiry'[cached'.token] > req'[c].at + Timeout
  BY Zenon, <1>1
<1>6. QED  BY Zenon, <1>2, <1>4, <1>5 DEF CallerAt

(* The first of the queue finds a fresh token, which lives long enough, or *)
(* begins a request.                                                       *)
LEMMA StepGetToken ==
    ASSUME AuthTimes, AuthInv, NEW c \in Callers, GetToken(c)
    PROVE  AuthInv'
<1>1. req[c].pc = "lock" /\ Head(queue) = c /\ now' = now /\ expiry' = expiry /\ cached' = cached
  BY Zenon DEF GetToken
<1>2. Len(queue) > 0 /\ queue[1] = c
  <2>1. req[c].pc \in Queueing
    BY <1>1 DEF Queueing
  <2>2. QED  BY Zenon, <1>1, <2>1, FirstIsQueued
<1>3. /\ now \in Nat /\ req \in [Callers -> Req] /\ CallerAt(c)
      /\ req[c].now \in Nat /\ req[c].at \in Nat /\ req[c].now <= now
  BY Zenon, RequestTypes DEF AuthInv, Types
<1>4. CASE IsFresh(c)
  <2>1. /\ req' = [req EXCEPT ![c] = [IdleCaller EXCEPT !.pc = "connect", !.at = now]]
        /\ queue' = Tail(queue)
    BY Zenon, <1>4 DEF GetToken
  <2>2. /\ req' \in [Callers -> Req] /\ \A d \in Callers : d # c => req'[d] = req[d]
        /\ req'[c] = [pc |-> "connect", now |-> 0, at |-> now, token |-> 0]
    BY Zenon, <1>3, <2>1, Reset, SetRequest
  <2>3. Types' /\ CacheIsSafe'
    BY Zenon, <1>1, <1>2, <2>1, <2>2, QueueShrinks DEF AuthInv, Types, CacheIsSafe
  <2>4. QueueInv'
    <3>1. req'[c].pc \notin Queueing
      BY <2>2 DEF Queueing
    <3>2. QED  BY Zenon, <1>2, <2>1, <2>2, <3>1, QueueLeft
  <2>5. CallerAt(c)'
    <3>1. cached # None /\ expiry[cached.token] > now + Timeout
      BY Zenon, <1>1, <1>3, <1>4 DEF CallerAt, IsFresh
    <3>2. QED  BY Zenon, <1>1, <1>3, <2>2, <3>1, ConnectAt
  <2>6. \A d \in Callers : CallerAt(d)'
    BY Zenon, <1>1, <1>2, <2>2, <2>5, OthersKept
  <2>7. QED  BY Zenon, <2>3, <2>4, <2>6 DEF AuthInv
<1>5. CASE ~IsFresh(c)
  <2>1. req' = WithPcAndAt(c, "auth", now) /\ queue' = queue
    BY Zenon, <1>5 DEF GetToken, WithPcAndAt
  <2>2. /\ req' \in [Callers -> Req] /\ \A d \in Callers : d # c => req'[d] = req[d]
        /\ req'[c] = [pc |-> "auth", now |-> req[c].now, at |-> now, token |-> req[c].token]
    BY Zenon, <1>3, <2>1, SetTwo
  <2>3. req'[c].pc = "auth" /\ req'[c].now = req[c].now /\ req'[c].at = now
    BY <2>2
  <2>4. Types' /\ CacheIsSafe'
    BY Zenon, <1>1, <2>1, <2>2 DEF AuthInv, Types, CacheIsSafe
  <2>5. QueueInv'
    <3>1. req[c].pc \in Queueing /\ req'[c].pc \in Queueing
      BY <1>1, <2>3 DEF Queueing
    <3>2. QED  BY Zenon, <2>1, <2>2, <2>3, <3>1, QueueStays
  <2>6. CallerAt(c)'
    <3>1. ~IsFresh(c)'
      BY Zenon, <1>1, <1>5, <2>3 DEF IsFresh
    <3>2. req'[c].pc # "lock" /\ req'[c].pc # "issued" /\ req'[c].pc # "connect"
      BY <2>3
    <3>3. AuthTimeout \in Nat
      BY Zenon DEF AuthTimes, AuthAssumption
    <3>4. /\ req'[c].now <= now' /\ req'[c].at <= now' /\ req'[c].now <= req'[c].at
          /\ now' <= req'[c].at + AuthTimeout
      BY <1>1, <1>3, <2>3, <3>3
    <3>5. QED  BY Zenon, <1>2, <2>1, <3>1, <3>2, <3>4 DEF CallerAt
  <2>7. \A d \in Callers : CallerAt(d)'
    BY Zenon, <1>1, <2>1, <2>2, <2>6, OthersKept
  <2>8. QED  BY Zenon, <2>4, <2>5, <2>7 DEF AuthInv
<1>6. QED  BY Zenon, <1>4, <1>5

(* The server issues a token no sooner than the request was sent. *)
LEMMA StepServerIssues ==
    ASSUME AuthTimes, AuthInv, NEW c \in Callers, ServerIssues(c)
    PROVE  AuthInv'
<1>1. /\ req[c].pc = "auth" /\ now' = now /\ cached' = cached /\ queue' = queue
      /\ expiry' = Append(expiry, now + Lifetime)
      /\ req' = WithPcAndToken(c, "issued", Len(expiry) + 1)
  BY Zenon DEF ServerIssues, WithPcAndToken
<1>2. /\ now \in Nat /\ req \in [Callers -> Req] /\ CallerAt(c)
      /\ req[c].now \in Nat /\ req[c].at \in Nat /\ req[c].now <= now /\ req[c].at <= now
  BY Zenon, RequestTypes DEF AuthInv, Types
<1>3. now + Lifetime \in Nat /\ Lifetime \in Nat /\ Len(expiry) + 1 \in Nat
  <2>1. Lifetime \in Nat /\ Len(expiry) \in Nat
    BY Zenon, ExpiryIsNat DEF AuthTimes, AuthAssumption, AuthInv
  <2>2. QED  BY <2>1, <1>2
<1>4. /\ expiry' \in Seq(Nat) /\ Len(expiry') = Len(expiry) + 1
      /\ \A i \in 1..Len(expiry) : i \in 1..Len(expiry') /\ expiry'[i] = expiry[i]
      /\ expiry'[Len(expiry) + 1] = now + Lifetime /\ Len(expiry) + 1 \in 1..Len(expiry')
  BY Zenon, <1>1, <1>3, Issue DEF AuthInv
<1>5. /\ req' \in [Callers -> Req] /\ \A d \in Callers : d # c => req'[d] = req[d]
      /\ req'[c] = [pc |-> "issued", now |-> req[c].now, at |-> req[c].at, token |-> Len(expiry) + 1]
  BY Zenon, <1>1, <1>2, <1>3, SetTwo
<1>6. /\ req'[c].pc = "issued" /\ req'[c].now = req[c].now /\ req'[c].at = req[c].at
      /\ req'[c].token = Len(expiry) + 1
  BY <1>5
<1>7. Types' /\ CacheIsSafe'
  <2>1. cached # None => cached \in [token : Nat, expiration : Nat] /\ cached.token \in 1..Len(expiry)
    BY Zenon DEF AuthInv, Types
  <2>2. QED  BY Zenon, <1>1, <1>2, <1>4, <1>5, <2>1 DEF AuthInv, Types, CacheIsSafe
<1>8. QueueInv'
  <2>1. req[c].pc \in Queueing /\ req'[c].pc \in Queueing
    BY <1>1, <1>6 DEF Queueing
  <2>2. QED  BY Zenon, <1>1, <1>5, <1>6, <2>1, QueueStays
<1>9. CallerAt(c)'
  <2>1. /\ Len(queue) > 0 /\ queue[1] = c /\ ~IsFresh(c)
        /\ req[c].now <= req[c].at /\ now <= req[c].at + AuthTimeout
    BY Zenon, <1>1, <1>2 DEF CallerAt
  <2>2. ~IsFresh(c)'
    BY Zenon, <1>1, <1>6, <2>1 DEF IsFresh
  <2>3. req'[c].pc # "lock" /\ req'[c].pc # "connect"
    BY <1>6
  <2>4. req'[c].token \in 1..Len(expiry') /\ expiry'[req'[c].token] = now + Lifetime
    BY Zenon, <1>4, <1>6
  <2>5. now + Lifetime >= req[c].at + Lifetime
    BY <1>2, <1>3
  <2>6. expiry'[req'[c].token] >= req'[c].at + Lifetime
    BY Zenon, <2>4, <2>5, <1>6
  <2>7. QED  BY Zenon, <1>1, <1>2, <1>6, <2>1, <2>2, <2>3, <2>4, <2>6 DEF CallerAt
<1>10. ASSUME NEW d \in Callers, d # c
       PROVE  CallerAt(d)'
  <2>1. req[d].pc \in {"auth", "issued"} => Len(queue) > 0 /\ queue[1] = d
    BY Zenon, <1>10 DEF AuthInv, CallerAt
  <2>2. QED  BY Zenon, <1>1, <1>4, <1>5, <1>10, <2>1, CallerKept
<1>11. QED  BY Zenon, <1>7, <1>8, <1>9, <1>10 DEF AuthInv

(* The new token expires later than a connection made now can take, and    *)
(* what is cached of its expiration, reckoned from the timestamp of the    *)
(* caller, is the margin earlier than that or more.                        *)
LEMMA StepAuthenticated ==
    ASSUME AuthTimes, AuthInv, NEW c \in Callers, Authenticated(c)
    PROVE  AuthInv'
<1>1. /\ req[c].pc = "issued" /\ now' = now /\ expiry' = expiry /\ queue' = Tail(queue)
      /\ cached' = [token |-> req[c].token, expiration |-> req[c].now + Lifetime - Margin]
      /\ req' = [req EXCEPT ![c] = [IdleCaller EXCEPT !.pc = "connect", !.at = now]]
  BY Zenon DEF Authenticated, Expiration
<1>2. /\ now \in Nat /\ req \in [Callers -> Req] /\ CallerAt(c)
      /\ req[c].now \in Nat /\ req[c].at \in Nat /\ req[c].token \in Nat
  BY Zenon, RequestTypes DEF AuthInv, Types
<1>3. /\ Len(queue) > 0 /\ queue[1] = c /\ req[c].now <= req[c].at
      /\ now <= req[c].at + AuthTimeout /\ req[c].token \in 1..Len(expiry)
      /\ expiry[req[c].token] >= req[c].at + Lifetime
  BY Zenon, <1>1, <1>2 DEF CallerAt
<1>4. /\ Lifetime \in Nat /\ Margin \in Nat /\ Timeout \in Nat /\ AuthTimeout \in Nat
      /\ Margin < Lifetime /\ AuthTimeout + Timeout < Lifetime
      /\ None \notin [token : Nat, expiration : Nat]
  BY Zenon DEF AuthTimes, AuthAssumption
<1>5. /\ req' \in [Callers -> Req] /\ \A d \in Callers : d # c => req'[d] = req[d]
      /\ req'[c] = [pc |-> "connect", now |-> 0, at |-> now, token |-> 0]
  BY Zenon, <1>1, <1>2, Reset, SetRequest
<1>6. expiry[req[c].token] \in Nat
  BY Zenon, <1>3, ExpiryIsNat DEF AuthInv
<1>7. /\ cached' \in [token : Nat, expiration : Nat] /\ cached'.token = req[c].token
      /\ cached'.expiration = req[c].now + Lifetime - Margin
  <2>1. req[c].now + Lifetime - Margin \in Nat
    BY <1>2, <1>4
  <2>2. QED  BY Zenon, <1>1, <1>2, <2>1
<1>8. cached' # None
  BY Zenon, <1>4, <1>7
<1>9. Types'
  BY Zenon, <1>1, <1>2, <1>3, <1>5, <1>7, QueueShrinks DEF AuthInv, Types
<1>10. CacheIsSafe'
  <2>1. expiry[req[c].token] >= (req[c].now + Lifetime - Margin) + Margin
    <3>1. \A e, n, a, l, m \in Nat : e >= a + l /\ n <= a => e >= (n + l - m) + m
      OBVIOUS
    <3>2. QED  BY Zenon, <1>2, <1>3, <1>4, <1>6, <3>1
  <2>2. QED  BY Zenon, <1>1, <1>7, <2>1 DEF CacheIsSafe
<1>11. expiry'[cached'.token] > now + Timeout
  <2>1. expiry[req[c].token] > now + Timeout
    BY SMTT(30), <1>2, <1>3, <1>4, <1>6
  <2>2. QED  BY Zenon, <1>1, <1>7, <2>1
<1>12. QueueInv'
  <2>1. req'[c].pc \notin Queueing
    BY <1>5 DEF Queueing
  <2>2. QED  BY Zenon, <1>1, <1>3, <1>5, <2>1, QueueLeft
<1>13. CallerAt(c)'
  BY Zenon, <1>1, <1>2, <1>5, <1>8, <1>11, ConnectAt
<1>14. ASSUME NEW d \in Callers, d # c
       PROVE  CallerAt(d)'
  <2>1. CallerAt(d) /\ req'[d] = req[d] /\ req[d].at \in Nat /\ req[d].at <= now
    BY Zenon, <1>5, <1>14, RequestTypes DEF AuthInv
  <2>2. req[d].pc \notin {"auth", "issued"} /\ req[d].pc # "issued"
    BY Zenon, <1>3, <1>14, OneAuthenticates
  <2>3. expiry'[cached'.token] > req[d].at + Timeout
    <3>1. expiry'[cached'.token] \in Nat
      BY Zenon, <1>1, <1>6, <1>7
    <3>2. QED  BY <3>1, <1>2, <1>4, <1>11, <2>1
  <2>4. QED  BY Zenon, <1>1, <1>8, <1>11, <2>1, <2>2, <2>3 DEF CallerAt
<1>15. QED  BY Zenon, <1>9, <1>10, <1>12, <1>13, <1>14 DEF AuthInv

(* A failed request leaves the cache as it is. *)
LEMMA StepAuthFails ==
    ASSUME AuthTimes, AuthInv, NEW c \in Callers, AuthFails(c)
    PROVE  AuthInv'
<1>1. /\ req[c].pc \in {"auth", "issued"} /\ now' = now /\ expiry' = expiry /\ cached' = cached
      /\ queue' = Tail(queue) /\ req' = [req EXCEPT ![c] = IdleCaller]
  BY Zenon DEF AuthFails, Authing
<1>2. now \in Nat /\ req \in [Callers -> Req] /\ Len(queue) > 0 /\ queue[1] = c
  BY Zenon, <1>1 DEF AuthInv, Types, CallerAt
<1>3. /\ req' \in [Callers -> Req] /\ req'[c] = IdleCaller
      /\ \A d \in Callers : d # c => req'[d] = req[d]
  BY Zenon, <1>1, <1>2, Reset, SetRequest
<1>4. Types' /\ CacheIsSafe'
  BY Zenon, <1>1, <1>2, <1>3, QueueShrinks DEF AuthInv, Types, CacheIsSafe
<1>5. QueueInv'
  <2>1. req'[c].pc \notin Queueing
    BY <1>3 DEF IdleCaller, Queueing
  <2>2. QED  BY Zenon, <1>1, <1>2, <1>3, <2>1, QueueLeft
<1>6. CallerAt(c)'
  BY Zenon, <1>1, <1>2, <1>3, IdleAt
<1>7. \A d \in Callers : CallerAt(d)'
  BY Zenon, <1>1, <1>2, <1>3, <1>6, OthersKept
<1>8. QED  BY Zenon, <1>4, <1>5, <1>7 DEF AuthInv

(* A connection is made, or given up. *)
LEMMA StepConnect ==
    ASSUME AuthTimes, AuthInv, NEW c \in Callers, Connect(c)
    PROVE  AuthInv'
<1>1. /\ req[c].pc = "connect" /\ now' = now /\ expiry' = expiry /\ cached' = cached
      /\ queue' = queue /\ req' = [req EXCEPT ![c] = IdleCaller]
  BY Zenon DEF Connect
<1>2. now \in Nat /\ req \in [Callers -> Req]
  BY Zenon DEF AuthInv, Types
<1>3. /\ req' \in [Callers -> Req] /\ req'[c] = IdleCaller
      /\ \A d \in Callers : d # c => req'[d] = req[d]
  BY Zenon, <1>1, <1>2, Reset, SetRequest
<1>4. Types' /\ CacheIsSafe'
  BY Zenon, <1>1, <1>3 DEF AuthInv, Types, CacheIsSafe
<1>5. QueueInv'
  <2>1. req'[c].pc \notin Queueing /\ req[c].pc \notin Queueing
    BY <1>1, <1>3 DEF IdleCaller, Queueing
  <2>2. \A i \in 1..Len(queue) : queue[i] \in Callers /\ queue[i] # c
    BY Zenon, <2>1, QueueFacts DEF AuthInv, QueueInv
  <2>3. QED  BY <1>1, <1>3, <2>1, <2>2 DEF AuthInv, QueueInv
<1>6. CallerAt(c)'
  BY Zenon, <1>1, <1>2, <1>3, IdleAt
<1>7. \A d \in Callers : CallerAt(d)'
  BY Zenon, <1>1, <1>3, <1>6, OthersKept
<1>8. QED  BY Zenon, <1>4, <1>5, <1>7 DEF AuthInv

-----------------------------------------------------------------------------
(* The theorems. *)

(* Nothing is cached at first and nobody calls. *)
LEMMA AuthInitial ==
    ASSUME AuthTimes, Init
    PROVE  AuthInv
<1>1. now = 0 /\ expiry = <<>> /\ cached = None /\ queue = <<>> /\ req = [c \in Callers |-> IdleCaller]
  BY Zenon DEF Init
<1>2. IdleCaller \in Req /\ IdleCaller.pc = "idle" /\ IdleCaller.now = 0 /\ IdleCaller.at = 0
  BY DEF IdleCaller, Req
<1>3. \A c \in Callers : req[c] = IdleCaller
  BY Zenon, <1>1
<1>4. Types
  <2>1. req \in [Callers -> Req]
    BY Zenon, <1>1, <1>2
  <2>2. now \in Nat /\ expiry \in Seq(Nat) /\ queue \in Seq(Callers)
    BY <1>1
  <2>3. QED  BY Zenon, <1>1, <2>1, <2>2 DEF Types
<1>5. CacheIsSafe
  BY Zenon, <1>1 DEF CacheIsSafe
<1>6. QueueInv
  <2>1. 1..Len(queue) = {}
    BY <1>1
  <2>2. "idle" \notin Queueing
    BY DEF Queueing
  <2>3. QED  BY Zenon, <1>2, <1>3, <2>1, <2>2 DEF QueueInv
<1>7. ASSUME NEW c \in Callers
      PROVE  CallerAt(c)
  <2>1. req[c].pc = "idle" /\ req[c].now <= now /\ req[c].at <= now
    BY <1>1, <1>2, <1>3
  <2>2. QED  BY <2>1 DEF CallerAt
<1>8. QED  BY Zenon, <1>4, <1>5, <1>6, <1>7 DEF AuthInv

(* AuthInv is inductive. *)
LEMMA AuthInductive ==
    ASSUME AuthTimes, AuthInv, [Next]_vars
    PROVE  AuthInv'
<1>1. CASE UNCHANGED vars
  BY Zenon, <1>1 DEF vars, AuthInv, Types, CacheIsSafe, QueueInv, CallerAt, IsFresh
<1>2. CASE Tick
  BY Zenon, <1>2, StepTick
<1>3. ASSUME NEW c \in Callers,
             \/ Call(c) \/ GetToken(c) \/ ServerIssues(c) \/ Authenticated(c)
             \/ AuthFails(c) \/ Connect(c)
      PROVE  AuthInv'
  BY Zenon, <1>3, StepCall, StepGetToken, StepServerIssues, StepAuthenticated, StepAuthFails,
     StepConnect
<1>4. QED  BY Zenon, <1>1, <1>2, <1>3 DEF Next

(* The invariant holds throughout: get_token hands out and caches tokens   *)
(* whose expiration it knows to be on the safe side.                       *)
THEOREM AuthInvariance ==
    ASSUME AuthTimes
    PROVE  Spec => []AuthInv
<1>1. Init => AuthInv
  BY Zenon, AuthInitial
<1>2. AuthInv /\ [Next]_vars => AuthInv'
  BY Zenon, AuthInductive
<1>3. QED  BY PTL, <1>1, <1>2 DEF Spec

(* The token that the proxy callback of NodeClient finds in the cache when *)
(* a connection is made, whoever put it there, is alive.                   *)
THEOREM ProxyTokensAreAlive ==
    ASSUME AuthTimes
    PROVE  Spec => []ProxyTokenIsAlive
<1>1. ASSUME AuthInv
      PROVE  ProxyTokenIsAlive
  <2>1. SUFFICES ASSUME NEW c \in Callers, req[c].pc = "connect"
                 PROVE  cached # None /\ expiry[cached.token] > now
    BY Zenon DEF ProxyTokenIsAlive
  <2>2. /\ cached # None /\ now <= req[c].at + Timeout
        /\ expiry[cached.token] > req[c].at + Timeout
    BY Zenon, <1>1, <2>1 DEF AuthInv, CallerAt
  <2>3. /\ now \in Nat /\ req[c].at \in Nat /\ Timeout \in Nat /\ expiry[cached.token] \in Nat
    BY Zenon, <1>1, <2>1, <2>2, RequestTypes, ExpiryIsNat
       DEF AuthInv, Types, AuthTimes, AuthAssumption
  <2>4. QED  BY <2>2, <2>3
<1>2. AuthInv => ProxyTokenIsAlive
  BY Zenon, <1>1
<1>3. QED  BY PTL, <1>2, AuthInvariance

(* Callers that race to authenticate share one request: none is under way  *)
(* while a token is cached that its caller would take.                     *)
THEOREM AuthsAreShared ==
    ASSUME AuthTimes
    PROVE  Spec => []AuthIsShared
<1>1. AuthInv => AuthIsShared
  BY Zenon DEF AuthInv, AuthIsShared, Authing, CallerAt
<1>2. QED  BY PTL, <1>1, AuthInvariance

-----------------------------------------------------------------------------
(* How long a timestamp waits. *)

(* There are at most n callers: a queue without repetitions is no longer.  *)
(* Each of them may have to wait for one request of each of the others.    *)
SkewCoversQueue(n) ==
    /\ \A q \in Seq(Callers) :
          (\A i, j \in 1..Len(q) : q[i] = q[j] => i = j) => Len(q) <= n
    /\ n * AuthTimeout <= MaxSkew

(* How long the request of the first of the queue is under way. *)
HeadTime ==
    IF Len(queue) > 0 /\ req[queue[1]].pc \in {"auth", "issued"}
    THEN now - req[queue[1]].at ELSE 0

(* The ith of the queue has waited for those who were before it when it    *)
(* came, at most one request for each, and for the request under way.      *)
WaitBound(n, i) == (n - i) * AuthTimeout
WaitInv(n) ==
    \A i \in 1..Len(queue) : now <= req[queue[i]].now + WaitBound(n, i) + HeadTime

(* No caller is twice in the queue. *)
LEMMA QueueIsBounded ==
    ASSUME NEW n \in Nat, SkewCoversQueue(n), Types, QueueInv
    PROVE  Len(queue) \in Nat /\ Len(queue) <= n
<1>1. queue \in Seq(Callers) /\ \A i, j \in 1..Len(queue) : queue[i] = queue[j] => i = j
  BY Zenon DEF Types, QueueInv
<1>2. Len(queue) \in Nat
  BY <1>1
<1>3. QED  BY Zenon, <1>1, <1>2 DEF SkewCoversQueue

LEMMA OneRequestMore ==
    ASSUME NEW n \in Nat, AuthTimes, SkewCoversQueue(n), NEW i \in Nat, i < n
    PROVE  /\ WaitBound(n, i + 1) \in Nat /\ AuthTimeout \in Nat
           /\ WaitBound(n, i) = WaitBound(n, i + 1) + AuthTimeout
<1>1. \A k, a \in Nat : (k + 1) * a = k * a + a /\ k * a \in Nat
  OBVIOUS
<1>2. AuthTimeout \in Nat
  BY Zenon DEF AuthTimes, AuthAssumption
<1> DEFINE k == n - (i + 1)
<1>3. k \in Nat /\ n - i = k + 1
  OBVIOUS
<1> HIDE DEF k
<1>4. QED  BY Zenon, <1>1, <1>2, <1>3 DEF WaitBound, k

(* What is known of the ith of the queue, as numbers. *)
LEMMA WaitTypes ==
    ASSUME NEW n \in Nat, AuthTimes, SkewCoversQueue(n), AuthInv, NEW i \in 1..Len(queue)
    PROVE  /\ queue[i] \in Callers /\ req[queue[i]].now \in Nat /\ now \in Nat
           /\ WaitBound(n, i) \in Nat /\ HeadTime \in 0..AuthTimeout /\ AuthTimeout \in Nat
           /\ Len(queue) > 0 /\ queue[1] \in Callers
<1>1. Len(queue) \in Nat /\ Len(queue) <= n
  BY Zenon, QueueIsBounded DEF AuthInv
<1>2. queue[i] \in Callers /\ 1 \in 1..Len(queue) /\ queue[1] \in Callers /\ Len(queue) > 0
  <2>1. 1 \in 1..Len(queue) /\ Len(queue) > 0
    BY <1>1
  <2>2. QED  BY Zenon, <2>1, QueueFacts DEF AuthInv
<1>3. req[queue[i]].now \in Nat /\ now \in Nat
  BY Zenon, <1>2, RequestTypes
<1>4. AuthTimeout \in Nat
  BY Zenon DEF AuthTimes, AuthAssumption
<1>5. WaitBound(n, i) \in Nat
  <2>1. i - 1 \in Nat /\ i - 1 < n /\ (i - 1) + 1 = i
    BY <1>1
  <2>2. QED  BY Zenon, <1>1, <2>1, OneRequestMore
<1>6. HeadTime \in 0..AuthTimeout
  <2>1. CASE req[queue[1]].pc \in {"auth", "issued"}
    <3>1. HeadTime = now - req[queue[1]].at
      BY Zenon, <2>1, <1>2 DEF HeadTime
    <3>2. /\ now <= req[queue[1]].at + AuthTimeout /\ req[queue[1]].at <= now
          /\ req[queue[1]].at \in Nat
      BY Zenon, <2>1, <1>2, RequestTypes DEF AuthInv, CallerAt
    <3>3. QED  BY SMTT(30), <3>1, <3>2, <1>3, <1>4
  <2>2. CASE req[queue[1]].pc \notin {"auth", "issued"}
    <3>1. HeadTime = 0
      BY Zenon, <2>2 DEF HeadTime
    <3>2. QED  BY <3>1, <1>4
  <2>3. QED  BY Zenon, <2>1, <2>2
<1>7. QED  BY Zenon, <1>2, <1>3, <1>4, <1>5, <1>6

(* The same after a step. *)
LEMMA WaitFacts ==
    ASSUME NEW n \in Nat
    PROVE  AuthTimes /\ SkewCoversQueue(n) /\ AuthInv =>
        \A i \in 1..Len(queue) : WaitBound(n, i) \in Nat /\ HeadTime \in 0..AuthTimeout
BY Zenon, WaitTypes

LEMMA WaitFactsNext ==
    ASSUME NEW n \in Nat
    PROVE  (AuthTimes /\ SkewCoversQueue(n) /\ AuthInv)' =>
        (\A i \in 1..Len(queue) : WaitBound(n, i) \in Nat /\ HeadTime \in 0..AuthTimeout)'
BY PTL, WaitFacts

(* A step that lets no time pass and nobody enter or leave the queue. *)
LEMMA WaitKept ==
    ASSUME NEW n \in Nat, AuthTimes, SkewCoversQueue(n), AuthInv, WaitInv(n),
           now' = now, queue' = queue,
           \A i \in 1..Len(queue) : req'[queue[i]].now = req[queue[i]].now,
           Len(queue) > 0 => HeadTime' = HeadTime
    PROVE  WaitInv(n)'
<1>1. SUFFICES ASSUME NEW i \in 1..Len(queue)
               PROVE  now <= req'[queue[i]].now + WaitBound(n, i) + HeadTime'
  BY Zenon DEF WaitInv, WaitBound
<1>2. Len(queue) > 0
  BY Zenon, WaitTypes
<1>3. QED  BY Zenon, <1>2 DEF WaitInv

(* The first of the queue leaves: the others have one less before them,    *)
(* and waited for its request no longer than that may take.                *)
LEMMA WaitShrinks ==
    ASSUME NEW n \in Nat, AuthTimes, SkewCoversQueue(n), AuthInv, AuthInv', WaitInv(n),
           NEW c \in Callers,
           Len(queue) > 0, queue[1] = c, now' = now, queue' = Tail(queue),
           \A d \in Callers : d # c => req'[d] = req[d]
    PROVE  WaitInv(n)'
<1>1. SUFFICES ASSUME NEW i \in 1..Len(queue')
               PROVE  now <= req'[queue'[i]].now + WaitBound(n, i) + HeadTime'
  BY Zenon DEF WaitInv, WaitBound
<1>2. /\ Len(queue') = Len(queue) - 1 /\ queue'[i] = queue[i + 1] /\ i + 1 \in 1..Len(queue)
  BY Zenon, QueueShrinks DEF AuthInv
<1>3. Len(queue) \in Nat /\ Len(queue) <= n
  BY Zenon, QueueIsBounded DEF AuthInv
<1>4. i \in Nat /\ i < n /\ i + 1 # 1 /\ 1 \in 1..Len(queue)
  BY <1>2, <1>3
<1>5. queue[i + 1] # c
  BY Zenon, <1>2, <1>4 DEF AuthInv, QueueInv
<1>6. /\ queue[i + 1] \in Callers /\ req[queue[i + 1]].now \in Nat /\ now \in Nat
      /\ HeadTime \in 0..AuthTimeout
  BY Zenon, <1>2, WaitTypes
<1>7. /\ WaitBound(n, i + 1) \in Nat /\ AuthTimeout \in Nat
      /\ WaitBound(n, i) = WaitBound(n, i + 1) + AuthTimeout
  BY Zenon, <1>3, <1>4, OneRequestMore
<1>8. now <= req[queue[i + 1]].now + WaitBound(n, i + 1) + HeadTime
  BY Zenon, <1>2 DEF WaitInv
<1>9. req'[queue'[i]].now = req[queue[i + 1]].now
  BY Zenon, <1>2, <1>5, <1>6
<1>10. HeadTime' \in 0..AuthTimeout
  <2>1. (1 \in 1..Len(queue'))
    BY <1>2, <1>3
  <2>2. CASE req'[queue'[1]].pc \in {"auth", "issued"}
    <3>1. queue'[1] = queue[2] /\ 2 \in 1..Len(queue) /\ 1 + 1 = 2
      BY <2>1, <1>2, <1>3, QueueShrinks DEF AuthInv
    <3>2. queue[2] # c /\ queue[2] \in Callers
      BY <3>1, <1>4, QueueFacts DEF AuthInv, QueueInv
    <3>3. req[queue[2]].pc \in {"auth", "issued"}
      BY Zenon, <2>2, <3>1, <3>2
    <3>4. QED  BY Zenon, <3>2, <3>3, OneAuthenticates
  <2>3. CASE req'[queue'[1]].pc \notin {"auth", "issued"}
    <3>1. HeadTime' = 0
      BY Zenon, <2>3 DEF HeadTime
    <3>2. QED  BY <3>1, <1>7
  <2>4. QED  BY Zenon, <2>2, <2>3
<1>11. \A t, w, b, a \in Nat : \A h, k \in 0..a : t <= w + b + h => t <= w + (b + a) + k
  OBVIOUS
<1>12. QED  BY ZenonT(30), <1>6, <1>7, <1>8, <1>9, <1>10, <1>11

(* Time passes only while the request of the first of the queue runs. *)
LEMMA WaitTick ==
    ASSUME NEW n \in Nat, AuthTimes, SkewCoversQueue(n), AuthInv, WaitInv(n), Tick
    PROVE  WaitInv(n)'
<1>1. SUFFICES ASSUME NEW i \in 1..Len(queue)
               PROVE  now' <= req[queue[i]].now + WaitBound(n, i) + HeadTime'
  BY Zenon DEF WaitInv, WaitBound, Tick
<1>2. /\ req[queue[i]].now \in Nat /\ now \in Nat /\ WaitBound(n, i) \in Nat
      /\ HeadTime \in 0..AuthTimeout /\ AuthTimeout \in Nat
      /\ Len(queue) > 0 /\ queue[1] \in Callers
  BY Zenon, WaitTypes
<1>3. req[queue[1]].at \in Nat
  BY Zenon, <1>2, RequestTypes
<1>4. req[queue[1]].pc \in {"auth", "issued"}
  <2>1. 1 \in 1..Len(queue) /\ queue # <<>> /\ Head(queue) = queue[1]
    BY <1>2, QueueFacts DEF AuthInv
  <2>2. QED  BY Zenon, <2>1 DEF AuthInv, QueueInv, Queueing, Tick
<1>5. HeadTime = now - req[queue[1]].at /\ HeadTime' = now' - req[queue[1]].at
  BY Zenon, <1>2, <1>4 DEF HeadTime, Tick
<1>6. now <= req[queue[i]].now + WaitBound(n, i) + HeadTime
  BY Zenon DEF WaitInv
<1>7. now' = now + 1
  BY Zenon DEF Tick
<1>8. \A t, a, w, b \in Nat : t <= w + b + (t - a) => t + 1 <= w + b + ((t + 1) - a)
  OBVIOUS
<1>9. QED  BY Zenon, <1>2, <1>3, <1>5, <1>6, <1>7, <1>8

(* Who queues has waited for nobody yet. *)
LEMMA WaitCall ==
    ASSUME NEW n \in Nat, AuthTimes, SkewCoversQueue(n), AuthInv, AuthInv', WaitInv(n),
           NEW c \in Callers, Call(c)
    PROVE  WaitInv(n)'
<1>1. /\ req' = WithPcAndNow(c, "lock", now) /\ queue' = Append(queue, c) /\ now' = now
      /\ req[c].pc = "idle"
  BY Zenon DEF Call, WithPcAndNow
<1>2. now \in Nat /\ req \in [Callers -> Req]
  BY Zenon DEF AuthInv, Types
<1>3. /\ \A d \in Callers : d # c => req'[d] = req[d]
      /\ req'[c] = [pc |-> "lock", now |-> now, at |-> req[c].at, token |-> req[c].token]
  BY Zenon, <1>1, <1>2, SetTwo
<1>4. req'[c].pc = "lock" /\ req'[c].now = now
  BY <1>3
<1>5. /\ Len(queue') = Len(queue) + 1 /\ \A i \in 1..Len(queue) : queue'[i] = queue[i]
      /\ queue'[Len(queue) + 1] = c /\ Len(queue) \in Nat
      /\ \A i \in 1..Len(queue) : queue[i] \in Callers
  BY Zenon, <1>1, QueueGrows, QueueFacts DEF AuthInv
<1>6. \A i \in 1..Len(queue) : queue[i] # c
  BY <1>1 DEF AuthInv, QueueInv, Queueing
<1>7. ASSUME NEW i \in 1..Len(queue')
      PROVE  now <= req'[queue'[i]].now + WaitBound(n, i) + HeadTime'
  <2>1. WaitBound(n, i) \in Nat /\ HeadTime' \in 0..AuthTimeout /\ AuthTimeout \in Nat
    <3>1. SkewCoversQueue(n)' /\ AuthTimes' /\ WaitBound(n, i)' = WaitBound(n, i)
      BY Zenon DEF SkewCoversQueue, AuthTimes, AuthAssumption, WaitBound
    <3>2. WaitBound(n, i)' \in Nat /\ HeadTime' \in 0..AuthTimeout
      BY Zenon, <1>7, <3>1, WaitFactsNext
    <3>3. QED  BY Zenon, <3>1, <3>2 DEF AuthTimes, AuthAssumption
  <2>2. CASE i \in 1..Len(queue)
    <3>1. req'[queue'[i]] = req[queue[i]]
      BY Zenon, <2>2, <1>3, <1>5, <1>6
    <3>2. HeadTime' = HeadTime
      <4>1. 1 \in 1..Len(queue) /\ Len(queue) > 0 /\ Len(queue') > 0
        BY <2>2, <1>5
      <4>2. req'[queue'[1]] = req[queue[1]]
        BY Zenon, <4>1, <1>3, <1>5, <1>6
      <4>3. QED  BY Zenon, <1>1, <4>1, <4>2 DEF HeadTime
    <3>3. QED  BY Zenon, <2>2, <3>1, <3>2 DEF WaitInv
  <2>3. CASE i = Len(queue) + 1
    <3>1. req'[queue'[i]].now = now
      BY Zenon, <2>3, <1>4, <1>5
    <3>2. QED  BY <3>1, <2>1, <1>2
  <2>4. i \in 1..Len(queue) \/ i = Len(queue) + 1
    BY <1>5
  <2>5. QED  BY Zenon, <2>2, <2>3, <2>4
<1>8. QED  BY Zenon, <1>1, <1>7 DEF WaitInv, WaitBound

(* The other steps of a caller. *)
LEMMA WaitGetToken ==
    ASSUME NEW n \in Nat, AuthTimes, SkewCoversQueue(n), AuthInv, AuthInv', WaitInv(n),
           NEW c \in Callers, GetToken(c)
    PROVE  WaitInv(n)'
<1>1. req[c].pc = "lock" /\ Head(queue) = c /\ now' = now
  BY Zenon DEF GetToken
<1>2. Len(queue) > 0 /\ queue[1] = c
  <2>1. req[c].pc \in Queueing
    BY <1>1 DEF Queueing
  <2>2. QED  BY Zenon, <1>1, <2>1, FirstIsQueued
<1>3. now \in Nat /\ req \in [Callers -> Req]
  BY Zenon DEF AuthInv, Types
<1>4. CASE IsFresh(c)
  <2>1. /\ req' = [req EXCEPT ![c] = [IdleCaller EXCEPT !.pc = "connect", !.at = now]]
        /\ queue' = Tail(queue)
    BY Zenon, <1>4 DEF GetToken
  <2>2. \A d \in Callers : d # c => req'[d] = req[d]
    BY Zenon, <1>3, <2>1, Reset, SetRequest
  <2>3. QED  BY Zenon, <1>1, <1>2, <2>1, <2>2, WaitShrinks
<1>5. CASE ~IsFresh(c)
  <2>1. req' = WithPcAndAt(c, "auth", now) /\ queue' = queue
    BY Zenon, <1>5 DEF GetToken, WithPcAndAt
  <2>2. /\ \A d \in Callers : d # c => req'[d] = req[d]
        /\ req'[c] = [pc |-> "auth", now |-> req[c].now, at |-> now, token |-> req[c].token]
    BY Zenon, <1>3, <2>1, SetTwo
  <2>3. req'[c].pc = "auth" /\ req'[c].now = req[c].now /\ req'[c].at = now
    BY <2>2
  <2>4. \A i \in 1..Len(queue) : req'[queue[i]].now = req[queue[i]].now
    BY Zenon, <2>2, <2>3, QueueFacts DEF AuthInv
  <2>5. HeadTime' = HeadTime
    <3>1. HeadTime' = now - now
      BY Zenon, <1>1, <1>2, <2>1, <2>3 DEF HeadTime
    <3>2. HeadTime = 0
      BY <1>1, <1>2 DEF HeadTime
    <3>3. QED  BY <3>1, <3>2, <1>3
  <2>6. QED  BY Zenon, <1>1, <2>1, <2>4, <2>5, WaitKept
<1>6. QED  BY Zenon, <1>4, <1>5

LEMMA WaitServerIssues ==
    ASSUME NEW n \in Nat, AuthTimes, SkewCoversQueue(n), AuthInv, WaitInv(n),
           NEW c \in Callers, ServerIssues(c)
    PROVE  WaitInv(n)'
<1>1. /\ req[c].pc = "auth" /\ now' = now /\ queue' = queue
      /\ req' = WithPcAndToken(c, "issued", Len(expiry) + 1)
  BY Zenon DEF ServerIssues, WithPcAndToken
<1>2. req \in [Callers -> Req] /\ Len(queue) > 0 /\ queue[1] = c
  BY Zenon, <1>1 DEF AuthInv, Types, CallerAt
<1>3. Len(expiry) + 1 \in Nat
  BY ExpiryIsNat DEF AuthInv
<1>4. /\ \A d \in Callers : d # c => req'[d] = req[d]
      /\ req'[c] = [pc |-> "issued", now |-> req[c].now, at |-> req[c].at, token |-> Len(expiry) + 1]
  BY Zenon, <1>1, <1>2, <1>3, SetTwo
<1>5. req'[c].pc = "issued" /\ req'[c].now = req[c].now /\ req'[c].at = req[c].at
  BY <1>4
<1>6. \A i \in 1..Len(queue) : req'[queue[i]].now = req[queue[i]].now
  BY Zenon, <1>4, <1>5, QueueFacts DEF AuthInv
<1>7. HeadTime' = HeadTime
  BY Zenon, <1>1, <1>2, <1>5 DEF HeadTime
<1>8. QED  BY Zenon, <1>1, <1>6, <1>7, WaitKept

LEMMA WaitReleased ==
    ASSUME NEW n \in Nat, AuthTimes, SkewCoversQueue(n), AuthInv, AuthInv', WaitInv(n),
           NEW c \in Callers,
           Authenticated(c) \/ AuthFails(c)
    PROVE  WaitInv(n)'
<1>1. /\ req[c].pc \in {"auth", "issued"} /\ now' = now /\ queue' = Tail(queue)
      /\ \/ req' = [req EXCEPT ![c] = [IdleCaller EXCEPT !.pc = "connect", !.at = now]]
         \/ req' = [req EXCEPT ![c] = IdleCaller]
  BY Zenon DEF Authenticated, AuthFails, Authing
<1>2. /\ req \in [Callers -> Req] /\ now \in Nat /\ Len(queue) > 0 /\ queue[1] = c
  BY Zenon, <1>1 DEF AuthInv, Types, CallerAt
<1>3. \A d \in Callers : d # c => req'[d] = req[d]
  BY Zenon, <1>1, <1>2, Reset, SetRequest
<1>4. QED  BY Zenon, <1>1, <1>2, <1>3, WaitShrinks

LEMMA WaitConnect ==
    ASSUME NEW n \in Nat, AuthTimes, SkewCoversQueue(n), AuthInv, WaitInv(n),
           NEW c \in Callers, Connect(c)
    PROVE  WaitInv(n)'
<1>1. /\ req[c].pc = "connect" /\ now' = now /\ queue' = queue
      /\ req' = [req EXCEPT ![c] = IdleCaller] /\ req \in [Callers -> Req] /\ now \in Nat
  BY Zenon DEF Connect, AuthInv, Types
<1>2. \A d \in Callers : d # c => req'[d] = req[d]
  BY Zenon, <1>1, Reset, SetRequest
<1>3. \A i \in 1..Len(queue) : queue[i] \in Callers /\ queue[i] # c
  BY <1>1, QueueFacts DEF AuthInv, QueueInv, Queueing
<1>4. \A i \in 1..Len(queue) : req'[queue[i]] = req[queue[i]]
  BY Zenon, <1>2, <1>3
<1>5. ASSUME Len(queue) > 0 PROVE HeadTime' = HeadTime
  <2>1. 1 \in 1..Len(queue)
    BY <1>5, QueueFacts DEF AuthInv
  <2>2. req'[queue'[1]] = req[queue[1]] /\ Len(queue') > 0
    BY Zenon, <1>1, <1>4, <1>5, <2>1
  <2>3. CASE req[queue[1]].pc \in {"auth", "issued"}
    <3>1. HeadTime = now - req[queue[1]].at
      BY Zenon, <1>5, <2>3 DEF HeadTime
    <3>2. HeadTime' = now' - req'[queue'[1]].at
      BY Zenon, <2>2, <2>3 DEF HeadTime
    <3>3. QED  BY Zenon, <1>1, <2>2, <3>1, <3>2
  <2>4. CASE req[queue[1]].pc \notin {"auth", "issued"}
    BY Zenon, <2>2, <2>4 DEF HeadTime
  <2>5. QED  BY Zenon, <2>3, <2>4
<1>6. QED  BY Zenon, <1>1, <1>4, <1>5, WaitKept

(* AuthInv and WaitInv are inductive together. *)
LEMMA WaitInductive ==
    ASSUME NEW n \in Nat, AuthTimes, SkewCoversQueue(n), AuthInv, WaitInv(n), [Next]_vars
    PROVE  WaitInv(n)'
<1>1. AuthInv'
  BY Zenon, AuthInductive
<1>2. CASE UNCHANGED vars
  BY Zenon, <1>2 DEF vars, WaitInv, WaitBound, HeadTime
<1>3. CASE Tick
  BY Zenon, <1>3, WaitTick
<1>4. ASSUME NEW c \in Callers,
             \/ Call(c) \/ GetToken(c) \/ ServerIssues(c) \/ Authenticated(c)
             \/ AuthFails(c) \/ Connect(c)
      PROVE  WaitInv(n)'
  BY Zenon, <1>1, <1>4, WaitCall, WaitGetToken, WaitServerIssues, WaitReleased, WaitConnect
<1>5. QED  BY Zenon, <1>2, <1>3, <1>4 DEF Next

(* A timestamp that get_token took before it queued for the lock is recent *)
(* enough for the server as long as its request is under way, although     *)
(* everybody before it in the queue may have run into the timeout: the     *)
(* queue is fair, and nobody is in it twice.                               *)
THEOREM TimestampsAreFresh ==
    ASSUME NEW n \in Nat, AuthTimes, SkewCoversQueue(n)
    PROVE  Spec => []TimestampIsFresh
<1>1. ASSUME Init PROVE AuthInv /\ WaitInv(n)
  <2>1. queue = <<>>
    BY Zenon, <1>1 DEF Init
  <2>2. 1..Len(queue) = {}
    BY <2>1
  <2>3. QED  BY Zenon, <1>1, <2>2, AuthInitial DEF WaitInv
<1>2. AuthInv /\ WaitInv(n) /\ [Next]_vars => (AuthInv /\ WaitInv(n))'
  BY Zenon, AuthInductive, WaitInductive
<1>3. ASSUME AuthInv, WaitInv(n) PROVE TimestampIsFresh
  <2>1. SUFFICES ASSUME NEW c \in Callers, req[c].pc \in {"auth", "issued"}
                 PROVE  now - req[c].now <= MaxSkew
    BY Zenon DEF TimestampIsFresh, Authing
  <2>2. Len(queue) > 0 /\ queue[1] = c
    BY Zenon, <1>3, <2>1 DEF AuthInv, CallerAt
  <2>3. Len(queue) \in Nat /\ Len(queue) <= n
    BY Zenon, <1>3, QueueIsBounded DEF AuthInv
  <2>4. 1 \in 1..Len(queue) /\ 0 \in Nat /\ 0 < n /\ 0 + 1 = 1
        /\ n - 0 = n
    BY <2>2, <2>3
  <2>5. /\ WaitBound(n, 1) \in Nat /\ AuthTimeout \in Nat
        /\ n * AuthTimeout = WaitBound(n, 1) + AuthTimeout
    <3>1. WaitBound(n, 0 + 1) \in Nat /\ AuthTimeout \in Nat
          /\ WaitBound(n, 0) = WaitBound(n, 0 + 1) + AuthTimeout
      BY Zenon, <2>3, <2>4, OneRequestMore
    <3>2. WaitBound(n, 0) = n * AuthTimeout
      BY Zenon, <2>4 DEF WaitBound
    <3>3. QED  BY Zenon, <2>4, <3>1, <3>2
  <2>6. /\ now <= req[c].now + WaitBound(n, 1) + HeadTime
        /\ HeadTime \in 0..AuthTimeout /\ req[c].now \in Nat /\ now \in Nat
    BY Zenon, <1>3, <2>2, <2>4, WaitTypes DEF WaitInv
  <2>7. MaxSkew \in Nat /\ WaitBound(n, 1) + AuthTimeout <= MaxSkew
    BY Zenon, <2>5 DEF SkewCoversQueue, AuthTimes, AuthAssumption
  <2>8. QED  BY <2>5, <2>6, <2>7
<1>4. QED  BY PTL, <1>1, <1>2, <1>3 DEF Spec

(* The bounds of the clock and of the failures. *)
WithinBounds == now <= MaxTime /\ faults \in 0..MaxFaults

LEMMA BoundsAreKept ==
    ASSUME AuthTimes, AuthInv, WithinBounds, [Next]_vars
    PROVE  WithinBounds'
<1>1. now \in Nat /\ MaxTime \in Nat /\ MaxFaults \in Nat
  BY Zenon DEF AuthInv, Types, AuthTimes, AuthAssumption
<1>2. CASE UNCHANGED vars
  BY Zenon, <1>2 DEF vars, WithinBounds
<1>3. CASE Tick
  BY <1>1, <1>3 DEF Tick, WithinBounds
<1>4. ASSUME NEW c \in Callers,
             Call(c) \/ GetToken(c) \/ ServerIssues(c) \/ Authenticated(c) \/ Connect(c)
      PROVE  WithinBounds'
  <2>1. now' = now /\ faults' = faults
    BY Zenon, <1>4 DEF Call, GetToken, ServerIssues, Authenticated, Connect
  <2>2. QED  BY Zenon, <2>1 DEF WithinBounds
<1>5. ASSUME NEW c \in Callers, AuthFails(c) PROVE WithinBounds'
  BY <1>1, <1>5 DEF AuthFails, WithinBounds
<1>6. QED  BY Zenon, <1>2, <1>3, <1>4, <1>5 DEF Next

LEMMA TypesAreOK ==
    ASSUME AuthTimes, AuthInv, WithinBounds
    PROVE  TypeOK
<1>1. now \in 0..MaxTime /\ faults \in 0..MaxFaults
  BY DEF WithinBounds, AuthInv, Types, AuthTimes, AuthAssumption
<1>2. cached = None \/ cached \in [token : 1..Len(expiry), expiration : Nat]
  BY DEF AuthInv, Types
<1>3. ASSUME NEW c \in Callers
      PROVE  /\ req[c].pc \in {"idle", "lock", "auth", "issued", "connect"}
             /\ req[c].now \in 0..MaxTime /\ req[c].at \in 0..MaxTime
             /\ req[c].pc \in Queueing <=> \E i \in 1..Len(queue) : queue[i] = c
  <2>1. req[c] \in Req /\ req[c].now <= now /\ req[c].at <= now
    BY Zenon DEF AuthInv, Types, CallerAt
  <2>2. /\ req[c].pc \in {"idle", "lock", "auth", "issued", "connect"}
        /\ req[c].now \in 0..MaxTime /\ req[c].at \in 0..MaxTime
    BY <1>1, <2>1 DEF Req, AuthTimes, AuthAssumption
  <2>3. req[c].pc \in Queueing <=> \E i \in 1..Len(queue) : queue[i] = c
    BY Zenon DEF AuthInv, QueueInv
  <2>4. QED  BY Zenon, <2>2, <2>3
<1>4. QED  BY Zenon, <1>1, <1>2, <1>3 DEF TypeOK, AuthInv, Types, Queueing

(* All that get_token and the proxy callback rely on at once               *)
(* (FreshWhenUsed): tokens and timestamps that were fresh when they were   *)
(* checked are valid when they are used, for any number n of callers with  *)
(* a skew that covers their requests.                                      *)
THEOREM WhatIsUsedIsFresh ==
    ASSUME NEW n \in Nat, AuthTimes, SkewCoversQueue(n)
    PROVE  Spec => []FreshWhenUsed
<1>1. Init => WithinBounds
  BY DEF Init, WithinBounds, AuthTimes, AuthAssumption
<1>2. AuthInv /\ WithinBounds /\ [Next]_vars => WithinBounds'
  BY Zenon, BoundsAreKept
<1>3. AuthInv /\ WithinBounds => TypeOK
  BY Zenon, TypesAreOK
<1>4. TypeOK /\ ProxyTokenIsAlive /\ TimestampIsFresh /\ AuthIsShared => FreshWhenUsed
  BY Zenon DEF FreshWhenUsed
<1>5. QED
  BY PTL, <1>1, <1>2, <1>3, <1>4, AuthInvariance, ProxyTokensAreAlive, TimestampsAreFresh,
     AuthsAreShared DEF Spec

-----------------------------------------------------------------------------
(* PeerConnections.                                                        *)

CONSTANTS Peers, InitialPeers, Retries, ChannelSize, Updates, MaxUpdates, CanShutDown,
          Calls  \* the Callers of PeerConnections

VARIABLES connected, dial, sock, orphans, call, tries, channel_peers, updates,
          sent, due, reconnector, closed, main, faults_p2p

P2p == INSTANCE PeerConnections WITH Callers <- Calls, faults <- faults_p2p

(* Calls and updates are about channel peers, a call is not the            *)
(* reconnector's, and there is at least one retry.                         *)
PeerHypotheses ==
    /\ \A a \in Calls : P2p!PeerOf(a) \in Peers
    /\ Calls \cap P2p!Reconnects = {}
    /\ InitialPeers \subseteq Peers
    /\ Updates \subseteq {"Add", "Remove"} \X Peers
    /\ Retries \in Nat \ {0} /\ ChannelSize \in Nat
    /\ MaxUpdates \in Nat /\ MaxFaults \in Nat

(* Only a poll has a socket, only the reconnecting reconnector dials, and  *)
(* a caller that dials waits for the outcome.                              *)
DialInv ==
    /\ \A a \in P2p!Actors : dial[a] # "poll" => sock[a] = "none"
    /\ \A a \in Calls : dial[a] # "none" => call[a] = "dialing"
    /\ reconnector # "reconnecting" => \A a \in P2p!Reconnects : dial[a] = "none"
    /\ main # "running" => closed

(* Without faults a connection stays: a socket that is closed lost the     *)
(* race, and a call that was refused once finds the peer connected.        *)
RaceInv ==
    faults_p2p = 0 /\ ~closed =>
          /\ \A a \in P2p!Actors : sock[a] \in {"up", "closed"} => P2p!is_connected(P2p!PeerOf(a))
          /\ \A a \in Calls :
                /\ call[a] = "sleeping" \/ tries[a] # 0 => P2p!is_connected(P2p!PeerOf(a))
                /\ call[a] = "dialing" => tries[a] = 0
                /\ call[a] # "err"

PeerInv == P2p!TypeOK /\ DialInv /\ P2p!DialsOnlyItsPeers /\ RaceInv

-----------------------------------------------------------------------------
LEMMA ActorsHavePeers ==
    ASSUME PeerHypotheses
    PROVE  \A a \in P2p!Actors : P2p!PeerOf(a) \in Peers
BY DEF PeerHypotheses, P2p!Actors, P2p!Reconnects, P2p!PeerOf

LEMMA PeerInvInit ==
    ASSUME PeerHypotheses, P2p!Init
    PROVE  PeerInv
<1>1. P2p!TypeOK
  <2>1. updates \in Seq(Updates) /\ Len(updates) <= ChannelSize
    BY DEF P2p!Init, PeerHypotheses
  <2>2. /\ dial \in [P2p!Actors -> {"none", "tcp", "poll"}]
        /\ sock \in [P2p!Actors -> {"none", "handshake", "up", "closed"}]
        /\ call \in [Calls -> {"idle", "dialing", "sleeping", "ok", "err"}]
        /\ tries \in [Calls -> 0..Retries]
    BY DEF P2p!Init, PeerHypotheses
  <2>3. sent \in 0..MaxUpdates /\ faults_p2p \in 0..MaxFaults
    BY DEF P2p!Init, PeerHypotheses
  <2>4. channel_peers \in SUBSET Peers
    BY DEF P2p!Init, PeerHypotheses
  <2>5. QED  BY <2>1, <2>2, <2>3, <2>4 DEF P2p!Init, P2p!TypeOK
<1>2. DialInv /\ P2p!DialsOnlyItsPeers /\ RaceInv
  BY DEF P2p!Init, DialInv, P2p!DialsOnlyItsPeers, RaceInv, P2p!Actors
<1>3. QED  BY <1>1, <1>2 DEF PeerInv

(* An attempt ends well only for a peer that is connected, and badly after *)
(* a fault or a lost race.                                                 *)
LEMMA AttemptEndsInv ==
    ASSUME PeerHypotheses, PeerInv, NEW a \in P2p!Actors, NEW ok \in BOOLEAN,
           P2p!AttemptEnds(a, ok), dial[a] # "none",
           faults_p2p' = 0 => ok \/ sock[a] = "closed",
           faults_p2p' = faults_p2p \/ P2p!Fault,
           UNCHANGED <<connected, channel_peers, updates, sent, due, reconnector, closed, main>>
    PROVE  PeerInv'
<1>1. P2p!TypeOK /\ P2p!PeerOf(a) \in Peers
  BY ActorsHavePeers DEF PeerInv
<1>2. faults_p2p' \in 0..MaxFaults /\ (faults_p2p' = 0 => faults_p2p = 0)
  BY <1>1 DEF P2p!TypeOK, P2p!Fault, PeerHypotheses
<1>3. /\ dial' = [dial EXCEPT ![a] = "none"] /\ sock' = [sock EXCEPT ![a] = "none"]
      /\ orphans' \in SUBSET Peers
  BY <1>1 DEF P2p!AttemptEnds, P2p!TypeOK
<1>4. CASE a \in Calls
  <2>1. /\ call' = [call EXCEPT ![a] = IF ok THEN "ok"
                       ELSE IF tries[a] < Retries THEN "sleeping" ELSE "err"]
        /\ tries' = [tries EXCEPT ![a] = IF ok \/ tries[a] = Retries THEN @ ELSE @ + 1]
    BY <1>4 DEF P2p!AttemptEnds
  <2>2. P2p!TypeOK'
    BY <1>1, <1>2, <1>3, <1>4, <2>1 DEF P2p!TypeOK, PeerHypotheses
  <2>3. DialInv' /\ P2p!DialsOnlyItsPeers'
    BY <1>1, <1>3, <1>4, <2>1 DEF P2p!TypeOK, PeerInv, DialInv, P2p!DialsOnlyItsPeers, P2p!Actors
  <2>4. RaceInv'
    <3>1. SUFFICES ASSUME faults_p2p' = 0, ~closed'
                   PROVE  /\ \A b \in P2p!Actors : sock'[b] \in {"up", "closed"} => P2p!PeerOf(b) \in connected'
                          /\ \A b \in Calls :
                                /\ call'[b] = "sleeping" \/ tries'[b] # 0 => P2p!PeerOf(b) \in connected'
                                /\ call'[b] = "dialing" => tries'[b] = 0
                                /\ call'[b] # "err"
      BY Zenon DEF RaceInv, P2p!is_connected
    <3>2. faults_p2p = 0 /\ ~closed /\ connected' = connected
      BY <1>2, <3>1
    <3>3. /\ \A b \in P2p!Actors : sock[b] \in {"up", "closed"} => P2p!PeerOf(b) \in connected
          /\ \A b \in Calls :
                /\ call[b] = "sleeping" \/ tries[b] # 0 => P2p!PeerOf(b) \in connected
                /\ call[b] = "dialing" => tries[b] = 0
                /\ call[b] # "err"
      BY Zenon, <3>2 DEF PeerInv, RaceInv, P2p!is_connected
    <3>4. call[a] = "dialing" /\ tries[a] = 0 /\ tries[a] < Retries
      BY <1>4, <3>3 DEF PeerInv, DialInv, PeerHypotheses
    <3>5. ok \/ P2p!PeerOf(a) \in connected
      BY <3>1, <3>3
    <3>6. QED  BY <1>1, <1>3, <1>4, <2>1, <3>2, <3>3, <3>4, <3>5 DEF P2p!TypeOK
  <2>5. QED  BY <2>2, <2>3, <2>4 DEF PeerInv
<1>5. CASE a \notin Calls
  <2>1. UNCHANGED <<call, tries>>
    BY <1>5 DEF P2p!AttemptEnds
  <2>2. P2p!TypeOK'
    BY <1>1, <1>2, <1>3, <2>1 DEF P2p!TypeOK
  <2>3. DialInv' /\ P2p!DialsOnlyItsPeers'
    BY <1>1, <1>3, <2>1 DEF P2p!TypeOK, PeerInv, DialInv, P2p!DialsOnlyItsPeers, P2p!Actors
  <2>4. RaceInv'
    BY <1>1, <1>2, <1>3, <2>1 DEF P2p!TypeOK, PeerInv, RaceInv, P2p!is_connected
  <2>5. QED  BY <2>2, <2>3, <2>4 DEF PeerInv
<1>6. QED  BY <1>4, <1>5

LEMMA DialerStep ==
    ASSUME PeerHypotheses, PeerInv, NEW a \in P2p!Actors, P2p!Tcp(a) \/ P2p!Poll(a)
    PROVE  PeerInv'
<1>1. P2p!TypeOK /\ DialInv /\ P2p!DialsOnlyItsPeers /\ RaceInv
  BY DEF PeerInv
<1>2. CASE P2p!TcpConnects(a)
  <2>1. P2p!TypeOK'
    BY <1>1, <1>2 DEF P2p!TypeOK, P2p!TcpConnects
  <2>2. DialInv'
    BY <1>1, <1>2 DEF P2p!TypeOK, DialInv, P2p!TcpConnects, P2p!Actors
  <2>3. P2p!DialsOnlyItsPeers'
    BY <1>1, <1>2 DEF P2p!TypeOK, P2p!DialsOnlyItsPeers, P2p!TcpConnects, P2p!Actors
  <2>4. RaceInv'
    BY <1>1, <1>2 DEF P2p!TypeOK, RaceInv, P2p!TcpConnects, P2p!is_connected
  <2>5. QED  BY <2>1, <2>2, <2>3, <2>4 DEF PeerInv
<1>3. CASE P2p!TcpFails(a)
  <2>1. P2p!Fault => faults_p2p' # 0
    BY <1>1 DEF P2p!Fault, P2p!TypeOK
  <2>2. QED  BY <1>3, <2>1, AttemptEndsInv DEF P2p!TcpFails
<1>4. CASE P2p!PollClosed(a)
  BY <1>4, AttemptEndsInv DEF P2p!PollClosed
<1>5. CASE P2p!PollConnected(a)
  BY <1>5, AttemptEndsInv DEF P2p!PollConnected
<1>6. CASE P2p!PollTimesOut(a)
  <2>1. P2p!Fault => faults_p2p' # 0
    BY <1>1 DEF P2p!Fault, P2p!TypeOK
  <2>2. QED  BY <1>6, <2>1, AttemptEndsInv DEF P2p!PollTimesOut
<1>7. QED  BY Zenon, <1>2, <1>3, <1>4, <1>5, <1>6 DEF P2p!Tcp, P2p!Poll

LEMMA CallerStep ==
    ASSUME PeerHypotheses, PeerInv, NEW a \in Calls, P2p!Connect(a) \/ P2p!Retry(a)
    PROVE  PeerInv'
<1>1. P2p!TypeOK /\ DialInv /\ P2p!DialsOnlyItsPeers /\ RaceInv
  BY DEF PeerInv
<1>2. a \in P2p!Actors /\ a \notin P2p!Reconnects
  BY DEF P2p!Actors, PeerHypotheses
<1>3. /\ UNCHANGED <<orphans, connected, sock, tries, channel_peers, updates, sent, due,
                     reconnector, faults_p2p, closed, main>>
      /\ call[a] \in {"idle", "sleeping"}
      /\ \/ call' = [call EXCEPT ![a] = "ok"] /\ dial' = dial
         \/ /\ ~P2p!is_connected(P2p!PeerOf(a)) /\ call' = [call EXCEPT ![a] = "dialing"]
            /\ dial' = [dial EXCEPT ![a] = "tcp"]
  BY DEF P2p!Connect, P2p!Retry
<1>4. dial[a] = "none" /\ sock[a] = "none"
  BY <1>1, <1>2, <1>3 DEF DialInv
<1>5. P2p!TypeOK'
  BY <1>1, <1>2, <1>3 DEF P2p!TypeOK
<1>6. DialInv'
  <2>1. \A b \in P2p!Actors : dial'[b] # "poll" => sock'[b] = "none"
    BY <1>1, <1>2, <1>3, <1>4 DEF P2p!TypeOK, DialInv
  <2>2. \A b \in Calls : dial'[b] # "none" => call'[b] = "dialing"
    BY <1>1, <1>2, <1>3, <1>4 DEF P2p!TypeOK, DialInv, P2p!Actors
  <2>3. \A b \in P2p!Reconnects : dial'[b] = dial[b]
    BY <1>1, <1>2, <1>3 DEF P2p!TypeOK, P2p!Actors
  <2>4. QED  BY <1>1, <1>3, <2>1, <2>2, <2>3 DEF DialInv
<1>7. P2p!DialsOnlyItsPeers'
  BY <1>1, <1>2, <1>3 DEF P2p!TypeOK, P2p!DialsOnlyItsPeers, P2p!Actors
<1>8. RaceInv'
  BY <1>1, <1>2, <1>3 DEF P2p!TypeOK, RaceInv, P2p!is_connected
<1>9. QED  BY <1>5, <1>6, <1>7, <1>8 DEF PeerInv

(* The reconnector takes a tick or an update only when no attempt is under *)
(* way, and then dials peers of its map.                                   *)
LEMMA ReconnectStep ==
    ASSUME PeerHypotheses, PeerInv, P2p!IntervalTicks \/ P2p!Reconnect
    PROVE  PeerInv'
<1>1. P2p!TypeOK /\ DialInv /\ P2p!DialsOnlyItsPeers /\ RaceInv
  BY DEF PeerInv
<1>2. CASE P2p!IntervalTicks
  BY <1>1, <1>2 DEF P2p!IntervalTicks, PeerInv, P2p!TypeOK, DialInv, P2p!DialsOnlyItsPeers, RaceInv, P2p!is_connected
<1>3. ASSUME NEW peers, P2p!DialDisconnected(peers), channel_peers' = peers, peers \in SUBSET Peers,
             ~closed, reconnector = "select", reconnector' = "reconnecting",
             updates' \in Seq(Updates), Len(updates') <= ChannelSize, due' \in BOOLEAN,
             UNCHANGED <<orphans, connected, sock, call, tries, sent, faults_p2p, closed, main>>
      PROVE  PeerInv'
  <2>1. dial' = [a \in P2p!Actors |-> IF a \in P2p!Reconnects /\ P2p!PeerOf(a) \in peers \ connected
                                      THEN "tcp" ELSE dial[a]]
    BY <1>3 DEF P2p!DialDisconnected
  <2>2. \A a \in P2p!Reconnects : dial[a] = "none" /\ sock[a] = "none"
    BY <1>1, <1>3 DEF DialInv, P2p!Actors
  <2>3. P2p!TypeOK'
    BY <1>1, <1>3, <2>1 DEF P2p!TypeOK
  <2>4. DialInv'
    BY <1>1, <1>3, <2>1, <2>2 DEF P2p!TypeOK, DialInv, P2p!Actors, PeerHypotheses
  <2>5. P2p!DialsOnlyItsPeers'
    BY <1>3, <2>1, <2>2 DEF P2p!DialsOnlyItsPeers, P2p!Actors
  <2>6. RaceInv'
    BY <1>1, <1>3 DEF RaceInv, P2p!is_connected
  <2>7. QED  BY <2>3, <2>4, <2>5, <2>6 DEF PeerInv
<1>4. CASE P2p!ReconnectOnTick
  BY <1>1, <1>3, <1>4 DEF P2p!ReconnectOnTick, P2p!TypeOK
<1>5. CASE P2p!ReconnectOnUpdate
  <2>1. updates \in Seq(Updates) /\ updates # <<>> /\ Len(updates) <= ChannelSize
    BY <1>1, <1>5 DEF P2p!ReconnectOnUpdate, P2p!TypeOK
  <2>2. Head(updates) \in Updates /\ Tail(updates) \in Seq(Updates) /\ Len(Tail(updates)) <= ChannelSize
    BY <2>1 DEF PeerHypotheses
  <2>3. Head(updates)[2] \in Peers
    BY <2>2 DEF PeerHypotheses
  <2>4. channel_peers' \in SUBSET Peers
    BY <1>1, <1>5, <2>3 DEF P2p!ReconnectOnUpdate, P2p!TypeOK
  <2>5. P2p!DialDisconnected(channel_peers')
    BY <1>5 DEF P2p!ReconnectOnUpdate
  <2>6. QED  BY <1>1, <1>3, <1>5, <2>2, <2>4, <2>5 DEF P2p!ReconnectOnUpdate, P2p!TypeOK
<1>6. CASE P2p!ReconnectsDone
  BY <1>1, <1>6 DEF P2p!ReconnectsDone, PeerInv, P2p!TypeOK, DialInv, P2p!DialsOnlyItsPeers, RaceInv, P2p!is_connected
<1>7. CASE P2p!ReconnectorShutsDown
  <2>1. /\ closed /\ closed' = closed /\ reconnector' = "done" /\ updates' = <<>>
        /\ dial' = [a \in P2p!Actors |-> IF a \in P2p!Reconnects THEN "none" ELSE dial[a]]
        /\ sock' = [a \in P2p!Actors |-> IF a \in P2p!Reconnects THEN "none" ELSE sock[a]]
        /\ UNCHANGED <<connected, call, tries, channel_peers, sent, due, faults_p2p, main>>
    BY <1>7 DEF P2p!ReconnectorShutsDown
  <2>2. orphans' \in SUBSET Peers
    <3>1. \A a \in P2p!Reconnects : P2p!PeerOf(a) \in Peers
      BY DEF P2p!Reconnects, P2p!PeerOf
    <3>2. QED  BY <1>1, <1>7, <3>1 DEF P2p!ReconnectorShutsDown, P2p!TypeOK
  <2>3. updates' \in Seq(Updates) /\ Len(updates') <= ChannelSize
    BY <2>1 DEF PeerHypotheses
  <2>4. P2p!TypeOK'
    BY <1>1, <2>1, <2>2, <2>3 DEF P2p!TypeOK
  <2>5. DialInv' /\ P2p!DialsOnlyItsPeers' /\ RaceInv'
    BY <1>1, <2>1 DEF P2p!TypeOK, DialInv, P2p!DialsOnlyItsPeers, RaceInv, P2p!Actors
  <2>6. QED  BY <2>4, <2>5 DEF PeerInv
<1>8. QED  BY Zenon, <1>2, <1>4, <1>5, <1>6, <1>7 DEF P2p!Reconnect

(* LDK ends a handshake, or loses a connection. *)
LEMMA PeerManagerStep ==
    ASSUME PeerHypotheses, PeerInv,
           \/ \E a \in P2p!Actors : P2p!HandshakeEnds(a) \/ P2p!HandshakeFails(a)
           \/ \E p \in Peers : P2p!OrphanEnds(p) \/ P2p!ConnectionLost(p)
    PROVE  PeerInv'
<1>1. P2p!TypeOK /\ DialInv /\ P2p!DialsOnlyItsPeers /\ RaceInv
  BY DEF PeerInv
<1>2. P2p!Fault => faults_p2p' \in 0..MaxFaults /\ faults_p2p' # 0
  BY <1>1 DEF P2p!Fault, P2p!TypeOK, PeerHypotheses
<1>3. ASSUME NEW a \in P2p!Actors, P2p!HandshakeEnds(a)
      PROVE  PeerInv'
  <2>1. P2p!PeerOf(a) \in Peers
    BY ActorsHavePeers
  <2>2. dial[a] = "poll"
    BY <1>1, <1>3 DEF DialInv, P2p!HandshakeEnds
  <2>3. P2p!TypeOK'
    BY <1>1, <1>3, <2>1 DEF P2p!TypeOK, P2p!HandshakeEnds
  <2>4. DialInv'
    BY <1>1, <1>3, <2>2 DEF P2p!TypeOK, DialInv, P2p!HandshakeEnds, P2p!Actors
  <2>5. P2p!DialsOnlyItsPeers'
    BY <1>1, <1>3 DEF P2p!DialsOnlyItsPeers, P2p!HandshakeEnds
  <2>6. RaceInv'
    BY <1>1, <1>3 DEF P2p!TypeOK, RaceInv, P2p!HandshakeEnds, P2p!is_connected
  <2>7. QED  BY <2>3, <2>4, <2>5, <2>6 DEF PeerInv
<1>4. ASSUME NEW a \in P2p!Actors, P2p!HandshakeFails(a)
      PROVE  PeerInv'
  <2>1. dial[a] = "poll"
    BY <1>1, <1>4 DEF DialInv, P2p!HandshakeFails
  <2>2. P2p!TypeOK'
    BY <1>1, <1>2, <1>4 DEF P2p!TypeOK, P2p!HandshakeFails
  <2>3. DialInv'
    BY <1>1, <1>4, <2>1 DEF P2p!TypeOK, DialInv, P2p!HandshakeFails, P2p!Actors
  <2>4. P2p!DialsOnlyItsPeers' /\ RaceInv'
    BY <1>1, <1>2, <1>4 DEF P2p!DialsOnlyItsPeers, RaceInv, P2p!HandshakeFails
  <2>5. QED  BY <2>2, <2>3, <2>4 DEF PeerInv
<1>5. ASSUME NEW p \in Peers, P2p!OrphanEnds(p)
      PROVE  PeerInv'
  <2>1. P2p!TypeOK'
    BY <1>1, <1>5 DEF P2p!TypeOK, P2p!OrphanEnds
  <2>2. DialInv' /\ P2p!DialsOnlyItsPeers'
    BY <1>1, <1>5 DEF DialInv, P2p!DialsOnlyItsPeers, P2p!OrphanEnds
  <2>3. RaceInv'
    BY <1>1, <1>5 DEF RaceInv, P2p!OrphanEnds, P2p!is_connected
  <2>4. QED  BY <2>1, <2>2, <2>3 DEF PeerInv
<1>6. ASSUME NEW p \in Peers, P2p!ConnectionLost(p)
      PROVE  PeerInv'
  <2>1. sock' = [a \in P2p!Actors |-> IF P2p!PeerOf(a) = p /\ sock[a] = "up" THEN "closed" ELSE sock[a]]
    BY <1>6 DEF P2p!ConnectionLost
  <2>2. P2p!TypeOK'
    BY <1>1, <1>2, <1>6, <2>1 DEF P2p!TypeOK, P2p!ConnectionLost
  <2>3. DialInv'
    BY <1>1, <1>6, <2>1 DEF P2p!TypeOK, DialInv, P2p!ConnectionLost
  <2>4. P2p!DialsOnlyItsPeers' /\ RaceInv'
    BY <1>1, <1>2, <1>6 DEF P2p!DialsOnlyItsPeers, RaceInv, P2p!ConnectionLost
  <2>5. QED  BY <2>2, <2>3, <2>4 DEF PeerInv
<1>7. QED  BY <1>3, <1>4, <1>5, <1>6

LEMMA OtherStep ==
    ASSUME PeerHypotheses, PeerInv,
           \/ \E u \in Updates : P2p!SendUpdate(u)
           \/ P2p!SendShutdown \/ P2p!disconnect_all_peers \/ P2p!BgpStops \/ UNCHANGED P2p!vars
    PROVE  PeerInv'
<1>1. P2p!TypeOK /\ DialInv /\ P2p!DialsOnlyItsPeers /\ RaceInv
  BY DEF PeerInv
<1>2. ASSUME NEW u \in Updates, P2p!SendUpdate(u)
      PROVE  PeerInv'
  <2>1. updates' = Append(updates, u) /\ updates \in Seq(Updates) /\ Len(updates) < ChannelSize
    BY <1>1, <1>2 DEF P2p!SendUpdate, P2p!TypeOK
  <2>2. updates' \in Seq(Updates) /\ Len(updates') <= ChannelSize
    BY <2>1 DEF PeerHypotheses
  <2>3. P2p!TypeOK'
    BY <1>1, <1>2, <2>2 DEF P2p!TypeOK, P2p!SendUpdate, PeerHypotheses
  <2>4. DialInv' /\ P2p!DialsOnlyItsPeers' /\ RaceInv'
    BY <1>1, <1>2 DEF DialInv, P2p!DialsOnlyItsPeers, RaceInv, P2p!is_connected, P2p!SendUpdate
  <2>5. QED  BY <2>3, <2>4 DEF PeerInv
<1>3. CASE P2p!SendShutdown
  BY <1>1, <1>3 DEF P2p!SendShutdown, PeerInv, P2p!TypeOK, DialInv, P2p!DialsOnlyItsPeers, RaceInv
<1>4. CASE P2p!disconnect_all_peers
  <2>1. /\ sock' = [a \in P2p!Actors |-> IF sock[a] = "none" THEN "none" ELSE "closed"]
        /\ closed /\ closed' = closed /\ connected' = {} /\ orphans' = {} /\ main' = "disconnected"
        /\ UNCHANGED <<dial, call, tries, channel_peers, updates, sent, due, reconnector, faults_p2p>>
    BY <1>4 DEF P2p!disconnect_all_peers
  <2>2. P2p!TypeOK'
    BY <1>1, <2>1 DEF P2p!TypeOK
  <2>3. DialInv' /\ P2p!DialsOnlyItsPeers' /\ RaceInv'
    BY <1>1, <2>1 DEF P2p!TypeOK, DialInv, P2p!DialsOnlyItsPeers, RaceInv
  <2>4. QED  BY <2>2, <2>3 DEF PeerInv
<1>5. CASE P2p!BgpStops
  BY <1>1, <1>5 DEF P2p!BgpStops, PeerInv, P2p!TypeOK, DialInv, P2p!DialsOnlyItsPeers, RaceInv, P2p!is_connected
<1>6. CASE UNCHANGED P2p!vars
  BY <1>1, <1>6 DEF P2p!vars, PeerInv, P2p!TypeOK, DialInv, P2p!DialsOnlyItsPeers, RaceInv, P2p!is_connected
<1>7. QED  BY <1>2, <1>3, <1>4, <1>5, <1>6

LEMMA PeerInvNext ==
    ASSUME PeerHypotheses, PeerInv, [P2p!Next]_(P2p!vars)
    PROVE  PeerInv'
<1>1. P2p!Stopped => UNCHANGED P2p!vars
  BY Zenon DEF P2p!Stopped
<1>2. QED
  BY Zenon, <1>1, DialerStep, CallerStep, ReconnectStep, PeerManagerStep, OtherStep DEF P2p!Next

(* The types are right, only polls have sockets, and whoever lost a race   *)
(* without faults finds its peer connected.                                *)
THEOREM PeersInvariance ==
    ASSUME PeerHypotheses
    PROVE  P2p!Spec => []PeerInv
<1>1. P2p!Init => PeerInv
  BY PeerInvInit
<1>2. PeerInv /\ [P2p!Next]_(P2p!vars) => PeerInv'
  BY PeerInvNext
<1>3. QED  BY <1>1, <1>2, PTL DEF P2p!Spec

(* The reconnector dials no peer that it was told to remove, and without   *)
(* faults no call of connect_channel_peer_if_necessary fails because       *)
(* another actor connected first: one retry is enough, however many actors *)
(* race.                                                                   *)
THEOREM RacesAreTolerated ==
    ASSUME PeerHypotheses
    PROVE  P2p!Spec => [](P2p!TypeOK /\ P2p!DialsOnlyItsPeers /\ P2p!RaceIsTolerated)
<1>1. PeerInv => P2p!TypeOK /\ P2p!DialsOnlyItsPeers /\ P2p!RaceIsTolerated
  BY Zenon DEF PeerInv, RaceInv, P2p!RaceIsTolerated
<1>2. QED  BY <1>1, PeersInvariance, PTL

(* A call of connect_channel_peer_if_necessary returns Ok only while the   *)
(* peer manager lists its peer, whichever actor's connection that is.      *)
THEOREM OkOnlyIfConnected ==
    ASSUME PeerHypotheses
    PROVE  P2p!Spec => [][P2p!OkIfConnected]_(P2p!vars)
<1>1. PeerInv /\ [P2p!Next]_(P2p!vars) => [P2p!OkIfConnected]_(P2p!vars)
  <2>1. SUFFICES ASSUME PeerInv, P2p!Next, NEW a \in Calls, call[a] # "ok", call'[a] = "ok"
                 PROVE  P2p!is_connected(P2p!PeerOf(a))
    BY Zenon DEF P2p!OkIfConnected
  <2>2. P2p!TypeOK
    BY <2>1 DEF PeerInv
  <2>3. ASSUME NEW b \in P2p!Actors, NEW ok \in BOOLEAN, P2p!AttemptEnds(b, ok)
        PROVE  ok /\ b = a
    BY <2>1, <2>2, <2>3 DEF P2p!AttemptEnds, P2p!TypeOK
  <2>4. ASSUME NEW b \in P2p!Actors, P2p!Tcp(b) \/ P2p!Poll(b)
        PROVE  P2p!is_connected(P2p!PeerOf(a))
    <3>1. call' # call
      BY Zenon, <2>1
    <3>2. ~P2p!TcpConnects(b) /\ ~P2p!TcpFails(b) /\ ~P2p!PollClosed(b) /\ ~P2p!PollTimesOut(b)
      BY <2>3, <3>1 DEF P2p!TcpConnects, P2p!TcpFails, P2p!PollClosed, P2p!PollTimesOut
    <3>3. P2p!PollConnected(b)
      BY Zenon, <2>4, <3>2 DEF P2p!Tcp, P2p!Poll
    <3>4. b = a /\ P2p!is_connected(P2p!PeerOf(b))
      BY <2>3, <3>3 DEF P2p!PollConnected
    <3>5. QED  BY Zenon, <3>4
  <2>5. ASSUME NEW b \in Calls, P2p!Connect(b) \/ P2p!Retry(b)
        PROVE  P2p!is_connected(P2p!PeerOf(a))
    BY <2>1, <2>2, <2>5 DEF P2p!Connect, P2p!Retry, P2p!TypeOK
  <2>6. call' = call => P2p!is_connected(P2p!PeerOf(a))
    BY Zenon, <2>1
  <2>7. QED
    BY <2>1, <2>4, <2>5, <2>6
      DEF P2p!Next, P2p!HandshakeEnds, P2p!HandshakeFails, P2p!OrphanEnds, P2p!ConnectionLost, P2p!IntervalTicks,
          P2p!Reconnect, P2p!ReconnectOnTick, P2p!ReconnectOnUpdate, P2p!ReconnectsDone, P2p!ReconnectorShutsDown,
          P2p!SendUpdate, P2p!SendShutdown, P2p!disconnect_all_peers, P2p!BgpStops, P2p!Stopped, P2p!vars
<1>2. QED  BY <1>1, PeersInvariance, PTL DEF P2p!Spec

=============================================================================
