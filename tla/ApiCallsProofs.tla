---------------------------- MODULE ApiCallsProofs ----------------------------
(***************************************************************************)
(* Proofs about ApiCalls, for any calls, any number of retries, any sizes  *)
(* of the server's buffer and any number of network faults.                *)
(***************************************************************************)
EXTENDS ApiCalls, TLAPS

(* The servers are those whose clients are known, and no code is 0. *)
ApiHypotheses ==
    /\ Retries \in Nat
    /\ Servers \subseteq DOMAIN Clients
    /\ 0 \notin StopCodes

-----------------------------------------------------------------------------
(* The table of endpoints. *)

(* An endpoint whose request is sent once, or may be sent again. *)
Careful(op, e) ==
    /\ e.retries = 0 \/ e.retries = Retries
    /\ e.retries # 0 => e.method \in {"GET", "PUT", "DELETE"} \/ op = "bearer_auth"

LEMMA SentOnce ==
    ASSUME NEW op, NEW method, NEW path
    PROVE  Careful(op, Once(method, path))
BY DEF Careful, Once

LEMMA SentAgain ==
    ASSUME NEW path
    PROVE  /\ Careful("upsert_file_with_retries", Retried("PUT", path))
           /\ Careful("bearer_auth", Retried("POST", path))
BY DEF Careful, Retried

LEMMA NodeClientIsCareful ==
    ASSUME NEW op \in DOMAIN NodeClient
    PROVE  Careful(op, NodeClient[op])
BY SentOnce DEF NodeClient

LEMMA BackendFilesAreCareful ==
    ASSUME NEW op \in DOMAIN BackendFiles
    PROVE  Careful(op, BackendFiles[op])
BY SentOnce, SentAgain DEF BackendFiles

LEMMA BackendPaymentsAreCareful ==
    ASSUME NEW op \in DOMAIN BackendPayments
    PROVE  Careful(op, BackendPayments[op])
BY SentOnce DEF BackendPayments

LEMMA BackendIsCareful ==
    ASSUME NEW op \in DOMAIN BackendClient
    PROVE  Careful(op, BackendClient[op])
BY Zenon, BackendFilesAreCareful, BackendPaymentsAreCareful DEF BackendClient

LEMMA OtherClientsAreCareful ==
    /\ \A op \in DOMAIN LspClient : Careful(op, LspClient[op])
    /\ \A op \in DOMAIN RunnerClient : Careful(op, RunnerClient[op])
    /\ \A op \in DOMAIN GatewayClient : Careful(op, GatewayClient[op])
    /\ \A op \in DOMAIN ProvisionClient : Careful(op, ProvisionClient[op])
    /\ \A op \in DOMAIN LexeNodeRunApi : Careful(op, LexeNodeRunApi[op])
<1>1. \A op \in DOMAIN LspClient : Careful(op, LspClient[op])
  BY SentOnce DEF LspClient
<1>2. \A op \in DOMAIN RunnerClient : Careful(op, RunnerClient[op])
  BY SentOnce DEF RunnerClient
<1>3. \A op \in DOMAIN GatewayClient : Careful(op, GatewayClient[op])
  BY SentOnce DEF GatewayClient
<1>4. \A op \in DOMAIN ProvisionClient : Careful(op, ProvisionClient[op])
  BY SentOnce DEF ProvisionClient
<1>5. \A op \in DOMAIN LexeNodeRunApi : Careful(op, LexeNodeRunApi[op])
  BY SentOnce DEF LexeNodeRunApi
<1>6. QED  BY Zenon, <1>1, <1>2, <1>3, <1>4, <1>5

(* Only requests that are idempotent are retried. *)
LEMMA ClientsAreCareful ==
    ASSUME NEW s \in DOMAIN Clients, NEW op \in DOMAIN Clients[s]
    PROVE  Careful(op, Clients[s][op])
<1>1. /\ s \in {"backend", "lsp", "runner", "gateway", "provision", "app", "lexe"}
      /\ Clients["backend"] = BackendClient /\ Clients["lsp"] = LspClient
      /\ Clients["runner"] = RunnerClient /\ Clients["gateway"] = GatewayClient
      /\ Clients["provision"] = ProvisionClient /\ Clients["app"] = NodeClient
      /\ Clients["lexe"] = LexeNodeRunApi
  BY DEF Clients
<1>2. QED
  BY Zenon, <1>1, BackendIsCareful, NodeClientIsCareful, OtherClientsAreCareful

-----------------------------------------------------------------------------
(* The invariant. *)
Fields == {"st", "op", "n", "seen", "ok", "kind"}

Shapes ==
    /\ DOMAIN call = Calls /\ \A c \in Calls : DOMAIN call[c] = Fields
    /\ DOMAIN attempt = Calls /\ \A c \in Calls : DOMAIN attempt[c] = Attempts
    /\ server \in [id : Servers, st : {"up", "draining", "down"}]

(* The attempts of a call are numbered; there is one more than retries at  *)
(* most, and those to come have left no trace.                             *)
CallAt(c) ==
    /\ call[c].n \in Nat
    /\ call[c].st = "idle" => call[c].n = 0
    /\ call[c].st \in {"sending", "backoff"} => call[c].n >= 1
    /\ call[c].st # "idle" =>
          /\ call[c].op \in DOMAIN Clients[server.id]
          /\ call[c].n <= Endpoint(c).retries + 1
    /\ call[c].st = "backoff" => call[c].n <= Endpoint(c).retries
    /\ call[c].st \in {"idle", "sending", "backoff"} => call[c].seen \notin StopCodes
    /\ \A m \in Attempts : m > call[c].n => attempt[c][m] = Unsent

CallInv == Shapes /\ \A c \in Calls : CallAt(c)

-----------------------------------------------------------------------------
(* Assignments. *)

(* A function after an assignment. *)
LEMMA Assign ==
    ASSUME NEW f, NEW x \in DOMAIN f, NEW v
    PROVE  /\ DOMAIN [f EXCEPT ![x] = v] = DOMAIN f
           /\ [f EXCEPT ![x] = v][x] = v
           /\ \A y \in DOMAIN f : y # x => [f EXCEPT ![x] = v][y] = f[y]
BY Zenon

(* A call, after an assignment to one of its fields. *)
LEMMA AssignField ==
    ASSUME NEW r, DOMAIN r = Fields, NEW v
    PROVE  /\ DOMAIN [r EXCEPT !.st = v] = Fields
           /\ [r EXCEPT !.st = v].st = v /\ [r EXCEPT !.st = v].op = r.op
           /\ [r EXCEPT !.st = v].n = r.n /\ [r EXCEPT !.st = v].seen = r.seen
           /\ DOMAIN [r EXCEPT !.op = v] = Fields
           /\ [r EXCEPT !.op = v].st = r.st /\ [r EXCEPT !.op = v].op = v
           /\ [r EXCEPT !.op = v].n = r.n /\ [r EXCEPT !.op = v].seen = r.seen
           /\ DOMAIN [r EXCEPT !.n = v] = Fields
           /\ [r EXCEPT !.n = v].st = r.st /\ [r EXCEPT !.n = v].op = r.op
           /\ [r EXCEPT !.n = v].n = v /\ [r EXCEPT !.n = v].seen = r.seen
           /\ DOMAIN [r EXCEPT !.seen = v] = Fields
           /\ [r EXCEPT !.seen = v].st = r.st /\ [r EXCEPT !.seen = v].op = r.op
           /\ [r EXCEPT !.seen = v].n = r.n /\ [r EXCEPT !.seen = v].seen = v
           /\ DOMAIN [r EXCEPT !.ok = v] = Fields
           /\ [r EXCEPT !.ok = v].st = r.st /\ [r EXCEPT !.ok = v].op = r.op
           /\ [r EXCEPT !.ok = v].n = r.n /\ [r EXCEPT !.ok = v].seen = r.seen
           /\ DOMAIN [r EXCEPT !.kind = v] = Fields
           /\ [r EXCEPT !.kind = v].st = r.st /\ [r EXCEPT !.kind = v].op = r.op
           /\ [r EXCEPT !.kind = v].n = r.n /\ [r EXCEPT !.kind = v].seen = r.seen
BY DEF Fields

(* The calls after a step of one of them. *)
Updated(c, st, op, n, seen) ==
    /\ DOMAIN call' = Calls /\ \A d \in Calls : DOMAIN call'[d] = Fields
    /\ \A d \in Calls : d # c => call'[d] = call[d]
    /\ call'[c].st = st /\ call'[c].op = op /\ call'[c].n = n /\ call'[c].seen = seen

LEMMA Update ==
    ASSUME Shapes, NEW c \in Calls, NEW e, DOMAIN e = Fields, call' = [call EXCEPT ![c] = e]
    PROVE  Updated(c, e.st, e.op, e.n, e.seen)
BY Zenon, Assign DEF Updated, Shapes

LEMMA UpdateDone ==
    ASSUME Shapes, NEW c \in Calls, NEW ok, NEW kind, Done(c, ok, kind)
    PROVE  Updated(c, "done", call[c].op, call[c].n, call[c].seen)
<1> DEFINE e == [[[call[c] EXCEPT !.st = "done"] EXCEPT !.ok = ok] EXCEPT !.kind = kind]
<1>1. DOMAIN call[c] = Fields
  BY Zenon DEF Shapes
<1>2. /\ DOMAIN e = Fields /\ e.st = "done" /\ e.op = call[c].op /\ e.n = call[c].n
      /\ e.seen = call[c].seen
  BY <1>1, AssignField
<1>3. call' = [call EXCEPT ![c] = e]
  BY Zenon DEF Done, Shapes
<1> HIDE DEF e
<1>4. Updated(c, e.st, e.op, e.n, e.seen)
  BY Zenon, <1>2, <1>3, Update
<1>5. QED  BY <1>2, <1>4

LEMMA UpdateSend ==
    ASSUME Shapes, NEW c \in Calls, call' = [call EXCEPT ![c].st = "sending", ![c].n = @ + 1]
    PROVE  Updated(c, "sending", call[c].op, call[c].n + 1, call[c].seen)
<1> DEFINE e == [[call[c] EXCEPT !.st = "sending"] EXCEPT !.n = call[c].n + 1]
<1>1. DOMAIN call[c] = Fields
  BY Zenon DEF Shapes
<1>2. /\ DOMAIN e = Fields /\ e.st = "sending" /\ e.op = call[c].op /\ e.n = call[c].n + 1
      /\ e.seen = call[c].seen
  BY <1>1, AssignField
<1>3. call' = [call EXCEPT ![c] = e]
  <2>1. [call[c] EXCEPT !.st = "sending"].n = call[c].n
    BY Zenon, <1>1, AssignField
  <2>2. QED  BY Zenon, <2>1 DEF Shapes
<1> HIDE DEF e
<1>4. Updated(c, e.st, e.op, e.n, e.seen)
  BY Zenon, <1>2, <1>3, Update
<1>5. QED  BY <1>2, <1>4

LEMMA UpdateStart ==
    ASSUME Shapes, NEW c \in Calls, NEW op,
           call' = [call EXCEPT ![c].st = "sending", ![c].op = op, ![c].n = 1]
    PROVE  Updated(c, "sending", op, 1, call[c].seen)
<1> DEFINE e == [[[call[c] EXCEPT !.st = "sending"] EXCEPT !.op = op] EXCEPT !.n = 1]
<1>1. DOMAIN call[c] = Fields
  BY Zenon DEF Shapes
<1>2. /\ DOMAIN e = Fields /\ e.st = "sending" /\ e.op = op /\ e.n = 1
      /\ e.seen = call[c].seen
  BY <1>1, AssignField
<1>3. call' = [call EXCEPT ![c] = e]
  BY Zenon DEF Shapes
<1> HIDE DEF e
<1>4. Updated(c, e.st, e.op, e.n, e.seen)
  BY Zenon, <1>2, <1>3, Update
<1>5. QED  BY <1>2, <1>4

LEMMA UpdateNotStarted ==
    ASSUME Shapes, NEW c \in Calls, NEW op, NEW kind,
           call' = [call EXCEPT ![c].st = "done", ![c].op = op, ![c].kind = kind]
    PROVE  Updated(c, "done", op, call[c].n, call[c].seen)
<1> DEFINE e == [[[call[c] EXCEPT !.st = "done"] EXCEPT !.op = op] EXCEPT !.kind = kind]
<1>1. DOMAIN call[c] = Fields
  BY Zenon DEF Shapes
<1>2. /\ DOMAIN e = Fields /\ e.st = "done" /\ e.op = op /\ e.n = call[c].n
      /\ e.seen = call[c].seen
  BY <1>1, AssignField
<1>3. call' = [call EXCEPT ![c] = e]
  BY Zenon DEF Shapes
<1> HIDE DEF e
<1>4. Updated(c, e.st, e.op, e.n, e.seen)
  BY Zenon, <1>2, <1>3, Update
<1>5. QED  BY <1>2, <1>4

LEMMA UpdateBackoff ==
    ASSUME Shapes, NEW c \in Calls, NEW code,
           call' = [call EXCEPT ![c].st = "backoff", ![c].seen = code]
    PROVE  Updated(c, "backoff", call[c].op, call[c].n, code)
<1> DEFINE e == [[call[c] EXCEPT !.st = "backoff"] EXCEPT !.seen = code]
<1>1. DOMAIN call[c] = Fields
  BY Zenon DEF Shapes
<1>2. /\ DOMAIN e = Fields /\ e.st = "backoff" /\ e.op = call[c].op /\ e.n = call[c].n
      /\ e.seen = code
  BY <1>1, AssignField
<1>3. call' = [call EXCEPT ![c] = e]
  BY Zenon DEF Shapes
<1> HIDE DEF e
<1>4. Updated(c, e.st, e.op, e.n, e.seen)
  BY Zenon, <1>2, <1>3, Update
<1>5. QED  BY <1>2, <1>4

(* The attempts after a step of one of them. *)
Touched(c, n) ==
    /\ DOMAIN attempt' = Calls /\ \A d \in Calls : DOMAIN attempt'[d] = Attempts
    /\ \A d \in Calls : \A m \in Attempts : (d # c \/ m # n) => attempt'[d][m] = attempt[d][m]

LEMMA Touch ==
    ASSUME Shapes, NEW c \in Calls, NEW n \in Attempts, NEW e,
           attempt' = [attempt EXCEPT ![c] = [attempt[c] EXCEPT ![n] = e]]
    PROVE  Touched(c, n) /\ attempt'[c][n] = e
<1>1. DOMAIN attempt[c] = Attempts /\ DOMAIN attempt = Calls
  BY Zenon DEF Shapes
<1> DEFINE f == [attempt[c] EXCEPT ![n] = e]
<1>2. DOMAIN f = Attempts /\ f[n] = e /\ \A m \in Attempts : m # n => f[m] = attempt[c][m]
  BY Zenon, <1>1, Assign
<1>3. attempt' = [attempt EXCEPT ![c] = f]
  OBVIOUS
<1> HIDE DEF f
<1>4. DOMAIN attempt' = Calls /\ attempt'[c] = f /\ \A d \in Calls : d # c => attempt'[d] = attempt[d]
  BY Zenon, <1>1, <1>3, Assign
<1>5. QED  BY Zenon, <1>2, <1>4 DEF Touched, Shapes

LEMMA TouchBecome ==
    ASSUME Shapes, NEW c \in Calls, NEW n \in Attempts, NEW st, Become(c, n, st)
    PROVE  Touched(c, n) /\ attempt'[c][n] = [attempt[c][n] EXCEPT !.st = st]
<1> DEFINE e == [attempt[c][n] EXCEPT !.st = st]
<1>1. attempt' = [attempt EXCEPT ![c] = [attempt[c] EXCEPT ![n] = e]]
  BY Zenon DEF Become, Shapes
<1> HIDE DEF e
<1>2. Touched(c, n) /\ attempt'[c][n] = e
  BY Zenon, <1>1, Touch
<1>3. QED  BY Zenon, <1>2 DEF e

(* An attempt that is answered, and one that has taken effect. *)
Answered(a, reply) == [[a EXCEPT !.st = "answered"] EXCEPT !.reply = reply]
TookEffect(a, handler) == [[a EXCEPT !.st = "acted"] EXCEPT !.handler = handler]

LEMMA TouchAnswer ==
    ASSUME Shapes, NEW c \in Calls, NEW n \in Attempts, NEW reply, Answer(c, n, reply)
    PROVE  /\ Touched(c, n)
           /\ attempt'[c][n] = Answered(attempt[c][n], reply)
<1> DEFINE e == Answered(attempt[c][n], reply)
<1>1. attempt' = [attempt EXCEPT ![c] = [attempt[c] EXCEPT ![n] = e]]
  BY Zenon DEF Answer, Answered, Shapes
<1> HIDE DEF e
<1>2. Touched(c, n) /\ attempt'[c][n] = e
  BY Zenon, <1>1, Touch
<1>3. QED  BY Zenon, <1>2 DEF e

Acts(c, n, handler) ==
    attempt' = [attempt EXCEPT ![c][n].st = "acted", ![c][n].handler = handler]

LEMMA TouchAct ==
    ASSUME Shapes, NEW c \in Calls, NEW n \in Attempts, NEW handler, Acts(c, n, handler)
    PROVE  /\ Touched(c, n)
           /\ attempt'[c][n] = TookEffect(attempt[c][n], handler)
<1> DEFINE e == TookEffect(attempt[c][n], handler)
<1>1. attempt' = [attempt EXCEPT ![c] = [attempt[c] EXCEPT ![n] = e]]
  BY Zenon DEF Acts, TookEffect, Shapes
<1> HIDE DEF e
<1>2. Touched(c, n) /\ attempt'[c][n] = e
  BY Zenon, <1>1, Touch
<1>3. QED  BY Zenon, <1>2 DEF e

-----------------------------------------------------------------------------
(* The steps. *)

(* The number of retries of a call's endpoint. *)
LEMMA EndpointRetries ==
    ASSUME ApiHypotheses, CallInv, NEW c \in Calls, call[c].st # "idle"
    PROVE  /\ Endpoint(c).retries \in Nat /\ Endpoint(c).retries <= Retries
           /\ Endpoint(c).retries # 0 => Idempotent(c)
           /\ call[c].n \in Nat /\ call[c].n <= Retries + 1
<1>1. server.id \in DOMAIN Clients /\ call[c].op \in DOMAIN Clients[server.id]
  <2>1. server.id \in Servers
    BY DEF CallInv, Shapes
  <2>2. QED  BY Zenon, <2>1 DEF ApiHypotheses, CallInv, CallAt
<1>2. Careful(call[c].op, Endpoint(c))
  BY Zenon, <1>1, ClientsAreCareful DEF Endpoint
<1>3. Endpoint(c).retries # 0 => Idempotent(c)
  BY Zenon, <1>2 DEF Careful, Idempotent
<1>4. Retries \in Nat /\ (Endpoint(c).retries = 0 \/ Endpoint(c).retries = Retries)
  BY Zenon, <1>2 DEF Careful, ApiHypotheses
<1>5. call[c].n \in Nat /\ call[c].n <= Endpoint(c).retries + 1
  BY Zenon DEF CallInv, CallAt
<1>6. QED  BY <1>3, <1>4, <1>5

(* A call that a step does not concern. *)
LEMMA CallKept ==
    ASSUME CallInv, NEW d \in Calls, server'.id = server.id, call'[d] = call[d],
           \A m \in Attempts : m > call[d].n => attempt'[d][m] = attempt[d][m]
    PROVE  CallAt(d)'
<1>1. CallAt(d)
  BY Zenon DEF CallInv
<1>2. Endpoint(d)' = Endpoint(d)
  BY Zenon DEF Endpoint
<1>3. QED  BY Zenon, <1>1, <1>2 DEF CallAt

(* A step of the server. *)
LEMMA StepOfServer ==
    ASSUME CallInv, NEW c \in Calls, NEW n \in Attempts, attempt[c][n].st # "unsent",
           Touched(c, n), call' = call, server'.id = server.id,
           server' \in [id : Servers, st : {"up", "draining", "down"}]
    PROVE  CallInv'
<1>1. Shapes'
  BY Zenon DEF CallInv, Shapes, Touched
<1>2. Unsent.st = "unsent"
  BY DEF Unsent
<1>3. ~(n > call[c].n)
  BY Zenon, <1>2 DEF CallInv, CallAt
<1>4. ASSUME NEW d \in Calls
      PROVE  CallAt(d)'
  <2>1. ASSUME NEW m \in Attempts, m > call[d].n
        PROVE  attempt'[d][m] = attempt[d][m]
    BY Zenon, <2>1, <1>3 DEF Touched
  <2>2. QED  BY Zenon, <1>4, <2>1, CallKept
<1>5. QED  BY Zenon, <1>1, <1>4 DEF CallInv

(* A step of the client that ends an attempt leaves those to come alone.   *)
AfterSending(c) ==
    /\ server' = server
    /\ DOMAIN attempt' = Calls /\ \A d \in Calls : DOMAIN attempt'[d] = Attempts
    /\ \A d \in Calls : \A m \in Attempts : m > call[d].n => attempt'[d][m] = attempt[d][m]

LEMMA AfterBecome ==
    ASSUME ApiHypotheses, CallInv, NEW c \in Calls, call[c].st = "sending", server' = server,
           Become(c, call[c].n, "gone")
    PROVE  AfterSending(c)
<1>1. call[c].n \in Attempts
  <2>1. call[c].n \in Nat /\ call[c].n <= Retries + 1
    <3>1. call[c].st # "idle"
      OBVIOUS
    <3>2. QED  BY Zenon, <3>1, EndpointRetries
  <2>2. call[c].n >= 1
    BY Zenon DEF CallInv, CallAt
  <2>3. Retries \in Nat
    BY Zenon DEF ApiHypotheses
  <2>4. QED  BY <2>1, <2>2, <2>3 DEF Attempts
<1>2. Touched(c, call[c].n)
  BY Zenon, <1>1, TouchBecome DEF CallInv
<1>3. call[c].n \in Nat
  BY Zenon DEF CallInv, CallAt
<1>4. ~(call[c].n > call[c].n)
  BY <1>3
<1>5. ASSUME NEW d \in Calls, NEW m \in Attempts, m > call[d].n
      PROVE  attempt'[d][m] = attempt[d][m]
  BY Zenon, <1>2, <1>4, <1>5 DEF Touched
<1>6. QED  BY Zenon, <1>2, <1>5 DEF AfterSending, Touched

LEMMA AfterUnchanged ==
    ASSUME CallInv, NEW c \in Calls, server' = server, attempt' = attempt
    PROVE  AfterSending(c)
BY Zenon DEF AfterSending, CallInv, Shapes

(* Whatever a call is answered with, it ends. *)
LEMMA StepDone ==
    ASSUME CallInv, NEW c \in Calls, call[c].st = "sending", AfterSending(c),
           NEW ok, NEW kind, Done(c, ok, kind)
    PROVE  CallInv'
<1>1. Updated(c, "done", call[c].op, call[c].n, call[c].seen)
  BY Zenon, UpdateDone DEF CallInv
<1>2. Shapes'
  BY Zenon, <1>1 DEF Updated, CallInv, Shapes, AfterSending
<1>3. call[c].st # "idle"
  OBVIOUS
<1>4. CallAt(c)'
  <2>1. /\ call'[c].st = "done" /\ call'[c].op = call[c].op /\ call'[c].n = call[c].n
    BY Zenon, <1>1 DEF Updated
  <2>2. Endpoint(c)' = Endpoint(c)
    BY Zenon, <2>1 DEF Endpoint, AfterSending
  <2>3. /\ call'[c].st # "idle" /\ call'[c].st \notin {"sending", "backoff"}
        /\ call'[c].st # "backoff" /\ call'[c].st \notin {"idle", "sending", "backoff"}
    BY <2>1
  <2>4. QED  BY Zenon, <1>3, <2>1, <2>2, <2>3 DEF CallInv, CallAt, AfterSending
<1>5. ASSUME NEW d \in Calls, d # c
      PROVE  CallAt(d)'
  BY Zenon, <1>1, <1>5, CallKept DEF Updated, AfterSending
<1>6. QED  BY Zenon, <1>2, <1>4, <1>5 DEF CallInv

(* An attempt that fails is the last, or there is a retry left and its     *)
(* error is none to stop at.                                               *)
LEMMA StepFailed ==
    ASSUME ApiHypotheses, CallInv, NEW c \in Calls, call[c].st = "sending", AfterSending(c),
           NEW code, NEW common, Failed(c, code, common)
    PROVE  CallInv'
<1>1. CASE call[c].n > Endpoint(c).retries \/ code \in StopCodes
  <2>1. Done(c, FALSE, from_code(ClientKinds(c), code))
    BY Zenon, <1>1 DEF Failed
  <2>2. QED  BY Zenon, <2>1, StepDone
<1>2. CASE ~(call[c].n > Endpoint(c).retries) /\ code \notin StopCodes
  <2>1. call' = [call EXCEPT ![c].st = "backoff", ![c].seen = code]
    BY Zenon, <1>2 DEF Failed
  <2>2. Updated(c, "backoff", call[c].op, call[c].n, code)
    BY Zenon, <2>1, UpdateBackoff DEF CallInv
  <2>3. Shapes'
    BY Zenon, <2>2 DEF Updated, CallInv, Shapes, AfterSending
  <2>4. CallAt(c)'
    <3>1. /\ call'[c].st = "backoff" /\ call'[c].op = call[c].op /\ call'[c].n = call[c].n
          /\ call'[c].seen = code
      BY Zenon, <2>2 DEF Updated
    <3>2. Endpoint(c)' = Endpoint(c)
      BY Zenon, <3>1 DEF Endpoint, AfterSending
    <3>3. call[c].st # "idle"
      OBVIOUS
    <3>4. call[c].n <= Endpoint(c).retries /\ call[c].n <= Endpoint(c).retries + 1
      <4>1. call[c].n \in Nat /\ Endpoint(c).retries \in Nat
        BY Zenon, <3>3, EndpointRetries
      <4>2. QED  BY <1>2, <4>1
    <3>5. call[c].n \in Nat /\ call[c].n >= 1 /\ call[c].op \in DOMAIN Clients[server.id]
      BY Zenon, <3>3 DEF CallInv, CallAt
    <3>6. \A m \in Attempts : m > call[c].n => attempt'[c][m] = Unsent
      BY Zenon DEF CallInv, CallAt, AfterSending
    <3>7. call'[c].st # "idle"
      BY <3>1
    <3>8. server'.id = server.id
      BY Zenon DEF AfterSending
    <3>9. QED  BY Zenon, <1>2, <3>1, <3>2, <3>4, <3>5, <3>6, <3>7, <3>8 DEF CallAt
  <2>5. ASSUME NEW d \in Calls, d # c
        PROVE  CallAt(d)'
    BY Zenon, <2>2, <2>5, CallKept DEF Updated, AfterSending
  <2>6. QED  BY Zenon, <2>3, <2>4, <2>5 DEF CallInv
<1>3. QED  BY Zenon, <1>1, <1>2

(* A call begins with its first attempt, or ends without one. *)
LEMMA StepStart ==
    ASSUME ApiHypotheses, CallInv, NEW c \in Calls, Start(c)
    PROVE  CallInv'
<1>1. call[c].st = "idle" /\ server' = server
  BY Zenon DEF Start
<1>2. PICK op \in Ops \cap DOMAIN Clients[server.id] :
        \/ /\ call' = [call EXCEPT ![c].st = "sending", ![c].op = op, ![c].n = 1]
           /\ attempt' = [attempt EXCEPT ![c][1] = OnWire]
        \/ /\ \E kind : call' = [call EXCEPT ![c].st = "done", ![c].op = op, ![c].kind = kind]
           /\ attempt' = attempt
  BY Zenon DEF Start
<1>3. /\ call[c].n = 0 /\ call[c].seen \notin StopCodes /\ server.id \in Servers
      /\ \A m \in Attempts : m > call[c].n => attempt[c][m] = Unsent
  <2>1. server.id \in Servers
    BY DEF CallInv, Shapes
  <2>2. QED  BY Zenon, <1>1, <2>1 DEF CallInv, CallAt
<1>4. Clients[server.id][op].retries \in Nat /\ Retries \in Nat
  <2>1. Careful(op, Clients[server.id][op])
    BY Zenon, <1>2, <1>3, ClientsAreCareful DEF ApiHypotheses
  <2>2. QED  BY <2>1 DEF Careful, ApiHypotheses
<1>5. CASE /\ call' = [call EXCEPT ![c].st = "sending", ![c].op = op, ![c].n = 1]
           /\ attempt' = [attempt EXCEPT ![c][1] = OnWire]
  <2>1. Updated(c, "sending", op, 1, call[c].seen)
    BY Zenon, <1>5, UpdateStart DEF CallInv
  <2>2. 1 \in Attempts
    BY <1>4 DEF Attempts
  <2>3. Touched(c, 1)
    BY Zenon, <1>5, <2>2, Touch DEF CallInv
  <2>4. Shapes'
    BY Zenon, <1>1, <2>1, <2>3 DEF CallInv, Shapes, Updated, Touched
  <2>5. CallAt(c)'
    <3>1. /\ call'[c].st = "sending" /\ call'[c].op = op /\ call'[c].n = 1
          /\ call'[c].seen = call[c].seen
      BY Zenon, <2>1 DEF Updated
    <3>2. Endpoint(c)' = Clients[server.id][op]
      BY Zenon, <1>1, <3>1 DEF Endpoint
    <3>3. 1 <= Clients[server.id][op].retries + 1 /\ 1 >= 1 /\ 1 \in Nat
      BY <1>4
    <3>4. \A m \in Attempts : m > 1 => m > 0 /\ m # 1
      BY <1>4 DEF Attempts
    <3>5. \A m \in Attempts : m > 1 => attempt'[c][m] = Unsent
      BY Zenon, <1>3, <2>3, <3>4 DEF Touched
    <3>6. call'[c].st # "idle" /\ call'[c].st # "backoff"
      BY <3>1
    <3>7. QED  BY Zenon, <1>1, <1>2, <1>3, <3>1, <3>2, <3>3, <3>5, <3>6 DEF CallAt
  <2>6. ASSUME NEW d \in Calls, d # c
        PROVE  CallAt(d)'
    BY Zenon, <1>1, <2>1, <2>3, <2>6, CallKept DEF Updated, Touched
  <2>7. QED  BY Zenon, <2>4, <2>5, <2>6 DEF CallInv
<1>6. ASSUME NEW kind, call' = [call EXCEPT ![c].st = "done", ![c].op = op, ![c].kind = kind],
             attempt' = attempt
      PROVE  CallInv'
  <2>1. Updated(c, "done", op, call[c].n, call[c].seen)
    BY Zenon, <1>6, UpdateNotStarted DEF CallInv
  <2>2. Shapes'
    BY Zenon, <1>1, <1>6, <2>1 DEF CallInv, Shapes, Updated
  <2>3. CallAt(c)'
    <3>1. call'[c].st = "done" /\ call'[c].op = op /\ call'[c].n = 0
      BY Zenon, <1>3, <2>1 DEF Updated
    <3>2. Endpoint(c)' = Clients[server.id][op]
      BY Zenon, <1>1, <3>1 DEF Endpoint
    <3>3. 0 <= Clients[server.id][op].retries + 1 /\ 0 \in Nat
      BY <1>4
    <3>4. /\ call'[c].st # "idle" /\ call'[c].st # "backoff"
          /\ call'[c].st \notin {"sending", "backoff"}
          /\ call'[c].st \notin {"idle", "sending", "backoff"}
      BY <3>1
    <3>5. QED  BY Zenon, <1>1, <1>2, <1>3, <1>6, <3>1, <3>2, <3>3, <3>4 DEF CallAt
  <2>4. ASSUME NEW d \in Calls, d # c
        PROVE  CallAt(d)'
    BY Zenon, <1>1, <1>6, <2>1, <2>4, CallKept DEF Updated
  <2>5. QED  BY Zenon, <2>2, <2>3, <2>4 DEF CallInv
<1>7. QED  BY Zenon, <1>2, <1>5, <1>6

(* The next attempt is one of those that left no trace. *)
LEMMA StepResend ==
    ASSUME ApiHypotheses, CallInv, NEW c \in Calls, Resend(c)
    PROVE  CallInv'
<1>1. /\ call[c].st = "backoff" /\ server' = server
      /\ call' = [call EXCEPT ![c].st = "sending", ![c].n = @ + 1]
      /\ attempt' = [attempt EXCEPT ![c] = [attempt[c] EXCEPT ![call[c].n + 1] = OnWire]]
  BY Zenon DEF Resend, Send, CallInv, Shapes
<1>2. Updated(c, "sending", call[c].op, call[c].n + 1, call[c].seen)
  BY Zenon, <1>1, UpdateSend DEF CallInv
<1>3. call[c].st # "idle"
  BY <1>1
<1>4. /\ Endpoint(c).retries \in Nat /\ Endpoint(c).retries <= Retries /\ call[c].n \in Nat
      /\ call[c].n <= Endpoint(c).retries /\ Retries \in Nat
      /\ call[c].op \in DOMAIN Clients[server.id] /\ call[c].seen \notin StopCodes
      /\ \A m \in Attempts : m > call[c].n => attempt[c][m] = Unsent
  BY Zenon, <1>1, <1>3, EndpointRetries DEF CallInv, CallAt, ApiHypotheses
<1>5. /\ call[c].n + 1 \in Attempts /\ call[c].n + 1 \in Nat /\ call[c].n + 1 >= 1
      /\ call[c].n + 1 <= Endpoint(c).retries + 1
      /\ \A m \in Attempts : m > call[c].n + 1 => m > call[c].n /\ m # call[c].n + 1
  BY <1>4 DEF Attempts
<1>6. Touched(c, call[c].n + 1)
  BY Zenon, <1>1, <1>5, Touch DEF CallInv
<1>7. Shapes'
  BY Zenon, <1>1, <1>2, <1>6 DEF CallInv, Shapes, Updated, Touched
<1>8. CallAt(c)'
  <2>1. /\ call'[c].st = "sending" /\ call'[c].op = call[c].op /\ call'[c].n = call[c].n + 1
        /\ call'[c].seen = call[c].seen
    BY Zenon, <1>2 DEF Updated
  <2>2. Endpoint(c)' = Endpoint(c)
    BY Zenon, <1>1, <2>1 DEF Endpoint
  <2>3. call'[c].st # "idle" /\ call'[c].st # "backoff"
    BY <2>1
  <2>4. \A m \in Attempts : m > call[c].n + 1 => attempt'[c][m] = Unsent
    BY Zenon, <1>4, <1>5, <1>6 DEF Touched
  <2>5. QED  BY Zenon, <1>1, <1>4, <1>5, <2>1, <2>2, <2>3, <2>4 DEF CallAt
<1>9. ASSUME NEW d \in Calls, d # c
      PROVE  CallAt(d)'
  BY Zenon, <1>1, <1>2, <1>6, <1>9, CallKept DEF Updated, Touched
<1>10. QED  BY Zenon, <1>7, <1>8, <1>9 DEF CallInv

(* The client is answered, or gives up the attempt. *)
LEMMA StepOfClient ==
    ASSUME ApiHypotheses, CallInv, NEW c \in Calls, ClientStep(c)
    PROVE  CallInv'
<1>1. CASE Start(c)
  BY Zenon, <1>1, StepStart
<1>2. CASE Resend(c)
  BY Zenon, <1>2, StepResend
<1>3. CASE CannotConnect(c)
  <2>1. call[c].st = "sending" /\ server' = server /\ Become(c, call[c].n, "gone")
    BY Zenon, <1>3 DEF CannotConnect
  <2>2. PICK traits : FailedWith(c, traits)
    BY Zenon, <1>3 DEF CannotConnect
  <2>3. QED  BY Zenon, <2>1, <2>2, AfterBecome, StepFailed DEF FailedWith
<1>4. CASE ConnectionLost(c) \/ ClientTimeout(c) \/ Closed(c)
  <2>1. call[c].st = "sending" /\ server' = server /\ attempt' = attempt
    BY Zenon, <1>4 DEF ConnectionLost, ClientTimeout, Closed
  <2>2. PICK traits : FailedWith(c, traits)
    BY Zenon, <1>4 DEF ConnectionLost, ClientTimeout, Closed
  <2>3. QED  BY Zenon, <2>1, <2>2, AfterUnchanged, StepFailed DEF FailedWith
<1>5. CASE Receive(c)
  <2>1. call[c].st = "sending" /\ server' = server /\ Become(c, call[c].n, "gone")
    BY Zenon, <1>5 DEF Receive
  <2>2. \/ \E ok, kind : Done(c, ok, kind)
        \/ \E code, common : Failed(c, code, common)
    BY Zenon, <1>5 DEF Receive, FailedWith
  <2>3. QED  BY Zenon, <2>1, <2>2, AfterBecome, StepDone, StepFailed
<1>6. QED  BY Zenon, <1>1, <1>2, <1>3, <1>4, <1>5 DEF ClientStep

(* The server after a step that leaves it, or begins its shutdown. *)
LEMMA ServerAfter ==
    ASSUME CallInv,
           \/ server' = server
           \/ server' = [server EXCEPT !.st = "draining"]
           \/ server' = [server EXCEPT !.st = "down"]
    PROVE  server'.id = server.id /\ server' \in [id : Servers, st : {"up", "draining", "down"}]
<1>1. server \in [id : Servers, st : {"up", "draining", "down"}]
  BY Zenon DEF CallInv, Shapes
<1>2. QED  BY <1>1

(* The server handles, answers or drops what has been sent. *)
LEMMA StepServer ==
    ASSUME CallInv, NEW c \in Calls, NEW n \in Attempts, ServerStep(c, n)
    PROVE  CallInv'
<1>1. attempt[c][n].st \in {"wire", "buffered", "running", "acted", "answered"}
  BY Zenon DEF ServerStep, Arrive, Admit, Reject, Act, Succeed, Fail, HandlingTimeout, Cancel, Is
<1>2. attempt[c][n].st # "unsent"
  BY <1>1
<1>3. call' = call /\ (server' = server \/ server' = [server EXCEPT !.st = "draining"])
  BY Zenon DEF ServerStep, Arrive, Admit, Reject, Act, Succeed, Fail, HandlingTimeout, Cancel
<1>4. \/ \E st : Become(c, n, st)
      \/ \E reply : Answer(c, n, reply)
      \/ \E handler : Acts(c, n, handler)
  BY Zenon DEF ServerStep, Arrive, Admit, Reject, Act, Succeed, Fail, HandlingTimeout, Cancel, Acts
<1>5. Touched(c, n)
  BY Zenon, <1>4, TouchBecome, TouchAnswer, TouchAct DEF CallInv
<1>6. server'.id = server.id /\ server' \in [id : Servers, st : {"up", "draining", "down"}]
  BY Zenon, <1>3, ServerAfter
<1>7. QED  BY Zenon, <1>2, <1>3, <1>5, <1>6, StepOfServer

(* The server shuts down, dropping what it has begun. *)
LEMMA StepShutdown ==
    ASSUME CallInv, BeginShutdown \/ Drained \/ HardShutdown
    PROVE  CallInv'
<1>1. call' = call /\ (\/ server' = [server EXCEPT !.st = "draining"]
                       \/ server' = [server EXCEPT !.st = "down"])
  BY Zenon DEF BeginShutdown, Drained, HardShutdown
<1>2. server'.id = server.id /\ server' \in [id : Servers, st : {"up", "draining", "down"}]
  BY Zenon, <1>1, ServerAfter
<1>3. /\ DOMAIN attempt' = Calls /\ \A d \in Calls : DOMAIN attempt'[d] = Attempts
      /\ \A d \in Calls : \A m \in Attempts :
            attempt[d][m] = Unsent => attempt'[d][m] = attempt[d][m]
  <2>1. CASE attempt' = attempt
    BY Zenon, <2>1 DEF CallInv, Shapes
  <2>2. CASE HardShutdown
    <3>1. attempt' = [c \in Calls |-> [n \in Attempts |->
             IF <<c, n>> \in AtWork THEN [attempt[c][n] EXCEPT !.st = "gone"]
             ELSE attempt[c][n]]]
      BY Zenon, <2>2 DEF HardShutdown
    <3>2. ASSUME NEW d \in Calls, NEW m \in Attempts, attempt[d][m] = Unsent
          PROVE  <<d, m>> \notin AtWork
      <4>1. attempt[d][m].st = "unsent"
        BY <3>2 DEF Unsent
      <4>2. ASSUME <<d, m>> \in AtWork
            PROVE  attempt[d][m].st \in {"buffered", "running", "acted"}
        BY <4>2 DEF AtWork, AtServer, Is
      <4>3. QED  BY <4>1, <4>2
    <3>3. QED  BY Zenon, <3>1, <3>2
  <2>3. QED  BY Zenon, <2>1, <2>2 DEF BeginShutdown, Drained
<1>4. Shapes'
  BY Zenon, <1>1, <1>2, <1>3 DEF CallInv, Shapes
<1>5. ASSUME NEW d \in Calls
      PROVE  CallAt(d)'
  <2>1. \A m \in Attempts : m > call[d].n => attempt'[d][m] = attempt[d][m]
    BY Zenon, <1>3, <1>5 DEF CallInv, CallAt
  <2>2. QED  BY Zenon, <1>1, <1>2, <1>5, <2>1, CallKept
<1>6. QED  BY Zenon, <1>4, <1>5 DEF CallInv

-----------------------------------------------------------------------------
(* The theorems. *)

(* No call has begun. *)
LEMMA CallsInitial ==
    ASSUME ApiHypotheses, Init
    PROVE  CallInv
<1>1. /\ call = [c \in Calls |-> Idle] /\ server \in [id : Servers, st : {"up"}]
      /\ attempt = [c \in Calls |-> [n \in Attempts |-> Unsent]]
  BY Zenon DEF Init
<1>2. DOMAIN Idle = Fields /\ Idle.st = "idle" /\ Idle.n = 0 /\ Idle.seen = 0
  BY DEF Idle, Fields
<1>3. Shapes
  <2>1. server \in [id : Servers, st : {"up", "draining", "down"}]
    BY <1>1
  <2>2. QED  BY Zenon, <1>1, <1>2, <2>1 DEF Shapes
<1>4. ASSUME NEW c \in Calls
      PROVE  CallAt(c)
  <2>1. call[c] = Idle /\ \A m \in Attempts : attempt[c][m] = Unsent
    BY Zenon, <1>1, <1>4
  <2>2. call[c].st = "idle" /\ call[c].n = 0 /\ call[c].seen = 0
    BY Zenon, <1>2, <2>1
  <2>3. call[c].n \in Nat /\ call[c].st # "backoff" /\ call[c].st \notin {"sending", "backoff"}
    BY <2>2
  <2>4. QED  BY Zenon, <2>1, <2>2, <2>3 DEF CallAt, ApiHypotheses
<1>5. QED  BY Zenon, <1>3, <1>4 DEF CallInv

(* CallInv is inductive. *)
LEMMA CallsInductive ==
    ASSUME ApiHypotheses, CallInv, [Next]_vars
    PROVE  CallInv'
<1>1. CASE UNCHANGED vars
  BY Zenon, <1>1 DEF vars, CallInv, Shapes, CallAt, Endpoint
<1>2. CASE \E c \in Calls : ClientStep(c) \/ \E n \in Attempts : ServerStep(c, n)
  BY Zenon, <1>2, StepOfClient, StepServer
<1>3. CASE BeginShutdown \/ Drained \/ HardShutdown
  BY Zenon, <1>3, StepShutdown
<1>4. QED  BY Zenon, <1>1, <1>2, <1>3 DEF Next, Finished

(* The invariant holds throughout: a call makes no more attempts than its  *)
(* client method allows (rest.rs, send_with_retries).                      *)
THEOREM CallsInvariance ==
    ASSUME ApiHypotheses
    PROVE  Spec => []CallInv
<1>1. Init => CallInv
  BY Zenon, CallsInitial
<1>2. CallInv /\ [Next]_vars => CallInv'
  BY Zenon, CallsInductive
<1>3. QED  BY PTL, <1>1, <1>2 DEF Spec

(* A request that creates, pays or sends takes effect at most once per     *)
(* call, whatever times out, is lost, refused or shut down: the clients of *)
(* all services retry only requests that are idempotent.                   *)
THEOREM EffectsAreAtMostOnce ==
    ASSUME ApiHypotheses
    PROVE  Spec => []AtMostOnce
<1>1. ASSUME CallInv
      PROVE  AtMostOnce
  <2>1. SUFFICES ASSUME NEW c \in Calls, call[c].st # "idle", ~Idempotent(c)
                 PROVE  \A m, n \in Attempts : Acted(c, m) /\ Acted(c, n) => m = n
    BY Zenon DEF AtMostOnce
  <2>2. call[c].n \in Nat /\ call[c].n <= 1 /\ Retries \in Nat
    <3>1. Endpoint(c).retries = 0 /\ call[c].n \in Nat /\ call[c].n <= Endpoint(c).retries + 1
      BY Zenon, <1>1, <2>1, EndpointRetries DEF CallInv, CallAt
    <3>2. Retries \in Nat
      BY Zenon DEF ApiHypotheses
    <3>3. QED  BY <3>1, <3>2
  <2>3. ASSUME NEW n \in Attempts, Acted(c, n)
        PROVE  n = 1
    <3>1. Unsent.handler = "none"
      BY DEF Unsent
    <3>2. ~(n > call[c].n)
      BY Zenon, <1>1, <2>1, <2>3, <3>1 DEF CallInv, CallAt, Acted
    <3>3. QED  BY <2>2, <3>2 DEF Attempts
  <2>4. QED  BY Zenon, <2>3
<1>2. CallInv => AtMostOnce
  BY Zenon, <1>1
<1>3. QED  BY PTL, <1>2, CallsInvariance

(* A code on which the caller asked to stop is never followed by another   *)
(* attempt, whether the server sent it or the client library found it.     *)
THEOREM StopCodesStop ==
    ASSUME ApiHypotheses
    PROVE  Spec => []StopsAtStopCodes
<1>1. CallInv => StopsAtStopCodes
  BY Zenon DEF CallInv, CallAt, StopsAtStopCodes
<1>2. QED  BY PTL, <1>1, CallsInvariance

-----------------------------------------------------------------------------
(* What the result of a call says of its last attempt. *)

(* The codes that say that a request has not been handled. *)
NotDoneCodes(kinds) == {kinds[k][1] : k \in NotDone \cap DOMAIN kinds}

(* An attempt takes effect when its handler does, and is answered with a   *)
(* success only after that, and with a code that denies it only if it      *)
(* has not.                                                                *)
GoodAttempt(a, kinds) ==
    /\ DOMAIN a = {"st", "handler", "reply"}
    /\ a.st \in {"unsent", "wire", "buffered", "running"} => a.handler = "none"
    /\ a.st = "acted" => a.handler # "none"
    /\ a.st = "answered" =>
          /\ is_success(a.reply.status) => a.handler # "none"
          /\ a.reply.code \in NotDoneCodes(kinds) => a.handler = "none"

(* The last attempt of a call that is told of no effect is over. *)
ResultAt(c) ==
    /\ call[c].st = "idle" => ~call[c].ok
    /\ call[c].st = "done" =>
         /\ call[c].ok => call[c].n \in Attempts /\ Acted(c, call[c].n)
         /\ ~call[c].ok /\ call[c].n > 0 /\ call[c].kind[1] \in NotDone =>
               /\ call[c].n \in Attempts
               /\ Is(c, call[c].n, "gone") /\ ~Acted(c, call[c].n)

TruthInv ==
    \A c \in Calls :
      /\ \A n \in Attempts : GoodAttempt(attempt[c][n], ServerKinds(c))
      /\ ResultAt(c)

(* What is used of the error kinds of an API: a kind that denies an effect *)
(* shares its code with no other, and with none of the client library's    *)
(* errors on the way; and no error has the status of a success.            *)
KindsAreTold(kinds) ==
    /\ "Unknown" \notin DOMAIN kinds
    /\ \A k \in DOMAIN kinds : ~is_success(kinds[k][2])
    /\ \A k \in DOMAIN kinds : k \notin NotDone => kinds[k][1] \notin NotDoneCodes(kinds)
    /\ \A code \in {0, 1, 4, 5, 6} : code \notin NotDoneCodes(kinds)

(* Facts about each code of a table, which give those about all of them. *)
LEMMA ToldByCode ==
    ASSUME NEW kinds, NEW auth,
           "Unknown" \notin DOMAIN kinds,
           \A k \in DOMAIN kinds : ~(kinds[k][2] \in 200 .. 299),
           \A k \in DOMAIN kinds : k \notin NotDone => kinds[k][1] \notin {2, 3, 7, 8, auth},
           \A k \in DOMAIN kinds : k \in NotDone => kinds[k][1] \in {2, 3, 7, 8, auth},
           auth \in {2, 104}
    PROVE  KindsAreTold(kinds)
<1>1. \A code \in NotDoneCodes(kinds) : code \in {2, 3, 7, 8, auth}
  BY Zenon DEF NotDoneCodes
<1>2. \A code \in {0, 1, 4, 5, 6} : code \notin {2, 3, 7, 8, auth}
  OBVIOUS
<1>3. QED  BY Zenon, <1>1, <1>2 DEF KindsAreTold, is_success

LEMMA BackendIsTold == KindsAreTold(BackendErrorKind)
<1>1. /\ "Unknown" \notin DOMAIN BackendErrorKind
      /\ \A k \in DOMAIN BackendErrorKind :
           /\ ~(BackendErrorKind[k][2] \in 200 .. 299)
           /\ k \notin NotDone => BackendErrorKind[k][1] \notin {2, 3, 7, 8, 2}
           /\ k \in NotDone => BackendErrorKind[k][1] \in {2, 3, 7, 8, 2}
  BY DEF BackendErrorKind, NotDone
<1>2. QED  BY Zenon, <1>1, ToldByCode

LEMMA GatewayIsTold == KindsAreTold(GatewayErrorKind)
<1>1. /\ "Unknown" \notin DOMAIN GatewayErrorKind
      /\ \A k \in DOMAIN GatewayErrorKind :
           /\ ~(GatewayErrorKind[k][2] \in 200 .. 299)
           /\ k \notin NotDone => GatewayErrorKind[k][1] \notin {2, 3, 7, 8, 2}
           /\ k \in NotDone => GatewayErrorKind[k][1] \in {2, 3, 7, 8, 2}
  BY DEF GatewayErrorKind, NotDone
<1>2. QED  BY Zenon, <1>1, ToldByCode

LEMMA LspIsTold == KindsAreTold(LspErrorKind)
<1>1. /\ "Unknown" \notin DOMAIN LspErrorKind
      /\ \A k \in DOMAIN LspErrorKind :
           /\ ~(LspErrorKind[k][2] \in 200 .. 299)
           /\ k \notin NotDone => LspErrorKind[k][1] \notin {2, 3, 7, 8, 2}
           /\ k \in NotDone => LspErrorKind[k][1] \in {2, 3, 7, 8, 2}
  BY DEF LspErrorKind, NotDone
<1>2. QED  BY Zenon, <1>1, ToldByCode

LEMMA NodeIsTold == KindsAreTold(NodeErrorKind)
<1>1. /\ "Unknown" \notin DOMAIN NodeErrorKind
      /\ \A k \in DOMAIN NodeErrorKind :
           /\ ~(NodeErrorKind[k][2] \in 200 .. 299)
           /\ k \notin NotDone => NodeErrorKind[k][1] \notin {2, 3, 7, 8, 104}
           /\ k \in NotDone => NodeErrorKind[k][1] \in {2, 3, 7, 8, 104}
  BY DEF NodeErrorKind, NotDone
<1>2. QED  BY <1>1, ToldByCode

LEMMA RunnerIsTold == KindsAreTold(RunnerErrorKind)
<1>1. /\ "Unknown" \notin DOMAIN RunnerErrorKind
      /\ \A k \in DOMAIN RunnerErrorKind :
           /\ ~(RunnerErrorKind[k][2] \in 200 .. 299)
           /\ k \notin NotDone => RunnerErrorKind[k][1] \notin {2, 3, 7, 8, 2}
           /\ k \in NotDone => RunnerErrorKind[k][1] \in {2, 3, 7, 8, 2}
  BY DEF RunnerErrorKind, NotDone
<1>2. QED  BY Zenon, <1>1, ToldByCode

LEMMA AllKindsAreTold ==
    ASSUME NEW s, NEW op
    PROVE  KindsAreTold(KindsOf(s, op))
<1>1. KindsOf(s, op) \in {NodeErrorKind, LspErrorKind, RunnerErrorKind, GatewayErrorKind,
                          BackendErrorKind}
  BY Zenon DEF KindsOf
<1>2. QED
  BY Zenon, <1>1, BackendIsTold, GatewayIsTold, LspIsTold, NodeIsTold, RunnerIsTold

(* A kind that denies an effect comes from one of the codes that do, even  *)
(* where the client lacks other kinds.                                     *)
LEMMA KindHasItsCode ==
    ASSUME NEW c, NEW code, from_code(ClientKinds(c), code)[1] \in NotDone
    PROVE  code \in NotDoneCodes(ServerKinds(c))
<1> DEFINE kinds == ClientKinds(c)
           name == CHOOSE k \in DOMAIN kinds : kinds[k][1] = code
<1>1. CASE \E k \in DOMAIN kinds : kinds[k][1] = code
  <2>1. from_code(kinds, code) = <<name>>
    BY Zenon, <1>1 DEF from_code
  <2>2. name \in DOMAIN kinds /\ kinds[name][1] = code
    BY Zenon, <1>1
  <2>3. DOMAIN kinds = DOMAIN ServerKinds(c) \ ClientLacks
    BY Zenon DEF ClientKinds
  <2>4. name \in DOMAIN ServerKinds(c) /\ kinds[name] = ServerKinds(c)[name]
    BY Zenon, <2>2, <2>3 DEF ClientKinds
  <2> HIDE DEF name, kinds
  <2>5. name \in NotDone
    <3>1. <<name>>[1] = name
      OBVIOUS
    <3>2. QED  BY Zenon, <2>1, <3>1 DEF kinds
  <2>6. QED  BY Zenon, <2>2, <2>4, <2>5 DEF NotDoneCodes
<1>2. CASE ~ \E k \in DOMAIN kinds : kinds[k][1] = code
  <2>1. from_code(kinds, code) = <<"Unknown", code>>
    BY Zenon, <1>2 DEF from_code
  <2>2. <<"Unknown", code>>[1] = "Unknown" /\ "Unknown" \notin NotDone
    BY DEF NotDone
  <2>3. QED  BY Zenon, <2>1, <2>2
<1>3. QED  BY Zenon, <1>1, <1>2

(* A route leads to a handler. *)
LEMMA RoutesLead ==
    ASSUME NEW s \in DOMAIN Clients, NEW method, NEW path, NEW handler \in Route(s, method, path)
    PROVE  handler # "none"
<1>1. /\ s \in {"backend", "lsp", "runner", "gateway", "provision", "app", "lexe"}
      /\ Routers["backend"] = NodeBackendApi /\ Routers["lsp"] = NodeLspApi
      /\ Routers["runner"] = NodeRunnerApi /\ Routers["gateway"] = AppGatewayApi
      /\ Routers["provision"] = provision_router /\ Routers["app"] = app_router
      /\ Routers["lexe"] = lexe_router
  BY DEF Clients, Routers
<1>2. \A r \in NodeBackendApi : r[3] # "none"
  BY DEF NodeBackendApi
<1>3. \A r \in NodeLspApi \cup NodeRunnerApi \cup AppGatewayApi \cup provision_router : r[3] # "none"
  BY DEF NodeLspApi, NodeRunnerApi, AppGatewayApi, provision_router
<1>4. \A r \in app_router \cup lexe_router : r[3] # "none"
  BY DEF app_router, lexe_router
<1>5. \A r \in Routers[s] : r[3] # "none"
  BY Zenon, <1>1, <1>2, <1>3, <1>4
<1>6. QED  BY Zenon, <1>5 DEF Route

-----------------------------------------------------------------------------
(* What may become of an attempt. *)

(* An effect is not undone, and an attempt that is over stays as it is. *)
Persists(a, b) == (a.handler # "none" => b.handler # "none") /\ (a.st = "gone" => b = a)

LEMMA NewAttempts ==
    ASSUME NEW kinds
    PROVE  GoodAttempt(Unsent, kinds) /\ GoodAttempt(OnWire, kinds)
<1>1. /\ DOMAIN Unsent = {"st", "handler", "reply"} /\ DOMAIN OnWire = {"st", "handler", "reply"}
      /\ Unsent.handler = "none" /\ OnWire.handler = "none"
      /\ Unsent.st = "unsent" /\ OnWire.st = "wire"
  BY DEF Unsent, OnWire
<1>2. Unsent.st \notin {"acted", "answered"} /\ OnWire.st \notin {"acted", "answered"}
  BY <1>1
<1>3. QED  BY Zenon, <1>1, <1>2 DEF GoodAttempt

LEMMA AssignAttempt ==
    ASSUME NEW a, DOMAIN a = {"st", "handler", "reply"}, NEW v
    PROVE  /\ DOMAIN [a EXCEPT !.st = v] = {"st", "handler", "reply"}
           /\ [a EXCEPT !.st = v].st = v /\ [a EXCEPT !.st = v].handler = a.handler
           /\ [a EXCEPT !.st = v].reply = a.reply
           /\ DOMAIN [a EXCEPT !.handler = v] = {"st", "handler", "reply"}
           /\ [a EXCEPT !.handler = v].st = a.st /\ [a EXCEPT !.handler = v].handler = v
           /\ [a EXCEPT !.handler = v].reply = a.reply
           /\ DOMAIN [a EXCEPT !.reply = v] = {"st", "handler", "reply"}
           /\ [a EXCEPT !.reply = v].st = a.st /\ [a EXCEPT !.reply = v].handler = a.handler
           /\ [a EXCEPT !.reply = v].reply = v
OBVIOUS

(* It moves on without an effect, or is over. *)
LEMMA GoodBecome ==
    ASSUME NEW kinds, NEW a, GoodAttempt(a, kinds), NEW st, a.st # "gone",
           st = "gone" \/ (st \in {"buffered", "running"} /\ a.st \in {"wire", "buffered"}),
           NEW b, b = [a EXCEPT !.st = st]
    PROVE  GoodAttempt(b, kinds) /\ Persists(a, b)
<1>1. DOMAIN b = {"st", "handler", "reply"} /\ b.st = st /\ b.handler = a.handler
  BY Zenon, AssignAttempt DEF GoodAttempt
<1>2. b.st \notin {"acted", "answered"} /\ (b.st # "gone" => a.st \in {"wire", "buffered"})
  BY <1>1
<1>3. a.st \in {"wire", "buffered"} => a.handler = "none"
  BY Zenon DEF GoodAttempt
<1>4. b.st \in {"unsent", "wire", "buffered", "running"} => b.handler = "none"
  BY <1>1, <1>2, <1>3
<1>5. QED  BY Zenon, <1>1, <1>2, <1>4 DEF GoodAttempt, Persists

(* It takes effect. *)
LEMMA GoodAct ==
    ASSUME NEW kinds, NEW a, GoodAttempt(a, kinds), a.st = "running", NEW handler, handler # "none",
           NEW b, b = TookEffect(a, handler)
    PROVE  GoodAttempt(b, kinds) /\ Persists(a, b)
<1> DEFINE b0 == [a EXCEPT !.st = "acted"]
<1>1. DOMAIN b0 = {"st", "handler", "reply"} /\ b0.st = "acted"
  BY Zenon, AssignAttempt DEF GoodAttempt
<1>2. b = [b0 EXCEPT !.handler = handler]
  BY Zenon DEF TookEffect
<1> HIDE DEF b0
<1>3. DOMAIN b = {"st", "handler", "reply"} /\ b.st = "acted" /\ b.handler = handler
  BY Zenon, <1>1, <1>2, AssignAttempt
<1>4. b.st # "answered" /\ b.st \notin {"unsent", "wire", "buffered", "running"} /\ a.st # "gone"
  BY <1>3
<1>5. QED  BY Zenon, <1>3, <1>4 DEF GoodAttempt, Persists

(* It is answered. *)
LEMMA GoodAnswer ==
    ASSUME NEW kinds, NEW a, GoodAttempt(a, kinds), a.st # "gone", NEW reply,
           is_success(reply.status) => a.handler # "none",
           reply.code \in NotDoneCodes(kinds) => a.handler = "none",
           NEW b, b = Answered(a, reply)
    PROVE  GoodAttempt(b, kinds) /\ Persists(a, b)
<1> DEFINE b0 == [a EXCEPT !.st = "answered"]
<1>1. DOMAIN b0 = {"st", "handler", "reply"} /\ b0.st = "answered" /\ b0.handler = a.handler
  BY Zenon, AssignAttempt DEF GoodAttempt
<1>2. b = [b0 EXCEPT !.reply = reply]
  BY Zenon DEF Answered
<1> HIDE DEF b0
<1>3. /\ DOMAIN b = {"st", "handler", "reply"} /\ b.st = "answered" /\ b.handler = a.handler
      /\ b.reply = reply
  BY Zenon, <1>1, <1>2, AssignAttempt
<1>4. b.st # "acted" /\ b.st \notin {"unsent", "wire", "buffered", "running"}
  BY <1>3
<1>5. QED  BY Zenon, <1>3, <1>4 DEF GoodAttempt, Persists

-----------------------------------------------------------------------------
(* The steps, once more. *)

(* No handler reports one of the kinds that deny an effect: those are for  *)
(* the libraries and for the check of a token, ahead of any handler.       *)
TruthHypotheses == ApiHypotheses /\ Failures \cap NotDone = {}

AttemptsGoOn ==
    \A d \in Calls : \A m \in Attempts :
      GoodAttempt(attempt'[d][m], ServerKinds(d)) /\ Persists(attempt[d][m], attempt'[d][m])

LEMMA AllGoOn ==
    ASSUME TruthInv, attempt' = attempt
    PROVE  AttemptsGoOn
BY Zenon DEF TruthInv, AttemptsGoOn, Persists

LEMMA OneGoesOn ==
    ASSUME TruthInv, NEW c \in Calls, NEW n \in Attempts, Touched(c, n),
           GoodAttempt(attempt'[c][n], ServerKinds(c)), Persists(attempt[c][n], attempt'[c][n])
    PROVE  AttemptsGoOn
<1>1. ASSUME NEW d \in Calls, NEW m \in Attempts
      PROVE  /\ GoodAttempt(attempt'[d][m], ServerKinds(d))
             /\ Persists(attempt[d][m], attempt'[d][m])
  <2>1. CASE d = c /\ m = n
    BY Zenon, <2>1
  <2>2. CASE d # c \/ m # n
    <3>1. attempt'[d][m] = attempt[d][m]
      BY Zenon, <2>2 DEF Touched
    <3>2. QED  BY Zenon, <3>1 DEF TruthInv, Persists
  <2>3. QED  BY Zenon, <2>1, <2>2
<1>2. QED  BY Zenon, <1>1 DEF AttemptsGoOn

(* The result of a call stays true. *)
LEMMA ResultKept ==
    ASSUME TruthInv, AttemptsGoOn, NEW d \in Calls, call'[d] = call[d]
    PROVE  ResultAt(d)'
<1>1. ResultAt(d)
  BY Zenon DEF TruthInv
<1>2. ASSUME call[d].n \in Attempts
      PROVE  Persists(attempt[d][call[d].n], attempt'[d][call[d].n])
  BY Zenon, <1>2 DEF AttemptsGoOn
<1>3. QED  BY Zenon, <1>1, <1>2 DEF ResultAt, Acted, Is, Persists

LEMMA TruthKept ==
    ASSUME TruthInv, AttemptsGoOn, call' = call, server'.id = server.id
    PROVE  TruthInv'
<1>1. ASSUME NEW d \in Calls
      PROVE  ServerKinds(d)' = ServerKinds(d)
  BY Zenon DEF ServerKinds
<1>2. QED  BY Zenon, <1>1, ResultKept DEF TruthInv, AttemptsGoOn

(* The replies of the server library. *)
LEMMA Replies ==
    /\ ~is_success(ForeignReply.status)
    /\ ~is_success(CommonReply("Rejection").status) /\ ~is_success(CommonReply("AtCapacity").status)
    /\ ~is_success(CommonReply("Server").status) /\ CommonReply("Server").code = 6
    /\ OkReply.code = 0
<1>1. /\ <<"Rejection">>[1] = "Rejection" /\ <<"AtCapacity">>[1] = "AtCapacity"
      /\ <<"Server">>[1] = "Server"
  OBVIOUS
<1>2. /\ CommonErrorKind["Rejection"][2] = 400 /\ CommonErrorKind["AtCapacity"][2] = 503
      /\ CommonErrorKind["Server"][2] = 500 /\ CommonErrorKind["Server"][1] = 6
  BY DEF CommonErrorKind
<1>3. /\ CommonReply("Rejection").status = 400 /\ CommonReply("AtCapacity").status = 503
      /\ CommonReply("Server").status = 500 /\ CommonReply("Server").code = 6
  BY <1>1, <1>2 DEF CommonReply, ErrorReply, to_http_status, to_code
<1>4. ForeignReply.status = 502 /\ OkReply.code = 0
  BY DEF ForeignReply, OkReply
<1>5. QED  BY <1>3, <1>4 DEF is_success

(* The reply of a handler that fails. *)
LEMMA FailureReply ==
    ASSUME NEW kinds, KindsAreTold(kinds), NEW k \in DOMAIN kinds, k \notin NotDone
    PROVE  /\ ~is_success(ErrorReply(kinds, <<k>>).status)
           /\ ErrorReply(kinds, <<k>>).code \notin NotDoneCodes(kinds)
<1>1. <<k>>[1] = k /\ k # "Unknown"
  <2>1. <<k>>[1] = k
    OBVIOUS
  <2>2. QED  BY Zenon, <2>1 DEF KindsAreTold
<1>2. to_http_status(kinds, <<k>>) = kinds[k][2] /\ to_code(kinds, <<k>>) = kinds[k][1]
  BY Zenon, <1>1 DEF to_http_status, to_code
<1>3. /\ ErrorReply(kinds, <<k>>).status = to_http_status(kinds, <<k>>)
      /\ ErrorReply(kinds, <<k>>).code = to_code(kinds, <<k>>)
  BY DEF ErrorReply
<1>4. QED  BY Zenon, <1>2, <1>3 DEF KindsAreTold

(* The server handles, answers or drops an attempt. *)
LEMMA TruthServer ==
    ASSUME TruthHypotheses, CallInv, TruthInv, NEW c \in Calls, NEW n \in Attempts,
           ServerStep(c, n)
    PROVE  TruthInv'
<1> DEFINE a == attempt[c][n]
           kinds == ServerKinds(c)
<1>1. call' = call /\ server'.id = server.id
  <2>1. call' = call /\ (server' = server \/ server' = [server EXCEPT !.st = "draining"])
    BY Zenon DEF ServerStep, Arrive, Admit, Reject, Act, Succeed, Fail, HandlingTimeout, Cancel
  <2>2. QED  BY Zenon, <2>1, ServerAfter
<1>2. GoodAttempt(a, kinds) /\ KindsAreTold(kinds)
  BY Zenon, AllKindsAreTold DEF TruthInv, ServerKinds
<1>3. ASSUME NEW st, Become(c, n, st), a.st # "gone",
             st = "gone" \/ (st \in {"buffered", "running"} /\ a.st \in {"wire", "buffered"})
      PROVE  AttemptsGoOn
  <2>1. Touched(c, n) /\ attempt'[c][n] = [a EXCEPT !.st = st]
    BY Zenon, <1>3, TouchBecome DEF CallInv
  <2> HIDE DEF a, kinds
  <2>2. GoodAttempt(attempt'[c][n], kinds) /\ Persists(a, attempt'[c][n])
    BY Zenon, <1>2, <1>3, <2>1, GoodBecome
  <2>3. QED  BY Zenon, <2>1, <2>2, OneGoesOn DEF a, kinds
<1>4. ASSUME NEW reply, Answer(c, n, reply), a.st # "gone",
             is_success(reply.status) => a.handler # "none",
             reply.code \in NotDoneCodes(kinds) => a.handler = "none"
      PROVE  AttemptsGoOn
  <2>0. Answer(c, n, reply) /\ Shapes
    BY Zenon, <1>4 DEF CallInv
  <2>1. /\ Touched(c, n)
        /\ attempt'[c][n] = Answered(a, reply)
    BY Zenon, <2>0, TouchAnswer
  <2> HIDE DEF a, kinds
  <2>2. GoodAttempt(attempt'[c][n], kinds) /\ Persists(a, attempt'[c][n])
    BY Zenon, <1>2, <1>4, <2>1, GoodAnswer
  <2>3. QED  BY Zenon, <2>1, <2>2, OneGoesOn DEF a, kinds
<1>5. CASE Arrive(c, n)
  <2>1. a.st = "wire"
    BY Zenon, <1>5 DEF Arrive, Is
  <2>2. a.st # "gone" /\ a.handler = "none"
    <3>1. a.st # "gone"
      BY <2>1
    <3>2. QED  BY Zenon, <1>2, <2>1, <3>1 DEF GoodAttempt
  <2>3. \/ Answer(c, n, ForeignReply) \/ Answer(c, n, CommonReply("Rejection"))
        \/ Answer(c, n, CommonReply("AtCapacity")) \/ Become(c, n, "buffered")
    BY Zenon, <1>5 DEF Arrive
  <2>4. AttemptsGoOn
    BY Zenon, <1>3, <1>4, <2>1, <2>2, <2>3, Replies
  <2>5. QED  BY Zenon, <1>1, <2>4, TruthKept
<1>6. CASE Admit(c, n)
  <2>1. a.st = "buffered" /\ Become(c, n, "running")
    BY Zenon, <1>6 DEF Admit, Is
  <2>2. a.st # "gone"
    BY <2>1
  <2>3. AttemptsGoOn
    BY Zenon, <1>3, <2>1, <2>2
  <2>4. QED  BY Zenon, <1>1, <2>3, TruthKept
<1>7. CASE Reject(c, n)
  <2>1. a.st = "running" /\ Answer(c, n, CommonReply("Rejection"))
    BY Zenon, <1>7 DEF Reject, Is
  <2>2. a.st # "gone"
    BY <2>1
  <2>3. a.handler = "none"
    BY Zenon, <1>2, <2>1 DEF GoodAttempt
  <2>4. AttemptsGoOn
    BY Zenon, <1>4, <2>1, <2>2, <2>3, Replies
  <2>5. QED  BY Zenon, <1>1, <2>4, TruthKept
<1>8. CASE Act(c, n)
  <2>1. a.st = "running"
    BY Zenon, <1>8 DEF Act, Is
  <2>2. PICK handler \in Route(server.id, Endpoint(c).method, Endpoint(c).path) :
          Acts(c, n, handler)
    BY Zenon, <1>8 DEF Act, Acts
  <2>3. server.id \in DOMAIN Clients
    <3>1. server.id \in Servers
      BY DEF CallInv, Shapes
    <3>2. QED  BY Zenon, <3>1 DEF TruthHypotheses, ApiHypotheses
  <2>4. handler # "none"
    BY Zenon, <2>3, RoutesLead
  <2>5. /\ Touched(c, n)
        /\ attempt'[c][n] = TookEffect(a, handler)
    BY Zenon, <2>2, TouchAct DEF CallInv
  <2> HIDE DEF a, kinds
  <2>6. GoodAttempt(attempt'[c][n], kinds) /\ Persists(a, attempt'[c][n])
    BY Zenon, <1>2, <2>1, <2>4, <2>5, GoodAct
  <2>7. AttemptsGoOn
    BY Zenon, <2>5, <2>6, OneGoesOn DEF a, kinds
  <2>8. QED  BY Zenon, <1>1, <2>7, TruthKept
<1>9. CASE Succeed(c, n)
  <2>1. a.st = "acted" /\ Answer(c, n, OkReply)
    BY Zenon, <1>9 DEF Succeed, Is
  <2>2. a.st # "gone" /\ OkReply.code \in {0, 1, 4, 5, 6}
    BY <2>1, Replies
  <2>3. a.handler # "none" /\ OkReply.code \notin NotDoneCodes(kinds)
    BY Zenon, <1>2, <2>1, <2>2 DEF GoodAttempt, KindsAreTold
  <2>4. AttemptsGoOn
    BY Zenon, <1>4, <2>1, <2>2, <2>3
  <2>5. QED  BY Zenon, <1>1, <2>4, TruthKept
<1>10. CASE Fail(c, n)
  <2>1. PICK k \in HandlerKinds(c) : Answer(c, n, ErrorReply(kinds, <<k>>))
    BY Zenon, <1>10 DEF Fail
  <2>2. k \in DOMAIN kinds /\ k \notin NotDone
    BY Zenon, <2>1 DEF HandlerKinds, TruthHypotheses
  <2>3. a.st # "gone"
    BY <1>10 DEF Fail, Is
  <2>4. /\ ~is_success(ErrorReply(kinds, <<k>>).status)
        /\ ErrorReply(kinds, <<k>>).code \notin NotDoneCodes(kinds)
    BY Zenon, <1>2, <2>2, FailureReply
  <2>5. AttemptsGoOn
    BY Zenon, <1>4, <2>1, <2>3, <2>4
  <2>6. QED  BY Zenon, <1>1, <2>5, TruthKept
<1>11. CASE HandlingTimeout(c, n)
  <2>1. Answer(c, n, CommonReply("Server"))
    BY Zenon, <1>11 DEF HandlingTimeout
  <2>2. a.st # "gone" /\ CommonReply("Server").code \in {0, 1, 4, 5, 6}
    BY <1>11, Replies DEF HandlingTimeout, Is
  <2>3. CommonReply("Server").code \notin NotDoneCodes(kinds)
    BY Zenon, <1>2, <2>2 DEF KindsAreTold
  <2>4. AttemptsGoOn
    BY Zenon, <1>4, <2>1, <2>2, <2>3, Replies
  <2>5. QED  BY Zenon, <1>1, <2>4, TruthKept
<1>12. CASE Cancel(c, n)
  <2>1. Become(c, n, "gone")
    BY Zenon, <1>12 DEF Cancel
  <2>2. a.st # "gone"
    BY <1>12 DEF Cancel
  <2>3. AttemptsGoOn
    BY Zenon, <1>3, <2>1, <2>2
  <2>4. QED  BY Zenon, <1>1, <2>3, TruthKept
<1>13. QED
  BY Zenon, <1>5, <1>6, <1>7, <1>8, <1>9, <1>10, <1>11, <1>12 DEF ServerStep

(* The server shuts down, and drops what it was at. *)
LEMMA TruthShutdown ==
    ASSUME CallInv, TruthInv, BeginShutdown \/ Drained \/ HardShutdown
    PROVE  TruthInv'
<1>1. call' = call /\ (\/ server' = [server EXCEPT !.st = "draining"]
                       \/ server' = [server EXCEPT !.st = "down"])
  BY Zenon DEF BeginShutdown, Drained, HardShutdown
<1>2. server'.id = server.id
  BY Zenon, <1>1, ServerAfter
<1>3. CASE attempt' = attempt
  BY Zenon, <1>1, <1>2, <1>3, AllGoOn, TruthKept
<1>4. CASE HardShutdown
  <2>1. ASSUME NEW d \in Calls, NEW m \in Attempts
        PROVE  /\ GoodAttempt(attempt'[d][m], ServerKinds(d))
               /\ Persists(attempt[d][m], attempt'[d][m])
    <3>1. attempt'[d][m] = IF <<d, m>> \in AtWork THEN [attempt[d][m] EXCEPT !.st = "gone"]
                           ELSE attempt[d][m]
      BY Zenon, <1>4 DEF HardShutdown
    <3>2. GoodAttempt(attempt[d][m], ServerKinds(d))
      BY Zenon DEF TruthInv
    <3>3. CASE <<d, m>> \in AtWork
      <4>1. attempt[d][m].st \in {"buffered", "running", "acted"}
        BY <3>3 DEF AtWork, AtServer, Is
      <4>2. attempt[d][m].st # "gone"
        BY <4>1
      <4>3. QED  BY Zenon, <3>1, <3>2, <3>3, <4>2, GoodBecome
    <3>4. CASE <<d, m>> \notin AtWork
      BY Zenon, <3>1, <3>2, <3>4 DEF Persists
    <3>5. QED  BY Zenon, <3>3, <3>4
  <2>2. AttemptsGoOn
    BY Zenon, <2>1 DEF AttemptsGoOn
  <2>3. QED  BY Zenon, <1>1, <1>2, <2>2, TruthKept
<1>5. QED  BY Zenon, <1>3, <1>4 DEF BeginShutdown, Drained

(* What the client library makes of a failure on the way. *)
LEMMA LibraryCodes ==
    /\ CommonErrorKind[from_reqwest({})][1] = 1
    /\ CommonErrorKind[from_reqwest({"timeout"})][1] = 4
    /\ CommonErrorKind[from_reqwest({"decode"})][1] = 5
    /\ CommonErrorKind["Decode"][1] = 5
<1>1. /\ Len(ReqwestTraits) = 4
      /\ ReqwestTraits[1][1] = "builder" /\ ReqwestTraits[2][1] = "connect"
      /\ ReqwestTraits[3] = <<"timeout", "Timeout">> /\ ReqwestTraits[4] = <<"decode", "Decode">>
  BY DEF ReqwestTraits
<1>2. 1 .. Len(ReqwestTraits) = {1, 2, 3, 4}
  BY <1>1
<1>3. ASSUME NEW traits, NEW i \in {3, 4},
             {j \in 1 .. Len(ReqwestTraits) : ReqwestTraits[j][1] \in traits} = {i}
      PROVE  from_reqwest(traits) = ReqwestTraits[i][2]
  <2>1. (CHOOSE j \in {i} : \A k \in {i} : j <= k) = i
    OBVIOUS
  <2>2. QED  BY Zenon, <1>3, <2>1 DEF from_reqwest
<1>4. from_reqwest({}) = "UnknownReqwest"
  BY Zenon DEF from_reqwest
<1>5. /\ {j \in 1 .. Len(ReqwestTraits) : ReqwestTraits[j][1] \in {"timeout"}} = {3}
      /\ {j \in 1 .. Len(ReqwestTraits) : ReqwestTraits[j][1] \in {"decode"}} = {4}
  BY <1>1, <1>2
<1>6. from_reqwest({"timeout"}) = "Timeout" /\ from_reqwest({"decode"}) = "Decode"
  <2>1. from_reqwest({"timeout"}) = ReqwestTraits[3][2] /\ from_reqwest({"decode"}) = ReqwestTraits[4][2]
    BY Zenon, <1>3, <1>5
  <2>2. QED  BY <1>1, <2>1
<1>7. QED  BY <1>4, <1>6 DEF CommonErrorKind

(* The result that a call ends with. *)
LEMMA DoneResult ==
    ASSUME Shapes, NEW c \in Calls, NEW ok, NEW kind, Done(c, ok, kind)
    PROVE  call'[c].ok = ok /\ call'[c].kind = kind
<1> DEFINE e == [[[call[c] EXCEPT !.st = "done"] EXCEPT !.ok = ok] EXCEPT !.kind = kind]
<1>1. DOMAIN call[c] = Fields
  BY Zenon DEF Shapes
<1>2. e.ok = ok /\ e.kind = kind
  BY <1>1 DEF Fields
<1>3. call' = [call EXCEPT ![c] = e]
  BY Zenon DEF Done, Shapes
<1> HIDE DEF e
<1>4. call'[c] = e
  BY Zenon, <1>3 DEF Shapes
<1>5. QED  BY Zenon, <1>2, <1>4

(* The attempt that a client waits for. *)
LEMMA LastAttempt ==
    ASSUME ApiHypotheses, CallInv, NEW c \in Calls, call[c].st = "sending"
    PROVE  call[c].n \in Attempts
<1>1. call[c].st # "idle"
  OBVIOUS
<1>2. call[c].n \in Nat /\ call[c].n <= Retries + 1
  BY Zenon, <1>1, EndpointRetries
<1>3. call[c].n >= 1 /\ Retries \in Nat
  BY Zenon DEF CallInv, CallAt, ApiHypotheses
<1>4. QED  BY <1>2, <1>3 DEF Attempts

(* A call ends with a result that is true of its last attempt. *)
LEMMA TruthDone ==
    ASSUME ApiHypotheses, CallInv, TruthInv, NEW c \in Calls, call[c].st = "sending",
           server' = server, AttemptsGoOn, NEW ok \in BOOLEAN, NEW kind, Done(c, ok, kind),
           ok => Acted(c, call[c].n),
           ~ok /\ kind[1] \in NotDone =>
             attempt'[c][call[c].n].st = "gone" /\ attempt'[c][call[c].n].handler = "none"
    PROVE  TruthInv'
<1>1. Updated(c, "done", call[c].op, call[c].n, call[c].seen)
  BY Zenon, UpdateDone DEF CallInv
<1>2. call'[c].ok = ok /\ call'[c].kind = kind
  BY Zenon, DoneResult DEF CallInv
<1>3. call'[c].st = "done" /\ call'[c].op = call[c].op /\ call'[c].n = call[c].n
  BY Zenon, <1>1 DEF Updated
<1>4. call'[c].st # "idle"
  BY <1>3
<1>5. call[c].n \in Attempts
  BY Zenon, LastAttempt
<1>6. ok => attempt'[c][call[c].n].handler # "none"
  BY Zenon, <1>5 DEF AttemptsGoOn, Persists, Acted
<1>7. ResultAt(c)'
  BY Zenon, <1>2, <1>3, <1>4, <1>5, <1>6 DEF ResultAt, Acted, Is
<1>8. ASSUME NEW d \in Calls
      PROVE  ResultAt(d)' /\ ServerKinds(d)' = ServerKinds(d)
  <2>1. CASE d = c
    BY Zenon, <1>3, <1>7, <2>1 DEF ServerKinds
  <2>2. CASE d # c
    <3>1. call'[d] = call[d]
      BY Zenon, <1>1, <2>2 DEF Updated
    <3>2. QED  BY Zenon, <3>1, ResultKept DEF ServerKinds
  <2>3. QED  BY Zenon, <2>1, <2>2
<1>9. QED  BY Zenon, <1>8 DEF TruthInv, AttemptsGoOn

(* An attempt fails; the call is over, or waits to try again. *)
LEMMA TruthFailed ==
    ASSUME ApiHypotheses, CallInv, TruthInv, NEW c \in Calls, call[c].st = "sending",
           server' = server, AttemptsGoOn, NEW code, NEW common, Failed(c, code, common),
           code \in NotDoneCodes(ServerKinds(c)) =>
             attempt'[c][call[c].n].st = "gone" /\ attempt'[c][call[c].n].handler = "none"
    PROVE  TruthInv'
<1>1. CASE Done(c, FALSE, from_code(ClientKinds(c), code))
  <2> DEFINE kind == from_code(ClientKinds(c), code)
  <2>1. kind[1] \in NotDone =>
          attempt'[c][call[c].n].st = "gone" /\ attempt'[c][call[c].n].handler = "none"
    BY Zenon, KindHasItsCode
  <2>2. Done(c, FALSE, kind)
    BY Zenon, <1>1
  <2> HIDE DEF kind
  <2>3. QED  BY Zenon, <2>1, <2>2, TruthDone
<1>2. CASE call' = [call EXCEPT ![c].st = "backoff", ![c].seen = code]
  <2>1. Updated(c, "backoff", call[c].op, call[c].n, code)
    BY Zenon, <1>2, UpdateBackoff DEF CallInv
  <2>2. call'[c].st = "backoff" /\ call'[c].op = call[c].op
    BY Zenon, <2>1 DEF Updated
  <2>3. call'[c].st # "idle" /\ call'[c].st # "done"
    BY <2>2
  <2>4. ASSUME NEW d \in Calls
        PROVE  ResultAt(d)' /\ ServerKinds(d)' = ServerKinds(d)
    <3>1. CASE d = c
      BY Zenon, <2>2, <2>3, <3>1 DEF ServerKinds, ResultAt
    <3>2. CASE d # c
      <4>1. call'[d] = call[d]
        BY Zenon, <2>1, <3>2 DEF Updated
      <4>2. QED  BY Zenon, <4>1, ResultKept DEF ServerKinds
    <3>3. QED  BY Zenon, <3>1, <3>2
  <2>5. QED  BY Zenon, <2>4 DEF TruthInv, AttemptsGoOn
<1>3. QED  BY Zenon, <1>1, <1>2 DEF Failed

(* The client is done with an attempt. *)
LEMMA GoesOnGone ==
    ASSUME ApiHypotheses, CallInv, TruthInv, NEW c \in Calls, call[c].st = "sending",
           attempt[c][call[c].n].st # "gone", Become(c, call[c].n, "gone")
    PROVE  /\ AttemptsGoOn
           /\ attempt'[c][call[c].n].st = "gone"
           /\ attempt'[c][call[c].n].handler = attempt[c][call[c].n].handler
<1> DEFINE n == call[c].n
           a == attempt[c][n]
<1>1. n \in Attempts
  BY Zenon, LastAttempt
<1>2. Touched(c, n) /\ attempt'[c][n] = [a EXCEPT !.st = "gone"]
  BY Zenon, <1>1, TouchBecome DEF CallInv
<1>3. GoodAttempt(a, ServerKinds(c))
  BY Zenon, <1>1 DEF TruthInv
<1>4. a.st # "gone"
  OBVIOUS
<1>5. [a EXCEPT !.st = "gone"].st = "gone" /\ [a EXCEPT !.st = "gone"].handler = a.handler
  BY Zenon, <1>3, AssignAttempt DEF GoodAttempt
<1> HIDE DEF a
<1>6. GoodAttempt(attempt'[c][n], ServerKinds(c)) /\ Persists(a, attempt'[c][n])
  BY Zenon, <1>2, <1>3, <1>4, GoodBecome
<1> HIDE DEF n
<1>7. AttemptsGoOn
  BY Zenon, <1>1, <1>2, <1>6, OneGoesOn DEF a
<1>8. QED  BY Zenon, <1>2, <1>5, <1>7 DEF a, n

(* The client does not reach the server, or hears no more of it. *)
LEMMA TruthOnTheWay ==
    ASSUME ApiHypotheses, CallInv, TruthInv, NEW c \in Calls,
           CannotConnect(c) \/ ConnectionLost(c) \/ ClientTimeout(c) \/ Closed(c)
    PROVE  TruthInv'
<1>1. CASE CannotConnect(c)
  <2>1. call[c].st = "sending" /\ server' = server /\ Become(c, call[c].n, "gone")
    BY Zenon, <1>1 DEF CannotConnect
  <2>2. PICK traits : FailedWith(c, traits)
    BY Zenon, <1>1 DEF CannotConnect
  <2>3. attempt[c][call[c].n].st = "wire"
    BY Zenon, <1>1 DEF CannotConnect, Is
  <2>4. attempt[c][call[c].n].st # "gone"
    BY <2>3
  <2>5. attempt[c][call[c].n].handler = "none"
    BY Zenon, <2>1, <2>3, LastAttempt DEF TruthInv, GoodAttempt
  <2>6. /\ AttemptsGoOn
        /\ attempt'[c][call[c].n].st = "gone" /\ attempt'[c][call[c].n].handler = "none"
    BY Zenon, <2>1, <2>4, <2>5, GoesOnGone
  <2>7. QED  BY Zenon, <2>1, <2>2, <2>6, TruthFailed DEF FailedWith
<1>2. CASE ConnectionLost(c) \/ ClientTimeout(c) \/ Closed(c)
  <2>1. call[c].st = "sending" /\ server' = server /\ attempt' = attempt
    BY Zenon, <1>2 DEF ConnectionLost, ClientTimeout, Closed
  <2>2. PICK traits \in {{}, {"timeout"}} : FailedWith(c, traits)
    BY Zenon, <1>2 DEF ConnectionLost, ClientTimeout, Closed
  <2>3. CommonErrorKind[from_reqwest(traits)][1] \in {0, 1, 4, 5, 6}
    BY <2>2, LibraryCodes
  <2>4. CommonErrorKind[from_reqwest(traits)][1] \notin NotDoneCodes(ServerKinds(c))
    BY Zenon, <2>3, AllKindsAreTold DEF KindsAreTold, ServerKinds
  <2>5. QED  BY Zenon, <2>1, <2>2, <2>4, AllGoOn, TruthFailed DEF FailedWith
<1>3. QED  BY Zenon, <1>1, <1>2

(* The client is answered. *)
LEMMA TruthReceive ==
    ASSUME ApiHypotheses, CallInv, TruthInv, NEW c \in Calls, Receive(c)
    PROVE  TruthInv'
<1> DEFINE a == attempt[c][call[c].n]
<1>1. /\ call[c].st = "sending" /\ server' = server /\ Become(c, call[c].n, "gone")
      /\ a.st = "answered"
  BY Zenon DEF Receive, Is
<1>2. a.st # "gone"
  BY <1>1
<1>3. /\ AttemptsGoOn
      /\ attempt'[c][call[c].n].st = "gone" /\ attempt'[c][call[c].n].handler = a.handler
  BY Zenon, <1>1, <1>2, GoesOnGone
<1>4. /\ is_success(a.reply.status) => a.handler # "none"
      /\ a.reply.code \in NotDoneCodes(ServerKinds(c)) => a.handler = "none"
  BY Zenon, <1>1, LastAttempt DEF TruthInv, GoodAttempt
<1>5. CommonErrorKind["Decode"][1] = 5 /\ CommonErrorKind[from_reqwest({"decode"})][1] = 5
  BY Zenon, LibraryCodes
<1>6. 5 \notin NotDoneCodes(ServerKinds(c))
  BY Zenon, AllKindsAreTold DEF KindsAreTold, ServerKinds
<1>7. CASE is_success(a.reply.status) /\ Done(c, TRUE, <<>>)
  <2>1. Acted(c, call[c].n)
    BY Zenon, <1>4, <1>7 DEF Acted
  <2>2. QED  BY Zenon, <1>1, <1>3, <1>7, <2>1, TruthDone
<1>8. CASE Done(c, FALSE, from_common(ClientKinds(c), "Decode"))
  <2> DEFINE kind == from_common(ClientKinds(c), "Decode")
  <2>1. kind[1] \notin NotDone
    BY Zenon, <1>5, <1>6, KindHasItsCode DEF from_common
  <2>2. Done(c, FALSE, kind)
    BY Zenon, <1>8
  <2> HIDE DEF kind
  <2>3. QED  BY Zenon, <1>1, <1>3, <2>1, <2>2, TruthDone
<1>9. CASE Failed(c, a.reply.code, FALSE)
  BY Zenon, <1>1, <1>3, <1>4, <1>9, TruthFailed
<1>10. CASE FailedWith(c, {"decode"})
  <2>1. Failed(c, 5, TRUE)
    BY Zenon, <1>5, <1>10 DEF FailedWith
  <2>2. QED  BY Zenon, <1>1, <1>3, <1>6, <2>1, TruthFailed
<1>11. QED  BY Zenon, <1>7, <1>8, <1>9, <1>10 DEF Receive

(* Another attempt is sent, the first or a later one. *)
LEMMA TruthSent ==
    ASSUME TruthInv, NEW c \in Calls, NEW n \in Attempts, server' = server,
           Touched(c, n), attempt'[c][n] = OnWire,
           \A d \in Calls : d # c => call'[d] = call[d],
           call'[c].st = "sending",
           \/ call'[c].op = call[c].op
           \/ \A m \in Attempts : attempt[c][m] = Unsent
    PROVE  TruthInv'
<1>1. call'[c].st # "idle" /\ call'[c].st # "done"
  OBVIOUS
<1>2. ASSUME NEW m \in Attempts
      PROVE  GoodAttempt(attempt'[c][m], ServerKinds(c)')
  <2>1. CASE m = n
    BY Zenon, <2>1, NewAttempts
  <2>2. CASE m # n
    <3>1. attempt'[c][m] = attempt[c][m]
      BY Zenon, <2>2 DEF Touched
    <3>2. CASE call'[c].op = call[c].op
      <4>1. ServerKinds(c)' = ServerKinds(c)
        BY Zenon, <3>2 DEF ServerKinds
      <4>2. QED  BY Zenon, <3>1, <4>1 DEF TruthInv
    <3>3. CASE attempt[c][m] = Unsent
      BY Zenon, <3>1, <3>3, NewAttempts
    <3>4. QED  BY Zenon, <3>2, <3>3
  <2>3. QED  BY Zenon, <2>1, <2>2
<1>3. ASSUME NEW d \in Calls, d # c
      PROVE  /\ \A m \in Attempts : GoodAttempt(attempt'[d][m], ServerKinds(d)')
             /\ ResultAt(d)'
  <2>1. call'[d] = call[d] /\ \A m \in Attempts : attempt'[d][m] = attempt[d][m]
    BY Zenon, <1>3 DEF Touched
  <2>2. ServerKinds(d)' = ServerKinds(d)
    BY Zenon, <2>1 DEF ServerKinds
  <2>3. ResultAt(d)'
    <3>1. ResultAt(d)
      BY Zenon DEF TruthInv
    <3>2. call[d].n \in Attempts => attempt'[d][call[d].n] = attempt[d][call[d].n]
      BY Zenon, <2>1
    <3>3. QED  BY Zenon, <2>1, <3>1, <3>2 DEF ResultAt, Acted, Is
  <2>4. QED  BY Zenon, <2>1, <2>2, <2>3 DEF TruthInv
<1>4. ResultAt(c)'
  BY Zenon, <1>1 DEF ResultAt
<1>5. QED  BY Zenon, <1>2, <1>3, <1>4 DEF TruthInv

LEMMA TruthResend ==
    ASSUME ApiHypotheses, CallInv, TruthInv, NEW c \in Calls, Resend(c)
    PROVE  TruthInv'
<1>1. /\ call[c].st = "backoff" /\ server' = server
      /\ call' = [call EXCEPT ![c].st = "sending", ![c].n = @ + 1]
      /\ attempt' = [attempt EXCEPT ![c] = [attempt[c] EXCEPT ![call[c].n + 1] = OnWire]]
  BY Zenon DEF Resend, Send, CallInv, Shapes
<1>2. Updated(c, "sending", call[c].op, call[c].n + 1, call[c].seen)
  BY Zenon, <1>1, UpdateSend DEF CallInv
<1>3. call[c].st # "idle"
  BY <1>1
<1>4. /\ Endpoint(c).retries \in Nat /\ Endpoint(c).retries <= Retries /\ call[c].n \in Nat
      /\ call[c].n <= Endpoint(c).retries /\ Retries \in Nat
  BY Zenon, <1>1, <1>3, EndpointRetries DEF CallInv, CallAt, ApiHypotheses
<1>5. call[c].n + 1 \in Attempts
  BY <1>4 DEF Attempts
<1>6. Touched(c, call[c].n + 1) /\ attempt'[c][call[c].n + 1] = OnWire
  BY Zenon, <1>1, <1>5, Touch DEF CallInv
<1>7. /\ \A d \in Calls : d # c => call'[d] = call[d]
      /\ call'[c].st = "sending" /\ call'[c].op = call[c].op
  BY Zenon, <1>2 DEF Updated
<1>8. server' = server
  BY Zenon, <1>1
<1>9. QED  BY Zenon, <1>5, <1>6, <1>7, <1>8, TruthSent

(* A call that ends before it begins has no attempt to tell of. *)
LEMMA TruthStart ==
    ASSUME ApiHypotheses, CallInv, TruthInv, NEW c \in Calls, Start(c)
    PROVE  TruthInv'
<1>1. call[c].st = "idle" /\ server' = server
  BY Zenon DEF Start
<1>2. PICK op :
        \/ /\ call' = [call EXCEPT ![c].st = "sending", ![c].op = op, ![c].n = 1]
           /\ attempt' = [attempt EXCEPT ![c][1] = OnWire]
        \/ /\ \E kind : call' = [call EXCEPT ![c].st = "done", ![c].op = op, ![c].kind = kind]
           /\ attempt' = attempt
  BY Zenon DEF Start
<1>3. /\ call[c].n = 0 /\ ~call[c].ok
      /\ \A m \in Attempts : m > call[c].n => attempt[c][m] = Unsent
  BY Zenon, <1>1 DEF CallInv, CallAt, TruthInv, ResultAt
<1>4. (\A m \in Attempts : m > 0) /\ 1 \in Attempts
  BY DEF Attempts, ApiHypotheses
<1>5. \A m \in Attempts : attempt[c][m] = Unsent
  BY Zenon, <1>3, <1>4
<1>6. CASE /\ call' = [call EXCEPT ![c].st = "sending", ![c].op = op, ![c].n = 1]
           /\ attempt' = [attempt EXCEPT ![c][1] = OnWire]
  <2>1. Updated(c, "sending", op, 1, call[c].seen)
    BY Zenon, <1>6, UpdateStart DEF CallInv
  <2>2. attempt' = [attempt EXCEPT ![c] = [attempt[c] EXCEPT ![1] = OnWire]]
    BY Zenon, <1>6
  <2>3. Touched(c, 1) /\ attempt'[c][1] = OnWire
    BY Zenon, <1>4, <2>2, Touch DEF CallInv
  <2>4. QED  BY Zenon, <1>1, <1>4, <1>5, <2>1, <2>3, TruthSent DEF Updated
<1>7. ASSUME NEW kind, call' = [call EXCEPT ![c].st = "done", ![c].op = op, ![c].kind = kind],
             attempt' = attempt
      PROVE  TruthInv'
  <2>1. Updated(c, "done", op, call[c].n, call[c].seen)
    BY Zenon, <1>7, UpdateNotStarted DEF CallInv
  <2>2. ~call'[c].ok
    <3> DEFINE e == [[[call[c] EXCEPT !.st = "done"] EXCEPT !.op = op] EXCEPT !.kind = kind]
    <3>1. e.ok = call[c].ok
      BY DEF CallInv, Shapes, Fields
    <3>2. call' = [call EXCEPT ![c] = e]
      BY Zenon, <1>7 DEF CallInv, Shapes
    <3> HIDE DEF e
    <3>3. call'[c] = e
      BY Zenon, <3>2 DEF CallInv, Shapes
    <3>4. QED  BY Zenon, <1>3, <3>1, <3>3
  <2>3. call'[c].n = 0 /\ call'[c].st = "done"
    BY Zenon, <1>3, <2>1 DEF Updated
  <2>4. call'[c].st # "idle" /\ ~(call'[c].n > 0)
    BY <2>3
  <2>5. ResultAt(c)'
    BY Zenon, <2>2, <2>4 DEF ResultAt
  <2>6. \A m \in Attempts : GoodAttempt(attempt'[c][m], ServerKinds(c)')
    BY Zenon, <1>5, <1>7, NewAttempts
  <2>7. ASSUME NEW d \in Calls, d # c
        PROVE  /\ \A m \in Attempts : GoodAttempt(attempt'[d][m], ServerKinds(d)')
               /\ ResultAt(d)'
    <3>1. call'[d] = call[d]
      BY Zenon, <2>1, <2>7 DEF Updated
    <3>2. ServerKinds(d)' = ServerKinds(d)
      BY Zenon, <1>1, <3>1 DEF ServerKinds
    <3>3. QED  BY Zenon, <1>7, <3>1, <3>2 DEF TruthInv, ResultAt, Acted, Is
  <2>8. QED  BY Zenon, <2>5, <2>6, <2>7 DEF TruthInv
<1>8. QED  BY Zenon, <1>2, <1>6, <1>7

(* No call has a result. *)
LEMMA TruthInitial ==
    ASSUME Init
    PROVE  TruthInv
<1>1. Idle.st = "idle" /\ Idle.ok = FALSE
  BY DEF Idle
<1>2. ASSUME NEW c \in Calls
      PROVE  call[c] = Idle /\ \A m \in Attempts : attempt[c][m] = Unsent
  BY Zenon DEF Init
<1>3. Idle.st # "done" /\ ~Idle.ok
  BY <1>1
<1>4. QED  BY Zenon, <1>2, <1>3, NewAttempts DEF TruthInv, ResultAt

(* TruthInv is inductive, given CallInv. *)
LEMMA TruthInductive ==
    ASSUME TruthHypotheses, CallInv, TruthInv, [Next]_vars
    PROVE  TruthInv'
<1>1. ApiHypotheses
  BY Zenon DEF TruthHypotheses
<1>2. CASE UNCHANGED vars
  BY Zenon, <1>2, AllGoOn, TruthKept DEF vars
<1>3. CASE \E c \in Calls : ClientStep(c)
  BY Zenon, <1>1, <1>3, TruthStart, TruthOnTheWay, TruthReceive, TruthResend DEF ClientStep
<1>4. CASE \E c \in Calls : \E n \in Attempts : ServerStep(c, n)
  BY Zenon, <1>4, TruthServer
<1>5. CASE BeginShutdown \/ Drained \/ HardShutdown
  BY Zenon, <1>5, TruthShutdown
<1>6. QED  BY Zenon, <1>2, <1>3, <1>4, <1>5 DEF Next, Finished

(* What a caller may conclude from a call's result is true, however late   *)
(* its last attempt arrives, for any number of calls, retries and faults:  *)
(* a success means that the handler took effect, and an error that says    *)
(* that the request was not connected, rejected, refused for lack of       *)
(* capacity or not authenticated means that it did not and never will.     *)
THEOREM ResultsAreTrue ==
    ASSUME TruthHypotheses
    PROVE  Spec => []ResultIsTrue
<1>1. ApiHypotheses
  BY Zenon DEF TruthHypotheses
<1>2. Spec => []CallInv
  BY Zenon, <1>1, CallsInvariance
<1>3. Init => TruthInv
  BY Zenon, TruthInitial
<1>4. CallInv /\ TruthInv /\ [Next]_vars => TruthInv'
  BY Zenon, TruthInductive
<1>5. TruthInv => ResultIsTrue
  BY Zenon DEF TruthInv, ResultAt, ResultIsTrue
<1>6. QED  BY PTL, <1>2, <1>3, <1>4, <1>5 DEF Spec
=============================================================================
