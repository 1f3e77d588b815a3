------------------------------- MODULE ApiCalls -------------------------------
(***************************************************************************)
(* An API call from end to end: the client library with its timeout and     *)
(* retries (common/src/api/rest.rs), and the layers of the server library   *)
(* (common/src/api/server.rs): body limit, load shedding, buffer,           *)
(* concurrency limit, handling timeout, graceful and hard shutdown.         *)
(*                                                                          *)
(* A request that the client no longer waits for may still be on its way,   *)
(* queued or running at the server, which may or may not notice.  What a    *)
(* handler does is one effect, after which it answers.                      *)
(***************************************************************************)
EXTENDS ApiEndpoints, FiniteSets

CONSTANTS Calls,        \* calls made by clients
          Servers, Ops, \* the servers and endpoints that the instance looks at
          Failures,     \* kinds of error that handlers report, beside common ones
          StopCodes,    \* error codes on which a retried request stops
          ClientLacks,  \* kinds that are newer than the client
          BufferSize, Concurrency,   \* of the server's LayerConfig
          MaxFaults     \* bound on network faults

VARIABLES server,    \* which server, and whether it is up, draining or down
          call,      \* the caller's side of each call
          attempt,   \* attempt[c][n]: what became of the nth attempt
          faults

vars == <<server, call, attempt, faults>>

NoReply == [status |-> 0, json |-> FALSE, code |-> 0]
OkReply == [status |-> 200, json |-> TRUE, code |-> 0]
ErrorReply(kinds, kind) ==
  [status |-> to_http_status(kinds, kind), json |-> TRUE,
   code |-> to_code(kinds, kind)]
CommonReply(common) == ErrorReply(CommonErrorKind, <<common>>)

(* An HTTP error without an ErrorResponse in its body, from a proxy. *)
ForeignReply == [status |-> 502, json |-> FALSE, code |-> 0]

is_success(status) == status \in 200 .. 299

Idle == [st |-> "idle", op |-> "none", n |-> 0, seen |-> 0,
         ok |-> FALSE, kind |-> <<>>]
Unsent == [st |-> "unsent", handler |-> "none", reply |-> NoReply]
OnWire == [st |-> "wire", handler |-> "none", reply |-> NoReply]

Attempts == 1 .. Retries + 1

Init ==
  /\ server \in [id : Servers, st : {"up"}]
  /\ call = [c \in Calls |-> Idle]
  /\ attempt = [c \in Calls |-> [n \in Attempts |-> Unsent]]
  /\ faults = 0

Endpoint(c) == Clients[server.id][call[c].op]

ServerKinds(c) == KindsOf(server.id, call[c].op)
ClientKinds(c) == [k \in DOMAIN ServerKinds(c) \ ClientLacks |-> ServerKinds(c)[k]]

Is(c, n, st) == attempt[c][n].st = st
Become(c, n, st) == attempt' = [attempt EXCEPT ![c][n].st = st]
AtServer(st) == {a \in Calls \X Attempts : Is(a[1], a[2], st)}

Fault == faults < MaxFaults /\ faults' = faults + 1

-----------------------------------------------------------------------------
(* The client. *)
Done(c, ok, kind) ==
  call' = [call EXCEPT ![c].st = "done", ![c].ok = ok, ![c].kind = kind]

Send(c) ==
  /\ call' = [call EXCEPT ![c].st = "sending", ![c].n = @ + 1]
  /\ attempt' = [attempt EXCEPT ![c][call[c].n + 1] = OnWire]

Start(c) ==
  /\ call[c].st = "idle"
  /\ \E op \in Ops \cap DOMAIN Clients[server.id] :
       \/ /\ call' = [call EXCEPT ![c].st = "sending", ![c].op = op, ![c].n = 1]
          /\ attempt' = [attempt EXCEPT ![c][1] = OnWire]
       \/ \* the request cannot be built or serialized
          /\ call' = [call EXCEPT ![c].st = "done", ![c].op = op,
                        ![c].kind = from_common(KindsOf(server.id, op), "Building")]
          /\ UNCHANGED attempt
       \/ \* ensure_authed: the gateway issues no token for the proxy
          /\ server.id \in {"app", "provision"}
          /\ call' = [call EXCEPT ![c].st = "done", ![c].op = op,
                                  ![c].kind = <<"BadAuth">>]
          /\ UNCHANGED attempt
  /\ UNCHANGED <<server, faults>>

(* An attempt has failed with an error code, which is one of the API that   *)
(* the server answered, or a common one of the client library.              *)

Failed(c, code, common) ==
  IF call[c].n > Endpoint(c).retries \/ code \in StopCodes
  THEN Done(c, FALSE, from_code(ClientKinds(c), code))
  ELSE call' = [call EXCEPT ![c].st = "backoff", ![c].seen = code]

FailedWith(c, traits) ==
  Failed(c, CommonErrorKind[from_reqwest(traits)][1], TRUE)

(* No connection: the server is down or refuses new ones, or the network   *)
(* does not carry it, which may take until the timeout.                     *)
CannotConnect(c) ==
  /\ call[c].st = "sending" /\ Is(c, call[c].n, "wire")
  /\ IF server.st = "up" THEN Fault ELSE UNCHANGED faults
  /\ \E traits \in {{"connect"}, {"connect", "timeout"}} : FailedWith(c, traits)
  /\ Become(c, call[c].n, "gone")
  /\ UNCHANGED server

(* The connection breaks; the server may not notice. *)
ConnectionLost(c) ==
  /\ call[c].st = "sending" /\ Fault
  /\ FailedWith(c, {})
  /\ UNCHANGED <<server, attempt>>

(* API_REQUEST_TIMEOUT; the request stays wherever it is. *)
ClientTimeout(c) ==
  /\ call[c].st = "sending"
  /\ FailedWith(c, {"timeout"})
  /\ UNCHANGED <<server, attempt, faults>>

Receive(c) ==
  /\ call[c].st = "sending" /\ Is(c, call[c].n, "answered")
  /\ LET reply == attempt[c][call[c].n].reply IN
       \/ is_success(reply.status) /\ Done(c, TRUE, <<>>)
       \/ \* convert_rest_response: the body does not deserialize
          /\ is_success(reply.status)
          /\ Done(c, FALSE, from_common(ClientKinds(c), "Decode"))
       \/ /\ ~is_success(reply.status) /\ reply.json
          /\ Failed(c, reply.code, FALSE)
       \/ /\ ~is_success(reply.status) /\ ~reply.json
          /\ FailedWith(c, {"decode"})
  /\ Become(c, call[c].n, "gone")
  /\ UNCHANGED <<server, faults>>

Resend(c) ==
  /\ call[c].st = "backoff"
  /\ Send(c)
  /\ UNCHANGED <<server, faults>>

-----------------------------------------------------------------------------
(* The server. *)
Answer(c, n, reply) ==
  attempt' = [attempt EXCEPT ![c][n].st = "answered", ![c][n].reply = reply]

(* A request arrives: a gateway proxy may answer it instead; its header     *)
(* shows a body over the limit; the service is full; or it is buffered.     *)
Arrive(c, n) ==
  /\ server.st = "up" /\ Is(c, n, "wire")
  /\ \/ Answer(c, n, ForeignReply) /\ Fault
     \/ Answer(c, n, CommonReply("Rejection")) /\ UNCHANGED faults
     \/ /\ IF Cardinality(AtServer("buffered")) >= BufferSize
           THEN Answer(c, n, CommonReply("AtCapacity"))
           ELSE Become(c, n, "buffered")
        /\ UNCHANGED faults
  /\ UNCHANGED <<server, call>>

Admit(c, n) ==
  /\ Is(c, n, "buffered") /\ server.st # "down"
  /\ Cardinality(AtServer("running") \cup AtServer("acted")) < Concurrency
  /\ Become(c, n, "running")
  /\ UNCHANGED <<server, call, faults>>

(* The extractors refuse the request, or no route matches. *)
Reject(c, n) ==
  /\ Is(c, n, "running") /\ server.st # "down"
  /\ Answer(c, n, CommonReply("Rejection"))
  /\ UNCHANGED <<server, call, faults>>

(* The handler takes effect; that of the shutdown endpoint begins the       *)
(* graceful shutdown of the server it runs on.                              *)
Act(c, n) ==
  /\ Is(c, n, "running") /\ server.st # "down"
  /\ \E handler \in Route(server.id, Endpoint(c).method, Endpoint(c).path) :
       /\ attempt' = [attempt EXCEPT ![c][n].st = "acted",
                                     ![c][n].handler = handler]
       /\ IF handler = "shutdown" /\ server.st = "up"
          THEN server' = [server EXCEPT !.st = "draining"]
          ELSE UNCHANGED server
  /\ UNCHANGED <<call, faults>>

Succeed(c, n) ==
  /\ Is(c, n, "acted") /\ server.st # "down"
  /\ Answer(c, n, OkReply)
  /\ UNCHANGED <<server, call, faults>>

(* A handler may fail before its effect, or after it. *)
HandlerKinds(c) == Failures \cap DOMAIN ServerKinds(c)

Fail(c, n) ==
  /\ Is(c, n, "running") \/ Is(c, n, "acted")
  /\ server.st # "down"
  /\ \E k \in HandlerKinds(c) :
       Answer(c, n, ErrorReply(ServerKinds(c), <<k>>))
  /\ UNCHANGED <<server, call, faults>>

(* TimeoutLayer: the handler is dropped. *)
MutTimeoutIsCapacity(c, n) ==
  /\ Is(c, n, "running") \/ Is(c, n, "acted")
  /\ server.st # "down"
  /\ Answer(c, n, CommonReply("AtCapacity"))
  /\ UNCHANGED <<server, call, faults>>

HandlingTimeout(c, n) ==
  /\ Is(c, n, "running") \/ Is(c, n, "acted")
  /\ server.st # "down"
  /\ Answer(c, n, CommonReply("Server"))
  /\ UNCHANGED <<server, call, faults>>

(* The server notices that the client has left, and drops the request. *)
Cancel(c, n) ==
  /\ ~(call[c].st = "sending" /\ call[c].n = n)
  /\ attempt[c][n].st \in {"wire", "buffered", "running", "acted", "answered"}
  /\ Become(c, n, "gone")
  /\ UNCHANGED <<server, call, faults>>

(* graceful_shutdown_fut: new connections are refused. *)
BeginShutdown ==
  /\ server.st = "up"
  /\ server' = [server EXCEPT !.st = "draining"]
  /\ UNCHANGED <<call, attempt, faults>>

AtWork == AtServer("buffered") \cup AtServer("running") \cup AtServer("acted")

(* All clients have closed their connections, or the grace period is over   *)
(* and the connections are closed with whatever runs on them.               *)
Drained ==
  /\ server.st = "draining" /\ AtWork = {}
  /\ server' = [server EXCEPT !.st = "down"]
  /\ UNCHANGED <<call, attempt, faults>>

MutWaitForConnections ==
  /\ server.st = "draining" /\ AtWork = {} /\ \A c \in Calls : call[c].st = "done"
  /\ server' = [server EXCEPT !.st = "down"]
  /\ UNCHANGED <<call, attempt, faults>>

HardShutdown ==
  /\ server.st = "draining"
  /\ server' = [server EXCEPT !.st = "down"]
  /\ attempt' = [c \in Calls |-> [n \in Attempts |->
       IF <<c, n>> \in AtWork THEN [attempt[c][n] EXCEPT !.st = "gone"]
       ELSE attempt[c][n]]]
  /\ UNCHANGED <<call, faults>>

(* The server dropped the request, and the client sees its connection close. *)
Closed(c) ==
  /\ call[c].st = "sending" /\ Is(c, call[c].n, "gone")
  /\ FailedWith(c, {})
  /\ UNCHANGED <<server, attempt, faults>>

Finished ==
  /\ \A c \in Calls : call[c].st = "done"
  /\ UNCHANGED vars

ClientStep(c) ==
  \/ Start(c) \/ CannotConnect(c) \/ ConnectionLost(c) \/ ClientTimeout(c)
  \/ Receive(c) \/ Closed(c) \/ Resend(c)

ServerStep(c, n) ==
  \/ Arrive(c, n) \/ Admit(c, n) \/ Reject(c, n) \/ Act(c, n) \/ Succeed(c, n)
  \/ Fail(c, n) \/ HandlingTimeout(c, n) \/ Cancel(c, n)

Next ==
  \/ \E c \in Calls : ClientStep(c) \/ \E n \in Attempts : ServerStep(c, n)
  \/ BeginShutdown \/ Drained \/ HardShutdown
  \/ Finished

Spec == Init /\ [][Next]_vars

(* Timers fire: the client's timeout and backoff, the server's handling     *)
(* timeout and grace period.  Nothing is assumed of handlers, of the        *)
(* network or of clients closing their connections.                         *)
Fairness ==
  /\ \A c \in Calls : WF_vars(ClientTimeout(c)) /\ WF_vars(Resend(c))
  /\ WF_vars(HardShutdown)

FairSpec == Spec /\ Fairness

-----------------------------------------------------------------------------
Kinds == {<<>>} \cup {<<k>> : k \in UNION {DOMAIN ErrorKinds[a] : a \in Apis}}
               \cup {<<"Unknown", code>> : code \in 0 .. 255}

TypeOK ==
  /\ server \in [id : Servers, st : {"up", "draining", "down"}]
  /\ \A c \in Calls :
       /\ call[c].st \in {"idle", "sending", "backoff", "done"}
       /\ call[c].op \in {"none"} \cup DOMAIN Clients[server.id]
       /\ call[c].n \in 0 .. Retries + 1 /\ call[c].seen \in ErrorCode
       /\ call[c].ok \in BOOLEAN /\ call[c].kind \in Kinds
       /\ \A n \in Attempts :
            /\ attempt[c][n].st \in {"unsent", "wire", "buffered", "running",
                                     "acted", "answered", "gone"}
            /\ attempt[c][n].reply.code \in ErrorCode
  /\ Cardinality(AtServer("buffered")) <= BufferSize
  /\ Cardinality(AtServer("running") \cup AtServer("acted")) <= Concurrency
  /\ faults \in 0 .. MaxFaults

Acted(c, n) == attempt[c][n].handler # "none"
NotDone == {"Building", "Connect", "Rejection", "AtCapacity", "BadAuth"}

(* What a caller may conclude from a call's result.  A success means that   *)
(* the handler took effect in the last attempt.  An error that says that    *)
(* the request was not built, not connected, rejected, refused for lack of  *)
(* capacity or not authenticated means that the last attempt has no effect, *)
(* and will not have one, however late it arrives.                          *)
ResultIsTrue ==
  \A c \in Calls : call[c].st = "done" =>
    /\ call[c].ok => Acted(c, call[c].n)
    /\ ~call[c].ok /\ call[c].n > 0 /\ call[c].kind[1] \in NotDone =>
         ~Acted(c, call[c].n)

(* Only requests that are idempotent are retried: whatever times out, is    *)
(* lost or refused, a request that creates, pays or sends takes effect at   *)
(* most once per call.                                                      *)
Idempotent(c) ==
  Endpoint(c).method \in {"GET", "PUT", "DELETE"} \/ call[c].op = "bearer_auth"

AtMostOnce ==
  \A c \in Calls : call[c].st # "idle" /\ ~Idempotent(c) =>
    \A m, n \in Attempts : Acted(c, m) /\ Acted(c, n) => m = n

(* A request is handled by the endpoint that the client meant. *)
ReachesItsHandler ==
  \A c \in Calls : \A n \in Attempts :
    Acted(c, n) =>
      attempt[c][n].handler =
        IF call[c].op = "upsert_file_with_retries" THEN "upsert_file"
        ELSE call[c].op

(* The app's requests are those that the trait AppNodeRunApi documents. *)
CalledAsDocumented ==
  \A c \in Calls : server.id = "app" /\ call[c].st # "idle" =>
    <<Endpoint(c).method, Endpoint(c).path, call[c].op>> \in AppNodeRunApi

(* The kind that the caller sees has the code that the server sent, or that *)
(* of the client library's error, also where the client is older than the   *)
(* server.  It is unknown only if the client lacks it, and a common kind is *)
(* never unknown.                                                           *)
KindSurvives ==
  \A c \in Calls : call[c].st = "done" /\ ~call[c].ok =>
    LET code == to_code(ClientKinds(c), call[c].kind)
        n == call[c].n
    IN /\ n > 0 /\ attempt[c][n].reply.code # 0 =>
            \/ code = attempt[c][n].reply.code
            \/ from_code(ServerKinds(c), code)[1] \in {"Timeout", "UnknownReqwest"}
       /\ call[c].kind[1] = "Unknown" =>
            \E k \in ClientLacks \cap DOMAIN ServerKinds(c) :
              to_code(ServerKinds(c), <<k>>) = code

(* A code on which the caller asked to stop is never followed by another    *)
(* attempt, whether the server sent it or the client library found it.      *)
StopsAtStopCodes ==
  \A c \in Calls : call[c].st \in {"backoff", "sending"} =>
    call[c].seen \notin StopCodes

(* Every call ends, although handlers may hang, replies get lost and the    *)
(* server goes away.                                                        *)
CallsEnd == \A c \in Calls : call[c].st # "idle" ~> call[c].st = "done"

(* A server that begins to shut down is down after the grace period, also   *)
(* if clients keep their connections or handlers hang.                      *)
ServerEnds == server.st = "draining" ~> server.st = "down"
=============================================================================
