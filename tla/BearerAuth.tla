----------------------------- MODULE BearerAuth -----------------------------
(***************************************************************************)
(* The BearerAuthenticator (common/src/api/auth.rs) and its use by the     *)
(* app's NodeClient (common/src/client.rs), whose proxy callback reads the *)
(* cached token when a connection is made, after ensure_authed.  The       *)
(* auth server is external: it refuses requests with an old timestamp and  *)
(* issues tokens that live for Lifetime by its own clock, which is ours.   *)
(***************************************************************************)
EXTENDS Integers, Sequences

CONSTANTS
    Callers,
    Lifetime,     \* DEFAULT_USER_TOKEN_LIFETIME_SECS
    Margin,       \* the 15 seconds that are taken off the expiration
    Timeout,      \* API_REQUEST_TIMEOUT: a connection is made within it
    AuthTimeout,  \* an auth request, with its retries if it has any, takes no longer
    MaxSkew,      \* the age of a timestamp that the server accepts
    MaxTime,      \* bound: the clock
    MaxFaults,    \* bound: failed auth requests
    None

AuthAssumption ==
    /\ {Lifetime, Margin, Timeout, AuthTimeout, MaxSkew, MaxTime, MaxFaults} \subseteq Nat
    /\ Timeout <= Margin /\ Margin < Lifetime

VARIABLES
    now,
    expiry,    \* server: when each token expires
    cached,    \* cached_auth_token: [token, expiration] or None
    queue,     \* auth_lock: its holder, then those who wait, in order
    req,       \* per caller: [pc, now: its argument, at: when its request was sent, token]
    faults

vars == <<now, expiry, cached, queue, req, faults>>

IdleCaller == [pc |-> "idle", now |-> 0, at |-> 0, token |-> 0]
Authing == {c \in Callers : req[c].pc \in {"auth", "issued"}}

TypeOK ==
    /\ now \in 0..MaxTime /\ expiry \in Seq(Nat) /\ faults \in 0..MaxFaults
    /\ cached = None \/ cached \in [token : 1..Len(expiry), expiration : Nat]
    /\ queue \in Seq(Callers)
    /\ \A c \in Callers :
          /\ req[c].pc \in {"idle", "lock", "auth", "issued", "connect"}
          /\ req[c].now \in 0..MaxTime /\ req[c].at \in 0..MaxTime
          /\ req[c].pc \in {"lock", "auth", "issued"} <=> \E i \in 1..Len(queue) : queue[i] = c

Init ==
    /\ now = 0 /\ expiry = <<>> /\ cached = None /\ queue = <<>>
    /\ req = [c \in Callers |-> IdleCaller] /\ faults = 0

(* Time passes while every request may still be under way, and nobody can  *)
(* take the lock: the runtime polls who can run without delay.             *)
Tick ==
    /\ now < MaxTime /\ now' = now + 1
    /\ queue # <<>> => req[Head(queue)].pc # "lock"
    /\ \A c \in Callers : req[c].pc = "connect" => now - req[c].at < Timeout
    /\ \A c \in Authing : now - req[c].at < AuthTimeout
    /\ UNCHANGED <<expiry, cached, queue, req, faults>>

(* ensure_authed reads the clock, and get_token queues for the lock. *)
Call(c) ==
    /\ req[c].pc = "idle"
    /\ req' = [req EXCEPT ![c].pc = "lock", ![c].now = now]
    /\ queue' = Append(queue, c)
    /\ UNCHANGED <<now, expiry, cached, faults>>

IsFresh(c) == cached # None /\ cached.expiration > req[c].now

(* get_token under the lock: a cached token that is fresh for the caller's *)
(* now, or an auth request with that now as its timestamp.                 *)
GetToken(c) ==
    /\ req[c].pc = "lock" /\ Head(queue) = c
    /\ IF IsFresh(c)
       THEN /\ req' = [req EXCEPT ![c] = [IdleCaller EXCEPT !.pc = "connect", !.at = now]]
            /\ queue' = Tail(queue)
       ELSE /\ req' = [req EXCEPT ![c].pc = "auth", ![c].at = now]
            /\ UNCHANGED queue
    /\ UNCHANGED <<now, expiry, cached, faults>>

ServerIssues(c) ==
    /\ req[c].pc = "auth" /\ now - req[c].now <= MaxSkew
    /\ expiry' = Append(expiry, now + Lifetime)
    /\ req' = [req EXCEPT ![c].pc = "issued", ![c].token = Len(expiry) + 1]
    /\ UNCHANGED <<now, cached, queue, faults>>

(* MUTANT of Expiration: the whole lifetime, from the reply on. *)
MutExpirationFromReply(c) == now + Lifetime

(* authenticate: reckoned from the caller's now, less the margin. *)
Expiration(c) == req[c].now + Lifetime - Margin

Authenticated(c) ==
    /\ req[c].pc = "issued"
    /\ cached' = [token |-> req[c].token, expiration |-> Expiration(c)]
    /\ queue' = Tail(queue)
    /\ req' = [req EXCEPT ![c] = [IdleCaller EXCEPT !.pc = "connect", !.at = now]]
    /\ UNCHANGED <<now, expiry, faults>>

(* The request fails, times out or is refused; the lock is released. *)
AuthFails(c) ==
    /\ c \in Authing
    /\ IF now - req[c].now > MaxSkew THEN UNCHANGED faults
       ELSE faults < MaxFaults /\ faults' = faults + 1
    /\ req' = [req EXCEPT ![c] = IdleCaller]
    /\ queue' = Tail(queue)
    /\ UNCHANGED <<now, expiry, cached>>

(* The proxy callback takes whatever is cached. *)
Connect(c) ==
    /\ req[c].pc = "connect" /\ req' = [req EXCEPT ![c] = IdleCaller]
    /\ UNCHANGED <<now, expiry, cached, queue, faults>>

Next ==
    \/ Tick
    \/ \E c \in Callers :
          \/ Call(c) \/ GetToken(c) \/ ServerIssues(c) \/ Authenticated(c)
          \/ AuthFails(c) \/ Connect(c)

Spec == Init /\ [][Next]_vars

-----------------------------------------------------------------------------
(* Properties                                                              *)

(* client.rs, "be diligent about calling ensure_authed": the token that    *)
(* the proxy callback finds, up to a timeout after get_token returned and  *)
(* perhaps not the one it returned, exists and is alive.                   *)
ProxyTokenIsAlive ==
    \A c \in Callers : req[c].pc = "connect" => cached # None /\ expiry[cached.token] > now

(* The callers that race to authenticate share one request: none is under  *)
(* way while a token is cached that its caller would accept.               *)
AuthIsShared == \A c \in Authing : ~IsFresh(c)

(* The timestamp of a request was taken before its caller queued for the   *)
(* lock, behind others whose requests may time out; it is still recent     *)
(* enough for the server while the request is under way.                   *)
TimestampIsFresh == \A c \in Authing : now - req[c].now <= MaxSkew

(* What was fresh when it was checked is valid when it is used: the token  *)
(* that the proxy finds is alive, a timestamp that aged in the queue for   *)
(* the lock is recent enough for the server, and nobody authenticates      *)
(* while a token is cached that would do (auth.rs, client.rs).             *)
FreshWhenUsed ==
    TypeOK /\ ProxyTokenIsAlive /\ TimestampIsFresh /\ AuthIsShared
=============================================================================
