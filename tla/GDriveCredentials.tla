------------------------- MODULE GDriveCredentials --------------------------
(***************************************************************************)
(* The OAuth2 credentials of the Google Drive client: the exchange of the  *)
(* auth code (gdrive/src/oauth2.rs), the refresh before every request      *)
(* (oauth2.rs, api.rs), and the task of the node that persists refreshed   *)
(* credentials (node/src/run.rs).  Google is external: it issues tokens    *)
(* that live for Lifetime from the moment it issues them.                  *)
(***************************************************************************)
EXTENDS Integers, Sequences

CONSTANTS
    Clients,        \* tasks that send requests to Google Drive
    Lifetime,       \* expires_in
    MinLifetime,    \* MINIMUM_TOKEN_LIFETIME
    Timeout,        \* API_REQUEST_TIMEOUT: no request takes longer
    MaxTime,        \* bound: the clock
    MaxFaults,      \* bound: failed requests and crashes
    None

Credentials == [token : Nat, expires_at : Nat]

TimesAssumption ==
    /\ {Lifetime, MinLifetime, Timeout, MaxTime} \subseteq Nat
    /\ MinLifetime < Lifetime

(* A refresh and a request fit into the minimum lifetime: 15 and 60 s. *)
TimeoutIsShort == 2 * Timeout <= MinLifetime

NoneIsNoValue == None \notin Credentials \cup Clients

VARIABLES
    now,
    expiry,    \* Google: when each issued token really expires
    code,      \* the exchange of the auth code: [pc, at]
    stored,    \* the credentials in Lexe's DB, or None
    cred,      \* the credentials under the mutex of the client, None while down
    holder,    \* who holds the mutex
    req,       \* per client: [pc, at, token]
    chan,      \* the watch channel: credentials, and whether the persister saw them
    task,      \* the credentials persister: what it persists, or None
    faults

vars == <<now, expiry, code, stored, cred, holder, req, chan, task, faults>>

IdleReq == [pc |-> "idle", at |-> 0, token |-> 0]

TypeOK ==
    /\ now \in 0..MaxTime /\ expiry \in Seq(Nat)
    /\ code.pc \in {"none", "sent", "issued", "done"} /\ code.at \in 0..MaxTime
    /\ stored \in Credentials \cup {None} /\ cred \in Credentials \cup {None}
    /\ holder \in Clients \cup {None}
    /\ \A c \in Clients :
          /\ req[c].pc \in {"idle", "lock", "refresh", "issued", "send"}
          /\ (req[c].pc \in {"refresh", "issued"}) = (holder = c)
          /\ req[c].token \in 0..Len(expiry)
    /\ chan.seen \in BOOLEAN /\ chan.value \in Credentials \cup {None}
    /\ task \in Credentials \cup {None} /\ faults \in 0..MaxFaults

Init ==
    /\ now = 0 /\ expiry = <<>> /\ code = [pc |-> "none", at |-> 0]
    /\ stored = None /\ cred = None /\ holder = None
    /\ req = [c \in Clients |-> IdleReq]
    /\ chan = [seen |-> TRUE, value |-> None] /\ task = None /\ faults = 0

Fault == faults < MaxFaults /\ faults' = faults + 1

(* Time passes while no request is older than its timeout. *)
Tick ==
    /\ now < MaxTime /\ now' = now + 1
    /\ code.pc \in {"sent", "issued"} => now - code.at < Timeout
    /\ \A c \in Clients : req[c].pc \in {"refresh", "issued", "send"} => now - req[c].at < Timeout
    /\ UNCHANGED <<expiry, code, stored, cred, holder, req, chan, task, faults>>

-----------------------------------------------------------------------------
(* Provisioning: the auth code is exchanged, the credentials persisted.    *)

SendAuthCode ==
    /\ code.pc = "none" /\ code' = [pc |-> "sent", at |-> now]
    /\ UNCHANGED <<now, expiry, stored, cred, holder, req, chan, task, faults>>

GoogleGrants ==
    /\ code.pc = "sent" /\ code' = [code EXCEPT !.pc = "issued"]
    /\ expiry' = Append(expiry, now + Lifetime)
    /\ UNCHANGED <<now, stored, cred, holder, req, chan, task, faults>>

(* expires_at is reckoned from the time of the reply. *)
auth_code_for_token ==
    /\ code.pc = "issued" /\ code' = [pc |-> "done", at |-> 0]
    /\ stored' = [token |-> Len(expiry), expires_at |-> now + Lifetime]
    /\ UNCHANGED <<now, expiry, cred, holder, req, chan, task, faults>>

-----------------------------------------------------------------------------
(* The node: GDriveClient::new marks the initial value as seen.            *)

Boot ==
    /\ stored # None /\ cred = None
    /\ cred' = stored /\ chan' = [seen |-> TRUE, value |-> stored]
    /\ UNCHANGED <<now, expiry, code, stored, holder, req, task, faults>>

Call(c) ==
    /\ cred # None /\ req[c].pc = "idle"
    /\ req' = [req EXCEPT ![c].pc = "lock"]
    /\ UNCHANGED <<now, expiry, code, stored, cred, holder, chan, task, faults>>

(* MUTANT of IsFresh: a token is used until it expires. *)
MutNoMargin(credentials) == credentials.expires_at > now

(* refresh_if_necessary *)
IsFresh(credentials) == credentials.expires_at > now + MinLifetime

(* send_no_deserialize takes the mutex.  A fresh token is copied into the  *)
(* request and the mutex released; otherwise it is held for the refresh.   *)
Lock(c) ==
    /\ cred # None /\ req[c].pc = "lock" /\ holder = None
    /\ IF IsFresh(cred)
       THEN /\ req' = [req EXCEPT ![c] = [pc |-> "send", at |-> now, token |-> cred.token]]
            /\ UNCHANGED holder
       ELSE /\ req' = [req EXCEPT ![c].pc = "refresh", ![c].at = now]
            /\ holder' = c
    /\ UNCHANGED <<now, expiry, code, stored, cred, chan, task, faults>>

GoogleRefreshes(c) ==
    /\ req[c].pc = "refresh"
    /\ expiry' = Append(expiry, now + Lifetime)
    /\ req' = [req EXCEPT ![c].pc = "issued", ![c].token = Len(expiry) + 1]
    /\ UNCHANGED <<now, code, stored, cred, holder, chan, task, faults>>

(* refresh: expires_at is reckoned from before the request.  The channel   *)
(* gets the new credentials, the request its token.                        *)
RefreshDone(c) ==
    LET new == [token |-> req[c].token, expires_at |-> req[c].at + Lifetime] IN
    /\ req[c].pc = "issued"
    /\ cred' = new /\ chan' = [seen |-> FALSE, value |-> new] /\ holder' = None
    /\ req' = [req EXCEPT ![c].pc = "send", ![c].at = now]
    /\ UNCHANGED <<now, expiry, code, stored, task, faults>>

RefreshFails(c) ==
    /\ req[c].pc \in {"refresh", "issued"} /\ Fault
    /\ holder' = None /\ req' = [req EXCEPT ![c] = IdleReq]
    /\ UNCHANGED <<now, expiry, code, stored, cred, chan, task>>

(* The request reaches Google, and is answered. *)
GoogleAnswers(c) ==
    /\ req[c].pc = "send" /\ req' = [req EXCEPT ![c] = IdleReq]
    /\ UNCHANGED <<now, expiry, code, stored, cred, holder, chan, task, faults>>

-----------------------------------------------------------------------------
(* The credentials persister task.                                         *)

(* credentials_rx.changed(), then borrow_and_update. *)
CredentialsChanged ==
    /\ task = None /\ ~chan.seen
    /\ task' = chan.value /\ chan' = [chan EXCEPT !.seen = TRUE]
    /\ UNCHANGED <<now, expiry, code, stored, cred, holder, req, faults>>

PersistDone ==
    /\ task # None /\ stored' = task /\ task' = None
    /\ UNCHANGED <<now, expiry, code, cred, holder, req, chan, faults>>

(* A failed persist is only logged. *)
PersistFails ==
    /\ task # None /\ Fault /\ task' = None
    /\ UNCHANGED <<now, expiry, code, stored, cred, holder, req, chan>>

(* The node stops, or the task sees the shutdown signal first. *)
Crash ==
    /\ cred # None /\ Fault
    /\ cred' = None /\ holder' = None /\ task' = None
    /\ req' = [c \in Clients |-> IdleReq]
    /\ chan' = [seen |-> TRUE, value |-> None]
    /\ UNCHANGED <<now, expiry, code, stored>>

Replies(c) == Lock(c) \/ GoogleRefreshes(c) \/ RefreshDone(c) \/ GoogleAnswers(c)
Persister  == CredentialsChanged \/ PersistDone

Next ==
    \/ Tick \/ SendAuthCode \/ GoogleGrants \/ auth_code_for_token \/ Boot
    \/ Persister \/ PersistFails \/ Crash
    \/ \E c \in Clients : Call(c) \/ Replies(c) \/ RefreshFails(c)

Spec == Init /\ [][Next]_vars

-----------------------------------------------------------------------------
(* Properties                                                              *)

(* A token is alive as long as the request that carries it may still be    *)
(* under way, whichever way it was obtained and however long the request   *)
(* for it took.                                                            *)
TokenOutlivesRequest ==
    \A c \in Clients : req[c].pc = "send" => expiry[req[c].token] > now

(* However many clients find the token stale, it is refreshed once: every  *)
(* refresh under way is of credentials that nobody refreshed meanwhile.    *)
OneRefreshAtATime ==
    \A c \in Clients : req[c].pc \in {"refresh", "issued"} =>
        ~(cred.expires_at > req[c].at + MinLifetime)

(* refresh_if_necessary's doc: the credentials are valid for               *)
(* MINIMUM_TOKEN_LIFETIME after a call.                                    *)
ValidForMinimumLifetime ==
    \A c \in Clients : req[c].pc = "send" => expiry[req[c].token] >= req[c].at + MinLifetime

=============================================================================
