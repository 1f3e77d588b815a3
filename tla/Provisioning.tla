---------------------------- MODULE Provisioning ----------------------------
(***************************************************************************)
(* Provisioning of a root seed to a node release (node/src/provision.rs),  *)
(* with the files that it leaves in Lexe's backend and in the user's       *)
(* Google Drive.  One step of a handler is what it does up to its next     *)
(* await.  A user is identified by the root seed, and there is one Google  *)
(* account.                                                                *)
(***************************************************************************)
EXTENDS ApprovedVersions

CONSTANTS
    None,
    Seeds,      \* the root seeds that may be sampled
    Handlers,   \* the requests that may be under way at the same time
    NodeEnv,    \* [deploy_env, network] of the provisioning instances
    MaxFaults   \* bound on failed steps and lost requests

VARIABLES
    up,         \* the releases whose provisioning instance is ready
    h,          \* handlers::provision, one record per request under way
    sealed,     \* backend: {<<seed, measurement>>}, the sealed seeds
    creds,      \* backend: the seeds whose GDriveCredentials are stored
    root,       \* backend: the seeds whose gvfs root is stored
    backup,     \* Google Drive: the seed in the password-encrypted backup
    approved,   \* Google Drive: the approved versions, encrypted by a seed
    faults
provVars == <<up, h, sealed, creds, root, backup, approved, faults>>
stored == <<sealed, creds, root, backup, approved>>

Idle == [pc |-> "idle"]

is_staging_or_prod(env) == env \in {"staging", "prod"}
validate_network(env, net) ==
    \/ env = "dev" /\ net \in {"regtest", "testnet"}
    \/ env = "staging" /\ net = "testnet"
    \/ env = "prod" /\ net = "mainnet"

ProvInit ==
    /\ up = {} /\ h = [i \in Handlers |-> Idle]
    /\ sealed = {} /\ creds = {} /\ root = {} /\ backup = None /\ approved = None
    /\ faults = 0

----------------------------------------------------------------------------
(* A request [seed, env, code, allow, enc] to the instance of release rel: *)
(* code and enc say whether there is an auth code and an encrypted seed.   *)

Receive(i, rel, req) ==
    /\ h[i] = Idle /\ rel \in up
    /\ h' = [h EXCEPT ![i] =
               [pc |-> "check", rel |-> rel, req |-> req, err |-> None,
                read |-> None, list |-> EmptyList, revoked |-> <<>>, changed |-> FALSE]]

To(i, pc) == h' = [h EXCEPT ![i].pc = pc]
ReturnErr(i, e) == h' = [h EXCEPT ![i].pc = "done", ![i].err = e]
(* An error inside do_gvfs_ops still leads to the credentials update. *)
GvfsErr(i, e) == h' = [h EXCEPT ![i].pc = "update_creds", ![i].err = e]

(* What the backend and Google store once the request of the current step  *)
(* is applied.  The backup is created only if there is none.               *)
CreatesBackup(i) == h[i].pc = "backup" /\ backup = None /\ h[i].req.enc
Applied(i) ==
    LET s == h[i].req.seed
        at(pc) == h[i].pc = pc
    IN  /\ sealed' = (sealed \cup {x \in {<<s, h[i].rel.measurement>>} : at("create_sealed_seed")})
                        \ {<<s, m>> : m \in {m \in Range(h[i].revoked) :
                                              at("delete_revoked") /\ m = Head(h[i].revoked)}}
        /\ creds' = creds \cup {x \in {s} : at("persist_creds") \/ at("update_creds")}
        /\ root' = root \cup {x \in {s} : at("persist_root")}
        /\ backup' = IF CreatesBackup(i) THEN s ELSE backup
        /\ approved' = IF at("persist_approved") THEN [seed |-> s, list |-> h[i].list]
                       ELSE approved

(* The files that a seed can read: the credentials, the gvfs root, and the *)
(* approved versions, which only the key of their own seed decrypts.       *)
HasCreds(s) == s \in creds
HasRoot(s) == s \in root
Decrypts(s) == approved = None \/ approved.seed = s

----------------------------------------------------------------------------
(* The steps of the handler, in order.                                     *)

(* The environments must agree and allow the network before the seed is sealed. *)
Check(i) ==
    /\ h[i].pc = "check"
    /\ IF h[i].req.env = NodeEnv /\ validate_network(NodeEnv.deploy_env, NodeEnv.network)
       THEN To(i, "create_sealed_seed") ELSE ReturnErr(i, "config")
    /\ UNCHANGED <<up, stored, faults>>

CreateSealedSeed(i) ==
    /\ h[i].pc = "create_sealed_seed"
    /\ Applied(i)
    /\ To(i, IF ~is_staging_or_prod(NodeEnv.deploy_env) THEN "done"
             ELSE IF h[i].req.code THEN "persist_creds" ELSE "read_creds")
    /\ UNCHANGED <<up, faults>>

(* Without access to the Google VFS the request ends after the credentials. *)
AfterCreds(i) ==
    IF h[i].req.allow THEN To(i, "init_gvfs")
    ELSE IF h[i].req.enc THEN ReturnErr(i, "usage") ELSE To(i, "done")

(* The auth code is exchanged, and the new credentials are stored. *)
PersistCreds(i) ==
    /\ h[i].pc = "persist_creds"
    /\ Applied(i) /\ AfterCreds(i)
    /\ UNCHANGED <<up, faults>>

ReadCreds(i) ==
    /\ h[i].pc = "read_creds"
    /\ IF HasCreds(h[i].req.seed) THEN AfterCreds(i) ELSE ReturnErr(i, "no_creds")
    /\ UNCHANGED <<up, stored, faults>>

(* read_gvfs_root and GoogleVfs::init; the access token may be refreshed. *)
InitGvfs(i) ==
    /\ h[i].pc = "init_gvfs"
    /\ \E c \in BOOLEAN :
         h' = [h EXCEPT ![i].pc = IF HasRoot(h[i].req.seed) THEN "backup" ELSE "persist_root",
                        ![i].changed = c]
    /\ UNCHANGED <<up, stored, faults>>

PersistRoot(i) ==
    /\ h[i].pc = "persist_root"
    /\ Applied(i) /\ To(i, "backup")
    /\ UNCHANGED <<up, faults>>

Backup(i) ==
    /\ h[i].pc = "backup"
    /\ Applied(i)
    /\ IF backup = None /\ ~h[i].req.enc THEN GvfsErr(i, "no_backup") ELSE To(i, "approve")
    /\ UNCHANGED <<up, faults>>

Approve(i) ==
    /\ h[i].pc = "approve"
    /\ LET list == IF approved = None THEN EmptyList ELSE approved.list
           res  == approve_and_revoke(list, h[i].rel)
       IN  IF ~Decrypts(h[i].req.seed) THEN GvfsErr(i, "decrypt")
           ELSE IF ~res.ok THEN GvfsErr(i, "not_approved")
           ELSE h' = [h EXCEPT ![i].pc = IF res.updated THEN "persist_approved"
                                         ELSE "delete_revoked",
                               ![i].read = approved, ![i].list = res.list,
                               ![i].revoked = res.revoked]
    /\ UNCHANGED <<up, stored, faults>>

PersistApproved(i) ==
    /\ h[i].pc = "persist_approved"
    /\ Applied(i) /\ To(i, "delete_revoked")
    /\ UNCHANGED <<up, faults>>

(* Serially; a sealed seed that does not exist is only warned about. *)
DeleteRevoked(i) ==
    /\ h[i].pc = "delete_revoked"
    /\ Applied(i)
    /\ IF h[i].revoked = <<>> THEN To(i, "update_creds")
       ELSE h' = [h EXCEPT ![i].revoked = Tail(@)]
    /\ UNCHANGED <<up, faults>>

UpdateCreds(i) ==
    /\ h[i].pc = "update_creds"
    /\ IF h[i].changed THEN Applied(i) ELSE UNCHANGED stored
    /\ To(i, "done")
    /\ UNCHANGED <<up, faults>>

HandlerStep(i) ==
    \/ Check(i) \/ CreateSealedSeed(i) \/ PersistCreds(i) \/ ReadCreds(i)
    \/ InitGvfs(i) \/ PersistRoot(i) \/ Backup(i) \/ Approve(i)
    \/ PersistApproved(i) \/ DeleteRevoked(i) \/ UpdateCreds(i)

(* A request that the handler makes fails, before or after it was applied. *)
StepFails(i) ==
    /\ h[i].pc \notin {"idle", "check", "done"}
    /\ h[i].pc = "delete_revoked" => h[i].revoked # <<>>
    /\ h[i].pc = "update_creds" => h[i].changed
    /\ faults < MaxFaults /\ faults' = faults + 1 /\ UNCHANGED up
    /\ \/ UNCHANGED stored
       \/ Applied(i)
    /\ CASE h[i].pc = "update_creds" ->
              ReturnErr(i, IF h[i].err = None THEN "failed" ELSE h[i].err)
         [] h[i].pc \in {"persist_root", "backup", "approve", "persist_approved",
                         "delete_revoked"} -> GvfsErr(i, "failed")
         [] OTHER -> ReturnErr(i, "failed")

----------------------------------------------------------------------------
(* The instances.                                                          *)

(* provision_node: two servers are started and the runner is notified. *)
ProvisionNode(r) ==
    /\ r \notin up /\ up' = up \cup {r}
    /\ UNCHANGED <<h, stored, faults>>

(* handlers::shutdown, asked for the given measurement, stops the servers. *)
(* A handler under way ends in time, or is dropped with its connection.    *)
StopsInstance(r, given) == r \in up /\ given = r.measurement
Shutdown(r, given, dropped) ==
    /\ StopsInstance(r, given) /\ up' = up \ {r}
    /\ dropped \subseteq {i \in Handlers : h[i] # Idle /\ h[i].rel = r}
    /\ h' = [i \in Handlers |-> IF i \in dropped THEN Idle ELSE h[i]]
    /\ UNCHANGED stored
=============================================================================
