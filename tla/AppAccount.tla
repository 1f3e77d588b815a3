----------------------------- MODULE AppAccount -----------------------------
(***************************************************************************)
(* The account of a user, as the app creates it and keeps it provisioned   *)
(* (app-rs/src/app.rs: signup, load, do_provision; the secret store and    *)
(* the latest_provisioned file), on top of the provisioning instances.     *)
(***************************************************************************)
EXTENDS Provisioning

CONSTANTS
    AppEnvs,     \* the configurations the app may have been built with
    Passwords,   \* whether signup is given a password: a subset of BOOLEAN
    Others,      \* requests of other clients, with access to Google or not
    Orphans,     \* whether a handler may outlive the connection to the app
    Torn,        \* what is left of a file that was not written out
    FileStore,   \* whether the SecretStore is a file (Android) or a keychain
    MaxSignups,  \* bound on signups
    Rollbacks    \* whether an older release may become the latest again

VARIABLES
    app,         \* the running app
    store,       \* SecretStore: the root seed
    latest,      \* the latest_provisioned file
    env,         \* AppConfig
    signups,     \* the seeds of the signups so far, in order
    signedUp,    \* backend: the users that have signed up
    release      \* gateway: the latest release
vars == <<provVars, app, store, latest, env, signups, signedUp, release>>
device == <<store, latest, env, signups>>

Off == [pc |-> "off"]
Open == [pc |-> "open"]

(* AppConfig::from panics for every other combination. *)
ValidConfig(e) == validate_network(e.deploy_env, e.network)

Init ==
    /\ ProvInit
    /\ app = Off /\ store = None /\ latest = None
    /\ env \in {e \in AppEnvs : ValidConfig(e)}
    /\ signups = <<>> /\ signedUp = {}
    /\ release \in Releases

----------------------------------------------------------------------------
(* do_provision: the request, the answer, and the file that records it.    *)

DoProvision(s, r, code, enc) ==
    \/ r \notin up /\ UNCHANGED <<app, h>>
    \/ \E i \in Handlers :
        /\ Receive(i, r, [seed |-> s, env |-> env, code |-> code, allow |-> TRUE, enc |-> enc])
        /\ app' = [pc |-> "provision", h |-> i, seed |-> s, rel |-> r]

(* signup_custom, up to its requests to the gateway, which are concurrent: *)
(* the user may be signed up although the latest release is not known.     *)
Signup(s) ==
    /\ app = Off /\ store = None
    /\ s \in Seeds \ Range(signups) /\ Len(signups) < MaxSignups
    /\ signups' = Append(signups, s)
    /\ \E p \in Passwords, failed \in BOOLEAN, applied \in BOOLEAN :
         /\ applied \/ failed
         /\ failed => faults < MaxFaults
         /\ faults' = faults + (IF failed THEN 1 ELSE 0)
         /\ signedUp' = IF applied THEN signedUp \cup {s} ELSE signedUp
         /\ IF failed THEN UNCHANGED <<app, h>>
            ELSE DoProvision(s, release, is_staging_or_prod(env.deploy_env), p)
    /\ UNCHANGED <<up, stored, store, latest, env, release>>

(* MUTANT of NeedsProvision: a missing file counts as provisioned. *)
MutNoFileIsProvisioned == latest # None /\ latest.version < release.version
NeedsProvision == latest = None \/ latest.version < release.version

(* load, with its request for the latest release, for an account that      *)
(* exists.  A seed that is not of the right size is an error, and so is a  *)
(* latest_provisioned file that does not deserialize.                      *)
Readable == store \notin {None, Torn}
Load ==
    /\ app = Off /\ Readable /\ latest # Torn
    /\ IF NeedsProvision THEN DoProvision(store, release, FALSE, FALSE)
       ELSE app' = Open /\ UNCHANGED h
    /\ UNCHANGED <<up, stored, faults, device, signedUp, release>>

LoadFails ==
    /\ app = Off /\ Readable
    /\ faults < MaxFaults /\ faults' = faults + 1
    /\ UNCHANGED <<up, h, stored, app, device, signedUp, release>>

(* MUTANT of Provisioned: the release is recorded whatever the answer. *)
MutRecordAnyway ==
    /\ app.pc = "provision" /\ h[app.h].pc = "done"
    /\ latest' = Torn /\ app' = [app EXCEPT !.pc = "record"]
    /\ h' = [h EXCEPT ![app.h] = Idle]
    /\ UNCHANGED <<up, stored, faults, store, env, signups, signedUp, release>>
(* The answer.  After a success write_latest_provisioned begins, which     *)
(* truncates the file before it writes it.                                 *)
Provisioned ==
    /\ app.pc = "provision" /\ h[app.h].pc = "done"
    /\ IF h[app.h].err # None THEN app' = Off /\ UNCHANGED latest
       ELSE latest' = Torn /\ app' = [app EXCEPT !.pc = "record"]
    /\ h' = [h EXCEPT ![app.h] = Idle]
    /\ UNCHANGED <<up, stored, faults, store, env, signups, signedUp, release>>

RecordProvisioned ==
    /\ app.pc = "record"
    /\ latest' = app.rel
    /\ app' = IF store = None THEN [app EXCEPT !.pc = "commit"] ELSE Open
    /\ UNCHANGED <<provVars, store, env, signups, signedUp, release>>

(* The end of signup: write_root_seed.  A file is truncated and written. *)
set_password(s) == IF FileStore /\ store # Torn THEN Torn ELSE s
CommitSeed ==
    /\ app.pc = "commit"
    /\ store' = set_password(app.seed)
    /\ app' = IF store' = Torn THEN app ELSE Open
    /\ UNCHANGED <<provVars, latest, env, signups, signedUp, release>>

----------------------------------------------------------------------------
(* What happens around the app.                                            *)

(* The app is closed or killed, or a write fails and signup or load returns*)
(* the error.  A request under way is dropped, or is still being handled   *)
(* when the app comes back; a file that was being written stays torn.      *)
AppStops ==
    /\ app # Off /\ app' = Off
    /\ IF app.pc # "provision" THEN UNCHANGED <<h, faults>>
       ELSE /\ faults < MaxFaults /\ faults' = faults + 1
            /\ h' \in {[h EXCEPT ![app.h] = Idle]} \cup (IF Orphans THEN {h} ELSE {})
    /\ UNCHANGED <<up, stored, device, signedUp, release>>

(* A client that gave up sees nothing of the answer. *)
OrphanEnds(i) ==
    /\ h[i].pc = "done" /\ ~(app.pc = "provision" /\ app.h = i)
    /\ h' = [h EXCEPT ![i] = Idle]
    /\ UNCHANGED <<up, stored, faults, app, device, signedUp, release>>

DeleteLatestProvisioned ==
    /\ app = Off /\ latest # None /\ latest' = None
    /\ faults < MaxFaults /\ faults' = faults + 1
    /\ UNCHANGED <<up, h, stored, app, store, env, signups, signedUp, release>>

Publish ==
    /\ release' \in {r \in Releases \ {release} : Rollbacks \/ r.version >= release.version}
    /\ UNCHANGED <<provVars, app, device, signedUp>>

(* Another client provisions, such as a running node that replicates its seed. *)
OtherRequest(i) ==
    /\ Readable
    /\ \E o \in Others, r \in Releases :
         Receive(i, r, [seed |-> store, env |-> env, code |-> FALSE, allow |-> o.allow, enc |-> o.enc])
    /\ UNCHANGED <<up, stored, faults, app, device, signedUp, release>>

StartInstance(r) ==
    /\ ProvisionNode(r) /\ UNCHANGED <<app, device, signedUp, release>>

StopInstance(r) ==
    /\ faults < MaxFaults /\ faults' = faults + 1
    /\ \E given \in {x.measurement : x \in Releases}, dropped \in SUBSET Handlers :
         /\ Shutdown(r, given, dropped)
         /\ app' = IF app.pc = "provision" /\ app.h \in dropped THEN Off ELSE app
    /\ UNCHANGED <<device, signedUp, release>>

Handle(i) == /\ HandlerStep(i) \/ StepFails(i)
             /\ UNCHANGED <<app, device, signedUp, release>>

Next ==
    \/ \E s \in Seeds : Signup(s)
    \/ Load \/ LoadFails \/ Provisioned \/ RecordProvisioned \/ CommitSeed
    \/ AppStops \/ DeleteLatestProvisioned \/ Publish
    \/ \E r \in Releases : StartInstance(r) \/ StopInstance(r)
    \/ \E i \in Handlers : Handle(i) \/ OrphanEnds(i) \/ OtherRequest(i)

Spec == Init /\ [][Next]_vars

(* The runtime polls the handlers, the app awaits its answer, and the user *)
(* opens the app again and again; the runner starts the instances.         *)
Fairness ==
    /\ \A i \in Handlers : WF_vars(HandlerStep(i) /\ UNCHANGED <<app, device, signedUp, release>>)
    /\ \A i \in Handlers : WF_vars(OrphanEnds(i))
    /\ \A r \in Releases : WF_vars(StartInstance(r))
    /\ WF_vars(Load) /\ WF_vars(Provisioned)
    /\ WF_vars(RecordProvisioned) /\ WF_vars(CommitSeed)
    /\ SF_vars(AppStops /\ app.pc = "open")
FairSpec == Spec /\ Fairness

----------------------------------------------------------------------------
(* Properties.                                                             *)

Requests == [seed : Seeds, env : AppEnvs, code : BOOLEAN, allow : BOOLEAN, enc : BOOLEAN]
TypeOK ==
    /\ \A i \in Handlers : h[i] # Idle => h[i].req \in Requests /\ h[i].rel \in Releases
    /\ sealed \subseteq Seeds \X {r.measurement : r \in Releases}
    /\ creds \subseteq Seeds /\ root \subseteq Seeds /\ backup \in Seeds \cup {None}
    /\ store \in Seeds \cup {None, Torn} /\ latest \in Releases \cup {None, Torn}
    /\ faults \in 0..MaxFaults /\ signups \in Seq(Seeds) /\ signedUp \subseteq Seeds

(* What a node checks when it boots: its sealed seed exists and the list   *)
(* has its version with its measurement.                                   *)
CanRun(s, r) ==
    /\ <<s, r.measurement>> \in sealed
    /\ approved # None /\ approved.seed = s
    /\ r.version \in DOMAIN approved.list /\ approved.list[r.version] = r.measurement

(* Every version that the user approves has a sealed seed, whichever step  *)
(* of provisioning fails: a seed is sealed before its version is approved  *)
(* and deleted after the version was revoked.                              *)
ApprovedIsSealed ==
    approved # None =>
        \A v \in DOMAIN approved.list : <<approved.seed, approved.list[v]>> \in sealed

(* Once the app has committed its root seed, some release can run for it,  *)
(* and one at least as new as the release recorded, so that the user has a *)
(* node even when a later provisioning or the record of it stops half-way. *)
LatestProvisionedRuns ==
    Readable =>
        \E r \in Releases :
            /\ CanRun(store, r)
            /\ latest \notin {None, Torn} => r.version >= latest.version

(* The list of approved versions never exceeds MAX_SIZE and never loses a  *)
(* version while it keeps an older one, unless that was yanked.            *)
KeepsNewest ==
    approved # None =>
         LET was == DOMAIN approved.list
             is  == DOMAIN approved'.list
             gone == {v \in was \ is :
                        ~\E r \in Releases : \E y \in Yanked[r] : y.version = v}
         IN  /\ Cardinality(is) <= MAX_SIZE
             /\ \A v \in gone, w \in is : w > v

(* A backup of a root seed in Google Drive is never replaced, because the  *)
(* seed in it could be the only way to funds.                              *)
KeepsBackup == backup' # backup => backup = None

(* The root seed that the app commits is one that signed up, is sealed for *)
(* the release recorded, and has its credentials in the backend.           *)
CommittedSeedIsKnown ==
    Readable => store \in signedUp /\ store \in creds /\ \E x \in sealed : x[1] = store

(* If the app is opened again and again, the latest release is eventually  *)
(* recorded as provisioned and can run, unless the file that records it is *)
(* torn: load then fails for good.                                         *)
ReachesLatest ==
    Readable ~> \/ latest = release /\ CanRun(store, release)
                \/ latest = Torn /\ app = Off

(* Once the app commits a seed, even if writing it is interrupted, there is*)
(* a backup in Google Drive: of this seed, or of that of an earlier signup,*)
(* because a backup is never replaced.                                     *)
BackupIsOfASignup == store # None => backup \in Range(signups)

(* api/provision.rs says that the provisioning instance backs up the seed  *)
(* it is given: the backup is that of the seed that the app commits.       *)
CommittedSeedIsBackedUp == store # None => backup = Last(signups)

(* api/provision.rs says that without an encrypted seed it is not checked  *)
(* whether a backup exists: such a request never fails for lack of one.    *)
NoBackupCheckWithoutSeed ==
    \A i \in Handlers : h[i] # Idle /\ ~h[i].req.enc => h[i].err # "no_backup"

(* approved_versions.rs says that the sealed seed of a revoked version is  *)
(* deleted: after a provisioning that succeeded, no sealed seed is left    *)
(* of a version that was revoked.                                          *)
RevokedSeedIsDeleted ==
    app.pc = "provision" /\ h[app.h].pc = "done" /\ h[app.h].err = None
       /\ approved # None /\ approved.seed = app.seed =>
        \A r \in Releases : /\ <<app.seed, r.measurement>> \in sealed
                            /\ \A v \in DOMAIN approved.list : v > r.version
                            => Cardinality(DOMAIN approved.list) < MAX_SIZE

(* api/provision.rs says that provisioning instances do not overwrite each *)
(* other's updates: the list that is replaced is the one that was read.    *)
UpdatesAreNotOverwritten ==
    \A i \in Handlers : h[i].pc = "persist_approved" => approved = h[i].read
=============================================================================
