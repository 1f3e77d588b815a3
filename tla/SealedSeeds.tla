---------------------------- MODULE SealedSeeds ----------------------------
(***************************************************************************)
(* A user's root seed, sealed by an enclave at provisioning, kept by the   *)
(* backend, and unsealed when the node of that user is started             *)
(* (common/src/enclave.rs, common/src/api/provision.rs, node/src/run.rs).  *)
(*                                                                         *)
(* Encryption is symbolic: a ciphertext is its key and its plaintext, and  *)
(* opens under an equal key only.  What a key depends on is modelled: the  *)
(* hardware's EGETKEY is given the fields of the key request, and the      *)
(* platform may change its owner epoch or its security version (CPUSVN)    *)
(* between sealing and unsealing.                                          *)
(***************************************************************************)
EXTENDS Integers, FiniteSets

CONSTANTS Users,      \* user public keys; a seed derives exactly one
          Machines,   \* SGX platforms
          Enclaves,   \* loaded enclaves: measurement, signer, debug flag and
                      \* the MinCpusvn::CURRENT they were compiled with
          Configs,    \* pairs of deploy environment and network
          UseSgx,     \* an SGX build, or the mock of local development
          MaxEpoch, MaxSvn, MaxSeals,  \* bounds
          None

EnclavesAssumption ==
    Enclaves \subseteq
      [measurement : STRING, signer : STRING, debug : BOOLEAN, current : 0..MaxSvn]

VARIABLES platform,  \* per machine: owner epoch and CPUSVN
          backend,   \* the sealed seeds the backend stores
          keyid,     \* the last random key id; every draw is new
          node,      \* per machine: the running node, or None
          sealed,    \* history: what was sealed, by whom and where
          refused    \* history: starts refused although all inputs were right

vars == <<platform, backend, keyid, node, sealed, refused>>

MOCK == "mock machine id"
LABEL == "sealed seed"

(***************************************************************************)
(* EGETKEY.  The key depends on the request, on the identity the policy    *)
(* selects, on the attributes under the mask, and on the owner epoch.      *)
(***************************************************************************)
egetkey(m, e, request) ==
    IF request.cpusvn > platform[m].cpusvn
    THEN None
    ELSE [machine |-> m, epoch |-> platform[m].epoch, request |-> request,
          identity |-> IF request.keypolicy = "MRSIGNER" THEN e.signer
                                                         ELSE e.measurement,
          debug |-> request.bindsDebug /\ e.debug]

machine_id(m, e) ==
    IF UseSgx
    THEN egetkey(m, e, [keypolicy |-> "MRSIGNER", cpusvn |-> e.current,
                        bindsDebug |-> FALSE, keyid |-> 0])
    ELSE MOCK

MutPlatformSvn(m, e, id) ==
    [keypolicy |-> "MRENCLAVE", cpusvn |-> platform[m].cpusvn,
     bindsDebug |-> TRUE, keyid |-> id]

gen_sealing_request(m, e, id) ==
    [keypolicy |-> "MRENCLAVE", cpusvn |-> e.current,
     bindsDebug |-> TRUE, keyid |-> id]

\* LxKeyRequest asks the hardware; MockKeyRequest is its own key material.
derive_key_material(m, e, request) ==
    IF UseSgx THEN egetkey(m, e, request) ELSE [request |-> request]

derive_aesgcm_key(material, label) == [material |-> material, label |-> label]

(***************************************************************************)
(* enclave::seal and enclave::unseal.  None is one of the enclave errors.  *)
(***************************************************************************)
seal(m, e, id, label, data) ==
    LET request  == gen_sealing_request(m, e, id)
        material == derive_key_material(m, e, request)
    IN  IF material = None THEN None
        ELSE [keyrequest |-> request,
              ciphertext |-> [key |-> derive_aesgcm_key(material, label), data |-> data]]

unseal(m, e, blob, label) ==
    LET material == derive_key_material(m, e, blob.keyrequest)
    IN  IF material = None THEN None
        ELSE IF blob.ciphertext.key # derive_aesgcm_key(material, label) THEN None
        ELSE blob.ciphertext.data

(***************************************************************************)
(* DeployEnv::validate_network.                                            *)
(***************************************************************************)
validate_network(env, network) ==
    CASE env = "Dev"     -> network \in {"regtest", "testnet"}
      [] env = "Staging" -> network = "testnet"
      [] env = "Prod"    -> network = "mainnet"

(***************************************************************************)
(* SealedSeed.  A root seed is named by its user: derive_user_pk is the    *)
(* identity on these names and injective in the code.                      *)
(***************************************************************************)

SealedSeedId(u, e, m) ==
    [user_pk |-> u, measurement |-> e.measurement, machine_id |-> machine_id(m, e)]

seal_from_root_seed(m, e, id, seed, config) ==
    LET blob == seal(m, e, id, LABEL,
                     [root_seed |-> seed, deploy_env |-> config.env,
                      network |-> config.network])
    IN  IF ~validate_network(config.env, config.network) \/ blob = None
        THEN None
        ELSE [id |-> SealedSeedId(seed, e, m), blob |-> blob]

unseal_and_validate(s, m, e) ==
    LET data == unseal(m, e, s.blob, LABEL)
    IN  IF \/ s.id.measurement # e.measurement
           \/ s.id.machine_id # machine_id(m, e)
           \/ data = None
        THEN None
        ELSE IF \/ ~validate_network(data.deploy_env, data.network)
                \/ s.id.user_pk # data.root_seed
        THEN None
        ELSE data

fetch_provisioned_secrets(u, m, e, row, s) ==
    IF row = None \/ s = None THEN None
    ELSE IF row # u THEN None
    ELSE LET data == unseal_and_validate(s, m, e)
         IN  IF data = None THEN None
             ELSE IF data.root_seed # u THEN None
             ELSE data

(***************************************************************************)
(* The operators of a machine, and the backend's answers.                  *)
(***************************************************************************)
BumpOwnerEpoch(m) ==
    /\ node[m] = None
    /\ platform[m].epoch < MaxEpoch
    /\ platform' = [platform EXCEPT ![m].epoch = @ + 1]
    /\ UNCHANGED <<backend, keyid, node, sealed, refused>>

ChangeCpusvn(m, svn) ==
    /\ node[m] = None
    /\ platform[m].cpusvn # svn
    /\ platform' = [platform EXCEPT ![m].cpusvn = svn]
    /\ UNCHANGED <<backend, keyid, node, sealed, refused>>

Stop(m) ==
    /\ node[m] # None
    /\ node' = [node EXCEPT ![m] = None]
    /\ UNCHANGED <<platform, backend, keyid, sealed, refused>>

\* The backend keeps one sealed seed per id.
create_sealed_seed(s) ==
    backend' = {t \in backend : t.id # s.id} \union {s}

(***************************************************************************)
(* Provisioning: the enclave on machine m seals the seed of user u.        *)
(* machine_id panics, and there is no provisioning, if the platform is     *)
(* older than MinCpusvn::CURRENT.                                          *)
(***************************************************************************)
Provision(m, e, u, config) ==
    LET s == seal_from_root_seed(m, e, keyid + 1, u, config)
    IN  /\ keyid < MaxSeals
        /\ machine_id(m, e) # None
        /\ keyid' = keyid + 1
        /\ \/ /\ s = None
              /\ UNCHANGED <<backend, sealed>>
           \/ /\ s # None
              /\ create_sealed_seed(s)
              /\ sealed' = sealed \union
                   {[user |-> u, machine |-> m, epoch |-> platform[m].epoch,
                     measurement |-> e.measurement, config |-> config]}
        /\ UNCHANGED <<platform, node, refused>>

\* What the database returns is unvalidated: the record that was asked for,
\* another one, or the bytes of one record under the id of another.
Honest(id) == IF \E s \in backend : s.id = id
              THEN CHOOSE s \in backend : s.id = id
              ELSE None

Answers(id) == {Honest(id)} \union
               {[id |-> s.id, blob |-> t.blob] : s, t \in backend}

(***************************************************************************)
(* UserNode::init: measurement and machine id, the secrets, and the        *)
(* comparison of the operator's arguments with what was sealed.            *)
(***************************************************************************)
UserNodeInit(m, e, u, config, row, s) ==
    LET data == fetch_provisioned_secrets(u, m, e, row, s)
    IN  IF data = None THEN None
        ELSE IF data.deploy_env # config.env \/ data.network # config.network
        THEN None
        ELSE [user |-> u, seed |-> data.root_seed, measurement |-> e.measurement,
              epoch |-> platform[m].epoch,
              config |-> [env |-> data.deploy_env, network |-> data.network]]

Start(m, e, u, config, row, s) ==
    LET id     == SealedSeedId(u, e, m)
        result == UserNodeInit(m, e, u, config, row, s)
        right  == /\ row = u
                  /\ s # None
                  /\ s = Honest(id)
                  /\ s.blob.ciphertext.data.deploy_env = config.env
                  /\ s.blob.ciphertext.data.network = config.network
    IN  /\ node[m] = None
        /\ machine_id(m, e) # None
        /\ s \in Answers(id)
        /\ node' = [node EXCEPT ![m] = result]
        /\ refused' = (refused \/ (right /\ result = None))
        /\ UNCHANGED <<platform, backend, keyid, sealed>>

Init ==
    /\ platform \in [Machines -> [epoch : {0}, cpusvn : 0..MaxSvn]]
    /\ backend = {}
    /\ keyid = 0
    /\ node = [m \in Machines |-> None]
    /\ sealed = {}
    /\ refused = FALSE

Next ==
    \E m \in Machines :
      \/ BumpOwnerEpoch(m)
      \/ \E svn \in 0..MaxSvn : ChangeCpusvn(m, svn)
      \/ Stop(m)
      \/ \E e \in Enclaves, u \in Users, c \in Configs : Provision(m, e, u, c)
      \/ \E e \in Enclaves, u \in Users, c \in Configs, row \in Users \union {None} :
           \E s \in Answers(SealedSeedId(u, e, m)) : Start(m, e, u, c, row, s)

Spec == Init /\ [][Next]_vars

(***************************************************************************)
(* Properties.                                                             *)
(***************************************************************************)

\* The state is well formed: stored records name known users and measurements
\* (SealedSeed), and a running node has a user and a configuration.
TypeOK ==
    /\ platform \in [Machines -> [epoch : 0..MaxEpoch, cpusvn : 0..MaxSvn]]
    /\ \A s \in backend : /\ s.id.user_pk \in Users
                          /\ s.id.measurement \in {e.measurement : e \in Enclaves}
    /\ \A m \in Machines : node[m] # None =>
          node[m].user \in Users /\ node[m].config \in Configs
    /\ keyid \in 0..MaxSeals
    /\ refused \in BOOLEAN

\* A node that started (UserNode::init returned) holds the seed of the user it
\* was started for, and that seed was sealed for this environment and network,
\* in SGX also by this measurement, on this machine and under this owner epoch,
\* whatever record, row or mixture of records the database returned.
RunsOwnSeed ==
    \A m \in Machines : node[m] # None =>
      /\ node[m].seed = node[m].user
      /\ \E b \in sealed :
           /\ b.user = node[m].user
           /\ b.config = node[m].config
           /\ UseSgx => /\ b.measurement = node[m].measurement
                        /\ b.machine = m
                        /\ b.epoch = node[m].epoch

\* The machine id tells whether a machine can unseal (MachineId's doc): a start
\* that finds a record under its own user, measurement and machine id, and is
\* given the sealed environment and network, is never refused, whatever
\* happened to the platform's epoch and CPUSVN in between.
MachineIdMeansUnsealable == ~refused

\* All enclaves of one signer derive the same machine id on a machine
\* (the comment in machine_id and the doc of MachineId).
SameSignerSameMachineId ==
    \A m \in Machines : \A d, e \in Enclaves :
      (d.signer = e.signer /\ machine_id(m, d) # None /\ machine_id(m, e) # None)
        => machine_id(m, d) = machine_id(m, e)
=============================================================================
