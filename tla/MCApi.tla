------------------------------- MODULE MCApi --------------------------------
(***************************************************************************)
(* How apps, nodes and backends talk: BearerAuth, and instances of         *)
(* ApiCalls and TlsTrust. A behaviour is one of the instance that          *)
(* `scenario` names; the variables of BearerAuth are otherwise as they are *)
(* initially, those of the other components are None. A unit of time of    *)
(* BearerAuth is 5 seconds.                                                *)
(***************************************************************************)
EXTENDS BearerAuth, TLC

CONSTANTS
    Scenarios,   \* the scenarios that a run looks at
    c1, c2, k1, k2, u1, u2, n1, n2

VARIABLES
    scenario,    \* the component, and its instance, that a behaviour is about
    server, call, attempt, faults_api, now_tls, nodes, apps, gateway, conns

Symmetry == Permutations({c1, c2}) \cup Permutations({k1, k2})
              \cup Permutations({u1, u2}) \cup Permutations({n1, n2})

-----------------------------------------------------------------------------
(* API calls: each endpoint of each server; two calls that compete for a   *)
(* server; one over a bad network.                                         *)
apiVars == <<server, call, attempt, faults_api>>

LOCAL E == INSTANCE ApiEndpoints WITH Retries <- 1
AllOps == UNION {DOMAIN E!Clients[s] : s \in DOMAIN E!Clients}
AllKinds ==
    UNION {DOMAIN E!ErrorKinds[k] : k \in E!Apis} \ DOMAIN E!CommonErrorKind
\* Timeout is found by the client, NotFound is sent by the server.
Stops == {E!CommonErrorKind.Timeout[1], 101}

Routes == INSTANCE ApiCalls WITH
    Calls <- {"c"}, Servers <- DOMAIN E!Clients, Ops <- AllOps, Retries <- 1,
    Failures <- AllKinds, StopCodes <- {},
    ClientLacks <- {"NotFound", "OldVersion", "Command", "FiatRatesMissing"},
    BufferSize <- 1, Concurrency <- 1, MaxFaults <- 1, faults <- faults_api
TwoCalls == INSTANCE ApiCalls WITH
    Calls <- {k1, k2}, Servers <- {"backend"},
    Ops <- {"upsert_file_with_retries", "create_payment"}, Retries <- 1,
    Failures <- {"NotFound"}, StopCodes <- Stops, ClientLacks <- {},
    BufferSize <- 1, Concurrency <- 1, MaxFaults <- 0, faults <- faults_api
LossyCall == INSTANCE ApiCalls WITH
    Calls <- {"c"}, Servers <- {"backend"},
    Ops <- {"upsert_file_with_retries", "create_payment"}, Retries <- 1,
    Failures <- {"NotFound"}, StopCodes <- Stops, ClientLacks <- {},
    BufferSize <- 1, Concurrency <- 1, MaxFaults <- 2, faults <- faults_api

NoApi ==
    /\ server = None /\ call = None /\ attempt = None /\ faults_api = None

-----------------------------------------------------------------------------
(* TLS: builds that the app must not trust; certificates that expire;      *)
(* outside of SGX.                                                         *)
tlsVars == <<now_tls, nodes, apps, gateway, conns>>

(* m1 and m2 have the same short name. *)
Short == [m \in {"m1", "m2"} |-> "s1"]
Build(sgx, m, signer, debug) ==
    [sgx |-> sgx, mrenclave |-> m, mrsigner |-> signer, debug |-> debug]
Releases == {Build(TRUE, "m1", "prod", FALSE), Build(TRUE, "m2", "prod", FALSE)}
Builds ==
    Releases \cup {Build(TRUE, "m1", "prod", TRUE),
                   Build(FALSE, "m1", "mock", FALSE)}
(* Outside SGX there is one mock measurement; an enclave is there by mistake. *)
MockBuilds == {Build(FALSE, "m1", "mock", FALSE), Build(TRUE, "m1", "dev", TRUE)}

Tls == INSTANCE TlsTrust WITH
    RunLifetime <- 1, ProvisionLifetime <- 2, SharedSeedLifetime <- 2,
    GatewayLifetime <- 2, PckLifetime <- 2, Users <- {u1, u2},
    Nodes <- {n1, n2}, Builds <- Builds, Short <- Short,
    DeployEnv <- "staging", UseSgx <- TRUE, OtherGateways <- {"dev"},
    AesmMixesUp <- TRUE, RunUptime <- 3, ProvisionUptime <- 3, AppUptime <- 3,
    RenewBuffer <- 0, MaxTime <- 0, now <- now_tls
TlsUptime == INSTANCE TlsTrust WITH
    RunLifetime <- 1, ProvisionLifetime <- 2, SharedSeedLifetime <- 2,
    GatewayLifetime <- 2, PckLifetime <- 2, Users <- {"u"}, Nodes <- {"n"},
    Builds <- Releases, Short <- Short, DeployEnv <- "staging",
    UseSgx <- TRUE, OtherGateways <- {}, AesmMixesUp <- FALSE, RunUptime <- 1,
    ProvisionUptime <- 2, AppUptime <- 2, RenewBuffer <- 1, MaxTime <- 5,
    now <- now_tls
TlsMock == INSTANCE TlsTrust WITH
    RunLifetime <- 1, ProvisionLifetime <- 2, SharedSeedLifetime <- 2,
    GatewayLifetime <- 2, PckLifetime <- 2, Users <- {"u"}, Nodes <- {"n"},
    Builds <- MockBuilds, Short <- Short, DeployEnv <- "dev", UseSgx <- FALSE,
    OtherGateways <- {}, AesmMixesUp <- FALSE, RunUptime <- 1,
    ProvisionUptime <- 2, AppUptime <- 2, RenewBuffer <- 1, MaxTime <- 3,
    now <- now_tls

NoTls ==
    /\ now_tls = None /\ nodes = None /\ apps = None /\ gateway = None
    /\ conns = None

-----------------------------------------------------------------------------
(* The constants of the instances are as their modules require. *)
ASSUME InstancesAreProper ==
    /\ AuthAssumption
    /\ Routes!CommonKindsCovered

mcVars == <<scenario, vars, apiVars, tlsVars>>

notAuth == <<scenario, apiVars, tlsVars>>
notApi == <<scenario, vars, tlsVars>>
notTls == <<scenario, vars, apiVars>>

MCInit ==
    /\ scenario \in Scenarios /\ Init
    /\ \/ scenario = "auth"
       \/ scenario = "routes" /\ Routes!Init
       \/ scenario = "calls" /\ TwoCalls!Init
       \/ scenario = "lossy_call" /\ LossyCall!Init
       \/ scenario = "tls" /\ Tls!Init
       \/ scenario = "tls_uptime" /\ TlsUptime!Init
       \/ scenario = "tls_mock" /\ TlsMock!Init
    /\ scenario \in {"routes", "calls", "lossy_call"} \/ NoApi
    /\ scenario \in {"tls", "tls_uptime", "tls_mock"} \/ NoTls

MCNext ==
    \/ scenario = "auth" /\ Next /\ UNCHANGED notAuth
    \/ scenario = "routes" /\ Routes!Next /\ UNCHANGED notApi
    \/ scenario = "calls" /\ TwoCalls!Next /\ UNCHANGED notApi
    \/ scenario = "lossy_call" /\ LossyCall!Next /\ UNCHANGED notApi
    \/ scenario = "tls" /\ Tls!Next /\ UNCHANGED notTls
    \/ scenario = "tls_uptime" /\ TlsUptime!Next /\ UNCHANGED notTls
    \/ scenario = "tls_mock" /\ TlsMock!Next /\ UNCHANGED notTls

MCSpec == MCInit /\ [][MCNext]_mcVars

-----------------------------------------------------------------------------
(* Properties. *)

(* What a caller concludes from a result is true: each call reaches the    *)
(* handler that it is for, the kind of an error survives the wire, and an  *)
(* error that rules out an effect means that there was none (error.rs,     *)
(* def.rs, server.rs).                                                     *)
ResultIsTrue ==
    /\ scenario = "routes" => Routes!TypeOK /\ Routes!ReachesItsHandler /\ Routes!KindSurvives
    /\ scenario = "calls" => TwoCalls!ResultIsTrue
    /\ scenario = "lossy_call" => LossyCall!ResultIsTrue

(* Only requests that are idempotent are retried, and never after an error *)
(* that says stop: whatever times out, is lost or refused, a request that  *)
(* creates, pays or sends takes effect at most once per call (rest.rs).    *)
AtMostOnce ==
    /\ scenario = "routes" => Routes!AtMostOnce
    /\ scenario = "calls" => TwoCalls!AtMostOnce /\ TwoCalls!StopsAtStopCodes
    /\ scenario = "lossy_call" => LossyCall!StopsAtStopCodes

(* A connection to a running node ends at the user's own node, one to a    *)
(* provisioning node at an attested enclave, and both go through Lexe's    *)
(* proxy of the same environment (tls/).                                   *)
ConnsAreTrusted ==
    scenario = "tls" =>
        /\ Tls!TypeOK /\ Tls!RunConnIsOwn
        /\ Tls!ProvisionConnIsAttested /\ Tls!ConnsGoThroughLexe

(* While processes restart within the lifetimes of their certificates, an  *)
(* app reaches its running node and a provisioning node of the measurement *)
(* that it asks for, and both reach Lexe: before, during and after a       *)
(* rotation of the CA, whether or not the app was updated, and however old *)
(* each side is.                                                           *)
OwnNodeIsReachable ==
    /\ scenario = "tls_uptime" => TlsUptime!OwnNodeIsReachable
    /\ scenario = "tls_mock" => TlsMock!OwnNodeIsReachable
=============================================================================
