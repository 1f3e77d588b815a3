------------------------------- MODULE TlsTrust -------------------------------
(***************************************************************************)
(* The TLS connections of the app with its nodes, and of the nodes with    *)
(* Lexe: which certificates the parties make, how long these live, and     *)
(* whom a party accepts.  Every connection of an app goes through Lexe's   *)
(* reverse proxy, which may hand it to any node: to that of another user,  *)
(* to a node of another version, or to one in the wrong mode.              *)
(*                                                                         *)
(* Cryptography is symbolic.  A key is a tuple that names its owner; a     *)
(* certificate is a record of what the verifiers look at, with the key     *)
(* that signed it as `issuer'; whoever presents a certificate holds its    *)
(* key (rustls checks a signature by it in the handshake).  Time counts    *)
(* in units of which the lifetimes of certificates are multiples.          *)
(***************************************************************************)
EXTENDS Naturals, Sequences

CONSTANTS
  Users,             \* users; each stands for its root seed as well
  Nodes,             \* enclave slots of the host
  Builds,            \* what nodes run: records sgx, mrenclave, mrsigner, debug
  Short,             \* Measurement -> MrShort
  DeployEnv,         \* "dev", "staging" or "prod"
  UseSgx,            \* what the app expects
  OtherGateways,     \* environments of gateways that are reached by mistake
  AesmMixesUp,       \* whether AESM may answer with another enclave's quote
  RunLifetime, ProvisionLifetime, SharedSeedLifetime, GatewayLifetime,
  PckLifetime,       \* how long Intel's certificate of the platform lives
  RunUptime, ProvisionUptime, AppUptime,  \* processes restart within these
  RenewBuffer,       \* how early the gateway renews its certificate
  MaxTime,           \* bound on the clock
  None

VARIABLES
  now,
  nodes,    \* [Nodes -> None or a running node]
  apps,     \* [Users -> None or a running app]
  gateway,  \* the certificates of the gateway that is reached
  conns     \* established connections of apps with nodes

vars == <<now, nodes, apps, gateway, conns>>

Measurements == DOMAIN Short
Generations == {"old", "new"}   \* builds before and after a rotation of the CA

-----------------------------------------------------------------------------
(* Names and certificates. *)

NODE_RUN_DNS == <<"run">>
GATEWAY_DNS == <<"gateway">>
DEFAULT_SUBJECT_ALT_NAME == <<"lexe.app">>
node_provision_dns(mr_short) == <<"provision", mr_short>>
IsProvisionDns(dns) == dns[1] = "provision"

build_rcgen_cert(from, to, dns, pk, issuer, isCa, quote) ==
  [from |-> from, to |-> to, dns |-> dns, pk |-> pk, issuer |-> issuer,
   isCa |-> isCa, quote |-> quote]

IsValidAt(cert, t) == cert.from <= t /\ t <= cert.to

cert_contains_dns(cert, dns) == cert.dns = dns

cert_is_valid_for_at_least(cert, buffer) ==
  IsValidAt(cert, now) /\ IsValidAt(cert, now + buffer)

\* CertWithKey::into_chain_and_key: the end-entity certificate goes first.
into_chain_and_key(c) == <<c.cert>> \o (IF c.ca = None THEN <<>> ELSE <<c.ca>>)

\* The verification of a chain against one trusted root by rustls and webpki.
\* A name of None is the verification of a client, which ignores names.
WebPki(chain, root, dns) ==
  /\ IsValidAt(chain[1], now)
  /\ dns # None => cert_contains_dns(chain[1], dns)
  /\ \/ chain[1].issuer = root.pk
     \/ /\ Len(chain) = 2 /\ root.intermediates
        /\ chain[2].isCa /\ IsValidAt(chain[2], now)
        /\ chain[1].issuer = chain[2].pk /\ chain[2].issuer = root.pk

-----------------------------------------------------------------------------
(* Lexe's CA. *)

\* The key of the CA that a build of generation gen trusts.
lexe_ca_cert(env, gen) ==
  IF env = "staging" THEN <<"lexe", "staging", gen>>
                     ELSE <<"lexe", "dummy", "old">>

lexe_server_verifier(gen, chain, dns) ==
  WebPki(chain, [pk |-> lexe_ca_cert(DeployEnv, gen), intermediates |-> TRUE],
         dns)

\* What the gateway of an environment presents (external).  After a rotation
\* its certificate is signed by the new CA, whose own one the old CA signed.
GatewayCert(env, gen) ==
  [env |-> env, gen |-> gen,
   cert |-> build_rcgen_cert(now, now + GatewayLifetime, GATEWAY_DNS,
              <<"gateway", env>>, lexe_ca_cert(env, gen), FALSE, None),
   ca |-> IF gen = "old" THEN None
          ELSE build_rcgen_cert(0, MaxTime, DEFAULT_SUBJECT_ALT_NAME,
                 lexe_ca_cert(env, "new"), lexe_ca_cert(env, "old"),
                 TRUE, None)]

-----------------------------------------------------------------------------
(* Shared-seed certificates: both sides derive the same CA. *)

MutConstantCa(user) == <<"seed", "any">>

derive_shared_seed_tls_ca_key_pair(user) == <<"seed", user>>

SharedSeedCaCert(user) ==
  [pk |-> derive_shared_seed_tls_ca_key_pair(user), intermediates |-> FALSE]

SharedSeedClientCert(user) ==
  build_rcgen_cert(now, now + SharedSeedLifetime, DEFAULT_SUBJECT_ALT_NAME,
    <<"app", user>>, SharedSeedCaCert(user).pk, FALSE, None)

SharedSeedServerCert(node, user) ==
  build_rcgen_cert(now, now + SharedSeedLifetime, NODE_RUN_DNS,
    <<"server", node>>, SharedSeedCaCert(user).pk, FALSE, None)

-----------------------------------------------------------------------------
(* Remote attestation: policies, quotes, and the verifiers. *)

expected_signer(use_sgx, env) ==
  CASE ~use_sgx -> "mock"
    [] use_sgx /\ env = "dev" -> "dev"
    [] OTHER -> "prod"

trust_measurements_with_signer(measurements) ==
  [allow_debug |-> DeployEnv = "dev", mrenclaves |-> measurements,
   mrsigner |-> expected_signer(UseSgx, DeployEnv)]

trust_expected_signer ==
  [allow_debug |-> DeployEnv = "dev", mrenclaves |-> None,
   mrsigner |-> expected_signer(UseSgx, DeployEnv)]

trust_intel_qe ==
  [allow_debug |-> FALSE, mrenclaves |-> None, mrsigner |-> "intel"]

\* EnclavePolicy::verify
PolicyAccepts(policy, report) ==
  /\ policy.allow_debug \/ ~report.debug
  /\ policy.mrenclaves # None => report.mrenclave \in policy.mrenclaves
  /\ policy.mrsigner = report.mrsigner

\* ReportData::from_cert_pk: the report of an enclave commits to a key.
Report(build, cert_pk) ==
  [mrenclave |-> build.mrenclave, mrsigner |-> build.mrsigner,
   debug |-> build.debug, reportdata |-> cert_pk]

\* A quoting enclave signs a report with its attestation key; the platform's
\* PCK certifies the quoting enclave's own report, which commits to that key.
Quote(qe, report) ==
  [kind |-> "quote", pck_to |-> now + PckLifetime, pck_root |-> "intel",
   qe_report |-> Report(qe, <<"ak", qe.mrsigner>>),
   signer |-> <<"ak", qe.mrsigner>>, report |-> report]

QuotingEnclaves ==
  [mrenclave : {"qe"}, mrsigner : {"intel", "dev"}, debug : BOOLEAN]

\* SgxAttestationExtension::dummy: outside SGX the report itself.
dummy(report) == [kind |-> "report", report |-> report]

\* The evidence that quote_enclave may return for a key of a new node.  It
\* checks who quoted, not whose report was quoted.
quote_enclave(build, cert_pk) ==
  IF ~build.sgx THEN {dummy(Report(build, cert_pk))}
  ELSE {Quote(qe, report) :
          qe \in {q \in QuotingEnclaves : PolicyAccepts(trust_intel_qe, q)},
          report \in {Report(build, cert_pk)} \cup
            {Report(nodes[n].build, nodes[n].attest.cert.pk) :
               n \in {k \in Nodes : /\ AesmMixesUp /\ nodes[k] # None
                                    /\ nodes[k].build.sgx}}}

\* SgxQuoteVerifier::verify: from Intel's root down to the report.
SgxQuoteVerifier(quote) ==
  /\ quote.kind = "quote"
  /\ quote.pck_root = "intel" /\ now <= quote.pck_to
  /\ PolicyAccepts(trust_intel_qe, quote.qe_report)
  /\ quote.qe_report.reportdata = quote.signer

\* AttestationCertVerifier::verify_attestation_cert
verify_attestation_cert(use_sgx, policy, chain, dns) ==
  /\ Len(chain) = 1
  /\ WebPki(chain, [pk |-> chain[1].pk, intermediates |-> FALSE], dns)
  /\ chain[1].quote # None
  /\ IF use_sgx THEN SgxQuoteVerifier(chain[1].quote)
                ELSE chain[1].quote.kind = "report"
  /\ PolicyAccepts(policy, chain[1].quote.report)
  /\ chain[1].quote.report.reportdata = chain[1].pk

\* AttestationCert::generate
AttestationCert(node, dns_name, lifetime, quote) ==
  build_rcgen_cert(now, now + lifetime, dns_name,
    <<"attest", node>>, <<"attest", node>>, FALSE, quote)

MutSwappedLifetimes(node, mode, build, quote) ==
  [cert |-> IF mode = "provision"
            THEN AttestationCert(node, node_provision_dns(
                   Short[build.mrenclave]), RunLifetime, quote)
            ELSE AttestationCert(node, NODE_RUN_DNS, ProvisionLifetime, quote),
   ca |-> None]

\* The certificate is made once in the life of a node.
get_or_generate_node_attestation_cert(node, mode, build, quote) ==
  [cert |-> IF mode = "provision"
            THEN AttestationCert(node, node_provision_dns(
                   Short[build.mrenclave]), ProvisionLifetime, quote)
            ELSE AttestationCert(node, NODE_RUN_DNS, RunLifetime, quote),
   ca |-> None]

-----------------------------------------------------------------------------
(* The configurations of the parties, and handshakes. *)

\* What a node presents to apps, and the CA of the client certificates that it
\* requires of them.
app_node_run_server_config(node, user) ==
  [chain |-> <<SharedSeedServerCert(node, user)>>,
   client_root |-> SharedSeedCaCert(user)]

app_node_provision_server_config(attest) ==
  [chain |-> into_chain_and_key(attest), client_root |-> None]

AppNodeRunVerifier(user, chain, dns) ==
  IF dns = NODE_RUN_DNS THEN WebPki(chain, SharedSeedCaCert(user), dns)
  ELSE lexe_server_verifier(apps[user].gen, chain, dns)

AppNodeProvisionVerifier(user, measurement, chain, dns) ==
  IF IsProvisionDns(dns)
  THEN verify_attestation_cert(UseSgx,
         trust_measurements_with_signer({measurement}), chain, dns)
  ELSE lexe_server_verifier(apps[user].gen, chain, dns)

\* A request to the running node: the outer connection with the gateway, then
\* the inner one with the node, in which both present a certificate.
RunHandshake(user, node) ==
  LET served == nodes[node].served IN
  /\ AppNodeRunVerifier(user, into_chain_and_key(gateway), GATEWAY_DNS)
  /\ AppNodeRunVerifier(user, served.chain, NODE_RUN_DNS)
  /\ served.client_root # None =>
       WebPki(<<apps[user].client_cert>>, served.client_root, None)

\* A provision request: the app presents no certificate.
ProvisionHandshake(user, measurement, node) ==
  LET served == nodes[node].served IN
  /\ AppNodeProvisionVerifier(user, measurement, into_chain_and_key(gateway),
                              GATEWAY_DNS)
  /\ AppNodeProvisionVerifier(user, measurement, served.chain,
                              node_provision_dns(Short[measurement]))
  /\ served.client_root = None

\* A request of a node to Lexe, which verifies nodes by their signer.
node_lexe_client_config(node) ==
  /\ lexe_server_verifier(nodes[node].gen, into_chain_and_key(gateway),
                          GATEWAY_DNS)
  /\ verify_attestation_cert(UseSgx, trust_expected_signer,
       into_chain_and_key(nodes[node].attest), None)

-----------------------------------------------------------------------------
Init ==
  /\ now = 0
  /\ nodes = [n \in Nodes |-> None]
  /\ apps = [u \in Users |-> None]
  /\ gateway = GatewayCert(DeployEnv, "old")
  /\ conns = {}

\* A build that trusts the new CA alone comes out after the rotation.
Released(gen) == gen = "new" => gateway.gen = "new"

\* A node starts in a mode.  Only a running node has the seed of its user.
StartNode(node, mode, user, build, gen) ==
  /\ nodes[node] = None /\ Released(gen)
  /\ \E quote \in quote_enclave(build, <<"attest", node>>) :
       LET attest == get_or_generate_node_attestation_cert(node, mode, build,
                                                           quote)
       IN nodes' = [nodes EXCEPT ![node] =
            [mode |-> mode, user |-> user, build |-> build, gen |-> gen,
             born |-> now, attest |-> attest,
             served |-> IF mode = "run"
                        THEN app_node_run_server_config(node, user)
                        ELSE app_node_provision_server_config(attest)]]
  /\ UNCHANGED <<now, apps, gateway, conns>>

StartRun(node, user, build, gen) == StartNode(node, "run", user, build, gen)

StartProvision(node, build, gen) ==
  StartNode(node, "provision", None, build, gen)

StopNode(node) ==
  /\ nodes[node] # None
  /\ nodes' = [nodes EXCEPT ![node] = None]
  /\ conns' = {c \in conns : c.node # node}
  /\ UNCHANGED <<now, apps, gateway>>

\* NodeClient::new
StartApp(user, gen) ==
  /\ apps[user] = None /\ Released(gen)
  /\ apps' = [apps EXCEPT ![user] =
       [gen |-> gen, born |-> now, client_cert |-> SharedSeedClientCert(user)]]
  /\ UNCHANGED <<now, nodes, gateway, conns>>

StopApp(user) ==
  /\ apps[user] # None
  /\ apps' = [apps EXCEPT ![user] = None]
  /\ conns' = {c \in conns : c.user # user}
  /\ UNCHANGED <<now, nodes, gateway>>

\* A request to the running node that the proxy hands to some node.
ConnectRun(user, node) ==
  /\ apps[user] # None /\ nodes[node] # None
  /\ RunHandshake(user, node)
  /\ conns' = conns \cup {[mode |-> "run", user |-> user, node |-> node,
                           asked |-> None, via |-> gateway.env]}
  /\ UNCHANGED <<now, nodes, apps, gateway>>

\* NodeClient::provision, which builds a client for the measurement.
ConnectProvision(user, measurement, node) ==
  /\ apps[user] # None /\ nodes[node] # None
  /\ ProvisionHandshake(user, measurement, node)
  /\ conns' = conns \cup {[mode |-> "provision", user |-> user, node |-> node,
                           asked |-> measurement, via |-> gateway.env]}
  /\ UNCHANGED <<now, nodes, apps, gateway>>

\* Lexe rotates its CA, or an app's next requests reach another gateway.
RotateCa ==
  /\ gateway.env = DeployEnv /\ gateway.gen = "old"
  /\ gateway' = GatewayCert(DeployEnv, "new")
  /\ UNCHANGED <<now, nodes, apps, conns>>

ReachGateway(env) ==
  /\ gateway.env # env
  /\ gateway' = GatewayCert(env, gateway.gen)
  /\ UNCHANGED <<now, nodes, apps, conns>>

\* The gateway renews a certificate before it expires.
RenewalIsDue ==
  ~ /\ cert_is_valid_for_at_least(gateway.cert, RenewBuffer)
    /\ cert_contains_dns(gateway.cert, GATEWAY_DNS)

RenewGateway ==
  /\ RenewalIsDue
  /\ gateway' = GatewayCert(gateway.env, gateway.gen)
  /\ UNCHANGED <<now, nodes, apps, conns>>

\* Time passes while every process is younger than what it may reach, and a
\* gateway that is due for renewal has renewed.
Tick ==
  /\ now < MaxTime
  /\ \A n \in Nodes : nodes[n] # None =>
       now - nodes[n].born < (IF nodes[n].mode = "run" THEN RunUptime
                                                       ELSE ProvisionUptime)
  /\ \A u \in Users : apps[u] # None => now - apps[u].born < AppUptime
  /\ ~RenewalIsDue
  /\ now' = now + 1
  /\ UNCHANGED <<nodes, apps, gateway, conns>>

Next ==
  \/ \E n \in Nodes, u \in Users, b \in Builds, g \in Generations :
       StartRun(n, u, b, g)
  \/ \E n \in Nodes, b \in Builds, g \in Generations : StartProvision(n, b, g)
  \/ \E n \in Nodes : StopNode(n)
  \/ \E u \in Users, g \in Generations : StartApp(u, g)
  \/ \E u \in Users : StopApp(u)
  \/ \E u \in Users, n \in Nodes : ConnectRun(u, n)
  \/ \E u \in Users, m \in Measurements, n \in Nodes :
       ConnectProvision(u, m, n)
  \/ RotateCa
  \/ \E env \in OtherGateways \cup {DeployEnv} : ReachGateway(env)
  \/ RenewGateway
  \/ Tick

Spec == Init /\ [][Next]_vars

-----------------------------------------------------------------------------
\* Type invariant; connections end with the processes that hold them.
TypeOK ==
  /\ now \in 0..MaxTime
  /\ \A n \in Nodes : nodes[n] # None =>
       nodes[n].mode \in {"run", "provision"} /\ nodes[n].born <= now
  /\ \A u \in Users : apps[u] # None => apps[u].born <= now
  /\ \A c \in conns : apps[c.user] # None /\ nodes[c.node] # None

\* A connection of an app with a running node ends in a node that holds the
\* app's own root seed, whichever node the proxy chose: requests that spend
\* money reach only the user's node, and only from its owner.
RunConnIsOwn ==
  \A c \in conns : c.mode = "run" =>
    nodes[c.node].mode = "run" /\ nodes[c.node].user = c.user

\* A seed is only ever sent to the enclave that the app asked for: the node at
\* the other end of a provision connection runs in provision mode, with the
\* approved measurement, signed by the expected signer, in SGX, and without
\* debugging unless in development, even when two measurements share a short
\* name or the quote in the certificate is that of another enclave.
ProvisionConnIsAttested ==
  \A c \in conns : c.mode = "provision" =>
    LET node == nodes[c.node] IN
    /\ node.mode = "provision"
    /\ node.build.mrenclave = c.asked
    /\ node.build.mrsigner = expected_signer(UseSgx, DeployEnv)
    /\ node.build.sgx = UseSgx
    /\ node.build.debug => DeployEnv = "dev"

\* The outer connection is always with the gateway of the app's own deploy
\* environment.
ConnsGoThroughLexe == \A c \in conns : c.via = DeployEnv

\* What the app expects of a node.
Genuine(build) ==
  /\ build.sgx = UseSgx /\ build.mrsigner = expected_signer(UseSgx, DeployEnv)
  /\ build.debug => DeployEnv = "dev"

\* While processes restart within the lifetimes of their certificates, an app
\* reaches its running node and a provisioning node of the measurement that it
\* asks for, and both reach Lexe: before, during and after a rotation of the
\* CA, whether or not the app was updated, and however old each side is.
OwnNodeIsReachable ==
  \A n \in Nodes : nodes[n] # None /\ Genuine(nodes[n].build) =>
    /\ node_lexe_client_config(n)
    /\ \A u \in Users : apps[u] # None =>
         /\ nodes[n].mode = "run" /\ nodes[n].user = u => RunHandshake(u, n)
         /\ nodes[n].mode = "provision" =>
              ProvisionHandshake(u, nodes[n].build.mrenclave, n)
===============================================================================
