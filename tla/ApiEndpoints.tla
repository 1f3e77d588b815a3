----------------------------- MODULE ApiEndpoints -----------------------------
(***************************************************************************)
(* The endpoints of the node's, the app's and Lexe's APIs, as the clients   *)
(* call them (node/src/api/client.rs, common/src/client.rs) and as the      *)
(* servers route them (node/src/server/mod.rs, node/src/provision.rs; for   *)
(* services outside the repository, the traits of common/src/api/def.rs).   *)
(***************************************************************************)
EXTENDS ApiErrors

CONSTANT Retries   \* retries of upsert_file_with_retries and bearer_auth

-----------------------------------------------------------------------------
(* The request line and the number of retries of each client method.       *)
MutAlwaysRetry(method, path) ==
  [method |-> method, path |-> path, retries |-> Retries]

Once(method, path) == [method |-> method, path |-> path, retries |-> 0]
Retried(method, path) == [method |-> method, path |-> path, retries |-> Retries]

BackendFiles ==
  [upsert_file_with_retries |-> Retried("PUT", "/node/v1/file"),
   bearer_auth |-> Retried("POST", "/node/bearer_auth"),
   get_user |-> Once("GET", "/node/v1/user"),
   get_sealed_seed |-> Once("GET", "/node/v1/sealed_seed"),
   create_sealed_seed |-> Once("PUT", "/node/v1/sealed_seed"),
   delete_sealed_seeds |-> Once("DELETE", "/node/v1/sealed_seed"),
   get_scid |-> Once("GET", "/node/v1/scid"),
   get_file |-> Once("GET", "/node/v1/file"),
   create_file |-> Once("POST", "/node/v1/file"),
   upsert_file |-> Once("PUT", "/node/v1/file"),
   delete_file |-> Once("DELETE", "/node/v1/file"),
   get_directory |-> Once("GET", "/node/v1/directory")]

BackendPayments ==
  [get_payment |-> Once("GET", "/node/v1/payments"),
   create_payment |-> Once("POST", "/node/v1/payments"),
   upsert_payment |-> Once("PUT", "/node/v1/payments"),
   upsert_payment_batch |-> Once("PUT", "/node/v1/payments/batch"),
   get_payments_by_ids |-> Once("POST", "/node/v1/payments/ids"),
   get_new_payments |-> Once("GET", "/node/v1/payments/new"),
   get_pending_payments |-> Once("GET", "/node/v1/payments/pending"),
   get_finalized_payment_ids |-> Once("GET", "/node/v1/payments/final")]

BackendClient ==
  [op \in DOMAIN BackendFiles \cup DOMAIN BackendPayments |->
     IF op \in DOMAIN BackendFiles THEN BackendFiles[op] ELSE BackendPayments[op]]

LspClient == [get_new_scid |-> Once("GET", "/node/v1/scid")]

RunnerClient == [ready |-> Once("POST", "/node/ready")]

GatewayClient ==
  [signup |-> Once("POST", "/app/v1/signup"),
   bearer_auth |-> Once("POST", "/app/bearer_auth"),
   get_fiat_rates |-> Once("GET", "/app/v1/fiat_rates"),
   latest_release |-> Once("GET", "/app/v1/latest_release")]

ProvisionClient == [provision |-> Once("POST", "/app/provision")]

NodeClient ==
  [node_info |-> Once("GET", "/app/node_info"),
   create_invoice |-> Once("POST", "/app/create_invoice"),
   pay_invoice |-> Once("POST", "/app/pay_invoice"),
   preflight_pay_invoice |-> Once("POST", "/app/preflight_pay_invoice"),
   pay_onchain |-> Once("POST", "/app/pay_onchain"),
   preflight_pay_onchain |-> Once("POST", "/app/preflight_pay_onchain"),
   get_address |-> Once("POST", "/app/get_address"),
   get_payments_by_ids |-> Once("POST", "/app/payments/ids"),
   get_new_payments |-> Once("GET", "/app/payments/new"),
   update_payment_note |-> Once("PUT", "/app/payments/note")]

(* The operators' tools that call these are not in the repository. *)
LexeNodeRunApi ==
  [status |-> Once("GET", "/lexe/status"),
   resync |-> Once("POST", "/lexe/resync"),
   open_channel |-> Once("POST", "/lexe/open_channel"),
   test_event |-> Once("POST", "/lexe/test_event"),
   shutdown |-> Once("GET", "/lexe/shutdown")]

Clients ==
  [backend |-> BackendClient, lsp |-> LspClient, runner |-> RunnerClient,
   gateway |-> GatewayClient, provision |-> ProvisionClient,
   app |-> NodeClient, lexe |-> LexeNodeRunApi]

-----------------------------------------------------------------------------
(* The routes of the servers: the routers of the node, and for the other    *)
(* services, which are not in the repository, the endpoints that the API    *)
(* traits document.                                                         *)
app_router ==
  {<<"GET", "/app/node_info", "node_info">>,
   <<"POST", "/app/create_invoice", "create_invoice">>,
   <<"POST", "/app/pay_invoice", "pay_invoice">>,
   <<"POST", "/app/preflight_pay_invoice", "preflight_pay_invoice">>,
   <<"POST", "/app/pay_onchain", "pay_onchain">>,
   <<"POST", "/app/preflight_pay_onchain", "preflight_pay_onchain">>,
   <<"POST", "/app/get_address", "get_address">>,
   <<"POST", "/app/payments/ids", "get_payments_by_ids">>,
   <<"GET", "/app/payments/new", "get_new_payments">>,
   <<"PUT", "/app/payments/note", "update_payment_note">>}

lexe_router ==
  {<<"GET", "/lexe/status", "status">>,
   <<"POST", "/lexe/resync", "resync">>,
   <<"POST", "/lexe/open_channel", "open_channel">>,
   <<"POST", "/lexe/test_event", "test_event">>,
   <<"GET", "/lexe/shutdown", "shutdown">>}

provision_router == {<<"POST", "/app/provision", "provision">>}

NodeBackendApi ==
  {<<"PUT", "/node/v1/file", "upsert_file">>,
   <<"POST", "/node/bearer_auth", "bearer_auth">>,
   <<"GET", "/node/v1/user", "get_user">>,
   <<"GET", "/node/v1/sealed_seed", "get_sealed_seed">>,
   <<"PUT", "/node/v1/sealed_seed", "create_sealed_seed">>,
   <<"DELETE", "/node/v1/sealed_seed", "delete_sealed_seeds">>,
   <<"GET", "/node/v1/scid", "get_scid">>,
   <<"GET", "/node/v1/file", "get_file">>,
   <<"POST", "/node/v1/file", "create_file">>,
   <<"DELETE", "/node/v1/file", "delete_file">>,
   <<"GET", "/node/v1/directory", "get_directory">>,
   <<"GET", "/node/v1/payments", "get_payment">>,
   <<"POST", "/node/v1/payments", "create_payment">>,
   <<"PUT", "/node/v1/payments", "upsert_payment">>,
   <<"PUT", "/node/v1/payments/batch", "upsert_payment_batch">>,
   <<"POST", "/node/v1/payments/ids", "get_payments_by_ids">>,
   <<"GET", "/node/v1/payments/new", "get_new_payments">>,
   <<"GET", "/node/v1/payments/pending", "get_pending_payments">>,
   <<"GET", "/node/v1/payments/final", "get_finalized_payment_ids">>}

AppGatewayApi ==
  {<<"POST", "/app/v1/signup", "signup">>,
   <<"POST", "/app/bearer_auth", "bearer_auth">>,
   <<"GET", "/app/v1/fiat_rates", "get_fiat_rates">>,
   <<"GET", "/app/v1/latest_release", "latest_release">>}

(* What the trait of the app's API says of the routes in app_router. *)
AppNodeRunApi ==
  {<<"GET", "/app/node_info", "node_info">>,
   <<"POST", "/app/create_invoice", "create_invoice">>,
   <<"POST", "/app/pay_invoice", "pay_invoice">>,
   <<"POST", "/app/preflight_pay_invoice", "preflight_pay_invoice">>,
   <<"POST", "/app/pay_onchain", "pay_onchain">>,
   <<"POST", "/app/preflight_pay_onchain", "preflight_pay_onchain">>,
   <<"POST", "/app/get_address", "get_address">>,
   <<"POST", "/v1/payments/ids", "get_payments_by_ids">>,
   <<"GET", "/app/payments/new", "get_new_payments">>,
   <<"PUT", "/app/payments/note", "update_payment_note">>}

NodeLspApi == {<<"GET", "/node/v1/scid", "get_new_scid">>}

NodeRunnerApi == {<<"POST", "/node/ready", "ready">>}

Routers ==
  [backend |-> NodeBackendApi, lsp |-> NodeLspApi, runner |-> NodeRunnerApi,
   gateway |-> AppGatewayApi, provision |-> provision_router,
   app |-> app_router, lexe |-> lexe_router]

(* The kinds of error that an endpoint's API has. *)
KindsOf(server, op) ==
  CASE server \in {"app", "lexe", "provision"} -> NodeErrorKind
    [] server = "lsp" -> LspErrorKind
    [] server = "runner" -> RunnerErrorKind
    [] op \in {"get_fiat_rates", "latest_release"} -> GatewayErrorKind
    [] OTHER -> BackendErrorKind

(* The handler for a request, if there is one: axum matches method and path. *)

Route(server, method, path) ==
  {r[3] : r \in {r \in Routers[server] : r[1] = method /\ r[2] = path}}
=============================================================================
