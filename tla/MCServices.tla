----------------------------- MODULE MCServices -----------------------------
(***************************************************************************)
(* The services of a running node: ChainSync, and instances of Channels,   *)
(* NodeSupervision and PeerConnections. A behaviour is one of the instance *)
(* that `scenario` names; the variables of ChainSync are otherwise as they *)
(* are initially, those of the other components are None.                  *)
(***************************************************************************)
EXTENDS ChainSync, TLC

CONSTANTS
    Scenarios,   \* the scenarios that a run looks at
    None, k1, k2, lsp, other, c1, c2

VARIABLES
    scenario,    \* the component, and its instance, that a behaviour is about
    chan, out, swept, connected, queue, tasks, monDb, timers, forwards, bgp,
    up, shutdown, fatal, panicked, ignored, disconnects, boots, phase, stage,
    exit, config, task_sup, closed_sup, recved, activity, hits, firstSync,
    told, ready, connected_peers, dial, sock, orphans, call, tries, channel_peers, updates,
    sent, due_peers, reconnector, faults, closed_peers, main

Symmetry == Permutations({k1, k2})

-----------------------------------------------------------------------------
(* Channels: one of ours, one that a stranger asks for. *)
chansVars == <<chan, out, swept, connected, queue, tasks, monDb, timers,
    forwards, bgp, up, shutdown, fatal, panicked, ignored, disconnects, boots>>

Chans == INSTANCE Channels WITH
    OutboundChans <- {c1}, LspChans <- {}, ForeignChans <- {c2},
    MaxDisconnects <- 1, MaxBoots <- 2, Faults <- TRUE

NoChans ==
    /\ chan = None /\ out = None /\ swept = None /\ connected = None
    /\ queue = None /\ tasks = None /\ monDb = None /\ timers = None
    /\ forwards = None /\ bgp = None /\ up = None /\ shutdown = None
    /\ fatal = None /\ panicked = None /\ ignored = None
    /\ disconnects = None /\ boots = None

-----------------------------------------------------------------------------
(* The supervisor, once started and while it starts. *)
supVars == <<phase, stage, exit, config, task_sup, closed_sup, recved,
    activity, hits, firstSync, told, ready>>

LOCAL S == INSTANCE NodeSupervision WITH
    Tasks <- {}, Fallible <- {}, Interruptible <- {}, Stuck <- {},
    TimeLimit <- TRUE, MaxHits <- 0, ChannelSize <- 0, Configs <- {},
    task <- task_sup, closed <- closed_sup
(* A prod node and a dev node with a mocked LSP, both in order. *)
GoodConfigs ==
    {c \in S!Config : /\ c.seed = "ok" /\ c.argsMatch /\ c.approved = "ok"
                      /\ ~c.lspUrl /\ c.allow_mock = ~c.prod}

Sup == INSTANCE NodeSupervision WITH
    Interruptible <- {"wallet db", "reconnector", "bdk sync", "ldk sync"},
    Stuck <- {}, TimeLimit <- TRUE, ChannelSize <- 1, MaxHits <- 2,
    Tasks <- {"wallet db", "app server", "bdk sync", "timer"},
    Fallible <- {"app server", "bdk sync"}, Configs <- GoodConfigs,
    task <- task_sup, closed <- closed_sup
Start == INSTANCE NodeSupervision WITH
    Interruptible <- {"wallet db", "reconnector", "bdk sync", "ldk sync"},
    Stuck <- {}, TimeLimit <- TRUE, ChannelSize <- 1, MaxHits <- 1,
    Tasks <- {"refresh fees", "credentials", "reconnector", "app server"},
    Fallible <- {"reconnector"}, Configs <- S!Config,
    task <- task_sup, closed <- closed_sup

NoSup ==
    /\ phase = None /\ stage = None /\ exit = None /\ config = None
    /\ task_sup = None /\ closed_sup = None /\ recved = None /\ activity = None
    /\ hits = None /\ firstSync = None /\ told = None /\ ready = None

-----------------------------------------------------------------------------
(* Chain sync with two clients; with one, timeouts and a shutdown. *)
Sync == INSTANCE ChainSync WITH CanTimeOut <- FALSE, CanShutDown <- FALSE

OneCall == Cardinality({c \in Clients : ~NotCalled(c)}) <= 1

-----------------------------------------------------------------------------
(* Peers: two callers that race for the LSP; the map of channel peers. *)
peersVars == <<connected_peers, dial, sock, orphans, call, tries,
    channel_peers, updates, sent, due_peers, reconnector, faults,
    closed_peers, main>>

Race == INSTANCE PeerConnections WITH
    Peers <- {lsp}, Callers <- {<<"sync", lsp>>, <<"open_channel", lsp>>},
    InitialPeers <- {}, Retries <- 1, ChannelSize <- 1,
    Updates <- {<<"Add", lsp>>, <<"Remove", lsp>>}, MaxUpdates <- 2,
    MaxFaults <- 1, CanShutDown <- TRUE, connected <- connected_peers,
    due <- due_peers, closed <- closed_peers
PeerMap == INSTANCE PeerConnections WITH
    Peers <- {lsp, other}, Callers <- {<<"sync", lsp>>},
    InitialPeers <- {lsp}, Retries <- 1, ChannelSize <- 1,
    Updates <- {<<"Add", lsp>>, <<"Add", other>>, <<"Remove", lsp>>},
    MaxUpdates <- 2, MaxFaults <- 1, CanShutDown <- FALSE,
    connected <- connected_peers, due <- due_peers, closed <- closed_peers

NoPeers ==
    /\ connected_peers = None /\ dial = None /\ sock = None
    /\ orphans = None /\ call = None /\ tries = None
    /\ channel_peers = None /\ updates = None /\ sent = None
    /\ due_peers = None /\ reconnector = None /\ faults = None
    /\ closed_peers = None /\ main = None

-----------------------------------------------------------------------------
(* The constants of the instances are as their modules require. *)
ASSUME InstancesAreProper ==
    /\ Chans!ChannelsArePartitioned

mcVars == <<scenario, chansVars, supVars, vars, peersVars>>

notChans == <<scenario, supVars, vars, peersVars>>
notSup == <<scenario, chansVars, vars, peersVars>>
notSync == <<scenario, chansVars, supVars, peersVars>>
notPeers == <<scenario, chansVars, supVars, vars>>

MCInit ==
    /\ scenario \in Scenarios /\ Init
    /\ \/ scenario = "channels" /\ Chans!Init
       \/ scenario = "supervision" /\ Sup!Init
       \/ scenario = "start" /\ Start!Init
       \/ scenario \in {"chain_sync", "receives"}
       \/ scenario = "peers" /\ Race!Init
       \/ scenario = "peers_map" /\ PeerMap!Init
    /\ scenario \in {"channels"} \/ NoChans
    /\ scenario \in {"supervision", "start"} \/ NoSup
    /\ scenario \in {"peers", "peers_map"} \/ NoPeers

MCNext ==
    \/ scenario = "channels" /\ Chans!Next /\ UNCHANGED notChans
    \/ scenario = "supervision" /\ Sup!Next /\ UNCHANGED notSup
    \/ scenario = "start" /\ Start!Next /\ UNCHANGED notSup
    \/ scenario = "chain_sync" /\ Sync!Next /\ UNCHANGED notSync
    \/ scenario = "receives" /\ Next /\ OneCall' /\ UNCHANGED notSync
    \/ scenario = "peers" /\ Race!Next /\ UNCHANGED notPeers
    \/ scenario = "peers_map" /\ PeerMap!Next /\ UNCHANGED notPeers

MCSpec == MCInit /\ [][MCNext]_mcVars

-----------------------------------------------------------------------------
(* Properties. *)

(* Only the LSP opens channels to the node, and a sweep spends only        *)
(* outputs that the wallet does not own yet, in every order of events,     *)
(* handlers, disconnects and restarts (event_handler.rs, event.rs).        *)
ChannelsAreSafe ==
    scenario = "channels" => Chans!TypeOK /\ Chans!OnlyTheLspOpens /\ Chans!StaticIsNotSwept

(* The runner hears that the node is ready only when it is synced and      *)
(* connected; only an approved version with its own seed and arguments     *)
(* starts its tasks; run returns without an error only after a shutdown    *)
(* and with all tasks ended; and no task waits for a second shutdown       *)
(* (run.rs, shutdown.rs).                                                  *)
RunsAsPromised ==
    /\ scenario = "supervision" => Sup!TypeOK /\ Sup!CleanExit /\ Sup!RecvAtMostOnce
    /\ scenario = "start" => Start!ReadyMeansConnected /\ Start!OnlyApprovedRuns

(* A call that returns Ok does so while its peer is connected, whichever   *)
(* actor won the race; without faults no call is refused because of the    *)
(* race; and the reconnector dials only peers that it was told of          *)
(* (p2p.rs).                                                               *)
OkMeansConnected ==
    [][/\ scenario = "peers" => Race!TypeOK /\ Race!OkIfConnected /\ Race!RaceIsTolerated
       /\ scenario = "peers_map" => PeerMap!DialsOnlyItsPeers]_mcVars
=============================================================================
