------------------------------- MODULE Channels -------------------------------
(***************************************************************************)
(* The life of the node's channels: open_channel and close_channel         *)
(* (lexe-ln/src/channel.rs), the channel events of event_handler.rs and    *)
(* event.rs, and the scripts and sweeps of the keys manager.               *)
(*                                                                         *)
(* LDK, the peers and the chain are external.  What matters of LDK here:   *)
(* it forgets a channel that is not funded yet when the peer disconnects   *)
(* or the process ends, and never persists the events of such a channel;   *)
(* SpendableOutputs stays in the channel's monitor until it is drained and *)
(* the monitor is persisted again.  Every drained event is handled by a    *)
(* detached task, so handlers run late and in any order.                   *)
(***************************************************************************)
EXTENDS Integers, FiniteSets

CONSTANTS
    OutboundChans,  \* channels that open_channel may open to the LSP
    LspChans,       \* channels that the LSP may open to us
    ForeignChans,   \* channels that another peer may try to open to us
    MaxDisconnects, \* how often a peer may disconnect
    MaxBoots,       \* how often the node may be started
    Faults          \* may funding and broadcasts fail, and may the node crash?

ChannelsArePartitioned ==
    /\ OutboundChans \cap LspChans = {}
    /\ OutboundChans \cap ForeignChans = {}
    /\ LspChans \cap ForeignChans = {}
    /\ MaxDisconnects \in Nat /\ MaxBoots \in Nat \ {0} /\ Faults \in BOOLEAN

VARIABLES
    chan,       \* how far each channel is
    out,        \* what a closed channel leaves on chain for us
    swept,      \* channels whose output was spent to our wallet
    connected,  \* peers that we are connected to
    queue,      \* events that LDK holds
    tasks,      \* event handlers spawned and not yet finished
    monDb,      \* channels whose persisted monitor holds a SpendableOutputs
    timers,     \* tasks sleeping before process_pending_htlc_forwards
    forwards,   \* does LDK hold HTLCs that wait to be processed?
    bgp,        \* is the background processor running?
    up, shutdown, fatal,
    panicked,   \* history: handlers that have panicked
    ignored,    \* history: requests of foreign peers handled without a shutdown
    disconnects, boots

process == <<bgp, up, shutdown, fatal>>
ldk == <<chan, out, connected, queue, monDb, forwards>>
history == <<panicked, ignored, disconnects, boots>>
vars == <<ldk, process, history, swept, tasks, timers>>

Chans == OutboundChans \cup LspChans \cup ForeignChans
Peers == {"lsp", "other"}
Peer(c) == IF c \in ForeignChans THEN "other" ELSE "lsp"

Unfunded == {"proposed", "requested", "accepted"}
Funded   == {"funded", "pending", "ready", "closing"}

(* Why the event handler looks at inbound channels before they exist. *)
USER_CONFIG == [accept_inbound_channels          |-> TRUE,
                manually_accept_inbound_channels |-> TRUE]

Emit(name, c) == queue' = queue \cup {<<name, c>>}

Init ==
    /\ chan = [c \in Chans |-> "none"]
    /\ out = [c \in Chans |-> "none"]
    /\ swept = {} /\ connected = {} /\ queue = {} /\ tasks = {} /\ monDb = {}
    /\ timers = 0 /\ forwards = FALSE
    /\ bgp = TRUE /\ up = TRUE /\ shutdown = FALSE /\ fatal = FALSE
    /\ panicked = {} /\ ignored = {} /\ disconnects = 0 /\ boots = 1

-----------------------------------------------------------------------------
(* channel.rs *)

create_channel(c) == chan' = [chan EXCEPT ![c] = "proposed"]

(* Connects to the LSP if necessary and creates the channel.  A call that  *)
(* cannot connect changes nothing.                                         *)
open_channel(c) ==
    /\ up /\ chan[c] = "none"
    /\ connected' = connected \cup {"lsp"}
    /\ create_channel(c)
    /\ UNCHANGED <<out, queue, monDb, forwards, process, history, swept, tasks, timers>>

(* A forced close broadcasts our latest commitment; a cooperative one needs*)
(* the peer.  A close that LDK refuses changes nothing.                    *)
close_channel(c, force_close) ==
    /\ up /\ chan[c] \in Funded
    /\ IF force_close
       THEN /\ chan' = [chan EXCEPT ![c] = "closed"]
            /\ out' = [out EXCEPT ![c] = "forced"]
            /\ Emit("ChannelClosed", c)
       ELSE /\ Peer(c) \in connected /\ chan[c] # "closing"
            /\ chan' = [chan EXCEPT ![c] = "closing"]
            /\ UNCHANGED <<out, queue>>
    /\ UNCHANGED <<connected, monDb, forwards, process, history, swept, tasks, timers>>

-----------------------------------------------------------------------------
(* LDK and its peers (external). *)

PeerConnects(p) ==
    /\ up /\ p \notin connected
    /\ p = "other" => ForeignChans # {}
    /\ connected' = connected \cup {p}
    /\ UNCHANGED <<chan, out, queue, monDb, forwards, process, history, swept, tasks, timers>>

(* Channels that are not funded yet are forgotten. *)
PeerDisconnects(p) ==
    /\ up /\ p \in connected /\ disconnects < MaxDisconnects
    /\ disconnects' = disconnects + 1
    /\ connected' = connected \ {p}
    /\ chan' = [c \in Chans |-> IF Peer(c) = p /\ chan[c] \in Unfunded
                                THEN "closed" ELSE chan[c]]
    /\ UNCHANGED <<out, queue, monDb, forwards, process, panicked, ignored, boots,
                   swept, tasks, timers>>

(* The next message of the peer that opens or is opened a channel. *)
Negotiate(c) ==
    /\ up /\ Peer(c) \in connected
    /\ \/ /\ c \in OutboundChans /\ chan[c] = "proposed"
          /\ chan' = [chan EXCEPT ![c] = "accepted"]
          /\ Emit("FundingGenerationReady", c)
       \/ /\ c \notin OutboundChans /\ chan[c] = "none"
          /\ USER_CONFIG.accept_inbound_channels
          /\ IF USER_CONFIG.manually_accept_inbound_channels
             THEN /\ chan' = [chan EXCEPT ![c] = "requested"]
                  /\ Emit("OpenChannelRequest", c)
             ELSE chan' = [chan EXCEPT ![c] = "accepted"] /\ UNCHANGED queue
       \/ /\ \/ c \in OutboundChans /\ chan[c] = "funded"
             \/ c \notin OutboundChans /\ chan[c] = "accepted"
          /\ chan' = [chan EXCEPT ![c] = "pending"]
          /\ Emit("ChannelPending", c)
       \/ /\ chan[c] = "pending"
          /\ chan' = [chan EXCEPT ![c] = "ready"]
          /\ Emit("ChannelReady", c)
    /\ UNCHANGED <<out, connected, monDb, forwards, process, history, swept, tasks, timers>>

(* A cooperative close pays to the shutdown script that the keys manager   *)
(* gave to LDK.                                                            *)
CoopClose(c) ==
    /\ up /\ chan[c] = "closing" /\ Peer(c) \in connected
    /\ chan' = [chan EXCEPT ![c] = "closed"]
    /\ out' = [out EXCEPT ![c] = "cooperative"]
    /\ Emit("ChannelClosed", c)
    /\ UNCHANGED <<connected, monDb, forwards, process, history, swept, tasks, timers>>

(* What a closed channel leaves for us can be spent.  The update that adds *)
(* the event to the monitor is persisted.                                  *)
OutputsMature(c) ==
    /\ up /\ out[c] \in {"forced", "cooperative"}
    /\ c \notin monDb /\ <<"SpendableOutputs", c>> \notin queue \cup tasks
    /\ out' = [out EXCEPT ![c] = IF @ = "forced" THEN "DelayedPaymentOutput"
                                             ELSE "StaticOutput"]
    /\ Emit("SpendableOutputs", c)
    /\ monDb' = monDb \cup {c}
    /\ UNCHANGED <<chan, connected, forwards, process, history, swept, tasks, timers>>

(* A later update persists the monitor without the events drained so far.  *)
MonitorPersisted(c) ==
    /\ up /\ c \in monDb /\ <<"SpendableOutputs", c>> \notin queue
    /\ monDb' = monDb \ {c}
    /\ UNCHANGED <<chan, out, connected, queue, forwards, process, history, swept, tasks, timers>>

(* HTLCs arrived over a channel that is ready. *)
HtlcsPending(c) ==
    /\ up /\ chan[c] = "ready" /\ Peer(c) \in connected /\ ~forwards
    /\ forwards' = TRUE
    /\ Emit("PendingHTLCsForwardable", c)
    /\ UNCHANGED <<chan, out, connected, monDb, process, history, swept, tasks, timers>>

-----------------------------------------------------------------------------
(* The keys manager: which wallet owns the scripts that LDK asks for, and  *)
(* which outputs the node sweeps.                                          *)

(* The scripts pay to the address they are built from; only a segwit       *)
(* address will do, and BDK gives out no other.                            *)
shutdown_scripts_from_recv_address(recv_address) ==
    [destination_script |-> recv_address, shutdown_scriptpubkey |-> recv_address]

(* LexeKeysManager::init: LDK's keys manager for our seed, with scripts for*)
(* an address of the BDK wallet.                                           *)
keys_manager == shutdown_scripts_from_recv_address("bdk")

(* Whose address a cooperative close pays to. *)
get_shutdown_scriptpubkey == keys_manager.shutdown_scriptpubkey

(* MUTANT of spend_spendable_outputs: the one of LDK's KeysManager. *)
MutSpendAll(outputs) == outputs

(* StaticOutputs are left alone: the wallet already owns them. *)
spend_spendable_outputs(outputs) == outputs \ {"StaticOutput"}

-----------------------------------------------------------------------------
(* event_handler.rs and event.rs *)

Done(event, c) == tasks' = tasks \ {<<event, c>>}

(* EventHandleError::Fatal. *)
Fatal(event, c) ==
    /\ Done(event, c)
    /\ shutdown' = TRUE /\ fatal' = TRUE
    /\ UNCHANGED <<bgp, up>>

(* Only the LSP may open a channel to us; any other request is rejected and*)
(* stops the node.  An error of LDK, which no longer knows the channel, is *)
(* tolerated and returns before the shutdown.                              *)
handle_open_channel_request(c) ==
    /\ <<"OpenChannelRequest", c>> \in tasks
    /\ Done("OpenChannelRequest", c)
    /\ IF chan[c] # "requested"
       THEN /\ ignored' = ignored \cup ({c} \cap ForeignChans)
            /\ UNCHANGED <<chan, shutdown>>
       ELSE IF Peer(c) # "lsp"
       THEN /\ chan' = [chan EXCEPT ![c] = "closed"]
            /\ shutdown' = TRUE
            /\ UNCHANGED ignored
       ELSE /\ chan' = [chan EXCEPT ![c] = "accepted"]
            /\ UNCHANGED <<shutdown, ignored>>
    /\ UNCHANGED <<bgp, up, fatal, out, connected, queue, monDb, forwards, panicked,
                   disconnects, boots, swept, timers>>

(* MUTANT of FundingFails: the pending channel is not closed. *)
MutFundingForgotten(c) ==
    /\ Faults /\ <<"FundingGenerationReady", c>> \in tasks
    /\ Done("FundingGenerationReady", c)
    /\ UNCHANGED <<process, ldk, history, swept, timers>>

(* create_and_sign_funding_tx fails: force close the pending channel, which*)
(* panics if LDK no longer knows it.                                       *)
FundingFails(c) ==
    /\ Faults /\ <<"FundingGenerationReady", c>> \in tasks
    /\ IF chan[c] = "accepted"
       THEN /\ chan' = [chan EXCEPT ![c] = "closed"]
            /\ Fatal("FundingGenerationReady", c)
            /\ UNCHANGED panicked
       ELSE /\ panicked' = panicked \cup {c}
            /\ Done("FundingGenerationReady", c)
            /\ UNCHANGED <<chan, process>>
    /\ UNCHANGED <<out, connected, queue, monDb, forwards, ignored, disconnects, boots,
                   swept, timers>>

(* It has succeeded, once the wallet's lock was free: hand the transaction *)
(* to LDK, which refuses it if it no longer knows the channel.             *)
handle_funding_generation_ready(c) ==
    /\ <<"FundingGenerationReady", c>> \in tasks
    /\ IF chan[c] = "accepted"
       THEN /\ chan' = [chan EXCEPT ![c] = "funded"]
            /\ Done("FundingGenerationReady", c)
            /\ UNCHANGED process
       ELSE UNCHANGED chan /\ Fatal("FundingGenerationReady", c)
    /\ UNCHANGED <<out, connected, queue, monDb, forwards, history, swept, timers>>

(* Spends what the wallet does not own yet to an address of the wallet. *)
handle_spendable_outputs(c) ==
    /\ <<"SpendableOutputs", c>> \in tasks
    /\ Done("SpendableOutputs", c)
    /\ swept' = IF spend_spendable_outputs({out[c]}) = {} THEN swept ELSE swept \cup {c}
    /\ UNCHANGED <<process, ldk, history, timers>>

(* The spending transaction was not built, or not broadcast. *)
SpendFails(c) ==
    /\ Faults /\ <<"SpendableOutputs", c>> \in tasks
    /\ spend_spendable_outputs({out[c]}) # {}
    /\ Fatal("SpendableOutputs", c)
    /\ UNCHANGED <<ldk, history, swept, timers>>

(* Spawns a task that sleeps before it processes the HTLCs. *)
handle_pending_htlcs_forwardable(c) ==
    /\ <<"PendingHTLCsForwardable", c>> \in tasks
    /\ Done("PendingHTLCsForwardable", c)
    /\ timers' = timers + 1
    /\ UNCHANGED <<process, ldk, history, swept>>

ProcessPendingHtlcForwards ==
    /\ up /\ timers > 0
    /\ timers' = timers - 1
    /\ forwards' = FALSE
    /\ UNCHANGED <<chan, out, connected, queue, monDb, process, history, swept, tasks>>

(* ChannelPending, ChannelReady and ChannelClosed only reach the tests. *)
HandleInformational(event, c) ==
    /\ event \in {"ChannelPending", "ChannelReady", "ChannelClosed"}
    /\ <<event, c>> \in tasks
    /\ Done(event, c)
    /\ UNCHANGED <<process, ldk, history, swept, timers>>

(* The BGP drains the events of the channel manager and of the monitors. *)
BgpProcess ==
    /\ up /\ bgp /\ (queue # {} \/ fatal)
    /\ tasks' = tasks \cup queue
    /\ queue' = {}
    /\ bgp' = ~fatal
    /\ UNCHANGED <<up, shutdown, fatal, chan, out, connected, monDb, forwards, history,
                   swept, timers>>

BgpShutdown ==
    /\ up /\ bgp /\ shutdown
    /\ bgp' = FALSE
    /\ UNCHANGED <<up, shutdown, fatal, ldk, history, swept, tasks, timers>>

(* The process ends once its BGP has, or crashes.  What is left is what LDK*)
(* reads back at the next boot.                                            *)
ProcessEnds ==
    /\ up /\ (~bgp \/ Faults)
    /\ up' = FALSE /\ bgp' = FALSE /\ shutdown' = FALSE /\ fatal' = FALSE
    /\ connected' = {} /\ tasks' = {} /\ timers' = 0 /\ forwards' = FALSE
    /\ chan' = [c \in Chans |-> IF chan[c] \in Unfunded THEN "closed" ELSE chan[c]]
    /\ queue' = {<<"SpendableOutputs", c>> : c \in monDb}
    /\ UNCHANGED <<out, monDb, history, swept>>

Boot ==
    /\ ~up /\ boots < MaxBoots
    /\ up' = TRUE /\ bgp' = TRUE /\ boots' = boots + 1
    /\ UNCHANGED <<shutdown, fatal, ldk, panicked, ignored, disconnects, swept, tasks, timers>>

Handle(e) ==
    LET c == e[2] IN
    \/ handle_open_channel_request(c)
    \/ handle_funding_generation_ready(c) \/ FundingFails(c)
    \/ handle_spendable_outputs(c)
    \/ handle_pending_htlcs_forwardable(c)
    \/ HandleInformational(e[1], c)

Next ==
    \/ \E c \in OutboundChans : open_channel(c)
    \/ \E c \in Chans, force_close \in BOOLEAN : close_channel(c, force_close)
    \/ \E p \in Peers : PeerConnects(p) \/ PeerDisconnects(p)
    \/ \E c \in Chans : Negotiate(c) \/ CoopClose(c) \/ OutputsMature(c)
                        \/ MonitorPersisted(c) \/ HtlcsPending(c)
    \/ \E e \in tasks : Handle(e)
    \/ \E c \in Chans : SpendFails(c)
    \/ ProcessPendingHtlcForwards
    \/ BgpProcess \/ BgpShutdown \/ ProcessEnds \/ Boot

Spec == Init /\ [][Next]_vars

Event == {"OpenChannelRequest", "FundingGenerationReady", "ChannelPending", "ChannelReady",
          "ChannelClosed", "SpendableOutputs", "PendingHTLCsForwardable"} \X Chans

(* The runtime polls every handler, the BGP processes events at least on   *)
(* its timer, outputs mature, and the reconnector brings back the LSP, for *)
(* which reconnecting is possible again and again.                         *)
Fairness ==
    /\ \A e \in Event : WF_vars(e \in tasks /\ Handle(e))
    /\ WF_vars(BgpProcess) /\ WF_vars(BgpShutdown) /\ WF_vars(ProcessPendingHtlcForwards)
    /\ WF_vars(~bgp /\ ProcessEnds) /\ WF_vars(Boot)
    /\ WF_vars(PeerConnects("lsp"))
    /\ \A c \in Chans : WF_vars(OutputsMature(c)) /\ SF_vars(CoopClose(c))

FairSpec == Spec /\ Fairness

-----------------------------------------------------------------------------
(* Properties. *)

(* Types; a handler runs only in a running process, and an output exists   *)
(* only of a closed channel.                                               *)
TypeOK ==
    /\ chan \in [Chans -> {"none", "closed"} \cup Unfunded \cup Funded]
    /\ out \in [Chans -> {"none", "forced", "cooperative", "DelayedPaymentOutput", "StaticOutput"}]
    /\ \A c \in Chans : out[c] # "none" => chan[c] = "closed"
    /\ swept \subseteq Chans /\ monDb \subseteq Chans
    /\ connected \subseteq Peers
    /\ queue \subseteq Event /\ tasks \subseteq Event
    /\ timers \in 0..1 /\ (forwards => up)
    /\ tasks # {} => up

(* "Only accept inbound channels from Lexe's LSP": whatever the order of   *)
(* requests, handlers, disconnects and restarts, a channel of another peer *)
(* is never accepted, nor does one of its channels outlive the handler.    *)
OnlyTheLspOpens ==
    \A c \in ForeignChans :
        /\ chan[c] \in {"none", "requested", "closed"}
        /\ chan[c] = "requested" => <<"OpenChannelRequest", c>> \in queue \cup tasks

(* Nothing that the wallet owns is spent again by a sweep, also when the   *)
(* same event is handled twice.                                            *)
StaticIsNotSwept == \A c \in swept : out[c] = "DelayedPaymentOutput"

(* Our share of a closed channel ends up in the BDK wallet: as the output  *)
(* of a cooperative close, whose script is one of the wallet's, or swept.  *)
InWallet(c) ==
    \/ out[c] = "StaticOutput" /\ get_shutdown_scriptpubkey = "bdk"
    \/ c \in swept

(* Every channel that is closed, by whichever way, while no handler fails  *)
(* pays out to the wallet.                                                 *)
CloseReachesWallet ==
    \A c \in Chans : chan[c] = "closing" \/ out[c] # "none" ~> InWallet(c)

(* A channel waits for handle_open_channel_request, or, if it is ours, for *)
(* handle_funding_generation_ready, which fund, accept or drop it.         *)
Undecided(c) == chan[c] = "requested" \/ (c \in OutboundChans /\ chan[c] = "accepted")

(* "Failed to force close after funding generation failed" is asserted not *)
(* to happen: handle_funding_generation_ready never panics.                *)
HandlerDoesNotPanic == panicked = {}

(* "Lexe's proxy should have prevented non-Lexe nodes from connecting to   *)
(* us. Log an error and shut down.": no foreign request is handled without *)
(* a shutdown.                                                             *)
ForeignRequestShutsDown == ignored = {}
=============================================================================
