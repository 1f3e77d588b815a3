--------------------------- MODULE PeerConnections ---------------------------
(***************************************************************************)
(* lexe-ln/src/p2p.rs: connecting to channel peers, the reconnector task,  *)
(* and the disconnect of all peers when the node shuts down. An actor that *)
(* dials is a caller of connect_channel_peer_if_necessary or the           *)
(* reconnector's attempt for one peer. LDK's peer manager is external.     *)
(***************************************************************************)
EXTENDS Naturals, Sequences, FiniteSets

CONSTANTS
    Peers,        \* channel peers
    Callers,      \* a set of <<name, peer>>: calls of connect_channel_peer_if_necessary
    InitialPeers, \* initial_channel_peers of the reconnector
    Retries,      \* 3 in the code
    ChannelSize,  \* capacity of the update channel, SMALLER_CHANNEL_SIZE
    Updates,      \* the updates that may be sent: <<"Add" or "Remove", peer>>
    MaxUpdates,   \* bound on the updates sent
    MaxFaults,    \* bound on failed dials and lost connections
    CanShutDown   \* whether a shutdown may be sent

VARIABLES
    connected,     \* peers that the peer manager lists
    dial,          \* do_connect_peer of every actor: "none", "tcp" or "poll"
    sock,          \* the socket it polls: "none", "handshake", "up" or "closed"
    orphans,       \* peers with a handshake under way that nobody polls
    call,          \* callers: "idle", "dialing", "sleeping", "ok" or "err"
    tries,         \* attempts that failed
    channel_peers, \* the reconnector's map
    updates,       \* the channel of updates
    sent,          \* updates sent so far
    due,           \* the interval of the reconnector has ticked
    reconnector,   \* "select", "reconnecting" or "done"
    faults,        \* faults so far
    closed,        \* a shutdown was sent
    main           \* "running", "disconnected" (all peers) or "stopped" (the BGP too)

vars == <<connected, dial, sock, orphans, call, tries, channel_peers, updates,
          sent, due, reconnector, faults, closed, main>>

Reconnects == {"reconnector"} \X Peers
Actors == Callers \cup Reconnects

PeerOf(a) == a[2]

TypeOK ==
    /\ connected \in SUBSET Peers
    /\ dial \in [Actors -> {"none", "tcp", "poll"}]
    /\ sock \in [Actors -> {"none", "handshake", "up", "closed"}]
    /\ orphans \in SUBSET Peers
    /\ call \in [Callers -> {"idle", "dialing", "sleeping", "ok", "err"}]
    /\ tries \in [Callers -> 0..Retries]
    /\ channel_peers \in SUBSET Peers
    /\ updates \in Seq(Updates)
    /\ Len(updates) <= ChannelSize
    /\ sent \in 0..MaxUpdates
    /\ due \in BOOLEAN
    /\ reconnector \in {"select", "reconnecting", "done"}
    /\ faults \in 0..MaxFaults
    /\ closed \in BOOLEAN
    /\ main \in {"running", "disconnected", "stopped"}

-----------------------------------------------------------------------------
is_connected(p) == p \in connected

Fault == faults < MaxFaults /\ faults' = faults + 1

(* What an actor does with the result of do_connect_peer: a caller returns, *)
(* sleeps before the next attempt, or gives up after the last one; the      *)
(* reconnector only logs.                                                   *)
AttemptEnds(a, ok) ==
    /\ dial' = [dial EXCEPT ![a] = "none"]
    /\ sock' = [sock EXCEPT ![a] = "none"]
    /\ orphans' = IF sock[a] = "handshake" THEN orphans \cup {PeerOf(a)} ELSE orphans
    /\ IF a \in Callers
       THEN /\ call' = [call EXCEPT ![a] = IF ok THEN "ok"
                           ELSE IF tries[a] < Retries THEN "sleeping" ELSE "err"]
            /\ tries' = [tries EXCEPT ![a] =
                           IF ok \/ tries[a] = Retries THEN @ ELSE @ + 1]
       ELSE UNCHANGED <<call, tries>>

(* After a shutdown the reconnector is polled once more, to leave its loop. *)
Polled(a) == a \in Reconnects => ~closed

(* setup_outbound hands the stream to LDK, in a task of its own. *)
TcpConnects(a) ==
    /\ Polled(a)
    /\ dial[a] = "tcp"
    /\ dial' = [dial EXCEPT ![a] = "poll"]
    /\ sock' = [sock EXCEPT ![a] = "handshake"]
    /\ UNCHANGED <<orphans, connected, call, tries, channel_peers, updates, sent, due,
                   reconnector, faults, closed, main>>

TcpFails(a) ==
    /\ Polled(a)
    /\ dial[a] = "tcp"
    /\ Fault
    /\ AttemptEnds(a, FALSE)
    /\ UNCHANGED <<connected, channel_peers, updates, sent, due,
                   reconnector, closed, main>>

(* The poll loop: a closed connection is an error even if another actor's *)
(* connection to the same peer is up.                                     *)
PollClosed(a) ==
    /\ Polled(a)
    /\ dial[a] = "poll"
    /\ sock[a] = "closed"
    /\ AttemptEnds(a, FALSE)
    /\ UNCHANGED <<connected, channel_peers, updates, sent, due,
                   reconnector, faults, closed, main>>

(* Mutant: a pending connection counts as established. *)
MutPendingIsConnected(a) ==
    /\ Polled(a)
    /\ dial[a] = "poll"
    /\ sock[a] # "closed"
    /\ AttemptEnds(a, TRUE)
    /\ UNCHANGED <<connected, channel_peers, updates, sent, due,
                   reconnector, faults, closed, main>>

PollConnected(a) ==
    /\ Polled(a)
    /\ dial[a] = "poll"
    /\ sock[a] # "closed"
    /\ is_connected(PeerOf(a))
    /\ AttemptEnds(a, TRUE)
    /\ UNCHANGED <<connected, channel_peers, updates, sent, due,
                   reconnector, faults, closed, main>>

(* HANDSHAKE_TIMEOUT: the socket stays with LDK. *)
PollTimesOut(a) ==
    /\ Polled(a)
    /\ dial[a] = "poll"
    /\ sock[a] # "closed"
    /\ ~is_connected(PeerOf(a))
    /\ Fault
    /\ AttemptEnds(a, FALSE)
    /\ UNCHANGED <<connected, channel_peers, updates, sent, due,
                   reconnector, closed, main>>

-----------------------------------------------------------------------------
(* connect_channel_peer_if_necessary *)

Connect(a) ==
    /\ call[a] = "idle"
    /\ main # "stopped"
    /\ IF is_connected(PeerOf(a))
       THEN call' = [call EXCEPT ![a] = "ok"] /\ UNCHANGED dial
       ELSE /\ call' = [call EXCEPT ![a] = "dialing"]
            /\ dial' = [dial EXCEPT ![a] = "tcp"]
    /\ UNCHANGED <<orphans, connected, sock, tries, channel_peers, updates, sent, due,
                   reconnector, faults, closed, main>>

Retry(a) ==
    /\ call[a] = "sleeping"
    /\ IF is_connected(PeerOf(a))
       THEN call' = [call EXCEPT ![a] = "ok"] /\ UNCHANGED dial
       ELSE /\ call' = [call EXCEPT ![a] = "dialing"]
            /\ dial' = [dial EXCEPT ![a] = "tcp"]
    /\ UNCHANGED <<orphans, connected, sock, tries, channel_peers, updates, sent, due,
                   reconnector, faults, closed, main>>

-----------------------------------------------------------------------------
(* spawn_p2p_reconnector *)

(* Futures that reconnect to every peer of the map that is not connected. *)
DialDisconnected(peers) ==
    dial' = [a \in Actors |-> IF a \in Reconnects /\ PeerOf(a) \in peers \ connected
                              THEN "tcp" ELSE dial[a]]

IntervalTicks ==
    /\ ~due
    /\ reconnector # "done"
    /\ due' = TRUE
    /\ UNCHANGED <<orphans, connected, dial, sock, call, tries, channel_peers, updates,
                   sent, reconnector, faults, closed, main>>

ReconnectOnTick ==
    /\ ~closed
    /\ reconnector = "select"
    /\ due
    /\ due' = FALSE
    /\ DialDisconnected(channel_peers)
    /\ reconnector' = "reconnecting"
    /\ UNCHANGED <<orphans, connected, sock, call, tries, channel_peers, updates, sent,
                   faults, closed, main>>

ReconnectOnUpdate ==
    /\ ~closed
    /\ reconnector = "select"
    /\ updates # <<>>
    /\ LET p == Head(updates)[2]
       IN  channel_peers' = IF Head(updates)[1] = "Add" THEN channel_peers \cup {p}
                                                        ELSE channel_peers \ {p}
    /\ updates' = Tail(updates)
    /\ DialDisconnected(channel_peers')
    /\ reconnector' = "reconnecting"
    /\ UNCHANGED <<orphans, connected, sock, call, tries, sent, due, faults, closed, main>>

(* join_all: all attempts have ended. *)
ReconnectsDone ==
    /\ ~closed
    /\ reconnector = "reconnecting"
    /\ \A a \in Reconnects : dial[a] = "none"
    /\ reconnector' = "select"
    /\ UNCHANGED <<orphans, connected, dial, sock, call, tries, channel_peers, updates,
                   sent, due, faults, closed, main>>

(* The next poll of the reconnector after a shutdown leaves its loop and    *)
(* drops its attempts. The select is not biased, so that poll may first     *)
(* hand streams that have just connected to LDK, which keeps its sockets.   *)
ReconnectorShutsDown ==
    /\ closed
    /\ reconnector # "done"
    /\ reconnector' = "done"
    /\ \E ready \in SUBSET {a \in Reconnects : dial[a] = "tcp"} :
          orphans' = orphans \cup
              {PeerOf(a) : a \in ready \cup {r \in Reconnects : sock[r] = "handshake"}}
    /\ dial' = [a \in Actors |-> IF a \in Reconnects THEN "none" ELSE dial[a]]
    /\ sock' = [a \in Actors |-> IF a \in Reconnects THEN "none" ELSE sock[a]]
    /\ updates' = <<>>
    /\ UNCHANGED <<connected, call, tries, channel_peers, sent, due, faults,
                   closed, main>>

(* try_send of an update, by maybe_reconnect_to_lsp and by open_channel. *)
SendUpdate(u) ==
    /\ sent < MaxUpdates
    /\ reconnector # "done"
    /\ Len(updates) < ChannelSize
    /\ sent' = sent + 1
    /\ updates' = Append(updates, u)
    /\ UNCHANGED <<orphans, connected, dial, sock, call, tries, channel_peers, due,
                   reconnector, faults, closed, main>>

-----------------------------------------------------------------------------
(* LDK's peer manager: of two connections to one peer the later one fails. *)

HandshakeEnds(a) ==
    /\ sock[a] = "handshake"
    /\ sock' = [sock EXCEPT ![a] = IF is_connected(PeerOf(a)) THEN "closed" ELSE "up"]
    /\ connected' = connected \cup {PeerOf(a)}
    /\ UNCHANGED <<dial, orphans, call, tries, channel_peers, updates, sent,
                   due, reconnector, faults, closed, main>>

OrphanEnds(p) ==
    /\ p \in orphans
    /\ orphans' = orphans \ {p}
    /\ connected' = connected \cup {p}
    /\ UNCHANGED <<dial, sock, call, tries, channel_peers, updates, sent, due,
                   reconnector, faults, closed, main>>

HandshakeFails(a) ==
    /\ sock[a] = "handshake"
    /\ Fault
    /\ sock' = [sock EXCEPT ![a] = "closed"]
    /\ UNCHANGED <<connected, dial, orphans, call, tries, channel_peers,
                   updates, sent, due, reconnector, closed, main>>

ConnectionLost(p) ==
    /\ is_connected(p)
    /\ Fault
    /\ connected' = connected \ {p}
    /\ sock' = [a \in Actors |-> IF PeerOf(a) = p /\ sock[a] = "up"
                                 THEN "closed" ELSE sock[a]]
    /\ UNCHANGED <<dial, orphans, call, tries, channel_peers, updates, sent,
                   due, reconnector, closed, main>>

-----------------------------------------------------------------------------
SendShutdown ==
    /\ CanShutDown
    /\ ~closed
    /\ closed' = TRUE
    /\ UNCHANGED <<orphans, connected, dial, sock, call, tries, channel_peers, updates,
                   sent, due, reconnector, faults, main>>

(* UserNode::sync connects to the LSP before run() starts. *)
DuringSync(a) == a[1] = "sync"

(* run() sees the shutdown: disconnect_all_peers closes every socket. *)
disconnect_all_peers ==
    /\ closed
    /\ main = "running"
    /\ \A a \in Callers : DuringSync(a) => call[a] = "ok"
    /\ main' = "disconnected"
    /\ connected' = {}
    /\ orphans' = {}
    /\ sock' = [a \in Actors |-> IF sock[a] = "none" THEN "none" ELSE "closed"]
    /\ UNCHANGED <<dial, call, tries, channel_peers, updates, sent, due,
                   reconnector, faults, closed>>

(* The background processor has persisted for the last time and stops; its *)
(* request lets run() and the reconnector be polled before.                *)
BgpStops ==
    /\ main = "disconnected"
    /\ reconnector = "done"
    /\ main' = "stopped"
    /\ UNCHANGED <<orphans, connected, dial, sock, call, tries, channel_peers, updates,
                   sent, due, reconnector, faults, closed>>

Init ==
    /\ connected = {}
    /\ dial = [a \in Actors |-> "none"]
    /\ sock = [a \in Actors |-> "none"]
    /\ orphans = {}
    /\ call = [a \in Callers |-> "idle"]
    /\ tries = [a \in Callers |-> 0]
    /\ channel_peers = InitialPeers
    /\ updates = <<>>
    /\ sent = 0
    /\ due = TRUE
    /\ reconnector = "select"
    /\ faults = 0
    /\ closed = FALSE
    /\ main = "running"

(* Also when the connection to the LSP fails, which ends the process. *)
Stopped ==
    /\ main = "stopped" \/ \E a \in Callers : DuringSync(a) /\ call[a] = "err"
    /\ UNCHANGED vars

Poll(a) == PollClosed(a) \/ PollConnected(a) \/ PollTimesOut(a)
Tcp(a) == TcpConnects(a) \/ TcpFails(a)
Reconnect ==
    ReconnectOnTick \/ ReconnectOnUpdate \/ ReconnectsDone \/ ReconnectorShutsDown

Next ==
    \/ \E a \in Actors : Tcp(a) \/ Poll(a) \/ HandshakeEnds(a) \/ HandshakeFails(a)
    \/ \E p \in Peers : OrphanEnds(p) \/ ConnectionLost(p)
    \/ \E a \in Callers : Connect(a) \/ Retry(a)
    \/ IntervalTicks \/ Reconnect
    \/ \E u \in Updates : SendUpdate(u)
    \/ SendShutdown \/ disconnect_all_peers \/ BgpStops \/ Stopped

Spec == Init /\ [][Next]_vars

-----------------------------------------------------------------------------
(* Properties *)

(* A call that returns Ok returns it while the peer is in the peer list,   *)
(* whichever actor's connection won the race.                              *)
OkIfConnected ==
    \A a \in Callers : call[a] # "ok" /\ call'[a] = "ok"
          => is_connected(PeerOf(a))

(* The reconnector dials no peer that it was told to remove: an update is  *)
(* taken only when no attempt is under way.                                *)
DialsOnlyItsPeers ==
    \A a \in Reconnects : dial[a] # "none" => PeerOf(a) \in channel_peers

(* The retries tolerate the race for which they were added: with no fault  *)
(* at all, a call is never refused because another actor connected first.  *)
RaceIsTolerated ==
    faults = 0 /\ ~closed => \A a \in Callers : call[a] # "err"

(* run() disconnects all peers on a shutdown; its comment says that this   *)
(* ensures that channel data is not updated after the background processor *)
(* has stopped.                                                            *)
NoPeersAfterBgp == main = "stopped" => connected = {}

=============================================================================
