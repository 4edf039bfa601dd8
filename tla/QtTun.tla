------------------------------- MODULE QtTun -------------------------------
(***************************************************************************)
(* The Qt tunnel of toxtun: TCP connections carried over ENet connections  *)
(* between two processes, tunnelc.cpp and tunneld.cpp.  Each process has   *)
(* two threads.  The main thread runs the Qt event loop: slots connected   *)
(* with QueuedConnection run one at a time, in the order of their signals. *)
(* The thread of enetpoll.cpp hands the packets that the main thread left  *)
(* in m_outpkts to ENet, serves the host, and signals its events.          *)
(*                                                                         *)
(* Module ENetPeer and ENetChannel model ENet; here it is what they        *)
(* promise: connections between peers that are used again, and packets     *)
(* that arrive in order on each of the two channels of a connection, data  *)
(* on 0 and the FIN on 1.  A channel of the tunnel is called after its TCP *)
(* connection at the client.                                               *)
(***************************************************************************)
EXTENDS Integers, Sequences, FiniteSets, SequencesExt

CONSTANTS
    Conns,      \* the TCP connections that applications open at the client
    PeerCount,  \* the peers of each ENet host
    MaxWrites,  \* bound: what each end of each TCP connection writes
    MaxDrops    \* bound: ENet connections that time out

Sides == {"client", "server"}
Other(x) == IF x = "client" THEN "server" ELSE "client"
Slots == 1..PeerCount
None == 0

\* Conns \subseteq Nat \ {None}

VARIABLES
    tun,     \* the two processes: peers, channels, queues
    wire,    \* what is on the way: of each side, connection and ENet channel
    app,     \* the two ends of each TCP connection outside the tunnel
    drops,   \* how many ENet connections timed out
    upset    \* an ENet connection was lost or closed for another's sake

vars == <<tun, wire, app, drops, upset>>

-----------------------------------------------------------------------------
(* State.                                                                  *)

\* ENetPeer: its state, its connection, and peer->data, the channel.
FreePeer == [state |-> "DISCONNECTED", conn |-> None, data |-> None]

\* ToxTunChannel with its socket: up says that the socket is connected, heard
\* that last_recv_peer_pkt_time is set, timer that a repeat timer runs, closing
\* that the single shot that closes the socket is under way.
NoChannel ==
    [there |-> FALSE, slot |-> None, sock_closed |-> FALSE, peer_sock_closed |-> FALSE,
     force_closed |-> FALSE, heard |-> FALSE, timer |-> FALSE, closing |-> FALSE]

NewProcess ==
    [peers  |-> [s \in Slots |-> FreePeer],
     chans  |-> [k \in Conns |-> NoChannel],
     events |-> <<>>,    \* the event queue of the main thread
     out    |-> <<>>,    \* m_outpkts
     later  |-> {},      \* the timers of later_close_timeout: <<peer, channel>>
     dead   |-> "no"]    \* why the process ended

\* An end of a TCP connection: wrote and read count what its application wrote
\* and the tunnel read; got is what the tunnel wrote to it; opened says that it
\* was connected to the tunnel, up that it is, quit that the application closed it,
\* cut that the tunnel gave it up after 7 s although something was under way to it.
NewApp == [opened |-> FALSE, up |-> FALSE, quit |-> FALSE, cut |-> FALSE,
           wrote |-> 0, read |-> 0, got |-> <<>>]

Post(T, event) == [T EXCEPT !.events = Append(@, event)]
Packet(s, chan, body) == [slot |-> s, chan |-> chan, body |-> body]

-----------------------------------------------------------------------------
(* The main thread: operators on a process T.                              *)

\* Mutant of Cleanup: the socket is closed at once, "maybe can close socket
\* right now".
CleanupAtOnce(T, k) ==
    LET c == T.chans[k] IN
    IF ~(c.sock_closed /\ c.peer_sock_closed)
    THEN IF c.peer_sock_closed THEN [T EXCEPT !.chans[k].closing = TRUE] ELSE T
    ELSE [T EXCEPT !.peers[c.slot].data = None, !.chans[k] = NoChannel,
                   !.later = IF c.force_closed THEN @ ELSE @ \cup {<<c.slot, k>>}]

\* promiseChannelCleanup after the flags of channel k were set: without a timer
\* when a slot calls it.  The channel is taken away once both sockets are
\* closed; the peer of an unforced one is disconnected later.
Cleanup(T, k) ==
    LET c == T.chans[k] IN
    IF ~(c.sock_closed /\ c.peer_sock_closed)
    THEN IF c.peer_sock_closed THEN [T EXCEPT !.chans[k].timer = TRUE] ELSE T
    ELSE IF T.peers[c.slot].data # k THEN [T EXCEPT !.dead = "assert"]
    ELSE [T EXCEPT !.peers[c.slot].data = None, !.chans[k] = NoChannel,
                   !.later = IF c.force_closed THEN @ ELSE @ \cup {<<c.slot, k>>}]

\* Mutant of ForceCleanup: only a channel that nobody has closed is expected.
ForceCleanupOpen(T, s) ==
    LET k == T.peers[s].data IN
    IF k = None THEN T
    ELSE IF ~T.chans[k].peer_sock_closed /\ ~T.chans[k].sock_closed
    THEN Cleanup([T EXCEPT !.chans[k].peer_sock_closed = TRUE,
                           !.chans[k].sock_closed = TRUE,
                           !.chans[k].force_closed = TRUE], k)
    ELSE [T EXCEPT !.dead = "assert"]

\* Mutant of ForceCleanup: the old channel is only taken off the peer.
ForceCleanupNone(T, s) == [T EXCEPT !.peers[s].data = None]

\* A peer that ENet uses again may still have the channel of its connection
\* before: it is cleaned up by force, unless only the other end was closed.
ForceCleanup(T, s) ==
    LET k == T.peers[s].data
        forced == [T EXCEPT !.chans[k].peer_sock_closed = TRUE,
                            !.chans[k].sock_closed = TRUE,
                            !.chans[k].force_closed = TRUE]
    IN  IF k = None THEN T
        ELSE IF T.chans[k].peer_sock_closed THEN [T EXCEPT !.dead = "assert"]
        ELSE Cleanup(forced, k)

\* peerAddChan and the entries of the maps.
AddChan(T, s, k) ==
    [T EXCEPT !.peers[s].data = k, !.chans[k] = [NoChannel EXCEPT !.there = TRUE, !.slot = s]]

\* Tunnelc::onNewTcpConnection: enet_host_connect takes the first free peer;
\* without one the NULL is used all the same.
OnNewTcpConnection(T, k) ==
    LET free == {s \in Slots : T.peers[s].state = "DISCONNECTED"}
        s == Min(free)
        begun == ForceCleanup([T EXCEPT !.peers[s].state = "CONNECTING",
                                        !.peers[s].conn = k], s)
    IN  IF free = {} THEN [T EXCEPT !.dead = "no peer"]
        ELSE IF begun.dead # "no" THEN begun
        ELSE AddChan(begun, s, k)

\* Tunneld::onENetPeerConnected up to connectToHost.
OnPeerAccepted(T, s, k) ==
    LET begun == ForceCleanup(T, s)
    IN  IF begun.dead # "no" THEN begun ELSE AddChan(begun, s, k)

\* onTcpDisconnected: the FIN goes to the peer of the channel, whatever its
\* state.  The queued signal of a socket that the tunnel has forgotten finds
\* no channel.
OnTcpDisconnected(T, k) ==
    LET c == T.chans[k]
        told == [T EXCEPT !.chans[k].sock_closed = TRUE,
                          !.out = Append(@, Packet(c.slot, 1, <<k, "FIN">>))]
    IN  IF ~c.there THEN [T EXCEPT !.dead = "null channel"] ELSE Cleanup(told, k)

\* Mutant of Readable: the state of the peer is not asked.
ReadableAlways(T, k) == T.chans[k].there

\* onTcpReadyRead: whatever the socket has goes out if the peer is connected.
Readable(T, k) == T.chans[k].there /\ T.peers[T.chans[k].slot].state = "CONNECTED"

OnTcpReadyRead(T, k, first, last) ==
    IF ~T.chans[k].there THEN [T EXCEPT !.dead = "null channel"]
    ELSE IF Readable(T, k)
    THEN [T EXCEPT !.out = @ \o [i \in 1..last - first + 1 |->
              Packet(T.chans[k].slot, 0, <<k, first + i - 1>>)]]
    ELSE T

\* onENetPeerPacketReceived on channel 1; a repeated FIN is ignored.
OnFin(T, k) ==
    IF T.chans[k].peer_sock_closed THEN T
    ELSE Cleanup([T EXCEPT !.chans[k].peer_sock_closed = TRUE], k)

-----------------------------------------------------------------------------
(* The main thread: actions.                                               *)

Init ==
    /\ tun = [x \in Sides |-> NewProcess]
    /\ wire = [x \in Sides |-> [k \in Conns |-> [c \in {0, 1} |-> <<>>]]]
    /\ app = [x \in Sides |-> [k \in Conns |-> NewApp]]
    /\ drops = 0
    /\ upset = FALSE

Alive(x) == tun[x].dead = "no"
Forgotten(T, U) == {k \in Conns : T.chans[k].there /\ ~U.chans[k].there}

\* The process x becomes U: the sockets of the channels it gave up are gone.
Becomes(x, U, apps) ==
    /\ tun' = [tun EXCEPT ![x] = U]
    /\ app' = [apps EXCEPT ![x] =
          [k \in Conns |-> IF k \in Forgotten(tun[x], U)
                           THEN [apps[x][k] EXCEPT !.up = FALSE] ELSE apps[x][k]]]

\* The next event of the queue of process x.
Handle(x) ==
    LET T == [tun[x] EXCEPT !.events = Tail(@)]
        e == Head(tun[x].events)
        k == e.conn
        a == app[x][k]
        here == T.peers[e.slot].data    \* peerLastChan
    IN
    /\ Alive(x) /\ tun[x].events # <<>>
    /\ \/ /\ e.type = "newConnection"
          /\ Becomes(x, OnNewTcpConnection(T, k), app)
       \/ /\ e.type = "connected" /\ x = "server"
          /\ \E accepted \in BOOLEAN :
                Becomes(x, OnPeerAccepted(T, e.slot, k),
                        [app EXCEPT !["server"][k].up = accepted,
                                    !["server"][k].opened = accepted])
       \/ /\ e.type = "connected" /\ x = "client"
          /\ Becomes(x, IF here = None THEN [T EXCEPT !.dead = "null channel"]
                        ELSE Post(T, [type |-> "readyRead", conn |-> here, slot |-> 1]), app)
       \/ /\ e.type = "readyRead"
          /\ Becomes(x, OnTcpReadyRead(T, k, a.read + 1, a.wrote),
                     IF Readable(T, k) THEN [app EXCEPT ![x][k].read = a.wrote] ELSE app)
       \/ /\ e.type = "sockDisconnected"
          /\ Becomes(x, OnTcpDisconnected(T, k), app)
       \/ /\ e.type = "packet" /\ here = None
          /\ Becomes(x, T, app)
       \/ /\ e.type = "packet" /\ here # None /\ e.chan = 1
          /\ Becomes(x, OnFin(T, here), app)
       \/ /\ e.type = "packet" /\ here # None /\ e.chan = 0
          /\ Becomes(x, [T EXCEPT !.chans[here].heard = TRUE],
                     IF app[x][here].up
                     THEN [app EXCEPT ![x][here].got = Append(@, e.body)] ELSE app)
    /\ UNCHANGED <<wire, drops, upset>>

SlotOf(x, k) == {s \in Slots : tun[x].peers[s].conn = k}

\* Something of connection k is still on its way to process x, or waits there
\* for the main thread.
UnderWay(x, k) ==
    \/ SlotOf(x, k) # {} /\ \E c \in {0, 1} : wire[Other(x)][k][c] # <<>>
    \/ SlotOf(x, k) # {} /\ \E p \in Range(tun[Other(x)].out) : p.body[1] = k
    \/ \E e \in Range(tun[x].events) : e.conn = k

\* promiseChannelCleanup by the repeat timer of channel k: when nothing came
\* for 7 s the socket is closed by the next event.  A channel that never
\* received anything has no time to compare and goes on waiting.  Whatever is
\* still under way then may have been sent again for longer than that.
RepeatTimer(x, k) ==
    /\ Alive(x) /\ tun[x].chans[k].timer
    /\ ~tun[x].chans[k].sock_closed /\ tun[x].chans[k].heard
    /\ tun' = [tun EXCEPT ![x].chans[k].timer = FALSE, ![x].chans[k].closing = TRUE]
    /\ app' = [app EXCEPT ![x][k].cut = UnderWay(x, k)]
    /\ UNCHANGED <<wire, drops, upset>>

\* QTcpSocket::close: only a connected socket signals that it is disconnected.
CloseSocket(x, k) ==
    /\ Alive(x) /\ tun[x].chans[k].closing
    /\ LET T == [tun[x] EXCEPT !.chans[k].closing = FALSE]
       IN  tun' = [tun EXCEPT ![x] =
              IF app[x][k].up
              THEN Post(T, [type |-> "sockDisconnected", conn |-> k, slot |-> 1]) ELSE T]
    /\ app' = [app EXCEPT ![x][k].up = FALSE]
    /\ UNCHANGED <<wire, drops, upset>>

\* later_close_timeout, 5.7 s after the channel went: enet_peer_disconnect_later
\* on the peer, which may have been used again meanwhile.  By then both ends
\* have handled what they had of the channel.
LaterClose(x) ==
    \E t \in tun[x].later :
        LET p == tun[x].peers[t[1]]
            done == [tun EXCEPT ![x].later = @ \ {t}]
        IN  /\ Alive(x)
            /\ \A y \in Sides : ~UnderWay(y, t[2])
            /\ CASE p.state = "CONNECTED" ->
                      tun' = [done EXCEPT ![x].peers[t[1]].state = "DISCONNECT_LATER"]
                 [] p.state = "CONNECTING" ->
                      tun' = [done EXCEPT ![x].peers[t[1]] = [FreePeer EXCEPT !.data = p.data]]
                 [] OTHER -> tun' = done
            /\ upset' = (upset \/ (p.state \in {"CONNECTED", "CONNECTING"} /\ p.conn # t[2]))
            /\ UNCHANGED <<wire, app, drops>>

-----------------------------------------------------------------------------
(* The thread of ENetPoll, and ENet.                                       *)

\* runInlineThread: the first packet of m_outpkts goes to its peer; ENet takes
\* it only when the peer is connected.
Pump(x) ==
    LET p == Head(tun[x].out)
        peer == tun[x].peers[p.slot]
    IN  /\ Alive(x) /\ tun[x].out # <<>>
        /\ tun' = [tun EXCEPT ![x].out = Tail(@)]
        /\ wire' = IF peer.state = "CONNECTED"
                   THEN [wire EXCEPT ![x][peer.conn][p.chan] = Append(@, p.body)] ELSE wire
        /\ UNCHANGED <<app, drops, upset>>

\* The server's ENet takes a connection, and reports it.
Accept(k) ==
    LET free == {s \in Slots : tun["server"].peers[s].state = "DISCONNECTED"}
        s == Min(free)
        old == tun["server"].peers[s].data
    IN  /\ Alive("server") /\ free # {} /\ SlotOf("server", k) = {}
        /\ \E c \in SlotOf("client", k) : tun["client"].peers[c].state = "CONNECTING"
        /\ tun' = [tun EXCEPT !["server"] =
              Post([@ EXCEPT !.peers[s] = [state |-> "CONNECTED", conn |-> k, data |-> old]],
                   [type |-> "connected", conn |-> k, slot |-> s])]
        /\ UNCHANGED <<wire, app, drops, upset>>

\* The client's ENet learns of it.
Accepted(k) ==
    \E s \in SlotOf("client", k) :
        /\ Alive("client") /\ SlotOf("server", k) # {}
        /\ tun["client"].peers[s].state = "CONNECTING"
        /\ tun' = [tun EXCEPT !["client"] =
              Post([@ EXCEPT !.peers[s].state = "CONNECTED"],
                   [type |-> "connected", conn |-> k, slot |-> s])]
        /\ UNCHANGED <<wire, app, drops, upset>>

\* A packet arrives; a peer that is to be disconnected drops it.
Deliver(x, k, chan) ==
    \E s \in SlotOf(x, k) :
        LET w == wire[Other(x)][k][chan] IN
        /\ Alive(x) /\ w # <<>> /\ tun[x].peers[s].state \in {"CONNECTED", "DISCONNECT_LATER"}
        /\ wire' = [wire EXCEPT ![Other(x)][k][chan] = Tail(@)]
        /\ tun' = IF tun[x].peers[s].state = "DISCONNECT_LATER" THEN tun
                  ELSE [tun EXCEPT ![x] =
                      Post(@, [type |-> "packet", conn |-> k, slot |-> s, chan |-> chan,
                               body |-> Head(w)])]
        /\ UNCHANGED <<app, drops, upset>>

\* The peer of connection k of process T is free again.  It keeps its data, and
\* onENetPeerDisconnected does nothing about it.
Gone(T, k) ==
    [T EXCEPT !.peers = [s \in Slots |->
        IF T.peers[s].conn = k THEN [FreePeer EXCEPT !.data = T.peers[s].data]
        ELSE T.peers[s]]]

\* A disconnection that waited for its last packet is carried out at both ends.
Disconnected(x, k) ==
    /\ \E s \in SlotOf(x, k) : tun[x].peers[s].state = "DISCONNECT_LATER"
    /\ Alive(x) /\ \A c \in {0, 1} : wire[x][k][c] = <<>>
    /\ tun' = [y \in Sides |-> Gone(tun[y], k)]
    /\ UNCHANGED <<wire, app, drops, upset>>

\* ENet gives a connection up at one end.  The client asks for no timeout while
\* a connection is up.
TimeOut(x, k) ==
    /\ Alive(x) /\ drops < MaxDrops /\ drops' = drops + 1
    /\ \E s \in SlotOf(x, k) : x = "server" \/ tun[x].peers[s].state # "CONNECTED"
    /\ tun' = [tun EXCEPT ![x] = Gone(@, k)]
    /\ upset' = TRUE
    /\ UNCHANGED <<wire, app>>

-----------------------------------------------------------------------------
(* The applications.                                                       *)

Signals(x, k) == tun[x].chans[k].there

AppConnect(k) ==
    /\ Alive("client") /\ ~app["client"][k].opened
    /\ \A l \in Conns : l < k => app["client"][l].opened
    /\ app' = [app EXCEPT !["client"][k].up = TRUE, !["client"][k].opened = TRUE]
    /\ tun' = [tun EXCEPT !["client"] =
          Post(@, [type |-> "newConnection", conn |-> k, slot |-> 1])]
    /\ UNCHANGED <<wire, drops, upset>>

\* An application writes, or closes: the tunnel hears of it once it has the
\* socket's signals connected.
AppWrite(x, k) ==
    /\ app[x][k].up /\ app[x][k].wrote < MaxWrites[k]
    /\ app' = [app EXCEPT ![x][k].wrote = @ + 1]
    /\ tun' = IF Signals(x, k)
              THEN [tun EXCEPT ![x] = Post(@, [type |-> "readyRead", conn |-> k, slot |-> 1])]
              ELSE tun
    /\ UNCHANGED <<wire, drops, upset>>

AppClose(x, k) ==
    /\ app[x][k].up
    /\ app' = [app EXCEPT ![x][k].up = FALSE, ![x][k].quit = TRUE]
    /\ tun' = IF Signals(x, k)
              THEN [tun EXCEPT ![x] =
                  Post(@, [type |-> "sockDisconnected", conn |-> k, slot |-> 1])]
              ELSE tun
    /\ UNCHANGED <<wire, drops, upset>>

Next ==
    \/ \E x \in Sides : Handle(x) \/ LaterClose(x) \/ Pump(x)
    \/ \E x \in Sides, k \in Conns :
          \/ RepeatTimer(x, k) \/ CloseSocket(x, k)
          \/ Disconnected(x, k) \/ TimeOut(x, k)
          \/ AppWrite(x, k) \/ AppClose(x, k)
          \/ \E chan \in {0, 1} : Deliver(x, k, chan)
    \/ \E k \in Conns : Accept(k) \/ Accepted(k) \/ AppConnect(k)

Spec == Init /\ [][Next]_vars

-----------------------------------------------------------------------------
(* Properties.                                                             *)

TypeOK ==
    /\ \A x \in Sides, s \in Slots : LET p == tun[x].peers[s] IN
          /\ p.state \in {"DISCONNECTED", "CONNECTING", "CONNECTED", "DISCONNECT_LATER"}
          /\ p.conn \in Conns \cup {None} /\ p.data \in Conns \cup {None}
          /\ p.state = "DISCONNECTED" <=> p.conn = None
    /\ \A x \in Sides, k \in Conns : LET c == tun[x].chans[k] IN
          /\ ~c.there => c = NoChannel
          /\ c.there => c.slot \in Slots
    /\ \A x \in Sides : tun[x].dead \in {"no", "no peer", "assert", "null channel"}

\* While no ENet connection is lost, each end of a TCP connection gets exactly
\* what the other wrote, in its order and from the start, although peers are
\* used again and the main thread handles old events of theirs.
StreamsIntact ==
    ~upset => \A x \in Sides, k \in Conns :
        \A i \in DOMAIN app[x][k].got : app[x][k].got[i] = <<k, i>>

\* The socket that the tunnel closes for a FIN has got all that the other end
\* wrote, although FIN and data go over channels that ENet does not order: what
\* is lost was under way when nothing had come for 7 s.
AllBeforeClose ==
    ~upset => \A x \in Sides, k \in Conns :
        LET a == app[x][k] IN
        tun[x].chans[k].peer_sock_closed /\ a.opened /\ ~a.up /\ ~a.quit /\ ~a.cut
            => Len(a.got) = app[Other(x)][k].wrote

\* Each peer's data is a channel that still exists and names that peer: no
\* packet or event finds a channel that was deleted.
PeersOwnChannels ==
    \A x \in Sides : Alive(x) =>
        /\ \A s \in Slots : LET k == tun[x].peers[s].data IN
              k # None => tun[x].chans[k].there /\ tun[x].chans[k].slot = s
        /\ \A k \in Conns : LET c == tun[x].chans[k] IN
              c.there => tun[x].peers[c.slot].data = k

\* While no ENet connection is lost, neither process ends in an assertion: the
\* channel that a peer used again still has can be cleaned up by force.
NoAssertFails == ~upset => \A x \in Sides : tun[x].dead # "assert"
=============================================================================
