------------------------------- MODULE Srudp -------------------------------
(***************************************************************************)
(* pytoxsh/srudp.py: one Srudp object, the reliable layer that toxnettun   *)
(* puts on Tox messages, with the fields of its ToxChannel that closing    *)
(* looks at.  Sequence numbers count from the ISN + 2, which is 1 here.    *)
(*                                                                         *)
(* An operator of the protocol returns the object, the packets it hands    *)
(* to the transport and the signals it emits.  Signals are connected with  *)
(* Qt.QueuedConnection: emitting one posts it to the event queue.          *)
(***************************************************************************)
EXTENDS Integers, SequencesExt, FiniteSetsExt

CONSTANTS
    BufSize,    \* CCC_BUF_SIZE: 10
    WinSize,    \* CCC_WIN_SIZE: 208
    RcvBatch    \* packets _on_recv_data looks at in one call: 20

\* The sizes are positive.
ASSUME SrudpAssumption ==
    /\ BufSize \in Nat \ {0} /\ WinSize \in Nat \ {0} /\ RcvBatch \in Nat \ {0}

PacketTypes == {"SYN", "SYN2", "SYN_ACK", "DATA", "DATA_ACK",
                "SRVFIN", "SRVFIN_ACK", "CLIFIN", "CLIFIN_ACK"}
Signals == {"connected", "readyRead", "bytesWritten", "canClose", "disconnected"}
States == {"INIT", "SYN_SENT", "SYN_RCVD", "ESTAB", "FIN_WAIT_1", "FIN_WAIT_2",
           "TIME_WAIT", "CLOSE_WAIT", "LAST_ACK", "CLOSED"}

Packet == [type : PacketTypes, seq : Nat]
Event == [type : PacketTypes \cup Signals, seq : Nat]
Pkt(type, seq) == [type |-> type, seq |-> seq]
Signal(type) == [type |-> type, seq |-> 0]

SrudpType ==
    [state : States, selfseq : Nat \ {0}, rcvseq : Nat \ {0},
     rcvpkts : SUBSET Nat, rcvwins : SUBSET Nat,
     sndpkts : Seq(Packet), sndwins : SUBSET Packet,
     self_passive_close : BOOLEAN, peer_closed : BOOLEAN, can_close : BOOLEAN,
     closed : BOOLEAN,      \* transport.closed
     sock_close : BOOLEAN, rudp_close : BOOLEAN,
     timers : BOOLEAN,      \* step_send_timer, and losspkt_monitor at the server
     calls : Nat,           \* 1 ms timers that will call _on_recv_data
     known : BOOLEAN]       \* whether chans still has the channel

NewSrudp ==
    [state |-> "INIT", selfseq |-> 1, rcvseq |-> 1, rcvpkts |-> {}, rcvwins |-> {},
     sndpkts |-> << >>, sndwins |-> {}, self_passive_close |-> FALSE,
     peer_closed |-> FALSE, can_close |-> FALSE, closed |-> FALSE,
     sock_close |-> FALSE, rudp_close |-> FALSE, timers |-> FALSE,
     calls |-> 0, known |-> FALSE]

-----------------------------------------------------------------------------
(* Sending *)

SeqsOf(pkts) == {p.seq : p \in pkts}

\* The members of the finite set S of numbers, the smallest first.
Ascending(S) ==
    [i \in 1..Cardinality(S) |->
        CHOOSE n \in S : Cardinality({m \in S : m < n}) = i - 1]

Unacked(u, seq) == seq \in SeqsOf(u.sndwins)
Acked(u, seq) == [u EXCEPT !.sndwins = {p \in @ : p.seq # seq}]

\* How many packets of the buffer the window has room for.
Room(u) ==
    LET free == WinSize - Cardinality(u.sndwins)
    IN  IF free < 0 THEN 0 ELSE IF free < Len(u.sndpkts) THEN free ELSE Len(u.sndpkts)

\* attemp_flush: the lowest numbers go out while the window has room.
attemp_flush(u) ==
    [u EXCEPT !.sndwins = @ \cup ToSet(SubSeq(u.sndpkts, 1, Room(u))),
              !.sndpkts = SubSeq(@, Room(u) + 1, Len(@))]

\* What the transport was given of the packets that were put in the buffer:
\* those that are not in v's any more, in order.
Flushed(pkts, v) == SubSeq(pkts, 1, Len(pkts) - Len(v.sndpkts))

\* _promise_bytes_written.
BytesWritten(u) == IF Len(u.sndpkts) < BufSize THEN <<Signal("bytesWritten")>> ELSE << >>

make_pkt(u, type) ==
    [u EXCEPT !.sndpkts = Append(@, Pkt(type, u.selfseq)), !.selfseq = @ + 1]

\* attemp_send of one piece: refused, and only flushed, when the buffer is full.
Accepts(u) == Len(u.sndpkts) < BufSize
attemp_send(u) ==
    LET v == IF Accepts(u) THEN make_pkt(u, "DATA") ELSE u
    IN  IF 3 * Len(v.sndpkts) >= BufSize \/ Cardinality(v.sndwins) < BufSize
        THEN attemp_flush(v) ELSE v

\* mkdiscon: the FIN goes through the buffer and the window like data.
mkdiscon(u, fin) ==
    LET state == IF u.self_passive_close THEN "LAST_ACK" ELSE "FIN_WAIT_1"
    IN  attemp_flush([make_pkt(u, fin) EXCEPT !.state = state])

-----------------------------------------------------------------------------
(* Receiving *)

Result(u, out, post) == [u |-> u, out |-> out, post |-> post]
Ignored(u) == Result(u, << >>, << >>)
Reply(u, type, seq) == Result(u, <<Pkt(type, seq)>>, << >>)

\* DATA is acknowledged and kept, also when it was delivered long ago, and
\* _on_recv_data is called in a millisecond.
Received(u, p) ==
    Reply([u EXCEPT !.rcvpkts = @ \cup {p.seq}, !.calls = @ + 1], "DATA_ACK", p.seq)

\* DATA_ACK makes room in the window.
Acknowledged(u, p) ==
    LET v == Acked(u, p.seq)
        w == attemp_flush(v)
    IN  Result(w, Flushed(v.sndpkts, w), BytesWritten(w))

\* Mutant of Ready: a packet that was moved before and came again is moved again.
ReadyAgain(u) ==
    {n \in u.rcvpkts : n < u.rcvseq + RcvBatch /\ n .. u.rcvseq - 1 \subseteq u.rcvpkts}

\* The packets next in order.
Ready(u) ==
    {n \in u.rcvseq .. u.rcvseq + RcvBatch - 1 : u.rcvseq .. n \subseteq u.rcvpkts}

\* Mutant of on_recv_data: rcvseq is set also when nothing was moved.
on_recv_data_always(u) ==
    LET v == [u EXCEPT !.calls = @ - 1,
                       !.rcvwins = @ \cup Ready(u),
                       !.rcvpkts = @ \ Ready(u)]
    IN  Result([v EXCEPT !.rcvseq = Max(v.rcvwins \cup {-1}) + 1],
               << >>, <<Signal("readyRead")>>)

\* _on_recv_data: the next packets are moved to where readPacket finds them.
on_recv_data(u) ==
    LET v == [u EXCEPT !.calls = @ - 1,
                       !.rcvwins = @ \cup Ready(u),
                       !.rcvpkts = @ \ Ready(u)]
    IN  IF Ready(u) = {} THEN Ignored(v)
        ELSE Result([v EXCEPT !.rcvseq = Max(v.rcvwins) + 1],
                    << >>, <<Signal("readyRead")>>)

\* readPacket until it returns None.
ReadAll(u) == Ascending(u.rcvwins)

-----------------------------------------------------------------------------
(* The state machines.  With one connection per object the checks of ISNs  *)
(* always succeed and are left out; what no branch expects is ignored.  At *)
(* the client nothing is connected to bytesWritten.                        *)

statemachine_client(u, p) ==
    CASE u.state = "SYN_SENT" /\ p.type = "SYN2" ->
            Result([u EXCEPT !.state = "ESTAB"],
                   <<Pkt("SYN_ACK", 0)>>, <<Signal("connected")>>)
      [] u.state = "ESTAB" /\ p.type = "SRVFIN" ->
            Reply([u EXCEPT !.self_passive_close = TRUE, !.state = "CLOSE_WAIT",
                            !.peer_closed = TRUE, !.timers = TRUE], "SRVFIN_ACK", p.seq)
      [] u.state = "ESTAB" /\ p.type = "DATA" -> Received(u, p)
      [] u.state = "ESTAB" /\ p.type = "DATA_ACK" ->
            [Acknowledged(u, p) EXCEPT !.post = << >>]
      [] u.state \in {"CLOSE_WAIT", "LAST_ACK", "CLOSED"} /\ p.type = "SRVFIN" ->
            Reply([u EXCEPT !.peer_closed = TRUE], "SRVFIN_ACK", p.seq)
      [] u.state \in {"LAST_ACK", "CLOSED"} /\ p.type = "CLIFIN_ACK" ->
            Ignored([Acked(u, p.seq) EXCEPT !.state = "CLOSED"])
      [] OTHER -> Ignored(u)

statemachine_server(u, p) ==
    CASE u.state = "INIT" /\ p.type = "SYN" ->
            Reply([u EXCEPT !.state = "SYN_RCVD"], "SYN2", 0)
      [] u.state = "SYN_RCVD" /\ p.type = "SYN_ACK" ->
            Ignored([u EXCEPT !.state = "ESTAB", !.timers = TRUE])
      [] u.state = "ESTAB" /\ p.type = "CLIFIN" ->
            Reply([u EXCEPT !.self_passive_close = TRUE], "CLIFIN_ACK", p.seq)
      [] u.state = "ESTAB" /\ p.type = "DATA" -> Received(u, p)
      [] u.state = "ESTAB" /\ p.type = "DATA_ACK" -> Acknowledged(u, p)
      [] u.state = "FIN_WAIT_1" /\ p.type = "SRVFIN_ACK" /\ Unacked(u, p.seq) ->
            Ignored([Acked(u, p.seq) EXCEPT !.state = "FIN_WAIT_2"])
      [] u.state = "FIN_WAIT_2" /\ p.type = "SRVFIN_ACK" -> Ignored(Acked(u, p.seq))
      [] u.state = "FIN_WAIT_2" /\ p.type = "CLIFIN" ->
            Reply([u EXCEPT !.state = "TIME_WAIT", !.peer_closed = TRUE],
                  "CLIFIN_ACK", p.seq)
      [] u.state = "TIME_WAIT" /\ p.type = "CLIFIN" -> Reply(u, "CLIFIN_ACK", p.seq)
      [] OTHER -> Ignored(u)

-----------------------------------------------------------------------------
(* Closing *)

\* Mutant of SaysCanClose: the packets that wait for their ACK are forgotten.
SaysCanCloseUnacked(u, state) ==
    u.closed /\ u.sndpkts = << >> /\ u.state = state

\* Mutant of SaysCanClose: the state is not looked at.
SaysCanCloseAgain(u, state) ==
    u.closed /\ u.sndwins = {} /\ u.sndpkts = << >>

\* _try_step_send: nothing is left to be sent and the socket is closed.
SaysCanClose(u, state) ==
    u.closed /\ u.sndwins = {} /\ u.sndpkts = << >> /\ u.state = state

\* Mutant of Promised: the own FIN is not waited for.
PromisedEarly(u) == u.peer_closed /\ u.sock_close

\* Mutant of Promised: both sides are to be in the state of the passive one.
PromisedClosed(u) ==
    u.peer_closed /\ u.sock_close /\ u.rudp_close /\ u.state = "CLOSED"

\* _toxchanPromiseCleanup.  rudp_close is set 35 s after the close began, so
\* the 15 s it asks for as well have passed.
Promised(u) ==
    /\ u.peer_closed /\ u.sock_close /\ u.rudp_close
    /\ u.state = IF u.self_passive_close THEN "CLOSED" ELSE "TIME_WAIT"
PromiseCleanup(u) ==
    IF Promised(u) THEN [u EXCEPT !.known = FALSE, !.timers = FALSE] ELSE u
=============================================================================
