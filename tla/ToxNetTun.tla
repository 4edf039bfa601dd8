----------------------------- MODULE ToxNetTun -----------------------------
(***************************************************************************)
(* pytoxsh/toxnettuncli.py and toxnettunsrv.py: one TCP connection carried *)
(* over Tox messages by a pair of Srudp objects.  Only the server side     *)
(* begins to close (readme.md), when its backend has closed.               *)
(*                                                                         *)
(* Each process has one thread for all handlers.  Messages, which another  *)
(* thread posts, and the queued signals go through one event queue; socket *)
(* handlers and the 1 ms timers are called when no signal waits in it.     *)
(* Timeouts of the long timers are posted as well, at any time: a timer    *)
(* that was posted just before a message is handled between the message    *)
(* and the signals it causes, so the ticks here ignore the queue.          *)
(***************************************************************************)
EXTENDS Srudp

CONSTANTS
    MaxDown,    \* bound: pieces (897 bytes) the backend sends
    MaxUp,      \* bound: pieces (128 bytes) the application sends
    MaxDowns,   \* bound: how often the friends lose each other
    MaxNet      \* bound: messages under way when something is sent again

\* The bounds are numbers.
ASSUME ToxNetTunAssumption ==
    MaxDown \in Nat /\ MaxUp \in Nat /\ MaxDowns \in Nat /\ MaxNet \in Nat

VARIABLES
    link, downs,        \* whether the friends see each other; how often not
    toServer, toClient, \* Tox messages under way, in order
    cli, srv,           \* the Srudp object and channel of each side
    cliq, srvq,         \* the event queues
    app, back,          \* the TCP connections: open, and pieces not yet read
    wrote, served,      \* pieces the application and the backend have sent
    appGot, backGot,    \* pieces written to them, by sequence number
    raised              \* the sides where a handler raised an exception

netVars == <<link, downs>>
cliVars == <<cli, cliq, app, wrote, appGot>>
srvVars == <<srv, srvq, back, served, backGot>>
vars == <<link, downs, toServer, toClient, cliVars, srvVars, raised>>

SocketStates == {"connecting", "open", "closed", "refused"}

TypeOK ==
    /\ link \in BOOLEAN /\ downs \in 0..MaxDowns
    /\ toServer \in Seq(Packet) /\ toClient \in Seq(Packet)
    /\ cli \in SrudpType /\ srv \in SrudpType
    /\ cliq \in Seq(Event) /\ srvq \in Seq(Event)
    /\ app \in [state : SocketStates, unread : Nat]
    /\ back \in [state : SocketStates, unread : Nat]
    /\ wrote \in 0..MaxUp /\ served \in 0..MaxDown
    /\ appGot \in Seq(Nat) /\ backGot \in Seq(Nat)
    /\ raised \subseteq {"client", "server"}

\* sendMessage to a friend who is offline sends nothing.
Sent(q, out) == IF link THEN q \o out ELSE q

\* _onNewTcpConnection has run: mkcon has sent the SYN.
Init ==
    /\ link = TRUE /\ downs = 0
    /\ cli = [NewSrudp EXCEPT !.state = "SYN_SENT", !.known = TRUE]
    /\ srv = NewSrudp
    /\ toServer = <<Pkt("SYN", 0)>> /\ toClient = << >>
    /\ cliq = << >> /\ srvq = << >>
    /\ app = [state |-> "open", unread |-> 0]
    /\ back = [state |-> "connecting", unread |-> 0]
    /\ wrote = 0 /\ served = 0
    /\ appGot = << >> /\ backGot = << >>
    /\ raised = {}

Alive(side) == side \notin raised
NoSignal(q) == \A i \in DOMAIN q : q[i].type \in PacketTypes
NoTick(q) == \A i \in DOMAIN q : q[i].type \notin {"canClose", "disconnected"}
Next1(q, type) == q # << >> /\ Head(q).type = type

Posted(q) == Cardinality({i \in DOMAIN q : q[i].type \in PacketTypes})
UnderWay == Len(toServer) + Len(toClient) + Posted(cliq) + Posted(srvq)

-----------------------------------------------------------------------------
(* The network *)

LinkDown ==
    /\ link /\ downs < MaxDowns
    /\ link' = FALSE /\ downs' = downs + 1
    /\ toServer' = << >> /\ toClient' = << >>
    /\ UNCHANGED <<cliVars, srvVars, raised>>

LinkUp ==
    /\ ~link
    /\ link' = TRUE
    /\ UNCHANGED <<downs, toServer, toClient, cliVars, srvVars, raised>>

\* The Tox thread posts newMessage.
PostToClient ==
    /\ toClient # << >>
    /\ toClient' = Tail(toClient)
    /\ cliq' = Append(cliq, Head(toClient))
    /\ UNCHANGED <<netVars, toServer, cli, app, wrote, appGot, srvVars, raised>>

PostToServer ==
    /\ toServer # << >>
    /\ toServer' = Tail(toServer)
    /\ srvq' = Append(srvq, Head(toServer))
    /\ UNCHANGED <<netVars, toClient, cliVars, srv, back, served, backGot, raised>>

-----------------------------------------------------------------------------
(* The client.  A result of the Srudp object goes to the network and to    *)
(* the event queue.                                                        *)

ClientDoes(r, q) ==
    /\ cli' = r.u
    /\ cliq' = q \o r.post
    /\ toServer' = Sent(toServer, r.out)
    /\ UNCHANGED <<netVars, toClient, srvVars>>

ClientRaises ==
    /\ raised' = raised \cup {"client"}
    /\ cliq' = Tail(cliq)
    /\ UNCHANGED <<netVars, toServer, toClient, cli, app, wrote, appGot, srvVars>>

\* _toxnetFriendMessage: for a channel that is gone SRVFIN is acknowledged
\* all the same, SYN2 and DATA raise KeyError, and the rest is dropped.
ClientMessage ==
    /\ Alive("client")
    /\ cliq # << >> /\ Head(cliq).type \in PacketTypes
    /\ LET p == Head(cliq) IN
       IF cli.known
       THEN /\ ClientDoes(statemachine_client(cli, p), Tail(cliq))
            /\ UNCHANGED <<app, wrote, appGot, raised>>
       ELSE IF p.type \in {"SYN2", "DATA"} THEN ClientRaises
       ELSE /\ ClientDoes(IF p.type = "SRVFIN" THEN Reply(cli, "SRVFIN_ACK", p.seq)
                          ELSE Ignored(cli), Tail(cliq))
            /\ UNCHANGED <<app, wrote, appGot, raised>>

\* _onTcpReadyRead: everything there is goes out at once through
\* buf_send_pkt, which keeps no copy; before SYN2 it is left in the socket.
ClientTakes(unread) ==
    Result([cli EXCEPT !.selfseq = @ + unread],
           [i \in 1..unread |-> Pkt("DATA", cli.selfseq + i - 1)], << >>)

AppWrite ==
    /\ Alive("client") /\ NoSignal(cliq)
    /\ app.state = "open" /\ cli.known /\ wrote < MaxUp
    /\ wrote' = wrote + 1
    /\ IF cli.state = "SYN_SENT"
       THEN /\ app' = [app EXCEPT !.unread = @ + 1]
            /\ UNCHANGED <<netVars, toServer, toClient, cli, cliq, srvVars>>
       ELSE /\ app' = [app EXCEPT !.unread = 0]
            /\ ClientDoes(ClientTakes(app.unread + 1), cliq)
    /\ UNCHANGED <<appGot, raised>>

\* _toxchanConnected.
ClientConnected ==
    /\ Alive("client") /\ Next1(cliq, "connected")
    /\ app' = [app EXCEPT !.unread = 0]
    /\ ClientDoes(ClientTakes(app.unread), Tail(cliq))
    /\ UNCHANGED <<wrote, appGot, raised>>

\* _onTcpDisconnected: the application closes.
AppClose ==
    /\ Alive("client") /\ NoSignal(cliq)
    /\ app.state = "open"
    /\ app' = [app EXCEPT !.state = "closed"]
    /\ ClientDoes(Ignored(PromiseCleanup([cli EXCEPT !.sock_close = TRUE,
                                                     !.closed = TRUE])), cliq)
    /\ UNCHANGED <<wrote, appGot, raised>>

ClientRecvTimer ==
    /\ Alive("client") /\ NoSignal(cliq)
    /\ cli.calls > 0
    /\ ClientDoes(on_recv_data(cli), cliq)
    /\ UNCHANGED <<app, wrote, appGot, raised>>

\* _toxchanReadyRead: what is ready is written to the application.
ClientReadyRead ==
    /\ Alive("client") /\ Next1(cliq, "readyRead")
    /\ IF cli.known
       THEN /\ appGot' = appGot \o ReadAll(cli)
            /\ ClientDoes(Ignored([cli EXCEPT !.rcvwins = {}]), Tail(cliq))
            /\ UNCHANGED <<app, wrote, raised>>
       ELSE ClientRaises

\* _try_step_send.  1 ms timers are not that late.
ClientTick ==
    /\ Alive("client") /\ NoTick(cliq)
    /\ cli.timers /\ cli.calls = 0
    /\ LET u == attemp_flush(cli)
           fin == SaysCanClose(u, "CLOSE_WAIT")
           over == ~fin /\ u.can_close /\ u.state = "CLOSED"
           sent == Flushed(cli.sndpkts, u)
       IN  ClientDoes(Result([u EXCEPT !.can_close = @ \/ fin], sent,
                (IF fin THEN <<Signal("canClose")>> ELSE << >>)
                \o (IF over THEN <<Signal("disconnected")>> ELSE << >>)), cliq)
    /\ UNCHANGED <<app, wrote, appGot, raised>>

\* _toxchanCanClose: the CLIFIN.
ClientCanClose ==
    /\ Alive("client") /\ Next1(cliq, "canClose")
    /\ IF cli.known
       THEN LET u == mkdiscon(cli, "CLIFIN")
                sent == Flushed(make_pkt(cli, "CLIFIN").sndpkts, u)
            IN
            /\ ClientDoes(Result(u, sent, << >>), Tail(cliq))
            /\ UNCHANGED <<app, wrote, appGot, raised>>
       ELSE ClientRaises

\* _toxchanDisconnected.
ClientDisconnected ==
    /\ Alive("client") /\ Next1(cliq, "disconnected")
    /\ ClientDoes(Ignored(IF cli.known
                          THEN PromiseCleanup([cli EXCEPT !.rudp_close = TRUE])
                          ELSE cli), Tail(cliq))
    /\ UNCHANGED <<app, wrote, appGot, raised>>

-----------------------------------------------------------------------------
(* The server *)

ServerDoes(r, q) ==
    /\ srv' = r.u
    /\ srvq' = q \o r.post
    /\ toClient' = Sent(toClient, r.out)
    /\ UNCHANGED <<netVars, toServer, cliVars>>

ServerRaises ==
    /\ raised' = raised \cup {"server"}
    /\ UNCHANGED <<netVars, toServer, toClient, srv, back, served, backGot, cliVars>>

\* _toxnetFriendMessage: SYN makes the channel; for one that is gone CLIFIN
\* is acknowledged, DATA raises KeyError, and the rest is dropped.
ServerMessage ==
    /\ Alive("server")
    /\ srvq # << >> /\ Head(srvq).type \in PacketTypes
    /\ LET p == Head(srvq) IN
       IF p.type = "SYN"
       THEN /\ ServerDoes(statemachine_server([NewSrudp EXCEPT !.known = TRUE], p),
                          Tail(srvq))
            /\ UNCHANGED <<back, served, backGot, raised>>
       ELSE IF srv.known
       THEN /\ ServerDoes(statemachine_server(srv, p), Tail(srvq))
            /\ UNCHANGED <<back, served, backGot, raised>>
       ELSE IF p.type = "DATA" THEN ServerRaises /\ srvq' = Tail(srvq)
       ELSE /\ ServerDoes(IF p.type = "CLIFIN" THEN Reply(srv, "CLIFIN_ACK", p.seq)
                          ELSE Ignored(srv), Tail(srvq))
            /\ UNCHANGED <<back, served, backGot, raised>>

\* The object after each of n tries to send a piece, until one is refused.
Tries(u, n) ==
    LET send[k \in 0..n] ==
            IF k = 0 THEN u
            ELSE IF Accepts(send[k - 1]) THEN attemp_send(send[k - 1]) ELSE send[k - 1]
    IN  send

\* _onTcpReadyRead: pieces are read while attemp_send takes them.
Taken(n) ==
    LET u == Tries(srv, n)[n]
        taken == u.selfseq - srv.selfseq
    IN  [u |-> IF taken < n THEN attemp_send(u) ELSE u, taken |-> taken]

ServerReads(n, q) ==
    LET t == Taken(n)
        pieces == [i \in 1..t.taken |-> Pkt("DATA", srv.selfseq + i - 1)]
    IN
    /\ back' = [back EXCEPT !.unread = n - t.taken]
    /\ ServerDoes(Result(t.u, Flushed(srv.sndpkts \o pieces, t.u), << >>), q)

\* connectToHost succeeds, or _onTcpError closes only the transport.
Dial ==
    /\ Alive("server") /\ NoSignal(srvq)
    /\ back.state = "connecting" /\ srv.known
    /\ \E s \in {"open", "refused"} :
        /\ back' = [back EXCEPT !.state = s]
        /\ ServerDoes(Ignored([srv EXCEPT !.closed = (s = "refused")]), srvq)
    /\ UNCHANGED <<served, backGot, raised>>

BackendWrite ==
    /\ Alive("server") /\ NoSignal(srvq)
    /\ back.state = "open" /\ served < MaxDown
    /\ served' = served + 1
    /\ ServerReads(back.unread + 1, srvq)
    /\ UNCHANGED <<backGot, raised>>

\* _toxchanBytesWritten.
ServerBytesWritten ==
    /\ Alive("server") /\ Next1(srvq, "bytesWritten")
    /\ IF srv.known
       THEN ServerReads(back.unread, Tail(srvq)) /\ UNCHANGED <<served, backGot, raised>>
       ELSE ServerRaises /\ srvq' = Tail(srvq)

\* _onTcpDisconnected: the backend closes; what it sent can still be read.
BackendClose ==
    /\ Alive("server") /\ NoSignal(srvq)
    /\ back.state = "open"
    /\ back' = [back EXCEPT !.state = "closed"]
    /\ ServerDoes(Ignored(PromiseCleanup([srv EXCEPT !.sock_close = TRUE,
                                                     !.closed = TRUE])), srvq)
    /\ UNCHANGED <<served, backGot, raised>>

ServerRecvTimer ==
    /\ Alive("server") /\ NoSignal(srvq)
    /\ srv.calls > 0
    /\ ServerDoes(on_recv_data(srv), srvq)
    /\ UNCHANGED <<back, served, backGot, raised>>

ServerReadyRead ==
    /\ Alive("server") /\ Next1(srvq, "readyRead")
    /\ IF srv.known
       THEN /\ backGot' = backGot \o ReadAll(srv)
            /\ ServerDoes(Ignored([srv EXCEPT !.rcvwins = {}]), Tail(srvq))
            /\ UNCHANGED <<back, served, raised>>
       ELSE ServerRaises /\ srvq' = Tail(srvq)

\* _try_step_send; old says whether 35 s have passed since mkdiscon, and then
\* the 1 ms timers of that time have fired.  Before mkdiscon there is no such
\* time, and asking for it raises AttributeError.
ServerTick(old) ==
    /\ Alive("server") /\ NoTick(srvq)
    /\ srv.timers /\ (old => srv.calls = 0)
    /\ LET u == attemp_flush(srv)
           fin == SaysCanClose(u, "ESTAB")
           over == ~fin /\ u.can_close /\ old /\ u.state = "TIME_WAIT"
           sent == Flushed(srv.sndpkts, u)
       IN  IF ~fin /\ u.can_close /\ u.state = "ESTAB"
           THEN ServerRaises /\ UNCHANGED srvq
           ELSE /\ ServerDoes(Result([u EXCEPT !.can_close = @ \/ fin], sent,
                    (IF sent = << >> THEN << >> ELSE BytesWritten(u))
                    \o (IF fin THEN <<Signal("canClose")>> ELSE << >>)
                    \o (IF over THEN <<Signal("disconnected")>> ELSE << >>)), srvq)
                /\ UNCHANGED <<back, served, backGot, raised>>

\* The packets of the window are sent by their numbers.
BySeq(pkts) ==
    [i \in 1..Cardinality(SeqsOf(pkts)) |->
        CHOOSE p \in pkts : p.seq = Ascending(SeqsOf(pkts))[i]]

\* Mutant of ServerResend: only FINs are sent again.
ServerResendFins(late) ==
    /\ Alive("server") /\ srv.timers
    /\ late # {} /\ Cardinality(late) <= BufSize
    /\ \A p \in late : p.type # "DATA"
    /\ UnderWay + Cardinality(late) <= MaxNet
    /\ ServerDoes(Result(srv, BySeq(late), << >>), srvq)
    /\ UNCHANGED <<back, served, backGot, raised>>

\* _on_check_losspkt_timeout: what waited too long for its ACK is sent again.
ServerResend(late) ==
    /\ Alive("server") /\ srv.timers
    /\ late # {} /\ Cardinality(late) <= BufSize
    /\ UnderWay + Cardinality(late) <= MaxNet
    /\ ServerDoes(Result(srv, BySeq(late), << >>), srvq)
    /\ UNCHANGED <<back, served, backGot, raised>>

\* _toxchanCanClose: the SRVFIN.
ServerCanClose ==
    /\ Alive("server") /\ Next1(srvq, "canClose")
    /\ IF srv.known
       THEN LET u == mkdiscon(srv, "SRVFIN")
                sent == Flushed(make_pkt(srv, "SRVFIN").sndpkts, u)
            IN
            /\ ServerDoes(Result(u, sent, << >>), Tail(srvq))
            /\ UNCHANGED <<back, served, backGot, raised>>
       ELSE ServerRaises /\ srvq' = Tail(srvq)

ServerDisconnected ==
    /\ Alive("server") /\ Next1(srvq, "disconnected")
    /\ ServerDoes(Ignored(IF srv.known
                          THEN PromiseCleanup([srv EXCEPT !.rudp_close = TRUE])
                          ELSE srv), Tail(srvq))
    /\ UNCHANGED <<back, served, backGot, raised>>

-----------------------------------------------------------------------------
Network == LinkDown \/ LinkUp \/ PostToClient \/ PostToServer

\* The event loops handle the event at the head of the queue.
ClientEvent ==
    ClientMessage \/ ClientConnected \/ ClientReadyRead \/ ClientCanClose
    \/ ClientDisconnected
ServerEvent ==
    ServerMessage \/ ServerReadyRead \/ ServerBytesWritten \/ ServerCanClose
    \/ ServerDisconnected

Client == ClientEvent \/ ClientRecvTimer \/ ClientTick \/ AppWrite \/ AppClose

Server ==
    \/ ServerEvent \/ ServerRecvTimer
    \/ \E old \in BOOLEAN : ServerTick(old)
    \/ \E late \in SUBSET srv.sndwins : ServerResend(late)
    \/ Dial \/ BackendWrite \/ BackendClose

Next == Network \/ Client \/ Server

Spec == Init /\ [][Next]_vars

(***************************************************************************)
(* Fairness.  The event loops run, timers fire, connectToHost comes to an  *)
(* end, Tox finds a lost friend again and delivers what is under way.  A   *)
(* packet that stays unacknowledged is sent again: the number sent in one  *)
(* round is limited, but the ones sent are young then and others follow.   *)
(* Nothing is assumed of the application and the backend.                  *)
(***************************************************************************)
ResendOf(n) == ServerResend({p \in srv.sndwins : p.seq = n})

Fairness ==
    /\ WF_vars(LinkUp) /\ WF_vars(PostToClient) /\ WF_vars(PostToServer)
    /\ WF_vars(ClientEvent) /\ WF_vars(ClientRecvTimer) /\ WF_vars(ClientTick)
    /\ WF_vars(ServerEvent) /\ WF_vars(ServerRecvTimer)
    /\ WF_vars(ServerTick(TRUE)) /\ WF_vars(Dial)
    /\ \A n \in 1 .. MaxDown + 1 : SF_vars(ResendOf(n))

FairSpec == Spec /\ Fairness

-----------------------------------------------------------------------------
InOrder(s, n) == Len(s) <= n /\ s = [i \in 1..Len(s) |-> i]

\* Each side is given the pieces of the other in order, once each and without
\* gaps, however often the friends lose each other and packets come again.
StreamsIntact == InOrder(appGot, served) /\ InOrder(backGot, wrote)

\* The server says SRVFIN only when its backend has been read to the end and
\* the client holds every piece: from then on both sides ignore data, so one
\* that were still missing would never come.
FinAfterAll ==
    srv.state \in {"FIN_WAIT_1", "FIN_WAIT_2", "TIME_WAIT"} =>
        /\ back.unread = 0
        /\ 1..served \subseteq cli.rcvpkts \cup cli.rcvwins \cup ToSet(appGot)

\* No handler looks up a channel that has been removed, nor asks for the time
\* of a close that has not begun: late packets and queued signals never come
\* after the cleanup.
NoHandlerRaises == raised = {}

Stage(u) ==
    CASE u.state \in {"INIT", "SYN_SENT"} -> 0 [] u.state = "SYN_RCVD" -> 1
      [] u.state = "ESTAB" -> 2 [] u.state \in {"FIN_WAIT_1", "CLOSE_WAIT"} -> 3
      [] u.state \in {"FIN_WAIT_2", "LAST_ACK"} -> 4 [] OTHER -> 5

\* A connection only goes forward, and each side says one FIN at most, although
\* canClose is emitted at every tick until the FIN is out.
OneFin ==
    [][/\ Stage(cli') >= Stage(cli) /\ Stage(srv') >= Stage(srv)
       /\ srv'.selfseq <= served' + 2 /\ cli'.selfseq <= wrote' + 2]_vars

\* The packets that _on_recv_data still has to move, and whether it has left
\* the next one where only another packet's arrival would bring it again.
ToMove == {n \in cli.rcvpkts : n >= cli.rcvseq}
LeftBehind == cli.calls = 0 /\ cli.rcvseq \in cli.rcvpkts

\* Whatever the server has taken from the backend on a connection that stands
\* gets to the client, also while the connection closes: Tox may lose it and
\* then it is sent again.  It gets on to the application unless a packet is
\* left behind; that happens only when more of them wait than one call moves.
DownDelivered ==
    /\ []<>(Stage(srv) >= 2 =>
             1 .. served - back.unread \subseteq cli.rcvpkts \cup cli.rcvwins \cup ToSet(appGot))
    /\ [][~LeftBehind /\ LeftBehind' => Cardinality(ToMove) > RcvBatch]_vars
    /\ []~LeftBehind => []<>(Stage(srv) >= 2 => Len(appGot) = served - back.unread)

\* When both TCP connections have closed, and unless the friends lose each
\* other, both sides come to forget the channel.
Released ==
    []<>(app.state = "closed" /\ back.state = "closed" /\ downs = 0
            => ~cli.known /\ ~srv.known)

\* The closing hand-shake of two state machines and their timers ends as it
\* should: one FIN of each side, after the data, and then nothing is left.
EndsWell == OneFin /\ DownDelivered /\ Released

\* readme.md lists the repeated sending of close packets as done, so that a
\* client that has sent its CLIFIN gets to CLOSED although one may be lost.
CloseIsRepeated == (cli.state = "LAST_ACK") ~> (cli.state = "CLOSED")
=============================================================================
