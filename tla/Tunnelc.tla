------------------------------ MODULE Tunnelc ------------------------------
(***************************************************************************)
(* toxtun-go/tunnelc.go: the client end of the tunnel.  One event loop     *)
(* (serve) runs every handler to its end; beside it run the acceptor, the  *)
(* retry and ACK-timeout timers and, for each connected channel, the       *)
(* goroutine that reads its TCP connection (pollClientReadyRead).          *)
(***************************************************************************)
EXTENDS ToxNet

VARIABLES
    cconn,     \* state of each application's TCP connection
    newConn,   \* newConnChan: attempt number of a conn's pending NewConnEvent
    chanid0,   \* the next chidcli
    cch,       \* the channels made so far, by chidcli
    cpool,     \* chpool.pool: the chidcli that are registered
    cpool2,    \* chpool.pool2: channel registered for a conv, 0 when none
    ackTimer,  \* channels whose 15 s ACK timer has not been handled
    cpanic     \* why the process died, "no" while it runs

clientVars == <<cconn, newConn, chanid0, cch, cpool, cpool2, ackTimer, cpanic>>

ConnStates == {"new", "open", "eof", "closed"}
NoEvent == -1
ClientPanics == {"no", "rmClient", "wtf", "Ooops"}

ClientTypeOK ==
    /\ cconn \in [Conns -> ConnStates]
    /\ newConn \in [Conns -> {NoEvent} \cup 0..RetryLimit]
    /\ chanid0 \in 1..MaxChan + 1
    /\ cch \in [ChanIds -> ChannelType]
    /\ cpool \subseteq ChanIds
    /\ cpool2 \in [Conv0 -> ChanIds \cup {0}]
    /\ ackTimer \subseteq ChanIds
    /\ cpanic \in ClientPanics

ClientInit ==
    /\ cconn = [c \in Conns |-> "new"]
    /\ newConn = [c \in Conns |-> NoEvent]
    /\ chanid0 = 1
    /\ cch = [i \in ChanIds |-> ZeroChannel]
    /\ cpool = {}
    /\ cpool2 = [v \in Conv0 |-> 0]
    /\ ackTimer = {}
    /\ cpanic = "no"

ClientRunning == cpanic = "no"

\* conn.Close() on the application's connection.
CloseConn(ch) == cconn' = [cconn EXCEPT ![ch.conn] = "closed"]

\* Mutant of RmClient: the conv stays registered.
RmClientKeepsConv(ch) ==
    cpool' = cpool \ {ch.chidcli} /\ UNCHANGED <<cpool2, cpanic>>

(***************************************************************************)
(* ChannelPool.rmClient, after addCloseReason: both panic on a state their *)
(* author holds impossible.                                                *)
(***************************************************************************)
RmClient(ch) ==
    IF Len(ch.close_reason) > MaxReasons
    THEN cpanic' = "wtf" /\ UNCHANGED <<cpool, cpool2>>
    ELSE IF ch.chidcli \notin cpool
    THEN cpanic' = "rmClient" /\ UNCHANGED <<cpool, cpool2>>
    ELSE /\ cpool' = cpool \ {ch.chidcli}
         /\ cpool2' = [cpool2 EXCEPT ![ch.conv] = 0]
         /\ UNCHANGED cpanic

-----------------------------------------------------------------------------
\* serveTcp: an application connects; the event is queued for the loop.
Accept(c) ==
    /\ ClientRunning
    /\ cconn[c] = "new"
    /\ cconn' = [cconn EXCEPT ![c] = "open"]
    /\ newConn' = [newConn EXCEPT ![c] = 0]
    /\ UNCHANGED <<netVars, chanid0, cch, cpool, cpool2, ackTimer, cpanic>>

\* The application ends its connection (environment).
AppClose(c) ==
    /\ cconn[c] = "open"
    /\ cconn' = [cconn EXCEPT ![c] = "eof"]
    /\ UNCHANGED <<netVars, newConn, chanid0, cch, cpool, cpool2, ackTimer, cpanic>>

\* Mutants of SynFailed: one attempt too many; no rmClient.
SynFailedOnceMore(c, ch) ==
    /\ IF newConn[c] <= RetryLimit
       THEN newConn' = [newConn EXCEPT ![c] = @ + 1] /\ UNCHANGED cconn
       ELSE newConn' = [newConn EXCEPT ![c] = NoEvent] /\ CloseConn(ch)
    /\ UNCHANGED <<cpool, ackTimer>>
SynFailedNotRemoved(c, ch) ==
    /\ newConn' = [newConn EXCEPT ![c] = @ + 1]
    /\ cpool' = cpool \cup {ch.chidcli}
    /\ UNCHANGED <<ackTimer, cconn>>

\* initConnChanel, the SYN could not be sent: rmClient undoes putClient, and
\* a goroutine queues the next attempt after 500 ms; after the last one the
\* connection is closed.
SynFailed(c, ch) ==
    /\ IF newConn[c] < RetryLimit
       THEN newConn' = [newConn EXCEPT ![c] = @ + 1] /\ UNCHANGED cconn
       ELSE newConn' = [newConn EXCEPT ![c] = NoEvent] /\ CloseConn(ch)
    /\ UNCHANGED <<cpool, ackTimer>>

\* initConnChanel: every attempt makes a new channel, registers it, sends the
\* SYN and starts the ACK timer.
InitConnChanel(c) ==
    /\ ClientRunning
    /\ newConn[c] # NoEvent
    /\ chanid0 <= MaxChan
    /\ chanid0' = chanid0 + 1
    /\ LET ch == NewChannelClient(chanid0, c) IN
       /\ cch' = [cch EXCEPT ![chanid0] = ch]
       /\ toServer' = FriendSendMessage(toServer, ChannelPacket(ch, CMDCONNSYN))
       /\ IF link
          THEN /\ cpool' = cpool \cup {chanid0}
               /\ ackTimer' = ackTimer \cup {chanid0}
               /\ newConn' = [newConn EXCEPT ![c] = NoEvent]
               /\ UNCHANGED cconn
          ELSE SynFailed(c, ch)
    /\ UNCHANGED <<cpool2, cpanic, link, downs, toClient, lossyVars>>

\* Mutant of AckTimeout: the connection is closed, the channel stays.
AckTimeoutOnlyCloses(i) ==
    /\ cch' = [cch EXCEPT ![i] = AddCloseReason(cch[i], "connect_timeout")]
    /\ CloseConn(cch[i])
    /\ UNCHANGED <<cpool, cpool2, cpanic>>

\* clientCheckACKRecved, no ACK has come: the half-open channel is given up.
AckTimeout(i) ==
    LET ch == AddCloseReason(cch[i], "connect_timeout") IN
    /\ cch' = [cch EXCEPT ![i] = ch]
    /\ RmClient(ch)
    /\ CloseConn(ch)

\* clientCheckACKRecved: 15 s after the SYN was sent.
ClientCheckACKRecved(i) ==
    /\ ClientRunning
    /\ i \in ackTimer
    /\ ackTimer' = ackTimer \ {i}
    /\ IF cch[i].conn_ack_recved
       THEN UNCHANGED <<cch, cconn, cpool, cpool2, cpanic>>
       ELSE AckTimeout(i)
    /\ UNCHANGED <<newConn, chanid0, netVars>>

\* serveKcp and processKcpReadyRead: every connected channel flushes, then
\* ONE received message is taken and written to the connection.
ClientServeKcp ==
    /\ ClientRunning
    /\ \E i \in cpool : cch[i].kcp.open
    /\ LET served == {i \in cpool : cch[i].kcp.open}
           Ready(i) == i \in served /\ cch[i].kcp.read < cch[i].kcp.rcv
       IN /\ lossyC' = lossyC \cup
                (IF link THEN UNION {KcpFlush(cch[i].kcp, cch[i].conv) : i \in served}
                 ELSE {})
          /\ cch' = [i \in ChanIds |->
                IF Ready(i)
                THEN [cch[i] EXCEPT !.kcp = KcpRecv(@),
                        !.out = IF cconn[cch[i].conn] = "closed" THEN @ ELSE @ + 1]
                ELSE cch[i]]
    /\ UNCHANGED <<cconn, newConn, chanid0, cpool, cpool2, ackTimer, cpanic,
                   link, downs, msgVars, lossyS>>

-----------------------------------------------------------------------------
\* pollClientReadyRead, one read of the connection ...
ClientPollRead(i) ==
    /\ ClientRunning
    /\ cch[i].poll = "reading"
    /\ cconn[cch[i].conn] = "open"
    /\ cch[i].taken < MaxData
    /\ cch' = [cch EXCEPT ![i] = [cch[i] EXCEPT !.taken = @ + 1, !.poll = "holding"]]
    /\ UNCHANGED <<cconn, newConn, chanid0, cpool, cpool2, ackTimer, cpanic, netVars>>

\* ... whose data becomes a ClientReadyReadEvent once the KCP has room.
ClientPollQueue(i) ==
    /\ ClientRunning
    /\ cch[i].poll = "holding"
    /\ WaitSnd(cch[i].kcp) < SndLimit
    /\ cch' = [cch EXCEPT ![i] = [cch[i] EXCEPT !.queued = @ + 1, !.poll = "reading"]]
    /\ UNCHANGED <<cconn, newConn, chanid0, cpool, cpool2, ackTimer, cpanic, netVars>>

\* Mutant of ClientPollEnd: the flag is left to somebody else.
ClientPollEndUnflagged(i) ==
    /\ ClientRunning
    /\ cch[i].poll = "reading"
    /\ cconn[cch[i].conn] \in {"eof", "closed"}
    /\ cch' = [cch EXCEPT ![i].poll = "post"]
    /\ UNCHANGED <<cconn, newConn, chanid0, cpool, cpool2, ackTimer, cpanic, netVars>>

\* pollClientReadyRead, the read fails: the flag is set by this goroutine...
ClientPollEnd(i) ==
    /\ ClientRunning
    /\ cch[i].poll = "reading"
    /\ cconn[cch[i].conn] \in {"eof", "closed"}
    /\ cch' = [cch EXCEPT ![i] = [cch[i] EXCEPT !.client_socket_close = TRUE, !.poll = "post"]]
    /\ UNCHANGED <<cconn, newConn, chanid0, cpool, cpool2, ackTimer, cpanic, netVars>>

\* ... and only then is the ClientCloseEvent queued.
ClientPollPost(i) ==
    /\ ClientRunning
    /\ cch[i].poll = "post"
    /\ cch' = [cch EXCEPT ![i].poll = "posted"]
    /\ UNCHANGED <<cconn, newConn, chanid0, cpool, cpool2, ackTimer, cpanic, netVars>>

\* processClientReadyRead, for a ClientReadyReadEvent.
ProcessClientReadyRead(i) ==
    /\ ClientRunning
    /\ cch[i].queued > 0
    /\ cch' = [cch EXCEPT ![i] = [cch[i] EXCEPT !.queued = @ - 1, !.kcp = KcpSend(@)]]
    /\ UNCHANGED <<cconn, newConn, chanid0, cpool, cpool2, ackTimer, cpanic, netVars>>

-----------------------------------------------------------------------------
(***************************************************************************)
(* promiseChannelClose(ch): one disjunct for each branch.  ch is channel i *)
(* with what the calling handler has already assigned.                     *)
(***************************************************************************)
\* Mutant of ClientNotifyServer: the channel is not removed.
ClientNotifyServerNoRemoval(i, ch) ==
    /\ ch.client_socket_close /\ ~ch.server_socket_close
    /\ toServer' = FriendSendMessage(toServer, ChannelPacket(ch, CMDCLOSEFIN))
    /\ cch' = [cch EXCEPT ![i] = AddCloseReason(ch, "client_close")]
    /\ UNCHANGED <<cpool, cpool2, cpanic, cconn>>

\* promiseChannelClose, only the client's side is closed: one FIN; when it
\* cannot be sent the handler returns and the channel stays.
ClientNotifyServer(i, ch) ==
    /\ ch.client_socket_close /\ ~ch.server_socket_close
    /\ toServer' = FriendSendMessage(toServer, ChannelPacket(ch, CMDCLOSEFIN))
    /\ IF link
       THEN LET c == AddCloseReason(ch, "client_close") IN
            cch' = [cch EXCEPT ![i] = c] /\ RmClient(c)
       ELSE cch' = [cch EXCEPT ![i] = ch] /\ UNCHANGED <<cpool, cpool2, cpanic>>
    /\ UNCHANGED cconn

\* promiseChannelClose, both sides are closed.
ClientBothClosed(i, ch) ==
    /\ ch.client_socket_close /\ ch.server_socket_close
    /\ LET c == AddCloseReason(ch, "both_close") IN
       cch' = [cch EXCEPT ![i] = c] /\ RmClient(c)
    /\ UNCHANGED <<cconn, toServer>>

\* Mutant of ClientForceClose: the flag is not set ahead of conn.Close.
ClientForceCloseUnflagged(i, ch) ==
    /\ ~ch.client_socket_close /\ ch.server_socket_close
    /\ cch' = [cch EXCEPT ![i] = AddCloseReason(ch, "server_close")]
    /\ CloseConn(ch)
    /\ UNCHANGED <<cpool, cpool2, cpanic, toServer>>

\* promiseChannelClose, only the server's side is closed: the flag is set
\* at once, because the reader notices conn.Close only later.
ClientForceClose(i, ch) ==
    /\ ~ch.client_socket_close /\ ch.server_socket_close
    /\ cch' = [cch EXCEPT ![i] =
                [AddCloseReason(ch, "server_close") EXCEPT !.client_socket_close = TRUE]]
    /\ cpanic' = IF ReasonPanic(ch) THEN "wtf" ELSE "no"
    /\ CloseConn(ch)
    /\ UNCHANGED <<cpool, cpool2, toServer>>

\* promiseChannelClose, no side is closed: panic.
ClientOoops(i, ch) ==
    /\ ~ch.client_socket_close /\ ~ch.server_socket_close
    /\ cpanic' = "Ooops"
    /\ UNCHANGED <<cch, cconn, cpool, cpool2, toServer>>

ClientPromiseChannelClose(i, ch) ==
    \/ ClientNotifyServer(i, ch)
    \/ ClientBothClosed(i, ch)
    \/ ClientForceClose(i, ch)
    \/ ClientOoops(i, ch)

\* The loop takes a ClientCloseEvent.
ClientClose(i) ==
    /\ ClientRunning
    /\ cch[i].poll = "posted"
    /\ ClientPromiseChannelClose(i, [cch[i] EXCEPT !.poll = "done"])
    /\ UNCHANGED <<newConn, chanid0, ackTimer, link, downs, toClient, lossyVars>>

-----------------------------------------------------------------------------
\* Mutant of AnswerLateAck: nobody is told.
AnswerLateAckNever(pkt) == UNCHANGED toServer

\* onToxnetFriendMessage, connect_ack for a channel that is gone: a FIN made
\* from the ACK's own fields tells the server.
AnswerLateAck(pkt) ==
    toServer' = FriendSendMessage(toServer,
        NewPacket(CMDCLOSEFIN, pkt.chidcli, pkt.chidsrv, pkt.conv))

\* onToxnetFriendMessage, connect_ack for a half-open channel: it gets its
\* conv, its KCP and its reader, and is registered under the conv.
AckConnects(pkt) ==
    /\ cch' = [cch EXCEPT ![pkt.chidcli] =
            [@ EXCEPT !.conv = pkt.conv, !.chidsrv = pkt.chidsrv,
                      !.kcp = NewKCP, !.conn_ack_recved = TRUE, !.poll = "reading"]]
    /\ cpool2' = [cpool2 EXCEPT ![pkt.conv] = pkt.chidcli]
    /\ UNCHANGED cpool

\* Mutant of ClientRecvAck: any ACK registers its channel.
ClientRecvAckUnchecked ==
    /\ ClientRunning /\ link
    /\ toClient # << >> /\ Head(toClient).command = CMDCONNACK
    /\ toClient' = Tail(toClient)
    /\ cpool' = cpool \cup {Head(toClient).chidcli}
    /\ cpool2' = [cpool2 EXCEPT ![Head(toClient).conv] = Head(toClient).chidcli]
    /\ UNCHANGED <<cch, toServer>>
    /\ UNCHANGED <<cconn, newConn, chanid0, ackTimer, cpanic, link, downs, lossyVars>>

\* onToxnetFriendMessage, connect_ack.
ClientRecvAck ==
    /\ ClientRunning /\ link
    /\ toClient # << >> /\ Head(toClient).command = CMDCONNACK
    /\ toClient' = Tail(toClient)
    /\ IF Head(toClient).chidcli \in cpool
       THEN AckConnects(Head(toClient)) /\ UNCHANGED toServer
       ELSE AnswerLateAck(Head(toClient)) /\ UNCHANGED <<cch, cpool, cpool2>>
    /\ UNCHANGED <<cconn, newConn, chanid0, ackTimer, cpanic, link, downs, lossyVars>>

\* onToxnetFriendMessage, close_fin.
ClientRecvFin ==
    /\ ClientRunning /\ link
    /\ toClient # << >> /\ Head(toClient).command = CMDCLOSEFIN
    /\ toClient' = Tail(toClient)
    /\ LET i == cpool2[Head(toClient).conv] IN
       IF i # 0
       THEN ClientPromiseChannelClose(i, [cch[i] EXCEPT !.server_socket_close = TRUE])
       ELSE UNCHANGED <<cch, cconn, cpool, cpool2, cpanic, toServer>>
    /\ UNCHANGED <<newConn, chanid0, ackTimer, link, downs, lossyVars>>

\* onToxnetFriendLossyPacket: a packet of a registered conversation goes to
\* its KCP; any other is answered with a FIN for its conv.
ClientRecvLossy(p) ==
    /\ ClientRunning
    /\ CanReachClient(p)
    /\ LET i == cpool2[p.conv] IN
       IF i # 0
       THEN /\ cch' = [cch EXCEPT ![i].kcp = KcpInput(@, p)]
            /\ UNCHANGED toServer
       ELSE /\ Len(toServer) < MaxMsgs
            /\ toServer' = FriendSendMessage(toServer, BrokenFIN(p.conv))
            /\ UNCHANGED cch
    /\ UNCHANGED <<cconn, newConn, chanid0, cpool, cpool2, ackTimer, cpanic,
                   link, downs, toClient, lossyVars>>
=============================================================================
