------------------------------ MODULE Tunneld ------------------------------
(***************************************************************************)
(* toxtun-go/tunneld.go: the server end of the tunnel.  One event loop     *)
(* (serve); beside it, for each channel, the goroutine that dials the      *)
(* backend and then reads from it (pollServerReadyRead).                   *)
(***************************************************************************)
EXTENDS ToxNet, SequencesExt

CONSTANT DialMayFail   \* whether the backend may refuse the connection

\* The backend is either reliable or not.
ASSUME TunneldAssumption == DialMayFail \in BOOLEAN

VARIABLES
    chidsrv0,  \* the next chidsrv
    sch,       \* the channels made so far, by chidsrv
    sconn,     \* state of each channel's backend connection
    spool,     \* chpool.pool: the chidsrv that are registered
    spool2,    \* chpool.pool2: channel registered for a conv, 0 when none
    spanic     \* why the process died, "no" while it runs

serverVars == <<chidsrv0, sch, sconn, spool, spool2, spanic>>

BackendStates == {"nil", "open", "eof", "closed"}
ServerPanics == {"no", "dial", "nilconn", "wtf", "Ooops"}

ServerTypeOK ==
    /\ chidsrv0 \in 1..MaxChan + 1
    /\ sch \in [ChanIds -> ChannelType]
    /\ sconn \in [ChanIds -> BackendStates]
    /\ spool \subseteq ChanIds
    /\ spool2 \in [Conv0 -> ChanIds \cup {0}]
    /\ spanic \in ServerPanics

ServerInit ==
    /\ chidsrv0 = 1
    /\ sch = [j \in ChanIds |-> ZeroChannel]
    /\ sconn = [j \in ChanIds |-> "nil"]
    /\ spool = {}
    /\ spool2 = [v \in Conv0 |-> 0]
    /\ spanic = "no"

ServerRunning == spanic = "no"

\* Mutant of RmServer: the conv stays registered.
RmServerKeepsConv(j, ch) == spool' = spool \ {j} /\ UNCHANGED spool2

\* ChannelPool.rmServer: unlike rmClient it does not look whether the
\* channel is registered.
RmServer(j, ch) ==
    /\ spool' = spool \ {j}
    /\ spool2' = [spool2 EXCEPT ![ch.conv] = 0]

\* addCloseReason(ch, reason) and its panic.
SetReason(j, ch, reason) ==
    /\ sch' = [sch EXCEPT ![j] = AddCloseReason(ch, reason)]
    /\ spanic' = IF ReasonPanic(ch) THEN "wtf" ELSE "no"

-----------------------------------------------------------------------------
\* pollServerReadyRead: net.Dial answers.  A failure is only logged, and the
\* next line asks the nil connection for its address.
ServerDial(j) ==
    /\ ServerRunning
    /\ sch[j].poll = "dial"
    /\ sch' = [sch EXCEPT ![j].poll = "reading"]
    /\ sconn' = [sconn EXCEPT ![j] = "open"]
    /\ UNCHANGED <<chidsrv0, spool, spool2, spanic, netVars>>

ServerDialFails(j) ==
    /\ ServerRunning
    /\ sch[j].poll = "dial"
    /\ DialMayFail
    /\ spanic' = "dial"
    /\ UNCHANGED <<chidsrv0, sch, sconn, spool, spool2, netVars>>

\* The backend ends its connection (environment).
BackendClose(j) ==
    /\ sconn[j] = "open"
    /\ sconn' = [sconn EXCEPT ![j] = "eof"]
    /\ UNCHANGED <<chidsrv0, sch, spool, spool2, spanic, netVars>>

\* pollServerReadyRead, one read of the backend ...
ServerPollRead(j) ==
    /\ ServerRunning
    /\ sch[j].poll = "reading"
    /\ sconn[j] = "open"
    /\ sch[j].taken < MaxData
    /\ sch' = [sch EXCEPT ![j] = [sch[j] EXCEPT !.taken = @ + 1, !.poll = "holding"]]
    /\ UNCHANGED <<chidsrv0, sconn, spool, spool2, spanic, netVars>>

\* ... whose data becomes a ServerReadyReadEvent once the KCP has room.
ServerPollQueue(j) ==
    /\ ServerRunning
    /\ sch[j].poll = "holding"
    /\ WaitSnd(sch[j].kcp) < SndLimit
    /\ sch' = [sch EXCEPT ![j] = [sch[j] EXCEPT !.queued = @ + 1, !.poll = "reading"]]
    /\ UNCHANGED <<chidsrv0, sconn, spool, spool2, spanic, netVars>>

\* pollServerReadyRead, the read fails: this goroutine sets the flag ...
ServerPollEnd(j) ==
    /\ ServerRunning
    /\ sch[j].poll = "reading"
    /\ sconn[j] \in {"eof", "closed"}
    /\ sch' = [sch EXCEPT ![j] = [sch[j] EXCEPT !.server_socket_close = TRUE, !.poll = "post"]]
    /\ UNCHANGED <<chidsrv0, sconn, spool, spool2, spanic, netVars>>

\* ... and only then queues the ServerCloseEvent.
ServerPollPost(j) ==
    /\ ServerRunning
    /\ sch[j].poll = "post"
    /\ sch' = [sch EXCEPT ![j].poll = "posted"]
    /\ UNCHANGED <<chidsrv0, sconn, spool, spool2, spanic, netVars>>

\* processServerReadyRead, for a ServerReadyReadEvent.
ProcessServerReadyRead(j) ==
    /\ ServerRunning
    /\ sch[j].queued > 0
    /\ sch' = [sch EXCEPT ![j] = [sch[j] EXCEPT !.queued = @ - 1, !.kcp = KcpSend(@)]]
    /\ UNCHANGED <<chidsrv0, sconn, spool, spool2, spanic, netVars>>

\* serveKcp and processKcpReadyRead.  Only the channels whose KCP is due (S)
\* are served; each takes ONE message and writes it to the backend, which
\* panics when the dial has not finished.
ServerServeKcp(S) ==
    /\ ServerRunning
    /\ S # {}
    /\ S \subseteq {j \in spool : sch[j].kcp.open}
    /\ LET Ready(j) == j \in S /\ sch[j].kcp.read < sch[j].kcp.rcv
           nilWrite == \E j \in S : Ready(j) /\ sconn[j] = "nil"
       IN /\ lossyS' = lossyS \cup
                (IF link THEN UNION {KcpFlush(sch[j].kcp, sch[j].conv) : j \in S} ELSE {})
          /\ spanic' = IF nilWrite THEN "nilconn" ELSE "no"
          /\ sch' = [j \in ChanIds |->
                IF Ready(j)
                THEN [sch[j] EXCEPT !.kcp = KcpRecv(@),
                        !.out = IF sconn[j] \in {"nil", "closed"} THEN @ ELSE @ + 1]
                ELSE sch[j]]
    /\ UNCHANGED <<chidsrv0, sconn, spool, spool2, link, downs, msgVars, lossyC>>

-----------------------------------------------------------------------------
(***************************************************************************)
(* promiseChannelClose(ch): one disjunct for each branch.  ch is channel j *)
(* with what the calling handler has already assigned.                     *)
(***************************************************************************)
\* promiseChannelClose, the backend has closed and its data is sent: one FIN;
\* when it cannot be sent the handler returns and the channel stays.
ServerNotifyClient(j, ch) ==
    /\ ch.server_socket_close /\ ch.server_kcp_close /\ ~ch.client_socket_close
    /\ toClient' = FriendSendMessage(toClient, ChannelPacket(ch, CMDCLOSEFIN))
    /\ IF link
       THEN SetReason(j, ch, "server_close") /\ RmServer(j, ch)
       ELSE sch' = [sch EXCEPT ![j] = ch] /\ UNCHANGED <<spool, spool2, spanic>>
    /\ UNCHANGED sconn

\* Mutant of ServerStillSending: the channel is dropped with its data.
ServerStopsSending(j, ch) ==
    /\ ch.server_socket_close /\ ~ch.server_kcp_close /\ ~ch.client_socket_close
    /\ SetReason(j, ch, "server_close2")
    /\ RmServer(j, ch)
    /\ UNCHANGED <<sconn, toClient>>

\* promiseChannelClose, the backend has closed but there is data to send.
ServerStillSending(j, ch) ==
    /\ ch.server_socket_close /\ ~ch.server_kcp_close /\ ~ch.client_socket_close
    /\ SetReason(j, ch, "server_close2")
    /\ UNCHANGED <<sconn, spool, spool2, toClient>>

\* promiseChannelClose, the client has closed: the backend connection is
\* closed whatever its state; closing nil panics.
ServerForceClose(j, ch) ==
    /\ ~ch.server_socket_close /\ ch.client_socket_close
    /\ sch' = [sch EXCEPT ![j] =
                [AddCloseReason(ch, "client_close") EXCEPT !.server_socket_close = TRUE]]
    /\ IF ReasonPanic(ch) THEN spanic' = "wtf" /\ UNCHANGED sconn
       ELSE IF sconn[j] = "nil" THEN spanic' = "nilconn" /\ UNCHANGED sconn
       ELSE spanic' = "no" /\ sconn' = [sconn EXCEPT ![j] = "closed"]
    /\ UNCHANGED <<spool, spool2, toClient>>

\* promiseChannelClose, both sides are closed.
ServerBothClosed(j, ch) ==
    /\ ch.server_socket_close /\ ch.client_socket_close
    /\ SetReason(j, ch, "both_close")
    /\ RmServer(j, ch)
    /\ UNCHANGED <<sconn, toClient>>

\* promiseChannelClose, no side is closed: panic.
ServerOoops(j, ch) ==
    /\ ~ch.server_socket_close /\ ~ch.client_socket_close
    /\ spanic' = "Ooops"
    /\ UNCHANGED <<sch, sconn, spool, spool2, toClient>>

ServerPromiseChannelClose(j, ch) ==
    \/ ServerNotifyClient(j, ch)
    \/ ServerStillSending(j, ch)
    \/ ServerForceClose(j, ch)
    \/ ServerBothClosed(j, ch)
    \/ ServerOoops(j, ch)

\* The loop takes a ServerCloseEvent.
ServerClose(j) ==
    /\ ServerRunning
    /\ sch[j].poll = "posted"
    /\ ServerPromiseChannelClose(j, [sch[j] EXCEPT !.poll = "done"])
    /\ UNCHANGED <<chidsrv0, link, downs, toServer, lossyVars>>

\* Mutant of KcpDrained: only channels that are marked already.
KcpDrainedTwice(j) ==
    /\ j \in spool
    /\ sch[j].kcp.open
    /\ sch[j].server_socket_close /\ sch[j].server_kcp_close
    /\ WaitSnd(sch[j].kcp) = 0

\* kcpCheckClose, once a second: every channel whose backend has ended and
\* whose KCP has nothing left to send is marked, then promiseChannelClose is
\* called for each, in the order in which Go happens to walk the map.
KcpDrained(j) ==
    /\ j \in spool
    /\ sch[j].kcp.open
    /\ sch[j].server_socket_close /\ ~sch[j].server_kcp_close
    /\ WaitSnd(sch[j].kcp) = 0

KcpCheckClose ==
    LET drained == {j \in ChanIds : KcpDrained(j)}
        finished == {j \in drained : ~sch[j].client_socket_close}
        removed == IF link THEN drained ELSE drained \ finished
        Marked(j) == [sch[j] EXCEPT !.server_kcp_close = TRUE]
    IN /\ ServerRunning
       /\ drained # {}
       /\ sch' = [j \in ChanIds |->
            IF j \notin drained THEN sch[j]
            ELSE IF j \notin finished THEN AddCloseReason(Marked(j), "both_close")
            ELSE IF link THEN AddCloseReason(Marked(j), "server_close")
            ELSE Marked(j)]
       /\ spanic' = IF \E j \in removed : ReasonPanic(sch[j]) THEN "wtf" ELSE "no"
       /\ spool' = spool \ removed
       /\ spool2' = [v \in Conv0 |->
            IF \E j \in removed : sch[j].conv = v THEN 0 ELSE spool2[v]]
       /\ \E order \in SetToSeqs(finished) :
            toClient' = IF link
                THEN toClient \o [k \in DOMAIN order |->
                                    ChannelPacket(sch[order[k]], CMDCLOSEFIN)]
                ELSE toClient
       /\ UNCHANGED <<chidsrv0, sconn, link, downs, toServer, lossyVars>>

-----------------------------------------------------------------------------
\* Mutant of MakeKcpConv: crc32 without the time.
MakeKcpConvTimeless == {CHOOSE v \in Convs : TRUE}

\* makeKcpConv: crc32 over the friend, the target and the time.  The code does
\* not compare it with the conversations in use; that it repeats none of them
\* is an assumption of this model.
MakeKcpConv == Convs \ {sch[j].conv : j \in 1..chidsrv0 - 1}

\* onToxnetFriendMessage, connect_syn: a channel with its KCP, the ACK (whose
\* failure is only logged) and the goroutine that dials.
ServerRecvSyn ==
    /\ ServerRunning /\ link
    /\ toServer # << >> /\ Head(toServer).command = CMDCONNSYN
    /\ toServer' = Tail(toServer)
    /\ chidsrv0 <= MaxChan
    /\ chidsrv0' = chidsrv0 + 1
    /\ \E conv \in MakeKcpConv :
        LET ch == [NewChannelWithId(chidsrv0, Head(toServer).chidcli) EXCEPT
                        !.conv = conv, !.kcp = NewKCP, !.poll = "dial"]
        IN /\ sch' = [sch EXCEPT ![chidsrv0] = ch]
           /\ spool' = spool \cup {chidsrv0}
           /\ spool2' = [spool2 EXCEPT ![conv] = chidsrv0]
           /\ toClient' = FriendSendMessage(toClient, ChannelPacket(ch, CMDCONNACK))
    /\ UNCHANGED <<sconn, spanic, link, downs, lossyVars>>

\* onToxnetFriendMessage, close_fin.
ServerRecvFin ==
    /\ ServerRunning /\ link
    /\ toServer # << >> /\ Head(toServer).command = CMDCLOSEFIN
    /\ toServer' = Tail(toServer)
    /\ LET j == spool2[Head(toServer).conv] IN
       IF j # 0
       THEN ServerPromiseChannelClose(j, [sch[j] EXCEPT !.client_socket_close = TRUE])
       ELSE UNCHANGED <<sch, sconn, spool, spool2, spanic, toClient>>
    /\ UNCHANGED <<chidsrv0, link, downs, lossyVars>>

\* onToxnetFriendLossyPacket: an unknown conversation is only logged.
ServerRecvLossy(p) ==
    /\ ServerRunning /\ link
    /\ spool2[p.conv] # 0
    /\ sch' = [sch EXCEPT ![spool2[p.conv]].kcp = KcpInput(@, p)]
    /\ UNCHANGED <<chidsrv0, sconn, spool, spool2, spanic, netVars>>
=============================================================================
