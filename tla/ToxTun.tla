------------------------------- MODULE ToxTun -------------------------------
(***************************************************************************)
(* toxtun-go: the client, the server and the Tox network between them.     *)
(***************************************************************************)
EXTENDS Tunnelc, Tunneld

vars == <<netVars, clientVars, serverVars>>

TypeOK == NetTypeOK /\ ClientTypeOK /\ ServerTypeOK

Init == NetInit /\ ClientInit /\ ServerInit

\* Handlers of the client's event loop.
ClientLoop ==
    \/ \E c \in Conns : InitConnChanel(c)
    \/ \E i \in ChanIds : \/ ClientCheckACKRecved(i)
                          \/ ProcessClientReadyRead(i)
                          \/ ClientClose(i)
    \/ ClientServeKcp
    \/ ClientRecvAck
    \/ ClientRecvFin
    \/ \E p \in lossyS : ClientRecvLossy(p)

\* The client's goroutines and its applications.
ClientOutside ==
    \/ \E c \in Conns : Accept(c) \/ AppClose(c)
    \/ \E i \in ChanIds : \/ ClientPollRead(i)
                          \/ ClientPollQueue(i)
                          \/ ClientPollEnd(i)
                          \/ ClientPollPost(i)

\* Handlers of the server's event loop.
ServerLoop ==
    \/ \E j \in ChanIds : \/ ProcessServerReadyRead(j)
                          \/ ServerClose(j)
    \/ \E S \in SUBSET spool : ServerServeKcp(S)
    \/ KcpCheckClose
    \/ ServerRecvSyn
    \/ ServerRecvFin
    \/ \E p \in lossyC : ServerRecvLossy(p)

\* The server's goroutines and the backends.
ServerOutside ==
    \E j \in ChanIds : \/ ServerDial(j)
                       \/ ServerDialFails(j)
                       \/ BackendClose(j)
                       \/ ServerPollRead(j)
                       \/ ServerPollQueue(j)
                       \/ ServerPollEnd(j)
                       \/ ServerPollPost(j)

Next ==
    \/ (ClientLoop \/ ClientOutside) /\ UNCHANGED serverVars
    \/ (ServerLoop \/ ServerOutside) /\ UNCHANGED clientVars
    \/ (LinkDown \/ LinkUp) /\ UNCHANGED <<clientVars, serverVars>>

Spec == Init /\ [][Next]_vars
-----------------------------------------------------------------------------
(***************************************************************************)
(* Fairness.  Go's select picks at random among the queues that have an    *)
(* event, so an event that stays queued is handled; a runnable goroutine   *)
(* runs; timers fire; net.Dial returns.  A KCP packet that is sent again   *)
(* and again arrives, and toxcore reconnects friends who lost each other.  *)
(* Nothing is assumed of applications and backends.                        *)
(***************************************************************************)
Client(A) == A /\ UNCHANGED serverVars
Server(A) == A /\ UNCHANGED clientVars

Fairness ==
    /\ \A c \in Conns : WF_vars(Client(InitConnChanel(c)))
    /\ \A i \in ChanIds :
        /\ WF_vars(Client(ClientCheckACKRecved(i)))
        /\ WF_vars(Client(ProcessClientReadyRead(i)))
        /\ WF_vars(Client(ClientClose(i)))
        /\ WF_vars(Client(ClientPollQueue(i)))
        /\ WF_vars(Client(ClientPollEnd(i)))
        /\ WF_vars(Client(ClientPollPost(i)))
        /\ WF_vars(Server(ProcessServerReadyRead(i)))
        /\ WF_vars(Server(ServerClose(i)))
        /\ WF_vars(Server(ServerDial(i) \/ ServerDialFails(i)))
        /\ WF_vars(Server(ServerPollQueue(i)))
        /\ WF_vars(Server(ServerPollEnd(i)))
        /\ WF_vars(Server(ServerPollPost(i)))
        /\ WF_vars(Server(ServerServeKcp({i})))
    /\ WF_vars(Client(ClientServeKcp))
    /\ WF_vars(Client(ClientRecvAck)) /\ WF_vars(Client(ClientRecvFin))
    /\ WF_vars(Client(\E p \in lossyS : ClientRecvLossy(p)))
    /\ WF_vars(Server(KcpCheckClose))
    /\ WF_vars(Server(ServerRecvSyn)) /\ WF_vars(Server(ServerRecvFin))
    /\ WF_vars(Server(\E p \in lossyC : ServerRecvLossy(p)))
    /\ WF_vars(LinkUp /\ UNCHANGED <<clientVars, serverVars>>)

FairSpec == Spec /\ Fairness

-----------------------------------------------------------------------------
\* pool and pool2 of the client describe the same channels: a conv leads to
\* a registered channel that has this conv, and a connected channel is found
\* by its conv.  Handlers find channels through one map or the other, and
\* rmClient, putClient and putClientLacks maintain the two by hand.
ClientPoolsAgree ==
    /\ \A v \in Conv0 : cpool2[v] # 0 =>
            cpool2[v] \in cpool /\ cch[cpool2[v]].conv = v
    /\ \A i \in cpool : cch[i].kcp.open => cpool2[cch[i].conv] = i

\* The same for the server's maps (putServer, rmServer).  A second rmServer
\* of a channel deletes by conv without looking, so the maps stay in step only
\* as long as that conv has not been given to another channel.
ServerPoolsAgree ==
    /\ \A v \in Conv0 : spool2[v] # 0 =>
            spool2[v] \in spool /\ sch[spool2[v]].conv = v
    /\ \A j \in spool : spool2[sch[j].conv] = j

\* One TCP connection is never carried by two channels, although each attempt
\* of initConnChanel makes a new channel for it, and never waits for another
\* attempt while a channel carries it.
ConnOwnedOnce ==
    \A i \in cpool :
        /\ newConn[cch[i].conn] = NoEvent
        /\ \A k \in cpool : cch[k].conn = cch[i].conn => k = i

\* Two channel objects that share a conversation are the two ends of one
\* connection: each knows the other's id.  Data and FINs find their channel by
\* conv alone, so a conv shared with a third channel delivers them to strangers.
EndsAgree ==
    \A i \in ChanIds : cch[i].conn_ack_recved =>
        LET j == cch[i].chidsrv IN
        /\ j \in ChanIds
        /\ sch[j].chidcli = i /\ sch[j].conv = cch[i].conv
        /\ \A k \in ChanIds \ {i} : cch[k].conv # cch[i].conv

\* What an end has taken from the tunnel never exceeds what the other end
\* has put in, and what counts as acknowledged has been received.
NothingInvented ==
    \A i \in ChanIds : cch[i].conn_ack_recved =>
        LET c == cch[i].kcp
            s == sch[cch[i].chidsrv].kcp
        IN /\ c.read <= c.rcv /\ c.rcv <= s.snd /\ s.una <= c.rcv
           /\ s.read <= s.rcv /\ s.rcv <= c.snd /\ c.una <= s.rcv
           /\ cch[i].out <= c.read /\ sch[cch[i].chidsrv].out <= s.read

\* The closing promise covers every combination of flags it is called with,
\* and no history of events gives a channel a sixth reason: of its panics,
\* "Ooops" and addCloseReason's "wtf" are never reached.
PromiseIsTotal ==
    cpanic \notin {"Ooops", "wtf"} /\ spanic \notin {"Ooops", "wtf"}

\* A client channel is closed in one of the ways the statistics report
\* (docs/stats.md): while the process lives, no reason is added twice and none
\* follows the channel's removal.
ReportedReasons ==
    cpanic = "no" =>
        \A i \in ChanIds : cch[i].close_reason \in
            {<< >>, <<"connect_timeout">>, <<"client_close">>, <<"both_close">>,
             <<"server_close">>, <<"server_close", "both_close">>}

\* While both processes live, the link holds and no KCP packet overtakes the
\* ACK, a connected client channel whose server end is gone has that end's FIN
\* on the way: nothing else would ever tell the client.
ClientNotAbandoned ==
    \A i \in cpool :
        cch[i].kcp.open /\ ~cch[i].server_socket_close =>
            \/ cch[i].chidsrv \in spool
            \/ \E k \in 1..Len(toClient) :
                    /\ toClient[k].command = CMDCLOSEFIN
                    /\ toClient[k].conv = cch[i].conv

\* In the same conditions the server never keeps a channel that the client has
\* given up, unless word of it is on the way: an ACK that the client will answer
\* with a FIN, or the FIN itself (channelGC, which should collect such channels,
\* is empty).
ServerNotAbandoned ==
    \A j \in spool :
        ~sch[j].client_socket_close =>
            \/ sch[j].chidcli \in cpool
            \/ \E k \in 1..Len(toClient) :
                    toClient[k].command = CMDCONNACK /\ toClient[k].conv = sch[j].conv
            \/ \E k \in 1..Len(toServer) :
                    toServer[k].command = CMDCLOSEFIN /\ toServer[k].conv = sch[j].conv

\* Neither end keeps a channel the other has given up without word of it on the
\* way (rmClient, rmServer, kcpCheckClose, the answer to a late ACK).
NotAbandoned == ClientNotAbandoned /\ ServerNotAbandoned

\* promiseChannelClose of both ends: every case it meets is one it knows, and
\* the reasons it leaves behind are the documented ones.
ClosesAsPromised == PromiseIsTotal /\ ReportedReasons

\* A channel that left a pool never comes back: a late ACK, FIN, timer or
\* reader event does not revive it, and ids are not used twice.
NeverRevived ==
    [][/\ \A i \in cpool' \ cpool : i = chanid0
       /\ \A j \in spool' \ spool : j = chidsrv0]_vars

-----------------------------------------------------------------------------
\* Every connection attempt is settled: a half-open channel is connected or
\* given up, whatever the server and the link do (the ACK timer).
AttemptSettled ==
    \A i \in ChanIds :
        (i \in cpool /\ ~cch[i].conn_ack_recved)
            ~> (cch[i].conn_ack_recved \/ i \notin cpool \/ cpanic # "no")

\* When the application has closed its connection, the client forgets the
\* channel and so does the server, unless one of them has died or the friends
\* have lost each other: a FIN is sent once, and lost with the link.
Undisturbed == cpanic = "no" /\ spanic = "no" /\ downs = 0
ClosedByAppReleased ==
    \A c \in Conns :
        (cconn[c] = "eof") ~>
            (Undisturbed => \A i \in ChanIds : cch[i].conn = c =>
                    i \notin cpool /\ \A j \in spool : sch[j].chidcli # i)

\* When the backend has closed its connection, both ends forget the channel.
ClosedByBackendReleased ==
    \A j \in ChanIds :
        (sconn[j] = "eof") ~>
            (Undisturbed => j \notin spool /\ sch[j].chidcli \notin cpool)

\* Whichever end of the connection goes first, both processes forget it.
ClosedIsReleased == ClosedByAppReleased /\ ClosedByBackendReleased

-----------------------------------------------------------------------------
(***************************************************************************)
(* A statement of the code's comments which the program does not keep.     *)
(***************************************************************************)
\* tunnelc.go: setting client_socket_close before conn.Close keeps the close
\* of a channel from being handled twice; rmClient asserts it.
ClosedOnceByClient == cpanic # "rmClient"
=============================================================================
