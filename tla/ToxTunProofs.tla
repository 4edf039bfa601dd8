---------------------------- MODULE ToxTunProofs ----------------------------
(***************************************************************************)
(* Theorems about ToxTun, for any number of connections, channels, link    *)
(* failures and messages: type correctness, what a channel's registered    *)
(* life in the pools of either side looks like, that the two ends of a     *)
(* tunnelled connection belong together, that data comes from the other    *)
(* end and nowhere else, that the closing promise of either side meets     *)
(* only the cases it knows, and, while the link holds and no KCP packet    *)
(* overtakes the ACK, that each side has word of what the other gave up.   *)
(***************************************************************************)
EXTENDS ToxTun, FiniteSetTheorems, SequenceTheorems, TLAPS

\* addCloseReason keeps a channel a channel.
LEMMA AddCloseReasonType ==
    ASSUME NEW ch \in ChannelType, NEW r \in Reasons
    PROVE  AddCloseReason(ch, r) \in ChannelType
<1>1. ch.close_reason \in Seq(Reasons)
  BY DEF ChannelType
<1>2. PICK rs \in Seq(Reasons) : rs = Append(ch.close_reason, r)
  <2>1. \A s \in Seq(Reasons) : Append(s, r) \in Seq(Reasons)
    OBVIOUS
  <2> QED
    BY <1>1, <2>1, Zenon
<1>3. [ch EXCEPT !.close_reason = rs] \in ChannelType
  BY ZenonT(60) DEF ChannelType
<1>4. AddCloseReason(ch, r) = [ch EXCEPT !.close_reason = rs]
  BY <1>2 DEF AddCloseReason
<1> QED
  BY <1>3, <1>4, Zenon

\* The packets made from channels are packets.
LEMMA ChannelPacketType ==
    ASSUME NEW ch \in ChannelType, NEW cmd \in Commands
    PROVE  ChannelPacket(ch, cmd) \in Packet
BY DEF ChannelPacket, NewPacket, Packet, ChannelType

\* What a KCP flush emits are KCP packets.
LEMMA KcpFlushType ==
    ASSUME NEW k \in KcpState, NEW v \in Conv0
    PROVE  KcpFlush(k, v) \subseteq KcpPacket
BY DEF KcpFlush, KcpPacket, KcpState

\* The KCP operations keep a KCP's type.
LEMMA KcpSendType ==
    ASSUME NEW k \in KcpState
    PROVE  KcpSend(k) \in KcpState
BY DEF KcpSend, KcpState

LEMMA KcpRecvType ==
    ASSUME NEW k \in KcpState
    PROVE  KcpRecv(k) \in KcpState
BY DEF KcpRecv, KcpState

LEMMA NewKCPType == NewKCP \in KcpState
BY DEF NewKCP, NilKcp, KcpState

LEMMA KcpInputType ==
    ASSUME NEW k \in KcpState, NEW p \in KcpPacket
    PROVE  KcpInput(k, p) \in KcpState
<1> DEFINE r == IF p.sn = k.rcv + 1 THEN p.sn ELSE k.rcv
           u == IF p.una > k.una THEN p.una ELSE k.una
<1>1. r \in Nat /\ u \in Nat
  BY DEF KcpState, KcpPacket
<1>2. KcpInput(k, p) = [k EXCEPT !.rcv = r, !.una = u]
  BY DEF KcpInput, KcpState
<1> QED
  BY <1>1, <1>2 DEF KcpState

\* The zero channel is a channel.
LEMMA ZeroChannelType == ZeroChannel \in ChannelType
BY DEF ZeroChannel, ChannelType, NilKcp, KcpState, Conv0, PollStates

\* What the goroutine of a channel, its event loop handlers and its KCP change
\* in it leaves it a channel.
LEMMA PollType ==
    ASSUME NEW ch \in ChannelType
    PROVE  /\ [ch EXCEPT !.taken = @ + 1, !.poll = "holding"] \in ChannelType
           /\ [ch EXCEPT !.queued = @ + 1, !.poll = "reading"] \in ChannelType
           /\ \A st \in PollStates : [ch EXCEPT !.poll = st] \in ChannelType
           /\ [ch EXCEPT !.client_socket_close = TRUE, !.poll = "post"] \in ChannelType
           /\ [ch EXCEPT !.server_socket_close = TRUE, !.poll = "post"] \in ChannelType
<1>1. ch.taken + 1 \in Nat /\ ch.queued + 1 \in Nat
  BY DEF ChannelType
<1>2. {"holding", "reading", "post"} \subseteq PollStates
  BY DEF PollStates
<1>3. [ch EXCEPT !.taken = ch.taken + 1, !.poll = "holding"] \in ChannelType
  BY <1>1, <1>2 DEF ChannelType
<1>4. [ch EXCEPT !.queued = ch.queued + 1, !.poll = "reading"] \in ChannelType
  BY <1>1, <1>2 DEF ChannelType
<1>5. \A st \in PollStates : [ch EXCEPT !.poll = st] \in ChannelType
  BY DEF ChannelType
<1>6. [ch EXCEPT !.client_socket_close = TRUE, !.poll = "post"] \in ChannelType
  BY <1>2 DEF ChannelType
<1>7. [ch EXCEPT !.server_socket_close = TRUE, !.poll = "post"] \in ChannelType
  BY <1>2 DEF ChannelType
<1> QED
  BY <1>3, <1>4, <1>5, <1>6, <1>7

\* A friend message queue stays one when a packet is sent.
LEMMA FriendSendMessageType ==
    ASSUME NEW q \in Seq(Packet), NEW p \in Packet, link \in BOOLEAN
    PROVE  FriendSendMessage(q, p) \in Seq(Packet)
BY DEF FriendSendMessage

-----------------------------------------------------------------------------
\* A panicking or removing rmClient keeps the pools' types.
LEMMA RmClientType ==
    ASSUME ClientTypeOK, NEW ch \in ChannelType, RmClient(ch)
    PROVE  /\ cpool' \subseteq ChanIds
           /\ cpool2' \in [Conv0 -> ChanIds \cup {0}]
           /\ cpanic' \in ClientPanics
BY DEF RmClient, ClientTypeOK, ClientPanics, ChannelType, ClientRunning

\* The closing promise of the client, in each of its branches.
LEMMA ClientPromiseType ==
    ASSUME ClientTypeOK, NetTypeOK, NEW i \in ChanIds, NEW ch \in ChannelType,
           ClientPromiseChannelClose(i, ch)
    PROVE  /\ cch' \in [ChanIds -> ChannelType]
           /\ cpool' \subseteq ChanIds
           /\ cpool2' \in [Conv0 -> ChanIds \cup {0}]
           /\ cpanic' \in ClientPanics
           /\ cconn' \in [Conns -> ConnStates]
           /\ toServer' \in Seq(Packet)
<1>1. CASE ClientNotifyServer(i, ch)
  <2> DEFINE c == AddCloseReason(ch, "client_close")
  <2>1. c \in ChannelType
    BY AddCloseReasonType DEF Reasons
  <2>2. toServer' \in Seq(Packet)
    BY <1>1, ChannelPacketType, FriendSendMessageType
       DEF ClientNotifyServer, NetTypeOK, Commands
  <2>3. CASE link
    BY <1>1, <2>1, <2>2, <2>3, RmClientType DEF ClientNotifyServer, ClientTypeOK
  <2>4. CASE ~link
    BY <1>1, <2>2, <2>4 DEF ClientNotifyServer, ClientTypeOK
  <2> QED
    BY <2>3, <2>4
<1>2. CASE ClientBothClosed(i, ch)
  <2>1. AddCloseReason(ch, "both_close") \in ChannelType
    BY AddCloseReasonType DEF Reasons
  <2> QED
    BY <1>2, <2>1, RmClientType DEF ClientBothClosed, ClientTypeOK, NetTypeOK
<1>3. CASE ClientForceClose(i, ch)
  <2> DEFINE c == AddCloseReason(ch, "server_close")
  <2>1. c \in ChannelType
    BY AddCloseReasonType DEF Reasons
  <2>2. [c EXCEPT !.client_socket_close = TRUE] \in ChannelType
    BY <2>1 DEF ChannelType
  <2>3. cconn' \in [Conns -> ConnStates]
    BY <1>3 DEF ClientForceClose, CloseConn, ClientTypeOK, ConnStates
  <2> QED
    BY <1>3, <2>2, <2>3 DEF ClientForceClose, ClientTypeOK, NetTypeOK, ClientPanics
<1>4. CASE ClientOoops(i, ch)
  BY <1>4 DEF ClientOoops, ClientTypeOK, NetTypeOK, ClientPanics
<1> QED
  BY <1>1, <1>2, <1>3, <1>4 DEF ClientPromiseChannelClose

-----------------------------------------------------------------------------
\* Every step of the client, alone, keeps the types of the client's and the
\* network's state.
LEMMA ClientStepType ==
    ASSUME ClientTypeOK, NetTypeOK, ClientLoop \/ ClientOutside
    PROVE  ClientTypeOK' /\ NetTypeOK'
<1> USE ChannelAssumption DEF ChanIds
<1>1. ASSUME NEW c \in Conns, Accept(c)
      PROVE  ClientTypeOK' /\ NetTypeOK'
  BY <1>1 DEF Accept, ClientTypeOK, NetTypeOK, netVars, msgVars, lossyVars, ConnStates
<1>2. ASSUME NEW c \in Conns, AppClose(c)
      PROVE  ClientTypeOK' /\ NetTypeOK'
  BY <1>2 DEF AppClose, ClientTypeOK, NetTypeOK, netVars, msgVars, lossyVars, ConnStates
<1>3. ASSUME NEW c \in Conns, InitConnChanel(c)
      PROVE  ClientTypeOK' /\ NetTypeOK'
  <2> DEFINE ch == NewChannelClient(chanid0, c)
  <2>1. chanid0 \in ChanIds /\ chanid0' \in 1..MaxChan + 1
    BY <1>3 DEF InitConnChanel, ClientTypeOK
  <2>2. ch \in ChannelType
    <3>1. chanid0 \in Nat /\ ZeroChannel \in ChannelType
      BY <2>1, ZeroChannelType
    <3> QED
      BY <3>1 DEF NewChannelClient, ChannelType
  <2>3. cch' \in [ChanIds -> ChannelType]
    BY <1>3, <2>1, <2>2 DEF InitConnChanel, ClientTypeOK
  <2>4. toServer' \in Seq(Packet)
    <3>1. ChannelPacket(ch, CMDCONNSYN) \in Packet
      BY <2>2, ChannelPacketType DEF Commands
    <3> QED
      BY <1>3, <3>1, FriendSendMessageType DEF InitConnChanel, NetTypeOK
  <2>5. CASE link
    BY <1>3, <2>1, <2>3, <2>4, <2>5
       DEF InitConnChanel, ClientTypeOK, NetTypeOK, lossyVars
  <2>6. CASE ~link
    <3>1. newConn[c] \in 0..RetryLimit
      BY <1>3 DEF InitConnChanel, ClientTypeOK
    <3>2. newConn' \in [Conns -> {NoEvent} \cup 0..RetryLimit]
          /\ cconn' \in [Conns -> ConnStates]
      BY <1>3, <2>6, <3>1
         DEF InitConnChanel, SynFailed, ClientTypeOK, CloseConn, ConnStates
    <3> QED
      BY <1>3, <2>1, <2>3, <2>4, <2>6, <3>2
         DEF InitConnChanel, SynFailed, ClientTypeOK, NetTypeOK, lossyVars
  <2> QED
    BY <2>5, <2>6
<1>4. ASSUME NEW i \in ChanIds, ClientCheckACKRecved(i)
      PROVE  ClientTypeOK' /\ NetTypeOK'
  <2>1. CASE cch[i].conn_ack_recved
    BY <1>4, <2>1
       DEF ClientCheckACKRecved, ClientTypeOK, NetTypeOK, netVars, msgVars, lossyVars
  <2>2. CASE ~cch[i].conn_ack_recved
    <3> DEFINE ch == AddCloseReason(cch[i], "connect_timeout")
    <3>1. ch \in ChannelType
      BY AddCloseReasonType DEF Reasons, ClientTypeOK
    <3>2. cconn' \in [Conns -> ConnStates]
      BY <1>4, <2>2 DEF ClientCheckACKRecved, AckTimeout, CloseConn, ClientTypeOK, ConnStates
    <3> QED
      BY <1>4, <2>2, <3>1, <3>2, RmClientType
         DEF ClientCheckACKRecved, AckTimeout, ClientTypeOK, NetTypeOK, netVars, msgVars, lossyVars
  <2> QED
    BY <2>1, <2>2
<1>5. CASE ClientServeKcp
  <2> DEFINE served == {i \in cpool : cch[i].kcp.open}
             sent == UNION {KcpFlush(cch[i].kcp, cch[i].conv) : i \in served}
  <2>1. \A i \in ChanIds : cch[i] \in ChannelType
    BY DEF ClientTypeOK
  <2>2. sent \subseteq KcpPacket
    <3>1. \A i \in served : KcpFlush(cch[i].kcp, cch[i].conv) \subseteq KcpPacket
      BY <2>1, KcpFlushType DEF ClientTypeOK, ChannelType
    <3> QED
      BY <3>1
  <2>3. lossyC' \subseteq KcpPacket
    BY <1>5, <2>2 DEF ClientServeKcp, NetTypeOK
  <2>4. ASSUME NEW i \in ChanIds
        PROVE  [cch[i] EXCEPT !.kcp = KcpRecv(@),
                  !.out = IF cconn[cch[i].conn] = "closed" THEN @ ELSE @ + 1] \in ChannelType
    <3> DEFINE n == IF cconn[cch[i].conn] = "closed" THEN cch[i].out ELSE cch[i].out + 1
    <3>1. KcpRecv(cch[i].kcp) \in KcpState /\ n \in Nat
      BY <2>1, KcpRecvType DEF ChannelType
    <3> QED
      BY <2>1, <3>1 DEF ChannelType
  <2>5. cch' \in [ChanIds -> ChannelType]
    BY <1>5, <2>1, <2>4 DEF ClientServeKcp
  <2> QED
    BY <1>5, <2>3, <2>5 DEF ClientServeKcp, ClientTypeOK, NetTypeOK, msgVars
<1>6. ASSUME NEW i \in ChanIds,
             \/ ClientPollRead(i) \/ ClientPollQueue(i)
             \/ ClientPollEnd(i) \/ ClientPollPost(i)
      PROVE  ClientTypeOK' /\ NetTypeOK'
  <2>1. cch[i] \in ChannelType
    BY DEF ClientTypeOK
  <2>2. /\ [cch[i] EXCEPT !.taken = @ + 1, !.poll = "holding"] \in ChannelType
        /\ [cch[i] EXCEPT !.queued = @ + 1, !.poll = "reading"] \in ChannelType
        /\ [cch[i] EXCEPT !.client_socket_close = TRUE, !.poll = "post"] \in ChannelType
        /\ [cch[i] EXCEPT !.poll = "posted"] \in ChannelType
    BY <2>1, PollType DEF PollStates
  <2>3. cch' \in [ChanIds -> ChannelType]
    BY <1>6, <2>2 DEF ClientPollRead, ClientPollQueue, ClientPollEnd, ClientPollPost,
                      ClientTypeOK
  <2> QED
    BY <1>6, <2>3 DEF ClientPollRead, ClientPollQueue, ClientPollEnd, ClientPollPost,
                      ClientTypeOK, NetTypeOK, netVars, msgVars, lossyVars
<1>7. ASSUME NEW i \in ChanIds, ProcessClientReadyRead(i)
      PROVE  ClientTypeOK' /\ NetTypeOK'
  <2>1. cch[i] \in ChannelType /\ KcpSend(cch[i].kcp) \in KcpState
    BY KcpSendType DEF ClientTypeOK, ChannelType
  <2>2. [cch[i] EXCEPT !.queued = @ - 1, !.kcp = KcpSend(@)] \in ChannelType
    <3>1. cch[i].queued - 1 \in Nat
      <4>1. cch[i].queued \in Nat
        BY ZenonT(60), <2>1 DEF ChannelType
      <4>2. cch[i].queued > 0
        BY <1>7 DEF ProcessClientReadyRead
      <4> QED
        BY <4>1, <4>2
    <3> QED
      BY ZenonT(60), <2>1, <3>1 DEF ChannelType
  <2>3. cch' \in [ChanIds -> ChannelType]
    BY <1>7, <2>2 DEF ProcessClientReadyRead, ClientTypeOK
  <2> QED
    BY <1>7, <2>3 DEF ProcessClientReadyRead, ClientTypeOK, NetTypeOK,
                      netVars, msgVars, lossyVars
<1>8. ASSUME NEW i \in ChanIds, ClientClose(i)
      PROVE  ClientTypeOK' /\ NetTypeOK'
  <2>1. [cch[i] EXCEPT !.poll = "done"] \in ChannelType
    <3>1. cch[i] \in ChannelType
      BY DEF ClientTypeOK
    <3> QED
      BY <3>1 DEF ChannelType, PollStates
  <2> QED
    BY <1>8, <2>1, ClientPromiseType
       DEF ClientClose, ClientTypeOK, NetTypeOK, lossyVars
<1>9. CASE ClientRecvAck
  <2> DEFINE pkt == Head(toClient)
             ch == [cch[pkt.chidcli] EXCEPT !.conv = pkt.conv, !.chidsrv = pkt.chidsrv,
                      !.kcp = NewKCP, !.conn_ack_recved = TRUE, !.poll = "reading"]
  <2>1. pkt \in Packet /\ toClient' \in Seq(Packet)
    BY <1>9 DEF ClientRecvAck, NetTypeOK
  <2>2. CASE pkt.chidcli \in cpool
    <3>1. pkt.chidcli \in ChanIds /\ cch[pkt.chidcli] \in ChannelType
      BY <2>2 DEF ClientTypeOK
    <3>2. ch \in ChannelType
      BY <2>1, <3>1, NewKCPType DEF ChannelType, Packet, PollStates
    <3>3. cch' = [cch EXCEPT ![pkt.chidcli] = ch]
      BY <1>9, <2>2 DEF ClientRecvAck, AckConnects
    <3>4. cch' \in [ChanIds -> ChannelType]
      BY <3>1, <3>2, <3>3 DEF ClientTypeOK
    <3>5. cpool2' \in [Conv0 -> ChanIds \cup {0}]
      BY <1>9, <2>1, <2>2, <3>1 DEF ClientRecvAck, AckConnects, Packet, ClientTypeOK
    <3> QED
      BY <1>9, <2>1, <2>2, <3>4, <3>5
         DEF ClientRecvAck, AckConnects, ClientTypeOK, NetTypeOK, lossyVars
  <2>3. CASE pkt.chidcli \notin cpool
    <3>1. NewPacket(CMDCLOSEFIN, pkt.chidcli, pkt.chidsrv, pkt.conv) \in Packet
      BY <2>1 DEF NewPacket, Packet, Commands
    <3>2. toServer' \in Seq(Packet)
      BY <1>9, <2>3, <3>1, FriendSendMessageType
         DEF ClientRecvAck, AnswerLateAck, NetTypeOK
    <3> QED
      BY <1>9, <2>1, <2>3, <3>2 DEF ClientRecvAck, ClientTypeOK, NetTypeOK, lossyVars
  <2> QED
    BY <2>2, <2>3
<1>10. CASE ClientRecvFin
  <2> DEFINE i == cpool2[Head(toClient).conv]
  <2>1. toClient' \in Seq(Packet) /\ i \in ChanIds \cup {0}
    <3>1. toClient' \in Seq(Packet) /\ Head(toClient) \in Packet
      BY <1>10 DEF ClientRecvFin, NetTypeOK
    <3> QED
      BY <3>1 DEF Packet, ClientTypeOK
  <2>2. CASE i # 0
    <3>1. [cch[i] EXCEPT !.server_socket_close = TRUE] \in ChannelType
      <4>1. cch[i] \in ChannelType
        BY <2>1, <2>2 DEF ClientTypeOK
      <4> QED
        BY <4>1 DEF ChannelType
    <3>2. ClientPromiseChannelClose(i, [cch[i] EXCEPT !.server_socket_close = TRUE])
      BY <1>10, <2>2 DEF ClientRecvFin
    <3> QED
      BY <1>10, <2>1, <2>2, <3>1, <3>2, ClientPromiseType
         DEF ClientRecvFin, ClientTypeOK, NetTypeOK, lossyVars
  <2>3. CASE i = 0
    BY <1>10, <2>1, <2>3 DEF ClientRecvFin, ClientTypeOK, NetTypeOK, lossyVars
  <2> QED
    BY <2>2, <2>3
<1>11. ASSUME NEW p \in lossyS, ClientRecvLossy(p)
       PROVE  ClientTypeOK' /\ NetTypeOK'
  <2> DEFINE i == cpool2[p.conv]
  <2>1. p \in KcpPacket /\ p.conv \in Conv0 /\ i \in ChanIds \cup {0}
    BY DEF NetTypeOK, KcpPacket, ClientTypeOK
  <2>2. CASE i # 0
    <3>1. cch[i] \in ChannelType /\ KcpInput(cch[i].kcp, p) \in KcpState
      BY <2>1, <2>2, KcpInputType DEF ClientTypeOK, ChannelType
    <3>2. [cch[i] EXCEPT !.kcp = KcpInput(@, p)] \in ChannelType
      BY <3>1 DEF ChannelType
    <3>3. cch' \in [ChanIds -> ChannelType]
      BY <1>11, <2>2, <3>2 DEF ClientRecvLossy, ClientTypeOK
    <3> QED
      BY <1>11, <2>2, <3>3 DEF ClientRecvLossy, ClientTypeOK, NetTypeOK, lossyVars
  <2>3. CASE i = 0
    <3>1. BrokenFIN(p.conv) \in Packet
      BY <2>1 DEF BrokenFIN, NewPacket, Packet, Commands
    <3>2. toServer' \in Seq(Packet)
      BY <1>11, <2>3, <3>1, FriendSendMessageType DEF ClientRecvLossy, NetTypeOK
    <3> QED
      BY <1>11, <2>3, <3>2 DEF ClientRecvLossy, ClientTypeOK, NetTypeOK, lossyVars
  <2> QED
    BY <2>2, <2>3
<1> QED
  BY <1>1, <1>2, <1>3, <1>4, <1>5, <1>6, <1>7, <1>8, <1>9, <1>10, <1>11
     DEF ClientLoop, ClientOutside

-----------------------------------------------------------------------------
\* The closing promise of the server, in each of its branches.
LEMMA ServerPromiseType ==
    ASSUME ServerTypeOK, NetTypeOK, NEW j \in ChanIds, NEW ch \in ChannelType,
           ServerPromiseChannelClose(j, ch)
    PROVE  /\ sch' \in [ChanIds -> ChannelType]
           /\ sconn' \in [ChanIds -> BackendStates]
           /\ spool' \subseteq ChanIds
           /\ spool2' \in [Conv0 -> ChanIds \cup {0}]
           /\ spanic' \in ServerPanics
           /\ toClient' \in Seq(Packet)
<1>1. \A r \in Reasons : AddCloseReason(ch, r) \in ChannelType
  BY AddCloseReasonType
<1>2. ASSUME NEW r \in Reasons, SetReason(j, ch, r)
      PROVE  sch' \in [ChanIds -> ChannelType] /\ spanic' \in ServerPanics
  BY <1>1, <1>2 DEF SetReason, ServerTypeOK, ServerPanics
<1>3. ASSUME RmServer(j, ch)
      PROVE  spool' \subseteq ChanIds /\ spool2' \in [Conv0 -> ChanIds \cup {0}]
  BY <1>3 DEF RmServer, ServerTypeOK
<1>4. CASE ServerNotifyClient(j, ch)
  <2>1. toClient' \in Seq(Packet)
    BY <1>4, ChannelPacketType, FriendSendMessageType
       DEF ServerNotifyClient, NetTypeOK, Commands
  <2>2. CASE link
    BY <1>2, <1>3, <1>4, <2>1, <2>2 DEF ServerNotifyClient, ServerTypeOK, Reasons
  <2>3. CASE ~link
    BY <1>4, <2>1, <2>3 DEF ServerNotifyClient, ServerTypeOK
  <2> QED
    BY <2>2, <2>3
<1>5. CASE ServerStillSending(j, ch)
  BY <1>2, <1>5 DEF ServerStillSending, ServerTypeOK, NetTypeOK, Reasons
<1>6. CASE ServerForceClose(j, ch)
  <2> DEFINE c == AddCloseReason(ch, "client_close")
  <2>1. c \in ChannelType
    BY <1>1 DEF Reasons
  <2>2. [c EXCEPT !.server_socket_close = TRUE] \in ChannelType
    BY <2>1 DEF ChannelType
  <2>3. sconn' \in [ChanIds -> BackendStates] /\ spanic' \in ServerPanics
    BY <1>6 DEF ServerForceClose, ServerTypeOK, BackendStates, ServerPanics
  <2> QED
    BY <1>6, <2>2, <2>3 DEF ServerForceClose, ServerTypeOK, NetTypeOK
<1>7. CASE ServerBothClosed(j, ch)
  BY <1>2, <1>3, <1>7 DEF ServerBothClosed, ServerTypeOK, NetTypeOK, Reasons
<1>8. CASE ServerOoops(j, ch)
  BY <1>8 DEF ServerOoops, ServerTypeOK, NetTypeOK, ServerPanics
<1> QED
  BY <1>4, <1>5, <1>6, <1>7, <1>8 DEF ServerPromiseChannelClose

\* Every step of the server, alone, keeps the types of the server's and the
\* network's state.
LEMMA ServerStepType ==
    ASSUME ServerTypeOK, NetTypeOK, ServerLoop \/ ServerOutside
    PROVE  ServerTypeOK' /\ NetTypeOK'
<1> USE ChannelAssumption DEF ChanIds
<1>1. ASSUME NEW j \in ChanIds, ServerDial(j)
      PROVE  ServerTypeOK' /\ NetTypeOK'
  <2>1. [sch[j] EXCEPT !.poll = "reading"] \in ChannelType
    <3>1. sch[j] \in ChannelType
      BY DEF ServerTypeOK
    <3> QED
      BY <3>1, PollType DEF PollStates
  <2> QED
    BY <1>1, <2>1 DEF ServerDial, ServerTypeOK, NetTypeOK, BackendStates,
                      netVars, msgVars, lossyVars
<1>2. ASSUME NEW j \in ChanIds, ServerDialFails(j) \/ BackendClose(j)
      PROVE  ServerTypeOK' /\ NetTypeOK'
  BY <1>2 DEF ServerDialFails, BackendClose, ServerTypeOK, NetTypeOK, BackendStates,
              ServerPanics, netVars, msgVars, lossyVars
<1>3. ASSUME NEW j \in ChanIds,
             \/ ServerPollRead(j) \/ ServerPollQueue(j)
             \/ ServerPollEnd(j) \/ ServerPollPost(j)
      PROVE  ServerTypeOK' /\ NetTypeOK'
  <2>1. sch[j] \in ChannelType
    BY DEF ServerTypeOK
  <2>2. /\ [sch[j] EXCEPT !.taken = @ + 1, !.poll = "holding"] \in ChannelType
        /\ [sch[j] EXCEPT !.queued = @ + 1, !.poll = "reading"] \in ChannelType
        /\ [sch[j] EXCEPT !.server_socket_close = TRUE, !.poll = "post"] \in ChannelType
        /\ [sch[j] EXCEPT !.poll = "posted"] \in ChannelType
    BY <2>1, PollType DEF PollStates
  <2>3. sch' \in [ChanIds -> ChannelType]
    BY <1>3, <2>2 DEF ServerPollRead, ServerPollQueue, ServerPollEnd, ServerPollPost,
                      ServerTypeOK
  <2> QED
    BY <1>3, <2>3 DEF ServerPollRead, ServerPollQueue, ServerPollEnd, ServerPollPost,
                      ServerTypeOK, NetTypeOK, netVars, msgVars, lossyVars
<1>4. ASSUME NEW j \in ChanIds, ProcessServerReadyRead(j)
      PROVE  ServerTypeOK' /\ NetTypeOK'
  <2>1. sch[j] \in ChannelType /\ KcpSend(sch[j].kcp) \in KcpState
    BY KcpSendType DEF ServerTypeOK, ChannelType
  <2>2. [sch[j] EXCEPT !.queued = @ - 1, !.kcp = KcpSend(@)] \in ChannelType
    <3>1. sch[j].queued - 1 \in Nat
      BY <1>4, <2>1 DEF ProcessServerReadyRead, ChannelType
    <3> QED
      BY <2>1, <3>1 DEF ChannelType
  <2>3. sch' \in [ChanIds -> ChannelType]
    BY <1>4, <2>2 DEF ProcessServerReadyRead, ServerTypeOK
  <2> QED
    BY <1>4, <2>3 DEF ProcessServerReadyRead, ServerTypeOK, NetTypeOK,
                      netVars, msgVars, lossyVars
<1>5. ASSUME NEW S \in SUBSET spool, ServerServeKcp(S)
      PROVE  ServerTypeOK' /\ NetTypeOK'
  <2> DEFINE sent == UNION {KcpFlush(sch[j].kcp, sch[j].conv) : j \in S}
  <2>1. \A j \in ChanIds : sch[j] \in ChannelType
    BY DEF ServerTypeOK
  <2>2. sent \subseteq KcpPacket
    <3>1. \A j \in S : KcpFlush(sch[j].kcp, sch[j].conv) \subseteq KcpPacket
      BY <2>1, KcpFlushType DEF ServerTypeOK, ChannelType
    <3> QED
      BY <3>1
  <2>3. lossyS' \subseteq KcpPacket
    BY <1>5, <2>2 DEF ServerServeKcp, NetTypeOK
  <2>4. ASSUME NEW j \in ChanIds
        PROVE  [sch[j] EXCEPT !.kcp = KcpRecv(@),
                  !.out = IF sconn[j] \in {"nil", "closed"} THEN @ ELSE @ + 1] \in ChannelType
    <3> DEFINE n == IF sconn[j] \in {"nil", "closed"} THEN sch[j].out ELSE sch[j].out + 1
    <3>1. KcpRecv(sch[j].kcp) \in KcpState /\ n \in Nat
      BY <2>1, KcpRecvType DEF ChannelType
    <3> QED
      BY ZenonT(60), <2>1, <3>1 DEF ChannelType
  <2>5. sch' \in [ChanIds -> ChannelType] /\ spanic' \in ServerPanics
    BY <1>5, <2>1, <2>4 DEF ServerServeKcp, ServerPanics
  <2> QED
    BY <1>5, <2>3, <2>5 DEF ServerServeKcp, ServerTypeOK, NetTypeOK, msgVars
<1>6. ASSUME NEW j \in ChanIds, ServerClose(j)
      PROVE  ServerTypeOK' /\ NetTypeOK'
  <2>1. [sch[j] EXCEPT !.poll = "done"] \in ChannelType
    <3>1. sch[j] \in ChannelType
      BY DEF ServerTypeOK
    <3> QED
      BY <3>1, PollType DEF PollStates
  <2> QED
    BY <1>6, <2>1, ServerPromiseType DEF ServerClose, ServerTypeOK, NetTypeOK, lossyVars
<1>7. CASE KcpCheckClose
  <2> DEFINE drained == {j \in ChanIds : KcpDrained(j)}
             finished == {j \in drained : ~sch[j].client_socket_close}
             Marked(j) == [sch[j] EXCEPT !.server_kcp_close = TRUE]
  <2>1. ASSUME NEW j \in ChanIds
        PROVE  sch[j] \in ChannelType /\ Marked(j) \in ChannelType
    <3>1. sch[j] \in ChannelType
      BY DEF ServerTypeOK
    <3> QED
      BY <3>1 DEF ChannelType
  <2>2. \A j \in ChanIds : /\ AddCloseReason(Marked(j), "both_close") \in ChannelType
                            /\ AddCloseReason(Marked(j), "server_close") \in ChannelType
    BY <2>1, AddCloseReasonType DEF Reasons
  <2>3. sch' \in [ChanIds -> ChannelType]
    BY <1>7, <2>1, <2>2 DEF KcpCheckClose
  <2>4. toClient' \in Seq(Packet)
    <3>1. Cardinality(finished) \in Nat
      <4>1. IsFiniteSet(ChanIds)
        BY FS_Interval
      <4>2. IsFiniteSet(finished)
        BY <4>1, FS_Subset, finished \subseteq ChanIds
      <4> QED
        BY <4>2, FS_CardinalityType
    <3>2. PICK order \in SetToSeqs(finished) :
            toClient' = IF link
                THEN toClient \o [k \in DOMAIN order |->
                                    ChannelPacket(sch[order[k]], CMDCLOSEFIN)]
                ELSE toClient
      BY <1>7 DEF KcpCheckClose
    <3>3. order \in [1..Cardinality(finished) -> finished]
      BY <3>2 DEF SetToSeqs
    <3>4. \A k \in 1..Cardinality(finished) :
            ChannelPacket(sch[order[k]], CMDCLOSEFIN) \in Packet
      BY <2>1, <3>3, ChannelPacketType DEF Commands
    <3>5. [k \in DOMAIN order |-> ChannelPacket(sch[order[k]], CMDCLOSEFIN)]
            \in Seq(Packet)
      BY <3>1, <3>3, <3>4
    <3> QED
      BY <3>2, <3>5 DEF NetTypeOK
  <2>5. spool' \subseteq ChanIds /\ spool2' \in [Conv0 -> ChanIds \cup {0}]
        /\ spanic' \in ServerPanics
    BY <1>7 DEF KcpCheckClose, ServerTypeOK, ServerPanics
  <2> QED
    BY <1>7, <2>3, <2>4, <2>5 DEF KcpCheckClose, ServerTypeOK, NetTypeOK, lossyVars
<1>8. CASE ServerRecvSyn
  <2> DEFINE pkt == Head(toServer)
  <2>1. pkt \in Packet /\ toServer' \in Seq(Packet)
    BY <1>8 DEF ServerRecvSyn, NetTypeOK
  <2>2. PICK conv \in MakeKcpConv :
          LET ch == [NewChannelWithId(chidsrv0, pkt.chidcli) EXCEPT
                        !.conv = conv, !.kcp = NewKCP, !.poll = "dial"]
          IN /\ sch' = [sch EXCEPT ![chidsrv0] = ch]
             /\ spool' = spool \cup {chidsrv0}
             /\ spool2' = [spool2 EXCEPT ![conv] = chidsrv0]
             /\ toClient' = FriendSendMessage(toClient, ChannelPacket(ch, CMDCONNACK))
    BY <1>8 DEF ServerRecvSyn
  <2> DEFINE ch == [NewChannelWithId(chidsrv0, pkt.chidcli) EXCEPT
                        !.conv = conv, !.kcp = NewKCP, !.poll = "dial"]
  <2>3. chidsrv0 \in ChanIds /\ chidsrv0' \in 1..MaxChan + 1 /\ conv \in Conv0
    BY <1>8 DEF ServerRecvSyn, ServerTypeOK, MakeKcpConv, Conv0
  <2>4. ch \in ChannelType
    <3>1. chidsrv0 \in Nat /\ pkt.chidcli \in Nat
      BY <2>1, <2>3 DEF Packet
    <3>2. NewChannelWithId(chidsrv0, pkt.chidcli) \in ChannelType
      BY <3>1, ZeroChannelType DEF NewChannelWithId, ChannelType
    <3> QED
      BY <2>3, <3>2, NewKCPType DEF ChannelType, PollStates
  <2>5. toClient' \in Seq(Packet)
    <3>1. ChannelPacket(ch, CMDCONNACK) \in Packet
      BY <2>4, ChannelPacketType DEF Commands
    <3> QED
      BY <2>2, <3>1, FriendSendMessageType DEF NetTypeOK
  <2>6. sch' \in [ChanIds -> ChannelType]
    BY <2>2, <2>3, <2>4 DEF ServerTypeOK
  <2>7. spool' \subseteq ChanIds /\ spool2' \in [Conv0 -> ChanIds \cup {0}]
    BY <2>2, <2>3 DEF ServerTypeOK
  <2> QED
    BY <1>8, <2>1, <2>3, <2>5, <2>6, <2>7
       DEF ServerRecvSyn, ServerTypeOK, NetTypeOK, lossyVars
<1>9. CASE ServerRecvFin
  <2> DEFINE j == spool2[Head(toServer).conv]
  <2>1. toServer' \in Seq(Packet) /\ j \in ChanIds \cup {0}
    <3>1. toServer' \in Seq(Packet) /\ Head(toServer) \in Packet
      BY <1>9 DEF ServerRecvFin, NetTypeOK
    <3> QED
      BY <3>1 DEF Packet, ServerTypeOK
  <2>2. CASE j # 0
    <3>1. [sch[j] EXCEPT !.client_socket_close = TRUE] \in ChannelType
      <4>1. sch[j] \in ChannelType
        BY <2>1, <2>2 DEF ServerTypeOK
      <4> QED
        BY <4>1 DEF ChannelType
    <3>2. ServerPromiseChannelClose(j, [sch[j] EXCEPT !.client_socket_close = TRUE])
      BY <1>9, <2>2 DEF ServerRecvFin
    <3> QED
      BY <1>9, <2>1, <2>2, <3>1, <3>2, ServerPromiseType
         DEF ServerRecvFin, ServerTypeOK, NetTypeOK, lossyVars
  <2>3. CASE j = 0
    BY <1>9, <2>1, <2>3 DEF ServerRecvFin, ServerTypeOK, NetTypeOK, lossyVars
  <2> QED
    BY <2>2, <2>3
<1>10. ASSUME NEW p \in lossyC, ServerRecvLossy(p)
       PROVE  ServerTypeOK' /\ NetTypeOK'
  <2> DEFINE j == spool2[p.conv]
  <2>1. p \in KcpPacket /\ j \in ChanIds
    BY <1>10 DEF ServerRecvLossy, NetTypeOK, KcpPacket, ServerTypeOK
  <2>2. sch[j] \in ChannelType /\ KcpInput(sch[j].kcp, p) \in KcpState
    BY <2>1, KcpInputType DEF ServerTypeOK, ChannelType
  <2>3. [sch[j] EXCEPT !.kcp = KcpInput(@, p)] \in ChannelType
    BY <2>2 DEF ChannelType
  <2>4. sch' \in [ChanIds -> ChannelType]
    BY <1>10, <2>3 DEF ServerRecvLossy, ServerTypeOK
  <2> QED
    BY <1>10, <2>4 DEF ServerRecvLossy, ServerTypeOK, NetTypeOK,
                       netVars, msgVars, lossyVars
<1> QED
  BY <1>1, <1>2, <1>3, <1>4, <1>5, <1>6, <1>7, <1>8, <1>9, <1>10
     DEF ServerLoop, ServerOutside

-----------------------------------------------------------------------------
\* The initial states have their type.
LEMMA InitType == Init => TypeOK
<1> SUFFICES ASSUME Init PROVE TypeOK
  OBVIOUS
<1>1. NetTypeOK
  BY ToxNetAssumption DEF Init, NetInit, NetTypeOK
<1>2. ClientTypeOK
  BY ZeroChannelType, ChannelAssumption
     DEF Init, ClientInit, ClientTypeOK, ConnStates, ClientPanics
<1>3. ServerTypeOK
  BY ZeroChannelType, ChannelAssumption
     DEF Init, ServerInit, ServerTypeOK, BackendStates, ServerPanics
<1> QED
  BY <1>1, <1>2, <1>3 DEF TypeOK

\* Every step keeps the type.
LEMMA StepType == TypeOK /\ [Next]_vars => TypeOK'
<1> SUFFICES ASSUME TypeOK, [Next]_vars PROVE TypeOK'
  OBVIOUS
<1>1. CASE (ClientLoop \/ ClientOutside) /\ UNCHANGED serverVars
  BY <1>1, ClientStepType DEF TypeOK, ServerTypeOK, serverVars
<1>2. CASE (ServerLoop \/ ServerOutside) /\ UNCHANGED clientVars
  BY <1>2, ServerStepType DEF TypeOK, ClientTypeOK, clientVars
<1>3. CASE (LinkDown \/ LinkUp) /\ UNCHANGED <<clientVars, serverVars>>
  <2>1. LinkDown => NetTypeOK'
    <3> SUFFICES ASSUME LinkDown PROVE NetTypeOK'
      OBVIOUS
    <3>1. downs' \in 0..MaxDowns
      BY ToxNetAssumption DEF TypeOK, NetTypeOK, LinkDown
    <3>2. toServer' \in Seq(Packet) /\ toClient' \in Seq(Packet)
      BY DEF LinkDown
    <3> QED
      BY <3>1, <3>2 DEF TypeOK, NetTypeOK, LinkDown, lossyVars
  <2>2. LinkUp => NetTypeOK'
    BY DEF TypeOK, NetTypeOK, LinkUp, msgVars, lossyVars
  <2>3. ClientTypeOK'
    BY <1>3 DEF TypeOK, ClientTypeOK, clientVars
  <2>4. ServerTypeOK'
    BY <1>3 DEF TypeOK, ServerTypeOK, serverVars
  <2> QED
    BY <1>3, <2>1, <2>2, <2>3, <2>4 DEF TypeOK
<1>4. CASE UNCHANGED vars
  BY <1>4 DEF TypeOK, NetTypeOK, ClientTypeOK, ServerTypeOK,
              vars, netVars, clientVars, serverVars, msgVars, lossyVars
<1> QED
  BY <1>1, <1>2, <1>3, <1>4 DEF Next

\* The state of client, server and network has its type in every reachable
\* state: in particular no handler indexes a channel, a conversation or a
\* connection that does not exist.
THEOREM TypeCorrect == Spec => []TypeOK
<1> QED
  BY InitType, StepType, PTL DEF Spec

-----------------------------------------------------------------------------
(***************************************************************************)
(* The channel pools.                                                      *)
(***************************************************************************)

\* A registered client channel has been made, for a connection that was
\* accepted, ...
RegisteredIsMade ==
    \A i \in cpool :
        /\ i < chanid0
        /\ cch[i].conn \in Conns
        /\ cconn[cch[i].conn] # "new"

\* ... and only an accepted connection waits for an attempt of initConnChanel.
AttemptIsAccepted ==
    \A c \in Conns : newConn[c] # NoEvent => cconn[c] # "new"

OwnedInv == TypeOK /\ RegisteredIsMade /\ AttemptIsAccepted /\ ConnOwnedOnce

\* What every client step but Accept, AppClose and InitConnChanel leaves alone:
\* no channel is registered, none changes its connection, no attempt starts,
\* and no connection becomes new again.
ClientKeepsOwners ==
    /\ cpool' \subseteq cpool
    /\ newConn' = newConn
    /\ chanid0' = chanid0
    /\ \A i \in ChanIds : cch'[i].conn = cch[i].conn
    /\ \A c \in Conns : cconn[c] # "new" => cconn'[c] # "new"

-----------------------------------------------------------------------------
\* Steps that keep the owners keep the invariant.
LEMMA KeepsOwnersKeepsInv ==
    ASSUME OwnedInv, ClientKeepsOwners
    PROVE  RegisteredIsMade' /\ AttemptIsAccepted' /\ ConnOwnedOnce'
<1>1. \A i \in cpool' : i \in cpool /\ i \in ChanIds /\ cch'[i].conn = cch[i].conn
  BY DEF OwnedInv, TypeOK, ClientTypeOK, ClientKeepsOwners
<1>2. RegisteredIsMade'
  BY <1>1 DEF OwnedInv, RegisteredIsMade, ClientKeepsOwners
<1>3. AttemptIsAccepted'
  BY DEF OwnedInv, AttemptIsAccepted, ClientKeepsOwners
<1>4. ConnOwnedOnce'
  BY <1>1 DEF OwnedInv, ConnOwnedOnce, ClientKeepsOwners
<1> QED
  BY <1>2, <1>3, <1>4

\* An update of one channel that keeps its connection keeps every connection.
LEMMA ConnKept ==
    ASSUME ClientTypeOK, NEW i \in ChanIds, NEW ch, ch.conn = cch[i].conn,
           cch' = [cch EXCEPT ![i] = ch]
    PROVE  \A k \in ChanIds : cch'[k].conn = cch[k].conn
BY DEF ClientTypeOK

\* addCloseReason does not change the channel's connection.
LEMMA AddCloseReasonConn ==
    ASSUME NEW ch \in ChannelType, NEW r \in Reasons
    PROVE  AddCloseReason(ch, r).conn = ch.conn
BY DEF AddCloseReason, ChannelType

\* A connection that is closed is not new, and the others stay as they are.
LEMMA CloseConnKeeps ==
    ASSUME ClientTypeOK, NEW ch \in ChannelType, CloseConn(ch)
    PROVE  \A c \in Conns : cconn[c] # "new" => cconn'[c] # "new"
BY DEF CloseConn, ClientTypeOK

\* rmClient only removes.
LEMMA RmClientShrinks ==
    ASSUME NEW ch, RmClient(ch)
    PROVE  cpool' \subseteq cpool
BY DEF RmClient

\* The closing promise registers nothing and hands no connection over.
LEMMA ClientPromiseKeepsOwners ==
    ASSUME TypeOK, NEW i \in ChanIds, NEW ch \in ChannelType,
           ch.conn = cch[i].conn,
           ClientPromiseChannelClose(i, ch)
    PROVE  /\ cpool' \subseteq cpool
           /\ \A k \in ChanIds : cch'[k].conn = cch[k].conn
           /\ \A c \in Conns : cconn[c] # "new" => cconn'[c] # "new"
<1> USE DEF TypeOK
<1>1. CASE ClientNotifyServer(i, ch)
  <2> DEFINE c == AddCloseReason(ch, "client_close")
  <2>1. c.conn = cch[i].conn
    BY AddCloseReasonConn DEF Reasons
  <2>2. cpool' \subseteq cpool
    BY <1>1, RmClientShrinks DEF ClientNotifyServer
  <2>3. cch' = [cch EXCEPT ![i] = c] \/ cch' = [cch EXCEPT ![i] = ch]
    BY <1>1 DEF ClientNotifyServer
  <2> HIDE DEF c
  <2>4. \A k \in ChanIds : cch'[k].conn = cch[k].conn
    BY <2>1, <2>3 DEF ClientTypeOK
  <2> QED
    BY <1>1, <2>2, <2>4 DEF ClientNotifyServer
<1>2. CASE ClientBothClosed(i, ch)
  <2> DEFINE c == AddCloseReason(ch, "both_close")
  <2>1. c.conn = cch[i].conn
    BY AddCloseReasonConn DEF Reasons
  <2>2. cpool' \subseteq cpool /\ cch' = [cch EXCEPT ![i] = c]
    BY <1>2, RmClientShrinks DEF ClientBothClosed
  <2> HIDE DEF c
  <2>3. \A k \in ChanIds : cch'[k].conn = cch[k].conn
    BY <2>1, <2>2 DEF ClientTypeOK
  <2> QED
    BY <1>2, <2>2, <2>3 DEF ClientBothClosed
<1>3. CASE ClientForceClose(i, ch)
  <2> DEFINE c == AddCloseReason(ch, "server_close")
  <2>1. c \in ChannelType /\ c.conn = cch[i].conn
    BY AddCloseReasonType, AddCloseReasonConn DEF Reasons
  <2>2. cch' = [cch EXCEPT ![i] = [c EXCEPT !.client_socket_close = TRUE]]
    BY <1>3 DEF ClientForceClose
  <2> HIDE DEF c
  <2>3. [c EXCEPT !.client_socket_close = TRUE].conn = cch[i].conn
    BY <2>1 DEF ChannelType
  <2>4. \A k \in ChanIds : cch'[k].conn = cch[k].conn
    BY <2>2, <2>3 DEF ClientTypeOK
  <2>5. \A k \in Conns : cconn[k] # "new" => cconn'[k] # "new"
    BY <1>3, CloseConnKeeps DEF ClientForceClose
  <2> QED
    BY <1>3, <2>4, <2>5 DEF ClientForceClose
<1>4. CASE ClientOoops(i, ch)
  BY <1>4 DEF ClientOoops
<1> QED
  BY <1>1, <1>2, <1>3, <1>4 DEF ClientPromiseChannelClose

-----------------------------------------------------------------------------
\* An accepted connection has no channel yet.
LEMMA AcceptOwned ==
    ASSUME OwnedInv, NEW c \in Conns, Accept(c)
    PROVE  RegisteredIsMade' /\ AttemptIsAccepted' /\ ConnOwnedOnce'
<1> USE DEF OwnedInv, TypeOK, ClientTypeOK, Accept
<1>1. \A i \in cpool : cch[i].conn # c
  BY DEF RegisteredIsMade
<1>2. RegisteredIsMade'
  BY <1>1 DEF RegisteredIsMade
<1>3. AttemptIsAccepted'
  BY DEF AttemptIsAccepted
<1>4. ConnOwnedOnce'
  BY <1>1 DEF ConnOwnedOnce, RegisteredIsMade
<1> QED
  BY <1>2, <1>3, <1>4

\* An attempt of initConnChanel either registers the one channel of its
\* connection and ends the waiting, or registers nothing.
LEMMA InitConnChanelOwned ==
    ASSUME OwnedInv, NEW c \in Conns, InitConnChanel(c)
    PROVE  RegisteredIsMade' /\ AttemptIsAccepted' /\ ConnOwnedOnce'
<1> DEFINE ch == NewChannelClient(chanid0, c)
<1> USE DEF OwnedInv, TypeOK
<1>1. \A i \in cpool : i # chanid0 /\ i < chanid0 /\ cch[i].conn # c
                       /\ cch[i].conn \in Conns
  BY ChannelAssumption
     DEF InitConnChanel, RegisteredIsMade, ConnOwnedOnce, ClientTypeOK, ChanIds
<1>2. chanid0 \in ChanIds /\ chanid0' = chanid0 + 1 /\ chanid0 \in Nat
  BY ChannelAssumption DEF InitConnChanel, ClientTypeOK, ChanIds
<1>3. ch.conn = c
  BY DEF NewChannelClient, ZeroChannel
<1>4. cch' = [cch EXCEPT ![chanid0] = ch]
  BY DEF InitConnChanel
<1> HIDE DEF ch
<1>5. cch'[chanid0].conn = c /\ \A i \in cpool : cch'[i] = cch[i]
  BY <1>1, <1>2, <1>3, <1>4 DEF ClientTypeOK
<1>6. cconn[c] # "new"
  BY DEF InitConnChanel, AttemptIsAccepted
<1>7. CASE link
  <2>1. cpool' = cpool \cup {chanid0} /\ cconn' = cconn
        /\ newConn' = [newConn EXCEPT ![c] = NoEvent]
    BY <1>7 DEF InitConnChanel
  <2>2. RegisteredIsMade'
    BY <1>1, <1>2, <1>5, <1>6, <2>1 DEF RegisteredIsMade, ClientTypeOK
  <2>3. AttemptIsAccepted'
    BY <2>1 DEF AttemptIsAccepted, ClientTypeOK
  <2>4. ConnOwnedOnce'
    BY <1>1, <1>2, <1>5, <2>1 DEF ConnOwnedOnce, ClientTypeOK
  <2> QED
    BY <2>2, <2>3, <2>4
<1>8. CASE ~link
  <2>1. cpool' = cpool
    BY <1>8 DEF InitConnChanel, SynFailed
  <2>2. \A k \in Conns \ {c} : newConn'[k] = newConn[k] /\ cconn'[k] = cconn[k]
    BY <1>3, <1>8 DEF InitConnChanel, SynFailed, CloseConn, ClientTypeOK, ch
  <2>3. cconn'[c] # "new"
    BY <1>3, <1>6, <1>8 DEF InitConnChanel, SynFailed, CloseConn, ClientTypeOK, ch
  <2>4. RegisteredIsMade'
    <3>1. \A i \in cpool : i \in Nat /\ cconn[cch[i].conn] # "new"
      BY ChannelAssumption DEF RegisteredIsMade, ClientTypeOK, ChanIds
    <3>2. \A i \in cpool : i < chanid0'
      BY <1>1, <1>2, <3>1
    <3>3. \A i \in cpool : cch'[i].conn \in Conns \ {c}
      BY <1>1, <1>5
    <3>4. \A i \in cpool : cconn'[cch'[i].conn] # "new"
      BY <1>5, <2>2, <3>1, <3>3
    <3> QED
      BY <2>1, <3>2, <3>3, <3>4 DEF RegisteredIsMade
  <2>5. AttemptIsAccepted'
    BY <2>2, <2>3 DEF AttemptIsAccepted
  <2>6. ConnOwnedOnce'
    BY <1>1, <1>5, <2>1, <2>2 DEF ConnOwnedOnce
  <2> QED
    BY <2>4, <2>5, <2>6
<1> QED
  BY <1>7, <1>8

\* Every step of the client keeps the invariant.
LEMMA ClientStepOwned ==
    ASSUME OwnedInv, ClientLoop \/ ClientOutside
    PROVE  RegisteredIsMade' /\ AttemptIsAccepted' /\ ConnOwnedOnce'
<1>0. ClientTypeOK /\ \A i \in ChanIds : cch[i] \in ChannelType
  BY DEF OwnedInv, TypeOK, ClientTypeOK
<1>1. ASSUME NEW c \in Conns, Accept(c)
      PROVE  RegisteredIsMade' /\ AttemptIsAccepted' /\ ConnOwnedOnce'
  BY <1>1, AcceptOwned
<1>2. ASSUME NEW c \in Conns, AppClose(c)
      PROVE  ClientKeepsOwners
  BY <1>0, <1>2 DEF AppClose, ClientKeepsOwners, ClientTypeOK
<1>3. ASSUME NEW c \in Conns, InitConnChanel(c)
      PROVE  RegisteredIsMade' /\ AttemptIsAccepted' /\ ConnOwnedOnce'
  BY <1>3, InitConnChanelOwned
<1>4. ASSUME NEW i \in ChanIds, ClientCheckACKRecved(i)
      PROVE  ClientKeepsOwners
  <2>1. CASE cch[i].conn_ack_recved
    BY <1>4, <2>1 DEF ClientCheckACKRecved, ClientKeepsOwners
  <2>2. CASE ~cch[i].conn_ack_recved
    <3> DEFINE ch == AddCloseReason(cch[i], "connect_timeout")
    <3>1. ch \in ChannelType /\ ch.conn = cch[i].conn
      BY <1>0, AddCloseReasonType, AddCloseReasonConn DEF Reasons
    <3>2. cch' = [cch EXCEPT ![i] = ch] /\ RmClient(ch) /\ CloseConn(ch)
      BY <1>4, <2>2 DEF ClientCheckACKRecved, AckTimeout
    <3> HIDE DEF ch
    <3>3. \A k \in ChanIds : cch'[k].conn = cch[k].conn
      BY <1>0, <3>1, <3>2 DEF ClientTypeOK
    <3> QED
      BY <1>0, <1>4, <3>1, <3>2, <3>3, RmClientShrinks, CloseConnKeeps
         DEF ClientCheckACKRecved, ClientKeepsOwners
  <2> QED
    BY <2>1, <2>2
<1>5. ASSUME ClientServeKcp PROVE ClientKeepsOwners
  <2>1. \A i \in ChanIds : cch'[i].conn = cch[i].conn
    BY <1>0, <1>5 DEF ClientServeKcp, ChannelType
  <2> QED
    BY <1>5, <2>1 DEF ClientServeKcp, ClientKeepsOwners
<1>6. ASSUME NEW i \in ChanIds,
             \/ ClientPollRead(i) \/ ClientPollQueue(i)
             \/ ClientPollEnd(i) \/ ClientPollPost(i)
      PROVE  ClientKeepsOwners
  <2>1. PICK ch : ch.conn = cch[i].conn /\ cch' = [cch EXCEPT ![i] = ch]
    <3>1. ASSUME ClientPollRead(i)
          PROVE  \E ch : ch.conn = cch[i].conn /\ cch' = [cch EXCEPT ![i] = ch]
      <4> DEFINE ch == [cch[i] EXCEPT !.taken = cch[i].taken + 1, !.poll = "holding"]
      <4>1. ch.conn = cch[i].conn
        BY <1>0 DEF ChannelType
      <4>2. cch' = [cch EXCEPT ![i] = ch]
        BY <3>1 DEF ClientPollRead
      <4> QED
        BY <4>1, <4>2
    <3>2. ASSUME ClientPollQueue(i)
          PROVE  \E ch : ch.conn = cch[i].conn /\ cch' = [cch EXCEPT ![i] = ch]
      <4> DEFINE ch == [cch[i] EXCEPT !.queued = cch[i].queued + 1, !.poll = "reading"]
      <4>1. ch.conn = cch[i].conn
        BY <1>0 DEF ChannelType
      <4>2. cch' = [cch EXCEPT ![i] = ch]
        BY <3>2 DEF ClientPollQueue
      <4> QED
        BY <4>1, <4>2
    <3>3. ASSUME ClientPollEnd(i)
          PROVE  \E ch : ch.conn = cch[i].conn /\ cch' = [cch EXCEPT ![i] = ch]
      <4> DEFINE ch == [cch[i] EXCEPT !.client_socket_close = TRUE, !.poll = "post"]
      <4>1. ch.conn = cch[i].conn
        BY <1>0 DEF ChannelType
      <4>2. cch' = [cch EXCEPT ![i] = ch]
        BY <3>3 DEF ClientPollEnd
      <4> QED
        BY <4>1, <4>2
    <3>4. ASSUME ClientPollPost(i)
          PROVE  \E ch : ch.conn = cch[i].conn /\ cch' = [cch EXCEPT ![i] = ch]
      <4> DEFINE ch == [cch[i] EXCEPT !.poll = "posted"]
      <4>1. ch.conn = cch[i].conn
        BY <1>0 DEF ChannelType
      <4>2. cch' = [cch EXCEPT ![i] = ch]
        BY <3>4 DEF ClientPollPost
      <4> QED
        BY <4>1, <4>2
    <3> QED
      BY <1>6, <3>1, <3>2, <3>3, <3>4
  <2>2. \A k \in ChanIds : cch'[k].conn = cch[k].conn
    BY <1>0, <2>1, ConnKept
  <2> QED
    BY <1>6, <2>2 DEF ClientPollRead, ClientPollQueue, ClientPollEnd,
                      ClientPollPost, ClientKeepsOwners
<1>7. ASSUME NEW i \in ChanIds, ProcessClientReadyRead(i)
      PROVE  ClientKeepsOwners
  <2>1. \A k \in ChanIds : cch'[k].conn = cch[k].conn
    BY <1>0, <1>7 DEF ProcessClientReadyRead, ChannelType, ClientTypeOK
  <2> QED
    BY <1>7, <2>1 DEF ProcessClientReadyRead, ClientKeepsOwners
<1>8. ASSUME NEW i \in ChanIds, ClientClose(i)
      PROVE  ClientKeepsOwners
  <2> DEFINE ch == [cch[i] EXCEPT !.poll = "done"]
  <2>1. ch \in ChannelType /\ ch.conn = cch[i].conn
    BY <1>0 DEF ChannelType, PollStates
  <2>2. ClientPromiseChannelClose(i, ch)
    BY <1>8 DEF ClientClose
  <2> HIDE DEF ch
  <2> QED
    BY <1>8, <2>1, <2>2, ClientPromiseKeepsOwners
       DEF ClientClose, ClientKeepsOwners, OwnedInv
<1>9. ASSUME ClientRecvAck PROVE ClientKeepsOwners
  <2>1. \A k \in ChanIds : cch'[k].conn = cch[k].conn
    <3> DEFINE pkt == Head(toClient)
               i == pkt.chidcli
               ch == [cch[i] EXCEPT !.conv = pkt.conv, !.chidsrv = pkt.chidsrv,
                          !.kcp = NewKCP, !.conn_ack_recved = TRUE, !.poll = "reading"]
    <3>1. CASE i \in cpool
      <4>1. i \in ChanIds
        BY <1>0, <3>1 DEF ClientTypeOK
      <4>2. ch.conn = cch[i].conn
        BY <1>0, <4>1 DEF ChannelType
      <4>3. cch' = [cch EXCEPT ![i] = ch]
        BY <1>9, <3>1 DEF ClientRecvAck, AckConnects
      <4> HIDE DEF ch
      <4> QED
        BY <1>0, <4>1, <4>2, <4>3, ConnKept
    <3>2. CASE i \notin cpool
      BY <1>9, <3>2 DEF ClientRecvAck
    <3> QED
      BY <3>1, <3>2
  <2> QED
    BY <1>9, <2>1 DEF ClientRecvAck, AckConnects, ClientKeepsOwners
<1>10. ASSUME ClientRecvFin PROVE ClientKeepsOwners
  <2> DEFINE i == cpool2[Head(toClient).conv]
             ch == [cch[i] EXCEPT !.server_socket_close = TRUE]
  <2>1. CASE i # 0
    <3>1. i \in ChanIds
      <4>1. Head(toClient) \in Packet
        BY <1>10 DEF ClientRecvFin, OwnedInv, TypeOK, NetTypeOK
      <4> QED
        BY <1>0, <2>1, <4>1 DEF Packet, ClientTypeOK
    <3>2. ch \in ChannelType /\ ch.conn = cch[i].conn
      BY ZenonT(60), <1>0, <3>1 DEF ChannelType
    <3>3. ClientPromiseChannelClose(i, ch)
      BY <1>10, <2>1 DEF ClientRecvFin
    <3> HIDE DEF i, ch
    <3> QED
      BY <1>10, <3>1, <3>2, <3>3, ClientPromiseKeepsOwners
         DEF ClientRecvFin, ClientKeepsOwners, OwnedInv
  <2>2. CASE i = 0
    BY <1>10, <2>2 DEF ClientRecvFin, ClientKeepsOwners
  <2> QED
    BY <2>1, <2>2
<1>11. ASSUME NEW p \in lossyS, ClientRecvLossy(p)
       PROVE  ClientKeepsOwners
  <2>1. \A k \in ChanIds : cch'[k].conn = cch[k].conn
    <3> DEFINE i == cpool2[p.conv]
               ch == [cch[i] EXCEPT !.kcp = KcpInput(cch[i].kcp, p)]
    <3>1. CASE i # 0
      <4>1. i \in ChanIds
        <5>1. p.conv \in Conv0
          BY <1>11 DEF OwnedInv, TypeOK, NetTypeOK, KcpPacket
        <5> QED
          BY <1>0, <3>1, <5>1 DEF ClientTypeOK
      <4>2. ch.conn = cch[i].conn
        BY <1>0, <4>1 DEF ChannelType
      <4>3. cch' = [cch EXCEPT ![i] = ch]
        BY <1>11, <3>1 DEF ClientRecvLossy
      <4> HIDE DEF ch
      <4> QED
        BY <1>0, <4>1, <4>2, <4>3, ConnKept
    <3>2. CASE i = 0
      BY <1>11, <3>2 DEF ClientRecvLossy
    <3> QED
      BY <3>1, <3>2
  <2> QED
    BY <1>11, <2>1 DEF ClientRecvLossy, ClientKeepsOwners
<1> QED
  BY <1>1, <1>2, <1>3, <1>4, <1>5, <1>6, <1>7, <1>8, <1>9, <1>10, <1>11,
     KeepsOwnersKeepsInv
     DEF ClientLoop, ClientOutside

-----------------------------------------------------------------------------
\* One TCP connection is never carried by two registered channels, nor waits
\* for a further attempt while a channel carries it, although every retry of
\* initConnChanel makes a channel of its own.
THEOREM ConnectionOwnedOnce == Spec => []ConnOwnedOnce
<1>1. Init => OwnedInv
  <2> SUFFICES ASSUME Init PROVE OwnedInv
    OBVIOUS
  <2>1. TypeOK
    BY InitType
  <2>2. RegisteredIsMade /\ AttemptIsAccepted /\ ConnOwnedOnce
    BY DEF Init, ClientInit, RegisteredIsMade, AttemptIsAccepted, ConnOwnedOnce
  <2> QED
    BY <2>1, <2>2 DEF OwnedInv
<1>2. OwnedInv /\ [Next]_vars => OwnedInv'
  <2> SUFFICES ASSUME OwnedInv, [Next]_vars PROVE OwnedInv'
    OBVIOUS
  <2>1. TypeOK'
    BY StepType DEF OwnedInv
  <2>2. CASE (ClientLoop \/ ClientOutside) /\ UNCHANGED serverVars
    BY <2>1, <2>2, ClientStepOwned DEF OwnedInv
  <2>3. CASE UNCHANGED clientVars
    BY <2>1, <2>3 DEF clientVars, OwnedInv, RegisteredIsMade, AttemptIsAccepted,
                      ConnOwnedOnce
  <2> QED
    BY <2>2, <2>3 DEF Next, vars
<1>3. OwnedInv => ConnOwnedOnce
  BY DEF OwnedInv
<1> QED
  BY <1>1, <1>2, <1>3, PTL DEF Spec
-----------------------------------------------------------------------------
\* Whatever the client does, only a new channel enters its pool.
LEMMA ClientRegisters ==
    ASSUME ClientLoop \/ ClientOutside
    PROVE  cpool' \subseteq cpool \cup {chanid0}
<1>1. ASSUME NEW i, NEW ch, ClientPromiseChannelClose(i, ch)
      PROVE  cpool' \subseteq cpool
  BY <1>1 DEF ClientPromiseChannelClose, ClientNotifyServer, ClientBothClosed,
              ClientForceClose, ClientOoops, RmClient
<1>2. ASSUME ClientLoop PROVE cpool' \subseteq cpool \cup {chanid0}
  <2>1. ASSUME NEW c \in Conns, InitConnChanel(c)
        PROVE  cpool' \subseteq cpool \cup {chanid0}
    BY <2>1 DEF InitConnChanel, SynFailed
  <2>2. ASSUME NEW i \in ChanIds, ClientCheckACKRecved(i)
        PROVE  cpool' \subseteq cpool
    BY <2>2 DEF ClientCheckACKRecved, AckTimeout, RmClient
  <2>3. ASSUME NEW i \in ChanIds, ProcessClientReadyRead(i)
        PROVE  cpool' \subseteq cpool
    BY <2>3 DEF ProcessClientReadyRead
  <2>4. ASSUME NEW i \in ChanIds, ClientClose(i)
        PROVE  cpool' \subseteq cpool
    BY <1>1, <2>4 DEF ClientClose
  <2>5. ASSUME ClientServeKcp PROVE cpool' \subseteq cpool
    BY <2>5 DEF ClientServeKcp
  <2>6. ASSUME ClientRecvAck PROVE cpool' \subseteq cpool
    BY <2>6 DEF ClientRecvAck, AckConnects
  <2>7. ASSUME ClientRecvFin PROVE cpool' \subseteq cpool
    BY <1>1, <2>7 DEF ClientRecvFin
  <2>8. ASSUME NEW p \in lossyS, ClientRecvLossy(p) PROVE cpool' \subseteq cpool
    BY <2>8 DEF ClientRecvLossy
  <2> QED
    BY <1>2, <2>1, <2>2, <2>3, <2>4, <2>5, <2>6, <2>7, <2>8 DEF ClientLoop
<1>3. ASSUME ClientOutside PROVE cpool' \subseteq cpool
  BY <1>3 DEF ClientOutside, Accept, AppClose, ClientPollRead, ClientPollQueue,
              ClientPollEnd, ClientPollPost
<1> QED
  BY <1>2, <1>3

\* Nor does another enter the server's.
LEMMA ServerRegisters ==
    ASSUME ServerLoop \/ ServerOutside
    PROVE  spool' \subseteq spool \cup {chidsrv0}
<1>1. ASSUME NEW j, NEW ch, ServerPromiseChannelClose(j, ch)
      PROVE  spool' \subseteq spool
  BY <1>1 DEF ServerPromiseChannelClose, ServerNotifyClient, ServerStillSending,
              ServerForceClose, ServerBothClosed, ServerOoops, RmServer
<1>2. ASSUME ServerLoop PROVE spool' \subseteq spool \cup {chidsrv0}
  <2>1. ASSUME NEW j \in ChanIds, ProcessServerReadyRead(j)
        PROVE  spool' \subseteq spool
    BY <2>1 DEF ProcessServerReadyRead
  <2>2. ASSUME NEW j \in ChanIds, ServerClose(j) PROVE spool' \subseteq spool
    BY <1>1, <2>2 DEF ServerClose
  <2>3. ASSUME NEW S \in SUBSET spool, ServerServeKcp(S) PROVE spool' \subseteq spool
    BY <2>3 DEF ServerServeKcp
  <2>4. ASSUME KcpCheckClose PROVE spool' \subseteq spool
    BY <2>4 DEF KcpCheckClose
  <2>5. ASSUME ServerRecvSyn PROVE spool' \subseteq spool \cup {chidsrv0}
    BY <2>5 DEF ServerRecvSyn
  <2>6. ASSUME ServerRecvFin PROVE spool' \subseteq spool
    BY <1>1, <2>6 DEF ServerRecvFin
  <2>7. ASSUME NEW p \in lossyC, ServerRecvLossy(p) PROVE spool' \subseteq spool
    BY <2>7 DEF ServerRecvLossy
  <2> QED
    BY <1>2, <2>1, <2>2, <2>3, <2>4, <2>5, <2>6, <2>7 DEF ServerLoop
<1>3. ASSUME ServerOutside PROVE spool' \subseteq spool
  BY <1>3 DEF ServerOutside, ServerDial, ServerDialFails, BackendClose,
              ServerPollRead, ServerPollQueue, ServerPollEnd, ServerPollPost
<1> QED
  BY <1>2, <1>3

\* A channel that has left its pool stays out of it: what enters a pool has
\* the next id of its process, whatever message, timer or reader event is late.
THEOREM RemovedForGood == Spec => NeverRevived
<1>1. [Next]_vars => /\ cpool' \subseteq cpool \cup {chanid0}
                     /\ spool' \subseteq spool \cup {chidsrv0}
  <2> SUFFICES ASSUME [Next]_vars
               PROVE  /\ cpool' \subseteq cpool \cup {chanid0}
                      /\ spool' \subseteq spool \cup {chidsrv0}
    OBVIOUS
  <2>1. CASE (ClientLoop \/ ClientOutside) /\ UNCHANGED serverVars
    BY <2>1, ClientRegisters DEF serverVars
  <2>2. CASE (ServerLoop \/ ServerOutside) /\ UNCHANGED clientVars
    BY <2>2, ServerRegisters DEF clientVars
  <2>3. CASE UNCHANGED <<clientVars, serverVars>>
    BY <2>3 DEF clientVars, serverVars
  <2> QED
    BY <2>1, <2>2, <2>3 DEF Next, vars
<1>2. [Next]_vars => [/\ \A i \in cpool' \ cpool : i = chanid0
                      /\ \A j \in spool' \ spool : j = chidsrv0]_vars
  BY <1>1
<1> QED
  BY <1>2, PTL DEF Spec, NeverRevived

-----------------------------------------------------------------------------
(***************************************************************************)
(* The two maps of the server's ChannelPool name the same channels, as     *)
(* long as makeKcpConv repeats no conversation number.                     *)
(***************************************************************************)
\* Exactly the channels that have been made have a conversation, each its own;
\* a channel keeps it when it leaves the pools, because rmServer may be called
\* for it again.
ConvsOwn ==
    /\ \A j \in ChanIds : j < chidsrv0 <=> sch[j].conv # 0
    /\ \A j, k \in ChanIds : sch[j].conv = sch[k].conv /\ sch[j].conv # 0 => j = k

\* Registered channels have been made.
RegisteredHaveConv == \A j \in spool : sch[j].conv # 0

PoolsInv == TypeOK /\ ServerPoolsAgree /\ ConvsOwn /\ RegisteredHaveConv

\* What every server step but ServerRecvSyn does to the pools: the channels of
\* R are removed from both, and no channel's conversation changes.
Removes(R) ==
    /\ chidsrv0' = chidsrv0
    /\ \A k \in ChanIds : sch'[k].conv = sch[k].conv
    /\ spool' = spool \ R
    /\ spool2' = [v \in Conv0 |-> IF \E j \in R : sch[j].conv = v THEN 0 ELSE spool2[v]]

-----------------------------------------------------------------------------
\* A removal keeps the maps in step.
LEMMA RemovesKeepsPools ==
    ASSUME PoolsInv, NEW R \in SUBSET ChanIds, Removes(R)
    PROVE  ServerPoolsAgree' /\ ConvsOwn' /\ RegisteredHaveConv'
<1>1. spool \subseteq ChanIds /\ spool' \subseteq spool
  BY DEF PoolsInv, TypeOK, ServerTypeOK, Removes
<1>2. ConvsOwn' /\ RegisteredHaveConv'
  BY <1>1 DEF PoolsInv, ConvsOwn, RegisteredHaveConv, Removes
<1>3. ASSUME NEW v \in Conv0, spool2'[v] # 0
      PROVE  spool2'[v] \in spool' /\ sch'[spool2'[v]].conv = v
  <2>1. spool2'[v] = spool2[v] /\ ~ \E j \in R : sch[j].conv = v
    BY <1>3 DEF Removes
  <2>2. spool2[v] \in spool /\ sch[spool2[v]].conv = v
    BY <1>3, <2>1 DEF PoolsInv, ServerPoolsAgree
  <2>3. spool2[v] \notin R
    BY <2>1, <2>2
  <2> QED
    BY <1>1, <2>1, <2>2, <2>3 DEF Removes
<1>4. ASSUME NEW j \in spool'
      PROVE  spool2'[sch'[j].conv] = j
  <2>1. j \in spool /\ j \notin R /\ j \in ChanIds
    BY <1>1 DEF Removes
  <2>2. sch'[j].conv = sch[j].conv /\ sch[j].conv # 0 /\ spool2[sch[j].conv] = j
    BY <2>1 DEF Removes, PoolsInv, RegisteredHaveConv, ServerPoolsAgree
  <2>3. sch[j].conv \in Conv0
    BY <2>1 DEF PoolsInv, TypeOK, ServerTypeOK, ChannelType
  <2>4. ~ \E k \in R : sch[k].conv = sch[j].conv
    BY <2>1, <2>2 DEF PoolsInv, ConvsOwn
  <2> QED
    BY <2>2, <2>3, <2>4 DEF Removes
<1> QED
  BY <1>2, <1>3, <1>4 DEF ServerPoolsAgree

\* Leaving both maps alone is a removal of nothing.
LEMMA RemovesNothing ==
    ASSUME TypeOK, UNCHANGED <<chidsrv0, spool, spool2>>,
           \A k \in ChanIds : sch'[k].conv = sch[k].conv
    PROVE  Removes({})
BY DEF Removes, TypeOK, ServerTypeOK

\* rmServer removes its channel, registered or not.
LEMMA RmServerRemoves ==
    ASSUME TypeOK, NEW j \in ChanIds, NEW ch, ch.conv = sch[j].conv,
           RmServer(j, ch), chidsrv0' = chidsrv0,
           \A k \in ChanIds : sch'[k].conv = sch[k].conv
    PROVE  Removes({j})
<1>1. spool2' = [v \in Conv0 |-> IF \E k \in {j} : sch[k].conv = v THEN 0 ELSE spool2[v]]
  BY DEF RmServer, TypeOK, ServerTypeOK
<1> QED
  BY <1>1 DEF Removes, RmServer

\* An update of one channel that keeps its conversation keeps all of them.
LEMMA ConvKept ==
    ASSUME TypeOK, NEW j \in ChanIds, NEW ch, ch.conv = sch[j].conv,
           sch' = [sch EXCEPT ![j] = ch]
    PROVE  \A k \in ChanIds : sch'[k].conv = sch[k].conv
BY DEF TypeOK, ServerTypeOK

\* addCloseReason does not change the channel's conversation.
LEMMA AddCloseReasonConv ==
    ASSUME NEW ch \in ChannelType, NEW r \in Reasons
    PROVE  AddCloseReason(ch, r).conv = ch.conv
BY DEF AddCloseReason, ChannelType

\* The closing promise removes its channel or nothing.
LEMMA ServerPromiseRemoves ==
    ASSUME TypeOK, NEW j \in ChanIds, NEW ch \in ChannelType, ch.conv = sch[j].conv,
           ServerPromiseChannelClose(j, ch), chidsrv0' = chidsrv0
    PROVE  \E R \in SUBSET ChanIds : Removes(R)
<1>1. ASSUME NEW r \in Reasons, SetReason(j, ch, r)
      PROVE  \A k \in ChanIds : sch'[k].conv = sch[k].conv
  <2> DEFINE c == AddCloseReason(ch, r)
  <2>1. c.conv = sch[j].conv
    BY AddCloseReasonConv
  <2>2. sch' = [sch EXCEPT ![j] = c]
    BY <1>1 DEF SetReason
  <2> HIDE DEF c
  <2> QED
    BY <2>1, <2>2, ConvKept
<1>2. CASE ServerNotifyClient(j, ch)
  <2>1. CASE link
    <3>1. SetReason(j, ch, "server_close") /\ RmServer(j, ch)
      BY <1>2, <2>1 DEF ServerNotifyClient
    <3>2. \A k \in ChanIds : sch'[k].conv = sch[k].conv
      BY <1>1, <3>1 DEF Reasons
    <3>3. Removes({j})
      BY <3>1, <3>2, RmServerRemoves
    <3> QED
      BY <3>3
  <2>2. CASE ~link
    <3>1. \A k \in ChanIds : sch'[k].conv = sch[k].conv
      BY <1>2, <2>2, ConvKept DEF ServerNotifyClient
    <3>2. Removes({})
      BY <1>2, <2>2, <3>1, RemovesNothing DEF ServerNotifyClient
    <3> QED
      BY <3>2
  <2> QED
    BY <2>1, <2>2
<1>3. CASE ServerStillSending(j, ch)
  <2>1. \A k \in ChanIds : sch'[k].conv = sch[k].conv
    BY <1>1, <1>3 DEF ServerStillSending, Reasons
  <2>2. Removes({})
    BY <1>3, <2>1, RemovesNothing DEF ServerStillSending
  <2> QED
    BY <2>2
<1>4. CASE ServerForceClose(j, ch)
  <2> DEFINE a == AddCloseReason(ch, "client_close")
             c == [a EXCEPT !.server_socket_close = TRUE]
  <2>1. a \in ChannelType /\ a.conv = sch[j].conv
    BY AddCloseReasonType, AddCloseReasonConv DEF Reasons
  <2>2. sch' = [sch EXCEPT ![j] = c]
    BY <1>4 DEF ServerForceClose
  <2> HIDE DEF a
  <2>3. c.conv = sch[j].conv
    BY <2>1 DEF ChannelType
  <2> HIDE DEF c
  <2>4. \A k \in ChanIds : sch'[k].conv = sch[k].conv
    BY <2>2, <2>3, ConvKept
  <2>5. Removes({})
    BY <1>4, <2>4, RemovesNothing DEF ServerForceClose
  <2> QED
    BY <2>5
<1>5. CASE ServerBothClosed(j, ch)
  <2>1. SetReason(j, ch, "both_close") /\ RmServer(j, ch)
    BY <1>5 DEF ServerBothClosed
  <2>2. \A k \in ChanIds : sch'[k].conv = sch[k].conv
    BY <1>1, <2>1 DEF Reasons
  <2>3. Removes({j})
    BY <2>1, <2>2, RmServerRemoves
  <2> QED
    BY <2>3
<1>6. CASE ServerOoops(j, ch)
  <2>1. Removes({})
    BY <1>6, RemovesNothing DEF ServerOoops
  <2> QED
    BY <2>1
<1> QED
  BY <1>2, <1>3, <1>4, <1>5, <1>6 DEF ServerPromiseChannelClose

-----------------------------------------------------------------------------
\* kcpCheckClose removes the channels whose FIN it sends, and those that both
\* sides have closed.
LEMMA KcpCheckCloseRemoves ==
    ASSUME TypeOK, KcpCheckClose
    PROVE  \E R \in SUBSET ChanIds : Removes(R)
<1> DEFINE drained == {j \in ChanIds : KcpDrained(j)}
           finished == {j \in drained : ~sch[j].client_socket_close}
           removed == IF link THEN drained ELSE drained \ finished
           Marked(j) == [sch[j] EXCEPT !.server_kcp_close = TRUE]
<1>1. \A j \in ChanIds : Marked(j) \in ChannelType /\ Marked(j).conv = sch[j].conv
  BY ZenonT(60) DEF TypeOK, ServerTypeOK, ChannelType
<1>2. \A j \in ChanIds :
        sch'[j] = IF j \notin drained THEN sch[j]
                  ELSE IF j \notin finished THEN AddCloseReason(Marked(j), "both_close")
                  ELSE IF link THEN AddCloseReason(Marked(j), "server_close")
                  ELSE Marked(j)
  BY DEF KcpCheckClose
<1>3. removed \in SUBSET ChanIds
  OBVIOUS
<1>4. /\ chidsrv0' = chidsrv0
      /\ spool' = spool \ removed
      /\ spool2' = [v \in Conv0 |->
                        IF \E j \in removed : sch[j].conv = v THEN 0 ELSE spool2[v]]
  BY DEF KcpCheckClose
<1> HIDE DEF Marked, drained, finished, removed
<1>5. \A j \in ChanIds : sch'[j].conv = sch[j].conv
  <2> SUFFICES ASSUME NEW j \in ChanIds PROVE sch'[j].conv = sch[j].conv
    OBVIOUS
  <2>1. Marked(j) \in ChannelType /\ Marked(j).conv = sch[j].conv
    BY <1>1
  <2>2. /\ AddCloseReason(Marked(j), "both_close").conv = sch[j].conv
        /\ AddCloseReason(Marked(j), "server_close").conv = sch[j].conv
    BY <2>1, AddCloseReasonConv DEF Reasons
  <2> QED
    BY <1>2, <2>1, <2>2
<1>6. Removes(removed)
  BY <1>4, <1>5 DEF Removes
<1> QED
  BY <1>3, <1>6

\* connect_syn registers a channel under a conversation no channel has had.
LEMMA ServerRecvSynPools ==
    ASSUME PoolsInv, ServerRecvSyn
    PROVE  ServerPoolsAgree' /\ ConvsOwn' /\ RegisteredHaveConv'
<1> USE DEF PoolsInv, TypeOK, ServerTypeOK
<1> DEFINE j0 == chidsrv0
<1>1. j0 \in ChanIds /\ j0 \in Nat /\ chidsrv0' = j0 + 1 /\ ChanIds \subseteq Nat
  BY ChannelAssumption DEF ServerRecvSyn, ChanIds
<1>2. PICK conv \in MakeKcpConv : \E ch :
        /\ ch.conv = conv
        /\ sch' = [sch EXCEPT ![j0] = ch]
        /\ spool' = spool \cup {j0}
        /\ spool2' = [spool2 EXCEPT ![conv] = j0]
  <2> DEFINE Ch(v) == [NewChannelWithId(j0, Head(toServer).chidcli) EXCEPT
                        !.conv = v, !.kcp = NewKCP, !.poll = "dial"]
  <2>1. \A v \in MakeKcpConv : Ch(v).conv = v
    BY DEF NewChannelWithId, ZeroChannel
  <2>2. \E v \in MakeKcpConv :
            /\ sch' = [sch EXCEPT ![j0] = Ch(v)]
            /\ spool' = spool \cup {j0}
            /\ spool2' = [spool2 EXCEPT ![v] = j0]
    BY DEF ServerRecvSyn
  <2> QED
    BY <2>1, <2>2
<1>3. conv \in Conv0 /\ conv # 0
  BY ChannelAssumption DEF MakeKcpConv, Conv0
<1>4. \A k \in ChanIds : k < j0 => sch[k].conv # conv
  BY <1>1 DEF MakeKcpConv, ChanIds
<1>5. \A k \in ChanIds : k # j0 => sch'[k] = sch[k] /\ sch[k].conv # conv
  BY <1>1, <1>2, <1>3, <1>4 DEF ConvsOwn
<1>6. sch'[j0].conv = conv
  BY <1>1, <1>2
<1>7. j0 \notin spool /\ spool \subseteq ChanIds
  BY <1>1 DEF RegisteredHaveConv, ConvsOwn
<1>8. ConvsOwn'
  <2>1. \A k \in ChanIds : k < chidsrv0' <=> sch'[k].conv # 0
    BY <1>1, <1>3, <1>5, <1>6 DEF ConvsOwn
  <2>2. \A i, k \in ChanIds : sch'[i].conv = sch'[k].conv /\ sch'[i].conv # 0 => i = k
    BY <1>5, <1>6 DEF ConvsOwn
  <2> QED
    BY <2>1, <2>2 DEF ConvsOwn
<1>9. RegisteredHaveConv'
  BY <1>2, <1>3, <1>5, <1>6, <1>7 DEF RegisteredHaveConv
<1>10. ServerPoolsAgree'
  <2>1. ASSUME NEW v \in Conv0, spool2'[v] # 0
        PROVE  spool2'[v] \in spool' /\ sch'[spool2'[v]].conv = v
    <3>1. CASE v = conv
      BY <1>2, <1>3, <1>6, <3>1
    <3>2. CASE v # conv
      <4>1. spool2'[v] = spool2[v]
        BY <1>2, <3>2
      <4>2. spool2[v] \in spool /\ sch[spool2[v]].conv = v
        BY <2>1, <4>1 DEF ServerPoolsAgree
      <4> QED
        BY <1>2, <1>5, <1>7, <4>1, <4>2
    <3> QED
      BY <3>1, <3>2
  <2>2. ASSUME NEW k \in spool'
        PROVE  spool2'[sch'[k].conv] = k
    <3>1. CASE k = j0
      BY <1>2, <1>3, <1>6, <3>1
    <3>2. CASE k # j0
      <4>1. k \in spool /\ k \in ChanIds
        BY <1>2, <1>7, <3>2
      <4>2. sch'[k] = sch[k] /\ sch[k].conv # conv /\ spool2[sch[k].conv] = k
        BY <1>5, <3>2, <4>1 DEF ServerPoolsAgree
      <4>3. sch[k].conv \in Conv0
        BY <4>1 DEF ChannelType
      <4> QED
        BY <1>2, <4>2, <4>3
    <3> QED
      BY <3>1, <3>2
  <2> QED
    BY <2>1, <2>2 DEF ServerPoolsAgree
<1> QED
  BY <1>8, <1>9, <1>10
-----------------------------------------------------------------------------
\* A step that updates one channel in place, conversation and maps apart.
LEMMA InPlaceRemoves ==
    ASSUME TypeOK, NEW j \in ChanIds, NEW ch, ch.conv = sch[j].conv,
           sch' = [sch EXCEPT ![j] = ch], UNCHANGED <<chidsrv0, spool, spool2>>
    PROVE  \E R \in SUBSET ChanIds : Removes(R)
<1>1. \A k \in ChanIds : sch'[k].conv = sch[k].conv
  BY ConvKept
<1>2. Removes({})
  BY <1>1, RemovesNothing
<1> QED
  BY <1>2

\* The goroutine of a channel changes nothing the pools are about.
LEMMA ServerOutsideRemoves ==
    ASSUME TypeOK, ServerOutside
    PROVE  \E R \in SUBSET ChanIds : Removes(R)
<1> PICK j \in ChanIds : \/ ServerDial(j) \/ ServerDialFails(j) \/ BackendClose(j)
                         \/ ServerPollRead(j) \/ ServerPollQueue(j)
                         \/ ServerPollEnd(j) \/ ServerPollPost(j)
  BY DEF ServerOutside
<1>0. sch[j] \in ChannelType
  BY DEF TypeOK, ServerTypeOK
<1>1. CASE ServerDial(j)
  <2> DEFINE ch == [sch[j] EXCEPT !.poll = "reading"]
  <2>1. ch.conv = sch[j].conv
    BY <1>0 DEF ChannelType
  <2>2. sch' = [sch EXCEPT ![j] = ch] /\ UNCHANGED <<chidsrv0, spool, spool2>>
    BY <1>1 DEF ServerDial
  <2> HIDE DEF ch
  <2> QED
    BY <2>1, <2>2, InPlaceRemoves
<1>2. CASE ServerDialFails(j) \/ BackendClose(j)
  <2>1. UNCHANGED <<sch, chidsrv0, spool, spool2>>
    BY <1>2 DEF ServerDialFails, BackendClose
  <2>2. Removes({})
    BY <2>1, RemovesNothing
  <2> QED
    BY <2>2
<1>3. CASE ServerPollRead(j)
  <2> DEFINE ch == [sch[j] EXCEPT !.taken = sch[j].taken + 1, !.poll = "holding"]
  <2>1. ch.conv = sch[j].conv
    BY <1>0 DEF ChannelType
  <2>2. sch' = [sch EXCEPT ![j] = ch] /\ UNCHANGED <<chidsrv0, spool, spool2>>
    BY <1>3 DEF ServerPollRead
  <2> HIDE DEF ch
  <2> QED
    BY <2>1, <2>2, InPlaceRemoves
<1>4. CASE ServerPollQueue(j)
  <2> DEFINE ch == [sch[j] EXCEPT !.queued = sch[j].queued + 1, !.poll = "reading"]
  <2>1. ch.conv = sch[j].conv
    BY <1>0 DEF ChannelType
  <2>2. sch' = [sch EXCEPT ![j] = ch] /\ UNCHANGED <<chidsrv0, spool, spool2>>
    BY <1>4 DEF ServerPollQueue
  <2> HIDE DEF ch
  <2> QED
    BY <2>1, <2>2, InPlaceRemoves
<1>5. CASE ServerPollEnd(j)
  <2> DEFINE ch == [sch[j] EXCEPT !.server_socket_close = TRUE, !.poll = "post"]
  <2>1. ch.conv = sch[j].conv
    BY <1>0 DEF ChannelType
  <2>2. sch' = [sch EXCEPT ![j] = ch] /\ UNCHANGED <<chidsrv0, spool, spool2>>
    BY <1>5 DEF ServerPollEnd
  <2> HIDE DEF ch
  <2> QED
    BY <2>1, <2>2, InPlaceRemoves
<1>6. CASE ServerPollPost(j)
  <2> DEFINE ch == [sch[j] EXCEPT !.poll = "posted"]
  <2>1. ch.conv = sch[j].conv
    BY <1>0 DEF ChannelType
  <2>2. sch' = [sch EXCEPT ![j] = ch] /\ UNCHANGED <<chidsrv0, spool, spool2>>
    BY <1>6 DEF ServerPollPost
  <2> HIDE DEF ch
  <2> QED
    BY <2>1, <2>2, InPlaceRemoves
<1> QED
  BY <1>1, <1>2, <1>3, <1>4, <1>5, <1>6

\* Every handler of the server but connect_syn removes channels or nothing.
LEMMA ServerLoopRemoves ==
    ASSUME TypeOK, ServerLoop, ~ServerRecvSyn
    PROVE  \E R \in SUBSET ChanIds : Removes(R)
<1>0. \A j \in ChanIds : sch[j] \in ChannelType
  BY DEF TypeOK, ServerTypeOK
<1>1. ASSUME NEW j \in ChanIds, ProcessServerReadyRead(j)
      PROVE  \E R \in SUBSET ChanIds : Removes(R)
  <2> DEFINE ch == [sch[j] EXCEPT !.queued = sch[j].queued - 1,
                                  !.kcp = KcpSend(sch[j].kcp)]
  <2>1. ch.conv = sch[j].conv
    BY <1>0 DEF ChannelType
  <2>2. sch' = [sch EXCEPT ![j] = ch] /\ UNCHANGED <<chidsrv0, spool, spool2>>
    BY <1>1 DEF ProcessServerReadyRead
  <2> HIDE DEF ch
  <2> QED
    BY <2>1, <2>2, InPlaceRemoves
<1>2. ASSUME NEW j \in ChanIds, ServerClose(j)
      PROVE  \E R \in SUBSET ChanIds : Removes(R)
  <2> DEFINE ch == [sch[j] EXCEPT !.poll = "done"]
  <2>1. ch \in ChannelType /\ ch.conv = sch[j].conv
    BY <1>0 DEF ChannelType, PollStates
  <2>2. ServerPromiseChannelClose(j, ch) /\ chidsrv0' = chidsrv0
    BY <1>2 DEF ServerClose
  <2> HIDE DEF ch
  <2> QED
    BY <2>1, <2>2, ServerPromiseRemoves
<1>3. ASSUME NEW S \in SUBSET spool, ServerServeKcp(S)
      PROVE  \E R \in SUBSET ChanIds : Removes(R)
  <2>1. \A k \in ChanIds : sch'[k].conv = sch[k].conv
    BY <1>0, <1>3 DEF ServerServeKcp, ChannelType
  <2>2. Removes({})
    BY <1>3, <2>1, RemovesNothing DEF ServerServeKcp
  <2> QED
    BY <2>2
<1>4. ASSUME ServerRecvFin
      PROVE  \E R \in SUBSET ChanIds : Removes(R)
  <2> DEFINE j == spool2[Head(toServer).conv]
             ch == [sch[j] EXCEPT !.client_socket_close = TRUE]
  <2>1. chidsrv0' = chidsrv0
    BY <1>4 DEF ServerRecvFin
  <2>2. CASE j # 0
    <3>1. j \in ChanIds
      <4>1. Head(toServer) \in Packet
        BY <1>4 DEF ServerRecvFin, TypeOK, NetTypeOK
      <4> QED
        BY <2>2, <4>1 DEF Packet, TypeOK, ServerTypeOK
    <3>2. ch \in ChannelType /\ ch.conv = sch[j].conv
      BY ZenonT(60), <1>0, <3>1 DEF ChannelType
    <3>3. ServerPromiseChannelClose(j, ch)
      BY <1>4, <2>2 DEF ServerRecvFin
    <3> HIDE DEF j, ch
    <3> QED
      BY <2>1, <3>1, <3>2, <3>3, ServerPromiseRemoves
  <2>3. CASE j = 0
    <3>1. Removes({})
      BY <1>4, <2>3, RemovesNothing DEF ServerRecvFin
    <3> QED
      BY <3>1
  <2> QED
    BY <2>2, <2>3
<1>5. ASSUME NEW p \in lossyC, ServerRecvLossy(p)
      PROVE  \E R \in SUBSET ChanIds : Removes(R)
  <2> DEFINE j == spool2[p.conv]
             ch == [sch[j] EXCEPT !.kcp = KcpInput(sch[j].kcp, p)]
  <2>1. j \in ChanIds
    BY <1>5 DEF ServerRecvLossy, TypeOK, NetTypeOK, KcpPacket, ServerTypeOK
  <2>2. ch.conv = sch[j].conv
    BY <1>0, <2>1 DEF ChannelType
  <2>3. sch' = [sch EXCEPT ![j] = ch] /\ UNCHANGED <<chidsrv0, spool, spool2>>
    BY <1>5 DEF ServerRecvLossy
  <2> HIDE DEF j, ch
  <2> QED
    BY <2>1, <2>2, <2>3, InPlaceRemoves
<1> QED
  BY <1>1, <1>2, <1>3, <1>4, <1>5, KcpCheckCloseRemoves DEF ServerLoop

-----------------------------------------------------------------------------
\* The maps are in step at the start, ...
LEMMA PoolsInit == Init => PoolsInv
<1> SUFFICES ASSUME Init PROVE PoolsInv
  OBVIOUS
<1>1. TypeOK
  BY InitType
<1>2. chidsrv0 = 1 /\ \A j \in ChanIds : sch[j].conv = 0
  BY DEF Init, ServerInit, ZeroChannel
<1>3. ConvsOwn
  BY <1>2, ChannelAssumption DEF ConvsOwn, ChanIds
<1>4. ServerPoolsAgree /\ RegisteredHaveConv
  BY DEF Init, ServerInit, ServerPoolsAgree, RegisteredHaveConv
<1> QED
  BY <1>1, <1>3, <1>4 DEF PoolsInv

\* ... and every step keeps them so.
LEMMA PoolsStep == PoolsInv /\ [Next]_vars => PoolsInv'
<1> SUFFICES ASSUME PoolsInv, [Next]_vars PROVE PoolsInv'
  OBVIOUS
<1>1. TypeOK /\ TypeOK'
  BY StepType DEF PoolsInv
<1>2. CASE ServerRecvSyn
  BY <1>1, <1>2, ServerRecvSynPools DEF PoolsInv
<1>3. CASE (ServerLoop \/ ServerOutside) /\ ~ServerRecvSyn
  <2>1. \E R \in SUBSET ChanIds : Removes(R)
    BY <1>1, <1>3, ServerLoopRemoves, ServerOutsideRemoves
  <2> QED
    BY <1>1, <2>1, RemovesKeepsPools DEF PoolsInv
<1>4. CASE UNCHANGED serverVars
  BY <1>1, <1>4 DEF serverVars, PoolsInv, ServerPoolsAgree, ConvsOwn,
                    RegisteredHaveConv
<1> QED
  BY <1>2, <1>3, <1>4 DEF Next, vars

\* pool and pool2 of the server name the same channels in every reachable
\* state: a FIN or a KCP packet finds its channel by conv exactly as long as
\* serveKcp and kcpCheckClose find it by id, however often rmServer is called
\* for one channel.
THEOREM ServerPoolsInStep == Spec => []ServerPoolsAgree
<1>1. PoolsInv => ServerPoolsAgree
  BY DEF PoolsInv
<1> QED
  BY PoolsInit, PoolsStep, <1>1, PTL DEF Spec

(***************************************************************************)
(* What the steps change in a channel.                                     *)
(***************************************************************************)
Fields == {"conn", "chidcli", "chidsrv", "conv", "kcp", "client_socket_close",
           "server_socket_close", "server_kcp_close", "conn_ack_recved",
           "close_reason", "poll", "queued", "taken", "out"}

\* a and b are the same channel but for the fields of F.
SameBut(F, a, b) == \A f \in Fields \ F : b[f] = a[f]

\* No channel of the client but i changes; none of the server but j.
ClientAlone(i) == \A k \in ChanIds \ {i} : cch'[k] = cch[k]
ServerAlone(j) == \A k \in ChanIds \ {j} : sch'[k] = sch[k]

\* A closing promise may add a reason and set the flag of its own side.
ClosingFields == {"close_reason", "client_socket_close", "server_socket_close",
                  "server_kcp_close"}

\* rmClient takes channel i out of both maps, if it does anything to them.
ClientMayRemove(i) ==
    \/ UNCHANGED <<cpool, cpool2>>
    \/ /\ i \in cpool /\ cpool' = cpool \ {i}
       /\ cpool2' = [cpool2 EXCEPT ![cch[i].conv] = 0]

\* Nothing but a FIN for conversation v is sent.
MaySendFin(q, qn, v) ==
    \/ qn = q
    \/ \E p : p.command = CMDCLOSEFIN /\ p.conv = v /\ qn = Append(q, p)

\* A channel stays as the goroutine, the event loop or the KCP leaves it.
LEMMA ReaderFields ==
    ASSUME NEW ch \in ChannelType
    PROVE  /\ \A r : SameBut({"close_reason"}, ch, AddCloseReason(ch, r))
           /\ \A st : SameBut({"poll"}, ch, [ch EXCEPT !.poll = st])
           /\ \A k : SameBut({"kcp"}, ch, [ch EXCEPT !.kcp = k])
BY DEF SameBut, Fields, ChannelType, AddCloseReason

\* The client's promise changes the closing fields of its channel, removes it
\* or not, and sends a FIN or not.
LEMMA ClientPromiseEffect ==
    ASSUME TypeOK, NEW i \in ChanIds, NEW ch \in ChannelType,
           ch.chidcli \in {0, i}, ch.conv = cch[i].conv,
           ClientPromiseChannelClose(i, ch)
    PROVE  /\ ClientAlone(i)
           /\ cch'[i] = cch[i] \/ SameBut(ClosingFields, ch, cch'[i])
           /\ ClientMayRemove(i)
           /\ MaySendFin(toServer, toServer', cch[i].conv)
<1> USE DEF TypeOK, ClientTypeOK
<1>1. ASSUME NEW c \in ChannelType, c.chidcli = ch.chidcli, c.conv = cch[i].conv,
             RmClient(c)
      PROVE  ClientMayRemove(i)
  <2>1. 0 \notin cpool
    BY DEF ChanIds
  <2>2. c.chidcli \in cpool => c.chidcli = i
    BY <1>1, <2>1
  <2>3. \/ UNCHANGED <<cpool, cpool2>>
        \/ /\ c.chidcli \in cpool /\ cpool' = cpool \ {c.chidcli}
           /\ cpool2' = [cpool2 EXCEPT ![c.conv] = 0]
    BY <1>1 DEF RmClient
  <2> QED
    BY <1>1, <2>2, <2>3 DEF ClientMayRemove
<1>2. ASSUME NEW r \in Reasons
      PROVE  /\ AddCloseReason(ch, r) \in ChannelType
             /\ SameBut({"close_reason"}, ch, AddCloseReason(ch, r))
             /\ AddCloseReason(ch, r).chidcli = ch.chidcli
             /\ AddCloseReason(ch, r).conv = cch[i].conv
  <2> DEFINE c == AddCloseReason(ch, r)
  <2>1. c \in ChannelType /\ SameBut({"close_reason"}, ch, c)
    BY AddCloseReasonType, ReaderFields
  <2> HIDE DEF c
  <2>2. c.chidcli = ch.chidcli /\ c.conv = cch[i].conv
    BY <2>1 DEF SameBut, Fields
  <2> QED
    BY <2>1, <2>2 DEF c
<1>3. ASSUME NEW c, cch' = [cch EXCEPT ![i] = c], SameBut(ClosingFields, ch, c)
      PROVE  ClientAlone(i) /\ SameBut(ClosingFields, ch, cch'[i])
  BY <1>3 DEF ClientAlone
<1>4. ASSUME NEW r \in Reasons
      PROVE  SameBut(ClosingFields, ch, AddCloseReason(ch, r))
  BY <1>2, <1>4 DEF SameBut, ClosingFields
<1>5. CASE ClientNotifyServer(i, ch)
  <2>1. MaySendFin(toServer, toServer', cch[i].conv)
    BY <1>5 DEF ClientNotifyServer, MaySendFin, FriendSendMessage, ChannelPacket, NewPacket
  <2>2. CASE link
    <3> DEFINE c == AddCloseReason(ch, "client_close")
    <3>1. cch' = [cch EXCEPT ![i] = c] /\ RmClient(c)
      BY <1>5, <2>2 DEF ClientNotifyServer
    <3> QED
      BY <1>1, <1>2, <1>3, <1>4, <2>1, <3>1 DEF Reasons
  <2>3. CASE ~link
    <3>1. SameBut(ClosingFields, ch, ch)
      BY DEF SameBut
    <3> QED
      BY <1>3, <1>5, <2>1, <2>3, <3>1 DEF ClientNotifyServer, ClientMayRemove
  <2> QED
    BY <2>2, <2>3
<1>6. CASE ClientBothClosed(i, ch)
  <2> DEFINE c == AddCloseReason(ch, "both_close")
  <2>1. cch' = [cch EXCEPT ![i] = c] /\ RmClient(c) /\ toServer' = toServer
    BY <1>6 DEF ClientBothClosed
  <2> QED
    BY <1>1, <1>2, <1>3, <1>4, <2>1 DEF Reasons, MaySendFin
<1>7. CASE ClientForceClose(i, ch)
  <2> DEFINE a == AddCloseReason(ch, "server_close")
             c == [a EXCEPT !.client_socket_close = TRUE]
  <2>1. cch' = [cch EXCEPT ![i] = c] /\ UNCHANGED <<cpool, cpool2, toServer>>
    BY <1>7 DEF ClientForceClose
  <2>2. a \in ChannelType /\ SameBut({"close_reason"}, ch, a)
    BY <1>2 DEF Reasons
  <2> HIDE DEF a
  <2>3. SameBut(ClosingFields, ch, c)
    BY <2>2 DEF SameBut, Fields, ClosingFields, ChannelType
  <2> QED
    BY <1>3, <2>1, <2>3 DEF ClientMayRemove, MaySendFin
<1>8. CASE ClientOoops(i, ch)
  BY <1>8 DEF ClientOoops, ClientAlone, ClientMayRemove, MaySendFin
<1> QED
  BY <1>5, <1>6, <1>7, <1>8 DEF ClientPromiseChannelClose

\* The goroutine that reads a TCP connection moves on; when it leaves its loop
\* it has set the flag of its side.
ReadersFields == {"poll", "taken", "queued", "client_socket_close", "server_socket_close"}
Closing == {"post", "posted", "done"}

LEMMA ClientReaderEffect ==
    ASSUME TypeOK, NEW i \in ChanIds,
           \/ ClientPollRead(i) \/ ClientPollQueue(i)
           \/ ClientPollEnd(i) \/ ClientPollPost(i)
    PROVE  /\ ClientAlone(i) /\ SameBut(ReadersFields, cch[i], cch'[i])
           /\ cch[i].poll \in {"reading", "holding", "post"}
           /\ cch'[i].server_socket_close = cch[i].server_socket_close
           /\ cch[i].client_socket_close => cch'[i].client_socket_close
           /\ cch'[i].poll \in Closing => cch'[i].client_socket_close \/ cch[i].poll = "post"
           /\ UNCHANGED <<chanid0, cpool, cpool2, cpanic, netVars>>
<1> USE DEF TypeOK, ClientTypeOK, ClientAlone, SameBut, Fields, ReadersFields, Closing, ChannelType
<1>1. CASE ClientPollRead(i)
  BY <1>1 DEF ClientPollRead
<1>2. CASE ClientPollQueue(i)
  BY <1>2 DEF ClientPollQueue
<1>3. CASE ClientPollEnd(i)
  BY <1>3 DEF ClientPollEnd
<1>4. CASE ClientPollPost(i)
  BY <1>4 DEF ClientPollPost
<1> QED
  BY <1>1, <1>2, <1>3, <1>4

LEMMA ServerReaderEffect ==
    ASSUME TypeOK, NEW j \in ChanIds,
           \/ ServerDial(j) \/ ServerPollRead(j) \/ ServerPollQueue(j)
           \/ ServerPollEnd(j) \/ ServerPollPost(j)
    PROVE  /\ ServerAlone(j) /\ SameBut(ReadersFields, sch[j], sch'[j])
           /\ sch'[j].client_socket_close = sch[j].client_socket_close
           /\ sch[j].server_socket_close => sch'[j].server_socket_close
           /\ sch'[j].poll \in Closing => sch'[j].server_socket_close \/ sch[j].poll = "post"
           /\ sch[j].poll # "done"
           /\ UNCHANGED <<chidsrv0, spool, spool2, spanic, netVars>>
<1> USE DEF TypeOK, ServerTypeOK, ServerAlone, SameBut, Fields, ReadersFields, Closing, ChannelType
<1>1. CASE ServerPollRead(j)
  BY <1>1 DEF ServerPollRead
<1>2. CASE ServerPollQueue(j)
  BY <1>2 DEF ServerPollQueue
<1>3. CASE ServerPollEnd(j)
  BY <1>3 DEF ServerPollEnd
<1>4. CASE ServerPollPost(j)
  BY <1>4 DEF ServerPollPost
<1>5. CASE ServerDial(j)
  BY <1>5 DEF ServerDial
<1> QED
  BY <1>1, <1>2, <1>3, <1>4, <1>5

\* A read event becomes one more message given to the KCP.
LEMMA ReadyReadEffect ==
    ASSUME TypeOK, NEW i \in ChanIds
    PROVE  /\ ProcessClientReadyRead(i) =>
                /\ ClientAlone(i) /\ SameBut({"queued", "kcp"}, cch[i], cch'[i])
                /\ cch'[i].kcp = KcpSend(cch[i].kcp) /\ cch[i].queued > 0
                /\ UNCHANGED <<chanid0, cpool, cpool2, cpanic, netVars>>
           /\ ProcessServerReadyRead(i) =>
                /\ ServerAlone(i) /\ SameBut({"queued", "kcp"}, sch[i], sch'[i])
                /\ sch'[i].kcp = KcpSend(sch[i].kcp)
                /\ UNCHANGED <<chidsrv0, spool, spool2, spanic, netVars>>
<1> USE DEF TypeOK, ClientTypeOK, ServerTypeOK, ClientAlone, ServerAlone, SameBut,
            Fields, ChannelType
<1>1. ASSUME ProcessClientReadyRead(i)
      PROVE  /\ ClientAlone(i) /\ SameBut({"queued", "kcp"}, cch[i], cch'[i])
             /\ cch'[i].kcp = KcpSend(cch[i].kcp) /\ cch[i].queued > 0
             /\ UNCHANGED <<chanid0, cpool, cpool2, cpanic, netVars>>
  BY <1>1 DEF ProcessClientReadyRead
<1>2. ASSUME ProcessServerReadyRead(i)
      PROVE  /\ ServerAlone(i) /\ SameBut({"queued", "kcp"}, sch[i], sch'[i])
             /\ sch'[i].kcp = KcpSend(sch[i].kcp)
             /\ UNCHANGED <<chidsrv0, spool, spool2, spanic, netVars>>
  BY <1>2 DEF ProcessServerReadyRead
<1> QED
  BY <1>1, <1>2

\* serveKcp takes one received message of a channel, or none.
Served(a, b) ==
    \/ b = a
    \/ /\ SameBut({"kcp", "out"}, a, b) /\ b.kcp = KcpRecv(a.kcp)
       /\ b.out \in {a.out, a.out + 1}
       /\ a.kcp.open /\ a.kcp.read < a.kcp.rcv

LEMMA ServeKcpEffect ==
    ASSUME TypeOK
    PROVE  /\ ClientServeKcp => \A k \in ChanIds : Served(cch[k], cch'[k])
           /\ \A S \in SUBSET spool :
                ServerServeKcp(S) => \A k \in ChanIds : Served(sch[k], sch'[k])
<1> USE DEF TypeOK, ClientTypeOK, ServerTypeOK, Served, SameBut, Fields, ChannelType
<1>1. ASSUME ClientServeKcp, NEW k \in ChanIds
      PROVE  Served(cch[k], cch'[k])
  <2> DEFINE ready == k \in cpool /\ cch[k].kcp.open /\ cch[k].kcp.read < cch[k].kcp.rcv
  <2>1. CASE ready
    <3> DEFINE n == IF cconn[cch[k].conn] = "closed" THEN cch[k].out ELSE cch[k].out + 1
               c == [cch[k] EXCEPT !.kcp = KcpRecv(cch[k].kcp), !.out = n]
    <3>1. cch'[k] = c
      BY <1>1, <2>1 DEF ClientServeKcp
    <3>2. n \in {cch[k].out, cch[k].out + 1}
      OBVIOUS
    <3> HIDE DEF n
    <3>3. SameBut({"kcp", "out"}, cch[k], c) /\ c.kcp = KcpRecv(cch[k].kcp) /\ c.out = n
      OBVIOUS
    <3> QED
      BY <2>1, <3>1, <3>2, <3>3
  <2>2. CASE ~ready
    BY <1>1, <2>2 DEF ClientServeKcp
  <2> QED
    BY <2>1, <2>2
<1>2. ASSUME NEW S \in SUBSET spool, ServerServeKcp(S), NEW k \in ChanIds
      PROVE  Served(sch[k], sch'[k])
  <2> DEFINE ready == k \in S /\ sch[k].kcp.read < sch[k].kcp.rcv
  <2>1. CASE ready
    <3> DEFINE n == IF sconn[k] \in {"nil", "closed"} THEN sch[k].out ELSE sch[k].out + 1
               c == [sch[k] EXCEPT !.kcp = KcpRecv(sch[k].kcp), !.out = n]
    <3>1. sch'[k] = c /\ sch[k].kcp.open
      BY <1>2, <2>1 DEF ServerServeKcp
    <3>2. n \in {sch[k].out, sch[k].out + 1}
      OBVIOUS
    <3> HIDE DEF n
    <3>3. SameBut({"kcp", "out"}, sch[k], c) /\ c.kcp = KcpRecv(sch[k].kcp) /\ c.out = n
      OBVIOUS
    <3> QED
      BY <2>1, <3>1, <3>2, <3>3
  <2>2. CASE ~ready
    BY <1>2, <2>2 DEF ServerServeKcp
  <2> QED
    BY <2>1, <2>2
<1> QED
  BY <1>1, <1>2

\* The server's promise likewise changes the closing fields of its channel and
\* sends a FIN only when it removes the channel.
LEMMA ServerPromiseEffect ==
    ASSUME TypeOK, NEW j \in ChanIds, NEW ch \in ChannelType, ch.conv = sch[j].conv,
           ServerPromiseChannelClose(j, ch)
    PROVE  /\ ServerAlone(j)
           /\ sch'[j] = sch[j] \/ SameBut(ClosingFields, ch, sch'[j])
           /\ MaySendFin(toClient, toClient', sch[j].conv)
           /\ toClient' = toClient \/ j \notin spool'
<1> USE DEF TypeOK, ServerTypeOK
<1>1. ASSUME NEW r, SetReason(j, ch, r)
      PROVE  ServerAlone(j) /\ SameBut(ClosingFields, ch, sch'[j])
  <2> DEFINE c == AddCloseReason(ch, r)
  <2>1. SameBut({"close_reason"}, ch, c)
    BY ReaderFields
  <2>2. sch' = [sch EXCEPT ![j] = c]
    BY <1>1 DEF SetReason
  <2> HIDE DEF c
  <2> QED
    BY <2>1, <2>2 DEF ServerAlone, SameBut, ClosingFields
<1>2. CASE ServerNotifyClient(j, ch)
  <2>1. MaySendFin(toClient, toClient', sch[j].conv)
    BY <1>2 DEF ServerNotifyClient, MaySendFin, FriendSendMessage, ChannelPacket, NewPacket
  <2>2. CASE link
    BY <1>1, <1>2, <2>1, <2>2 DEF ServerNotifyClient, RmServer
  <2>3. CASE ~link
    <3>1. sch' = [sch EXCEPT ![j] = ch] /\ toClient' = toClient
      BY <1>2, <2>3 DEF ServerNotifyClient, FriendSendMessage
    <3> QED
      BY <2>1, <3>1 DEF ServerAlone, SameBut
  <2> QED
    BY <2>2, <2>3
<1>3. CASE ServerStillSending(j, ch)
  BY <1>1, <1>3 DEF ServerStillSending, MaySendFin
<1>4. CASE ServerForceClose(j, ch)
  <2> DEFINE a == AddCloseReason(ch, "client_close")
             c == [a EXCEPT !.server_socket_close = TRUE]
  <2>1. sch' = [sch EXCEPT ![j] = c] /\ toClient' = toClient
    BY <1>4 DEF ServerForceClose
  <2>2. a \in ChannelType /\ SameBut({"close_reason"}, ch, a)
    BY AddCloseReasonType, ReaderFields DEF Reasons
  <2> HIDE DEF a
  <2>3. SameBut(ClosingFields, ch, c)
    BY <2>2 DEF SameBut, Fields, ClosingFields, ChannelType
  <2> QED
    BY <2>1, <2>3 DEF ServerAlone, MaySendFin
<1>5. CASE ServerBothClosed(j, ch)
  BY <1>1, <1>5 DEF ServerBothClosed, MaySendFin
<1>6. CASE ServerOoops(j, ch)
  BY <1>6 DEF ServerOoops, ServerAlone, MaySendFin
<1> QED
  BY <1>2, <1>3, <1>4, <1>5, <1>6 DEF ServerPromiseChannelClose

\* A drained channel that the client has not closed is finished: kcpCheckClose
\* removes it, and sends one FIN for each of them, while the link holds.
Finished(j) == KcpDrained(j) /\ ~sch[j].client_socket_close

LEMMA KcpCheckCloseEffect ==
    ASSUME TypeOK, KcpCheckClose
    PROVE  /\ \A j \in ChanIds : SameBut(ClosingFields, sch[j], sch'[j])
           /\ \A j \in ChanIds : ~KcpDrained(j) => sch'[j] = sch[j]
           /\ \E fins \in Seq(Packet) :
                /\ toClient' = toClient \o fins
                /\ \A k \in 1..Len(fins) :
                      /\ fins[k].command = CMDCLOSEFIN
                      /\ link /\ \E j \in ChanIds : Finished(j) /\ fins[k].conv = sch[j].conv
                /\ link => \A j \in ChanIds : Finished(j) =>
                      \E k \in 1..Len(fins) : fins[k].conv = sch[j].conv
<1> DEFINE drained == {j \in ChanIds : KcpDrained(j)}
           finished == {j \in drained : ~sch[j].client_socket_close}
           Marked(j) == [sch[j] EXCEPT !.server_kcp_close = TRUE]
<1> USE DEF TypeOK, ServerTypeOK, NetTypeOK
<1>1. \A j \in ChanIds : Marked(j) \in ChannelType
                         /\ SameBut({"server_kcp_close"}, sch[j], Marked(j))
  BY ZenonT(60) DEF ChannelType, SameBut, Fields
<1>2. \A j \in ChanIds :
        sch'[j] = IF j \notin drained THEN sch[j]
                  ELSE IF j \notin finished THEN AddCloseReason(Marked(j), "both_close")
                  ELSE IF link THEN AddCloseReason(Marked(j), "server_close")
                  ELSE Marked(j)
  BY DEF KcpCheckClose
<1>3. PICK order \in SetToSeqs(finished) :
        toClient' = IF link
            THEN toClient \o [k \in DOMAIN order |->
                                ChannelPacket(sch[order[k]], CMDCLOSEFIN)]
            ELSE toClient
  BY DEF KcpCheckClose
<1>4. \A j \in ChanIds : j \in finished <=> Finished(j)
  BY DEF Finished
<1>5. finished \subseteq ChanIds /\ \A j \in ChanIds : j \in drained <=> KcpDrained(j)
  OBVIOUS
<1> HIDE DEF Marked, drained, finished
<1>6. \A j \in ChanIds : /\ SameBut(ClosingFields, sch[j], sch'[j])
                         /\ ~KcpDrained(j) => sch'[j] = sch[j]
  <2> SUFFICES ASSUME NEW j \in ChanIds
               PROVE  /\ SameBut(ClosingFields, sch[j], sch'[j])
                      /\ ~KcpDrained(j) => sch'[j] = sch[j]
    OBVIOUS
  <2>1. \A r : SameBut({"close_reason"}, Marked(j), AddCloseReason(Marked(j), r))
    BY <1>1, ReaderFields
  <2>2. \A r : SameBut(ClosingFields, sch[j], AddCloseReason(Marked(j), r))
    BY <1>1, <2>1 DEF SameBut, ClosingFields
  <2>3. SameBut(ClosingFields, sch[j], Marked(j)) /\ SameBut(ClosingFields, sch[j], sch[j])
    BY <1>1 DEF SameBut, ClosingFields
  <2> QED
    BY <1>2, <1>5, <2>2, <2>3
<1>7. CASE link
  <2> DEFINE n == Cardinality(finished)
             fins == [k \in 1..n |-> ChannelPacket(sch[order[k]], CMDCLOSEFIN)]
  <2>1. IsFiniteSet(finished) /\ n \in Nat
    <3>1. IsFiniteSet(ChanIds)
      BY FS_Interval, ChannelAssumption DEF ChanIds
    <3>2. IsFiniteSet(finished)
      BY <1>5, <3>1, FS_Subset
    <3> QED
      BY <3>2, FS_CardinalityType
  <2>2. /\ order \in [1..n -> finished]
        /\ \A k, l \in 1..n : k # l => order[k] # order[l]
    BY <1>3 DEF SetToSeqs
  <2>3. toClient' = toClient \o fins
    BY <1>3, <1>7, <2>2
  <2>4. \A k \in 1..n : ChannelPacket(sch[order[k]], CMDCLOSEFIN) \in Packet
    BY <1>5, <2>2, ChannelPacketType DEF Commands
  <2>5. fins \in Seq(Packet) /\ Len(fins) = n
    BY <2>1, <2>4
  <2>6. \A k \in 1..n : fins[k].command = CMDCLOSEFIN /\ fins[k].conv = sch[order[k]].conv
    BY DEF ChannelPacket, NewPacket
  <2>7. \A j \in finished : \E k \in 1..n : order[k] = j
    <3>1. order \in Injection(1..n, finished)
      BY <2>2 DEF Injection, IsInjective
    <3>2. Cardinality(1..n) = n
      BY <2>1, FS_Interval
    <3>3. order \in Surjection(1..n, finished)
      BY <2>1, <3>1, <3>2, FS_Injection
    <3> QED
      BY <3>3 DEF Surjection
  <2> HIDE DEF n, fins
  <2>8. \A k \in 1..Len(fins) :
            \E j \in ChanIds : Finished(j) /\ fins[k].conv = sch[j].conv
    BY <1>4, <1>5, <2>2, <2>5, <2>6
  <2>9. \A j \in ChanIds : Finished(j) => \E k \in 1..Len(fins) : fins[k].conv = sch[j].conv
    BY <1>4, <2>5, <2>6, <2>7
  <2> QED
    BY <1>6, <1>7, <2>3, <2>5, <2>6, <2>8, <2>9
<1>8. CASE ~link
  <2>1. toClient' = toClient \o << >> /\ << >> \in Seq(Packet) /\ Len(<< >>) = 0
    BY <1>3, <1>8
  <2>2. \A k \in 1..Len(<< >>) : FALSE
    OBVIOUS
  <2> QED
    BY <1>6, <1>8, <2>1, <2>2
<1> QED
  BY <1>7, <1>8

-----------------------------------------------------------------------------
(***************************************************************************)
(* The invariant.                                                          *)
(***************************************************************************)
\* A SYN on the way is of a channel that was made and that no channel of the
\* server answers yet, and there is one SYN for it.
SynsOnce ==
    /\ \A k \in 1..Len(toServer) : toServer[k].command = CMDCONNSYN =>
          /\ toServer[k].chidcli \in 1..chanid0 - 1
          /\ \A j \in 1..chidsrv0 - 1 : sch[j].chidcli # toServer[k].chidcli
    /\ \A k, l \in 1..Len(toServer) :
          /\ toServer[k].command = CMDCONNSYN /\ toServer[l].command = CMDCONNSYN
          /\ toServer[k].chidcli = toServer[l].chidcli
          => k = l

\* Each server channel answers a client channel of its own.
OnePerClient ==
    /\ \A j \in 1..chidsrv0 - 1 : sch[j].chidcli \in 1..chanid0 - 1
    /\ \A j, k \in 1..chidsrv0 - 1 : sch[j].chidcli = sch[k].chidcli => j = k

\* An ACK on the way says what the server holds, of a channel that the client
\* has no ACK for, and there is one ACK for it.
AcksOnce ==
    /\ \A k \in 1..Len(toClient) : toClient[k].command = CMDCONNACK =>
          /\ toClient[k].chidsrv \in 1..chidsrv0 - 1
          /\ sch[toClient[k].chidsrv].chidcli = toClient[k].chidcli
          /\ sch[toClient[k].chidsrv].conv = toClient[k].conv
          /\ ~cch[toClient[k].chidcli].conn_ack_recved
    /\ \A k, l \in 1..Len(toClient) :
          /\ toClient[k].command = CMDCONNACK /\ toClient[l].command = CMDCONNACK
          /\ toClient[k].chidcli = toClient[l].chidcli
          => k = l

\* A channel bears its own id, and until its ACK it has no conversation, no KCP
\* and no reader.
HalfOpenIsNew ==
    \A i \in ChanIds :
        /\ cch[i].chidcli \in {0, i}
        /\ ~cch[i].conn_ack_recved =>
              /\ cch[i].conv = 0 /\ cch[i].kcp = NilKcp
              /\ cch[i].poll = "none" /\ cch[i].queued = 0 /\ cch[i].out = 0

\* After it the channel and its end at the server know each other.
ConnectedHasEnd ==
    \A i \in ChanIds : cch[i].conn_ack_recved =>
        /\ cch[i].kcp.open
        /\ cch[i].chidsrv \in 1..chidsrv0 - 1
        /\ sch[cch[i].chidsrv].chidcli = i
        /\ sch[cch[i].chidsrv].conv = cch[i].conv

\* The client's second map names the connected channels of the first.
ConvsLead ==
    /\ \A v \in Conv0 : cpool2[v] # 0 =>
          /\ cpool2[v] \in cpool
          /\ cch[cpool2[v]].conv = v /\ cch[cpool2[v]].conn_ack_recved
    /\ \A i \in cpool : cch[i].conn_ack_recved => cpool2[cch[i].conv] = i

EndsInv == /\ PoolsInv /\ SynsOnce /\ OnePerClient /\ AcksOnce
           /\ HalfOpenIsNew /\ ConnectedHasEnd /\ ConvsLead

\* Two client channels never have one conversation.
LEMMA ClientConvsOwn ==
    ASSUME EndsInv
    PROVE  \A i, k \in ChanIds :
              cch[i].conn_ack_recved =>
                /\ cch[i].conv # 0
                /\ cch[k].conv = cch[i].conv => k = i
<1> SUFFICES ASSUME NEW i \in ChanIds, NEW k \in ChanIds, cch[i].conn_ack_recved
             PROVE  cch[i].conv # 0 /\ (cch[k].conv = cch[i].conv => k = i)
  OBVIOUS
<1>1. \A j \in 1..chidsrv0 - 1 : j \in ChanIds /\ sch[j].conv # 0
  BY ChannelAssumption
     DEF EndsInv, PoolsInv, ConvsOwn, TypeOK, ServerTypeOK, ChanIds
<1>2. cch[i].conv # 0
  BY <1>1 DEF EndsInv, ConnectedHasEnd
<1>3. ASSUME cch[k].conv = cch[i].conv PROVE k = i
  <2>1. cch[k].conn_ack_recved
    BY <1>2, <1>3 DEF EndsInv, HalfOpenIsNew
  <2>2. cch[k].chidsrv = cch[i].chidsrv
    BY <1>1, <1>3, <2>1 DEF EndsInv, ConnectedHasEnd, PoolsInv, ConvsOwn
  <2> QED
    BY <2>1, <2>2 DEF EndsInv, ConnectedHasEnd
<1> QED
  BY <1>2, <1>3

-----------------------------------------------------------------------------
(***************************************************************************)
(* The steps that leave the handshake alone.                               *)
(***************************************************************************)
\* Every message of qn with this command stood in q, in the same order.
NoNew(q, qn, cmd) ==
    \E d \in Nat : \A k \in 1..Len(qn) :
        qn[k].command = cmd => k + d \in 1..Len(q) /\ qn[k] = q[k + d]

\* b is what a has become, and the handshake did not do it.
EndKept(a, b) ==
    /\ b.chidcli = a.chidcli /\ b.chidsrv = a.chidsrv /\ b.conv = a.conv
    /\ b.conn_ack_recved = a.conn_ack_recved /\ b.kcp.open = a.kcp.open
    /\ ~a.conn_ack_recved =>
          b.kcp = a.kcp /\ b.poll = a.poll /\ b.queued = a.queued /\ b.out = a.out

ClientQuiet ==
    /\ chanid0' = chanid0
    /\ \A i \in ChanIds : EndKept(cch[i], cch'[i])
    /\ \E i : ClientMayRemove(i)

ServerQuiet ==
    /\ chidsrv0' = chidsrv0
    /\ \A j \in ChanIds : sch'[j].chidcli = sch[j].chidcli /\ sch'[j].conv = sch[j].conv

NetQuiet ==
    /\ NoNew(toServer, toServer', CMDCONNSYN)
    /\ NoNew(toClient, toClient', CMDCONNACK)

\* The queue operations that bring no message of a command.
LEMMA NoNewSame ==
    ASSUME NEW q, NEW cmd
    PROVE  NoNew(q, q, cmd)
<1>1. \A k \in 1..Len(q) : k + 0 \in 1..Len(q) /\ q[k] = q[k + 0]
  OBVIOUS
<1> QED
  BY <1>1 DEF NoNew

LEMMA NoNewEmpty ==
    ASSUME NEW q, NEW cmd
    PROVE  NoNew(q, << >>, cmd)
<1>1. \A k \in 1..Len(<< >>) : k + 0 \in 1..Len(q)
  OBVIOUS
<1> QED
  BY <1>1 DEF NoNew

LEMMA NoNewTail ==
    ASSUME NEW q \in Seq(Packet), q # << >>, NEW cmd
    PROVE  NoNew(q, Tail(q), cmd)
<1>1. \A k \in 1..Len(Tail(q)) : k + 1 \in 1..Len(q) /\ Tail(q)[k] = q[k + 1]
  OBVIOUS
<1> QED
  BY <1>1 DEF NoNew

LEMMA NoNewAppend ==
    ASSUME NEW q \in Seq(Packet), NEW p \in Packet, NEW cmd, p.command # cmd
    PROVE  NoNew(q, Append(q, p), cmd)
<1>1. \A k \in 1..Len(Append(q, p)) :
          Append(q, p)[k].command = cmd =>
            k + 0 \in 1..Len(q) /\ Append(q, p)[k] = q[k + 0]
  <2>1. Len(Append(q, p)) = Len(q) + 1 /\ Append(q, p)[Len(q) + 1] = p
        /\ \A k \in 1..Len(q) : Append(q, p)[k] = q[k]
    OBVIOUS
  <2> QED
    BY <2>1
<1> QED
  BY <1>1 DEF NoNew

LEMMA NoNewConcat ==
    ASSUME NEW q \in Seq(Packet), NEW r \in Seq(Packet), NEW cmd,
           \A k \in 1..Len(r) : r[k].command # cmd
    PROVE  NoNew(q, q \o r, cmd)
<1>1. \A k \in 1..Len(q \o r) :
          (q \o r)[k].command = cmd => k + 0 \in 1..Len(q) /\ (q \o r)[k] = q[k + 0]
  <2>1. /\ Len(q \o r) = Len(q) + Len(r)
        /\ \A k \in 1..Len(q) : (q \o r)[k] = q[k]
        /\ \A k \in Len(q) + 1..Len(q) + Len(r) : (q \o r)[k] = r[k - Len(q)]
    OBVIOUS
  <2>2. \A k \in Len(q) + 1..Len(q) + Len(r) : k - Len(q) \in 1..Len(r)
    OBVIOUS
  <2> QED
    BY <2>1, <2>2
<1> QED
  BY <1>1 DEF NoNew
-----------------------------------------------------------------------------
\* Two places of one queue that came from one place are one.
LEMMA SameShift ==
    ASSUME NEW k \in Int, NEW l \in Int, NEW d \in Int, k + d = l + d
    PROVE  k = l
OBVIOUS

\* Quiet steps keep what is said about the messages, ...
LEMMA QuietKeepsMessages ==
    ASSUME EndsInv, ClientQuiet, ServerQuiet, NetQuiet, TypeOK'
    PROVE  SynsOnce' /\ AcksOnce'
<1> USE DEF EndsInv, ClientQuiet, ServerQuiet
<1>1. \A j \in 1..chidsrv0 - 1 : j \in ChanIds
  BY ChannelAssumption DEF PoolsInv, TypeOK, ServerTypeOK, ChanIds
<1>2. \A i \in 1..chanid0 - 1 : i \in ChanIds
  BY ChannelAssumption DEF PoolsInv, TypeOK, ClientTypeOK, ChanIds
<1>3. SynsOnce'
  <2> PICK d \in Nat : \A k \in 1..Len(toServer') :
          toServer'[k].command = CMDCONNSYN =>
              k + d \in 1..Len(toServer) /\ toServer'[k] = toServer[k + d]
    BY DEF NetQuiet, NoNew
  <2>1. ASSUME NEW k \in 1..Len(toServer'), toServer'[k].command = CMDCONNSYN
        PROVE  /\ toServer'[k].chidcli \in 1..chanid0' - 1
               /\ \A j \in 1..chidsrv0' - 1 : sch'[j].chidcli # toServer'[k].chidcli
    BY <1>1, <2>1 DEF SynsOnce
  <2>2. ASSUME NEW k \in 1..Len(toServer'), NEW l \in 1..Len(toServer'),
               toServer'[k].command = CMDCONNSYN, toServer'[l].command = CMDCONNSYN,
               toServer'[k].chidcli = toServer'[l].chidcli
        PROVE  k = l
    <3>1. /\ k + d \in 1..Len(toServer) /\ toServer'[k] = toServer[k + d]
          /\ l + d \in 1..Len(toServer) /\ toServer'[l] = toServer[l + d]
      BY <2>2
    <3>2. k + d = l + d
      BY <2>2, <3>1 DEF SynsOnce
    <3>3. k \in Int /\ l \in Int /\ d \in Int
      OBVIOUS
    <3> QED
      BY <3>2, <3>3, SameShift
  <2> QED
    BY <2>1, <2>2 DEF SynsOnce
<1>4. AcksOnce'
  <2> PICK d \in Nat : \A k \in 1..Len(toClient') :
          toClient'[k].command = CMDCONNACK =>
              k + d \in 1..Len(toClient) /\ toClient'[k] = toClient[k + d]
    BY DEF NetQuiet, NoNew
  <2>1. ASSUME NEW k \in 1..Len(toClient'), toClient'[k].command = CMDCONNACK
        PROVE  /\ toClient'[k].chidsrv \in 1..chidsrv0' - 1
               /\ sch'[toClient'[k].chidsrv].chidcli = toClient'[k].chidcli
               /\ sch'[toClient'[k].chidsrv].conv = toClient'[k].conv
               /\ ~cch'[toClient'[k].chidcli].conn_ack_recved
    <3> DEFINE m == toClient[k + d]
    <3>1. k + d \in 1..Len(toClient) /\ toClient'[k] = m /\ m.command = CMDCONNACK
      BY <2>1
    <3>2. /\ m.chidsrv \in 1..chidsrv0 - 1 /\ sch[m.chidsrv].chidcli = m.chidcli
          /\ sch[m.chidsrv].conv = m.conv /\ ~cch[m.chidcli].conn_ack_recved
      BY <3>1 DEF AcksOnce
    <3>3. m.chidcli \in ChanIds
      BY <1>2, <3>2 DEF OnePerClient
    <3> HIDE DEF m
    <3> QED
      BY <1>1, <3>1, <3>2, <3>3 DEF EndKept
  <2>2. ASSUME NEW k \in 1..Len(toClient'), NEW l \in 1..Len(toClient'),
               toClient'[k].command = CMDCONNACK, toClient'[l].command = CMDCONNACK,
               toClient'[k].chidcli = toClient'[l].chidcli
        PROVE  k = l
    <3>1. /\ k + d \in 1..Len(toClient) /\ toClient'[k] = toClient[k + d]
          /\ l + d \in 1..Len(toClient) /\ toClient'[l] = toClient[l + d]
      BY <2>2
    <3>2. k + d = l + d
      BY <2>2, <3>1 DEF AcksOnce
    <3>3. k \in Int /\ l \in Int /\ d \in Int
      OBVIOUS
    <3> QED
      BY <3>2, <3>3, SameShift
  <2> QED
    BY <2>1, <2>2 DEF AcksOnce
<1> QED
  BY <1>3, <1>4

\* ... about the two ends, ...
LEMMA QuietKeepsEnds ==
    ASSUME EndsInv, ClientQuiet, ServerQuiet, TypeOK'
    PROVE  OnePerClient' /\ HalfOpenIsNew' /\ ConnectedHasEnd'
<1> USE DEF EndsInv, ClientQuiet, ServerQuiet
<1>1. \A j \in 1..chidsrv0 - 1 : j \in ChanIds
  BY ChannelAssumption DEF PoolsInv, TypeOK, ServerTypeOK, ChanIds
<1>2. OnePerClient'
  BY <1>1 DEF OnePerClient
<1>3. HalfOpenIsNew'
  BY DEF HalfOpenIsNew, EndKept
<1>4. ConnectedHasEnd'
  BY <1>1 DEF ConnectedHasEnd, EndKept
<1> QED
  BY <1>2, <1>3, <1>4

\* ... and about the client's maps.
LEMMA QuietKeepsMaps ==
    ASSUME EndsInv, ClientQuiet
    PROVE  ConvsLead'
<1> USE DEF EndsInv, PoolsInv, TypeOK, ClientTypeOK
<1>1. \A k \in ChanIds : /\ cch'[k].conv = cch[k].conv
                          /\ cch'[k].conn_ack_recved = cch[k].conn_ack_recved
  BY DEF ClientQuiet, EndKept
<1> PICK i : ClientMayRemove(i)
  BY DEF ClientQuiet
<1>2. CASE UNCHANGED <<cpool, cpool2>>
  <2>1. \A v \in Conv0 : cpool2[v] # 0 => cpool2[v] \in ChanIds
    OBVIOUS
  <2> QED
    BY <1>1, <1>2, <2>1 DEF ConvsLead
<1>3. CASE /\ i \in cpool /\ cpool' = cpool \ {i}
           /\ cpool2' = [cpool2 EXCEPT ![cch[i].conv] = 0]
  <2>1. i \in ChanIds /\ \A k \in ChanIds : cch[k].conv \in Conv0
    BY <1>3 DEF ChannelType
  <2>2. ASSUME NEW v \in Conv0, cpool2'[v] # 0
        PROVE  /\ cpool2'[v] \in cpool'
               /\ cch'[cpool2'[v]].conv = v /\ cch'[cpool2'[v]].conn_ack_recved
    <3>1. v # cch[i].conv /\ cpool2'[v] = cpool2[v]
      BY <1>3, <2>1, <2>2
    <3>2. cpool2[v] \in cpool /\ cch[cpool2[v]].conv = v /\ cch[cpool2[v]].conn_ack_recved
      BY <2>2, <3>1 DEF ConvsLead
    <3> QED
      BY <1>1, <1>3, <3>1, <3>2
  <2>3. ASSUME NEW k \in cpool', cch'[k].conn_ack_recved
        PROVE  cpool2'[cch'[k].conv] = k
    <3>1. k \in cpool /\ k # i /\ k \in ChanIds
      BY <1>3
    <3>2. cpool2[cch[k].conv] = k
      BY <1>1, <2>3, <3>1 DEF ConvsLead
    <3>3. cch[i].conv # cch[k].conv
      BY <1>1, <2>1, <2>3, <3>1, ClientConvsOwn
    <3> QED
      BY <1>1, <1>3, <2>1, <3>1, <3>2, <3>3
  <2> QED
    BY <2>2, <2>3 DEF ConvsLead
<1> QED
  BY <1>2, <1>3 DEF ClientMayRemove
-----------------------------------------------------------------------------
(***************************************************************************)
(* The three steps of the handshake.                                       *)
(***************************************************************************)
EndsParts == /\ SynsOnce /\ OnePerClient /\ AcksOnce
             /\ HalfOpenIsNew /\ ConnectedHasEnd /\ ConvsLead

\* initConnChanel makes a half-open channel with an id of its own, and one SYN.
LEMMA InitConnChanelEnds ==
    ASSUME EndsInv, NEW c \in Conns, InitConnChanel(c), UNCHANGED serverVars
    PROVE  EndsParts'
<1> USE DEF EndsInv, PoolsInv
<1> DEFINE i0 == chanid0
           ch == NewChannelClient(i0, c)
           syn == ChannelPacket(ch, CMDCONNSYN)
<1>0. i0 \in ChanIds /\ i0 \in Nat /\ ChanIds \subseteq Nat
  BY ChannelAssumption DEF InitConnChanel, TypeOK, ClientTypeOK, ChanIds
<1>1. /\ chanid0' = i0 + 1 /\ cch' = [cch EXCEPT ![i0] = ch] /\ toClient' = toClient
      /\ toServer' = Append(toServer, syn) \/ toServer' = toServer
      /\ cpool2' = cpool2 /\ cpool \subseteq cpool' /\ cpool' \subseteq cpool \cup {i0}
  <2>1. CASE link
    BY <2>1 DEF InitConnChanel, FriendSendMessage
  <2>2. CASE ~link
    BY <2>2 DEF InitConnChanel, SynFailed, FriendSendMessage
  <2> QED
    BY <2>1, <2>2
<1>2. /\ ch.chidcli = i0 /\ ~ch.conn_ack_recved /\ ch.conv = 0 /\ ch.kcp = NilKcp
      /\ ch.poll = "none" /\ ch.queued = 0 /\ ch.out = 0
  BY DEF NewChannelClient, ZeroChannel
<1>3. syn.command = CMDCONNSYN /\ syn.chidcli = i0
  BY <1>2 DEF ChannelPacket, NewPacket
<1> HIDE DEF ch, syn
<1>4. /\ cch'[i0] = ch /\ \A k \in ChanIds : k # i0 => cch'[k] = cch[k]
      /\ chidsrv0' = chidsrv0 /\ sch' = sch
  BY <1>0, <1>1 DEF TypeOK, ClientTypeOK, serverVars
<1>5. \A i \in 1..i0 - 1 : i \in 1..chanid0' - 1 /\ i # i0 /\ i \in ChanIds
  BY <1>0, <1>1, ChannelAssumption DEF ChanIds
<1>6. OnePerClient'
  BY <1>4, <1>5 DEF OnePerClient
<1>7. SynsOnce'
  <2>1. CASE toServer' = toServer
    BY <1>4, <1>5, <2>1 DEF SynsOnce
  <2>2. CASE toServer' = Append(toServer, syn)
    <3>1. /\ Len(toServer') = Len(toServer) + 1 /\ Len(toServer) \in Nat
          /\ toServer'[Len(toServer) + 1] = syn
          /\ \A k \in 1..Len(toServer) : toServer'[k] = toServer[k]
      BY <2>2 DEF TypeOK, NetTypeOK
    <3>2. \A k \in 1..Len(toServer') : k \in 1..Len(toServer) \/ k = Len(toServer) + 1
      BY <3>1
    <3>3. \A k \in 1..Len(toServer) :
            toServer[k].command = CMDCONNSYN => toServer'[k].chidcli \in 1..i0 - 1
      BY <3>1 DEF SynsOnce
    <3>4. \A j \in 1..chidsrv0 - 1 : sch[j].chidcli \in 1..i0 - 1
      BY DEF OnePerClient
    <3>5. ASSUME NEW k \in 1..Len(toServer'), toServer'[k].command = CMDCONNSYN
          PROVE  /\ toServer'[k].chidcli \in 1..chanid0' - 1
                 /\ \A j \in 1..chidsrv0' - 1 : sch'[j].chidcli # toServer'[k].chidcli
      <4>1. CASE k \in 1..Len(toServer)
        BY <1>4, <1>5, <3>1, <3>5, <4>1 DEF SynsOnce
      <4>2. CASE k = Len(toServer) + 1
        <5>1. toServer'[k].chidcli = i0 /\ i0 \in 1..chanid0' - 1
          BY <1>0, <1>1, <1>3, <3>1, <4>2 DEF ChanIds
        <5>2. \A j \in 1..chidsrv0 - 1 : sch[j].chidcli # i0
          BY <1>5, <3>4
        <5> QED
          BY <1>4, <5>1, <5>2
      <4> QED
        BY <3>2, <4>1, <4>2
    <3>6. ASSUME NEW k \in 1..Len(toServer'), NEW l \in 1..Len(toServer'),
                 toServer'[k].command = CMDCONNSYN, toServer'[l].command = CMDCONNSYN,
                 toServer'[k].chidcli = toServer'[l].chidcli
          PROVE  k = l
      <4>1. CASE k \in 1..Len(toServer) /\ l \in 1..Len(toServer)
        BY <3>1, <3>6, <4>1 DEF SynsOnce
      <4>2. CASE k \in 1..Len(toServer) /\ l = Len(toServer) + 1
        BY <1>3, <1>5, <3>1, <3>3, <3>6, <4>2
      <4>3. CASE k = Len(toServer) + 1 /\ l \in 1..Len(toServer)
        BY <1>3, <1>5, <3>1, <3>3, <3>6, <4>3
      <4> QED
        BY <3>2, <4>1, <4>2, <4>3
    <3> QED
      BY <3>5, <3>6 DEF SynsOnce
  <2> QED
    BY <1>0, <1>1, <2>1, <2>2
<1>8. AcksOnce'
  <2>1. \A k \in 1..Len(toClient) : toClient[k].command = CMDCONNACK =>
            toClient[k].chidcli \in 1..i0 - 1
    BY DEF AcksOnce, OnePerClient
  <2>2. \A k \in 1..Len(toClient) : toClient[k].command = CMDCONNACK =>
            cch'[toClient[k].chidcli] = cch[toClient[k].chidcli]
    BY <1>4, <1>5, <2>1
  <2> QED
    BY <1>0, <1>1, <1>4, <2>2 DEF AcksOnce
<1>9. HalfOpenIsNew' /\ ConnectedHasEnd'
  BY <1>2, <1>4 DEF HalfOpenIsNew, ConnectedHasEnd
<1>10. ConvsLead'
  <2>1. cpool \subseteq ChanIds
    BY DEF TypeOK, ClientTypeOK
  <2>2. ~cch[i0].conn_ack_recved
    <3>1. \A j \in 1..chidsrv0 - 1 : sch[j].chidcli # i0
      BY <1>5 DEF OnePerClient
    <3> QED
      BY <1>0, <3>1 DEF ConnectedHasEnd
  <2>3. \A v \in Conv0 : cpool2[v] # 0 => cpool2[v] # i0
    BY <2>2 DEF ConvsLead
  <2>4. \A v \in Conv0 : cpool2'[v] # 0 =>
          /\ cpool2'[v] \in cpool'
          /\ cch'[cpool2'[v]].conv = v /\ cch'[cpool2'[v]].conn_ack_recved
    BY <1>1, <1>4, <2>1, <2>3 DEF ConvsLead
  <2>5. \A i \in cpool' : cch'[i].conn_ack_recved => cpool2'[cch'[i].conv] = i
    BY <1>1, <1>2, <1>4, <2>1 DEF ConvsLead
  <2> QED
    BY <2>4, <2>5 DEF ConvsLead
<1> QED
  BY <1>6, <1>7, <1>8, <1>9, <1>10 DEF EndsParts
\* What connect_syn does, with the conversation it chose.
LEMMA ServerRecvSynEffect ==
    ASSUME PoolsInv, ServerRecvSyn
    PROVE  \E v, ch :
              /\ v \in MakeKcpConv
              /\ chidsrv0 \in ChanIds /\ chidsrv0' = chidsrv0 + 1
              /\ sch' = [sch EXCEPT ![chidsrv0] = ch]
              /\ ch.conv = v /\ ch.chidcli = Head(toServer).chidcli
              /\ ch.chidsrv = chidsrv0 /\ ch.kcp = NewKCP /\ ch.out = 0
              /\ ch.poll = "dial" /\ ch.close_reason = << >>
              /\ ~ch.server_socket_close /\ ~ch.client_socket_close
              /\ spool' = spool \cup {chidsrv0}
              /\ toServer' = Tail(toServer)
              /\ toClient' = Append(toClient, ChannelPacket(ch, CMDCONNACK))
<1> USE DEF PoolsInv, TypeOK, ServerTypeOK
<1> DEFINE Ch(v) == [NewChannelWithId(chidsrv0, Head(toServer).chidcli) EXCEPT
                        !.conv = v, !.kcp = NewKCP, !.poll = "dial"]
<1>1. chidsrv0 \in ChanIds /\ chidsrv0' = chidsrv0 + 1 /\ toServer' = Tail(toServer)
  BY ChannelAssumption DEF ServerRecvSyn, ChanIds
<1>2. PICK v \in MakeKcpConv :
        /\ sch' = [sch EXCEPT ![chidsrv0] = Ch(v)]
        /\ spool' = spool \cup {chidsrv0}
        /\ toClient' = Append(toClient, ChannelPacket(Ch(v), CMDCONNACK))
  BY DEF ServerRecvSyn, FriendSendMessage
<1>3. /\ Ch(v).conv = v /\ Ch(v).chidcli = Head(toServer).chidcli
      /\ Ch(v).chidsrv = chidsrv0 /\ Ch(v).kcp = NewKCP /\ Ch(v).out = 0
      /\ Ch(v).poll = "dial" /\ Ch(v).close_reason = << >>
      /\ ~Ch(v).server_socket_close /\ ~Ch(v).client_socket_close
  BY DEF NewChannelWithId, ZeroChannel
<1> HIDE DEF Ch
<1> QED
  BY <1>1, <1>2, <1>3

\* connect_syn takes the SYN and answers with the one ACK for its channel.
LEMMA ServerRecvSynEnds ==
    ASSUME EndsInv, ServerRecvSyn, UNCHANGED clientVars
    PROVE  EndsParts'
<1> USE DEF EndsInv, PoolsInv
<1>1. PICK v, ch :
              /\ v \in MakeKcpConv
              /\ chidsrv0 \in ChanIds /\ chidsrv0' = chidsrv0 + 1
              /\ sch' = [sch EXCEPT ![chidsrv0] = ch]
              /\ ch.conv = v /\ ch.chidcli = Head(toServer).chidcli
              /\ ch.chidsrv = chidsrv0
              /\ toServer' = Tail(toServer)
              /\ toClient' = Append(toClient, ChannelPacket(ch, CMDCONNACK))
  BY ServerRecvSynEffect
<1> DEFINE j0 == chidsrv0
           syn == Head(toServer)
           ack == ChannelPacket(ch, CMDCONNACK)
           i == syn.chidcli
<1>2. /\ toServer # << >> /\ syn.command = CMDCONNSYN /\ syn = toServer[1]
      /\ 1 \in 1..Len(toServer)
  BY DEF ServerRecvSyn, TypeOK, NetTypeOK
<1>3. /\ ack.command = CMDCONNACK /\ ack.chidcli = i /\ ack.chidsrv = j0 /\ ack.conv = ch.conv
  BY <1>1 DEF ChannelPacket, NewPacket
<1>4. /\ j0 \in Nat /\ chidsrv0' = j0 + 1 /\ sch'[j0] = ch
      /\ \A k \in ChanIds : k # j0 => sch'[k] = sch[k]
      /\ chanid0' = chanid0 /\ cch' = cch /\ cpool' = cpool /\ cpool2' = cpool2
  BY <1>1, ChannelAssumption DEF TypeOK, ServerTypeOK, clientVars, ChanIds
<1>5. \A j \in 1..j0 - 1 : j \in 1..j0' - 1 /\ j # j0 /\ j \in ChanIds /\ sch'[j] = sch[j]
  BY <1>1, <1>4, ChannelAssumption DEF ChanIds
<1>6. \A j \in 1..j0' - 1 : j \in 1..j0 - 1 \/ j = j0
  BY <1>4
<1>7. /\ i \in 1..chanid0 - 1 /\ \A j \in 1..j0 - 1 : sch[j].chidcli # i
  BY <1>2 DEF SynsOnce
<1>8. i \in ChanIds /\ ~cch[i].conn_ack_recved
  <2>1. i \in ChanIds
    BY <1>7, ChannelAssumption DEF TypeOK, ClientTypeOK, ChanIds
  <2> QED
    BY <1>7, <2>1 DEF ConnectedHasEnd
<1> HIDE DEF syn, ack, i
<1>9. OnePerClient'
  <2>1. \A j \in 1..j0' - 1 : sch'[j].chidcli \in 1..chanid0' - 1
    BY <1>1, <1>4, <1>5, <1>6, <1>7 DEF OnePerClient, i, syn
  <2>2. \A j, k \in 1..j0' - 1 : sch'[j].chidcli = sch'[k].chidcli => j = k
    BY <1>1, <1>4, <1>5, <1>6, <1>7 DEF OnePerClient, i, syn
  <2> QED
    BY <2>1, <2>2 DEF OnePerClient
<1>10. SynsOnce'
  <2>1. /\ Len(toServer) \in Nat /\ Len(toServer') = Len(toServer) - 1
        /\ \A k \in 1..Len(toServer') : k + 1 \in 1..Len(toServer) /\ toServer'[k] = toServer[k + 1]
    BY <1>1, <1>2 DEF TypeOK, NetTypeOK
  <2>2. ASSUME NEW k \in 1..Len(toServer'), toServer'[k].command = CMDCONNSYN
        PROVE  /\ toServer'[k].chidcli \in 1..chanid0' - 1
               /\ \A j \in 1..chidsrv0' - 1 : sch'[j].chidcli # toServer'[k].chidcli
    <3> DEFINE m == toServer[k + 1]
    <3>1. k + 1 \in 1..Len(toServer) /\ m.command = CMDCONNSYN /\ toServer'[k] = m /\ k + 1 # 1
      BY <2>1, <2>2
    <3>2. /\ m.chidcli \in 1..chanid0 - 1
          /\ \A j \in 1..j0 - 1 : sch[j].chidcli # m.chidcli
      BY <3>1 DEF SynsOnce
    <3>3. m.chidcli # i
      BY <1>2, <3>1 DEF SynsOnce, i
    <3> HIDE DEF m
    <3> QED
      BY <1>1, <1>4, <1>5, <1>6, <3>1, <3>2, <3>3 DEF i, syn
  <2>3. ASSUME NEW k \in 1..Len(toServer'), NEW l \in 1..Len(toServer'),
               toServer'[k].command = CMDCONNSYN, toServer'[l].command = CMDCONNSYN,
               toServer'[k].chidcli = toServer'[l].chidcli
        PROVE  k = l
    <3>1. k + 1 = l + 1
      BY <2>1, <2>3 DEF SynsOnce
    <3>2. k \in Int /\ l \in Int /\ 1 \in Int
      OBVIOUS
    <3> QED
      BY <3>1, <3>2, SameShift
  <2> QED
    BY <2>2, <2>3 DEF SynsOnce
<1>11. AcksOnce'
  <2> DEFINE n == Len(toClient)
  <2>1. /\ n \in Nat /\ Len(toClient') = n + 1 /\ toClient'[n + 1] = ack
        /\ \A k \in 1..n : toClient'[k] = toClient[k]
    BY <1>1 DEF TypeOK, NetTypeOK, ack
  <2>2. \A k \in 1..Len(toClient') : k \in 1..n \/ k = n + 1
    BY <2>1
  <2> HIDE DEF n
  <2>3. ASSUME NEW k \in 1..n, toClient[k].command = CMDCONNACK
        PROVE  /\ toClient'[k].chidsrv \in 1..chidsrv0' - 1
               /\ sch'[toClient'[k].chidsrv].chidcli = toClient'[k].chidcli
               /\ sch'[toClient'[k].chidsrv].conv = toClient'[k].conv
               /\ ~cch'[toClient'[k].chidcli].conn_ack_recved
               /\ toClient'[k].chidcli # i
    BY <1>4, <1>5, <1>7, <2>1, <2>3 DEF AcksOnce, n
  <2>4. ASSUME NEW k \in 1..Len(toClient'), toClient'[k].command = CMDCONNACK
        PROVE  /\ toClient'[k].chidsrv \in 1..chidsrv0' - 1
               /\ sch'[toClient'[k].chidsrv].chidcli = toClient'[k].chidcli
               /\ sch'[toClient'[k].chidsrv].conv = toClient'[k].conv
               /\ ~cch'[toClient'[k].chidcli].conn_ack_recved
    <3>1. CASE k \in 1..n
      BY <2>1, <2>3, <2>4, <3>1
    <3>2. CASE k = n + 1
      <4>1. toClient'[k] = ack /\ j0 \in 1..chidsrv0' - 1
        BY <1>1, <1>4, <2>1, <3>2 DEF ChanIds
      <4>2. sch'[j0].chidcli = i /\ sch'[j0].conv = ack.conv
        BY <1>1, <1>3, <1>4 DEF i, syn
      <4> QED
        BY <1>3, <1>4, <1>8, <4>1, <4>2
    <3> QED
      BY <2>2, <3>1, <3>2
  <2>5. ASSUME NEW k \in 1..Len(toClient'), NEW l \in 1..Len(toClient'),
               toClient'[k].command = CMDCONNACK, toClient'[l].command = CMDCONNACK,
               toClient'[k].chidcli = toClient'[l].chidcli
        PROVE  k = l
    <3>1. CASE k \in 1..n /\ l \in 1..n
      BY <2>1, <2>5, <3>1 DEF AcksOnce, n
    <3>2. CASE k \in 1..n /\ l = n + 1
      BY <1>3, <2>1, <2>3, <2>5, <3>2
    <3>3. CASE k = n + 1 /\ l \in 1..n
      BY <1>3, <2>1, <2>3, <2>5, <3>3
    <3> QED
      BY <2>2, <3>1, <3>2, <3>3
  <2> QED
    BY <2>4, <2>5 DEF AcksOnce
<1>12. HalfOpenIsNew' /\ ConnectedHasEnd' /\ ConvsLead'
  BY <1>4, <1>5 DEF HalfOpenIsNew, ConnectedHasEnd, ConvsLead
<1> QED
  BY <1>9, <1>10, <1>11, <1>12 DEF EndsParts

\* connect_ack connects a half-open channel with the end that answered it.
LEMMA ClientRecvAckEnds ==
    ASSUME EndsInv, ClientRecvAck, Head(toClient).chidcli \in cpool, UNCHANGED serverVars
    PROVE  EndsParts'
<1> USE DEF EndsInv, PoolsInv
<1> DEFINE ack == Head(toClient)
           i == ack.chidcli
           j == ack.chidsrv
           ch == [cch[i] EXCEPT !.conv = ack.conv, !.chidsrv = ack.chidsrv,
                      !.kcp = NewKCP, !.conn_ack_recved = TRUE, !.poll = "reading"]
<1>1. /\ toClient # << >> /\ ack.command = CMDCONNACK /\ ack = toClient[1]
      /\ 1 \in 1..Len(toClient) /\ ack \in Packet
  BY DEF ClientRecvAck, TypeOK, NetTypeOK
<1>2. /\ toClient' = Tail(toClient) /\ toServer' = toServer /\ chanid0' = chanid0
      /\ cch' = [cch EXCEPT ![i] = ch]
      /\ cpool2' = [cpool2 EXCEPT ![ack.conv] = i] /\ cpool' = cpool
      /\ chidsrv0' = chidsrv0 /\ sch' = sch
  BY DEF ClientRecvAck, AckConnects, serverVars
<1>3. /\ j \in 1..chidsrv0 - 1 /\ sch[j].chidcli = i /\ sch[j].conv = ack.conv
      /\ ~cch[i].conn_ack_recved /\ i \in ChanIds /\ cch[i] \in ChannelType
      /\ ack.conv \in Conv0
  BY <1>1 DEF AcksOnce, TypeOK, ClientTypeOK, Packet
<1>4. /\ ch.conv = ack.conv /\ ch.chidsrv = j /\ ch.kcp = NewKCP /\ ch.conn_ack_recved
      /\ ch.chidcli = cch[i].chidcli
  BY <1>3 DEF ChannelType
<1>5. NewKCP.open
  BY DEF NewKCP, NilKcp
<1> HIDE DEF ch
<1>6. cch'[i] = ch /\ \A k \in ChanIds : k # i => cch'[k] = cch[k]
  BY <1>2, <1>3 DEF TypeOK, ClientTypeOK
<1>7. j \in ChanIds /\ sch[j].conv # 0
  BY <1>3, ChannelAssumption DEF ConvsOwn, TypeOK, ServerTypeOK, ChanIds
<1> HIDE DEF ack, i, j
<1>8. SynsOnce' /\ OnePerClient'
  BY <1>2 DEF SynsOnce, OnePerClient
<1>9. AcksOnce'
  <2>1. /\ Len(toClient) \in Nat /\ Len(toClient') = Len(toClient) - 1
        /\ \A k \in 1..Len(toClient') : k + 1 \in 1..Len(toClient) /\ toClient'[k] = toClient[k + 1]
    BY <1>1, <1>2 DEF TypeOK, NetTypeOK
  <2>2. ASSUME NEW k \in 1..Len(toClient'), toClient'[k].command = CMDCONNACK
        PROVE  /\ toClient'[k].chidsrv \in 1..chidsrv0' - 1
               /\ sch'[toClient'[k].chidsrv].chidcli = toClient'[k].chidcli
               /\ sch'[toClient'[k].chidsrv].conv = toClient'[k].conv
               /\ ~cch'[toClient'[k].chidcli].conn_ack_recved
    <3> DEFINE m == toClient[k + 1]
    <3>1. k + 1 \in 1..Len(toClient) /\ m.command = CMDCONNACK /\ toClient'[k] = m /\ k + 1 # 1
      BY <2>1, <2>2
    <3>2. /\ m.chidsrv \in 1..chidsrv0 - 1 /\ sch[m.chidsrv].chidcli = m.chidcli
          /\ sch[m.chidsrv].conv = m.conv /\ ~cch[m.chidcli].conn_ack_recved
      BY <3>1 DEF AcksOnce
    <3>3. m.chidcli # i
      BY <1>1, <3>1 DEF AcksOnce, i
    <3>4. m.chidcli \in ChanIds
      BY <3>2, ChannelAssumption DEF OnePerClient, TypeOK, ClientTypeOK, ChanIds
    <3> HIDE DEF m
    <3> QED
      BY <1>2, <1>6, <3>1, <3>2, <3>3, <3>4
  <2>3. ASSUME NEW k \in 1..Len(toClient'), NEW l \in 1..Len(toClient'),
               toClient'[k].command = CMDCONNACK, toClient'[l].command = CMDCONNACK,
               toClient'[k].chidcli = toClient'[l].chidcli
        PROVE  k = l
    <3>1. k + 1 = l + 1
      BY <2>1, <2>3 DEF AcksOnce
    <3>2. k \in Int /\ l \in Int /\ 1 \in Int
      OBVIOUS
    <3> QED
      BY <3>1, <3>2, SameShift
  <2> QED
    BY <2>2, <2>3 DEF AcksOnce
<1>10. HalfOpenIsNew'
  BY <1>3, <1>4, <1>6 DEF HalfOpenIsNew
<1>11. ConnectedHasEnd'
  BY <1>2, <1>3, <1>4, <1>5, <1>6 DEF ConnectedHasEnd
<1>12. ConvsLead'
  <2>1. cpool \subseteq ChanIds /\ cpool2 \in [Conv0 -> ChanIds \cup {0}]
    BY DEF TypeOK, ClientTypeOK
  <2>2. i \in cpool
    BY DEF i, ack
  <2>3. \A w \in Conv0 : cpool2[w] # 0 => cpool2[w] # i
    BY <1>3 DEF ConvsLead
  <2>4. \A w \in Conv0 : cpool2'[w] # 0 =>
          /\ cpool2'[w] \in cpool'
          /\ cch'[cpool2'[w]].conv = w /\ cch'[cpool2'[w]].conn_ack_recved
    BY <1>2, <1>3, <1>4, <1>6, <2>1, <2>2, <2>3 DEF ConvsLead
  <2>5. ASSUME NEW k \in cpool', cch'[k].conn_ack_recved
        PROVE  cpool2'[cch'[k].conv] = k
    <3>1. CASE k = i
      BY <1>2, <1>3, <1>4, <1>6, <2>1, <3>1
    <3>2. CASE k # i
      <4>1. k \in cpool /\ k \in ChanIds /\ cch'[k] = cch[k]
        BY <1>2, <1>6, <2>1, <3>2
      <4>2. cpool2[cch[k].conv] = k /\ cch[k].conv \in Conv0
        BY <2>5, <4>1 DEF ConvsLead, TypeOK, ClientTypeOK, ChannelType
      <4>3. cch[k].conv # ack.conv
        <5>1. /\ cch[k].chidsrv \in 1..chidsrv0 - 1 /\ sch[cch[k].chidsrv].chidcli = k
              /\ sch[cch[k].chidsrv].conv = cch[k].conv
          BY <2>5, <4>1 DEF ConnectedHasEnd
        <5>2. cch[k].chidsrv \in ChanIds
          BY <5>1, ChannelAssumption DEF TypeOK, ServerTypeOK, ChanIds
        <5> QED
          BY <1>3, <1>7, <3>2, <5>1, <5>2 DEF ConvsOwn
      <4> QED
        BY <1>2, <2>1, <4>1, <4>2, <4>3
    <3> QED
      BY <3>1, <3>2
  <2> QED
    BY <2>4, <2>5 DEF ConvsLead
<1> QED
  BY <1>8, <1>9, <1>10, <1>11, <1>12 DEF EndsParts
-----------------------------------------------------------------------------
(***************************************************************************)
(* Every other step is quiet.                                              *)
(***************************************************************************)
\* A channel that only its reader, its events or a promise have changed is the
\* end it was, and so is a connected one that its KCP has changed.
LEMMA KeptBy ==
    ASSUME NEW a, NEW b
    PROVE  /\ EndKept(a, a)
           /\ SameBut(ClosingFields, a, b) => EndKept(a, b)
           /\ a.conn_ack_recved /\ SameBut(ReadersFields \cup ClosingFields, a, b)
                => EndKept(a, b)
           /\ a.conn_ack_recved /\ SameBut({"kcp", "out", "queued"}, a, b)
                /\ b.kcp.open = a.kcp.open => EndKept(a, b)
<1>1. EndKept(a, a)
  BY DEF EndKept
<1>2. SameBut(ClosingFields, a, b) => EndKept(a, b)
  BY DEF EndKept, SameBut, Fields, ClosingFields
<1>3. ASSUME a.conn_ack_recved, SameBut(ReadersFields \cup ClosingFields, a, b)
      PROVE  EndKept(a, b)
  BY <1>3 DEF EndKept, SameBut, Fields, ClosingFields, ReadersFields
<1>4. ASSUME a.conn_ack_recved, b.kcp.open = a.kcp.open,
             SameBut({"kcp", "out", "queued"}, a, b)
      PROVE  EndKept(a, b)
  BY <1>4 DEF EndKept, SameBut, Fields
<1> QED
  BY <1>1, <1>2, <1>3, <1>4

\* The KCP operations leave a KCP open.
LEMMA KcpStaysOpen ==
    ASSUME NEW k \in KcpState, NEW p
    PROVE  /\ KcpSend(k).open = k.open /\ KcpRecv(k).open = k.open
           /\ KcpInput(k, p).open = k.open
BY DEF KcpSend, KcpRecv, KcpInput, KcpState

\* A change of channel i alone.
LEMMA AloneQuiet ==
    ASSUME NEW i, ClientAlone(i), i \in ChanIds => EndKept(cch[i], cch'[i]),
           chanid0' = chanid0, ClientMayRemove(i)
    PROVE  ClientQuiet
BY KeptBy DEF ClientQuiet, ClientAlone

\* No message sent or taken.
LEMMA SameMessagesQuiet ==
    ASSUME UNCHANGED msgVars
    PROVE  NetQuiet
BY NoNewSame DEF NetQuiet, msgVars

\* A FIN is neither a SYN nor an ACK.
LEMMA MaySendFinQuiet ==
    ASSUME NEW q \in Seq(Packet), NEW qn \in Seq(Packet), NEW v, MaySendFin(q, qn, v)
    PROVE  NoNew(q, qn, CMDCONNSYN) /\ NoNew(q, qn, CMDCONNACK)
<1>1. CASE qn = q
  BY <1>1, NoNewSame
<1>2. ASSUME NEW p, p.command = CMDCLOSEFIN, qn = Append(q, p)
      PROVE  NoNew(q, qn, CMDCONNSYN) /\ NoNew(q, qn, CMDCONNACK)
  <2>1. p \in Packet
    <3>1. Len(qn) = Len(q) + 1 /\ qn[Len(q) + 1] = p /\ Len(q) + 1 \in 1..Len(qn)
      BY <1>2
    <3> QED
      BY <3>1
  <2>2. p.command # CMDCONNSYN /\ p.command # CMDCONNACK
    BY <1>2 DEF CMDCLOSEFIN, CMDCONNSYN, CMDCONNACK
  <2> QED
    BY <1>2, <2>1, <2>2, NoNewAppend
<1> QED
  BY <1>1, <1>2 DEF MaySendFin

\* The client's goroutines and applications.
LEMMA ClientOutsideQuiet ==
    ASSUME EndsInv, ClientOutside
    PROVE  ClientQuiet /\ NetQuiet
<1>1. CASE \E c \in Conns : Accept(c) \/ AppClose(c)
  <2>1. UNCHANGED <<cch, chanid0, cpool, cpool2, msgVars>>
    BY <1>1 DEF Accept, AppClose, netVars, msgVars
  <2>2. ClientMayRemove(0)
    BY <2>1 DEF ClientMayRemove
  <2> QED
    BY <2>1, <2>2, KeptBy, SameMessagesQuiet DEF ClientQuiet
<1>2. ASSUME NEW i \in ChanIds,
             \/ ClientPollRead(i) \/ ClientPollQueue(i)
             \/ ClientPollEnd(i) \/ ClientPollPost(i)
      PROVE  ClientQuiet /\ NetQuiet
  <2>1. /\ ClientAlone(i) /\ SameBut(ReadersFields, cch[i], cch'[i])
        /\ cch[i].poll \in {"reading", "holding", "post"}
        /\ UNCHANGED <<chanid0, cpool, cpool2, netVars>>
    BY <1>2, ClientReaderEffect DEF EndsInv, PoolsInv
  <2>2. cch[i].conn_ack_recved
    BY <2>1 DEF EndsInv, HalfOpenIsNew
  <2>3. SameBut(ReadersFields \cup ClosingFields, cch[i], cch'[i])
    BY <2>1 DEF SameBut
  <2>4. ClientMayRemove(i) /\ UNCHANGED msgVars
    BY <2>1 DEF ClientMayRemove, netVars, msgVars
  <2> QED
    BY <2>1, <2>2, <2>3, <2>4, KeptBy, AloneQuiet, SameMessagesQuiet
<1> QED
  BY <1>1, <1>2 DEF ClientOutside

\* The client's handlers, the handshake apart.
LEMMA ClientLoopQuiet ==
    ASSUME EndsInv, ClientLoop, \A c \in Conns : ~InitConnChanel(c),
           ~(ClientRecvAck /\ Head(toClient).chidcli \in cpool)
    PROVE  ClientQuiet /\ NetQuiet
<1>0. /\ TypeOK /\ \A i \in ChanIds : cch[i] \in ChannelType
      /\ toServer \in Seq(Packet) /\ toClient \in Seq(Packet)
      /\ \A i \in ChanIds : cch[i].chidcli \in {0, i}
  BY DEF EndsInv, PoolsInv, TypeOK, ClientTypeOK, NetTypeOK, HalfOpenIsNew
<1>1. ASSUME NEW i \in ChanIds, ClientCheckACKRecved(i)
      PROVE  ClientQuiet /\ NetQuiet
  <2>1. chanid0' = chanid0 /\ UNCHANGED msgVars
    BY <1>1 DEF ClientCheckACKRecved, netVars, msgVars
  <2>2. CASE cch[i].conn_ack_recved
    <3>1. UNCHANGED <<cch, cpool, cpool2>>
      BY <1>1, <2>2 DEF ClientCheckACKRecved
    <3>2. ClientMayRemove(i)
      BY <3>1 DEF ClientMayRemove
    <3> QED
      BY <2>1, <3>1, <3>2, KeptBy, SameMessagesQuiet DEF ClientQuiet
  <2>3. CASE ~cch[i].conn_ack_recved
    <3> DEFINE c == AddCloseReason(cch[i], "connect_timeout")
    <3>1. cch' = [cch EXCEPT ![i] = c] /\ RmClient(c)
      BY <1>1, <2>3 DEF ClientCheckACKRecved, AckTimeout
    <3>2. SameBut({"close_reason"}, cch[i], c)
      BY <1>0, ReaderFields
    <3> HIDE DEF c
    <3>3. c.chidcli = cch[i].chidcli /\ c.conv = cch[i].conv /\ EndKept(cch[i], c)
      BY <3>2, KeptBy DEF SameBut, Fields, ClosingFields
    <3>4. ClientMayRemove(i)
      <4>1. \/ UNCHANGED <<cpool, cpool2>>
            \/ /\ c.chidcli \in cpool /\ cpool' = cpool \ {c.chidcli}
               /\ cpool2' = [cpool2 EXCEPT ![c.conv] = 0]
        BY <3>1 DEF RmClient
      <4>2. 0 \notin cpool
        BY <1>0 DEF TypeOK, ClientTypeOK, ChanIds
      <4> QED
        BY <1>0, <3>3, <4>1, <4>2 DEF ClientMayRemove
    <3>5. ClientAlone(i) /\ cch'[i] = c
      BY <1>0, <3>1 DEF ClientAlone, TypeOK, ClientTypeOK
    <3> QED
      BY <2>1, <3>3, <3>4, <3>5, AloneQuiet, SameMessagesQuiet
  <2> QED
    BY <2>2, <2>3
<1>2. ASSUME NEW i \in ChanIds, ProcessClientReadyRead(i)
      PROVE  ClientQuiet /\ NetQuiet
  <2>1. /\ ClientAlone(i) /\ SameBut({"queued", "kcp"}, cch[i], cch'[i])
        /\ cch'[i].kcp = KcpSend(cch[i].kcp) /\ cch[i].queued > 0
        /\ UNCHANGED <<chanid0, cpool, cpool2, netVars>>
    BY <1>0, <1>2, ReadyReadEffect
  <2>2. cch[i].conn_ack_recved
    BY <2>1 DEF EndsInv, HalfOpenIsNew
  <2>3. SameBut({"kcp", "out", "queued"}, cch[i], cch'[i])
    BY <2>1 DEF SameBut
  <2>4. cch'[i].kcp.open = cch[i].kcp.open
    BY <1>0, <2>1, KcpStaysOpen DEF ChannelType
  <2>5. ClientMayRemove(i) /\ UNCHANGED msgVars
    BY <2>1 DEF ClientMayRemove, netVars, msgVars
  <2> QED
    BY <2>1, <2>2, <2>3, <2>4, <2>5, KeptBy, AloneQuiet, SameMessagesQuiet
<1>3. ASSUME NEW i \in ChanIds, ClientClose(i)
      PROVE  ClientQuiet /\ NetQuiet
  <2> DEFINE ch == [cch[i] EXCEPT !.poll = "done"]
  <2>1. /\ ClientPromiseChannelClose(i, ch) /\ chanid0' = chanid0 /\ toClient' = toClient
        /\ cch[i].poll = "posted"
    BY <1>3 DEF ClientClose
  <2>2. ch \in ChannelType /\ SameBut({"poll"}, cch[i], ch)
    BY <1>0, PollType, ReaderFields DEF PollStates
  <2> HIDE DEF ch
  <2>3. ch.chidcli = cch[i].chidcli /\ ch.conv = cch[i].conv
    BY <2>2 DEF SameBut, Fields
  <2>4. /\ ClientAlone(i) /\ ClientMayRemove(i)
        /\ cch'[i] = cch[i] \/ SameBut(ClosingFields, ch, cch'[i])
        /\ MaySendFin(toServer, toServer', cch[i].conv)
    BY <1>0, <2>1, <2>2, <2>3, ClientPromiseEffect
  <2>5. cch[i].conn_ack_recved
    BY <2>1 DEF EndsInv, HalfOpenIsNew
  <2>6. EndKept(cch[i], cch'[i])
    <3>1. SameBut(ClosingFields, ch, cch'[i]) =>
            SameBut(ReadersFields \cup ClosingFields, cch[i], cch'[i])
      BY <2>2 DEF SameBut, ReadersFields, ClosingFields
    <3> QED
      BY <2>4, <2>5, <3>1, KeptBy
  <2>7. NetQuiet
    <3>1. toServer' \in Seq(Packet)
      BY <1>0, <2>1, <2>2, ClientPromiseType DEF TypeOK
    <3> QED
      BY <1>0, <2>1, <2>4, <3>1, MaySendFinQuiet, NoNewSame DEF NetQuiet
  <2> QED
    BY <2>1, <2>4, <2>6, <2>7, AloneQuiet
<1>4. CASE ClientServeKcp
  <2>1. \A i \in ChanIds : Served(cch[i], cch'[i])
    BY <1>0, <1>4, ServeKcpEffect
  <2>2. chanid0' = chanid0 /\ UNCHANGED <<cpool, cpool2, msgVars>>
    BY <1>4 DEF ClientServeKcp
  <2>3. ASSUME NEW i \in ChanIds PROVE EndKept(cch[i], cch'[i])
    <3>1. CASE cch'[i] = cch[i]
      BY <3>1, KeptBy
    <3>2. CASE /\ SameBut({"kcp", "out"}, cch[i], cch'[i])
               /\ cch'[i].kcp = KcpRecv(cch[i].kcp) /\ cch[i].kcp.open
      <4>1. cch[i].conn_ack_recved
        BY <3>2 DEF EndsInv, HalfOpenIsNew, NilKcp
      <4>2. SameBut({"kcp", "out", "queued"}, cch[i], cch'[i])
        BY <3>2 DEF SameBut
      <4>3. cch'[i].kcp.open = cch[i].kcp.open
        BY <1>0, <3>2, KcpStaysOpen DEF ChannelType
      <4> QED
        BY <4>1, <4>2, <4>3, KeptBy
    <3> QED
      BY <2>1, <3>1, <3>2 DEF Served
  <2>4. ClientMayRemove(0)
    BY <2>2 DEF ClientMayRemove
  <2> QED
    BY <2>2, <2>3, <2>4, SameMessagesQuiet DEF ClientQuiet
<1>5. CASE ClientRecvAck
  <2> DEFINE ack == Head(toClient)
             fin == NewPacket(CMDCLOSEFIN, ack.chidcli, ack.chidsrv, ack.conv)
  <2>1. /\ UNCHANGED <<cch, cpool, cpool2, chanid0>> /\ toClient' = Tail(toClient)
        /\ toClient # << >> /\ toServer' = Append(toServer, fin)
    BY <1>5 DEF ClientRecvAck, AnswerLateAck, FriendSendMessage
  <2>2. fin \in Packet /\ fin.command # CMDCONNSYN
    <3>1. ack \in Packet
      BY <1>0, <2>1
    <3> QED
      BY <3>1 DEF NewPacket, Packet, Commands, CMDCLOSEFIN, CMDCONNSYN
  <2> HIDE DEF fin
  <2>3. NetQuiet
    BY <1>0, <2>1, <2>2, NoNewTail, NoNewAppend DEF NetQuiet
  <2>4. ClientMayRemove(0)
    BY <2>1 DEF ClientMayRemove
  <2> QED
    BY <2>1, <2>3, <2>4, KeptBy DEF ClientQuiet
<1>6. CASE ClientRecvFin
  <2> DEFINE i == cpool2[Head(toClient).conv]
             ch == [cch[i] EXCEPT !.server_socket_close = TRUE]
  <2>1. /\ toClient' = Tail(toClient) /\ toClient # << >> /\ chanid0' = chanid0
    BY <1>6 DEF ClientRecvFin
  <2>2. NoNew(toClient, toClient', CMDCONNACK)
    BY <1>0, <2>1, NoNewTail
  <2>3. CASE i = 0
    <3>1. UNCHANGED <<cch, cpool, cpool2, toServer>>
      BY <1>6, <2>3 DEF ClientRecvFin
    <3>2. ClientMayRemove(0)
      BY <3>1 DEF ClientMayRemove
    <3> QED
      BY <2>1, <2>2, <3>1, <3>2, KeptBy, NoNewSame DEF ClientQuiet, NetQuiet
  <2>4. CASE i # 0
    <3>1. ClientPromiseChannelClose(i, ch)
      BY <1>6, <2>4 DEF ClientRecvFin
    <3>2. i \in ChanIds
      <4>1. Head(toClient) \in Packet
        BY <1>0, <2>1
      <4> QED
        BY <1>0, <2>4, <4>1 DEF Packet, TypeOK, ClientTypeOK
    <3>3. ch \in ChannelType /\ SameBut({"server_socket_close"}, cch[i], ch)
      BY <1>0, <3>2 DEF ChannelType, SameBut, Fields
    <3> HIDE DEF ch, i
    <3>4. ch.chidcli = cch[i].chidcli /\ ch.conv = cch[i].conv
      BY <3>3 DEF SameBut, Fields
    <3>5. /\ ClientAlone(i) /\ ClientMayRemove(i)
          /\ cch'[i] = cch[i] \/ SameBut(ClosingFields, ch, cch'[i])
          /\ MaySendFin(toServer, toServer', cch[i].conv)
      BY <1>0, <3>1, <3>2, <3>3, <3>4, ClientPromiseEffect
    <3>6. EndKept(cch[i], cch'[i])
      <4>1. SameBut(ClosingFields, ch, cch'[i]) => SameBut(ClosingFields, cch[i], cch'[i])
        BY <3>3 DEF SameBut, ClosingFields
      <4> QED
        BY <3>5, <4>1, KeptBy
    <3>7. toServer' \in Seq(Packet)
      BY <1>0, <3>1, <3>2, <3>3, ClientPromiseType DEF TypeOK
    <3>8. NoNew(toServer, toServer', CMDCONNSYN)
      BY <1>0, <3>5, <3>7, MaySendFinQuiet
    <3> QED
      BY <2>1, <2>2, <3>5, <3>6, <3>8, AloneQuiet DEF NetQuiet
  <2> QED
    BY <2>3, <2>4
<1>7. ASSUME NEW p \in lossyS, ClientRecvLossy(p)
      PROVE  ClientQuiet /\ NetQuiet
  <2> DEFINE i == cpool2[p.conv]
             ch == [cch[i] EXCEPT !.kcp = KcpInput(cch[i].kcp, p)]
  <2>1. UNCHANGED <<chanid0, cpool, cpool2, toClient>>
    BY <1>7 DEF ClientRecvLossy
  <2>2. p.conv \in Conv0 /\ p \in KcpPacket
    BY <1>0 DEF TypeOK, NetTypeOK, KcpPacket
  <2>3. CASE i = 0
    <3>1. cch' = cch /\ (toServer' = toServer \/ toServer' = Append(toServer, BrokenFIN(p.conv)))
      BY <1>7, <2>3 DEF ClientRecvLossy, FriendSendMessage
    <3>2. BrokenFIN(p.conv) \in Packet /\ BrokenFIN(p.conv).command # CMDCONNSYN
      BY <2>2 DEF BrokenFIN, NewPacket, Packet, Commands, CMDCLOSEFIN, CMDCONNSYN
    <3>3. NetQuiet
      BY <1>0, <2>1, <3>1, <3>2, NoNewSame, NoNewAppend DEF NetQuiet
    <3>4. ClientMayRemove(0)
      BY <2>1 DEF ClientMayRemove
    <3> QED
      BY <2>1, <3>1, <3>3, <3>4, KeptBy DEF ClientQuiet
  <2>4. CASE i # 0
    <3>1. cch' = [cch EXCEPT ![i] = ch] /\ toServer' = toServer
      BY <1>7, <2>4 DEF ClientRecvLossy
    <3>2. i \in ChanIds /\ cch[i].conn_ack_recved
      BY <1>0, <2>2, <2>4 DEF TypeOK, ClientTypeOK, EndsInv, ConvsLead
    <3>3. SameBut({"kcp"}, cch[i], ch) /\ ch.kcp = KcpInput(cch[i].kcp, p)
      BY <1>0, <3>2 DEF ChannelType, SameBut, Fields
    <3> HIDE DEF ch, i
    <3>4. ClientAlone(i) /\ cch'[i] = ch
      BY <1>0, <3>1, <3>2 DEF ClientAlone, TypeOK, ClientTypeOK
    <3>5. EndKept(cch[i], cch'[i])
      <4>1. SameBut({"kcp", "out", "queued"}, cch[i], ch)
        BY <3>3 DEF SameBut
      <4>2. ch.kcp.open = cch[i].kcp.open
        BY <1>0, <3>2, <3>3, KcpStaysOpen DEF ChannelType
      <4> QED
        BY <3>2, <3>4, <4>1, <4>2, KeptBy
    <3>6. ClientMayRemove(i) /\ UNCHANGED msgVars
      BY <2>1, <3>1 DEF ClientMayRemove, msgVars
    <3> QED
      BY <2>1, <3>4, <3>5, <3>6, AloneQuiet, SameMessagesQuiet
  <2> QED
    BY <2>3, <2>4
<1> QED
  BY <1>1, <1>2, <1>3, <1>4, <1>5, <1>6, <1>7 DEF ClientLoop
\* A change of channel j of the server that keeps its partner and conversation.
LEMMA ServerAloneQuiet ==
    ASSUME NEW j, ServerAlone(j), chidsrv0' = chidsrv0, NEW F,
           {"chidcli", "conv"} \cap F = {},
           j \in ChanIds => SameBut(F, sch[j], sch'[j])
    PROVE  ServerQuiet
<1>1. {"chidcli", "conv"} \subseteq Fields \ F
  BY DEF Fields
<1> QED
  BY <1>1 DEF ServerQuiet, ServerAlone, SameBut

\* The server's goroutines and backends.
LEMMA ServerOutsideQuiet ==
    ASSUME EndsInv, ServerOutside
    PROVE  ServerQuiet /\ NetQuiet
<1> PICK j \in ChanIds : \/ ServerDial(j) \/ ServerDialFails(j) \/ BackendClose(j)
                         \/ ServerPollRead(j) \/ ServerPollQueue(j)
                         \/ ServerPollEnd(j) \/ ServerPollPost(j)
  BY DEF ServerOutside
<1>1. CASE ServerDialFails(j) \/ BackendClose(j)
  <2>1. UNCHANGED <<sch, chidsrv0, msgVars>>
    BY <1>1 DEF ServerDialFails, BackendClose, netVars, msgVars
  <2> QED
    BY <2>1, SameMessagesQuiet DEF ServerQuiet
<1>2. CASE \/ ServerDial(j) \/ ServerPollRead(j) \/ ServerPollQueue(j)
           \/ ServerPollEnd(j) \/ ServerPollPost(j)
  <2>1. /\ ServerAlone(j) /\ SameBut(ReadersFields, sch[j], sch'[j])
        /\ UNCHANGED <<chidsrv0, netVars>>
    BY <1>2, ServerReaderEffect DEF EndsInv, PoolsInv
  <2>2. {"chidcli", "conv"} \cap ReadersFields = {}
    BY DEF ReadersFields
  <2> QED
    BY <2>1, <2>2, ServerAloneQuiet, SameMessagesQuiet DEF netVars, msgVars
<1> QED
  BY <1>1, <1>2

\* The server's handlers, connect_syn apart.
LEMMA ServerLoopQuiet ==
    ASSUME EndsInv, ServerLoop, ~ServerRecvSyn
    PROVE  ServerQuiet /\ NetQuiet
<1>0. /\ TypeOK /\ \A j \in ChanIds : sch[j] \in ChannelType
      /\ toServer \in Seq(Packet) /\ toClient \in Seq(Packet)
  BY DEF EndsInv, PoolsInv, TypeOK, ServerTypeOK, NetTypeOK
<1>10. {"chidcli", "conv"} \cap (ClosingFields \cup {"poll"}) = {}
  BY DEF ClosingFields
<1>1. ASSUME NEW j \in ChanIds, ProcessServerReadyRead(j)
      PROVE  ServerQuiet /\ NetQuiet
  <2>1. /\ ServerAlone(j) /\ SameBut({"queued", "kcp"}, sch[j], sch'[j])
        /\ UNCHANGED <<chidsrv0, netVars>>
    BY <1>0, <1>1, ReadyReadEffect
  <2>2. {"chidcli", "conv"} \cap {"queued", "kcp"} = {}
    OBVIOUS
  <2> QED
    BY <2>1, <2>2, ServerAloneQuiet, SameMessagesQuiet DEF netVars, msgVars
<1>2. ASSUME NEW j \in ChanIds, ServerClose(j)
      PROVE  ServerQuiet /\ NetQuiet
  <2> DEFINE ch == [sch[j] EXCEPT !.poll = "done"]
  <2>1. /\ ServerPromiseChannelClose(j, ch) /\ chidsrv0' = chidsrv0 /\ toServer' = toServer
    BY <1>2 DEF ServerClose
  <2>2. ch \in ChannelType /\ SameBut({"poll"}, sch[j], ch)
    BY <1>0, PollType, ReaderFields DEF PollStates
  <2> HIDE DEF ch
  <2>3. ch.conv = sch[j].conv
    BY <2>2 DEF SameBut, Fields
  <2>4. /\ ServerAlone(j)
        /\ sch'[j] = sch[j] \/ SameBut(ClosingFields, ch, sch'[j])
        /\ MaySendFin(toClient, toClient', sch[j].conv)
    BY <1>0, <2>1, <2>2, <2>3, ServerPromiseEffect
  <2>5. SameBut(ClosingFields \cup {"poll"}, sch[j], sch'[j])
    BY <2>2, <2>4 DEF SameBut
  <2>6. toClient' \in Seq(Packet)
    BY <1>0, <2>1, <2>2, ServerPromiseType DEF TypeOK
  <2>7. NetQuiet
    BY <1>0, <2>1, <2>4, <2>6, MaySendFinQuiet, NoNewSame DEF NetQuiet
  <2> QED
    BY <1>10, <2>1, <2>4, <2>5, <2>7, ServerAloneQuiet
<1>3. ASSUME NEW S \in SUBSET spool, ServerServeKcp(S)
      PROVE  ServerQuiet /\ NetQuiet
  <2>1. \A j \in ChanIds : Served(sch[j], sch'[j])
    BY <1>0, <1>3, ServeKcpEffect
  <2>2. chidsrv0' = chidsrv0 /\ UNCHANGED msgVars
    BY <1>3 DEF ServerServeKcp
  <2>3. \A j \in ChanIds : sch'[j].chidcli = sch[j].chidcli /\ sch'[j].conv = sch[j].conv
    BY <2>1 DEF Served, SameBut, Fields
  <2> QED
    BY <2>2, <2>3, SameMessagesQuiet DEF ServerQuiet
<1>4. CASE KcpCheckClose
  <2>1. /\ \A j \in ChanIds : SameBut(ClosingFields, sch[j], sch'[j])
        /\ \E fins \in Seq(Packet) :
             /\ toClient' = toClient \o fins
             /\ \A k \in 1..Len(fins) : fins[k].command = CMDCLOSEFIN
    BY <1>0, <1>4, KcpCheckCloseEffect
  <2>2. chidsrv0' = chidsrv0 /\ toServer' = toServer
    BY <1>4 DEF KcpCheckClose
  <2>3. \A j \in ChanIds : sch'[j].chidcli = sch[j].chidcli /\ sch'[j].conv = sch[j].conv
    BY <2>1 DEF SameBut, Fields, ClosingFields
  <2>4. CMDCLOSEFIN # CMDCONNACK
    BY DEF CMDCLOSEFIN, CMDCONNACK
  <2>5. NetQuiet
    BY <1>0, <2>1, <2>2, <2>4, NoNewSame, NoNewConcat DEF NetQuiet
  <2> QED
    BY <2>2, <2>3, <2>5 DEF ServerQuiet
<1>5. CASE ServerRecvFin
  <2> DEFINE j == spool2[Head(toServer).conv]
             ch == [sch[j] EXCEPT !.client_socket_close = TRUE]
  <2>1. /\ toServer' = Tail(toServer) /\ toServer # << >> /\ chidsrv0' = chidsrv0
    BY <1>5 DEF ServerRecvFin
  <2>2. NoNew(toServer, toServer', CMDCONNSYN)
    BY <1>0, <2>1, NoNewTail
  <2>3. CASE j = 0
    <3>1. UNCHANGED <<sch, toClient>>
      BY <1>5, <2>3 DEF ServerRecvFin
    <3> QED
      BY <2>1, <2>2, <3>1, NoNewSame DEF ServerQuiet, NetQuiet
  <2>4. CASE j # 0
    <3>1. ServerPromiseChannelClose(j, ch)
      BY <1>5, <2>4 DEF ServerRecvFin
    <3>2. j \in ChanIds
      <4>1. Head(toServer) \in Packet
        BY <1>0, <2>1
      <4> QED
        BY <1>0, <2>4, <4>1 DEF Packet, TypeOK, ServerTypeOK
    <3>3. ch \in ChannelType /\ SameBut({"client_socket_close"}, sch[j], ch)
      BY ZenonT(60), <1>0, <3>2 DEF ChannelType, SameBut, Fields
    <3> HIDE DEF ch, j
    <3>4. ch.conv = sch[j].conv
      BY <3>3 DEF SameBut, Fields
    <3>5. /\ ServerAlone(j)
          /\ sch'[j] = sch[j] \/ SameBut(ClosingFields, ch, sch'[j])
          /\ MaySendFin(toClient, toClient', sch[j].conv)
      BY <1>0, <3>1, <3>2, <3>3, <3>4, ServerPromiseEffect
    <3>6. SameBut(ClosingFields \cup {"poll"}, sch[j], sch'[j])
      BY <3>3, <3>5 DEF SameBut, ClosingFields
    <3>7. toClient' \in Seq(Packet)
      BY <1>0, <3>1, <3>2, <3>3, ServerPromiseType DEF TypeOK
    <3>8. NoNew(toClient, toClient', CMDCONNACK)
      BY <1>0, <3>5, <3>7, MaySendFinQuiet
    <3> QED
      BY <1>10, <2>1, <2>2, <3>5, <3>6, <3>8, ServerAloneQuiet DEF NetQuiet
  <2> QED
    BY <2>3, <2>4
<1>6. ASSUME NEW p \in lossyC, ServerRecvLossy(p)
      PROVE  ServerQuiet /\ NetQuiet
  <2> DEFINE j == spool2[p.conv]
             ch == [sch[j] EXCEPT !.kcp = KcpInput(sch[j].kcp, p)]
  <2>1. sch' = [sch EXCEPT ![j] = ch] /\ UNCHANGED <<chidsrv0, netVars>>
    BY <1>6 DEF ServerRecvLossy
  <2>2. j \in ChanIds
    BY <1>0, <1>6 DEF ServerRecvLossy, TypeOK, NetTypeOK, KcpPacket, ServerTypeOK
  <2>3. SameBut({"kcp"}, sch[j], ch)
    BY <1>0, <2>2 DEF ChannelType, SameBut, Fields
  <2> HIDE DEF ch, j
  <2>4. ServerAlone(j) /\ sch'[j] = ch
    BY <1>0, <2>1, <2>2 DEF ServerAlone, TypeOK, ServerTypeOK
  <2>5. {"chidcli", "conv"} \cap {"kcp"} = {}
    OBVIOUS
  <2> QED
    BY <2>1, <2>3, <2>4, <2>5, ServerAloneQuiet, SameMessagesQuiet DEF netVars, msgVars
<1> QED
  BY <1>1, <1>2, <1>3, <1>4, <1>5, <1>6 DEF ServerLoop

-----------------------------------------------------------------------------
\* The pools are empty and the queues too at the start, ...
LEMMA EndsInit == Init => EndsInv
<1> SUFFICES ASSUME Init PROVE EndsInv
  OBVIOUS
<1>1. PoolsInv
  BY PoolsInit
<1>2. /\ chanid0 = 1 /\ chidsrv0 = 1 /\ cch = [i \in ChanIds |-> ZeroChannel]
      /\ cpool = {} /\ cpool2 = [v \in Conv0 |-> 0] /\ toServer = << >> /\ toClient = << >>
  BY DEF Init, NetInit, ClientInit, ServerInit
<1>3. SynsOnce /\ AcksOnce
  <2>1. \A k \in 1..Len(<< >>) : FALSE
    OBVIOUS
  <2> QED
    BY <1>2, <2>1 DEF SynsOnce, AcksOnce
<1>4. OnePerClient
  BY <1>2 DEF OnePerClient
<1>5. HalfOpenIsNew /\ ConnectedHasEnd /\ ConvsLead
  BY <1>2 DEF HalfOpenIsNew, ConnectedHasEnd, ConvsLead, ZeroChannel
<1> QED
  BY <1>1, <1>3, <1>4, <1>5 DEF EndsInv

\* ... and every step keeps the two ends of each connection together.
LEMMA EndsStep == EndsInv /\ [Next]_vars => EndsInv'
<1> SUFFICES ASSUME EndsInv, [Next]_vars PROVE EndsInv'
  OBVIOUS
<1>1. PoolsInv' /\ TypeOK'
  BY PoolsStep DEF EndsInv, PoolsInv
<1>2. ASSUME ClientQuiet, ServerQuiet, NetQuiet
      PROVE  EndsInv'
  BY <1>1, <1>2, QuietKeepsMessages, QuietKeepsEnds, QuietKeepsMaps DEF EndsInv
<1>3. UNCHANGED serverVars => ServerQuiet
  BY DEF serverVars, ServerQuiet
<1>4. UNCHANGED clientVars => ClientQuiet
  <2> SUFFICES ASSUME UNCHANGED clientVars PROVE ClientQuiet
    OBVIOUS
  <2>1. ClientMayRemove(0) /\ cch' = cch /\ chanid0' = chanid0
    BY DEF clientVars, ClientMayRemove
  <2> QED
    BY <2>1, KeptBy DEF ClientQuiet
<1>5. CASE (ClientLoop \/ ClientOutside) /\ UNCHANGED serverVars
  <2>1. CASE \E c \in Conns : InitConnChanel(c)
    BY <1>1, <1>5, <2>1, InitConnChanelEnds DEF EndsInv, EndsParts
  <2>2. CASE ClientRecvAck /\ Head(toClient).chidcli \in cpool
    BY <1>1, <1>5, <2>2, ClientRecvAckEnds DEF EndsInv, EndsParts
  <2>3. CASE /\ ClientLoop /\ \A c \in Conns : ~InitConnChanel(c)
             /\ ~(ClientRecvAck /\ Head(toClient).chidcli \in cpool)
    BY <1>2, <1>3, <1>5, <2>3, ClientLoopQuiet
  <2>4. CASE ClientOutside
    BY <1>2, <1>3, <1>5, <2>4, ClientOutsideQuiet
  <2> QED
    BY <1>5, <2>1, <2>2, <2>3, <2>4
<1>6. CASE (ServerLoop \/ ServerOutside) /\ UNCHANGED clientVars
  <2>1. CASE ServerRecvSyn
    BY <1>1, <1>6, <2>1, ServerRecvSynEnds DEF EndsInv, EndsParts
  <2>2. CASE ServerLoop /\ ~ServerRecvSyn
    BY <1>2, <1>4, <1>6, <2>2, ServerLoopQuiet
  <2>3. CASE ServerOutside
    BY <1>2, <1>4, <1>6, <2>3, ServerOutsideQuiet
  <2> QED
    BY <1>6, <2>1, <2>2, <2>3
<1>7. CASE (LinkDown \/ LinkUp) /\ UNCHANGED <<clientVars, serverVars>>
  <2>1. NetQuiet
    BY <1>7, NoNewEmpty, NoNewSame DEF LinkDown, LinkUp, NetQuiet, msgVars
  <2> QED
    BY <1>2, <1>3, <1>4, <1>7, <2>1
<1>8. CASE UNCHANGED vars
  <2>1. UNCHANGED clientVars /\ UNCHANGED serverVars /\ UNCHANGED msgVars
    BY <1>8 DEF vars, netVars, msgVars
  <2> QED
    BY <1>2, <1>3, <1>4, <2>1, SameMessagesQuiet
<1> QED
  BY <1>5, <1>6, <1>7, <1>8 DEF Next

\* Two channel objects that share a conversation are the two ends of one
\* connection, in every reachable state: data and FINs, which find their channel
\* by conv alone, never reach a stranger, whatever attempts were repeated,
\* given up or answered late.
THEOREM EndsBelongTogether == Spec => []EndsAgree
<1>1. ASSUME EndsInv PROVE EndsAgree
  <2> SUFFICES ASSUME NEW i \in ChanIds, cch[i].conn_ack_recved
               PROVE  LET j == cch[i].chidsrv IN
                      /\ j \in ChanIds
                      /\ sch[j].chidcli = i /\ sch[j].conv = cch[i].conv
                      /\ \A k \in ChanIds \ {i} : cch[k].conv # cch[i].conv
    BY DEF EndsAgree
  <2>1. /\ cch[i].chidsrv \in 1..chidsrv0 - 1
        /\ sch[cch[i].chidsrv].chidcli = i
        /\ sch[cch[i].chidsrv].conv = cch[i].conv
    BY <1>1 DEF EndsInv, ConnectedHasEnd
  <2>2. cch[i].chidsrv \in ChanIds
    BY <1>1, <2>1, ChannelAssumption DEF EndsInv, PoolsInv, TypeOK, ServerTypeOK, ChanIds
  <2>3. \A k \in ChanIds \ {i} : cch[k].conv # cch[i].conv
    BY <1>1, ClientConvsOwn
  <2> QED
    BY <2>1, <2>2, <2>3
<1>2. EndsInv => EndsAgree
  BY <1>1
<1> QED
  BY EndsInit, EndsStep, <1>2, PTL DEF Spec

\* The client's two maps agree in every reachable state: a connected channel is
\* found by its conv exactly as long as serveKcp finds it by id, although ACKs
\* enter it in one map, attempts in the other, and rmClient deletes by hand.
THEOREM ClientPoolsInStep == Spec => []ClientPoolsAgree
<1>1. EndsInv => ClientPoolsAgree
  <2> SUFFICES ASSUME EndsInv PROVE ClientPoolsAgree
    OBVIOUS
  <2>1. \A i \in ChanIds : cch[i].kcp.open => cch[i].conn_ack_recved
    BY DEF EndsInv, HalfOpenIsNew, NilKcp
  <2>2. cpool \subseteq ChanIds
    BY DEF EndsInv, PoolsInv, TypeOK, ClientTypeOK
  <2> QED
    BY <2>1, <2>2 DEF EndsInv, ConvsLead, ClientPoolsAgree
<1> QED
  BY EndsInit, EndsStep, <1>1, PTL DEF Spec

-----------------------------------------------------------------------------
(***************************************************************************)
(* The data of a connection.                                               *)
(***************************************************************************)

\* b's messages as a has them: received in order up to rcv, read up to read.
Flow(a, b) == a.read <= a.rcv /\ a.rcv <= b.snd /\ b.una <= a.rcv

\* What channels s and c, the two ends of one connection, have exchanged.
Exchanged(s, c) ==
    /\ Flow(s.kcp, c.kcp) /\ s.out <= s.kcp.read
    /\ Flow(c.kcp, s.kcp) /\ c.out <= c.kcp.read

\* The packets of P for conversation v number and acknowledge no more than the
\* KCP that sent them has sent and received.
TruePackets(P, v, kcp) ==
    \A p \in P : p.conv = v => p.sn <= kcp.snd /\ p.una <= kcp.rcv

\* Each server channel that was made has exchanged messages with the channel of
\* the client it answered, and with no other.
DataFlows ==
    \A j \in 1..chidsrv0 - 1 :
        /\ Exchanged(sch[j], cch[sch[j].chidcli])
        /\ TruePackets(lossyS, sch[j].conv, sch[j].kcp)
        /\ TruePackets(lossyC, sch[j].conv, cch[sch[j].chidcli].kcp)

\* No packet is of a conversation that is yet to come, so what a conversation
\* inherits from earlier ones is nothing.
NoEarlyPackets ==
    \A p \in lossyS \cup lossyC : \E j \in 1..chidsrv0 - 1 : sch[j].conv = p.conv

DataInv == EndsInv /\ DataFlows /\ NoEarlyPackets

\* b is a after it sent messages or read some it had received.
Goes(a, b) ==
    /\ b.kcp.rcv = a.kcp.rcv /\ b.kcp.una = a.kcp.una /\ a.kcp.snd <= b.kcp.snd
    /\ a.kcp.read <= a.kcp.rcv => b.kcp.read <= b.kcp.rcv
    /\ a.out <= a.kcp.read => b.out <= b.kcp.read

\* The packets of Pn were in P or one of the channels flushed them.
FlushedBy(P, Pn, chs) ==
    \A p \in Pn : p \in P \/
        \E k \in ChanIds : chs[k].conv # 0 /\ p \in KcpFlush(chs[k].kcp, chs[k].conv)

-----------------------------------------------------------------------------
\* Two ends that sent more, or read some of what they had, still have exchanged
\* what they say.
LEMMA ExchangedGoes ==
    ASSUME NEW s, NEW t, NEW c, NEW d,
           s.kcp \in KcpState, t.kcp \in KcpState,
           c.kcp \in KcpState, d.kcp \in KcpState,
           Exchanged(s, c), Goes(s, t), Goes(c, d)
    PROVE  /\ s.kcp.snd <= t.kcp.snd /\ s.kcp.rcv <= t.kcp.rcv
           /\ c.kcp.snd <= d.kcp.snd /\ c.kcp.rcv <= d.kcp.rcv
           /\ Exchanged(t, d)
<1>1. t.out <= t.kcp.read /\ d.out <= d.kcp.read
  BY Zenon DEF Exchanged, Goes
<1>2. Flow(t.kcp, d.kcp)
  BY DEF Exchanged, Flow, Goes, KcpState
<1>3. Flow(d.kcp, t.kcp)
  BY DEF Exchanged, Flow, Goes, KcpState
<1>4. /\ s.kcp.snd <= t.kcp.snd /\ s.kcp.rcv <= t.kcp.rcv
      /\ c.kcp.snd <= d.kcp.snd /\ c.kcp.rcv <= d.kcp.rcv
  BY DEF Goes, KcpState
<1> QED
  BY <1>1, <1>2, <1>3, <1>4, Zenon DEF Exchanged

\* The ids a made server channel names are ids of channels.
LEMMA MadeIds ==
    ASSUME EndsInv
    PROVE  /\ \A j \in 1..chidsrv0 - 1 :
                /\ j \in ChanIds /\ sch[j].conv # 0 /\ sch[j] \in ChannelType
                /\ sch[j].chidcli \in 1..chanid0 - 1
                /\ sch[j].chidcli \in ChanIds /\ cch[sch[j].chidcli] \in ChannelType
           /\ \A j \in ChanIds : sch[j].conv # 0 => j \in 1..chidsrv0 - 1
           /\ \A i \in 1..chanid0 - 1 : i \in ChanIds
<1> USE DEF EndsInv, PoolsInv, TypeOK, ServerTypeOK, ClientTypeOK
<1>1. \A j \in 1..chidsrv0 - 1 : j \in ChanIds /\ sch[j].conv # 0
  BY ChannelAssumption DEF ConvsOwn, ChanIds
<1>2. \A i \in 1..chanid0 - 1 : i \in ChanIds
  BY ChannelAssumption DEF ChanIds
<1>3. \A j \in ChanIds : sch[j].conv # 0 => j \in 1..chidsrv0 - 1
  BY ChannelAssumption DEF ConvsOwn, ChanIds
<1> QED
  BY <1>1, <1>2, <1>3 DEF OnePerClient

\* What a flush sends tells the truth about its KCP.
LEMMA KcpFlushTrue ==
    ASSUME NEW k \in KcpState, NEW v, NEW p \in KcpFlush(k, v)
    PROVE  p.conv = v /\ p.sn <= k.snd /\ p.una <= k.rcv
BY DEF KcpFlush, KcpState

\* Packets stay true while their sender goes on.
LEMMA TruePacketsStay ==
    ASSUME NEW P \in SUBSET KcpPacket, NEW v, NEW a \in KcpState, NEW b \in KcpState,
           TruePackets(P, v, a), a.snd <= b.snd, a.rcv <= b.rcv
    PROVE  TruePackets(P, v, b)
BY DEF TruePackets, KcpPacket, KcpState

\* Sending, reading and flushing keep the exchange; so does an ACK, which gives
\* its channel an empty KCP in place of none, and an attempt, which makes a
\* channel that no server channel answers.
LEMMA GoingOnKeepsData ==
    ASSUME DataInv, TypeOK', ServerQuiet,
           \A i \in 1..chanid0 - 1 : Goes(cch[i], cch'[i]),
           \A j \in 1..chidsrv0 - 1 : Goes(sch[j], sch'[j]),
           FlushedBy(lossyS, lossyS', sch), FlushedBy(lossyC, lossyC', cch)
    PROVE  DataFlows' /\ NoEarlyPackets'
<1> USE DEF DataInv, ServerQuiet
<1>1. \A j \in 1..chidsrv0 - 1 :
        /\ j \in ChanIds /\ sch[j].conv # 0 /\ sch[j] \in ChannelType
        /\ sch[j].chidcli \in 1..chanid0 - 1
        /\ sch[j].chidcli \in ChanIds /\ cch[sch[j].chidcli] \in ChannelType
        /\ sch'[j] \in ChannelType /\ cch'[sch[j].chidcli] \in ChannelType
  BY MadeIds DEF TypeOK, ClientTypeOK, ServerTypeOK
<1>2. \A k \in ChanIds : sch[k].conv # 0 => k \in 1..chidsrv0 - 1
  BY MadeIds
<1>3. \A k \in ChanIds : cch[k].conv # 0 =>
        \E j \in 1..chidsrv0 - 1 : sch[j].conv = cch[k].conv /\ sch[j].chidcli = k
  BY DEF EndsInv, HalfOpenIsNew, ConnectedHasEnd
<1>4. \A j, k \in 1..chidsrv0 - 1 : sch[j].conv = sch[k].conv => j = k
  BY <1>1 DEF EndsInv, PoolsInv, ConvsOwn
<1>5. \A k \in ChanIds : sch[k].kcp \in KcpState /\ cch[k].kcp \in KcpState
  BY DEF EndsInv, PoolsInv, TypeOK, ClientTypeOK, ServerTypeOK, ChannelType
<1>6. NoEarlyPackets'
  <2> SUFFICES ASSUME NEW p \in lossyS' \cup lossyC'
               PROVE  \E j \in 1..chidsrv0 - 1 : sch[j].conv = p.conv
    BY <1>1 DEF NoEarlyPackets
  <2>1. CASE p \in lossyS \cup lossyC
    BY <2>1 DEF NoEarlyPackets
  <2>2. ASSUME NEW k \in ChanIds, sch[k].conv # 0, p \in KcpFlush(sch[k].kcp, sch[k].conv)
        PROVE  \E j \in 1..chidsrv0 - 1 : sch[j].conv = p.conv
    BY <1>2, <1>5, <2>2, KcpFlushTrue
  <2>3. ASSUME NEW k \in ChanIds, cch[k].conv # 0, p \in KcpFlush(cch[k].kcp, cch[k].conv)
        PROVE  \E j \in 1..chidsrv0 - 1 : sch[j].conv = p.conv
    BY <1>3, <1>5, <2>3, KcpFlushTrue
  <2> QED
    BY <2>1, <2>2, <2>3 DEF FlushedBy
<1>7. ASSUME NEW j \in 1..chidsrv0 - 1
      PROVE  /\ Exchanged(sch'[j], cch'[sch[j].chidcli])
             /\ TruePackets(lossyS', sch[j].conv, sch'[j].kcp)
             /\ TruePackets(lossyC', sch[j].conv, cch'[sch[j].chidcli].kcp)
  <2> DEFINE i == sch[j].chidcli
  <2>1. Goes(cch[i], cch'[i]) /\ Goes(sch[j], sch'[j]) /\ i \in ChanIds /\ j \in ChanIds
    BY <1>1
  <2>2. /\ Exchanged(sch[j], cch[i])
        /\ TruePackets(lossyS, sch[j].conv, sch[j].kcp)
        /\ TruePackets(lossyC, sch[j].conv, cch[i].kcp)
    BY DEF DataFlows
  <2>3. /\ sch[j] \in ChannelType /\ cch[i] \in ChannelType
        /\ sch'[j] \in ChannelType /\ cch'[i] \in ChannelType
    BY <1>1
  <2>4. /\ sch[j].kcp \in KcpState /\ cch[i].kcp \in KcpState
        /\ sch'[j].kcp \in KcpState /\ cch'[i].kcp \in KcpState
    BY <2>3 DEF ChannelType
  <2>5. TruePackets(lossyS', sch[j].conv, sch[j].kcp)
    <3> SUFFICES ASSUME NEW p \in lossyS', p.conv = sch[j].conv
                 PROVE  p.sn <= sch[j].kcp.snd /\ p.una <= sch[j].kcp.rcv
      BY DEF TruePackets
    <3>1. ASSUME NEW k \in ChanIds, sch[k].conv # 0, p \in KcpFlush(sch[k].kcp, sch[k].conv)
          PROVE  p.sn <= sch[j].kcp.snd /\ p.una <= sch[j].kcp.rcv
      <4>1. p.conv = sch[k].conv /\ p.sn <= sch[k].kcp.snd /\ p.una <= sch[k].kcp.rcv
        BY <1>5, <3>1, KcpFlushTrue
      <4> QED
        BY <1>2, <1>4, <3>1, <4>1
    <3> QED
      BY <2>2, <3>1 DEF TruePackets, FlushedBy
  <2>6. TruePackets(lossyC', sch[j].conv, cch[i].kcp)
    <3> SUFFICES ASSUME NEW p \in lossyC', p.conv = sch[j].conv
                 PROVE  p.sn <= cch[i].kcp.snd /\ p.una <= cch[i].kcp.rcv
      BY DEF TruePackets
    <3>1. ASSUME NEW k \in ChanIds, cch[k].conv # 0, p \in KcpFlush(cch[k].kcp, cch[k].conv)
          PROVE  p.sn <= cch[i].kcp.snd /\ p.una <= cch[i].kcp.rcv
      <4>1. p.conv = cch[k].conv /\ p.sn <= cch[k].kcp.snd /\ p.una <= cch[k].kcp.rcv
        BY <1>5, <3>1, KcpFlushTrue
      <4>2. PICK l \in 1..chidsrv0 - 1 : sch[l].conv = cch[k].conv /\ sch[l].chidcli = k
        BY <1>3, <3>1
      <4>3. l = j
        BY <1>4, <4>1, <4>2
      <4> QED
        BY <4>1, <4>2, <4>3
    <3> QED
      BY <2>2, <3>1 DEF TruePackets, FlushedBy
  <2>7. lossyS' \subseteq KcpPacket /\ lossyC' \subseteq KcpPacket
    BY DEF TypeOK, NetTypeOK
  <2>8. /\ sch[j].kcp.snd <= sch'[j].kcp.snd /\ sch[j].kcp.rcv <= sch'[j].kcp.rcv
        /\ cch[i].kcp.snd <= cch'[i].kcp.snd /\ cch[i].kcp.rcv <= cch'[i].kcp.rcv
        /\ Exchanged(sch'[j], cch'[i])
    BY <2>1, <2>2, <2>4, ExchangedGoes
  <2> QED
    BY <2>4, <2>5, <2>6, <2>7, <2>8, TruePacketsStay
<1>8. DataFlows'
  BY <1>1, <1>7 DEF DataFlows
<1> QED
  BY <1>6, <1>8

-----------------------------------------------------------------------------
\* Input of a true packet keeps the exchange of its two ends.
LEMMA InputExchanged ==
    ASSUME NEW s \in ChannelType, NEW c \in ChannelType, NEW n \in ChannelType,
           Exchanged(s, c), NEW p \in KcpPacket,
           SameBut({"kcp"}, s, n), n.kcp = KcpInput(s.kcp, p),
           p.sn <= c.kcp.snd, p.una <= c.kcp.rcv
    PROVE  /\ Exchanged(n, c) /\ n.kcp.snd = s.kcp.snd /\ s.kcp.rcv <= n.kcp.rcv
<1> DEFINE r == IF p.sn = s.kcp.rcv + 1 THEN p.sn ELSE s.kcp.rcv
           u == IF p.una > s.kcp.una THEN p.una ELSE s.kcp.una
<1>1. /\ n.kcp.rcv = r /\ n.kcp.una = u /\ n.kcp.snd = s.kcp.snd
      /\ n.kcp.read = s.kcp.read
  BY DEF KcpInput, ChannelType, KcpState
<1>2. n.out = s.out
  BY DEF SameBut, Fields
<1>3. /\ s.kcp.rcv \in Nat /\ s.kcp.una \in Nat /\ s.kcp.read \in Nat /\ s.out \in Nat
      /\ c.kcp.snd \in Nat /\ c.kcp.rcv \in Nat /\ c.kcp.una \in Nat
      /\ p.sn \in Nat /\ p.una \in Nat /\ s.kcp.snd \in Nat
  BY DEF ChannelType, KcpState, KcpPacket
<1>4. r \in Nat /\ u \in Nat /\ s.kcp.rcv <= r /\ (r = s.kcp.rcv \/ r = p.sn)
      /\ (u = s.kcp.una \/ u = p.una)
  BY <1>3
<1> HIDE DEF r, u
<1> QED
  BY <1>1, <1>2, <1>3, <1>4 DEF Exchanged, Flow

\* Exchanged reads the same from either end.
LEMMA ExchangedBoth ==
    ASSUME NEW s, NEW c
    PROVE  Exchanged(s, c) <=> Exchanged(c, s)
BY DEF Exchanged

\* The client's KCP takes a packet of the server.
LEMMA ClientInputKeepsData ==
    ASSUME DataInv, TypeOK', NEW p \in lossyS, ClientRecvLossy(p), UNCHANGED serverVars
    PROVE  DataFlows' /\ NoEarlyPackets'
<1> USE DEF DataInv
<1> DEFINE i == cpool2[p.conv]
           ch == [cch[i] EXCEPT !.kcp = KcpInput(cch[i].kcp, p)]
<1>1. UNCHANGED <<chanid0, lossyC, lossyS, chidsrv0, sch>>
  BY DEF ClientRecvLossy, lossyVars, serverVars
<1>2. p \in KcpPacket /\ lossyC \subseteq KcpPacket
  BY DEF EndsInv, PoolsInv, TypeOK, NetTypeOK
<1>3. p.conv \in Conv0
  BY <1>2 DEF KcpPacket
<1>4. CASE i = 0
  <2>1. cch' = cch
    BY <1>4 DEF ClientRecvLossy
  <2> QED
    BY <1>1, <2>1 DEF DataFlows, NoEarlyPackets
<1>5. CASE i # 0
  <2>1. cch' = [cch EXCEPT ![i] = ch]
    BY <1>5 DEF ClientRecvLossy
  <2>2. i \in ChanIds /\ cch[i].conv = p.conv /\ cch[i].conn_ack_recved
    BY <1>3, <1>5 DEF EndsInv, ConvsLead, PoolsInv, TypeOK, ClientTypeOK
  <2>3. /\ cch[i] \in ChannelType /\ cch'[i] \in ChannelType /\ cch'[i] = ch
        /\ \A k \in ChanIds : k # i => cch'[k] = cch[k]
    BY <2>1, <2>2 DEF EndsInv, PoolsInv, TypeOK, ClientTypeOK
  <2>4. SameBut({"kcp"}, cch[i], cch'[i]) /\ cch'[i].kcp = KcpInput(cch[i].kcp, p)
    BY <2>3 DEF SameBut, Fields, ChannelType
  <2> HIDE DEF ch, i
  <2> DEFINE j == cch[i].chidsrv
  <2>5. j \in 1..chidsrv0 - 1 /\ sch[j].chidcli = i /\ sch[j].conv = p.conv
    BY <2>2 DEF EndsInv, ConnectedHasEnd
  <2> HIDE DEF j
  <2>6. /\ Exchanged(sch[j], cch[i])
        /\ TruePackets(lossyS, sch[j].conv, sch[j].kcp)
        /\ TruePackets(lossyC, sch[j].conv, cch[i].kcp)
    BY <2>5 DEF DataFlows
  <2>7. p.sn <= sch[j].kcp.snd /\ p.una <= sch[j].kcp.rcv /\ sch[j] \in ChannelType
    BY <2>5, <2>6, MadeIds DEF TruePackets
  <2>8. /\ Exchanged(cch'[i], sch[j]) /\ cch'[i].kcp.snd = cch[i].kcp.snd
        /\ cch[i].kcp.rcv <= cch'[i].kcp.rcv
    BY <1>2, <2>3, <2>4, <2>6, <2>7, ExchangedBoth, InputExchanged
  <2>9. TruePackets(lossyC, sch[j].conv, cch'[i].kcp)
    <3>1. cch[i].kcp \in KcpState /\ cch'[i].kcp \in KcpState
      BY <2>3 DEF ChannelType
    <3>2. cch[i].kcp.snd <= cch'[i].kcp.snd
      BY <2>8, <3>1 DEF KcpState
    <3> QED
      BY <1>2, <2>6, <2>8, <3>1, <3>2, TruePacketsStay
  <2>10. ASSUME NEW k \in 1..chidsrv0 - 1
         PROVE  /\ Exchanged(sch[k], cch'[sch[k].chidcli])
                /\ TruePackets(lossyS, sch[k].conv, sch[k].kcp)
                /\ TruePackets(lossyC, sch[k].conv, cch'[sch[k].chidcli].kcp)
    <3>1. CASE k = j
      BY <2>5, <2>6, <2>8, <2>9, <3>1, ExchangedBoth
    <3>2. CASE k # j
      <4>1. sch[k].chidcli # i /\ sch[k].chidcli \in ChanIds
        BY <2>5, <3>2, MadeIds DEF EndsInv, OnePerClient
      <4> QED
        BY <2>3, <4>1 DEF DataFlows
    <3> QED
      BY <3>1, <3>2
  <2> QED
    BY <1>1, <2>10 DEF DataFlows, NoEarlyPackets
<1> QED
  BY <1>4, <1>5

\* The server's KCP takes a packet of the client.
LEMMA ServerInputKeepsData ==
    ASSUME DataInv, TypeOK', NEW p \in lossyC, ServerRecvLossy(p), UNCHANGED clientVars
    PROVE  DataFlows' /\ NoEarlyPackets'
<1> USE DEF DataInv
<1> DEFINE j == spool2[p.conv]
           ch == [sch[j] EXCEPT !.kcp = KcpInput(sch[j].kcp, p)]
<1>1. UNCHANGED <<chanid0, lossyC, lossyS, chidsrv0, cch>>
  BY DEF ServerRecvLossy, netVars, clientVars
<1>2. p \in KcpPacket /\ lossyS \subseteq KcpPacket
  BY DEF EndsInv, PoolsInv, TypeOK, NetTypeOK
<1>3. p.conv \in Conv0
  BY <1>2 DEF KcpPacket
<1>4. sch' = [sch EXCEPT ![j] = ch]
  BY DEF ServerRecvLossy
<1>5. j \in ChanIds /\ sch[j].conv = p.conv /\ sch[j].conv # 0
  BY <1>3 DEF ServerRecvLossy, EndsInv, PoolsInv, RegisteredHaveConv, ServerPoolsAgree,
              TypeOK, ServerTypeOK
<1>6. /\ sch[j] \in ChannelType /\ sch'[j] \in ChannelType /\ sch'[j] = ch
      /\ \A k \in ChanIds : k # j => sch'[k] = sch[k]
  BY <1>4, <1>5 DEF EndsInv, PoolsInv, TypeOK, ServerTypeOK
<1>7. SameBut({"kcp"}, sch[j], sch'[j]) /\ sch'[j].kcp = KcpInput(sch[j].kcp, p)
  BY <1>6 DEF SameBut, Fields, ChannelType
<1> HIDE DEF ch, j
<1> DEFINE i == sch[j].chidcli
<1>8. j \in 1..chidsrv0 - 1 /\ i \in ChanIds /\ cch[i] \in ChannelType
  BY <1>5, MadeIds
<1>9. /\ Exchanged(sch[j], cch[i])
      /\ TruePackets(lossyS, sch[j].conv, sch[j].kcp)
      /\ TruePackets(lossyC, sch[j].conv, cch[i].kcp)
  BY <1>8 DEF DataFlows
<1> HIDE DEF i
<1>10. p.sn <= cch[i].kcp.snd /\ p.una <= cch[i].kcp.rcv
  BY <1>5, <1>9 DEF TruePackets
<1>11. /\ Exchanged(sch'[j], cch[i]) /\ sch'[j].kcp.snd = sch[j].kcp.snd
       /\ sch[j].kcp.rcv <= sch'[j].kcp.rcv
  BY <1>2, <1>6, <1>7, <1>8, <1>9, <1>10, InputExchanged
<1>12. TruePackets(lossyS, sch[j].conv, sch'[j].kcp)
  <2>1. sch[j].kcp \in KcpState /\ sch'[j].kcp \in KcpState
    BY <1>6 DEF ChannelType
  <2>2. sch[j].kcp.snd <= sch'[j].kcp.snd
    BY <1>11, <2>1 DEF KcpState
  <2> QED
    BY <1>2, <1>9, <1>11, <2>1, <2>2, TruePacketsStay
<1>13. \A k \in 1..chidsrv0 - 1 :
          k \in ChanIds /\ sch'[k].chidcli = sch[k].chidcli /\ sch'[k].conv = sch[k].conv
  BY <1>6, <1>7, MadeIds DEF SameBut, Fields
<1>14. ASSUME NEW k \in 1..chidsrv0 - 1
       PROVE  /\ Exchanged(sch'[k], cch[sch[k].chidcli])
              /\ TruePackets(lossyS, sch[k].conv, sch'[k].kcp)
              /\ TruePackets(lossyC, sch[k].conv, cch[sch[k].chidcli].kcp)
  <2>1. CASE k = j
    BY <1>9, <1>11, <1>12, <2>1 DEF i
  <2>2. CASE k # j
    BY <1>6, <1>13, <2>2 DEF DataFlows
  <2> QED
    BY <2>1, <2>2
<1> QED
  BY <1>1, <1>13, <1>14 DEF DataFlows, NoEarlyPackets

\* connect_syn makes a channel with an empty KCP and a conversation of which no
\* packet exists.
LEMMA ServerRecvSynData ==
    ASSUME DataInv, EndsInv', ServerRecvSyn, UNCHANGED clientVars
    PROVE  DataFlows' /\ NoEarlyPackets'
<1> USE DEF DataInv
<1> DEFINE j0 == chidsrv0
<1>1. PICK v, ch :
              /\ v \in MakeKcpConv
              /\ j0 \in ChanIds /\ chidsrv0' = j0 + 1
              /\ sch' = [sch EXCEPT ![j0] = ch]
              /\ ch.conv = v /\ ch.chidcli = Head(toServer).chidcli
              /\ ch.kcp = NewKCP /\ ch.out = 0
  BY ServerRecvSynEffect DEF EndsInv
<1>2. UNCHANGED <<lossyC, lossyS, cch>>
  BY DEF ServerRecvSyn, lossyVars, clientVars
<1>3. /\ sch'[j0] = ch /\ \A k \in ChanIds : k # j0 => sch'[k] = sch[k]
  BY <1>1 DEF EndsInv, PoolsInv, TypeOK, ServerTypeOK
<1>4. \A j \in 1..j0 - 1 : j \in 1..chidsrv0' - 1 /\ j # j0 /\ j \in ChanIds /\ sch'[j] = sch[j]
  BY <1>1, <1>3, ChannelAssumption DEF ChanIds
<1>5. \A j \in 1..chidsrv0' - 1 : j \in 1..j0 - 1 \/ j = j0
  BY <1>1 DEF ChanIds
<1>6. \A p \in lossyS \cup lossyC : p.conv # v
  BY <1>1, MadeIds DEF NoEarlyPackets, MakeKcpConv
<1>7. NoEarlyPackets'
  BY <1>2, <1>4 DEF NoEarlyPackets
<1>8. Exchanged(ch, cch[ch.chidcli])
  <2>1. Head(toServer) = toServer[1] /\ 1 \in 1..Len(toServer)
        /\ Head(toServer).command = CMDCONNSYN
    BY DEF ServerRecvSyn, EndsInv, PoolsInv, TypeOK, NetTypeOK
  <2>2. /\ ch.chidcli \in 1..chanid0 - 1
        /\ \A j \in 1..j0 - 1 : sch[j].chidcli # ch.chidcli
    BY <1>1, <2>1 DEF EndsInv, SynsOnce
  <2>3. ch.chidcli \in ChanIds /\ ~cch[ch.chidcli].conn_ack_recved
    BY <2>2, MadeIds DEF EndsInv, ConnectedHasEnd
  <2>4. cch[ch.chidcli].kcp = NilKcp /\ cch[ch.chidcli].out = 0
    BY <2>3 DEF EndsInv, HalfOpenIsNew
  <2> QED
    BY <1>1, <2>4 DEF Exchanged, Flow, NewKCP, NilKcp
<1>9. ASSUME NEW j \in 1..chidsrv0' - 1
      PROVE  /\ Exchanged(sch'[j], cch[sch'[j].chidcli])
             /\ TruePackets(lossyS, sch'[j].conv, sch'[j].kcp)
             /\ TruePackets(lossyC, sch'[j].conv, cch[sch'[j].chidcli].kcp)
  <2>1. CASE j \in 1..j0 - 1
    BY <1>4, <2>1 DEF DataFlows
  <2>2. CASE j = j0
    BY <1>1, <1>3, <1>6, <1>8, <2>2 DEF TruePackets
  <2> QED
    BY <1>5, <2>1, <2>2
<1> QED
  BY <1>2, <1>7, <1>9 DEF DataFlows

-----------------------------------------------------------------------------
(***************************************************************************)
(* Every other step goes on.                                               *)
(***************************************************************************)
\* What leaves a channel's KCP and its count of written messages alone, a
\* message given to the KCP, and messages taken from it.
LEMMA GoesBy ==
    ASSUME NEW a \in ChannelType, NEW b
    PROVE  /\ Goes(a, a)
           /\ \A F : SameBut(F, a, b) /\ {"kcp", "out"} \cap F = {} => Goes(a, b)
           /\ SameBut({"queued", "kcp"}, a, b) /\ b.kcp = KcpSend(a.kcp) => Goes(a, b)
           /\ Served(a, b) => Goes(a, b)
<1>0. /\ a.kcp.snd \in Nat /\ a.kcp.rcv \in Nat /\ a.kcp.read \in Nat /\ a.out \in Nat
      /\ a.kcp \in KcpState
  BY DEF ChannelType, KcpState
<1>1. Goes(a, a)
  BY <1>0 DEF Goes
<1>2. ASSUME NEW F, SameBut(F, a, b), {"kcp", "out"} \cap F = {}
      PROVE  Goes(a, b)
  <2>1. b.kcp = a.kcp /\ b.out = a.out
    BY <1>2 DEF SameBut, Fields
  <2> QED
    BY <1>1, <2>1 DEF Goes
<1>3. ASSUME SameBut({"queued", "kcp"}, a, b), b.kcp = KcpSend(a.kcp)
      PROVE  Goes(a, b)
  <2>1. /\ b.out = a.out /\ b.kcp.snd = a.kcp.snd + 1 /\ b.kcp.rcv = a.kcp.rcv
        /\ b.kcp.una = a.kcp.una /\ b.kcp.read = a.kcp.read
    BY <1>0, <1>3 DEF SameBut, Fields, KcpSend, KcpState
  <2> QED
    BY <1>0, <2>1 DEF Goes
<1>4. ASSUME b.kcp = KcpRecv(a.kcp), b.out \in {a.out, a.out + 1}, a.kcp.read < a.kcp.rcv
      PROVE  Goes(a, b)
  <2>1. /\ b.kcp.snd = a.kcp.snd /\ b.kcp.rcv = a.kcp.rcv
        /\ b.kcp.una = a.kcp.una /\ b.kcp.read = a.kcp.read + 1
    BY <1>0, <1>4 DEF KcpRecv, KcpState
  <2> QED
    BY <1>0, <1>4, <2>1 DEF Goes
<1> QED
  BY <1>1, <1>2, <1>3, <1>4 DEF Served

\* A FIN sets the flag of the side it comes from.
LEMMA FinFields ==
    ASSUME NEW ch \in ChannelType
    PROVE  /\ [ch EXCEPT !.server_socket_close = TRUE] \in ChannelType
           /\ SameBut({"server_socket_close"}, ch, [ch EXCEPT !.server_socket_close = TRUE])
           /\ [ch EXCEPT !.client_socket_close = TRUE] \in ChannelType
           /\ SameBut({"client_socket_close"}, ch, [ch EXCEPT !.client_socket_close = TRUE])
BY DEF ChannelType, SameBut, Fields

\* The closing promises touch neither.
LEMMA PromisesGoOn ==
    ASSUME DataInv, NEW i \in ChanIds
    PROVE  /\ \A ch \in ChannelType :
                /\ SameBut({"poll", "server_socket_close"}, cch[i], ch)
                /\ ClientPromiseChannelClose(i, ch)
                => \A k \in ChanIds : Goes(cch[k], cch'[k])
           /\ \A ch \in ChannelType :
                /\ SameBut({"poll", "client_socket_close"}, sch[i], ch)
                /\ ServerPromiseChannelClose(i, ch)
                => \A k \in ChanIds : Goes(sch[k], sch'[k])
<1>0. /\ TypeOK /\ cch[i].chidcli \in {0, i}
      /\ \A k \in ChanIds : cch[k] \in ChannelType /\ sch[k] \in ChannelType
  BY DEF DataInv, EndsInv, PoolsInv, HalfOpenIsNew, TypeOK, ClientTypeOK, ServerTypeOK
<1> DEFINE F == {"poll", "server_socket_close", "client_socket_close"} \cup ClosingFields
<1>1. {"kcp", "out"} \cap F = {}
  BY DEF ClosingFields
<1>2. ASSUME NEW ch \in ChannelType,
             SameBut({"poll", "server_socket_close"}, cch[i], ch),
             ClientPromiseChannelClose(i, ch), NEW k \in ChanIds
      PROVE  Goes(cch[k], cch'[k])
  <2>1. ch.chidcli = cch[i].chidcli /\ ch.conv = cch[i].conv
    BY <1>2 DEF SameBut, Fields
  <2>2. ClientAlone(i) /\ (cch'[i] = cch[i] \/ SameBut(ClosingFields, ch, cch'[i]))
    BY <1>0, <1>2, <2>1, ClientPromiseEffect
  <2>3. cch'[k] = cch[k] \/ SameBut(F, cch[k], cch'[k])
    BY <1>2, <2>2 DEF SameBut, ClientAlone
  <2> HIDE DEF F
  <2> QED
    BY <1>0, <1>1, <2>3, GoesBy
<1>3. ASSUME NEW ch \in ChannelType,
             SameBut({"poll", "client_socket_close"}, sch[i], ch),
             ServerPromiseChannelClose(i, ch), NEW k \in ChanIds
      PROVE  Goes(sch[k], sch'[k])
  <2>1. ch.conv = sch[i].conv
    BY <1>3 DEF SameBut, Fields
  <2>2. ServerAlone(i) /\ (sch'[i] = sch[i] \/ SameBut(ClosingFields, ch, sch'[i]))
    BY <1>0, <1>3, <2>1, ServerPromiseEffect
  <2>3. sch'[k] = sch[k] \/ SameBut(F, sch[k], sch'[k])
    BY <1>3, <2>2 DEF SameBut, ServerAlone
  <2> HIDE DEF F
  <2> QED
    BY <1>0, <1>1, <2>3, GoesBy
<1> QED
  BY <1>2, <1>3

\* The client's steps, its KCPs' input apart.
LEMMA ClientGoesOn ==
    ASSUME DataInv, ClientLoop \/ ClientOutside, \A p \in lossyS : ~ClientRecvLossy(p)
    PROVE  /\ \A i \in 1..chanid0 - 1 : Goes(cch[i], cch'[i])
           /\ lossyS' = lossyS /\ FlushedBy(lossyC, lossyC', cch)
<1>0. /\ TypeOK /\ \A k \in ChanIds : cch[k] \in ChannelType
      /\ \A k \in 1..chanid0 - 1 : k \in ChanIds
      /\ \A k \in ChanIds : Goes(cch[k], cch[k])
  BY MadeIds, GoesBy DEF DataInv, EndsInv, PoolsInv, TypeOK, ClientTypeOK
<1>1. lossyC' = lossyC => FlushedBy(lossyC, lossyC', cch)
  BY DEF FlushedBy
<1>2. ASSUME NEW c \in Conns, Accept(c) \/ AppClose(c)
      PROVE  UNCHANGED <<cch, lossyVars>>
  BY <1>2 DEF Accept, AppClose, netVars, lossyVars
<1>3. ASSUME NEW i \in ChanIds,
             \/ ClientPollRead(i) \/ ClientPollQueue(i)
             \/ ClientPollEnd(i) \/ ClientPollPost(i)
      PROVE  (\A k \in ChanIds : Goes(cch[k], cch'[k])) /\ UNCHANGED lossyVars
  <2>1. /\ ClientAlone(i) /\ SameBut(ReadersFields, cch[i], cch'[i]) /\ UNCHANGED netVars
    BY <1>0, <1>3, ClientReaderEffect
  <2>2. {"kcp", "out"} \cap ReadersFields = {}
    BY DEF ReadersFields
  <2> QED
    BY <1>0, <2>1, <2>2, GoesBy DEF ClientAlone, netVars, lossyVars
<1>4. ASSUME NEW c \in Conns, InitConnChanel(c)
      PROVE  (\A k \in 1..chanid0 - 1 : Goes(cch[k], cch'[k])) /\ UNCHANGED lossyVars
  <2>1. /\ UNCHANGED lossyVars
        /\ cch' = [cch EXCEPT ![chanid0] = NewChannelClient(chanid0, c)]
    BY <1>4 DEF InitConnChanel
  <2>2. \A k \in 1..chanid0 - 1 : k # chanid0
    BY <1>0 DEF TypeOK, ClientTypeOK
  <2>3. \A k \in 1..chanid0 - 1 : cch'[k] = cch[k]
    BY <1>0, <2>1, <2>2 DEF TypeOK, ClientTypeOK
  <2> QED
    BY <1>0, <2>1, <2>3
<1>5. ASSUME NEW i \in ChanIds, ClientCheckACKRecved(i)
      PROVE  (\A k \in ChanIds : Goes(cch[k], cch'[k])) /\ UNCHANGED lossyVars
  <2> DEFINE c == AddCloseReason(cch[i], "connect_timeout")
  <2>1. UNCHANGED lossyVars /\ (cch' = cch \/ cch' = [cch EXCEPT ![i] = c])
    BY <1>5 DEF ClientCheckACKRecved, AckTimeout, netVars, lossyVars
  <2>2. SameBut({"close_reason"}, cch[i], c) /\ {"kcp", "out"} \cap {"close_reason"} = {}
    BY <1>0, ReaderFields
  <2> HIDE DEF c
  <2>3. Goes(cch[i], c)
    BY <1>0, <2>2, GoesBy
  <2> QED
    BY <1>0, <2>1, <2>3 DEF TypeOK, ClientTypeOK
<1>6. ASSUME NEW i \in ChanIds, ProcessClientReadyRead(i)
      PROVE  (\A k \in ChanIds : Goes(cch[k], cch'[k])) /\ UNCHANGED lossyVars
  BY <1>0, <1>6, ReadyReadEffect, GoesBy DEF ClientAlone, netVars, lossyVars
<1>7. ASSUME NEW i \in ChanIds, ClientClose(i)
      PROVE  (\A k \in ChanIds : Goes(cch[k], cch'[k])) /\ UNCHANGED lossyVars
  <2> DEFINE ch == [cch[i] EXCEPT !.poll = "done"]
  <2>1. ClientPromiseChannelClose(i, ch) /\ UNCHANGED lossyVars
    BY <1>7 DEF ClientClose
  <2>2. ch \in ChannelType /\ SameBut({"poll"}, cch[i], ch)
    BY <1>0, PollType, ReaderFields DEF PollStates
  <2> HIDE DEF ch
  <2>3. SameBut({"poll", "server_socket_close"}, cch[i], ch)
    BY <2>2 DEF SameBut
  <2> QED
    BY <2>1, <2>2, <2>3, PromisesGoOn
<1>8. CASE ClientServeKcp
  <2>1. \A k \in ChanIds : Served(cch[k], cch'[k])
    BY <1>0, <1>8, ServeKcpEffect
  <2>2. \A k \in ChanIds : Goes(cch[k], cch'[k])
    BY <1>0, <2>1, GoesBy
  <2>3. lossyS' = lossyS
    BY <1>8 DEF ClientServeKcp
  <2>4. ASSUME NEW p \in lossyC', p \notin lossyC
        PROVE  \E k \in cpool : cch[k].kcp.open /\ p \in KcpFlush(cch[k].kcp, cch[k].conv)
    BY <1>8, <2>4 DEF ClientServeKcp
  <2>5. \A k \in cpool : k \in ChanIds /\ (cch[k].kcp.open => cch[k].conv # 0)
    <3>1. \A k \in cpool : k \in ChanIds /\ (cch[k].kcp.open => cch[k].conn_ack_recved)
      BY <1>0 DEF TypeOK, ClientTypeOK, DataInv, EndsInv, HalfOpenIsNew, NilKcp
    <3> QED
      BY <3>1, ClientConvsOwn DEF DataInv
  <2>6. FlushedBy(lossyC, lossyC', cch)
    BY <2>4, <2>5 DEF FlushedBy
  <2> QED
    BY <1>0, <2>2, <2>3, <2>6
<1>9. CASE ClientRecvAck
  <2> DEFINE ack == Head(toClient)
             i == ack.chidcli
             ch == [cch[i] EXCEPT !.conv = ack.conv, !.chidsrv = ack.chidsrv,
                      !.kcp = NewKCP, !.conn_ack_recved = TRUE, !.poll = "reading"]
  <2>1. UNCHANGED lossyVars
    BY <1>9 DEF ClientRecvAck
  <2>2. CASE i \notin cpool
    <3>1. cch' = cch
      BY <1>9, <2>2 DEF ClientRecvAck
    <3> QED
      BY <1>0, <1>1, <2>1, <3>1 DEF lossyVars
  <2>3. CASE i \in cpool
    <3>1. cch' = [cch EXCEPT ![i] = ch]
      BY <1>9, <2>3 DEF ClientRecvAck, AckConnects
    <3>2. ack = toClient[1] /\ ack.command = CMDCONNACK /\ 1 \in 1..Len(toClient)
      BY <1>0, <1>9 DEF ClientRecvAck, TypeOK, NetTypeOK
    <3>3. i \in ChanIds /\ ~cch[i].conn_ack_recved
      BY <1>0, <2>3, <3>2 DEF DataInv, EndsInv, AcksOnce, TypeOK, ClientTypeOK
    <3>4. cch[i].kcp = NilKcp /\ cch[i] \in ChannelType
      BY <1>0, <3>3 DEF DataInv, EndsInv, HalfOpenIsNew
    <3>5. ch.kcp = NewKCP /\ ch.out = cch[i].out
      BY <3>4 DEF ChannelType
    <3> HIDE DEF ch
    <3>6. Goes(cch[i], ch)
      BY <3>4, <3>5 DEF Goes, NewKCP, NilKcp, ChannelType
    <3>7. \A k \in ChanIds : Goes(cch[k], cch'[k])
      BY <1>0, <3>1, <3>3, <3>6 DEF TypeOK, ClientTypeOK
    <3> QED
      BY <1>0, <1>1, <2>1, <3>7 DEF lossyVars
  <2> QED
    BY <2>2, <2>3
<1>10. CASE ClientRecvFin
  <2> DEFINE i == cpool2[Head(toClient).conv]
             ch == [cch[i] EXCEPT !.server_socket_close = TRUE]
  <2>1. UNCHANGED lossyVars
    BY <1>10 DEF ClientRecvFin
  <2>2. CASE i = 0
    <3>1. cch' = cch
      BY <1>10, <2>2 DEF ClientRecvFin
    <3> QED
      BY <1>0, <1>1, <2>1, <3>1 DEF lossyVars
  <2>3. CASE i # 0
    <3>1. ClientPromiseChannelClose(i, ch)
      BY <1>10, <2>3 DEF ClientRecvFin
    <3>2. i \in ChanIds
      <4>1. Head(toClient) \in Packet
        BY <1>0, <1>10 DEF ClientRecvFin, TypeOK, NetTypeOK
      <4> QED
        BY <1>0, <2>3, <4>1 DEF Packet, TypeOK, ClientTypeOK
    <3>3. ch \in ChannelType /\ SameBut({"server_socket_close"}, cch[i], ch)
      BY <1>0, <3>2, FinFields
    <3> HIDE DEF ch, i
    <3>4. SameBut({"poll", "server_socket_close"}, cch[i], ch)
      BY <3>3 DEF SameBut
    <3>5. \A k \in ChanIds : Goes(cch[k], cch'[k])
      BY <3>1, <3>2, <3>3, <3>4, PromisesGoOn
    <3> QED
      BY <1>0, <1>1, <2>1, <3>5 DEF lossyVars
  <2> QED
    BY <2>2, <2>3
<1> QED
  BY <1>0, <1>1, <1>2, <1>3, <1>4, <1>5, <1>6, <1>7, <1>8, <1>9, <1>10
     DEF ClientLoop, ClientOutside, lossyVars

\* The server's steps, connect_syn and its KCPs' input apart.
LEMMA ServerGoesOn ==
    ASSUME DataInv, ServerLoop \/ ServerOutside, ~ServerRecvSyn,
           \A p \in lossyC : ~ServerRecvLossy(p)
    PROVE  /\ \A j \in 1..chidsrv0 - 1 : Goes(sch[j], sch'[j])
           /\ lossyC' = lossyC /\ FlushedBy(lossyS, lossyS', sch)
<1>0. /\ TypeOK /\ \A k \in ChanIds : sch[k] \in ChannelType
      /\ \A k \in 1..chidsrv0 - 1 : k \in ChanIds
      /\ \A k \in ChanIds : Goes(sch[k], sch[k])
  BY MadeIds, GoesBy DEF DataInv, EndsInv, PoolsInv, TypeOK, ServerTypeOK
<1>1. lossyS' = lossyS => FlushedBy(lossyS, lossyS', sch)
  BY DEF FlushedBy
<1>2. ASSUME NEW j \in ChanIds, ServerDialFails(j) \/ BackendClose(j)
      PROVE  UNCHANGED <<sch, lossyVars>>
  BY <1>2 DEF ServerDialFails, BackendClose, netVars, lossyVars
<1>3. ASSUME NEW j \in ChanIds,
             \/ ServerDial(j) \/ ServerPollRead(j) \/ ServerPollQueue(j)
             \/ ServerPollEnd(j) \/ ServerPollPost(j)
      PROVE  (\A k \in ChanIds : Goes(sch[k], sch'[k])) /\ UNCHANGED lossyVars
  <2>1. /\ ServerAlone(j) /\ SameBut(ReadersFields, sch[j], sch'[j]) /\ UNCHANGED netVars
    BY <1>0, <1>3, ServerReaderEffect
  <2>2. {"kcp", "out"} \cap ReadersFields = {}
    BY DEF ReadersFields
  <2> QED
    BY <1>0, <2>1, <2>2, GoesBy DEF ServerAlone, netVars, lossyVars
<1>4. ASSUME NEW j \in ChanIds, ProcessServerReadyRead(j)
      PROVE  (\A k \in ChanIds : Goes(sch[k], sch'[k])) /\ UNCHANGED lossyVars
  BY <1>0, <1>4, ReadyReadEffect, GoesBy DEF ServerAlone, netVars, lossyVars
<1>5. ASSUME NEW j \in ChanIds, ServerClose(j)
      PROVE  (\A k \in ChanIds : Goes(sch[k], sch'[k])) /\ UNCHANGED lossyVars
  <2> DEFINE ch == [sch[j] EXCEPT !.poll = "done"]
  <2>1. ServerPromiseChannelClose(j, ch) /\ UNCHANGED lossyVars
    BY <1>5 DEF ServerClose
  <2>2. ch \in ChannelType /\ SameBut({"poll"}, sch[j], ch)
    BY <1>0, PollType, ReaderFields DEF PollStates
  <2> HIDE DEF ch
  <2>3. SameBut({"poll", "client_socket_close"}, sch[j], ch)
    BY <2>2 DEF SameBut
  <2> QED
    BY <2>1, <2>2, <2>3, PromisesGoOn
<1>6. ASSUME NEW S \in SUBSET spool, ServerServeKcp(S)
      PROVE  /\ \A k \in ChanIds : Goes(sch[k], sch'[k])
             /\ lossyC' = lossyC /\ FlushedBy(lossyS, lossyS', sch)
  <2>1. \A k \in ChanIds : Served(sch[k], sch'[k])
    BY <1>0, <1>6, ServeKcpEffect
  <2>2. \A k \in ChanIds : Goes(sch[k], sch'[k])
    BY <1>0, <2>1, GoesBy
  <2>3. lossyC' = lossyC
    BY <1>6 DEF ServerServeKcp
  <2>4. ASSUME NEW p \in lossyS', p \notin lossyS
        PROVE  \E k \in S : p \in KcpFlush(sch[k].kcp, sch[k].conv)
    BY <1>6, <2>4 DEF ServerServeKcp
  <2>5. \A k \in S : k \in ChanIds /\ sch[k].conv # 0
    BY <1>0 DEF TypeOK, ServerTypeOK, DataInv, EndsInv, PoolsInv, RegisteredHaveConv
  <2> QED
    BY <2>2, <2>3, <2>4, <2>5 DEF FlushedBy
<1>7. CASE KcpCheckClose
  <2>1. \A k \in ChanIds : SameBut(ClosingFields, sch[k], sch'[k])
    BY <1>0, <1>7, KcpCheckCloseEffect
  <2>2. {"kcp", "out"} \cap ClosingFields = {}
    BY DEF ClosingFields
  <2>3. \A k \in ChanIds : Goes(sch[k], sch'[k])
    BY <1>0, <2>1, <2>2, GoesBy
  <2> QED
    BY <1>0, <1>1, <1>7, <2>3 DEF KcpCheckClose, lossyVars
<1>8. CASE ServerRecvFin
  <2> DEFINE j == spool2[Head(toServer).conv]
             ch == [sch[j] EXCEPT !.client_socket_close = TRUE]
  <2>1. UNCHANGED lossyVars
    BY <1>8 DEF ServerRecvFin
  <2>2. CASE j = 0
    <3>1. sch' = sch
      BY <1>8, <2>2 DEF ServerRecvFin
    <3> QED
      BY <1>0, <1>1, <2>1, <3>1 DEF lossyVars
  <2>3. CASE j # 0
    <3>1. ServerPromiseChannelClose(j, ch)
      BY <1>8, <2>3 DEF ServerRecvFin
    <3>2. j \in ChanIds
      <4>1. Head(toServer) \in Packet
        BY <1>0, <1>8 DEF ServerRecvFin, TypeOK, NetTypeOK
      <4> QED
        BY <1>0, <2>3, <4>1 DEF Packet, TypeOK, ServerTypeOK
    <3>3. ch \in ChannelType /\ SameBut({"client_socket_close"}, sch[j], ch)
      BY <1>0, <3>2, FinFields
    <3> HIDE DEF ch, j
    <3>4. SameBut({"poll", "client_socket_close"}, sch[j], ch)
      BY <3>3 DEF SameBut
    <3>5. \A k \in ChanIds : Goes(sch[k], sch'[k])
      BY <3>1, <3>2, <3>3, <3>4, PromisesGoOn
    <3> QED
      BY <1>0, <1>1, <2>1, <3>5 DEF lossyVars
  <2> QED
    BY <2>2, <2>3
<1> QED
  BY <1>0, <1>1, <1>2, <1>3, <1>4, <1>5, <1>6, <1>7, <1>8
     DEF ServerLoop, ServerOutside, lossyVars

-----------------------------------------------------------------------------
\* Nothing is exchanged at the start, ...
LEMMA DataInit == Init => DataInv
<1> SUFFICES ASSUME Init PROVE DataInv
  OBVIOUS
<1>1. chidsrv0 = 1 /\ lossyS = {} /\ lossyC = {}
  BY DEF Init, NetInit, ServerInit
<1>2. \A j \in 1..chidsrv0 - 1 : FALSE
  BY <1>1
<1> QED
  BY <1>1, <1>2, EndsInit DEF DataInv, DataFlows, NoEarlyPackets

\* ... and every step keeps what the two ends of each connection have exchanged.
LEMMA DataStep == DataInv /\ [Next]_vars => DataInv'
<1> SUFFICES ASSUME DataInv, [Next]_vars PROVE DataInv'
  OBVIOUS
<1>1. EndsInv' /\ TypeOK'
  BY EndsStep DEF DataInv, EndsInv, PoolsInv
<1>2. /\ \A k \in ChanIds : Goes(cch[k], cch[k]) /\ Goes(sch[k], sch[k])
      /\ \A k \in 1..chanid0 - 1 : k \in ChanIds
      /\ \A k \in 1..chidsrv0 - 1 : k \in ChanIds
  BY MadeIds, GoesBy DEF DataInv, EndsInv, PoolsInv, TypeOK, ClientTypeOK, ServerTypeOK
<1>3. ASSUME ServerQuiet,
             \A i \in 1..chanid0 - 1 : Goes(cch[i], cch'[i]),
             \A j \in 1..chidsrv0 - 1 : Goes(sch[j], sch'[j]),
             FlushedBy(lossyS, lossyS', sch), FlushedBy(lossyC, lossyC', cch)
      PROVE  DataInv'
  BY <1>1, <1>3, GoingOnKeepsData DEF DataInv
<1>4. /\ lossyS' = lossyS => FlushedBy(lossyS, lossyS', sch)
      /\ lossyC' = lossyC => FlushedBy(lossyC, lossyC', cch)
  BY DEF FlushedBy
<1>5. UNCHANGED serverVars =>
        ServerQuiet /\ \A j \in 1..chidsrv0 - 1 : Goes(sch[j], sch'[j])
  BY <1>2 DEF serverVars, ServerQuiet
<1>6. UNCHANGED clientVars => \A i \in 1..chanid0 - 1 : Goes(cch[i], cch'[i])
  BY <1>2 DEF clientVars
<1>7. CASE (ClientLoop \/ ClientOutside) /\ UNCHANGED serverVars
  <2>1. CASE \E p \in lossyS : ClientRecvLossy(p)
    BY <1>1, <1>7, <2>1, ClientInputKeepsData DEF DataInv
  <2>2. CASE \A p \in lossyS : ~ClientRecvLossy(p)
    BY <1>3, <1>4, <1>5, <1>7, <2>2, ClientGoesOn
  <2> QED
    BY <2>1, <2>2
<1>8. CASE (ServerLoop \/ ServerOutside) /\ UNCHANGED clientVars
  <2>1. CASE \E p \in lossyC : ServerRecvLossy(p)
    BY <1>1, <1>8, <2>1, ServerInputKeepsData DEF DataInv
  <2>2. CASE ServerRecvSyn
    BY <1>1, <1>8, <2>2, ServerRecvSynData DEF DataInv
  <2>3. CASE ~ServerRecvSyn /\ \A p \in lossyC : ~ServerRecvLossy(p)
    <3>1. ServerQuiet
      BY <1>8, <2>3, ServerLoopQuiet, ServerOutsideQuiet DEF DataInv
    <3> QED
      BY <1>3, <1>4, <1>6, <1>8, <2>3, <3>1, ServerGoesOn
  <2> QED
    BY <2>1, <2>2, <2>3
<1>9. CASE (LinkDown \/ LinkUp) /\ UNCHANGED <<clientVars, serverVars>>
  <2>1. lossyC' = lossyC /\ lossyS' = lossyS
    BY <1>9 DEF LinkDown, LinkUp, lossyVars
  <2> QED
    BY <1>3, <1>4, <1>5, <1>6, <1>9, <2>1
<1>10. CASE UNCHANGED vars
  <2>1. UNCHANGED clientVars /\ UNCHANGED serverVars /\ lossyC' = lossyC /\ lossyS' = lossyS
    BY <1>10 DEF vars, netVars
  <2> QED
    BY <1>3, <1>4, <1>5, <1>6, <2>1
<1> QED
  BY <1>7, <1>8, <1>9, <1>10 DEF Next

\* What an end has taken from the tunnel never exceeds what the other end has
\* put in, and what counts as acknowledged has been received, although packets
\* are lost, repeated and arrive at any later time, also after the channel they
\* belong to was given up and others were made.
THEOREM DataComesFromTheOtherEnd == Spec => []NothingInvented
<1>1. DataInv => NothingInvented
  <2> SUFFICES ASSUME DataInv, NEW i \in ChanIds, cch[i].conn_ack_recved
               PROVE  Exchanged(sch[cch[i].chidsrv], cch[i])
    BY DEF NothingInvented, Exchanged, Flow
  <2>1. cch[i].chidsrv \in 1..chidsrv0 - 1 /\ sch[cch[i].chidsrv].chidcli = i
    BY DEF DataInv, EndsInv, ConnectedHasEnd
  <2> QED
    BY <2>1 DEF DataInv, DataFlows
<1> QED
  BY DataInit, DataStep, <1>1, PTL DEF Spec

-----------------------------------------------------------------------------
(***************************************************************************)
(* The client's closing promise.                                           *)
(***************************************************************************)
\* The reasons docs/stats.md documents, as a channel collects them.
Reported == {<< >>, <<"connect_timeout">>, <<"client_close">>, <<"both_close">>,
             <<"server_close">>, <<"server_close", "both_close">>}

\* A registered channel has a reason only when the server's FIN closed it, and
\* then both its flags are set.
OpenReasons(i) ==
    \/ cch[i].close_reason = << >>
    \/ /\ cch[i].close_reason = <<"server_close">>
       /\ cch[i].conn_ack_recved
       /\ cch[i].client_socket_close /\ cch[i].server_socket_close

\* A reader that has left its loop has set its side's flag before.
ClientFlagFirst == \A i \in ChanIds : cch[i].poll \in Closing => cch[i].client_socket_close

ClientCloseInv ==
    /\ ClientFlagFirst
    /\ cpanic \notin {"Ooops", "wtf"}
    /\ cpanic = "no" => \A i \in ChanIds :
          cch[i].close_reason \in Reported /\ (i \in cpool => OpenReasons(i))

\* b is what a has become, and no promise was called for it.
NotPromised(a, b) ==
    /\ b.close_reason = a.close_reason
    /\ a.conn_ack_recved => b.conn_ack_recved
    /\ a.client_socket_close => b.client_socket_close
    /\ a.server_socket_close => b.server_socket_close
    /\ b.poll \in Closing => b.client_socket_close \/ a.poll \in Closing

\* One more reason.
LEMMA AppendReason ==
    ASSUME NEW ch \in ChannelType, NEW r \in Reasons
    PROVE  /\ AddCloseReason(ch, r).close_reason = Append(ch.close_reason, r)
           /\ ch.close_reason = << >> => Append(ch.close_reason, r) = <<r>>
           /\ ch.close_reason = <<"server_close">>
                => Append(ch.close_reason, r) = <<"server_close", r>>
           /\ Len(ch.close_reason) \in Nat
           /\ Len(Append(ch.close_reason, r)) = Len(ch.close_reason) + 1
<1>1. ch.close_reason \in Seq(Reasons)
  BY DEF ChannelType
<1>2. AddCloseReason(ch, r).close_reason = Append(ch.close_reason, r)
  BY DEF AddCloseReason, ChannelType
<1>3. Append(<< >>, r) = <<r>>
  <2>1. << >> \in Seq(Reasons) /\ Len(<< >>) = 0
    OBVIOUS
  <2> QED
    BY <2>1
<1>4. Append(<<"server_close">>, r) = <<"server_close", r>>
  <2> DEFINE s == Append(<<"server_close">>, r)
             t == <<"server_close", r>>
  <2>1. <<"server_close">> \in Seq(Reasons) /\ Len(<<"server_close">>) = 1
    BY DEF Reasons
  <2>2. /\ s \in Seq(Reasons) /\ Len(s) = 2 /\ s[1] = "server_close" /\ s[2] = r
        /\ t \in Seq(Reasons) /\ Len(t) = 2 /\ t[1] = "server_close" /\ t[2] = r
    BY <2>1
  <2> HIDE DEF s, t
  <2>3. Len(s) = Len(t) /\ \A k \in 1..Len(s) : s[k] = t[k]
    BY <2>2
  <2>4. s = t
    BY <2>2, <2>3, SeqEqual
  <2> QED
    BY <2>4 DEF s, t
<1>5. Len(ch.close_reason) \in Nat
      /\ Len(Append(ch.close_reason, r)) = Len(ch.close_reason) + 1
  BY <1>1
<1> QED
  BY <1>2, <1>3, <1>4, <1>5

\* Reported reasons are few.
LEMMA ReportedFew == \A s \in Reported : Len(s) <= 2
BY DEF Reported

LEMMA NotPromisedKeeps ==
    ASSUME ClientCloseInv, NEW N \in SUBSET ChanIds,
           \A k \in ChanIds \ N : NotPromised(cch[k], cch'[k]),
           \A k \in N : cch'[k].close_reason = << >> /\ cch'[k].poll = "none",
           cpool' \subseteq cpool \cup N, cpanic' = cpanic
    PROVE  ClientCloseInv'
<1>1. ClientFlagFirst'
  BY DEF ClientCloseInv, ClientFlagFirst, NotPromised, Closing
<1>2. ASSUME cpanic = "no", NEW k \in ChanIds
      PROVE  cch'[k].close_reason \in Reported /\ (k \in cpool' => OpenReasons(k)')
  BY <1>2 DEF ClientCloseInv, NotPromised, Reported, OpenReasons
<1> QED
  BY <1>1, <1>2 DEF ClientCloseInv

LEMMA NobodyPromisedKeeps ==
    ASSUME ClientCloseInv, \A k \in ChanIds : NotPromised(cch[k], cch'[k]),
           cpool' \subseteq cpool, cpanic' = cpanic
    PROVE  ClientCloseInv'
<1> DEFINE N == {}
<1>1. /\ N \in SUBSET ChanIds /\ cpool' \subseteq cpool \cup N
      /\ \A k \in ChanIds \ N : NotPromised(cch[k], cch'[k])
      /\ \A k \in N : cch'[k].close_reason = << >> /\ cch'[k].poll = "none"
  OBVIOUS
<1> HIDE DEF N
<1> QED
  BY <1>1, NotPromisedKeeps

\* rmClient of a channel that is not registered stops the process; the reasons
\* of one that is registered are reported when the promise's case is a proper one.
LEMMA RmClientCloses ==
    ASSUME ClientCloseInv, TypeOK, cpanic = "no", NEW i \in ChanIds,
           NEW ch \in ChannelType, NEW r \in Reasons,
           ch.chidcli \in {0, i}, ch.close_reason = cch[i].close_reason,
           ch.poll \in Closing => ch.client_socket_close,
           i \in cpool => Append(ch.close_reason, r) \in Reported,
           cch' = [cch EXCEPT ![i] = AddCloseReason(ch, r)],
           RmClient(AddCloseReason(ch, r))
    PROVE  ClientCloseInv'
<1> DEFINE c == AddCloseReason(ch, r)
<1>1. /\ SameBut({"close_reason"}, ch, c) /\ c.close_reason = Append(ch.close_reason, r)
      /\ Len(c.close_reason) = Len(ch.close_reason) + 1 /\ Len(ch.close_reason) \in Nat
  BY ReaderFields, AppendReason
<1>2. Len(ch.close_reason) <= 2
  BY ReportedFew DEF ClientCloseInv
<1>3. c.chidcli = ch.chidcli /\ c.poll = ch.poll /\ c.client_socket_close = ch.client_socket_close
  BY <1>1 DEF SameBut, Fields
<1> HIDE DEF c
<1>4. cch'[i] = c /\ \A k \in ChanIds : k # i => cch'[k] = cch[k]
  BY DEF TypeOK, ClientTypeOK, c
<1>5. ClientFlagFirst'
  BY <1>3, <1>4 DEF ClientCloseInv, ClientFlagFirst
<1>6. ~(Len(c.close_reason) > MaxReasons)
  BY <1>1, <1>2 DEF MaxReasons
<1>7. \/ c.chidcli \notin cpool /\ cpanic' = "rmClient"
      \/ c.chidcli \in cpool /\ cpool' = cpool \ {c.chidcli} /\ cpanic' = cpanic
  BY <1>6 DEF RmClient, c
<1>8. 0 \notin cpool
  BY DEF TypeOK, ClientTypeOK, ChanIds
<1>9. CASE c.chidcli \notin cpool /\ cpanic' = "rmClient"
  BY <1>5, <1>9 DEF ClientCloseInv
<1>10. CASE c.chidcli \in cpool /\ cpool' = cpool \ {c.chidcli} /\ cpanic' = cpanic
  <2>1. i \in cpool /\ cpool' = cpool \ {i}
    BY <1>3, <1>8, <1>10
  <2>2. c.close_reason \in Reported
    BY <1>1, <2>1
  <2>3. ASSUME NEW k \in ChanIds
        PROVE  cch'[k].close_reason \in Reported /\ (k \in cpool' => OpenReasons(k)')
    BY <1>4, <2>1, <2>2 DEF ClientCloseInv, OpenReasons
  <2> QED
    BY <1>5, <1>10, <2>3 DEF ClientCloseInv
<1> QED
  BY <1>7, <1>9, <1>10

\* The promise meets three of its four cases, and adds a reported reason.
LEMMA ClientPromiseCloses ==
    ASSUME ClientCloseInv, TypeOK, cpanic = "no", NEW i \in ChanIds,
           cch[i].chidcli \in {0, i}, NEW ch \in ChannelType,
           \/ ch.client_socket_close /\ SameBut({"poll"}, cch[i], ch)
           \/ /\ ch.server_socket_close /\ SameBut({"server_socket_close"}, cch[i], ch)
              /\ i \in cpool /\ cch[i].conn_ack_recved,
           ClientPromiseChannelClose(i, ch)
    PROVE  ClientCloseInv'
<1>1. /\ ch.close_reason = cch[i].close_reason /\ ch.chidcli = cch[i].chidcli
      /\ ch.conn_ack_recved = cch[i].conn_ack_recved
      /\ ch.client_socket_close = cch[i].client_socket_close
      /\ cch[i].server_socket_close => ch.server_socket_close
      /\ ch.poll \in Closing => ch.client_socket_close
  BY DEF SameBut, Fields, ClientCloseInv, ClientFlagFirst
<1>2. i \in cpool => OpenReasons(i)
  BY DEF ClientCloseInv
<1>3. CASE ClientNotifyServer(i, ch)
  <2>1. i \in cpool => Append(ch.close_reason, "client_close") \in Reported
    <3>1. i \in cpool => ch.close_reason = << >>
      BY <1>1, <1>2, <1>3 DEF ClientNotifyServer, OpenReasons
    <3> QED
      BY <3>1, AppendReason DEF Reported, Reasons
  <2>2. CASE link
    BY <1>1, <1>3, <2>1, <2>2, RmClientCloses DEF ClientNotifyServer, Reasons
  <2>3. CASE ~link
    <3>1. cch' = [cch EXCEPT ![i] = ch] /\ UNCHANGED <<cpool, cpanic>>
      BY <1>3, <2>3 DEF ClientNotifyServer
    <3>2. cch'[i] = ch /\ \A k \in ChanIds : k # i => cch'[k] = cch[k]
      BY <3>1 DEF TypeOK, ClientTypeOK
    <3>3. \A k \in ChanIds : NotPromised(cch[k], cch'[k])
      BY <1>1, <3>2 DEF NotPromised
    <3> QED
      BY <3>1, <3>3, NobodyPromisedKeeps
  <2> QED
    BY <2>2, <2>3
<1>4. CASE ClientBothClosed(i, ch)
  <2>1. i \in cpool => Append(ch.close_reason, "both_close") \in Reported
    BY <1>1, <1>2, AppendReason DEF OpenReasons, Reported, Reasons
  <2> QED
    BY <1>1, <1>4, <2>1, RmClientCloses DEF ClientBothClosed, Reasons
<1>5. CASE ClientForceClose(i, ch)
  <2> DEFINE a == AddCloseReason(ch, "server_close")
             c == [a EXCEPT !.client_socket_close = TRUE]
  <2>1. /\ cch' = [cch EXCEPT ![i] = c] /\ cpool' = cpool
        /\ cpanic' = IF ReasonPanic(ch) THEN "wtf" ELSE "no"
        /\ ~ch.client_socket_close /\ ch.server_socket_close
    BY <1>5 DEF ClientForceClose
  <2>2. i \in cpool /\ ch.conn_ack_recved /\ ch.close_reason = << >>
    BY <1>1, <1>2, <2>1 DEF OpenReasons
  <2>3. cpanic' = "no"
    BY <2>1, <2>2 DEF ReasonPanic, MaxReasons
  <2>4. a \in ChannelType /\ SameBut({"close_reason"}, ch, a) /\ a.close_reason = <<"server_close">>
    BY <2>2, AddCloseReasonType, ReaderFields, AppendReason DEF Reasons
  <2> HIDE DEF a
  <2>5. /\ c.close_reason = <<"server_close">> /\ c.client_socket_close
        /\ c.server_socket_close /\ c.conn_ack_recved
    BY <2>1, <2>2, <2>4 DEF SameBut, Fields, ChannelType
  <2> HIDE DEF c
  <2>6. cch'[i] = c /\ \A k \in ChanIds : k # i => cch'[k] = cch[k]
    BY <2>1 DEF TypeOK, ClientTypeOK
  <2>7. ClientFlagFirst'
    BY <2>5, <2>6 DEF ClientCloseInv, ClientFlagFirst
  <2>8. ASSUME NEW k \in ChanIds
        PROVE  cch'[k].close_reason \in Reported /\ (k \in cpool' => OpenReasons(k)')
    BY <2>1, <2>5, <2>6 DEF ClientCloseInv, OpenReasons, Reported
  <2> QED
    BY <2>3, <2>7, <2>8 DEF ClientCloseInv
<1>6. ~ClientOoops(i, ch)
  BY <1>1 DEF ClientOoops
<1> QED
  BY <1>3, <1>4, <1>5, <1>6 DEF ClientPromiseChannelClose

\* The client's goroutines and applications call no promise.
LEMMA ClientOutsideCloses ==
    ASSUME EndsInv, ClientCloseInv, ClientOutside
    PROVE  ClientCloseInv'
<1>1. CASE \E c \in Conns : Accept(c) \/ AppClose(c)
  <2>1. UNCHANGED <<cch, cpool, cpanic>>
    BY <1>1 DEF Accept, AppClose
  <2>2. \A k \in ChanIds : NotPromised(cch[k], cch'[k])
    BY <2>1 DEF NotPromised
  <2> QED
    BY <2>1, <2>2, NobodyPromisedKeeps
<1>2. ASSUME NEW i \in ChanIds,
             \/ ClientPollRead(i) \/ ClientPollQueue(i)
             \/ ClientPollEnd(i) \/ ClientPollPost(i)
      PROVE  ClientCloseInv'
  <2>1. /\ ClientAlone(i) /\ SameBut(ReadersFields, cch[i], cch'[i])
        /\ cch'[i].server_socket_close = cch[i].server_socket_close
        /\ cch[i].client_socket_close => cch'[i].client_socket_close
        /\ cch'[i].poll \in Closing => cch'[i].client_socket_close \/ cch[i].poll = "post"
        /\ UNCHANGED <<cpool, cpanic>>
    BY <1>2, ClientReaderEffect DEF EndsInv, PoolsInv
  <2>2. NotPromised(cch[i], cch'[i])
    <3>1. {"close_reason", "conn_ack_recved"} \subseteq Fields \ ReadersFields
      BY DEF Fields, ReadersFields
    <3>2. cch'[i].close_reason = cch[i].close_reason
          /\ cch'[i].conn_ack_recved = cch[i].conn_ack_recved
      BY <2>1, <3>1 DEF SameBut
    <3> QED
      BY <2>1, <3>2 DEF NotPromised, Closing
  <2>3. \A k \in ChanIds : NotPromised(cch[k], cch'[k])
    BY <2>1, <2>2 DEF NotPromised, ClientAlone
  <2> QED
    BY <2>1, <2>3, NobodyPromisedKeeps
<1> QED
  BY <1>1, <1>2 DEF ClientOutside

\* The client's handlers.
LEMMA ClientLoopCloses ==
    ASSUME EndsInv, ClientCloseInv, ClientLoop
    PROVE  ClientCloseInv'
<1>0. /\ TypeOK /\ \A k \in ChanIds : cch[k] \in ChannelType /\ cch[k].chidcli \in {0, k}
  BY DEF EndsInv, PoolsInv, HalfOpenIsNew, TypeOK, ClientTypeOK
<1>1. ASSUME NEW c \in Conns, InitConnChanel(c)
      PROVE  ClientCloseInv'
  <2> DEFINE ch == NewChannelClient(chanid0, c)
  <2>1. cch' = [cch EXCEPT ![chanid0] = ch] /\ chanid0 \in ChanIds /\ cpanic' = cpanic
    BY <1>0, <1>1, ChannelAssumption DEF InitConnChanel, TypeOK, ClientTypeOK, ChanIds
  <2>2. cpool' \subseteq cpool \cup {chanid0}
    BY <1>1 DEF InitConnChanel, SynFailed
  <2>3. ch.close_reason = << >> /\ ch.poll = "none"
    BY DEF NewChannelClient, ZeroChannel
  <2> HIDE DEF ch
  <2>4. cch'[chanid0] = ch /\ \A k \in ChanIds : k # chanid0 => cch'[k] = cch[k]
    BY <1>0, <2>1 DEF TypeOK, ClientTypeOK
  <2> DEFINE N == {chanid0}
  <2>5. /\ N \in SUBSET ChanIds /\ cpool' \subseteq cpool \cup N
        /\ \A k \in ChanIds \ N : NotPromised(cch[k], cch'[k])
        /\ \A k \in N : cch'[k].close_reason = << >> /\ cch'[k].poll = "none"
    BY <2>1, <2>2, <2>3, <2>4 DEF NotPromised
  <2> HIDE DEF N
  <2> QED
    BY <2>1, <2>5, NotPromisedKeeps
<1>2. ASSUME NEW i \in ChanIds, ClientCheckACKRecved(i)
      PROVE  ClientCloseInv'
  <2>1. CASE cch[i].conn_ack_recved
    <3>1. UNCHANGED <<cch, cpool, cpanic>>
      BY <1>2, <2>1 DEF ClientCheckACKRecved
    <3>2. \A k \in ChanIds : NotPromised(cch[k], cch'[k])
      BY <3>1 DEF NotPromised
    <3> QED
      BY <3>1, <3>2, NobodyPromisedKeeps
  <2>2. CASE ~cch[i].conn_ack_recved
    <3>1. /\ cpanic = "no" /\ RmClient(AddCloseReason(cch[i], "connect_timeout"))
          /\ cch' = [cch EXCEPT ![i] = AddCloseReason(cch[i], "connect_timeout")]
      BY <1>2, <2>2 DEF ClientCheckACKRecved, AckTimeout, ClientRunning
    <3>2. i \in cpool => cch[i].close_reason = << >>
      BY <2>2, <3>1 DEF ClientCloseInv, OpenReasons
    <3>3. "connect_timeout" \in Reasons
      BY DEF Reasons
    <3>4. i \in cpool => Append(cch[i].close_reason, "connect_timeout") \in Reported
      BY <1>0, <3>2, <3>3, AppendReason DEF Reported
    <3>5. cch[i].poll \in Closing => cch[i].client_socket_close
      BY DEF ClientCloseInv, ClientFlagFirst
    <3> QED
      BY <1>0, <3>1, <3>3, <3>4, <3>5, RmClientCloses
  <2> QED
    BY <2>1, <2>2
<1>3. ASSUME NEW i \in ChanIds, ProcessClientReadyRead(i)
      PROVE  ClientCloseInv'
  <2>1. /\ ClientAlone(i) /\ SameBut({"queued", "kcp"}, cch[i], cch'[i])
        /\ UNCHANGED <<cpool, cpanic>>
    BY <1>0, <1>3, ReadyReadEffect
  <2>2. \A k \in ChanIds : NotPromised(cch[k], cch'[k])
    BY <2>1 DEF NotPromised, ClientAlone, SameBut, Fields
  <2> QED
    BY <2>1, <2>2, NobodyPromisedKeeps
<1>4. ASSUME NEW i \in ChanIds, ClientClose(i)
      PROVE  ClientCloseInv'
  <2> DEFINE ch == [cch[i] EXCEPT !.poll = "done"]
  <2>1. /\ ClientPromiseChannelClose(i, ch) /\ cpanic = "no" /\ cch[i].poll = "posted"
    BY <1>4 DEF ClientClose, ClientRunning
  <2>2. ch \in ChannelType /\ SameBut({"poll"}, cch[i], ch)
    BY <1>0, PollType, ReaderFields DEF PollStates
  <2> HIDE DEF ch
  <2>3. ch.client_socket_close
    BY <2>1, <2>2 DEF ClientCloseInv, ClientFlagFirst, Closing, SameBut, Fields
  <2> QED
    BY <1>0, <2>1, <2>2, <2>3, ClientPromiseCloses
<1>5. CASE ClientServeKcp
  <2>1. \A k \in ChanIds : Served(cch[k], cch'[k])
    BY <1>0, <1>5, ServeKcpEffect
  <2>2. \A k \in ChanIds : NotPromised(cch[k], cch'[k])
    BY <2>1 DEF NotPromised, Served, SameBut, Fields
  <2>3. UNCHANGED <<cpool, cpanic>>
    BY <1>5 DEF ClientServeKcp
  <2> QED
    BY <2>2, <2>3, NobodyPromisedKeeps
<1>6. CASE ClientRecvAck
  <2> DEFINE ack == Head(toClient)
             i == ack.chidcli
             ch == [cch[i] EXCEPT !.conv = ack.conv, !.chidsrv = ack.chidsrv,
                      !.kcp = NewKCP, !.conn_ack_recved = TRUE, !.poll = "reading"]
  <2>1. UNCHANGED <<cpool, cpanic>> /\ (cch' = cch \/ (cch' = [cch EXCEPT ![i] = ch] /\ i \in cpool))
    BY <1>6 DEF ClientRecvAck, AckConnects
  <2>2. CASE cch' = cch
    <3>1. \A k \in ChanIds : NotPromised(cch[k], cch'[k])
      BY <2>2 DEF NotPromised
    <3> QED
      BY <2>1, <3>1, NobodyPromisedKeeps
  <2>3. CASE cch' = [cch EXCEPT ![i] = ch] /\ i \in cpool
    <3>1. i \in ChanIds /\ cch[i] \in ChannelType
      BY <1>0, <2>3 DEF TypeOK, ClientTypeOK
    <3>2. NotPromised(cch[i], ch)
      BY <3>1 DEF NotPromised, ChannelType, Closing
    <3> HIDE DEF ch
    <3>3. \A k \in ChanIds : NotPromised(cch[k], cch'[k])
      <4>1. \A k \in ChanIds : k # i => cch'[k] = cch[k]
        BY <1>0, <2>3 DEF TypeOK, ClientTypeOK
      <4>2. cch'[i] = ch
        BY <1>0, <2>3, <3>1 DEF TypeOK, ClientTypeOK
      <4> QED
        BY <3>2, <4>1, <4>2 DEF NotPromised
    <3> QED
      BY <2>1, <3>3, NobodyPromisedKeeps
  <2> QED
    BY <2>1, <2>2, <2>3
<1>7. CASE ClientRecvFin
  <2> DEFINE i == cpool2[Head(toClient).conv]
             ch == [cch[i] EXCEPT !.server_socket_close = TRUE]
  <2>1. cpanic = "no"
    BY <1>7 DEF ClientRecvFin, ClientRunning
  <2>2. CASE i = 0
    <3>1. UNCHANGED <<cch, cpool, cpanic>>
      BY <1>7, <2>2 DEF ClientRecvFin
    <3>2. \A k \in ChanIds : NotPromised(cch[k], cch'[k])
      BY <3>1 DEF NotPromised
    <3> QED
      BY <3>1, <3>2, NobodyPromisedKeeps
  <2>3. CASE i # 0
    <3>1. ClientPromiseChannelClose(i, ch)
      BY <1>7, <2>3 DEF ClientRecvFin
    <3>2. Head(toClient).conv \in Conv0
      <4>1. Head(toClient) \in Packet
        BY <1>0, <1>7 DEF ClientRecvFin, TypeOK, NetTypeOK
      <4> QED
        BY <4>1 DEF Packet
    <3>3. i \in ChanIds /\ i \in cpool /\ cch[i].conn_ack_recved
      BY <1>0, <2>3, <3>2 DEF EndsInv, ConvsLead, TypeOK, ClientTypeOK
    <3>4. ch \in ChannelType /\ SameBut({"server_socket_close"}, cch[i], ch)
      BY <1>0, <3>3, FinFields
    <3>5. ch.server_socket_close
      BY <1>0, <3>3 DEF ChannelType
    <3> HIDE DEF ch, i
    <3> QED
      BY <1>0, <2>1, <3>1, <3>3, <3>4, <3>5, ClientPromiseCloses
  <2> QED
    BY <2>2, <2>3
<1>8. ASSUME NEW p \in lossyS, ClientRecvLossy(p)
      PROVE  ClientCloseInv'
  <2> DEFINE i == cpool2[p.conv]
             ch == [cch[i] EXCEPT !.kcp = KcpInput(cch[i].kcp, p)]
  <2>1. UNCHANGED <<cpool, cpanic>> /\ (cch' = cch \/ (cch' = [cch EXCEPT ![i] = ch] /\ i # 0))
    BY <1>8 DEF ClientRecvLossy
  <2>2. CASE cch' = cch
    <3>1. \A k \in ChanIds : NotPromised(cch[k], cch'[k])
      BY <2>2 DEF NotPromised
    <3> QED
      BY <2>1, <3>1, NobodyPromisedKeeps
  <2>3. CASE cch' = [cch EXCEPT ![i] = ch] /\ i # 0
    <3>1. i \in ChanIds
      BY <1>0, <2>3 DEF TypeOK, ClientTypeOK, NetTypeOK, KcpPacket
    <3>2. SameBut({"kcp"}, cch[i], ch)
      BY <1>0, <3>1, ReaderFields
    <3> HIDE DEF ch, i
    <3>3. cch'[i] = ch /\ \A k \in ChanIds : k # i => cch'[k] = cch[k]
      BY <1>0, <2>3, <3>1 DEF TypeOK, ClientTypeOK
    <3>4. \A k \in ChanIds : NotPromised(cch[k], cch'[k])
      BY <3>2, <3>3 DEF NotPromised, SameBut, Fields
    <3> QED
      BY <2>1, <3>4, NobodyPromisedKeeps
  <2> QED
    BY <2>1, <2>2, <2>3
<1> QED
  BY <1>1, <1>2, <1>3, <1>4, <1>5, <1>6, <1>7, <1>8 DEF ClientLoop

-----------------------------------------------------------------------------
(***************************************************************************)
(* The server's closing promise.                                           *)
(***************************************************************************)
\* 1 for what has happened.
One(b) == IF b THEN 1 ELSE 0

\* A channel adds a reason when it handles its ServerCloseEvent, when it leaves
\* the pools and when the client's FIN sets its flag: each happens once.
ReasonsCounted(j) ==
    Len(sch[j].close_reason) <=
        One(sch[j].poll = "done") + One(j \notin spool) + One(sch[j].server_socket_close)

ServerFlagFirst == \A j \in ChanIds : sch[j].poll \in Closing => sch[j].server_socket_close

ServerCloseInv ==
    /\ ServerFlagFirst
    /\ spanic \notin {"Ooops", "wtf"}
    /\ \A j \in ChanIds : ReasonsCounted(j)

\* b is what a has become, with no reason more.
NoReasonMore(a, b) ==
    /\ b.close_reason = a.close_reason
    /\ a.poll = "done" => b.poll = "done"
    /\ a.server_socket_close => b.server_socket_close
    /\ b.poll \in Closing => b.server_socket_close \/ a.poll \in Closing

LEMMA NoReasonMoreKeeps ==
    ASSUME ServerCloseInv, TypeOK, NEW N \in SUBSET ChanIds,
           \A k \in ChanIds \ N : NoReasonMore(sch[k], sch'[k]),
           \A k \in N : sch'[k].close_reason = << >> /\ sch'[k].poll = "dial",
           spool' \subseteq spool \cup N, spanic' \notin {"Ooops", "wtf"}
    PROVE  ServerCloseInv'
<1>1. ServerFlagFirst'
  BY DEF ServerCloseInv, ServerFlagFirst, NoReasonMore, Closing
<1>2. ASSUME NEW k \in ChanIds \ N PROVE ReasonsCounted(k)'
  <2>1. Len(sch[k].close_reason) \in Nat
    BY AppendReason DEF TypeOK, ServerTypeOK, Reasons
  <2>2. /\ ReasonsCounted(k) /\ NoReasonMore(sch[k], sch'[k])
        /\ (k \notin spool => k \notin spool')
    BY DEF ServerCloseInv
  <2> QED
    BY <2>1, <2>2 DEF ReasonsCounted, NoReasonMore, One
<1>3. ASSUME NEW k \in N PROVE ReasonsCounted(k)'
  <2>1. Len(sch'[k].close_reason) = 0
    OBVIOUS
  <2> QED
    BY <2>1 DEF ReasonsCounted, One
<1> QED
  BY <1>1, <1>2, <1>3 DEF ServerCloseInv

LEMMA NoReasonsMoreKeep ==
    ASSUME ServerCloseInv, TypeOK, \A k \in ChanIds : NoReasonMore(sch[k], sch'[k]),
           spool' \subseteq spool, spanic' \notin {"Ooops", "wtf"}
    PROVE  ServerCloseInv'
<1> DEFINE N == {}
<1>1. /\ N \in SUBSET ChanIds /\ spool' \subseteq spool \cup N
      /\ \A k \in ChanIds \ N : NoReasonMore(sch[k], sch'[k])
      /\ \A k \in N : sch'[k].close_reason = << >> /\ sch'[k].poll = "dial"
  OBVIOUS
<1> HIDE DEF N
<1> QED
  BY <1>1, NoReasonMoreKeeps

\* A reason that one of its three occasions accounts for.
LEMMA ReasonKeeps ==
    ASSUME ServerCloseInv, TypeOK, NEW j \in ChanIds, NEW c, NEW r \in Reasons,
           sch' = [sch EXCEPT ![j] = c],
           c.close_reason = Append(sch[j].close_reason, r),
           sch[j].poll = "done" => c.poll = "done",
           sch[j].server_socket_close => c.server_socket_close,
           c.poll \in Closing => c.server_socket_close,
           \/ sch[j].poll # "done" /\ c.poll = "done"
           \/ j \in spool /\ j \notin spool'
           \/ ~sch[j].server_socket_close /\ c.server_socket_close,
           spool' \subseteq spool, spanic' \notin {"Ooops", "wtf"}
    PROVE  ServerCloseInv'
<1>1. sch'[j] = c /\ \A k \in ChanIds : k # j => sch'[k] = sch[k]
  BY DEF TypeOK, ServerTypeOK
<1>2. ServerFlagFirst'
  BY <1>1 DEF ServerCloseInv, ServerFlagFirst
<1>3. \A k \in ChanIds : Len(sch[k].close_reason) \in Nat
  BY AppendReason DEF TypeOK, ServerTypeOK, Reasons
<1>4. Len(c.close_reason) = Len(sch[j].close_reason) + 1
  BY AppendReason DEF TypeOK, ServerTypeOK
<1>5. ReasonsCounted(j)'
  <2>1. ReasonsCounted(j)
    BY DEF ServerCloseInv
  <2>2. sch[j].server_socket_close \in BOOLEAN
    BY DEF TypeOK, ServerTypeOK, ChannelType
  <2> QED
    BY <1>1, <1>3, <1>4, <2>1, <2>2 DEF ReasonsCounted, One
<1>6. ASSUME NEW k \in ChanIds, k # j PROVE ReasonsCounted(k)'
  <2>1. ReasonsCounted(k) /\ sch'[k] = sch[k] /\ (k \notin spool => k \notin spool')
    BY <1>1, <1>6 DEF ServerCloseInv
  <2> QED
    BY <1>3, <2>1 DEF ReasonsCounted, One
<1> QED
  BY <1>2, <1>5, <1>6 DEF ServerCloseInv

\* Three reasons are too few for addCloseReason to panic.
LEMMA NoReasonPanic ==
    ASSUME ServerCloseInv, TypeOK, NEW j \in ChanIds
    PROVE  ~ReasonPanic(sch[j])
<1>1. Len(sch[j].close_reason) \in Nat
  BY AppendReason DEF TypeOK, ServerTypeOK, Reasons
<1>2. ReasonsCounted(j)
  BY DEF ServerCloseInv
<1> QED
  BY <1>1, <1>2 DEF ReasonsCounted, One, ReasonPanic, MaxReasons

\* The promise meets four of its five cases.
LEMMA ServerPromiseCloses ==
    ASSUME ServerCloseInv, TypeOK, NEW j \in ChanIds, NEW ch \in ChannelType,
           \/ /\ sch[j].poll = "posted" /\ ch.poll = "done" /\ ch.server_socket_close
              /\ SameBut({"poll"}, sch[j], ch)
           \/ /\ j \in spool /\ ch.client_socket_close
              /\ SameBut({"client_socket_close"}, sch[j], ch),
           ServerPromiseChannelClose(j, ch), ServerRunning
    PROVE  ServerCloseInv'
<1>1. /\ ch.close_reason = sch[j].close_reason
      /\ ch.server_socket_close = sch[j].server_socket_close
      /\ sch[j].poll = "done" => ch.poll = "done"
      /\ ch.poll \in Closing => ch.server_socket_close
  BY DEF SameBut, Fields, ServerCloseInv, ServerFlagFirst
<1>2. ~ReasonPanic(ch)
  BY <1>1, NoReasonPanic DEF ReasonPanic
<1>3. \/ sch[j].poll # "done" /\ ch.poll = "done"
      \/ j \in spool /\ ch.client_socket_close
  OBVIOUS
<1>4. ASSUME NEW r \in Reasons, SetReason(j, ch, r), spool' \subseteq spool,
             ch.client_socket_close => j \notin spool'
      PROVE  ServerCloseInv'
  <2> DEFINE c == AddCloseReason(ch, r)
  <2>1. sch' = [sch EXCEPT ![j] = c] /\ spanic' = "no"
    BY <1>2, <1>4 DEF SetReason
  <2>2. SameBut({"close_reason"}, ch, c) /\ c.close_reason = Append(sch[j].close_reason, r)
    BY <1>1, ReaderFields, AppendReason
  <2>3. c.poll = ch.poll /\ c.server_socket_close = ch.server_socket_close
    BY <2>2 DEF SameBut, Fields
  <2> HIDE DEF c
  <2> QED
    BY <1>1, <1>3, <1>4, <2>1, <2>2, <2>3, ReasonKeeps
<1>5. CASE ServerNotifyClient(j, ch)
  <2>1. CASE link
    BY <1>4, <1>5, <2>1 DEF ServerNotifyClient, RmServer, Reasons
  <2>2. CASE ~link
    <3>1. sch' = [sch EXCEPT ![j] = ch] /\ UNCHANGED <<spool, spanic>>
      BY <1>5, <2>2 DEF ServerNotifyClient
    <3>2. sch'[j] = ch /\ \A k \in ChanIds : k # j => sch'[k] = sch[k]
      BY <3>1 DEF TypeOK, ServerTypeOK
    <3>3. \A k \in ChanIds : NoReasonMore(sch[k], sch'[k])
      BY <1>1, <3>2 DEF NoReasonMore
    <3> QED
      BY <3>1, <3>3, NoReasonsMoreKeep DEF ServerCloseInv
  <2> QED
    BY <2>1, <2>2
<1>6. CASE ServerStillSending(j, ch)
  BY <1>4, <1>6 DEF ServerStillSending, Reasons
<1>7. CASE ServerForceClose(j, ch)
  <2> DEFINE a == AddCloseReason(ch, "client_close")
             c == [a EXCEPT !.server_socket_close = TRUE]
  <2>1. /\ sch' = [sch EXCEPT ![j] = c] /\ spool' = spool /\ spanic' \in {"no", "nilconn"}
        /\ ~sch[j].server_socket_close
    BY <1>1, <1>2, <1>7 DEF ServerForceClose
  <2>2. /\ a \in ChannelType /\ SameBut({"close_reason"}, ch, a)
        /\ a.close_reason = Append(sch[j].close_reason, "client_close")
    BY <1>1, AddCloseReasonType, ReaderFields, AppendReason DEF Reasons
  <2> HIDE DEF a
  <2>3. /\ c.close_reason = Append(sch[j].close_reason, "client_close")
        /\ c.server_socket_close /\ c.poll = ch.poll
    BY <2>2 DEF SameBut, Fields, ChannelType
  <2> HIDE DEF c
  <2> QED
    BY <1>1, <2>1, <2>3, ReasonKeeps DEF Reasons
<1>8. CASE ServerBothClosed(j, ch)
  BY <1>4, <1>8 DEF ServerBothClosed, RmServer, Reasons
<1>9. ~ServerOoops(j, ch)
  BY <1>1 DEF ServerOoops
<1> QED
  BY <1>5, <1>6, <1>7, <1>8, <1>9 DEF ServerPromiseChannelClose

\* kcpCheckClose adds a reason to the channels it removes.
LEMMA KcpCheckCloseCloses ==
    ASSUME ServerCloseInv, TypeOK, KcpCheckClose
    PROVE  ServerCloseInv'
<1> DEFINE drained == {j \in ChanIds : KcpDrained(j)}
           finished == {j \in drained : ~sch[j].client_socket_close}
           removed == IF link THEN drained ELSE drained \ finished
           Marked(j) == [sch[j] EXCEPT !.server_kcp_close = TRUE]
<1>1. /\ \A j \in ChanIds :
            sch'[j] = IF j \notin drained THEN sch[j]
                  ELSE IF j \notin finished THEN AddCloseReason(Marked(j), "both_close")
                  ELSE IF link THEN AddCloseReason(Marked(j), "server_close")
                  ELSE Marked(j)
      /\ spool' = spool \ removed
      /\ spanic' = IF \E j \in removed : ReasonPanic(sch[j]) THEN "wtf" ELSE "no"
  BY DEF KcpCheckClose
<1>2. drained \subseteq spool /\ drained \subseteq ChanIds /\ removed \subseteq drained
  BY DEF KcpDrained
<1>3. spanic' = "no"
  BY <1>1, <1>2, NoReasonPanic
<1>4. \A j \in ChanIds : /\ Marked(j) \in ChannelType
                         /\ SameBut({"server_kcp_close"}, sch[j], Marked(j))
  BY ZenonT(60) DEF ChannelType, SameBut, Fields, TypeOK, ServerTypeOK
<1>5. \A j \in ChanIds : j \in drained /\ j \notin removed => j \in finished /\ ~link
  OBVIOUS
<1>6. \A j \in ChanIds : j \in removed => j \notin finished \/ link
  OBVIOUS
<1> HIDE DEF Marked, drained, finished, removed
<1>7. ASSUME NEW j \in ChanIds
      PROVE  /\ sch'[j].poll = sch[j].poll
             /\ sch'[j].server_socket_close = sch[j].server_socket_close
             /\ sch'[j].close_reason = sch[j].close_reason
                \/ /\ j \in removed
                   /\ \E r \in Reasons : sch'[j].close_reason = Append(sch[j].close_reason, r)
  <2>1. /\ Marked(j).poll = sch[j].poll
        /\ Marked(j).server_socket_close = sch[j].server_socket_close
        /\ Marked(j).close_reason = sch[j].close_reason
    BY <1>4 DEF SameBut, Fields
  <2>2. ASSUME NEW r \in Reasons, sch'[j] = AddCloseReason(Marked(j), r)
        PROVE  /\ sch'[j].poll = sch[j].poll
               /\ sch'[j].server_socket_close = sch[j].server_socket_close
               /\ sch'[j].close_reason = Append(sch[j].close_reason, r)
    <3>1. SameBut({"close_reason"}, Marked(j), sch'[j])
      BY <1>4, <2>2, ReaderFields
    <3>2. sch'[j].close_reason = Append(Marked(j).close_reason, r)
      BY <1>4, <2>2, AppendReason
    <3> QED
      BY <2>1, <3>1, <3>2 DEF SameBut, Fields
  <2>3. \/ sch'[j] = sch[j] \/ sch'[j] = Marked(j)
        \/ /\ j \in removed
           /\ \E r \in Reasons : sch'[j] = AddCloseReason(Marked(j), r)
    BY <1>1, <1>5 DEF Reasons
  <2> QED
    BY <2>1, <2>2, <2>3
<1>8. ServerFlagFirst'
  BY <1>7 DEF ServerCloseInv, ServerFlagFirst
<1>9. ASSUME NEW j \in ChanIds PROVE ReasonsCounted(j)'
  <2>1. Len(sch[j].close_reason) \in Nat
    BY AppendReason DEF TypeOK, ServerTypeOK, Reasons
  <2>2. ReasonsCounted(j)
    BY DEF ServerCloseInv
  <2>3. CASE sch'[j].close_reason = sch[j].close_reason
    <3>1. j \notin spool => j \notin spool'
      BY <1>1
    <3> QED
      BY <1>7, <2>1, <2>2, <2>3, <3>1 DEF ReasonsCounted, One
  <2>4. ASSUME NEW r \in Reasons, sch'[j].close_reason = Append(sch[j].close_reason, r),
               j \in removed
        PROVE  ReasonsCounted(j)'
    <3>1. Len(sch'[j].close_reason) = Len(sch[j].close_reason) + 1
      BY <2>4, AppendReason DEF TypeOK, ServerTypeOK
    <3>2. j \in spool /\ j \notin spool'
      BY <1>1, <1>2, <2>4
    <3> QED
      BY <1>7, <2>1, <2>2, <3>1, <3>2 DEF ReasonsCounted, One
  <2> QED
    BY <1>7, <2>3, <2>4
<1> QED
  BY <1>3, <1>8, <1>9 DEF ServerCloseInv

\* The server's goroutines, backends and handlers.
LEMMA ServerCloses ==
    ASSUME EndsInv, ServerCloseInv, ServerLoop \/ ServerOutside
    PROVE  ServerCloseInv'
<1>0. /\ TypeOK /\ \A k \in ChanIds : sch[k] \in ChannelType
  BY DEF EndsInv, PoolsInv, TypeOK, ServerTypeOK
<1>1. ASSUME NEW j \in ChanIds, ServerDialFails(j) \/ BackendClose(j)
      PROVE  ServerCloseInv'
  <2>1. UNCHANGED <<sch, spool>> /\ spanic' \in {spanic, "dial"}
    BY <1>1 DEF ServerDialFails, BackendClose
  <2>2. \A k \in ChanIds : NoReasonMore(sch[k], sch'[k])
    BY <2>1 DEF NoReasonMore
  <2> QED
    BY <1>0, <2>1, <2>2, NoReasonsMoreKeep DEF ServerCloseInv
<1>2. ASSUME NEW j \in ChanIds,
             \/ ServerDial(j) \/ ServerPollRead(j) \/ ServerPollQueue(j)
             \/ ServerPollEnd(j) \/ ServerPollPost(j)
      PROVE  ServerCloseInv'
  <2>1. /\ ServerAlone(j) /\ SameBut(ReadersFields, sch[j], sch'[j])
        /\ sch[j].server_socket_close => sch'[j].server_socket_close
        /\ sch'[j].poll \in Closing => sch'[j].server_socket_close \/ sch[j].poll = "post"
        /\ sch[j].poll # "done" /\ UNCHANGED <<spool, spanic>>
    BY <1>0, <1>2, ServerReaderEffect
  <2>2. sch'[j].close_reason = sch[j].close_reason
    BY <2>1 DEF SameBut, Fields, ReadersFields
  <2>3. \A k \in ChanIds : NoReasonMore(sch[k], sch'[k])
    BY <2>1, <2>2 DEF NoReasonMore, ServerAlone, Closing
  <2> QED
    BY <1>0, <2>1, <2>3, NoReasonsMoreKeep DEF ServerCloseInv
<1>3. ASSUME NEW j \in ChanIds, ProcessServerReadyRead(j)
      PROVE  ServerCloseInv'
  <2>1. /\ ServerAlone(j) /\ SameBut({"queued", "kcp"}, sch[j], sch'[j])
        /\ UNCHANGED <<spool, spanic>>
    BY <1>0, <1>3, ReadyReadEffect
  <2>2. \A k \in ChanIds : NoReasonMore(sch[k], sch'[k])
    BY <2>1 DEF NoReasonMore, ServerAlone, SameBut, Fields
  <2> QED
    BY <1>0, <2>1, <2>2, NoReasonsMoreKeep DEF ServerCloseInv
<1>4. ASSUME NEW j \in ChanIds, ServerClose(j)
      PROVE  ServerCloseInv'
  <2> DEFINE ch == [sch[j] EXCEPT !.poll = "done"]
  <2>1. ServerPromiseChannelClose(j, ch) /\ ServerRunning /\ sch[j].poll = "posted"
    BY <1>4 DEF ServerClose
  <2>2. ch \in ChannelType /\ SameBut({"poll"}, sch[j], ch)
    BY <1>0, PollType, ReaderFields DEF PollStates
  <2>3. ch.poll = "done"
    BY <1>0 DEF ChannelType
  <2> HIDE DEF ch
  <2>4. ch.server_socket_close
    BY <2>1, <2>2 DEF ServerCloseInv, ServerFlagFirst, Closing, SameBut, Fields
  <2> QED
    BY <1>0, <2>1, <2>2, <2>3, <2>4, ServerPromiseCloses
<1>5. ASSUME NEW S \in SUBSET spool, ServerServeKcp(S)
      PROVE  ServerCloseInv'
  <2>1. \A k \in ChanIds : Served(sch[k], sch'[k])
    BY <1>0, <1>5, ServeKcpEffect
  <2>2. \A k \in ChanIds : NoReasonMore(sch[k], sch'[k])
    BY <2>1 DEF NoReasonMore, Served, SameBut, Fields
  <2>3. spool' = spool /\ spanic' \in {"no", "nilconn"}
    BY <1>5 DEF ServerServeKcp
  <2> QED
    BY <1>0, <2>2, <2>3, NoReasonsMoreKeep
<1>6. CASE ServerRecvSyn
  <2>1. PICK v, ch :
              /\ v \in MakeKcpConv
              /\ chidsrv0 \in ChanIds /\ sch' = [sch EXCEPT ![chidsrv0] = ch]
              /\ ch.poll = "dial" /\ ch.close_reason = << >>
              /\ spool' = spool \cup {chidsrv0}
    BY <1>6, ServerRecvSynEffect DEF EndsInv
  <2>2. sch'[chidsrv0] = ch /\ \A k \in ChanIds : k # chidsrv0 => sch'[k] = sch[k]
    BY <1>0, <2>1 DEF TypeOK, ServerTypeOK
  <2>3. spanic' = spanic
    BY <1>6 DEF ServerRecvSyn
  <2> DEFINE N == {chidsrv0}
  <2>4. /\ N \in SUBSET ChanIds /\ spool' \subseteq spool \cup N
        /\ \A k \in ChanIds \ N : NoReasonMore(sch[k], sch'[k])
        /\ \A k \in N : sch'[k].close_reason = << >> /\ sch'[k].poll = "dial"
    BY <2>1, <2>2 DEF NoReasonMore
  <2> HIDE DEF N
  <2> QED
    BY <1>0, <2>3, <2>4, NoReasonMoreKeeps DEF ServerCloseInv
<1>7. CASE ServerRecvFin
  <2> DEFINE j == spool2[Head(toServer).conv]
             ch == [sch[j] EXCEPT !.client_socket_close = TRUE]
  <2>1. CASE j = 0
    <3>1. UNCHANGED <<sch, spool, spanic>>
      BY <1>7, <2>1 DEF ServerRecvFin
    <3>2. \A k \in ChanIds : NoReasonMore(sch[k], sch'[k])
      BY <3>1 DEF NoReasonMore
    <3> QED
      BY <1>0, <3>1, <3>2, NoReasonsMoreKeep DEF ServerCloseInv
  <2>2. CASE j # 0
    <3>1. ServerPromiseChannelClose(j, ch) /\ ServerRunning
      BY <1>7, <2>2 DEF ServerRecvFin
    <3>2. Head(toServer).conv \in Conv0
      <4>1. Head(toServer) \in Packet
        BY <1>0, <1>7 DEF ServerRecvFin, TypeOK, NetTypeOK
      <4> QED
        BY <4>1 DEF Packet
    <3>3. j \in ChanIds /\ j \in spool
      BY <1>0, <2>2, <3>2 DEF EndsInv, PoolsInv, ServerPoolsAgree, TypeOK, ServerTypeOK
    <3>4. ch \in ChannelType /\ SameBut({"client_socket_close"}, sch[j], ch)
      BY <1>0, <3>3, FinFields
    <3>5. ch.client_socket_close
      BY <1>0, <3>3 DEF ChannelType
    <3> HIDE DEF ch, j
    <3> QED
      BY <1>0, <3>1, <3>3, <3>4, <3>5, ServerPromiseCloses
  <2> QED
    BY <2>1, <2>2
<1>8. ASSUME NEW p \in lossyC, ServerRecvLossy(p)
      PROVE  ServerCloseInv'
  <2> DEFINE j == spool2[p.conv]
             ch == [sch[j] EXCEPT !.kcp = KcpInput(sch[j].kcp, p)]
  <2>1. sch' = [sch EXCEPT ![j] = ch] /\ j # 0 /\ UNCHANGED <<spool, spanic>>
    BY <1>8 DEF ServerRecvLossy
  <2>2. j \in ChanIds
    BY <1>0, <2>1 DEF TypeOK, ServerTypeOK, NetTypeOK, KcpPacket
  <2>3. SameBut({"kcp"}, sch[j], ch)
    BY <1>0, <2>2, ReaderFields
  <2> HIDE DEF ch, j
  <2>4. sch'[j] = ch /\ \A k \in ChanIds : k # j => sch'[k] = sch[k]
    BY <1>0, <2>1, <2>2 DEF TypeOK, ServerTypeOK
  <2>5. \A k \in ChanIds : NoReasonMore(sch[k], sch'[k])
    BY <2>3, <2>4 DEF NoReasonMore, SameBut, Fields
  <2> QED
    BY <1>0, <2>1, <2>5, NoReasonsMoreKeep DEF ServerCloseInv
<1> QED
  BY <1>0, <1>1, <1>2, <1>3, <1>4, <1>5, <1>6, <1>7, <1>8, KcpCheckCloseCloses
     DEF ServerLoop, ServerOutside

-----------------------------------------------------------------------------
CloseInv == DataInv /\ ClientCloseInv /\ ServerCloseInv

\* No channel has a reason at the start, ...
LEMMA CloseInit == Init => CloseInv
<1> SUFFICES ASSUME Init PROVE CloseInv
  OBVIOUS
<1>1. /\ \A i \in ChanIds : cch[i] = ZeroChannel /\ sch[i] = ZeroChannel
      /\ cpanic = "no" /\ spanic = "no" /\ cpool = {}
  BY DEF Init, ClientInit, ServerInit
<1>2. ZeroChannel.close_reason = << >> /\ ZeroChannel.poll = "none"
  BY DEF ZeroChannel
<1>3. ClientCloseInv
  BY <1>1, <1>2 DEF ClientCloseInv, ClientFlagFirst, Reported, Closing
<1>4. ServerCloseInv
  <2>1. \A j \in ChanIds : Len(sch[j].close_reason) = 0
    BY <1>1, <1>2
  <2> QED
    BY <1>1, <1>2, <2>1 DEF ServerCloseInv, ServerFlagFirst, ReasonsCounted, One, Closing
<1> QED
  BY <1>3, <1>4, DataInit DEF CloseInv

\* ... and every step keeps the account of them.
LEMMA CloseStep == CloseInv /\ [Next]_vars => CloseInv'
<1> SUFFICES ASSUME CloseInv, [Next]_vars PROVE CloseInv'
  OBVIOUS
<1>1. DataInv' /\ EndsInv /\ TypeOK
  BY DataStep DEF CloseInv, DataInv, EndsInv, PoolsInv
<1>2. ASSUME UNCHANGED clientVars PROVE ClientCloseInv'
  <2>1. UNCHANGED <<cch, cpool, cpanic>>
    BY <1>2 DEF clientVars
  <2>2. \A k \in ChanIds : NotPromised(cch[k], cch'[k])
    BY <2>1 DEF NotPromised
  <2> QED
    BY <2>1, <2>2, NobodyPromisedKeeps DEF CloseInv
<1>3. ASSUME UNCHANGED serverVars PROVE ServerCloseInv'
  <2>1. UNCHANGED <<sch, spool, spanic>>
    BY <1>3 DEF serverVars
  <2>2. \A k \in ChanIds : NoReasonMore(sch[k], sch'[k])
    BY <2>1 DEF NoReasonMore
  <2> QED
    BY <1>1, <2>1, <2>2, NoReasonsMoreKeep DEF CloseInv, ServerCloseInv
<1>4. CASE (ClientLoop \/ ClientOutside) /\ UNCHANGED serverVars
  BY <1>1, <1>3, <1>4, ClientLoopCloses, ClientOutsideCloses DEF CloseInv
<1>5. CASE (ServerLoop \/ ServerOutside) /\ UNCHANGED clientVars
  BY <1>1, <1>2, <1>5, ServerCloses DEF CloseInv
<1>6. CASE (LinkDown \/ LinkUp) /\ UNCHANGED <<clientVars, serverVars>>
  BY <1>1, <1>2, <1>3, <1>6 DEF CloseInv
<1>7. CASE UNCHANGED vars
  BY <1>1, <1>2, <1>3, <1>7 DEF CloseInv, vars
<1> QED
  BY <1>4, <1>5, <1>6, <1>7 DEF Next

\* promiseChannelClose of both ends meets no case it calls impossible, whatever
\* the order of timers, events of the readers, FINs and link failures; no channel
\* collects enough reasons for addCloseReason to panic; and while the client's
\* process lives its channels carry the documented reasons and no others.
THEOREM PromisesAreKept == Spec => []ClosesAsPromised
<1>1. CloseInv => ClosesAsPromised
  BY DEF CloseInv, ClientCloseInv, ServerCloseInv, ClosesAsPromised, PromiseIsTotal,
         ReportedReasons, Reported
<1> QED
  BY CloseInit, CloseStep, <1>1, PTL DEF Spec

-----------------------------------------------------------------------------
(***************************************************************************)
(* The word of an end.                                                     *)
(***************************************************************************)

\* A message of this command for conversation v is on the way.
CmdIn(q, cmd, v) == \E k \in 1..Len(q) : q[k].command = cmd /\ q[k].conv = v

\* The server's word for a conversation comes after its ACK.
AcksFirst(q) ==
    \A k, l \in 1..Len(q) :
        /\ q[k].command = CMDCLOSEFIN /\ q[l].command = CMDCONNACK
        /\ q[k].conv = q[l].conv
        => l < k

\* What each side knows of server channel j and the channel i it answers.
WordOf(j) ==
    LET i == sch[j].chidcli
        v == sch[j].conv
    IN \* The client's half-open channel is about to be connected.
       /\ i \in cpool /\ ~cch[i].conn_ack_recved => CmdIn(toClient, CMDCONNACK, v)
       \* The server is told of an end only when the client has removed its own.
       /\ CmdIn(toServer, CMDCLOSEFIN, v) \/ sch[j].client_socket_close => i \notin cpool
       \* The client's channel has its partner, or word of its end is coming.
       /\ i \in cpool /\ ~cch[i].server_socket_close =>
             j \in spool \/ CmdIn(toClient, CMDCLOSEFIN, v)
       \* The client is told of an end only when the server has removed its own.
       /\ CmdIn(toClient, CMDCLOSEFIN, v) \/ cch[i].server_socket_close => j \notin spool
       \* The server's channel has its partner, or word of its end is coming, or
       \* an ACK is that the client will answer with it.
       /\ j \in spool /\ ~sch[j].client_socket_close =>
             \/ i \in cpool
             \/ CmdIn(toClient, CMDCONNACK, v) \/ CmdIn(toServer, CMDCLOSEFIN, v)

\* A FIN on the way is of no conversation or of one that was made.
FinsKnown(q) ==
    \A v \in Conv0 : CmdIn(q, CMDCLOSEFIN, v) =>
        v = 0 \/ \E j \in 1..chidsrv0 - 1 : sch[j].conv = v

WordInv ==
    /\ link
    /\ \A j \in 1..chidsrv0 - 1 : WordOf(j)
    /\ FinsKnown(toServer) /\ FinsKnown(toClient)
    /\ AcksFirst(toClient)
    /\ \A i \in ChanIds : cch[i].server_socket_close => cch[i].conn_ack_recved
    /\ \A i \in cpool : cch[i].chidcli = i

-----------------------------------------------------------------------------
(***************************************************************************)
(* The queues.                                                             *)
(***************************************************************************)
LEMMA CmdInTail ==
    ASSUME NEW q \in Seq(Packet), q # << >>, NEW cmd, NEW v
    PROVE  /\ CmdIn(Tail(q), cmd, v) => CmdIn(q, cmd, v)
           /\ CmdIn(q, cmd, v) =>
                CmdIn(Tail(q), cmd, v) \/ (Head(q).command = cmd /\ Head(q).conv = v)
<1>1. /\ Len(q) \in Nat /\ Len(Tail(q)) = Len(q) - 1 /\ Head(q) = q[1]
      /\ \A k \in 1..Len(Tail(q)) : k + 1 \in 1..Len(q) /\ Tail(q)[k] = q[k + 1]
  OBVIOUS
<1>2. \A k \in 1..Len(q) : k = 1 \/ (k - 1 \in 1..Len(Tail(q)) /\ (k - 1) + 1 = k)
  BY <1>1
<1>3. \A k \in 1..Len(q) : k = 1 \/ (k - 1 \in 1..Len(Tail(q)) /\ Tail(q)[k - 1] = q[k])
  BY <1>1, <1>2
<1> QED
  BY <1>1, <1>3 DEF CmdIn

LEMMA CmdInAppend ==
    ASSUME NEW q \in Seq(Packet), NEW p \in Packet, NEW cmd, NEW v
    PROVE  CmdIn(Append(q, p), cmd, v) <=>
              CmdIn(q, cmd, v) \/ (p.command = cmd /\ p.conv = v)
<1>1. /\ Len(q) \in Nat /\ Len(Append(q, p)) = Len(q) + 1 /\ Append(q, p)[Len(q) + 1] = p
      /\ \A k \in 1..Len(q) : k \in 1..Len(Append(q, p)) /\ Append(q, p)[k] = q[k]
  OBVIOUS
<1>2. /\ \A k \in 1..Len(Append(q, p)) : k \in 1..Len(q) \/ k = Len(q) + 1
      /\ Len(q) + 1 \in 1..Len(Append(q, p))
  BY <1>1
<1> QED
  BY <1>1, <1>2 DEF CmdIn

LEMMA CmdInConcat ==
    ASSUME NEW q \in Seq(Packet), NEW r \in Seq(Packet), NEW cmd, NEW v
    PROVE  CmdIn(q \o r, cmd, v) <=> CmdIn(q, cmd, v) \/ CmdIn(r, cmd, v)
<1>1. /\ Len(q) \in Nat /\ Len(r) \in Nat /\ Len(q \o r) = Len(q) + Len(r)
      /\ \A k \in 1..Len(q) : (q \o r)[k] = q[k]
      /\ \A k \in Len(q) + 1..Len(q) + Len(r) : (q \o r)[k] = r[k - Len(q)]
  OBVIOUS
<1>2. /\ \A k \in 1..Len(q) : k \in 1..Len(q \o r)
      /\ \A k \in 1..Len(r) : k + Len(q) \in 1..Len(q \o r) /\ (q \o r)[k + Len(q)] = r[k]
      /\ \A k \in 1..Len(q \o r) :
            k \in 1..Len(q) \/ (k - Len(q) \in 1..Len(r) /\ (q \o r)[k] = r[k - Len(q)])
  BY <1>1
<1> QED
  BY SMTT(60), <1>1, <1>2 DEF CmdIn

\* ACKs stay before FINs when a message is taken, when FINs are sent and when
\* the ACK of a conversation is sent that has no FIN.
LEMMA AcksFirstTail ==
    ASSUME NEW q \in Seq(Packet), q # << >>, AcksFirst(q)
    PROVE  AcksFirst(Tail(q))
<1>1. /\ Len(q) \in Nat /\ Len(Tail(q)) = Len(q) - 1
      /\ \A k \in 1..Len(Tail(q)) : k + 1 \in 1..Len(q) /\ Tail(q)[k] = q[k + 1]
  OBVIOUS
<1>2. ASSUME NEW k \in 1..Len(Tail(q)), NEW l \in 1..Len(Tail(q)),
             Tail(q)[k].command = CMDCLOSEFIN, Tail(q)[l].command = CMDCONNACK,
             Tail(q)[k].conv = Tail(q)[l].conv
      PROVE  l < k
  <2>1. l + 1 < k + 1
    BY <1>1, <1>2 DEF AcksFirst
  <2> QED
    BY <2>1
<1> QED
  BY <1>2 DEF AcksFirst

LEMMA AcksFirstConcat ==
    ASSUME NEW q \in Seq(Packet), NEW r \in Seq(Packet), AcksFirst(q),
           \A k \in 1..Len(r) : r[k].command = CMDCLOSEFIN
    PROVE  AcksFirst(q \o r)
<1>1. /\ Len(q) \in Nat /\ Len(r) \in Nat /\ Len(q \o r) = Len(q) + Len(r)
      /\ \A k \in 1..Len(q) : (q \o r)[k] = q[k]
      /\ \A k \in Len(q) + 1..Len(q) + Len(r) : (q \o r)[k] = r[k - Len(q)]
  OBVIOUS
<1>2. \A k \in 1..Len(q \o r) :
        k \in 1..Len(q) \/ (k > Len(q) /\ (q \o r)[k].command = CMDCLOSEFIN)
  BY <1>1
<1>3. CMDCLOSEFIN # CMDCONNACK
  BY DEF CMDCLOSEFIN, CMDCONNACK
<1>4. ASSUME NEW k \in 1..Len(q \o r), NEW l \in 1..Len(q \o r),
             (q \o r)[k].command = CMDCLOSEFIN, (q \o r)[l].command = CMDCONNACK,
             (q \o r)[k].conv = (q \o r)[l].conv
      PROVE  l < k
  <2>1. l \in 1..Len(q)
    BY <1>2, <1>3, <1>4
  <2>2. CASE k \in 1..Len(q)
    BY <1>1, <1>4, <2>1, <2>2 DEF AcksFirst
  <2>3. CASE k > Len(q)
    BY <1>1, <2>1, <2>3
  <2> QED
    BY <1>2, <2>2, <2>3
<1> QED
  BY <1>4 DEF AcksFirst

LEMMA AcksFirstAppend ==
    ASSUME NEW q \in Seq(Packet), NEW p \in Packet, AcksFirst(q),
           p.command = CMDCONNACK => ~CmdIn(q, CMDCLOSEFIN, p.conv)
    PROVE  AcksFirst(Append(q, p))
<1>1. /\ Len(q) \in Nat /\ Len(Append(q, p)) = Len(q) + 1 /\ Append(q, p)[Len(q) + 1] = p
      /\ \A k \in 1..Len(q) : Append(q, p)[k] = q[k]
  OBVIOUS
<1>2. \A k \in 1..Len(Append(q, p)) : k \in 1..Len(q) \/ k = Len(q) + 1
  BY <1>1
<1>3. CMDCLOSEFIN # CMDCONNACK
  BY DEF CMDCLOSEFIN, CMDCONNACK
<1> DEFINE s == Append(q, p)
<1>4. ASSUME NEW k \in 1..Len(s), NEW l \in 1..Len(s),
             s[k].command = CMDCLOSEFIN, s[l].command = CMDCONNACK, s[k].conv = s[l].conv
      PROVE  l < k
  <2>1. CASE k \in 1..Len(q) /\ l \in 1..Len(q)
    BY <1>1, <1>4, <2>1 DEF AcksFirst
  <2>2. CASE k \in 1..Len(q) /\ l = Len(q) + 1
    BY <1>1, <1>4, <2>2 DEF CmdIn
  <2>3. CASE k = Len(q) + 1 /\ l \in 1..Len(q)
    BY <1>1, <2>3
  <2>4. CASE k = Len(q) + 1 /\ l = Len(q) + 1
    BY <1>1, <1>3, <1>4, <2>4
  <2> QED
    BY <1>2, <2>1, <2>2, <2>3, <2>4
<1> QED
  BY <1>4 DEF AcksFirst

-----------------------------------------------------------------------------
(***************************************************************************)
(* What a step leaves alone.                                               *)
(***************************************************************************)
\* The messages word is made of: none more, none less, for conversation v.
SameWord(v) ==
    /\ CmdIn(toServer', CMDCLOSEFIN, v) <=> CmdIn(toServer, CMDCLOSEFIN, v)
    /\ CmdIn(toClient', CMDCLOSEFIN, v) <=> CmdIn(toClient, CMDCLOSEFIN, v)
    /\ CmdIn(toClient', CMDCONNACK, v) <=> CmdIn(toClient, CMDCONNACK, v)

\* Client channel i as the server's word is about it.
SameClient(i) ==
    /\ i \in cpool' <=> i \in cpool
    /\ cch'[i].conn_ack_recved = cch[i].conn_ack_recved
    /\ cch'[i].server_socket_close = cch[i].server_socket_close

\* Server channel j as the client's word is about it.
SameServer(j) ==
    /\ sch'[j].chidcli = sch[j].chidcli /\ sch'[j].conv = sch[j].conv
    /\ sch'[j].client_socket_close = sch[j].client_socket_close
    /\ j \in spool' <=> j \in spool

LEMMA WordStays ==
    ASSUME NEW j, WordOf(j), SameServer(j), SameClient(sch[j].chidcli), SameWord(sch[j].conv)
    PROVE  WordOf(j)'
<1> DEFINE i == sch[j].chidcli
           v == sch[j].conv
<1>1. sch'[j].chidcli = i /\ sch'[j].conv = v
  BY DEF SameServer
<1> QED
  BY <1>1 DEF WordOf, SameServer, SameClient, SameWord

LEMMA SameMessagesSameWord ==
    ASSUME UNCHANGED msgVars, NEW v
    PROVE  SameWord(v)
BY DEF SameWord, msgVars

\* Made channels have conversations of their own, and clients too.
LEMMA MadeOwn ==
    ASSUME EndsInv, NEW j \in 1..chidsrv0 - 1, NEW k \in 1..chidsrv0 - 1, j # k
    PROVE  sch[j].conv # sch[k].conv /\ sch[j].chidcli # sch[k].chidcli
BY MadeIds DEF EndsInv, OnePerClient, PoolsInv, ConvsOwn

\* The end of a connected channel.
LEMMA EndOf ==
    ASSUME EndsInv, NEW i \in ChanIds, cch[i].conn_ack_recved
    PROVE  /\ cch[i].chidsrv \in 1..chidsrv0 - 1
           /\ sch[cch[i].chidsrv].chidcli = i
           /\ sch[cch[i].chidsrv].conv = cch[i].conv
BY DEF EndsInv, ConnectedHasEnd

\* FINs stay known while channels keep their conversations.
LEMMA FinsStayKnown ==
    ASSUME EndsInv, ServerQuiet, NEW q, NEW qn, FinsKnown(q),
           \A v \in Conv0 : CmdIn(qn, CMDCLOSEFIN, v) =>
              \/ CmdIn(q, CMDCLOSEFIN, v) \/ v = 0
              \/ \E j \in 1..chidsrv0 - 1 : sch[j].conv = v
    PROVE  \A v \in Conv0 : CmdIn(qn, CMDCLOSEFIN, v) =>
              v = 0 \/ \E j \in 1..chidsrv0' - 1 : sch'[j].conv = v
BY MadeIds DEF FinsKnown, ServerQuiet

\* The last two parts, when no channel is registered anew.
LEMMA ClientsStayKnown ==
    ASSUME WordInv, TypeOK, ClientQuiet, cpool' \subseteq cpool,
           \A i \in ChanIds : cch'[i].server_socket_close =>
              cch[i].server_socket_close \/ cch[i].conn_ack_recved
    PROVE  /\ \A i \in ChanIds : cch'[i].server_socket_close => cch'[i].conn_ack_recved
           /\ \A i \in cpool' : cch'[i].chidcli = i
BY DEF WordInv, ClientQuiet, EndKept, TypeOK, ClientTypeOK

\* The parts of WordInv, when no server channel is made.
LEMMA WordParts ==
    ASSUME EndsInv, WordInv, ServerQuiet, link' = link,
           \A j \in 1..chidsrv0 - 1 : WordOf(j)',
           \A v \in Conv0 : CmdIn(toServer', CMDCLOSEFIN, v) =>
              \/ CmdIn(toServer, CMDCLOSEFIN, v) \/ v = 0
              \/ \E j \in 1..chidsrv0 - 1 : sch[j].conv = v,
           \A v \in Conv0 : CmdIn(toClient', CMDCLOSEFIN, v) =>
              \/ CmdIn(toClient, CMDCLOSEFIN, v) \/ v = 0
              \/ \E j \in 1..chidsrv0 - 1 : sch[j].conv = v,
           AcksFirst(toClient'),
           \A i \in ChanIds : cch'[i].server_socket_close => cch'[i].conn_ack_recved,
           \A i \in cpool' : cch'[i].chidcli = i
    PROVE  WordInv'
<1>1. FinsKnown(toServer)
  BY DEF WordInv
<1>2. FinsKnown(toClient)
  BY DEF WordInv
<1>3. \A v \in Conv0 : CmdIn(toServer', CMDCLOSEFIN, v) =>
              v = 0 \/ \E j \in 1..chidsrv0' - 1 : sch'[j].conv = v
  BY <1>1, FinsStayKnown
<1>4. \A v \in Conv0 : CmdIn(toClient', CMDCLOSEFIN, v) =>
              v = 0 \/ \E j \in 1..chidsrv0' - 1 : sch'[j].conv = v
  BY <1>2, FinsStayKnown
<1>5. chidsrv0' = chidsrv0 /\ link'
  BY DEF ServerQuiet, WordInv
<1>6. FinsKnown(toServer)' /\ FinsKnown(toClient)'
  BY <1>3, <1>4 DEF FinsKnown, CmdIn
<1>7. AcksFirst(toClient)'
  BY DEF AcksFirst
<1> QED
  BY <1>5, <1>6, <1>7 DEF WordInv

\* A step that tells nobody anything.
LEMMA NothingToldKeeps ==
    ASSUME EndsInv, WordInv, TypeOK', chidsrv0' = chidsrv0, UNCHANGED <<link, toServer, toClient>>,
           \A i \in ChanIds : SameClient(i) /\ cch'[i].chidcli = cch[i].chidcli,
           \A j \in ChanIds : SameServer(j)
    PROVE  WordInv'
<1>1. ServerQuiet
  BY DEF ServerQuiet, SameServer
<1>2. ASSUME NEW j \in 1..chidsrv0 - 1 PROVE WordOf(j)'
  BY MadeIds, WordStays DEF WordInv, SameWord
<1>3. AcksFirst(toClient')
  BY DEF WordInv
<1>4. \A i \in ChanIds : cch'[i].server_socket_close => cch'[i].conn_ack_recved
  BY DEF WordInv, SameClient
<1>5. \A i \in cpool' : cch'[i].chidcli = i
  BY DEF WordInv, SameClient, TypeOK, ClientTypeOK
<1> QED
  BY <1>1, <1>2, <1>3, <1>4, <1>5, WordParts

-----------------------------------------------------------------------------
(***************************************************************************)
(* The client's steps.                                                     *)
(***************************************************************************)
\* A registered client channel is found by the conversation of its server end,
\* or the ACK of it is on the way.
LEMMA FoundOrAwaited ==
    ASSUME EndsInv, WordInv, NEW j \in 1..chidsrv0 - 1, sch[j].chidcli \in cpool
    PROVE  \/ cpool2[sch[j].conv] = sch[j].chidcli /\ cpool2[sch[j].conv] # 0
           \/ CmdIn(toClient, CMDCONNACK, sch[j].conv)
<1> DEFINE i == sch[j].chidcli
<1>1. i \in ChanIds
  BY MadeIds
<1>2. CASE cch[i].conn_ack_recved
  <2>1. cch[i].chidsrv \in 1..chidsrv0 - 1 /\ sch[cch[i].chidsrv].chidcli = i
        /\ sch[cch[i].chidsrv].conv = cch[i].conv
    BY <1>1, <1>2, EndOf
  <2>2. cch[i].chidsrv = j
    BY <2>1, MadeOwn
  <2> QED
    BY <1>1, <1>2, <2>1, <2>2 DEF EndsInv, ConvsLead, ChanIds
<1>3. CASE ~cch[i].conn_ack_recved
  BY <1>3 DEF WordInv, WordOf
<1> QED
  BY <1>2, <1>3

\* Only client channel i and conversation v are concerned, and only server
\* channel j could take notice.
LEMMA OneConcerned ==
    ASSUME EndsInv, WordInv, UNCHANGED serverVars, NEW i, NEW v,
           \A k \in ChanIds \ {i} : SameClient(k),
           \A w \in Conv0 \ {v} : SameWord(w),
           \A j \in 1..chidsrv0 - 1 : sch[j].chidcli = i \/ sch[j].conv = v => WordOf(j)'
    PROVE  \A j \in 1..chidsrv0 - 1 : WordOf(j)'
<1> SUFFICES ASSUME NEW j \in 1..chidsrv0 - 1, sch[j].chidcli # i, sch[j].conv # v
             PROVE  WordOf(j)'
  OBVIOUS
<1>1. sch[j].chidcli \in ChanIds /\ sch[j].conv \in Conv0
  BY MadeIds DEF ChannelType
<1>2. SameServer(j)
  BY DEF serverVars, SameServer
<1> QED
  BY <1>1, <1>2, WordStays DEF WordInv

\* initConnChanel: nobody has word of the new channel yet.
LEMMA InitConnChanelWord ==
    ASSUME EndsInv, WordInv, NEW c \in Conns, InitConnChanel(c), UNCHANGED serverVars
    PROVE  WordInv'
<1>0. TypeOK /\ link
  BY DEF EndsInv, PoolsInv, WordInv
<1> DEFINE ch == NewChannelClient(chanid0, c)
           p == ChannelPacket(ch, CMDCONNSYN)
<1>1. /\ chanid0 \in ChanIds /\ cch' = [cch EXCEPT ![chanid0] = ch]
      /\ toServer' = Append(toServer, p) /\ toClient' = toClient /\ link' = link
      /\ cpool' = cpool \cup {chanid0}
  BY <1>0, ChannelAssumption DEF InitConnChanel, FriendSendMessage, TypeOK, ClientTypeOK, ChanIds
<1>2. /\ ch.chidcli = chanid0 /\ ~ch.server_socket_close /\ p.command = CMDCONNSYN
      /\ ch \in ChannelType
  <2>1. chanid0 \in Nat
    BY <1>0, ChannelAssumption DEF TypeOK, ClientTypeOK
  <2> QED
    BY <2>1, ZeroChannelType DEF NewChannelClient, ChannelPacket, NewPacket, ZeroChannel, ChannelType
<1>3. p \in Packet
  BY <1>2, ChannelPacketType DEF Commands
<1> HIDE DEF ch, p
<1>4. cch'[chanid0] = ch /\ \A k \in ChanIds : k # chanid0 => cch'[k] = cch[k]
  BY <1>0, <1>1 DEF TypeOK, ClientTypeOK
<1>5. \A cmd, w : cmd # CMDCONNSYN => (CmdIn(toServer', cmd, w) <=> CmdIn(toServer, cmd, w))
  BY <1>0, <1>1, <1>2, <1>3, CmdInAppend DEF TypeOK, NetTypeOK
<1>6. \A w : SameWord(w)
  BY <1>1, <1>5 DEF SameWord, CMDCONNSYN, CMDCLOSEFIN
<1>7. ASSUME NEW j \in 1..chidsrv0 - 1 PROVE WordOf(j)'
  <2>1. sch[j].chidcli \in ChanIds /\ sch[j].chidcli # chanid0
    BY <1>0, MadeIds DEF TypeOK, ClientTypeOK
  <2>2. SameClient(sch[j].chidcli) /\ SameServer(j)
    BY <1>1, <1>4, <2>1 DEF SameClient, SameServer, serverVars
  <2> QED
    BY <1>6, <2>2, WordStays DEF WordInv
<1>8. ServerQuiet
  BY DEF ServerQuiet, serverVars
<1>9. \A i \in ChanIds : cch'[i].server_socket_close => cch'[i].conn_ack_recved
  BY <1>2, <1>4 DEF WordInv
<1>10. \A i \in cpool' : cch'[i].chidcli = i
  BY <1>0, <1>1, <1>2, <1>4 DEF WordInv, TypeOK, ClientTypeOK
<1>11. AcksFirst(toClient')
  BY <1>1 DEF WordInv
<1> QED
  BY <1>1, <1>6, <1>7, <1>8, <1>9, <1>10, <1>11, WordParts DEF SameWord

\* A channel is given up when its timer finds no ACK: the ACK is on the way
\* then, if the server has made a channel for it.
LEMMA AckTimeoutWord ==
    ASSUME EndsInv, WordInv, NEW i \in ChanIds, ClientCheckACKRecved(i), UNCHANGED serverVars,
           TypeOK'
    PROVE  WordInv'
<1>0. /\ TypeOK /\ cch[i] \in ChannelType /\ cch[i].chidcli \in {0, i} /\ 0 \notin cpool
      /\ UNCHANGED <<link, toServer, toClient, chidsrv0>>
  BY DEF EndsInv, PoolsInv, HalfOpenIsNew, TypeOK, ClientTypeOK, ClientCheckACKRecved,
         netVars, serverVars, ChanIds
<1>1. \A j \in ChanIds : SameServer(j)
  BY DEF SameServer, serverVars
<1>2. CASE cch[i].conn_ack_recved
  <2>1. UNCHANGED <<cch, cpool>>
    BY <1>2 DEF ClientCheckACKRecved
  <2> QED
    BY <1>0, <1>1, <2>1, NothingToldKeeps DEF SameClient
<1>3. CASE ~cch[i].conn_ack_recved
  <2> DEFINE c == AddCloseReason(cch[i], "connect_timeout")
  <2>1. cch' = [cch EXCEPT ![i] = c] /\ RmClient(c)
    BY <1>3 DEF ClientCheckACKRecved, AckTimeout
  <2>2. SameBut({"close_reason"}, cch[i], c)
    BY <1>0, ReaderFields
  <2> HIDE DEF c
  <2>3. /\ c.chidcli = cch[i].chidcli /\ c.conn_ack_recved = cch[i].conn_ack_recved
        /\ c.server_socket_close = cch[i].server_socket_close
    BY <2>2 DEF SameBut, Fields
  <2>4. cch'[i] = c /\ \A k \in ChanIds : k # i => cch'[k] = cch[k]
    BY <1>0, <2>1 DEF TypeOK, ClientTypeOK
  <2>5. cpool' = cpool \/ (i \in cpool /\ cpool' = cpool \ {i})
    BY <1>0, <2>1, <2>3 DEF RmClient
  <2>6. /\ \A k \in ChanIds \ {i} : SameClient(k)
        /\ cpool' = cpool => SameClient(i)
    BY <2>3, <2>4, <2>5 DEF SameClient
  <2>7. CASE cpool' = cpool
    BY <1>0, <1>1, <2>3, <2>4, <2>6, <2>7, NothingToldKeeps
  <2>8. CASE i \in cpool /\ cpool' = cpool \ {i}
    <3>1. \A w : SameWord(w)
      BY <1>0 DEF SameWord
    <3>2. ASSUME NEW j \in 1..chidsrv0 - 1 PROVE WordOf(j)'
      <4>1. CASE sch[j].chidcli # i
        BY <1>1, <2>6, <3>1, <4>1, MadeIds, WordStays DEF WordInv
      <4>2. CASE sch[j].chidcli = i
        <5>1. WordOf(j) /\ CmdIn(toClient, CMDCONNACK, sch[j].conv)
          BY <1>3, <2>8, <4>2 DEF WordInv, WordOf
        <5>2. cch'[i].server_socket_close = cch[i].server_socket_close
          BY <2>3, <2>4
        <5>3. i \notin cpool' /\ sch' = sch /\ spool' = spool
          BY <2>8 DEF serverVars
        <5> QED
          BY <1>0, <4>2, <5>1, <5>2, <5>3 DEF WordOf
      <4> QED
        BY <4>1, <4>2
    <3>3. ServerQuiet
      BY DEF ServerQuiet, serverVars
    <3>4. /\ \A k \in ChanIds : cch'[k].server_socket_close => cch'[k].conn_ack_recved
          /\ \A k \in cpool' : cch'[k].chidcli = k
      BY <1>0, <2>3, <2>4, <2>5 DEF WordInv, TypeOK, ClientTypeOK
    <3>5. AcksFirst(toClient')
      BY <1>0 DEF WordInv
    <3> QED
      BY <1>0, <3>2, <3>3, <3>4, <3>5, WordParts
  <2> QED
    BY <2>5, <2>7, <2>8
<1> QED
  BY <1>2, <1>3

\* What the closing promise of a connected channel does, as the server sees it:
\* it removes the channel and sends the FIN, or the server's FIN was there first.
LEMMA ClientPromiseTells ==
    ASSUME TypeOK, link, NEW i \in ChanIds, NEW ch \in ChannelType,
           ch.chidcli \in {0, i}, i \in cpool => ch.chidcli = i,
           cpanic' \notin {"Ooops", "wtf"}, ClientPromiseChannelClose(i, ch)
    PROVE  /\ ClientAlone(i)
           /\ cch'[i].conn_ack_recved = ch.conn_ack_recved
           /\ cch'[i].server_socket_close = ch.server_socket_close
           /\ cch'[i].chidcli = ch.chidcli
           /\ cpool' = cpool \/ cpool' = cpool \ {i}
           /\ \/ ch.server_socket_close /\ toServer' = toServer
              \/ /\ ~ch.server_socket_close /\ i \notin cpool'
                 /\ \E p \in Packet : /\ p.command = CMDCLOSEFIN /\ p.conv = ch.conv
                                      /\ toServer' = Append(toServer, p)
<1>1. 0 \notin cpool
  BY DEF TypeOK, ClientTypeOK, ChanIds
<1>2. ASSUME NEW r \in Reasons, RmClient(AddCloseReason(ch, r)),
             cch' = [cch EXCEPT ![i] = AddCloseReason(ch, r)]
      PROVE  /\ ClientAlone(i)
             /\ cch'[i].conn_ack_recved = ch.conn_ack_recved
             /\ cch'[i].server_socket_close = ch.server_socket_close
             /\ cch'[i].chidcli = ch.chidcli
             /\ i \notin cpool' /\ (cpool' = cpool \/ cpool' = cpool \ {i})
  <2> DEFINE c == AddCloseReason(ch, r)
  <2>1. SameBut({"close_reason"}, ch, c)
    BY ReaderFields
  <2>2. \/ cpanic' = "wtf"
        \/ c.chidcli \notin cpool /\ cpool' = cpool
        \/ c.chidcli \in cpool /\ cpool' = cpool \ {c.chidcli}
    BY <1>2 DEF RmClient
  <2> HIDE DEF c
  <2>3. /\ c.chidcli = ch.chidcli /\ c.conn_ack_recved = ch.conn_ack_recved
        /\ c.server_socket_close = ch.server_socket_close
    BY <2>1 DEF SameBut, Fields
  <2>4. cch'[i] = c /\ ClientAlone(i)
    BY <1>2 DEF TypeOK, ClientTypeOK, ClientAlone, c
  <2>5. i \notin cpool' /\ (cpool' = cpool \/ cpool' = cpool \ {i})
    BY <1>1, <2>2, <2>3
  <2> QED
    BY <2>3, <2>4, <2>5
<1>3. CASE ClientNotifyServer(i, ch)
  <2> DEFINE p == ChannelPacket(ch, CMDCLOSEFIN)
  <2>1. /\ ~ch.server_socket_close /\ toServer' = Append(toServer, p)
        /\ RmClient(AddCloseReason(ch, "client_close"))
        /\ cch' = [cch EXCEPT ![i] = AddCloseReason(ch, "client_close")]
    BY <1>3 DEF ClientNotifyServer, FriendSendMessage
  <2>2. p \in Packet /\ p.command = CMDCLOSEFIN /\ p.conv = ch.conv
    BY ChannelPacketType DEF Commands, ChannelPacket, NewPacket
  <2> HIDE DEF p
  <2> QED
    BY <1>2, <2>1, <2>2 DEF Reasons
<1>4. CASE ClientBothClosed(i, ch)
  BY <1>2, <1>4 DEF ClientBothClosed, Reasons
<1>5. CASE ClientForceClose(i, ch)
  <2> DEFINE a == AddCloseReason(ch, "server_close")
             c == [a EXCEPT !.client_socket_close = TRUE]
  <2>1. /\ cch' = [cch EXCEPT ![i] = c] /\ cpool' = cpool /\ toServer' = toServer
        /\ ch.server_socket_close
    BY <1>5 DEF ClientForceClose
  <2>2. a \in ChannelType /\ SameBut({"close_reason"}, ch, a)
    BY AddCloseReasonType, ReaderFields DEF Reasons
  <2> HIDE DEF a
  <2>3. SameBut({"close_reason", "client_socket_close"}, ch, c)
    BY <2>2 DEF SameBut, Fields, ChannelType
  <2> HIDE DEF c
  <2>4. cch'[i] = c /\ ClientAlone(i)
    BY <2>1 DEF TypeOK, ClientTypeOK, ClientAlone
  <2> QED
    BY <2>1, <2>3, <2>4 DEF SameBut, Fields
<1> QED
  BY <1>3, <1>4, <1>5 DEF ClientPromiseChannelClose, ClientOoops

\* A connected channel closes: by then the server has removed its own, or the
\* FIN tells it.
LEMMA ClientPromiseWord ==
    ASSUME EndsInv, WordInv, UNCHANGED serverVars, link' = link,
           NEW i \in ChanIds, cch[i].conn_ack_recved, NEW ch \in ChannelType,
           SameBut({"poll", "server_socket_close"}, cch[i], ch),
           ch.server_socket_close =>
              cch[i].server_socket_close \/ CmdIn(toClient, CMDCLOSEFIN, cch[i].conv),
           cpanic' \notin {"Ooops", "wtf"}, ClientPromiseChannelClose(i, ch),
           AcksFirst(toClient'),
           \A cmd, w : CmdIn(toClient', cmd, w) => CmdIn(toClient, cmd, w),
           \A cmd, w : CmdIn(toClient, cmd, w) =>
              CmdIn(toClient', cmd, w) \/ (cmd = CMDCLOSEFIN /\ w = cch[i].conv)
    PROVE  WordInv'
<1> DEFINE v == cch[i].conv
<1>0. /\ TypeOK /\ link /\ cch[i] \in ChannelType /\ cch[i].chidcli \in {0, i}
      /\ i \in cpool => cch[i].chidcli = i
  BY DEF EndsInv, PoolsInv, HalfOpenIsNew, WordInv, TypeOK, ClientTypeOK
<1>1. /\ ch.chidcli = cch[i].chidcli /\ ch.conn_ack_recved /\ ch.conv = v
  BY DEF SameBut, Fields
<1>2. /\ ClientAlone(i) /\ cch'[i].conn_ack_recved
      /\ cch'[i].server_socket_close = ch.server_socket_close
      /\ cch'[i].chidcli = cch[i].chidcli
      /\ cpool' = cpool \/ cpool' = cpool \ {i}
      /\ \/ ch.server_socket_close /\ toServer' = toServer
         \/ /\ ~ch.server_socket_close /\ i \notin cpool'
            /\ \E p \in Packet : /\ p.command = CMDCLOSEFIN /\ p.conv = v
                                 /\ toServer' = Append(toServer, p)
  BY <1>0, <1>1, ClientPromiseTells
<1>3. PICK e \in 1..chidsrv0 - 1 : sch[e].chidcli = i /\ sch[e].conv = v
  BY EndOf
<1>4. /\ \A w : CmdIn(toServer', CMDCLOSEFIN, w) => CmdIn(toServer, CMDCLOSEFIN, w) \/ w = v
      /\ \A w : CmdIn(toServer, CMDCLOSEFIN, w) => CmdIn(toServer', CMDCLOSEFIN, w)
      /\ ~ch.server_socket_close => CmdIn(toServer', CMDCLOSEFIN, v)
  <2>1. CASE ch.server_socket_close
    BY <1>2, <2>1
  <2>2. CASE ~ch.server_socket_close
    <3>1. PICK p \in Packet : /\ p.command = CMDCLOSEFIN /\ p.conv = v
                              /\ toServer' = Append(toServer, p)
      BY <1>2, <2>2
    <3>2. toServer \in Seq(Packet)
      BY <1>0 DEF TypeOK, NetTypeOK
    <3>3. \A w : CmdIn(toServer', CMDCLOSEFIN, w) <=>
                 CmdIn(toServer, CMDCLOSEFIN, w) \/ w = v
      BY <3>1, <3>2, CmdInAppend
    <3> QED
      BY <2>2, <3>3
  <2> QED
    BY <2>1, <2>2
<1>5. CMDCONNACK # CMDCLOSEFIN
  BY DEF CMDCONNACK, CMDCLOSEFIN
<1>6. \A w \in Conv0 \ {v} : SameWord(w)
  BY <1>4, <1>5 DEF SameWord
<1>7. \A k \in ChanIds \ {i} : SameClient(k)
  BY <1>2 DEF SameClient, ClientAlone
<1>8. sch' = sch /\ spool' = spool
  BY DEF serverVars
<1>9. WordOf(e)
  BY <1>3 DEF WordInv
<1>10. ASSUME ch.server_socket_close PROVE WordOf(e)'
  <2>1. toServer' = toServer /\ cpool' \subseteq cpool /\ cch'[i].server_socket_close
    BY <1>2, <1>10
  <2>2. e \notin spool
    BY <1>3, <1>9, <1>10 DEF WordOf
  <2> QED
    BY <1>2, <1>3, <1>8, <1>9, <2>1, <2>2 DEF WordOf
<1>11. ASSUME ~ch.server_socket_close PROVE WordOf(e)'
  <2>1. i \notin cpool' /\ CmdIn(toServer', CMDCLOSEFIN, v)
        /\ ~cch'[i].server_socket_close
    BY <1>2, <1>4, <1>11
  <2> QED
    BY <1>3, <1>8, <1>9, <2>1 DEF WordOf
<1>12. \A j \in 1..chidsrv0 - 1 : sch[j].chidcli = i \/ sch[j].conv = v => WordOf(j)'
  <2>1. \A j \in 1..chidsrv0 - 1 : sch[j].chidcli = i \/ sch[j].conv = v => j = e
    BY <1>3, MadeOwn
  <2> QED
    BY <1>10, <1>11, <2>1
<1> HIDE DEF v
<1>13. \A j \in 1..chidsrv0 - 1 : WordOf(j)'
  BY <1>6, <1>7, <1>12, OneConcerned
<1>14. ServerQuiet
  BY DEF ServerQuiet, serverVars
<1>15. /\ \A w : CmdIn(toServer', CMDCLOSEFIN, w) =>
                 CmdIn(toServer, CMDCLOSEFIN, w) \/ sch[e].conv = w
       /\ \A w : CmdIn(toClient', CMDCLOSEFIN, w) => CmdIn(toClient, CMDCLOSEFIN, w)
  BY <1>3, <1>4
<1>16. \A k \in ChanIds : cch'[k].server_socket_close => cch'[k].conn_ack_recved
  BY <1>2 DEF WordInv, ClientAlone
<1>17. \A k \in cpool' : cch'[k].chidcli = k
  <2>1. cpool' \subseteq cpool /\ cpool \subseteq ChanIds
    BY <1>0, <1>2 DEF TypeOK, ClientTypeOK
  <2> QED
    BY <1>2, <2>1 DEF WordInv, ClientAlone
<1> QED
  BY <1>13, <1>14, <1>15, <1>16, <1>17, WordParts

\* A ClientCloseEvent is of a connected channel.
LEMMA ClientCloseWord ==
    ASSUME EndsInv, WordInv, NEW i \in ChanIds, ClientClose(i), UNCHANGED serverVars,
           cpanic' \notin {"Ooops", "wtf"}
    PROVE  WordInv'
<1>0. cch[i] \in ChannelType
  BY DEF EndsInv, PoolsInv, TypeOK, ClientTypeOK
<1> DEFINE ch == [cch[i] EXCEPT !.poll = "done"]
<1>1. /\ ClientPromiseChannelClose(i, ch) /\ UNCHANGED <<link, toClient>>
      /\ cch[i].poll = "posted"
  BY DEF ClientClose
<1>2. ch \in ChannelType /\ SameBut({"poll"}, cch[i], ch)
  BY <1>0, PollType, ReaderFields DEF PollStates
<1> HIDE DEF ch
<1>3. SameBut({"poll", "server_socket_close"}, cch[i], ch)
      /\ ch.server_socket_close = cch[i].server_socket_close
  BY <1>2 DEF SameBut, Fields
<1>4. cch[i].conn_ack_recved
  BY <1>1 DEF EndsInv, HalfOpenIsNew
<1>5. AcksFirst(toClient')
  BY <1>1 DEF WordInv
<1> QED
  BY <1>1, <1>2, <1>3, <1>4, <1>5, ClientPromiseWord

\* What taking a FIN off a queue means for the words in it.
LEMMA FinTaken ==
    ASSUME NEW q \in Seq(Packet), q # << >>, Head(q).command = CMDCLOSEFIN
    PROVE  /\ Head(q).conv \in Conv0
           /\ CmdIn(q, CMDCLOSEFIN, Head(q).conv)
           /\ \A cmd, w : CmdIn(Tail(q), cmd, w) => CmdIn(q, cmd, w)
           /\ \A cmd, w : CmdIn(q, cmd, w) =>
                 CmdIn(Tail(q), cmd, w) \/ (cmd = CMDCLOSEFIN /\ w = Head(q).conv)
<1>1. /\ Head(q) \in Packet /\ Head(q) = q[1] /\ 1 \in 1..Len(q)
  OBVIOUS
<1>2. Head(q).conv \in Conv0
  BY <1>1 DEF Packet
<1>3. CmdIn(q, CMDCLOSEFIN, Head(q).conv)
  BY <1>1 DEF CmdIn
<1>4. \A cmd, w : /\ CmdIn(Tail(q), cmd, w) => CmdIn(q, cmd, w)
                  /\ CmdIn(q, cmd, w) => CmdIn(Tail(q), cmd, w)
                        \/ (Head(q).command = cmd /\ Head(q).conv = w)
  BY CmdInTail
<1> QED
  BY <1>2, <1>3, <1>4

\* The server's FIN closes the channel of its conversation, or comes too late.
LEMMA ClientRecvFinWord ==
    ASSUME EndsInv, WordInv, ClientRecvFin, UNCHANGED serverVars,
           cpanic' \notin {"Ooops", "wtf"}
    PROVE  WordInv'
<1> DEFINE v == Head(toClient).conv
           i == cpool2[v]
           ch == [cch[i] EXCEPT !.server_socket_close = TRUE]
<1>0. /\ TypeOK /\ toClient \in Seq(Packet) /\ toClient # << >>
      /\ Head(toClient).command = CMDCLOSEFIN
      /\ toClient' = Tail(toClient) /\ link' = link /\ AcksFirst(toClient)
  BY DEF EndsInv, PoolsInv, TypeOK, NetTypeOK, ClientRecvFin, WordInv
<1>1. /\ v \in Conv0 /\ CmdIn(toClient, CMDCLOSEFIN, v)
      /\ \A cmd, w : CmdIn(toClient', cmd, w) => CmdIn(toClient, cmd, w)
      /\ \A cmd, w : CmdIn(toClient, cmd, w) =>
            CmdIn(toClient', cmd, w) \/ (cmd = CMDCLOSEFIN /\ w = v)
  BY <1>0, FinTaken
<1>2. AcksFirst(toClient')
  BY <1>0, AcksFirstTail
<1>3. CASE i # 0
  <2>1. ClientPromiseChannelClose(i, ch)
    BY <1>3 DEF ClientRecvFin
  <2>2. i \in ChanIds /\ cch[i] \in ChannelType
    BY <1>0, <1>1, <1>3 DEF TypeOK, ClientTypeOK
  <2>3. cch[i].conv = v /\ cch[i].conn_ack_recved
    BY <1>1, <1>3 DEF EndsInv, ConvsLead
  <2>4. ch \in ChannelType /\ SameBut({"server_socket_close"}, cch[i], ch)
    BY <2>2, FinFields
  <2> HIDE DEF ch, i, v
  <2>5. SameBut({"poll", "server_socket_close"}, cch[i], ch)
    BY <2>4 DEF SameBut
  <2> QED
    BY <1>0, <1>1, <1>2, <2>1, <2>2, <2>3, <2>4, <2>5, ClientPromiseWord
<1>4. CASE i = 0
  <2>1. UNCHANGED <<cch, cpool, toServer>>
    BY <1>4 DEF ClientRecvFin
  <2> HIDE DEF v
  <2>2. CMDCONNACK # CMDCLOSEFIN
    BY DEF CMDCONNACK, CMDCLOSEFIN
  <2>3. ~CmdIn(toClient, CMDCONNACK, v)
    <3>1. 1 \in 1..Len(toClient) /\ toClient[1].command = CMDCLOSEFIN /\ toClient[1].conv = v
      BY <1>0 DEF v
    <3> QED
      BY <1>0, <3>1 DEF CmdIn, AcksFirst
  <2>4. \A w : w # v => SameWord(w)
    BY <1>1, <2>1, <2>2 DEF SameWord
  <2>5. ASSUME NEW j \in 1..chidsrv0 - 1, sch[j].conv = v
        PROVE  WordOf(j)'
    <3>1. WordOf(j) /\ sch[j].chidcli \notin cpool
      BY <1>4, <2>3, <2>5, FoundOrAwaited DEF WordInv
    <3> QED
      BY <1>1, <2>1, <2>2, <2>5, <3>1 DEF WordOf, serverVars
  <2>6. \A j \in 1..chidsrv0 - 1 : WordOf(j)'
    BY <2>1, <2>4, <2>5, WordStays DEF WordInv, SameClient, SameServer, serverVars
  <2>7. ServerQuiet
    BY DEF ServerQuiet, serverVars
  <2> QED
    BY <1>0, <1>1, <1>2, <2>1, <2>6, <2>7, WordParts DEF WordInv
<1> QED
  BY <1>3, <1>4

\* A stray KCP packet is answered with a FIN only when its channel is gone:
\* the ACK of a channel that waits has not been overtaken.
LEMMA ClientRecvLossyWord ==
    ASSUME DataInv, WordInv, ~LossyOvertakes, TypeOK',
           NEW p \in lossyS, ClientRecvLossy(p), UNCHANGED serverVars
    PROVE  WordInv'
<1> DEFINE v == p.conv
           i == cpool2[v]
<1>0. /\ EndsInv /\ TypeOK /\ toServer \in Seq(Packet) /\ p \in KcpPacket /\ v \in Conv0 /\ link
      /\ UNCHANGED <<cpool, link, toClient>>
  BY DEF DataInv, EndsInv, PoolsInv, TypeOK, NetTypeOK, KcpPacket, ClientRecvLossy, WordInv
<1>1. CASE i # 0
  <2> DEFINE ch == [cch[i] EXCEPT !.kcp = KcpInput(cch[i].kcp, p)]
  <2>1. cch' = [cch EXCEPT ![i] = ch] /\ toServer' = toServer
    BY <1>1 DEF ClientRecvLossy
  <2>2. i \in ChanIds /\ cch[i] \in ChannelType
    BY <1>0, <1>1 DEF TypeOK, ClientTypeOK
  <2>3. SameBut({"kcp"}, cch[i], ch)
    BY <2>2, ReaderFields
  <2> HIDE DEF ch, i
  <2>4. cch'[i] = ch /\ \A k \in ChanIds : k # i => cch'[k] = cch[k]
    BY <1>0, <2>1, <2>2 DEF TypeOK, ClientTypeOK
  <2>5. \A k \in ChanIds : SameClient(k) /\ cch'[k].chidcli = cch[k].chidcli
    BY <1>0, <2>3, <2>4 DEF SameClient, SameBut, Fields
  <2>6. \A j \in ChanIds : SameServer(j)
    BY DEF SameServer, serverVars
  <2> QED
    BY <1>0, <2>1, <2>5, <2>6, NothingToldKeeps DEF serverVars
<1>2. CASE i = 0
  <2> DEFINE fin == BrokenFIN(v)
  <2>1. cch' = cch /\ toServer' = Append(toServer, fin)
    BY <1>0, <1>2 DEF ClientRecvLossy, FriendSendMessage
  <2>2. fin \in Packet /\ fin.command = CMDCLOSEFIN /\ fin.conv = v
    BY <1>0 DEF BrokenFIN, NewPacket, Packet, Commands
  <2> HIDE DEF fin
  <2>3. \A w : CmdIn(toServer', CMDCLOSEFIN, w) <=> CmdIn(toServer, CMDCLOSEFIN, w) \/ w = v
    BY <1>0, <2>1, <2>2, CmdInAppend
  <2>4. ~CmdIn(toClient, CMDCONNACK, v)
    BY DEF ClientRecvLossy, CanReachClient, Overtakes, CmdIn
  <2>5. PICK e \in 1..chidsrv0 - 1 : sch[e].conv = v
    BY DEF DataInv, NoEarlyPackets
  <2>6. WordOf(e) /\ sch[e].chidcli \notin cpool
    BY <1>0, <1>2, <2>4, <2>5, FoundOrAwaited DEF WordInv
  <2>7. WordOf(e)'
    BY <1>0, <2>1, <2>3, <2>5, <2>6 DEF WordOf, serverVars
  <2>8. ASSUME NEW j \in 1..chidsrv0 - 1, j # e PROVE WordOf(j)'
    <3>1. sch[j].conv # v
      BY <1>0, <2>5, <2>8, MadeOwn
    <3> QED
      BY <1>0, <2>1, <2>3, <3>1, WordStays
         DEF WordInv, SameWord, SameClient, SameServer, serverVars
  <2>9. ServerQuiet /\ \A j \in 1..chidsrv0 - 1 : WordOf(j)'
    BY <2>7, <2>8 DEF ServerQuiet, serverVars
  <2>10. \A w \in Conv0 : CmdIn(toServer', CMDCLOSEFIN, w) =>
            \/ CmdIn(toServer, CMDCLOSEFIN, w) \/ w = 0
            \/ \E j \in 1..chidsrv0 - 1 : sch[j].conv = w
    BY <2>3, <2>5
  <2>11. /\ AcksFirst(toClient') /\ link' = link /\ toClient' = toClient
         /\ \A k \in ChanIds : cch'[k].server_socket_close => cch'[k].conn_ack_recved
         /\ \A k \in cpool' : cch'[k].chidcli = k
    BY <1>0, <2>1 DEF WordInv
  <2> QED
    BY <1>0, <2>9, <2>10, <2>11, WordParts
<1> QED
  BY <1>1, <1>2

\* The ACK connects the channel that waits for it, and is answered with a FIN
\* when that channel has been given up.
LEMMA ClientRecvAckWord ==
    ASSUME EndsInv, WordInv, ClientRecvAck, UNCHANGED serverVars
    PROVE  WordInv'
<1> DEFINE ack == Head(toClient)
           v == ack.conv
           i == ack.chidcli
<1>0. /\ TypeOK /\ toClient \in Seq(Packet) /\ toServer \in Seq(Packet) /\ toClient # << >>
      /\ ack.command = CMDCONNACK /\ link
      /\ toClient' = Tail(toClient) /\ link' = link /\ AcksFirst(toClient)
  BY DEF EndsInv, PoolsInv, TypeOK, NetTypeOK, ClientRecvAck, WordInv
<1>1. ack \in Packet /\ ack = toClient[1] /\ 1 \in 1..Len(toClient)
  BY <1>0
<1>2. PICK e \in 1..chidsrv0 - 1 : e = ack.chidsrv /\ sch[e].chidcli = i /\ sch[e].conv = v
  BY <1>0, <1>1 DEF EndsInv, AcksOnce
<1>3. /\ i \in ChanIds /\ ~cch[i].conn_ack_recved /\ cch[i] \in ChannelType /\ v \in Conv0
      /\ ~cch[i].server_socket_close
  BY <1>0, <1>1, <1>2, MadeIds DEF EndsInv, AcksOnce, Packet, WordInv
<1>4. CMDCONNACK # CMDCLOSEFIN
  BY DEF CMDCONNACK, CMDCLOSEFIN
<1>5. /\ \A cmd, w : CmdIn(toClient', cmd, w) => CmdIn(toClient, cmd, w)
      /\ \A cmd, w : CmdIn(toClient, cmd, w) =>
            CmdIn(toClient', cmd, w) \/ (cmd = CMDCONNACK /\ w = v)
  <2>1. \A cmd, w : /\ CmdIn(toClient', cmd, w) => CmdIn(toClient, cmd, w)
                    /\ CmdIn(toClient, cmd, w) => CmdIn(toClient', cmd, w)
                          \/ (ack.command = cmd /\ ack.conv = w)
    BY <1>0, CmdInTail
  <2> QED
    BY <1>0, <2>1
<1>6. AcksFirst(toClient')
  BY <1>0, AcksFirstTail
<1>7. ServerQuiet /\ sch' = sch /\ spool' = spool /\ chidsrv0' = chidsrv0
  BY DEF ServerQuiet, serverVars
<1>8. \A j \in 1..chidsrv0 - 1 : j # e => sch[j].chidcli # i /\ sch[j].conv # v
  BY <1>2, MadeOwn
<1>9. WordOf(e)
  BY DEF WordInv
<1>10. CASE i \in cpool
  <2> DEFINE ch == [cch[i] EXCEPT !.conv = ack.conv, !.chidsrv = ack.chidsrv,
                      !.kcp = NewKCP, !.conn_ack_recved = TRUE, !.poll = "reading"]
  <2>1. cch' = [cch EXCEPT ![i] = ch] /\ cpool' = cpool /\ toServer' = toServer
    BY <1>10 DEF ClientRecvAck, AckConnects
  <2>2. /\ ch.conn_ack_recved /\ ch.server_socket_close = cch[i].server_socket_close
        /\ ch.chidcli = cch[i].chidcli
    BY <1>3 DEF ChannelType
  <2> HIDE DEF ch, v, i, ack
  <2>3. cch'[i] = ch /\ \A k \in ChanIds : k # i => cch'[k] = cch[k]
    BY <1>0, <1>3, <2>1 DEF TypeOK, ClientTypeOK
  <2>4. \A w : w # v => SameWord(w)
    BY <1>4, <1>5, <2>1 DEF SameWord
  <2>5. \A k \in ChanIds : k # i => SameClient(k)
    BY <2>1, <2>3 DEF SameClient
  <2>6. \A j \in 1..chidsrv0 - 1 : j # e => WordOf(j)'
    BY <1>7, <1>8, <2>4, <2>5, MadeIds, WordStays DEF WordInv, SameServer
  <2>7. WordOf(e)'
    BY <1>2, <1>4, <1>5, <1>7, <1>9, <1>10, <2>1, <2>2, <2>3 DEF WordOf
  <2>8. /\ \A j \in 1..chidsrv0 - 1 : WordOf(j)'
        /\ \A k \in ChanIds : cch'[k].server_socket_close => cch'[k].conn_ack_recved
        /\ \A k \in cpool' : cch'[k].chidcli = k
    BY <1>0, <2>1, <2>2, <2>3, <2>6, <2>7 DEF WordInv, TypeOK, ClientTypeOK
  <2> QED
    BY <1>0, <1>5, <1>6, <1>7, <2>1, <2>8, WordParts
<1>11. CASE i \notin cpool
  <2> DEFINE fin == NewPacket(CMDCLOSEFIN, ack.chidcli, ack.chidsrv, ack.conv)
  <2>1. cch' = cch /\ cpool' = cpool /\ toServer' = Append(toServer, fin)
    BY <1>0, <1>11 DEF ClientRecvAck, AnswerLateAck, FriendSendMessage
  <2>2. fin \in Packet /\ fin.command = CMDCLOSEFIN /\ fin.conv = v
    BY <1>1 DEF NewPacket, Packet, Commands
  <2> HIDE DEF fin, v, i, ack
  <2>3. \A w : CmdIn(toServer', CMDCLOSEFIN, w) <=> CmdIn(toServer, CMDCLOSEFIN, w) \/ w = v
    BY <1>0, <2>1, <2>2, CmdInAppend
  <2>4. \A w : w # v => SameWord(w)
    BY <1>4, <1>5, <2>3 DEF SameWord
  <2>5. \A j \in 1..chidsrv0 - 1 : j # e => WordOf(j)'
    BY <1>7, <1>8, <2>1, <2>4, WordStays DEF WordInv, SameClient, SameServer
  <2>6. WordOf(e)'
    BY <1>2, <1>4, <1>5, <1>7, <1>9, <1>11, <2>1, <2>3 DEF WordOf
  <2>7. /\ \A j \in 1..chidsrv0 - 1 : WordOf(j)'
        /\ \A k \in ChanIds : cch'[k].server_socket_close => cch'[k].conn_ack_recved
        /\ \A k \in cpool' : cch'[k].chidcli = k
    BY <2>1, <2>5, <2>6 DEF WordInv
  <2>8. \A w \in Conv0 : CmdIn(toServer', CMDCLOSEFIN, w) =>
            \/ CmdIn(toServer, CMDCLOSEFIN, w) \/ w = 0
            \/ \E j \in 1..chidsrv0 - 1 : sch[j].conv = w
    BY <1>2, <2>3
  <2> QED
    BY <1>0, <1>5, <1>6, <1>7, <2>7, <2>8, WordParts
<1> QED
  BY <1>10, <1>11

\* Readers, read events and serveKcp tell nobody anything.
LEMMA ClientSilentWord ==
    ASSUME EndsInv, WordInv, TypeOK', UNCHANGED serverVars,
           \/ ClientOutside \/ ClientServeKcp
           \/ \E i \in ChanIds : ProcessClientReadyRead(i)
    PROVE  WordInv'
<1>0. /\ TypeOK /\ \A j \in ChanIds : SameServer(j)
      /\ chidsrv0' = chidsrv0
  BY DEF EndsInv, PoolsInv, SameServer, serverVars
<1>1. ASSUME NEW F, NEW i \in ChanIds, ClientAlone(i), SameBut(F, cch[i], cch'[i]),
             {"chidcli", "conn_ack_recved"} \cap F = {},
             cch'[i].server_socket_close = cch[i].server_socket_close,
             cpool' = cpool, UNCHANGED netVars
      PROVE  WordInv'
  <2>1. cch'[i].chidcli = cch[i].chidcli /\ cch'[i].conn_ack_recved = cch[i].conn_ack_recved
    BY <1>1 DEF SameBut, Fields
  <2>2. \A k \in ChanIds : SameClient(k) /\ cch'[k].chidcli = cch[k].chidcli
    BY <1>1, <2>1 DEF SameClient, ClientAlone
  <2> QED
    BY <1>0, <1>1, <2>2, NothingToldKeeps DEF netVars
<1>2. CASE \E c \in Conns : Accept(c) \/ AppClose(c)
  <2>1. UNCHANGED <<cch, cpool, link, toServer, toClient>>
    BY <1>2 DEF Accept, AppClose, netVars
  <2> QED
    BY <1>0, <2>1, NothingToldKeeps DEF SameClient
<1>3. ASSUME NEW i \in ChanIds,
             \/ ClientPollRead(i) \/ ClientPollQueue(i)
             \/ ClientPollEnd(i) \/ ClientPollPost(i)
      PROVE  WordInv'
  <2>1. {"chidcli", "conn_ack_recved"} \cap ReadersFields = {}
    BY DEF ReadersFields
  <2> QED
    BY <1>0, <1>1, <1>3, <2>1, ClientReaderEffect
<1>4. ASSUME NEW i \in ChanIds, ProcessClientReadyRead(i) PROVE WordInv'
  <2> DEFINE F == {"queued", "kcp"}
  <2>1. {"chidcli", "conn_ack_recved"} \cap F = {}
    OBVIOUS
  <2>2. /\ ClientAlone(i) /\ SameBut(F, cch[i], cch'[i])
        /\ cpool' = cpool /\ UNCHANGED netVars
    BY <1>0, <1>4, ReadyReadEffect
  <2>3. cch'[i].server_socket_close = cch[i].server_socket_close
    BY <2>2 DEF SameBut, Fields
  <2> HIDE DEF F
  <2> QED
    BY <1>1, <2>1, <2>2, <2>3
<1>5. CASE ClientServeKcp
  <2>1. \A k \in ChanIds : Served(cch[k], cch'[k])
    BY <1>0, <1>5, ServeKcpEffect
  <2>2. UNCHANGED <<cpool, link, toServer, toClient>>
    BY <1>5 DEF ClientServeKcp, msgVars
  <2>3. \A k \in ChanIds : SameClient(k) /\ cch'[k].chidcli = cch[k].chidcli
    BY <2>1, <2>2 DEF SameClient, Served, SameBut, Fields
  <2> QED
    BY <1>0, <2>2, <2>3, NothingToldKeeps
<1> QED
  BY <1>2, <1>3, <1>4, <1>5 DEF ClientOutside

LEMMA ClientWord ==
    ASSUME CloseInv, CloseInv', WordInv, ~LossyOvertakes,
           ClientLoop \/ ClientOutside, UNCHANGED serverVars
    PROVE  WordInv'
<1>1. /\ DataInv /\ EndsInv /\ TypeOK' /\ cpanic' \notin {"Ooops", "wtf"}
  BY DEF CloseInv, DataInv, EndsInv, PoolsInv, ClientCloseInv
<1> QED
  BY <1>1, InitConnChanelWord, AckTimeoutWord, ClientSilentWord, ClientCloseWord,
     ClientRecvAckWord, ClientRecvFinWord, ClientRecvLossyWord DEF ClientLoop

-----------------------------------------------------------------------------
(***************************************************************************)
(* The server's steps.                                                     *)
(***************************************************************************)
\* No server step changes what the client knows of itself.
LEMMA ServerConcerned ==
    ASSUME EndsInv, WordInv, UNCHANGED clientVars, NEW e \in ChanIds,
           \A k \in ChanIds \ {e} : SameServer(k),
           \A w \in Conv0 \ {sch[e].conv} : SameWord(w),
           e \in 1..chidsrv0 - 1 => WordOf(e)'
    PROVE  \A j \in 1..chidsrv0 - 1 : WordOf(j)'
<1> SUFFICES ASSUME NEW j \in 1..chidsrv0 - 1, j # e PROVE WordOf(j)'
  OBVIOUS
<1>1. j \in ChanIds /\ sch[j].conv \in Conv0 /\ sch[j].conv # sch[e].conv
  BY MadeIds DEF ChannelType, EndsInv, PoolsInv, ConvsOwn
<1>2. SameServer(j) /\ SameClient(sch[j].chidcli) /\ SameWord(sch[j].conv)
  BY <1>1 DEF SameClient, clientVars
<1> QED
  BY <1>2, WordStays DEF WordInv

\* The parts of WordInv about the client alone.
LEMMA ClientsWait ==
    ASSUME WordInv, UNCHANGED clientVars
    PROVE  /\ \A i \in ChanIds : cch'[i].server_socket_close => cch'[i].conn_ack_recved
           /\ \A i \in cpool' : cch'[i].chidcli = i
BY DEF WordInv, clientVars

\* What the server's closing promise does, as the client sees it.
LEMMA ServerPromiseTells ==
    ASSUME TypeOK, link, NEW j \in ChanIds, NEW ch \in ChannelType,
           spanic' # "Ooops", ServerPromiseChannelClose(j, ch)
    PROVE  /\ ServerAlone(j)
           /\ sch'[j].client_socket_close = ch.client_socket_close
           /\ sch'[j].chidcli = ch.chidcli /\ sch'[j].conv = ch.conv
           /\ spool' = spool \/ spool' = spool \ {j}
           /\ \/ ch.client_socket_close /\ toClient' = toClient
              \/ ~ch.client_socket_close /\ toClient' = toClient /\ spool' = spool
              \/ /\ ~ch.client_socket_close /\ j \notin spool'
                 /\ \E p \in Packet : /\ p.command = CMDCLOSEFIN /\ p.conv = ch.conv
                                      /\ toClient' = Append(toClient, p)
<1> DEFINE Goal == /\ ServerAlone(j)
                   /\ sch'[j].client_socket_close = ch.client_socket_close
                   /\ sch'[j].chidcli = ch.chidcli /\ sch'[j].conv = ch.conv
<1>1. ASSUME NEW r \in Reasons, SetReason(j, ch, r)
      PROVE  Goal
  <2> DEFINE c == AddCloseReason(ch, r)
  <2>1. SameBut({"close_reason"}, ch, c) /\ sch' = [sch EXCEPT ![j] = c]
    BY <1>1, ReaderFields DEF SetReason
  <2> HIDE DEF c
  <2> QED
    BY <2>1 DEF TypeOK, ServerTypeOK, ServerAlone, SameBut, Fields
<1>2. CASE ServerNotifyClient(j, ch)
  <2> DEFINE p == ChannelPacket(ch, CMDCLOSEFIN)
  <2>1. /\ ~ch.client_socket_close /\ toClient' = Append(toClient, p)
        /\ SetReason(j, ch, "server_close") /\ spool' = spool \ {j}
    BY <1>2 DEF ServerNotifyClient, FriendSendMessage, RmServer
  <2>2. p \in Packet /\ p.command = CMDCLOSEFIN /\ p.conv = ch.conv
    BY ChannelPacketType DEF Commands, ChannelPacket, NewPacket
  <2> HIDE DEF p
  <2> QED
    BY <1>1, <2>1, <2>2 DEF Reasons
<1>3. CASE ServerStillSending(j, ch)
  BY <1>1, <1>3 DEF ServerStillSending, Reasons
<1>4. CASE ServerBothClosed(j, ch)
  BY <1>1, <1>4 DEF ServerBothClosed, RmServer, Reasons
<1>5. CASE ServerForceClose(j, ch)
  <2> DEFINE a == AddCloseReason(ch, "client_close")
             c == [a EXCEPT !.server_socket_close = TRUE]
  <2>1. /\ sch' = [sch EXCEPT ![j] = c] /\ spool' = spool /\ toClient' = toClient
        /\ ch.client_socket_close
    BY <1>5 DEF ServerForceClose
  <2>2. a \in ChannelType /\ SameBut({"close_reason"}, ch, a)
    BY AddCloseReasonType, ReaderFields DEF Reasons
  <2> HIDE DEF a
  <2>3. SameBut({"close_reason", "server_socket_close"}, ch, c)
    BY <2>2 DEF SameBut, Fields, ChannelType
  <2> HIDE DEF c
  <2>4. Goal
    BY <2>1, <2>3 DEF TypeOK, ServerTypeOK, ServerAlone, SameBut, Fields
  <2> QED
    BY <2>1, <2>4
<1> QED
  BY <1>2, <1>3, <1>4, <1>5 DEF ServerPromiseChannelClose, ServerOoops

\* A server channel closes: the client has removed its own, or the FIN tells it.
LEMMA ServerPromiseWord ==
    ASSUME EndsInv, WordInv, UNCHANGED clientVars, UNCHANGED <<chidsrv0, link>>,
           NEW j \in ChanIds, NEW ch \in ChannelType,
           SameBut({"poll", "client_socket_close"}, sch[j], ch),
           \/ ch.client_socket_close = sch[j].client_socket_close
           \/ ch.client_socket_close /\ CmdIn(toServer, CMDCLOSEFIN, sch[j].conv),
           spanic' # "Ooops", ServerPromiseChannelClose(j, ch),
           \A w : CmdIn(toServer', CMDCLOSEFIN, w) => CmdIn(toServer, CMDCLOSEFIN, w),
           \A w : CmdIn(toServer, CMDCLOSEFIN, w) => CmdIn(toServer', CMDCLOSEFIN, w)
                    \/ (w = sch[j].conv /\ ch.client_socket_close)
    PROVE  WordInv'
<1> DEFINE v == sch[j].conv
<1>0. /\ TypeOK /\ link /\ sch[j] \in ChannelType /\ toClient \in Seq(Packet)
      /\ AcksFirst(toClient)
  BY DEF EndsInv, PoolsInv, WordInv, TypeOK, ServerTypeOK, NetTypeOK
<1>1. ch.chidcli = sch[j].chidcli /\ ch.conv = v
  BY DEF SameBut, Fields
<1>2. /\ ServerAlone(j)
      /\ sch'[j].client_socket_close = ch.client_socket_close
      /\ sch'[j].chidcli = sch[j].chidcli /\ sch'[j].conv = v
      /\ spool' = spool \/ spool' = spool \ {j}
      /\ \/ ch.client_socket_close /\ toClient' = toClient
         \/ ~ch.client_socket_close /\ toClient' = toClient /\ spool' = spool
         \/ /\ ~ch.client_socket_close /\ j \notin spool'
            /\ \E p \in Packet : /\ p.command = CMDCLOSEFIN /\ p.conv = v
                                 /\ toClient' = Append(toClient, p)
  BY <1>0, <1>1, ServerPromiseTells
<1>3. UNCHANGED <<cch, cpool>>
  BY DEF clientVars
<1>4. CMDCONNACK # CMDCLOSEFIN
  BY DEF CMDCONNACK, CMDCLOSEFIN
<1>5. /\ \A w : CmdIn(toClient', CMDCLOSEFIN, w) => CmdIn(toClient, CMDCLOSEFIN, w) \/ w = v
      /\ \A w : CmdIn(toClient, CMDCLOSEFIN, w) => CmdIn(toClient', CMDCLOSEFIN, w)
      /\ \A w : CmdIn(toClient, CMDCONNACK, w) <=> CmdIn(toClient', CMDCONNACK, w)
      /\ AcksFirst(toClient')
      /\ \/ toClient' = toClient
         \/ CmdIn(toClient', CMDCLOSEFIN, v)
  <2>1. CASE toClient' = toClient
    BY <1>0, <2>1
  <2>2. ASSUME NEW p \in Packet, p.command = CMDCLOSEFIN, p.conv = v,
               toClient' = Append(toClient, p)
        PROVE  /\ \A w : CmdIn(toClient', CMDCLOSEFIN, w) <=>
                            CmdIn(toClient, CMDCLOSEFIN, w) \/ w = v
               /\ \A w : CmdIn(toClient, CMDCONNACK, w) <=> CmdIn(toClient', CMDCONNACK, w)
               /\ AcksFirst(toClient')
    <3>1. \A cmd, w : CmdIn(toClient', cmd, w) <=>
                CmdIn(toClient, cmd, w) \/ (p.command = cmd /\ p.conv = w)
      BY <1>0, <2>2, CmdInAppend
    <3>2. AcksFirst(toClient')
      BY <1>0, <1>4, <2>2, AcksFirstAppend
    <3> QED
      BY <1>4, <2>2, <3>1, <3>2
  <2> QED
    BY <1>2, <2>1, <2>2
<1>6. \A w \in Conv0 \ {v} : SameWord(w)
  BY <1>5 DEF SameWord
<1>7. \A k \in ChanIds \ {j} : SameServer(k)
  BY <1>2 DEF SameServer, ServerAlone
<1>8. ASSUME j \in 1..chidsrv0 - 1 PROVE WordOf(j)'
  <2>1. WordOf(j)
    BY <1>8 DEF WordInv
  <2>2. CASE ch.client_socket_close
    <3>1. sch[j].chidcli \notin cpool /\ toClient' = toClient /\ spool' \subseteq spool
      BY <1>2, <2>1, <2>2 DEF WordOf
    <3> QED
      BY <1>2, <1>3, <2>1, <2>2, <3>1 DEF WordOf
  <2>3. CASE ~ch.client_socket_close /\ toClient' = toClient /\ spool' = spool
    <3>1. SameWord(v) /\ SameServer(j) /\ SameClient(sch[j].chidcli)
      BY <1>2, <1>3, <2>3 DEF SameWord, SameServer, SameClient
    <3> QED
      BY <2>1, <3>1, WordStays
  <2>4. CASE ~ch.client_socket_close /\ j \notin spool' /\ CmdIn(toClient', CMDCLOSEFIN, v)
    BY <1>2, <1>3, <1>5, <2>1, <2>4 DEF WordOf
  <2> QED
    BY <1>2, <1>5, <2>2, <2>3, <2>4
<1> HIDE DEF v
<1>9. \A k \in 1..chidsrv0 - 1 : WordOf(k)'
  BY <1>6, <1>7, <1>8, ServerConcerned DEF v
<1>10. ServerQuiet
  BY <1>2, <1>7 DEF ServerQuiet, SameServer, v
<1>11. v = 0 \/ \E k \in 1..chidsrv0 - 1 : sch[k].conv = v
  BY MadeIds DEF v
<1> QED
  BY <1>5, <1>9, <1>10, <1>11, ClientsWait, WordParts

\* A ServerCloseEvent.
LEMMA ServerCloseWord ==
    ASSUME EndsInv, WordInv, NEW j \in ChanIds, ServerClose(j), UNCHANGED clientVars,
           spanic' # "Ooops"
    PROVE  WordInv'
<1>0. sch[j] \in ChannelType
  BY DEF EndsInv, PoolsInv, TypeOK, ServerTypeOK
<1> DEFINE ch == [sch[j] EXCEPT !.poll = "done"]
<1>1. ServerPromiseChannelClose(j, ch) /\ UNCHANGED <<chidsrv0, link, toServer>>
  BY DEF ServerClose
<1>2. ch \in ChannelType /\ SameBut({"poll"}, sch[j], ch)
  BY <1>0, PollType, ReaderFields DEF PollStates
<1> HIDE DEF ch
<1>3. /\ SameBut({"poll", "client_socket_close"}, sch[j], ch)
      /\ ch.client_socket_close = sch[j].client_socket_close
  BY <1>2 DEF SameBut, Fields
<1> QED
  BY <1>1, <1>2, <1>3, ServerPromiseWord

\* The client's FIN closes the channel of its conversation, or comes too late.
LEMMA ServerRecvFinWord ==
    ASSUME EndsInv, WordInv, ServerRecvFin, UNCHANGED clientVars, spanic' # "Ooops"
    PROVE  WordInv'
<1> DEFINE v == Head(toServer).conv
           j == spool2[v]
           ch == [sch[j] EXCEPT !.client_socket_close = TRUE]
<1>0. /\ TypeOK /\ toServer \in Seq(Packet) /\ toServer # << >>
      /\ Head(toServer).command = CMDCLOSEFIN
      /\ toServer' = Tail(toServer) /\ UNCHANGED <<chidsrv0, link>>
  BY DEF EndsInv, PoolsInv, TypeOK, NetTypeOK, ServerRecvFin
<1>1. /\ v \in Conv0 /\ CmdIn(toServer, CMDCLOSEFIN, v)
      /\ \A cmd, w : CmdIn(toServer', cmd, w) => CmdIn(toServer, cmd, w)
      /\ \A cmd, w : CmdIn(toServer, cmd, w) =>
            CmdIn(toServer', cmd, w) \/ (cmd = CMDCLOSEFIN /\ w = v)
  BY <1>0, FinTaken
<1>2. CASE j # 0
  <2>1. ServerPromiseChannelClose(j, ch)
    BY <1>2 DEF ServerRecvFin
  <2>2. j \in ChanIds /\ sch[j] \in ChannelType /\ sch[j].conv = v
    BY <1>0, <1>1, <1>2 DEF EndsInv, PoolsInv, ServerPoolsAgree, TypeOK, ServerTypeOK
  <2>3. ch \in ChannelType /\ SameBut({"client_socket_close"}, sch[j], ch)
    BY <2>2, FinFields
  <2>4. ch.client_socket_close
    BY <2>2 DEF ChannelType
  <2> HIDE DEF ch, j, v
  <2>5. SameBut({"poll", "client_socket_close"}, sch[j], ch)
    BY <2>3 DEF SameBut
  <2> QED
    BY <1>0, <1>1, <2>1, <2>2, <2>3, <2>4, <2>5, ServerPromiseWord
<1>3. CASE j = 0
  <2>1. UNCHANGED <<sch, spool, toClient, cch, cpool>>
    BY <1>3 DEF ServerRecvFin, clientVars
  <2>2. \A k \in 1..chidsrv0 - 1 : sch[k].conv = v => k \notin spool
    BY <1>3 DEF EndsInv, PoolsInv, ServerPoolsAgree, ChanIds, TypeOK, ServerTypeOK
  <2> HIDE DEF v
  <2>3. ASSUME NEW k \in 1..chidsrv0 - 1, sch[k].conv = v PROVE WordOf(k)'
    <3>1. WordOf(k) /\ k \notin spool
      BY <2>2, <2>3 DEF WordInv
    <3> QED
      BY <1>1, <2>1, <3>1 DEF WordOf
  <2>4. ASSUME NEW k \in 1..chidsrv0 - 1, sch[k].conv # v PROVE WordOf(k)'
    BY <1>1, <2>1, <2>4, WordStays DEF WordInv, SameWord, SameClient, SameServer
  <2>5. ServerQuiet /\ \A k \in 1..chidsrv0 - 1 : WordOf(k)'
    BY <1>0, <2>1, <2>3, <2>4 DEF ServerQuiet
  <2>6. AcksFirst(toClient')
    BY <2>1 DEF WordInv
  <2> QED
    BY <1>0, <1>1, <2>1, <2>5, <2>6, ClientsWait, WordParts
<1> QED
  BY <1>2, <1>3

\* kcpCheckClose sends a FIN for each channel it removes that the client has
\* not closed itself.
LEMMA KcpCheckCloseWord ==
    ASSUME EndsInv, WordInv, KcpCheckClose, UNCHANGED clientVars
    PROVE  WordInv'
<1>0. /\ TypeOK /\ link /\ toClient \in Seq(Packet) /\ AcksFirst(toClient)
      /\ UNCHANGED <<chidsrv0, link, toServer, cch, cpool>>
      /\ \A k \in ChanIds : sch[k] \in ChannelType
  BY DEF EndsInv, PoolsInv, TypeOK, NetTypeOK, ServerTypeOK, WordInv, KcpCheckClose, clientVars
<1>1. PICK fins \in Seq(Packet) :
        /\ toClient' = toClient \o fins
        /\ \A k \in 1..Len(fins) :
              /\ fins[k].command = CMDCLOSEFIN
              /\ \E j \in ChanIds : Finished(j) /\ fins[k].conv = sch[j].conv
        /\ \A j \in ChanIds : Finished(j) => \E k \in 1..Len(fins) : fins[k].conv = sch[j].conv
  BY <1>0, KcpCheckCloseEffect
<1>2. \A j \in ChanIds : /\ sch'[j].chidcli = sch[j].chidcli /\ sch'[j].conv = sch[j].conv
                         /\ sch'[j].client_socket_close = sch[j].client_socket_close
                         /\ j \in spool' <=> j \in spool /\ ~KcpDrained(j)
  <2> SUFFICES ASSUME NEW j \in ChanIds
               PROVE  /\ sch'[j].chidcli = sch[j].chidcli /\ sch'[j].conv = sch[j].conv
                      /\ sch'[j].client_socket_close = sch[j].client_socket_close
                      /\ j \in spool' <=> j \in spool /\ ~KcpDrained(j)
    OBVIOUS
  <2> DEFINE m == [sch[j] EXCEPT !.server_kcp_close = TRUE]
  <2>1. /\ \/ sch'[j] = sch[j] \/ sch'[j] = m
           \/ sch'[j] = AddCloseReason(m, "both_close")
           \/ sch'[j] = AddCloseReason(m, "server_close")
        /\ spool' = spool \ {k \in ChanIds : KcpDrained(k)}
    BY <1>0 DEF KcpCheckClose
  <2>2. /\ m \in ChannelType /\ m.chidcli = sch[j].chidcli /\ m.conv = sch[j].conv
        /\ m.client_socket_close = sch[j].client_socket_close
    BY <1>0 DEF ChannelType
  <2> HIDE DEF m
  <2>3. \A r : SameBut({"close_reason"}, m, AddCloseReason(m, r))
    BY <2>2, ReaderFields
  <2>4. \A r : /\ AddCloseReason(m, r).chidcli = m.chidcli /\ AddCloseReason(m, r).conv = m.conv
               /\ AddCloseReason(m, r).client_socket_close = m.client_socket_close
    BY <2>3 DEF SameBut, Fields
  <2> QED
    BY <2>1, <2>2, <2>4
<1>3. CMDCONNACK # CMDCLOSEFIN
  BY DEF CMDCONNACK, CMDCLOSEFIN
<1>4. \A cmd, w : CmdIn(toClient', cmd, w) <=> CmdIn(toClient, cmd, w) \/ CmdIn(fins, cmd, w)
  BY <1>0, <1>1, CmdInConcat
<1>5. /\ \A w : ~CmdIn(fins, CMDCONNACK, w)
      /\ \A w : CmdIn(fins, CMDCLOSEFIN, w) =>
            \E j \in ChanIds : Finished(j) /\ w = sch[j].conv
      /\ \A j \in ChanIds : Finished(j) => CmdIn(fins, CMDCLOSEFIN, sch[j].conv)
  BY ZenonT(60), <1>1, <1>3 DEF CmdIn
<1>6. AcksFirst(toClient')
  BY <1>0, <1>1, AcksFirstConcat
<1>7. \A j \in ChanIds : Finished(j) => j \in 1..chidsrv0 - 1
  BY MadeIds DEF Finished, KcpDrained, EndsInv, PoolsInv, RegisteredHaveConv
<1>8. ASSUME NEW j \in 1..chidsrv0 - 1 PROVE WordOf(j)'
  <2>1. WordOf(j) /\ j \in ChanIds
    BY MadeIds DEF WordInv
  <2>2. CASE Finished(j)
    <3>1. j \notin spool' /\ CmdIn(toClient', CMDCLOSEFIN, sch[j].conv)
      BY <1>2, <1>4, <1>5, <2>1, <2>2 DEF Finished
    <3> QED
      BY <1>0, <1>2, <1>4, <1>5, <2>1, <2>2, <3>1 DEF WordOf
  <2>3. CASE ~Finished(j)
    <3>1. ~CmdIn(fins, CMDCLOSEFIN, sch[j].conv)
      BY <1>5, <1>7, <2>3, MadeOwn
    <3>2. SameWord(sch[j].conv) /\ SameClient(sch[j].chidcli)
      BY <1>0, <1>4, <1>5, <3>1 DEF SameWord, SameClient
    <3>3. CASE ~KcpDrained(j)
      <4>1. SameServer(j)
        BY <1>2, <2>1, <3>3 DEF SameServer
      <4> QED
        BY <2>1, <3>2, <4>1, WordStays
    <3>4. CASE KcpDrained(j)
      <4>1. /\ sch[j].client_socket_close /\ sch[j].chidcli \notin cpool
            /\ j \notin spool' /\ sch'[j].client_socket_close
            /\ sch'[j].chidcli = sch[j].chidcli
        BY <1>2, <2>1, <2>3, <3>4 DEF Finished, WordOf
      <4> QED
        BY <1>0, <4>1 DEF WordOf
    <3> QED
      BY <3>3, <3>4
  <2> QED
    BY <2>2, <2>3
<1>9. ServerQuiet
  BY <1>0, <1>2 DEF ServerQuiet
<1> QED
  BY <1>0, <1>4, <1>5, <1>6, <1>7, <1>8, <1>9, ClientsWait, WordParts

\* connect_syn: the new channel's conversation is in no message but its ACK.
LEMMA ServerRecvSynWord ==
    ASSUME EndsInv, WordInv, ServerRecvSyn, UNCHANGED clientVars
    PROVE  WordInv'
<1> PICK new : new = chidsrv0
  OBVIOUS
<1>0. /\ TypeOK /\ link /\ toServer \in Seq(Packet) /\ toClient \in Seq(Packet)
      /\ toServer # << >> /\ Head(toServer).command = CMDCONNSYN
      /\ UNCHANGED <<link, cch, cpool>> /\ AcksFirst(toClient)
      /\ FinsKnown(toServer) /\ FinsKnown(toClient)
  BY DEF EndsInv, PoolsInv, TypeOK, NetTypeOK, ServerRecvSyn, WordInv, clientVars
<1>1. PICK v, ch :
        /\ v \in MakeKcpConv
        /\ new \in ChanIds /\ chidsrv0' = new + 1
        /\ sch' = [sch EXCEPT ![new] = ch]
        /\ ch.conv = v /\ ch.chidcli = Head(toServer).chidcli
        /\ ch.chidsrv = new /\ ~ch.client_socket_close
        /\ spool' = spool \cup {new}
        /\ toServer' = Tail(toServer)
        /\ toClient' = Append(toClient, ChannelPacket(ch, CMDCONNACK))
  BY ServerRecvSynEffect DEF EndsInv
<1> DEFINE i == ch.chidcli
           ack == ChannelPacket(ch, CMDCONNACK)
<1>2. v \in Conv0 /\ v # 0 /\ \A k \in 1..new - 1 : sch[k].conv # v
  BY <1>1, ChannelAssumption DEF MakeKcpConv, Conv0
<1>3. /\ Head(toServer) \in Packet /\ Head(toServer) = toServer[1]
      /\ 1 \in 1..Len(toServer)
  BY <1>0
<1>4. i \in 1..chanid0 - 1 /\ \A k \in 1..new - 1 : sch[k].chidcli # i
  BY <1>0, <1>1, <1>3 DEF EndsInv, SynsOnce
<1>5. i \in ChanIds /\ ~cch[i].conn_ack_recved /\ ~cch[i].server_socket_close
  BY <1>4, MadeIds DEF EndsInv, ConnectedHasEnd, WordInv
<1>6. ack \in Packet /\ ack.command = CMDCONNACK /\ ack.conv = v
  BY <1>1, <1>2, <1>3, <1>4, <1>5 DEF ChannelPacket, NewPacket, Packet, Commands, ChanIds
<1>7. \A w : CmdIn(toServer', CMDCLOSEFIN, w) <=> CmdIn(toServer, CMDCLOSEFIN, w)
  <2>1. CMDCONNSYN # CMDCLOSEFIN
    BY DEF CMDCONNSYN, CMDCLOSEFIN
  <2> QED
    BY <1>0, <1>1, <2>1, CmdInTail
<1> HIDE DEF ack
<1>8. CMDCONNACK # CMDCLOSEFIN
  BY DEF CMDCONNACK, CMDCLOSEFIN
<1>9. \A cmd, w : CmdIn(toClient', cmd, w) <=>
          CmdIn(toClient, cmd, w) \/ (cmd = CMDCONNACK /\ w = v)
  BY <1>0, <1>1, <1>6, CmdInAppend DEF ack
<1>10. ~CmdIn(toServer, CMDCLOSEFIN, v) /\ ~CmdIn(toClient, CMDCLOSEFIN, v)
  BY <1>0, <1>2 DEF FinsKnown
<1>11. AcksFirst(toClient')
  BY <1>0, <1>1, <1>6, <1>10, AcksFirstAppend DEF ack
<1>12. /\ sch'[new] = ch /\ \A k \in ChanIds : k # new => sch'[k] = sch[k]
       /\ new \in Nat /\ \A k \in 1..new - 1 : k \in ChanIds /\ k # new
       /\ \A k \in 1..chidsrv0' - 1 : k \in 1..new - 1 \/ k = new
       /\ \A k \in 1..new - 1 : k \in 1..chidsrv0' - 1
  BY <1>0, <1>1, MadeIds DEF TypeOK, ServerTypeOK, ChanIds
<1>13. ASSUME NEW k \in 1..new - 1 PROVE WordOf(k)'
  <2>1. SameServer(k) /\ SameClient(sch[k].chidcli)
    BY <1>0, <1>1, <1>12 DEF SameServer, SameClient
  <2>2. SameWord(sch[k].conv)
    BY <1>2, <1>7, <1>8, <1>9 DEF SameWord
  <2> QED
    BY <2>1, <2>2, WordStays DEF WordInv
<1>14. WordOf(new)'
  BY <1>0, <1>1, <1>5, <1>7, <1>8, <1>9, <1>10, <1>12 DEF WordOf
<1>15. \A w \in Conv0 :
          CmdIn(toServer', CMDCLOSEFIN, w) \/ CmdIn(toClient', CMDCLOSEFIN, w) =>
              w = 0 \/ \E k \in 1..chidsrv0' - 1 : sch'[k].conv = w
  BY <1>0, <1>7, <1>8, <1>9, <1>12 DEF FinsKnown
<1>16. FinsKnown(toServer)' /\ FinsKnown(toClient)'
  BY <1>15 DEF FinsKnown, CmdIn
<1>17. AcksFirst(toClient)'
  BY <1>11 DEF AcksFirst
<1> QED
  BY <1>0, <1>12, <1>13, <1>14, <1>16, <1>17, ClientsWait DEF WordInv

\* Goroutines, read events, serveKcp and KCP packets tell nobody anything.
LEMMA ServerSilentWord ==
    ASSUME EndsInv, WordInv, TypeOK', UNCHANGED clientVars,
           \/ ServerOutside
           \/ \E j \in ChanIds : ProcessServerReadyRead(j)
           \/ \E S \in SUBSET spool : ServerServeKcp(S)
           \/ \E p \in lossyC : ServerRecvLossy(p)
    PROVE  WordInv'
<1>0. /\ TypeOK /\ \A k \in ChanIds : SameClient(k) /\ cch'[k].chidcli = cch[k].chidcli
  BY DEF EndsInv, PoolsInv, SameClient, clientVars
<1>1. ASSUME UNCHANGED <<chidsrv0, spool, link, toServer, toClient>>,
             \A k \in ChanIds : /\ sch'[k].chidcli = sch[k].chidcli
                                /\ sch'[k].conv = sch[k].conv
                                /\ sch'[k].client_socket_close = sch[k].client_socket_close
      PROVE  WordInv'
  BY <1>0, <1>1, NothingToldKeeps DEF SameServer
<1>2. ASSUME NEW j \in ChanIds, ServerDialFails(j) \/ BackendClose(j)
      PROVE  WordInv'
  BY <1>1, <1>2 DEF ServerDialFails, BackendClose, netVars
<1>3. ASSUME NEW j \in ChanIds,
             \/ ServerDial(j) \/ ServerPollRead(j) \/ ServerPollQueue(j)
             \/ ServerPollEnd(j) \/ ServerPollPost(j)
      PROVE  WordInv'
  <2>1. /\ ServerAlone(j) /\ SameBut(ReadersFields, sch[j], sch'[j])
        /\ sch'[j].client_socket_close = sch[j].client_socket_close
        /\ UNCHANGED <<chidsrv0, spool, netVars>>
    BY <1>0, <1>3, ServerReaderEffect
  <2>2. sch'[j].chidcli = sch[j].chidcli /\ sch'[j].conv = sch[j].conv
    BY <2>1 DEF SameBut, Fields, ReadersFields
  <2> QED
    BY <1>1, <2>1, <2>2 DEF ServerAlone, netVars
<1>4. ASSUME NEW j \in ChanIds, ProcessServerReadyRead(j) PROVE WordInv'
  <2>1. /\ ServerAlone(j) /\ SameBut({"queued", "kcp"}, sch[j], sch'[j])
        /\ UNCHANGED <<chidsrv0, spool, netVars>>
    BY <1>0, <1>4, ReadyReadEffect
  <2> QED
    BY <1>1, <2>1 DEF ServerAlone, SameBut, Fields, netVars
<1>5. ASSUME NEW S \in SUBSET spool, ServerServeKcp(S) PROVE WordInv'
  <2>1. \A k \in ChanIds : Served(sch[k], sch'[k])
    BY <1>0, <1>5, ServeKcpEffect
  <2>2. UNCHANGED <<chidsrv0, spool, link, toServer, toClient>>
    BY <1>5 DEF ServerServeKcp, msgVars
  <2> QED
    BY <1>1, <2>1, <2>2 DEF Served, SameBut, Fields
<1>6. ASSUME NEW p \in lossyC, ServerRecvLossy(p) PROVE WordInv'
  <2> DEFINE j == spool2[p.conv]
             ch == [sch[j] EXCEPT !.kcp = KcpInput(sch[j].kcp, p)]
  <2>1. sch' = [sch EXCEPT ![j] = ch] /\ j # 0 /\ UNCHANGED <<chidsrv0, spool, netVars>>
    BY <1>6 DEF ServerRecvLossy
  <2>2. j \in ChanIds /\ sch[j] \in ChannelType
    BY <1>0, <2>1 DEF TypeOK, ServerTypeOK, NetTypeOK, KcpPacket
  <2>3. SameBut({"kcp"}, sch[j], ch)
    BY <2>2, ReaderFields
  <2> HIDE DEF ch, j
  <2>4. sch'[j] = ch /\ \A k \in ChanIds : k # j => sch'[k] = sch[k]
    BY <1>0, <2>1, <2>2 DEF TypeOK, ServerTypeOK
  <2> QED
    BY <1>1, <2>1, <2>3, <2>4 DEF SameBut, Fields, netVars
<1> QED
  BY <1>2, <1>3, <1>4, <1>5, <1>6 DEF ServerOutside

LEMMA ServerWord ==
    ASSUME CloseInv, CloseInv', WordInv,
           ServerLoop \/ ServerOutside, UNCHANGED clientVars
    PROVE  WordInv'
<1>1. /\ EndsInv /\ TypeOK' /\ spanic' # "Ooops"
  BY DEF CloseInv, DataInv, EndsInv, PoolsInv, ServerCloseInv
<1> QED
  BY <1>1, ServerSilentWord, ServerCloseWord, KcpCheckCloseWord, ServerRecvSynWord,
     ServerRecvFinWord DEF ServerLoop

-----------------------------------------------------------------------------
\* Nothing is made and nothing is under way at the start, ...
LEMMA WordInit == Init => WordInv
<1> SUFFICES ASSUME Init PROVE WordInv
  OBVIOUS
<1>1. /\ link /\ chidsrv0 = 1 /\ toServer = << >> /\ toClient = << >> /\ cpool = {}
      /\ \A i \in ChanIds : cch[i] = ZeroChannel
  BY DEF Init, NetInit, ClientInit, ServerInit
<1>2. \A k \in 1..Len(<< >>) : FALSE
  OBVIOUS
<1>3. ~ZeroChannel.server_socket_close
  BY DEF ZeroChannel
<1> QED
  BY <1>1, <1>2, <1>3 DEF WordInv, FinsKnown, CmdIn, AcksFirst

\* ... and every step leaves each side with word of the other's channels, as
\* long as the link holds and no KCP packet overtakes the ACK.
LEMMA WordStep ==
    ASSUME MaxDowns = 0, ~LossyOvertakes
    PROVE  CloseInv /\ WordInv /\ [Next]_vars => WordInv'
<1> SUFFICES ASSUME CloseInv, WordInv, [Next]_vars PROVE WordInv'
  OBVIOUS
<1>1. CloseInv' /\ TypeOK /\ link
  BY CloseStep DEF CloseInv, DataInv, EndsInv, PoolsInv, WordInv
<1>2. CASE (ClientLoop \/ ClientOutside) /\ UNCHANGED serverVars
  BY <1>1, <1>2, ClientWord
<1>3. CASE (ServerLoop \/ ServerOutside) /\ UNCHANGED clientVars
  BY <1>1, <1>3, ServerWord
<1>4. ~LinkDown /\ ~LinkUp
  BY <1>1 DEF LinkDown, LinkUp, TypeOK, NetTypeOK
<1>5. CASE UNCHANGED vars
  <2>1. UNCHANGED <<chidsrv0, link, toServer, toClient, cch, cpool, sch, spool>>
    BY <1>5 DEF vars, netVars, clientVars, serverVars
  <2> QED
    BY <1>1, <2>1, NothingToldKeeps
       DEF CloseInv, DataInv, EndsInv, PoolsInv, SameClient, SameServer
<1> QED
  BY <1>2, <1>3, <1>4, <1>5 DEF Next

\* While both processes have the link and no KCP packet overtakes the ACK,
\* neither end keeps a channel the other has given up without word of it on the
\* way: a connected client channel whose server end is gone will get its FIN,
\* and a server channel whose client has gone will get one, or an ACK will ask
\* for it.  rmClient, rmServer, kcpCheckClose, the answers to late ACKs and to
\* stray packets leave no gap, for any number of connections and channels.
THEOREM NobodyAbandoned ==
    ASSUME MaxDowns = 0, LossyOvertakes = FALSE
    PROVE  Spec => []NotAbandoned
<1>1. CloseInv /\ WordInv => NotAbandoned
  <2> SUFFICES ASSUME CloseInv, WordInv PROVE NotAbandoned
    OBVIOUS
  <2>0. EndsInv /\ cpool \subseteq ChanIds /\ spool \subseteq ChanIds
    BY DEF CloseInv, DataInv, EndsInv, PoolsInv, TypeOK, ClientTypeOK, ServerTypeOK
  <2>1. ASSUME NEW i \in cpool, cch[i].kcp.open, ~cch[i].server_socket_close
        PROVE  cch[i].chidsrv \in spool \/ CmdIn(toClient, CMDCLOSEFIN, cch[i].conv)
    <3>1. cch[i].conn_ack_recved
      BY <2>0, <2>1 DEF EndsInv, HalfOpenIsNew, NilKcp
    <3>2. PICK e \in 1..chidsrv0 - 1 :
            e = cch[i].chidsrv /\ sch[e].chidcli = i /\ sch[e].conv = cch[i].conv
      BY <2>0, <3>1, EndOf
    <3> QED
      BY <2>1, <3>2 DEF WordInv, WordOf
  <2>2. ASSUME NEW j \in spool, ~sch[j].client_socket_close
        PROVE  \/ sch[j].chidcli \in cpool
               \/ CmdIn(toClient, CMDCONNACK, sch[j].conv)
               \/ CmdIn(toServer, CMDCLOSEFIN, sch[j].conv)
    <3>1. j \in 1..chidsrv0 - 1
      BY <2>0, MadeIds DEF EndsInv, PoolsInv, RegisteredHaveConv
    <3> QED
      BY <2>2, <3>1 DEF WordInv, WordOf
  <2>3. ClientNotAbandoned
    BY <2>1 DEF ClientNotAbandoned, CmdIn
  <2>4. ServerNotAbandoned
    BY <2>2 DEF ServerNotAbandoned, CmdIn
  <2> QED
    BY <2>3, <2>4 DEF NotAbandoned
<1>2. CloseInv /\ WordInv /\ [Next]_vars => CloseInv' /\ WordInv'
  BY CloseStep, WordStep
<1> QED
  BY CloseInit, WordInit, <1>1, <1>2, PTL DEF Spec
=============================================================================
