------------------------------ MODULE Channel ------------------------------
(***************************************************************************)
(* toxtun-go/channel.go: the Channel object both ends of the tunnel keep   *)
(* for one proxied TCP connection, the control packets made from it, and   *)
(* the part of a channel's KCP (toxtun-go/kcp.go) the tunnel relies on.    *)
(*                                                                         *)
(* A channel object outlives its entry in the pools, because goroutines    *)
(* and queued events hold pointers to it.  A process therefore keeps ALL   *)
(* the channels it ever made in a function over ChanIds, and its pools     *)
(* name the ones that are still registered.                                *)
(***************************************************************************)
EXTENDS Integers, Sequences

CONSTANTS
    Conns,          \* TCP connections that applications open to the client
    Convs,          \* KCP conversation numbers crc32 can produce (uint32)
    MaxChan,        \* bound: channels one process makes
    MaxData,        \* bound: messages read from one TCP connection
    RetryLimit,     \* 10 in the code: SYN attempts repeated after a failure
    SndLimit,       \* kcp.snd_wnd * 5: a reader waits above this WaitSnd
    NoConn          \* the nil net.Conn

\* Numbers are in the ranges the code gives them, and nil is no connection.
ASSUME ChannelAssumption ==
    /\ Convs \subseteq Nat \ {0}
    /\ MaxChan \in Nat /\ MaxData \in Nat /\ RetryLimit \in Nat
    /\ SndLimit \in Nat \ {0}
    /\ NoConn \notin Conns

ChanIds == 1..MaxChan
Conv0 == Convs \cup {0}          \* conv is 0 until it has been negotiated

CMDCONNSYN  == "connect_syn"
CMDCONNACK  == "connect_ack"
CMDCLOSEFIN == "close_fin"
Commands == {CMDCONNSYN, CMDCONNACK, CMDCLOSEFIN}

\* Packet: the fields of a control message that its receiver looks at.
\* toJson and parsePacket write and read exactly these as JSON numbers and
\* strings, without loss for an int, a uint32 and the three commands.
Packet == [command : Commands, chidcli : Nat, chidsrv : Nat, conv : Conv0]

NewPacket(cmd, chidcli, chidsrv, conv) ==
    [command |-> cmd, chidcli |-> chidcli, chidsrv |-> chidsrv, conv |-> conv]

\* NewBrokenPacket + NewChannelFromPacket + makeCloseFINPacket: the FIN for
\* a conversation of which nothing but the number is known.
BrokenFIN(conv) == NewPacket(CMDCLOSEFIN, 0, 0, conv)

(***************************************************************************)
(* A channel's KCP, reduced to the messages it carries: snd were given to  *)
(* Send, una of them are acknowledged, rcv messages of the peer are in the *)
(* receive queue or past it, read of them were taken by Recv.              *)
(***************************************************************************)
KcpState == [open : BOOLEAN, snd : Nat, una : Nat, rcv : Nat, read : Nat]

NilKcp == [open |-> FALSE, snd |-> 0, una |-> 0, rcv |-> 0, read |-> 0]
NewKCP == [NilKcp EXCEPT !.open = TRUE]

WaitSnd(kcp) == kcp.snd - kcp.una

KcpSend(kcp) == [kcp EXCEPT !.snd = @ + 1]
KcpRecv(kcp) == [kcp EXCEPT !.read = @ + 1]

\* KCP.Input of one packet: a message that is next in order is queued, and
\* the cumulative acknowledgement removes what the peer has received.
KcpInput(kcp, p) ==
    [kcp EXCEPT !.rcv = IF p.sn = @ + 1 THEN p.sn ELSE @,
                !.una = IF p.una > @ THEN p.una ELSE @]

\* Mutant of KcpFlush: una is the next message expected, taken one too far.
KcpFlushAhead(kcp, conv) ==
    {[conv |-> conv, sn |-> n, una |-> kcp.rcv + 1] : n \in kcp.una + 1 .. kcp.snd}
    \cup IF kcp.rcv > 0 THEN {[conv |-> conv, sn |-> 0, una |-> kcp.rcv + 1]} ELSE {}

\* The packets one flush emits: each unacknowledged message, or a bare
\* acknowledgement when there is something to acknowledge.
KcpFlush(kcp, conv) ==
    {[conv |-> conv, sn |-> n, una |-> kcp.rcv] : n \in kcp.una + 1 .. kcp.snd}
    \cup IF kcp.rcv > 0 THEN {[conv |-> conv, sn |-> 0, una |-> kcp.rcv]} ELSE {}

KcpPacket == [conv : Conv0, sn : Nat, una : Nat]

(***************************************************************************)
(* The channel object.  The goroutine that reads the channel's TCP         *)
(* connection is part of it: poll is where that goroutine is, queued the   *)
(* number of its read events the event loop has not handled.  out counts   *)
(* the peer's messages that were really written to the connection.         *)
(***************************************************************************)
PollStates == {"none", "dial", "reading", "holding", "post", "posted", "done"}
Reasons == {"client_close", "server_close", "server_close2", "both_close",
            "connect_timeout"}

ChannelType ==
    [conn : Conns \cup {NoConn}, chidcli : Nat, chidsrv : Nat, conv : Conv0,
     kcp : KcpState,
     client_socket_close : BOOLEAN,
     server_socket_close : BOOLEAN, server_kcp_close : BOOLEAN,
     conn_ack_recved : BOOLEAN, close_reason : Seq(Reasons),
     poll : PollStates, queued : Nat, taken : Nat, out : Nat]

\* new(Channel): Go's zero value.
ZeroChannel ==
    [conn |-> NoConn, chidcli |-> 0, chidsrv |-> 0, conv |-> 0, kcp |-> NilKcp,
     client_socket_close |-> FALSE,
     server_socket_close |-> FALSE, server_kcp_close |-> FALSE,
     conn_ack_recved |-> FALSE, close_reason |-> << >>,
     poll |-> "none", queued |-> 0, taken |-> 0, out |-> 0]

NewChannelClient(id, conn) ==
    [ZeroChannel EXCEPT !.chidcli = id, !.conn = conn]

NewChannelWithId(id, chidcli) ==
    [ZeroChannel EXCEPT !.chidsrv = id, !.chidcli = chidcli]

ChannelPacket(ch, cmd) == NewPacket(cmd, ch.chidcli, ch.chidsrv, ch.conv)

\* A channel collects the reasons of its closing; the sixth one panics.
MaxReasons == 5
AddCloseReason(ch, reason) ==
    [ch EXCEPT !.close_reason = Append(@, reason)]
ReasonPanic(ch) == Len(ch.close_reason) >= MaxReasons
=============================================================================
