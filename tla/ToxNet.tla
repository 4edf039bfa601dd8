------------------------------- MODULE ToxNet -------------------------------
(***************************************************************************)
(* The Tox network as the tunnel uses it (go-toxcore, external code).      *)
(*                                                                         *)
(* Friend messages are reliable and ordered while the two friends see each *)
(* other; sending to a friend who is offline returns an error, and what    *)
(* was under way when the connection broke is lost.  Lossy packets may be  *)
(* lost, repeated, delayed and reordered: a packet that was sent once may  *)
(* arrive at any later time, any number of times.                          *)
(***************************************************************************)
EXTENDS Channel

CONSTANTS
    MaxDowns,       \* bound: how often the friends lose each other
    MaxMsgs,        \* bound: messages to the server when a stray packet is answered
    LossyOvertakes  \* whether a lossy packet may overtake the connect ACK

\* Bounds are numbers; the overtaking switch is a truth value.
ASSUME ToxNetAssumption ==
    MaxDowns \in Nat /\ MaxMsgs \in Nat /\ LossyOvertakes \in BOOLEAN

VARIABLES
    link,       \* TRUE while the friends are connected
    downs,      \* how often they have lost each other
    toServer,   \* friend messages on their way to the server, in order
    toClient,   \* friend messages on their way to the client, in order
    lossyC,     \* lossy packets the client has sent
    lossyS      \* lossy packets the server has sent

netVars == <<link, downs, toServer, toClient, lossyC, lossyS>>
msgVars == <<toServer, toClient>>
lossyVars == <<lossyC, lossyS>>

NetTypeOK ==
    /\ link \in BOOLEAN
    /\ downs \in 0..MaxDowns
    /\ toServer \in Seq(Packet)
    /\ toClient \in Seq(Packet)
    /\ lossyC \subseteq KcpPacket
    /\ lossyS \subseteq KcpPacket

NetInit ==
    /\ link = TRUE
    /\ downs = 0
    /\ toServer = << >>
    /\ toClient = << >>
    /\ lossyC = {}
    /\ lossyS = {}

\* tox.FriendSendMessage: the queue after sending p to a connected friend;
\* an error, with the queue as it was, when the friend is offline.
FriendSendMessage(q, p) == IF link THEN Append(q, p) ELSE q

\* Whether the KCP packet p can be delivered to the client now.
Overtakes(p) ==
    \E k \in 1..Len(toClient) :
        toClient[k].command = CMDCONNACK /\ toClient[k].conv = p.conv
CanReachClient(p) == link /\ (LossyOvertakes \/ ~Overtakes(p))

\* The friends lose each other: messages under way are gone.
LinkDown ==
    /\ link
    /\ downs < MaxDowns
    /\ link' = FALSE
    /\ downs' = downs + 1
    /\ toServer' = << >>
    /\ toClient' = << >>
    /\ UNCHANGED lossyVars

\* toxcore finds the friend again.
LinkUp ==
    /\ ~link
    /\ link' = TRUE
    /\ UNCHANGED <<downs, msgVars, lossyVars>>
=============================================================================
