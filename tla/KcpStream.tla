----------------------------- MODULE KcpStream -----------------------------
(***************************************************************************)
(* What a pair of KCP objects promises its users: two streams of messages, *)
(* one in each direction, that arrive whole, once and in order.  A message *)
(* is the sequence of its fragments, and a fragment is known by its place  *)
(* in its stream, so that every fragment is a number of its own.           *)
(***************************************************************************)
EXTENDS Integers, Sequences

Ends == {"client", "server"}
Peer == [e \in Ends |-> IF e = "client" THEN "server" ELSE "client"]

VARIABLES
    snd,    \* snd[e]: fragments given to Send by e
    una,    \* una[e]: fragments of e that need no retransmission, all below
    rcv,    \* rcv[e]: fragments of the peer that reached e, all below
    read    \* read[e]: fragments of the peer that Recv returned at e

streamVars == <<snd, una, rcv, read>>

StreamInit ==
    /\ snd = [e \in Ends |-> 0] /\ una = [e \in Ends |-> 0]
    /\ rcv = [e \in Ends |-> 0] /\ read = [e \in Ends |-> 0]

\* A message of n fragments is given to Send.
Give(e) ==
    /\ snd'[e] \in Nat /\ snd'[e] > snd[e] /\ snd' = [snd EXCEPT ![e] = snd'[e]]
    /\ UNCHANGED <<una, rcv, read>>

\* A segment of the peer extends what arrived, and what is acknowledged.
Progress(e) ==
    /\ \E r \in rcv[e]..snd[Peer[e]] : rcv' = [rcv EXCEPT ![e] = r]
    /\ \E u \in una[e]..rcv[Peer[e]] : una' = [una EXCEPT ![e] = u]
    /\ UNCHANGED <<snd, read>>

\* Recv takes a message that has arrived.
Take(e) ==
    /\ \E n \in read[e] + 1 .. rcv[e] : read' = [read EXCEPT ![e] = n]
    /\ UNCHANGED <<snd, una, rcv>>

StreamNext == \E e \in Ends : Give(e) \/ Progress(e) \/ Take(e)

StreamSpec == StreamInit /\ [][StreamNext]_streamVars

-----------------------------------------------------------------------------
\* Nothing is read before it arrived, nothing arrives that was not sent, and
\* nothing is taken for delivered by the sender that is not at the receiver.
StreamOrder ==
    \A e \in Ends :
        /\ read[e] <= rcv[e]
        /\ rcv[e] <= snd[Peer[e]]
        /\ una[e] <= rcv[Peer[e]]
=============================================================================
