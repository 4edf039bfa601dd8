------------------------------- MODULE MCENet -------------------------------
(***************************************************************************)
(* ENet for TLC: one behaviour checks one program.  "channel" is module    *)
(* ENetChannel, whose variables are those of this module; "reuse" and      *)
(* "slots" are module ENetPeer with one peer that is used again and again, *)
(* and with two peers.  The variables of the others stay as they were.     *)
(***************************************************************************)
EXTENDS ENetChannel

R == "reliable"
F == "fragments"
U == "unreliable"
N == "unsequenced"
MixScripts == {<<F, U, R>>, <<U, R, U>>, <<U, U, U>>, <<N, F, N>>, <<R, R, R, R>>}

VARIABLES program, host, datagrams, app, quits, extras

peers == <<host, datagrams, app, quits, extras>>
allVars == <<program, vars, peers>>

One == INSTANCE ENetPeer WITH net <- datagrams, PeerCount <- 1,
           MaxConnects <- 2, MaxQuits <- 1, MaxExtras <- 1, NetCap <- 2
Two == INSTANCE ENetPeer WITH net <- datagrams, PeerCount <- 2,
           MaxConnects <- 2, MaxQuits <- 1, MaxExtras <- 0, NetCap <- 1

MCInit ==
    /\ program \in {"channel", "reuse", "slots"}
    /\ Init
    /\ program # "channel" => script = <<U, U, U>>
    /\ IF program = "slots" THEN Two!Init ELSE One!Init

MCNext ==
    \/ program = "channel" /\ Next /\ UNCHANGED <<program, peers>>
    \/ program = "reuse" /\ One!Next /\ UNCHANGED <<program, vars>>
    \/ program = "slots" /\ Two!Next /\ UNCHANGED <<program, vars>>

MCSpec == MCInit /\ [][MCNext]_allVars

\* The type invariants of the programs.
TypesOK == TypeOK /\ IF program = "slots" THEN Two!TypeOK ELSE One!TypeOK

\* In the terms of ENetPeer (host.c, peer.c, protocol.c): what an application
\* hears of a peer is a connection, its packets and its end, in this order; and
\* on a channel what is given in sequence is taken in sequence.
InOrder ==
    /\ SequencedOnce
    /\ IF program = "slots" THEN Two!EventsInOrder ELSE One!EventsInOrder

\* The host's count of connected peers is the number of peers in the states
\* that peer.c counts, whatever way each of them was left, and the counters of
\* a channel are what its queues say they are.
CountsAgree ==
    /\ CountersAgree
    /\ IF program = "slots" THEN Two!ConnectedCounted ELSE One!ConnectedCounted

\* Two connected peers that name each other belong to one connection, and a
\* peer that is used again never takes a packet of its last connection.
NothingOfAnother ==
    IF program = "slots" THEN Two!PeersPaired /\ Two!NoPacketOfAnother
                         ELSE One!PeersPaired /\ One!NoPacketOfAnother

\* A peer that is being closed has something that will end it.
NoneStuck == IF program = "slots" THEN Two!NoneStuck ELSE One!NoneStuck
=============================================================================
