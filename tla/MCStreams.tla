----------------------------- MODULE MCStreams -----------------------------
(***************************************************************************)
(* The two protocols that carry bytes over datagrams, Kcp and SrudpCpp,    *)
(* under their fairness: one behaviour runs one of them.                   *)
(***************************************************************************)
EXTENDS Integers

VARIABLES
    program,
    kcp, net, sent, got, calm,      \* Kcp
    end, paths, written, taken      \* SrudpCpp

kcpVars == <<kcp, net, sent, got, calm>>
srudpVars == <<end, paths, written, taken>>
allVars == <<program, kcpVars, srudpVars>>

\* The client of toxtun-go sends three messages into a window of one.
Kcp == INSTANCE Kcp WITH
    SnModulus <- 16, SndWnd <- 2, RcvWnd <- 1, FastResend <- 1, NoCwnd <- FALSE,
    MaxFrag <- 1, MaxWait <- 3, MaxSend <- [client |-> 3, server |-> 0],
    MaxNet <- [client |-> 1, server |-> 1], MaxLag <- 3, MayCalm <- TRUE

\* One packet at a time is sent again until it is acknowledged.
Srudp == INSTANCE SrudpCpp WITH
    net <- paths, Peer <- [cli |-> "srv", srv |-> "cli"], ClientMode <- "srv", PktLen <- 1,
    SchedMax <- 1, MaxWrite <- 2, MaxBytes <- [cli |-> 2, srv |-> 0]

Init == program \in {"kcp", "srudp"} /\ Kcp!Init /\ Srudp!Init

Next ==
    \/ program = "kcp" /\ Kcp!Next /\ UNCHANGED <<program, srudpVars>>
    \/ program = "srudp" /\ Srudp!Next /\ UNCHANGED <<program, kcpVars>>

Fairness ==
    /\ program = "kcp" => Kcp!Fairness
    /\ program = "srudp" => Srudp!Fairness

FairSpec == Init /\ [][Next]_allVars /\ Fairness

\* Once the network works, everything given to Kcp is taken and acknowledged;
\* everything SrudpCpp has been given is read although packets and
\* acknowledgements are lost again and again.
EventuallyDelivered ==
    /\ program = "kcp" => Kcp!EventuallyDelivered
    /\ program = "srudp" => Srudp!AllArrives
=============================================================================
