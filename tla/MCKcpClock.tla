----------------------------- MODULE MCKcpClock ----------------------------
(***************************************************************************)
(* Instances of KcpClock for TLC.                                          *)
(***************************************************************************)
EXTENDS KcpClock

ForwardAndBack == {-5, 5}

\* The server with the default settings, and the client in fast mode.
SlowServerFastClient ==
    {[interval |-> 3, nodelay |-> FALSE, check |-> TRUE],
     [interval |-> 1, nodelay |-> TRUE, check |-> FALSE]}
=============================================================================
