------------------------------- MODULE MCTurn -------------------------------
(***************************************************************************)
(* The TURN server for TLC: one behaviour checks one program, and the      *)
(* variables of the others stay as they were.                              *)
(***************************************************************************)
EXTENDS Integers

VARIABLES
    program,
    alloc, out, granted, bound,
    tcs, map, conn, alive, wild,
    sess, mobiles, count, pending, opened,
    transport, rfc5780, old, attrs, answers,
    perms, chns, grants, binds

allocation == <<alloc, out, granted, bound>>
tcp == <<tcs, map, conn, alive, wild>>
server == <<sess, mobiles, count, pending, opened>>
binding == <<transport, rfc5780, old, attrs, answers>>
tables == <<perms, chns, grants, binds>>
allVars == <<program, allocation, tcp, server, binding, tables>>

Udp == INSTANCE TurnAllocation WITH
    Addrs <- {"a", "b", "c"}, Ports <- {1, 2}, Numbers <- {1, 2}, Forbidden <- {"c"},
    PermLife <- 1, ChanLife <- 2, AllocLife <- 3

Tcp == INSTANCE TurnTcp WITH
    Sessions <- {1, 2}, Peers <- {"p", "q", "x"}, Ids <- {1, 2}, Cells <- {1, 2},
    User <- <<"u", "v">>, Forbidden <- {"x"}, Permitted <- {"p", "x"},
    MaxUnsent <- 1, MaxSent <- 2

Server == INSTANCE TurnServer WITH
    MaxSessions <- 3, Users <- {"u", "v"}, Sender <- <<"u", "v", "u">>,
    Tickets <- {1, 2, 3}, Quota <- 1, MaxPending <- 1

Binding == INSTANCE TurnBinding WITH
    Attributes <- {"change none", "change ip", "change port", "change both", "padding",
                   "response port", "response address", "unknown"},
    MaxLength <- 3

\* Both addresses, and all numbers, fall into one bucket.
Tables == INSTANCE TurnTables WITH
    Addrs <- {"a", "b"}, HashOf <- [a |-> 0, b |-> 0], Ports <- {0, 1, 3},
    Numbers <- {1, 3}, HashSize <- 2, ArraySize <- 1,
    granted <- grants, bound <- binds

Init ==
    /\ program \in {"udp", "tcp", "server", "binding", "tables"}
    /\ Udp!Init /\ Tcp!Init /\ Server!Init
    /\ Binding!Init /\ Tables!TablesInit
    /\ program # "binding" => attrs = <<>> /\ transport = "UDP" /\ rfc5780 /\ old

Next ==
    \/ program = "udp" /\ Udp!Next /\ UNCHANGED <<program, tcp, server, binding, tables>>
    \/ program = "tcp" /\ Tcp!Next /\ UNCHANGED <<program, allocation, server, binding, tables>>
    \/ program = "server" /\ Server!Next /\ UNCHANGED <<program, allocation, tcp, binding, tables>>
    \/ program = "binding" /\ Binding!Next /\ UNCHANGED <<program, allocation, tcp, server, tables>>
    \/ program = "tables" /\ Tables!TablesNext /\ UNCHANGED <<program, allocation, tcp, server, binding>>

Spec == Init /\ [][Next]_allVars

\* The type invariants of the programs.
TypesOK ==
    CASE program = "udp" -> Udp!TypeOK
      [] program = "tcp" -> Tcp!TypeOK
      [] program = "server" -> Server!TypeOK
      [] program = "binding" -> Binding!TypeOK
      [] OTHER -> TRUE

\* Tables that lead to the same things from two sides agree: channels by number
\* and by peer (allocation.c), TCP connections by number and by allocation,
\* tickets and sessions (ns_turn_server.c); and the hash tables below them find
\* what was put there (ns_turn_maps.c).
TablesAgree ==
    CASE program = "udp" -> Udp!MapsAgree
      [] program = "tcp" -> Tcp!MapNeverDangles /\ Tcp!OnePerPeer
      [] program = "server" -> Server!TicketsAgree
      [] program = "tables" -> Tables!LookupsRight /\ Tables!NoStalePointer
      [] OTHER -> TRUE

\* What goes over a relay, who binds a connection, what happens to an
\* allocation, and where an answer comes from and goes to, is what was asked for.
OnlyAsAsked ==
    CASE program = "udp" -> Udp!RelayedAsAsked
      [] program = "tcp" -> Tcp!BoundByItsUser
      [] program = "server" -> Server!AskedByItsUser
      [] program = "binding" -> Binding!AnsweredAsAsked
      [] OTHER -> TRUE

\* What was granted for a time ends: permissions, connections that nobody binds,
\* allocations; and while an allocation lasts it counts against its user's quota,
\* which inc_quota and dec_quota keep in balance through failures and take-overs.
NothingForGood ==
    CASE program = "udp" -> Udp!NoLongerThanAsked
      [] program = "tcp" -> Tcp!WaitingEnds
      [] program = "server" -> Server!HeldIsCharged /\ Server!QuotaBalanced
      [] OTHER -> TRUE

\* tcp_peer_input_handler and tcp_deliver_delayed_buffer keep a peer's data in
\* order, with nothing missing but what overflows the buffer of a connection.
StreamKept == program = "tcp" => Tcp!StreamKept
=============================================================================
