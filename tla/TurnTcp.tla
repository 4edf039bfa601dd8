------------------------------ MODULE TurnTcp ------------------------------
(***************************************************************************)
(* TCP relaying of the TURN server of dtnat (RFC 6062): a client connects  *)
(* to peers, or peers to its relay address, and the client binds a data    *)
(* connection of its own to each by number (ns_turn_server.c and           *)
(* ns_turn_allocation.c).                                                  *)
(*                                                                         *)
(* The server runs one event loop: a handler is a step.  Timers may run    *)
(* out whenever they are set.  Data of a peer is numbered in its order.    *)
(***************************************************************************)
EXTENDS Integers, Sequences, SequencesExt, FiniteSets, Functions

CONSTANTS
    Sessions,     \* the clients that have an allocation
    Peers,        \* addresses of peers
    Ids,          \* the numbers of connections
    Cells,        \* the memory for connections
    User,         \* the user of each session
    Forbidden,    \* peers that the server refuses
    Permitted,    \* peers that the clients have permissions for
    MaxUnsent,    \* MAX_UNSENT_BUFFER_SIZE
    MaxSent       \* bound: what a peer sends over one connection

VARIABLES
    tcs,      \* allocation.tcs of each session: its slots, NULL or a connection
    map,      \* server->tcp_relay_connections: connections by number
    conn,     \* the connections that were created and not freed
    alive,    \* the sessions that were not shut down
    wild      \* a connection has outlived its allocation

vars == <<tcs, map, conn, alive, wild>>

NULL == 0
Nobody == "nobody"
Empty == [x \in {} |-> x]
Drop(f, keys) == Restrict(f, DOMAIN f \ keys)
With(f, k, v) == [x \in DOMAIN f \cup {k} |-> IF x = k THEN v ELSE f[x]]
Live(c) == c \in DOMAIN conn

Init ==
    /\ tcs = [s \in Sessions |-> <<>>]
    /\ map = Empty /\ conn = Empty
    /\ alive = Sessions
    /\ wild = FALSE

-----------------------------------------------------------------------------
(* Creating and freeing connections.                                       *)

\* get_tcp_connection_by_peer
ByPeer(s, p) == \E i \in DOMAIN tcs[s] : tcs[s][i] # NULL /\ conn[tcs[s][i]].peer = p

\* The slot that create_tcp_connection takes: the first free one, or a new one.
InSlot(slots, c) ==
    LET free == SelectInSeq(slots, LAMBDA d : d = NULL)
    IN  IF free = 0 THEN Append(slots, c) ELSE [slots EXCEPT ![free] = c]

\* set_new_tc_id: a number that the map does not have.
FreeIds == Ids \ DOMAIN map

\* struct tcp_connection, created by create_tcp_connection in a state.  Which
\* memory it gets makes no difference.
Create(s, p, c, id, state, connTimer, bindTimer) ==
    /\ ~Live(c) /\ \A d \in Cells : d < c => Live(d)
    /\ id \in FreeIds
    /\ conn' = With(conn, c,
                    [owner |-> s, peer |-> p, id |-> id, state |-> state,
                     client |-> Nobody, connTimer |-> connTimer, bindTimer |-> bindTimer,
                     unsent |-> <<>>, sent |-> 0, got |-> <<>>])
    /\ tcs' = [tcs EXCEPT ![s] = InSlot(@, c)]
    /\ map' = With(map, id, c)
    /\ UNCHANGED <<alive, wild>>

\* The list without a connection.
Without(slots, c) == [i \in DOMAIN slots |-> IF slots[i] = c THEN NULL ELSE slots[i]]

\* Mutant of Delete: the number stays in the map.
DeleteOnly(c) ==
    /\ tcs' = [tcs EXCEPT ![conn[c].owner] = Without(@, c)]
    /\ conn' = Drop(conn, {c})
    /\ UNCHANGED <<map, alive, wild>>

\* delete_tcp_connection: its timers, sockets and unsent data go with it.  The
\* number is removed from the map whichever connection it now stands for.
Delete(c) ==
    /\ map' = Drop(map, {conn[c].id})
    /\ tcs' = [tcs EXCEPT ![conn[c].owner] = Without(@, c)]
    /\ conn' = Drop(conn, {c})
    /\ UNCHANGED <<alive, wild>>

-----------------------------------------------------------------------------
(* The handlers.                                                           *)

\* Mutant of Connect: the client is not kept from connecting twice.
ConnectAgain(s, p, c, id) ==
    /\ s \in alive /\ p \notin Forbidden
    /\ Create(s, p, c, id, "CLIENT_TO_PEER_CONNECTING", TRUE, FALSE)

\* handle_turn_connect and tcp_start_connection_to_peer
Connect(s, p, c, id) ==
    /\ s \in alive /\ p \notin Forbidden /\ ~ByPeer(s, p)
    /\ Create(s, p, c, id, "CLIENT_TO_PEER_CONNECTING", TRUE, FALSE)

\* tcp_peer_connection_completed_callback
Completed(c, success) ==
    /\ Live(c) /\ conn[c].connTimer
    /\ IF success
       THEN /\ conn' = [conn EXCEPT ![c].state = "PEER_CONNECTED",
                                    ![c].connTimer = FALSE, ![c].bindTimer = TRUE]
            /\ UNCHANGED <<tcs, map, alive, wild>>
       ELSE Delete(c)

\* tcp_peer_conn_timeout_handler
ConnTimeout(c) == Live(c) /\ conn[c].connTimer /\ Delete(c)

\* tcp_peer_accept_connection; without its callback the connection is left as
\* it is, in the list and with no timer.
PeerAccept(s, p, c, id, registered) ==
    /\ s \in alive /\ ~ByPeer(s, p) /\ p \notin Forbidden /\ p \in Permitted
    /\ IF registered THEN Create(s, p, c, id, "PEER_CONNECTED", FALSE, TRUE)
       ELSE Create(s, p, c, id, "UNKNOWN", FALSE, FALSE)

\* Mutant of BindTimeout: the timer does nothing.
BindTimeoutOnly(c) ==
    /\ Live(c) /\ conn[c].bindTimer
    /\ conn' = [conn EXCEPT ![c].bindTimer = FALSE]
    /\ UNCHANGED <<tcs, map, alive, wild>>

\* tcp_conn_bind_timeout_handler
BindTimeout(c) == Live(c) /\ conn[c].bindTimer /\ Delete(c)

\* Mutant of Input: nothing is kept for a client that is not bound.
InputNow(r) ==
    LET n == r.sent + 1
    IN  IF r.client = Nobody THEN [r EXCEPT !.sent = n]
        ELSE [r EXCEPT !.sent = n, !.got = Append(@, n)]

\* tcp_peer_input_handler of one connection; add_unsent_buffer drops what is
\* beyond its limit.
Input(r) ==
    LET n == r.sent + 1
    IN  IF r.state # "READY" \/ r.client = Nobody
        THEN [r EXCEPT !.sent = n,
                       !.unsent = IF Len(@) >= MaxUnsent THEN @ ELSE Append(@, n)]
        ELSE [r EXCEPT !.sent = n, !.got = Append(@, n)]

\* A peer sends; only a peer that is connected can, and is heard once the
\* callback is registered.
PeerInput(c) ==
    /\ Live(c) /\ ~conn[c].connTimer /\ conn[c].state # "UNKNOWN"
    /\ conn[c].sent < MaxSent
    /\ conn' = [conn EXCEPT ![c] = Input(@)]
    /\ UNCHANGED <<tcs, map, alive, wild>>

\* Mutant of MayBind: any user may.
MayBindAny(c, user) == conn[c].state # "READY" /\ conn[c].client = Nobody

\* What turnserver_accept_tcp_client_data_connection asks of a connection.
MayBind(c, user) ==
    conn[c].state # "READY" /\ conn[c].client = Nobody /\ User[conn[c].owner] = user

\* turnserver_accept_tcp_client_data_connection, to which handle_turn_connection_bind
\* sends a client's new TCP connection: the number is used up even when it is
\* refused.  With no callback for the client the connection is kept, but its
\* timer is left to end it; otherwise the data that waits goes to the client
\* (tcp_deliver_delayed_buffer).
Bind(id, user, registered) ==
    /\ id \in DOMAIN map
    /\ map' = Drop(map, {id})
    /\ LET c == map[id]
           r == [conn[c] EXCEPT !.state = "READY", !.client = user]
       IN  conn' = [conn EXCEPT ![c] =
                      IF ~MayBind(c, user) THEN @
                      ELSE IF ~registered THEN r
                      ELSE [r EXCEPT !.bindTimer = FALSE, !.unsent = <<>>,
                                     !.got = @ \o r.unsent]]
    /\ UNCHANGED <<tcs, alive, wild>>

\* One of the two sockets of a connection is closed by its other end.
SocketClosed(c) ==
    /\ Live(c) /\ ~conn[c].connTimer /\ conn[c].state # "UNKNOWN" /\ Delete(c)

\* clear_allocation deletes the first connection of the list and frees the
\* list.  Any other connection is left without its allocation: what happens to
\* it is undefined, and the model stops there.
ClearAllocation(s) ==
    /\ s \in alive /\ alive' = alive \ {s}
    /\ LET first == SelectInSeq(tcs[s], LAMBDA c : c # NULL)
       IN  IF first = 0 THEN UNCHANGED <<map, conn, wild>>
           ELSE /\ map' = Drop(map, {conn[tcs[s][first]].id})
                /\ conn' = Drop(conn, {tcs[s][first]})
                /\ wild' = (\E i \in DOMAIN tcs[s] : i # first /\ tcs[s][i] # NULL)
    /\ tcs' = [tcs EXCEPT ![s] = <<>>]

Next ==
    /\ ~wild
    /\ \/ \E s \in Sessions, p \in Peers, c \in Cells, id \in Ids :
             \/ Connect(s, p, c, id)
             \/ \E registered \in BOOLEAN : PeerAccept(s, p, c, id, registered)
       \/ \E s \in Sessions : ClearAllocation(s)
       \/ \E c \in Cells :
             \/ ConnTimeout(c) \/ BindTimeout(c) \/ PeerInput(c) \/ SocketClosed(c)
             \/ \E success \in BOOLEAN : Completed(c, success)
       \/ \E id \in Ids, user \in Range(User), registered \in BOOLEAN :
             Bind(id, user, registered)

Spec == Init /\ [][Next]_vars

-----------------------------------------------------------------------------
(* Properties.                                                             *)

TypeOK ==
    /\ DOMAIN map \subseteq Ids /\ DOMAIN conn \subseteq Cells
    /\ alive \subseteq Sessions
    /\ \A c \in DOMAIN conn :
          /\ conn[c].state \in {"UNKNOWN", "CLIENT_TO_PEER_CONNECTING", "PEER_CONNECTED", "READY"}
          /\ conn[c].sent \in 0..MaxSent /\ Len(conn[c].unsent) <= MaxUnsent

\* No number stands for a connection that was freed, or for one with another
\* number, although numbers are drawn again once a bind has taken them out.
MapNeverDangles ==
    \A id \in DOMAIN map : map[id] \in DOMAIN conn /\ conn[map[id]].id = id

\* An allocation has one connection for a peer, whoever of them opened it, and
\* lists each of its connections once.
OnePerPeer ==
    ~wild => \A c \in DOMAIN conn :
        LET mine == tcs[conn[c].owner]
        IN  /\ Cardinality({i \in DOMAIN mine : mine[i] = c}) = 1
            /\ \A i \in DOMAIN mine : mine[i] \notin {c, NULL} => conn[mine[i]].peer # conn[c].peer

\* What the client has of a peer is in order, and nothing is missing of what
\* could be kept for it until it had bound the connection.  (When the callback
\* for the client failed, the code keeps data back and sends on what follows.)
StreamKept ==
    \A c \in DOMAIN conn : conn[c].state = "READY" /\ ~conn[c].bindTimer =>
        LET all == conn[c].got \o conn[c].unsent
            kept == IF conn[c].sent < MaxUnsent THEN conn[c].sent ELSE MaxUnsent
        IN  /\ \A i \in 1..(Len(all) - 1) : all[i] < all[i + 1]
            /\ \A n \in 1..kept : n <= Len(all) /\ all[n] = n

\* A connection that is not in use will be ended by a timer, whatever becomes
\* of it, except one whose callback could not be registered.
WaitingEnds ==
    \A c \in DOMAIN conn :
        conn[c].state \in {"CLIENT_TO_PEER_CONNECTING", "PEER_CONNECTED"}
            => conn[c].connTimer \/ conn[c].bindTimer

\* Only the user of the allocation gets the data of its peers.
BoundByItsUser ==
    \A c \in DOMAIN conn : conn[c].client \in {Nobody, User[conn[c].owner]}
=============================================================================
