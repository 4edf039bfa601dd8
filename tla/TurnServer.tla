---------------------------- MODULE TurnServer ----------------------------
(***************************************************************************)
(* The sessions of the TURN server of dtnat (ns_turn_server.c): who is let *)
(* in, what counts against a user's quota, and how a session with mobility *)
(* loses its client and is taken over by another connection.               *)
(*                                                                         *)
(* Users have long-term credentials, and their keys are looked up by       *)
(* another thread.  The server runs one event loop: a handler is a step,   *)
(* and a socket that it marked is closed before the next.  detach and      *)
(* attach of a socket are taken to succeed.                                *)
(***************************************************************************)
EXTENDS Integers, FiniteSets, Functions

CONSTANTS
    MaxSessions,   \* bound: the connections that are opened
    Users,
    Sender,        \* the user behind each connection
    Tickets,       \* mobile_id_t
    Quota,         \* how many sessions a user may have
    MaxPending     \* bound: lookups under way

Ids == 1..MaxSessions    \* of sessions, and of the sockets they were opened with
NULL == 0
Nobody == "nobody"

VARIABLES
    sess,      \* sessions_map: the sessions by id
    mobiles,   \* mobile_connections_map: sessions by ticket
    count,     \* the sessions that each user is charged with
    pending,   \* requests that wait for a key
    opened     \* session_id_counter

vars == <<sess, mobiles, count, pending, opened>>

Drop(f, keys) == Restrict(f, DOMAIN f \ keys)
With(f, k, v) == [x \in DOMAIN f \cup {k} |-> IF x = k THEN v ELSE f[x]]
Live(s) == s \in DOMAIN sess

\* The attributes of an Allocate that matter to a session; the others only decide
\* if it is well-formed.  Only the user itself can sign for a user.
AllocateRequests == [kind : {"Allocate"}, user : Users, by : Users, mobile : BOOLEAN]

\* A Refresh of the session's own allocation, or one with the ticket of another.
RefreshRequests ==
    [kind : {"Refresh"}, user : Users, by : Users, delete : BOOLEAN]
        \cup [kind : {"Ticket"}, user : Users, by : Users, delete : BOOLEAN, ticket : Tickets]

\* The state between the steps of a handler.
World == [sess |-> sess, mobiles |-> mobiles, count |-> count, pending |-> pending]
Become(w) ==
    /\ sess' = w.sess /\ mobiles' = w.mobiles
    /\ count' = w.count /\ pending' = w.pending
    /\ UNCHANGED opened

Init ==
    /\ sess = [s \in {} |-> 0] /\ mobiles = [t \in {} |-> 0]
    /\ count = [u \in Users |-> 0]
    /\ pending = {} /\ opened = 0

-----------------------------------------------------------------------------
(* Quotas and tickets.                                                     *)

\* Mutant of MayCount: one more than the quota.
MayCountMore(w, s) == w.sess[s].counted \/ w.count[w.sess[s].user] <= Quota

\* inc_quota, where the check of the quota succeeds.
MayCount(w, s) == w.sess[s].counted \/ w.count[w.sess[s].user] < Quota
IncQuota(w, s) ==
    IF w.sess[s].counted THEN w
    ELSE [w EXCEPT !.count[w.sess[s].user] = @ + 1, !.sess[s].counted = TRUE]

\* Mutant of DecQuota: the session is no longer counted, the user still charged.
DecQuotaOnly(w, s) == [w EXCEPT !.sess[s].counted = FALSE]

\* dec_quota
DecQuota(w, s) ==
    IF ~w.sess[s].counted THEN w
    ELSE [w EXCEPT !.count[w.sess[s].user] = @ - 1, !.sess[s].counted = FALSE]

\* delete_session_from_mobile_map
NoTicket(w, s) ==
    [w EXCEPT !.mobiles = Drop(@, {w.sess[s].ticket}), !.sess[s].ticket = NULL]

\* put_session_into_mobile_map with get_new_mobile_id
NewTicket(w, s, t) == [w EXCEPT !.mobiles = With(@, t, s), !.sess[s].ticket = t]

-----------------------------------------------------------------------------
(* Sessions.                                                               *)

\* struct ts_ur_super_session: its client socket, its allocation with the relay
\* socket and the lifetime timer, and who was let in.
NewSession(s) ==
    [client |-> s, closing |-> FALSE,
     valid |-> FALSE, relay |-> FALSE, armed |-> FALSE,
     mobile |-> FALSE, ticket |-> NULL,
     user |-> Nobody, key |-> FALSE, counted |-> FALSE,
     holder |-> Nobody]   \* not in the code: who sent the last request that was carried out

\* No socket is marked to be closed.
Calm == \A s \in DOMAIN sess : ~sess[s].closing

\* open_client_connection_session and create_new_ss.  Which ticket it gets makes
\* no difference.
Open ==
    LET s == opened + 1
        t == CHOOSE x \in Tickets \ DOMAIN mobiles : TRUE
    IN  /\ Calm /\ opened < MaxSessions /\ opened' = s
        /\ sess' = With(sess, s, [NewSession(s) EXCEPT !.ticket = t])
        /\ mobiles' = With(mobiles, t, s)
        /\ UNCHANGED <<count, pending>>

\* shutdown_client_connection: a session with mobility first loses its client
\* only, unless it is forced.
Shutdown(w, s, force) ==
    LET d == DecQuota(w, s)
    IN  IF ~force /\ w.sess[s].mobile
        THEN [d EXCEPT !.sess[s].client = NULL, !.sess[s].closing = FALSE]
        ELSE [NoTicket(d, s) EXCEPT !.sess = Drop(@, {s})]

\* The event loop closes a socket that a handler has marked.
CloseMarked(s) ==
    /\ Live(s) /\ sess[s].closing
    /\ Become(Shutdown(World, s, FALSE))

\* The client's connection is lost.
ClientClosed(s) ==
    /\ Calm /\ Live(s) /\ sess[s].client # NULL
    /\ Become(Shutdown(World, s, FALSE))

\* client_ss_allocation_timeout_handler
AllocationTimeout(s) ==
    /\ Calm /\ Live(s) /\ sess[s].armed
    /\ Become(Shutdown([World EXCEPT !.sess[s].armed = FALSE], s, FALSE))

\* client_to_be_allocated_timeout_handler, a timer that repeats.
Watchdog(s) ==
    /\ Calm /\ Live(s)
    /\ sess[s].client = NULL \/ ~sess[s].relay
    /\ Become(Shutdown(World, s, TRUE))

-----------------------------------------------------------------------------
(* Requests.  A handler returns the set of outcomes.                       *)

\* create_relay_connection after inc_quota: without a socket the quota is given
\* back.
CreateRelay(w, s, m) ==
    {[w EXCEPT !.sess[s].valid = TRUE, !.sess[s].relay = TRUE,
               !.sess[s].armed = TRUE, !.sess[s].holder = m.by],
     DecQuota([w EXCEPT !.sess[s].relay = FALSE], s)}

\* Mutant of HandleAllocate: the ticket of a session without mobility stays known.
HandleAllocateOnly(w, s, m) ==
    IF w.sess[s].valid THEN {w}
    ELSE LET a == [w EXCEPT !.sess[s].mobile = @ \/ m.mobile]
             b == IF a.sess[s].mobile THEN a ELSE [a EXCEPT !.sess[s].ticket = NULL]
         IN  {a} \cup IF ~MayCount(b, s) THEN {b} ELSE CreateRelay(IncQuota(b, s), s, m)

\* handle_turn_allocate; a request that is ill-formed may still have asked for
\* mobility.
HandleAllocate(w, s, m) ==
    IF w.sess[s].valid THEN {w}
    ELSE LET a == [w EXCEPT !.sess[s].mobile = @ \/ m.mobile]
             b == IF a.sess[s].mobile THEN a ELSE NoTicket(a, s)
         IN  {a} \cup IF ~MayCount(b, s) THEN {b} ELSE CreateRelay(IncQuota(b, s), s, m)

\* refresh_relay_connection; to delete is to let it end in a second.
RefreshRelay(w, s, m) ==
    [w EXCEPT !.sess[s].valid = ~m.delete, !.sess[s].armed = TRUE, !.sess[s].holder = m.by]

\* The part of check_stun_auth after the key is known: the user's name stays
\* with the session once a request bore it, whoever sent that.
Named(w, s, m) == w.sess[s].user \in {Nobody, m.user}
WithName(w, s, m) == IF Named(w, s, m) THEN [w EXCEPT !.sess[s].user = m.user] ELSE w

\* Mutant of Signed: the key of any user will do.
SignedAny(w, s, m) == Named(w, s, m) /\ w.sess[s].key

Signed(w, s, m) == Named(w, s, m) /\ w.sess[s].key /\ m.by = m.user

\* Mutant of Transfer: the session that is taken over is not counted.
TransferFree(w, s, o, m) ==
    {[NewTicket(NoTicket(NoTicket(RefreshRelay(w, o, m), s), o), o, t) EXCEPT
         !.sess[o].client = w.sess[s].client, !.sess[s].closing = TRUE] :
        t \in Tickets \ DOMAIN NoTicket(NoTicket(w, s), o).mobiles}

\* The session o is refreshed and takes the socket of s, which is closed without
\* it; o's own socket, if it still has one, is closed.  A quota that is used up
\* is seen after the refresh.
Transfer(w, s, o, m) ==
    LET r == RefreshRelay(w, o, m)
        c == IF m.delete THEN r ELSE IncQuota(r, o)
        d == NoTicket(NoTicket(c, s), o)
    IN  IF ~m.delete /\ ~MayCount(r, o) THEN {r}
        ELSE {[NewTicket(d, o, t) EXCEPT !.sess[o].client = w.sess[s].client,
                                         !.sess[s].closing = TRUE] :
                  t \in Tickets \ DOMAIN d.mobiles}

\* handle_turn_refresh of a session without an allocation, which is not
\* authenticated itself: the one that the ticket names is.  That one has
\* mobility, so its key is known.
HandleTicket(w, s, m) ==
    IF m.ticket \notin DOMAIN w.mobiles THEN {w}
    ELSE LET o == w.mobiles[m.ticket]
             n == WithName(w, o, m)
         IN  IF o = s \/ ~w.sess[o].mobile THEN {w}
             ELSE IF ~Signed(w, o, m) \/ ~w.sess[o].valid THEN {n}
             ELSE Transfer(w, s, o, m)

\* Requests that check_stun_auth let through.
Handle(w, s, m) ==
    CASE m.kind = "Allocate" -> HandleAllocate(w, s, m)
      [] m.kind = "Refresh" /\ w.sess[s].valid -> {RefreshRelay(w, s, m)}
      [] OTHER -> {w}

\* The key is asked for, and the request waits.
PostLookup(w, s, m) == [w EXCEPT !.pending = @ \cup {[session |-> s, request |-> m]}]

\* handle_turn_command; canResume is false once the key was asked for.
HandleCommand(w, s, m, canResume) ==
    IF m.kind # "Allocate" /\ ~w.sess[s].valid
    THEN IF m.kind = "Ticket" THEN HandleTicket(w, s, m) ELSE {w}
    ELSE LET n == WithName(w, s, m)
         IN  IF Named(w, s, m) /\ ~w.sess[s].key /\ canResume
             THEN {PostLookup(n, s, m)}
             ELSE IF Signed(w, s, m) THEN Handle(n, s, m) ELSE {n}

\* client_input_handler and read_client_connection
Request(s, m) ==
    /\ Calm /\ Live(s) /\ sess[s].client # NULL
    /\ m.by = Sender[sess[s].client] /\ Cardinality(pending) < MaxPending
    /\ \E w \in HandleCommand(World, s, m, TRUE) : Become(w)

\* resume_processing_after_username_check: the request is read again for the
\* session as it is now, if that has a client.
Resume(p, success) ==
    LET w == [World EXCEPT !.pending = @ \ {p}]
        k == IF success THEN [w EXCEPT !.sess[p.session].key = TRUE] ELSE w
    IN  /\ Calm /\ p \in pending
        /\ IF Live(p.session) /\ sess[p.session].client # NULL
           THEN \E v \in HandleCommand(k, p.session, p.request, FALSE) : Become(v)
           ELSE Become(w)

Next ==
    \/ Open
    \/ \E s \in Ids :
          \/ CloseMarked(s) \/ ClientClosed(s) \/ AllocationTimeout(s) \/ Watchdog(s)
          \/ \E m \in AllocateRequests \cup RefreshRequests : Request(s, m)
    \/ \E p \in pending, success \in BOOLEAN : Resume(p, success)

Spec == Init /\ [][Next]_vars

-----------------------------------------------------------------------------
(* Properties.                                                             *)

TypeOK ==
    /\ DOMAIN sess \subseteq 1..opened
    /\ DOMAIN mobiles \subseteq Tickets /\ Range(mobiles) \subseteq DOMAIN sess
    /\ \A u \in Users : count[u] \in 0..Quota
    /\ Cardinality(pending) <= MaxPending
    /\ \A s \in DOMAIN sess :
          sess[s].client \in 0..opened /\ sess[s].user \in Users \cup {Nobody}

\* Each user is charged for exactly the sessions that are marked as counted,
\* however a session ended, failed to begin, or changed its client.
QuotaBalanced ==
    \A u \in Users :
        count[u] = Cardinality({s \in DOMAIN sess : sess[s].counted /\ sess[s].user = u})

\* An allocation that some client holds is charged for, and will time out.
HeldIsCharged ==
    \A s \in DOMAIN sess :
        sess[s].valid /\ sess[s].client # NULL => sess[s].counted /\ sess[s].armed

\* A ticket leads to the session that has it, and no session has a ticket that
\* leads elsewhere; a socket is the client of one session.
TicketsAgree ==
    /\ \A t \in DOMAIN mobiles : mobiles[t] \in DOMAIN sess /\ sess[mobiles[t]].ticket = t
    /\ \A s \in DOMAIN sess :
          /\ sess[s].ticket # NULL => sess[s].ticket \in DOMAIN mobiles
          /\ \A o \in DOMAIN sess \ {s} :
                sess[s].client = sess[o].client =>
                    sess[s].client = NULL \/ sess[s].closing \/ sess[o].closing

\* Whatever was done to an allocation was asked for by its user, also when the
\* request waited for a key, or came over the connection of another session.
AskedByItsUser ==
    \A s \in DOMAIN sess : sess[s].holder \in {Nobody, sess[s].user}
=============================================================================
