------------------------ MODULE TurnAllocationProofs ------------------------
(***************************************************************************)
(* An allocation of the TURN server keeps its two tables of channels in    *)
(* step and relays only what the client asked for, for any peers, numbers  *)
(* and lifetimes, whatever the order of requests, datagrams and timers.    *)
(***************************************************************************)
EXTENDS TurnAllocation, TLAPS

Fields == {"valid", "left", "perms", "chans"}

\* What the handlers rely on of the values they are given.
ShapeOK ==
    /\ DOMAIN alloc = Fields
    /\ \A a \in DOMAIN alloc.perms :
          DOMAIN alloc.perms[a] = {"left", "chns"} /\ alloc.perms[a].left \in Int
    /\ \A a \in DOMAIN granted : granted[a] \in Int
    /\ \A n \in DOMAIN alloc.chans : n \in Numbers /\ alloc.chans[n].peer \in Peers

\* A channel's number is bound to the channel's peer by the client's last request.
BoundAsAsked ==
    \A n \in DOMAIN alloc.chans : n \in DOMAIN bound /\ bound[n] = alloc.chans[n].peer

AllocInv == ShapeOK /\ MapsAgree /\ BoundAsAsked /\ NoLongerThanAsked /\ RelayedAsAsked

\* MapsAgree without ChannelOf: the channel of a number is in the permission of
\* its peer, and what is in a permission is a channel of that peer.
InPermission(A, n) ==
    LET p == A.chans[n].peer
    IN  Addr(p) \in DOMAIN A.perms /\ Port(p) \in DOMAIN A.perms[Addr(p)].chns
        /\ A.perms[Addr(p)].chns[Port(p)] = n

LEMMA MapsAgreeAsPointers ==
    ASSUME 0 \notin Numbers, \A n \in DOMAIN alloc.chans : n \in Numbers
    PROVE  MapsAgree <=>
              /\ \A n \in DOMAIN alloc.chans : InPermission(alloc, n)
              /\ \A a \in DOMAIN alloc.perms : \A port \in DOMAIN alloc.perms[a].chns :
                    LET n == alloc.perms[a].chns[port]
                    IN  n \in DOMAIN alloc.chans /\ alloc.chans[n].peer = <<a, port>>
<1>1. \A n \in DOMAIN alloc.chans :
          ChannelOf(alloc, alloc.chans[n].peer) = n <=> InPermission(alloc, n)
  BY DEF ChannelOf, InPermission
<1>. QED
  BY <1>1 DEF MapsAgree

-----------------------------------------------------------------------------
(* What the functions on allocations return.                               *)

\* turn_permission_clean takes one permission and its channels.
LEMMA CleanFacts ==
    ASSUME NEW A, DOMAIN A = Fields, NEW a
    PROVE  /\ DOMAIN PermissionClean(A, a) = Fields
           /\ PermissionClean(A, a).perms = Drop(A.perms, {a})
           /\ PermissionClean(A, a).chans = Drop(A.chans, Range(A.perms[a].chns))
  BY DEF PermissionClean, Fields

\* A permission is new, or keeps its channels.
Channels(A, a) == IF a \in DOMAIN A.perms THEN A.perms[a].chns ELSE Empty

LEMMA UpdateFacts ==
    ASSUME NEW A, DOMAIN A = Fields, NEW a, NEW life
    PROVE  LET B == UpdatePermission(A, a, life) IN
           /\ DOMAIN B = Fields
           /\ B.chans = A.chans
           /\ DOMAIN B.perms = DOMAIN A.perms \cup {a}
           /\ B.perms[a] = [left |-> life, chns |-> Channels(A, a)]
           /\ \A b \in DOMAIN A.perms \ {a} : B.perms[b] = A.perms[b]
<1>. DEFINE perm == [left |-> life, chns |-> Channels(A, a)]
            B == UpdatePermission(A, a, life)
<1>1. B = [A EXCEPT !.perms = With(A.perms, a, perm)]
  BY DEF UpdatePermission, Channels
<1>2. DOMAIN B = Fields /\ B.chans = A.chans /\ B.perms = With(A.perms, a, perm)
  BY <1>1 DEF Fields
<1>. HIDE DEF B, perm
<1>3. /\ DOMAIN B.perms = DOMAIN A.perms \cup {a} /\ B.perms[a] = perm
      /\ \A b \in DOMAIN A.perms \ {a} : B.perms[b] = A.perms[b]
  BY <1>2 DEF With
<1>. QED
  BY <1>2, <1>3 DEF B, perm

\* A channel is bound in both tables, in a permission that is there or new.
LEMMA BindFacts ==
    ASSUME NEW A, DOMAIN A = Fields, NEW n, NEW p
    PROVE  LET B == Bind(A, n, p) IN
           /\ DOMAIN B = Fields
           /\ B.chans = With(A.chans, n, [peer |-> p, left |-> ChanLife])
           /\ DOMAIN B.perms = DOMAIN A.perms \cup {Addr(p)}
           /\ DOMAIN B.perms[Addr(p)] = {"left", "chns"}
           /\ B.perms[Addr(p)].left = ChanLife
           /\ B.perms[Addr(p)].chns = With(Channels(A, Addr(p)), Port(p), n)
           /\ \A b \in DOMAIN A.perms \ {Addr(p)} : B.perms[b] = A.perms[b]
<1>. DEFINE U == UpdatePermission(A, Addr(p), ChanLife)
            B == Bind(A, n, p)
            a == Addr(p)
<1>1. /\ DOMAIN U = Fields /\ U.chans = A.chans
      /\ DOMAIN U.perms = DOMAIN A.perms \cup {a}
      /\ U.perms[a] = [left |-> ChanLife, chns |-> Channels(A, a)]
      /\ \A b \in DOMAIN A.perms \ {a} : U.perms[b] = A.perms[b]
  BY UpdateFacts
<1>. DEFINE perm == [U.perms[a] EXCEPT !.chns = With(U.perms[a].chns, Port(p), n)]
            perms == [U.perms EXCEPT ![a] = perm]
<1>2. B = [U EXCEPT !.perms = perms,
                    !.chans = With(U.chans, n, [peer |-> p, left |-> ChanLife])]
  BY DEF Bind
<1>3. /\ DOMAIN B = Fields /\ B.perms = perms
      /\ B.chans = With(A.chans, n, [peer |-> p, left |-> ChanLife])
  <2>. HIDE DEF U, B, perms
  <2>. QED  BY <1>1, <1>2 DEF Fields
<1>4. /\ DOMAIN perm = {"left", "chns"} /\ perm.left = ChanLife
      /\ perm.chns = With(Channels(A, a), Port(p), n)
  <2>. HIDE DEF U, B
  <2>. QED  BY <1>1
<1>5. /\ DOMAIN perms = DOMAIN A.perms \cup {a} /\ perms[a] = perm
      /\ \A b \in DOMAIN A.perms \ {a} : perms[b] = A.perms[b]
  <2>. HIDE DEF U, B, perm
  <2>. QED  BY <1>1
<1>. QED
  BY <1>3, <1>4, <1>5

-----------------------------------------------------------------------------
(* The handlers.                                                           *)

\* A step that leaves every channel where it is keeps the tables in step.
LEMMA TablesKept ==
    ASSUME AllocInv, 0 \notin Numbers,
           DOMAIN alloc' = Fields,
           DOMAIN alloc'.chans = DOMAIN alloc.chans,
           \A n \in DOMAIN alloc.chans : alloc'.chans[n].peer = alloc.chans[n].peer,
           DOMAIN alloc.perms \subseteq DOMAIN alloc'.perms,
           \A a \in DOMAIN alloc'.perms : alloc'.perms[a].chns = Channels(alloc, a),
           UNCHANGED bound
    PROVE  MapsAgree' /\ BoundAsAsked'
<1>1. /\ \A n \in DOMAIN alloc.chans : InPermission(alloc, n)
      /\ \A a \in DOMAIN alloc.perms : \A port \in DOMAIN alloc.perms[a].chns :
            LET n == alloc.perms[a].chns[port]
            IN  n \in DOMAIN alloc.chans /\ alloc.chans[n].peer = <<a, port>>
  BY MapsAgreeAsPointers DEF AllocInv, ShapeOK
<1>2. \A n \in DOMAIN alloc'.chans : n \in Numbers
  BY DEF AllocInv, ShapeOK
<1>3. \A n \in DOMAIN alloc'.chans : InPermission(alloc', n)
  <2>. SUFFICES ASSUME NEW n \in DOMAIN alloc.chans
                PROVE  InPermission(alloc', n)
    OBVIOUS
  <2>1. PICK a : a = Addr(alloc.chans[n].peer)
    OBVIOUS
  <2>2. PICK port : port = Port(alloc.chans[n].peer)
    OBVIOUS
  <2>3. /\ a \in DOMAIN alloc.perms /\ port \in DOMAIN alloc.perms[a].chns
        /\ alloc.perms[a].chns[port] = n
    BY <1>1, <2>1, <2>2 DEF InPermission
  <2>4. a \in DOMAIN alloc'.perms /\ alloc'.perms[a].chns = alloc.perms[a].chns
    BY <2>3 DEF Channels
  <2>5. alloc'.chans[n].peer = alloc.chans[n].peer
    OBVIOUS
  <2>. QED
    BY <2>1, <2>2, <2>3, <2>4, <2>5 DEF InPermission
<1>4. \A a \in DOMAIN alloc'.perms : \A port \in DOMAIN alloc'.perms[a].chns :
          LET n == alloc'.perms[a].chns[port]
          IN  n \in DOMAIN alloc'.chans /\ alloc'.chans[n].peer = <<a, port>>
  <2>. SUFFICES ASSUME NEW a \in DOMAIN alloc'.perms, NEW port \in DOMAIN alloc'.perms[a].chns
                PROVE  LET n == alloc'.perms[a].chns[port]
                       IN  n \in DOMAIN alloc'.chans /\ alloc'.chans[n].peer = <<a, port>>
    OBVIOUS
  <2>1. a \in DOMAIN alloc.perms /\ alloc'.perms[a].chns = alloc.perms[a].chns
    BY DEF Channels, Empty
  <2>2. PICK n : n = alloc.perms[a].chns[port]
    OBVIOUS
  <2>3. n \in DOMAIN alloc.chans /\ alloc.chans[n].peer = <<a, port>>
    BY <1>1, <2>1, <2>2
  <2>4. n \in DOMAIN alloc'.chans /\ alloc'.chans[n].peer = <<a, port>>
    BY <2>3
  <2>. QED
    BY <2>1, <2>2, <2>4
<1>5. \A n \in DOMAIN alloc'.chans :
          ChannelOf(alloc', alloc'.chans[n].peer) = n <=> InPermission(alloc', n)
  BY <1>2 DEF ChannelOf, InPermission
<1>6. MapsAgree'
  BY <1>3, <1>4, <1>5 DEF MapsAgree
<1>7. BoundAsAsked'
  BY DEF AllocInv, BoundAsAsked
<1>. QED
  BY <1>6, <1>7

\* A step that changes neither the tables nor what was asked for.
LEMMA SameTables ==
    ASSUME AllocInv, 0 \notin Numbers, DOMAIN alloc' = Fields,
           alloc'.perms = alloc.perms, alloc'.chans = alloc.chans, UNCHANGED <<granted, bound>>
    PROVE  ShapeOK' /\ MapsAgree' /\ BoundAsAsked' /\ NoLongerThanAsked'
<1>1. ShapeOK' /\ NoLongerThanAsked'
  BY DEF AllocInv, ShapeOK, NoLongerThanAsked
<1>2. MapsAgree' /\ BoundAsAsked'
  BY TablesKept DEF Channels
<1>. QED
  BY <1>1, <1>2

LEMMA QuietRelaysNothing == ASSUME Quiet PROVE RelayedAsAsked'
  BY DEF Quiet, RelayedAsAsked

\* handle_turn_allocate, handle_turn_refresh
LEMMA LifetimeKeeps ==
    ASSUME AllocInv, 0 \notin Numbers, Allocate \/ \E delete \in BOOLEAN : RefreshRelay(delete)
    PROVE  AllocInv'
<1>1. /\ DOMAIN alloc' = Fields /\ alloc'.perms = alloc.perms /\ alloc'.chans = alloc.chans
      /\ UNCHANGED <<granted, bound>> /\ Quiet
  BY DEF AllocInv, ShapeOK, Fields, Allocate, RefreshRelay
<1>. QED
  BY <1>1, SameTables, QuietRelaysNothing DEF AllocInv

\* clear_allocation leaves nothing behind.
LEMMA ClearKeeps ==
    ASSUME alloc' = NewAllocation, granted' = Empty, Quiet
    PROVE  AllocInv'
<1>1. /\ DOMAIN alloc' = Fields /\ DOMAIN alloc'.perms = {} /\ DOMAIN alloc'.chans = {}
      /\ DOMAIN granted' = {}
  BY DEF NewAllocation, Empty, Fields
<1>2. ShapeOK' /\ MapsAgree' /\ BoundAsAsked' /\ NoLongerThanAsked'
  BY <1>1 DEF ShapeOK, MapsAgree, BoundAsAsked, NoLongerThanAsked
<1>. QED
  BY <1>2, QuietRelaysNothing DEF AllocInv

\* Time takes as much from a permission as from what the client asked for, and
\* waits for the timers that are due.
LEMMA TickKeeps ==
    ASSUME AllocInv, 0 \notin Numbers, Tick
    PROVE  AllocInv'
<1>1. DOMAIN alloc' = Fields /\ alloc'.perms = Aged(alloc.perms) /\ alloc'.chans = Aged(alloc.chans)
  BY DEF AllocInv, ShapeOK, Fields, Tick
<1>2. /\ DOMAIN alloc'.perms = DOMAIN alloc.perms
      /\ \A a \in DOMAIN alloc.perms :
            /\ DOMAIN alloc'.perms[a] = {"left", "chns"}
            /\ alloc'.perms[a].left = alloc.perms[a].left - 1
            /\ alloc'.perms[a].chns = alloc.perms[a].chns
  BY <1>1 DEF AllocInv, ShapeOK, Aged
<1>3. /\ DOMAIN alloc'.chans = DOMAIN alloc.chans
      /\ \A n \in DOMAIN alloc.chans : alloc'.chans[n].peer = alloc.chans[n].peer
  BY <1>1 DEF Aged
<1>4. MapsAgree' /\ BoundAsAsked'
  BY <1>1, <1>2, <1>3, TablesKept DEF Tick, Channels
<1>5. /\ \A a \in DOMAIN granted' : a \in DOMAIN granted /\ granted'[a] = granted[a] - 1
      /\ \A a \in DOMAIN granted : granted[a] > 0 => a \in DOMAIN granted'
  BY DEF Tick
<1>6. ShapeOK'
  BY <1>1, <1>2, <1>3, <1>5 DEF AllocInv, ShapeOK
<1>7. NoLongerThanAsked'
  <2>. SUFFICES ASSUME NEW a \in DOMAIN alloc.perms
                PROVE  a \in DOMAIN granted' /\ alloc'.perms[a].left <= granted'[a]
    BY <1>2 DEF NoLongerThanAsked
  <2>1. /\ a \in DOMAIN granted /\ alloc.perms[a].left <= granted[a] /\ alloc.perms[a].left > 0
        /\ alloc.perms[a].left \in Int /\ granted[a] \in Int
    BY DEF AllocInv, ShapeOK, NoLongerThanAsked, Tick
  <2>. QED
    BY <1>2, <1>5, <2>1
<1>. QED
  BY <1>4, <1>6, <1>7, QuietRelaysNothing DEF AllocInv, Tick

\* What was asked for is never taken back by asking for less.
LEMMA LongerFacts ==
    ASSUME NEW f, NEW keys, NEW life \in Int, \A k \in DOMAIN f : f[k] \in Int
    PROVE  /\ DOMAIN Longer(f, keys, life) = DOMAIN f \cup keys
           /\ \A k \in DOMAIN f \cup keys : Longer(f, keys, life)[k] \in Int
           /\ \A k \in DOMAIN f : f[k] <= Longer(f, keys, life)[k]
           /\ \A k \in keys : life <= Longer(f, keys, life)[k]
  BY DEF Longer

\* handle_turn_create_permission
LEMMA CreatePermissionKeeps ==
    ASSUME AllocInv, 0 \notin Numbers, PermLife \in Int,
           NEW as \in SUBSET Addrs, CreatePermission(as)
    PROVE  AllocInv'
<1>1. /\ DOMAIN alloc' = Fields /\ alloc'.chans = alloc.chans
      /\ DOMAIN alloc'.perms = DOMAIN alloc.perms \cup as
      /\ \A a \in DOMAIN alloc.perms \ as : alloc'.perms[a] = alloc.perms[a]
      /\ \A a \in as : alloc'.perms[a] = UpdatePermission(alloc, a, PermLife).perms[a]
  BY DEF AllocInv, ShapeOK, Fields, CreatePermission
<1>2. ASSUME NEW a \in as
      PROVE  /\ DOMAIN alloc'.perms[a] = {"left", "chns"}
             /\ alloc'.perms[a].left = PermLife /\ alloc'.perms[a].chns = Channels(alloc, a)
  <2>1. UpdatePermission(alloc, a, PermLife).perms[a]
            = [left |-> PermLife, chns |-> Channels(alloc, a)]
    BY UpdateFacts DEF AllocInv, ShapeOK
  <2>2. alloc'.perms[a] = [left |-> PermLife, chns |-> Channels(alloc, a)]
    BY <1>1, <2>1
  <2>. QED
    BY <2>2
<1>3. MapsAgree' /\ BoundAsAsked'
  <2>1. \A a \in DOMAIN alloc'.perms \ as : alloc'.perms[a].chns = Channels(alloc, a)
    BY <1>1 DEF Channels
  <2>2. \A a \in DOMAIN alloc'.perms : alloc'.perms[a].chns = Channels(alloc, a)
    BY <1>2, <2>1
  <2>. QED
    BY <1>1, <2>2, TablesKept DEF CreatePermission
<1>4. /\ DOMAIN granted' = DOMAIN granted \cup as
      /\ \A a \in DOMAIN granted' : granted'[a] \in Int
      /\ \A a \in DOMAIN granted : granted[a] <= granted'[a]
      /\ \A a \in as : PermLife <= granted'[a]
  BY LongerFacts DEF AllocInv, ShapeOK, CreatePermission
<1>5. ShapeOK'
  BY <1>1, <1>2, <1>4 DEF AllocInv, ShapeOK
<1>6. NoLongerThanAsked'
  <2>. SUFFICES ASSUME NEW a \in DOMAIN alloc'.perms
                PROVE  a \in DOMAIN granted' /\ alloc'.perms[a].left <= granted'[a]
    BY DEF NoLongerThanAsked
  <2>1. CASE a \in as
    BY <1>2, <1>4, <2>1
  <2>2. CASE a \notin as
    <3>1. /\ a \in DOMAIN granted /\ alloc.perms[a].left <= granted[a]
          /\ alloc.perms[a].left \in Int /\ granted[a] \in Int
          /\ alloc'.perms[a] = alloc.perms[a]
      BY <1>1, <2>2 DEF AllocInv, ShapeOK, NoLongerThanAsked
    <3>2. a \in DOMAIN granted' /\ granted'[a] \in Int /\ granted[a] <= granted'[a]
      BY <1>4, <3>1
    <3>3. alloc'.perms[a].left = alloc.perms[a].left
      BY <3>1
    <3>. QED
      BY <3>1, <3>2, <3>3
  <2>. QED
    BY <2>1, <2>2
<1>. QED
  BY <1>3, <1>5, <1>6, QuietRelaysNothing DEF AllocInv, CreatePermission

\* handle_turn_channel_bind: the number and the peer have no other channel.
LEMMA ChannelBindKeeps ==
    ASSUME AllocInv, 0 \notin Numbers, ChanLife \in Int,
           NEW n \in Numbers, NEW p \in Peers, ChannelBind(n, p)
    PROVE  AllocInv'
<1>. DEFINE a == Addr(p)
<1>1. p = <<a, Port(p)>>
  BY DEF Peers, Addr, Port
<1>2. /\ DOMAIN alloc' = Fields
      /\ alloc'.chans = With(alloc.chans, n, [peer |-> p, left |-> ChanLife])
      /\ DOMAIN alloc'.perms = DOMAIN alloc.perms \cup {a}
      /\ DOMAIN alloc'.perms[a] = {"left", "chns"}
      /\ alloc'.perms[a].left = ChanLife
      /\ alloc'.perms[a].chns = With(Channels(alloc, a), Port(p), n)
      /\ \A b \in DOMAIN alloc.perms \ {a} : alloc'.perms[b] = alloc.perms[b]
  BY BindFacts DEF ChannelBind, AllocInv, ShapeOK
<1>3. /\ DOMAIN alloc'.chans = DOMAIN alloc.chans \cup {n}
      /\ alloc'.chans[n].peer = p
      /\ \A m \in DOMAIN alloc.chans \ {n} : alloc'.chans[m] = alloc.chans[m]
  BY <1>2 DEF With
<1>4. /\ DOMAIN alloc'.perms[a].chns = DOMAIN Channels(alloc, a) \cup {Port(p)}
      /\ alloc'.perms[a].chns[Port(p)] = n
      /\ \A q \in DOMAIN Channels(alloc, a) \ {Port(p)} :
            alloc'.perms[a].chns[q] = Channels(alloc, a)[q]
  BY <1>2 DEF With
<1>5. /\ \A m \in DOMAIN alloc.chans : InPermission(alloc, m)
      /\ \A b \in DOMAIN alloc.perms : \A q \in DOMAIN alloc.perms[b].chns :
            LET m == alloc.perms[b].chns[q]
            IN  m \in DOMAIN alloc.chans /\ alloc.chans[m].peer = <<b, q>>
  BY MapsAgreeAsPointers DEF AllocInv, ShapeOK
<1>6. /\ n \in DOMAIN alloc.chans => alloc.chans[n].peer = p
      /\ n \notin DOMAIN alloc.chans => Port(p) \notin DOMAIN Channels(alloc, a)
  <2>1. \A b \in DOMAIN alloc.perms : \A q \in DOMAIN alloc.perms[b].chns :
            alloc.perms[b].chns[q] # 0
    BY <1>5 DEF AllocInv, ShapeOK
  <2>. QED
    BY <2>1 DEF ChannelBind, MayBind, ChannelOf, Channels, Empty
<1>7. \A m \in DOMAIN alloc'.chans : m \in Numbers /\ alloc'.chans[m].peer \in Peers
  BY <1>3 DEF AllocInv, ShapeOK
<1>8. \A m \in DOMAIN alloc'.chans : InPermission(alloc', m)
  <2>. SUFFICES ASSUME NEW m \in DOMAIN alloc.chans, m # n
                PROVE  InPermission(alloc', m)
    BY <1>2, <1>3, <1>4 DEF InPermission
  <2>. DEFINE q == alloc.chans[m].peer
  <2>1. /\ alloc'.chans[m].peer = q
        /\ Addr(q) \in DOMAIN alloc.perms /\ Port(q) \in DOMAIN alloc.perms[Addr(q)].chns
        /\ alloc.perms[Addr(q)].chns[Port(q)] = m
    BY <1>3, <1>5 DEF InPermission
  <2>2. CASE Addr(q) # a
    BY <1>2, <2>1, <2>2 DEF InPermission
  <2>3. CASE Addr(q) = a
    <3>1. Channels(alloc, a) = alloc.perms[a].chns
      BY <2>1, <2>3 DEF Channels
    <3>2. Port(q) # Port(p)
      <4>1. CASE n \notin DOMAIN alloc.chans
        BY <1>6, <2>1, <2>3, <3>1, <4>1
      <4>2. CASE n \in DOMAIN alloc.chans
        <5>1. alloc.perms[a].chns[Port(p)] = n
          BY <1>5, <1>6, <4>2 DEF InPermission
        <5>. QED
          BY <2>1, <2>3, <5>1
      <4>. QED
        BY <4>1, <4>2
    <3>. QED
      BY <1>2, <1>4, <2>1, <2>3, <3>1, <3>2 DEF InPermission
  <2>. QED
    BY <2>2, <2>3
<1>9. \A b \in DOMAIN alloc'.perms : \A q \in DOMAIN alloc'.perms[b].chns :
          LET m == alloc'.perms[b].chns[q]
          IN  m \in DOMAIN alloc'.chans /\ alloc'.chans[m].peer = <<b, q>>
  <2>. SUFFICES ASSUME NEW b \in DOMAIN alloc'.perms, NEW q \in DOMAIN alloc'.perms[b].chns
                PROVE  LET m == alloc'.perms[b].chns[q]
                       IN  m \in DOMAIN alloc'.chans /\ alloc'.chans[m].peer = <<b, q>>
    OBVIOUS
  <2>1. CASE b = a /\ q = Port(p)
    BY <1>1, <1>3, <1>4, <2>1
  <2>2. CASE ~(b = a /\ q = Port(p))
    <3>1. b \in DOMAIN alloc.perms /\ q \in DOMAIN alloc.perms[b].chns
          /\ alloc'.perms[b].chns[q] = alloc.perms[b].chns[q]
      BY <1>2, <1>4, <2>2 DEF Channels, Empty
    <3>2. PICK m : m = alloc.perms[b].chns[q]
      OBVIOUS
    <3>3. m \in DOMAIN alloc.chans /\ alloc.chans[m].peer = <<b, q>>
      BY <1>5, <3>1, <3>2
    <3>4. m # n
      BY <1>1, <1>6, <2>2, <3>3
    <3>5. m \in DOMAIN alloc'.chans /\ alloc'.chans[m].peer = <<b, q>>
      BY <1>3, <3>3, <3>4
    <3>. QED
      BY <3>1, <3>2, <3>5
  <2>. QED
    BY <2>1, <2>2
<1>10. MapsAgree'
  <2>1. \A m \in DOMAIN alloc'.chans :
            ChannelOf(alloc', alloc'.chans[m].peer) = m <=> InPermission(alloc', m)
    BY <1>7 DEF ChannelOf, InPermission
  <2>. QED
    BY <1>8, <1>9, <2>1 DEF MapsAgree
<1>11. BoundAsAsked'
  <2>1. bound' = With(bound, n, p)
    BY DEF ChannelBind
  <2>. QED
    BY <1>3, <2>1 DEF BoundAsAsked, With, AllocInv
<1>12. /\ DOMAIN granted' = DOMAIN granted \cup {a}
       /\ \A b \in DOMAIN granted' : granted'[b] \in Int
       /\ \A b \in DOMAIN granted : granted[b] <= granted'[b]
       /\ ChanLife <= granted'[a]
  BY LongerFacts DEF AllocInv, ShapeOK, ChannelBind
<1>13. ShapeOK'
  BY <1>2, <1>7, <1>12 DEF AllocInv, ShapeOK
<1>14. NoLongerThanAsked'
  <2>. SUFFICES ASSUME NEW b \in DOMAIN alloc'.perms
                PROVE  b \in DOMAIN granted' /\ alloc'.perms[b].left <= granted'[b]
    BY DEF NoLongerThanAsked
  <2>1. CASE b = a
    BY <1>2, <1>12, <2>1
  <2>2. CASE b # a
    BY <1>2, <1>12, <2>2 DEF AllocInv, ShapeOK, NoLongerThanAsked
  <2>. QED
    BY <2>1, <2>2
<1>. QED
  BY <1>10, <1>11, <1>13, <1>14, QuietRelaysNothing DEF AllocInv, ChannelBind

\* turn_permission_clean, when a permission's timer is due: its channels, which
\* MapsAgree finds in it, go with it, and no other.
LEMMA PermTimeoutKeeps ==
    ASSUME AllocInv, 0 \notin Numbers, NEW a \in Addrs, PermTimeout(a)
    PROVE  AllocInv'
<1>. DEFINE gone == Range(alloc.perms[a].chns)
<1>1. /\ DOMAIN alloc' = Fields
      /\ alloc'.perms = Drop(alloc.perms, {a}) /\ alloc'.chans = Drop(alloc.chans, gone)
  BY CleanFacts DEF PermTimeout, AllocInv, ShapeOK
<1>2. /\ DOMAIN alloc'.perms = DOMAIN alloc.perms \ {a}
      /\ \A b \in DOMAIN alloc'.perms : alloc'.perms[b] = alloc.perms[b]
      /\ DOMAIN alloc'.chans = DOMAIN alloc.chans \ gone
      /\ \A n \in DOMAIN alloc'.chans : alloc'.chans[n] = alloc.chans[n]
  BY <1>1 DEF Drop, Restrict
<1>3. /\ \A n \in DOMAIN alloc.chans : InPermission(alloc, n)
      /\ \A b \in DOMAIN alloc.perms : \A port \in DOMAIN alloc.perms[b].chns :
            LET n == alloc.perms[b].chns[port]
            IN  n \in DOMAIN alloc.chans /\ alloc.chans[n].peer = <<b, port>>
  BY MapsAgreeAsPointers DEF AllocInv, ShapeOK
<1>4. \A n \in DOMAIN alloc'.chans : n \in Numbers /\ InPermission(alloc', n)
  <2>. SUFFICES ASSUME NEW n \in DOMAIN alloc'.chans
                PROVE  n \in Numbers /\ InPermission(alloc', n)
    OBVIOUS
  <2>1. n \in Numbers /\ InPermission(alloc, n)
    BY <1>2, <1>3 DEF AllocInv, ShapeOK
  <2>2. Addr(alloc.chans[n].peer) # a
    BY <1>2, <2>1 DEF InPermission, Range
  <2>. QED
    BY <1>2, <2>1, <2>2 DEF InPermission
<1>5. \A b \in DOMAIN alloc'.perms : \A port \in DOMAIN alloc'.perms[b].chns :
          LET n == alloc'.perms[b].chns[port]
          IN  n \in DOMAIN alloc'.chans /\ alloc'.chans[n].peer = <<b, port>>
  <2>. SUFFICES ASSUME NEW b \in DOMAIN alloc'.perms, NEW port \in DOMAIN alloc'.perms[b].chns
                PROVE  LET n == alloc'.perms[b].chns[port]
                       IN  n \in DOMAIN alloc'.chans /\ alloc'.chans[n].peer = <<b, port>>
    OBVIOUS
  <2>. DEFINE n == alloc.perms[b].chns[port]
  <2>1. /\ b # a /\ alloc'.perms[b] = alloc.perms[b] /\ port \in DOMAIN alloc.perms[b].chns
        /\ n \in DOMAIN alloc.chans /\ alloc.chans[n].peer = <<b, port>>
    BY <1>2, <1>3
  <2>2. n \notin gone
    <3>. SUFFICES ASSUME NEW q \in DOMAIN alloc.perms[a].chns, alloc.perms[a].chns[q] = n
                  PROVE  FALSE
      BY DEF Range
    <3>1. alloc.chans[n].peer = <<a, q>>
      BY <1>3 DEF PermTimeout
    <3>2. <<b, port>> = <<a, q>>
      BY <2>1, <3>1
    <3>3. b = a
      BY <3>2
    <3>. QED
      BY <2>1, <3>3
  <2>. QED
    BY <1>2, <2>1, <2>2
<1>6. MapsAgree'
  <2>1. \A n \in DOMAIN alloc'.chans :
            ChannelOf(alloc', alloc'.chans[n].peer) = n <=> InPermission(alloc', n)
    BY <1>4 DEF ChannelOf, InPermission
  <2>. QED
    BY <1>4, <1>5, <2>1 DEF MapsAgree
<1>7. UNCHANGED <<granted, bound>> /\ Quiet
  BY DEF PermTimeout
<1>8. ShapeOK' /\ BoundAsAsked' /\ NoLongerThanAsked'
  BY <1>1, <1>2, <1>7 DEF AllocInv, ShapeOK, BoundAsAsked, NoLongerThanAsked
<1>. QED
  BY <1>6, <1>7, <1>8, QuietRelaysNothing DEF AllocInv

\* turn_channel_delete, when a channel's timer is due.
LEMMA ChannelTimeoutKeeps ==
    ASSUME AllocInv, 0 \notin Numbers, NEW n \in Numbers, ChannelTimeout(n)
    PROVE  AllocInv'
<1>. DEFINE p == alloc.chans[n].peer
            a == Addr(p)
<1>1. /\ \A m \in DOMAIN alloc.chans : InPermission(alloc, m)
      /\ \A b \in DOMAIN alloc.perms : \A q \in DOMAIN alloc.perms[b].chns :
            LET m == alloc.perms[b].chns[q]
            IN  m \in DOMAIN alloc.chans /\ alloc.chans[m].peer = <<b, q>>
  BY MapsAgreeAsPointers DEF AllocInv, ShapeOK
<1>2. /\ n \in DOMAIN alloc.chans /\ p = <<a, Port(p)>>
      /\ a \in DOMAIN alloc.perms /\ Port(p) \in DOMAIN alloc.perms[a].chns
      /\ alloc.perms[a].chns[Port(p)] = n
  <2>1. n \in DOMAIN alloc.chans
    BY DEF ChannelTimeout
  <2>2. p \in Peers
    BY <2>1 DEF AllocInv, ShapeOK
  <2>3. p = <<a, Port(p)>>
    BY <2>2 DEF Peers, Addr, Port
  <2>. QED
    BY <1>1, <2>1, <2>3 DEF InPermission
<1>3. /\ DOMAIN alloc' = Fields /\ alloc'.chans = Drop(alloc.chans, {n})
      /\ DOMAIN alloc'.perms = DOMAIN alloc.perms
      /\ \A b \in DOMAIN alloc.perms \ {a} : alloc'.perms[b] = alloc.perms[b]
      /\ DOMAIN alloc'.perms[a] = {"left", "chns"}
      /\ alloc'.perms[a].left = alloc.perms[a].left
      /\ alloc'.perms[a].chns = Drop(alloc.perms[a].chns, {Port(p)})
  <2>1. /\ DOMAIN alloc = Fields /\ DOMAIN alloc.perms[a] = {"left", "chns"}
        /\ alloc' = ChannelDelete(alloc, n)
    BY <1>2 DEF ChannelTimeout, AllocInv, ShapeOK
  <2>2. LET B == ChannelDelete(alloc, n) IN
        /\ DOMAIN B = Fields /\ B.chans = Drop(alloc.chans, {n})
        /\ DOMAIN B.perms = DOMAIN alloc.perms
        /\ \A b \in DOMAIN alloc.perms \ {a} : B.perms[b] = alloc.perms[b]
        /\ DOMAIN B.perms[a] = {"left", "chns"}
        /\ B.perms[a].left = alloc.perms[a].left
        /\ B.perms[a].chns = Drop(alloc.perms[a].chns, {Port(p)})
    BY <1>2, <2>1 DEF ChannelDelete, Fields
  <2>. QED
    BY <2>1, <2>2
<1>4. /\ DOMAIN alloc'.chans = DOMAIN alloc.chans \ {n}
      /\ \A m \in DOMAIN alloc'.chans : alloc'.chans[m] = alloc.chans[m]
      /\ DOMAIN alloc'.perms[a].chns = DOMAIN alloc.perms[a].chns \ {Port(p)}
      /\ \A q \in DOMAIN alloc'.perms[a].chns :
            alloc'.perms[a].chns[q] = alloc.perms[a].chns[q]
  BY <1>3 DEF Drop, Restrict
<1>5. \A m \in DOMAIN alloc'.chans : m \in Numbers /\ InPermission(alloc', m)
  <2>. SUFFICES ASSUME NEW m \in DOMAIN alloc'.chans
                PROVE  m \in Numbers /\ InPermission(alloc', m)
    OBVIOUS
  <2>. DEFINE r == alloc.chans[m].peer
  <2>1. /\ m \in Numbers /\ m # n /\ alloc'.chans[m].peer = r
        /\ Addr(r) \in DOMAIN alloc.perms /\ Port(r) \in DOMAIN alloc.perms[Addr(r)].chns
        /\ alloc.perms[Addr(r)].chns[Port(r)] = m
    BY <1>1, <1>4 DEF InPermission, AllocInv, ShapeOK
  <2>2. CASE Addr(r) # a
    BY <1>3, <2>1, <2>2 DEF InPermission
  <2>3. CASE Addr(r) = a
    <3>1. Port(r) # Port(p)
      BY <1>2, <2>1, <2>3
    <3>2. /\ Port(r) \in DOMAIN alloc'.perms[a].chns
          /\ alloc'.perms[a].chns[Port(r)] = m
      BY <1>4, <2>1, <2>3, <3>1
    <3>. QED
      BY <1>2, <1>3, <2>1, <2>3, <3>2 DEF InPermission
  <2>. QED
    BY <2>2, <2>3
<1>6. \A b \in DOMAIN alloc'.perms : \A q \in DOMAIN alloc'.perms[b].chns :
          LET m == alloc'.perms[b].chns[q]
          IN  m \in DOMAIN alloc'.chans /\ alloc'.chans[m].peer = <<b, q>>
  <2>. SUFFICES ASSUME NEW b \in DOMAIN alloc'.perms, NEW q \in DOMAIN alloc'.perms[b].chns
                PROVE  LET m == alloc'.perms[b].chns[q]
                       IN  m \in DOMAIN alloc'.chans /\ alloc'.chans[m].peer = <<b, q>>
    OBVIOUS
  <2>. DEFINE m == alloc.perms[b].chns[q]
  <2>1. /\ b \in DOMAIN alloc.perms /\ q \in DOMAIN alloc.perms[b].chns
        /\ alloc'.perms[b].chns[q] = m /\ ~(b = a /\ q = Port(p))
    BY <1>3, <1>4
  <2>2. m \in DOMAIN alloc.chans /\ alloc.chans[m].peer = <<b, q>>
    BY <1>1, <2>1
  <2>. HIDE DEF m
  <2>3. m # n
    <3>1. CASE m = n
      <4>1. Addr(<<b, q>>) = b /\ Port(<<b, q>>) = q
        BY DEF Addr, Port
      <4>. QED
        BY <1>2, <2>1, <2>2, <3>1, <4>1
    <3>. QED
      BY <3>1
  <2>. QED
    BY <1>4, <2>1, <2>2, <2>3
<1>7. MapsAgree'
  <2>1. \A m \in DOMAIN alloc'.chans :
            ChannelOf(alloc', alloc'.chans[m].peer) = m <=> InPermission(alloc', m)
    BY <1>5 DEF ChannelOf, InPermission
  <2>. QED
    BY <1>5, <1>6, <2>1 DEF MapsAgree
<1>8. UNCHANGED <<granted, bound>> /\ Quiet
  BY DEF ChannelTimeout
<1>9. \A b \in DOMAIN alloc.perms :
          DOMAIN alloc'.perms[b] = {"left", "chns"} /\ alloc'.perms[b].left = alloc.perms[b].left
  BY <1>3 DEF AllocInv, ShapeOK
<1>10. ShapeOK'
  BY <1>3, <1>4, <1>8, <1>9 DEF AllocInv, ShapeOK
<1>11. BoundAsAsked' /\ NoLongerThanAsked'
  BY <1>3, <1>4, <1>8, <1>9 DEF AllocInv, BoundAsAsked, NoLongerThanAsked
<1>. QED
  BY <1>7, <1>8, <1>10, <1>11, QuietRelaysNothing DEF AllocInv

\* handle_turn_send, write_to_peerchannel, peer_input_handler
LEMMA RelayKeeps ==
    ASSUME AllocInv, 0 \notin Numbers,
           \/ \E p \in Peers : TurnSend(p) \/ PeerInput(p)
           \/ \E n \in Numbers : WriteToPeerChannel(n)
    PROVE  AllocInv'
<1>1. UNCHANGED <<alloc, granted, bound>>
  BY DEF TurnSend, PeerInput, WriteToPeerChannel
<1>2. ShapeOK' /\ MapsAgree' /\ BoundAsAsked' /\ NoLongerThanAsked'
  BY <1>1, SameTables DEF AllocInv, ShapeOK
<1>3. /\ \A n \in DOMAIN alloc.chans : InPermission(alloc, n)
      /\ \A b \in DOMAIN alloc.perms : \A q \in DOMAIN alloc.perms[b].chns :
            LET m == alloc.perms[b].chns[q]
            IN  m \in DOMAIN alloc.chans /\ alloc.chans[m].peer = <<b, q>>
  BY MapsAgreeAsPointers DEF AllocInv, ShapeOK
<1>4. ASSUME NEW p \in Peers, TurnSend(p)
      PROVE  RelayedAsAsked'
  <2>1. Addr(p) \in DOMAIN granted'
    BY <1>1, <1>4 DEF TurnSend, AllocInv, NoLongerThanAsked
  <2>2. out'.peer = p /\ out'.chan = 0
    BY <1>4 DEF TurnSend
  <2>. QED
    BY <2>1, <2>2 DEF RelayedAsAsked
<1>5. ASSUME NEW p \in Peers, PeerInput(p)
      PROVE  RelayedAsAsked'
  <2>1. Addr(p) \in DOMAIN granted'
    BY <1>1, <1>5 DEF PeerInput, AllocInv, NoLongerThanAsked
  <2>2. out'.peer = p /\ out'.chan = ChannelOf(alloc, p)
    BY <1>5 DEF PeerInput
  <2>3. ChannelOf(alloc, p) # 0 => bound'[ChannelOf(alloc, p)] = p
    <3>1. p = <<Addr(p), Port(p)>>
      BY DEF Peers, Addr, Port
    <3>. QED
      BY <1>1, <1>3, <3>1 DEF ChannelOf, AllocInv, BoundAsAsked
  <2>. QED
    BY <2>1, <2>2, <2>3 DEF RelayedAsAsked
<1>6. ASSUME NEW n \in Numbers, WriteToPeerChannel(n)
      PROVE  RelayedAsAsked'
  <2>1. out'.peer = alloc.chans[n].peer /\ out'.chan = n /\ n \in DOMAIN alloc.chans
    BY <1>6 DEF WriteToPeerChannel
  <2>2. Addr(alloc.chans[n].peer) \in DOMAIN granted'
    BY <1>1, <1>3, <2>1 DEF InPermission, AllocInv, NoLongerThanAsked
  <2>3. bound'[n] = alloc.chans[n].peer
    BY <1>1, <2>1 DEF AllocInv, BoundAsAsked
  <2>. QED
    BY <2>1, <2>2, <2>3 DEF RelayedAsAsked
<1>. QED
  BY <1>2, <1>4, <1>5, <1>6 DEF AllocInv

-----------------------------------------------------------------------------
\* The allocation's two tables of channels name the same channels for the same
\* peers; what is relayed, either way, is covered by a request of the client that
\* still lasts, under the channel it asked for; and no permission outlasts what
\* was asked: for every set of peers and numbers, and all lifetimes.  Channel
\* numbers begin at 0x4000, and 0 means that a peer has none.
THEOREM AllocationSafe ==
    ASSUME 0 \notin Numbers, PermLife \in Int, ChanLife \in Int
    PROVE  Spec => [](MapsAgree /\ RelayedAsAsked /\ NoLongerThanAsked)
<1>1. Init => AllocInv
  <2>. SUFFICES ASSUME Init PROVE AllocInv
    OBVIOUS
  <2>1. /\ DOMAIN alloc = Fields /\ DOMAIN alloc.perms = {} /\ DOMAIN alloc.chans = {}
        /\ DOMAIN granted = {}
    BY DEF Init, NewAllocation, Empty, Fields
  <2>2. ShapeOK /\ MapsAgree /\ BoundAsAsked /\ NoLongerThanAsked
    BY <2>1 DEF ShapeOK, MapsAgree, BoundAsAsked, NoLongerThanAsked
  <2>3. RelayedAsAsked
    BY DEF Init, RelayedAsAsked
  <2>. QED
    BY <2>2, <2>3 DEF AllocInv
<1>2. AllocInv /\ [Next]_vars => AllocInv'
  <2>. SUFFICES ASSUME AllocInv, [Next]_vars PROVE AllocInv'
    OBVIOUS
  <2>1. CASE Allocate \/ \E delete \in BOOLEAN : RefreshRelay(delete)
    BY <2>1, LifetimeKeeps
  <2>2. CASE AllocationTimeout
    BY <2>2, ClearKeeps DEF AllocationTimeout
  <2>3. CASE Tick
    BY <2>3, TickKeeps
  <2>4. CASE \E as \in SUBSET Addrs \ {{}} : CreatePermission(as)
    BY <2>4, CreatePermissionKeeps
  <2>5. CASE \E p \in Peers : \E n \in Numbers : ChannelBind(n, p)
    BY <2>5, ChannelBindKeeps
  <2>6. CASE \E a \in Addrs : PermTimeout(a)
    BY <2>6, PermTimeoutKeeps
  <2>7. CASE \E n \in Numbers : ChannelTimeout(n)
    BY <2>7, ChannelTimeoutKeeps
  <2>8. CASE \/ \E p \in Peers : TurnSend(p) \/ PeerInput(p)
             \/ \E n \in Numbers : WriteToPeerChannel(n)
    BY <2>8, RelayKeeps
  <2>9. CASE UNCHANGED vars
    <3>1. UNCHANGED <<alloc, out, granted, bound>>
      BY <2>9 DEF vars
    <3>2. ShapeOK' /\ MapsAgree' /\ BoundAsAsked' /\ NoLongerThanAsked'
      BY <3>1, SameTables DEF AllocInv, ShapeOK
    <3>3. RelayedAsAsked'
      BY <3>1 DEF AllocInv, RelayedAsAsked
    <3>. QED
      BY <3>2, <3>3 DEF AllocInv
  <2>. QED
    BY <2>1, <2>2, <2>3, <2>4, <2>5, <2>6, <2>7, <2>8, <2>9 DEF Next
<1>3. AllocInv => MapsAgree /\ RelayedAsAsked /\ NoLongerThanAsked
  BY DEF AllocInv
<1>. QED
  BY <1>1, <1>2, <1>3, PTL DEF Spec
=============================================================================
