--------------------------- MODULE TurnTcpProofs ---------------------------
(***************************************************************************)
(* TCP connections of the TURN server: numbers never lead to one that was  *)
(* freed, an allocation has one for a peer, only its user gets its data,   *)
(* in order, and what nobody binds is ended; for any clients, peers,       *)
(* numbers and buffers, whatever the order of requests, data and timers.   *)
(***************************************************************************)
EXTENDS TurnTcp, FiniteSetTheorems, WellFoundedInduction, TLAPS

Users == Range(User)

\* What the server is run with: memory has no address 0, and users have names.
Configured ==
    /\ NULL \notin Cells /\ DOMAIN User = Sessions /\ Nobody \notin Users
    /\ MaxUnsent \in Nat /\ MaxSent \in Nat

States == {"UNKNOWN", "CLIENT_TO_PEER_CONNECTING", "PEER_CONNECTED", "READY"}
Connections ==
    [owner : Sessions, peer : Peers, id : Ids, state : States, client : Users \cup {Nobody},
     connTimer : BOOLEAN, bindTimer : BOOLEAN, unsent : Seq(Nat), sent : Nat, got : Seq(Nat)]

\* How much of what was sent is kept for a client that is not bound.
Limited(n) == IF n < MaxUnsent THEN n ELSE MaxUnsent

\* The first of what was sent, as much as can be kept.
Beginning(data, n) == Len(data) = Limited(n) /\ \A i \in 1..Len(data) : data[i] = i

\* In order, of what was sent, and nothing missing of its beginning.
InOrder(data, n) ==
    /\ Len(data) <= n /\ Limited(n) <= Len(data)
    /\ \A i \in 1..Len(data) : data[i] <= n
    /\ \A i \in 1..Len(data) - 1 : data[i] < data[i + 1]
    /\ \A i \in 1..Limited(n) : data[i] = i

\* What was kept and given to the client of one connection.
Data(r) ==
    /\ r.sent <= MaxSent /\ Len(r.unsent) <= MaxUnsent
    /\ r.connTimer \/ r.state = "UNKNOWN" => r.sent = 0
    /\ r.sent = 0 => r.unsent = <<>> /\ r.got = <<>>
    /\ r.client = Nobody => r.state # "READY" /\ r.got = <<>> /\ Beginning(r.unsent, r.sent)
    /\ r.state = "READY" /\ ~r.bindTimer => r.unsent = <<>> /\ InOrder(r.got, r.sent)

\* A connection that waits has a timer, and belongs to its user only.
Guarded(r) ==
    /\ r.state \in {"CLIENT_TO_PEER_CONNECTING", "PEER_CONNECTED"} => r.connTimer \/ r.bindTimer
    /\ r.client \in {Nobody, User[r.owner]}

\* The lists of connections: each connection of an allocation is in its list, and
\* what is in a list is a connection of it, with a peer that no other there has.
Listed == \A c \in DOMAIN conn : \E i \in DOMAIN tcs[conn[c].owner] : tcs[conn[c].owner][i] = c
ListsOwn ==
    \A s \in Sessions : \A i \in DOMAIN tcs[s] :
        tcs[s][i] # NULL => tcs[s][i] \in DOMAIN conn /\ conn[tcs[s][i]].owner = s
PeersApart ==
    \A s \in Sessions : \A i, j \in DOMAIN tcs[s] :
        /\ tcs[s][i] # NULL /\ tcs[s][j] # NULL
        /\ conn[tcs[s][i]].peer = conn[tcs[s][j]].peer
        => i = j

Shape ==
    /\ tcs \in [Sessions -> Seq(Cells \cup {NULL})]
    /\ DOMAIN map \subseteq Ids /\ DOMAIN conn \subseteq Cells
    /\ alive \subseteq Sessions /\ wild \in BOOLEAN
    /\ \A c \in DOMAIN conn : conn[c] \in Connections

TcpInv ==
    /\ Shape
    /\ \A c \in DOMAIN conn : Data(conn[c]) /\ Guarded(conn[c])
    /\ MapNeverDangles
    /\ ListsOwn /\ PeersApart
    /\ ~wild => Listed

-----------------------------------------------------------------------------
(***************************************************************************)
(* Lists of connections.                                                   *)
(***************************************************************************)

\* A set of numbers that is not empty has a least one.
LEMMA LeastIn ==
    ASSUME NEW I \in SUBSET Nat, I # {}
    PROVE  Min(I) \in I /\ \A j \in I : Min(I) <= j
<1> DEFINE Below == {0..i : i \in I}
<1>1. Below \subseteq FiniteSubsetsOf(Nat)
  <2>1. \A i \in Nat : IsFiniteSet(0..i) /\ 0..i \in SUBSET Nat
    BY FS_Interval
  <2> QED
    BY <2>1 DEF FiniteSubsetsOf
<1>2. IsWellFoundedOn(StrictSubsetOrdering(Nat), FiniteSubsetsOf(Nat))
  BY FS_StrictSubsetOrderingWellFounded, Zenon
<1>3. PICK b \in Below : \A a \in Below : <<a, b>> \notin StrictSubsetOrdering(Nat)
  <2>1. Below # {}
    OBVIOUS
  <2> HIDE DEF Below
  <2> QED
    BY <1>1, <1>2, <2>1, WFMin, Zenon
<1>4. PICK i \in I : b = 0..i
  OBVIOUS
<1>5. \A j \in I : i <= j
  <2> SUFFICES ASSUME NEW j \in I, ~(i <= j)
               PROVE  FALSE
    OBVIOUS
  <2>1. i \in 0..i /\ i \notin 0..j /\ 0..j \subseteq 0..i
    OBVIOUS
  <2>2. 0..i \in SUBSET Nat /\ 0..j \in SUBSET Nat
    OBVIOUS
  <2>3. <<0..j, 0..i>> \in StrictSubsetOrdering(Nat)
    BY <2>1, <2>2, Zenon DEF StrictSubsetOrdering
  <2> QED
    BY <1>3, <1>4, <2>3
<1> QED
  BY <1>5 DEF Min

\* b is the list a with c in a slot i that was free or did not exist.
PutIn(a, b, c, i) ==
    /\ b \in Seq(Cells \cup {NULL}) /\ i \in 1..Len(b) /\ b[i] = c
    /\ i \in 1..Len(a) => a[i] = NULL
    /\ \A j \in 1..Len(a) : j \in 1..Len(b) /\ (j # i => b[j] = a[j])
    /\ \A j \in 1..Len(b) : j # i => j \in 1..Len(a)

LEMMA SlotTaken ==
    ASSUME NEW a \in Seq(Cells \cup {NULL}), NEW c \in Cells
    PROVE  \E i \in Nat : PutIn(a, InSlot(a, c), c, i)
<1> DEFINE I == {i \in 1..Len(a) : a[i] = NULL}
<1>1. I \in SUBSET Nat /\ \A i \in I : i \in 1..Len(a) /\ a[i] = NULL
  OBVIOUS
<1>2. \A i \in 1..Len(a) : a[i] = NULL => i \in I
  OBVIOUS
<1> HIDE DEF I
<1>3. I # {} => Min(I) \in I /\ Min(I) # 0
  BY <1>1, LeastIn
<1>4. SelectInSeq(a, LAMBDA d : d = NULL) = IF I # {} THEN Min(I) ELSE 0
  BY DEF SelectInSeq, I
<1>5. InSlot(a, c) = IF I = {} THEN Append(a, c) ELSE [a EXCEPT ![Min(I)] = c]
  BY <1>3, <1>4 DEF InSlot
<1>6. CASE I = {}
  <2>1. PutIn(a, Append(a, c), c, Len(a) + 1)
    BY DEF PutIn
  <2> QED
    BY <1>5, <1>6, <2>1
<1>7. CASE I # {}
  <2>1. PICK i \in Nat : i = Min(I) /\ i \in 1..Len(a) /\ a[i] = NULL
    BY <1>1, <1>3, <1>7
  <2>2. PutIn(a, [a EXCEPT ![i] = c], c, i)
    BY <2>1 DEF PutIn
  <2> QED
    BY <1>5, <1>7, <2>1, <2>2
<1> QED
  BY <1>6, <1>7

LEMMA TakenOut ==
    ASSUME NEW a \in Seq(Cells \cup {NULL}), NEW c
    PROVE  /\ Without(a, c) \in Seq(Cells \cup {NULL}) /\ Len(Without(a, c)) = Len(a)
           /\ \A i \in 1..Len(a) : Without(a, c)[i] = IF a[i] = c THEN NULL ELSE a[i]
  BY DEF Without

\* The first connection of a list, if it has one.
First(a) == SelectInSeq(a, LAMBDA c : c # NULL)

LEMMA FirstIs ==
    ASSUME NEW a \in Seq(Cells \cup {NULL})
    PROVE  \/ First(a) = 0 /\ \A i \in 1..Len(a) : a[i] = NULL
           \/ First(a) \in 1..Len(a) /\ a[First(a)] # NULL
<1> DEFINE I == {i \in 1..Len(a) : a[i] # NULL}
<1>1. I \in SUBSET Nat
  OBVIOUS
<1> HIDE DEF I
<1>2. I # {} => Min(I) \in I
  BY <1>1, LeastIn
<1>3. First(a) = IF I # {} THEN Min(I) ELSE 0
  BY DEF SelectInSeq, I, First
<1> QED
  BY <1>2, <1>3 DEF I

-----------------------------------------------------------------------------
(***************************************************************************)
(* Data of one connection.                                                 *)
(***************************************************************************)
LEMMA LimitedIs ==
    ASSUME Configured, NEW n \in Nat
    PROVE  /\ Limited(n) \in Nat /\ Limited(n) <= n /\ Limited(n) <= MaxUnsent
           /\ Limited(n) < MaxUnsent => Limited(n) = n /\ Limited(n + 1) = n + 1
           /\ Limited(n) = MaxUnsent => Limited(n + 1) = MaxUnsent
           /\ Limited(n + 1) <= Limited(n) \/ (Limited(n) = n /\ Limited(n + 1) = n + 1)
  BY DEF Configured, Limited

LEMMA BeginningGrows ==
    ASSUME Configured, NEW d \in Seq(Nat), NEW n \in Nat, Beginning(d, n)
    PROVE  LET e == IF Len(d) >= MaxUnsent THEN d ELSE Append(d, n + 1)
           IN  e \in Seq(Nat) /\ Len(e) <= MaxUnsent /\ Beginning(e, n + 1)
<1>1. Len(d) = Limited(n) /\ MaxUnsent \in Nat /\ \A i \in 1..Len(d) : d[i] = i
  BY DEF Beginning, Configured
<1>2. CASE Len(d) >= MaxUnsent
  BY <1>1, <1>2, LimitedIs DEF Beginning
<1>3. CASE ~(Len(d) >= MaxUnsent)
  <2>1. Len(d) = n /\ Limited(n + 1) = n + 1 /\ n < MaxUnsent
    BY <1>1, <1>3, LimitedIs
  <2>2. Append(d, n + 1) \in Seq(Nat) /\ Len(Append(d, n + 1)) = n + 1
        /\ \A i \in 1..n + 1 : Append(d, n + 1)[i] = i
    BY <1>1, <2>1
  <2> QED
    BY <1>1, <1>3, <2>1, <2>2 DEF Beginning
<1> QED
  BY <1>2, <1>3

LEMMA InOrderGrows ==
    ASSUME Configured, NEW d \in Seq(Nat), NEW n \in Nat, InOrder(d, n)
    PROVE  Append(d, n + 1) \in Seq(Nat) /\ InOrder(Append(d, n + 1), n + 1)
<1> DEFINE e == Append(d, n + 1)
<1>1. /\ e \in Seq(Nat) /\ Len(e) = Len(d) + 1 /\ Len(d) \in Nat
      /\ \A i \in 1..Len(d) : e[i] = d[i] /\ d[i] \in Nat
      /\ e[Len(d) + 1] = n + 1
  OBVIOUS
<1> HIDE DEF e
<1>2. /\ Len(d) <= n /\ Limited(n) <= Len(d)
      /\ \A i \in 1..Len(d) : d[i] <= n
      /\ \A i \in 1..Len(d) - 1 : d[i] < d[i + 1]
      /\ \A i \in 1..Limited(n) : d[i] = i
  BY DEF InOrder
<1>3. Len(e) <= n + 1 /\ \A i \in 1..Len(e) : e[i] <= n + 1
  BY <1>1, <1>2
<1>4. \A i \in 1..Len(e) - 1 : e[i] < e[i + 1]
  <2> SUFFICES ASSUME NEW i \in 1..Len(e) - 1
               PROVE  e[i] < e[i + 1]
    OBVIOUS
  <2>1. CASE i = Len(d)
    BY <1>1, <1>2, <2>1
  <2>2. CASE i # Len(d)
    <3>1. i \in 1..Len(d) - 1 /\ i \in 1..Len(d) /\ i + 1 \in 1..Len(d)
      BY <1>1, <2>2
    <3> QED
      BY <1>1, <1>2, <3>1
  <2> QED
    BY <2>1, <2>2
<1>5. Limited(n + 1) <= Len(e) /\ \A i \in 1..Limited(n + 1) : e[i] = i
  <2>1. /\ Limited(n) \in Nat /\ Limited(n + 1) \in Nat
        /\ Limited(n + 1) <= Limited(n) \/ (Limited(n) = n /\ Limited(n + 1) = n + 1)
    BY LimitedIs
  <2>2. CASE Limited(n + 1) <= Limited(n)
    <3>1. PICK l, m \in Nat : l = Limited(n) /\ m = Limited(n + 1)
      BY <2>1
    <3>2. m <= l /\ l <= Len(d)
      BY <1>2, <2>2, <3>1
    <3>3. m <= Len(e) /\ \A i \in 1..m : i \in 1..Len(d) /\ i \in 1..l
      BY <1>1, <3>2
    <3> QED
      BY <1>1, <1>2, <3>1, <3>3
  <2>3. CASE Limited(n) = n /\ Limited(n + 1) = n + 1
    <3>1. Len(d) = n
      BY <1>1, <1>2, <2>3
    <3> QED
      BY <1>1, <1>2, <2>3, <3>1
  <2> QED
    BY <2>1, <2>2, <2>3
<1> QED
  BY <1>1, <1>3, <1>4, <1>5 DEF InOrder, e

LEMMA BeginningOrdered ==
    ASSUME Configured, NEW d \in Seq(Nat), NEW n \in Nat, Beginning(d, n)
    PROVE  InOrder(d, n)
<1>1. Len(d) = Limited(n) /\ Limited(n) \in Nat /\ Limited(n) <= n
      /\ \A i \in 1..Len(d) : d[i] = i
  BY LimitedIs DEF Beginning
<1> QED
  BY <1>1 DEF InOrder

\* A record that the table of connections may have.
Kept(r) == r \in Connections /\ Data(r) /\ Guarded(r)

\* The connection of the same allocation, peer and number.
SameOne(q, r) == q.owner = r.owner /\ q.peer = r.peer /\ q.id = r.id

LEMMA InputKeeps ==
    ASSUME Configured, NEW r, Kept(r), ~r.connTimer, r.state # "UNKNOWN", r.sent < MaxSent
    PROVE  Kept(Input(r)) /\ SameOne(Input(r), r)
<1>1. /\ r \in Connections /\ Data(r) /\ Guarded(r) /\ r.sent \in Nat /\ MaxSent \in Nat
      /\ r.unsent \in Seq(Nat) /\ r.got \in Seq(Nat) /\ MaxUnsent \in Nat
  BY DEF Kept, Connections, Configured
<1>2. PICK n \in Nat : n = r.sent + 1 /\ n <= MaxSent /\ n # 0
  BY <1>1
<1>3. CASE r.state # "READY" \/ r.client = Nobody
  <2> DEFINE u == IF Len(r.unsent) >= MaxUnsent THEN r.unsent ELSE Append(r.unsent, n)
             q == [r EXCEPT !.sent = n, !.unsent = u]
  <2>1. Input(r) = q
    BY <1>2, <1>3 DEF Input
  <2>2. u \in Seq(Nat) /\ Len(u) <= MaxUnsent
    <3>1. Len(r.unsent) <= MaxUnsent /\ Len(r.unsent) \in Nat
      BY <1>1 DEF Data
    <3> QED
      BY <1>1, <1>2, <3>1
  <2>3. r.client = Nobody => Beginning(u, n)
    BY <1>1, <1>2, BeginningGrows DEF Data
  <2> HIDE DEF u
  <2>4. /\ q \in Connections /\ SameOne(q, r) /\ q.sent = n /\ q.unsent = u
        /\ q.state = r.state /\ q.client = r.client /\ q.got = r.got
        /\ q.connTimer = r.connTimer /\ q.bindTimer = r.bindTimer
    BY <1>1, <2>2 DEF Connections, SameOne
  <2> HIDE DEF q
  <2>5. r.state # "READY"
    BY <1>1, <1>3 DEF Data
  <2>6. Data(q)
    BY <1>1, <1>2, <2>2, <2>3, <2>4, <2>5 DEF Data
  <2>7. Guarded(q)
    BY <1>1, <2>4 DEF Guarded, SameOne
  <2> QED
    BY <2>1, <2>4, <2>6, <2>7 DEF Kept
<1>4. CASE r.state = "READY" /\ r.client # Nobody
  <2> DEFINE g == Append(r.got, n)
             q == [r EXCEPT !.sent = n, !.got = g]
  <2>1. Input(r) = q
    BY <1>2, <1>4 DEF Input
  <2>2. g \in Seq(Nat)
    BY <1>1
  <2>3. ~r.bindTimer => InOrder(g, n)
    BY <1>1, <1>2, <1>4, InOrderGrows DEF Data
  <2> HIDE DEF g
  <2>4. /\ q \in Connections /\ SameOne(q, r) /\ q.sent = n /\ q.unsent = r.unsent
        /\ q.state = r.state /\ q.client = r.client /\ q.got = g
        /\ q.connTimer = r.connTimer /\ q.bindTimer = r.bindTimer
    BY <1>1, <2>2 DEF Connections, SameOne
  <2> HIDE DEF q
  <2>5. Data(q)
    BY <1>1, <1>2, <1>4, <2>3, <2>4 DEF Data
  <2>6. Guarded(q)
    BY <1>1, <2>4 DEF Guarded, SameOne
  <2> QED
    BY <2>1, <2>4, <2>5, <2>6 DEF Kept
<1> QED
  BY <1>3, <1>4

\* What Bind makes of a connection: the client is kept, and gets what waited.
BoundTo(r, user, registered) ==
    LET q == [r EXCEPT !.state = "READY", !.client = user]
    IN  IF ~registered THEN q
        ELSE [q EXCEPT !.bindTimer = FALSE, !.unsent = <<>>, !.got = @ \o q.unsent]

LEMMA BindKeeps ==
    ASSUME Configured, NEW r, Kept(r), NEW user \in Users, NEW registered \in BOOLEAN,
           r.state # "READY", r.client = Nobody, User[r.owner] = user
    PROVE  Kept(BoundTo(r, user, registered)) /\ SameOne(BoundTo(r, user, registered), r)
<1>1. /\ r \in Connections /\ Data(r) /\ Guarded(r) /\ r.sent \in Nat /\ MaxSent \in Nat
      /\ r.unsent \in Seq(Nat) /\ r.got = <<>> /\ MaxUnsent \in Nat
      /\ Beginning(r.unsent, r.sent) /\ user # Nobody /\ r.owner \in Sessions
  BY DEF Kept, Connections, Configured, Data
<1>2. InOrder(r.unsent, r.sent)
  BY <1>1, BeginningOrdered
<1> DEFINE q == BoundTo(r, user, registered)
<1>3. /\ q.owner = r.owner /\ q.peer = r.peer /\ q.id = r.id
      /\ q.state = "READY" /\ q.client = user
      /\ q.connTimer = r.connTimer /\ q.sent = r.sent
      /\ q.bindTimer = (r.bindTimer /\ ~registered)
      /\ q.unsent = IF registered THEN <<>> ELSE r.unsent
      /\ q.got = IF registered THEN r.unsent ELSE <<>>
      /\ q \in Connections
  <2>1. r.got \o r.unsent = r.unsent
    BY <1>1
  <2>2. CASE registered
    BY <1>1, <2>1, <2>2 DEF BoundTo, Connections, States
  <2>3. CASE ~registered
    BY <1>1, <2>3 DEF BoundTo, Connections, States
  <2> QED
    BY <2>2, <2>3
<1> HIDE DEF q
<1>4. Guarded(q)
  BY <1>1, <1>3 DEF Guarded
<1>5. ~registered /\ ~r.bindTimer => r.sent = 0 /\ r.unsent = <<>>
  BY <1>1 DEF Data, Guarded, Connections, States
<1>6. Len(<<>>) = 0 /\ InOrder(<<>>, 0)
  <2>1. Limited(0) = 0
    BY LimitedIs
  <2> QED
    BY <2>1 DEF InOrder
<1>7. Data(q)
  <2>1. Len(q.unsent) <= MaxUnsent /\ q.sent <= MaxSent
    BY <1>1, <1>3, <1>6 DEF Data
  <2>2. q.connTimer \/ q.state = "UNKNOWN" => q.sent = 0
    BY <1>1, <1>3 DEF Data
  <2>3. q.sent = 0 => q.unsent = <<>> /\ q.got = <<>>
    BY <1>1, <1>3 DEF Data
  <2>4. ~q.bindTimer => q.unsent = <<>> /\ InOrder(q.got, q.sent)
    BY <1>1, <1>2, <1>3, <1>5, <1>6
  <2> QED
    BY <1>1, <1>3, <2>1, <2>2, <2>3, <2>4 DEF Data
<1> QED
  BY <1>3, <1>4, <1>7 DEF Kept, SameOne, q

-----------------------------------------------------------------------------
(***************************************************************************)
(* What a step does to the lists and the maps.                             *)
(***************************************************************************)
Dropped(g, f, K) == DOMAIN g = DOMAIN f \ K /\ \A x \in DOMAIN f \ K : g[x] = f[x]
Extended(g, f, x, y) ==
    /\ DOMAIN g = DOMAIN f \cup {x} /\ g[x] = y
    /\ \A z \in DOMAIN f : z # x => g[z] = f[z]

LEMMA DropIs ==
    ASSUME NEW f, NEW K
    PROVE  Dropped(Drop(f, K), f, K)
  BY DEF Drop, Restrict, Dropped

LEMMA WithIs ==
    ASSUME NEW f, NEW x, NEW y
    PROVE  Extended(With(f, x, y), f, x, y)
  BY DEF With, Extended

LEMMA ListFacts ==
    ASSUME Shape, NEW s \in Sessions
    PROVE  /\ tcs[s] \in Seq(Cells \cup {NULL}) /\ DOMAIN tcs[s] = 1..Len(tcs[s])
           /\ Len(tcs[s]) \in Nat /\ \A i \in DOMAIN tcs[s] : tcs[s][i] \in Cells \cup {NULL}
<1>1. tcs[s] \in Seq(Cells \cup {NULL})
  BY DEF Shape
<1> QED
  BY <1>1

\* The record of one connection changes, and numbers may leave the map.
LEMMA RecordStep ==
    ASSUME TcpInv, NEW c \in DOMAIN conn, NEW q, Kept(q), SameOne(q, conn[c]),
           conn' = [conn EXCEPT ![c] = q],
           DOMAIN map' \subseteq DOMAIN map, \A id \in DOMAIN map' : map'[id] = map[id],
           UNCHANGED <<tcs, alive, wild>>
    PROVE  TcpInv'
<1>1. /\ DOMAIN conn' = DOMAIN conn /\ conn'[c] = q
      /\ \A d \in DOMAIN conn : d # c => conn'[d] = conn[d]
  OBVIOUS
<1>2. \A d \in DOMAIN conn : SameOne(conn'[d], conn[d])
  BY <1>1 DEF SameOne
<1>3. \A d \in DOMAIN conn' : conn'[d] \in Connections /\ Data(conn'[d]) /\ Guarded(conn'[d])
  BY <1>1 DEF TcpInv, Shape, Kept
<1>4. Shape'
  BY <1>1, <1>3 DEF TcpInv, Shape
<1>5. MapNeverDangles'
  BY <1>1, <1>2 DEF TcpInv, MapNeverDangles, SameOne
<1>6. ListsOwn' /\ PeersApart'
  BY <1>1, <1>2 DEF TcpInv, ListsOwn, PeersApart, SameOne
<1>7. ~wild' => Listed'
  BY <1>1, <1>2 DEF TcpInv, Listed, SameOne
<1> QED
  BY <1>3, <1>4, <1>5, <1>6, <1>7 DEF TcpInv

LEMMA DeleteStep ==
    ASSUME Configured, TcpInv, NEW c \in DOMAIN conn, Delete(c)
    PROVE  TcpInv'
<1> DEFINE s == conn[c].owner
           a == tcs[s]
           b == Without(a, c)
<1>1. s \in Sessions /\ c \in Cells /\ c # NULL
  BY DEF TcpInv, Shape, Connections, Configured
<1>2. /\ a \in Seq(Cells \cup {NULL}) /\ DOMAIN a = 1..Len(a)
  BY <1>1, ListFacts DEF TcpInv
<1>3. /\ tcs' = [tcs EXCEPT ![s] = b] /\ conn' = Drop(conn, {c})
      /\ map' = Drop(map, {conn[c].id}) /\ alive' = alive /\ wild' = wild
  BY DEF Delete
<1>4. /\ b \in Seq(Cells \cup {NULL}) /\ DOMAIN b = 1..Len(a)
      /\ \A i \in 1..Len(a) : b[i] = IF a[i] = c THEN NULL ELSE a[i]
  BY <1>2, TakenOut DEF Without
<1>5. /\ DOMAIN conn' = DOMAIN conn \ {c} /\ \A d \in DOMAIN conn \ {c} : conn'[d] = conn[d]
      /\ DOMAIN map' = DOMAIN map \ {conn[c].id}
      /\ \A id \in DOMAIN map' : map'[id] = map[id]
  <2>1. Dropped(conn', conn, {c}) /\ Dropped(map', map, {conn[c].id})
    BY <1>3, DropIs, Zenon
  <2> QED
    BY <2>1 DEF Dropped
<1> HIDE DEF b
<1>6. /\ tcs' \in [Sessions -> Seq(Cells \cup {NULL})] /\ tcs'[s] = b
      /\ \A u \in Sessions : u # s => tcs'[u] = tcs[u]
  BY <1>1, <1>3, <1>4 DEF TcpInv, Shape
<1>7. Shape'
  BY <1>3, <1>5, <1>6 DEF TcpInv, Shape
<1>8. MapNeverDangles'
  BY <1>5 DEF TcpInv, MapNeverDangles
<1>9. \A u \in Sessions : \A i \in DOMAIN tcs'[u] :
          i \in DOMAIN tcs[u] /\ (tcs'[u][i] # NULL => tcs'[u][i] = tcs[u][i] /\ tcs[u][i] # c)
  <2> SUFFICES ASSUME NEW u \in Sessions, NEW i \in DOMAIN tcs'[u]
               PROVE  /\ i \in DOMAIN tcs[u]
                      /\ tcs'[u][i] # NULL => tcs'[u][i] = tcs[u][i] /\ tcs[u][i] # c
    OBVIOUS
  <2>1. CASE u = s
    BY <1>2, <1>4, <1>6, <2>1
  <2>2. CASE u # s
    BY <1>1, <1>6, <2>2 DEF TcpInv, ListsOwn
  <2> QED
    BY <2>1, <2>2
<1>10. ListsOwn'
  BY <1>5, <1>9 DEF TcpInv, ListsOwn
<1>11. PeersApart'
  <2> SUFFICES ASSUME NEW u \in Sessions, NEW i \in DOMAIN tcs'[u], NEW j \in DOMAIN tcs'[u],
                      tcs'[u][i] # NULL, tcs'[u][j] # NULL,
                      conn'[tcs'[u][i]].peer = conn'[tcs'[u][j]].peer
               PROVE  i = j
    BY DEF PeersApart
  <2>1. /\ i \in DOMAIN tcs[u] /\ tcs'[u][i] = tcs[u][i] /\ tcs[u][i] # c
        /\ j \in DOMAIN tcs[u] /\ tcs'[u][j] = tcs[u][j] /\ tcs[u][j] # c
    BY <1>9
  <2>2. tcs[u][i] \in DOMAIN conn \ {c} /\ tcs[u][j] \in DOMAIN conn \ {c}
    BY <2>1 DEF TcpInv, ListsOwn
  <2> QED
    BY <1>5, <2>1, <2>2 DEF TcpInv, PeersApart
<1>12. ~wild' => Listed'
  <2> SUFFICES ASSUME ~wild, NEW d \in DOMAIN conn \ {c}
               PROVE  \E i \in DOMAIN tcs'[conn[d].owner] : tcs'[conn[d].owner][i] = d
    BY <1>3, <1>5 DEF Listed
  <2>1. PICK i \in DOMAIN tcs[conn[d].owner] : tcs[conn[d].owner][i] = d
    BY DEF TcpInv, Listed
  <2>2. conn[d].owner \in Sessions
    BY DEF TcpInv, Shape, Connections
  <2> QED
    BY <1>2, <1>4, <1>6, <2>1, <2>2
<1>13. \A d \in DOMAIN conn' : Data(conn'[d]) /\ Guarded(conn'[d])
  BY <1>5 DEF TcpInv
<1> QED
  BY <1>7, <1>8, <1>10, <1>11, <1>12, <1>13 DEF TcpInv

LEMMA CreateStep ==
    ASSUME Configured, TcpInv, ~wild, NEW s \in Sessions, NEW p \in Peers, NEW c \in Cells,
           NEW id \in Ids, ~ByPeer(s, p),
           NEW state \in States \ {"READY"}, NEW ct \in BOOLEAN, NEW bt \in BOOLEAN,
           state # "UNKNOWN" => ct \/ bt,
           Create(s, p, c, id, state, ct, bt)
    PROVE  TcpInv'
<1> DEFINE a == tcs[s]
           b == InSlot(a, c)
           r == [owner |-> s, peer |-> p, id |-> id, state |-> state,
                 client |-> Nobody, connTimer |-> ct, bindTimer |-> bt,
                 unsent |-> <<>>, sent |-> 0, got |-> <<>>]
<1>1. /\ tcs' = [tcs EXCEPT ![s] = b] /\ conn' = With(conn, c, r) /\ map' = With(map, id, c)
      /\ alive' = alive /\ wild' = wild /\ c \notin DOMAIN conn /\ id \notin DOMAIN map
  BY DEF Create, Live, FreeIds
<1>2. Kept(r)
  <2>1. Limited(0) = 0
    BY LimitedIs
  <2>2. Beginning(<<>>, 0)
    BY <2>1 DEF Beginning
  <2>3. r \in Connections
    BY DEF Connections
  <2>4. Data(r)
    BY <2>2 DEF Data, Configured
  <2>5. Guarded(r)
    BY DEF Guarded, States
  <2> QED
    BY <2>3, <2>4, <2>5 DEF Kept
<1>3. r.owner = s /\ r.peer = p /\ r.id = id
  OBVIOUS
<1> HIDE DEF r
<1>4. /\ DOMAIN conn' = DOMAIN conn \cup {c} /\ conn'[c] = r
      /\ \A d \in DOMAIN conn : d # c => conn'[d] = conn[d]
      /\ DOMAIN map' = DOMAIN map \cup {id} /\ map'[id] = c
      /\ \A x \in DOMAIN map : x # id => map'[x] = map[x]
  <2>1. Extended(conn', conn, c, r) /\ Extended(map', map, id, c)
    BY <1>1, WithIs, Zenon
  <2> QED
    BY <2>1 DEF Extended
<1>5. /\ a \in Seq(Cells \cup {NULL}) /\ DOMAIN a = 1..Len(a) /\ c # NULL
  BY ListFacts DEF TcpInv, Configured
<1>6. PICK k \in Nat : PutIn(a, b, c, k)
  BY <1>5, SlotTaken
<1>7. /\ b \in Seq(Cells \cup {NULL}) /\ DOMAIN b = 1..Len(b) /\ k \in DOMAIN b /\ b[k] = c
      /\ k \in DOMAIN a => a[k] = NULL
      /\ \A j \in DOMAIN a : j \in DOMAIN b /\ (j # k => b[j] = a[j])
      /\ \A j \in DOMAIN b : j # k => j \in DOMAIN a
  BY <1>5, <1>6 DEF PutIn
<1> HIDE DEF b
<1>8. /\ tcs' \in [Sessions -> Seq(Cells \cup {NULL})] /\ tcs'[s] = b
      /\ \A u \in Sessions : u # s => tcs'[u] = tcs[u]
  BY <1>1, <1>7 DEF TcpInv, Shape
<1>9. \A d \in DOMAIN conn' : Kept(conn'[d])
  BY <1>1, <1>2, <1>4 DEF TcpInv, Shape, Kept
<1>10. Shape'
  BY <1>1, <1>4, <1>8, <1>9 DEF TcpInv, Shape, Kept
<1>11. MapNeverDangles'
  BY <1>1, <1>3, <1>4 DEF TcpInv, MapNeverDangles
<1>12. \A u \in Sessions : \A i \in DOMAIN tcs'[u] :
          tcs'[u][i] # NULL =>
              \/ u = s /\ i = k /\ tcs'[u][i] = c
              \/ /\ i \in DOMAIN tcs[u] /\ tcs'[u][i] = tcs[u][i]
                 /\ tcs[u][i] \in DOMAIN conn /\ tcs[u][i] # c /\ conn[tcs[u][i]].owner = u
  <2> SUFFICES ASSUME NEW u \in Sessions, NEW i \in DOMAIN tcs'[u], tcs'[u][i] # NULL
               PROVE  \/ u = s /\ i = k /\ tcs'[u][i] = c
                      \/ /\ i \in DOMAIN tcs[u] /\ tcs'[u][i] = tcs[u][i]
                         /\ tcs[u][i] \in DOMAIN conn /\ tcs[u][i] # c
                         /\ conn[tcs[u][i]].owner = u
    OBVIOUS
  <2>1. CASE u = s /\ i = k
    BY <1>7, <1>8, <2>1
  <2>2. CASE ~(u = s /\ i = k)
    <3>1. i \in DOMAIN tcs[u] /\ tcs'[u][i] = tcs[u][i]
      BY <1>7, <1>8, <2>2
    <3> QED
      BY <1>1, <3>1 DEF TcpInv, ListsOwn
  <2> QED
    BY <2>1, <2>2
<1>13. ListsOwn'
  BY <1>3, <1>4, <1>12 DEF ListsOwn
<1>14. PeersApart'
  <2> SUFFICES ASSUME NEW u \in Sessions, NEW i \in DOMAIN tcs'[u], NEW j \in DOMAIN tcs'[u],
                      tcs'[u][i] # NULL, tcs'[u][j] # NULL,
                      conn'[tcs'[u][i]].peer = conn'[tcs'[u][j]].peer
               PROVE  i = j
    BY DEF PeersApart
  <2> DEFINE Old(x) == /\ x \in DOMAIN tcs[u] /\ tcs'[u][x] = tcs[u][x]
                       /\ tcs[u][x] \in DOMAIN conn /\ tcs[u][x] # c
  <2>1. /\ (u = s /\ i = k /\ tcs'[u][i] = c) \/ Old(i)
        /\ (u = s /\ j = k /\ tcs'[u][j] = c) \/ Old(j)
    BY <1>12
  <2>2. ASSUME NEW x \in DOMAIN tcs[u], Old(x), u = s, tcs'[u][x] # NULL
        PROVE  conn'[tcs'[u][x]].peer # p
    BY <1>4, <2>2 DEF ByPeer
  <2>3. conn'[c].peer = p
    BY <1>3, <1>4
  <2>4. CASE Old(i) /\ Old(j)
    BY <1>4, <2>4 DEF TcpInv, PeersApart
  <2>5. CASE u = s /\ i = k /\ tcs'[u][i] = c /\ Old(j)
    BY <2>2, <2>3, <2>5
  <2>6. CASE u = s /\ j = k /\ tcs'[u][j] = c /\ Old(i)
    BY <2>2, <2>3, <2>6
  <2> QED
    BY <2>1, <2>4, <2>5, <2>6
<1>15. Listed'
  <2> SUFFICES ASSUME NEW d \in DOMAIN conn'
               PROVE  \E i \in DOMAIN tcs'[conn'[d].owner] : tcs'[conn'[d].owner][i] = d
    BY DEF Listed
  <2>1. CASE d = c
    BY <1>3, <1>4, <1>7, <1>8, <2>1
  <2>2. CASE d # c
    <3>1. d \in DOMAIN conn /\ conn'[d] = conn[d] /\ conn[d].owner \in Sessions
      BY <1>4, <2>2 DEF TcpInv, Shape, Connections
    <3>2. PICK i \in DOMAIN tcs[conn[d].owner] : tcs[conn[d].owner][i] = d
      BY <3>1 DEF TcpInv, Listed
    <3>3. d # NULL
      BY <3>1 DEF TcpInv, Shape, Configured
    <3> QED
      BY <1>7, <1>8, <3>1, <3>2, <3>3
  <2> QED
    BY <2>1, <2>2
<1> QED
  BY <1>9, <1>10, <1>11, <1>13, <1>14, <1>15 DEF TcpInv, Kept

LEMMA ClearStep ==
    ASSUME Configured, TcpInv, ~wild, NEW s \in Sessions, ClearAllocation(s)
    PROVE  TcpInv'
<1> DEFINE a == tcs[s]
           k == First(a)
           c == a[k]
<1>1. /\ a \in Seq(Cells \cup {NULL}) /\ DOMAIN a = 1..Len(a)
  BY ListFacts DEF TcpInv
<1>2. /\ tcs' = [tcs EXCEPT ![s] = <<>>] /\ alive' = alive \ {s}
      /\ IF k = 0 THEN UNCHANGED <<map, conn, wild>>
         ELSE /\ map' = Drop(map, {conn[c].id}) /\ conn' = Drop(conn, {c})
              /\ wild' = (\E i \in DOMAIN a : i # k /\ a[i] # NULL)
  BY DEF ClearAllocation, First
<1>3. \/ k = 0 /\ \A i \in DOMAIN a : a[i] = NULL
      \/ k # 0 /\ k \in DOMAIN a /\ a[k] # NULL
  BY <1>1, FirstIs
<1> HIDE DEF k
<1>4. k # 0 => c \in DOMAIN conn /\ conn[c].owner = s
  BY <1>3 DEF TcpInv, ListsOwn
<1>5. /\ tcs' \in [Sessions -> Seq(Cells \cup {NULL})] /\ tcs'[s] = <<>>
      /\ \A u \in Sessions : u # s => tcs'[u] = tcs[u]
  BY <1>2 DEF TcpInv, Shape
<1>6. wild' \in BOOLEAN
  BY <1>2 DEF TcpInv, Shape
<1>7. /\ DOMAIN conn' \subseteq DOMAIN conn /\ \A d \in DOMAIN conn' : conn'[d] = conn[d]
      /\ DOMAIN map' \subseteq DOMAIN map /\ \A id \in DOMAIN map' : map'[id] = map[id]
      /\ \A d \in DOMAIN conn : conn[d].owner # s => d \in DOMAIN conn'
      /\ \A id \in DOMAIN map' : map[id] \in DOMAIN conn'
  <2>1. CASE k = 0
    BY <1>2, <2>1 DEF TcpInv, MapNeverDangles
  <2>2. CASE k # 0
    <3>1. /\ DOMAIN conn' = DOMAIN conn \ {c} /\ \A d \in DOMAIN conn \ {c} : conn'[d] = conn[d]
          /\ DOMAIN map' = DOMAIN map \ {conn[c].id}
          /\ \A id \in DOMAIN map \ {conn[c].id} : map'[id] = map[id]
      <4>1. Dropped(conn', conn, {c}) /\ Dropped(map', map, {conn[c].id})
        BY <1>2, <2>2, DropIs, Zenon
      <4> QED
        BY <4>1 DEF Dropped
    <3> QED
      BY <1>4, <2>2, <3>1 DEF TcpInv, MapNeverDangles
  <2> QED
    BY <2>1, <2>2
<1>8. Shape'
  BY <1>2, <1>5, <1>6, <1>7 DEF TcpInv, Shape
<1>9. MapNeverDangles'
  BY <1>7 DEF TcpInv, MapNeverDangles
<1>10. ListsOwn'
  BY <1>5, <1>7 DEF TcpInv, ListsOwn
<1>11. PeersApart'
  <2> SUFFICES ASSUME NEW u \in Sessions, NEW i \in DOMAIN tcs'[u], NEW j \in DOMAIN tcs'[u],
                      tcs'[u][i] # NULL, tcs'[u][j] # NULL,
                      conn'[tcs'[u][i]].peer = conn'[tcs'[u][j]].peer
               PROVE  i = j
    BY DEF PeersApart
  <2>1. u # s /\ tcs'[u] = tcs[u]
    BY <1>5
  <2>2. tcs[u][i] \in DOMAIN conn' /\ tcs[u][j] \in DOMAIN conn'
    BY <1>7, <2>1 DEF TcpInv, ListsOwn
  <2> QED
    BY <1>7, <2>1, <2>2 DEF TcpInv, PeersApart
<1>12. ~wild' => Listed'
  <2> SUFFICES ASSUME ~wild', NEW d \in DOMAIN conn'
               PROVE  \E i \in DOMAIN tcs'[conn'[d].owner] : tcs'[conn'[d].owner][i] = d
    BY DEF Listed
  <2>1. d \in DOMAIN conn /\ conn'[d] = conn[d] /\ conn[d].owner \in Sessions /\ d # NULL
    BY <1>7 DEF TcpInv, Shape, Connections, Configured
  <2>2. PICK i \in DOMAIN tcs[conn[d].owner] : tcs[conn[d].owner][i] = d
    BY <2>1 DEF TcpInv, Listed
  <2>3. conn[d].owner # s
    <3> SUFFICES ASSUME conn[d].owner = s
                 PROVE  FALSE
      OBVIOUS
    <3>1. k # 0 /\ i # k
      <4>1. k # 0
        BY <1>3, <2>1, <2>2
      <4>2. d # c
        <5>1. Dropped(conn', conn, {c})
          BY <1>2, <4>1, DropIs, Zenon
        <5> QED
          BY <2>1, <5>1 DEF Dropped
      <4> QED
        BY <2>2, <4>1, <4>2
    <3> QED
      BY <1>2, <2>1, <2>2, <3>1
  <2> QED
    BY <1>5, <2>1, <2>2, <2>3
<1>13. \A d \in DOMAIN conn' : Data(conn'[d]) /\ Guarded(conn'[d])
  BY <1>7 DEF TcpInv
<1> QED
  BY <1>8, <1>9, <1>10, <1>11, <1>12, <1>13 DEF TcpInv

-----------------------------------------------------------------------------
(***************************************************************************)
(* The invariant.                                                          *)
(***************************************************************************)
LEMMA InvInit ==
    ASSUME Init
    PROVE  TcpInv
<1>1. tcs = [s \in Sessions |-> <<>>] /\ DOMAIN map = {} /\ DOMAIN conn = {}
      /\ alive = Sessions /\ wild = FALSE
  BY DEF Init, Empty
<1>2. Shape
  <2>1. <<>> \in Seq(Cells \cup {NULL})
    OBVIOUS
  <2>2. tcs \in [Sessions -> Seq(Cells \cup {NULL})]
    BY <1>1, <2>1
  <2> QED
    BY <1>1, <2>2 DEF Shape
<1>3. MapNeverDangles /\ Listed
  BY <1>1 DEF MapNeverDangles, Listed
<1>4. ListsOwn /\ PeersApart
  BY <1>1 DEF ListsOwn, PeersApart
<1> QED
  BY <1>1, <1>2, <1>3, <1>4 DEF TcpInv

LEMMA CompletedKeeps ==
    ASSUME NEW r, Kept(r), r.connTimer,
           NEW q, q = [r EXCEPT !.state = "PEER_CONNECTED", !.connTimer = FALSE, !.bindTimer = TRUE]
    PROVE  Kept(q) /\ SameOne(q, r)
<1>1. r \in Connections /\ Data(r) /\ Guarded(r)
  BY DEF Kept
<1>2. /\ q \in Connections /\ SameOne(q, r) /\ q.sent = r.sent /\ q.unsent = r.unsent
      /\ q.state = "PEER_CONNECTED" /\ q.client = r.client /\ q.got = r.got
      /\ q.connTimer = FALSE /\ q.bindTimer = TRUE
  BY <1>1 DEF Connections, States, SameOne
<1>3. Data(q)
  BY <1>1, <1>2 DEF Data
<1>4. Guarded(q)
  BY <1>1, <1>2 DEF Guarded, SameOne
<1> QED
  BY <1>2, <1>3, <1>4 DEF Kept

LEMMA CompletedStep ==
    ASSUME Configured, TcpInv, NEW c \in Cells, NEW success \in BOOLEAN, Completed(c, success)
    PROVE  TcpInv'
<1>1. c \in DOMAIN conn /\ conn[c].connTimer
  BY DEF Completed, Live
<1>2. CASE success
  <2> DEFINE r == conn[c]
             q == [r EXCEPT !.state = "PEER_CONNECTED", !.connTimer = FALSE, !.bindTimer = TRUE]
  <2>1. /\ conn' = [conn EXCEPT ![c].state = "PEER_CONNECTED",
                                ![c].connTimer = FALSE, ![c].bindTimer = TRUE]
        /\ UNCHANGED <<tcs, map, alive, wild>>
    BY <1>2 DEF Completed
  <2>2. r \in Connections /\ Kept(r)
    BY <1>1 DEF TcpInv, Shape, Kept
  <2>3. conn' = [conn EXCEPT ![c] = q]
    BY <1>1, <2>1, <2>2 DEF Connections
  <2>4. Kept(q) /\ SameOne(q, r)
    BY <1>1, <2>2, CompletedKeeps
  <2> HIDE DEF q
  <2>5. DOMAIN map' \subseteq DOMAIN map /\ \A id \in DOMAIN map' : map'[id] = map[id]
    BY <2>1
  <2> QED
    BY <1>1, <2>1, <2>3, <2>4, <2>5, RecordStep
<1>3. CASE ~success
  BY <1>1, <1>3, DeleteStep DEF Completed
<1> QED
  BY <1>2, <1>3

LEMMA PeerInputStep ==
    ASSUME Configured, TcpInv, NEW c \in Cells, PeerInput(c)
    PROVE  TcpInv'
<1>1. /\ c \in DOMAIN conn /\ ~conn[c].connTimer /\ conn[c].state # "UNKNOWN"
      /\ conn[c].sent < MaxSent /\ conn' = [conn EXCEPT ![c] = Input(conn[c])]
      /\ UNCHANGED <<tcs, map, alive, wild>>
  BY DEF PeerInput, Live
<1>2. Kept(conn[c])
  BY <1>1 DEF TcpInv, Shape, Kept
<1>3. Kept(Input(conn[c])) /\ SameOne(Input(conn[c]), conn[c])
  BY <1>1, <1>2, InputKeeps
<1>4. DOMAIN map' \subseteq DOMAIN map /\ \A id \in DOMAIN map' : map'[id] = map[id]
  BY <1>1
<1> QED
  BY <1>1, <1>3, <1>4, RecordStep

LEMMA BindStep ==
    ASSUME Configured, TcpInv, NEW id \in Ids, NEW user \in Users, NEW registered \in BOOLEAN,
           Bind(id, user, registered)
    PROVE  TcpInv'
<1> DEFINE c == map[id]
           r == conn[c]
           q == IF ~MayBind(c, user) THEN r ELSE BoundTo(r, user, registered)
<1>1. /\ id \in DOMAIN map /\ map' = Drop(map, {id}) /\ conn' = [conn EXCEPT ![c] = q]
      /\ UNCHANGED <<tcs, alive, wild>>
  BY DEF Bind, BoundTo
<1>2. c \in DOMAIN conn /\ Kept(r)
  BY <1>1 DEF TcpInv, Shape, Kept, MapNeverDangles
<1>3. Kept(q) /\ SameOne(q, r)
  <2>1. CASE MayBind(c, user)
    BY <1>2, <2>1, BindKeeps DEF MayBind
  <2>2. CASE ~MayBind(c, user)
    BY <1>2, <2>2 DEF SameOne
  <2> QED
    BY <2>1, <2>2
<1>4. DOMAIN map' \subseteq DOMAIN map /\ \A x \in DOMAIN map' : map'[x] = map[x]
  <2>1. Dropped(map', map, {id})
    BY <1>1, DropIs, Zenon
  <2> QED
    BY <2>1 DEF Dropped
<1> HIDE DEF q
<1> QED
  BY <1>1, <1>2, <1>3, <1>4, RecordStep

LEMMA InvStep ==
    ASSUME Configured, TcpInv, [Next]_vars
    PROVE  TcpInv'
<1>1. ASSUME ~wild, NEW s \in Sessions, NEW p \in Peers, NEW c \in Cells, NEW id \in Ids,
             Connect(s, p, c, id)
      PROVE  TcpInv'
  <2>1. ~ByPeer(s, p) /\ Create(s, p, c, id, "CLIENT_TO_PEER_CONNECTING", TRUE, FALSE)
    BY <1>1 DEF Connect
  <2>2. "CLIENT_TO_PEER_CONNECTING" \in States \ {"READY"}
    BY DEF States
  <2> QED
    BY <1>1, <2>1, <2>2, CreateStep
<1>2. ASSUME ~wild, NEW s \in Sessions, NEW p \in Peers, NEW c \in Cells, NEW id \in Ids,
             NEW registered \in BOOLEAN, PeerAccept(s, p, c, id, registered)
      PROVE  TcpInv'
  <2>1. ~ByPeer(s, p)
    BY <1>2 DEF PeerAccept
  <2>2. \/ Create(s, p, c, id, "PEER_CONNECTED", FALSE, TRUE)
        \/ Create(s, p, c, id, "UNKNOWN", FALSE, FALSE)
    BY <1>2 DEF PeerAccept
  <2>3. "PEER_CONNECTED" \in States \ {"READY"} /\ "UNKNOWN" \in States \ {"READY"}
    BY DEF States
  <2>4. CASE Create(s, p, c, id, "PEER_CONNECTED", FALSE, TRUE)
    BY <1>2, <2>1, <2>3, <2>4, CreateStep
  <2>5. CASE Create(s, p, c, id, "UNKNOWN", FALSE, FALSE)
    BY <1>2, <2>1, <2>3, <2>5, CreateStep
  <2> QED
    BY <2>2, <2>4, <2>5
<1>3. ASSUME ~wild, NEW s \in Sessions, ClearAllocation(s)
      PROVE  TcpInv'
  BY <1>3, ClearStep
<1>4. ASSUME NEW c \in Cells, ConnTimeout(c) \/ BindTimeout(c) \/ SocketClosed(c)
      PROVE  TcpInv'
  BY <1>4, DeleteStep DEF ConnTimeout, BindTimeout, SocketClosed, Live
<1>5. ASSUME NEW c \in Cells, PeerInput(c)
      PROVE  TcpInv'
  BY <1>5, PeerInputStep
<1>6. ASSUME NEW c \in Cells, NEW success \in BOOLEAN, Completed(c, success)
      PROVE  TcpInv'
  BY <1>6, CompletedStep
<1>7. ASSUME NEW id \in Ids, NEW user \in Users, NEW registered \in BOOLEAN,
             Bind(id, user, registered)
      PROVE  TcpInv'
  BY <1>7, BindStep
<1>8. ASSUME UNCHANGED vars
      PROVE  TcpInv'
  BY <1>8 DEF vars, TcpInv, Shape, MapNeverDangles, ListsOwn, PeersApart, Listed
<1> QED
  BY <1>1, <1>2, <1>3, <1>4, <1>5, <1>6, <1>7, <1>8 DEF Next, Users

-----------------------------------------------------------------------------
(***************************************************************************)
(* The theorems.                                                           *)
(***************************************************************************)

\* Whatever clients ask, peers send, sockets do and timers end, in any order:
\* the numbers, the lists of the allocations, the timers and the data of the
\* connections agree.
THEOREM ConnectionsAgree ==
    ASSUME Configured
    PROVE  Spec => []TcpInv
<1>1. Init => TcpInv
  BY InvInit
<1>2. TcpInv /\ [Next]_vars => TcpInv'
  BY InvStep
<1> QED
  BY <1>1, <1>2, PTL DEF Spec

\* The tables of connections have their types, and what is kept of a peer's data
\* for a client is never more than MAX_UNSENT_BUFFER_SIZE.
THEOREM TypeCorrect ==
    ASSUME Configured
    PROVE  Spec => []TypeOK
<1>1. TcpInv => TypeOK
  <2> SUFFICES ASSUME TcpInv, NEW c \in DOMAIN conn
               PROVE  /\ conn[c].state \in States
                      /\ conn[c].sent \in 0..MaxSent /\ Len(conn[c].unsent) <= MaxUnsent
    BY DEF TcpInv, Shape, TypeOK, States
  <2>1. conn[c] \in Connections /\ Data(conn[c])
    BY DEF TcpInv, Shape
  <2>2. conn[c].sent \in Nat /\ conn[c].state \in States /\ MaxSent \in Nat
    BY <2>1 DEF Connections, Configured
  <2> QED
    BY <2>1, <2>2 DEF Data
<1> QED
  BY <1>1, ConnectionsAgree, PTL

\* A number that a client may still bind never stands for a connection that was
\* freed, or that has another number (server->tcp_relay_connections).
THEOREM NumbersHold ==
    ASSUME Configured
    PROVE  Spec => []MapNeverDangles
<1>1. TcpInv => MapNeverDangles
  BY DEF TcpInv
<1> QED
  BY <1>1, ConnectionsAgree, PTL

\* Until a connection outlives its allocation, an allocation has one connection for
\* a peer, whichever of them opened it, and lists each of its connections once
\* (allocation.tcs).
THEOREM OneForAPeer ==
    ASSUME Configured
    PROVE  Spec => []OnePerPeer
<1>1. TcpInv => OnePerPeer
  <2> SUFFICES ASSUME TcpInv, ~wild, NEW c \in DOMAIN conn
               PROVE  LET mine == tcs[conn[c].owner]
                      IN  /\ Cardinality({i \in DOMAIN mine : mine[i] = c}) = 1
                          /\ \A i \in DOMAIN mine :
                                mine[i] \notin {c, NULL} => conn[mine[i]].peer # conn[c].peer
    BY DEF OnePerPeer
  <2> DEFINE s == conn[c].owner
             mine == tcs[s]
  <2>1. s \in Sessions /\ c # NULL
    BY DEF TcpInv, Shape, Connections, Configured
  <2>2. PICK k \in DOMAIN mine : mine[k] = c
    BY DEF TcpInv, Listed
  <2>3. \A i \in DOMAIN mine : mine[i] # NULL /\ conn[mine[i]].peer = conn[c].peer => i = k
    BY <2>1, <2>2 DEF TcpInv, PeersApart
  <2>4. {i \in DOMAIN mine : mine[i] = c} = {k}
    BY <2>1, <2>2, <2>3
  <2>5. Cardinality({k}) = 1
    BY FS_Singleton
  <2>6. \A i \in DOMAIN mine : mine[i] \notin {c, NULL} => conn[mine[i]].peer # conn[c].peer
    BY <2>2, <2>3
  <2> QED
    BY <2>4, <2>5, <2>6
<1> QED
  BY <1>1, ConnectionsAgree, PTL

\* What a client that has bound a connection gets of its peer is in the peer's order,
\* and nothing is missing of what could be kept until it had bound it.
THEOREM StreamsKept ==
    ASSUME Configured
    PROVE  Spec => []StreamKept
<1>1. TcpInv => StreamKept
  <2> SUFFICES ASSUME TcpInv, NEW c \in DOMAIN conn, conn[c].state = "READY", ~conn[c].bindTimer
               PROVE  LET all == conn[c].got \o conn[c].unsent
                          kept == IF conn[c].sent < MaxUnsent THEN conn[c].sent ELSE MaxUnsent
                      IN  /\ \A i \in 1..(Len(all) - 1) : all[i] < all[i + 1]
                          /\ \A n \in 1..kept : n <= Len(all) /\ all[n] = n
    BY DEF StreamKept
  <2> DEFINE g == conn[c].got
             kept == Limited(conn[c].sent)
  <2>1. conn[c] \in Connections /\ Data(conn[c])
    BY DEF TcpInv, Shape
  <2>2. g \in Seq(Nat) /\ conn[c].sent \in Nat /\ conn[c].unsent = <<>>
        /\ InOrder(g, conn[c].sent)
    BY <2>1 DEF Connections, Data
  <2>3. g \o conn[c].unsent = g
    BY <2>2
  <2>4. kept \in Nat
    BY <2>2, LimitedIs
  <2>5. /\ \A i \in 1..(Len(g) - 1) : g[i] < g[i + 1]
        /\ \A n \in 1..kept : g[n] = n
        /\ kept <= Len(g) /\ Len(g) \in Nat
    BY <2>2 DEF InOrder
  <2> HIDE DEF g, kept
  <2>6. \A n \in 1..kept : n <= Len(g) /\ g[n] = n
    BY <2>4, <2>5
  <2> QED
    BY <2>3, <2>5, <2>6 DEF g, kept, Limited
<1> QED
  BY <1>1, ConnectionsAgree, PTL

\* A connection that no client has bound is ended by a timer, unless its callback
\* could not be registered.
THEOREM WaitingIsTimed ==
    ASSUME Configured
    PROVE  Spec => []WaitingEnds
<1>1. TcpInv => WaitingEnds
  BY DEF TcpInv, Guarded, WaitingEnds
<1> QED
  BY <1>1, ConnectionsAgree, PTL

\* Only a client of the user who has the allocation gets the data of its peers.
THEOREM OnlyItsUser ==
    ASSUME Configured
    PROVE  Spec => []BoundByItsUser
<1>1. TcpInv => BoundByItsUser
  BY DEF TcpInv, Guarded, BoundByItsUser
<1> QED
  BY <1>1, ConnectionsAgree, PTL
=============================================================================
