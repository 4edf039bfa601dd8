----------------------------- MODULE KcpProofs -----------------------------
(***************************************************************************)
(* Theorems about Kcp, for windows, messages and sequence numbers of any   *)
(* size, and any number of fragments both ways: what was sent arrives      *)
(* whole and in order although its numbers come again and again, and Kcp   *)
(* implements KcpStream.                                                   *)
(***************************************************************************)
EXTENDS Kcp, FiniteSetTheorems, SequenceTheorems, WellFoundedInduction, TLAPS

(***************************************************************************)
(* The inductive invariant.  It speaks of the places of fragments in their *)
(* stream, which never come again; a sequence number is the remainder of   *)
(* such a place.                                                           *)
(***************************************************************************)
SnOf(d) == (d - 1) % SnModulus

\* How far the sender of the stream s has given numbers, and how far it knows
\* everything to have arrived; how far a receiver that gave g has received.
Nxt(k, s) == Len(s) - Len(k.snd_queue)
Una(k, s) == IF k.snd_buf = << >> THEN Nxt(k, s) ELSE k.snd_buf[1].data - 1
Pos(k, g) == Len(g) + Len(k.rcv_queue)

\* Fragment d of the stream s has f more behind it in its message.
FrgOf(s, d, f) ==
    /\ f < MaxFrag /\ d + f <= Len(s) /\ s[d + f].end
    /\ \A j \in d .. d + f - 1 : ~s[j].end

\* A segment of the stream s that bears the number of its place.
OfStream(s, seg) == seg.sn = SnOf(seg.data) /\ FrgOf(s, seg.data, seg.frg)

\* The places in q are in order, with room for the ones between.
Ascending(q) ==
    \A i, j \in DOMAIN q : i < j => q[j].data - q[i].data >= j - i

SenderInv(k, s) ==
    /\ Nxt(k, s) >= 0
    /\ \A i \in DOMAIN s : s[i].data = i
    /\ \A i \in DOMAIN k.snd_queue :
        /\ k.snd_queue[i].data = Nxt(k, s) + i
        /\ FrgOf(s, k.snd_queue[i].data, k.snd_queue[i].frg)
    /\ \A i \in DOMAIN k.snd_buf :
        k.snd_buf[i].data \in 1..Nxt(k, s) /\ OfStream(s, k.snd_buf[i])
    /\ Ascending(k.snd_buf)
    /\ k.snd_nxt = Nxt(k, s) % SnModulus
    /\ k.snd_una = Una(k, s) % SnModulus
    /\ Nxt(k, s) - Una(k, s) <= SndWnd

\* n is the number of fragments the sender of s has numbered.
ReceiverInv(k, g, s, n) ==
    /\ Pos(k, g) <= n
    /\ \A i \in DOMAIN g : g[i] = s[i]
    /\ \A i \in DOMAIN k.rcv_queue :
        /\ k.rcv_queue[i].data = Len(g) + i
        /\ FrgOf(s, k.rcv_queue[i].data, k.rcv_queue[i].frg)
    /\ Len(k.rcv_queue) <= RcvWnd
    /\ k.rcv_nxt = Pos(k, g) % SnModulus
    /\ \A i \in DOMAIN k.rcv_buf :
        /\ k.rcv_buf[i].data \in Pos(k, g) + 1 .. n
        /\ k.rcv_buf[i].data <= Pos(k, g) + RcvWnd
        /\ OfStream(s, k.rcv_buf[i])
    /\ Ascending(k.rcv_buf)

\* What a receiver holds of its peer's stream.
Holds(k, g) == 1..Pos(k, g) \cup DataOf(k.rcv_buf)

\* What the sender of s has numbered and knows to have arrived.
Done(k, s) == 1..Nxt(k, s) \ DataOf(k.snd_buf)

Ack(p) == p.seg.cmd = "ACK"
Push(p) == p.seg.cmd = "PUSH"

\* A conversation from an end with the object k, which was given the stream s,
\* to one with r, which returned g: to and from are the packets under way to
\* the receiver and to the sender.  First the data, and the packets with it.
Arrived(k, s, r, g) == Done(k, s) \subseteq Holds(r, g)
Pushed(k, s, to) ==
    \A p \in to : Push(p) => p.seg.data \in 1..Nxt(k, s) /\ OfStream(s, p.seg)

\* The packets to the sender say what its peer has received, lately enough that
\* an acknowledged number stands for the place it was sent for.
Told(r, g, from) ==
    \A p \in from :
        /\ p.queued <= Pos(r, g) /\ p.seg.una = p.queued % SnModulus
        /\ Ack(p) => /\ p.seg.sn = SnOf(p.seg.data)
                     /\ p.seg.data \in Holds(r, g)
                     /\ p.queued < p.seg.data + 2 * SndWnd + MaxLag

\* What the receiver is going to acknowledge is not far behind anything that
\* the sender knows to have arrived, or will be told.
ToTell(k, s, r, g, from) ==
    \A a \in r.acklist :
        /\ a.sn = SnOf(a.data) /\ a.data \in Holds(r, g)
        /\ \A d \in Done(k, s) : d < a.data + SndWnd + MaxLag
        /\ \A p \in from :
            /\ p.queued < a.data + SndWnd + MaxLag
            /\ Ack(p) => p.seg.data < a.data + SndWnd + MaxLag

Conversation(k, s, r, g, to, from) ==
    /\ SenderInv(k, s)
    /\ ReceiverInv(r, g, s, Nxt(k, s))
    /\ Arrived(k, s, r, g) /\ Pushed(k, s, to)
    /\ Told(r, g, from) /\ ToTell(k, s, r, g, from)

StreamInv(e) ==
    Conversation(kcp[e], sent[e], kcp[Peer[e]], got[Peer[e]], net[Peer[e]], net[e])

KcpInv == TypeOK /\ \A e \in Ends : StreamInv(e)

-----------------------------------------------------------------------------
(***************************************************************************)
(* Numbers, and their remainders.                                          *)
(***************************************************************************)
HalfRange == SnModulus \div 2

LEMMA Halves ==
    /\ SnModulus \in Nat \ {0} /\ HalfRange \in Nat /\ SnModulus = 2 * HalfRange
    /\ SndWnd \in Nat \ {0} /\ RcvWnd \in Nat \ {0} /\ MaxLag \in Nat
    /\ MaxFrag \in Nat /\ MaxFrag <= RcvWnd /\ FastResend \in Nat /\ NoCwnd \in BOOLEAN
    /\ HalfRange >= SndWnd + RcvWnd + MaxLag
    /\ SnModulus >= 3 * SndWnd + RcvWnd + 2 * MaxLag
BY KcpAssumption DEF HalfRange

\* A remainder differs from its number by a multiple of the modulus.
LEMMA Remainder ==
    ASSUME NEW x \in Int
    PROVE  /\ x % SnModulus \in Sns
           /\ \E k \in Int : x % SnModulus = x - SnModulus * k
<1>1. SnModulus \in Nat \ {0}
  BY Halves
<1>2. /\ x \div SnModulus \in Int
      /\ x = SnModulus * (x \div SnModulus) + (x % SnModulus)
      /\ x % SnModulus \in 0..SnModulus - 1
  BY <1>1
<1>3. x % SnModulus = x - SnModulus * (x \div SnModulus)
  BY <1>1, <1>2
<1>4. x % SnModulus \in Sns
  BY <1>2 DEF Sns
<1> QED
  BY <1>2, <1>3, <1>4, Zenon

\* Two numbers less than one turn apart that agree up to whole turns are equal.
LEMMA OneTurn ==
    ASSUME NEW x \in Int, NEW y \in Int, NEW k \in Int, x - y = SnModulus * k,
           x - y < SnModulus, y - x < SnModulus
    PROVE  x = y
<1>1. SnModulus \in Nat \ {0}
  BY Halves
<1>2. k >= 1 => SnModulus * k >= SnModulus
  BY <1>1
<1>3. k <= -1 => SnModulus * k <= -SnModulus
  BY <1>1
<1> QED
  BY <1>1, <1>2, <1>3

LEMMA SameRemainder ==
    ASSUME NEW x \in Int, NEW y \in Int, x % SnModulus = y % SnModulus,
           x - y < SnModulus, y - x < SnModulus
    PROVE  x = y
<1>1. PICK k \in Int : x % SnModulus = x - SnModulus * k
  BY Remainder
<1>2. PICK l \in Int : y % SnModulus = y - SnModulus * l
  BY Remainder
<1>3. /\ SnModulus * k \in Int /\ SnModulus * l \in Int
      /\ SnModulus * (k - l) = SnModulus * k - SnModulus * l
  BY Halves
<1>4. x - y = SnModulus * (k - l) /\ k - l \in Int
  BY <1>1, <1>2, <1>3
<1> QED
  BY <1>4, OneTurn

\* A remainder is the remainder of any number it differs from by whole turns.
LEMMA RemainderIs ==
    ASSUME NEW x \in Int, NEW r \in Sns, NEW k \in Int, r = x - SnModulus * k
    PROVE  r = x % SnModulus
<1>1. PICK l \in Int : x % SnModulus = x - SnModulus * l
  BY Remainder
<1>2. x % SnModulus \in Sns
  BY Remainder
<1>3. /\ SnModulus * k \in Int /\ SnModulus * l \in Int
      /\ SnModulus * (l - k) = SnModulus * l - SnModulus * k /\ SnModulus \in Nat
  BY Halves
<1>4. r - (x % SnModulus) = SnModulus * (l - k) /\ l - k \in Int
  BY <1>1, <1>3
<1>5. r \in Int /\ x % SnModulus \in Int
      /\ r - (x % SnModulus) < SnModulus /\ (x % SnModulus) - r < SnModulus
  BY <1>2, <1>3 DEF Sns
<1> QED
  BY <1>4, <1>5, OneTurn

LEMMA AddRemainder ==
    ASSUME NEW x \in Int, NEW n \in Int
    PROVE  Add(x % SnModulus, n) = (x + n) % SnModulus
<1>1. PICK k \in Int : x % SnModulus = x - SnModulus * k
  BY Remainder
<1>2. PICK y \in Int : y = (x % SnModulus) + n
  BY Remainder DEF Sns
<1>3. PICK l \in Int : y % SnModulus = y - SnModulus * l
  BY Remainder
<1>4. /\ SnModulus * k \in Int /\ SnModulus * l \in Int
      /\ SnModulus * (k + l) = SnModulus * k + SnModulus * l
  BY Halves
<1>5. y % SnModulus = (x + n) - SnModulus * (k + l) /\ k + l \in Int /\ x + n \in Int
  BY <1>1, <1>2, <1>3, <1>4
<1>6. y % SnModulus \in Sns
  BY Remainder
<1>7. y % SnModulus = (x + n) % SnModulus
  BY <1>5, <1>6, RemainderIs
<1> QED
  BY <1>2, <1>7 DEF Add

\* The signed difference of two remainders is that of the numbers, while it
\* is in range.
LEMMA DiffExact ==
    ASSUME NEW x \in Int, NEW y \in Int,
           x - y < HalfRange, y - x <= HalfRange
    PROVE  Diff(x % SnModulus, y % SnModulus) = x - y
<1>1. PICK k \in Int : x % SnModulus = x - SnModulus * k
  BY Remainder
<1>2. PICK l \in Int : y % SnModulus = y - SnModulus * l
  BY Remainder
<1>3. PICK z \in Int : z = (x % SnModulus) - (y % SnModulus) + HalfRange
  <2>1. x % SnModulus \in Int /\ y % SnModulus \in Int
    BY Remainder DEF Sns
  <2>2. HalfRange \in Int
    BY Halves
  <2>3. \A a, b, c \in Int : \E z \in Int : z = a - b + c
    OBVIOUS
  <2> QED
    BY <2>1, <2>2, <2>3, Zenon
<1>4. /\ SnModulus * k \in Int /\ SnModulus * l \in Int
      /\ SnModulus * (k - l) = SnModulus * k - SnModulus * l
      /\ SnModulus * (l - k) = -(SnModulus * (k - l))
      /\ SnModulus \in Nat /\ SnModulus = 2 * HalfRange /\ HalfRange \in Nat
  BY Halves
<1>5. PICK w \in Int : w = x - y + HalfRange
  BY <1>4
<1>6. w \in Sns
  BY <1>4, <1>5 DEF Sns
<1>7. w = z - SnModulus * (l - k) /\ l - k \in Int
  BY <1>1, <1>2, <1>3, <1>4, <1>5
<1>8. w = z % SnModulus
  BY <1>6, <1>7, RemainderIs
<1>9. Diff(x % SnModulus, y % SnModulus) = (z % SnModulus) - HalfRange
  BY <1>3 DEF Diff, HalfRange
<1> QED
  BY <1>4, <1>5, <1>8, <1>9

\* A set of numbers with 0 and with the successor of each member is Nat.
LEMMA NatSet ==
    ASSUME NEW S \in SUBSET Nat, 0 \in S, \A n \in S : n + 1 \in S
    PROVE  S = Nat
<1> DEFINE Below == {0..n : n \in Nat \ S}
<1>1. SUFFICES ASSUME Below # {} PROVE FALSE
  OBVIOUS
<1>2. Below \subseteq FiniteSubsetsOf(Nat)
  <2>1. \A n \in Nat : IsFiniteSet(0..n) /\ 0..n \in SUBSET Nat
    BY FS_Interval
  <2> QED
    BY <2>1 DEF FiniteSubsetsOf
<1>3. IsWellFoundedOn(StrictSubsetOrdering(Nat), FiniteSubsetsOf(Nat))
  BY FS_StrictSubsetOrderingWellFounded, Zenon
<1>4. PICK b \in Below : \A c \in Below : <<c, b>> \notin StrictSubsetOrdering(Nat)
  BY <1>1, <1>2, <1>3, WFMin, Zenon
<1>5. PICK n \in Nat \ S : b = 0..n
  OBVIOUS
<1>6. n # 0 /\ n - 1 \in Nat /\ n - 1 \notin S
  OBVIOUS
<1>7. 0 .. n - 1 \in Below
  BY <1>6
<1>8. <<0 .. n - 1, 0..n>> \in StrictSubsetOrdering(Nat)
  <2>1. n \in 0..n /\ n \notin 0 .. n - 1 /\ 0 .. n - 1 \subseteq 0..n
    OBVIOUS
  <2>2. 0..n \in SUBSET Nat /\ 0 .. n - 1 \in SUBSET Nat
    OBVIOUS
  <2> QED
    BY <2>1, <2>2, Zenon DEF StrictSubsetOrdering
<1> QED
  BY <1>4, <1>5, <1>7, <1>8


-----------------------------------------------------------------------------
(***************************************************************************)
(* The greatest and the least of sets.                                     *)
(***************************************************************************)
LEMMA MaxIn ==
    ASSUME NEW n \in Nat, NEW S \in SUBSET (0..n), S # {}
    PROVE  Max(S) \in S /\ \A m \in S : m <= Max(S)
<1> DEFINE Bounded(i) == \A T \in SUBSET (0..i) : T # {} => \E x \in T : \A y \in T : x >= y
           N == {i \in Nat : Bounded(i)}
<1>1. 0 \in N
  <2>1. \A y \in 0..0 : y = 0 /\ y >= y
    OBVIOUS
  <2>2. \A T \in SUBSET (0..0) : \A x, y \in T : x >= y
    BY <2>1
  <2>3. Bounded(0)
    BY <2>2
  <2> QED
    BY <2>3
<1>2. ASSUME NEW i \in N
      PROVE  i + 1 \in N
  <2> SUFFICES ASSUME NEW T \in SUBSET (0 .. i + 1), T # {}
               PROVE  \E x \in T : \A y \in T : x >= y
    BY <1>2
  <2>1. CASE i + 1 \in T
    <3>1. \A y \in T : i + 1 >= y
      BY <1>2
    <3> QED
      BY <2>1, <3>1
  <2>2. CASE i + 1 \notin T
    <3>1. T \in SUBSET (0..i)
      BY <1>2, <2>2
    <3> QED
      BY <1>2, <3>1
  <2> QED
    BY <2>1, <2>2
<1>3. N = Nat
  <2> HIDE DEF N
  <2>1. N \in SUBSET Nat
    BY DEF N
  <2> QED
    BY <1>1, <1>2, <2>1, NatSet
<1>4. \E x \in S : \A y \in S : x >= y
  BY <1>3
<1>5. Max(S) \in S /\ \A y \in S : Max(S) >= y
  BY <1>4 DEF Max
<1> QED
  BY <1>5

LEMMA MinIn ==
    ASSUME NEW S \in SUBSET Nat, S # {}
    PROVE  Min(S) \in S /\ \A m \in S : Min(S) <= m
<1> DEFINE N == {i \in Nat : \A j \in 0..i : j \in S => \E x \in S : \A y \in S : x <= y}
<1>1. 0 \in N
  BY SMT
<1>2. ASSUME NEW i \in N
      PROVE  i + 1 \in N
  <2> SUFFICES ASSUME NEW j \in 0 .. i + 1, j \in S
               PROVE  \E x \in S : \A y \in S : x <= y
    BY <1>2
  <2>1. CASE \E k \in 0..i : k \in S
    BY <1>2, <2>1
  <2>2. CASE \A k \in 0..i : k \notin S
    <3>1. j = i + 1 /\ \A y \in S : j <= y
      BY <1>2, <2>2
    <3> QED
      BY <3>1
  <2> QED
    BY <2>1, <2>2
<1>3. N = Nat
  <2> HIDE DEF N
  <2>1. N \in SUBSET Nat
    BY DEF N
  <2> QED
    BY <1>1, <1>2, <2>1, NatSet
<1>4. \E x \in S : \A y \in S : x <= y
  <2>1. PICK j \in S : TRUE
    OBVIOUS
  <2>2. j \in Nat /\ j \in 0..j
    BY <2>1
  <2>3. j \in N
    <3> HIDE DEF N
    <3> QED
      BY <1>3, <2>2
  <2> QED
    BY <2>1, <2>2, <2>3, Zenon
<1> QED
  BY <1>4 DEF Min

LEMMA MinOfTwo ==
    ASSUME NEW a \in Int, NEW b \in Int
    PROVE  Min({a, b}) = IF a <= b THEN a ELSE b
BY DEF Min

LEMMA MaxOfTwo ==
    ASSUME NEW a \in Int, NEW b \in Int
    PROVE  Max({a, b}) = IF a >= b THEN a ELSE b
BY DEF Max

-----------------------------------------------------------------------------
(***************************************************************************)
(* Sequences.                                                              *)
(***************************************************************************)
LEMMA SeqFacts ==
    ASSUME NEW S, NEW s \in Seq(S)
    PROVE  /\ Len(s) \in Nat /\ DOMAIN s = 1..Len(s) /\ \A i \in 1..Len(s) : s[i] \in S
           /\ s = << >> <=> Len(s) = 0
           /\ DataOf(s) = {s[i].data : i \in 1..Len(s)}
<1>1. Len(s) \in Nat /\ DOMAIN s = 1..Len(s) /\ \A i \in 1..Len(s) : s[i] \in S
  OBVIOUS
<1>2. s = << >> <=> Len(s) = 0
  OBVIOUS
<1>3. DataOf(s) = {s[i].data : i \in 1..Len(s)}
  BY <1>1 DEF DataOf, ToSet
<1> QED
  BY <1>1, <1>2, <1>3

\* The first n are taken, and the rest is left.
LEMMA Split ==
    ASSUME NEW S, NEW s \in Seq(S), NEW n \in 0..Len(s)
    PROVE  /\ SubSeq(s, 1, n) \in Seq(S) /\ SubSeq(s, n + 1, Len(s)) \in Seq(S)
           /\ Len(SubSeq(s, 1, n)) = n /\ Len(SubSeq(s, n + 1, Len(s))) = Len(s) - n
           /\ \A i \in 1..n : SubSeq(s, 1, n)[i] = s[i]
           /\ \A i \in 1 .. Len(s) - n : SubSeq(s, n + 1, Len(s))[i] = s[i + n]
OBVIOUS

\* u is s and then t, all of them sequences of members of S.
IsJoin(S, s, t, u) ==
    /\ u \in Seq(S) /\ Len(u) = Len(s) + Len(t)
    /\ \A i \in 1..Len(s) : u[i] = s[i]
    /\ \A i \in 1..Len(t) : u[Len(s) + i] = t[i]

LEMMA Joined ==
    ASSUME NEW S, NEW s \in Seq(S), NEW t \in Seq(S)
    PROVE  IsJoin(S, s, t, s \o t)
BY DEF IsJoin

LEMMA JoinedAt ==
    ASSUME NEW S, NEW s \in Seq(S), NEW t \in Seq(S), NEW u, IsJoin(S, s, t, u),
           NEW i \in 1..Len(u)
    PROVE  \/ i \in 1..Len(s) /\ u[i] = s[i]
           \/ i - Len(s) \in 1..Len(t) /\ u[i] = t[i - Len(s)]
<1>1. Len(s) \in Nat /\ Len(t) \in Nat
  OBVIOUS
<1>2. i \notin 1..Len(s) => i - Len(s) \in 1..Len(t) /\ i = Len(s) + (i - Len(s))
  BY <1>1 DEF IsJoin
<1> QED
  BY <1>2, Zenon DEF IsJoin

\* u is s without its n-th element; u is s with e in its n-th place.
IsRemoved(S, s, n, u) ==
    /\ u \in Seq(S) /\ Len(u) = Len(s) - 1
    /\ \A i \in 1 .. n - 1 : u[i] = s[i]
    /\ \A i \in n .. Len(s) - 1 : u[i] = s[i + 1]
IsInserted(S, s, n, e, u) ==
    /\ u \in Seq(S) /\ Len(u) = Len(s) + 1
    /\ \A i \in 1 .. n - 1 : u[i] = s[i]
    /\ u[n] = e
    /\ \A i \in n + 1 .. Len(s) + 1 : u[i] = s[i - 1]

LEMMA RemovedAt ==
    ASSUME NEW S, NEW s \in Seq(S), NEW n \in 1..Len(s)
    PROVE  IsRemoved(S, s, n, RemoveAt(s, n))
<1> DEFINE a == SubSeq(s, 1, n - 1)
           b == SubSeq(s, n + 1, Len(s))
           u == a \o b
<1>1. /\ a \in Seq(S) /\ Len(a) = n - 1
      /\ \A i \in 1 .. n - 1 : a[i] = s[i]
  OBVIOUS
<1>2. /\ b \in Seq(S) /\ Len(b) = Len(s) - n
      /\ \A i \in 1 .. Len(s) - n : b[i] = s[i + n]
  OBVIOUS
<1>3. RemoveAt(s, n) = u
  BY DEF RemoveAt
<1> HIDE DEF a, b
<1>4. IsJoin(S, a, b, u)
  BY <1>1, <1>2, Joined, Zenon
<1> HIDE DEF u
<1>5. \A i \in n .. Len(s) - 1 : i - (n - 1) \in 1..Len(b) /\ i = Len(a) + (i - (n - 1))
  BY <1>1, <1>2
<1>6. \A i \in n .. Len(s) - 1 : u[i] = b[i - (n - 1)]
  BY <1>4, <1>5 DEF IsJoin
<1>7. \A i \in n .. Len(s) - 1 : b[i - (n - 1)] = s[i + 1]
  BY <1>1, <1>2, <1>5
<1> QED
  BY <1>1, <1>2, <1>3, <1>4, <1>6, <1>7 DEF IsJoin, IsRemoved

LEMMA InsertedAt ==
    ASSUME NEW S, NEW s \in Seq(S), NEW n \in 1 .. Len(s) + 1, NEW e \in S
    PROVE  IsInserted(S, s, n, e, InsertAt(s, n, e))
<1> DEFINE a == SubSeq(s, 1, n - 1)
           t == <<e>>
           b == SubSeq(s, n, Len(s))
           m == a \o t
           u == m \o b
<1>1. /\ a \in Seq(S) /\ Len(a) = n - 1
      /\ \A i \in 1 .. n - 1 : a[i] = s[i]
  OBVIOUS
<1>2. /\ b \in Seq(S) /\ Len(b) = Len(s) - n + 1
      /\ \A i \in 1 .. Len(s) - n + 1 : b[i] = s[i + n - 1]
  OBVIOUS
<1>3. InsertAt(s, n, e) = u
  BY DEF InsertAt
<1>4. t \in Seq(S) /\ Len(t) = 1 /\ t[1] = e
  OBVIOUS
<1> HIDE DEF a, t, b
<1>5. IsJoin(S, a, t, m)
  BY <1>1, <1>4, Joined, Zenon
<1> HIDE DEF m
<1>6. m \in Seq(S) /\ Len(m) = n
      /\ (\A i \in 1 .. n - 1 : m[i] = s[i]) /\ m[n] = e
  <2>1. 1 \in 1..1 /\ Len(a) + 1 = n
    BY <1>1
  <2> QED
    BY <1>1, <1>4, <1>5, <2>1 DEF IsJoin
<1>7. IsJoin(S, m, b, u)
  BY <1>2, <1>6, Joined, Zenon
<1> HIDE DEF u
<1>8. \A i \in n + 1 .. Len(s) + 1 : i - n \in 1..Len(b) /\ i = Len(m) + (i - n)
  BY <1>2, <1>6
<1>9. \A i \in n + 1 .. Len(s) + 1 : u[i] = b[i - n]
  BY <1>7, <1>8 DEF IsJoin
<1>10. \A i \in n + 1 .. Len(s) + 1 : b[i - n] = s[i - 1]
  BY <1>2, <1>6, <1>8
<1> QED
  BY <1>2, <1>3, <1>6, <1>7, <1>9, <1>10 DEF IsJoin, IsInserted

\* The longest beginning of 1..n that lies in G.
LEMMA Beginning ==
    ASSUME NEW n \in Nat, NEW G
    PROVE  LET m == Max({j \in 0..n : \A i \in 1..j : i \in G})
           IN  m \in 0..n /\ (\A i \in 1..m : i \in G) /\ (m < n => m + 1 \notin G)
<1> DEFINE S == {j \in 0..n : \A i \in 1..j : i \in G}
           m == Max(S)
<1>1. 0 \in S /\ S \in SUBSET (0..n)
  OBVIOUS
<1>2. m \in S /\ \A j \in S : j <= m
  <2> HIDE DEF S
  <2> QED
    BY <1>1, MaxIn
<1> HIDE DEF m
<1>3. m \in 0..n /\ \A i \in 1..m : i \in G
  BY <1>2
<1>4. ASSUME m < n, m + 1 \in G
      PROVE  FALSE
  <2>1. \A i \in 1 .. m + 1 : i \in 1..m \/ i = m + 1
    BY <1>3
  <2>2. m + 1 \in S
    BY <1>3, <1>4, <2>1
  <2> QED
    BY <1>2, <1>3, <2>2
<1> QED
  BY <1>3, <1>4 DEF m

\* Queues whose places keep their order.
LEMMA AscendingPart ==
    ASSUME NEW S, NEW q \in Seq(S), \A i \in 1..Len(q) : q[i].data \in Nat,
           Ascending(q),
           NEW T, NEW p \in Seq(T), NEW f,
           \A i \in 1..Len(p) : f[i] \in 1..Len(q) /\ p[i].data = q[f[i]].data,
           \A i, j \in 1..Len(p) : i < j => f[j] - f[i] >= j - i
    PROVE  Ascending(p)
<1>1. DOMAIN p = 1..Len(p) /\ DOMAIN q = 1..Len(q) /\ Len(p) \in Nat /\ Len(q) \in Nat
  OBVIOUS
<1> SUFFICES ASSUME NEW i \in 1..Len(p), NEW j \in 1..Len(p), i < j
             PROVE  p[j].data - p[i].data >= j - i
  BY <1>1 DEF Ascending
<1>2. f[i] \in 1..Len(q) /\ f[j] \in 1..Len(q) /\ f[j] - f[i] >= j - i /\ f[i] < f[j]
  <2>1. f[i] \in 1..Len(q) /\ f[j] \in 1..Len(q) /\ f[j] - f[i] >= j - i
    OBVIOUS
  <2> QED
    BY <2>1, <1>1
<1>3. q[f[j]].data - q[f[i]].data >= f[j] - f[i]
  BY <1>1, <1>2 DEF Ascending
<1> QED
  BY <1>1, <1>2, <1>3

LEMMA AscendingBounds ==
    ASSUME NEW S, NEW q \in Seq(S), Ascending(q), NEW lo \in Int, NEW hi \in Int,
           lo <= hi, \A i \in 1..Len(q) : q[i].data \in lo + 1 .. hi
    PROVE  /\ Len(q) <= hi - lo
           /\ \A i \in 1..Len(q) : q[i].data >= lo + i
           /\ \A i, j \in 1..Len(q) : i < j => q[i].data < q[j].data
<1>1. DOMAIN q = 1..Len(q) /\ Len(q) \in Nat
  OBVIOUS
<1>2. ASSUME NEW i \in 1..Len(q), NEW j \in 1..Len(q), i < j
      PROVE  q[j].data - q[i].data >= j - i
  BY <1>1, <1>2 DEF Ascending
<1>3. \A i \in 1..Len(q) : q[i].data >= lo + i
  <2> TAKE i \in 1..Len(q)
  <2>1. CASE i = 1
    BY <2>1
  <2>2. CASE i > 1
    <3>1. 1 \in 1..Len(q) /\ q[1].data \in lo + 1 .. hi /\ q[i].data \in lo + 1 .. hi
      BY <1>1
    <3>2. q[i].data - q[1].data >= i - 1
      BY <1>2, <2>2, <3>1
    <3> QED
      BY <3>1, <3>2
  <2> QED
    BY <2>1, <2>2
<1>4. Len(q) <= hi - lo
  <2>1. CASE Len(q) = 0
    BY <2>1
  <2>2. CASE Len(q) > 0
    <3>1. Len(q) \in 1..Len(q)
      BY <1>1, <2>2
    <3>2. q[Len(q)].data \in lo + 1 .. hi /\ q[Len(q)].data >= lo + Len(q)
      BY <1>3, <3>1
    <3> QED
      BY <1>1, <3>2
  <2> QED
    BY <1>1, <2>1, <2>2
<1>5. ASSUME NEW i \in 1..Len(q), NEW j \in 1..Len(q), i < j
      PROVE  q[i].data < q[j].data
  <2>1. q[j].data - q[i].data >= j - i /\ q[i].data \in Int /\ q[j].data \in Int
    BY <1>2, <1>5
  <2> QED
    BY <1>5, <2>1
<1> QED
  BY <1>3, <1>4, <1>5

-----------------------------------------------------------------------------
(***************************************************************************)
(* KCP objects: the fields of the sender, those of the receiver.           *)
(***************************************************************************)
SameSender(k, r) ==
    /\ r.snd_queue = k.snd_queue /\ r.snd_buf = k.snd_buf
    /\ r.snd_nxt = k.snd_nxt /\ r.snd_una = k.snd_una
SameReceiver(k, r) ==
    /\ r.rcv_queue = k.rcv_queue /\ r.rcv_buf = k.rcv_buf /\ r.rcv_nxt = k.rcv_nxt

LEMMA KcpFields ==
    ASSUME NEW k \in KCPs
    PROVE  /\ k.snd_una \in Sns /\ k.snd_nxt \in Sns /\ k.rcv_nxt \in Sns
           /\ k.rmt_wnd \in 0..RcvWnd /\ k.cwnd \in Nat /\ k.ssthresh \in Nat
           /\ k.ask_send \in BOOLEAN /\ k.ask_tell \in BOOLEAN /\ k.probing \in BOOLEAN
           /\ k.snd_queue \in Seq(QueueSegs) /\ k.snd_buf \in Seq(SndSegs)
           /\ k.rcv_queue \in Seq(RcvSegs) /\ k.rcv_buf \in Seq(RcvSegs)
           /\ k.acklist \in SUBSET [sn : Sns, data : Nat]
BY DEF KCPs

LEMMA SndBufFacts ==
    ASSUME NEW k \in KCPs
    PROVE  /\ Len(k.snd_buf) \in Nat /\ DOMAIN k.snd_buf = 1..Len(k.snd_buf)
           /\ \A i \in 1..Len(k.snd_buf) :
                /\ k.snd_buf[i] \in SndSegs
                /\ k.snd_buf[i].sn \in Sns /\ k.snd_buf[i].frg \in Nat
                /\ k.snd_buf[i].data \in Nat /\ k.snd_buf[i].xmit \in BOOLEAN
                /\ k.snd_buf[i].fastack \in 0..FastResend
           /\ k.snd_buf = << >> <=> Len(k.snd_buf) = 0
           /\ DataOf(k.snd_buf) = {k.snd_buf[i].data : i \in 1..Len(k.snd_buf)}
<1>1. k.snd_buf \in Seq(SndSegs)
  BY KcpFields
<1>2. \A x \in SndSegs : /\ x.sn \in Sns /\ x.frg \in Nat /\ x.data \in Nat
                         /\ x.xmit \in BOOLEAN /\ x.fastack \in 0..FastResend
  BY DEF SndSegs
<1>3. /\ Len(k.snd_buf) \in Nat /\ DOMAIN k.snd_buf = 1..Len(k.snd_buf)
      /\ \A i \in 1..Len(k.snd_buf) : k.snd_buf[i] \in SndSegs
      /\ k.snd_buf = << >> <=> Len(k.snd_buf) = 0
      /\ DataOf(k.snd_buf) = {k.snd_buf[i].data : i \in 1..Len(k.snd_buf)}
  BY <1>1, SeqFacts, Zenon
<1> QED
  BY <1>2, <1>3

LEMMA SndQueueFacts ==
    ASSUME NEW k \in KCPs
    PROVE  /\ Len(k.snd_queue) \in Nat /\ DOMAIN k.snd_queue = 1..Len(k.snd_queue)
           /\ \A i \in 1..Len(k.snd_queue) :
                /\ k.snd_queue[i] \in QueueSegs
                /\ k.snd_queue[i].frg \in Nat /\ k.snd_queue[i].data \in Nat
           /\ k.snd_queue = << >> <=> Len(k.snd_queue) = 0
           /\ DataOf(k.snd_queue) = {k.snd_queue[i].data : i \in 1..Len(k.snd_queue)}
<1>1. k.snd_queue \in Seq(QueueSegs)
  BY KcpFields
<1>2. \A x \in QueueSegs : x.frg \in Nat /\ x.data \in Nat
  BY DEF QueueSegs
<1>3. /\ Len(k.snd_queue) \in Nat /\ DOMAIN k.snd_queue = 1..Len(k.snd_queue)
      /\ \A i \in 1..Len(k.snd_queue) : k.snd_queue[i] \in QueueSegs
      /\ k.snd_queue = << >> <=> Len(k.snd_queue) = 0
      /\ DataOf(k.snd_queue) = {k.snd_queue[i].data : i \in 1..Len(k.snd_queue)}
  BY <1>1, SeqFacts, Zenon
<1> QED
  BY <1>2, <1>3

LEMMA RcvFacts ==
    ASSUME NEW q \in Seq(RcvSegs)
    PROVE  /\ Len(q) \in Nat /\ DOMAIN q = 1..Len(q)
           /\ \A i \in 1..Len(q) : /\ q[i] \in RcvSegs
                                   /\ q[i].sn \in Sns /\ q[i].frg \in Nat /\ q[i].data \in Nat
           /\ q = << >> <=> Len(q) = 0
           /\ DataOf(q) = {q[i].data : i \in 1..Len(q)}
<1>1. \A x \in RcvSegs : x.sn \in Sns /\ x.frg \in Nat /\ x.data \in Nat
  BY DEF RcvSegs
<1>2. /\ Len(q) \in Nat /\ DOMAIN q = 1..Len(q)
      /\ \A i \in 1..Len(q) : q[i] \in RcvSegs
      /\ q = << >> <=> Len(q) = 0
      /\ DataOf(q) = {q[i].data : i \in 1..Len(q)}
  BY SeqFacts, Zenon
<1> QED
  BY <1>1, <1>2

\* The invariant of the sender and of the receiver is about their own fields.
LEMMA SenderSame ==
    ASSUME NEW k, NEW r, NEW s, SameSender(k, r)
    PROVE  /\ Nxt(r, s) = Nxt(k, s) /\ Una(r, s) = Una(k, s) /\ Done(r, s) = Done(k, s)
           /\ SenderInv(k, s) => SenderInv(r, s)
BY DEF SameSender, Nxt, Una, Done, SenderInv

LEMMA ReceiverSame ==
    ASSUME NEW k, NEW r, NEW g, NEW s, NEW n, SameReceiver(k, r)
    PROVE  /\ Pos(r, g) = Pos(k, g) /\ Holds(r, g) = Holds(k, g)
           /\ ReceiverInv(k, g, s, n) => ReceiverInv(r, g, s, n)
BY DEF SameReceiver, Pos, Holds, ReceiverInv

\* The numbers of two places agree when the places do, within one turn.
LEMMA PlaceOf ==
    ASSUME NEW d \in Int, NEW x \in Int, SnOf(d) = x % SnModulus,
           d - 1 - x < SnModulus, x - (d - 1) < SnModulus
    PROVE  d = x + 1
<1>1. PICK y \in Int : y = d - 1
  OBVIOUS
<1>2. y % SnModulus = x % SnModulus /\ y - x < SnModulus /\ x - y < SnModulus
  BY <1>1 DEF SnOf
<1>3. y = x
  BY <1>2, SameRemainder
<1> QED
  BY <1>1, <1>3

LEMMA SamePlace ==
    ASSUME NEW d \in Int, NEW c \in Int, SnOf(d) = SnOf(c),
           d - c < SnModulus, c - d < SnModulus
    PROVE  d = c
<1>1. PICK x \in Int : x = c - 1
  OBVIOUS
<1>2. SnOf(d) = x % SnModulus /\ d - 1 - x < SnModulus /\ x - (d - 1) < SnModulus
  BY <1>1, Halves DEF SnOf
<1>3. d = x + 1
  BY <1>2, PlaceOf
<1> QED
  BY <1>1, <1>3

\* The signed difference of the numbers of two places.
LEMMA DiffPlaces ==
    ASSUME NEW d \in Int, NEW c \in Int, d - c < HalfRange, c - d <= HalfRange
    PROVE  Diff(SnOf(d), SnOf(c)) = d - c
<1>1. PICK x \in Int : x = d - 1
  OBVIOUS
<1>2. PICK y \in Int : y = c - 1
  OBVIOUS
<1>3. x - y = d - c /\ x - y < HalfRange /\ y - x <= HalfRange
  BY <1>1, <1>2, Halves
<1>4. Diff(x % SnModulus, y % SnModulus) = x - y
  BY <1>3, DiffExact
<1> QED
  BY <1>1, <1>2, <1>3, <1>4 DEF SnOf

\* What MoveAvailable moves, and what it leaves alone.
LEMMA MoveFields ==
    ASSUME NEW k \in KCPs
    PROVE  \E n \in 0..Len(k.rcv_buf) :
            /\ \A i \in 1..n : /\ k.rcv_buf[i].sn = Add(k.rcv_nxt, i - 1)
                               /\ Len(k.rcv_queue) + i - 1 < RcvWnd
            /\ MoveAvailable(k) \in KCPs /\ SameSender(k, MoveAvailable(k))
            /\ MoveAvailable(k).acklist = k.acklist
            /\ MoveAvailable(k).rcv_queue = k.rcv_queue \o SubSeq(k.rcv_buf, 1, n)
            /\ MoveAvailable(k).rcv_buf = SubSeq(k.rcv_buf, n + 1, Len(k.rcv_buf))
            /\ MoveAvailable(k).rcv_nxt = Add(k.rcv_nxt, n)
<1> DEFINE l == Len(k.rcv_buf)
           G == {i \in 1..l : /\ k.rcv_buf[i].sn = Add(k.rcv_nxt, i - 1)
                              /\ Len(k.rcv_queue) + i - 1 < RcvWnd}
           n == Max({j \in 0..l : \A i \in 1..j : i \in G})
           a == k.rcv_queue \o SubSeq(k.rcv_buf, 1, n)
           b == SubSeq(k.rcv_buf, n + 1, Len(k.rcv_buf))
           c == Add(k.rcv_nxt, n)
           r == [k EXCEPT !.rcv_queue = a, !.rcv_buf = b, !.rcv_nxt = c]
<1>1. k.rcv_buf \in Seq(RcvSegs) /\ k.rcv_queue \in Seq(RcvSegs) /\ l \in Nat
  BY KcpFields
<1>2. \A j \in 0..l : Movable(k, j) <=> \A i \in 1..j : i \in G
  <2> TAKE j \in 0..l
  <2>1. \A i \in 1..j : i \in 1..l
    BY <1>1
  <2> QED
    BY <2>1 DEF Movable
<1>3. {j \in 0..l : Movable(k, j)} = {j \in 0..l : \A i \in 1..j : i \in G}
  BY <1>2
<1>4. n \in 0..l /\ \A i \in 1..n : i \in G
  <2> HIDE DEF l, G
  <2> QED
    BY <1>1, Beginning
<1>5. MoveAvailable(k) = r
  BY <1>3, Zenon DEF MoveAvailable
<1> HIDE DEF n
<1>6. SubSeq(k.rcv_buf, 1, n) \in Seq(RcvSegs) /\ b \in Seq(RcvSegs)
  <2> HIDE DEF b
  <2> QED
    BY <1>1, <1>4, Split DEF b
<1>7. a \in Seq(RcvSegs)
  BY <1>1, <1>6, Joined, Zenon DEF IsJoin
<1>8. c \in Sns
  <2>1. k.rcv_nxt + n \in Int
    BY <1>4, KcpFields DEF Sns
  <2> QED
    BY <2>1, Remainder DEF Add
<1> HIDE DEF a, b, c
<1>9. r \in KCPs /\ SameSender(k, r) /\ r.acklist = k.acklist
      /\ r.rcv_queue = a /\ r.rcv_buf = b /\ r.rcv_nxt = c
  BY <1>6, <1>7, <1>8 DEF KCPs, SameSender
<1> QED
  BY <1>4, <1>5, <1>9 DEF a, b, c

-----------------------------------------------------------------------------
(***************************************************************************)
(* The receiver.                                                           *)
(***************************************************************************)
LEMMA PosNat ==
    ASSUME NEW k \in KCPs, NEW S, NEW g \in Seq(S)
    PROVE  Pos(k, g) \in Nat /\ Len(g) \in Nat /\ Pos(k, g) = Len(g) + Len(k.rcv_queue)
<1>1. Len(k.rcv_queue) \in Nat
  BY KcpFields
<1> QED
  BY <1>1 DEF Pos

\* What lies in rcv_buf is in order, in the window, and next in order when its
\* number is.
LEMMA InWindow ==
    ASSUME NEW k \in KCPs, NEW S, NEW g \in Seq(S), NEW s, NEW n \in Nat,
           ReceiverInv(k, g, s, n)
    PROVE  /\ Len(k.rcv_buf) <= RcvWnd
           /\ \A i \in 1..Len(k.rcv_buf) :
                /\ k.rcv_buf[i].data >= Pos(k, g) + i
                /\ k.rcv_buf[i].data <= Pos(k, g) + RcvWnd /\ k.rcv_buf[i].data <= n
                /\ k.rcv_buf[i].sn = Add(k.rcv_nxt, i - 1)
                    <=> k.rcv_buf[i].data = Pos(k, g) + i
           /\ \A i, j \in 1..Len(k.rcv_buf) :
                i < j => k.rcv_buf[i].data < k.rcv_buf[j].data
<1> DEFINE b == k.rcv_buf
           R == Pos(k, g)
<1>1. /\ b \in Seq(RcvSegs) /\ R \in Nat /\ RcvWnd \in Nat /\ Len(b) \in Nat
      /\ \A i \in 1..Len(b) : b[i].data \in Nat /\ b[i].sn \in Sns
  BY KcpFields, RcvFacts, PosNat, Halves
<1>2. /\ Ascending(b) /\ k.rcv_nxt = R % SnModulus
      /\ \A i \in 1..Len(b) : /\ b[i].data \in R + 1 .. n /\ b[i].data <= R + RcvWnd
                              /\ b[i].sn = SnOf(b[i].data)
  <2>1. DOMAIN b = 1..Len(b)
    BY <1>1, RcvFacts
  <2> QED
    BY <2>1 DEF ReceiverInv, OfStream
<1> HIDE DEF b, R
<1>3. \A i \in 1..Len(b) : b[i].data \in R + 1 .. R + RcvWnd
  BY <1>1, <1>2
<1>4. /\ Len(b) <= RcvWnd /\ \A i \in 1..Len(b) : b[i].data >= R + i
      /\ \A i, j \in 1..Len(b) : i < j => b[i].data < b[j].data
  <2>1. R \in Int /\ R + RcvWnd \in Int /\ R <= R + RcvWnd /\ (R + RcvWnd) - R = RcvWnd
    BY <1>1
  <2>2. /\ Len(b) <= (R + RcvWnd) - R /\ \A i \in 1..Len(b) : b[i].data >= R + i
        /\ \A i, j \in 1..Len(b) : i < j => b[i].data < b[j].data
    BY <1>1, <1>2, <1>3, <2>1, AscendingBounds
  <2> QED
    BY <2>1, <2>2
<1>5. ASSUME NEW i \in 1..Len(b)
      PROVE  b[i].sn = Add(k.rcv_nxt, i - 1) <=> b[i].data = R + i
  <2>1. Add(k.rcv_nxt, i - 1) = (R + (i - 1)) % SnModulus
    <3>1. R \in Int /\ i - 1 \in Int
      BY <1>1
    <3> QED
      BY <1>2, <3>1, AddRemainder, Zenon
  <2>2. b[i].data \in Nat /\ b[i].data \in R + 1 .. R + RcvWnd /\ i <= RcvWnd /\ R + (i - 1) \in Int
    BY <1>1, <1>3, <1>4
  <2>3. ASSUME b[i].sn = Add(k.rcv_nxt, i - 1)
        PROVE  b[i].data = R + i
    <3>1. SnOf(b[i].data) = (R + (i - 1)) % SnModulus
      BY <1>2, <2>1, <2>3
    <3>2. b[i].data - 1 - (R + (i - 1)) < SnModulus /\ (R + (i - 1)) - (b[i].data - 1) < SnModulus
      BY <1>1, <2>2, Halves
    <3>3. b[i].data = (R + (i - 1)) + 1
      BY SMTT(20), <2>2, <3>1, <3>2, PlaceOf
    <3> QED
      BY <1>1, <3>3
  <2>4. ASSUME b[i].data = R + i
        PROVE  b[i].sn = Add(k.rcv_nxt, i - 1)
    <3>1. (R + i) - 1 = R + (i - 1)
      BY <1>1
    <3> QED
      BY <1>2, <2>1, <2>4, <3>1 DEF SnOf
  <2> QED
    BY <2>3, <2>4
<1>6. ASSUME NEW i \in 1..Len(b)
      PROVE  b[i].data >= R + i /\ b[i].data <= R + RcvWnd /\ b[i].data <= n
  <2>1. b[i].data \in R + 1 .. n /\ b[i].data <= R + RcvWnd
    BY <1>2
  <2>2. b[i].data <= n
    BY <1>1, <2>1
  <2> QED
    BY <1>4, <2>1, <2>2
<1> QED
  BY <1>4, <1>5, <1>6, Zenon DEF b, R

LEMMA MoveKeeps ==
    ASSUME NEW k \in KCPs, NEW S, NEW g \in Seq(S), NEW s, NEW n \in Nat,
           ReceiverInv(k, g, s, n)
    PROVE  /\ MoveAvailable(k) \in KCPs /\ SameSender(k, MoveAvailable(k))
           /\ MoveAvailable(k).acklist = k.acklist
           /\ ReceiverInv(MoveAvailable(k), g, s, n)
           /\ Holds(MoveAvailable(k), g) = Holds(k, g)
           /\ Pos(MoveAvailable(k), g) >= Pos(k, g)
<1> DEFINE r == MoveAvailable(k)
           b == k.rcv_buf
           q == k.rcv_queue
           R == Pos(k, g)
<1>1. PICK m \in 0..Len(b) :
            /\ \A i \in 1..m : /\ b[i].sn = Add(k.rcv_nxt, i - 1)
                               /\ Len(q) + i - 1 < RcvWnd
            /\ r \in KCPs /\ SameSender(k, r) /\ r.acklist = k.acklist
            /\ r.rcv_queue = q \o SubSeq(b, 1, m)
            /\ r.rcv_buf = SubSeq(b, m + 1, Len(b))
            /\ r.rcv_nxt = Add(k.rcv_nxt, m)
  BY MoveFields
<1> DEFINE a == SubSeq(b, 1, m)
           c == SubSeq(b, m + 1, Len(b))
<1> HIDE DEF r
<1>2. /\ b \in Seq(RcvSegs) /\ q \in Seq(RcvSegs) /\ R \in Nat /\ RcvWnd \in Nat
      /\ Len(g) \in Nat /\ R = Len(g) + Len(q) /\ Len(q) \in Nat /\ Len(b) \in Nat
      /\ \A i \in 1..Len(b) : b[i].data \in Nat
  BY KcpFields, RcvFacts, PosNat, Halves
<1>3. /\ \A i \in 1..Len(b) : b[i].data >= R + i /\ b[i].data <= R + RcvWnd /\ b[i].data <= n
      /\ \A i \in 1..m : b[i].data = R + i
      /\ \A i, j \in 1..Len(b) : i < j => b[i].data < b[j].data
  <2>1. \A i \in 1..m : i \in 1..Len(b)
    BY <1>2
  <2> QED
    BY <1>1, <2>1, InWindow
<1>4. /\ R <= n /\ Len(q) <= RcvWnd /\ k.rcv_nxt = R % SnModulus /\ Ascending(b)
      /\ \A i \in 1..Len(b) : OfStream(s, b[i])
      /\ \A i \in 1..Len(q) : /\ q[i].data = Len(g) + i /\ FrgOf(s, q[i].data, q[i].frg)
      /\ \A i \in DOMAIN g : g[i] = s[i]
  <2>1. DOMAIN b = 1..Len(b) /\ DOMAIN q = 1..Len(q)
    BY <1>2
  <2> QED
    BY <2>1 DEF ReceiverInv
<1>5. /\ a \in Seq(RcvSegs) /\ Len(a) = m /\ \A i \in 1..m : a[i] = b[i]
  BY <1>2, Split
<1>6. /\ c \in Seq(RcvSegs) /\ Len(c) = Len(b) - m
      /\ \A i \in 1 .. Len(b) - m : c[i] = b[i + m]
  BY <1>2, Split
<1>7. IsJoin(RcvSegs, q, a, r.rcv_queue)
  <2> HIDE DEF a
  <2>1. IsJoin(RcvSegs, q, a, q \o a)
    BY <1>2, <1>5, Joined, Zenon
  <2> QED
    BY <1>1, <2>1 DEF a
<1>8. r.rcv_buf = c
  BY <1>1
<1> HIDE DEF a, b, c, q, R
<1>9. Len(r.rcv_queue) = Len(q) + m /\ DOMAIN r.rcv_queue = 1 .. Len(q) + m
      /\ DOMAIN c = 1 .. Len(b) - m
  BY <1>2, <1>5, <1>6, <1>7 DEF IsJoin
<1>10. Pos(r, g) = R + m
  BY <1>2, <1>9 DEF Pos
<1>11. \A i \in 1 .. Len(q) + m :
            r.rcv_queue[i].data = Len(g) + i /\ FrgOf(s, r.rcv_queue[i].data, r.rcv_queue[i].frg)
  <2> TAKE i \in 1 .. Len(q) + m
  <2>1. CASE i \in 1..Len(q)
    BY <1>4, <1>7, <2>1 DEF IsJoin
  <2>2. CASE i \notin 1..Len(q)
    <3>1. i - Len(q) \in 1..m /\ i = Len(q) + (i - Len(q)) /\ i - Len(q) \in 1..Len(b)
      BY <1>2, <2>2
    <3>2. r.rcv_queue[i] = b[i - Len(q)]
      BY <1>5, <1>7, <3>1 DEF IsJoin
    <3>3. b[i - Len(q)].data = R + (i - Len(q))
          /\ FrgOf(s, b[i - Len(q)].data, b[i - Len(q)].frg)
      BY <1>3, <1>4, <3>1 DEF OfStream
    <3>4. R + (i - Len(q)) = Len(g) + i
      BY <1>2
    <3> QED
      BY <3>2, <3>3, <3>4
  <2> QED
    BY <2>1, <2>2
<1>12. Len(q) + m <= RcvWnd /\ R + m <= n
  <2>1. CASE m = 0
    BY <1>2, <1>4, <2>1
  <2>2. CASE m > 0
    <3>1. m \in 1..m /\ m \in 1..Len(b)
      BY <1>2, <2>2
    <3>2. Len(q) + m - 1 < RcvWnd
      BY <1>1, <3>1
    <3>3. R + m <= n
      BY <1>3, <3>1
    <3> QED
      BY <1>2, <3>2, <3>3
  <2> QED
    BY <1>2, <2>1, <2>2
<1>13. r.rcv_nxt = (R + m) % SnModulus
  BY <1>1, <1>2, <1>4, AddRemainder
<1>14. \A i \in 1 .. Len(b) - m :
            c[i].data \in R + m + 1 .. n /\ c[i].data <= R + m + RcvWnd /\ OfStream(s, c[i])
  <2> TAKE i \in 1 .. Len(b) - m
  <2>1. c[i] = b[i + m] /\ i + m \in 1..Len(b)
    BY <1>2, <1>6
  <2>2. /\ b[i + m].data >= R + (i + m) /\ b[i + m].data <= R + RcvWnd
        /\ b[i + m].data <= n /\ OfStream(s, b[i + m]) /\ b[i + m].data \in Nat
    BY <1>2, <1>3, <1>4, <2>1
  <2>3. OfStream(s, c[i]) /\ c[i].data = b[i + m].data
    BY <2>1, <2>2
  <2> QED
    BY SMTT(20), <1>2, <2>2, <2>3
<1>15. Ascending(c)
  <2> DEFINE f == [i \in 1..Len(c) |-> i + m]
  <2>1. \A i \in 1..Len(c) : f[i] = i + m /\ f[i] \in 1..Len(b) /\ c[i].data = b[f[i]].data
    BY SMTT(20), <1>2, <1>6
  <2>2. \A i, j \in 1..Len(c) : i < j => f[j] - f[i] >= j - i
    BY <1>2, <1>6
  <2> HIDE DEF f
  <2> QED
    BY <1>2, <1>4, <1>6, <2>1, <2>2, AscendingPart
<1>16. ReceiverInv(r, g, s, n)
  BY <1>4, <1>8, <1>9, <1>10, <1>11, <1>12, <1>13, <1>14, <1>15 DEF ReceiverInv
<1>17. Holds(r, g) = Holds(k, g)
  <2>1. Holds(r, g) = 1 .. R + m \cup {c[i].data : i \in 1 .. Len(b) - m}
    BY <1>6, <1>8, <1>10, RcvFacts DEF Holds
  <2>2. Holds(k, g) = 1..R \cup {b[i].data : i \in 1..Len(b)}
    BY <1>2, RcvFacts DEF Holds, R, b
  <2>3. ASSUME NEW x \in Holds(r, g)
        PROVE  x \in Holds(k, g)
    <3>1. CASE x \in 1..R
      BY <2>2, <3>1
    <3>2. CASE x \in 1 .. R + m /\ x \notin 1..R
      <4>1. x - R \in 1..m /\ x - R \in 1..Len(b) /\ x = R + (x - R)
        BY <1>2, <3>2
      <4> QED
        BY <1>3, <2>2, <4>1
    <3>3. CASE \E i \in 1 .. Len(b) - m : x = c[i].data
      <4>1. PICK i \in 1 .. Len(b) - m : x = c[i].data
        BY <3>3
      <4>2. c[i] = b[i + m] /\ i + m \in 1..Len(b)
        BY <1>2, <1>6
      <4> QED
        BY <2>2, <4>1, <4>2
    <3> QED
      BY <2>1, <3>1, <3>2, <3>3
  <2>4. ASSUME NEW x \in Holds(k, g)
        PROVE  x \in Holds(r, g)
    <3>1. CASE x \in 1..R
      BY <1>2, <2>1, <3>1
    <3>2. CASE \E i \in 1..Len(b) : x = b[i].data
      <4>1. PICK i \in 1..Len(b) : x = b[i].data
        BY <3>2
      <4>2. CASE i <= m
        <5>1. x = R + i /\ i \in 1..m
          BY <1>3, <4>1, <4>2
        <5> QED
          BY <1>2, <2>1, <5>1
      <4>3. CASE i > m
        <5>1. i - m \in 1 .. Len(b) - m /\ i = (i - m) + m
          BY <1>2, <4>3
        <5>2. c[i - m] = b[i]
          BY <1>6, <5>1
        <5> QED
          BY <2>1, <4>1, <5>1, <5>2
      <4> QED
        BY <1>2, <4>2, <4>3
    <3> QED
      BY <2>2, <3>1, <3>2
  <2> QED
    BY <2>3, <2>4
<1> QED
  BY <1>1, <1>2, <1>10, <1>16, <1>17 DEF r, R

\* What is held lies at the beginning of rcv_buf, and the next one is missing.
LEMMA HeldTop ==
    ASSUME NEW k \in KCPs, NEW S, NEW g \in Seq(S), NEW s, NEW n \in Nat,
           ReceiverInv(k, g, s, n)
    PROVE  /\ Held(k) \in Nat /\ Pos(k, g) + Held(k) <= n
           /\ \A d \in 1 .. Pos(k, g) + Held(k) : d \in Holds(k, g)
           /\ Pos(k, g) + Held(k) + 1 \notin Holds(k, g)
<1> DEFINE b == k.rcv_buf
           R == Pos(k, g)
           G == {i \in 1..Len(b) : b[i].sn = Add(k.rcv_nxt, i - 1)}
           h == Max({j \in 0..Len(b) : \A i \in 1..j : i \in G})
<1>1. /\ b \in Seq(RcvSegs) /\ R \in Nat /\ Len(b) \in Nat /\ R <= n
      /\ \A i \in 1..Len(b) : b[i].data \in Nat
      /\ Holds(k, g) = 1..R \cup {b[i].data : i \in 1..Len(b)}
  BY KcpFields, RcvFacts, PosNat DEF ReceiverInv, Holds
<1>2. /\ \A i \in 1..Len(b) : b[i].data >= R + i /\ b[i].data <= n
      /\ \A i \in 1..Len(b) : i \in G <=> b[i].data = R + i
      /\ \A i, j \in 1..Len(b) : i < j => b[i].data < b[j].data
  BY InWindow
<1>3. Held(k) = h
  <2>1. \A j \in 0..Len(b) : (\A i \in 1..j : b[i].sn = Add(k.rcv_nxt, i - 1))
                                <=> \A i \in 1..j : i \in G
    <3> TAKE j \in 0..Len(b)
    <3>1. \A i \in 1..j : i \in 1..Len(b)
      BY <1>1
    <3> QED
      BY <3>1
  <2>2. {j \in 0..Len(b) : \A i \in 1..j : b[i].sn = Add(k.rcv_nxt, i - 1)}
            = {j \in 0..Len(b) : \A i \in 1..j : i \in G}
    BY <2>1
  <2> QED
    BY <2>2 DEF Held
<1> HIDE DEF b, R, G
<1>4. h \in 0..Len(b) /\ (\A i \in 1..h : i \in G) /\ (h < Len(b) => h + 1 \notin G)
  BY <1>1, Beginning
<1> HIDE DEF h
<1>5. \A i \in 1..h : i \in 1..Len(b) /\ b[i].data = R + i
  BY <1>1, <1>2, <1>4
<1>6. R + h <= n
  <2>1. CASE h = 0
    BY <1>1, <2>1
  <2>2. CASE h > 0
    <3>1. h \in 1..h
      BY <1>4, <2>2
    <3> QED
      BY <1>2, <1>5, <3>1
  <2> QED
    BY <1>4, <2>1, <2>2
<1>7. ASSUME NEW d \in 1 .. R + h
      PROVE  d \in Holds(k, g)
  <2>1. CASE d <= R
    BY <1>1, <2>1
  <2>2. CASE d > R
    <3>1. d - R \in 1..h /\ d = R + (d - R)
      BY <1>1, <1>4, <2>2
    <3> QED
      BY <1>1, <1>5, <3>1
  <2> QED
    BY <1>1, <2>1, <2>2
<1>8. ASSUME R + h + 1 \in Holds(k, g)
      PROVE  FALSE
  <2>1. PICK i \in 1..Len(b) : b[i].data = R + h + 1
    BY <1>1, <1>4, <1>8
  <2>2. i <= h + 1 /\ i # h + 1
    <3>1. i <= h + 1
      BY <1>1, <1>2, <1>4, <2>1
    <3>2. ASSUME i = h + 1
          PROVE  FALSE
      <4>1. i \in G
        BY <1>1, <1>2, <1>4, <2>1, <3>2
      <4> QED
        BY <1>1, <1>4, <3>2, <4>1
    <3> QED
      BY <3>1, <3>2
  <2>3. i \in 1..h
    BY <1>4, <2>2
  <2> QED
    BY <1>1, <1>4, <1>5, <2>1, <2>3
<1> QED
  BY <1>3, <1>4, <1>6, <1>7, <1>8 DEF R

\* A receiver that holds more has everything up to a later place in order.
LEMMA TopGrows ==
    ASSUME NEW k \in KCPs, NEW S, NEW g \in Seq(S), NEW s, NEW n \in Nat,
           ReceiverInv(k, g, s, n),
           NEW r \in KCPs, NEW T, NEW h \in Seq(T), NEW t, NEW m \in Nat,
           ReceiverInv(r, h, t, m), Holds(k, g) \subseteq Holds(r, h)
    PROVE  Pos(k, g) + Held(k) <= Pos(r, h) + Held(r)
<1>1. /\ Held(k) \in Nat /\ Pos(k, g) \in Nat
      /\ \A d \in 1 .. Pos(k, g) + Held(k) : d \in Holds(k, g)
  BY HeldTop, PosNat
<1>2. /\ Held(r) \in Nat /\ Pos(r, h) \in Nat
      /\ Pos(r, h) + Held(r) + 1 \notin Holds(r, h)
  BY HeldTop, PosNat
<1>3. ASSUME Pos(r, h) + Held(r) < Pos(k, g) + Held(k)
      PROVE  FALSE
  <2>1. Pos(r, h) + Held(r) + 1 \in 1 .. Pos(k, g) + Held(k)
    BY <1>1, <1>2, <1>3
  <2> QED
    BY <1>1, <1>2, <2>1
<1> QED
  BY <1>1, <1>2, <1>3

\* A segment of the window finds its place in rcv_buf.
PlaceFor(k, seg) == SelectLastInSeq(k.rcv_buf, LAMBDA x : Diff(seg.sn, x.sn) >= 0)
Placed(k, seg) ==
    LET i == PlaceFor(k, seg)
    IN  IF i # 0 /\ k.rcv_buf[i].sn = seg.sn THEN k
        ELSE [k EXCEPT !.rcv_buf =
                InsertAt(@, i + 1, [sn |-> seg.sn, frg |-> seg.frg, data |-> seg.data])]

LEMMA PlacedBy ==
    ASSUME NEW k, NEW seg
    PROVE  parse_data(k, seg) = MoveAvailable(Placed(k, seg))
BY DEF parse_data, Placed, PlaceFor

\* Where SelectLastInSeq finds the place: after everything before it.
LEMMA FindPlace ==
    ASSUME NEW k \in KCPs, NEW S, NEW g \in Seq(S), NEW s, NEW n \in Nat,
           ReceiverInv(k, g, s, n), NEW seg, OfStream(s, seg),
           seg.data \in Pos(k, g) + 1 .. Pos(k, g) + RcvWnd
    PROVE  \E i \in 0..Len(k.rcv_buf) :
            /\ i = PlaceFor(k, seg)
            /\ \A j \in 1..Len(k.rcv_buf) : j <= i => k.rcv_buf[j].data <= seg.data
            /\ \A j \in 1..Len(k.rcv_buf) : i < j => seg.data < k.rcv_buf[j].data
            /\ i # 0 => (k.rcv_buf[i].sn = seg.sn <=> k.rcv_buf[i].data = seg.data)
<1> DEFINE b == k.rcv_buf
           R == Pos(k, g)
           I == {j \in 1..Len(b) : Diff(seg.sn, b[j].sn) >= 0}
           i == IF I # {} THEN Max(I) ELSE 0
<1>1. /\ b \in Seq(RcvSegs) /\ R \in Nat /\ Len(b) \in Nat
      /\ \A j \in 1..Len(b) : b[j].data \in Nat
      /\ seg.data \in Nat /\ RcvWnd \in Nat /\ seg.data \in R + 1 .. R + RcvWnd
  BY KcpFields, RcvFacts, PosNat, Halves
<1>2. /\ \A j \in 1..Len(b) : b[j].data >= R + j /\ b[j].data <= R + RcvWnd
      /\ \A j, l \in 1..Len(b) : j < l => b[j].data < b[l].data
  BY InWindow
<1>3. /\ \A j \in 1..Len(b) : b[j].sn = SnOf(b[j].data)
      /\ seg.sn = SnOf(seg.data)
  <2>1. DOMAIN b = 1..Len(b)
    BY <1>1
  <2> QED
    BY <2>1 DEF ReceiverInv, OfStream
<1>4. \A j \in 1..Len(b) : Diff(seg.sn, b[j].sn) = seg.data - b[j].data
  <2> TAKE j \in 1..Len(b)
  <2>1. /\ b[j].data \in R + 1 .. R + RcvWnd /\ HalfRange \in Nat
        /\ RcvWnd < HalfRange
    BY SMTT(20), <1>1, <1>2, Halves
  <2>2. seg.data - b[j].data < HalfRange /\ b[j].data - seg.data <= HalfRange
    BY SMTT(20), <1>1, <2>1
  <2>3. Diff(SnOf(seg.data), SnOf(b[j].data)) = seg.data - b[j].data
    BY SMTT(20), <1>1, <2>2, DiffPlaces
  <2> QED
    BY <1>3, <2>3
<1>5. I \subseteq 1..Len(b) /\ \A j \in 1..Len(b) : j \in I <=> b[j].data <= seg.data
  <2>1. \A j \in 1..Len(b) : seg.data - b[j].data >= 0 <=> b[j].data <= seg.data
    BY SMTT(20), <1>1
  <2> QED
    BY <1>4, <2>1, Zenon
<1>6. PlaceFor(k, seg) = i
  BY DEF SelectLastInSeq, PlaceFor
<1> HIDE DEF b, R, I
<1>7. /\ i \in 0..Len(b)
      /\ \A j \in 1..Len(b) : j <= i => b[j].data <= seg.data
      /\ \A j \in 1..Len(b) : i < j => seg.data < b[j].data
  <2>1. CASE I = {}
    <3>1. \A j \in 1..Len(b) : seg.data < b[j].data
      BY <1>1, <1>5, <2>1
    <3> QED
      BY <1>1, <2>1, <3>1
  <2>2. CASE I # {}
    <3>1. I \in SUBSET (0..Len(b))
      BY <1>1, <1>5
    <3>2. i \in I /\ \A j \in I : j <= i
      BY <1>1, <2>2, <3>1, MaxIn
    <3> HIDE DEF i
    <3>3. i \in 1..Len(b) /\ b[i].data <= seg.data
      BY <1>5, <3>2
    <3>4. ASSUME NEW j \in 1..Len(b), j <= i
          PROVE  b[j].data <= seg.data
      <4>1. CASE j = i
        BY <3>3, <4>1
      <4>2. CASE j < i
        <5>1. b[j].data < b[i].data
          BY <1>2, <3>3, <4>2
        <5> QED
          BY <1>1, <3>3, <5>1
      <4> QED
        BY <1>1, <3>3, <3>4, <4>1, <4>2
    <3>5. ASSUME NEW j \in 1..Len(b), i < j
          PROVE  seg.data < b[j].data
      <4>1. j \notin I
        BY <1>1, <3>2, <3>3, <3>5
      <4> QED
        BY <1>1, <1>5, <4>1
    <3> QED
      BY <1>1, <3>3, <3>4, <3>5
  <2> QED
    BY <2>1, <2>2
<1> HIDE DEF i
<1>8. ASSUME NEW l \in 1..Len(b)
      PROVE  b[l].sn = seg.sn <=> b[l].data = seg.data
  <2>1. ASSUME b[l].sn = seg.sn
        PROVE  b[l].data = seg.data
    <3>1. SnOf(b[l].data) = SnOf(seg.data)
      BY <1>3, <2>1
    <3>2. b[l].data \in R + 1 .. R + RcvWnd /\ RcvWnd < SnModulus /\ SnModulus \in Nat
      BY <1>1, <1>2, Halves
    <3>3. b[l].data - seg.data < SnModulus /\ seg.data - b[l].data < SnModulus
      BY SMTT(20), <1>1, <3>2
    <3> QED
      BY <1>1, <3>1, <3>3, SamePlace
  <2> QED
    BY <1>3, <2>1
<1>9. i # 0 => i \in 1..Len(b)
  BY <1>1, <1>7
<1> QED
  BY <1>6, <1>7, <1>8, <1>9 DEF b

LEMMA PlacedKeeps ==
    ASSUME NEW k \in KCPs, NEW S, NEW g \in Seq(S), NEW s, NEW n \in Nat,
           ReceiverInv(k, g, s, n), NEW seg, OfStream(s, seg),
           seg.sn \in Sns, seg.frg \in Nat,
           seg.data \in Pos(k, g) + 1 .. Pos(k, g) + RcvWnd, seg.data <= n
    PROVE  /\ Placed(k, seg) \in KCPs /\ SameSender(k, Placed(k, seg))
           /\ Placed(k, seg).acklist = k.acklist
           /\ ReceiverInv(Placed(k, seg), g, s, n)
           /\ Holds(k, g) \subseteq Holds(Placed(k, seg), g)
           /\ seg.data \in Holds(Placed(k, seg), g)
           /\ Pos(Placed(k, seg), g) = Pos(k, g)
<1> DEFINE b == k.rcv_buf
           R == Pos(k, g)
           new == [sn |-> seg.sn, frg |-> seg.frg, data |-> seg.data]
           r == Placed(k, seg)
<1>1. PICK i \in 0..Len(b) :
            /\ i = PlaceFor(k, seg)
            /\ \A j \in 1..Len(b) : j <= i => b[j].data <= seg.data
            /\ \A j \in 1..Len(b) : i < j => seg.data < b[j].data
            /\ i # 0 => (b[i].sn = seg.sn <=> b[i].data = seg.data)
  BY FindPlace
<1> DEFINE p == InsertAt(b, i + 1, new)
<1>2. /\ b \in Seq(RcvSegs) /\ R \in Nat /\ Len(b) \in Nat /\ DOMAIN b = 1..Len(b)
      /\ \A j \in 1..Len(b) : b[j].data \in Nat
      /\ seg.data \in Nat /\ RcvWnd \in Nat /\ seg.data \in R + 1 .. R + RcvWnd
      /\ seg.data <= n
      /\ Holds(k, g) = 1..R \cup {b[j].data : j \in 1..Len(b)}
  BY SMTT(20), KcpFields, RcvFacts, PosNat, Halves DEF Holds
<1>3. r = IF i # 0 /\ b[i].sn = seg.sn THEN k ELSE [k EXCEPT !.rcv_buf = p]
  BY <1>1, Zenon DEF Placed
<1>3a. Pos(r, g) = Pos(k, g)
  <2>1. [k EXCEPT !.rcv_buf = p].rcv_queue = k.rcv_queue
    BY DEF KCPs
  <2>2. r.rcv_queue = k.rcv_queue
    <3> HIDE DEF r, p, b
    <3> QED
      BY <1>3, <2>1
  <2> QED
    BY <2>2, Zenon DEF Pos
<1>4. CASE i # 0 /\ b[i].sn = seg.sn
  <2>1. r = k /\ seg.data = b[i].data /\ i \in 1..Len(b)
    BY <1>1, <1>2, <1>3, <1>4
  <2> QED
    BY <1>2, <1>3a, <2>1 DEF SameSender
<1>5. CASE ~(i # 0 /\ b[i].sn = seg.sn)
  <2>1. r = [k EXCEPT !.rcv_buf = p]
    BY <1>3, <1>5
  <2>2. new \in RcvSegs /\ new.data = seg.data /\ new.sn = seg.sn /\ new.frg = seg.frg
    BY <1>2 DEF RcvSegs
  <2>3. /\ p \in Seq(RcvSegs) /\ Len(p) = Len(b) + 1
        /\ \A j \in 1..i : p[j] = b[j]
        /\ p[i + 1] = new
        /\ \A j \in i + 2 .. Len(b) + 1 : p[j] = b[j - 1]
    <3>1. i + 1 \in 1 .. Len(b) + 1 /\ (i + 1) - 1 = i /\ (i + 1) + 1 = i + 2
      BY <1>2
    <3> HIDE DEF b, new, p
    <3>2. IsInserted(RcvSegs, b, i + 1, new, p)
      BY <1>2, <2>2, <3>1, InsertedAt, Zenon DEF p
    <3> QED
      BY <3>1, <3>2 DEF IsInserted
  <2> HIDE DEF new, p
  <2>4. /\ r \in KCPs /\ SameSender(k, r) /\ r.acklist = k.acklist
        /\ r.rcv_buf = p /\ r.rcv_queue = k.rcv_queue /\ r.rcv_nxt = k.rcv_nxt
    BY <2>1, <2>3 DEF KCPs, SameSender
  <2> HIDE DEF r, b, R
  <2>5. /\ \A j \in 1..Len(b) : /\ b[j].data \in R + 1 .. n /\ b[j].data <= R + RcvWnd
                                /\ OfStream(s, b[j])
        /\ \A j, l \in 1..Len(b) : j < l => b[l].data - b[j].data >= l - j
    BY <1>2 DEF ReceiverInv, Ascending, b, R
  <2>6. \A j \in 1 .. Len(b) + 1 :
            \/ j \in 1..i /\ j \in 1..Len(b) /\ p[j] = b[j]
            \/ j = i + 1 /\ p[j] = new
            \/ j \in i + 2 .. Len(b) + 1 /\ j - 1 \in 1..Len(b) /\ p[j] = b[j - 1]
    <3> TAKE j \in 1 .. Len(b) + 1
    <3>1. \/ j \in 1..i /\ j \in 1..Len(b)
          \/ j = i + 1
          \/ j \in i + 2 .. Len(b) + 1 /\ j - 1 \in 1..Len(b)
      BY SMTT(20), <1>2
    <3> QED
      BY <2>3, <3>1
  <2>7. \A j \in 1..i : j \in 1..Len(b) /\ seg.data - b[j].data >= i + 1 - j
    <3> TAKE j \in 1..i
    <3>1. i \in 1..Len(b) /\ j \in 1..Len(b)
      BY <1>2
    <3>2. b[i].data <= seg.data /\ b[i].data # seg.data
      BY <1>1, <1>2, <1>5, <3>1
    <3>3. j < i => b[i].data - b[j].data >= i - j
      BY <2>5, <3>1
    <3> QED
      BY SMTT(20), <1>2, <3>1, <3>2, <3>3
  <2>8. \A j \in i + 1 .. Len(b) : j \in 1..Len(b) /\ b[j].data - seg.data >= j - i
    <3> TAKE j \in i + 1 .. Len(b)
    <3>1. i + 1 \in 1..Len(b) /\ j \in 1..Len(b)
      BY <1>2
    <3>2. /\ seg.data < b[i + 1].data /\ b[i + 1].data \in Nat /\ b[j].data \in Nat
          /\ seg.data \in Nat
      BY SMTT(20), <1>1, <1>2, <3>1
    <3>3. i + 1 < j => b[j].data - b[i + 1].data >= j - (i + 1)
      BY <2>5, <3>1
    <3>4. j = i + 1 \/ i + 1 < j
      OBVIOUS
    <3>5. i \in Int /\ j \in Int /\ i + 1 <= j
      BY <1>2
    <3>6. j = i + 1 => b[j].data - seg.data >= j - i
      BY <3>2, <3>5
    <3>7. i + 1 < j => b[j].data - seg.data >= j - i
      BY SMTT(20), <3>2, <3>3, <3>5
    <3> QED
      BY <3>1, <3>4, <3>6, <3>7, Zenon
  <2>9. Ascending(p)
    <3> SUFFICES ASSUME NEW j \in 1 .. Len(b) + 1, NEW l \in 1 .. Len(b) + 1, j < l
                 PROVE  p[l].data - p[j].data >= l - j
      BY <2>3 DEF Ascending
    <3>1. CASE j \in 1..i /\ l \in 1..i
      <4>1. /\ p[j] = b[j] /\ p[l] = b[l] /\ b[l].data - b[j].data >= l - j
        BY <2>3, <2>5, <2>7, <3>1
      <4> QED
        BY <4>1
    <3>2. CASE j \in 1..i /\ l = i + 1
      <4>1. p[j] = b[j] /\ p[l].data = seg.data
        BY <2>2, <2>3, <3>2
      <4>2. seg.data - b[j].data >= l - j
        BY <2>7, <3>2
      <4> QED
        BY <4>1, <4>2
    <3>3. CASE j \in 1..i /\ l \in i + 2 .. Len(b) + 1
      <4>1. /\ p[j] = b[j] /\ p[l] = b[l - 1] /\ l - 1 \in i + 1 .. Len(b) /\ l - 1 \in 1..Len(b)
            /\ j \in 1..Len(b) /\ b[j].data \in Nat /\ b[l - 1].data \in Nat
        BY <1>2, <2>3, <2>7, <3>3
      <4>2. b[l - 1].data - seg.data >= l - 1 - i
        BY <2>8, <4>1
      <4>3. seg.data - b[j].data >= i + 1 - j
        BY <2>7, <3>3
      <4>4. b[l - 1].data - b[j].data >= l - j
        <5>1. \A x, y, z \in Nat : x - z >= l - 1 - i /\ z - y >= i + 1 - j => x - y >= l - j
          OBVIOUS
        <5>2. seg.data \in Nat
          BY <1>2
        <5> QED
          BY <4>1, <4>2, <4>3, <5>1, <5>2
      <4> QED
        BY <4>1, <4>4
    <3>4. CASE j = i + 1 /\ l \in i + 2 .. Len(b) + 1
      <4>1. p[j].data = seg.data /\ p[l] = b[l - 1] /\ l - 1 \in i + 1 .. Len(b)
        BY <1>2, <2>2, <2>3, <3>4
      <4>2. b[l - 1].data - seg.data >= l - 1 - i
        BY <2>8, <4>1
      <4> QED
        BY <3>4, <4>1, <4>2
    <3>5. CASE j \in i + 2 .. Len(b) + 1 /\ l \in i + 2 .. Len(b) + 1
      <4>1. /\ p[j] = b[j - 1] /\ p[l] = b[l - 1] /\ j - 1 \in 1..Len(b) /\ l - 1 \in 1..Len(b)
            /\ j - 1 < l - 1
        BY <1>2, <2>3, <3>5
      <4>2. b[l - 1].data - b[j - 1].data >= (l - 1) - (j - 1)
        BY <2>5, <4>1
      <4> QED
        BY <4>1, <4>2
    <3> QED
      BY <2>6, <3>1, <3>2, <3>3, <3>4, <3>5
  <2>10. \A j \in 1 .. Len(b) + 1 : /\ p[j].data \in R + 1 .. n /\ p[j].data <= R + RcvWnd
                                    /\ OfStream(s, p[j])
    <3> TAKE j \in 1 .. Len(b) + 1
    <3>1. CASE p[j] = new
      <4>1. OfStream(s, new) /\ new.data \in R + 1 .. n /\ new.data <= R + RcvWnd
        BY <1>2, <2>2 DEF OfStream
      <4> QED
        BY <3>1, <4>1
    <3>2. CASE \E l \in 1..Len(b) : p[j] = b[l]
      BY <2>5, <3>2
    <3> QED
      BY <2>6, <3>1, <3>2
  <2>11. Pos(r, g) = R
    BY <2>4 DEF Pos, R
  <2>12. DOMAIN p = 1 .. Len(b) + 1
    BY <2>3
  <2>13. ReceiverInv(r, g, s, n)
    BY <2>4, <2>9, <2>10, <2>11, <2>12 DEF ReceiverInv, R
  <2>14. Holds(r, g) = 1..R \cup {p[j].data : j \in 1 .. Len(b) + 1}
    BY <2>3, <2>4, <2>11, RcvFacts DEF Holds
  <2>15. \A j \in 1..Len(b) : \E l \in 1 .. Len(b) + 1 : p[l] = b[j]
    <3> TAKE j \in 1..Len(b)
    <3>1. CASE j <= i
      <4>1. j \in 1..i /\ j \in 1 .. Len(b) + 1
        BY <1>2, <3>1
      <4> QED
        BY <2>3, <4>1
    <3>2. CASE j > i
      <4>1. j + 1 \in i + 2 .. Len(b) + 1 /\ (j + 1) - 1 = j /\ j + 1 \in 1 .. Len(b) + 1
        BY <1>2, <3>2
      <4> QED
        BY <2>3, <4>1
    <3> QED
      BY <1>2, <3>1, <3>2
  <2>16. seg.data \in Holds(r, g)
    <3>1. i + 1 \in 1 .. Len(b) + 1 /\ p[i + 1].data = seg.data
      BY <1>2, <2>2, <2>3
    <3> QED
      BY <2>14, <3>1
  <2>17. Holds(k, g) \subseteq Holds(r, g)
    BY <1>2, <2>14, <2>15
  <2> QED
    BY <1>3a, <2>4, <2>13, <2>16, <2>17 DEF r
<1> QED
  BY <1>4, <1>5

\* A PUSH of the window is kept, and only what is kept is acknowledged.
LEMMA PushKeeps ==
    ASSUME NEW k \in KCPs, NEW S, NEW g \in Seq(S), NEW s, NEW n \in Nat,
           ReceiverInv(k, g, s, n), NEW seg, OfStream(s, seg),
           seg.sn \in Sns, seg.frg \in Nat, seg.data \in 1..n,
           n - seg.data < SndWnd + MaxLag, n <= Pos(k, g) + RcvWnd + SndWnd
    PROVE  /\ push(k, seg) \in KCPs /\ SameSender(k, push(k, seg))
           /\ ReceiverInv(push(k, seg), g, s, n)
           /\ Holds(k, g) \subseteq Holds(push(k, seg), g)
           /\ Pos(push(k, seg), g) >= Pos(k, g)
           /\ \A a \in push(k, seg).acklist :
                \/ a \in k.acklist
                \/ a = [sn |-> seg.sn, data |-> seg.data] /\ a.data \in Holds(push(k, seg), g)
<1> DEFINE R == Pos(k, g)
           new == [sn |-> seg.sn, data |-> seg.data]
           acked == [k EXCEPT !.acklist = @ \cup {new}]
<1>1. /\ R \in Nat /\ RcvWnd \in Nat \ {0} /\ SndWnd \in Nat \ {0} /\ MaxLag \in Nat
      /\ HalfRange \in Nat /\ HalfRange >= SndWnd + RcvWnd + MaxLag
      /\ R <= n /\ k.rcv_nxt = R % SnModulus /\ seg.sn = SnOf(seg.data)
      /\ seg.data \in Nat /\ 1..R \subseteq Holds(k, g)
  <2>1. /\ R \in Nat /\ RcvWnd \in Nat \ {0} /\ SndWnd \in Nat \ {0} /\ MaxLag \in Nat
        /\ HalfRange \in Nat /\ HalfRange >= SndWnd + RcvWnd + MaxLag
    BY PosNat, Halves
  <2>2. /\ R <= n /\ k.rcv_nxt = R % SnModulus /\ seg.sn = SnOf(seg.data)
        /\ 1..R \subseteq Holds(k, g)
    BY Zenon DEF ReceiverInv, OfStream, Holds
  <2> QED
    BY <2>1, <2>2
<1>2. acked \in KCPs /\ SameSender(k, acked) /\ SameReceiver(k, acked)
      /\ acked.acklist = k.acklist \cup {new}
  <2>1. new \in [sn : Sns, data : Nat]
    BY <1>1
  <2> HIDE DEF new
  <2> QED
    BY <2>1 DEF KCPs, SameSender, SameReceiver
<1> HIDE DEF acked, R
<1>3. R + RcvWnd + 1 \in Int /\ R + 1 \in Int
      /\ Add(k.rcv_nxt, RcvWnd) = SnOf(R + RcvWnd + 1) /\ k.rcv_nxt = SnOf(R + 1)
  <2>1. Add(k.rcv_nxt, RcvWnd) = (R + RcvWnd) % SnModulus
    <3>1. R \in Int /\ RcvWnd \in Int
      BY <1>1
    <3> QED
      BY <1>1, <3>1, AddRemainder, Zenon
  <2>2. (R + RcvWnd + 1) - 1 = R + RcvWnd /\ (R + 1) - 1 = R
    BY <1>1
  <2> QED
    BY <1>1, <2>1, <2>2 DEF SnOf
<1>4. Diff(seg.sn, Add(k.rcv_nxt, RcvWnd)) = seg.data - (R + RcvWnd + 1)
  <2>1. /\ seg.data \in Int
        /\ seg.data - (R + RcvWnd + 1) < HalfRange /\ (R + RcvWnd + 1) - seg.data <= HalfRange
    BY SMTT(20), <1>1 DEF R
  <2> QED
    BY <1>1, <1>3, <2>1, DiffPlaces, Zenon
<1>5. Diff(seg.sn, k.rcv_nxt) = seg.data - (R + 1)
  <2>1. /\ seg.data \in Int
        /\ seg.data - (R + 1) < HalfRange /\ (R + 1) - seg.data <= HalfRange
    BY SMTT(20), <1>1 DEF R
  <2> QED
    BY <1>1, <1>3, <2>1, DiffPlaces, Zenon
<1>6. push(k, seg) = IF seg.data > R + RcvWnd THEN k
                     ELSE IF seg.data > R THEN parse_data(acked, seg)
                     ELSE acked
  <2>1. seg.data - (R + RcvWnd + 1) >= 0 <=> seg.data > R + RcvWnd
    BY <1>1
  <2>2. seg.data - (R + 1) >= 0 <=> seg.data > R
    BY <1>1
  <2> QED
    BY <1>4, <1>5, <2>1, <2>2, Zenon DEF push, acked
<1>7. CASE seg.data > R + RcvWnd
  BY <1>1, <1>6, <1>7 DEF SameSender, R
<1>8. /\ ReceiverInv(acked, g, s, n) /\ Holds(acked, g) = Holds(k, g) /\ Pos(acked, g) = R
  BY <1>2, ReceiverSame DEF R
<1>9. CASE seg.data <= R
  <2>1. push(k, seg) = acked
    BY <1>1, <1>6, <1>9
  <2>2. seg.data \in Holds(k, g)
    BY <1>1, <1>9
  <2> QED
    BY <1>1, <1>2, <1>8, <2>1, <2>2 DEF R
<1>10. CASE seg.data > R /\ seg.data <= R + RcvWnd
  <2> DEFINE m == Placed(acked, seg)
             r == MoveAvailable(m)
  <2>1. push(k, seg) = r
    BY <1>1, <1>6, <1>10, PlacedBy
  <2>2. seg.data \in R + 1 .. R + RcvWnd /\ seg.data <= n
    BY <1>1, <1>10
  <2>3. /\ m \in KCPs /\ SameSender(acked, m) /\ m.acklist = acked.acklist
        /\ ReceiverInv(m, g, s, n)
        /\ Holds(acked, g) \subseteq Holds(m, g) /\ seg.data \in Holds(m, g)
        /\ Pos(m, g) = Pos(acked, g)
    BY <1>2, <1>8, <2>2, PlacedKeeps
  <2> HIDE DEF m
  <2>4. /\ r \in KCPs /\ SameSender(m, r) /\ r.acklist = m.acklist
        /\ ReceiverInv(r, g, s, n) /\ Holds(r, g) = Holds(m, g)
        /\ Pos(r, g) >= Pos(m, g)
    BY <2>3, MoveKeeps
  <2> HIDE DEF r
  <2>5. SameSender(k, r)
    BY <1>2, <2>3, <2>4 DEF SameSender
  <2> QED
    BY <1>2, <1>8, <2>1, <2>3, <2>4, <2>5 DEF R
<1> QED
  BY <1>1, <1>7, <1>9, <1>10

\* The fragments of a stream.
Fragments == [data : Nat, end : BOOLEAN]

\* The message that PeekSize finds ends where the sender marked its end.
LEMMA MessageFound ==
    ASSUME NEW k \in KCPs, NEW g \in Seq(Fragments), NEW s \in Seq(Fragments), NEW n \in Nat,
           ReceiverInv(k, g, s, n), PeekSize(k)
    PROVE  /\ MessageEnd(k.rcv_queue) \in 1..Len(k.rcv_queue)
           /\ \A i \in 1..MessageEnd(k.rcv_queue) :
                /\ Len(g) + i \in 1..Len(s)
                /\ s[Len(g) + i].end <=> i = MessageEnd(k.rcv_queue)
<1> DEFINE q == k.rcv_queue
           f == q[1].frg
           I == {i \in 1..Len(q) : q[i].frg = 0}
<1>1. /\ q \in Seq(RcvSegs) /\ Len(q) \in Nat /\ Len(g) \in Nat /\ Len(s) \in Nat
      /\ \A i \in 1..Len(q) : q[i].frg \in Nat
      /\ 1 \in 1..Len(q) /\ f \in Nat /\ f + 1 \in 1..Len(q)
  <2>1. /\ q \in Seq(RcvSegs) /\ Len(q) \in Nat /\ Len(g) \in Nat /\ Len(s) \in Nat
        /\ \A i \in 1..Len(q) : q[i].frg \in Nat
        /\ q # << >> <=> Len(q) # 0
    BY KcpFields, RcvFacts
  <2>2. q # << >> /\ Len(q) >= f + 1
    BY DEF PeekSize
  <2>3. 1 \in 1..Len(q)
    BY <2>1, <2>2
  <2> QED
    BY <2>1, <2>2, <2>3
<1>2. \A i \in 1..Len(q) : FrgOf(s, Len(g) + i, q[i].frg)
  BY <1>1 DEF ReceiverInv
<1> HIDE DEF q, f
<1>3. /\ Len(g) + f + 1 <= Len(s) /\ s[Len(g) + f + 1].end
      /\ \A j \in Len(g) + 1 .. Len(g) + f : ~s[j].end
  <2>1. FrgOf(s, Len(g) + 1, f)
    BY <1>1, <1>2 DEF f
  <2>2. (Len(g) + 1) + f = Len(g) + f + 1 /\ (Len(g) + 1) + f - 1 = Len(g) + f
    BY <1>1
  <2> QED
    BY <2>1, <2>2 DEF FrgOf
<1>4. ASSUME NEW i \in 1..Len(q), i <= f
      PROVE  i \notin I
  <2>1. Len(g) + i \in Len(g) + 1 .. Len(g) + f
    BY <1>1, <1>4
  <2>2. q[i].frg = 0 => s[Len(g) + i].end
    <3>1. (Len(g) + i) + 0 = Len(g) + i
      BY <1>1
    <3> QED
      BY <1>2, <3>1 DEF FrgOf
  <2> QED
    BY <1>3, <2>1, <2>2
<1>5. f + 1 \in I
  <2> SUFFICES ASSUME q[f + 1].frg # 0
               PROVE  FALSE
    BY <1>1
  <2>1. FrgOf(s, Len(g) + (f + 1), q[f + 1].frg) /\ q[f + 1].frg \in Nat
    BY <1>1, <1>2
  <2>2. Len(g) + (f + 1) \in Len(g) + (f + 1) .. Len(g) + (f + 1) + q[f + 1].frg - 1
    BY <1>1, <2>1
  <2>3. ~s[Len(g) + (f + 1)].end
    BY <2>1, <2>2 DEF FrgOf
  <2>4. Len(g) + (f + 1) = Len(g) + f + 1
    BY <1>1
  <2> QED
    BY <1>3, <2>3, <2>4
<1>6. MessageEnd(q) = f + 1
  <2>1. MessageEnd(q) = IF I # {} THEN Min(I) ELSE 0
    BY DEF MessageEnd, SelectInSeq
  <2>2. I \in SUBSET Nat /\ I # {}
    BY <1>1, <1>5
  <2>3. Min(I) \in I /\ \A m \in I : Min(I) <= m
    <3> HIDE DEF I
    <3> QED
      BY <2>2, MinIn
  <2>4. Min(I) <= f + 1 /\ Min(I) \in 1..Len(q) /\ ~(Min(I) <= f)
    BY <1>4, <1>5, <2>3
  <2> QED
    BY <1>1, <2>1, <2>2, <2>4
<1>7. ASSUME NEW i \in 1 .. f + 1
      PROVE  Len(g) + i \in 1..Len(s) /\ (s[Len(g) + i].end <=> i = f + 1)
  <2>1. CASE i = f + 1
    <3>1. Len(g) + i = Len(g) + f + 1
      BY <1>1, <2>1
    <3>2. Len(g) + f + 1 \in 1..Len(s)
      BY <1>1, <1>3
    <3> QED
      BY <1>3, <2>1, <3>1, <3>2
  <2>2. CASE i <= f
    <3>1. /\ Len(g) + i \in Len(g) + 1 .. Len(g) + f /\ i # f + 1
          /\ Len(g) + i \in 1..Len(s)
      BY <1>1, <1>3, <2>2
    <3> QED
      BY <1>3, <3>1
  <2> QED
    BY <1>1, <2>1, <2>2
<1> QED
  BY <1>1, <1>6, <1>7 DEF q

LEMMA IsFragment ==
    ASSUME NEW x \in Fragments
    PROVE  x.data \in Nat /\ x.end \in BOOLEAN /\ x = [data |-> x.data, end |-> x.end]
BY DEF Fragments

LEMMA MarkedIs ==
    ASSUME NEW data \in Seq(Nat)
    PROVE  /\ Marked(data) \in Seq(Fragments) /\ Len(Marked(data)) = Len(data)
           /\ \A i \in 1..Len(data) :
                /\ Marked(data)[i] = [data |-> data[i], end |-> i = Len(data)]
                /\ Marked(data)[i].data = data[i]
                /\ Marked(data)[i].end <=> i = Len(data)
<1>1. Len(data) \in Nat /\ DOMAIN data = 1..Len(data) /\ \A i \in 1..Len(data) : data[i] \in Nat
  OBVIOUS
<1> DEFINE F(i) == [data |-> data[i], end |-> i = Len(data)]
<1>2. Marked(data) = [i \in 1..Len(data) |-> F(i)]
  BY <1>1 DEF Marked
<1>3. \A i \in 1..Len(data) : F(i) \in Fragments
  BY <1>1 DEF Fragments
<1>4. \A i \in 1..Len(data) : F(i).data = data[i] /\ (F(i).end <=> i = Len(data))
  OBVIOUS
<1> HIDE DEF F
<1>5. /\ Marked(data) \in Seq(Fragments) /\ Len(Marked(data)) = Len(data)
      /\ \A i \in 1..Len(data) : Marked(data)[i] = F(i)
  BY <1>1, <1>2, <1>3
<1>6. \A i \in 1..Len(data) : Marked(data)[i] = [data |-> data[i], end |-> i = Len(data)]
  BY <1>5 DEF F
<1> QED
  BY <1>4, <1>5, <1>6

LEMMA Cancelled == \A x, y, m \in Int : (x + m) + (y - m) = x + y
OBVIOUS

\* A message taken from the queue is what the sender gave.
LEMMA RecvKeeps ==
    ASSUME NEW k \in KCPs, NEW g \in Seq(Fragments), NEW s \in Seq(Fragments), NEW n \in Nat,
           ReceiverInv(k, g, s, n), PeekSize(k), \A i \in DOMAIN s : s[i].data = i
    PROVE  LET h == g \o Marked(RecvData(k))
           IN  /\ Recv(k) \in KCPs /\ SameSender(k, Recv(k)) /\ Recv(k).acklist = k.acklist
               /\ h \in Seq(Fragments) /\ Len(h) > Len(g)
               /\ ReceiverInv(Recv(k), h, s, n)
               /\ Holds(Recv(k), h) = Holds(k, g)
               /\ Pos(Recv(k), h) >= Pos(k, g)
<1> DEFINE q == k.rcv_queue
           m == MessageEnd(q)
           data == RecvData(k)
           t == Marked(data)
           h == g \o t
           rest == SubSeq(q, m + 1, Len(q))
           j == [k EXCEPT !.rcv_queue = rest]
           r == MoveAvailable(j)
<1>1. /\ q \in Seq(RcvSegs) /\ Len(q) \in Nat /\ Len(g) \in Nat /\ Len(s) \in Nat
      /\ \A i \in 1..Len(q) : q[i].data = Len(g) + i /\ FrgOf(s, q[i].data, q[i].frg)
      /\ Pos(k, g) = Len(g) + Len(q) /\ DOMAIN g = 1..Len(g) /\ DOMAIN s = 1..Len(s)
      /\ \A i \in 1..Len(g) : g[i] = s[i]
      /\ Len(q) <= RcvWnd /\ RcvWnd \in Nat
  <2>1. /\ q \in Seq(RcvSegs) /\ Len(q) \in Nat /\ DOMAIN q = 1..Len(q)
        /\ DOMAIN g = 1..Len(g) /\ DOMAIN s = 1..Len(s) /\ Len(g) \in Nat /\ Len(s) \in Nat
    BY KcpFields
  <2>2. Pos(k, g) = Len(g) + Len(q) /\ RcvWnd \in Nat
    BY Halves DEF Pos
  <2> QED
    BY <2>1, <2>2 DEF ReceiverInv
<1>2. /\ m \in 1..Len(q)
      /\ \A i \in 1..m : Len(g) + i \in 1..Len(s) /\ (s[Len(g) + i].end <=> i = m)
  BY MessageFound
<1> HIDE DEF m
<1>3. data \in Seq(Nat) /\ Len(data) = m /\ \A i \in 1..m : data[i] = Len(g) + i
  <2>1. data = [i \in 1..m |-> q[i].data]
    BY DEF RecvData, m
  <2>2. \A i \in 1..m : i \in 1..Len(q) /\ q[i].data = Len(g) + i /\ q[i].data \in Nat
    BY SMTT(20), <1>1, <1>2
  <2>3. m \in Nat
    BY <1>1, <1>2
  <2> HIDE DEF data, q
  <2> QED
    BY <2>1, <2>2, <2>3
<1> HIDE DEF data
<1>4. /\ t \in Seq(Fragments) /\ Len(t) = m
      /\ \A i \in 1..m : t[i] = [data |-> Len(g) + i, end |-> i = m]
  <2>1. /\ t \in Seq(Fragments) /\ Len(t) = Len(data)
        /\ \A i \in 1..Len(data) : t[i] = [data |-> data[i], end |-> i = Len(data)]
    BY <1>3, MarkedIs
  <2> HIDE DEF t
  <2> QED
    BY <1>3, <2>1
<1> HIDE DEF t
<1>5. IsJoin(Fragments, g, t, h)
  BY <1>4, Joined, Zenon
<1> HIDE DEF h
<1>6. \A i \in 1..m : t[i] = s[Len(g) + i]
  <2> TAKE i \in 1..m
  <2>1. Len(g) + i \in 1..Len(s) /\ (s[Len(g) + i].end <=> i = m)
    BY <1>2
  <2>2. s[Len(g) + i] \in Fragments /\ s[Len(g) + i].data = Len(g) + i
    BY <1>1, <2>1
  <2>3. /\ s[Len(g) + i].end \in BOOLEAN
        /\ s[Len(g) + i] = [data |-> s[Len(g) + i].data, end |-> s[Len(g) + i].end]
    BY <2>2, IsFragment, Zenon
  <2>4. s[Len(g) + i].end = (i = m)
    BY <2>1, <2>3
  <2> QED
    BY <1>4, <2>2, <2>3, <2>4
<1>7. /\ h \in Seq(Fragments) /\ Len(h) = Len(g) + m /\ DOMAIN h = 1 .. Len(g) + m
      /\ \A i \in 1 .. Len(g) + m : h[i] = s[i]
  <2>1. h \in Seq(Fragments) /\ Len(h) = Len(g) + m /\ DOMAIN h = 1 .. Len(g) + m
    BY <1>4, <1>5 DEF IsJoin
  <2>2. ASSUME NEW i \in 1 .. Len(g) + m
        PROVE  h[i] = s[i]
    <3>1. CASE i <= Len(g)
      <4>1. i \in 1..Len(g)
        BY <3>1
      <4> QED
        BY <1>1, <1>5, <4>1 DEF IsJoin
    <3>2. CASE i > Len(g)
      <4>1. i - Len(g) \in 1..m /\ Len(g) + (i - Len(g)) = i
        BY <1>1, <1>2, <3>2
      <4>2. h[Len(g) + (i - Len(g))] = t[i - Len(g)]
        BY <1>4, <1>5, <4>1 DEF IsJoin
      <4> QED
        BY <1>6, <4>1, <4>2
    <3> QED
      BY <1>1, <1>2, <3>1, <3>2
  <2> QED
    BY <2>1, <2>2
<1>8. /\ rest \in Seq(RcvSegs) /\ Len(rest) = Len(q) - m
      /\ \A i \in 1 .. Len(q) - m : rest[i] = q[i + m]
  <2>1. m \in 0..Len(q)
    BY <1>2
  <2>2. q \in Seq(RcvSegs)
    BY <1>1
  <2> HIDE DEF q
  <2> QED
    BY <2>1, <2>2, Split
<1> HIDE DEF rest
<1>9. /\ j \in KCPs /\ SameSender(k, j) /\ j.acklist = k.acklist
      /\ j.rcv_queue = rest /\ j.rcv_buf = k.rcv_buf /\ j.rcv_nxt = k.rcv_nxt
  BY <1>8 DEF KCPs, SameSender
<1> HIDE DEF j
<1>10. Pos(j, h) = Pos(k, g)
  <2>1. Pos(j, h) = Len(h) + Len(rest) /\ Pos(k, g) = Len(g) + Len(q)
    BY <1>9 DEF Pos
  <2>2. Len(h) = Len(g) + m /\ Len(rest) = Len(q) - m
    BY <1>7, <1>8
  <2>3. Len(g) \in Int /\ Len(q) \in Int /\ m \in Int
    BY <1>1, <1>2
  <2>4. (Len(g) + m) + (Len(q) - m) = Len(g) + Len(q)
    BY <2>3, Cancelled, Zenon
  <2> QED
    BY <2>1, <2>2, <2>4
<1>11. \A i \in 1 .. Len(q) - m :
            rest[i].data = Len(h) + i /\ FrgOf(s, rest[i].data, rest[i].frg)
  <2> TAKE i \in 1 .. Len(q) - m
  <2>1. rest[i] = q[i + m] /\ i + m \in 1..Len(q) /\ Len(g) + (i + m) = Len(h) + i
    BY <1>1, <1>2, <1>7, <1>8
  <2> QED
    BY <1>1, <2>1
<1>12. ReceiverInv(j, h, s, n)
  <2>1. Len(rest) <= RcvWnd /\ DOMAIN rest = 1 .. Len(q) - m
    BY <1>1, <1>2, <1>8
  <2>2. ReceiverInv(k, g, s, n)
    OBVIOUS
  <2> HIDE DEF q
  <2> QED
    BY <1>7, <1>9, <1>10, <1>11, <2>1, <2>2 DEF ReceiverInv
<1>13. Holds(j, h) = Holds(k, g)
  BY <1>9, <1>10 DEF Holds
<1>14. /\ r \in KCPs /\ SameSender(j, r) /\ r.acklist = j.acklist
       /\ ReceiverInv(r, h, s, n) /\ Holds(r, h) = Holds(j, h)
       /\ Pos(r, h) >= Pos(j, h)
  BY <1>7, <1>9, <1>12, MoveKeeps
<1>15. Recv(k) = [r EXCEPT !.ask_tell =
                    r.ask_tell \/ (Len(q) >= RcvWnd /\ Len(r.rcv_queue) < RcvWnd)]
  BY DEF Recv, r, j, rest, m
<1> HIDE DEF r
<1>16. /\ Recv(k) \in KCPs /\ SameSender(r, Recv(k)) /\ SameReceiver(r, Recv(k))
       /\ Recv(k).acklist = r.acklist
  BY <1>14, <1>15 DEF KCPs, SameSender, SameReceiver
<1>17. ReceiverInv(Recv(k), h, s, n) /\ Holds(Recv(k), h) = Holds(r, h)
       /\ Pos(Recv(k), h) = Pos(r, h)
  BY <1>14, <1>16, ReceiverSame
<1>18. SameSender(k, Recv(k))
  BY <1>9, <1>14, <1>16 DEF SameSender
<1>19. Len(h) > Len(g)
  BY <1>1, <1>2, <1>7
<1> QED
  BY <1>7, <1>9, <1>10, <1>13, <1>14, <1>16, <1>17, <1>18, <1>19 DEF h, t, data

-----------------------------------------------------------------------------
(***************************************************************************)
(* The sender.                                                             *)
(***************************************************************************)
LEMMA SenderFacts ==
    ASSUME NEW k \in KCPs, NEW s \in Seq(Fragments), SenderInv(k, s)
    PROVE  /\ Nxt(k, s) \in Nat /\ Una(k, s) \in Nat /\ Una(k, s) <= Nxt(k, s)
           /\ Nxt(k, s) - Una(k, s) <= SndWnd
           /\ Nxt(k, s) + Len(k.snd_queue) = Len(s)
           /\ \A i \in 1..Len(k.snd_buf) :
                /\ k.snd_buf[i].data \in Una(k, s) + 1 .. Nxt(k, s)
                /\ k.snd_buf[i].sn = SnOf(k.snd_buf[i].data)
                /\ FrgOf(s, k.snd_buf[i].data, k.snd_buf[i].frg)
           /\ Len(k.snd_buf) <= SndWnd
           /\ 1 .. Una(k, s) \subseteq Done(k, s)
           /\ k.snd_buf = << >> => Una(k, s) = Nxt(k, s)
           /\ k.snd_buf # << >> => k.snd_buf[1].data = Una(k, s) + 1
<1> DEFINE b == k.snd_buf
           N == Nxt(k, s)
           U == Una(k, s)
<1>1. /\ b \in Seq(SndSegs) /\ Len(b) \in Nat /\ Len(k.snd_queue) \in Nat /\ Len(s) \in Nat
      /\ \A i \in 1..Len(b) : b[i].data \in Nat
      /\ b = << >> <=> Len(b) = 0
      /\ DataOf(b) = {b[i].data : i \in 1..Len(b)}
  <2>1. b \in Seq(SndSegs) /\ k.snd_queue \in Seq(QueueSegs)
    BY KcpFields
  <2>2. \A i \in 1..Len(b) : b[i].data \in Nat
    BY SndBufFacts
  <2>3. (b = << >> <=> Len(b) = 0) /\ DataOf(b) = {b[i].data : i \in 1..Len(b)}
    BY <2>1, SeqFacts, Zenon
  <2>4. Len(b) \in Nat /\ Len(k.snd_queue) \in Nat /\ Len(s) \in Nat
    BY <2>1
  <2> QED
    BY <2>1, <2>2, <2>3, <2>4
<1>2. N \in Nat /\ N + Len(k.snd_queue) = Len(s)
  BY <1>1 DEF SenderInv, Nxt
<1>3. /\ Ascending(b) /\ N - U <= SndWnd /\ SndWnd \in Nat
      /\ \A i \in 1..Len(b) : /\ b[i].data \in 1..N /\ b[i].sn = SnOf(b[i].data)
                              /\ FrgOf(s, b[i].data, b[i].frg)
  <2>1. DOMAIN b = 1..Len(b)
    BY <1>1
  <2> QED
    BY <2>1, Halves DEF SenderInv, OfStream
<1>4. /\ b = << >> => U = N
      /\ b # << >> => U = b[1].data - 1
  BY DEF Una
<1> HIDE DEF b, N, U
<1>5. CASE b = << >>
  BY <1>1, <1>2, <1>3, <1>4, <1>5 DEF b, N, U, Done
<1>6. CASE b # << >>
  <2>1. 1 \in 1..Len(b) /\ b[1].data \in 1..N /\ U = b[1].data - 1
    BY <1>1, <1>3, <1>4, <1>6
  <2>2. U \in Nat /\ U + 1 = b[1].data /\ U <= N
    BY <1>2, <2>1
  <2>3. \A i \in 1..Len(b) : b[i].data \in U + 1 .. N
    <3> TAKE i \in 1..Len(b)
    <3>1. 1 < i => b[1].data < b[i].data
      <4>1. 0 \in Int /\ N \in Int /\ 0 <= N /\ 0 + 1 = 1
        BY <1>2
      <4>2. \A j \in 1..Len(b) : b[j].data \in 0 + 1 .. N
        BY <1>3, <4>1
      <4>3. \A j, l \in 1..Len(b) : j < l => b[j].data < b[l].data
        BY <1>1, <1>3, <4>1, <4>2, AscendingBounds
      <4> QED
        BY <2>1, <4>3
    <3>2. i = 1 \/ 1 < i
      OBVIOUS
    <3> QED
      BY <1>3, <2>1, <2>2, <3>1, <3>2
  <2>4. Len(b) <= N - U
    <3>1. U \in Int /\ N \in Int
      BY <1>2, <2>2
    <3> QED
      BY <1>1, <1>3, <2>2, <2>3, <3>1, AscendingBounds
  <2>5. 1..U \subseteq Done(k, s)
    <3>1. Done(k, s) = 1..N \ {b[i].data : i \in 1..Len(b)}
      BY <1>1, Zenon DEF Done, b, N
    <3>2. \A x \in 1..U : x \in 1..N /\ \A i \in 1..Len(b) : b[i].data # x
      BY <1>2, <2>2, <2>3
    <3> QED
      BY <3>1, <3>2
  <2>6. Len(b) <= SndWnd
    BY <1>1, <1>2, <1>3, <2>2, <2>4
  <2> QED
    BY <1>2, <1>3, <1>6, <2>2, <2>3, <2>5, <2>6 DEF b, N, U
<1> QED
  BY <1>5, <1>6

\* What is left of snd_buf when some of it is done, with snd_una put right.
LEMMA ShrinkKeeps ==
    ASSUME NEW k \in KCPs, NEW s \in Seq(Fragments), SenderInv(k, s),
           NEW p \in Seq(SndSegs), NEW f,
           \A i \in 1..Len(p) : /\ f[i] \in 1..Len(k.snd_buf)
                                /\ p[i].data = k.snd_buf[f[i]].data
                                /\ p[i].sn = k.snd_buf[f[i]].sn
                                /\ p[i].frg = k.snd_buf[f[i]].frg,
           \A i, j \in 1..Len(p) : i < j => f[j] - f[i] >= j - i
    PROVE  LET r == shrink_buf([k EXCEPT !.snd_buf = p])
           IN  /\ r \in KCPs /\ SameReceiver(k, r) /\ r.acklist = k.acklist
               /\ SenderInv(r, s) /\ r.snd_buf = p
               /\ Nxt(r, s) = Nxt(k, s) /\ Una(r, s) >= Una(k, s)
<1> DEFINE b == k.snd_buf
           r == shrink_buf([k EXCEPT !.snd_buf = p])
           N == Nxt(k, s)
           U == Una(k, s)
           una == IF p = << >> THEN k.snd_nxt ELSE p[1].sn
<1>1. /\ b \in Seq(SndSegs) /\ N \in Nat /\ U \in Nat /\ U <= N /\ N - U <= SndWnd
      /\ \A i \in 1..Len(b) : /\ b[i].data \in U + 1 .. N /\ b[i].data \in Nat
                              /\ b[i].sn = SnOf(b[i].data) /\ b[i].sn \in Sns
                              /\ FrgOf(s, b[i].data, b[i].frg)
      /\ SndWnd \in Nat
  BY KcpFields, SenderFacts, SndBufFacts, Halves
<1>2. /\ Ascending(b) /\ k.snd_nxt = N % SnModulus
  BY DEF SenderInv
<1>3. Len(p) \in Nat /\ DOMAIN p = 1..Len(p) /\ (p # << >> => 1 \in 1..Len(p))
  OBVIOUS
<1> HIDE DEF b, N, U
<1>4. \A i \in 1..Len(p) : /\ p[i].data \in U + 1 .. N /\ p[i].sn = SnOf(p[i].data)
                           /\ p[i].sn \in Sns /\ FrgOf(s, p[i].data, p[i].frg)
  <2> TAKE i \in 1..Len(p)
  <2>1. /\ f[i] \in 1..Len(b) /\ p[i].data = b[f[i]].data
        /\ p[i].sn = b[f[i]].sn /\ p[i].frg = b[f[i]].frg
    BY DEF b
  <2> QED
    BY <1>1, <2>1
<1>5. Ascending(p)
  <2>1. \A i \in 1..Len(b) : b[i].data \in Nat
    BY <1>1
  <2>2. \A i \in 1..Len(p) : f[i] \in 1..Len(b) /\ p[i].data = b[f[i]].data
    BY DEF b
  <2>3. \A i, j \in 1..Len(p) : i < j => f[j] - f[i] >= j - i
    OBVIOUS
  <2> QED
    BY ZenonT(30), <1>1, <1>2, <2>1, <2>2, <2>3, AscendingPart
<1>6. una \in Sns
  <2>1. k.snd_nxt \in Sns
    BY KcpFields
  <2> QED
    BY <1>3, <1>4, <2>1
<1>7. r = [k EXCEPT !.snd_buf = p, !.snd_una = una]
  BY KcpFields DEF shrink_buf, KCPs
<1> HIDE DEF una
<1>8. /\ r \in KCPs /\ SameReceiver(k, r) /\ r.acklist = k.acklist
      /\ r.snd_buf = p /\ r.snd_una = una /\ r.snd_queue = k.snd_queue
      /\ r.snd_nxt = k.snd_nxt
  BY <1>6, <1>7 DEF KCPs, SameReceiver
<1> HIDE DEF r
<1>9. Nxt(r, s) = N
  BY <1>8 DEF Nxt, N
<1>10. Una(r, s) = IF p = << >> THEN N ELSE p[1].data - 1
  BY <1>8, <1>9 DEF Una
<1>11. Una(r, s) >= U /\ Una(r, s) \in Nat
  BY <1>1, <1>3, <1>4, <1>10
<1>12. una = Una(r, s) % SnModulus
  BY <1>2, <1>3, <1>4, <1>10 DEF una, SnOf
<1>13. N - Una(r, s) <= SndWnd
  BY <1>1, <1>11
<1>14. \A i \in 1..Len(p) : p[i].data \in 1..N /\ OfStream(s, p[i])
  BY <1>1, <1>4 DEF OfStream
<1>15. SenderInv(r, s)
  <2>1. SenderInv(k, s)
    OBVIOUS
  <2> QED
    BY <1>2, <1>3, <1>5, <1>8, <1>9, <1>12, <1>13, <1>14, <2>1 DEF SenderInv, N
<1> QED
  BY <1>8, <1>9, <1>11, <1>15 DEF r, N, U

LEMMA DoneIs ==
    ASSUME NEW k \in KCPs, NEW s
    PROVE  Done(k, s) = {d \in 1..Nxt(k, s) : \A i \in 1..Len(k.snd_buf) : k.snd_buf[i].data # d}
<1>1. DataOf(k.snd_buf) = {k.snd_buf[i].data : i \in 1..Len(k.snd_buf)}
  BY SndBufFacts
<1> QED
  BY <1>1 DEF Done

\* Everything before una is done, and nothing else.
LEMMA ParseUna ==
    ASSUME NEW k \in KCPs, NEW s \in Seq(Fragments), SenderInv(k, s),
           NEW u \in Nat, u <= Nxt(k, s), Nxt(k, s) - u <= HalfRange,
           NEW sn, sn = u % SnModulus
    PROVE  /\ parse_una(k, sn) \in KCPs /\ SameReceiver(k, parse_una(k, sn))
           /\ parse_una(k, sn).acklist = k.acklist
           /\ SenderInv(parse_una(k, sn), s)
           /\ Nxt(parse_una(k, sn), s) = Nxt(k, s)
           /\ Una(parse_una(k, sn), s) >= Una(k, s)
           /\ \A d \in Done(parse_una(k, sn), s) : d \in Done(k, s) \/ d <= u
<1> DEFINE b == k.snd_buf
           l == Len(b)
           N == Nxt(k, s)
           G == {i \in 1..l : Diff(sn, b[i].sn) > 0}
           n == Max({j \in 0..l : \A i \in 1..j : i \in G})
           p == SubSeq(b, n + 1, l)
           r == shrink_buf([k EXCEPT !.snd_buf = p])
<1>1. /\ b \in Seq(SndSegs) /\ l \in Nat /\ N \in Nat
      /\ \A i \in 1..l : b[i].data \in Nat
  BY KcpFields, SenderFacts, SndBufFacts
<1>2. \A i \in 1..l : b[i].data \in Una(k, s) + 1 .. N /\ b[i].sn = SnOf(b[i].data)
  BY SenderFacts
<1>3. Una(k, s) \in Nat /\ N - Una(k, s) <= SndWnd /\ SndWnd \in Nat
      /\ HalfRange \in Nat /\ SndWnd < HalfRange
  BY SenderFacts, Halves
<1>4. \A j \in 0..l : (\A i \in 1..j : Diff(sn, b[i].sn) > 0) <=> \A i \in 1..j : i \in G
  <2> TAKE j \in 0..l
  <2>1. \A i \in 1..j : i \in 1..l
    BY <1>1
  <2> QED
    BY <2>1
<1>5. {j \in 0..l : \A i \in 1..j : Diff(sn, b[i].sn) > 0} = {j \in 0..l : \A i \in 1..j : i \in G}
  BY <1>4
<1>6. parse_una(k, sn) = r
  BY <1>5, Zenon DEF parse_una
<1>7. \A i \in G : i \in 1..l /\ b[i].data <= u
  <2> TAKE i \in G
  <2>1. i \in 1..l /\ Diff(sn, b[i].sn) > 0
    OBVIOUS
  <2>2. /\ u + 1 \in Int /\ b[i].data \in Int
        /\ (u + 1) - b[i].data < HalfRange /\ b[i].data - (u + 1) <= HalfRange
    <3>1. PICK U \in Nat : U = Una(k, s)
      BY <1>3
    <3>2. /\ b[i].data \in U + 1 .. N /\ N - U < HalfRange /\ HalfRange \in Nat
          /\ u <= N /\ N - u <= HalfRange /\ N \in Nat
      BY <1>1, <1>2, <1>3, <2>1, <3>1
    <3> HIDE DEF N, b, G
    <3> QED
      BY <3>2
  <2>3. Diff(SnOf(u + 1), SnOf(b[i].data)) = (u + 1) - b[i].data
    BY <2>2, DiffPlaces, Zenon
  <2>4. (u + 1) - 1 = u
    OBVIOUS
  <2>5. Diff(sn, b[i].sn) = (u + 1) - b[i].data
    BY <1>2, <2>1, <2>3, <2>4 DEF SnOf
  <2> QED
    BY <1>1, <2>1, <2>2, <2>5
<1> HIDE DEF b, l, G, N
<1>8. n \in 0..l /\ \A i \in 1..n : i \in G
  BY <1>1, Beginning
<1> HIDE DEF n
<1>9. /\ p \in Seq(SndSegs) /\ Len(p) = l - n
      /\ \A i \in 1 .. l - n : p[i] = b[i + n]
  BY <1>1, <1>8, Split DEF l
<1> HIDE DEF p
<1> DEFINE f == [i \in 1..Len(p) |-> i + n]
<1>10. \A i \in 1..Len(p) : f[i] \in 1..l /\ p[i] = b[f[i]]
  BY <1>1, <1>8, <1>9
<1>11. \A i, j \in 1..Len(p) : i < j => f[j] - f[i] >= j - i
  BY <1>8, <1>9
<1> HIDE DEF f
<1>12. /\ r \in KCPs /\ SameReceiver(k, r) /\ r.acklist = k.acklist
       /\ SenderInv(r, s) /\ r.snd_buf = p
       /\ Nxt(r, s) = N /\ Una(r, s) >= Una(k, s)
  BY <1>9, <1>10, <1>11, ShrinkKeeps DEF b, l, N
<1> HIDE DEF r
<1>13. ASSUME NEW d \in Done(r, s), d \notin Done(k, s)
       PROVE  d <= u
  <2>1. d \in 1..N /\ \A i \in 1..Len(p) : p[i].data # d
    BY <1>12, DoneIs
  <2>2. PICK i \in 1..l : b[i].data = d
    BY <1>13, <2>1, DoneIs DEF b, l, N
  <2>3. CASE i <= n
    BY <1>7, <1>8, <2>2, <2>3
  <2>4. CASE i > n
    <3>1. i - n \in 1..Len(p) /\ (i - n) + n = i
      BY <1>1, <1>8, <1>9, <2>4
    <3>2. p[i - n] = b[i]
      BY <1>9, <3>1
    <3> QED
      BY <2>1, <2>2, <3>1, <3>2
  <2> QED
    BY <1>1, <1>8, <2>3, <2>4
<1> QED
  BY <1>6, <1>12, <1>13 DEF N

\* The place that was acknowledged is done, and nothing else.
LEMMA ParseAck ==
    ASSUME NEW k \in KCPs, NEW s \in Seq(Fragments), SenderInv(k, s),
           NEW c \in 1..Nxt(k, s), Nxt(k, s) - c < SnModulus
    PROVE  /\ parse_ack(k, SnOf(c)) \in KCPs /\ SameReceiver(k, parse_ack(k, SnOf(c)))
           /\ parse_ack(k, SnOf(c)).acklist = k.acklist
           /\ SenderInv(parse_ack(k, SnOf(c)), s)
           /\ Nxt(parse_ack(k, SnOf(c)), s) = Nxt(k, s)
           /\ Una(parse_ack(k, SnOf(c)), s) >= Una(k, s)
           /\ \A d \in Done(parse_ack(k, SnOf(c)), s) : d \in Done(k, s) \/ d = c
<1> DEFINE sn == SnOf(c)
           b == k.snd_buf
           l == Len(b)
           N == Nxt(k, s)
           I == {i \in 1..l : b[i].sn = sn}
           n == SelectInSeq(b, LAMBDA seg : seg.sn = sn)
           upto == IF n = 0 THEN l ELSE n - 1
           o == [i \in DOMAIN b |-> IF i <= upto THEN Overtaken(b[i]) ELSE b[i]]
           p == IF n = 0 THEN o ELSE RemoveAt(o, n)
           r == shrink_buf([k EXCEPT !.snd_buf = p])
<1>1. /\ b \in Seq(SndSegs) /\ l \in Nat /\ N \in Nat /\ DOMAIN b = 1..l
      /\ \A i \in 1..l : b[i].data \in Nat /\ b[i] \in SndSegs
  BY KcpFields, SenderFacts, SndBufFacts
<1>2. /\ \A i \in 1..l : b[i].data \in Una(k, s) + 1 .. N /\ b[i].sn = SnOf(b[i].data)
      /\ Una(k, s) \in Nat /\ N - Una(k, s) <= SndWnd /\ SndWnd \in Nat
      /\ SnModulus \in Nat /\ SndWnd <= SnModulus
  BY SenderFacts, Halves
<1>3. parse_ack(k, sn) = k \/ parse_ack(k, sn) = r
  BY Zenon DEF parse_ack
<1>4. CASE parse_ack(k, sn) = k
  BY <1>2, <1>4 DEF SameReceiver
<1>5. n = IF I # {} THEN Min(I) ELSE 0
  BY DEF SelectInSeq
<1> HIDE DEF sn
<1>6. n \in 0..l /\ (n # 0 => b[n].data = c)
  <2>1. CASE I = {}
    BY <1>1, <1>5, <2>1
  <2>2. CASE I # {}
    <3>1. I \in SUBSET Nat
      OBVIOUS
    <3>2. Min(I) \in I
      <4> HIDE DEF I
      <4> QED
        BY <2>2, <3>1, MinIn
    <3>3. n \in 1..l /\ b[n].sn = sn
      BY <1>5, <2>2, <3>2
    <3> HIDE DEF n, b, l, N
    <3>4. b[n].data \in Una(k, s) + 1 .. N /\ SnOf(b[n].data) = SnOf(c)
      BY <1>2, <3>3 DEF sn
    <3>5. b[n].data \in Int /\ c \in Int /\ b[n].data - c < SnModulus /\ c - b[n].data < SnModulus
      BY SMTT(20), <1>1, <1>2, <3>4 DEF N
    <3>6. b[n].data = c
      BY <3>4, <3>5, SamePlace
    <3> QED
      BY <3>3, <3>6
  <2> QED
    BY <2>1, <2>2
<1> HIDE DEF b, l, N, n, I
<1>7. /\ o \in Seq(SndSegs) /\ Len(o) = l
      /\ \A i \in 1..l : o[i].data = b[i].data /\ o[i].sn = b[i].sn /\ o[i].frg = b[i].frg
  <2> DEFINE F(i) == IF i <= upto THEN Overtaken(b[i]) ELSE b[i]
  <2>1. o = [i \in 1..l |-> F(i)]
    BY <1>1
  <2>2. \A x \in SndSegs : /\ Overtaken(x) \in SndSegs
                           /\ Overtaken(x).data = x.data /\ Overtaken(x).sn = x.sn
                           /\ Overtaken(x).frg = x.frg
    <3> TAKE x \in SndSegs
    <3>1. Min({FastResend, x.fastack + 1}) \in 0..FastResend
      <4>1. x.fastack \in 0..FastResend /\ FastResend \in Nat
        BY Halves DEF SndSegs
      <4>2. x.fastack + 1 \in Int /\ FastResend \in Int
        BY <4>1
      <4>3. Min({FastResend, x.fastack + 1})
                = IF FastResend <= x.fastack + 1 THEN FastResend ELSE x.fastack + 1
        BY <4>2, MinOfTwo, Zenon
      <4> QED
        BY <4>1, <4>3
    <3> DEFINE y == Min({FastResend, x.fastack + 1})
    <3>2. Overtaken(x) = [x EXCEPT !.fastack = y]
      BY DEF Overtaken
    <3> HIDE DEF y
    <3> QED
      BY <3>1, <3>2 DEF SndSegs, y
  <2>3. \A i \in 1..l : /\ F(i) \in SndSegs /\ F(i).data = b[i].data
                        /\ F(i).sn = b[i].sn /\ F(i).frg = b[i].frg
    BY <1>1, <2>2
  <2> HIDE DEF F, o
  <2>4. o \in Seq(SndSegs) /\ Len(o) = l /\ \A i \in 1..l : o[i] = F(i)
    BY <1>1, <2>1, <2>3
  <2> QED
    BY <2>3, <2>4, Zenon
<1> HIDE DEF o
<1> DEFINE f == [i \in 1..l |-> IF n = 0 \/ i < n THEN i ELSE i + 1]
<1>8. /\ p \in Seq(SndSegs) /\ Len(p) = (IF n = 0 THEN l ELSE l - 1)
      /\ \A i \in 1..Len(p) : f[i] \in 1..l /\ p[i] = o[f[i]]
  <2>1. CASE n = 0
    BY <1>1, <1>7, <2>1
  <2>2. CASE n # 0
    <3>1. n \in 1..Len(o)
      BY <1>6, <1>7, <2>2
    <3>2. IsRemoved(SndSegs, o, n, p)
      BY <1>7, <2>2, <3>1, RemovedAt, Zenon
    <3> HIDE DEF p
    <3>3. p \in Seq(SndSegs) /\ Len(p) = l - 1
      BY <1>7, <3>2 DEF IsRemoved
    <3>4. ASSUME NEW i \in 1 .. l - 1
          PROVE  f[i] \in 1..l /\ p[i] = o[f[i]]
      <4>1. CASE i < n
        <5>1. i \in 1 .. n - 1 /\ f[i] = i
          BY <1>1, <1>6, <4>1
        <5> QED
          BY <1>1, <3>2, <5>1 DEF IsRemoved
      <4>2. CASE i >= n
        <5>1. i \in n .. Len(o) - 1 /\ f[i] = i + 1 /\ i + 1 \in 1..l
          BY <1>1, <1>6, <1>7, <2>2, <4>2
        <5> QED
          BY <3>2, <5>1 DEF IsRemoved
      <4> QED
        BY <1>6, <4>1, <4>2
    <3> QED
      BY <2>2, <3>3, <3>4
  <2> QED
    BY <2>1, <2>2
<1> HIDE DEF p
<1>9. \A i, j \in 1..Len(p) : i < j => f[j] - f[i] >= j - i
  BY <1>1, <1>6, <1>8
<1>10. ASSUME NEW i \in 1..l, i # n
       PROVE  \E j \in 1..Len(p) : f[j] = i
  <2>1. CASE n = 0 \/ i < n
    <3>1. i \in 1..Len(p) /\ f[i] = i
      BY <1>1, <1>6, <1>8, <2>1
    <3> QED
      BY <3>1
  <2>2. CASE n # 0 /\ i > n
    <3>1. i - 1 \in 1..Len(p) /\ f[i - 1] = i
      BY <1>1, <1>6, <1>8, <2>2
    <3> QED
      BY <3>1
  <2> QED
    BY <1>6, <1>10, <2>1, <2>2
<1> HIDE DEF f
<1>11. \A i \in 1..Len(p) : /\ f[i] \in 1..Len(k.snd_buf)
                            /\ p[i].data = k.snd_buf[f[i]].data
                            /\ p[i].sn = k.snd_buf[f[i]].sn
                            /\ p[i].frg = k.snd_buf[f[i]].frg
  BY <1>7, <1>8 DEF b, l
<1>12. /\ r \in KCPs /\ SameReceiver(k, r) /\ r.acklist = k.acklist
       /\ SenderInv(r, s) /\ r.snd_buf = p
       /\ Nxt(r, s) = Nxt(k, s) /\ Una(r, s) >= Una(k, s)
  BY <1>8, <1>9, <1>11, ShrinkKeeps
<1> HIDE DEF r
<1>13. ASSUME NEW d \in Done(r, s), d \notin Done(k, s)
       PROVE  d = c
  <2>1. d \in 1..N /\ \A i \in 1..Len(p) : p[i].data # d
    BY <1>12, DoneIs DEF N
  <2>2. PICK i \in 1..l : b[i].data = d
    BY <1>13, <2>1, DoneIs DEF b, l, N
  <2>3. ASSUME i # n
        PROVE  FALSE
    <3>1. PICK j \in 1..Len(p) : f[j] = i
      BY <1>10, <2>3
    <3>2. p[j].data = b[i].data
      BY <1>11, <3>1 DEF b
    <3> QED
      BY <2>1, <2>2, <3>2
  <2> QED
    BY <1>6, <2>2, <2>3
<1>14. CASE parse_ack(k, sn) = r
  BY <1>12, <1>13, <1>14 DEF sn
<1> QED
  BY <1>3, <1>4, <1>14 DEF sn

\* A longer stream begins with the shorter one.
Extends(t, s) == Len(t) >= Len(s) /\ \A i \in 1..Len(s) : t[i] = s[i]

LEMMA FrgExtends ==
    ASSUME NEW s \in Seq(Fragments), NEW t \in Seq(Fragments), Extends(t, s),
           NEW d \in Nat \ {0}, NEW f \in Nat, FrgOf(s, d, f)
    PROVE  FrgOf(t, d, f)
<1>1. Len(s) \in Nat /\ Len(t) \in Nat /\ d + f \in Nat
  OBVIOUS
<1>2. f < MaxFrag /\ d + f <= Len(s) /\ s[d + f].end /\ \A j \in d .. d + f - 1 : ~s[j].end
  BY DEF FrgOf
<1>3. d + f \in 1..Len(s) /\ \A j \in d .. d + f - 1 : j \in 1..Len(s)
  BY <1>1, <1>2
<1>4. t[d + f] = s[d + f] /\ \A j \in d .. d + f - 1 : t[j] = s[j]
  BY <1>3, Zenon DEF Extends
<1>5. t[d + f].end /\ \A j \in d .. d + f - 1 : ~t[j].end
  BY <1>2, <1>4, Zenon
<1>6. d + f <= Len(t)
  BY <1>1, <1>2 DEF Extends
<1> QED
  BY <1>2, <1>5, <1>6 DEF FrgOf

LEMMA ReceiverExtends ==
    ASSUME NEW k \in KCPs, NEW g \in Seq(Fragments),
           NEW s \in Seq(Fragments), NEW t \in Seq(Fragments), Extends(t, s),
           NEW n \in Nat, n <= Len(s), ReceiverInv(k, g, s, n)
    PROVE  ReceiverInv(k, g, t, n)
<1> DEFINE q == k.rcv_queue
           b == k.rcv_buf
<1>1. /\ DOMAIN q = 1..Len(q) /\ DOMAIN b = 1..Len(b) /\ DOMAIN g = 1..Len(g)
      /\ Len(q) \in Nat /\ Len(b) \in Nat /\ Len(g) \in Nat /\ Len(s) \in Nat
      /\ \A i \in 1..Len(q) : q[i].frg \in Nat /\ q[i].data \in Nat
      /\ \A i \in 1..Len(b) : b[i].frg \in Nat /\ b[i].data \in Nat
      /\ Pos(k, g) = Len(g) + Len(q) /\ Pos(k, g) \in Nat
  <2>1. q \in Seq(RcvSegs) /\ b \in Seq(RcvSegs)
    BY KcpFields
  <2>2. /\ \A i \in 1..Len(q) : q[i].frg \in Nat /\ q[i].data \in Nat
        /\ \A i \in 1..Len(b) : b[i].frg \in Nat /\ b[i].data \in Nat
    BY <2>1, RcvFacts
  <2>3. Pos(k, g) = Len(g) + Len(q) /\ Pos(k, g) \in Nat
    BY PosNat
  <2> HIDE DEF q, b
  <2>4. /\ DOMAIN q = 1..Len(q) /\ DOMAIN b = 1..Len(b) /\ DOMAIN g = 1..Len(g)
        /\ Len(q) \in Nat /\ Len(b) \in Nat /\ Len(g) \in Nat /\ Len(s) \in Nat
    BY <2>1
  <2> QED
    BY <2>2, <2>3, <2>4
<1>2. \A i \in 1..Len(q) : q[i].data # 0 /\ FrgOf(t, q[i].data, q[i].frg)
  <2> TAKE i \in 1..Len(q)
  <2>1. q[i].data = Len(g) + i /\ FrgOf(s, q[i].data, q[i].frg)
    BY <1>1 DEF ReceiverInv
  <2>2. q[i].data \in Nat \ {0} /\ q[i].frg \in Nat
    BY <1>1, <2>1
  <2> QED
    BY <2>1, <2>2, FrgExtends
<1>3. \A i \in 1..Len(b) : OfStream(t, b[i])
  <2> TAKE i \in 1..Len(b)
  <2>1. b[i].data \in Pos(k, g) + 1 .. n /\ b[i].sn = SnOf(b[i].data) /\ FrgOf(s, b[i].data, b[i].frg)
    BY <1>1 DEF ReceiverInv, OfStream
  <2>2. b[i].data \in Nat \ {0} /\ b[i].frg \in Nat
    BY <1>1, <2>1
  <2> QED
    BY <2>1, <2>2, FrgExtends DEF OfStream
<1>4. \A i \in 1..Len(g) : g[i] = t[i]
  <2>1. \A i \in 1..Len(g) : g[i] = s[i] /\ i \in 1..Len(s)
    BY <1>1 DEF ReceiverInv
  <2> QED
    BY <2>1 DEF Extends
<1>5. ReceiverInv(k, g, s, n)
  OBVIOUS
<1> HIDE DEF q, b
<1> QED
  BY <1>1, <1>2, <1>3, <1>4, <1>5 DEF ReceiverInv, q, b

\* A message is numbered down to its end.
LEMMA SendKeeps ==
    ASSUME NEW k \in KCPs, NEW s \in Seq(Fragments), SenderInv(k, s), NEW n \in 1..MaxFrag
    PROVE  LET data == [i \in 1..n |-> Len(s) + i]
               t == s \o Marked(data)
               r == Send(k, data)
           IN  /\ t \in Seq(Fragments) /\ Len(t) = Len(s) + n /\ Extends(t, s)
               /\ r \in KCPs /\ SameReceiver(k, r) /\ r.acklist = k.acklist
               /\ SenderInv(r, t) /\ r.snd_buf = k.snd_buf
               /\ Nxt(r, t) = Nxt(k, s) /\ Una(r, t) = Una(k, s) /\ Done(r, t) = Done(k, s)
<1> DEFINE data == [i \in 1..n |-> Len(s) + i]
           m == Marked(data)
           t == s \o m
           r == Send(k, data)
           N == Nxt(k, s)
           q == k.snd_queue
           F(i) == [frg |-> Len(data) - i, data |-> data[i]]
           new == [i \in 1..Len(data) |-> F(i)]
           u == q \o new
<1>1. /\ n \in Nat /\ n <= MaxFrag /\ MaxFrag \in Nat /\ Len(s) \in Nat /\ DOMAIN s = 1..Len(s)
      /\ q \in Seq(QueueSegs) /\ Len(q) \in Nat /\ DOMAIN q = 1..Len(q)
      /\ N \in Nat /\ N + Len(q) = Len(s)
  BY Halves, KcpFields, SenderFacts
<1>2. data \in Seq(Nat) /\ Len(data) = n /\ \A i \in 1..n : data[i] = Len(s) + i
  BY <1>1
<1> HIDE DEF data
<1>3. /\ m \in Seq(Fragments) /\ Len(m) = n
      /\ \A i \in 1..n : m[i].data = Len(s) + i /\ (m[i].end <=> i = n)
  <2>1. /\ m \in Seq(Fragments) /\ Len(m) = Len(data)
        /\ \A i \in 1..Len(data) : m[i].data = data[i] /\ (m[i].end <=> i = Len(data))
    BY <1>2, MarkedIs
  <2> HIDE DEF m
  <2> QED
    BY <1>2, <2>1
<1> HIDE DEF m
<1>4. IsJoin(Fragments, s, m, t)
  BY <1>3, Joined, Zenon
<1> HIDE DEF t
<1>5. /\ t \in Seq(Fragments) /\ Len(t) = Len(s) + n /\ DOMAIN t = 1 .. Len(s) + n
      /\ Extends(t, s)
  BY <1>1, <1>3, <1>4 DEF IsJoin, Extends
<1>6. \A i \in 1..n : t[Len(s) + i].data = Len(s) + i /\ (t[Len(s) + i].end <=> i = n)
  <2> TAKE i \in 1..n
  <2>1. t[Len(s) + i] = m[i]
    BY <1>3, <1>4 DEF IsJoin
  <2>2. m[i].data = Len(s) + i /\ (m[i].end <=> i = n)
    BY <1>3
  <2> QED
    BY <2>1, <2>2
<1>7. \A i \in 1 .. Len(s) + n : t[i].data = i
  <2> TAKE i \in 1 .. Len(s) + n
  <2>1. CASE i <= Len(s)
    <3>1. i \in 1..Len(s) /\ s[i].data = i
      BY <1>1, <2>1 DEF SenderInv
    <3> QED
      BY <1>5, <3>1 DEF Extends
  <2>2. CASE i > Len(s)
    <3>1. i - Len(s) \in 1..n /\ Len(s) + (i - Len(s)) = i
      BY <1>1, <2>2
    <3> QED
      BY <1>6, <3>1
  <2> QED
    BY <1>1, <2>1, <2>2
<1>8. \A i \in 1..n : FrgOf(t, Len(s) + i, n - i)
  <2> TAKE i \in 1..n
  <2>1. /\ n - i < MaxFrag /\ (Len(s) + i) + (n - i) = Len(s) + n /\ n \in 1..n
        /\ (Len(s) + i) + (n - i) - 1 = Len(s) + n - 1
    BY <1>1
  <2>2. \A j \in Len(s) + i .. Len(s) + n - 1 : ~t[j].end
    <3> TAKE j \in Len(s) + i .. Len(s) + n - 1
    <3>1. j - Len(s) \in 1..n /\ Len(s) + (j - Len(s)) = j /\ j - Len(s) # n
      BY <1>1
    <3> QED
      BY <1>6, <3>1
  <2> QED
    BY <1>1, <1>5, <1>6, <2>1, <2>2 DEF FrgOf
<1>9. /\ new \in Seq(QueueSegs) /\ Len(new) = n
      /\ \A i \in 1..n : new[i].data = Len(s) + i /\ new[i].frg = n - i
  <2>1. \A i \in 1..n : F(i) \in QueueSegs /\ F(i).data = Len(s) + i /\ F(i).frg = n - i
    BY <1>1, <1>2 DEF QueueSegs
  <2>2. new = [i \in 1..n |-> F(i)]
    BY <1>2
  <2> HIDE DEF F, new
  <2>3. new \in Seq(QueueSegs) /\ Len(new) = n /\ \A i \in 1..n : new[i] = F(i)
    <3>1. n \in Nat
      OBVIOUS
    <3>2. \A i \in 1..n : F(i) \in QueueSegs
      BY <2>1
    <3> QED
      BY <2>2, <3>1, <3>2
  <2> QED
    BY <2>1, <2>3, Zenon
<1>10. r = [k EXCEPT !.snd_queue = u]
  BY DEF Send
<1> HIDE DEF new
<1>11. IsJoin(QueueSegs, q, new, u)
  BY <1>1, <1>9, Joined, Zenon
<1> HIDE DEF u, q, N
<1>12. u \in Seq(QueueSegs) /\ Len(u) = Len(q) + n /\ DOMAIN u = 1 .. Len(q) + n
  BY <1>1, <1>9, <1>11 DEF IsJoin
<1>13. /\ r \in KCPs /\ SameReceiver(k, r) /\ r.acklist = k.acklist
       /\ r.snd_queue = u /\ r.snd_buf = k.snd_buf /\ r.snd_nxt = k.snd_nxt
       /\ r.snd_una = k.snd_una
  BY <1>10, <1>12 DEF KCPs, SameReceiver
<1> HIDE DEF r
<1>14. Nxt(r, t) = N
  <2>1. Len(r.snd_queue) = Len(q) + n /\ Len(t) = Len(s) + n
    BY <1>5, <1>12, <1>13
  <2> QED
    BY <1>1, <2>1 DEF Nxt
<1>15. \A i \in 1 .. Len(q) + n : u[i].data = N + i /\ FrgOf(t, u[i].data, u[i].frg)
  <2> TAKE i \in 1 .. Len(q) + n
  <2>1. CASE i <= Len(q)
    <3>1. i \in 1..Len(q) /\ u[i] = q[i]
      BY <1>1, <1>11, <2>1 DEF IsJoin
    <3>2. q[i].data = N + i /\ FrgOf(s, q[i].data, q[i].frg)
      BY <1>1, <3>1 DEF SenderInv, q, N
    <3>3. q[i].data \in Nat \ {0} /\ q[i].frg \in Nat
      <4>1. q[i] \in QueueSegs
        BY <1>1, <3>1
      <4> QED
        BY <1>1, <3>2, <4>1 DEF QueueSegs
    <3>4. FrgOf(t, q[i].data, q[i].frg)
      BY <1>5, <3>2, <3>3, FrgExtends
    <3> QED
      BY <3>1, <3>2, <3>4
  <2>2. CASE i > Len(q)
    <3>1. i - Len(q) \in 1..n /\ Len(q) + (i - Len(q)) = i
      BY <1>1, <2>2
    <3>2. u[i] = new[i - Len(q)]
      BY <1>9, <1>11, <3>1 DEF IsJoin
    <3>3. Len(s) + (i - Len(q)) = N + i
      BY <1>1
    <3>4. u[i].data = Len(s) + (i - Len(q)) /\ u[i].frg = n - (i - Len(q))
      BY <1>9, <3>1, <3>2
    <3> QED
      BY <1>8, <3>1, <3>3, <3>4
  <2> QED
    BY <1>1, <2>1, <2>2
<1>16. \A i \in 1..Len(k.snd_buf) : k.snd_buf[i].data \in 1..N /\ OfStream(t, k.snd_buf[i])
  <2> TAKE i \in 1..Len(k.snd_buf)
  <2>1. /\ k.snd_buf[i].data \in Una(k, s) + 1 .. N /\ k.snd_buf[i].sn = SnOf(k.snd_buf[i].data)
        /\ FrgOf(s, k.snd_buf[i].data, k.snd_buf[i].frg) /\ Una(k, s) \in Nat
    BY SenderFacts DEF N
  <2>2. k.snd_buf[i].data \in Nat \ {0} /\ k.snd_buf[i].frg \in Nat /\ k.snd_buf[i].data \in 1..N
    BY SMTT(20), <2>1, SndBufFacts
  <2> QED
    BY <1>5, <2>1, <2>2, FrgExtends DEF OfStream
<1>17. Una(r, t) = Una(k, s) /\ Done(r, t) = Done(k, s)
  BY <1>13, <1>14 DEF Una, Done, N
<1>18. SenderInv(r, t)
  <2>1. DOMAIN k.snd_buf = 1..Len(k.snd_buf)
    BY SndBufFacts
  <2>2. /\ Ascending(k.snd_buf) /\ k.snd_nxt = N % SnModulus
        /\ k.snd_una = Una(k, s) % SnModulus /\ N - Una(k, s) <= SndWnd /\ N >= 0
    BY <1>1 DEF SenderInv, N
  <2> QED
    BY <1>5, <1>7, <1>12, <1>13, <1>14, <1>15, <1>16, <1>17, <2>1, <2>2 DEF SenderInv
<1> QED
  BY <1>5, <1>13, <1>14, <1>17, <1>18 DEF t, r, m, data, N

\* How many segments the window admits.
LEMMA AdmittedFits ==
    ASSUME NEW k \in KCPs, NEW s \in Seq(Fragments), SenderInv(k, s), NEW cwnd \in 0..SndWnd
    PROVE  /\ Admitted(k, cwnd) \in 0..Len(k.snd_queue)
           /\ Nxt(k, s) + Admitted(k, cwnd) - Una(k, s) <= SndWnd
<1> DEFINE N == Nxt(k, s)
           U == Una(k, s)
           l == Len(k.snd_queue)
           G == {i \in 1..l : Diff(Add(k.snd_nxt, i - 1), Add(k.snd_una, cwnd)) < 0}
           n == Max({j \in 0..l : \A i \in 1..j : i \in G})
<1>1. /\ N \in Nat /\ U \in Nat /\ U <= N /\ N - U <= SndWnd /\ SndWnd \in Nat \ {0} /\ l \in Nat
      /\ k.snd_nxt = N % SnModulus /\ k.snd_una = U % SnModulus
      /\ HalfRange \in Nat /\ SndWnd < HalfRange
  <2>1. /\ N \in Nat /\ U \in Nat /\ U <= N /\ N - U <= SndWnd
    BY SenderFacts
  <2>2. /\ SndWnd \in Nat \ {0} /\ HalfRange \in Nat /\ SndWnd < HalfRange /\ l \in Nat
    BY Halves, SndQueueFacts
  <2>3. k.snd_nxt = N % SnModulus /\ k.snd_una = U % SnModulus
    BY DEF SenderInv
  <2> QED
    BY <2>1, <2>2, <2>3
<1> HIDE DEF N, U
<1>2. Admitted(k, cwnd) = n
  <2>1. \A j \in 0..l : (\A i \in 1..j : Diff(Add(k.snd_nxt, i - 1), Add(k.snd_una, cwnd)) < 0)
                            <=> \A i \in 1..j : i \in G
    <3> TAKE j \in 0..l
    <3>1. \A i \in 1..j : i \in 1..l
      BY <1>1
    <3> QED
      BY <3>1
  <2>2. {j \in 0..l : \A i \in 1..j : Diff(Add(k.snd_nxt, i - 1), Add(k.snd_una, cwnd)) < 0}
            = {j \in 0..l : \A i \in 1..j : i \in G}
    BY <2>1
  <2> QED
    BY <2>2 DEF Admitted
<1>3. \A i \in Nat \ {0} : /\ Add(k.snd_nxt, i - 1) = SnOf(N + i)
                           /\ Add(k.snd_una, cwnd) = SnOf(U + cwnd + 1)
  <2> TAKE i \in Nat \ {0}
  <2>1. N \in Int /\ i - 1 \in Int /\ U \in Int /\ cwnd \in Int
    BY <1>1
  <2>2. Add(k.snd_nxt, i - 1) = (N + (i - 1)) % SnModulus
    BY <1>1, <2>1, AddRemainder, Zenon
  <2>3. Add(k.snd_una, cwnd) = (U + cwnd) % SnModulus
    BY <1>1, <2>1, AddRemainder, Zenon
  <2>4. N + (i - 1) = (N + i) - 1 /\ U + cwnd = (U + cwnd + 1) - 1
    BY <2>1
  <2> QED
    BY <2>2, <2>3, <2>4, Zenon DEF SnOf
<1>4. \A i \in 1..l :
            (i = 1 \/ N + i = U + cwnd + 1) /\ N + i >= U + cwnd + 1 => i \notin G
  <2> SUFFICES ASSUME NEW i \in 1..l, i = 1 \/ N + i = U + cwnd + 1, N + i >= U + cwnd + 1
               PROVE  i \notin G
    OBVIOUS
  <2>1. /\ N + i \in Int /\ U + cwnd + 1 \in Int /\ i \in Nat \ {0}
        /\ (N + i) - (U + cwnd + 1) < HalfRange /\ (U + cwnd + 1) - (N + i) <= HalfRange
        /\ (N + i) - (U + cwnd + 1) >= 0
    BY <1>1
  <2>2. Diff(SnOf(N + i), SnOf(U + cwnd + 1)) = (N + i) - (U + cwnd + 1)
    BY <2>1, DiffPlaces, Zenon
  <2>3. Diff(Add(k.snd_nxt, i - 1), Add(k.snd_una, cwnd)) = (N + i) - (U + cwnd + 1)
    BY <1>3, <2>1, <2>2
  <2>4. ~((N + i) - (U + cwnd + 1) < 0)
    BY <2>1
  <2> QED
    BY <2>3, <2>4
<1> HIDE DEF G, l
<1>5. n \in 0..l /\ \A i \in 1..n : i \in G
  BY <1>1, Beginning
<1> HIDE DEF n
<1>6. \A i \in 1..l : i \in 1..n =>
            ~((i = 1 \/ N + i = U + cwnd + 1) /\ N + i >= U + cwnd + 1)
  BY <1>4, <1>5, Zenon
<1>7. PICK m \in 0..l : m = n
  BY <1>5, Zenon
<1>8. \A i \in 1..m : ~((i = 1 \/ N + i = U + cwnd + 1) /\ N + i >= U + cwnd + 1)
  <2>1. \A i \in 1..m : i \in 1..l
    BY <1>1, <1>7
  <2> QED
    BY <1>6, <1>7, <2>1
<1>9. N + m - U <= SndWnd
  <2>1. CASE m = 0
    BY <1>1, <2>1
  <2>2. CASE m > 0
    <3>1. 1 \in 1..m
      BY <2>2
    <3>2. N + 1 < U + cwnd + 1
      BY <1>1, <1>8, <3>1
    <3>3. ASSUME N + m > U + cwnd
          PROVE  FALSE
      <4>1. PICK x \in Int : x = U + cwnd + 1 - N
        BY <1>1
      <4>2. x \in 1..m /\ N + x = U + cwnd + 1
        BY <1>1, <3>2, <3>3, <4>1
      <4>3. N + x >= U + cwnd + 1
        BY <1>1, <4>2
      <4> QED
        BY <1>8, <4>2, <4>3
    <3> QED
      BY <1>1, <3>3
  <2> QED
    BY <2>1, <2>2
<1> QED
  BY <1>2, <1>5, <1>7, <1>9 DEF N, U, l

LEMMA AdmitKeeps ==
    ASSUME NEW k \in KCPs, NEW s \in Seq(Fragments), SenderInv(k, s), NEW cwnd \in 0..SndWnd
    PROVE  /\ admit(k, cwnd) \in KCPs /\ SameReceiver(k, admit(k, cwnd))
           /\ admit(k, cwnd).acklist = k.acklist
           /\ SenderInv(admit(k, cwnd), s)
           /\ Nxt(admit(k, cwnd), s) >= Nxt(k, s)
           /\ Una(admit(k, cwnd), s) = Una(k, s)
           /\ Done(admit(k, cwnd), s) = Done(k, s)
<1> DEFINE N == Nxt(k, s)
           U == Una(k, s)
           b == k.snd_buf
           q == k.snd_queue
           n == Admitted(k, cwnd)
           F(i) == [sn |-> Add(k.snd_nxt, i - 1), frg |-> q[i].frg,
                    data |-> q[i].data, xmit |-> FALSE, fastack |-> 0]
           new == [i \in 1..n |-> F(i)]
           c == b \o new
           rest == SubSeq(q, n + 1, Len(q))
           nxt == Add(k.snd_nxt, n)
           r == admit(k, cwnd)
<1>1. /\ N \in Nat /\ U \in Nat /\ U <= N /\ N + Len(q) = Len(s)
      /\ b \in Seq(SndSegs) /\ q \in Seq(QueueSegs) /\ Len(b) \in Nat /\ Len(q) \in Nat
      /\ DOMAIN b = 1..Len(b) /\ DOMAIN q = 1..Len(q) /\ Len(s) \in Nat
  BY SenderFacts, KcpFields
<1>2. n \in 0..Len(q) /\ N + n - U <= SndWnd
  BY AdmittedFits
<1>3. /\ k.snd_nxt = N % SnModulus /\ k.snd_una = U % SnModulus
      /\ \A i \in 1..Len(q) : q[i].data = N + i /\ FrgOf(s, q[i].data, q[i].frg)
      /\ \A i \in 1..Len(b) : b[i].data \in 1..N /\ OfStream(s, b[i])
      /\ \A i, j \in 1..Len(b) : i < j => b[j].data - b[i].data >= j - i
      /\ \A i \in DOMAIN s : s[i].data = i
  <2>1. SenderInv(k, s)
    OBVIOUS
  <2> HIDE DEF b, q
  <2> QED
    BY <1>1, <2>1, Zenon DEF SenderInv, Ascending, b, q
<1>4. r = [k EXCEPT !.snd_buf = c, !.snd_queue = rest, !.snd_nxt = nxt]
  BY DEF admit
<1> HIDE DEF n, N, U
<1>5. ASSUME NEW i \in 1..n
      PROVE  F(i) \in SndSegs /\ F(i).data = N + i /\ OfStream(s, F(i))
  <2>1. i \in 1..Len(q) /\ N \in Int /\ i - 1 \in Int /\ N + (i - 1) = (N + i) - 1
    BY SMTT(20), <1>1, <1>2
  <2>2. Add(k.snd_nxt, i - 1) = (N + (i - 1)) % SnModulus
    BY <1>3, <2>1, AddRemainder, Zenon
  <2>3. Add(k.snd_nxt, i - 1) = SnOf(N + i)
    BY <2>1, <2>2, Zenon DEF SnOf
  <2>4. SnOf(N + i) \in Sns
    <3>1. (N + i) - 1 \in Int
      BY <2>1
    <3> QED
      BY <3>1, Remainder, Zenon DEF SnOf
  <2>5. q[i].frg \in Nat /\ q[i].data = N + i /\ FrgOf(s, q[i].data, q[i].frg) /\ q[i].data \in Nat
    BY <1>3, <2>1, SndQueueFacts
  <2>6. FALSE \in BOOLEAN /\ 0 \in 0..FastResend
    BY Halves
  <2> HIDE DEF q
  <2> QED
    BY <2>3, <2>4, <2>5, <2>6 DEF SndSegs, OfStream
<1>6. /\ new \in Seq(SndSegs) /\ Len(new) = n
      /\ \A i \in 1..n : new[i].data = N + i /\ OfStream(s, new[i])
  <2>1. n \in Nat /\ \A i \in 1..n : F(i) \in SndSegs
    BY <1>1, <1>2, <1>5
  <2> HIDE DEF F
  <2>2. new \in Seq(SndSegs) /\ Len(new) = n /\ \A i \in 1..n : new[i] = F(i)
    BY <2>1
  <2> QED
    BY <1>5, <2>2, Zenon
<1> HIDE DEF new
<1>7. IsJoin(SndSegs, b, new, c)
  BY <1>1, <1>6, Joined, Zenon
<1>8. /\ rest \in Seq(QueueSegs) /\ Len(rest) = Len(q) - n /\ DOMAIN rest = 1 .. Len(q) - n
      /\ \A i \in 1 .. Len(q) - n : rest[i] = q[i + n]
  <2> HIDE DEF q
  <2>1. /\ rest \in Seq(QueueSegs) /\ Len(rest) = Len(q) - n
        /\ \A i \in 1 .. Len(q) - n : rest[i] = q[i + n]
    BY <1>1, <1>2, Split
  <2> QED
    BY <2>1
<1>9. nxt = (N + n) % SnModulus /\ nxt \in Sns
  <2>1. N \in Int /\ n \in Int /\ N + n \in Int
    BY <1>1, <1>2
  <2> QED
    BY <1>3, <2>1, AddRemainder, Remainder
<1> HIDE DEF c, rest, nxt
<1>10. c \in Seq(SndSegs) /\ Len(c) = Len(b) + n /\ DOMAIN c = 1 .. Len(b) + n
  BY <1>1, <1>6, <1>7 DEF IsJoin
<1>11. /\ r \in KCPs /\ SameReceiver(k, r) /\ r.acklist = k.acklist
       /\ r.snd_buf = c /\ r.snd_queue = rest /\ r.snd_nxt = nxt /\ r.snd_una = k.snd_una
  BY <1>4, <1>8, <1>9, <1>10 DEF KCPs, SameReceiver
<1> HIDE DEF r, b, q
<1>12. Nxt(r, s) = N + n
  <2>1. Len(r.snd_queue) = Len(q) - n
    BY <1>8, <1>11
  <2>2. N \in Int /\ n \in Int /\ Len(q) \in Int /\ Len(s) = N + Len(q)
    BY <1>1, <1>2
  <2>3. Len(s) - (Len(q) - n) = N + n
    BY <2>2
  <2> QED
    BY <2>1, <2>3, Zenon DEF Nxt
<1>13. \A i \in 1 .. Len(b) + n :
            \/ i \in 1..Len(b) /\ c[i] = b[i]
            \/ /\ i - Len(b) \in 1..n
               /\ c[i].data = N + (i - Len(b)) /\ OfStream(s, c[i])
  <2> TAKE i \in 1 .. Len(b) + n
  <2>1. CASE i <= Len(b)
    <3>1. i \in 1..Len(b)
      BY <2>1
    <3> QED
      BY <1>7, <3>1 DEF IsJoin
  <2>2. CASE i > Len(b)
    <3>1. i - Len(b) \in 1..n /\ Len(b) + (i - Len(b)) = i
      BY <1>1, <1>2, <2>2
    <3>2. c[i] = new[i - Len(b)]
      BY <1>6, <1>7, <3>1 DEF IsJoin
    <3> QED
      BY <1>6, <3>1, <3>2
  <2> QED
    BY <1>1, <1>2, <2>1, <2>2
<1>14. \A i \in 1 .. Len(b) + n : c[i].data \in 1 .. N + n /\ OfStream(s, c[i])
  <2> TAKE i \in 1 .. Len(b) + n
  <2>1. CASE i \in 1..Len(b) /\ c[i] = b[i]
    <3>1. b[i].data \in 1..N /\ OfStream(s, b[i])
      BY <1>3, <2>1
    <3> QED
      BY <1>1, <1>2, <2>1, <3>1
  <2>2. CASE /\ i - Len(b) \in 1..n
             /\ c[i].data = N + (i - Len(b)) /\ OfStream(s, c[i])
    BY SMTT(20), <1>1, <1>2, <2>2
  <2> QED
    BY <1>13, <2>1, <2>2
<1>15. Ascending(c)
  <2> SUFFICES ASSUME NEW i \in 1 .. Len(b) + n, NEW j \in 1 .. Len(b) + n, i < j
               PROVE  c[j].data - c[i].data >= j - i
    BY <1>10 DEF Ascending
  <2>1. CASE i \in 1..Len(b) /\ c[i] = b[i] /\ j \in 1..Len(b) /\ c[j] = b[j]
    BY <1>3, <2>1
  <2>2. CASE i \in 1..Len(b) /\ c[i] = b[i] /\ j - Len(b) \in 1..n /\ c[j].data = N + (j - Len(b))
    <3>1. b[i].data <= N - (Len(b) - i)
      <4>1. Len(b) \in 1..Len(b) /\ b[Len(b)].data \in 1..N /\ b[i].data \in 1..N
        BY <1>1, <1>3, <2>2
      <4>2. i < Len(b) => b[Len(b)].data - b[i].data >= Len(b) - i
        BY <1>3, <2>2, <4>1
      <4>3. i = Len(b) => b[i].data <= N - (Len(b) - i)
        BY <1>1, <4>1
      <4>4. i <= Len(b) /\ i \in Nat /\ Len(b) \in Nat /\ N \in Nat
        BY <1>1, <2>2
      <4>5. b[Len(b)].data \in Int /\ b[i].data \in Int /\ b[Len(b)].data <= N
        BY <4>1
      <4>6. i < Len(b) => b[i].data <= N - (Len(b) - i)
        BY <4>2, <4>4, <4>5
      <4> QED
        BY <4>3, <4>4, <4>6
    <3>2. b[i].data \in 1..N
      BY <1>3, <2>2
    <3>3. PICK x \in Nat, l \in Nat : x = b[i].data /\ l = Len(b)
      <4>1. b[i].data \in Nat /\ Len(b) \in Nat
        BY <1>1, <3>2
      <4> QED
        BY <4>1, Zenon
    <3>4. /\ c[i].data = x /\ c[j].data = N + (j - l) /\ x <= N - (l - i)
          /\ i \in Nat /\ j \in Nat /\ N \in Nat
      BY <1>1, <2>2, <3>1, <3>3
    <3>5. (N + (j - l)) - x >= j - i
      BY <3>3, <3>4
    <3> QED
      BY <3>4, <3>5
  <2>3. CASE /\ i - Len(b) \in 1..n /\ c[i].data = N + (i - Len(b))
             /\ j - Len(b) \in 1..n /\ c[j].data = N + (j - Len(b))
    BY SMTT(20), <1>1, <2>3
  <2> QED
    BY <1>1, <1>13, <2>1, <2>2, <2>3
<1>16. Una(r, s) = U
  <2>1. CASE c = << >>
    <3>1. Len(b) + n = 0
      BY <1>10, <2>1
    <3>2. b = << >> /\ n = 0 /\ U = N
      <4>1. b = << >> /\ n = 0
        BY <1>1, <1>2, <3>1
      <4> QED
        BY <4>1, SenderFacts DEF N, U, b
    <3> QED
      BY <1>1, <1>11, <1>12, <2>1, <3>2 DEF Una
  <2>2. CASE c # << >>
    <3>1. 1 \in 1 .. Len(b) + n /\ Una(r, s) = c[1].data - 1
      BY <1>1, <1>2, <1>10, <1>11, <2>2 DEF Una
    <3>2. CASE b = << >>
      <4>1. Len(b) = 0 /\ U = N
        BY <1>1, <3>2, SenderFacts DEF N, U, b
      <4>2. c[1].data = N + 1
        BY <1>13, <3>1, <4>1
      <4> QED
        BY <1>1, <3>1, <4>1, <4>2
    <3>3. CASE b # << >>
      <4>1. 1 \in 1..Len(b) /\ b[1].data = U + 1
        BY <1>1, <3>3, SenderFacts DEF U, b
      <4>2. c[1] = b[1]
        BY <1>7, <4>1 DEF IsJoin
      <4>3. c[1].data = U + 1 /\ U \in Int
        BY <1>1, <4>1, <4>2
      <4>4. c[1].data - 1 = U
        BY <4>3
      <4> QED
        BY <3>1, <4>4, Zenon
    <3> QED
      BY <3>2, <3>3
  <2> QED
    BY <2>1, <2>2
<1>17. Done(r, s) = Done(k, s)
  <2>1. Done(r, s) = {d \in 1 .. N + n : \A i \in 1 .. Len(b) + n : c[i].data # d}
    BY <1>10, <1>11, <1>12, DoneIs
  <2>2. Done(k, s) = {d \in 1..N : \A i \in 1..Len(b) : b[i].data # d}
    BY DoneIs DEF N, b
  <2>3. ASSUME NEW d \in Done(r, s)
        PROVE  d \in Done(k, s)
    <3>1. d \in 1..N
      <4> SUFFICES ASSUME d > N PROVE FALSE
        BY <1>1, <1>2, <2>1
      <4>1. PICK i \in Int : i = d - N + Len(b)
        BY <1>1, <2>1
      <4>2. i \in 1 .. Len(b) + n /\ i > Len(b) /\ N + (i - Len(b)) = d
        BY SMTT(20), <1>1, <1>2, <2>1, <4>1
      <4>3. c[i].data = d
        BY <1>13, <4>2
      <4> QED
        BY <2>1, <4>2, <4>3
    <3>2. ASSUME NEW i \in 1..Len(b)
          PROVE  b[i].data # d
      <4>1. i \in 1 .. Len(b) + n
        BY <1>1, <1>2
      <4>2. c[i] = b[i]
        BY <1>7 DEF IsJoin
      <4> QED
        BY <2>1, <4>1, <4>2
    <3> QED
      BY <2>2, <3>1, <3>2
  <2>4. ASSUME NEW d \in Done(k, s)
        PROVE  d \in Done(r, s)
    <3>1. d \in 1..N /\ d \in 1 .. N + n
      BY <1>1, <1>2, <2>2
    <3>2. ASSUME NEW i \in 1 .. Len(b) + n
          PROVE  c[i].data # d
      <4>1. CASE i \in 1..Len(b) /\ c[i] = b[i]
        BY <2>2, <4>1
      <4>2. CASE i - Len(b) \in 1..n /\ c[i].data = N + (i - Len(b))
        BY <1>1, <3>1, <4>2
      <4> QED
        BY <1>13, <4>1, <4>2
    <3> QED
      BY <2>1, <3>1, <3>2
  <2> QED
    BY <2>3, <2>4
<1>18. \A i \in 1 .. Len(q) - n :
            rest[i].data = (N + n) + i /\ FrgOf(s, rest[i].data, rest[i].frg)
  <2> TAKE i \in 1 .. Len(q) - n
  <2>1. i + n \in 1..Len(q) /\ rest[i] = q[i + n] /\ N + (i + n) = (N + n) + i
    BY <1>1, <1>2, <1>8
  <2> QED
    BY <1>3, <2>1
<1>19. SenderInv(r, s)
  <2>1. (N + n) - U <= SndWnd /\ N + n >= 0
    BY <1>1, <1>2
  <2> QED
    BY <1>3, <1>8, <1>9, <1>10, <1>11, <1>12, <1>14, <1>15, <1>16, <1>18, <2>1 DEF SenderInv
<1> QED
  <2>1. N + n >= N
    BY <1>1, <1>2
  <2> QED
    BY <1>11, <1>12, <1>16, <1>17, <1>19, <2>1 DEF r, N, U

\* What is in snd_buf stays there when its segments are sent.
LEMMA SentKeeps ==
    ASSUME NEW k \in KCPs, NEW s \in Seq(Fragments), SenderInv(k, s),
           NEW p \in Seq(SndSegs), Len(p) = Len(k.snd_buf),
           \A i \in 1..Len(p) : /\ p[i].data = k.snd_buf[i].data
                                /\ p[i].sn = k.snd_buf[i].sn
                                /\ p[i].frg = k.snd_buf[i].frg,
           NEW r \in KCPs, r.snd_buf = p, r.snd_queue = k.snd_queue,
           r.snd_nxt = k.snd_nxt, r.snd_una = k.snd_una
    PROVE  /\ SenderInv(r, s)
           /\ Nxt(r, s) = Nxt(k, s) /\ Una(r, s) = Una(k, s) /\ Done(r, s) = Done(k, s)
<1> DEFINE b == k.snd_buf
<1>1. /\ DOMAIN p = 1..Len(p) /\ DOMAIN b = 1..Len(p) /\ Len(p) \in Nat /\ Len(b) = Len(p)
      /\ p = << >> <=> Len(p) = 0
      /\ b = << >> <=> Len(p) = 0
  BY SndBufFacts
<1>2. Nxt(r, s) = Nxt(k, s)
  BY DEF Nxt
<1>3. Una(r, s) = Una(k, s)
  <2>1. CASE Len(p) = 0
    BY <1>1, <1>2, <2>1, Zenon DEF Una
  <2>2. CASE Len(p) # 0
    <3>1. 1 \in 1..Len(p)
      BY <1>1, <2>2
    <3>2. p[1].data = b[1].data
      BY <3>1
    <3> QED
      BY <1>1, <2>2, <3>2, Zenon DEF Una
  <2> QED
    BY <2>1, <2>2
<1>4. Done(r, s) = Done(k, s)
  <2>1. Done(r, s) = {d \in 1..Nxt(k, s) : \A i \in 1..Len(p) : p[i].data # d}
    BY <1>2, DoneIs
  <2>2. Done(k, s) = {d \in 1..Nxt(k, s) : \A i \in 1..Len(p) : b[i].data # d}
    BY DoneIs
  <2> QED
    BY <2>1, <2>2
<1>5. SenderInv(k, s)
  OBVIOUS
<1>6. \A i \in 1..Len(p) : p[i].data \in 1..Nxt(k, s) /\ OfStream(s, p[i])
  <2>1. \A i \in 1..Len(p) : b[i].data \in 1..Nxt(k, s) /\ OfStream(s, b[i])
    BY <1>1, <1>5, Zenon DEF SenderInv
  <2> QED
    BY <2>1, Zenon DEF OfStream
<1>7. Ascending(p)
  <2>1. Ascending(b)
    BY <1>5 DEF SenderInv
  <2>2. DOMAIN p = DOMAIN b /\ \A i \in DOMAIN p : p[i].data = b[i].data
    BY <1>1
  <2> HIDE DEF b
  <2> QED
    BY <2>1, <2>2 DEF Ascending
<1>8. SenderInv(r, s)
  BY <1>1, <1>2, <1>3, <1>5, <1>6, <1>7, Zenon DEF SenderInv
<1> QED
  BY <1>2, <1>3, <1>4, <1>8

LEMMA ProbeFields ==
    ASSUME NEW k \in KCPs, NEW expired \in BOOLEAN
    PROVE  /\ probe_window(k, expired) \in KCPs
           /\ SameSender(k, probe_window(k, expired))
           /\ SameReceiver(k, probe_window(k, expired))
           /\ probe_window(k, expired).acklist = k.acklist
BY DEF probe_window, KCPs, SameSender, SameReceiver

LEMMA WindowFits ==
    ASSUME NEW k \in KCPs
    PROVE  window(k) \in 0..SndWnd
<1>1. k.rmt_wnd \in Nat /\ k.cwnd \in Nat /\ SndWnd \in Nat
  BY KcpFields, Halves
<1>2. PICK w : w = Min({SndWnd, k.rmt_wnd})
  OBVIOUS
<1>3. w \in 0..SndWnd
  <2>1. w = IF SndWnd <= k.rmt_wnd THEN SndWnd ELSE k.rmt_wnd
    BY <1>1, <1>2, MinOfTwo
  <2> QED
    BY <1>1, <2>1
<1>4. Min({k.cwnd, w}) \in 0..SndWnd
  <2>1. Min({k.cwnd, w}) = IF k.cwnd <= w THEN k.cwnd ELSE w
    BY <1>1, <1>3, MinOfTwo
  <2> QED
    BY <1>1, <1>3, <2>1
<1>5. window(k) = IF NoCwnd THEN w ELSE Min({k.cwnd, w})
  BY <1>2, Zenon DEF window
<1> QED
  BY <1>3, <1>4, <1>5, Zenon

LEMMA AdaptFields ==
    ASSUME NEW k \in KCPs, NEW cwnd \in Nat, NEW change \in BOOLEAN, NEW lost \in BOOLEAN
    PROVE  /\ adapt_cwnd(k, cwnd, change, lost) \in KCPs
           /\ SameSender(k, adapt_cwnd(k, cwnd, change, lost))
           /\ SameReceiver(k, adapt_cwnd(k, cwnd, change, lost))
           /\ adapt_cwnd(k, cwnd, change, lost).acklist = k.acklist
<1> DEFINE inflight == Diff(k.snd_nxt, k.snd_una)
           fast == IF change THEN Max({inflight \div 2, IKCP_THRESH_MIN}) ELSE k.ssthresh
           slow == IF lost THEN Max({cwnd \div 2, IKCP_THRESH_MIN}) ELSE fast
           c == IF lost THEN 1 ELSE IF change THEN fast + FastResend ELSE Max({1, k.cwnd})
           r == [k EXCEPT !.ssthresh = slow, !.cwnd = c]
<1>1. inflight \in Int
  <2>1. k.snd_nxt \in Int /\ k.snd_una \in Int /\ HalfRange \in Nat
    BY KcpFields, Halves DEF Sns
  <2>2. k.snd_nxt - k.snd_una + HalfRange \in Int
    BY <2>1
  <2>3. (k.snd_nxt - k.snd_una + HalfRange) % SnModulus \in Int
    BY <2>2, Remainder DEF Sns
  <2> QED
    BY <2>1, <2>3 DEF Diff, HalfRange
<1>2. \A x \in Int : Max({x, IKCP_THRESH_MIN}) \in Nat
  <2> TAKE x \in Int
  <2>1. IKCP_THRESH_MIN = 2
    BY DEF IKCP_THRESH_MIN
  <2>2. Max({x, IKCP_THRESH_MIN}) = IF x >= 2 THEN x ELSE 2
    BY <2>1, MaxOfTwo
  <2> QED
    BY <2>2
<1>3. Max({1, k.cwnd}) \in Nat
  <2>1. k.cwnd \in Nat
    BY KcpFields
  <2>2. Max({1, k.cwnd}) = IF 1 >= k.cwnd THEN 1 ELSE k.cwnd
    BY <2>1, MaxOfTwo
  <2> QED
    BY <2>1, <2>2
<1>4. fast \in Nat
  <2>1. inflight \div 2 \in Int /\ k.ssthresh \in Nat
    BY <1>1, KcpFields
  <2> QED
    BY <1>2, <2>1
<1>5. slow \in Nat
  <2>1. cwnd \div 2 \in Int
    OBVIOUS
  <2> QED
    BY <1>2, <1>4, <2>1
<1>6. c \in Nat
  <2>1. fast + FastResend \in Nat
    BY <1>4, Halves
  <2> QED
    BY <1>3, <2>1
<1>7. adapt_cwnd(k, cwnd, change, lost) = k \/ adapt_cwnd(k, cwnd, change, lost) = r
  BY Zenon DEF adapt_cwnd
<1> HIDE DEF slow, c
<1>8. r \in KCPs /\ SameSender(k, r) /\ SameReceiver(k, r) /\ r.acklist = k.acklist
  BY <1>5, <1>6 DEF KCPs, SameSender, SameReceiver
<1>9. SameSender(k, k) /\ SameReceiver(k, k)
  BY DEF SameSender, SameReceiver
<1> QED
  BY <1>7, <1>8, <1>9, Zenon

\* flush first gives numbers to what the window admits.
Admitting(k, expired) ==
    admit(probe_window(k, expired), window(probe_window(k, expired)))

\* flush gives numbers and sends, and leaves what was done as it was.
LEMMA FlushKeeps ==
    ASSUME NEW k \in KCPs, NEW s \in Seq(Fragments), SenderInv(k, s),
           NEW late, NEW expired \in BOOLEAN
    PROVE  /\ flush(k, late, expired) \in KCPs
           /\ SameReceiver(k, flush(k, late, expired))
           /\ flush(k, late, expired).acklist = {}
           /\ SenderInv(flush(k, late, expired), s)
           /\ Nxt(flush(k, late, expired), s) >= Nxt(k, s)
           /\ Nxt(flush(k, late, expired), s) = Nxt(Admitting(k, expired), s)
           /\ SenderInv(Admitting(k, expired), s) /\ Admitting(k, expired) \in KCPs
           /\ Una(flush(k, late, expired), s) = Una(k, s)
           /\ Done(flush(k, late, expired), s) = Done(k, s)
<1> DEFINE k1 == probe_window(k, expired)
           cwnd == window(k1)
           k2 == admit(k1, cwnd)
           buf == ToSet(k2.snd_buf)
           p == [i \in DOMAIN k2.snd_buf |-> transmit(k2.snd_buf[i], late)]
           k3 == [k2 EXCEPT !.acklist = {}, !.ask_send = FALSE, !.ask_tell = FALSE,
                            !.snd_buf = p]
           change == \E x \in buf : IsFast(x, late)
           lost == \E x \in buf : IsLate(x, late)
           r == adapt_cwnd(k3, cwnd, change, lost)
<1>1. flush(k, late, expired) = r
  BY DEF flush
<1>2. /\ k1 \in KCPs /\ SameSender(k, k1) /\ SameReceiver(k, k1)
  BY ProbeFields
<1>3. /\ SenderInv(k1, s) /\ Nxt(k1, s) = Nxt(k, s) /\ Una(k1, s) = Una(k, s)
      /\ Done(k1, s) = Done(k, s)
  BY <1>2, SenderSame
<1> HIDE DEF k1
<1>4. cwnd \in 0..SndWnd
  BY <1>2, WindowFits
<1> HIDE DEF cwnd
<1>5. /\ k2 \in KCPs /\ SameReceiver(k1, k2) /\ SenderInv(k2, s)
      /\ Nxt(k2, s) >= Nxt(k1, s) /\ Una(k2, s) = Una(k1, s) /\ Done(k2, s) = Done(k1, s)
  BY <1>2, <1>3, <1>4, AdmitKeeps
<1>5a. Admitting(k, expired) = k2
  BY DEF Admitting, k1, cwnd
<1> HIDE DEF k2
<1>6. /\ Len(k2.snd_buf) \in Nat /\ DOMAIN k2.snd_buf = 1..Len(k2.snd_buf)
      /\ \A i \in 1..Len(k2.snd_buf) : k2.snd_buf[i] \in SndSegs
  BY <1>5, SndBufFacts
<1>7. ASSUME NEW x \in SndSegs
      PROVE  /\ transmit(x, late) \in SndSegs
             /\ transmit(x, late).data = x.data
             /\ transmit(x, late).sn = x.sn /\ transmit(x, late).frg = x.frg
  <2>1. PICK f \in 0..FastResend : f = IF IsFast(x, late) THEN 0 ELSE x.fastack
    BY Halves DEF SndSegs
  <2>2. transmit(x, late) = [x EXCEPT !.xmit = TRUE, !.fastack = f]
    BY <2>1 DEF transmit
  <2> QED
    BY <2>2 DEF SndSegs
<1>8. /\ p \in Seq(SndSegs) /\ Len(p) = Len(k2.snd_buf)
      /\ \A i \in 1..Len(p) : /\ p[i].data = k2.snd_buf[i].data
                              /\ p[i].sn = k2.snd_buf[i].sn
                              /\ p[i].frg = k2.snd_buf[i].frg
  <2> DEFINE b == k2.snd_buf
             F(i) == transmit(b[i], late)
  <2>1. \A i \in 1..Len(b) : /\ F(i) \in SndSegs /\ F(i).data = b[i].data
                             /\ F(i).sn = b[i].sn /\ F(i).frg = b[i].frg
    BY <1>6, <1>7, Zenon
  <2>2. p = [i \in 1..Len(b) |-> F(i)] /\ Len(b) \in Nat
    BY <1>6
  <2> HIDE DEF F, p, b
  <2>3. p \in Seq(SndSegs) /\ Len(p) = Len(b) /\ \A i \in 1..Len(p) : p[i] = F(i)
    BY <2>1, <2>2
  <2>4. \A i \in 1..Len(p) : p[i].data = b[i].data /\ p[i].sn = b[i].sn /\ p[i].frg = b[i].frg
    BY <2>1, <2>3, Zenon
  <2> QED
    BY <2>3, <2>4 DEF b
<1> HIDE DEF p
<1>9. /\ k3 \in KCPs /\ k3.snd_buf = p /\ k3.snd_queue = k2.snd_queue
      /\ k3.snd_nxt = k2.snd_nxt /\ k3.snd_una = k2.snd_una
      /\ SameReceiver(k2, k3) /\ k3.acklist = {}
  BY <1>5, <1>8 DEF KCPs, SameReceiver
<1> HIDE DEF k3
<1>10. /\ SenderInv(k3, s) /\ Nxt(k3, s) = Nxt(k2, s) /\ Una(k3, s) = Una(k2, s)
       /\ Done(k3, s) = Done(k2, s)
  BY <1>5, <1>8, <1>9, SentKeeps
<1>11. change \in BOOLEAN /\ lost \in BOOLEAN /\ cwnd \in Nat
  BY <1>4, Halves
<1> HIDE DEF change, lost
<1>12. r \in KCPs /\ SameSender(k3, r) /\ SameReceiver(k3, r) /\ r.acklist = k3.acklist
  BY ZenonT(30), <1>9, <1>11, AdaptFields
<1> HIDE DEF r
<1>13. /\ SenderInv(r, s) /\ Nxt(r, s) = Nxt(k3, s) /\ Una(r, s) = Una(k3, s)
       /\ Done(r, s) = Done(k3, s)
  BY <1>10, <1>12, SenderSame
<1>14. SameReceiver(k, r)
  BY <1>2, <1>5, <1>9, <1>12, Zenon DEF SameReceiver
<1>15. /\ Nxt(r, s) >= Nxt(k, s) /\ Una(r, s) = Una(k, s) /\ Done(r, s) = Done(k, s)
  BY <1>3, <1>5, <1>10, <1>13
<1> QED
  BY <1>1, <1>5, <1>5a, <1>9, <1>10, <1>12, <1>13, <1>14, <1>15, Zenon

LEMMA UnusedFits ==
    ASSUME NEW k \in KCPs
    PROVE  wnd_unused(k) \in 0..RcvWnd
<1>1. Len(k.rcv_queue) \in Nat /\ RcvWnd \in Nat
  BY KcpFields, Halves
<1>2. PICK x \in Int : x = RcvWnd - Len(k.rcv_queue)
  <2>1. \A a, b \in Nat : \E x \in Int : x = a - b
    OBVIOUS
  <2> QED
    BY <1>1, <2>1, Zenon
<1>3. Max({0, x}) = IF 0 >= x THEN 0 ELSE x
  BY MaxOfTwo
<1>4. wnd_unused(k) = Max({0, x})
  BY <1>2, Zenon DEF wnd_unused
<1> QED
  BY <1>1, <1>2, <1>3, <1>4

\* What flush emits: acknowledgements of what was listed, and fragments that
\* have a number.
LEMMA EmittedIs ==
    ASSUME NEW k \in KCPs, NEW s \in Seq(Fragments), SenderInv(k, s),
           NEW late, NEW expired \in BOOLEAN,
           NEW seg \in emitted(k, late, expired)
    PROVE  /\ seg \in Segments /\ seg.una = k.rcv_nxt
           /\ seg.cmd = "ACK" => \E a \in k.acklist : seg.sn = a.sn /\ seg.data = a.data
           /\ seg.cmd = "PUSH" => /\ seg.data \in 1..Nxt(flush(k, late, expired), s)
                                  /\ OfStream(s, seg)
<1> DEFINE k1 == probe_window(k, expired)
           k2 == Admitting(k, expired)
           A == {Segment(k, "ACK", a.sn, 0, a.data) : a \in k.acklist}
           B == IF k1.ask_send THEN {Segment(k, "WASK", 0, 0, 0)} ELSE {}
           C == IF k1.ask_tell THEN {Segment(k, "WINS", 0, 0, 0)} ELSE {}
           D == {Segment(k, "PUSH", x.sn, x.frg, x.data) :
                    x \in {y \in ToSet(k2.snd_buf) : NeedSend(y, late)}}
<1>1. emitted(k, late, expired) = A \cup B \cup C \cup D
  BY DEF emitted, Admitting
<1>2. /\ k2 \in KCPs /\ SenderInv(k2, s)
      /\ Nxt(flush(k, late, expired), s) = Nxt(k2, s)
  BY FlushKeeps
<1> HIDE DEF k1, k2
<1>3. /\ wnd_unused(k) \in 0..RcvWnd /\ k.rcv_nxt \in Sns /\ 0 \in Sns
      /\ k.acklist \in SUBSET [sn : Sns, data : Nat]
  BY UnusedFits, KcpFields, Halves DEF Sns
<1>4. ASSUME NEW cmd \in {"ACK", "PUSH", "WASK", "WINS"}, NEW sn \in Sns, NEW frg \in Nat,
             NEW data \in Nat
      PROVE  /\ Segment(k, cmd, sn, frg, data) \in Segments
             /\ Segment(k, cmd, sn, frg, data).una = k.rcv_nxt
             /\ Segment(k, cmd, sn, frg, data).cmd = cmd
             /\ Segment(k, cmd, sn, frg, data).sn = sn
             /\ Segment(k, cmd, sn, frg, data).frg = frg
             /\ Segment(k, cmd, sn, frg, data).data = data
  BY <1>3 DEF Segment, Segments
<1>5. CASE seg \in A
  <2>1. PICK a \in k.acklist : seg = Segment(k, "ACK", a.sn, 0, a.data)
    BY <1>5
  <2>2. a.sn \in Sns /\ a.data \in Nat /\ 0 \in Nat
    BY <1>3
  <2> QED
    BY <1>4, <2>1, <2>2
<1>6. CASE seg \in B \cup C
  <2>1. PICK cmd \in {"WASK", "WINS"} : seg = Segment(k, cmd, 0, 0, 0)
    BY <1>6
  <2>2. cmd \in {"ACK", "PUSH", "WASK", "WINS"} /\ 0 \in Nat
    BY <2>1
  <2>3. seg \in Segments /\ seg.una = k.rcv_nxt /\ seg.cmd = cmd
    BY <1>3, <1>4, <2>1, <2>2
  <2> QED
    BY <2>1, <2>3
<1>7. CASE seg \in D
  <2>1. PICK x \in ToSet(k2.snd_buf) : seg = Segment(k, "PUSH", x.sn, x.frg, x.data)
    BY <1>7
  <2>2. /\ DOMAIN k2.snd_buf = 1..Len(k2.snd_buf)
        /\ \A i \in 1..Len(k2.snd_buf) :
             /\ k2.snd_buf[i].sn \in Sns /\ k2.snd_buf[i].frg \in Nat
             /\ k2.snd_buf[i].data \in Nat
             /\ k2.snd_buf[i].data \in 1..Nxt(k2, s) /\ OfStream(s, k2.snd_buf[i])
    BY <1>2, SndBufFacts DEF SenderInv
  <2>3. PICK i \in 1..Len(k2.snd_buf) : x = k2.snd_buf[i]
    BY <2>1, <2>2 DEF ToSet
  <2>4. /\ x.sn \in Sns /\ x.frg \in Nat /\ x.data \in Nat
        /\ x.data \in 1..Nxt(k2, s) /\ OfStream(s, x)
    BY <2>2, <2>3
  <2>5. /\ seg \in Segments /\ seg.una = k.rcv_nxt /\ seg.cmd = "PUSH"
        /\ seg.sn = x.sn /\ seg.frg = x.frg /\ seg.data = x.data
    BY <1>4, <2>1, <2>4
  <2>6. OfStream(s, seg)
    BY <2>4, <2>5, Zenon DEF OfStream
  <2> QED
    BY <1>2, <2>4, <2>5, <2>6
<1> QED
  BY <1>1, <1>5, <1>6, <1>7

LEMMA GrowFields ==
    ASSUME NEW k \in KCPs, NEW grow \in BOOLEAN
    PROVE  /\ grow_cwnd(k, grow) \in KCPs
           /\ SameSender(k, grow_cwnd(k, grow)) /\ SameReceiver(k, grow_cwnd(k, grow))
           /\ grow_cwnd(k, grow).acklist = k.acklist
<1>1. PICK c \in Nat : c = IF k.cwnd < k.ssthresh \/ grow THEN k.cwnd + 1 ELSE k.cwnd
  <2>1. k.cwnd \in Nat
    BY KcpFields
  <2> QED
    BY <2>1
<1>2. grow_cwnd(k, grow) = k \/ grow_cwnd(k, grow) = [k EXCEPT !.cwnd = c]
  BY <1>1, Zenon DEF grow_cwnd
<1>3. /\ [k EXCEPT !.cwnd = c] \in KCPs
      /\ SameSender(k, [k EXCEPT !.cwnd = c]) /\ SameReceiver(k, [k EXCEPT !.cwnd = c])
      /\ [k EXCEPT !.cwnd = c].acklist = k.acklist
  BY DEF KCPs, SameSender, SameReceiver
<1>4. SameSender(k, k) /\ SameReceiver(k, k)
  BY DEF SameSender, SameReceiver
<1> QED
  BY <1>2, <1>3, <1>4, Zenon

\* What Input does to the sender of s and receiver of g: r is k after a segment
\* that says its sender has u.
Accepted(k, s, g, t, n, seg, u, r) ==
    /\ r \in KCPs /\ SenderInv(r, s) /\ ReceiverInv(r, g, t, n)
    /\ Nxt(r, s) = Nxt(k, s) /\ Una(r, s) >= Una(k, s)
    /\ \A d \in Done(r, s) :
         d \in Done(k, s) \/ d <= u \/ (seg.cmd = "ACK" /\ d = seg.data)
    /\ Holds(k, g) \subseteq Holds(r, g) /\ Pos(r, g) >= Pos(k, g)
    /\ \A a \in r.acklist :
         \/ a \in k.acklist
         \/ /\ seg.cmd = "PUSH" /\ a = [sn |-> seg.sn, data |-> seg.data]
            /\ a.data \in Holds(r, g)

\* What a segment that arrives does to both streams of an end.
LEMMA InputKeeps ==
    ASSUME NEW k \in KCPs, NEW s \in Seq(Fragments), SenderInv(k, s),
           NEW S, NEW g \in Seq(S), NEW t, NEW n \in Nat, ReceiverInv(k, g, t, n),
           NEW seg \in Segments, NEW grow \in BOOLEAN,
           NEW u \in Nat, seg.una = u % SnModulus,
           u <= Nxt(k, s), Nxt(k, s) - u <= HalfRange,
           seg.cmd = "ACK" => /\ seg.sn = SnOf(seg.data) /\ seg.data \in 1..Nxt(k, s)
                              /\ Nxt(k, s) - seg.data < SnModulus,
           seg.cmd = "PUSH" => /\ OfStream(t, seg) /\ seg.data \in 1..n
                               /\ n - seg.data < SndWnd + MaxLag
                               /\ n <= Pos(k, g) + RcvWnd + SndWnd
    PROVE  Accepted(k, s, g, t, n, seg, u, Input(k, seg, grow))
<1> DEFINE k0 == [k EXCEPT !.rmt_wnd = seg.wnd]
           k1 == parse_una(k0, seg.una)
           k2 == CASE seg.cmd = "ACK" -> parse_ack(k1, seg.sn)
                   [] seg.cmd = "PUSH" -> push(k1, seg)
                   [] seg.cmd = "WASK" -> [k1 EXCEPT !.ask_tell = TRUE]
                   [] seg.cmd = "WINS" -> k1
           r == Input(k, seg, grow)
<1>1. /\ seg.cmd \in {"ACK", "PUSH", "WASK", "WINS"} /\ seg.wnd \in 0..RcvWnd
      /\ seg.sn \in Sns /\ seg.frg \in Nat /\ seg.data \in Nat
  BY DEF Segments
<1>2. k0 \in KCPs /\ SameSender(k, k0) /\ SameReceiver(k, k0) /\ k0.acklist = k.acklist
  BY <1>1 DEF KCPs, SameSender, SameReceiver
<1> HIDE DEF k0
<1>3. /\ SenderInv(k0, s) /\ Nxt(k0, s) = Nxt(k, s) /\ Una(k0, s) = Una(k, s)
      /\ Done(k0, s) = Done(k, s) /\ Nxt(k, s) \in Nat /\ Una(k, s) \in Nat
  BY <1>2, SenderSame, SenderFacts
<1>4. /\ k1 \in KCPs /\ SameReceiver(k0, k1) /\ k1.acklist = k.acklist
      /\ SenderInv(k1, s) /\ Nxt(k1, s) = Nxt(k, s) /\ Una(k1, s) >= Una(k, s)
      /\ \A d \in Done(k1, s) : d \in Done(k, s) \/ d <= u
  BY <1>2, <1>3, ParseUna
<1> HIDE DEF k1
<1>5. SameReceiver(k, k1) /\ Una(k1, s) \in Nat /\ Pos(k, g) \in Nat
  BY <1>2, <1>4, SenderFacts, PosNat DEF SameReceiver
<1>6. /\ ReceiverInv(k1, g, t, n) /\ Pos(k1, g) = Pos(k, g) /\ Holds(k1, g) = Holds(k, g)
  BY <1>5, ReceiverSame, Zenon
<1>7. ASSUME seg.cmd = "ACK"
      PROVE  Accepted(k, s, g, t, n, seg, u, k2)
  <2>1. PICK c \in 1..Nxt(k, s) : c = seg.data
    BY <1>7
  <2>2. k2 = parse_ack(k1, SnOf(c))
    BY <1>7, <2>1
  <2>3. /\ k2 \in KCPs /\ SameReceiver(k1, k2) /\ k2.acklist = k.acklist
        /\ SenderInv(k2, s) /\ Nxt(k2, s) = Nxt(k, s) /\ Una(k2, s) >= Una(k1, s)
        /\ \A d \in Done(k2, s) : d \in Done(k1, s) \/ d = c
    BY <1>3, <1>4, <1>7, <2>1, <2>2, ParseAck
  <2> HIDE DEF k2
  <2>4. /\ ReceiverInv(k2, g, t, n) /\ Holds(k2, g) = Holds(k, g)
        /\ Pos(k2, g) = Pos(k, g)
    BY <1>6, <2>3, ReceiverSame, Zenon
  <2>5. Una(k2, s) >= Una(k, s)
    <3>1. Una(k2, s) \in Nat
      BY <2>3, SenderFacts
    <3> QED
      BY <1>3, <1>4, <1>5, <2>3, <3>1
  <2> QED
    BY <1>4, <1>5, <1>7, <2>1, <2>3, <2>4, <2>5 DEF Accepted
<1>8. ASSUME seg.cmd = "PUSH"
      PROVE  Accepted(k, s, g, t, n, seg, u, k2)
  <2>1. k2 = push(k1, seg)
    BY <1>8
  <2>2. /\ k2 \in KCPs /\ SameSender(k1, k2) /\ ReceiverInv(k2, g, t, n)
        /\ Holds(k1, g) \subseteq Holds(k2, g) /\ Pos(k2, g) >= Pos(k1, g)
        /\ \A a \in k2.acklist :
            \/ a \in k1.acklist
            \/ a = [sn |-> seg.sn, data |-> seg.data] /\ a.data \in Holds(k2, g)
    BY <1>1, <1>4, <1>6, <1>8, <2>1, PushKeeps
  <2> HIDE DEF k2
  <2>3. /\ SenderInv(k2, s) /\ Nxt(k2, s) = Nxt(k1, s) /\ Una(k2, s) = Una(k1, s)
        /\ Done(k2, s) = Done(k1, s)
    BY <1>4, <2>2, SenderSame
  <2> QED
    BY <1>4, <1>6, <1>8, <2>2, <2>3 DEF Accepted
<1>9. ASSUME seg.cmd \in {"WASK", "WINS"}
      PROVE  Accepted(k, s, g, t, n, seg, u, k2)
  <2>1. /\ k2 \in KCPs /\ SameSender(k1, k2) /\ SameReceiver(k1, k2)
        /\ k2.acklist = k1.acklist
    <3>1. CASE seg.cmd = "WASK"
      <4>1. k2 = [k1 EXCEPT !.ask_tell = TRUE]
        BY <3>1
      <4> HIDE DEF k2
      <4> QED
        BY <1>4, <4>1 DEF KCPs, SameSender, SameReceiver
    <3>2. CASE seg.cmd = "WINS"
      <4>1. k2 = k1
        BY <3>2
      <4> QED
        BY <1>4, <4>1 DEF SameSender, SameReceiver
    <3> QED
      BY <1>9, <3>1, <3>2
  <2> HIDE DEF k2
  <2>2. /\ SenderInv(k2, s) /\ Nxt(k2, s) = Nxt(k1, s) /\ Una(k2, s) = Una(k1, s)
        /\ Done(k2, s) = Done(k1, s)
    BY <1>4, <2>1, SenderSame
  <2>3. /\ ReceiverInv(k2, g, t, n) /\ Holds(k2, g) = Holds(k, g)
        /\ Pos(k2, g) = Pos(k, g)
    BY <1>6, <2>1, ReceiverSame, Zenon
  <2> QED
    BY <1>4, <1>5, <2>1, <2>2, <2>3 DEF Accepted
<1>10. Accepted(k, s, g, t, n, seg, u, k2)
  BY <1>1, <1>7, <1>8, <1>9
<1>11. r = k2 \/ r = grow_cwnd(k2, grow)
  BY Zenon DEF Input, k0, k1
<1> HIDE DEF k2
<1>12. CASE r = grow_cwnd(k2, grow)
  <2>1. r \in KCPs /\ SameSender(k2, r) /\ SameReceiver(k2, r) /\ r.acklist = k2.acklist
    BY <1>10, <1>12, GrowFields DEF Accepted
  <2> HIDE DEF r
  <2>2. /\ SenderInv(r, s) /\ Nxt(r, s) = Nxt(k2, s) /\ Una(r, s) = Una(k2, s)
        /\ Done(r, s) = Done(k2, s)
    BY <1>10, <2>1, SenderSame DEF Accepted
  <2>3. /\ ReceiverInv(r, g, t, n) /\ Holds(r, g) = Holds(k2, g)
        /\ Pos(r, g) = Pos(k2, g)
    BY <1>10, <2>1, ReceiverSame, Zenon DEF Accepted
  <2>4. Accepted(k, s, g, t, n, seg, u, r)
    BY <1>10, <2>1, <2>2, <2>3 DEF Accepted
  <2> QED
    BY <2>4 DEF r
<1>13. CASE r = k2
  BY <1>10, <1>13
<1> QED
  BY <1>11, <1>12, <1>13

-----------------------------------------------------------------------------
(***************************************************************************)
(* Conversations: what a step at the sender, at the receiver or of the     *)
(* network does to one.                                                    *)
(***************************************************************************)
Packets == [seg : Segments, queued : Nat]

\* The parts of the sender and of the network that the receiver's step leaves.
LEMMA SenderStays ==
    ASSUME NEW k, NEW s, NEW r, NEW g, NEW to, NEW from, Conversation(k, s, r, g, to, from),
           NEW l, SameSender(k, l)
    PROVE  Conversation(l, s, r, g, to, from)
BY SenderSame DEF Conversation, Arrived, Pushed, Told, ToTell

LEMMA ReceiverStays ==
    ASSUME NEW k, NEW s, NEW r, NEW g, NEW to, NEW from, Conversation(k, s, r, g, to, from),
           NEW q, SameReceiver(r, q), q.acklist = r.acklist
    PROVE  Conversation(k, s, q, g, to, from)
BY ReceiverSame DEF Conversation, Arrived, Pushed, Told, ToTell

LEMMA PacketsLost ==
    ASSUME NEW k, NEW s, NEW r, NEW g, NEW to, NEW from, Conversation(k, s, r, g, to, from),
           NEW t \in SUBSET to, NEW f \in SUBSET from
    PROVE  Conversation(k, s, r, g, t, f)
BY DEF Conversation, Arrived, Pushed, Told, ToTell

\* A receiver's invariant speaks of more numbers when there are more.
LEMMA ReceiverMore ==
    ASSUME NEW k \in KCPs, NEW S, NEW g \in Seq(S), NEW s, NEW n \in Nat, NEW m \in Nat, n <= m,
           ReceiverInv(k, g, s, n)
    PROVE  ReceiverInv(k, g, s, m)
<1>1. Pos(k, g) <= m
  <2>1. Pos(k, g) \in Nat /\ Pos(k, g) <= n
    BY PosNat DEF ReceiverInv
  <2> QED
    BY <2>1
<1>2. ASSUME NEW i \in DOMAIN k.rcv_buf
      PROVE  k.rcv_buf[i].data \in Pos(k, g) + 1 .. m
  <2>1. k.rcv_buf[i].data \in Pos(k, g) + 1 .. n /\ Pos(k, g) \in Nat
    BY PosNat DEF ReceiverInv
  <2> QED
    BY <2>1
<1>3. ReceiverInv(k, g, s, n)
  OBVIOUS
<1> QED
  BY <1>1, <1>2, <1>3, Zenon DEF ReceiverInv

\* What is held has a number and lies below the end of the window.
LEMMA HoldsFits ==
    ASSUME NEW k \in KCPs, NEW S, NEW g \in Seq(S), NEW s, NEW n \in Nat,
           ReceiverInv(k, g, s, n)
    PROVE  \A d \in Holds(k, g) : d \in 1..n /\ d <= Pos(k, g) + RcvWnd
<1>1. /\ k.rcv_buf \in Seq(RcvSegs) /\ Pos(k, g) \in Nat /\ RcvWnd \in Nat
      /\ Pos(k, g) <= n
  BY KcpFields, PosNat, Halves DEF ReceiverInv
<1>2. /\ DataOf(k.rcv_buf) = {k.rcv_buf[i].data : i \in 1..Len(k.rcv_buf)}
      /\ DOMAIN k.rcv_buf = 1..Len(k.rcv_buf)
  BY <1>1, RcvFacts
<1>3. \A i \in 1..Len(k.rcv_buf) : /\ k.rcv_buf[i].data \in Pos(k, g) + 1 .. n
                                   /\ k.rcv_buf[i].data <= Pos(k, g) + RcvWnd
  BY <1>2 DEF ReceiverInv
<1> TAKE d \in Holds(k, g)
<1>4. CASE d \in 1..Pos(k, g)
  BY <1>1, <1>4
<1>5. CASE d \notin 1..Pos(k, g)
  <2>1. PICK i \in 1..Len(k.rcv_buf) : d = k.rcv_buf[i].data
    BY <1>2, <1>5 DEF Holds
  <2>2. d \in Pos(k, g) + 1 .. n /\ d <= Pos(k, g) + RcvWnd
    BY <1>3, <2>1
  <2> QED
    BY <1>1, <2>2
<1> QED
  BY <1>4, <1>5

\* How far the two ends of a conversation are apart.
LEMMA Apart ==
    ASSUME NEW k \in KCPs, NEW s \in Seq(Fragments), NEW r \in KCPs, NEW S, NEW g \in Seq(S),
           NEW to, NEW from, Conversation(k, s, r, g, to, from)
    PROVE  /\ Nxt(k, s) \in Nat /\ Una(k, s) \in Nat /\ Pos(r, g) \in Nat
           /\ Pos(r, g) <= Nxt(k, s) /\ Nxt(k, s) <= Una(k, s) + SndWnd
           /\ Una(k, s) <= Pos(r, g) + RcvWnd
           /\ Nxt(k, s) <= Pos(r, g) + RcvWnd + SndWnd
<1>1. /\ Nxt(k, s) \in Nat /\ Una(k, s) \in Nat /\ Nxt(k, s) - Una(k, s) <= SndWnd
      /\ 1..Una(k, s) \subseteq Done(k, s)
  BY SenderFacts DEF Conversation
<1>2. Pos(r, g) \in Nat /\ SndWnd \in Nat /\ RcvWnd \in Nat /\ Pos(r, g) <= Nxt(k, s)
  BY PosNat, Halves DEF Conversation, ReceiverInv
<1>3. Una(k, s) <= Pos(r, g) + RcvWnd
  <2>1. CASE Una(k, s) = 0
    BY <1>2, <2>1
  <2>2. CASE Una(k, s) # 0
    <3>1. Una(k, s) \in 1..Una(k, s)
      BY <1>1, <2>2
    <3>2. Una(k, s) \in Holds(r, g)
      BY <1>1, <3>1, Zenon DEF Conversation, Arrived
    <3>3. ReceiverInv(r, g, s, Nxt(k, s))
      BY DEF Conversation
    <3> QED
      BY <1>1, <3>2, <3>3, HoldsFits
  <2> QED
    BY <2>1, <2>2
<1> QED
  BY <1>1, <1>2, <1>3

\* The sender is given a message.
LEMMA SendStep ==
    ASSUME NEW k \in KCPs, NEW s \in Seq(Fragments), NEW r \in KCPs, NEW g \in Seq(Fragments),
           NEW to \in SUBSET Packets, NEW from, Conversation(k, s, r, g, to, from),
           NEW n \in 1..MaxFrag
    PROVE  LET data == [i \in 1..n |-> Len(s) + i]
           IN  Conversation(Send(k, data), s \o Marked(data), r, g, to, from)
<1> DEFINE data == [i \in 1..n |-> Len(s) + i]
           t == s \o Marked(data)
           l == Send(k, data)
<1>1. SenderInv(k, s) /\ ReceiverInv(r, g, s, Nxt(k, s)) /\ Pushed(k, s, to)
  BY DEF Conversation
<1>2. /\ t \in Seq(Fragments) /\ Extends(t, s)
      /\ SenderInv(l, t) /\ Nxt(l, t) = Nxt(k, s) /\ Done(l, t) = Done(k, s)
  BY <1>1, SendKeeps
<1> HIDE DEF t, l
<1>3. Nxt(k, s) \in Nat /\ Nxt(k, s) <= Len(s)
  <2>1. Nxt(k, s) \in Nat /\ Nxt(k, s) + Len(k.snd_queue) = Len(s)
    BY <1>1, SenderFacts
  <2>2. Len(k.snd_queue) \in Nat
    BY SndQueueFacts
  <2> QED
    BY <2>1, <2>2
<1>4. ReceiverInv(r, g, t, Nxt(l, t))
  BY <1>1, <1>2, <1>3, ReceiverExtends
<1>5. Pushed(l, t, to)
  <2> SUFFICES ASSUME NEW p \in to, Push(p)
               PROVE  p.seg.data \in 1..Nxt(l, t) /\ OfStream(t, p.seg)
    BY DEF Pushed
  <2>1. p.seg.data \in 1..Nxt(k, s) /\ OfStream(s, p.seg)
    BY <1>1 DEF Pushed
  <2>2. p.seg.frg \in Nat
    BY DEF Packets, Segments
  <2>3. p.seg.data \in Nat \ {0}
    BY <1>3, <2>1
  <2>4. FrgOf(t, p.seg.data, p.seg.frg)
    BY <1>2, <2>1, <2>2, <2>3, FrgExtends, Zenon DEF OfStream
  <2> QED
    BY <1>2, <2>1, <2>4 DEF OfStream
<1> QED
  BY <1>2, <1>4, <1>5 DEF Conversation, Arrived, ToTell, t, l

\* The receiver gives a message to its user.
LEMMA RecvStep ==
    ASSUME NEW k \in KCPs, NEW s \in Seq(Fragments), NEW r \in KCPs, NEW g \in Seq(Fragments),
           NEW to, NEW from \in SUBSET Packets, Conversation(k, s, r, g, to, from), PeekSize(r)
    PROVE  Conversation(k, s, Recv(r), g \o Marked(RecvData(r)), to, from)
<1> DEFINE h == g \o Marked(RecvData(r))
           q == Recv(r)
<1>1. SenderInv(k, s) /\ ReceiverInv(r, g, s, Nxt(k, s)) /\ Told(r, g, from)
  BY DEF Conversation
<1>2. Nxt(k, s) \in Nat /\ \A i \in DOMAIN s : s[i].data = i
  BY <1>1, SenderFacts DEF SenderInv
<1>3. /\ q \in KCPs /\ q.acklist = r.acklist /\ h \in Seq(Fragments)
      /\ ReceiverInv(q, h, s, Nxt(k, s)) /\ Holds(q, h) = Holds(r, g)
      /\ Pos(q, h) >= Pos(r, g)
  BY <1>1, <1>2, RecvKeeps
<1> HIDE DEF h, q
<1>4. Told(q, h, from)
  <2> SUFFICES ASSUME NEW p \in from
               PROVE  p.queued <= Pos(q, h)
    BY <1>1, <1>3 DEF Told
  <2>1. p.queued \in Nat /\ p.queued <= Pos(r, g)
    BY <1>1 DEF Told, Packets
  <2>2. Pos(q, h) \in Nat /\ Pos(r, g) \in Nat
    BY <1>3, PosNat
  <2> QED
    BY <1>3, <2>1, <2>2
<1> QED
  BY <1>1, <1>3, <1>4 DEF Conversation, Arrived, ToTell, h, q

LEMMA BelowSum ==
    ASSUME NEW x \in Int, NEW y \in Int, NEW c \in Int, NEW w \in Int, NEW m \in Int,
           x <= y, y < c + w + m
    PROVE  x < c + w + m
OBVIOUS

\* A packet arrives at the end with the object k, which sends the stream s
\* and receives the stream t.
LEMMA ArriveStep ==
    ASSUME NEW k \in KCPs, NEW s \in Seq(Fragments), NEW g \in Seq(Fragments),
           NEW r \in KCPs, NEW t \in Seq(Fragments), NEW h \in Seq(Fragments),
           NEW to \in SUBSET Packets, NEW from \in SUBSET Packets,
           Conversation(k, s, r, h, to, from), Conversation(r, t, k, g, from, to),
           NEW p \in from, NEW grow \in BOOLEAN,
           Pos(r, h) - p.queued <= MaxLag,
           Push(p) => Nxt(r, t) - p.seg.data < SndWnd + MaxLag
    PROVE  LET l == Input(k, p.seg, grow)
           IN  /\ l \in KCPs
               /\ Conversation(l, s, r, h, to, from) /\ Conversation(r, t, l, g, from, to)
               /\ Nxt(l, s) = Nxt(k, s) /\ Una(l, s) >= Una(k, s)
               /\ Holds(k, g) \subseteq Holds(l, g)
<1> DEFINE l == Input(k, p.seg, grow)
           N == Nxt(k, s)
           u == p.queued
           d == p.seg.data
<1>1. /\ SenderInv(k, s) /\ ReceiverInv(r, h, s, N) /\ Arrived(k, s, r, h)
      /\ Told(r, h, from) /\ ToTell(k, s, r, h, from) /\ Pushed(k, s, to)
  BY DEF Conversation
<1>2. /\ SenderInv(r, t) /\ ReceiverInv(k, g, t, Nxt(r, t)) /\ Arrived(r, t, k, g)
      /\ Pushed(r, t, from) /\ Told(k, g, to) /\ ToTell(r, t, k, g, to)
  BY DEF Conversation
<1>3. /\ p.seg \in Segments /\ p.seg.cmd \in {"ACK", "PUSH", "WASK", "WINS"}
      /\ u \in Nat /\ d \in Nat
  BY DEF Packets, Segments
<1>4. /\ N \in Nat /\ Pos(r, h) \in Nat /\ Pos(r, h) <= N
      /\ N <= Pos(r, h) + RcvWnd + SndWnd
      /\ Nxt(r, t) \in Nat /\ Pos(k, g) \in Nat /\ Pos(k, g) <= Nxt(r, t)
      /\ Nxt(r, t) <= Pos(k, g) + RcvWnd + SndWnd
  BY Apart
<1>5. /\ SndWnd \in Nat /\ RcvWnd \in Nat /\ MaxLag \in Nat /\ HalfRange \in Nat
      /\ SnModulus \in Nat /\ HalfRange >= SndWnd + RcvWnd + MaxLag
      /\ SnModulus >= 3 * SndWnd + RcvWnd + 2 * MaxLag
  BY Halves
<1>6. /\ u <= Pos(r, h) /\ p.seg.una = u % SnModulus
      /\ Ack(p) => /\ p.seg.sn = SnOf(d) /\ d \in Holds(r, h)
                   /\ u < d + 2 * SndWnd + MaxLag
  BY <1>1 DEF Told
<1>7. Push(p) => d \in 1..Nxt(r, t) /\ OfStream(t, p.seg)
  BY <1>2 DEF Pushed
<1>8. Pos(r, h) - u <= MaxLag /\ (Push(p) => Nxt(r, t) - d < SndWnd + MaxLag)
  OBVIOUS
<1> HIDE DEF N, u, d
<1>9. u <= N /\ N - u <= HalfRange
  BY SMTT(20), <1>3, <1>4, <1>5, <1>6, <1>8
<1>10. Ack(p) => d \in 1..N /\ N - d < SnModulus
  <2> SUFFICES ASSUME Ack(p)
               PROVE  d \in 1..N /\ N - d < SnModulus
    OBVIOUS
  <2>1. d \in 1..N
    BY <1>1, <1>4, <1>6, HoldsFits
  <2>2. u < d + 2 * SndWnd + MaxLag
    BY <1>6
  <2>3. N - d < SnModulus
    BY SMTT(20), <1>3, <1>4, <1>5, <1>8, <2>1, <2>2
  <2> QED
    BY <2>1, <2>3
<1>11. /\ l \in KCPs /\ SenderInv(l, s) /\ ReceiverInv(l, g, t, Nxt(r, t))
       /\ Nxt(l, s) = N /\ Una(l, s) >= Una(k, s)
       /\ \A x \in Done(l, s) : x \in Done(k, s) \/ x <= u \/ (Ack(p) /\ x = d)
       /\ Holds(k, g) \subseteq Holds(l, g) /\ Pos(l, g) >= Pos(k, g)
       /\ \A a \in l.acklist :
            \/ a \in k.acklist
            \/ Push(p) /\ a = [sn |-> p.seg.sn, data |-> d] /\ a.data \in Holds(l, g)
  <2>1. Ack(p) <=> p.seg.cmd = "ACK"
    BY DEF Ack
  <2>2. Push(p) <=> p.seg.cmd = "PUSH"
    BY DEF Push
  <2>3. /\ u \in Nat /\ p.seg.una = u % SnModulus /\ u <= Nxt(k, s)
        /\ Nxt(k, s) - u <= HalfRange
    BY <1>3, <1>6, <1>9 DEF N
  <2>4. p.seg.cmd = "ACK" =>
            /\ p.seg.sn = SnOf(p.seg.data) /\ p.seg.data \in 1..Nxt(k, s)
            /\ Nxt(k, s) - p.seg.data < SnModulus
    BY <1>6, <1>10, <2>1, Zenon DEF N, d
  <2>5. p.seg.cmd = "PUSH" =>
            /\ OfStream(t, p.seg) /\ p.seg.data \in 1..Nxt(r, t)
            /\ Nxt(r, t) - p.seg.data < SndWnd + MaxLag
            /\ Nxt(r, t) <= Pos(k, g) + RcvWnd + SndWnd
    BY <1>4, <1>7, <1>8, <2>2, Zenon DEF d
  <2>6. Accepted(k, s, g, t, Nxt(r, t), p.seg, u, l)
    BY <1>1, <1>2, <1>3, <1>4, <2>3, <2>4, <2>5, InputKeeps, Zenon
  <2> QED
    BY <2>1, <2>2, <2>6, Zenon DEF Accepted, N, d
<1> HIDE DEF l
<1>12. Arrived(l, s, r, h)
  <2> SUFFICES ASSUME NEW x \in Done(l, s)
               PROVE  x \in Holds(r, h)
    BY DEF Arrived
  <2>1. CASE x \in Done(k, s)
    BY <1>1, <2>1 DEF Arrived
  <2>2. CASE x <= u
    <3>1. x \in 1..N
      BY <1>11 DEF Done
    <3>2. x \in 1..Pos(r, h)
      BY <1>3, <1>4, <1>6, <2>2, <3>1
    <3> QED
      BY <3>2 DEF Holds
  <2>3. CASE Ack(p) /\ x = d
    BY <1>6, <2>3
  <2> QED
    BY <1>11, <2>1, <2>2, <2>3
<1>13. ToTell(l, s, r, h, from)
  <2> SUFFICES ASSUME NEW a \in r.acklist, NEW x \in Done(l, s)
               PROVE  x < a.data + SndWnd + MaxLag
    BY <1>1 DEF ToTell
  <2>1. CASE x \in Done(k, s)
    BY <1>1, <2>1 DEF ToTell
  <2>2. CASE x <= u
    <3>1. x \in 1..N /\ a.data \in Nat
      <4>1. x \in 1..N
        BY <1>11 DEF Done
      <4>2. a.data \in Nat
        BY KcpFields
      <4> QED
        BY <4>1, <4>2
    <3>2. u < a.data + SndWnd + MaxLag
      BY <1>1 DEF ToTell, u
    <3> QED
      <4>1. x \in Int /\ u \in Int /\ a.data \in Int /\ SndWnd \in Int /\ MaxLag \in Int
        BY <1>3, <1>4, <1>5, <3>1
      <4> QED
        BY <2>2, <3>2, <4>1, BelowSum, Zenon
  <2>3. CASE Ack(p) /\ x = d
    BY <1>1, <2>3 DEF ToTell, d
  <2> QED
    BY <1>11, <2>1, <2>2, <2>3
<1>14. Conversation(l, s, r, h, to, from)
  <2>1. Pushed(l, s, to)
    BY <1>1, <1>11, Zenon DEF Pushed, N
  <2> QED
    BY <1>1, <1>11, <1>12, <1>13, <2>1, Zenon DEF Conversation, N
<1>15. Told(l, g, to)
  <2> SUFFICES ASSUME NEW o \in to
               PROVE  /\ o.queued <= Pos(l, g)
                      /\ Ack(o) => o.seg.data \in Holds(l, g)
    BY <1>2, Zenon DEF Told
  <2>1. o.queued <= Pos(k, g) /\ (Ack(o) => o.seg.data \in Holds(k, g))
    BY <1>2, Zenon DEF Told
  <2>2. o.queued \in Nat /\ Pos(l, g) \in Nat
    BY <1>11, PosNat DEF Packets
  <2>3. o.queued <= Pos(l, g)
    BY <1>4, <1>11, <2>1, <2>2
  <2> QED
    BY <1>11, <2>1, <2>3
<1>16. ToTell(r, t, l, g, to)
  <2> SUFFICES ASSUME NEW a \in l.acklist
               PROVE  /\ a.sn = SnOf(a.data) /\ a.data \in Holds(l, g)
                      /\ \A x \in Done(r, t) : x < a.data + SndWnd + MaxLag
                      /\ \A o \in to : /\ o.queued < a.data + SndWnd + MaxLag
                                       /\ Ack(o) => o.seg.data < a.data + SndWnd + MaxLag
    BY DEF ToTell
  <2>1. CASE a \in k.acklist
    BY <1>2, <1>11, <2>1 DEF ToTell
  <2>2. CASE Push(p) /\ a = [sn |-> p.seg.sn, data |-> d] /\ a.data \in Holds(l, g)
    <3>1. a.sn = p.seg.sn /\ a.data = d /\ p.seg.sn = SnOf(d)
      BY <1>7, <2>2 DEF OfStream, d
    <3>2. \A x \in Nat : x <= Nxt(r, t) => x < d + SndWnd + MaxLag
      <4>1. /\ d \in Int /\ Nxt(r, t) \in Int /\ SndWnd \in Int /\ MaxLag \in Int
            /\ Nxt(r, t) - d < SndWnd + MaxLag
        BY <1>3, <1>4, <1>5, <1>8, <2>2
      <4>2. Nxt(r, t) < d + SndWnd + MaxLag
        BY <4>1
      <4>3. \A x \in Nat : x \in Int
        OBVIOUS
      <4> QED
        BY <4>1, <4>2, <4>3, BelowSum, Zenon
    <3>3. \A x \in Done(r, t) : x < d + SndWnd + MaxLag
      <4>1. \A x \in Done(r, t) : x \in Nat /\ x <= Nxt(r, t)
        BY <1>4 DEF Done
      <4> QED
        BY <3>2, <4>1, Zenon
    <3>4. ASSUME NEW o \in to
          PROVE  o.queued < d + SndWnd + MaxLag
      <4>1. o.queued \in Nat /\ o.queued <= Pos(k, g)
        BY <1>2 DEF Told, Packets
      <4>2. o.queued <= Nxt(r, t)
        BY <1>4, <4>1
      <4> QED
        BY <3>2, <4>1, <4>2, Zenon
    <3>5. ASSUME NEW o \in to, Ack(o)
          PROVE  o.seg.data < d + SndWnd + MaxLag
      <4>1. o.seg.data \in Holds(k, g)
        BY <1>2, <3>5 DEF Told
      <4>2. o.seg.data \in 1..Nxt(r, t)
        BY <1>2, <1>4, <4>1, HoldsFits
      <4>3. o.seg.data \in Nat /\ o.seg.data <= Nxt(r, t)
        BY <1>4, <4>2
      <4> QED
        BY <3>2, <4>3, Zenon
    <3> QED
      BY <2>2, <3>1, <3>3, <3>4, <3>5, Zenon
  <2> QED
    BY <1>11, <2>1, <2>2
<1>17. Conversation(r, t, l, g, from, to)
  <2>1. Arrived(r, t, l, g)
    BY <1>2, <1>11 DEF Arrived
  <2> QED
    BY <1>2, <1>11, <1>15, <1>16, <2>1, Zenon DEF Conversation
<1> QED
  BY <1>11, <1>14, <1>17 DEF l, N

\* The packets an end with the object k, which returned g, sends when it flushes.
Emission(k, g, late, expired) ==
    {[seg |-> x, queued |-> Pos(k, g)] : x \in emitted(k, late, expired)}
SomeOf(to, k, g, late, expired) == SUBSET (to \cup Emission(k, g, late, expired))

Flushed(k, s, g, r, t, h, from, on, l) ==
    /\ l \in KCPs /\ on \in SUBSET Packets
    /\ Conversation(l, s, r, h, on, from) /\ Conversation(r, t, l, g, from, on)
    /\ SameReceiver(k, l) /\ Una(l, s) = Una(k, s)

\* The end with the object k, which sends the stream s and receives t, calls
\* flush, and some of what it emits is under way then.
LEMMA FlushStep ==
    ASSUME NEW k \in KCPs, NEW s \in Seq(Fragments), NEW g \in Seq(Fragments),
           NEW r \in KCPs, NEW t \in Seq(Fragments), NEW h \in Seq(Fragments),
           NEW to \in SUBSET Packets, NEW from \in SUBSET Packets,
           Conversation(k, s, r, h, to, from), Conversation(r, t, k, g, from, to),
           NEW late, NEW expired \in BOOLEAN,
           NEW on \in SomeOf(to, k, g, late, expired)
    PROVE  Flushed(k, s, g, r, t, h, from, on, flush(k, late, expired))
<1> DEFINE l == flush(k, late, expired)
<1>1. /\ SenderInv(k, s) /\ ReceiverInv(r, h, s, Nxt(k, s)) /\ Arrived(k, s, r, h)
      /\ Told(r, h, from) /\ ToTell(k, s, r, h, from) /\ Pushed(k, s, to)
  BY DEF Conversation
<1>2. /\ SenderInv(r, t) /\ ReceiverInv(k, g, t, Nxt(r, t)) /\ Arrived(r, t, k, g)
      /\ Pushed(r, t, from) /\ Told(k, g, to) /\ ToTell(r, t, k, g, to)
  BY DEF Conversation
<1>3. /\ l \in KCPs /\ SameReceiver(k, l) /\ l.acklist = {} /\ SenderInv(l, s)
      /\ Nxt(l, s) >= Nxt(k, s) /\ Una(l, s) = Una(k, s) /\ Done(l, s) = Done(k, s)
  BY <1>1, FlushKeeps
<1>4. ASSUME NEW x \in emitted(k, late, expired)
      PROVE  /\ x \in Segments /\ x.una = k.rcv_nxt
             /\ x.cmd = "ACK" => \E a \in k.acklist : x.sn = a.sn /\ x.data = a.data
             /\ x.cmd = "PUSH" => x.data \in 1..Nxt(l, s) /\ OfStream(s, x)
  BY <1>1, EmittedIs
<1> HIDE DEF l
<1>5. /\ Nxt(k, s) \in Nat /\ Nxt(l, s) \in Nat
      /\ Nxt(r, t) \in Nat /\ Una(r, t) \in Nat /\ Pos(k, g) \in Nat /\ Pos(k, g) <= Nxt(r, t)
      /\ Nxt(r, t) <= Una(r, t) + SndWnd /\ SndWnd \in Nat \ {0} /\ MaxLag \in Nat
  BY <1>1, <1>3, Apart, SenderFacts, Halves
<1>6. ASSUME NEW p \in on, p \notin to
      PROVE  p.seg \in emitted(k, late, expired) /\ p.queued = Pos(k, g) /\ p \in Packets
  <2>1. PICK x \in emitted(k, late, expired) : p = [seg |-> x, queued |-> Pos(k, g)]
    BY <1>6 DEF Emission, SomeOf
  <2> QED
    BY <1>4, <1>5, <2>1 DEF Packets
<1>7. on \in SUBSET Packets
  BY <1>6
<1>8. Pushed(l, s, on)
  <2> SUFFICES ASSUME NEW p \in on, Push(p)
               PROVE  p.seg.data \in 1..Nxt(l, s) /\ OfStream(s, p.seg)
    BY DEF Pushed
  <2>1. CASE p \in to
    <3>1. p.seg.data \in 1..Nxt(k, s) /\ OfStream(s, p.seg)
      BY <1>1, <2>1 DEF Pushed
    <3> QED
      BY <1>3, <1>5, <3>1
  <2>2. CASE p \notin to
    BY <1>4, <1>6, <2>2 DEF Push
  <2> QED
    BY <2>1, <2>2
<1>9. Conversation(l, s, r, h, on, from)
  <2>1. ReceiverInv(r, h, s, Nxt(l, s))
    BY <1>1, <1>3, <1>5, ReceiverMore
  <2>2. Arrived(l, s, r, h) /\ ToTell(l, s, r, h, from)
    BY <1>1, <1>3, Zenon DEF Arrived, ToTell
  <2> QED
    BY <1>1, <1>3, <1>8, <2>1, <2>2, Zenon DEF Conversation
<1>10. /\ Pos(l, g) = Pos(k, g) /\ Holds(l, g) = Holds(k, g)
       /\ ReceiverInv(l, g, t, Nxt(r, t))
  BY <1>2, <1>3, ReceiverSame
<1>11. ASSUME NEW a \in k.acklist
       PROVE  /\ a.sn = SnOf(a.data) /\ a.data \in Holds(k, g)
              /\ Pos(k, g) < a.data + 2 * SndWnd + MaxLag
  <2>1. a.data \in Nat
    BY KcpFields
  <2>2. Una(r, t) < a.data + SndWnd + MaxLag
    <3>1. CASE Una(r, t) = 0
      BY <1>5, <2>1, <3>1
    <3>2. CASE Una(r, t) # 0
      <4>1. Una(r, t) \in 1..Una(r, t)
        BY <1>5, <3>2
      <4>2. Una(r, t) \in Done(r, t)
        BY <1>2, <4>1, SenderFacts
      <4> QED
        BY <1>2, <4>2 DEF ToTell
    <3> QED
      BY <3>1, <3>2
  <2>3. Pos(k, g) < a.data + 2 * SndWnd + MaxLag
    <3>1. \A x, n, u, w, c, m \in Int :
            x <= n /\ n <= u + w /\ u < c + w + m => x < c + 2 * w + m
      OBVIOUS
    <3>2. /\ Pos(k, g) \in Int /\ Nxt(r, t) \in Int /\ Una(r, t) \in Int
          /\ SndWnd \in Int /\ a.data \in Int /\ MaxLag \in Int
      BY <1>5, <2>1
    <3> QED
      BY <1>5, <2>2, <3>1, <3>2, Zenon
  <2> QED
    BY <1>2, <2>3 DEF ToTell
<1>12. Told(l, g, on)
  <2> SUFFICES ASSUME NEW p \in on
               PROVE  /\ p.queued <= Pos(k, g) /\ p.seg.una = p.queued % SnModulus
                      /\ Ack(p) => /\ p.seg.sn = SnOf(p.seg.data)
                                   /\ p.seg.data \in Holds(k, g)
                                   /\ p.queued < p.seg.data + 2 * SndWnd + MaxLag
    BY <1>10 DEF Told
  <2>1. CASE p \in to
    BY <1>2, <2>1 DEF Told
  <2>2. CASE p \notin to
    <3>1. p.seg \in emitted(k, late, expired) /\ p.queued = Pos(k, g)
      BY <1>6, <2>2
    <3>2. p.seg.una = p.queued % SnModulus
      BY <1>2, <1>4, <3>1 DEF ReceiverInv
    <3>3. ASSUME Ack(p)
          PROVE  /\ p.seg.sn = SnOf(p.seg.data)
                 /\ p.seg.data \in Holds(k, g)
                 /\ p.queued < p.seg.data + 2 * SndWnd + MaxLag
      <4>1. PICK a \in k.acklist : p.seg.sn = a.sn /\ p.seg.data = a.data
        BY <1>4, <3>1, <3>3 DEF Ack
      <4> QED
        BY <1>11, <3>1, <4>1
    <3> QED
      BY <1>5, <3>1, <3>2, <3>3
  <2> QED
    BY <2>1, <2>2
<1>13. Conversation(r, t, l, g, from, on)
  <2>1. Arrived(r, t, l, g) /\ ToTell(r, t, l, g, on)
    BY <1>2, <1>3, <1>10, Zenon DEF Arrived, ToTell
  <2> QED
    BY <1>2, <1>10, <1>12, <2>1, Zenon DEF Conversation
<1> QED
  BY <1>3, <1>7, <1>9, <1>13 DEF Flushed, l

-----------------------------------------------------------------------------
(***************************************************************************)
(* The invariant is inductive.                                             *)
(***************************************************************************)
LEMMA TwoEnds ==
    ASSUME NEW e \in Ends
    PROVE  /\ Peer[e] \in Ends /\ Peer[e] # e /\ Peer[Peer[e]] = e
           /\ \A x \in Ends : x = e \/ x = Peer[e]
BY DEF Ends, Peer

LEMMA Typed ==
    ASSUME TypeOK, NEW e \in Ends
    PROVE  /\ kcp[e] \in KCPs /\ net[e] \in SUBSET Packets
           /\ sent[e] \in Seq(Fragments) /\ got[e] \in Seq(Fragments)
           /\ Numbered(e) = Nxt(kcp[e], sent[e]) /\ Queued(e) = Pos(kcp[e], got[e])
BY DEF TypeOK, Packets, Fragments, Numbered, Queued, Nxt, Pos

LEMMA NewIsKcp == NewKCP \in KCPs
<1>1. 0 \in Sns /\ RcvWnd \in 0..RcvWnd
  BY Halves DEF Sns
<1>2. /\ << >> \in Seq(QueueSegs) /\ << >> \in Seq(SndSegs) /\ << >> \in Seq(RcvSegs)
      /\ IKCP_THRESH_INIT \in Nat
  BY DEF IKCP_THRESH_INIT
<1> QED
  BY <1>1, <1>2 DEF NewKCP, KCPs

LEMMA NewConversation == Conversation(NewKCP, << >>, NewKCP, << >>, {}, {})
<1>1. /\ NewKCP.snd_queue = << >> /\ NewKCP.snd_buf = << >> /\ NewKCP.rcv_queue = << >>
      /\ NewKCP.rcv_buf = << >> /\ NewKCP.acklist = {}
      /\ NewKCP.snd_nxt = 0 /\ NewKCP.snd_una = 0 /\ NewKCP.rcv_nxt = 0
  BY DEF NewKCP
<1>2. 0 = 0 % SnModulus
  <2>1. 0 \in Sns /\ 0 = 0 - SnModulus * 0
    BY Halves DEF Sns
  <2> QED
    BY <2>1, RemainderIs
<1>3. /\ Nxt(NewKCP, << >>) = 0 /\ Una(NewKCP, << >>) = 0 /\ Pos(NewKCP, << >>) = 0
  BY <1>1 DEF Nxt, Una, Pos
<1>4. SndWnd \in Nat /\ RcvWnd \in Nat
  BY Halves
<1>5. Ascending(<< >>)
  BY DEF Ascending
<1>6. SenderInv(NewKCP, << >>)
  BY <1>1, <1>2, <1>3, <1>4, <1>5 DEF SenderInv
<1>7. ReceiverInv(NewKCP, << >>, << >>, 0)
  BY <1>1, <1>2, <1>3, <1>4, <1>5 DEF ReceiverInv
<1>8. Done(NewKCP, << >>) = {}
  BY <1>3 DEF Done
<1> QED
  BY <1>1, <1>3, <1>6, <1>7, <1>8 DEF Conversation, Arrived, Pushed, Told, ToTell

LEMMA KcpInit ==
    ASSUME Init
    PROVE  KcpInv
<1>1. TypeOK
  <2>1. /\ kcp \in [Ends -> KCPs] /\ net \in [Ends -> SUBSET Packets]
        /\ sent \in [Ends -> Seq(Fragments)] /\ got \in [Ends -> Seq(Fragments)]
        /\ calm \in BOOLEAN
    <3>1. << >> \in Seq(Fragments) /\ {} \in SUBSET Packets
      OBVIOUS
    <3> QED
      BY <3>1, NewIsKcp DEF Init
  <2> QED
    BY <2>1 DEF TypeOK, Packets, Fragments
<1>2. ASSUME NEW e \in Ends
      PROVE  StreamInv(e)
  BY TwoEnds, NewConversation DEF Init, StreamInv
<1> QED
  BY <1>1, <1>2 DEF KcpInv

LEMMA InvSend ==
    ASSUME KcpInv, NEW e \in Ends, NEW n \in 1..MaxFrag, UserSend(e, n)
    PROVE  KcpInv'
<1> DEFINE f == Peer[e]
           data == [i \in 1..n |-> Len(sent[e]) + i]
           l == Send(kcp[e], data)
           t == sent[e] \o Marked(data)
<1>1. f \in Ends /\ f # e /\ Peer[f] = e /\ \A x \in Ends : x = e \/ x = f
  BY TwoEnds
<1> HIDE DEF f
<1>2. /\ kcp[e] \in KCPs /\ sent[e] \in Seq(Fragments) /\ got[e] \in Seq(Fragments)
      /\ kcp[f] \in KCPs /\ sent[f] \in Seq(Fragments) /\ got[f] \in Seq(Fragments)
      /\ net[e] \in SUBSET Packets /\ net[f] \in SUBSET Packets
  BY <1>1, Typed DEF KcpInv
<1>3. /\ Conversation(kcp[e], sent[e], kcp[f], got[f], net[f], net[e])
      /\ Conversation(kcp[f], sent[f], kcp[e], got[e], net[e], net[f])
  BY <1>1 DEF KcpInv, StreamInv, f
<1>4. SenderInv(kcp[e], sent[e])
  BY <1>3 DEF Conversation
<1>5. /\ t \in Seq(Fragments) /\ l \in KCPs /\ SameReceiver(kcp[e], l)
      /\ l.acklist = kcp[e].acklist
  BY <1>2, <1>4, SendKeeps
<1>6. Conversation(l, t, kcp[f], got[f], net[f], net[e])
  BY <1>2, <1>3, SendStep
<1>7. /\ kcp' = [kcp EXCEPT ![e] = l] /\ sent' = [sent EXCEPT ![e] = t]
      /\ net' = net /\ got' = got /\ calm' = calm
  BY DEF UserSend
<1> HIDE DEF l, t
<1>8. Conversation(kcp[f], sent[f], l, got[e], net[e], net[f])
  BY <1>3, <1>5, ReceiverStays
<1>9. TypeOK'
  BY <1>5, <1>7 DEF KcpInv, TypeOK, Fragments
<1>10. kcp'[e] = l /\ kcp'[f] = kcp[f] /\ sent'[e] = t /\ sent'[f] = sent[f]
  BY <1>1, <1>7 DEF KcpInv, TypeOK
<1>11. StreamInv(e)' /\ StreamInv(f)'
  BY <1>1, <1>6, <1>7, <1>8, <1>10 DEF StreamInv, f
<1> QED
  BY <1>1, <1>9, <1>11 DEF KcpInv

LEMMA InvRecv ==
    ASSUME KcpInv, NEW e \in Ends, UserRecv(e)
    PROVE  KcpInv'
<1> DEFINE f == Peer[e]
           l == Recv(kcp[e])
           h == got[e] \o Marked(RecvData(kcp[e]))
<1>1. f \in Ends /\ f # e /\ Peer[f] = e /\ \A x \in Ends : x = e \/ x = f
  BY TwoEnds
<1> HIDE DEF f
<1>2. /\ kcp[e] \in KCPs /\ sent[e] \in Seq(Fragments) /\ got[e] \in Seq(Fragments)
      /\ kcp[f] \in KCPs /\ sent[f] \in Seq(Fragments) /\ got[f] \in Seq(Fragments)
      /\ net[e] \in SUBSET Packets /\ net[f] \in SUBSET Packets
  BY <1>1, Typed DEF KcpInv
<1>3. /\ Conversation(kcp[e], sent[e], kcp[f], got[f], net[f], net[e])
      /\ Conversation(kcp[f], sent[f], kcp[e], got[e], net[e], net[f])
  BY <1>1 DEF KcpInv, StreamInv, f
<1>4. /\ SenderInv(kcp[f], sent[f])
      /\ ReceiverInv(kcp[e], got[e], sent[f], Nxt(kcp[f], sent[f]))
  BY <1>3 DEF Conversation
<1>5. Nxt(kcp[f], sent[f]) \in Nat /\ \A i \in DOMAIN sent[f] : sent[f][i].data = i
  BY <1>2, <1>4, SenderFacts DEF SenderInv
<1>6. PeekSize(kcp[e])
  BY DEF UserRecv
<1>7. /\ l \in KCPs /\ SameSender(kcp[e], l) /\ h \in Seq(Fragments)
  BY <1>2, <1>4, <1>5, <1>6, RecvKeeps
<1>8. Conversation(kcp[f], sent[f], l, h, net[e], net[f])
  BY <1>2, <1>3, <1>6, RecvStep
<1>9. /\ kcp' = [kcp EXCEPT ![e] = l] /\ got' = [got EXCEPT ![e] = h]
      /\ net' = net /\ sent' = sent /\ calm' = calm
  BY DEF UserRecv
<1> HIDE DEF l, h
<1>10. Conversation(l, sent[e], kcp[f], got[f], net[f], net[e])
  BY <1>3, <1>7, SenderStays
<1>11. TypeOK'
  BY <1>7, <1>9 DEF KcpInv, TypeOK, Fragments
<1>12. kcp'[e] = l /\ kcp'[f] = kcp[f] /\ got'[e] = h /\ got'[f] = got[f]
  BY <1>1, <1>9 DEF KcpInv, TypeOK
<1>13. StreamInv(e)' /\ StreamInv(f)'
  BY <1>1, <1>8, <1>9, <1>10, <1>12 DEF StreamInv, f
<1> QED
  BY <1>1, <1>11, <1>13 DEF KcpInv

LEMMA InvArrive ==
    ASSUME KcpInv, NEW e \in Ends, Arrive(e)
    PROVE  KcpInv'
<1> DEFINE f == Peer[e]
<1>1. f \in Ends /\ f # e /\ Peer[f] = e /\ \A x \in Ends : x = e \/ x = f
  BY TwoEnds
<1>2. /\ kcp[e] \in KCPs /\ sent[e] \in Seq(Fragments) /\ got[e] \in Seq(Fragments)
      /\ kcp[f] \in KCPs /\ sent[f] \in Seq(Fragments) /\ got[f] \in Seq(Fragments)
      /\ net[e] \in SUBSET Packets /\ net[f] \in SUBSET Packets
      /\ Numbered(f) = Nxt(kcp[f], sent[f]) /\ Queued(f) = Pos(kcp[f], got[f])
  BY <1>1, Typed DEF KcpInv
<1>3. /\ Conversation(kcp[e], sent[e], kcp[f], got[f], net[f], net[e])
      /\ Conversation(kcp[f], sent[f], kcp[e], got[e], net[e], net[f])
  BY <1>1 DEF KcpInv, StreamInv
<1>4. PICK p \in Fresh(e), grow \in BOOLEAN, again \in BOOLEAN :
            /\ kcp' = [kcp EXCEPT ![e] = Input(@, p.seg, grow)]
            /\ net' = [net EXCEPT ![e] = IF again THEN @ ELSE @ \ {p}]
            /\ sent' = sent /\ got' = got /\ calm' = calm
  BY Zenon DEF Arrive
<1>5. /\ p \in net[e] /\ Pos(kcp[f], got[f]) - p.queued <= MaxLag
      /\ Push(p) => Nxt(kcp[f], sent[f]) - p.seg.data < SndWnd + MaxLag
  BY <1>2 DEF Fresh, Push
<1> HIDE DEF f
<1> DEFINE l == Input(kcp[e], p.seg, grow)
           from == IF again THEN net[e] ELSE net[e] \ {p}
<1>6. /\ l \in KCPs
      /\ Conversation(l, sent[e], kcp[f], got[f], net[f], net[e])
      /\ Conversation(kcp[f], sent[f], l, got[e], net[e], net[f])
  BY <1>2, <1>3, <1>5, ArriveStep
<1>7. kcp' = [kcp EXCEPT ![e] = l] /\ net' = [net EXCEPT ![e] = from]
  BY <1>4
<1> HIDE DEF l
<1>8. from \in SUBSET net[e]
  OBVIOUS
<1> HIDE DEF from
<1>9. /\ Conversation(l, sent[e], kcp[f], got[f], net[f], from)
      /\ Conversation(kcp[f], sent[f], l, got[e], from, net[f])
  BY <1>6, <1>8, PacketsLost
<1>10. TypeOK'
  <2>1. from \in SUBSET Packets
    BY <1>2, <1>8
  <2> QED
    BY <1>4, <1>6, <1>7, <2>1 DEF KcpInv, TypeOK, Packets
<1>11. kcp'[e] = l /\ kcp'[f] = kcp[f] /\ net'[e] = from /\ net'[f] = net[f]
  BY <1>1, <1>7 DEF KcpInv, TypeOK
<1>12. StreamInv(e)' /\ StreamInv(f)'
  BY <1>1, <1>4, <1>9, <1>11 DEF StreamInv, f
<1> QED
  BY <1>1, <1>10, <1>12 DEF KcpInv

LEMMA InvUpdate ==
    ASSUME KcpInv, NEW e \in Ends, Update(e)
    PROVE  KcpInv'
<1> DEFINE f == Peer[e]
<1>1. f \in Ends /\ f # e /\ Peer[f] = e /\ \A x \in Ends : x = e \/ x = f
  BY TwoEnds
<1>2. /\ kcp[e] \in KCPs /\ sent[e] \in Seq(Fragments) /\ got[e] \in Seq(Fragments)
      /\ kcp[f] \in KCPs /\ sent[f] \in Seq(Fragments) /\ got[f] \in Seq(Fragments)
      /\ net[e] \in SUBSET Packets /\ net[f] \in SUBSET Packets
      /\ Queued(e) = Pos(kcp[e], got[e])
  BY <1>1, Typed DEF KcpInv
<1>3. /\ Conversation(kcp[e], sent[e], kcp[f], got[f], net[f], net[e])
      /\ Conversation(kcp[f], sent[f], kcp[e], got[e], net[e], net[f])
  BY <1>1 DEF KcpInv, StreamInv
<1>4. PICK late \in SUBSET AllSent(e), expired \in BOOLEAN : Flush(e, late, expired)
  BY Zenon DEF Update
<1> DEFINE l == flush(kcp[e], late, expired)
           out == Emission(kcp[e], got[e], late, expired)
<1>5. /\ kcp' = [kcp EXCEPT ![e] = l] /\ sent' = sent /\ got' = got /\ calm' = calm
  BY <1>4 DEF Flush
<1>6. PICK on \in SUBSET (net[f] \cup out) : net' = [net EXCEPT ![f] = on]
  <2>1. Fresh(f) \subseteq net[f]
    BY DEF Fresh
  <2> DEFINE sends == {[seg |-> x, queued |-> Queued(e)] : x \in emitted(kcp[e], late, expired)}
  <2>2. sends = out
    BY <1>2, Zenon DEF Emission
  <2>3. \/ net' = [net EXCEPT ![f] = sends]
        \/ \E kept \in SUBSET (Fresh(f) \cup sends) : net' = [net EXCEPT ![f] = kept]
    BY <1>4, Zenon DEF Flush
  <2> HIDE DEF out, sends, f
  <2> QED
    BY <2>1, <2>2, <2>3
<1> HIDE DEF f
<1>7. /\ l \in KCPs /\ on \in SUBSET Packets
      /\ Conversation(l, sent[e], kcp[f], got[f], on, net[e])
      /\ Conversation(kcp[f], sent[f], l, got[e], net[e], on)
  <2>1. on \in SomeOf(net[f], kcp[e], got[e], late, expired)
    BY DEF SomeOf
  <2>2. Flushed(kcp[e], sent[e], got[e], kcp[f], sent[f], got[f], net[e], on, l)
    BY <1>2, <1>3, <2>1, FlushStep, Zenon
  <2> QED
    BY <2>2, Zenon DEF Flushed
<1> HIDE DEF l, out
<1>8. TypeOK'
  BY <1>5, <1>6, <1>7 DEF KcpInv, TypeOK, Packets
<1>9. kcp'[e] = l /\ kcp'[f] = kcp[f] /\ net'[e] = net[e] /\ net'[f] = on
  BY <1>1, <1>5, <1>6 DEF KcpInv, TypeOK
<1>10. StreamInv(e)' /\ StreamInv(f)'
  BY <1>1, <1>5, <1>7, <1>9 DEF StreamInv, f
<1> QED
  BY <1>1, <1>8, <1>10 DEF KcpInv

LEMMA InvStep ==
    ASSUME KcpInv, [Next]_vars
    PROVE  KcpInv'
<1>1. CASE UNCHANGED <<kcp, net, sent, got>> /\ calm' \in BOOLEAN
  BY <1>1 DEF KcpInv, TypeOK, StreamInv
<1>2. CASE UNCHANGED vars
  BY <1>1, <1>2 DEF vars, KcpInv, TypeOK
<1>3. CASE GetCalm
  BY <1>1, <1>3 DEF GetCalm
<1> QED
  BY <1>2, <1>3, InvSend, InvRecv, InvArrive, InvUpdate DEF Next

-----------------------------------------------------------------------------
(***************************************************************************)
(* The theorems.                                                           *)
(***************************************************************************)

\* The inductive invariant holds in every state: of each of the two streams,
\* what the sender has, what the receiver has and what the packets under way
\* say of both agree.
THEOREM ConversationsHold == Spec => []KcpInv
<1>1. Init => KcpInv
  BY KcpInit
<1>2. KcpInv /\ [Next]_vars => KcpInv'
  BY InvStep
<1> QED
  BY <1>1, <1>2, PTL DEF Spec

\* Every queue, buffer, number and packet has its type; a number that Add and
\* Diff compute stays a sequence number.
THEOREM TypeCorrect == Spec => []TypeOK
<1>1. KcpInv => TypeOK
  BY DEF KcpInv
<1> QED
  BY <1>1, ConversationsHold, PTL

\* The two ends of a conversation, with their types.
LEMMA Ended ==
    ASSUME KcpInv, NEW e \in Ends
    PROVE  /\ Peer[e] \in Ends /\ Peer[e] # e /\ Peer[Peer[e]] = e
           /\ kcp[e] \in KCPs /\ sent[e] \in Seq(Fragments) /\ got[e] \in Seq(Fragments)
           /\ kcp[Peer[e]] \in KCPs
           /\ sent[Peer[e]] \in Seq(Fragments) /\ got[Peer[e]] \in Seq(Fragments)
           /\ SenderInv(kcp[e], sent[e]) /\ SenderInv(kcp[Peer[e]], sent[Peer[e]])
           /\ ReceiverInv(kcp[e], got[e], sent[Peer[e]], Nxt(kcp[Peer[e]], sent[Peer[e]]))
           /\ ReceiverInv(kcp[Peer[e]], got[Peer[e]], sent[e], Nxt(kcp[e], sent[e]))
           /\ Arrived(kcp[e], sent[e], kcp[Peer[e]], got[Peer[e]])
<1>1. Peer[e] \in Ends /\ Peer[e] # e /\ Peer[Peer[e]] = e
  BY TwoEnds
<1>2. StreamInv(e) /\ StreamInv(Peer[e])
  BY <1>1 DEF KcpInv
<1>3. /\ kcp[e] \in KCPs /\ sent[e] \in Seq(Fragments) /\ got[e] \in Seq(Fragments)
      /\ kcp[Peer[e]] \in KCPs
      /\ sent[Peer[e]] \in Seq(Fragments) /\ got[Peer[e]] \in Seq(Fragments)
  BY <1>1, Typed DEF KcpInv
<1> QED
  BY <1>1, <1>2, <1>3 DEF StreamInv, Conversation

\* A queue that starts behind place c and has no gaps.
LEMMA DataRange ==
    ASSUME NEW S, NEW q \in Seq(S), NEW c \in Nat, \A i \in 1..Len(q) : q[i].data = c + i
    PROVE  DataOf(q) = c + 1 .. c + Len(q)
<1>1. Len(q) \in Nat
  BY SeqFacts
<1>2. DataOf(q) = {q[i].data : i \in 1..Len(q)}
  BY SeqFacts
<1>3. PICK n \in Nat : n = Len(q)
  BY <1>1
<1>4. \A d \in c + 1 .. c + n : d - c \in 1..n /\ q[d - c].data = d
  BY <1>3
<1>5. \A i \in 1..n : q[i].data \in c + 1 .. c + n
  BY <1>3
<1>6. DataOf(q) = {q[i].data : i \in 1..n}
  BY <1>2, <1>3
<1> QED
  BY <1>3, <1>4, <1>5, <1>6

LEMMA DataWithin ==
    ASSUME NEW S, NEW q \in Seq(S), NEW n, \A i \in 1..Len(q) : q[i].data \in n
    PROVE  DataOf(q) \subseteq n
<1>1. DataOf(q) = {q[i].data : i \in 1..Len(q)}
  BY SeqFacts
<1> QED
  BY <1>1

\* The fragments of the stream s are all in one of five places.
Kept(k, s, r, g) ==
    1..Len(s) = DataOf(k.snd_queue) \cup DataOf(k.snd_buf) \cup DataOf(g)
                \cup DataOf(r.rcv_queue) \cup DataOf(r.rcv_buf)

LEMMA Everything ==
    ASSUME NEW k \in KCPs, NEW s \in Seq(Fragments), SenderInv(k, s),
           NEW r \in KCPs, NEW g \in Seq(Fragments), ReceiverInv(r, g, s, Nxt(k, s)),
           Arrived(k, s, r, g)
    PROVE  Kept(k, s, r, g)
<1> DEFINE N == Nxt(k, s)
           R == Pos(r, g)
<1>1. /\ N \in Nat /\ Len(s) \in Nat /\ Len(g) \in Nat /\ R \in Nat
      /\ Len(k.snd_queue) \in Nat /\ Len(r.rcv_queue) \in Nat
      /\ N + Len(k.snd_queue) = Len(s) /\ R = Len(g) + Len(r.rcv_queue) /\ R <= N
  <2>1. N \in Nat /\ N + Len(k.snd_queue) = Len(s)
    BY SenderFacts
  <2>2. R \in Nat /\ Len(g) \in Nat /\ R = Len(g) + Len(r.rcv_queue)
    BY PosNat
  <2>3. Len(k.snd_queue) \in Nat /\ Len(s) \in Nat
    BY SndQueueFacts, SeqFacts
  <2>4. Len(r.rcv_queue) \in Nat
    BY KcpFields, RcvFacts
  <2> QED
    BY <2>1, <2>2, <2>3, <2>4 DEF ReceiverInv
<1>2. DataOf(k.snd_queue) = N + 1 .. Len(s)
  <2>1. \A i \in 1..Len(k.snd_queue) : k.snd_queue[i].data = N + i
    BY SndQueueFacts DEF SenderInv
  <2>2. DataOf(k.snd_queue) = N + 1 .. N + Len(k.snd_queue)
    BY <1>1, <2>1, KcpFields, DataRange
  <2> QED
    BY <1>1, <2>2
<1>3. DataOf(k.snd_buf) \subseteq 1..N
  <2>1. \A i \in 1..Len(k.snd_buf) : k.snd_buf[i].data \in 1..N
    BY SndBufFacts DEF SenderInv
  <2> QED
    BY <2>1, KcpFields, DataWithin
<1>4. DataOf(g) = 1..Len(g)
  <2>1. \A i \in 1..Len(g) : i \in DOMAIN s /\ g[i].data = 0 + i
    <3>1. DOMAIN g = 1..Len(g) /\ DOMAIN s = 1..Len(s)
      BY SeqFacts
    <3>2. \A i \in 1..Len(g) : i \in 1..Len(s) /\ 0 + i = i
      <4> HIDE DEF N, R
      <4> QED
        BY <1>1
    <3> QED
      BY <3>1, <3>2 DEF ReceiverInv, SenderInv
  <2>2. DataOf(g) = 0 + 1 .. 0 + Len(g)
    BY <2>1, DataRange
  <2> QED
    BY <1>1, <2>2
<1>5. DataOf(r.rcv_queue) = Len(g) + 1 .. R
  <2>1. \A i \in 1..Len(r.rcv_queue) : r.rcv_queue[i].data = Len(g) + i
    BY KcpFields, RcvFacts DEF ReceiverInv
  <2>2. DataOf(r.rcv_queue) = Len(g) + 1 .. Len(g) + Len(r.rcv_queue)
    BY <1>1, <2>1, KcpFields, DataRange
  <2> QED
    BY <1>1, <2>2
<1>6. DataOf(r.rcv_buf) \subseteq 1..N
  <2>1. \A d \in Holds(r, g) : d \in 1..N
    BY <1>1, HoldsFits
  <2> QED
    BY <2>1 DEF Holds
<1>7. 1..N \subseteq DataOf(k.snd_buf) \cup 1..R \cup DataOf(r.rcv_buf)
  BY DEF Arrived, Done, Holds
<1>8. 1..Len(s) = 1..N \cup N + 1 .. Len(s) /\ 1..R = 1..Len(g) \cup Len(g) + 1 .. R
      /\ 1..R \subseteq 1..N
  <2> HIDE DEF N, R
  <2> QED
    BY <1>1
<1> QED
  BY <1>2, <1>3, <1>4, <1>5, <1>6, <1>7, <1>8, Zenon DEF Kept

\* A fragment leaves the sender's buffers only when the receiver has it: the
\* una and the acknowledgements of a packet that comes late, when the numbers
\* have gone round, still stand for the fragments they were sent for.
THEOREM Forgetful == Spec => []NothingForgotten
<1>1. KcpInv => NothingForgotten
  <2> SUFFICES ASSUME KcpInv, NEW e \in Ends
               PROVE  Kept(kcp[e], sent[e], kcp[Peer[e]], got[Peer[e]])
    BY DEF NothingForgotten, Kept
  <2> QED
    BY Ended, Everything, Zenon
<1> QED
  BY <1>1, ConversationsHold, PTL

\* What Recv returned is the beginning of what the peer gave to Send.
THEOREM StreamsAreIntact == Spec => []StreamIntact
<1>1. KcpInv => StreamIntact
  <2> SUFFICES ASSUME KcpInv, NEW e \in Ends
               PROVE  IsPrefix(got[e], sent[Peer[e]])
    BY DEF StreamIntact
  <2> DEFINE g == got[e]
             s == sent[Peer[e]]
             k == kcp[Peer[e]]
  <2>1. /\ g \in Seq(Fragments) /\ s \in Seq(Fragments) /\ k \in KCPs /\ SenderInv(k, s)
        /\ ReceiverInv(kcp[e], g, s, Nxt(k, s)) /\ kcp[e] \in KCPs
    BY Ended
  <2> HIDE DEF g, s, k
  <2>2. Len(g) \in Nat /\ Len(s) \in Nat /\ Len(g) <= Len(s)
    <3>1. Nxt(k, s) \in Nat /\ Nxt(k, s) + Len(k.snd_queue) = Len(s) /\ Len(k.snd_queue) \in Nat
      BY <2>1, SenderFacts, SndQueueFacts
    <3>2. /\ Pos(kcp[e], g) = Len(g) + Len(kcp[e].rcv_queue) /\ Len(g) \in Nat
          /\ Len(kcp[e].rcv_queue) \in Nat
      BY <2>1, PosNat, KcpFields, RcvFacts
    <3> QED
      BY <2>1, <3>1, <3>2 DEF ReceiverInv
  <2>3. \A i \in 1..Len(g) : g[i] = s[i]
    BY <2>1, SeqFacts DEF ReceiverInv
  <2>4. /\ SubSeq(g, 1, Len(g)) \in Seq(Fragments) /\ SubSeq(s, 1, Len(g)) \in Seq(Fragments)
        /\ Len(SubSeq(g, 1, Len(g))) = Len(g) /\ Len(SubSeq(s, 1, Len(g))) = Len(g)
        /\ \A i \in 1..Len(g) : SubSeq(g, 1, Len(g))[i] = g[i]
        /\ \A i \in 1..Len(g) : SubSeq(s, 1, Len(g))[i] = s[i]
    BY <2>1, <2>2, Split
  <2>5. SubSeq(g, 1, Len(g)) = SubSeq(s, 1, Len(g))
    BY <2>3, <2>4, SeqEqual
  <2> QED
    BY <2>2, <2>5 DEF IsPrefix, g, s
<1> QED
  BY <1>1, ConversationsHold, PTL

\* Where a segment lies in the receive window.
LEMMA PlaceInWindow ==
    ASSUME NEW k \in KCPs, NEW S, NEW g \in Seq(S), NEW s, NEW n \in Nat,
           ReceiverInv(k, g, s, n), NEW i \in 1..Len(k.rcv_buf)
    PROVE  /\ Diff(k.rcv_buf[i].sn, k.rcv_nxt) = k.rcv_buf[i].data - 1 - Pos(k, g)
           /\ Diff(k.rcv_buf[i].sn, k.rcv_nxt) \in 0..RcvWnd - 1
           /\ k.rcv_buf[i].data \in Nat
<1>1. k.rcv_buf[i].data \in Nat /\ Pos(k, g) \in Nat /\ Len(k.rcv_buf) \in Nat
  BY KcpFields, RcvFacts, PosNat
<1>2. k.rcv_buf[i].data >= Pos(k, g) + i /\ k.rcv_buf[i].data <= Pos(k, g) + RcvWnd
  BY InWindow
<1>3. /\ k.rcv_buf[i].sn = SnOf(k.rcv_buf[i].data)
      /\ k.rcv_nxt = Pos(k, g) % SnModulus
  BY KcpFields, RcvFacts DEF ReceiverInv, OfStream
<1>4. PICK d \in Nat : d = k.rcv_buf[i].data
  BY <1>1
<1>5. PICK p \in Nat : p = Pos(k, g)
  BY <1>1
<1>6. PICK x \in Int : x = d - 1
  OBVIOUS
<1>7. x - p < HalfRange /\ p - x <= HalfRange /\ x - p = d - 1 - p /\ x - p \in 0..RcvWnd - 1
  <2>1. d >= p + i /\ d <= p + RcvWnd /\ i \in Nat /\ i >= 1
    BY <1>1, <1>2, <1>4, <1>5
  <2>2. RcvWnd \in Nat /\ SndWnd \in Nat \ {0} /\ MaxLag \in Nat /\ HalfRange \in Nat
        /\ HalfRange >= SndWnd + RcvWnd + MaxLag
    BY Halves
  <2> QED
    BY <1>6, <2>1, <2>2
<1>8. Diff(x % SnModulus, p % SnModulus) = x - p
  BY <1>7, DiffExact
<1>9. k.rcv_buf[i].sn = x % SnModulus
  BY <1>3, <1>4, <1>6 DEF SnOf
<1> QED
  BY <1>1, <1>2, <1>3, <1>4, <1>5, <1>7, <1>8, <1>9

\* The windows bound what is not acknowledged, what waits for the user and what
\* is out of order; rcv_buf holds segments of the receive window only, in order
\* and each once, also where the numbers go round.
THEOREM WindowsAreKept == Spec => []WindowsHold
<1>1. KcpInv => WindowsHold
  <2> SUFFICES ASSUME KcpInv, NEW e \in Ends
               PROVE  LET k == kcp[e]
                          place == [i \in DOMAIN k.rcv_buf |-> Diff(k.rcv_buf[i].sn, k.rcv_nxt)]
                      IN  /\ Len(k.snd_buf) <= SndWnd
                          /\ Len(k.rcv_queue) <= RcvWnd
                          /\ \A i \in DOMAIN place :
                              /\ place[i] \in 0..RcvWnd - 1
                              /\ \A j \in 1..i - 1 : place[j] < place[i]
    BY DEF WindowsHold
  <2> DEFINE k == kcp[e]
             g == got[e]
             R == Pos(k, g)
             place == [i \in DOMAIN k.rcv_buf |-> Diff(k.rcv_buf[i].sn, k.rcv_nxt)]
  <2>1. PICK n \in Nat : ReceiverInv(k, g, sent[Peer[e]], n)
    BY Ended, SenderFacts
  <2>2. k \in KCPs /\ g \in Seq(Fragments)
    BY Ended
  <2>3. Len(k.snd_buf) <= SndWnd
    BY Ended, SenderFacts
  <2>4. Len(k.rcv_queue) <= RcvWnd
    BY <2>1 DEF ReceiverInv
  <2>5. DOMAIN place = 1..Len(k.rcv_buf) /\ Len(k.rcv_buf) \in Nat
    BY <2>2, KcpFields, RcvFacts
  <2>6. \A i \in 1..Len(k.rcv_buf) :
            /\ place[i] = k.rcv_buf[i].data - 1 - R
            /\ k.rcv_buf[i].data \in Nat
            /\ place[i] \in 0..RcvWnd - 1
    BY <2>1, <2>2, <2>5, PlaceInWindow
  <2>7. \A i, j \in 1..Len(k.rcv_buf) : i < j => k.rcv_buf[i].data < k.rcv_buf[j].data
    BY <2>1, <2>2, InWindow
  <2>8. R \in Nat
    BY <2>2, PosNat
  <2> HIDE DEF place, R, k
  <2>9. \A x, y, r \in Nat : x < y => x - 1 - r < y - 1 - r
    OBVIOUS
  <2>10. \A i \in 1..Len(k.rcv_buf) : \A j \in 1..i - 1 : place[j] < place[i]
    <3> SUFFICES ASSUME NEW i \in 1..Len(k.rcv_buf), NEW j \in 1..i - 1
                 PROVE  place[j] < place[i]
      OBVIOUS
    <3>1. j \in 1..Len(k.rcv_buf) /\ j < i
      BY <2>5
    <3>2. k.rcv_buf[j].data < k.rcv_buf[i].data
      BY <2>7, <3>1
    <3> QED
      BY <2>6, <2>8, <2>9, <3>1, <3>2, Zenon
  <2> QED
    BY <2>3, <2>4, <2>5, <2>6, <2>10, Zenon DEF place, k
<1> QED
  BY <1>1, ConversationsHold, PTL

\* A full rcv_queue begins with a whole message, so that the user can make room.
THEOREM QueueStaysReadable == Spec => []QueueReadable
<1>1. KcpInv => QueueReadable
  <2> SUFFICES ASSUME KcpInv, NEW e \in Ends, Len(kcp[e].rcv_queue) >= RcvWnd
               PROVE  PeekSize(kcp[e])
    BY DEF QueueReadable
  <2> DEFINE q == kcp[e].rcv_queue
  <2>1. q \in Seq(RcvSegs)
    BY Ended, KcpFields
  <2>2. \A i \in DOMAIN q : q[i].frg < MaxFrag
    BY Ended DEF ReceiverInv, FrgOf
  <2> HIDE DEF q
  <2>3. Len(q) \in Nat /\ DOMAIN q = 1..Len(q) /\ Len(q) >= RcvWnd
        /\ \A i \in 1..Len(q) : q[i].frg \in Nat
    BY <2>1, RcvFacts DEF q
  <2>4. RcvWnd \in Nat \ {0} /\ MaxFrag \in Nat /\ MaxFrag <= RcvWnd
    BY Halves
  <2>5. 1 \in 1..Len(q)
    BY <2>3, <2>4
  <2>6. q # << >> /\ Len(q) >= q[1].frg + 1
    <3>1. q[1].frg \in Nat /\ q[1].frg < MaxFrag
      BY <2>2, <2>3, <2>5
    <3>2. q # << >>
      BY <2>1, <2>3, <2>4, RcvFacts
    <3> QED
      BY <2>3, <2>4, <3>1, <3>2
  <2> QED
    BY <2>6 DEF q, PeekSize
<1> QED
  BY <1>1, ConversationsHold, PTL

-----------------------------------------------------------------------------
(***************************************************************************)
(* Kcp implements KcpStream.                                               *)
(***************************************************************************)

\* The variables of KcpStream.
SndBar == [e \in Ends |-> Len(sent[e])]
UnaBar == [e \in Ends |-> Numbered(e) - Diff(kcp[e].snd_nxt, kcp[e].snd_una)]
RcvBar == [e \in Ends |-> Queued(e) + Held(kcp[e])]
ReadBar == [e \in Ends |-> Len(got[e])]

LEMMA StreamVarsAre ==
    ASSUME UNCHANGED <<SndBar, UnaBar, RcvBar, ReadBar>>
    PROVE  UNCHANGED Stream!streamVars
BY DEF Stream!streamVars, SndBar, UnaBar, RcvBar, ReadBar

LEMMA GiveIs ==
    ASSUME NEW e \in Ends, SndBar'[e] \in Nat, SndBar'[e] > SndBar[e],
           SndBar' = [SndBar EXCEPT ![e] = SndBar'[e]],
           UNCHANGED <<UnaBar, RcvBar, ReadBar>>
    PROVE  Stream!StreamNext
<1>1. Stream!Give(e)
  BY Zenon DEF Stream!Give, SndBar, UnaBar, RcvBar, ReadBar
<1> QED
  BY <1>1 DEF Stream!StreamNext, Stream!Ends, Ends

LEMMA ProgressIs ==
    ASSUME NEW e \in Ends, NEW r \in RcvBar[e]..SndBar[Peer[e]],
           RcvBar' = [RcvBar EXCEPT ![e] = r],
           NEW u \in UnaBar[e]..RcvBar[Peer[e]],
           UnaBar' = [UnaBar EXCEPT ![e] = u],
           UNCHANGED <<SndBar, ReadBar>>
    PROVE  Stream!StreamNext
<1>1. Stream!Progress(e)
  BY Zenon DEF Stream!Progress, SndBar, UnaBar, RcvBar, ReadBar, Peer, Stream!Peer, Ends, Stream!Ends
<1> QED
  BY <1>1 DEF Stream!StreamNext, Stream!Ends, Ends

LEMMA TakeIs ==
    ASSUME NEW e \in Ends, NEW n \in ReadBar[e] + 1 .. RcvBar[e],
           ReadBar' = [ReadBar EXCEPT ![e] = n],
           UNCHANGED <<SndBar, UnaBar, RcvBar>>
    PROVE  Stream!StreamNext
<1>1. Stream!Take(e)
  BY Zenon DEF Stream!Take, SndBar, UnaBar, RcvBar, ReadBar
<1> QED
  BY <1>1 DEF Stream!StreamNext, Stream!Ends, Ends

\* What they are in terms of places.
Bars ==
    \A e \in Ends :
        /\ SndBar[e] = Len(sent[e]) /\ UnaBar[e] = Una(kcp[e], sent[e])
        /\ RcvBar[e] = Pos(kcp[e], got[e]) + Held(kcp[e]) /\ ReadBar[e] = Len(got[e])

LEMMA UnaIs ==
    ASSUME NEW k \in KCPs, NEW s \in Seq(Fragments), SenderInv(k, s)
    PROVE  Nxt(k, s) - Diff(k.snd_nxt, k.snd_una) = Una(k, s)
<1>1. PICK n \in Nat : n = Nxt(k, s)
  BY SenderFacts
<1>2. PICK u \in Nat : u = Una(k, s)
  BY SenderFacts
<1>3. u <= n /\ n - u <= SndWnd
  BY <1>1, <1>2, SenderFacts
<1>4. n - u < HalfRange /\ u - n <= HalfRange /\ n \in Int /\ u \in Int
  <2>1. RcvWnd \in Nat \ {0} /\ SndWnd \in Nat \ {0} /\ MaxLag \in Nat /\ HalfRange \in Nat
        /\ HalfRange >= SndWnd + RcvWnd + MaxLag
    BY Halves
  <2> QED
    BY <1>3, <2>1
<1>5. Diff(n % SnModulus, u % SnModulus) = n - u
  BY <1>4, DiffExact
<1>6. k.snd_nxt = n % SnModulus /\ k.snd_una = u % SnModulus
  BY <1>1, <1>2 DEF SenderInv
<1> QED
  BY <1>1, <1>2, <1>5, <1>6

LEMMA BarsHold == KcpInv => Bars
<1> SUFFICES ASSUME KcpInv, NEW e \in Ends
             PROVE  /\ SndBar[e] = Len(sent[e]) /\ UnaBar[e] = Una(kcp[e], sent[e])
                    /\ RcvBar[e] = Pos(kcp[e], got[e]) + Held(kcp[e])
                    /\ ReadBar[e] = Len(got[e])
  BY DEF Bars
<1>1. /\ Numbered(e) = Nxt(kcp[e], sent[e]) /\ Queued(e) = Pos(kcp[e], got[e])
  BY Typed DEF KcpInv
<1>2. Nxt(kcp[e], sent[e]) - Diff(kcp[e].snd_nxt, kcp[e].snd_una) = Una(kcp[e], sent[e])
  BY Ended, UnaIs
<1>3. /\ SndBar[e] = Len(sent[e]) /\ RcvBar[e] = Queued(e) + Held(kcp[e])
      /\ UnaBar[e] = Numbered(e) - Diff(kcp[e].snd_nxt, kcp[e].snd_una)
      /\ ReadBar[e] = Len(got[e])
  BY Zenon DEF SndBar, UnaBar, RcvBar, ReadBar
<1> QED
  BY <1>1, <1>2, <1>3, Zenon

\* A function of the ends that differs from another at e only.
LEMMA OnlyAt ==
    ASSUME NEW a, NEW b, a = [x \in Ends |-> a[x]], b = [x \in Ends |-> b[x]],
           NEW e \in Ends, \A x \in Ends : x # e => b[x] = a[x]
    PROVE  b = [a EXCEPT ![e] = b[e]]
OBVIOUS

LEMMA AllSame ==
    ASSUME NEW a, NEW b, a = [x \in Ends |-> a[x]], b = [x \in Ends |-> b[x]],
           \A x \in Ends : b[x] = a[x]
    PROVE  b = a
OBVIOUS

LEMMA BarFunctions ==
    /\ SndBar = [x \in Ends |-> SndBar[x]] /\ UnaBar = [x \in Ends |-> UnaBar[x]]
    /\ RcvBar = [x \in Ends |-> RcvBar[x]] /\ ReadBar = [x \in Ends |-> ReadBar[x]]
BY DEF SndBar, UnaBar, RcvBar, ReadBar

\* The sender knows of nothing to have arrived above what the receiver has
\* without a gap, and the receiver has nothing that was not sent.
LEMMA Ordered ==
    ASSUME NEW k \in KCPs, NEW s \in Seq(Fragments), SenderInv(k, s),
           NEW r \in KCPs, NEW g \in Seq(Fragments), ReceiverInv(r, g, s, Nxt(k, s)),
           Arrived(k, s, r, g)
    PROVE  /\ Una(k, s) <= Pos(r, g) + Held(r)
           /\ Pos(r, g) + Held(r) <= Len(s)
           /\ Len(g) <= Pos(r, g) + Held(r)
           /\ Una(k, s) \in Nat /\ Pos(r, g) + Held(r) \in Nat /\ Len(s) \in Nat /\ Len(g) \in Nat
<1>1. /\ Nxt(k, s) \in Nat /\ Una(k, s) \in Nat /\ Nxt(k, s) + Len(k.snd_queue) = Len(s)
      /\ 1 .. Una(k, s) \subseteq Done(k, s) /\ Len(k.snd_queue) \in Nat
  BY SenderFacts, SndQueueFacts
<1>2. Held(r) \in Nat /\ Pos(r, g) + Held(r) <= Nxt(k, s)
      /\ Pos(r, g) + Held(r) + 1 \notin Holds(r, g)
  BY <1>1, HeldTop
<1>3. /\ Pos(r, g) \in Nat /\ Len(g) \in Nat /\ Pos(r, g) = Len(g) + Len(r.rcv_queue)
      /\ Len(r.rcv_queue) \in Nat /\ Len(s) \in Nat
  BY PosNat, KcpFields, RcvFacts, SeqFacts
<1>4. PICK t \in Nat : t = Pos(r, g) + Held(r)
  BY <1>2, <1>3
<1>5. t + 1 \notin 1 .. Una(k, s)
  BY <1>1, <1>2, <1>4 DEF Arrived
<1>6. Una(k, s) <= t
  BY <1>1, <1>4, <1>5
<1>7. t <= Len(s)
  <2>1. t <= Nxt(k, s)
    BY <1>2, <1>4
  <2> QED
    BY <1>1, <1>3, <2>1
<1>8. Len(g) <= t
  <2>1. Pos(r, g) <= t
    BY <1>2, <1>3, <1>4
  <2> QED
    BY <1>3, <2>1
<1> QED
  BY <1>1, <1>3, <1>4, <1>6, <1>7, <1>8, Zenon

\* The variables of KcpStream of an end after a step.
LEMMA BarsNext ==
    ASSUME Bars', NEW x \in Ends
    PROVE  /\ SndBar'[x] = Len(sent'[x]) /\ UnaBar'[x] = Una(kcp'[x], sent'[x])
           /\ RcvBar'[x] = Pos(kcp'[x], got'[x]) + Held(kcp'[x])
           /\ ReadBar'[x] = Len(got'[x])
BY Zenon DEF Bars

\* An end with the same object and streams has the same.
LEMMA BarsStay ==
    ASSUME Bars, Bars', NEW x \in Ends,
           kcp'[x] = kcp[x], sent'[x] = sent[x], got'[x] = got[x]
    PROVE  /\ SndBar'[x] = SndBar[x] /\ UnaBar'[x] = UnaBar[x]
           /\ RcvBar'[x] = RcvBar[x] /\ ReadBar'[x] = ReadBar[x]
<1>1. /\ SndBar[x] = Len(sent[x]) /\ UnaBar[x] = Una(kcp[x], sent[x])
      /\ RcvBar[x] = Pos(kcp[x], got[x]) + Held(kcp[x]) /\ ReadBar[x] = Len(got[x])
  BY Zenon DEF Bars
<1> QED
  BY <1>1, BarsNext, Zenon

\* Each step of Kcp is a step of KcpStream, or leaves its variables alone.
LEMMA SendMaps ==
    ASSUME KcpInv, Bars, Bars', NEW e \in Ends, NEW n \in 1..MaxFrag, UserSend(e, n)
    PROVE  Stream!StreamNext
<1> DEFINE data == [i \in 1..n |-> Len(sent[e]) + i]
           t == sent[e] \o Marked(data)
           l == Send(kcp[e], data)
<1>1. /\ kcp' = [kcp EXCEPT ![e] = l] /\ sent' = [sent EXCEPT ![e] = t] /\ got' = got
  BY DEF UserSend
<1>2. /\ kcp[e] \in KCPs /\ sent[e] \in Seq(Fragments) /\ SenderInv(kcp[e], sent[e])
  BY Ended
<1>3. /\ Len(t) = Len(sent[e]) + n /\ SameReceiver(kcp[e], l)
      /\ Una(l, t) = Una(kcp[e], sent[e])
  BY <1>2, SendKeeps
<1> HIDE DEF l, t
<1>4. /\ kcp'[e] = l /\ sent'[e] = t
      /\ \A x \in Ends : x # e => kcp'[x] = kcp[x] /\ sent'[x] = sent[x]
  BY <1>1 DEF KcpInv, TypeOK
<1>5. Pos(l, got[e]) = Pos(kcp[e], got[e]) /\ Held(l) = Held(kcp[e])
  BY <1>3 DEF SameReceiver, Pos, Held
<1>6. \A x \in Ends : x # e => /\ UnaBar'[x] = UnaBar[x] /\ RcvBar'[x] = RcvBar[x]
                                /\ ReadBar'[x] = ReadBar[x] /\ SndBar'[x] = SndBar[x]
  BY <1>1, <1>4, BarsStay
<1>7. /\ SndBar'[e] = SndBar[e] + n /\ UnaBar'[e] = UnaBar[e]
      /\ RcvBar'[e] = RcvBar[e] /\ ReadBar'[e] = ReadBar[e]
      /\ SndBar[e] = Len(sent[e])
  <2>1. /\ SndBar[e] = Len(sent[e]) /\ UnaBar[e] = Una(kcp[e], sent[e])
        /\ RcvBar[e] = Pos(kcp[e], got[e]) + Held(kcp[e]) /\ ReadBar[e] = Len(got[e])
    BY Zenon DEF Bars
  <2>2. /\ SndBar'[e] = Len(t) /\ UnaBar'[e] = Una(l, t)
        /\ RcvBar'[e] = Pos(l, got[e]) + Held(l) /\ ReadBar'[e] = Len(got[e])
    BY <1>1, <1>4, BarsNext, Zenon
  <2> QED
    BY <1>3, <1>5, <2>1, <2>2, Zenon
<1>8. SndBar'[e] \in Nat /\ SndBar'[e] > SndBar[e]
  <2>1. Len(sent[e]) \in Nat /\ n \in Nat /\ n > 0
    BY <1>2, SeqFacts, Halves
  <2> QED
    BY <1>7, <2>1
<1>9. SndBar' = [SndBar EXCEPT ![e] = SndBar'[e]]
  <2>1. SndBar = [x \in Ends |-> SndBar[x]] /\ SndBar' = [x \in Ends |-> SndBar'[x]]
    BY DEF SndBar
  <2> QED
    BY <1>6, <2>1, OnlyAt
<1>10. UnaBar' = UnaBar /\ RcvBar' = RcvBar /\ ReadBar' = ReadBar
  <2>1. \A x \in Ends : UnaBar'[x] = UnaBar[x] /\ RcvBar'[x] = RcvBar[x] /\ ReadBar'[x] = ReadBar[x]
    BY <1>6, <1>7
  <2> QED
    BY <2>1, Zenon DEF UnaBar, RcvBar, ReadBar
<1> QED
  BY <1>8, <1>9, <1>10, GiveIs

LEMMA RecvMaps ==
    ASSUME KcpInv, KcpInv', Bars, Bars', NEW e \in Ends, UserRecv(e)
    PROVE  Stream!StreamNext
<1> DEFINE l == Recv(kcp[e])
           h == got[e] \o Marked(RecvData(kcp[e]))
           s == sent[Peer[e]]
           n == Nxt(kcp[Peer[e]], s)
<1>1. /\ kcp' = [kcp EXCEPT ![e] = l] /\ got' = [got EXCEPT ![e] = h] /\ sent' = sent
      /\ PeekSize(kcp[e])
  BY DEF UserRecv
<1>2. /\ kcp[e] \in KCPs /\ got[e] \in Seq(Fragments) /\ s \in Seq(Fragments)
      /\ kcp[Peer[e]] \in KCPs
      /\ ReceiverInv(kcp[e], got[e], s, n) /\ n \in Nat /\ \A i \in DOMAIN s : s[i].data = i
      /\ SenderInv(kcp[Peer[e]], s) /\ Arrived(kcp[Peer[e]], s, kcp[e], got[e])
  <2>1. Peer[e] \in Ends /\ Peer[Peer[e]] = e
    BY TwoEnds
  <2>2. Arrived(kcp[Peer[e]], s, kcp[e], got[e])
    BY <2>1, Ended
  <2>3. SenderInv(kcp[Peer[e]], s) /\ kcp[Peer[e]] \in KCPs /\ s \in Seq(Fragments)
    BY Ended
  <2> QED
    BY <2>2, <2>3, Ended, SenderFacts DEF SenderInv
<1> HIDE DEF s, n
<1>3. /\ l \in KCPs /\ SameSender(kcp[e], l) /\ h \in Seq(Fragments) /\ Len(h) > Len(got[e])
      /\ ReceiverInv(l, h, s, n) /\ Holds(l, h) = Holds(kcp[e], got[e])
  BY <1>1, <1>2, RecvKeeps
<1> HIDE DEF l, h
<1>4. /\ kcp'[e] = l /\ got'[e] = h
      /\ \A x \in Ends : x # e => kcp'[x] = kcp[x] /\ got'[x] = got[x]
  BY <1>1 DEF KcpInv, TypeOK
<1>5. Pos(l, h) + Held(l) = Pos(kcp[e], got[e]) + Held(kcp[e])
  <2>1. Pos(l, h) + Held(l) <= Pos(kcp[e], got[e]) + Held(kcp[e])
    BY <1>2, <1>3, TopGrows
  <2>2. Pos(kcp[e], got[e]) + Held(kcp[e]) <= Pos(l, h) + Held(l)
    BY <1>2, <1>3, TopGrows
  <2>3. /\ Held(l) \in Nat /\ Held(kcp[e]) \in Nat
        /\ Pos(l, h) \in Nat /\ Pos(kcp[e], got[e]) \in Nat
    BY <1>2, <1>3, HeldTop, PosNat
  <2> QED
    BY <2>1, <2>2, <2>3
<1>6. Una(l, sent[e]) = Una(kcp[e], sent[e])
  BY <1>3, SenderSame
<1>7. \A x \in Ends : x # e => /\ UnaBar'[x] = UnaBar[x] /\ RcvBar'[x] = RcvBar[x]
                                /\ ReadBar'[x] = ReadBar[x] /\ SndBar'[x] = SndBar[x]
  BY <1>1, <1>4, BarsStay
<1>8. /\ SndBar[e] = Len(sent[e]) /\ UnaBar[e] = Una(kcp[e], sent[e])
      /\ RcvBar[e] = Pos(kcp[e], got[e]) + Held(kcp[e]) /\ ReadBar[e] = Len(got[e])
  BY Zenon DEF Bars
<1>9. /\ SndBar'[e] = Len(sent[e]) /\ UnaBar'[e] = Una(l, sent[e])
      /\ RcvBar'[e] = Pos(l, h) + Held(l) /\ ReadBar'[e] = Len(h)
  BY <1>1, <1>4, BarsNext, Zenon
<1>10. ReadBar'[e] \in ReadBar[e] + 1 .. RcvBar[e]
  <2>1. /\ Len(h) \in Nat /\ Len(got[e]) \in Nat /\ Pos(l, h) \in Nat /\ Held(l) \in Nat
        /\ Len(h) <= Pos(l, h)
    <3>1. /\ Len(h) \in Nat /\ Len(got[e]) \in Nat /\ Pos(l, h) = Len(h) + Len(l.rcv_queue)
          /\ Len(l.rcv_queue) \in Nat
      BY <1>2, <1>3, PosNat, KcpFields, RcvFacts
    <3> QED
      BY <1>2, <1>3, <3>1, HeldTop
  <2>2. ReadBar'[e] = Len(h) /\ ReadBar[e] = Len(got[e]) /\ RcvBar[e] = Pos(l, h) + Held(l)
    BY <1>5, <1>8, <1>9, Zenon
  <2>3. Len(h) >= Len(got[e]) + 1 /\ Len(h) <= Pos(l, h) + Held(l) /\ Len(got[e]) + 1 \in Int
        /\ Pos(l, h) + Held(l) \in Int
    BY <1>3, <2>1
  <2> QED
    BY <2>1, <2>2, <2>3
<1>11. ReadBar' = [ReadBar EXCEPT ![e] = ReadBar'[e]]
  <2>1. ReadBar = [x \in Ends |-> ReadBar[x]] /\ ReadBar' = [x \in Ends |-> ReadBar'[x]]
    BY DEF ReadBar
  <2> QED
    BY <1>7, <2>1, OnlyAt
<1>12. UnaBar' = UnaBar /\ RcvBar' = RcvBar /\ SndBar' = SndBar
  <2>1. \A x \in Ends : UnaBar'[x] = UnaBar[x] /\ RcvBar'[x] = RcvBar[x] /\ SndBar'[x] = SndBar[x]
    <3>1. UnaBar'[e] = UnaBar[e] /\ RcvBar'[e] = RcvBar[e] /\ SndBar'[e] = SndBar[e]
      BY <1>5, <1>6, <1>8, <1>9, Zenon
    <3> QED
      BY <1>7, <3>1, Zenon
  <2> QED
    BY <2>1, Zenon DEF UnaBar, RcvBar, SndBar
<1> QED
  BY <1>10, <1>11, <1>12, TakeIs

LEMMA UpdateMaps ==
    ASSUME KcpInv, Bars, Bars', NEW e \in Ends, Update(e)
    PROVE  UNCHANGED <<SndBar, UnaBar, RcvBar, ReadBar>>
<1>1. PICK late \in SUBSET AllSent(e), expired \in BOOLEAN : Flush(e, late, expired)
  BY Zenon DEF Update
<1> DEFINE l == flush(kcp[e], late, expired)
<1>2. /\ kcp' = [kcp EXCEPT ![e] = l] /\ sent' = sent /\ got' = got
  BY <1>1 DEF Flush
<1>3. SameReceiver(kcp[e], l) /\ Una(l, sent[e]) = Una(kcp[e], sent[e])
  BY Ended, FlushKeeps
<1> HIDE DEF l
<1>4. kcp'[e] = l /\ \A x \in Ends : x # e => kcp'[x] = kcp[x]
  BY <1>2 DEF KcpInv, TypeOK
<1>5. Pos(l, got[e]) = Pos(kcp[e], got[e]) /\ Held(l) = Held(kcp[e])
  BY <1>3 DEF SameReceiver, Pos, Held
<1>6. /\ SndBar[e] = Len(sent[e]) /\ UnaBar[e] = Una(kcp[e], sent[e])
      /\ RcvBar[e] = Pos(kcp[e], got[e]) + Held(kcp[e]) /\ ReadBar[e] = Len(got[e])
  BY Zenon DEF Bars
<1>7. /\ SndBar'[e] = Len(sent[e]) /\ UnaBar'[e] = Una(l, sent[e])
      /\ RcvBar'[e] = Pos(l, got[e]) + Held(l) /\ ReadBar'[e] = Len(got[e])
  BY <1>2, <1>4, BarsNext, Zenon
<1>8. \A x \in Ends : /\ UnaBar'[x] = UnaBar[x] /\ RcvBar'[x] = RcvBar[x]
                      /\ ReadBar'[x] = ReadBar[x] /\ SndBar'[x] = SndBar[x]
  <2>1. \A x \in Ends : x # e => /\ UnaBar'[x] = UnaBar[x] /\ RcvBar'[x] = RcvBar[x]
                                  /\ ReadBar'[x] = ReadBar[x] /\ SndBar'[x] = SndBar[x]
    BY <1>2, <1>4, BarsStay
  <2>2. /\ UnaBar'[e] = UnaBar[e] /\ RcvBar'[e] = RcvBar[e]
        /\ ReadBar'[e] = ReadBar[e] /\ SndBar'[e] = SndBar[e]
    BY <1>3, <1>5, <1>6, <1>7, Zenon
  <2> QED
    BY <2>1, <2>2, Zenon
<1> QED
  BY <1>8, Zenon DEF UnaBar, RcvBar, ReadBar, SndBar

LEMMA ArriveMaps ==
    ASSUME KcpInv, Bars, Bars', NEW e \in Ends, Arrive(e)
    PROVE  Stream!StreamNext
<1> DEFINE f == Peer[e]
<1>1. f \in Ends /\ f # e /\ Peer[f] = e
  BY TwoEnds
<1>2. /\ kcp[e] \in KCPs /\ sent[e] \in Seq(Fragments) /\ got[e] \in Seq(Fragments)
      /\ kcp[f] \in KCPs /\ sent[f] \in Seq(Fragments) /\ got[f] \in Seq(Fragments)
      /\ net[e] \in SUBSET Packets /\ net[f] \in SUBSET Packets
      /\ Numbered(f) = Nxt(kcp[f], sent[f]) /\ Queued(f) = Pos(kcp[f], got[f])
  BY <1>1, Typed DEF KcpInv
<1>3. /\ Conversation(kcp[e], sent[e], kcp[f], got[f], net[f], net[e])
      /\ Conversation(kcp[f], sent[f], kcp[e], got[e], net[e], net[f])
  BY <1>1 DEF KcpInv, StreamInv
<1>4. PICK p \in Fresh(e), grow \in BOOLEAN :
            /\ kcp' = [kcp EXCEPT ![e] = Input(@, p.seg, grow)]
            /\ sent' = sent /\ got' = got
  BY Zenon DEF Arrive
<1>5. /\ p \in net[e] /\ Pos(kcp[f], got[f]) - p.queued <= MaxLag
      /\ Push(p) => Nxt(kcp[f], sent[f]) - p.seg.data < SndWnd + MaxLag
  BY <1>2 DEF Fresh, Push
<1> HIDE DEF f
<1> DEFINE l == Input(kcp[e], p.seg, grow)
<1>6. /\ l \in KCPs
      /\ Conversation(l, sent[e], kcp[f], got[f], net[f], net[e])
      /\ Conversation(kcp[f], sent[f], l, got[e], net[e], net[f])
      /\ Una(l, sent[e]) >= Una(kcp[e], sent[e])
      /\ Holds(kcp[e], got[e]) \subseteq Holds(l, got[e])
  BY ZenonT(30), <1>2, <1>3, <1>5, ArriveStep
<1>7. kcp' = [kcp EXCEPT ![e] = l]
  BY <1>4
<1> HIDE DEF l
<1>8. kcp'[e] = l /\ \A x \in Ends : x # e => kcp'[x] = kcp[x]
  BY <1>7 DEF KcpInv, TypeOK
<1>9. /\ Una(l, sent[e]) \in Nat /\ Una(l, sent[e]) <= Pos(kcp[f], got[f]) + Held(kcp[f])
      /\ Pos(kcp[f], got[f]) + Held(kcp[f]) \in Nat
  BY <1>2, <1>6, Ordered DEF Conversation
<1>10. /\ Pos(l, got[e]) + Held(l) \in Nat /\ Pos(l, got[e]) + Held(l) <= Len(sent[f])
       /\ Len(sent[f]) \in Nat
  BY <1>2, <1>6, Ordered DEF Conversation
<1>11. /\ Pos(kcp[e], got[e]) + Held(kcp[e]) \in Nat /\ Una(kcp[e], sent[e]) \in Nat
  BY <1>2, <1>3, Ordered, SenderFacts DEF Conversation
<1>12. Pos(kcp[e], got[e]) + Held(kcp[e]) <= Pos(l, got[e]) + Held(l)
  <2>1. Nxt(kcp[f], sent[f]) \in Nat
    BY <1>2, <1>3, SenderFacts DEF Conversation
  <2> QED
    BY <1>2, <1>3, <1>6, <2>1, TopGrows DEF Conversation
<1>13. \A x \in Ends : x # e => /\ UnaBar'[x] = UnaBar[x] /\ RcvBar'[x] = RcvBar[x]
                                 /\ ReadBar'[x] = ReadBar[x] /\ SndBar'[x] = SndBar[x]
  BY <1>4, <1>8, BarsStay
<1>14. \A x \in Ends :
            /\ SndBar[x] = Len(sent[x]) /\ UnaBar[x] = Una(kcp[x], sent[x])
            /\ RcvBar[x] = Pos(kcp[x], got[x]) + Held(kcp[x]) /\ ReadBar[x] = Len(got[x])
  BY Zenon DEF Bars
<1>15. /\ SndBar'[e] = Len(sent[e]) /\ UnaBar'[e] = Una(l, sent[e])
       /\ RcvBar'[e] = Pos(l, got[e]) + Held(l) /\ ReadBar'[e] = Len(got[e])
  BY <1>4, <1>8, BarsNext, Zenon
<1>16. \A a, b, c \in Int : a <= b /\ b <= c => b \in a..c
  OBVIOUS
<1>17. UnaBar'[e] \in UnaBar[e]..RcvBar[f]
  <2>1. UnaBar'[e] = Una(l, sent[e]) /\ UnaBar[e] = Una(kcp[e], sent[e])
        /\ RcvBar[f] = Pos(kcp[f], got[f]) + Held(kcp[f])
    BY <1>1, <1>14, <1>15, Zenon
  <2>2. Una(kcp[e], sent[e]) <= Una(l, sent[e])
    BY <1>6, <1>9, <1>11
  <2>3. /\ UnaBar'[e] \in Nat /\ UnaBar[e] \in Nat /\ RcvBar[f] \in Nat
        /\ UnaBar[e] <= UnaBar'[e] /\ UnaBar'[e] <= RcvBar[f]
    BY <1>9, <1>11, <2>1, <2>2, Zenon
  <2> QED
    BY <2>3
<1>18. RcvBar'[e] \in RcvBar[e]..SndBar[f]
  <2>1. RcvBar'[e] = Pos(l, got[e]) + Held(l) /\ SndBar[f] = Len(sent[f])
        /\ RcvBar[e] = Pos(kcp[e], got[e]) + Held(kcp[e])
    BY <1>1, <1>14, <1>15, Zenon
  <2>2. /\ RcvBar'[e] \in Nat /\ RcvBar[e] \in Nat /\ SndBar[f] \in Nat
        /\ RcvBar[e] <= RcvBar'[e] /\ RcvBar'[e] <= SndBar[f]
    BY <1>10, <1>11, <1>12, <2>1, Zenon
  <2> QED
    BY <2>2
<1>19. UnaBar' = [UnaBar EXCEPT ![e] = UnaBar'[e]]
  <2>1. UnaBar = [x \in Ends |-> UnaBar[x]] /\ UnaBar' = [x \in Ends |-> UnaBar'[x]]
    BY DEF UnaBar
  <2> QED
    BY <1>13, <2>1, OnlyAt
<1>20. RcvBar' = [RcvBar EXCEPT ![e] = RcvBar'[e]]
  <2>1. RcvBar = [x \in Ends |-> RcvBar[x]] /\ RcvBar' = [x \in Ends |-> RcvBar'[x]]
    BY DEF RcvBar
  <2> QED
    BY <1>13, <2>1, OnlyAt
<1>21. ReadBar' = ReadBar /\ SndBar' = SndBar
  BY <1>4, Zenon DEF ReadBar, SndBar
<1> QED
  BY <1>17, <1>18, <1>19, <1>20, <1>21, ProgressIs DEF f

LEMMA StepMaps ==
    ASSUME KcpInv, KcpInv', Bars, Bars', [Next]_vars
    PROVE  Stream!StreamNext \/ UNCHANGED Stream!streamVars
<1>1. CASE UNCHANGED <<kcp, sent, got>>
  <2>1. \A x \in Ends : /\ UnaBar'[x] = UnaBar[x] /\ RcvBar'[x] = RcvBar[x]
                        /\ ReadBar'[x] = ReadBar[x] /\ SndBar'[x] = SndBar[x]
    BY <1>1, BarsStay
  <2>2. UNCHANGED <<SndBar, UnaBar, RcvBar, ReadBar>>
    BY <2>1, Zenon DEF UnaBar, RcvBar, ReadBar, SndBar
  <2> QED
    BY <2>2, StreamVarsAre
<1>2. CASE UNCHANGED vars
  BY <1>1, <1>2 DEF vars
<1>3. CASE GetCalm
  BY <1>1, <1>3 DEF GetCalm
<1>4. CASE \E e \in Ends : Update(e)
  <2>1. UNCHANGED <<SndBar, UnaBar, RcvBar, ReadBar>>
    BY <1>4, UpdateMaps
  <2> QED
    BY <2>1, StreamVarsAre
<1> QED
  BY <1>2, <1>3, <1>4, SendMaps, RecvMaps, ArriveMaps DEF Next

LEMMA InitMaps ==
    ASSUME Init, Bars
    PROVE  Stream!StreamInit
<1>1. \A e \in Ends : kcp[e] = NewKCP /\ sent[e] = << >> /\ got[e] = << >>
  BY DEF Init
<1>2. Una(NewKCP, << >>) = 0 /\ Pos(NewKCP, << >>) = 0
  BY DEF Una, Pos, Nxt, NewKCP
<1>3. Held(NewKCP) = 0
  <2>1. ReceiverInv(NewKCP, << >>, << >>, Nxt(NewKCP, << >>)) /\ SenderInv(NewKCP, << >>)
        /\ NewKCP \in KCPs
    BY NewConversation, NewIsKcp DEF Conversation
  <2>2. << >> \in Seq(Fragments)
    OBVIOUS
  <2>3. Nxt(NewKCP, << >>) = 0
    BY DEF Nxt, NewKCP
  <2>4. Held(NewKCP) \in Nat /\ Pos(NewKCP, << >>) + Held(NewKCP) <= 0
    <3>1. ReceiverInv(NewKCP, << >>, << >>, 0) /\ 0 \in Nat
      BY <2>1, <2>3
    <3> QED
      BY <2>1, <2>2, <3>1, HeldTop
  <2> QED
    BY <1>2, <2>4
<1>4. \A e \in Ends : /\ SndBar[e] = 0 /\ UnaBar[e] = 0 /\ RcvBar[e] = 0 /\ ReadBar[e] = 0
  <2> SUFFICES ASSUME NEW e \in Ends
               PROVE  SndBar[e] = 0 /\ UnaBar[e] = 0 /\ RcvBar[e] = 0 /\ ReadBar[e] = 0
    OBVIOUS
  <2>1. /\ SndBar[e] = Len(<< >>) /\ UnaBar[e] = Una(NewKCP, << >>)
        /\ RcvBar[e] = Pos(NewKCP, << >>) + Held(NewKCP) /\ ReadBar[e] = Len(<< >>)
    BY <1>1, Zenon DEF Bars
  <2> QED
    BY <1>2, <1>3, <2>1
<1>5. /\ SndBar = [e \in Ends |-> 0] /\ UnaBar = [e \in Ends |-> 0]
      /\ RcvBar = [e \in Ends |-> 0] /\ ReadBar = [e \in Ends |-> 0]
  BY <1>4, Zenon DEF SndBar, UnaBar, RcvBar, ReadBar
<1> QED
  BY <1>5, Zenon DEF Stream!StreamInit, SndBar, UnaBar, RcvBar, ReadBar, Ends, Stream!Ends

\* Whatever the network loses, repeats, delays and reorders, each step gives a
\* message, takes one that has arrived, or lets what arrived and what is
\* acknowledged grow: never back, never beyond what was sent or arrived.
THEOREM Implementation == Spec => ImplementsStream
<1>1. KcpInv => Bars
  BY BarsHold
<1>2. KcpInv' => Bars'
  BY <1>1, PTL
<1>3. Init => Stream!StreamInit
  BY <1>1, KcpInit, InitMaps
<1>4. KcpInv /\ KcpInv' /\ [Next]_vars => [Stream!StreamNext]_(Stream!streamVars)
  BY <1>1, <1>2, StepMaps
<1> QED
  BY <1>3, <1>4, ConversationsHold, PTL DEF Spec, ImplementsStream, Stream!StreamSpec

\* The user has read no more than arrived without a gap, that is no more than
\* was sent, and the sender takes no more than that for delivered.
THEOREM StreamsOrdered == Spec => []Stream!StreamOrder
<1>1. KcpInv => Stream!StreamOrder
  <2> SUFFICES ASSUME KcpInv, NEW e \in Ends
               PROVE  /\ ReadBar[e] <= RcvBar[e] /\ RcvBar[e] <= SndBar[Peer[e]]
                      /\ UnaBar[e] <= RcvBar[Peer[e]]
    BY Zenon DEF Stream!StreamOrder, SndBar, UnaBar, RcvBar, ReadBar, Peer, Stream!Peer, Ends, Stream!Ends
  <2>1. Bars /\ Peer[e] \in Ends /\ Peer[Peer[e]] = e
    BY BarsHold, TwoEnds
  <2>2. /\ Una(kcp[e], sent[e]) <= Pos(kcp[Peer[e]], got[Peer[e]]) + Held(kcp[Peer[e]])
    BY Ended, Ordered
  <2>3. Arrived(kcp[Peer[e]], sent[Peer[e]], kcp[e], got[e])
    BY <2>1, Ended
  <2>4. /\ Pos(kcp[e], got[e]) + Held(kcp[e]) <= Len(sent[Peer[e]])
        /\ Len(got[e]) <= Pos(kcp[e], got[e]) + Held(kcp[e])
    BY <2>3, Ended, Ordered
  <2> QED
    BY <2>1, <2>2, <2>4, Zenon DEF Bars
<1> QED
  BY <1>1, ConversationsHold, PTL
=============================================================================
