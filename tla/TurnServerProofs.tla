-------------------------- MODULE TurnServerProofs --------------------------
(***************************************************************************)
(* The TURN server charges each user for the sessions it holds and for no  *)
(* others, keeps tickets and sessions in step and does only what the user  *)
(* of a session asked for, for any users, tickets and quota, through lost  *)
(* clients, take-overs, timeouts and late keys.                            *)
(*                                                                         *)
(* A handler is a chain of edits of one session each.  The lemmas say what *)
(* an edit must respect to keep the invariant, then what each function of  *)
(* the server does to a world, and last what each step does to the state.  *)
(*                                                                         *)
(* The second half is about the hash tables of one allocation (TurnTables):*)
(* for tables of any size and any hash function, every lookup finds what   *)
(* was stored and not deleted since, and no pointer between them is stale. *)
(***************************************************************************)
EXTENDS TurnServer, TurnTables, FiniteSetTheorems, SequenceTheorems, WellFoundedInduction, TLAPS

\* What the server is run with.  The code draws tickets of 64 bits until it finds
\* an unused one: here, fewer tickets than sessions are never all the tickets.
Configured ==
    /\ NULL \notin Tickets /\ Nobody \notin Users
    /\ MaxSessions \in Nat /\ Quota \in Nat /\ MaxPending \in Nat
    /\ \A T \in SUBSET Tickets :
          IsFiniteSet(T) /\ Cardinality(T) < MaxSessions => T # Tickets

SFields == {"client", "closing", "valid", "relay", "armed", "mobile", "ticket",
            "user", "key", "counted", "holder"}
WFields == {"sess", "mobiles", "count", "pending"}
Requests == AllocateRequests \cup RefreshRequests

\* A session: only one with a known user has an allocation, asked for mobility or
\* is charged for, and what was done to it was asked for by its user.
SessionOK(r, n) ==
    /\ DOMAIN r = SFields
    /\ r.client \in 0..n /\ r.closing \in BOOLEAN
    /\ r.valid \in BOOLEAN /\ r.armed \in BOOLEAN
    /\ r.mobile \in BOOLEAN /\ r.counted \in BOOLEAN
    /\ r.ticket \in Tickets \cup {NULL}
    /\ r.user \in Users \cup {Nobody}
    /\ r.valid \/ r.mobile \/ r.counted => r.user \in Users
    /\ r.holder \in {Nobody, r.user}

Held(r) == r.valid /\ r.client # NULL => r.counted /\ r.armed

Shape(w, n) ==
    /\ DOMAIN w = WFields
    /\ DOMAIN w.sess \subseteq 1..n
    /\ \A s \in DOMAIN w.sess : SessionOK(w.sess[s], n)
    /\ DOMAIN w.mobiles \subseteq Tickets
    /\ DOMAIN w.count = Users
    /\ \A u \in Users : w.count[u] \in 0..Quota

\* What is read and posted while a request is handled.
Waiting(w) ==
    /\ IsFiniteSet(w.pending) /\ Cardinality(w.pending) <= MaxPending
    /\ \A p \in w.pending : p.request \in Requests

Charged(w, u) == {s \in DOMAIN w.sess : w.sess[s].counted /\ w.sess[s].user = u}
Balanced(w) == \A u \in Users : w.count[u] = Cardinality(Charged(w, u))

\* Tickets and sessions lead to each other.
Ticketed(w) ==
    /\ \A t \in DOMAIN w.mobiles :
          w.mobiles[t] \in DOMAIN w.sess /\ w.sess[w.mobiles[t]].ticket = t
    /\ \A s \in DOMAIN w.sess :
          w.sess[s].ticket # NULL =>
              w.sess[s].ticket \in DOMAIN w.mobiles /\ w.mobiles[w.sess[s].ticket] = s

OneClient(w) ==
    \A s, o \in DOMAIN w.sess :
        s # o /\ w.sess[s].client = w.sess[o].client =>
            w.sess[s].client = NULL \/ w.sess[s].closing \/ w.sess[o].closing

\* Between the edits of a handler, the sessions in Q may be held uncharged.
Good(w, n, Q) ==
    /\ Shape(w, n) /\ Balanced(w) /\ Ticketed(w) /\ OneClient(w)
    /\ \A s \in DOMAIN w.sess \ Q : Held(w.sess[s])

ServerInv == opened \in 0..MaxSessions /\ Good(World, opened, {}) /\ Waiting(World)

-----------------------------------------------------------------------------
(* An edit puts the record r for session s.                                *)

Edit(w, v, s, r) ==
    /\ DOMAIN w = WFields /\ DOMAIN v = WFields
    /\ s \in DOMAIN w.sess /\ v.sess = [w.sess EXCEPT ![s] = r]

\* Nothing of the sessions changes but the fields in F of session s.
Changes(w, v, s, F) ==
    /\ DOMAIN v.sess = DOMAIN w.sess
    /\ \A x \in DOMAIN w.sess \ {s} : v.sess[x] = w.sess[x]
    /\ \A f \in SFields \ F : v.sess[s][f] = w.sess[s][f]

LEMMA EditShape ==
    ASSUME NEW w, NEW v, NEW s, NEW r, NEW n, Edit(w, v, s, r), Shape(w, n),
           SessionOK(r, n), DOMAIN v.mobiles \subseteq Tickets, DOMAIN v.count = Users,
           \A u \in Users : v.count[u] \in 0..Quota
    PROVE  Shape(v, n)
  BY DEF Edit, Shape

\* Who is charged for stays the same.
LEMMA EditBalanced ==
    ASSUME NEW w, NEW v, NEW s, NEW r, Edit(w, v, s, r), v.count = w.count,
           r.counted = w.sess[s].counted, r.counted => r.user = w.sess[s].user, Balanced(w)
    PROVE  Balanced(v)
<1>1. \A u : Charged(v, u) = Charged(w, u)
  BY DEF Charged, Edit
<1>. QED
  BY <1>1 DEF Balanced

LEMMA EditTicketed ==
    ASSUME NEW w, NEW v, NEW s, NEW r, Edit(w, v, s, r), v.mobiles = w.mobiles,
           r.ticket = w.sess[s].ticket, Ticketed(w)
    PROVE  Ticketed(v)
  BY DEF Edit, Ticketed

LEMMA EditOneClient ==
    ASSUME NEW w, NEW v, NEW s, NEW r, Edit(w, v, s, r), OneClient(w),
           \/ r.client = NULL
           \/ r.client = w.sess[s].client /\ (w.sess[s].closing => r.closing)
    PROVE  OneClient(v)
  BY DEF Edit, OneClient

\* An edit that disturbs none of the tables.
Keeps(r, q) ==
    /\ r.counted = q.counted /\ (r.counted => r.user = q.user)
    /\ r.ticket = q.ticket
    /\ \/ r.client = NULL
       \/ r.client = q.client /\ (q.closing => r.closing)

LEMMA QuietEdit ==
    ASSUME NEW w, NEW v, NEW s, NEW r, NEW n, NEW Q, NEW P, Edit(w, v, s, r), Good(w, n, Q),
           v.mobiles = w.mobiles, v.count = w.count,
           SessionOK(r, n), Keeps(r, w.sess[s]),
           Held(r) \/ s \in P, Q \ {s} \subseteq P
    PROVE  Good(v, n, P)
<1>1. Shape(v, n)
  BY EditShape DEF Good, Shape
<1>2. Balanced(v)
  BY EditBalanced DEF Good, Keeps
<1>3. Ticketed(v)
  BY EditTicketed DEF Good, Keeps
<1>4. OneClient(v)
  BY EditOneClient DEF Good, Keeps
<1>5. \A x \in DOMAIN v.sess \ P : Held(v.sess[x])
  BY DEF Good, Edit
<1>. QED
  BY <1>1, <1>2, <1>3, <1>4, <1>5 DEF Good

-----------------------------------------------------------------------------
(* Quotas and tickets.                                                     *)

LEMMA ChargedFinite ==
    ASSUME NEW w, NEW n \in Nat, Shape(w, n), NEW u
    PROVE  IsFiniteSet(Charged(w, u)) /\ Cardinality(Charged(w, u)) \in Nat
<1>1. IsFiniteSet(1..n)
  BY FS_Interval
<1>2. Charged(w, u) \in SUBSET (1..n)
  BY DEF Charged, Shape
<1>3. IsFiniteSet(Charged(w, u))
  BY <1>1, <1>2, FS_Subset
<1>. QED
  BY <1>3, FS_CardinalityType

\* inc_quota, where MayCount let it.
LEMMA IncQuotaGood ==
    ASSUME Configured, NEW w, NEW n \in Nat, NEW Q, NEW s \in DOMAIN w.sess, Good(w, n, Q),
           w.sess[s].user \in Users, MayCount(w, s)
    PROVE  /\ Good(IncQuota(w, s), n, Q)
           /\ Changes(w, IncQuota(w, s), s, {"counted"})
           /\ IncQuota(w, s).sess[s].counted
           /\ IncQuota(w, s).mobiles = w.mobiles /\ IncQuota(w, s).pending = w.pending
<1>. DEFINE v == IncQuota(w, s)
            q == w.sess[s]
            u == q.user
<1>0. PICK r : r = [q EXCEPT !.counted = TRUE]
  OBVIOUS
<1>1. /\ SessionOK(q, n) /\ DOMAIN w = WFields /\ DOMAIN w.count = Users
      /\ DOMAIN q = SFields /\ q.counted \in BOOLEAN
  BY DEF Good, Shape, SessionOK
<1>2. CASE q.counted
  <2>1. v = w
    BY <1>2 DEF IncQuota
  <2>. QED
    BY <1>2, <2>1 DEF Changes
<1>3. CASE ~q.counted
  <2>1. /\ v.sess = [w.sess EXCEPT ![s] = r]
        /\ v.count = [w.count EXCEPT ![u] = @ + 1]
        /\ v.mobiles = w.mobiles /\ v.pending = w.pending /\ DOMAIN v = WFields
    BY <1>0, <1>1, <1>3 DEF IncQuota, WFields
  <2>2. Edit(w, v, s, r)
    BY <1>1, <2>1 DEF Edit
  <2>3. /\ SessionOK(r, n) /\ r.user = u /\ r.counted = TRUE /\ r.ticket = q.ticket
        /\ r.client = q.client /\ r.closing = q.closing
    BY <1>0, <1>1 DEF SessionOK, SFields
  <2>4. w.count[u] < Quota
    BY <1>3 DEF MayCount
  <2>5. \A x \in Users : v.count[x] = IF x = u THEN w.count[x] + 1 ELSE w.count[x]
    BY <1>1, <2>1
  <2>6. \A x \in Users : w.count[x] \in 0..Quota
    BY DEF Good, Shape
  <2>7. \A x \in Users : v.count[x] \in 0..Quota
    BY <2>4, <2>5, <2>6 DEF Configured
  <2>8. Shape(v, n)
    <3>1. DOMAIN v.count = Users
      BY <1>1, <2>1
    <3>2. DOMAIN v.mobiles \subseteq Tickets
      BY <2>1 DEF Good, Shape
    <3>3. Shape(w, n)
      BY DEF Good
    <3>. QED
      BY <2>2, <2>3, <2>7, <3>1, <3>2, <3>3, EditShape
  <2>9. Balanced(v)
    <3>1. SUFFICES ASSUME NEW x \in Users
                   PROVE  v.count[x] = Cardinality(Charged(v, x))
      BY DEF Balanced
    <3>2. IsFiniteSet(Charged(w, x)) /\ w.count[x] = Cardinality(Charged(w, x))
      BY ChargedFinite DEF Good, Balanced
    <3>3. CASE x = u
      <4>1. Charged(v, x) = Charged(w, x) \cup {s} /\ s \notin Charged(w, x)
        BY <1>3, <2>1, <2>3, <3>3 DEF Charged
      <4>2. Cardinality(Charged(w, x) \cup {s}) = Cardinality(Charged(w, x)) + 1
        BY <3>2, <4>1, FS_AddElement
      <4>. QED
        BY <2>5, <3>2, <3>3, <4>1, <4>2
    <3>4. CASE x # u
      <4>1. Charged(v, x) = Charged(w, x)
        BY <1>3, <2>1, <2>3, <3>4 DEF Charged
      <4>. QED
        BY <2>5, <3>2, <3>4, <4>1
    <3>. QED
      BY <3>3, <3>4
  <2>10. Ticketed(v) /\ OneClient(v)
    BY <2>1, <2>2, <2>3, EditTicketed, EditOneClient DEF Good
  <2>11. Held(q) => Held(r)
    BY <1>0, <1>1, <1>3 DEF Held, SFields
  <2>12. \A x \in DOMAIN v.sess \ Q : Held(v.sess[x])
    BY <2>1, <2>11 DEF Good
  <2>13. Good(v, n, Q)
    BY <2>1, <2>8, <2>9, <2>10, <2>12 DEF Good
  <2>14. Changes(w, v, s, {"counted"}) /\ v.sess[s].counted
    BY <1>0, <1>1, <2>1 DEF Changes, SFields
  <2>. QED
    BY <2>1, <2>13, <2>14
<1>. QED
  BY <1>1, <1>2, <1>3

\* dec_quota: the session is not charged for, and must not be held.
LEMMA DecQuotaGood ==
    ASSUME Configured, NEW w, NEW n \in Nat, NEW Q, NEW s \in DOMAIN w.sess, Good(w, n, Q)
    PROVE  /\ Good(DecQuota(w, s), n, Q \cup {s})
           /\ Changes(w, DecQuota(w, s), s, {"counted"})
           /\ ~DecQuota(w, s).sess[s].counted
           /\ DecQuota(w, s).mobiles = w.mobiles /\ DecQuota(w, s).pending = w.pending
<1>. DEFINE v == DecQuota(w, s)
            q == w.sess[s]
            u == q.user
<1>0. PICK r : r = [q EXCEPT !.counted = FALSE]
  OBVIOUS
<1>1. /\ SessionOK(q, n) /\ DOMAIN w = WFields /\ DOMAIN w.count = Users
      /\ DOMAIN q = SFields /\ q.counted \in BOOLEAN
  BY DEF Good, Shape, SessionOK
<1>2. CASE ~q.counted
  <2>1. v = w
    BY <1>2 DEF DecQuota
  <2>2. Good(w, n, Q \cup {s})
    BY DEF Good
  <2>. QED
    BY <1>2, <2>1, <2>2 DEF Changes
<1>3. CASE q.counted
  <2>1. /\ v.sess = [w.sess EXCEPT ![s] = r]
        /\ v.count = [w.count EXCEPT ![u] = @ - 1]
        /\ v.mobiles = w.mobiles /\ v.pending = w.pending /\ DOMAIN v = WFields
    BY <1>0, <1>1, <1>3 DEF DecQuota, WFields
  <2>2. Edit(w, v, s, r)
    BY <1>1, <2>1 DEF Edit
  <2>3. /\ SessionOK(r, n) /\ r.user = u /\ r.counted = FALSE /\ r.ticket = q.ticket
        /\ r.client = q.client /\ r.closing = q.closing
    BY <1>0, <1>1 DEF SessionOK, SFields
  <2>4. u \in Users
    BY <1>1, <1>3 DEF SessionOK
  <2>5. \A x \in Users : v.count[x] = IF x = u THEN w.count[x] - 1 ELSE w.count[x]
    BY <1>1, <2>1
  <2>6. \A x \in Users : w.count[x] \in 0..Quota
    BY DEF Good, Shape
  <2>7. s \in Charged(w, u)
    BY <1>3 DEF Charged
  <2>8. \A x \in Users : IsFiniteSet(Charged(w, x)) /\ w.count[x] = Cardinality(Charged(w, x))
    BY ChargedFinite DEF Good, Balanced
  <2>9. Charged(w, u) \ {s} = Charged(v, u)
    BY <1>3, <2>1, <2>3 DEF Charged
  <2>10. IsFiniteSet(Charged(v, u)) /\ v.count[u] = Cardinality(Charged(v, u))
    BY <2>4, <2>5, <2>7, <2>8, <2>9, FS_RemoveElement
  <2>11. v.count[u] \in Nat
    BY <2>10, FS_CardinalityType
  <2>12. \A x \in Users : v.count[x] \in 0..Quota
    BY <2>5, <2>6, <2>11 DEF Configured
  <2>13. Shape(v, n)
    <3>1. DOMAIN v.count = Users
      BY <1>1, <2>1
    <3>2. DOMAIN v.mobiles \subseteq Tickets
      BY <2>1 DEF Good, Shape
    <3>3. Shape(w, n)
      BY DEF Good
    <3>. QED
      BY <2>2, <2>3, <2>12, <3>1, <3>2, <3>3, EditShape
  <2>14. Balanced(v)
    <3>1. SUFFICES ASSUME NEW x \in Users, x # u
                   PROVE  v.count[x] = Cardinality(Charged(v, x))
      BY <2>10 DEF Balanced
    <3>2. Charged(v, x) = Charged(w, x)
      BY <1>3, <2>1, <2>3, <3>1 DEF Charged
    <3>. QED
      BY <2>5, <2>8, <3>1, <3>2
  <2>15. Ticketed(v) /\ OneClient(v)
    BY <2>1, <2>2, <2>3, EditTicketed, EditOneClient DEF Good
  <2>16. \A x \in DOMAIN v.sess \ (Q \cup {s}) : Held(v.sess[x])
    BY <2>1 DEF Good
  <2>17. Good(v, n, Q \cup {s})
    BY <2>1, <2>13, <2>14, <2>15, <2>16 DEF Good
  <2>18. Changes(w, v, s, {"counted"}) /\ ~v.sess[s].counted
    BY <1>0, <1>1, <2>1 DEF Changes, SFields
  <2>. QED
    BY <2>1, <2>17, <2>18
<1>. QED
  BY <1>1, <1>2, <1>3

LEMMA NoTicketGood ==
    ASSUME Configured, NEW w, NEW n \in Nat, NEW Q, NEW s \in DOMAIN w.sess, Good(w, n, Q)
    PROVE  /\ Good(NoTicket(w, s), n, Q)
           /\ Changes(w, NoTicket(w, s), s, {"ticket"})
           /\ NoTicket(w, s).sess[s].ticket = NULL
           /\ NoTicket(w, s).mobiles = Drop(w.mobiles, {w.sess[s].ticket})
           /\ NoTicket(w, s).count = w.count /\ NoTicket(w, s).pending = w.pending
<1>. DEFINE v == NoTicket(w, s)
            q == w.sess[s]
<1>0. PICK r : r = [q EXCEPT !.ticket = NULL]
  OBVIOUS
<1>1. SessionOK(q, n) /\ DOMAIN w = WFields /\ DOMAIN w.count = Users /\ DOMAIN q = SFields
  BY DEF Good, Shape, SessionOK
<1>2. /\ v.sess = [w.sess EXCEPT ![s] = r]
      /\ v.mobiles = Drop(w.mobiles, {q.ticket})
      /\ v.count = w.count /\ v.pending = w.pending /\ DOMAIN v = WFields
  BY <1>0, <1>1 DEF NoTicket, WFields
<1>3. Edit(w, v, s, r)
  BY <1>1, <1>2 DEF Edit
<1>4. /\ SessionOK(r, n) /\ r.user = q.user /\ r.counted = q.counted /\ r.ticket = NULL
      /\ r.client = q.client /\ r.closing = q.closing
  BY <1>0, <1>1 DEF SessionOK, SFields
<1>5. /\ DOMAIN v.mobiles = DOMAIN w.mobiles \ {q.ticket}
      /\ \A t \in DOMAIN v.mobiles : v.mobiles[t] = w.mobiles[t]
  BY <1>2 DEF Drop, Restrict
<1>6. Shape(v, n)
  <2>1. DOMAIN v.mobiles \subseteq Tickets
    BY <1>5 DEF Good, Shape
  <2>2. Shape(w, n) /\ \A u \in Users : v.count[u] \in 0..Quota
    BY <1>2 DEF Good, Shape
  <2>. QED
    BY <1>1, <1>2, <1>3, <1>4, <2>1, <2>2, EditShape
<1>7. Balanced(v) /\ OneClient(v)
  <2>1. /\ r.counted = w.sess[s].counted /\ (r.counted => r.user = w.sess[s].user)
        /\ r.client = w.sess[s].client /\ (w.sess[s].closing => r.closing)
    BY <1>4
  <2>2. Balanced(w) /\ OneClient(w)
    BY DEF Good
  <2>3. Balanced(v)
    BY <1>2, <1>3, <2>1, <2>2, EditBalanced
  <2>4. OneClient(v)
    BY <1>3, <2>1, <2>2, EditOneClient
  <2>. QED
    BY <2>3, <2>4
<1>8. Ticketed(v)
  <2>1. Ticketed(w)
    BY DEF Good
  <2>2. DOMAIN v.sess = DOMAIN w.sess /\ \A x \in DOMAIN w.sess \ {s} : v.sess[x] = w.sess[x]
    BY <1>2
  <2>3. v.sess[s].ticket = NULL
    BY <1>2, <1>4
  <2>4. ASSUME NEW t \in DOMAIN v.mobiles
        PROVE  v.mobiles[t] \in DOMAIN v.sess /\ v.sess[v.mobiles[t]].ticket = t
    <3>1. t \in DOMAIN w.mobiles /\ t # q.ticket /\ v.mobiles[t] = w.mobiles[t]
      BY <1>5
    <3>2. w.mobiles[t] \in DOMAIN w.sess \ {s} /\ w.sess[w.mobiles[t]].ticket = t
      BY <2>1, <3>1 DEF Ticketed
    <3>. QED
      BY <2>2, <3>1, <3>2
  <2>5. ASSUME NEW x \in DOMAIN v.sess, v.sess[x].ticket # NULL
        PROVE  v.sess[x].ticket \in DOMAIN v.mobiles /\ v.mobiles[v.sess[x].ticket] = x
    <3>1. x \in DOMAIN w.sess \ {s} /\ v.sess[x] = w.sess[x]
      BY <2>2, <2>3, <2>5
    <3>2. w.sess[x].ticket \in DOMAIN w.mobiles /\ w.mobiles[w.sess[x].ticket] = x
      BY <2>1, <2>5, <3>1 DEF Ticketed
    <3>3. w.sess[x].ticket # q.ticket
      BY <2>1, <2>5, <3>1, <3>2 DEF Ticketed
    <3>. QED
      BY <1>5, <3>1, <3>2, <3>3
  <2>. QED
    BY <2>4, <2>5 DEF Ticketed
<1>9. Held(q) => Held(r)
  BY <1>0, <1>1 DEF Held, SFields
<1>10. \A x \in DOMAIN v.sess \ Q : Held(v.sess[x])
  BY <1>2, <1>9 DEF Good
<1>11. Good(v, n, Q)
  BY <1>2, <1>6, <1>7, <1>8, <1>10 DEF Good
<1>12. Changes(w, v, s, {"ticket"}) /\ v.sess[s].ticket = NULL
  BY <1>0, <1>1, <1>2 DEF Changes, SFields
<1>. QED
  BY <1>2, <1>11, <1>12

LEMMA NewTicketGood ==
    ASSUME Configured, NEW w, NEW n \in Nat, NEW Q, NEW s \in DOMAIN w.sess, Good(w, n, Q),
           w.sess[s].ticket = NULL, NEW t \in Tickets \ DOMAIN w.mobiles
    PROVE  /\ Good(NewTicket(w, s, t), n, Q)
           /\ Changes(w, NewTicket(w, s, t), s, {"ticket"})
           /\ NewTicket(w, s, t).pending = w.pending
<1>. DEFINE v == NewTicket(w, s, t)
            q == w.sess[s]
<1>0. PICK r : r = [q EXCEPT !.ticket = t]
  OBVIOUS
<1>1. SessionOK(q, n) /\ DOMAIN w = WFields /\ DOMAIN w.count = Users /\ DOMAIN q = SFields
  BY DEF Good, Shape, SessionOK
<1>2. /\ v.sess = [w.sess EXCEPT ![s] = r]
      /\ v.mobiles = With(w.mobiles, t, s)
      /\ v.count = w.count /\ v.pending = w.pending /\ DOMAIN v = WFields
  BY <1>0, <1>1 DEF NewTicket, WFields
<1>3. Edit(w, v, s, r)
  BY <1>1, <1>2 DEF Edit
<1>4. /\ SessionOK(r, n) /\ r.user = q.user /\ r.counted = q.counted /\ r.ticket = t
      /\ r.client = q.client /\ r.closing = q.closing
  BY <1>0, <1>1 DEF SessionOK, SFields
<1>5. /\ DOMAIN v.mobiles = DOMAIN w.mobiles \cup {t}
      /\ v.mobiles[t] = s
      /\ \A x \in DOMAIN w.mobiles : v.mobiles[x] = w.mobiles[x]
  BY <1>2 DEF With
<1>6. Shape(v, n)
  <2>1. DOMAIN v.mobiles \subseteq Tickets
    BY <1>5 DEF Good, Shape
  <2>2. Shape(w, n) /\ \A u \in Users : v.count[u] \in 0..Quota
    BY <1>2 DEF Good, Shape
  <2>. QED
    BY <1>1, <1>2, <1>3, <1>4, <2>1, <2>2, EditShape
<1>7. Balanced(v) /\ OneClient(v)
  <2>1. /\ r.counted = w.sess[s].counted /\ (r.counted => r.user = w.sess[s].user)
        /\ r.client = w.sess[s].client /\ (w.sess[s].closing => r.closing)
    BY <1>4
  <2>2. Balanced(w) /\ OneClient(w)
    BY DEF Good
  <2>3. Balanced(v)
    BY <1>2, <1>3, <2>1, <2>2, EditBalanced
  <2>4. OneClient(v)
    BY <1>3, <2>1, <2>2, EditOneClient
  <2>. QED
    BY <2>3, <2>4
<1>8. Ticketed(v)
  <2>1. Ticketed(w) /\ t # NULL
    BY DEF Good, Configured
  <2>2. DOMAIN v.sess = DOMAIN w.sess /\ \A x \in DOMAIN w.sess \ {s} : v.sess[x] = w.sess[x]
    BY <1>2
  <2>3. v.sess[s].ticket = t
    BY <1>2, <1>4
  <2>4. ASSUME NEW x \in DOMAIN v.mobiles
        PROVE  v.mobiles[x] \in DOMAIN v.sess /\ v.sess[v.mobiles[x]].ticket = x
    <3>1. CASE x = t
      BY <1>5, <2>2, <2>3, <3>1
    <3>2. CASE x # t
      <4>1. x \in DOMAIN w.mobiles /\ v.mobiles[x] = w.mobiles[x] /\ x # NULL
        BY <1>5, <3>2 DEF Good, Shape, Configured
      <4>2. w.mobiles[x] \in DOMAIN w.sess \ {s} /\ w.sess[w.mobiles[x]].ticket = x
        BY <2>1, <4>1 DEF Ticketed
      <4>. QED
        BY <2>2, <4>1, <4>2
    <3>. QED
      BY <3>1, <3>2
  <2>5. ASSUME NEW x \in DOMAIN v.sess, v.sess[x].ticket # NULL
        PROVE  v.sess[x].ticket \in DOMAIN v.mobiles /\ v.mobiles[v.sess[x].ticket] = x
    <3>1. CASE x = s
      BY <1>5, <2>3, <3>1
    <3>2. CASE x # s
      <4>1. x \in DOMAIN w.sess /\ v.sess[x] = w.sess[x]
        BY <2>2, <3>2
      <4>2. w.sess[x].ticket \in DOMAIN w.mobiles /\ w.mobiles[w.sess[x].ticket] = x
        BY <2>1, <2>5, <4>1 DEF Ticketed
      <4>. QED
        BY <1>5, <4>1, <4>2
    <3>. QED
      BY <3>1, <3>2
  <2>. QED
    BY <2>4, <2>5 DEF Ticketed
<1>9. Held(q) => Held(r)
  BY <1>0, <1>1 DEF Held, SFields
<1>10. \A x \in DOMAIN v.sess \ Q : Held(v.sess[x])
  BY <1>2, <1>9 DEF Good
<1>11. Good(v, n, Q)
  BY <1>2, <1>6, <1>7, <1>8, <1>10 DEF Good
<1>12. Changes(w, v, s, {"ticket"})
  BY <1>0, <1>1, <1>2 DEF Changes, SFields
<1>. QED
  BY <1>2, <1>11, <1>12

-----------------------------------------------------------------------------
(* Sessions that end.                                                      *)

\* A session leaves the map: it has given back its ticket and its charge.
LEMMA DropGood ==
    ASSUME Configured, NEW w, NEW n \in Nat, NEW Q, NEW s \in DOMAIN w.sess, Good(w, n, Q),
           w.sess[s].ticket = NULL, ~w.sess[s].counted, Q \subseteq {s}
    PROVE  Good([w EXCEPT !.sess = Drop(@, {s})], n, {})
<1>. DEFINE v == [w EXCEPT !.sess = Drop(@, {s})]
<1>1. DOMAIN w = WFields
  BY DEF Good, Shape
<1>2. /\ DOMAIN v = WFields /\ v.mobiles = w.mobiles /\ v.count = w.count
      /\ v.sess = Drop(w.sess, {s})
  BY <1>1 DEF WFields
<1>3. DOMAIN v.sess = DOMAIN w.sess \ {s} /\ \A x \in DOMAIN v.sess : v.sess[x] = w.sess[x]
  BY <1>2 DEF Drop, Restrict
<1>. HIDE DEF v
<1>4. Shape(v, n)
  BY <1>2, <1>3 DEF Good, Shape
<1>5. Balanced(v)
  <2>1. \A u : Charged(v, u) = Charged(w, u)
    BY <1>3 DEF Charged
  <2>. QED
    BY <1>2, <2>1 DEF Good, Balanced
<1>6. Ticketed(v)
  <2>1. Ticketed(w) /\ \A t \in DOMAIN w.mobiles : t # NULL
    BY DEF Good, Shape, Configured
  <2>2. ASSUME NEW t \in DOMAIN v.mobiles
        PROVE  v.mobiles[t] \in DOMAIN v.sess /\ v.sess[v.mobiles[t]].ticket = t
    <3>1. t \in DOMAIN w.mobiles /\ v.mobiles[t] = w.mobiles[t]
      BY <1>2
    <3>2. w.mobiles[t] \in DOMAIN w.sess \ {s} /\ w.sess[w.mobiles[t]].ticket = t
      BY <2>1, <3>1 DEF Ticketed
    <3>. QED
      BY <1>3, <3>1, <3>2
  <2>3. ASSUME NEW x \in DOMAIN v.sess, v.sess[x].ticket # NULL
        PROVE  v.sess[x].ticket \in DOMAIN v.mobiles /\ v.mobiles[v.sess[x].ticket] = x
    BY <1>2, <1>3, <2>1, <2>3 DEF Ticketed
  <2>. QED
    BY <2>2, <2>3 DEF Ticketed
<1>7. OneClient(v)
  BY <1>3 DEF Good, OneClient
<1>8. \A x \in DOMAIN v.sess \ {} : Held(v.sess[x])
  BY <1>3 DEF Good
<1>9. Good(v, n, {})
  BY <1>4, <1>5, <1>6, <1>7, <1>8 DEF Good
<1>. QED
  BY <1>9 DEF v

\* shutdown_client_connection, with or without mobility and force.
LEMMA ShutdownGood ==
    ASSUME Configured, NEW w, NEW n \in Nat, NEW s \in DOMAIN w.sess, Good(w, n, {s}),
           NEW force \in BOOLEAN
    PROVE  /\ Good(Shutdown(w, s, force), n, {})
           /\ Shutdown(w, s, force).pending = w.pending
<1>. DEFINE d == DecQuota(w, s)
<1>1. /\ Good(d, n, {s}) /\ s \in DOMAIN d.sess /\ ~d.sess[s].counted
      /\ d.pending = w.pending
  <2>1. /\ Good(d, n, {s} \cup {s}) /\ Changes(w, d, s, {"counted"}) /\ ~d.sess[s].counted
        /\ d.pending = w.pending
    BY DecQuotaGood
  <2>2. {s} \cup {s} = {s}
    OBVIOUS
  <2>. QED
    BY <2>1, <2>2 DEF Changes
<1>. HIDE DEF d
<1>2. CASE ~force /\ w.sess[s].mobile
  <2>1. PICK v : v = [d EXCEPT !.sess[s].client = NULL, !.sess[s].closing = FALSE]
    OBVIOUS
  <2>2. PICK r : r = [d.sess[s] EXCEPT !.client = NULL, !.closing = FALSE]
    OBVIOUS
  <2>3. DOMAIN d = WFields /\ SessionOK(d.sess[s], n) /\ DOMAIN d.sess[s] = SFields
    BY <1>1 DEF Good, Shape, SessionOK
  <2>4. /\ DOMAIN v = WFields /\ v.sess = [d.sess EXCEPT ![s] = r]
        /\ v.mobiles = d.mobiles /\ v.count = d.count /\ v.pending = d.pending
    BY <1>1, <2>1, <2>2, <2>3 DEF WFields, SFields
  <2>5. /\ SessionOK(r, n) /\ r.client = NULL
        /\ r.counted = d.sess[s].counted /\ r.user = d.sess[s].user
        /\ r.ticket = d.sess[s].ticket
    BY <2>2, <2>3 DEF SessionOK, SFields, NULL
  <2>6. Edit(d, v, s, r) /\ Keeps(r, d.sess[s]) /\ Held(r)
    BY <1>1, <2>3, <2>4, <2>5 DEF Edit, Keeps, Held
  <2>7. Good(v, n, {})
    BY <1>1, <2>4, <2>5, <2>6, QuietEdit
  <2>. QED
    BY <1>1, <1>2, <2>1, <2>4, <2>7 DEF Shutdown, d
<1>3. CASE ~(~force /\ w.sess[s].mobile)
  <2>1. PICK e : e = NoTicket(d, s)
    OBVIOUS
  <2>2. /\ Good(e, n, {s}) /\ s \in DOMAIN e.sess /\ ~e.sess[s].counted
        /\ e.sess[s].ticket = NULL /\ e.pending = d.pending
    <3>1. /\ Good(e, n, {s}) /\ Changes(d, e, s, {"ticket"}) /\ e.sess[s].ticket = NULL
          /\ e.pending = d.pending
      BY <1>1, <2>1, NoTicketGood
    <3>. QED
      BY <1>1, <3>1 DEF Changes, SFields
  <2>3. PICK v : v = [e EXCEPT !.sess = Drop(@, {s})]
    OBVIOUS
  <2>4. Good(v, n, {})
    BY <2>2, <2>3, DropGood
  <2>5. v.pending = e.pending
    BY <2>2, <2>3 DEF Good, Shape, WFields
  <2>6. Shutdown(w, s, force) = v
    BY <1>3, <2>1, <2>3 DEF Shutdown, d
  <2>. QED
    BY <1>1, <2>2, <2>4, <2>5, <2>6
<1>. QED
  BY <1>2, <1>3

-----------------------------------------------------------------------------
(* Requests.                                                               *)

RequestOK(m) ==
    /\ m.user \in Users /\ m.by \in Users
    /\ m.kind = "Allocate" => m.mobile \in BOOLEAN
    /\ m.kind # "Allocate" => m.delete \in BOOLEAN

LEMMA RequestsOK == \A m \in Requests : RequestOK(m)
  BY DEF Requests, RequestOK, AllocateRequests, RefreshRequests

\* The part of check_stun_auth after the key is known.
LEMMA WithNameGood ==
    ASSUME Configured, NEW w, NEW n \in Nat, NEW s \in DOMAIN w.sess, Good(w, n, {}),
           NEW m, RequestOK(m)
    PROVE  /\ Good(WithName(w, s, m), n, {})
           /\ Changes(w, WithName(w, s, m), s, {"user"})
           /\ Named(w, s, m) => WithName(w, s, m).sess[s].user = m.user
           /\ WithName(w, s, m).pending = w.pending
<1>1. CASE ~Named(w, s, m)
  BY <1>1 DEF WithName, Changes
<1>2. CASE Named(w, s, m)
  <2>1. PICK v : v = [w EXCEPT !.sess[s].user = m.user]
    OBVIOUS
  <2>2. PICK q : q = w.sess[s]
    OBVIOUS
  <2>3. PICK r : r = [q EXCEPT !.user = m.user]
    OBVIOUS
  <2>4. /\ DOMAIN w = WFields /\ SessionOK(q, n) /\ DOMAIN q = SFields /\ Held(q)
    BY <2>2 DEF Good, Shape, SessionOK
  <2>5. /\ DOMAIN v = WFields /\ v.sess = [w.sess EXCEPT ![s] = r]
        /\ v.mobiles = w.mobiles /\ v.count = w.count /\ v.pending = w.pending
    BY <2>1, <2>2, <2>3, <2>4 DEF WFields
  <2>6. q.user \in {Nobody, m.user}
    BY <1>2, <2>2 DEF Named
  <2>7. /\ SessionOK(r, n) /\ r.user = m.user
        /\ \A f \in SFields \ {"user"} : r[f] = q[f]
    BY <2>3, <2>4, <2>6 DEF SessionOK, SFields, RequestOK
  <2>8. q.counted => q.user = m.user
    BY <2>4, <2>6 DEF SessionOK, Configured
  <2>9. Keeps(r, q) /\ Held(r)
    BY <2>4, <2>7, <2>8 DEF Keeps, Held, SFields
  <2>10. Edit(w, v, s, r)
    BY <2>4, <2>5 DEF Edit
  <2>11. Good(v, n, {})
    BY <2>2, <2>5, <2>7, <2>9, <2>10, QuietEdit
  <2>12. Changes(w, v, s, {"user"}) /\ v.sess[s].user = m.user
    BY <2>2, <2>5, <2>7 DEF Changes
  <2>13. WithName(w, s, m) = v
    BY <1>2, <2>1 DEF WithName
  <2>. QED
    BY <2>5, <2>11, <2>12, <2>13
<1>. QED
  BY <1>1, <1>2

\* refresh_relay_connection, for the user of the session.
LEMMA RefreshGood ==
    ASSUME Configured, NEW w, NEW n \in Nat, NEW s \in DOMAIN w.sess, Good(w, n, {}),
           NEW m, RequestOK(m), m.kind # "Allocate", w.sess[s].user = m.user, m.by = m.user,
           w.sess[s].valid
    PROVE  /\ Good(RefreshRelay(w, s, m), n, {})
           /\ Changes(w, RefreshRelay(w, s, m), s, {"valid", "armed", "holder"})
           /\ RefreshRelay(w, s, m).sess[s].valid = ~m.delete
           /\ RefreshRelay(w, s, m).sess[s].armed
           /\ RefreshRelay(w, s, m).pending = w.pending
           /\ RefreshRelay(w, s, m).count = w.count
<1>1. PICK v : v = RefreshRelay(w, s, m)
  OBVIOUS
<1>2. PICK q : q = w.sess[s]
  OBVIOUS
<1>3. PICK r : r = [q EXCEPT !.valid = ~m.delete, !.armed = TRUE, !.holder = m.by]
  OBVIOUS
<1>4. /\ DOMAIN w = WFields /\ SessionOK(q, n) /\ DOMAIN q = SFields /\ Held(q)
  BY <1>2 DEF Good, Shape, SessionOK
<1>5. /\ DOMAIN v = WFields /\ v.sess = [w.sess EXCEPT ![s] = r]
      /\ v.mobiles = w.mobiles /\ v.count = w.count /\ v.pending = w.pending
  BY <1>1, <1>2, <1>3, <1>4 DEF WFields, RefreshRelay, SFields
<1>6. /\ SessionOK(r, n) /\ r.valid = ~m.delete /\ r.armed = TRUE /\ r.holder = m.by
      /\ \A f \in SFields \ {"valid", "armed", "holder"} : r[f] = q[f]
  BY <1>2, <1>3, <1>4 DEF SessionOK, SFields, RequestOK
<1>7. Keeps(r, q)
  BY <1>6 DEF Keeps, SFields
<1>8. Held(r)
  BY <1>2, <1>4, <1>6 DEF Held, SFields
<1>9. Edit(w, v, s, r)
  BY <1>4, <1>5 DEF Edit
<1>10. Good(v, n, {})
  BY <1>2, <1>5, <1>6, <1>7, <1>8, <1>9, QuietEdit
<1>11. /\ Changes(w, v, s, {"valid", "armed", "holder"})
       /\ v.sess[s].valid = ~m.delete /\ v.sess[s].armed
  BY <1>2, <1>5, <1>6 DEF Changes
<1>. QED
  BY <1>1, <1>5, <1>10, <1>11

\* create_relay_connection, for a session that was just charged for.
LEMMA CreateRelayGood ==
    ASSUME Configured, NEW w, NEW n \in Nat, NEW s \in DOMAIN w.sess, Good(w, n, {}),
           NEW m, RequestOK(m), w.sess[s].user = m.user, m.by = m.user,
           w.sess[s].counted, ~w.sess[s].valid, NEW v \in CreateRelay(w, s, m)
    PROVE  Good(v, n, {}) /\ v.pending = w.pending
<1>1. PICK q : q = w.sess[s]
  OBVIOUS
<1>2. /\ DOMAIN w = WFields /\ SessionOK(q, n) /\ DOMAIN q = SFields
  BY <1>1 DEF Good, Shape, SessionOK
<1>3. CASE v = [w EXCEPT !.sess[s].valid = TRUE, !.sess[s].relay = TRUE,
                         !.sess[s].armed = TRUE, !.sess[s].holder = m.by]
  <2>1. PICK r : r = [q EXCEPT !.valid = TRUE, !.relay = TRUE, !.armed = TRUE, !.holder = m.by]
    OBVIOUS
  <2>2. /\ DOMAIN v = WFields /\ v.sess = [w.sess EXCEPT ![s] = r]
        /\ v.mobiles = w.mobiles /\ v.count = w.count /\ v.pending = w.pending
    BY <1>1, <1>2, <1>3, <2>1 DEF WFields, SFields
  <2>3. /\ SessionOK(r, n) /\ r.armed = TRUE
        /\ \A f \in SFields \ {"valid", "relay", "armed", "holder"} : r[f] = q[f]
    BY <1>1, <1>2, <2>1 DEF SessionOK, SFields, RequestOK
  <2>4. Keeps(r, q) /\ Held(r)
    BY <1>1, <2>3 DEF Keeps, Held, SFields
  <2>5. Edit(w, v, s, r)
    BY <1>2, <2>2 DEF Edit
  <2>. QED
    BY <1>1, <2>2, <2>3, <2>4, <2>5, QuietEdit
<1>4. CASE v = DecQuota([w EXCEPT !.sess[s].relay = FALSE], s)
  <2>1. PICK r : r = [q EXCEPT !.relay = FALSE]
    OBVIOUS
  <2>2. PICK e : e = [w EXCEPT !.sess[s].relay = FALSE]
    OBVIOUS
  <2>3. /\ DOMAIN e = WFields /\ e.sess = [w.sess EXCEPT ![s] = r]
        /\ e.mobiles = w.mobiles /\ e.count = w.count /\ e.pending = w.pending
    BY <1>1, <1>2, <2>1, <2>2 DEF WFields, SFields
  <2>4. SessionOK(r, n) /\ \A f \in SFields \ {"relay"} : r[f] = q[f]
    BY <1>1, <1>2, <2>1 DEF SessionOK, SFields
  <2>5. Keeps(r, q) /\ Held(r)
    BY <1>1, <2>4 DEF Keeps, Held, SFields
  <2>6. Edit(w, e, s, r)
    BY <1>2, <2>3 DEF Edit
  <2>7. Good(e, n, {})
    BY <1>1, <2>3, <2>4, <2>5, <2>6, QuietEdit
  <2>8. s \in DOMAIN e.sess /\ ~e.sess[s].valid
    BY <1>1, <2>3, <2>4 DEF SFields
  <2>9. /\ Good(v, n, {} \cup {s}) /\ Changes(e, v, s, {"counted"}) /\ v.pending = e.pending
    BY <1>4, <2>2, <2>7, <2>8, DecQuotaGood
  <2>10. ~v.sess[s].valid
    BY <2>8, <2>9 DEF Changes, SFields
  <2>11. Good(v, n, {})
    BY <2>9, <2>10 DEF Good, Held
  <2>. QED
    BY <2>3, <2>9, <2>11
<1>. QED
  BY <1>3, <1>4 DEF CreateRelay

LEMMA HandleAllocateGood ==
    ASSUME Configured, NEW w, NEW n \in Nat, NEW s \in DOMAIN w.sess, Good(w, n, {}),
           NEW m, RequestOK(m), m.kind = "Allocate", w.sess[s].user = m.user, m.by = m.user,
           NEW v \in HandleAllocate(w, s, m)
    PROVE  Good(v, n, {}) /\ v.pending = w.pending
<1>1. CASE w.sess[s].valid
  BY <1>1 DEF HandleAllocate
<1>2. CASE ~w.sess[s].valid
  <2>1. PICK a : a = [w EXCEPT !.sess[s].mobile = @ \/ m.mobile]
    OBVIOUS
  <2>2. PICK b : b = IF a.sess[s].mobile THEN a ELSE NoTicket(a, s)
    OBVIOUS
  <2>3. v \in {a} \cup IF ~MayCount(b, s) THEN {b} ELSE CreateRelay(IncQuota(b, s), s, m)
    BY <1>2, <2>1, <2>2 DEF HandleAllocate
  <2>4. /\ Good(a, n, {}) /\ a.pending = w.pending /\ s \in DOMAIN a.sess
        /\ a.sess[s].user = m.user /\ ~a.sess[s].valid
    <3>1. PICK q : q = w.sess[s]
      OBVIOUS
    <3>2. PICK r : r = [q EXCEPT !.mobile = q.mobile \/ m.mobile]
      OBVIOUS
    <3>3. DOMAIN w = WFields /\ SessionOK(q, n) /\ DOMAIN q = SFields /\ Held(q)
      BY <3>1 DEF Good, Shape, SessionOK
    <3>4. /\ DOMAIN a = WFields /\ a.sess = [w.sess EXCEPT ![s] = r]
          /\ a.mobiles = w.mobiles /\ a.count = w.count /\ a.pending = w.pending
      BY <2>1, <3>1, <3>2, <3>3 DEF WFields, SFields
    <3>5. r.mobile = (q.mobile \/ m.mobile) /\ DOMAIN r = SFields
          /\ \A f \in SFields \ {"mobile"} : r[f] = q[f]
      BY <3>2, <3>3 DEF SFields
    <3>6. r.mobile \in BOOLEAN
      BY <3>5
    <3>7. SessionOK(r, n)
      BY <3>1, <3>3, <3>5, <3>6 DEF SessionOK, SFields, RequestOK
    <3>8. Keeps(r, q) /\ Held(r)
      BY <3>3, <3>5 DEF Keeps, Held, SFields
    <3>9. Edit(w, a, s, r)
      BY <3>3, <3>4 DEF Edit
    <3>10. Good(a, n, {})
      BY <3>1, <3>4, <3>7, <3>8, <3>9, QuietEdit
    <3>. QED
      BY <1>2, <3>1, <3>4, <3>5, <3>10 DEF SFields
  <2>5. /\ Good(b, n, {}) /\ b.pending = w.pending /\ s \in DOMAIN b.sess
        /\ b.sess[s].user = m.user /\ ~b.sess[s].valid
    <3>1. CASE a.sess[s].mobile
      BY <2>2, <2>4, <3>1
    <3>2. CASE ~a.sess[s].mobile
      <4>1. /\ Good(b, n, {}) /\ Changes(a, b, s, {"ticket"}) /\ b.pending = a.pending
        BY <2>2, <2>4, <3>2, NoTicketGood
      <4>. QED
        BY <2>4, <4>1 DEF Changes, SFields
    <3>. QED
      BY <3>1, <3>2
  <2>6. ASSUME MayCount(b, s), v \in CreateRelay(IncQuota(b, s), s, m)
        PROVE  Good(v, n, {}) /\ v.pending = w.pending
    <3>1. PICK c : c = IncQuota(b, s)
      OBVIOUS
    <3>2. b.sess[s].user \in Users
      BY <2>5 DEF RequestOK
    <3>3. /\ Good(c, n, {}) /\ Changes(b, c, s, {"counted"}) /\ c.sess[s].counted
          /\ c.pending = b.pending
      BY <2>5, <2>6, <3>1, <3>2, IncQuotaGood
    <3>4. s \in DOMAIN c.sess /\ c.sess[s].user = m.user /\ ~c.sess[s].valid
      BY <2>5, <3>3 DEF Changes, SFields
    <3>5. v \in CreateRelay(c, s, m)
      BY <2>6, <3>1
    <3>6. Good(v, n, {}) /\ v.pending = c.pending
      BY <3>3, <3>4, <3>5, CreateRelayGood
    <3>. QED
      BY <2>5, <3>3, <3>6
  <2>. QED
    BY <2>3, <2>4, <2>5, <2>6
<1>. QED
  BY <1>1, <1>2

\* The last part of Transfer: o takes the client of s, which is to be closed.
LEMMA TakeOverGood ==
    ASSUME Configured, NEW w, NEW n \in Nat, NEW s \in DOMAIN w.sess, NEW o \in DOMAIN w.sess \ {s},
           Good(w, n, {}), ~w.sess[s].closing,
           w.sess[o].valid => w.sess[o].counted /\ w.sess[o].armed,
           NEW client, client = w.sess[s].client,
           NEW v, v = [w EXCEPT !.sess[o].client = client, !.sess[s].closing = TRUE]
    PROVE  Good(v, n, {}) /\ v.pending = w.pending
<1>1. PICK qo : qo = w.sess[o]
  OBVIOUS
<1>2. PICK qs : qs = w.sess[s]
  OBVIOUS
<1>3. PICK ro : ro = [qo EXCEPT !.client = client]
  OBVIOUS
<1>4. PICK rs : rs = [qs EXCEPT !.closing = TRUE]
  OBVIOUS
<1>5. /\ DOMAIN w = WFields /\ SessionOK(qo, n) /\ DOMAIN qo = SFields
      /\ SessionOK(qs, n) /\ DOMAIN qs = SFields /\ Held(qs) /\ client = qs.client
  BY <1>1, <1>2 DEF Good, Shape, SessionOK
<1>6. /\ DOMAIN v = WFields
      /\ v.mobiles = w.mobiles /\ v.count = w.count /\ v.pending = w.pending
      /\ v.sess = [[w.sess EXCEPT ![o] = ro] EXCEPT ![s] = rs]
  BY <1>1, <1>2, <1>3, <1>4, <1>5 DEF WFields, SFields
<1>7. /\ DOMAIN v.sess = DOMAIN w.sess /\ v.sess[o] = ro /\ v.sess[s] = rs
      /\ \A x \in DOMAIN w.sess \ {s, o} : v.sess[x] = w.sess[x]
  BY <1>6
<1>8. /\ SessionOK(ro, n) /\ ro.client = client
      /\ \A f \in SFields \ {"client"} : ro[f] = qo[f]
  BY <1>3, <1>5 DEF SessionOK, SFields
<1>9. /\ SessionOK(rs, n) /\ rs.closing = TRUE
       /\ \A f \in SFields \ {"closing"} : rs[f] = qs[f]
  BY <1>4, <1>5 DEF SessionOK, SFields
<1>10. Shape(v, n)
  BY <1>6, <1>7, <1>8, <1>9 DEF Good, Shape
<1>11. \A x \in DOMAIN w.sess :
          /\ v.sess[x].counted = w.sess[x].counted /\ v.sess[x].user = w.sess[x].user
          /\ v.sess[x].ticket = w.sess[x].ticket
  BY <1>1, <1>2, <1>7, <1>8, <1>9 DEF SFields
<1>12. Balanced(v)
  <2>1. \A u : Charged(v, u) = Charged(w, u)
    BY <1>7, <1>11 DEF Charged
  <2>. QED
    BY <1>6, <2>1 DEF Good, Balanced
<1>13. Ticketed(v)
  <2>1. Ticketed(w)
    BY DEF Good
  <2>2. DOMAIN v.sess = DOMAIN w.sess /\ v.mobiles = w.mobiles
    BY <1>6, <1>7
  <2>3. \A x \in DOMAIN w.sess : v.sess[x].ticket = w.sess[x].ticket
    BY <1>11
  <2>4. \A t \in DOMAIN v.mobiles :
            v.mobiles[t] \in DOMAIN v.sess /\ v.sess[v.mobiles[t]].ticket = t
    BY <2>1, <2>2, <2>3 DEF Ticketed
  <2>5. \A x \in DOMAIN v.sess : v.sess[x].ticket # NULL =>
            v.sess[x].ticket \in DOMAIN v.mobiles /\ v.mobiles[v.sess[x].ticket] = x
    <3>. SUFFICES ASSUME NEW x \in DOMAIN w.sess, w.sess[x].ticket # NULL
                  PROVE  w.sess[x].ticket \in DOMAIN w.mobiles
                         /\ w.mobiles[w.sess[x].ticket] = x
      BY <2>2, <2>3
    <3>. QED
      BY <2>1 DEF Ticketed
  <2>. QED
    BY <2>4, <2>5 DEF Ticketed
<1>14. OneClient(v)
  <2>1. OneClient(w)
    BY DEF Good
  <2>2. \A x \in DOMAIN w.sess \ {s, o} :
            w.sess[x].client = client => client = NULL \/ w.sess[x].closing
    BY <2>1 DEF OneClient
  <2>3. rs.closing
    BY <1>9
  <2>. QED
    BY <1>7, <1>8, <2>1, <2>2, <2>3 DEF OneClient
<1>15. \A x \in DOMAIN v.sess \ {} : Held(v.sess[x])
  <2>1. Held(ro)
    BY <1>1, <1>8 DEF Held, SFields
  <2>2. Held(rs)
    BY <1>5, <1>9 DEF Held, SFields
  <2>. QED
    BY <1>7, <2>1, <2>2 DEF Good
<1>16. Good(v, n, {})
  BY <1>10, <1>12, <1>13, <1>14, <1>15 DEF Good
<1>. QED
  BY <1>6, <1>16

LEMMA TransferGood ==
    ASSUME Configured, NEW w, NEW n \in Nat, NEW s \in DOMAIN w.sess, NEW o \in DOMAIN w.sess \ {s},
           Good(w, n, {}), ~w.sess[s].closing, w.sess[o].valid,
           NEW m, RequestOK(m), m.kind # "Allocate", Signed(w, o, m),
           NEW v \in Transfer(w, s, o, m)
    PROVE  Good(v, n, {}) /\ v.pending = w.pending
<1>1. w.sess[o].user = m.user /\ m.by = m.user /\ w.sess[o].user \in Users
  BY DEF Signed, Named, Good, Shape, SessionOK, Configured
<1>2. PICK r : r = RefreshRelay(w, o, m)
  OBVIOUS
<1>3. /\ Good(r, n, {}) /\ Changes(w, r, o, {"valid", "armed", "holder"})
      /\ r.sess[o].valid = ~m.delete /\ r.sess[o].armed /\ r.pending = w.pending
  BY <1>1, <1>2, RefreshGood
<1>4. /\ o \in DOMAIN r.sess /\ s \in DOMAIN r.sess /\ r.sess[o].user \in Users
      /\ r.sess[s] = w.sess[s]
  BY <1>1, <1>3 DEF Changes, SFields
<1>5. CASE ~m.delete /\ ~MayCount(r, o)
  BY <1>2, <1>3, <1>5 DEF Transfer
<1>6. CASE ~(~m.delete /\ ~MayCount(r, o))
  <2>1. PICK c : c = IF m.delete THEN r ELSE IncQuota(r, o)
    OBVIOUS
  <2>2. /\ Good(c, n, {}) /\ Changes(r, c, o, {"counted"}) /\ c.pending = w.pending
        /\ c.sess[o].valid => c.sess[o].counted /\ c.sess[o].armed
    <3>1. CASE m.delete
      BY <1>3, <2>1, <3>1 DEF Changes
    <3>2. CASE ~m.delete
      <4>1. /\ Good(c, n, {}) /\ Changes(r, c, o, {"counted"}) /\ c.pending = r.pending
            /\ c.sess[o].counted
        BY <1>3, <1>4, <1>6, <2>1, <3>2, IncQuotaGood
      <4>2. c.sess[o].armed
        BY <1>3, <4>1 DEF Changes, SFields
      <4>. QED
        BY <1>3, <4>1, <4>2
    <3>. QED
      BY <3>1, <3>2
  <2>3. o \in DOMAIN c.sess /\ s \in DOMAIN c.sess /\ c.sess[s] = w.sess[s]
    BY <1>4, <2>2 DEF Changes
  <2>4. PICK e : e = NoTicket(c, s)
    OBVIOUS
  <2>5. Good(e, n, {}) /\ Changes(c, e, s, {"ticket"}) /\ e.pending = w.pending
    BY <2>2, <2>3, <2>4, NoTicketGood
  <2>6. /\ o \in DOMAIN e.sess /\ s \in DOMAIN e.sess /\ e.sess[o] = c.sess[o]
        /\ e.sess[s].client = w.sess[s].client /\ e.sess[s].closing = w.sess[s].closing
    BY <2>3, <2>5 DEF Changes, SFields
  <2>7. PICK d : d = NoTicket(e, o)
    OBVIOUS
  <2>8. /\ Good(d, n, {}) /\ Changes(e, d, o, {"ticket"}) /\ d.sess[o].ticket = NULL
        /\ d.pending = w.pending
    BY <2>5, <2>6, <2>7, NoTicketGood
  <2>9. /\ o \in DOMAIN d.sess /\ s \in DOMAIN d.sess /\ d.sess[s] = e.sess[s]
        /\ d.sess[o].valid = c.sess[o].valid /\ d.sess[o].counted = c.sess[o].counted
        /\ d.sess[o].armed = c.sess[o].armed
    BY <2>6, <2>8 DEF Changes, SFields
  <2>10. PICK client : client = w.sess[s].client
    OBVIOUS
  <2>11. PICK t \in Tickets \ DOMAIN d.mobiles :
            v = [NewTicket(d, o, t) EXCEPT !.sess[o].client = client, !.sess[s].closing = TRUE]
    BY ZenonT(60), <1>2, <1>6, <2>1, <2>4, <2>7, <2>10 DEF Transfer
  <2>12. PICK f : f = NewTicket(d, o, t)
    OBVIOUS
  <2>13. Good(f, n, {}) /\ Changes(d, f, o, {"ticket"}) /\ f.pending = w.pending
    BY <2>8, <2>9, <2>12, NewTicketGood
  <2>14. /\ o \in DOMAIN f.sess \ {s} /\ s \in DOMAIN f.sess /\ client = f.sess[s].client
         /\ ~f.sess[s].closing
         /\ f.sess[o].valid => f.sess[o].counted /\ f.sess[o].armed
    BY <2>2, <2>6, <2>9, <2>10, <2>13 DEF Changes, SFields
  <2>15. v = [f EXCEPT !.sess[o].client = client, !.sess[s].closing = TRUE]
    BY <2>11, <2>12
  <2>16. Good(v, n, {}) /\ v.pending = f.pending
    BY <2>13, <2>14, <2>15, TakeOverGood
  <2>. QED
    BY <2>13, <2>16
<1>. QED
  BY <1>5, <1>6

LEMMA HandleTicketGood ==
    ASSUME Configured, NEW w, NEW n \in Nat, NEW s \in DOMAIN w.sess,
           Good(w, n, {}), ~w.sess[s].closing,
           NEW m, RequestOK(m), m.kind # "Allocate", NEW v \in HandleTicket(w, s, m)
    PROVE  Good(v, n, {}) /\ v.pending = w.pending
<1>1. CASE m.ticket \notin DOMAIN w.mobiles
  BY <1>1 DEF HandleTicket
<1>2. CASE m.ticket \in DOMAIN w.mobiles
  <2>1. PICK o : o = w.mobiles[m.ticket]
    OBVIOUS
  <2>2. o \in DOMAIN w.sess
    BY <1>2, <2>1 DEF Good, Ticketed
  <2>3. CASE o = s \/ ~w.sess[o].mobile
    BY <1>2, <2>1, <2>3 DEF HandleTicket
  <2>4. CASE ~(o = s \/ ~w.sess[o].mobile)
    <3>1. CASE ~Signed(w, o, m) \/ ~w.sess[o].valid
      <4>1. v = WithName(w, o, m)
        BY <1>2, <2>1, <2>4, <3>1 DEF HandleTicket
      <4>. QED
        BY <2>2, <4>1, WithNameGood
    <3>2. CASE ~(~Signed(w, o, m) \/ ~w.sess[o].valid)
      <4>1. v \in Transfer(w, s, o, m)
        BY <1>2, <2>1, <2>4, <3>2 DEF HandleTicket
      <4>. QED
        BY <2>2, <2>4, <3>2, <4>1, TransferGood
    <3>. QED
      BY <3>1, <3>2
  <2>. QED
    BY <2>3, <2>4
<1>. QED
  BY <1>1, <1>2

\* handle_turn_command
LEMMA HandleCommandGood ==
    ASSUME Configured, NEW w, NEW n \in Nat, NEW s \in DOMAIN w.sess,
           Good(w, n, {}), ~w.sess[s].closing,
           NEW m, RequestOK(m), NEW canResume \in BOOLEAN,
           NEW v \in HandleCommand(w, s, m, canResume)
    PROVE  /\ Good(v, n, {})
           /\ \/ v.pending = w.pending
              \/ canResume /\ v.pending = w.pending \cup {[session |-> s, request |-> m]}
<1>1. CASE m.kind # "Allocate" /\ ~w.sess[s].valid
  <2>1. v \in HandleTicket(w, s, m) \/ v = w
    BY <1>1 DEF HandleCommand
  <2>. QED
    BY <1>1, <2>1, HandleTicketGood
<1>2. CASE ~(m.kind # "Allocate" /\ ~w.sess[s].valid)
  <2>1. PICK x : x = WithName(w, s, m)
    OBVIOUS
  <2>2. /\ Good(x, n, {}) /\ Changes(w, x, s, {"user"}) /\ x.pending = w.pending
        /\ Named(w, s, m) => x.sess[s].user = m.user
    BY <2>1, WithNameGood
  <2>3. s \in DOMAIN x.sess
    BY <2>2 DEF Changes
  <2>4. CASE Named(w, s, m) /\ ~w.sess[s].key /\ canResume
    <3>1. v = PostLookup(x, s, m)
      BY <1>2, <2>1, <2>4 DEF HandleCommand
    <3>2. /\ v.sess = x.sess /\ v.mobiles = x.mobiles /\ v.count = x.count
          /\ v.pending = x.pending \cup {[session |-> s, request |-> m]}
          /\ DOMAIN v = WFields
      BY <2>2, <3>1 DEF PostLookup, Good, Shape, WFields
    <3>3. Good(v, n, {})
      BY <2>2, <3>2 DEF Good, Shape, Balanced, Charged, Ticketed, OneClient
    <3>. QED
      BY <2>2, <2>4, <3>2, <3>3
  <2>5. CASE ~(Named(w, s, m) /\ ~w.sess[s].key /\ canResume)
    <3>1. v \in IF Signed(w, s, m) THEN Handle(x, s, m) ELSE {x}
      BY <1>2, <2>1, <2>5 DEF HandleCommand
    <3>2. CASE ~Signed(w, s, m)
      BY <2>2, <3>1, <3>2
    <3>3. CASE Signed(w, s, m)
      <4>1. x.sess[s].user = m.user /\ m.by = m.user
        BY <2>2, <3>3 DEF Signed
      <4>2. \/ m.kind = "Allocate" /\ v \in HandleAllocate(x, s, m)
            \/ m.kind # "Allocate" /\ x.sess[s].valid /\ v = RefreshRelay(x, s, m)
            \/ v = x
        BY <3>1, <3>3 DEF Handle
      <4>3. ASSUME m.kind = "Allocate", v \in HandleAllocate(x, s, m)
            PROVE  Good(v, n, {}) /\ v.pending = x.pending
        BY <2>2, <2>3, <4>1, <4>3, HandleAllocateGood
      <4>4. ASSUME m.kind # "Allocate", x.sess[s].valid, v = RefreshRelay(x, s, m)
            PROVE  Good(v, n, {}) /\ v.pending = x.pending
        BY <2>2, <2>3, <4>1, <4>4, RefreshGood
      <4>. QED
        BY <2>2, <4>2, <4>3, <4>4
    <3>. QED
      BY <3>2, <3>3
  <2>. QED
    BY <2>4, <2>5
<1>. QED
  BY <1>1, <1>2

-----------------------------------------------------------------------------
(* The steps.                                                              *)

LEMMA WorldFacts ==
    /\ DOMAIN World = WFields
    /\ World.sess = sess /\ World.mobiles = mobiles
    /\ World.count = count /\ World.pending = pending
  BY DEF World, WFields

\* A world that has become the state.
LEMMA Became ==
    ASSUME NEW w, Become(w), DOMAIN w = WFields, opened \in 0..MaxSessions,
           Good(w, opened, {}), Waiting(w)
    PROVE  ServerInv'
<1>1. /\ sess' = w.sess /\ mobiles' = w.mobiles /\ count' = w.count
      /\ pending' = w.pending /\ opened' = opened
  BY DEF Become
<1>2. PICK v : v = [sess |-> w.sess, mobiles |-> w.mobiles, count |-> w.count,
                    pending |-> w.pending]
  OBVIOUS
<1>3. World' = v
  BY <1>1, <1>2 DEF World
<1>4. /\ DOMAIN v = WFields /\ v.sess = w.sess /\ v.mobiles = w.mobiles
      /\ v.count = w.count /\ v.pending = w.pending
  BY <1>2 DEF WFields
<1>5. Good(v, opened, {})
  BY <1>4 DEF Good, Shape, Balanced, Charged, Ticketed, OneClient
<1>6. Waiting(v)
  BY <1>4 DEF Waiting
<1>. QED
  BY <1>1, <1>3, <1>5, <1>6 DEF ServerInv

LEMMA InitInv == ASSUME Configured, Init PROVE ServerInv
<1>1. /\ DOMAIN sess = {} /\ DOMAIN mobiles = {} /\ pending = {} /\ opened = 0
      /\ DOMAIN count = Users /\ \A u \in Users : count[u] = 0
  BY DEF Init
<1>2. \A u : Charged(World, u) = {}
  BY <1>1, WorldFacts DEF Charged
<1>3. Balanced(World)
  BY <1>1, <1>2, WorldFacts, FS_EmptySet DEF Balanced
<1>4. Shape(World, 0) /\ Ticketed(World) /\ OneClient(World)
  BY <1>1, WorldFacts DEF Shape, Ticketed, OneClient, Configured
<1>5. Waiting(World)
  BY <1>1, WorldFacts, FS_EmptySet DEF Waiting, Configured
<1>6. Good(World, 0, {})
  BY <1>1, <1>3, <1>4, WorldFacts DEF Good
<1>. QED
  BY <1>1, <1>5, <1>6 DEF ServerInv, Configured

\* There is a ticket for a new session: each ticket in use is that of a session.
LEMMA TicketLeft ==
    ASSUME Configured, ServerInv, opened < MaxSessions
    PROVE  \E t \in Tickets : t \notin DOMAIN mobiles
<1>. DEFINE f == [t \in DOMAIN mobiles |-> mobiles[t]]
<1>1. /\ DOMAIN mobiles \subseteq Tickets /\ DOMAIN sess \subseteq 1..opened
      /\ \A t \in DOMAIN mobiles : mobiles[t] \in DOMAIN sess /\ sess[mobiles[t]].ticket = t
      /\ opened \in Nat
  BY WorldFacts DEF ServerInv, Good, Shape, Ticketed
<1>2. f \in Injection(DOMAIN mobiles, 1..opened)
  BY <1>1 DEF Injection, IsInjective
<1>3. IsFiniteSet(1..opened) /\ Cardinality(1..opened) = opened
  BY <1>1, FS_Interval
<1>4. IsFiniteSet(DOMAIN mobiles) /\ Cardinality(DOMAIN mobiles) <= Cardinality(1..opened)
  BY <1>2, <1>3, FS_Injection
<1>5. Cardinality(DOMAIN mobiles) \in Nat
  BY <1>4, FS_CardinalityType
<1>6. Cardinality(DOMAIN mobiles) < MaxSessions
  BY <1>1, <1>3, <1>4, <1>5 DEF Configured
<1>. QED
  BY <1>1, <1>4, <1>6 DEF Configured

LEMMA OpenInv == ASSUME Configured, ServerInv, Open PROVE ServerInv'
<1>1. PICK s : s = opened + 1
  OBVIOUS
<1>2. PICK t : t = CHOOSE x \in Tickets \ DOMAIN mobiles : TRUE
  OBVIOUS
<1>3. PICK r : r = [NewSession(s) EXCEPT !.ticket = t]
  OBVIOUS
<1>4. /\ opened < MaxSessions /\ opened' = s /\ opened \in 0..MaxSessions
      /\ sess' = With(sess, s, r) /\ mobiles' = With(mobiles, t, s)
      /\ count' = count /\ pending' = pending
  BY <1>1, <1>2, <1>3 DEF Open, ServerInv
<1>5. t \in Tickets /\ t \notin DOMAIN mobiles /\ t # NULL
  BY <1>2, <1>4, TicketLeft DEF Configured
<1>6. s \in 1..MaxSessions /\ s \in Nat /\ 0..opened \subseteq 0..s /\ 1..opened \subseteq 1..s
  BY <1>1, <1>4 DEF Configured
<1>7. s \notin DOMAIN sess /\ \A x \in DOMAIN sess : sess[x].client # s
  <2>1. DOMAIN sess \subseteq 1..opened /\ \A x \in DOMAIN sess : sess[x].client \in 0..opened
    BY WorldFacts DEF ServerInv, Good, Shape, SessionOK
  <2>. QED
    BY <1>1, <1>4, <2>1
<1>8. PICK v : v = [sess |-> With(sess, s, r), mobiles |-> With(mobiles, t, s),
                    count |-> count, pending |-> pending]
  OBVIOUS
<1>9. /\ DOMAIN v = WFields /\ v.count = count /\ v.pending = pending
      /\ v.sess = With(sess, s, r) /\ v.mobiles = With(mobiles, t, s)
  BY <1>8 DEF WFields
<1>10. /\ DOMAIN v.sess = DOMAIN sess \cup {s} /\ v.sess[s] = r
       /\ \A x \in DOMAIN sess : v.sess[x] = sess[x]
  BY <1>7, <1>9 DEF With
<1>11. /\ DOMAIN v.mobiles = DOMAIN mobiles \cup {t} /\ v.mobiles[t] = s
       /\ \A x \in DOMAIN mobiles : v.mobiles[x] = mobiles[x]
  BY <1>5, <1>9 DEF With
<1>12. /\ DOMAIN r = SFields /\ r.client = s /\ r.closing = FALSE /\ r.valid = FALSE
       /\ r.armed = FALSE /\ r.mobile = FALSE /\ r.ticket = t /\ r.user = Nobody
       /\ r.counted = FALSE /\ r.holder = Nobody
  BY <1>3 DEF NewSession, SFields
<1>13. SessionOK(r, s)
  <2>1. /\ r.closing \in BOOLEAN /\ r.valid \in BOOLEAN /\ r.armed \in BOOLEAN
        /\ r.mobile \in BOOLEAN /\ r.counted \in BOOLEAN
        /\ ~r.valid /\ ~r.mobile /\ ~r.counted
    BY <1>12, Zenon
  <2>2. r.client \in 0..s
    BY <1>6, <1>12
  <2>. QED
    BY <1>5, <1>12, <2>1, <2>2 DEF SessionOK
<1>14. /\ Shape(World, opened) /\ Balanced(World) /\ Ticketed(World) /\ OneClient(World)
       /\ \A x \in DOMAIN sess : Held(sess[x])
  BY WorldFacts DEF ServerInv, Good
<1>15. \A x \in DOMAIN sess : SessionOK(sess[x], s)
  <2>1. \A x \in DOMAIN sess : SessionOK(sess[x], opened)
    BY <1>14, WorldFacts DEF Shape
  <2>. QED
    BY <1>6, <2>1 DEF SessionOK
<1>16. Shape(v, s)
  BY <1>5, <1>6, <1>9, <1>10, <1>11, <1>13, <1>14, <1>15, WorldFacts DEF Shape
<1>17. Balanced(v)
  <2>1. \A u : Charged(v, u) = Charged(World, u)
    BY <1>10, <1>12, WorldFacts DEF Charged
  <2>. QED
    BY <1>9, <1>14, <2>1, WorldFacts DEF Balanced
<1>18. Ticketed(v)
  <2>1. /\ \A x \in DOMAIN mobiles : mobiles[x] \in DOMAIN sess /\ sess[mobiles[x]].ticket = x
        /\ \A x \in DOMAIN sess : sess[x].ticket # NULL =>
              sess[x].ticket \in DOMAIN mobiles /\ mobiles[sess[x].ticket] = x
    BY <1>14, WorldFacts DEF Ticketed
  <2>. QED
    BY <1>5, <1>10, <1>11, <1>12, <2>1 DEF Ticketed
<1>19. OneClient(v)
  BY <1>7, <1>10, <1>12, <1>14, WorldFacts DEF OneClient
<1>20. Held(r)
  BY <1>12 DEF Held
<1>21. Good(v, s, {})
  BY <1>10, <1>14, <1>16, <1>17, <1>18, <1>19, <1>20 DEF Good
<1>22. Waiting(v)
  BY <1>9, WorldFacts DEF Waiting, ServerInv
<1>23. World' = v
  BY <1>4, <1>8 DEF World
<1>. QED
  BY <1>4, <1>6, <1>21, <1>22, <1>23 DEF ServerInv

\* The steps that end with shutdown_client_connection.
LEMMA EndInv ==
    ASSUME Configured, ServerInv, NEW s \in DOMAIN sess, NEW force \in BOOLEAN,
           NEW w, s \in DOMAIN w.sess, Good(w, opened, {s}), w.pending = pending,
           Become(Shutdown(w, s, force))
    PROVE  ServerInv'
<1>1. PICK v : v = Shutdown(w, s, force)
  OBVIOUS
<1>2. opened \in Nat
  BY DEF ServerInv
<1>3. Good(v, opened, {}) /\ v.pending = pending
  BY <1>1, <1>2, ShutdownGood
<1>4. Become(v)
  BY <1>1
<1>5. Waiting(v) /\ opened \in 0..MaxSessions
  BY <1>3, WorldFacts DEF ServerInv, Waiting
<1>6. DOMAIN v = WFields
  BY <1>3 DEF Good, Shape
<1>. QED
  BY <1>3, <1>4, <1>5, <1>6, Became

LEMMA WorldGood ==
    ASSUME ServerInv, NEW s
    PROVE  Good(World, opened, {}) /\ Good(World, opened, {s}) /\ Waiting(World)
           /\ World.pending = pending /\ World.sess = sess /\ opened \in Nat
  BY WorldFacts DEF ServerInv, Good

LEMMA CloseMarkedInv ==
    ASSUME Configured, ServerInv, NEW s, CloseMarked(s) PROVE ServerInv'
<1>1. s \in DOMAIN sess /\ Become(Shutdown(World, s, FALSE))
  BY DEF CloseMarked, Live
<1>. QED
  BY <1>1, WorldGood, EndInv

LEMMA ClientClosedInv ==
    ASSUME Configured, ServerInv, NEW s, ClientClosed(s) PROVE ServerInv'
<1>1. s \in DOMAIN sess /\ Become(Shutdown(World, s, FALSE))
  BY DEF ClientClosed, Live
<1>. QED
  BY <1>1, WorldGood, EndInv

LEMMA WatchdogInv ==
    ASSUME Configured, ServerInv, NEW s, Watchdog(s) PROVE ServerInv'
<1>1. s \in DOMAIN sess /\ Become(Shutdown(World, s, TRUE))
  BY DEF Watchdog, Live
<1>. QED
  BY <1>1, WorldGood, EndInv

LEMMA AllocationTimeoutInv ==
    ASSUME Configured, ServerInv, NEW s, AllocationTimeout(s) PROVE ServerInv'
<1>1. PICK w : w = [World EXCEPT !.sess[s].armed = FALSE]
  OBVIOUS
<1>2. s \in DOMAIN sess /\ Become(Shutdown(w, s, FALSE))
  BY <1>1 DEF AllocationTimeout, Live
<1>3. PICK q : q = sess[s]
  OBVIOUS
<1>4. PICK r : r = [q EXCEPT !.armed = FALSE]
  OBVIOUS
<1>5. DOMAIN World = WFields /\ SessionOK(q, opened) /\ DOMAIN q = SFields
  BY <1>2, <1>3, WorldGood DEF Good, Shape, SessionOK
<1>6. /\ DOMAIN w = WFields /\ w.sess = [World.sess EXCEPT ![s] = r]
      /\ w.mobiles = World.mobiles /\ w.count = World.count /\ w.pending = pending
  BY <1>1, <1>3, <1>4, <1>5, WorldFacts DEF WFields
<1>7. SessionOK(r, opened) /\ \A f \in SFields \ {"armed"} : r[f] = q[f]
  BY <1>4, <1>5 DEF SessionOK, SFields
<1>8. Keeps(r, q)
  BY <1>7 DEF Keeps, SFields
<1>9. Edit(World, w, s, r)
  BY <1>2, <1>5, <1>6, WorldFacts DEF Edit
<1>10. Good(w, opened, {s})
  BY <1>3, <1>6, <1>7, <1>8, <1>9, WorldGood, QuietEdit
<1>11. s \in DOMAIN w.sess
  BY <1>2, <1>6, WorldFacts
<1>. QED
  BY <1>2, <1>6, <1>10, <1>11, EndInv

LEMMA RequestInv ==
    ASSUME Configured, ServerInv, NEW s, NEW m \in Requests, Request(s, m) PROVE ServerInv'
<1>1. /\ s \in DOMAIN sess /\ ~sess[s].closing /\ Cardinality(pending) < MaxPending
      /\ \E w \in HandleCommand(World, s, m, TRUE) : Become(w)
  BY DEF Request, Live, Calm
<1>2. PICK w \in HandleCommand(World, s, m, TRUE) : Become(w)
  BY <1>1
<1>0. PICK canResume \in BOOLEAN : canResume = TRUE
  OBVIOUS
<1>3. RequestOK(m)
  BY RequestsOK
<1>4. s \in DOMAIN World.sess /\ ~World.sess[s].closing
  BY <1>1, WorldFacts
<1>5. /\ Good(w, opened, {})
      /\ \/ w.pending = pending
         \/ w.pending = pending \cup {[session |-> s, request |-> m]}
  <2>1. w \in HandleCommand(World, s, m, canResume)
    BY <1>0
  <2>2. Good(World, opened, {}) /\ opened \in Nat /\ World.pending = pending
    BY WorldGood
  <2>3. /\ Good(w, opened, {})
        /\ \/ w.pending = World.pending
           \/ canResume /\ w.pending = World.pending \cup {[session |-> s, request |-> m]}
    BY <1>3, <1>4, <2>1, <2>2, HandleCommandGood
  <2>. QED
    BY <2>2, <2>3
<1>6. /\ IsFiniteSet(pending) /\ Cardinality(pending) <= MaxPending
      /\ \A p \in pending : p.request \in Requests
  BY WorldFacts DEF ServerInv, Waiting
<1>7. PICK p : p = [session |-> s, request |-> m]
  OBVIOUS
<1>8. Waiting(w)
  <2>1. CASE w.pending = pending
    BY <1>6, <2>1 DEF Waiting
  <2>2. CASE w.pending = pending \cup {p}
    <3>1. /\ IsFiniteSet(pending \cup {p})
          /\ Cardinality(pending \cup {p}) =
                IF p \in pending THEN Cardinality(pending) ELSE Cardinality(pending) + 1
      BY <1>6, FS_AddElement
    <3>2. Cardinality(pending) \in Nat
      BY <1>6, FS_CardinalityType
    <3>3. Cardinality(pending \cup {p}) <= MaxPending
      BY <1>1, <1>6, <3>1, <3>2 DEF Configured
    <3>4. \A x \in pending \cup {p} : x.request \in Requests
      BY <1>6, <1>7
    <3>. QED
      BY <2>2, <3>1, <3>3, <3>4 DEF Waiting
  <2>. QED
    BY <1>5, <1>7, <2>1, <2>2
<1>9. DOMAIN w = WFields /\ opened \in 0..MaxSessions
  BY <1>5 DEF Good, Shape, ServerInv
<1>. QED
  BY <1>2, <1>5, <1>8, <1>9, Became

LEMMA ResumeInv ==
    ASSUME Configured, ServerInv, NEW p \in pending, NEW success \in BOOLEAN,
           Resume(p, success)
    PROVE  ServerInv'
<1>1. PICK w : w = [World EXCEPT !.pending = @ \ {p}]
  OBVIOUS
<1>2. PICK k : k = IF success THEN [w EXCEPT !.sess[p.session].key = TRUE] ELSE w
  OBVIOUS
<1>3. /\ Calm
      /\ IF Live(p.session) /\ sess[p.session].client # NULL
         THEN \E v \in HandleCommand(k, p.session, p.request, FALSE) : Become(v)
         ELSE Become(w)
  BY <1>1, <1>2 DEF Resume
<1>4. /\ DOMAIN w = WFields /\ w.sess = sess /\ w.mobiles = mobiles
      /\ w.count = count /\ w.pending = pending \ {p}
  BY <1>1, WorldFacts DEF WFields
<1>5. Good(w, opened, {})
  <2>1. Good(World, opened, {})
    BY WorldGood
  <2>. QED
    BY <1>4, <2>1, WorldFacts DEF Good, Shape, Balanced, Charged, Ticketed, OneClient
<1>6. opened \in Nat /\ opened \in 0..MaxSessions
  BY DEF ServerInv
<1>7. /\ IsFiniteSet(pending) /\ Cardinality(pending) <= MaxPending
      /\ \A x \in pending : x.request \in Requests
  BY WorldFacts DEF ServerInv, Waiting
<1>8. Waiting(w)
  <2>1. /\ IsFiniteSet(pending \ {p})
        /\ Cardinality(pending \ {p}) =
              IF p \in pending THEN Cardinality(pending) - 1 ELSE Cardinality(pending)
    BY <1>7, FS_RemoveElement
  <2>2. Cardinality(pending) \in Nat
    BY <1>7, FS_CardinalityType
  <2>3. Cardinality(pending \ {p}) <= MaxPending
    BY <1>7, <2>1, <2>2 DEF Configured
  <2>. QED
    BY <1>4, <1>7, <2>1, <2>3 DEF Waiting
<1>9. CASE ~(Live(p.session) /\ sess[p.session].client # NULL)
  BY <1>3, <1>4, <1>5, <1>6, <1>8, <1>9, Became
<1>10. CASE Live(p.session) /\ sess[p.session].client # NULL
  <2>1. PICK s : s = p.session
    OBVIOUS
  <2>2. s \in DOMAIN sess /\ ~sess[s].closing
    BY <1>3, <1>10, <2>1 DEF Live, Calm
  <2>3. /\ Good(k, opened, {}) /\ k.pending = w.pending
        /\ s \in DOMAIN k.sess /\ ~k.sess[s].closing
    <3>1. CASE ~success
      BY <1>2, <1>4, <1>5, <2>2, <3>1
    <3>2. CASE success
      <4>1. PICK q : q = sess[s]
        OBVIOUS
      <4>2. PICK r : r = [q EXCEPT !.key = TRUE]
        OBVIOUS
      <4>3. SessionOK(q, opened) /\ DOMAIN q = SFields /\ Held(q)
        BY <1>4, <1>5, <2>2, <4>1 DEF Good, Shape, SessionOK
      <4>4. /\ DOMAIN k = WFields /\ k.sess = [w.sess EXCEPT ![s] = r]
            /\ k.mobiles = w.mobiles /\ k.count = w.count /\ k.pending = w.pending
        BY <1>2, <1>4, <2>1, <3>2, <4>1, <4>2 DEF WFields
      <4>5. SessionOK(r, opened) /\ \A f \in SFields \ {"key"} : r[f] = q[f]
        BY <4>2, <4>3 DEF SessionOK, SFields
      <4>6. Keeps(r, q) /\ Held(r)
        BY <4>3, <4>5 DEF Keeps, Held, SFields
      <4>7. Edit(w, k, s, r)
        BY <1>4, <2>2, <4>4 DEF Edit
      <4>8. Good(k, opened, {})
        BY <1>4, <1>5, <4>1, <4>4, <4>5, <4>6, <4>7, QuietEdit
      <4>. QED
        BY <1>4, <2>2, <4>1, <4>4, <4>5, <4>8 DEF SFields
    <3>. QED
      BY <3>1, <3>2
  <2>4. PICK m : m = p.request
    OBVIOUS
  <2>5. RequestOK(m)
    BY <1>7, <2>4, RequestsOK
  <2>6. PICK v \in HandleCommand(k, s, m, FALSE) : Become(v)
    BY <1>3, <1>10, <2>1, <2>4
  <2>7. Good(v, opened, {}) /\ v.pending = k.pending
    <3>1. PICK canResume \in BOOLEAN : canResume = FALSE
      OBVIOUS
    <3>2. v \in HandleCommand(k, s, m, canResume)
      BY <2>6, <3>1
    <3>3. /\ Good(v, opened, {})
          /\ \/ v.pending = k.pending
             \/ canResume /\ v.pending = k.pending \cup {[session |-> s, request |-> m]}
      BY <1>6, <2>3, <2>5, <3>2, HandleCommandGood
    <3>. QED
      BY <3>1, <3>3
  <2>8. Waiting(v) /\ DOMAIN v = WFields
    BY <1>8, <2>3, <2>7 DEF Waiting, Good, Shape
  <2>. QED
    BY <1>6, <2>6, <2>7, <2>8, Became
<1>. QED
  BY <1>9, <1>10

LEMMA StepInv == ASSUME Configured, ServerInv, [Next]_vars PROVE ServerInv'
<1>1. CASE Open
  BY <1>1, OpenInv
<1>2. ASSUME NEW s \in Ids, CloseMarked(s) PROVE ServerInv'
  BY <1>2, CloseMarkedInv
<1>3. ASSUME NEW s \in Ids, ClientClosed(s) PROVE ServerInv'
  BY <1>3, ClientClosedInv
<1>4. ASSUME NEW s \in Ids, AllocationTimeout(s) PROVE ServerInv'
  BY <1>4, AllocationTimeoutInv
<1>5. ASSUME NEW s \in Ids, Watchdog(s) PROVE ServerInv'
  BY <1>5, WatchdogInv
<1>6. ASSUME NEW s \in Ids, NEW m \in Requests, Request(s, m) PROVE ServerInv'
  BY <1>6, RequestInv
<1>7. ASSUME NEW p \in pending, NEW success \in BOOLEAN, Resume(p, success) PROVE ServerInv'
  BY <1>7, ResumeInv
<1>8. CASE UNCHANGED vars
  <2>1. UNCHANGED <<sess, mobiles, count, pending, opened>>
    BY <1>8 DEF vars
  <2>2. World' = World
    BY <2>1 DEF World
  <2>. QED
    BY <2>1, <2>2 DEF ServerInv
<1>. QED
  BY <1>1, <1>2, <1>3, <1>4, <1>5, <1>6, <1>7, <1>8 DEF Next, Requests

-----------------------------------------------------------------------------
(* The theorems.                                                           *)

LEMMA Invariant == ASSUME Configured PROVE Spec => []ServerInv
<1>1. Init => ServerInv
  BY InitInv
<1>2. ServerInv /\ [Next]_vars => ServerInv'
  BY StepInv
<1>. QED
  BY <1>1, <1>2, PTL DEF Spec

\* Ids, clients, counters and lookups stay in their ranges: in particular no user
\* is ever charged for more than the quota, or for less than nothing.
THEOREM CountersInRange == ASSUME Configured PROVE Spec => []TypeOK
<1>1. ServerInv => TypeOK
  BY WorldFacts DEF ServerInv, Good, Shape, Waiting, SessionOK, Ticketed, TypeOK, Range
<1>. QED
  BY <1>1, Invariant, PTL

\* inc_quota and dec_quota stay in balance: a user is charged for exactly the
\* sessions that are marked so, however they ended or changed their client.
THEOREM QuotaStaysBalanced == ASSUME Configured PROVE Spec => []QuotaBalanced
<1>1. ServerInv => QuotaBalanced
  BY WorldFacts DEF ServerInv, Good, Balanced, Charged, QuotaBalanced
<1>. QED
  BY <1>1, Invariant, PTL

\* Nobody holds an allocation that is not charged for and does not time out, also
\* after its client was lost and another connection took it over.
THEOREM HeldStaysCharged == ASSUME Configured PROVE Spec => []HeldIsCharged
<1>1. ServerInv => HeldIsCharged
  BY WorldFacts DEF ServerInv, Good, Held, HeldIsCharged
<1>. QED
  BY <1>1, Invariant, PTL

\* mobile_connections_map leads to the session with the ticket and to no other,
\* and a socket is the client of one session that is not about to close.
THEOREM TicketsStayRight == ASSUME Configured PROVE Spec => []TicketsAgree
<1>1. ServerInv => TicketsAgree
  BY WorldFacts DEF ServerInv, Good, Ticketed, OneClient, TicketsAgree
<1>. QED
  BY <1>1, Invariant, PTL

\* check_stun_auth: nothing is done to an allocation but what its user signed,
\* through a lookup of the key and through the connection of another session too.
THEOREM OnlyItsUser == ASSUME Configured PROVE Spec => []AskedByItsUser
<1>1. ServerInv => AskedByItsUser
  BY WorldFacts DEF ServerInv, Good, Shape, SessionOK, AskedByItsUser
<1>. QED
  BY <1>1, Invariant, PTL

-----------------------------------------------------------------------------
\* A set of numbers with 0 and with the successor of each member is Nat.
LEMMA NatSet ==
    ASSUME NEW S \in SUBSET Nat, 0 \in S, \A n \in S : n + 1 \in S
    PROVE  S = Nat
<1> DEFINE Below == {0..n : n \in Nat \ S}
<1>1. SUFFICES ASSUME Below # {} PROVE FALSE
  OBVIOUS
<1>2. Below \subseteq FiniteSubsetsOf(Nat)
  <2>1. \A n \in Nat : IsFiniteSet(0..n) /\ 0..n \in SUBSET Nat
    BY FS_Interval
  <2> QED
    BY <2>1 DEF FiniteSubsetsOf
<1>3. IsWellFoundedOn(StrictSubsetOrdering(Nat), FiniteSubsetsOf(Nat))
  BY FS_StrictSubsetOrderingWellFounded, Zenon
<1>4. PICK b \in Below : \A c \in Below : <<c, b>> \notin StrictSubsetOrdering(Nat)
  BY <1>1, <1>2, <1>3, WFMin, Zenon
<1>5. PICK n \in Nat \ S : b = 0..n
  OBVIOUS
<1>6. n # 0 /\ n - 1 \in Nat /\ n - 1 \notin S
  OBVIOUS
<1>7. 0 .. n - 1 \in Below
  BY <1>6
<1>8. <<0 .. n - 1, 0..n>> \in StrictSubsetOrdering(Nat)
  <2>1. n \in 0..n /\ n \notin 0 .. n - 1 /\ 0 .. n - 1 \subseteq 0..n
    OBVIOUS
  <2>2. 0..n \in SUBSET Nat /\ 0 .. n - 1 \in SUBSET Nat
    OBVIOUS
  <2> QED
    BY <2>1, <2>2, Zenon DEF StrictSubsetOrdering
<1> QED
  BY <1>4, <1>5, <1>7, <1>8

\* A set of numbers has a least one.
LEMMA MinIn ==
    ASSUME NEW S \in SUBSET Nat, S # {}
    PROVE  Min(S) \in S /\ \A m \in S : Min(S) <= m
<1> DEFINE N == {i \in Nat : \A j \in 0..i : j \in S => \E x \in S : \A y \in S : x <= y}
<1>1. 0 \in N
  BY SMT
<1>2. ASSUME NEW i \in N
      PROVE  i + 1 \in N
  <2> SUFFICES ASSUME NEW j \in 0 .. i + 1, j \in S
               PROVE  \E x \in S : \A y \in S : x <= y
    BY <1>2
  <2>1. CASE \E k \in 0..i : k \in S
    BY <1>2, <2>1
  <2>2. CASE \A k \in 0..i : k \notin S
    <3>1. j = i + 1 /\ \A y \in S : j <= y
      BY <1>2, <2>2
    <3> QED
      BY <3>1
  <2> QED
    BY <2>1, <2>2
<1>3. N = Nat
  <2> HIDE DEF N
  <2>1. N \in SUBSET Nat
    BY DEF N
  <2> QED
    BY <1>1, <1>2, <2>1, NatSet
<1>4. \E x \in S : \A y \in S : x <= y
  <2>1. PICK j \in S : TRUE
    OBVIOUS
  <2>2. j \in Nat /\ j \in 0..j
    BY <2>1
  <2>3. j \in N
    <3> HIDE DEF N
    <3> QED
      BY <1>3, <2>2
  <2> QED
    BY <2>1, <2>2, <2>3, Zenon
<1> QED
  BY <1>4 DEF Min

-----------------------------------------------------------------------------
(***************************************************************************)
(* The hash tables of an allocation, of any size and hash function.        *)
(***************************************************************************)

\* No port or number is negative, and addr_hash_no_port, taken modulo the size
\* of a table, is a bucket.
TablesConfigured ==
    /\ HashSize \in Nat \ {0} /\ ArraySize \in Nat
    /\ HashOf \in [Addrs -> Buckets]
    /\ Ports \subseteq Nat /\ Numbers \subseteq Nat

Positions == Buckets \X (Nat \ {0})
TablesOf(S) == {t \in [Buckets -> Seq(S \cup {Free})] : \A b \in Buckets : Len(t[b]) >= ArraySize}

InUse(t, b, i) == b \in Buckets /\ i \in DOMAIN t[b] /\ t[b][i] # Free

LEMMA PlacesAre ==
    ASSUME NEW t, NEW b, NEW i
    PROVE  <<b, i>> \in Places(t) <=> b \in Buckets /\ i \in DOMAIN t[b]
<1>1. ASSUME <<b, i>> \in Places(t) PROVE b \in Buckets /\ i \in DOMAIN t[b]
  <2>1. PICK c \in Buckets : <<b, i>> \in {<<c, j>> : j \in DOMAIN t[c]}
    BY <1>1 DEF Places
  <2>2. PICK j \in DOMAIN t[c] : <<b, i>> = <<c, j>>
    BY <2>1
  <2>3. b = c /\ i = j
    BY <2>2
  <2>. QED BY <2>2, <2>3
<1>2. ASSUME b \in Buckets, i \in DOMAIN t[b] PROVE <<b, i>> \in Places(t)
  <2>1. <<b, i>> \in {<<b, j>> : j \in DOMAIN t[b]}
    BY <1>2
  <2>. QED BY <1>2, <2>1 DEF Places
<1>. QED BY <1>1, <1>2

LEMMA PlacePair ==
    ASSUME NEW t, NEW p \in Places(t)
    PROVE  \E b \in Buckets : \E i \in DOMAIN t[b] : p = <<b, i>>
BY DEF Places

LEMMA UsedAre ==
    ASSUME NEW t, NEW b, NEW i
    PROVE  /\ <<b, i>> \in Used(t) <=> InUse(t, b, i)
           /\ Slot(t, <<b, i>>) = t[b][i]
<1>1. Slot(t, <<b, i>>) = t[b][i]
  BY DEF Slot
<1>2. <<b, i>> \in Used(t) <=> <<b, i>> \in Places(t) /\ Slot(t, <<b, i>>) # Free
  BY DEF Used
<1>. QED BY <1>1, <1>2, PlacesAre DEF InUse

LEMMA UsedPair ==
    ASSUME NEW t, NEW p \in Used(t)
    PROVE  \E b, i : p = <<b, i>> /\ InUse(t, b, i)
<1>1. p \in Places(t)
  BY DEF Used
<1>2. PICK b, i : p = <<b, i>>
  BY <1>1, PlacePair
<1>. QED BY <1>2, UsedAre

\* A table has the fields of its slots.
LEMMA TableFacts ==
    ASSUME NEW S, NEW t \in TablesOf(S), NEW b \in Buckets
    PROVE  /\ t \in [Buckets -> Seq(S \cup {Free})] /\ t[b] \in Seq(S \cup {Free})
           /\ Len(t[b]) \in Nat /\ DOMAIN t[b] = 1..Len(t[b]) /\ Len(t[b]) >= ArraySize
           /\ \A i \in 1..Len(t[b]) : t[b][i] \in S \cup {Free}
BY DEF TablesOf

LEMMA UsedEntry ==
    ASSUME NEW S, NEW t \in TablesOf(S), NEW p \in Used(t)
    PROVE  Slot(t, p) \in S /\ p \in Positions /\ p \in Places(t)
<1>1. PICK b, i : p = <<b, i>> /\ InUse(t, b, i)
  BY UsedPair
<1>2. b \in Buckets /\ i \in 1..Len(t[b]) /\ Len(t[b]) \in Nat /\ t[b][i] # Free /\ t[b][i] \in S \cup {Free}
  BY <1>1, TableFacts DEF InUse
<1>3. Slot(t, p) = t[b][i]
  BY <1>1 DEF Slot
<1>. QED BY <1>1, <1>2, <1>3 DEF Positions, Used

LEMMA FirstSlotFree ==
    ASSUME NEW S, NEW t \in TablesOf(S), NEW b \in Buckets
    PROVE  \/ FirstSlot(t, b, IsFree) = None
           \/ \E i \in 1..Len(t[b]) : FirstSlot(t, b, IsFree) = <<b, i>> /\ t[b][i] = Free
<1> DEFINE I == {i \in 1..Len(t[b]) : IsFree(t[b][i])}
           n == SelectInSeq(t[b], IsFree)
<1>1. FirstSlot(t, b, IsFree) = IF n = 0 THEN None ELSE <<b, n>>
  BY DEF FirstSlot
<1>2. n = IF I # {} THEN Min(I) ELSE 0
  BY DEF SelectInSeq
<1>3. I \in SUBSET Nat
  BY TableFacts
<1>4. CASE I = {}
  BY <1>1, <1>2, <1>4
<1>5. CASE I # {}
  <2>1. Min(I) \in I
    <3> HIDE DEF I
    <3>. QED BY <1>3, <1>5, MinIn
  <2>2. n \in I /\ n # 0
    BY <1>2, <1>5, <2>1, TableFacts
  <2>. QED BY <1>1, <2>2 DEF IsFree
<1>. QED BY <1>4, <1>5

LEMMA NewSlotFacts ==
    ASSUME NEW S, NEW t \in TablesOf(S), NEW b \in Buckets
    PROVE  \E i \in 1 .. Len(t[b]) + 1 :
              /\ NewSlot(t, b) = <<b, i>>
              /\ i <= Len(t[b]) => t[b][i] = Free
<1>1. Len(t[b]) \in Nat
  BY TableFacts
<1>2. CASE FirstSlot(t, b, IsFree) = None
  <2>1. NewSlot(t, b) = <<b, Len(t[b]) + 1>>
    BY <1>2 DEF NewSlot
  <2>. QED BY <1>1, <2>1
<1>3. CASE FirstSlot(t, b, IsFree) # None
  <2>1. PICK i \in 1..Len(t[b]) : FirstSlot(t, b, IsFree) = <<b, i>> /\ t[b][i] = Free
    BY <1>3, FirstSlotFree
  <2>2. NewSlot(t, b) = <<b, i>>
    BY <1>3, <2>1 DEF NewSlot
  <2>3. i \in 1 .. Len(t[b]) + 1
    BY <1>1
  <2>. QED BY <2>1, <2>2, <2>3
<1>. QED BY <1>2, <1>3

\* u is t with the entry e at a place that was free.
Adds(t, u, at, e) ==
    /\ at \notin Used(t) /\ Used(u) = Used(t) \cup {at} /\ Slot(u, at) = e
    /\ \A p \in Used(t) : Slot(u, p) = Slot(t, p)
    /\ Places(t) \subseteq Places(u)
\* u is t with the entry e at a place that had another.
Sets(t, u, at, e) ==
    /\ at \in Used(t) /\ Used(u) = Used(t) /\ Slot(u, at) = e
    /\ \A p \in Used(t) : p # at => Slot(u, p) = Slot(t, p)
    /\ Places(t) \subseteq Places(u)
\* u is t without what is at the places of X.
Frees(t, u, X) ==
    /\ Used(u) = Used(t) \ X
    /\ \A p \in Used(u) : Slot(u, p) = Slot(t, p)
    /\ Places(t) \subseteq Places(u)

\* The buckets after a slot was written.
Wrote(S, t, u, b, i, e) ==
    /\ u \in TablesOf(S)
    /\ \A c \in Buckets : /\ DOMAIN t[c] \subseteq DOMAIN u[c]
                          /\ \A j : j \in DOMAIN u[c] <=> j \in DOMAIN t[c] \/ (c = b /\ j = i)
                          /\ \A j \in DOMAIN t[c] : c # b \/ j # i => u[c][j] = t[c][j]
    /\ u[b][i] = e

LEMMA StoredBuckets ==
    ASSUME NEW S, NEW t \in TablesOf(S), NEW b \in Buckets, NEW i \in 1 .. Len(t[b]) + 1,
           NEW e \in S \cup {Free}, TablesConfigured
    PROVE  Wrote(S, t, Stored(t, <<b, i>>, e), b, i, e)
<1> DEFINE u == Stored(t, <<b, i>>, e)
<1>1. PICK s : s = t[b]
  OBVIOUS
<1>2. /\ s \in Seq(S \cup {Free}) /\ Len(s) \in Nat /\ DOMAIN s = 1..Len(s) /\ Len(s) >= ArraySize
  BY <1>1, TableFacts
<1>3. PICK r : r = IF i <= Len(s) THEN [s EXCEPT ![i] = e] ELSE Append(s, e)
  OBVIOUS
<1>4. /\ r \in Seq(S \cup {Free}) /\ Len(r) \in Nat /\ Len(r) >= Len(s) /\ r[i] = e
      /\ DOMAIN r = 1..Len(r) /\ \A j : j \in DOMAIN r <=> j \in DOMAIN s \/ j = i
      /\ \A j \in DOMAIN s : j # i => r[j] = s[j]
  <2>1. CASE i <= Len(s)
    BY <1>1, <1>2, <1>3, <2>1
  <2>2. CASE ~(i <= Len(s))
    <3>1. i = Len(s) + 1
      BY <1>1, <1>2, <2>2
    <3>2. r = Append(s, e)
      BY <1>3, <2>2
    <3>. QED BY <1>2, <3>1, <3>2
  <2>. QED BY <2>1, <2>2
<1>5. t \in [Buckets -> Seq(S \cup {Free})]
  BY TableFacts
<1>6. u = [t EXCEPT ![b] = r]
  BY <1>1, <1>3, <1>5 DEF Stored
<1>7. u[b] = r /\ \A c \in Buckets : c # b => u[c] = t[c]
  BY <1>5, <1>6
<1>8. u \in TablesOf(S)
  <2>1. u \in [Buckets -> Seq(S \cup {Free})]
    BY <1>4, <1>5, <1>6
  <2>2. \A c \in Buckets : Len(u[c]) >= ArraySize
    <3>1. TAKE c \in Buckets
    <3>2. CASE c = b
      <4>1. ArraySize <= Len(s) /\ Len(s) <= Len(r) /\ ArraySize \in Nat
        BY <1>2, <1>4 DEF TablesConfigured
      <4>2. Len(r) >= ArraySize
        BY <1>2, <1>4, <4>1
      <4>. QED BY <1>7, <3>2, <4>2
    <3>3. CASE c # b
      BY <1>7, <3>3, TableFacts
    <3>. QED BY <3>2, <3>3
  <2>. QED BY <2>1, <2>2 DEF TablesOf
<1>9. \A c \in Buckets :
          /\ DOMAIN t[c] \subseteq DOMAIN u[c]
          /\ \A j : j \in DOMAIN u[c] <=> j \in DOMAIN t[c] \/ (c = b /\ j = i)
          /\ \A j \in DOMAIN t[c] : c # b \/ j # i => u[c][j] = t[c][j]
  BY <1>1, <1>4, <1>7
<1>. QED BY <1>4, <1>7, <1>8, <1>9 DEF Wrote

\* What is used after a slot was written.
LEMMA StoredPlaces ==
    ASSUME NEW S, NEW t \in TablesOf(S), NEW b \in Buckets, NEW i \in 1 .. Len(t[b]) + 1,
           NEW e \in S \cup {Free}, TablesConfigured, NEW u, u = Stored(t, <<b, i>>, e)
    PROVE  /\ u \in TablesOf(S) /\ Places(t) \subseteq Places(u) /\ Slot(u, <<b, i>>) = e
           /\ \A p : p # <<b, i>> => (p \in Used(u) <=> p \in Used(t))
           /\ <<b, i>> \in Used(u) <=> e # Free
           /\ \A p \in Used(t) : p # <<b, i>> => Slot(u, p) = Slot(t, p)
<1>1. /\ u \in TablesOf(S)
      /\ \A c \in Buckets : /\ DOMAIN t[c] \subseteq DOMAIN u[c]
                            /\ \A j : j \in DOMAIN u[c] <=> j \in DOMAIN t[c] \/ (c = b /\ j = i)
                            /\ \A j \in DOMAIN t[c] : c # b \/ j # i => u[c][j] = t[c][j]
      /\ u[b][i] = e
  <2>1. Wrote(S, t, u, b, i, e)
    BY StoredBuckets
  <2>. QED BY <2>1 DEF Wrote
<1>2. Places(t) \subseteq Places(u)
  <2>1. ASSUME NEW p \in Places(t) PROVE p \in Places(u)
    <3>1. PICK c \in Buckets : \E j \in DOMAIN t[c] : p = <<c, j>>
      BY PlacePair
    <3>2. PICK j \in DOMAIN t[c] : p = <<c, j>>
      BY <3>1
    <3>. QED BY <1>1, <3>2, PlacesAre
  <2>. QED BY <2>1
<1>3. Slot(u, <<b, i>>) = e
  BY <1>1 DEF Slot
<1>4. <<b, i>> \in Used(u) <=> e # Free
  <2>1. i \in DOMAIN u[b]
    BY <1>1
  <2>. QED BY <1>1, <2>1, UsedAre DEF InUse
<1>5. ASSUME NEW c, NEW j, <<c, j>> # <<b, i>>
      PROVE  /\ <<c, j>> \in Used(u) <=> <<c, j>> \in Used(t)
             /\ <<c, j>> \in Used(t) => Slot(u, <<c, j>>) = Slot(t, <<c, j>>)
  <2>1. c # b \/ j # i
    BY <1>5
  <2>2. InUse(u, c, j) <=> InUse(t, c, j)
    BY <1>1, <2>1 DEF InUse
  <2>3. InUse(t, c, j) => u[c][j] = t[c][j]
    BY <1>1, <2>1 DEF InUse
  <2>. QED BY <2>2, <2>3, UsedAre
<1>6. ASSUME NEW p, p # <<b, i>>
      PROVE  /\ p \in Used(u) <=> p \in Used(t)
             /\ p \in Used(t) => Slot(u, p) = Slot(t, p)
  <2>1. CASE \E c, j : p = <<c, j>>
    BY <1>5, <1>6, <2>1
  <2>2. CASE ~\E c, j : p = <<c, j>>
    BY <2>2, UsedPair
  <2>. QED BY <2>1, <2>2
<1>. QED BY <1>1, <1>2, <1>3, <1>4, <1>6

LEMMA StoredNew ==
    ASSUME NEW S, NEW t \in TablesOf(S), NEW b \in Buckets, NEW e \in S, e # Free,
           TablesConfigured, NEW at, at = NewSlot(t, b)
    PROVE  /\ Adds(t, Stored(t, at, e), at, e) /\ Stored(t, at, e) \in TablesOf(S)
           /\ at \in Positions /\ at[1] = b
           /\ at \in Places(Stored(t, at, e))
<1>1. PICK i \in 1 .. Len(t[b]) + 1 : at = <<b, i>> /\ (i <= Len(t[b]) => t[b][i] = Free)
  BY NewSlotFacts
<1>2. PICK u : u = Stored(t, at, e)
  OBVIOUS
<1>3. /\ u \in TablesOf(S) /\ Places(t) \subseteq Places(u) /\ Slot(u, at) = e
      /\ \A p : p # at => (p \in Used(u) <=> p \in Used(t))
      /\ at \in Used(u)
      /\ \A p \in Used(t) : p # at => Slot(u, p) = Slot(t, p)
  <2>1. e \in S \cup {Free} /\ u = Stored(t, <<b, i>>, e)
    BY <1>1, <1>2
  <2>. QED BY <1>1, <2>1, StoredPlaces
<1>4. at \notin Used(t)
  <2>1. Len(t[b]) \in Nat /\ DOMAIN t[b] = 1..Len(t[b])
    BY TableFacts
  <2>2. ~InUse(t, b, i)
    BY <1>1, <2>1 DEF InUse
  <2>. QED BY <1>1, <2>2, UsedAre
<1>5. Used(u) = Used(t) \cup {at}
  BY <1>3, <1>4
<1>6. at \in Positions /\ at[1] = b
  <2>1. i \in Nat \ {0}
    BY TableFacts
  <2>. QED BY <1>1, <2>1 DEF Positions
<1>7. at \in Places(u)
  BY <1>3, UsedEntry
<1>. QED BY <1>2, <1>3, <1>4, <1>5, <1>6, <1>7 DEF Adds

LEMMA StoredOver ==
    ASSUME NEW S, NEW t \in TablesOf(S), NEW at \in Used(t), NEW e \in S, e # Free, TablesConfigured
    PROVE  Sets(t, Stored(t, at, e), at, e) /\ Stored(t, at, e) \in TablesOf(S)
<1>1. PICK b, i : at = <<b, i>> /\ InUse(t, b, i)
  BY UsedPair
<1>2. PICK u : u = Stored(t, at, e)
  OBVIOUS
<1>3. b \in Buckets /\ i \in 1 .. Len(t[b]) + 1
  <2>1. b \in Buckets /\ i \in DOMAIN t[b]
    BY <1>1 DEF InUse
  <2>2. Len(t[b]) \in Nat /\ DOMAIN t[b] = 1..Len(t[b])
    BY <2>1, TableFacts
  <2>. QED BY <2>1, <2>2
<1>4. /\ u \in TablesOf(S) /\ Places(t) \subseteq Places(u) /\ Slot(u, at) = e
      /\ \A p : p # at => (p \in Used(u) <=> p \in Used(t))
      /\ at \in Used(u)
      /\ \A p \in Used(t) : p # at => Slot(u, p) = Slot(t, p)
  <2>1. e \in S \cup {Free} /\ u = Stored(t, <<b, i>>, e)
    BY <1>1, <1>2
  <2>. QED BY <1>1, <1>3, <2>1, StoredPlaces
<1>5. Used(u) = Used(t)
  <2>1. \A p : p \in Used(u) <=> p \in Used(t)
    BY <1>4
  <2>. QED BY <2>1, Zenon
<1>. QED BY <1>2, <1>4, <1>5 DEF Sets

LEMMA StoredFree ==
    ASSUME NEW S, NEW t \in TablesOf(S), NEW at \in Used(t), TablesConfigured
    PROVE  Frees(t, Stored(t, at, Free), {at}) /\ Stored(t, at, Free) \in TablesOf(S)
<1>1. PICK b, i : at = <<b, i>> /\ InUse(t, b, i)
  BY UsedPair
<1>2. PICK u : u = Stored(t, at, Free)
  OBVIOUS
<1>3. b \in Buckets /\ i \in 1 .. Len(t[b]) + 1
  <2>1. b \in Buckets /\ i \in DOMAIN t[b]
    BY <1>1 DEF InUse
  <2>2. Len(t[b]) \in Nat /\ DOMAIN t[b] = 1..Len(t[b])
    BY <2>1, TableFacts
  <2>. QED BY <2>1, <2>2
<1>4. /\ u \in TablesOf(S) /\ Places(t) \subseteq Places(u)
      /\ \A p : p # at => (p \in Used(u) <=> p \in Used(t))
      /\ at \notin Used(u)
      /\ \A p \in Used(t) : p # at => Slot(u, p) = Slot(t, p)
  <2>1. Free \in S \cup {Free} /\ u = Stored(t, <<b, i>>, Free)
    BY <1>1, <1>2
  <2>. QED BY <1>1, <1>3, <2>1, StoredPlaces
<1>5. Used(u) = Used(t) \ {at}
  <2>1. \A p : p \in Used(u) <=> p \in Used(t) /\ p # at
    BY <1>4
  <2>. QED BY <2>1, Zenon
<1>. QED BY <1>2, <1>4, <1>5 DEF Frees

\* Emptied slots, wherever they are.
LEMMA CleanedFacts ==
    ASSUME NEW S, NEW t \in TablesOf(S), NEW X
    PROVE  Frees(t, Cleaned(t, X), X) /\ Cleaned(t, X) \in TablesOf(S)
<1>1. PICK u : u = Cleaned(t, X)
  OBVIOUS
<1>2. \A b \in Buckets : u[b] = [i \in 1..Len(t[b]) |-> IF <<b, i>> \in X THEN Free ELSE t[b][i]]
  <2>1. \A b \in Buckets : DOMAIN t[b] = 1..Len(t[b])
    BY TableFacts
  <2>2. u = [b \in Buckets |-> [i \in DOMAIN t[b] |-> IF <<b, i>> \in X THEN Free ELSE t[b][i]]]
    BY <1>1 DEF Cleaned
  <2>. QED BY <2>1, <2>2
<1>3. ASSUME NEW b \in Buckets
      PROVE  /\ u[b] \in Seq(S \cup {Free}) /\ DOMAIN u[b] = DOMAIN t[b] /\ Len(u[b]) = Len(t[b])
             /\ \A i \in DOMAIN t[b] : u[b][i] = IF <<b, i>> \in X THEN Free ELSE t[b][i]
  <2>1. /\ Len(t[b]) \in Nat /\ DOMAIN t[b] = 1..Len(t[b])
        /\ \A i \in 1..Len(t[b]) : t[b][i] \in S \cup {Free}
    BY TableFacts
  <2>2. PICK l \in Nat : l = Len(t[b])
    BY <2>1
  <2>3. u[b] = [i \in 1..l |-> IF <<b, i>> \in X THEN Free ELSE t[b][i]]
    BY <1>2, <2>2
  <2>4. \A i \in 1..l : (IF <<b, i>> \in X THEN Free ELSE t[b][i]) \in S \cup {Free}
    BY <2>1, <2>2
  <2>5. u[b] \in [1..l -> S \cup {Free}]
    BY <2>3, <2>4
  <2>6. u[b] \in Seq(S \cup {Free}) /\ Len(u[b]) = l
    BY <2>5
  <2>. QED BY <2>1, <2>2, <2>3, <2>6
<1>4. u \in TablesOf(S)
  <2>1. DOMAIN u = Buckets /\ u = [b \in Buckets |-> u[b]]
    BY <1>1 DEF Cleaned
  <2>2. u \in [Buckets -> Seq(S \cup {Free})]
    BY <1>3, <2>1
  <2>3. \A b \in Buckets : Len(u[b]) >= ArraySize
    BY <1>3, TableFacts
  <2>. QED BY <2>2, <2>3 DEF TablesOf
<1>5. ASSUME NEW b, NEW i
      PROVE  /\ <<b, i>> \in Used(u) <=> <<b, i>> \in Used(t) /\ <<b, i>> \notin X
             /\ <<b, i>> \in Used(u) => Slot(u, <<b, i>>) = Slot(t, <<b, i>>)
             /\ <<b, i>> \in Places(t) => <<b, i>> \in Places(u)
  <2>1. InUse(u, b, i) <=> InUse(t, b, i) /\ <<b, i>> \notin X
    BY <1>3 DEF InUse
  <2>2. InUse(u, b, i) => u[b][i] = t[b][i]
    BY <1>3 DEF InUse
  <2>3. <<b, i>> \in Places(t) => <<b, i>> \in Places(u)
    BY <1>3, PlacesAre
  <2>. QED BY <2>1, <2>2, <2>3, UsedAre
<1>6. ASSUME NEW p
      PROVE  /\ p \in Used(u) <=> p \in Used(t) /\ p \notin X
             /\ p \in Used(u) => Slot(u, p) = Slot(t, p)
             /\ p \in Places(t) => p \in Places(u)
  <2>1. CASE \E b, i : p = <<b, i>>
    BY <1>5, <2>1
  <2>2. CASE ~\E b, i : p = <<b, i>>
    BY <2>2, UsedPair, PlacePair
  <2>. QED BY <2>1, <2>2
<1>7. Used(u) = Used(t) \ X
  BY <1>6
<1>. QED BY <1>1, <1>4, <1>6, <1>7 DEF Frees

LEMMA NewTableFacts ==
    ASSUME NEW S, TablesConfigured
    PROVE  NewTable \in TablesOf(S) /\ Used(NewTable) = {}
<1>1. ArraySize \in Nat
  BY DEF TablesConfigured
<1>2. ASSUME NEW b \in Buckets
      PROVE  /\ NewTable[b] \in Seq(S \cup {Free}) /\ Len(NewTable[b]) = ArraySize
             /\ \A i \in DOMAIN NewTable[b] : NewTable[b][i] = Free
  <2>1. NewTable[b] = [i \in 1..ArraySize |-> Free]
    BY DEF NewTable
  <2>2. NewTable[b] \in [1..ArraySize -> S \cup {Free}]
    BY <2>1
  <2>. QED BY <1>1, <2>1, <2>2
<1>3. NewTable \in TablesOf(S)
  <2>1. NewTable \in [Buckets -> Seq(S \cup {Free})]
    <3>1. DOMAIN NewTable = Buckets /\ NewTable = [b \in Buckets |-> NewTable[b]]
      BY DEF NewTable
    <3>. QED BY <1>2, <3>1
  <2>. QED BY <1>1, <1>2, <2>1 DEF TablesOf
<1>4. \A b, i : ~InUse(NewTable, b, i)
  BY <1>2 DEF InUse
<1>. QED BY <1>3, <1>4, UsedPair

\* The first of some slots of a bucket.
FirstIn(I, b) ==
    LET n == IF I # {} THEN Min(I) ELSE 0 IN IF n = 0 THEN None ELSE <<b, n>>

LEMMA FirstOf ==
    ASSUME NEW I \in SUBSET (Nat \ {0}), NEW b
    PROVE  \/ I = {} /\ FirstIn(I, b) = None
           \/ FirstIn(I, b) # None /\ \E i \in I : FirstIn(I, b) = <<b, i>>
<1>1. PICK n : n = IF I # {} THEN Min(I) ELSE 0
  OBVIOUS
<1>2. PICK f : f = IF n = 0 THEN None ELSE <<b, n>>
  OBVIOUS
<1>3. FirstIn(I, b) = f
  BY <1>1, <1>2 DEF FirstIn
<1>4. CASE I = {}
  BY <1>1, <1>2, <1>3, <1>4
<1>5. CASE I # {}
  <2>1. I \in SUBSET Nat
    OBVIOUS
  <2>2. Min(I) \in I
    BY <1>5, <2>1, MinIn
  <2>3. n \in I /\ n # 0
    BY <1>1, <1>5, <2>2
  <2>4. f = <<b, n>>
    BY <1>2, <2>3
  <2>5. f # None
    BY <2>4 DEF None
  <2>. QED BY <1>3, <2>3, <2>4, <2>5
<1>. QED BY <1>4, <1>5

-----------------------------------------------------------------------------
\* A permission's channels by port: a port is in its bucket, and once.
Entries == [port : Nat, chn : Positions]
MapKeyed(m) ==
    /\ \A q \in Used(m) : Slot(m, q).port # 0 /\ q[1] = Slot(m, q).port % HashSize
    /\ \A q, r \in Used(m) : Slot(m, q).port = Slot(m, r).port => q = r
MapOK(m) == m \in TablesOf(Entries) /\ MapKeyed(m)
Lists(m, q, port) == q \in Used(m) /\ Slot(m, q).port = port

LEMMA BucketOf ==
    ASSUME NEW n \in Nat, TablesConfigured
    PROVE  n % HashSize \in Buckets
<1>1. HashSize \in Nat /\ HashSize > 0
  BY DEF TablesConfigured
<1>2. n % HashSize \in 0..HashSize - 1
  BY <1>1
<1>. QED BY <1>2 DEF Buckets

LEMMA NotFree ==
    ASSUME NEW e
    PROVE  /\ e \in Entries => e # Free
           /\ e \in [addr : Addrs, chns : TablesOf(Entries)] => e # Free
           /\ e \in [num : Numbers, addr : Addrs, port : Ports, owner : Positions] => e # Free
<1>1. DOMAIN Free = {"free"}
  BY DEF Free
<1>2. e \in Entries => "port" \in DOMAIN e
  BY DEF Entries
<1>3. e \in [addr : Addrs, chns : TablesOf(Entries)] => "addr" \in DOMAIN e
  OBVIOUS
<1>4. e \in [num : Numbers, addr : Addrs, port : Ports, owner : Positions] => "addr" \in DOMAIN e
  OBVIOUS
<1>. QED BY <1>1, <1>2, <1>3, <1>4

\* The search for a port finds its entry.
LEMMA SearchPort ==
    ASSUME NEW m, MapOK(m), NEW port \in Nat, TablesConfigured,
           NEW at, at = FirstSlot(m, port % HashSize, LAMBDA e : IsPort(e, port))
    PROVE  \/ at = None /\ \A q : ~Lists(m, q, port)
           \/ at # None /\ Lists(m, at, port)
<1>1. m \in TablesOf(Entries) /\ MapKeyed(m)
  BY DEF MapOK
<1>2. PICK b \in Buckets : b = port % HashSize
  BY BucketOf
<1>3. PICK I : I = {i \in 1..Len(m[b]) : IsPort(m[b][i], port)}
  OBVIOUS
<1>4. at = FirstIn(I, b)
  BY <1>2, <1>3 DEF FirstSlot, SelectInSeq, FirstIn
<1>5. \/ I = {} /\ at = None
      \/ at # None /\ \E i \in I : at = <<b, i>>
  <2>1. I \in SUBSET (Nat \ {0})
    BY <1>3
  <2>. QED BY <1>4, <2>1, FirstOf
<1>6. DOMAIN m[b] = 1..Len(m[b])
  BY <1>1, TableFacts
<1>7. ASSUME NEW q, Lists(m, q, port) PROVE I # {}
  <2>1. PICK c, i : q = <<c, i>> /\ InUse(m, c, i)
    BY <1>7, UsedPair DEF Lists
  <2>2. Slot(m, q).port = port /\ q[1] = port % HashSize /\ Slot(m, q) = m[c][i]
    BY <1>1, <1>7, <2>1, UsedAre DEF Lists, MapKeyed
  <2>3. c = b /\ i \in 1..Len(m[b]) /\ m[b][i] # Free
    <3>1. q[1] = c
      BY <2>1
    <3>2. c = b
      BY <1>2, <2>2, <3>1
    <3>. QED BY <1>6, <2>1, <3>2 DEF InUse
  <2>4. i \in I
    BY <1>3, <2>2, <2>3 DEF IsPort
  <2>. QED BY <2>4
<1>8. ASSUME NEW i \in I, at = <<b, i>> PROVE Lists(m, at, port)
  <2>1. i \in DOMAIN m[b] /\ m[b][i] # Free /\ m[b][i].port = port
    BY <1>3, <1>6, <1>8 DEF IsPort
  <2>. QED BY <1>8, <2>1, UsedAre DEF Lists, InUse
<1>. QED BY <1>5, <1>7, <1>8

LEMMA GetFacts ==
    ASSUME NEW m, MapOK(m), NEW port \in Nat \ {0}, TablesConfigured
    PROVE  \/ LmGet(m, port) = None /\ \A q : ~Lists(m, q, port)
           \/ /\ LmGet(m, port) # None
              /\ \E q : Lists(m, q, port) /\ LmGet(m, port) = Slot(m, q).chn
<1>1. PICK at : at = FirstSlot(m, port % HashSize, LAMBDA e : IsPort(e, port))
  OBVIOUS
<1>2. LmGet(m, port) = IF at = None THEN None ELSE Slot(m, at).chn
  BY <1>1 DEF LmGet
<1>3. \/ at = None /\ \A q : ~Lists(m, q, port)
      \/ at # None /\ Lists(m, at, port)
  BY <1>1, SearchPort
<1>4. ASSUME Lists(m, at, port) PROVE Slot(m, at).chn # None
  <2>1. Slot(m, at) \in Entries
    BY <1>4, UsedEntry DEF Lists, MapOK
  <2>2. Slot(m, at).chn \in Positions
    BY <2>1 DEF Entries
  <2>. QED BY <2>2 DEF Positions, None
<1>. QED BY <1>2, <1>3, <1>4

LEMMA AddsKeyed ==
    ASSUME NEW m, MapKeyed(m), NEW u, NEW q, NEW e, Adds(m, u, q, e),
           e.port # 0, q[1] = e.port % HashSize, \A r : ~Lists(m, r, e.port)
    PROVE  MapKeyed(u)
<1>1. /\ Used(u) = Used(m) \cup {q} /\ Slot(u, q) = e
      /\ \A p \in Used(m) : Slot(u, p) = Slot(m, p)
  BY DEF Adds
<1>2. \A p \in Used(u) : Slot(u, p).port # 0 /\ p[1] = Slot(u, p).port % HashSize
  BY <1>1 DEF MapKeyed
<1>3. ASSUME NEW p \in Used(u), NEW r \in Used(u), Slot(u, p).port = Slot(u, r).port
      PROVE  p = r
  <2>1. CASE p \in Used(m) /\ r \in Used(m)
    BY <1>1, <1>3, <2>1 DEF MapKeyed
  <2>2. CASE p = q /\ r \in Used(m)
    BY <1>1, <1>3, <2>2 DEF Lists
  <2>3. CASE r = q /\ p \in Used(m)
    BY <1>1, <1>3, <2>3 DEF Lists
  <2>. QED BY <1>1, <2>1, <2>2, <2>3
<1>. QED BY <1>2, <1>3 DEF MapKeyed

LEMMA PutZero ==
    ASSUME NEW m, NEW at
    PROVE  LmPut(m, 0, at) = m
BY DEF LmPut

\* A port that is not in the map goes to a free slot of its bucket.
LEMMA PutFacts ==
    ASSUME NEW m, MapOK(m), NEW port \in Nat \ {0}, NEW at \in Positions,
           \A q : ~Lists(m, q, port), TablesConfigured
    PROVE  MapOK(LmPut(m, port, at)) /\ \E q : Adds(m, LmPut(m, port, at), q, Entry(port, at))
<1>1. m \in TablesOf(Entries) /\ MapKeyed(m)
  BY DEF MapOK
<1>2. PICK b \in Buckets : b = port % HashSize
  BY BucketOf
<1>3. /\ m[b] \in Seq(Entries \cup {Free}) /\ Len(m[b]) \in Nat /\ Len(m[b]) >= ArraySize
      /\ DOMAIN m[b] = 1..Len(m[b]) /\ ArraySize \in Nat
  BY <1>1, TableFacts DEF TablesConfigured
<1>4. PICK front : front = SubSeq(m[b], 1, ArraySize)
  OBVIOUS
<1>5. Len(front) = ArraySize /\ \A i \in 1..ArraySize : front[i] = m[b][i]
  <2>1. PICK s \in Seq(Entries \cup {Free}) : s = m[b]
    BY <1>3
  <2>2. Len(s) \in Nat /\ ArraySize \in 0..Len(s)
    BY <1>3, <2>1
  <2>3. front = SubSeq(s, 1, ArraySize)
    BY <1>4, <2>1
  <2>4. Len(front) = ArraySize /\ \A i \in 1..ArraySize : front[i] = s[i]
    BY <2>2, <2>3
  <2>. QED BY <2>1, <2>4
<1>6. PICK J : J = {i \in 1..ArraySize : front[i] = Free \/ IsPort(front[i], port)}
  OBVIOUS
<1>7. PICK i : i = SelectInSeq(front, LAMBDA e : e = Free \/ IsPort(e, port))
  OBVIOUS
<1>8. i = 0 \/ m[b][i] = Free
  <2>1. i = IF J # {} THEN Min(J) ELSE 0
    BY <1>5, <1>6, <1>7 DEF SelectInSeq
  <2>2. CASE J = {}
    BY <2>1, <2>2
  <2>3. CASE J # {}
    <3>1. J \in SUBSET Nat
      BY <1>6
    <3>2. i \in J
      BY <2>1, <2>3, <3>1, MinIn
    <3>3. i \in 1..ArraySize /\ i \in DOMAIN m[b] /\ (m[b][i] = Free \/ IsPort(m[b][i], port))
      BY <1>3, <1>5, <1>6, <3>2
    <3>4. ASSUME IsPort(m[b][i], port) PROVE FALSE
      <4>1. InUse(m, b, i) /\ m[b][i].port = port
        BY <3>3, <3>4 DEF InUse, IsPort
      <4>2. Lists(m, <<b, i>>, port)
        BY <4>1, UsedAre DEF Lists
      <4>. QED BY <4>2
    <3>. QED BY <3>3, <3>4
  <2>. QED BY <2>2, <2>3
<1>9. LmPut(m, port, at) = Stored(m, NewSlot(m, b), Entry(port, at))
  BY <1>2, <1>4, <1>7, <1>8 DEF LmPut
<1>10. PICK e : e = Entry(port, at)
  OBVIOUS
<1>11. e \in Entries /\ e.port = port /\ e # Free
  <2>1. e \in Entries /\ e.port = port
    BY <1>10 DEF Entry, Entries
  <2>. QED BY <2>1, NotFree
<1>12. PICK q : q = NewSlot(m, b)
  OBVIOUS
<1>13. PICK u : u = Stored(m, q, e)
  OBVIOUS
<1>14. Adds(m, u, q, e) /\ u \in TablesOf(Entries) /\ q[1] = b
  BY <1>1, <1>11, <1>12, <1>13, StoredNew
<1>15. MapKeyed(u)
  BY <1>1, <1>2, <1>11, <1>14, AddsKeyed
<1>. QED BY <1>9, <1>10, <1>12, <1>13, <1>14, <1>15 DEF MapOK

LEMMA DelZero ==
    ASSUME NEW m
    PROVE  LmDel(m, 0) = m
BY DEF LmDel

\* A port that is in the map leaves it.
LEMMA DelFacts ==
    ASSUME NEW m, MapOK(m), NEW port \in Nat \ {0}, NEW q, Lists(m, q, port), TablesConfigured
    PROVE  MapOK(LmDel(m, port)) /\ Frees(m, LmDel(m, port), {q})
<1>1. m \in TablesOf(Entries) /\ MapKeyed(m)
  BY DEF MapOK
<1>2. PICK at : at = FirstSlot(m, port % HashSize, LAMBDA e : IsPort(e, port))
  OBVIOUS
<1>3. at # None /\ Lists(m, at, port)
  BY <1>2, SearchPort
<1>4. at = q
  BY <1>1, <1>3 DEF Lists, MapKeyed
<1>5. LmDel(m, port) = Stored(m, q, Free)
  BY <1>2, <1>3, <1>4 DEF LmDel
<1>6. PICK u : u = Stored(m, q, Free)
  OBVIOUS
<1>7. Frees(m, u, {q}) /\ u \in TablesOf(Entries)
  BY <1>1, <1>6, StoredFree DEF Lists
<1>8. MapKeyed(u)
  BY <1>1, <1>7 DEF MapKeyed, Frees
<1>. QED BY <1>5, <1>6, <1>7, <1>8 DEF MapOK

-----------------------------------------------------------------------------
(***************************************************************************)
(* The invariant of the tables.                                            *)
(***************************************************************************)
PermEntries == [addr : Addrs, chns : TablesOf(Entries)]
ChnEntries == [num : Numbers, addr : Addrs, port : Ports, owner : Positions]

\* Permissions and channels are in the buckets of their keys, each key once.
PermsOK(p) ==
    /\ p \in TablesOf(PermEntries)
    /\ \A at \in Used(p) : MapOK(Slot(p, at).chns) /\ at[1] = HashOf[Slot(p, at).addr]
    /\ \A at, o \in Used(p) : Slot(p, at).addr = Slot(p, o).addr => at = o
ChnsOK(c) ==
    /\ c \in TablesOf(ChnEntries)
    /\ \A at \in Used(c) : at[1] = Slot(c, at).num % HashSize
    /\ \A at, o \in Used(c) : Slot(c, at).num = Slot(c, o).num => at = o
\* What a permission points to is a channel of that port, and points back.
Points(c, at, e) ==
    e.chn \in Used(c) /\ Slot(c, e.chn).owner = at /\ Slot(c, e.chn).port = e.port
Pointed(p, c) ==
    \A at \in Used(p) : \A q \in Used(Slot(p, at).chns) : Points(c, at, Slot(Slot(p, at).chns, q))
\* A channel knows a place that exists, and if it has a port, its permission is
\* there and points to it.
Listed(m, port, at) == \E q \in Used(m) : Slot(m, q).port = port /\ Slot(m, q).chn = at
HasOwner(p, n, at) ==
    /\ n.owner \in Places(p)
    /\ n.port # 0 => /\ n.owner \in Used(p) /\ Slot(p, n.owner).addr = n.addr
                     /\ Listed(Slot(p, n.owner).chns, n.port, at)
Owned(p, c) == \A at \in Used(c) : HasOwner(p, Slot(c, at), at)
\* The tables stand for these sets and functions.
GrantedOK(p, g) == \A a : a \in g <=> \E at \in Used(p) : Slot(p, at).addr = a
BoundOK(c, b) ==
    /\ \A n : n \in DOMAIN b <=> \E at \in Used(c) : Slot(c, at).num = n
    /\ \A at \in Used(c) : b[Slot(c, at).num] = <<Slot(c, at).addr, Slot(c, at).port>>

TablesInv ==
    /\ PermsOK(perms) /\ ChnsOK(chns) /\ Pointed(perms, chns) /\ Owned(perms, chns)
    /\ GrantedOK(perms, granted) /\ BoundOK(chns, bound)

LEMMA EntryFacts ==
    /\ \A p : PermsOK(p) => \A at \in Used(p) :
          /\ Slot(p, at) \in PermEntries /\ Slot(p, at).addr \in Addrs
          /\ Slot(p, at).chns \in TablesOf(Entries) /\ Slot(p, at) # Free
          /\ at \in Places(p) /\ at \in Positions
    /\ \A c : ChnsOK(c) => \A at \in Used(c) :
          /\ Slot(c, at) \in ChnEntries /\ Slot(c, at).num \in Numbers /\ Slot(c, at).addr \in Addrs
          /\ Slot(c, at).port \in Ports /\ Slot(c, at).owner \in Positions /\ Slot(c, at) # Free
          /\ at \in Positions
<1>1. ASSUME NEW p, PermsOK(p), NEW at \in Used(p)
      PROVE  /\ Slot(p, at) \in PermEntries /\ Slot(p, at).addr \in Addrs
             /\ Slot(p, at).chns \in TablesOf(Entries) /\ Slot(p, at) # Free
             /\ at \in Places(p) /\ at \in Positions
  <2>1. p \in TablesOf(PermEntries)
    BY <1>1 DEF PermsOK
  <2>2. Slot(p, at) \in PermEntries /\ at \in Places(p) /\ at \in Positions
    BY <1>1, <2>1, UsedEntry
  <2>3. Slot(p, at) # Free
    BY <1>1 DEF Used
  <2>. QED BY <2>2, <2>3 DEF PermEntries
<1>2. ASSUME NEW c, ChnsOK(c), NEW at \in Used(c)
      PROVE  /\ Slot(c, at) \in ChnEntries /\ Slot(c, at).num \in Numbers /\ Slot(c, at).addr \in Addrs
             /\ Slot(c, at).port \in Ports /\ Slot(c, at).owner \in Positions /\ Slot(c, at) # Free
             /\ at \in Positions
  <2>1. c \in TablesOf(ChnEntries)
    BY <1>2 DEF ChnsOK
  <2>2. Slot(c, at) \in ChnEntries /\ at \in Positions
    BY <1>2, <2>1, UsedEntry
  <2>3. Slot(c, at) # Free
    BY <1>2 DEF Used
  <2>. QED BY <2>2, <2>3 DEF ChnEntries
<1>. QED BY <1>1, <1>2

LEMMA PermFind ==
    ASSUME PermsOK(perms), NEW a \in Addrs, TablesConfigured
    PROVE  \/ PermAt(a) = None /\ \A at \in Used(perms) : Slot(perms, at).addr # a
           \/ PermAt(a) # None /\ PermAt(a) \in Used(perms) /\ Slot(perms, PermAt(a)).addr = a
<1>1. PICK b \in Buckets : b = HashOf[a]
  BY DEF TablesConfigured
<1>2. perms \in TablesOf(PermEntries) /\ DOMAIN perms[b] = 1..Len(perms[b])
  BY TableFacts DEF PermsOK
<1>3. PICK I : I = {i \in 1..Len(perms[b]) : perms[b][i] # Free /\ perms[b][i].addr = a}
  OBVIOUS
<1>4. PermAt(a) = FirstIn(I, b)
  BY <1>1, <1>3 DEF PermAt, FirstSlot, SelectInSeq, FirstIn
<1>5. \/ I = {} /\ PermAt(a) = None
      \/ PermAt(a) # None /\ \E i \in I : PermAt(a) = <<b, i>>
  <2>1. I \in SUBSET (Nat \ {0})
    BY <1>3
  <2>. QED BY <1>4, <2>1, FirstOf
<1>6. ASSUME NEW at \in Used(perms), Slot(perms, at).addr = a PROVE I # {}
  <2>1. PICK c, i : at = <<c, i>> /\ InUse(perms, c, i)
    BY UsedPair
  <2>2. Slot(perms, at) = perms[c][i] /\ at[1] = c /\ at[1] = HashOf[a]
    BY <1>6, <2>1, UsedAre DEF PermsOK
  <2>3. c = b /\ i \in 1..Len(perms[b]) /\ perms[b][i] # Free
    BY <1>1, <1>2, <2>1, <2>2 DEF InUse
  <2>4. i \in I
    BY <1>3, <1>6, <2>2, <2>3
  <2>. QED BY <2>4
<1>7. ASSUME NEW i \in I, PermAt(a) = <<b, i>>
      PROVE  PermAt(a) \in Used(perms) /\ Slot(perms, PermAt(a)).addr = a
  <2>1. InUse(perms, b, i) /\ perms[b][i].addr = a
    BY <1>2, <1>3 DEF InUse
  <2>. QED BY <1>7, <2>1, UsedAre
<1>. QED BY <1>5, <1>6, <1>7

LEMMA ChannelFind ==
    ASSUME ChnsOK(chns), NEW n \in Numbers, TablesConfigured
    PROVE  \/ ChannelAt(n) = None /\ \A at \in Used(chns) : Slot(chns, at).num # n
           \/ ChannelAt(n) # None /\ ChannelAt(n) \in Used(chns) /\ Slot(chns, ChannelAt(n)).num = n
<1>1. PICK b \in Buckets : b = n % HashSize
  BY BucketOf DEF TablesConfigured
<1>2. chns \in TablesOf(ChnEntries) /\ DOMAIN chns[b] = 1..Len(chns[b])
  BY TableFacts DEF ChnsOK
<1>3. PICK I : I = {i \in 1..Len(chns[b]) : chns[b][i] # Free /\ chns[b][i].num = n}
  OBVIOUS
<1>4. ChannelAt(n) = FirstIn(I, b)
  BY <1>1, <1>3 DEF ChannelAt, FirstSlot, SelectInSeq, FirstIn
<1>5. \/ I = {} /\ ChannelAt(n) = None
      \/ ChannelAt(n) # None /\ \E i \in I : ChannelAt(n) = <<b, i>>
  <2>1. I \in SUBSET (Nat \ {0})
    BY <1>3
  <2>. QED BY <1>4, <2>1, FirstOf
<1>6. ASSUME NEW at \in Used(chns), Slot(chns, at).num = n PROVE I # {}
  <2>1. PICK c, i : at = <<c, i>> /\ InUse(chns, c, i)
    BY UsedPair
  <2>2. Slot(chns, at) = chns[c][i] /\ at[1] = c /\ at[1] = n % HashSize
    BY <1>6, <2>1, UsedAre DEF ChnsOK
  <2>3. c = b /\ i \in 1..Len(chns[b]) /\ chns[b][i] # Free
    <3>1. c = b
      BY <1>1, <2>2, Zenon
    <3>. QED BY <1>2, <2>1, <3>1 DEF InUse
  <2>4. i \in I
    BY <1>3, <1>6, <2>2, <2>3
  <2>. QED BY <2>4
<1>7. ASSUME NEW i \in I, ChannelAt(n) = <<b, i>>
      PROVE  ChannelAt(n) \in Used(chns) /\ Slot(chns, ChannelAt(n)).num = n
  <2>1. InUse(chns, b, i) /\ chns[b][i].num = n
    BY <1>2, <1>3 DEF InUse
  <2>. QED BY <1>7, <2>1, UsedAre
<1>. QED BY <1>5, <1>6, <1>7

-----------------------------------------------------------------------------
(* What a step does to one of the tables.                                  *)

LEMMA PermsAdd ==
    ASSUME NEW p, PermsOK(p), NEW u, NEW at, NEW e, Adds(p, u, at, e), u \in TablesOf(PermEntries),
           MapOK(e.chns), at[1] = HashOf[e.addr],
           \A o \in Used(p) : Slot(p, o).addr # e.addr
    PROVE  PermsOK(u)
<1>1. /\ Used(u) = Used(p) \cup {at} /\ Slot(u, at) = e
      /\ \A o \in Used(p) : Slot(u, o) = Slot(p, o)
  BY DEF Adds
<1>2. \A o \in Used(u) : MapOK(Slot(u, o).chns) /\ o[1] = HashOf[Slot(u, o).addr]
  BY <1>1 DEF PermsOK
<1>3. ASSUME NEW o \in Used(u), NEW r \in Used(u), Slot(u, o).addr = Slot(u, r).addr
      PROVE  o = r
  <2>1. CASE o \in Used(p) /\ r \in Used(p)
    BY <1>1, <1>3, <2>1 DEF PermsOK
  <2>2. CASE o = at \/ r = at
    BY <1>1, <1>3, <2>2
  <2>. QED BY <1>1, <2>1, <2>2
<1>. QED BY <1>2, <1>3 DEF PermsOK

LEMMA PermsSet ==
    ASSUME NEW p, PermsOK(p), NEW u, NEW at, NEW e, Sets(p, u, at, e), u \in TablesOf(PermEntries),
           MapOK(e.chns), e.addr = Slot(p, at).addr
    PROVE  PermsOK(u) /\ \A o \in Used(p) : Slot(u, o).addr = Slot(p, o).addr
<1>1. /\ Used(u) = Used(p) /\ at \in Used(p) /\ Slot(u, at) = e
      /\ \A o \in Used(p) : o # at => Slot(u, o) = Slot(p, o)
  BY DEF Sets
<1>2. \A o \in Used(p) : Slot(u, o).addr = Slot(p, o).addr
  BY <1>1
<1>3. \A o \in Used(u) : MapOK(Slot(u, o).chns)
  BY <1>1 DEF PermsOK
<1>4. \A o \in Used(u) : o[1] = HashOf[Slot(u, o).addr]
  BY <1>1, <1>2 DEF PermsOK
<1>5. \A o, r \in Used(u) : Slot(u, o).addr = Slot(u, r).addr => o = r
  BY <1>1, <1>2 DEF PermsOK
<1>. QED BY <1>2, <1>3, <1>4, <1>5 DEF PermsOK

LEMMA PermsFree ==
    ASSUME NEW p, PermsOK(p), NEW u, NEW X, Frees(p, u, X), u \in TablesOf(PermEntries)
    PROVE  PermsOK(u)
<1>1. /\ Used(u) \subseteq Used(p)
      /\ \A o \in Used(u) : Slot(u, o) = Slot(p, o)
  BY DEF Frees
<1>. QED BY <1>1 DEF PermsOK

LEMMA ChnsAdd ==
    ASSUME NEW c, ChnsOK(c), NEW u, NEW at, NEW e, Adds(c, u, at, e), u \in TablesOf(ChnEntries),
           at[1] = e.num % HashSize, \A o \in Used(c) : Slot(c, o).num # e.num
    PROVE  ChnsOK(u)
<1>1. /\ Used(u) = Used(c) \cup {at} /\ Slot(u, at) = e
      /\ \A o \in Used(c) : Slot(u, o) = Slot(c, o)
  BY DEF Adds
<1>2. \A o \in Used(u) : o[1] = Slot(u, o).num % HashSize
  BY <1>1 DEF ChnsOK
<1>3. ASSUME NEW o \in Used(u), NEW r \in Used(u), Slot(u, o).num = Slot(u, r).num
      PROVE  o = r
  <2>1. CASE o \in Used(c) /\ r \in Used(c)
    BY <1>1, <1>3, <2>1 DEF ChnsOK
  <2>2. CASE o = at \/ r = at
    BY <1>1, <1>3, <2>2
  <2>. QED BY <1>1, <2>1, <2>2
<1>. QED BY <1>2, <1>3 DEF ChnsOK

LEMMA ChnsFree ==
    ASSUME NEW c, ChnsOK(c), NEW u, NEW X, Frees(c, u, X), u \in TablesOf(ChnEntries)
    PROVE  ChnsOK(u)
<1>1. /\ Used(u) \subseteq Used(c)
      /\ \A o \in Used(u) : Slot(u, o) = Slot(c, o)
  BY DEF Frees
<1>. QED BY <1>1 DEF ChnsOK

\* The functions the tables stand for follow.
LEMMA GrantedAdd ==
    ASSUME NEW p, NEW g, GrantedOK(p, g), NEW u, NEW at, NEW e, Adds(p, u, at, e)
    PROVE  GrantedOK(u, g \cup {e.addr})
<1>1. /\ Used(u) = Used(p) \cup {at} /\ Slot(u, at) = e
      /\ \A o \in Used(p) : Slot(u, o) = Slot(p, o)
  BY DEF Adds
<1>2. ASSUME NEW a
      PROVE  a \in g \cup {e.addr} <=> \E o \in Used(u) : Slot(u, o).addr = a
  <2>1. a \in g <=> \E o \in Used(p) : Slot(p, o).addr = a
    BY DEF GrantedOK
  <2>2. (\E o \in Used(u) : Slot(u, o).addr = a) <=> (\E o \in Used(p) : Slot(p, o).addr = a) \/ e.addr = a
    BY <1>1
  <2>. QED BY <2>1, <2>2
<1>. QED BY <1>2 DEF GrantedOK

NoNumber(c, n) == \A o \in Used(c) : Slot(c, o).num # n
BoundTo(b, n, peer) == [m \in DOMAIN b \cup {n} |-> IF m = n THEN peer ELSE b[m]]

LEMMA BoundAdd ==
    ASSUME NEW c, NEW b, BoundOK(c, b), NEW u, NEW at, NEW e, Adds(c, u, at, e), NoNumber(c, e.num)
    PROVE  BoundOK(u, BoundTo(b, e.num, <<e.addr, e.port>>))
<1> DEFINE d == BoundTo(b, e.num, <<e.addr, e.port>>)
<1>1. d = [m \in DOMAIN b \cup {e.num} |-> IF m = e.num THEN <<e.addr, e.port>> ELSE b[m]]
  BY DEF BoundTo
<1> HIDE DEF d
<1>2. /\ Used(u) = Used(c) \cup {at} /\ Slot(u, at) = e
      /\ \A o \in Used(c) : Slot(u, o) = Slot(c, o)
  BY DEF Adds
<1>3. ASSUME NEW n
      PROVE  n \in DOMAIN d <=> \E o \in Used(u) : Slot(u, o).num = n
  <2>1. n \in DOMAIN b <=> \E o \in Used(c) : Slot(c, o).num = n
    BY DEF BoundOK
  <2>2. (\E o \in Used(u) : Slot(u, o).num = n) <=> (\E o \in Used(c) : Slot(c, o).num = n) \/ e.num = n
    BY <1>2
  <2>. QED BY <1>1, <2>1, <2>2
<1>4. ASSUME NEW o \in Used(u)
      PROVE  d[Slot(u, o).num] = <<Slot(u, o).addr, Slot(u, o).port>>
  <2>1. CASE o = at
    BY <1>1, <1>2, <2>1
  <2>2. CASE o \in Used(c)
    <3>1. /\ Slot(c, o).num \in DOMAIN b /\ Slot(c, o).num # e.num
          /\ b[Slot(c, o).num] = <<Slot(c, o).addr, Slot(c, o).port>>
      BY <2>2 DEF BoundOK, NoNumber
    <3>. QED BY <1>1, <1>2, <2>2, <3>1
  <2>. QED BY <1>2, <2>1, <2>2
<1>. QED BY <1>3, <1>4 DEF BoundOK, d

LEMMA BoundFree ==
    ASSUME NEW c, ChnsOK(c), NEW b, BoundOK(c, b), NEW u, NEW X, X \subseteq Used(c), Frees(c, u, X)
    PROVE  BoundOK(u, Restrict(b, DOMAIN b \ {Slot(c, o).num : o \in X}))
<1>1. /\ Used(u) = Used(c) \ X
      /\ \A o \in Used(u) : Slot(u, o) = Slot(c, o)
  BY DEF Frees
<1>2. PICK gone : gone = {Slot(c, o).num : o \in X}
  OBVIOUS
<1>3. PICK d : d = Restrict(b, DOMAIN b \ gone)
  OBVIOUS
<1>4. DOMAIN d = DOMAIN b \ gone /\ \A n \in DOMAIN d : d[n] = b[n]
  BY <1>3 DEF Restrict
<1>5. \A o \in Used(c) : Slot(c, o).num \in gone <=> o \in X
  BY <1>2 DEF ChnsOK
<1>6. ASSUME NEW n
      PROVE  n \in DOMAIN d <=> \E o \in Used(u) : Slot(u, o).num = n
  <2>1. n \in DOMAIN b <=> \E o \in Used(c) : Slot(c, o).num = n
    BY DEF BoundOK
  <2>. QED BY <1>1, <1>4, <1>5, <2>1
<1>7. ASSUME NEW o \in Used(u)
      PROVE  d[Slot(u, o).num] = <<Slot(u, o).addr, Slot(u, o).port>>
  <2>1. o \in Used(c) /\ Slot(u, o) = Slot(c, o)
    BY <1>1
  <2>2. b[Slot(c, o).num] = <<Slot(c, o).addr, Slot(c, o).port>>
    BY <2>1 DEF BoundOK
  <2>3. Slot(u, o).num \in DOMAIN d
    BY <1>6
  <2>. QED BY <1>4, <2>1, <2>2, <2>3
<1>. QED BY <1>2, <1>3, <1>6, <1>7 DEF BoundOK

-----------------------------------------------------------------------------
(* The steps.                                                              *)

\* M is the map m with a channel at port, unless the port is 0.
Extends(m, M, port, at) ==
    /\ MapOK(M)
    /\ \A q \in Used(M) : \/ q \in Used(m) /\ Slot(M, q) = Slot(m, q)
                          \/ port # 0 /\ Slot(M, q) = Entry(port, at)
    /\ \A q \in Used(m) : q \in Used(M) /\ Slot(M, q) = Slot(m, q)
    /\ port # 0 => Listed(M, port, at)

LEMMA PutExtends ==
    ASSUME NEW m, MapOK(m), NEW port \in Nat, NEW at \in Positions,
           port # 0 => \A q : ~Lists(m, q, port), TablesConfigured
    PROVE  Extends(m, LmPut(m, port, at), port, at)
<1>1. CASE port = 0
  BY <1>1, PutZero DEF Extends
<1>2. CASE port # 0
  <2>1. PICK M : M = LmPut(m, port, at)
    OBVIOUS
  <2>2. MapOK(M) /\ \E q : Adds(m, M, q, Entry(port, at))
    BY <1>2, <2>1, PutFacts
  <2>3. PICK q : Adds(m, M, q, Entry(port, at))
    BY <2>2
  <2>4. /\ Used(M) = Used(m) \cup {q} /\ Slot(M, q) = Entry(port, at)
        /\ \A p \in Used(m) : Slot(M, p) = Slot(m, p)
    BY <2>3 DEF Adds
  <2>5. Listed(M, port, at)
    BY <2>4 DEF Listed, Entry
  <2>. QED BY <1>2, <2>1, <2>2, <2>4, <2>5 DEF Extends
<1>. QED BY <1>1, <1>2

\* The permission at o of u is new, or was there with the channels of m; the
\* others of u are those of p.
Grows(p, u, o, e, m) ==
    /\ o \in Used(u) /\ Slot(u, o) = e
    /\ \A r \in Used(u) : r # o => r \in Used(p) /\ Slot(u, r) = Slot(p, r)
    /\ Used(p) \subseteq Used(u) /\ Places(p) \subseteq Places(u)
    /\ IF o \in Used(p) THEN Slot(p, o).addr = e.addr /\ Slot(p, o).chns = m
                        ELSE Used(m) = {}

LEMMA GrowsPoints ==
    ASSUME NEW p, NEW c, Pointed(p, c), NEW u, NEW o, NEW e, NEW m, Grows(p, u, o, e, m),
           NEW v, NEW at, NEW n, Adds(c, v, at, n), n.owner = o, Extends(m, e.chns, n.port, at)
    PROVE  Pointed(u, v)
<1>1. \A r, x : Points(c, r, x) => Points(v, r, x)
  BY DEF Points, Adds
<1>2. n.port # 0 => Points(v, o, Entry(n.port, at))
  BY DEF Points, Adds, Entry
<1>3. ASSUME NEW r \in Used(u), NEW q \in Used(Slot(u, r).chns)
      PROVE  Points(v, r, Slot(Slot(u, r).chns, q))
  <2>1. CASE r # o
    <3>1. r \in Used(p) /\ Slot(u, r) = Slot(p, r)
      BY <2>1 DEF Grows
    <3>2. Points(c, r, Slot(Slot(p, r).chns, q))
      BY <1>3, <3>1 DEF Pointed
    <3>. QED BY <1>1, <3>1, <3>2
  <2>2. CASE r = o
    <3>1. Slot(u, r) = e /\ q \in Used(e.chns)
      BY <1>3, <2>2 DEF Grows
    <3>2. CASE q \in Used(m) /\ Slot(e.chns, q) = Slot(m, q)
      <4>1. o \in Used(p) /\ Slot(p, o).chns = m
        BY <3>2 DEF Grows
      <4>2. Points(c, o, Slot(m, q))
        BY <3>2, <4>1 DEF Pointed
      <4>. QED BY <1>1, <2>2, <3>1, <3>2, <4>2
    <3>3. CASE n.port # 0 /\ Slot(e.chns, q) = Entry(n.port, at)
      BY <1>2, <2>2, <3>1, <3>3
    <3>. QED BY <3>1, <3>2, <3>3 DEF Extends
  <2>. QED BY <2>1, <2>2
<1>. QED BY <1>3 DEF Pointed

LEMMA GrowsOwned ==
    ASSUME NEW p, NEW c, Owned(p, c), NEW u, NEW o, NEW e, NEW m, Grows(p, u, o, e, m),
           NEW v, NEW at, NEW n, Adds(c, v, at, n), n.owner = o, Extends(m, e.chns, n.port, at),
           n.addr = e.addr
    PROVE  Owned(u, v)
<1>1. /\ Used(v) = Used(c) \cup {at} /\ Slot(v, at) = n
      /\ \A x \in Used(c) : Slot(v, x) = Slot(c, x)
  BY DEF Adds
<1>2. HasOwner(u, n, at)
  <2>1. o \in Used(u) /\ Slot(u, o) = e /\ o \in Places(u)
    BY DEF Grows, Used
  <2>2. n.port # 0 => Listed(e.chns, n.port, at)
    BY DEF Extends
  <2>. QED BY <2>1, <2>2 DEF HasOwner
<1>3. ASSUME NEW x \in Used(c)
      PROVE  HasOwner(u, Slot(c, x), x)
  <2>1. PICK y : y = Slot(c, x)
    OBVIOUS
  <2>2. HasOwner(p, y, x)
    BY <2>1 DEF Owned
  <2>3. y.owner \in Places(u)
    BY <2>2 DEF HasOwner, Grows
  <2>4. ASSUME y.port # 0
        PROVE  y.owner \in Used(u) /\ Slot(u, y.owner).addr = y.addr
               /\ Listed(Slot(u, y.owner).chns, y.port, x)
    <3>1. y.owner \in Used(p) /\ Slot(p, y.owner).addr = y.addr
          /\ Listed(Slot(p, y.owner).chns, y.port, x)
      BY <2>2, <2>4 DEF HasOwner
    <3>2. y.owner \in Used(u)
      BY <3>1 DEF Grows
    <3>3. CASE y.owner = o
      <4>1. Slot(p, o).addr = e.addr /\ Slot(p, o).chns = m /\ Slot(u, o) = e
        BY <3>1, <3>3 DEF Grows
      <4>2. PICK q \in Used(m) : Slot(m, q).port = y.port /\ Slot(m, q).chn = x
        BY <3>1, <3>3, <4>1 DEF Listed
      <4>3. Listed(e.chns, y.port, x)
        BY <4>2 DEF Listed, Extends
      <4>. QED BY <3>1, <3>2, <3>3, <4>1, <4>3
    <3>4. CASE y.owner # o
      <4>1. Slot(u, y.owner) = Slot(p, y.owner)
        BY <3>2, <3>4 DEF Grows
      <4>. QED BY <3>1, <3>2, <4>1
    <3>. QED BY <3>3, <3>4
  <2>. QED BY <2>1, <2>3, <2>4 DEF HasOwner
<1>4. ASSUME NEW x \in Used(v)
      PROVE  HasOwner(u, Slot(v, x), x)
  <2>1. CASE x \in Used(c)
    BY <1>1, <1>3, <2>1
  <2>2. CASE x = at
    BY <1>1, <1>2, <2>2
  <2>. QED BY <1>1, <2>1, <2>2
<1>. QED BY <1>4 DEF Owned

\* A permission that is added has no channel yet.
LEMMA NewPermFacts ==
    ASSUME TablesConfigured, NEW a \in Addrs
    PROVE  /\ NewPerm(a) \in PermEntries /\ NewPerm(a) # Free
           /\ NewPerm(a).addr = a /\ NewPerm(a).chns = NewTable
           /\ MapOK(NewTable) /\ Used(NewTable) = {}
<1>1. NewTable \in TablesOf(Entries) /\ Used(NewTable) = {}
  BY NewTableFacts
<1>2. MapOK(NewTable)
  BY <1>1 DEF MapOK, MapKeyed
<1>3. NewPerm(a) \in PermEntries
  BY <1>1 DEF NewPerm, PermEntries
<1>4. NewPerm(a) # Free
  BY <1>3, NotFree DEF PermEntries
<1>. QED BY <1>1, <1>2, <1>3, <1>4 DEF NewPerm

LEMMA AddsPointed ==
    ASSUME NEW p, NEW c, Pointed(p, c), NEW u, NEW at, NEW e, Adds(p, u, at, e), Used(e.chns) = {}
    PROVE  Pointed(u, c)
<1>. SUFFICES ASSUME NEW o \in Used(u), NEW q \in Used(Slot(u, o).chns)
             PROVE  Points(c, o, Slot(Slot(u, o).chns, q))
  BY DEF Pointed
<1>1. o # at
  BY DEF Adds
<1>2. o \in Used(p) /\ Slot(u, o) = Slot(p, o)
  BY <1>1 DEF Adds
<1>. QED BY <1>2 DEF Pointed

LEMMA AddsOwned ==
    ASSUME NEW p, NEW c, Owned(p, c), NEW u, NEW at, NEW e, Adds(p, u, at, e)
    PROVE  Owned(u, c)
<1>. SUFFICES ASSUME NEW x \in Used(c) PROVE HasOwner(u, Slot(c, x), x)
  BY DEF Owned
<1>1. HasOwner(p, Slot(c, x), x)
  BY DEF Owned
<1>. QED BY <1>1 DEF HasOwner, Adds

LEMMA GrowsAdd ==
    ASSUME NEW p, NEW u, NEW at, NEW e, Adds(p, u, at, e), NEW m, Used(m) = {}
    PROVE  Grows(p, u, at, e, m)
BY DEF Adds, Grows

LEMMA GrowsSet ==
    ASSUME NEW p, NEW u, NEW at, NEW e, Sets(p, u, at, e), e.addr = Slot(p, at).addr
    PROVE  Grows(p, u, at, e, Slot(p, at).chns)
BY DEF Sets, Grows

\* M is the map m without a channel of port, which may be 0.
Drops(m, M, port) ==
    /\ MapOK(M) /\ Used(M) \subseteq Used(m)
    /\ \A q \in Used(M) : Slot(M, q) = Slot(m, q) /\ Slot(m, q).port # port
    /\ \A q \in Used(m) : q \notin Used(M) => port # 0 /\ Slot(m, q).port = port

LEMMA DelDrops ==
    ASSUME NEW m, MapOK(m), NEW port \in Nat, port # 0 => \E q : Lists(m, q, port), TablesConfigured
    PROVE  Drops(m, LmDel(m, port), port)
<1>1. CASE port = 0
  <2>1. LmDel(m, port) = m
    BY <1>1, DelZero
  <2>. QED BY <1>1, <2>1 DEF Drops, MapOK, MapKeyed
<1>2. CASE port # 0
  <2>1. PICK q : Lists(m, q, port)
    BY <1>2
  <2>2. MapOK(LmDel(m, port)) /\ Frees(m, LmDel(m, port), {q})
    BY <1>2, <2>1, DelFacts
  <2>3. \A r \in Used(m) : r # q => Slot(m, r).port # port
    BY <2>1 DEF MapOK, MapKeyed, Lists
  <2>. QED BY <1>2, <2>1, <2>2, <2>3 DEF Drops, Frees, Lists
<1>. QED BY <1>1, <1>2

\* A channel of the permission at o, if that place has one, is deleted.
Leaves(p, u, o, port) ==
    /\ Used(u) = Used(p) /\ Places(p) \subseteq Places(u)
    /\ \A r \in Used(p) : /\ Slot(u, r).addr = Slot(p, r).addr
                          /\ r # o => Slot(u, r) = Slot(p, r)
    /\ o \in Used(p) => Drops(Slot(p, o).chns, Slot(u, o).chns, port)

LEMMA LeavesPoints ==
    ASSUME NEW p, NEW c, Pointed(p, c), NEW at \in Used(c),
           NEW u, Leaves(p, u, Slot(c, at).owner, Slot(c, at).port), NEW v, Frees(c, v, {at})
    PROVE  Pointed(u, v)
<1>. SUFFICES ASSUME NEW r \in Used(u), NEW q \in Used(Slot(u, r).chns)
             PROVE  Points(v, r, Slot(Slot(u, r).chns, q))
  BY DEF Pointed
<1>. DEFINE e == Slot(Slot(p, r).chns, q)
<1>1. r \in Used(p)
  BY DEF Leaves
<1>2. /\ q \in Used(Slot(p, r).chns) /\ Slot(Slot(u, r).chns, q) = e
      /\ r = Slot(c, at).owner => e.port # Slot(c, at).port
  BY <1>1 DEF Leaves, Drops
<1>3. Points(c, r, e)
  BY <1>1, <1>2 DEF Pointed
<1>. HIDE DEF e
<1>4. e.chn # at
  BY <1>2, <1>3 DEF Points
<1>. QED BY <1>2, <1>3, <1>4 DEF Points, Frees

LEMMA LeavesOwned ==
    ASSUME NEW p, NEW c, Owned(p, c), PermsOK(p), NEW at \in Used(c),
           NEW u, Leaves(p, u, Slot(c, at).owner, Slot(c, at).port), NEW v, Frees(c, v, {at})
    PROVE  Owned(u, v)
<1>. SUFFICES ASSUME NEW x \in Used(v) PROVE HasOwner(u, Slot(v, x), x)
  BY DEF Owned
<1>. DEFINE n == Slot(c, x)
           d == Slot(c, at)
<1>1. x \in Used(c) /\ x # at /\ Slot(v, x) = n
  BY DEF Frees
<1>2. HasOwner(p, n, x) /\ HasOwner(p, d, at)
  BY <1>1 DEF Owned
<1>3. Leaves(p, u, d.owner, d.port)
  OBVIOUS
<1>. HIDE DEF n, d
<1>4. n.owner \in Places(u)
  BY <1>2, <1>3 DEF HasOwner, Leaves
<1>5. ASSUME n.port # 0
      PROVE  n.owner \in Used(u) /\ Slot(u, n.owner).addr = n.addr /\ Listed(Slot(u, n.owner).chns, n.port, x)
  <2>1. n.owner \in Used(p) /\ Slot(p, n.owner).addr = n.addr /\ Listed(Slot(p, n.owner).chns, n.port, x)
    BY <1>2, <1>5 DEF HasOwner
  <2>2. n.owner \in Used(u) /\ Slot(u, n.owner).addr = n.addr
    BY <1>3, <2>1 DEF Leaves
  <2>3. CASE n.owner # d.owner
    BY <1>3, <2>1, <2>2, <2>3 DEF Leaves
  <2>4. CASE n.owner = d.owner
    <3>1. PICK q \in Used(Slot(p, n.owner).chns) : /\ Slot(Slot(p, n.owner).chns, q).port = n.port
                                                   /\ Slot(Slot(p, n.owner).chns, q).chn = x
      BY <2>1 DEF Listed
    <3>2. Drops(Slot(p, n.owner).chns, Slot(u, n.owner).chns, d.port)
      BY <1>3, <2>1, <2>4 DEF Leaves
    <3>3. q \in Used(Slot(u, n.owner).chns)
      <4>. SUFFICES ASSUME q \notin Used(Slot(u, n.owner).chns) PROVE FALSE
        OBVIOUS
      <4>1. d.port # 0 /\ d.port = n.port
        BY <3>1, <3>2 DEF Drops
      <4>2. Listed(Slot(p, n.owner).chns, n.port, at)
        BY <1>2, <2>4, <4>1 DEF HasOwner
      <4>3. PICK r \in Used(Slot(p, n.owner).chns) : /\ Slot(Slot(p, n.owner).chns, r).port = n.port
                                                     /\ Slot(Slot(p, n.owner).chns, r).chn = at
        BY <4>2 DEF Listed
      <4>4. MapKeyed(Slot(p, n.owner).chns)
        BY <2>1 DEF PermsOK, MapOK
      <4>. QED BY <1>1, <3>1, <4>3, <4>4 DEF MapKeyed
    <3>. QED BY <2>2, <3>1, <3>2, <3>3 DEF Drops, Listed
  <2>. QED BY <2>2, <2>3, <2>4
<1>. QED BY <1>1, <1>4, <1>5 DEF HasOwner

\* A permission goes with the channels it points to.
LEMMA CleanPoints ==
    ASSUME NEW p, NEW c, Pointed(p, c), NEW at \in Used(p), NEW u, Frees(p, u, {at}),
           NEW v, Frees(c, v, LmPointers(Slot(p, at).chns))
    PROVE  Pointed(u, v) /\ LmPointers(Slot(p, at).chns) \subseteq Used(c)
<1>1. \A r \in Used(p) : \A x \in LmPointers(Slot(p, r).chns) : x \in Used(c) /\ Slot(c, x).owner = r
  BY DEF Pointed, Points, LmPointers
<1>2. ASSUME NEW r \in Used(u), NEW q \in Used(Slot(u, r).chns)
      PROVE  Points(v, r, Slot(Slot(u, r).chns, q))
  <2>1. r \in Used(p) /\ r # at /\ Slot(u, r) = Slot(p, r)
    BY DEF Frees
  <2>2. PICK e : e = Slot(Slot(p, r).chns, q)
    OBVIOUS
  <2>3. Points(c, r, e)
    BY <2>1, <2>2 DEF Pointed
  <2>4. e.chn \notin LmPointers(Slot(p, at).chns)
    BY <1>1, <2>1, <2>3 DEF Points
  <2>. QED BY <2>1, <2>2, <2>3, <2>4 DEF Points, Frees
<1>. QED BY <1>1, <1>2 DEF Pointed

LEMMA CleanOwned ==
    ASSUME NEW p, NEW c, Owned(p, c), NEW at \in Used(p), NEW u, Frees(p, u, {at}),
           NEW v, Frees(c, v, LmPointers(Slot(p, at).chns))
    PROVE  Owned(u, v)
<1>. SUFFICES ASSUME NEW x \in Used(v) PROVE HasOwner(u, Slot(v, x), x)
  BY DEF Owned
<1>1. x \in Used(c) /\ x \notin LmPointers(Slot(p, at).chns) /\ Slot(v, x) = Slot(c, x)
  BY DEF Frees
<1>2. PICK n : n = Slot(c, x)
  OBVIOUS
<1>3. HasOwner(p, n, x)
  BY <1>1, <1>2 DEF Owned
<1>4. n.owner \in Places(u)
  BY <1>3 DEF HasOwner, Frees
<1>5. ASSUME n.port # 0
      PROVE  n.owner \in Used(u) /\ Slot(u, n.owner) = Slot(p, n.owner)
  <2>1. n.owner \in Used(p) /\ Listed(Slot(p, n.owner).chns, n.port, x)
    BY <1>3, <1>5 DEF HasOwner
  <2>2. x \in LmPointers(Slot(p, n.owner).chns)
    BY <2>1 DEF Listed, LmPointers
  <2>3. n.owner # at
    BY <1>1, <2>2
  <2>. QED BY <2>1, <2>3 DEF Frees
<1>. QED BY <1>1, <1>2, <1>3, <1>4, <1>5 DEF HasOwner

LEMMA GrantedFree ==
    ASSUME NEW p, PermsOK(p), NEW g, GrantedOK(p, g), NEW at \in Used(p), NEW u, Frees(p, u, {at})
    PROVE  GrantedOK(u, g \ {Slot(p, at).addr})
<1>1. \A o \in Used(p) : Slot(p, o).addr = Slot(p, at).addr => o = at
  BY DEF PermsOK
<1>2. Used(u) = Used(p) \ {at} /\ \A o \in Used(u) : Slot(u, o) = Slot(p, o)
  BY DEF Frees
<1>. QED BY <1>1, <1>2 DEF GrantedOK

LEMMA GrantedLeaves ==
    ASSUME NEW p, NEW g, GrantedOK(p, g), NEW u, NEW o, NEW port, Leaves(p, u, o, port)
    PROVE  GrantedOK(u, g)
BY DEF Leaves, GrantedOK

\* The channels of one permission are replaced.
LEMMA ExceptStored ==
    ASSUME NEW p \in TablesOf(PermEntries), NEW o \in Used(p), NEW M, TablesConfigured
    PROVE  [p EXCEPT ![o[1]][o[2]].chns = M] = Stored(p, o, [Slot(p, o) EXCEPT !.chns = M])
<1>1. PICK b, i : o = <<b, i>> /\ InUse(p, b, i)
  BY UsedPair
<1>2. o[1] = b /\ o[2] = i /\ Slot(p, o) = p[b][i]
  BY <1>1 DEF Slot
<1>3. i <= Len(p[b])
  BY <1>1, TableFacts DEF InUse
<1>4. Stored(p, o, [p[b][i] EXCEPT !.chns = M])
        = [p EXCEPT ![b] = [p[b] EXCEPT ![i] = [p[b][i] EXCEPT !.chns = M]]]
  BY <1>2, <1>3 DEF Stored
<1>5. [p EXCEPT ![b][i].chns = M] = [p EXCEPT ![b] = [p[b] EXCEPT ![i] = [p[b][i] EXCEPT !.chns = M]]]
  OBVIOUS
<1>. QED BY <1>2, <1>4, <1>5

LEMMA DeleteLeaves ==
    ASSUME NEW p, PermsOK(p), NEW o \in Used(p), NEW port \in Nat,
           port # 0 => \E q : Lists(Slot(p, o).chns, q, port), TablesConfigured
    PROVE  LET u == [p EXCEPT ![o[1]][o[2]].chns = LmDel(@, port)]
           IN  Leaves(p, u, o, port) /\ PermsOK(u)
<1>. DEFINE m == Slot(p, o).chns
           e == [Slot(p, o) EXCEPT !.chns = LmDel(m, port)]
           u == Stored(p, o, e)
<1>1. p \in TablesOf(PermEntries) /\ MapOK(m)
  BY DEF PermsOK
<1>2. Drops(m, LmDel(m, port), port)
  BY <1>1, DelDrops
<1>3. Slot(p, o) \in PermEntries
  BY EntryFacts
<1>4. LmDel(m, port) \in TablesOf(Entries) /\ MapOK(LmDel(m, port))
  BY <1>2 DEF Drops, MapOK
<1>5. /\ e \in PermEntries /\ e.chns = LmDel(m, port) /\ e.addr = Slot(p, o).addr
  BY <1>3, <1>4 DEF PermEntries
<1>6. e # Free
  BY <1>5, NotFree DEF PermEntries
<1>7. Sets(p, u, o, e) /\ u \in TablesOf(PermEntries)
  BY <1>1, <1>5, <1>6, StoredOver
<1>8. p[o[1]][o[2]].chns = m
  BY DEF Slot
<1>9. [p EXCEPT ![o[1]][o[2]].chns = LmDel(@, port)] = u
  <2>1. [p EXCEPT ![o[1]][o[2]].chns = LmDel(m, port)] = u
    BY <1>1, ExceptStored
  <2>. QED BY <1>8, <2>1
<1>10. MapOK(e.chns)
  BY <1>4, <1>5
<1>. HIDE DEF u, e
<1>11. PermsOK(u) /\ \A r \in Used(p) : Slot(u, r).addr = Slot(p, r).addr
  BY <1>5, <1>7, <1>10, PermsSet
<1>12. Leaves(p, u, o, port)
  <2>1. Slot(u, o).chns = LmDel(m, port)
    BY <1>5, <1>7 DEF Sets
  <2>. QED BY <1>2, <1>7, <1>11, <2>1 DEF Leaves, Sets
<1>. QED BY <1>9, <1>11, <1>12

LEMMA InvInit ==
    ASSUME TablesInit, TablesConfigured
    PROVE  TablesInv
<1>1. \A S : NewTable \in TablesOf(S)
  BY NewTableFacts
<1>2. Used(NewTable) = {}
  BY NewTableFacts
<1>3. perms = NewTable /\ chns = NewTable /\ granted = {} /\ bound = [n \in {} |-> n]
  BY DEF TablesInit
<1>4. PermsOK(perms) /\ ChnsOK(chns)
  BY <1>1, <1>2, <1>3 DEF PermsOK, ChnsOK
<1>5. Pointed(perms, chns) /\ Owned(perms, chns)
  BY <1>2, <1>3 DEF Pointed, Owned
<1>6. GrantedOK(perms, granted) /\ BoundOK(chns, bound)
  BY <1>2, <1>3 DEF GrantedOK, BoundOK
<1>. QED BY <1>4, <1>5, <1>6 DEF TablesInv

LEMMA InvAddPermission ==
    ASSUME TablesInv, TablesConfigured, NEW a \in Addrs, AddPermission(a)
    PROVE  TablesInv'
<1>. DEFINE at == NewSlot(perms, HashOf[a])
<1>1. /\ PermsOK(perms) /\ ChnsOK(chns) /\ Pointed(perms, chns) /\ Owned(perms, chns)
      /\ GrantedOK(perms, granted) /\ BoundOK(chns, bound)
  BY DEF TablesInv
<1>2. /\ PermAt(a) = None /\ perms' = Stored(perms, at, NewPerm(a))
      /\ granted' = granted \cup {a} /\ chns' = chns /\ bound' = bound
  BY DEF AddPermission
<1>3. perms \in TablesOf(PermEntries) /\ HashOf[a] \in Buckets
  BY <1>1 DEF PermsOK, TablesConfigured
<1>4. /\ NewPerm(a) \in PermEntries /\ NewPerm(a) # Free
      /\ NewPerm(a).addr = a /\ NewPerm(a).chns = NewTable
      /\ MapOK(NewTable) /\ Used(NewTable) = {}
  BY NewPermFacts
<1>5. /\ Adds(perms, perms', at, NewPerm(a)) /\ perms' \in TablesOf(PermEntries) /\ at[1] = HashOf[a]
  BY <1>2, <1>3, <1>4, StoredNew
<1>6. \A o \in Used(perms) : Slot(perms, o).addr # a
  BY <1>1, <1>2, PermFind
<1>. HIDE DEF at
<1>7. PermsOK(perms')
  BY <1>1, <1>4, <1>5, <1>6, PermsAdd
<1>8. Pointed(perms', chns)
  BY <1>1, <1>4, <1>5, AddsPointed
<1>9. Owned(perms', chns)
  BY <1>1, <1>5, AddsOwned
<1>10. GrantedOK(perms', granted \cup {NewPerm(a).addr})
  BY <1>1, <1>5, GrantedAdd
<1>. QED BY <1>1, <1>2, <1>4, <1>7, <1>8, <1>9, <1>10 DEF TablesInv

LEMMA InvChannelDelete ==
    ASSUME TablesInv, TablesConfigured, NEW at \in Places(chns), ChannelDelete(at)
    PROVE  TablesInv'
<1>. DEFINE c == Slot(chns, at)
<1>1. /\ PermsOK(perms) /\ ChnsOK(chns) /\ Pointed(perms, chns) /\ Owned(perms, chns)
      /\ GrantedOK(perms, granted) /\ BoundOK(chns, bound)
  BY DEF TablesInv
<1>2. /\ at \in Used(chns) /\ chns' = Cleaned(chns, {at}) /\ granted' = granted
      /\ perms' = IF Slot(perms, c.owner) = Free THEN perms
                  ELSE [perms EXCEPT ![c.owner[1]][c.owner[2]].chns = LmDel(@, c.port)]
      /\ bound' = Restrict(bound, DOMAIN bound \ {c.num})
  BY DEF ChannelDelete
<1>3. chns \in TablesOf(ChnEntries)
  BY <1>1 DEF ChnsOK
<1>4. Frees(chns, chns', {at}) /\ chns' \in TablesOf(ChnEntries)
  BY <1>2, <1>3, CleanedFacts
<1>5. HasOwner(perms, c, at)
  BY <1>1, <1>2 DEF Owned
<1>6. c.port \in Nat
  BY <1>1, <1>2, EntryFacts DEF TablesConfigured
<1>7. Leaves(perms, perms', c.owner, c.port) /\ PermsOK(perms')
  <2>1. CASE Slot(perms, c.owner) = Free
    <3>1. perms' = perms /\ c.owner \notin Used(perms)
      BY <1>2, <2>1 DEF Used
    <3>. QED BY <1>1, <3>1 DEF Leaves
  <2>2. CASE Slot(perms, c.owner) # Free
    <3>1. c.owner \in Used(perms)
      BY <1>5, <2>2 DEF HasOwner, Used
    <3>2. c.port # 0 => \E q : Lists(Slot(perms, c.owner).chns, q, c.port)
      BY <1>5 DEF HasOwner, Listed, Lists
    <3>3. perms' = [perms EXCEPT ![c.owner[1]][c.owner[2]].chns = LmDel(@, c.port)]
      BY <1>2, <2>2
    <3>. HIDE DEF c
    <3>. QED BY <1>1, <1>6, <3>1, <3>2, <3>3, DeleteLeaves
  <2>. QED BY <2>1, <2>2
<1>8. ChnsOK(chns')
  BY <1>1, <1>4, ChnsFree
<1>9. Pointed(perms', chns')
  BY <1>1, <1>2, <1>4, <1>7, LeavesPoints
<1>10. Owned(perms', chns')
  BY <1>1, <1>2, <1>4, <1>7, LeavesOwned
<1>11. GrantedOK(perms', granted')
  BY <1>1, <1>2, <1>7, GrantedLeaves
<1>12. BoundOK(chns', bound')
  <2>1. BoundOK(chns', Restrict(bound, DOMAIN bound \ {Slot(chns, o).num : o \in {at}}))
    BY <1>1, <1>2, <1>4, BoundFree
  <2>2. {Slot(chns, o).num : o \in {at}} = {c.num}
    OBVIOUS
  <2>. QED BY <1>2, <2>1, <2>2
<1>. QED BY <1>7, <1>8, <1>9, <1>10, <1>11, <1>12 DEF TablesInv

LEMMA InvPermissionClean ==
    ASSUME TablesInv, TablesConfigured, NEW at \in Places(perms), PermissionClean(at)
    PROVE  TablesInv'
<1>. DEFINE gone == LmPointers(Slot(perms, at).chns)
<1>1. /\ PermsOK(perms) /\ ChnsOK(chns) /\ Pointed(perms, chns) /\ Owned(perms, chns)
      /\ GrantedOK(perms, granted) /\ BoundOK(chns, bound)
  BY DEF TablesInv
<1>2. /\ at \in Used(perms) /\ perms' = Cleaned(perms, {at}) /\ chns' = Cleaned(chns, gone)
      /\ bound' = Restrict(bound, DOMAIN bound \ {Slot(chns, c).num : c \in gone})
      /\ granted' = granted \ {Slot(perms, at).addr}
  BY DEF PermissionClean
<1>3. perms \in TablesOf(PermEntries) /\ chns \in TablesOf(ChnEntries)
  BY <1>1 DEF PermsOK, ChnsOK
<1>4. /\ Frees(perms, perms', {at}) /\ perms' \in TablesOf(PermEntries)
      /\ Frees(chns, chns', gone) /\ chns' \in TablesOf(ChnEntries)
  BY <1>2, <1>3, CleanedFacts
<1>5. PermsOK(perms') /\ ChnsOK(chns')
  BY <1>1, <1>4, PermsFree, ChnsFree
<1>6. Pointed(perms', chns') /\ gone \subseteq Used(chns)
  BY <1>1, <1>2, <1>4, CleanPoints
<1>7. Owned(perms', chns')
  BY <1>1, <1>2, <1>4, CleanOwned
<1>8. GrantedOK(perms', granted')
  BY <1>1, <1>2, <1>4, GrantedFree
<1>. HIDE DEF gone
<1>9. BoundOK(chns', bound')
  BY <1>1, <1>2, <1>4, <1>6, BoundFree
<1>. QED BY <1>5, <1>6, <1>7, <1>8, <1>9 DEF TablesInv

LEMMA InvClear ==
    ASSUME TablesConfigured, ClearAllocation
    PROVE  TablesInv'
<1>1. \A S : NewTable \in TablesOf(S)
  BY NewTableFacts
<1>2. Used(NewTable) = {}
  BY NewTableFacts
<1>3. perms' = NewTable /\ chns' = NewTable /\ granted' = {} /\ bound' = [n \in {} |-> n]
  BY DEF ClearAllocation
<1>4. PermsOK(perms') /\ ChnsOK(chns')
  BY <1>1, <1>2, <1>3 DEF PermsOK, ChnsOK
<1>5. Pointed(perms', chns') /\ Owned(perms', chns')
  BY <1>2, <1>3 DEF Pointed, Owned
<1>6. GrantedOK(perms', granted') /\ BoundOK(chns', bound')
  BY <1>2, <1>3 DEF GrantedOK, BoundOK
<1>. QED BY <1>4, <1>5, <1>6 DEF TablesInv

\* allocation_get_new_ch_info: the permission that is found or added gets the
\* channel, which is in neither table yet.
LEMMA InvNewChannel ==
    ASSUME TablesInv, TablesConfigured, NEW n \in Numbers, NEW a \in Addrs, NEW port \in Ports,
           NewChannel(n, a, port)
    PROVE  TablesInv'
<1>. DEFINE at == NewSlot(chns, n % HashSize)
           owner == IF PermAt(a) = None THEN NewSlot(perms, HashOf[a]) ELSE PermAt(a)
           perm == IF PermAt(a) = None THEN NewPerm(a) ELSE Slot(perms, owner)
           m == perm.chns
           e == [perm EXCEPT !.chns = LmPut(m, port, at)]
           c == [num |-> n, addr |-> a, port |-> port, owner |-> owner]
<1>1. /\ PermsOK(perms) /\ ChnsOK(chns) /\ Pointed(perms, chns) /\ Owned(perms, chns)
      /\ GrantedOK(perms, granted) /\ BoundOK(chns, bound)
  BY DEF TablesInv
<1>2. /\ ChannelAt(n) = None /\ ChannelOfPeer(a, port) = None
      /\ perms' = Stored(perms, owner, e) /\ chns' = Stored(chns, at, c)
      /\ granted' = granted \cup {a}
      /\ bound' = [k \in DOMAIN bound \cup {n} |-> IF k = n THEN <<a, port>> ELSE bound[k]]
  BY DEF NewChannel
<1>3. /\ perms \in TablesOf(PermEntries) /\ chns \in TablesOf(ChnEntries)
      /\ HashOf[a] \in Buckets /\ port \in Nat /\ n \in Nat
  BY <1>1 DEF PermsOK, ChnsOK, TablesConfigured
<1>4. n % HashSize \in Buckets
  BY <1>3, BucketOf
<1>5. /\ NewPerm(a) \in PermEntries /\ NewPerm(a) # Free
      /\ NewPerm(a).addr = a /\ NewPerm(a).chns = NewTable
      /\ MapOK(NewTable) /\ Used(NewTable) = {}
  BY NewPermFacts
<1>6. /\ PermAt(a) = None => \A o \in Used(perms) : Slot(perms, o).addr # a
      /\ PermAt(a) # None => PermAt(a) \in Used(perms) /\ Slot(perms, PermAt(a)).addr = a
  BY <1>1, PermFind
<1>7. \A o \in Used(chns) : Slot(chns, o).num # n
  BY <1>1, <1>2, ChannelFind
<1>8. perm \in PermEntries /\ perm.addr = a /\ MapOK(m)
  <2>1. CASE PermAt(a) = None
    BY <1>5, <2>1
  <2>2. CASE PermAt(a) # None
    BY <1>1, <1>6, <2>2, EntryFacts DEF PermsOK
  <2>. QED BY <2>1, <2>2
<1>9. at \in Positions
  <2>1. PICK i \in 1 .. Len(chns[n % HashSize]) + 1 : at = <<n % HashSize, i>>
    BY <1>3, <1>4, NewSlotFacts
  <2>2. Len(chns[n % HashSize]) \in Nat
    BY <1>3, <1>4, TableFacts
  <2>. QED BY <1>4, <2>1, <2>2 DEF Positions
<1>10. port # 0 => \A q : ~Lists(m, q, port)
  <2>1. CASE PermAt(a) = None
    BY <1>5, <2>1 DEF Lists
  <2>2. CASE PermAt(a) # None /\ port # 0
    <3>1. LmGet(m, port) = None
      BY <1>2, <2>2 DEF ChannelOfPeer
    <3>. HIDE DEF m
    <3>. QED BY <1>3, <1>8, <2>2, <3>1, GetFacts
  <2>. QED BY <2>1, <2>2
<1>11. Extends(m, LmPut(m, port, at), port, at)
  BY <1>3, <1>8, <1>9, <1>10, PutExtends
<1>12. /\ e \in PermEntries /\ e.chns = LmPut(m, port, at) /\ e.addr = a /\ MapOK(e.chns)
  BY <1>8, <1>11 DEF PermEntries, Extends, MapOK
<1>13. e # Free
  BY <1>12, NotFree DEF PermEntries
<1>14. /\ Grows(perms, perms', owner, e, m) /\ PermsOK(perms') /\ GrantedOK(perms', granted')
       /\ owner \in Positions
  <2>1. CASE PermAt(a) = None
    <3>1. owner = NewSlot(perms, HashOf[a])
      BY <2>1
    <3>2. Used(m) = {}
      BY <1>5, <2>1
    <3>. HIDE DEF e, m, owner
    <3>3. /\ Adds(perms, perms', owner, e) /\ perms' \in TablesOf(PermEntries) /\ owner[1] = HashOf[a]
          /\ owner \in Positions
      BY <1>2, <1>3, <1>12, <1>13, <3>1, StoredNew
    <3>4. PermsOK(perms')
      BY <1>1, <1>6, <1>12, <2>1, <3>3, PermsAdd
    <3>5. GrantedOK(perms', granted \cup {e.addr})
      BY <1>1, <3>3, GrantedAdd
    <3>6. Grows(perms, perms', owner, e, m)
      BY <3>2, <3>3, GrowsAdd
    <3>. QED BY <1>2, <1>12, <3>3, <3>4, <3>5, <3>6
  <2>2. CASE PermAt(a) # None
    <3>1. owner \in Used(perms) /\ Slot(perms, owner).addr = a /\ m = Slot(perms, owner).chns
      BY <1>6, <2>2
    <3>. HIDE DEF e, m, owner
    <3>2. Sets(perms, perms', owner, e) /\ perms' \in TablesOf(PermEntries)
      BY <1>2, <1>3, <1>12, <1>13, <3>1, StoredOver
    <3>3. PermsOK(perms') /\ \A o \in Used(perms) : Slot(perms', o).addr = Slot(perms, o).addr
      BY <1>1, <1>12, <3>1, <3>2, PermsSet
    <3>4. Grows(perms, perms', owner, e, m)
      BY <1>12, <3>1, <3>2, GrowsSet
    <3>5. a \in granted
      BY <1>1, <3>1 DEF GrantedOK
    <3>6. granted' = granted
      BY <1>2, <3>5
    <3>7. GrantedOK(perms', granted')
      BY <1>1, <3>2, <3>3, <3>6 DEF GrantedOK, Sets
    <3>8. owner \in Positions
      BY <1>1, <3>1, EntryFacts
    <3>. QED BY <3>3, <3>4, <3>7, <3>8
  <2>. QED BY <2>1, <2>2
<1>15. c \in ChnEntries /\ c.num = n /\ c.addr = a /\ c.port = port /\ c.owner = owner
  BY <1>14 DEF ChnEntries
<1>16. c # Free
  BY <1>15, NotFree DEF ChnEntries
<1>17. at = NewSlot(chns, n % HashSize)
  OBVIOUS
<1>. HIDE DEF at, owner, perm, m, e, c
<1>18. /\ Adds(chns, chns', at, c) /\ chns' \in TablesOf(ChnEntries) /\ at[1] = n % HashSize
  BY <1>2, <1>3, <1>4, <1>15, <1>16, <1>17, StoredNew
<1>19. ChnsOK(chns')
  BY <1>1, <1>7, <1>15, <1>18, ChnsAdd
<1>20. BoundOK(chns', bound')
  <2>1. bound' = BoundTo(bound, c.num, <<c.addr, c.port>>)
    BY <1>2, <1>15 DEF BoundTo
  <2>2. NoNumber(chns, c.num)
    BY <1>7, <1>15 DEF NoNumber
  <2>. QED BY <1>1, <1>18, <2>1, <2>2, BoundAdd
<1>21. Extends(m, e.chns, c.port, at)
  BY <1>11, <1>12, <1>15
<1>22. Pointed(perms', chns')
  BY <1>1, <1>14, <1>15, <1>18, <1>21, GrowsPoints
<1>23. Owned(perms', chns')
  BY <1>1, <1>12, <1>14, <1>15, <1>18, <1>21, GrowsOwned
<1>. QED BY <1>14, <1>19, <1>20, <1>22, <1>23 DEF TablesInv

LEMMA InvStutter ==
    ASSUME TablesInv, UNCHANGED tableVars
    PROVE  TablesInv'
<1>1. perms' = perms /\ chns' = chns /\ granted' = granted /\ bound' = bound
  BY DEF tableVars
<1>. QED BY <1>1 DEF TablesInv

LEMMA InvStep ==
    ASSUME TablesInv, TablesConfigured, [TablesNext]_tableVars
    PROVE  TablesInv'
<1>1. CASE \E a \in Addrs : AddPermission(a)
  BY <1>1, InvAddPermission
<1>2. CASE \E n \in Numbers, a \in Addrs, port \in Ports : NewChannel(n, a, port)
  BY <1>2, InvNewChannel
<1>3. CASE \E at \in Places(chns) : ChannelDelete(at)
  BY <1>3, InvChannelDelete
<1>4. CASE \E at \in Places(perms) : PermissionClean(at)
  BY <1>4, InvPermissionClean
<1>5. CASE ClearAllocation
  BY <1>5, InvClear
<1>6. CASE UNCHANGED tableVars
  BY <1>6, InvStutter
<1>. QED BY <1>1, <1>2, <1>3, <1>4, <1>5, <1>6 DEF TablesNext

\* The lookups find what the tables hold.
LEMMA InvLookups ==
    ASSUME TablesInv, TablesConfigured
    PROVE  LookupsRight
<1>1. /\ PermsOK(perms) /\ ChnsOK(chns) /\ Pointed(perms, chns) /\ Owned(perms, chns)
      /\ GrantedOK(perms, granted) /\ BoundOK(chns, bound)
  BY DEF TablesInv
<1>2. ASSUME NEW a \in Addrs PROVE PermAt(a) # None <=> a \in granted
  BY <1>1, PermFind DEF GrantedOK
<1>3. ASSUME NEW n \in Numbers
      PROVE  /\ ChannelAt(n) # None <=> n \in DOMAIN bound
             /\ ChannelAt(n) # None =>
                    LET c == Slot(chns, ChannelAt(n)) IN bound[n] = <<c.addr, c.port>>
  BY <1>1, ChannelFind DEF BoundOK
<1>4. ASSUME NEW a \in Addrs, NEW port \in Ports \ {0}
      PROVE  LET at == ChannelOfPeer(a, port)
                 ns == {n \in DOMAIN bound : bound[n] = <<a, port>>}
             IN  IF at = None THEN ns = {}
                 ELSE Slot(chns, at) # Free /\ ns = {Slot(chns, at).num}
  <2>. DEFINE at == ChannelOfPeer(a, port)
             ns == {n \in DOMAIN bound : bound[n] = <<a, port>>}
  <2>1. port \in Nat \ {0}
    BY DEF TablesConfigured
  <2>2. \A n : n \in ns <=> \E x \in Used(chns) : /\ Slot(chns, x).num = n
                                                 /\ Slot(chns, x).addr = a /\ Slot(chns, x).port = port
    <3>1. ASSUME NEW n \in ns
          PROVE  \E x \in Used(chns) : /\ Slot(chns, x).num = n
                                       /\ Slot(chns, x).addr = a /\ Slot(chns, x).port = port
      <4>1. PICK x \in Used(chns) : Slot(chns, x).num = n
        BY <1>1 DEF BoundOK
      <4>2. bound[n] = <<Slot(chns, x).addr, Slot(chns, x).port>>
        BY <1>1, <4>1 DEF BoundOK
      <4>. QED BY <4>1, <4>2
    <3>2. ASSUME NEW x \in Used(chns), Slot(chns, x).addr = a, Slot(chns, x).port = port
          PROVE  Slot(chns, x).num \in ns
      <4>1. Slot(chns, x).num \in DOMAIN bound
        BY <1>1 DEF BoundOK
      <4>2. bound[Slot(chns, x).num] = <<Slot(chns, x).addr, Slot(chns, x).port>>
        BY <1>1 DEF BoundOK
      <4>. QED BY <3>2, <4>1, <4>2
    <3>. HIDE DEF ns
    <3>. QED BY <3>1, <3>2
  \* A channel of the peer is found in the permission.
  <2>3. ASSUME NEW x \in Used(chns), Slot(chns, x).addr = a, Slot(chns, x).port = port
        PROVE  at = x
    <3>1. PICK c : c = Slot(chns, x)
      OBVIOUS
    <3>2. HasOwner(perms, c, x)
      BY <1>1, <3>1 DEF Owned
    <3>3. /\ c.owner \in Used(perms) /\ Slot(perms, c.owner).addr = a
          /\ Listed(Slot(perms, c.owner).chns, port, x)
      BY <2>1, <2>3, <3>1, <3>2 DEF HasOwner
    <3>4. PermAt(a) = c.owner /\ PermAt(a) # None
      BY <1>1, <3>3, PermFind DEF PermsOK
    <3>5. PICK m : m = Slot(perms, c.owner).chns
      OBVIOUS
    <3>6. MapOK(m)
      BY <1>1, <3>3, <3>5 DEF PermsOK
    <3>7. PICK q \in Used(m) : Slot(m, q).port = port /\ Slot(m, q).chn = x
      BY <3>3, <3>5 DEF Listed
    <3>8. \A r : Lists(m, r, port) => r = q
      BY <3>6, <3>7 DEF MapOK, MapKeyed, Lists
    <3>9. LmGet(m, port) = x
      BY <2>1, <3>6, <3>7, <3>8, GetFacts DEF Lists
    <3>. QED BY <3>4, <3>5, <3>9 DEF ChannelOfPeer
  \* What is found is a channel of the peer.
  <2>4. ASSUME at # None
        PROVE  at \in Used(chns) /\ Slot(chns, at).addr = a /\ Slot(chns, at).port = port
    <3>1. PermAt(a) # None
      BY <2>4 DEF ChannelOfPeer
    <3>2. PICK o \in Used(perms) : o = PermAt(a) /\ Slot(perms, o).addr = a
      BY <1>1, <3>1, PermFind
    <3>3. PICK m : m = Slot(perms, o).chns
      OBVIOUS
    <3>4. MapOK(m) /\ at = LmGet(m, port)
      BY <1>1, <3>1, <3>2, <3>3 DEF PermsOK, ChannelOfPeer
    <3>5. PICK q : Lists(m, q, port) /\ at = Slot(m, q).chn
      BY <2>1, <2>4, <3>4, GetFacts
    <3>6. Points(chns, o, Slot(m, q))
      BY <1>1, <3>3, <3>5 DEF Pointed, Lists
    <3>7. at \in Used(chns) /\ Slot(chns, at).owner = o /\ Slot(chns, at).port = port
      BY <3>5, <3>6 DEF Points, Lists
    <3>8. PICK c : c = Slot(chns, at)
      OBVIOUS
    <3>9. HasOwner(perms, c, at)
      BY <1>1, <3>7, <3>8 DEF Owned
    <3>. QED BY <2>1, <3>2, <3>7, <3>8, <3>9 DEF HasOwner
  <2>. HIDE DEF at, ns
  <2>5. at = None => ns = {}
    <3>. SUFFICES ASSUME at = None, NEW n \in ns PROVE FALSE
      OBVIOUS
    <3>1. PICK x \in Used(chns) : Slot(chns, x).addr = a /\ Slot(chns, x).port = port
      BY <2>2
    <3>2. x = None
      BY <2>3, <3>1
    <3>3. x \in Positions
      BY <1>1, <3>1, EntryFacts
    <3>. QED BY <3>2, <3>3 DEF None, Positions
  <2>6. at # None => Slot(chns, at) # Free /\ ns = {Slot(chns, at).num}
    BY <1>1, <2>2, <2>3, <2>4, EntryFacts
  <2>. QED BY <2>5, <2>6 DEF at, ns
<1>. QED BY <1>2, <1>3, <1>4 DEF LookupsRight

LEMMA InvNoStale ==
    ASSUME TablesInv, TablesConfigured
    PROVE  NoStalePointer
<1>1. PermsOK(perms) /\ ChnsOK(chns) /\ Pointed(perms, chns) /\ Owned(perms, chns)
  BY DEF TablesInv
<1>2. ASSUME NEW at \in Used(perms), NEW x \in LmPointers(Slot(perms, at).chns)
      PROVE  Slot(chns, x) # Free /\ Slot(chns, x).owner = at
  <2>1. PICK q \in Used(Slot(perms, at).chns) : x = Slot(Slot(perms, at).chns, q).chn
    BY DEF LmPointers
  <2>2. Points(chns, at, Slot(Slot(perms, at).chns, q))
    BY <1>1 DEF Pointed
  <2>. QED BY <1>1, <2>1, <2>2, EntryFacts DEF Points
<1>3. ASSUME NEW at \in Used(chns), Slot(chns, at).port # 0
      PROVE  LET c == Slot(chns, at) IN
             /\ c.owner \in Used(perms)
             /\ Slot(perms, c.owner).addr = c.addr
             /\ LmGet(Slot(perms, c.owner).chns, c.port) = at
  <2>1. PICK c : c = Slot(chns, at)
    OBVIOUS
  <2>2. HasOwner(perms, c, at)
    BY <1>1, <2>1 DEF Owned
  <2>3. c.port \in Nat \ {0}
    BY <1>1, <1>3, <2>1, EntryFacts DEF TablesConfigured
  <2>4. c.owner \in Used(perms) /\ Slot(perms, c.owner).addr = c.addr
        /\ Listed(Slot(perms, c.owner).chns, c.port, at)
    BY <1>3, <2>1, <2>2 DEF HasOwner
  <2>5. PICK m : m = Slot(perms, c.owner).chns
    OBVIOUS
  <2>6. MapOK(m)
    BY <1>1, <2>4, <2>5 DEF PermsOK
  <2>7. PICK q \in Used(m) : Slot(m, q).port = c.port /\ Slot(m, q).chn = at
    BY <2>4, <2>5 DEF Listed
  <2>8. \A r : Lists(m, r, c.port) => r = q
    BY <2>6, <2>7 DEF MapOK, MapKeyed, Lists
  <2>9. LmGet(m, c.port) = at
    BY <2>3, <2>6, <2>7, <2>8, GetFacts DEF Lists
  <2>. QED BY <2>1, <2>4, <2>5, <2>9
<1>. QED BY <1>2, <1>3 DEF NoStalePointer

LEMMA TablesInvariant == ASSUME TablesConfigured PROVE TablesSpec => []TablesInv
<1>1. TablesInit => TablesInv
  BY InvInit
<1>2. TablesInv /\ [TablesNext]_tableVars => TablesInv'
  BY InvStep
<1>. QED BY <1>1, <1>2, PTL DEF TablesSpec

\* get_from_turn_permission_hashtable, ch_map_get and
\* allocation_get_ch_info_by_peer_addr find what was put in the tables and not
\* deleted since, and nothing else, however the buckets of ns_turn_maps.c and of
\* the permissions grew and were emptied.
THEOREM LookupsStayRight == ASSUME TablesConfigured PROVE TablesSpec => []LookupsRight
<1>1. TablesInv => LookupsRight
  BY InvLookups
<1>. QED BY <1>1, TablesInvariant, PTL

\* turn_permission_clean and turn_channel_delete leave no pointer to a slot that
\* was emptied or has another owner by now, neither from a permission to its
\* channels nor from a channel with a port to its permission.
THEOREM PointersStayRight == ASSUME TablesConfigured PROVE TablesSpec => []NoStalePointer
<1>1. TablesInv => NoStalePointer
  BY InvNoStale
<1>. QED BY <1>1, TablesInvariant, PTL
=============================================================================
