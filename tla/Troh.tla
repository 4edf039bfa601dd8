-------------------------------- MODULE Troh --------------------------------
(***************************************************************************)
(* trohd and trohc: one TCP connection of a user carried to sshd through   *)
(* an HTTP comet server.  Each end has a CmdSender, which POSTs numbered   *)
(* packets one after the other ("cpush" from the user's end, "spush" from  *)
(* sshd's), and a CmdProvider, which pulls the other end's packets.  The   *)
(* user's end, VirtTcpD, writes in the order of the numbers; sshd's end,   *)
(* VirtTcpC, in the order of arrival.  The comet server is external.       *)
(***************************************************************************)
EXTENDS Integers, Sequences, FiniteSets, SequencesExt

CONSTANTS
    MaxConns,       \* connections of the user, one at a time (bound)
    MaxUser,        \* reads of a user's connection (bound)
    MaxSshd,        \* reads of an sshd connection (bound)
    MaxSshdCloses,  \* ends of a connection by sshd (bound)
    MaxFails,       \* POSTs that do not end well (bound)
    MaxRetrans,     \* packets asked for again (bound)
    MaxBatch,       \* packets in one answer of the comet server (bound)
    CacheLimit      \* cached packets before one is guessed lost (5 in the code)

VARIABLES
    sender,     \* [push -> CmdSender]
    table,      \* [push -> packets at the comet server, not yet pulled]
    stored,     \* [push -> every packet the comet server ever had]
    puller,     \* [push -> CmdProvider at the other end of it]
    user, sshd, \* the two TCP connections, with what each end read
    order,      \* VirtTcpD: last number written, cache, numbers written
    faulty,     \* the pushes whose packets may have been lost, repeated or reordered
    left        \* what is left of the bounds

vars == <<sender, table, stored, puller, user, sshd, order, faulty, left>>

Push == {"cpush", "spush"}
ClientGone == <<"realClientDisconnected-hoho">>
ServerGone == <<"realServerDisconnected-hoho">>

----------------------------------------------------------------------------
(* CmdSender.                                                              *)

\* A packet takes the next number; it is POSTed unless a POST is under way.
Sent(s, body) ==
    LET q == Append(s.q, [seq |-> s.seq, body |-> body]) IN
    [seq |-> s.seq + 1, requesting |-> TRUE,
     q |-> IF s.requesting THEN q ELSE Tail(q),
     flight |-> IF s.requesting THEN s.flight ELSE Append(s.flight, Head(q))]

\* onResetState: the numbers begin again.
Restarted(s) == [s EXCEPT !.seq = 1]

\* A POST ends.  An error other than the server's closing repeats it at once,
\* and then goes on to the next packet as if it had ended well.
Finished(s, i, again) ==
    LET rest == IF again THEN Append(RemoveAt(s.flight, i), s.flight[i])
                         ELSE RemoveAt(s.flight, i)
    IN IF s.q = <<>> THEN [s EXCEPT !.flight = rest, !.requesting = FALSE]
       ELSE [s EXCEPT !.flight = Append(rest, Head(s.q)), !.q = Tail(s.q),
                      !.requesting = TRUE]

RequestFinished(p, i, kept, again) ==
    /\ i \in DOMAIN sender[p].flight
    /\ IF kept /\ ~again THEN UNCHANGED <<faulty, left>>
       ELSE /\ left.fails > 0
            /\ left' = [left EXCEPT !.fails = @ - 1]
            /\ faulty' = faulty \cup {p}
    /\ sender' = [sender EXCEPT ![p] = Finished(@, i, again)]
    /\ IF kept
       THEN /\ table' = [table EXCEPT ![p] = Append(@, sender[p].flight[i])]
            /\ stored' = [stored EXCEPT ![p] = @ \cup {sender[p].flight[i]}]
       ELSE UNCHANGED <<table, stored>>
    /\ UNCHANGED <<puller, user, sshd, order>>

----------------------------------------------------------------------------
(* The comet server: an answer holds its header and some packets; each     *)
(* packet arrives in two parts, the second with the suffix that ends it.   *)

Header == [part |-> "header"]
Parts(pkt) == <<[part |-> "start"], [part |-> "end", pkt |-> pkt]>>

Answer(p, n) ==
    /\ puller[p].answer = <<>> /\ ~puller[p].asked
    /\ n \in 1..Len(table[p]) /\ n <= MaxBatch
    /\ puller' = [puller EXCEPT ![p].asked = TRUE, ![p].answer =
           <<Header>> \o FlattenSeq([k \in 1..n |-> Parts(table[p][k])])]
    /\ table' = [table EXCEPT ![p] = SubSeq(@, n + 1, Len(@))]
    /\ UNCHANGED <<sender, stored, user, sshd, order, faulty, left>>

\* rtcomet.php?ct=retran: a packet of this number is put out again.
Retransmit(seq) ==
    /\ seq \in order.wanted
    /\ order' = [order EXCEPT !.wanted = @ \ {seq}]
    /\ \E pkt \in stored["spush"]:
           pkt.seq = seq /\ table' = [table EXCEPT !["spush"] = Append(@, pkt)]
    /\ faulty' = faulty \cup {"spush"}
    /\ UNCHANGED <<sender, stored, puller, user, sshd, left>>

----------------------------------------------------------------------------
(* VirtTcpD, the user's end.                                               *)

\* A new connection forgets the order of the last one.
Fresh == [last |-> 0, cached |-> {}, traned |-> {}, wanted |-> {}]

OnNewConnection ==
    /\ ~user.open /\ user.conn < MaxConns
    /\ user' = [open |-> TRUE, conn |-> user.conn + 1, read |-> <<>>, wrote |-> 0]
    /\ order' = Fresh
    /\ UNCHANGED <<sender, table, stored, puller, sshd, faulty, left>>

OnUserReadyRead ==
    /\ user.open /\ user.wrote < MaxUser
    /\ user' = [user EXCEPT !.wrote = @ + 1]
    /\ sender' = [sender EXCEPT !["cpush"] = Sent(@, <<"user", user.conn, user.wrote + 1>>)]
    /\ UNCHANGED <<table, stored, puller, sshd, order, faulty, left>>

\* Mutant of UserGone: only the numbers begin again.
UserGoneQuietly(s) == Restarted(s)

\* onClientDisconnected: the other end is told, then the numbers begin again.
UserGone(s) == Restarted(Sent(s, ClientGone))

OnUserDisconnected ==
    /\ user.open
    /\ user' = [user EXCEPT !.open = FALSE]
    /\ sender' = [sender EXCEPT !["cpush"] = UserGone(@)]
    /\ UNCHANGED <<table, stored, puller, sshd, order, faulty, left>>

\* Mutant of InOrder: the cache written out as it is.
InAnyOrder(cached, last) == SetToSeq(cached)

\* getNextPacket, until the next number is not in the cache.
InOrder(cached, last) ==
    LET seqs == {pkt.seq: pkt \in cached}
        runs == {n \in 1..Cardinality(cached): \A k \in 1..n: last + k \in seqs}
    IN [k \in runs |-> CHOOSE pkt \in cached: pkt.seq = last + k]

\* A packet with a number that was written is left; the other end's goodbye
\* passes every packet that waits; more than CacheLimit waiting packets make
\* the next number be asked for again, now and then only when it was before.
UserEndReceives(pkt) ==
    \/ /\ pkt.seq \in order.traned \/ ~user.open
       /\ UNCHANGED <<sender, user, order, left>>
    \/ /\ pkt.seq \notin order.traned /\ user.open /\ pkt.body = ServerGone
       /\ user' = [user EXCEPT !.open = FALSE]
       /\ sender' = [sender EXCEPT !["cpush"] = UserGone(@)]
       /\ UNCHANGED <<order, left>>
    \/ /\ pkt.seq \notin order.traned /\ user.open /\ pkt.body # ServerGone
       /\ LET cached == {c \in order.cached: c.seq # pkt.seq} \cup {pkt}
              run == InOrder(cached, order.last)
              rest == cached \ ToSet(run)
              lost == order.last + Len(run) + 1
          IN /\ user' = [user EXCEPT !.read = @ \o [k \in DOMAIN run |-> run[k].body]]
             /\ \E ask \in BOOLEAN:
                    /\ ask => Cardinality(rest) > CacheLimit /\ left.retrans > 0
                    /\ order' = [last |-> lost - 1, cached |-> rest,
                                 traned |-> order.traned \cup {c.seq: c \in ToSet(run)},
                                 wanted |-> order.wanted \cup (IF ask THEN {lost} ELSE {})]
                    /\ left' = IF ask THEN [left EXCEPT !.retrans = @ - 1] ELSE left
       /\ UNCHANGED sender

----------------------------------------------------------------------------
(* VirtTcpC, sshd's end.                                                   *)

\* onClientDisconnected.
SshdGone(s) == Restarted(Sent(s, ServerGone))

OnSshdReadyRead ==
    /\ sshd.open /\ sshd.wrote < MaxSshd
    /\ sshd' = [sshd EXCEPT !.wrote = @ + 1]
    /\ sender' = [sender EXCEPT !["spush"] = Sent(@, <<"sshd", sshd.conn, sshd.wrote + 1>>)]
    /\ UNCHANGED <<table, stored, puller, user, order, faulty, left>>

OnSshdDisconnected ==
    /\ sshd.open /\ left.closes > 0
    /\ left' = [left EXCEPT !.closes = @ - 1]
    /\ sshd' = [sshd EXCEPT !.open = FALSE]
    /\ sender' = [sender EXCEPT !["spush"] = SshdGone(@)]
    /\ UNCHANGED <<table, stored, puller, user, order, faulty>>

\* The user's goodbye closes the connection; data makes a new one when there
\* is none, and is written whatever its number.
SshdEndReceives(pkt) ==
    \/ /\ pkt.body = ClientGone
       /\ sshd' = [sshd EXCEPT !.open = FALSE]
       /\ sender' = IF sshd.open THEN [sender EXCEPT !["spush"] = SshdGone(@)] ELSE sender
    \/ /\ pkt.body # ClientGone
       /\ sshd' = IF sshd.open THEN [sshd EXCEPT !.read = Append(@, pkt.body)]
                  ELSE [open |-> TRUE, conn |-> sshd.conn + 1, read |-> <<pkt.body>>, wrote |-> 0]
       /\ UNCHANGED sender

----------------------------------------------------------------------------
(* CmdProvider.                                                            *)

\* parsePacket: the header is cut off, and then one packet at most.
Parse(p, units) ==
    LET buf == puller[p].buf \o units
        body == puller[p].body \/ Header \in ToSet(buf)
        text == SelectSeq(buf, LAMBDA u: u # Header)
        ends == {k \in DOMAIN text: text[k].part = "end"}
        first == CHOOSE k \in ends: \A j \in ends: k <= j
    IN IF body /\ ends # {}
       THEN [body |-> TRUE, buf |-> SubSeq(text, first + 1, Len(text)),
             pkts |-> <<text[first].pkt>>]
       ELSE [body |-> body, buf |-> text, pkts |-> <<>>]

\* onCometClientReadyRead: n parts arrive in one read.
OnCometReadyRead(p, n) ==
    /\ n \in 1..Len(puller[p].answer)
    /\ LET parsed == Parse(p, SubSeq(puller[p].answer, 1, n)) IN
       /\ puller' = [puller EXCEPT ![p] =
              [asked |-> TRUE, body |-> parsed.body, buf |-> parsed.buf,
               answer |-> SubSeq(@.answer, n + 1, Len(@.answer))]]
       /\ \/ parsed.pkts = <<>> /\ UNCHANGED <<sender, user, sshd, order, left>>
          \/ /\ parsed.pkts # <<>> /\ p = "spush"
             /\ UserEndReceives(parsed.pkts[1]) /\ UNCHANGED sshd
          \/ /\ parsed.pkts # <<>> /\ p = "cpush"
             /\ SshdEndReceives(parsed.pkts[1]) /\ UNCHANGED <<user, order, left>>
    /\ UNCHANGED <<table, stored, faulty>>

\* onCometClientDisconnected: what was not cut off is lost; the next request.
Idle == [asked |-> FALSE, body |-> FALSE, buf |-> <<>>, answer |-> <<>>]

OnCometDisconnected(p) ==
    /\ puller[p].asked /\ puller[p].answer = <<>>
    /\ puller' = [puller EXCEPT ![p] = Idle]
    /\ faulty' = IF \E u \in ToSet(puller[p].buf): u.part = "end"
                 THEN faulty \cup {p} ELSE faulty
    /\ UNCHANGED <<sender, table, stored, user, sshd, order, left>>

----------------------------------------------------------------------------
Init ==
    /\ sender = [p \in Push |-> [seq |-> 1, requesting |-> FALSE, q |-> <<>>, flight |-> <<>>]]
    /\ table = [p \in Push |-> <<>>]
    /\ stored = [p \in Push |-> {}]
    /\ puller = [p \in Push |-> Idle]
    /\ user = [open |-> FALSE, conn |-> 0, read |-> <<>>, wrote |-> 0]
    /\ sshd = [open |-> FALSE, conn |-> 0, read |-> <<>>, wrote |-> 0]
    /\ order = Fresh
    /\ faulty = {}
    /\ left = [closes |-> MaxSshdCloses, fails |-> MaxFails, retrans |-> MaxRetrans]

Next ==
    \/ OnNewConnection
    \/ OnUserReadyRead
    \/ OnUserDisconnected
    \/ OnSshdReadyRead
    \/ OnSshdDisconnected
    \/ \E p \in Push, kept, again \in BOOLEAN:
           \E i \in DOMAIN sender[p].flight: RequestFinished(p, i, kept, again)
    \/ \E p \in Push: \E n \in 1..MaxBatch: Answer(p, n)
    \/ \E p \in Push: \E n \in DOMAIN puller[p].answer: OnCometReadyRead(p, n)
    \/ \E p \in Push: OnCometDisconnected(p)
    \/ \E seq \in order.wanted: Retransmit(seq)

Spec == Init /\ [][Next]_vars

----------------------------------------------------------------------------
\* What the user reads has the numbers 1, 2, ... of an sshd connection, each
\* once, whatever happens to POSTs and answers.  It is what one connection wrote
\* as long as no packet to the user was lost, repeated or put out again: without
\* its goodbye the packets of the next connection follow those of the last.
UserReadsStream ==
    /\ \A i \in DOMAIN user.read: user.read[i] \in {<<"sshd", c, i>>: c \in 1..sshd.conn}
    /\ "spush" \notin faulty =>
           \E c \in 0..sshd.conn: user.read = [i \in DOMAIN user.read |-> <<"sshd", c, i>>]

\* As long as no packet to sshd was lost or repeated, what sshd reads is a piece
\* of what one user connection wrote, in its order.  It begins in the middle when
\* sshd ended the last connection and data was still under way.
SshdReadsStream ==
    "cpush" \notin faulty =>
        \E c \in 1..MaxConns, k \in 0..MaxUser:
            sshd.read = [i \in DOMAIN sshd.read |-> <<"user", c, k + i>>]

StreamsIntact == UserReadsStream /\ SshdReadsStream

\* As long as no packet to sshd was lost or repeated, no end stays open alone:
\* when all is quiet and the user is gone, so is sshd's connection.
NoneLeftOpen ==
    /\ "cpush" \notin faulty /\ ~user.open
    /\ \A p \in Push: sender[p].flight = <<>> /\ table[p] = <<>> /\ puller[p] = Idle
    => ~sshd.open
=============================================================================
