-------------------------- MODULE ToxNetTunProofs --------------------------
(***************************************************************************)
(* Theorems about ToxNetTun, for any sizes of the buffer and the windows,  *)
(* any number of pieces and however often the friends lose each other.     *)
(***************************************************************************)
EXTENDS ToxNetTun, FiniteSetTheorems, SequenceTheorems, WellFoundedInduction, TLAPS

(***************************************************************************)
(* The inductive invariant.                                                *)
(***************************************************************************)

\* What is on its way to either side, and the events of its queue.
ToCli == ToSet(cliq) \cup ToSet(toClient)
ToSrv == ToSet(srvq) \cup ToSet(toServer)

FinStates == {"FIN_WAIT_1", "FIN_WAIT_2", "TIME_WAIT"}
FinReceived == {"CLOSE_WAIT", "LAST_ACK", "CLOSED"}

\* The number of the first packet that is still in the buffer.
Base(u) == u.selfseq - Len(u.sndpkts)

\* The buffer holds the last numbers and the window some before them.
Numbered(u) ==
    /\ Base(u) >= 1
    /\ \A i \in DOMAIN u.sndpkts : u.sndpkts[i].seq = Base(u) + i - 1
    /\ IsFiniteSet(u.sndwins)
    /\ \A p \in u.sndwins : p.seq < Base(u)

\* The buffer is not full unless the window is.
Buffered(u) ==
    Numbered(u) /\ (Len(u.sndpkts) >= BufSize => Cardinality(u.sndwins) >= WinSize)

Waiting(u) == ToSet(u.sndpkts) \cup u.sndwins

\* In q nothing of the types after comes behind one of type first.
Behind(q, first, after) ==
    \A i, j \in DOMAIN q : i < j /\ q[i].type = first => q[j].type \notin after

Has(Q, type) == \E e \in Q : e.type = type
Once(q, type) ==
    \A i, j \in DOMAIN q : q[i].type = type /\ q[j].type = type => i = j

\* What got has been given and u is about to give is 1, 2, 3, ...
GivenInOrder(u, got) ==
    /\ got = [i \in 1..Len(got) |-> i]
    /\ Len(got) < u.rcvseq
    /\ u.rcvwins = Len(got) + 1 .. u.rcvseq - 1

\* The numbers u has been sent.
HeldBy(u) == u.rcvpkts \cup 1 .. u.rcvseq - 1

\* In q one of the type comes, and none of the events before comes before it.
Comes(q, type, before) ==
    \E i \in DOMAIN q : q[i].type = type /\ \A j \in 1 .. i - 1 : q[j] \notin before

Announced(q) == Comes(q, "connected", [type : {"SRVFIN"}, seq : Nat])

\* The window of u is not empty when bytesWritten is handled.
RoomAnnounced(u, q) ==
    \E p \in u.sndwins : Comes(q, "bytesWritten", {Pkt("DATA_ACK", p.seq)})

-----------------------------------------------------------------------------
\* Before the SYN has come nothing else is under way.
NotYet ==
    /\ srv = NewSrudp /\ cli.state = "SYN_SENT"
    /\ toClient = << >> /\ cliq = << >> /\ cli.calls = 0
    /\ Len(toServer) + Len(srvq) <= 1
    /\ \A p \in ToSrv : p.type = "SYN"
    /\ back = [state |-> "connecting", unread |-> 0] /\ served = 0
    /\ backGot = << >>

\* How far the two state machines are.
Stages ==
    /\ srv.state \in {"INIT", "SYN_RCVD", "ESTAB"} \cup FinStates
    /\ cli.state \in {"SYN_SENT", "ESTAB"} \cup FinReceived
    /\ ~srv.self_passive_close
    /\ srv.state = "INIT" => NotYet
    /\ srv.state # "INIT" => ~Has(ToSrv, "SYN")
    /\ cli.state = "SYN_SENT" =>
        srv.state \in {"INIT", "SYN_RCVD"} /\ ~Has(ToSrv, "SYN_ACK")
        /\ ~Has(ToSet(cliq), "connected")
    /\ cli.state \in FinReceived => srv.state \in FinStates /\ cli.self_passive_close
    /\ \A e \in ToCli :
        e.type \in {"SYN2", "DATA", "DATA_ACK", "SRVFIN", "CLIFIN_ACK"} \cup Signals
    /\ \A e \in ToSrv :
        e.type \in {"SYN", "SYN_ACK", "DATA", "DATA_ACK", "SRVFIN_ACK", "CLIFIN"} \cup Signals
    /\ Has(ToCli, "SRVFIN") => srv.state \in FinStates
    /\ Has(ToSrv, "CLIFIN") \/ srv.state = "TIME_WAIT" =>
        cli.state \in {"LAST_ACK", "CLOSED"}

\* SYN2 is sent once.
OneSyn2 ==
    /\ Once(cliq, "SYN2") /\ Once(toClient, "SYN2")
    /\ ~(Has(ToSet(cliq), "SYN2") /\ Has(ToSet(toClient), "SYN2"))
    /\ Has(ToCli, "SYN2") => cli.state = "SYN_SENT"

Senders ==
    /\ Buffered(srv)
    /\ \A p \in Waiting(srv) :
        p.type = "DATA" \/ (p.type = "SRVFIN" /\ srv.state \in FinStates)
    /\ Numbered(cli) /\ cli.sndpkts = << >>
    /\ \A p \in cli.sndwins :
        p.type = "CLIFIN" /\ cli.state \in {"LAST_ACK", "CLOSED"}

\* The server's pieces on their way: in the buffer, in the window, under way
\* and at the client.
Down ==
    /\ \A p \in Waiting(srv) : p.type = "DATA" => p.seq \in 1..served
    /\ \A p \in ToCli : p.type = "DATA" => p.seq \in 1..served /\ p.seq < Base(srv)
    /\ \A p \in ToSrv : p.type = "DATA_ACK" => p.seq \in HeldBy(cli)
    /\ \A n \in HeldBy(cli) : n \in 1..served /\ n < Base(srv)
    /\ GivenInOrder(cli, appGot)
    /\ \A n \in 1..served - back.unread : n \in HeldBy(cli) \cup SeqsOf(Waiting(srv))
    /\ srv.state \notin FinStates => srv.selfseq + back.unread = served + 1

\* The client's pieces.
Up ==
    /\ \A p \in ToSrv : p.type = "DATA" => p.seq \in 1..wrote
    /\ \A n \in HeldBy(srv) : n \in 1..wrote
    /\ GivenInOrder(srv, backGot)
    /\ cli.state \in {"SYN_SENT", "ESTAB", "CLOSE_WAIT"} =>
        cli.selfseq + app.unread = wrote + 1
    /\ cli.state \in {"LAST_ACK", "CLOSED"} => cli.selfseq = wrote + 2 /\ app.state = "closed"
    /\ cli.state \in FinReceived => app.unread = 0
    /\ cli.state = "ESTAB" /\ app.unread > 0 => Announced(cliq)

\* What the backend has sent and the server has not read is read when the
\* buffer has room again: that is announced before the window can be empty.
ReadAgain ==
    back.unread > 0 => Len(srv.sndpkts) >= BufSize \/ RoomAnnounced(srv, srvq)

\* Closing waits for the data.
Closing ==
    /\ srv.closed => back.state \in {"closed", "refused"}
    /\ cli.closed => app.state = "closed"
    /\ srv.state \in FinStates =>
        /\ srv.closed /\ back.unread = 0
        /\ 1..served \subseteq HeldBy(cli) /\ srv.selfseq = served + 2
        /\ srv.sndpkts = << >> /\ \A p \in srv.sndwins : p.type = "SRVFIN"
    /\ Once(srvq, "canClose") /\ Once(cliq, "canClose")
    /\ Has(ToSet(srvq), "canClose") =>
        /\ srv.state = "ESTAB" /\ srv.closed /\ back.unread = 0
        /\ srv.sndwins = {} /\ srv.sndpkts = << >>
    /\ Has(ToSet(cliq), "canClose") => cli.state = "CLOSE_WAIT" /\ cli.closed
    /\ ~srv.known => srv.state \in {"INIT", "TIME_WAIT"}

\* Behind a FIN there is no data, and behind the last signal no other.
Quiet ==
    /\ Behind(cliq, "SRVFIN", {"DATA"}) /\ Behind(toClient, "SRVFIN", {"DATA"})
    /\ Has(ToSet(cliq), "SRVFIN") => ~Has(ToSet(toClient), "DATA")
    /\ cli.state \in FinReceived => ~Has(ToCli, "DATA")
    /\ Behind(srvq, "CLIFIN", {"DATA"}) /\ Behind(toServer, "CLIFIN", {"DATA"})
    /\ Has(ToSet(srvq), "CLIFIN") => ~Has(ToSet(toServer), "DATA")
    /\ srv.state = "TIME_WAIT" => ~Has(ToSrv, "DATA")
    /\ Behind(cliq, "disconnected", {"readyRead"})
    /\ Has(ToSet(cliq), "disconnected") => cli.state = "CLOSED" /\ cli.calls = 0
    /\ cli.rudp_close =>
        cli.state = "CLOSED" /\ cli.calls = 0 /\ ~Has(ToSet(cliq), "readyRead")
    /\ ~cli.known => cli.rudp_close
    /\ Behind(srvq, "disconnected", {"readyRead", "bytesWritten"})
    /\ Has(ToSet(srvq), "disconnected") => srv.state = "TIME_WAIT" /\ srv.calls = 0
    /\ srv.rudp_close =>
        srv.state = "TIME_WAIT" /\ srv.calls = 0
        /\ ~Has(ToSet(srvq), "readyRead") /\ ~Has(ToSet(srvq), "bytesWritten")
    /\ ~srv.known => srv.state = "INIT" \/ srv.rudp_close
    /\ srv.can_close => srv.state \notin {"INIT", "SYN_RCVD"}
    /\ srv.can_close /\ srv.state = "ESTAB" => Has(ToSet(srvq), "canClose")
    /\ raised = {}

TunInv ==
    TypeOK /\ Stages /\ OneSyn2 /\ Senders /\ Down /\ Up /\ ReadAgain /\ Closing /\ Quiet

-----------------------------------------------------------------------------
(***************************************************************************)
(* Sequences.                                                              *)
(***************************************************************************)
LEMMA ToSetSeq ==
    ASSUME NEW S, NEW s \in Seq(S)
    PROVE  /\ ToSet(s) \subseteq S
           /\ ToSet(s) = {s[i] : i \in 1..Len(s)}
           /\ s = << >> => ToSet(s) = {}
BY DEF ToSet

LEMMA ToSetTail ==
    ASSUME NEW S, NEW s \in Seq(S), s # << >>
    PROVE  /\ Tail(s) \in Seq(S) /\ Head(s) \in S
           /\ Head(s) \in ToSet(s) /\ ToSet(Tail(s)) \subseteq ToSet(s)
           /\ Len(Tail(s)) = Len(s) - 1 /\ Head(s) = s[1] /\ Len(s) \in Nat \ {0}
           /\ \A i \in 1 .. Len(s) - 1 : Tail(s)[i] = s[i + 1]
<1>1. /\ Tail(s) \in Seq(S) /\ Head(s) \in S
      /\ Len(Tail(s)) = Len(s) - 1
      /\ \A i \in 1 .. Len(Tail(s)) : Tail(s)[i] = s[i + 1]
  BY HeadTailProperties, Zenon
<1>2. Len(s) \in Nat \ {0}
  BY EmptySeq, Zenon
<1>3. Head(s) = s[1]
  BY DEF Head
<1>4. \A i \in 1 .. Len(s) - 1 : Tail(s)[i] = s[i + 1] /\ i + 1 \in 1..Len(s)
  BY <1>1, <1>2
<1>5. ToSet(Tail(s)) = {Tail(s)[i] : i \in 1 .. Len(s) - 1}
  <2>1. ToSet(Tail(s)) = {Tail(s)[i] : i \in 1 .. Len(Tail(s))}
    BY <1>1, ToSetSeq, Zenon
  <2> QED
    BY <1>1, <2>1, Zenon
<1>6. ToSet(s) = {s[i] : i \in 1..Len(s)}
  BY ToSetSeq
<1>7. ToSet(Tail(s)) \subseteq ToSet(s)
  BY <1>4, <1>5, <1>6
<1>8. 1 \in 1..Len(s)
  BY <1>2
<1> QED
  BY <1>1, <1>2, <1>3, <1>4, <1>6, <1>7, <1>8

LEMMA ToSetConcat ==
    ASSUME NEW S, NEW s \in Seq(S), NEW t \in Seq(S)
    PROVE  s \o t \in Seq(S) /\ ToSet(s \o t) = ToSet(s) \cup ToSet(t)
<1>1. /\ s \o t \in Seq(S) /\ Len(s \o t) = Len(s) + Len(t)
      /\ \A i \in 1 .. Len(s) + Len(t) :
           (s \o t)[i] = IF i <= Len(s) THEN s[i] ELSE t[i - Len(s)]
  BY ConcatProperties, Zenon
<1>2. Len(s) \in Nat /\ Len(t) \in Nat
  BY LenProperties, Zenon
<1>3. \A i \in 1..Len(s) : (s \o t)[i] = s[i] /\ i \in 1 .. Len(s) + Len(t)
  BY <1>1, <1>2
<1>4. \A i \in 1..Len(t) : (s \o t)[Len(s) + i] = t[i] /\ Len(s) + i \in 1 .. Len(s) + Len(t)
  BY <1>1, <1>2
<1>5. \A i \in 1 .. Len(s) + Len(t) :
        \/ i \in 1..Len(s) /\ (s \o t)[i] = s[i]
        \/ i - Len(s) \in 1..Len(t) /\ (s \o t)[i] = t[i - Len(s)]
  BY <1>1, <1>2
<1>6. /\ ToSet(s \o t) = {(s \o t)[i] : i \in 1 .. Len(s) + Len(t)}
      /\ ToSet(s) = {s[i] : i \in 1..Len(s)} /\ ToSet(t) = {t[i] : i \in 1..Len(t)}
  <2>1. ToSet(s \o t) = {(s \o t)[i] : i \in 1 .. Len(s \o t)}
    BY <1>1, ToSetSeq, Zenon
  <2> QED
    BY <1>1, <2>1, ToSetSeq, Zenon
<1>7. ToSet(s \o t) \subseteq ToSet(s) \cup ToSet(t)
  BY <1>5, <1>6
<1>8. ToSet(s) \cup ToSet(t) \subseteq ToSet(s \o t)
  BY <1>3, <1>4, <1>6
<1> QED
  BY <1>1, <1>7, <1>8

LEMMA ToSetAppend ==
    ASSUME NEW S, NEW s \in Seq(S), NEW e \in S
    PROVE  Append(s, e) \in Seq(S) /\ ToSet(Append(s, e)) = ToSet(s) \cup {e}
<1>1. <<e>> \in Seq(S) /\ ToSet(<<e>>) = {e}
  BY DEF ToSet
<1>2. Append(s, e) = s \o <<e>>
  BY AppendIsConcat, Zenon
<1>3. s \o <<e>> \in Seq(S) /\ ToSet(s \o <<e>>) = ToSet(s) \cup ToSet(<<e>>)
  <2>1. PICK t : t = <<e>>
    OBVIOUS
  <2>2. t \in Seq(S)
    BY <1>1, <2>1
  <2>3. s \o t \in Seq(S) /\ ToSet(s \o t) = ToSet(s) \cup ToSet(t)
    BY <2>2, ToSetConcat, Zenon
  <2> QED
    BY <2>1, <2>3, Zenon
<1> QED
  BY <1>1, <1>2, <1>3

\* A queue whose head has been handled, and one that has been added to.
LEMMA BehindTail ==
    ASSUME NEW S, NEW s \in Seq(S), s # << >>, NEW first, NEW after,
           Behind(s, first, after)
    PROVE  /\ Behind(Tail(s), first, after)
           /\ Head(s).type = first => \A e \in ToSet(Tail(s)) : e.type \notin after
<1> DEFINE t == Tail(s)
<1>1. /\ t \in Seq(S) /\ Len(t) = Len(s) - 1 /\ Head(s) = s[1] /\ Len(s) \in Nat \ {0}
      /\ \A i \in 1 .. Len(s) - 1 : t[i] = s[i + 1]
  BY ToSetTail, Zenon
<1>2. DOMAIN s = 1..Len(s) /\ DOMAIN t = 1 .. Len(s) - 1
  BY <1>1, LenProperties
<1>3. ToSet(t) = {t[i] : i \in DOMAIN t}
  BY Zenon DEF ToSet
<1> HIDE DEF t
<1>4. \A i, j \in DOMAIN t :
        i < j => i + 1 \in DOMAIN s /\ j + 1 \in DOMAIN s /\ i + 1 < j + 1
  BY <1>1, <1>2
<1>5. Behind(t, first, after)
  BY <1>1, <1>2, <1>4 DEF Behind
<1>6. ASSUME Head(s).type = first, NEW e \in ToSet(t)
      PROVE  e.type \notin after
  <2>1. PICK i \in DOMAIN t : e = t[i]
    BY <1>3, <1>6
  <2>2. i + 1 \in DOMAIN s /\ 1 \in DOMAIN s /\ 1 < i + 1 /\ e = s[i + 1]
    BY <1>1, <1>2, <2>1
  <2> QED
    BY <1>1, <1>6, <2>2 DEF Behind
<1> QED
  BY <1>5, <1>6 DEF t

LEMMA BehindConcat ==
    ASSUME NEW S, NEW s \in Seq(S), NEW t \in Seq(S), NEW first, NEW after,
           Behind(s, first, after), Behind(t, first, after),
           Has(ToSet(s), first) => \A e \in ToSet(t) : e.type \notin after
    PROVE  Behind(s \o t, first, after)
<1>1. /\ s \o t \in Seq(S) /\ Len(s \o t) = Len(s) + Len(t)
      /\ \A i \in 1 .. Len(s) + Len(t) :
           (s \o t)[i] = IF i <= Len(s) THEN s[i] ELSE t[i - Len(s)]
  BY ConcatProperties, Zenon
<1>2. /\ Len(s) \in Nat /\ Len(t) \in Nat
      /\ DOMAIN s = 1..Len(s) /\ DOMAIN t = 1..Len(t) /\ DOMAIN (s \o t) = 1 .. Len(s) + Len(t)
  BY <1>1, LenProperties
<1>3. /\ \A i \in DOMAIN s : s[i] \in ToSet(s)
      /\ \A i \in DOMAIN t : t[i] \in ToSet(t)
  BY DEF ToSet
<1> SUFFICES ASSUME NEW i \in DOMAIN (s \o t), NEW j \in DOMAIN (s \o t), i < j,
                    (s \o t)[i].type = first
             PROVE  (s \o t)[j].type \notin after
  BY Zenon DEF Behind
<1>4. CASE j <= Len(s)
  <2>1. i \in DOMAIN s /\ j \in DOMAIN s /\ (s \o t)[i] = s[i] /\ (s \o t)[j] = s[j]
    BY <1>1, <1>2, <1>4
  <2> QED
    BY <2>1 DEF Behind
<1>5. CASE j > Len(s) /\ i <= Len(s)
  <2>1. i \in DOMAIN s /\ j - Len(s) \in DOMAIN t /\ (s \o t)[i] = s[i]
        /\ (s \o t)[j] = t[j - Len(s)]
    BY <1>1, <1>2, <1>5
  <2> QED
    BY <1>3, <2>1, Zenon DEF Has
<1>6. CASE j > Len(s) /\ i > Len(s)
  <2>1. /\ i - Len(s) \in DOMAIN t /\ j - Len(s) \in DOMAIN t /\ i - Len(s) < j - Len(s)
        /\ (s \o t)[i] = t[i - Len(s)] /\ (s \o t)[j] = t[j - Len(s)]
    BY <1>1, <1>2, <1>6
  <2> QED
    BY <2>1, Zenon DEF Behind
<1> QED
  BY <1>1, <1>2, <1>4, <1>5, <1>6

LEMMA OnceTail ==
    ASSUME NEW S, NEW s \in Seq(S), s # << >>, NEW type, Once(s, type)
    PROVE  /\ Once(Tail(s), type)
           /\ Head(s).type = type => ~Has(ToSet(Tail(s)), type)
<1> DEFINE t == Tail(s)
<1>1. /\ t \in Seq(S) /\ Len(t) = Len(s) - 1 /\ Head(s) = s[1] /\ Len(s) \in Nat \ {0}
      /\ \A i \in 1 .. Len(s) - 1 : t[i] = s[i + 1]
  BY ToSetTail, Zenon
<1>2. DOMAIN s = 1..Len(s) /\ DOMAIN t = 1 .. Len(s) - 1
  BY <1>1, LenProperties
<1>3. ToSet(t) = {t[i] : i \in DOMAIN t}
  BY Zenon DEF ToSet
<1> HIDE DEF t
<1>4. \A i \in DOMAIN t : i + 1 \in DOMAIN s /\ t[i] = s[i + 1]
  BY <1>1, <1>2
<1>5. Once(t, type)
  <2> SUFFICES ASSUME NEW i \in DOMAIN t, NEW j \in DOMAIN t,
                      t[i].type = type, t[j].type = type
               PROVE  i = j
    BY DEF Once
  <2>1. i + 1 = j + 1
    BY <1>4 DEF Once
  <2> QED
    BY <1>2, <2>1
<1>6. ASSUME Head(s).type = type, NEW e \in ToSet(t), e.type = type
      PROVE  FALSE
  <2>1. PICK i \in DOMAIN t : e = t[i]
    BY <1>3, <1>6
  <2>2. i + 1 \in DOMAIN s /\ 1 \in DOMAIN s /\ 1 # i + 1 /\ e = s[i + 1]
    BY <1>1, <1>2, <2>1
  <2> QED
    BY <1>1, <1>6, <2>2 DEF Once
<1> QED
  BY <1>5, <1>6 DEF t, Has

LEMMA OnceConcat ==
    ASSUME NEW S, NEW s \in Seq(S), NEW t \in Seq(S), NEW type,
           Once(s, type), Once(t, type),
           ~Has(ToSet(s), type) \/ ~Has(ToSet(t), type)
    PROVE  Once(s \o t, type)
<1>1. /\ s \o t \in Seq(S) /\ Len(s \o t) = Len(s) + Len(t)
      /\ \A i \in 1 .. Len(s) + Len(t) :
           (s \o t)[i] = IF i <= Len(s) THEN s[i] ELSE t[i - Len(s)]
  BY ConcatProperties, Zenon
<1>2. /\ Len(s) \in Nat /\ Len(t) \in Nat
      /\ DOMAIN s = 1..Len(s) /\ DOMAIN t = 1..Len(t) /\ DOMAIN (s \o t) = 1 .. Len(s) + Len(t)
  BY <1>1, LenProperties
<1>3. /\ \A i \in DOMAIN s : s[i] \in ToSet(s)
      /\ \A i \in DOMAIN t : t[i] \in ToSet(t)
  BY DEF ToSet
<1> SUFFICES ASSUME NEW i \in DOMAIN (s \o t), NEW j \in DOMAIN (s \o t),
                    (s \o t)[i].type = type, (s \o t)[j].type = type
             PROVE  i = j
  BY Zenon DEF Once
<1>4. \A k \in DOMAIN (s \o t) :
        \/ k \in DOMAIN s /\ (s \o t)[k] = s[k]
        \/ k - Len(s) \in DOMAIN t /\ (s \o t)[k] = t[k - Len(s)]
  BY <1>1, <1>2
<1>5. CASE i \in DOMAIN s /\ (s \o t)[i] = s[i] /\ j \in DOMAIN s /\ (s \o t)[j] = s[j]
  BY <1>5 DEF Once
<1>6. CASE /\ i - Len(s) \in DOMAIN t /\ (s \o t)[i] = t[i - Len(s)]
           /\ j - Len(s) \in DOMAIN t /\ (s \o t)[j] = t[j - Len(s)]
  <2>1. i - Len(s) = j - Len(s)
    BY <1>6, Zenon DEF Once
  <2> QED
    BY <1>2, <2>1
<1>7. CASE (\E k \in DOMAIN s : s[k].type = type) /\ (\E k \in DOMAIN t : t[k].type = type)
  BY <1>3, <1>7, Zenon DEF Has
<1> QED
  BY <1>4, <1>5, <1>6, <1>7

LEMMA ComesTail ==
    ASSUME NEW S, NEW s \in Seq(S), s # << >>, NEW type, NEW before,
           Comes(s, type, before), Head(s).type # type
    PROVE  Comes(Tail(s), type, before) /\ Head(s) \notin before
<1> DEFINE t == Tail(s)
<1>1. /\ t \in Seq(S) /\ Len(t) = Len(s) - 1 /\ Head(s) = s[1] /\ Len(s) \in Nat \ {0}
      /\ \A i \in 1 .. Len(s) - 1 : t[i] = s[i + 1]
  BY ToSetTail, Zenon
<1>2. DOMAIN s = 1..Len(s) /\ DOMAIN t = 1 .. Len(s) - 1
  BY <1>1, LenProperties
<1> HIDE DEF t
<1>3. PICK i \in DOMAIN s : s[i].type = type /\ \A j \in 1 .. i - 1 : s[j] \notin before
  BY Zenon DEF Comes
<1>4. i # 1 /\ i - 1 \in DOMAIN t /\ t[i - 1] = s[i] /\ 1 \in 1 .. i - 1
  BY <1>1, <1>2, <1>3
<1>5. \A j \in 1 .. (i - 1) - 1 : t[j] = s[j + 1] /\ j + 1 \in 1 .. i - 1
  BY <1>1, <1>2
<1>6. \A j \in 1 .. (i - 1) - 1 : t[j] \notin before
  BY <1>3, <1>5
<1>7. Comes(t, type, before)
  BY <1>3, <1>4, <1>6, Zenon DEF Comes
<1>8. s[1] \notin before
  BY <1>3, <1>4
<1> QED
  BY <1>1, <1>7, <1>8 DEF t

LEMMA ComesConcat ==
    ASSUME NEW S, NEW s \in Seq(S), NEW t \in Seq(S), NEW type, NEW before,
           Comes(s, type, before)
    PROVE  Comes(s \o t, type, before)
<1>1. /\ s \o t \in Seq(S) /\ Len(s \o t) = Len(s) + Len(t)
      /\ \A i \in 1 .. Len(s) + Len(t) :
           (s \o t)[i] = IF i <= Len(s) THEN s[i] ELSE t[i - Len(s)]
  BY ConcatProperties, Zenon
<1>2. /\ Len(s) \in Nat /\ Len(t) \in Nat
      /\ DOMAIN s = 1..Len(s) /\ DOMAIN (s \o t) = 1 .. Len(s) + Len(t)
  BY <1>1, LenProperties
<1>3. PICK i \in DOMAIN s : s[i].type = type /\ \A j \in 1 .. i - 1 : s[j] \notin before
  BY Zenon DEF Comes
<1>4. \A j \in 1..i : j \in 1 .. Len(s) + Len(t) /\ (s \o t)[j] = s[j]
  BY <1>1, <1>2
<1>5. i \in DOMAIN (s \o t) /\ (s \o t)[i].type = type
  BY <1>2, <1>3, <1>4
<1>6. \A j \in 1 .. i - 1 : (s \o t)[j] \notin before
  BY <1>2, <1>3, <1>4
<1> QED
  BY <1>5, <1>6, Zenon DEF Comes

-----------------------------------------------------------------------------
(***************************************************************************)
(* Numbers.                                                                *)
(***************************************************************************)

\* A set of numbers with 0 and with the successor of each member is Nat.
LEMMA NatSet ==
    ASSUME NEW S \in SUBSET Nat, 0 \in S, \A n \in S : n + 1 \in S
    PROVE  S = Nat
<1> DEFINE Below == {0..n : n \in Nat \ S}
<1>1. SUFFICES ASSUME Below # {} PROVE FALSE
  OBVIOUS
<1>2. Below \subseteq FiniteSubsetsOf(Nat)
  <2>1. \A n \in Nat : IsFiniteSet(0..n) /\ 0..n \in SUBSET Nat
    BY FS_Interval
  <2> QED
    BY <2>1 DEF FiniteSubsetsOf
<1>3. IsWellFoundedOn(StrictSubsetOrdering(Nat), FiniteSubsetsOf(Nat))
  BY FS_StrictSubsetOrderingWellFounded, Zenon
<1>4. PICK b \in Below : \A c \in Below : <<c, b>> \notin StrictSubsetOrdering(Nat)
  BY <1>1, <1>2, <1>3, WFMin, Zenon
<1>5. PICK n \in Nat \ S : b = 0..n
  OBVIOUS
<1>6. n # 0 /\ n - 1 \in Nat /\ n - 1 \notin S
  OBVIOUS
<1>7. 0 .. n - 1 \in Below
  BY <1>6
<1>8. <<0 .. n - 1, 0..n>> \in StrictSubsetOrdering(Nat)
  <2>1. n \in 0..n /\ n \notin 0 .. n - 1 /\ 0 .. n - 1 \subseteq 0..n
    OBVIOUS
  <2>2. 0..n \in SUBSET Nat /\ 0 .. n - 1 \in SUBSET Nat
    OBVIOUS
  <2> QED
    BY <2>1, <2>2, Zenon DEF StrictSubsetOrdering
<1> QED
  BY <1>4, <1>5, <1>7, <1>8

\* Ascending(S) has members of S only.
LEMMA AscendingMembers ==
    ASSUME NEW S \in SUBSET Nat, IsFiniteSet(S)
    PROVE  \A i \in 1..Cardinality(S) : Ascending(S)[i] \in S
<1> DEFINE n == Cardinality(S)
           Less(x) == {m \in S : m < x}
           rank == [x \in S |-> Cardinality(Less(x))]
<1>1. n \in Nat
  BY FS_CardinalityType
<1>2. \A x \in S : IsFiniteSet(Less(x)) /\ Cardinality(Less(x)) \in Nat
  <2> TAKE x \in S
  <2>1. Less(x) \in SUBSET S
    OBVIOUS
  <2>2. IsFiniteSet(Less(x))
    BY <2>1, FS_Subset
  <2> QED
    BY <2>2, FS_CardinalityType
<1>3. \A x \in S : Cardinality(Less(x)) < n
  <2> TAKE x \in S
  <2>1. Less(x) \in SUBSET S /\ x \notin Less(x)
    OBVIOUS
  <2>2. Cardinality(Less(x)) <= n /\ (n = Cardinality(Less(x)) => S = Less(x))
    BY <2>1, FS_Subset
  <2> QED
    BY <1>1, <1>2, <2>1, <2>2
<1>4. \A x, y \in S : x < y => Cardinality(Less(x)) # Cardinality(Less(y))
  <2> SUFFICES ASSUME NEW x \in S, NEW y \in S, x < y
               PROVE  Cardinality(Less(x)) # Cardinality(Less(y))
    OBVIOUS
  <2>1. Less(x) \in SUBSET Less(y) /\ x \in Less(y) /\ x \notin Less(x)
    <3>1. \A m \in S : m < x => m < y
      OBVIOUS
    <3>2. ~(x < x)
      OBVIOUS
    <3> QED
      BY <3>1, <3>2
  <2>2. Cardinality(Less(y)) = Cardinality(Less(x)) => Less(y) = Less(x)
    BY <1>2, <2>1, FS_Subset
  <2> QED
    BY <2>1, <2>2
<1>5. rank \in Injection(S, 0 .. n - 1)
  <2>1. rank \in [S -> 0 .. n - 1]
    BY <1>1, <1>2, <1>3
  <2>2. \A x, y \in S : rank[x] = rank[y] => x = y
    BY <1>4
  <2>3. DOMAIN rank = S
    OBVIOUS
  <2> HIDE DEF rank
  <2> QED
    BY <2>1, <2>2, <2>3, Zenon DEF Injection, IsInjective
<1>6. IsFiniteSet(0 .. n - 1) /\ Cardinality(0 .. n - 1) = n
  <2>1. \A b \in Int : /\ IsFiniteSet(0..b)
                        /\ Cardinality(0..b) = IF 0 > b THEN 0 ELSE b - 0 + 1
    BY FS_Interval
  <2>2. n - 1 \in Int
    BY <1>1
  <2>3. (IF 0 > n - 1 THEN 0 ELSE (n - 1) - 0 + 1) = n
    BY <1>1
  <2> QED
    BY <2>1, <2>2, <2>3, Zenon
<1>7. rank \in Surjection(S, 0 .. n - 1)
  BY <1>5, <1>6, FS_Injection, Zenon
<1>8. \A k \in 0 .. n - 1 : \E x \in S : Cardinality(Less(x)) = k
  BY <1>7 DEF Surjection
<1>9. \A i \in 1..n : i - 1 \in 0 .. n - 1
  BY <1>1
<1> QED
  BY <1>8, <1>9 DEF Ascending

\* The members of an interval in ascending order.
LEMMA AscendingInterval ==
    ASSUME NEW a \in Nat, NEW b \in Int, b >= a - 1
    PROVE  /\ Ascending(a..b) = [i \in 1 .. b - a + 1 |-> a + i - 1]
           /\ Ascending(a..b) \in Seq(Nat) /\ Len(Ascending(a..b)) = b - a + 1
<1> DEFINE S == a..b
           asc == [i \in 1 .. b - a + 1 |-> a + i - 1]
<1>1. S \in SUBSET Nat /\ IsFiniteSet(S) /\ Cardinality(S) = b - a + 1 /\ b - a + 1 \in Nat
  BY FS_Interval
<1>2. \A x \in S : {m \in S : m < x} = a .. x - 1
  OBVIOUS
<1>3. \A x \in S : Cardinality({m \in S : m < x}) = x - a
  <2> TAKE x \in S
  <2>1. x - 1 \in Int /\ x - 1 >= a - 1
    OBVIOUS
  <2>2. \A c \in Int : Cardinality(a..c) = IF a > c THEN 0 ELSE c - a + 1
    BY FS_Interval
  <2>3. Cardinality(a .. x - 1) = x - a
    BY <2>1, <2>2
  <2> QED
    BY <1>2, <2>3
<1>4. \A i \in 1 .. b - a + 1 :
        (CHOOSE x \in S : Cardinality({m \in S : m < x}) = i - 1) = a + i - 1
  <2> TAKE i \in 1 .. b - a + 1
  <2>1. a + i - 1 \in S /\ Cardinality({m \in S : m < a + i - 1}) = i - 1
    <3>1. a + i - 1 \in S
      OBVIOUS
    <3> QED
      BY <1>3, <3>1
  <2>2. \A x \in S : Cardinality({m \in S : m < x}) = i - 1 => x = a + i - 1
    BY <1>3
  <2> HIDE DEF S
  <2> QED
    BY <2>1, <2>2
<1>5. Ascending(S) = asc
  <2> HIDE DEF S
  <2> QED
    BY <1>1, <1>4 DEF Ascending
<1>6. asc \in [1 .. b - a + 1 -> Nat]
  OBVIOUS
<1>7. asc \in Seq(Nat) /\ Len(asc) = b - a + 1
  BY <1>1, <1>6
<1> QED
  BY <1>5, <1>7

-----------------------------------------------------------------------------
(***************************************************************************)
(* The operators of Srudp.                                                 *)
(***************************************************************************)

\* u and v differ at most in what they send.
Others(u, v) ==
    /\ v.state = u.state /\ v.rcvseq = u.rcvseq /\ v.rcvpkts = u.rcvpkts
    /\ v.rcvwins = u.rcvwins /\ v.self_passive_close = u.self_passive_close
    /\ v.peer_closed = u.peer_closed /\ v.can_close = u.can_close
    /\ v.closed = u.closed /\ v.sock_close = u.sock_close
    /\ v.rudp_close = u.rudp_close /\ v.timers = u.timers /\ v.calls = u.calls
    /\ v.known = u.known

\* The front of a buffer that was numbered from b on.
LEMMA FlushedFront ==
    ASSUME NEW pkts \in Seq(Packet), NEW b \in Int, NEW v \in SrudpType,
           \A i \in DOMAIN pkts : pkts[i].seq = b + i - 1,
           Len(v.sndpkts) <= Len(pkts), v.selfseq = b + Len(pkts)
    PROVE  /\ Flushed(pkts, v) \in Seq(Packet)
           /\ ToSet(Flushed(pkts, v)) \subseteq ToSet(pkts)
           /\ \A p \in ToSet(Flushed(pkts, v)) : p.seq < Base(v)
<1> DEFINE n == Len(pkts) - Len(v.sndpkts)
           out == SubSeq(pkts, 1, n)
<1>1. Len(pkts) \in Nat /\ Len(v.sndpkts) \in Nat /\ DOMAIN pkts = 1..Len(pkts)
  BY DEF SrudpType
<1>2. n \in Nat /\ n <= Len(pkts)
  BY <1>1
<1>3. \A i \in 1..n : pkts[i] \in Packet /\ i \in DOMAIN pkts
  BY <1>1, <1>2
<1>4. /\ out \in Seq(Packet) /\ Len(out) = IF 1 <= n THEN n - 1 + 1 ELSE 0
      /\ \A i \in 1 .. n - 1 + 1 : out[i] = pkts[1 + i - 1]
  BY <1>2, <1>3, SubSeqProperties
<1> HIDE DEF out, n
<1>5. Len(out) = n /\ \A i \in 1..n : out[i] = pkts[i]
  BY <1>2, <1>4
<1>6. ToSet(out) = {out[i] : i \in 1..n} /\ ToSet(pkts) = {pkts[i] : i \in DOMAIN pkts}
  <2>1. ToSet(out) = {out[i] : i \in 1..Len(out)}
    BY <1>4, ToSetSeq, Zenon
  <2> QED
    BY <1>5, <2>1, Zenon DEF ToSet
<1>7. ASSUME NEW p \in ToSet(out)
      PROVE  p \in ToSet(pkts) /\ p.seq < Base(v)
  <2>1. PICK i \in 1..n : p = pkts[i]
    BY <1>5, <1>6
  <2>2. i \in DOMAIN pkts /\ p.seq = b + i - 1
    BY <1>3, <2>1
  <2>3. b + i - 1 < v.selfseq - Len(v.sndpkts)
    <3>1. v.selfseq - Len(v.sndpkts) = b + n
      BY <1>1 DEF n
    <3>2. i \in Int /\ i <= n
      BY <1>2
    <3>3. b + i - 1 < b + n
      BY <1>2, <3>2
    <3> QED
      BY <3>1, <3>3
  <2> QED
    BY <1>6, <2>1, <2>2, <2>3 DEF Base
<1> QED
  BY <1>4, <1>7 DEF out, n, Flushed

\* attemp_flush.
LEMMA Flush ==
    ASSUME NEW u \in SrudpType, Numbered(u)
    PROVE  LET v == attemp_flush(u) out == Flushed(u.sndpkts, v) IN
           /\ v \in SrudpType /\ Buffered(v) /\ Others(u, v) /\ v.selfseq = u.selfseq
           /\ Waiting(v) = Waiting(u) /\ Base(u) <= Base(v)
           /\ u.sndwins \subseteq v.sndwins
           /\ ToSet(v.sndpkts) \subseteq ToSet(u.sndpkts)
           /\ Len(v.sndpkts) <= Len(u.sndpkts)
           /\ out \in Seq(Packet) /\ ToSet(out) \subseteq ToSet(u.sndpkts)
           /\ \A p \in ToSet(out) : p.seq < Base(v)
           /\ Buffered(u) /\ Len(u.sndpkts) >= BufSize => Len(v.sndpkts) >= BufSize
           /\ Len(v.sndpkts) < Len(u.sndpkts) => \E p \in v.sndwins : p.seq >= Base(u)
           /\ u.sndpkts = << >> =>
                v.sndpkts = << >> /\ v.sndwins = u.sndwins /\ out = << >>
           /\ u.sndwins = {} /\ Len(u.sndpkts) <= 1 => v.sndpkts = << >>
<1> DEFINE s == u.sndpkts
           L == Len(u.sndpkts)
           w == u.sndwins
           r == Room(u)
           front == SubSeq(s, 1, r)
           rest == SubSeq(s, r + 1, L)
           v == attemp_flush(u)
<1>1. /\ s \in Seq(Packet) /\ L \in Nat /\ DOMAIN s = 1..L /\ w \in SUBSET Packet
      /\ u.selfseq \in Nat \ {0} /\ IsFiniteSet(w)
  BY DEF SrudpType, Numbered
<1>2. Cardinality(w) \in Nat /\ BufSize \in Nat \ {0} /\ WinSize \in Nat \ {0}
  BY <1>1, FS_CardinalityType, SrudpAssumption
<1>3. /\ r \in 0..L
      /\ r = L \/ Cardinality(w) + r >= WinSize
      /\ Cardinality(w) >= WinSize => r = 0
      /\ Cardinality(w) = 0 /\ L <= 1 => r = L
  BY <1>1, <1>2 DEF Room
<1> HIDE DEF r
<1>4. /\ front \in Seq(Packet) /\ Len(front) = r
      /\ \A i \in 1..r : front[i] = s[i]
  <2>1. \A i \in 1..r : s[i] \in Packet
    BY <1>1, <1>3
  <2>2. /\ front \in Seq(Packet) /\ Len(front) = IF 1 <= r THEN r - 1 + 1 ELSE 0
        /\ \A i \in 1 .. r - 1 + 1 : front[i] = s[1 + i - 1]
    BY <1>1, <1>3, <2>1, SubSeqProperties
  <2> HIDE DEF front
  <2> QED
    BY <1>1, <1>3, <2>2
<1>5. /\ rest \in Seq(Packet) /\ Len(rest) = L - r
      /\ \A i \in 1 .. L - r : rest[i] = s[r + i]
  <2>1. \A i \in r + 1 .. L : s[i] \in Packet
    BY <1>1, <1>3
  <2>2. /\ rest \in Seq(Packet) /\ Len(rest) = IF r + 1 <= L THEN L - (r + 1) + 1 ELSE 0
        /\ \A i \in 1 .. L - (r + 1) + 1 : rest[i] = s[r + 1 + i - 1]
    BY <1>1, <1>3, <2>1, SubSeqProperties
  <2> HIDE DEF rest
  <2> QED
    BY <1>1, <1>3, <2>2
<1> HIDE DEF front, rest
<1>6. ToSet(s) = {s[i] : i \in 1..L} /\ ToSet(front) = {s[i] : i \in 1..r}
      /\ ToSet(rest) = {s[r + i] : i \in 1 .. L - r}
  <2>1. /\ ToSet(s) = {s[i] : i \in 1..Len(s)}
        /\ ToSet(front) = {front[i] : i \in 1..Len(front)}
        /\ ToSet(rest) = {rest[i] : i \in 1..Len(rest)}
    BY <1>1, <1>4, <1>5, ToSetSeq, Zenon
  <2>2. ToSet(s) = {s[i] : i \in 1..L}
    BY <2>1
  <2>3. ToSet(front) = {s[i] : i \in 1..r}
    BY <1>4, <2>1
  <2>4. ToSet(rest) = {s[r + i] : i \in 1 .. L - r}
    BY <1>5, <2>1
  <2> QED
    BY <2>2, <2>3, <2>4
<1>7. ToSet(front) \subseteq ToSet(s) /\ ToSet(rest) \subseteq ToSet(s)
      /\ ToSet(s) = ToSet(front) \cup ToSet(rest) /\ ToSet(s) \subseteq Packet
  <2>1. \A i \in 1..L : i \in 1..r \/ (i - r \in 1 .. L - r /\ r + (i - r) = i)
    BY <1>1, <1>3
  <2>2. \A i \in 1..r : i \in 1..L
    BY <1>1, <1>3
  <2>3. \A i \in 1 .. L - r : r + i \in 1..L
    BY <1>1, <1>3
  <2>4. ToSet(s) \subseteq Packet
    BY <1>1, ToSetSeq
  <2>5. ToSet(s) \subseteq ToSet(front) \cup ToSet(rest)
    <3> SUFFICES ASSUME NEW p \in ToSet(s) PROVE p \in ToSet(front) \cup ToSet(rest)
      OBVIOUS
    <3>1. PICK i \in 1..L : p = s[i]
      BY <1>6
    <3>2. CASE i \in 1..r
      BY <1>6, <3>1, <3>2
    <3>3. CASE i - r \in 1 .. L - r /\ r + (i - r) = i
      <4>1. PICK j \in 1 .. L - r : r + j = i
        BY <3>3
      <4> QED
        BY <1>6, <3>1, <4>1
    <3> QED
      BY <2>1, <3>2, <3>3
  <2> QED
    BY <1>6, <2>2, <2>3, <2>4, <2>5
<1>8. v = [u EXCEPT !.sndwins = w \cup ToSet(front), !.sndpkts = rest]
  BY DEF attemp_flush, front, rest, r
<1>9. /\ v \in SrudpType /\ Others(u, v) /\ v.selfseq = u.selfseq
      /\ v.sndwins = w \cup ToSet(front) /\ v.sndpkts = rest
  <2> HIDE DEF v
  <2>1. w \cup ToSet(front) \in SUBSET Packet
    BY <1>1, <1>7
  <2>2. v \in SrudpType
    BY <1>5, <1>8, <2>1, ZenonT(60) DEF SrudpType
  <2>3. Others(u, v) /\ v.selfseq = u.selfseq /\ v.sndwins = w \cup ToSet(front)
        /\ v.sndpkts = rest
    BY <1>8 DEF Others, SrudpType
  <2> QED
    BY <2>2, <2>3
<1> HIDE DEF v
<1>10. Base(v) = Base(u) + r /\ Base(u) \in Int
  BY <1>1, <1>3, <1>5, <1>9 DEF Base
<1>11. \A i \in 1..L : s[i].seq = Base(u) + i - 1
  BY <1>1 DEF Numbered
<1>12. \A p \in ToSet(front) : p.seq >= Base(u) /\ p.seq < Base(v)
  <2> TAKE p \in ToSet(front)
  <2>1. PICK i \in 1..r : p = s[i]
    BY <1>6
  <2>2. i \in 1..L /\ i \in Int /\ 1 <= i /\ i <= r
    BY <1>1, <1>3
  <2>3. p.seq = Base(u) + i - 1
    BY <1>11, <2>1, <2>2
  <2> QED
    BY <1>3, <1>10, <2>2, <2>3
<1>13. IsFiniteSet(ToSet(front)) /\ Cardinality(ToSet(front)) = r
  <2> DEFINE f == [i \in 1..r |-> s[i]]
  <2>1. f \in Surjection(1..r, ToSet(front))
    BY <1>6 DEF Surjection
  <2>2. \A i, j \in 1..r : f[i] = f[j] => i = j
    <3>1. \A i \in 1..r : f[i].seq = Base(u) + i - 1 /\ i \in Int
      BY <1>1, <1>3, <1>11
    <3> HIDE DEF f
    <3> QED
      BY <1>10, <3>1
  <2>3. f \in Injection(1..r, ToSet(front))
    <3>1. f \in [1..r -> ToSet(front)] /\ DOMAIN f = 1..r
      BY <1>6
    <3> HIDE DEF f
    <3> QED
      BY <2>2, <3>1, Zenon DEF Injection, IsInjective
  <2>4. \A b \in Int : IsFiniteSet(1..b) /\ Cardinality(1..b) = IF 1 > b THEN 0 ELSE b - 1 + 1
    BY FS_Interval
  <2>5. IsFiniteSet(1..r) /\ Cardinality(1..r) = r
    BY <1>3, <2>4
  <2> QED
    BY <2>1, <2>3, <2>5, FS_Surjection, Zenon
<1>14. IsFiniteSet(v.sndwins) /\ Cardinality(v.sndwins) = Cardinality(w) + r
  <2>1. \A p \in w : p.seq < Base(u) /\ p.seq \in Nat
    BY <1>1 DEF Numbered, Packet
  <2>2. w \cap ToSet(front) = {}
    <3> SUFFICES ASSUME NEW p \in w, p \in ToSet(front) PROVE FALSE
      OBVIOUS
    <3>1. p.seq < Base(u) /\ p.seq >= Base(u) /\ p.seq \in Nat
      BY <1>12, <2>1
    <3> QED
      BY <1>10, <3>1
  <2>3. /\ IsFiniteSet(w \cup ToSet(front))
        /\ Cardinality(w \cup ToSet(front)) =
            Cardinality(w) + Cardinality(ToSet(front)) - Cardinality(w \cap ToSet(front))
    BY <1>1, <1>13, FS_Union, Zenon
  <2>4. Cardinality(w \cap ToSet(front)) = 0
    BY <2>2, FS_EmptySet
  <2> QED
    BY <1>2, <1>3, <1>9, <1>13, <2>3, <2>4
<1>15. Numbered(v)
  <2>1. Base(v) >= 1
    BY <1>3, <1>10 DEF Numbered
  <2>2. \A i \in DOMAIN v.sndpkts : v.sndpkts[i].seq = Base(v) + i - 1
    <3>1. DOMAIN rest = 1 .. L - r
      <4>1. DOMAIN rest = 1 .. Len(rest)
        BY <1>5, LenProperties, Zenon
      <4> QED
        BY <1>5, <4>1
    <3>2. \A i \in 1 .. L - r : r + i \in 1..L
      BY <1>1, <1>3
    <3>3. \A i \in 1 .. L - r : rest[i].seq = Base(u) + (r + i) - 1
      <4> TAKE i \in 1 .. L - r
      <4>1. rest[i] = s[r + i] /\ r + i \in 1..L
        BY <1>5, <3>2
      <4> QED
        BY <1>11, <4>1
    <3> QED
      BY <1>3, <1>9, <1>10, <3>1, <3>3
  <2>3. \A p \in v.sndwins : p.seq < Base(v)
    <3> TAKE p \in v.sndwins
    <3>1. CASE p \in w
      <4>1. p.seq < Base(u) /\ p.seq \in Nat
        BY <1>1, <3>1 DEF Numbered, Packet
      <4> QED
        BY <1>3, <1>10, <4>1
    <3>2. CASE p \in ToSet(front)
      BY <1>12, <3>2
    <3> QED
      BY <1>9, <3>1, <3>2
  <2> QED
    BY <1>14, <2>1, <2>2, <2>3 DEF Numbered
<1>16. Buffered(v)
  <2>1. Len(v.sndpkts) >= BufSize => Cardinality(v.sndwins) >= WinSize
    BY <1>1, <1>2, <1>3, <1>5, <1>9, <1>14
  <2> QED
    BY <1>15, <2>1 DEF Buffered
<1>17. Waiting(v) = Waiting(u)
  BY <1>7, <1>9 DEF Waiting
<1>18. /\ Flushed(s, v) \in Seq(Packet)
       /\ ToSet(Flushed(s, v)) \subseteq ToSet(s)
       /\ \A p \in ToSet(Flushed(s, v)) : p.seq < Base(v)
  <2>1. /\ Len(v.sndpkts) <= Len(s) /\ v.selfseq = Base(u) + Len(s)
        /\ \A i \in DOMAIN s : s[i].seq = Base(u) + i - 1
    <3>1. Len(v.sndpkts) <= Len(s)
      BY <1>1, <1>3, <1>5, <1>9
    <3>2. v.selfseq = Base(u) + Len(s)
      BY <1>1, <1>9 DEF Base
    <3> QED
      BY <1>1, <1>11, <3>1, <3>2
  <2> QED
    BY <1>1, <1>9, <1>10, <2>1, FlushedFront, Zenon
<1>19. Buffered(u) /\ L >= BufSize => Len(v.sndpkts) >= BufSize
  BY <1>1, <1>2, <1>3, <1>5, <1>9 DEF Buffered
<1>20. Len(v.sndpkts) < L => \E p \in v.sndwins : p.seq >= Base(u)
  <2> SUFFICES ASSUME Len(v.sndpkts) < L PROVE \E p \in v.sndwins : p.seq >= Base(u)
    OBVIOUS
  <2>1. 1 \in 1..r
    BY <1>1, <1>3, <1>5, <1>9
  <2>2. s[1] \in ToSet(front)
    BY <1>6, <2>1
  <2> QED
    BY <1>9, <1>12, <2>2
<1>21. ASSUME s = << >>
       PROVE  v.sndpkts = << >> /\ v.sndwins = w /\ Flushed(s, v) = << >>
  <2>1. L = 0 /\ r = 0
    BY <1>1, <1>3, <1>21
  <2>2. rest = << >> /\ ToSet(front) = {}
    BY <1>4, <1>5, <1>6, <2>1
  <2>3. Flushed(s, v) = << >>
    <3>1. Len(v.sndpkts) = 0 /\ Len(s) = 0
      BY <1>9, <2>1, <2>2
    <3>2. Flushed(s, v) = SubSeq(s, 1, 0)
      BY <3>1 DEF Flushed
    <3> QED
      BY <3>2, SubSeqEmpty
  <2> QED
    BY <1>9, <2>2, <2>3
<1>22. ASSUME w = {}, L <= 1
       PROVE  v.sndpkts = << >>
  <2>1. r = L
    BY <1>3, <1>22, FS_EmptySet
  <2> QED
    BY <1>1, <1>5, <1>9, <2>1
<1> QED
  BY <1>1, <1>3, <1>5, <1>7, <1>9, <1>10, <1>16, <1>17, <1>18, <1>19, <1>20, <1>21, <1>22
  DEF v

LEMMA SndType ==
    ASSUME NEW u \in SrudpType
    PROVE  /\ u.sndpkts \in Seq(Packet) /\ Len(u.sndpkts) \in Nat
           /\ DOMAIN u.sndpkts = 1..Len(u.sndpkts)
           /\ u.selfseq \in Nat \ {0}
           /\ u.sndwins \in SUBSET Packet
           /\ Base(u) = u.selfseq - Len(u.sndpkts) /\ Base(u) \in Int
<1>1. /\ u.sndpkts \in Seq(Packet) /\ u.selfseq \in Nat \ {0} /\ u.sndwins \in SUBSET Packet
  BY DEF SrudpType
<1> QED
  BY <1>1 DEF Base

\* make_pkt.
LEMMA MakePkt ==
    ASSUME NEW u \in SrudpType, Numbered(u), NEW type \in PacketTypes
    PROVE  LET v == make_pkt(u, type) IN
           /\ v \in SrudpType /\ Numbered(v) /\ Others(u, v)
           /\ v.selfseq = u.selfseq + 1 /\ Base(v) = Base(u) /\ v.sndwins = u.sndwins
           /\ v.sndpkts = Append(u.sndpkts, Pkt(type, u.selfseq))
           /\ Len(v.sndpkts) = Len(u.sndpkts) + 1
           /\ ToSet(v.sndpkts) = ToSet(u.sndpkts) \cup {Pkt(type, u.selfseq)}
<1> DEFINE v == make_pkt(u, type)
           p == Pkt(type, u.selfseq)
<1>1. /\ u.sndpkts \in Seq(Packet) /\ Len(u.sndpkts) \in Nat /\ u.selfseq \in Nat \ {0}
      /\ DOMAIN u.sndpkts = 1..Len(u.sndpkts)
  BY DEF SrudpType
<1>2. p \in Packet /\ p.seq = u.selfseq
  BY <1>1 DEF Packet, Pkt
<1> HIDE DEF p
<1>3. /\ Append(u.sndpkts, p) \in Seq(Packet)
      /\ Len(Append(u.sndpkts, p)) = Len(u.sndpkts) + 1
      /\ \A i \in 1..Len(u.sndpkts) : Append(u.sndpkts, p)[i] = u.sndpkts[i]
      /\ Append(u.sndpkts, p)[Len(u.sndpkts) + 1] = p
  BY <1>1, <1>2, AppendProperties
<1>4. ToSet(Append(u.sndpkts, p)) = ToSet(u.sndpkts) \cup {p}
  BY <1>1, <1>2, ToSetAppend
<1>5. PICK s \in Seq(Packet) : s = Append(u.sndpkts, p)
  BY <1>3
<1>6. PICK n \in Nat \ {0} : n = u.selfseq + 1
  BY <1>1
<1>7. v = [u EXCEPT !.sndpkts = s, !.selfseq = n]
  BY <1>5, <1>6 DEF make_pkt, p
<1> HIDE DEF v
<1>8. v \in SrudpType
  BY <1>7, ZenonT(60) DEF SrudpType
<1>9. Others(u, v) /\ v.sndwins = u.sndwins /\ v.sndpkts = s /\ v.selfseq = n
  BY <1>7 DEF Others, SrudpType
<1>10. Len(s) = Len(u.sndpkts) + 1 /\ Base(v) = Base(u)
  <2>1. Len(s) = Len(u.sndpkts) + 1
    BY <1>3, <1>5
  <2>2. Len(v.sndpkts) = Len(u.sndpkts) + 1 /\ v.selfseq = u.selfseq + 1
    BY <1>6, <1>9, <2>1, Zenon
  <2>3. v.selfseq - Len(v.sndpkts) = u.selfseq - Len(u.sndpkts)
    <3>1. Len(u.sndpkts) \in Int /\ u.selfseq \in Int
      BY <1>1
    <3> QED
      BY <2>2, <3>1, SMT
  <2> QED
    BY <2>1, <2>3, Zenon DEF Base
<1>11. DOMAIN s = 1 .. Len(u.sndpkts) + 1
  <2>1. DOMAIN s = 1..Len(s)
    BY <1>5, LenProperties
  <2> QED
    BY <1>10, <2>1
<1>12. \A i \in DOMAIN s : s[i].seq = Base(u) + i - 1
  <2> TAKE i \in DOMAIN s
  <2>1. CASE i \in 1..Len(u.sndpkts)
    BY <1>1, <1>3, <1>5, <2>1 DEF Numbered
  <2>2. CASE i = Len(u.sndpkts) + 1
    <3>1. Base(u) + i - 1 = u.selfseq
      BY <1>1, <2>2 DEF Base
    <3> QED
      BY <1>2, <1>3, <1>5, <2>2, <3>1
  <2> QED
    BY <1>1, <1>11, <2>1, <2>2
<1>13. Numbered(v)
  BY <1>9, <1>10, <1>12 DEF Numbered
<1> QED
  BY <1>4, <1>5, <1>6, <1>8, <1>9, <1>10, <1>13 DEF v, p

\* v is u after k pieces were put in the buffer and some packets were sent.
Pieces(from, k) == {Pkt("DATA", n) : n \in from .. from + k - 1}
Sends(u, v, k) ==
    /\ v \in SrudpType /\ Buffered(v) /\ Others(u, v)
    /\ u.sndwins \subseteq v.sndwins /\ Base(u) <= Base(v)
    /\ v.selfseq = u.selfseq + k
    /\ Waiting(v) = Waiting(u) \cup Pieces(u.selfseq, k)

LEMMA SendsNone ==
    ASSUME NEW u \in SrudpType, Buffered(u)
    PROVE  Sends(u, u, 0)
<1>1. u.selfseq \in Nat /\ Base(u) <= Base(u)
  BY DEF SrudpType, Base
<1>2. Pieces(u.selfseq, 0) = {}
  BY <1>1 DEF Pieces
<1> QED
  BY <1>1, <1>2 DEF Sends, Others

LEMMA SendsTwice ==
    ASSUME NEW u \in SrudpType, NEW v, NEW w, NEW j \in Nat, NEW k \in Nat,
           Sends(u, v, j), Sends(v, w, k)
    PROVE  Sends(u, w, j + k)
<1>1. /\ u.selfseq \in Nat /\ v.selfseq = u.selfseq + j /\ w.selfseq = v.selfseq + k
      /\ u \in SrudpType /\ v \in SrudpType /\ w \in SrudpType
  BY DEF Sends, SrudpType
<1>2. Base(u) \in Int /\ Base(v) \in Int /\ Base(w) \in Int
  BY <1>1, SndType
<1>3. Base(u) <= Base(w) /\ w.selfseq = u.selfseq + (j + k)
  BY <1>1, <1>2 DEF Sends
<1>4. Pieces(u.selfseq, j + k) = Pieces(u.selfseq, j) \cup Pieces(v.selfseq, k)
  <2>1. \A n \in u.selfseq .. u.selfseq + (j + k) - 1 :
            n \in u.selfseq .. u.selfseq + j - 1 \/ n \in v.selfseq .. v.selfseq + k - 1
    BY <1>1
  <2>2. /\ \A n \in u.selfseq .. u.selfseq + j - 1 : n \in u.selfseq .. u.selfseq + (j + k) - 1
        /\ \A n \in v.selfseq .. v.selfseq + k - 1 : n \in u.selfseq .. u.selfseq + (j + k) - 1
    BY <1>1
  <2> QED
    BY <2>1, <2>2 DEF Pieces
<1>5. Others(u, w)
  BY Zenon DEF Sends, Others
<1> QED
  BY <1>3, <1>4, <1>5 DEF Sends

\* attemp_send of one piece.
LEMMA AttempSend ==
    ASSUME NEW u \in SrudpType, Buffered(u)
    PROVE  /\ Accepts(u) => Sends(u, attemp_send(u), 1)
           /\ ~Accepts(u) =>
                Sends(u, attemp_send(u), 0) /\ Len(attemp_send(u).sndpkts) >= BufSize
<1>1. /\ BufSize \in Nat \ {0} /\ Numbered(u) /\ u.selfseq \in Nat \ {0}
      /\ Len(u.sndpkts) \in Nat /\ u.sndpkts \in Seq(Packet)
      /\ Base(u) \in Int
  BY SrudpAssumption DEF Buffered, SrudpType, Base
<1>2. CASE Accepts(u)
  <2> DEFINE v == make_pkt(u, "DATA")
             w == attemp_flush(v)
  <2>1. /\ v \in SrudpType /\ Numbered(v) /\ Others(u, v)
        /\ v.selfseq = u.selfseq + 1 /\ Base(v) = Base(u) /\ v.sndwins = u.sndwins
        /\ Len(v.sndpkts) = Len(u.sndpkts) + 1
        /\ ToSet(v.sndpkts) = ToSet(u.sndpkts) \cup {Pkt("DATA", u.selfseq)}
    <3>1. "DATA" \in PacketTypes
      BY DEF PacketTypes
    <3> QED
      BY <1>1, <3>1, MakePkt, Zenon
  <2> HIDE DEF v
  <2>2. /\ w \in SrudpType /\ Buffered(w) /\ Others(v, w) /\ w.selfseq = v.selfseq
        /\ Waiting(w) = Waiting(v) /\ Base(v) <= Base(w) /\ v.sndwins \subseteq w.sndwins
    BY <2>1, Flush, Zenon
  <2> HIDE DEF w
  <2>3. Waiting(v) = Waiting(u) \cup Pieces(u.selfseq, 1)
    <3>1. Pieces(u.selfseq, 1) = {Pkt("DATA", u.selfseq)}
      BY <1>1 DEF Pieces
    <3> QED
      BY <2>1, <3>1 DEF Waiting
  <2>4. Sends(u, w, 1)
    <3>1. Others(u, w)
      BY <2>1, <2>2, Zenon DEF Others
    <3> QED
      BY <2>1, <2>2, <2>3, <3>1 DEF Sends
  <2>5. ASSUME 3 * Len(v.sndpkts) < BufSize
        PROVE  Sends(u, v, 1)
    <3>1. Buffered(v)
      BY <1>1, <2>1, <2>5 DEF Buffered
    <3>2. Base(u) <= Base(v)
      BY <1>1, <2>1
    <3> QED
      BY <2>1, <2>3, <3>1, <3>2 DEF Sends
  <2>6. attemp_send(u) = IF 3 * Len(v.sndpkts) >= BufSize \/ Cardinality(v.sndwins) < BufSize
                         THEN w ELSE v
    BY <1>2 DEF attemp_send, v, w
  <2> QED
    BY <1>1, <1>2, <2>1, <2>4, <2>5, <2>6
<1>3. CASE ~Accepts(u)
  <2> DEFINE w == attemp_flush(u)
  <2>1. Len(u.sndpkts) >= BufSize
    BY <1>1, <1>3 DEF Accepts
  <2>2. /\ w \in SrudpType /\ Buffered(w) /\ Others(u, w) /\ w.selfseq = u.selfseq
        /\ Waiting(w) = Waiting(u) /\ Base(u) <= Base(w) /\ u.sndwins \subseteq w.sndwins
        /\ Len(w.sndpkts) >= BufSize
    BY <1>1, <2>1, Flush, Zenon
  <2>3. attemp_send(u) = w
    BY <1>1, <1>3, <2>1 DEF attemp_send
  <2> HIDE DEF w
  <2>4. Pieces(u.selfseq, 0) = {} /\ u.selfseq + 0 = u.selfseq
    BY <1>1 DEF Pieces
  <2> QED
    BY <1>3, <2>2, <2>3, <2>4 DEF Sends
<1> QED
  BY <1>2, <1>3

\* One of the tries of _onTcpReadyRead.
Try(u) == IF Accepts(u) THEN attemp_send(u) ELSE u

\* Tries(u, n) is the sequence of objects it is meant to be.
LEMMA TriesDef ==
    ASSUME NEW u, NEW n \in Nat
    PROVE  /\ Tries(u, n)[0] = u
           /\ \A k \in 1..n : Tries(u, n)[k] = Try(Tries(u, n)[k - 1])
<1> DEFINE F(f, m) == [k \in 0..m |-> IF k = 0 THEN u ELSE Try(f[k - 1])]
           S == {m \in Nat : \E f : f = F(f, m)}
<1>1. 0 \in S
  <2> DEFINE f == [k \in 0..0 |-> u]
  <2>1. f = F(f, 0)
    OBVIOUS
  <2> QED
    BY <2>1
<1>2. ASSUME NEW m \in S PROVE m + 1 \in S
  <2>1. PICK f : f = F(f, m)
    OBVIOUS
  <2> DEFINE g == [k \in 0 .. m + 1 |-> IF k <= m THEN f[k] ELSE Try(f[m])]
  <2>2. \A k \in 0 .. m + 1 : g[k] = IF k = 0 THEN u ELSE Try(g[k - 1])
    <3> TAKE k \in 0 .. m + 1
    <3>1. CASE k = 0
      <4>1. f[0] = u /\ g[0] = f[0]
        BY <2>1
      <4> QED
        BY <3>1, <4>1
    <3>2. CASE k \in 1..m
      <4>1. k \in 0..m /\ k # 0 /\ k <= m /\ k - 1 <= m /\ k - 1 \in 0 .. m + 1
        BY <3>2
      <4>2. g[k] = f[k] /\ g[k - 1] = f[k - 1]
        BY <4>1
      <4>3. f[k] = Try(f[k - 1])
        BY <2>1, <4>1
      <4> QED
        BY <4>1, <4>2, <4>3
    <3>3. CASE k = m + 1
      <4>1. g[k] = Try(f[m]) /\ g[k - 1] = f[m] /\ k # 0
        BY <3>3
      <4> QED
        BY <4>1
    <3> QED
      BY <3>1, <3>2, <3>3
  <2>3. g = F(g, m + 1)
    <3> DEFINE h == F(g, m + 1)
    <3>1. DOMAIN g = DOMAIN h /\ \A k \in DOMAIN g : g[k] = h[k]
      BY <2>2
    <3>2. g = [k \in DOMAIN g |-> g[k]] /\ h = [k \in DOMAIN h |-> h[k]]
      OBVIOUS
    <3> HIDE DEF g, h
    <3>3. g = h
      BY <3>1, <3>2, Zenon
    <3> QED
      BY <3>3 DEF h
  <2> HIDE DEF g
  <2> QED
    BY <2>3
<1> HIDE DEF S
<1>3. S = Nat
  <2>1. S \in SUBSET Nat
    BY DEF S
  <2> QED
    BY <1>1, <1>2, <2>1, NatSet, Zenon
<1>4. \E f : f = F(f, n)
  BY <1>3 DEF S
<1>5. Tries(u, n) = CHOOSE f : f = F(f, n)
  BY DEF Tries, Try
<1>6. Tries(u, n) = F(Tries(u, n), n)
  BY <1>4, <1>5, Zenon
<1> QED
  <2> DEFINE t == Tries(u, n)
  <2> HIDE DEF t
  <2>1. t = F(t, n)
    BY <1>6 DEF t
  <2>2. t[0] = u /\ \A k \in 1..n : t[k] = Try(t[k - 1])
    BY <2>1
  <2> QED
    BY <2>2 DEF t

\* The tries put pieces in the buffer until one is refused.
LEMMA TriesSend ==
    ASSUME NEW u \in SrudpType, Buffered(u), NEW n \in Nat
    PROVE  LET v == Tries(u, n)[n] IN
           \E j \in 0..n : Sends(u, v, j) /\ (j < n => ~Accepts(v))
<1> DEFINE t == Tries(u, n)
           Good(k) == \E j \in 0..k : Sends(u, t[k], j) /\ (j < k => ~Accepts(t[k]))
           S == {k \in Nat : k <= n => Good(k)}
<1>1. t[0] = u /\ \A k \in 1..n : t[k] = Try(t[k - 1])
  BY TriesDef, Zenon
<1> HIDE DEF t
<1>2. 0 \in S
  BY <1>1, SendsNone
<1>3. ASSUME NEW k \in S, k + 1 <= n PROVE Good(k + 1)
  <2>1. Good(k)
    BY <1>3
  <2>2. PICK j \in 0..k : Sends(u, t[k], j) /\ (j < k => ~Accepts(t[k]))
    BY <2>1
  <2>3. t[k + 1] = Try(t[k])
    <3>1. k + 1 \in 1..n /\ (k + 1) - 1 = k
      BY <1>3
    <3> QED
      BY <1>1, <3>1
  <2>4. t[k] \in SrudpType /\ Buffered(t[k])
    BY <2>2 DEF Sends
  <2>5. CASE Accepts(t[k])
    <3>1. j = k
      BY <2>2, <2>5
    <3>2. Sends(t[k], t[k + 1], 1)
      BY <2>3, <2>4, <2>5, AttempSend, Zenon DEF Try
    <3>3. Sends(u, t[k + 1], j + 1)
      BY <2>2, <3>2, SendsTwice, 1 \in Nat
    <3> QED
      BY <3>1, <3>3
  <2>6. CASE ~Accepts(t[k])
    <3>1. t[k + 1] = t[k]
      BY <2>3, <2>6 DEF Try
    <3>2. j \in 0 .. k + 1
      OBVIOUS
    <3> QED
      BY <2>2, <2>6, <3>1, <3>2
  <2> QED
    BY <2>5, <2>6
<1>4. S = Nat
  <2>1. S \in SUBSET Nat
    OBVIOUS
  <2>2. \A k \in S : k + 1 \in S
    BY <1>3
  <2> HIDE DEF S
  <2> QED
    BY <1>2, <2>1, <2>2, NatSet, Zenon
<1>5. Good(n)
  BY <1>4
<1> QED
  BY <1>5 DEF t

\* What _onTcpReadyRead reads, puts in the buffer and sends.
LEMMA Reads ==
    ASSUME srv \in SrudpType, Buffered(srv), NEW n \in Nat
    PROVE  LET t == Taken(n)
               pieces == [i \in 1..t.taken |-> Pkt("DATA", srv.selfseq + i - 1)]
               out == Flushed(srv.sndpkts \o pieces, t.u)
           IN
           /\ t.taken \in 0..n /\ Sends(srv, t.u, t.taken)
           /\ t.taken < n => Len(t.u.sndpkts) >= BufSize
           /\ n = 0 => t.u = srv
           /\ out \in Seq(Packet)
           /\ ToSet(out) \subseteq ToSet(srv.sndpkts) \cup Pieces(srv.selfseq, t.taken)
           /\ \A p \in ToSet(out) : p.seq < Base(t.u)
<1> DEFINE v == Tries(srv, n)[n]
           t == Taken(n)
           pieces == [i \in 1..t.taken |-> Pkt("DATA", srv.selfseq + i - 1)]
           pkts == srv.sndpkts \o pieces
           out == Flushed(pkts, t.u)
<1>1. PICK j \in 0..n : Sends(srv, v, j) /\ (j < n => ~Accepts(v))
  BY TriesSend
<1>2. n = 0 => v = srv
  BY TriesDef
<1>3. v.selfseq - srv.selfseq = j /\ v \in SrudpType /\ Buffered(v)
  <2>1. v.selfseq = srv.selfseq + j
    BY <1>1, Zenon DEF Sends
  <2>2. srv.selfseq \in Nat
    BY DEF SrudpType
  <2>3. v \in SrudpType /\ Buffered(v)
    BY <1>1, Zenon DEF Sends
  <2> HIDE DEF v
  <2> QED
    BY <2>1, <2>2, <2>3
<1>4. t = [u |-> IF j < n THEN attemp_send(v) ELSE v, taken |-> j]
  BY <1>3, Zenon DEF Taken
<1> HIDE DEF v
<1>5. t.taken = j /\ t.u = IF j < n THEN attemp_send(v) ELSE v
  BY <1>4
<1>6. /\ Sends(srv, t.u, j) /\ (j < n => Len(t.u.sndpkts) >= BufSize)
      /\ n = 0 => t.u = srv
  <2>1. CASE j < n
    <3>1. Sends(v, attemp_send(v), 0) /\ Len(attemp_send(v).sndpkts) >= BufSize
      BY <1>1, <1>3, <2>1, AttempSend, Zenon
    <3>2. Sends(srv, attemp_send(v), j)
      <4>1. Sends(srv, attemp_send(v), j + 0)
        BY <1>1, <3>1, SendsTwice, 0 \in Nat
      <4> QED
        BY <4>1
    <3> QED
      BY <1>5, <2>1, <3>1, <3>2
  <2>2. CASE ~(j < n)
    BY <1>1, <1>2, <1>5, <2>2
  <2> QED
    BY <2>1, <2>2
<1> HIDE DEF t
<1>7. /\ srv.sndpkts \in Seq(Packet) /\ srv.selfseq \in Nat \ {0} /\ Len(srv.sndpkts) \in Nat
      /\ DOMAIN srv.sndpkts = 1..Len(srv.sndpkts) /\ Base(srv) \in Int
      /\ t.u \in SrudpType /\ t.u.selfseq = srv.selfseq + j /\ Base(srv) <= Base(t.u)
      /\ Len(t.u.sndpkts) \in Nat
      /\ Base(srv) = srv.selfseq - Len(srv.sndpkts)
      /\ Base(t.u) = t.u.selfseq - Len(t.u.sndpkts)
  <2>1. t.u \in SrudpType /\ t.u.selfseq = srv.selfseq + j /\ Base(srv) <= Base(t.u)
    BY <1>6, Zenon DEF Sends
  <2>2. Len(t.u.sndpkts) \in Nat /\ Base(t.u) = t.u.selfseq - Len(t.u.sndpkts)
    BY <2>1, SndType, Zenon
  <2> QED
    BY <2>1, <2>2, SndType, Zenon
<1>8. /\ pieces \in Seq(Packet) /\ Len(pieces) = j
      /\ \A i \in 1..j : pieces[i] = Pkt("DATA", srv.selfseq + i - 1)
  <2>1. \A i \in 1..j : Pkt("DATA", srv.selfseq + i - 1) \in Packet
    BY <1>7 DEF Packet, Pkt, PacketTypes
  <2> QED
    BY <1>5, <2>1
<1>9. ToSet(pieces) \subseteq Pieces(srv.selfseq, j)
  <2>1. \A i \in 1..j : srv.selfseq + i - 1 \in srv.selfseq .. srv.selfseq + j - 1
    BY <1>7
  <2> HIDE DEF pieces
  <2>2. ToSet(pieces) = {pieces[i] : i \in 1..j}
    BY <1>8, ToSetSeq
  <2> QED
    BY <1>8, <2>1, <2>2 DEF Pieces
<1> HIDE DEF pieces
<1>10. /\ pkts \in Seq(Packet) /\ Len(pkts) = Len(srv.sndpkts) + j
       /\ \A i \in 1 .. Len(srv.sndpkts) + j :
            pkts[i] = IF i <= Len(srv.sndpkts) THEN srv.sndpkts[i]
                      ELSE pieces[i - Len(srv.sndpkts)]
  <2>1. /\ pkts \in Seq(Packet) /\ Len(pkts) = Len(srv.sndpkts) + Len(pieces)
        /\ \A i \in 1 .. Len(srv.sndpkts) + Len(pieces) :
             pkts[i] = IF i <= Len(srv.sndpkts) THEN srv.sndpkts[i]
                       ELSE pieces[i - Len(srv.sndpkts)]
    BY <1>7, <1>8, ConcatProperties, Zenon
  <2> QED
    BY <1>8, <2>1
<1>11. ToSet(pkts) = ToSet(srv.sndpkts) \cup ToSet(pieces)
  BY <1>7, <1>8, ToSetConcat
<1> HIDE DEF pkts
<1>12. \A i \in DOMAIN pkts : pkts[i].seq = Base(srv) + i - 1
  <2>1. DOMAIN pkts = 1 .. Len(srv.sndpkts) + j
    BY <1>10
  <2> SUFFICES ASSUME NEW i \in 1 .. Len(srv.sndpkts) + j
               PROVE  pkts[i].seq = Base(srv) + i - 1
    BY <2>1
  <2>2. CASE i \in 1..Len(srv.sndpkts)
    <3>1. \A k \in DOMAIN srv.sndpkts : srv.sndpkts[k].seq = Base(srv) + k - 1
      BY Zenon DEF Buffered, Numbered
    <3>2. i \in DOMAIN srv.sndpkts /\ pkts[i] = srv.sndpkts[i]
      BY <1>7, <1>10, <2>2
    <3> QED
      BY <3>1, <3>2
  <2>3. CASE i - Len(srv.sndpkts) \in 1..j
    <3>1. pkts[i] = Pkt("DATA", srv.selfseq + (i - Len(srv.sndpkts)) - 1)
      BY <1>7, <1>8, <1>10, <2>3
    <3>2. srv.selfseq + (i - Len(srv.sndpkts)) - 1 = Base(srv) + i - 1
      <4>1. /\ srv.selfseq \in Int /\ Len(srv.sndpkts) \in Int /\ i \in Int
            /\ Base(srv) = srv.selfseq - Len(srv.sndpkts)
        BY <1>7
      <4> QED
        BY <4>1
    <3> QED
      BY <3>1, <3>2 DEF Pkt
  <2> QED
    BY <1>7, <2>2, <2>3
<1>13. Len(t.u.sndpkts) <= Len(pkts) /\ t.u.selfseq = Base(srv) + Len(pkts)
  <2>1. /\ srv.selfseq \in Int /\ Len(srv.sndpkts) \in Int /\ j \in Int
        /\ Len(t.u.sndpkts) \in Int /\ Len(pkts) = Len(srv.sndpkts) + j
        /\ Base(srv) = srv.selfseq - Len(srv.sndpkts) /\ Base(srv) <= Base(t.u)
        /\ t.u.selfseq = srv.selfseq + j /\ Base(t.u) = t.u.selfseq - Len(t.u.sndpkts)
    BY <1>7, <1>10
  <2> QED
    BY <2>1
<1>14. /\ out \in Seq(Packet) /\ ToSet(out) \subseteq ToSet(pkts)
       /\ \A p \in ToSet(out) : p.seq < Base(t.u)
  <2>1. pkts \in Seq(Packet) /\ Base(srv) \in Int /\ t.u \in SrudpType
    BY <1>7, <1>10
  <2> QED
    BY <1>12, <1>13, <2>1, FlushedFront, Zenon
<1>15. ToSet(out) \subseteq ToSet(srv.sndpkts) \cup Pieces(srv.selfseq, j)
  BY <1>9, <1>11, <1>14
<1> QED
  BY <1>5, <1>6, <1>14, <1>15 DEF out, pkts, pieces, t

\* The packets next in order are an interval.
LEMMA ReadyInterval ==
    ASSUME NEW u \in SrudpType
    PROVE  \E c \in Nat : /\ Ready(u) = u.rcvseq .. u.rcvseq + c - 1
                          /\ Ready(u) \subseteq u.rcvpkts
<1> DEFINE r == u.rcvseq
           P == u.rcvpkts
           R(m) == {n \in r .. r + m - 1 : r .. n \subseteq P}
           Good(m) == \E c \in 0..m : R(m) = r .. r + c - 1 /\ (c < m => r + c \notin P)
           S == {m \in Nat : Good(m)}
<1>1. r \in Nat /\ RcvBatch \in Nat /\ P \in SUBSET Nat
  BY SrudpAssumption DEF SrudpType
<1>2. Ready(u) = R(RcvBatch)
  BY DEF Ready
<1> HIDE DEF r, P
<1>3. 0 \in S
  <2>1. R(0) = r .. r + 0 - 1
    BY <1>1
  <2> QED
    BY <2>1
<1>4. ASSUME NEW m \in S PROVE m + 1 \in S
  <2>1. PICK c \in 0..m : R(m) = r .. r + c - 1 /\ (c < m => r + c \notin P)
    OBVIOUS
  <2>2. c \in Nat /\ c <= m
    OBVIOUS
  <2>3. CASE c = m /\ r + m \in P
    <3>1. \A n \in r .. r + m : r .. n \subseteq P
      <4> TAKE n \in r .. r + m
      <4>1. CASE n \in r .. r + m - 1
        BY <1>1, <2>1, <2>3, <4>1
      <4>2. CASE n = r + m
        <5>1. \A k \in r .. n : k = r + m \/ k \in r .. r + m - 1
          BY <1>1, <4>2
        <5>2. \A k \in r .. r + m - 1 : k \in R(m)
          BY <2>1, <2>3
        <5>3. \A k \in R(m) : k \in P
          BY <1>1
        <5> QED
          BY <2>3, <5>1, <5>2, <5>3
      <4> QED
        BY <1>1, <4>1, <4>2
    <3>2. r + (m + 1) - 1 = r + m
      BY <1>1
    <3>3. R(m + 1) = r .. r + (m + 1) - 1
      BY <3>1, <3>2
    <3> QED
      BY <3>3
  <2>4. CASE r + c \notin P
    <3>1. \A n \in r .. r + (m + 1) - 1 : r .. n \subseteq P => n < r + c
      <4> TAKE n \in r .. r + (m + 1) - 1
      <4>1. n >= r + c => r + c \in r .. n
        BY <1>1, <2>2
      <4> QED
        BY <1>1, <2>2, <2>4, <4>1
    <3>2. R(m + 1) \subseteq r .. r + c - 1
      BY <1>1, <2>2, <3>1
    <3>3. r .. r + c - 1 \subseteq R(m + 1)
      <4>1. \A n \in r .. r + c - 1 : n \in r .. r + (m + 1) - 1 /\ r .. n \subseteq P
        BY <1>1, <2>1, <2>2
      <4> QED
        BY <4>1
    <3>4. R(m + 1) = r .. r + c - 1
      BY <3>2, <3>3
    <3>5. c \in 0 .. m + 1
      BY <2>2
    <3> HIDE DEF R
    <3> QED
      BY <2>4, <3>4, <3>5
  <2>5. c = m \/ c < m
    BY <2>2
  <2> QED
    BY <2>1, <2>3, <2>4, <2>5
<1>5. S = Nat
  <2>1. S \in SUBSET Nat
    OBVIOUS
  <2> HIDE DEF S
  <2> QED
    BY <1>3, <1>4, <2>1, NatSet, Zenon
<1>6. PICK c \in 0..RcvBatch : R(RcvBatch) = r .. r + c - 1
  BY <1>1, <1>5
<1>7. R(RcvBatch) \subseteq P
  BY <1>1
<1>8. c \in Nat
  BY <1>1
<1> HIDE DEF R
<1> QED
  BY <1>2, <1>6, <1>7, <1>8 DEF r, P

\* u and v send the same.
SendsSame(u, v) ==
    v.selfseq = u.selfseq /\ v.sndpkts = u.sndpkts /\ v.sndwins = u.sndwins

LEMMA SendsSameBuffered ==
    ASSUME NEW u, NEW v, SendsSame(u, v)
    PROVE  /\ Buffered(v) <=> Buffered(u)
           /\ Waiting(v) = Waiting(u) /\ Base(v) = Base(u)
BY DEF SendsSame, Buffered, Numbered, Waiting, Base

\* u and v differ at most in what they receive.
ReceivesOnly(u, v) ==
    /\ v.state = u.state /\ SendsSame(u, v)
    /\ v.self_passive_close = u.self_passive_close
    /\ v.peer_closed = u.peer_closed /\ v.can_close = u.can_close
    /\ v.closed = u.closed /\ v.sock_close = u.sock_close
    /\ v.rudp_close = u.rudp_close /\ v.timers = u.timers /\ v.known = u.known

\* _on_recv_data.
LEMMA RecvData ==
    ASSUME NEW u \in SrudpType, u.calls > 0, NEW got \in Seq(Nat), GivenInOrder(u, got)
    PROVE  LET r == on_recv_data(u) IN
           /\ r.u \in SrudpType /\ ReceivesOnly(u, r.u) /\ r.u.calls = u.calls - 1
           /\ GivenInOrder(r.u, got)
           /\ r.u.rcvpkts \cup 1 .. r.u.rcvseq - 1 = u.rcvpkts \cup 1 .. u.rcvseq - 1
           /\ r.out = << >> /\ r.post \in {<< >>, <<Signal("readyRead")>>}
<1> DEFINE l == Len(got)
           s == u.rcvseq
           v == [u EXCEPT !.calls = @ - 1, !.rcvwins = @ \cup Ready(u),
                          !.rcvpkts = @ \ Ready(u)]
<1>1. /\ u.calls \in Nat /\ u.calls - 1 \in Nat /\ s \in Nat \ {0} /\ l \in Nat /\ l < s
      /\ u.rcvpkts \in SUBSET Nat /\ u.rcvwins \in SUBSET Nat /\ u.rcvwins = l + 1 .. s - 1
  BY DEF SrudpType, GivenInOrder
<1>2. PICK c \in Nat : Ready(u) = s .. s + c - 1 /\ Ready(u) \subseteq u.rcvpkts
  BY ReadyInterval
<1>3. u.rcvwins \cup Ready(u) = l + 1 .. s + c - 1
  <2>1. \A n \in l + 1 .. s + c - 1 : n \in l + 1 .. s - 1 \/ n \in s .. s + c - 1
    BY <1>1
  <2>2. /\ \A n \in l + 1 .. s - 1 : n \in l + 1 .. s + c - 1
        /\ \A n \in s .. s + c - 1 : n \in l + 1 .. s + c - 1
    BY <1>1
  <2> QED
    BY <1>1, <1>2, <2>1, <2>2
<1>4. (u.rcvpkts \ Ready(u)) \cup 1 .. s + c - 1 = u.rcvpkts \cup 1 .. s - 1
  <2>1. \A n \in 1 .. s + c - 1 : n \in 1 .. s - 1 \/ n \in s .. s + c - 1
    BY <1>1
  <2>2. /\ \A n \in 1 .. s - 1 : n \in 1 .. s + c - 1
        /\ \A n \in s .. s + c - 1 : n \in 1 .. s + c - 1
    BY <1>1
  <2> QED
    BY <1>2, <2>1, <2>2
<1>5. PICK k \in Nat : k = u.calls - 1
  BY <1>1
<1>6. PICK W \in SUBSET Nat : W = l + 1 .. s + c - 1
  BY <1>1
<1>7. PICK P \in SUBSET Nat : P = u.rcvpkts \ Ready(u)
  BY <1>1
<1>8. v = [u EXCEPT !.calls = k, !.rcvwins = W, !.rcvpkts = P]
  BY <1>3, <1>5, <1>6, <1>7
<1> HIDE DEF v
<1>9. v \in SrudpType
  BY <1>8, ZenonT(60) DEF SrudpType
<1>10. /\ ReceivesOnly(u, v) /\ v.calls = k /\ v.rcvwins = W /\ v.rcvpkts = P /\ v.rcvseq = s
  BY <1>8 DEF ReceivesOnly, SendsSame, SrudpType
<1>11. CASE Ready(u) = {}
  <2>1. c = 0
    <3>1. c # 0 => s \in s .. s + c - 1
      BY <1>1
    <3> QED
      BY <1>2, <1>11, <3>1
  <2>2. on_recv_data(u) = Ignored(v)
    BY <1>11, Zenon DEF on_recv_data, v
  <2>3. s + c - 1 = s - 1
    BY <1>1, <2>1
  <2>4. GivenInOrder(v, got)
    BY <1>6, <1>10, <2>3 DEF GivenInOrder
  <2>5. v.rcvpkts \cup 1 .. v.rcvseq - 1 = u.rcvpkts \cup 1 .. u.rcvseq - 1
    BY <1>4, <1>7, <1>10, <2>3
  <2> QED
    BY <1>5, <1>9, <1>10, <2>2, <2>4, <2>5 DEF Ignored, Result
<1>12. CASE Ready(u) # {}
  <2>1. c >= 1
    BY <1>1, <1>2, <1>12
  <2>2. Max(W) = s + c - 1
    <3>1. s + c - 1 \in W /\ \A n \in W : s + c - 1 >= n
      BY <1>1, <1>6, <2>1
    <3>2. \A m \in W : (\A n \in W : m >= n) => m = s + c - 1
      BY <1>1, <3>1
    <3>3. \E m \in W : \A n \in W : m >= n
      BY <3>1
    <3>4. Max(W) \in W /\ \A n \in W : Max(W) >= n
      BY <3>3, Zenon DEF Max
    <3> QED
      BY <3>2, <3>4
  <2>3. PICK m \in Nat \ {0} : m = s + c
    BY <1>1
  <2> DEFINE w == [v EXCEPT !.rcvseq = m]
  <2>4. on_recv_data(u) = Result(w, << >>, <<Signal("readyRead")>>)
    <3>1. Max(v.rcvwins) + 1 = m
      <4>1. s \in Int
        BY <1>1
      <4>2. (s + c - 1) + 1 = m
        BY <2>3, <4>1
      <4> QED
        BY <1>10, <2>2, <4>2
    <3>2. on_recv_data(u) = Result([v EXCEPT !.rcvseq = Max(v.rcvwins) + 1],
                                   << >>, <<Signal("readyRead")>>)
      BY <1>12, Zenon DEF on_recv_data, v
    <3> QED
      BY <3>1, <3>2
  <2>5. w \in SrudpType
    BY <1>9, ZenonT(60) DEF SrudpType
  <2>6. /\ ReceivesOnly(u, w) /\ w.calls = k /\ w.rcvwins = W /\ w.rcvpkts = P /\ w.rcvseq = m
    BY <1>9, <1>10 DEF ReceivesOnly, SendsSame, SrudpType
  <2>7. m - 1 = s + c - 1 /\ l < m
    BY <1>1, <2>3
  <2>8. GivenInOrder(w, got)
    BY <1>6, <2>6, <2>7 DEF GivenInOrder
  <2>9. w.rcvpkts \cup 1 .. w.rcvseq - 1 = u.rcvpkts \cup 1 .. u.rcvseq - 1
    BY <1>4, <1>7, <2>6, <2>7
  <2> HIDE DEF w
  <2> QED
    BY <1>5, <2>4, <2>5, <2>6, <2>8, <2>9 DEF Result
<1> QED
  BY <1>11, <1>12

\* readPacket until it returns None.
LEMMA ReadsAll ==
    ASSUME NEW u \in SrudpType, NEW got \in Seq(Nat), GivenInOrder(u, got)
    PROVE  LET v == [u EXCEPT !.rcvwins = {}] IN
           /\ v \in SrudpType /\ ReceivesOnly(u, v) /\ HeldBy(v) = HeldBy(u)
           /\ v.calls = u.calls
           /\ got \o ReadAll(u) \in Seq(Nat)
           /\ GivenInOrder(v, got \o ReadAll(u))
<1> DEFINE v == [u EXCEPT !.rcvwins = {}]
           l == Len(got)
           more == ReadAll(u)
           all == got \o more
<1>1. /\ l \in Nat /\ u.rcvseq \in Nat \ {0} /\ l < u.rcvseq /\ u.rcvwins = l + 1 .. u.rcvseq - 1
      /\ got = [i \in 1..l |-> i]
  BY DEF SrudpType, GivenInOrder
<1>2. PICK k \in Nat : k = u.rcvseq - 1 - l
  BY <1>1
<1>3. /\ more = [i \in 1..k |-> l + i] /\ more \in Seq(Nat) /\ Len(more) = k
  <2>1. l + 1 \in Nat /\ u.rcvseq - 1 \in Int /\ u.rcvseq - 1 >= (l + 1) - 1
    BY <1>1
  <2>2. /\ Ascending(l + 1 .. u.rcvseq - 1) =
            [i \in 1 .. (u.rcvseq - 1) - (l + 1) + 1 |-> (l + 1) + i - 1]
        /\ Ascending(l + 1 .. u.rcvseq - 1) \in Seq(Nat)
        /\ Len(Ascending(l + 1 .. u.rcvseq - 1)) = (u.rcvseq - 1) - (l + 1) + 1
    BY <2>1, AscendingInterval
  <2>3. (u.rcvseq - 1) - (l + 1) + 1 = k
    BY <1>1, <1>2
  <2>4. \A i \in 1..k : (l + 1) + i - 1 = l + i
    BY <1>1
  <2>5. more = Ascending(l + 1 .. u.rcvseq - 1)
    BY <1>1 DEF ReadAll
  <2> HIDE DEF more, l
  <2>6. more = [i \in 1..k |-> (l + 1) + i - 1]
    BY <2>2, <2>3, <2>5
  <2>7. [i \in 1..k |-> (l + 1) + i - 1] = [i \in 1..k |-> l + i]
    BY <2>4
  <2> QED
    BY <2>2, <2>3, <2>5, <2>6, <2>7
<1> HIDE DEF more
<1>4. /\ all \in Seq(Nat) /\ Len(all) = l + k
      /\ \A i \in 1 .. l + k : all[i] = IF i <= l THEN got[i] ELSE more[i - l]
  <2>1. /\ all \in Seq(Nat) /\ Len(all) = Len(got) + Len(more)
        /\ \A i \in 1 .. Len(got) + Len(more) :
             all[i] = IF i <= Len(got) THEN got[i] ELSE more[i - Len(got)]
    BY <1>3, ConcatProperties, Zenon
  <2> QED
    BY <1>3, <2>1
<1> HIDE DEF all
<1>5. all = [i \in 1..Len(all) |-> i]
  <2>1. \A i \in 1 .. l + k : all[i] = i
    <3> TAKE i \in 1 .. l + k
    <3>1. CASE i <= l
      <4>1. i \in 1..l
        BY <1>1, <3>1
      <4> QED
        BY <1>1, <1>4, <3>1, <4>1
    <3>2. CASE i > l
      <4>1. i - l \in 1..k /\ l + (i - l) = i
        BY <1>1, <3>2
      <4>2. more[i - l] = l + (i - l)
        BY <1>3, <4>1
      <4>3. all[i] = more[i - l]
        BY <1>1, <1>4, <3>2
      <4> QED
        BY <4>1, <4>2, <4>3
    <3> QED
      BY <1>1, <3>1, <3>2
  <2>2. DOMAIN all = 1 .. l + k /\ all = [i \in DOMAIN all |-> all[i]]
    BY <1>4
  <2> QED
    BY <1>4, <2>1, <2>2
<1>6. v \in SrudpType
  <2>1. {} \in SUBSET Nat
    OBVIOUS
  <2> QED
    BY <2>1, ZenonT(60) DEF SrudpType
<1>7. ReceivesOnly(u, v) /\ v.rcvseq = u.rcvseq /\ v.rcvpkts = u.rcvpkts /\ v.rcvwins = {}
      /\ v.calls = u.calls
  BY DEF ReceivesOnly, SendsSame, SrudpType
<1> HIDE DEF v
<1>8. GivenInOrder(v, all)
  <2>1. Len(all) = u.rcvseq - 1
    BY <1>1, <1>2, <1>4
  <2>2. Len(all) < u.rcvseq /\ Len(all) + 1 .. u.rcvseq - 1 = {}
    BY <1>1, <2>1
  <2> QED
    BY <1>5, <1>7, <2>2 DEF GivenInOrder
<1> QED
  BY <1>4, <1>6, <1>7, <1>8 DEF v, all, more, HeldBy

-----------------------------------------------------------------------------
(***************************************************************************)
(* Queues.  A handler leaves the queue or takes its head, and posts one    *)
(* signal at most.                                                         *)
(***************************************************************************)
Rest(q, all) == q = all \/ (all # << >> /\ q = Tail(all))
Posts == {<< >>} \cup {<<Signal(s)>> : s \in Signals}

LEMMA RestKeeps ==
    ASSUME NEW S, NEW all \in Seq(S), NEW q, Rest(q, all)
    PROVE  /\ q \in Seq(S) /\ ToSet(q) \subseteq ToSet(all)
           /\ \A type : Once(all, type) => Once(q, type)
           /\ \A first, after : Behind(all, first, after) => Behind(q, first, after)
<1>1. CASE q = all
  BY <1>1
<1>2. CASE all # << >> /\ q = Tail(all)
  <2>1. q \in Seq(S) /\ ToSet(q) \subseteq ToSet(all)
    BY <1>2, ToSetTail, Zenon
  <2>2. \A type : Once(all, type) => Once(q, type)
    BY <1>2, OnceTail, Zenon
  <2>3. \A first, after : Behind(all, first, after) => Behind(q, first, after)
    BY <1>2, BehindTail, Zenon
  <2> QED
    BY <2>1, <2>2, <2>3
<1> QED
  BY <1>1, <1>2 DEF Rest

LEMMA PostsSmall ==
    ASSUME NEW post \in Posts
    PROVE  /\ post \in Seq(Event) /\ \A e \in ToSet(post) : e.type \in Signals
           /\ \A type : Once(post, type)
           /\ \A first, after : Behind(post, first, after)
<1>1. CASE post = << >>
  BY <1>1 DEF ToSet, Once, Behind
<1>2. CASE \E s \in Signals : post = <<Signal(s)>>
  <2>1. PICK s \in Signals : post = <<Signal(s)>>
    BY <1>2
  <2>2. post \in Seq(Event) /\ DOMAIN post = {1} /\ post[1].type = s
    BY <2>1 DEF Event, Signal
  <2>3. ToSet(post) = {post[1]}
    BY <2>2 DEF ToSet
  <2> QED
    BY <2>2, <2>3 DEF Once, Behind
<1> QED
  BY <1>1, <1>2 DEF Posts

\* A queue after a handler that took the head or left it and posted post.
LEMMA QueueAfter ==
    ASSUME NEW all \in Seq(Event), NEW q, Rest(q, all), NEW post \in Posts
    PROVE  /\ q \o post \in Seq(Event)
           /\ ToSet(q \o post) = ToSet(q) \cup ToSet(post)
           /\ ToSet(q) \subseteq ToSet(all)
           /\ \A e \in ToSet(post) : e.type \in Signals
           /\ \A type : Once(all, type) /\ (Has(ToSet(post), type) => ~Has(ToSet(q), type))
                => Once(q \o post, type)
           /\ \A first, after :
                /\ Behind(all, first, after)
                /\ Has(ToSet(q), first) => \A e \in ToSet(post) : e.type \notin after
                => Behind(q \o post, first, after)
           /\ post = << >> => q \o post = q
<1>1. /\ q \in Seq(Event) /\ ToSet(q) \subseteq ToSet(all)
      /\ \A type : Once(all, type) => Once(q, type)
      /\ \A first, after : Behind(all, first, after) => Behind(q, first, after)
  BY RestKeeps
<1>2. /\ post \in Seq(Event) /\ \A e \in ToSet(post) : e.type \in Signals
      /\ \A type : Once(post, type)
      /\ \A first, after : Behind(post, first, after)
  BY PostsSmall
<1>3. q \o post \in Seq(Event) /\ ToSet(q \o post) = ToSet(q) \cup ToSet(post)
  BY <1>1, <1>2, ToSetConcat
<1>4. \A type : Once(all, type) /\ (Has(ToSet(post), type) => ~Has(ToSet(q), type))
        => Once(q \o post, type)
  <2> SUFFICES ASSUME NEW type, Once(all, type), Has(ToSet(post), type) => ~Has(ToSet(q), type)
               PROVE  Once(q \o post, type)
    OBVIOUS
  <2>1. Once(q, type) /\ Once(post, type)
    BY <1>1, <1>2
  <2> QED
    BY <1>1, <1>2, <2>1, OnceConcat
<1>5. ASSUME NEW first, NEW after, Behind(all, first, after),
             Has(ToSet(q), first) => \A e \in ToSet(post) : e.type \notin after
      PROVE  Behind(q \o post, first, after)
  <2>1. Behind(q, first, after) /\ Behind(post, first, after)
    BY <1>1, <1>2, <1>5
  <2> QED
    BY <1>1, <1>2, <1>5, <2>1, BehindConcat
<1>6. post = << >> => q \o post = q
  BY <1>1, ConcatEmptySeq
<1> QED
  BY <1>1, <1>2, <1>3, <1>4, <1>5, <1>6

\* What a handler sends.
LEMMA SentAfter ==
    ASSUME NEW q \in Seq(Packet), NEW out \in Seq(Packet)
    PROVE  /\ Sent(q, out) \in Seq(Packet)
           /\ ToSet(Sent(q, out)) \subseteq ToSet(q) \cup ToSet(out)
           /\ ToSet(q) \subseteq ToSet(Sent(q, out))
           /\ out = << >> => Sent(q, out) = q
           /\ \A type : /\ Once(q, type) /\ Once(out, type)
                        /\ Has(ToSet(out), type) => ~Has(ToSet(q), type)
                        => Once(Sent(q, out), type)
           /\ \A first, after :
                /\ Behind(q, first, after) /\ Behind(out, first, after)
                /\ Has(ToSet(q), first) => \A e \in ToSet(out) : e.type \notin after
                => Behind(Sent(q, out), first, after)
<1>1. CASE link
  <2>1. Sent(q, out) = q \o out
    BY <1>1 DEF Sent
  <2>2. q \o out \in Seq(Packet) /\ ToSet(q \o out) = ToSet(q) \cup ToSet(out)
    BY ToSetConcat
  <2>3. \A type : /\ Once(q, type) /\ Once(out, type)
                  /\ Has(ToSet(out), type) => ~Has(ToSet(q), type)
                  => Once(q \o out, type)
    <3> SUFFICES ASSUME NEW type, Once(q, type), Once(out, type),
                        Has(ToSet(out), type) => ~Has(ToSet(q), type)
                 PROVE  Once(q \o out, type)
      OBVIOUS
    <3> QED
      BY OnceConcat
  <2>4. \A first, after :
          /\ Behind(q, first, after) /\ Behind(out, first, after)
          /\ Has(ToSet(q), first) => \A e \in ToSet(out) : e.type \notin after
          => Behind(q \o out, first, after)
    <3> SUFFICES ASSUME NEW first, NEW after, Behind(q, first, after), Behind(out, first, after),
                        Has(ToSet(q), first) => \A e \in ToSet(out) : e.type \notin after
                 PROVE  Behind(q \o out, first, after)
      OBVIOUS
    <3> QED
      BY BehindConcat
  <2>5. out = << >> => q \o out = q
    BY ConcatEmptySeq
  <2> QED
    BY <2>1, <2>2, <2>3, <2>4, <2>5
<1>2. CASE ~link
  BY <1>2 DEF Sent
<1> QED
  BY <1>1, <1>2

-----------------------------------------------------------------------------
(***************************************************************************)
(* What a handler of the client does to the invariant.  It leaves u, the   *)
(* rest q of the queue and the signals post, and sends out; the socket     *)
(* becomes a, and then w pieces have been written and got been given.      *)
(***************************************************************************)
LastStates == {"LAST_ACK", "CLOSED"}

CStages(u, out, post) ==
    /\ u.state \in {"SYN_SENT", "ESTAB"} \cup FinReceived
    /\ srv.state = "INIT" =>
        u.state = "SYN_SENT" /\ u.calls = 0 /\ out = << >> /\ post = << >>
    /\ u.state = "SYN_SENT" =>
        /\ cli.state = "SYN_SENT"
        /\ ~Has(ToSet(out), "SYN_ACK") /\ ~Has(ToSet(post), "connected")
    /\ u.state \in FinReceived => srv.state \in FinStates /\ u.self_passive_close
    /\ cli.state \in LastStates => u.state \in LastStates
    /\ \A e \in ToSet(out) :
        e.type \in {"SYN_ACK", "DATA", "DATA_ACK", "SRVFIN_ACK", "CLIFIN"}
    /\ Has(ToSet(out), "CLIFIN") => u.state \in LastStates

CSenders(u) ==
    /\ Numbered(u) /\ u.sndpkts = << >>
    /\ \A p \in u.sndwins : p.type = "CLIFIN" /\ u.state \in LastStates

CDown(u, out, got) ==
    /\ HeldBy(cli) \subseteq HeldBy(u)
    /\ \A n \in HeldBy(u) : n \in 1..served /\ n < Base(srv)
    /\ \A p \in ToSet(out) : p.type = "DATA_ACK" => p.seq \in HeldBy(u)
    /\ GivenInOrder(u, got)

CUp(u, out, queue, a, w) ==
    /\ wrote <= w
    /\ \A p \in ToSet(out) : p.type = "DATA" => p.seq \in 1..w
    /\ u.state \in {"SYN_SENT", "ESTAB", "CLOSE_WAIT"} => u.selfseq + a.unread = w + 1
    /\ u.state \in LastStates => u.selfseq = w + 2 /\ a.state = "closed"
    /\ u.state \in FinReceived => a.unread = 0
    /\ u.state = "ESTAB" /\ a.unread > 0 => Announced(queue)

CClosing(u, post, q, a) ==
    /\ u.closed => a.state = "closed"
    /\ Has(ToSet(post), "canClose") => ~Has(ToSet(q), "canClose")
    /\ Has(ToSet(q) \cup ToSet(post), "canClose") => u.state = "CLOSE_WAIT" /\ u.closed

CQuiet(u, out, post, q) ==
    /\ cli.state = "SYN_SENT" /\ u.state # "SYN_SENT" =>
        ~Has(ToSet(q), "SYN2") /\ ~Has(ToSet(toClient), "SYN2")
    /\ cli.state \in LastStates \/ Has(ToSet(out), "CLIFIN") => ~Has(ToSet(out), "DATA")
    /\ u.state \in FinReceived => ~Has(ToSet(q), "DATA") /\ ~Has(ToSet(toClient), "DATA")
    /\ Has(ToSet(q), "disconnected") => ~Has(ToSet(post), "readyRead")
    /\ Has(ToSet(q) \cup ToSet(post), "disconnected") => u.state = "CLOSED" /\ u.calls = 0
    /\ u.rudp_close =>
        u.state = "CLOSED" /\ u.calls = 0 /\ ~Has(ToSet(q) \cup ToSet(post), "readyRead")
    /\ ~u.known => u.rudp_close

LEMMA ClientStep ==
    ASSUME TunInv, NEW r, NEW q, Rest(q, cliq), ClientDoes(r, q),
           r.u \in SrudpType, r.out \in Seq(Packet), r.post \in Posts,
           app' \in [state : SocketStates, unread : Nat], wrote' \in 0..MaxUp,
           appGot' \in Seq(Nat), raised' = raised,
           CStages(r.u, r.out, r.post), CSenders(r.u), CDown(r.u, r.out, appGot'),
           CUp(r.u, r.out, q \o r.post, app', wrote'), CClosing(r.u, r.post, q, app'),
           CQuiet(r.u, r.out, r.post, q)
    PROVE  TunInv'
<1>1. PICK u, out, post : u = r.u /\ out = r.out /\ post = r.post
  OBVIOUS
<1>2. /\ cli' = u /\ cliq' = q \o post /\ toServer' = Sent(toServer, out)
      /\ link' = link /\ downs' = downs /\ toClient' = toClient
      /\ srv' = srv /\ srvq' = srvq /\ back' = back /\ served' = served /\ backGot' = backGot
  BY <1>1 DEF ClientDoes, netVars, srvVars
<1>3. /\ CStages(u, out, post) /\ CSenders(u) /\ CDown(u, out, appGot')
      /\ CUp(u, out, cliq', app', wrote') /\ CClosing(u, post, q, app')
      /\ CQuiet(u, out, post, q)
      /\ u \in SrudpType /\ out \in Seq(Packet) /\ post \in Posts
  BY <1>1, <1>2, Zenon
<1>4. cliq \in Seq(Event) /\ toServer \in Seq(Packet) /\ toClient \in Seq(Packet)
  BY DEF TunInv, TypeOK
<1>5. /\ cliq' \in Seq(Event)
      /\ ToSet(cliq') = ToSet(q) \cup ToSet(post) /\ ToSet(q) \subseteq ToSet(cliq)
      /\ \A e \in ToSet(post) : e.type \in Signals
      /\ post = << >> => cliq' = q
  BY <1>2, <1>3, <1>4, QueueAfter
<1>6. /\ toServer' \in Seq(Packet)
      /\ ToSet(toServer') \subseteq ToSet(toServer) \cup ToSet(out)
      /\ out = << >> => toServer' = toServer
  BY <1>2, <1>3, <1>4, SentAfter
<1>7. TypeOK'
  BY <1>2, <1>3, <1>4, <1>5, <1>6 DEF TunInv, TypeOK, Quiet
<1>8. Stages'
  <2>1. Stages
    BY DEF TunInv
  <2>2. /\ u.state \in {"SYN_SENT", "ESTAB"} \cup FinReceived
        /\ u.state \in FinReceived => srv.state \in FinStates /\ u.self_passive_close
        /\ cli.state \in LastStates => u.state \in LastStates
    BY <1>3, Zenon DEF CStages
  <2>3. srv.state = "INIT" => NotYet'
    <3> SUFFICES ASSUME srv.state = "INIT" PROVE NotYet'
      OBVIOUS
    <3>1. NotYet
      BY <2>1, Zenon DEF Stages
    <3>2. u.state = "SYN_SENT" /\ u.calls = 0 /\ out = << >> /\ post = << >>
      BY <1>3, Zenon DEF CStages
    <3>3. cliq' = << >> /\ toServer' = toServer
      BY <1>5, <1>6, <3>1, <3>2 DEF NotYet, Rest
    <3> QED
      BY <1>2, <3>1, <3>2, <3>3 DEF NotYet, ToSrv
  <2>4. /\ srv.state # "INIT" => ~Has(ToSet(srvq) \cup ToSet(toServer'), "SYN")
        /\ \A e \in ToSet(srvq) \cup ToSet(toServer') :
             e.type \in {"SYN", "SYN_ACK", "DATA", "DATA_ACK", "SRVFIN_ACK", "CLIFIN"} \cup Signals
        /\ Has(ToSet(srvq) \cup ToSet(toServer'), "CLIFIN") => u.state \in LastStates
    BY <1>3, <1>6, <2>1 DEF Stages, CStages, ToSrv, Has, LastStates
  <2>5. u.state = "SYN_SENT" =>
          /\ srv.state \in {"INIT", "SYN_RCVD"}
          /\ ~Has(ToSet(srvq) \cup ToSet(toServer'), "SYN_ACK")
          /\ ~Has(ToSet(cliq'), "connected")
    BY <1>3, <1>5, <1>6, <2>1 DEF Stages, CStages, ToSrv, Has
  <2>6. /\ \A e \in ToSet(cliq') \cup ToSet(toClient) :
             e.type \in {"SYN2", "DATA", "DATA_ACK", "SRVFIN", "CLIFIN_ACK"} \cup Signals
        /\ Has(ToSet(cliq') \cup ToSet(toClient), "SRVFIN") => srv.state \in FinStates
    BY <1>5, <2>1 DEF Stages, ToCli, Has, Signals
  <2>7. srv.state = "TIME_WAIT" => u.state \in LastStates
    BY <2>1, <2>2 DEF Stages, LastStates
  <2>8. /\ srv.state \in {"INIT", "SYN_RCVD", "ESTAB"} \cup FinStates
        /\ ~srv.self_passive_close
    BY <2>1 DEF Stages
  <2> QED
    BY <1>2, <2>2, <2>3, <2>4, <2>5, <2>6, <2>7, <2>8, Zenon
    DEF Stages, ToCli, ToSrv, LastStates
<1>9. OneSyn2'
  <2>1. Once(cliq', "SYN2")
    <3>1. Once(cliq, "SYN2") /\ ~Has(ToSet(post), "SYN2")
      BY <1>5 DEF TunInv, OneSyn2, Has, Signals
    <3> QED
      BY <1>2, <1>3, <1>4, <3>1, QueueAfter
  <2> QED
    BY <1>2, <1>3, <1>5, <2>1 DEF TunInv, OneSyn2, CQuiet, CStages, ToCli, Has, Signals
<1>10. Senders'
  BY <1>2, <1>3 DEF TunInv, Senders, CSenders, LastStates
<1>11. Down'
  BY <1>2, <1>3, <1>5, <1>6 DEF TunInv, Down, CDown, ToCli, ToSrv, Signals
<1>12. Up'
  <2>1. \A p \in ToSet(srvq) \cup ToSet(toServer') : p.type = "DATA" => p.seq \in 1..wrote'
    <3>1. \A n \in 1..wrote : n \in 1..wrote'
      <4>1. wrote \in 0..MaxUp /\ wrote' \in 0..MaxUp
        BY Zenon DEF TunInv, TypeOK
      <4>2. wrote <= wrote'
        BY <1>3, Zenon DEF CUp
      <4> QED
        BY <4>1, <4>2, SMT
    <3>2. \A p \in ToSet(srvq) \cup ToSet(toServer) : p.type = "DATA" => p.seq \in 1..wrote
      BY DEF TunInv, Up, ToSrv
    <3>3. \A p \in ToSet(out) : p.type = "DATA" => p.seq \in 1..wrote'
      BY <1>3, Zenon DEF CUp
    <3> QED
      BY <1>6, <3>1, <3>2, <3>3
  <2>2. \A n \in HeldBy(srv) : n \in 1..wrote'
    <3>1. \A n \in 1..wrote : n \in 1..wrote'
      <4>1. wrote \in 0..MaxUp /\ wrote' \in 0..MaxUp
        BY Zenon DEF TunInv, TypeOK
      <4>2. wrote <= wrote'
        BY <1>3, Zenon DEF CUp
      <4> QED
        BY <4>1, <4>2, SMT
    <3> QED
      BY <3>1 DEF TunInv, Up
  <2>3. GivenInOrder(srv, backGot)
    BY DEF TunInv, Up
  <2> QED
    BY <1>2, <1>3, <2>1, <2>2, <2>3, Zenon DEF Up, CUp, ToSrv, LastStates
<1>13. ReadAgain'
  BY <1>2 DEF TunInv, ReadAgain
<1>14. Closing'
  <2>1. Once(cliq', "canClose")
    <3>1. Once(cliq, "canClose") /\ (Has(ToSet(post), "canClose") => ~Has(ToSet(q), "canClose"))
      BY <1>3, Zenon DEF TunInv, Closing, CClosing
    <3> QED
      BY <1>2, <1>3, <1>4, <3>1, QueueAfter
  <2> QED
    BY <1>2, <1>3, <1>5, <2>1 DEF TunInv, Closing, CClosing, CDown
<1>15. Quiet'
  <2>1. Behind(cliq', "SRVFIN", {"DATA"})
    <3>1. \A e \in ToSet(post) : e.type \notin {"DATA"}
      BY <1>5 DEF Signals
    <3>2. Behind(cliq, "SRVFIN", {"DATA"})
      BY Zenon DEF TunInv, Quiet
    <3> QED
      BY <1>2, <1>3, <1>4, <3>1, <3>2, QueueAfter
  <2>2. Behind(cliq', "disconnected", {"readyRead"})
    <3>1. Has(ToSet(q), "disconnected") => \A e \in ToSet(post) : e.type \notin {"readyRead"}
      BY <1>3 DEF CQuiet, Has
    <3>2. Behind(cliq, "disconnected", {"readyRead"})
      BY Zenon DEF TunInv, Quiet
    <3> QED
      BY <1>2, <1>3, <1>4, <3>1, <3>2, QueueAfter
  <2>3. Behind(toServer', "CLIFIN", {"DATA"})
    <3>1. Behind(out, "CLIFIN", {"DATA"})
      <4>1. \A i \in DOMAIN out : out[i] \in ToSet(out)
        BY DEF ToSet
      <4> QED
        BY <1>3, <4>1 DEF CQuiet, Has, Behind
    <3>2. Has(ToSet(toServer), "CLIFIN") => cli.state \in LastStates
      BY DEF TunInv, Stages, ToSrv, Has, LastStates
    <3>3. Has(ToSet(toServer), "CLIFIN") => \A e \in ToSet(out) : e.type \notin {"DATA"}
      BY <1>3, <3>2 DEF CQuiet, Has
    <3>4. Behind(toServer, "CLIFIN", {"DATA"})
      BY Zenon DEF TunInv, Quiet
    <3> QED
      BY <1>2, <1>3, <1>4, <3>1, <3>3, <3>4, SentAfter
  <2>4. /\ Has(ToSet(cliq'), "SRVFIN") => ~Has(ToSet(toClient), "DATA")
        /\ u.state \in FinReceived => ~Has(ToSet(cliq') \cup ToSet(toClient), "DATA")
    BY <1>3, <1>5 DEF TunInv, Quiet, CQuiet, Has, Signals
  <2>5. /\ Has(ToSet(srvq), "CLIFIN") => ~Has(ToSet(toServer'), "DATA")
        /\ srv.state = "TIME_WAIT" => ~Has(ToSet(srvq) \cup ToSet(toServer'), "DATA")
    BY <1>3, <1>6 DEF TunInv, Quiet, CQuiet, Stages, ToSrv, Has, LastStates
  <2>6. /\ Has(ToSet(cliq'), "disconnected") => u.state = "CLOSED" /\ u.calls = 0
        /\ u.rudp_close =>
            u.state = "CLOSED" /\ u.calls = 0 /\ ~Has(ToSet(cliq'), "readyRead")
        /\ ~u.known => u.rudp_close
    BY <1>3, <1>5 DEF CQuiet
  <2> QED
    BY <1>2, <2>1, <2>2, <2>3, <2>4, <2>5, <2>6, Zenon DEF TunInv, Quiet, ToCli, ToSrv
<1> QED
  BY <1>7, <1>8, <1>9, <1>10, <1>11, <1>12, <1>13, <1>14, <1>15 DEF TunInv

-----------------------------------------------------------------------------
(***************************************************************************)
(* The handlers of the client.                                             *)
(***************************************************************************)
LEMMA FlowSame ==
    ASSUME NEW u, NEW v, v.rcvseq = u.rcvseq, v.rcvpkts = u.rcvpkts, v.rcvwins = u.rcvwins
    PROVE  /\ HeldBy(v) = HeldBy(u)
           /\ \A got : GivenInOrder(u, got) => GivenInOrder(v, got)
BY DEF HeldBy, GivenInOrder

\* A handler that changes what has been received or the flags of closing.
LEMMA ClientSame ==
    ASSUME TunInv, NEW u, NEW out, NEW post \in Posts, NEW q, Rest(q, cliq), NEW a, NEW got,
           u.state = cli.state, u.self_passive_close = cli.self_passive_close,
           SendsSame(cli, u), HeldBy(u) = HeldBy(cli), GivenInOrder(u, got),
           a.unread = app.unread, a.state \in {app.state, "closed"},
           q = cliq \/ Head(cliq).type # "connected", ~Has(ToSet(post), "connected"),
           \A e \in ToSet(out) : e.type = "SRVFIN_ACK",
           srv.state = "INIT" => u.calls = 0 /\ out = << >> /\ post = << >>
    PROVE  /\ CStages(u, out, post) /\ CSenders(u) /\ CDown(u, out, got)
           /\ CUp(u, out, q \o post, a, wrote)
<1>1. CStages(u, out, post)
  BY DEF TunInv, Stages, CStages, NotYet, Has, LastStates, FinReceived, FinStates
<1>2. CSenders(u)
  <2>1. Numbered(u)
    BY DEF TunInv, Senders, SendsSame, Numbered, Base
  <2> QED
    BY <2>1 DEF TunInv, Senders, CSenders, SendsSame, LastStates
<1>3. CDown(u, out, got)
  BY DEF TunInv, Down, CDown
<1>4. CUp(u, out, q \o post, a, wrote)
  <2>1. wrote <= wrote
    BY DEF TunInv, TypeOK
  <2>2. Announced(cliq) => Announced(q \o post)
    <3> SUFFICES ASSUME Announced(cliq) PROVE Announced(q \o post)
      OBVIOUS
    <3>1. cliq \in Seq(Event) /\ q \in Seq(Event) /\ post \in Seq(Event)
      BY RestKeeps, PostsSmall DEF TunInv, TypeOK
    <3>2. Announced(q)
      <4>1. CASE q = cliq
        BY <4>1
      <4>2. CASE cliq # << >> /\ q = Tail(cliq) /\ Head(cliq).type # "connected"
        BY <3>1, <4>2, ComesTail DEF Announced
      <4> QED
        BY <4>1, <4>2 DEF Rest
    <3> QED
      BY <3>1, <3>2, ComesConcat DEF Announced
  <2>3. \A p \in ToSet(out) : p.type # "DATA"
    OBVIOUS
  <2> QED
    BY <2>1, <2>2, <2>3 DEF TunInv, Up, CUp, SendsSame, LastStates
<1> QED
  BY <1>1, <1>2, <1>3, <1>4

\* _toxchanPromiseCleanup.
LEMMA Cleanup ==
    ASSUME NEW v \in SrudpType
    PROVE  LET u == PromiseCleanup(v) IN
           /\ u \in SrudpType /\ u.state = v.state /\ SendsSame(v, u)
           /\ u.rcvseq = v.rcvseq /\ u.rcvpkts = v.rcvpkts /\ u.rcvwins = v.rcvwins
           /\ u.self_passive_close = v.self_passive_close
           /\ u.peer_closed = v.peer_closed /\ u.can_close = v.can_close
           /\ u.closed = v.closed /\ u.sock_close = v.sock_close
           /\ u.rudp_close = v.rudp_close /\ u.calls = v.calls
           /\ ~u.known =>
                \/ ~v.known
                \/ /\ v.rudp_close
                   /\ v.state = IF v.self_passive_close THEN "CLOSED" ELSE "TIME_WAIT"
<1>1. CASE Promised(v)
  <2> DEFINE u == [v EXCEPT !.known = FALSE, !.timers = FALSE]
  <2>1. PromiseCleanup(v) = u
    BY <1>1 DEF PromiseCleanup
  <2>2. u \in SrudpType
    BY ZenonT(60) DEF SrudpType
  <2>3. /\ v.rudp_close /\ v.state = IF v.self_passive_close THEN "CLOSED" ELSE "TIME_WAIT"
    BY <1>1 DEF Promised
  <2> QED
    BY <2>1, <2>2, <2>3 DEF SendsSame, SrudpType
<1>2. CASE ~Promised(v)
  BY <1>2 DEF PromiseCleanup, SendsSame
<1> QED
  BY <1>1, <1>2

\* _onTcpDisconnected.
LEMMA AppCloseStep ==
    ASSUME TunInv, AppClose
    PROVE  TunInv'
<1> DEFINE v == [cli EXCEPT !.sock_close = TRUE, !.closed = TRUE]
           u == PromiseCleanup(v)
           r == Ignored(u)
<1>1. /\ app' = [app EXCEPT !.state = "closed"] /\ ClientDoes(r, cliq)
      /\ wrote' = wrote /\ appGot' = appGot /\ raised' = raised
  BY DEF AppClose
<1>2. /\ cli \in SrudpType /\ cliq \in Seq(Event) /\ wrote \in 0..MaxUp /\ appGot \in Seq(Nat)
      /\ app \in [state : SocketStates, unread : Nat]
  BY DEF TunInv, TypeOK
<1>3. v \in SrudpType
  BY <1>2, ZenonT(60) DEF SrudpType
<1>4. /\ v.state = cli.state /\ SendsSame(cli, v)
      /\ v.rcvseq = cli.rcvseq /\ v.rcvpkts = cli.rcvpkts /\ v.rcvwins = cli.rcvwins
      /\ v.self_passive_close = cli.self_passive_close
      /\ v.rudp_close = cli.rudp_close /\ v.calls = cli.calls /\ v.known = cli.known
      /\ v.closed
  BY <1>2 DEF SendsSame, SrudpType
<1> HIDE DEF v
<1>5. /\ u \in SrudpType /\ u.state = cli.state /\ SendsSame(cli, u)
      /\ u.rcvseq = cli.rcvseq /\ u.rcvpkts = cli.rcvpkts /\ u.rcvwins = cli.rcvwins
      /\ u.self_passive_close = cli.self_passive_close
      /\ u.rudp_close = cli.rudp_close /\ u.calls = cli.calls /\ u.closed
      /\ ~u.known => ~cli.known \/ cli.rudp_close
  BY <1>3, <1>4, Cleanup, Zenon DEF SendsSame
<1> HIDE DEF u
<1>6. r.u = u /\ r.out = << >> /\ r.post = << >>
  BY DEF Ignored, Result
<1>7. /\ app' \in [state : SocketStates, unread : Nat]
      /\ app'.unread = app.unread /\ app'.state = "closed"
  BY <1>1, <1>2 DEF SocketStates
<1> HIDE DEF r
<1>8. Rest(cliq, cliq) /\ << >> \in Posts /\ ToSet(<< >>) = {} /\ << >> \in Seq(Packet)
  BY DEF Rest, Posts, ToSet
<1>9. HeldBy(u) = HeldBy(cli) /\ GivenInOrder(u, appGot)
  BY <1>5, FlowSame DEF TunInv, Down
<1>10. /\ CStages(u, << >>, << >>) /\ CSenders(u) /\ CDown(u, << >>, appGot)
       /\ CUp(u, << >>, cliq \o << >>, app', wrote)
  <2>1. srv.state = "INIT" => u.calls = 0
    BY <1>5 DEF TunInv, Stages, NotYet
  <2> QED
    BY <1>5, <1>7, <1>8, <1>9, <2>1, ClientSame DEF Has
<1>11. CClosing(u, << >>, cliq, app')
  BY <1>5, <1>7, <1>8 DEF TunInv, Closing, CClosing, Has
<1>12. CQuiet(u, << >>, << >>, cliq)
  BY <1>5, <1>8 DEF TunInv, Quiet, CQuiet, Has, ToCli
<1> QED
  BY <1>1, <1>2, <1>5, <1>6, <1>7, <1>8, <1>10, <1>11, <1>12, ClientStep

LEMMA StateTypes ==
    ASSUME TunInv
    PROVE  /\ cli \in SrudpType /\ srv \in SrudpType
           /\ cliq \in Seq(Event) /\ srvq \in Seq(Event)
           /\ toServer \in Seq(Packet) /\ toClient \in Seq(Packet)
           /\ app \in [state : SocketStates, unread : Nat]
           /\ back \in [state : SocketStates, unread : Nat]
           /\ wrote \in 0..MaxUp /\ served \in 0..MaxDown
           /\ appGot \in Seq(Nat) /\ backGot \in Seq(Nat)
BY DEF TunInv, TypeOK

LEMMA NothingDone ==
    /\ << >> \in Posts /\ << >> \in Seq(Packet) /\ ToSet(<< >>) = {}
    /\ \A q : Rest(q, q)
    /\ \A s \in Signals : <<Signal(s)>> \in Posts
    /\ \A s \in Signals : ToSet(<<Signal(s)>>) = {Signal(s)} /\ Signal(s).type = s
BY DEF Posts, ToSet, Rest, Signal

LEMMA OneReply ==
    ASSUME NEW type \in PacketTypes, NEW n \in Nat
    PROVE  /\ <<Pkt(type, n)>> \in Seq(Packet)
           /\ ToSet(<<Pkt(type, n)>>) = {Pkt(type, n)}
           /\ Pkt(type, n).type = type /\ Pkt(type, n).seq = n
BY DEF Packet, Pkt, ToSet

LEMMA HeadTaken ==
    ASSUME NEW all \in Seq(Event), all # << >>
    PROVE  /\ Rest(Tail(all), all) /\ Head(all) \in ToSet(all) /\ Head(all) \in Event
           /\ ToSet(Tail(all)) \subseteq ToSet(all)
           /\ \A e \in ToSet(all) : e = Head(all) \/ e \in ToSet(Tail(all))
<1>1. /\ Tail(all) \in Seq(Event) /\ Head(all) \in ToSet(all) /\ Head(all) \in Event
      /\ ToSet(Tail(all)) \subseteq ToSet(all)
      /\ Len(Tail(all)) = Len(all) - 1 /\ Head(all) = all[1] /\ Len(all) \in Nat \ {0}
      /\ \A i \in 1 .. Len(all) - 1 : Tail(all)[i] = all[i + 1]
  BY ToSetTail, Zenon
<1>2. ASSUME NEW e \in ToSet(all), e # Head(all) PROVE e \in ToSet(Tail(all))
  <2>1. PICK i \in 1..Len(all) : e = all[i]
    BY <1>2, ToSetSeq
  <2>2. i - 1 \in 1 .. Len(all) - 1 /\ (i - 1) + 1 = i
    BY <1>1, <1>2, <2>1
  <2>3. e = Tail(all)[i - 1]
    BY <1>1, <2>1, <2>2
  <2>4. ToSet(Tail(all)) = {Tail(all)[k] : k \in 1 .. Len(all) - 1}
    <3>1. ToSet(Tail(all)) = {Tail(all)[k] : k \in 1 .. Len(Tail(all))}
      BY <1>1, ToSetSeq, Zenon
    <3> QED
      BY <1>1, <3>1, Zenon
  <2> QED
    BY <2>2, <2>3, <2>4
<1> QED
  BY <1>1, <1>2 DEF Rest

LEMMA ClientRecvTimerStep ==
    ASSUME TunInv, ClientRecvTimer
    PROVE  TunInv'
<1> DEFINE r == on_recv_data(cli)
           u == r.u
<1>1. /\ ClientDoes(r, cliq) /\ cli.calls > 0
      /\ app' = app /\ wrote' = wrote /\ appGot' = appGot /\ raised' = raised
  BY DEF ClientRecvTimer
<1>2. GivenInOrder(cli, appGot)
  BY DEF TunInv, Down
<1>3. /\ u \in SrudpType /\ ReceivesOnly(cli, u) /\ u.calls = cli.calls - 1
      /\ GivenInOrder(u, appGot) /\ HeldBy(u) = HeldBy(cli)
      /\ r.out = << >> /\ r.post \in {<< >>, <<Signal("readyRead")>>}
  BY <1>1, <1>2, StateTypes, RecvData, Zenon DEF HeldBy
<1>4. /\ r.post \in Posts /\ \A e \in ToSet(r.post) : e.type = "readyRead"
      /\ Rest(cliq, cliq) /\ << >> \in Seq(Packet) /\ ToSet(<< >>) = {}
  <2>1. "readyRead" \in Signals
    BY DEF Signals
  <2>2. CASE r.post = << >>
    BY <2>2, NothingDone, Zenon
  <2>3. CASE r.post = <<Signal("readyRead")>>
    BY <2>1, <2>3, NothingDone
  <2> QED
    BY <1>3, <2>2, <2>3
<1> HIDE DEF r
<1>5. cli.calls # 0 /\ srv.state # "INIT"
  <2>1. cli.calls # 0
    BY <1>1
  <2> QED
    BY <2>1, Zenon DEF TunInv, Stages, NotYet
<1>6. /\ CStages(u, << >>, r.post) /\ CSenders(u) /\ CDown(u, << >>, appGot)
      /\ CUp(u, << >>, cliq \o r.post, app, wrote)
  BY <1>3, <1>4, <1>5, ClientSame DEF ReceivesOnly, Has
<1>7. CClosing(u, r.post, cliq, app)
  BY <1>3, <1>4 DEF TunInv, Closing, CClosing, Has, ReceivesOnly
<1>8. CQuiet(u, << >>, r.post, cliq)
  BY <1>3, <1>4, <1>5 DEF TunInv, Quiet, CQuiet, Has, ToCli, ReceivesOnly
<1> QED
  BY <1>1, <1>3, <1>4, <1>6, <1>7, <1>8, StateTypes, ClientStep

\* _toxchanReadyRead.
LEMMA ClientReadyReadStep ==
    ASSUME TunInv, ClientReadyRead
    PROVE  TunInv'
<1> DEFINE u == [cli EXCEPT !.rcvwins = {}]
           r == Ignored(u)
           q == Tail(cliq)
           got == appGot \o ReadAll(cli)
<1>1. cliq # << >> /\ Head(cliq).type = "readyRead"
  BY DEF ClientReadyRead, Next1
<1>2. /\ Rest(q, cliq) /\ Head(cliq) \in ToSet(cliq) /\ ToSet(q) \subseteq ToSet(cliq)
  BY <1>1, StateTypes, HeadTaken
<1>3. cli.known
  BY <1>1, <1>2 DEF TunInv, Quiet, Has
<1>4. /\ ClientDoes(r, q) /\ appGot' = got
      /\ app' = app /\ wrote' = wrote /\ raised' = raised
  BY <1>3 DEF ClientReadyRead
<1>5. GivenInOrder(cli, appGot)
  BY DEF TunInv, Down
<1>6. /\ u \in SrudpType /\ ReceivesOnly(cli, u) /\ u.calls = cli.calls
      /\ GivenInOrder(u, got) /\ HeldBy(u) = HeldBy(cli) /\ got \in Seq(Nat)
  BY <1>5, StateTypes, ReadsAll, Zenon
<1>7. r.u = u /\ r.out = << >> /\ r.post = << >>
  BY DEF Ignored, Result
<1> HIDE DEF u, r, got
<1>8. srv.state # "INIT"
  BY <1>1 DEF TunInv, Stages, NotYet
<1>9. /\ CStages(u, << >>, << >>) /\ CSenders(u) /\ CDown(u, << >>, got)
      /\ CUp(u, << >>, q \o << >>, app, wrote)
  BY <1>1, <1>2, <1>6, <1>8, NothingDone, ClientSame DEF ReceivesOnly, Has
<1>10. CClosing(u, << >>, q, app)
  BY <1>2, <1>6, NothingDone DEF TunInv, Closing, CClosing, Has, ReceivesOnly
<1>11. CQuiet(u, << >>, << >>, q)
  BY <1>2, <1>6, NothingDone DEF TunInv, Quiet, CQuiet, Has, ToCli, ReceivesOnly
<1> QED
  BY <1>2, <1>4, <1>6, <1>7, <1>9, <1>10, <1>11, NothingDone, StateTypes, ClientStep

\* _toxchanDisconnected.
LEMMA ClientDisconnectedStep ==
    ASSUME TunInv, ClientDisconnected
    PROVE  TunInv'
<1> DEFINE v == [cli EXCEPT !.rudp_close = TRUE]
           u == IF cli.known THEN PromiseCleanup(v) ELSE cli
           r == Ignored(u)
           q == Tail(cliq)
<1>1. /\ cliq # << >> /\ Head(cliq).type = "disconnected" /\ ClientDoes(r, q)
      /\ app' = app /\ wrote' = wrote /\ appGot' = appGot /\ raised' = raised
  BY DEF ClientDisconnected, Next1
<1>2. /\ Rest(q, cliq) /\ Head(cliq) \in ToSet(cliq) /\ ToSet(q) \subseteq ToSet(cliq)
  BY <1>1, StateTypes, HeadTaken
<1>3. v \in SrudpType
  BY StateTypes, ZenonT(60) DEF SrudpType
<1>4. /\ v.state = cli.state /\ SendsSame(cli, v)
      /\ v.rcvseq = cli.rcvseq /\ v.rcvpkts = cli.rcvpkts /\ v.rcvwins = cli.rcvwins
      /\ v.self_passive_close = cli.self_passive_close
      /\ v.rudp_close = TRUE /\ v.calls = cli.calls /\ v.known = cli.known /\ v.closed = cli.closed
  BY StateTypes DEF SendsSame, SrudpType
<1> HIDE DEF v
<1>5. ~cli.known => cli.rudp_close
  BY DEF TunInv, Quiet
<1>6. /\ u \in SrudpType /\ u.state = cli.state /\ SendsSame(cli, u)
      /\ u.rcvseq = cli.rcvseq /\ u.rcvpkts = cli.rcvpkts /\ u.rcvwins = cli.rcvwins
      /\ u.self_passive_close = cli.self_passive_close
      /\ u.rudp_close = TRUE /\ u.calls = cli.calls /\ u.closed = cli.closed
  <2>1. CASE cli.known
    <3>1. u = PromiseCleanup(v)
      BY <2>1
    <3> HIDE DEF u
    <3> QED
      BY <1>3, <1>4, <3>1, Cleanup DEF SendsSame
  <2>2. CASE ~cli.known
    BY <1>5, <2>2, StateTypes DEF SendsSame, SrudpType
  <2> QED
    BY <2>1, <2>2
<1> HIDE DEF u
<1>7. r.u = u /\ r.out = << >> /\ r.post = << >>
  BY DEF Ignored, Result
<1> HIDE DEF r
<1>8. HeldBy(u) = HeldBy(cli) /\ GivenInOrder(u, appGot)
  BY <1>6, FlowSame DEF TunInv, Down
<1>9. srv.state # "INIT"
  BY <1>1 DEF TunInv, Stages, NotYet
<1>10. /\ CStages(u, << >>, << >>) /\ CSenders(u) /\ CDown(u, << >>, appGot)
       /\ CUp(u, << >>, q \o << >>, app, wrote)
  BY <1>1, <1>2, <1>6, <1>8, <1>9, NothingDone, ClientSame DEF Has
<1>11. CClosing(u, << >>, q, app)
  BY <1>2, <1>6, NothingDone DEF TunInv, Closing, CClosing, Has
<1>12. CQuiet(u, << >>, << >>, q)
  <2>1. cli.state = "CLOSED" /\ cli.calls = 0
    BY <1>1, <1>2 DEF TunInv, Quiet, Has
  <2>2. \A e \in ToSet(q) : e.type \notin {"readyRead"}
    BY <1>1, StateTypes, BehindTail DEF TunInv, Quiet
  <2> QED
    BY <1>2, <1>6, <2>1, <2>2, NothingDone DEF TunInv, Quiet, CQuiet, Has, ToCli, FinReceived
<1> QED
  BY <1>1, <1>2, <1>6, <1>7, <1>10, <1>11, <1>12, NothingDone, StateTypes, ClientStep

\* _try_step_send.
LEMMA ClientTickStep ==
    ASSUME TunInv, ClientTick
    PROVE  TunInv'
<1> DEFINE f == attemp_flush(cli)
           fin == SaysCanClose(f, "CLOSE_WAIT")
           over == ~fin /\ f.can_close /\ f.state = "CLOSED"
           u == [f EXCEPT !.can_close = @ \/ fin]
           sent == Flushed(cli.sndpkts, f)
           post == (IF fin THEN <<Signal("canClose")>> ELSE << >>)
                   \o (IF over THEN <<Signal("disconnected")>> ELSE << >>)
           r == Result(u, sent, post)
<1>1. /\ NoTick(cliq) /\ cli.calls = 0 /\ ClientDoes(r, cliq)
      /\ app' = app /\ wrote' = wrote /\ appGot' = appGot /\ raised' = raised
  BY DEF ClientTick
<1>2. r.u = u /\ r.out = sent /\ r.post = post
  BY DEF Result
<1> HIDE DEF r
<1>3. cli \in SrudpType /\ Numbered(cli) /\ cli.sndpkts = << >>
  BY StateTypes DEF TunInv, Senders
<1>4. /\ f \in SrudpType /\ Others(cli, f) /\ f.selfseq = cli.selfseq
      /\ f.sndpkts = << >> /\ f.sndwins = cli.sndwins /\ sent = << >>
  BY <1>3, Flush, Zenon
<1>5. fin => f.closed /\ f.state = "CLOSE_WAIT"
  BY DEF SaysCanClose
<1> HIDE DEF f, sent
<1>6. u \in SrudpType
  <2>1. (f.can_close \/ fin) \in BOOLEAN
    OBVIOUS
  <2> HIDE DEF fin
  <2> QED
    BY <1>4, <2>1, ZenonT(60) DEF SrudpType
<1>8. /\ u.state = cli.state /\ SendsSame(cli, u)
      /\ u.rcvseq = cli.rcvseq /\ u.rcvpkts = cli.rcvpkts /\ u.rcvwins = cli.rcvwins
      /\ u.self_passive_close = cli.self_passive_close
      /\ u.rudp_close = cli.rudp_close /\ u.calls = cli.calls /\ u.closed = cli.closed
      /\ u.known = cli.known
  BY <1>3, <1>4 DEF SendsSame, Others, SrudpType
<1>9. /\ fin => cli.closed /\ cli.state = "CLOSE_WAIT"
      /\ over => cli.state = "CLOSED"
  BY <1>4, <1>5 DEF Others
<1> HIDE DEF u, fin
<1>10. /\ post \in Posts /\ \A e \in ToSet(post) : e.type \in {"canClose", "disconnected"}
       /\ Has(ToSet(post), "canClose") => fin
       /\ Has(ToSet(post), "disconnected") => over
       /\ cli.state = "SYN_SENT" => post = << >>
  <2>1. CASE fin
    <3>1. post = <<Signal("canClose")>>
      BY <2>1
    <3> HIDE DEF post
    <3> QED
      BY <1>9, <2>1, <3>1, NothingDone DEF Signals, Has
  <2>2. CASE over
    <3>1. post = <<Signal("disconnected")>>
      BY <2>2
    <3> HIDE DEF post
    <3> QED
      BY <1>9, <2>2, <3>1, NothingDone DEF Signals, Has
  <2>3. CASE ~fin /\ ~over
    <3>1. post = << >>
      BY <2>3
    <3> HIDE DEF post
    <3> QED
      BY <2>3, <3>1, NothingDone DEF Has
  <2> QED
    BY <2>1, <2>2, <2>3
<1> HIDE DEF post, over
<1>11. HeldBy(u) = HeldBy(cli) /\ GivenInOrder(u, appGot)
  BY <1>8, FlowSame DEF TunInv, Down
<1>12. ~Has(ToSet(cliq), "canClose") /\ ~Has(ToSet(cliq), "disconnected")
  BY <1>1 DEF NoTick, Has, ToSet
<1>13. /\ CStages(u, << >>, post) /\ CSenders(u) /\ CDown(u, << >>, appGot)
       /\ CUp(u, << >>, cliq \o post, app, wrote)
  <2>1. srv.state = "INIT" => u.calls = 0 /\ post = << >>
    BY <1>1, <1>8, <1>10 DEF TunInv, Stages, NotYet
  <2> QED
    BY <1>8, <1>10, <1>11, <2>1, NothingDone, ClientSame DEF Has
<1>14. CClosing(u, post, cliq, app)
  BY <1>8, <1>9, <1>10, <1>12 DEF TunInv, Closing, CClosing, Has
<1>15. CQuiet(u, << >>, post, cliq)
  BY <1>1, <1>8, <1>9, <1>10, <1>12, NothingDone DEF TunInv, Quiet, CQuiet, Has, ToCli
<1>16. r.u = u /\ r.out = << >> /\ r.post = post
  BY <1>2, <1>4, Zenon
<1> QED
  BY <1>1, <1>6, <1>10, <1>13, <1>14, <1>15, <1>16, NothingDone, StateTypes, ClientStep

\* mkdiscon, when everything before has been acknowledged.
LEMMA Mkdiscon ==
    ASSUME NEW u \in SrudpType, Numbered(u), u.sndpkts = << >>, u.sndwins = {},
           NEW fin \in PacketTypes
    PROVE  LET v == mkdiscon(u, fin)
               out == Flushed(make_pkt(u, fin).sndpkts, v)
           IN
           /\ v \in SrudpType /\ Buffered(v) /\ v.selfseq = u.selfseq + 1
           /\ v.state = IF u.self_passive_close THEN "LAST_ACK" ELSE "FIN_WAIT_1"
           /\ v.sndpkts = << >> /\ v.sndwins = {Pkt(fin, u.selfseq)}
           /\ v.rcvseq = u.rcvseq /\ v.rcvpkts = u.rcvpkts /\ v.rcvwins = u.rcvwins
           /\ v.self_passive_close = u.self_passive_close
           /\ v.peer_closed = u.peer_closed /\ v.can_close = u.can_close
           /\ v.closed = u.closed /\ v.sock_close = u.sock_close
           /\ v.rudp_close = u.rudp_close /\ v.calls = u.calls /\ v.known = u.known
           /\ out \in Seq(Packet) /\ ToSet(out) \subseteq {Pkt(fin, u.selfseq)}
<1> DEFINE w == make_pkt(u, fin)
           s == IF u.self_passive_close THEN "LAST_ACK" ELSE "FIN_WAIT_1"
           x == [w EXCEPT !.state = s]
           v == mkdiscon(u, fin)
           p == Pkt(fin, u.selfseq)
<1>1. /\ w \in SrudpType /\ Numbered(w) /\ Others(u, w)
      /\ w.selfseq = u.selfseq + 1 /\ w.sndwins = {}
      /\ Len(w.sndpkts) = Len(u.sndpkts) + 1
      /\ ToSet(w.sndpkts) = ToSet(u.sndpkts) \cup {p}
  BY MakePkt, Zenon
<1>2. Len(u.sndpkts) = 0 /\ ToSet(u.sndpkts) = {}
  BY NothingDone
<1>3. v = attemp_flush(x)
  BY DEF mkdiscon
<1> HIDE DEF w
<1>4. s \in States
  BY DEF States
<1> HIDE DEF s
<1>5. x \in SrudpType
  BY <1>1, <1>4, ZenonT(60) DEF SrudpType
<1>6. /\ SendsSame(w, x) /\ x.state = s
      /\ x.rcvseq = w.rcvseq /\ x.rcvpkts = w.rcvpkts /\ x.rcvwins = w.rcvwins
      /\ x.self_passive_close = w.self_passive_close
      /\ x.peer_closed = w.peer_closed /\ x.can_close = w.can_close
      /\ x.closed = w.closed /\ x.sock_close = w.sock_close
      /\ x.rudp_close = w.rudp_close /\ x.calls = w.calls /\ x.known = w.known
  BY <1>1 DEF SendsSame, SrudpType
<1> HIDE DEF x
<1>7. Numbered(x)
  BY <1>1, <1>6 DEF SendsSame, Numbered, Base
<1>8. x.sndwins = {} /\ Len(x.sndpkts) <= 1 /\ ToSet(x.sndpkts) = {p}
  <2>1. x.sndwins = w.sndwins /\ x.sndpkts = w.sndpkts
    BY <1>6 DEF SendsSame
  <2>2. Len(w.sndpkts) = 1
    BY <1>1, <1>2
  <2>3. ToSet(w.sndpkts) = {p}
    BY <1>1, <1>2, Zenon
  <2>4. Len(x.sndpkts) <= 1
    BY <2>1, <2>2
  <2> QED
    BY <1>1, <2>1, <2>3, <2>4, Zenon
<1>9. /\ v \in SrudpType /\ Buffered(v) /\ Others(x, v) /\ v.selfseq = x.selfseq
      /\ Waiting(v) = Waiting(x) /\ v.sndpkts = << >>
      /\ Flushed(x.sndpkts, v) \in Seq(Packet)
      /\ ToSet(Flushed(x.sndpkts, v)) \subseteq {p}
  BY <1>3, <1>5, <1>7, <1>8, Flush, Zenon
<1> HIDE DEF v, p
<1>10. v.sndwins = {p}
  <2>1. ToSet(v.sndpkts) = {}
    BY <1>9, NothingDone
  <2> QED
    BY <1>8, <1>9, <2>1 DEF Waiting
<1>11. Flushed(w.sndpkts, v) \in Seq(Packet) /\ ToSet(Flushed(w.sndpkts, v)) \subseteq {p}
  BY <1>6, <1>9 DEF SendsSame
<1>12. /\ v.selfseq = u.selfseq + 1 /\ v.state = s
       /\ v.rcvseq = u.rcvseq /\ v.rcvpkts = u.rcvpkts /\ v.rcvwins = u.rcvwins
       /\ v.self_passive_close = u.self_passive_close
       /\ v.peer_closed = u.peer_closed /\ v.can_close = u.can_close
       /\ v.closed = u.closed /\ v.sock_close = u.sock_close
       /\ v.rudp_close = u.rudp_close /\ v.calls = u.calls /\ v.known = u.known
  BY <1>1, <1>6, <1>9 DEF Others, SendsSame
<1> QED
  BY <1>9, <1>10, <1>11, <1>12 DEF s, v, p, w

\* _toxchanCanClose.
LEMMA ClientCanCloseStep ==
    ASSUME TunInv, ClientCanClose
    PROVE  TunInv'
<1> DEFINE u == mkdiscon(cli, "CLIFIN")
           sent == Flushed(make_pkt(cli, "CLIFIN").sndpkts, u)
           r == Result(u, sent, << >>)
           q == Tail(cliq)
           p == Pkt("CLIFIN", cli.selfseq)
<1>1. cliq # << >> /\ Head(cliq).type = "canClose"
  BY DEF ClientCanClose, Next1
<1>2. /\ Rest(q, cliq) /\ Head(cliq) \in ToSet(cliq) /\ ToSet(q) \subseteq ToSet(cliq)
  BY <1>1, StateTypes, HeadTaken
<1>3. cli.state = "CLOSE_WAIT" /\ cli.closed /\ app.state = "closed"
  BY <1>1, <1>2 DEF TunInv, Closing, Has
<1>4. cli.known /\ ~cli.rudp_close /\ cli.self_passive_close /\ srv.state \in FinStates
  BY <1>3 DEF TunInv, Quiet, Stages, FinReceived
<1>5. /\ ClientDoes(r, q)
      /\ app' = app /\ wrote' = wrote /\ appGot' = appGot /\ raised' = raised
  BY <1>4 DEF ClientCanClose
<1>6. r.u = u /\ r.out = sent /\ r.post = << >>
  BY DEF Result
<1> HIDE DEF r
<1>7. cli \in SrudpType /\ Numbered(cli) /\ cli.sndpkts = << >> /\ cli.sndwins = {}
  BY <1>3, StateTypes DEF TunInv, Senders
<1>8. /\ u \in SrudpType /\ Buffered(u) /\ u.selfseq = cli.selfseq + 1
      /\ u.state = IF cli.self_passive_close THEN "LAST_ACK" ELSE "FIN_WAIT_1"
      /\ u.sndpkts = << >> /\ u.sndwins = {p}
      /\ u.rcvseq = cli.rcvseq /\ u.rcvpkts = cli.rcvpkts /\ u.rcvwins = cli.rcvwins
      /\ u.self_passive_close = cli.self_passive_close
      /\ u.closed = cli.closed
      /\ u.rudp_close = cli.rudp_close /\ u.calls = cli.calls /\ u.known = cli.known
      /\ sent \in Seq(Packet) /\ ToSet(sent) \subseteq {p}
  <2>1. "CLIFIN" \in PacketTypes
    BY DEF PacketTypes
  <2> QED
    BY <1>7, <2>1, Mkdiscon, Zenon
<1> HIDE DEF u, sent
<1>9. u.state = "LAST_ACK" /\ p.type = "CLIFIN"
  BY <1>4, <1>8 DEF Pkt
<1> HIDE DEF p
<1>10. CStages(u, sent, << >>)
  BY <1>3, <1>4, <1>8, <1>9, NothingDone
  DEF CStages, Has, FinReceived, FinStates, LastStates
<1>11. CSenders(u)
  BY <1>8, <1>9 DEF CSenders, Buffered, LastStates
<1>12. CDown(u, sent, appGot)
  <2>1. HeldBy(u) = HeldBy(cli) /\ GivenInOrder(u, appGot)
    BY <1>8, FlowSame DEF TunInv, Down
  <2> QED
    BY <1>8, <1>9, <2>1 DEF TunInv, Down, CDown
<1>13. CUp(u, sent, q \o << >>, app, wrote)
  <2>1. cli.selfseq + app.unread = wrote + 1 /\ app.unread = 0
    BY <1>3 DEF TunInv, Up, FinReceived
  <2>2. u.selfseq = wrote + 2
    <3>1. cli.selfseq \in Int /\ wrote \in Int
      BY <1>7, SndType, StateTypes
    <3> QED
      BY <1>8, <2>1, <3>1
  <2>3. wrote <= wrote
    BY StateTypes
  <2> QED
    BY <1>3, <1>8, <1>9, <2>1, <2>2, <2>3 DEF CUp, LastStates
<1>14. CClosing(u, << >>, q, app)
  <2>1. ~Has(ToSet(q), "canClose")
    BY <1>1, StateTypes, OnceTail DEF TunInv, Closing
  <2> QED
    BY <1>3, <2>1, NothingDone DEF CClosing, Has
<1>15. CQuiet(u, sent, << >>, q)
  BY <1>2, <1>3, <1>4, <1>8, <1>9, NothingDone
  DEF TunInv, Quiet, CQuiet, Has, ToCli, FinReceived
<1> QED
  BY <1>2, <1>5, <1>6, <1>8, <1>10, <1>11, <1>12, <1>13, <1>14, <1>15, NothingDone,
     StateTypes, ClientStep

\* What _onTcpReadyRead sends.
LEMMA Takes ==
    ASSUME cli \in SrudpType, Numbered(cli), cli.sndpkts = << >>, NEW n \in Nat
    PROVE  LET r == ClientTakes(n) u == r.u IN
           /\ u \in SrudpType /\ (CSenders(cli) => CSenders(u))
           /\ u.state = cli.state /\ u.selfseq = cli.selfseq + n
           /\ u.rcvseq = cli.rcvseq /\ u.rcvpkts = cli.rcvpkts /\ u.rcvwins = cli.rcvwins
           /\ u.self_passive_close = cli.self_passive_close
           /\ u.closed = cli.closed /\ u.rudp_close = cli.rudp_close
           /\ u.calls = cli.calls /\ u.known = cli.known
           /\ r.out \in Seq(Packet) /\ r.post = << >>
           /\ \A p \in ToSet(r.out) :
                p.type = "DATA" /\ p.seq \in cli.selfseq .. cli.selfseq + n - 1
<1> DEFINE u == [cli EXCEPT !.selfseq = @ + n]
           out == [i \in 1..n |-> Pkt("DATA", cli.selfseq + i - 1)]
<1>1. ClientTakes(n) = Result(u, out, << >>)
  BY DEF ClientTakes
<1>2. /\ cli.selfseq \in Nat \ {0} /\ Len(cli.sndpkts) = 0 /\ cli.sndwins \in SUBSET Packet
      /\ DOMAIN cli.sndpkts = {} /\ Base(cli) = cli.selfseq
  BY SndType DEF Base
<1>3. PICK m \in Nat \ {0} : m = cli.selfseq + n
  BY <1>2
<1>4. u = [cli EXCEPT !.selfseq = m]
  BY <1>3
<1> HIDE DEF u
<1>5. u \in SrudpType
  BY <1>4, ZenonT(60) DEF SrudpType
<1>6. /\ u.state = cli.state /\ u.selfseq = m
      /\ u.rcvseq = cli.rcvseq /\ u.rcvpkts = cli.rcvpkts /\ u.rcvwins = cli.rcvwins
      /\ u.self_passive_close = cli.self_passive_close
      /\ u.closed = cli.closed /\ u.rudp_close = cli.rudp_close
      /\ u.calls = cli.calls /\ u.known = cli.known
      /\ u.sndpkts = cli.sndpkts /\ u.sndwins = cli.sndwins
  BY <1>4 DEF SrudpType
<1>7. Numbered(u)
  <2>1. Base(u) = m
    BY <1>2, <1>6 DEF Base
  <2>2. \A p \in u.sndwins : p.seq < m
    <3> TAKE p \in u.sndwins
    <3>1. p.seq \in Nat /\ p.seq < cli.selfseq
      BY <1>2, <1>6 DEF Numbered, Packet
    <3> QED
      BY <1>2, <1>3, <3>1
  <2>3. IsFiniteSet(u.sndwins)
    BY <1>6 DEF Numbered
  <2> QED
    BY <1>2, <1>6, <2>1, <2>2, <2>3 DEF Numbered
<1>8. CSenders(cli) => CSenders(u)
  BY <1>6, <1>7 DEF CSenders
<1>9. /\ out \in Seq(Packet) /\ Len(out) = n
      /\ \A i \in 1..n : out[i] = Pkt("DATA", cli.selfseq + i - 1)
  <2>1. \A i \in 1..n : Pkt("DATA", cli.selfseq + i - 1) \in Packet
    BY <1>2 DEF Packet, Pkt, PacketTypes
  <2> QED
    BY <2>1
<1> HIDE DEF out
<1>10. ASSUME NEW p \in ToSet(out)
       PROVE  p.type = "DATA" /\ p.seq \in cli.selfseq .. cli.selfseq + n - 1
  <2>1. PICK i \in 1..n : p = Pkt("DATA", cli.selfseq + i - 1)
    BY <1>9, ToSetSeq
  <2>2. cli.selfseq + i - 1 \in cli.selfseq .. cli.selfseq + n - 1
    BY <1>2
  <2> QED
    BY <2>1, <2>2 DEF Pkt
<1> QED
  BY <1>1, <1>3, <1>5, <1>6, <1>8, <1>9, <1>10 DEF Result

LEMMA TakesStep ==
    ASSUME TunInv, NEW q, Rest(q, cliq), NEW n \in Nat, ClientDoes(ClientTakes(n), q),
           app.unread <= n, app' = [app EXCEPT !.unread = 0],
           wrote' \in 0..MaxUp, wrote' = wrote + (n - app.unread),
           appGot' = appGot, raised' = raised,
           cli.state # "SYN_SENT", srv.state # "INIT", cli.state \in LastStates => n = 0
    PROVE  TunInv'
<1> DEFINE r == ClientTakes(n)
           u == r.u
<1>1. cli \in SrudpType /\ Numbered(cli) /\ cli.sndpkts = << >> /\ CSenders(cli)
  BY StateTypes DEF TunInv, Senders, CSenders, LastStates
<1>2. /\ u \in SrudpType /\ CSenders(u)
      /\ u.state = cli.state /\ u.selfseq = cli.selfseq + n
      /\ u.rcvseq = cli.rcvseq /\ u.rcvpkts = cli.rcvpkts /\ u.rcvwins = cli.rcvwins
      /\ u.self_passive_close = cli.self_passive_close
      /\ u.closed = cli.closed /\ u.rudp_close = cli.rudp_close
      /\ u.calls = cli.calls /\ u.known = cli.known
      /\ r.out \in Seq(Packet) /\ r.post = << >>
      /\ \A p \in ToSet(r.out) :
           p.type = "DATA" /\ p.seq \in cli.selfseq .. cli.selfseq + n - 1
  BY <1>1, Takes
<1> HIDE DEF r
<1>3. /\ cli.selfseq \in Nat \ {0} /\ wrote \in Nat /\ app.unread \in Nat /\ wrote' \in Nat
      /\ app' \in [state : SocketStates, unread : Nat]
      /\ app'.unread = 0 /\ app'.state = app.state
  <2>1. cli.selfseq \in Nat \ {0}
    BY <1>1, SndType
  <2>2. wrote \in Nat /\ wrote' \in Nat
    BY StateTypes
  <2>3. app \in [state : SocketStates, unread : Nat]
    BY StateTypes
  <2> QED
    BY <2>1, <2>2, <2>3
<1>4. CStages(u, r.out, << >>)
  BY <1>2, NothingDone
  DEF TunInv, Stages, CStages, Has, LastStates, FinReceived, FinStates
<1>5. CDown(u, r.out, appGot)
  <2>1. HeldBy(u) = HeldBy(cli) /\ GivenInOrder(u, appGot)
    BY <1>2, FlowSame DEF TunInv, Down
  <2> QED
    BY <1>2, <2>1 DEF TunInv, Down, CDown
<1>6. CUp(u, r.out, q \o << >>, app', wrote')
  <2>1. cli.state \notin LastStates =>
          u.selfseq = wrote' + 1 /\ cli.selfseq + n - 1 = wrote'
    <3>1. cli.state \notin LastStates => cli.selfseq + app.unread = wrote + 1
      BY DEF TunInv, Stages, Up, LastStates, FinReceived
    <3>2. /\ cli.selfseq \in Int /\ wrote \in Int /\ app.unread \in Int
          /\ u.selfseq = cli.selfseq + n
      BY <1>2, <1>3
    <3> QED
      BY <3>1, <3>2
  <2>2. cli.state \in LastStates =>
          n = 0 /\ wrote' = wrote /\ u.selfseq = wrote' + 2 /\ app.state = "closed"
    <3>1. cli.state \in LastStates =>
            cli.selfseq = wrote + 2 /\ app.state = "closed" /\ app.unread = 0
      BY DEF TunInv, Up, LastStates, FinReceived
    <3> QED
      BY <1>2, <1>3, <3>1
  <2>3. \A p \in ToSet(r.out) : p.type = "DATA" => p.seq \in 1..wrote'
    <3> TAKE p \in ToSet(r.out)
    <3>1. p.seq \in cli.selfseq .. cli.selfseq + n - 1
      BY <1>2
    <3> QED
      BY <1>3, <2>1, <2>2, <3>1
  <2>4. wrote <= wrote'
    BY <1>3
  <2>5. u.state \notin LastStates => u.selfseq + app'.unread = wrote' + 1
    BY <1>2, <1>3, <2>1
  <2>6. u.state \in LastStates => u.selfseq = wrote' + 2 /\ app'.state = "closed"
    BY <1>2, <1>3, <2>2, Zenon
  <2>7. app'.unread = 0 /\ ~(0 > 0)
    BY <1>3
  <2> QED
    BY <2>3, <2>4, <2>5, <2>6, <2>7 DEF CUp, LastStates
<1>7. CClosing(u, << >>, q, app')
  BY <1>2, <1>3, NothingDone, RestKeeps, StateTypes DEF TunInv, Closing, CClosing, Has
<1>8. CQuiet(u, r.out, << >>, q)
  <2>1. ToSet(q) \subseteq ToSet(cliq)
    BY RestKeeps, StateTypes
  <2>2. cli.state \in LastStates => ToSet(r.out) = {}
    BY <1>2, <1>3
  <2> QED
    BY <1>2, <2>1, <2>2, NothingDone DEF TunInv, Quiet, CQuiet, Has, ToCli
<1> QED
  BY <1>2, <1>3, <1>4, <1>5, <1>6, <1>7, <1>8, NothingDone, ClientStep, StateTypes DEF r

\* _toxchanConnected.
LEMMA ClientConnectedStep ==
    ASSUME TunInv, ClientConnected
    PROVE  TunInv'
<1>1. /\ cliq # << >> /\ Head(cliq).type = "connected"
      /\ app' = [app EXCEPT !.unread = 0] /\ ClientDoes(ClientTakes(app.unread), Tail(cliq))
      /\ wrote' = wrote /\ appGot' = appGot /\ raised' = raised
  BY DEF ClientConnected, Next1
<1>2. Rest(Tail(cliq), cliq) /\ Head(cliq) \in ToSet(cliq)
  BY <1>1, StateTypes, HeadTaken
<1>3. /\ app.unread \in Nat /\ app.unread <= app.unread /\ wrote \in Nat
      /\ wrote' \in 0..MaxUp /\ wrote' = wrote + (app.unread - app.unread)
  BY <1>1, StateTypes
<1>4. cli.state # "SYN_SENT" /\ srv.state # "INIT"
  BY <1>1, <1>2 DEF TunInv, Stages, NotYet, Has
<1>5. cli.state \in LastStates => app.unread = 0
  BY DEF TunInv, Up, LastStates, FinReceived
<1> QED
  BY <1>1, <1>2, <1>3, <1>4, <1>5, TakesStep

\* _onTcpReadyRead.
LEMMA AppWriteStep ==
    ASSUME TunInv, AppWrite
    PROVE  TunInv'
<1>1. /\ app.state = "open" /\ wrote < MaxUp /\ wrote' = wrote + 1
      /\ appGot' = appGot /\ raised' = raised
  BY DEF AppWrite
<1>2. /\ app \in [state : SocketStates, unread : Nat] /\ app.unread \in Nat
      /\ wrote \in Nat /\ wrote' \in 0..MaxUp /\ cli.selfseq \in Nat
  <2>1. wrote' \in 0..MaxUp
    BY <1>1, StateTypes, ToxNetTunAssumption
  <2> QED
    BY <2>1, StateTypes, SndType
<1>3. CASE cli.state = "SYN_SENT"
  <2>1. /\ app' = [app EXCEPT !.unread = @ + 1]
        /\ link' = link /\ downs' = downs /\ toServer' = toServer /\ toClient' = toClient
        /\ cli' = cli /\ cliq' = cliq /\ srv' = srv /\ srvq' = srvq
        /\ back' = back /\ served' = served /\ backGot' = backGot
    BY <1>3 DEF AppWrite, netVars, srvVars
  <2>2. /\ app' \in [state : SocketStates, unread : Nat]
        /\ app'.unread = app.unread + 1 /\ app'.state = app.state
    BY <1>2, <2>1
  <2>3. TypeOK'
    BY <1>1, <1>2, <2>1, <2>2 DEF TunInv, TypeOK
  <2>4. Stages' /\ OneSyn2' /\ Senders' /\ Down' /\ ReadAgain' /\ Closing' /\ Quiet'
    <3>1. Stages' /\ OneSyn2' /\ Senders'
      BY <2>1 DEF TunInv, Stages, OneSyn2, Senders, NotYet, ToCli, ToSrv
    <3>2. Down' /\ ReadAgain'
      BY <1>1, <2>1 DEF TunInv, Down, ReadAgain, ToCli, ToSrv
    <3>3. Closing' /\ Quiet'
      BY <1>1, <2>1, <2>2 DEF TunInv, Closing, Quiet, ToCli, ToSrv
    <3> QED
      BY <3>1, <3>2, <3>3
  <2>5. Up'
    <3>1. \A n \in 1..wrote : n \in 1..wrote'
      BY <1>1, <1>2
    <3>2. cli.selfseq + app'.unread = wrote' + 1
      <4>1. cli.selfseq + app.unread = wrote + 1
        BY <1>3 DEF TunInv, Up
      <4> QED
        BY <1>1, <1>2, <2>2, <4>1
    <3>3. /\ \A p \in ToSrv : p.type = "DATA" => p.seq \in 1..wrote'
          /\ \A n \in HeldBy(srv) : n \in 1..wrote'
      BY <3>1 DEF TunInv, Up
    <3> QED
      BY <1>3, <2>1, <3>2, <3>3 DEF TunInv, Up, ToSrv, FinReceived
  <2> QED
    BY <2>3, <2>4, <2>5 DEF TunInv
<1>4. CASE cli.state # "SYN_SENT"
  <2>1. app' = [app EXCEPT !.unread = 0] /\ ClientDoes(ClientTakes(app.unread + 1), cliq)
    BY <1>4 DEF AppWrite
  <2>2. /\ app.unread + 1 \in Nat /\ app.unread <= app.unread + 1
        /\ wrote' = wrote + ((app.unread + 1) - app.unread)
    BY <1>1, <1>2
  <2>3. srv.state # "INIT"
    BY <1>4 DEF TunInv, Stages, NotYet
  <2>4. cli.state \notin LastStates
    BY <1>1 DEF TunInv, Up, LastStates
  <2> QED
    BY <1>1, <1>2, <1>4, <2>1, <2>2, <2>3, <2>4, NothingDone, TakesStep
<1> QED
  BY <1>3, <1>4

\* One event more, behind events that may come before it.
LEMMA ComesLast ==
    ASSUME NEW S, NEW s \in Seq(S), NEW e \in S, NEW before, \A x \in ToSet(s) : x \notin before
    PROVE  Comes(s \o <<e>>, e.type, before)
<1>1. /\ Append(s, e) \in Seq(S) /\ Len(Append(s, e)) = Len(s) + 1
      /\ \A i \in 1..Len(s) : Append(s, e)[i] = s[i]
      /\ Append(s, e)[Len(s) + 1] = e
  BY AppendProperties
<1>2. s \o <<e>> = Append(s, e)
  BY AppendIsConcat
<1>3. Len(s) \in Nat /\ DOMAIN Append(s, e) = 1 .. Len(s) + 1
  BY <1>1, LenProperties
<1>4. \A j \in 1..Len(s) : s[j] \in ToSet(s)
  BY ToSetSeq
<1>5. Len(s) + 1 \in DOMAIN Append(s, e) /\ \A j \in 1 .. (Len(s) + 1) - 1 : j \in 1..Len(s)
  BY <1>3
<1>6. Comes(Append(s, e), e.type, before)
  BY <1>1, <1>4, <1>5 DEF Comes
<1> QED
  BY <1>2, <1>6

\* What a message leaves alone.
LEMMA ClientMessageSame ==
    ASSUME TunInv, NEW r, NEW u, r.u = u, cliq # << >>, Head(cliq).type \in PacketTypes,
           ClientDoes(r, Tail(cliq)), r.post = << >>, r.out \in Seq(Packet),
           \A e \in ToSet(r.out) : e.type = "SRVFIN_ACK",
           u \in SrudpType, u.state = cli.state, SendsSame(cli, u),
           u.rcvseq = cli.rcvseq, u.rcvpkts = cli.rcvpkts, u.rcvwins = cli.rcvwins,
           u.self_passive_close = cli.self_passive_close, u.closed = cli.closed,
           u.rudp_close = cli.rudp_close, u.calls = cli.calls, u.known = cli.known,
           UNCHANGED <<app, wrote, appGot, raised>>
    PROVE  TunInv'
<1> DEFINE q == Tail(cliq)
<1>1. /\ Rest(q, cliq) /\ ToSet(q) \subseteq ToSet(cliq) /\ Head(cliq).type # "connected"
  BY StateTypes, HeadTaken DEF PacketTypes
<1>2. srv.state # "INIT"
  BY DEF TunInv, Stages, NotYet
<1>3. HeldBy(u) = HeldBy(cli) /\ GivenInOrder(u, appGot)
  BY FlowSame DEF TunInv, Down
<1>4. /\ CStages(u, r.out, << >>) /\ CSenders(u) /\ CDown(u, r.out, appGot)
      /\ CUp(u, r.out, q \o << >>, app, wrote)
  BY <1>1, <1>2, <1>3, NothingDone, ClientSame DEF Has
<1>5. CClosing(u, << >>, q, app)
  BY <1>1, NothingDone DEF TunInv, Closing, CClosing, Has
<1>6. CQuiet(u, r.out, << >>, q)
  BY <1>1, NothingDone DEF TunInv, Quiet, CQuiet, Has, ToCli
<1> QED
  BY <1>1, <1>4, <1>5, <1>6, NothingDone, StateTypes, ClientStep

\* SYN2: the connection is established.
LEMMA ClientSyn2 ==
    ASSUME TunInv, cliq # << >>, Head(cliq).type = "SYN2", cli.state = "SYN_SENT",
           ClientDoes(Result([cli EXCEPT !.state = "ESTAB"],
                             <<Pkt("SYN_ACK", 0)>>, <<Signal("connected")>>), Tail(cliq)),
           UNCHANGED <<app, wrote, appGot, raised>>
    PROVE  TunInv'
<1> DEFINE q == Tail(cliq)
           u == [cli EXCEPT !.state = "ESTAB"]
           out == <<Pkt("SYN_ACK", 0)>>
           post == <<Signal("connected")>>
           r == Result(u, out, post)
<1>1. Rest(q, cliq) /\ ToSet(q) \subseteq ToSet(cliq) /\ q \in Seq(Event)
  BY StateTypes, HeadTaken, RestKeeps
<1>2. /\ out \in Seq(Packet) /\ \A e \in ToSet(out) : e.type = "SYN_ACK"
  <2>1. "SYN_ACK" \in PacketTypes /\ 0 \in Nat
    BY DEF PacketTypes
  <2> QED
    BY <2>1, OneReply
<1>3. post \in Posts /\ \A e \in ToSet(post) : e.type = "connected"
  BY NothingDone DEF Signals
<1>4. "ESTAB" \in States
  BY DEF States
<1>5. u \in SrudpType
  BY <1>4, StateTypes, ZenonT(60) DEF SrudpType
<1>6. /\ u.state = "ESTAB" /\ SendsSame(cli, u)
      /\ u.rcvseq = cli.rcvseq /\ u.rcvpkts = cli.rcvpkts /\ u.rcvwins = cli.rcvwins
      /\ u.closed = cli.closed
      /\ u.rudp_close = cli.rudp_close /\ u.calls = cli.calls /\ u.known = cli.known
  BY StateTypes DEF SendsSame, SrudpType
<1>7. r.u = u /\ r.out = out /\ r.post = post /\ ClientDoes(r, q)
  BY DEF Result
<1> HIDE DEF u, r, out
<1>8. srv.state = "SYN_RCVD"
  BY DEF TunInv, Stages, NotYet
<1>9. HeldBy(u) = HeldBy(cli) /\ GivenInOrder(u, appGot)
  BY <1>6, FlowSame DEF TunInv, Down
<1>10. CStages(u, out, post)
  BY <1>2, <1>6, <1>8 DEF CStages, Has, LastStates, FinReceived
<1>11. CSenders(u)
  <2>1. Numbered(u)
    BY <1>6 DEF TunInv, Senders, SendsSame, Numbered, Base
  <2> QED
    BY <1>6, <2>1 DEF TunInv, Senders, CSenders, SendsSame
<1>12. CDown(u, out, appGot)
  BY <1>2, <1>9 DEF TunInv, Down, CDown
<1>13. CUp(u, out, q \o post, app, wrote)
  <2>1. Announced(q \o post)
    <3>1. \A x \in ToSet(q) : x.type # "SRVFIN"
      BY <1>1, <1>8 DEF TunInv, Stages, Has, ToCli, FinStates
    <3>2. Signal("connected") \in Event /\ Signal("connected").type = "connected"
      BY DEF Signal, Event, Signals
    <3>3. \A x \in ToSet(q) : x \notin [type : {"SRVFIN"}, seq : Nat]
      BY <3>1
    <3>4. Comes(q \o <<Signal("connected")>>, Signal("connected").type,
                [type : {"SRVFIN"}, seq : Nat])
      BY <1>1, <3>2, <3>3, ComesLast, Zenon
    <3> QED
      BY <3>2, <3>4 DEF Announced
  <2>2. wrote <= wrote
    BY StateTypes
  <2> QED
    BY <1>2, <1>6, <2>1, <2>2 DEF TunInv, Up, CUp, SendsSame, LastStates, FinReceived
<1>14. CClosing(u, post, q, app)
  BY <1>1, <1>3, <1>6 DEF TunInv, Closing, CClosing, Has
<1>15. CQuiet(u, out, post, q)
  <2>1. ~Has(ToSet(q), "SYN2") /\ ~Has(ToSet(toClient), "SYN2")
    <3>1. ~Has(ToSet(q), "SYN2")
      BY StateTypes, OnceTail DEF TunInv, OneSyn2
    <3>2. Has(ToSet(cliq), "SYN2")
      BY StateTypes, HeadTaken DEF Has
    <3> QED
      BY <3>1, <3>2 DEF TunInv, OneSyn2
  <2> QED
    BY <1>1, <1>2, <1>3, <1>6, <2>1 DEF TunInv, Quiet, CQuiet, Has, LastStates, FinReceived
<1> QED
  BY <1>1, <1>2, <1>3, <1>5, <1>7, <1>10, <1>11, <1>12, <1>13, <1>14, <1>15,
     StateTypes, ClientStep

\* What has been announced stays announced until it is handled.
LEMMA AnnouncedStays ==
    ASSUME TunInv, NEW q, Rest(q, cliq), NEW post \in Posts,
           q = cliq \/ Head(cliq).type # "connected", Announced(cliq)
    PROVE  Announced(q \o post)
<1>1. cliq \in Seq(Event) /\ q \in Seq(Event) /\ post \in Seq(Event)
  BY RestKeeps, PostsSmall, StateTypes
<1>2. Announced(q)
  <2>1. CASE q = cliq
    BY <2>1
  <2>2. CASE cliq # << >> /\ q = Tail(cliq) /\ Head(cliq).type # "connected"
    BY <1>1, <2>2, ComesTail DEF Announced
  <2> QED
    BY <2>1, <2>2 DEF Rest
<1> QED
  BY <1>1, <1>2, ComesConcat DEF Announced

\* A piece is kept and acknowledged.
LEMMA ReceivedType ==
    ASSUME NEW v \in SrudpType, NEW p \in Event
    PROVE  LET r == Received(v, p) u == r.u IN
           /\ u \in SrudpType /\ SendsSame(v, u) /\ u.state = v.state
           /\ u.rcvseq = v.rcvseq /\ u.rcvwins = v.rcvwins
           /\ u.rcvpkts = v.rcvpkts \cup {p.seq} /\ HeldBy(u) = HeldBy(v) \cup {p.seq}
           /\ \A got : GivenInOrder(v, got) => GivenInOrder(u, got)
           /\ u.self_passive_close = v.self_passive_close /\ u.closed = v.closed
           /\ u.can_close = v.can_close
           /\ u.rudp_close = v.rudp_close /\ u.known = v.known /\ u.calls = v.calls + 1
           /\ r.out \in Seq(Packet) /\ r.post = << >>
           /\ \A e \in ToSet(r.out) : e.type = "DATA_ACK" /\ e.seq = p.seq
<1> DEFINE u == [v EXCEPT !.rcvpkts = @ \cup {p.seq}, !.calls = @ + 1]
           out == <<Pkt("DATA_ACK", p.seq)>>
<1>1. Received(v, p) = [u |-> u, out |-> out, post |-> << >>]
  BY DEF Received, Reply, Result
<1>2. /\ out \in Seq(Packet) /\ \A e \in ToSet(out) : e.type = "DATA_ACK" /\ e.seq = p.seq
  <2>1. "DATA_ACK" \in PacketTypes /\ p.seq \in Nat
    BY DEF PacketTypes, Event
  <2> QED
    BY <2>1, OneReply
<1>3. v.rcvpkts \cup {p.seq} \in SUBSET Nat /\ v.calls + 1 \in Nat
  BY DEF SrudpType, Event
<1> HIDE DEF out
<1>4. PICK P \in SUBSET Nat, c \in Nat : P = v.rcvpkts \cup {p.seq} /\ c = v.calls + 1
  BY <1>3
<1>5. u = [v EXCEPT !.rcvpkts = P, !.calls = c]
  BY <1>4
<1> HIDE DEF u
<1>6. u \in SrudpType
  BY <1>5, ZenonT(60) DEF SrudpType
<1>7. /\ SendsSame(v, u) /\ u.state = v.state /\ u.rcvseq = v.rcvseq /\ u.rcvwins = v.rcvwins
      /\ u.rcvpkts = P /\ u.calls = c /\ u.can_close = v.can_close
      /\ u.self_passive_close = v.self_passive_close /\ u.closed = v.closed
      /\ u.rudp_close = v.rudp_close /\ u.known = v.known
  BY <1>5 DEF SendsSame, SrudpType
<1>8. HeldBy(u) = HeldBy(v) \cup {p.seq}
  BY <1>4, <1>7 DEF HeldBy
<1>9. \A got : GivenInOrder(v, got) => GivenInOrder(u, got)
  BY <1>7 DEF GivenInOrder
<1> QED
  BY <1>1, <1>2, <1>4, <1>6, <1>7, <1>8, <1>9

\* DATA.
LEMMA ClientData ==
    ASSUME TunInv, cliq # << >>, Head(cliq).type = "DATA", cli.state = "ESTAB",
           ClientDoes(Received(cli, Head(cliq)), Tail(cliq)),
           UNCHANGED <<app, wrote, appGot, raised>>
    PROVE  TunInv'
<1> DEFINE q == Tail(cliq)
           p == Head(cliq)
           r == Received(cli, p)
           u == r.u
<1>1. /\ Rest(q, cliq) /\ ToSet(q) \subseteq ToSet(cliq) /\ p \in ToSet(cliq) /\ p \in Event
      /\ ClientDoes(r, q)
  BY StateTypes, HeadTaken
<1>2. /\ u \in SrudpType /\ SendsSame(cli, u) /\ u.state = "ESTAB"
      /\ HeldBy(u) = HeldBy(cli) \cup {p.seq} /\ GivenInOrder(u, appGot)
      /\ u.self_passive_close = cli.self_passive_close /\ u.closed = cli.closed
      /\ u.rudp_close = cli.rudp_close /\ u.known = cli.known
      /\ r.out \in Seq(Packet) /\ r.post = << >>
      /\ \A e \in ToSet(r.out) : e.type = "DATA_ACK" /\ e.seq = p.seq
  <2>1. GivenInOrder(cli, appGot)
    BY DEF TunInv, Down
  <2> QED
    BY <1>1, <2>1, StateTypes, ReceivedType
<1> HIDE DEF r
<1>3. srv.state # "INIT"
  BY DEF TunInv, Stages, NotYet
<1>4. p.seq \in 1..served /\ p.seq < Base(srv)
  BY <1>1 DEF TunInv, Down, ToCli
<1>5. CStages(u, r.out, << >>)
  BY <1>2, <1>3 DEF CStages, Has, LastStates, FinReceived
<1>6. CSenders(u)
  <2>1. Numbered(u)
    BY <1>2 DEF TunInv, Senders, SendsSame, Numbered, Base
  <2> QED
    BY <1>2, <2>1 DEF TunInv, Senders, CSenders, SendsSame
<1>7. CDown(u, r.out, appGot)
  BY <1>2, <1>4 DEF TunInv, Down, CDown
<1>8. CUp(u, r.out, q \o << >>, app, wrote)
  <2>1. wrote <= wrote
    BY StateTypes
  <2>2. Announced(cliq) => Announced(q \o << >>)
    BY <1>1, NothingDone, AnnouncedStays
  <2> QED
    BY <1>2, <2>1, <2>2 DEF TunInv, Up, CUp, SendsSame, LastStates, FinReceived
<1>9. CClosing(u, << >>, q, app)
  BY <1>1, <1>2, NothingDone DEF TunInv, Closing, CClosing, Has
<1>10. CQuiet(u, r.out, << >>, q)
  BY <1>1, <1>2, NothingDone DEF TunInv, Quiet, CQuiet, Has, LastStates, FinReceived
<1> QED
  BY <1>1, <1>2, <1>5, <1>6, <1>7, <1>8, <1>9, <1>10, NothingDone, StateTypes, ClientStep

\* The server's FIN.
LEMMA ClientSrvFin ==
    ASSUME TunInv, cliq # << >>, Head(cliq).type = "SRVFIN", cli.state = "ESTAB",
           ClientDoes(Reply([cli EXCEPT !.self_passive_close = TRUE, !.state = "CLOSE_WAIT",
                                        !.peer_closed = TRUE, !.timers = TRUE],
                            "SRVFIN_ACK", Head(cliq).seq), Tail(cliq)),
           UNCHANGED <<app, wrote, appGot, raised>>
    PROVE  TunInv'
<1> DEFINE q == Tail(cliq)
           p == Head(cliq)
           u == [cli EXCEPT !.self_passive_close = TRUE, !.state = "CLOSE_WAIT",
                            !.peer_closed = TRUE, !.timers = TRUE]
           out == <<Pkt("SRVFIN_ACK", p.seq)>>
           r == Reply(u, "SRVFIN_ACK", p.seq)
<1>1. /\ Rest(q, cliq) /\ ToSet(q) \subseteq ToSet(cliq) /\ p \in ToSet(cliq) /\ p \in Event
  BY StateTypes, HeadTaken
<1>2. /\ out \in Seq(Packet) /\ \A e \in ToSet(out) : e.type = "SRVFIN_ACK"
  <2>1. "SRVFIN_ACK" \in PacketTypes /\ p.seq \in Nat
    BY <1>1 DEF PacketTypes, Event
  <2> QED
    BY <2>1, OneReply
<1>3. "CLOSE_WAIT" \in States
  BY DEF States
<1>4. u \in SrudpType
  BY <1>3, StateTypes, ZenonT(60) DEF SrudpType
<1>5. /\ u.state = "CLOSE_WAIT" /\ u.self_passive_close = TRUE /\ SendsSame(cli, u)
      /\ u.rcvseq = cli.rcvseq /\ u.rcvpkts = cli.rcvpkts /\ u.rcvwins = cli.rcvwins
      /\ u.closed = cli.closed
      /\ u.rudp_close = cli.rudp_close /\ u.calls = cli.calls /\ u.known = cli.known
  BY StateTypes DEF SendsSame, SrudpType
<1>6. r.u = u /\ r.out = out /\ r.post = << >> /\ ClientDoes(r, q)
  BY DEF Reply, Result
<1> HIDE DEF u, r, out
<1>7. srv.state \in FinStates
  BY <1>1 DEF TunInv, Stages, Has, ToCli
<1>8. HeldBy(u) = HeldBy(cli) /\ GivenInOrder(u, appGot)
  BY <1>5, FlowSame DEF TunInv, Down
<1>9. CStages(u, out, << >>)
  BY <1>2, <1>5, <1>7 DEF CStages, Has, LastStates, FinReceived, FinStates
<1>10. CSenders(u)
  <2>1. Numbered(u)
    BY <1>5 DEF TunInv, Senders, SendsSame, Numbered, Base
  <2> QED
    BY <1>5, <2>1 DEF TunInv, Senders, CSenders, SendsSame
<1>11. CDown(u, out, appGot)
  BY <1>2, <1>8 DEF TunInv, Down, CDown
<1>12. CUp(u, out, q \o << >>, app, wrote)
  <2>1. app.unread = 0
    <3> SUFFICES ASSUME app.unread # 0 PROVE FALSE
      OBVIOUS
    <3>1. app.unread > 0
      BY StateTypes
    <3>2. Announced(cliq)
      BY <3>1 DEF TunInv, Up
    <3>3. p \notin [type : {"SRVFIN"}, seq : Nat]
      BY <3>2, StateTypes, ComesTail DEF Announced
    <3> QED
      BY <1>1, <3>3 DEF Event
  <2>2. wrote <= wrote
    BY StateTypes
  <2>3. cli.selfseq + app.unread = wrote + 1
    BY DEF TunInv, Up
  <2> QED
    BY <1>2, <1>5, <2>1, <2>2, <2>3 DEF CUp, SendsSame, LastStates
<1>13. CClosing(u, << >>, q, app)
  BY <1>1, <1>5, NothingDone DEF TunInv, Closing, CClosing, Has
<1>14. CQuiet(u, out, << >>, q)
  <2>1. ~Has(ToSet(q), "DATA")
    <3>1. \A e \in ToSet(q) : e.type \notin {"DATA"}
      BY StateTypes, BehindTail DEF TunInv, Quiet
    <3> QED
      BY <3>1 DEF Has
  <2>2. ~Has(ToSet(toClient), "DATA")
    BY <1>1 DEF TunInv, Quiet, Has
  <2> QED
    BY <1>1, <1>2, <1>5, <2>1, <2>2, NothingDone
    DEF TunInv, Quiet, CQuiet, Has, LastStates, FinReceived
<1> QED
  BY <1>1, <1>2, <1>4, <1>6, <1>9, <1>10, <1>11, <1>12, <1>13, <1>14, NothingDone,
     StateTypes, ClientStep

\* An acknowledged packet leaves the window.
LEMMA AckedType ==
    ASSUME NEW v \in SrudpType, NEW n
    PROVE  LET u == Acked(v, n) IN
           /\ u \in SrudpType /\ Others(v, u) /\ u.selfseq = v.selfseq /\ u.sndpkts = v.sndpkts
           /\ u.sndwins = {p \in v.sndwins : p.seq # n}
           /\ Numbered(v) => Numbered(u)
<1> DEFINE u == Acked(v, n)
<1>1. PICK W : W = {p \in v.sndwins : p.seq # n}
  OBVIOUS
<1>2. W \in SUBSET Packet /\ W \subseteq v.sndwins
  BY <1>1 DEF SrudpType
<1>3. u = [v EXCEPT !.sndwins = W]
  BY <1>1 DEF Acked
<1> HIDE DEF u
<1>4. u \in SrudpType
  BY <1>2, <1>3, ZenonT(60) DEF SrudpType
<1>5. Others(v, u) /\ u.selfseq = v.selfseq /\ u.sndpkts = v.sndpkts /\ u.sndwins = W
  BY <1>3 DEF Others, SrudpType
<1>6. Numbered(v) => Numbered(u)
  <2>1. IsFiniteSet(v.sndwins) => IsFiniteSet(W)
    BY <1>2, FS_Subset, Zenon
  <2> QED
    BY <1>2, <1>5, <2>1 DEF Numbered, Base
<1> QED
  BY <1>1, <1>4, <1>5, <1>6 DEF u

\* CLIFIN_ACK.
LEMMA ClientFinAck ==
    ASSUME TunInv, cliq # << >>, Head(cliq).type = "CLIFIN_ACK", cli.state \in LastStates,
           ClientDoes(Ignored([Acked(cli, Head(cliq).seq) EXCEPT !.state = "CLOSED"]),
                      Tail(cliq)),
           UNCHANGED <<app, wrote, appGot, raised>>
    PROVE  TunInv'
<1> DEFINE q == Tail(cliq)
           v == Acked(cli, Head(cliq).seq)
           u == [v EXCEPT !.state = "CLOSED"]
           r == Ignored(u)
<1>1. /\ Rest(q, cliq) /\ ToSet(q) \subseteq ToSet(cliq) /\ r.u = u /\ r.out = << >>
      /\ r.post = << >> /\ ClientDoes(r, q)
  BY StateTypes, HeadTaken DEF Ignored, Result
<1> HIDE DEF r
<1>2. /\ v \in SrudpType /\ Others(cli, v) /\ v.selfseq = cli.selfseq
      /\ v.sndpkts = cli.sndpkts /\ v.sndwins \subseteq cli.sndwins /\ Numbered(v)
  <2>1. Numbered(cli)
    BY DEF TunInv, Senders
  <2> QED
    BY <2>1, StateTypes, AckedType
<1> HIDE DEF v
<1>3. "CLOSED" \in States
  BY DEF States
<1>4. u \in SrudpType
  BY <1>2, <1>3, ZenonT(60) DEF SrudpType
<1>5. u.state = "CLOSED" /\ SendsSame(v, u)
  BY <1>2 DEF SendsSame, SrudpType
<1>6. /\ u.self_passive_close = cli.self_passive_close
      /\ u.rcvseq = cli.rcvseq /\ u.rcvpkts = cli.rcvpkts /\ u.rcvwins = cli.rcvwins
      /\ u.closed = cli.closed
      /\ u.rudp_close = cli.rudp_close /\ u.calls = cli.calls /\ u.known = cli.known
  BY <1>2 DEF Others, SrudpType
<1> HIDE DEF u
<1>7. srv.state # "INIT"
  BY DEF TunInv, Stages, NotYet
<1>8. HeldBy(u) = HeldBy(cli) /\ GivenInOrder(u, appGot)
  BY <1>6, FlowSame DEF TunInv, Down
<1>9. CStages(u, << >>, << >>)
  BY <1>5, <1>6, <1>7, NothingDone
  DEF TunInv, Stages, CStages, Has, LastStates, FinReceived, FinStates
<1>10. CSenders(u)
  <2>1. Numbered(u)
    BY <1>2, <1>5 DEF SendsSame, Numbered, Base
  <2> QED
    BY <1>2, <1>5, <2>1 DEF TunInv, Senders, CSenders, SendsSame, LastStates
<1>11. CDown(u, << >>, appGot)
  BY <1>8, NothingDone DEF TunInv, Down, CDown
<1>12. CUp(u, << >>, q \o << >>, app, wrote)
  <2>1. wrote <= wrote
    BY StateTypes
  <2> QED
    BY <1>2, <1>5, <2>1, NothingDone DEF TunInv, Up, CUp, SendsSame, LastStates, FinReceived
<1>13. CClosing(u, << >>, q, app)
  BY <1>1, <1>6, NothingDone DEF TunInv, Closing, CClosing, Has, LastStates
<1>14. CQuiet(u, << >>, << >>, q)
  BY <1>1, <1>5, <1>6, NothingDone
  DEF TunInv, Quiet, CQuiet, Has, ToCli, LastStates, FinReceived
<1> QED
  BY <1>1, <1>4, <1>9, <1>10, <1>11, <1>12, <1>13, <1>14, NothingDone, StateTypes, ClientStep

\* DATA_ACK: the client keeps nothing of what it has sent.
LEMMA ClientAck ==
    ASSUME TunInv, cliq # << >>, Head(cliq).type = "DATA_ACK", cli.state = "ESTAB",
           ClientDoes([Acknowledged(cli, Head(cliq)) EXCEPT !.post = << >>], Tail(cliq)),
           UNCHANGED <<app, wrote, appGot, raised>>
    PROVE  TunInv'
<1> DEFINE v == Acked(cli, Head(cliq).seq)
           u == attemp_flush(v)
           out == Flushed(v.sndpkts, u)
           r == [Acknowledged(cli, Head(cliq)) EXCEPT !.post = << >>]
<1>1. r.u = u /\ r.out = out /\ r.post = << >> /\ ClientDoes(r, Tail(cliq))
  BY DEF Acknowledged, Result
<1> HIDE DEF r
<1>2. /\ v \in SrudpType /\ Others(cli, v) /\ v.selfseq = cli.selfseq
      /\ v.sndpkts = << >> /\ v.sndwins = {} /\ cli.sndpkts = << >> /\ cli.sndwins = {}
      /\ Numbered(v)
  <2>1. Numbered(cli) /\ cli.sndpkts = << >> /\ cli.sndwins = {}
    BY DEF TunInv, Senders
  <2> QED
    BY <2>1, StateTypes, AckedType
<1> HIDE DEF v
<1>3. /\ u \in SrudpType /\ Others(v, u) /\ u.selfseq = v.selfseq
      /\ u.sndpkts = << >> /\ u.sndwins = {} /\ out = << >>
  BY <1>2, Flush, Zenon
<1> HIDE DEF u, out
<1>4. /\ u.state = cli.state /\ SendsSame(cli, u)
      /\ u.rcvseq = cli.rcvseq /\ u.rcvpkts = cli.rcvpkts /\ u.rcvwins = cli.rcvwins
      /\ u.self_passive_close = cli.self_passive_close /\ u.closed = cli.closed
      /\ u.rudp_close = cli.rudp_close /\ u.calls = cli.calls /\ u.known = cli.known
  BY <1>2, <1>3 DEF Others, SendsSame
<1>5. Head(cliq).type \in PacketTypes
  BY DEF PacketTypes
<1> QED
  BY <1>1, <1>3, <1>4, <1>5, NothingDone, ClientMessageSame

\* newMessage.
LEMMA ClientMessageStep ==
    ASSUME TunInv, ClientMessage
    PROVE  TunInv'
<1> DEFINE p == Head(cliq)
           q == Tail(cliq)
<1>1. cliq # << >> /\ p.type \in PacketTypes
  BY DEF ClientMessage
<1>2. p \in ToSet(cliq) /\ p \in Event /\ p.seq \in Nat
  BY <1>1, StateTypes, HeadTaken DEF Event
<1>3. p.type \in {"SYN2", "DATA", "DATA_ACK", "SRVFIN", "CLIFIN_ACK"}
  BY <1>1, <1>2 DEF TunInv, Stages, ToCli, PacketTypes, Signals
<1>4. cli \in SrudpType /\ SendsSame(cli, cli)
  BY StateTypes DEF SendsSame
<1>5. /\ <<Pkt("SRVFIN_ACK", p.seq)>> \in Seq(Packet)
      /\ \A e \in ToSet(<<Pkt("SRVFIN_ACK", p.seq)>>) : e.type = "SRVFIN_ACK"
  <2>1. "SRVFIN_ACK" \in PacketTypes
    BY DEF PacketTypes
  <2> QED
    BY <1>2, <2>1, OneReply
<1>6. ASSUME ClientDoes(Ignored(cli), q), UNCHANGED <<app, wrote, appGot, raised>>
      PROVE  TunInv'
  <2>1. /\ Ignored(cli).u = cli /\ Ignored(cli).out = << >> /\ Ignored(cli).post = << >>
    BY DEF Ignored, Result
  <2> QED
    BY <1>1, <1>4, <1>6, <2>1, NothingDone, ClientMessageSame
<1>7. CASE cli.known
  <2>1. /\ ClientDoes(statemachine_client(cli, p), q)
        /\ UNCHANGED <<app, wrote, appGot, raised>>
    BY <1>7 DEF ClientMessage
  <2>2. CASE cli.state = "SYN_SENT" /\ p.type = "SYN2"
    <3>1. statemachine_client(cli, p) =
            Result([cli EXCEPT !.state = "ESTAB"],
                   <<Pkt("SYN_ACK", 0)>>, <<Signal("connected")>>)
      BY <2>2 DEF statemachine_client
    <3> QED
      BY <1>1, <2>1, <2>2, <3>1, ClientSyn2
  <2>3. CASE cli.state = "ESTAB" /\ p.type = "SRVFIN"
    <3>1. statemachine_client(cli, p) =
            Reply([cli EXCEPT !.self_passive_close = TRUE, !.state = "CLOSE_WAIT",
                              !.peer_closed = TRUE, !.timers = TRUE], "SRVFIN_ACK", p.seq)
      BY <2>3 DEF statemachine_client
    <3> QED
      BY <1>1, <2>1, <2>3, <3>1, ClientSrvFin
  <2>4. CASE cli.state = "ESTAB" /\ p.type = "DATA"
    <3>1. statemachine_client(cli, p) = Received(cli, p)
      BY <2>4 DEF statemachine_client
    <3> QED
      BY <1>1, <2>1, <2>4, <3>1, ClientData
  <2>5. CASE cli.state = "ESTAB" /\ p.type = "DATA_ACK"
    <3>1. statemachine_client(cli, p) = [Acknowledged(cli, p) EXCEPT !.post = << >>]
      BY <2>5 DEF statemachine_client
    <3> QED
      BY <1>1, <2>1, <2>5, <3>1, ClientAck
  <2>6. CASE cli.state \in {"CLOSE_WAIT", "LAST_ACK", "CLOSED"} /\ p.type = "SRVFIN"
    <3> DEFINE u == [cli EXCEPT !.peer_closed = TRUE]
               r == Reply(u, "SRVFIN_ACK", p.seq)
    <3>1. statemachine_client(cli, p) = r
      BY <2>6 DEF statemachine_client
    <3>2. u \in SrudpType
      BY <1>4, ZenonT(60) DEF SrudpType
    <3>3. /\ u.state = cli.state /\ SendsSame(cli, u)
          /\ u.rcvseq = cli.rcvseq /\ u.rcvpkts = cli.rcvpkts /\ u.rcvwins = cli.rcvwins
          /\ u.self_passive_close = cli.self_passive_close /\ u.closed = cli.closed
          /\ u.rudp_close = cli.rudp_close /\ u.calls = cli.calls /\ u.known = cli.known
      BY <1>4 DEF SendsSame, SrudpType
    <3>4. r.u = u /\ r.out = <<Pkt("SRVFIN_ACK", p.seq)>> /\ r.post = << >>
      BY DEF Reply, Result
    <3> HIDE DEF r, u
    <3> QED
      BY <1>1, <1>5, <2>1, <3>1, <3>2, <3>3, <3>4, ClientMessageSame
  <2>7. CASE cli.state \in {"LAST_ACK", "CLOSED"} /\ p.type = "CLIFIN_ACK"
    <3>1. statemachine_client(cli, p) = Ignored([Acked(cli, p.seq) EXCEPT !.state = "CLOSED"])
      BY <2>7 DEF statemachine_client
    <3> QED
      BY <1>1, <2>1, <2>7, <3>1, ClientFinAck DEF LastStates
  <2>8. CASE /\ ~(cli.state = "SYN_SENT" /\ p.type = "SYN2")
             /\ ~(cli.state = "ESTAB" /\ p.type = "SRVFIN")
             /\ ~(cli.state = "ESTAB" /\ p.type = "DATA")
             /\ ~(cli.state = "ESTAB" /\ p.type = "DATA_ACK")
             /\ ~(cli.state \in {"CLOSE_WAIT", "LAST_ACK", "CLOSED"} /\ p.type = "SRVFIN")
             /\ ~(cli.state \in {"LAST_ACK", "CLOSED"} /\ p.type = "CLIFIN_ACK")
    <3>1. statemachine_client(cli, p) = Ignored(cli)
      BY <2>8 DEF statemachine_client
    <3> QED
      BY <1>6, <2>1, <3>1
  <2> QED
    BY <2>2, <2>3, <2>4, <2>5, <2>6, <2>7, <2>8, Zenon
<1>8. CASE ~cli.known
  <2>1. cli.state = "CLOSED"
    BY <1>8 DEF TunInv, Quiet
  <2>2. p.type \notin {"SYN2", "DATA"}
    BY <1>2, <2>1 DEF TunInv, OneSyn2, Quiet, Has, ToCli, FinReceived
  <2>3. /\ ClientDoes(IF p.type = "SRVFIN" THEN Reply(cli, "SRVFIN_ACK", p.seq)
                      ELSE Ignored(cli), q)
        /\ UNCHANGED <<app, wrote, appGot, raised>>
    BY <1>8, <2>2 DEF ClientMessage
  <2>4. CASE p.type = "SRVFIN"
    <3> DEFINE r == Reply(cli, "SRVFIN_ACK", p.seq)
    <3>1. ClientDoes(r, q)
      BY <2>3, <2>4
    <3>2. r.u = cli /\ r.out = <<Pkt("SRVFIN_ACK", p.seq)>> /\ r.post = << >>
      BY DEF Reply, Result
    <3> HIDE DEF r
    <3> QED
      BY <1>1, <1>4, <1>5, <2>3, <3>1, <3>2, ClientMessageSame
  <2>5. CASE p.type # "SRVFIN"
    BY <1>6, <2>3, <2>5
  <2> QED
    BY <2>4, <2>5
<1> QED
  BY <1>7, <1>8

-----------------------------------------------------------------------------
(***************************************************************************)
(* What a handler of the server does to the invariant.  It leaves u, the   *)
(* rest q of the queue and the signals post, and sends out; the socket     *)
(* becomes b, and then s pieces have been sent and got been given.         *)
(***************************************************************************)
SStages(u, out, q) ==
    /\ u.state \in {"SYN_RCVD", "ESTAB"} \cup FinStates
    /\ ~u.self_passive_close
    /\ cli.state = "SYN_SENT" => u.state = "SYN_RCVD"
    /\ srv.state \in FinStates => u.state \in FinStates
    /\ u.state = "TIME_WAIT" => cli.state \in LastStates
    /\ ~Has(ToSet(q), "SYN") /\ ~Has(ToSet(toServer), "SYN")
    /\ \A e \in ToSet(out) :
        e.type \in {"SYN2", "DATA", "DATA_ACK", "SRVFIN", "CLIFIN_ACK"}
    /\ Has(ToSet(out), "SRVFIN") => u.state \in FinStates
    /\ Has(ToSet(out), "SYN2") => ~Has(ToCli, "SYN2") /\ cli.state = "SYN_SENT"
    /\ Once(out, "SYN2")

SSenders(u) ==
    /\ Buffered(u)
    /\ \A p \in Waiting(u) :
        p.type = "DATA" \/ (p.type = "SRVFIN" /\ u.state \in FinStates)

SDown(u, out, b, s) ==
    /\ Base(srv) <= Base(u) /\ served <= s
    /\ \A p \in Waiting(u) : p.type = "DATA" => p.seq \in 1..s
    /\ \A p \in ToSet(out) : p.type = "DATA" => p.seq \in 1..s /\ p.seq < Base(u)
    /\ \A n \in 1..s - b.unread : n \in HeldBy(cli) \cup SeqsOf(Waiting(u))
    /\ u.state \notin FinStates => u.selfseq + b.unread = s + 1

SUp(u, got) ==
    /\ \A n \in HeldBy(u) : n \in 1..wrote
    /\ GivenInOrder(u, got)

SReadAgain(u, queue, b) ==
    b.unread > 0 => Len(u.sndpkts) >= BufSize \/ RoomAnnounced(u, queue)

SClosing(u, post, q, b, s) ==
    /\ u.closed => b.state \in {"closed", "refused"}
    /\ u.state \in FinStates =>
        /\ u.closed /\ b.unread = 0
        /\ 1..s \subseteq HeldBy(cli) /\ u.selfseq = s + 2
        /\ u.sndpkts = << >> /\ \A p \in u.sndwins : p.type = "SRVFIN"
    /\ Has(ToSet(post), "canClose") => ~Has(ToSet(q), "canClose")
    /\ Has(ToSet(q) \cup ToSet(post), "canClose") =>
        /\ u.state = "ESTAB" /\ u.closed /\ b.unread = 0
        /\ u.sndwins = {} /\ u.sndpkts = << >>
    /\ ~u.known => u.state = "TIME_WAIT"

SQuiet(u, out, post, q) ==
    /\ u.state \in FinStates => ~Has(ToSet(out), "DATA")
    /\ u.state = "TIME_WAIT" => ~Has(ToSet(q), "DATA") /\ ~Has(ToSet(toServer), "DATA")
    /\ Has(ToSet(q), "disconnected") =>
        ~Has(ToSet(post), "readyRead") /\ ~Has(ToSet(post), "bytesWritten")
    /\ Has(ToSet(q) \cup ToSet(post), "disconnected") => u.state = "TIME_WAIT" /\ u.calls = 0
    /\ u.rudp_close =>
        /\ u.state = "TIME_WAIT" /\ u.calls = 0
        /\ ~Has(ToSet(q) \cup ToSet(post), "readyRead")
        /\ ~Has(ToSet(q) \cup ToSet(post), "bytesWritten")
    /\ ~u.known => u.rudp_close
    /\ u.can_close => u.state # "SYN_RCVD"
    /\ u.can_close /\ u.state = "ESTAB" => Has(ToSet(q) \cup ToSet(post), "canClose")

LEMMA ServerStep ==
    ASSUME TunInv, NEW r, NEW q, Rest(q, srvq), ServerDoes(r, q),
           r.u \in SrudpType, r.out \in Seq(Packet), r.post \in Posts,
           back' \in [state : SocketStates, unread : Nat], served' \in 0..MaxDown,
           backGot' \in Seq(Nat), raised' = raised,
           SStages(r.u, r.out, q), SSenders(r.u), SDown(r.u, r.out, back', served'),
           SUp(r.u, backGot'), SReadAgain(r.u, q \o r.post, back'),
           SClosing(r.u, r.post, q, back', served'), SQuiet(r.u, r.out, r.post, q)
    PROVE  TunInv'
<1>1. PICK u, out, post : u = r.u /\ out = r.out /\ post = r.post
  OBVIOUS
<1>2. /\ srv' = u /\ srvq' = q \o post /\ toClient' = Sent(toClient, out)
      /\ link' = link /\ downs' = downs /\ toServer' = toServer
      /\ cli' = cli /\ cliq' = cliq /\ app' = app /\ wrote' = wrote /\ appGot' = appGot
  BY <1>1 DEF ServerDoes, netVars, cliVars
<1>3. /\ SStages(u, out, q) /\ SSenders(u) /\ SDown(u, out, back', served')
      /\ SUp(u, backGot') /\ SReadAgain(u, srvq', back')
      /\ SClosing(u, post, q, back', served') /\ SQuiet(u, out, post, q)
      /\ u \in SrudpType /\ out \in Seq(Packet) /\ post \in Posts
  BY <1>1, <1>2, Zenon
<1>4. srvq \in Seq(Event) /\ toServer \in Seq(Packet) /\ toClient \in Seq(Packet)
  BY StateTypes
<1>5. /\ srvq' \in Seq(Event)
      /\ ToSet(srvq') = ToSet(q) \cup ToSet(post) /\ ToSet(q) \subseteq ToSet(srvq)
      /\ \A e \in ToSet(post) : e.type \in Signals
  BY <1>2, <1>3, <1>4, QueueAfter
<1>6. /\ toClient' \in Seq(Packet)
      /\ ToSet(toClient') \subseteq ToSet(toClient) \cup ToSet(out)
  BY <1>2, <1>3, <1>4, SentAfter
<1>7. TypeOK'
  BY <1>2, <1>3, <1>4, <1>5, <1>6 DEF TunInv, TypeOK, Quiet
<1>8. Stages'
  <2>1. Stages
    BY DEF TunInv
  <2>2. /\ u.state \in {"SYN_RCVD", "ESTAB"} \cup FinStates
        /\ ~u.self_passive_close /\ u.state # "INIT"
        /\ cli.state = "SYN_SENT" => u.state = "SYN_RCVD"
        /\ cli.state \in FinReceived => u.state \in FinStates
    BY <1>3, <2>1 DEF SStages, Stages, FinStates
  <2>3. \A e \in ToSet(srvq') \cup ToSet(toServer) :
          /\ e.type \in {"SYN", "SYN_ACK", "DATA", "DATA_ACK", "SRVFIN_ACK", "CLIFIN"} \cup Signals
          /\ e.type # "SYN"
    BY <1>3, <1>5, <2>1 DEF Stages, SStages, ToSrv, Has, Signals
  <2>4. /\ cli.state = "SYN_SENT" => ~Has(ToSet(srvq') \cup ToSet(toServer), "SYN_ACK")
        /\ Has(ToSet(srvq') \cup ToSet(toServer), "CLIFIN") \/ u.state = "TIME_WAIT" =>
            cli.state \in {"LAST_ACK", "CLOSED"}
    BY <1>3, <1>5, <2>1 DEF Stages, SStages, ToSrv, Has, Signals, LastStates
  <2>5. /\ \A e \in ToSet(cliq) \cup ToSet(toClient') :
             e.type \in {"SYN2", "DATA", "DATA_ACK", "SRVFIN", "CLIFIN_ACK"} \cup Signals
        /\ Has(ToSet(cliq) \cup ToSet(toClient'), "SRVFIN") => u.state \in FinStates
    BY <1>3, <1>6, <2>1 DEF Stages, SStages, ToCli, Has
  <2> QED
    BY <1>2, <2>1, <2>2, <2>3, <2>4, <2>5 DEF Stages, ToCli, ToSrv, Has
<1>9. OneSyn2'
  <2>1. Once(toClient', "SYN2")
    <3>1. /\ Once(toClient, "SYN2") /\ Once(out, "SYN2")
          /\ Has(ToSet(out), "SYN2") => ~Has(ToSet(toClient), "SYN2")
      BY <1>3 DEF TunInv, OneSyn2, SStages, Has, ToCli
    <3> QED
      BY <1>2, <1>3, <1>4, <3>1, SentAfter
  <2> QED
    BY <1>2, <1>3, <1>6, <2>1 DEF TunInv, OneSyn2, SStages, ToCli, Has
<1>10. Senders'
  BY <1>2, <1>3 DEF TunInv, Senders, SSenders
<1>11. Down'
  <2>1. /\ \A n \in 1..served : n \in 1..served'
        /\ \A n \in Int : n < Base(srv) => n < Base(u)
    <3>1. /\ served \in Int /\ served' \in Int /\ Base(srv) \in Int /\ Base(u) \in Int
          /\ served <= served' /\ Base(srv) <= Base(u)
      BY <1>3, StateTypes, SndType DEF SDown
    <3> QED
      BY <3>1
  <2>2. \A p \in ToSet(cliq) \cup ToSet(toClient') :
          p.type = "DATA" => p.seq \in 1..served' /\ p.seq < Base(u)
    <3>1. \A p \in ToCli : p.type = "DATA" => p.seq \in 1..served /\ p.seq < Base(srv)
      BY DEF TunInv, Down
    <3>2. \A p \in ToSet(out) : p.type = "DATA" => p.seq \in 1..served' /\ p.seq < Base(u)
      BY <1>3, Zenon DEF SDown
    <3> QED
      BY <1>6, <2>1, <3>1, <3>2 DEF ToCli
  <2>3. \A p \in ToSet(srvq') \cup ToSet(toServer) :
          p.type = "DATA_ACK" => p.seq \in HeldBy(cli)
    BY <1>5 DEF TunInv, Down, ToSrv, Signals
  <2>4. \A n \in HeldBy(cli) : n \in 1..served' /\ n < Base(u)
    <3>1. \A n \in HeldBy(cli) : n \in 1..served /\ n < Base(srv)
      BY DEF TunInv, Down
    <3> QED
      BY <2>1, <3>1
  <2> QED
    BY <1>2, <1>3, <2>2, <2>3, <2>4 DEF TunInv, Down, SDown, ToCli, ToSrv
<1>12. Up'
  BY <1>2, <1>3, <1>5 DEF TunInv, Up, SUp, ToSrv, Signals
<1>13. ReadAgain'
  BY <1>2, <1>3 DEF ReadAgain, SReadAgain
<1>14. Closing'
  <2>1. Once(srvq', "canClose")
    <3>1. Once(srvq, "canClose") /\ (Has(ToSet(post), "canClose") => ~Has(ToSet(q), "canClose"))
      BY <1>3, Zenon DEF TunInv, Closing, SClosing
    <3> QED
      BY <1>2, <1>3, <1>4, <3>1, QueueAfter
  <2> QED
    BY <1>2, <1>3, <1>5, <2>1 DEF TunInv, Closing, SClosing
<1>15. Quiet'
  <2>1. Behind(srvq', "CLIFIN", {"DATA"})
    <3>1. \A e \in ToSet(post) : e.type \notin {"DATA"}
      BY <1>5 DEF Signals
    <3>2. Behind(srvq, "CLIFIN", {"DATA"})
      BY Zenon DEF TunInv, Quiet
    <3> QED
      BY <1>2, <1>3, <1>4, <3>1, <3>2, QueueAfter
  <2>2. Behind(srvq', "disconnected", {"readyRead", "bytesWritten"})
    <3>1. Has(ToSet(q), "disconnected") =>
            \A e \in ToSet(post) : e.type \notin {"readyRead", "bytesWritten"}
      BY <1>3 DEF SQuiet, Has
    <3>2. Behind(srvq, "disconnected", {"readyRead", "bytesWritten"})
      BY Zenon DEF TunInv, Quiet
    <3> QED
      BY <1>2, <1>3, <1>4, <3>1, <3>2, QueueAfter
  <2>3. Behind(toClient', "SRVFIN", {"DATA"})
    <3>1. Behind(out, "SRVFIN", {"DATA"})
      <4>1. \A i \in DOMAIN out : out[i] \in ToSet(out)
        BY DEF ToSet
      <4> QED
        BY <1>3, <4>1 DEF SQuiet, SStages, Has, Behind
    <3>2. Has(ToSet(toClient), "SRVFIN") => \A e \in ToSet(out) : e.type \notin {"DATA"}
      BY <1>3 DEF TunInv, Stages, SStages, SQuiet, ToCli, Has
    <3>3. Behind(toClient, "SRVFIN", {"DATA"})
      BY Zenon DEF TunInv, Quiet
    <3> QED
      BY <1>2, <1>3, <1>4, <3>1, <3>2, <3>3, SentAfter
  <2>4. /\ Has(ToSet(cliq), "SRVFIN") => ~Has(ToSet(toClient'), "DATA")
        /\ cli.state \in FinReceived => ~Has(ToSet(cliq) \cup ToSet(toClient'), "DATA")
    BY <1>3, <1>6 DEF TunInv, Quiet, Stages, SStages, SQuiet, ToCli, Has
  <2>5. /\ Has(ToSet(srvq'), "CLIFIN") => ~Has(ToSet(toServer), "DATA")
        /\ u.state = "TIME_WAIT" => ~Has(ToSet(srvq') \cup ToSet(toServer), "DATA")
    BY <1>3, <1>5 DEF TunInv, Quiet, SQuiet, Has, Signals
  <2>6. /\ Has(ToSet(srvq'), "disconnected") => u.state = "TIME_WAIT" /\ u.calls = 0
        /\ u.rudp_close =>
            /\ u.state = "TIME_WAIT" /\ u.calls = 0
            /\ ~Has(ToSet(srvq'), "readyRead") /\ ~Has(ToSet(srvq'), "bytesWritten")
        /\ ~u.known => u.rudp_close
        /\ u.can_close => u.state \notin {"INIT", "SYN_RCVD"}
        /\ u.can_close /\ u.state = "ESTAB" => Has(ToSet(srvq'), "canClose")
    BY <1>3, <1>5 DEF SQuiet, SStages, FinStates
  <2> QED
    BY <1>2, <2>1, <2>2, <2>3, <2>4, <2>5, <2>6, Zenon DEF TunInv, Quiet, ToCli, ToSrv
<1> QED
  BY <1>7, <1>8, <1>9, <1>10, <1>11, <1>12, <1>13, <1>14, <1>15 DEF TunInv

-----------------------------------------------------------------------------
(***************************************************************************)
(* The handlers of the server.                                             *)
(***************************************************************************)
\* That there is room stays announced until it is handled.
LEMMA RoomStays ==
    ASSUME TunInv, NEW q, Rest(q, srvq), NEW post \in Posts, NEW u, srv.sndwins \subseteq u.sndwins,
           q = srvq \/ Head(srvq).type # "bytesWritten", RoomAnnounced(srv, srvq)
    PROVE  RoomAnnounced(u, q \o post)
<1>1. srvq \in Seq(Event) /\ q \in Seq(Event) /\ post \in Seq(Event)
  BY RestKeeps, PostsSmall, StateTypes
<1>2. PICK p \in srv.sndwins : Comes(srvq, "bytesWritten", {Pkt("DATA_ACK", p.seq)})
  BY DEF RoomAnnounced
<1>3. Comes(q, "bytesWritten", {Pkt("DATA_ACK", p.seq)})
  <2>1. CASE q = srvq
    BY <1>2, <2>1
  <2>2. CASE srvq # << >> /\ q = Tail(srvq) /\ Head(srvq).type # "bytesWritten"
    BY <1>1, <1>2, <2>2, ComesTail
  <2> QED
    BY <2>1, <2>2 DEF Rest
<1>4. Comes(q \o post, "bytesWritten", {Pkt("DATA_ACK", p.seq)})
  BY <1>1, <1>3, ComesConcat
<1> QED
  BY <1>2, <1>4 DEF RoomAnnounced

\* A handler that changes what has been received or the flags of closing.
LEMMA ServerSame ==
    ASSUME TunInv, srv.state # "INIT", NEW u, NEW out, NEW post \in Posts, NEW q, Rest(q, srvq),
           NEW b, NEW got, u.state = srv.state, u.self_passive_close = srv.self_passive_close,
           SendsSame(srv, u), \A n \in HeldBy(u) : n \in 1..wrote, GivenInOrder(u, got),
           b.unread = back.unread, q = srvq \/ Head(srvq).type # "bytesWritten",
           \A e \in ToSet(out) : e.type \in {"CLIFIN_ACK", "DATA_ACK"}
    PROVE  /\ SStages(u, out, q) /\ SSenders(u) /\ SDown(u, out, b, served)
           /\ SUp(u, got) /\ SReadAgain(u, q \o post, b)
<1>1. ToSet(q) \subseteq ToSet(srvq)
  BY RestKeeps, StateTypes
<1>2. SStages(u, out, q)
  <2>1. Once(out, "SYN2")
    <3>1. \A i \in DOMAIN out : out[i] \in ToSet(out)
      BY DEF ToSet
    <3> QED
      BY <3>1 DEF Once
  <2> QED
    BY <1>1, <2>1 DEF TunInv, Stages, SStages, Has, LastStates, FinStates, ToSrv
<1>3. Waiting(u) = Waiting(srv) /\ Base(u) = Base(srv) /\ (Buffered(u) <=> Buffered(srv))
  BY SendsSameBuffered
<1>4. SSenders(u)
  BY <1>3 DEF TunInv, Senders, SSenders
<1>5. SDown(u, out, b, served)
  <2>1. Base(srv) <= Base(u) /\ served <= served
    BY <1>3, StateTypes, SndType
  <2> QED
    BY <1>3, <2>1 DEF TunInv, Down, SDown, SendsSame
<1>6. SReadAgain(u, q \o post, b)
  BY RoomStays DEF TunInv, ReadAgain, SReadAgain, SendsSame
<1> QED
  BY <1>2, <1>4, <1>5, <1>6 DEF SUp

\* What a message leaves alone.
LEMMA ServerMessageSame ==
    ASSUME TunInv, NEW r, NEW u, r.u = u, srvq # << >>, Head(srvq).type \in PacketTypes,
           srv.state # "INIT",
           ServerDoes(r, Tail(srvq)), r.post = << >>, r.out \in Seq(Packet),
           \A e \in ToSet(r.out) : e.type \in {"CLIFIN_ACK", "DATA_ACK"},
           u \in SrudpType, u.state = srv.state, SendsSame(srv, u),
           \A n \in HeldBy(u) : n \in 1..wrote, GivenInOrder(u, backGot),
           u.self_passive_close = srv.self_passive_close, u.closed = srv.closed,
           u.can_close = srv.can_close,
           u.rudp_close = srv.rudp_close, srv.state = "TIME_WAIT" => u.calls = srv.calls,
           u.known = srv.known,
           UNCHANGED <<back, served, backGot, raised>>
    PROVE  TunInv'
<1> DEFINE q == Tail(srvq)
<1>1. /\ Rest(q, srvq) /\ ToSet(q) \subseteq ToSet(srvq)
      /\ Head(srvq).type \notin {"bytesWritten", "canClose"}
      /\ \A e \in ToSet(srvq) : e = Head(srvq) \/ e \in ToSet(q)
  BY StateTypes, HeadTaken DEF PacketTypes
<1>2. /\ SStages(u, r.out, q) /\ SSenders(u) /\ SDown(u, r.out, back, served)
      /\ SUp(u, backGot) /\ SReadAgain(u, q \o << >>, back)
  BY <1>1, NothingDone, ServerSame
<1>3. SClosing(u, << >>, q, back, served)
  BY <1>1, NothingDone DEF TunInv, Closing, SClosing, Has, SendsSame
<1>4. SQuiet(u, r.out, << >>, q)
  BY <1>1, NothingDone DEF TunInv, Stages, Quiet, SQuiet, Has, ToSrv, FinStates
<1> QED
  BY <1>1, <1>2, <1>3, <1>4, NothingDone, StateTypes, ServerStep

\* SYN makes the channel.
LEMMA ServerSyn ==
    ASSUME TunInv, srvq # << >>, Head(srvq).type = "SYN",
           ServerDoes(statemachine_server([NewSrudp EXCEPT !.known = TRUE], Head(srvq)),
                      Tail(srvq)),
           UNCHANGED <<back, served, backGot, raised>>
    PROVE  TunInv'
<1> DEFINE q == Tail(srvq)
           v == [NewSrudp EXCEPT !.known = TRUE]
           u == [v EXCEPT !.state = "SYN_RCVD"]
           out == <<Pkt("SYN2", 0)>>
           r == Reply(u, "SYN2", 0)
<1>1. v.state = "INIT"
  BY DEF NewSrudp
<1>2. r.u = u /\ r.out = out /\ r.post = << >> /\ ServerDoes(r, q)
  BY <1>1 DEF statemachine_server, Reply, Result
<1> HIDE DEF r
<1>3. /\ NewSrudp \in SrudpType /\ "SYN_RCVD" \in States
  BY DEF NewSrudp, SrudpType, States
<1>4. v \in SrudpType /\ u \in SrudpType
  <2>1. v \in SrudpType
    BY <1>3, ZenonT(60) DEF SrudpType
  <2> HIDE DEF v
  <2> QED
    BY <1>3, <2>1, ZenonT(60) DEF SrudpType
<1>5. /\ u.state = "SYN_RCVD" /\ u.selfseq = 1 /\ u.rcvseq = 1 /\ u.rcvpkts = {}
      /\ u.rcvwins = {} /\ u.sndpkts = << >> /\ u.sndwins = {}
      /\ ~u.self_passive_close /\ ~u.can_close /\ ~u.closed /\ ~u.rudp_close /\ u.known
  <2>1. /\ v.selfseq = 1 /\ v.rcvseq = 1 /\ v.rcvpkts = {}
        /\ v.rcvwins = {} /\ v.sndpkts = << >> /\ v.sndwins = {}
        /\ ~v.self_passive_close /\ ~v.can_close /\ ~v.closed /\ ~v.rudp_close /\ v.known
    BY DEF NewSrudp
  <2> HIDE DEF v
  <2> QED
    BY <1>4, <2>1 DEF SrudpType
<1> HIDE DEF u, v
<1>6. NotYet
  <2>1. Head(srvq) \in ToSrv
    BY StateTypes, HeadTaken DEF ToSrv
  <2> QED
    BY <2>1 DEF TunInv, Stages, Has
<1>7. /\ srv = NewSrudp /\ cli.state = "SYN_SENT" /\ toClient = << >> /\ cliq = << >>
      /\ back = [state |-> "connecting", unread |-> 0] /\ served = 0 /\ backGot = << >>
  BY <1>6 DEF NotYet
<1>8. q = << >> /\ toServer = << >> /\ Rest(q, srvq)
  <2>1. Len(toServer) + Len(srvq) <= 1
    BY <1>6 DEF NotYet
  <2>2. /\ Len(srvq) \in Nat \ {0} /\ Len(toServer) \in Nat /\ Len(q) = Len(srvq) - 1
        /\ q \in Seq(Event)
    BY StateTypes, ToSetTail
  <2>3. Len(q) = 0 /\ Len(toServer) = 0
    BY <2>1, <2>2
  <2> QED
    BY <2>2, <2>3, StateTypes, EmptySeq DEF Rest
<1>9. /\ out \in Seq(Packet) /\ \A e \in ToSet(out) : e.type = "SYN2"
      /\ Once(out, "SYN2")
  <2>1. "SYN2" \in PacketTypes /\ 0 \in Nat
    BY DEF PacketTypes
  <2>2. Once(out, "SYN2")
    BY DEF Once
  <2> QED
    BY <2>1, <2>2, OneReply
<1> HIDE DEF out
<1>10. SStages(u, out, q)
  <2>1. /\ ToSet(q) = {} /\ ToSet(toServer) = {} /\ ToSet(cliq) = {} /\ ToSet(toClient) = {}
        /\ srv.state = "INIT"
    BY <1>7, <1>8, NothingDone DEF NewSrudp
  <2> QED
    BY <1>5, <1>7, <1>9, <2>1 DEF SStages, Has, FinStates, ToCli
<1>11. SSenders(u)
  <2>1. IsFiniteSet({})
    BY FS_EmptySet
  <2>2. ~(0 >= BufSize) /\ Base(u) = 1 /\ DOMAIN u.sndpkts = {} /\ Len(u.sndpkts) = 0
    BY <1>5, SrudpAssumption DEF Base
  <2> QED
    BY <1>5, <2>1, <2>2, NothingDone DEF SSenders, Buffered, Numbered, Waiting
<1>12. SDown(u, out, back, served)
  <2>1. Base(srv) = 1 /\ Base(u) = 1
    BY <1>5, <1>7 DEF Base, NewSrudp
  <2> QED
    BY <1>5, <1>7, <1>9, <2>1, NothingDone DEF SDown, Waiting
<1>13. SUp(u, backGot)
  <2>1. HeldBy(u) = {}
    BY <1>5 DEF HeldBy
  <2>2. GivenInOrder(u, backGot)
    BY <1>5, <1>7 DEF GivenInOrder
  <2> QED
    BY <2>1, <2>2 DEF SUp
<1>14. SReadAgain(u, q \o << >>, back)
  BY <1>7 DEF SReadAgain
<1>15. SClosing(u, << >>, q, back, served)
  BY <1>5, <1>8, NothingDone DEF SClosing, Has, FinStates
<1>16. SQuiet(u, out, << >>, q)
  BY <1>5, <1>8, NothingDone DEF SQuiet, Has, FinStates
<1> QED
  BY <1>2, <1>4, <1>8, <1>9, <1>10, <1>11, <1>12, <1>13, <1>14, <1>15, <1>16,
     NothingDone, StateTypes, ServerStep

\* SYN_ACK: the connection is established.
LEMMA ServerSynAck ==
    ASSUME TunInv, srvq # << >>, Head(srvq).type = "SYN_ACK", srv.state = "SYN_RCVD",
           ServerDoes(Ignored([srv EXCEPT !.state = "ESTAB", !.timers = TRUE]), Tail(srvq)),
           UNCHANGED <<back, served, backGot, raised>>
    PROVE  TunInv'
<1> DEFINE q == Tail(srvq)
           u == [srv EXCEPT !.state = "ESTAB", !.timers = TRUE]
           r == Ignored(u)
<1>1. /\ Rest(q, srvq) /\ ToSet(q) \subseteq ToSet(srvq) /\ Head(srvq) \in ToSet(srvq)
      /\ r.u = u /\ r.out = << >> /\ r.post = << >> /\ ServerDoes(r, q)
  BY StateTypes, HeadTaken DEF Ignored, Result
<1> HIDE DEF r
<1>2. "ESTAB" \in States
  BY DEF States
<1>3. u \in SrudpType
  BY <1>2, StateTypes, ZenonT(60) DEF SrudpType
<1>4. /\ u.state = "ESTAB" /\ SendsSame(srv, u)
      /\ u.rcvseq = srv.rcvseq /\ u.rcvpkts = srv.rcvpkts /\ u.rcvwins = srv.rcvwins
      /\ u.self_passive_close = srv.self_passive_close /\ u.closed = srv.closed
      /\ u.can_close = srv.can_close
      /\ u.rudp_close = srv.rudp_close /\ u.calls = srv.calls /\ u.known = srv.known
  BY StateTypes DEF SendsSame, SrudpType
<1> HIDE DEF u
<1>5. cli.state # "SYN_SENT"
  BY <1>1 DEF TunInv, Stages, Has, ToSrv
<1>6. Waiting(u) = Waiting(srv) /\ Base(u) = Base(srv) /\ (Buffered(u) <=> Buffered(srv))
  BY <1>4, SendsSameBuffered
<1>7. SStages(u, << >>, q)
  BY <1>1, <1>4, <1>5, NothingDone
  DEF TunInv, Stages, SStages, Has, LastStates, FinStates, ToSrv, Once
<1>8. SSenders(u)
  BY <1>6 DEF TunInv, Senders, SSenders, FinStates
<1>9. SDown(u, << >>, back, served)
  <2>1. Base(srv) <= Base(u) /\ served <= served
    BY <1>6, StateTypes, SndType
  <2> QED
    BY <1>4, <1>6, <2>1, NothingDone DEF TunInv, Down, SDown, SendsSame, FinStates
<1>10. SUp(u, backGot)
  BY <1>4, FlowSame DEF TunInv, Up, SUp
<1>11. SReadAgain(u, q \o << >>, back)
  BY <1>1, <1>4, NothingDone, RoomStays DEF TunInv, ReadAgain, SReadAgain, SendsSame
<1>12. SClosing(u, << >>, q, back, served)
  BY <1>1, <1>4, NothingDone DEF TunInv, Closing, SClosing, Has, FinStates
<1>13. SQuiet(u, << >>, << >>, q)
  BY <1>1, <1>4, NothingDone DEF TunInv, Quiet, SQuiet, Has, FinStates
<1> QED
  BY <1>1, <1>3, <1>7, <1>8, <1>9, <1>10, <1>11, <1>12, <1>13,
     NothingDone, StateTypes, ServerStep

\* What comes when the server has said its FIN.
LEMMA ServerFinMessage ==
    ASSUME TunInv, srv.state \in FinStates, NEW r, NEW u, r.u = u,
           srvq # << >>, Head(srvq).type \in PacketTypes,
           ServerDoes(r, Tail(srvq)), r.post = << >>, r.out \in Seq(Packet),
           \A e \in ToSet(r.out) : e.type = "CLIFIN_ACK",
           u \in SrudpType, u.state \in FinStates, Numbered(u),
           u.selfseq = srv.selfseq, u.sndpkts = srv.sndpkts, u.sndwins \subseteq srv.sndwins,
           srv.state = "TIME_WAIT" => u.state = "TIME_WAIT",
           u.state = "TIME_WAIT" => srv.state = "TIME_WAIT" \/ Head(srvq).type = "CLIFIN",
           u.rcvseq = srv.rcvseq, u.rcvpkts = srv.rcvpkts, u.rcvwins = srv.rcvwins,
           u.self_passive_close = srv.self_passive_close, u.closed = srv.closed,
           u.rudp_close = srv.rudp_close, u.calls = srv.calls, u.known = srv.known,
           UNCHANGED <<back, served, backGot, raised>>
    PROVE  TunInv'
<1> DEFINE q == Tail(srvq)
<1>1. /\ Rest(q, srvq) /\ ToSet(q) \subseteq ToSet(srvq) /\ Head(srvq) \in ToSet(srvq)
      /\ q \in Seq(Event)
  BY StateTypes, HeadTaken, RestKeeps
<1>2. /\ srv.closed /\ back.unread = 0 /\ 1..served \subseteq HeldBy(cli)
      /\ srv.selfseq = served + 2
      /\ srv.sndpkts = << >> /\ \A p \in srv.sndwins : p.type = "SRVFIN"
  BY DEF TunInv, Closing
<1>3. Waiting(u) = u.sndwins /\ Base(u) = Base(srv)
  BY <1>2, NothingDone DEF Waiting, Base
<1>4. u.state = "TIME_WAIT" =>
        /\ cli.state \in LastStates
        /\ ~Has(ToSet(q), "DATA") /\ ~Has(ToSet(toServer), "DATA")
  <2>1. CASE srv.state = "TIME_WAIT"
    BY <1>1, <2>1 DEF TunInv, Stages, Quiet, LastStates, Has, ToSrv
  <2>2. CASE Head(srvq).type = "CLIFIN"
    <3>1. Has(ToSet(srvq), "CLIFIN")
      BY <1>1, <2>2 DEF Has
    <3>2. \A e \in ToSet(q) : e.type \notin {"DATA"}
      BY <2>2, StateTypes, BehindTail DEF TunInv, Quiet
    <3> QED
      BY <3>1, <3>2 DEF TunInv, Stages, Quiet, LastStates, Has, ToSrv
  <2> QED
    BY <2>1, <2>2
<1>5. SStages(u, r.out, q)
  <2>1. Once(r.out, "SYN2")
    <3>1. \A i \in DOMAIN r.out : r.out[i] \in ToSet(r.out)
      BY DEF ToSet
    <3> QED
      BY <3>1 DEF Once
  <2> QED
    BY <1>1, <1>4, <2>1 DEF TunInv, Stages, SStages, Has, FinStates, ToSrv
<1>6. SSenders(u)
  <2>1. Buffered(u)
    <3>1. Len(u.sndpkts) = 0 /\ ~(0 >= BufSize)
      BY <1>2, SrudpAssumption
    <3> QED
      BY <3>1 DEF Buffered
  <2> QED
    BY <1>2, <1>3, <2>1 DEF SSenders
<1>7. SDown(u, r.out, back, served)
  <2>1. Base(srv) <= Base(u) /\ served <= served /\ served - 0 = served
    <3>1. Base(srv) \in Int
      BY StateTypes, SndType, Zenon
    <3>2. served \in Int
      BY StateTypes
    <3> QED
      BY <1>3, <3>1, <3>2
  <2> QED
    BY <1>2, <1>3, <2>1 DEF SDown
<1>8. SUp(u, backGot)
  BY FlowSame DEF TunInv, Up, SUp
<1>9. SReadAgain(u, q \o << >>, back)
  BY <1>2 DEF SReadAgain
<1>10. SClosing(u, << >>, q, back, served)
  BY <1>1, <1>2, NothingDone DEF TunInv, Closing, SClosing, Has, FinStates
<1>11. SQuiet(u, r.out, << >>, q)
  BY <1>1, <1>4, NothingDone DEF TunInv, Quiet, SQuiet, Has, FinStates
<1> QED
  BY <1>1, <1>5, <1>6, <1>7, <1>8, <1>9, <1>10, <1>11,
     NothingDone, StateTypes, ServerStep

\* DATA_ACK makes room in the window, and the buffer moves on.
LEMMA ServerAck ==
    ASSUME TunInv, srvq # << >>, Head(srvq).type = "DATA_ACK", srv.state = "ESTAB",
           ServerDoes(Acknowledged(srv, Head(srvq)), Tail(srvq)),
           UNCHANGED <<back, served, backGot, raised>>
    PROVE  TunInv'
<1> DEFINE q == Tail(srvq)
           p == Head(srvq)
           v == Acked(srv, p.seq)
           u == attemp_flush(v)
           out == Flushed(v.sndpkts, u)
           post == BytesWritten(u)
           r == Acknowledged(srv, p)
<1>1. r.u = u /\ r.out = out /\ r.post = post /\ ServerDoes(r, q)
  BY DEF Acknowledged, Result
<1> HIDE DEF r
<1>2. /\ Rest(q, srvq) /\ q \in Seq(Event) /\ ToSet(q) \subseteq ToSet(srvq)
      /\ p \in ToSet(srvq) /\ p \in Event
      /\ \A e \in ToSet(srvq) : e = p \/ e \in ToSet(q)
  BY StateTypes, HeadTaken, RestKeeps
<1>3. /\ v \in SrudpType /\ Others(srv, v) /\ v.selfseq = srv.selfseq
      /\ v.sndpkts = srv.sndpkts /\ v.sndwins = {x \in srv.sndwins : x.seq # p.seq}
      /\ Numbered(v)
  <2>1. Numbered(srv)
    BY DEF TunInv, Senders, Buffered
  <2> QED
    BY <2>1, StateTypes, AckedType
<1> HIDE DEF v
<1>4. /\ u \in SrudpType /\ Buffered(u) /\ Others(v, u) /\ u.selfseq = v.selfseq
      /\ Waiting(u) = Waiting(v) /\ Base(v) <= Base(u)
      /\ v.sndwins \subseteq u.sndwins
      /\ Len(u.sndpkts) <= Len(v.sndpkts)
      /\ out \in Seq(Packet) /\ ToSet(out) \subseteq ToSet(v.sndpkts)
      /\ \A x \in ToSet(out) : x.seq < Base(u)
      /\ Len(u.sndpkts) < Len(v.sndpkts) => \E x \in u.sndwins : x.seq >= Base(v)
      /\ v.sndpkts = << >> => u.sndpkts = << >> /\ u.sndwins = v.sndwins /\ out = << >>
  BY <1>3, Flush, Zenon
<1>5. /\ Len(u.sndpkts) < BufSize => post = <<Signal("bytesWritten")>>
      /\ post \in Posts /\ \A e \in ToSet(post) : e.type = "bytesWritten"
  BY NothingDone DEF BytesWritten, Signals
<1> HIDE DEF u, out, post
<1>6. /\ u.state = "ESTAB" /\ u.selfseq = srv.selfseq
      /\ u.rcvseq = srv.rcvseq /\ u.rcvpkts = srv.rcvpkts /\ u.rcvwins = srv.rcvwins
      /\ u.self_passive_close = srv.self_passive_close /\ u.closed = srv.closed
      /\ u.can_close = srv.can_close
      /\ u.rudp_close = srv.rudp_close /\ u.calls = srv.calls /\ u.known = srv.known
  BY <1>3, <1>4 DEF Others
<1>7. Base(v) = Base(srv)
  BY <1>3 DEF Base
<1>8. /\ Waiting(u) \subseteq Waiting(srv) /\ ToSet(out) \subseteq Waiting(srv)
      /\ \A x \in Waiting(srv) : x \in Waiting(u) \/ x.seq = p.seq
  BY <1>3, <1>4 DEF Waiting
<1>9. p.seq \in HeldBy(cli)
  BY <1>2 DEF TunInv, Down, ToSrv
<1>10. \A x \in Waiting(srv) : x.type = "DATA" /\ x.seq \in 1..served
  BY DEF TunInv, Senders, Down, FinStates
<1>11. SStages(u, out, q)
  <2>1. Once(out, "SYN2")
    <3>1. \A i \in DOMAIN out : out[i] \in ToSet(out)
      BY DEF ToSet
    <3> QED
      BY <1>8, <1>10, <3>1 DEF Once
  <2> QED
    BY <1>2, <1>6, <1>8, <1>10, <2>1
    DEF TunInv, Stages, SStages, Has, LastStates, FinStates, ToSrv
<1>12. SSenders(u)
  BY <1>4, <1>8, <1>10 DEF SSenders
<1>13. SDown(u, out, back, served)
  <2>1. served <= served
    BY StateTypes
  <2>2. \A n \in 1..served - back.unread : n \in HeldBy(cli) \cup SeqsOf(Waiting(u))
    <3>1. \A n \in 1..served - back.unread : n \in HeldBy(cli) \cup SeqsOf(Waiting(srv))
      BY DEF TunInv, Down
    <3> QED
      BY <1>8, <1>9, <3>1 DEF SeqsOf
  <2> QED
    BY <1>4, <1>6, <1>7, <1>8, <1>10, <2>1, <2>2 DEF TunInv, Down, SDown, FinStates
<1>14. SUp(u, backGot)
  BY <1>6, FlowSame DEF TunInv, Up, SUp
<1>15. SReadAgain(u, q \o post, back)
  <2> SUFFICES ASSUME back.unread > 0, ~(Len(u.sndpkts) >= BufSize)
               PROVE  RoomAnnounced(u, q \o post)
    BY DEF SReadAgain
  <2>1. Len(u.sndpkts) < BufSize
    BY <1>4, SndType, SrudpAssumption
  <2>2. post = <<Signal("bytesWritten")>> /\ post \in Seq(Event)
    BY <1>5, <2>1, PostsSmall
  <2>3. CASE Len(srv.sndpkts) >= BufSize
    <3>1. PICK x \in u.sndwins : x.seq >= Base(srv)
      <4>1. Len(u.sndpkts) < Len(v.sndpkts)
        BY <1>3, <1>4, <2>1, <2>3, SndType, SrudpAssumption
      <4> QED
        BY <1>4, <1>7, <4>1
    <3>2. \A e \in ToSet(q) : e \notin {Pkt("DATA_ACK", x.seq)}
      <4> SUFFICES ASSUME Pkt("DATA_ACK", x.seq) \in ToSet(q)
                   PROVE  FALSE
        OBVIOUS
      <4>1. x.seq \in HeldBy(cli)
        BY <1>2 DEF TunInv, Down, ToSrv, Pkt
      <4>2. x.seq < Base(srv) /\ x.seq \in Int
        BY <4>1 DEF TunInv, Down
      <4>3. Base(srv) \in Int
        BY StateTypes, SndType
      <4> QED
        BY <3>1, <4>2, <4>3
    <3>3. Signal("bytesWritten") \in Event /\ Signal("bytesWritten").type = "bytesWritten"
      BY DEF Signal, Event, Signals
    <3>4. Comes(q \o <<Signal("bytesWritten")>>, Signal("bytesWritten").type,
                {Pkt("DATA_ACK", x.seq)})
      BY <1>2, <3>2, <3>3, ComesLast, Zenon
    <3> QED
      BY <2>2, <3>1, <3>3, <3>4 DEF RoomAnnounced
  <2>4. CASE ~(Len(srv.sndpkts) >= BufSize)
    <3>1. RoomAnnounced(srv, srvq)
      BY <2>4 DEF TunInv, ReadAgain
    <3>2. PICK x \in srv.sndwins : Comes(srvq, "bytesWritten", {Pkt("DATA_ACK", x.seq)})
      BY <3>1 DEF RoomAnnounced
    <3>3. Comes(q, "bytesWritten", {Pkt("DATA_ACK", x.seq)}) /\ p # Pkt("DATA_ACK", x.seq)
      BY <3>2, StateTypes, ComesTail
    <3>4. x.seq # p.seq
      BY <1>2, <3>3 DEF Pkt, Event
    <3>5. x \in u.sndwins
      BY <1>3, <1>4, <3>4
    <3>6. Comes(q \o post, "bytesWritten", {Pkt("DATA_ACK", x.seq)})
      BY <1>2, <2>2, <3>3, ComesConcat
    <3> QED
      BY <3>5, <3>6 DEF RoomAnnounced
  <2> QED
    BY <2>3, <2>4
<1>16. SClosing(u, post, q, back, served)
  <2>1. Has(ToSet(q), "canClose") => u.sndwins = {} /\ u.sndpkts = << >>
    BY <1>2, <1>3, <1>4 DEF TunInv, Closing, Has
  <2> QED
    BY <1>2, <1>5, <1>6, <2>1 DEF TunInv, Closing, SClosing, Has, FinStates
<1>17. SQuiet(u, out, post, q)
  BY <1>2, <1>5, <1>6 DEF TunInv, Quiet, SQuiet, Has, FinStates
<1> QED
  BY <1>1, <1>2, <1>4, <1>5, <1>11, <1>12, <1>13, <1>14, <1>15, <1>16, <1>17,
     NothingDone, StateTypes, ServerStep

\* DATA.
LEMMA ServerData ==
    ASSUME TunInv, srvq # << >>, Head(srvq).type = "DATA", srv.state = "ESTAB",
           ServerDoes(Received(srv, Head(srvq)), Tail(srvq)),
           UNCHANGED <<back, served, backGot, raised>>
    PROVE  TunInv'
<1> DEFINE p == Head(srvq)
           r == Received(srv, p)
           u == r.u
<1>1. p \in ToSet(srvq) /\ p \in Event /\ p.type \in PacketTypes /\ ServerDoes(r, Tail(srvq))
  BY StateTypes, HeadTaken DEF PacketTypes
<1>2. p.seq \in 1..wrote
  BY <1>1 DEF TunInv, Up, ToSrv
<1>3. GivenInOrder(srv, backGot) /\ \A n \in HeldBy(srv) : n \in 1..wrote
  BY DEF TunInv, Up
<1>4. /\ u \in SrudpType /\ SendsSame(srv, u) /\ u.state = srv.state
      /\ HeldBy(u) = HeldBy(srv) \cup {p.seq} /\ GivenInOrder(u, backGot)
      /\ u.self_passive_close = srv.self_passive_close /\ u.closed = srv.closed
      /\ u.can_close = srv.can_close
      /\ u.rudp_close = srv.rudp_close /\ u.known = srv.known
      /\ r.out \in Seq(Packet) /\ r.post = << >>
      /\ \A e \in ToSet(r.out) : e.type = "DATA_ACK"
  BY <1>1, <1>3, StateTypes, ReceivedType
<1> HIDE DEF r
<1>5. \A n \in HeldBy(u) : n \in 1..wrote
  BY <1>2, <1>3, <1>4
<1> QED
  BY <1>1, <1>4, <1>5, ServerMessageSame

\* newMessage.
LEMMA ServerMessageStep ==
    ASSUME TunInv, ServerMessage
    PROVE  TunInv'
<1> DEFINE p == Head(srvq)
           q == Tail(srvq)
           ack == <<Pkt("CLIFIN_ACK", p.seq)>>
<1>1. srvq # << >> /\ p.type \in PacketTypes
  BY DEF ServerMessage
<1>2. p \in ToSet(srvq) /\ p \in Event /\ p.seq \in Nat
  BY <1>1, StateTypes, HeadTaken DEF Event
<1>3. srv \in SrudpType /\ SendsSame(srv, srv) /\ GivenInOrder(srv, backGot)
      /\ \A n \in HeldBy(srv) : n \in 1..wrote
  BY StateTypes DEF SendsSame, TunInv, Up
<1>4. CASE p.type = "SYN"
  <2>1. /\ ServerDoes(statemachine_server([NewSrudp EXCEPT !.known = TRUE], p), q)
        /\ UNCHANGED <<back, served, backGot, raised>>
    BY <1>4 DEF ServerMessage
  <2> QED
    BY <1>1, <1>4, <2>1, ServerSyn
<1>5. CASE p.type # "SYN"
  <2>1. srv.state # "INIT"
    BY <1>2, <1>5 DEF TunInv, Stages, NotYet, ToSrv
  <2>2. ack \in Seq(Packet) /\ \A e \in ToSet(ack) : e.type = "CLIFIN_ACK"
    <3>1. "CLIFIN_ACK" \in PacketTypes
      BY DEF PacketTypes
    <3> QED
      BY <1>2, <3>1, OneReply
  <2> HIDE DEF ack
  <2>3. ASSUME ServerDoes(Ignored(srv), q), UNCHANGED <<back, served, backGot, raised>>
        PROVE  TunInv'
    <3>1. Ignored(srv).u = srv /\ Ignored(srv).out = << >> /\ Ignored(srv).post = << >>
      BY DEF Ignored, Result
    <3> QED
      BY <1>1, <1>3, <2>1, <2>3, <3>1, NothingDone, ServerMessageSame
  <2>4. ASSUME ServerDoes(Reply(srv, "CLIFIN_ACK", p.seq), q),
               UNCHANGED <<back, served, backGot, raised>>
        PROVE  TunInv'
    <3> DEFINE r == Reply(srv, "CLIFIN_ACK", p.seq)
    <3>1. r.u = srv /\ r.out = ack /\ r.post = << >> /\ ServerDoes(r, q)
      BY <2>4 DEF Reply, Result, ack
    <3> HIDE DEF r
    <3> QED
      BY <1>1, <1>3, <2>1, <2>2, <2>4, <3>1, ServerMessageSame
  <2>5. CASE srv.known
    <3>1. /\ ServerDoes(statemachine_server(srv, p), q)
          /\ UNCHANGED <<back, served, backGot, raised>>
      BY <1>5, <2>5 DEF ServerMessage
    <3>2. CASE srv.state = "SYN_RCVD" /\ p.type = "SYN_ACK"
      <4>1. statemachine_server(srv, p)
              = Ignored([srv EXCEPT !.state = "ESTAB", !.timers = TRUE])
        BY <3>2 DEF statemachine_server
      <4> QED
        BY <1>1, <3>1, <3>2, <4>1, ServerSynAck
    <3>3. ~(srv.state = "ESTAB" /\ p.type = "CLIFIN")
      BY <1>2 DEF TunInv, Stages, ToSrv, Has, FinReceived, FinStates
    <3>4. CASE srv.state = "ESTAB" /\ p.type = "DATA"
      <4>1. statemachine_server(srv, p) = Received(srv, p)
        BY <3>4 DEF statemachine_server
      <4> QED
        BY <1>1, <3>1, <3>4, <4>1, ServerData
    <3>5. CASE srv.state = "ESTAB" /\ p.type = "DATA_ACK"
      <4>1. statemachine_server(srv, p) = Acknowledged(srv, p)
        BY <3>5 DEF statemachine_server
      <4> QED
        BY <1>1, <3>1, <3>5, <4>1, ServerAck
    <3>6. CASE srv.state = "FIN_WAIT_1" /\ p.type = "SRVFIN_ACK" /\ Unacked(srv, p.seq)
      <4> DEFINE v == Acked(srv, p.seq)
                 u == [v EXCEPT !.state = "FIN_WAIT_2"]
                 r == Ignored(u)
      <4>1. statemachine_server(srv, p) = r
        BY <3>6 DEF statemachine_server
      <4>2. /\ v \in SrudpType /\ Others(srv, v) /\ v.selfseq = srv.selfseq
            /\ v.sndpkts = srv.sndpkts /\ v.sndwins \subseteq srv.sndwins /\ Numbered(v)
        BY <1>3, AckedType DEF TunInv, Senders, Buffered
      <4> HIDE DEF v
      <4>3. "FIN_WAIT_2" \in States
        BY DEF States
      <4>4. u \in SrudpType
        BY <4>2, <4>3, ZenonT(60) DEF SrudpType
      <4>5. u.state = "FIN_WAIT_2" /\ SendsSame(v, u)
        BY <4>2 DEF SendsSame, SrudpType
      <4>6. /\ u.rcvseq = srv.rcvseq /\ u.rcvpkts = srv.rcvpkts /\ u.rcvwins = srv.rcvwins
            /\ u.self_passive_close = srv.self_passive_close /\ u.closed = srv.closed
            /\ u.rudp_close = srv.rudp_close /\ u.calls = srv.calls /\ u.known = srv.known
        BY <4>2 DEF Others, SrudpType
      <4> HIDE DEF u
      <4>7. /\ Numbered(u) /\ u.selfseq = srv.selfseq /\ u.sndpkts = srv.sndpkts
            /\ u.sndwins \subseteq srv.sndwins
        BY <4>2, <4>5 DEF SendsSame, Numbered, Base
      <4>8. r.u = u /\ r.out = << >> /\ r.post = << >>
        BY DEF Ignored, Result
      <4> HIDE DEF r
      <4> QED
        BY <1>1, <3>1, <3>6, <4>1, <4>4, <4>5, <4>6, <4>7, <4>8, NothingDone, ServerFinMessage
        DEF FinStates
    <3>7. CASE srv.state = "FIN_WAIT_2" /\ p.type = "SRVFIN_ACK"
      <4> DEFINE u == Acked(srv, p.seq)
                 r == Ignored(u)
      <4>1. statemachine_server(srv, p) = r
        BY <3>7 DEF statemachine_server
      <4>2. /\ u \in SrudpType /\ Others(srv, u) /\ u.selfseq = srv.selfseq
            /\ u.sndpkts = srv.sndpkts /\ u.sndwins \subseteq srv.sndwins /\ Numbered(u)
        BY <1>3, AckedType DEF TunInv, Senders, Buffered
      <4> HIDE DEF u
      <4>3. r.u = u /\ r.out = << >> /\ r.post = << >>
        BY DEF Ignored, Result
      <4> HIDE DEF r
      <4> QED
        BY <1>1, <3>1, <3>7, <4>1, <4>2, <4>3, NothingDone, ServerFinMessage
        DEF FinStates, Others
    <3>8. CASE srv.state = "FIN_WAIT_2" /\ p.type = "CLIFIN"
      <4> DEFINE u == [srv EXCEPT !.state = "TIME_WAIT", !.peer_closed = TRUE]
                 r == Reply(u, "CLIFIN_ACK", p.seq)
      <4>1. statemachine_server(srv, p) = r
        BY <3>8 DEF statemachine_server
      <4>2. "TIME_WAIT" \in States
        BY DEF States
      <4>3. u \in SrudpType
        BY <1>3, <4>2, ZenonT(60) DEF SrudpType
      <4>4. /\ u.state = "TIME_WAIT" /\ SendsSame(srv, u)
            /\ u.rcvseq = srv.rcvseq /\ u.rcvpkts = srv.rcvpkts /\ u.rcvwins = srv.rcvwins
            /\ u.self_passive_close = srv.self_passive_close /\ u.closed = srv.closed
            /\ u.rudp_close = srv.rudp_close /\ u.calls = srv.calls /\ u.known = srv.known
        BY <1>3 DEF SendsSame, SrudpType
      <4>5. r.u = u /\ r.out = ack /\ r.post = << >>
        BY DEF Reply, Result, ack
      <4> HIDE DEF u, r
      <4>6. Numbered(u)
        BY <4>4, SendsSameBuffered DEF TunInv, Senders, Buffered, SendsSame, Numbered
      <4> QED
        BY <1>1, <2>2, <3>1, <3>8, <4>1, <4>3, <4>4, <4>5, <4>6, ServerFinMessage
        DEF FinStates, SendsSame
    <3>9. CASE srv.state = "TIME_WAIT" /\ p.type = "CLIFIN"
      <4>1. statemachine_server(srv, p) = Reply(srv, "CLIFIN_ACK", p.seq)
        BY <3>9 DEF statemachine_server
      <4> QED
        BY <2>4, <3>1, <4>1
    <3>10. CASE /\ ~(srv.state = "SYN_RCVD" /\ p.type = "SYN_ACK")
                /\ ~(srv.state = "ESTAB" /\ p.type = "DATA")
                /\ ~(srv.state = "ESTAB" /\ p.type = "DATA_ACK")
                /\ ~(srv.state = "FIN_WAIT_1" /\ p.type = "SRVFIN_ACK" /\ Unacked(srv, p.seq))
                /\ ~(srv.state = "FIN_WAIT_2" /\ p.type = "SRVFIN_ACK")
                /\ ~(srv.state = "FIN_WAIT_2" /\ p.type = "CLIFIN")
                /\ ~(srv.state = "TIME_WAIT" /\ p.type = "CLIFIN")
      <4>1. statemachine_server(srv, p) = Ignored(srv)
        BY <2>1, <3>3, <3>10 DEF statemachine_server
      <4> QED
        BY <2>3, <3>1, <4>1
    <3> QED
      BY <3>2, <3>4, <3>5, <3>6, <3>7, <3>8, <3>9, <3>10, Zenon
  <2>6. CASE ~srv.known
    <3>1. srv.state = "TIME_WAIT"
      BY <2>1, <2>6 DEF TunInv, Closing
    <3>2. p.type # "DATA"
      BY <1>2, <3>1 DEF TunInv, Quiet, Has, ToSrv
    <3>3. /\ ServerDoes(IF p.type = "CLIFIN" THEN Reply(srv, "CLIFIN_ACK", p.seq)
                        ELSE Ignored(srv), q)
          /\ UNCHANGED <<back, served, backGot, raised>>
      BY <1>5, <2>6, <3>2 DEF ServerMessage
    <3> QED
      BY <2>3, <2>4, <3>3
  <2> QED
    BY <2>5, <2>6
<1> QED
  BY <1>4, <1>5

LEMMA ServerRecvTimerStep ==
    ASSUME TunInv, ServerRecvTimer
    PROVE  TunInv'
<1> DEFINE r == on_recv_data(srv)
           u == r.u
<1>1. /\ ServerDoes(r, srvq) /\ srv.calls > 0
      /\ back' = back /\ served' = served /\ backGot' = backGot /\ raised' = raised
  BY DEF ServerRecvTimer
<1>2. GivenInOrder(srv, backGot)
  BY DEF TunInv, Up
<1>3. /\ u \in SrudpType /\ ReceivesOnly(srv, u) /\ u.calls = srv.calls - 1
      /\ GivenInOrder(u, backGot) /\ HeldBy(u) = HeldBy(srv)
      /\ r.out = << >> /\ r.post \in {<< >>, <<Signal("readyRead")>>}
  BY <1>1, <1>2, StateTypes, RecvData, Zenon DEF HeldBy
<1>4. /\ r.post \in Posts /\ \A e \in ToSet(r.post) : e.type = "readyRead"
      /\ Rest(srvq, srvq) /\ << >> \in Seq(Packet) /\ ToSet(<< >>) = {}
  <2>1. "readyRead" \in Signals
    BY DEF Signals
  <2>2. CASE r.post = << >>
    BY <2>2, NothingDone, Zenon
  <2>3. CASE r.post = <<Signal("readyRead")>>
    BY <2>1, <2>3, NothingDone
  <2> QED
    BY <1>3, <2>2, <2>3
<1> HIDE DEF r
<1>5. srv.calls # 0 /\ srv.state # "INIT"
  <2>1. srv.calls # 0
    BY <1>1
  <2>2. NewSrudp.calls = 0
    BY DEF NewSrudp
  <2> QED
    BY <2>1, <2>2, Zenon DEF TunInv, Stages, NotYet
<1>6. /\ SStages(u, << >>, srvq) /\ SSenders(u) /\ SDown(u, << >>, back, served)
      /\ SUp(u, backGot) /\ SReadAgain(u, srvq \o r.post, back)
  BY <1>3, <1>4, <1>5, ServerSame DEF TunInv, Up, ReceivesOnly
<1>7. SClosing(u, r.post, srvq, back, served)
  BY <1>3, <1>4, <1>5 DEF TunInv, Closing, SClosing, Has, ReceivesOnly, SendsSame
<1>8. SQuiet(u, << >>, r.post, srvq)
  BY <1>3, <1>4, <1>5 DEF TunInv, Quiet, SQuiet, Has, ToSrv, ReceivesOnly
<1> QED
  BY <1>1, <1>3, <1>4, <1>6, <1>7, <1>8, StateTypes, ServerStep

\* _toxchanReadyRead.
LEMMA ServerReadyReadStep ==
    ASSUME TunInv, ServerReadyRead
    PROVE  TunInv'
<1> DEFINE u == [srv EXCEPT !.rcvwins = {}]
           r == Ignored(u)
           q == Tail(srvq)
           got == backGot \o ReadAll(srv)
<1>1. srvq # << >> /\ Head(srvq).type = "readyRead"
  BY DEF ServerReadyRead, Next1
<1>2. /\ Rest(q, srvq) /\ Head(srvq) \in ToSet(srvq) /\ ToSet(q) \subseteq ToSet(srvq)
      /\ \A e \in ToSet(srvq) : e = Head(srvq) \/ e \in ToSet(q)
  BY <1>1, StateTypes, HeadTaken
<1>3. srv.state # "INIT"
  BY <1>1, <1>2 DEF TunInv, Stages, NotYet, ToSrv
<1>4. srv.known
  BY <1>1, <1>2, <1>3 DEF TunInv, Quiet, Has
<1>5. /\ ServerDoes(r, q) /\ backGot' = got
      /\ back' = back /\ served' = served /\ raised' = raised
  BY <1>4 DEF ServerReadyRead
<1>6. GivenInOrder(srv, backGot) /\ \A n \in HeldBy(srv) : n \in 1..wrote
  BY DEF TunInv, Up
<1>7. /\ u \in SrudpType /\ ReceivesOnly(srv, u) /\ u.calls = srv.calls
      /\ GivenInOrder(u, got) /\ HeldBy(u) = HeldBy(srv) /\ got \in Seq(Nat)
  BY <1>6, StateTypes, ReadsAll, Zenon
<1>8. r.u = u /\ r.out = << >> /\ r.post = << >>
  BY DEF Ignored, Result
<1> HIDE DEF u, r, got
<1>9. /\ SStages(u, << >>, q) /\ SSenders(u) /\ SDown(u, << >>, back, served)
      /\ SUp(u, got) /\ SReadAgain(u, q \o << >>, back)
  BY <1>1, <1>2, <1>3, <1>6, <1>7, NothingDone, ServerSame DEF ReceivesOnly
<1>10. SClosing(u, << >>, q, back, served)
  BY <1>2, <1>3, <1>7, NothingDone DEF TunInv, Closing, SClosing, Has, ReceivesOnly, SendsSame
<1>11. SQuiet(u, << >>, << >>, q)
  BY <1>1, <1>2, <1>3, <1>7, NothingDone DEF TunInv, Quiet, SQuiet, Has, ToSrv, ReceivesOnly
<1> QED
  BY <1>2, <1>5, <1>7, <1>8, <1>9, <1>10, <1>11, NothingDone, StateTypes, ServerStep

\* _toxchanDisconnected.
LEMMA ServerDisconnectedStep ==
    ASSUME TunInv, ServerDisconnected
    PROVE  TunInv'
<1> DEFINE v == [srv EXCEPT !.rudp_close = TRUE]
           u == IF srv.known THEN PromiseCleanup(v) ELSE srv
           r == Ignored(u)
           q == Tail(srvq)
<1>1. /\ srvq # << >> /\ Head(srvq).type = "disconnected" /\ ServerDoes(r, q)
      /\ back' = back /\ served' = served /\ backGot' = backGot /\ raised' = raised
  BY DEF ServerDisconnected, Next1
<1>2. /\ Rest(q, srvq) /\ Head(srvq) \in ToSet(srvq) /\ ToSet(q) \subseteq ToSet(srvq)
  BY <1>1, StateTypes, HeadTaken
<1>3. v \in SrudpType
  BY StateTypes, ZenonT(60) DEF SrudpType
<1>4. /\ v.state = srv.state /\ SendsSame(srv, v)
      /\ v.rcvseq = srv.rcvseq /\ v.rcvpkts = srv.rcvpkts /\ v.rcvwins = srv.rcvwins
      /\ v.self_passive_close = srv.self_passive_close
      /\ v.rudp_close = TRUE /\ v.calls = srv.calls /\ v.known = srv.known /\ v.closed = srv.closed
  BY StateTypes DEF SendsSame, SrudpType
<1> HIDE DEF v
<1>5. srv.state = "TIME_WAIT" /\ srv.calls = 0
  BY <1>1, <1>2 DEF TunInv, Quiet, Has
<1>6. ~srv.known => srv.rudp_close
  BY <1>5 DEF TunInv, Quiet
<1>7. /\ u \in SrudpType /\ u.state = srv.state /\ SendsSame(srv, u)
      /\ u.rcvseq = srv.rcvseq /\ u.rcvpkts = srv.rcvpkts /\ u.rcvwins = srv.rcvwins
      /\ u.self_passive_close = srv.self_passive_close
      /\ u.rudp_close = TRUE /\ u.calls = srv.calls /\ u.closed = srv.closed
  <2>1. CASE srv.known
    <3>1. u = PromiseCleanup(v)
      BY <2>1
    <3> HIDE DEF u
    <3> QED
      BY <1>3, <1>4, <3>1, Cleanup DEF SendsSame
  <2>2. CASE ~srv.known
    BY <1>6, <2>2, StateTypes DEF SendsSame, SrudpType
  <2> QED
    BY <2>1, <2>2
<1> HIDE DEF u
<1>8. r.u = u /\ r.out = << >> /\ r.post = << >>
  BY DEF Ignored, Result
<1> HIDE DEF r
<1>9. GivenInOrder(u, backGot) /\ \A n \in HeldBy(u) : n \in 1..wrote
  BY <1>7, FlowSame DEF TunInv, Up
<1>10. /\ SStages(u, << >>, q) /\ SSenders(u) /\ SDown(u, << >>, back, served)
       /\ SUp(u, backGot) /\ SReadAgain(u, q \o << >>, back)
  BY <1>1, <1>2, <1>5, <1>7, <1>9, NothingDone, ServerSame
<1>11. SClosing(u, << >>, q, back, served)
  BY <1>2, <1>5, <1>7, NothingDone DEF TunInv, Closing, SClosing, Has, SendsSame
<1>12. SQuiet(u, << >>, << >>, q)
  <2>1. \A e \in ToSet(q) : e.type \notin {"readyRead", "bytesWritten"}
    BY <1>1, StateTypes, BehindTail DEF TunInv, Quiet
  <2> QED
    BY <1>2, <1>5, <1>7, <2>1, NothingDone DEF TunInv, Quiet, SQuiet, Has, ToSrv, FinStates
<1> QED
  BY <1>1, <1>2, <1>7, <1>8, <1>10, <1>11, <1>12, NothingDone, StateTypes, ServerStep

\* _onTcpDisconnected.
LEMMA BackendCloseStep ==
    ASSUME TunInv, BackendClose
    PROVE  TunInv'
<1> DEFINE v == [srv EXCEPT !.sock_close = TRUE, !.closed = TRUE]
           u == PromiseCleanup(v)
           r == Ignored(u)
<1>1. /\ back' = [back EXCEPT !.state = "closed"] /\ ServerDoes(r, srvq) /\ back.state = "open"
      /\ served' = served /\ backGot' = backGot /\ raised' = raised
  BY DEF BackendClose
<1>2. v \in SrudpType
  BY StateTypes, ZenonT(60) DEF SrudpType
<1>3. /\ v.state = srv.state /\ SendsSame(srv, v)
      /\ v.rcvseq = srv.rcvseq /\ v.rcvpkts = srv.rcvpkts /\ v.rcvwins = srv.rcvwins
      /\ v.self_passive_close = srv.self_passive_close /\ v.can_close = srv.can_close
      /\ v.rudp_close = srv.rudp_close /\ v.calls = srv.calls /\ v.known = srv.known
      /\ v.closed
  BY StateTypes DEF SendsSame, SrudpType
<1> HIDE DEF v
<1>4. srv.state # "INIT" /\ ~srv.self_passive_close
  BY <1>1 DEF TunInv, Stages, NotYet
<1>5. /\ u \in SrudpType /\ u.state = srv.state /\ SendsSame(srv, u)
      /\ u.rcvseq = srv.rcvseq /\ u.rcvpkts = srv.rcvpkts /\ u.rcvwins = srv.rcvwins
      /\ u.self_passive_close = srv.self_passive_close /\ u.can_close = srv.can_close
      /\ u.rudp_close = srv.rudp_close /\ u.calls = srv.calls /\ u.closed
      /\ ~u.known => ~srv.known \/ (srv.rudp_close /\ srv.state = "TIME_WAIT")
  BY <1>2, <1>3, <1>4, Cleanup, Zenon DEF SendsSame
<1> HIDE DEF u
<1>6. r.u = u /\ r.out = << >> /\ r.post = << >>
  BY DEF Ignored, Result
<1> HIDE DEF r
<1>7. /\ back' \in [state : SocketStates, unread : Nat]
      /\ back'.unread = back.unread /\ back'.state = "closed"
  BY <1>1, StateTypes DEF SocketStates
<1>8. GivenInOrder(u, backGot) /\ \A n \in HeldBy(u) : n \in 1..wrote
  BY <1>5, FlowSame DEF TunInv, Up
<1>9. /\ SStages(u, << >>, srvq) /\ SSenders(u) /\ SDown(u, << >>, back', served)
      /\ SUp(u, backGot) /\ SReadAgain(u, srvq \o << >>, back')
  BY <1>4, <1>5, <1>7, <1>8, NothingDone, ServerSame
<1>10. SClosing(u, << >>, srvq, back', served)
  BY <1>4, <1>5, <1>7, NothingDone DEF TunInv, Closing, SClosing, Has, SendsSame
<1>11. SQuiet(u, << >>, << >>, srvq)
  BY <1>4, <1>5, NothingDone DEF TunInv, Quiet, SQuiet, Has, ToSrv
<1> QED
  BY <1>1, <1>5, <1>6, <1>7, <1>9, <1>10, <1>11, NothingDone, StateTypes, ServerStep

\* connectToHost.
LEMMA DialStep ==
    ASSUME TunInv, Dial
    PROVE  TunInv'
<1>1. PICK s \in {"open", "refused"} :
        /\ back' = [back EXCEPT !.state = s]
        /\ ServerDoes(Ignored([srv EXCEPT !.closed = (s = "refused")]), srvq)
  BY DEF Dial
<1> DEFINE u == [srv EXCEPT !.closed = (s = "refused")]
           r == Ignored(u)
<1>2. /\ ServerDoes(r, srvq) /\ back.state = "connecting" /\ srv.known
      /\ served' = served /\ backGot' = backGot /\ raised' = raised
  BY <1>1 DEF Dial
<1>3. u \in SrudpType
  <2>1. (s = "refused") \in BOOLEAN
    OBVIOUS
  <2> QED
    BY <2>1, StateTypes, ZenonT(60) DEF SrudpType
<1>4. /\ u.state = srv.state /\ SendsSame(srv, u)
      /\ u.rcvseq = srv.rcvseq /\ u.rcvpkts = srv.rcvpkts /\ u.rcvwins = srv.rcvwins
      /\ u.self_passive_close = srv.self_passive_close /\ u.can_close = srv.can_close
      /\ u.rudp_close = srv.rudp_close /\ u.calls = srv.calls /\ u.known = srv.known
      /\ u.closed => s = "refused"
  BY StateTypes DEF SendsSame, SrudpType
<1>5. r.u = u /\ r.out = << >> /\ r.post = << >>
  BY DEF Ignored, Result
<1> HIDE DEF u, r
<1>6. srv.state # "INIT" /\ ~srv.closed
  BY <1>2 DEF TunInv, Stages, NotYet, Closing, NewSrudp
<1>7. /\ back' \in [state : SocketStates, unread : Nat]
      /\ back'.unread = back.unread /\ back'.state = s
  BY <1>1, StateTypes DEF SocketStates
<1>8. GivenInOrder(u, backGot) /\ \A n \in HeldBy(u) : n \in 1..wrote
  BY <1>4, FlowSame DEF TunInv, Up
<1>9. /\ SStages(u, << >>, srvq) /\ SSenders(u) /\ SDown(u, << >>, back', served)
      /\ SUp(u, backGot) /\ SReadAgain(u, srvq \o << >>, back')
  BY <1>4, <1>6, <1>7, <1>8, NothingDone, ServerSame
<1>10. SClosing(u, << >>, srvq, back', served)
  BY <1>2, <1>4, <1>6, <1>7, NothingDone DEF TunInv, Closing, SClosing, Has, SendsSame
<1>11. SQuiet(u, << >>, << >>, srvq)
  BY <1>2, <1>4, <1>6, NothingDone DEF TunInv, Quiet, SQuiet, Has, ToSrv
<1> QED
  BY <1>2, <1>3, <1>5, <1>7, <1>9, <1>10, <1>11, NothingDone, StateTypes, ServerStep

\* _toxchanCanClose.
LEMMA ServerCanCloseStep ==
    ASSUME TunInv, ServerCanClose
    PROVE  TunInv'
<1> DEFINE u == mkdiscon(srv, "SRVFIN")
           sent == Flushed(make_pkt(srv, "SRVFIN").sndpkts, u)
           r == Result(u, sent, << >>)
           q == Tail(srvq)
           p == Pkt("SRVFIN", srv.selfseq)
<1>1. srvq # << >> /\ Head(srvq).type = "canClose"
  BY DEF ServerCanClose, Next1
<1>2. /\ Rest(q, srvq) /\ Head(srvq) \in ToSet(srvq) /\ ToSet(q) \subseteq ToSet(srvq)
  BY <1>1, StateTypes, HeadTaken
<1>3. /\ srv.state = "ESTAB" /\ srv.closed /\ back.unread = 0
      /\ srv.sndwins = {} /\ srv.sndpkts = << >>
  BY <1>1, <1>2 DEF TunInv, Closing, Has
<1>4. /\ srv.known /\ ~srv.rudp_close /\ ~srv.self_passive_close
      /\ cli.state # "SYN_SENT"
  BY <1>3 DEF TunInv, Quiet, Stages
<1>5. /\ ServerDoes(r, q)
      /\ back' = back /\ served' = served /\ backGot' = backGot /\ raised' = raised
  BY <1>4 DEF ServerCanClose
<1>6. r.u = u /\ r.out = sent /\ r.post = << >>
  BY DEF Result
<1> HIDE DEF r
<1>7. srv \in SrudpType /\ Numbered(srv)
  BY StateTypes DEF TunInv, Senders, Buffered
<1>8. /\ u \in SrudpType /\ Buffered(u) /\ u.selfseq = srv.selfseq + 1
      /\ u.state = IF srv.self_passive_close THEN "LAST_ACK" ELSE "FIN_WAIT_1"
      /\ u.sndpkts = << >> /\ u.sndwins = {p}
      /\ u.rcvseq = srv.rcvseq /\ u.rcvpkts = srv.rcvpkts /\ u.rcvwins = srv.rcvwins
      /\ u.self_passive_close = srv.self_passive_close
      /\ u.closed = srv.closed
      /\ u.rudp_close = srv.rudp_close /\ u.known = srv.known
      /\ sent \in Seq(Packet) /\ ToSet(sent) \subseteq {p}
  <2>1. "SRVFIN" \in PacketTypes
    BY DEF PacketTypes
  <2> QED
    BY <1>3, <1>7, <2>1, Mkdiscon, Zenon
<1> HIDE DEF u, sent
<1>9. u.state = "FIN_WAIT_1" /\ p.type = "SRVFIN"
  BY <1>4, <1>8 DEF Pkt
<1> HIDE DEF p
<1>10. SStages(u, sent, q)
  <2>1. Once(sent, "SYN2")
    <3>1. \A i \in DOMAIN sent : sent[i] \in ToSet(sent)
      BY DEF ToSet
    <3> QED
      BY <1>8, <1>9, <3>1 DEF Once
  <2> QED
    BY <1>2, <1>3, <1>4, <1>8, <1>9, <2>1 DEF TunInv, Stages, SStages, Has, FinStates, ToSrv
<1>11. Waiting(u) = {p}
  BY <1>8, NothingDone DEF Waiting
<1>12. SSenders(u)
  BY <1>8, <1>9, <1>11 DEF SSenders, FinStates
<1>13. srv.selfseq = served + 1 /\ 1..served \subseteq HeldBy(cli)
  <2>1. SeqsOf(Waiting(srv)) = {}
    BY <1>3, NothingDone DEF SeqsOf, Waiting
  <2>2. served - back.unread = served /\ srv.selfseq + back.unread = srv.selfseq
    BY <1>3, <1>7, SndType, StateTypes
  <2> QED
    BY <1>3, <2>1, <2>2 DEF TunInv, Down, FinStates
<1>14. SDown(u, sent, back, served)
  <2>1. served <= served /\ served - back.unread = served
    BY <1>3, StateTypes
  <2>2. Base(srv) <= Base(u)
    <3>1. Len(srv.sndpkts) = 0 /\ Len(u.sndpkts) = 0 /\ srv.selfseq \in Int
      BY <1>3, <1>7, <1>8, SndType
    <3> QED
      BY <1>8, <3>1 DEF Base
  <2> QED
    BY <1>8, <1>9, <1>11, <1>13, <2>1, <2>2 DEF SDown, FinStates
<1>15. SUp(u, backGot)
  BY <1>8, FlowSame DEF TunInv, Up, SUp
<1>16. SReadAgain(u, q \o << >>, back)
  BY <1>3 DEF SReadAgain
<1>17. SClosing(u, << >>, q, back, served)
  <2>1. ~Has(ToSet(q), "canClose")
    BY <1>1, StateTypes, OnceTail DEF TunInv, Closing
  <2>2. u.selfseq = served + 2
    BY <1>8, <1>13, StateTypes
  <2>3. back.state \in {"closed", "refused"}
    BY <1>3 DEF TunInv, Closing
  <2> QED
    BY <1>3, <1>4, <1>8, <1>9, <1>13, <2>1, <2>2, <2>3, NothingDone DEF SClosing, Has
<1>18. SQuiet(u, sent, << >>, q)
  BY <1>2, <1>3, <1>4, <1>8, <1>9, NothingDone DEF TunInv, Quiet, SQuiet, Has
<1> QED
  BY <1>2, <1>5, <1>6, <1>8, <1>10, <1>12, <1>14, <1>15, <1>16, <1>17, <1>18, NothingDone,
     StateTypes, ServerStep

\* _try_step_send.
LEMMA ServerTickStep ==
    ASSUME TunInv, NEW old \in BOOLEAN, ServerTick(old)
    PROVE  TunInv'
<1> DEFINE f == attemp_flush(srv)
           fin == SaysCanClose(f, "ESTAB")
           over == ~fin /\ f.can_close /\ old /\ f.state = "TIME_WAIT"
           u == [f EXCEPT !.can_close = @ \/ fin]
           sent == Flushed(srv.sndpkts, f)
           post == (IF sent = << >> THEN << >> ELSE BytesWritten(f))
                   \o (IF fin THEN <<Signal("canClose")>> ELSE << >>)
                   \o (IF over THEN <<Signal("disconnected")>> ELSE << >>)
           r == Result(u, sent, post)
<1>1. /\ NoTick(srvq) /\ srv.timers /\ (old => srv.calls = 0)
      /\ ~(~fin /\ f.can_close /\ f.state = "ESTAB") =>
           /\ ServerDoes(r, srvq)
           /\ back' = back /\ served' = served /\ backGot' = backGot /\ raised' = raised
  BY DEF ServerTick
<1>2. r.u = u /\ r.out = sent /\ r.post = post
  BY DEF Result
<1> HIDE DEF r
<1>3. srv \in SrudpType /\ Buffered(srv) /\ Numbered(srv)
  BY StateTypes DEF TunInv, Senders, Buffered
<1>4. /\ f \in SrudpType /\ Buffered(f) /\ Others(srv, f) /\ f.selfseq = srv.selfseq
      /\ Waiting(f) = Waiting(srv) /\ Base(srv) <= Base(f)
      /\ srv.sndwins \subseteq f.sndwins
      /\ Len(f.sndpkts) <= Len(srv.sndpkts)
      /\ sent \in Seq(Packet) /\ ToSet(sent) \subseteq ToSet(srv.sndpkts)
      /\ \A p \in ToSet(sent) : p.seq < Base(f)
      /\ Len(srv.sndpkts) >= BufSize => Len(f.sndpkts) >= BufSize
      /\ Len(f.sndpkts) < Len(srv.sndpkts) => \E p \in f.sndwins : p.seq >= Base(srv)
      /\ srv.sndpkts = << >> =>
           f.sndpkts = << >> /\ f.sndwins = srv.sndwins /\ sent = << >>
  BY <1>3, Flush, Zenon
<1>5. /\ fin => f.closed /\ f.state = "ESTAB" /\ f.sndwins = {} /\ f.sndpkts = << >>
      /\ over => f.state = "TIME_WAIT" /\ srv.calls = 0
  BY <1>1 DEF SaysCanClose
<1>6. BytesWritten(f) \in {<< >>, <<Signal("bytesWritten")>>}
  BY DEF BytesWritten
<1> HIDE DEF f, sent
<1>7. u \in SrudpType
  <2>1. (f.can_close \/ fin) \in BOOLEAN
    OBVIOUS
  <2> HIDE DEF fin
  <2> QED
    BY <1>4, <2>1, ZenonT(60) DEF SrudpType
<1>8. /\ u.state = srv.state /\ SendsSame(f, u)
      /\ u.rcvseq = srv.rcvseq /\ u.rcvpkts = srv.rcvpkts /\ u.rcvwins = srv.rcvwins
      /\ u.self_passive_close = srv.self_passive_close
      /\ u.rudp_close = srv.rudp_close /\ u.calls = srv.calls /\ u.closed = srv.closed
      /\ u.known = srv.known
      /\ u.can_close = (srv.can_close \/ fin)
  BY <1>3, <1>4 DEF SendsSame, Others, SrudpType
<1>9. /\ f.state = srv.state /\ f.closed = srv.closed /\ f.can_close = srv.can_close
  BY <1>4 DEF Others
<1>10. ~Has(ToSet(srvq), "canClose") /\ ~Has(ToSet(srvq), "disconnected")
  BY <1>1 DEF NoTick, Has, ToSet
<1>11. srv.state # "INIT"
  BY <1>1 DEF TunInv, Stages, NotYet, NewSrudp
<1>12. srv.state \in FinStates =>
         srv.sndpkts = << >> /\ f.sndwins = srv.sndwins /\ f.sndpkts = << >> /\ sent = << >>
  BY <1>4 DEF TunInv, Closing
<1>13. fin => /\ srv.closed /\ srv.state = "ESTAB" /\ back.unread = 0
              /\ f.sndwins = {} /\ f.sndpkts = << >> /\ sent = << >>
  <2> SUFFICES ASSUME fin PROVE back.unread = 0 /\ sent = << >>
    BY <1>5, <1>9
  <2>1. f.sndwins = {} /\ f.sndpkts = << >> /\ srv.sndwins = {}
    BY <1>4, <1>5
  <2>2. srv.sndpkts = << >>
    <3>1. ~(Len(f.sndpkts) < Len(srv.sndpkts))
      BY <1>4, <2>1
    <3>2. Len(srv.sndpkts) = 0
      BY <1>3, <2>1, <3>1, SndType
    <3> QED
      BY <1>3, <3>2, SndType, EmptySeq
  <2>3. ~RoomAnnounced(srv, srvq) /\ ~(Len(srv.sndpkts) >= BufSize)
    BY <2>1, <2>2, SrudpAssumption DEF RoomAnnounced
  <2>4. back.unread = 0
    BY <2>3, StateTypes DEF TunInv, ReadAgain
  <2> QED
    BY <1>4, <2>2, <2>4
<1>14. over => srv.state = "TIME_WAIT" /\ srv.calls = 0 /\ sent = << >>
  BY <1>5, <1>9, <1>12 DEF FinStates
<1>15. /\ ServerDoes(r, srvq)
       /\ back' = back /\ served' = served /\ backGot' = backGot /\ raised' = raised
  BY <1>1, <1>9, <1>10 DEF TunInv, Quiet
<1> HIDE DEF u
<1>16. /\ post \in Posts
       /\ Has(ToSet(post), "canClose") <=> fin
       /\ Has(ToSet(post), "disconnected") => over
       /\ Has(ToSet(post), "bytesWritten") => sent # << >>
       /\ ~Has(ToSet(post), "readyRead")
  <2>1. over => ~fin
    OBVIOUS
  <2>2. CASE fin
    <3>1. post = <<Signal("canClose")>>
      BY <1>13, <2>2
    <3> HIDE DEF post, over, fin
    <3> QED
      BY <2>1, <2>2, <3>1, NothingDone DEF Signals, Has
  <2>3. CASE over
    <3>1. post = <<Signal("disconnected")>>
      BY <1>14, <2>3
    <3> HIDE DEF post, over, fin
    <3> QED
      BY <2>1, <2>3, <3>1, NothingDone DEF Signals, Has
  <2>4. CASE ~fin /\ ~over /\ sent = << >>
    <3>1. post = << >>
      BY <2>4
    <3> HIDE DEF post, over, fin
    <3> QED
      BY <2>4, <3>1, NothingDone DEF Has
  <2>5. CASE ~fin /\ ~over /\ sent # << >>
    <3>1. post = (BytesWritten(f) \o << >>) \o << >>
      BY <2>5
    <3>2. post = BytesWritten(f)
      <4>1. BytesWritten(f) \in Posts
        BY <1>6, NothingDone DEF Signals
      <4>2. BytesWritten(f) \in Seq(Event)
        BY <4>1, PostsSmall
      <4>3. BytesWritten(f) \o << >> = BytesWritten(f)
        BY <4>2, ConcatEmptySeq
      <4> QED
        BY <3>1, <4>3
    <3> HIDE DEF post, over, fin
    <3> QED
      BY <1>6, <2>5, <3>2, NothingDone DEF Signals, Has
  <2> QED
    BY <2>2, <2>3, <2>4, <2>5, Zenon
<1> HIDE DEF post, over, fin
<1>17. Waiting(u) = Waiting(f) /\ Base(u) = Base(f) /\ Buffered(u)
  BY <1>4, <1>8, SendsSameBuffered
<1>18. ToSet(sent) \subseteq Waiting(srv)
  BY <1>4 DEF Waiting
<1>19. SStages(u, sent, srvq)
  <2>1. \A e \in ToSet(sent) : e.type = "DATA" \/ (e.type = "SRVFIN" /\ srv.state \in FinStates)
    BY <1>18 DEF TunInv, Senders
  <2>2. Once(sent, "SYN2")
    <3>1. \A i \in DOMAIN sent : sent[i] \in ToSet(sent)
      BY DEF ToSet
    <3> QED
      BY <2>1, <3>1 DEF Once
  <2> QED
    BY <1>8, <1>11, <2>1, <2>2
    DEF TunInv, Stages, SStages, Has, LastStates, FinStates, ToSrv
<1>20. SSenders(u)
  BY <1>4, <1>8, <1>17 DEF TunInv, Senders, SSenders
<1>21. SDown(u, sent, back, served)
  <2>1. served <= served
    BY StateTypes
  <2>2. \A p \in ToSet(sent) : p.type = "DATA" => p.seq \in 1..served /\ p.seq < Base(u)
    BY <1>4, <1>17, <1>18 DEF TunInv, Down
  <2>3. u.selfseq = srv.selfseq
    BY <1>4, <1>8 DEF SendsSame
  <2> QED
    BY <1>4, <1>8, <1>17, <2>1, <2>2, <2>3 DEF TunInv, Down, SDown
<1>22. SUp(u, backGot)
  BY <1>8, FlowSame DEF TunInv, Up, SUp
<1>23. SReadAgain(u, srvq \o post, back)
  <2> SUFFICES ASSUME back.unread > 0, ~(Len(u.sndpkts) >= BufSize)
               PROVE  RoomAnnounced(u, srvq \o post)
    BY DEF SReadAgain
  <2>1. RoomAnnounced(srv, srvq)
    BY <1>4, <1>8 DEF TunInv, ReadAgain, SendsSame
  <2>2. srv.sndwins \subseteq u.sndwins
    BY <1>4, <1>8 DEF SendsSame
  <2> QED
    BY <1>16, <2>1, <2>2, NothingDone, RoomStays
<1>24. SClosing(u, post, srvq, back, served)
  <2>1. u.sndpkts = f.sndpkts /\ u.sndwins = f.sndwins /\ u.selfseq = srv.selfseq
    BY <1>4, <1>8 DEF SendsSame
  <2> QED
    BY <1>8, <1>10, <1>11, <1>12, <1>13, <1>16, <2>1 DEF TunInv, Closing, SClosing, Has
<1>25. SQuiet(u, sent, post, srvq)
  <2>1. u.state \in FinStates => ~Has(ToSet(sent), "DATA")
    BY <1>8, <1>12, NothingDone DEF Has
  <2>2. u.state = "TIME_WAIT" => sent = << >>
    BY <1>8, <1>12 DEF FinStates
  <2>3. /\ u.can_close => u.state # "SYN_RCVD"
        /\ u.can_close /\ u.state = "ESTAB" => Has(ToSet(post), "canClose")
    BY <1>8, <1>10, <1>13, <1>16 DEF TunInv, Quiet
  <2> QED
    BY <1>8, <1>10, <1>11, <1>14, <1>16, <2>1, <2>2, <2>3
    DEF TunInv, Quiet, SQuiet, Has, ToSrv, FinStates
<1> QED
  BY <1>2, <1>4, <1>7, <1>15, <1>16, <1>19, <1>20, <1>21, <1>22, <1>23, <1>24, <1>25,
     NothingDone, StateTypes, ServerStep

\* The packets that are sent again are among those that wait.
LEMMA BySeqMembers ==
    ASSUME NEW late \in SUBSET Packet, IsFiniteSet(late)
    PROVE  BySeq(late) \in Seq(Packet) /\ ToSet(BySeq(late)) \subseteq late
<1> DEFINE N == SeqsOf(late)
           n == Cardinality(N)
           a == Ascending(N)
           out == BySeq(late)
<1>1. N \in SUBSET Nat
  BY DEF SeqsOf, Packet
<1>2. IsFiniteSet(N)
  <2> DEFINE f == [p \in late |-> p.seq]
  <2>1. f \in Surjection(late, N)
    BY DEF SeqsOf, Surjection
  <2> QED
    BY <2>1, FS_Surjection, Zenon
<1>3. n \in Nat
  BY <1>2, FS_CardinalityType
<1>4. \A i \in 1..n : a[i] \in N
  BY <1>1, <1>2, AscendingMembers, Zenon
<1>5. out = [i \in 1..n |-> CHOOSE p \in late : p.seq = a[i]]
  BY DEF BySeq
<1>6. \A i \in 1..n : \E p \in late : p.seq = a[i]
  BY <1>4 DEF SeqsOf
<1> HIDE DEF a, out, N
<1>7. \A i \in 1..n : out[i] \in late
  <2> TAKE i \in 1..n
  <2>1. out[i] = CHOOSE p \in late : p.seq = a[i]
    BY <1>5
  <2>2. PICK p \in late : p.seq = a[i]
    BY <1>6
  <2> QED
    BY <2>1, <2>2, Zenon
<1>8. out \in Seq(Packet) /\ Len(out) = n
  <2>1. \A i \in 1..n : out[i] \in Packet
    BY <1>7
  <2>2. out = [i \in 1..n |-> out[i]]
    BY <1>5
  <2> QED
    BY <1>3, <2>1, <2>2
<1>9. ToSet(out) = {out[i] : i \in 1..n}
  <2>1. ToSet(out) = {out[i] : i \in 1..Len(out)}
    BY <1>8, ToSetSeq, Zenon
  <2> QED
    BY <1>8, <2>1, Zenon
<1> QED
  BY <1>7, <1>8, <1>9 DEF out

\* _on_check_losspkt_timeout.
LEMMA ServerResendStep ==
    ASSUME TunInv, NEW late \in SUBSET srv.sndwins, ServerResend(late)
    PROVE  TunInv'
<1> DEFINE out == BySeq(late)
           r == Result(srv, out, << >>)
<1>1. /\ ServerDoes(r, srvq) /\ srv.timers
      /\ r.u = srv /\ r.out = out /\ r.post = << >>
      /\ back' = back /\ served' = served /\ backGot' = backGot /\ raised' = raised
  BY DEF ServerResend, Result
<1> HIDE DEF r
<1>2. out \in Seq(Packet) /\ ToSet(out) \subseteq srv.sndwins
  <2>1. late \in SUBSET Packet /\ IsFiniteSet(late)
    <3>1. IsFiniteSet(srv.sndwins) /\ srv.sndwins \in SUBSET Packet
      BY StateTypes, SndType DEF TunInv, Senders, Buffered, Numbered
    <3>2. IsFiniteSet(late)
      BY <3>1, FS_Subset, Zenon
    <3> QED
      BY <3>1, <3>2
  <2> QED
    BY <2>1, BySeqMembers
<1> HIDE DEF out
<1>3. srv.state # "INIT"
  BY <1>1 DEF TunInv, Stages, NotYet, NewSrudp
<1>4. srv \in SrudpType /\ SendsSame(srv, srv) /\ Rest(srvq, srvq)
      /\ GivenInOrder(srv, backGot) /\ \A n \in HeldBy(srv) : n \in 1..wrote
  BY StateTypes, NothingDone DEF SendsSame, TunInv, Up
<1>5. /\ SStages(srv, << >>, srvq) /\ SSenders(srv) /\ SDown(srv, << >>, back, served)
      /\ SUp(srv, backGot) /\ SReadAgain(srv, srvq \o << >>, back)
  BY <1>3, <1>4, NothingDone, ServerSame
<1>6. \A p \in ToSet(out) :
        /\ p.type = "DATA" \/ (p.type = "SRVFIN" /\ srv.state \in FinStates)
        /\ p.type = "DATA" => p.seq \in 1..served /\ srv.state \notin FinStates
        /\ p.seq < Base(srv)
  BY <1>2 DEF TunInv, Senders, Down, Closing, Waiting, Buffered, Numbered
<1>7. SStages(srv, out, srvq)
  <2>1. Once(out, "SYN2")
    <3>1. \A i \in DOMAIN out : out[i] \in ToSet(out)
      BY DEF ToSet
    <3> QED
      BY <1>6, <3>1 DEF Once
  <2> QED
    BY <1>5, <1>6, <2>1 DEF SStages, Has
<1>8. SDown(srv, out, back, served)
  BY <1>5, <1>6 DEF SDown
<1>9. SClosing(srv, << >>, srvq, back, served)
  BY <1>3, NothingDone DEF TunInv, Closing, SClosing, Has
<1>10. SQuiet(srv, out, << >>, srvq)
  BY <1>3, <1>6, NothingDone DEF TunInv, Quiet, SQuiet, Has, ToSrv
<1> QED
  BY <1>1, <1>2, <1>4, <1>5, <1>7, <1>8, <1>9, <1>10, NothingDone, StateTypes, ServerStep

\* What the server's _onTcpReadyRead does.
LEMMA ServerReadsStep ==
    ASSUME TunInv, NEW n \in Nat, NEW q, Rest(q, srvq), ServerReads(n, q),
           \A e \in ToSet(srvq) : e \in ToSet(q) \/ e.type # "canClose",
           back.unread <= n, served' \in 0..MaxDown, served' = served + (n - back.unread),
           backGot' = backGot, raised' = raised, srv.state # "INIT",
           n > 0 => srv.state \notin FinStates /\ ~Has(ToSet(srvq), "canClose")
    PROVE  TunInv'
<1> DEFINE t == Taken(n)
           k == t.taken
           u == t.u
           pieces == [i \in 1..k |-> Pkt("DATA", srv.selfseq + i - 1)]
           out == Flushed(srv.sndpkts \o pieces, u)
           r == Result(u, out, << >>)
<1>1. /\ back' = [back EXCEPT !.unread = n - k] /\ ServerDoes(r, q)
      /\ r.u = u /\ r.out = out /\ r.post = << >>
  BY DEF ServerReads, Result
<1> HIDE DEF r
<1>2. srv \in SrudpType /\ Buffered(srv)
  BY StateTypes DEF TunInv, Senders
<1>3. /\ k \in 0..n /\ Sends(srv, u, k) /\ (k < n => Len(u.sndpkts) >= BufSize)
      /\ n = 0 => u = srv
      /\ out \in Seq(Packet)
      /\ ToSet(out) \subseteq ToSet(srv.sndpkts) \cup Pieces(srv.selfseq, k)
      /\ \A p \in ToSet(out) : p.seq < Base(u)
  BY <1>2, Reads, Zenon
<1> HIDE DEF t, out
<1>4. /\ u \in SrudpType /\ Buffered(u) /\ Others(srv, u) /\ Base(srv) <= Base(u)
      /\ u.selfseq = srv.selfseq + k
      /\ Waiting(u) = Waiting(srv) \cup Pieces(srv.selfseq, k)
  BY <1>3 DEF Sends
<1>5. /\ u.state = srv.state
      /\ u.rcvseq = srv.rcvseq /\ u.rcvpkts = srv.rcvpkts /\ u.rcvwins = srv.rcvwins
      /\ u.self_passive_close = srv.self_passive_close /\ u.closed = srv.closed
      /\ u.can_close = srv.can_close
      /\ u.rudp_close = srv.rudp_close /\ u.calls = srv.calls /\ u.known = srv.known
  BY <1>4 DEF Others
<1>6. /\ srv.selfseq \in Nat \ {0} /\ back.unread \in Nat /\ served \in Nat /\ served' \in Nat
      /\ k \in Nat /\ k <= n
      /\ back' \in [state : SocketStates, unread : Nat]
      /\ back'.unread = n - k /\ back'.state = back.state
  <2>1. srv.selfseq \in Nat \ {0} /\ served \in Nat /\ served' \in Nat
    BY <1>2, SndType, StateTypes
  <2>2. k \in Nat /\ k <= n /\ n - k \in Nat
    BY <1>3
  <2>3. back \in [state : SocketStates, unread : Nat]
    BY StateTypes
  <2> QED
    BY <1>1, <2>1, <2>2, <2>3
<1>7. ToSet(q) \subseteq ToSet(srvq)
  BY RestKeeps, StateTypes
<1>8. n = 0 => /\ u = srv /\ k = 0 /\ back'.unread = 0 /\ back.unread = 0 /\ served' = served
               /\ Pieces(srv.selfseq, k) = {}
  BY <1>3, <1>6 DEF Pieces
<1>9. \A p \in Pieces(srv.selfseq, k) :
        p.type = "DATA" /\ p.seq \in srv.selfseq .. srv.selfseq + k - 1
  BY DEF Pieces, Pkt
<1>10. srv.state \notin FinStates =>
         /\ u.selfseq + back'.unread = served' + 1
         /\ srv.selfseq + k - 1 <= served'
         /\ served - back.unread = srv.selfseq - 1
         /\ served' - back'.unread = srv.selfseq + k - 1
  <2>1. srv.state \notin FinStates => srv.selfseq + back.unread = served + 1
    BY DEF TunInv, Down
  <2>2. u.selfseq = srv.selfseq + k /\ back'.unread = n - k
        /\ served' = served + (n - back.unread)
    BY <1>4, <1>6
  <2> QED
    BY <1>6, <2>1, <2>2
<1>11. SStages(u, out, q)
  <2>1. \A e \in ToSet(out) : e.type = "DATA" \/ (e.type = "SRVFIN" /\ srv.state \in FinStates)
    BY <1>3, <1>9 DEF TunInv, Senders, Waiting
  <2>2. Once(out, "SYN2")
    <3>1. \A i \in DOMAIN out : out[i] \in ToSet(out)
      BY DEF ToSet
    <3> QED
      BY <2>1, <3>1 DEF Once
  <2> QED
    BY <1>5, <1>7, <2>1, <2>2 DEF TunInv, Stages, SStages, Has, LastStates, FinStates, ToSrv
<1>12. SSenders(u)
  BY <1>4, <1>5, <1>9 DEF TunInv, Senders, SSenders
<1>13. SDown(u, out, back', served')
  <2>1. served <= served' /\ \A m \in 1..served : m \in 1..served'
    BY <1>6
  <2>2. \A p \in Pieces(srv.selfseq, k) : p.seq \in 1..served'
    <3>1. CASE n = 0
      BY <1>8, <3>1
    <3>2. CASE n # 0
      <4>1. srv.selfseq + k - 1 <= served'
        BY <1>10, <3>2
      <4> TAKE p \in Pieces(srv.selfseq, k)
      <4>2. p.seq \in srv.selfseq .. srv.selfseq + k - 1
        BY <1>9
      <4>3. srv.selfseq \in Nat \ {0} /\ k \in Nat /\ served' \in Nat
        BY <1>6, Zenon
      <4> QED
        BY <4>1, <4>2, <4>3, SMT
    <3> QED
      BY <3>1, <3>2
  <2>3. \A p \in Waiting(srv) : p.type = "DATA" => p.seq \in 1..served'
    BY <2>1 DEF TunInv, Down
  <2>4. \A m \in 1..served' - back'.unread : m \in HeldBy(cli) \cup SeqsOf(Waiting(u))
    <3>1. \A m \in 1..served - back.unread : m \in HeldBy(cli) \cup SeqsOf(Waiting(srv))
      BY DEF TunInv, Down
    <3>2. \A m \in 1..served - back.unread : m \in HeldBy(cli) \cup SeqsOf(Waiting(u))
      BY <1>4, <3>1 DEF SeqsOf
    <3>3. CASE n = 0
      BY <1>8, <3>2, <3>3
    <3>4. CASE n # 0
      <4> TAKE m \in 1..served' - back'.unread
      <4>1. m \in 1 .. srv.selfseq + k - 1
        BY <1>10, <3>4
      <4>2. CASE m <= srv.selfseq - 1
        <5>1. served - back.unread = srv.selfseq - 1 /\ m \in Int /\ m >= 1
          BY <1>6, <1>10, <3>4, <4>1
        <5>2. m \in 1..served - back.unread
          BY <1>6, <4>2, <5>1
        <5> QED
          BY <3>2, <5>2
      <4>3. CASE m > srv.selfseq - 1
        <5>1. m \in srv.selfseq .. srv.selfseq + k - 1
          BY <1>6, <4>1, <4>3
        <5>2. Pkt("DATA", m) \in Waiting(u) /\ Pkt("DATA", m).seq = m
          BY <1>4, <5>1 DEF Pieces, Pkt
        <5> QED
          BY <5>2 DEF SeqsOf
      <4> QED
        BY <1>6, <4>1, <4>2, <4>3
    <3> QED
      BY <3>3, <3>4
  <2>5. \A p \in Waiting(u) : p.type = "DATA" => p.seq \in 1..served'
    BY <1>4, <2>2, <2>3
  <2>6. ToSet(out) \subseteq Waiting(u)
    BY <1>3, <1>4 DEF Waiting
  <2> QED
    BY <1>3, <1>4, <1>5, <1>10, <2>1, <2>4, <2>5, <2>6 DEF SDown
<1>14. SUp(u, backGot)
  BY <1>5, FlowSame DEF TunInv, Up, SUp
<1>15. SReadAgain(u, q \o << >>, back')
  BY <1>3, <1>6 DEF SReadAgain
<1>16. SClosing(u, << >>, q, back', served')
  <2>1. CASE n = 0
    BY <1>5, <1>6, <1>7, <1>8, <2>1, NothingDone DEF TunInv, Closing, SClosing, Has
  <2>2. CASE n # 0
    BY <1>5, <1>6, <1>7, <2>2, NothingDone DEF TunInv, Closing, SClosing, Has
  <2> QED
    BY <2>1, <2>2
<1>17. SQuiet(u, out, << >>, q)
  <2>1. u.state \in FinStates => ~Has(ToSet(out), "DATA")
    <3> SUFFICES ASSUME srv.state \in FinStates PROVE ToSet(out) = {}
      BY <1>5 DEF Has
    <3>1. n = 0
      BY DEF TunInv
    <3>2. srv.sndpkts = << >>
      BY DEF TunInv, Closing
    <3> QED
      BY <1>3, <1>8, <3>1, <3>2, NothingDone
  <2>2. Has(ToSet(srvq), "canClose") => Has(ToSet(q), "canClose")
    BY DEF Has
  <2> QED
    BY <1>5, <1>7, <2>1, <2>2, NothingDone DEF TunInv, Quiet, SQuiet, Has, ToSrv
<1> QED
  BY <1>1, <1>3, <1>4, <1>6, <1>11, <1>12, <1>13, <1>14, <1>15, <1>16, <1>17, NothingDone,
     StateTypes, ServerStep

\* The backend writes, and all there is to read is read.
LEMMA BackendWriteStep ==
    ASSUME TunInv, BackendWrite
    PROVE  TunInv'
<1> DEFINE n == back.unread + 1
<1>1. /\ back.state = "open" /\ served < MaxDown /\ served' = served + 1
      /\ ServerReads(n, srvq) /\ backGot' = backGot /\ raised' = raised
  BY DEF BackendWrite
<1>2. srv.state # "INIT"
  BY <1>1 DEF TunInv, Stages, NotYet
<1>3. srv.state \notin FinStates /\ ~Has(ToSet(srvq), "canClose")
  BY <1>1 DEF TunInv, Closing
<1>4. back.unread \in Nat /\ served \in 0..MaxDown
  BY StateTypes
<1>5. /\ n \in Nat /\ back.unread <= n
      /\ served' \in 0..MaxDown /\ served' = served + (n - back.unread)
  BY <1>1, <1>4, ToxNetTunAssumption
<1> HIDE DEF n
<1>6. Rest(srvq, srvq) /\ \A e \in ToSet(srvq) : e \in ToSet(srvq) \/ e.type # "canClose"
  BY NothingDone
<1> QED
  BY <1>1, <1>2, <1>3, <1>5, <1>6, ServerReadsStep

\* _toxchanBytesWritten: what was left in the socket is read.
LEMMA ServerBytesWrittenStep ==
    ASSUME TunInv, ServerBytesWritten
    PROVE  TunInv'
<1> DEFINE n == back.unread
           q == Tail(srvq)
<1>1. srvq # << >> /\ Head(srvq).type = "bytesWritten"
  BY DEF ServerBytesWritten, Next1
<1>2. /\ Rest(q, srvq) /\ Head(srvq) \in ToSet(srvq)
      /\ \A e \in ToSet(srvq) : e = Head(srvq) \/ e \in ToSet(q)
  BY <1>1, StateTypes, HeadTaken
<1>3. srv.state # "INIT"
  BY <1>1, <1>2 DEF TunInv, Stages, NotYet, ToSrv
<1>4. srv.known
  BY <1>1, <1>2, <1>3 DEF TunInv, Quiet, Has
<1>5. /\ ServerReads(n, q)
      /\ served' = served /\ backGot' = backGot /\ raised' = raised
  BY <1>4 DEF ServerBytesWritten
<1>6. /\ n \in Nat /\ back.unread <= n
      /\ served' \in 0..MaxDown /\ served' = served + (n - back.unread)
  <2>1. back.unread \in Nat /\ served \in 0..MaxDown
    BY StateTypes
  <2>2. served \in Int
    BY <2>1, ToxNetTunAssumption
  <2> QED
    BY <1>5, <2>1, <2>2
<1>7. n > 0 => srv.state \notin FinStates /\ ~Has(ToSet(srvq), "canClose")
  BY DEF TunInv, Closing
<1>8. \A e \in ToSet(srvq) : e \in ToSet(q) \/ e.type # "canClose"
  BY <1>1, <1>2
<1> HIDE DEF n, q
<1> QED
  BY <1>2, <1>3, <1>5, <1>6, <1>7, <1>8, ServerReadsStep

-----------------------------------------------------------------------------
(***************************************************************************)
(* The network.                                                            *)
(***************************************************************************)

\* The first packet of net has moved to the end of the queue q.
Passes(q, net, all, rest) ==
    /\ all \in Seq(Event) /\ rest \in Seq(Packet)
    /\ Len(all) + Len(rest) = Len(q) + Len(net)
    /\ ToSet(rest) \subseteq ToSet(net) /\ ToSet(q) \subseteq ToSet(all)
    /\ \A e \in ToSet(all) : e \in ToSet(q) \/ (e \in ToSet(net) /\ e.type \notin Signals)
    /\ \A type :
         Once(q, type) /\ Once(net, type) /\ ~(Has(ToSet(q), type) /\ Has(ToSet(net), type))
         => /\ Once(all, type) /\ Once(rest, type)
            /\ ~(Has(ToSet(all), type) /\ Has(ToSet(rest), type))
    /\ \A type \in Signals : Once(q, type) => Once(all, type)
    /\ \A first, after :
         /\ Behind(q, first, after) /\ Behind(net, first, after)
         /\ Has(ToSet(q), first) => \A e \in ToSet(net) : e.type \notin after
         => /\ Behind(all, first, after) /\ Behind(rest, first, after)
            /\ Has(ToSet(all), first) => \A e \in ToSet(rest) : e.type \notin after
    /\ \A first, after :
         Behind(q, first, after) /\ after \subseteq Signals => Behind(all, first, after)
    /\ \A type, before : Comes(q, type, before) => Comes(all, type, before)

LEMMA Moved ==
    ASSUME NEW q \in Seq(Event), NEW net \in Seq(Packet), net # << >>
    PROVE  Passes(q, net, Append(q, Head(net)), Tail(net))
<1> DEFINE all == Append(q, Head(net))
           rest == Tail(net)
<1>1. PICK e : e = Head(net)
  OBVIOUS
<1>2. /\ rest \in Seq(Packet) /\ e \in Packet /\ e \in ToSet(net)
      /\ ToSet(rest) \subseteq ToSet(net) /\ Len(rest) = Len(net) - 1
      /\ Len(net) \in Nat \ {0}
  BY <1>1, ToSetTail
<1>3. e \in Event /\ e.type \notin Signals
  BY <1>2 DEF Packet, Event, PacketTypes, Signals
<1>4. /\ <<e>> \in Seq(Event) /\ ToSet(<<e>>) = {e} /\ DOMAIN <<e>> = {1}
      /\ \A type : Once(<<e>>, type)
      /\ \A first, after : Behind(<<e>>, first, after)
  BY <1>3 DEF ToSet, Once, Behind
<1>5. all = q \o <<e>>
  <2>1. Append(q, e) = q \o <<e>>
    BY <1>3, AppendIsConcat, Zenon
  <2> QED
    BY <1>1, <2>1, Zenon
<1>6. all \in Seq(Event) /\ ToSet(all) = ToSet(q) \cup {e}
  <2>1. Append(q, e) \in Seq(Event) /\ ToSet(Append(q, e)) = ToSet(q) \cup {e}
    BY <1>3, ToSetAppend, Zenon
  <2> QED
    BY <1>1, <2>1, Zenon
<1>7. Len(all) = Len(q) + 1 /\ Len(q) \in Nat
  BY <1>1, <1>3, AppendProperties, LenProperties
<1>8. ASSUME NEW type, Once(q, type), Once(net, type),
             ~(Has(ToSet(q), type) /\ Has(ToSet(net), type))
      PROVE  /\ Once(all, type) /\ Once(rest, type)
             /\ ~(Has(ToSet(all), type) /\ Has(ToSet(rest), type))
  <2>1. Once(rest, type) /\ (e.type = type => ~Has(ToSet(rest), type))
    BY <1>1, <1>8, OnceTail
  <2>2. ~Has(ToSet(q), type) \/ ~Has(ToSet(<<e>>), type)
    BY <1>2, <1>4, <1>8 DEF Has
  <2>3. Once(all, type)
    BY <1>4, <1>5, <1>8, <2>2, OnceConcat
  <2>4. ~(Has(ToSet(all), type) /\ Has(ToSet(rest), type))
    BY <1>2, <1>6, <1>8, <2>1 DEF Has
  <2> QED
    BY <2>1, <2>3, <2>4
<1>9. ASSUME NEW type \in Signals, Once(q, type) PROVE Once(all, type)
  <2>1. ~Has(ToSet(<<e>>), type)
    BY <1>3, <1>4 DEF Has
  <2> QED
    BY <1>4, <1>5, <1>9, <2>1, OnceConcat
<1>10. ASSUME NEW first, NEW after, Behind(q, first, after), Behind(net, first, after),
              Has(ToSet(q), first) => \A x \in ToSet(net) : x.type \notin after
       PROVE  /\ Behind(all, first, after) /\ Behind(rest, first, after)
              /\ Has(ToSet(all), first) => \A x \in ToSet(rest) : x.type \notin after
  <2>1. /\ Behind(rest, first, after)
        /\ e.type = first => \A x \in ToSet(rest) : x.type \notin after
    BY <1>1, <1>10, BehindTail
  <2>2. Has(ToSet(q), first) => \A x \in ToSet(<<e>>) : x.type \notin after
    BY <1>2, <1>4, <1>10
  <2>3. Behind(all, first, after)
    BY <1>4, <1>5, <1>10, <2>2, BehindConcat
  <2>4. Has(ToSet(all), first) => \A x \in ToSet(rest) : x.type \notin after
    BY <1>2, <1>6, <1>10, <2>1 DEF Has
  <2> QED
    BY <2>1, <2>3, <2>4
<1>11. ASSUME NEW first, NEW after, Behind(q, first, after), after \subseteq Signals
       PROVE  Behind(all, first, after)
  <2>1. \A x \in ToSet(<<e>>) : x.type \notin after
    BY <1>3, <1>4, <1>11
  <2> QED
    BY <1>4, <1>5, <1>11, <2>1, BehindConcat
<1>12. ASSUME NEW type, NEW before, Comes(q, type, before) PROVE Comes(all, type, before)
  BY <1>4, <1>5, <1>12, ComesConcat
<1>13. Len(all) + Len(rest) = Len(q) + Len(net)
  BY <1>2, <1>7
<1>14. /\ all \in Seq(Event) /\ rest \in Seq(Packet)
       /\ ToSet(rest) \subseteq ToSet(net) /\ ToSet(q) \subseteq ToSet(all)
       /\ \A x \in ToSet(all) : x \in ToSet(q) \/ (x \in ToSet(net) /\ x.type \notin Signals)
  BY <1>2, <1>3, <1>6
<1> QED
  BY <1>8, <1>9, <1>10, <1>11, <1>12, <1>13, <1>14, Zenon DEF Passes

\* Whatever is under way is lost with the link.
LEMMA LinkDownStep ==
    ASSUME TunInv, LinkDown
    PROVE  TunInv'
<1>1. /\ downs < MaxDowns /\ link' = FALSE /\ downs' = downs + 1
      /\ toServer' = << >> /\ toClient' = << >>
      /\ cli' = cli /\ cliq' = cliq /\ app' = app /\ wrote' = wrote /\ appGot' = appGot
      /\ srv' = srv /\ srvq' = srvq /\ back' = back /\ served' = served
      /\ backGot' = backGot /\ raised' = raised
  BY DEF LinkDown, cliVars, srvVars
<1>2. /\ << >> \in Seq(Packet) /\ ToSet(<< >>) = {} /\ Len(<< >>) = 0
      /\ \A type : Once(<< >>, type)
      /\ \A first, after : Behind(<< >>, first, after)
  BY DEF ToSet, Once, Behind
<1>3. /\ ToSet(toServer') = {} /\ ToSet(toClient') = {}
      /\ \A e \in ToCli' : e \in ToCli
      /\ \A e \in ToSrv' : e \in ToSrv
  BY <1>1, <1>2 DEF ToCli, ToSrv
<1>4. TypeOK'
  <2>1. downs' \in 0..MaxDowns
    BY <1>1, ToxNetTunAssumption DEF TunInv, TypeOK
  <2> QED
    BY <1>1, <1>2, <2>1 DEF TunInv, TypeOK
<1>5. Stages'
  <2>1. NotYet => NotYet'
    <3>1. Len(toServer) + Len(srvq) <= 1 => Len(toServer') + Len(srvq) <= 1
      <4>1. Len(toServer) \in Nat /\ Len(srvq) \in Nat
        BY StateTypes, LenProperties
      <4> QED
        BY <1>1, <1>2, <4>1
    <3> QED
      BY <1>1, <1>3, <3>1 DEF NotYet
  <2> QED
    BY <1>1, <1>3, <2>1 DEF TunInv, Stages, Has
<1>6. OneSyn2'
  BY <1>1, <1>2, <1>3 DEF TunInv, OneSyn2, Has
<1>7. Down' /\ Up'
  BY <1>1, <1>3 DEF TunInv, Down, Up
<1>8. Senders' /\ ReadAgain' /\ Closing'
  BY <1>1 DEF TunInv, Senders, ReadAgain, Closing
<1>9. Quiet'
  BY <1>1, <1>2, <1>3 DEF TunInv, Quiet, Has
<1> QED
  BY <1>4, <1>5, <1>6, <1>7, <1>8, <1>9 DEF TunInv

\* newMessage is posted at the client.
LEMMA PostToClientStep ==
    ASSUME TunInv, PostToClient
    PROVE  TunInv'
<1>1. /\ toClient # << >> /\ toClient' = Tail(toClient)
      /\ cliq' = Append(cliq, Head(toClient))
      /\ link' = link /\ downs' = downs /\ toServer' = toServer
      /\ cli' = cli /\ app' = app /\ wrote' = wrote /\ appGot' = appGot
      /\ srv' = srv /\ srvq' = srvq /\ back' = back /\ served' = served
      /\ backGot' = backGot /\ raised' = raised
  BY DEF PostToClient, netVars, srvVars
<1>2. Passes(cliq, toClient, cliq', toClient')
  BY <1>1, StateTypes, Moved
<1>3. /\ \A e \in ToCli' : e \in ToCli
      /\ ToSrv' = ToSrv
      /\ \A type \in Signals : Has(ToSet(cliq'), type) => Has(ToSet(cliq), type)
  BY <1>1, <1>2 DEF Passes, ToCli, ToSrv, Has
<1>4. TypeOK'
  BY <1>1, <1>2 DEF TunInv, TypeOK, Passes
<1>5. Stages'
  <2>1. srv.state # "INIT"
    BY <1>1 DEF TunInv, Stages, NotYet
  <2> QED
    BY <1>1, <1>3, <2>1 DEF TunInv, Stages, Has, Signals
<1>6. OneSyn2'
  BY <1>1, <1>2, <1>3 DEF TunInv, OneSyn2, Has, Passes
<1>7. Down'
  BY <1>1, <1>3 DEF TunInv, Down
<1>8. Up'
  <2>1. Announced(cliq) => Announced(cliq')
    BY <1>2 DEF Passes, Announced
  <2> QED
    BY <1>1, <1>3, <2>1 DEF TunInv, Up
<1>9. Senders' /\ ReadAgain'
  BY <1>1 DEF TunInv, Senders, ReadAgain
<1>10. Closing'
  <2>1. Once(cliq', "canClose")
    BY <1>2 DEF TunInv, Closing, Passes, Signals
  <2>2. Has(ToSet(cliq'), "canClose") => Has(ToSet(cliq), "canClose")
    BY <1>3 DEF Signals
  <2> QED
    BY <1>1, <2>1, <2>2 DEF TunInv, Closing
<1>11. Quiet'
  <2>1. /\ Behind(cliq', "SRVFIN", {"DATA"}) /\ Behind(toClient', "SRVFIN", {"DATA"})
        /\ Has(ToSet(cliq'), "SRVFIN") => ~Has(ToSet(toClient'), "DATA")
    <3>1. /\ Behind(cliq, "SRVFIN", {"DATA"}) /\ Behind(toClient, "SRVFIN", {"DATA"})
          /\ Has(ToSet(cliq), "SRVFIN") => \A e \in ToSet(toClient) : e.type \notin {"DATA"}
      BY DEF TunInv, Quiet, Has
    <3>2. /\ Behind(cliq', "SRVFIN", {"DATA"}) /\ Behind(toClient', "SRVFIN", {"DATA"})
          /\ Has(ToSet(cliq'), "SRVFIN") => \A e \in ToSet(toClient') : e.type \notin {"DATA"}
      BY <1>2, <3>1, Zenon DEF Passes
    <3> QED
      BY <3>2 DEF Has
  <2>2. Behind(cliq', "disconnected", {"readyRead"})
    <3>1. Behind(cliq, "disconnected", {"readyRead"}) /\ {"readyRead"} \subseteq Signals
      BY DEF TunInv, Quiet, Signals
    <3> QED
      BY <1>2, <3>1, Zenon DEF Passes
  <2> QED
    BY <1>1, <1>3, <2>1, <2>2 DEF TunInv, Quiet, Has, Signals
<1> QED
  BY <1>4, <1>5, <1>6, <1>7, <1>8, <1>9, <1>10, <1>11 DEF TunInv

\* newMessage is posted at the server.
LEMMA PostToServerStep ==
    ASSUME TunInv, PostToServer
    PROVE  TunInv'
<1>1. /\ toServer # << >> /\ toServer' = Tail(toServer)
      /\ srvq' = Append(srvq, Head(toServer))
      /\ link' = link /\ downs' = downs /\ toClient' = toClient
      /\ cli' = cli /\ cliq' = cliq /\ app' = app /\ wrote' = wrote /\ appGot' = appGot
      /\ srv' = srv /\ back' = back /\ served' = served
      /\ backGot' = backGot /\ raised' = raised
  BY DEF PostToServer, netVars, cliVars
<1>2. Passes(srvq, toServer, srvq', toServer')
  BY <1>1, StateTypes, Moved
<1>3. /\ \A e \in ToSrv' : e \in ToSrv
      /\ ToCli' = ToCli
      /\ \A type \in Signals : Has(ToSet(srvq'), type) => Has(ToSet(srvq), type)
      /\ \A type : Has(ToSet(srvq), type) => Has(ToSet(srvq'), type)
  BY <1>1, <1>2 DEF Passes, ToCli, ToSrv, Has
<1>4. TypeOK'
  BY <1>1, <1>2 DEF TunInv, TypeOK, Passes
<1>5. Stages'
  <2>1. NotYet => NotYet'
    <3>1. Len(srvq') + Len(toServer') = Len(srvq) + Len(toServer)
      BY <1>2, Zenon DEF Passes
    <3>2. Len(toServer) + Len(srvq) <= 1 => Len(toServer') + Len(srvq') <= 1
      <4>1. /\ Len(toServer) \in Nat /\ Len(srvq) \in Nat
            /\ Len(toServer') \in Nat /\ Len(srvq') \in Nat
        BY <1>2, StateTypes, LenProperties DEF Passes
      <4> QED
        BY <3>1, <4>1
    <3> QED
      BY <1>1, <1>3, <3>2 DEF NotYet
  <2> QED
    BY <1>1, <1>3, <2>1 DEF TunInv, Stages, Has
<1>6. OneSyn2' /\ Senders'
  BY <1>1, <1>3 DEF TunInv, OneSyn2, Senders
<1>7. Down' /\ Up'
  BY <1>1, <1>3 DEF TunInv, Down, Up
<1>8. ReadAgain'
  <2>1. RoomAnnounced(srv, srvq) => RoomAnnounced(srv, srvq')
    BY <1>2 DEF Passes, RoomAnnounced
  <2> QED
    BY <1>1, <2>1 DEF TunInv, ReadAgain
<1>9. Closing'
  <2>1. Once(srvq', "canClose")
    BY <1>2 DEF TunInv, Closing, Passes, Signals
  <2>2. Has(ToSet(srvq'), "canClose") => Has(ToSet(srvq), "canClose")
    BY <1>3 DEF Signals
  <2> QED
    BY <1>1, <2>1, <2>2 DEF TunInv, Closing
<1>10. Quiet'
  <2>1. /\ Behind(srvq', "CLIFIN", {"DATA"}) /\ Behind(toServer', "CLIFIN", {"DATA"})
        /\ Has(ToSet(srvq'), "CLIFIN") => ~Has(ToSet(toServer'), "DATA")
    <3>1. /\ Behind(srvq, "CLIFIN", {"DATA"}) /\ Behind(toServer, "CLIFIN", {"DATA"})
          /\ Has(ToSet(srvq), "CLIFIN") => \A e \in ToSet(toServer) : e.type \notin {"DATA"}
      BY DEF TunInv, Quiet, Has
    <3>2. /\ Behind(srvq', "CLIFIN", {"DATA"}) /\ Behind(toServer', "CLIFIN", {"DATA"})
          /\ Has(ToSet(srvq'), "CLIFIN") => \A e \in ToSet(toServer') : e.type \notin {"DATA"}
      BY <1>2, <3>1, Zenon DEF Passes
    <3> QED
      BY <3>2 DEF Has
  <2>2. Behind(srvq', "disconnected", {"readyRead", "bytesWritten"})
    <3>1. /\ Behind(srvq, "disconnected", {"readyRead", "bytesWritten"})
          /\ {"readyRead", "bytesWritten"} \subseteq Signals
      BY DEF TunInv, Quiet, Signals
    <3> QED
      BY <1>2, <3>1, Zenon DEF Passes
  <2>3. /\ Has(ToSet(srvq'), "disconnected") => Has(ToSet(srvq), "disconnected")
        /\ Has(ToSet(srvq'), "readyRead") => Has(ToSet(srvq), "readyRead")
        /\ Has(ToSet(srvq'), "bytesWritten") => Has(ToSet(srvq), "bytesWritten")
        /\ Has(ToSet(srvq), "canClose") => Has(ToSet(srvq'), "canClose")
    BY <1>3 DEF Signals
  <2>4. Has(ToSrv', "DATA") => Has(ToSrv, "DATA")
    BY <1>3 DEF Has
  <2> QED
    BY <1>1, <1>3, <2>1, <2>2, <2>3, <2>4 DEF TunInv, Quiet
<1> QED
  BY <1>4, <1>5, <1>6, <1>7, <1>8, <1>9, <1>10 DEF TunInv

LEMMA LinkUpStep ==
    ASSUME TunInv, LinkUp
    PROVE  TunInv'
<1>1. /\ link' = TRUE /\ UNCHANGED <<downs, toServer, toClient>>
      /\ UNCHANGED <<cli, cliq, app, wrote, appGot>>
      /\ UNCHANGED <<srv, srvq, back, served, backGot, raised>>
  BY DEF LinkUp, cliVars, srvVars
<1>2. TypeOK'
  BY <1>1 DEF TunInv, TypeOK
<1>3. /\ ToCli' = ToCli /\ ToSrv' = ToSrv /\ NotYet' = NotYet
  BY <1>1 DEF ToCli, ToSrv, NotYet
<1>4. Stages' /\ OneSyn2' /\ Senders' /\ Down'
  BY <1>1, <1>3 DEF TunInv, Stages, OneSyn2, Senders, Down
<1>5. Up' /\ ReadAgain' /\ Closing' /\ Quiet'
  BY <1>1, <1>3 DEF TunInv, Up, ReadAgain, Closing, Quiet
<1> QED
  BY <1>2, <1>4, <1>5 DEF TunInv

-----------------------------------------------------------------------------
(***************************************************************************)
(* The invariant and what it implies.                                      *)
(***************************************************************************)
LEMMA TunInvInit == Init => TunInv
<1> SUFFICES ASSUME Init PROVE TunInv
  OBVIOUS
<1>1. /\ link = TRUE /\ downs = 0
      /\ cli = [NewSrudp EXCEPT !.state = "SYN_SENT", !.known = TRUE]
      /\ srv = NewSrudp
      /\ toServer = <<Pkt("SYN", 0)>> /\ toClient = << >>
      /\ cliq = << >> /\ srvq = << >>
      /\ app = [state |-> "open", unread |-> 0]
      /\ back = [state |-> "connecting", unread |-> 0]
      /\ wrote = 0 /\ served = 0 /\ appGot = << >> /\ backGot = << >> /\ raised = {}
  BY DEF Init
<1>2. srv \in SrudpType
  <2>1. /\ {} \in SUBSET Nat /\ {} \in SUBSET Packet /\ << >> \in Seq(Packet)
        /\ "INIT" \in States /\ 1 \in Nat \ {0} /\ 0 \in Nat
    BY DEF States
  <2> QED
    BY <1>1, <2>1, ZenonT(60) DEF SrudpType, NewSrudp
<1>3. cli \in SrudpType
  <2>1. "SYN_SENT" \in States
    BY DEF States
  <2> QED
    BY <1>1, <1>2, <2>1, ZenonT(60) DEF SrudpType
<1>4. /\ srv.state = "INIT" /\ srv.selfseq = 1 /\ srv.rcvseq = 1 /\ srv.rcvpkts = {}
      /\ srv.rcvwins = {} /\ srv.sndpkts = << >> /\ srv.sndwins = {}
      /\ srv.self_passive_close = FALSE /\ srv.can_close = FALSE /\ srv.closed = FALSE
      /\ srv.rudp_close = FALSE /\ srv.calls = 0 /\ srv.known = FALSE
  BY <1>1 DEF NewSrudp
<1>5. /\ cli.state = "SYN_SENT" /\ cli.selfseq = 1 /\ cli.rcvseq = 1 /\ cli.rcvpkts = {}
      /\ cli.rcvwins = {} /\ cli.sndpkts = << >> /\ cli.sndwins = {}
      /\ cli.closed = FALSE /\ cli.rudp_close = FALSE /\ cli.calls = 0 /\ cli.known = TRUE
  BY <1>1 DEF NewSrudp
<1>6. /\ << >> \in Seq(Packet) /\ << >> \in Seq(Event) /\ << >> \in Seq(Nat)
      /\ ToSet(<< >>) = {} /\ Len(<< >>) = 0 /\ DOMAIN << >> = {}
      /\ \A type : Once(<< >>, type)
      /\ \A first, after : Behind(<< >>, first, after)
  BY DEF ToSet, Once, Behind
<1>7. /\ toServer \in Seq(Packet) /\ ToSet(toServer) = {Pkt("SYN", 0)} /\ Len(toServer) = 1
      /\ Pkt("SYN", 0).type = "SYN"
      /\ \A first, after : Behind(toServer, first, after)
  <2>1. toServer \in Seq(Packet) /\ ToSet(toServer) = {Pkt("SYN", 0)} /\ Pkt("SYN", 0).type = "SYN"
    <3>1. "SYN" \in PacketTypes /\ 0 \in Nat /\ toServer = <<Pkt("SYN", 0)>>
      BY <1>1 DEF PacketTypes
    <3> QED
      BY <3>1, OneReply, Zenon
  <2>2. Len(toServer) = 1 /\ DOMAIN toServer = {1}
    BY <1>1
  <2> QED
    BY <2>1, <2>2 DEF Behind
<1>8. ToCli = {} /\ ToSrv = {Pkt("SYN", 0)}
  BY <1>1, <1>6, <1>7 DEF ToCli, ToSrv
<1>9. TypeOK
  <2>1. /\ app \in [state : SocketStates, unread : Nat]
        /\ back \in [state : SocketStates, unread : Nat]
    BY <1>1 DEF SocketStates
  <2>2. wrote \in 0..MaxUp /\ served \in 0..MaxDown /\ downs \in 0..MaxDowns
    BY <1>1, ToxNetTunAssumption
  <2> QED
    BY <1>1, <1>2, <1>3, <1>6, <1>7, <2>1, <2>2 DEF TypeOK
<1>10. NotYet
  <2>1. Len(toServer) + Len(srvq) <= 1
    BY <1>1, <1>6, <1>7
  <2> QED
    BY <1>1, <1>5, <1>7, <1>8, <2>1 DEF NotYet
<1>11. Stages
  BY <1>1, <1>4, <1>5, <1>6, <1>7, <1>8, <1>10 DEF Stages, Has, FinReceived, FinStates
<1>12. OneSyn2
  BY <1>1, <1>6, <1>8 DEF OneSyn2, Has
<1>13. HeldBy(cli) = {} /\ HeldBy(srv) = {}
  BY <1>4, <1>5 DEF HeldBy
<1>14. Senders
  <2>1. Numbered(srv) /\ Numbered(cli)
    <3>1. IsFiniteSet({})
      BY FS_EmptySet
    <3> QED
      BY <1>4, <1>5, <1>6, <3>1 DEF Numbered, Base
  <2>2. Len(srv.sndpkts) < BufSize
    BY <1>4, <1>6, SrudpAssumption
  <2>3. Waiting(srv) = {}
    BY <1>4, <1>6 DEF Waiting
  <2>4. Len(srv.sndpkts) = 0
    BY <1>4, <1>6
  <2> QED
    BY <1>5, <2>1, <2>2, <2>3, <2>4, SrudpAssumption DEF Senders, Buffered
<1>15. GivenInOrder(cli, appGot) /\ GivenInOrder(srv, backGot)
  <2>1. /\ << >> = [i \in 1..0 |-> i] /\ Len(<< >>) = 0
        /\ 0 < 1 /\ 0 + 1 .. 1 - 1 = {}
    OBVIOUS
  <2> QED
    BY <1>1, <1>4, <1>5, <2>1, Zenon DEF GivenInOrder
<1>16. Waiting(srv) = {}
  BY <1>4, <1>6 DEF Waiting
<1>17. Down
  BY <1>1, <1>4, <1>7, <1>8, <1>13, <1>15, <1>16 DEF Down
<1>18. Up
  BY <1>1, <1>5, <1>7, <1>8, <1>13, <1>15 DEF Up, FinReceived
<1>19. ReadAgain
  BY <1>1 DEF ReadAgain
<1>20. Closing
  BY <1>1, <1>4, <1>5, <1>6 DEF Closing, Has, FinStates
<1>21. Quiet
  BY <1>1, <1>4, <1>5, <1>6, <1>7, <1>8 DEF Quiet, Has, FinReceived
<1> QED
  BY <1>9, <1>11, <1>12, <1>14, <1>17, <1>18, <1>19, <1>20, <1>21 DEF TunInv

\* No step breaks the invariant.
LEMMA TunInvStep == TunInv /\ [Next]_vars => TunInv'
<1> SUFFICES ASSUME TunInv, [Next]_vars PROVE TunInv'
  OBVIOUS
<1>1. CASE LinkDown
  BY <1>1, LinkDownStep
<1>2. CASE LinkUp
  BY <1>2, LinkUpStep
<1>3. CASE PostToClient
  BY <1>3, PostToClientStep
<1>4. CASE PostToServer
  BY <1>4, PostToServerStep
<1>5. CASE ClientEvent
  BY <1>5, ClientMessageStep, ClientConnectedStep, ClientReadyReadStep, ClientCanCloseStep,
     ClientDisconnectedStep DEF ClientEvent
<1>6. CASE ClientRecvTimer
  BY <1>6, ClientRecvTimerStep
<1>7. CASE ClientTick
  BY <1>7, ClientTickStep
<1>8. CASE AppWrite
  BY <1>8, AppWriteStep
<1>9. CASE AppClose
  BY <1>9, AppCloseStep
<1>10. CASE ServerEvent
  BY <1>10, ServerMessageStep, ServerReadyReadStep, ServerBytesWrittenStep,
     ServerCanCloseStep, ServerDisconnectedStep DEF ServerEvent
<1>11. CASE ServerRecvTimer
  BY <1>11, ServerRecvTimerStep
<1>12. CASE \E old \in BOOLEAN : ServerTick(old)
  BY <1>12, ServerTickStep
<1>13. CASE \E late \in SUBSET srv.sndwins : ServerResend(late)
  BY <1>13, ServerResendStep
<1>14. CASE Dial
  BY <1>14, DialStep
<1>15. CASE BackendWrite
  BY <1>15, BackendWriteStep
<1>16. CASE BackendClose
  BY <1>16, BackendCloseStep
<1>17. CASE UNCHANGED vars
  <2>1. /\ UNCHANGED <<link, downs, toServer, toClient, cli, cliq, app, wrote, appGot>>
        /\ UNCHANGED <<srv, srvq, back, served, backGot, raised>>
    BY <1>17 DEF vars, cliVars, srvVars
  <2>2. TypeOK'
    BY <2>1 DEF TunInv, TypeOK
  <2>3. ToCli' = ToCli /\ ToSrv' = ToSrv /\ NotYet' = NotYet
    BY <2>1 DEF ToCli, ToSrv, NotYet
  <2>4. Stages' /\ OneSyn2' /\ Senders' /\ Down'
    BY <2>1, <2>3 DEF TunInv, Stages, OneSyn2, Senders, Down
  <2>5. Up' /\ ReadAgain' /\ Closing' /\ Quiet'
    BY <2>1, <2>3 DEF TunInv, Up, ReadAgain, Closing, Quiet
  <2> QED
    BY <2>2, <2>4, <2>5 DEF TunInv
<1> QED
  BY <1>1, <1>2, <1>3, <1>4, <1>5, <1>6, <1>7, <1>8, <1>9, <1>10, <1>11, <1>12, <1>13,
     <1>14, <1>15, <1>16, <1>17, Zenon DEF Next, Network, Client, Server

LEMMA TunInvAlways == Spec => []TunInv
BY TunInvInit, TunInvStep, PTL DEF Spec

\* The fields, queues and counters of both sides keep their types.
THEOREM TypeCorrect == Spec => []TypeOK
<1>1. TunInv => TypeOK
  BY DEF TunInv
<1> QED
  BY <1>1, TunInvAlways, PTL

\* What the application is given is what the backend has sent and the server
\* has numbered, and the other way round: in order, once each, without gaps.
THEOREM StreamsKept == Spec => []StreamsIntact
<1>1. TunInv => StreamsIntact
  <2> SUFFICES ASSUME TunInv PROVE StreamsIntact
    OBVIOUS
  <2>1. InOrder(appGot, served)
    <3>1. /\ appGot = [i \in 1..Len(appGot) |-> i]
          /\ Len(appGot) < cli.rcvseq
      BY DEF TunInv, Down, GivenInOrder
    <3>2. Len(appGot) \in Nat /\ cli.rcvseq \in Nat
      BY StateTypes, LenProperties DEF SrudpType
    <3>3. \A n \in 1 .. cli.rcvseq - 1 : n \in 1..served
      BY DEF TunInv, Down, HeldBy
    <3>4. served \in Nat
      BY StateTypes, ToxNetTunAssumption
    <3>5. Len(appGot) <= served
      <4>1. CASE Len(appGot) = 0
        BY <3>4, <4>1
      <4>2. CASE Len(appGot) # 0
        <5>1. Len(appGot) \in 1 .. cli.rcvseq - 1
          BY <3>1, <3>2, <4>2
        <5>2. Len(appGot) \in 1..served
          BY <3>3, <5>1, Zenon
        <5> QED
          BY <3>4, <5>2
      <4> QED
        BY <4>1, <4>2
    <3> QED
      BY <3>1, <3>5, Zenon DEF InOrder
  <2>2. InOrder(backGot, wrote)
    <3>1. /\ backGot = [i \in 1..Len(backGot) |-> i]
          /\ Len(backGot) < srv.rcvseq
      BY DEF TunInv, Up, GivenInOrder
    <3>2. Len(backGot) \in Nat /\ srv.rcvseq \in Nat
      BY StateTypes, LenProperties DEF SrudpType
    <3>3. \A n \in 1 .. srv.rcvseq - 1 : n \in 1..wrote
      BY DEF TunInv, Up, HeldBy
    <3>4. wrote \in Nat
      BY StateTypes, ToxNetTunAssumption
    <3>5. Len(backGot) <= wrote
      <4>1. CASE Len(backGot) = 0
        BY <3>4, <4>1
      <4>2. CASE Len(backGot) # 0
        <5>1. Len(backGot) \in 1 .. srv.rcvseq - 1
          BY <3>1, <3>2, <4>2
        <5>2. Len(backGot) \in 1..wrote
          BY <3>3, <5>1, Zenon
        <5> QED
          BY <3>4, <5>2
      <4> QED
        BY <4>1, <4>2
    <3> QED
      BY <3>1, <3>5, Zenon DEF InOrder
  <2> QED
    BY <2>1, <2>2 DEF StreamsIntact
<1> QED
  BY <1>1, TunInvAlways, PTL

\* The SRVFIN goes out only when the backend has been read to the end and the
\* client has been sent every piece.
THEOREM FinComesLast == Spec => []FinAfterAll
<1>1. TunInv => FinAfterAll
  <2> SUFFICES ASSUME TunInv, srv.state \in FinStates
               PROVE  /\ back.unread = 0
                      /\ 1..served \subseteq cli.rcvpkts \cup cli.rcvwins \cup ToSet(appGot)
    BY DEF FinAfterAll, FinStates
  <2>1. back.unread = 0 /\ 1..served \subseteq HeldBy(cli)
    BY DEF TunInv, Closing
  <2>2. /\ appGot = [i \in 1..Len(appGot) |-> i]
        /\ cli.rcvwins = Len(appGot) + 1 .. cli.rcvseq - 1
    BY DEF TunInv, Down, GivenInOrder
  <2>3. appGot \in Seq(Nat) /\ Len(appGot) \in Nat /\ cli.rcvseq \in Nat
    BY StateTypes, LenProperties DEF SrudpType
  <2>4. \A n \in 1..Len(appGot) : n \in ToSet(appGot)
    <3> TAKE n \in 1..Len(appGot)
    <3>1. appGot[n] = n
      BY <2>2
    <3>2. ToSet(appGot) = {appGot[i] : i \in 1..Len(appGot)}
      BY <2>3, ToSetSeq, Zenon
    <3> QED
      BY <3>1, <3>2
  <2>5. \A n \in 1 .. cli.rcvseq - 1 :
          n \in 1..Len(appGot) \/ n \in Len(appGot) + 1 .. cli.rcvseq - 1
    BY <2>3
  <2>6. \A n \in HeldBy(cli) : n \in cli.rcvpkts \cup cli.rcvwins \cup ToSet(appGot)
    BY <2>2, <2>4, <2>5 DEF HeldBy
  <2> QED
    BY <2>1, <2>6
<1> QED
  BY <1>1, TunInvAlways, PTL

\* Late packets and queued signals never come after the cleanup, and no timer
\* asks for the time of a close that has not begun.
THEOREM HandlersNeverRaise == Spec => []NoHandlerRaises
<1>1. TunInv => NoHandlerRaises
  BY DEF TunInv, Quiet, NoHandlerRaises
<1> QED
  BY <1>1, TunInvAlways, PTL
=============================================================================
