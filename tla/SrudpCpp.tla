------------------------------ MODULE SrudpCpp ------------------------------
(***************************************************************************)
(* The reliable datagrams of p2psh and toxsocks (p2psh/srudp.cpp): two     *)
(* ends over a network that loses, repeats and reorders.  An end cuts what *)
(* is written into numbered packets, has at most SchedMax of them under    *)
(* way, takes the next lot only when all of these are acknowledged, and    *)
(* sends what is not acknowledged again from a timer.  The receiver        *)
(* acknowledges everything and hands it on in order.                       *)
(***************************************************************************)
EXTENDS Integers, SequencesExt

CONSTANTS Peer,          \* the two ends: a function from each to the other
          ClientMode,    \* the end that pings (m_client_mode, the one behind the NAT)
          PktLen,        \* bytes of a packet (123)
          SchedMax,      \* m_proto_sched_queue_max_size (10)
          MaxWrite,      \* bound: bytes one write holds
          MaxBytes       \* bound: bytes written at each end (a function of it)

VARIABLES end,           \* the object at each end
          net,           \* what is under way to each end
          written,       \* bytes written at each end
          taken          \* bytes read at each end

vars == <<end, net, written, taken>>

Ends == DOMAIN Peer

NewEnd == [timer |-> FALSE,    \* the host is set and the timer runs
           seq |-> 1,          \* m_pkt_seq, of this process
           queue |-> <<>>,     \* m_proto_send_queue
           sched |-> <<>>,     \* m_proto_sched_queue
           outLast |-> 0,      \* m_out_last_pkt_seq
           cached |-> {},      \* m_cached_pkt_seqs
           traned |-> {}]      \* m_traned_seqs

\* A packet; fresh: it was sent again by the last tick of the timer (its stime).
App(seq, bytes) == [cmd |-> "app", reliable |-> seq, pkt |-> bytes, fresh |-> FALSE]
Ack(seq) == [cmd |-> "ack", reliable |-> seq, pkt |-> <<>>, fresh |-> FALSE]
Ping == [cmd |-> "ping", reliable |-> 0, pkt |-> <<>>, fresh |-> FALSE]
Pong == [Ping EXCEPT !.cmd = "pong"]
OnWire(e) == [e EXCEPT !.fresh = FALSE]

Init ==
  /\ end = [p \in Ends |-> NewEnd]
  /\ net = [p \in Ends |-> {}]
  /\ written = [p \in Ends |-> <<>>]
  /\ taken = [p \in Ends |-> <<>>]

\* Packets go to the other end, where they wait in any order.
Sent(p, entries) == [net EXCEPT ![Peer[p]] = @ \cup {OnWire(entries[i]) : i \in DOMAIN entries}]

SchedNext(e) ==
  LET k == IF Len(e.queue) < SchedMax THEN Len(e.queue) ELSE SchedMax
  IN  IF e.sched # <<>> THEN [e |-> e, out |-> <<>>]
      ELSE [e |-> [e EXCEPT !.sched = SubSeq(e.queue, 1, k),
                            !.queue = SubSeq(e.queue, k + 1, Len(e.queue))],
            out |-> SubSeq(e.queue, 1, k)]

Chunks(bytes) ==
  [i \in 1..((Len(bytes) + PktLen - 1) \div PktLen) |->
     SubSeq(bytes, (i - 1) * PktLen + 1, IF i * PktLen < Len(bytes) THEN i * PktLen ELSE Len(bytes))]

\* One chunk: numbered, queued, and sent when nothing is under way.
SendOne(acc, chunk) ==
  LET r == SchedNext([acc.e EXCEPT !.seq = acc.e.seq + 1,
                                   !.queue = Append(acc.e.queue, App(acc.e.seq, chunk))])
  IN  [e |-> r.e, out |-> acc.out \o r.out]

SetHost(p) ==
  /\ ~end[p].timer
  /\ end' = [end EXCEPT ![p].timer = TRUE]
  /\ UNCHANGED <<net, written, taken>>

\* The users write only once the host is known.
SendTo(p) ==
  /\ end[p].timer
  /\ \E n \in 1..MaxWrite :
       LET w == written[p]
           bytes == [i \in 1..n |-> Len(w) + i]
           r == FoldLeft(SendOne, [e |-> end[p], out |-> <<>>], Chunks(bytes))
       IN  /\ Len(w) + n <= MaxBytes[p]
           /\ written' = [written EXCEPT ![p] = w \o bytes]
           /\ end' = [end EXCEPT ![p] = r.e]
           /\ net' = Sent(p, r.out)
  /\ UNCHANGED taken

Pending(e) == {m \in e.cached : m.reliable = e.outLast + 1}

\* Mutant of Readable: what is cached is read without looking for the gap before it.
ReadableAny(e) ==
  LET ms == SetToSortSeq(e.cached, LAMBDA a, b : a.reliable < b.reliable)
  IN  [e |-> [e EXCEPT !.cached = {}, !.outLast = @ + Len(ms)],
       bytes |-> FlattenSeq([i \in DOMAIN ms |-> ms[i].pkt])]

\* The user reads while hasPendingDatagrams.
Readable(e) ==
  LET readTo[n \in Nat] == IF \E m \in e.cached : m.reliable = n + 1 THEN readTo[n + 1] ELSE n
      last == readTo[e.outLast]
      read == {m \in e.cached : m.reliable \in (e.outLast + 1)..last}
      ms == SetToSortSeq(read, LAMBDA a, b : a.reliable < b.reliable)
  IN  [e |-> [e EXCEPT !.cached = @ \ read, !.outLast = last],
       bytes |-> FlattenSeq([i \in DOMAIN ms |-> ms[i].pkt])]

\* The network may keep a copy of what it delivers.
Consumed(p, m) == {net[p], net[p] \ {m}}

Without(entries, reliable) ==
  LET i == SelectInSeq(entries, LAMBDA e : e.reliable = reliable)
  IN  IF i = 0 THEN entries ELSE RemoveAt(entries, i)

\* Mutant of OnAck: the next lot is not taken.
OnAckStays(e, m) == [e |-> [e EXCEPT !.sched = Without(e.sched, m.reliable)], out |-> <<>>]

OnAck(e, m) == SchedNext([e EXCEPT !.sched = Without(e.sched, m.reliable)])

ReceiveAck(p, m) ==
  \E rest \in Consumed(p, m) :
    LET r == OnAck(end[p], m)
    IN  /\ m.cmd = "ack"
        /\ end' = [end EXCEPT ![p] = r.e]
        /\ net' = [Sent(p, r.out) EXCEPT ![p] = rest]
        /\ UNCHANGED <<written, taken>>

\* Acknowledged at once, and cached unless it came before.
ReceiveApp(p, m) ==
  \E rest \in Consumed(p, m) :
    LET e == end[p]
        r == Readable([e EXCEPT !.traned = @ \cup {m.reliable}, !.cached = @ \cup {m}])
    IN  /\ m.cmd = "app"
        /\ net' = [Sent(p, <<Ack(m.reliable)>>) EXCEPT ![p] = rest]
        /\ IF m.reliable \in e.traned THEN UNCHANGED <<end, taken>>
           ELSE /\ end' = [end EXCEPT ![p] = r.e]
                /\ taken' = [taken EXCEPT ![p] = @ \o r.bytes]
        /\ UNCHANGED written

\* A ping is answered; the answer removes what has its number, which is 0: nothing.
ReceivePing(p, m) ==
  \E rest \in Consumed(p, m) :
    /\ m.cmd \in {"ping", "pong"}
    /\ net' = [Sent(p, IF m.cmd = "ping" THEN <<Pong>> ELSE <<>>) EXCEPT ![p] = rest]
    /\ end' = IF m.cmd = "pong" THEN [end EXCEPT ![p].sched = Without(@, m.reliable)] ELSE end
    /\ UNCHANGED <<written, taken>>

Lose(p) ==
  /\ \E m \in net[p] : net' = [net EXCEPT ![p] = @ \ {m}]
  /\ UNCHANGED <<end, written, taken>>

\* Every 2 s, compared in whole seconds: what was sent again by the last tick may be spared
\* (early); the first tick takes all, as a packet has no time before.  A ping goes out when
\* 6 s have passed (due) and nothing was sent again.
OnSendConfirmTimeout(p) ==
  \E early \in BOOLEAN, due \in BOOLEAN :
    LET e == end[p]
        Again(x) == ~(x.fresh /\ early)
        again == SelectSeq(e.sched, Again)
        ping == due /\ again = <<>> /\ p = ClientMode
    IN  /\ e.timer
        /\ end' = [end EXCEPT ![p].sched = [i \in DOMAIN @ |-> [@[i] EXCEPT !.fresh = Again(e.sched[i])]]]
        /\ net' = Sent(p, IF ping THEN <<Ping>> ELSE again)
        /\ UNCHANGED <<written, taken>>

Next ==
  \E p \in Ends :
    \/ SetHost(p) \/ SendTo(p) \/ Lose(p) \/ OnSendConfirmTimeout(p)
    \/ \E m \in net[p] : ReceiveAck(p, m) \/ ReceiveApp(p, m) \/ ReceivePing(p, m)

\* The timer runs, and the network delivers a packet that is sent again and again.
Fairness ==
  \A p \in Ends :
    /\ WF_vars(OnSendConfirmTimeout(p))
    /\ \A n \in 1..MaxBytes[Peer[p]] :
         SF_vars(\E m \in net[p] : m.reliable = n /\ ReceiveApp(p, m))
    /\ \A n \in 1..MaxBytes[p] : SF_vars(\E m \in net[p] : m.reliable = n /\ ReceiveAck(p, m))

Spec == Init /\ [][Next]_vars
LiveSpec == Spec /\ Fairness

(*************************** properties ***********************************)

Numbers(entries) == {entries[i].reliable : i \in DOMAIN entries}

\* What is read is what was written, from the beginning, each byte once; a packet that was
\* not read is still to be sent again by its sender or waits in the receiver's cache; and
\* nothing waits in the queue unless an acknowledgement is due that will move it
\* (srudp.cpp:51-271, 668-699).
StreamKept ==
  \A p \in Ends :
    LET q == Peer[p]
    IN  /\ IsPrefix(taken[q], written[p])
        /\ \A n \in (end[q].outLast + 1)..(end[p].seq - 1) :
             n \in Numbers(end[p].queue) \cup Numbers(end[p].sched)
                     \cup {m.reliable : m \in end[q].cached}
        /\ end[p].sched = <<>> => end[p].queue = <<>>
        /\ Len(end[p].sched) <= SchedMax

\* Everything written is read in the end.
AllArrives ==
  \A p \in Ends : \A n \in 1..MaxBytes[p] : Len(written[p]) >= n ~> Len(taken[Peer[p]]) >= n
==============================================================================
