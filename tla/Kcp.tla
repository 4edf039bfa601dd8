-------------------------------- MODULE Kcp --------------------------------
(***************************************************************************)
(* toxtun-go/kcp.go: two KCP objects of one conversation over a network    *)
(* that loses, repeats, delays and reorders packets.                       *)
(*                                                                         *)
(* Sequence numbers are 32-bit and compared by their signed difference;    *)
(* here they are modulo SnModulus.  Time is abstract: whether a segment's  *)
(* resend time, or the window probe's, has come when flush runs is a free  *)
(* choice (KcpClock has the clock itself).  A packet carries one segment:  *)
(* bundling up to the MTU only makes several segments travel together.     *)
(***************************************************************************)
EXTENDS Integers, SequencesExt, FiniteSetsExt

CONSTANTS
    SnModulus,      \* 2^32 in the code
    SndWnd, RcvWnd, \* snd_wnd, rcv_wnd: 32, or 128 in fast mode
    FastResend,     \* fastresend: 0, or 2 in fast mode
    NoCwnd,         \* nocwnd: FALSE, or TRUE in fast mode
    MaxFrag,        \* fragments of the longest message: 12 for an 8 KB read
    MaxWait,        \* bound: fragments not yet acknowledged when more is sent
    MaxSend,        \* MaxSend[e], bound: fragments end e ever sends
    MaxNet,         \* MaxNet[e], bound: segments under way to e
    MaxLag,         \* segments sent while one packet lives, at most
    MayCalm         \* whether the network may stop losing packets

Ends == {"client", "server"}
Peer == [e \in Ends |-> IF e = "client" THEN "server" ELSE "client"]

\* Windows, and how far a conversation gets while a packet lives, are small
\* beside the range of sequence numbers, and a message fits the window.
ASSUME KcpAssumption ==
    /\ SndWnd \in Nat \ {0} /\ RcvWnd \in Nat \ {0} /\ MaxFrag \in 1..RcvWnd
    /\ SnModulus \in Nat /\ SnModulus % 2 = 0
    /\ SnModulus \div 2 >= SndWnd + RcvWnd + MaxLag
    /\ SnModulus >= 3 * SndWnd + RcvWnd + 2 * MaxLag
    /\ FastResend \in Nat /\ NoCwnd \in BOOLEAN
    /\ MaxWait \in Nat /\ MaxSend \in [Ends -> Nat] /\ MaxNet \in [Ends -> Nat]
    /\ MaxLag \in Nat /\ MayCalm \in BOOLEAN

VARIABLES
    kcp,    \* the KCP object of each end
    net,    \* net[e]: packets under way to e
    sent,   \* sent[e]: the fragments of the messages e gave to Send
    got,    \* got[e]: the fragments of the messages Recv returned at e
    calm    \* TRUE from the time the network loses and delays nothing

vars == <<kcp, net, sent, got, calm>>

-----------------------------------------------------------------------------
(* Serial numbers *)

Sns == 0 .. SnModulus - 1
Add(sn, n) == (sn + n) % SnModulus

\* _itimediff: the difference of two uint32 as an int32.
Diff(later, earlier) ==
    ((later - earlier + SnModulus \div 2) % SnModulus) - SnModulus \div 2

-----------------------------------------------------------------------------
(* The KCP object.  data is the fragment's place in its stream, which an   *)
(* entry of acklist remembers with its number.  fastack counts up to       *)
(* FastResend, the only value it is compared with.                         *)

IKCP_THRESH_INIT == 2
IKCP_THRESH_MIN == 2

NewKCP ==
    [snd_una |-> 0, snd_nxt |-> 0, rcv_nxt |-> 0, rmt_wnd |-> RcvWnd,
     cwnd |-> 0, ssthresh |-> IKCP_THRESH_INIT,
     ask_send |-> FALSE, ask_tell |-> FALSE, probing |-> FALSE,
     snd_queue |-> << >>, snd_buf |-> << >>,
     rcv_queue |-> << >>, rcv_buf |-> << >>, acklist |-> {}]

\* Mutant of wnd_unused: one more than there is.
wnd_unused_over(k) == RcvWnd - Len(k.rcv_queue) + 1

wnd_unused(k) == Max({0, RcvWnd - Len(k.rcv_queue)})
WaitSnd(k) == Len(k.snd_buf) + Len(k.snd_queue)

\* The index of the first element of a queue of segments with frg 0.
MessageEnd(q) == SelectInSeq(q, LAMBDA seg : seg.frg = 0)

\* PeekSize: whether all the fragments of the next message are there.
PeekSize(k) == k.rcv_queue # << >> /\ Len(k.rcv_queue) >= k.rcv_queue[1].frg + 1

\* Mutant of Movable: what is there is taken for next in order.
MovableAny(k, n) == Len(k.rcv_queue) + n <= RcvWnd

\* The loop that moves the segments next in order from rcv_buf to rcv_queue,
\* while the queue has room.
Movable(k, n) ==
    \A i \in 1..n : /\ k.rcv_buf[i].sn = Add(k.rcv_nxt, i - 1)
                    /\ Len(k.rcv_queue) + i - 1 < RcvWnd
MoveAvailable(k) ==
    LET n == Max({j \in 0..Len(k.rcv_buf) : Movable(k, j)})
    IN  [k EXCEPT !.rcv_queue = @ \o SubSeq(k.rcv_buf, 1, n),
                  !.rcv_buf = SubSeq(@, n + 1, Len(@)),
                  !.rcv_nxt = Add(@, n)]

\* Mutant of Send: the fragments are numbered down to one.
SendFromOne(k, data) ==
    [k EXCEPT !.snd_queue = @ \o
        [i \in 1..Len(data) |-> [frg |-> Len(data) - i + 1, data |-> data[i]]]]

Send(k, data) ==
    [k EXCEPT !.snd_queue = @ \o
        [i \in 1..Len(data) |-> [frg |-> Len(data) - i, data |-> data[i]]]]

\* Recv with a buffer that is large enough; fast recovery when a full queue
\* gets room.
Recv(k) ==
    LET n == MessageEnd(k.rcv_queue)
        k2 == MoveAvailable([k EXCEPT !.rcv_queue = SubSeq(@, n + 1, Len(@))])
    IN  [k2 EXCEPT !.ask_tell = @ \/ /\ Len(k.rcv_queue) >= RcvWnd
                                     /\ Len(k2.rcv_queue) < RcvWnd]
RecvData(k) ==
    [i \in 1..MessageEnd(k.rcv_queue) |-> k.rcv_queue[i].data]

-----------------------------------------------------------------------------
(* Input *)

\* Mutant of shrink_buf: what was sent counts as acknowledged.
shrink_buf_all(k) == [k EXCEPT !.snd_una = k.snd_nxt]

shrink_buf(k) ==
    [k EXCEPT !.snd_una = IF k.snd_buf = << >> THEN k.snd_nxt ELSE k.snd_buf[1].sn]

\* Mutant of parse_una: una itself is taken for acknowledged.
parse_una_over(k, u) ==
    LET n == Max({j \in 0..Len(k.snd_buf) :
                    \A i \in 1..j : Diff(u, k.snd_buf[i].sn) >= 0})
    IN  [k EXCEPT !.snd_buf = SubSeq(@, n + 1, Len(@)),
                  !.snd_una = Add(@, n)]

\* Mutant of parse_una: snd_una is set to what the packet says, however old.
parse_una_blind(k, u) ==
    LET n == Max({j \in 0..Len(k.snd_buf) :
                    \A i \in 1..j : Diff(u, k.snd_buf[i].sn) > 0})
    IN  [k EXCEPT !.snd_buf = SubSeq(@, n + 1, Len(@)), !.snd_una = u]

\* The segments before una are done.
parse_una(k, u) ==
    LET n == Max({j \in 0..Len(k.snd_buf) :
                    \A i \in 1..j : Diff(u, k.snd_buf[i].sn) > 0})
    IN  shrink_buf([k EXCEPT !.snd_buf = SubSeq(@, n + 1, Len(@))])

Overtaken(seg) ==
    [seg EXCEPT !.fastack = Min({FastResend, @ + 1})]

\* The segment sn is done; the ones before it were overtaken, or all when it
\* is no longer there.
parse_ack(k, sn) ==
    LET n == SelectInSeq(k.snd_buf, LAMBDA seg : seg.sn = sn)
        upto == IF n = 0 THEN Len(k.snd_buf) ELSE n - 1
        buf == [i \in DOMAIN k.snd_buf |->
                    IF i <= upto THEN Overtaken(k.snd_buf[i]) ELSE k.snd_buf[i]]
    IN  IF Diff(sn, k.snd_una) < 0 \/ Diff(sn, k.snd_nxt) >= 0
        THEN k
        ELSE shrink_buf([k EXCEPT !.snd_buf =
                            IF n = 0 THEN buf ELSE RemoveAt(buf, n)])

\* Insertion in order into rcv_buf, from its end, unless sn is there.
parse_data(k, seg) ==
    LET i == SelectLastInSeq(k.rcv_buf, LAMBDA x : Diff(seg.sn, x.sn) >= 0)
        repeat == i # 0 /\ k.rcv_buf[i].sn = seg.sn
        new == [sn |-> seg.sn, frg |-> seg.frg, data |-> seg.data]
    IN  MoveAvailable(IF repeat THEN k
                      ELSE [k EXCEPT !.rcv_buf = InsertAt(@, i + 1, new)])

\* A PUSH below the end of the window is acknowledged, and kept if it is new.
push(k, seg) ==
    LET acked == [k EXCEPT !.acklist = @ \cup {[sn |-> seg.sn, data |-> seg.data]}]
    IN  IF Diff(seg.sn, Add(k.rcv_nxt, RcvWnd)) >= 0 THEN k
        ELSE IF Diff(seg.sn, k.rcv_nxt) >= 0 THEN parse_data(acked, seg)
        ELSE acked

\* Growth of the congestion window when una has advanced.  Above ssthresh it
\* grows by one in one of about cwnd calls: grow says whether in this one.
\* With NoCwnd nobody reads cwnd and ssthresh, and they are left alone here.
grow_cwnd(k, grow) ==
    IF k.cwnd >= k.rmt_wnd \/ NoCwnd THEN k
    ELSE [k EXCEPT !.cwnd = IF @ < k.ssthresh \/ grow THEN @ + 1 ELSE @]

Input(k, seg, grow) ==
    LET k1 == parse_una([k EXCEPT !.rmt_wnd = seg.wnd], seg.una)
        k2 == CASE seg.cmd = "ACK" -> parse_ack(k1, seg.sn)
                [] seg.cmd = "PUSH" -> push(k1, seg)
                [] seg.cmd = "WASK" -> [k1 EXCEPT !.ask_tell = TRUE]
                [] seg.cmd = "WINS" -> k1
    IN  IF Diff(k2.snd_una, k.snd_una) > 0 THEN grow_cwnd(k2, grow) ELSE k2

-----------------------------------------------------------------------------
(* flush.  late is the set of sequence numbers whose resend time has come, *)
(* expired says whether the time of the window probe has.                  *)

\* Mutant of Admitted: the window is taken to include its end.
AdmittedOver(k, cwnd) ==
    Max({j \in 0..Len(k.snd_queue) :
            \A i \in 1..j : Diff(Add(k.snd_nxt, i - 1), Add(k.snd_una, cwnd)) <= 0})

\* The segments flush moves from snd_queue to snd_buf under the window cwnd.
Admitted(k, cwnd) ==
    Max({j \in 0..Len(k.snd_queue) :
            \A i \in 1..j : Diff(Add(k.snd_nxt, i - 1), Add(k.snd_una, cwnd)) < 0})

admit(k, cwnd) ==
    LET n == Admitted(k, cwnd)
        new == [i \in 1..n |->
                  [sn |-> Add(k.snd_nxt, i - 1), frg |-> k.snd_queue[i].frg,
                   data |-> k.snd_queue[i].data, xmit |-> FALSE, fastack |-> 0]]
    IN  [k EXCEPT !.snd_buf = @ \o new,
                  !.snd_queue = SubSeq(@, n + 1, Len(@)),
                  !.snd_nxt = Add(@, n)]

IsLate(seg, late) == seg.xmit /\ seg.sn \in late
IsFast(seg, late) ==
    /\ seg.xmit /\ seg.sn \notin late
    /\ FastResend > 0 /\ seg.fastack >= FastResend
NeedSend(seg, late) == ~seg.xmit \/ IsLate(seg, late) \/ IsFast(seg, late)

\* Sending a segment; only a fast resend forgets the count of its overtakers.
transmit(seg, late) ==
    [seg EXCEPT !.xmit = TRUE, !.fastack = IF IsFast(seg, late) THEN 0 ELSE @]

\* Mutant of probe_window: a closed window is waited for.
probe_window_never(k, expired) == [k EXCEPT !.probing = (k.rmt_wnd = 0)]

\* The probe of a closed window: armed first, asked for when its time came.
probe_window(k, expired) ==
    [k EXCEPT !.ask_send = @ \/ (k.rmt_wnd = 0 /\ k.probing /\ expired),
              !.probing = (k.rmt_wnd = 0)]

window(k) ==
    LET w == Min({SndWnd, k.rmt_wnd})
    IN  IF NoCwnd THEN w ELSE Min({k.cwnd, w})

\* ssthresh and cwnd after fast resends, after timeouts, and at least 1.
adapt_cwnd(k, cwnd, change, lost) ==
    LET inflight == Diff(k.snd_nxt, k.snd_una)
        fast == IF change THEN Max({inflight \div 2, IKCP_THRESH_MIN}) ELSE k.ssthresh
        slow == IF lost THEN Max({cwnd \div 2, IKCP_THRESH_MIN}) ELSE fast
    IN  IF NoCwnd THEN k
        ELSE [k EXCEPT !.ssthresh = slow,
                  !.cwnd = IF lost THEN 1
                           ELSE IF change THEN fast + FastResend
                           ELSE Max({1, @})]

\* What flush leaves and what it emits.
flush(k, late, expired) ==
    LET k1 == probe_window(k, expired)
        cwnd == window(k1)
        k2 == admit(k1, cwnd)
        buf == ToSet(k2.snd_buf)
        k3 == [k2 EXCEPT !.acklist = {}, !.ask_send = FALSE, !.ask_tell = FALSE,
                         !.snd_buf = [i \in DOMAIN @ |-> transmit(@[i], late)]]
    IN  adapt_cwnd(k3, cwnd, \E s \in buf : IsFast(s, late), \E s \in buf : IsLate(s, late))

Segment(k, cmd, sn, frg, data) ==
    [cmd |-> cmd, sn |-> sn, frg |-> frg, data |-> data,
     wnd |-> wnd_unused(k), una |-> k.rcv_nxt]

emitted(k, late, expired) ==
    LET k1 == probe_window(k, expired)
        k2 == admit(k1, window(k1))
    IN  {Segment(k, "ACK", a.sn, 0, a.data) : a \in k.acklist}
        \cup (IF k1.ask_send THEN {Segment(k, "WASK", 0, 0, 0)} ELSE {})
        \cup (IF k1.ask_tell THEN {Segment(k, "WINS", 0, 0, 0)} ELSE {})
        \cup {Segment(k, "PUSH", s.sn, s.frg, s.data) :
                s \in {x \in ToSet(k2.snd_buf) : NeedSend(x, late)}}

-----------------------------------------------------------------------------
(* The network and the users *)

\* A message as the users see it: its fragments, the last of them marked.
Marked(data) == [i \in DOMAIN data |-> [data |-> data[i], end |-> i = Len(data)]]

\* How many fragments of e were given a number, and how many e has in order.
Numbered(e) == Len(sent[e]) - Len(kcp[e].snd_queue)
Queued(e) == Len(got[e]) + Len(kcp[e].rcv_queue)

\* The packets to e that still live.  A packet remembers how far its sender
\* had received, and dies when the conversation is MaxLag further.
Fresh(e) ==
    {p \in net[e] :
        /\ Queued(Peer[e]) - p.queued <= MaxLag
        /\ p.seg.cmd = "PUSH" => Numbered(Peer[e]) - p.seg.data < SndWnd + MaxLag}

\* The segments of the queues and buffers, the KCP objects, and the segments
\* of the network.
QueueSegs == [frg : Nat, data : Nat]
SndSegs == [sn : Sns, frg : Nat, data : Nat, xmit : BOOLEAN, fastack : 0..FastResend]
RcvSegs == [sn : Sns, frg : Nat, data : Nat]
KCPs == [snd_una : Sns, snd_nxt : Sns, rcv_nxt : Sns, rmt_wnd : 0..RcvWnd,
         cwnd : Nat, ssthresh : Nat,
         ask_send : BOOLEAN, ask_tell : BOOLEAN, probing : BOOLEAN,
         snd_queue : Seq(QueueSegs), snd_buf : Seq(SndSegs),
         rcv_queue : Seq(RcvSegs), rcv_buf : Seq(RcvSegs),
         acklist : SUBSET [sn : Sns, data : Nat]]
Segments == [cmd : {"ACK", "PUSH", "WASK", "WINS"}, sn : Sns, frg : Nat, data : Nat,
             wnd : 0..RcvWnd, una : Sns]

TypeOK ==
    /\ kcp \in [Ends -> KCPs]
    /\ net \in [Ends -> SUBSET [seg : Segments, queued : Nat]]
    /\ sent \in [Ends -> Seq([data : Nat, end : BOOLEAN])]
    /\ got \in [Ends -> Seq([data : Nat, end : BOOLEAN])]
    /\ calm \in BOOLEAN

Init ==
    /\ kcp = [e \in Ends |-> NewKCP]
    /\ net = [e \in Ends |-> {}]
    /\ sent = [e \in Ends |-> << >>]
    /\ got = [e \in Ends |-> << >>]
    /\ calm = FALSE

\* The user of e sends a message of n fragments.  The reader saw WaitSnd below
\* five windows before the message went through the channel to the loop; that
\* says nothing of the queue now, and no guard stands for it.
UserSend(e, n) ==
    LET data == [i \in 1..n |-> Len(sent[e]) + i]
    IN  /\ WaitSnd(kcp[e]) <= MaxWait
        /\ Len(sent[e]) + n <= MaxSend[e]
        /\ kcp' = [kcp EXCEPT ![e] = Send(@, data)]
        /\ sent' = [sent EXCEPT ![e] = @ \o Marked(data)]
        /\ UNCHANGED <<net, got, calm>>

\* The user of e takes a whole message.
UserRecv(e) ==
    /\ PeekSize(kcp[e])
    /\ kcp' = [kcp EXCEPT ![e] = Recv(@)]
    /\ got' = [got EXCEPT ![e] = @ \o Marked(RecvData(kcp[e]))]
    /\ UNCHANGED <<net, sent, calm>>

\* A packet reaches e; while the network is not calm a copy may follow.
Arrive(e) ==
    /\ \E p \in Fresh(e), grow, again \in BOOLEAN :
        /\ kcp' = [kcp EXCEPT ![e] = Input(@, p.seg, grow)]
        /\ again => ~calm
        /\ grow => ~NoCwnd
        /\ net' = [net EXCEPT ![e] = IF again THEN @ ELSE @ \ {p}]
    /\ UNCHANGED <<sent, got, calm>>

\* Update calls flush.  What it emits and what is under way may get lost,
\* but not in a calm network, which delivers before the next flush.
Flush(e, late, expired) ==
    LET out == {[seg |-> s, queued |-> Queued(e)] : s \in emitted(kcp[e], late, expired)}
    IN  /\ kcp' = [kcp EXCEPT ![e] = flush(@, late, expired)]
        /\ \/ /\ calm
              /\ Fresh(Peer[e]) = {}
              /\ net' = [net EXCEPT ![Peer[e]] = out]
           \/ /\ ~calm
              /\ \E kept \in SUBSET (Fresh(Peer[e]) \cup out) :
                    /\ Cardinality(kept) <= MaxNet[Peer[e]]
                    /\ net' = [net EXCEPT ![Peer[e]] = kept]
        /\ UNCHANGED <<sent, got, calm>>

AllSent(e) == {s.sn : s \in {x \in ToSet(kcp[e].snd_buf) : x.xmit}}

Update(e) ==
    \E late \in SUBSET AllSent(e), expired \in BOOLEAN :
        /\ expired => kcp[e].probing
        /\ Flush(e, late, expired)

\* From some time on the network may work well.
GetCalm == MayCalm /\ ~calm /\ calm' = TRUE /\ UNCHANGED <<kcp, net, sent, got>>

Next ==
    \/ \E e \in Ends, n \in 1..MaxFrag : UserSend(e, n)
    \/ \E e \in Ends : UserRecv(e)
    \/ \E e \in Ends : Arrive(e)
    \/ \E e \in Ends : Update(e)
    \/ GetCalm

Spec == Init /\ [][Next]_vars

\* Packets of a calm network arrive, Update is called every 10 ms, resend
\* and probe times come, and the user takes what is there.
Fairness ==
    \A e \in Ends :
        /\ WF_vars(Arrive(e))
        /\ WF_vars(Flush(e, AllSent(e), TRUE))
        /\ WF_vars(UserRecv(e))

FairSpec == Spec /\ Fairness

-----------------------------------------------------------------------------
(* Properties *)

DataOf(q) == {s.data : s \in ToSet(q)}

\* The messages taken at one end are the ones given at the other, whole,
\* once and in order, whatever the network did to the packets.
StreamIntact == \A e \in Ends : IsPrefix(got[e], sent[Peer[e]])

\* A fragment leaves the sender's buffers only when the receiver has it.
NothingForgotten ==
    \A e \in Ends :
        1..Len(sent[e]) =
            DataOf(kcp[e].snd_queue) \cup DataOf(kcp[e].snd_buf) \cup DataOf(got[Peer[e]])
            \cup DataOf(kcp[Peer[e]].rcv_queue) \cup DataOf(kcp[Peer[e]].rcv_buf)

\* The windows bound every buffer, and rcv_buf holds only segments of the
\* receive window, each once and in order.
WindowsHold ==
    \A e \in Ends :
        LET k == kcp[e]
            place == [i \in DOMAIN k.rcv_buf |-> Diff(k.rcv_buf[i].sn, k.rcv_nxt)]
        IN  /\ Len(k.snd_buf) <= SndWnd
            /\ Len(k.rcv_queue) <= RcvWnd
            /\ \A i \in DOMAIN place :
                /\ place[i] \in 0..RcvWnd - 1
                /\ \A j \in 1..i - 1 : place[j] < place[i]

\* The reader of a conversation is never stuck with a full queue that holds
\* no whole message.
QueueReadable ==
    \A e \in Ends : Len(kcp[e].rcv_queue) >= RcvWnd => PeekSize(kcp[e])

\* Once the network works, everything given is taken and acknowledged, even
\* if the window was closed or the packet that reopened it was lost.
Delivered(e) == got[Peer[e]] = sent[e] /\ WaitSnd(kcp[e]) = 0
EventuallyDelivered == \A e \in Ends : calm ~> Delivered(e)

\* The segments in rcv_buf that only wait for room in rcv_queue.
Held(k) == Max({j \in 0..Len(k.rcv_buf) :
                    \A i \in 1..j : k.rcv_buf[i].sn = Add(k.rcv_nxt, i - 1)})

\* The detailed protocol keeps the promise of KcpStream.
Stream == INSTANCE KcpStream WITH
    snd <- [e \in Ends |-> Len(sent[e])],
    una <- [e \in Ends |-> Numbered(e) - Diff(kcp[e].snd_nxt, kcp[e].snd_una)],
    rcv <- [e \in Ends |-> Queued(e) + Held(kcp[e])],
    read <- [e \in Ends |-> Len(got[e])]
ImplementsStream == Stream!StreamSpec
=============================================================================
