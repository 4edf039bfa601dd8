---------------------------- MODULE ENetChannel ----------------------------
(***************************************************************************)
(* One channel of an established ENet connection, in one direction: the    *)
(* sending peer numbers packets and repeats them until they are            *)
(* acknowledged, the receiving peer puts them back in order.  Packets are  *)
(* reliable (whole or in two fragments), unreliable or unsequenced.        *)
(*                                                                         *)
(* A packet is its place in the application's script.  Every command       *)
(* travels alone, so a datagram that loses several commands is several     *)
(* losses; clocks are left out, so a sent command may expire at any time.  *)
(* The numbers wrap at Windows * WindowSize, in the code 16 * 0x1000; the  *)
(* connection is idle after Start packets, so that the wrap is near.       *)
(***************************************************************************)
EXTENDS Integers, Sequences, FiniteSets, SequencesExt

CONSTANTS
    Scripts,         \* the sequences of packet kinds an application may send
    Start,           \* the number of the last packet of the past
    Windows,         \* ENET_PEER_RELIABLE_WINDOWS
    FreeWindows,     \* ENET_PEER_FREE_RELIABLE_WINDOWS
    WindowSize,      \* ENET_PEER_RELIABLE_WINDOW_SIZE
    UnseqWindow,     \* ENET_PEER_UNSEQUENCED_WINDOW_SIZE
    FreeUnseq,       \* ENET_PEER_FREE_UNSEQUENCED_WINDOWS
    UnreliableLimit, \* the unreliable number that is not exceeded, 0xFFFF
    MaxTransit,      \* what the flow window lets be in transit, in fragments
    MaxWaiting,      \* host->maximumWaitingData, in packets
    MaxBacklog,      \* bound: packets are given while fewer commands wait
    NetCap,          \* bound: commands on the way at a time
    AckCap           \* bound: acknowledgements on the way at a time

ASSUME WindowsAssumption ==
    /\ FreeWindows \in Nat /\ Windows = 2 * FreeWindows /\ FreeWindows >= 3
    /\ WindowSize \in Nat \ {0}
    /\ Start \in 0..Windows * WindowSize - 1

ASSUME LimitsAssumption ==
    /\ UnseqWindow \in Nat \ {0} /\ FreeUnseq \in Nat \ {0}
    /\ UnreliableLimit \in Nat /\ MaxTransit \in Nat /\ MaxWaiting \in Nat

ASSUME ScriptsAssumption ==
    Scripts \subseteq Seq({"reliable", "fragments", "unreliable", "unsequenced"})

Numbers == Windows * WindowSize
\* Mutant of Next16: no wrap.
NextWide(n) == n + 1

Next16(n) == (n + 1) % Numbers
WindowOf(n) == n \div WindowSize
UnseqNumbers == 2 * FreeUnseq * UnseqWindow

VARIABLES
    script,     \* what the application sends
    submitted,  \* how many packets it has given to enet_peer_send
    numbers,    \* the sender's outgoing numbers: reliable, unreliable, group
    outgoing,   \* outgoingReliableCommands, each with tried = sendAttempts > 0
    sent,       \* sentReliableCommands
    unreliable, \* outgoingUnreliableCommands
    windows,    \* reliableWindows
    used,       \* usedReliableWindows
    inTransit,  \* reliableDataInTransit
    net,        \* commands on the way to the receiver
    acks,       \* acknowledgements on the way to the sender
    in,         \* the receiver's channel and unsequenced window
    dispatched, \* dispatchedCommands, as packets
    delivered,  \* what enet_peer_receive has returned
    stream      \* the packets that were sent as reliable ones

sender == <<submitted, stream, numbers, outgoing, sent, unreliable, windows, used, inTransit>>
receiver == <<in, dispatched, delivered>>
vars == <<script, sender, net, acks, receiver>>

Command(kind, rseq, useq, start, num, pkt) ==
    [kind |-> kind, rseq |-> rseq, useq |-> useq, start |-> start,
     num |-> num, pkt |-> pkt]

Init ==
    /\ script \in Scripts
    /\ submitted = 0 /\ stream = <<>>
    /\ numbers = [reliable |-> Start, unreliable |-> 0, group |-> 0]
    /\ outgoing = <<>> /\ sent = <<>> /\ unreliable = <<>>
    /\ windows = [w \in 0..Windows - 1 |-> 0] /\ used = {} /\ inTransit = 0
    /\ net = {} /\ acks = {}
    /\ in = [rseq |-> Start, useq |-> 0, reliable |-> <<>>, unreliable |-> <<>>,
             group |-> 0, seen |-> {}]
    /\ dispatched = <<>> /\ delivered = <<>>

-----------------------------------------------------------------------------
(* The sender.                                                             *)

\* enet_peer_setup_outgoing_command: a reliable command takes the next number
\* of the channel and restarts the unreliable numbers; its packet pkt is cut
\* into n commands that name the number of the first.
SetupReliable(pkt, n) ==
    LET first == Next16(numbers.reliable)
        number(i) == (numbers.reliable + i) % Numbers
        kind == IF n = 1 THEN "RELIABLE" ELSE "FRAGMENT"
        command(i) == [tried |-> FALSE,
                       cmd |-> Command(kind, number(i), 0, first, i, pkt)]
    IN  /\ outgoing' = outgoing \o [i \in 1..n |-> command(i)]
        /\ numbers' = [numbers EXCEPT !.reliable = number(n), !.unreliable = 0]
        /\ stream' = Append(stream, pkt)
        /\ UNCHANGED unreliable

SetupUnreliable(pkt) ==
    /\ numbers' = [numbers EXCEPT !.unreliable = @ + 1]
    /\ unreliable' = Append(unreliable,
           Command("UNRELIABLE", numbers.reliable, numbers.unreliable + 1, 0, 0, pkt))
    /\ UNCHANGED <<outgoing, stream>>

SetupUnsequenced(pkt) ==
    /\ numbers' = [numbers EXCEPT !.group = (@ + 1) % UnseqNumbers]
    /\ unreliable' = Append(unreliable,
           Command("UNSEQUENCED", 0, numbers'.group, 0, 0, pkt))
    /\ UNCHANGED <<outgoing, stream>>

\* enet_peer_send: an unreliable packet whose number would wrap is sent as a
\* reliable one.
Send ==
    /\ submitted < Len(script)
    /\ Len(outgoing) + Len(unreliable) < MaxBacklog
    /\ submitted' = submitted + 1
    /\ LET kind == script[submitted + 1] IN
       \/ kind = "fragments"   /\ SetupReliable(submitted', 2)
       \/ kind = "reliable"    /\ SetupReliable(submitted', 1)
       \/ kind = "unsequenced" /\ SetupUnsequenced(submitted')
       \/ kind = "unreliable"  /\ numbers.unreliable >= UnreliableLimit
                               /\ SetupReliable(submitted', 1)
       \/ kind = "unreliable"  /\ numbers.unreliable < UnreliableLimit
                               /\ SetupUnreliable(submitted')
    /\ UNCHANGED <<script, sent, windows, used, inTransit, net, acks, receiver>>

\* A new command may not start a window while the window before it is full of
\* unacknowledged commands, or while one of the next FreeWindows is in use.
WindowWrap(o) ==
    LET w == WindowOf(o.cmd.rseq) IN
    /\ ~o.tried /\ o.cmd.rseq % WindowSize = 0
    /\ \/ windows[(w + Windows - 1) % Windows] >= WindowSize
       \/ \E i \in 0..FreeWindows - 1 : (w + i) % Windows \in used

\* A datagram does not outlive half the number space: what is still on the
\* way is at most Windows - FreeWindows windows behind a new command.
NotOutlived(n) ==
    \A old \in acks \cup {c.rseq : c \in {d \in net : d.kind # "UNSEQUENCED"}} :
        (n - old) % Numbers <= (Windows - FreeWindows) * WindowSize

\* The network takes a command, or loses it.
Transmit(c) ==
    \/ UNCHANGED net
    \/ Cardinality(net) < NetCap /\ net' = net \cup {c}

\* enet_protocol_send_reliable_outgoing_commands: the first command goes out
\* unless the number windows or the flow window hold it back, and then
\* everything behind it waits too.
SendReliable ==
    /\ outgoing # <<>>
    /\ LET o == Head(outgoing)
           w == WindowOf(o.cmd.rseq)
       IN  /\ ~WindowWrap(o)
           /\ inTransit + 1 <= MaxTransit
           /\ o.tried \/ NotOutlived(o.cmd.rseq)
           /\ IF o.tried THEN UNCHANGED <<windows, used>>
              ELSE /\ used' = used \cup {w}
                   /\ windows' = [windows EXCEPT ![w] = @ + 1]
           /\ outgoing' = Tail(outgoing)
           /\ sent' = Append(sent, o.cmd)
           /\ inTransit' = inTransit + 1
           /\ Transmit(o.cmd)
    /\ UNCHANGED <<script, submitted, stream, numbers, unreliable, acks, receiver>>

\* enet_protocol_send_unreliable_outgoing_commands: the throttle drops a
\* packet or lets it go; its counters are in module ENetRate.
SendUnreliable ==
    /\ unreliable # <<>>
    /\ unreliable' = Tail(unreliable)
    /\ Transmit(Head(unreliable))
    /\ UNCHANGED <<script, submitted, stream, numbers, outgoing, sent, windows, used,
                   inTransit, acks, receiver>>

\* enet_protocol_check_timeouts: the expired commands, all or one of those
\* that were sent, go back to the front of the outgoing ones.
CheckTimeouts ==
    \/ /\ sent # <<>>
       /\ outgoing' = [i \in DOMAIN sent |-> [tried |-> TRUE, cmd |-> sent[i]]] \o outgoing
       /\ sent' = <<>> /\ inTransit' = 0
       /\ UNCHANGED <<script, submitted, stream, numbers, unreliable, windows, used,
                      net, acks, receiver>>
    \/ \E i \in DOMAIN sent :
          /\ outgoing' = <<[tried |-> TRUE, cmd |-> sent[i]]>> \o outgoing
          /\ sent' = RemoveAt(sent, i) /\ inTransit' = inTransit - 1
          /\ UNCHANGED <<script, submitted, stream, numbers, unreliable, windows, used,
                         net, acks, receiver>>

\* The commands that enet_protocol_remove_sent_reliable_command looks at: the
\* sent ones, and of the outgoing ones those before the first never sent.
TriedCount == CHOOSE n \in 0..Len(outgoing) :
    /\ \A i \in 1..n : outgoing[i].tried
    /\ n < Len(outgoing) => ~outgoing[n + 1].tried

\* Mutant of ReleaseWindow: the window stays marked as used.
ReleaseWindowOnly(n) ==
    /\ windows' = [windows EXCEPT ![WindowOf(n)] = Max({0, @ - 1})]
    /\ UNCHANGED used

ReleaseWindow(n) ==
    LET w == WindowOf(n) IN
    IF windows[w] = 0 THEN UNCHANGED <<windows, used>>
    ELSE /\ windows' = [windows EXCEPT ![w] = @ - 1]
         /\ used' = IF windows'[w] = 0 THEN used \ {w} ELSE used

\* enet_protocol_handle_acknowledge and the removal of the command it names.
HandleAcknowledge(n) ==
    /\ acks' = acks \ {n}
    /\ LET inSent == {i \in DOMAIN sent : sent[i].rseq = n}
           inOut  == {i \in 1..TriedCount : outgoing[i].cmd.rseq = n}
       IN  \/ /\ inSent # {}
              /\ sent' = RemoveAt(sent, CHOOSE i \in inSent : TRUE)
              /\ inTransit' = inTransit - 1
              /\ ReleaseWindow(n) /\ UNCHANGED outgoing
           \/ /\ inSent = {} /\ inOut # {}
              /\ outgoing' = RemoveAt(outgoing, CHOOSE i \in inOut : TRUE)
              /\ ReleaseWindow(n) /\ UNCHANGED <<sent, inTransit>>
           \/ /\ inSent = {} /\ inOut = {}
              /\ UNCHANGED <<sent, outgoing, inTransit, windows, used>>
    /\ UNCHANGED <<script, submitted, stream, numbers, unreliable, net, receiver>>

-----------------------------------------------------------------------------
(* The receiver.                                                           *)

\* How many windows n is ahead of the one of the last number delivered.
Ahead(r, n) ==
    WindowOf(n) + (IF n < r.rseq THEN Windows ELSE 0) - WindowOf(r.rseq)
InWindow(r, n) == Ahead(r, n) \in 0..FreeWindows - 2

\* Where the search from the end of the reliable list stops for number n: the
\* place of the last command that is not after n, 0 when there is none.
Place(r, n) ==
    LET stops(e) == IF n >= r.rseq THEN e.rseq >= r.rseq /\ e.rseq <= n
                                   ELSE e.rseq >= r.rseq \/ e.rseq <= n
    IN  Max({0} \cup {i \in DOMAIN r.reliable : stops(r.reliable[i])})
Holds(r, n) == Place(r, n) > 0 /\ r.reliable[Place(r, n)].rseq = n

\* The same search in the unreliable list, by both numbers.
UnreliablePlace(r, n, u) ==
    LET after(e) == IF n >= r.rseq THEN e.rseq < r.rseq \/ e.rseq > n
                                   ELSE e.rseq < r.rseq /\ e.rseq > n
        stops(e) == ~after(e) /\ (e.rseq = n => e.useq <= u)
    IN  Max({0} \cup {i \in DOMAIN r.unreliable : stops(r.unreliable[i])})
UnreliableHolds(r, n, u) ==
    LET p == UnreliablePlace(r, n, u)
    IN  p > 0 /\ r.unreliable[p].rseq = n /\ r.unreliable[p].useq = u

Waiting(r) == Len(r.reliable) + Len(r.unreliable) + Len(dispatched)

Packets(list) == [i \in DOMAIN list |-> list[i].pkt]

\* The elements of list at the places P.
At(list, P) ==
    [k \in 1..Cardinality(P) |->
        list[CHOOSE i \in P : Cardinality({j \in P : j <= i}) = k]]

\* enet_peer_dispatch_incoming_unreliable_commands: the packets that follow
\* the last reliable one go to the application, those of windows gone by are
\* dropped, and the first of a window to come ends the search.
Unsequenced(e) == e.kind = "UNSEQUENCED"
Current(r, e) == ~Unsequenced(e) /\ e.rseq = r.rseq
Waits(r, e) == ~Unsequenced(e) /\ e.rseq # r.rseq /\ InWindow(r, e.rseq)
DispatchUnreliable(s) ==
    LET list == s.r.unreliable
        end == Min({Len(list) + 1} \cup {i \in DOMAIN list : Waits(s.r, list[i])})
        go == {i \in 1..end - 1 : Unsequenced(list[i]) \/ Current(s.r, list[i])}
        last == Max({0} \cup {i \in 1..end - 1 : Current(s.r, list[i])})
    IN  [s EXCEPT !.out = @ \o Packets(At(list, go)),
                  !.r.unreliable = SubSeq(list, end, Len(list)),
                  !.r.useq = IF last = 0 THEN @ ELSE list[last].useq]

\* enet_peer_dispatch_incoming_reliable_commands: the complete packets that
\* continue the stream, and then the unreliable ones they held back.
Complete(e) == e.count = 0 \/ Cardinality(e.got) = e.count
LastNumber(e) == (e.rseq + (IF e.count = 0 THEN 0 ELSE e.count - 1)) % Numbers
Continues(r, i) ==
    LET before == IF i = 1 THEN r.rseq ELSE LastNumber(r.reliable[i - 1])
    IN  Complete(r.reliable[i]) /\ r.reliable[i].rseq = Next16(before)
Ready(r) == Max({n \in 0..Len(r.reliable) : \A i \in 1..n : Continues(r, i)})
DispatchReliable(s) ==
    LET n == Ready(s.r)
        moved == [s EXCEPT !.out = @ \o Packets(SubSeq(s.r.reliable, 1, n)),
                           !.r.reliable = SubSeq(@, n + 1, Len(@)),
                           !.r.rseq = LastNumber(s.r.reliable[n]), !.r.useq = 0]
    IN  IF n = 0 THEN s
        ELSE IF moved.r.unreliable = <<>> THEN moved ELSE DispatchUnreliable(moved)

\* What a handler leaves: the channel, the packets it dispatched, and whether
\* it succeeded, so that the command is acknowledged.
Failed(r) == [r |-> r, out |-> <<>>, ok |-> FALSE]
Done(r)   == [r |-> r, out |-> <<>>, ok |-> TRUE]

Incoming(kind, c, rseq, count) ==
    [kind |-> kind, rseq |-> rseq, useq |-> c.useq, pkt |-> c.pkt,
     count |-> count, got |-> {}]

Insert(list, place, e) == InsertAt(list, place + 1, e)

\* enet_peer_queue_incoming_command for a reliable packet, whole or the first
\* fragment to come of one in count fragments.
QueueReliable(r, c, rseq, count) ==
    IF ~InWindow(r, rseq) \/ rseq = r.rseq \/ Holds(r, rseq)
    THEN IF count > 0 THEN Failed(r) ELSE Done(r)
    ELSE IF Waiting(r) >= MaxWaiting THEN Failed(r)
    ELSE DispatchReliable(Done(
           [r EXCEPT !.reliable =
               Insert(@, Place(r, rseq), Incoming(c.kind, c, rseq, count))]))

HandleSendReliable(r, c) == QueueReliable(r, c, c.rseq, 0)

\* enet_protocol_handle_send_fragment: of a packet in two fragments; the entry
\* at place p takes it.
TakeFragment(r, p, c) ==
    LET taken == [r EXCEPT !.reliable[p].got = @ \cup {c.num}]
    IN  IF c.num \in r.reliable[p].got \/ ~Complete(taken.reliable[p]) THEN Done(taken)
        ELSE DispatchReliable(Done(taken))

HandleSendFragment(r, c) ==
    LET queued == QueueReliable(r, c, c.start, 2)
    IN  IF ~InWindow(r, c.start) THEN Done(r)
        ELSE IF Holds(r, c.start)
        THEN IF r.reliable[Place(r, c.start)].kind # "FRAGMENT" THEN Failed(r)
             ELSE TakeFragment(r, Place(r, c.start), c)
        ELSE IF ~queued.ok THEN queued
        ELSE TakeFragment(queued.r, Place(queued.r, c.start), c)

\* Mutant of HandleSendUnreliable: an old number is not refused.
HandleAnyUnreliable(r, c) ==
    IF ~InWindow(r, c.rseq) \/ UnreliableHolds(r, c.rseq, c.useq) THEN Done(r)
    ELSE DispatchUnreliable(Done(
           [r EXCEPT !.unreliable = Insert(@, UnreliablePlace(r, c.rseq, c.useq),
                                     Incoming(c.kind, c, c.rseq, 0))]))

\* enet_protocol_handle_send_unreliable and its part of queue_incoming_command.
HandleSendUnreliable(r, c) ==
    IF \/ ~InWindow(r, c.rseq)
       \/ c.rseq = r.rseq /\ c.useq <= r.useq
       \/ UnreliableHolds(r, c.rseq, c.useq)
    THEN Done(r)
    ELSE IF Waiting(r) >= MaxWaiting THEN Failed(r)
    ELSE DispatchUnreliable(Done(
           [r EXCEPT !.unreliable = Insert(@, UnreliablePlace(r, c.rseq, c.useq),
                                     Incoming(c.kind, c, c.rseq, 0))]))

\* enet_protocol_handle_send_unsequenced: a group is accepted once, in a
\* window that moves with the newest.
HandleSendUnsequenced(r, c) ==
    LET index == c.useq % UnseqWindow
        ahead == c.useq + (IF c.useq < r.group THEN UnseqNumbers ELSE 0)
        moves == c.useq - index # r.group
        q == IF moves THEN [r EXCEPT !.group = c.useq - index, !.seen = {}] ELSE r
        queued == DispatchUnreliable(Done(
                    [q EXCEPT !.unreliable = Append(@, Incoming(c.kind, c, 0, 0))]))
    IN  IF ahead >= r.group + FreeUnseq * UnseqWindow THEN Done(r)
        ELSE IF ~moves /\ index \in r.seen THEN Done(r)
        ELSE IF Waiting(q) >= MaxWaiting THEN Failed(q)
        ELSE [queued EXCEPT !.r.seen = @ \cup {index}]

Handle(r, c) ==
    CASE c.kind = "RELIABLE"    -> HandleSendReliable(r, c)
      [] c.kind = "FRAGMENT"    -> HandleSendFragment(r, c)
      [] c.kind = "UNRELIABLE"  -> HandleSendUnreliable(r, c)
      [] c.kind = "UNSEQUENCED" -> HandleSendUnsequenced(r, c)

\* Mutant of Acknowledged: what was discarded is acknowledged too.
AcknowledgedAny(r, n) == n \in 0..Numbers - 1

\* enet_peer_queue_acknowledgement: a command just beyond the windows that
\* are accepted was discarded and must be sent again.
Acknowledged(r, n) == Ahead(r, n) \notin {FreeWindows - 1, FreeWindows}

\* enet_protocol_handle_incoming_commands: the command is handled, and
\* acknowledged when it asks for it and its handler did not fail.
HandleCommand(c) ==
    LET h == Handle(in, c) IN
    /\ net' = net \ {c}
    /\ in' = h.r
    /\ dispatched' = dispatched \o h.out
    /\ \/ /\ c.kind \in {"RELIABLE", "FRAGMENT"} /\ h.ok
          /\ Acknowledged(h.r, c.rseq)
          /\ \/ UNCHANGED acks
             \/ Cardinality(acks) < AckCap /\ acks' = acks \cup {c.rseq}
       \/ /\ c.kind \in {"RELIABLE", "FRAGMENT"} =>
                 ~(h.ok /\ Acknowledged(h.r, c.rseq))
          /\ UNCHANGED acks
    /\ UNCHANGED <<script, sender, delivered>>

\* enet_protocol_dispatch_incoming_commands and enet_peer_receive: the
\* application takes the next packet.
Receive ==
    /\ dispatched # <<>>
    /\ delivered' = Append(delivered, Head(dispatched))
    /\ dispatched' = Tail(dispatched)
    /\ UNCHANGED <<script, sender, net, acks, in>>

Next ==
    \/ Send \/ SendReliable \/ SendUnreliable \/ CheckTimeouts \/ Receive
    \/ \E n \in acks : HandleAcknowledge(n)
    \/ \E c \in net : HandleCommand(c)

Spec == Init /\ [][Next]_vars

-----------------------------------------------------------------------------
(* Properties.                                                             *)

Kind(p) == script[p]
Ordered(p) == Kind(p) # "unsequenced"
Arrived == SelectSeq(delivered \o dispatched, LAMBDA p : Contains(stream, p))
CommandsOf(p) == {i \in DOMAIN outgoing : outgoing[i].cmd.pkt = p}
            \cup {Len(outgoing) + i : i \in {j \in DOMAIN sent : sent[j].pkt = p}}

TypeOK ==
    /\ script \in Scripts /\ submitted \in 0..Len(script)
    /\ numbers.reliable \in 0..Numbers - 1 /\ numbers.unreliable \in 0..UnreliableLimit
    /\ windows \in [0..Windows - 1 -> Nat] /\ used \subseteq 0..Windows - 1
    /\ inTransit \in 0..MaxTransit
    /\ net \subseteq [kind : {"RELIABLE", "FRAGMENT", "UNRELIABLE", "UNSEQUENCED"},
                      rseq : 0..Numbers - 1, useq : Nat, start : 0..Numbers - 1,
                      num : 0..2, pkt : 1..Len(script)]
    /\ acks \subseteq 0..Numbers - 1 /\ in.rseq \in 0..Numbers - 1
    /\ Waiting(in) <= MaxWaiting

\* The counters by which peer.c and protocol.c hold the sender back agree with
\* its lists at every moment: each window counts its unacknowledged commands
\* that were sent, and the data in transit is that of the sent list.
CountersAgree ==
    LET tried == {i \in DOMAIN outgoing : outgoing[i].tried}
        in_(w) == Cardinality({i \in tried : WindowOf(outgoing[i].cmd.rseq) = w})
                + Cardinality({i \in DOMAIN sent : WindowOf(sent[i].rseq) = w})
    IN  /\ inTransit = Len(sent)
        /\ \A w \in 0..Windows - 1 : windows[w] = in_(w)
        /\ used = {w \in 0..Windows - 1 : windows[w] > 0}

\* A packet reaches the application at most once, and the packets that are not
\* unsequenced reach it in the order they were sent, reliable and unreliable
\* ones among each other, no reliable one left out before another.
SequencedOnce ==
    LET out == delivered \o dispatched
        ordered == SelectSeq(out, Ordered)
    IN  /\ \A i, j \in DOMAIN out : out[i] = out[j] => i = j
        /\ \A i, j \in DOMAIN ordered : i < j => ordered[i] < ordered[j]
        /\ \A i \in DOMAIN Arrived : Arrived[i] = stream[i]

\* The reliable packets are the stream of module KcpStream: they arrive once
\* and in order, and the sender forgets only what arrived, so no number of a
\* window is ever taken for one of the window that had it before.
Forgotten == {i \in DOMAIN stream : CommandsOf(stream[i]) = {}}
ForgottenUpTo == Max({n \in 0..Len(stream) : 1..n \subseteq Forgotten})
Reliable(packets) == Cardinality({i \in DOMAIN packets : Contains(stream, packets[i])})
Client(n) == [e \in {"client", "server"} |-> IF e = "client" THEN n ELSE 0]
Server(n) == [e \in {"client", "server"} |-> IF e = "server" THEN n ELSE 0]
Stream == INSTANCE KcpStream WITH
    snd <- Client(Len(stream)), una <- Client(ForgottenUpTo),
    rcv <- Server(Reliable(delivered \o dispatched)), read <- Server(Reliable(delivered))
ImplementsStream == Stream!StreamSpec
=============================================================================
