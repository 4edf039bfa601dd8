------------------------------ MODULE ENetPeer ------------------------------
(***************************************************************************)
(* The peers of two ENet hosts: how a connection is made, closed, reset    *)
(* and its peer used again, over a network that loses, repeats and         *)
(* reorders datagrams.  Both hosts serve their peers as enet_host_service  *)
(* does with an event to fill in, as enetpoll.cpp calls it: a connection   *)
(* and a disconnection that a datagram or a timeout completes are reported *)
(* at once, the others wait in the dispatch queue.                         *)
(*                                                                         *)
(* Clocks are left out: sent commands may expire at any time.  What a      *)
(* channel does with its packets is in module ENetChannel; here one packet *)
(* each way stands for them, and it carries the id of its connection.      *)
(***************************************************************************)
EXTENDS Integers, Sequences, FiniteSets, SequencesExt

CONSTANTS
    PeerCount,    \* host->peerCount, of each host, at least 1
    MaxConnects,  \* bound: calls of enet_host_connect
    MaxQuits,     \* bound: connections given up by an application or a timeout
    MaxExtras,    \* bound: datagrams lost or repeated, commands expired, pings
                  \* and rounds of bandwidth limits
    NetCap        \* bound: datagrams on the way

Hosts == {"client", "server"}
Other(h) == IF h = "client" THEN "server" ELSE "client"
Slots == 0..PeerCount - 1
NoPeer == PeerCount          \* ENET_PROTOCOL_MAXIMUM_PEER_ID
NoSession == 255
Live == {"CONNECTED", "DISCONNECT_LATER"}
States == Live \cup {"DISCONNECTED", "CONNECTING", "ACKNOWLEDGING_CONNECT",
                     "DISCONNECTING", "ACKNOWLEDGING_DISCONNECT", "ZOMBIE"}

VARIABLES
    host,    \* the two hosts: peers, dispatch queue, counters
    net,     \* the datagrams on the way
    app,     \* what each application believes of each of its peers
    quits,   \* how many connections were given up
    extras   \* how many of MaxExtras were used

vars == <<host, net, app, quits, extras>>

-----------------------------------------------------------------------------
(* Operators on a host H.                                                  *)

Fresh(outS, inS) ==
    [state |-> "DISCONNECTED", out_id |-> NoPeer, id |-> 0,
     outS |-> outS, inS |-> inS, rseq |-> 0,
     acks |-> <<>>, sent |-> <<>>, outgoing |-> <<>>, unreliable |-> <<>>,
     needs |-> FALSE, arrived |-> <<>>, dseq |-> 0, din |-> 0]

NewHost == [peers |-> [s \in Slots |-> Fresh(NoSession, NoSession)],
            queue |-> <<>>, recalc |-> FALSE, connected |-> 0, seed |-> 0]

\* enet_peer_on_connect and enet_peer_on_disconnect: connectedPeers counts the
\* peers that enter and leave the states of a connection.
Count(H, s, state) ==
    [H EXCEPT !.connected =
        @ + (IF state \in Live THEN 1 ELSE 0)
          - (IF H.peers[s].state \in Live THEN 1 ELSE 0)]

\* enet_protocol_change_state and enet_protocol_dispatch_state.
ChangeState(H, s, state) == [Count(H, s, state) EXCEPT !.peers[s].state = state]

Enqueue(H, s) ==
    IF H.peers[s].needs THEN H
    ELSE [H EXCEPT !.queue = Append(@, s), !.peers[s].needs = TRUE]

DispatchState(H, s, state) == Enqueue(ChangeState(H, s, state), s)

\* enet_peer_reset_queues.
ResetQueues(H, s) ==
    [H EXCEPT !.queue = SelectSeq(@, LAMBDA t : t # s \/ ~H.peers[s].needs),
              !.peers[s] = [@ EXCEPT !.needs = FALSE, !.acks = <<>>, !.sent = <<>>,
                                     !.outgoing = <<>>, !.unreliable = <<>>,
                                     !.arrived = <<>>]]

\* Mutant of Reset: the count of connected peers is forgotten.
ResetUncounted(H, s) ==
    [ResetQueues(H, s) EXCEPT !.peers[s] = Fresh(H.peers[s].outS, H.peers[s].inS)]

\* enet_peer_reset: all but the sessions starts again.
Reset(H, s) ==
    [ResetQueues(Count(H, s, "DISCONNECTED"), s)
        EXCEPT !.peers[s] = Fresh(H.peers[s].outS, H.peers[s].inS)]

\* enet_peer_queue_outgoing_command for channel 0xFF: the command takes the
\* next number of the peer; the unsequenced one is not acknowledged.
Queue(H, s, kind, body) ==
    LET n == H.peers[s].rseq + 1
        command == [kind |-> kind, chan |-> "peer", seq |-> n, body |-> body]
    IN  IF kind = "DISCONNECT_UNSEQUENCED"
        THEN [H EXCEPT !.peers[s].rseq = n, !.peers[s].unreliable = Append(@, command)]
        ELSE [H EXCEPT !.peers[s].rseq = n, !.peers[s].outgoing = Append(@, command)]

Drained(p) == p.outgoing = <<>> /\ p.unreliable = <<>> /\ p.sent = <<>>

NoBody == [id |-> 0, peer |-> NoPeer, inS |-> 0, outS |-> 0]

\* What a call leaves: the host, the datagrams it sent and, for the handlers,
\* the event it reports.
NoEvent == [type |-> "NONE", slot |-> 0, id |-> 0]
Event(type, s, id) == [type |-> type, slot |-> s, id |-> id]
Step(H) == [H |-> H, out |-> {}, event |-> NoEvent]

Datagram(h, p, cmds) ==
    [to |-> Other(h), slot |-> p.out_id,
     session |-> IF p.out_id = NoPeer THEN 0 ELSE p.outS, cmds |-> cmds]

\* enet_protocol_send_outgoing_commands for one peer that no timeout closes:
\* the acknowledgements, then the commands; the acknowledgement of a
\* disconnection makes the peer a zombie.
Acknowledge(H, s) ==
    LET p == H.peers[s]
        done == [H EXCEPT !.peers[s].acks = <<>>]
    IN  IF \E i \in DOMAIN p.acks : p.acks[i].kind = "DISCONNECT"
        THEN DispatchState(done, s, "ZOMBIE") ELSE done

Transmit(h, H, s) ==
    LET p == H.peers[s]
        acks == [i \in DOMAIN p.acks |->
                   [kind |-> "ACK", chan |-> p.acks[i].chan, seq |-> p.acks[i].seq,
                    body |-> NoBody]]
        cmds == acks \o p.outgoing \o p.unreliable
        sent == [Acknowledge(H, s) EXCEPT !.peers[s].sent = @ \o p.outgoing,
                                          !.peers[s].outgoing = <<>>,
                                          !.peers[s].unreliable = <<>>]
    IN  IF p.state \in {"DISCONNECTED", "ZOMBIE"} \/ cmds = <<>> THEN Step(H)
        ELSE [H |-> sent, out |-> {Datagram(h, p, cmds)}, event |-> NoEvent]

\* enet_host_flush: every peer in turn.
Flush(h, H) ==
    FoldLeft(LAMBDA acc, s :
                LET t == Transmit(h, acc.H, s)
                IN  [t EXCEPT !.out = @ \cup acc.out],
             Step(H), [i \in 1..PeerCount |-> i - 1])

\* enet_peer_disconnect.
Disconnect(h, H, s) ==
    LET state == H.peers[s].state
        flushed == Flush(h, Queue(ResetQueues(H, s), s, "DISCONNECT_UNSEQUENCED", NoBody))
    IN  IF state \in {"DISCONNECTING", "DISCONNECTED", "ACKNOWLEDGING_DISCONNECT", "ZOMBIE"}
        THEN Step(H)
        ELSE IF state \in Live
        THEN Step(ChangeState(Queue(ResetQueues(H, s), s, "DISCONNECT", NoBody),
                              s, "DISCONNECTING"))
        ELSE [flushed EXCEPT !.H = Reset(flushed.H, s)]

\* enet_peer_disconnect_now.
DisconnectNow(h, H, s) ==
    LET flushed == Flush(h, Queue(ResetQueues(H, s), s, "DISCONNECT_UNSEQUENCED", NoBody))
    IN  IF H.peers[s].state = "DISCONNECTED" THEN Step(H)
        ELSE IF H.peers[s].state \in {"ZOMBIE", "DISCONNECTING"} THEN Step(Reset(H, s))
        ELSE [flushed EXCEPT !.H = Reset(flushed.H, s)]

\* Mutant of DisconnectLater: also when nothing is left to send.
DisconnectAlwaysLater(h, H, s) ==
    IF H.peers[s].state \in Live
    THEN Step([H EXCEPT !.peers[s].state = "DISCONNECT_LATER"])
    ELSE Disconnect(h, H, s)

\* enet_peer_disconnect_later.
DisconnectLater(h, H, s) ==
    IF H.peers[s].state \in Live /\ ~Drained(H.peers[s])
    THEN Step([H EXCEPT !.peers[s].state = "DISCONNECT_LATER"])
    ELSE Disconnect(h, H, s)

\* A connection that was to be closed later is closed once all was sent and
\* acknowledged.
CloseIfDrained(h, step, s) ==
    IF step.H.peers[s].state = "DISCONNECT_LATER" /\ Drained(step.H.peers[s])
    THEN [step EXCEPT !.H = Disconnect(h, step.H, s).H] ELSE step

\* enet_protocol_notify_connect and enet_protocol_notify_disconnect, with an
\* event to fill in.
NotifyConnect(H, s) ==
    [Step([ChangeState(H, s, "CONNECTED") EXCEPT !.recalc = TRUE])
        EXCEPT !.event = Event("CONNECT", s, H.peers[s].id)]

\* Mutant of NotifyDisconnect: also of a connection that was never reported.
NotifyAnyDisconnect(H, s) ==
    IF H.peers[s].state = "DISCONNECTED" THEN Step(Reset(H, s))
    ELSE [Step(Reset(H, s)) EXCEPT !.event = Event("DISCONNECT", s, H.peers[s].id)]

NotifyDisconnect(H, s) ==
    LET p == H.peers[s]
        marked == [H EXCEPT !.recalc = @ \/ p.state \notin
                       {"DISCONNECTED", "CONNECTING", "ACKNOWLEDGING_CONNECT"}]
    IN  IF p.state \in {"DISCONNECTED", "ACKNOWLEDGING_CONNECT"}
        THEN Step(Reset(H, s))
        ELSE [Step(Reset(marked, s)) EXCEPT !.event = Event("DISCONNECT", s, p.id)]

-----------------------------------------------------------------------------
(* The commands of a datagram, for the peer s of host h.                   *)

Failed(H) == [Step(H) EXCEPT !.event = Event("ERROR", 0, 0)]

\* Mutant of NextSession: each connection begins the sessions again.
FirstSession(proposed, own) == 0

\* The session that answers the one proposed: the next one, and not the own.
NextSession(proposed, own) ==
    LET next == ((IF proposed = NoSession THEN own ELSE proposed) + 1) % 4
    IN  IF next = own THEN (next + 1) % 4 ELSE next

\* enet_protocol_handle_connect: the first free peer, unless the connection
\* has a peer already.
HandleConnect(H, body) ==
    LET free == {s \in Slots : H.peers[s].state = "DISCONNECTED"}
        known == \E s \in Slots : /\ H.peers[s].state \notin {"DISCONNECTED", "CONNECTING"}
                                  /\ H.peers[s].id = body.id
        s == Min(free)
        outS == NextSession(body.inS, H.peers[s].outS)
        inS == NextSession(body.outS, H.peers[s].inS)
        taken == [H EXCEPT !.peers[s] =
                    [@ EXCEPT !.state = "ACKNOWLEDGING_CONNECT", !.id = body.id,
                              !.out_id = body.peer, !.outS = outS, !.inS = inS]]
    IN  IF free = {} \/ known THEN Failed(H)
        ELSE Step(Queue(taken, s, "VERIFY_CONNECT",
                        [id |-> body.id, peer |-> s, inS |-> outS, outS |-> inS]))

\* enet_protocol_remove_sent_reliable_command.
RemoveSent(H, s, chan, seq) ==
    LET p == H.peers[s]
        other(c) == ~(c.chan = chan /\ c.seq = seq)
    IN  IF \E i \in DOMAIN p.sent : ~other(p.sent[i])
        THEN [H EXCEPT !.peers[s].sent = SelectSeq(@, other)]
        ELSE H
Removed(H, s, chan, seq) ==
    LET p == H.peers[s].sent
        hit == {i \in DOMAIN p : p[i].chan = chan /\ p[i].seq = seq}
    IN  IF hit = {} THEN "NONE" ELSE p[CHOOSE i \in hit : TRUE].kind

HandleVerifyConnect(H, s, body) ==
    LET p == H.peers[s]
        verified == [RemoveSent(H, s, "peer", 1) EXCEPT !.peers[s] =
                        [@ EXCEPT !.out_id = body.peer, !.inS = body.inS, !.outS = body.outS]]
    IN  IF p.state # "CONNECTING" THEN Step(H)
        ELSE IF body.id # p.id
        THEN [Failed(DispatchState(H, s, "ZOMBIE")) EXCEPT !.out = {}]
        ELSE NotifyConnect(verified, s)

\* enet_protocol_handle_disconnect; asked says that it wants to be
\* acknowledged.
HandleDisconnect(H, s, asked) ==
    LET state == H.peers[s].state
        cleared == ResetQueues(H, s)
    IN  IF state \in {"DISCONNECTED", "ZOMBIE", "ACKNOWLEDGING_DISCONNECT"} THEN Step(H)
        ELSE IF state \in {"DISCONNECTING", "CONNECTING"}
        THEN Step(DispatchState(cleared, s, "ZOMBIE"))
        ELSE IF state \notin Live THEN Step(Reset(cleared, s))
        ELSE IF asked THEN Step(ChangeState(cleared, s, "ACKNOWLEDGING_DISCONNECT"))
        ELSE Step(DispatchState(cleared, s, "ZOMBIE"))

\* enet_protocol_handle_acknowledge.
HandleAcknowledge(h, H, s, c) ==
    LET state == H.peers[s].state
        kind == Removed(H, s, c.chan, c.seq)
        rest == RemoveSent(H, s, c.chan, c.seq)
    IN  CASE state \in {"DISCONNECTED", "ZOMBIE"} -> Step(H)
          [] state = "ACKNOWLEDGING_CONNECT" ->
                IF kind = "VERIFY_CONNECT" THEN NotifyConnect(rest, s) ELSE Failed(rest)
          [] state = "DISCONNECTING" ->
                IF kind = "DISCONNECT" THEN NotifyDisconnect(rest, s) ELSE Failed(rest)
          [] OTHER -> CloseIfDrained(h, Step(rest), s)

\* A packet: enet_protocol_handle_send_reliable, and of the channel that a
\* number comes once; a connection that is to be closed takes no more.
HandleData(H, s, c) ==
    LET p == H.peers[s] IN
    IF p.state \notin Live THEN Failed(H)
    ELSE IF p.state = "DISCONNECT_LATER" \/ c.seq <= p.din THEN Step(H)
    ELSE Step(Enqueue([H EXCEPT !.peers[s].din = c.seq,
                                !.peers[s].arrived = Append(@, c.body.id)], s))

\* enet_protocol_handle_ping, enet_protocol_handle_bandwidth_limit.
HandlePing(H, s) == IF H.peers[s].state \in Live THEN Step(H) ELSE Failed(H)

\* The acknowledgement that follows a command, by the state it left.
Asks(c) == c.kind \notin {"ACK", "DISCONNECT_UNSEQUENCED"}
QueueAck(H, s, c) ==
    LET state == H.peers[s].state IN
    IF \/ state \in {"DISCONNECTING", "ACKNOWLEDGING_CONNECT", "DISCONNECTED", "ZOMBIE"}
       \/ state = "ACKNOWLEDGING_DISCONNECT" /\ c.kind # "DISCONNECT"
    THEN H
    ELSE [H EXCEPT !.peers[s].acks =
              Append(@, [kind |-> c.kind, chan |-> c.chan, seq |-> c.seq])]

HandleCommand(h, H, s, c) ==
    CASE c.kind = "ACK"            -> HandleAcknowledge(h, H, s, c)
      [] c.kind = "CONNECT"        -> Failed(H)
      [] c.kind = "VERIFY_CONNECT" -> HandleVerifyConnect(H, s, c.body)
      [] c.kind = "DISCONNECT"     -> HandleDisconnect(H, s, TRUE)
      [] c.kind = "DISCONNECT_UNSEQUENCED" -> HandleDisconnect(H, s, FALSE)
      [] c.kind = "DATA"           -> HandleData(H, s, c)
      [] c.kind \in {"PING", "BANDWIDTH_LIMIT"} -> HandlePing(H, s)

\* enet_protocol_handle_incoming_commands for a peer of its own: the commands
\* in their order, until one fails.
HandleCommands(h, H, s, cmds) ==
    LET step(acc, c) ==
            LET r == HandleCommand(h, acc.H, s, c)
                failed == r.event.type = "ERROR"
                event == IF r.event.type \in {"NONE", "ERROR"} THEN acc.event ELSE r.event
            IN  IF acc.over THEN acc
                ELSE [H |-> IF Asks(c) /\ ~failed THEN QueueAck(r.H, s, c) ELSE r.H,
                      event |-> event, over |-> failed]
        all == FoldLeft(step, [H |-> H, event |-> NoEvent, over |-> FALSE], cmds)
    IN  [H |-> all.H, out |-> {}, event |-> all.event]

\* Mutant of Accepts: the session is not compared.
AcceptsAny(p, session) == p.state \notin {"DISCONNECTED", "ZOMBIE"}

\* Whether a datagram belongs to the peer it names.
Accepts(p, session) ==
    /\ p.state \notin {"DISCONNECTED", "ZOMBIE"}
    /\ p.out_id < NoPeer => session = p.inS

-----------------------------------------------------------------------------
(* The actions.                                                            *)

Init ==
    /\ host = [h \in Hosts |-> NewHost]
    /\ net = {}
    /\ app = [h \in Hosts |-> [s \in Slots |-> "none"]]
    /\ quits = 0
    /\ extras = 0

\* What the application makes of an event: "wrong" is an event that it could
\* not expect.
Told(h, event) ==
    LET s == event.slot
        now == app[h][s]
        next == CASE event.type = "CONNECT" -> IF now = "up" THEN "wrong" ELSE "up"
                  [] event.type = "DISCONNECT" -> IF now = "none" THEN "wrong" ELSE "none"
                  [] event.type = "RECEIVE" -> IF now = "up" THEN "up" ELSE "wrong"
    IN  IF event.type = "NONE" THEN UNCHANGED app
        ELSE app' = [app EXCEPT ![h][s] = next]

\* The datagrams of a step are on the way.
Send(out) == Cardinality(net \cup out) <= NetCap /\ net' = net \cup out
Extra == extras < MaxExtras /\ extras' = extras + 1

Perform(h, step) ==
    /\ host' = [host EXCEPT ![h] = step.H]
    /\ Send(step.out)
    /\ Told(h, step.event)

\* enet_host_connect: the first free peer; without one the call fails.
Connect ==
    LET H == host["client"]
        free == {s \in Slots : H.peers[s].state = "DISCONNECTED"}
        s == Min(free)
        p == H.peers[s]
        begun == [H EXCEPT !.seed = @ + 1,
                           !.peers[s] = [@ EXCEPT !.state = "CONNECTING", !.id = H.seed + 1]]
    IN  /\ H.seed < MaxConnects /\ free # {}
        /\ host' = [host EXCEPT !["client"] =
               Queue(begun, s, "CONNECT",
                     [id |-> H.seed + 1, peer |-> s, inS |-> p.inS, outS |-> p.outS])]
        /\ app' = [app EXCEPT !["client"][s] = "pending"]
        /\ UNCHANGED <<net, quits, extras>>

\* enet_peer_send of the one packet of a connection.
PeerSend(h, s) ==
    LET p == host[h].peers[s] IN
    /\ app[h][s] = "up" /\ p.state = "CONNECTED" /\ p.dseq = 0
    /\ host' = [host EXCEPT ![h].peers[s] =
           [@ EXCEPT !.dseq = 1,
                     !.outgoing = Append(@, [kind |-> "DATA", chan |-> "data", seq |-> 1,
                                             body |-> [NoBody EXCEPT !.id = p.id]])]]
    /\ UNCHANGED <<net, app, quits, extras>>

\* The application closes a peer; when no event will follow it is done with it.
Close(h, s) ==
    /\ app[h][s] \in {"pending", "up"} /\ quits < MaxQuits
    /\ quits' = quits + 1
    /\ \E step \in {Disconnect(h, host[h], s), DisconnectNow(h, host[h], s),
                    DisconnectLater(h, host[h], s), Step(Reset(host[h], s))} :
          /\ step.H # host[h]
          /\ host' = [host EXCEPT ![h] = step.H]
          /\ Send(step.out)
          /\ app' = IF step.H.peers[s].state = "DISCONNECTED"
                    THEN [app EXCEPT ![h][s] = "none"] ELSE app
    /\ UNCHANGED extras

\* enet_protocol_send_outgoing_commands for one peer, after the sent commands
\* that expired went back to the front.
Expire(H, s) ==
    [H EXCEPT !.peers[s].outgoing = H.peers[s].sent \o @, !.peers[s].sent = <<>>]

SendOutgoing(h, s) ==
    \E H \in {host[h], Expire(host[h], s)} :
        /\ IF H = host[h] THEN UNCHANGED extras ELSE Extra
        /\ H.peers[s].acks # <<>> \/ H.peers[s].outgoing # <<>> \/ H.peers[s].unreliable # <<>>
        /\ H.peers[s].state \notin {"DISCONNECTED", "ZOMBIE"}
        /\ Perform(h, CloseIfDrained(h, Transmit(h, H, s), s))
        /\ UNCHANGED quits

\* enet_protocol_check_timeouts gives the peer up; its acknowledgements were
\* taken from their list and are not sent.
GiveUp(h, s) ==
    /\ host[h].peers[s].state \notin {"DISCONNECTED", "ZOMBIE"}
    /\ host[h].peers[s].sent # <<>> /\ quits < MaxQuits
    /\ quits' = quits + 1
    /\ Perform(h, NotifyDisconnect(Acknowledge(host[h], s), s))
    /\ UNCHANGED extras

\* The ping of an idle connection.
Ping(h, s) ==
    LET p == host[h].peers[s] IN
    /\ p.state = "CONNECTED" /\ p.outgoing = <<>> /\ p.sent = <<>> /\ Extra
    /\ Perform(h, Transmit(h, Queue(host[h], s, "PING", NoBody), s))
    /\ UNCHANGED quits

\* enet_host_bandwidth_throttle: after a connection or a disconnection the
\* limits are told to every connected peer.
BandwidthThrottle(h) ==
    LET tell(H, s) == IF H.peers[s].state \in Live
                      THEN Queue(H, s, "BANDWIDTH_LIMIT", NoBody) ELSE H
    IN  /\ host[h].recalc /\ host[h].connected > 0 /\ Extra
        /\ host' = [host EXCEPT ![h] =
               FoldLeft(tell, [host[h] EXCEPT !.recalc = FALSE],
                        [i \in 1..PeerCount |-> i - 1])]
        /\ UNCHANGED <<net, app, quits>>

\* A datagram is lost.
Lose(d) ==
    /\ Extra
    /\ net' = net \ {d}
    /\ UNCHANGED <<host, app, quits>>

\* enet_protocol_receive_incoming_commands: one datagram, which may come again.
ReceiveIncoming(d) ==
    LET h == d.to
        H == host[h]
        step == IF d.slot = NoPeer
                THEN IF d.cmds[1].kind # "CONNECT" THEN Step(H)
                     ELSE [HandleConnect(H, d.cmds[1].body) EXCEPT !.event = NoEvent]
                ELSE IF ~Accepts(H.peers[d.slot], d.session) THEN Step(H)
                ELSE HandleCommands(h, H, d.slot, d.cmds)
    IN  /\ host' = [host EXCEPT ![h] = step.H]
        /\ \/ net' = net \ {d} /\ UNCHANGED extras
           \/ net' = net /\ Extra
        /\ Told(h, step.event)
        /\ UNCHANGED quits

\* enet_protocol_dispatch_incoming_commands: the first peer of the queue.
Dispatch(h) ==
    LET H == host[h]
        s == Head(H.queue)
        p == H.peers[s]
        popped == [H EXCEPT !.queue = Tail(@), !.peers[s].needs = FALSE]
        taken == [popped EXCEPT !.peers[s].arrived = Tail(@)]
    IN  /\ H.queue # <<>>
        /\ \/ /\ p.state = "ZOMBIE"
              /\ Perform(h, [Step([Reset(popped, s) EXCEPT !.recalc = TRUE])
                                EXCEPT !.event = Event("DISCONNECT", s, p.id)])
           \/ /\ p.state = "CONNECTED" /\ p.arrived # <<>>
              /\ Perform(h, [Step(IF Len(p.arrived) > 1 THEN Enqueue(taken, s) ELSE taken)
                                EXCEPT !.event = Event("RECEIVE", s, Head(p.arrived))])
           \/ /\ p.state # "ZOMBIE" /\ ~(p.state = "CONNECTED" /\ p.arrived # <<>>)
              /\ Perform(h, Step(popped))
        /\ UNCHANGED <<quits, extras>>

Next ==
    \/ Connect
    \/ \E h \in Hosts, s \in Slots :
          PeerSend(h, s) \/ Close(h, s) \/ SendOutgoing(h, s) \/ GiveUp(h, s) \/ Ping(h, s)
    \/ \E h \in Hosts : BandwidthThrottle(h) \/ Dispatch(h)
    \/ \E d \in net : Lose(d) \/ ReceiveIncoming(d)

Spec == Init /\ [][Next]_vars

-----------------------------------------------------------------------------
(* Properties.                                                             *)

TypeOK ==
    /\ \A h \in Hosts, s \in Slots :
          LET p == host[h].peers[s] IN
          /\ p.state \in States /\ p.id \in 0..MaxConnects /\ p.out_id \in 0..NoPeer
          /\ p.outS \in 0..3 \cup {NoSession} /\ p.inS \in 0..3 \cup {NoSession}
          /\ p.state = "DISCONNECTED" => p = Fresh(p.outS, p.inS)
    /\ app \in [Hosts -> [Slots -> {"none", "pending", "up", "wrong"}]]

\* The application is told of each connection and of its end once and in this
\* order, and of packets only in between, however datagrams are repeated.
EventsInOrder == \A h \in Hosts, s \in Slots : app[h][s] # "wrong"

\* connectedPeers, which shares out the bandwidth, counts the peers that are
\* connected, though it is kept by steps all over peer.c and protocol.c.
ConnectedCounted ==
    \A h \in Hosts : host[h].connected =
        Cardinality({s \in Slots : host[h].peers[s].state \in Live})

\* Two peers that are connected under one id name each other, and each sends
\* with the session that the other expects.
PeersPaired ==
    \A s, t \in Slots :
        LET c == host["client"].peers[s]
            d == host["server"].peers[t]
        IN  c.state \in Live /\ d.state \in Live /\ c.id = d.id =>
                c.out_id = t /\ d.out_id = s /\ c.outS = d.inS /\ d.outS = c.inS

\* A peer that is used again never passes on a packet of a connection before.
NoPacketOfAnother ==
    \A h \in Hosts, s \in Slots : LET p == host[h].peers[s] IN
        \A i \in DOMAIN p.arrived : p.arrived[i] = p.id

\* A peer on its way somewhere has what will move it on: the command whose
\* acknowledgement or loss decides, the acknowledgement it owes, or its place
\* in the dispatch queue; and packets that arrived are not forgotten there.
NoneStuck ==
    \A h \in Hosts, s \in Slots :
        LET p == host[h].peers[s]
            pending(kind) == \E i \in DOMAIN (p.sent \o p.outgoing) :
                                 (p.sent \o p.outgoing)[i].kind = kind
            queued == Contains(host[h].queue, s)
        IN  /\ p.state = "CONNECTING" => pending("CONNECT")
            /\ p.state = "ACKNOWLEDGING_CONNECT" => pending("VERIFY_CONNECT")
            /\ p.state = "DISCONNECTING" => pending("DISCONNECT")
            /\ p.state = "DISCONNECT_LATER" => ~Drained(p)
            /\ p.state = "ACKNOWLEDGING_DISCONNECT" =>
                   \E i \in DOMAIN p.acks : p.acks[i].kind = "DISCONNECT"
            /\ p.state = "ZOMBIE" => queued
            /\ p.state = "CONNECTED" /\ p.arrived # <<>> => queued
            /\ queued <=> p.needs
=============================================================================
