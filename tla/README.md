# TLA+ models of toxsh

toxsh is a collection of programs that carry TCP connections, shell sessions
and datagrams over the Tox network, over ENet, over HTTP and over UDP relays.
This directory holds TLA+ models of its parts, the TLC configurations that check
them on small instances, and theorems about them checked by TLAPS.  PROJECT.json
lists the components, the runs, for every definition the lines it models, for
every property a mutant of the code that breaks it, the hazards and the findings.

    tlc -workers 2 -config ToxTunTwo.cfg MCToxTun     # a run: module and cfg
    tlapm ToxTunProofs.tla                            # the proofs of a module

Sections 3 to 5 are about the three tunnels that were modelled first, 6 to 10
about ENet, Qt toxtun, the relays, Troh and kdns; 11 says what is proved, 12 what
is not modelled, 13 where the code and its documents differ.

## 1. The system

| Component | State it keeps | Operations | Hard behaviour | What makes it correct |
| --- | --- | --- | --- | --- |
| toxtun-go tunnel (`tunnelc.go`, `tunneld.go`, `channel.go`) | channel objects, the two maps of the pool at each end, flags of the closing handshake, timers | accept, SYN/ACK/FIN, read and write of both TCP sides, KCP packets, ACK timer, drain check | goroutines set flags which the event loop reads; friends lose each other; packets overtake messages; pointers outlive the maps | the maps agree, ends agree, no end is abandoned, every connection is released |
| toxtun-go KCP (`kcp.go`) | windows, queues, timers of an ARQ | Send, Recv, Input, Update/flush, Check | loss, duplication, reordering, wrap-around, closed windows, a clock that is set | streams arrive whole, in order, once, and in the end |
| pytoxsh toxnettun and Srudp (`srudp.py`, `toxnettuncli.py`, `toxnettunsrv.py`) | two state machines, send and receive windows, the promise of four closing conditions | SYN to ESTAB, DATA and ACK, resend, SRVFIN/CLIFIN, cleanup | queued signals, 1 ms timers, lost messages, closing while data is out | streams intact, FIN only after all data, no handler meets a removed channel, release |
| ENet (vendored in `src/toxtun`) | peers, channels, command queues, windows | send, acknowledge, resend, connect, disconnect in three ways, time-out | loss, duplication, reordering, numbers that wrap, peers used again | each kind of packet as it promises, nothing of another connection, counters in step |
| Qt toxtun (`src/toxtun`) | channels, the ENet peers they are attached to, timers | ENet connect/packet/disconnect, TCP events, promise of two flags | peers reused by the next connection, FIN and data on separately ordered ENet channels, an ENet thread | no packet reaches the wrong connection, data before the FIN, no assertion fails |
| coturn server (vendored in `src/dtnat/server`) | sessions, allocations, permissions, channels, TCP connections, tickets, quotas | Allocate, Refresh, CreatePermission, ChannelBind, Connect, ConnectionBind, Send, Binding, relaying | tables that point at each other, timers, key lookups of another thread, take-overs | tables agree, data goes where it was asked to, what is granted ends, quotas balance |
| STUN codec (vendored in `src/dtnat`) | a buffer | build, walk, sign, check, cut a stream | lengths, padding, XOR, messages cut anywhere | what is built reads back, what is wrong is refused |
| C++ Srudp (`p2psh`, `toxsocks`) | send and confirm queues, receive cache, pings | sendto, confirm, resend | timer and confirm race, batch of ten | bytes arrive once, in order, and in the end |
| p2psh and the relay of `nathlp` | registrations, relay allocation, permission, TCP streams | register, relay, allocate, permit, connect | order of several asynchronous answers, coalesced TCP reads | both ends get connected, the session's bytes intact |
| Troh (`libtroh`, `trohd`, `trohc`) | sequence numbers, requests under way, a buffer of cut packets | POST, comet GET, repost, request for retransmission, goodbyes | two requests at once, resets while packets are under way | order, no byte written twice, no connection left open |
| kdns | pending queries by id, names with IPv6 | query, answer, rewrite | two upstream answers race, ids repeat | an answer goes to its question, with the right addresses |
| toxshd, webshd | queue of commands and of the ids that have ended | command in, output, end | two signals of one end | not stated (section 12) |
| pytoxsh file tunnel (`toxtuncli.py`, `toxtunsrv.py`) | a file transfer per friend that carries all channels | chunk request, chunk | chunks asked for before there is data | not stated (section 12) |
| the rest | | | | start-up, display, wrappers |

How they interact.  The tunnels share one shape: an application's TCP socket, a
client process, a lossy or resetting network, a server process, the backend's
TCP socket.  The two processes share no memory, only messages; in a process an
event loop runs handlers to their end, and goroutines (toxtun-go), timers and
queued signals (Qt) put events into its queue.  The hazards all come from what
may happen between two of those events.

## 2. The modules, and the plan

The order was that of what the repository's documents are about: the tunnels
first, then what they stand on, then the helpers.

| Part | Modules | Runs |
| --- | --- | --- |
| toxtun-go tunnel | `Channel`, `ToxNet`, `Tunnelc`, `Tunneld`, composed by `ToxTun` | `toxtun_*` |
| KCP | `Kcp`, which implements the abstract `KcpStream`; `KcpClock` | `kcp_wrap`, `kcp_clock`, `streams_live`, `programs` |
| toxnettun | `Srudp`, `ToxNetTun` | `toxnettun*` |
| ENet | `ENetChannel`, `ENetPeer` | `enet` |
| Qt toxtun | `QtTun` over what ENet promises | `programs` |
| TURN server | `TurnAllocation`, `TurnTables`, `TurnTcp`, `TurnServer`, `TurnBinding` | `turn` |
| STUN messages | `StunMsg` | `programs` |
| C++ Srudp | `SrudpCpp` | `programs`, `streams_live` |
| p2psh, relay | `P2pSh` | `programs` |
| Troh | `Troh` | `programs` |
| kdns | `Kdns` | `programs` |
| proofs | `ToxTunProofs`, `KcpProofs`, `KcpClockProofs`, `ToxNetTunProofs`, `ENetChannelProofs`, `TurnAllocationProofs`, `TurnServerProofs`, `TurnTcpProofs` | |

`MCTurn`, `MCENet`, `MCStreams` and `MCPrograms` put instances side by side: a
variable `program` is chosen at the start, only its module takes steps, and a
property of such a run says for each program what it means there (`StreamsIntact`
of `MCPrograms` is `Kcp!StreamIntact` for one, `Troh!StreamsIntact` for another).
The programs do not interact; the form saves nothing but runs.

Left of the plan: proofs about `ENetPeer` and the order of the unreliable packets of
`ENetChannel`.

## 3. toxtun-go: the tunnel

A client process (`tunnelc.go`) accepts TCP connections of applications; a
server process (`tunneld.go`) connects to the backend for each of them.  The two
exchange *friend messages* (reliable and ordered while the friends see each
other): `connect_syn`, `connect_ack` with a conversation number `conv`, and
`close_fin`.  Data goes as KCP packets in *lossy* Tox packets, which can be lost,
repeated, delayed and reordered.

| Module | Code | State |
| --- | --- | --- |
| `Channel` | `channel.go`, the packets, what the tunnel needs of `kcp.go` | the channel record, packets, the abstract KCP |
| `ToxNet` | go-toxcore as the tunnel uses it (external) | `link`, `toServer`, `toClient`, `lossyC`, `lossyS` |
| `Tunnelc` | `tunnelc.go` | `cch` (all channels by `chidcli`), `cpool`, `cpool2` (the maps `pool`, `pool2`), `newConn`, `ackTimer`, `cconn` |
| `Tunneld` | `tunneld.go` | `sch`, `spool`, `spool2`, `sconn` |
| `ToxTun` | the composition, its properties and fairness | |
| `MCToxTun` | instances for TLC | |
| `ToxTunProofs` | theorems | |

One action stands for one handler of an event loop, for one step of a goroutine
(a read, the wait for room, the end of the read, the posting of an event) or
for one event of the network.  A handler runs to its end before the loop
takes the next event, so its effects are one step; the goroutines interleave
with the loop between any two of their own steps.  `promiseChannelClose` is read
branch by branch, one disjunct each.  It reads its flags once; a goroutine that
sets one in the middle of it acts as if it had done so before or after.  A
channel object lives on after it left the maps, because goroutines and queued
events still hold pointers to it: `cch` and `sch` keep every channel ever made,
and the pools the registered ones.

A process that panics stops, with the reason in `cpanic` or `spanic`.  The
panics are reachable (see the findings); the properties that assume living
processes say so.  `Channel` reduces a channel's KCP to four counters of
messages, `snd`, `una`, `rcv` and `read`, which are the variables of `KcpStream`;
that the real KCP keeps this promise is what `Kcp` is about.

Left out: `channelGC`, which is empty; statistics; several friends (the
configuration names one; the SYN goes to the key of the configuration, the FIN
and the data to the constant `toxtunid` of `config.go:11`, and the model takes
them for the same friend); the 16-bit header of a lossy packet.  `MakeKcpConv` is
a CRC over the time and is assumed not to repeat a conversation of this process.

Runs (module `MCToxTun`):

| Run | Question | Bounds |
| --- | --- | --- |
| `toxtun_two` | do two connections stay apart: maps, ends, nobody abandoned | 2 connections, 2 channels, no data, link holds |
| `toxtun_faults` | ownership, data counts, closing branches and reasons, no revival | 1 connection, 2 channels (so one retry), 1 message each way, 2 losses of the link, overtaking packets, failing dial |
| `toxtun_live` | is every attempt settled and every close carried through | 1 channel, 1 message each way, 1 loss of the link |
| `toxtun_double_close` | a statement of a comment that does not hold | as small as it still fails |

`NotAbandoned` says of both ends that a channel whose partner is gone has an ACK or
a FIN on the way that will tell it.  `ClosesAsPromised` says that
`promiseChannelClose` meets no combination of flags it does not know, and that
the reasons it leaves are the documented ones.  `ClosedIsReleased` is
for both ends: a closed TCP connection is forgotten, while the link holds and the
processes live.

A second channel is what a conv, an id or a map entry can be confused with, and
two channels give each of them another to be confused with; the second loss of
the link lets both the SYN and the FIN be lost.  `MaxMsgs` bounds the FINs that answer stray
packets, of which the network could make any number; `SndLimit = 1` makes readers
wait, which the code does at five windows.

Fairness (`ToxTun!Fairness`): Go's `select` picks among ready queues at random, so
an event that stays queued is handled; a runnable goroutine runs; timers fire;
`net.Dial` returns; a KCP packet that is sent again and again arrives; toxcore
finds a lost friend again.  Nothing is assumed of applications and backends.
`ClosedIsReleased` asks for a link that holds and for processes that live, because
without them it is false: see the lost FIN in section 13.

## 4. toxtun-go: KCP

`Kcp` has two KCP objects and a network of sets of segments.  `Input`, `Send`,
`Recv` and `flush` are operators that follow the code function by function, with
`parse_una`, `parse_ack`, `parse_data`, `shrink_buf`.  What is abstract:

- a packet carries one segment; bundling makes several travel together, which
  the set allows by delivering them one after the other.  When a segment fills
  the packet, `flush` also emits an empty one, which `onKcpOutput` ignores;
- time: whether a segment's resend time or the probe's has come is a free choice
  in `Kcp`, and `KcpClock` models `Update`, `Check`, the estimator, the resend times
  and the two pollers with a clock that wraps around and may be set.  `Modes`
  holds the settings and pollers the two programs combine;
- sequence numbers count modulo `SnModulus` (2^32), compared by signed difference.
  A packet lives while the conversation advances by less than `MaxLag` segments beyond
  the window, and the modulus is large beside that: `SnModulus \div 2 >= SndWnd + RcvWnd +
  MaxLag` and `SnModulus >= 3 * SndWnd + RcvWnd + 2 * MaxLag`, which is what the proof needs.
  Without a bound on its life an old acknowledgement is taken for a new one when the
  numbers come round;
- the reader waits while `WaitSnd` is at five windows, but what it then reads goes through a
  channel of 256 events to the loop, which calls `Send` whatever the queue has become: the
  check limits nothing that `Send` sees and is not a guard of `UserSend`.  `MaxWait` is a bound
  of the runs (above the window), arbitrary in the theorems;
- congestion control is there; in congestion avoidance the growth by one in about
  `cwnd` calls is a free choice.  `dead_link` is never read by the tunnel.

| Run | Question | Bounds |
| --- | --- | --- |
| `kcp_wrap` | nothing forgotten, implements `KcpStream` | modulus 6, 7 fragments, so the numbers wrap around, window of 1, up to two in the queue, old packets and acknowledgements again |
| `kcp_clock` | flush keeps its pace, resend times stay near | clock modulo 42, `BigSlap` 4, both modes, fast resend, round trips up to 4 ticks (`MaxRtt`, beyond the largest timeout `MaxRto`), set twice by 5 forward or back, the client's wait longer than its interval |
| `streams_live` ("kcp") | everything is delivered once the network is calm | window of 1 that closes, congestion control, 3 fragments |
| `programs` ("kcp") | whole, ordered messages; windows hold; nothing unreadable | messages of 1 and 2 fragments, windows of 2, fast resend, 3 fragments one way, loss, repetition, reordering |

`FlushCadence`: while the clock runs, no more than an interval and the longest sleep
pass between two flushes; each time it is set, flush may be held up for another `BigSlap`
(ten seconds) and one more sleep.  The sleep counts because the poller can be in the
middle of one that was long when the clock is set, and again when the delayed flush is due; a
bound with a single sleep is false for the code's own 10000, 100 and 30 ms, and
`kcp_clock` has its `ClientWait` above the interval of fast mode to show that.

`ResendAhead`: a segment that is out is overdue by no more than flush stayed away
plus what the clock was set forward, and its resend time is ahead by no more than its
timeout plus what the clock was set back.  `BigSlap` protects the flush timer only: a clock
that is set back an hour stops resending for an hour, and the bound says just that.
The promise is made while all this fits the signed half of the clock's range (`InReach`;
in `kcp_clock` up to the first setting, in the theorem for any number of them).  A segment's
timeout grows with each resend; the model lets it be acknowledged before it would pass
`MaxSegRto`, a bound the code does not have.  Round trips are bounded by `MaxRtt`, which no
bound of the code limits either and the theorems leave open.

`streams_live` assumes that the pollers run, the users read and the network becomes
calm at some time (a partial synchrony: with unlimited loss nothing can be
promised); before that anything may be lost.  A window of two already lets
segments overtake each other and a fast resend happen; fragments of one message
fill it.

## 5. pytoxsh: toxnettun and Srudp

`Srudp` is one protocol object: an operator per method that returns the object,
the packets it hands to the transport and the signals it emits.  `ToxNetTun` has
one TCP connection, the objects `cli` and `srv` with the flags of their channel,
and both event queues.  Signals are connected with `Qt.QueuedConnection` and Tox
runs in a thread of its own, so messages and signals wait in one queue in the
order in which they were posted.  Socket handlers and the 1 ms timers run when
no signal waits; the long timers' timeouts are posted too and may be handled
between a message and the signals it causes, so the ticks ignore the queue.  A
1 ms timer is never as late as the next 1578 ms tick of the client, nor as the
35 s of TIME_WAIT.  Pieces of the stream are their sequence numbers; the ISN + 2
is 1.  A handler that looks up a removed channel raises `KeyError`, and a close
that has not begun has no time: `raised` holds the sides where this happens.

Only the server begins to close, and only the server sends again, so the
properties ask for delivery and release exactly where the code provides them:
`EndsWell` is `OneFin` (an end never goes back to an earlier state of the closing,
and numbers one FIN),
`DownDelivered` for what the backend sends on an established connection although
the friends lose each other, and `Released` when they do not.  `DownDelivered` has three
parts: what the backend sent gets to the client object; a packet stays there for ever only if
more than one batch of packets waited with it (`RcvBatch`, 20 in the code with a window of 208);
and everything is delivered to the application as long as that never happened.  That packets from the
client are never sent again (a SYN, a piece of data, a CLIFIN) is by design of
`buf_send_pkt` and a bug for the CLIFIN: `toxnettun_lost_fin`.

`toxnettun` has two pieces down, one up, a window of two, a buffer of one and one
loss of the link: a piece may be lost and the next one arrive before it comes
again, the buffer is full, and the loss may hit any packet of the handshake, the
data or the close.  A packet is sent again when nothing else is under way
(`MaxNet`), so a resend never races with an acknowledgement that is late but not
lost.  A batch of one is smaller than the window, as in the code: a filled gap with more
packets behind it than a batch leaves the rest until another packet arrives, and when the
SRVFIN comes first they are never delivered (section 13).  The theorems of section 11 hold
for any batch, buffer and window.

Fairness: event loops and timers run, `connectToHost` comes to an end, friends
find each other, and a packet that stays unacknowledged is sent again in a later
round (strong fairness, because each round waits for the others under way).

Left out: ISNs (one connection per object, so their checks succeed), the JSON
encoding, the splitting of messages above 1370 characters, which the piece size
of 897 bytes avoids, the status page, and a friend who is offline when a message
is sent makes nothing but a lost message.

## 6. ENet

Qt toxtun carries its connections over a vendored ENet.  Two modules:

- `ENetChannel` (`peer.c`, `protocol.c`): one channel of an established connection in
  one direction, with reliable packets, reliable packets of two fragments,
  unreliable and unsequenced packets.  Its reliable packets implement the same abstract
  stream as KCP, `KcpStream` (`ImplementsStream`); of the others `SequencedOnce` says that
  none is taken twice, and an unreliable one never after a later one.  `CountersAgree`
  compares the counters that hold the sender back with its lists.  What prevents that an old packet passes for a
  new one when the numbers wrap is not one check but three that go together: the
  receiver does not acknowledge what lies behind or far ahead of it, the sender does
  not enter a window while an earlier one is full, and packets are in
  flight for a bounded number of windows; the model has all three.
- `ENetPeer` (`peer.c`, `host.c`, `protocol.c`): the peers of two hosts from connect to
  the end in each of the three ways (`disconnect`, `disconnect_later`,
  `disconnect_now`), time-outs, resets and the use of the peer for the next connection,
  told apart by session ids of two bits and the connection id.  The events the
  application gets are a connection, its packets, its end (`EventsInOrder`);
  `connectedPeers` is the number of connected peers (`ConnectedCounted`); two peers that
  name each other belong to one connection; no packet of an earlier connection is
  delivered (`NothingOfAnother`); a peer that is being closed has something that will
  end it (`NoneStuck`).

`enet` runs three programs: `channel` with five scripts of packets; `reuse`, one peer
that is connected twice; `slots`, two peers.  The channel's numbers begin so
that they wrap in the run: 6 windows of 2 numbers for 16 of 4096 in the code, 3 windows
free for 8.  Datagrams may be lost, repeated and reordered; a sent command may expire at
any time, so clocks are not needed.  `NetCap` bounds what is on the way, `MaxExtras`
counts losses, repetitions and expiries in the peers' program.

A script does not mix unsequenced with unreliable packets: there `peer.c:911` lets a
repeated unreliable packet pass (13).  Not modelled: estimation of the round trip and
the throttle made from it, bandwidth shares, unreliable fragments, compression
(off), checksums (off), and more than one channel of a peer, since channels share only
the counter of data in transit.

## 7. Qt toxtun

`QtTun` has the two processes `tunnelc.cpp` and `tunneld.cpp`, each with its main thread
(slots connected with `Qt::QueuedConnection`, one at a time, in the order of their
signals) and the thread of `enetpoll.cpp`, which hands `m_outpkts` to ENet and signals
events.  ENet is what section 6 shows it to be: connections between peers that are used
again, packets in order on each of the two ENet channels, data on 0, FIN on 1, with no
order between them.

| Property | Meaning |
| --- | --- |
| `StreamsIntact` | what a TCP end reads is what the other end of *its* connection wrote, from the start and in order |
| `AllBeforeClose` | a socket that the tunnel closes for a FIN has got all that the other end wrote, unless something was still under way to it after 7 s without a packet |
| `NoAssertFails` | the assertions about peers that still have a channel hold (`tunneld.cpp:296`, `tunnelc.cpp:397`) |
| `PeersOwnChannels` | a peer's data is a channel that exists and names that peer, and the other way round |

Instances of `MCPrograms`: one connection that writes twice; two that use the one peer
after each other; two without data and a time-out of ENet.  `PeerCount` is 932 in the
code and 1 here, because a peer is what is to be used again.  `upset` marks that a
connection was lost to a time-out or closed for another's sake; the first three
properties say nothing after that, because the code then really breaks them (13).

Not modelled: the Tox bootstrap and friend list (`qtoxkit`), hex encoding,
statistics, several friends (the transport serves only the first, see 13).  The 7 s and
the close timers are free to run when their conditions hold, also while packets are under way;
`cut` records a socket that was closed then, which loses them.  Only for the 5.7 s of
`later_close_timeout`, after both sockets are closed, nothing of the channel is taken to be
under way any more.

## 8. The TURN server and its messages

`src/dtnat/server` is a coturn that its CMakeLists does not build; `src/dtnat/client` and
`common` are used by p2psh, dtnat and the server.

| Module | Code | Properties |
| --- | --- | --- |
| `TurnAllocation` | one UDP allocation: permissions and channels with their timers, relaying | `MapsAgree` (channels by number and by peer), `RelayedAsAsked` (what is relayed is covered by what the client asked for, under the channel it bound), `NoLongerThanAsked` |
| `TurnTables` | the hash tables below it (`ns_turn_maps.c`, `ns_turn_allocation.c`) | `LookupsRight`, `NoStalePointer` |
| `TurnTcp` | RFC 6062: connect, accept, bind, back-to-back data, time-outs | `MapNeverDangles`, `OnePerPeer`, `BoundByItsUser`, `WaitingEnds`, `StreamKept` |
| `TurnServer` | sessions, credentials, quotas, mobility, removal | `TicketsAgree`, `AskedByItsUser`, `HeldIsCharged`, `QuotaBalanced` |
| `TurnBinding` | Binding requests of RFC 5389, 5780 and 3489 | `AnsweredAsAsked` |
| `StunMsg` | the codec | `ReadBack`, `JudgedRight`, `StreamCutRight` |

The server is one event loop: a handler is one step, a timer another.  In
`TurnAllocation` a tick moves the lifetimes, and a timer that is due runs before time goes
on.  Key lookups of `TurnServer` are made by another thread: the request waits, and may
be answered after the session has gone.  `granted` and `bound` remember what the client
asked for; they are compared with the tables, never read by the handlers.

`turn` runs five programs, one per module but `StunMsg`:
2 allowed addresses and a forbidden one, 2 ports, 2 channel numbers and lifetimes of 1, 2
and 3 ticks; tables of 2 buckets with 1 slot in which all keys collide, with peer port
0; 2 TCP sessions of two users, 3 peers, 2 connection numbers so that a number is given
again, a buffer of 1; 3 client connections of 2 users with quota 1 and 3 tickets; all
Binding requests of up to 3 attributes.

`StunMsg` works on 32-bit words as pairs of 16-bit halves, so that padding, lengths and the
XOR of addresses are computed as in the code; digests are a checksum of the words they cover.  One
instance builds every message that client and server build (requests, answers, signed
ones, channel messages) and reads each back, changed or not; the other cuts all triples
of six kinds of frames out of a TCP stream that arrives in pieces of 1, 3 or 30 bytes.
Not modelled: the hashes, SASLprep, text forms of addresses, address ranges, lengths
near 64 KB.

Not modelled of the server: reservation tokens, alternate servers, nonces that change
in the middle of a session, statistics, the listeners' sockets, DTLS, and the two khash
maps, which are taken as maps.

## 9. C++ Srudp, p2psh and the relay

`SrudpCpp` is the reliable datagram protocol of `p2psh/srudp.cpp` (the one of `toxsocks` is a
copy over Tox): bytes are cut into numbered packets, at most `SchedMax` are under way,
and the next lot is taken only when all are acknowledged.  `StreamKept` is the order,
`AllArrives` the delivery.  Fairness for the latter: the timer runs, and of packets
and acknowledgements that are sent again and again one gets through (strong fairness,
since each is lost in between).  Bounds: writes of 2 bytes, packets of 1 byte, lots of 2
(10 in the code), 3 bytes one way and 1 back.

`P2pSh` has `xshcli`, `xshsrv`, `regsrv`, the relay `rlysrv` of nathlp, and the TURN server as
p2psh uses it.  Each learns its mapped address by STUN, connects to the relay and
registers; then a user's connection makes `xshcli` allocate, ask for a permission and tell
`xshsrv` where to send.  Steps of the four asynchronous exchanges come in any order that
the network allows; relay messages are pieces of a TCP stream, and two may be read as
one.  `PathOpen`: `xshsrv` sends to the relayed address only when that is allocated and lets
it through, and connects to sshd once, however often requests and answers are repeated;
`StreamsIntact` is about the bytes, those included that the user wrote before the path was
there.  Three instances: a client whose STUN messages are lost, late or repeated;
all keep-alive timers; a client that opens a second connection to the relay.
`aborted` records that a process stopped at one of its assertions, which it does when
an answer comes twice (13).

## 10. Troh and kdns

`Troh`: `trohd` at the user, `trohc` at sshd, between them a comet server (a PHP script that
is not in the repository, external).  Each end has a `CmdSender`, one POST
at a time with repetition, and a `CmdProvider`, which pulls and cuts packets.  Only the user's end
writes in the order of the numbers; sshd's end writes in the order of arrival.
`faulty` records, for each direction, that a packet was lost with an answer, that a POST
failed or was repeated, or that a packet was put out again.
`StreamsIntact`: what the user reads bears the numbers 1, 2, ... of sshd connections, each once,
also when POSTs fail, packets come twice or answers lose some; it is what one sshd connection
wrote, from its start and without a gap, as long as the direction to the user is not
faulty.  Without the condition that is false: an answer that is read in one piece may lose
sshd's goodbye, and the next connection's packet 2 then follows the last one's packet 1
(13).  What sshd reads is a piece of what one user connection wrote, as long as the
direction to sshd is not faulty.  `NoneLeftOpen`, in the same condition: when all is quiet and
the user is gone, so is sshd's connection.  Instances: a user that comes back at once, and
meets what is left of the last session (two connections, one at a time); sshd that closes
while its goodbye may be lost in an answer of two packets; one stream with a failing POST, a
packet asked for again, answers of two packets, and a cache of 1 (5 in the code).

`Kdns`: questions by client and id, the IPv6 question behind each, answers and their
rewriting.  `AnswersToAskers`: no client gets more answers with an id than it asked
questions with it, and no item waits for an answer that was brought to another.
`HijackedRight`: of a name that kdns knows to have an IPv6 address nobody gets an IPv4
address but 127.0.0.1, and that only if there was any; other answers come back as they
were.  Bounds: 2 clients, 2 ids (so that ids meet),
2 names of which one has IPv6, 2 questions, answers of five shapes.

## 11. What is proved, and what is only model-checked

Every theorem is about `Spec` with arbitrary constants.  `ChannelAssumption`,
`ToxNetAssumption`, `TunneldAssumption` and `ClockAssumption` give the constants of the
tunnel and of the clock their ranges; TLC evaluates them on every run of `MCToxTun` and
`MCKcpClock`.  The other assumptions stand in the theorems and are named below.

### The tunnel

For any number of connections, channels, messages, conversations and link
failures.  Each part of `ToxTunProofs` rests on the one before; the invariants are named as there.

- `TypeCorrect`: `Spec => []TypeOK`.  The type invariant is inductive
  by itself.  One lemma says what each helper returns, one for each end goes
  through the branches of `promiseChannelClose`, and `ClientStepType` and
  `ServerStepType` have one step per action.  It means that no handler looks up a
  channel, a conversation or a connection that cannot exist.
- `ConnectionOwnedOnce`: `Spec => []ConnOwnedOnce`.  Not inductive
  alone: an `Accept` could meet a registered channel of the same connection, and an
  attempt could be due for a connection nobody accepted.  `OwnedInv` adds that
  registered channels were made (`i < chanid0`) for accepted connections and that
  only accepted connections wait.  All client steps but three satisfy
  `ClientKeepsOwners` (no registration, no change of connection), which keeps the
  invariant by one lemma; `Accept` and `InitConnChanel` have their own.
- `RemovedForGood`: `Spec => NeverRevived`, an action property.  Only `InitConnChanel`
  and `ServerRecvSyn` enlarge a pool.  With `i < chanid0` for registered channels
  (`RegisteredIsMade`) a channel that has left its pool stays out.
- `ServerPoolsInStep`: `Spec => []ServerPoolsAgree`.  `rmServer` is
  called again for channels that are gone and deletes by conv without looking, so
  the two maps alone are not inductive: the second call could delete another
  channel's conv.  `PoolsInv` adds that exactly the channels ever made have a conv,
  each its own, whether registered or not.  Every step but `connect_syn` is
  shown to be `Removes(R)` for some set `R` of channels, which `RemovesKeepsPools`
  handles once.  It rests on the assumption in `MakeKcpConv`, that crc32 repeats no
  conversation of the process; without it the theorem is false.

The two ends:

- `EndsBelongTogether`: `Spec => []EndsAgree`, and `ClientPoolsInStep`:
  `Spec => []ClientPoolsAgree`.  Both rest on `EndsInv`: one SYN is on the way for a
  channel and only until a server channel answers it (`SynsOnce`), server
  channels answer different client channels (`OnePerClient`), an ACK on the way says what
  the server holds and finds the client still without one (`AcksOnce`), and a
  channel has no conversation, KCP or reader before its ACK (`HalfOpenIsNew`).  Without
  the two "once" parts a second ACK could connect a channel to another end, and
  `rmClient` would take out the conversation of the wrong channel.
- `DataComesFromTheOtherEnd`: `Spec => []NothingInvented`.  `DataInv` adds the chain of
  counters of each direction (`DataFlows`: read, arrived, sent, and what a packet on the way
  may claim), and that no KCP packet bears a conversation before its ends
  exist (`NoEarlyPackets`): counts of another connection can then not come in.

In the same module, about how channels end:

- `PromisesAreKept`: `Spec => []ClosesAsPromised`.  `CloseInv` adds for each side that the
  flag of a close is set before its event can be handled, that a channel in the pool has
  only the reasons its flags explain, and for the server that reasons are counted
  (`ReasonsCounted`): the branches of `promiseChannelClose` are then complete, and a
  branch that ends the channel finds no third reason.
- `NobodyAbandoned`: `MaxDowns = 0`, `LossyOvertakes = FALSE` give
  `Spec => []NotAbandoned`.  The two hypotheses are needed, and the run `toxtun_two` has
  them too.  A FIN is sent once, so a link that fails with one under way leaves the
  other end behind for good (section 13).  A KCP packet that overtakes the ACK meets a
  client without the conversation, which answers with a FIN that the ACK does not
  expect.  `WordInv` follows each server channel through its life: ACK
  on the way, both ends connected, FIN on the way in one direction or both, gone.

### KCP

`KcpProofs`, under `KcpAssumption`: for any windows, message sizes and (even) modulus of the
numbers with the bounds of section 4, any number of fragments both ways, and a network that
loses, repeats and reorders packets.

- `TypeCorrect`: `Spec => []TypeOK`; `Forgetful`: `Spec => []NothingForgotten`; `StreamsAreIntact`:
  `Spec => []StreamIntact`; `WindowsAreKept`: `Spec => []WindowsHold`; `QueueStaysReadable`:
  `Spec => []QueueReadable`.  All rest on `KcpInv`.  The code only has numbers modulo 2^32; the
  invariant speaks of the *place* of a fragment in its stream, which never comes again
  (the fields `data`, which no function of `kcp.go` reads), and says that a number is the
  remainder of its place (`SnOf`).  The comparisons of the code are then shown to be those of
  the places, because two places that meet in a handler are less than half the modulus
  apart (`DiffPlaces`, `PlaceOf`).  Its parts:
  - `SenderInv`: queue and buffer of a sender are the end of its stream, in order; what is
    numbered and unacknowledged fits the window; `snd_nxt` and `snd_una` are remainders.
  - `ReceiverInv`: what was returned and what is queued are the beginning of the peer's
    stream, what lies in `rcv_buf` is in the window behind it, in order.
  - `Arrived`: what the sender has numbered and no longer holds is at the receiver.  This is
    not inductive alone: an acknowledgement frees a segment by its number.
  - `Told`, `ToTell`: an acknowledgement, also one that still waits in `acklist`, is for a place the
    receiver holds, and not so far behind anything acknowledged since that its number could
    stand for a later place.  This is where the life of packets and the modulus come in.
  - `Pushed`: a data packet bears the number of its place.

  There is one lemma per function of `kcp.go` (`ParseUna`, `ParseAck`, `PushKeeps`, `AdmitKeeps`,
  `FlushKeeps`, ...), which says what it does to one side; `ArriveStep` and `FlushStep` put them
  together for a packet that arrives and for a flush, and `InvStep` has one case per action.
- `Implementation`: `Spec => ImplementsStream`, that is `Stream!StreamSpec`.  The mapping reads
  `snd`, `una`, `rcv` and `read` off the objects; `BarsHold` says that they are the places of the
  invariant.  A `UserSend` is a `Give`, a `UserRecv` a `Take`, a packet that arrives a `Progress` or a
  stutter, everything else a stutter (`SendMaps`, `RecvMaps`, `ArriveMaps`, `UpdateMaps`).
  `StreamsOrdered`: `Spec => []Stream!StreamOrder`, the order of the abstract stream for `Kcp` itself.

`KcpClockProofs`, under `ClockAssumption`, which asks for a clock whose range is more than
eight times `BigSlap` and the longest timeout (2^32 ms against 10 s and `MaxSegRto`), for any
bounds `MaxRtt`, `MaxJump` and `MaxJumps`:

- `FlushIsOnTime` and `ResendsAreAhead`: `Spec => []FlushCadence` and `Spec =>`
  `[]ResendAhead`.  `CadenceInv` bounds the time since
  the last flush together with the rest of the poller's sleep, and together with the time to
  the next flush, unless the flush timer will be found too far ahead when the poller wakes
  and be set anew; `ResendInv` says that a segment was not due at the last flush but for
  what the clock was set by since.  `RtoInv` is the only place where the bounds of the
  estimator are needed.  The proof is arithmetic
  modulo `TimeModulus`; its lemmas say how `Diff` moves when the time does.

### toxnettun

`ToxNetTunProofs`, for any sizes of the buffer, the window and the batch, any number of
pieces both ways and of losses of the link (`SrudpAssumption`, `ToxNetTunAssumption`):

- `TypeCorrect`, `StreamsKept`, `FinComesLast` and `HandlersNeverRaise`: `Spec =>`
  `[]TypeOK`, `[]StreamsIntact`, `[]FinAfterAll`, `[]NoHandlerRaises`.  All four follow
  from one invariant, `TunInv`, because the hand-shakes, the windows and the event queues
  lean on each other:
  - `Stages`, `OneSyn2`: how far the two state machines can be apart, and which types of
    packet may be under way then.
  - `Senders`, `Down`, `Up`: the numbers of the buffer are the last ones, those of the
    window lie before; whatever the server has taken is in its buffer, in its window or at
    the client; what has been given and what `readPacket` will give is `1, 2, 3, ...`.
  - `ReadAgain`: what waits in the backend's socket is read again, because while the
    buffer has room a `bytesWritten` is queued that will be handled before the
    acknowledgement of some packet of the window.  Without it the server could say
    `canClose` with data still in the socket, and `FinAfterAll` is not inductive.
  - `Closing`: `canClose` waits in the queue once, and only when nothing is left to send,
    to acknowledge or to read.
  - `Quiet`: the order in the queues.  Behind a FIN no data, behind `disconnected` no
    `readyRead` and no `bytesWritten`; so the channel is gone only when nothing that
    raises can come.

  `Flush`, `AttempSend`, `Reads`, `RecvData`, `Mkdiscon` say what the methods of `Srudp`
  do to one object.  A handler satisfies a contract (`CStages` to `CQuiet` at the client,
  `SStages` to `SQuiet` at the server), and `ClientStep` and `ServerStep` take the contract
  to the invariant, so that each handler is a lemma about one side only.

### ENet

`ENetChannelProofs`, under `WindowsAssumption`, `LimitsAssumption` and `ScriptsAssumption`: for
windows of any size and number (even, six or more), limits that are numbers, scripts of any length,
and any loss, repetition and reordering.

- `TypeCorrect`: `Spec => []TypeOK`.  `Types` follows it through the lists: every command,
  queued entry and acknowledgement bears a number of the range and a packet of the script.  That
  the receiver never holds more than `MaxWaiting` is not in one place of the code: `Fits` is the
  contract of each handler, and the dispatch of a queue only moves its entries
  (`DispatchReliableFacts`, `DispatchUnreliableFacts`).  It holds of what was queued and dispatched
  together, so that a fragment may complete a packet and free a whole queue.
- `CountersHold`: `Spec => []CountersAgree`.  `Counters` is inductive with `Types`: `Count` is the
  number of elements of a sequence that lie in a set, and its lemmas say how it moves when a list
  is joined, cut or loses an element.  A command that is sent again is not counted twice
  (`Retried`, `ReleaseFacts`), and an acknowledgement that names no command releases nothing.
- `Implementation`: `Spec => ImplementsStream`, and `PacketsOrdered`: `Spec => []StreamOrder`.
  The numbers of the commands wrap, so the invariant (`StreamInv`, whose parts `Held` lists)
  speaks of *positions*, numbers that never wrap: `f[q]` is the position of the first part of
  packet `q`, `top` the newest position that was sent, `k` the packets that went out at the
  receiver, `m` the commands that wait to be sent again.  The next outgoing command has the position
  after `top` (`Line`).  What is sent, on the way or acknowledged is `Recent`: its window is at most
  `FreeWindows` behind that of `top` (`Line`, `Way`, `Told`), and so is the window of what was
  delivered last (`Span`).  What the receiver lacks, the sender keeps (`Kept`); only what it has is
  acknowledged (`Told`); its queue holds packets of the stream in order, and none that could go out
  (`Receiver`, with `Blocked`); what went out is the stream up to `k`, in turn (`InTurn`).
  Only the first command of a window moves `top` to another window, and there `WindowWrap` counts:
  that none of the `FreeWindows` windows ahead is used means, by `Counters`, that no command of
  theirs waits for its acknowledgement (`RecentSent`); that the window before is not full
  means that one of its commands reached the receiver, which takes nothing from more than
  `FreeWindows - 2` windows ahead, so that the last one delivered is not far behind (`HeldSpan`).
  For what is on the way `NotOutlived`, the assumption of the model about datagrams, says what the code cannot
  (`RecentAway`).  So every number that comes is `Near` what was delivered last, and a number that is
  accepted, refused or found in a list names one position (`NearNumber`, `NumberAccepted`,
  `NumberPassed`, `CommandUnique`).
  The refinement then maps each handler (`SetupMaps`, `SendMaps`, `ReceiveMaps`, `HandleMaps`,
  `StepMaps`); the packets forgotten are counted by `ForgottenUpTo`, which only grows (`ForgottenGrows`).

### The TURN server

- `TurnAllocationProofs!AllocationSafe`: `Spec => [](MapsAgree /\ RelayedAsAsked /\
  NoLongerThanAsked)`, for any addresses, ports, numbers, forbidden addresses and lifetimes.
  Its hypotheses are that 0 is no channel number (it stands for "no channel"; the code
  admits 0x4000 to 0x7FFF) and that lifetimes are integers.  None of the three is
  inductive: to relay what was asked for, an entry of the channel table must be what the
  client bound last, and the handlers look up `perms[addr].chns[port]` only because the
  tables agree.  `AllocInv` adds `ShapeOK` and `BoundAsAsked`.  `MapsAgreeAsPointers` restates
  the agreement number by number; `CleanFacts`, `UpdateFacts` and `BindFacts` say what
  the helpers return, `TablesKept` what a step that leaves the tables alone keeps, and there is
  one lemma for each handler.  The case
  that is easy to get wrong is a ChannelBind of a peer whose address has a
  permission with other channels.
- `TurnServerProofs`, for any connections, users, tickets and quota: `QuotaStaysBalanced`,
  `HeldStaysCharged`, `TicketsStayRight`, `OnlyItsUser` and `CountersInRange` prove the
  five properties of `TurnServer` that `turn` checks as parts of its own.  The hypothesis
  `Configured` says that no ticket is the null one, no user is the name for "nobody", the bounds are
  numbers, and a new session always finds a free ticket (64 random bits in the code).
  None of them is inductive alone.  A take-over moves the socket of one session to
  another, gives it a new ticket and charges for it, in one handler, so `ServerInv`
  speaks of all the tables at once: a counter is the number of sessions marked
  (`Balanced`); tickets and sessions lead to each other in both directions (`Ticketed`); a
  session that has an allocation, mobility or a charge has a user (`Shape`), so that its user's
  name does not change under it; a socket is the client of one session unless
  it is about to close (`OneClient`).  `Good(w, n, Q)` says all that of the state `w`
  between two steps of a handler, where the sessions of `Q` need not yet be
  charged for; one lemma per function takes `Good` from what it is given to what it
  returns, and one per action goes through the outcomes.
- `TurnServerProofs`, second half, for hash tables of any number of buckets and slots and any hash
  function: `LookupsStayRight` (`LookupsRight`) and `PointersStayRight` (`NoStalePointer`) of
  `TurnTables`, the two parts of `TablesAgree` for that program.  `TablesConfigured` says that there is a bucket, that hashes are
  buckets, and that ports and numbers are natural.  `TablesInv` is inductive: each key is in
  the bucket of its hash and once in its table (`PermsOK`, `ChnsOK`, and `MapOK` for
  the ports of a permission), a pointer of a permission leads to a channel of that port that points
  back (`Pointed`), a channel with a port is in a permission of its address (`Owned`), and
  the tables hold what `granted` and `bound` say.  Port 0 is why `Owned` is not simply the
  converse of `Pointed`: such a channel keeps the place of its owner after the owner went
  and when another permission moved in, and `turn_channel_delete` then writes to that
  permission; `DelDrops` shows that it deletes nothing there.  `Adds`, `Sets` and `Frees`
  say what a write does to a table, so that only the lemmas above them speak of buckets.
- `TurnTcpProofs`, for any clients, peers, users, numbers, memory and limits: `TypeCorrect`,
  `NumbersHold` (`MapNeverDangles`), `OneForAPeer` (`OnePerPeer`), `StreamsKept`, `WaitingIsTimed` and
  `OnlyItsUser`.  The hypothesis `Configured` says that no memory has the address `NULL`, that users
  have names and that limits are numbers.  `TcpInv` is inductive.  Its parts are the lists of the
  allocations (`ListsOwn`, `PeersApart`, and `Listed` until a connection has outlived its allocation),
  the numbers (`MapNeverDangles`), and for each connection `Guarded` and `Data`, which follows what the peer
  sent from the buffer to the client: the *beginning* is kept while nobody has bound the
  connection, whatever is cut off at the limit, and after the bind all that comes goes on in
  order.  A bind whose callback fails keeps its timer, and `Data` says nothing of its order.
  `InputKeeps`, `BindKeeps` and `CompletedKeeps` are about one connection; `RecordStep`,
  `DeleteStep`, `CreateStep` and `ClearStep` about what a handler does to the tables.

### Only model-checked

Liveness (`AttemptSettled`, `ClosedIsReleased`, `EndsWell`,
`EventuallyDelivered`): temporal reasoning under fairness needs `ENABLED`, which is out
of the prover's reach.  What rests on folds and selections over sequences of unbounded
length (`SequencedOnce` of `ENetChannel`, the streams of
`SrudpCpp` and `Troh`, `StunMsg`): their value for every input would need an induction over data,
which the library's theorems offer only with an operator as parameter.  `ToxNetTunProofs`
and `KcpProofs` do without: `NatSet` proves, for a set of numbers instead of an operator, that it is all
of `Nat`, and a least or greatest element of a set of numbers comes from a well-founded
order, which is what `Tries`, `Ready` and the searches in lists need.
The other invariants of sections 3 to 10, for which no inductive strengthening was
written: those of `ENetPeer`, `TurnBinding` and the small programs.  The
composite properties of `MCTurn`, `MCENet` and `MCPrograms` are checked as wholes; the theorems
are about the parts.

Every property has a mutant in PROJECT.json, the code with one plausible slip, under which
its run finds it violated.  Some modules keep further mutants in their text, for the
parts of a property of `MCPrograms`, `MCTurn` and `MCENet` that belong to the other
programs; they were run the same way.

## 12. What is not modelled

- The khash maps of the TURN server, its reservation tokens, alternate servers, changing
  nonces, listeners and statistics; ENet's estimators, throttle and bandwidth shares;
  the Tox start-up of Qt toxtun: see the sections above.
- `toxshd`: commands of all friends wait in one queue, and the end of a command is announced
  by what the shell itself writes to a socket (`echo ENDOFCMD_...`).  A command that reads
  its input swallows the next command and its mark, one that prints the mark ends twice
  (`commandhandler.cpp:126`), and output that is read after the mark goes to the next
  friend.  There is no promise to state.
- `webshd` is unfinished: it posts every output under command 0; `webshc` has an empty main.
- `toxsocks` is a thin user of `SrudpCpp` whose client sends to an empty address, so that the
  assertion of `sendto` fails; it never calls `setHost`, so the timer that sends again does
  not start.
- `dtnat` drives STUN servers by hand and decides nothing.
- The file-transfer tunnel of pytoxsh was replaced by toxnettun.  One transfer per friend
  carries the packets of all its channels as chunks that Tox asks for.
- Start-up, options, logging, statistics, the wrappers of the Tox library (`common`,
  `toxkit`), the monitors (`toxmon`, `pytoxmon`), the HTTP status page.

## 13. Where the code and its documents, or its intention, differ

With a run that shows it:

- `toxtun_double_close` (`tunnelc.go:272`): a reader sets `client_socket_close`, a FIN
  is handled before the reader's event, and the event then removes the channel a
  second time, which panics.
- `toxnettun_lost_fin` (`srudp.py:702`): the CLIFIN is put into the window but the
  monitor that sends again runs only at the server.

The properties above are stated with conditions where the code, read for the model, does
not keep them.  The conditions, by part:

- *toxtun-go.*  An application that closes at once makes the server close a connection it
  has not dialled yet, a nil (`tunneld.go:325`; the comment at 321 takes the close for
  unconditional).  The FIN is sent once; lost with the link it leaves the server's
  channel for ever (`tunnelc.go:281`; `readme.md:80` relies on a reliable transport).
- *ENet.*  `peer.c:911`: unsequenced packets reset what a repeated unreliable packet is compared
  with.  `CONNECTION_PENDING` and `CONNECTION_SUCCEEDED` cannot be reached from
  `enet_host_service` with an event.
- *Qt toxtun.*  A channel that has never received data is never closed by its 7 s timer
  (`tunneld.cpp:510`).  A CLIFIN sent while ENet still connects is dropped, and the server's channel
  stays.  After a time-out a socket that is still open makes the assertions at `tunneld.cpp:296`
  and `tunnelc.cpp:397` fail; data or a FIN of the old channel may go to the peer's next
  connection; the `later_close` timer may meet a peer used again (`tunneld.cpp:557`).  A NULL peer
  is used at `tunnelc.cpp:359`.  `toxenet_socket_receive` serves only the first friend's
  packets (`tunneld.cpp:105`).
- *TURN server.*  Permissions, channels and TCP connections survive a Refresh with lifetime 0
  when an Allocate follows within the second.  `clear_allocation` leaves its loop after the first
  TCP connection, the others outlive their allocation (`wild` in `TurnTcp`, where the
  behaviour stops).  CreatePermission after ChannelBind shortens the permission, and with it
  the channel, to 300 s.  A bind by the wrong user spends the connection's number.  A bind whose
  client callback fails keeps data back and sends on what follows.  A mobile session that
  timed out keeps its relay uncounted until the watchdog comes.  A peer with port 0 is
  never found in its permission, and its channel outlives it (`TurnTables`).
- *STUN messages.*  A fingerprint whose attribute does not fit is reported as added; the padding
  check accepts a message whose header gives the length of the whole datagram.
- *Srudp of pytoxsh.*  `_on_recv_data` moves 20 packets and is called once per DATA
  (`srudp.py:777`): behind a filled gap more may wait, and when no DATA follows they are never
  delivered, also when the SRVFIN comes (`DownDelivered` has them as left behind).
- *C++ Srudp.*  There is no reset of numbers: a peer that starts again is never understood.
- *p2psh.*  Any datagram cancels the retry of whatever was asked; late answers then lead to two
  Allocates, a 437 and an assertion in xshcli (`stunclient.cpp:411`); so does a stale nonce
  (415), and a second user connection.  The relay reads 128 bytes and throws on a message cut
  in two.  Every answer with a mapped address makes another relay socket, and a message on the
  old one reads beyond a list.  A second registration of a name is handled at
  `rlysrv.cpp:138`.  A user who connects before the mapped address is known meets a
  NULL socket.
- *Troh.*  A failed POST is sent again beside the next packet, so sshd may read packets in the
  wrong order or twice.  Of an answer that is read in one piece only the first packet is cut;
  the rest waits for the next and is lost at the end.  Lost packets are asked for only when more than 5
  wait, so the last ones of a stream never are.  Data that arrives after sshd closed opens a new
  sshd connection in mid-stream.  When sshd's goodbye is lost with an answer
  (`cmdprovider.cpp:147`), the user reads a mix of two sshd connections: packet 1 of the second
  is taken for a repeated one (`virttcpd.cpp:79`), packet 2 is written after packet 1 of the first.  A user who comes back within a round trip is closed by
  the last session's goodbye.
- *kdns.*  Answers go by id alone: two clients with the same id, or an id of the IPv6 questions,
  may get each other's.  An item whose question is never answered stays for ever.  A name is
  hijacked only when its IPv6 answer came first.  A record behind the A records may be lost.
