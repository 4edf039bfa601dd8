----------------------------- MODULE MCPrograms -----------------------------
(***************************************************************************)
(* The smaller programs of the repository for TLC: one behaviour checks    *)
(* one program, with one choice of bounds, and the variables of the others *)
(* stay as they were.                                                      *)
(***************************************************************************)
EXTENDS Integers, Sequences

VARIABLES
    program,
    kcp, net, sent, got, calm,                          \* Kcp
    tun, wire, app, drops, upset,                       \* QtTun
    msg, made, verdict, frames, stream, arrived, cut,   \* StunMsg
    end, paths, written, taken,                         \* SrudpCpp
    stun, req, ans, turn, rly, up, down, known, cli, srv, talker, shell, toCli, toSrv, aborted,
                                                        \* P2pSh
    sender, table, stored, puller, user, sshd, order, faulty, left,   \* Troh
    m_qrqueue, m_domain_has_ipv6, upstream, asked, back, last \* Kdns

kcpVars == <<kcp, net, sent, got, calm>>
qtVars == <<tun, wire, app, drops, upset>>
stunVars == <<msg, made, verdict, frames, stream, arrived, cut>>
srudpVars == <<end, paths, written, taken>>
p2pVars == <<stun, req, ans, turn, rly, up, down, known, cli, srv, talker, shell, toCli, toSrv, aborted>>
trohVars == <<sender, table, stored, puller, user, sshd, order, faulty, left>>
dnsVars == <<m_qrqueue, m_domain_has_ipv6, upstream, asked, back, last>>
allVars == <<program, kcpVars, qtVars, stunVars, srudpVars, p2pVars, trohVars, dnsVars>>

-----------------------------------------------------------------------------
\* The client of toxtun-go sends three fragments, in messages of up to two.
Kcp == INSTANCE Kcp WITH
    SnModulus <- 16, SndWnd <- 2, RcvWnd <- 2, FastResend <- 1, NoCwnd <- TRUE,
    MaxFrag <- 2, MaxWait <- 3, MaxSend <- [client |-> 3, server |-> 0],
    MaxNet <- [client |-> 1, server |-> 2], MaxLag <- 3, MayCalm <- FALSE

\* toxtun with one peer at each host: one connection that writes; two that use
\* the peer after each other; two without data, and a time-out of ENet.
QtOne == INSTANCE QtTun WITH Conns <- {1}, PeerCount <- 1, MaxWrites <- <<2>>, MaxDrops <- 0
QtTwo == INSTANCE QtTun WITH Conns <- {1, 2}, PeerCount <- 1, MaxWrites <- <<1, 0>>, MaxDrops <- 0
QtDrop == INSTANCE QtTun WITH Conns <- {1, 2}, PeerCount <- 1, MaxWrites <- <<0, 0>>, MaxDrops <- 1

\* The datagrams SrudpCpp carries between a client behind a NAT and a server.
Srudp == INSTANCE SrudpCpp WITH
    net <- paths, Peer <- [cli |-> "srv", srv |-> "cli"], ClientMode <- "srv", PktLen <- 1,
    SchedMax <- 2, MaxWrite <- 2, MaxBytes <- [cli |-> 3, srv |-> 1]

\* p2psh: a client far away; all timers; a client that opens a second connection
\* to the relay.
One == [regsrv |-> 1, xshsrv |-> 1, xshcli |-> 1]
P2pFar == INSTANCE P2pSh WITH
    user <- talker, sshd <- shell, Far <- {"xshcli"}, MaxLinks <- One,
    MaxAllocates <- 2, MaxUsers <- 1, Timers <- FALSE, MaxBytes <- 1
P2pTimers == INSTANCE P2pSh WITH
    user <- talker, sshd <- shell, Far <- {}, MaxLinks <- One,
    MaxAllocates <- 2, MaxUsers <- 1, Timers <- TRUE, MaxBytes <- 1
P2pAgain == INSTANCE P2pSh WITH
    user <- talker, sshd <- shell, Far <- {"xshcli"}, MaxLinks <- [One EXCEPT !.xshcli = 2],
    MaxAllocates <- 1, MaxUsers <- 1, Timers <- FALSE, MaxBytes <- 0

\* trohd and trohc: a user that comes back at once; sshd that closes while its
\* goodbye may be lost in an answer; one stream with failing POSTs, full answers
\* and packets asked for again.
TrohBack == INSTANCE Troh WITH
    MaxConns <- 2, MaxUser <- 2, MaxSshd <- 1, MaxSshdCloses <- 1,
    MaxFails <- 0, MaxRetrans <- 0, MaxBatch <- 1, CacheLimit <- 1
TrohLost == INSTANCE Troh WITH
    MaxConns <- 1, MaxUser <- 2, MaxSshd <- 2, MaxSshdCloses <- 1,
    MaxFails <- 0, MaxRetrans <- 0, MaxBatch <- 2, CacheLimit <- 1
TrohFails == INSTANCE Troh WITH
    MaxConns <- 1, MaxUser <- 1, MaxSshd <- 3, MaxSshdCloses <- 0,
    MaxFails <- 1, MaxRetrans <- 1, MaxBatch <- 2, CacheLimit <- 1

\* kdns: two clients that use the same ids, one of two names has an IPv6 address.
Dns == INSTANCE Kdns WITH
    got <- back, Clients <- {"a", "b"}, Ids <- {1, 2}, Names <- {"x", "y"}, HasIPv6 <- {"x"},
    Shapes <- {<<>>, <<"A", "A">>, <<"CNAME", "A", "A", "A">>, <<"CNAME", "A">>, <<"A", "A", "CNAME">>},
    MaxAsks <- 2

-----------------------------------------------------------------------------
(* STUN messages: what the client and the server of dtnat build.           *)

\* Addresses are words of two 16-bit numbers.
Ip4(port) == [ip |-> <<<<49320, 257>>>>, port |-> port]
Ip6(port) == [ip |-> <<<<8193, 3512>>, <<0, 1>>, <<2, 3>>, <<4, 40000>>>>, port |-> port]
Public == <<<<20737, 27203>>>>

Words(n) == [i \in 1..n |-> <<n, 7 * i>>]
OldTid == <<0, 7>>

S == INSTANCE StunMsg WITH sent <- frames, taken <- cut, Templates <- {}, Frames <- {},
         Arrivals <- {}, AddrMap <- <<<<Public, Ip4(1).ip>>>>

Requests ==
    {S!AllocateRequest(l, f, mobile) : l \in {0, 300}, f \in 0..2, mobile \in BOOLEAN}
    \cup {S!ChannelBindRequest(n, a) : n \in {5, 16384, 32767}, a \in {Ip4(7), Ip6(7)}}
    \cup {S!Message("request", method, <<>>) : method \in {1, 12, 291, 2748}}
    \cup UNION {{S!Message("request", 1, <<attr>>) : attr \in
            {S!ChangeAttr(ip, port) : ip \in BOOLEAN, port \in BOOLEAN}
            \cup {S!PortAttr(40000), S!ChannelAttr(5), S!ChannelAttr(20000)}
            \cup {S!PaddingAttr(n) : n \in {0, 3, 6}} \cup {S!EvenPortAttr(e) : e \in {0, 1}}}}

Answers ==
    {S!AllocateResponse(a, Ip4(65535), l, token, ticket, 0) :
        a \in {Ip4(300), Ip6(300)}, l \in {0, 4000},
        token \in {<<>>, Words(2)}, ticket \in {<<>>, Words(2)}}
    \cup {S!AllocateResponse(Ip4(1), Ip4(1), 0, <<>>, <<>>, 486)}
    \cup {S!BindingResponse(a, code, cookie) :
            a \in {Ip4(9), Ip6(9)}, code \in {0, 420}, cookie \in {S!Cookie, OldTid}}
    \cup {S!Message("indication", method,
              <<S!AddrOf(18, a), S!Raw(26, <<>>, 0), S!Raw(19, Words((n + 3) \div 4), n)>>) :
            method \in {6, 7}, a \in {Ip4(1), Ip6(1)}, n \in 0..5}

Signed == {S!SignedBy(S!AllocateRequest(l, 1, TRUE), Words(u), Words(2), Words(r), key, sha) :
              l \in {0, 300}, u \in {1, 2}, r \in {1, 3}, key \in {1, 2}, sha \in {1, 256}}

Challenges == {[S!Message("error", 3, <<S!Raw(20, Words(1), 3), S!Raw(21, Words(2), 8)>>)
                   EXCEPT !.code = code] : code \in {401, 438}}

Built ==
    {[m EXCEPT !.fingerprint = f] :
        m \in Requests \cup Answers \cup Signed \cup Challenges, f \in BOOLEAN}
    \cup [class : {"channel"}, chn : {16384, 32767}, len : 0..9, padded : BOOLEAN]

\* Frames of a TCP stream: a request, an indication with three bytes of data,
\* channel messages of n bytes, a request of a browser.
Frame(words) == [w |-> words, n |-> 4 * Len(words)]
Tid == <<<<1, 2>>, <<3, 4>>, <<5, 6>>>>
Req == Frame(<<<<1, 0>>, S!Cookie>> \o Tid)
Ind == Frame(<<<<22, 8>>, S!Cookie>> \o Tid \o <<<<19, 3>>, <<7, 7>>>>)
Chn(n) == [w |-> <<<<16385, n>>>> \o [i \in 1..((n + 3) \div 4) |-> <<n, i>>], n |-> 4 + n]
Joined == [1..3 -> {Req, Ind, Chn(0), Chn(4), Chn(5), S!HttpGet}]

Messages == INSTANCE StunMsg WITH
    sent <- frames, taken <- cut, Templates <- Built, Frames <- {<<>>}, Arrivals <- {},
    AddrMap <- <<<<Public, Ip4(1).ip>>>>
Streams == INSTANCE StunMsg WITH
    sent <- frames, taken <- cut, Templates <- {}, Frames <- Joined, Arrivals <- {1, 3, 30},
    AddrMap <- <<>>

-----------------------------------------------------------------------------
Programs == {"kcp", "qt one", "qt two", "qt drop", "stun messages", "stun streams", "srudp",
             "p2psh far", "p2psh timers", "p2psh again", "troh back", "troh lost",
             "troh fails", "dns"}

Init ==
    /\ program \in Programs
    /\ Kcp!Init
    /\ IF program = "qt one" THEN QtOne!Init
       ELSE IF program = "qt drop" THEN QtDrop!Init ELSE QtTwo!Init
    /\ IF program = "stun streams" THEN Streams!Init ELSE Messages!Init
    /\ Srudp!Init
    /\ IF program = "p2psh again" THEN P2pAgain!Init
       ELSE IF program = "p2psh timers" THEN P2pTimers!Init ELSE P2pFar!Init
    /\ program \notin {"p2psh far", "p2psh timers", "p2psh again"} => stun["xshcli"].nonce = "none"
    /\ IF program = "troh fails" THEN TrohFails!Init
       ELSE IF program = "troh lost" THEN TrohLost!Init ELSE TrohBack!Init
    /\ Dns!Init

KcpNext == program = "kcp" /\ Kcp!Next

QtNext ==
    \/ program = "qt one" /\ QtOne!Next
    \/ program = "qt two" /\ QtTwo!Next
    \/ program = "qt drop" /\ QtDrop!Next

StunNext ==
    \/ program = "stun messages" /\ Messages!Next
    \/ program = "stun streams" /\ Streams!Next

SrudpNext == program = "srudp" /\ Srudp!Next

P2pNext ==
    \/ program = "p2psh far" /\ P2pFar!Next
    \/ program = "p2psh timers" /\ P2pTimers!Next
    \/ program = "p2psh again" /\ P2pAgain!Next

TrohNext ==
    \/ program = "troh back" /\ TrohBack!Next
    \/ program = "troh lost" /\ TrohLost!Next
    \/ program = "troh fails" /\ TrohFails!Next

DnsNext == program = "dns" /\ Dns!Next

Next ==
    /\ UNCHANGED program
    /\ \/ KcpNext /\ UNCHANGED <<qtVars, stunVars, srudpVars, p2pVars, trohVars, dnsVars>>
       \/ QtNext /\ UNCHANGED <<kcpVars, stunVars, srudpVars, p2pVars, trohVars, dnsVars>>
       \/ StunNext /\ UNCHANGED <<kcpVars, qtVars, srudpVars, p2pVars, trohVars, dnsVars>>
       \/ SrudpNext /\ UNCHANGED <<kcpVars, qtVars, stunVars, p2pVars, trohVars, dnsVars>>
       \/ P2pNext /\ UNCHANGED <<kcpVars, qtVars, stunVars, srudpVars, trohVars, dnsVars>>
       \/ TrohNext /\ UNCHANGED <<kcpVars, qtVars, stunVars, srudpVars, p2pVars, dnsVars>>
       \/ DnsNext /\ UNCHANGED <<kcpVars, qtVars, stunVars, srudpVars, p2pVars, trohVars>>

Spec == Init /\ [][Next]_allVars

-----------------------------------------------------------------------------
\* What one end reads is what the other wrote, whole and in order: the messages
\* of Kcp, the TCP connections of QtTun, P2pSh and Troh, the bytes of SrudpCpp,
\* and the messages that StunMsg cuts from a TCP stream.
StreamsIntact ==
    CASE program = "kcp" -> Kcp!StreamIntact
      [] program = "qt one" -> QtOne!StreamsIntact
      [] program = "qt two" -> QtTwo!StreamsIntact
      [] program = "qt drop" -> QtDrop!StreamsIntact
      [] program = "stun streams" -> Streams!StreamCutRight
      [] program = "srudp" -> Srudp!StreamKept
      [] program = "p2psh far" -> P2pFar!StreamsIntact
      [] program = "p2psh timers" -> P2pTimers!StreamsIntact
      [] program = "p2psh again" -> P2pAgain!StreamsIntact
      [] program = "troh back" -> TrohBack!StreamsIntact
      [] program = "troh lost" -> TrohLost!StreamsIntact
      [] program = "troh fails" -> TrohFails!StreamsIntact
      [] OTHER -> TRUE

\* kcp.go: the windows bound every buffer, and a queue that is full holds a
\* message that the reader can take.
WindowsHold == program = "kcp" => Kcp!WindowsHold /\ Kcp!QueueReadable

\* ns_turn_msg.c: a message reads back as it was built, and the receiver judges
\* it, its fingerprint and its integrity for what they are.  kdns.cpp: an answer
\* goes to who asked with its id, once a question, and with the addresses that
\* the name is to have.
MessagesRight ==
    /\ program = "stun messages" => Messages!ReadBack /\ Messages!JudgedRight
    /\ program = "dns" => Dns!AnswersToAskers /\ Dns!HijackedRight

\* toxtun: data, on one ENet channel, is not overtaken by the end of its
\* connection, on the other.
AllBeforeClose ==
    /\ program = "qt one" => QtOne!AllBeforeClose
    /\ program = "qt two" => QtTwo!AllBeforeClose
    /\ program = "qt drop" => QtDrop!AllBeforeClose

\* toxtun: peers that ENet uses again, and the channels that still know them,
\* lead neither process into its assertions, as long as ENet loses no connection
\* and none was closed for another's sake.
NoAssertFails ==
    /\ program = "qt one" => QtOne!NoAssertFails
    /\ program = "qt two" => QtTwo!NoAssertFails
    /\ program = "qt drop" => QtDrop!NoAssertFails

\* What the two ends of a session hold belongs together: peers and channels of
\* toxtun, the relayed path of p2psh, the user and sshd of trohd and trohc.
SessionsHold ==
    CASE program = "qt one" -> QtOne!TypeOK /\ QtOne!PeersOwnChannels
      [] program = "qt two" -> QtTwo!TypeOK /\ QtTwo!PeersOwnChannels
      [] program = "qt drop" -> QtDrop!TypeOK /\ QtDrop!PeersOwnChannels
      [] program = "p2psh far" -> P2pFar!PathOpen
      [] program = "p2psh timers" -> P2pTimers!PathOpen
      [] program = "p2psh again" -> P2pAgain!PathOpen
      [] program = "troh back" -> TrohBack!NoneLeftOpen
      [] program = "troh lost" -> TrohLost!NoneLeftOpen
      [] program = "troh fails" -> TrohFails!NoneLeftOpen
      [] OTHER -> TRUE
=============================================================================
