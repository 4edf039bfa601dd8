-------------------------------- MODULE P2pSh --------------------------------
(***************************************************************************)
(* p2psh: a shell reached through a TURN server.  Each process learns its  *)
(* mapped address (stunclient.cpp), connects to the relay (nathlp/         *)
(* rlysrv.cpp) and registers; a user's connection at xshcli.cpp asks       *)
(* regsrv.cpp, through the relay, for xshsrv, allocates a relayed address, *)
(* makes a permission for the peer and has xshsrv.cpp told the address;    *)
(* xshsrv connects to sshd and sends what it says to the relayed address.  *)
(*                                                                         *)
(* Relay messages are pieces of a byte stream: two may be read as one.     *)
(* STUN messages of the processes in Far are lost, late or repeated, and   *)
(* requests are sent again.  The datagrams of a session stand for the      *)
(* reliable ones of SrudpCpp: in order, delivered while the TURN server    *)
(* lets them through.                                                      *)
(***************************************************************************)
EXTENDS Integers, SequencesExt

CONSTANTS Far,           \* processes whose STUN messages are lost, late or repeated
          MaxLinks,      \* bound: relay connections of a process (a function)
          MaxAllocates,  \* bound: Allocate requests made
          MaxUsers,      \* bound: user connections
          Timers,        \* bound: whether the keep-alive timers fire
          MaxBytes       \* bound: pieces the user writes, and sshd

VARIABLES stun,          \* the StunClient of each process
          req, ans,      \* STUN requests and answers under way: <<process, message>>
          turn,          \* the TURN server
          rly,           \* the relay's connections
          up, down,      \* bytes to and from the relay on each connection
          known,         \* the peers regsrv knows
          cli, srv,      \* the two ends
          user, sshd,    \* what each wrote, and got
          toCli, toSrv,  \* session datagrams
          aborted        \* processes that ended in an assertion

stunVars == <<stun, req, ans, turn>>
relayVars == <<rly, up, down, known>>
dataVars == <<user, sshd, toCli, toSrv>>
vars == <<stunVars, relayVars, cli, srv, dataVars, aborted>>

Procs == {"regsrv", "xshsrv", "xshcli"}
Conns == {<<p, n>> : p \in Procs, n \in 1..2}
Running(p) == p \notin aborted

Msg(cmd, from, to) == [cmd |-> cmd, from |-> from, to |-> to, glued |-> FALSE]
Request(kind, tid, signed) == [kind |-> kind, tid |-> tid, signed |-> signed]
Binding == Request("binding", 0, FALSE)
NoRequest == Request("none", 0, FALSE)

\* The nonce may have been kept in a file from an earlier run; the server may have restarted.
Init ==
  /\ \E nonce \in {"none", "good", "stale"} :
       stun = [p \in Procs |-> [sending |-> Binding, tid |-> 0,
                                nonce |-> IF p = "xshcli" THEN nonce ELSE "none", link |-> 0]]
  /\ req = {<<p, Binding>> : p \in Procs} /\ ans = {}
  /\ turn = [tid |-> 0, perms |-> {}]
  /\ rly = [c \in Conns |-> [state |-> "none", name |-> "", type |-> ""]]
  /\ up = [c \in Conns |-> <<>>] /\ down = [c \in Conns |-> <<>>]
  /\ known = {}
  /\ cli = [conns |-> 0, signal |-> FALSE, avail |-> <<>>, peer |-> "", relayed |-> FALSE,
            permTimer |-> FALSE, permDone |-> FALSE, host |-> "", told |-> 0]
  /\ srv = [host |-> "", backends |-> 0, connected |-> FALSE]
  /\ user = [wrote |-> <<>>, got |-> <<>>] /\ sshd = [wrote |-> <<>>, got |-> <<>>]
  /\ toCli = <<>> /\ toSrv = <<>>
  /\ aborted = {}

(*************************** the TURN server ******************************)

Answers(m) ==
  LET Answer(result) == [kind |-> m.kind, tid |-> m.tid, result |-> result]
      renewed == m.kind = "allocate" /\ turn.tid = 0
  IN  CASE m.kind = "binding" -> Answer("success")
        [] m.kind # "binding" /\ m.signed = "none" -> Answer("401")
        [] m.kind # "binding" /\ m.signed = "stale" -> Answer("438")
        [] m.kind = "allocate" /\ m.signed = "good" ->
             Answer(IF renewed \/ turn.tid = m.tid THEN "success" ELSE "437")
        [] OTHER -> Answer("success")

\* A request that comes again is answered as before.
TurnServer ==
  \E r \in req : \E rest \in IF r[1] \in Far THEN {req, req \ {r}} ELSE {req \ {r}} :
    LET m == r[2]
    IN  /\ req' = rest
        /\ ans' = ans \cup {<<r[1], Answers(m)>>}
        /\ turn' = IF m.kind = "allocate" /\ m.signed = "good" /\ turn.tid = 0
                   THEN [turn EXCEPT !.tid = m.tid]
                   ELSE IF m.kind = "permission" /\ m.signed = "good"
                   THEN [turn EXCEPT !.perms = @ \cup {"xshsrv"}] ELSE turn
        /\ UNCHANGED <<stun, relayVars, cli, srv, dataVars, aborted>>

LoseRequest ==
  /\ \E r \in req : r[1] \in Far /\ req' = req \ {r}
  /\ UNCHANGED <<stun, ans, turn, relayVars, cli, srv, dataVars, aborted>>

(*************************** StunClient ***********************************)

\* One request is repeated every 2 s until any datagram comes.
Requesting(p, m) ==
  /\ req' = req \cup {<<p, m>>}
  /\ stun' = [stun EXCEPT ![p].sending = m]

Allocating(p) ==
  LET t == stun[p].tid + 1
      m == Request("allocate", t, stun[p].nonce)
  IN  /\ t <= MaxAllocates
      /\ req' = req \cup {<<p, m>>}
      /\ stun' = [stun EXCEPT ![p].sending = m, ![p].tid = t]

Retry(p) ==
  /\ p \in Far /\ Running(p) /\ stun[p].sending # NoRequest
  /\ req' = req \cup {<<p, stun[p].sending>>}
  /\ UNCHANGED <<stun, ans, turn, relayVars, cli, srv, dataVars, aborted>>

\* The answer is taken; the retry, of whatever request, is over.
Answered(p, a) ==
  /\ Running(p) /\ <<p, a>> \in ans
  /\ ans' \in IF p \in Far THEN {ans, ans \ {<<p, a>>}} ELSE {ans \ {<<p, a>>}}

Silent(p) == stun' = [stun EXCEPT ![p].sending = NoRequest] /\ UNCHANGED req

\* Another connection to the relay with every answer, but for xshsrv, which has one.
OnMappedAddress(p) ==
  LET c == <<p, stun[p].link + 1>>
      connects == p # "xshsrv" \/ stun[p].link = 0
  IN  \E a \in {b[2] : b \in ans} :
        /\ a.kind = "binding" /\ Answered(p, a)
        /\ connects => c[2] <= MaxLinks[p]
        /\ stun' = [stun EXCEPT ![p].sending = NoRequest,
                                ![p].link = IF connects THEN c[2] ELSE stun[p].link]
        /\ rly' = IF connects THEN [rly EXCEPT ![c].state = "connecting"] ELSE rly
        /\ UNCHANGED <<req, turn, up, down, known, cli, srv, dataVars, aborted>>

\* xshsrv asks again every 52 s, to keep its mapping.
KeepAlive ==
  /\ Timers /\ stun["xshsrv"].link = 1 /\ ~\E r \in req \cup ans : r[1] = "xshsrv"
  /\ Requesting("xshsrv", Binding)
  /\ UNCHANGED <<ans, turn, relayVars, cli, srv, dataVars, aborted>>

Perm == Request("permission", 0, stun["xshcli"].nonce)

\* onAllocateDone: a permission for the peer.
OnAllocateSuccess ==
  \E a \in {b[2] : b \in ans} :
    /\ a.kind = "allocate" /\ a.result = "success" /\ Answered("xshcli", a)
    /\ cli' = [cli EXCEPT !.relayed = TRUE]
    /\ Requesting("xshcli", Perm)
    /\ UNCHANGED <<turn, relayVars, srv, dataVars, aborted>>

\* A challenge brings the nonce and, to an Allocate, another Allocate; errors 437 and 438
\* then run into their assertions, the Allocate of a 438 being out already.
OnAllocateError ==
  \E a \in {b[2] : b \in ans} :
    /\ a.kind = "allocate" /\ a.result # "success" /\ Answered("xshcli", a)
    /\ IF a.result = "401"
       THEN /\ stun["xshcli"].tid < MaxAllocates
            /\ LET m == Request("allocate", stun["xshcli"].tid + 1, "good")
               IN  /\ req' = req \cup {<<"xshcli", m>>}
                   /\ stun' = [stun EXCEPT !["xshcli"].sending = m, !["xshcli"].nonce = "good",
                                           !["xshcli"].tid = m.tid]
            /\ UNCHANGED aborted
       ELSE aborted' = aborted \cup {"xshcli"} /\ UNCHANGED <<stun, req>>
    /\ UNCHANGED <<turn, relayVars, cli, srv, dataVars>>

\* Mutant of FirstPermission: every answer counts.
FirstPermissionAny == TRUE
FirstPermission == ~cli.permTimer

\* createPermissionDone, the first time only: xshsrv is told the relayed address.
OnPermission ==
  \E a \in {b[2] : b \in ans} :
    /\ a.kind = "permission" /\ Answered("xshcli", a)
    /\ Silent("xshcli")
    /\ cli' = [cli EXCEPT !.permTimer = TRUE]
    /\ up' = IF FirstPermission
             THEN [up EXCEPT ![<<"xshcli", stun["xshcli"].link>>] =
                               Append(@, Msg("relay_info_req", "xshcli", "xshsrv"))] ELSE up
    /\ UNCHANGED <<turn, rly, down, known, srv, dataVars, aborted>>

OnRefreshed ==
  \E a \in {b[2] : b \in ans} :
    /\ a.kind = "refresh" /\ Answered("xshcli", a)
    /\ Silent("xshcli")
    /\ UNCHANGED <<turn, relayVars, cli, srv, dataVars, aborted>>

\* Timers of the allocation (60 s) and of the permission (18 s).
PermKeepAlive ==
  /\ Timers /\ cli.permTimer /\ Running("xshcli")
  /\ Requesting("xshcli", Perm)
  /\ UNCHANGED <<ans, turn, relayVars, cli, srv, dataVars, aborted>>

Refresh ==
  /\ Timers /\ cli.relayed /\ Running("xshcli")
  /\ req' = req \cup {<<"xshcli", Request("refresh", 0, stun["xshcli"].nonce)>>}
  /\ UNCHANGED <<stun, ans, turn, relayVars, cli, srv, dataVars, aborted>>

(*************************** relay and registration ***********************)

Current(p) == <<p, stun[p].link>>

\* The relay accepts; register goes out on the socket the process has now.
RelayConnected(c) ==
  /\ rly[c].state = "connecting" /\ Running(c[1])
  /\ rly' = [rly EXCEPT ![c].state = "open"]
  /\ up' = [up EXCEPT ![Current(c[1])] = Append(@, Msg("register", c[1], c[1]))]
  /\ UNCHANGED <<stunVars, down, known, cli, srv, dataVars, aborted>>

\* What is read at once is taken for one message, the first.
Glued(msgs) == [Head(msgs) EXCEPT !.glued = @ \/ Len(msgs) > 1]

\* An older connection of the same name is closed; everything but regsrv's own register is
\* passed to regsrv, and what regsrv says to the peer it names.
RelayRead(c) ==
  \E k \in 1..Len(up[c]) :
    LET m == Glued(SubSeq(up[c], 1, k))
        named == IF m.cmd = "register" THEN [rly EXCEPT ![c].name = m.from, ![c].type = m.to] ELSE rly
        older == {d \in Conns : /\ m.cmd = "register" /\ d # c /\ named[d].state = "open"
                                /\ named[d].name = m.from}
        peers == {d \in Conns : named[d].state = "open" /\ d \notin older}
        servers == {d \in peers : named[d].type = "regsrv"}
        targets == IF m.cmd = "register" /\ m.to = "regsrv" THEN {}
                   ELSE IF c \in servers THEN {d \in peers : named[d].name = m.to} ELSE servers
    IN  /\ rly[c].state = "open"
        /\ rly' = [d \in Conns |-> IF d \in older THEN [named[d] EXCEPT !.state = "closed"] ELSE named[d]]
        /\ up' = [up EXCEPT ![c] = SubSeq(@, k + 1, Len(@))]
        /\ IF targets = {} THEN down' = down
           ELSE \E d \in targets : down' = [down EXCEPT ![d] = Append(@, m)]
        /\ UNCHANGED <<stunVars, known, cli, srv, dataVars, aborted>>

\* The process reads its current socket, whichever has something: an old one that has leaves
\* it with an empty list, and the second element of that is an assertion.
Reads(c, k) == /\ Running(c[1]) /\ k \in 1..Len(down[c]) /\ c = Current(c[1])
               /\ down' = [down EXCEPT ![c] = SubSeq(@, k + 1, Len(@))]

ReadsOld(c) ==
  /\ Running(c[1]) /\ down[c] # <<>> /\ c # Current(c[1])
  /\ aborted' = aborted \cup {c[1]}
  /\ UNCHANGED <<stunVars, relayVars, cli, srv, dataVars>>

RegSrvRead(c) ==
  \E k \in 1..Len(down[c]) :
    LET m == Glued(SubSeq(down[c], 1, k))
        Reply(r) == up' = [up EXCEPT ![c] = Append(@, r)]
    IN  /\ c[1] = "regsrv" /\ Reads(c, k)
        /\ known' = IF m.cmd = "register" THEN known \cup {m.from} ELSE known
        /\ IF m.cmd = "get_peer_info_req" /\ {m.from, m.to} \subseteq known
           THEN Reply(Msg("get_peer_info_rsp", m.to, m.from))
           ELSE IF m.cmd = "relay_info_req" THEN Reply(m) ELSE up' = up
        /\ UNCHANGED <<stunVars, rly, cli, srv, dataVars, aborted>>

XshCliRead(c) ==
  \E k \in 1..Len(down[c]) :
    LET m == Glued(SubSeq(down[c], 1, k))
    IN  /\ c[1] = "xshcli" /\ Reads(c, k)
        /\ IF m.cmd = "get_peer_info_rsp"
           THEN cli' = [cli EXCEPT !.peer = m.from] /\ Allocating("xshcli")
           ELSE UNCHANGED <<cli, stun, req>>
        /\ UNCHANGED <<ans, turn, rly, up, known, srv, dataVars, aborted>>

\* With a message glued to it the port of the relayed address reads as 0.
XshSrvRead(c) ==
  \E k \in 1..Len(down[c]) :
    LET m == Glued(SubSeq(down[c], 1, k))
    IN  /\ c[1] = "xshsrv" /\ Reads(c, k)
        /\ srv' = IF m.cmd = "relay_info_req"
                  THEN [host |-> IF m.glued THEN "port 0" ELSE "relayed",
                        backends |-> srv.backends + 1, connected |-> FALSE]
                  ELSE srv
        /\ UNCHANGED <<stunVars, rly, up, known, cli, dataVars, aborted>>

(*************************** the session **********************************)

\* A user connects once xshcli has a socket to the relay.
UserConnect ==
  /\ cli.conns < MaxUsers /\ stun["xshcli"].link > 0 /\ Running("xshcli")
  /\ cli' = [cli EXCEPT !.conns = @ + 1]
  /\ up' = [up EXCEPT ![Current("xshcli")] = Append(@, Msg("get_peer_info_req", "xshcli", "xshsrv"))]
  /\ UNCHANGED <<stunVars, rly, down, known, srv, dataVars, aborted>>

UserWrite ==
  LET b == Len(user.wrote) + 1
  IN  /\ cli.conns > 0 /\ b <= MaxBytes
      /\ user' = [user EXCEPT !.wrote = Append(@, b)]
      /\ cli' = [cli EXCEPT !.avail = Append(@, b), !.signal = TRUE]
      /\ UNCHANGED <<stunVars, relayVars, srv, sshd, toCli, toSrv, aborted>>

\* Before the first packet nothing is read.
BackendReadyRead ==
  /\ cli.signal /\ Running("xshcli")
  /\ cli' = [cli EXCEPT !.signal = FALSE, !.avail = IF cli.permDone THEN <<>> ELSE @]
  /\ toSrv' = IF cli.permDone /\ cli.avail # <<>> THEN Append(toSrv, cli.avail) ELSE toSrv
  /\ UNCHANGED <<stunVars, relayVars, srv, user, sshd, toCli, aborted>>

BackendConnected ==
  /\ srv.backends > 0 /\ ~srv.connected
  /\ srv' = [srv EXCEPT !.connected = TRUE]
  /\ UNCHANGED <<stunVars, relayVars, cli, dataVars, aborted>>

\* What sshd says goes out at once, to the relayed address.
SshdWrite ==
  LET b == Len(sshd.wrote) + 1
  IN  /\ srv.connected /\ b <= MaxBytes
      /\ sshd' = [sshd EXCEPT !.wrote = Append(@, b)]
      /\ toCli' = Append(toCli, <<b>>)
      /\ UNCHANGED <<stunVars, relayVars, cli, srv, user, toSrv, aborted>>

Through == srv.host = "relayed" /\ turn.tid > 0 /\ "xshsrv" \in turn.perms

\* Mutant of FirstPacket: what the user wrote before is not sent.
FirstPacketOnly == [cli EXCEPT !.host = "xshsrv", !.permDone = TRUE]

\* The first packet shows the connection is there; what the user wrote until now is read.
FirstPacket == [cli EXCEPT !.host = "xshsrv", !.permDone = TRUE, !.avail = <<>>]

OnPacket ==
  /\ toCli # <<>> /\ Through /\ Running("xshcli")
  /\ toCli' = Tail(toCli)
  /\ user' = [user EXCEPT !.got = @ \o Head(toCli)]
  /\ IF user.got # <<>> THEN UNCHANGED <<cli, toSrv>>
     ELSE /\ cli' = FirstPacket
          /\ toSrv' = IF cli.avail = FirstPacket.avail THEN toSrv ELSE Append(toSrv, cli.avail)
  /\ stun' = [stun EXCEPT !["xshcli"].sending = NoRequest]
  /\ UNCHANGED <<req, ans, turn, relayVars, srv, sshd, aborted>>

\* Dropped when there is no socket to sshd.
SrvOnPacket ==
  /\ toSrv # <<>> /\ Through
  /\ toSrv' = Tail(toSrv)
  /\ sshd' = IF srv.backends > 0 THEN [sshd EXCEPT !.got = @ \o Head(toSrv)] ELSE sshd
  /\ UNCHANGED <<stunVars, relayVars, cli, srv, user, toCli, aborted>>

Next ==
  \/ TurnServer \/ LoseRequest
  \/ \E p \in Procs : Retry(p) \/ OnMappedAddress(p)
  \/ KeepAlive \/ OnAllocateSuccess \/ OnAllocateError \/ OnPermission \/ OnRefreshed
  \/ PermKeepAlive \/ Refresh
  \/ \E c \in Conns : RelayConnected(c) \/ RelayRead(c) \/ ReadsOld(c) \/ RegSrvRead(c)
                        \/ XshCliRead(c) \/ XshSrvRead(c)
  \/ UserConnect \/ UserWrite \/ BackendReadyRead \/ BackendConnected \/ SshdWrite
  \/ OnPacket \/ SrvOnPacket

Spec == Init /\ [][Next]_vars

(*************************** properties ***********************************)

\* xshsrv sends to the relayed address only when that is allocated and lets it through, and
\* connects to sshd once, however often requests and answers are repeated.
PathOpen ==
  /\ srv.host # "" => cli.relayed /\ turn.tid > 0 /\ "xshsrv" \in turn.perms
  /\ srv.backends <= 1
  /\ cli.permDone => cli.peer = "xshsrv" /\ srv.backends = 1

\* sshd reads what the user wrote, in order, and the other way round; what the user wrote
\* before the path was there is not left in the socket.
StreamsIntact ==
  /\ IsPrefix(sshd.got, user.wrote) /\ IsPrefix(user.got, sshd.wrote)
  /\ cli.permDone /\ ~cli.signal => cli.avail = <<>>
  /\ sshd.got \o FlattenSeq(toSrv) \o cli.avail = user.wrote
==============================================================================
