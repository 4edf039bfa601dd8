---------------------------- MODULE TurnBinding ----------------------------
(***************************************************************************)
(* Binding requests of the TURN server of dtnat: what it answers, from     *)
(* which of its addresses, and where to (RFC 5389, RFC 5780, and RFC 3489  *)
(* for old clients).  One request is one behaviour.                        *)
(***************************************************************************)
EXTENDS Integers, Sequences, SequencesExt, TLC

CONSTANTS
    Attributes,   \* what a request may hold, of the names below
    MaxLength     \* bound: how many it holds

VARIABLES
    transport, rfc5780, old,   \* the client's transport, the server's mode, the client's age
    attrs,                     \* the attributes of the request in their order
    answers                    \* what was sent: an error or a response, from where, to where

vars == <<transport, rfc5780, old, attrs, answers>>

Changes == {"change none", "change ip", "change port", "change both"}

Init ==
    /\ transport \in {"UDP", "DTLS", "TCP"}
    /\ rfc5780 \in BOOLEAN /\ old \in BOOLEAN
    /\ attrs \in UNION {[1..n -> Attributes] : n \in 0..MaxLength}
    /\ answers = <<>>

-----------------------------------------------------------------------------
(* handle_turn_binding.                                                    *)

Parsed == [err |-> 0, unknown |-> FALSE, ip |-> FALSE, port |-> FALSE,
           padding |-> FALSE, responsePort |-> FALSE, reflected |-> FALSE]

\* Mutant of Parse: padding after a response port is let through.
ParseLoose(r, a) ==
    CASE r.err # 0 -> r
      [] a \in Changes ->
            LET ip == a \in {"change ip", "change both"}
                port == a \in {"change port", "change both"}
            IN  [r EXCEPT !.ip = ip, !.port = port,
                          !.err = IF ~ip /\ ~port THEN 0
                                  ELSE IF ~rfc5780 THEN 420
                                  ELSE IF transport # "UDP" THEN 400 ELSE 0]
      [] a = "padding" ->
            IF transport = "TCP" THEN [r EXCEPT !.err = 400] ELSE [r EXCEPT !.padding = TRUE]
      [] a = "response port" ->
            IF r.padding \/ transport # "UDP" THEN [r EXCEPT !.err = 400]
            ELSE [r EXCEPT !.responsePort = TRUE]
      [] a = "response address" -> [r EXCEPT !.reflected = old]
      [] OTHER -> [r EXCEPT !.unknown = TRUE]

\* One attribute; nothing is read after an error.  A response address is known
\* to the server whatever the client's age: of a new client it is passed over,
\* of an old one it makes the response tell whom it reflects.
Parse(r, a) ==
    CASE r.err # 0 -> r
      [] a \in Changes ->
            LET ip == a \in {"change ip", "change both"}
                port == a \in {"change port", "change both"}
            IN  [r EXCEPT !.ip = ip, !.port = port,
                          !.err = IF ~ip /\ ~port THEN 0
                                  ELSE IF ~rfc5780 THEN 420
                                  ELSE IF transport # "UDP" THEN 400 ELSE 0]
      [] a = "padding" ->
            IF r.responsePort \/ transport = "TCP" THEN [r EXCEPT !.err = 400]
            ELSE [r EXCEPT !.padding = TRUE]
      [] a = "response port" ->
            IF r.padding \/ transport # "UDP" THEN [r EXCEPT !.err = 400]
            ELSE [r EXCEPT !.responsePort = TRUE]
      [] a = "response address" -> [r EXCEPT !.reflected = old]
      [] OTHER -> [r EXCEPT !.unknown = TRUE]

\* The response once the attributes are read: the origin's address and port,
\* changed or not, and the port it goes to.
Respond(r) ==
    IF r.unknown THEN [err |-> 420]
    ELSE IF r.err # 0 THEN [err |-> r.err]
    ELSE [err |-> 0, reflected |-> r.reflected,
          ip |-> rfc5780 /\ r.ip, port |-> rfc5780 /\ r.port,
          toResponsePort |-> rfc5780 /\ r.responsePort,
          padding |-> rfc5780 /\ r.padding]

\* handle_turn_command and handle_old_stun_command: a response whose origin or
\* destination is not the socket's goes out by send_turn_message_to, any other
\* by the socket.
Handle ==
    /\ answers = <<>>
    /\ LET r == Respond(FoldLeft(Parse, Parsed, attrs))
           elsewhere == r.err = 0 /\ (r.ip \/ r.port \/ r.toResponsePort)
       IN  answers' = IF elsewhere 
                      THEN <<[by |-> "other"] @@ r>>
                      ELSE <<[by |-> "socket"] @@ r>>
    /\ UNCHANGED <<transport, rfc5780, old, attrs>>

Next == Handle

-----------------------------------------------------------------------------
(* Properties.                                                             *)

TypeOK == Len(answers) \in 0..1

Has(a) == Contains(attrs, a)
LastChange == SelectSeq(attrs, LAMBDA a : a \in Changes)
AskedFor(change) ==
    LET c == LastChange IN c # <<>> /\ c[Len(c)] \in {change, "change both"}

\* In whatever order the attributes come, a request is refused exactly if one of
\* them does not go with the transport, the server or another; a response comes
\* from another address or port, or goes to another port, only if that was
\* asked for, by the last change request, over UDP, and never with padding.  A
\* response address refuses nobody and diverts nothing: an old client that sent
\* one reads in the response whom it reflects, a new one gets the usual answer.
AnsweredAsAsked ==
    answers # <<>> =>
        LET r == answers[1]
            offending ==
                \/ \E a \in Changes \ {"change none"} : Has(a) /\ ~(rfc5780 /\ transport = "UDP")
                \/ Has("padding") /\ (transport = "TCP" \/ Has("response port"))
                \/ Has("response port") /\ transport # "UDP"
                \/ Has("unknown")
        IN  /\ (r.err # 0) = offending
            /\ r.err = 0 =>
                  /\ r.ip = AskedFor("change ip") /\ r.port = AskedFor("change port")
                  /\ r.toResponsePort = (Has("response port") /\ rfc5780)
                  /\ r.reflected = (Has("response address") /\ old)
                  /\ (r.by = "other") = (r.ip \/ r.port \/ r.toResponsePort)
=============================================================================
