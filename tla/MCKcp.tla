------------------------------- MODULE MCKcp -------------------------------
(***************************************************************************)
(* Kcp for TLC: the client sends seven fragments, more than there are      *)
(* sequence numbers, and the server only answers.                          *)
(***************************************************************************)
EXTENDS Kcp

OneWay7 == [e \in Ends |-> IF e = "client" THEN 7 ELSE 0]

\* Two acknowledgements under way to the client can change places.
OneTwo == [e \in Ends |-> IF e = "client" THEN 2 ELSE 1]
=============================================================================
