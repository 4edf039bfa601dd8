---------------------------- MODULE MCToxNetTun ----------------------------
(***************************************************************************)
(* Instances of ToxNetTun for TLC; the cfg files give the constants.       *)
(***************************************************************************)
EXTENDS ToxNetTun
=============================================================================
