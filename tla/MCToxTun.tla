------------------------------ MODULE MCToxTun ------------------------------
(***************************************************************************)
(* Instances of ToxTun for TLC; the cfg files give the constants.          *)
(***************************************************************************)
EXTENDS ToxTun

\* Connections differ in nothing but their names.
ConnSymmetry == Permutations(Conns)
=============================================================================
