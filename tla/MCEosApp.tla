------------------------------ MODULE MCEosApp ------------------------------
(***************************************************************************)
(* EosApp for TLC.  Paths are only compared, stored and sent, so any two   *)
(* of them may be exchanged.                                               *)
(***************************************************************************)
EXTENDS EosApp, TLC

PathSymmetry == Permutations(Paths)
=============================================================================
