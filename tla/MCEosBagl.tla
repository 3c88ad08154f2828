------------------------------ MODULE MCEosBagl ------------------------------
(***************************************************************************)
(* The actions of EosSamples, reviewed on a device with buttons.           *)
(***************************************************************************)
EXTENDS EosBagl, EosSamples

MCTransactions == WholeTransactions \cup CutTransactions
=============================================================================
