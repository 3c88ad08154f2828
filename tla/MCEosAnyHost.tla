---------------------------- MODULE MCEosAnyHost ----------------------------
(***************************************************************************)
(* EosApp for TLC with a host that sends anything, and the authorizations  *)
(* of each action counted beside the parser.                               *)
(***************************************************************************)
EXTENDS EosApp, EosAuthorizations

AnyHostSpec ==
    /\ AppInit /\ authorizationsRead = 0
    /\ [][AppNext /\ CountAuthorizations]_<<vars, authorizationsRead>>
    /\ AppFairness
=============================================================================
