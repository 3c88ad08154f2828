-------------------------- MODULE EosAuthorizations --------------------------
(***************************************************************************)
(* The authorizations of an action as src/eos_stream.c counts them:        *)
(* EosReview with a history variable that counts the authorizations read   *)
(* since the list of the current action was announced.  The code compares  *)
(* its own index with the announced number for equality, so a list         *)
(* announced as empty goes on until the uint32_t has wrapped around.       *)
(***************************************************************************)
EXTENDS EosReview

VARIABLE authorizationsRead     \* history: since the size of the list was read

authorizationVars == <<reviewVars, authorizationsRead>>

(* The step is an iteration that completes the given field.                *)
Completes(field) == state = field /\ status = "RUNNING" /\ status' = "RUNNING"

AuthorizationsInit ==
    /\ ReviewInit
    /\ authorizationsRead = 0

CountAuthorizations ==
    authorizationsRead' =
        IF Completes(TLV_AUTHORIZATION_LIST_SIZE) THEN 0
        ELSE IF Completes(TLV_AUTHORIZATION_PERMISSION) THEN authorizationsRead + 1
        ELSE authorizationsRead

AuthorizationsNext == ReviewNext /\ CountAuthorizations

AuthorizationsSpec == AuthorizationsInit /\ [][AuthorizationsNext]_authorizationVars
----------------------------------------------------------------------------
(* How many authorizations are read when n of them are announced.          *)
AuthorizationsOf(n) == IF n = 0 THEN CounterMod ELSE n

(* The data of an action is read after as many authorizations as its own   *)
(* list announced, and after 2^32 of them if it announced none, whatever   *)
(* the index was left at by the list of an earlier action.                 *)
AuthorizationsAsAnnounced ==
    state = TLV_ACTION_DATA_SIZE =>
        authorizationsRead = AuthorizationsOf(currentAutorizationNumber)
=============================================================================
