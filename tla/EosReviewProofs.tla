--------------------------- MODULE EosReviewProofs ---------------------------
(***************************************************************************)
(* For every width of the counters: the parser's verdict STREAM_FINISHED   *)
(* comes after every action has been handed out for review.                *)
(***************************************************************************)
EXTENDS EosReview, TLAPS

(* An action that has been read but not yet handed out.                    *)
Unreturned == IF actionReady THEN 1 ELSE 0

(***************************************************************************)
(* The inductive invariant.  The index counts the actions that were read,  *)
(* so the ones handed out are the index, less the one still flagged as     *)
(* ready; where the index stands relative to the announced number depends  *)
(* only on the field being read; and the flag confirmProcessing lives      *)
(* exactly from the field that announces the list to the first verdict.    *)
(***************************************************************************)
BeforeTheList ==
    state <= TLV_ACTION_LIST_SIZE =>
        /\ currentActionIndex = 0 /\ ~actionReady
        /\ ~confirmProcessing /\ ~confirmed

IndexFollowsState ==
    /\ state \in TLV_ACTION_ACCOUNT..TLV_ACTION_DATA =>
           currentActionIndex < ActionsOf(currentActionNumber)
    /\ state > TLV_ACTION_DATA => currentActionIndex = ActionsOf(currentActionNumber)

ReturnedFollowsIndex == returned + Unreturned = currentActionIndex

WarningFollowsNumber ==
    /\ confirmProcessing => state = TLV_ACTION_ACCOUNT /\ currentActionIndex = 0 /\ ~confirmed
    /\ state > TLV_ACTION_LIST_SIZE =>
           (currentActionNumber > 1 <=> (confirmProcessing \/ confirmed))

VerdictFollowsState ==
    /\ status = "STREAM_FINISHED" => state = TLV_DONE /\ ~actionReady
    /\ status = "STREAM_CONFIRM_PROCESSING" =>
           /\ state = TLV_ACTION_ACCOUNT /\ currentActionIndex = 0
           /\ currentActionNumber > 1 /\ confirmed
    /\ status = "STREAM_ACTION_READY" => returned > 0

ReviewInv ==
    /\ ReviewTypeOK
    /\ BeforeTheList
    /\ IndexFollowsState
    /\ ReturnedFollowsIndex
    /\ WarningFollowsNumber
    /\ VerdictFollowsState

(* The TLV states are numbers with an order: the provers need their values. *)
USE DEF TLV_NONE, TLV_CHAIN_ID, TLV_HEADER_DELAY_SEC, TLV_CFA_LIST_SIZE,
        TLV_ACTION_LIST_SIZE, TLV_ACTION_ACCOUNT, TLV_ACTION_NAME,
        TLV_AUTHORIZATION_LIST_SIZE, TLV_AUTHORIZATION_ACTOR,
        TLV_AUTHORIZATION_PERMISSION, TLV_ACTION_DATA_SIZE, TLV_ACTION_DATA,
        TLV_TX_EXTENSION_LIST_SIZE, TLV_CONTEXT_FREE_DATA, TLV_DONE,
        txProcessingState_e, parserStatus_e, Status

(* What the proofs use of the counters.                                    *)
LEMMA CounterFacts ==
  /\ 0 \in Counter
  /\ Counter \subseteq Nat
  /\ \A n \in Counter : (n + 1) % CounterMod \in Counter
  /\ \A n \in Counter : n + 1 \in Counter => (n + 1) % CounterMod = n + 1
  /\ \A n \in Counter, m \in Counter : n < m => n + 1 \in Counter
  /\ 1 \in Counter
  BY CounterModAssumption DEF Counter

USE CounterFacts

(* The Boolean part of ReviewTypeOK, proved apart: no prover mixes Boolean  *)
(* variables with arithmetic well.                                         *)
FlagTypes ==
    /\ actionReady \in BOOLEAN /\ confirmProcessing \in BOOLEAN
    /\ dataAllowed \in BOOLEAN /\ known \in BOOLEAN /\ confirmed \in BOOLEAN

(* A freshly started program satisfies the invariant.                      *)
LEMMA ReviewInitInv == ReviewInit => ReviewInv
<1>1. ReviewInit => FlagTypes
  BY DEF ReviewInit, FlagTypes
<1> QED
  BY <1>1
  DEF FlagTypes, ReviewInit, ReviewInv, ReviewTypeOK, BeforeTheList, IndexFollowsState,
      ReturnedFollowsIndex, Unreturned, WarningFollowsNumber, VerdictFollowsState

(* Wiping the context, at the start of a transaction or of the program,    *)
(* establishes the invariant from any state.                               *)
LEMMA ClearContextInv ==
  ASSUME ClearContext, state' \in {TLV_NONE, TLV_CHAIN_ID}, dataAllowed' \in BOOLEAN
  PROVE  ReviewInv'
<1>1. FlagTypes'
  BY DEF ClearContext, FlagTypes
<1> QED
  BY <1>1
  DEF FlagTypes, ClearContext, ReviewInv, ReviewTypeOK, BeforeTheList, IndexFollowsState,
      ReturnedFollowsIndex, Unreturned, WarningFollowsNumber, VerdictFollowsState

(* A verdict other than the two reviews changes nothing but the status.    *)
LEMMA VerdictInv ==
  ASSUME NEW v \in Status, ReviewInv, Verdict(v),
         v \notin {"STREAM_CONFIRM_PROCESSING", "STREAM_ACTION_READY"},
         v = "STREAM_FINISHED" => state = TLV_DONE
  PROVE  ReviewInv'
  BY DEF Verdict, counterVars, ReviewInv, ReviewTypeOK, BeforeTheList, IndexFollowsState,
         ReturnedFollowsIndex, Unreturned, WarningFollowsNumber, VerdictFollowsState

(* Completing a field other than the two that move the action index.       *)
LEMMA OtherFieldInv ==
  ASSUME ReviewInv,
         \/ PlainFieldDone
         \/ \E k \in BOOLEAN : ActionNameDone(k)
         \/ \E n \in Counter : AuthorizationListSizeDone(n)
         \/ AuthorizationPermissionDone
  PROVE  ReviewInv'
<1>1. ReviewTypeOK'
  <2>1. CASE PlainFieldDone
    BY <2>1 DEF PlainFieldDone, PlainFields, HashedOnlyFields, HeaderFields,
                ZeroSizeFields, ReviewInv, ReviewTypeOK, counterVars
  <2>2. CASE \E k \in BOOLEAN : ActionNameDone(k)
    BY <2>2 DEF ActionNameDone, ReviewInv, ReviewTypeOK, counterVars
  <2>3. CASE \E n \in Counter : AuthorizationListSizeDone(n)
    BY <2>3 DEF AuthorizationListSizeDone, ReviewInv, ReviewTypeOK
  <2>4. CASE AuthorizationPermissionDone
    <3>1. currentAutorizationIndex' \in Counter
      BY <2>4 DEF AuthorizationPermissionDone, ReviewInv, ReviewTypeOK
    <3>2. state' \in txProcessingState_e
      BY <2>4 DEF AuthorizationPermissionDone
    <3> QED
      BY <2>4, <3>1, <3>2 DEF AuthorizationPermissionDone, ReviewInv, ReviewTypeOK
  <2> QED BY <2>1, <2>2, <2>3, <2>4
<1>2. /\ state \notin {TLV_NONE, TLV_ACTION_LIST_SIZE, TLV_ACTION_DATA, TLV_DONE}
      /\ \/ state' = state + 1
         \/ state = TLV_AUTHORIZATION_PERMISSION /\ state' = TLV_AUTHORIZATION_ACTOR
      /\ Reading
      /\ UNCHANGED <<actionReady, confirmProcessing, currentActionIndex,
                     currentActionNumber, status, returned, confirmed>>
  BY DEF PlainFieldDone, PlainFields, HashedOnlyFields, HeaderFields, ZeroSizeFields,
         ActionNameDone, AuthorizationListSizeDone, AuthorizationPermissionDone,
         counterVars
<1> QED
  BY <1>1, <1>2
  DEF Reading, ReviewInv, ReviewTypeOK, BeforeTheList, IndexFollowsState,
      ReturnedFollowsIndex, Unreturned, WarningFollowsNumber, VerdictFollowsState

(* Reading the announced number places the index before the first action   *)
(* and raises the warning exactly when there are several.                  *)
LEMMA ActionListSizeInv ==
  ASSUME NEW n \in Counter, ReviewInv, ActionListSizeDone(n)
  PROVE  ReviewInv'
<1>1. FlagTypes'
  BY DEF ActionListSizeDone, FlagTypes, ReviewInv, ReviewTypeOK
<1>2. confirmProcessing' <=> n > 1
  BY DEF ActionListSizeDone
<1>3. /\ state = TLV_ACTION_LIST_SIZE /\ state' = TLV_ACTION_ACCOUNT
      /\ currentActionNumber' = n /\ currentActionIndex' = 0
      /\ status = "RUNNING"
      /\ UNCHANGED <<actionReady, currentAutorizationIndex, currentAutorizationNumber,
                     status, returned, confirmed>>
  BY DEF ActionListSizeDone, Reading
<1> QED
  BY <1>1, <1>2, <1>3
  DEF FlagTypes, ActionsOf, ReviewInv, ReviewTypeOK, BeforeTheList, IndexFollowsState,
      ReturnedFollowsIndex, Unreturned, WarningFollowsNumber, VerdictFollowsState

(* Completing an action moves the index by one without wrapping, and leads *)
(* out of the list exactly when the announced number is reached.           *)
LEMMA ActionDataInv ==
  ASSUME ReviewInv, ActionDataDone
  PROVE  ReviewInv'
<1>1. /\ currentActionIndex < ActionsOf(currentActionNumber)
      /\ currentActionIndex + 1 \in Counter
  BY DEF ActionDataDone, ActionsOf, ReviewInv, ReviewTypeOK, IndexFollowsState
<1>2. currentActionIndex' = currentActionIndex + 1
  BY <1>1 DEF ActionDataDone, ReviewInv, ReviewTypeOK
<1>3. IF currentActionIndex + 1 < currentActionNumber
      THEN state' = TLV_ACTION_ACCOUNT
      ELSE state' = TLV_TX_EXTENSION_LIST_SIZE
  BY <1>2 DEF ActionDataDone
<1>4. FlagTypes'
  BY DEF ActionDataDone, FlagTypes, ReviewInv, ReviewTypeOK
<1>5. ReviewTypeOK'
  BY <1>1, <1>2, <1>3, <1>4 DEF FlagTypes, ActionDataDone, ReviewInv, ReviewTypeOK
<1> QED
  BY <1>1, <1>2, <1>3, <1>5
  DEF ActionDataDone, ActionsOf, Reading, ReviewInv, ReviewTypeOK, BeforeTheList,
      IndexFollowsState, ReturnedFollowsIndex, Unreturned, WarningFollowsNumber,
      VerdictFollowsState

(* Handing out the warning, or an action, lowers the flag it stands for.   *)
LEMMA ReturnReviewInv ==
  ASSUME ReviewInv, ReturnConfirm \/ ReturnActionReady
  PROVE  ReviewInv'
<1>1. CASE ReturnConfirm
  <2>1. FlagTypes'
    BY <1>1 DEF ReturnConfirm, FlagTypes, ReviewInv, ReviewTypeOK
  <2> QED
    BY <1>1, <2>1
    DEF FlagTypes, ReturnConfirm, counterVars, ReviewInv, ReviewTypeOK, BeforeTheList,
        IndexFollowsState, ReturnedFollowsIndex, Unreturned, WarningFollowsNumber,
        VerdictFollowsState
<1>2. CASE ReturnActionReady
  <2>1. FlagTypes'
    BY <1>2 DEF ReturnActionReady, FlagTypes, ReviewInv, ReviewTypeOK
  <2> QED
    BY <1>2, <2>1
    DEF FlagTypes, ReturnActionReady, counterVars, ReviewInv, ReviewTypeOK, BeforeTheList,
        IndexFollowsState, ReturnedFollowsIndex, Unreturned, WarningFollowsNumber,
        VerdictFollowsState
<1> QED BY <1>1, <1>2

(* Every step of the parser and of its callers preserves the invariant.    *)
LEMMA ReviewStepInv ==
  ASSUME ReviewInv, [ReviewNext]_reviewVars
  PROVE  ReviewInv'
<1>1. CASE \E allowed \in BOOLEAN : InitTxContext(allowed)
  BY <1>1, ClearContextInv DEF InitTxContext
<1>2. CASE Relaunch
  BY <1>2, ClearContextInv DEF Relaunch
<1>3. CASE ParseTx
  BY <1>3
  DEF ParseTx, counterVars, ReviewInv, ReviewTypeOK, BeforeTheList, IndexFollowsState,
      ReturnedFollowsIndex, Unreturned, WarningFollowsNumber, VerdictFollowsState
<1>4. CASE ReturnConfirm \/ ReturnActionReady
  BY <1>4, ReturnReviewInv
<1>5. CASE ReturnFinished \/ ReturnProcessing \/ ReturnFault \/ AssertFails
  BY <1>5, VerdictInv DEF ReturnFinished, ReturnProcessing, ReturnFault, AssertFails
<1>6. CASE FieldDone
  BY <1>6, OtherFieldInv, ActionListSizeInv, ActionDataInv DEF FieldDone
<1>7. CASE UNCHANGED reviewVars
  BY <1>7
  DEF reviewVars, counterVars, ReviewInv, ReviewTypeOK, BeforeTheList, IndexFollowsState,
      ReturnedFollowsIndex, Unreturned, WarningFollowsNumber, VerdictFollowsState
<1> QED
  BY <1>1, <1>2, <1>3, <1>4, <1>5, <1>6, <1>7 DEF ReviewNext

THEOREM ReviewInvariant == ReviewSpec => []ReviewInv
<1>1. ReviewInit => ReviewInv
  BY ReviewInitInv
<1>2. ReviewInv /\ [ReviewNext]_reviewVars => ReviewInv'
  BY ReviewStepInv
<1> QED BY <1>1, <1>2, PTL DEF ReviewSpec

(* The context fields of the parser keep their C types; in particular the  *)
(* action index never leaves the range of its counter.                     *)
THEOREM ReviewTypes == ReviewSpec => []ReviewTypeOK
<1>1. ReviewInv => ReviewTypeOK
  BY DEF ReviewInv
<1> QED BY <1>1, ReviewInvariant, PTL

(* parseTx returns STREAM_FINISHED only after it has handed out for review *)
(* each of the announced actions, once, and their number if above one.     *)
THEOREM ReviewComplete == ReviewSpec => []FinishedAfterEveryAction
<1>1. ReviewInv => FinishedAfterEveryAction
  BY DEF ReviewInv, ReviewTypeOK, IndexFollowsState, ReturnedFollowsIndex, Unreturned,
         WarningFollowsNumber, VerdictFollowsState, FinishedAfterEveryAction
<1> QED BY <1>1, ReviewInvariant, PTL

(* The warning that several actions follow precedes the first of them.     *)
THEOREM ReviewWarns == ReviewSpec => []WarningBeforeActions
<1>1. ReviewInv => WarningBeforeActions
  BY DEF ReviewInv, ReviewTypeOK, BeforeTheList, IndexFollowsState, ReturnedFollowsIndex,
         Unreturned, WarningFollowsNumber, VerdictFollowsState, WarningBeforeActions
<1> QED BY <1>1, ReviewInvariant, PTL
(* The number of actions the reader was told is never changed under a      *)
(* review that has begun, and no more actions than announced are handed    *)
(* out.                                                                    *)
THEOREM ReviewAdvances == ReviewSpec => ReviewOnlyAdvances
<1> DEFINE Advances == returned > 0 /\ status' # "IDLE" =>
        /\ currentActionNumber' = currentActionNumber
        /\ returned' \in {returned, returned + 1}
        /\ returned' <= ActionsOf(currentActionNumber)
<1>1. ReviewInv => returned <= ActionsOf(currentActionNumber)
  <2> SUFFICES ASSUME ReviewInv PROVE returned <= ActionsOf(currentActionNumber)
    OBVIOUS
  <2>1. returned <= currentActionIndex
    BY DEF ReviewInv, ReviewTypeOK, ReturnedFollowsIndex, Unreturned
  <2>2. currentActionIndex <= ActionsOf(currentActionNumber)
    BY DEF ReviewInv, ReviewTypeOK, BeforeTheList, IndexFollowsState, ActionsOf
  <2> QED
    BY <2>1, <2>2 DEF ReviewInv, ReviewTypeOK, ActionsOf
<1>2. (returned <= ActionsOf(currentActionNumber))' <=>
        returned' <= ActionsOf(currentActionNumber')
  BY DEF ActionsOf
<1>3. ReviewInv /\ [ReviewNext]_reviewVars
        /\ (returned <= ActionsOf(currentActionNumber))' => [Advances]_reviewVars
  <2> SUFFICES ASSUME ReviewInv, ReviewNext, returned > 0, status' # "IDLE",
                      (returned <= ActionsOf(currentActionNumber))'
               PROVE  Advances
    OBVIOUS
  <2>1. state > TLV_ACTION_LIST_SIZE
    BY DEF ReviewInv, ReviewTypeOK, BeforeTheList, ReturnedFollowsIndex, Unreturned
  <2>2. /\ currentActionNumber' = currentActionNumber
        /\ returned' \in {returned, returned + 1}
    BY <2>1
    DEF ReviewNext, InitTxContext, Relaunch, ClearContext, ParseTx, ReturnConfirm,
        ReturnActionReady, ReturnFinished, ReturnProcessing, ReturnFault, AssertFails, Verdict,
        FieldDone, PlainFieldDone, ActionListSizeDone, ActionNameDone,
        AuthorizationListSizeDone, AuthorizationPermissionDone, ActionDataDone, counterVars
  <2> QED
    BY <1>2, <2>2
<1> QED
  BY <1>1, <1>3, ReviewInvariant, PTL DEF ReviewSpec, ReviewOnlyAdvances
=============================================================================
