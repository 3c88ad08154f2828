------------------------------- MODULE EosBagl -------------------------------
(***************************************************************************)
(* The review of the actions of a transaction on a device with two         *)
(* buttons: what the flow of EosFlow puts on the screen.                   *)
(***************************************************************************)
EXTENDS EosDisplay, EosFlow

ASSUME BaglAssumption == MaxArguments >= MaxArgNum

vars == <<displayVars, flowVars>>

BaglInit == DisplayInit /\ FlowInit

ui_display_single_action_sign_flow_stale ==
    /\ ActionReady
    /\ IF outcome' = "ASSERT" THEN UNCHANGED flowVars
       ELSE /\ NoFlow /\ flow' = 1
            /\ ux_step_count' = argumentCount' /\ seen' = {}
            /\ UNCHANGED ux_step
ui_display_single_action_sign_flow ==
    /\ ActionReady
    /\ IF outcome' = "ASSERT" THEN UNCHANGED flowVars ELSE StartFlow(argumentCount')

(* The flow moves to a step; on its way to the variable one the argument   *)
(* is printed (its number is passed as a uint8_t).                         *)
MoveAfterAssert(to) ==
    /\ IF to.flow = VARIABLE_STEP
       THEN Display((to.ux_step + MaxArgNum) % (MaxArgNum + 1))
       ELSE UNCHANGED <<arg, outcome>>
    /\ Arrive(to)
    /\ UNCHANGED <<actions, currentActionIndex, context, argumentCount>>
Move(to) ==
    /\ IF to.flow = VARIABLE_STEP
       THEN Display((to.ux_step + MaxArgNum) % (MaxArgNum + 1))
       ELSE UNCHANGED <<arg, outcome>>
    /\ IF outcome' = "ASSERT" THEN Abandon ELSE Arrive(to)
    /\ UNCHANGED <<actions, currentActionIndex, context, argumentCount>>

PressRight == CanGoRight /\ Move(Right)
PressLeft == CanGoLeft /\ Move(Left)

(* Both buttons: user_action_sign_flow_ok lets the parser run on,          *)
(* user_action_tx_cancel ends the transaction.                             *)
PressBoth ==
    /\ Decide
    /\ outcome' = IF flow = CONFIRM_STEP THEN "accepted" ELSE "cancelled"
    /\ UNCHANGED <<actions, currentActionIndex, context, argumentCount, arg>>

Begin ==
    /\ \E t \in Transactions : BeginTransaction(t) \/ Relaunch(t)
    /\ UNCHANGED flowVars

BaglNext ==
    \/ Begin
    \/ ui_display_single_action_sign_flow
    \/ PressRight
    \/ PressLeft
    \/ PressBoth

BaglSpec == BaglInit /\ [][BaglNext]_vars

(* The user does not put the device away for good: what PressRight does to *)
(* the flow happens in the end where it can.                               *)
FairBaglSpec == BaglSpec /\ WF_flowVars(CanGoRight /\ (Arrive(Right) \/ Abandon))

----------------------------------------------------------------------------
BaglTypeOK ==
    /\ FlowTypeOK
    /\ argumentCount \in 0..MaxArgNum
    /\ outcome \in {"reviewing", "accepted", "cancelled", "ASSERT"}
    /\ outcome = "reviewing" <=> Reviewing

(* The decoders are right, and the argument on the screen, and the number  *)
(* of arguments, are those the sender of the transaction means.            *)
ReviewShowsArguments ==
    /\ DecodesRight
    /\ Reviewing /\ Current.wellFormed =>
           /\ ux_step_count = Len(Current.pages)
           /\ flow = VARIABLE_STEP => Shown(arg) = Current.pages[ux_step]

(* The assertions "parseActionData Insufficient buffer" of src/eos_parse.c:*)
(* what is on the screen is part of the data of the action, even if the    *)
(* data is shorter than the action needs.                                  *)
PageInsideData ==
    Reviewing /\ flow = VARIABLE_STEP => InsideData(arg)

(* The screens of a review follow the flow: what EosFlow proves for any    *)
(* number of arguments holds of the arguments this review displays.        *)
ImplementsFlow == FlowSpec

(* A user who does not turn back for ever gets through the arguments to    *)
(* the step that accepts, unless an argument fails an assertion.           *)
ForwardLeadsToDecision ==
    \/ flow = 1 ~> flow \in {0, CONFIRM_STEP}
    \/ []<><<GoLeft>>_flowVars
=============================================================================
