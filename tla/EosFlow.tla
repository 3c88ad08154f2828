------------------------------- MODULE EosFlow -------------------------------
(***************************************************************************)
(* The way of the user through the review of one action on a device with   *)
(* two buttons: the flow ux_single_action_sign_flow of src/ui_bagl.c, for  *)
(* an action with any number of arguments.  One step of the flow displays  *)
(* all arguments.  It lies between two borders that are never displayed:   *)
(* entering one sends the user back to the step with the next or the       *)
(* previous argument, or lets the user out.                                *)
(*                                                                         *)
(* The pages a long text is split into are left to the SDK.                *)
(***************************************************************************)
EXTENDS Naturals

CONSTANT MaxArguments       \* 255 in the code, argumentCount is a char

ASSUME FlowAssumption == MaxArguments \in Nat

VARIABLES
    flow,           \* the step that is displayed, 0 for none
    ux_step,
    ux_step_count,
    seen            \* history: the arguments displayed in this review

flowVars == <<flow, ux_step, ux_step_count, seen>>

(* The steps of the flow that matter here; 1 to 3 show that a review       *)
(* begins, the contract and the action.                                    *)
ACTION_STEP == 3
VARIABLE_STEP == 5
CONFIRM_STEP == 7
CANCEL_STEP == 8

NoFlow == flow = 0
Reviewing == flow # 0

FlowInit ==
    /\ flow = 0 /\ ux_step = 0 /\ ux_step_count = 0
    /\ seen = {}

(* ui_display_single_action_sign_flow                                      *)
StartFlow(n) ==
    /\ NoFlow
    /\ flow' = 1
    /\ ux_step' = 0
    /\ ux_step_count' = n
    /\ seen' = {}

----------------------------------------------------------------------------
(* display_next_state on a border: the argument that is next, and the step *)
(* the flow moves on to.                                                   *)
To(step, next) == [ux_step |-> step, flow |-> next]

LeftBorder(step) ==
    CASE step = 0 -> To(1, VARIABLE_STEP)
      [] step = 1 -> To(0, ACTION_STEP)
      [] step > 1 -> To(step - 1, VARIABLE_STEP)

RightBorderEarly(step, count) ==
    CASE step < count - 1 -> To(step + 1, VARIABLE_STEP)
      [] step = count - 1 \/ step = count -> To(count + 1, CONFIRM_STEP)
      [] step > count -> To(count, VARIABLE_STEP)
RightBorderRestarts(step, count) ==
    CASE step < count -> To(step + 1, VARIABLE_STEP)
      [] step = count -> To(1, VARIABLE_STEP)
      [] step > count -> To(count, VARIABLE_STEP)
RightBorder(step, count) ==
    CASE step < count -> To(step + 1, VARIABLE_STEP)
      [] step = count -> To(step + 1, CONFIRM_STEP)
      [] step > count -> To(count, VARIABLE_STEP)

Right ==
    IF flow = ACTION_STEP THEN LeftBorder(ux_step)
    ELSE IF flow = VARIABLE_STEP THEN RightBorder(ux_step, ux_step_count)
    ELSE To(ux_step, flow + 1)

Left ==
    IF flow = VARIABLE_STEP THEN LeftBorder(ux_step)
    ELSE IF flow = CONFIRM_STEP THEN RightBorder(ux_step, ux_step_count)
    ELSE To(ux_step, flow - 1)

(* The flow arrives at a step, which is displayed.                         *)
Arrive(to) ==
    /\ flow' = to.flow
    /\ ux_step' = to.ux_step
    /\ seen' = IF to.flow = VARIABLE_STEP THEN seen \cup {to.ux_step} ELSE seen
    /\ UNCHANGED ux_step_count

(* ux_flow_next and ux_flow_prev do nothing at the ends of the flow.       *)
CanGoRight == Reviewing /\ flow < CANCEL_STEP
CanGoLeft == Reviewing /\ flow > 1
GoRight == CanGoRight /\ Arrive(Right)
GoLeft == CanGoLeft /\ Arrive(Left)

(* Both buttons, on the last two steps: the action is accepted or the      *)
(* transaction is cancelled.                                               *)
Decide ==
    /\ flow \in {CONFIRM_STEP, CANCEL_STEP}
    /\ flow' = 0
    /\ UNCHANGED <<ux_step, ux_step_count, seen>>

(* The argument that is next fails an assertion: the program ends.         *)
Abandon ==
    /\ Reviewing
    /\ flow' = 0
    /\ UNCHANGED <<ux_step, ux_step_count, seen>>

FlowNext ==
    \/ \E n \in 0..MaxArguments : StartFlow(n)
    \/ GoRight
    \/ GoLeft
    \/ Decide
    \/ Abandon

FlowSpec == FlowInit /\ [][FlowNext]_flowVars

----------------------------------------------------------------------------
FlowTypeOK ==
    /\ flow \in {0, 1, 2, ACTION_STEP, VARIABLE_STEP, CONFIRM_STEP, CANCEL_STEP}
    /\ ux_step \in 0..(MaxArguments + 1)
    /\ ux_step_count \in 0..MaxArguments
    /\ seen \subseteq 0..(MaxArguments + 1)

(* Whichever way the user turns, the steps that accept and cancel are      *)
(* reached only after every argument has been on the screen, and the       *)
(* argument on the screen is never one the action does not have.           *)
EveryArgumentSeen ==
    Reviewing /\ ux_step_count > 0 =>
        /\ flow \in {CONFIRM_STEP, CANCEL_STEP} => seen = 1..ux_step_count
        /\ flow = VARIABLE_STEP => ux_step \in 1..ux_step_count
=============================================================================
