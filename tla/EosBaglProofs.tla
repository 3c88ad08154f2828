---------------------------- MODULE EosBaglProofs ----------------------------
(***************************************************************************)
(* On a device with buttons the user has seen all arguments of an action   *)
(* before accepting it, and each of them as printArgument has put it on    *)
(* the screen.  First the flow alone, for any number of arguments; then    *)
(* the screens, which follow it.                                           *)
(***************************************************************************)
EXTENDS EosBagl, EosLemmas

(* Behind the first steps no argument has been left; in the middle all up  *)
(* to the one on the screen have been seen; behind the last steps all.     *)
Position ==
    /\ seen \subseteq 1..ux_step_count
    /\ flow \in 1..ACTION_STEP => ux_step = 0
    /\ flow = VARIABLE_STEP => ux_step \in 1..ux_step_count /\ 1..ux_step \subseteq seen
    /\ flow \in {CONFIRM_STEP, CANCEL_STEP} =>
           ux_step = ux_step_count + 1 /\ 1..ux_step_count \subseteq seen

FlowInv ==
    /\ FlowTypeOK
    /\ Reviewing /\ ux_step_count > 0 => Position

(* The flow may move on to step f of the flow with ux_step s.              *)
Fits(s, f) ==
    /\ s \in 0..(MaxArguments + 1)
    /\ f \in {1, 2, ACTION_STEP, VARIABLE_STEP, CONFIRM_STEP, CANCEL_STEP}
    /\ ux_step_count > 0 =>
           /\ f \in {1, 2, ACTION_STEP} => s = 0
           /\ f = VARIABLE_STEP => s \in 1..ux_step_count /\ 1..(s - 1) \subseteq seen
           /\ f \in {CONFIRM_STEP, CANCEL_STEP} =>
                  s = ux_step_count + 1 /\ 1..ux_step_count \subseteq seen

(* Where an arrow leads from an argument, and from each side of them.      *)
LEMMA Borders ==
    ASSUME NEW step \in Nat, NEW count \in Nat
    PROVE  /\ step = 0 => LeftBorder(step) = To(1, VARIABLE_STEP)
           /\ step = 1 => LeftBorder(step) = To(0, ACTION_STEP)
           /\ step > 1 => LeftBorder(step) = To(step - 1, VARIABLE_STEP)
           /\ step < count => RightBorder(step, count) = To(step + 1, VARIABLE_STEP)
           /\ step = count => RightBorder(step, count) = To(step + 1, CONFIRM_STEP)
           /\ step > count => RightBorder(step, count) = To(count, VARIABLE_STEP)
BY DEF LeftBorder, RightBorder

(* To arrive where the position fits keeps the invariant.                  *)
LEMMA ArrivalKeepsInv ==
    ASSUME FlowInv, Reviewing, NEW s, NEW f, Fits(s, f), Arrive(To(s, f))
    PROVE  FlowInv'
<1> USE FlowAssumption DEF ACTION_STEP, VARIABLE_STEP, CONFIRM_STEP, CANCEL_STEP
<1>1. /\ flow' = f /\ ux_step' = s /\ ux_step_count' = ux_step_count
      /\ seen' = IF f = VARIABLE_STEP THEN seen \cup {s} ELSE seen
  BY DEF Arrive, To
<1>2. FlowTypeOK'
  BY <1>1 DEF FlowInv, FlowTypeOK, Fits
<1>3. ASSUME ux_step_count > 0 PROVE Position'
  <2>0. ux_step_count \in Nat /\ seen \subseteq 1..ux_step_count
    BY <1>3 DEF FlowInv, FlowTypeOK, Position
  <2>1. CASE f \in {1, 2, ACTION_STEP}
    BY <1>1, <1>3, <2>0, <2>1 DEF Fits, Position
  <2>2. CASE f = VARIABLE_STEP
    <3>1. s \in 1..ux_step_count /\ 1..(s - 1) \subseteq seen /\ seen' = seen \cup {s}
      BY <1>1, <1>3, <2>2 DEF Fits
    <3>2. 1..s \subseteq seen' /\ seen' \subseteq 1..ux_step_count
      BY <2>0, <3>1
    <3> QED  BY <1>1, <2>2, <3>1, <3>2 DEF Position
  <2>3. CASE f \in {CONFIRM_STEP, CANCEL_STEP}
    BY <1>1, <1>3, <2>0, <2>3 DEF Fits, Position
  <2> QED  BY <2>1, <2>2, <2>3 DEF Fits
<1> QED  BY <1>1, <1>2, <1>3 DEF FlowInv

(* The border behind the arguments, entered from either side.              *)
LEMMA RightBorderKeepsInv ==
    ASSUME FlowInv, flow \in {VARIABLE_STEP, CONFIRM_STEP},
           Arrive(RightBorder(ux_step, ux_step_count))
    PROVE  FlowInv'
<1> USE FlowAssumption DEF ACTION_STEP, VARIABLE_STEP, CONFIRM_STEP, CANCEL_STEP
<1>0. /\ Reviewing
      /\ ux_step \in 0..(MaxArguments + 1) /\ ux_step_count \in 0..MaxArguments
      /\ ux_step_count > 0 => Position
  BY DEF Reviewing, FlowInv, FlowTypeOK
<1>1. CASE ux_step < ux_step_count
  <2>1. Fits(ux_step + 1, VARIABLE_STEP)
    BY <1>0, <1>1 DEF Fits, Position
  <2> QED  BY <1>0, <1>1, <2>1, Borders, ArrivalKeepsInv
<1>2. CASE ux_step = ux_step_count
  <2>1. Fits(ux_step + 1, CONFIRM_STEP)
    BY <1>0, <1>2 DEF Fits, Position
  <2> QED  BY <1>0, <1>2, <2>1, Borders, ArrivalKeepsInv
<1>3. CASE ux_step > ux_step_count
  <2>1. Fits(ux_step_count, VARIABLE_STEP)
    BY <1>0, <1>3 DEF Fits, Position
  <2> QED  BY <1>0, <1>3, <2>1, Borders, ArrivalKeepsInv
<1> QED  BY <1>0, <1>1, <1>2, <1>3

(* The right button.                                                       *)
LEMMA RightKeepsInv == FlowInv /\ GoRight => FlowInv'
<1> SUFFICES ASSUME FlowInv, GoRight PROVE FlowInv'
  OBVIOUS
<1> USE FlowAssumption DEF ACTION_STEP, VARIABLE_STEP, CONFIRM_STEP, CANCEL_STEP
<1>0. /\ Reviewing /\ Arrive(Right) /\ flow < CANCEL_STEP
      /\ flow \in {1, 2, ACTION_STEP, VARIABLE_STEP, CONFIRM_STEP}
      /\ ux_step \in 0..(MaxArguments + 1) /\ ux_step_count \in 0..MaxArguments
      /\ ux_step_count > 0 => Position
  BY DEF GoRight, CanGoRight, Reviewing, FlowInv, FlowTypeOK
<1>1. CASE flow \in {1, 2, CONFIRM_STEP}
  <2>1. Right = To(ux_step, flow + 1)
    BY <1>1 DEF Right
  <2>2. Fits(ux_step, flow + 1)
    BY <1>0, <1>1 DEF Fits, Position
  <2> QED  BY <1>0, <2>1, <2>2, ArrivalKeepsInv
<1>2. CASE flow = ACTION_STEP
  <2>1. Right = LeftBorder(ux_step)
    BY <1>2 DEF Right
  <2>2. CASE ux_step = 0
    <3>1. Fits(1, VARIABLE_STEP)
      BY <1>0 DEF Fits
    <3> QED  BY <1>0, <2>1, <2>2, <3>1, Borders, ArrivalKeepsInv
  <2>3. CASE ux_step = 1
    <3>1. Fits(0, ACTION_STEP)
      BY <1>0 DEF Fits
    <3> QED  BY <1>0, <2>1, <2>3, <3>1, Borders, ArrivalKeepsInv
  <2>4. CASE ux_step > 1
    <3>1. Fits(ux_step - 1, VARIABLE_STEP)
      BY <1>0, <1>2, <2>4 DEF Fits, Position
    <3> QED  BY <1>0, <2>1, <2>4, <3>1, Borders, ArrivalKeepsInv
  <2> QED  BY <1>0, <2>2, <2>3, <2>4
<1>3. CASE flow = VARIABLE_STEP
  <2>1. Right = RightBorder(ux_step, ux_step_count)
    BY <1>3 DEF Right
  <2> QED  BY <1>0, <1>3, <2>1, RightBorderKeepsInv
<1> QED  BY <1>0, <1>1, <1>2, <1>3

(* The left button.                                                        *)
LEMMA LeftKeepsInv == FlowInv /\ GoLeft => FlowInv'
<1> SUFFICES ASSUME FlowInv, GoLeft PROVE FlowInv'
  OBVIOUS
<1> USE FlowAssumption DEF ACTION_STEP, VARIABLE_STEP, CONFIRM_STEP, CANCEL_STEP
<1>0. /\ Reviewing /\ Arrive(Left)
      /\ flow \in {2, ACTION_STEP, VARIABLE_STEP, CONFIRM_STEP, CANCEL_STEP}
      /\ ux_step \in 0..(MaxArguments + 1) /\ ux_step_count \in 0..MaxArguments
      /\ ux_step_count > 0 => Position
  BY DEF GoLeft, CanGoLeft, Reviewing, FlowInv, FlowTypeOK
<1>1. CASE flow \in {2, ACTION_STEP, CANCEL_STEP}
  <2>1. Left = To(ux_step, flow - 1)
    BY <1>1 DEF Left
  <2>2. Fits(ux_step, flow - 1)
    BY <1>0, <1>1 DEF Fits, Position
  <2> QED  BY <1>0, <2>1, <2>2, ArrivalKeepsInv
<1>2. CASE flow = VARIABLE_STEP
  <2>1. Left = LeftBorder(ux_step)
    BY <1>2 DEF Left
  <2>2. CASE ux_step = 0
    <3>1. Fits(1, VARIABLE_STEP)
      BY <1>0 DEF Fits
    <3> QED  BY <1>0, <2>1, <2>2, <3>1, Borders, ArrivalKeepsInv
  <2>3. CASE ux_step = 1
    <3>1. Fits(0, ACTION_STEP)
      BY <1>0 DEF Fits
    <3> QED  BY <1>0, <2>1, <2>3, <3>1, Borders, ArrivalKeepsInv
  <2>4. CASE ux_step > 1
    <3>1. Fits(ux_step - 1, VARIABLE_STEP)
      BY <1>0, <1>2, <2>4 DEF Fits, Position
    <3> QED  BY <1>0, <2>1, <2>4, <3>1, Borders, ArrivalKeepsInv
  <2> QED  BY <1>0, <2>2, <2>3, <2>4
<1>3. CASE flow = CONFIRM_STEP
  <2>1. Left = RightBorder(ux_step, ux_step_count)
    BY <1>3 DEF Left
  <2> QED  BY <1>0, <1>3, <2>1, RightBorderKeepsInv
<1> QED  BY <1>0, <1>1, <1>2, <1>3

LEMMA FlowInitInv == FlowInit => FlowInv
BY FlowAssumption DEF FlowInit, FlowInv, FlowTypeOK, Reviewing

LEMMA FlowStepInv == FlowInv /\ [FlowNext]_flowVars => FlowInv'
<1> SUFFICES ASSUME FlowInv, [FlowNext]_flowVars PROVE FlowInv'
  OBVIOUS
<1>1. ASSUME NEW n \in 0..MaxArguments, StartFlow(n) PROVE FlowInv'
  BY <1>1, FlowAssumption
  DEF StartFlow, FlowInv, FlowTypeOK, Position, Reviewing, ACTION_STEP, VARIABLE_STEP,
      CONFIRM_STEP, CANCEL_STEP
<1>2. CASE GoRight
  BY <1>2, RightKeepsInv
<1>3. CASE GoLeft
  BY <1>3, LeftKeepsInv
<1>4. CASE Decide \/ Abandon
  BY <1>4 DEF Decide, Abandon, FlowInv, FlowTypeOK, Reviewing
<1>5. CASE UNCHANGED flowVars
  BY <1>5 DEF flowVars, FlowInv, FlowTypeOK, Position, Reviewing
<1> QED
  BY <1>1, <1>2, <1>3, <1>4, <1>5 DEF FlowNext

(* The position is kept by every step of the user, for every action.       *)
THEOREM FlowInvariant == FlowSpec => []FlowInv
BY FlowInitInv, FlowStepInv, PTL DEF FlowSpec

(* Type correctness of the flow.                                           *)
THEOREM FlowType == FlowSpec => []FlowTypeOK
BY FlowInvariant, PTL DEF FlowInv

(* Whatever the number of arguments, the steps that accept and cancel are  *)
(* reached only after every argument has been displayed.                   *)
THEOREM FlowShowsEveryArgument == FlowSpec => []EveryArgumentSeen
<1>1. FlowInv => EveryArgumentSeen
  BY FlowAssumption DEF FlowInv, FlowTypeOK, Position, EveryArgumentSeen
<1> QED  BY <1>1, FlowInvariant, PTL

----------------------------------------------------------------------------
(* What the parser keeps of an action for its review: the data buffer has  *)
(* its size whatever was loaded into it, and the number of arguments is a  *)
(* char.                                                                   *)
DisplayInv ==
    /\ actions \in Transactions
    /\ currentActionIndex \in 0..currentActionNumber
    /\ context.actionDataBuffer \in Seq(Byte)
    /\ Len(context.actionDataBuffer) = ActionDataSize
    /\ argumentCount \in 0..MaxArgNum
    /\ outcome \in {"reviewing", "accepted", "cancelled", "ASSERT"}

LEMMA ClearedBuffer ==
  /\ ClearedContext.actionDataBuffer \in Seq(Byte)
  /\ Len(ClearedContext.actionDataBuffer) = ActionDataSize
<1>1. ClearedContext.actionDataBuffer = [i \in 1..ActionDataSize |-> 0]
  BY DEF ClearedContext
<1> QED
  BY <1>1, DisplayAssumption, ByteFacts

(* The data of an action goes over the beginning of the buffer.            *)
LEMMA LoadedBuffer ==
  ASSUME NEW a, ActionOK(a),
         context.actionDataBuffer \in Seq(Byte),
         Len(context.actionDataBuffer) = ActionDataSize
  PROVE  /\ Loaded(a).actionDataBuffer \in Seq(Byte)
         /\ Len(Loaded(a).actionDataBuffer) = ActionDataSize
         /\ Loaded(a).currentActionDataBufferLength \in Nat
         /\ Loaded(a).currentActionDataBufferLength < ActionDataSize
<1> DEFINE old == context.actionDataBuffer
           new == a.data \o SubSeq(old, Len(a.data) + 1, ActionDataSize)
<1>1. /\ a.data \in Seq(Byte) /\ Len(a.data) \in Nat /\ Len(a.data) < ActionDataSize
      /\ ActionDataSize \in Nat
  BY DisplayAssumption DEF ActionOK
<1>2. new \in Seq(Byte) /\ Len(new) = ActionDataSize
  BY <1>1, Overwritten
<1>3. /\ \/ Loaded(a).actionDataBuffer = new
         \/ Loaded(a).actionDataBuffer = old
      /\ Loaded(a).currentActionDataBufferLength = Len(a.data)
  BY DEF Loaded
<1> HIDE DEF new
<1> QED
  BY <1>1, <1>2, <1>3

LEMMA CountOfLoaded ==
  ASSUME NEW a, ActionOK(a),
         context.actionDataBuffer \in Seq(Byte),
         Len(context.actionDataBuffer) = ActionDataSize
  PROVE  CountOf(Loaded(a)).count \in 0..MaxArgNum
<1> DEFINE c == Loaded(a)
<1>1. /\ c.actionDataBuffer \in Seq(Byte) /\ Len(c.actionDataBuffer) = ActionDataSize
      /\ c.currentActionDataBufferLength \in Nat
      /\ c.currentActionDataBufferLength < ActionDataSize
  BY LoadedBuffer
<1>2. ActionDataSize \in Nat /\ 2 * NameSize + 5 <= ActionDataSize
      /\ CounterMod \in Nat /\ CounterMod > 0
  BY DisplayAssumption DEF NameSize
<1> HIDE DEF c
<1>3. CASE ~isKnownAction(c.contractName, c.contractActionName)
  <2>1. CountOf(c) = Count(3)
    BY <1>3 DEF CountOf
  <2> QED
    BY <2>1, CountIsChar DEF MaxArgNum, CharMod, c
<1>4. CASE isKnownAction(c.contractName, c.contractActionName)
  <2>1. CountOf(c) = ArgumentCount(c.contractActionName, c.actionDataBuffer,
                                   c.currentActionDataBufferLength, CounterMod)
    BY <1>4 DEF CountOf
  <2>2. c.currentActionDataBufferLength <= Len(c.actionDataBuffer)
    BY <1>1, <1>2
  <2>3. ArgumentCount(c.contractActionName, c.actionDataBuffer,
                      c.currentActionDataBufferLength, CounterMod).count \in 0..(CharMod - 1)
    BY <1>1, <1>2, <1>4, <2>2, ArgumentCountIsChar
  <2> QED
    BY <2>1, <2>3 DEF MaxArgNum, CharMod, c
<1> QED
  BY <1>3, <1>4

(* The parser hands over the next action.                                  *)
LEMMA ActionReadyKeeps ==
  ASSUME DisplayInv, ActionReady
  PROVE  /\ DisplayInv'
         /\ outcome = "accepted"
         /\ \/ outcome' = "ASSERT"
            \/ outcome' = "reviewing"
<1> DEFINE a == actions[currentActionIndex + 1]
           c == Loaded(a)
<1>1. /\ currentActionIndex' = currentActionIndex + 1
      /\ currentActionIndex < currentActionNumber
      /\ context' = c /\ actions' = actions /\ outcome = "accepted"
  BY DEF ActionReady
<1>2. \/ outcome' = "ASSERT" /\ argumentCount' = argumentCount
      \/ outcome' = "reviewing" /\ argumentCount' = CountOf(c).count
  BY DEF ActionReady
<1>3. currentActionIndex + 1 \in 1..Len(actions) /\ Len(actions) \in Nat
  BY <1>1, DisplayAssumption DEF DisplayInv, currentActionNumber
<1>4. ActionOK(a)
  BY <1>3, DisplayAssumption DEF DisplayInv
<1>5. c.actionDataBuffer \in Seq(Byte) /\ Len(c.actionDataBuffer) = ActionDataSize
  BY <1>4, LoadedBuffer DEF DisplayInv
<1>6. CountOf(c).count \in 0..MaxArgNum
  BY <1>4, CountOfLoaded DEF DisplayInv
<1> HIDE DEF c
<1> QED
  BY <1>1, <1>2, <1>3, <1>5, <1>6 DEF DisplayInv, currentActionNumber

(* Another transaction, or the program started again.                      *)
LEMMA BeginKeeps ==
  ASSUME DisplayInv, NEW t \in Transactions, BeginTransaction(t) \/ Relaunch(t)
  PROVE  DisplayInv' /\ outcome # "reviewing" /\ outcome' = "accepted"
<1>1. /\ actions' = t /\ currentActionIndex' = 0 /\ context' = ClearedContext
      /\ outcome' = "accepted" /\ argumentCount' \in {argumentCount, 0}
      /\ outcome \in {"cancelled", "accepted", "ASSERT"}
  BY DEF BeginTransaction, Relaunch
<1>2. Len(t) \in Nat
  BY DisplayAssumption
<1> QED
  BY <1>1, <1>2, ClearedBuffer DEF DisplayInv, currentActionNumber, MaxArgNum

----------------------------------------------------------------------------
(* The screens follow the flow.  On the variable step arg is what          *)
(* printArgument makes of the argument that ux_step numbers.               *)
ArgumentAt(step) == printArgument((step + MaxArgNum) % (MaxArgNum + 1), context, CounterMod)

ArgumentIsPrinted ==
    Reviewing /\ flow = VARIABLE_STEP =>
        /\ ArgumentAt(ux_step).outcome # "ASSERT"
        /\ ArgumentAt(ux_step).outcome = "page" => arg = ArgumentAt(ux_step)

BaglInv ==
    /\ DisplayInv
    /\ outcome = "reviewing" <=> Reviewing
    /\ Reviewing => ux_step_count = argumentCount
    /\ ArgumentIsPrinted

(* The arrows lead to a step of the flow, and change nothing else.         *)
LEMMA ArrowsStayInFlow ==
  ASSUME FlowInv, Reviewing
  PROVE  /\ CanGoRight => Right.flow # 0
         /\ CanGoLeft => Left.flow # 0
<1> USE DEF ACTION_STEP, VARIABLE_STEP, CONFIRM_STEP, CANCEL_STEP
<1>1. /\ flow \in {1, 2, ACTION_STEP, VARIABLE_STEP, CONFIRM_STEP, CANCEL_STEP}
      /\ ux_step \in Nat /\ ux_step_count \in Nat
  BY FlowAssumption DEF Reviewing, FlowInv, FlowTypeOK
<1>2. LeftBorder(ux_step).flow # 0
  <2>1. \E s \in Int : \E f \in {ACTION_STEP, VARIABLE_STEP} : LeftBorder(ux_step) = To(s, f)
    BY <1>1 DEF LeftBorder
  <2> QED
    BY <2>1 DEF To
<1>3. RightBorder(ux_step, ux_step_count).flow # 0
  <2>1. \E s \in Int : \E f \in {VARIABLE_STEP, CONFIRM_STEP} :
            RightBorder(ux_step, ux_step_count) = To(s, f)
    BY <1>1 DEF RightBorder
  <2> QED
    BY <2>1 DEF To
<1>4. CanGoRight => Right.flow # 0
  <2>1. \/ Right = LeftBorder(ux_step)
        \/ Right = RightBorder(ux_step, ux_step_count)
        \/ Right = To(ux_step, flow + 1)
    BY DEF Right
  <2> QED
    BY <1>1, <1>2, <1>3, <2>1 DEF To
<1>5. CanGoLeft => Left.flow # 0
  <2>1. \/ Left = LeftBorder(ux_step)
        \/ Left = RightBorder(ux_step, ux_step_count)
        \/ Left = To(ux_step, flow - 1)
    BY DEF Left
  <2> QED
    BY <1>1, <1>2, <1>3, <2>1 DEF To, CanGoLeft
<1> QED
  BY <1>4, <1>5

LEMMA MoveKeeps ==
  ASSUME BaglInv, Reviewing, NEW to, to.flow # 0, Move(to)
  PROVE  BaglInv' /\ (Arrive(to) \/ Abandon)
<1> DEFINE page == printArgument((to.ux_step + MaxArgNum) % (MaxArgNum + 1), context, CounterMod)
<1>1. /\ UNCHANGED <<actions, currentActionIndex, context, argumentCount>>
      /\ outcome = "reviewing"
      /\ outcome' = "ASSERT" => Abandon
      /\ outcome' # "ASSERT" => Arrive(to)
  BY DEF Move, BaglInv
<1>2. outcome' \in {"reviewing", "ASSERT"}
  BY <1>1 DEF Move, Display
<1>3. DisplayInv'
  BY <1>1, <1>2 DEF BaglInv, DisplayInv, currentActionNumber
<1>4. CASE outcome' = "ASSERT" /\ Abandon
  <2>1. flow' = 0
    BY <1>4 DEF Abandon
  <2> QED
    BY <1>3, <1>4, <2>1 DEF BaglInv, Reviewing, ArgumentIsPrinted
<1>5. CASE outcome' # "ASSERT" /\ Arrive(to)
  <2>1. flow' = to.flow /\ ux_step' = to.ux_step /\ ux_step_count' = ux_step_count
    BY <1>5 DEF Arrive
  <2>2. outcome' = "reviewing"
    BY <1>2, <1>5
  <2>3. ASSUME to.flow = VARIABLE_STEP
        PROVE  page.outcome # "ASSERT" /\ (page.outcome = "page" => arg' = page)
    <3>1. Display((to.ux_step + MaxArgNum) % (MaxArgNum + 1))
      BY <2>3 DEF Move
    <3>2. /\ arg' = IF page.outcome = "page" THEN page ELSE arg
          /\ outcome' = IF page.outcome = "ASSERT" THEN "ASSERT" ELSE outcome
      BY <3>1 DEF Display
    <3> QED
      BY <3>2, <1>5
  <2>4. ArgumentAt(ux_step)' = page
    BY <1>1, <2>1 DEF ArgumentAt
  <2>5. ArgumentIsPrinted'
    <3> HIDE DEF page
    <3> QED
      BY <2>1, <2>3, <2>4 DEF ArgumentIsPrinted
  <2> QED
    BY <1>1, <1>3, <2>1, <2>2, <2>5 DEF BaglInv, Reviewing
<1> QED
  BY <1>1, <1>4, <1>5

LEMMA BaglInitInv == BaglInit => BaglInv
<1> SUFFICES ASSUME BaglInit PROVE BaglInv
  OBVIOUS
<1>1. DisplayInv
  <2>1. Len(actions) \in Nat
    BY DisplayAssumption DEF BaglInit, DisplayInit
  <2> QED
    BY <2>1, ClearedBuffer
    DEF BaglInit, DisplayInit, DisplayInv, currentActionNumber, MaxArgNum
<1>2. flow = 0 /\ outcome = "accepted"
  BY DEF BaglInit, DisplayInit, FlowInit
<1> QED
  BY <1>1, <1>2 DEF BaglInv, Reviewing, ArgumentIsPrinted

(* Every step of the screens is one of the flow, or none.                  *)
LEMMA BaglStep ==
  ASSUME BaglInv, FlowInv, [BaglNext]_vars
  PROVE  BaglInv' /\ [FlowNext]_flowVars
<1>1. ASSUME NEW t \in Transactions, BeginTransaction(t) \/ Relaunch(t), UNCHANGED flowVars
      PROVE  BaglInv' /\ [FlowNext]_flowVars
  <2>1. DisplayInv' /\ outcome # "reviewing" /\ outcome' = "accepted"
    BY <1>1, BeginKeeps DEF BaglInv
  <2>2. ~Reviewing'
    BY <1>1, <2>1 DEF BaglInv, Reviewing, flowVars
  <2> QED
    BY <1>1, <2>1, <2>2 DEF BaglInv, ArgumentIsPrinted
<1>2. CASE ui_display_single_action_sign_flow
  <2>1. DisplayInv' /\ outcome = "accepted" /\ outcome' \in {"ASSERT", "reviewing"}
    BY <1>2, ActionReadyKeeps DEF ui_display_single_action_sign_flow, BaglInv
  <2>2. CASE outcome' = "ASSERT"
    <3>1. UNCHANGED flowVars
      BY <1>2, <2>2 DEF ui_display_single_action_sign_flow
    <3>2. ~Reviewing'
      BY <2>1, <3>1 DEF BaglInv, Reviewing, flowVars
    <3> QED
      BY <2>1, <2>2, <3>1, <3>2 DEF BaglInv, ArgumentIsPrinted
  <2>3. CASE outcome' = "reviewing"
    <3>1. StartFlow(argumentCount')
      BY <1>2, <2>3 DEF ui_display_single_action_sign_flow
    <3>2. flow' = 1 /\ ux_step_count' = argumentCount'
      BY <3>1 DEF StartFlow
    <3>3. argumentCount' \in 0..MaxArguments
      BY <2>1, FlowAssumption, BaglAssumption DEF DisplayInv, MaxArgNum
    <3>4. FlowNext
      BY <3>1, <3>3 DEF FlowNext
    <3> QED
      BY <2>1, <2>3, <3>2, <3>4 DEF BaglInv, Reviewing, ArgumentIsPrinted, VARIABLE_STEP
  <2> QED
    BY <2>1, <2>2, <2>3
<1>3. CASE PressRight
  <2>1. CanGoRight /\ Reviewing /\ Move(Right)
    BY <1>3 DEF PressRight, CanGoRight
  <2>2. BaglInv' /\ (Arrive(Right) \/ Abandon)
    BY <2>1, ArrowsStayInFlow, MoveKeeps
  <2> QED
    BY <2>1, <2>2 DEF FlowNext, GoRight
<1>4. CASE PressLeft
  <2>1. CanGoLeft /\ Reviewing /\ Move(Left)
    BY <1>4 DEF PressLeft, CanGoLeft
  <2>2. BaglInv' /\ (Arrive(Left) \/ Abandon)
    BY <2>1, ArrowsStayInFlow, MoveKeeps
  <2> QED
    BY <2>1, <2>2 DEF FlowNext, GoLeft
<1>5. CASE PressBoth
  <2>1. Decide /\ flow' = 0 /\ outcome' \in {"accepted", "cancelled"}
        /\ UNCHANGED <<actions, currentActionIndex, context, argumentCount>>
    BY <1>5 DEF PressBoth, Decide
  <2>2. DisplayInv'
    BY <2>1 DEF BaglInv, DisplayInv, currentActionNumber
  <2> QED
    BY <2>1, <2>2 DEF BaglInv, Reviewing, ArgumentIsPrinted, FlowNext
<1>6. CASE UNCHANGED vars
  BY <1>6
  DEF vars, displayVars, flowVars, BaglInv, DisplayInv, currentActionNumber, Reviewing,
      ArgumentIsPrinted, ArgumentAt
<1> QED
  BY <1>1, <1>2, <1>3, <1>4, <1>5, <1>6 DEF BaglNext, Begin
THEOREM BaglInvariant == BaglSpec => [](BaglInv /\ FlowInv)
<1>1. BaglInit => BaglInv /\ FlowInit
  BY BaglInitInv DEF BaglInit
<1>2. FlowInit => FlowInv
  BY FlowInitInv
<1>3. BaglInv /\ FlowInv /\ [BaglNext]_vars => BaglInv' /\ FlowInv'
  BY BaglStep, FlowStepInv
<1> QED
  BY <1>1, <1>2, <1>3, PTL DEF BaglSpec

(* The screens of a review follow the flow, for the number of arguments    *)
(* that the decoders count in any data.                                    *)
THEOREM BaglImplementsFlow == BaglSpec => ImplementsFlow
<1>1. BaglInv /\ FlowInv /\ [BaglNext]_vars => [FlowNext]_flowVars
  BY BaglStep
<1>2. BaglInit => FlowInit
  BY DEF BaglInit
<1> QED
  BY <1>1, <1>2, BaglInvariant, PTL DEF BaglSpec, FlowSpec, ImplementsFlow

(* Type correctness of the review with buttons.                            *)
THEOREM BaglTypes == BaglSpec => []BaglTypeOK
<1>1. BaglInv /\ FlowInv => BaglTypeOK
  BY DEF BaglInv, DisplayInv, FlowInv, BaglTypeOK
<1> QED
  BY <1>1, BaglInvariant, PTL

(* On a device with buttons every argument of every action, whatever data  *)
(* it has, has been on the screen before the step that accepts.            *)
THEOREM BaglShowsEveryArgument == BaglSpec => []EveryArgumentSeen
BY BaglImplementsFlow, FlowShowsEveryArgument, PTL DEF ImplementsFlow

(* Where the decoders are right about an action, so is the screen, however *)
(* the user got there and whatever earlier reviews left in arg.            *)
THEOREM BaglShowsWhatIsDecoded == BaglSpec => ([]DecodesRight => []ReviewShowsArguments)
<1>1. BaglInv /\ FlowInv /\ DecodesRight => ReviewShowsArguments
  <2> SUFFICES ASSUME BaglInv, FlowInv, DecodesRight, Reviewing, Current.wellFormed
               PROVE  /\ ux_step_count = Len(Current.pages)
                      /\ flow = VARIABLE_STEP => Shown(arg) = Current.pages[ux_step]
    BY DEF ReviewShowsArguments
  <2>1. /\ ux_step_count = argumentCount /\ argumentCount \in 0..MaxArgNum
        /\ argumentCount = Len(Current.pages) /\ argumentCount > 0
        /\ \A n \in 1..argumentCount :
               /\ printArgument(n - 1, context, CounterMod).outcome = "page"
               /\ Shown(printArgument(n - 1, context, CounterMod)) = Current.pages[n]
    BY DEF BaglInv, DisplayInv, DecodesRight
  <2>2. ASSUME flow = VARIABLE_STEP
        PROVE  Shown(arg) = Current.pages[ux_step]
    <3>1. ux_step \in 1..argumentCount
      BY <2>1, <2>2 DEF FlowInv, Position
    <3>2. (ux_step + MaxArgNum) % (MaxArgNum + 1) = ux_step - 1
      <4>1. argumentCount \in 0..MaxArgNum
        BY <2>1
      <4> QED
        BY <3>1, <4>1 DEF MaxArgNum
    <3>3. ArgumentAt(ux_step) = printArgument(ux_step - 1, context, CounterMod)
      BY <3>2 DEF ArgumentAt
    <3>4. arg = printArgument(ux_step - 1, context, CounterMod)
      BY <2>1, <2>2, <3>1, <3>3 DEF BaglInv, ArgumentIsPrinted
    <3> QED
      BY <2>1, <3>1, <3>4
  <2> QED
    BY <2>1, <2>2
<1> QED
  BY <1>1, BaglInvariant, PTL
=============================================================================
