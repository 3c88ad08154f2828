---------------------------- MODULE EosNbglProofs ----------------------------
(***************************************************************************)
(* On a device with a touch screen the pairs of a page keep what they      *)
(* show although NBGL has only pointers to them, and the page that asks    *)
(* to confirm comes after all pairs: for any size of the ring buffer and   *)
(* any way NBGL splits the pairs into pages.                               *)
(***************************************************************************)
EXTENDS EosNbgl, EosLemmas

(* What the parser keeps of an action for its review: the data buffer has  *)
(* its size whatever was loaded into it, and the number of arguments is a  *)
(* char.                                                                   *)
DisplayInv ==
    /\ actions \in Transactions
    /\ currentActionIndex \in 0..currentActionNumber
    /\ context.actionDataBuffer \in Seq(Byte)
    /\ Len(context.actionDataBuffer) = ActionDataSize
    /\ argumentCount \in 0..MaxArgNum
    /\ outcome \in {"reviewing", "accepted", "cancelled", "ASSERT"}

LEMMA ClearedBuffer ==
  /\ ClearedContext.actionDataBuffer \in Seq(Byte)
  /\ Len(ClearedContext.actionDataBuffer) = ActionDataSize
<1>1. ClearedContext.actionDataBuffer = [i \in 1..ActionDataSize |-> 0]
  BY DEF ClearedContext
<1> QED
  BY <1>1, DisplayAssumption, ByteFacts

(* The data of an action goes over the beginning of the buffer.            *)
LEMMA LoadedBuffer ==
  ASSUME NEW a, ActionOK(a),
         context.actionDataBuffer \in Seq(Byte),
         Len(context.actionDataBuffer) = ActionDataSize
  PROVE  /\ Loaded(a).actionDataBuffer \in Seq(Byte)
         /\ Len(Loaded(a).actionDataBuffer) = ActionDataSize
         /\ Loaded(a).currentActionDataBufferLength \in Nat
         /\ Loaded(a).currentActionDataBufferLength < ActionDataSize
<1> DEFINE old == context.actionDataBuffer
           new == a.data \o SubSeq(old, Len(a.data) + 1, ActionDataSize)
<1>1. /\ a.data \in Seq(Byte) /\ Len(a.data) \in Nat /\ Len(a.data) < ActionDataSize
      /\ ActionDataSize \in Nat
  BY DisplayAssumption DEF ActionOK
<1>2. new \in Seq(Byte) /\ Len(new) = ActionDataSize
  BY <1>1, Overwritten
<1>3. /\ \/ Loaded(a).actionDataBuffer = new
         \/ Loaded(a).actionDataBuffer = old
      /\ Loaded(a).currentActionDataBufferLength = Len(a.data)
  BY DEF Loaded
<1> HIDE DEF new
<1> QED
  BY <1>1, <1>2, <1>3

LEMMA CountOfLoaded ==
  ASSUME NEW a, ActionOK(a),
         context.actionDataBuffer \in Seq(Byte),
         Len(context.actionDataBuffer) = ActionDataSize
  PROVE  CountOf(Loaded(a)).count \in 0..MaxArgNum
<1> DEFINE c == Loaded(a)
<1>1. /\ c.actionDataBuffer \in Seq(Byte) /\ Len(c.actionDataBuffer) = ActionDataSize
      /\ c.currentActionDataBufferLength \in Nat
      /\ c.currentActionDataBufferLength < ActionDataSize
  BY LoadedBuffer
<1>2. ActionDataSize \in Nat /\ 2 * NameSize + 5 <= ActionDataSize
      /\ CounterMod \in Nat /\ CounterMod > 0
  BY DisplayAssumption DEF NameSize
<1> HIDE DEF c
<1>3. CASE ~isKnownAction(c.contractName, c.contractActionName)
  <2>1. CountOf(c) = Count(3)
    BY <1>3 DEF CountOf
  <2> QED
    BY <2>1, CountIsChar DEF MaxArgNum, CharMod, c
<1>4. CASE isKnownAction(c.contractName, c.contractActionName)
  <2>1. CountOf(c) = ArgumentCount(c.contractActionName, c.actionDataBuffer,
                                   c.currentActionDataBufferLength, CounterMod)
    BY <1>4 DEF CountOf
  <2>2. c.currentActionDataBufferLength <= Len(c.actionDataBuffer)
    BY <1>1, <1>2
  <2>3. ArgumentCount(c.contractActionName, c.actionDataBuffer,
                      c.currentActionDataBufferLength, CounterMod).count \in 0..(CharMod - 1)
    BY <1>1, <1>2, <1>4, <2>2, ArgumentCountIsChar
  <2> QED
    BY <2>1, <2>3 DEF MaxArgNum, CharMod, c
<1> QED
  BY <1>3, <1>4

(* The parser hands over the next action.                                  *)
LEMMA ActionReadyKeeps ==
  ASSUME DisplayInv, ActionReady
  PROVE  /\ DisplayInv'
         /\ outcome = "accepted"
         /\ \/ outcome' = "ASSERT"
            \/ outcome' = "reviewing"
<1> DEFINE a == actions[currentActionIndex + 1]
           c == Loaded(a)
<1>1. /\ currentActionIndex' = currentActionIndex + 1
      /\ currentActionIndex < currentActionNumber
      /\ context' = c /\ actions' = actions /\ outcome = "accepted"
  BY DEF ActionReady
<1>2. \/ outcome' = "ASSERT" /\ argumentCount' = argumentCount
      \/ outcome' = "reviewing" /\ argumentCount' = CountOf(c).count
  BY DEF ActionReady
<1>3. currentActionIndex + 1 \in 1..Len(actions) /\ Len(actions) \in Nat
  BY <1>1, DisplayAssumption DEF DisplayInv, currentActionNumber
<1>4. ActionOK(a)
  BY <1>3, DisplayAssumption DEF DisplayInv
<1>5. c.actionDataBuffer \in Seq(Byte) /\ Len(c.actionDataBuffer) = ActionDataSize
  BY <1>4, LoadedBuffer DEF DisplayInv
<1>6. CountOf(c).count \in 0..MaxArgNum
  BY <1>4, CountOfLoaded DEF DisplayInv
<1> HIDE DEF c
<1> QED
  BY <1>1, <1>2, <1>3, <1>5, <1>6 DEF DisplayInv, currentActionNumber

(* Another transaction, or the program started again.                      *)
LEMMA BeginKeeps ==
  ASSUME DisplayInv, NEW t \in Transactions, BeginTransaction(t) \/ Relaunch(t)
  PROVE  DisplayInv' /\ outcome # "reviewing" /\ outcome' = "accepted"
<1>1. /\ actions' = t /\ currentActionIndex' = 0 /\ context' = ClearedContext
      /\ outcome' = "accepted" /\ argumentCount' \in {argumentCount, 0}
      /\ outcome \in {"cancelled", "accepted", "ASSERT"}
  BY DEF BeginTransaction, Relaunch
<1>2. Len(t) \in Nat
  BY DisplayAssumption
<1> QED
  BY <1>1, <1>2, ClearedBuffer DEF DisplayInv, currentActionNumber, MaxArgNum

----------------------------------------------------------------------------
(* The argument that pair index shows, and the slot that keeps it.         *)
ArgumentOf(index) == printArgument(SingleIndex(index) - 2, context, CounterMod)
Keeps(index) ==
    /\ ArgumentOf(index).outcome # "ASSERT"
    /\ ArgumentOf(index).outcome = "page" =>
           bkp_args[SlotOf(SingleIndex(index))] = ArgumentOf(index)

(* The pointers that the page has got so far are those of its pairs, and   *)
(* the slots they point to keep them.                                      *)
PairsKept ==
    \A i \in 1..Len(screen) :
        LET index == first + i - 1
        IN  /\ screen[i] = PointerTo(index)
            /\ PointerTo(index).to = "bkp_args" => Keeps(index)

(* Every pair before the page, and on it once it is complete, has been     *)
(* displayed.                                                              *)
PairsSeen ==
    /\ displayed \subseteq 0..(nbPairs - 1)
    /\ phase = "layout" => 0..(first - 1) \subseteq displayed
    /\ phase = "page" => 0..(last - 1) \subseteq displayed
    /\ phase = "finish" => 0..(nbPairs - 1) \subseteq displayed

Places == {"review_action", "contract", "action", "bkp_args"}

NbglInv ==
    /\ DisplayInv
    /\ DOMAIN bkp_args = 0..(NbMax - 1)
    /\ screen \in Seq([to : Places, slot : Nat])
    /\ NbglTypeOK
    /\ first \in Nat /\ last \in Nat
    /\ phase # "none" =>
           /\ nbPairs = Pairs(argumentCount)
           /\ currentActionIndex > 0
           /\ context.contractName = Current.contract
           /\ context.contractActionName = Current.action
           /\ PairsKept
           /\ PairsSeen
    /\ phase = "layout" => Len(screen) < last - first
    /\ phase = "page" => Len(screen) = last - first
    /\ phase = "finish" => screen = <<>>

(* What does not change while a review lasts.                              *)
Steady == UNCHANGED <<actions, currentActionIndex, context, argumentCount>>

LEMMA PointerIsRecord ==
  ASSUME NEW t \in Places, NEW s \in Nat
  PROVE  /\ Pointer(t, s) \in [to : Places, slot : Nat]
         /\ Pointer(t, s).to = t /\ Pointer(t, s).slot = s
BY DEF Pointer

LEMMA PointerFacts ==
  ASSUME NEW index \in Nat
  PROVE  /\ PointerTo(index) \in [to : Places, slot : Nat]
         /\ PointerTo(index).to = "bkp_args" =>
                /\ SingleIndex(index) \in Nat /\ SingleIndex(index) >= 2
                /\ SlotOf(SingleIndex(index)) \in 0..(NbMax - 1)
                /\ PointerTo(index).slot = SlotOf(SingleIndex(index))
<1> USE NbglAssumption
<1>1. CASE Multi /\ index = 0
  <2>1. PointerTo(index) = Pointer("review_action", 0)
    BY <1>1 DEF PointerTo, SingleIndex
  <2>2. PointerTo(index).to = "review_action" /\ PointerTo(index) \in [to : Places, slot : Nat]
    BY <2>1, PointerIsRecord DEF Places
  <2> QED
    BY <2>2
<1>2. CASE ~(Multi /\ index = 0)
  <2>1. SingleIndex(index) \in Nat
    BY <1>2 DEF SingleIndex
  <2>2. CASE SingleIndex(index) = 0
    <3>1. PointerTo(index) = Pointer("contract", 0)
      BY <1>2, <2>2 DEF PointerTo
    <3>2. PointerTo(index).to = "contract" /\ PointerTo(index) \in [to : Places, slot : Nat]
      BY <3>1, PointerIsRecord DEF Places
    <3> QED
      BY <3>2
  <2>3. CASE SingleIndex(index) = 1
    <3>1. PointerTo(index) = Pointer("action", 0)
      BY <1>2, <2>3 DEF PointerTo
    <3>2. PointerTo(index).to = "action" /\ PointerTo(index) \in [to : Places, slot : Nat]
      BY <3>1, PointerIsRecord DEF Places
    <3> QED
      BY <3>2
  <2>4. CASE SingleIndex(index) >= 2
    <3>1. PointerTo(index) = Pointer("bkp_args", SlotOf(SingleIndex(index)))
      BY <1>2, <2>1, <2>4 DEF PointerTo
    <3>2. SlotOf(SingleIndex(index)) \in 0..(NbMax - 1)
      BY <2>1, RemainderBound DEF SlotOf
    <3>3. SlotOf(SingleIndex(index)) \in Nat
      BY <3>2
    <3> QED
      BY <2>1, <2>4, <3>1, <3>2, <3>3, PointerIsRecord DEF Places
  <2> QED
    BY <2>1, <2>2, <2>3, <2>4
<1> QED
  BY <1>1, <1>2

LEMMA SteadyOperators ==
  ASSUME Steady
  PROVE  /\ \A index : PointerTo(index)' = PointerTo(index)
         /\ \A index : SingleIndex(index)' = SingleIndex(index)
         /\ \A index : ArgumentOf(index)' = ArgumentOf(index)
         /\ Pairs(argumentCount)' = Pairs(argumentCount)
         /\ Current' = Current
BY DEF Steady, PointerTo, SingleIndex, ArgumentOf, Multi, currentActionNumber, Pairs, Current

LEMMA SteadyDisplay ==
  ASSUME DisplayInv, Steady, outcome' \in {"reviewing", "accepted", "cancelled", "ASSERT"}
  PROVE  DisplayInv'
BY DEF DisplayInv, Steady, currentActionNumber

(* A pair is asked for: it is kept, and no pair less than NbMax before it  *)
(* loses its slot.                                                         *)
LEMMA GetPairKeeps ==
  ASSUME NbglInv, outcome = "reviewing", NEW index \in Nat, GetPair(index)
  PROVE  /\ Steady /\ outcome' \in {"reviewing", "ASSERT"}
         /\ DOMAIN bkp_args' = 0..(NbMax - 1)
         /\ outcome' = "reviewing" =>
                /\ PointerTo(index).to = "bkp_args" => Keeps(index)'
                /\ \A k \in Nat :
                       k < index /\ index - k < NbMax /\ PointerTo(k).to = "bkp_args" /\ Keeps(k)
                           => Keeps(k)'
<1>1. Steady
  BY DEF GetPair, Steady
<1>2. CASE PointerTo(index).to # "bkp_args"
  <2>1. UNCHANGED <<outcome, bkp_args>>
    BY <1>2 DEF GetPair
  <2>2. \A k : Keeps(k)' <=> Keeps(k)
    BY <1>1, <2>1, SteadyOperators DEF Keeps, SlotOf
  <2> QED
    BY <1>1, <1>2, <2>1, <2>2 DEF NbglInv
<1>3. CASE PointerTo(index).to = "bkp_args"
  <2> DEFINE page == ArgumentOf(index)
             slot == SlotOf(SingleIndex(index))
  <2>1. /\ arg' = IF page.outcome = "page" THEN page ELSE arg
        /\ outcome' = IF page.outcome = "ASSERT" THEN "ASSERT" ELSE outcome
        /\ bkp_args' = IF outcome' = "ASSERT" THEN bkp_args
                       ELSE [bkp_args EXCEPT ![slot] = arg']
    BY <1>3 DEF GetPair, Display, ArgumentOf
  <2>2. slot \in DOMAIN bkp_args /\ SingleIndex(index) \in Nat
    BY <1>3, PointerFacts DEF NbglInv
  <2>3. DOMAIN bkp_args' = 0..(NbMax - 1) /\ outcome' \in {"reviewing", "ASSERT"}
    BY <2>1 DEF NbglInv
  <2>4. ASSUME outcome' = "reviewing"
        PROVE  page.outcome # "ASSERT" /\ bkp_args' = [bkp_args EXCEPT ![slot] = arg']
    BY <2>1, <2>4
  <2>5. ASSUME outcome' = "reviewing"
        PROVE  Keeps(index)'
    <3>1. page.outcome = "page" => bkp_args'[slot] = page
      <4> HIDE DEF page, slot
      <4> QED
        BY <2>1, <2>2, <2>4, <2>5
    <3> QED
      BY <1>1, <2>4, <2>5, <3>1, SteadyOperators DEF Keeps, SlotOf
  <2>6. ASSUME outcome' = "reviewing", NEW k \in Nat, k < index, index - k < NbMax,
               PointerTo(k).to = "bkp_args", Keeps(k)
        PROVE  Keeps(k)'
    <3>1. /\ SingleIndex(k) \in Nat
          /\ SingleIndex(k) < SingleIndex(index)
          /\ SingleIndex(index) - SingleIndex(k) < NbMax
          /\ SlotOf(SingleIndex(k)) \in DOMAIN bkp_args
      <4>1. SingleIndex(k) \in Nat /\ SlotOf(SingleIndex(k)) \in DOMAIN bkp_args
        BY <2>6, PointerFacts DEF NbglInv
      <4> QED
        BY <2>2, <2>6, <4>1 DEF SingleIndex
    <3>2. SlotOf(SingleIndex(k)) # slot
      BY <2>2, <3>1, RemaindersDiffer, NbglAssumption DEF SlotOf
    <3>3. bkp_args'[SlotOf(SingleIndex(k))] = bkp_args[SlotOf(SingleIndex(k))]
      <4> HIDE DEF page, slot
      <4> QED
        BY <2>4, <2>6, <3>1, <3>2
    <3> QED
      BY <1>1, <2>6, <3>3, SteadyOperators DEF Keeps, SlotOf
  <2> QED
    BY <1>1, <2>3, <2>5, <2>6
<1> QED
  BY <1>2, <1>3

----------------------------------------------------------------------------
LEMMA NbglInitInv == NbglInit => NbglInv
<1> SUFFICES ASSUME NbglInit PROVE NbglInv
  OBVIOUS
<1>1. DisplayInv
  <2>1. Len(actions) \in Nat
    BY DisplayAssumption DEF NbglInit, DisplayInit
  <2> QED
    BY <2>1, ClearedBuffer
    DEF NbglInit, DisplayInit, DisplayInv, currentActionNumber, MaxArgNum
<1>2. /\ phase = "none" /\ outcome = "accepted" /\ nbPairs = 0 /\ first = 0 /\ last = 0
      /\ screen = <<>> /\ bkp_args = [slot \in 0..(NbMax - 1) |-> NoArgument]
  BY DEF NbglInit, DisplayInit
<1> QED
  BY <1>1, <1>2, NbglAssumption DEF NbglInv, NbglTypeOK

(* A review begins, or the data of the action fails an assertion.          *)
LEMMA PairsIsByte == \A n \in Nat : Pairs(n) \in 0..255 /\ Pairs(n) <= n + (IF Multi THEN 3 ELSE 2)
BY DEF Pairs

LEMMA StartInv ==
  ASSUME NbglInv, ui_display_single_action_sign_flow
  PROVE  NbglInv'
<1>1. DisplayInv' /\ outcome = "accepted" /\ outcome' \in {"ASSERT", "reviewing"}
  BY ActionReadyKeeps DEF ui_display_single_action_sign_flow, NbglInv
<1>2. CASE outcome' = "ASSERT"
  <2>1. UNCHANGED nbglVars
    BY <1>2 DEF ui_display_single_action_sign_flow
  <2> QED
    BY <1>1, <1>2, <2>1 DEF nbglVars, NbglInv, NbglTypeOK
<1>3. CASE outcome' = "reviewing"
  <2>1. /\ nbPairs' = Pairs(argumentCount')
        /\ phase' = "layout" /\ first' = 0
        /\ last' \in 1..NbMax /\ last' <= nbPairs'
        /\ screen' = <<>> /\ displayed' = {} /\ bkp_args' = bkp_args
    BY <1>3 DEF ui_display_single_action_sign_flow
  <2>2. /\ actions' = actions /\ currentActionIndex' = currentActionIndex + 1
        /\ context' = Loaded(actions[currentActionIndex + 1])
    BY DEF ui_display_single_action_sign_flow, ActionReady
  <2>3. Pairs(argumentCount)' = Pairs(argumentCount') /\ argumentCount' \in Nat
    BY <1>1, <2>2 DEF Pairs, Multi, currentActionNumber, DisplayInv
  <2>4. nbPairs' \in 0..255
    BY <2>1, <2>3, PairsIsByte
  <2>5. currentActionIndex' > 0
    BY <2>2 DEF NbglInv, DisplayInv
  <2>6. /\ context'.contractName = Current'.contract
        /\ context'.contractActionName = Current'.action
    BY <2>2 DEF Loaded, Current
  <2>7. PairsKept' /\ PairsSeen'
    <3>1. PairsKept'
      BY <2>1 DEF PairsKept
    <3> QED
      BY <2>1, <2>4, <3>1 DEF PairsSeen
  <2>8. Len(screen') = 0 /\ screen' \in Seq([to : Places, slot : Nat])
    BY <2>1
  <2>9. /\ first' \in Nat /\ first' < 1 /\ last' \in Nat /\ 0 < last'
        /\ last' <= NbMax /\ last' <= nbPairs'
    BY <2>1, NbglAssumption
  <2>11. /\ first' <= last' /\ last' - first' <= NbMax /\ 0 < last' - first'
         /\ 0 <= last' - first'
    <3>1. \A f, l \in Nat : f < 1 /\ 0 < l /\ l <= NbMax =>
              f <= l /\ l - f <= NbMax /\ 0 < l - f /\ 0 <= l - f
      BY NbglAssumption
    <3> QED
      BY <2>9, <3>1, Zenon
  <2>12. NbglTypeOK'
    <3>1. phase' = "layout" /\ outcome' = "reviewing"
      BY <1>3, <2>1
    <3>2. Len(screen') <= last' - first'
      BY <2>8, <2>11, Zenon
    <3> QED
      BY <2>4, <2>9, <2>11, <3>1, <3>2 DEF NbglTypeOK
  <2>10. nbPairs' = Pairs(argumentCount)' /\ DOMAIN bkp_args' = 0..(NbMax - 1)
    BY <2>1, <2>3 DEF NbglInv
  <2> QED
    <3>1. phase' = "layout" /\ Len(screen') < last' - first'
      BY <2>1, <2>8, <2>11, Zenon
    <3> QED
      BY <1>1, <2>5, <2>6, <2>7, <2>8, <2>9, <2>10, <2>11, <2>12, <3>1 DEF NbglInv
<1> QED
  BY <1>1, <1>2, <1>3

(* NBGL measures a pair.                                                   *)
LEMMA MeasureInv ==
  ASSUME NbglInv, NEW index \in 0..(nbPairs - 1), Measure(index)
  PROVE  NbglInv'
<1>1. /\ phase = "layout" /\ screen = <<>> /\ outcome = "reviewing" /\ GetPair(index)
      /\ phase' = IF outcome' = "ASSERT" THEN "none" ELSE phase
      /\ UNCHANGED <<nbPairs, first, last, screen, displayed>>
  BY DEF Measure, NbglInv, NbglTypeOK
<1>2. index \in Nat
  OBVIOUS
<1>3. Steady /\ outcome' \in {"reviewing", "ASSERT"} /\ DOMAIN bkp_args' = 0..(NbMax - 1)
  BY <1>1, <1>2, GetPairKeeps
<1>4. DisplayInv'
  BY <1>3, SteadyDisplay DEF NbglInv
<1>5. NbglTypeOK'
  BY <1>1, <1>3 DEF NbglInv, NbglTypeOK
<1>6. PairsKept'
  BY <1>1 DEF PairsKept
<1>7. PairsSeen'
  BY <1>1, <1>3 DEF NbglInv, PairsSeen
<1>8. /\ nbPairs' = Pairs(argumentCount)' /\ currentActionIndex' > 0
      /\ context'.contractName = Current'.contract
      /\ context'.contractActionName = Current'.action
  BY <1>1, <1>3, SteadyOperators DEF NbglInv, Steady
<1> QED
  BY <1>1, <1>3, <1>4, <1>5, <1>6, <1>7, <1>8 DEF NbglInv

(* The next pair of the page takes its slot: the pairs of the page so far  *)
(* are less than NbMax before it.                                          *)
LEMMA LayOutInv ==
  ASSUME NbglInv, LayOut
  PROVE  NbglInv'
<1> DEFINE index == first + Len(screen)
<1>1. /\ phase = "layout" /\ outcome = "reviewing" /\ GetPair(index)
      /\ screen' = Append(screen, PointerTo(index))
      /\ phase' = IF outcome' = "ASSERT" THEN "none"
                  ELSE IF index + 1 = last THEN "page" ELSE phase
      /\ displayed' = IF phase' = "page" THEN displayed \cup (first..(last - 1)) ELSE displayed
      /\ UNCHANGED <<nbPairs, first, last>>
  BY DEF LayOut, NbglInv, NbglTypeOK
<1>2. /\ first \in Nat /\ last \in Nat /\ nbPairs \in Nat /\ Len(screen) \in Nat
      /\ Len(screen) < last - first /\ last - first <= NbMax /\ last <= nbPairs
  BY <1>1 DEF NbglInv, NbglTypeOK
<1>3. index \in Nat /\ index < last
  BY <1>2
<1>4. Steady /\ outcome' \in {"reviewing", "ASSERT"} /\ DOMAIN bkp_args' = 0..(NbMax - 1)
  BY <1>1, <1>3, GetPairKeeps
<1>5. DisplayInv'
  BY <1>4, SteadyDisplay DEF NbglInv
<1>6. /\ screen' \in Seq([to : Places, slot : Nat]) /\ Len(screen') = Len(screen) + 1
      /\ \A i \in 1..Len(screen) : screen'[i] = screen[i]
      /\ screen'[Len(screen) + 1] = PointerTo(index)
  <2>1. PointerTo(index) \in [to : Places, slot : Nat]
    BY <1>3, PointerFacts
  <2> QED
    BY <1>1, <2>1 DEF NbglInv
<1> HIDE DEF index
<1>7. CASE outcome' = "ASSERT"
  <2>1. NbglTypeOK'
    BY <1>1, <1>2, <1>6, <1>7 DEF NbglInv, NbglTypeOK
  <2> QED
    BY <1>1, <1>4, <1>5, <1>6, <1>7, <2>1 DEF NbglInv
<1>8. CASE outcome' = "reviewing"
  <2>1. ASSUME NEW i \in 1..Len(screen')
        PROVE  /\ screen'[i] = PointerTo(first + i - 1)
               /\ PointerTo(first + i - 1).to = "bkp_args" => Keeps(first + i - 1)'
    <3>1. CASE i \in 1..Len(screen)
      <4>1. /\ screen[i] = PointerTo(first + i - 1)
            /\ PointerTo(first + i - 1).to = "bkp_args" => Keeps(first + i - 1)
        BY <1>1, <3>1 DEF NbglInv, PairsKept
      <4>2. first + i - 1 \in Nat /\ first + i - 1 < index /\ index - (first + i - 1) < NbMax
        <5> DEFINE n == Len(screen)
        <5>1. n \in Nat /\ i \in 1..n /\ first \in Nat /\ n < last - first /\ last - first <= NbMax
              /\ index = first + n /\ last \in Nat /\ NbMax \in Nat
          BY <1>2, <3>1, NbglAssumption DEF index
        <5> HIDE DEF n
        <5> QED
          BY <5>1
      <4> QED
        BY <1>1, <1>3, <1>6, <1>8, <3>1, <4>1, <4>2, GetPairKeeps
    <3>2. CASE i = Len(screen) + 1
      <4>1. first + i - 1 = index
        BY <1>2, <3>2 DEF index
      <4> QED
        BY <1>1, <1>3, <1>6, <1>8, <3>2, <4>1, GetPairKeeps
    <3> QED
      BY <1>2, <1>6, <3>1, <3>2
  <2>2. PairsKept'
    BY <1>1, <1>4, <2>1, SteadyOperators DEF PairsKept
  <2>3. PairsSeen'
    <3>1. displayed \subseteq 0..(nbPairs - 1) /\ 0..(first - 1) \subseteq displayed
      BY <1>1 DEF NbglInv, PairsSeen
    <3>2. CASE phase' = "page"
      <4>1. displayed' = displayed \cup (first..(last - 1))
        BY <1>1, <3>2
      <4> QED
        BY <1>1, <1>2, <3>1, <3>2, <4>1 DEF PairsSeen
    <3>3. CASE phase' = "layout"
      BY <1>1, <3>1, <3>3 DEF PairsSeen
    <3> QED
      BY <1>1, <1>8, <3>2, <3>3
  <2>4. NbglTypeOK'
    BY <1>1, <1>2, <1>6, <1>8 DEF NbglInv, NbglTypeOK
  <2>5. /\ nbPairs' = Pairs(argumentCount)' /\ currentActionIndex' > 0
        /\ context'.contractName = Current'.contract
        /\ context'.contractActionName = Current'.action
    BY <1>1, <1>4, SteadyOperators DEF NbglInv, Steady
  <2>6. /\ phase' = "layout" => Len(screen') < last' - first'
        /\ phase' = "page" => Len(screen') = last' - first'
        /\ phase' # "finish"
    <3>1. Len(screen') = Len(screen) + 1 /\ index = first + Len(screen)
          /\ first' = first /\ last' = last
      BY <1>1, <1>6 DEF index
    <3>2. CASE index + 1 = last
      <4>1. phase' = "page"
        BY <1>1, <1>8, <3>2
      <4> QED
        BY <1>2, <3>1, <3>2, <4>1
    <3>3. CASE index + 1 # last
      <4>1. phase' = "layout"
        BY <1>1, <1>8, <3>3
      <4> QED
        BY <1>2, <3>1, <3>3, <4>1
    <3> QED
      BY <3>2, <3>3
  <2> QED
    BY <1>1, <1>4, <1>5, <1>6, <2>2, <2>3, <2>4, <2>5, <2>6 DEF NbglInv
<1> QED
  BY <1>4, <1>7, <1>8

(* The user turns the page, forward or back: what was displayed stays.     *)
LEMMA TurnPageInv ==
  ASSUME NbglInv, TurnPage
  PROVE  NbglInv'
<1>1. /\ phase = "page" /\ phase' = "layout" /\ screen' = <<>>
      /\ UNCHANGED displayVars /\ UNCHANGED <<nbPairs, bkp_args, displayed>>
      /\ \/ /\ last < nbPairs
            /\ first' = last
            /\ last' \in (first' + 1)..(first' + NbMax) /\ last' <= nbPairs
         \/ /\ first > 0
            /\ last' = first
            /\ first' \in 0..(last' - 1) /\ first' + NbMax >= last'
  BY DEF TurnPage
<1>2. /\ first \in Nat /\ last \in Nat /\ nbPairs \in Nat /\ first <= last /\ last <= nbPairs
      /\ NbMax \in Nat /\ NbMax > 0
  BY NbglAssumption DEF NbglInv, NbglTypeOK
<1>3. \E f, l \in Nat :
          /\ first' = f /\ last' = l /\ f < l /\ l - f <= NbMax /\ l <= nbPairs /\ f <= last
          /\ 0 < l - f /\ 0 <= l - f
  <2>1. CASE /\ first' = last
             /\ last' \in (first' + 1)..(first' + NbMax) /\ last' <= nbPairs
    <3>1. PICK l \in Nat : last' = l /\ l \in (last + 1)..(last + NbMax) /\ l <= nbPairs
      BY <1>2, <2>1
    <3>2. last < l /\ l - last <= NbMax /\ 0 < l - last /\ 0 <= l - last /\ last <= last
      BY <1>2, <3>1
    <3> QED
      BY <1>2, <2>1, <3>1, <3>2
  <2>2. CASE /\ first > 0 /\ last' = first
             /\ first' \in 0..(last' - 1) /\ first' + NbMax >= last'
    <3>1. PICK f \in Nat : first' = f /\ f \in 0..(first - 1) /\ f + NbMax >= first
      <4>1. first' \in 0..(first - 1) /\ first' + NbMax >= first
        BY <2>2, Zenon
      <4>2. \A f \in 0..(first - 1) : f \in Nat
        BY <1>2
      <4> QED
        BY <4>1, <4>2, Zenon
    <3>2. f < first /\ first - f <= NbMax /\ 0 < first - f /\ 0 <= first - f /\ f <= last
          /\ first <= nbPairs
      BY <1>2, <3>1
    <3> QED
      BY <1>2, <2>2, <3>1, <3>2
  <2> QED
    BY <1>1, <2>1, <2>2
<1>4. PICK f \in Nat, l \in Nat :
          /\ first' = f /\ last' = l /\ f < l /\ l - f <= NbMax /\ l <= nbPairs /\ f <= last
          /\ 0 < l - f /\ 0 <= l - f
  BY <1>3
<1>5. Steady /\ outcome' = outcome /\ outcome = "reviewing"
  BY <1>1 DEF displayVars, Steady, NbglInv, NbglTypeOK
<1>6. DisplayInv'
  BY <1>5, SteadyDisplay DEF NbglInv
<1>7. Len(screen') = 0 /\ screen' \in Seq([to : Places, slot : Nat])
  BY <1>1
<1>8. Len(screen') <= last' - first' /\ Len(screen') < last' - first'
      /\ last' - first' <= NbMax /\ first' <= last' /\ last' <= nbPairs'
  BY <1>1, <1>4, <1>7
<1>9. NbglTypeOK'
  BY <1>1, <1>5, <1>8 DEF NbglInv, NbglTypeOK
<1>10. PairsKept'
  BY <1>1 DEF PairsKept
<1>11. PairsSeen'
  <2>1. /\ displayed \subseteq 0..(nbPairs - 1) /\ 0..(last - 1) \subseteq displayed
    BY <1>1 DEF NbglInv, PairsSeen
  <2>2. 0..(f - 1) \subseteq displayed
    BY <1>2, <1>4, <2>1
  <2> QED
    BY <1>1, <1>4, <2>1, <2>2 DEF PairsSeen
<1>12. /\ nbPairs' = Pairs(argumentCount)' /\ currentActionIndex' > 0
       /\ context'.contractName = Current'.contract
       /\ context'.contractActionName = Current'.action
  BY <1>1, <1>5, SteadyOperators DEF NbglInv, Steady
<1> QED
  BY <1>1, <1>4, <1>6, <1>7, <1>8, <1>9, <1>10, <1>11, <1>12 DEF NbglInv

(* The review of an action ends, or the one of the last action asks again. *)
LEMMA ChooseInv ==
  ASSUME NbglInv, NEW o \in {"accepted", "cancelled"}, Choose(o)
  PROVE  NbglInv'
<1>1. /\ Steady /\ outcome' = o /\ phase' = "none" /\ screen' = <<>>
      /\ UNCHANGED <<nbPairs, first, last, bkp_args>>
  BY DEF Choose, Steady
<1>2. DisplayInv'
  BY <1>1, SteadyDisplay DEF NbglInv
<1>3. Len(screen') = 0 /\ screen' \in Seq([to : Places, slot : Nat])
  BY <1>1
<1>4. first <= last /\ 0 <= last - first
  BY DEF NbglInv, NbglTypeOK
<1>5. NbglTypeOK'
  BY <1>1, <1>3, <1>4 DEF NbglInv, NbglTypeOK
<1> QED
  BY <1>1, <1>2, <1>3, <1>5 DEF NbglInv

LEMMA ConfirmInv ==
  ASSUME NbglInv, Confirm
  PROVE  NbglInv'
<1>1. phase = "page" /\ last = nbPairs
  BY DEF Confirm
<1>2. CASE Choose("accepted")
  BY <1>2, ChooseInv
<1>3. CASE /\ phase' = "finish" /\ screen' = <<>>
           /\ UNCHANGED <<displayVars, nbPairs, first, last, bkp_args, displayed>>
  <2>1. Steady /\ outcome' = outcome
    BY <1>3 DEF displayVars, Steady
  <2>2. DisplayInv'
    BY <2>1, SteadyDisplay DEF NbglInv, DisplayInv
  <2>3. Len(screen') = 0 /\ screen' \in Seq([to : Places, slot : Nat])
    BY <1>3
  <2>4. first <= last /\ 0 <= last - first
    BY DEF NbglInv, NbglTypeOK
  <2>5. NbglTypeOK'
    BY <1>1, <1>3, <2>1, <2>3, <2>4 DEF NbglInv, NbglTypeOK
  <2>6. PairsKept' /\ PairsSeen'
    BY <1>1, <1>3 DEF PairsKept, NbglInv, PairsSeen
  <2>7. /\ nbPairs' = Pairs(argumentCount)' /\ currentActionIndex' > 0
        /\ context'.contractName = Current'.contract
        /\ context'.contractActionName = Current'.action
    BY <1>1, <1>3, <2>1, SteadyOperators DEF NbglInv, Steady
  <2> QED
    BY <1>3, <2>2, <2>3, <2>5, <2>6, <2>7 DEF NbglInv
<1> QED
  BY <1>2, <1>3 DEF Confirm

LEMMA BeginInv ==
  ASSUME NbglInv, Begin
  PROVE  NbglInv'
<1>1. /\ phase' = "none" /\ nbPairs' = 0 /\ first' = 0 /\ last' = 0 /\ screen' = <<>>
      /\ bkp_args' = IF outcome = "ASSERT" THEN [slot \in 0..(NbMax - 1) |-> NoArgument]
                     ELSE bkp_args
  BY DEF Begin
<1>2. DisplayInv' /\ outcome' = "accepted"
  BY BeginKeeps DEF Begin, NbglInv
<1>3. DOMAIN bkp_args' = 0..(NbMax - 1)
  BY <1>1 DEF NbglInv
<1>4. Len(screen') = 0 /\ screen' \in Seq([to : Places, slot : Nat])
  BY <1>1
<1>5. 0 \in Nat /\ 0 <= 0 /\ 0 <= 0 - 0 /\ 0 - 0 <= NbMax /\ 0 \in 0..255
  BY NbglAssumption
<1>6. NbglTypeOK'
  BY <1>1, <1>2, <1>4, <1>5 DEF NbglTypeOK
<1> QED
  BY <1>1, <1>2, <1>3, <1>4, <1>6 DEF NbglInv

THEOREM NbglInvariant == NbglSpec => []NbglInv
<1>1. NbglInv /\ [NbglNext]_vars => NbglInv'
  <2> SUFFICES ASSUME NbglInv, [NbglNext]_vars PROVE NbglInv'
    OBVIOUS
  <2>1. CASE Begin
    BY <2>1, BeginInv
  <2>2. CASE ui_display_single_action_sign_flow
    BY <2>2, StartInv
  <2>3. ASSUME NEW index \in 0..(nbPairs - 1), Measure(index) PROVE NbglInv'
    BY <2>3, MeasureInv
  <2>4. CASE LayOut
    BY <2>4, LayOutInv
  <2>5. CASE TurnPage
    BY <2>5, TurnPageInv
  <2>6. CASE Confirm
    BY <2>6, ConfirmInv
  <2>7. CASE Finish \/ Reject
    BY <2>7, ChooseInv DEF Finish, Reject
  <2>8. CASE UNCHANGED vars
    <3>1. Steady /\ UNCHANGED nbglVars /\ outcome' = outcome
      BY <2>8 DEF vars, displayVars, Steady
    <3>2. DisplayInv'
      BY <3>1, SteadyDisplay DEF NbglInv, DisplayInv
    <3>3. PairsKept' <=> PairsKept
      BY <3>1, SteadyOperators DEF PairsKept, Keeps, SlotOf, nbglVars
    <3>4. /\ Pairs(argumentCount)' = Pairs(argumentCount) /\ Current' = Current
          /\ context' = context /\ currentActionIndex' = currentActionIndex
      BY <3>1, SteadyOperators DEF Steady
    <3> QED
      BY <3>1, <3>2, <3>3, <3>4 DEF nbglVars, NbglInv, NbglTypeOK, PairsSeen
  <2> QED
    BY <2>1, <2>2, <2>3, <2>4, <2>5, <2>6, <2>7, <2>8 DEF NbglNext
<1> QED
  BY <1>1, NbglInitInv, PTL DEF NbglSpec

(* Type correctness of the review on a touch screen.                       *)
THEOREM NbglTypes == NbglSpec => []NbglTypeOK
BY NbglInvariant, PTL DEF NbglInv

----------------------------------------------------------------------------
(* Whatever data an action has: the page that asks to confirm comes after  *)
(* every pair that NBGL was told of.                                       *)
THEOREM ConfirmedAfterEveryPair ==
  NbglSpec => [](phase = "finish" \/ (phase = "page" /\ last = nbPairs) =>
                     displayed = 0..(nbPairs - 1))
<1>1. NbglInv => (phase = "finish" \/ (phase = "page" /\ last = nbPairs) =>
                      displayed = 0..(nbPairs - 1))
  BY DEF NbglInv, PairsSeen
<1> QED
  BY <1>1, NbglInvariant, PTL

(* Whatever data an action has, and whichever pairs were measured before:  *)
(* every pointer of a page is the one of its pair, and behind it is what   *)
(* printArgument makes of that argument.                                   *)
THEOREM PagesKeepTheirPairs == NbglSpec => [](phase = "page" => PairsKept)
<1>1. NbglInv => (phase = "page" => PairsKept)
  BY DEF NbglInv
<1> QED
  BY <1>1, NbglInvariant, PTL

(* The pairs in front of the arguments.                                    *)
LEMMA IntroductionOfMany ==
  ASSUME Multi
  PROVE  /\ Len(Introduction) = 3
         /\ Introduction[1] = <<currentActionIndex, Len(actions)>>
         /\ Introduction[2] = name_to_string(Current.contract)
         /\ Introduction[3] = name_to_string(Current.action)
<1>1. ASSUME NEW a, NEW b, NEW c
      PROVE  /\ Len(<<a>> \o <<b, c>>) = 3 /\ (<<a>> \o <<b, c>>)[1] = a
             /\ (<<a>> \o <<b, c>>)[2] = b /\ (<<a>> \o <<b, c>>)[3] = c
  OBVIOUS
<1> DEFINE position == <<currentActionIndex, Len(actions)>>
           contract == name_to_string(Current.contract)
           action == name_to_string(Current.action)
<1>2. Introduction = <<position>> \o <<contract, action>>
  BY DEF Introduction
<1> HIDE DEF position, contract, action
<1>3. /\ Len(Introduction) = 3 /\ Introduction[1] = position
      /\ Introduction[2] = contract /\ Introduction[3] = action
  BY <1>1, <1>2
<1> QED
  BY <1>3 DEF position, contract, action

LEMMA IntroductionOfOne ==
  ASSUME ~Multi
  PROVE  /\ Len(Introduction) = 2
         /\ Introduction[1] = name_to_string(Current.contract)
         /\ Introduction[2] = name_to_string(Current.action)
<1>1. ASSUME NEW b, NEW c
      PROVE  /\ Len(<<>> \o <<b, c>>) = 2
             /\ (<<>> \o <<b, c>>)[1] = b /\ (<<>> \o <<b, c>>)[2] = c
  OBVIOUS
<1> DEFINE contract == name_to_string(Current.contract)
           action == name_to_string(Current.action)
<1>2. Introduction = <<>> \o <<contract, action>>
  BY DEF Introduction
<1> HIDE DEF contract, action
<1>3. Len(Introduction) = 2 /\ Introduction[1] = contract /\ Introduction[2] = action
  BY <1>1, <1>2
<1> QED
  BY <1>3 DEF contract, action

(* What the review of a well-formed action has to show.                    *)
LEMMA DecodedPairs ==
  ASSUME NbglInv, DecodesRight, phase # "none", Current.wellFormed
  PROVE  /\ argumentCount = Len(Current.pages) /\ argumentCount \in Nat
         /\ nbPairs = argumentCount + (IF Multi THEN 3 ELSE 2)
         /\ \A n \in 1..argumentCount :
                /\ printArgument(n - 1, context, CounterMod).outcome = "page"
                /\ Shown(printArgument(n - 1, context, CounterMod)) = Current.pages[n]
<1>1. outcome = "reviewing"
  BY DEF NbglInv, NbglTypeOK
<1>2. /\ argumentCount = Len(Current.pages) /\ argumentCount \in Nat
      /\ \A n \in 1..argumentCount :
             /\ printArgument(n - 1, context, CounterMod).outcome = "page"
             /\ Shown(printArgument(n - 1, context, CounterMod)) = Current.pages[n]
  BY <1>1 DEF DecodesRight, NbglInv, DisplayInv
<1>3. Len(Current.pages) + 3 <= 255
  <2>1. actions \in Transactions /\ currentActionIndex \in 1..Len(actions)
    <3>1. actions \in Transactions /\ currentActionIndex \in 0..Len(actions)
          /\ currentActionIndex > 0
      BY DEF NbglInv, DisplayInv, currentActionNumber
    <3> QED
      BY <3>1, DisplayAssumption
  <2>2. ActionOK(Current)
    BY <2>1, DisplayAssumption DEF Current
  <2> QED
    BY <2>2 DEF ActionOK
<1>4. argumentCount + 3 <= 255
  BY <1>2, <1>3
<1>5. nbPairs = Pairs(argumentCount)
  BY DEF NbglInv
<1>6. CASE Multi
  <2>1. Pairs(argumentCount) = (argumentCount + 3) % 256
    BY <1>6 DEF Pairs
  <2>2. \A n \in Nat : n + 3 <= 255 => (n + 3) % 256 = n + 3
    OBVIOUS
  <2> QED
    BY <1>2, <1>4, <1>5, <1>6, <2>1, <2>2, Zenon
<1>7. CASE ~Multi
  <2>1. Pairs(argumentCount) = (argumentCount + 2) % 256
    BY <1>7 DEF Pairs
  <2>2. \A n \in Nat : n + 3 <= 255 => (n + 2) % 256 = n + 2
    OBVIOUS
  <2> QED
    BY <1>2, <1>4, <1>5, <1>7, <2>1, <2>2, Zenon
<1> QED
  BY <1>6, <1>7

(* Where the decoders are right about an action, a page shows the pairs of *)
(* the action, all of them at once.                                        *)
THEOREM NbglShowsWhatIsDecoded == NbglSpec => ([]DecodesRight => []PageShowsPairs)
<1>1. NbglInv /\ DecodesRight => PageShowsPairs
  <2> SUFFICES ASSUME NbglInv, DecodesRight, phase = "page", Current.wellFormed,
                      NEW i \in 1..Len(screen)
               PROVE  OnScreen(screen[i]) = Expected(first + i - 1)
    BY DEF PageShowsPairs
  <2> DEFINE index == first + i - 1
             s == SingleIndex(index)
  <2>1. /\ screen[i] = PointerTo(index)
        /\ PointerTo(index).to = "bkp_args" => Keeps(index)
    BY DEF NbglInv, PairsKept
  <2>2. index \in Nat /\ index < nbPairs
    <3>1. /\ first \in Nat /\ last \in Nat /\ nbPairs \in Nat /\ last <= nbPairs
          /\ Len(screen) = last - first
      BY DEF NbglInv, NbglTypeOK
    <3>2. i \in Nat /\ i >= 1 /\ i <= last - first
      BY <3>1
    <3> QED
      BY <3>1, <3>2
  <2>3. /\ argumentCount = Len(Current.pages) /\ argumentCount \in Nat
        /\ nbPairs = argumentCount + (IF Multi THEN 3 ELSE 2)
        /\ \A n \in 1..argumentCount :
               /\ printArgument(n - 1, context, CounterMod).outcome = "page"
               /\ Shown(printArgument(n - 1, context, CounterMod)) = Current.pages[n]
    BY DecodedPairs
  <2>4. /\ context.contractName = Current.contract
        /\ context.contractActionName = Current.action
    BY DEF NbglInv
  <2> HIDE DEF index
  <2>5. CASE Multi /\ index = 0
    <3>1. PointerTo(index) = Pointer("review_action", 0)
      BY <2>5 DEF PointerTo, SingleIndex
    <3>2. OnScreen(screen[i]) = <<currentActionIndex, Len(actions)>>
      BY <2>1, <3>1, PointerIsRecord DEF Places, OnScreen, currentActionNumber
    <3>3. Expected(index) = <<currentActionIndex, Len(actions)>>
      <4>1. Len(Introduction) = 3 /\ Introduction[1] = <<currentActionIndex, Len(actions)>>
        BY <2>5, IntroductionOfMany
      <4>2. index < Len(Introduction) /\ index + 1 = 1
        BY <2>5, <4>1
      <4> QED
        BY <4>1, <4>2 DEF Expected
    <3> QED
      BY <3>2, <3>3 DEF index
  <2>6. CASE ~(Multi /\ index = 0)
    <3>1. s \in Nat /\ index = (IF Multi THEN s + 1 ELSE s)
      BY <2>2, <2>6 DEF SingleIndex
    <3>2. CASE s = 0
      <4>1. PointerTo(index) = Pointer("contract", 0)
        BY <2>6, <3>2 DEF PointerTo
      <4>2. OnScreen(screen[i]) = name_to_string(Current.contract)
        BY <2>1, <2>4, <4>1, PointerIsRecord DEF Places, OnScreen
      <4>3. Expected(index) = name_to_string(Current.contract)
        <5>1. CASE Multi
          <6>1. Len(Introduction) = 3 /\ Introduction[2] = name_to_string(Current.contract)
            BY <5>1, IntroductionOfMany
          <6>2. index < Len(Introduction) /\ index + 1 = 2
            BY <3>1, <3>2, <5>1, <6>1
          <6> QED
            BY <6>1, <6>2 DEF Expected
        <5>2. CASE ~Multi
          <6>1. Len(Introduction) = 2 /\ Introduction[1] = name_to_string(Current.contract)
            BY <5>2, IntroductionOfOne
          <6>2. index < Len(Introduction) /\ index + 1 = 1
            BY <3>1, <3>2, <5>2, <6>1
          <6> QED
            BY <6>1, <6>2 DEF Expected
        <5> QED
          BY <5>1, <5>2
      <4> QED
        BY <4>2, <4>3 DEF index
    <3>3. CASE s = 1
      <4>1. PointerTo(index) = Pointer("action", 0)
        BY <2>6, <3>3 DEF PointerTo
      <4>2. OnScreen(screen[i]) = name_to_string(Current.action)
        BY <2>1, <2>4, <4>1, PointerIsRecord DEF Places, OnScreen
      <4>3. Expected(index) = name_to_string(Current.action)
        <5>1. CASE Multi
          <6>1. Len(Introduction) = 3 /\ Introduction[3] = name_to_string(Current.action)
            BY <5>1, IntroductionOfMany
          <6>2. index < Len(Introduction) /\ index + 1 = 3
            BY <3>1, <3>3, <5>1, <6>1
          <6> QED
            BY <6>1, <6>2 DEF Expected
        <5>2. CASE ~Multi
          <6>1. Len(Introduction) = 2 /\ Introduction[2] = name_to_string(Current.action)
            BY <5>2, IntroductionOfOne
          <6>2. index < Len(Introduction) /\ index + 1 = 2
            BY <3>1, <3>3, <5>2, <6>1
          <6> QED
            BY <6>1, <6>2 DEF Expected
        <5> QED
          BY <5>1, <5>2
      <4> QED
        BY <4>2, <4>3 DEF index
    <3>4. CASE s >= 2
      <4>1. PointerTo(index) = Pointer("bkp_args", SlotOf(s))
        BY <2>6, <3>1, <3>4 DEF PointerTo
      <4>2. SlotOf(s) \in Nat
        BY <3>1, RemainderBound, NbglAssumption DEF SlotOf
      <4>3. PointerTo(index).to = "bkp_args" /\ PointerTo(index).slot = SlotOf(s)
        BY <4>1, <4>2, PointerIsRecord DEF Places
      <4>4. s - 1 \in 1..argumentCount /\ (s - 1) - 1 = s - 2
        <5> HIDE DEF s
        <5>1. argumentCount \in Nat /\ index \in Nat /\ index < nbPairs
              /\ nbPairs = argumentCount + (IF Multi THEN 3 ELSE 2)
          BY <2>2, <2>3
        <5>2. CASE Multi
          BY <3>1, <3>4, <5>1, <5>2
        <5>3. CASE ~Multi
          BY <3>1, <3>4, <5>1, <5>3
        <5> QED
          BY <5>2, <5>3
      <4>5. ArgumentOf(index) = printArgument((s - 1) - 1, context, CounterMod)
        BY <4>4 DEF ArgumentOf
      <4>6. bkp_args[SlotOf(s)] = ArgumentOf(index) /\ Shown(ArgumentOf(index)) = Current.pages[s - 1]
        BY <2>1, <2>3, <4>3, <4>4, <4>5 DEF Keeps
      <4>7. OnScreen(screen[i]) = Current.pages[s - 1]
        BY <2>1, <4>3, <4>6 DEF OnScreen
      <4>8. Expected(index) = Current.pages[s - 1]
        <5>1. CASE Multi
          <6>1. ~(index < Len(Introduction)) /\ index + 1 - Len(Introduction) = s - 1
            <7> HIDE DEF s
            <7>1. Len(Introduction) = 3
              BY <5>1, IntroductionOfMany
            <7> QED
              BY <3>1, <3>4, <5>1, <7>1
          <6> QED
            BY <6>1 DEF Expected
        <5>2. CASE ~Multi
          <6>1. ~(index < Len(Introduction)) /\ index + 1 - Len(Introduction) = s - 1
            <7> HIDE DEF s
            <7>1. Len(Introduction) = 2
              BY <5>2, IntroductionOfOne
            <7> QED
              BY <3>1, <3>4, <5>2, <7>1
          <6> QED
            BY <6>1 DEF Expected
        <5> QED
          BY <5>1, <5>2
      <4> QED
        BY <4>7, <4>8 DEF index
    <3> QED
      BY <3>1, <3>2, <3>3, <3>4
  <2> QED
    BY <2>5, <2>6
<1> QED
  BY <1>1, NbglInvariant, PTL

(* Where the decoders are right about an action, the page that asks to     *)
(* confirm comes after all pairs of the action.                            *)
THEOREM NbglConfirmsAllPairs == NbglSpec => ([]DecodesRight => []ConfirmedAfterAllPairs)
<1>1. NbglInv /\ DecodesRight => ConfirmedAfterAllPairs
  <2> SUFFICES ASSUME NbglInv, DecodesRight, Current.wellFormed,
                      phase = "finish" \/ (phase = "page" /\ last = nbPairs)
               PROVE  displayed = 0..(Len(Introduction) + Len(Current.pages) - 1)
    BY DEF ConfirmedAfterAllPairs
  <2>1. displayed = 0..(nbPairs - 1)
    BY DEF NbglInv, PairsSeen
  <2>2. argumentCount = Len(Current.pages) /\ argumentCount \in Nat
        /\ nbPairs = argumentCount + (IF Multi THEN 3 ELSE 2)
    BY DecodedPairs
  <2>3. nbPairs = Len(Introduction) + Len(Current.pages)
    <3>1. CASE Multi
      <4>1. Len(Introduction) = 3
        BY <3>1, IntroductionOfMany
      <4> QED
        BY <2>2, <3>1, <4>1
    <3>2. CASE ~Multi
      <4>1. Len(Introduction) = 2
        BY <3>2, IntroductionOfOne
      <4> QED
        BY <2>2, <3>2, <4>1
    <3> QED
      BY <3>1, <3>2
  <2> QED
    BY <2>1, <2>3
<1> QED
  BY <1>1, NbglInvariant, PTL
=============================================================================
