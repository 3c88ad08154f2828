------------------------------- MODULE EosNbgl -------------------------------
(***************************************************************************)
(* The review of the actions of a transaction on a device with a touch     *)
(* screen, src/ui_nbgl.c.  The NBGL library of the SDK asks the callback   *)
(* for pairs of a label and a value, and keeps only pointers to them.      *)
(*                                                                         *)
(* External, from how the code uses it: NBGL may ask for any pair at any   *)
(* time before a page is laid out, to measure it; then for the pairs of    *)
(* the page in order; the page stays until the user turns it or decides.   *)
(***************************************************************************)
EXTENDS EosDisplay

CONSTANT NbMax      \* NB_MAX_DISPLAYED_PAIRS_IN_REVIEW

ASSUME NbglAssumption == NbMax \in Nat \ {0}

VARIABLES
    nbPairs,        \* pairList.nbPairs, a uint8_t
    phase,          \* "none", "layout", "page" or "finish"
    first, last,    \* the pairs of the page: first to last - 1, from 0
    screen,         \* the pointers NBGL has got for them
    bkp_args,
    displayed       \* history: the pairs displayed in this review

nbglVars == <<nbPairs, phase, first, last, screen, bkp_args, displayed>>
vars == <<displayVars, nbglVars>>

Multi == currentActionNumber # 1

NbglInit ==
    /\ DisplayInit
    /\ nbPairs = 0 /\ phase = "none"
    /\ first = 0 /\ last = 0 /\ screen = <<>>
    /\ bkp_args = [slot \in 0..(NbMax - 1) |-> NoArgument]
    /\ displayed = {}

----------------------------------------------------------------------------
(* Pointers to txContent.contract and txContent.action, to review_action,  *)
(* and into bkp_args.                                                      *)
Pointer(to, slot) == [to |-> to, slot |-> slot]

SlotOfNext(index) == index % (IF NbMax > 1 THEN NbMax - 1 ELSE 1)
SlotOf(index) == index % NbMax

(* The index get_single_action_review_pair is called with.                 *)
SingleIndex(index) == IF Multi THEN index - 1 ELSE index

PointerTo(index) ==
    CASE Multi /\ index = 0 -> Pointer("review_action", 0)
      [] SingleIndex(index) = 0 /\ ~(Multi /\ index = 0) -> Pointer("contract", 0)
      [] SingleIndex(index) = 1 -> Pointer("action", 0)
      [] OTHER -> Pointer("bkp_args", SlotOf(SingleIndex(index)))

(* get_single_action_review_pair and get_multi_action_review_pair: an      *)
(* argument is printed into txContent.arg and copied from there.           *)
GetPair(index) ==
    /\ IF PointerTo(index).to = "bkp_args"
       THEN /\ Display(SingleIndex(index) - 2)
            /\ bkp_args' = IF outcome' = "ASSERT" THEN bkp_args
                           ELSE [bkp_args EXCEPT ![SlotOf(SingleIndex(index))] = arg']
       ELSE UNCHANGED <<arg, outcome, bkp_args>>
    /\ UNCHANGED <<actions, currentActionIndex, context, argumentCount>>

PairsTwo(count) == (count + 2) % 256
Pairs(count) == (count + (IF Multi THEN 3 ELSE 2)) % 256

ui_display_single_action_sign_flow ==
    /\ ActionReady
    /\ IF outcome' = "ASSERT" THEN UNCHANGED nbglVars
       ELSE /\ nbPairs' = Pairs(argumentCount')
            /\ phase' = "layout" /\ first' = 0
            /\ last' \in 1..NbMax /\ last' <= nbPairs'
            /\ screen' = <<>> /\ displayed' = {}
            /\ UNCHANGED bkp_args

----------------------------------------------------------------------------
(* NBGL: a pair is measured; the next pair of the page is asked for, and   *)
(* the last one completes the page.                                        *)
Measure(index) ==
    /\ phase = "layout" /\ screen = <<>>
    /\ GetPair(index)
    /\ phase' = IF outcome' = "ASSERT" THEN "none" ELSE phase
    /\ UNCHANGED <<nbPairs, first, last, screen, displayed>>

LayOut ==
    /\ phase = "layout"
    /\ LET index == first + Len(screen)
       IN  /\ GetPair(index)
           /\ screen' = Append(screen, PointerTo(index))
           /\ phase' = IF outcome' = "ASSERT" THEN "none"
                       ELSE IF index + 1 = last THEN "page" ELSE phase
    /\ displayed' = IF phase' = "page" THEN displayed \cup (first..(last - 1)) ELSE displayed
    /\ UNCHANGED <<nbPairs, first, last>>

(* The user turns the page.  How many pairs fit is not known.              *)
TurnPage ==
    /\ phase = "page"
    /\ \/ /\ last < nbPairs
          /\ first' = last
          /\ last' \in (first' + 1)..(first' + NbMax) /\ last' <= nbPairs
       \/ /\ first > 0
          /\ last' = first
          /\ first' \in 0..(last' - 1) /\ first' + NbMax >= last'
    /\ phase' = "layout" /\ screen' = <<>>
    /\ UNCHANGED <<displayVars, nbPairs, bkp_args, displayed>>

Choose(o) ==
    /\ outcome' = o /\ phase' = "none" /\ screen' = <<>>
    /\ UNCHANGED <<actions, currentActionIndex, context, argumentCount, arg, nbPairs, first, last,
                   bkp_args, displayed>>

(* review_choice_single and review_choice_multi, the choice of the last    *)
(* page; after the last action of several, nbgl_useCaseReviewStreamingFinish*)
(* asks once more, without pairs.                                          *)
Confirm ==
    /\ phase = "page" /\ last = nbPairs
    /\ IF Multi /\ currentActionIndex = currentActionNumber
       THEN /\ phase' = "finish" /\ screen' = <<>>
            /\ UNCHANGED <<displayVars, nbPairs, first, last, bkp_args, displayed>>
       ELSE Choose("accepted")

FinishUnanswered ==
    /\ phase = "finish" /\ phase' = "none" /\ screen' = <<>>
    /\ UNCHANGED <<displayVars, nbPairs, first, last, bkp_args, displayed>>
Finish == phase = "finish" /\ Choose("accepted")

(* A review can be rejected on every page.                                 *)
Reject == phase \in {"page", "finish"} /\ Choose("cancelled")

Begin ==
    /\ \E t \in Transactions : BeginTransaction(t) \/ Relaunch(t)
    /\ bkp_args' = IF outcome = "ASSERT" THEN [slot \in 0..(NbMax - 1) |-> NoArgument]
                   ELSE bkp_args
    /\ phase' = "none" /\ nbPairs' = 0 /\ first' = 0 /\ last' = 0 /\ screen' = <<>>
    /\ displayed' = {}

NbglNext ==
    \/ Begin
    \/ ui_display_single_action_sign_flow
    \/ \E index \in 0..(nbPairs - 1) : Measure(index)
    \/ LayOut
    \/ TurnPage
    \/ Confirm
    \/ Finish
    \/ Reject

NbglSpec == NbglInit /\ [][NbglNext]_vars

----------------------------------------------------------------------------
NbglTypeOK ==
    /\ phase \in {"none", "layout", "page", "finish"}
    /\ nbPairs \in 0..255
    /\ first <= last /\ last <= nbPairs /\ last - first <= NbMax
    /\ Len(screen) <= last - first
    /\ phase = "none" <=> outcome # "reviewing"

(* What a pointer points to while the page is displayed, and what the      *)
(* sender of the transaction means the pair to be.                         *)
OnScreen(pointer) ==
    CASE pointer.to = "contract" -> name_to_string(context.contractName)
      [] pointer.to = "action" -> name_to_string(context.contractActionName)
      [] pointer.to = "review_action" -> <<currentActionIndex, currentActionNumber>>
      [] pointer.to = "bkp_args" -> Shown(bkp_args[pointer.slot])

Introduction ==
    (IF Multi THEN << <<currentActionIndex, Len(actions)>> >> ELSE <<>>)
    \o <<name_to_string(Current.contract), name_to_string(Current.action)>>
Expected(index) ==
    IF index < Len(Introduction) THEN Introduction[index + 1]
    ELSE Current.pages[index + 1 - Len(Introduction)]

(* All pairs of a page are those of the action at once: no pair of the     *)
(* page has taken the buffer of another, neither when the page was laid    *)
(* out nor when pairs were measured.                                       *)
PageShowsPairs ==
    phase = "page" /\ Current.wellFormed =>
        \A i \in 1..Len(screen) : OnScreen(screen[i]) = Expected(first + i - 1)

(* The page that asks to confirm comes after all pairs of the action.      *)
ConfirmedAfterAllPairs ==
    (phase = "finish" \/ (phase = "page" /\ last = nbPairs)) /\ Current.wellFormed =>
        displayed = 0..(Len(Introduction) + Len(Current.pages) - 1)
=============================================================================
