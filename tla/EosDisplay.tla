----------------------------- MODULE EosDisplay -----------------------------
(***************************************************************************)
(* The part of the transaction context that a review reads, while the      *)
(* actions of a transaction are reviewed one after the other.  How the     *)
(* user moves through a review is the matter of EosBagl and EosNbgl.       *)
(*                                                                         *)
(* The bytes of a transaction and their way here are those of EosStream;   *)
(* an action arrives with its names and data, as the parser has them when  *)
(* it returns STREAM_ACTION_READY.                                         *)
(***************************************************************************)
EXTENDS EosArguments

CONSTANTS
    Transactions,       \* lists of actions, see ActionOK
    CounterMod,         \* 2^32 in the code: what a variable-length integer can be
    ActionDataSize      \* sizeof(context->actionDataBuffer), 512 in the code

(* An action comes with what its sender means by it: pages, each with      *)
(* label, number, kind and text.  wellFormed tells whether the data is     *)
(* what an EOSIO node would accept as the arguments of the action.         *)
ActionOK(a) ==
    /\ a.contract \in Seq(Byte) /\ Len(a.contract) = NameSize
    /\ a.action \in Seq(Byte) /\ Len(a.action) = NameSize
    /\ a.data \in Seq(Byte) /\ Len(a.data) < ActionDataSize
    /\ a.wellFormed \in BOOLEAN
    /\ a.wellFormed => Len(a.pages) + 3 <= 255 \* lists of 512 bytes at most

ASSUME DisplayAssumption ==
    /\ \A t \in Transactions :
           /\ Len(t) \in Nat \ {0}
           /\ \A i \in 1..Len(t) : ActionOK(t[i])
    /\ CounterMod \in Nat \ {0}
    /\ ActionDataSize \in Nat /\ ActionDataSize >= 2 * NameSize + 5 \* see EosLemmas

VARIABLES
    actions,            \* the transaction
    currentActionIndex,
    context,            \* names, data and checksum of the action under review
    argumentCount,      \* txContent.argumentCount
    arg,                \* txContent.arg
    outcome             \* of the review: "reviewing", "accepted", "cancelled", "ASSERT"

displayVars == <<actions, currentActionIndex, context, argumentCount, arg, outcome>>

currentActionNumber == Len(actions)
Current == actions[currentActionIndex]

NoArgument == Page("", 0, "none", 0, <<>>)

(* The context after initTxContext.                                        *)
ClearedContext ==
    [contractName |-> [i \in 1..NameSize |-> 0],
     contractActionName |-> [i \in 1..NameSize |-> 0],
     actionDataBuffer |-> [i \in 1..ActionDataSize |-> 0],
     currentActionDataBufferLength |-> 0,
     dataAllowed |-> TRUE,
     dataChecksum |-> <<>>]

DisplayInit ==
    /\ actions \in Transactions
    /\ currentActionIndex = 0
    /\ context = ClearedContext
    /\ argumentCount = 0
    /\ arg = NoArgument
    /\ outcome = "accepted"

(* Another transaction begins: initTxContext clears the context, but not   *)
(* txContent.                                                              *)
BeginTransaction(t) ==
    /\ \/ outcome = "cancelled"
       \/ outcome = "accepted" /\ currentActionIndex = currentActionNumber
    /\ actions' = t
    /\ currentActionIndex' = 0
    /\ context' = ClearedContext
    /\ outcome' = "accepted"
    /\ UNCHANGED <<argumentCount, arg>>

(* The program is started again after a failed assertion.                  *)
Relaunch(t) ==
    /\ outcome = "ASSERT"
    /\ actions' = t
    /\ currentActionIndex' = 0
    /\ context' = ClearedContext
    /\ argumentCount' = 0
    /\ arg' = NoArgument
    /\ outcome' = "accepted"

(* The data of an action over what earlier ones left in the buffer; that   *)
(* of an unknown action is not stored, only its checksum (here the bytes   *)
(* that are hashed: the length of the data and the data).                  *)
Loaded(a) ==
    LET known == isKnownAction(a.contract, a.action)
        old == context.actionDataBuffer
    IN  [contractName |-> a.contract,
         contractActionName |-> a.action,
         actionDataBuffer |->
             IF known THEN a.data \o SubSeq(old, Len(a.data) + 1, ActionDataSize) ELSE old,
         currentActionDataBufferLength |-> Len(a.data),
         dataAllowed |-> TRUE,
         dataChecksum |-> IF known THEN context.dataChecksum ELSE <<Len(a.data)>> \o a.data]

CountOf(c) ==
    IF ~isKnownAction(c.contractName, c.contractActionName) THEN Count(3)
    ELSE ArgumentCount(c.contractActionName, c.actionDataBuffer,
                       c.currentActionDataBufferLength, CounterMod)

(* The parser has read the next action and counted its arguments.  The     *)
(* review of it begins, unless its data fails an assertion.                *)
ActionReady ==
    /\ outcome = "accepted"
    /\ currentActionIndex < currentActionNumber
    /\ currentActionIndex' = currentActionIndex + 1
    /\ LET c == Loaded(actions[currentActionIndex + 1])
           n == CountOf(c)
       IN  /\ context' = c
           /\ IF n.asserts
              THEN outcome' = "ASSERT" /\ UNCHANGED argumentCount
              ELSE outcome' = "reviewing" /\ argumentCount' = n.count
    /\ UNCHANGED <<actions, arg>>

(* A screen calls printArgument: arg is written, or kept where no branch   *)
(* applies, or the program ends.                                           *)
Display(argNum) ==
    \E page \in {printArgument(argNum, context, CounterMod)} :
        /\ arg' = IF page.outcome = "page" THEN page ELSE arg
        /\ outcome' = IF page.outcome = "ASSERT" THEN "ASSERT" ELSE outcome

----------------------------------------------------------------------------
Shown(page) ==
    [label |-> page.label, number |-> page.number, kind |-> page.kind, text |-> page.text]

(* The decoders are right about an action if they count the arguments its  *)
(* sender means and print each of them as what it means, whatever an       *)
(* earlier action left in the buffer and in txContent.arg.                 *)
DecodesRight ==
    outcome = "reviewing" /\ Current.wellFormed =>
        /\ argumentCount = Len(Current.pages) /\ argumentCount > 0
        /\ \A n \in 1..argumentCount :
               LET page == printArgument(n - 1, context, CounterMod)
               IN  page.outcome = "page" /\ Shown(page) = Current.pages[n]

(* What a page shows lies in the data of the action; that the stake is to  *)
(* be transferred is the octet after the two amounts.                      *)
InsideData(page) ==
    /\ page.kind \in DOMAIN FieldSize \cup {"string"} =>
           page.at + page.length <= context.currentActionDataBufferLength
    /\ page.kind = "Yes" =>
           2 * NameSize + 2 * AssetSize < context.currentActionDataBufferLength
=============================================================================
