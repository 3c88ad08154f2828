------------------------------ MODULE EosReview ------------------------------
(***************************************************************************)
(* What the stream parser of src/eos_stream.c promises to its callers in   *)
(* src/main.c, without the bytes: which fields are read in which order,    *)
(* which verdict parseTx returns, and how many actions it hands out for    *)
(* review before it says that the transaction is complete.                 *)
(*                                                                         *)
(* One behaviour interleaves the caller, who starts a transaction          *)
(* (InitTxContext) and calls parseTx again and again, with the iterations  *)
(* of processTxInternal's loop.  What the bytes decide in the code (does   *)
(* the block end here, is the length field valid, which number does a      *)
(* counter field hold, is the action known) is chosen freely here.         *)
(* EosStream reads the bytes and implements this specification; EosApp     *)
(* puts the command loop, the screen and the user around it.               *)
(***************************************************************************)
EXTENDS EosTypes

CONSTANT CounterMod     \* 2^32 in the code: the counters are uint32_t

ASSUME CounterModAssumption == CounterMod \in Nat /\ CounterMod > 1

VARIABLES
    state,                      \* the fields of txProcessingContext_t that
    actionReady,                \* steer the parser
    confirmProcessing,
    currentActionIndex,
    currentActionNumber,
    currentAutorizationIndex,
    currentAutorizationNumber,
    dataAllowed,
    known,                      \* isKnownAction of the action being read
    status,                     \* what parseTx is doing or has returned
    returned,                   \* history: actions handed out for review
    confirmed                   \* history: the number of actions was handed out

counterVars == <<currentActionIndex, currentActionNumber,
                 currentAutorizationIndex, currentAutorizationNumber>>
reviewVars == <<state, actionReady, confirmProcessing, counterVars,
                dataAllowed, known, status, returned, confirmed>>

Counter == 0..(CounterMod - 1)

(* "IDLE" before the first parseTx of a transaction, "RUNNING" inside      *)
(* processTxInternal, "ASSERT" once a LEDGER_ASSERT has ended the program. *)
Status == parserStatus_e \cup {"IDLE", "RUNNING", "ASSERT"}

----------------------------------------------------------------------------
(* The context of a program that has just been started: static storage.    *)
ReviewInit ==
    /\ state = TLV_NONE
    /\ actionReady = FALSE /\ confirmProcessing = FALSE
    /\ currentActionIndex = 0 /\ currentActionNumber = 0
    /\ currentAutorizationIndex = 0 /\ currentAutorizationNumber = 0
    /\ dataAllowed = FALSE /\ known = FALSE
    /\ status = "IDLE"
    /\ returned = 0 /\ confirmed = FALSE

ClearContext ==
    /\ actionReady' = FALSE /\ confirmProcessing' = FALSE
    /\ currentActionIndex' = 0 /\ currentActionNumber' = 0
    /\ currentAutorizationIndex' = 0 /\ currentAutorizationNumber' = 0
    /\ known' = FALSE
    /\ status' = "IDLE"
    /\ returned' = 0 /\ confirmed' = FALSE

(* initTxContext wipes the context and remembers the user's setting.       *)
InitTxContext(allowed) ==
    /\ ClearContext
    /\ state' = TLV_CHAIN_ID
    /\ dataAllowed' = allowed

(* The program is started again, after an assertion, a power cut or the    *)
(* user's wish has ended it at any point.                                  *)
Relaunch ==
    /\ ClearContext
    /\ state' = TLV_NONE
    /\ dataAllowed' = FALSE

(* parseTx enters processTxInternal, whatever the last verdict was: it is  *)
(* the callers who decide whether to call it again.                        *)
ParseTx ==
    /\ status \in parserStatus_e \cup {"IDLE"}
    /\ status' = "RUNNING"
    /\ UNCHANGED <<state, actionReady, confirmProcessing, counterVars,
                   dataAllowed, known, returned, confirmed>>

----------------------------------------------------------------------------
(* The verdicts of processTxInternal, in the order the loop tests them.    *)

ReturnConfirm ==
    /\ status = "RUNNING"
    /\ confirmProcessing
    /\ confirmProcessing' = FALSE
    /\ status' = "STREAM_CONFIRM_PROCESSING"
    /\ confirmed' = TRUE
    /\ UNCHANGED <<state, actionReady, counterVars, dataAllowed, known, returned>>

ReturnActionReadyTwice ==
    /\ status = "RUNNING"
    /\ ~confirmProcessing /\ actionReady
    /\ actionReady' = (returned = 0)
    /\ status' = "STREAM_ACTION_READY"
    /\ returned' = returned + 1
    /\ UNCHANGED <<state, confirmProcessing, counterVars, dataAllowed, known, confirmed>>
ReturnActionReady ==
    /\ status = "RUNNING"
    /\ ~confirmProcessing /\ actionReady
    /\ actionReady' = FALSE
    /\ status' = "STREAM_ACTION_READY"
    /\ returned' = returned + 1
    /\ UNCHANGED <<state, confirmProcessing, counterVars, dataAllowed, known, confirmed>>

Verdict(v) ==
    /\ status = "RUNNING"
    /\ ~confirmProcessing /\ ~actionReady
    /\ status' = v
    /\ UNCHANGED <<state, actionReady, confirmProcessing, counterVars,
                   dataAllowed, known, returned, confirmed>>

ReturnFinished == state = TLV_DONE /\ Verdict("STREAM_FINISHED")

(* The block is used up, or ends inside a field or a TLV header.           *)
ReturnProcessing == state # TLV_DONE /\ Verdict("STREAM_PROCESSING")

(* A TLV header that cannot be decoded, or the data of an unknown action   *)
(* that the setting does not allow.                                        *)
ReturnFault == state # TLV_DONE /\ Verdict("STREAM_FAULT")

(* A LEDGER_ASSERT on the contents of a field: the program ends.           *)
AssertFails == state # TLV_DONE /\ Verdict("ASSERT")

----------------------------------------------------------------------------
(* One iteration that completes the field of the current state.            *)

Reading ==
    /\ status = "RUNNING"
    /\ ~confirmProcessing /\ ~actionReady

(* Fields after which the parser just moves to the next state.             *)
PlainFields ==
    HashedOnlyFields \cup ZeroSizeFields \cup {TLV_ACTION_ACCOUNT, TLV_ACTION_DATA_SIZE}

PlainFieldDone ==
    /\ Reading
    /\ state \in PlainFields
    /\ state' = state + 1
    /\ UNCHANGED <<actionReady, confirmProcessing, counterVars, dataAllowed,
                   known, status, returned, confirmed>>

ActionListSizeNeverConfirms(n) ==
    /\ Reading
    /\ state = TLV_ACTION_LIST_SIZE
    /\ currentActionNumber' = n
    /\ currentActionIndex' = 0
    /\ state' = state + 1
    /\ confirmProcessing' = FALSE
    /\ UNCHANGED <<actionReady, currentAutorizationIndex, currentAutorizationNumber,
                   dataAllowed, known, status, returned, confirmed>>
ActionListSizeDone(n) ==
    /\ Reading
    /\ state = TLV_ACTION_LIST_SIZE
    /\ currentActionNumber' = n
    /\ currentActionIndex' = 0
    /\ state' = state + 1
    /\ confirmProcessing' = (n > 1)
    /\ UNCHANGED <<actionReady, currentAutorizationIndex, currentAutorizationNumber,
                   dataAllowed, known, status, returned, confirmed>>

(* With both names read, isKnownAction is settled until the next action.   *)
ActionNameDone(k) ==
    /\ Reading
    /\ state = TLV_ACTION_NAME
    /\ known' = k
    /\ state' = state + 1
    /\ UNCHANGED <<actionReady, confirmProcessing, counterVars, dataAllowed,
                   status, returned, confirmed>>

AuthorizationListSizeKeepsIndex(n) ==
    /\ Reading
    /\ state = TLV_AUTHORIZATION_LIST_SIZE
    /\ currentAutorizationNumber' = n
    /\ state' = state + 1
    /\ UNCHANGED <<actionReady, confirmProcessing, currentActionIndex, currentActionNumber,
                   currentAutorizationIndex, dataAllowed, known, status, returned, confirmed>>
AuthorizationListSizeDone(n) ==
    /\ Reading
    /\ state = TLV_AUTHORIZATION_LIST_SIZE
    /\ currentAutorizationNumber' = n
    /\ currentAutorizationIndex' = 0
    /\ state' = state + 1
    /\ UNCHANGED <<actionReady, confirmProcessing, currentActionIndex, currentActionNumber,
                   dataAllowed, known, status, returned, confirmed>>

(* Back to the next authorization until the index equals the number: with  *)
(* a list of zero authorizations only after the index has wrapped around.  *)
AuthorizationPermissionDone ==
    /\ Reading
    /\ state = TLV_AUTHORIZATION_PERMISSION
    /\ currentAutorizationIndex' = (currentAutorizationIndex + 1) % CounterMod
    /\ state' = IF currentAutorizationIndex' # currentAutorizationNumber
                THEN TLV_AUTHORIZATION_ACTOR
                ELSE state + 1
    /\ UNCHANGED <<actionReady, confirmProcessing, currentActionIndex, currentActionNumber,
                   currentAutorizationNumber, dataAllowed, known, status, returned, confirmed>>

(* The data of an action is complete: it is to be reviewed, and the next   *)
(* action, if there is one, is read after that.                            *)
ActionDataOneTooMany ==
    /\ Reading
    /\ state = TLV_ACTION_DATA
    /\ known \/ dataAllowed
    /\ currentActionIndex' = (currentActionIndex + 1) % CounterMod
    /\ state' = IF currentActionIndex' <= currentActionNumber
                THEN TLV_ACTION_ACCOUNT
                ELSE TLV_TX_EXTENSION_LIST_SIZE
    /\ actionReady' = TRUE
    /\ known' = FALSE
    /\ UNCHANGED <<confirmProcessing, currentActionNumber, currentAutorizationIndex,
                   currentAutorizationNumber, dataAllowed, status, returned, confirmed>>
ActionDataDone ==
    /\ Reading
    /\ state = TLV_ACTION_DATA
    /\ known \/ dataAllowed
    /\ currentActionIndex' = (currentActionIndex + 1) % CounterMod
    /\ state' = IF currentActionIndex' < currentActionNumber
                THEN TLV_ACTION_ACCOUNT
                ELSE TLV_TX_EXTENSION_LIST_SIZE
    /\ actionReady' = TRUE
    /\ known' = FALSE
    /\ UNCHANGED <<confirmProcessing, currentActionNumber, currentAutorizationIndex,
                   currentAutorizationNumber, dataAllowed, status, returned, confirmed>>

FieldDone ==
    \/ PlainFieldDone
    \/ \E n \in Counter : ActionListSizeDone(n)
    \/ \E k \in BOOLEAN : ActionNameDone(k)
    \/ \E n \in Counter : AuthorizationListSizeDone(n)
    \/ AuthorizationPermissionDone
    \/ ActionDataDone

----------------------------------------------------------------------------
ReviewNext ==
    \/ \E allowed \in BOOLEAN : status \notin {"RUNNING", "ASSERT"} /\ InitTxContext(allowed)
    \/ Relaunch
    \/ ParseTx
    \/ ReturnConfirm \/ ReturnActionReady \/ ReturnFinished
    \/ ReturnProcessing \/ ReturnFault \/ AssertFails
    \/ FieldDone

ReviewSpec == ReviewInit /\ [][ReviewNext]_reviewVars

----------------------------------------------------------------------------
(* Every context field keeps its C type; `returned' is bounded because no  *)
(* action is handed out twice.                                             *)
ReviewTypeOK ==
    /\ state \in txProcessingState_e
    /\ actionReady \in BOOLEAN /\ confirmProcessing \in BOOLEAN
    /\ currentActionIndex \in Counter /\ currentActionNumber \in Counter
    /\ currentAutorizationIndex \in Counter /\ currentAutorizationNumber \in Counter
    /\ dataAllowed \in BOOLEAN /\ known \in BOOLEAN
    /\ status \in Status
    /\ returned \in Nat /\ confirmed \in BOOLEAN

(* How many actions a transaction announcing n of them really carries: the *)
(* parser reads one action even when the list is announced as empty.       *)
ActionsOf(n) == IF n = 0 THEN 1 ELSE n

(* STREAM_FINISHED, the verdict on which main.c signs, is returned only    *)
(* after every announced action has been handed out for review exactly     *)
(* once, and after the number of actions has if there are several.         *)
FinishedAfterEveryAction ==
    status = "STREAM_FINISHED" =>
        /\ returned = ActionsOf(currentActionNumber)
        /\ confirmed <=> currentActionNumber > 1

(* The warning that several actions follow is given once, before the first *)
(* of them is handed out, and no action of such a list comes without it.   *)
WarningBeforeActions ==
    /\ status = "STREAM_CONFIRM_PROCESSING" => returned = 0 /\ currentActionNumber > 1
    /\ status = "STREAM_ACTION_READY" =>
           (confirmed <=> currentActionNumber > 1)

(* From the moment an action has been handed out until the context is      *)
(* initialised again, the number of actions that the reader was told does  *)
(* not change and no action is taken back.                                 *)
ReviewOnlyAdvances ==
    [][returned > 0 /\ status' # "IDLE" =>
        /\ currentActionNumber' = currentActionNumber
        /\ returned' \in {returned, returned + 1}
        /\ returned' <= ActionsOf(currentActionNumber)]_reviewVars
=============================================================================
