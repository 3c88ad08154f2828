---------------------------- MODULE EosAppProofs ----------------------------
(***************************************************************************)
(* For every set of paths, every block size, every counter width and both  *)
(* user interfaces: what the application promises its user; and, for every *)
(* counter width, how many authorizations of an action are read.           *)
(***************************************************************************)
EXTENDS EosApp, EosAuthorizations, EosReviewProofs

(***************************************************************************)
(* The part that holds whatever the host sends.  The parser runs exactly   *)
(* while the loop is in it, a command is unanswered exactly while it is    *)
(* being handled or has a review on the screen, and the review is of what  *)
(* the parser last handed out.                                             *)
(***************************************************************************)
ActionScreens == {"review", "reviewSign", "finish"}
TransactionScreens == ActionScreens \cup {"multi"}

LoopFollowsStatus ==
    /\ loop \in {"parse", "parseUser"} <=> status = "RUNNING"
    /\ status = "ASSERT" => loop = "off"

UnansweredWhileHandled ==
    /\ loop \in {"handleSign", "parse", "parseUser"} => unanswered
    /\ loop = "off" => ~unanswered
    /\ loop \in {"handleSign", "parse"} => screen \notin ReviewScreens

StorageType == storage \in [initialized : BOOLEAN, dataAllowed : BOOLEAN]

AnyHostInv ==
    /\ StorageType
    /\ LoopFollowsStatus
    /\ UnansweredWhileHandled
    /\ AsyncReplyHasReview

(***************************************************************************)
(* What the user has answered, also whatever the host sends: every action  *)
(* handed out was accepted or cancelled, but for the one on the screen;    *)
(* and a signature is made with the parser at the end of the transaction,  *)
(* from which no verdict leads back to a review.                           *)
(***************************************************************************)
Outstanding == IF loop = "wait" /\ screen \in ActionScreens THEN 1 ELSE 0

SignedIsOver == signed > 0 => state = TLV_DONE /\ ~actionReady /\ ~confirmProcessing

AnswersInv ==
    /\ approved \in Nat /\ cancelled \in Nat
    /\ approved + cancelled + Outstanding = returned
    /\ ~refused => cancelled = 0
    /\ SignedIsOver
    /\ SignedHasNoReview

(***************************************************************************)
(* The part that needs a conforming host.  Active says that the signing of *)
(* the current transaction can still go on: it is being handled, or is on  *)
(* the screen, or the host may send its next block.  All that the          *)
(* signature depends on is in place as long as it is, but for the path     *)
(* that a public key may have replaced, and nothing that ends the          *)
(* transaction leaves it active.                                           *)
(***************************************************************************)
Active ==
    \/ loop \in {"handleSign", "parse", "parseUser"}
    \/ loop = "wait" /\ (screen \in TransactionScreens \/ mayContinue)

ActiveIsOpen == Active => ~refused /\ signed = 0

ActiveHasPath == Active /\ tmpCtx.holds = "transaction" => tmpCtx.path = givenPath

WarnedFollowsConfirmed ==
    ~refused =>
        /\ warned => confirmed
        /\ confirmed => warned \/ (loop = "wait" /\ screen = "multi")

HostInv ==
    /\ ActiveIsOpen
    /\ ActiveHasPath
    /\ WarnedFollowsConfirmed
    /\ SignedOnlyWhatWasApproved
    /\ PathLostOnlyToKey

(* The user's callback runs the parser only past the list of actions, so   *)
(* it never meets the warning again: the default of its switch is a fault. *)
UserParsesLate == loop = "parseUser" => confirmed \/ returned > 0

AppInv ==
    /\ ReviewInv
    /\ AnyHostInv
    /\ UserParsesLate
    /\ AnswersInv
    /\ HostConforms => HostInv

----------------------------------------------------------------------------
(* Commands that are answered at once and leave the parser alone: one of   *)
(* them is a SIGN, after which the host may not continue, or it leaves the *)
(* path in the union alone or replaces it by a public key.                 *)
QuietCommand ==
    /\ Receive
    /\ UNCHANGED <<reviewVars, shownAddress>>
    /\ \E r \in [ins : {"none", "CONFIGURATION", "PUBLIC_KEY", "SIGN"},
                  sw : {"6E00", "6D00", "6982", "6A80", "6B00", "9000", "exception"},
                  data : {"none", "key", "allowed", "notAllowed"},
                  path : Paths \cup {NoPath}] :
          /\ AnswerAtOnce(r)
          /\ r.ins = "SIGN" => r.sw # "9000"
          /\ r.ins = "SIGN" \/ UNCHANGED tmpCtx \/ tmpCtx'.holds = "publicKey"

LEMMA QuietCommands ==
  ASSUME \/ \E sw \in {"6E00", "6D00", "6982"} : RefuseCommand(sw)
         \/ HandleGetAppConfiguration
         \/ \E sw \in {"6A80", "6B00"} : RefuseGetPublicKey(sw)
         \/ \E path \in Paths : HandleGetPublicKey(path)
         \/ IoException
         \/ HandleSignBadPath
         \/ HandleSignBadP1
  PROVE  QuietCommand
<1> USE DEF StatusOnly, Reply
<1>1. CASE \E sw \in {"6E00", "6D00", "6982"} : RefuseCommand(sw)
  BY <1>1 DEF QuietCommand, RefuseCommand
<1>2. CASE HandleGetAppConfiguration
  BY <1>2 DEF QuietCommand, HandleGetAppConfiguration
<1>3. CASE \E sw \in {"6A80", "6B00"} : RefuseGetPublicKey(sw)
  BY <1>3 DEF QuietCommand, RefuseGetPublicKey
<1>4. CASE \E path \in Paths : HandleGetPublicKey(path)
  BY <1>4 DEF QuietCommand, HandleGetPublicKey
<1>5. CASE IoException
  BY <1>5 DEF QuietCommand, IoException
<1>6. CASE HandleSignBadPath
  BY <1>6 DEF QuietCommand, HandleSignBadPath
<1>7. CASE HandleSignBadP1
  BY <1>7 DEF QuietCommand, HandleSignBadP1
<1> QED BY <1>1, <1>2, <1>3, <1>4, <1>5, <1>6, <1>7

(* The steps of the application, with the quiet commands gathered.         *)
LEMMA AppSteps ==
  ASSUME AppNext
  PROVE  \/ Launch \/ Stop
         \/ QuietCommand
         \/ \E path \in Paths : HandleGetPublicKeyConfirm(path)
         \/ \E path \in Paths, p2 \in BOOLEAN : HandleSignFirst(path, p2)
         \/ \E p2 \in BOOLEAN : HandleSignMore(p2)
         \/ Work \/ Decide \/ Navigate \/ toogle_data_allowed
  BY QuietCommands DEF AppNext, Command

----------------------------------------------------------------------------
(* Every step of the application is a step of the parser's specification   *)
(* or leaves the parser alone.                                             *)
LEMMA AppStepIsReviewStep ==
  ASSUME AnyHostInv, [AppNext]_vars
  PROVE  [ReviewNext]_reviewVars
<1>1. CASE Launch \/ Stop
  BY <1>1 DEF Launch, Stop, ReviewNext
<1>2. CASE QuietCommand \/ \E path \in Paths : HandleGetPublicKeyConfirm(path)
  BY <1>2 DEF QuietCommand, HandleGetPublicKeyConfirm
<1>3. CASE \E path \in Paths, p2 \in BOOLEAN : HandleSignFirst(path, p2)
  <2>1. storage.dataAllowed \in BOOLEAN /\ InitTxContext(storage.dataAllowed)
    BY <1>3 DEF HandleSignFirst, AnyHostInv, StorageType
  <2>2. status \notin {"RUNNING", "ASSERT"}
    BY <1>3 DEF HandleSignFirst, Receive, AnyHostInv, LoopFollowsStatus
  <2> QED
    BY <2>1, <2>2 DEF ReviewNext
<1>4. CASE (\E p2 \in BOOLEAN : HandleSignMore(p2)) \/ Navigate \/ toogle_data_allowed
  BY <1>4 DEF HandleSignMore, Navigate, toogle_data_allowed
<1>5. CASE Work
  BY <1>5
  DEF Work, HandleSignRefuse, HandleSignParse, ParseField, ShowAction, ShowMultiple,
      AcknowledgeBlock, ReportFault, ParserAsserts, SignTransaction, ReviewNext
<1>6. CASE Decide
  BY <1>6
  DEF Decide, user_action_address_ok, user_action_address_cancel, AcceptLastAction,
      user_action_sign_flow_ok, user_action_tx_cancel, ReviewNext
<1>7. CASE UNCHANGED vars
  BY <1>7 DEF vars
<1> QED
  BY <1>1, <1>2, <1>3, <1>4, <1>5, <1>6, <1>7, AppSteps

----------------------------------------------------------------------------
(* Verdicts leave "RUNNING" for the status they name.                      *)
LEMMA VerdictStatus ==
  /\ ReturnActionReady => status = "RUNNING" /\ status' = "STREAM_ACTION_READY"
  /\ ReturnConfirm => status = "RUNNING" /\ status' = "STREAM_CONFIRM_PROCESSING"
  /\ ReturnFinished => status = "RUNNING" /\ status' = "STREAM_FINISHED"
  /\ ReturnProcessing => status = "RUNNING" /\ status' = "STREAM_PROCESSING"
  /\ ReturnFault => status = "RUNNING" /\ status' = "STREAM_FAULT"
  /\ AssertFails => status = "RUNNING" /\ status' = "ASSERT"
  /\ FieldDone => status = "RUNNING" /\ status' = "RUNNING"
  /\ ParseTx => status' = "RUNNING"
  BY DEF ReturnActionReady, ReturnConfirm, ReturnFinished, ReturnProcessing, ReturnFault,
         AssertFails, Verdict, ParseTx, FieldDone, Reading, PlainFieldDone, ActionListSizeDone,
         ActionNameDone, AuthorizationListSizeDone, AuthorizationPermissionDone,
         ActionDataDone

(* Where a screen comes from.                                              *)
LEMMA ScreenFacts ==
  /\ ActionScreen \in {"review", "reviewSign"}
  /\ \A f \in BOOLEAN : SignDoneScreen(f) \in {"home", "status", "waiting"}
  /\ PublicKeyDoneScreen \in {"home", "status"}
  BY DEF ActionScreen, SignDoneScreen, PublicKeyDoneScreen

LEMMA WorkKeepsAnyHostInv ==
  ASSUME AnyHostInv, Work
  PROVE  AnyHostInv'
<1> USE DEF AnyHostInv, StorageType, LoopFollowsStatus, UnansweredWhileHandled,
            AsyncReplyHasReview, ReviewScreens, Parsing, Answer
<1>1. CASE HandleSignRefuse
  BY <1>1 DEF HandleSignRefuse, reviewVars
<1>2. CASE \E n \in 0..MaxFields : HandleSignParse(n)
  BY <1>2, VerdictStatus DEF HandleSignParse
<1>3. CASE ParseField
  BY <1>3, VerdictStatus DEF ParseField
<1>4. CASE ShowAction
  BY <1>4, VerdictStatus, ScreenFacts DEF ShowAction
<1>5. CASE ShowMultiple
  BY <1>5, VerdictStatus DEF ShowMultiple
<1>6. CASE AcknowledgeBlock
  BY <1>6, VerdictStatus, ScreenFacts DEF AcknowledgeBlock
<1>7. CASE ReportFault
  BY <1>7, VerdictStatus DEF ReportFault
<1>8. CASE ParserAsserts
  BY <1>8, VerdictStatus DEF ParserAsserts
<1>9. CASE SignTransaction
  BY <1>9, VerdictStatus, ScreenFacts DEF SignTransaction
<1> QED
  BY <1>1, <1>2, <1>3, <1>4, <1>5, <1>6, <1>7, <1>8, <1>9 DEF Work

LEMMA DecideKeepsAnyHostInv ==
  ASSUME AnyHostInv, Decide
  PROVE  AnyHostInv'
<1> USE DEF AnyHostInv, StorageType, LoopFollowsStatus, UnansweredWhileHandled,
            AsyncReplyHasReview, ReviewScreens, AtScreen, Answer
<1>1. CASE user_action_address_ok
  BY <1>1, ScreenFacts DEF user_action_address_ok, reviewVars
<1>2. CASE user_action_address_cancel
  BY <1>2, ScreenFacts DEF user_action_address_cancel, reviewVars
<1>3. CASE AcceptLastAction
  BY <1>3 DEF AcceptLastAction, reviewVars
<1>4. CASE user_action_sign_flow_ok
  BY <1>4, VerdictStatus DEF user_action_sign_flow_ok
<1>5. CASE user_action_tx_cancel
  BY <1>5, ScreenFacts DEF user_action_tx_cancel, reviewVars
<1> QED
  BY <1>1, <1>2, <1>3, <1>4, <1>5 DEF Decide

(* Whatever the host sends, the loop, the screen and the parser agree.     *)
LEMMA AnyHostStep ==
  ASSUME AnyHostInv, [AppNext]_vars
  PROVE  AnyHostInv'
<1> USE DEF AnyHostInv, StorageType, LoopFollowsStatus, UnansweredWhileHandled,
            AsyncReplyHasReview, ReviewScreens, Receive, AtScreen
<1>1. CASE Launch
  BY <1>1 DEF Launch, Relaunch, ClearContext, ForgetMemory, config_init
<1>2. CASE Stop
  BY <1>2 DEF Stop, Relaunch, ClearContext, ForgetMemory
<1>3. CASE QuietCommand
  BY <1>3 DEF QuietCommand, AnswerAtOnce, reviewVars
<1>4. CASE \E path \in Paths : HandleGetPublicKeyConfirm(path)
  BY <1>4 DEF HandleGetPublicKeyConfirm, reviewVars
<1>5. CASE \E path \in Paths, p2 \in BOOLEAN : HandleSignFirst(path, p2)
  BY <1>5 DEF HandleSignFirst, InitTxContext, ClearContext
<1>6. CASE \E p2 \in BOOLEAN : HandleSignMore(p2)
  BY <1>6 DEF HandleSignMore, reviewVars
<1>7. CASE Work
  BY <1>7, WorkKeepsAnyHostInv
<1>8. CASE Decide
  BY <1>8, DecideKeepsAnyHostInv
<1>9. CASE Navigate
  BY <1>9 DEF Navigate, reviewVars
<1>10. CASE toogle_data_allowed
  BY <1>10 DEF toogle_data_allowed, reviewVars
<1>11. CASE UNCHANGED vars
  BY <1>11 DEF vars, appVars, reviewVars
<1> QED
  BY <1>1, <1>2, <1>3, <1>4, <1>5, <1>6, <1>7, <1>8, <1>9, <1>10, <1>11, AppSteps

----------------------------------------------------------------------------
(* What a step of the parser does to the history of the review.            *)
LEMMA ReviewHistory ==
  /\ ReturnActionReady =>
       returned' = returned + 1 /\ UNCHANGED <<confirmed, currentActionNumber>>
  /\ ReturnConfirm =>
       confirmed' = TRUE /\ UNCHANGED <<returned, currentActionNumber>>
  /\ ReturnFinished \/ ReturnProcessing \/ ReturnFault \/ AssertFails \/ ParseTx =>
       UNCHANGED <<returned, confirmed, currentActionNumber>>
  /\ FieldDone => UNCHANGED <<returned, confirmed>>
  BY DEF ReturnActionReady, ReturnConfirm, ReturnFinished, ReturnProcessing, ReturnFault,
         AssertFails, Verdict, ParseTx, FieldDone, PlainFieldDone, ActionListSizeDone,
         ActionNameDone, AuthorizationListSizeDone, AuthorizationPermissionDone,
         ActionDataDone, counterVars

(* The transaction on which STREAM_FINISHED is returned has been handed    *)
(* out completely.                                                         *)
LEMMA FinishedIsComplete ==
  ASSUME ReviewInv, ReturnFinished
  PROVE  /\ returned = ActionsOf(currentActionNumber)
         /\ confirmed <=> currentActionNumber > 1
<1>1. state = TLV_DONE /\ ~actionReady /\ ~confirmProcessing
  BY DEF ReturnFinished, Verdict
<1>2. currentActionIndex = ActionsOf(currentActionNumber)
  BY <1>1 DEF ReviewInv, IndexFollowsState, TLV_DONE, TLV_ACTION_DATA
<1>3. returned = currentActionIndex
  BY <1>1 DEF ReviewInv, ReviewTypeOK, ReturnedFollowsIndex, Unreturned
<1>4. confirmed <=> currentActionNumber > 1
  BY <1>1 DEF ReviewInv, WarningFollowsNumber, TLV_DONE, TLV_ACTION_LIST_SIZE
<1> QED
  BY <1>2, <1>3, <1>4

(* The warning cannot come back while the user's callback parses.          *)
LEMMA UserNeverConfirms ==
  ASSUME ReviewInv, UserParsesLate, loop = "parseUser"
  PROVE  ~ReturnConfirm
<1> SUFFICES ASSUME ReturnConfirm PROVE FALSE
  OBVIOUS
<1>1. confirmProcessing /\ ~confirmed /\ currentActionIndex = 0
  BY DEF ReturnConfirm, ReviewInv, WarningFollowsNumber
<1>2. returned = 0
  BY <1>1 DEF ReviewInv, ReviewTypeOK, ReturnedFollowsIndex, Unreturned
<1> QED
  BY <1>1, <1>2 DEF UserParsesLate

LEMMA UserParsesLateStep ==
  ASSUME AppInv, [AppNext]_vars
  PROVE  UserParsesLate'
<1>1. CASE user_action_sign_flow_ok
  <2>1. status = "STREAM_CONFIRM_PROCESSING" \/ status = "STREAM_ACTION_READY"
    BY <1>1 DEF user_action_sign_flow_ok, AtScreen, AppInv, AnyHostInv, AsyncReplyHasReview
  <2>2. confirmed \/ returned > 0
    BY <2>1 DEF AppInv, ReviewInv, VerdictFollowsState
  <2> QED
    BY <1>1, <2>2, ReviewHistory DEF user_action_sign_flow_ok, UserParsesLate
<1>2. CASE ParseField
  BY <1>2, ReviewHistory DEF ParseField, UserParsesLate, AppInv
<1>3. CASE UNCHANGED vars
  BY <1>3 DEF vars, appVars, reviewVars, UserParsesLate, AppInv
<1>4. ASSUME AppNext, ~user_action_sign_flow_ok, ~ParseField
      PROVE  loop' # "parseUser"
  BY <1>4, AppSteps
  DEF AppInv, AnyHostInv, LoopFollowsStatus, Launch, Stop, QuietCommand, AnswerAtOnce,
      HandleGetPublicKeyConfirm, HandleSignFirst, HandleSignMore, Receive, Work,
      HandleSignRefuse, HandleSignParse, ShowAction, ShowMultiple, AcknowledgeBlock,
      ReportFault, ParserAsserts, SignTransaction, Answer, Decide, user_action_address_ok,
      user_action_address_cancel, AcceptLastAction, user_action_tx_cancel, Navigate,
      toogle_data_allowed, AtScreen
<1> QED
  BY <1>1, <1>2, <1>3, <1>4 DEF UserParsesLate

----------------------------------------------------------------------------
(* Verdicts that are not reviews change nothing in the context.            *)
LEMMA VerdictsKeepContext ==
  ASSUME \/ ReturnFinished \/ ReturnProcessing \/ ReturnFault \/ AssertFails \/ ParseTx
  PROVE  UNCHANGED <<state, actionReady, confirmProcessing>>
  BY DEF ReturnFinished, ReturnProcessing, ReturnFault, AssertFails, Verdict, ParseTx

(* At the end of a transaction nothing is left to read or to review.       *)
LEMMA NothingAfterDone ==
  ASSUME state = TLV_DONE, ~actionReady, ~confirmProcessing
  PROVE  /\ ~FieldDone /\ ~ReturnActionReady /\ ~ReturnConfirm
         /\ ~ReturnProcessing /\ ~ReturnFault /\ ~AssertFails
  BY DEF FieldDone, PlainFieldDone, PlainFields, HashedOnlyFields, HeaderFields, ZeroSizeFields,
         ActionListSizeDone, ActionNameDone, AuthorizationListSizeDone,
         AuthorizationPermissionDone, ActionDataDone, ReturnActionReady, ReturnConfirm,
         ReturnProcessing, ReturnFault, AssertFails, TLV_DONE, TLV_NONE, TLV_CHAIN_ID,
         TLV_HEADER_DELAY_SEC, TLV_CFA_LIST_SIZE, TLV_ACTION_LIST_SIZE, TLV_ACTION_ACCOUNT,
         TLV_ACTION_NAME, TLV_AUTHORIZATION_LIST_SIZE, TLV_AUTHORIZATION_ACTOR,
         TLV_AUTHORIZATION_PERMISSION, TLV_ACTION_DATA_SIZE, TLV_ACTION_DATA,
         TLV_TX_EXTENSION_LIST_SIZE, TLV_CONTEXT_FREE_DATA

LEMMA WorkKeepsAnswers ==
  ASSUME ReviewInv, AnyHostInv, AnswersInv, Work
  PROVE  AnswersInv'
<1> USE DEF AnswersInv, SignedIsOver, SignedHasNoReview
<1>1. /\ loop # "wait" /\ Outstanding = 0 /\ returned \in Nat
      /\ UNCHANGED <<approved, cancelled, refused>>
  BY DEF Outstanding, ReviewInv, ReviewTypeOK, Work, HandleSignRefuse, HandleSignParse,
         ParseField, ShowAction, ShowMultiple, AcknowledgeBlock, ReportFault, ParserAsserts,
         SignTransaction, Parsing, sessionVars
<1>2. CASE HandleSignRefuse
  <2>1. /\ loop' = "wait" /\ screen' \notin ReviewScreens
        /\ UNCHANGED <<reviewVars, sessionVars>>
    BY <1>2 DEF HandleSignRefuse, Answer, AnyHostInv, UnansweredWhileHandled
  <2> QED
    BY <1>1, <2>1 DEF Outstanding, ActionScreens, ReviewScreens, reviewVars, sessionVars
<1>3. CASE (\E n \in 0..MaxFields : HandleSignParse(n)) \/ ParseField
  <2>1. /\ loop' \in {"parse", "parseUser"} /\ UNCHANGED <<returned, signed>>
        /\ loop' = "parseUser" => ParseField /\ loop = "parseUser"
    BY <1>3, ReviewHistory DEF HandleSignParse, ParseField, Parsing, sessionVars
  <2>2. signed > 0 => UNCHANGED <<state, actionReady, confirmProcessing>>
    BY <1>3, NothingAfterDone, VerdictsKeepContext DEF HandleSignParse, ParseField
  <2> QED
    BY <1>1, <2>1, <2>2 DEF Outstanding
<1>4. CASE ShowAction
  <2>1. /\ loop' = "wait" /\ screen' \in ActionScreens /\ returned' = returned + 1
        /\ UNCHANGED signed
    BY <1>4, ReviewHistory, ScreenFacts DEF ShowAction, ActionScreens, sessionVars
  <2>2. ~(signed > 0)
    BY <1>4, NothingAfterDone DEF ShowAction
  <2> QED
    BY <1>1, <2>1, <2>2 DEF Outstanding
<1>5. CASE ShowMultiple
  <2>1. /\ loop' = "wait" /\ screen' = "multi" /\ UNCHANGED <<returned, signed>>
    BY <1>5, ReviewHistory DEF ShowMultiple, sessionVars
  <2>2. ~(signed > 0)
    BY <1>5, NothingAfterDone DEF ShowMultiple
  <2> QED
    BY <1>1, <2>1, <2>2 DEF Outstanding, ActionScreens
<1>6. CASE AcknowledgeBlock \/ ReportFault \/ ParserAsserts
  <2>1. loop' # "parseUser" /\ (loop' = "wait" => screen' \notin ReviewScreens)
    BY <1>6, ScreenFacts
    DEF AcknowledgeBlock, ReportFault, ParserAsserts, Answer, Parsing, AnyHostInv,
        UnansweredWhileHandled, ReviewScreens
  <2>2. UNCHANGED <<returned, signed>>
    BY <1>6, ReviewHistory DEF AcknowledgeBlock, ReportFault, ParserAsserts, sessionVars
  <2>3. ~(signed > 0)
    BY <1>6, NothingAfterDone DEF AcknowledgeBlock, ReportFault, ParserAsserts
  <2> QED
    BY <1>1, <2>1, <2>2, <2>3 DEF Outstanding, ActionScreens, ReviewScreens
<1>7. CASE SignTransaction
  <2>1. /\ state = TLV_DONE /\ ~actionReady /\ ~confirmProcessing
        /\ UNCHANGED <<state, actionReady, confirmProcessing, returned>>
    BY <1>7, ReviewHistory, VerdictsKeepContext
    DEF SignTransaction, ReturnFinished, Verdict
  <2>2. loop' = "wait" /\ screen' \notin ReviewScreens
    BY <1>7, ScreenFacts
    DEF SignTransaction, Answer, Parsing, AnyHostInv, UnansweredWhileHandled, ReviewScreens
  <2> QED
    BY <1>1, <2>1, <2>2 DEF Outstanding, ActionScreens, ReviewScreens
<1> QED
  BY <1>2, <1>3, <1>4, <1>5, <1>6, <1>7 DEF Work

LEMMA DecideKeepsAnswers ==
  ASSUME ReviewInv, AnswersInv, Decide
  PROVE  AnswersInv'
<1> USE DEF AnswersInv, SignedIsOver, SignedHasNoReview
<1>1. loop = "wait" /\ returned \in Nat /\ UNCHANGED signed
  BY DEF ReviewInv, ReviewTypeOK, Decide, user_action_address_ok, user_action_address_cancel,
         AcceptLastAction, user_action_sign_flow_ok, user_action_tx_cancel, AtScreen,
         sessionVars
<1>2. CASE user_action_address_ok \/ user_action_address_cancel
  <2>1. /\ screen = "address" /\ screen' \in {"home", "status"} /\ loop' = "wait"
        /\ UNCHANGED <<reviewVars, sessionVars>>
    BY <1>2, ScreenFacts
    DEF user_action_address_ok, user_action_address_cancel, AtScreen, Answer
  <2> QED
    BY <1>1, <2>1 DEF Outstanding, ActionScreens, reviewVars, sessionVars
<1>3. CASE AcceptLastAction
  <2>1. /\ screen = "review" /\ screen' = "finish"
        /\ UNCHANGED <<loop, reviewVars, sessionVars>>
    BY <1>3 DEF AcceptLastAction, AtScreen, FinishPageFollows
  <2> QED
    BY <1>1, <2>1 DEF Outstanding, ActionScreens, reviewVars, sessionVars
<1>4. CASE user_action_sign_flow_ok
  <2>1. /\ screen \in {"multi", "review", "reviewSign", "finish"} /\ loop' = "parseUser"
        /\ approved' = IF screen = "multi" THEN approved ELSE approved + 1
        /\ UNCHANGED <<returned, cancelled, refused>>
    BY <1>4, ReviewHistory DEF user_action_sign_flow_ok, AtScreen
  <2> QED
    BY <1>1, <2>1 DEF Outstanding, ActionScreens
<1>5. CASE user_action_tx_cancel
  <2>1. /\ screen \in {"multi", "review", "reviewSign", "finish"} /\ loop' = "wait"
        /\ screen' \in {"home", "status", "waiting"} /\ refused'
        /\ cancelled' = IF screen = "multi" THEN cancelled ELSE cancelled + 1
        /\ UNCHANGED <<reviewVars, approved>>
    BY <1>5, ScreenFacts DEF user_action_tx_cancel, AtScreen, Answer
  <2> QED
    BY <1>1, <2>1 DEF Outstanding, ActionScreens, reviewVars
<1> QED
  BY <1>2, <1>3, <1>4, <1>5 DEF Decide

(* Whatever the host sends, answers and reviews are counted alike, and a   *)
(* signed transaction has no review left.                                  *)
LEMMA AnswersStep ==
  ASSUME ReviewInv, AnyHostInv, AnswersInv, [AppNext]_vars
  PROVE  AnswersInv'
<1> USE DEF AnswersInv, SignedIsOver, SignedHasNoReview
<1>1. CASE Launch \/ Stop \/ \E path \in Paths, p2 \in BOOLEAN : HandleSignFirst(path, p2)
  <2>1. /\ approved' = 0 /\ cancelled' = 0 /\ signed' = 0 /\ returned' = 0
        /\ loop' \in {"wait", "off", "handleSign"} /\ (loop' = "wait" => screen' = "home")
    BY <1>1
    DEF Launch, Stop, ForgetMemory, Relaunch, HandleSignFirst, InitTxContext, ClearContext
  <2> QED
    BY <2>1 DEF Outstanding, ActionScreens
<1>2. CASE \/ QuietCommand
           \/ \E path \in Paths : HandleGetPublicKeyConfirm(path)
           \/ \E p2 \in BOOLEAN : HandleSignMore(p2)
  <2>1. /\ loop = "wait" /\ screen \notin ReviewScreens
        /\ loop' = "handleSign" \/ (loop' = "wait" /\ screen' \in {screen, "address"})
        /\ UNCHANGED <<reviewVars, sessionVars>>
    BY <1>2
    DEF QuietCommand, Receive, AnswerAtOnce, HandleGetPublicKeyConfirm, HandleSignMore,
        AnyHostInv, AsyncReplyHasReview
  <2> QED
    BY <2>1 DEF Outstanding, ActionScreens, ReviewScreens, reviewVars, sessionVars
<1>3. CASE Work
  BY <1>3, WorkKeepsAnswers
<1>4. CASE Decide
  BY <1>4, DecideKeepsAnswers
<1>5. CASE Navigate
  <2>1. /\ screen \in {"home", "settings", "status"} /\ screen' \in {"home", "settings"}
        /\ UNCHANGED <<loop, reviewVars, sessionVars>>
    BY <1>5 DEF Navigate, AtScreen
  <2> QED
    BY <2>1 DEF Outstanding, ActionScreens, reviewVars, sessionVars
<1>6. CASE toogle_data_allowed \/ UNCHANGED vars
  <2>1. UNCHANGED <<loop, screen, reviewVars, sessionVars>>
    BY <1>6 DEF toogle_data_allowed, vars, appVars
  <2> QED
    BY <2>1 DEF Outstanding, reviewVars, sessionVars
<1> QED
  BY <1>1, <1>2, <1>3, <1>4, <1>5, <1>6, AppSteps

----------------------------------------------------------------------------
LEMMA WorkKeepsHostInv ==
  ASSUME AppInv, HostConforms, Work
  PROVE  HostInv'
<1>1. /\ HostInv /\ AnyHostInv /\ ReviewInv
      /\ Active /\ ~refused /\ signed = 0 /\ loop # "wait"
      /\ UNCHANGED <<tmpCtx, givenPath, approved, warned, refused>>
  BY DEF AppInv, HostInv, ActiveIsOpen, Active, Work, HandleSignRefuse,
         HandleSignParse, ParseField, ShowAction, ShowMultiple, AcknowledgeBlock,
         ReportFault, ParserAsserts, SignTransaction, Parsing, sessionVars
<1>2. approved = returned /\ (warned <=> confirmed)
  BY <1>1
  DEF AppInv, AnswersInv, ReviewInv, ReviewTypeOK, HostInv, WarnedFollowsConfirmed, Outstanding
<1>3. CASE UNCHANGED signed /\ ~SignTransaction
  <2>1. ActiveIsOpen' /\ ActiveHasPath' /\ SignedOnlyWhatWasApproved'
    BY <1>1, <1>3 DEF HostInv, ActiveIsOpen, ActiveHasPath, SignedOnlyWhatWasApproved
  <2>2. PathLostOnlyToKey'
    <3>1. lastReply' = lastReply \/ lastReply'.data = "none"
      <4>1. \A ins, sw : Answer(StatusOnly(ins, sw)) => lastReply'.data = "none"
        BY DEF Answer, StatusOnly, Reply
      <4> QED
        BY <1>3, <4>1
        DEF Work, HandleSignRefuse, HandleSignParse, ParseField, ShowAction, ShowMultiple,
            AcknowledgeBlock, ReportFault, ParserAsserts, hostVars
    <3> QED
      BY <1>1, <3>1 DEF HostInv, PathLostOnlyToKey
  <2>3. WarnedFollowsConfirmed'
    <3>1. CASE ShowMultiple
      BY <1>1, <1>2, <3>1, ReviewHistory DEF ShowMultiple, WarnedFollowsConfirmed
    <3>2. CASE ~ShowMultiple
      <4>1. UNCHANGED confirmed
        BY <1>1, <1>3, <3>2, ReviewHistory, UserNeverConfirms
        DEF AppInv, Work, HandleSignRefuse, HandleSignParse, ParseField, ShowAction,
            AcknowledgeBlock, ReportFault, ParserAsserts, reviewVars
      <4> QED
        BY <1>1, <1>2, <4>1 DEF WarnedFollowsConfirmed
    <3> QED
      BY <3>1, <3>2
  <2> QED
    BY <2>1, <2>2, <2>3 DEF HostInv
<1>4. CASE SignTransaction
  <2>1. /\ signed' = 1 /\ loop' = "wait"
        /\ UNCHANGED <<returned, confirmed, currentActionNumber>>
        /\ lastReply' = Reply("SIGN", "9000", "signature", SigningPath)
        /\ ~mayContinue'
    BY <1>1, <1>4, ReviewHistory DEF SignTransaction, Answer, MayContinueAfter, Reply
  <2>2. screen' \notin ReviewScreens
    BY <1>1, <1>4, ScreenFacts
    DEF SignTransaction, Parsing, AnyHostInv, UnansweredWhileHandled, ReviewScreens
  <2>3. ~Active'
    BY <2>1, <2>2 DEF Active, TransactionScreens, ActionScreens, ReviewScreens
  <2>4. returned = ActionsOf(currentActionNumber) /\ (confirmed <=> currentActionNumber > 1)
    BY <1>1, <1>4, FinishedIsComplete DEF SignTransaction
  <2>5. SignedOnlyWhatWasApproved'
    BY <1>1, <1>2, <2>1, <2>4 DEF SignedOnlyWhatWasApproved, ActionsOf
  <2>6. PathLostOnlyToKey'
    BY <1>1, <2>1 DEF HostInv, ActiveHasPath, PathLostOnlyToKey, SigningPath, Reply
  <2>7. ActiveIsOpen' /\ ActiveHasPath' /\ WarnedFollowsConfirmed'
    BY <1>1, <1>2, <2>1, <2>3 DEF ActiveIsOpen, ActiveHasPath, WarnedFollowsConfirmed
  <2> QED
    BY <2>5, <2>6, <2>7 DEF HostInv
<1> QED
  BY <1>3, <1>4
  DEF Work, HandleSignRefuse, HandleSignParse, ParseField, ShowAction, ShowMultiple,
      AcknowledgeBlock, ReportFault, ParserAsserts, sessionVars

LEMMA DecideKeepsHostInv ==
  ASSUME AppInv, HostConforms, Decide
  PROVE  HostInv'
<1>1. HostInv /\ AnyHostInv /\ ReviewInv /\ loop = "wait"
  BY DEF AppInv, Decide, user_action_address_ok,
         user_action_address_cancel, AcceptLastAction, user_action_sign_flow_ok,
         user_action_tx_cancel, AtScreen
<1>2. CASE user_action_address_ok \/ user_action_address_cancel
  <2>1. /\ screen = "address" /\ screen' \in {"home", "status"}
        /\ loop' = "wait"
        /\ lastReply'.data # "signature" /\ mayContinue' = mayContinue
        /\ UNCHANGED <<reviewVars, sessionVars, tmpCtx>>
    BY <1>2, ScreenFacts
    DEF user_action_address_ok, user_action_address_cancel, AtScreen, Answer,
        MayContinueAfter, StatusOnly, Reply
  <2>2. Active' => Active
    BY <1>1, <2>1 DEF Active, TransactionScreens, ActionScreens
  <2> QED
    BY <1>1, <2>1, <2>2
    DEF HostInv, ActiveIsOpen, ActiveHasPath, WarnedFollowsConfirmed,
        SignedOnlyWhatWasApproved, PathLostOnlyToKey, reviewVars, counterVars, sessionVars
<1>3. CASE AcceptLastAction
  <2>1. /\ screen \in ActionScreens /\ screen' \in ActionScreens
        /\ screen # "multi"
        /\ UNCHANGED <<reviewVars, sessionVars, loop, tmpCtx, hostVars>>
    BY <1>3 DEF AcceptLastAction, AtScreen, ActionScreens
  <2>2. Active
    BY <1>1, <2>1 DEF Active, TransactionScreens
  <2> QED
    BY <1>1, <2>1, <2>2
    DEF HostInv, ActiveIsOpen, ActiveHasPath, WarnedFollowsConfirmed,
        SignedOnlyWhatWasApproved, PathLostOnlyToKey, reviewVars, counterVars, sessionVars,
        hostVars
<1>4. CASE user_action_sign_flow_ok
  <2>1. /\ screen \in TransactionScreens
        /\ loop' = "parseUser"
        /\ UNCHANGED <<confirmed, tmpCtx, lastReply, givenPath, refused, signed>>
        /\ warned' <=> (warned \/ screen = "multi")
    BY <1>4, ReviewHistory
    DEF user_action_sign_flow_ok, AtScreen, TransactionScreens, ActionScreens, hostVars
  <2>2. Active /\ ~refused /\ signed = 0
    BY <1>1, <2>1 DEF Active, HostInv, ActiveIsOpen
  <2>3. screen = "multi" => confirmed
    BY <1>1 DEF AnyHostInv, AsyncReplyHasReview, ReviewInv, VerdictFollowsState
  <2>4. WarnedFollowsConfirmed'
    BY <1>1, <2>1, <2>2, <2>3 DEF HostInv, WarnedFollowsConfirmed
  <2> QED
    BY <1>1, <2>1, <2>2, <2>4
    DEF HostInv, ActiveIsOpen, ActiveHasPath, SignedOnlyWhatWasApproved, PathLostOnlyToKey
<1>5. CASE user_action_tx_cancel
  <2>1. /\ screen \in TransactionScreens
        /\ loop' = "wait" /\ screen' \in {"home", "status", "waiting"}
        /\ refused'
        /\ lastReply'.data = "none" /\ ~mayContinue'
        /\ UNCHANGED signed
    BY <1>5, ScreenFacts
    DEF user_action_tx_cancel, AtScreen, Answer, TransactionScreens, ActionScreens,
        MayContinueAfter, StatusOnly, Reply
  <2>2. ~Active'
    BY <2>1 DEF Active, TransactionScreens, ActionScreens
  <2>3. signed = 0
    BY <1>1, <2>1 DEF Active, HostInv, ActiveIsOpen
  <2> QED
    BY <2>1, <2>2, <2>3
    DEF HostInv, ActiveIsOpen, ActiveHasPath, WarnedFollowsConfirmed,
        SignedOnlyWhatWasApproved, PathLostOnlyToKey
<1> QED
  BY <1>2, <1>3, <1>4, <1>5 DEF Decide

(* With a conforming host, what the signature depends on is in place as    *)
(* long as a signature can still follow.                                   *)
LEMMA HostStep ==
  ASSUME AppInv, HostConforms, [AppNext]_vars
  PROVE  HostInv'
<1> USE DEF HostInv, ActiveIsOpen, ActiveHasPath, WarnedFollowsConfirmed,
            SignedOnlyWhatWasApproved, PathLostOnlyToKey
<1>1. HostInv /\ AnyHostInv
  BY DEF AppInv
<1>2. CASE Launch \/ Stop
  <2>1. ~Active' /\ lastReply'.data = "none"
    BY <1>2 DEF Launch, Stop, ForgetMemory, Active, NoReply, StatusOnly, Reply,
                TransactionScreens, ActionScreens
  <2> QED
    BY <1>2, <2>1
    DEF Launch, Stop, ForgetMemory, Relaunch, ClearContext, ActionScreens
<1>3. CASE QuietCommand
  <2>1. /\ loop = "wait" /\ ~unanswered
        /\ UNCHANGED <<reviewVars, sessionVars, loop, screen>>
        /\ lastReply'.data # "signature"
        /\ \/ ~mayContinue'
           \/ /\ mayContinue' = mayContinue
              /\ UNCHANGED tmpCtx \/ tmpCtx'.holds = "publicKey"
    BY <1>3 DEF QuietCommand, Receive, AnswerAtOnce, MayContinueAfter
  <2>2. screen \notin ReviewScreens
    BY <1>1, <2>1 DEF AnyHostInv, AsyncReplyHasReview
  <2>3. Active' => Active /\ (UNCHANGED tmpCtx \/ tmpCtx'.holds = "publicKey")
    BY <2>1, <2>2
    DEF Active, TransactionScreens, ActionScreens, ReviewScreens
  <2> QED
    BY <1>1, <2>1, <2>3 DEF reviewVars, counterVars, sessionVars
<1>4. CASE \E path \in Paths : HandleGetPublicKeyConfirm(path)
  <2>1. /\ loop = "wait" /\ ~unanswered
        /\ UNCHANGED <<reviewVars, sessionVars, loop, mayContinue>>
        /\ screen' = "address"
        /\ lastReply'.data = "none"
        /\ tmpCtx'.holds = "publicKey"
    BY <1>4 DEF HandleGetPublicKeyConfirm, Receive, NoReply, StatusOnly, Reply
  <2>2. screen \notin ReviewScreens
    BY <1>1, <2>1 DEF AnyHostInv, AsyncReplyHasReview
  <2>3. Active' => Active
    BY <2>1 DEF Active, TransactionScreens, ActionScreens
  <2> QED
    BY <1>1, <2>1, <2>2, <2>3
    DEF reviewVars, counterVars, sessionVars, ActionScreens, ReviewScreens
<1>5. CASE \E path \in Paths, p2 \in BOOLEAN : HandleSignFirst(path, p2)
  BY <1>5 DEF HandleSignFirst, InitTxContext, ClearContext, NoReply, StatusOnly, Reply
<1>6. CASE \E p2 \in BOOLEAN : HandleSignMore(p2)
  <2>1. /\ loop = "wait" /\ ~unanswered /\ loop' = "handleSign"
        /\ UNCHANGED <<reviewVars, sessionVars, tmpCtx>>
        /\ lastReply'.data = "none"
        /\ mayContinue
    BY <1>6 DEF HandleSignMore, Receive, NoReply, StatusOnly, Reply
  <2>2. screen \notin ReviewScreens
    BY <1>1, <2>1 DEF AnyHostInv, AsyncReplyHasReview
  <2>3. Active
    BY <2>1 DEF Active
  <2> QED
    BY <1>1, <2>1, <2>2, <2>3
    DEF reviewVars, counterVars, sessionVars, ActionScreens, ReviewScreens
<1>7. CASE Work
  BY <1>7, WorkKeepsHostInv
<1>8. CASE Decide
  BY <1>8, DecideKeepsHostInv
<1>9. CASE Navigate
  <2>1. /\ loop = "wait" /\ screen \in {"home", "settings", "status"}
        /\ screen' \in {"home", "settings"}
        /\ UNCHANGED <<reviewVars, sessionVars, loop, tmpCtx, hostVars>>
    BY <1>9 DEF Navigate, AtScreen
  <2> QED
    BY <1>1, <2>1
    DEF Active, TransactionScreens, ActionScreens, reviewVars, counterVars, sessionVars,
        hostVars
<1>10. CASE toogle_data_allowed \/ UNCHANGED vars
  <2>1. UNCHANGED <<reviewVars, sessionVars, loop, screen, tmpCtx, hostVars>>
    BY <1>10 DEF toogle_data_allowed, vars, appVars
  <2> QED
    BY <1>1, <2>1
    DEF Active, reviewVars, counterVars, sessionVars, hostVars
<1> QED
  BY <1>2, <1>3, <1>4, <1>5, <1>6, <1>7, <1>8, <1>9, <1>10, AppSteps

----------------------------------------------------------------------------
LEMMA AppInitInv == AppInit => AppInv
<1> SUFFICES ASSUME AppInit PROVE AppInv
  OBVIOUS
<1>1. ReviewInv
  BY ReviewInitInv DEF AppInit
<1>2. AnyHostInv
  BY DEF AppInit, ReviewInit, AnyHostInv, StorageType, LoopFollowsStatus,
         UnansweredWhileHandled, AsyncReplyHasReview
<1>3. UserParsesLate /\ AnswersInv
  BY DEF AppInit, ReviewInit, UserParsesLate, AnswersInv, Outstanding, SignedIsOver,
         SignedHasNoReview
<1>4. ~Active
  BY DEF AppInit, Active
<1>5. HostInv
  BY <1>4
  DEF AppInit, ReviewInit, HostInv, ActiveIsOpen, ActiveHasPath, WarnedFollowsConfirmed,
      SignedOnlyWhatWasApproved, PathLostOnlyToKey, NoReply, StatusOnly, Reply
<1> QED
  BY <1>1, <1>2, <1>3, <1>5 DEF AppInv

THEOREM AppInvariant == AppSpec => []AppInv
<1>1. AppInit => AppInv
  BY AppInitInv
<1>2. AppInv /\ [AppNext]_vars => AppInv'
  <2> SUFFICES ASSUME AppInv, [AppNext]_vars PROVE AppInv'
    OBVIOUS
  <2>1. ReviewInv'
    BY AppStepIsReviewStep, ReviewStepInv DEF AppInv
  <2>2. AnyHostInv'
    BY AnyHostStep DEF AppInv
  <2>3. UserParsesLate' /\ AnswersInv'
    BY UserParsesLateStep, AnswersStep DEF AppInv
  <2>4. (HostConforms => HostInv)'
    BY HostStep
  <2> QED
    BY <2>1, <2>2, <2>3, <2>4 DEF AppInv
<1> QED
  BY <1>1, <1>2, PTL DEF AppSpec

(* The application drives the parser only as its specification allows, so  *)
(* all that is proved of EosReview holds inside the application.           *)
THEOREM AppImplementsReview == AppSpec => ReviewSpec
<1>1. AppInit => ReviewInit
  BY DEF AppInit
<1>2. AppInv /\ [AppNext]_vars => [ReviewNext]_reviewVars
  BY AppStepIsReviewStep DEF AppInv
<1> QED
  BY <1>1, <1>2, AppInvariant, PTL DEF AppSpec, ReviewSpec

(* Whatever the host sends, a command that waits has a review on the       *)
(* screen that shows what the parser handed out, and no review is left     *)
(* over from a command that does not.                                      *)
THEOREM ReviewsMatchCommands == AppSpec => []AsyncReplyHasReview
<1>1. AppInv => AsyncReplyHasReview
  BY DEF AppInv, AnyHostInv
<1> QED
  BY <1>1, AppInvariant, PTL

(* Between a conforming host and either user interface, no transaction is  *)
(* signed that the user has not accepted action by action.                 *)
THEOREM SignatureNeedsApproval ==
  ASSUME HostConforms
  PROVE  AppSpec => []SignedOnlyWhatWasApproved
<1>1. AppInv => SignedOnlyWhatWasApproved
  BY DEF AppInv, HostInv
<1> QED
  BY <1>1, AppInvariant, PTL

(* With a conforming host the signing path survives in the union until it  *)
(* is used, unless the host reads a public key in between.                 *)
THEOREM SignatureUsesGivenPath ==
  ASSUME HostConforms
  PROVE  AppSpec => []PathLostOnlyToKey
<1>1. AppInv => PathLostOnlyToKey
  BY DEF AppInv, HostInv
<1> QED
  BY <1>1, AppInvariant, PTL

(* Whatever the host sends, a signature is made only after the user has    *)
(* accepted or cancelled every action of the transaction: blocks that      *)
(* follow a refusal or a signature bring no action past its review.        *)
THEOREM EveryActionIsAnswered == AppSpec => []EveryActionWasAnswered
<1>1. AppInv => EveryActionWasAnswered
  <2> SUFFICES ASSUME AppInv, signed > 0
               PROVE  approved + cancelled = ActionsOf(currentActionNumber)
    BY DEF EveryActionWasAnswered
  <2>1. state = TLV_DONE /\ ~actionReady
    BY DEF AppInv, AnswersInv, SignedIsOver
  <2>2. currentActionIndex = ActionsOf(currentActionNumber)
    BY <2>1 DEF AppInv, ReviewInv, IndexFollowsState, TLV_DONE, TLV_ACTION_DATA
  <2>3. returned = currentActionIndex
    BY <2>1 DEF AppInv, ReviewInv, ReviewTypeOK, ReturnedFollowsIndex, Unreturned
  <2>4. Outstanding = 0
    BY DEF AppInv, AnswersInv, SignedHasNoReview, Outstanding, ActionScreens
  <2> QED
    BY <2>2, <2>3, <2>4 DEF AppInv, AnswersInv
<1> QED
  BY <1>1, AppInvariant, PTL

(* Whatever the host sends, a signed transaction has no review on the      *)
(* screen and none in the callback of the user.                            *)
THEOREM SignatureEndsReviews == AppSpec => []SignedHasNoReview
<1>1. AppInv => SignedHasNoReview
  BY DEF AppInv, AnswersInv
<1> QED
  BY <1>1, AppInvariant, PTL

----------------------------------------------------------------------------
(* Only app_main's first step leaves the program that is off.              *)
LEMMA OnlyLaunchWakes ==
  ASSUME AppNext, loop = "off"
  PROVE  Launch
  BY AppSteps
  DEF Launch, Stop, QuietCommand, HandleGetPublicKeyConfirm, HandleSignFirst, HandleSignMore,
      Receive, Work, HandleSignRefuse, HandleSignParse, ParseField, ShowAction, ShowMultiple,
      AcknowledgeBlock, ReportFault, ParserAsserts, SignTransaction, Parsing, Decide,
      user_action_address_ok, user_action_address_cancel, AcceptLastAction,
      user_action_sign_flow_ok, user_action_tx_cancel, Navigate, toogle_data_allowed, AtScreen

(* Steps that have nothing to do with the setting in flash.                *)
LEMMA OthersKeepSetting ==
  ASSUME [AppNext]_vars, ~Launch, ~toogle_data_allowed
  PROVE  UNCHANGED <<storage, chosen>>
<1>1. CASE Stop \/ QuietCommand \/ \E path \in Paths : HandleGetPublicKeyConfirm(path)
  BY <1>1 DEF Stop, QuietCommand, AnswerAtOnce, HandleGetPublicKeyConfirm
<1>2. CASE \/ \E path \in Paths, p2 \in BOOLEAN : HandleSignFirst(path, p2)
           \/ \E p2 \in BOOLEAN : HandleSignMore(p2)
  BY <1>2 DEF HandleSignFirst, HandleSignMore
<1>3. CASE Work
  BY <1>3
  DEF Work, HandleSignRefuse, HandleSignParse, ParseField, ShowAction, ShowMultiple,
      AcknowledgeBlock, ReportFault, ParserAsserts, SignTransaction
<1>4. CASE Decide \/ Navigate
  BY <1>4
  DEF Decide, user_action_address_ok, user_action_address_cancel, AcceptLastAction,
      user_action_sign_flow_ok, user_action_tx_cancel, Navigate
<1>5. CASE UNCHANGED vars
  BY <1>5 DEF vars, appVars
<1> QED
  BY <1>1, <1>2, <1>3, <1>4, <1>5, AppSteps

(* The setting is the user's from the first start on, and before it is what*)
(* config_init will write.                                                 *)
SettingInv ==
    /\ StorageType
    /\ storage.initialized => storage.dataAllowed = chosen
    /\ ~storage.initialized => ~chosen
    /\ chosen \in BOOLEAN
    /\ loop # "off" => storage.initialized

LEMMA SettingStep ==
  ASSUME SettingInv, [AppNext]_vars
  PROVE  SettingInv'
<1> USE DEF SettingInv, StorageType
<1>1. CASE Launch
  <2>1. /\ storage' = IF storage.initialized THEN storage
                      ELSE [initialized |-> TRUE, dataAllowed |-> FALSE]
        /\ chosen' = chosen
    BY <1>1 DEF Launch, config_init
  <2>2. CASE storage.initialized
    BY <2>1, <2>2
  <2>3. CASE ~storage.initialized
    <3>1. chosen = FALSE
      BY <2>3
    <3> QED
      BY <2>1, <2>3, <3>1
  <2> QED
    BY <2>2, <2>3
<1>2. CASE toogle_data_allowed
  <2>1. storage.initialized
    BY <1>2 DEF toogle_data_allowed, AtScreen
  <2>2. /\ storage'.initialized = storage.initialized
        /\ storage'.dataAllowed = ~storage.dataAllowed
        /\ storage' \in [initialized : BOOLEAN, dataAllowed : BOOLEAN]
        /\ chosen' = ~chosen
    BY <1>2 DEF toogle_data_allowed
  <2> QED
    BY <2>1, <2>2
<1>3. CASE ~Launch /\ ~toogle_data_allowed
  <2>1. UNCHANGED <<storage, chosen>>
    BY <1>3, OthersKeepSetting
  <2>2. loop' # "off" => loop # "off"
    BY <1>3, OnlyLaunchWakes DEF vars, appVars
  <2> QED
    BY <2>1, <2>2
<1> QED
  BY <1>1, <1>2, <1>3

(* The user's choice is what the program finds in flash, however often and *)
(* wherever it was ended in between.                                       *)
THEOREM SettingIsTheChosenOne == AppSpec => []SettingSurvives
<1>1. ASSUME AppInit
      PROVE  SettingInv
  <2>1. /\ storage = [initialized |-> FALSE, dataAllowed |-> FALSE]
        /\ loop = "off"
        /\ chosen = FALSE
    BY <1>1 DEF AppInit
  <2>2. /\ storage \in [initialized : BOOLEAN, dataAllowed : BOOLEAN]
        /\ storage.initialized = FALSE
    BY <2>1
  <2> QED
    BY <2>1, <2>2 DEF SettingInv, StorageType
<1>2. SettingInv /\ [AppNext]_vars => SettingInv'
  BY SettingStep
<1>3. SettingInv => SettingSurvives
  BY DEF SettingInv, SettingSurvives
<1> QED
  BY <1>1, <1>2, <1>3, PTL DEF AppSpec

----------------------------------------------------------------------------
(* No step leaves an address on the screen and another key in the union:   *)
(* commands that write to it wait until the review is over.                *)
LEMMA AddressStep ==
  ASSUME AnyHostInv, AddressShownIsAddressSent, [AppNext]_vars
  PROVE  AddressShownIsAddressSent'
<1> USE DEF AddressShownIsAddressSent
<1>1. CASE Launch \/ Stop
  BY <1>1 DEF Launch, Stop
<1>2. CASE \/ QuietCommand
           \/ \E path \in Paths, p2 \in BOOLEAN : HandleSignFirst(path, p2)
           \/ \E p2 \in BOOLEAN : HandleSignMore(p2)
  <2>1. loop = "wait" /\ ~unanswered /\ screen' = screen
    BY <1>2 DEF QuietCommand, Receive, AnswerAtOnce, HandleSignFirst, HandleSignMore
  <2>2. screen # "address"
    BY <2>1 DEF AnyHostInv, AsyncReplyHasReview, ReviewScreens
  <2> QED
    BY <2>1, <2>2
<1>3. CASE \E path \in Paths : HandleGetPublicKeyConfirm(path)
  BY <1>3 DEF HandleGetPublicKeyConfirm
<1>4. CASE Work
  <2>1. UNCHANGED <<tmpCtx, shownAddress>>
    BY <1>4
    DEF Work, HandleSignRefuse, HandleSignParse, ParseField, ShowAction, ShowMultiple,
        AcknowledgeBlock, ReportFault, ParserAsserts, SignTransaction
  <2>2. screen' = "address" => screen = "address"
    BY <1>4, ScreenFacts
    DEF Work, HandleSignRefuse, HandleSignParse, ParseField, ShowAction, ShowMultiple,
        AcknowledgeBlock, ReportFault, ParserAsserts, SignTransaction
  <2> QED
    BY <2>1, <2>2
<1>5. CASE Decide
  BY <1>5, ScreenFacts
  DEF Decide, user_action_address_ok, user_action_address_cancel, AcceptLastAction,
      user_action_sign_flow_ok, user_action_tx_cancel, AtScreen
<1>6. CASE Navigate \/ toogle_data_allowed
  BY <1>6 DEF Navigate, toogle_data_allowed, AtScreen
<1>7. CASE UNCHANGED vars
  BY <1>7 DEF vars, appVars
<1> QED
  BY <1>1, <1>2, <1>3, <1>4, <1>5, <1>6, <1>7, AppSteps

(* With commands in any order, the key that is confirmed is the one shown. *)
THEOREM ConfirmedAddressIsShown == AppSpec => []AddressShownIsAddressSent
<1>1. AppInit => AddressShownIsAddressSent
  BY DEF AppInit, AddressShownIsAddressSent
<1>2. AppInv /\ AddressShownIsAddressSent /\ [AppNext]_vars => AddressShownIsAddressSent'
  BY AddressStep DEF AppInv
<1> QED
  BY <1>1, <1>2, AppInvariant, PTL DEF AppSpec

----------------------------------------------------------------------------
(* The parser itself never touches the copy of the setting.                *)
LEMMA WorkKeepsCopy ==
  ASSUME Work \/ Decide
  PROVE  UNCHANGED dataAllowed
<1>1. CASE HandleSignRefuse \/ user_action_address_ok \/ user_action_address_cancel
           \/ AcceptLastAction \/ user_action_tx_cancel
  BY <1>1
  DEF HandleSignRefuse, user_action_address_ok, user_action_address_cancel,
      AcceptLastAction, user_action_tx_cancel, reviewVars
<1>2. CASE (\E n \in 0..MaxFields : HandleSignParse(n)) \/ user_action_sign_flow_ok
  BY <1>2 DEF HandleSignParse, user_action_sign_flow_ok, ParseTx
<1>3. CASE ParseField
  BY <1>3
  DEF ParseField, FieldDone, PlainFieldDone, ActionListSizeDone, ActionNameDone,
      AuthorizationListSizeDone, AuthorizationPermissionDone, ActionDataDone
<1>4. CASE \/ ShowAction \/ ShowMultiple \/ AcknowledgeBlock \/ ReportFault
           \/ ParserAsserts \/ SignTransaction
  BY <1>4
  DEF ShowAction, ShowMultiple, AcknowledgeBlock, ReportFault, ParserAsserts,
      SignTransaction, ReturnActionReady, ReturnConfirm, ReturnProcessing, ReturnFault,
      ReturnFinished, AssertFails, Verdict
<1> QED
  BY <1>1, <1>2, <1>3, <1>4 DEF Work, Decide

(* Toggling the setting between two blocks does not change what may be in  *)
(* the transaction that is being sent.                                     *)
THEOREM SettingIsCopiedOnce == AppSpec => OneSettingPerTransaction
<1> DEFINE CopiedOnce ==
        dataAllowed' # dataAllowed =>
          \/ state' = TLV_NONE
          \/ /\ state' = TLV_CHAIN_ID /\ givenPath' # NoPath
             /\ returned' = 0 /\ approved' = 0
             /\ dataAllowed' = storage.dataAllowed /\ UNCHANGED storage
<1>1. ASSUME [AppNext]_vars
      PROVE  [CopiedOnce]_vars
  <2>1. CASE Launch \/ Stop
    BY <2>1 DEF Launch, Stop, Relaunch
  <2>2. CASE \E path \in Paths, p2 \in BOOLEAN : HandleSignFirst(path, p2)
    BY <2>2, AppAssumption DEF HandleSignFirst, InitTxContext, ClearContext
  <2>3. CASE \/ QuietCommand
             \/ \E path \in Paths : HandleGetPublicKeyConfirm(path)
             \/ \E p2 \in BOOLEAN : HandleSignMore(p2)
             \/ Navigate \/ toogle_data_allowed
    BY <2>3
    DEF QuietCommand, HandleGetPublicKeyConfirm, HandleSignMore, Navigate,
        toogle_data_allowed, reviewVars
  <2>4. CASE Work \/ Decide
    BY <2>4, WorkKeepsCopy
  <2> QED
    BY <1>1, <2>1, <2>2, <2>3, <2>4, AppSteps
<1> QED
  BY <1>1, PTL DEF AppSpec, OneSettingPerTransaction
----------------------------------------------------------------------------
(* The page with the words "Sign transaction".  Whatever the host sends:   *)
(* it is on the screen, or was accepted last, only once the last action    *)
(* has been handed out; and when the last action has been handed out and   *)
(* accepted, that page was the one the user accepted.                      *)
LastPageShown ==
    loop = "wait" =>
        /\ screen \in {"reviewSign", "finish"} =>
               (currentActionNumber > 0 => currentActionIndex = currentActionNumber)
        /\ screen = "review" /\ Ui = "bagl" => currentActionIndex # currentActionNumber

PromptAfterLast ==
    signPrompted =>
        /\ state > TLV_ACTION_LIST_SIZE
        /\ currentActionNumber > 0 => currentActionIndex = currentActionNumber

LastWasPrompted ==
    /\ currentActionNumber > 0 /\ returned = currentActionNumber /\ ~refused
    /\ ~(loop = "wait" /\ screen \in ActionScreens)
    => signPrompted

PromptInv ==
    /\ Ui \in Builds
    /\ LastPageShown
    /\ PromptAfterLast
    /\ LastWasPrompted

(* The TLV states and counters are numbers, whose values the provers need. *)
USE CounterFacts
USE DEF TLV_ACTION_LIST_SIZE, TLV_ACTION_ACCOUNT, TLV_ACTION_NAME,
        TLV_AUTHORIZATION_LIST_SIZE, TLV_AUTHORIZATION_ACTOR, TLV_AUTHORIZATION_PERMISSION,
        TLV_ACTION_DATA, TLV_TX_EXTENSION_LIST_SIZE, txProcessingState_e, TLV_NONE, TLV_DONE

(* Where the action that was handed out last stands in the list.           *)
LEMMA IndexOfReturned ==
  ASSUME ReviewInv, returned > 0 \/ actionReady
  PROVE  /\ state > TLV_ACTION_LIST_SIZE
         /\ currentActionNumber > 0 => currentActionIndex <= currentActionNumber
         /\ currentActionIndex > 0
  BY DEF ReviewInv, ReviewTypeOK, ReturnedFollowsIndex, Unreturned, BeforeTheList,
         IndexFollowsState, ActionsOf

(* A field after the last action moves neither the index nor the number.   *)
LEMMA FieldKeepsPrompt ==
  ASSUME ReviewInv, PromptAfterLast, LastWasPrompted, FieldDone, loop # "wait",
         UNCHANGED <<signPrompted, refused>>, UNCHANGED loop
  PROVE  PromptAfterLast' /\ LastWasPrompted'
<1> USE DEF PromptAfterLast, LastWasPrompted, ReviewInv, ReviewTypeOK
<1>1. CASE PlainFieldDone
  BY <1>1 DEF PlainFieldDone, counterVars
<1>2. CASE \E n \in Counter : ActionListSizeDone(n)
  <2>1. state = TLV_ACTION_LIST_SIZE /\ returned = 0 /\ returned' = 0
    BY <1>2 DEF ActionListSizeDone, BeforeTheList, ReturnedFollowsIndex, Unreturned
  <2> QED
    BY <1>2, <2>1 DEF ActionListSizeDone
<1>3. CASE \E k \in BOOLEAN : ActionNameDone(k)
  BY <1>3 DEF ActionNameDone, counterVars
<1>4. CASE \/ \E n \in Counter : AuthorizationListSizeDone(n)
           \/ AuthorizationPermissionDone
  BY <1>4 DEF AuthorizationListSizeDone, AuthorizationPermissionDone
<1>5. CASE ActionDataDone
  <2>1. state = TLV_ACTION_DATA /\ currentActionIndex < ActionsOf(currentActionNumber)
    BY <1>5 DEF ActionDataDone, IndexFollowsState
  <2>2. currentActionNumber > 0 => currentActionIndex < currentActionNumber
    BY <2>1 DEF ActionsOf
  <2>3. state' > TLV_ACTION_LIST_SIZE /\ UNCHANGED <<currentActionNumber, returned>>
    BY <1>5 DEF ActionDataDone
  <2> QED
    BY <2>1, <2>2, <2>3
<1> QED
  BY <1>1, <1>2, <1>3, <1>4, <1>5 DEF FieldDone

LEMMA WorkKeepsPromptInv ==
  ASSUME AppInv, PromptInv, Work
  PROVE  PromptInv'
<1>1. /\ ReviewInv /\ ReviewInv' /\ AnyHostInv /\ AnyHostInv' /\ loop # "wait"
      /\ UNCHANGED <<Ui, signPrompted, refused>>
  <2>1. ReviewInv' /\ AnyHostInv'
    BY AppStepIsReviewStep, ReviewStepInv, AnyHostStep DEF AppInv, AppNext
  <2> QED
    BY <2>1
    DEF AppInv, Work, HandleSignRefuse, HandleSignParse, ParseField, ShowAction,
        ShowMultiple, AcknowledgeBlock, ReportFault, ParserAsserts, SignTransaction,
        Parsing, sessionVars
<1>2. CASE ParseField
  <2>1. loop' # "wait"
    BY <1>1, <1>2 DEF ParseField
  <2> QED
    BY <1>1, <1>2, <2>1, FieldKeepsPrompt DEF ParseField, PromptInv, LastPageShown
<1>3. CASE ShowAction
  <2>1. /\ screen' = ActionScreen /\ screen' \in {"review", "reviewSign"} /\ loop' = "wait"
        /\ UNCHANGED <<currentActionIndex, currentActionNumber, state>>
        /\ actionReady
    BY <1>3, ScreenFacts DEF ShowAction, ReturnActionReady, counterVars
  <2>3. /\ currentActionNumber > 0 => currentActionIndex <= currentActionNumber
        /\ currentActionIndex > 0
    BY <1>1, <2>1, IndexOfReturned
  <2>4. LastPageShown'
    BY <1>1, <2>1, <2>3, AppAssumption
    DEF LastPageShown, ActionScreen, LastAction, PromptInv, ReviewInv, ReviewTypeOK
  <2>5. LastWasPrompted'
    BY <2>1 DEF LastWasPrompted, ActionScreens
  <2> QED
    BY <1>1, <2>1, <2>4, <2>5 DEF PromptInv, PromptAfterLast
<1>4. CASE ShowMultiple
  <2>1. /\ screen' = "multi" /\ loop' = "wait"
        /\ UNCHANGED <<returned, currentActionIndex, currentActionNumber, state>>
        /\ currentActionIndex = 0
    BY <1>1, <1>4
    DEF ShowMultiple, ReturnConfirm, counterVars, ReviewInv, WarningFollowsNumber
  <2>2. returned = 0
    BY <1>1, <2>1 DEF ReviewInv, ReviewTypeOK, ReturnedFollowsIndex, Unreturned
  <2> QED
    BY <1>1, <2>1, <2>2
    DEF PromptInv, LastPageShown, PromptAfterLast, LastWasPrompted
<1>5. CASE \/ HandleSignRefuse \/ (\E n \in 0..MaxFields : HandleSignParse(n))
           \/ AcknowledgeBlock \/ ReportFault \/ ParserAsserts \/ SignTransaction
  <2>1. UNCHANGED <<currentActionIndex, currentActionNumber, state, returned>>
    BY <1>5
    DEF HandleSignRefuse, HandleSignParse, AcknowledgeBlock, ReportFault, ParserAsserts,
        SignTransaction, ReturnProcessing, ReturnFault, ReturnConfirm, AssertFails,
        ReturnFinished, Verdict, ParseTx, reviewVars, counterVars
  <2>2. loop' = "wait" => screen' \notin ActionScreens
    BY <1>1, <1>5, ScreenFacts
    DEF HandleSignRefuse, HandleSignParse, AcknowledgeBlock, ReportFault, ParserAsserts,
        SignTransaction, Answer, AnyHostInv, UnansweredWhileHandled, ReviewScreens,
        ActionScreens, Parsing
  <2> QED
    BY <1>1, <2>1, <2>2
    DEF PromptInv, LastPageShown, PromptAfterLast, LastWasPrompted, ActionScreens
<1> QED
  BY <1>2, <1>3, <1>4, <1>5 DEF Work

LEMMA DecideKeepsPromptInv ==
  ASSUME AppInv, PromptInv, Decide
  PROVE  PromptInv'
<1>1. /\ ReviewInv /\ AnyHostInv /\ loop = "wait" /\ UNCHANGED Ui
      /\ UNCHANGED <<currentActionIndex, currentActionNumber, state, returned>>
  BY DEF AppInv, Decide, user_action_address_ok, user_action_address_cancel,
         AcceptLastAction, user_action_sign_flow_ok, user_action_tx_cancel, AtScreen,
         ParseTx, reviewVars, counterVars
<1>2. CASE user_action_address_ok \/ user_action_address_cancel \/ user_action_tx_cancel
  <2>1. /\ screen' \notin ActionScreens /\ UNCHANGED signPrompted
        /\ refused' \/ (screen \notin ActionScreens /\ UNCHANGED refused)
    BY <1>2, ScreenFacts
    DEF user_action_address_ok, user_action_address_cancel, user_action_tx_cancel,
        AtScreen, sessionVars, ActionScreens
  <2> QED
    BY <1>1, <2>1
    DEF PromptInv, LastPageShown, PromptAfterLast, LastWasPrompted, ActionScreens
<1>3. CASE AcceptLastAction
  BY <1>1, <1>3
  DEF AcceptLastAction, AtScreen, FinishPageFollows, PromptInv, LastPageShown,
      PromptAfterLast, LastWasPrompted, ActionScreens, sessionVars
<1>4. CASE user_action_sign_flow_ok
  <2>1. /\ screen \in {"multi", "review", "reviewSign", "finish"}
        /\ ~FinishPageFollows /\ loop' = "parseUser" /\ UNCHANGED refused
        /\ signPrompted' <=> (screen \in {"reviewSign", "finish"})
    BY <1>4 DEF user_action_sign_flow_ok, AtScreen
  <2>2. CASE screen = "multi"
    <3>1. returned = 0
      BY <1>1, <2>2
      DEF AnyHostInv, AsyncReplyHasReview, ReviewInv, ReviewTypeOK, VerdictFollowsState,
          ReturnedFollowsIndex, Unreturned
    <3> QED
      BY <1>1, <2>1, <2>2, <3>1
      DEF PromptInv, LastPageShown, PromptAfterLast, LastWasPrompted
  <2>3. CASE screen # "multi"
    <3>1. returned > 0
      BY <1>1, <2>1, <2>3 DEF AnyHostInv, AsyncReplyHasReview, ReviewInv, VerdictFollowsState
    <3>2. state > TLV_ACTION_LIST_SIZE
      BY <1>1, <3>1, IndexOfReturned
    <3>3. CASE screen = "review"
      <4>1. currentActionIndex # currentActionNumber
        BY <1>1, <2>1, <3>3, AppAssumption DEF FinishPageFollows, PromptInv, LastPageShown
      <4>2. currentActionNumber > 0 => returned # currentActionNumber
        BY <1>1, <3>1, <4>1, IndexOfReturned
        DEF ReviewInv, ReviewTypeOK, ReturnedFollowsIndex, Unreturned
      <4> QED
        BY <1>1, <2>1, <3>3, <4>2
        DEF PromptInv, LastPageShown, PromptAfterLast, LastWasPrompted
    <3>4. CASE screen # "review"
      BY <1>1, <2>1, <2>3, <3>2, <3>4
      DEF PromptInv, LastPageShown, PromptAfterLast, LastWasPrompted
    <3> QED
      BY <3>3, <3>4
  <2> QED
    BY <2>2, <2>3
<1> QED
  BY <1>2, <1>3, <1>4 DEF Decide

(* The words "Sign transaction" belong to the last action, whatever the    *)
(* host sends.                                                             *)
LEMMA PromptStep ==
  ASSUME AppInv, PromptInv, [AppNext]_vars
  PROVE  PromptInv'
<1> USE DEF PromptInv, LastPageShown, PromptAfterLast, LastWasPrompted
<1>1. CASE Launch \/ Stop
  BY <1>1 DEF Launch, Stop, ForgetMemory, Relaunch, ClearContext
<1>2. CASE QuietCommand
  BY <1>2 DEF QuietCommand, Receive, AnswerAtOnce, reviewVars, counterVars, sessionVars
<1>3. CASE \E path \in Paths : HandleGetPublicKeyConfirm(path)
  <2>1. /\ loop = "wait" /\ ~unanswered /\ screen' = "address"
        /\ UNCHANGED <<Ui, reviewVars, sessionVars, loop>>
    BY <1>3 DEF HandleGetPublicKeyConfirm, Receive
  <2>2. screen \notin ActionScreens
    BY <2>1 DEF AppInv, AnyHostInv, AsyncReplyHasReview, ReviewScreens, ActionScreens
  <2> QED
    BY <2>1, <2>2 DEF reviewVars, counterVars, sessionVars
<1>4. CASE \E path \in Paths, p2 \in BOOLEAN : HandleSignFirst(path, p2)
  BY <1>4 DEF HandleSignFirst, InitTxContext, ClearContext
<1>5. CASE \E p2 \in BOOLEAN : HandleSignMore(p2)
  <2>1. /\ loop = "wait" /\ ~unanswered /\ loop' = "handleSign"
        /\ UNCHANGED <<Ui, reviewVars, sessionVars>>
    BY <1>5 DEF HandleSignMore, Receive
  <2>2. screen \notin ActionScreens
    BY <2>1 DEF AppInv, AnyHostInv, AsyncReplyHasReview, ReviewScreens, ActionScreens
  <2> QED
    BY <2>1, <2>2 DEF reviewVars, counterVars, sessionVars
<1>6. CASE Work
  BY <1>6, WorkKeepsPromptInv
<1>7. CASE Decide
  BY <1>7, DecideKeepsPromptInv
<1>8. CASE Navigate
  BY <1>8 DEF Navigate, AtScreen, ActionScreens, reviewVars, counterVars, sessionVars
<1>9. CASE toogle_data_allowed \/ UNCHANGED vars
  BY <1>9 DEF toogle_data_allowed, vars, appVars, reviewVars, counterVars, sessionVars
<1> QED
  BY <1>1, <1>2, <1>3, <1>4, <1>5, <1>6, <1>7, <1>8, <1>9, AppSteps

(* A conforming host gets its signature only when the page with the words  *)
(* was the last that the user accepted.                                    *)
SignedWasPrompted == signed > 0 /\ currentActionNumber > 0 => signPrompted

LEMMA SignedWasPromptedStep ==
  ASSUME AppInv, PromptInv, HostConforms, SignedWasPrompted, [AppNext]_vars
  PROVE  SignedWasPrompted'
<1> USE DEF SignedWasPrompted
<1>1. CASE Launch \/ Stop \/ \E path \in Paths, p2 \in BOOLEAN : HandleSignFirst(path, p2)
  BY <1>1 DEF Launch, Stop, ForgetMemory, HandleSignFirst
<1>2. CASE \/ QuietCommand
           \/ \E path \in Paths : HandleGetPublicKeyConfirm(path)
           \/ \E p2 \in BOOLEAN : HandleSignMore(p2)
           \/ Navigate \/ toogle_data_allowed \/ UNCHANGED vars
  BY <1>2
  DEF QuietCommand, AnswerAtOnce, HandleGetPublicKeyConfirm, HandleSignMore, Navigate,
      toogle_data_allowed, vars, appVars, sessionVars, reviewVars, counterVars
<1>3. CASE Work
  <2>1. signed = 0 /\ ~refused /\ loop # "wait"
    BY <1>3
    DEF AppInv, HostInv, ActiveIsOpen, Active, Work, HandleSignRefuse, HandleSignParse,
        ParseField, ShowAction, ShowMultiple, AcknowledgeBlock, ReportFault,
        ParserAsserts, SignTransaction, Parsing
  <2>2. CASE SignTransaction
    <3>1. returned = ActionsOf(currentActionNumber)
      BY <2>2, FinishedIsComplete DEF SignTransaction, AppInv
    <3>2. UNCHANGED <<currentActionNumber, signPrompted>>
      BY <2>2, ReviewHistory DEF SignTransaction
    <3> QED
      BY <2>1, <3>1, <3>2 DEF PromptInv, LastWasPrompted, ActionsOf
  <2>3. CASE ~SignTransaction
    <3>1. UNCHANGED signed
      BY <1>3, <2>3
      DEF Work, HandleSignRefuse, HandleSignParse, ParseField, ShowAction, ShowMultiple,
          AcknowledgeBlock, ReportFault, ParserAsserts, sessionVars
    <3> QED
      BY <2>1, <3>1
  <2> QED
    BY <2>2, <2>3
<1>4. CASE Decide
  <2>1. CASE user_action_sign_flow_ok
    <3>1. Active
      BY <2>1
      DEF user_action_sign_flow_ok, AtScreen, Active, TransactionScreens, ActionScreens
    <3>2. signed = 0 /\ UNCHANGED signed
      BY <2>1, <3>1 DEF user_action_sign_flow_ok, AppInv, HostInv, ActiveIsOpen
    <3> QED
      BY <3>2
  <2>2. CASE ~user_action_sign_flow_ok
    BY <1>4, <2>2
    DEF Decide, user_action_address_ok, user_action_address_cancel, AcceptLastAction,
        user_action_tx_cancel, sessionVars, reviewVars, counterVars
  <2> QED
    BY <2>1, <2>2
<1> QED
  BY <1>1, <1>2, <1>3, <1>4, AppSteps

THEOREM PromptInvariant == AppSpec => []PromptInv
<1>1. AppInit => PromptInv
  BY DEF AppInit, ReviewInit, PromptInv, LastPageShown, PromptAfterLast, LastWasPrompted
<1>2. AppInv /\ PromptInv /\ [AppNext]_vars => PromptInv'
  BY PromptStep
<1> QED
  BY <1>1, <1>2, AppInvariant, PTL DEF AppSpec

(* With a conforming host, the page with the words "Sign transaction" is   *)
(* the last one accepted before the signature, in either user interface,   *)
(* and no action is shown after it.                                        *)
THEOREM SignPromptComesLast ==
  ASSUME HostConforms
  PROVE  AppSpec => []SignPromptIsFinal
<1>1. AppInit => SignedWasPrompted
  BY DEF AppInit, SignedWasPrompted
<1>2. AppInv /\ PromptInv /\ SignedWasPrompted /\ [AppNext]_vars => SignedWasPrompted'
  BY SignedWasPromptedStep
<1>3. PromptInv /\ SignedWasPrompted => SignPromptIsFinal
  BY DEF PromptInv, PromptAfterLast, SignedWasPrompted, SignPromptIsFinal
<1> QED
  BY <1>1, <1>2, <1>3, AppInvariant, PromptInvariant, PTL DEF AppSpec
----------------------------------------------------------------------------
(* Type correctness, in three parts that different provers are good at.    *)
FlagTypesOK ==
    /\ p2Valid \in BOOLEAN /\ unanswered \in BOOLEAN /\ chosen \in BOOLEAN
    /\ warned \in BOOLEAN /\ signPrompted \in BOOLEAN /\ refused \in BOOLEAN

AnyPath == Paths \cup {Garbage, NoPath}
PathTypesOK ==
    /\ tmpCtx \in [holds : {"none", "publicKey", "transaction"}, path : AnyPath]
    /\ lastReply.path \in AnyPath
    /\ givenPath \in Paths \cup {NoPath}
    /\ shownAddress \in Paths \cup {NoPath}

LoopTypesOK ==
    /\ loop \in {"off", "wait", "handleSign", "parse", "parseUser"}
    /\ commandLength \in 0..MaxFields
    /\ screen \in Screens
    /\ signed \in 0..2

LEMMA FlagTypesStep ==
  ASSUME FlagTypesOK, StorageType, [AppNext]_vars
  PROVE  FlagTypesOK'
<1> USE DEF FlagTypesOK
<1>1. CASE Launch \/ Stop
  BY <1>1 DEF Launch, Stop, ForgetMemory
<1>2. CASE Command
  BY <1>2
  DEF Command, RefuseCommand, HandleGetAppConfiguration, RefuseGetPublicKey,
      HandleGetPublicKey, HandleGetPublicKeyConfirm, IoException, HandleSignBadPath,
      HandleSignBadP1, HandleSignFirst, HandleSignMore, AnswerAtOnce, sessionVars
<1>3. CASE Work
  BY <1>3
  DEF Work, HandleSignRefuse, HandleSignParse, ParseField, ShowAction, ShowMultiple,
      AcknowledgeBlock, ReportFault, ParserAsserts, SignTransaction, Answer, sessionVars
<1>4. CASE Decide
  <2>1. CASE user_action_sign_flow_ok
    <3>1. warned' \in BOOLEAN
      BY <2>1 DEF user_action_sign_flow_ok
    <3>2. signPrompted' \in BOOLEAN
      BY <2>1 DEF user_action_sign_flow_ok
    <3> QED
      BY <2>1, <3>1, <3>2 DEF user_action_sign_flow_ok, sessionVars
  <2> QED
    BY <1>4, <2>1
    DEF Decide, user_action_address_ok, user_action_address_cancel, AcceptLastAction,
        user_action_tx_cancel, Answer, sessionVars
<1>5. CASE toogle_data_allowed
  <2>1. chosen' \in BOOLEAN
    BY <1>5, Zenon DEF toogle_data_allowed
  <2> QED
    BY <1>5, <2>1 DEF toogle_data_allowed, sessionVars
<1>6. CASE Navigate \/ UNCHANGED vars
  BY <1>6 DEF Navigate, vars, appVars, sessionVars
<1> QED
  BY <1>1, <1>2, <1>3, <1>4, <1>5, <1>6 DEF AppNext

(* What the host may do next stays a Boolean.                              *)
LEMMA HostTypesStep ==
  ASSUME mayContinue \in BOOLEAN, [AppNext]_vars
  PROVE  mayContinue' \in BOOLEAN
<1>1. \A r : MayContinueAfter(r) \in BOOLEAN
  BY Zenon DEF MayContinueAfter
<1>2. ASSUME NEW r, AnswerAtOnce(r) \/ Answer(r)
      PROVE  mayContinue' \in BOOLEAN
  BY <1>1, <1>2 DEF AnswerAtOnce, Answer
<1>3. CASE QuietCommand
  BY <1>2, <1>3 DEF QuietCommand
<1>4. CASE Launch \/ Stop \/ \E path \in Paths : HandleGetPublicKeyConfirm(path)
  BY <1>4 DEF Launch, Stop, ForgetMemory, HandleGetPublicKeyConfirm
<1>5. CASE \/ \E path \in Paths, p2 \in BOOLEAN : HandleSignFirst(path, p2)
           \/ \E p2 \in BOOLEAN : HandleSignMore(p2)
  BY <1>5 DEF HandleSignFirst, HandleSignMore
<1>6. CASE Work
  <2>1. UNCHANGED hostVars \/ \E r : Answer(r)
    BY <1>6
    DEF Work, HandleSignRefuse, HandleSignParse, ParseField, ShowAction, ShowMultiple,
        AcknowledgeBlock, ReportFault, ParserAsserts, SignTransaction
  <2> QED
    BY <1>2, <2>1 DEF hostVars
<1>7. CASE Decide
  <2>1. UNCHANGED hostVars \/ \E r : Answer(r)
    BY <1>7
    DEF Decide, user_action_address_ok, user_action_address_cancel, AcceptLastAction,
        user_action_sign_flow_ok, user_action_tx_cancel
  <2> QED
    BY <1>2, <2>1 DEF hostVars
<1>8. CASE Navigate \/ toogle_data_allowed \/ UNCHANGED vars
  BY <1>8 DEF Navigate, toogle_data_allowed, vars, appVars, hostVars
<1> QED
  BY <1>3, <1>4, <1>5, <1>6, <1>7, <1>8, AppSteps

LEMMA PathTypesStep ==
  ASSUME PathTypesOK, [AppNext]_vars
  PROVE  PathTypesOK'
<1> USE DEF PathTypesOK, AnyPath
<1>1. CASE Launch \/ Stop
  BY <1>1 DEF Launch, Stop, ForgetMemory, NoReply, StatusOnly, Reply
<1>2. CASE Command
  <2>1. CASE \/ \E path \in Paths : HandleGetPublicKeyConfirm(path)
             \/ \E path \in Paths, p2 \in BOOLEAN : HandleSignFirst(path, p2)
             \/ \E p2 \in BOOLEAN : HandleSignMore(p2)
    BY <2>1
    DEF HandleGetPublicKeyConfirm, HandleSignFirst, HandleSignMore, sessionVars, NoReply,
        StatusOnly, Reply
  <2>2. ASSUME NEW r, AnswerAtOnce(r), r.path \in Paths \cup {NoPath},
               UNCHANGED shownAddress,
               tmpCtx' \in [holds : {"none", "publicKey", "transaction"}, path : AnyPath]
        PROVE  PathTypesOK'
    BY <2>2 DEF AnswerAtOnce, sessionVars
  <2>3. \A ins, sw, data : \A path \in Paths \cup {NoPath} :
           Reply(ins, sw, data, path).path \in Paths \cup {NoPath}
    BY DEF Reply
  <2>4. CASE \/ \E sw \in {"6E00", "6D00", "6982"} : RefuseCommand(sw)
             \/ HandleGetAppConfiguration
             \/ \E sw \in {"6A80", "6B00"} : RefuseGetPublicKey(sw)
             \/ IoException \/ HandleSignBadP1
    BY <2>2, <2>3, <2>4
    DEF RefuseCommand, HandleGetAppConfiguration, RefuseGetPublicKey, IoException,
        HandleSignBadP1, StatusOnly
  <2>5. CASE (\E path \in Paths : HandleGetPublicKey(path)) \/ HandleSignBadPath
    BY <2>2, <2>3, <2>5 DEF HandleGetPublicKey, HandleSignBadPath, StatusOnly
  <2> QED
    BY <1>2, <2>1, <2>4, <2>5 DEF Command
<1>3. ASSUME NEW r, Answer(r), r.path \in AnyPath,
             UNCHANGED <<tmpCtx, givenPath>>, shownAddress' \in {shownAddress, NoPath}
      PROVE  PathTypesOK'
  BY <1>3 DEF Answer
<1>4. \A ins, sw : StatusOnly(ins, sw).path \in AnyPath
  BY DEF StatusOnly, Reply
<1>5. SigningPath \in AnyPath
      /\ (IF tmpCtx.holds = "publicKey" THEN tmpCtx.path ELSE Garbage) \in AnyPath
  BY DEF SigningPath
<1>6. \A ins, sw, data : \A path \in AnyPath : Reply(ins, sw, data, path).path \in AnyPath
  BY DEF Reply
<1>7. CASE Work
  <2>1. CASE HandleSignRefuse \/ AcknowledgeBlock \/ ReportFault
    BY <2>1, <1>3, <1>4 DEF HandleSignRefuse, AcknowledgeBlock, ReportFault, sessionVars
  <2>2. CASE SignTransaction
    BY <2>2, <1>3, <1>5, <1>6 DEF SignTransaction
  <2>3. CASE (\E n \in 0..MaxFields : HandleSignParse(n)) \/ ParseField \/ ShowAction
             \/ ShowMultiple \/ ParserAsserts
    BY <2>3
    DEF HandleSignParse, ParseField, ShowAction, ShowMultiple, ParserAsserts, sessionVars, hostVars
  <2> QED
    BY <1>7, <2>1, <2>2, <2>3 DEF Work
<1>8. CASE Decide
  <2>1. CASE user_action_address_ok
    BY <2>1, <1>3, <1>5, <1>6 DEF user_action_address_ok, sessionVars
  <2>2. CASE user_action_address_cancel \/ user_action_tx_cancel
    BY <2>2, <1>3, <1>4 DEF user_action_address_cancel, user_action_tx_cancel, sessionVars
  <2>3. CASE AcceptLastAction \/ user_action_sign_flow_ok
    BY <2>3 DEF AcceptLastAction, user_action_sign_flow_ok, sessionVars, hostVars
  <2> QED
    BY <1>8, <2>1, <2>2, <2>3 DEF Decide
<1>9. CASE Navigate \/ toogle_data_allowed \/ UNCHANGED vars
  BY <1>9 DEF Navigate, toogle_data_allowed, vars, appVars, sessionVars, hostVars
<1> QED
  BY <1>1, <1>2, <1>7, <1>8, <1>9 DEF AppNext

LEMMA LoopTypesStep ==
  ASSUME LoopTypesOK, [AppNext]_vars
  PROVE  LoopTypesOK'
<1> USE AppAssumption DEF LoopTypesOK, Screens, ReviewScreens
<1>1. CASE Launch \/ Stop
  BY <1>1 DEF Launch, Stop, ForgetMemory
<1>2. CASE Command
  BY <1>2
  DEF Command, RefuseCommand, HandleGetAppConfiguration, RefuseGetPublicKey,
      HandleGetPublicKey, HandleGetPublicKeyConfirm, IoException, HandleSignBadPath,
      HandleSignBadP1, HandleSignFirst, HandleSignMore, AnswerAtOnce, sessionVars
<1>3. \A b : SignDoneScreen(b) \in Screens /\ ActionScreen \in Screens
            /\ PublicKeyDoneScreen \in Screens
  BY DEF SignDoneScreen, ActionScreen, PublicKeyDoneScreen
<1>4. CASE Work
  <2>1. CASE (\E n \in 0..MaxFields : HandleSignParse(n)) \/ ParseField
    BY <2>1 DEF HandleSignParse, ParseField, sessionVars
  <2>2. CASE HandleSignRefuse
    BY <2>2 DEF HandleSignRefuse, Answer, sessionVars
  <2>5. CASE AcknowledgeBlock \/ ReportFault
    <3>1. screen' \in Screens
      BY <2>5, <1>3 DEF AcknowledgeBlock, ReportFault
    <3> QED
      BY <2>5, <3>1 DEF AcknowledgeBlock, ReportFault, Answer, sessionVars
  <2>3. CASE SignTransaction
    <3>1. screen' \in Screens
      BY <2>3, <1>3 DEF SignTransaction
    <3>2. signed' \in 0..2
      BY <2>3 DEF SignTransaction
    <3>3. loop' = "wait" /\ UNCHANGED commandLength
      BY <2>3 DEF SignTransaction, Answer
    <3> QED
      BY <3>1, <3>2, <3>3
  <2>4. CASE ShowAction \/ ShowMultiple \/ ParserAsserts
    BY <2>4, <1>3 DEF ShowAction, ShowMultiple, ParserAsserts, sessionVars
  <2> QED
    BY <1>4, <2>1, <2>2, <2>3, <2>4, <2>5 DEF Work
<1>5. CASE Decide
  <2>1. CASE user_action_address_ok \/ user_action_address_cancel \/ user_action_tx_cancel
    BY <2>1, <1>3
    DEF user_action_address_ok, user_action_address_cancel, user_action_tx_cancel, Answer,
        sessionVars
  <2>2. CASE AcceptLastAction \/ user_action_sign_flow_ok
    BY <2>2 DEF AcceptLastAction, user_action_sign_flow_ok, sessionVars
  <2> QED
    BY <1>5, <2>1, <2>2 DEF Decide
<1>6. CASE Navigate
  BY <1>6 DEF Navigate, sessionVars
<1>7. CASE toogle_data_allowed
  <2>1. UNCHANGED <<loop, commandLength, screen, signed>>
    BY <1>7, Zenon DEF toogle_data_allowed, sessionVars
  <2> QED
    BY <2>1
<1>8. CASE UNCHANGED vars
  BY <1>8 DEF vars, appVars, sessionVars
<1> QED
  BY <1>1, <1>2, <1>4, <1>5, <1>6, <1>7, <1>8 DEF AppNext

(* Every variable of the application keeps its type, for any host.         *)
THEOREM AppTypes == AppSpec => []AppTypeOK
<1> DEFINE Types == FlagTypesOK /\ PathTypesOK /\ LoopTypesOK /\ mayContinue \in BOOLEAN
<1>1. AppInit => Types
  <2> SUFFICES ASSUME AppInit PROVE Types
    OBVIOUS
  <2>1. FlagTypesOK
    BY DEF AppInit, FlagTypesOK
  <2>2. PathTypesOK
    BY DEF AppInit, PathTypesOK, AnyPath, NoReply, StatusOnly, Reply
  <2>3. LoopTypesOK
    BY AppAssumption DEF AppInit, LoopTypesOK, Screens
  <2>4. mayContinue \in BOOLEAN
    BY DEF AppInit
  <2> QED
    BY <2>1, <2>2, <2>3, <2>4
<1>2. AppInv /\ Types /\ [AppNext]_vars => Types'
  BY FlagTypesStep, PathTypesStep, LoopTypesStep, HostTypesStep DEF AppInv, AnyHostInv
<1>3. AppInv /\ PromptInv /\ Types => AppTypeOK
  BY DEF AppInv, AnyHostInv, AnswersInv, StorageType, ReviewInv, PromptInv, FlagTypesOK,
         PathTypesOK, LoopTypesOK, AnyPath, AppTypeOK
<1> QED
  BY <1>1, <1>2, <1>3, AppInvariant, PromptInvariant, PTL DEF AppSpec
----------------------------------------------------------------------------
(* The index of the code counts the authorizations that were read as long  *)
(* as there are more of them to come.                                      *)
IndexCountsAuthorizations ==
    state \in {TLV_AUTHORIZATION_ACTOR, TLV_AUTHORIZATION_PERMISSION} =>
        /\ currentAutorizationIndex = authorizationsRead
        /\ authorizationsRead < AuthorizationsOf(currentAutorizationNumber)

AuthorizationsInv ==
    /\ ReviewInv
    /\ authorizationsRead \in Nat
    /\ IndexCountsAuthorizations
    /\ AuthorizationsAsAnnounced

LEMMA AuthorizationFieldInv ==
  ASSUME AuthorizationsInv, AuthorizationsNext, FieldDone
  PROVE  /\ authorizationsRead' \in Nat
         /\ IndexCountsAuthorizations'
         /\ AuthorizationsAsAnnounced'
<1> USE DEF IndexCountsAuthorizations, AuthorizationsAsAnnounced, AuthorizationsOf,
            TLV_ACTION_DATA_SIZE, TLV_CHAIN_ID, TLV_HEADER_DELAY_SEC, TLV_CFA_LIST_SIZE,
            TLV_CONTEXT_FREE_DATA
<1>1. /\ authorizationsRead \in Nat /\ state \in Nat
      /\ currentAutorizationNumber \in Counter /\ currentAutorizationIndex \in Counter
      /\ CounterMod \in Nat /\ CounterMod > 1
      /\ status = "RUNNING" /\ status' = "RUNNING"
  BY VerdictStatus, CounterModAssumption DEF AuthorizationsInv, ReviewInv, ReviewTypeOK
<1>2. authorizationsRead' = IF state = TLV_AUTHORIZATION_LIST_SIZE THEN 0
                            ELSE IF state = TLV_AUTHORIZATION_PERMISSION
                                 THEN authorizationsRead + 1 ELSE authorizationsRead
  BY <1>1 DEF AuthorizationsNext, CountAuthorizations, Completes
<1>3. CASE PlainFieldDone
  <2>1. /\ state' = state + 1
        /\ state \notin {TLV_AUTHORIZATION_LIST_SIZE, TLV_AUTHORIZATION_PERMISSION}
        /\ UNCHANGED <<currentAutorizationIndex, currentAutorizationNumber>>
    BY <1>3
    DEF PlainFieldDone, PlainFields, HashedOnlyFields, HeaderFields, ZeroSizeFields, counterVars
  <2> QED
    BY <1>1, <1>2, <2>1 DEF AuthorizationsInv
<1>4. CASE \/ \E n \in Counter : ActionListSizeDone(n)
           \/ \E k \in BOOLEAN : ActionNameDone(k)
           \/ ActionDataDone
  <2>1. /\ state \notin {TLV_AUTHORIZATION_LIST_SIZE, TLV_AUTHORIZATION_PERMISSION}
        /\ state' \notin {TLV_AUTHORIZATION_ACTOR, TLV_AUTHORIZATION_PERMISSION,
                          TLV_ACTION_DATA_SIZE}
    <3>1. CASE \E n \in Counter : ActionListSizeDone(n)
      BY <3>1 DEF ActionListSizeDone
    <3>2. CASE \E k \in BOOLEAN : ActionNameDone(k)
      BY <3>2 DEF ActionNameDone
    <3>3. CASE ActionDataDone
      BY <3>3 DEF ActionDataDone
    <3> QED
      BY <1>4, <3>1, <3>2, <3>3
  <2> QED
    BY <1>1, <1>2, <2>1
<1>5. CASE \E n \in Counter : AuthorizationListSizeDone(n)
  BY <1>1, <1>2, <1>5 DEF AuthorizationListSizeDone
<1>6. CASE AuthorizationPermissionDone
  <2>1. /\ state = TLV_AUTHORIZATION_PERMISSION
        /\ currentAutorizationIndex = authorizationsRead
        /\ authorizationsRead < AuthorizationsOf(currentAutorizationNumber)
        /\ authorizationsRead' = authorizationsRead + 1
        /\ UNCHANGED currentAutorizationNumber
        /\ currentAutorizationIndex' = (authorizationsRead + 1) % CounterMod
        /\ state' = IF currentAutorizationIndex' # currentAutorizationNumber
                    THEN TLV_AUTHORIZATION_ACTOR ELSE TLV_ACTION_DATA_SIZE
    BY <1>2, <1>6 DEF AuthorizationPermissionDone, AuthorizationsInv
  <2>2. CASE authorizationsRead + 1 < CounterMod
    <3>1. currentAutorizationIndex' = authorizationsRead + 1
      BY <1>1, <2>1, <2>2 DEF Counter
    <3> QED
      BY <1>1, <2>1, <2>2, <3>1
  <2>3. CASE authorizationsRead + 1 = CounterMod
    <3>1. currentAutorizationIndex' = 0
      <4>1. CounterMod % CounterMod = 0
        BY CounterModAssumption
      <4> QED
        BY <2>1, <2>3, <4>1
    <3>2. currentAutorizationNumber = 0
      BY <1>1, <2>1, <2>3 DEF Counter
    <3> QED
      BY <1>1, <2>1, <2>3, <3>1, <3>2
  <2>4. authorizationsRead + 1 <= CounterMod
    BY <1>1, <2>1 DEF Counter
  <2> QED
    BY <1>1, <2>2, <2>3, <2>4
<1> QED
  BY <1>3, <1>4, <1>5, <1>6 DEF FieldDone

LEMMA AuthorizationsStep ==
  ASSUME AuthorizationsInv, [AuthorizationsNext]_authorizationVars
  PROVE  AuthorizationsInv'
<1> USE DEF IndexCountsAuthorizations, AuthorizationsAsAnnounced, TLV_ACTION_DATA_SIZE,
            TLV_CHAIN_ID
<1>1. ReviewInv'
  BY ReviewStepInv DEF AuthorizationsInv, AuthorizationsNext, authorizationVars
<1>2. CASE AuthorizationsNext /\ FieldDone
  BY <1>1, <1>2, AuthorizationFieldInv DEF AuthorizationsInv
<1>3. CASE AuthorizationsNext /\ ~FieldDone
  <2>1. status = "RUNNING" => status' # "RUNNING"
    BY <1>3, VerdictStatus
    DEF AuthorizationsNext, ReviewNext, Relaunch, InitTxContext, ClearContext, ParseTx,
        parserStatus_e
  <2>2. UNCHANGED authorizationsRead
    BY <1>3, <2>1 DEF AuthorizationsNext, CountAuthorizations, Completes
  <2>3. \/ state' \in {TLV_NONE, TLV_CHAIN_ID}
        \/ UNCHANGED <<state, currentAutorizationIndex, currentAutorizationNumber>>
    BY <1>3
    DEF AuthorizationsNext, ReviewNext, Relaunch, InitTxContext, ParseTx, ReturnConfirm,
        ReturnActionReady, ReturnFinished, ReturnProcessing, ReturnFault, AssertFails,
        Verdict, counterVars
  <2> QED
    BY <1>1, <2>2, <2>3 DEF AuthorizationsInv, AuthorizationsOf
<1>4. CASE UNCHANGED authorizationVars
  BY <1>1, <1>4 DEF authorizationVars, reviewVars, counterVars, AuthorizationsInv, AuthorizationsOf
<1> QED
  BY <1>2, <1>3, <1>4

(* The data of an action follows as many authorizations as its list has    *)
(* announced, and 2^32 of them after a list announced as empty.            *)
THEOREM AuthorizationsAreCounted == AuthorizationsSpec => []AuthorizationsAsAnnounced
<1>1. AuthorizationsInit => AuthorizationsInv
  BY ReviewInitInv
  DEF AuthorizationsInit, ReviewInit, AuthorizationsInv, IndexCountsAuthorizations,
      AuthorizationsAsAnnounced, TLV_ACTION_DATA_SIZE
<1>2. AuthorizationsInv /\ [AuthorizationsNext]_authorizationVars => AuthorizationsInv'
  BY AuthorizationsStep
<1>3. AuthorizationsInv => AuthorizationsAsAnnounced
  BY DEF AuthorizationsInv
<1> QED
  BY <1>1, <1>2, <1>3, PTL DEF AuthorizationsSpec
=============================================================================
