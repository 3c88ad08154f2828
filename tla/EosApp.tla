------------------------------- MODULE EosApp -------------------------------
(***************************************************************************)
(* The application of src/main.c around the stream parser: the command     *)
(* loop, the handlers of the three instructions, the context they share    *)
(* through the union tmpCtx, the setting kept in flash, the screens of     *)
(* src/ui_bagl.c (two buttons) or src/ui_nbgl.c (touch screen), the user   *)
(* who answers them and the host who sends the commands.                   *)
(*                                                                         *)
(* The parser is EosReview; every verdict is one step together with what   *)
(* the caller of parseTx does with it.  A block of transaction bytes is    *)
(* represented by the number of fields it completes.                       *)
(***************************************************************************)
EXTENDS EosReview

CONSTANTS
    Paths,          \* BIP 32 paths a command may carry
    Garbage,        \* what reading the union through the wrong member yields
    NoPath,         \* no path
    Builds,         \* the user interfaces the program is built with
    HostConforms,   \* the host continues only a transaction it may continue
    MaxFields       \* bound: fields that one block completes

ASSUME AppAssumption ==
    /\ Garbage \notin Paths /\ NoPath \notin Paths /\ Garbage # NoPath
    /\ Builds \subseteq {"bagl", "nbgl"}
    /\ HostConforms \in BOOLEAN
    /\ MaxFields \in Nat

VARIABLES
    Ui,             \* the user interface of this build, which never changes
    loop,           \* where app_main is
    p2Valid,        \* the P2 byte of the SIGN command being handled is zero
    unanswered,     \* a command has been received and not yet answered
    commandLength,  \* fields the unread part of the block still completes
    tmpCtx,         \* the union of publicKeyContext and transactionContext
    storage,        \* N_storage, in flash
    screen,         \* what is displayed
    \* what the host knows
    lastReply,      \* the answer sent to the last command received
    mayContinue,    \* its last SIGN command was answered 9000 and no signature
    \* history of the transaction since initTxContext
    givenPath,      \* the path the SIGN command came with
    approved,       \* actions the user accepted
    cancelled,      \* reviews of an action that the user cancelled
    warned,         \* the user accepted the number of actions
    signPrompted,   \* the last thing the user accepted was "Sign transaction"
    refused,        \* the user cancelled
    signed,         \* signatures made: none, one, or more (2)
    \* history of the program
    chosen,         \* the setting the user last chose
    shownAddress    \* the path whose address is on the screen

hostVars == <<lastReply, mayContinue>>
sessionVars == <<givenPath, approved, cancelled, warned, signPrompted, refused, signed>>
appVars == <<Ui, loop, p2Valid, unanswered, commandLength, tmpCtx, storage, screen,
             hostVars, sessionVars, chosen, shownAddress>>
vars == <<reviewVars, appVars>>

(* The status word of an answer to instruction ins, and the key, signature *)
(* or configuration it carries, with the path this was derived from.       *)
Reply(ins, sw, data, path) == [ins |-> ins, sw |-> sw, data |-> data, path |-> path]
StatusOnly(ins, sw) == Reply(ins, sw, "none", NoPath)
NoReply == StatusOnly("none", "none")

(* What an answer tells a host that continues only accepted transactions:  *)
(* commands other than SIGN may come between two blocks.                   *)
MayContinueAfter(reply) ==
    IF reply.ins = "SIGN" THEN reply.sw = "9000" /\ reply.data = "none" ELSE mayContinue

ReviewScreens == {"address", "multi", "review", "reviewSign", "finish"}
Screens == ReviewScreens \cup {"off", "home", "settings", "waiting", "status"}

----------------------------------------------------------------------------
(* The screens.                                                            *)

(* ui_display_single_action_sign_flow.  The page that asks for the         *)
(* signature belongs to the last action: on bagl it replaces "Accept &     *)
(* review next", on nbgl it follows the action unless there is only one.   *)
LastActionEarly == IF Ui = "bagl" THEN currentActionIndex + 1 >= currentActionNumber
                   ELSE currentActionNumber >= 1
LastAction == IF Ui = "bagl" THEN currentActionIndex = currentActionNumber
              ELSE currentActionNumber = 1
ActionScreen == IF LastAction THEN "reviewSign" ELSE "review"

(* ui_display_action_sign_done: nbgl leaves the streaming page up unless   *)
(* the transaction is over.                                                *)
SignDoneScreen(finished) ==
    IF Ui = "bagl" THEN "home" ELSE IF finished THEN "status" ELSE "waiting"

PublicKeyDoneScreen == IF Ui = "bagl" THEN "home" ELSE "status"

----------------------------------------------------------------------------
AppInit ==
    /\ ReviewInit
    /\ Ui \in Builds
    /\ loop = "off" /\ screen = "off"
    /\ p2Valid = TRUE
    /\ unanswered = FALSE
    /\ commandLength = 0
    /\ tmpCtx = [holds |-> "none", path |-> NoPath]
    /\ storage = [initialized |-> FALSE, dataAllowed |-> FALSE]
    /\ lastReply = NoReply /\ mayContinue = FALSE
    /\ givenPath = NoPath /\ approved = 0 /\ cancelled = 0 /\ warned = FALSE
    /\ signPrompted = FALSE /\ refused = FALSE /\ signed = 0
    /\ chosen = FALSE
    /\ shownAddress = NoPath

(* config_init: the setting is written the first time the program runs.    *)
config_init_always(s) == [initialized |-> TRUE, dataAllowed |-> FALSE]
config_init(s) ==
    IF s.initialized THEN s ELSE [initialized |-> TRUE, dataAllowed |-> FALSE]

(* Static storage is lost when the program ends and zero when it starts.   *)
ForgetMemory ==
    /\ p2Valid' = TRUE
    /\ unanswered' = FALSE
    /\ commandLength' = 0
    /\ tmpCtx' = [holds |-> "none", path |-> NoPath]
    /\ lastReply' = NoReply /\ mayContinue' = FALSE
    /\ givenPath' = NoPath /\ approved' = 0 /\ cancelled' = 0 /\ warned' = FALSE
    /\ signPrompted' = FALSE /\ refused' = FALSE /\ signed' = 0
    /\ shownAddress' = NoPath

(* app_main up to its loop.                                                *)
Launch ==
    /\ loop = "off"
    /\ Relaunch
    /\ ForgetMemory
    /\ storage' = config_init(storage)
    /\ loop' = "wait" /\ screen' = "home"
    /\ UNCHANGED <<Ui, chosen>>

(* The program ends: a power cut, the user quits, a CX_ASSERT fails.       *)
Stop ==
    /\ loop # "off"
    /\ Relaunch
    /\ ForgetMemory
    /\ loop' = "off" /\ screen' = "off"
    /\ UNCHANGED <<Ui, storage, chosen>>

----------------------------------------------------------------------------
(* Commands.  io_exchange accepts one only while none is unanswered.       *)

ReceiveWhileUnanswered == loop = "wait"
Receive == loop = "wait" /\ ~unanswered

AnswerAtOnce(reply) ==
    /\ lastReply' = reply /\ mayContinue' = MayContinueAfter(reply)
    /\ UNCHANGED <<Ui, loop, p2Valid, unanswered, commandLength, storage, screen,
                   sessionVars, chosen>>

(* Answers of handleApdu and app_main that concern no handler: a wrong CLA *)
(* (6E00), an unknown INS (6D00), an empty command (6982).                 *)
RefuseCommand(sw) ==
    /\ Receive
    /\ AnswerAtOnce(StatusOnly("none", sw))
    /\ UNCHANGED <<reviewVars, tmpCtx, shownAddress>>

HandleGetAppConfiguration ==
    /\ Receive
    /\ AnswerAtOnce(Reply("CONFIGURATION", "9000",
                          IF storage.dataAllowed THEN "allowed" ELSE "notAllowed", NoPath))
    /\ UNCHANGED <<reviewVars, tmpCtx, shownAddress>>

(* A path length out of range (6A80), or a bad P1 or P2 (6B00).            *)
RefuseGetPublicKey(sw) ==
    /\ Receive
    /\ AnswerAtOnce(StatusOnly("PUBLIC_KEY", sw))
    /\ UNCHANGED <<reviewVars, tmpCtx, shownAddress>>

(* P1_NON_CONFIRM: the key is derived into the union and sent.             *)
HandleGetPublicKey(path) ==
    /\ Receive
    /\ tmpCtx' = [holds |-> "publicKey", path |-> path]
    /\ AnswerAtOnce(Reply("PUBLIC_KEY", "9000", "key", path))
    /\ UNCHANGED <<reviewVars, shownAddress>>

(* P1_CONFIRM: the address is displayed and the answer waits for the user. *)
HandleGetPublicKeyConfirm(path) ==
    /\ Receive
    /\ tmpCtx' = [holds |-> "publicKey", path |-> path]
    /\ screen' = "address"
    /\ shownAddress' = path
    /\ unanswered' = TRUE /\ lastReply' = NoReply
    /\ UNCHANGED <<Ui, reviewVars, loop, p2Valid, commandLength, storage, mayContinue,
                   sessionVars, chosen>>

(* The exception handler of app_main: it reports an exception raised by    *)
(* the transport and changes nothing else.                                 *)
IoException ==
    /\ Receive
    /\ AnswerAtOnce(StatusOnly("none", "exception"))
    /\ UNCHANGED <<reviewVars, tmpCtx, shownAddress>>

----------------------------------------------------------------------------
(* handleSign up to the test of P2.                                        *)

(* P1_FIRST with a path length out of range: the length has been written   *)
(* to the union by then.                                                   *)
HandleSignBadPathAccepted ==
    /\ Receive
    /\ tmpCtx' = [holds |-> "transaction", path |-> Garbage]
    /\ AnswerAtOnce(StatusOnly("SIGN", "9000"))
    /\ UNCHANGED <<reviewVars, shownAddress>>
HandleSignBadPath ==
    /\ Receive
    /\ tmpCtx' = [holds |-> "transaction", path |-> Garbage]
    /\ AnswerAtOnce(StatusOnly("SIGN", "6A80"))
    /\ UNCHANGED <<reviewVars, shownAddress>>

HandleSignBadP1 ==
    /\ Receive
    /\ AnswerAtOnce(StatusOnly("SIGN", "6B00"))
    /\ UNCHANGED <<reviewVars, tmpCtx, shownAddress>>

HandleSignFirst(path, p2) ==
    /\ Receive
    /\ tmpCtx' = [holds |-> "transaction", path |-> path]
    /\ InitTxContext(storage.dataAllowed)
    /\ commandLength' = 0
    /\ loop' = "handleSign" /\ p2Valid' = p2
    /\ unanswered' = TRUE /\ lastReply' = NoReply /\ mayContinue' = FALSE
    /\ givenPath' = path /\ approved' = 0 /\ cancelled' = 0 /\ warned' = FALSE
    /\ signPrompted' = FALSE /\ refused' = FALSE /\ signed' = 0
    /\ UNCHANGED <<Ui, storage, screen, chosen, shownAddress>>

(* P1_MORE.  A conforming host sends it only to continue the transaction   *)
(* whose last block was accepted and not yet answered with a signature;    *)
(* the code does not ask for that.                                         *)
HandleSignMoreRereads(p2) ==
    /\ Receive
    /\ HostConforms => mayContinue
    /\ loop' = "handleSign" /\ p2Valid' = p2
    /\ unanswered' = TRUE /\ lastReply' = NoReply /\ mayContinue' = FALSE
    /\ dataAllowed' = storage.dataAllowed
    /\ UNCHANGED <<Ui, state, actionReady, confirmProcessing, counterVars, known, status,
                   returned, confirmed, commandLength, tmpCtx, storage, screen,
                   sessionVars, chosen, shownAddress>>
HandleSignMore(p2) ==
    /\ Receive
    /\ HostConforms => mayContinue
    /\ loop' = "handleSign" /\ p2Valid' = p2
    /\ unanswered' = TRUE /\ lastReply' = NoReply /\ mayContinue' = FALSE
    /\ UNCHANGED <<Ui, reviewVars, commandLength, tmpCtx, storage, screen, sessionVars,
                   chosen, shownAddress>>

----------------------------------------------------------------------------
(* Answering the pending command.                                          *)

Answer(reply) ==
    /\ lastReply' = reply /\ mayContinue' = MayContinueAfter(reply)
    /\ unanswered' = FALSE
    /\ loop' = "wait"

(* handleSign's early returns after P1: a bad P2, no transaction begun.    *)
HandleSignRefuse ==
    /\ loop = "handleSign"
    /\ \/ ~p2Valid /\ Answer(StatusOnly("SIGN", "6B00"))
       \/ p2Valid /\ state = TLV_NONE /\ Answer(StatusOnly("SIGN", "6985"))
    /\ p2Valid' = TRUE
    /\ UNCHANGED <<Ui, reviewVars, commandLength, tmpCtx, storage, screen,
                   sessionVars, chosen, shownAddress>>

(* parseTx takes the new block, of n fields, unless bytes of an earlier    *)
(* one are left.                                                           *)
HandleSignParse(n) ==
    /\ loop = "handleSign"
    /\ p2Valid /\ state # TLV_NONE
    /\ ParseTx
    /\ commandLength' = IF commandLength = 0 THEN n ELSE commandLength
    /\ loop' = "parse"
    /\ UNCHANGED <<Ui, p2Valid, unanswered, tmpCtx, storage, screen, hostVars,
                   sessionVars, chosen, shownAddress>>

Parsing == loop \in {"parse", "parseUser"}

(* One field of the block is completed.                                    *)
ParseFieldUnderflow ==
    /\ Parsing
    /\ commandLength' = commandLength - 1
    /\ FieldDone
    /\ UNCHANGED <<Ui, loop, p2Valid, unanswered, tmpCtx, storage, screen, hostVars,
                   sessionVars, chosen, shownAddress>>
ParseField ==
    /\ Parsing
    /\ commandLength > 0
    /\ commandLength' = commandLength - 1
    /\ FieldDone
    /\ UNCHANGED <<Ui, loop, p2Valid, unanswered, tmpCtx, storage, screen, hostVars,
                   sessionVars, chosen, shownAddress>>

(* An action is ready: both callers display it and leave the command       *)
(* unanswered.                                                             *)
ShowActionAnswered ==
    /\ Parsing
    /\ ReturnActionReady
    /\ screen' = ActionScreen
    /\ IF loop = "parse" THEN Answer(StatusOnly("SIGN", "9000"))
       ELSE loop' = "wait" /\ UNCHANGED <<unanswered, hostVars>>
    /\ UNCHANGED <<Ui, p2Valid, commandLength, tmpCtx, storage, sessionVars, chosen, shownAddress>>
ShowAction ==
    /\ Parsing
    /\ ReturnActionReady
    /\ screen' = ActionScreen
    /\ loop' = "wait"
    /\ UNCHANGED <<Ui, p2Valid, unanswered, commandLength, tmpCtx, storage, hostVars,
                   sessionVars, chosen, shownAddress>>

(* Several actions follow: handleSign displays how many.                   *)
ShowMultiple ==
    /\ loop = "parse"
    /\ ReturnConfirm
    /\ screen' = "multi"
    /\ loop' = "wait"
    /\ UNCHANGED <<Ui, p2Valid, unanswered, commandLength, tmpCtx, storage, hostVars,
                   sessionVars, chosen, shownAddress>>

(* The block is used up: it is acknowledged.                               *)
AcknowledgeBlockSilently ==
    /\ Parsing
    /\ commandLength = 0
    /\ ReturnProcessing
    /\ IF loop = "parse" THEN Answer(StatusOnly("SIGN", "9000"))
       ELSE loop' = "wait" /\ UNCHANGED <<unanswered, hostVars>>
    /\ screen' = IF loop = "parseUser" THEN SignDoneScreen(FALSE) ELSE screen
    /\ UNCHANGED <<Ui, p2Valid, commandLength, tmpCtx, storage, sessionVars, chosen, shownAddress>>
AcknowledgeBlock ==
    /\ Parsing
    /\ commandLength = 0
    /\ ReturnProcessing
    /\ Answer(StatusOnly("SIGN", "9000"))
    /\ screen' = IF loop = "parseUser" THEN SignDoneScreen(FALSE) ELSE screen
    /\ UNCHANGED <<Ui, p2Valid, commandLength, tmpCtx, storage, sessionVars, chosen, shownAddress>>

(* A fault; in the callback of the user also the default of its switch.    *)
ReportFault ==
    /\ Parsing
    /\ ReturnFault \/ (loop = "parseUser" /\ ReturnConfirm)
    /\ Answer(StatusOnly("SIGN", "6A80"))
    /\ screen' = IF loop = "parseUser" THEN "home" ELSE screen
    /\ UNCHANGED <<Ui, p2Valid, commandLength, tmpCtx, storage, sessionVars, chosen, shownAddress>>

(* A LEDGER_ASSERT of the parser fails.                                    *)
ParserAsserts ==
    /\ Parsing
    /\ AssertFails
    /\ loop' = "off" /\ screen' = "off"
    /\ unanswered' = FALSE
    /\ UNCHANGED <<Ui, p2Valid, commandLength, tmpCtx, storage, hostVars, sessionVars,
                   chosen, shownAddress>>

(* The path sign_hash_and_set_result reads from the union.                 *)
SigningPath == IF tmpCtx.holds = "transaction" THEN tmpCtx.path ELSE Garbage

(* The transaction is complete: the hash is finalised and signed.          *)
SignTransactionUnderReview ==
    /\ Parsing
    /\ ReturnFinished
    /\ Answer(Reply("SIGN", "9000", "signature", SigningPath))
    /\ signed' = IF signed = 0 THEN 1 ELSE 2
    /\ UNCHANGED <<Ui, p2Valid, commandLength, tmpCtx, storage, screen, givenPath, approved,
                   cancelled, warned, signPrompted, refused, chosen, shownAddress>>
SignTransaction ==
    /\ Parsing
    /\ ReturnFinished
    /\ Answer(Reply("SIGN", "9000", "signature", SigningPath))
    /\ signed' = IF signed = 0 THEN 1 ELSE 2
    /\ screen' = IF loop = "parseUser" THEN SignDoneScreen(TRUE) ELSE screen
    /\ UNCHANGED <<Ui, p2Valid, commandLength, tmpCtx, storage, givenPath, approved, cancelled,
                   warned, signPrompted, refused, chosen, shownAddress>>

----------------------------------------------------------------------------
(* The user.                                                               *)

AtScreen(s) == loop = "wait" /\ screen = s

user_action_address_ok ==
    /\ AtScreen("address")
    /\ Answer(Reply("PUBLIC_KEY", "9000", "confirmedKey",
                    IF tmpCtx.holds = "publicKey" THEN tmpCtx.path ELSE Garbage))
    /\ screen' = PublicKeyDoneScreen
    /\ shownAddress' = NoPath
    /\ UNCHANGED <<Ui, reviewVars, p2Valid, commandLength, tmpCtx, storage, sessionVars, chosen>>

user_action_address_cancel ==
    /\ AtScreen("address")
    /\ Answer(StatusOnly("PUBLIC_KEY", "6985"))
    /\ screen' = PublicKeyDoneScreen
    /\ shownAddress' = NoPath
    /\ UNCHANGED <<Ui, reviewVars, p2Valid, commandLength, tmpCtx, storage, sessionVars, chosen>>

(* nbgl: the last of several actions is accepted, which leads to a page    *)
(* that asks for the signature.                                            *)
FinishPageFollows ==
    Ui = "nbgl" /\ screen = "review" /\ currentActionIndex = currentActionNumber

AcceptLastAction ==
    /\ AtScreen("review")
    /\ FinishPageFollows
    /\ screen' = "finish"
    /\ UNCHANGED <<Ui, reviewVars, loop, p2Valid, unanswered, commandLength, tmpCtx, storage,
                   hostVars, sessionVars, chosen, shownAddress>>

(* user_action_sign_flow_ok: the parser runs on with parseTx(NULL, 0).     *)
user_action_sign_flow_ok ==
    /\ \E s \in {"multi", "review", "reviewSign", "finish"} : AtScreen(s)
    /\ ~FinishPageFollows
    /\ ParseTx
    /\ loop' = "parseUser"
    /\ warned' = (warned \/ screen = "multi")
    /\ approved' = IF screen = "multi" THEN approved ELSE approved + 1
    /\ signPrompted' = (screen \in {"reviewSign", "finish"})
    /\ UNCHANGED <<Ui, p2Valid, unanswered, commandLength, tmpCtx, storage, screen, hostVars,
                   givenPath, cancelled, refused, signed, chosen, shownAddress>>

(* user_action_tx_cancel: only the host is told; the context stays.        *)
user_action_tx_cancel_as_success ==
    /\ \E s \in {"multi", "review", "reviewSign", "finish"} : AtScreen(s)
    /\ Answer(StatusOnly("SIGN", "9000"))
    /\ screen' = SignDoneScreen(TRUE)
    /\ refused' = TRUE
    /\ cancelled' = IF screen = "multi" THEN cancelled ELSE cancelled + 1
    /\ UNCHANGED <<Ui, reviewVars, p2Valid, commandLength, tmpCtx, storage, givenPath, approved,
                   warned, signPrompted, signed, chosen, shownAddress>>
user_action_tx_cancel ==
    /\ \E s \in {"multi", "review", "reviewSign", "finish"} : AtScreen(s)
    /\ Answer(StatusOnly("SIGN", "6985"))
    /\ screen' = SignDoneScreen(TRUE)
    /\ refused' = TRUE
    /\ cancelled' = IF screen = "multi" THEN cancelled ELSE cancelled + 1
    /\ UNCHANGED <<Ui, reviewVars, p2Valid, commandLength, tmpCtx, storage, givenPath, approved,
                   warned, signPrompted, signed, chosen, shownAddress>>

(* Moving between the home page and the settings, and nbgl's status page   *)
(* that times out.                                                         *)
Navigate ==
    /\ \/ Ui = "bagl" /\ AtScreen("home") /\ screen' = "settings"
       \/ Ui = "bagl" /\ AtScreen("settings") /\ screen' = "home"
       \/ Ui = "nbgl" /\ AtScreen("status") /\ screen' = "home"
    /\ UNCHANGED <<Ui, reviewVars, loop, p2Valid, unanswered, commandLength, tmpCtx, storage,
                   hostVars, sessionVars, chosen, shownAddress>>

toogle_data_allowed ==
    /\ AtScreen(IF Ui = "bagl" THEN "settings" ELSE "home")
    /\ storage' = [storage EXCEPT !.dataAllowed = ~@]
    /\ chosen' = ~chosen
    /\ UNCHANGED <<Ui, reviewVars, loop, p2Valid, unanswered, commandLength, tmpCtx, screen,
                   hostVars, sessionVars, shownAddress>>

----------------------------------------------------------------------------
Command ==
    \/ \E sw \in {"6E00", "6D00", "6982"} : RefuseCommand(sw)
    \/ HandleGetAppConfiguration
    \/ \E sw \in {"6A80", "6B00"} : RefuseGetPublicKey(sw)
    \/ \E path \in Paths : HandleGetPublicKey(path)
    \/ \E path \in Paths : HandleGetPublicKeyConfirm(path)
    \/ IoException
    \/ HandleSignBadPath
    \/ HandleSignBadP1
    \/ \E path \in Paths, p2 \in BOOLEAN : HandleSignFirst(path, p2)
    \/ \E p2 \in BOOLEAN : HandleSignMore(p2)

(* Steps the program takes by itself once it has a command.                *)
Work ==
    \/ HandleSignRefuse
    \/ \E n \in 0..MaxFields : HandleSignParse(n)
    \/ ParseField
    \/ ShowAction
    \/ ShowMultiple
    \/ AcknowledgeBlock
    \/ ReportFault
    \/ ParserAsserts
    \/ SignTransaction

(* Steps of the user that answer what is displayed.                        *)
Decide ==
    \/ user_action_address_ok
    \/ user_action_address_cancel
    \/ AcceptLastAction
    \/ user_action_sign_flow_ok
    \/ user_action_tx_cancel

AppNext ==
    \/ Launch
    \/ Stop
    \/ Command
    \/ Work
    \/ Decide
    \/ Navigate
    \/ toogle_data_allowed

AppSpec == AppInit /\ [][AppNext]_vars

(* The program runs while it has work to do, and a user who is shown a     *)
(* review answers it at some time.                                         *)
AppFairness == WF_vars(Work) /\ WF_vars(Decide)
----------------------------------------------------------------------------
AppTypeOK ==
    /\ ReviewTypeOK /\ Ui \in Builds
    /\ loop \in {"off", "wait", "handleSign", "parse", "parseUser"}
    /\ p2Valid \in BOOLEAN /\ unanswered \in BOOLEAN
    /\ commandLength \in 0..MaxFields
    /\ tmpCtx \in [holds : {"none", "publicKey", "transaction"},
                   path : Paths \cup {Garbage, NoPath}]
    /\ storage \in [initialized : BOOLEAN, dataAllowed : BOOLEAN]
    /\ screen \in Screens
    /\ lastReply.path \in Paths \cup {Garbage, NoPath} /\ mayContinue \in BOOLEAN
    /\ givenPath \in Paths \cup {NoPath}
    /\ approved \in Nat /\ cancelled \in Nat /\ signed \in 0..2
    /\ warned \in BOOLEAN /\ signPrompted \in BOOLEAN /\ refused \in BOOLEAN
    /\ chosen \in BOOLEAN
    /\ shownAddress \in Paths \cup {NoPath}

(* A command that waits for the user has a review on the screen, a review  *)
(* on the screen belongs to a command that waits, and what it shows is     *)
(* what the parser last handed out.                                        *)
AsyncReplyHasReview ==
    loop = "wait" =>
        /\ unanswered <=> screen \in ReviewScreens
        /\ screen = "multi" => status = "STREAM_CONFIRM_PROCESSING"
        /\ screen \in {"review", "reviewSign", "finish"} => status = "STREAM_ACTION_READY"

(* A transaction is signed only after the user has accepted every one of   *)
(* its actions, and their number if there are several, and only if the     *)
(* user has not cancelled it.                                              *)
SignedOnlyWhatWasApproved ==
    signed > 0 =>
        /\ approved = ActionsOf(currentActionNumber)
        /\ warned <=> currentActionNumber > 1
        /\ ~refused

(* The signature is made with the key of the path that the transaction was *)
(* sent with, although the path is kept in a union with the public key.    *)
SignedWithGivenPath ==
    lastReply.data = "signature" /\ signed > 0 => lastReply.path = givenPath

(* Nothing but a key read between two blocks takes the path away: neither  *)
(* a refused path nor any other command leaves a path of its own in the    *)
(* union for a transaction that is then signed.                            *)
PathLostOnlyToKey ==
    lastReply.data = "signature" /\ tmpCtx.holds = "transaction" => lastReply.path = givenPath

(* A transaction is signed once: its hash, which signing finalises, is not *)
(* finalised a second time.                                                *)
SignedOnce == signed <= 1

(* A signature ends the reviews: nothing of a signed transaction is on the *)
(* screen or left for the callback of the user to parse, so a second       *)
(* signature can only come from a further block of the host.               *)
SignedHasNoReview ==
    signed > 0 =>
        /\ loop # "parseUser"
        /\ loop = "wait" => screen \notin {"multi", "review", "reviewSign", "finish"}

(* Whatever the host sends, no action gets past its review: when a         *)
(* transaction is signed, the user has accepted or cancelled every one of  *)
(* its actions, each once.                                                 *)
EveryActionWasAnswered ==
    signed > 0 => approved + cancelled = ActionsOf(currentActionNumber)

(* The page with the words "Sign transaction" is the last one accepted     *)
(* before the signature, and no action is shown after it (in a transaction *)
(* that announces at least one action).                                    *)
SignPromptIsFinal ==
    currentActionNumber > 0 =>
        /\ signed > 0 => signPrompted
        /\ signPrompted => currentActionIndex = currentActionNumber

(* The key that is sent once the user has confirmed an address is the key  *)
(* whose address was on the screen.                                        *)
AddressShownIsAddressSent ==
    screen = "address" => tmpCtx = [holds |-> "publicKey", path |-> shownAddress]

(* The setting in flash is the one the user last chose, across restarts at *)
(* any point.                                                              *)
SettingSurvives == loop # "off" => storage.dataAllowed = chosen

(* Whether actions that are not known may be signed is decided once per    *)
(* transaction: initTxContext copies the setting in flash, and toggling it *)
(* between two blocks changes nothing until the next transaction begins.   *)
OneSettingPerTransaction ==
    [][dataAllowed' # dataAllowed =>
          \/ state' = TLV_NONE
          \/ /\ state' = TLV_CHAIN_ID /\ givenPath' # NoPath
             /\ returned' = 0 /\ approved' = 0
             /\ dataAllowed' = storage.dataAllowed /\ UNCHANGED storage]_vars

(* Every command is answered, or the program has ended.                    *)
EveryCommandAnswered == unanswered ~> ~unanswered
=============================================================================
