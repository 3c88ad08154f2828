------------------------------ MODULE EosStream ------------------------------
(***************************************************************************)
(* The stream parser of src/eos_stream.c, byte by byte.  A host cuts the   *)
(* TLV stream of a transaction into blocks of any size and sends the next  *)
(* one when the last has been acknowledged; a user lets the parser go on   *)
(* after each review.  What the parser hashes, what it hands out for       *)
(* review and the verdict it ends with must not depend on the blocks.      *)
(*                                                                         *)
(* EosReview is what this module promises; the mapping is at its end.      *)
(***************************************************************************)
EXTENDS EosTypes, EosActions

CONSTANTS
    Transactions,       \* the streams a host may send, see TransactionOK
    BlockSizes,         \* bound: bytes of transaction in one command; the last may have fewer
    CounterMod,         \* 2^32 in the code, see EosReview
    ActionDataSize      \* sizeof(context->actionDataBuffer), 512 in the code

SizeBufferSize == 12    \* sizeof(context->sizeBuffer)

(* A stream comes with what its sender means by it: the values of its      *)
(* fields, the actions to be reviewed, the setting of the device, and the  *)
(* verdict it is to end with.                                              *)
TransactionOK(tx) ==
    /\ tx.bytes \in Seq(Byte) /\ tx.values \in Seq(Byte)
    /\ tx.actions \in Seq([contract : Seq(0..31), action : Seq(0..31),
                           index : Nat, number : Nat, arguments : Nat,
                           data : Seq(Byte), checksum : Seq(Byte)])
    /\ tx.dataAllowed \in BOOLEAN
    /\ tx.verdict \in {"STREAM_FINISHED", "STREAM_FAULT", "STREAM_PROCESSING", "ASSERT"}

ASSUME StreamAssumption ==
    /\ \A tx \in Transactions : TransactionOK(tx)
    /\ BlockSizes \subseteq Nat \ {0}
    /\ CounterMod \in Nat /\ CounterMod > 1
    /\ ActionDataSize \in Nat /\ ActionDataSize >= 2 * NameSize + 5 \* see EosLemmas

VARIABLES
    tx,             \* the transaction being sent
    sent,           \* how many of its bytes the host has sent
    status,         \* what parseTx is doing or has returned
    \* txProcessingContext_t
    state, actionReady, confirmProcessing, processingField,
    currentFieldLength, currentFieldPos,
    currentActionIndex, currentActionNumber,
    currentAutorizationIndex, currentAutorizationNumber,
    currentActionDataBufferLength,
    tlvBuffer,      \* the bytes of the header so far: tlvBufferPos is its length
    workBuffer,     \* the unread bytes of the block: commandLength is its length
    memory,         \* contractName, contractActionName and sizeBuffer, contiguous
    actionDataBuffer,
    dataAllowed,
    dataChecksum,
    sha256,         \* the bytes hashed by each of the two hash contexts
    dataSha256,
    content,        \* txProcessingContent_t
    shown,          \* history: what was handed out for review
    confirmed       \* history: the number of actions was handed out

flagVars == <<actionReady, confirmProcessing>>
counterVars == <<currentActionIndex, currentActionNumber,
                 currentAutorizationIndex, currentAutorizationNumber>>
dataVars == <<actionDataBuffer, currentActionDataBufferLength, dataChecksum, content>>
hostVars == <<tx, sent, dataAllowed>>
historyVars == <<shown, confirmed>>
vars == <<hostVars, status, state, flagVars, processingField, currentFieldLength,
          currentFieldPos, counterVars, tlvBuffer, workBuffer, memory, dataVars,
          sha256, dataSha256, historyVars>>

Zeros(n) == [i \in 1..n |-> 0]

(* memmove of bytes to offset `at' of a buffer.                            *)
Overwrite(buffer, at, bytes) ==
    [i \in 1..Len(buffer) |->
        IF at < i /\ i <= at + Len(bytes) THEN bytes[i - at] ELSE buffer[i]]

contractName == SubSeq(memory, 1, NameSize)
contractActionName == SubSeq(memory, NameSize + 1, 2 * NameSize)
sizeBuffer == SubSeq(memory, 2 * NameSize + 1, 2 * NameSize + SizeBufferSize)
ContractAt == 0
ActionAt == NameSize
SizeAt == 2 * NameSize

Known == isKnownAction(contractName, contractActionName)

----------------------------------------------------------------------------
NoContent == [contract |-> <<>>, action |-> <<>>, argumentCount |-> 0]

(* A context of zeros, waiting for transaction t.                          *)
ZeroContext(t) ==
    /\ tx' = t /\ sent' = 0
    /\ status' = "IDLE"
    /\ actionReady' = FALSE /\ confirmProcessing' = FALSE /\ processingField' = FALSE
    /\ currentFieldLength' = 0 /\ currentFieldPos' = 0
    /\ currentActionIndex' = 0 /\ currentActionNumber' = 0
    /\ currentAutorizationIndex' = 0 /\ currentAutorizationNumber' = 0
    /\ currentActionDataBufferLength' = 0
    /\ tlvBuffer' = <<>> /\ workBuffer' = <<>>
    /\ memory' = Zeros(2 * NameSize + SizeBufferSize)
    /\ actionDataBuffer' = Zeros(ActionDataSize)
    /\ dataChecksum' = <<>>
    /\ sha256' = <<>> /\ dataSha256' = <<>>
    /\ shown' = <<>> /\ confirmed' = FALSE

(* initTxContext; txContent is not part of the context and stays.          *)
InitTxContext(t) ==
    /\ ZeroContext(t)
    /\ state' = TLV_CHAIN_ID
    /\ dataAllowed' = t.dataAllowed
    /\ UNCHANGED content

(* The program is started again after a failed assertion.                  *)
Relaunch(t) ==
    /\ status = "ASSERT"
    /\ ZeroContext(t)
    /\ state' = TLV_NONE
    /\ dataAllowed' = FALSE
    /\ content' = NoContent

StreamInit ==
    /\ tx \in Transactions /\ sent = 0 /\ dataAllowed = FALSE
    /\ status = "IDLE"
    /\ state = TLV_NONE
    /\ actionReady = FALSE /\ confirmProcessing = FALSE /\ processingField = FALSE
    /\ currentFieldLength = 0 /\ currentFieldPos = 0
    /\ currentActionIndex = 0 /\ currentActionNumber = 0
    /\ currentAutorizationIndex = 0 /\ currentAutorizationNumber = 0
    /\ currentActionDataBufferLength = 0
    /\ tlvBuffer = <<>> /\ workBuffer = <<>>
    /\ memory = Zeros(2 * NameSize + SizeBufferSize)
    /\ actionDataBuffer = Zeros(ActionDataSize)
    /\ dataChecksum = <<>>
    /\ sha256 = <<>> /\ dataSha256 = <<>>
    /\ content = NoContent
    /\ shown = <<>> /\ confirmed = FALSE

(* The transaction has got its verdict, or the host has no more of it.     *)
Ended ==
    \/ status \in {"STREAM_FINISHED", "STREAM_FAULT", "ASSERT"}
    \/ status = "STREAM_PROCESSING" /\ sent = Len(tx.bytes)

StartTransaction(t) ==
    /\ state = TLV_NONE \/ (Ended /\ status # "ASSERT")
    /\ InitTxContext(t)

Unparsed == <<hostVars, state, flagVars, processingField, currentFieldLength, currentFieldPos,
              counterVars, tlvBuffer, memory, dataVars, sha256, dataSha256, historyVars>>

(* parseTx with the next n bytes, or with what is left of the stream.      *)
SendBlockDropsHeader(n) ==
    /\ state # TLV_NONE
    /\ status \in {"IDLE", "STREAM_PROCESSING"}
    /\ sent < Len(tx.bytes)
    /\ sent' = IF sent + n < Len(tx.bytes) THEN sent + n ELSE Len(tx.bytes)
    /\ workBuffer' = SubSeq(tx.bytes, sent + 1, sent')
    /\ status' = "LOOP"
    /\ tlvBuffer' = <<>>
    /\ UNCHANGED <<tx, dataAllowed, state, flagVars, processingField, currentFieldLength,
                   currentFieldPos, counterVars, memory, dataVars, sha256,
                   dataSha256, historyVars>>
SendBlock(n) ==
    /\ state # TLV_NONE
    /\ status \in {"IDLE", "STREAM_PROCESSING"}
    /\ sent < Len(tx.bytes)
    /\ sent' = IF sent + n < Len(tx.bytes) THEN sent + n ELSE Len(tx.bytes)
    /\ workBuffer' = SubSeq(tx.bytes, sent + 1, sent')
    /\ status' = "LOOP"
    /\ UNCHANGED <<tx, dataAllowed, state, flagVars, processingField, currentFieldLength,
                   currentFieldPos, counterVars, tlvBuffer, memory, dataVars, sha256,
                   dataSha256, historyVars>>

(* parseTx(NULL, 0) from the user's callback: the unread bytes remain.     *)
UserContinues ==
    /\ status \in {"STREAM_CONFIRM_PROCESSING", "STREAM_ACTION_READY"}
    /\ status' = "LOOP"
    /\ UNCHANGED <<workBuffer, Unparsed>>

----------------------------------------------------------------------------
(* The head of the loop of processTxInternal.                              *)

LoopConfirmForever ==
    /\ status = "LOOP"
    /\ confirmProcessing
    /\ confirmed' = TRUE
    /\ status' = "STREAM_CONFIRM_PROCESSING"
    /\ UNCHANGED <<hostVars, state, flagVars, processingField, currentFieldLength,
                   currentFieldPos, counterVars, tlvBuffer, workBuffer, memory, dataVars,
                   sha256, dataSha256, shown>>
LoopConfirm ==
    /\ status = "LOOP"
    /\ confirmProcessing
    /\ confirmProcessing' = FALSE
    /\ confirmed' = TRUE
    /\ status' = "STREAM_CONFIRM_PROCESSING"
    /\ UNCHANGED <<hostVars, state, actionReady, processingField, currentFieldLength,
                   currentFieldPos, counterVars, tlvBuffer, workBuffer, memory, dataVars,
                   sha256, dataSha256, shown>>

(* What the review displays of the action: its names, its place in the     *)
(* list, and its data or, for an unknown action, the checksum of it.       *)
Reviewed ==
    [contract |-> content.contract, action |-> content.action,
     index |-> currentActionIndex, number |-> currentActionNumber,
     arguments |-> content.argumentCount,
     data |-> IF Known THEN SubSeq(actionDataBuffer, 1, currentActionDataBufferLength) ELSE <<>>,
     checksum |-> IF Known THEN <<>> ELSE dataChecksum]

LoopActionReady ==
    /\ status = "LOOP"
    /\ ~confirmProcessing /\ actionReady
    /\ actionReady' = FALSE
    /\ shown' = Append(shown, Reviewed)
    /\ status' = "STREAM_ACTION_READY"
    /\ UNCHANGED <<hostVars, state, confirmProcessing, processingField, currentFieldLength,
                   currentFieldPos, counterVars, tlvBuffer, workBuffer, memory, dataVars,
                   sha256, dataSha256, confirmed>>

LoopReads == status = "LOOP" /\ ~confirmProcessing /\ ~actionReady

LoopReturn ==
    /\ LoopReads
    /\ \/ state = TLV_DONE /\ status' = "STREAM_FINISHED"
       \/ state # TLV_DONE /\ workBuffer = <<>> /\ status' = "STREAM_PROCESSING"
    /\ UNCHANGED <<workBuffer, Unparsed>>

(* One byte of a TLV header.  Once it is decoded the switch follows in the *)
(* same iteration, even if the block is used up.                           *)
LoopTlvByte ==
    /\ LoopReads
    /\ state # TLV_DONE /\ workBuffer # <<>>
    /\ ~processingField
    /\ workBuffer' = Tail(workBuffer)
    /\ LET header == Append(tlvBuffer, Head(workBuffer))
           tlv == tlvTryDecode(header)
       IN  IF tlv.decoded
           THEN /\ status' = "SWITCH"
                /\ currentFieldLength' = tlv.length
                /\ currentFieldPos' = 0
                /\ tlvBuffer' = <<>>
                /\ processingField' = TRUE
           ELSE /\ status' = IF ~tlv.valid \/ Len(header) = TlvBufferSize
                             THEN "STREAM_FAULT" ELSE "LOOP"
                /\ tlvBuffer' = header
                /\ UNCHANGED <<currentFieldLength, currentFieldPos, processingField>>
    /\ UNCHANGED <<hostVars, state, flagVars, counterVars, memory, dataVars, sha256,
                   dataSha256, historyVars>>

(* A field that an earlier block has begun.                                *)
LoopContinueField ==
    /\ LoopReads
    /\ state # TLV_DONE /\ workBuffer # <<>>
    /\ processingField
    /\ status' = "SWITCH"
    /\ UNCHANGED <<workBuffer, Unparsed>>

----------------------------------------------------------------------------
(* The switch: one chunk of the current field, all of it if the block has  *)
(* it.  Every case of the switch hashes the chunk and moves past it.       *)

FieldLeft == currentFieldLength - currentFieldPos
Chunk == SubSeq(workBuffer, 1, IF Len(workBuffer) < FieldLeft THEN Len(workBuffer) ELSE FieldLeft)
Complete == currentFieldPos + Len(Chunk) = currentFieldLength

TakeChunkSkipsZeroSizes ==
    /\ status = "SWITCH"
    /\ workBuffer' = SubSeq(workBuffer, Len(Chunk) + 1, Len(workBuffer))
    /\ currentFieldPos' = currentFieldPos + Len(Chunk)
    /\ sha256' = IF state \in ZeroSizeFields THEN sha256 ELSE sha256 \o Chunk
    /\ status' = "LOOP"
    /\ UNCHANGED <<hostVars, currentFieldLength, tlvBuffer, historyVars>>
TakeChunk ==
    /\ status = "SWITCH"
    /\ workBuffer' = SubSeq(workBuffer, Len(Chunk) + 1, Len(workBuffer))
    /\ currentFieldPos' = currentFieldPos + Len(Chunk)
    /\ sha256' = sha256 \o Chunk
    /\ status' = "LOOP"
    /\ UNCHANGED <<hostVars, currentFieldLength, tlvBuffer, historyVars>>

MoveTo(next) ==
    /\ state' = next
    /\ processingField' = FALSE

StayInField == UNCHANGED <<state, processingField>>

(* The memory of names and sizes with the chunk stored at a member, and    *)
(* the size read from it once the field is complete.  A member may be      *)
(* filled past its end, as every one of them is checked against the size   *)
(* of sizeBuffer.                                                          *)
StoredAtStart(at) == Overwrite(memory, at, Chunk)
Stored(at) == Overwrite(memory, at + currentFieldPos, Chunk)
SizeRead ==
    unpack_variant32(SubSeq(Stored(SizeAt), SizeAt + 1, SizeAt + SizeBufferSize),
                     currentFieldLength + 1, CounterMod).value
SizeCleared == Overwrite(memory, SizeAt, Zeros(SizeBufferSize))

BufferedFields ==
    ZeroSizeFields \cup {TLV_ACTION_LIST_SIZE, TLV_AUTHORIZATION_LIST_SIZE,
                         TLV_ACTION_ACCOUNT, TLV_ACTION_NAME}
DataStored == Overwrite(actionDataBuffer, currentFieldPos, Chunk)
Arguments ==
    ArgumentCount(contractActionName, DataStored, currentFieldLength, CounterMod)

(* The assertions of the switch: a chunk that does not fit sizeBuffer, a   *)
(* list that has to be empty and is not, data that does not fit or that    *)
(* the action's own checks refuse.                                         *)
FieldAssertsIgnorePosition ==
    \/ state \in BufferedFields /\ Len(Chunk) > SizeBufferSize
    \/ state \in ZeroSizeFields /\ Complete /\ SizeRead # 0
    \/ /\ state = TLV_ACTION_DATA /\ Known
       /\ currentFieldLength > ActionDataSize - 1 \/ (Complete /\ Arguments.asserts)
FieldAsserts ==
    \/ state \in BufferedFields /\ Len(Chunk) > SizeBufferSize - currentFieldPos
    \/ state \in ZeroSizeFields /\ Complete /\ SizeRead # 0
    \/ /\ state = TLV_ACTION_DATA /\ Known
       /\ currentFieldLength > ActionDataSize - 1 \/ (Complete /\ Arguments.asserts)

SwitchAsserts ==
    /\ status = "SWITCH"
    /\ FieldAsserts
    /\ status' = "ASSERT"
    /\ UNCHANGED <<workBuffer, Unparsed>>

(* Fields that are only hashed; the size of the data of an action is one   *)
(* of them unless the action is unknown and allowed.                       *)
processField ==
    /\ \/ state \in HashedOnlyFields
       \/ state = TLV_ACTION_DATA_SIZE /\ (Known \/ ~dataAllowed)
    /\ TakeChunk
    /\ IF Complete THEN MoveTo(state + 1) ELSE StayInField
    /\ UNCHANGED <<flagVars, counterVars, memory, dataVars, dataSha256>>

processZeroSizeField ==
    /\ state \in ZeroSizeFields
    /\ ~FieldAsserts
    /\ TakeChunk
    /\ IF Complete THEN MoveTo(state + 1) /\ memory' = SizeCleared
       ELSE StayInField /\ memory' = Stored(SizeAt)
    /\ UNCHANGED <<flagVars, counterVars, dataVars, dataSha256>>

processActionListSizeField ==
    /\ state = TLV_ACTION_LIST_SIZE
    /\ ~FieldAsserts
    /\ TakeChunk
    /\ IF Complete
       THEN /\ currentActionNumber' = SizeRead
            /\ currentActionIndex' = 0
            /\ memory' = SizeCleared
            /\ confirmProcessing' = (SizeRead > 1)
            /\ MoveTo(state + 1)
       ELSE /\ memory' = Stored(SizeAt)
            /\ StayInField
            /\ UNCHANGED <<currentActionNumber, currentActionIndex, confirmProcessing>>
    /\ UNCHANGED <<actionReady, currentAutorizationIndex, currentAutorizationNumber,
                   dataVars, dataSha256>>

processActionAccount ==
    /\ state = TLV_ACTION_ACCOUNT
    /\ ~FieldAsserts
    /\ TakeChunk
    /\ memory' = Stored(ContractAt)
    /\ IF Complete
       THEN /\ MoveTo(state + 1)
            /\ content' = [content EXCEPT !.contract = name_to_string(contractName')]
       ELSE StayInField /\ UNCHANGED content
    /\ UNCHANGED <<flagVars, counterVars, actionDataBuffer, currentActionDataBufferLength,
                   dataChecksum, dataSha256>>

processActionName ==
    /\ state = TLV_ACTION_NAME
    /\ ~FieldAsserts
    /\ TakeChunk
    /\ memory' = Stored(ActionAt)
    /\ IF Complete
       THEN /\ MoveTo(state + 1)
            /\ content' = [content EXCEPT !.action = name_to_string(contractActionName')]
       ELSE StayInField /\ UNCHANGED content
    /\ UNCHANGED <<flagVars, counterVars, actionDataBuffer, currentActionDataBufferLength,
                   dataChecksum, dataSha256>>

processAuthorizationListSizeField ==
    /\ state = TLV_AUTHORIZATION_LIST_SIZE
    /\ ~FieldAsserts
    /\ TakeChunk
    /\ IF Complete
       THEN /\ currentAutorizationNumber' = SizeRead
            /\ currentAutorizationIndex' = 0
            /\ memory' = SizeCleared
            /\ MoveTo(state + 1)
       ELSE /\ memory' = Stored(SizeAt)
            /\ StayInField
            /\ UNCHANGED <<currentAutorizationNumber, currentAutorizationIndex>>
    /\ UNCHANGED <<flagVars, currentActionIndex, currentActionNumber, dataVars, dataSha256>>

processAuthorizationPermission ==
    /\ state = TLV_AUTHORIZATION_PERMISSION
    /\ TakeChunk
    /\ IF Complete
       THEN /\ currentAutorizationIndex' = (currentAutorizationIndex + 1) % CounterMod
            /\ memory' = SizeCleared
            /\ MoveTo(IF currentAutorizationIndex' # currentAutorizationNumber
                      THEN TLV_AUTHORIZATION_ACTOR ELSE state + 1)
       ELSE StayInField /\ UNCHANGED <<currentAutorizationIndex, memory>>
    /\ UNCHANGED <<flagVars, currentActionIndex, currentActionNumber,
                   currentAutorizationNumber, dataVars, dataSha256>>

processUnknownActionDataSize ==
    /\ state = TLV_ACTION_DATA_SIZE
    /\ ~Known /\ dataAllowed
    /\ TakeChunk
    /\ dataSha256' = dataSha256 \o Chunk
    /\ IF Complete THEN MoveTo(state + 1) ELSE StayInField
    /\ UNCHANGED <<flagVars, counterVars, memory, dataVars>>

(* The end of an action: it is ready, and the index tells what comes next. *)
ActionReadOneMore ==
    /\ currentActionDataBufferLength' = currentFieldLength
    /\ currentActionIndex' = (currentActionIndex + 1) % CounterMod
    /\ MoveTo(IF currentActionIndex' <= currentActionNumber
              THEN TLV_ACTION_ACCOUNT ELSE TLV_TX_EXTENSION_LIST_SIZE)
    /\ actionReady' = TRUE
ActionRead ==
    /\ currentActionDataBufferLength' = currentFieldLength
    /\ currentActionIndex' = (currentActionIndex + 1) % CounterMod
    /\ MoveTo(IF currentActionIndex' < currentActionNumber
              THEN TLV_ACTION_ACCOUNT ELSE TLV_TX_EXTENSION_LIST_SIZE)
    /\ actionReady' = TRUE

(* The checksum is that of the size and the data of this action alone: the *)
(* second hash is started afresh for the next one.                         *)
processUnknownActionData ==
    /\ state = TLV_ACTION_DATA
    /\ ~Known /\ dataAllowed
    /\ TakeChunk
    /\ IF Complete
       THEN /\ ActionRead
            /\ dataChecksum' = dataSha256 \o Chunk
            /\ content' = [content EXCEPT !.argumentCount = 3]
            /\ dataSha256' = <<>>
       ELSE /\ StayInField
            /\ dataSha256' = dataSha256 \o Chunk
            /\ UNCHANGED <<actionReady, currentActionIndex, currentActionDataBufferLength,
                           dataChecksum, content>>
    /\ UNCHANGED <<confirmProcessing, currentActionNumber, currentAutorizationIndex,
                   currentAutorizationNumber, memory, actionDataBuffer>>

processActionData ==
    /\ state = TLV_ACTION_DATA
    /\ Known
    /\ ~FieldAsserts
    /\ TakeChunk
    /\ actionDataBuffer' = DataStored
    /\ IF Complete
       THEN /\ ActionRead
            /\ content' = [content EXCEPT !.argumentCount = Arguments.count]
       ELSE /\ StayInField
            /\ UNCHANGED <<actionReady, currentActionIndex, currentActionDataBufferLength,
                           content>>
    /\ UNCHANGED <<confirmProcessing, currentActionNumber, currentAutorizationIndex,
                   currentAutorizationNumber, memory, dataChecksum, dataSha256>>

(* The data of an unknown action without the user's leave.                 *)
RefuseUnknownAction ==
    /\ status = "SWITCH"
    /\ state = TLV_ACTION_DATA
    /\ ~Known /\ ~dataAllowed
    /\ status' = "STREAM_FAULT"
    /\ UNCHANGED <<workBuffer, Unparsed>>

----------------------------------------------------------------------------
processTxInternal ==
    \/ LoopConfirm
    \/ LoopActionReady
    \/ LoopReturn
    \/ LoopTlvByte
    \/ LoopContinueField
    \/ SwitchAsserts
    \/ processField
    \/ processZeroSizeField
    \/ processActionListSizeField
    \/ processActionAccount
    \/ processActionName
    \/ processAuthorizationListSizeField
    \/ processAuthorizationPermission
    \/ processUnknownActionDataSize
    \/ processUnknownActionData
    \/ processActionData
    \/ RefuseUnknownAction

StreamNext ==
    \/ \E t \in Transactions : StartTransaction(t)
    \/ \E t \in Transactions : Relaunch(t)
    \/ \E n \in BlockSizes : SendBlock(n)
    \/ UserContinues
    \/ processTxInternal

StreamSpec == StreamInit /\ [][StreamNext]_vars

(* WF_vars(processTxInternal) written out: it can step exactly while the   *)
(* status is LOOP or SWITCH, and then nothing else steps.  (TLC would take *)
(* ENABLED processTxInternal apart again and again.)                       *)
ParserRuns ==
    LET Running == status \in {"LOOP", "SWITCH"}
    IN  []<>~Running \/ []<><<Running>>_vars

(* The parser runs, the host goes on while it has bytes to send and the    *)
(* user accepts what is shown.                                             *)
FairStreamSpec ==
    /\ StreamSpec
    /\ ParserRuns
    /\ WF_vars(\E n \in BlockSizes : SendBlock(n))
    /\ WF_vars(UserContinues)

----------------------------------------------------------------------------
(* Every index into a buffer of the context is inside it.                  *)
StreamTypeOK ==
    /\ state \in txProcessingState_e
    /\ status \in parserStatus_e \cup {"IDLE", "LOOP", "SWITCH", "ASSERT"}
    /\ Len(tlvBuffer) <= TlvBufferSize
    /\ currentFieldPos <= currentFieldLength
    /\ processingField /\ state \in BufferedFields => currentFieldPos <= SizeBufferSize
    /\ processingField /\ state = TLV_ACTION_DATA /\ Known =>
           currentFieldPos < ActionDataSize
    /\ memory \in [1..(2 * NameSize + SizeBufferSize) -> Byte]
    /\ content.argumentCount \in 0..(CharMod - 1)

(* However the stream is cut into blocks, the verdict is the one its       *)
(* sender is owed: FINISHED for what is well formed, a fault or an         *)
(* assertion for what is not.                                              *)
VerdictIndependentOfBlocks ==
    Ended => status = tx.verdict

(* What is hashed, and so what is signed, is the sequence of all field     *)
(* values without their TLV headers.                                       *)
HashCoversEveryField ==
    status = "STREAM_FINISHED" => sha256 = tx.values

(* What is reviewed is what was sent: the n-th review shows the names, the *)
(* place and the data of the n-th action, with the checksum of this        *)
(* action's data alone if it is unknown.                                   *)
ReviewShowsTransaction ==
    \A n \in 1..Len(shown) : n <= Len(tx.actions) /\ shown[n] = tx.actions[n]

(* A transaction that is begun gets its verdict.                           *)
EveryTransactionEnds == status = "LOOP" ~> Ended

----------------------------------------------------------------------------
(* The parser implements EosReview.                                        *)
Review == INSTANCE EosReview WITH
    status <- IF status \in {"LOOP", "SWITCH"} THEN "RUNNING" ELSE status,
    known <- state \in TLV_AUTHORIZATION_LIST_SIZE..TLV_ACTION_DATA /\ Known,
    returned <- Len(shown)

(* Field by field, the parser does what EosReview allows: every verdict in *)
(* its order, every action read is handed out.                             *)
ImplementsReview == Review!ReviewSpec
=============================================================================
