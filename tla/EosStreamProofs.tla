--------------------------- MODULE EosStreamProofs ---------------------------
(***************************************************************************)
(* For any stream of bytes, cut into blocks of any size: every index of    *)
(* the parser of EosStream stays inside its buffer, and the parser does    *)
(* what EosReview allows, so that what EosReviewProofs proves of the       *)
(* reviews and verdicts holds of the program that reads the bytes.         *)
(***************************************************************************)
EXTENDS EosBytewise, EosLemmas, SequenceTheorems, TLAPS

MemorySize == 2 * NameSize + SizeBufferSize

(* The shape of the context, whatever its control is at.                   *)
BytesOK ==
    /\ tx \in Transactions /\ sent \in Nat
    /\ workBuffer \in Seq(Byte) /\ tlvBuffer \in Seq(Byte)
    /\ memory \in [1..MemorySize -> Byte]
    /\ actionDataBuffer \in [1..ActionDataSize -> Byte]
    /\ \E T : shown \in Seq(T)

FieldOK ==
    /\ currentFieldLength \in Nat /\ currentFieldPos \in Nat
    /\ currentFieldPos <= currentFieldLength

ContentOK ==
    /\ "argumentCount" \in DOMAIN content
    /\ content.argumentCount \in 0..(CharMod - 1)

(* Where the loop of processTxInternal stands.                             *)
ControlOK ==
    /\ state \in txProcessingState_e
    /\ status \in parserStatus_e \cup {"IDLE", "LOOP", "SWITCH", "ASSERT"}
    /\ status # "IDLE" => state # TLV_NONE
    /\ status = "SWITCH" => ~confirmProcessing /\ ~actionReady /\ state # TLV_DONE

(* A header of five bytes that is not decoded is a fault.                  *)
HeaderOK ==
    /\ Len(tlvBuffer) <= TlvBufferSize
    /\ status # "STREAM_FAULT" => Len(tlvBuffer) < TlvBufferSize

(* A field that is being read is inside the buffer it is copied to.        *)
PositionOK ==
    /\ processingField /\ state \in BufferedFields => currentFieldPos <= SizeBufferSize
    /\ processingField /\ state = TLV_ACTION_DATA /\ Known => currentFieldPos < ActionDataSize

StreamInv == BytesOK /\ FieldOK /\ ContentOK /\ ControlOK /\ HeaderOK /\ PositionOK

(* The TLV states are numbers with an order: the provers need their values. *)
USE DEF TLV_NONE, TLV_CHAIN_ID, TLV_HEADER_DELAY_SEC, TLV_CFA_LIST_SIZE,
        TLV_ACTION_LIST_SIZE, TLV_ACTION_ACCOUNT, TLV_ACTION_NAME,
        TLV_AUTHORIZATION_LIST_SIZE, TLV_AUTHORIZATION_ACTOR,
        TLV_AUTHORIZATION_PERMISSION, TLV_ACTION_DATA_SIZE, TLV_ACTION_DATA,
        TLV_TX_EXTENSION_LIST_SIZE, TLV_CONTEXT_FREE_DATA, TLV_DONE,
        txProcessingState_e

----------------------------------------------------------------------------
(* Memory: a copy changes nothing outside the bytes it is made to.         *)

LEMMA TupleIsSeq ==
  ASSUME NEW n \in Nat, NEW S, NEW f \in [1..n -> S]
  PROVE  f \in Seq(S) /\ Len(f) = n
OBVIOUS

LEMMA OverwriteKeeps ==
  ASSUME NEW n \in Nat, NEW buffer \in [1..n -> Byte], NEW at \in Nat, NEW bytes \in Seq(Byte)
  PROVE  /\ Overwrite(buffer, at, bytes) \in [1..n -> Byte]
         /\ \A i \in 1..n : i <= at => Overwrite(buffer, at, bytes)[i] = buffer[i]
<1>1. Len(buffer) = n
  BY TupleIsSeq
<1>2. \A i \in 1..n : at < i /\ i <= at + Len(bytes) => bytes[i - at] \in Byte
  OBVIOUS
<1> QED
  BY <1>1, <1>2 DEF Overwrite

(* The names of the action are in the first bytes of the memory: what is   *)
(* copied behind them leaves isKnownAction as it was.                      *)
LEMMA KnownKept ==
  ASSUME memory \in [1..MemorySize -> Byte], NEW at \in Nat, at >= SizeAt,
         NEW bytes \in Seq(Byte), memory' = Overwrite(memory, at, bytes)
  PROVE  /\ contractName' = contractName /\ contractActionName' = contractActionName
         /\ Known' = Known
<1>1. memory' \in [1..MemorySize -> Byte] /\ \A i \in 1..SizeAt : memory'[i] = memory[i]
  <2>1. MemorySize \in Nat /\ SizeAt \in Nat /\ SizeAt <= MemorySize
    BY DEF MemorySize, SizeAt, NameSize, SizeBufferSize
  <2>2. /\ memory' \in [1..MemorySize -> Byte]
        /\ \A i \in 1..MemorySize : i <= at => memory'[i] = memory[i]
    BY <2>1, OverwriteKeeps
  <2> QED
    BY <2>1, <2>2
<1>2. contractName' = contractName /\ contractActionName' = contractActionName
  BY <1>1 DEF contractName, contractActionName, MemorySize, SizeAt, NameSize, SizeBufferSize
<1> QED
  BY <1>2 DEF Known

LEMMA ZerosFacts ==
  ASSUME NEW n \in Nat
  PROVE  Zeros(n) \in [1..n -> Byte] /\ Zeros(n) \in Seq(Byte)
BY DEF Zeros, Byte

(* The chunk is what the block has of the field.                           *)
LEMMA ChunkFacts ==
  ASSUME BytesOK, FieldOK
  PROVE  /\ Chunk \in Seq(Byte) /\ Len(Chunk) <= Len(workBuffer)
         /\ currentFieldPos + Len(Chunk) <= currentFieldLength
         /\ Len(Chunk) \in Nat
<1>1. FieldLeft \in Nat
  BY DEF FieldOK, FieldLeft
<1> DEFINE n == IF Len(workBuffer) < FieldLeft THEN Len(workBuffer) ELSE FieldLeft
<1>2. n \in 0..Len(workBuffer) /\ n <= FieldLeft
  BY <1>1 DEF BytesOK
<1>3. Chunk \in Seq(Byte) /\ Len(Chunk) = n
  <2> HIDE DEF n
  <2>1. SubSeq(workBuffer, 1, n) \in Seq(Byte) /\ Len(SubSeq(workBuffer, 1, n)) = n
    BY <1>2 DEF BytesOK
  <2> QED
    BY <2>1 DEF Chunk, n
<1> HIDE DEF n
<1> QED
  BY <1>2, <1>3 DEF FieldOK, FieldLeft

(* The size read is a counter of the code.                                 *)
LEMMA SizeReadFits ==
  ASSUME BytesOK, FieldOK
  PROVE  SizeRead \in 0..(CounterMod - 1)
<1>1. Stored(SizeAt) \in [1..MemorySize -> Byte]
  <2>1. SizeAt + currentFieldPos \in Nat /\ MemorySize \in Nat
    BY DEF FieldOK, SizeAt, MemorySize, NameSize, SizeBufferSize
  <2> QED
    BY <2>1, ChunkFacts, OverwriteKeeps DEF Stored, BytesOK
<1> DEFINE in == SubSeq(Stored(SizeAt), SizeAt + 1, SizeAt + SizeBufferSize)
<1>2. \A i \in 1..5 : in[i] \in Byte
  BY <1>1 DEF MemorySize, SizeAt, NameSize, SizeBufferSize
<1> HIDE DEF in
<1>3. currentFieldLength + 1 \in Int /\ CounterMod \in Nat /\ CounterMod > 0
  BY StreamAssumption DEF FieldOK
<1>4. unpack_variant32(in, currentFieldLength + 1, CounterMod).value \in 0..(CounterMod - 1)
  BY <1>2, <1>3, VariantBound
<1> QED
  BY <1>4 DEF SizeRead, in

----------------------------------------------------------------------------
(* Every step keeps the shape of the context.                              *)

FieldActions ==
    \/ processField
    \/ processZeroSizeField
    \/ processActionListSizeField
    \/ processActionAccount
    \/ processActionName
    \/ processAuthorizationListSizeField
    \/ processAuthorizationPermission
    \/ processUnknownActionDataSize
    \/ processUnknownActionData
    \/ processActionData

LEMMA StoredFacts ==
  ASSUME BytesOK, FieldOK
  PROVE  /\ Stored(ContractAt) \in [1..MemorySize -> Byte]
         /\ Stored(ActionAt) \in [1..MemorySize -> Byte]
         /\ Stored(SizeAt) \in [1..MemorySize -> Byte]
         /\ SizeCleared \in [1..MemorySize -> Byte]
         /\ DataStored \in [1..ActionDataSize -> Byte]
<1>1. /\ MemorySize \in Nat /\ ActionDataSize \in Nat /\ SizeBufferSize \in Nat
      /\ ContractAt + currentFieldPos \in Nat /\ ActionAt + currentFieldPos \in Nat
      /\ SizeAt + currentFieldPos \in Nat /\ SizeAt \in Nat /\ currentFieldPos \in Nat
  BY StreamAssumption
  DEF FieldOK, ContractAt, ActionAt, SizeAt, MemorySize, NameSize, SizeBufferSize
<1>2. Chunk \in Seq(Byte) /\ Zeros(SizeBufferSize) \in Seq(Byte)
  BY <1>1, ChunkFacts, ZerosFacts
<1>3. memory \in [1..MemorySize -> Byte] /\ actionDataBuffer \in [1..ActionDataSize -> Byte]
  BY DEF BytesOK
<1> QED
  BY <1>1, <1>2, <1>3, OverwriteKeeps DEF Stored, SizeCleared, DataStored

LEMMA TakeChunkFacts ==
  ASSUME BytesOK, FieldOK, TakeChunk
  PROVE  /\ workBuffer' \in Seq(Byte) /\ FieldOK'
         /\ UNCHANGED <<tx, sent, dataAllowed, tlvBuffer, shown, confirmed>>
         /\ status = "SWITCH" /\ status' = "LOOP"
<1>1. Len(Chunk) \in Nat /\ currentFieldPos + Len(Chunk) <= currentFieldLength
      /\ Len(Chunk) <= Len(workBuffer)
  BY ChunkFacts
<1>2. workBuffer' \in Seq(Byte)
  BY <1>1 DEF TakeChunk, BytesOK
<1>3. FieldOK'
  BY <1>1 DEF TakeChunk, FieldOK
<1> QED
  BY <1>2, <1>3 DEF TakeChunk, hostVars, historyVars

LEMMA FieldActionsKeepBytes ==
  ASSUME BytesOK, FieldOK, FieldActions
  PROVE  BytesOK' /\ FieldOK'
<1>1. TakeChunk
  BY DEF FieldActions, processField, processZeroSizeField, processActionListSizeField,
         processActionAccount, processActionName, processAuthorizationListSizeField,
         processAuthorizationPermission, processUnknownActionDataSize,
         processUnknownActionData, processActionData
<1>2. memory' \in {memory, Stored(ContractAt), Stored(ActionAt), Stored(SizeAt), SizeCleared}
  BY DEF FieldActions, processField, processZeroSizeField, processActionListSizeField,
         processActionAccount, processActionName, processAuthorizationListSizeField,
         processAuthorizationPermission, processUnknownActionDataSize,
         processUnknownActionData, processActionData
<1>3. actionDataBuffer' \in {actionDataBuffer, DataStored}
  BY DEF FieldActions, processField, processZeroSizeField, processActionListSizeField,
         processActionAccount, processActionName, processAuthorizationListSizeField,
         processAuthorizationPermission, processUnknownActionDataSize,
         processUnknownActionData, processActionData, dataVars
<1>4. /\ memory' \in [1..MemorySize -> Byte]
      /\ actionDataBuffer' \in [1..ActionDataSize -> Byte]
  BY <1>2, <1>3, StoredFacts DEF BytesOK
<1> QED
  BY <1>1, <1>4, TakeChunkFacts DEF BytesOK

(* A header byte: the length it decodes to, if it does, is a number.       *)
LEMMA TlvByteKeepsBytes ==
  ASSUME BytesOK, FieldOK, LoopTlvByte
  PROVE  BytesOK' /\ FieldOK'
<1> DEFINE header == Append(tlvBuffer, Head(workBuffer))
<1>1. header \in Seq(Byte) /\ header # <<>> /\ workBuffer' \in Seq(Byte)
  <2>1. workBuffer \in Seq(Byte) /\ workBuffer # <<>> /\ tlvBuffer \in Seq(Byte)
        /\ workBuffer' = Tail(workBuffer)
    BY DEF BytesOK, LoopTlvByte
  <2>2. Head(workBuffer) \in Byte /\ workBuffer' \in Seq(Byte)
    BY <2>1
  <2> QED
    BY <2>1, <2>2
<1>2. tlvTryDecode(header).length \in Nat
  BY <1>1, TlvLengthIsNumber
<1>3. tlvBuffer' \in Seq(Byte)
  <2>1. tlvBuffer' = header \/ tlvBuffer' = <<>>
    BY DEF LoopTlvByte
  <2>2. header \in Seq(Byte) /\ <<>> \in Seq(Byte)
    BY <1>1
  <2> HIDE DEF header
  <2> QED
    BY <2>1, <2>2, Zenon
<1>4. FieldOK'
  BY <1>2 DEF LoopTlvByte, FieldOK
<1>5. UNCHANGED <<tx, sent, memory, actionDataBuffer, shown>>
  BY DEF LoopTlvByte, hostVars, dataVars, historyVars
<1> QED
  BY <1>1, <1>3, <1>4, <1>5 DEF BytesOK

LEMMA BytesStep ==
  ASSUME BytesOK, FieldOK, [StreamNext]_vars
  PROVE  BytesOK' /\ FieldOK'
<1>1. ASSUME NEW t \in Transactions, ZeroContext(t) PROVE BytesOK' /\ FieldOK'
  <2>1. Zeros(MemorySize) \in [1..MemorySize -> Byte]
        /\ Zeros(ActionDataSize) \in [1..ActionDataSize -> Byte]
    <3>1. MemorySize \in Nat /\ ActionDataSize \in Nat
      BY StreamAssumption DEF MemorySize, NameSize, SizeBufferSize
    <3> QED
      BY <3>1, ZerosFacts
  <2>2. shown' \in Seq({}) /\ workBuffer' \in Seq(Byte) /\ tlvBuffer' \in Seq(Byte)
    BY <1>1 DEF ZeroContext
  <2> QED
    BY <1>1, <2>1, <2>2 DEF ZeroContext, BytesOK, FieldOK, MemorySize
<1>2. CASE \E t \in Transactions : StartTransaction(t) \/ Relaunch(t)
  BY <1>1, <1>2 DEF StartTransaction, InitTxContext, Relaunch
<1>3. ASSUME NEW n \in BlockSizes, SendBlock(n) PROVE BytesOK' /\ FieldOK'
  <2>1. tx.bytes \in Seq(Byte)
    BY StreamAssumption DEF BytesOK, TransactionOK
  <2>2. n \in Nat
    BY StreamAssumption
  <2>3. sent' \in Nat /\ sent' <= Len(tx.bytes)
    BY <1>3, <2>1, <2>2 DEF SendBlock, BytesOK
  <2>4. workBuffer' \in Seq(Byte)
    <3>1. sent \in Nat /\ workBuffer' = SubSeq(tx.bytes, sent + 1, sent')
      BY <1>3 DEF SendBlock, BytesOK
    <3> QED
      BY <2>1, <2>3, <3>1
  <2> QED
    BY <1>3, <2>3, <2>4 DEF SendBlock, BytesOK, FieldOK, dataVars, historyVars
<1>4. CASE LoopActionReady
  <2>1. PICK T : shown \in Seq(T)
    BY DEF BytesOK
  <2>2. shown' \in Seq(T \cup {Reviewed})
    BY <1>4, <2>1 DEF LoopActionReady
  <2> QED
    BY <1>4, <2>2 DEF LoopActionReady, BytesOK, FieldOK, hostVars, dataVars
<1>5. CASE LoopTlvByte
  BY <1>5, TlvByteKeepsBytes
<1>6. CASE FieldActions
  BY <1>6, FieldActionsKeepBytes
<1>7. CASE \/ UserContinues \/ LoopConfirm \/ LoopReturn \/ LoopContinueField
           \/ SwitchAsserts \/ RefuseUnknownAction \/ UNCHANGED vars
  BY <1>7
  DEF UserContinues, LoopConfirm, LoopReturn, LoopContinueField, SwitchAsserts,
      RefuseUnknownAction, Unparsed, vars, hostVars, dataVars, historyVars, BytesOK, FieldOK
<1> QED
  BY <1>2, <1>3, <1>4, <1>5, <1>6, <1>7 DEF StreamNext, processTxInternal, FieldActions

LEMMA ContentMembers ==
  ASSUME NEW c, "argumentCount" \in DOMAIN c, NEW v
  PROVE  /\ "argumentCount" \in DOMAIN [c EXCEPT !.contract = v]
         /\ [c EXCEPT !.contract = v].argumentCount = c.argumentCount
         /\ "argumentCount" \in DOMAIN [c EXCEPT !.action = v]
         /\ [c EXCEPT !.action = v].argumentCount = c.argumentCount
         /\ "argumentCount" \in DOMAIN [c EXCEPT !.argumentCount = v]
         /\ [c EXCEPT !.argumentCount = v].argumentCount = v
OBVIOUS

LEMMA ContentStep ==
  ASSUME BytesOK, FieldOK, ContentOK, [StreamNext]_vars
  PROVE  ContentOK'
<1>1. ASSUME NEW v, content' = [content EXCEPT !.contract = v] PROVE ContentOK'
  BY <1>1, ContentMembers DEF ContentOK
<1>2. ASSUME NEW v, content' = [content EXCEPT !.action = v] PROVE ContentOK'
  BY <1>2, ContentMembers DEF ContentOK
<1>3. ASSUME NEW v \in 0..(CharMod - 1), content' = [content EXCEPT !.argumentCount = v]
      PROVE  ContentOK'
  BY <1>3, ContentMembers DEF ContentOK
<1>4. ASSUME UNCHANGED content PROVE ContentOK'
  BY <1>4 DEF ContentOK
<1>5. CASE processActionAccount
  <2>1. content' = [content EXCEPT !.contract = name_to_string(contractName')]
        \/ UNCHANGED content
    BY <1>5, Zenon DEF processActionAccount
  <2> QED
    BY <2>1, <1>1, <1>4
<1>6. CASE processActionName
  <2>1. content' = [content EXCEPT !.action = name_to_string(contractActionName')]
        \/ UNCHANGED content
    BY <1>6, Zenon DEF processActionName
  <2> QED
    BY <2>1, <1>2, <1>4
<1>7. CASE processUnknownActionData
  <2>1. content' = [content EXCEPT !.argumentCount = 3] \/ UNCHANGED content
    BY <1>7, Zenon DEF processUnknownActionData
  <2>2. 3 \in 0..(CharMod - 1)
    BY DEF CharMod
  <2> QED
    BY <2>1, <2>2, <1>3, <1>4
<1>8. CASE processActionData
  <2>1. content' = [content EXCEPT !.argumentCount = Arguments.count] \/ UNCHANGED content
    BY <1>8, Zenon DEF processActionData
  <2>2. ASSUME Complete PROVE Arguments.count \in 0..(CharMod - 1)
    <3>1. /\ DataStored \in Seq(Byte) /\ Len(DataStored) = ActionDataSize
          /\ ActionDataSize \in Nat /\ ActionDataSize >= 2 * NameSize + 5
          /\ CounterMod \in Nat /\ CounterMod > 0
      BY StoredFacts, TupleIsSeq, StreamAssumption
    <3>2. isKnownAction(contractName, contractActionName)
      BY <1>8 DEF processActionData, Known
    <3>3. currentFieldLength \in Nat /\ currentFieldLength <= ActionDataSize
      BY <1>8, <3>1 DEF processActionData, FieldAsserts, FieldOK
    <3> QED
      BY <3>1, <3>2, <3>3, ArgumentCountIsChar DEF Arguments
  <2>3. Complete \/ UNCHANGED content
    BY <1>8 DEF processActionData
  <2> QED
    BY <2>1, <2>2, <2>3, <1>3, <1>4
<1>9. CASE \E t \in Transactions : Relaunch(t)
  BY <1>9 DEF Relaunch, NoContent, ContentOK, CharMod
<1>10. CASE \/ \E t \in Transactions : StartTransaction(t)
            \/ \E n \in BlockSizes : SendBlock(n)
            \/ UserContinues \/ LoopConfirm \/ LoopActionReady \/ LoopReturn \/ LoopTlvByte
            \/ LoopContinueField \/ SwitchAsserts \/ RefuseUnknownAction
            \/ processField \/ processZeroSizeField \/ processActionListSizeField
            \/ processAuthorizationListSizeField \/ processAuthorizationPermission
            \/ processUnknownActionDataSize \/ UNCHANGED vars
  <2>1. UNCHANGED content
    BY <1>10
    DEF StartTransaction, InitTxContext, SendBlock, UserContinues, LoopConfirm, LoopActionReady,
        LoopReturn, LoopTlvByte, LoopContinueField, SwitchAsserts, RefuseUnknownAction,
        processField, processZeroSizeField, processActionListSizeField,
        processAuthorizationListSizeField, processAuthorizationPermission,
        processUnknownActionDataSize, Unparsed, dataVars, vars
  <2> QED
    BY <2>1, <1>4
<1> QED
  BY <1>5, <1>6, <1>7, <1>8, <1>9, <1>10 DEF StreamNext, processTxInternal

(* A field that is completed leads to the next state of the enumeration.   *)
LEMMA FieldActionsControl ==
  ASSUME FieldActions, ControlOK
  PROVE  /\ status = "SWITCH" /\ status' = "LOOP" /\ UNCHANGED tlvBuffer
         /\ state' \in 1..TLV_DONE
         /\ state' # state => ~processingField'
<1>1. status = "SWITCH" /\ status' = "LOOP" /\ UNCHANGED tlvBuffer
  BY DEF FieldActions, processField, processZeroSizeField, processActionListSizeField,
         processActionAccount, processActionName, processAuthorizationListSizeField,
         processAuthorizationPermission, processUnknownActionDataSize,
         processUnknownActionData, processActionData, TakeChunk
<1>2. state \in 1..18
  BY <1>1 DEF ControlOK
<1>3. \/ \E next \in {state + 1, TLV_ACTION_ACCOUNT, TLV_AUTHORIZATION_ACTOR,
                    TLV_TX_EXTENSION_LIST_SIZE} : MoveTo(next)
      \/ StayInField
  <2>1. CASE processField
    BY <2>1 DEF processField
  <2>2. CASE processZeroSizeField
    BY <2>2 DEF processZeroSizeField
  <2>3. CASE processActionListSizeField
    BY <2>3 DEF processActionListSizeField
  <2>4. CASE processActionAccount
    BY <2>4 DEF processActionAccount
  <2>5. CASE processActionName
    BY <2>5 DEF processActionName
  <2>6. CASE processAuthorizationListSizeField
    BY <2>6 DEF processAuthorizationListSizeField
  <2>7. CASE processAuthorizationPermission
    BY <2>7 DEF processAuthorizationPermission
  <2>8. CASE processUnknownActionDataSize
    BY <2>8 DEF processUnknownActionDataSize
  <2>9. CASE processUnknownActionData
    BY <2>9 DEF processUnknownActionData, ActionRead
  <2>10. CASE processActionData
    BY <2>10 DEF processActionData, ActionRead
  <2> QED
    BY <2>1, <2>2, <2>3, <2>4, <2>5, <2>6, <2>7, <2>8, <2>9, <2>10 DEF FieldActions
<1>5. state' \in 1..TLV_DONE /\ (state' # state => ~processingField')
  BY <1>2, <1>3 DEF MoveTo, StayInField
<1> QED
  BY <1>1, <1>5

LEMMA ControlStep ==
  ASSUME ControlOK, [StreamNext]_vars
  PROVE  ControlOK'
<1> USE DEF ControlOK, parserStatus_e
<1>1. CASE \E t \in Transactions : StartTransaction(t) \/ Relaunch(t)
  BY <1>1 DEF StartTransaction, InitTxContext, Relaunch, ZeroContext
<1>2. CASE \E n \in BlockSizes : SendBlock(n)
  BY <1>2 DEF SendBlock
<1>3. CASE \/ UserContinues \/ LoopConfirm \/ LoopActionReady \/ LoopReturn \/ LoopTlvByte
           \/ LoopContinueField
  <2>1. CASE UserContinues
    BY <2>1 DEF UserContinues, Unparsed, flagVars
  <2>2. CASE LoopConfirm
    BY <2>2 DEF LoopConfirm, Unparsed, flagVars
  <2>3. CASE LoopActionReady
    BY <2>3 DEF LoopActionReady, Unparsed, flagVars
  <2>4. CASE LoopReturn
    BY <2>4 DEF LoopReturn, LoopReads, Unparsed, flagVars
  <2>5. CASE LoopTlvByte
    BY <2>5 DEF LoopTlvByte, LoopReads, Unparsed, flagVars
  <2>6. CASE LoopContinueField
    BY <2>6 DEF LoopContinueField, LoopReads, Unparsed, flagVars
  <2> QED
    BY <1>3, <2>1, <2>2, <2>3, <2>4, <2>5, <2>6
<1>4. CASE SwitchAsserts \/ RefuseUnknownAction
  BY <1>4 DEF SwitchAsserts, RefuseUnknownAction, Unparsed
<1>5. CASE FieldActions
  BY <1>5, FieldActionsControl
<1>6. CASE UNCHANGED vars
  BY <1>6 DEF vars, flagVars
<1> QED
  BY <1>1, <1>2, <1>3, <1>4, <1>5, <1>6 DEF StreamNext, processTxInternal, FieldActions

LEMMA HeaderStep ==
  ASSUME BytesOK, ControlOK, HeaderOK, [StreamNext]_vars
  PROVE  HeaderOK'
<1> USE DEF HeaderOK, TlvBufferSize
<1>1. CASE \E t \in Transactions : StartTransaction(t) \/ Relaunch(t)
  BY <1>1 DEF StartTransaction, InitTxContext, Relaunch, ZeroContext
<1>2. CASE \E n \in BlockSizes : SendBlock(n)
  BY <1>2 DEF SendBlock
<1>3. CASE LoopTlvByte
  <2> DEFINE header == Append(tlvBuffer, Head(workBuffer))
  <2>1. Len(header) = Len(tlvBuffer) + 1 /\ Len(tlvBuffer) \in Nat
    BY <1>3 DEF LoopTlvByte, BytesOK
  <2>2. status = "LOOP"
    BY <1>3 DEF LoopTlvByte, LoopReads
  <2>3. \/ tlvBuffer' = <<>>
        \/ tlvBuffer' = header /\ (Len(header) = TlvBufferSize => status' = "STREAM_FAULT")
    BY <1>3 DEF LoopTlvByte
  <2> HIDE DEF header
  <2> QED
    BY <2>1, <2>2, <2>3
<1>4. CASE \/ UserContinues \/ LoopConfirm \/ LoopActionReady \/ LoopReturn
           \/ LoopContinueField \/ SwitchAsserts \/ RefuseUnknownAction
  BY <1>4
  DEF UserContinues, LoopConfirm, LoopActionReady, LoopReturn, LoopContinueField, LoopReads,
      SwitchAsserts, RefuseUnknownAction, Unparsed
<1>5. CASE FieldActions
  BY <1>5, FieldActionsControl
<1>6. CASE UNCHANGED vars
  BY <1>6 DEF vars
<1> QED
  BY <1>1, <1>2, <1>3, <1>4, <1>5, <1>6 DEF StreamNext, processTxInternal, FieldActions

(* What is copied stays inside the buffer because the assertions of the    *)
(* switch come before the copy.                                            *)
LEMMA FieldActionsPosition ==
  ASSUME BytesOK, FieldOK, ControlOK, FieldActions
  PROVE  PositionOK'
<1>1. CASE ~processingField'
  BY <1>1 DEF PositionOK
<1>2. CASE processingField'
  <2>1. state' = state /\ state \in 1..18
    BY <1>2, FieldActionsControl DEF ControlOK
  <2>2. /\ currentFieldPos' = currentFieldPos + Len(Chunk)
        /\ UNCHANGED currentFieldLength
    BY DEF FieldActions, processField, processZeroSizeField, processActionListSizeField,
           processActionAccount, processActionName, processAuthorizationListSizeField,
           processAuthorizationPermission, processUnknownActionDataSize,
           processUnknownActionData, processActionData, TakeChunk
  <2>3. Len(Chunk) \in Nat /\ currentFieldPos + Len(Chunk) <= currentFieldLength
        /\ currentFieldPos \in Nat /\ currentFieldLength \in Nat
    BY ChunkFacts DEF FieldOK
  <2>4. CASE state \in BufferedFields
    <3>1. ~FieldAsserts
      BY <2>4
      DEF FieldActions, processField, processZeroSizeField, processActionListSizeField,
          processActionAccount, processActionName, processAuthorizationListSizeField,
          processAuthorizationPermission, processUnknownActionDataSize,
          processUnknownActionData, processActionData, BufferedFields, ZeroSizeFields,
          HashedOnlyFields, HeaderFields
    <3>2. Len(Chunk) <= SizeBufferSize - currentFieldPos
      BY <2>3, <2>4, <3>1 DEF FieldAsserts, SizeBufferSize
    <3>3. state # TLV_ACTION_DATA
      BY <2>4 DEF BufferedFields, ZeroSizeFields
    <3> QED
      BY <2>1, <2>2, <2>3, <3>2, <3>3 DEF PositionOK, SizeBufferSize
  <2>5. CASE state = TLV_ACTION_DATA
    <3>1. processUnknownActionData \/ processActionData
      BY <2>5
      DEF FieldActions, processField, processZeroSizeField, processActionListSizeField,
          processActionAccount, processActionName, processAuthorizationListSizeField,
          processAuthorizationPermission, processUnknownActionDataSize,
          ZeroSizeFields, HashedOnlyFields, HeaderFields
    <3>2. UNCHANGED memory
      BY <3>1 DEF processUnknownActionData, processActionData
    <3>3. Known' <=> Known
      BY <3>2 DEF Known, contractName, contractActionName
    <3>4. Known => currentFieldLength <= ActionDataSize - 1
      BY <2>3, <2>5, <3>1, StreamAssumption
      DEF processUnknownActionData, processActionData, FieldAsserts
    <3>5. state' \notin BufferedFields
      BY <2>1, <2>5 DEF BufferedFields, ZeroSizeFields
    <3> QED
      BY <2>1, <2>2, <2>3, <3>3, <3>4, <3>5, StreamAssumption DEF PositionOK
  <2>6. CASE state \notin BufferedFields /\ state # TLV_ACTION_DATA
    BY <2>1, <2>6 DEF PositionOK, BufferedFields, ZeroSizeFields
  <2> QED
    BY <2>4, <2>5, <2>6
<1> QED
  BY <1>1, <1>2

LEMMA PositionStep ==
  ASSUME BytesOK, FieldOK, ControlOK, PositionOK, [StreamNext]_vars
  PROVE  PositionOK'
<1>1. ActionDataSize \in Nat /\ ActionDataSize > 0
  BY StreamAssumption DEF NameSize
<1>2. CASE \E t \in Transactions : StartTransaction(t) \/ Relaunch(t)
  <2>1. ~processingField'
    BY <1>2 DEF StartTransaction, InitTxContext, Relaunch, ZeroContext
  <2> QED
    BY <2>1 DEF PositionOK
<1>3. CASE FieldActions
  BY <1>3, FieldActionsPosition
<1>4. CASE LoopTlvByte
  <2>1. \/ currentFieldPos' = 0
        \/ UNCHANGED <<currentFieldPos, processingField, state, memory>>
    BY <1>4 DEF LoopTlvByte
  <2>2. CASE currentFieldPos' = 0
    BY <1>1, <2>2 DEF PositionOK, SizeBufferSize
  <2>3. CASE UNCHANGED <<currentFieldPos, processingField, state, memory>>
    BY <2>3 DEF PositionOK, Known, contractName, contractActionName
  <2> QED
    BY <2>1, <2>2, <2>3
<1>5. CASE \/ \E n \in BlockSizes : SendBlock(n)
           \/ UserContinues \/ LoopConfirm \/ LoopActionReady \/ LoopReturn
           \/ LoopContinueField \/ SwitchAsserts \/ RefuseUnknownAction \/ UNCHANGED vars
  <2>1. UNCHANGED <<currentFieldPos, processingField, state, memory>>
    BY <1>5
    DEF SendBlock, UserContinues, LoopConfirm, LoopActionReady, LoopReturn, LoopContinueField,
        SwitchAsserts, RefuseUnknownAction, Unparsed, vars
  <2> QED
    BY <2>1 DEF PositionOK, Known, contractName, contractActionName
<1> QED
  BY <1>2, <1>3, <1>4, <1>5 DEF StreamNext, processTxInternal, FieldActions

----------------------------------------------------------------------------
LEMMA StreamInitInv == StreamInit => StreamInv
<1> SUFFICES ASSUME StreamInit PROVE StreamInv
  OBVIOUS
<1>1. MemorySize \in Nat /\ ActionDataSize \in Nat
  BY StreamAssumption DEF MemorySize, NameSize, SizeBufferSize
<1>2. BytesOK
  <2>1. shown \in Seq({}) /\ workBuffer \in Seq(Byte) /\ tlvBuffer \in Seq(Byte)
    BY DEF StreamInit
  <2> QED
    BY <1>1, <2>1, ZerosFacts DEF StreamInit, BytesOK, MemorySize
<1>3. FieldOK /\ ControlOK /\ PositionOK
  BY DEF StreamInit, FieldOK, ControlOK, PositionOK
<1>5. HeaderOK
  BY DEF StreamInit, HeaderOK, TlvBufferSize
<1>4. ContentOK
  BY DEF StreamInit, NoContent, ContentOK, CharMod
<1> QED
  BY <1>2, <1>3, <1>4, <1>5 DEF StreamInv

THEOREM StreamInvariant == StreamSpec => []StreamInv
<1>1. StreamInv /\ [StreamNext]_vars => StreamInv'
  BY BytesStep, ContentStep, ControlStep, HeaderStep, PositionStep DEF StreamInv
<1> QED
  BY <1>1, StreamInitInv, PTL DEF StreamSpec

(* However the stream is cut and whatever its bytes are, no index of the   *)
(* parser leaves its buffer.                                               *)
THEOREM StreamTypes == StreamSpec => []StreamTypeOK
<1>1. StreamInv => StreamTypeOK
  BY DEF StreamInv, BytesOK, FieldOK, ContentOK, ControlOK, HeaderOK, PositionOK, StreamTypeOK,
         MemorySize
<1> QED
  BY <1>1, StreamInvariant, PTL

----------------------------------------------------------------------------
(* The parser implements EosReview: step by step, through the mapping at   *)
(* the end of EosStream.                                                   *)

(* What the mapping leaves alone when the parser reads on inside a field.  *)
Stutters ==
    /\ UNCHANGED <<state, flagVars, counterVars, dataAllowed, shown, confirmed>>
    /\ state \in TLV_AUTHORIZATION_LIST_SIZE..TLV_ACTION_DATA => Known' = Known
    /\ \/ UNCHANGED status
       \/ status \in {"LOOP", "SWITCH"} /\ status' \in {"LOOP", "SWITCH"}

LEMMA StutterIsStutter ==
  ASSUME Stutters
  PROVE  UNCHANGED Review!reviewVars
<1> QED
  BY DEF Stutters, Review!reviewVars, Review!counterVars, counterVars, flagVars,
         Review!TLV_AUTHORIZATION_LIST_SIZE, Review!TLV_ACTION_DATA

LEMMA InitImplements == StreamInit => Review!ReviewInit
BY DEF StreamInit, Review!ReviewInit, Review!TLV_NONE

LEMMA CallersImplement ==
  ASSUME ControlOK,
         \/ \E t \in Transactions : StartTransaction(t) \/ Relaunch(t)
         \/ \E n \in BlockSizes : SendBlock(n)
         \/ UserContinues
  PROVE  Review!ReviewNext
<1>1. ASSUME NEW t \in Transactions, StartTransaction(t) PROVE Review!ReviewNext
  <2>1. t.dataAllowed \in BOOLEAN
    BY StreamAssumption DEF TransactionOK
  <2>2. Review!InitTxContext(t.dataAllowed)
    BY <1>1
    DEF StartTransaction, InitTxContext, ZeroContext, Review!InitTxContext,
        Review!ClearContext, Review!TLV_CHAIN_ID
  <2>3. status \notin {"LOOP", "SWITCH", "ASSERT"}
    BY <1>1 DEF StartTransaction, Ended, ControlOK
  <2>4. \E allowed \in BOOLEAN :
            /\ (IF status \in {"LOOP", "SWITCH"} THEN "RUNNING" ELSE status)
                   \notin {"RUNNING", "ASSERT"}
            /\ Review!InitTxContext(allowed)
    <3>1. (IF status \in {"LOOP", "SWITCH"} THEN "RUNNING" ELSE status)
             \notin {"RUNNING", "ASSERT"}
      BY <2>3 DEF ControlOK, parserStatus_e
    <3> QED
      BY <2>1, <2>2, <3>1, Zenon
  <2> QED
    BY <2>4, Zenon DEF Review!ReviewNext
<1>2. ASSUME NEW t \in Transactions, Relaunch(t) PROVE Review!ReviewNext
  <2>1. Review!Relaunch
    BY <1>2 DEF Relaunch, ZeroContext, Review!Relaunch, Review!ClearContext, Review!TLV_NONE
  <2> QED
    BY <2>1 DEF Review!ReviewNext
<1>3. CASE (\E n \in BlockSizes : SendBlock(n)) \/ UserContinues
  <2>1. Review!ParseTx
    <3>1. Known' = Known
      BY <1>3 DEF SendBlock, UserContinues, Unparsed, Known, contractName, contractActionName
    <3> QED
      BY <1>3, <3>1
      DEF SendBlock, UserContinues, Unparsed, ControlOK, Review!ParseTx, Review!TLV_NONE,
          Review!parserStatus_e, Review!counterVars, counterVars, flagVars, hostVars, historyVars
  <2> QED
    BY <2>1 DEF Review!ReviewNext
<1> QED
  BY <1>1, <1>2, <1>3

(* The verdicts.                                                           *)
LEMMA VerdictsImplement ==
  ASSUME BytesOK, ControlOK,
         \/ LoopConfirm \/ LoopActionReady \/ LoopReturn \/ LoopTlvByte \/ LoopContinueField
         \/ SwitchAsserts \/ RefuseUnknownAction
  PROVE  Review!ReviewNext \/ UNCHANGED Review!reviewVars
<1>1. /\ Known' = Known
      /\ UNCHANGED <<state, counterVars, dataAllowed, memory>>
  BY DEF LoopConfirm, LoopActionReady, LoopReturn, LoopTlvByte, LoopContinueField, SwitchAsserts,
         RefuseUnknownAction, Unparsed, Known, contractName, contractActionName, hostVars
<1>2. CASE LoopConfirm
  <2>1. Review!ReturnConfirm
    BY <1>1, <1>2 DEF LoopConfirm, Review!ReturnConfirm, Review!counterVars, counterVars
  <2> QED
    BY <2>1 DEF Review!ReviewNext
<1>3. CASE LoopActionReady
  <2>1. Len(shown') = Len(shown) + 1
    <3>1. PICK T : shown \in Seq(T)
      BY DEF BytesOK
    <3> QED
      BY <1>3, <3>1 DEF LoopActionReady
  <2>2. Review!ReturnActionReady
    BY <1>1, <1>3, <2>1
    DEF LoopActionReady, Review!ReturnActionReady, Review!counterVars, counterVars
  <2> QED
    BY <2>2 DEF Review!ReviewNext
<1>4. CASE LoopReturn
  <2>1. Review!ReturnFinished \/ Review!ReturnProcessing
    BY <1>1, <1>4
    DEF LoopReturn, LoopReads, Unparsed, flagVars, historyVars, counterVars,
        Review!ReturnFinished, Review!ReturnProcessing, Review!Verdict, Review!TLV_DONE,
        Review!counterVars
  <2> QED
    BY <2>1 DEF Review!ReviewNext
<1>5. CASE LoopTlvByte
  <2>1. status' \in {"SWITCH", "LOOP", "STREAM_FAULT"} /\ status = "LOOP"
    BY <1>5 DEF LoopTlvByte, LoopReads
  <2>2. CASE status' = "STREAM_FAULT"
    <3>1. Review!ReturnFault
      BY <1>1, <1>5, <2>1, <2>2
      DEF LoopTlvByte, LoopReads, flagVars, historyVars, counterVars,
          Review!ReturnFault, Review!Verdict, Review!TLV_DONE, Review!counterVars
    <3> QED
      BY <3>1 DEF Review!ReviewNext
  <2>3. CASE status' # "STREAM_FAULT"
    <3>1. Stutters
      BY <1>1, <1>5, <2>1, <2>3 DEF LoopTlvByte, Stutters, historyVars
    <3> QED
      BY <3>1, StutterIsStutter
  <2> QED
    BY <2>2, <2>3
<1>6. CASE LoopContinueField
  <2>1. Stutters
    BY <1>1, <1>6 DEF LoopContinueField, LoopReads, Stutters, Unparsed, historyVars
  <2> QED
    BY <2>1, StutterIsStutter
<1>7. CASE SwitchAsserts \/ RefuseUnknownAction
  <2>1. Review!AssertFails \/ Review!ReturnFault
    BY <1>1, <1>7
    DEF SwitchAsserts, RefuseUnknownAction, ControlOK, Unparsed, flagVars, historyVars,
        counterVars, Review!AssertFails, Review!ReturnFault, Review!Verdict, Review!TLV_DONE,
        Review!counterVars
  <2> QED
    BY <2>1 DEF Review!ReviewNext
<1> QED
  BY <1>2, <1>3, <1>4, <1>5, <1>6, <1>7

(* The fields.  Inside one the parser stutters; the end of one is a step   *)
(* of EosReview.                                                           *)
LEMMA PlainFieldsImplement ==
  ASSUME BytesOK, FieldOK, ControlOK,
         processField \/ processZeroSizeField \/ processActionAccount
             \/ processUnknownActionDataSize
  PROVE  Review!PlainFieldDone \/ UNCHANGED Review!reviewVars
<1>1. /\ status = "SWITCH" /\ status' = "LOOP"
      /\ UNCHANGED <<flagVars, counterVars, dataAllowed, shown, confirmed>>
  BY TakeChunkFacts
  DEF processField, processZeroSizeField, processActionAccount, processUnknownActionDataSize
<1>2. ~confirmProcessing /\ ~actionReady
  BY <1>1 DEF ControlOK
<1>3. /\ state \in HashedOnlyFields \cup ZeroSizeFields
                      \cup {TLV_ACTION_ACCOUNT, TLV_ACTION_DATA_SIZE}
      /\ state # TLV_ACTION_ACCOUNT /\ state \notin ZeroSizeFields => UNCHANGED memory
  BY DEF processField, processZeroSizeField, processActionAccount, processUnknownActionDataSize
<1>4. MoveTo(state + 1) \/ StayInField
  BY DEF processField, processZeroSizeField, processActionAccount, processUnknownActionDataSize
<1>5. state \in TLV_AUTHORIZATION_LIST_SIZE..TLV_ACTION_DATA => Known' = Known
  BY <1>3 DEF ZeroSizeFields, Known, contractName, contractActionName
<1>6. CASE StayInField
  <2>1. Stutters
    BY <1>1, <1>5, <1>6 DEF Stutters, StayInField
  <2> QED
    BY <2>1, StutterIsStutter
<1>7. CASE MoveTo(state + 1)
  <2>1. state' = state + 1
    BY <1>7 DEF MoveTo
  <2>2. state \in TLV_AUTHORIZATION_LIST_SIZE..TLV_ACTION_DATA
            <=> state' \in TLV_AUTHORIZATION_LIST_SIZE..TLV_ACTION_DATA
    BY <1>3, <2>1 DEF HashedOnlyFields, ZeroSizeFields, HeaderFields
  <2> QED
    BY <1>1, <1>2, <1>3, <1>5, <2>1, <2>2
    DEF Review!PlainFieldDone, Review!Reading, Review!PlainFields, Review!HashedOnlyFields,
        Review!ZeroSizeFields, Review!HeaderFields, Review!TLV_CHAIN_ID,
        Review!TLV_HEADER_DELAY_SEC, Review!TLV_AUTHORIZATION_ACTOR,
        Review!TLV_CONTEXT_FREE_DATA, Review!TLV_CFA_LIST_SIZE,
        Review!TLV_TX_EXTENSION_LIST_SIZE, Review!TLV_ACTION_ACCOUNT,
        Review!TLV_ACTION_DATA_SIZE, Review!TLV_AUTHORIZATION_LIST_SIZE,
        Review!TLV_ACTION_DATA, Review!counterVars, HashedOnlyFields, HeaderFields,
        ZeroSizeFields, counterVars, flagVars
<1> QED
  BY <1>4, <1>6, <1>7

LEMMA SizesImplement ==
  ASSUME BytesOK, FieldOK, ControlOK,
         processActionListSizeField \/ processAuthorizationListSizeField
  PROVE  \/ \E n \in Review!Counter : Review!ActionListSizeDone(n)
         \/ \E n \in Review!Counter : Review!AuthorizationListSizeDone(n)
         \/ UNCHANGED Review!reviewVars
<1>1. /\ status = "SWITCH" /\ status' = "LOOP"
      /\ UNCHANGED <<dataAllowed, shown, confirmed>>
  BY TakeChunkFacts DEF processActionListSizeField, processAuthorizationListSizeField
<1>2. ~confirmProcessing /\ ~actionReady
  BY <1>1 DEF ControlOK
<1>3. SizeRead \in Review!Counter
  BY SizeReadFits DEF Review!Counter
<1>4. Known' = Known
  <2>1. memory' = SizeCleared \/ memory' = Stored(SizeAt)
    BY DEF processActionListSizeField, processAuthorizationListSizeField
  <2>2. /\ SizeAt \in Nat /\ SizeAt + currentFieldPos \in Nat /\ SizeAt + currentFieldPos >= SizeAt
        /\ Zeros(SizeBufferSize) \in Seq(Byte) /\ Chunk \in Seq(Byte)
        /\ memory \in [1..MemorySize -> Byte]
    BY ZerosFacts, ChunkFacts DEF SizeAt, NameSize, SizeBufferSize, FieldOK, BytesOK
  <2>3. CASE memory' = SizeCleared
    BY <2>2, <2>3, KnownKept DEF SizeCleared
  <2>4. CASE memory' = Stored(SizeAt)
    BY <2>2, <2>4, KnownKept DEF Stored
  <2> QED
    BY <2>1, <2>3, <2>4
<1>5. CASE processActionListSizeField /\ Complete
  <2>1. Review!ActionListSizeDone(SizeRead)
    BY <1>1, <1>2, <1>4, <1>5
    DEF processActionListSizeField, MoveTo, Review!ActionListSizeDone, Review!Reading,
        Review!TLV_ACTION_LIST_SIZE, Review!TLV_AUTHORIZATION_LIST_SIZE, Review!TLV_ACTION_DATA
  <2> QED
    BY <1>3, <2>1, Zenon
<1>6. CASE processAuthorizationListSizeField /\ Complete
  <2>1. Review!AuthorizationListSizeDone(SizeRead)
    BY <1>1, <1>2, <1>4, <1>6
    DEF processAuthorizationListSizeField, MoveTo, Review!AuthorizationListSizeDone,
        Review!Reading, flagVars, Review!TLV_AUTHORIZATION_LIST_SIZE, Review!TLV_ACTION_DATA
  <2> QED
    BY <1>3, <2>1, Zenon
<1>7. CASE ~Complete
  <2>1. Stutters
    BY <1>1, <1>4, <1>7
    DEF processActionListSizeField, processAuthorizationListSizeField, Stutters, StayInField,
        flagVars, counterVars
  <2> QED
    BY <2>1, StutterIsStutter
<1> QED
  BY <1>5, <1>6, <1>7

LEMMA KnownIsBoolean == Known \in BOOLEAN /\ Known' \in BOOLEAN
BY Zenon DEF Known, isKnownAction

LEMMA ActionNameImplements ==
  ASSUME BytesOK, FieldOK, ControlOK, processActionName
  PROVE  (\E k \in BOOLEAN : Review!ActionNameDone(k)) \/ UNCHANGED Review!reviewVars
<1>1. /\ status = "SWITCH" /\ status' = "LOOP"
      /\ UNCHANGED <<flagVars, counterVars, dataAllowed, shown, confirmed>>
  BY TakeChunkFacts DEF processActionName
<1>2. ~confirmProcessing /\ ~actionReady
  BY <1>1 DEF ControlOK
<1>3. CASE Complete
  <2>1. Review!ActionNameDone(Known')
    BY <1>1, <1>2, <1>3, KnownIsBoolean
    DEF processActionName, MoveTo, Review!ActionNameDone, Review!Reading, Review!TLV_ACTION_NAME,
        Review!TLV_AUTHORIZATION_LIST_SIZE, Review!TLV_ACTION_DATA, Review!counterVars,
        counterVars, flagVars
  <2> QED
    BY <2>1, KnownIsBoolean, Zenon
<1>4. CASE ~Complete
  <2>1. Stutters
    BY <1>1, <1>4 DEF processActionName, Stutters, StayInField
  <2> QED
    BY <2>1, StutterIsStutter
<1> QED
  BY <1>3, <1>4

LEMMA PermissionImplements ==
  ASSUME BytesOK, FieldOK, ControlOK, processAuthorizationPermission
  PROVE  Review!AuthorizationPermissionDone \/ UNCHANGED Review!reviewVars
<1>1. /\ status = "SWITCH" /\ status' = "LOOP"
      /\ UNCHANGED <<dataAllowed, shown, confirmed>>
  BY TakeChunkFacts DEF processAuthorizationPermission
<1>2. ~confirmProcessing /\ ~actionReady
  BY <1>1 DEF ControlOK
<1>3. Known' = Known
  <2>1. CASE Complete
    <3>1. SizeAt \in Nat /\ Zeros(SizeBufferSize) \in Seq(Byte)
          /\ memory \in [1..MemorySize -> Byte]
      BY ZerosFacts DEF SizeAt, NameSize, SizeBufferSize, BytesOK
    <3>2. memory' = Overwrite(memory, SizeAt, Zeros(SizeBufferSize))
      BY <2>1 DEF processAuthorizationPermission, SizeCleared
    <3> QED
      BY <3>1, <3>2, KnownKept
  <2>2. CASE ~Complete
    BY <2>2 DEF processAuthorizationPermission, Known, contractName, contractActionName
  <2> QED
    BY <2>1, <2>2
<1>4. CASE Complete
  BY <1>1, <1>2, <1>3, <1>4
  DEF processAuthorizationPermission, MoveTo, Review!AuthorizationPermissionDone, Review!Reading,
      Review!TLV_AUTHORIZATION_PERMISSION, Review!TLV_AUTHORIZATION_ACTOR,
      Review!TLV_AUTHORIZATION_LIST_SIZE, Review!TLV_ACTION_DATA, flagVars
<1>5. CASE ~Complete
  <2>1. Stutters
    BY <1>1, <1>3, <1>5
    DEF processAuthorizationPermission, Stutters, StayInField, flagVars, counterVars
  <2> QED
    BY <2>1, StutterIsStutter
<1> QED
  BY <1>4, <1>5

LEMMA ActionDataImplements ==
  ASSUME BytesOK, FieldOK, ControlOK, processUnknownActionData \/ processActionData
  PROVE  Review!ActionDataDone \/ UNCHANGED Review!reviewVars
<1>1. /\ status = "SWITCH" /\ status' = "LOOP"
      /\ UNCHANGED <<dataAllowed, shown, confirmed>>
  BY TakeChunkFacts DEF processUnknownActionData, processActionData
<1>2. ~confirmProcessing /\ ~actionReady
  BY <1>1 DEF ControlOK
<1>3. /\ state = TLV_ACTION_DATA /\ (Known \/ dataAllowed)
      /\ UNCHANGED <<confirmProcessing, currentActionNumber, currentAutorizationIndex,
                     currentAutorizationNumber, memory>>
  BY DEF processUnknownActionData, processActionData
<1>4. Known' = Known
  BY <1>3 DEF Known, contractName, contractActionName
<1>5. CASE Complete
  <2>1. ActionRead
    BY <1>5 DEF processUnknownActionData, processActionData
  <2> QED
    BY <1>1, <1>2, <1>3, <2>1
    DEF ActionRead, MoveTo, Review!ActionDataDone, Review!Reading, Review!TLV_ACTION_DATA,
        Review!TLV_ACTION_ACCOUNT, Review!TLV_TX_EXTENSION_LIST_SIZE,
        Review!TLV_AUTHORIZATION_LIST_SIZE
<1>6. CASE ~Complete
  <2>1. UNCHANGED <<state, actionReady, currentActionIndex>>
    BY <1>6 DEF processUnknownActionData, processActionData, StayInField
  <2>2. Stutters
    BY <1>1, <1>3, <1>4, <2>1 DEF Stutters, flagVars, counterVars
  <2> QED
    BY <2>2, StutterIsStutter
<1> QED
  BY <1>5, <1>6

LEMMA StepImplements ==
  ASSUME StreamInv, [StreamNext]_vars
  PROVE  [Review!ReviewNext]_Review!reviewVars
<1> USE DEF StreamInv
<1>1. CASE \/ \E t \in Transactions : StartTransaction(t) \/ Relaunch(t)
           \/ \E n \in BlockSizes : SendBlock(n)
           \/ UserContinues
  BY <1>1, CallersImplement
<1>2. CASE \/ LoopConfirm \/ LoopActionReady \/ LoopReturn \/ LoopTlvByte \/ LoopContinueField
           \/ SwitchAsserts \/ RefuseUnknownAction
  BY <1>2, VerdictsImplement
<1>3. CASE FieldActions
  <2>1. Review!FieldDone \/ UNCHANGED Review!reviewVars
    BY <1>3, PlainFieldsImplement, SizesImplement, ActionNameImplements, PermissionImplements,
       ActionDataImplements
    DEF FieldActions, Review!FieldDone
  <2> QED
    BY <2>1 DEF Review!ReviewNext
<1>4. CASE UNCHANGED vars
  <2>1. Stutters
    BY <1>4
    DEF vars, hostVars, historyVars, Stutters, Known, contractName, contractActionName
  <2> QED
    BY <2>1, StutterIsStutter
<1> QED
  BY <1>1, <1>2, <1>3, <1>4 DEF StreamNext, processTxInternal, FieldActions

(* The parser, byte by byte and with any blocks, does what EosReview       *)
(* allows field by field.                                                  *)
THEOREM StreamImplementsReview == StreamSpec => ImplementsReview
<1>1. StreamInv /\ [StreamNext]_vars => [Review!ReviewNext]_Review!reviewVars
  BY StepImplements
<1> QED
  BY <1>1, InitImplements, StreamInvariant, PTL DEF StreamSpec, ImplementsReview, Review!ReviewSpec
----------------------------------------------------------------------------
(* What EosReviewProofs proves of EosReview, said of the parser that reads *)
(* the bytes.                                                              *)
ReviewOf == INSTANCE EosReviewProofs WITH
    status <- IF status \in {"LOOP", "SWITCH"} THEN "RUNNING" ELSE status,
    known <- state \in TLV_AUTHORIZATION_LIST_SIZE..TLV_ACTION_DATA /\ Known,
    returned <- Len(shown)

(* The two instances of EosReview are the same specification.              *)
LEMMA SameReview == ImplementsReview => ReviewOf!ReviewSpec
<1>1. Review!ReviewInit => ReviewOf!ReviewInit
  BY DEF Review!ReviewInit, ReviewOf!ReviewInit, Review!TLV_NONE,
    ReviewOf!TLV_NONE
<1>2. \A a \in BOOLEAN : Review!InitTxContext(a) => ReviewOf!InitTxContext(a)
  BY DEF Review!InitTxContext, ReviewOf!InitTxContext, Review!ClearContext,
    ReviewOf!ClearContext, Review!TLV_CHAIN_ID, ReviewOf!TLV_CHAIN_ID
<1>3. Review!Relaunch => ReviewOf!Relaunch
  BY DEF Review!Relaunch, ReviewOf!Relaunch, Review!ClearContext,
    ReviewOf!ClearContext, Review!TLV_NONE, ReviewOf!TLV_NONE
<1>4. Review!ParseTx => ReviewOf!ParseTx
  BY DEF Review!ParseTx, ReviewOf!ParseTx, Review!parserStatus_e,
    ReviewOf!parserStatus_e, Review!TLV_NONE, ReviewOf!TLV_NONE,
    Review!counterVars, ReviewOf!counterVars
<1>5. /\ Review!ReturnConfirm => ReviewOf!ReturnConfirm
      /\ Review!ReturnActionReady => ReviewOf!ReturnActionReady
  BY DEF Review!ReturnConfirm, ReviewOf!ReturnConfirm,
    Review!ReturnActionReady, ReviewOf!ReturnActionReady,
    Review!counterVars, ReviewOf!counterVars
<1>6. /\ Review!ReturnFinished => ReviewOf!ReturnFinished
      /\ Review!ReturnProcessing => ReviewOf!ReturnProcessing
      /\ Review!ReturnFault => ReviewOf!ReturnFault
      /\ Review!AssertFails => ReviewOf!AssertFails
  BY DEF Review!ReturnFinished, ReviewOf!ReturnFinished,
    Review!ReturnProcessing, ReviewOf!ReturnProcessing, Review!ReturnFault,
    ReviewOf!ReturnFault, Review!AssertFails, ReviewOf!AssertFails,
    Review!Verdict, ReviewOf!Verdict, Review!TLV_DONE, ReviewOf!TLV_DONE,
    Review!counterVars, ReviewOf!counterVars
<1>7. Review!PlainFieldDone => ReviewOf!PlainFieldDone
  BY DEF Review!PlainFieldDone, ReviewOf!PlainFieldDone, Review!PlainFields,
    ReviewOf!PlainFields, Review!Reading, ReviewOf!Reading, Review!TLV_NONE,
    ReviewOf!TLV_NONE, Review!TLV_CHAIN_ID, ReviewOf!TLV_CHAIN_ID,
    Review!TLV_HEADER_DELAY_SEC, ReviewOf!TLV_HEADER_DELAY_SEC,
    Review!HeaderFields, ReviewOf!HeaderFields, Review!HashedOnlyFields,
    ReviewOf!HashedOnlyFields, Review!ZeroSizeFields,
    ReviewOf!ZeroSizeFields, Review!TLV_ACTION_ACCOUNT,
    ReviewOf!TLV_ACTION_ACCOUNT, Review!TLV_ACTION_DATA_SIZE,
    ReviewOf!TLV_ACTION_DATA_SIZE, Review!TLV_TX_EXTENSION_LIST_SIZE,
    ReviewOf!TLV_TX_EXTENSION_LIST_SIZE, Review!TLV_CONTEXT_FREE_DATA,
    ReviewOf!TLV_CONTEXT_FREE_DATA, Review!TLV_CFA_LIST_SIZE,
    ReviewOf!TLV_CFA_LIST_SIZE, Review!TLV_AUTHORIZATION_ACTOR,
    ReviewOf!TLV_AUTHORIZATION_ACTOR, Review!counterVars,
    ReviewOf!counterVars
<1>8. \A n : Review!ActionListSizeDone(n) => ReviewOf!ActionListSizeDone(n)
  BY DEF Review!ActionListSizeDone, ReviewOf!ActionListSizeDone,
    Review!Reading, ReviewOf!Reading, Review!counterVars,
    ReviewOf!counterVars, Review!TLV_ACTION_LIST_SIZE,
    ReviewOf!TLV_ACTION_LIST_SIZE, Review!TLV_ACTION_ACCOUNT,
    ReviewOf!TLV_ACTION_ACCOUNT, Review!TLV_ACTION_NAME,
    ReviewOf!TLV_ACTION_NAME, Review!TLV_AUTHORIZATION_LIST_SIZE,
    ReviewOf!TLV_AUTHORIZATION_LIST_SIZE, Review!TLV_AUTHORIZATION_ACTOR,
    ReviewOf!TLV_AUTHORIZATION_ACTOR, Review!TLV_AUTHORIZATION_PERMISSION,
    ReviewOf!TLV_AUTHORIZATION_PERMISSION, Review!TLV_ACTION_DATA_SIZE,
    ReviewOf!TLV_ACTION_DATA_SIZE, Review!TLV_ACTION_DATA,
    ReviewOf!TLV_ACTION_DATA, Review!TLV_TX_EXTENSION_LIST_SIZE,
    ReviewOf!TLV_TX_EXTENSION_LIST_SIZE
<1>9. \A k : Review!ActionNameDone(k) => ReviewOf!ActionNameDone(k)
  BY DEF Review!ActionNameDone, ReviewOf!ActionNameDone, Review!Reading,
    ReviewOf!Reading, Review!counterVars, ReviewOf!counterVars,
    Review!TLV_ACTION_LIST_SIZE, ReviewOf!TLV_ACTION_LIST_SIZE,
    Review!TLV_ACTION_ACCOUNT, ReviewOf!TLV_ACTION_ACCOUNT,
    Review!TLV_ACTION_NAME, ReviewOf!TLV_ACTION_NAME,
    Review!TLV_AUTHORIZATION_LIST_SIZE,
    ReviewOf!TLV_AUTHORIZATION_LIST_SIZE, Review!TLV_AUTHORIZATION_ACTOR,
    ReviewOf!TLV_AUTHORIZATION_ACTOR, Review!TLV_AUTHORIZATION_PERMISSION,
    ReviewOf!TLV_AUTHORIZATION_PERMISSION, Review!TLV_ACTION_DATA_SIZE,
    ReviewOf!TLV_ACTION_DATA_SIZE, Review!TLV_ACTION_DATA,
    ReviewOf!TLV_ACTION_DATA, Review!TLV_TX_EXTENSION_LIST_SIZE,
    ReviewOf!TLV_TX_EXTENSION_LIST_SIZE
<1>10. \A n : Review!AuthorizationListSizeDone(n) => ReviewOf!AuthorizationListSizeDone(n)
  BY DEF Review!AuthorizationListSizeDone,
    ReviewOf!AuthorizationListSizeDone, Review!Reading, ReviewOf!Reading,
    Review!counterVars, ReviewOf!counterVars, Review!TLV_ACTION_LIST_SIZE,
    ReviewOf!TLV_ACTION_LIST_SIZE, Review!TLV_ACTION_ACCOUNT,
    ReviewOf!TLV_ACTION_ACCOUNT, Review!TLV_ACTION_NAME,
    ReviewOf!TLV_ACTION_NAME, Review!TLV_AUTHORIZATION_LIST_SIZE,
    ReviewOf!TLV_AUTHORIZATION_LIST_SIZE, Review!TLV_AUTHORIZATION_ACTOR,
    ReviewOf!TLV_AUTHORIZATION_ACTOR, Review!TLV_AUTHORIZATION_PERMISSION,
    ReviewOf!TLV_AUTHORIZATION_PERMISSION, Review!TLV_ACTION_DATA_SIZE,
    ReviewOf!TLV_ACTION_DATA_SIZE, Review!TLV_ACTION_DATA,
    ReviewOf!TLV_ACTION_DATA, Review!TLV_TX_EXTENSION_LIST_SIZE,
    ReviewOf!TLV_TX_EXTENSION_LIST_SIZE
<1>11. Review!AuthorizationPermissionDone => ReviewOf!AuthorizationPermissionDone
  BY DEF Review!AuthorizationPermissionDone,
    ReviewOf!AuthorizationPermissionDone, Review!Reading, ReviewOf!Reading,
    Review!counterVars, ReviewOf!counterVars, Review!TLV_ACTION_LIST_SIZE,
    ReviewOf!TLV_ACTION_LIST_SIZE, Review!TLV_ACTION_ACCOUNT,
    ReviewOf!TLV_ACTION_ACCOUNT, Review!TLV_ACTION_NAME,
    ReviewOf!TLV_ACTION_NAME, Review!TLV_AUTHORIZATION_LIST_SIZE,
    ReviewOf!TLV_AUTHORIZATION_LIST_SIZE, Review!TLV_AUTHORIZATION_ACTOR,
    ReviewOf!TLV_AUTHORIZATION_ACTOR, Review!TLV_AUTHORIZATION_PERMISSION,
    ReviewOf!TLV_AUTHORIZATION_PERMISSION, Review!TLV_ACTION_DATA_SIZE,
    ReviewOf!TLV_ACTION_DATA_SIZE, Review!TLV_ACTION_DATA,
    ReviewOf!TLV_ACTION_DATA, Review!TLV_TX_EXTENSION_LIST_SIZE,
    ReviewOf!TLV_TX_EXTENSION_LIST_SIZE
<1>12. Review!ActionDataDone => ReviewOf!ActionDataDone
  BY DEF Review!ActionDataDone, ReviewOf!ActionDataDone, Review!Reading,
    ReviewOf!Reading, Review!counterVars, ReviewOf!counterVars,
    Review!TLV_ACTION_LIST_SIZE, ReviewOf!TLV_ACTION_LIST_SIZE,
    Review!TLV_ACTION_ACCOUNT, ReviewOf!TLV_ACTION_ACCOUNT,
    Review!TLV_ACTION_NAME, ReviewOf!TLV_ACTION_NAME,
    Review!TLV_AUTHORIZATION_LIST_SIZE,
    ReviewOf!TLV_AUTHORIZATION_LIST_SIZE, Review!TLV_AUTHORIZATION_ACTOR,
    ReviewOf!TLV_AUTHORIZATION_ACTOR, Review!TLV_AUTHORIZATION_PERMISSION,
    ReviewOf!TLV_AUTHORIZATION_PERMISSION, Review!TLV_ACTION_DATA_SIZE,
    ReviewOf!TLV_ACTION_DATA_SIZE, Review!TLV_ACTION_DATA,
    ReviewOf!TLV_ACTION_DATA, Review!TLV_TX_EXTENSION_LIST_SIZE,
    ReviewOf!TLV_TX_EXTENSION_LIST_SIZE
<1>13. Review!FieldDone => ReviewOf!FieldDone
  BY <1>7, <1>8, <1>9, <1>10, <1>11, <1>12
    DEF Review!FieldDone, ReviewOf!FieldDone, Review!Counter, ReviewOf!Counter
<1>14. [Review!ReviewNext]_(Review!reviewVars) => [ReviewOf!ReviewNext]_(ReviewOf!reviewVars)
  <2>1. Review!reviewVars = ReviewOf!reviewVars
    BY DEF Review!reviewVars, ReviewOf!reviewVars, Review!counterVars, ReviewOf!counterVars
  <2>2. Review!reviewVars' = ReviewOf!reviewVars'
    BY DEF Review!reviewVars, ReviewOf!reviewVars, Review!counterVars, ReviewOf!counterVars
  <2>3. SUFFICES ASSUME Review!ReviewNext
                 PROVE  ReviewOf!ReviewNext
    BY <2>1, <2>2
  <2>4. CASE \E a \in BOOLEAN :
                 /\ (IF status \in {"LOOP", "SWITCH"} THEN "RUNNING" ELSE status)
                        \notin {"RUNNING", "ASSERT"}
                 /\ Review!InitTxContext(a)
    BY <2>4, <1>2 DEF ReviewOf!ReviewNext
  <2>5. CASE Review!Relaunch
    BY <2>5, <1>3 DEF ReviewOf!ReviewNext
  <2>6. CASE Review!ParseTx
    BY <2>6, <1>4 DEF ReviewOf!ReviewNext
  <2>7. CASE Review!ReturnConfirm \/ Review!ReturnActionReady
    BY <2>7, <1>5 DEF ReviewOf!ReviewNext
  <2>8. CASE \/ Review!ReturnFinished \/ Review!ReturnProcessing
             \/ Review!ReturnFault \/ Review!AssertFails
    BY <2>8, <1>6 DEF ReviewOf!ReviewNext
  <2>9. CASE Review!FieldDone
    BY <2>9, <1>13 DEF ReviewOf!ReviewNext
  <2> QED
    BY <2>3, <2>4, <2>5, <2>6, <2>7, <2>8, <2>9 DEF Review!ReviewNext
<1> QED
  BY <1>1, <1>14, PTL DEF ImplementsReview, Review!ReviewSpec, ReviewOf!ReviewSpec

(* When the parser says the transaction is complete, every action of it    *)
(* has been handed out for review, and the review was announced if there   *)
(* are several.                                                            *)
THEOREM StreamFinishesLast ==
  StreamSpec => [](status = "STREAM_FINISHED" =>
                      /\ Len(shown) = ReviewOf!ActionsOf(currentActionNumber)
                      /\ confirmed <=> currentActionNumber > 1)
<1>1. ReviewOf!ReviewSpec => []ReviewOf!FinishedAfterEveryAction
  <2>1. ReviewOf!CounterModAssumption
    BY StreamAssumption DEF ReviewOf!CounterModAssumption
  <2> QED
    BY <2>1, ReviewOf!ReviewComplete
<1>2. ReviewOf!FinishedAfterEveryAction =>
          (status = "STREAM_FINISHED" =>
                      /\ Len(shown) = ReviewOf!ActionsOf(currentActionNumber)
                      /\ confirmed <=> currentActionNumber > 1)
  BY DEF ReviewOf!FinishedAfterEveryAction
<1> QED
  BY <1>1, <1>2, SameReview, StreamImplementsReview, PTL

----------------------------------------------------------------------------
(* Readers are records: two of them are the same if their members are.     *)
ReaderMembers ==
    {"verdict", "state", "allowed", "inField", "header", "length", "pos", "number", "index",
     "authNumber", "authIndex", "memory", "data", "dataHash", "hash", "reviews"}
IsReader(r) == r = [x \in ReaderMembers |-> r[x]]
SameBut(s, r, members) == \A x \in ReaderMembers : x \notin members => s[x] = r[x]

LEMMA SameReader ==
  ASSUME NEW r, NEW s, IsReader(r), IsReader(s), SameBut(s, r, {})
  PROVE  s = r
<1>1. \A x \in ReaderMembers : s[x] = r[x]
  BY DEF SameBut
<1> QED
  BY <1>1, Zenon DEF IsReader

LEMMA ReaderIsReader ==
  ASSUME NEW t
  PROVE  IsReader(Reader(t))
BY Zenon DEF Reader, IsReader, ReaderMembers

LEMMA NowIsReader == IsReader(Now) /\ IsReader(Now')
BY Zenon DEF Now, IsReader, ReaderMembers

LEMMA StopMembers ==
  ASSUME NEW r, IsReader(r), NEW v
  PROVE  /\ IsReader(Stop(r, v)) /\ Stop(r, v).verdict = v
         /\ SameBut(Stop(r, v), r, {"verdict"})
BY DEF IsReader, Stop, SameBut, ReaderMembers

LEMMA ForwardMembers ==
  ASSUME NEW r, IsReader(r), NEW n
  PROVE  /\ IsReader(Forward(r, n)) /\ Forward(r, n).state = n /\ ~Forward(r, n).inField
         /\ SameBut(Forward(r, n), r, {"state", "inField"})
BY DEF IsReader, Forward, SameBut, ReaderMembers

LEMMA ForwardClearedMembers ==
  ASSUME NEW r, IsReader(r), NEW n
  PROVE  /\ IsReader(ForwardCleared(r, n)) /\ ForwardCleared(r, n).state = n
         /\ ~ForwardCleared(r, n).inField
         /\ ForwardCleared(r, n).memory = Overwrite(r.memory, SizeAt, Zeros(SizeBufferSize))
         /\ SameBut(ForwardCleared(r, n), r, {"state", "inField", "memory"})
<1> DEFINE f == Forward(r, n)
<1>1. /\ IsReader(f) /\ f.state = n /\ ~f.inField /\ SameBut(f, r, {"state", "inField"})
  BY ForwardMembers
<1> HIDE DEF f
<1> QED
  BY <1>1 DEF IsReader, ForwardCleared, SameBut, ReaderMembers, f

LEMMA AbsorbMembers ==
  ASSUME NEW r, IsReader(r), NEW b
  PROVE  LET a == Absorb(r, b)
         IN  /\ IsReader(a)
             /\ SameBut(a, r, {"pos", "hash", "memory", "data", "dataHash"})
             /\ a.pos = r.pos + Len(b) /\ a.hash = r.hash \o b
             /\ a.memory = IF r.state \in BufferedFields
                           THEN Overwrite(r.memory, PlaceOf(r.state) + r.pos, b) ELSE r.memory
             /\ a.data = IF r.state = TLV_ACTION_DATA /\ KnownIn(r.memory)
                         THEN Overwrite(r.data, r.pos, b) ELSE r.data
             /\ a.dataHash = IF /\ r.state \in {TLV_ACTION_DATA_SIZE, TLV_ACTION_DATA}
                                /\ ~KnownIn(r.memory) /\ r.allowed
                             THEN r.dataHash \o b ELSE r.dataHash
BY Zenon DEF IsReader, Absorb, SameBut, ReaderMembers

LEMMA OpenedMembers ==
  ASSUME NEW r, IsReader(r), NEW n
  PROVE  /\ IsReader(Opened(r, n)) /\ Opened(r, n).header = <<>> /\ Opened(r, n).inField = TRUE
         /\ Opened(r, n).length = n /\ Opened(r, n).pos = 0
         /\ SameBut(Opened(r, n), r, {"header", "inField", "length", "pos"})
BY DEF IsReader, Opened, SameBut, ReaderMembers

(* Bytes that are copied one after the other, and bytes that are cleared.  *)
LEMMA OverwriteNothing ==
  ASSUME NEW n \in Nat, NEW m \in [1..n -> Byte], NEW p \in Nat
  PROVE  Overwrite(m, p, <<>>) = m
<1>1. Len(m) = n
  BY TupleIsSeq
<1>2. \A i \in 1..n : ~(p < i /\ i <= p + Len(<<>>))
  OBVIOUS
<1> QED
  BY <1>1, <1>2 DEF Overwrite

LEMMA OverwriteTwice ==
  ASSUME NEW n \in Nat, NEW m \in [1..n -> Byte], NEW p \in Nat,
         NEW a \in Seq(Byte), NEW b \in Seq(Byte)
  PROVE  Overwrite(Overwrite(m, p, a), p + Len(a), b) = Overwrite(m, p, a \o b)
<1> DEFINE c == a \o b
           o == Overwrite(m, p, a)
<1>1. /\ Len(a) \in Nat /\ Len(b) \in Nat /\ Len(c) = Len(a) + Len(b) /\ c \in Seq(Byte)
      /\ \A i \in 1..Len(a) : c[i] = a[i]
      /\ \A i \in 1..Len(b) : c[Len(a) + i] = b[i]
  OBVIOUS
<1>2. Len(m) = n /\ o \in [1..n -> Byte] /\ Len(o) = n
  BY OverwriteKeeps, TupleIsSeq
<1>3. \A i \in 1..n : o[i] = IF p < i /\ i <= p + Len(a) THEN a[i - p] ELSE m[i]
  BY <1>2 DEF Overwrite
<1> HIDE DEF c, o
<1>4. ASSUME NEW i \in 1..n
      PROVE  (IF p + Len(a) < i /\ i <= p + Len(a) + Len(b) THEN b[i - (p + Len(a))] ELSE o[i])
             = (IF p < i /\ i <= p + Len(c) THEN c[i - p] ELSE m[i])
  <2>1. CASE i <= p
    BY <1>1, <1>3, <2>1
  <2>2. CASE p < i /\ i <= p + Len(a)
    <3>1. i - p \in 1..Len(a) /\ ~(p + Len(a) < i) /\ i <= p + Len(c)
      BY <1>1, <2>2
    <3>2. c[i - p] = a[i - p] /\ o[i] = a[i - p]
      BY <1>1, <1>3, <2>2, <3>1, Zenon
    <3> QED
      BY <2>2, <3>1, <3>2, Zenon
  <2>3. CASE p + Len(a) < i /\ i <= p + Len(a) + Len(b)
    <3>1. /\ i - (p + Len(a)) \in 1..Len(b) /\ Len(a) + (i - (p + Len(a))) = i - p
          /\ p < i /\ i <= p + Len(c)
      BY <1>1, <2>3
    <3>2. c[i - p] = b[i - (p + Len(a))]
      BY <1>1, <3>1
    <3> QED
      BY <2>3, <3>1, <3>2, Zenon
  <2>4. CASE i > p + Len(a) + Len(b)
    BY <1>1, <1>3, <2>4
  <2>5. i <= p \/ (p < i /\ i <= p + Len(a)) \/ (p + Len(a) < i /\ i <= p + Len(a) + Len(b))
        \/ i > p + Len(a) + Len(b)
    BY <1>1
  <2> QED
    BY <2>1, <2>2, <2>3, <2>4, <2>5, Zenon
<1>5. Overwrite(o, p + Len(a), b)
      = [i \in 1..n |-> IF p + Len(a) < i /\ i <= p + Len(a) + Len(b)
                        THEN b[i - (p + Len(a))] ELSE o[i]]
  BY <1>2, Zenon DEF Overwrite
<1>6. Overwrite(m, p, c)
      = [i \in 1..n |-> IF p < i /\ i <= p + Len(c) THEN c[i - p] ELSE m[i]]
  BY <1>2, Zenon DEF Overwrite
<1>7. Overwrite(o, p + Len(a), b) = Overwrite(m, p, c)
  BY <1>4, <1>5, <1>6, Zenon
<1> QED
  BY <1>7 DEF o, c

LEMMA ClearedAnyway ==
  ASSUME NEW n \in Nat, NEW m \in [1..n -> Byte], NEW p \in Nat, NEW a \in Seq(Byte),
         p >= SizeAt, p + Len(a) <= SizeAt + SizeBufferSize
  PROVE  Overwrite(Overwrite(m, p, a), SizeAt, Zeros(SizeBufferSize))
         = Overwrite(m, SizeAt, Zeros(SizeBufferSize))
<1> DEFINE o == Overwrite(m, p, a)
           z == Zeros(SizeBufferSize)
<1>1. Len(m) = n /\ o \in [1..n -> Byte] /\ Len(o) = n
  BY OverwriteKeeps, TupleIsSeq
<1>2. SizeAt \in Nat /\ SizeBufferSize \in Nat /\ z \in Seq(Byte) /\ Len(z) = SizeBufferSize
  BY DEF SizeAt, NameSize, SizeBufferSize, Zeros, Byte
<1>3. \A i \in 1..n : o[i] = IF p < i /\ i <= p + Len(a) THEN a[i - p] ELSE m[i]
  BY <1>1 DEF Overwrite
<1> HIDE DEF o, z
<1>4. \A i \in 1..n : ~(SizeAt < i /\ i <= SizeAt + Len(z)) => o[i] = m[i]
  BY <1>2, <1>3
<1> QED
  BY <1>1, <1>4, Zenon DEF Overwrite, o, z

----------------------------------------------------------------------------
(* The reader of a stream is what its definition says.                     *)
LEMMA ReadingSteps ==
  ASSUME NEW t, t.bytes \in Seq(Byte)
  PROVE  /\ Reading(t)[0] = Reader(t)
         /\ \A n \in 0..(Len(t.bytes) - 1) :
                Reading(t)[n + 1] = ReadByte(Reading(t)[n], t.bytes[n + 1])
<1> DEFINE N == Len(t.bytes)
           Step(f, k) == [n \in 0..k |-> IF n = 0 THEN Reader(t)
                                         ELSE ReadByte(f[n - 1], t.bytes[n])]
           T == {k \in Nat : \E f : f = Step(f, k)}
<1>1. N \in Nat
  OBVIOUS
<1>2. 0 \in T
  <2> DEFINE f == [n \in 0..0 |-> Reader(t)]
  <2>1. f = Step(f, 0)
    OBVIOUS
  <2> QED
    BY <2>1, Zenon
<1>3. ASSUME NEW k \in Nat, k \in T PROVE k + 1 \in T
  <2>1. PICK f : f = Step(f, k)
    BY <1>3
  <2> DEFINE g == [n \in 0..(k + 1) |-> IF n = k + 1 THEN ReadByte(f[k], t.bytes[k + 1]) ELSE f[n]]
  <2>2. ASSUME NEW n \in 0..(k + 1)
        PROVE  g[n] = IF n = 0 THEN Reader(t) ELSE ReadByte(g[n - 1], t.bytes[n])
    <3>1. CASE n = k + 1
      <4>1. n # 0 /\ n - 1 = k /\ k \in 0..(k + 1) /\ k # k + 1
        BY <3>1
      <4>2. g[n] = ReadByte(f[k], t.bytes[k + 1]) /\ g[k] = f[k]
        BY <3>1, <4>1
      <4> QED
        BY <3>1, <4>1, <4>2
    <3>2. CASE n # k + 1
      <4>1. n \in 0..k /\ (n # 0 => n - 1 \in 0..(k + 1) /\ n - 1 # k + 1)
        BY <3>2
      <4>2. g[n] = f[n] /\ (n # 0 => g[n - 1] = f[n - 1])
        BY <3>2, <4>1
      <4>3. f[n] = IF n = 0 THEN Reader(t) ELSE ReadByte(f[n - 1], t.bytes[n])
        BY <2>1, <4>1
      <4> QED
        BY <4>2, <4>3
    <3> QED
      BY <3>1, <3>2
  <2>3. DOMAIN g = 0..(k + 1) /\ g = [n \in 0..(k + 1) |-> g[n]]
    OBVIOUS
  <2> HIDE DEF g
  <2>4. g = Step(g, k + 1)
    BY <2>2, <2>3
  <2>5. k + 1 \in Nat
    OBVIOUS
  <2> QED
    BY <2>4, <2>5, Zenon
<1>4. N \in T
  <2> HIDE DEF T, N
  <2> QED
    BY <1>1, <1>2, <1>3, NatSetInduction
<1>5. Reading(t) = Step(Reading(t), N)
  <2>1. \E f : f = Step(f, N)
    BY <1>4
  <2>2. Reading(t) = CHOOSE f : f = Step(f, N)
    BY DEF Reading
  <2> QED
    BY <2>1, <2>2, Zenon
<1> HIDE DEF N
<1>6. Reading(t)[0] = Reader(t)
  BY <1>1, <1>5
<1>7. ASSUME NEW n \in 0..(N - 1)
      PROVE  Reading(t)[n + 1] = ReadByte(Reading(t)[n], t.bytes[n + 1])
  <2>1. n + 1 \in 0..N /\ n + 1 # 0 /\ (n + 1) - 1 = n
    BY <1>1
  <2> QED
    BY <1>5, <2>1
<1> QED
  BY <1>6, <1>7 DEF N

----------------------------------------------------------------------------
(* A field that is absorbed chunk by chunk is absorbed byte by byte.       *)
ReaderOK(r) ==
    /\ IsReader(r)
    /\ r.memory \in [1..MemorySize -> Byte] /\ r.data \in [1..ActionDataSize -> Byte]
    /\ r.hash \in Seq(Byte) /\ r.dataHash \in Seq(Byte)
    /\ r.length \in Nat /\ r.pos \in Nat

LEMMA SizesAreNumbers ==
  /\ MemorySize \in Nat /\ ActionDataSize \in Nat /\ SizeBufferSize \in Nat /\ SizeAt \in Nat
  /\ \A field : PlaceOf(field) \in Nat
BY StreamAssumption
DEF MemorySize, NameSize, SizeBufferSize, SizeAt, PlaceOf, ContractAt, ActionAt

LEMMA AbsorbKeepsShape ==
  ASSUME NEW r, ReaderOK(r), NEW b \in Seq(Byte)
  PROVE  ReaderOK(Absorb(r, b))
<1> DEFINE a == Absorb(r, b)
           at == PlaceOf(r.state) + r.pos
<1>1. at \in Nat
  BY SizesAreNumbers DEF ReaderOK
<1>2. /\ Overwrite(r.memory, at, b) \in [1..MemorySize -> Byte]
      /\ Overwrite(r.data, r.pos, b) \in [1..ActionDataSize -> Byte]
  BY <1>1, SizesAreNumbers, OverwriteKeeps DEF ReaderOK
<1>3. r.pos + Len(b) \in Nat /\ r.hash \o b \in Seq(Byte) /\ r.dataHash \o b \in Seq(Byte)
  BY DEF ReaderOK
<1>4. /\ IsReader(a) /\ SameBut(a, r, {"pos", "hash", "memory", "data", "dataHash"})
      /\ a.pos = r.pos + Len(b) /\ a.hash = r.hash \o b
      /\ a.memory \in {r.memory, Overwrite(r.memory, at, b)}
      /\ a.data \in {r.data, Overwrite(r.data, r.pos, b)}
      /\ a.dataHash \in {r.dataHash, r.dataHash \o b}
  BY AbsorbMembers DEF ReaderOK
<1>5. a.length = r.length
  BY <1>4 DEF SameBut, ReaderMembers
<1> HIDE DEF a, at
<1>6. ReaderOK(a)
  BY <1>2, <1>3, <1>4, <1>5 DEF ReaderOK
<1> QED
  BY <1>6 DEF a

LEMMA AbsorbNothing ==
  ASSUME NEW r, ReaderOK(r)
  PROVE  Absorb(r, <<>>) = r
<1> DEFINE a == Absorb(r, <<>>)
           at == PlaceOf(r.state) + r.pos
<1>1. at \in Nat
  BY SizesAreNumbers DEF ReaderOK
<1>2. Overwrite(r.memory, at, <<>>) = r.memory /\ Overwrite(r.data, r.pos, <<>>) = r.data
  BY <1>1, SizesAreNumbers, OverwriteNothing DEF ReaderOK
<1>3. r.pos + Len(<<>>) = r.pos /\ r.hash \o <<>> = r.hash /\ r.dataHash \o <<>> = r.dataHash
  BY DEF ReaderOK
<1>4. /\ IsReader(a) /\ SameBut(a, r, {"pos", "hash", "memory", "data", "dataHash"})
      /\ a.pos = r.pos + Len(<<>>) /\ a.hash = r.hash \o <<>>
      /\ a.memory \in {r.memory, Overwrite(r.memory, at, <<>>)}
      /\ a.data \in {r.data, Overwrite(r.data, r.pos, <<>>)}
      /\ a.dataHash \in {r.dataHash, r.dataHash \o <<>>}
  BY AbsorbMembers DEF ReaderOK
<1> HIDE DEF a, at
<1>5. SameBut(a, r, {})
  BY <1>2, <1>3, <1>4 DEF SameBut
<1>6. a = r
  BY <1>4, <1>5, SameReader DEF ReaderOK
<1> QED
  BY <1>6 DEF a

LEMMA JoinedBytes ==
  \A x, y, z \in Seq(Byte) : (x \o y) \o z = x \o (y \o z)
<1>1. ASSUME NEW x \in Seq(Byte), NEW y \in Seq(Byte), NEW z \in Seq(Byte)
      PROVE  (x \o y) \o z = x \o (y \o z)
  BY ConcatAssociative, SMT
<1> QED
  BY <1>1, Zenon

LEMMA JoinedHashes ==
  ASSUME NEW r, ReaderOK(r), NEW a \in Seq(Byte), NEW b \in Seq(Byte)
  PROVE  /\ (r.hash \o a) \o b = r.hash \o (a \o b)
         /\ (r.dataHash \o a) \o b = r.dataHash \o (a \o b)
<1> DEFINE h == r.hash
           d == r.dataHash
<1>1. h \in Seq(Byte) /\ d \in Seq(Byte)
  BY DEF ReaderOK
<1> HIDE DEF h, d
<1>2. (h \o a) \o b = h \o (a \o b)
  BY <1>1, JoinedBytes, Zenon
<1>3. (d \o a) \o b = d \o (a \o b)
  BY <1>1, JoinedBytes, Zenon
<1> QED
  BY <1>2, <1>3 DEF h, d

LEMMA AbsorbTwice ==
  ASSUME NEW r, ReaderOK(r), NEW a \in Seq(Byte), NEW b \in Seq(Byte)
  PROVE  Absorb(Absorb(r, a), b) = Absorb(r, a \o b)
<1> DEFINE s == Absorb(r, a)
           t == Absorb(s, b)
           u == Absorb(r, a \o b)
           changed == {"pos", "hash", "memory", "data", "dataHash"}
           at == PlaceOf(r.state) + r.pos
           hashed == /\ r.state \in {TLV_ACTION_DATA_SIZE, TLV_ACTION_DATA}
                     /\ ~KnownIn(r.memory) /\ r.allowed
           copied == r.state = TLV_ACTION_DATA /\ KnownIn(r.memory)
           buffered == r.state \in BufferedFields
<1>1. /\ IsReader(s) /\ SameBut(s, r, changed)
      /\ s.pos = r.pos + Len(a) /\ s.hash = r.hash \o a
      /\ s.memory = IF buffered THEN Overwrite(r.memory, at, a) ELSE r.memory
      /\ s.data = IF copied THEN Overwrite(r.data, r.pos, a) ELSE r.data
      /\ s.dataHash = IF hashed THEN r.dataHash \o a ELSE r.dataHash
  BY AbsorbMembers, Zenon DEF ReaderOK
<1>2. s.state = r.state /\ s.allowed = r.allowed
  BY <1>1 DEF SameBut, ReaderMembers
<1>3. ~buffered => s.memory = r.memory
  BY <1>1
<1>4. copied \/ hashed => ~buffered
  BY DEF BufferedFields, ZeroSizeFields
<1>5. /\ IsReader(t) /\ SameBut(t, s, changed)
      /\ t.pos = s.pos + Len(b) /\ t.hash = s.hash \o b
      /\ t.memory = IF s.state \in BufferedFields
                    THEN Overwrite(s.memory, PlaceOf(s.state) + s.pos, b) ELSE s.memory
      /\ t.data = IF s.state = TLV_ACTION_DATA /\ KnownIn(s.memory)
                  THEN Overwrite(s.data, s.pos, b) ELSE s.data
      /\ t.dataHash = IF /\ s.state \in {TLV_ACTION_DATA_SIZE, TLV_ACTION_DATA}
                         /\ ~KnownIn(s.memory) /\ s.allowed
                      THEN s.dataHash \o b ELSE s.dataHash
  BY <1>1, AbsorbMembers, Zenon
<1>6. /\ IsReader(u) /\ SameBut(u, r, changed)
      /\ u.pos = r.pos + Len(a \o b) /\ u.hash = r.hash \o (a \o b)
      /\ u.memory = IF buffered THEN Overwrite(r.memory, at, a \o b) ELSE r.memory
      /\ u.data = IF copied THEN Overwrite(r.data, r.pos, a \o b) ELSE r.data
      /\ u.dataHash = IF hashed THEN r.dataHash \o (a \o b) ELSE r.dataHash
  BY AbsorbMembers, Zenon DEF ReaderOK
<1>7. at \in Nat /\ PlaceOf(r.state) \in Nat /\ r.pos \in Nat /\ Len(a) \in Nat /\ Len(b) \in Nat
      /\ Len(a \o b) = Len(a) + Len(b)
  BY SizesAreNumbers DEF ReaderOK
<1>8. (r.hash \o a) \o b = r.hash \o (a \o b) /\ (r.dataHash \o a) \o b = r.dataHash \o (a \o b)
  BY JoinedHashes, Zenon
<1>9. /\ Overwrite(Overwrite(r.memory, at, a), at + Len(a), b) = Overwrite(r.memory, at, a \o b)
      /\ Overwrite(Overwrite(r.data, r.pos, a), r.pos + Len(a), b) = Overwrite(r.data, r.pos, a \o b)
  <2>1. \A n \in Nat : \A m \in [1..n -> Byte] : \A p \in Nat :
            Overwrite(Overwrite(m, p, a), p + Len(a), b) = Overwrite(m, p, a \o b)
    BY OverwriteTwice
  <2>2. r.memory \in [1..MemorySize -> Byte] /\ r.data \in [1..ActionDataSize -> Byte]
    BY DEF ReaderOK
  <2> HIDE DEF at
  <2> QED
    BY <1>7, <2>1, <2>2, SizesAreNumbers, Zenon
<1>10. PlaceOf(s.state) + s.pos = at + Len(a)
  BY <1>1, <1>2, <1>7
<1>11. t.pos = u.pos
  BY <1>1, <1>5, <1>6, <1>7
<1>12. t.hash = u.hash
  BY <1>1, <1>5, <1>6, <1>8
<1>13. t.memory = u.memory
  <2>1. /\ t.memory = IF buffered THEN Overwrite(s.memory, at + Len(a), b) ELSE s.memory
        /\ s.memory = IF buffered THEN Overwrite(r.memory, at, a) ELSE r.memory
        /\ u.memory = IF buffered THEN Overwrite(r.memory, at, a \o b) ELSE r.memory
    BY <1>1, <1>2, <1>5, <1>6, <1>10
  <2> HIDE DEF s, t, u, at, buffered
  <2> QED
    BY <1>9, <2>1, Zenon
<1>14. t.data = u.data
  <2>1. (s.state = TLV_ACTION_DATA /\ KnownIn(s.memory)) <=> copied
    <3>1. r.state = TLV_ACTION_DATA => s.memory = r.memory
      BY <1>3 DEF BufferedFields, ZeroSizeFields
    <3> QED
      BY <1>2, <3>1
  <2> HIDE DEF s, t, u, copied
  <2>2. CASE copied
    <3>1. /\ t.data = Overwrite(s.data, s.pos, b) /\ s.data = Overwrite(r.data, r.pos, a)
          /\ u.data = Overwrite(r.data, r.pos, a \o b)
      BY <1>1, <1>5, <1>6, <2>1, <2>2, Zenon
    <3>2. s.pos = r.pos + Len(a)
      BY <1>1
    <3> QED
      BY <1>9, <3>1, <3>2, Zenon
  <2>3. CASE ~copied
    BY <1>1, <1>5, <1>6, <2>1, <2>3, Zenon
  <2> QED
    BY <2>2, <2>3
<1>15. t.dataHash = u.dataHash
  <2> DEFINE hashes == /\ s.state \in {TLV_ACTION_DATA_SIZE, TLV_ACTION_DATA}
                       /\ ~KnownIn(s.memory) /\ s.allowed
  <2>1. hashes <=> hashed
    <3>1. r.state \in {TLV_ACTION_DATA_SIZE, TLV_ACTION_DATA} => s.memory = r.memory
      BY <1>3 DEF BufferedFields, ZeroSizeFields
    <3> QED
      BY <1>2, <3>1
  <2>2. t.dataHash = IF hashes THEN s.dataHash \o b ELSE s.dataHash
    BY <1>5
  <2> HIDE DEF s, t, u, hashed, hashes
  <2>3. CASE hashed
    <3>1. /\ t.dataHash = s.dataHash \o b /\ s.dataHash = r.dataHash \o a
          /\ u.dataHash = r.dataHash \o (a \o b)
      BY <1>1, <1>6, <2>1, <2>2, <2>3, Zenon
    <3> QED
      BY <1>8, <3>1, Zenon
  <2>4. CASE ~hashed
    BY <1>1, <1>6, <2>1, <2>2, <2>4, Zenon
  <2> QED
    BY <2>3, <2>4
<1>16. SameBut(t, u, {})
  <2>1. \A x \in ReaderMembers : x \notin changed => t[x] = u[x]
    BY <1>1, <1>5, <1>6, Zenon DEF SameBut
  <2>2. \A x \in changed : t[x] = u[x]
    <3> HIDE DEF t, u, s
    <3> QED
      BY <1>11, <1>12, <1>13, <1>14, <1>15
  <2> HIDE DEF t, u, s, changed
  <2> QED
    BY <2>1, <2>2, Zenon DEF SameBut
<1>17. t = u
  <2> HIDE DEF t, u
  <2> QED
    BY <1>5, <1>6, <1>16, SameReader
<1> QED
  BY <1>17

----------------------------------------------------------------------------
(* What a complete field does to the reader.                               *)
LEMMA CloseActionListSizeMembers ==
  ASSUME NEW r, IsReader(r)
  PROVE  LET f == ForwardCleared(r, r.state + 1)
             c == CloseActionListSize(r)
         IN  /\ IsReader(f) /\ IsReader(c) /\ c.number = SizeIn(r) /\ c.index = 0
             /\ SameBut(c, f, {"number", "index"})
<1> DEFINE f == ForwardCleared(r, r.state + 1)
<1>1. IsReader(f)
  BY ForwardClearedMembers
<1> HIDE DEF f
<1>2. LET c == [f EXCEPT !.number = SizeIn(r), !.index = 0]
      IN  /\ IsReader(c) /\ c.number = SizeIn(r) /\ c.index = 0
          /\ SameBut(c, f, {"number", "index"})
  BY <1>1 DEF IsReader, SameBut, ReaderMembers
<1> QED
  BY <1>1, <1>2, Zenon DEF f, CloseActionListSize

LEMMA CloseAuthorizationListSizeMembers ==
  ASSUME NEW r, IsReader(r)
  PROVE  LET f == ForwardCleared(r, r.state + 1)
             c == CloseAuthorizationListSize(r)
         IN  /\ IsReader(f) /\ IsReader(c) /\ c.authNumber = SizeIn(r) /\ c.authIndex = 0
             /\ SameBut(c, f, {"authNumber", "authIndex"})
<1> DEFINE f == ForwardCleared(r, r.state + 1)
<1>1. IsReader(f)
  BY ForwardClearedMembers
<1> HIDE DEF f
<1>2. LET c == [f EXCEPT !.authNumber = SizeIn(r), !.authIndex = 0]
      IN  /\ IsReader(c) /\ c.authNumber = SizeIn(r) /\ c.authIndex = 0
          /\ SameBut(c, f, {"authNumber", "authIndex"})
  BY <1>1 DEF IsReader, SameBut, ReaderMembers
<1> QED
  BY <1>1, <1>2, Zenon DEF f, CloseAuthorizationListSize

AfterPermission(r) ==
    IF NextPermission(r) # r.authNumber THEN TLV_AUTHORIZATION_ACTOR ELSE r.state + 1
LEMMA ClosePermissionMembers ==
  ASSUME NEW r, IsReader(r)
  PROVE  LET f == ForwardCleared(r, AfterPermission(r))
             c == ClosePermission(r)
         IN  /\ IsReader(f) /\ IsReader(c) /\ c.authIndex = NextPermission(r)
             /\ SameBut(c, f, {"authIndex"})
<1> DEFINE f == ForwardCleared(r, AfterPermission(r))
<1>1. IsReader(f)
  BY ForwardClearedMembers
<1> HIDE DEF f
<1>2. LET c == [f EXCEPT !.authIndex = NextPermission(r)]
      IN  /\ IsReader(c) /\ c.authIndex = NextPermission(r)
          /\ SameBut(c, f, {"authIndex"})
  BY <1>1 DEF IsReader, SameBut, ReaderMembers
<1> QED
  BY <1>1, <1>2, Zenon DEF f, ClosePermission, AfterPermission

AfterAction(r) ==
    IF NextAction(r) < r.number THEN TLV_ACTION_ACCOUNT ELSE TLV_TX_EXTENSION_LIST_SIZE
LEMMA CloseActionDataMembers ==
  ASSUME NEW r, IsReader(r), ~(KnownIn(r.memory) /\ ArgumentsIn(r).asserts)
  PROVE  LET f == Forward(r, AfterAction(r))
             c == CloseActionData(r)
         IN  /\ IsReader(f) /\ IsReader(c) /\ c.index = NextAction(r)
             /\ c.reviews = Append(r.reviews, ReviewIn(r))
             /\ c.dataHash = IF KnownIn(r.memory) THEN r.dataHash ELSE <<>>
             /\ SameBut(c, f, {"index", "reviews", "dataHash"})
<1> DEFINE f == Forward(r, AfterAction(r))
           i == NextAction(r)
           v == Append(r.reviews, ReviewIn(r))
           h == IF KnownIn(r.memory) THEN r.dataHash ELSE <<>>
<1>1. IsReader(f)
  BY ForwardMembers
<1> HIDE DEF f, i, v, h
<1>2. LET c == [f EXCEPT !.index = i, !.reviews = v, !.dataHash = h]
      IN  /\ IsReader(c) /\ c.index = i /\ c.reviews = v /\ c.dataHash = h
          /\ SameBut(c, f, {"index", "reviews", "dataHash"})
  BY <1>1 DEF IsReader, SameBut, ReaderMembers
<1>3. CloseActionData(r) = [f EXCEPT !.index = i, !.reviews = v, !.dataHash = h]
  BY Zenon DEF CloseActionData, f, i, v, h, AfterAction
<1>4. LET c == CloseActionData(r)
      IN  /\ IsReader(c) /\ c.index = i /\ c.reviews = v /\ c.dataHash = h
          /\ SameBut(c, f, {"index", "reviews", "dataHash"})
  BY <1>2, <1>3, Zenon
<1> QED
  BY <1>1, <1>4, Zenon DEF f, i, v, h

(* No byte takes a review back.                                            *)
Grows(s, r) == s.reviews = r.reviews \/ \E x : s.reviews = Append(r.reviews, x)

LEMMA SameReviews ==
  ASSUME NEW r, NEW s, NEW members, SameBut(s, r, members), "reviews" \notin members
  PROVE  s.reviews = r.reviews
BY DEF SameBut, ReaderMembers

LEMMA CloseGrows ==
  ASSUME NEW r, IsReader(r)
  PROVE  IsReader(Close(r)) /\ Grows(Close(r), r)
<1>1. ASSUME NEW v PROVE IsReader(Stop(r, v)) /\ Grows(Stop(r, v), r)
  <2>1. IsReader(Stop(r, v)) /\ SameBut(Stop(r, v), r, {"verdict"})
    BY StopMembers
  <2> QED
    BY <2>1, SameReviews DEF Grows
<1>2. ASSUME NEW n PROVE IsReader(Forward(r, n)) /\ Forward(r, n).reviews = r.reviews
  <2>1. IsReader(Forward(r, n)) /\ SameBut(Forward(r, n), r, {"state", "inField"})
    BY ForwardMembers
  <2> QED
    BY <2>1, SameReviews
<1>3. ASSUME NEW n PROVE IsReader(ForwardCleared(r, n)) /\ ForwardCleared(r, n).reviews = r.reviews
  <2>1. /\ IsReader(ForwardCleared(r, n))
        /\ SameBut(ForwardCleared(r, n), r, {"state", "inField", "memory"})
    BY ForwardClearedMembers
  <2> QED
    BY <2>1, SameReviews
<1>4. IsReader(CloseZeroSize(r)) /\ Grows(CloseZeroSize(r), r)
  BY <1>1, <1>3, Zenon DEF CloseZeroSize, Grows
<1>5. IsReader(CloseActionListSize(r)) /\ Grows(CloseActionListSize(r), r)
  <2>1. /\ IsReader(CloseActionListSize(r))
        /\ SameBut(CloseActionListSize(r), ForwardCleared(r, r.state + 1), {"number", "index"})
    BY CloseActionListSizeMembers, Zenon
  <2>2. CloseActionListSize(r).reviews = ForwardCleared(r, r.state + 1).reviews
    BY <2>1, SameReviews
  <2> QED
    BY <1>3, <2>1, <2>2, Zenon DEF Grows
<1>6. IsReader(CloseAuthorizationListSize(r)) /\ Grows(CloseAuthorizationListSize(r), r)
  <2>1. /\ IsReader(CloseAuthorizationListSize(r))
        /\ SameBut(CloseAuthorizationListSize(r), ForwardCleared(r, r.state + 1),
                   {"authNumber", "authIndex"})
    BY CloseAuthorizationListSizeMembers, Zenon
  <2>2. CloseAuthorizationListSize(r).reviews = ForwardCleared(r, r.state + 1).reviews
    BY <2>1, SameReviews
  <2> QED
    BY <1>3, <2>1, <2>2, Zenon DEF Grows
<1>7. IsReader(ClosePermission(r)) /\ Grows(ClosePermission(r), r)
  <2>1. /\ IsReader(ClosePermission(r))
        /\ SameBut(ClosePermission(r), ForwardCleared(r, AfterPermission(r)), {"authIndex"})
    BY ClosePermissionMembers, Zenon
  <2>2. ClosePermission(r).reviews = ForwardCleared(r, AfterPermission(r)).reviews
    BY <2>1, SameReviews
  <2> QED
    BY <1>3, <2>1, <2>2, Zenon DEF Grows
<1>8. IsReader(CloseActionData(r)) /\ Grows(CloseActionData(r), r)
  <2>1. CASE KnownIn(r.memory) /\ ArgumentsIn(r).asserts
    BY <1>1, <2>1, Zenon DEF CloseActionData
  <2>2. CASE ~(KnownIn(r.memory) /\ ArgumentsIn(r).asserts)
    <3>1. /\ IsReader(CloseActionData(r))
          /\ CloseActionData(r).reviews = Append(r.reviews, ReviewIn(r))
      BY <2>2, CloseActionDataMembers, Zenon
    <3> QED
      BY <3>1, Zenon DEF Grows
  <2> QED
    BY <2>1, <2>2
<1>9. ASSUME NEW n PROVE IsReader(Forward(r, n)) /\ Grows(Forward(r, n), r)
  BY <1>2, Zenon DEF Grows
<1> HIDE DEF Grows
<1> QED
  BY <1>4, <1>5, <1>6, <1>7, <1>8, <1>9 DEF Close

LEMMA SettleGrows ==
  ASSUME NEW r, IsReader(r)
  PROVE  IsReader(Settle(r)) /\ Grows(Settle(r), r)
<1>1. ASSUME NEW v PROVE IsReader(Stop(r, v)) /\ Grows(Stop(r, v), r)
  <2>1. IsReader(Stop(r, v)) /\ SameBut(Stop(r, v), r, {"verdict"})
    BY StopMembers
  <2> QED
    BY <2>1, SameReviews DEF Grows
<1>2. Grows(r, r)
  BY DEF Grows
<1> HIDE DEF Grows
<1> QED
  BY <1>1, <1>2, CloseGrows, Zenon DEF Settle

LEMMA ReadByteGrows ==
  ASSUME NEW r, IsReader(r), NEW byte
  PROVE  IsReader(ReadByte(r, byte)) /\ Grows(ReadByte(r, byte), r)
<1>1. Grows(r, r)
  BY DEF Grows
<1>2. ASSUME NEW s, IsReader(s), s.reviews = r.reviews
      PROVE  IsReader(Settle(s)) /\ Grows(Settle(s), r)
  BY <1>2, SettleGrows, Zenon DEF Grows
<1>3. IsReader(Absorb(r, <<byte>>)) /\ Absorb(r, <<byte>>).reviews = r.reviews
  <2>1. /\ IsReader(Absorb(r, <<byte>>))
        /\ SameBut(Absorb(r, <<byte>>), r, {"pos", "hash", "memory", "data", "dataHash"})
    BY AbsorbMembers, Zenon
  <2> QED
    BY <2>1, SameReviews
<1>4. ASSUME NEW n PROVE IsReader(Opened(r, n)) /\ Opened(r, n).reviews = r.reviews
  <2>1. IsReader(Opened(r, n)) /\ SameBut(Opened(r, n), r, {"header", "inField", "length", "pos"})
    BY OpenedMembers
  <2> QED
    BY <2>1, SameReviews
<1>5. ASSUME NEW h, NEW w, NEW s,
             s = [r EXCEPT !.header = h, !.verdict = IF w THEN "STREAM_FAULT" ELSE @]
      PROVE  IsReader(s) /\ Grows(s, r)
  BY <1>5 DEF IsReader, ReaderMembers, Grows
<1>6. IsReader(ReadHeaderByte(r, byte)) /\ Grows(ReadHeaderByte(r, byte), r)
  <2> DEFINE header == Append(r.header, byte)
             tlv == tlvTryDecode(header)
  <2>1. CASE tlv.decoded
    <3>1. ReadHeaderByte(r, byte) = Settle(Opened(r, tlv.length))
      BY <2>1, Zenon DEF ReadHeaderByte
    <3> HIDE DEF tlv
    <3> QED
      BY <1>2, <1>4, <3>1, Zenon
  <2>2. CASE ~tlv.decoded
    <3> DEFINE wrong == ~tlv.valid \/ Len(header) = TlvBufferSize
    <3>1. ReadHeaderByte(r, byte)
          = [r EXCEPT !.header = header, !.verdict = IF wrong THEN "STREAM_FAULT" ELSE @]
      BY <2>2, Zenon DEF ReadHeaderByte
    <3> HIDE DEF wrong, header
    <3> QED
      BY <1>5, <3>1, Zenon
  <2> QED
    BY <2>1, <2>2
<1> HIDE DEF Grows
<1> QED
  BY <1>1, <1>2, <1>3, <1>6, Zenon DEF ReadByte

IsPrefixOf(s, r) == \A i \in 1..Len(s) : i \in 1..Len(r) /\ r[i] = s[i]
IsASequence(s) == \E T : s \in Seq(T)

LEMMA GrowsPrefix ==
  ASSUME NEW r, NEW s, IsASequence(r.reviews), Grows(s, r)
  PROVE  IsASequence(s.reviews) /\ IsPrefixOf(r.reviews, s.reviews)
<1>1. CASE s.reviews = r.reviews
  BY <1>1 DEF IsPrefixOf
<1>2. ASSUME NEW x, s.reviews = Append(r.reviews, x)
      PROVE  IsASequence(s.reviews) /\ IsPrefixOf(r.reviews, s.reviews)
  <2>1. PICK T : r.reviews \in Seq(T)
    BY DEF IsASequence
  <2>2. r.reviews \in Seq(T \cup {x})
    BY <2>1
  <2> DEFINE q == r.reviews
  <2> HIDE DEF q
  <2>3. q \in Seq(T \cup {x})
    BY <2>2 DEF q
  <2>4. Append(q, x) \in Seq(T \cup {x}) /\ IsPrefixOf(q, Append(q, x))
    BY <2>3 DEF IsPrefixOf
  <2> QED
    BY <1>2, <2>4, Zenon DEF q, IsASequence
<1> QED
  BY <1>1, <1>2 DEF Grows

LEMMA ReadingGrows ==
  ASSUME NEW t, t.bytes \in Seq(Byte), NEW n \in 0..Len(t.bytes)
  PROVE  /\ IsReader(Reading(t)[n]) /\ IsASequence(Reading(t)[n].reviews)
         /\ \A m \in n..Len(t.bytes) : IsPrefixOf(Reading(t)[n].reviews, Reading(t)[m].reviews)
<1> DEFINE F == Reading(t)
           N == Len(t.bytes)
           P(k) == k <= N => IsReader(F[k]) /\ IsASequence(F[k].reviews)
           Q(k) == n + k <= N => IsPrefixOf(F[n].reviews, F[n + k].reviews)
           S == {k \in Nat : P(k)}
           T == {k \in Nat : Q(k)}
<1>1. N \in Nat /\ n \in Nat /\ n <= N
  OBVIOUS
<1>2. F[0] = Reader(t) /\ \A k \in 0..(N - 1) : F[k + 1] = ReadByte(F[k], t.bytes[k + 1])
  BY ReadingSteps
<1>3. Reader(t).reviews \in Seq({})
  BY DEF Reader
<1>4. P(0)
  BY <1>2, <1>3, ReaderIsReader, Zenon DEF IsASequence
<1> HIDE DEF F, N
<1>5. ASSUME NEW k \in Nat, k < N, IsReader(F[k]), IsASequence(F[k].reviews)
      PROVE  IsReader(F[k + 1]) /\ IsASequence(F[k + 1].reviews)
             /\ IsPrefixOf(F[k].reviews, F[k + 1].reviews)
  <2>1. F[k + 1] = ReadByte(F[k], t.bytes[k + 1])
    <3>1. k \in 0..(N - 1)
      BY <1>1, <1>5
    <3> QED
      BY <1>2, <3>1, Zenon
  <2> QED
    BY <1>5, <2>1, ReadByteGrows, GrowsPrefix, Zenon
<1>6. ASSUME NEW k \in Nat, P(k) PROVE P(k + 1)
  BY <1>1, <1>5, <1>6
<1>7. \A k \in Nat : P(k)
  <2>1. 0 \in S /\ \A k \in Nat : k \in S => k + 1 \in S
    <3> HIDE DEF P
    <3> QED
      BY <1>4, <1>6
  <2> HIDE DEF S
  <2>2. Nat \subseteq S
    BY <2>1, NatSetInduction, Zenon
  <2> QED
    BY <2>2 DEF S
<1>8. Q(0)
  BY <1>1 DEF IsPrefixOf
<1>9. ASSUME NEW k \in Nat, Q(k) PROVE Q(k + 1)
  <2>1. CASE n + (k + 1) <= N
    <3>1. n + k \in Nat /\ n + k < N /\ (n + k) + 1 = n + (k + 1)
      BY <1>1, <2>1
    <3>2. IsReader(F[n + k]) /\ IsASequence(F[n + k].reviews)
      BY <1>1, <1>7, <3>1
    <3>3. IsPrefixOf(F[n + k].reviews, F[n + (k + 1)].reviews)
      BY <1>5, <3>1, <3>2
    <3>4. IsPrefixOf(F[n].reviews, F[n + k].reviews)
      BY <1>1, <1>9, <3>1
    <3> QED
      BY <3>3, <3>4, Zenon DEF IsPrefixOf
  <2> QED
    BY <2>1
<1>10. \A k \in Nat : Q(k)
  <2>1. 0 \in T /\ \A k \in Nat : k \in T => k + 1 \in T
    <3> HIDE DEF Q
    <3> QED
      BY <1>8, <1>9
  <2> HIDE DEF T
  <2>2. Nat \subseteq T
    BY <2>1, NatSetInduction, Zenon
  <2> QED
    BY <2>2 DEF T
<1>11. ASSUME NEW m \in n..N PROVE IsPrefixOf(F[n].reviews, F[m].reviews)
  <2>1. m - n \in Nat /\ n + (m - n) = m /\ m <= N
    BY <1>1
  <2>2. Q(m - n)
    BY <1>10, <2>1
  <2> QED
    BY <2>1, <2>2
<1> QED
  BY <1>1, <1>7, <1>11 DEF F, N

(* A reader that has its verdict keeps it.                                 *)
ReadsOn(r) == r.verdict = "STREAM_PROCESSING" /\ r.state # TLV_DONE
LEMMA ReadingStays ==
  ASSUME NEW t, t.bytes \in Seq(Byte), NEW n \in 0..Len(t.bytes), ~ReadsOn(Reading(t)[n])
  PROVE  Result(t) = Reading(t)[n]
<1> DEFINE F == Reading(t)
           N == Len(t.bytes)
           Q(k) == n + k <= N => F[n + k] = F[n]
           T == {k \in Nat : Q(k)}
<1>1. N \in Nat /\ n \in Nat /\ n <= N
  OBVIOUS
<1>2. \A k \in 0..(N - 1) : F[k + 1] = ReadByte(F[k], t.bytes[k + 1])
  BY ReadingSteps
<1>3. \A byte : ReadByte(F[n], byte) = F[n]
  BY Zenon DEF ReadByte, ReadsOn
<1> HIDE DEF F, N
<1>4. Q(0)
  BY <1>1
<1>5. ASSUME NEW k \in Nat, Q(k) PROVE Q(k + 1)
  <2>1. CASE n + (k + 1) <= N
    <3>1. n + k \in 0..(N - 1) /\ (n + k) + 1 = n + (k + 1) /\ n + k <= N
      BY <1>1, <2>1
    <3>2. F[n + k] = F[n] /\ F[(n + k) + 1] = ReadByte(F[n + k], t.bytes[(n + k) + 1])
      BY <1>2, <1>5, <3>1, Zenon
    <3>3. F[n + (k + 1)] = ReadByte(F[n], t.bytes[(n + k) + 1])
      BY <3>1, <3>2, Zenon
    <3> QED
      BY <1>3, <3>3, Zenon
  <2> QED
    BY <2>1
<1>6. \A k \in Nat : Q(k)
  <2>1. 0 \in T /\ \A k \in Nat : k \in T => k + 1 \in T
    <3> HIDE DEF Q
    <3> QED
      BY <1>4, <1>5
  <2> HIDE DEF T
  <2>2. Nat \subseteq T
    BY <2>1, NatSetInduction, Zenon
  <2> QED
    BY <2>2 DEF T
<1>7. N - n \in Nat /\ n + (N - n) = N
  BY <1>1
<1>8. Q(N - n)
  BY <1>6, <1>7
<1>9. F[N] = F[n]
  BY <1>1, <1>7, <1>8
<1> QED
  BY <1>9 DEF Result, F, N

(* A field of which some bytes are there, read one by one or at once.      *)
InSameField(a, r) ==
    /\ a.verdict = r.verdict /\ a.state = r.state /\ a.inField = r.inField
    /\ a.length = r.length /\ a.allowed = r.allowed
    /\ r.state = TLV_ACTION_DATA => a.memory = r.memory
    /\ Refused(a) <=> Refused(r)
LEMMA AbsorbStays ==
  ASSUME NEW r, ReaderOK(r), NEW b \in Seq(Byte)
  PROVE  InSameField(Absorb(r, b), r) /\ Absorb(r, b).pos = r.pos + Len(b)
<1> DEFINE a == Absorb(r, b)
<1>1. /\ SameBut(a, r, {"pos", "hash", "memory", "data", "dataHash"})
      /\ a.pos = r.pos + Len(b)
      /\ a.memory = IF r.state \in BufferedFields
                    THEN Overwrite(r.memory, PlaceOf(r.state) + r.pos, b) ELSE r.memory
  BY AbsorbMembers, Zenon DEF ReaderOK
<1> HIDE DEF a
<1>2. /\ a.verdict = r.verdict /\ a.state = r.state /\ a.inField = r.inField
      /\ a.length = r.length /\ a.allowed = r.allowed
  BY <1>1 DEF SameBut, ReaderMembers
<1>3. r.state = TLV_ACTION_DATA => a.memory = r.memory
  BY <1>1 DEF BufferedFields, ZeroSizeFields
<1>4. Refused(a) <=> Refused(r)
  BY <1>2, <1>3, Zenon DEF Refused
<1> QED
  BY <1>1, <1>2, <1>3, <1>4 DEF a, InSameField

LEMMA PartOf ==
  \A s \in Seq(Byte) : \A a, n \in Nat :
      a + n <= Len(s) =>
          /\ SubSeq(s, a + 1, a + n) \in Seq(Byte)
          /\ Len(SubSeq(s, a + 1, a + n)) = n
          /\ \A i \in 1..n : SubSeq(s, a + 1, a + n)[i] = s[a + i]
<1> SUFFICES ASSUME NEW s \in Seq(Byte), NEW a \in Nat, NEW n \in Nat, a + n <= Len(s)
             PROVE  /\ SubSeq(s, a + 1, a + n) \in Seq(Byte)
                    /\ Len(SubSeq(s, a + 1, a + n)) = n
                    /\ \A i \in 1..n : SubSeq(s, a + 1, a + n)[i] = s[a + i]
  OBVIOUS
<1>1. SubSeq(s, a + 1, a + n) \in Seq(Byte)
  OBVIOUS
<1>2. Len(SubSeq(s, a + 1, a + n)) = n
  OBVIOUS
<1>3. \A i \in 1..n : SubSeq(s, a + 1, a + n)[i] = s[a + i]
  OBVIOUS
<1> QED
  BY <1>1, <1>2, <1>3

LEMMA PartFacts ==
  ASSUME NEW s \in Seq(Byte), NEW k \in Nat, NEW j \in Nat, k + j <= Len(s)
  PROVE  /\ SubSeq(s, k + 1, k + 0) = <<>>
         /\ SubSeq(s, k + 1, k + j) \in Seq(Byte) /\ Len(SubSeq(s, k + 1, k + j)) = j
         /\ k + j < Len(s) =>
                /\ s[k + j + 1] \in Byte
                /\ SubSeq(s, k + 1, k + (j + 1)) = SubSeq(s, k + 1, k + j) \o <<s[k + j + 1]>>
<1> DEFINE p == SubSeq(s, k + 1, k + j)
           q == SubSeq(s, k + 1, k + (j + 1))
<1>1. SubSeq(s, k + 1, k + 0) = <<>>
  OBVIOUS
<1>2. p \in Seq(Byte) /\ Len(p) = j /\ \A i \in 1..j : p[i] = s[k + i]
  BY PartOf, Zenon
<1>3. ASSUME k + j < Len(s)
      PROVE  s[k + j + 1] \in Byte /\ q = p \o <<s[k + j + 1]>>
  <2>1. s[k + j + 1] \in Byte
    BY <1>3
  <2>2. q \in Seq(Byte) /\ Len(q) = j + 1 /\ \A i \in 1..(j + 1) : q[i] = s[k + i]
    <3>1. j + 1 \in Nat /\ k + (j + 1) <= Len(s)
      BY <1>3
    <3> QED
      BY <3>1, PartOf, Zenon
  <2> DEFINE b == s[k + j + 1]
             u == p \o <<b>>
  <2> HIDE DEF p, q, b
  <2>3. /\ u \in Seq(Byte) /\ Len(u) = j + 1 /\ u[j + 1] = b
        /\ \A i \in 1..j : u[i] = p[i]
    BY <1>2, <2>1 DEF b
  <2> HIDE DEF u
  <2>4. k + (j + 1) = k + j + 1
    OBVIOUS
  <2>5. \A i \in 1..(j + 1) : q[i] = u[i]
    <3>1. ASSUME NEW i \in 1..(j + 1) PROVE q[i] = u[i]
      <4>1. CASE i = j + 1
        BY <2>2, <2>3, <2>4, <4>1 DEF b
      <4>2. CASE i # j + 1
        <5>1. i \in 1..j
          BY <4>2
        <5> QED
          BY <1>2, <2>2, <2>3, <5>1
      <4> QED
        BY <4>1, <4>2
    <3> QED
      BY <3>1
  <2>6. q = u
    BY <2>2, <2>3, <2>5
  <2> QED
    BY <2>1, <2>6 DEF u, b
<1> QED
  BY <1>1, <1>2, <1>3

FitsBefore(t, k, r, m) ==
    \A j \in 0..(m - 1) : ~TooLong(Absorb(r, SubSeq(t.bytes, k + 1, k + j)))
LEMMA ReadingField ==
  ASSUME NEW t, t.bytes \in Seq(Byte), NEW k \in Nat,
         NEW r, ReaderOK(r), ReadsOn(r), r.inField, ~Refused(r),
         Reading(t)[k] = Settle(r),
         NEW m \in Nat, k + m <= Len(t.bytes), r.pos + m <= r.length,
         FitsBefore(t, k, r, m)
  PROVE  Reading(t)[k + m] = Settle(Absorb(r, SubSeq(t.bytes, k + 1, k + m)))
<1> DEFINE F == Reading(t)
           N == Len(t.bytes)
           Part(j) == SubSeq(t.bytes, k + 1, k + j)
           Q(j) == j <= m => F[k + j] = Settle(Absorb(r, Part(j)))
           T == {j \in Nat : Q(j)}
<1>1. N \in Nat /\ k + m <= N /\ r.pos \in Nat /\ r.length \in Nat /\ k + 0 = k
  BY DEF ReaderOK
<1>2. \A n \in 0..(N - 1) : F[n + 1] = ReadByte(F[n], t.bytes[n + 1])
  BY ReadingSteps
<1>3. /\ Part(0) = <<>>
      /\ \A j \in Nat : j <= m => Part(j) \in Seq(Byte) /\ Len(Part(j)) = j
      /\ \A j \in Nat : j < m =>
             t.bytes[k + j + 1] \in Byte /\ Part(j + 1) = Part(j) \o <<t.bytes[k + j + 1]>>
  <2>1. ASSUME NEW j \in Nat, j <= m PROVE k + j <= N /\ (j < m => k + j < N)
    BY <1>1, <2>1
  <2>2. Part(0) = <<>>
    BY <1>1, PartFacts
  <2>3. ASSUME NEW j \in Nat, j <= m
        PROVE  /\ Part(j) \in Seq(Byte) /\ Len(Part(j)) = j
               /\ j < m => /\ t.bytes[k + j + 1] \in Byte
                           /\ Part(j + 1) = Part(j) \o <<t.bytes[k + j + 1]>>
    <3>1. k + j <= N /\ (j < m => k + j < N)
      BY <2>1, <2>3
    <3> QED
      BY <3>1, PartFacts
  <2>4. \A j \in Nat : j < m => j <= m
    OBVIOUS
  <2> HIDE DEF Part
  <2> QED
    BY <2>2, <2>3, <2>4
<1>4. \A j \in Nat : j < m => ~TooLong(Absorb(r, Part(j)))
  <2>1. \A j \in Nat : j < m => j \in 0..(m - 1)
    OBVIOUS
  <2> QED
    BY <2>1, Zenon DEF FitsBefore
<1>5. F[k] = Settle(r)
  OBVIOUS
<1>10. \A b \in Seq(Byte) : InSameField(Absorb(r, b), r) /\ Absorb(r, b).pos = r.pos + Len(b)
  BY AbsorbStays, Zenon
<1>11. \A b, c \in Seq(Byte) : Absorb(Absorb(r, b), c) = Absorb(r, b \o c)
  BY AbsorbTwice
<1> HIDE DEF F, N, Part
<1>6. Q(0)
  BY <1>1, <1>3, <1>5, AbsorbNothing
<1>7. ASSUME NEW j \in Nat, Q(j) PROVE Q(j + 1)
  <2> SUFFICES ASSUME j + 1 <= m PROVE F[k + (j + 1)] = Settle(Absorb(r, Part(j + 1)))
    OBVIOUS
  <2> DEFINE a == Absorb(r, Part(j))
             byte == t.bytes[k + j + 1]
  <2>1. j <= m /\ j < m /\ k + j \in 0..(N - 1) /\ (k + j) + 1 = k + (j + 1)
    BY <1>1
  <2>2. Part(j) \in Seq(Byte) /\ Len(Part(j)) = j
        /\ byte \in Byte /\ Part(j + 1) = Part(j) \o <<byte>>
    BY <1>3, <2>1, Zenon
  <2>11. <<byte>> \in Seq(Byte)
    BY <2>2
  <2>3. ~TooLong(a)
    BY <1>4, <2>1
  <2>4. /\ a.verdict = r.verdict /\ a.state = r.state /\ a.inField = r.inField
        /\ a.length = r.length /\ a.pos = r.pos + j /\ ~Refused(a)
    BY <1>10, <2>2, Zenon DEF InSameField
  <2>5. F[(k + j) + 1] = ReadByte(F[k + j], byte)
    BY <1>2, <2>1
  <2> HIDE DEF byte
  <2>6. Absorb(a, <<byte>>) = Absorb(r, Part(j + 1))
    BY <1>11, <2>2, <2>11, Zenon
  <2> HIDE DEF a
  <2>7. a.pos # a.length
    BY <1>1, <2>1, <2>4
  <2>8. Settle(a) = a
    BY <2>3, <2>4, <2>7, Zenon DEF Settle
  <2>9. F[k + j] = a
    BY <1>7, <2>1, <2>8, Zenon DEF a
  <2>10. ReadByte(a, byte) = Settle(Absorb(a, <<byte>>))
    BY <2>4, Zenon DEF ReadByte, ReadsOn
  <2> QED
    BY <2>1, <2>5, <2>6, <2>9, <2>10, Zenon
<1>8. \A j \in Nat : Q(j)
  <2>1. 0 \in T /\ \A j \in Nat : j \in T => j + 1 \in T
    <3> HIDE DEF Q
    <3> QED
      BY <1>6, <1>7
  <2> HIDE DEF T
  <2>2. Nat \subseteq T
    BY <2>1, NatSetInduction, Zenon
  <2> QED
    BY <2>2 DEF T
<1>9. F[k + m] = Settle(Absorb(r, Part(m)))
  BY <1>8
<1> QED
  BY <1>9 DEF F, Part

----------------------------------------------------------------------------
(* The block is what the host has sent of the stream and the parser has    *)
(* not read.                                                               *)
WindowOK ==
    /\ Consumed \in Nat /\ sent <= Len(tx.bytes)
    /\ workBuffer = SubSeq(tx.bytes, Consumed + 1, sent)

(* A block is used up before its caller is answered that more is needed.   *)
AnswersOK ==
    /\ status \in {"IDLE", "STREAM_PROCESSING"} => workBuffer = <<>>
    /\ status = "STREAM_PROCESSING" => state # TLV_DONE
    /\ status = "STREAM_FINISHED" => state = TLV_DONE
    /\ status = "SWITCH" => processingField

LEMMA StreamIsBytes ==
  ASSUME BytesOK
  PROVE  tx.bytes \in Seq(Byte) /\ Len(tx.bytes) \in Nat
BY StreamAssumption DEF BytesOK, TransactionOK

LEMMA Windows ==
  ASSUME NEW s \in Seq(Byte), NEW a \in Nat, NEW e \in Nat, e <= Len(s),
         NEW w \in Seq(Byte), w = SubSeq(s, a + 1, e), Len(w) = e - a,
         NEW n \in 0..Len(w)
  PROVE  /\ SubSeq(w, 1, n) = SubSeq(s, a + 1, a + n)
         /\ SubSeq(w, n + 1, Len(w)) = SubSeq(s, (a + n) + 1, e)
         /\ Len(SubSeq(w, n + 1, Len(w))) = Len(w) - n
<1> DEFINE L == Len(w)
<1>1. L \in Nat /\ L = e - a /\ n \in Nat /\ n <= L
  OBVIOUS
<1>2. \A i \in 1..L : w[i] = s[a + i]
  OBVIOUS
<1>3. SubSeq(w, 1, n) = SubSeq(s, a + 1, a + n)
  <2> DEFINE p == SubSeq(w, 1, n)
             q == SubSeq(s, a + 1, a + n)
  <2>1. p \in Seq(Byte) /\ Len(p) = n /\ \A i \in 1..n : p[i] = w[i]
    BY <1>1
  <2>2. q \in Seq(Byte) /\ Len(q) = n /\ \A i \in 1..n : q[i] = s[a + i]
    BY <1>1
  <2> HIDE DEF p, q
  <2>3. \A i \in 1..n : p[i] = q[i]
    <3>1. \A i \in 1..n : i \in 1..L
      BY <1>1
    <3> QED
      BY <1>2, <2>1, <2>2, <3>1, Zenon
  <2>4. p = q
    BY <2>1, <2>2, <2>3
  <2> QED
    BY <2>4 DEF p, q
<1>4. /\ SubSeq(w, n + 1, L) = SubSeq(s, (a + n) + 1, e)
      /\ Len(SubSeq(w, n + 1, L)) = L - n
  <2> DEFINE p == SubSeq(w, n + 1, L)
             q == SubSeq(s, (a + n) + 1, e)
  <2>1. p \in Seq(Byte) /\ Len(p) = L - n /\ \A i \in 1..(L - n) : p[i] = w[n + i]
    BY <1>1
  <2>2. q \in Seq(Byte) /\ Len(q) = L - n /\ \A i \in 1..(L - n) : q[i] = s[(a + n) + i]
    BY <1>1
  <2> HIDE DEF p, q, L
  <2>3. \A i \in 1..(L - n) : p[i] = q[i]
    <3>1. ASSUME NEW i \in 1..(L - n) PROVE p[i] = q[i]
      <4>1. n + i \in 1..L /\ a + (n + i) = (a + n) + i
        BY <1>1
      <4> QED
        BY <1>2, <2>1, <2>2, <4>1, Zenon
    <3> QED
      BY <3>1
  <2>4. p = q
    BY <2>1, <2>2, <2>3
  <2> QED
    BY <2>1, <2>4 DEF p, q
<1> QED
  BY <1>3, <1>4

LEMMA PartLength ==
  \A s \in Seq(Byte) : \A a, e \in Nat :
      a <= e /\ e <= Len(s) => Len(SubSeq(s, a + 1, e)) = e - a
OBVIOUS

LEMMA WindowMoves ==
  ASSUME BytesOK, WindowOK, NEW n \in 0..Len(workBuffer),
         workBuffer' = SubSeq(workBuffer, n + 1, Len(workBuffer)), UNCHANGED <<tx, sent>>
  PROVE  /\ WindowOK' /\ Consumed' = Consumed + n /\ Consumed + n <= Len(tx.bytes)
         /\ SubSeq(workBuffer, 1, n) = SubSeq(tx.bytes, Consumed + 1, Consumed + n)
         /\ \A i \in 1..n : workBuffer[i] = tx.bytes[Consumed + i]
<1>1. tx.bytes \in Seq(Byte) /\ Len(tx.bytes) \in Nat
  BY StreamIsBytes
<1>2. /\ workBuffer \in Seq(Byte) /\ sent \in Nat /\ Consumed \in Nat /\ Len(workBuffer) \in Nat
      /\ Len(workBuffer) = sent - Consumed
  BY DEF BytesOK, WindowOK, Consumed
<1>3. /\ SubSeq(workBuffer, 1, n) = SubSeq(tx.bytes, Consumed + 1, Consumed + n)
      /\ workBuffer' = SubSeq(tx.bytes, (Consumed + n) + 1, sent)
      /\ Len(workBuffer') = Len(workBuffer) - n
  BY <1>1, <1>2, Windows DEF WindowOK
<1>4. Consumed' = Consumed + n
  <2>1. Len(workBuffer') = Len(workBuffer) - n /\ UNCHANGED sent
    BY <1>3
  <2>2. Consumed' = sent' - Len(workBuffer')
    BY DEF Consumed
  <2>3. Consumed' = sent - (Len(workBuffer) - n)
    BY <2>1, <2>2, Zenon
  <2> QED
    BY <1>2, <2>3
<1>5. WindowOK'
  BY <1>2, <1>3, <1>4 DEF WindowOK
<1>6. Consumed + n <= Len(tx.bytes)
  BY <1>1, <1>2 DEF WindowOK
<1>7. \A i \in 1..n : workBuffer[i] = tx.bytes[Consumed + i]
  BY <1>1, <1>2 DEF WindowOK
<1> QED
  BY <1>3, <1>4, <1>5, <1>6, <1>7

LEMMA TailIsRest ==
  ASSUME NEW w \in Seq(Byte), w # <<>>
  PROVE  1 \in 0..Len(w) /\ Tail(w) = SubSeq(w, 1 + 1, Len(w)) /\ Head(w) = w[1]
OBVIOUS

LEMMA FieldActionsTake ==
  ASSUME FieldActions
  PROVE  TakeChunk
BY DEF FieldActions, processField, processZeroSizeField, processActionListSizeField,
       processActionAccount, processActionName, processAuthorizationListSizeField,
       processAuthorizationPermission, processUnknownActionDataSize,
       processUnknownActionData, processActionData

LEMMA ChunkIsRead ==
  ASSUME BytesOK, FieldOK, WindowOK, TakeChunk
  PROVE  /\ WindowOK' /\ Consumed' = Consumed + Len(Chunk) /\ Consumed' <= Len(tx.bytes)
         /\ Chunk = SubSeq(tx.bytes, Consumed + 1, Consumed + Len(Chunk))
<1> DEFINE n == Len(Chunk)
<1>1. n \in 0..Len(workBuffer) /\ Chunk = SubSeq(workBuffer, 1, n)
  <2>1. FieldLeft \in Nat /\ Len(workBuffer) \in Nat /\ workBuffer \in Seq(Byte)
    BY DEF FieldOK, FieldLeft, BytesOK
  <2> DEFINE k == IF Len(workBuffer) < FieldLeft THEN Len(workBuffer) ELSE FieldLeft
  <2>2. k \in 0..Len(workBuffer)
    BY <2>1
  <2> HIDE DEF k
  <2>3. Chunk = SubSeq(workBuffer, 1, k)
    BY DEF Chunk, k
  <2>4. Len(Chunk) = k
    BY <2>1, <2>2, <2>3
  <2> QED
    BY <2>2, <2>3, <2>4
<1> HIDE DEF n
<1>2. workBuffer' = SubSeq(workBuffer, n + 1, Len(workBuffer)) /\ UNCHANGED <<tx, sent>>
  BY DEF TakeChunk, hostVars, n
<1>3. /\ WindowOK' /\ Consumed' = Consumed + n /\ Consumed + n <= Len(tx.bytes)
      /\ SubSeq(workBuffer, 1, n) = SubSeq(tx.bytes, Consumed + 1, Consumed + n)
  BY <1>1, <1>2, WindowMoves
<1>4. Chunk = SubSeq(tx.bytes, Consumed + 1, Consumed + n)
  BY <1>1, <1>3, Zenon
<1>5. Consumed' <= Len(tx.bytes)
  BY <1>3
<1> QED
  BY <1>3, <1>4, <1>5 DEF n

LEMMA WindowStep ==
  ASSUME BytesOK, FieldOK, WindowOK, AnswersOK, [StreamNext]_vars
  PROVE  WindowOK'
<1>1. ASSUME UNCHANGED <<tx, sent, workBuffer>> PROVE WindowOK'
  BY <1>1 DEF WindowOK, Consumed
<1>2. ASSUME NEW t \in Transactions, ZeroContext(t) PROVE WindowOK'
  <2>1. t.bytes \in Seq(Byte)
    BY StreamAssumption DEF TransactionOK
  <2>2. tx' = t /\ sent' = 0 /\ workBuffer' = <<>>
    BY <1>2 DEF ZeroContext
  <2> QED
    BY <2>1, <2>2 DEF WindowOK, Consumed
<1>3. CASE \E t \in Transactions : StartTransaction(t) \/ Relaunch(t)
  BY <1>2, <1>3 DEF StartTransaction, InitTxContext, Relaunch
<1>4. ASSUME NEW n \in BlockSizes, SendBlock(n) PROVE WindowOK'
  <2>1. tx.bytes \in Seq(Byte) /\ Len(tx.bytes) \in Nat /\ sent \in Nat /\ n \in Nat
    BY StreamIsBytes, StreamAssumption DEF BytesOK
  <2>2. workBuffer = <<>>
    BY <1>4 DEF SendBlock, AnswersOK
  <2>3. /\ sent' \in Nat /\ sent <= sent' /\ sent' <= Len(tx.bytes) /\ tx' = tx
        /\ workBuffer' = SubSeq(tx.bytes, sent + 1, sent')
    BY <1>4, <2>1 DEF SendBlock
  <2>4. Len(SubSeq(tx.bytes, sent + 1, sent')) = sent' - sent
    BY <2>1, <2>3, PartLength, Zenon
  <2>5. Consumed' = sent
    <3>1. Len(workBuffer') = sent' - sent
      BY <2>3, <2>4, Zenon
    <3>2. Consumed' = sent' - (sent' - sent)
      BY <3>1, Zenon DEF Consumed
    <3>3. sent \in Nat /\ sent' \in Nat
      BY <2>1, <2>3
    <3>4. \A a, b \in Nat : a - (a - b) = b
      OBVIOUS
    <3> QED
      BY <3>2, <3>3, <3>4, Zenon
  <2> QED
    BY <2>1, <2>3, <2>5 DEF WindowOK
<1>5. CASE LoopTlvByte
  <2>1. /\ workBuffer \in Seq(Byte) /\ workBuffer # <<>> /\ workBuffer' = Tail(workBuffer)
        /\ UNCHANGED <<tx, sent>>
    BY <1>5 DEF LoopTlvByte, LoopReads, BytesOK, hostVars
  <2> QED
    BY <2>1, TailIsRest, WindowMoves
<1>6. CASE FieldActions
  BY <1>6, FieldActionsTake, ChunkIsRead
<1>7. CASE \/ UserContinues \/ LoopConfirm \/ LoopActionReady \/ LoopReturn
           \/ LoopContinueField \/ SwitchAsserts \/ RefuseUnknownAction \/ UNCHANGED vars
  <2>1. UNCHANGED <<tx, sent, workBuffer>>
    BY <1>7
    DEF UserContinues, LoopConfirm, LoopActionReady, LoopReturn, LoopContinueField,
        SwitchAsserts, RefuseUnknownAction, Unparsed, vars, hostVars
  <2> QED
    BY <1>1, <2>1
<1> QED
  BY <1>3, <1>4, <1>5, <1>6, <1>7 DEF StreamNext, processTxInternal, FieldActions

LEMMA AnswersStep ==
  ASSUME ControlOK, AnswersOK, [StreamNext]_vars
  PROVE  AnswersOK'
<1> USE DEF AnswersOK
<1>1. CASE \E t \in Transactions : StartTransaction(t) \/ Relaunch(t)
  BY <1>1 DEF StartTransaction, InitTxContext, Relaunch, ZeroContext
<1>2. CASE \E n \in BlockSizes : SendBlock(n)
  BY <1>2 DEF SendBlock
<1>3. CASE FieldActions
  BY <1>3, FieldActionsControl
<1>4. CASE UserContinues
  BY <1>4 DEF UserContinues
<1>5. CASE LoopConfirm
  BY <1>5 DEF LoopConfirm
<1>6. CASE LoopActionReady
  BY <1>6 DEF LoopActionReady
<1>7. CASE LoopReturn
  BY <1>7 DEF LoopReturn, LoopReads, Unparsed
<1>8. CASE LoopTlvByte
  BY <1>8 DEF LoopTlvByte, LoopReads
<1>9. CASE LoopContinueField
  BY <1>9 DEF LoopContinueField, LoopReads, Unparsed
<1>10. CASE SwitchAsserts \/ RefuseUnknownAction
  BY <1>10 DEF SwitchAsserts, RefuseUnknownAction
<1>11. CASE UNCHANGED vars
  BY <1>11 DEF vars
<1> QED
  BY <1>1, <1>2, <1>3, <1>4, <1>5, <1>6, <1>7, <1>8, <1>9, <1>10, <1>11
  DEF StreamNext, processTxInternal, FieldActions

(* The hashes are of bytes, and the content displays the names of the      *)
(* action that is being read.                                              *)
HashOK == sha256 \in Seq(Byte) /\ dataSha256 \in Seq(Byte)

NamesOK ==
    /\ {"contract", "action", "argumentCount"} \subseteq DOMAIN content
    /\ state \in TLV_ACTION_NAME..TLV_ACTION_DATA =>
           content.contract = name_to_string(contractName)
    /\ state \in TLV_AUTHORIZATION_LIST_SIZE..TLV_ACTION_DATA =>
           content.action = name_to_string(contractActionName)

LEMMA HashStep ==
  ASSUME BytesOK, FieldOK, HashOK, [StreamNext]_vars
  PROVE  HashOK'
<1>1. ASSUME UNCHANGED <<sha256, dataSha256>> PROVE HashOK'
  BY <1>1 DEF HashOK
<1>2. CASE \E t \in Transactions : StartTransaction(t) \/ Relaunch(t)
  <2>1. sha256' = <<>> /\ dataSha256' = <<>>
    BY <1>2 DEF StartTransaction, InitTxContext, Relaunch, ZeroContext
  <2> QED
    BY <2>1 DEF HashOK
<1>3. CASE FieldActions
  <2>1. sha256' = sha256 \o Chunk
    BY <1>3, FieldActionsTake DEF TakeChunk
  <2>2. dataSha256' \in {dataSha256, dataSha256 \o Chunk, <<>>}
    BY <1>3
    DEF FieldActions, processField, processZeroSizeField, processActionListSizeField,
        processActionAccount, processActionName, processAuthorizationListSizeField,
        processAuthorizationPermission, processUnknownActionDataSize,
        processUnknownActionData, processActionData
  <2>3. Chunk \in Seq(Byte)
    BY ChunkFacts
  <2>4. /\ sha256 \o Chunk \in Seq(Byte) /\ dataSha256 \o Chunk \in Seq(Byte)
        /\ <<>> \in Seq(Byte)
    BY <2>3 DEF HashOK
  <2> QED
    BY <2>1, <2>2, <2>4 DEF HashOK
<1>4. CASE \/ \E n \in BlockSizes : SendBlock(n)
           \/ UserContinues \/ LoopConfirm \/ LoopActionReady \/ LoopReturn \/ LoopTlvByte
           \/ LoopContinueField \/ SwitchAsserts \/ RefuseUnknownAction \/ UNCHANGED vars
  <2>1. UNCHANGED <<sha256, dataSha256>>
    BY <1>4
    DEF SendBlock, UserContinues, LoopConfirm, LoopActionReady, LoopReturn, LoopTlvByte,
        LoopContinueField, SwitchAsserts, RefuseUnknownAction, Unparsed, vars
  <2> QED
    BY <1>1, <2>1
<1> QED
  BY <1>2, <1>3, <1>4 DEF StreamNext, processTxInternal, FieldActions

LEMMA NameMembers ==
  ASSUME NEW c, {"contract", "action", "argumentCount"} \subseteq DOMAIN c, NEW v
  PROVE  /\ DOMAIN [c EXCEPT !.contract = v] = DOMAIN c
         /\ DOMAIN [c EXCEPT !.action = v] = DOMAIN c
         /\ DOMAIN [c EXCEPT !.argumentCount = v] = DOMAIN c
         /\ [c EXCEPT !.contract = v].contract = v
         /\ [c EXCEPT !.action = v].action = v
         /\ [c EXCEPT !.action = v].contract = c.contract
         /\ [c EXCEPT !.argumentCount = v].argumentCount = v
         /\ [c EXCEPT !.argumentCount = v].contract = c.contract
         /\ [c EXCEPT !.argumentCount = v].action = c.action
OBVIOUS

(* The name of the contract is in front of the action's.                   *)
LEMMA ContractKept ==
  ASSUME memory \in [1..MemorySize -> Byte], NEW at \in Nat, at >= ActionAt,
         NEW bytes \in Seq(Byte), memory' = Overwrite(memory, at, bytes)
  PROVE  contractName' = contractName
<1>1. MemorySize \in Nat /\ ActionAt \in Nat /\ ActionAt <= MemorySize
  BY DEF MemorySize, ActionAt, NameSize, SizeBufferSize
<1>2. /\ memory' \in [1..MemorySize -> Byte]
      /\ \A i \in 1..MemorySize : i <= at => memory'[i] = memory[i]
  BY <1>1, OverwriteKeeps
<1>3. memory' \in [1..MemorySize -> Byte] /\ \A i \in 1..ActionAt : memory'[i] = memory[i]
  BY <1>1, <1>2
<1> QED
  BY <1>3 DEF contractName, MemorySize, ActionAt, NameSize, SizeBufferSize

LEMMA FieldActionsNames ==
  ASSUME BytesOK, FieldOK, NamesOK, FieldActions
  PROVE  NamesOK'
<1> DEFINE D == {"contract", "action", "argumentCount"} \subseteq DOMAIN content
<1>1. D
  BY DEF NamesOK
<1>2. currentFieldPos \in Nat /\ Chunk \in Seq(Byte) /\ memory \in [1..MemorySize -> Byte]
  BY ChunkFacts DEF BytesOK, FieldOK
<1>3. ASSUME memory' \in {memory, Stored(SizeAt), SizeCleared}
      PROVE  contractName' = contractName /\ contractActionName' = contractActionName
  <2>1. CASE memory' = memory
    BY <2>1 DEF contractName, contractActionName
  <2>2. CASE memory' = Stored(SizeAt)
    <3>1. SizeAt + currentFieldPos \in Nat /\ SizeAt + currentFieldPos >= SizeAt
      BY <1>2, SizesAreNumbers
    <3> QED
      BY <1>2, <2>2, <3>1, KnownKept DEF Stored
  <2>3. CASE memory' = SizeCleared
    <3>1. SizeAt \in Nat /\ SizeAt >= SizeAt /\ Zeros(SizeBufferSize) \in Seq(Byte)
      BY SizesAreNumbers, ZerosFacts
    <3> QED
      BY <1>2, <2>3, <3>1, KnownKept DEF SizeCleared
  <2> QED
    BY <1>3, <2>1, <2>2, <2>3
<1>4. CASE processActionAccount
  <2>1. CASE Complete
    <3>1. /\ state' = TLV_ACTION_NAME
          /\ content' = [content EXCEPT !.contract = name_to_string(contractName')]
      BY <1>4, <2>1 DEF processActionAccount, MoveTo
    <3>2. DOMAIN content' = DOMAIN content /\ content'.contract = name_to_string(contractName')
      BY <1>1, <3>1, NameMembers, Zenon
    <3> QED
      BY <1>1, <3>1, <3>2 DEF NamesOK
  <2>2. CASE ~Complete
    <3>1. state' = TLV_ACTION_ACCOUNT /\ content' = content
      BY <1>4, <2>2 DEF processActionAccount, StayInField
    <3> QED
      BY <1>1, <3>1 DEF NamesOK
  <2> QED
    BY <2>1, <2>2
<1>5. CASE processActionName
  <2>1. state = TLV_ACTION_NAME /\ memory' = Stored(ActionAt)
    BY <1>5 DEF processActionName
  <2>2. contractName' = contractName
    <3>1. ActionAt + currentFieldPos \in Nat /\ ActionAt + currentFieldPos >= ActionAt
      BY <1>2 DEF ActionAt, NameSize
    <3> QED
      BY <1>2, <2>1, <3>1, ContractKept DEF Stored
  <2>3. content.contract = name_to_string(contractName)
    BY <2>1 DEF NamesOK
  <2>4. CASE Complete
    <3>1. /\ state' = TLV_AUTHORIZATION_LIST_SIZE
          /\ content' = [content EXCEPT !.action = name_to_string(contractActionName')]
      BY <1>5, <2>4 DEF processActionName, MoveTo
    <3>2. /\ DOMAIN content' = DOMAIN content /\ content'.contract = content.contract
          /\ content'.action = name_to_string(contractActionName')
      BY <1>1, <3>1, NameMembers, Zenon
    <3> QED
      BY <1>1, <2>2, <2>3, <3>1, <3>2 DEF NamesOK
  <2>5. CASE ~Complete
    <3>1. state' = TLV_ACTION_NAME /\ content' = content
      BY <1>5, <2>1, <2>5 DEF processActionName, StayInField
    <3> QED
      BY <1>1, <2>2, <2>3, <3>1 DEF NamesOK
  <2> QED
    BY <2>4, <2>5
<1>6. CASE processActionData \/ processUnknownActionData
  <2>1. CASE Complete
    <3>1. /\ state' \in {TLV_ACTION_ACCOUNT, TLV_TX_EXTENSION_LIST_SIZE}
          /\ \/ content' = [content EXCEPT !.argumentCount = 3]
             \/ content' = [content EXCEPT !.argumentCount = Arguments.count]
      BY <1>6, <2>1 DEF processActionData, processUnknownActionData, ActionRead, MoveTo
    <3>2. DOMAIN content' = DOMAIN content
      BY <1>1, <3>1, NameMembers, Zenon
    <3> QED
      BY <1>1, <3>1, <3>2 DEF NamesOK
  <2>2. CASE ~Complete
    <3>1. UNCHANGED <<state, content, memory>>
      BY <1>6, <2>2 DEF processActionData, processUnknownActionData, StayInField
    <3> QED
      BY <3>1 DEF NamesOK, contractName, contractActionName
  <2> QED
    BY <2>1, <2>2
<1>7. CASE processZeroSizeField \/ processActionListSizeField
  <2>1. content' = content /\ state' \notin TLV_ACTION_NAME..TLV_ACTION_DATA
    BY <1>7
    DEF processZeroSizeField, processActionListSizeField, MoveTo, StayInField, dataVars,
        ZeroSizeFields
  <2> QED
    BY <1>1, <2>1 DEF NamesOK
<1>8. CASE \/ processField \/ processAuthorizationListSizeField
           \/ processAuthorizationPermission \/ processUnknownActionDataSize
  <2>1. memory' \in {memory, Stored(SizeAt), SizeCleared} /\ content' = content
    BY <1>8
    DEF processField, processAuthorizationListSizeField, processAuthorizationPermission,
        processUnknownActionDataSize, dataVars
  <2>2. state' \in TLV_ACTION_NAME..TLV_ACTION_DATA =>
            state \in TLV_AUTHORIZATION_LIST_SIZE..TLV_ACTION_DATA
    <3>1. state \in HashedOnlyFields \/ state \in {12, 14, 15}
      BY <1>8
      DEF processField, processAuthorizationListSizeField, processAuthorizationPermission,
          processUnknownActionDataSize
    <3>2. state' \in {state, state + 1} \/ state \in {12, 14, 15}
      BY <1>8
      DEF processField, processAuthorizationListSizeField, processAuthorizationPermission,
          processUnknownActionDataSize, MoveTo, StayInField
    <3> QED
      BY <3>1, <3>2 DEF HashedOnlyFields, HeaderFields
  <2> QED
    BY <1>3, <2>1, <2>2 DEF NamesOK
<1> QED
  BY <1>4, <1>5, <1>6, <1>7, <1>8 DEF FieldActions

LEMMA NamesStep ==
  ASSUME BytesOK, FieldOK, NamesOK, [StreamNext]_vars
  PROVE  NamesOK'
<1>1. CASE \E t \in Transactions : StartTransaction(t)
  <2>1. content' = content /\ state' = TLV_CHAIN_ID
    BY <1>1 DEF StartTransaction, InitTxContext
  <2> QED
    BY <2>1 DEF NamesOK
<1>2. CASE \E t \in Transactions : Relaunch(t)
  <2>1. content' = NoContent /\ state' = TLV_NONE
    BY <1>2 DEF Relaunch
  <2> QED
    BY <2>1 DEF NamesOK, NoContent
<1>3. CASE FieldActions
  BY <1>3, FieldActionsNames
<1>4. CASE \/ \E n \in BlockSizes : SendBlock(n)
           \/ UserContinues \/ LoopConfirm \/ LoopActionReady \/ LoopReturn \/ LoopTlvByte
           \/ LoopContinueField \/ SwitchAsserts \/ RefuseUnknownAction \/ UNCHANGED vars
  <2>1. UNCHANGED <<state, content, memory>>
    BY <1>4
    DEF SendBlock, UserContinues, LoopConfirm, LoopActionReady, LoopReturn, LoopTlvByte,
        LoopContinueField, SwitchAsserts, RefuseUnknownAction, Unparsed, dataVars, vars
  <2> QED
    BY <2>1 DEF NamesOK, contractName, contractActionName
<1> QED
  BY <1>1, <1>2, <1>3, <1>4 DEF StreamNext, processTxInternal, FieldActions

----------------------------------------------------------------------------
(* The parser as a reader: a chunk of a field is absorbed, and then the    *)
(* field is settled.                                                       *)
LEMMA NowMembers ==
  /\ Now.verdict = IF status \in {"STREAM_FAULT", "ASSERT"} THEN status ELSE "STREAM_PROCESSING"
  /\ Now.state = state /\ Now.allowed = dataAllowed /\ Now.inField = processingField
  /\ Now.header = tlvBuffer /\ Now.length = currentFieldLength /\ Now.pos = currentFieldPos
  /\ Now.number = currentActionNumber /\ Now.index = currentActionIndex
  /\ Now.authNumber = currentAutorizationNumber /\ Now.authIndex = currentAutorizationIndex
  /\ Now.memory = memory /\ Now.data = actionDataBuffer
  /\ Now.dataHash = dataSha256 /\ Now.hash = sha256
  /\ Now.reviews = IF actionReady THEN Append(shown, Reviewed) ELSE shown
BY DEF Now

LEMMA NextMembers ==
  /\ Now'.verdict
     = IF status' \in {"STREAM_FAULT", "ASSERT"} THEN status' ELSE "STREAM_PROCESSING"
  /\ Now'.state = state' /\ Now'.allowed = dataAllowed' /\ Now'.inField = processingField'
  /\ Now'.header = tlvBuffer' /\ Now'.length = currentFieldLength'
  /\ Now'.pos = currentFieldPos'
  /\ Now'.number = currentActionNumber' /\ Now'.index = currentActionIndex'
  /\ Now'.authNumber = currentAutorizationNumber' /\ Now'.authIndex = currentAutorizationIndex'
  /\ Now'.memory = memory' /\ Now'.data = actionDataBuffer'
  /\ Now'.dataHash = dataSha256' /\ Now'.hash = sha256'
  /\ Now'.reviews = IF actionReady' THEN Append(shown', Reviewed') ELSE shown'
BY DEF Now

LEMMA NowReaderOK ==
  ASSUME BytesOK, FieldOK, HashOK
  PROVE  ReaderOK(Now)
BY NowIsReader, NowMembers DEF BytesOK, FieldOK, HashOK, ReaderOK

LEMMA KnownNow == KnownIn(memory) = Known
BY DEF KnownIn, Known, ContractIn, ActionIn, contractName, contractActionName

Absorbed == Absorb(Now, Chunk)
LEMMA AbsorbedMembers ==
  ASSUME BytesOK, FieldOK, HashOK, status = "SWITCH", ~actionReady
  PROVE  /\ IsReader(Absorbed)
         /\ Absorbed.verdict = "STREAM_PROCESSING"
         /\ Absorbed.state = state /\ Absorbed.allowed = dataAllowed
         /\ Absorbed.inField = processingField /\ Absorbed.header = tlvBuffer
         /\ Absorbed.length = currentFieldLength
         /\ Absorbed.pos = currentFieldPos + Len(Chunk)
         /\ Absorbed.number = currentActionNumber /\ Absorbed.index = currentActionIndex
         /\ Absorbed.authNumber = currentAutorizationNumber
         /\ Absorbed.authIndex = currentAutorizationIndex
         /\ Absorbed.memory = IF state \in BufferedFields
                              THEN Stored(PlaceOf(state)) ELSE memory
         /\ Absorbed.data = IF state = TLV_ACTION_DATA /\ Known
                            THEN DataStored ELSE actionDataBuffer
         /\ Absorbed.dataHash = IF /\ state \in {TLV_ACTION_DATA_SIZE, TLV_ACTION_DATA}
                                   /\ ~Known /\ dataAllowed
                                THEN dataSha256 \o Chunk ELSE dataSha256
         /\ Absorbed.hash = sha256 \o Chunk
         /\ Absorbed.reviews = shown
<1> DEFINE r == Now
           a == Absorb(r, Chunk)
<1>1. /\ IsReader(a)
      /\ SameBut(a, r, {"pos", "hash", "memory", "data", "dataHash"})
      /\ a.pos = r.pos + Len(Chunk) /\ a.hash = r.hash \o Chunk
      /\ a.memory = IF r.state \in BufferedFields
                    THEN Overwrite(r.memory, PlaceOf(r.state) + r.pos, Chunk) ELSE r.memory
      /\ a.data = IF r.state = TLV_ACTION_DATA /\ KnownIn(r.memory)
                  THEN Overwrite(r.data, r.pos, Chunk) ELSE r.data
      /\ a.dataHash = IF /\ r.state \in {TLV_ACTION_DATA_SIZE, TLV_ACTION_DATA}
                         /\ ~KnownIn(r.memory) /\ r.allowed
                      THEN r.dataHash \o Chunk ELSE r.dataHash
  BY NowIsReader, AbsorbMembers, Zenon
<1>2. /\ r.verdict = "STREAM_PROCESSING"
      /\ r.state = state /\ r.allowed = dataAllowed /\ r.inField = processingField
      /\ r.header = tlvBuffer /\ r.length = currentFieldLength /\ r.pos = currentFieldPos
      /\ r.number = currentActionNumber /\ r.index = currentActionIndex
      /\ r.authNumber = currentAutorizationNumber /\ r.authIndex = currentAutorizationIndex
      /\ r.memory = memory /\ r.data = actionDataBuffer
      /\ r.dataHash = dataSha256 /\ r.hash = sha256 /\ r.reviews = shown
      /\ KnownIn(r.memory) = Known
  BY NowMembers, KnownNow
<1> HIDE DEF r, a
<1>3. /\ a.verdict = r.verdict /\ a.state = r.state /\ a.allowed = r.allowed
      /\ a.inField = r.inField /\ a.header = r.header /\ a.length = r.length
      /\ a.number = r.number /\ a.index = r.index
      /\ a.authNumber = r.authNumber /\ a.authIndex = r.authIndex /\ a.reviews = r.reviews
  BY <1>1 DEF SameBut, ReaderMembers
<1>4. /\ a.memory = IF state \in BufferedFields THEN Stored(PlaceOf(state)) ELSE memory
      /\ a.hash = sha256 \o Chunk /\ a.pos = currentFieldPos + Len(Chunk)
  BY <1>1, <1>2, Zenon DEF Stored
<1>5. a.data = IF state = TLV_ACTION_DATA /\ Known THEN DataStored ELSE actionDataBuffer
  BY <1>1, <1>2, Zenon DEF DataStored
<1>6. a.dataHash = IF /\ state \in {TLV_ACTION_DATA_SIZE, TLV_ACTION_DATA}
                      /\ ~Known /\ dataAllowed
                   THEN dataSha256 \o Chunk ELSE dataSha256
  BY <1>1, <1>2, Zenon
<1>7. a = Absorbed
  BY DEF a, r, Absorbed
<1> QED
  BY <1>1, <1>2, <1>3, <1>4, <1>5, <1>6, <1>7

(* A chunk that the switch takes neither ends the transaction nor leaves   *)
(* the buffer.                                                             *)
LEMMA TakenIsFine ==
  ASSUME BytesOK, FieldOK, HashOK, ControlOK, FieldActions
  PROVE  ~Refused(Absorbed) /\ ~TooLong(Absorbed)
<1>1. status = "SWITCH" /\ ~actionReady
  BY FieldActionsControl DEF ControlOK
<1>2. /\ Absorbed.state = state /\ Absorbed.allowed = dataAllowed
      /\ Absorbed.length = currentFieldLength /\ Absorbed.pos = currentFieldPos + Len(Chunk)
      /\ state \notin BufferedFields => Absorbed.memory = memory
  BY <1>1, AbsorbedMembers
<1>3. state = TLV_ACTION_DATA => KnownIn(Absorbed.memory) = Known
  BY <1>2, KnownNow DEF BufferedFields, ZeroSizeFields
<1>4. state = TLV_ACTION_DATA => Known \/ dataAllowed
  BY DEF FieldActions, processField, processZeroSizeField, processActionListSizeField,
         processActionAccount, processActionName, processAuthorizationListSizeField,
         processAuthorizationPermission, processUnknownActionDataSize,
         processUnknownActionData, processActionData, ZeroSizeFields, HashedOnlyFields,
         HeaderFields
<1>5. state \in BufferedFields \/ (state = TLV_ACTION_DATA /\ Known) => ~FieldAsserts
  BY DEF FieldActions, processField, processZeroSizeField, processActionListSizeField,
         processActionAccount, processActionName, processAuthorizationListSizeField,
         processAuthorizationPermission, processUnknownActionDataSize,
         processUnknownActionData, processActionData, ZeroSizeFields, HashedOnlyFields,
         HeaderFields, BufferedFields
<1>6. ~Refused(Absorbed)
  BY <1>2, <1>3, <1>4, Zenon DEF Refused
<1>7. Len(Chunk) \in Nat /\ currentFieldPos \in Nat /\ currentFieldLength \in Nat
  BY ChunkFacts DEF FieldOK
<1>8. state \in BufferedFields => ~(currentFieldPos + Len(Chunk) > SizeBufferSize)
  BY <1>5, <1>7 DEF FieldAsserts, SizeBufferSize
<1>9. state = TLV_ACTION_DATA /\ Known => ~(currentFieldLength > ActionDataSize - 1)
  BY <1>5 DEF FieldAsserts
<1>10. ~TooLong(Absorbed)
  BY <1>2, <1>3, <1>8, <1>9, Zenon DEF TooLong
<1> QED
  BY <1>6, <1>10

LEMMA SettleTaken ==
  ASSUME BytesOK, FieldOK, HashOK, ControlOK, FieldActions
  PROVE  Settle(Absorbed) = IF Complete THEN Close(Absorbed) ELSE Absorbed
<1>1. status = "SWITCH" /\ ~actionReady
  BY FieldActionsControl DEF ControlOK
<1>2. (Absorbed.pos = Absorbed.length) = Complete
  BY <1>1, AbsorbedMembers DEF Complete
<1>3. Settle(Absorbed) = IF Absorbed.pos = Absorbed.length THEN Close(Absorbed) ELSE Absorbed
  BY TakenIsFine, Zenon DEF Settle
<1> QED
  BY <1>2, <1>3, Zenon

(* The members of the reader that a chunk of a field may change besides    *)
(* its position and the hash.                                              *)
FieldMembers ==
    {"state", "inField", "number", "index", "authNumber", "authIndex", "memory", "data",
     "dataHash", "reviews"}
MatchesNext(s) ==
    /\ s.state = state' /\ s.inField = processingField'
    /\ s.number = currentActionNumber' /\ s.index = currentActionIndex'
    /\ s.authNumber = currentAutorizationNumber' /\ s.authIndex = currentAutorizationIndex'
    /\ s.memory = memory' /\ s.data = actionDataBuffer' /\ s.dataHash = dataSha256'
    /\ s.reviews = IF actionReady' THEN Append(shown', Reviewed') ELSE shown'

LEMMA NowAfterChunk ==
  ASSUME BytesOK, FieldOK, HashOK, ControlOK, TakeChunk,
         NEW s, IsReader(s), SameBut(s, Absorbed, FieldMembers), MatchesNext(s)
  PROVE  Now' = s
<1>1. status = "SWITCH" /\ ~actionReady
  BY DEF TakeChunk, ControlOK
<1>2. /\ Absorbed.verdict = "STREAM_PROCESSING" /\ Absorbed.allowed = dataAllowed
      /\ Absorbed.header = tlvBuffer /\ Absorbed.length = currentFieldLength
      /\ Absorbed.pos = currentFieldPos + Len(Chunk) /\ Absorbed.hash = sha256 \o Chunk
  BY <1>1, AbsorbedMembers
<1>3. /\ s.verdict = Absorbed.verdict /\ s.allowed = Absorbed.allowed
      /\ s.header = Absorbed.header /\ s.length = Absorbed.length /\ s.pos = Absorbed.pos
      /\ s.hash = Absorbed.hash
  BY DEF SameBut, ReaderMembers, FieldMembers
<1>4. /\ status' = "LOOP" /\ dataAllowed' = dataAllowed /\ tlvBuffer' = tlvBuffer
      /\ currentFieldLength' = currentFieldLength
      /\ currentFieldPos' = currentFieldPos + Len(Chunk) /\ sha256' = sha256 \o Chunk
  BY DEF TakeChunk, hostVars
<1> DEFINE n == Now'
<1>5. IsReader(n)
  BY NowIsReader
<1>6. /\ n.verdict = "STREAM_PROCESSING" /\ n.allowed = dataAllowed /\ n.header = tlvBuffer
      /\ n.length = currentFieldLength /\ n.pos = currentFieldPos + Len(Chunk)
      /\ n.hash = sha256 \o Chunk
  BY <1>4, NextMembers
<1>7. /\ n.state = s.state /\ n.inField = s.inField /\ n.number = s.number
      /\ n.index = s.index /\ n.authNumber = s.authNumber /\ n.authIndex = s.authIndex
      /\ n.memory = s.memory /\ n.data = s.data /\ n.dataHash = s.dataHash
      /\ n.reviews = s.reviews
  BY NextMembers DEF MatchesNext
<1> HIDE DEF n
<1>8. SameBut(n, s, {})
  BY <1>2, <1>3, <1>6, <1>7 DEF SameBut, ReaderMembers
<1>9. n = s
  BY <1>5, <1>8, SameReader
<1> QED
  BY <1>9 DEF n

(* A field that the block does not complete.                               *)
LEMMA OpenField ==
  ASSUME BytesOK, FieldOK, HashOK, ControlOK, FieldActions, ~Complete
  PROVE  Now' = Settle(Absorbed)
<1>1. status = "SWITCH" /\ ~actionReady /\ TakeChunk
  BY FieldActionsControl, FieldActionsTake DEF ControlOK
<1>2. UNCHANGED <<state, processingField, counterVars, actionReady, shown>>
  BY DEF FieldActions, processField, processZeroSizeField, processActionListSizeField,
         processActionAccount, processActionName, processAuthorizationListSizeField,
         processAuthorizationPermission, processUnknownActionDataSize,
         processUnknownActionData, processActionData, StayInField, TakeChunk,
         counterVars, flagVars, historyVars
<1>3. memory' = IF state \in BufferedFields THEN Stored(PlaceOf(state)) ELSE memory
  <2>1. CASE processZeroSizeField \/ processActionListSizeField
             \/ processAuthorizationListSizeField
    BY <2>1
    DEF processZeroSizeField, processActionListSizeField, processAuthorizationListSizeField,
        BufferedFields, ZeroSizeFields, PlaceOf
  <2>2. CASE processActionAccount \/ processActionName
    BY <2>2 DEF processActionAccount, processActionName, BufferedFields, PlaceOf
  <2>3. CASE \/ processField \/ processAuthorizationPermission \/ processUnknownActionDataSize
             \/ processUnknownActionData \/ processActionData
    BY <2>3
    DEF processField, processAuthorizationPermission, processUnknownActionDataSize,
        processUnknownActionData, processActionData, BufferedFields, ZeroSizeFields,
        HashedOnlyFields, HeaderFields
  <2> QED
    BY <2>1, <2>2, <2>3 DEF FieldActions
<1>4. /\ actionDataBuffer' = IF state = TLV_ACTION_DATA /\ Known
                             THEN DataStored ELSE actionDataBuffer
      /\ dataSha256' = IF /\ state \in {TLV_ACTION_DATA_SIZE, TLV_ACTION_DATA}
                          /\ ~Known /\ dataAllowed
                       THEN dataSha256 \o Chunk ELSE dataSha256
  <2>1. CASE \/ processZeroSizeField \/ processActionListSizeField \/ processActionAccount
             \/ processActionName \/ processAuthorizationListSizeField
             \/ processAuthorizationPermission
    <3>1. UNCHANGED <<actionDataBuffer, dataSha256>>
      BY <2>1
      DEF processZeroSizeField, processActionListSizeField, processActionAccount,
          processActionName, processAuthorizationListSizeField,
          processAuthorizationPermission, dataVars
    <3>2. state \notin {TLV_ACTION_DATA_SIZE, TLV_ACTION_DATA}
      BY <2>1
      DEF processZeroSizeField, processActionListSizeField, processActionAccount,
          processActionName, processAuthorizationListSizeField,
          processAuthorizationPermission, ZeroSizeFields
    <3> QED
      BY <3>1, <3>2
  <2>2. CASE processField
    BY <2>2 DEF processField, dataVars, HashedOnlyFields, HeaderFields
  <2>3. CASE processUnknownActionDataSize
    BY <2>3 DEF processUnknownActionDataSize, dataVars
  <2>4. CASE processUnknownActionData
    BY <2>4 DEF processUnknownActionData
  <2>5. CASE processActionData
    BY <2>5 DEF processActionData
  <2> QED
    BY <2>1, <2>2, <2>3, <2>4, <2>5 DEF FieldActions
<1>5. IsReader(Absorbed) /\ SameBut(Absorbed, Absorbed, FieldMembers)
  BY <1>1, AbsorbedMembers DEF SameBut
<1>6. MatchesNext(Absorbed)
  BY <1>1, <1>2, <1>3, <1>4, AbsorbedMembers DEF MatchesNext, counterVars
<1>7. Now' = Absorbed
  BY <1>1, <1>5, <1>6, NowAfterChunk
<1>8. Settle(Absorbed) = Absorbed
  BY SettleTaken
<1> QED
  BY <1>7, <1>8

(* A field that the block completes.                                       *)
LEMMA PlainFieldCloses ==
  ASSUME BytesOK, FieldOK, HashOK, ControlOK, Complete,
         \/ processField \/ processActionAccount \/ processActionName
         \/ processUnknownActionDataSize
  PROVE  Now' = Settle(Absorbed)
<1>1. FieldActions /\ TakeChunk /\ status = "SWITCH" /\ ~actionReady
  <2>1. FieldActions
    BY DEF FieldActions
  <2> QED
    BY <2>1, FieldActionsControl, FieldActionsTake DEF ControlOK
<1> DEFINE a == Absorbed
           s == Forward(a, state + 1)
<1>2. /\ IsReader(a) /\ a.state = state
      /\ a.number = currentActionNumber /\ a.index = currentActionIndex
      /\ a.authNumber = currentAutorizationNumber /\ a.authIndex = currentAutorizationIndex
      /\ a.memory = (IF state \in BufferedFields THEN Stored(PlaceOf(state)) ELSE memory)
      /\ a.data = (IF state = TLV_ACTION_DATA /\ Known THEN DataStored ELSE actionDataBuffer)
      /\ a.dataHash = (IF /\ state \in {TLV_ACTION_DATA_SIZE, TLV_ACTION_DATA}
                          /\ ~Known /\ dataAllowed
                       THEN dataSha256 \o Chunk ELSE dataSha256)
      /\ a.reviews = shown
  BY <1>1, AbsorbedMembers
<1> HIDE DEF a
<1>3. IsReader(s) /\ s.state = state + 1 /\ ~s.inField /\ SameBut(s, a, {"state", "inField"})
  BY <1>2, ForwardMembers
<1>4. s.inField = FALSE
  BY DEF Forward
<1> HIDE DEF s
<1>5. state \in HashedOnlyFields \cup {TLV_ACTION_ACCOUNT, TLV_ACTION_NAME, TLV_ACTION_DATA_SIZE}
  BY DEF processField, processActionAccount, processActionName, processUnknownActionDataSize
<1>6. Settle(Absorbed) = s
  <2>1. Settle(Absorbed) = Close(a)
    BY <1>1, SettleTaken DEF a
  <2>2. Close(a) = Forward(a, a.state + 1)
    BY <1>2, <1>5 DEF Close, ZeroSizeFields, HashedOnlyFields, HeaderFields
  <2> QED
    BY <1>2, <2>1, <2>2 DEF s
<1>7. /\ state' = state + 1 /\ processingField' = FALSE
      /\ UNCHANGED <<counterVars, actionReady, shown, actionDataBuffer>>
  BY DEF processField, processActionAccount, processActionName, processUnknownActionDataSize,
         MoveTo, flagVars, dataVars, TakeChunk, historyVars
<1>8. /\ memory' = IF state \in BufferedFields THEN Stored(PlaceOf(state)) ELSE memory
      /\ dataSha256' = IF /\ state \in {TLV_ACTION_DATA_SIZE, TLV_ACTION_DATA}
                          /\ ~Known /\ dataAllowed
                       THEN dataSha256 \o Chunk ELSE dataSha256
      /\ state # TLV_ACTION_DATA
  <2>1. CASE processField
    <3>1. memory' = memory /\ dataSha256' = dataSha256
      BY <2>1 DEF processField
    <3>2. state \notin BufferedFields /\ state # TLV_ACTION_DATA
      BY <2>1
      DEF processField, BufferedFields, ZeroSizeFields, HashedOnlyFields, HeaderFields
    <3>3. state = TLV_ACTION_DATA_SIZE => Known \/ ~dataAllowed
      BY <2>1 DEF processField, HashedOnlyFields, HeaderFields
    <3> QED
      BY <3>1, <3>2, <3>3
  <2>2. CASE processActionAccount
    BY <2>2 DEF processActionAccount, BufferedFields, PlaceOf
  <2>3. CASE processActionName
    BY <2>3 DEF processActionName, BufferedFields, PlaceOf
  <2>4. CASE processUnknownActionDataSize
    BY <2>4 DEF processUnknownActionDataSize, BufferedFields, ZeroSizeFields
  <2> QED
    BY <2>1, <2>2, <2>3, <2>4
<1>9. /\ s.number = a.number /\ s.index = a.index /\ s.authNumber = a.authNumber
      /\ s.authIndex = a.authIndex /\ s.memory = a.memory /\ s.data = a.data
      /\ s.dataHash = a.dataHash /\ s.reviews = a.reviews
  BY <1>3 DEF SameBut, ReaderMembers
<1>10. MatchesNext(s)
  BY <1>1, <1>2, <1>3, <1>4, <1>7, <1>8, <1>9 DEF MatchesNext, counterVars
<1>11. SameBut(s, Absorbed, FieldMembers)
  BY <1>3 DEF SameBut, FieldMembers, a
<1>12. Now' = s
  BY <1>1, <1>3, <1>10, <1>11, NowAfterChunk
<1> QED
  BY <1>6, <1>12

(* The sizes: what was stored of them is cleared.                          *)
SizeFields == ZeroSizeFields \cup {TLV_ACTION_LIST_SIZE, TLV_AUTHORIZATION_LIST_SIZE}
LEMMA AbsorbedSize ==
  ASSUME BytesOK, FieldOK, HashOK, ControlOK, status = "SWITCH", state \in SizeFields
  PROVE  /\ SizeIn(Absorbed) = SizeRead
         /\ ~FieldAsserts =>
                Overwrite(Absorbed.memory, SizeAt, Zeros(SizeBufferSize)) = SizeCleared
<1>1. Absorbed.memory = Stored(SizeAt) /\ Absorbed.length = currentFieldLength
  <2>1. state \in BufferedFields /\ PlaceOf(state) = SizeAt
    BY DEF SizeFields, BufferedFields, ZeroSizeFields, PlaceOf
  <2> QED
    BY <2>1, AbsorbedMembers DEF ControlOK
<1>2. SizeIn(Absorbed) = SizeRead
  BY <1>1, Zenon DEF SizeIn, SizeRead
<1>3. ASSUME ~FieldAsserts
      PROVE  Overwrite(Absorbed.memory, SizeAt, Zeros(SizeBufferSize)) = SizeCleared
  <2> DEFINE p == SizeAt + currentFieldPos
  <2>1. Len(Chunk) \in Nat /\ currentFieldPos \in Nat /\ Chunk \in Seq(Byte)
    BY ChunkFacts DEF FieldOK
  <2>2. ~(Len(Chunk) > SizeBufferSize - currentFieldPos)
    BY <1>3 DEF FieldAsserts, SizeFields, BufferedFields
  <2>3. p \in Nat /\ p >= SizeAt /\ p + Len(Chunk) <= SizeAt + SizeBufferSize
    BY <2>1, <2>2, SizesAreNumbers
  <2> HIDE DEF p
  <2>4. Overwrite(Overwrite(memory, p, Chunk), SizeAt, Zeros(SizeBufferSize))
        = Overwrite(memory, SizeAt, Zeros(SizeBufferSize))
    <3>1. MemorySize \in Nat /\ memory \in [1..MemorySize -> Byte]
      BY SizesAreNumbers DEF BytesOK
    <3> QED
      BY <2>1, <2>3, <3>1, ClearedAnyway, Zenon
  <2> QED
    BY <1>1, <2>4, Zenon DEF Stored, SizeCleared, p
<1> QED
  BY <1>2, <1>3

LEMMA SizeFieldCloses ==
  ASSUME BytesOK, FieldOK, HashOK, ControlOK, Complete,
         \/ processZeroSizeField \/ processActionListSizeField
         \/ processAuthorizationListSizeField
  PROVE  Now' = Settle(Absorbed)
<1>1. FieldActions /\ TakeChunk /\ status = "SWITCH" /\ ~actionReady
  <2>1. FieldActions
    BY DEF FieldActions
  <2> QED
    BY <2>1, FieldActionsControl, FieldActionsTake DEF ControlOK
<1> DEFINE a == Absorbed
           f == ForwardCleared(a, a.state + 1)
<1>2. state \in SizeFields /\ ~FieldAsserts
  BY DEF processZeroSizeField, processActionListSizeField, processAuthorizationListSizeField,
         SizeFields
<1>3. /\ IsReader(a) /\ a.state = state
      /\ a.number = currentActionNumber /\ a.index = currentActionIndex
      /\ a.authNumber = currentAutorizationNumber /\ a.authIndex = currentAutorizationIndex
      /\ a.data = actionDataBuffer /\ a.dataHash = dataSha256 /\ a.reviews = shown
  BY <1>1, <1>2, AbsorbedMembers DEF SizeFields, ZeroSizeFields
<1>4. /\ SizeIn(a) = SizeRead
      /\ Overwrite(a.memory, SizeAt, Zeros(SizeBufferSize)) = SizeCleared
  BY <1>1, <1>2, AbsorbedSize
<1>5. Settle(Absorbed) = Close(a)
  BY <1>1, SettleTaken
<1> HIDE DEF a
<1>6. /\ IsReader(f) /\ f.state = a.state + 1 /\ ~f.inField
      /\ f.memory = Overwrite(a.memory, SizeAt, Zeros(SizeBufferSize))
      /\ SameBut(f, a, {"state", "inField", "memory"})
  BY <1>3, ForwardClearedMembers
<1>7. f.inField = FALSE
  BY DEF ForwardCleared, Forward
<1> HIDE DEF f
<1>8. /\ f.state = state + 1 /\ f.memory = SizeCleared
      /\ f.number = currentActionNumber /\ f.index = currentActionIndex
      /\ f.authNumber = currentAutorizationNumber /\ f.authIndex = currentAutorizationIndex
      /\ f.data = actionDataBuffer /\ f.dataHash = dataSha256 /\ f.reviews = shown
  BY <1>3, <1>4, <1>6 DEF SameBut, ReaderMembers
<1>9. SameBut(f, a, FieldMembers)
  BY <1>6 DEF SameBut, FieldMembers
<1>10. /\ state' = state + 1 /\ processingField' = FALSE /\ memory' = SizeCleared
       /\ UNCHANGED <<actionReady, shown, actionDataBuffer, dataSha256>>
  BY DEF processZeroSizeField, processActionListSizeField, processAuthorizationListSizeField,
         MoveTo, flagVars, dataVars, TakeChunk, historyVars
<1>11. ASSUME NEW s, IsReader(s), SameBut(s, f, {"number", "index", "authNumber", "authIndex"}),
              s.number = currentActionNumber', s.index = currentActionIndex',
              s.authNumber = currentAutorizationNumber',
              s.authIndex = currentAutorizationIndex'
       PROVE  Now' = s
  <2>1. /\ s.state = f.state /\ s.inField = f.inField /\ s.memory = f.memory
        /\ s.data = f.data /\ s.dataHash = f.dataHash /\ s.reviews = f.reviews
    BY <1>11 DEF SameBut, ReaderMembers
  <2>2. MatchesNext(s)
    BY <1>1, <1>7, <1>8, <1>10, <1>11, <2>1 DEF MatchesNext
  <2>3. SameBut(s, Absorbed, FieldMembers)
    BY <1>9, <1>11 DEF SameBut, FieldMembers, a
  <2> QED
    BY <1>1, <1>11, <2>2, <2>3, NowAfterChunk
<1>12. CASE processZeroSizeField
  <2>1. state \in ZeroSizeFields /\ UNCHANGED counterVars
    BY <1>12 DEF processZeroSizeField
  <2>2. SizeRead = 0
    BY <1>2, <2>1 DEF FieldAsserts
  <2>3. Close(a) = f
    <3>1. Close(a) = CloseZeroSize(a)
      BY <1>3, <2>1 DEF Close, ZeroSizeFields
    <3>2. SizeIn(a) = 0
      BY <1>4, <2>2
    <3> QED
      BY <3>1, <3>2, Zenon DEF CloseZeroSize, f
  <2>4. SameBut(f, f, {"number", "index", "authNumber", "authIndex"})
    BY DEF SameBut
  <2>5. Now' = f
    BY <1>6, <1>8, <1>11, <2>1, <2>4 DEF counterVars
  <2> QED
    BY <1>5, <2>3, <2>5
<1>13. CASE processActionListSizeField
  <2>1. /\ state = TLV_ACTION_LIST_SIZE
        /\ currentActionNumber' = SizeRead /\ currentActionIndex' = 0
        /\ UNCHANGED <<currentAutorizationIndex, currentAutorizationNumber>>
    BY <1>13 DEF processActionListSizeField
  <2> DEFINE s == CloseActionListSize(a)
  <2>2. Close(a) = s
    BY <1>3, <2>1 DEF Close, ZeroSizeFields
  <2>3. IsReader(s) /\ s.number = SizeIn(a) /\ s.index = 0 /\ SameBut(s, f, {"number", "index"})
    BY <1>3, CloseActionListSizeMembers, Zenon DEF f
  <2> HIDE DEF s
  <2>4. SameBut(s, f, {"number", "index", "authNumber", "authIndex"})
    BY <2>3 DEF SameBut
  <2>5. s.authNumber = f.authNumber /\ s.authIndex = f.authIndex
    BY <2>3 DEF SameBut, ReaderMembers
  <2>6. Now' = s
    BY <1>4, <1>8, <1>11, <2>1, <2>3, <2>4, <2>5
  <2> QED
    BY <1>5, <2>2, <2>6
<1>14. CASE processAuthorizationListSizeField
  <2>1. /\ state = TLV_AUTHORIZATION_LIST_SIZE
        /\ currentAutorizationNumber' = SizeRead /\ currentAutorizationIndex' = 0
        /\ UNCHANGED <<currentActionIndex, currentActionNumber>>
    BY <1>14 DEF processAuthorizationListSizeField
  <2> DEFINE s == CloseAuthorizationListSize(a)
  <2>2. Close(a) = s
    BY <1>3, <2>1 DEF Close, ZeroSizeFields
  <2>3. /\ IsReader(s) /\ s.authNumber = SizeIn(a) /\ s.authIndex = 0
        /\ SameBut(s, f, {"authNumber", "authIndex"})
    BY <1>3, CloseAuthorizationListSizeMembers, Zenon DEF f
  <2> HIDE DEF s
  <2>4. SameBut(s, f, {"number", "index", "authNumber", "authIndex"})
    BY <2>3 DEF SameBut
  <2>5. s.number = f.number /\ s.index = f.index
    BY <2>3 DEF SameBut, ReaderMembers
  <2>6. Now' = s
    BY <1>4, <1>8, <1>11, <2>1, <2>3, <2>4, <2>5
  <2> QED
    BY <1>5, <2>2, <2>6
<1> QED
  BY <1>12, <1>13, <1>14

LEMMA PermissionCloses ==
  ASSUME BytesOK, FieldOK, HashOK, ControlOK, Complete, processAuthorizationPermission
  PROVE  Now' = Settle(Absorbed)
<1>1. FieldActions /\ TakeChunk /\ status = "SWITCH" /\ ~actionReady
  <2>1. FieldActions
    BY DEF FieldActions
  <2> QED
    BY <2>1, FieldActionsControl, FieldActionsTake DEF ControlOK
<1> DEFINE a == Absorbed
           f == ForwardCleared(a, AfterPermission(a))
           s == ClosePermission(a)
<1>2. state = TLV_AUTHORIZATION_PERMISSION
  BY DEF processAuthorizationPermission
<1>3. /\ IsReader(a) /\ a.state = state
      /\ a.number = currentActionNumber /\ a.index = currentActionIndex
      /\ a.authNumber = currentAutorizationNumber /\ a.authIndex = currentAutorizationIndex
      /\ a.memory = memory
      /\ a.data = actionDataBuffer /\ a.dataHash = dataSha256 /\ a.reviews = shown
  BY <1>1, <1>2, AbsorbedMembers DEF BufferedFields, ZeroSizeFields
<1>4. Settle(Absorbed) = Close(a)
  BY <1>1, SettleTaken
<1> HIDE DEF a
<1>5. Close(a) = s
  BY <1>2, <1>3 DEF Close, ZeroSizeFields
<1>6. /\ IsReader(f) /\ f.state = AfterPermission(a) /\ ~f.inField
      /\ f.memory = Overwrite(a.memory, SizeAt, Zeros(SizeBufferSize))
      /\ SameBut(f, a, {"state", "inField", "memory"})
  BY <1>3, ForwardClearedMembers
<1>7. f.inField = FALSE
  BY DEF ForwardCleared, Forward
<1>8. IsReader(s) /\ s.authIndex = NextPermission(a) /\ SameBut(s, f, {"authIndex"})
  BY <1>3, ClosePermissionMembers, Zenon
<1> HIDE DEF f, s
<1>9. /\ s.state = f.state /\ s.inField = f.inField /\ s.memory = f.memory
      /\ s.number = a.number /\ s.index = a.index /\ s.authNumber = a.authNumber
      /\ s.data = a.data /\ s.dataHash = a.dataHash /\ s.reviews = a.reviews
  BY <1>6, <1>8 DEF SameBut, ReaderMembers
<1>10. SameBut(s, Absorbed, FieldMembers)
  BY <1>6, <1>8 DEF SameBut, FieldMembers, a
<1>11. NextPermission(a) = (currentAutorizationIndex + 1) % CounterMod
  BY <1>3 DEF NextPermission
<1>12. /\ currentAutorizationIndex' = NextPermission(a) /\ memory' = SizeCleared
       /\ state' = AfterPermission(a) /\ processingField' = FALSE
       /\ UNCHANGED <<actionReady, shown, currentActionIndex, currentActionNumber,
                      currentAutorizationNumber, actionDataBuffer, dataSha256>>
  BY <1>3, <1>11
  DEF processAuthorizationPermission, MoveTo, flagVars, dataVars, TakeChunk, historyVars,
      AfterPermission
<1>13. f.memory = SizeCleared
  BY <1>3, <1>6, Zenon DEF SizeCleared
<1>14. MatchesNext(s)
  BY <1>1, <1>3, <1>6, <1>7, <1>8, <1>9, <1>12, <1>13 DEF MatchesNext
<1>15. Now' = s
  BY <1>1, <1>8, <1>10, <1>14, NowAfterChunk
<1> QED
  BY <1>4, <1>5, <1>15

LEMMA ActionDataCloses ==
  ASSUME BytesOK, FieldOK, HashOK, ControlOK, NamesOK, Complete,
         processUnknownActionData \/ processActionData
  PROVE  Now' = Settle(Absorbed)
<1>1. FieldActions /\ TakeChunk /\ status = "SWITCH" /\ ~actionReady
  <2>1. FieldActions
    BY DEF FieldActions
  <2> QED
    BY <2>1, FieldActionsControl, FieldActionsTake DEF ControlOK
<1> DEFINE a == Absorbed
           f == Forward(a, AfterAction(a))
           s == CloseActionData(a)
<1>2. state = TLV_ACTION_DATA
  BY DEF processUnknownActionData, processActionData
<1>3. /\ IsReader(a) /\ a.state = state /\ a.length = currentFieldLength
      /\ a.number = currentActionNumber /\ a.index = currentActionIndex
      /\ a.authNumber = currentAutorizationNumber /\ a.authIndex = currentAutorizationIndex
      /\ a.memory = memory
      /\ a.data = (IF Known THEN DataStored ELSE actionDataBuffer)
      /\ a.dataHash = (IF ~Known /\ dataAllowed THEN dataSha256 \o Chunk ELSE dataSha256)
      /\ a.reviews = shown
  BY <1>1, <1>2, AbsorbedMembers DEF BufferedFields, ZeroSizeFields
<1>4. Settle(Absorbed) = Close(a)
  BY <1>1, SettleTaken
<1> HIDE DEF a
<1>5. Close(a) = s
  BY <1>2, <1>3 DEF Close, ZeroSizeFields
<1>6. KnownIn(a.memory) = Known
  BY <1>3, KnownNow
<1>7. Known => ArgumentsIn(a) = Arguments /\ ~Arguments.asserts
  <2>1. Known => ~FieldAsserts
    BY DEF processUnknownActionData, processActionData
  <2>2. Known => ~Arguments.asserts
    BY <1>2, <2>1 DEF FieldAsserts
  <2>3. ActionIn(a.memory) = contractActionName
    BY <1>3 DEF ActionIn, contractActionName
  <2>4. Known => ArgumentsIn(a) = Arguments
    BY <1>3, <2>3, Zenon DEF ArgumentsIn, Arguments
  <2> QED
    BY <2>2, <2>4
<1>8. ~(KnownIn(a.memory) /\ ArgumentsIn(a).asserts)
  BY <1>6, <1>7, Zenon
<1>9. /\ IsReader(f) /\ IsReader(s) /\ s.index = NextAction(a)
      /\ s.reviews = Append(a.reviews, ReviewIn(a))
      /\ s.dataHash = (IF KnownIn(a.memory) THEN a.dataHash ELSE <<>>)
      /\ SameBut(s, f, {"index", "reviews", "dataHash"})
  BY <1>3, <1>8, CloseActionDataMembers, Zenon
<1>10. f.state = AfterAction(a) /\ f.inField = FALSE /\ SameBut(f, a, {"state", "inField"})
  <2>1. f.state = AfterAction(a) /\ SameBut(f, a, {"state", "inField"})
    BY <1>3, ForwardMembers
  <2>2. f.inField = FALSE
    BY DEF Forward
  <2> QED
    BY <2>1, <2>2
<1> HIDE DEF f, s
<1>11. /\ s.state = f.state /\ s.inField = f.inField /\ s.memory = a.memory
       /\ s.number = a.number /\ s.authNumber = a.authNumber /\ s.authIndex = a.authIndex
       /\ s.data = a.data
  BY <1>9, <1>10 DEF SameBut, ReaderMembers
<1>12. SameBut(s, Absorbed, FieldMembers)
  BY <1>9, <1>10 DEF SameBut, FieldMembers, a
<1>13. NextAction(a) = (currentActionIndex + 1) % CounterMod
  BY <1>3 DEF NextAction
<1>14. ActionRead
  BY DEF processUnknownActionData, processActionData
<1>15. /\ currentActionIndex' = NextAction(a)
       /\ state' = AfterAction(a) /\ processingField' = FALSE
       /\ actionReady' = TRUE /\ currentActionDataBufferLength' = currentFieldLength
  BY <1>3, <1>13, <1>14 DEF ActionRead, MoveTo, AfterAction
<1>16. UNCHANGED <<memory, shown, currentActionNumber, currentAutorizationIndex,
                   currentAutorizationNumber>>
  BY DEF processUnknownActionData, processActionData, TakeChunk, historyVars
<1>17. actionDataBuffer' = a.data
  BY <1>3 DEF processUnknownActionData, processActionData
<1>18. dataSha256' = s.dataHash
  BY <1>3, <1>6, <1>9 DEF processUnknownActionData, processActionData
<1>19. Reviewed' = ReviewIn(a)
  <2>1. /\ contractName' = ContractIn(a.memory) /\ contractActionName' = ActionIn(a.memory)
        /\ contractName' = contractName /\ contractActionName' = contractActionName
    BY <1>3, <1>16 DEF contractName, contractActionName, ContractIn, ActionIn
  <2>2. Known' = KnownIn(a.memory)
    BY <2>1, Zenon DEF Known, KnownIn
  <2>3. /\ content.contract = name_to_string(contractName)
        /\ content.action = name_to_string(contractActionName)
        /\ {"contract", "action", "argumentCount"} \subseteq DOMAIN content
    BY <1>2 DEF NamesOK
  <2> DEFINE count == IF Known THEN ArgumentsIn(a).count ELSE 3
  <2>4. content' = [content EXCEPT !.argumentCount = count]
    BY <1>7 DEF processUnknownActionData, processActionData
  <2> HIDE DEF count
  <2>5. /\ content'.contract = content.contract /\ content'.action = content.action
        /\ content'.argumentCount = count
    BY <2>3, <2>4, NameMembers, Zenon
  <2>6. ~Known => dataChecksum' = a.dataHash
    BY <1>3 DEF processUnknownActionData, processActionData
  <2>7. /\ content'.contract = name_to_string(ContractIn(a.memory))
        /\ content'.action = name_to_string(ActionIn(a.memory))
    BY <2>1, <2>3, <2>5, Zenon
  <2> DEFINE known == KnownIn(a.memory)
  <2>8. Reviewed'
        = [contract |-> content'.contract, action |-> content'.action,
           index |-> currentActionIndex', number |-> currentActionNumber',
           arguments |-> content'.argumentCount,
           data |-> IF Known'
                    THEN SubSeq(actionDataBuffer', 1, currentActionDataBufferLength') ELSE <<>>,
           checksum |-> IF Known' THEN <<>> ELSE dataChecksum']
    BY DEF Reviewed
  <2>9. content'.argumentCount = IF known THEN ArgumentsIn(a).count ELSE 3
    BY <1>6, <2>5, Zenon DEF count
  <2>10. (IF Known' THEN SubSeq(actionDataBuffer', 1, currentActionDataBufferLength') ELSE <<>>)
         = IF known THEN SubSeq(a.data, 1, a.length) ELSE <<>>
    BY <1>3, <1>15, <1>17, <2>2, Zenon
  <2>11. (IF Known' THEN <<>> ELSE dataChecksum') = IF known THEN <<>> ELSE a.dataHash
    BY <1>6, <2>2, <2>6, Zenon
  <2>12. currentActionIndex' = NextAction(a) /\ currentActionNumber' = a.number
    BY <1>3, <1>15, <1>16
  <2> QED
    BY <2>7, <2>8, <2>9, <2>10, <2>11, <2>12, Zenon DEF ReviewIn
<1>20. s.reviews = Append(shown', Reviewed')
  BY <1>3, <1>9, <1>16, <1>19, Zenon
<1>21. MatchesNext(s)
  BY <1>3, <1>9, <1>10, <1>11, <1>15, <1>16, <1>17, <1>18, <1>20 DEF MatchesNext
<1>22. Now' = s
  BY <1>1, <1>9, <1>12, <1>21, NowAfterChunk
<1> QED
  BY <1>4, <1>5, <1>22

(* Every chunk taken by the switch is a chunk read.                        *)
LEMMA FieldActionsRead ==
  ASSUME BytesOK, FieldOK, HashOK, ControlOK, NamesOK, FieldActions
  PROVE  Now' = Settle(Absorbed)
<1>1. CASE ~Complete
  BY <1>1, OpenField
<1>2. CASE Complete
  BY <1>2, PlainFieldCloses, SizeFieldCloses, PermissionCloses, ActionDataCloses
  DEF FieldActions
<1> QED
  BY <1>1, <1>2

----------------------------------------------------------------------------
(* The invariant: what the parser has read of a transaction is what the    *)
(* reader has made of the same bytes.  At the switch a field is not yet    *)
(* settled, and an assertion is met by the reader at some byte of the      *)
(* chunk.                                                                  *)
AgreesOK ==
    state # TLV_NONE =>
        /\ status = "ASSERT" => \E n \in 0..Len(tx.bytes) : Reading(tx)[n].verdict = "ASSERT"
        /\ status = "SWITCH" => Reading(tx)[Consumed] = Settle(Now)
        /\ status \notin {"SWITCH", "ASSERT"} => Reading(tx)[Consumed] = Now

(* A field that is left for the next block has nothing to settle.          *)
SettledOK ==
    processingField /\ status \notin {"SWITCH", "ASSERT", "STREAM_FAULT"} =>
        ~Refused(Now) /\ ~TooLong(Now) /\ currentFieldPos # currentFieldLength

ShownOK == IsPrefixOf(shown, Result(tx).reviews)

ReadingInv ==
    /\ StreamInv /\ WindowOK /\ AnswersOK /\ HashOK /\ NamesOK
    /\ AgreesOK /\ SettledOK /\ ShownOK

LEMMA ConsumedInStream ==
  ASSUME BytesOK, WindowOK
  PROVE  Consumed \in Nat /\ Consumed \in 0..Len(tx.bytes)
<1>1. /\ workBuffer \in Seq(Byte) /\ sent \in Nat /\ Len(tx.bytes) \in Nat
      /\ Len(workBuffer) \in Nat /\ Consumed \in Nat /\ sent <= Len(tx.bytes)
  BY StreamIsBytes DEF BytesOK, WindowOK
<1>2. Consumed = sent - Len(workBuffer)
  BY DEF Consumed
<1> QED
  BY <1>1, <1>2

LEMMA ChunkIsPart ==
  ASSUME BytesOK, FieldOK, WindowOK
  PROVE  /\ Consumed + Len(Chunk) <= Len(tx.bytes)
         /\ Chunk = SubSeq(tx.bytes, Consumed + 1, Consumed + Len(Chunk))
<1>1. tx.bytes \in Seq(Byte) /\ Len(tx.bytes) \in Nat
  BY StreamIsBytes
<1>2. /\ workBuffer \in Seq(Byte) /\ sent \in Nat /\ Consumed \in Nat /\ Len(workBuffer) \in Nat
      /\ Len(workBuffer) = sent - Consumed
  BY DEF BytesOK, WindowOK, Consumed
<1>3. FieldLeft \in Nat
  BY DEF FieldOK, FieldLeft
<1> DEFINE n == IF Len(workBuffer) < FieldLeft THEN Len(workBuffer) ELSE FieldLeft
<1>4. n \in 0..Len(workBuffer)
  BY <1>2, <1>3
<1> HIDE DEF n
<1>5. Chunk = SubSeq(workBuffer, 1, n)
  BY DEF Chunk, n
<1>6. Len(Chunk) = n
  BY <1>2, <1>4, <1>5
<1>7. SubSeq(workBuffer, 1, n) = SubSeq(tx.bytes, Consumed + 1, Consumed + n)
  BY <1>1, <1>2, <1>4, Windows DEF WindowOK
<1>8. Consumed + n <= Len(tx.bytes)
  BY <1>1, <1>2, <1>4 DEF WindowOK
<1> QED
  BY <1>5, <1>6, <1>7, <1>8

(* The reader reads the first m bytes of the chunk.                        *)
LEMMA ChunkOfReading ==
  ASSUME StreamInv, WindowOK, AnswersOK, HashOK, AgreesOK, status = "SWITCH",
         ~Refused(Now), ~TooLong(Now),
         NEW m \in 0..Len(Chunk),
         state \in BufferedFields => currentFieldPos + m <= SizeBufferSize + 1
  PROVE  Reading(tx)[Consumed + m]
         = Settle(Absorb(Now, SubSeq(tx.bytes, Consumed + 1, Consumed + m)))
<1> DEFINE r == Now
           k == Consumed
           Part(j) == SubSeq(tx.bytes, k + 1, k + j)
<1>1. /\ BytesOK /\ FieldOK /\ ControlOK /\ ReaderOK(r)
      /\ tx.bytes \in Seq(Byte) /\ Len(tx.bytes) \in Nat /\ k \in Nat
      /\ Len(Chunk) \in Nat /\ k + Len(Chunk) <= Len(tx.bytes)
      /\ currentFieldPos + Len(Chunk) <= currentFieldLength
      /\ currentFieldPos \in Nat /\ currentFieldLength \in Nat
  <2>1. BytesOK /\ FieldOK /\ ControlOK
    BY DEF StreamInv
  <2> QED
    BY <2>1, NowReaderOK, StreamIsBytes, ConsumedInStream, ChunkIsPart, ChunkFacts DEF FieldOK
<1>2. /\ r.verdict = "STREAM_PROCESSING" /\ r.state = state /\ r.inField
      /\ r.pos = currentFieldPos /\ r.length = currentFieldLength
  BY NowMembers DEF AnswersOK
<1>3. ReadsOn(r) /\ state # TLV_NONE
  BY <1>1, <1>2 DEF ReadsOn, ControlOK
<1>4. Reading(tx)[k] = Settle(r)
  BY <1>3 DEF AgreesOK
<1>5. m \in Nat /\ k + m <= Len(tx.bytes) /\ r.pos + m <= r.length
  BY <1>1, <1>2
<1>6. ASSUME NEW j \in 0..(m - 1) PROVE ~TooLong(Absorb(r, Part(j)))
  <2>1. j \in Nat /\ j < m /\ k + j <= Len(tx.bytes)
    <3> HIDE DEF r, k
    <3> QED
      BY <1>1, <1>5
  <2>2. Part(j) \in Seq(Byte) /\ Len(Part(j)) = j
    BY <1>1, <2>1, PartFacts
  <2> DEFINE a == Absorb(r, Part(j))
  <2> HIDE DEF r, k, Part
  <2>3. InSameField(a, r) /\ a.pos = r.pos + j
    BY <1>1, <2>2, AbsorbStays, Zenon
  <2> HIDE DEF a
  <2>4. a.state = r.state /\ a.length = r.length /\ a.pos = currentFieldPos + j
        /\ (r.state = TLV_ACTION_DATA => a.memory = r.memory)
    BY <1>2, <2>3 DEF InSameField
  <2>5. r.state \in BufferedFields => ~(a.pos > SizeBufferSize)
    BY <1>1, <1>2, <1>5, <2>1, <2>4 DEF SizeBufferSize
  <2>6. r.state = TLV_ACTION_DATA /\ KnownIn(r.memory) => ~(r.length > ActionDataSize - 1)
    BY Zenon DEF TooLong, r
  <2>7. ~TooLong(a)
    BY <2>4, <2>5, <2>6, Zenon DEF TooLong
  <2> QED
    BY <2>7 DEF a
<1>7. ~Refused(r)
  OBVIOUS
<1> HIDE DEF r, k
<1>9. FitsBefore(tx, k, r, m)
  BY <1>6, Zenon DEF FitsBefore
<1>8. Reading(tx)[k + m] = Settle(Absorb(r, Part(m)))
  BY <1>1, <1>2, <1>3, <1>4, <1>5, <1>7, <1>9, ReadingField
<1> QED
  BY <1>8 DEF r, k

LEMMA ChunkAgrees ==
  ASSUME ReadingInv, FieldActions
  PROVE  /\ Now' = Settle(Absorbed)
         /\ Reading(tx)[Consumed'] = Now' /\ tx' = tx
<1>1. /\ StreamInv /\ BytesOK /\ FieldOK /\ ControlOK /\ WindowOK /\ AnswersOK /\ HashOK
      /\ NamesOK /\ AgreesOK
  BY DEF ReadingInv, StreamInv
<1>2. status = "SWITCH" /\ ~actionReady
  BY <1>1, FieldActionsControl DEF ControlOK
<1>3. ~Refused(Absorbed) /\ ~TooLong(Absorbed)
  BY <1>1, TakenIsFine
<1>4. /\ ReaderOK(Now) /\ Chunk \in Seq(Byte) /\ Len(Chunk) \in Nat
      /\ currentFieldPos \in Nat
  BY <1>1, NowReaderOK, ChunkFacts DEF FieldOK
<1>5. InSameField(Absorbed, Now) /\ Absorbed.pos = Now.pos + Len(Chunk)
  BY <1>4, AbsorbStays, Zenon DEF Absorbed
<1>6. ~Refused(Now)
  BY <1>3, <1>5, Zenon DEF InSameField
<1>7. /\ Absorbed.state = state /\ Absorbed.length = currentFieldLength
      /\ Absorbed.pos = currentFieldPos + Len(Chunk)
      /\ Now.state = state /\ Now.length = currentFieldLength /\ Now.pos = currentFieldPos
      /\ state = TLV_ACTION_DATA => Absorbed.memory = Now.memory
  BY <1>5, <1>1, <1>2, AbsorbedMembers, NowMembers DEF InSameField
<1>8. state \in BufferedFields => currentFieldPos + Len(Chunk) <= SizeBufferSize
  <2>1. state \in BufferedFields => ~(currentFieldPos + Len(Chunk) > SizeBufferSize)
    BY <1>3, <1>7, Zenon DEF TooLong
  <2> QED
    BY <1>4, <2>1 DEF SizeBufferSize
<1>9. ~TooLong(Now)
  <2>1. state \in BufferedFields => ~(currentFieldPos > SizeBufferSize)
    BY <1>4, <1>8 DEF SizeBufferSize
  <2>2. ~(state = TLV_ACTION_DATA /\ KnownIn(Now.memory)
          /\ currentFieldLength > ActionDataSize - 1)
    BY <1>3, <1>7, Zenon DEF TooLong
  <2> QED
    BY <1>7, <2>1, <2>2, Zenon DEF TooLong
<1>10. /\ Len(Chunk) \in 0..Len(Chunk)
       /\ state \in BufferedFields => currentFieldPos + Len(Chunk) <= SizeBufferSize + 1
  BY <1>4, <1>8 DEF SizeBufferSize
<1>11. Reading(tx)[Consumed + Len(Chunk)]
       = Settle(Absorb(Now, SubSeq(tx.bytes, Consumed + 1, Consumed + Len(Chunk))))
  BY <1>1, <1>2, <1>6, <1>9, <1>10, ChunkOfReading
<1>12. Chunk = SubSeq(tx.bytes, Consumed + 1, Consumed + Len(Chunk))
  BY <1>1, ChunkIsPart
<1>13. Consumed' = Consumed + Len(Chunk) /\ tx' = tx
  BY <1>1, FieldActionsTake, ChunkIsRead DEF TakeChunk, hostVars
<1>14. Now' = Settle(Absorbed)
  BY <1>1, FieldActionsRead
<1> QED
  BY <1>11, <1>12, <1>13, <1>14, Zenon DEF Absorbed

(* An assertion of the switch is one the reader runs into.                 *)
LEMMA AssertAgrees ==
  ASSUME ReadingInv, SwitchAsserts
  PROVE  \E n \in 0..Len(tx.bytes) : Reading(tx)[n].verdict = "ASSERT"
<1>1. /\ StreamInv /\ BytesOK /\ FieldOK /\ ControlOK /\ PositionOK /\ WindowOK /\ AnswersOK
      /\ HashOK /\ AgreesOK
  BY DEF ReadingInv, StreamInv
<1>2. status = "SWITCH" /\ FieldAsserts /\ ~actionReady /\ state # TLV_NONE /\ processingField
  BY <1>1 DEF SwitchAsserts, ControlOK, AnswersOK
<1>3. Reading(tx)[Consumed] = Settle(Now)
  BY <1>1, <1>2 DEF AgreesOK
<1>4. /\ Now.state = state /\ Now.length = currentFieldLength /\ Now.pos = currentFieldPos
      /\ Now.memory = memory /\ KnownIn(Now.memory) = Known
      /\ IsReader(Now) /\ ReaderOK(Now)
  BY <1>1, NowMembers, KnownNow, NowIsReader, NowReaderOK
<1>5. state = TLV_ACTION_DATA => Known
  BY <1>2 DEF FieldAsserts, BufferedFields, ZeroSizeFields
<1>6. ~Refused(Now)
  BY <1>4, <1>5, Zenon DEF Refused
<1>7. \A r : IsReader(r) => Stop(r, "ASSERT").verdict = "ASSERT"
  BY StopMembers
<1>8. /\ Consumed \in 0..Len(tx.bytes) /\ Consumed \in Nat
      /\ Len(Chunk) \in Nat /\ currentFieldPos \in Nat /\ Chunk \in Seq(Byte)
      /\ Consumed + Len(Chunk) <= Len(tx.bytes) /\ tx.bytes \in Seq(Byte)
      /\ Len(tx.bytes) \in Nat
  BY <1>1, ConsumedInStream, ChunkIsPart, ChunkFacts, StreamIsBytes DEF FieldOK
<1>9. CASE TooLong(Now)
  <2>1. Settle(Now) = Stop(Now, "ASSERT")
    BY <1>6, <1>9, Zenon DEF Settle
  <2> QED
    BY <1>3, <1>4, <1>7, <1>8, <2>1, Zenon
<1>10. ASSUME ~TooLong(Now), NEW m \in 0..Len(Chunk),
              state \in BufferedFields => currentFieldPos + m <= SizeBufferSize + 1,
              Settle(Absorb(Now, SubSeq(tx.bytes, Consumed + 1, Consumed + m))).verdict = "ASSERT"
       PROVE  \E n \in 0..Len(tx.bytes) : Reading(tx)[n].verdict = "ASSERT"
  <2>1. Reading(tx)[Consumed + m].verdict = "ASSERT"
    BY <1>1, <1>2, <1>6, <1>10, ChunkOfReading
  <2>2. Consumed + m \in 0..Len(tx.bytes)
    <3> DEFINE k == Consumed
    <3> HIDE DEF k
    <3>1. k + m \in 0..Len(tx.bytes)
      BY <1>8 DEF k
    <3> QED
      BY <3>1 DEF k
  <2> QED
    BY <2>1, <2>2, Zenon
<1>11. CASE ~TooLong(Now) /\ state \in BufferedFields
            /\ currentFieldPos + Len(Chunk) > SizeBufferSize
  <2> DEFINE m == SizeBufferSize + 1 - currentFieldPos
             part == SubSeq(tx.bytes, Consumed + 1, Consumed + m)
             a == Absorb(Now, part)
  <2>1. ~(currentFieldPos > SizeBufferSize)
    BY <1>4, <1>11, Zenon DEF TooLong
  <2>2. m \in 0..Len(Chunk) /\ m \in Nat /\ currentFieldPos + m = SizeBufferSize + 1
    BY <1>8, <1>11, <2>1 DEF SizeBufferSize
  <2> HIDE DEF m
  <2>3. part \in Seq(Byte) /\ Len(part) = m
    <3>1. Consumed + m <= Len(tx.bytes)
      BY <1>8, <2>2
    <3> QED
      BY <1>8, <2>2, <3>1, PartFacts
  <2> HIDE DEF part
  <2>4. InSameField(a, Now) /\ a.pos = Now.pos + Len(part) /\ IsReader(a)
    BY <1>4, <2>3, AbsorbStays, AbsorbKeepsShape, Zenon DEF ReaderOK
  <2> HIDE DEF a
  <2>5. a.state = state /\ a.pos = SizeBufferSize + 1 /\ ~Refused(a)
    BY <1>4, <1>6, <2>2, <2>3, <2>4, Zenon DEF InSameField
  <2>6. a.pos > SizeBufferSize
    BY <2>5 DEF SizeBufferSize
  <2>7. TooLong(a)
    BY <1>11, <2>5, <2>6, Zenon DEF TooLong
  <2>8. Settle(a) = Stop(a, "ASSERT")
    BY <2>5, <2>7, Zenon DEF Settle
  <2>9. Settle(Absorb(Now, SubSeq(tx.bytes, Consumed + 1, Consumed + m))).verdict = "ASSERT"
    BY <1>7, <2>4, <2>8, Zenon DEF a, part
  <2>10. currentFieldPos + m <= SizeBufferSize + 1
    BY <1>8, <2>2 DEF SizeBufferSize
  <2> QED
    BY <1>10, <1>11, <2>2, <2>9, <2>10
<1>12. CASE ~TooLong(Now) /\ ~(state \in BufferedFields
                               /\ currentFieldPos + Len(Chunk) > SizeBufferSize)
  <2>1. /\ Complete
        /\ \/ state \in ZeroSizeFields /\ SizeRead # 0
           \/ state = TLV_ACTION_DATA /\ Known /\ Arguments.asserts
    <3>1. ~(state = TLV_ACTION_DATA /\ Known /\ currentFieldLength > ActionDataSize - 1)
      BY <1>4, <1>12, Zenon DEF TooLong
    <3>2. ~(state \in BufferedFields /\ Len(Chunk) > SizeBufferSize - currentFieldPos)
      BY <1>8, <1>12 DEF SizeBufferSize
    <3> QED
      BY <1>2, <3>1, <3>2 DEF FieldAsserts
  <2> DEFINE a == Absorbed
  <2>2. /\ IsReader(a) /\ a.state = state /\ a.length = currentFieldLength
        /\ a.pos = currentFieldPos + Len(Chunk)
        /\ state = TLV_ACTION_DATA => a.memory = memory /\ (Known => a.data = DataStored)
    BY <1>1, <1>2, AbsorbedMembers DEF BufferedFields, ZeroSizeFields
  <2>3. InSameField(a, Now)
    BY <1>4, <1>8, AbsorbStays, Zenon DEF Absorbed
  <2>4. state \in ZeroSizeFields => SizeIn(a) = SizeRead
    BY <1>1, <1>2, AbsorbedSize DEF SizeFields
  <2> HIDE DEF a
  <2>5. ~Refused(a)
    BY <1>6, <2>3, Zenon DEF InSameField
  <2>6. a.pos = a.length
    BY <2>1, <2>2 DEF Complete
  <2>7. Settle(a).verdict = "ASSERT"
    <3>1. CASE TooLong(a)
      <4>1. Settle(a) = Stop(a, "ASSERT")
        BY <2>5, <3>1, Zenon DEF Settle
      <4> QED
        BY <1>7, <2>2, <4>1, Zenon
    <3>2. CASE ~TooLong(a)
      <4>1. Settle(a) = Close(a)
        BY <2>5, <2>6, <3>2, Zenon DEF Settle
      <4>2. CASE state \in ZeroSizeFields
        <5>1. Close(a) = CloseZeroSize(a)
          BY <2>2, <4>2 DEF Close, ZeroSizeFields
        <5>2. SizeIn(a) # 0
          BY <2>1, <2>4, <4>2 DEF ZeroSizeFields
        <5>3. Close(a) = Stop(a, "ASSERT")
          BY <5>1, <5>2, Zenon DEF CloseZeroSize
        <5> QED
          BY <1>7, <2>2, <4>1, <5>3, Zenon
      <4>3. CASE state = TLV_ACTION_DATA /\ Known /\ Arguments.asserts
        <5>1. Close(a) = CloseActionData(a)
          BY <2>2, <4>3 DEF Close, ZeroSizeFields
        <5>2. KnownIn(a.memory) = Known
          BY <1>4, <2>2, <4>3, Zenon
        <5>3. ActionIn(a.memory) = contractActionName
          BY <2>2, <4>3 DEF ActionIn, contractActionName
        <5>4. ArgumentsIn(a) = Arguments
          BY <2>2, <4>3, <5>3, Zenon DEF ArgumentsIn, Arguments
        <5>5. Close(a) = Stop(a, "ASSERT")
          BY <4>3, <5>1, <5>2, <5>4, Zenon DEF CloseActionData
        <5> QED
          BY <1>7, <2>2, <4>1, <5>5, Zenon
      <4> QED
        BY <2>1, <4>2, <4>3
    <3> QED
      BY <3>1, <3>2
  <2>8. Settle(Absorb(Now, SubSeq(tx.bytes, Consumed + 1, Consumed + Len(Chunk)))).verdict
        = "ASSERT"
    <3>1. Chunk = SubSeq(tx.bytes, Consumed + 1, Consumed + Len(Chunk))
      BY <1>1, ChunkIsPart
    <3> QED
      BY <2>7, <3>1, Zenon DEF a, Absorbed
  <2>9. /\ Len(Chunk) \in 0..Len(Chunk)
        /\ state \in BufferedFields => currentFieldPos + Len(Chunk) <= SizeBufferSize + 1
    BY <1>8, <1>12 DEF SizeBufferSize
  <2> QED
    BY <1>10, <1>12, <2>8, <2>9
<1> QED
  BY <1>9, <1>11, <1>12

----------------------------------------------------------------------------
(* Every step keeps the invariant.                                         *)
NextReviews == IF actionReady' THEN Append(shown', Reviewed') ELSE shown'
ContextStays ==
    UNCHANGED <<dataAllowed, state, processingField, currentFieldLength, currentFieldPos,
                counterVars, tlvBuffer, memory, actionDataBuffer, dataSha256, sha256>>

LEMMA NowStops ==
  ASSUME ContextStays, NextReviews = Now.reviews,
         NEW v, v = IF status' \in {"STREAM_FAULT", "ASSERT"} THEN status' ELSE "STREAM_PROCESSING"
  PROVE  Now' = Stop(Now, v)
<1> DEFINE n == Now'
           r == Now
           s == Stop(r, v)
<1>1. IsReader(n) /\ IsReader(r)
  BY NowIsReader
<1>2. /\ n.state = r.state /\ n.allowed = r.allowed /\ n.inField = r.inField
      /\ n.header = r.header /\ n.length = r.length /\ n.pos = r.pos
      /\ n.number = r.number /\ n.index = r.index
      /\ n.authNumber = r.authNumber /\ n.authIndex = r.authIndex
      /\ n.memory = r.memory /\ n.data = r.data
      /\ n.dataHash = r.dataHash /\ n.hash = r.hash
  BY NowMembers, NextMembers DEF ContextStays, counterVars
<1>3. n.reviews = r.reviews
  BY NextMembers DEF NextReviews
<1>7. n.verdict = v
  BY NextMembers
<1> HIDE DEF n, r
<1>4. IsReader(s) /\ s.verdict = v /\ SameBut(s, r, {"verdict"})
  BY <1>1, StopMembers
<1> HIDE DEF s
<1>5. SameBut(n, s, {})
  BY <1>2, <1>3, <1>4, <1>7 DEF SameBut, ReaderMembers
<1>6. n = s
  BY <1>1, <1>4, <1>5, SameReader
<1> QED
  BY <1>6 DEF n, s, r

LEMMA NowStays ==
  ASSUME ContextStays, NextReviews = Now.reviews,
         status \notin {"STREAM_FAULT", "ASSERT"}, status' \notin {"STREAM_FAULT", "ASSERT"}
  PROVE  Now' = Now
<1>1. Now' = Stop(Now, "STREAM_PROCESSING")
  BY NowStops
<1>2. Now.verdict = "STREAM_PROCESSING" /\ IsReader(Now)
  BY NowMembers, NowIsReader
<1> DEFINE r == Now
<1>3. r.verdict = "STREAM_PROCESSING" /\ IsReader(r)
  BY <1>2
<1> HIDE DEF r
<1>4. Stop(r, "STREAM_PROCESSING") = r
  <2>1. SameBut(Stop(r, "STREAM_PROCESSING"), r, {})
    BY <1>3, StopMembers DEF SameBut
  <2> QED
    BY <1>3, <2>1, StopMembers, SameReader
<1> QED
  BY <1>1, <1>4 DEF r

LEMMA ReviewsStay ==
  ASSUME UNCHANGED <<actionReady, shown, content, counterVars, memory, dataVars>>
  PROVE  NextReviews = Now.reviews
BY NowMembers
DEF NextReviews, Reviewed, dataVars, counterVars, Known, contractName, contractActionName

(* The steps of the loop and of its callers that read nothing.             *)
LEMMA IdleStays ==
  ASSUME UserContinues \/ LoopConfirm \/ LoopReturn \/ LoopContinueField
         \/ (\E n \in BlockSizes : SendBlock(n))
  PROVE  Now' = Now
<1>1. /\ ContextStays /\ status \notin {"STREAM_FAULT", "ASSERT"}
      /\ status' \notin {"STREAM_FAULT", "ASSERT"}
      /\ UNCHANGED <<actionReady, shown, content, counterVars, memory, dataVars>>
  BY DEF UserContinues, LoopConfirm, LoopReturn, LoopContinueField, SendBlock, LoopReads,
         ContextStays, Unparsed, hostVars, flagVars, dataVars, historyVars, counterVars
<1> QED
  BY <1>1, ReviewsStay, NowStays

LEMMA ReadyStays ==
  ASSUME LoopActionReady
  PROVE  Now' = Now /\ shown' = Now.reviews
<1>1. /\ ContextStays /\ status \notin {"STREAM_FAULT", "ASSERT"}
      /\ status' \notin {"STREAM_FAULT", "ASSERT"}
      /\ actionReady /\ ~actionReady' /\ shown' = Append(shown, Reviewed)
  BY DEF LoopActionReady, ContextStays, Unparsed, hostVars, dataVars, counterVars
<1>2. shown' = Now.reviews /\ NextReviews = Now.reviews
  BY <1>1, NowMembers DEF NextReviews
<1> QED
  BY <1>1, <1>2, NowStays

LEMMA RefusedStops ==
  ASSUME RefuseUnknownAction
  PROVE  Now' = Settle(Now)
<1>1. /\ ContextStays /\ status' = "STREAM_FAULT"
      /\ state = TLV_ACTION_DATA /\ ~Known /\ ~dataAllowed
      /\ UNCHANGED <<actionReady, shown, content, counterVars, memory, dataVars>>
  BY DEF RefuseUnknownAction, ContextStays, Unparsed, hostVars, flagVars, dataVars,
         historyVars, counterVars
<1>2. Now' = Stop(Now, "STREAM_FAULT")
  <2>1. ContextStays /\ NextReviews = Now.reviews
    BY <1>1, ReviewsStay
  <2>2. "STREAM_FAULT" = IF status' \in {"STREAM_FAULT", "ASSERT"}
                         THEN status' ELSE "STREAM_PROCESSING"
    BY <1>1
  <2> QED
    BY <2>1, <2>2, NowStops
<1>3. Refused(Now)
  BY <1>1, NowMembers, KnownNow DEF Refused
<1> QED
  BY <1>2, <1>3, Zenon DEF Settle

(* The reader of a stream that is started.                                 *)
LEMMA StartReads ==
  ASSUME NEW t \in Transactions, StartTransaction(t)
  PROVE  Now' = Reader(t) /\ Consumed' = 0 /\ tx' = t
<1> DEFINE n == Now'
           r == Reader(t)
<1>1. ZeroContext(t) /\ state' = TLV_CHAIN_ID /\ dataAllowed' = t.dataAllowed
  BY DEF StartTransaction, InitTxContext
<1>2. Consumed' = 0 /\ tx' = t
  <2>1. sent' = 0 /\ workBuffer' = <<>> /\ tx' = t
    BY <1>1 DEF ZeroContext
  <2>2. Consumed' = 0 - Len(<<>>)
    BY <2>1, Zenon DEF Consumed
  <2>3. Len(<<>>) = 0
    OBVIOUS
  <2>4. 0 - 0 = 0
    OBVIOUS
  <2> QED
    BY <2>1, <2>2, <2>3, <2>4, Zenon
<1>3. IsReader(n) /\ IsReader(r)
  BY NowIsReader, ReaderIsReader
<1>4. /\ n.verdict = r.verdict /\ n.state = r.state /\ n.allowed = r.allowed
      /\ n.inField = r.inField /\ n.header = r.header /\ n.length = r.length /\ n.pos = r.pos
      /\ n.number = r.number /\ n.index = r.index
      /\ n.authNumber = r.authNumber /\ n.authIndex = r.authIndex
      /\ n.memory = r.memory /\ n.data = r.data
      /\ n.dataHash = r.dataHash /\ n.hash = r.hash /\ n.reviews = r.reviews
  BY <1>1, NextMembers DEF ZeroContext, Reader
<1> HIDE DEF n, r
<1>5. SameBut(n, r, {})
  BY <1>4 DEF SameBut, ReaderMembers
<1>6. n = r
  BY <1>3, <1>5, SameReader
<1> QED
  BY <1>2, <1>6 DEF n, r

(* One byte of a header.                                                   *)
LEMMA HeaderByteRead ==
  ASSUME BytesOK, WindowOK, LoopTlvByte
  PROVE  /\ Consumed' = Consumed + 1 /\ tx' = tx
         /\ Consumed \in 0..(Len(tx.bytes) - 1)
         /\ Head(workBuffer) = tx.bytes[Consumed + 1]
<1>1. /\ workBuffer \in Seq(Byte) /\ workBuffer # <<>> /\ workBuffer' = Tail(workBuffer)
      /\ UNCHANGED <<tx, sent>>
  BY DEF LoopTlvByte, LoopReads, BytesOK, hostVars
<1>2. 1 \in 0..Len(workBuffer) /\ workBuffer' = SubSeq(workBuffer, 1 + 1, Len(workBuffer))
      /\ Head(workBuffer) = workBuffer[1]
  BY <1>1, TailIsRest
<1>3. /\ Consumed' = Consumed + 1 /\ Consumed + 1 <= Len(tx.bytes)
      /\ \A i \in 1..1 : workBuffer[i] = tx.bytes[Consumed + i]
  BY <1>1, <1>2, WindowMoves
<1>4. Consumed \in 0..(Len(tx.bytes) - 1)
  <2>1. Consumed \in Nat /\ Len(tx.bytes) \in Nat
    BY StreamIsBytes DEF WindowOK
  <2> DEFINE k == Consumed
  <2> HIDE DEF k
  <2>2. k \in 0..(Len(tx.bytes) - 1)
    BY <1>3, <2>1 DEF k
  <2> QED
    BY <2>2 DEF k
<1>5. Head(workBuffer) = tx.bytes[Consumed + 1]
  <2>1. 1 \in 1..1
    OBVIOUS
  <2> QED
    BY <1>2, <1>3, <2>1, Zenon
<1> QED
  BY <1>1, <1>3, <1>4, <1>5

LEMMA HeaderByteAgrees ==
  ASSUME BytesOK, WindowOK, LoopTlvByte
  PROVE  \/ status' = "SWITCH" /\ ReadByte(Now, Head(workBuffer)) = Settle(Now')
         \/ status' \in {"LOOP", "STREAM_FAULT"} /\ ReadByte(Now, Head(workBuffer)) = Now'
<1> DEFINE r == Now
           n == Now'
           byte == Head(workBuffer)
           header == Append(r.header, byte)
           tlv == tlvTryDecode(header)
           wrong == ~tlv.valid \/ Len(header) = TlvBufferSize
<1>1. IsReader(r) /\ IsReader(n)
  BY NowIsReader
<1>2. status = "LOOP" /\ state # TLV_DONE /\ ~processingField /\ processingField = FALSE
  BY DEF LoopTlvByte, LoopReads
<1>3. /\ r.verdict = "STREAM_PROCESSING" /\ r.state # TLV_DONE /\ ~r.inField
      /\ r.header = tlvBuffer
  BY <1>2, NowMembers
<1>4. ReadByte(r, byte) = ReadHeaderByte(r, byte)
  BY <1>3, Zenon DEF ReadByte
<1>5. /\ n.state = r.state /\ n.allowed = r.allowed
      /\ n.number = r.number /\ n.index = r.index
      /\ n.authNumber = r.authNumber /\ n.authIndex = r.authIndex
      /\ n.memory = r.memory /\ n.data = r.data
      /\ n.dataHash = r.dataHash /\ n.hash = r.hash
  BY NowMembers, NextMembers DEF LoopTlvByte, hostVars, counterVars, dataVars
<1>6. n.reviews = r.reviews
  <2>1. UNCHANGED <<actionReady, shown, content, counterVars, memory, dataVars>>
    BY DEF LoopTlvByte, flagVars, dataVars, historyVars
  <2> QED
    BY <2>1, ReviewsStay, NextMembers DEF NextReviews
<1>7. /\ n.inField = processingField' /\ n.header = tlvBuffer'
      /\ n.length = currentFieldLength' /\ n.pos = currentFieldPos'
      /\ n.verdict = IF status' \in {"STREAM_FAULT", "ASSERT"} THEN status' ELSE "STREAM_PROCESSING"
  BY NextMembers
<1>8. tlv = tlvTryDecode(Append(tlvBuffer, Head(workBuffer)))
      /\ header = Append(tlvBuffer, Head(workBuffer))
  BY <1>3
<1>9. /\ r.inField = processingField /\ r.header = tlvBuffer
      /\ r.length = currentFieldLength /\ r.pos = currentFieldPos
  BY NowMembers
<1> HIDE DEF r, n, byte
<1>10. CASE tlv.decoded
  <2>1. /\ status' = "SWITCH" /\ currentFieldLength' = tlv.length /\ currentFieldPos' = 0
        /\ tlvBuffer' = <<>> /\ processingField' = TRUE
    BY <1>8, <1>10, Zenon DEF LoopTlvByte
  <2> DEFINE length == tlv.length
             o == Opened(r, length)
  <2>2. ReadHeaderByte(r, byte) = Settle(o)
    BY <1>10, Zenon DEF ReadHeaderByte
  <2>3. length = currentFieldLength'
    BY <2>1
  <2> HIDE DEF length, header, tlv, wrong
  <2>4. /\ IsReader(o) /\ o.header = <<>> /\ o.inField = TRUE
        /\ o.length = length /\ o.pos = 0
        /\ SameBut(o, r, {"header", "inField", "length", "pos"})
    BY <1>1, OpenedMembers
  <2> HIDE DEF o
  <2>5. n.verdict = "STREAM_PROCESSING" /\ n.inField = TRUE /\ n.header = <<>>
        /\ n.length = length /\ n.pos = 0
    BY <1>7, <2>1, <2>3
  <2>8. SameBut(n, r, {"header", "inField", "length", "pos"})
    BY <1>3, <1>5, <1>6, <2>5 DEF SameBut, ReaderMembers
  <2>9. \A x \in {"header", "inField", "length", "pos"} : n[x] = o[x]
    BY <2>4, <2>5
  <2>6. SameBut(n, o, {})
    BY <2>4, <2>8, <2>9, Zenon DEF SameBut
  <2>7. n = o
    BY <1>1, <2>4, <2>6, SameReader
  <2> QED
    BY <1>4, <2>1, <2>2, <2>7, Zenon DEF n, r, byte
<1>11. CASE ~tlv.decoded
  <2>1. /\ status' = IF wrong THEN "STREAM_FAULT" ELSE "LOOP"
        /\ tlvBuffer' = header
        /\ UNCHANGED <<currentFieldLength, currentFieldPos, processingField>>
    BY <1>8, <1>11, Zenon DEF LoopTlvByte
  <2> DEFINE s == [r EXCEPT !.header = header, !.verdict = IF wrong THEN "STREAM_FAULT" ELSE @]
  <2>2. ReadHeaderByte(r, byte) = s
    BY <1>11, Zenon DEF ReadHeaderByte
  <2> HIDE DEF header, tlv, wrong
  <2>3. /\ IsReader(s) /\ s.header = header
        /\ s.verdict = (IF wrong THEN "STREAM_FAULT" ELSE r.verdict)
        /\ SameBut(s, r, {"header", "verdict"})
    BY <1>1 DEF IsReader, SameBut, ReaderMembers
  <2> HIDE DEF s
  <2>4. n.verdict = s.verdict
    BY <1>3, <1>7, <2>1, <2>3
  <2>5. n.inField = r.inField /\ n.header = header /\ n.length = r.length /\ n.pos = r.pos
    BY <1>7, <1>9, <2>1
  <2>6. SameBut(n, s, {})
    BY <1>5, <1>6, <2>3, <2>4, <2>5 DEF SameBut, ReaderMembers
  <2>7. n = s
    BY <1>1, <2>3, <2>6, SameReader
  <2>8. status' \in {"LOOP", "STREAM_FAULT"}
    BY <2>1
  <2> QED
    BY <1>4, <2>2, <2>7, <2>8, Zenon DEF n, r, byte
<1> QED
  BY <1>10, <1>11

LEMMA SendBlockReadsNothing ==
  ASSUME BytesOK, WindowOK, AnswersOK, NEW n \in BlockSizes, SendBlock(n)
  PROVE  Consumed' = Consumed
<1>1. tx.bytes \in Seq(Byte) /\ Len(tx.bytes) \in Nat /\ sent \in Nat /\ n \in Nat
  BY StreamIsBytes, StreamAssumption DEF BytesOK
<1>2. workBuffer = <<>>
  BY DEF SendBlock, AnswersOK
<1>3. /\ sent' \in Nat /\ sent <= sent' /\ sent' <= Len(tx.bytes)
      /\ workBuffer' = SubSeq(tx.bytes, sent + 1, sent')
  BY <1>1 DEF SendBlock
<1>4. Len(workBuffer') = sent' - sent
  BY <1>1, <1>3, PartLength, Zenon
<1>5. Consumed' = sent' - (sent' - sent) /\ Consumed = sent - Len(<<>>)
  BY <1>2, <1>4, Zenon DEF Consumed
<1>6. sent' - (sent' - sent) = sent /\ sent - Len(<<>>) = sent
  <2>1. \A a, b \in Nat : b - (b - a) = a /\ a - 0 = a
    OBVIOUS
  <2>2. Len(<<>>) = 0
    OBVIOUS
  <2> QED
    BY <1>1, <1>3, <2>1, <2>2, Zenon
<1> QED
  BY <1>5, <1>6, Zenon

LEMMA AgreesStep ==
  ASSUME ReadingInv, [StreamNext]_vars
  PROVE  AgreesOK'
<1>1. /\ StreamInv /\ BytesOK /\ FieldOK /\ ControlOK /\ WindowOK /\ AnswersOK /\ HashOK
      /\ NamesOK /\ AgreesOK /\ SettledOK
  BY DEF ReadingInv, StreamInv
<1>2. ASSUME Reading(tx')[Consumed'] = Now', status' \notin {"SWITCH", "ASSERT"}
      PROVE  AgreesOK'
  BY <1>2 DEF AgreesOK
<1>3. ASSUME Now' = Now, Consumed' = Consumed, tx' = tx, state # TLV_NONE,
             status \notin {"SWITCH", "ASSERT"}, status' \notin {"SWITCH", "ASSERT"}
      PROVE  AgreesOK'
  <2>1. Reading(tx)[Consumed] = Now
    BY <1>1, <1>3 DEF AgreesOK
  <2>2. Reading(tx')[Consumed'] = Now'
    BY <1>3, <2>1, Zenon
  <2> QED
    BY <1>2, <1>3, <2>2
<1>4. ASSUME NEW t \in Transactions, StartTransaction(t) PROVE AgreesOK'
  <2>1. Reading(t)[0] = Reader(t)
    BY ReadingSteps, StreamAssumption DEF TransactionOK
  <2>2. Reading(tx')[Consumed'] = Now'
    BY <1>4, <2>1, StartReads, Zenon
  <2>3. status' = "IDLE"
    BY <1>4 DEF StartTransaction, InitTxContext, ZeroContext
  <2> QED
    BY <1>2, <2>2, <2>3
<1>5. CASE \E t \in Transactions : Relaunch(t)
  BY <1>5 DEF Relaunch, AgreesOK
<1>6. ASSUME NEW n \in BlockSizes, SendBlock(n) PROVE AgreesOK'
  <2>1. /\ tx' = tx /\ state # TLV_NONE /\ status \notin {"SWITCH", "ASSERT"}
        /\ status' \notin {"SWITCH", "ASSERT"}
    BY <1>6 DEF SendBlock
  <2>2. Now' = Now
    BY <1>6, IdleStays
  <2>3. Consumed' = Consumed
    BY <1>1, <1>6, SendBlockReadsNothing
  <2> QED
    BY <1>3, <2>1, <2>2, <2>3
<1>7. ASSUME UNCHANGED <<sent, workBuffer>> PROVE Consumed' = Consumed
  BY <1>7 DEF Consumed
<1>8. CASE UserContinues \/ LoopConfirm \/ LoopReturn
  <2>1. /\ UNCHANGED <<tx, sent, workBuffer>> /\ status \notin {"SWITCH", "ASSERT", "IDLE"}
        /\ status' \notin {"SWITCH", "ASSERT"}
    BY <1>8 DEF UserContinues, LoopConfirm, LoopReturn, LoopReads, Unparsed, hostVars
  <2>2. Now' = Now
    BY <1>8, IdleStays
  <2>3. state # TLV_NONE
    BY <1>1, <2>1 DEF ControlOK
  <2> QED
    BY <1>3, <1>7, <2>1, <2>2, <2>3
<1>9. CASE LoopActionReady
  <2>1. /\ UNCHANGED <<tx, sent, workBuffer>> /\ status \notin {"SWITCH", "ASSERT", "IDLE"}
        /\ status' \notin {"SWITCH", "ASSERT"}
    BY <1>9 DEF LoopActionReady, hostVars
  <2>2. Now' = Now
    BY <1>9, ReadyStays
  <2>3. state # TLV_NONE
    BY <1>1, <2>1 DEF ControlOK
  <2> QED
    BY <1>3, <1>7, <2>1, <2>2, <2>3
<1>10. CASE LoopTlvByte
  <2>1. /\ Consumed' = Consumed + 1 /\ tx' = tx /\ Consumed \in 0..(Len(tx.bytes) - 1)
        /\ Head(workBuffer) = tx.bytes[Consumed + 1]
    BY <1>1, <1>10, HeaderByteRead
  <2>2. status = "LOOP" /\ state # TLV_NONE
    BY <1>1, <1>10 DEF LoopTlvByte, LoopReads, ControlOK
  <2>3. Reading(tx)[Consumed] = Now
    BY <1>1, <2>2 DEF AgreesOK
  <2>4. Reading(tx)[Consumed + 1] = ReadByte(Reading(tx)[Consumed], tx.bytes[Consumed + 1])
    BY <1>1, <2>1, ReadingSteps, StreamIsBytes, Zenon
  <2>5. Reading(tx')[Consumed'] = ReadByte(Now, Head(workBuffer))
    BY <2>1, <2>3, <2>4, Zenon
  <2>6. CASE status' = "SWITCH" /\ ReadByte(Now, Head(workBuffer)) = Settle(Now')
    <3>1. Reading(tx')[Consumed'] = Settle(Now')
      BY <2>5, <2>6, Zenon
    <3> QED
      BY <2>6, <3>1 DEF AgreesOK
  <2>7. CASE status' \in {"LOOP", "STREAM_FAULT"} /\ ReadByte(Now, Head(workBuffer)) = Now'
    <3>1. Reading(tx')[Consumed'] = Now'
      BY <2>5, <2>7, Zenon
    <3> QED
      BY <1>2, <2>7, <3>1
  <2> QED
    BY <1>1, <1>10, <2>6, <2>7, HeaderByteAgrees
<1>11. CASE LoopContinueField
  <2>1. /\ UNCHANGED <<tx, sent, workBuffer>> /\ status = "LOOP" /\ status' = "SWITCH"
        /\ processingField
    BY <1>11 DEF LoopContinueField, LoopReads, Unparsed, hostVars
  <2>2. Now' = Now
    BY <1>11, IdleStays
  <2>3. state # TLV_NONE
    BY <1>1, <2>1 DEF ControlOK
  <2>4. Reading(tx)[Consumed] = Now
    BY <1>1, <2>1, <2>3 DEF AgreesOK
  <2>5. Settle(Now) = Now
    <3>1. ~Refused(Now) /\ ~TooLong(Now) /\ currentFieldPos # currentFieldLength
      BY <1>1, <2>1 DEF SettledOK
    <3>2. Now.pos # Now.length
      BY <3>1, NowMembers
    <3> QED
      BY <3>1, <3>2, Zenon DEF Settle
  <2>6. Reading(tx')[Consumed'] = Settle(Now')
    BY <1>7, <2>1, <2>2, <2>4, <2>5, Zenon
  <2> QED
    BY <2>1, <2>6 DEF AgreesOK
<1>12. CASE SwitchAsserts
  <2>1. \E n \in 0..Len(tx.bytes) : Reading(tx)[n].verdict = "ASSERT"
    BY <1>12, AssertAgrees
  <2>2. tx' = tx /\ status' = "ASSERT"
    BY <1>12 DEF SwitchAsserts, Unparsed, hostVars
  <2> QED
    BY <2>1, <2>2 DEF AgreesOK
<1>13. CASE FieldActions
  <2>1. Reading(tx)[Consumed'] = Now' /\ tx' = tx
    BY <1>13, ChunkAgrees
  <2>2. status' = "LOOP"
    BY <1>13, FieldActionsTake DEF TakeChunk
  <2> QED
    BY <1>2, <2>1, <2>2
<1>14. CASE RefuseUnknownAction
  <2>1. /\ UNCHANGED <<tx, sent, workBuffer>> /\ status = "SWITCH" /\ state # TLV_NONE
        /\ status' = "STREAM_FAULT"
    BY <1>14 DEF RefuseUnknownAction, Unparsed, hostVars
  <2>2. Now' = Settle(Now)
    BY <1>14, RefusedStops
  <2>3. Reading(tx)[Consumed] = Settle(Now)
    BY <1>1, <2>1 DEF AgreesOK
  <2>4. Reading(tx')[Consumed'] = Now'
    BY <1>7, <2>1, <2>2, <2>3, Zenon
  <2> QED
    BY <1>2, <2>1, <2>4
<1>15. CASE UNCHANGED vars
  <2>1. Now' = Now
    BY <1>15
    DEF vars, hostVars, flagVars, counterVars, dataVars, historyVars, Now, Reviewed, Known,
        contractName, contractActionName
  <2>2. UNCHANGED <<tx, sent, workBuffer, status, state>>
    BY <1>15 DEF vars, hostVars
  <2> QED
    BY <1>1, <1>7, <2>1, <2>2 DEF AgreesOK
<1> QED
  BY <1>4, <1>5, <1>6, <1>8, <1>9, <1>10, <1>11, <1>12, <1>13, <1>14, <1>15
  DEF StreamNext, processTxInternal, FieldActions

LEMMA SettledStep ==
  ASSUME ReadingInv, [StreamNext]_vars
  PROVE  SettledOK'
<1>1. /\ StreamInv /\ BytesOK /\ FieldOK /\ ControlOK /\ WindowOK /\ AnswersOK /\ HashOK
      /\ NamesOK /\ SettledOK
  BY DEF ReadingInv, StreamInv
<1>2. ASSUME Now' = Now, UNCHANGED <<processingField, currentFieldPos, currentFieldLength>>,
             status \notin {"SWITCH", "ASSERT", "STREAM_FAULT"}
      PROVE  SettledOK'
  <2>1. processingField' => ~Refused(Now') /\ ~TooLong(Now') /\ currentFieldPos' # currentFieldLength'
    BY <1>1, <1>2, Zenon DEF SettledOK
  <2> QED
    BY <2>1, Zenon DEF SettledOK
<1>3. ASSUME ~processingField' \/ status' \in {"SWITCH", "ASSERT", "STREAM_FAULT"}
      PROVE  SettledOK'
  BY <1>3 DEF SettledOK
<1>4. CASE \E t \in Transactions : StartTransaction(t) \/ Relaunch(t)
  <2>1. ~processingField'
    BY <1>4 DEF StartTransaction, InitTxContext, Relaunch, ZeroContext
  <2> QED
    BY <1>3, <2>1
<1>5. CASE \/ \E n \in BlockSizes : SendBlock(n)
           \/ UserContinues \/ LoopConfirm \/ LoopReturn \/ LoopActionReady
  <2>1. Now' = Now
    BY <1>5, IdleStays, ReadyStays
  <2>2. /\ UNCHANGED <<processingField, currentFieldPos, currentFieldLength>>
        /\ status \notin {"SWITCH", "ASSERT", "STREAM_FAULT"}
    BY <1>5
    DEF SendBlock, UserContinues, LoopConfirm, LoopReturn, LoopActionReady, LoopReads, Unparsed
  <2> QED
    BY <1>2, <2>1, <2>2
<1>6. CASE LoopTlvByte \/ LoopContinueField \/ SwitchAsserts \/ RefuseUnknownAction
  <2>1. ~processingField' \/ status' \in {"SWITCH", "ASSERT", "STREAM_FAULT"}
    BY <1>6 DEF LoopTlvByte, LoopContinueField, SwitchAsserts, RefuseUnknownAction
  <2> QED
    BY <1>3, <2>1
<1>7. CASE FieldActions
  <2>1. CASE Complete
    <3>1. ~processingField'
      BY <1>7, <2>1
      DEF FieldActions, processField, processZeroSizeField, processActionListSizeField,
          processActionAccount, processActionName, processAuthorizationListSizeField,
          processAuthorizationPermission, processUnknownActionDataSize,
          processUnknownActionData, processActionData, ActionRead, MoveTo
    <3> QED
      BY <1>3, <3>1
  <2>2. CASE ~Complete
    <3>1. Now' = Absorbed
      BY <1>1, <1>7, <2>2, FieldActionsRead, SettleTaken
    <3>2. ~Refused(Now') /\ ~TooLong(Now')
      BY <1>1, <1>7, <3>1, TakenIsFine
    <3>3. currentFieldPos' # currentFieldLength'
      BY <1>7, <2>2, FieldActionsTake DEF TakeChunk, Complete
    <3> QED
      BY <3>2, <3>3 DEF SettledOK
  <2> QED
    BY <2>1, <2>2
<1>8. CASE UNCHANGED vars
  <2>1. Now' = Now
    BY <1>8
    DEF vars, hostVars, flagVars, counterVars, dataVars, historyVars, Now, Reviewed, Known,
        contractName, contractActionName
  <2>2. UNCHANGED <<processingField, currentFieldPos, currentFieldLength, status>>
    BY <1>8 DEF vars
  <2> QED
    BY <1>1, <2>1, <2>2 DEF SettledOK
<1> QED
  BY <1>4, <1>5, <1>6, <1>7, <1>8 DEF StreamNext, processTxInternal, FieldActions

LEMMA ShownStep ==
  ASSUME ReadingInv, [StreamNext]_vars
  PROVE  ShownOK'
<1>1. /\ BytesOK /\ ControlOK /\ WindowOK /\ AgreesOK /\ ShownOK
  BY DEF ReadingInv, StreamInv
<1>2. ASSUME UNCHANGED <<tx, shown>> PROVE ShownOK'
  BY <1>1, <1>2 DEF ShownOK
<1>3. CASE \E t \in Transactions : StartTransaction(t) \/ Relaunch(t)
  <2>1. shown' = <<>>
    BY <1>3 DEF StartTransaction, InitTxContext, Relaunch, ZeroContext
  <2> QED
    BY <2>1 DEF ShownOK, IsPrefixOf
<1>4. CASE LoopActionReady
  <2>1. status = "LOOP" /\ tx' = tx /\ state # TLV_NONE
    BY <1>1, <1>4 DEF LoopActionReady, hostVars, ControlOK
  <2>2. shown' = Reading(tx)[Consumed].reviews
    BY <1>1, <1>4, <2>1, ReadyStays DEF AgreesOK
  <2>3. IsPrefixOf(Reading(tx)[Consumed].reviews, Result(tx).reviews)
    <3> DEFINE N == Len(tx.bytes)
               k == Consumed
    <3>1. k \in 0..N /\ N \in Nat /\ tx.bytes \in Seq(Byte)
      BY <1>1, ConsumedInStream, StreamIsBytes
    <3>2. \A m \in k..N : IsPrefixOf(Reading(tx)[k].reviews, Reading(tx)[m].reviews)
      BY <3>1, ReadingGrows, Zenon
    <3> HIDE DEF k
    <3>3. N \in k..N
      BY <3>1
    <3> QED
      BY <3>2, <3>3, Zenon DEF Result, k
  <2> QED
    BY <2>1, <2>2, <2>3, Zenon DEF ShownOK
<1>5. CASE FieldActions
  BY <1>2, <1>5, FieldActionsTake DEF TakeChunk, hostVars, historyVars
<1>6. CASE \/ \E n \in BlockSizes : SendBlock(n)
           \/ UserContinues \/ LoopConfirm \/ LoopReturn \/ LoopTlvByte
           \/ LoopContinueField \/ SwitchAsserts \/ RefuseUnknownAction \/ UNCHANGED vars
  <2>1. UNCHANGED <<tx, shown>>
    BY <1>6
    DEF SendBlock, UserContinues, LoopConfirm, LoopReturn, LoopTlvByte,
        LoopContinueField, SwitchAsserts, RefuseUnknownAction, Unparsed, hostVars,
        historyVars, vars
  <2> QED
    BY <1>2, <2>1
<1> QED
  BY <1>3, <1>4, <1>5, <1>6 DEF StreamNext, processTxInternal, FieldActions

LEMMA ReadingInit ==
  ASSUME StreamInit
  PROVE  ReadingInv
<1>1. StreamInv /\ BytesOK
  BY StreamInitInv DEF StreamInv
<1>2. /\ state = TLV_NONE /\ status = "IDLE" /\ processingField = FALSE /\ shown = <<>>
      /\ sent = 0 /\ workBuffer = <<>> /\ content = NoContent
      /\ sha256 = <<>> /\ dataSha256 = <<>>
  BY DEF StreamInit
<1>3. WindowOK
  <2>1. Consumed = 0
    <3>1. Len(<<>>) = 0 /\ 0 - 0 = 0
      OBVIOUS
    <3> QED
      BY <1>2, <3>1, Zenon DEF Consumed
  <2> QED
    BY <1>1, <1>2, <2>1, StreamIsBytes DEF WindowOK
<1>4. AnswersOK /\ HashOK /\ NamesOK
  BY <1>2 DEF AnswersOK, HashOK, NamesOK, NoContent
<1>5. AgreesOK /\ SettledOK /\ ShownOK
  BY <1>2 DEF AgreesOK, SettledOK, ShownOK, IsPrefixOf
<1> QED
  BY <1>1, <1>3, <1>4, <1>5 DEF ReadingInv

(* In every state the parser has read of its transaction what the reader   *)
(* has made of the same bytes.                                             *)
THEOREM ReadingInvariant == StreamSpec => []ReadingInv
<1>1. StreamInit => ReadingInv
  BY ReadingInit
<1>2. ReadingInv /\ [StreamNext]_vars => ReadingInv'
  <2> SUFFICES ASSUME ReadingInv, [StreamNext]_vars PROVE ReadingInv'
    OBVIOUS
  <2>1. BytesOK /\ FieldOK /\ ContentOK /\ ControlOK /\ HeaderOK /\ PositionOK
        /\ WindowOK /\ AnswersOK /\ HashOK /\ NamesOK
    BY DEF ReadingInv, StreamInv
  <2>2. StreamInv'
    BY <2>1, BytesStep, ContentStep, ControlStep, HeaderStep, PositionStep DEF StreamInv
  <2>3. WindowOK' /\ AnswersOK' /\ HashOK' /\ NamesOK'
    BY <2>1, WindowStep, AnswersStep, HashStep, NamesStep
  <2>4. AgreesOK' /\ SettledOK' /\ ShownOK'
    BY AgreesStep, SettledStep, ShownStep
  <2> QED
    BY <2>2, <2>3, <2>4 DEF ReadingInv
<1> QED
  BY <1>1, <1>2, PTL DEF StreamSpec

(* Between fields, between blocks and before every answer, the context of  *)
(* the parser, its hashes and what it has handed out are those of a reader *)
(* that was given the same bytes one by one.                               *)
THEOREM StreamReadsByteByByte == StreamSpec => []ReadsByteByByte
<1>1. ReadingInv => ReadsByteByByte
  BY DEF ReadingInv, AgreesOK, ReadsByteByByte
<1> QED
  BY <1>1, ReadingInvariant, PTL

LEMMA EndsAtResult ==
  ASSUME ReadingInv, Ended
  PROVE  /\ status = VerdictOf(Result(tx))
         /\ status = "STREAM_FINISHED" => Result(tx) = Now
<1>1. BytesOK /\ ControlOK /\ WindowOK /\ AnswersOK /\ AgreesOK
  BY DEF ReadingInv, StreamInv
<1>2. state # TLV_NONE
  BY <1>1 DEF Ended, ControlOK
<1>3. tx.bytes \in Seq(Byte) /\ Consumed \in 0..Len(tx.bytes)
  BY <1>1, StreamIsBytes, ConsumedInStream
<1>4. CASE status \in {"STREAM_FINISHED", "STREAM_FAULT"}
  <2>1. Reading(tx)[Consumed] = Now
    BY <1>1, <1>2, <1>4 DEF AgreesOK
  <2>2. /\ Now.state = state
        /\ Now.verdict = IF status = "STREAM_FAULT" THEN status ELSE "STREAM_PROCESSING"
    BY <1>4, NowMembers
  <2>3. status = "STREAM_FINISHED" => state = TLV_DONE
    BY <1>1 DEF AnswersOK
  <2>4. ~ReadsOn(Now)
    BY <1>4, <2>2, <2>3 DEF ReadsOn
  <2>5. Result(tx) = Now
    BY <1>3, <2>1, <2>4, ReadingStays, Zenon
  <2>6. status = VerdictOf(Now)
    BY <1>4, <2>2, <2>3 DEF VerdictOf
  <2> QED
    BY <2>5, <2>6, Zenon
<1>5. CASE status = "ASSERT"
  <2>1. PICK n \in 0..Len(tx.bytes) : Reading(tx)[n].verdict = "ASSERT"
    BY <1>1, <1>2, <1>5 DEF AgreesOK
  <2> DEFINE r == Reading(tx)[n]
  <2>2. Result(tx) = r
    BY <1>3, <2>1, ReadingStays DEF ReadsOn
  <2> HIDE DEF r
  <2>3. r.verdict = "ASSERT"
    BY <2>1 DEF r
  <2>4. VerdictOf(r) = "ASSERT"
    BY <2>3 DEF VerdictOf
  <2> QED
    BY <1>5, <2>2, <2>4
<1>6. CASE status = "STREAM_PROCESSING" /\ sent = Len(tx.bytes)
  <2>1. workBuffer = <<>> /\ state # TLV_DONE
    BY <1>1, <1>6 DEF AnswersOK
  <2>2. Consumed = Len(tx.bytes)
    <3>1. Consumed = sent - Len(<<>>)
      BY <2>1, Zenon DEF Consumed
    <3>2. Len(<<>>) = 0 /\ Len(tx.bytes) \in Nat
      BY <1>3
    <3>3. \A k \in Nat : k - 0 = k
      OBVIOUS
    <3> QED
      BY <1>6, <3>1, <3>2, <3>3, Zenon
  <2>3. Reading(tx)[Consumed] = Now
    BY <1>1, <1>2, <1>6 DEF AgreesOK
  <2>4. Result(tx) = Now
    BY <2>2, <2>3, Zenon DEF Result
  <2>5. VerdictOf(Now) = "STREAM_PROCESSING"
    BY <1>6, <2>1, NowMembers DEF VerdictOf
  <2> QED
    BY <1>6, <2>4, <2>5
<1> QED
  BY <1>4, <1>5, <1>6 DEF Ended

LEMMA ReadingOfBytes ==
  ASSUME ReadingInv
  PROVE  BlocksDoNotMatter
<1>1. ASSUME status = "STREAM_FINISHED" PROVE sha256 = Result(tx).hash
  <2>1. Ended
    BY <1>1 DEF Ended
  <2> QED
    BY <1>1, <2>1, EndsAtResult, NowMembers
<1>2. ASSUME NEW n \in 1..Len(shown)
      PROVE  n <= Len(Result(tx).reviews) /\ shown[n] = Result(tx).reviews[n]
  <2>1. n \in 1..Len(Result(tx).reviews) /\ shown[n] = Result(tx).reviews[n]
    BY DEF ReadingInv, ShownOK, IsPrefixOf
  <2>2. Len(Result(tx).reviews) \in Nat
    <3>1. IsASequence(Result(tx).reviews)
      <4>1. tx.bytes \in Seq(Byte) /\ Len(tx.bytes) \in 0..Len(tx.bytes)
        BY StreamIsBytes DEF ReadingInv, StreamInv
      <4> QED
        BY <4>1, ReadingGrows, Zenon DEF Result
    <3> QED
      BY <3>1 DEF IsASequence
  <2> QED
    BY <2>1, <2>2
<1> QED
  BY <1>1, <1>2, EndsAtResult DEF BlocksDoNotMatter

(* Whatever blocks a stream is sent in, the verdict, the hash and every    *)
(* review of processTxInternal are those of its bytes.                     *)
THEOREM StreamBlocksDoNotMatter == StreamSpec => []BlocksDoNotMatter
<1>1. ReadingInv => BlocksDoNotMatter
  BY ReadingOfBytes
<1> QED
  BY <1>1, ReadingInvariant, PTL

LEMMA SenderMeans ==
  ASSUME SendersMeanWhatIsRead, ReadingInv
  PROVE  VerdictIndependentOfBlocks /\ HashCoversEveryField /\ ReviewShowsTransaction
<1>1. BlocksDoNotMatter
  BY ReadingOfBytes
<1>2. /\ tx.verdict = VerdictOf(Result(tx))
      /\ tx.verdict = "STREAM_FINISHED" => tx.values = Result(tx).hash
      /\ tx.actions = Result(tx).reviews
  BY DEF SendersMeanWhatIsRead, MeansWhatIsRead, ReadingInv, StreamInv, BytesOK
<1>3. status = "STREAM_FINISHED" => Ended
  BY DEF Ended
<1> QED
  BY <1>1, <1>2, <1>3
  DEF BlocksDoNotMatter, VerdictIndependentOfBlocks, HashCoversEveryField,
      ReviewShowsTransaction

(* Senders who mean what their bytes say get the verdict they are owed,    *)
(* however the stream is cut into blocks.                                  *)
THEOREM StreamVerdict ==
  ASSUME SendersMeanWhatIsRead
  PROVE  StreamSpec => []VerdictIndependentOfBlocks
<1>1. ReadingInv => VerdictIndependentOfBlocks
  BY SenderMeans
<1> QED
  BY <1>1, ReadingInvariant, PTL

(* The hash, and so what is signed, is that of the values of all fields.   *)
THEOREM StreamHash ==
  ASSUME SendersMeanWhatIsRead
  PROVE  StreamSpec => []HashCoversEveryField
<1>1. ReadingInv => HashCoversEveryField
  BY SenderMeans
<1> QED
  BY <1>1, ReadingInvariant, PTL

(* The user is shown the actions that were sent, each with its own data or *)
(* checksum.                                                               *)
THEOREM StreamReviews ==
  ASSUME SendersMeanWhatIsRead
  PROVE  StreamSpec => []ReviewShowsTransaction
<1>1. ReadingInv => ReviewShowsTransaction
  BY SenderMeans
<1> QED
  BY <1>1, ReadingInvariant, PTL
=============================================================================
