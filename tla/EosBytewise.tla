----------------------------- MODULE EosBytewise -----------------------------
(***************************************************************************)
(* What a stream is to lead to, however it is cut: a reader that is given  *)
(* the bytes of a transaction one at a time, as a function of the bytes    *)
(* alone.  It knows of no block, of no caller and of no user.  Where the   *)
(* parser of EosStream copies what a block has of a field and looks at the *)
(* field when it has all of it, the reader copies one byte and looks again *)
(* after each of them.                                                     *)
(***************************************************************************)
EXTENDS EosStream

(* A context of zeros that has read nothing of transaction t.              *)
Reader(t) ==
    [verdict |-> "STREAM_PROCESSING", state |-> TLV_CHAIN_ID, allowed |-> t.dataAllowed,
     inField |-> FALSE, header |-> <<>>, length |-> 0, pos |-> 0,
     number |-> 0, index |-> 0, authNumber |-> 0, authIndex |-> 0,
     memory |-> Zeros(2 * NameSize + SizeBufferSize), data |-> Zeros(ActionDataSize),
     dataHash |-> <<>>, hash |-> <<>>, reviews |-> <<>>]

ContractIn(m) == SubSeq(m, 1, NameSize)
ActionIn(m) == SubSeq(m, NameSize + 1, 2 * NameSize)
KnownIn(m) == isKnownAction(ContractIn(m), ActionIn(m))
SizeIn(r) ==
    unpack_variant32(SubSeq(r.memory, SizeAt + 1, SizeAt + SizeBufferSize),
                     r.length + 1, CounterMod).value
ArgumentsIn(r) == ArgumentCount(ActionIn(r.memory), r.data, r.length, CounterMod)

(* The next bytes of the field are hashed and copied to where they belong. *)
PlaceOf(field) ==
    CASE field = TLV_ACTION_ACCOUNT -> ContractAt
      [] field = TLV_ACTION_NAME -> ActionAt
      [] OTHER -> SizeAt
Absorb(r, bytes) ==
    [r EXCEPT
        !.pos = r.pos + Len(bytes),
        !.hash = r.hash \o bytes,
        !.memory = IF r.state \in BufferedFields
                   THEN Overwrite(r.memory, PlaceOf(r.state) + r.pos, bytes) ELSE r.memory,
        !.data = IF r.state = TLV_ACTION_DATA /\ KnownIn(r.memory)
                 THEN Overwrite(r.data, r.pos, bytes) ELSE r.data,
        !.dataHash = IF /\ r.state \in {TLV_ACTION_DATA_SIZE, TLV_ACTION_DATA}
                        /\ ~KnownIn(r.memory) /\ r.allowed
                     THEN r.dataHash \o bytes ELSE r.dataHash]

(* What ends the transaction before the field is complete.                 *)
Refused(r) == r.state = TLV_ACTION_DATA /\ ~KnownIn(r.memory) /\ ~r.allowed
TooLong(r) ==
    \/ r.state \in BufferedFields /\ r.pos > SizeBufferSize
    \/ r.state = TLV_ACTION_DATA /\ KnownIn(r.memory) /\ r.length > ActionDataSize - 1

Stop(r, verdict) == [r EXCEPT !.verdict = verdict]
Forward(r, next) == [r EXCEPT !.state = next, !.inField = FALSE]
ForwardCleared(r, next) ==
    [Forward(r, next) EXCEPT !.memory = Overwrite(r.memory, SizeAt, Zeros(SizeBufferSize))]

NextPermission(r) == (r.authIndex + 1) % CounterMod
NextAction(r) == (r.index + 1) % CounterMod
ReviewIn(r) ==
    LET known == KnownIn(r.memory)
    IN  [contract |-> name_to_string(ContractIn(r.memory)),
         action |-> name_to_string(ActionIn(r.memory)),
         index |-> NextAction(r), number |-> r.number,
         arguments |-> IF known THEN ArgumentsIn(r).count ELSE 3,
         data |-> IF known THEN SubSeq(r.data, 1, r.length) ELSE <<>>,
         checksum |-> IF known THEN <<>> ELSE r.dataHash]

(* The field is complete: what it says is taken over.                      *)
CloseZeroSize(r) ==
    IF SizeIn(r) # 0 THEN Stop(r, "ASSERT") ELSE ForwardCleared(r, r.state + 1)
CloseActionListSize(r) ==
    [ForwardCleared(r, r.state + 1) EXCEPT !.number = SizeIn(r), !.index = 0]
CloseAuthorizationListSize(r) ==
    [ForwardCleared(r, r.state + 1) EXCEPT !.authNumber = SizeIn(r), !.authIndex = 0]
ClosePermission(r) ==
    [ForwardCleared(r, IF NextPermission(r) # r.authNumber
                       THEN TLV_AUTHORIZATION_ACTOR ELSE r.state + 1)
        EXCEPT !.authIndex = NextPermission(r)]
CloseActionData(r) ==
    IF KnownIn(r.memory) /\ ArgumentsIn(r).asserts THEN Stop(r, "ASSERT")
    ELSE [Forward(r, IF NextAction(r) < r.number
                     THEN TLV_ACTION_ACCOUNT ELSE TLV_TX_EXTENSION_LIST_SIZE)
             EXCEPT !.index = NextAction(r),
                    !.reviews = Append(r.reviews, ReviewIn(r)),
                    !.dataHash = IF KnownIn(r.memory) THEN r.dataHash ELSE <<>>]
Close(r) ==
    CASE r.state \in ZeroSizeFields -> CloseZeroSize(r)
      [] r.state = TLV_ACTION_LIST_SIZE -> CloseActionListSize(r)
      [] r.state = TLV_AUTHORIZATION_LIST_SIZE -> CloseAuthorizationListSize(r)
      [] r.state = TLV_AUTHORIZATION_PERMISSION -> ClosePermission(r)
      [] r.state = TLV_ACTION_DATA -> CloseActionData(r)
      [] OTHER -> Forward(r, r.state + 1)

Settle(r) ==
    IF Refused(r) THEN Stop(r, "STREAM_FAULT")
    ELSE IF TooLong(r) THEN Stop(r, "ASSERT")
    ELSE IF r.pos = r.length THEN Close(r)
    ELSE r

(* A byte of a header, and a byte of anything.                             *)
Opened(r, length) ==
    [r EXCEPT !.header = <<>>, !.inField = TRUE, !.length = length, !.pos = 0]
ReadHeaderByte(r, byte) ==
    LET header == Append(r.header, byte)
        tlv == tlvTryDecode(header)
    IN  IF tlv.decoded THEN Settle(Opened(r, tlv.length))
        ELSE [r EXCEPT !.header = header,
                       !.verdict = IF ~tlv.valid \/ Len(header) = TlvBufferSize
                                   THEN "STREAM_FAULT" ELSE @]
ReadByte(r, byte) ==
    IF r.verdict # "STREAM_PROCESSING" \/ r.state = TLV_DONE THEN r
    ELSE IF r.inField THEN Settle(Absorb(r, <<byte>>))
    ELSE ReadHeaderByte(r, byte)

(* The reader after the first n bytes, and after all of them.              *)
Reading(t) ==
    LET read[n \in 0..Len(t.bytes)] ==
            IF n = 0 THEN Reader(t) ELSE ReadByte(read[n - 1], t.bytes[n])
    IN  read
Result(t) == Reading(t)[Len(t.bytes)]

VerdictOf(r) ==
    IF r.verdict = "STREAM_PROCESSING" /\ r.state = TLV_DONE THEN "STREAM_FINISHED"
    ELSE r.verdict

(* The sender of t means what its bytes say to a reader r of all of them.  *)
MeansWhatIsRead(t, r) ==
    /\ t.verdict = VerdictOf(r)
    /\ t.verdict = "STREAM_FINISHED" => t.values = r.hash
    /\ t.actions = r.reviews
SendersMeanWhatIsRead == \A t \in Transactions : MeansWhatIsRead(t, Result(t))

----------------------------------------------------------------------------
(* The parser of EosStream as such a reader, and what it has read.         *)
Now ==
    [verdict |-> IF status \in {"STREAM_FAULT", "ASSERT"} THEN status ELSE "STREAM_PROCESSING",
     state |-> state, allowed |-> dataAllowed,
     inField |-> processingField, header |-> tlvBuffer,
     length |-> currentFieldLength, pos |-> currentFieldPos,
     number |-> currentActionNumber, index |-> currentActionIndex,
     authNumber |-> currentAutorizationNumber, authIndex |-> currentAutorizationIndex,
     memory |-> memory, data |-> actionDataBuffer,
     dataHash |-> dataSha256, hash |-> sha256,
     reviews |-> IF actionReady THEN Append(shown, Reviewed) ELSE shown]
Consumed == sent - Len(workBuffer)

(* Between two fields, between two blocks and before every answer, the     *)
(* parser is where the reader is after the same bytes.                     *)
ReadsByteByByte ==
    state # TLV_NONE /\ status \notin {"SWITCH", "ASSERT"} => Now = Reading(tx)[Consumed]

(* The verdict, the hash and the reviews are those of the bytes that were  *)
(* sent, whatever blocks they were sent in.                                *)
BlocksDoNotMatter ==
    /\ Ended => status = VerdictOf(Result(tx))
    /\ status = "STREAM_FINISHED" => sha256 = Result(tx).hash
    /\ \A n \in 1..Len(shown) :
           n <= Len(Result(tx).reviews) /\ shown[n] = Result(tx).reviews[n]
=============================================================================
