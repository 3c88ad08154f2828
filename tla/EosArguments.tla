---------------------------- MODULE EosArguments ----------------------------
(***************************************************************************)
(* What printArgument of src/eos_stream.c puts into txContent.arg for the  *)
(* argument argNum of the current action: the parse functions of           *)
(* src/eos_parse.c, src/eos_parse_eosio.c, src/eos_parse_token.c and       *)
(* src/eos_parse_unknown.c.                                                *)
(*                                                                         *)
(* A page says which bytes of actionDataBuffer are rendered, under which   *)
(* label and as what.  Names are rendered here; EosFormat and EosBase58    *)
(* render numbers, assets and keys.  The length that is tested is not the  *)
(* length of the buffer: what lies past it was left by an earlier action.  *)
(***************************************************************************)
EXTENDS EosActions

ArgDataSize == 128          \* sizeof(arg->data)
MaxArgNum == 255            \* argNum is a uint8_t

FieldSize == [name |-> NameSize, asset |-> AssetSize, key |-> PublicKeySize,
              permission |-> 2 * NameSize, u16 |-> 2, u32 |-> 4, u64 |-> 8]

AtSign == 32                \* "@", next to the 32 symbols of a name

BytesAt(buffer, at, length) ==
    IF at + length <= Len(buffer) THEN SubSeq(buffer, at + 1, at + length) ELSE <<>>

(* The text of a field: a name as its symbols, a permission as two names   *)
(* joined by "@", anything else as the bytes that are formatted.           *)
Render(kind, bytes) ==
    IF kind = "name" /\ Len(bytes) = NameSize THEN name_to_string(bytes)
    ELSE IF kind = "permission" /\ Len(bytes) = 2 * NameSize
    THEN name_to_string(SubSeq(bytes, 1, NameSize)) \o <<AtSign>>
         \o name_to_string(SubSeq(bytes, NameSize + 1, 2 * NameSize))
    ELSE bytes

(* The outcomes of printArgument: a page (with the number of the list      *)
(* entry in its label, or 0), a failed LEDGER_ASSERT, or no branch taken,  *)
(* which leaves arg as it was.                                             *)
Page(label, number, kind, at, bytes) ==
    [outcome |-> "page", label |-> label, number |-> number, kind |-> kind,
     at |-> at, length |-> Len(bytes), text |-> Render(kind, bytes)]
Outcome(o) ==
    [outcome |-> o, label |-> "", number |-> 0, kind |-> "none", at |-> 0, length |-> 0,
     text |-> <<>>]
ArgumentAsserts == Outcome("ASSERT")
ArgumentUntouched == Outcome("untouched")

(* printString: a constant text, which stands for no byte of the data.     *)
printString(label, text) == Page(label, 0, text, 0, <<>>)

(* A field beyond the buffer is read all the same, from other memory.      *)
Slice(label, number, kind, buffer, at, length) ==
    [Page(label, number, kind, at, BytesAt(buffer, at, length)) EXCEPT !.length = length]

(* parseNameField, parsePublicKeyField, parseUint16Field, parseUint32Field,*)
(* parseUInt64Field, parseAssetField and parsePermissionField: inLength    *)
(* bytes are said to be left at `at'.                                      *)
ParseFieldUnchecked(label, number, kind, buffer, at, inLength) ==
    Slice(label, number, kind, buffer, at, FieldSize[kind])
ParseField(label, number, kind, buffer, at, inLength) ==
    IF inLength < FieldSize[kind] THEN ArgumentAsserts
    ELSE Slice(label, number, kind, buffer, at, FieldSize[kind])

(* parseStringField: the length in front of the string is tested against   *)
(* what is left with that length included.                                 *)
parseStringField(label, buffer, at, inLength, width) ==
    LET fieldLength == unpack_variant32(From(buffer, at), inLength, width)
    IN  IF fieldLength.value > ArgDataSize - 1 \/ inLength < fieldLength.value
        THEN ArgumentAsserts
        ELSE Slice(label, 0, "string", buffer, at + fieldLength.read, fieldLength.value)

----------------------------------------------------------------------------
(* Actions whose arguments are at fixed places.                            *)

Field(label, kind, at) == [label |-> label, kind |-> kind, at |-> at]

parseTokenTransfer ==
    <<Field("From", "name", 0), Field("To", "name", NameSize),
      Field("Quantity", "asset", 2 * NameSize),
      Field("Memo", "string", 2 * NameSize + AssetSize)>>

parseUndelegate ==
    <<Field("From", "name", 0), Field("Receiver", "name", NameSize),
      Field("NET", "asset", 2 * NameSize),
      Field("CPU", "asset", 2 * NameSize + AssetSize)>>

parseDelegate == Append(parseUndelegate, Field("Transfer Stake", "Yes", 0))

parseRefund == <<Field("Account", "name", 0)>>

parseBuyRam ==
    <<Field("Buyer", "name", 0), Field("Receiver", "name", NameSize),
      Field("Tokens", "asset", 2 * NameSize)>>

parseBuyRamBytes ==
    <<Field("Buyer", "name", 0), Field("Receiver", "name", NameSize),
      Field("Bytes", "u32", 2 * NameSize)>>

parseSellRam == <<Field("Receiver", "name", 0), Field("Bytes", "u64", NameSize)>>

parseDeleteAuth == <<Field("Account", "name", 0), Field("Permission", "name", NameSize)>>

parseLinkAuth ==
    <<Field("Account", "name", 0), Field("Contract", "name", NameSize),
      Field("Action", "name", 2 * NameSize), Field("Permission", "name", 3 * NameSize)>>

parseUnlinkAuth ==
    <<Field("Account", "name", 0), Field("Contract", "name", NameSize),
      Field("Action", "name", 2 * NameSize)>>

(* The keys are where they are if each of the sizes in front of them takes *)
(* one byte; two bytes are skipped for the number of keys and the key type.*)
OwnerKeyAt == 2 * NameSize + 4 + 2
parseNewAccountTogether ==
    <<Field("Creator", "name", 0), Field("Account", "name", NameSize),
      Field("Owner key", "key", OwnerKeyAt),
      Field("Active key", "key", OwnerKeyAt + PublicKeySize + 2 + 4 + 2)>>
parseNewAccount ==
    <<Field("Creator", "name", 0), Field("Account", "name", NameSize),
      Field("Owner key", "key", OwnerKeyAt),
      Field("Active key", "key", OwnerKeyAt + PublicKeySize + 2 + 2 + 4 + 2)>>

FixedLayout(action) ==
    CASE action = EOSIO_TOKEN_TRANSFER -> parseTokenTransfer
      [] action = EOSIO_DELEGATEBW -> parseDelegate
      [] action = EOSIO_UNDELEGATEBW -> parseUndelegate
      [] action = EOSIO_REFUND -> parseRefund
      [] action = EOSIO_BUYRAM -> parseBuyRam
      [] action = EOSIO_BUYRAMBYTES -> parseBuyRamBytes
      [] action = EOSIO_SELLRAM -> parseSellRam
      [] action = EOSIO_DELETE_AUTH -> parseDeleteAuth
      [] action = EOSIO_LINK_AUTH -> parseLinkAuth
      [] action = EOSIO_UNLINK_AUTH -> parseUnlinkAuth
      [] action = EOSIO_NEW_ACCOUNT -> parseNewAccount

parseFixed(layout, buffer, length, argNum, width) ==
    LET field == layout[argNum + 1]
        left == LengthLeft(length, field.at)
    IN  IF argNum >= Len(layout) THEN ArgumentUntouched
        ELSE IF field.kind = "Yes" THEN printString(field.label, "Yes")
        ELSE IF field.kind = "string"
        THEN parseStringField(field.label, buffer, field.at, left, width)
        ELSE ParseField(field.label, 0, field.kind, buffer, field.at, left)

----------------------------------------------------------------------------
(* Actions with lists.                                                     *)

IsZeroName(buffer, at) == \A i \in 1..NameSize : buffer[at + i] = 0

(* The proxy is displayed without a test that the data holds one.          *)
parseVoteProducer(buffer, length, argNum, width) ==
    LET left == LengthLeft(length, 2 * NameSize)
        total == unpack_variant32(From(buffer, 2 * NameSize), left, width)
        skipped == total.read + (argNum - 1) * NameSize
    IN  IF argNum = 0 THEN ParseField("Account", 0, "name", buffer, 0, length)
        ELSE IF argNum = 1 /\ ~IsZeroName(buffer, NameSize)
        THEN ParseField("Proxy", 0, "name", buffer, NameSize, NameSize)
        ELSE ParseField("Producer", argNum, "name", buffer, 2 * NameSize + skipped,
                        LengthLeft(left, skipped))

(* A list of an authority: where it begins, how many arguments precede it, *)
(* and for its entries their size and the places of the item and of its    *)
(* weight, which are displayed as two arguments.                           *)
AuthorityList(buffer, length, at, argStart, step, itemAt, weightAt, kind, label, weight, width) ==
    LET total == unpack_variant32(From(buffer, at), LengthLeft(length, at), width)
    IN  [at |-> at + total.read, total |-> total.value, argStart |-> argStart, step |-> step,
         itemAt |-> itemAt, weightAt |-> weightAt, kind |-> kind, label |-> label,
         weight |-> weight, end |-> at + total.read + step * total.value,
         argEnd |-> argStart + 2 * total.value]

ListArgument(list, buffer, length, argNum) ==
    LET i == (argNum - list.argStart - 1) \div 2
        entry == list.at + i * list.step
        isItem == (argNum - list.argStart) % 2 = 1
        at == entry + (IF isItem THEN list.itemAt ELSE list.weightAt)
    IN  ParseField(IF isItem THEN list.label ELSE list.weight, i + 1,
                   IF isItem THEN list.kind ELSE "u16", buffer, at, LengthLeft(length, at))

parseUpdateAuth(buffer, length, argNum, width) ==
    LET keys == AuthorityList(buffer, length, 3 * NameSize + 4, 3, 1 + PublicKeySize + 2,
                              1, 1 + PublicKeySize, "key", "Key", "Key Weight", width)
        accounts == AuthorityList(buffer, length, keys.end, keys.argEnd, 2 * NameSize + 2,
                                  0, 2 * NameSize, "permission", "Account", "Account Weight",
                                  width)
        delays == AuthorityList(buffer, length, accounts.end, accounts.argEnd, 4 + 2,
                                0, 4, "u32", "Delay", "Delay Weight", width)
    IN  CASE argNum = 0 -> ParseField("Account", 0, "name", buffer, 0, length)
          [] argNum = 1 -> ParseField("Permission", 0, "name", buffer, NameSize,
                                      LengthLeft(length, NameSize))
          [] argNum = 2 -> IF IsZeroName(buffer, 2 * NameSize) THEN printString("Parent", "NULL")
                           ELSE ParseField("Parent", 0, "name", buffer, 2 * NameSize, NameSize)
          [] argNum = 3 -> ParseField("Threshold", 0, "u32", buffer, 3 * NameSize,
                                      LengthLeft(length, 3 * NameSize))
          [] argNum > 3 /\ argNum <= keys.argEnd -> ListArgument(keys, buffer, length, argNum)
          [] argNum > keys.argEnd /\ argNum <= accounts.argEnd ->
                 ListArgument(accounts, buffer, length, argNum)
          [] argNum > accounts.argEnd /\ argNum <= delays.argEnd ->
                 ListArgument(delays, buffer, length, argNum)
          [] OTHER -> ArgumentUntouched

----------------------------------------------------------------------------
parseUnknownAction(checksum, argNum) ==
    CASE argNum = 0 -> printString("WARNING", "Arbitrary Data")
      [] argNum = 1 -> printString("WARNING", "Verify checksum")
      [] argNum = 2 -> Page("Checksum", 0, "checksum", 0, checksum)
      [] OTHER -> ArgumentUntouched

(* context: the names of the action, its data buffer with the length of    *)
(* the data, the setting and the checksum.                                 *)
printArgument(argNum, context, width) ==
    LET action == context.contractActionName
        buffer == context.actionDataBuffer
        length == context.currentActionDataBufferLength
    IN  IF ~isKnownAction(context.contractName, action)
        THEN IF context.dataAllowed THEN parseUnknownAction(context.dataChecksum, argNum)
             ELSE ArgumentUntouched
        ELSE CASE action = EOSIO_VOTEPRODUCER -> parseVoteProducer(buffer, length, argNum, width)
               [] action = EOSIO_UPDATE_AUTH -> parseUpdateAuth(buffer, length, argNum, width)
               [] OTHER -> parseFixed(FixedLayout(action), buffer, length, argNum, width)
=============================================================================
