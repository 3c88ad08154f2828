----------------------------- MODULE EosActions -----------------------------
(***************************************************************************)
(* The actions src/eos_stream.c knows: how one is recognised by its two    *)
(* names, and how many arguments it has to display given its data.         *)
(*                                                                         *)
(* The data is read from actionDataBuffer, which is never cleared between  *)
(* two actions of a transaction: where the code does not test the length   *)
(* of the data, what it reads past the end was left by an earlier action.  *)
(***************************************************************************)
EXTENDS EosEncoding

(* The names of src/eos_stream.c:30-45, as the bytes of a little-endian    *)
(* uint64_t.                                                               *)
EOSIO_TOKEN_TRANSFER == <<0, 0, 0, 87, 45, 60, 205, 205>>
EOSIO == <<0, 0, 0, 0, 0, 234, 48, 85>>
EOSIO_DELEGATEBW == <<0, 0, 63, 42, 27, 166, 162, 74>>
EOSIO_UNDELEGATEBW == <<192, 143, 202, 134, 169, 168, 210, 212>>
EOSIO_VOTEPRODUCER == <<112, 21, 210, 137, 222, 170, 50, 221>>
EOSIO_BUYRAM == <<0, 0, 0, 0, 72, 115, 189, 62>>
EOSIO_BUYRAMBYTES == <<0, 176, 202, 254, 72, 115, 189, 62>>
EOSIO_SELLRAM == <<0, 0, 0, 64, 154, 27, 163, 194>>
EOSIO_UPDATE_AUTH == <<0, 64, 203, 218, 168, 108, 82, 213>>
EOSIO_DELETE_AUTH == <<0, 64, 203, 218, 168, 172, 162, 74>>
EOSIO_REFUND == <<0, 0, 0, 0, 164, 169, 151, 186>>
EOSIO_LINK_AUTH == <<0, 0, 0, 45, 107, 3, 167, 139>>
EOSIO_UNLINK_AUTH == <<0, 64, 203, 218, 192, 233, 226, 212>>
EOSIO_NEW_ACCOUNT == <<0, 64, 158, 154, 34, 100, 184, 154>>

EosioActions ==
    {EOSIO_DELEGATEBW, EOSIO_UNDELEGATEBW, EOSIO_REFUND, EOSIO_BUYRAM,
     EOSIO_BUYRAMBYTES, EOSIO_SELLRAM, EOSIO_VOTEPRODUCER, EOSIO_UPDATE_AUTH,
     EOSIO_DELETE_AUTH, EOSIO_LINK_AUTH, EOSIO_UNLINK_AUTH, EOSIO_NEW_ACCOUNT}

(* Any contract's transfer is taken for the one of eosio.token.            *)
isKnownAction(contractName, contractActionName) ==
    \/ contractActionName = EOSIO_TOKEN_TRANSFER
    \/ contractName = EOSIO /\ contractActionName \in EosioActions

----------------------------------------------------------------------------
AssetSize == 16
PublicKeySize == 33
CharMod == 256          \* content->argumentCount is a char, unsigned on ARM

From(buffer, offset) == SubSeq(buffer, offset + 1, Len(buffer))

(* What is left of a uint32_t length after n bytes.  Below zero it wraps   *)
(* to a number that no variable-length integer reaches.                    *)
Unlimited == 2 ^ 30
LengthLeft(length, n) == IF n <= length THEN length - n ELSE Unlimited

(* A count, or a failed LEDGER_ASSERT.                                     *)
Count(n) == [asserts |-> FALSE, count |-> n % CharMod]
Asserts == [asserts |-> TRUE, count |-> 0]

processTokenTransfer(buffer, length, width) ==
    LET memo == unpack_variant32(From(buffer, 2 * NameSize + AssetSize),
                                 LengthLeft(length, 2 * NameSize + AssetSize), width)
    IN  Count(IF memo.value > 0 THEN 4 ELSE 3)

processEosioDelegate(buffer) ==
    Count(IF buffer[2 * NameSize + 2 * AssetSize + 1] # 0 THEN 5 ELSE 4)

(* A proxy, or the producers voted for (the length tested is that of the   *)
(* whole data).                                                            *)
processEosioVoteProducer(buffer, length, width) ==
    LET noProxy == \A i \in 1..NameSize : buffer[NameSize + i] = 0
        total == unpack_variant32(From(buffer, 2 * NameSize), length, width)
    IN  Count(IF noProxy THEN 1 + total.value ELSE 2)

(* A list of n entries of the given size, preceded by its length: what is  *)
(* left of the data after it, or a failed assertion.                       *)
SkipList(offset, length, buffer, size, width) ==
    LET n == unpack_variant32(From(buffer, offset), length - offset, width)
        end == offset + n.read + size * n.value
    IN  [ok |-> n.read < length - offset /\ end < length, total |-> n.value, end |-> end]

(* Keys, accounts and waits of the authority, each of which is displayed   *)
(* as two arguments.                                                       *)
processEosioUpdateAuth(buffer, length, width) ==
    LET offset == 3 * NameSize + 4
        keys == SkipList(offset, length, buffer, 1 + PublicKeySize + 2, width)
        accounts == SkipList(keys.end, length, buffer, 2 * NameSize + 2, width)
        waits == unpack_variant32(From(buffer, accounts.end), length - accounts.end, width)
    IN  IF ~(offset < length) THEN Asserts
        ELSE IF ~keys.ok \/ 4 + 2 * keys.total >= CharMod THEN Asserts
        ELSE IF ~accounts.ok \/ 4 + 2 * (keys.total + accounts.total) >= CharMod THEN Asserts
        ELSE IF 4 + 2 * (keys.total + accounts.total + waits.value) >= CharMod THEN Asserts
        ELSE Count(4 + 2 * (keys.total + accounts.total + waits.value))

(* An authority of processEosioNewAccountAction: a threshold of 1, one key *)
(* of weight 1, no accounts, no delays.  Each assertion is tested before   *)
(* the next value is read.                                                 *)
SimpleAuthority(offset, length, buffer, width) ==
    LET at(o) == unpack_variant32(From(buffer, o), LengthLeft(length, o), width)
        keys == at(offset + 4)
        weight == offset + 4 + keys.read + 1 + PublicKeySize
        accounts == at(weight + 2)
        delays == at(weight + 2 + accounts.read)
    IN  [ok  |-> /\ SubSeq(buffer, offset + 1, offset + 4) = <<1, 0, 0, 0>>
                 /\ keys.value = 1
                 /\ SubSeq(buffer, weight + 1, weight + 2) = <<1, 0>>
                 /\ accounts.value = 0
                 /\ delays.value = 0,
         end |-> weight + 2 + accounts.read + delays.read]

processEosioNewAccountAction(buffer, length, width) ==
    LET owner == SimpleAuthority(2 * NameSize, length, buffer, width)
        active == SimpleAuthority(owner.end, length, buffer, width)
    IN  IF owner.ok /\ active.ok THEN Count(4) ELSE Asserts

(* The switch of processActionData on the name of the action.              *)
ArgumentCount(contractActionName, buffer, length, width) ==
    CASE contractActionName = EOSIO_TOKEN_TRANSFER ->
            processTokenTransfer(buffer, length, width)
      [] contractActionName = EOSIO_DELEGATEBW -> processEosioDelegate(buffer)
      [] contractActionName = EOSIO_VOTEPRODUCER ->
            processEosioVoteProducer(buffer, length, width)
      [] contractActionName = EOSIO_UPDATE_AUTH ->
            processEosioUpdateAuth(buffer, length, width)
      [] contractActionName = EOSIO_NEW_ACCOUNT ->
            processEosioNewAccountAction(buffer, length, width)
      [] contractActionName = EOSIO_REFUND -> Count(1)
      [] contractActionName \in {EOSIO_SELLRAM, EOSIO_DELETE_AUTH} -> Count(2)
      [] contractActionName \in {EOSIO_BUYRAM, EOSIO_BUYRAMBYTES, EOSIO_UNLINK_AUTH} -> Count(3)
      [] contractActionName \in {EOSIO_UNDELEGATEBW, EOSIO_LINK_AUTH} -> Count(4)
=============================================================================
