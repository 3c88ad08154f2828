----------------------------- MODULE EosEncoding -----------------------------
(***************************************************************************)
(* The decoders the stream parser is built on: TLV headers                 *)
(* (src/eos_utils.c), the variable-length integers of EOSIO and its names  *)
(* (src/eos_types.c).  Bytes are numbers below 256, memory is a sequence   *)
(* of bytes.                                                               *)
(***************************************************************************)
EXTENDS Naturals, Sequences

Byte == 0..255

NUMBER_OCTET_STRING == 4
TlvBufferSize == 5          \* sizeof(context->tlvBuffer)

(* The value of a big-endian sequence of at most four bytes.               *)
BigEndian(s) ==
    LET digit(i) == IF i <= Len(s) THEN s[Len(s) + 1 - i] ELSE 0
    IN  digit(1) + 256 * (digit(2) + 256 * (digit(3) + 256 * digit(4)))

(* tlvTryDecode on the header bytes gathered so far: the header is invalid,*)
(* incomplete, or decoded with a length.  decodeTag keeps the low five     *)
(* bits of the tag; the class and the type are ignored.                    *)
TlvInvalid == [valid |-> FALSE, decoded |-> FALSE, length |-> 0]
TlvIncomplete == [valid |-> TRUE, decoded |-> FALSE, length |-> 0]
TlvLength(n) == [valid |-> TRUE, decoded |-> TRUE, length |-> n]

(* The long form has announced count bytes of length, and the header has   *)
(* n bytes so far: tag, announcement and n - 2 bytes of length.            *)
LengthMissing(count, n) == count >= n - 1

tlvTryDecode(buffer) ==
    LET count == buffer[2] % 128
    IN  IF buffer[1] % 32 # NUMBER_OCTET_STRING THEN TlvInvalid
        ELSE IF Len(buffer) < 2 THEN TlvIncomplete
        ELSE IF buffer[2] < 128 THEN TlvLength(buffer[2])
        ELSE IF count > 4 THEN TlvInvalid
        ELSE IF LengthMissing(count, Len(buffer)) THEN TlvIncomplete
        ELSE TlvLength(BigEndian(SubSeq(buffer, 3, 2 + count)))

----------------------------------------------------------------------------
(* unpack_variant32(in, length) at the start of `in', modulo the width of  *)
(* the result: groups of seven bits, until one without the continuation    *)
(* bit, the fifth byte, or the length, whichever is first (but at least    *)
(* one byte).                                                              *)
VariantBytes(in, length) ==
    CHOOSE n \in 1..5 :
        /\ in[n] < 128 \/ n = 5 \/ n >= length
        /\ \A i \in 1..(n - 1) : in[i] >= 128 /\ i < length

unpack_variant32(in, length, width) ==
    LET read == VariantBytes(in, length)
        group(i) == IF i <= read THEN in[i] % 128 ELSE 0
    IN  [read  |-> read,
         value |-> (group(1) + 128 * (group(2) + 128 * (group(3)
                       + 128 * (group(4) + 128 * group(5))))) % width]

----------------------------------------------------------------------------
(* name_to_string on the eight bytes of a name_t, little-endian: twelve    *)
(* symbols of five bits and a last one of four, the last symbol in the     *)
(* lowest bits; trailing dots (symbol 0) are dropped.                      *)
NameSize == 8

NameSymbol(name, i) ==
    LET bit(n) == (name[(n \div 8) + 1] \div 2 ^ (n % 8)) % 2
        low == IF i = 0 THEN 0 ELSE 5 * i - 1
        five == IF i = 0 THEN 0 ELSE 16 * bit(low + 4)
    IN  bit(low) + 2 * bit(low + 1) + 4 * bit(low + 2) + 8 * bit(low + 3) + five

name_to_string(name) ==
    LET str == [p \in 1..13 |-> NameSymbol(name, 13 - p)]
        actual_size == CHOOSE n \in 0..13 :
                           /\ n # 0 => str[n] # 0
                           /\ \A p \in (n + 1)..13 : str[p] = 0
    IN  SubSeq(str, 1, actual_size)
=============================================================================
