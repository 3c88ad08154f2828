------------------------------ MODULE EosBase58 ------------------------------
(***************************************************************************)
(* b58enc of src/eos_utils.c: the bytes of a key become digits of base 58. *)
(* The digits are computed in place, from the last to the first, and only  *)
(* as far to the front as earlier bytes have reached.  A digit stands for  *)
(* its letter in BASE58ALPHABET, 0 for "1".                                *)
(***************************************************************************)
EXTENDS Naturals, Sequences

CONSTANT Inputs     \* sequences of bytes

ASSUME InputsAssumption == Inputs \subseteq Seq(0..255)

VARIABLES
    bin, zcount, size, buf, i, j, high, carry,
    pc              \* "zeros", "outer" and "inner" loop, "end" of the inner one, "done"

encVars == <<bin, zcount, size, buf, i, j, high, carry, pc>>

SizeTight(n) == (n * 138) \div 100
SizeFor(n) == ((n * 138) \div 100) + 1

EncInit ==
    /\ bin \in Inputs
    /\ zcount = 0 /\ size = 1 /\ buf = [k \in {0} |-> 0]
    /\ i = 0 /\ high = 0 /\ j = 0 /\ carry = 0
    /\ pc = "zeros"

CountZero ==
    /\ pc = "zeros" /\ zcount < Len(bin) /\ bin[zcount + 1] = 0
    /\ zcount' = zcount + 1
    /\ UNCHANGED <<bin, size, buf, i, j, high, carry, pc>>

StartDigits ==
    /\ pc = "zeros"
    /\ zcount < Len(bin) => bin[zcount + 1] # 0
    /\ size' = SizeFor(Len(bin) - zcount)
    /\ buf' = [k \in 0..(size' - 1) |-> 0]
    /\ i' = zcount /\ high' = size' - 1
    /\ pc' = "outer"
    /\ UNCHANGED <<bin, zcount, j, carry>>

NextByte ==
    /\ pc = "outer"
    /\ IF i < Len(bin)
       THEN carry' = bin[i + 1] /\ j' = size - 1 /\ pc' = "inner"
       ELSE pc' = "done" /\ UNCHANGED <<carry, j>>
    /\ UNCHANGED <<bin, zcount, size, buf, i, high>>

GoesOnByCarry == carry # 0
GoesOn == j > high \/ carry # 0

(* The loop breaks at the first digit, "Otherwise j wraps to maxint".      *)
NextDigit ==
    /\ pc = "inner" /\ GoesOn
    /\ LET sum == carry + 256 * buf[j]
       IN  buf' = [buf EXCEPT ![j] = sum % 58] /\ carry' = sum \div 58
    /\ IF j = 0 THEN pc' = "end" /\ UNCHANGED j ELSE j' = j - 1 /\ UNCHANGED pc
    /\ UNCHANGED <<bin, zcount, size, i, high>>

EndDigits ==
    /\ \/ pc = "inner" /\ ~GoesOn
       \/ pc = "end"
    /\ i' = i + 1 /\ high' = j
    /\ pc' = "outer"
    /\ UNCHANGED <<bin, zcount, size, buf, j, carry>>

EncNext == CountZero \/ StartDigits \/ NextByte \/ NextDigit \/ EndDigits

EncSpec == EncInit /\ [][EncNext]_encVars

(* The text: a digit for each leading zero byte, and the digits from the   *)
(* first that is not zero.                                                 *)
AllDigits == [k \in 1..(zcount + size) |-> IF k <= zcount THEN 0 ELSE buf[k - zcount - 1]]
TextWithZeros == AllDigits
Text ==
    LET first == CHOOSE n \in 0..size :
                     /\ \A k \in 0..(n - 1) : buf[k] = 0
                     /\ n < size => buf[n] # 0
    IN  [k \in 1..(zcount + size - first) |-> IF k <= zcount THEN 0 ELSE buf[first + k - zcount - 1]]

(* sizeof(publicKeyContext_t.address), and what compressed_public_key_to_- *)
(* wif needs of it: "EOS", the text, and the null byte.                    *)
AddressTooSmall == 54
AddressSize == 60
WifLength == Len(Text) + 1 + 3

----------------------------------------------------------------------------
(* Every digit is one, the index stays inside buf, and carry is a byte     *)
(* again after every digit.                                                *)
EncTypeOK ==
    /\ pc \in {"zeros", "outer", "inner", "end", "done"}
    /\ size \in Nat \ {0}
    /\ buf \in [0..(size - 1) -> 0..57]
    /\ j \in 0..(size - 1) /\ high \in 0..(size - 1)
    /\ zcount \in 0..Len(bin) /\ i \in 0..Len(bin)
    /\ carry \in 0..255

LeadingZeros(s) ==
    CHOOSE n \in 0..Len(s) :
        /\ \A k \in 1..n : s[k] = 0
        /\ n < Len(s) => s[n + 1] # 0

(* The value of the numbers of s as digits, modulo a prime.                *)
Prime == 4194301
Value(s, base) ==
    LET value[n \in 0..Len(s)] ==
            IF n = 0 THEN 0 ELSE (value[n - 1] * base + s[n]) % Prime
    IN  value[Len(s)]

(* After each byte the digits are worth the bytes so far: no carry is lost *)
(* before the first digit, although the inner loop stops early.            *)
ValueKept == pc = "outer" => Value(AllDigits, 58) = Value(SubSeq(bin, 1, i), 256)

(* The text reads back: as many leading ones as the key has zero bytes,    *)
(* and the same value.                                                     *)
TextReadsBack ==
    pc = "done" =>
        /\ Value(Text, 58) = Value(bin, 256)
        /\ LeadingZeros(Text) = LeadingZeros(bin)

(* The assertion "compressed_public_key_to_wif Overflow": the text of a    *)
(* key of 33 bytes with its checksum of 4 fits the address.                *)
WifFits == pc = "done" /\ Len(bin) = 37 => WifLength < AddressSize
=============================================================================
