------------------------------ MODULE EosFormat ------------------------------
(***************************************************************************)
(* The text of numbers and assets, as src/eos_utils.c, src/eos_types.c and *)
(* the field parsers of src/eos_parse.c write it, in ASCII codes.  Signed  *)
(* numbers have Width bits, 64 in the code (32 for "%d"); one that does    *)
(* not fit wraps.                                                          *)
(*                                                                         *)
(* One step formats one field.                                             *)
(***************************************************************************)
EXTENDS Integers, Sequences

CONSTANTS
    Width,
    TextSize,   \* sizeof(tmp) of asset_to_string, 64 in the code
    Fields      \* what is formatted: kind, and number or amount, precision and symbol

(* The powers, as recursive functions.                                     *)
TwoTo[n \in Nat] == IF n = 0 THEN 1 ELSE 2 * TwoTo[n - 1]
TenTo[n \in Nat] == IF n = 0 THEN 1 ELSE 10 * TenTo[n - 1]

Half == TwoTo[Width - 1]
Signed == (-Half)..(Half - 1)
Unsigned == 0..(2 * Half - 1)

ASSUME FormatAssumption ==
    /\ Width \in Nat \ {0}
    /\ TextSize \in Nat /\ TextSize >= 10
    /\ Half <= TenTo[TextSize - 10]    \* the largest number, two separators, a symbol, a zero
    /\ \A f \in Fields :
           \/ f.kind \in {"unsigned", "%d"} /\ f.number \in Unsigned
           \/ /\ f.kind = "asset" /\ f.amount \in Signed /\ f.precision \in 0..255
              /\ f.symbol \in [1..7 -> 0..255]

VARIABLES field, text

formatVars == <<field, text>>

(* Two's complement, and the division of C, which truncates.               *)
Wrap(n) == ((n + Half) % (2 * Half)) - Half
Abs(n) == IF n < 0 THEN -n ELSE n
Quotient(a, b) == IF (a < 0) # (b < 0) THEN -(Abs(a) \div Abs(b)) ELSE Abs(a) \div Abs(b)
Remainder(a, b) == a - b * Quotient(a, b)

Zero == 48
Minus == 45
Point == 46
Space == 32

(* The loops of ui64toa: as many places as the number has digits, then the *)
(* digits from the last to the first.  There is always one digit.          *)
Digits(n) ==
    LET places == CHOOSE p \in 1..Width :
                     n < TenTo[p] /\ (p = 1 \/ n >= TenTo[p - 1])
    IN  [k \in 1..places |-> Zero + ((n \div TenTo[places - k]) % 10)]
ui64toaSigned(n) == IF n < Half THEN Digits(n) ELSE <<Minus>> \o Digits(2 * Half - n)
ui64toa(n) == Digits(n)

(* The smallest number has no negation: i *= -1 leaves it, and `digit' is  *)
(* read before its beginning, which gives bytes that are not known.        *)
UnknownByte == 256
i64toa(n) ==
    LET digits == Digits(Abs(n))
    IN  IF n >= 0 THEN digits
        ELSE <<Minus>> \o (IF n = -Half THEN [k \in 1..Len(digits) |-> UnknownByte] ELSE digits)

(* "%d" of a uint32_t.                                                     *)
PrintSigned(n) ==
    LET m == Wrap(n)
    IN  IF m < 0 THEN <<Minus>> \o Digits(Abs(m)) ELSE Digits(m)

(* symbol_to_string: up to the first zero.                                 *)
symbol_to_string(symbol) ==
    LET length == CHOOSE n \in 0..7 :
                     /\ \A k \in 1..n : symbol[k] # 0
                     /\ n = 7 \/ symbol[n + 1] = 0
    IN  SubSeq(symbol, 1, length)

(* What asset_to_string writes: ten to the precision wraps; the fraction   *)
(* is filled from the last place.                                          *)
PowerOfTen[p \in Nat] == IF p = 0 THEN 1 ELSE Wrap(PowerOfTen[p - 1] * 10)

FractionUnfilled(change, p) == IF p = 0 THEN <<>> ELSE i64toa(change)
Fraction(change, p) ==
    LET rest[k \in 0..p] == IF k = p THEN change ELSE Quotient(rest[k + 1], 10)
    IN  [k \in 1..p |-> Zero + Remainder(rest[k], 10)]

asset_text(asset) ==
    LET p == asset.precision
        p10 == PowerOfTen[p]
    IN  i64toa(Quotient(asset.amount, p10)) \o <<Point>>
        \o Fraction(Remainder(asset.amount, p10), p)
        \o <<Space>> \o symbol_to_string(asset.symbol)

(* The precision is any octet: with a large one the power has wrapped to   *)
(* zero, and is divided by, or the text is longer than tmp.  Neither is    *)
(* defined, and what is then on the screen is not known.                   *)
Undefined == <<UnknownByte>>
asset_to_string(asset) ==
    IF PowerOfTen[asset.precision] = 0 \/ Len(asset_text(asset)) >= TextSize
    THEN Undefined
    ELSE asset_text(asset)

FormatInit == field \in Fields /\ text = <<>>

(* parseUInt64Field, parseUint16Field and parseUint32Field, parseAssetField*)
Format ==
    /\ text = <<>>
    /\ text' = CASE field.kind = "unsigned" -> ui64toa(field.number)
                 [] field.kind = "%d" -> PrintSigned(field.number)
                 [] field.kind = "asset" -> asset_to_string(field)
    /\ UNCHANGED field

FormatSpec == FormatInit /\ [][Format]_formatVars

----------------------------------------------------------------------------
(* The number a text is read as, or -1.                                    *)
Read(s) ==
    LET value[k \in 0..Len(s)] ==
            IF k = 0 THEN 0
            ELSE IF value[k - 1] < 0 \/ s[k] \notin Zero..(Zero + 9) THEN -1
            ELSE 10 * value[k - 1] + (s[k] - Zero)
    IN  IF s = <<>> THEN -1 ELSE value[Len(s)]

Find(c, s) == CHOOSE k \in 1..Len(s) : s[k] = c /\ \A m \in 1..(k - 1) : s[m] # c
Canonical(s) == Len(s) > 1 => s[1] # Zero

(* A number on the screen is the number of the field, and is written in    *)
(* one way only: no text stands for two numbers.  "%d" is used for         *)
(* uint32_t fields, which must then be below 2^31.                         *)
NumberReadsBack ==
    text # <<>> /\ (field.kind = "unsigned" \/ (field.kind = "%d" /\ field.number < Half)) =>
        Read(text) = field.number /\ Canonical(text)

(* The amount of an asset that is not negative, with a precision whose     *)
(* power of ten is a number of the width: the digits before and after the  *)
(* point together are the amount, as many after it as the precision says,  *)
(* and the symbol follows.  (No power beyond TextSize - 10 is below Half.) *)
AssetReadsBack ==
    (/\ text # <<>> /\ field.kind = "asset" /\ field.amount >= 0
     /\ field.precision <= TextSize - 10 /\ TenTo[field.precision] < Half) =>
        LET point == Find(Point, text)
            space == Find(Space, text)
            whole == SubSeq(text, 1, point - 1)
            fraction == SubSeq(text, point + 1, space - 1)
        IN  /\ Len(fraction) = field.precision
            /\ Read(whole \o fraction) = field.amount /\ Canonical(whole)
            /\ SubSeq(text, space + 1, Len(text)) = symbol_to_string(field.symbol)
=============================================================================
