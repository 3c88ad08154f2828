---------------------------- MODULE EosTextProofs ----------------------------
(***************************************************************************)
(* The texts on the screen say what the bytes are.                         *)
(*                                                                         *)
(* For any bytes: b58enc writes only digits, and only inside its buffer;   *)
(* it loses no carry, though its inner loop stops early and its buffer has *)
(* 138 digits for 100 bytes; its text reads back to the bytes; and the     *)
(* text of a key fits the address of compressed_public_key_to_wif.         *)
(* Horner(s, base) is the exact value of the first digits of s, Low(d, m)  *)
(* that of the last digits of d, both recursive functions that exist by    *)
(* RecursiveNumbers.  Value, which the properties use, is Horner modulo a  *)
(* prime (ValueIsExact).  EncInv2 relates the two inside the loops, and    *)
(* SizeIsEnough bounds what the digits must hold.                          *)
(*                                                                         *)
(* For any width and any fields: the text of a number is read as the       *)
(* number, and that of an asset as its amount and its symbol.  Place(n, k) *)
(* is the digit of n at the place of 10 to the k: a text of all the places *)
(* of n is read as n (DigitsAreRead), the loops of ui64toa write them      *)
(* (DigitsOfNumber), and so do the digits before and after the point of an *)
(* amount (PartsAreDigits).                                                *)
(***************************************************************************)
EXTENDS EosBase58, EosFormat, EosLemmas, SequenceTheorems, TLAPS


(* The break at the first digit keeps the index from wrapping, and the     *)
(* index at the end of a turn is a bound for the next one.                 *)
EncInv ==
    /\ bin \in Seq(0..255)
    /\ EncTypeOK
    /\ pc = "zeros" => j = 0
    /\ pc \in {"inner", "end"} => i < Len(bin)

(* What a turn of the inner loop leaves in the digit, and what it carries. *)
DigitOf(c, d) == (c + 256 * d) % 58
CarryOf(c, d) == (c + 256 * d) \div 58

(* The next digit is one, and what is left to carry a byte again.          *)
LEMMA SumSplits ==
    ASSUME NEW x \in Int, 0 <= x, x < 14848
    PROVE  x % 58 \in 0..57 /\ x \div 58 \in 0..255
OBVIOUS

LEMMA DigitAndCarry ==
    ASSUME NEW c \in 0..255, NEW d \in 0..57
    PROVE  DigitOf(c, d) \in 0..57 /\ CarryOf(c, d) \in 0..255
<1> DEFINE sum == c + 256 * d
<1>1. sum \in Int /\ 0 <= sum /\ sum < 14848
  OBVIOUS
<1> HIDE DEF sum
<1>2. sum % 58 \in 0..57 /\ sum \div 58 \in 0..255
  BY <1>1, SumSplits
<1> QED  BY <1>2 DEF DigitOf, CarryOf, sum

(* There is a digit even for no byte.                                      *)
LEMMA SizeIsPositive ==
    ASSUME NEW n \in Nat PROVE SizeFor(n) \in Nat \ {0}
<1>1. n * 138 \in Nat
  OBVIOUS
<1> QED  BY <1>1 DEF SizeFor

(* No step leaves the buffer, with any bytes.                              *)
LEMMA EncInvIsInductive == EncInv /\ [EncNext]_encVars => EncInv'
<1> SUFFICES ASSUME EncInv, [EncNext]_encVars PROVE EncInv'
  OBVIOUS
<1> USE DEF EncInv, EncTypeOK
<1>1. CASE CountZero
  BY <1>1 DEF CountZero
<1>2. CASE StartDigits
  <2>1. size' \in Nat \ {0}
    BY <1>2, SizeIsPositive DEF StartDigits
  <2>2. buf' \in [0..(size' - 1) -> 0..57] /\ high' \in 0..(size' - 1)
    BY <1>2, <2>1 DEF StartDigits
  <2>3. j' \in 0..(size' - 1)
    BY <1>2, <2>1 DEF StartDigits
  <2> QED  BY <1>2, <2>1, <2>2, <2>3 DEF StartDigits
<1>3. CASE NextByte
  <2>1. CASE i < Len(bin)
    <3>1. i + 1 \in 1..Len(bin)
      BY <2>1
    <3>2. bin[i + 1] \in 0..255
      BY <3>1, ElementOfSeq
    <3>3. size - 1 \in 0..(size - 1)
      OBVIOUS
    <3>4. /\ UNCHANGED <<bin, zcount, size, buf, i, high>>
          /\ carry' = bin[i + 1] /\ j' = size - 1 /\ pc' = "inner"
      BY <1>3, <2>1 DEF NextByte
    <3> QED  BY <2>1, <3>2, <3>3, <3>4
  <2>2. CASE ~(i < Len(bin))
    BY <1>3, <2>2 DEF NextByte
  <2> QED  BY <2>1, <2>2
<1>4. CASE NextDigit
  <2>1. carry' \in 0..255 /\ DigitOf(carry, buf[j]) \in 0..57
    <3>1. carry \in 0..255 /\ buf[j] \in 0..57
      OBVIOUS
    <3>2. carry' = CarryOf(carry, buf[j])
      BY <1>4 DEF NextDigit, CarryOf
    <3>3. CarryOf(carry, buf[j]) \in 0..255 /\ DigitOf(carry, buf[j]) \in 0..57
      BY <3>1, DigitAndCarry, Zenon
    <3> QED
      BY <3>2, <3>3
  <2>2. buf' \in [0..(size - 1) -> 0..57]
    <3>1. buf' = [buf EXCEPT ![j] = DigitOf(carry, buf[j])]
      BY <1>4 DEF NextDigit, DigitOf
    <3> QED
      BY <2>1, <3>1
  <2>3. j' \in 0..(size - 1) /\ pc' \in {"inner", "end"}
    BY <1>4 DEF NextDigit
  <2> QED  BY <1>4, <2>1, <2>2, <2>3 DEF NextDigit
<1>5. CASE EndDigits
  BY <1>5 DEF EndDigits
<1>6. CASE UNCHANGED encVars
  BY <1>6 DEF encVars
<1> QED  BY <1>1, <1>2, <1>3, <1>4, <1>5, <1>6 DEF EncNext

(* Whatever the bytes, every access to the buffer is inside it.            *)
THEOREM EncodingStaysInside == EncSpec => []EncTypeOK
<1>1. EncInit => EncInv
  BY InputsAssumption DEF EncInit, EncInv, EncTypeOK
<1>2. EncInv => EncTypeOK
  BY DEF EncInv
<1> QED  BY <1>1, <1>2, EncInvIsInductive, PTL DEF EncSpec

----------------------------------------------------------------------------
(* Exact values, without a modulus: the powers of 58 and of 256, the value *)
(* of the first n digits of a sequence, and the value of the last n digits *)
(* of a buffer of length m, whose first digit has index 0.                 *)
IsPower(f, base) == f[0] = 1 /\ \A n \in Nat : f[n + 1] = base * f[n]
Power58 == CHOOSE f \in [Nat -> Nat] : IsPower(f, 58)
Power256 == CHOOSE f \in [Nat -> Nat] : IsPower(f, 256)

At(d, k) == IF k \in DOMAIN d THEN d[k] ELSE 0

IsHorner(f, s, base) == f[0] = 0 /\ \A n \in Nat : f[n + 1] = f[n] * base + At(s, n + 1)
Horner(s, base) == CHOOSE f \in [Nat -> Nat] : IsHorner(f, s, base)

IsLow(f, d, m) ==
    f[0] = 0 /\ \A n \in Nat : f[n + 1] = f[n] + At(d, m - 1 - n) * Power58[n]
Low(d, m) == CHOOSE f \in [Nat -> Nat] : IsLow(f, d, m)

(* What the lemmas say of sequences s, t and buffers d, e.                 *)
IsText(s) == \A n \in Nat : At(s, n) \in Nat
IsDigits(d) == \A n \in Int : At(d, n) \in Nat
Zeros(s, z) == \A l \in Nat : l < z => At(s, l + 1) = 0
SameFrom(s, a, t, b, m) == \A l \in Nat : l < m => At(s, a + l + 1) = At(t, b + l + 1)
SameBut(d, e, m, k) == \A l \in Nat : l # k => At(d, m - 1 - l) = At(e, m - 1 - l)
Holds(s, z, d, m) == \A l \in Nat : l < m => At(s, z + l + 1) = At(d, l)

(* The powers, and the values, are functions with the steps they are named *)
(* for.                                                                    *)
LEMMA PowerExists ==
  ASSUME NEW base \in Nat
  PROVE  \E f \in [Nat -> Nat] : IsPower(f, base)
<1> DEFINE G == [p \in Nat \X Nat |-> base * p[2]]
<1>1. G \in [Nat \X Nat -> Nat]
  BY ProductIsNat
<1>2. \A n, v \in Nat : G[<<n, v>>] = base * v
  OBVIOUS
<1> HIDE DEF G
<1>3. PICK f \in [Nat -> Nat] : f[0] = 1 /\ \A n \in Nat : f[n + 1] = G[<<n, f[n]>>]
  <2>1. 0 \in Nat /\ 1 \in Nat
    OBVIOUS
  <2> QED
    BY <1>1, <2>1, RecursiveNumbers
<1>4. \A n \in Nat : f[n + 1] = base * f[n]
  BY <1>2, <1>3
<1> QED
  BY <1>3, <1>4 DEF IsPower

LEMMA Powers ==
  /\ Power58 \in [Nat -> Nat] /\ IsPower(Power58, 58)
  /\ Power256 \in [Nat -> Nat] /\ IsPower(Power256, 256)
<1>1. \E f \in [Nat -> Nat] : IsPower(f, 58)
  BY PowerExists
<1>2. \E f \in [Nat -> Nat] : IsPower(f, 256)
  BY PowerExists
<1>3. Power58 \in [Nat -> Nat] /\ IsPower(Power58, 58)
  BY <1>1, Zenon DEF Power58
<1>4. Power256 \in [Nat -> Nat] /\ IsPower(Power256, 256)
  BY <1>2, Zenon DEF Power256
<1> QED
  BY <1>3, <1>4

LEMMA HornerSteps ==
  ASSUME NEW s, IsText(s), NEW base \in Nat
  PROVE  Horner(s, base) \in [Nat -> Nat] /\ IsHorner(Horner(s, base), s, base)
<1> USE DEF IsText
<1> DEFINE G == [p \in Nat \X Nat |-> p[2] * base + At(s, p[1] + 1)]
<1>1. G \in [Nat \X Nat -> Nat]
  <2>1. ASSUME NEW p \in Nat \X Nat
        PROVE  p[2] * base + At(s, p[1] + 1) \in Nat
    <3>1. p[1] \in Nat /\ p[2] \in Nat /\ p[1] + 1 \in Nat
      OBVIOUS
    <3> QED
      BY <3>1, ProductIsNat
  <2> QED
    BY <2>1
<1>2. \A n, v \in Nat : G[<<n, v>>] = v * base + At(s, n + 1)
  OBVIOUS
<1> HIDE DEF G
<1>3. PICK f \in [Nat -> Nat] : f[0] = 0 /\ \A n \in Nat : f[n + 1] = G[<<n, f[n]>>]
  <2>1. 0 \in Nat /\ 1 \in Nat
    OBVIOUS
  <2> QED
    BY <1>1, <2>1, RecursiveNumbers
<1>4. IsHorner(f, s, base)
  BY <1>2, <1>3 DEF IsHorner
<1> QED
  BY <1>4, Zenon DEF Horner

HornerIsNat(f, s, base) ==
    /\ f \in [Nat -> Nat] /\ f[0] = 0
    /\ \A n \in Nat : f[n] \in Nat /\ f[n + 1] = f[n] * base + At(s, n + 1)

LEMMA HornerValues ==
  ASSUME NEW s, IsText(s), NEW base \in Nat
  PROVE  HornerIsNat(Horner(s, base), s, base)
<1> DEFINE H == Horner(s, base)
<1>1. H \in [Nat -> Nat] /\ IsHorner(H, s, base)
  BY HornerSteps
<1> HIDE DEF H
<1>2. ASSUME NEW n \in Nat PROVE H[n] \in Nat
  BY <1>1
<1>3. H[0] = 0 /\ \A n \in Nat : H[n + 1] = H[n] * base + At(s, n + 1)
  BY <1>1, Zenon DEF IsHorner
<1>4. HornerIsNat(H, s, base)
  BY <1>1, <1>2, <1>3 DEF HornerIsNat
<1> QED
  BY <1>4 DEF H

LEMMA LowSteps ==
  ASSUME NEW d, IsDigits(d), NEW m \in Int
  PROVE  Low(d, m) \in [Nat -> Nat] /\ IsLow(Low(d, m), d, m)
<1> USE DEF IsDigits
<1> DEFINE G == [p \in Nat \X Nat |-> p[2] + At(d, m - 1 - p[1]) * Power58[p[1]]]
<1>1. G \in [Nat \X Nat -> Nat]
  <2>1. ASSUME NEW p \in Nat \X Nat
        PROVE  p[2] + At(d, m - 1 - p[1]) * Power58[p[1]] \in Nat
    <3>1. p[1] \in Nat /\ p[2] \in Nat /\ m - 1 - p[1] \in Int
      OBVIOUS
    <3>2. Power58[p[1]] \in Nat
      BY <3>1, Powers
    <3> QED
      BY <3>1, <3>2, ProductIsNat
  <2> QED
    BY <2>1
<1>2. \A n, v \in Nat : G[<<n, v>>] = v + At(d, m - 1 - n) * Power58[n]
  OBVIOUS
<1> HIDE DEF G
<1>3. PICK f \in [Nat -> Nat] : f[0] = 0 /\ \A n \in Nat : f[n + 1] = G[<<n, f[n]>>]
  <2>1. 0 \in Nat /\ 1 \in Nat
    OBVIOUS
  <2> QED
    BY <1>1, <2>1, RecursiveNumbers
<1>4. IsLow(f, d, m)
  BY <1>2, <1>3 DEF IsLow
<1> QED
  BY <1>4, Zenon DEF Low

(* The digits of a sequence of small numbers.                              *)
LEMMA AtIsNat ==
  ASSUME NEW s, \A k \in DOMAIN s : s[k] \in Nat, NEW n
  PROVE  At(s, n) \in Nat
BY DEF At

LEMMA PowerGrows ==
  /\ \A k \in Nat : Power58[k] \in Nat /\ Power58[k] >= 1
  /\ \A k, n \in Nat : Power58[k] <= Power58[k + n]
<1>1. \A n \in Nat : Power58[n] \in Nat /\ Power58[n + 1] = 58 * Power58[n]
  BY Powers DEF IsPower
<1>2. Nat \subseteq {n \in Nat : Power58[n] >= 1}
  <2> DEFINE T == {n \in Nat : Power58[n] >= 1}
  <2>1. 0 \in T
    BY Powers DEF IsPower
  <2>2. ASSUME NEW n \in Nat, n \in T
        PROVE  n + 1 \in T
    <3>1. Power58[n] \in Nat /\ Power58[n] >= 1 /\ Power58[n + 1] = 58 * Power58[n]
      BY <1>1, <2>2
    <3> QED
      BY <3>1
  <2> HIDE DEF T
  <2>3. Nat \subseteq T
    BY <2>1, <2>2, NatSetInduction
  <2> QED
    BY <2>3 DEF T
<1>3. ASSUME NEW k \in Nat
      PROVE  Nat \subseteq {n \in Nat : Power58[k] <= Power58[k + n]}
  <2> DEFINE T == {n \in Nat : Power58[k] <= Power58[k + n]}
  <2>1. 0 \in T
    BY <1>1
  <2>2. ASSUME NEW n \in Nat, n \in T
        PROVE  n + 1 \in T
    <3>1. k + n \in Nat /\ k + (n + 1) = (k + n) + 1
      OBVIOUS
    <3>2. /\ Power58[k] \in Nat /\ Power58[k + n] \in Nat
          /\ Power58[k] <= Power58[k + n] /\ Power58[k + (n + 1)] = 58 * Power58[k + n]
      BY <1>1, <2>2, <3>1
    <3>3. Power58[k] <= Power58[k + (n + 1)]
      BY <3>2
    <3> QED
      BY <3>3
  <2> HIDE DEF T
  <2>3. Nat \subseteq T
    BY <2>1, <2>2, NatSetInduction
  <2> QED
    BY <2>3 DEF T
<1> QED
  BY <1>1, <1>2, <1>3

(* The size that b58enc computes with 138 / 100 is enough for any number   *)
(* of bytes: 256^8 < 58^11, and the first eight sizes are enough.          *)
LEMMA SizeIsEnough == \A n \in Nat : Power256[n] <= Power58[SizeFor(n)]
<1>1. /\ \A n \in Nat : Power58[n] \in Nat /\ Power58[n + 1] = 58 * Power58[n]
      /\ \A n \in Nat : Power256[n] \in Nat /\ Power256[n + 1] = 256 * Power256[n]
      /\ Power58[0] = 1 /\ Power256[0] = 1
  BY Powers DEF IsPower
<1>2. ASSUME NEW n \in Nat, NEW k \in Nat, Power256[n] <= Power58[k]
      PROVE  Power256[n + 8] <= Power58[k + 11]
  <2>1. /\ Power256[n] \in Nat /\ Power58[k] \in Nat
        /\ Power256[n + 1] = 256 * Power256[n] /\ Power256[n + 2] = 256 * Power256[n + 1]
        /\ Power256[n + 3] = 256 * Power256[n + 2] /\ Power256[n + 4] = 256 * Power256[n + 3]
        /\ Power256[n + 5] = 256 * Power256[n + 4] /\ Power256[n + 6] = 256 * Power256[n + 5]
        /\ Power256[n + 7] = 256 * Power256[n + 6] /\ Power256[n + 8] = 256 * Power256[n + 7]
    <3>1. \A m \in Nat : (m + 1) + 1 = m + 2 /\ (m + 2) + 1 = m + 3 /\ (m + 3) + 1 = m + 4
                         /\ (m + 4) + 1 = m + 5 /\ (m + 5) + 1 = m + 6 /\ (m + 6) + 1 = m + 7
                         /\ (m + 7) + 1 = m + 8
      OBVIOUS
    <3> QED
      BY <1>1, <3>1
  <2>2. /\ Power58[k + 1] = 58 * Power58[k] /\ Power58[k + 2] = 58 * Power58[k + 1]
        /\ Power58[k + 3] = 58 * Power58[k + 2] /\ Power58[k + 4] = 58 * Power58[k + 3]
        /\ Power58[k + 5] = 58 * Power58[k + 4] /\ Power58[k + 6] = 58 * Power58[k + 5]
        /\ Power58[k + 7] = 58 * Power58[k + 6] /\ Power58[k + 8] = 58 * Power58[k + 7]
        /\ Power58[k + 9] = 58 * Power58[k + 8] /\ Power58[k + 10] = 58 * Power58[k + 9]
        /\ Power58[k + 11] = 58 * Power58[k + 10]
    <3>1. \A m \in Nat : (m + 1) + 1 = m + 2 /\ (m + 2) + 1 = m + 3 /\ (m + 3) + 1 = m + 4
                         /\ (m + 4) + 1 = m + 5 /\ (m + 5) + 1 = m + 6 /\ (m + 6) + 1 = m + 7
                         /\ (m + 7) + 1 = m + 8 /\ (m + 8) + 1 = m + 9 /\ (m + 9) + 1 = m + 10
                         /\ (m + 10) + 1 = m + 11
      OBVIOUS
    <3> QED
      BY <1>1, <3>1
  <2> QED
    BY <1>2, <2>1, <2>2
<1> DEFINE Enough(r) == CASE r = 0 -> 1 [] r = 1 -> 2 [] r = 2 -> 3 [] r = 3 -> 5
                          [] r = 4 -> 6 [] r = 5 -> 7 [] r = 6 -> 9 [] r = 7 -> 10
           T == {q \in Nat : \A r \in 0..7 : Power256[8 * q + r] <= Power58[11 * q + Enough(r)]}
<1>3. 0 \in T
  <2>1. \A r \in 0..7 : Power256[r] <= Power58[Enough(r)]
    <3>1. /\ Power256[0] = 1 /\ Power256[0 + 1] = 256 * Power256[0]
          /\ Power256[1 + 1] = 256 * Power256[1] /\ Power256[2 + 1] = 256 * Power256[2]
          /\ Power256[3 + 1] = 256 * Power256[3] /\ Power256[4 + 1] = 256 * Power256[4]
          /\ Power256[5 + 1] = 256 * Power256[5] /\ Power256[6 + 1] = 256 * Power256[6]
      BY <1>1
    <3>2. /\ Power58[0] = 1 /\ Power58[0 + 1] = 58 * Power58[0]
          /\ Power58[1 + 1] = 58 * Power58[1] /\ Power58[2 + 1] = 58 * Power58[2]
          /\ Power58[3 + 1] = 58 * Power58[3] /\ Power58[4 + 1] = 58 * Power58[4]
          /\ Power58[5 + 1] = 58 * Power58[5] /\ Power58[6 + 1] = 58 * Power58[6]
          /\ Power58[7 + 1] = 58 * Power58[7] /\ Power58[8 + 1] = 58 * Power58[8]
          /\ Power58[9 + 1] = 58 * Power58[9]
      BY <1>1
    <3>3. /\ Power256[0] <= Power58[1] /\ Power256[1] <= Power58[2]
          /\ Power256[2] <= Power58[3] /\ Power256[3] <= Power58[5]
          /\ Power256[4] <= Power58[6] /\ Power256[5] <= Power58[7]
          /\ Power256[6] <= Power58[9] /\ Power256[7] <= Power58[10]
      BY <3>1, <3>2
    <3> QED
      BY <3>3
  <2>2. \A r \in 0..7 : 8 * 0 + r = r /\ 11 * 0 + Enough(r) = Enough(r)
    OBVIOUS
  <2> HIDE DEF Enough
  <2> QED
    BY <2>1, <2>2
<1>4. ASSUME NEW q \in Nat, q \in T
      PROVE  q + 1 \in T
  <2> SUFFICES ASSUME NEW r \in 0..7
               PROVE  Power256[8 * (q + 1) + r] <= Power58[11 * (q + 1) + Enough(r)]
    OBVIOUS
  <2>1. Power256[8 * q + r] <= Power58[11 * q + Enough(r)]
    BY <1>4
  <2>2. /\ 8 * q + r \in Nat /\ 11 * q + Enough(r) \in Nat
        /\ 8 * (q + 1) + r = (8 * q + r) + 8
        /\ 11 * (q + 1) + Enough(r) = (11 * q + Enough(r)) + 11
    OBVIOUS
  <2> HIDE DEF Enough
  <2> QED
    BY <1>2, <2>1, <2>2
<1>5. Nat \subseteq T
  <2> HIDE DEF T
  <2> QED
    BY <1>3, <1>4, NatSetInduction
<1> SUFFICES ASSUME NEW n \in Nat
             PROVE  Power256[n] <= Power58[SizeFor(n)]
  OBVIOUS
<1>6. PICK q \in Nat, r \in 0..7 : n = 8 * q + r
  <2>1. n \div 8 \in Nat /\ n % 8 \in 0..7 /\ n = 8 * (n \div 8) + (n % 8)
    OBVIOUS
  <2> QED
    BY <2>1
<1>7. Power256[n] <= Power58[11 * q + Enough(r)]
  <2>1. q \in T
    BY <1>5
  <2> HIDE DEF Enough
  <2> QED
    BY <1>6, <2>1
<1>8. \E m \in Nat : SizeFor(n) = 11 * q + Enough(r) + m
  <2>1. SizeFor(n) \in Nat /\ 11 * q + Enough(r) \in Nat /\ 11 * q + Enough(r) <= SizeFor(n)
    BY <1>6 DEF SizeFor
  <2> HIDE DEF Enough
  <2>2. SizeFor(n) - (11 * q + Enough(r)) \in Nat
    BY <2>1
  <2> QED
    BY <2>1, <2>2
<1>9. Power58[11 * q + Enough(r)] <= Power58[SizeFor(n)]
  <2>1. 11 * q + Enough(r) \in Nat
    OBVIOUS
  <2> HIDE DEF Enough
  <2> QED
    BY <1>8, <2>1, PowerGrows
<1>10. /\ Power256[n] \in Nat /\ Power58[11 * q + Enough(r)] \in Nat
       /\ Power58[SizeFor(n)] \in Nat
  <2>1. 11 * q + Enough(r) \in Nat /\ SizeFor(n) \in Nat
    BY <1>8
  <2> HIDE DEF Enough
  <2> QED
    BY <1>1, <2>1
<1> HIDE DEF Enough
<1> QED
  BY <1>7, <1>9, <1>10

----------------------------------------------------------------------------
(* What values do not depend on, and what they are at least.               *)
(* Zeros in front are worth nothing.                                       *)
LEMMA HornerZeros ==
  ASSUME NEW s, IsText(s), NEW base \in Nat, NEW z \in Nat, Zeros(s, z)
  PROVE  Horner(s, base)[z] = 0
<1> USE DEF IsText, Zeros
<1> DEFINE H == Horner(s, base)
           T == {n \in Nat : n <= z => H[n] = 0}
<1>1. H[0] = 0 /\ \A n \in Nat : H[n + 1] = H[n] * base + At(s, n + 1)
  BY HornerSteps DEF IsHorner
<1> HIDE DEF H
<1>2. 0 \in T
  BY <1>1
<1>3. ASSUME NEW n \in Nat, n \in T
      PROVE  n + 1 \in T
  <2> SUFFICES ASSUME n + 1 <= z PROVE H[n + 1] = 0
    OBVIOUS
  <2>1. n < z /\ n <= z
    OBVIOUS
  <2>2. H[n] = 0 /\ At(s, n + 1) = 0
    BY <1>3, <2>1
  <2>3. H[n + 1] = 0 * base + 0
    BY <1>1, <2>2
  <2> QED
    BY <2>3
<1> HIDE DEF T
<1>4. Nat \subseteq T
  BY <1>2, <1>3, NatSetInduction
<1> QED
  BY <1>4 DEF T, H

(* Two sequences that are worth the same so far, and go on with the same   *)
(* digits, stay worth the same.                                            *)
LEMMA HornerAgrees ==
  ASSUME NEW s, IsText(s), NEW t, IsText(t), NEW base \in Nat,
         NEW a \in Nat, NEW b \in Nat, NEW m \in Nat,
         Horner(s, base)[a] = Horner(t, base)[b], SameFrom(s, a, t, b, m)
  PROVE  Horner(s, base)[a + m] = Horner(t, base)[b + m]
<1> USE DEF IsText, SameFrom
<1> DEFINE F == Horner(s, base)
           G == Horner(t, base)
           T == {n \in Nat : n <= m => F[a + n] = G[b + n]}
<1>1. /\ \A n \in Nat : F[n + 1] = F[n] * base + At(s, n + 1)
      /\ \A n \in Nat : G[n + 1] = G[n] * base + At(t, n + 1)
  BY HornerSteps DEF IsHorner
<1>2. F[a] = G[b]
  OBVIOUS
<1> HIDE DEF F, G
<1>3. 0 \in T
  BY <1>2
<1>4. ASSUME NEW n \in Nat, n \in T
      PROVE  n + 1 \in T
  <2> SUFFICES ASSUME n + 1 <= m PROVE F[a + (n + 1)] = G[b + (n + 1)]
    OBVIOUS
  <2>1. /\ n < m /\ n <= m /\ a + n \in Nat /\ b + n \in Nat
        /\ a + (n + 1) = (a + n) + 1 /\ b + (n + 1) = (b + n) + 1
    OBVIOUS
  <2>2. F[a + n] = G[b + n] /\ At(s, (a + n) + 1) = At(t, (b + n) + 1)
    BY <1>4, <2>1
  <2> QED
    BY <1>1, <2>1, <2>2
<1> HIDE DEF T
<1>5. Nat \subseteq T
  BY <1>3, <1>4, NatSetInduction
<1>6. F[a + m] = G[b + m]
  <2>1. m \in T /\ m <= m
    BY <1>5
  <2> QED
    BY <2>1 DEF T
<1> QED
  BY <1>6 DEF F, G

(* Bytes behind z zeros are worth less than 256 to their number.           *)
LEMMA HornerBelowPower ==
  ASSUME NEW s, \A n \in Nat : At(s, n) \in 0..255, NEW z \in Nat, Zeros(s, z)
  PROVE  \A n \in Nat : Horner(s, 256)[z + n] + 1 <= Power256[n]
<1> DEFINE H == Horner(s, 256)
           T == {n \in Nat : H[z + n] + 1 <= Power256[n]}
<1>1. /\ H \in [Nat -> Nat] /\ \A n \in Nat : H[n + 1] = H[n] * 256 + At(s, n + 1)
      /\ H[z] = 0
  <2>1. \A n \in Nat : At(s, n) \in Nat
    OBVIOUS
  <2>2. 256 \in Nat
    OBVIOUS
  <2> QED
    BY <2>1, <2>2, HornerSteps, HornerZeros DEF IsHorner, IsText
<1> HIDE DEF H
<1>2. /\ Power256[0] = 1
      /\ \A n \in Nat : Power256[n] \in Nat /\ Power256[n + 1] = 256 * Power256[n]
  BY Powers DEF IsPower
<1>3. 0 \in T
  <2>1. z + 0 = z /\ 0 \in Nat
    OBVIOUS
  <2>2. H[z + 0] = 0 /\ Power256[0] = 1
    BY <1>1, <1>2, <2>1
  <2> QED
    BY <2>2
<1>4. ASSUME NEW n \in Nat, n \in T
      PROVE  n + 1 \in T
  <2>1. z + n \in Nat /\ z + (n + 1) = (z + n) + 1 /\ (z + n) + 1 \in Nat
    OBVIOUS
  <2>2. /\ H[z + n] \in Nat /\ H[z + n] + 1 <= Power256[n]
        /\ At(s, (z + n) + 1) \in 0..255
        /\ H[z + (n + 1)] = H[z + n] * 256 + At(s, (z + n) + 1)
        /\ Power256[n] \in Nat /\ Power256[n + 1] = 256 * Power256[n]
    BY <1>1, <1>2, <1>4, <2>1
  <2>3. H[z + (n + 1)] + 1 <= Power256[n + 1]
    BY <2>2
  <2> QED
    BY <2>3
<1> HIDE DEF T
<1>5. Nat \subseteq T
  BY <1>3, <1>4, NatSetInduction
<1> QED
  BY <1>5 DEF T, H

(* To change digit k, counted from the last, changes what is before it.    *)
LEMMA LowChanges ==
  ASSUME NEW d, IsDigits(d), NEW e, IsDigits(e),
         NEW m \in Int, NEW k \in Nat, SameBut(d, e, m, k)
  PROVE  \A n \in Nat :
             /\ n <= k => Low(d, m)[n] = Low(e, m)[n]
             /\ n > k => Low(d, m)[n] + At(e, m - 1 - k) * Power58[k]
                             = Low(e, m)[n] + At(d, m - 1 - k) * Power58[k]
<1> USE DEF IsDigits, SameBut
<1> DEFINE F == Low(d, m)
           G == Low(e, m)
           T == {n \in Nat :
                     /\ n <= k => F[n] = G[n]
                     /\ n > k => F[n] + At(e, m - 1 - k) * Power58[k]
                                     = G[n] + At(d, m - 1 - k) * Power58[k]}
<1>1. /\ F \in [Nat -> Nat] /\ G \in [Nat -> Nat] /\ F[0] = 0 /\ G[0] = 0
      /\ \A n \in Nat : F[n + 1] = F[n] + At(d, m - 1 - n) * Power58[n]
      /\ \A n \in Nat : G[n + 1] = G[n] + At(e, m - 1 - n) * Power58[n]
  BY LowSteps DEF IsLow
<1> HIDE DEF F, G
<1>2. \A n \in Nat : /\ At(d, m - 1 - n) * Power58[n] \in Nat
                     /\ At(e, m - 1 - n) * Power58[n] \in Nat
  <2>1. \A n \in Nat : At(d, m - 1 - n) \in Nat /\ At(e, m - 1 - n) \in Nat /\ Power58[n] \in Nat
    BY PowerGrows
  <2> QED
    BY <2>1, ProductIsNat
<1>3. 0 \in T
  BY <1>1
<1>4. ASSUME NEW n \in Nat, n \in T
      PROVE  n + 1 \in T
  <2> DEFINE x == At(d, m - 1 - n) * Power58[n]
             y == At(e, m - 1 - n) * Power58[n]
             v == At(d, m - 1 - k) * Power58[k]
             w == At(e, m - 1 - k) * Power58[k]
  <2>1. /\ F[n] \in Nat /\ G[n] \in Nat /\ x \in Nat /\ y \in Nat /\ v \in Nat /\ w \in Nat
        /\ F[n + 1] = F[n] + x /\ G[n + 1] = G[n] + y
    BY <1>1, <1>2
  <2>2. /\ n <= k => F[n] = G[n]
        /\ n > k => F[n] + w = G[n] + v
        /\ n # k => x = y
        /\ n = k => x = v /\ y = w
    BY <1>4
  <2> HIDE DEF x, y, v, w
  <2>3. /\ n + 1 <= k => F[n + 1] = G[n + 1]
        /\ n + 1 > k => F[n + 1] + w = G[n + 1] + v
    BY <2>1, <2>2
  <2> QED
    BY <2>3 DEF v, w
<1> HIDE DEF T
<1>5. Nat \subseteq T
  BY <1>3, <1>4, NatSetInduction
<1> QED
  BY <1>5 DEF T, F, G

(* A digit that is read adds to the value; digits that are 0 do not.       *)
LEMMA LowGrows ==
  ASSUME NEW d, IsDigits(d), NEW m \in Int, NEW k \in Nat
  PROVE  /\ \A n \in Nat : n > k => At(d, m - 1 - k) * Power58[k] <= Low(d, m)[n]
         /\ (\A l \in Nat : l >= k => At(d, m - 1 - l) = 0)
                => \A n \in Nat : Low(d, m)[k + n] = Low(d, m)[k]
<1> USE DEF IsDigits
<1> DEFINE F == Low(d, m)
<1>1. /\ F \in [Nat -> Nat] /\ F[0] = 0
      /\ \A n \in Nat : F[n + 1] = F[n] + At(d, m - 1 - n) * Power58[n]
  BY LowSteps DEF IsLow
<1> HIDE DEF F
<1>2. \A n \in Nat : At(d, m - 1 - n) * Power58[n] \in Nat
  <2>1. \A n \in Nat : At(d, m - 1 - n) \in Nat /\ Power58[n] \in Nat
    BY PowerGrows
  <2> QED
    BY <2>1, ProductIsNat
<1>3. ASSUME NEW a \in Nat
      PROVE  \A n \in Nat : F[a] <= F[a + n]
  <2> DEFINE T == {n \in Nat : F[a] <= F[a + n]}
  <2>1. 0 \in T
    BY <1>1
  <2>2. ASSUME NEW n \in Nat, n \in T
        PROVE  n + 1 \in T
    <3>1. a + n \in Nat /\ a + (n + 1) = (a + n) + 1 /\ (a + n) + 1 \in Nat
      OBVIOUS
    <3>2. /\ F[a] \in Nat /\ F[a + n] \in Nat /\ F[a] <= F[a + n]
          /\ \E x \in Nat : F[a + (n + 1)] = F[a + n] + x
      BY <1>1, <1>2, <2>2, <3>1
    <3>3. F[a] <= F[a + (n + 1)]
      BY <3>2
    <3> QED
      BY <3>3
  <2> HIDE DEF T
  <2>3. Nat \subseteq T
    BY <2>1, <2>2, NatSetInduction
  <2> QED
    BY <2>3 DEF T
<1>4. ASSUME NEW n \in Nat, n > k
      PROVE  At(d, m - 1 - k) * Power58[k] <= F[n]
  <2> DEFINE x == At(d, m - 1 - k) * Power58[k]
  <2>1. n - (k + 1) \in Nat /\ k + 1 \in Nat /\ (k + 1) + (n - (k + 1)) = n
    BY <1>4
  <2>2. F[k + 1] <= F[n]
    BY <1>3, <2>1
  <2>3. F[k + 1] = F[k] + x /\ F[k] \in Nat /\ x \in Nat /\ F[n] \in Nat
    BY <1>1, <1>2
  <2> HIDE DEF x
  <2>4. x <= F[n]
    BY <2>2, <2>3
  <2> QED
    BY <2>4 DEF x
<1>5. ASSUME \A l \in Nat : l >= k => At(d, m - 1 - l) = 0
      PROVE  \A n \in Nat : F[k + n] = F[k]
  <2> DEFINE T == {n \in Nat : F[k + n] = F[k]}
  <2>1. 0 \in T
    BY <1>1
  <2>2. ASSUME NEW n \in Nat, n \in T
        PROVE  n + 1 \in T
    <3>1. k + n \in Nat /\ k + n >= k /\ k + (n + 1) = (k + n) + 1
      OBVIOUS
    <3>2. F[k + (n + 1)] = F[k + n] + 0 * Power58[k + n]
      BY <1>1, <1>5, <3>1
    <3>3. Power58[k + n] \in Nat /\ F[k + n] \in Nat /\ F[k + n] = F[k]
      BY <1>1, <2>2, <3>1, PowerGrows
    <3>4. F[k + (n + 1)] = F[k]
      BY <3>2, <3>3
    <3> QED
      BY <3>4
  <2> HIDE DEF T
  <2>3. Nat \subseteq T
    BY <2>1, <2>2, NatSetInduction
  <2> QED
    BY <2>3 DEF T
<1> QED
  BY <1>4, <1>5 DEF F

(* Read from the front, m digits behind z zeros are worth what they are    *)
(* worth from the back.                                                    *)
LEMMA HornerOfBuffer ==
  ASSUME NEW s, IsText(s), NEW d, IsDigits(d), NEW z \in Nat, NEW m \in Nat,
         Zeros(s, z), Holds(s, z, d, m)
  PROVE  Horner(s, 58)[z + m] = Low(d, m)[m]
<1> USE DEF IsText, IsDigits, Zeros, Holds
<1> DEFINE H == Horner(s, 58)
           F == Low(d, m)
           T == {k \in Nat : k <= m => H[z + k] * Power58[m - k] + F[m - k] = F[m]}
<1>1. /\ H \in [Nat -> Nat] /\ \A n \in Nat : H[n + 1] = H[n] * 58 + At(s, n + 1)
      /\ H[z] = 0
  <2>1. 58 \in Nat
    OBVIOUS
  <2> QED
    BY <2>1, HornerSteps, HornerZeros DEF IsHorner
<1>2. /\ F \in [Nat -> Nat] /\ F[0] = 0
      /\ \A n \in Nat : F[n + 1] = F[n] + At(d, m - 1 - n) * Power58[n]
  <2>1. m \in Int
    OBVIOUS
  <2>2. F \in [Nat -> Nat] /\ IsLow(F, d, m)
    BY <2>1, LowSteps
  <2> HIDE DEF F
  <2> QED
    BY <2>2 DEF IsLow
<1> HIDE DEF H, F
<1>3. /\ \A n \in Nat : Power58[n] \in Nat /\ Power58[n + 1] = 58 * Power58[n]
      /\ Power58[0] = 1
  BY Powers DEF IsPower
<1>4. 0 \in T
  <2>1. z + 0 = z /\ m - 0 = m
    OBVIOUS
  <2>2. H[z + 0] = 0 /\ Power58[m - 0] \in Nat /\ F[m - 0] = F[m] /\ F[m] \in Nat
    BY <1>1, <1>2, <1>3, <2>1
  <2>3. H[z + 0] * Power58[m - 0] + F[m - 0] = F[m]
    <3>1. \A p, f \in Nat : 0 * p + f = f
      OBVIOUS
    <3> QED
      BY <2>2, <3>1
  <2> QED
    BY <2>3
<1>5. ASSUME NEW k \in Nat, k \in T
      PROVE  k + 1 \in T
  <2> SUFFICES ASSUME k + 1 <= m
               PROVE  H[z + (k + 1)] * Power58[m - (k + 1)] + F[m - (k + 1)] = F[m]
    OBVIOUS
  <2> DEFINE n == m - (k + 1)
  <2>1. /\ n \in Nat /\ n + 1 = m - k /\ k < m /\ k <= m /\ m - 1 - n = k
        /\ z + k \in Nat /\ z + (k + 1) = (z + k) + 1 /\ z + k + 1 = (z + k) + 1
    OBVIOUS
  <2> HIDE DEF n
  <2>2. H[z + k] * Power58[n + 1] + F[n + 1] = F[m]
    BY <1>5, <2>1
  <2>3. At(s, (z + k) + 1) = At(d, k) /\ At(d, k) \in Nat
    BY <2>1
  <2>4. H[z + (k + 1)] = H[z + k] * 58 + At(d, k) /\ H[z + k] \in Nat
    <3>1. H[(z + k) + 1] = H[z + k] * 58 + At(s, (z + k) + 1) /\ H[z + k] \in Nat
      BY <1>1, <2>1
    <3> QED
      BY <2>1, <2>3, <3>1
  <2>5. F[n + 1] = F[n] + At(d, k) * Power58[n] /\ F[n] \in Nat /\ F[m] \in Nat
    <3>1. F[n + 1] = F[n] + At(d, m - 1 - n) * Power58[n]
      BY <1>2, <2>1
    <3>2. F[n] \in Nat /\ F[m] \in Nat
      BY <1>2, <2>1
    <3> QED
      BY <2>1, <3>1, <3>2
  <2>6. Power58[n + 1] = 58 * Power58[n] /\ Power58[n] \in Nat
    BY <1>3, <2>1
  <2>7. \A h, p, c, f \in Nat : (h * 58 + c) * p + f = h * (58 * p) + (f + c * p)
    OBVIOUS
  <2>8. (H[z + k] * 58 + At(d, k)) * Power58[n] + F[n]
            = H[z + k] * (58 * Power58[n]) + (F[n] + At(d, k) * Power58[n])
    BY <2>3, <2>4, <2>5, <2>6, <2>7
  <2>9. H[z + (k + 1)] * Power58[n] + F[n] = F[m]
    BY <2>2, <2>4, <2>5, <2>6, <2>8
  <2> QED
    BY <2>9 DEF n
<1> HIDE DEF T
<1>6. Nat \subseteq T
  BY <1>4, <1>5, NatSetInduction
<1>7. H[z + m] * Power58[m - m] + F[m - m] = F[m]
  BY <1>6 DEF T
<1>8. m - m = 0 /\ z + m \in Nat
  OBVIOUS
<1>9. H[z + m] \in Nat /\ F[m] \in Nat /\ H[z + m] * 1 + 0 = F[m]
  BY <1>1, <1>2, <1>3, <1>7, <1>8
<1>10. H[z + m] = F[m]
  BY <1>9
<1> QED
  BY <1>10 DEF H, F

----------------------------------------------------------------------------
(* Value, which is taken modulo a prime, is the exact value modulo it.     *)
LEMMA PrimeIsPositive == Prime \in Nat /\ Prime > 0
BY SMT DEF Prime

(* To take the remainder before the last digit is added changes nothing.   *)
SameRest(p, a, c, base) == ((a % p) * base + c) % p = (a * base + c) % p

LEMMA StepModulo ==
  ASSUME NEW p \in Nat, p > 0, NEW a \in Nat, NEW c \in Nat, NEW base \in Nat
  PROVE  SameRest(p, a, c, base)
<1>1. PICK q \in Nat, r \in 0..(p - 1) : a = p * q + r /\ a % p = r
  BY Division
<1>2. r \in Nat /\ q * base \in Nat /\ r * base \in Nat
  BY ProductIsNat
<1>3. r * base + c \in Nat
  BY <1>2
<1>4. a * base + c = p * (q * base) + (r * base + c)
  <2>1. \A x, y, v, w \in Nat : (p * x + y) * v + w = p * (x * v) + (y * v + w)
    OBVIOUS
  <2> QED
    BY <1>1, <1>2, <2>1
<1>5. (p * (q * base) + (r * base + c)) % p = (r * base + c) % p
  BY <1>2, <1>3, MultiplesVanish
<1> QED
  BY <1>1, <1>4, <1>5, Zenon DEF SameRest

LEMMA StepModuloPrime ==
  ASSUME NEW h \in Nat, NEW c \in Nat, NEW b \in Nat
  PROVE  SameRest(Prime, h, c, b)
BY PrimeIsPositive, StepModulo, Zenon

(* So the value that the properties compute is the exact one modulo Prime. *)
LEMMA ValueIsExact ==
  ASSUME NEW s, Len(s) \in Nat, DOMAIN s = 1..Len(s), \A k \in 1..Len(s) : s[k] \in Nat,
         NEW base \in {58, 256}
  PROVE  Value(s, base) = Horner(s, base)[Len(s)] % Prime
<1> DEFINE H == Horner(s, base)
           N == Len(s)
           Step(v) == [n \in 0..N |-> IF n = 0 THEN 0 ELSE (v[n - 1] * base + s[n]) % Prime]
           w == [n \in 0..N |-> H[n] % Prime]
           value == CHOOSE v : v = Step(v)
<1>1. IsText(s)
  BY DEF At, IsText
<1>2. /\ H \in [Nat -> Nat] /\ H[0] = 0
      /\ \A n \in Nat : H[n] \in Nat /\ H[n + 1] = H[n] * base + At(s, n + 1)
  <2>1. base \in Nat
    OBVIOUS
  <2>2. HornerIsNat(H, s, base)
    BY <1>1, <2>1, HornerValues
  <2> HIDE DEF H
  <2> QED
    BY <2>2, Zenon DEF HornerIsNat
<1>3. ASSUME NEW n \in 1..N
      PROVE  H[n] % Prime = ((H[n - 1] % Prime) * base + s[n]) % Prime
  <2>1. n - 1 \in Nat /\ (n - 1) + 1 = n /\ n \in DOMAIN s
    OBVIOUS
  <2>2. H[n] = H[n - 1] * base + s[n] /\ H[n - 1] \in Nat /\ s[n] \in Nat
    <3> HIDE DEF H
    <3>1. PICK m \in Nat : m = n - 1 /\ m + 1 = n
      BY <2>1
    <3>2. H[m] \in Nat /\ H[m + 1] = H[m] * base + At(s, m + 1)
      BY <1>2
    <3>3. At(s, n) = s[n] /\ s[n] \in Nat
      BY <2>1 DEF At
    <3> QED
      BY <3>1, <3>2, <3>3, Zenon
  <2>3. base \in Nat
    OBVIOUS
  <2> HIDE DEF H
  <2>4. ((H[n - 1] % Prime) * base + s[n]) % Prime = (H[n - 1] * base + s[n]) % Prime
    <3> DEFINE h == H[n - 1]
               c == s[n]
    <3>1. h \in Nat /\ c \in Nat
      BY <2>2
    <3> HIDE DEF h, c
    <3>2. SameRest(Prime, h, c, base)
      BY <2>3, <3>1, StepModuloPrime, Zenon
    <3> QED
      BY <3>2, Zenon DEF h, c, SameRest
  <2> QED
    BY <2>2, <2>4, Zenon
<1>4. 0 % Prime = 0
  BY PrimeIsPositive
<1> HIDE DEF H
<1>5. w = Step(w)
  <2>1. ASSUME NEW n \in 0..N
        PROVE  w[n] = IF n = 0 THEN 0 ELSE (w[n - 1] * base + s[n]) % Prime
    <3>1. CASE n = 0
      BY <1>2, <1>4, <3>1
    <3>2. CASE n # 0
      <4>1. n \in 1..N /\ n - 1 \in 0..N
        BY <3>2
      <4>2. w[n] = H[n] % Prime /\ w[n - 1] = H[n - 1] % Prime
        BY <4>1
      <4> HIDE DEF w
      <4> QED
        BY <1>3, <3>2, <4>1, <4>2
    <3> QED
      BY <3>1, <3>2
  <2>2. w = [n \in 0..N |-> w[n]]
    OBVIOUS
  <2> HIDE DEF w
  <2> QED
    BY <2>1, <2>2
<1>6. value = Step(value)
  <2> HIDE DEF w, Step
  <2> QED
    BY <1>5
<1>7. Value(s, base) = value[N]
  BY DEF Value
<1> HIDE DEF value
<1> DEFINE T == {n \in Nat : n <= N => value[n] = w[n]}
<1>8. 0 \in T
  <2>1. 0 \in 0..N
    OBVIOUS
  <2>2. value[0] = 0 /\ w[0] = 0
    BY <1>2, <1>4, <1>6, <2>1
  <2> QED
    BY <2>2
<1>9. ASSUME NEW n \in Nat, n \in T
      PROVE  n + 1 \in T
  <2> SUFFICES ASSUME n + 1 <= N PROVE value[n + 1] = w[n + 1]
    OBVIOUS
  <2>1. n <= N /\ n + 1 \in 0..N /\ n + 1 # 0 /\ (n + 1) - 1 = n
    OBVIOUS
  <2>2. value[n] = w[n]
    BY <1>9, <2>1
  <2> HIDE DEF w
  <2>3. /\ value[n + 1] = (value[n] * base + s[n + 1]) % Prime
        /\ w[n + 1] = (w[n] * base + s[n + 1]) % Prime
    BY <1>5, <1>6, <2>1
  <2> QED
    BY <2>2, <2>3
<1>10. Nat \subseteq T
  <2> HIDE DEF T
  <2> QED
    BY <1>8, <1>9, NatSetInduction
<1>11. value[N] = H[N] % Prime
  <2>1. N \in 0..N
    OBVIOUS
  <2>2. N \in T
    BY <1>10
  <2>3. value[N] = w[N]
    BY <2>2
  <2> QED
    BY <2>1, <2>3
<1> QED
  BY <1>7, <1>11 DEF H

----------------------------------------------------------------------------
(* One turn of the inner loop.  The last k digits of d are new and with    *)
(* the carry worth 256 times the old ones and the byte, and the digits     *)
(* before them are still to be multiplied: together that is v.             *)
Weighs(d, n, k, c, v) ==
    Low(d, n)[k] + Power58[k] * c + 256 * Low(d, n)[n] = v + 256 * Low(d, n)[k]

(* A buffer read at any index: the digit, or 0 outside it.                 *)
LEMMA DigitsAreNat ==
  ASSUME NEW n \in Nat, NEW d \in [0..(n - 1) -> 0..57]
  PROVE  /\ \A k \in 0..(n - 1) : At(d, k) = d[k] /\ d[k] \in Nat
         /\ \A k : k \notin 0..(n - 1) => At(d, k) = 0
         /\ \A k : At(d, k) \in Nat
<1>1. DOMAIN d = 0..(n - 1)
  OBVIOUS
<1>2. \A k \in 0..(n - 1) : d[k] \in 0..57
  OBVIOUS
<1>3. \A y \in 0..57 : y \in Nat
  OBVIOUS
<1>4. \A k \in 0..(n - 1) : At(d, k) = d[k] /\ d[k] \in Nat
  BY <1>1, <1>2, <1>3, Zenon DEF At
<1>5. \A k : k \notin 0..(n - 1) => At(d, k) = 0
  BY <1>1, Zenon DEF At
<1>6. 0 \in Nat
  OBVIOUS
<1>7. \A k : At(d, k) \in Nat
  BY <1>4, <1>5, <1>6, Zenon
<1> QED
  BY <1>4, <1>5, <1>7, Zenon

LEMMA BufferIsDigits ==
  ASSUME NEW n \in Nat, NEW d \in [0..(n - 1) -> 0..57]
  PROVE  IsDigits(d)
BY DigitsAreNat, Zenon DEF IsDigits

LEMMA LowIsNat ==
  ASSUME NEW n \in Int, NEW d, IsDigits(d)
  PROVE  /\ \A k \in Nat : Low(d, n)[k] \in Nat
         /\ Low(d, n)[0] = 0
         /\ \A k \in Nat : Low(d, n)[k + 1] = Low(d, n)[k] + At(d, n - 1 - k) * Power58[k]
<1>1. Low(d, n) \in [Nat -> Nat] /\ IsLow(Low(d, n), d, n)
  BY LowSteps
<1> QED
  BY <1>1 DEF IsLow

(* The arithmetic of one digit: b and q are the new digit and carry for a  *)
(* and c, p the power of 58 it counts for.                                 *)
LEMMA WeightOfStep ==
  ASSUME NEW a \in Nat, NEW b \in Nat, NEW c \in Nat, NEW q \in Nat, NEW p \in Nat, NEW v \in Nat,
         NEW f \in Nat, NEW F \in Nat, NEW g \in Nat, NEW h \in Nat, NEW G \in Nat,
         58 * q + b = c + 256 * a, g = f, G + a * p = F + b * p, h = g + b * p,
         f + p * c + 256 * F = v + 256 * f
  PROVE  h + (58 * p) * q + 256 * G = v + 256 * h
<1>1. PICK ap \in Nat : ap = a * p
  BY ProductIsNat
<1>2. PICK bp \in Nat : bp = b * p
  BY ProductIsNat
<1>3. PICK cp \in Nat : cp = p * c
  BY ProductIsNat
<1>4. PICK qp \in Nat : qp = (58 * p) * q
  BY ProductIsNat
<1>5. qp + bp = cp + 256 * ap
  <2>1. (58 * p) * q + b * p = p * (58 * q + b)
    OBVIOUS
  <2>2. p * (c + 256 * a) = p * c + 256 * (a * p)
    OBVIOUS
  <2> QED
    BY <1>1, <1>2, <1>3, <1>4, <2>1, <2>2
<1>6. G + ap = F + bp /\ h = g + bp /\ f + cp + 256 * F = v + 256 * f
  BY <1>1, <1>2, <1>3
<1>7. h + qp + 256 * G = v + 256 * h
  BY <1>5, <1>6
<1> QED
  BY <1>4, <1>7

(* The step at digit x, which is digit k from the last.                    *)
LEMMA DigitKeepsWeight ==
  ASSUME NEW n \in Nat, NEW d, NEW e, IsDigits(d), IsDigits(e),
         NEW k \in Nat, k < n, SameBut(e, d, n, k),
         NEW c \in Nat, NEW q \in Nat, NEW x, x = n - 1 - k,
         58 * q + At(e, x) = c + 256 * At(d, x),
         NEW v \in Nat, Weighs(d, n, k, c, v)
  PROVE  Weighs(e, n, k + 1, q, v)
<1>1. n \in Int
  OBVIOUS
<1>2. \A m \in Nat :
          /\ m <= k => Low(e, n)[m] = Low(d, n)[m]
          /\ m > k => Low(e, n)[m] + At(d, n - 1 - k) * Power58[k]
                          = Low(d, n)[m] + At(e, n - 1 - k) * Power58[k]
  BY <1>1, LowChanges
<1>3. /\ Low(e, n)[k] = Low(d, n)[k]
      /\ Low(e, n)[n] + At(d, x) * Power58[k] = Low(d, n)[n] + At(e, x) * Power58[k]
  BY <1>2
<1>4. Low(e, n)[k + 1] = Low(e, n)[k] + At(e, x) * Power58[k]
  BY <1>1, LowIsNat
<1>5. Power58[k] \in Nat /\ Power58[k + 1] = 58 * Power58[k]
  BY Powers DEF IsPower
<1>6. Low(d, n)[k] + Power58[k] * c + 256 * Low(d, n)[n] = v + 256 * Low(d, n)[k]
  BY DEF Weighs
<1>7. /\ Low(d, n)[k] \in Nat /\ Low(d, n)[n] \in Nat /\ Low(e, n)[k] \in Nat
      /\ Low(e, n)[n] \in Nat /\ Low(e, n)[k + 1] \in Nat
  <2>1. k + 1 \in Nat
    OBVIOUS
  <2> QED
    BY <1>1, <2>1, LowIsNat
<1>8. At(d, x) \in Nat /\ At(e, x) \in Nat
  <2>1. x \in Int
    OBVIOUS
  <2> QED
    BY <2>1 DEF IsDigits
<1>9. Low(e, n)[k + 1] + (58 * Power58[k]) * q + 256 * Low(e, n)[n] = v + 256 * Low(e, n)[k + 1]
  <2> DEFINE a == At(d, x)
             b == At(e, x)
             p == Power58[k]
             f == Low(d, n)[k]
             F == Low(d, n)[n]
             g == Low(e, n)[k]
             h == Low(e, n)[k + 1]
             G == Low(e, n)[n]
  <2>1. a \in Nat /\ b \in Nat /\ p \in Nat /\ f \in Nat /\ F \in Nat /\ g \in Nat /\ h \in Nat /\ G \in Nat
    BY <1>5, <1>7, <1>8
  <2>2. /\ 58 * q + b = c + 256 * a
        /\ g = f /\ G + a * p = F + b * p /\ h = g + b * p
        /\ f + p * c + 256 * F = v + 256 * f
    BY <1>3, <1>4, <1>6
  <2> HIDE DEF a, b, p, f, F, g, h, G
  <2>3. h + (58 * p) * q + 256 * G = v + 256 * h
    BY <2>1, <2>2, WeightOfStep
  <2> QED
    BY <2>3 DEF a, b, p, f, F, g, h, G
<1> QED
  BY <1>5, <1>9 DEF Weighs

(* The loop breaks where carry is 0 and every digit from there to the      *)
(* front is 0: the digits are worth v.                                     *)
LEMMA BreakKeepsWeight ==
  ASSUME NEW n \in Nat, NEW d \in [0..(n - 1) -> 0..57], NEW x \in 0..(n - 1), NEW v \in Nat,
         Weighs(d, n, n - 1 - x, 0, v),
         \A y \in 0..x : d[y] = 0
  PROVE  Low(d, n)[n] = v
<1> DEFINE k == n - 1 - x
<1>1. k \in Nat /\ k + (x + 1) = n /\ x + 1 \in Nat
  OBVIOUS
<1>2. \A l \in Nat : l >= k => At(d, n - 1 - l) = 0
  <2> SUFFICES ASSUME NEW l \in Nat, l >= k PROVE At(d, n - 1 - l) = 0
    OBVIOUS
  <2>1. n - 1 - l \in Int /\ n - 1 - l <= x
    OBVIOUS
  <2> DEFINE y == n - 1 - l
  <2>2. CASE y \in 0..x
    <3>1. At(d, y) = d[y]
      BY <2>2 DEF At
    <3> QED
      BY <2>2, <3>1
  <2>3. CASE y < 0
    BY <2>1, <2>3, DigitsAreNat
  <2> QED
    BY <2>1, <2>2, <2>3
<1>3. IsDigits(d)
  BY BufferIsDigits
<1>8. n \in Int
  OBVIOUS
<1> HIDE DEF k
<1>4. \A m \in Nat : Low(d, n)[k + m] = Low(d, n)[k]
  BY <1>1, <1>2, <1>3, <1>8, LowGrows
<1>5. Low(d, n)[n] = Low(d, n)[k]
  BY <1>1, <1>4
<1>6. Low(d, n)[k] + Power58[k] * 0 + 256 * Low(d, n)[n] = v + 256 * Low(d, n)[k]
  BY DEF Weighs, k
<1>7. Low(d, n)[k] \in Nat /\ Power58[k] \in Nat
  BY <1>1, <1>3, <1>8, LowIsNat, PowerGrows
<1> QED
  BY <1>5, <1>6, <1>7

(* Behind the first digit nothing is carried, where v is small enough.     *)
LEMMA NothingIsCarriedOut ==
  ASSUME NEW n \in Nat, NEW d \in [0..(n - 1) -> 0..57], NEW c \in Nat, NEW v \in Nat,
         Weighs(d, n, n, c, v), v + 1 <= Power58[n]
  PROVE  c = 0 /\ Low(d, n)[n] = v
<1> DEFINE p == Power58[n]
           f == Low(d, n)[n]
<1>1. f \in Nat /\ p \in Nat
  <2>1. n \in Int /\ IsDigits(d)
    BY BufferIsDigits
  <2> QED
    BY <2>1, LowIsNat, PowerGrows
<1>2. f + p * c + 256 * f = v + 256 * f /\ v + 1 <= p
  BY DEF Weighs
<1> HIDE DEF p, f
<1>3. p * c \in Nat
  BY <1>1, ProductIsNat
<1>4. f + p * c = v
  BY <1>1, <1>2, <1>3
<1>5. c >= 1 => p * c >= p
  BY <1>1
<1>6. c = 0
  BY <1>1, <1>2, <1>3, <1>4, <1>5
<1>7. p * c = 0
  BY <1>1, <1>6
<1> QED
  BY <1>1, <1>4, <1>6, <1>7 DEF f

(* A value that needs one digit less leaves the first digit 0.             *)
LEMMA FirstDigitIsFree ==
  ASSUME NEW n \in Nat \ {0}, NEW d \in [0..(n - 1) -> 0..57],
         Low(d, n)[n] + 1 <= Power58[n - 1]
  PROVE  d[0] = 0
<1> DEFINE p == Power58[n - 1]
<1>1. n - 1 \in Nat /\ n > n - 1 /\ n - 1 - (n - 1) = 0 /\ 0 \in 0..(n - 1)
      /\ n \in Int /\ n \in Nat
  OBVIOUS
<1>2. IsDigits(d)
  BY <1>1, BufferIsDigits
<1>3. At(d, n - 1 - (n - 1)) * Power58[n - 1] <= Low(d, n)[n]
  BY <1>1, <1>2, LowGrows
<1>4. At(d, 0) = d[0] /\ d[0] \in Nat
  BY <1>1, DigitsAreNat, Zenon
<1>5. p \in Nat /\ Low(d, n)[n] \in Nat /\ d[0] * p <= Low(d, n)[n]
  BY <1>1, <1>2, <1>3, <1>4, LowIsNat, PowerGrows
<1> HIDE DEF p
<1>6. d[0] >= 1 => d[0] * p >= p
  <2>1. \A a, b \in Nat : a >= 1 => a * b >= b
    OBVIOUS
  <2> QED
    BY <1>4, <1>5, <2>1
<1>7. d[0] * p \in Nat
  BY <1>4, <1>5, ProductIsNat
<1>8. Low(d, n)[n] + 1 <= p
  BY DEF p
<1> QED
  BY <1>4, <1>5, <1>6, <1>7, <1>8

----------------------------------------------------------------------------
(* The inductive invariant: what the digits are worth while a byte is      *)
(* added to them, and the digits that no byte has reached yet.  (The first *)
(* one, which the loop does not tell from a reached one, is 0 as long as   *)
(* there are bytes left.)                                                  *)
Worth(s, n) == Horner(s, 256)[n]
Unreached(d, first, last) == \A k \in first..last : d[k] = 0

EncInv2 ==
    /\ EncInv
    /\ Zeros(bin, zcount)
    /\ pc # "zeros" =>
           /\ size = SizeFor(Len(bin) - zcount)
           /\ zcount <= i
           /\ zcount < Len(bin) => bin[zcount + 1] # 0
    /\ pc \in {"outer", "done"} =>
           Low(buf, size)[size] = Worth(bin, i) /\ Unreached(buf, 1, high)
    /\ pc = "inner" =>
           /\ Weighs(buf, size, size - 1 - j, carry, Worth(bin, i + 1))
           /\ \A k \in 0..j : k <= high => buf[k] = 0
    /\ pc = "end" => j = 0 /\ Weighs(buf, size, size, carry, Worth(bin, i + 1))
    /\ pc = "done" => i = Len(bin)

(* Bytes read at any index.                                                *)
LEMMA BytesAt ==
  ASSUME NEW s \in Seq(0..255)
  PROVE  /\ \A n \in Nat : At(s, n) \in 0..255 /\ At(s, n) \in Nat
         /\ \A n \in 1..Len(s) : At(s, n) = s[n]
         /\ \A n : n \notin 1..Len(s) => At(s, n) = 0
<1>1. DOMAIN s = 1..Len(s) /\ Len(s) \in Nat
  OBVIOUS
<1>2. \A n \in 1..Len(s) : s[n] \in 0..255
  BY ElementOfSeq
<1>3. \A n \in 1..Len(s) : At(s, n) = s[n]
  BY <1>1, Zenon DEF At
<1>4. \A n : n \notin 1..Len(s) => At(s, n) = 0
  BY <1>1, Zenon DEF At
<1>5. 0 \in 0..255 /\ \A y \in 0..255 : y \in Nat
  OBVIOUS
<1>6. ASSUME NEW n PROVE At(s, n) \in 0..255
  <2>1. CASE n \in 1..Len(s)
    <3>1. At(s, n) = s[n]
      BY <1>3, <2>1
    <3>2. s[n] \in 0..255
      BY <1>2, <2>1
    <3> QED
      BY <3>1, <3>2
  <2>2. CASE n \notin 1..Len(s)
    BY <1>4, <1>5, <2>2
  <2> QED
    BY <2>1, <2>2
<1> QED
  BY <1>3, <1>4, <1>5, <1>6, Zenon

(* What the bytes are worth grows byte by byte.                            *)
LEMMA WorthSteps ==
  ASSUME NEW s \in Seq(0..255)
  PROVE  /\ \A n \in Nat : Worth(s, n) \in Nat
         /\ \A n \in Nat : Worth(s, n + 1) = Worth(s, n) * 256 + At(s, n + 1)
<1>1. IsText(s)
  BY BytesAt DEF IsText
<1>2. 256 \in Nat
  OBVIOUS
<1>3. Horner(s, 256) \in [Nat -> Nat] /\ IsHorner(Horner(s, 256), s, 256)
  BY <1>1, <1>2, HornerSteps
<1> QED
  BY <1>3 DEF IsHorner, Worth

LEMMA WorthOfZeros ==
  ASSUME NEW s \in Seq(0..255), NEW z \in Nat, Zeros(s, z)
  PROVE  Worth(s, z) = 0
<1>1. IsText(s)
  BY BytesAt DEF IsText
<1>2. 256 \in Nat
  OBVIOUS
<1> QED
  BY <1>1, <1>2, HornerZeros DEF Worth

(* Another byte has at least one more digit.                               *)
LEMMA SizeGrows ==
  ASSUME NEW n \in Nat
  PROVE  /\ SizeFor(n) \in Nat /\ SizeFor(n) >= 1
         /\ SizeFor(n + 1) - 1 \in Nat /\ SizeFor(n) <= SizeFor(n + 1) - 1
BY DEF SizeFor

LEMMA PowersAreOrdered ==
  ASSUME NEW k \in Nat, NEW n \in Nat, k <= n
  PROVE  Power58[k] <= Power58[n]
<1>1. n - k \in Nat /\ k + (n - k) = n
  OBVIOUS
<1> QED
  BY <1>1, PowerGrows

(* The bytes so far fit the digits, with a digit to spare before the last. *)
LEMMA WorthFits ==
  ASSUME NEW s \in Seq(0..255), NEW z \in Nat, Zeros(s, z), NEW n \in Nat, z <= n, n <= Len(s)
  PROVE  /\ Worth(s, n) + 1 <= Power58[SizeFor(Len(s) - z)]
         /\ n < Len(s) => Worth(s, n) + 1 <= Power58[SizeFor(Len(s) - z) - 1]
<1> DEFINE m == n - z
           N == Len(s) - z
<1>1. /\ m \in Nat /\ N \in Nat /\ m <= N /\ z + m = n
      /\ n < Len(s) => m + 1 <= N
  OBVIOUS
<1>2. Worth(s, n) + 1 <= Power256[m]
  <2>1. \A k \in Nat : At(s, k) \in 0..255
    BY BytesAt
  <2>2. \A k \in Nat : Horner(s, 256)[z + k] + 1 <= Power256[k]
    BY <2>1, HornerBelowPower
  <2> HIDE DEF m
  <2> QED
    BY <1>1, <2>2 DEF Worth
<1> HIDE DEF m, N
<1>3. \A a, b \in Nat : a <= b => SizeFor(a) <= SizeFor(b)
  BY DEF SizeFor
<1>4. Power256[m] <= Power58[SizeFor(m)]
  BY <1>1, SizeIsEnough
<1>5. SizeFor(m) \in Nat /\ SizeFor(N) \in Nat /\ SizeFor(N) - 1 \in Nat
  BY <1>1 DEF SizeFor
<1>6. Power58[SizeFor(m)] <= Power58[SizeFor(N)]
  BY <1>1, <1>3, <1>5, PowersAreOrdered
<1>7. /\ Worth(s, n) \in Nat /\ Power256[m] \in Nat /\ Power58[SizeFor(m)] \in Nat
      /\ Power58[SizeFor(N)] \in Nat /\ Power58[SizeFor(N) - 1] \in Nat
  <2>1. Worth(s, n) \in Nat
    BY WorthSteps
  <2>2. /\ \A k \in Nat : Power58[k] \in Nat
        /\ \A k \in Nat : Power256[k] \in Nat
    BY Powers
  <2> QED
    BY <1>1, <1>5, <2>1, <2>2, Zenon
<1>8. Worth(s, n) + 1 <= Power58[SizeFor(N)]
  BY <1>2, <1>4, <1>6, <1>7
<1>9. ASSUME n < Len(s)
      PROVE  Worth(s, n) + 1 <= Power58[SizeFor(N) - 1]
  <2>1. SizeFor(m) <= SizeFor(m + 1) - 1 /\ SizeFor(m + 1) \in Nat
    BY <1>1, SizeGrows DEF SizeFor
  <2>2. SizeFor(m + 1) <= SizeFor(N)
    BY <1>1, <1>3, <1>9
  <2>3. SizeFor(m) <= SizeFor(N) - 1
    BY <1>5, <2>1, <2>2
  <2>4. Power58[SizeFor(m)] <= Power58[SizeFor(N) - 1]
    BY <1>5, <2>3, PowersAreOrdered
  <2> QED
    BY <1>2, <1>4, <1>7, <2>4
<1> QED
  BY <1>8, <1>9 DEF N

(* The six steps, for any values of the variables.                         *)
LEMMA ZeroStaysCounted ==
  ASSUME NEW s \in Seq(0..255), NEW z \in Nat, z < Len(s), s[z + 1] = 0, Zeros(s, z)
  PROVE  Zeros(s, z + 1)
<1>1. z + 1 \in 1..Len(s)
  OBVIOUS
<1>2. At(s, z + 1) = 0
  BY <1>1, BytesAt
<1>3. \A l \in Nat : l < z + 1 => l < z \/ l = z
  OBVIOUS
<1> QED
  BY <1>2, <1>3, Zenon DEF Zeros

LEMMA NoDigitsYet ==
  ASSUME NEW m \in Nat \ {0}, NEW d, d = [k \in 0..(m - 1) |-> 0]
  PROVE  Low(d, m)[m] = 0 /\ Unreached(d, 1, m - 1)
<1>1. d \in [0..(m - 1) -> 0..57] /\ m \in Nat /\ m \in Int /\ 0 \in Nat /\ 0 + m = m
  OBVIOUS
<1>2. IsDigits(d)
  BY <1>1, BufferIsDigits
<1>3. \A k : At(d, k) = 0
  BY DEF At
<1>7. \A l \in Nat : l >= 0 => At(d, m - 1 - l) = 0
  BY <1>3
<1>4. \A n \in Nat : Low(d, m)[0 + n] = Low(d, m)[0]
  BY <1>1, <1>2, <1>7, LowGrows
<1>5. Low(d, m)[0] = 0
  BY <1>1, <1>2, LowIsNat
<1>6. \A k \in 1..(m - 1) : k \in 0..(m - 1)
  OBVIOUS
<1> QED
  BY <1>1, <1>4, <1>5, <1>6 DEF Unreached

LEMMA ByteEnters ==
  ASSUME NEW m \in Nat \ {0}, NEW d \in [0..(m - 1) -> 0..57], NEW h \in 0..(m - 1),
         NEW s \in Seq(0..255), NEW z \in Nat, Zeros(s, z), NEW n \in Nat, z <= n, n < Len(s),
         m = SizeFor(Len(s) - z), Low(d, m)[m] = Worth(s, n), Unreached(d, 1, h)
  PROVE  /\ Weighs(d, m, m - 1 - (m - 1), s[n + 1], Worth(s, n + 1))
         /\ Unreached(d, 0, h)
<1>1. m - 1 - (m - 1) = 0 /\ m \in Int /\ m \in Nat /\ n + 1 \in 1..Len(s) /\ n <= Len(s)
  OBVIOUS
<1>2. IsDigits(d)
  BY <1>1, BufferIsDigits
<1>3. Low(d, m)[0] = 0 /\ Low(d, m)[m] \in Nat
  BY <1>1, <1>2, LowIsNat
<1>4. At(s, n + 1) = s[n + 1] /\ s[n + 1] \in Nat
  <2>1. At(s, n + 1) = s[n + 1]
    BY <1>1, BytesAt
  <2>2. PICK x \in Nat : x = n + 1
    OBVIOUS
  <2>3. At(s, x) \in Nat
    BY BytesAt, Zenon
  <2> QED
    BY <2>1, <2>2, <2>3, Zenon
<1>5. Worth(s, n + 1) = Worth(s, n) * 256 + s[n + 1] /\ Worth(s, n) \in Nat
  BY <1>4, WorthSteps
<1>6. Power58[0] = 1
  BY Powers DEF IsPower
<1>7. Low(d, m)[0] + Power58[0] * s[n + 1] + 256 * Low(d, m)[m]
          = Worth(s, n + 1) + 256 * Low(d, m)[0]
  BY <1>3, <1>4, <1>5, <1>6
<1>8. d[0] = 0
  <2>1. Low(d, m)[m] + 1 <= Power58[m - 1]
    BY <1>1, WorthFits
  <2> QED
    BY <2>1, FirstDigitIsFree
<1>9. \A k \in 0..h : k = 0 \/ k \in 1..h
  OBVIOUS
<1>10. Unreached(d, 0, h)
  BY <1>8, <1>9, Zenon DEF Unreached
<1> QED
  BY <1>1, <1>7, <1>10 DEF Weighs

LEMMA DigitChanges ==
  ASSUME NEW m \in Nat, NEW d \in [0..(m - 1) -> 0..57], NEW x \in 0..(m - 1),
         NEW c \in Nat, NEW v \in Nat,
         Weighs(d, m, m - 1 - x, c, v)
  PROVE  Weighs([d EXCEPT ![x] = DigitOf(c, d[x])], m, m - x, CarryOf(c, d[x]), v)
<1>1. d[x] \in Nat
  <2>1. d[x] \in 0..57
    OBVIOUS
  <2>2. \A y \in 0..57 : y \in Nat
    OBVIOUS
  <2> QED
    BY <2>1, <2>2, Zenon
<1> DEFINE sum == c + 256 * d[x]
           r == sum % 58
           q == sum \div 58
           e == [d EXCEPT ![x] = r]
           k == m - 1 - x
<1>2. r \in 0..57 /\ q \in Nat
  <2>1. sum \in Nat
    BY <1>1
  <2> HIDE DEF sum
  <2> QED
    BY <2>1
<1>3. 58 * q + r = c + 256 * d[x]
  <2>1. sum \in Nat
    BY <1>1
  <2> HIDE DEF sum
  <2>2. 58 * q + r = sum
    BY <2>1
  <2> QED
    BY <2>2 DEF sum
<1> HIDE DEF r, q, sum
<1>4. e \in [0..(m - 1) -> 0..57] /\ e[x] = r /\ \A y \in 0..(m - 1) : y # x => e[y] = d[y]
  BY <1>2
<1> HIDE DEF e
<1>5. m \in Nat /\ k \in Nat /\ k < m /\ x = m - 1 - k /\ k + 1 = m - x
  OBVIOUS
<1>6. IsDigits(d) /\ IsDigits(e)
  BY <1>4, <1>5, BufferIsDigits
<1>7. \A y : y # x => At(e, y) = At(d, y)
  <2> SUFFICES ASSUME NEW y, y # x PROVE At(e, y) = At(d, y)
    OBVIOUS
  <2>1. DOMAIN d = 0..(m - 1) /\ DOMAIN e = 0..(m - 1)
    BY <1>4
  <2> QED
    BY <1>4, <2>1, Zenon DEF At
<1>8. At(e, x) = r /\ At(d, x) = d[x]
  <2>1. x \in DOMAIN d /\ x \in DOMAIN e
    BY <1>4
  <2> QED
    BY <1>4, <2>1, Zenon DEF At
<1>9. SameBut(e, d, m, k)
  <2>1. \A l \in Nat : l # k => m - 1 - l # x
    BY <1>5
  <2> QED
    BY <1>7, <2>1, Zenon DEF SameBut
<1>10. Weighs(d, m, k, c, v)
  OBVIOUS
<1>11. 58 * q + At(e, x) = c + 256 * At(d, x)
  BY <1>3, <1>8
<1> HIDE DEF k
<1>12. Weighs(e, m, k + 1, q, v)
  BY <1>1, <1>2, <1>5, <1>6, <1>9, <1>10, <1>11, DigitKeepsWeight
<1> QED
  BY <1>5, <1>12 DEF DigitOf, CarryOf, e, q, r, sum

(* What the steps use of the types.                                        *)
LEMMA StateTypes ==
  ASSUME EncInv
  PROVE  /\ bin \in Seq(0..255) /\ Len(bin) \in Nat /\ zcount \in Nat /\ zcount <= Len(bin)
         /\ i \in Nat /\ i <= Len(bin) /\ size \in Nat \ {0} /\ size \in Nat
         /\ buf \in [0..(size - 1) -> 0..57] /\ j \in 0..(size - 1) /\ high \in 0..(size - 1)
         /\ carry \in Nat
<1> USE DEF EncInv, EncTypeOK
<1>1. bin \in Seq(0..255) /\ Len(bin) \in Nat
  OBVIOUS
<1>2. zcount \in Nat /\ zcount <= Len(bin) /\ i \in Nat /\ i <= Len(bin)
  BY <1>1
<1>3. carry \in Nat
  OBVIOUS
<1>4. size \in Nat \ {0} /\ size \in Nat
  OBVIOUS
<1>5. /\ buf \in [0..(size - 1) -> 0..57] /\ j \in 0..(size - 1)
      /\ high \in 0..(size - 1)
  OBVIOUS
<1> HIDE DEF EncInv, EncTypeOK
<1> QED
  BY <1>1, <1>2, <1>3, <1>4, <1>5

(* The invariant is one: after every step the digits are worth the bytes   *)
(* so far.                                                                 *)
LEMMA EncInductive == EncSpec => []EncInv2
<1>1. EncInit => EncInv2
  BY InputsAssumption DEF EncInit, EncInv2, EncInv, EncTypeOK, Zeros
<1>2. EncInv2 /\ [EncNext]_encVars => EncInv2'
  <2> SUFFICES ASSUME EncInv2, [EncNext]_encVars, EncInv' PROVE EncInv2'
    BY EncInvIsInductive DEF EncInv2
  <2> USE DEF EncInv2
  <2>0. EncInv
    OBVIOUS
  <2>7. /\ bin \in Seq(0..255) /\ Len(bin) \in Nat /\ zcount \in Nat /\ zcount <= Len(bin)
        /\ i \in Nat /\ i <= Len(bin) /\ size \in Nat \ {0} /\ size \in Nat
        /\ buf \in [0..(size - 1) -> 0..57] /\ j \in 0..(size - 1) /\ high \in 0..(size - 1)
        /\ carry \in Nat /\ Worth(bin, i) \in Nat /\ Worth(bin, i + 1) \in Nat
    <3> HIDE DEF EncInv2
    <3>1. i \in Nat /\ i + 1 \in Nat /\ bin \in Seq(0..255)
      BY <2>0, StateTypes
    <3>2. Worth(bin, i) \in Nat /\ Worth(bin, i + 1) \in Nat
      BY <3>1, WorthSteps
    <3> QED
      BY <2>0, <3>2, StateTypes
  <2>1. CASE CountZero
    <3>1. /\ pc = "zeros" /\ zcount < Len(bin) /\ bin[zcount + 1] = 0
          /\ zcount' = zcount + 1 /\ bin' = bin /\ pc' = "zeros"
      BY <2>1 DEF CountZero
    <3>2. Zeros(bin, zcount + 1)
      BY <2>7, <3>1, ZeroStaysCounted
    <3> QED
      BY <3>1, <3>2
  <2>2. CASE StartDigits
    <3>1. /\ zcount < Len(bin) => bin[zcount + 1] # 0
          /\ size' = SizeFor(Len(bin) - zcount) /\ buf' = [k \in 0..(size' - 1) |-> 0]
          /\ i' = zcount /\ high' = size' - 1 /\ pc' = "outer" /\ bin' = bin /\ zcount' = zcount
      BY <2>2 DEF StartDigits
    <3>2. size' \in Nat \ {0}
      BY DEF EncInv, EncTypeOK
    <3>3. Low(buf', size')[size'] = 0 /\ Unreached(buf', 1, high')
      BY <3>1, <3>2, NoDigitsYet
    <3>4. Worth(bin, zcount) = 0
      BY <2>7, WorthOfZeros
    <3>5. Low(buf', size')[size'] = Worth(bin', i') /\ zcount' <= i'
      BY <2>7, <3>1, <3>3, <3>4
    <3> QED
      BY <3>1, <3>3, <3>5
  <2>3. CASE NextByte
    <3>1. CASE i < Len(bin)
      <4>1. /\ pc = "outer" /\ carry' = bin[i + 1] /\ j' = size - 1 /\ pc' = "inner"
            /\ bin' = bin /\ zcount' = zcount /\ size' = size /\ buf' = buf
            /\ i' = i /\ high' = high
        BY <2>3, <3>1 DEF NextByte
      <4>2. /\ Weighs(buf, size, size - 1 - (size - 1), bin[i + 1], Worth(bin, i + 1))
            /\ Unreached(buf, 0, high)
        BY <2>7, <3>1, <4>1, ByteEnters
      <4>3. \A k \in 0..j' : k <= high' => buf'[k] = 0
        BY <2>7, <4>1, <4>2 DEF Unreached
      <4> QED
        BY <4>1, <4>2, <4>3
    <3>2. CASE ~(i < Len(bin))
      <4>1. /\ pc = "outer" /\ pc' = "done"
            /\ bin' = bin /\ zcount' = zcount /\ size' = size /\ buf' = buf
            /\ i' = i /\ high' = high
        BY <2>3, <3>2 DEF NextByte
      <4>2. i = Len(bin)
        BY <2>7, <3>2
      <4> QED
        BY <4>1, <4>2
    <3> QED
      BY <3>1, <3>2
  <2>4. CASE NextDigit
    <3>1. /\ pc = "inner"
          /\ buf' = [buf EXCEPT ![j] = DigitOf(carry, buf[j])]
          /\ carry' = CarryOf(carry, buf[j])
          /\ bin' = bin /\ zcount' = zcount /\ size' = size /\ i' = i /\ high' = high
          /\ \/ j = 0 /\ pc' = "end" /\ j' = j
             \/ j # 0 /\ pc' = "inner" /\ j' = j - 1
      BY <2>4 DEF NextDigit, DigitOf, CarryOf
    <3>2. Weighs(buf', size, size - j, carry', Worth(bin, i + 1))
      <4>1. Weighs(buf, size, size - 1 - j, carry, Worth(bin, i + 1))
        BY <3>1
      <4>2. Weighs([buf EXCEPT ![j] = DigitOf(carry, buf[j])], size, size - j,
                   CarryOf(carry, buf[j]), Worth(bin, i + 1))
        <5>1. /\ size \in Nat /\ buf \in [0..(size - 1) -> 0..57] /\ j \in 0..(size - 1)
              /\ carry \in Nat /\ Worth(bin, i + 1) \in Nat
          BY <2>7, <3>1
        <5> QED
          BY <4>1, <5>1, DigitChanges, Zenon
      <4> QED
        BY <3>1, <4>2, Zenon
    <3>3. CASE j = 0 /\ pc' = "end" /\ j' = j
      <4>1. size - j = size
        BY <2>7, <3>3
      <4> QED
        BY <3>1, <3>2, <3>3, <4>1
    <3>4. CASE j # 0 /\ pc' = "inner" /\ j' = j - 1
      <4>1. size - 1 - j' = size - j
        BY <2>7, <3>4
      <4>2. \A k \in 0..j' : k <= high' => buf'[k] = 0
        <5>1. \A k \in 0..j' : k \in 0..j /\ k # j /\ k \in 0..(size - 1)
          BY <2>7, <3>4
        <5>2. \A k \in 0..(size - 1) : k # j => buf'[k] = buf[k]
          BY <2>7, <3>1
        <5> QED
          BY <3>1, <5>1, <5>2
      <4> QED
        BY <3>1, <3>2, <3>4, <4>1, <4>2
    <3> QED
      BY <3>1, <3>3, <3>4
  <2>5. CASE EndDigits
    <3>1. /\ i' = i + 1 /\ high' = j /\ pc' = "outer"
          /\ bin' = bin /\ zcount' = zcount /\ size' = size /\ buf' = buf
      BY <2>5 DEF EndDigits
    <3>2. CASE pc = "inner" /\ ~GoesOn
      <4>1. carry = 0 /\ j <= high
        BY <2>7, <3>2 DEF GoesOn
      <4>2. \A k \in 0..j : buf[k] = 0
        <5>1. \A k \in 0..j : k <= high
          BY <2>7, <4>1
        <5> QED
          BY <3>2, <5>1
      <4>3. Low(buf, size)[size] = Worth(bin, i + 1)
        BY <2>7, <3>2, <4>1, <4>2, BreakKeepsWeight
      <4>4. \A k \in 1..j : k \in 0..j
        OBVIOUS
      <4>5. Unreached(buf', 1, high')
        BY <3>1, <4>2, <4>4 DEF Unreached
      <4> QED
        BY <2>7, <3>1, <3>2, <4>3, <4>5
    <3>3. CASE pc = "end"
      <4>1. i < Len(bin) /\ j = 0
        BY <3>3 DEF EncInv
      <4>2. Worth(bin, i + 1) + 1 <= Power58[size]
        <5>1. i + 1 \in Nat /\ zcount <= i + 1 /\ i + 1 <= Len(bin)
          BY <2>7, <3>3, <4>1
        <5> QED
          BY <2>7, <3>3, <5>1, WorthFits
      <4>3. Low(buf, size)[size] = Worth(bin, i + 1)
        BY <2>7, <3>3, <4>2, NothingIsCarriedOut
      <4>4. Unreached(buf', 1, high')
        BY <3>1, <4>1 DEF Unreached
      <4> QED
        BY <2>7, <3>1, <3>3, <4>3, <4>4
    <3> QED
      BY <2>5, <3>2, <3>3 DEF EndDigits
  <2>6. CASE UNCHANGED encVars
    BY <2>6 DEF encVars
  <2> QED
    BY <2>1, <2>2, <2>3, <2>4, <2>5, <2>6 DEF EncNext
<1> QED
  BY <1>1, <1>2, PTL DEF EncSpec

----------------------------------------------------------------------------
(* What is read from the invariant.  A text is z zeros and the digits from *)
(* digit f of the m there are: with f = 0 it is AllDigits.                 *)
IsTextFrom(t, z, d, m, f) ==
    t = [k \in 1..(z + m - f) |-> IF k <= z THEN 0 ELSE d[f + k - z - 1]]

LEMMA ZerosAreWorthNothing ==
  ASSUME NEW s, IsText(s), NEW z \in Nat, Zeros(s, z)
  PROVE  Horner(s, 58)[z] = 0
<1>1. 58 \in Nat
  OBVIOUS
<1> QED
  BY <1>1, HornerZeros DEF IsText, Zeros

(* Such a text is worth what the digits are, and its first letters are the *)
(* zeros.                                                                  *)
LEMMA ValueOfText ==
  ASSUME NEW z \in Nat, NEW m \in Nat, NEW d \in [0..(m - 1) -> 0..57],
         NEW f \in 0..m, Unreached(d, 0, f - 1), NEW t, IsTextFrom(t, z, d, m, f)
  PROVE  /\ DOMAIN t = 1..(z + m - f) /\ Len(t) = z + m - f /\ Len(t) \in Nat
         /\ \A k \in 1..z : t[k] = 0
         /\ f < m => t[z + 1] = d[f]
         /\ Value(t, 58) = Low(d, m)[m] % Prime
<1> USE DEF Unreached
<1> DEFINE N == z + m - f
<1>1. N \in Nat /\ z <= N
  OBVIOUS
<1>2. /\ DOMAIN t = 1..N
      /\ \A k \in 1..N : t[k] = IF k <= z THEN 0 ELSE d[f + k - z - 1]
  BY DEF IsTextFrom
<1>3. ASSUME NEW k \in 1..N
      PROVE  /\ k <= z => t[k] = 0
             /\ k > z => f + k - z - 1 \in 0..(m - 1) /\ t[k] = d[f + k - z - 1]
             /\ t[k] \in Nat
  <2>1. k <= z => t[k] = 0
    BY <1>2
  <2>2. k > z => f + k - z - 1 \in 0..(m - 1) /\ t[k] = d[f + k - z - 1]
    BY <1>2
  <2>3. \A y \in 0..(m - 1) : d[y] \in Nat
    BY DigitsAreNat, Zenon
  <2>4. k <= z \/ k > z
    OBVIOUS
  <2>5. 0 \in Nat
    OBVIOUS
  <2>6. t[k] \in Nat
    BY <2>1, <2>2, <2>3, <2>4, <2>5, Zenon
  <2> QED
    BY <2>1, <2>2, <2>6
<1>4. Len(t) = N
  BY <1>1, <1>2, <1>3 DEF IsTextFrom
<1> HIDE DEF N
<1>5. Value(t, 58) = Horner(t, 58)[N] % Prime
  <2>1. Len(t) \in Nat /\ DOMAIN t = 1..Len(t) /\ \A k \in 1..Len(t) : t[k] \in Nat
    BY <1>1, <1>2, <1>3, <1>4
  <2>2. 58 \in {58, 256}
    OBVIOUS
  <2> QED
    BY <1>4, <2>1, <2>2, ValueIsExact
(* All digits of the buffer, read from the front.                          *)
<1> DEFINE s == [k \in 1..(z + m) |-> IF k <= z THEN 0 ELSE d[k - z - 1]]
<1>6. \A l \in Nat : l < z => At(s, l + 1) = 0
  <2> SUFFICES ASSUME NEW l \in Nat, l < z PROVE At(s, l + 1) = 0
    OBVIOUS
  <2>1. l + 1 \in 1..(z + m) /\ l + 1 <= z
    OBVIOUS
  <2> QED
    BY <2>1 DEF At
<1>7. \A l \in Nat : l < m => At(s, z + l + 1) = At(d, l)
  <2> SUFFICES ASSUME NEW l \in Nat, l < m PROVE At(s, z + l + 1) = At(d, l)
    OBVIOUS
  <2>1. z + l + 1 \in 1..(z + m) /\ ~(z + l + 1 <= z) /\ (z + l + 1) - z - 1 = l /\ l \in 0..(m - 1)
    OBVIOUS
  <2>2. At(s, z + l + 1) = d[l]
    BY <2>1 DEF At
  <2>3. At(d, l) = d[l]
    BY <2>1, DigitsAreNat, Zenon
  <2> QED
    BY <2>2, <2>3
<1>8. \A n \in Nat : At(s, n) \in Nat
  <2> SUFFICES ASSUME NEW n \in Nat PROVE At(s, n) \in Nat
    OBVIOUS
  <2>1. CASE n \in 1..(z + m) /\ n <= z
    BY <2>1 DEF At
  <2>2. CASE n \in 1..(z + m) /\ ~(n <= z)
    <3>1. n - z - 1 \in 0..(m - 1)
      BY <2>2
    <3>2. At(s, n) = d[n - z - 1]
      BY <2>2 DEF At
    <3>3. d[n - z - 1] \in Nat
      BY <3>1, DigitsAreNat, Zenon
    <3> QED
      BY <3>2, <3>3
  <2>3. CASE n \notin 1..(z + m)
    BY <2>3 DEF At
  <2> QED
    BY <2>1, <2>2, <2>3
<1>9. \A n \in Nat : At(t, n) \in Nat
  <2> SUFFICES ASSUME NEW n \in Nat PROVE At(t, n) \in Nat
    OBVIOUS
  <2>1. CASE n \in 1..N
    <3>1. t[n] \in Nat
      BY <1>3, <2>1
    <3> QED
      BY <1>2, <2>1, <3>1 DEF At
  <2>2. CASE n \notin 1..N
    <3>1. At(t, n) = 0
      BY <1>2, <2>2 DEF At
    <3> QED
      BY <3>1
  <2> QED
    BY <2>1, <2>2
<1> HIDE DEF s
<1>10. Horner(s, 58)[z + m] = Low(d, m)[m]
  <2>1. IsDigits(d)
    BY BufferIsDigits
  <2>2. IsText(s) /\ Zeros(s, z) /\ Holds(s, z, d, m)
    BY <1>6, <1>7, <1>8, Zenon DEF IsText, Zeros, Holds
  <2> QED
    BY <2>1, <2>2, HornerOfBuffer
<1>11. Horner(t, 58)[z] = 0
  <2>1. \A l \in Nat : l < z => At(t, l + 1) = 0
    <3> SUFFICES ASSUME NEW l \in Nat, l < z PROVE At(t, l + 1) = 0
      OBVIOUS
    <3>1. l + 1 \in 1..N /\ l + 1 <= z
      BY <1>1
    <3>2. t[l + 1] = 0
      BY <1>3, <3>1
    <3> QED
      BY <1>2, <3>1, <3>2 DEF At
  <2>2. IsText(t) /\ Zeros(t, z)
    BY <1>9, <2>1, Zenon DEF IsText, Zeros
  <2> QED
    BY <2>2, ZerosAreWorthNothing
<1>12. Horner(s, 58)[z + f] = 0
  <2>1. \A l \in Nat : l < z + f => At(s, l + 1) = 0
    <3> SUFFICES ASSUME NEW l \in Nat, l < z + f PROVE At(s, l + 1) = 0
      OBVIOUS
    <3>1. CASE l < z
      BY <1>6, <3>1
    <3>2. CASE ~(l < z)
      <4>1. l - z \in Nat /\ l - z < m /\ z + (l - z) + 1 = l + 1 /\ l - z \in 0..(f - 1)
            /\ l - z \in 0..(m - 1)
        BY <3>2
      <4>2. At(s, l + 1) = At(d, l - z)
        BY <1>7, <4>1
      <4>3. At(d, l - z) = d[l - z]
        BY <4>1, DigitsAreNat, Zenon
      <4>4. d[l - z] = 0
        BY <4>1
      <4> QED
        BY <4>2, <4>3, <4>4
    <3> QED
      BY <3>1, <3>2
  <2>2. IsText(s) /\ Zeros(s, z + f) /\ z + f \in Nat
    BY <1>8, <2>1 DEF IsText, Zeros
  <2> QED
    BY <2>2, ZerosAreWorthNothing
<1>13. Horner(t, 58)[z + (m - f)] = Horner(s, 58)[(z + f) + (m - f)]
  <2>1. 58 \in Nat /\ z + f \in Nat /\ m - f \in Nat
    OBVIOUS
  <2>2. \A l \in Nat : l < m - f => At(t, z + l + 1) = At(s, (z + f) + l + 1)
    <3> SUFFICES ASSUME NEW l \in Nat, l < m - f
                 PROVE  At(t, z + l + 1) = At(s, (z + f) + l + 1)
      OBVIOUS
    <3>1. /\ z + l + 1 \in 1..N /\ z + l + 1 > z /\ f + (z + l + 1) - z - 1 = f + l
          /\ f + l \in Nat /\ f + l < m /\ z + (f + l) + 1 = (z + f) + l + 1
          /\ f + l \in 0..(m - 1)
      BY DEF N
    <3>2. At(t, z + l + 1) = d[f + l]
      <4>1. t[z + l + 1] = d[f + l]
        BY <1>3, <3>1
      <4> QED
        BY <1>2, <3>1, <4>1 DEF At
    <3>3. At(s, (z + f) + l + 1) = At(d, f + l)
      BY <1>7, <3>1
    <3>4. At(d, f + l) = d[f + l]
      BY <3>1, DigitsAreNat, Zenon
    <3> QED
      BY <3>2, <3>3, <3>4
  <2>3. Horner(t, 58)[z] = Horner(s, 58)[z + f]
    BY <1>11, <1>12
  <2>4. IsText(t) /\ IsText(s)
    BY <1>8, <1>9, Zenon DEF IsText
  <2>5. SameFrom(t, z, s, z + f, m - f)
    BY <2>2, Zenon DEF SameFrom
  <2> QED
    BY <2>1, <2>3, <2>4, <2>5, HornerAgrees
<1>14. z + (m - f) = N /\ (z + f) + (m - f) = z + m
  BY DEF N
<1>15. Value(t, 58) = Low(d, m)[m] % Prime
  BY <1>5, <1>10, <1>13, <1>14
<1>16. /\ DOMAIN t = 1..(z + m - f) /\ Len(t) = z + m - f /\ Len(t) \in Nat
  BY <1>1, <1>2, <1>4 DEF N
<1>17. ASSUME NEW k \in 1..z PROVE t[k] = 0
  <2>1. k \in 1..N /\ k <= z
    BY <1>1
  <2> QED
    BY <1>3, <2>1
<1>18. ASSUME f < m PROVE t[z + 1] = d[f]
  <2>1. z + 1 \in 1..N /\ z + 1 > z /\ f + (z + 1) - z - 1 = f
    BY <1>18 DEF N
  <2> QED
    BY <1>3, <2>1
<1> QED
  BY <1>15, <1>16, <1>17, <1>18

(* The number of leading zeros is the only number with its two facts.      *)
LEMMA ZerosInFront ==
  ASSUME NEW s, Len(s) \in Nat, NEW z \in 0..Len(s), \A k \in 1..z : s[k] = 0,
         z < Len(s) => s[z + 1] # 0
  PROVE  LeadingZeros(s) = z
<1> DEFINE In(n) == /\ \A k \in 1..n : s[k] = 0
                    /\ n < Len(s) => s[n + 1] # 0
           y == LeadingZeros(s)
<1>1. In(z)
  OBVIOUS
<1>2. y \in 0..Len(s) /\ In(y)
  BY <1>1 DEF LeadingZeros
<1> HIDE DEF y
<1>3. ~(y < z)
  <2> SUFFICES ASSUME y < z PROVE FALSE
    OBVIOUS
  <2>1. y + 1 \in 1..z /\ y < Len(s)
    BY <1>2
  <2> QED
    BY <1>2, <2>1
<1>4. ~(z < y)
  <2> SUFFICES ASSUME z < y PROVE FALSE
    OBVIOUS
  <2>1. z + 1 \in 1..y /\ z < Len(s)
    BY <1>2
  <2> QED
    BY <1>2, <2>1
<1>5. y \in Nat /\ z \in Nat
  BY <1>2
<1>6. y = z
  BY <1>3, <1>4, <1>5
<1> QED
  BY <1>6 DEF y

(* What the bytes so far are worth, as the properties compute it.          *)
LEMMA ValueOfBytes ==
  ASSUME NEW s \in Seq(0..255), NEW n \in 0..Len(s)
  PROVE  Value(SubSeq(s, 1, n), 256) = Worth(s, n) % Prime
<1> DEFINE t == SubSeq(s, 1, n)
<1>1. Len(s) \in Nat /\ n \in Nat /\ n <= Len(s)
  OBVIOUS
<1>2. t \in Seq(0..255) /\ Len(t) = n /\ \A k \in 1..n : t[k] = s[k]
  <2>1. 1 \in Int /\ n \in Int /\ \A k \in 1..n : k \in 1..Len(s)
    BY <1>1
  <2>2. \A k \in 1..n : s[k] \in 0..255
    BY <2>1, ElementOfSeq
  <2>3. /\ n - 1 + 1 = n /\ \A k \in 1..n : 1 + k - 1 = k
        /\ n < 1 => n = 0
    BY <1>1
  <2>4. /\ t \in Seq(0..255) /\ Len(t) = IF 1 <= n THEN n - 1 + 1 ELSE 0
        /\ \A k \in 1..(n - 1 + 1) : t[k] = s[1 + k - 1]
    BY <2>1, <2>2, SubSeqProperties
  <2> HIDE DEF t
  <2> QED
    BY <1>1, <2>3, <2>4
<1> HIDE DEF t
<1>3. IsText(s) /\ IsText(t)
  BY <1>2, BytesAt DEF IsText
<1>4. SameFrom(t, 0, s, 0, n)
  <2> SUFFICES ASSUME NEW l \in Nat, l < n PROVE At(t, 0 + l + 1) = At(s, 0 + l + 1)
    BY DEF SameFrom
  <2>1. 0 + l + 1 \in 1..n /\ 0 + l + 1 \in 1..Len(s)
    BY <1>1
  <2>2. At(t, 0 + l + 1) = t[0 + l + 1]
    BY <1>2, <2>1, BytesAt
  <2>3. At(s, 0 + l + 1) = s[0 + l + 1]
    BY <2>1, BytesAt
  <2> QED
    BY <1>2, <2>1, <2>2, <2>3
<1>5. 256 \in Nat /\ 0 \in Nat /\ 0 + n = n /\ 256 \in {58, 256}
  OBVIOUS
<1>6. Horner(t, 256)[0] = Horner(s, 256)[0]
  <2>1. IsHorner(Horner(t, 256), t, 256)
    BY <1>3, <1>5, HornerSteps, Zenon
  <2>2. IsHorner(Horner(s, 256), s, 256)
    BY <1>3, <1>5, HornerSteps, Zenon
  <2> QED
    BY <2>1, <2>2 DEF IsHorner
<1>7. Horner(t, 256)[0 + n] = Horner(s, 256)[0 + n]
  BY <1>1, <1>3, <1>4, <1>5, <1>6, HornerAgrees
<1>8. Len(t) \in Nat /\ DOMAIN t = 1..Len(t) /\ \A k \in 1..Len(t) : t[k] \in Nat
  <2>1. Len(t) \in Nat /\ DOMAIN t = 1..Len(t)
    BY <1>2
  <2>2. \A k \in 1..Len(t) : t[k] \in 0..255
    BY <1>2, ElementOfSeq
  <2>3. \A y \in 0..255 : y \in Nat
    OBVIOUS
  <2> QED
    BY <2>1, <2>2, <2>3, Zenon
<1>9. Value(t, 256) = Horner(t, 256)[n] % Prime
  BY <1>2, <1>5, <1>8, ValueIsExact
<1>10. Horner(t, 256)[n] = Worth(s, n)
  BY <1>5, <1>7 DEF Worth
<1> QED
  BY <1>9, <1>10 DEF t

(* The digits that the text leaves out end somewhere.                      *)
LEMMA FirstDigitExists ==
  ASSUME NEW m \in Nat, NEW d
  PROVE  \E n \in 0..m : (\A k \in 0..(n - 1) : d[k] = 0) /\ (n < m => d[n] # 0)
<1> DEFINE T == {n \in 0..m : n < m => d[n] # 0}
<1>1. T \in SUBSET Nat /\ m \in T
  OBVIOUS
<1> HIDE DEF T
<1>2. PICK n \in T : \A k \in T : n <= k
  BY <1>1, LeastNatural
<1>3. n \in 0..m /\ (n < m => d[n] # 0)
  BY DEF T
<1>4. ASSUME NEW k \in 0..(n - 1), d[k] # 0 PROVE FALSE
  <2>1. k \in 0..m /\ k < n /\ ~(n <= k)
    BY <1>3
  <2>2. k \in T
    BY <1>4, <2>1 DEF T
  <2> QED
    BY <1>2, <2>1, <2>2
<1> QED
  BY <1>3, <1>4

(* No carry is lost: at the end of each turn of the outer loop, the digits *)
(* are worth the bytes so far.                                             *)
THEOREM DigitsKeepTheValue == EncSpec => []ValueKept
<1>1. EncInv2 => ValueKept
  <2> SUFFICES ASSUME EncInv2, pc = "outer"
               PROVE  Value(AllDigits, 58) = Value(SubSeq(bin, 1, i), 256)
    BY DEF ValueKept
  <2>1. /\ bin \in Seq(0..255) /\ i \in 0..Len(bin) /\ zcount \in Nat
        /\ size \in Nat /\ buf \in [0..(size - 1) -> 0..57]
        /\ Low(buf, size)[size] = Worth(bin, i)
    BY DEF EncInv2, EncInv, EncTypeOK
  <2>2. PICK f : f = 0
    OBVIOUS
  <2>3. Value(AllDigits, 58) = Low(buf, size)[size] % Prime
    <3>1. zcount + size - f = zcount + size /\ f \in 0..size
      BY <2>1, <2>2
    <3>2. \A k \in 1..(zcount + size) : f + k - zcount - 1 = k - zcount - 1
      BY <2>1, <2>2
    <3>3. IsTextFrom(AllDigits, zcount, buf, size, f)
      BY <3>1, <3>2 DEF AllDigits, IsTextFrom
    <3>4. Unreached(buf, 0, f - 1)
      BY <2>2 DEF Unreached
    <3> QED
      BY <2>1, <3>1, <3>3, <3>4, ValueOfText
  <2>4. Value(SubSeq(bin, 1, i), 256) = Worth(bin, i) % Prime
    BY <2>1, ValueOfBytes
  <2> QED
    BY <2>1, <2>3, <2>4
<1> QED
  BY <1>1, EncInductive, PTL

(* The text that is written at the end.                                    *)
LEMMA TextIsWritten ==
  ASSUME EncInv2, pc = "done"
  PROVE  /\ Len(Text) \in Nat /\ zcount <= Len(Text) /\ Len(Text) <= zcount + size
         /\ LeadingZeros(Text) = zcount
         /\ Value(Text, 58) = Low(buf, size)[size] % Prime
<1>1. /\ zcount \in Nat /\ size \in Nat /\ buf \in [0..(size - 1) -> 0..57]
  BY DEF EncInv2, EncInv, EncTypeOK
<1> DEFINE First(n) == (\A k \in 0..(n - 1) : buf[k] = 0) /\ (n < size => buf[n] # 0)
           f == CHOOSE n \in 0..size : First(n)
           t == [k \in 1..(zcount + size - f) |->
                    IF k <= zcount THEN 0 ELSE buf[f + k - zcount - 1]]
<1>2. f \in 0..size /\ First(f)
  <2>1. \E n \in 0..size : First(n)
    BY <1>1, FirstDigitExists
  <2> HIDE DEF First
  <2> QED
    BY <2>1, Zenon
<1>3. Text = t
  BY DEF Text
<1> HIDE DEF f
<1>4. /\ Len(t) = zcount + size - f /\ Len(t) \in Nat
      /\ \A k \in 1..zcount : t[k] = 0
      /\ f < size => t[zcount + 1] = buf[f]
      /\ Value(t, 58) = Low(buf, size)[size] % Prime
  <2>1. Unreached(buf, 0, f - 1) /\ IsTextFrom(t, zcount, buf, size, f)
    BY <1>2 DEF Unreached, IsTextFrom
  <2> HIDE DEF t
  <2>2. /\ Len(t) = zcount + size - f /\ Len(t) \in Nat
        /\ \A k \in 1..zcount : t[k] = 0
        /\ f < size => t[zcount + 1] = buf[f]
        /\ Value(t, 58) = Low(buf, size)[size] % Prime
    BY <1>1, <1>2, <2>1, ValueOfText
  <2> QED
    BY <2>2
<1> HIDE DEF t
<1>5. zcount \in 0..Len(t) /\ Len(t) <= zcount + size /\ (zcount < Len(t) => f < size)
  BY <1>1, <1>2, <1>4
<1>6. zcount < Len(t) => t[zcount + 1] # 0
  BY <1>2, <1>4, <1>5
<1>7. LeadingZeros(t) = zcount
  BY <1>4, <1>5, <1>6, ZerosInFront
<1> QED
  BY <1>3, <1>4, <1>5, <1>7

(* The text reads back to the bytes: a one for each zero byte in front,    *)
(* and the same value.                                                     *)
THEOREM TextStandsForTheBytes == EncSpec => []TextReadsBack
<1>1. EncInv2 => TextReadsBack
  <2> SUFFICES ASSUME EncInv2, pc = "done"
               PROVE  /\ Value(Text, 58) = Value(bin, 256)
                      /\ LeadingZeros(Text) = LeadingZeros(bin)
    BY DEF TextReadsBack
  <2>1. /\ bin \in Seq(0..255) /\ Len(bin) \in Nat /\ i = Len(bin) /\ zcount \in 0..Len(bin)
        /\ i \in 0..Len(bin) /\ Zeros(bin, zcount)
        /\ Low(buf, size)[size] = Worth(bin, i)
        /\ zcount < Len(bin) => bin[zcount + 1] # 0
    BY DEF EncInv2, EncInv, EncTypeOK
  <2>2. SubSeq(bin, 1, i) = bin
    BY <2>1, SubSeqFull
  <2>3. Value(bin, 256) = Worth(bin, i) % Prime
    <3>1. Value(SubSeq(bin, 1, i), 256) = Worth(bin, i) % Prime
      BY <2>1, ValueOfBytes, Zenon
    <3> QED
      BY <2>2, <3>1, Zenon
  <2>4. LeadingZeros(bin) = zcount
    <3>1. ASSUME NEW k \in 1..zcount PROVE bin[k] = 0
      <4>1. k \in 1..Len(bin) /\ k - 1 \in Nat /\ k - 1 < zcount /\ (k - 1) + 1 = k
        BY <2>1
      <4>2. At(bin, k) = 0
        BY <2>1, <4>1 DEF Zeros
      <4>3. At(bin, k) = bin[k]
        BY <2>1, <4>1, BytesAt
      <4> QED
        BY <4>2, <4>3
    <3> QED
      BY <2>1, <3>1, ZerosInFront
  <2> QED
    BY <2>1, <2>3, <2>4, TextIsWritten
<1> QED
  BY <1>1, EncInductive, PTL

(* The text of a key of 33 bytes and its checksum fits the address.        *)
THEOREM AddressIsLongEnough == EncSpec => []WifFits
<1>1. EncInv2 => WifFits
  <2> SUFFICES ASSUME EncInv2, pc = "done", Len(bin) = 37
               PROVE  WifLength < AddressSize
    BY DEF WifFits
  <2>1. zcount \in 0..37 /\ size = SizeFor(37 - zcount)
    BY DEF EncInv2, EncInv, EncTypeOK
  <2>2. zcount + size <= 52 /\ size \in Nat
    BY <2>1 DEF SizeFor
  <2>3. Len(Text) \in Nat /\ Len(Text) <= zcount + size
    BY TextIsWritten
  <2> QED
    BY <2>1, <2>2, <2>3 DEF WifLength, AddressSize
<1> QED
  BY <1>1, EncInductive, PTL

----------------------------------------------------------------------------
(* The powers of ten and of two are.                                       *)
LEMMA TenToSteps ==
  /\ \A n \in Nat : TenTo[n] \in Nat /\ TenTo[n] >= 1 /\ TenTo[n + 1] = 10 * TenTo[n]
  /\ TenTo[0] = 1
<1> DEFINE Step(v) == [n \in Nat |-> IF n = 0 THEN 1 ELSE 10 * v[n - 1]]
           G == [p \in Nat \X Nat |-> 10 * p[2]]
<1>1. \E v : v = Step(v)
  <2>1. G \in [Nat \X Nat -> Nat] /\ \A n, v \in Nat : G[<<n, v>>] = 10 * v
    BY ProductIsNat
  <2> HIDE DEF G
  <2>2. 1 \in Nat
    OBVIOUS
  <2>3. PICK f \in [Nat -> Nat] : f[0] = 1 /\ \A n \in Nat : f[n + 1] = G[<<n, f[n]>>]
    BY <2>1, <2>2, RecursiveNumbers
  <2>4. ASSUME NEW n \in Nat PROVE f[n] = IF n = 0 THEN 1 ELSE 10 * f[n - 1]
    <3>1. CASE n = 0
      BY <2>3, <3>1
    <3>2. CASE n # 0
      <4>1. n - 1 \in Nat /\ (n - 1) + 1 = n
        BY <3>2
      <4>2. f[n] = G[<<n - 1, f[n - 1]>>] /\ f[n - 1] \in Nat
        BY <2>3, <4>1
      <4> QED
        BY <2>1, <3>2, <4>1, <4>2
    <3> QED
      BY <3>1, <3>2
  <2>5. f = Step(f)
    BY <2>4
  <2> HIDE DEF Step
  <2> QED
    BY <2>5
<1>2. TenTo = Step(TenTo)
  <2>1. TenTo = CHOOSE v : v = Step(v)
    BY DEF TenTo
  <2> HIDE DEF Step
  <2> QED
    BY <1>1, <2>1
<1>3. TenTo[0] = 1 /\ \A n \in Nat : TenTo[n + 1] = 10 * TenTo[n]
  <2>1. 0 \in Nat /\ \A n \in Nat : n + 1 \in Nat /\ n + 1 # 0 /\ (n + 1) - 1 = n
    OBVIOUS
  <2> QED
    BY <1>2, <2>1
<1> DEFINE T == {n \in Nat : TenTo[n] \in Nat /\ TenTo[n] >= 1}
<1>4. 0 \in T
  BY <1>3
<1>5. ASSUME NEW n \in Nat, n \in T PROVE n + 1 \in T
  BY <1>3, <1>5
<1> HIDE DEF T
<1>6. Nat \subseteq T
  BY <1>4, <1>5, NatSetInduction
<1> QED
  BY <1>3, <1>6 DEF T

LEMMA TwoToSteps ==
  /\ \A n \in Nat : TwoTo[n] \in Nat /\ TwoTo[n] >= 1 /\ TwoTo[n + 1] = 2 * TwoTo[n]
  /\ TwoTo[0] = 1
<1> DEFINE Step(v) == [n \in Nat |-> IF n = 0 THEN 1 ELSE 2 * v[n - 1]]
           G == [p \in Nat \X Nat |-> 2 * p[2]]
<1>1. \E v : v = Step(v)
  <2>1. G \in [Nat \X Nat -> Nat] /\ \A n, v \in Nat : G[<<n, v>>] = 2 * v
    BY ProductIsNat
  <2> HIDE DEF G
  <2>2. 1 \in Nat
    OBVIOUS
  <2>3. PICK f \in [Nat -> Nat] : f[0] = 1 /\ \A n \in Nat : f[n + 1] = G[<<n, f[n]>>]
    BY <2>1, <2>2, RecursiveNumbers
  <2>4. ASSUME NEW n \in Nat PROVE f[n] = IF n = 0 THEN 1 ELSE 2 * f[n - 1]
    <3>1. CASE n = 0
      BY <2>3, <3>1
    <3>2. CASE n # 0
      <4>1. n - 1 \in Nat /\ (n - 1) + 1 = n
        BY <3>2
      <4>2. f[n] = G[<<n - 1, f[n - 1]>>] /\ f[n - 1] \in Nat
        BY <2>3, <4>1
      <4> QED
        BY <2>1, <3>2, <4>1, <4>2
    <3> QED
      BY <3>1, <3>2
  <2>5. f = Step(f)
    BY <2>4
  <2> HIDE DEF Step
  <2> QED
    BY <2>5
<1>2. TwoTo = Step(TwoTo)
  <2>1. TwoTo = CHOOSE v : v = Step(v)
    BY DEF TwoTo
  <2> HIDE DEF Step
  <2> QED
    BY <1>1, <2>1
<1>3. TwoTo[0] = 1 /\ \A n \in Nat : TwoTo[n + 1] = 2 * TwoTo[n]
  <2>1. 0 \in Nat /\ \A n \in Nat : n + 1 \in Nat /\ n + 1 # 0 /\ (n + 1) - 1 = n
    OBVIOUS
  <2> QED
    BY <1>2, <2>1
<1> DEFINE T == {n \in Nat : TwoTo[n] \in Nat /\ TwoTo[n] >= 1}
<1>4. 0 \in T
  BY <1>3
<1>5. ASSUME NEW n \in Nat, n \in T PROVE n + 1 \in T
  BY <1>3, <1>5
<1> HIDE DEF T
<1>6. Nat \subseteq T
  BY <1>4, <1>5, NatSetInduction
<1> QED
  BY <1>3, <1>6 DEF T

LEMMA TenToGrows ==
  /\ \A n, k \in Nat : TenTo[n + k] = TenTo[n] * TenTo[k]
  /\ \A n, k \in Nat : n <= k => TenTo[n] <= TenTo[k]
  /\ \A n \in Nat : TwoTo[n] <= TenTo[n]
<1>1. ASSUME NEW n \in Nat
      PROVE  Nat \subseteq {k \in Nat : TenTo[n + k] = TenTo[n] * TenTo[k]}
  <2> DEFINE T == {k \in Nat : TenTo[n + k] = TenTo[n] * TenTo[k]}
  <2>1. 0 \in T
    BY TenToSteps
  <2>2. ASSUME NEW k \in Nat, k \in T PROVE k + 1 \in T
    <3>1. n + k \in Nat /\ n + (k + 1) = (n + k) + 1
      OBVIOUS
    <3>2. /\ TenTo[n + (k + 1)] = 10 * TenTo[n + k] /\ TenTo[k + 1] = 10 * TenTo[k]
          /\ TenTo[n + k] = TenTo[n] * TenTo[k]
      BY <2>2, <3>1, TenToSteps
    <3>3. TenTo[n] \in Nat /\ TenTo[k] \in Nat
      BY TenToSteps
    <3>4. \A a, b \in Nat : 10 * (a * b) = a * (10 * b)
      OBVIOUS
    <3> QED
      BY <3>2, <3>3, <3>4
  <2> HIDE DEF T
  <2> QED
    BY <2>1, <2>2, NatSetInduction DEF T
<1>2. ASSUME NEW n \in Nat, NEW k \in Nat, n <= k
      PROVE  TenTo[n] <= TenTo[k]
  <2>1. k - n \in Nat /\ n + (k - n) = k
    BY <1>2
  <2>2. TenTo[k] = TenTo[n] * TenTo[k - n]
    BY <1>1, <2>1
  <2>3. TenTo[n] \in Nat /\ TenTo[k - n] \in Nat /\ TenTo[k - n] >= 1
    BY <2>1, TenToSteps
  <2>4. \A a, b \in Nat : b >= 1 => a <= a * b
    OBVIOUS
  <2> QED
    BY <2>2, <2>3, <2>4
<1> DEFINE U == {n \in Nat : TwoTo[n] <= TenTo[n]}
<1>3. 0 \in U
  BY TenToSteps, TwoToSteps
<1>4. ASSUME NEW n \in Nat, n \in U PROVE n + 1 \in U
  BY <1>4, TenToSteps, TwoToSteps
<1> HIDE DEF U
<1>5. Nat \subseteq U
  BY <1>3, <1>4, NatSetInduction
<1> QED
  BY <1>1, <1>2, <1>5 DEF U

LEMMA HalfFacts ==
  /\ Width \in Nat /\ Width >= 1 /\ Half \in Nat /\ Half >= 1
  /\ 2 * Half <= TenTo[Width]
<1>1. Width \in Nat /\ Width >= 1 /\ Width - 1 \in Nat /\ (Width - 1) + 1 = Width
  BY FormatAssumption
<1>2. Half \in Nat /\ Half >= 1 /\ TwoTo[Width] = 2 * Half
  BY <1>1, TwoToSteps DEF Half
<1>3. TwoTo[Width] <= TenTo[Width]
  BY <1>1, TenToGrows
<1> QED
  BY <1>1, <1>2, <1>3

----------------------------------------------------------------------------
(* The digit of n at the place that counts for 10 to the k.                *)
Place(n, k) == (n \div TenTo[k]) % 10

LEMMA PlaceFacts ==
  ASSUME NEW n \in Nat, NEW k \in Nat
  PROVE  /\ n \div TenTo[k] \in Nat /\ n \div TenTo[k + 1] \in Nat
         /\ Place(n, k) \in 0..9 /\ Place(n, k) \in Nat
         /\ n \div TenTo[k] = 10 * (n \div TenTo[k + 1]) + Place(n, k)
<1>1. PICK q \in Nat : q = TenTo[k] /\ q >= 1 /\ TenTo[k + 1] = 10 * q
  BY TenToSteps
<1>2. PICK a \in Nat, b \in 0..(10 * q - 1) : n \div (10 * q) = a /\ n = (10 * q) * a + b
  <2>1. 10 * q \in Nat /\ 10 * q > 0
    BY <1>1
  <2> QED
    BY <2>1, Division
<1>3. PICK c \in Nat, d \in 0..(q - 1) : b \div q = c /\ b = q * c + d
  <2>1. b \in Nat /\ q > 0
    BY <1>1
  <2> QED
    BY <2>1, Division
<1>4. d \in Nat /\ d < q /\ b \in Nat /\ b < 10 * q
  BY <1>1
<1>5. c < 10
  <2> SUFFICES ASSUME c >= 10 PROVE FALSE
    OBVIOUS
  <2>1. \A x, y \in Nat : y >= 10 => x * y >= 10 * x
    OBVIOUS
  <2>2. q * c >= 10 * q /\ q * c \in Nat
    BY <2>1, ProductIsNat
  <2> QED
    BY <1>3, <1>4, <2>2
<1>6. n = q * (10 * a + c) + d
  <2>1. (10 * q) * a + q * c = q * (10 * a + c)
    OBVIOUS
  <2>2. (10 * q) * a \in Nat /\ q * c \in Nat /\ q * (10 * a + c) \in Nat
    <3>1. 10 * q \in Nat /\ 10 * a + c \in Nat
      OBVIOUS
    <3> QED
      BY <3>1, ProductIsNat
  <2> QED
    BY <1>2, <1>3, <1>4, <2>1, <2>2
<1>7. n \div q = 10 * a + c
  <2>1. 10 * a + c \in Nat /\ q > 0
    BY <1>1
  <2> QED
    BY <1>4, <1>6, <2>1, DivisionIsUnique
<1>8. (10 * a + c) % 10 = c
  <2>1. 10 \in Nat /\ 10 > 0
    OBVIOUS
  <2> QED
    BY <1>5, <2>1, DivisionIsUnique
<1>9. Place(n, k) = c
  BY <1>1, <1>7, <1>8 DEF Place
<1>10. /\ n \div TenTo[k] = 10 * a + c /\ n \div TenTo[k + 1] = a
       /\ 10 * a + c \in Nat
  BY <1>1, <1>2, <1>7
<1>11. c \in 0..9
  BY <1>5
<1> QED
  BY <1>9, <1>10, <1>11

(* A text of the digits of n on enough places is read as n.                *)
IsDigitsOf(s, n, places) ==
    Len(s) = places /\ \A k \in 1..places : s[k] = Zero + Place(n, places - k)

LEMMA DigitsAreRead ==
  ASSUME NEW s, NEW places \in Nat \ {0}, NEW n \in Nat, n < TenTo[places],
         IsDigitsOf(s, n, places)
  PROVE  Read(s) = n
<1> DEFINE N == places
           Step(v) == [k \in 0..N |->
                          IF k = 0 THEN 0
                          ELSE IF v[k - 1] < 0 \/ s[k] \notin Zero..(Zero + 9) THEN -1
                          ELSE 10 * v[k - 1] + (s[k] - Zero)]
           w == [k \in 0..N |-> n \div TenTo[N - k]]
           value == CHOOSE v : v = Step(v)
<1>1. Len(s) = N /\ N \in Nat /\ N >= 1
  BY DEF IsDigitsOf
<1>2. s # <<>>
  <2> SUFFICES ASSUME s = <<>> PROVE FALSE
    OBVIOUS
  <2>1. Len(<<>>) = 0
    OBVIOUS
  <2> QED
    BY <1>1, <2>1
<1>3. Read(s) = value[N]
  BY <1>1, <1>2 DEF Read
<1>4. n \div TenTo[N] = 0 /\ n \div TenTo[0] = n
  <2>4. PICK t \in Nat : t = TenTo[N] /\ t >= 1
    BY <1>1, TenToSteps
  <2>5. t > 0 /\ n = t * 0 + n
    BY <2>4
  <2>1. TenTo[N] \in Nat /\ TenTo[N] > 0 /\ 0 \in Nat /\ n = TenTo[N] * 0 + n
    BY <2>4, <2>5
  <2>2. n \div TenTo[N] = 0
    BY <2>1, DivisionIsUnique
  <2>3. n \div 1 = n
    OBVIOUS
  <2> QED
    BY <2>2, <2>3, TenToSteps
<1>5. \A k \in 1..N :
          /\ n \div TenTo[N - (k - 1)] \in Nat /\ s[k] \in Zero..(Zero + 9)
          /\ n \div TenTo[N - k] = 10 * (n \div TenTo[N - (k - 1)]) + (s[k] - Zero)
  <2> SUFFICES ASSUME NEW k \in 1..N
               PROVE  /\ n \div TenTo[N - (k - 1)] \in Nat /\ s[k] \in Zero..(Zero + 9)
                      /\ n \div TenTo[N - k] = 10 * (n \div TenTo[N - (k - 1)]) + (s[k] - Zero)
    OBVIOUS
  <2>1. N - k \in Nat /\ N - (k - 1) = (N - k) + 1
    BY <1>1
  <2>2. s[k] = Zero + Place(n, N - k)
    BY <1>1 DEF IsDigitsOf
  <2>3. Place(n, N - k) \in 0..9 /\ Place(n, N - k) \in Nat
        /\ n \div TenTo[(N - k) + 1] \in Nat
        /\ n \div TenTo[N - k] = 10 * (n \div TenTo[(N - k) + 1]) + Place(n, N - k)
    BY <2>1, PlaceFacts
  <2> HIDE DEF N
  <2>4. s[k] \in Zero..(Zero + 9) /\ s[k] - Zero = Place(n, N - k)
    BY <2>2, <2>3 DEF Zero
  <2> QED
    BY <2>1, <2>3, <2>4
<1>6. w = Step(w)
  <2>1. ASSUME NEW k \in 0..N
        PROVE  w[k] = IF k = 0 THEN 0
                      ELSE IF w[k - 1] < 0 \/ s[k] \notin Zero..(Zero + 9) THEN -1
                      ELSE 10 * w[k - 1] + (s[k] - Zero)
    <3>1. CASE k = 0
      <4>1. N - 0 = N
        BY <1>1
      <4> QED
        BY <1>4, <3>1, <4>1
    <3>2. CASE k # 0
      <4>1. k \in 1..N /\ k - 1 \in 0..N
        BY <1>1, <3>2
      <4>2. w[k] = n \div TenTo[N - k] /\ w[k - 1] = n \div TenTo[N - (k - 1)]
        BY <4>1
      <4>3. /\ w[k - 1] \in Nat /\ s[k] \in Zero..(Zero + 9)
            /\ w[k] = 10 * w[k - 1] + (s[k] - Zero)
        BY <1>5, <4>1, <4>2
      <4> HIDE DEF w
      <4>4. ~(w[k - 1] < 0)
        BY <4>3
      <4> QED
        BY <3>2, <4>3, <4>4, Zenon
    <3> QED
      BY <3>1, <3>2
  <2> HIDE DEF N
  <2>2. w = [k \in 0..N |-> w[k]]
    OBVIOUS
  <2> HIDE DEF w
  <2> QED
    BY <2>1, <2>2
<1>7. value = Step(value)
  <2> HIDE DEF w, Step
  <2> QED
    BY <1>6
<1> HIDE DEF value
<1> DEFINE T == {k \in Nat : k <= N => value[k] = w[k]}
<1>8. 0 \in T
  <2>1. 0 \in 0..N /\ N - 0 = N
    BY <1>1
  <2>2. value[0] = 0
    BY <1>7, <2>1
  <2>3. w[0] = 0
    BY <1>4, <2>1
  <2> QED
    BY <2>2, <2>3
<1>9. ASSUME NEW k \in Nat, k \in T PROVE k + 1 \in T
  <2> SUFFICES ASSUME k + 1 <= N PROVE value[k + 1] = w[k + 1]
    OBVIOUS
  <2>1. k <= N /\ k + 1 \in 0..N /\ k + 1 # 0 /\ (k + 1) - 1 = k
    BY <1>1
  <2>2. value[k] = w[k]
    BY <1>9, <2>1
  <2> HIDE DEF w
  <2>3. value[k + 1] = IF value[k] < 0 \/ s[k + 1] \notin Zero..(Zero + 9) THEN -1
                       ELSE 10 * value[k] + (s[k + 1] - Zero)
    BY <1>7, <2>1
  <2>4. w[k + 1] = IF w[k] < 0 \/ s[k + 1] \notin Zero..(Zero + 9) THEN -1
                   ELSE 10 * w[k] + (s[k + 1] - Zero)
    BY <1>6, <2>1
  <2> QED
    BY <2>2, <2>3, <2>4
<1>10. N \in T
  <2> HIDE DEF T
  <2>1. Nat \subseteq T
    BY <1>8, <1>9, NatSetInduction
  <2> QED
    BY <1>1, <2>1
<1>11. w[N] = n
  <2>1. N \in 0..N /\ N - N = 0
    BY <1>1
  <2> QED
    BY <1>4, <2>1
<1>12. value[N] = w[N]
  BY <1>1, <1>10
<1> QED
  BY <1>3, <1>11, <1>12

(* The loops of ui64toa: enough places, and none too many.                 *)
LEMMA DigitsOfNumber ==
  ASSUME NEW n \in Nat, n < 2 * Half
  PROVE  \E places \in Nat \ {0} :
             /\ n < TenTo[places] /\ (places = 1 \/ n >= TenTo[places - 1])
             /\ IsDigitsOf(Digits(n), n, places)
             /\ Digits(n) = [k \in 1..places |-> Zero + Place(n, places - k)]
<1> DEFINE Fits(p) == n < TenTo[p] /\ (p = 1 \/ n >= TenTo[p - 1])
           T == {p \in Nat : p >= 1 /\ n < TenTo[p]}
<1>1. Width \in T
  BY HalfFacts, TenToSteps
<1>2. PICK p \in T : \A k \in T : p <= k
  <2>1. T \in SUBSET Nat /\ T # {}
    BY <1>1
  <2> HIDE DEF T
  <2> QED
    BY <2>1, LeastNatural
<1>3. p \in 1..Width /\ Fits(p)
  <2>1. p \in Nat /\ p >= 1 /\ n < TenTo[p] /\ p <= Width
    BY <1>1, <1>2
  <2>2. ASSUME p # 1, ~(n >= TenTo[p - 1]) PROVE FALSE
    <3>1. p - 1 \in Nat /\ p - 1 >= 1 /\ ~(p <= p - 1)
      BY <2>1, <2>2
    <3>2. n < TenTo[p - 1]
      BY <2>2, <3>1, TenToSteps
    <3>3. p - 1 \in T
      BY <3>1, <3>2
    <3> HIDE DEF T
    <3> QED
      BY <1>2, <3>1, <3>3
  <2> QED
    BY <2>1, <2>2, HalfFacts
<1> DEFINE places == CHOOSE q \in 1..Width : Fits(q)
<1>4. places \in 1..Width /\ Fits(places)
  <2> HIDE DEF Fits
  <2> QED
    BY <1>3, Zenon
<1>5. Digits(n) = [k \in 1..places |-> Zero + ((n \div TenTo[places - k]) % 10)]
  BY DEF Digits
<1> HIDE DEF places
<1>6. places \in Nat \ {0}
  BY <1>4, HalfFacts
<1>7. Digits(n) = [k \in 1..places |-> Zero + Place(n, places - k)]
  BY <1>5 DEF Place
<1>8. Len(Digits(n)) = places
  BY <1>6, <1>7
<1>9. IsDigitsOf(Digits(n), n, places)
  BY <1>7, <1>8 DEF IsDigitsOf
<1> QED
  BY <1>4, <1>6, <1>7, <1>9

LEMMA NumberIsRead ==
  ASSUME NEW n \in Nat, n < 2 * Half
  PROVE  Read(Digits(n)) = n /\ Canonical(Digits(n))
<1>1. PICK p \in Nat \ {0} :
          /\ n < TenTo[p] /\ (p = 1 \/ n >= TenTo[p - 1])
          /\ IsDigitsOf(Digits(n), n, p)
  BY DigitsOfNumber
<1>2. Read(Digits(n)) = n
  BY <1>1, DigitsAreRead
<1>3. ASSUME p # 1
      PROVE  Digits(n)[1] # Zero
  <2>1. p - 1 \in Nat /\ (p - 1) + 1 = p /\ 1 \in 1..p
    BY <1>3
  <2>2. PICK t \in Nat : t = TenTo[p - 1] /\ t >= 1 /\ TenTo[p] = 10 * t
    BY <2>1, TenToSteps
  <2>3. n \div TenTo[p - 1] = 10 * (n \div TenTo[p]) + Place(n, p - 1)
    BY <2>1, PlaceFacts
  <2>4. n \div TenTo[p] = 0
    <3>1. PICK u, o \in Nat : u = TenTo[p] /\ u = 10 * t /\ o = 0
      BY <2>2
    <3>2. u > 0 /\ n < u /\ n = u * o + n
      BY <1>1, <2>2, <3>1
    <3>3. n \div u = o
      BY <3>2, DivisionIsUnique
    <3> QED
      BY <3>1, <3>3
  <2>5. n \div t # 0
    <3>1. t > 0 /\ n >= t
      BY <1>1, <1>3, <2>2
    <3>2. n \div t \in Nat /\ n % t \in 0..(t - 1) /\ n = t * (n \div t) + (n % t)
      BY <3>1, Division
    <3>3. n % t < t /\ n % t \in Nat
      BY <3>2
    <3> SUFFICES ASSUME n \div t = 0 PROVE FALSE
      OBVIOUS
    <3>4. n = n % t
      BY <3>2, <3>3
    <3> QED
      BY <3>1, <3>3, <3>4
  <2>6. Digits(n)[1] = Zero + Place(n, p - 1) /\ Place(n, p - 1) \in Nat
    BY <1>1, <2>1, PlaceFacts DEF IsDigitsOf
  <2>7. Place(n, p - 1) # 0
    BY <2>2, <2>3, <2>4, <2>5, <2>6
  <2> QED
    BY <2>6, <2>7 DEF Zero
<1>4. Len(Digits(n)) = p
  BY <1>1 DEF IsDigitsOf
<1> QED
  BY <1>2, <1>3, <1>4 DEF Canonical

(* What one step leaves.                                                   *)
FormatInv ==
    /\ field \in Fields
    /\ text # <<>> =>
           /\ field.kind = "unsigned" => text = ui64toa(field.number)
           /\ field.kind = "%d" => text = PrintSigned(field.number)
           /\ field.kind = "asset" => text = asset_to_string(field)

LEMMA FormatInductive == FormatSpec => []FormatInv
<1>1. FormatInit => FormatInv
  BY DEF FormatInit, FormatInv
<1>2. FormatInv /\ [Format]_formatVars => FormatInv'
  <2> SUFFICES ASSUME FormatInv, [Format]_formatVars PROVE FormatInv'
    OBVIOUS
  <2>1. CASE Format
    <3>1. /\ field' = field
          /\ text' = CASE field.kind = "unsigned" -> ui64toa(field.number)
                       [] field.kind = "%d" -> PrintSigned(field.number)
                       [] field.kind = "asset" -> asset_to_string(field)
      BY <2>1 DEF Format
    <3>2. /\ field.kind = "unsigned" => text' = ui64toa(field.number)
          /\ field.kind = "%d" => text' = PrintSigned(field.number)
          /\ field.kind = "asset" => text' = asset_to_string(field)
      BY <3>1
    <3> QED
      BY <3>1, <3>2 DEF FormatInv
  <2>2. CASE UNCHANGED formatVars
    BY <2>2 DEF formatVars, FormatInv
  <2> QED
    BY <2>1, <2>2
<1> QED
  BY <1>1, <1>2, PTL DEF FormatSpec

LEMMA SmallDoesNotWrap ==
  ASSUME NEW n \in Nat, n < Half
  PROVE  Wrap(n) = n
<1>1. PICK h \in Nat : h = Half /\ h >= 1
  BY HalfFacts
<1>2. n + h = (2 * h) * 0 + (n + h) /\ n + h < 2 * h /\ n + h \in Nat /\ 2 * h \in Nat /\ 2 * h > 0
  BY <1>1
<1>3. (n + h) % (2 * h) = n + h
  BY <1>2, DivisionIsUnique
<1>4. (n + h) - h = n
  OBVIOUS
<1> QED
  BY <1>1, <1>3, <1>4 DEF Wrap

(* A number on the screen is the number of the field.                      *)
THEOREM NumbersAreReadable == FormatSpec => []NumberReadsBack
<1>1. FormatInv => NumberReadsBack
  <2> SUFFICES ASSUME FormatInv, text # <<>>,
                      field.kind = "unsigned" \/ (field.kind = "%d" /\ field.number < Half)
               PROVE  Read(text) = field.number /\ Canonical(text)
    BY DEF NumberReadsBack
  <2>1. field.number \in Nat /\ field.number < 2 * Half
    <3>1. field.number \in Unsigned
      BY FormatAssumption DEF FormatInv
    <3> QED
      BY <3>1, HalfFacts DEF Unsigned
  <2>2. CASE field.kind = "unsigned"
    <3>1. text = Digits(field.number)
      BY <2>2 DEF FormatInv, ui64toa
    <3> QED
      BY <2>1, <3>1, NumberIsRead
  <2>3. CASE field.kind = "%d" /\ field.number < Half
    <3>1. Wrap(field.number) = field.number
      BY <2>1, <2>3, SmallDoesNotWrap
    <3>2. text = PrintSigned(field.number)
      BY <2>3 DEF FormatInv
    <3>3. ~(field.number < 0)
      BY <2>1
    <3>4. text = Digits(field.number)
      BY <3>1, <3>2, <3>3 DEF PrintSigned
    <3> QED
      BY <2>1, <3>4, NumberIsRead
  <2> QED
    BY <2>2, <2>3
<1> QED
  BY <1>1, FormatInductive, PTL

----------------------------------------------------------------------------
(* Ten to the precision, as the loop of asset_to_string computes it, is    *)
(* that power when no product wraps.                                       *)
LEMMA WrapIsInt == \A n \in Int : Wrap(n) \in Int
<1> SUFFICES ASSUME NEW n \in Int PROVE Wrap(n) \in Int
  OBVIOUS
<1>1. PICK h \in Nat : h = Half /\ h >= 1
  BY HalfFacts
<1>2. n + h \in Int /\ 2 * h \in Nat /\ 2 * h > 0
  BY <1>1
<1>3. (n + h) % (2 * h) \in Int
  BY <1>2
<1> QED
  BY <1>1, <1>3 DEF Wrap

LEMMA PowerOfTenSteps ==
  PowerOfTen[0] = 1 /\ \A n \in Nat : PowerOfTen[n + 1] = Wrap(PowerOfTen[n] * 10)
<1> DEFINE Step(v) == [n \in Nat |-> IF n = 0 THEN 1 ELSE Wrap(v[n - 1] * 10)]
           G == [p \in Nat \X Int |-> Wrap(p[2] * 10)]
<1>1. \E v : v = Step(v)
  <2>1. G \in [Nat \X Int -> Int] /\ \A n \in Nat, v \in Int : G[<<n, v>>] = Wrap(v * 10)
    BY WrapIsInt
  <2> HIDE DEF G
  <2>2. 1 \in Int
    OBVIOUS
  <2>3. PICK f \in [Nat -> Int] : f[0] = 1 /\ \A n \in Nat : f[n + 1] = G[<<n, f[n]>>]
    BY <2>1, <2>2, RecursiveIntegers
  <2>4. ASSUME NEW n \in Nat PROVE f[n] = IF n = 0 THEN 1 ELSE Wrap(f[n - 1] * 10)
    <3>1. CASE n = 0
      BY <2>3, <3>1
    <3>2. CASE n # 0
      <4>1. n - 1 \in Nat /\ (n - 1) + 1 = n
        BY <3>2
      <4>2. f[n] = G[<<n - 1, f[n - 1]>>] /\ f[n - 1] \in Int
        BY <2>3, <4>1
      <4> QED
        BY <2>1, <3>2, <4>1, <4>2
    <3> QED
      BY <3>1, <3>2
  <2>5. f = Step(f)
    BY <2>4
  <2> HIDE DEF Step
  <2> QED
    BY <2>5
<1>2. PowerOfTen = Step(PowerOfTen)
  <2>1. PowerOfTen = CHOOSE v : v = Step(v)
    BY DEF PowerOfTen
  <2> HIDE DEF Step
  <2> QED
    BY <1>1, <2>1
<1>3. 0 \in Nat /\ \A n \in Nat : n + 1 \in Nat /\ n + 1 # 0 /\ (n + 1) - 1 = n
  OBVIOUS
<1> QED
  BY <1>2, <1>3

LEMMA PowerOfTenIs ==
  ASSUME NEW p \in Nat, TenTo[p] < Half
  PROVE  PowerOfTen[p] = TenTo[p]
<1> DEFINE T == {k \in Nat : k <= p => PowerOfTen[k] = TenTo[k]}
<1>1. 0 \in T
  BY PowerOfTenSteps, TenToSteps
<1>2. ASSUME NEW k \in Nat, k \in T PROVE k + 1 \in T
  <2> SUFFICES ASSUME k + 1 <= p PROVE PowerOfTen[k + 1] = TenTo[k + 1]
    OBVIOUS
  <2>1. PowerOfTen[k] = TenTo[k] /\ k + 1 \in Nat
    BY <1>2
  <2>2. PICK t, u, v \in Nat : t = TenTo[k] /\ u = TenTo[k + 1] /\ v = TenTo[p] /\ u = t * 10
    <3>1. /\ TenTo[k] \in Nat /\ TenTo[k + 1] \in Nat /\ TenTo[p] \in Nat
          /\ TenTo[k + 1] = TenTo[k] * 10
      BY <2>1, TenToSteps
    <3> QED
      BY <3>1, Zenon
  <2>3. u <= v
    BY <2>1, <2>2, TenToGrows
  <2>4. u < Half
    BY <2>2, <2>3, HalfFacts
  <2>5. Wrap(u) = u
    BY <2>4, SmallDoesNotWrap
  <2>6. PowerOfTen[k + 1] = Wrap(t * 10)
    BY <2>1, <2>2, PowerOfTenSteps
  <2> QED
    BY <2>2, <2>5, <2>6
<1> HIDE DEF T
<1>3. Nat \subseteq T
  BY <1>1, <1>2, NatSetInduction
<1> QED
  BY <1>3 DEF T

(* The loop that fills the fraction from its last place.                   *)
LEMMA DigitByDivision ==
  ASSUME NEW n \in Nat, NEW k \in Nat
  PROVE  /\ Quotient(n \div TenTo[k], 10) = n \div TenTo[k + 1]
         /\ Remainder(n \div TenTo[k], 10) = Place(n, k)
<1>1. PICK a, b, c, ten \in Nat :
          /\ a = n \div TenTo[k] /\ b = n \div TenTo[k + 1] /\ c = Place(n, k)
          /\ ten = 10 /\ a = ten * b + c /\ c < ten
  <2>1. /\ n \div TenTo[k] \in Nat /\ n \div TenTo[k + 1] \in Nat
        /\ Place(n, k) \in 0..9 /\ Place(n, k) \in Nat
        /\ n \div TenTo[k] = 10 * (n \div TenTo[k + 1]) + Place(n, k)
    BY PlaceFacts
  <2>2. Place(n, k) < 10 /\ 10 \in Nat
    BY <2>1
  <2> QED
    BY <2>1, <2>2, Zenon
<1>2. a \div ten = b
  BY <1>1, DivisionIsUnique
<1>3. Quotient(a, ten) = a \div ten
  <2>1. ~(a < 0) /\ ~(ten < 0)
    OBVIOUS
  <2> QED
    BY <2>1 DEF Quotient, Abs
<1>4. Remainder(a, ten) = a - ten * b
  BY <1>2, <1>3 DEF Remainder
<1>5. ten * b \in Nat
  BY ProductIsNat
<1>6. Remainder(a, ten) = c
  BY <1>1, <1>4, <1>5
<1> QED
  BY <1>1, <1>2, <1>3, <1>6

LEMMA FractionIs ==
  ASSUME NEW n \in Nat, NEW p \in Nat
  PROVE  Fraction(n, p) = [k \in 1..p |-> Zero + Place(n, p - k)]
<1> DEFINE Step(v) == [k \in 0..p |-> IF k = p THEN n ELSE Quotient(v[k + 1], 10)]
           w == [k \in 0..p |-> n \div TenTo[p - k]]
           rest == CHOOSE v : v = Step(v)
<1>1. Fraction(n, p) = [k \in 1..p |-> Zero + Remainder(rest[k], 10)]
  BY DEF Fraction
<1>2. n \div TenTo[0] = n
  <2>1. n \div 1 = n
    OBVIOUS
  <2> QED
    BY <2>1, TenToSteps
<1>3. w = Step(w)
  <2>1. ASSUME NEW k \in 0..p
        PROVE  n \div TenTo[p - k] = IF k = p THEN n ELSE Quotient(w[k + 1], 10)
    <3>1. CASE k = p
      <4>1. p - k = 0
        BY <3>1
      <4> QED
        BY <1>2, <3>1, <4>1
    <3>2. CASE k # p
      <4>1. k + 1 \in 0..p /\ p - (k + 1) \in Nat /\ p - k = (p - (k + 1)) + 1
        BY <3>2
      <4>2. Quotient(n \div TenTo[p - (k + 1)], 10) = n \div TenTo[p - k]
        BY <4>1, DigitByDivision
      <4>3. w[k + 1] = n \div TenTo[p - (k + 1)]
        BY <4>1
      <4> QED
        BY <3>2, <4>2, <4>3
    <3> QED
      BY <3>1, <3>2
  <2> QED
    BY <2>1
<1>4. rest = Step(rest)
  <2> HIDE DEF w, Step
  <2> QED
    BY <1>3
<1> HIDE DEF rest
<1> DEFINE T == {lo \in Nat : lo <= p => rest[p - lo] = w[p - lo]}
<1>5. 0 \in T
  <2>1. p - 0 = p /\ p \in 0..p /\ p - p = 0
    OBVIOUS
  <2>2. rest[p] = n
    BY <1>4, <2>1
  <2>3. w[p] = n
    BY <1>2, <2>1
  <2> QED
    BY <2>1, <2>2, <2>3
<1>6. ASSUME NEW lo \in Nat, lo \in T PROVE lo + 1 \in T
  <2> SUFFICES ASSUME lo + 1 <= p PROVE rest[p - (lo + 1)] = w[p - (lo + 1)]
    OBVIOUS
  <2>1. lo <= p /\ p - (lo + 1) \in 0..p /\ p - (lo + 1) # p /\ (p - (lo + 1)) + 1 = p - lo
    OBVIOUS
  <2>2. rest[p - lo] = w[p - lo]
    BY <1>6, <2>1
  <2> HIDE DEF w
  <2>3. rest[p - (lo + 1)] = Quotient(rest[p - lo], 10)
    BY <1>4, <2>1
  <2>4. w[p - (lo + 1)] = Quotient(w[p - lo], 10)
    BY <1>3, <2>1
  <2> QED
    BY <2>2, <2>3, <2>4
<1>7. Nat \subseteq T
  <2> HIDE DEF T
  <2> QED
    BY <1>5, <1>6, NatSetInduction
<1>8. ASSUME NEW k \in 1..p PROVE Remainder(rest[k], 10) = Place(n, p - k)
  <2>1. p - k \in Nat /\ p - k <= p /\ p - (p - k) = k /\ k \in 0..p
    OBVIOUS
  <2>2. rest[k] = w[k]
    BY <1>7, <2>1
  <2>3. w[k] = n \div TenTo[p - k]
    BY <2>1
  <2> HIDE DEF w
  <2> QED
    BY <2>1, <2>2, <2>3, DigitByDivision
<1> QED
  BY <1>1, <1>8

(* The digits of a number are those of its quotient by a power of ten,     *)
(* then those of the remainder.                                            *)
Splits(n, t) ==
    \E q, r \in Nat : n \div t = q /\ n % t = r /\ r < t /\ n = t * q + r /\ q <= n

LEMMA SplitFacts ==
  ASSUME NEW n \in Nat, NEW t \in Nat, t >= 1
  PROVE  Splits(n, t)
<1>1. PICK q, r \in Nat : n \div t = q /\ n % t = r /\ r < t /\ n = t * q + r
  <2>1. n \div t \in Nat /\ n % t \in 0..(t - 1) /\ n = t * (n \div t) + (n % t)
    BY Division
  <2>2. n % t \in Nat /\ n % t < t
    BY <2>1
  <2> QED
    BY <2>1, <2>2, Zenon
<1>2. \A a, c \in Nat : c >= 1 => a <= c * a
  OBVIOUS
<1>3. q <= t * q /\ t * q \in Nat
  BY <1>2, ProductIsNat
<1>4. q <= n
  BY <1>1, <1>3
<1> QED
  BY <1>1, <1>4 DEF Splits

LEMMA HighDigits ==
  ASSUME NEW n \in Nat, NEW p \in Nat, NEW lo \in Nat
  PROVE  Place(n, p + lo) = Place(n \div TenTo[p], lo)
<1>1. PICK t, u, v \in Nat :
          t = TenTo[p] /\ u = TenTo[lo] /\ v = TenTo[p + lo] /\ v = t * u /\ t >= 1 /\ u >= 1
  <2>1. p + lo \in Nat
    OBVIOUS
  <2>2. TenTo[p] \in Nat /\ TenTo[lo] \in Nat /\ TenTo[p] >= 1 /\ TenTo[lo] >= 1
    BY TenToSteps
  <2>3. TenTo[p + lo] \in Nat
    BY <2>1, TenToSteps
  <2>4. TenTo[p + lo] = TenTo[p] * TenTo[lo]
    BY TenToGrows
  <2> QED
    BY <2>2, <2>3, <2>4, Zenon
<1>2. PICK a, b \in Nat : n \div t = a /\ b < t /\ n = t * a + b
  <2>1. Splits(n, t)
    BY <1>1, SplitFacts
  <2> QED
    BY <2>1 DEF Splits
<1>3. PICK c, d \in Nat : a \div u = c /\ d < u /\ a = u * c + d
  <2>1. Splits(a, u)
    BY <1>1, SplitFacts
  <2> QED
    BY <2>1 DEF Splits
<1>4. n = v * c + (t * d + b)
  <2>1. t * (u * c + d) = (t * u) * c + t * d
    OBVIOUS
  <2>2. t * a = v * c + t * d
    BY <1>1, <1>3, <2>1
  <2>3. t * a \in Nat /\ v * c \in Nat /\ t * d \in Nat
    BY ProductIsNat
  <2> QED
    BY <1>2, <2>2, <2>3
<1>5. t * d + b < v /\ t * d + b \in Nat /\ v > 0
  <2>1. t * (d + 1) = t * d + t
    OBVIOUS
  <2>2. \A x, y, z \in Nat : y <= z => x * y <= x * z
    OBVIOUS
  <2>3. d + 1 \in Nat /\ d + 1 <= u
    BY <1>3
  <2>4. t * (d + 1) <= t * u
    BY <2>2, <2>3
  <2>5. t * d \in Nat /\ t * u \in Nat /\ t * (d + 1) \in Nat
    BY <2>3, ProductIsNat
  <2> QED
    BY <1>1, <1>2, <2>1, <2>4, <2>5
<1>6. n \div v = c
  BY <1>4, <1>5, DivisionIsUnique
<1> QED
  BY <1>1, <1>2, <1>3, <1>6 DEF Place

LEMMA LowDigits ==
  ASSUME NEW n \in Nat, NEW p \in Nat, NEW lo \in Nat, lo < p
  PROVE  Place(n, lo) = Place(n % TenTo[p], lo)
<1>1. PICK at \in Nat : p = lo + (at + 1)
  <2>1. p - (lo + 1) \in Nat /\ p = lo + ((p - (lo + 1)) + 1)
    OBVIOUS
  <2> QED
    BY <2>1
<1>2. PICK t, u, v, ten \in Nat :
          /\ t = TenTo[p] /\ u = TenTo[lo] /\ v = TenTo[at] /\ t = u * (ten * v)
          /\ u >= 1 /\ ten = 10 /\ t >= 1
  <2>1. /\ TenTo[p] \in Nat /\ TenTo[lo] \in Nat /\ TenTo[at] \in Nat
        /\ TenTo[lo] >= 1 /\ TenTo[p] >= 1
        /\ TenTo[at + 1] = 10 * TenTo[at]
    BY TenToSteps
  <2>2. TenTo[p] = TenTo[lo] * TenTo[at + 1]
    <3>1. at + 1 \in Nat
      OBVIOUS
    <3> QED
      BY <1>1, <3>1, TenToGrows
  <2>3. TenTo[p] = TenTo[lo] * (10 * TenTo[at]) /\ 10 \in Nat
    BY <2>1, <2>2
  <2> QED
    BY <2>1, <2>3, Zenon
<1>3. PICK q, r \in Nat : n = t * q + r /\ n % t = r
  <2>1. Splits(n, t)
    BY <1>2, SplitFacts
  <2> QED
    BY <2>1 DEF Splits
<1>4. PICK a, b \in Nat : r \div u = a /\ b < u /\ r = u * a + b
  <2>1. Splits(r, u)
    BY <1>2, SplitFacts
  <2> QED
    BY <2>1 DEF Splits
<1> DEFINE w == ten * (v * q) + a
<1>5. w \in Nat /\ v * q \in Nat
  BY ProductIsNat
<1>6. n = u * w + b
  <2>1. (u * (ten * v)) * q + (u * a + b) = u * (ten * (v * q) + a) + b
    <3>1. \A x, y, z, s, c \in Nat : (x * (y * z)) * s + (x * c) = x * (y * (z * s) + c)
      OBVIOUS
    <3>2. (u * (ten * v)) * q + (u * a) = u * (ten * (v * q) + a)
      BY <3>1
    <3>3. (u * (ten * v)) * q \in Nat /\ u * a \in Nat
      BY ProductIsNat
    <3> QED
      BY <1>5, <3>2, <3>3
  <2> QED
    BY <1>2, <1>3, <1>4, <2>1
<1>7. n \div u = w
  <2> HIDE DEF w
  <2>1. u > 0
    BY <1>2
  <2> QED
    BY <1>4, <1>5, <1>6, <2>1, DivisionIsUnique
<1>8. w % ten = a % ten
  BY <1>2, <1>5, MultiplesVanish
<1> HIDE DEF w
<1> QED
  BY <1>2, <1>3, <1>4, <1>7, <1>8 DEF Place

(* The digits before and after the point are those of the amount.          *)
LEMMA PartsAreDigits ==
  ASSUME NEW n \in Nat, n < 2 * Half, NEW p \in Nat
  PROVE  LET whole == Digits(n \div TenTo[p])
             fraction == Fraction(n % TenTo[p], p)
         IN  /\ whole \in Seq(Zero..(Zero + 9)) /\ fraction \in Seq(Zero..(Zero + 9))
             /\ Len(fraction) = p
             /\ Read(whole \o fraction) = n /\ Canonical(whole)
<1>1. PICK t \in Nat : t = TenTo[p] /\ t >= 1
  BY TenToSteps
<1>2. PICK q, r \in Nat : n \div t = q /\ n % t = r /\ r < t /\ n = t * q + r /\ q <= n
  <2>1. Splits(n, t)
    BY <1>1, SplitFacts
  <2> QED
    BY <2>1 DEF Splits
<1>3. q < 2 * Half
  BY <1>2, HalfFacts
<1>4. PICK m \in Nat \ {0} : q < TenTo[m] /\ Digits(q) = [k \in 1..m |-> Zero + Place(q, m - k)]
  BY <1>3, DigitsOfNumber
<1>5. Fraction(r, p) = [k \in 1..p |-> Zero + Place(r, p - k)]
  BY FractionIs
<1> DEFINE whole == Digits(q)
           fraction == Fraction(r, p)
           both == whole \o fraction
<1>6. whole \in Seq(Zero..(Zero + 9)) /\ Len(whole) = m
  <2>1. ASSUME NEW k \in 1..m PROVE Zero + Place(q, m - k) \in Zero..(Zero + 9)
    <3>1. Place(q, m - k) \in 0..9
      <4>1. m - k \in Nat
        OBVIOUS
      <4> QED
        BY <4>1, PlaceFacts
    <3> QED
      BY <3>1 DEF Zero
  <2> QED
    BY <1>4, <2>1
<1>7. fraction \in Seq(Zero..(Zero + 9)) /\ Len(fraction) = p
  <2>1. ASSUME NEW k \in 1..p PROVE Zero + Place(r, p - k) \in Zero..(Zero + 9)
    <3>1. Place(r, p - k) \in 0..9
      <4>1. p - k \in Nat
        OBVIOUS
      <4> QED
        BY <4>1, PlaceFacts
    <3> QED
      BY <3>1 DEF Zero
  <2> QED
    BY <1>5, <2>1
<1>8. \A k \in 1..m : whole[k] = Zero + Place(q, m - k)
  BY <1>4
<1>9. \A k \in 1..p : fraction[k] = Zero + Place(r, p - k)
  BY <1>5
<1> HIDE DEF whole, fraction
<1>10. /\ Len(both) = m + p
       /\ \A k \in 1..(m + p) : both[k] = IF k <= m THEN whole[k] ELSE fraction[k - m]
  BY <1>6, <1>7
<1> HIDE DEF both
<1>11. IsDigitsOf(both, n, m + p)
  <2>1. ASSUME NEW k \in 1..(m + p) PROVE both[k] = Zero + Place(n, (m + p) - k)
    <3>1. CASE k <= m
      <4>1. k \in 1..m /\ m - k \in Nat /\ (m + p) - k = p + (m - k)
        BY <3>1
      <4>2. Place(n, p + (m - k)) = Place(n \div TenTo[p], m - k)
        BY <4>1, HighDigits
      <4> QED
        BY <1>1, <1>2, <1>8, <1>10, <3>1, <4>1, <4>2
    <3>2. CASE ~(k <= m)
      <4>1. k - m \in 1..p /\ (m + p) - k \in Nat /\ (m + p) - k < p /\ p - (k - m) = (m + p) - k
        BY <3>2
      <4>2. Place(n, (m + p) - k) = Place(n % TenTo[p], (m + p) - k)
        BY <4>1, LowDigits
      <4> QED
        BY <1>1, <1>2, <1>9, <1>10, <3>2, <4>1, <4>2
    <3> QED
      BY <3>1, <3>2
  <2> QED
    BY <1>10, <2>1 DEF IsDigitsOf
<1>12. n < TenTo[m + p]
  <2>1. PICK u, v \in Nat : u = TenTo[m] /\ v = TenTo[m + p] /\ v = t * u
    <3>1. TenTo[m] \in Nat /\ m + p \in Nat /\ m + p = p + m
      BY TenToSteps
    <3>2. TenTo[m + p] \in Nat
      BY <3>1, TenToSteps
    <3>3. TenTo[m + p] = TenTo[p] * TenTo[m]
      BY <3>1, TenToGrows
    <3> QED
      BY <1>1, <3>1, <3>2, <3>3, Zenon
  <2>2. \A x, y, z \in Nat : y <= z => x * y <= x * z
    OBVIOUS
  <2>3. q + 1 \in Nat /\ q + 1 <= u
    BY <1>4, <2>1
  <2>4. t * (q + 1) <= t * u
    BY <2>2, <2>3
  <2>5. t * (q + 1) = t * q + t
    OBVIOUS
  <2>6. t * (q + 1) \in Nat /\ t * q \in Nat /\ t * u \in Nat
    BY <2>3, ProductIsNat
  <2> QED
    BY <1>2, <2>1, <2>4, <2>5, <2>6
<1>13. Read(both) = n
  <2>1. m + p \in Nat \ {0}
    OBVIOUS
  <2> QED
    BY <1>11, <1>12, <2>1, DigitsAreRead
<1>14. Canonical(whole)
  BY <1>3, NumberIsRead DEF whole
<1> QED
  BY <1>1, <1>2, <1>6, <1>7, <1>13, <1>14 DEF whole, fraction, both

(* The name of the asset is a text of at most seven bytes.                 *)
LEMMA SymbolIsText ==
  ASSUME NEW symbol \in [1..7 -> 0..255]
  PROVE  symbol_to_string(symbol) \in Seq(0..255) /\ Len(symbol_to_string(symbol)) <= 7
<1> DEFINE Ends(n) == (\A k \in 1..n : symbol[k] # 0) /\ (n = 7 \/ symbol[n + 1] = 0)
           T == {n \in Nat : n = 7 \/ (n \in 0..6 /\ symbol[n + 1] = 0)}
           length == CHOOSE n \in 0..7 : Ends(n)
<1>1. PICK n \in T : \A k \in T : n <= k
  <2>1. T \in SUBSET Nat /\ 7 \in T
    OBVIOUS
  <2> HIDE DEF T
  <2> QED
    BY <2>1, LeastNatural
<1>2. n \in 0..7 /\ Ends(n)
  <2>1. n \in 0..7 /\ (n = 7 \/ symbol[n + 1] = 0)
    BY <1>1
  <2>2. ASSUME NEW k \in 1..n, symbol[k] = 0 PROVE FALSE
    <3>1. k - 1 \in Nat /\ k - 1 \in 0..6 /\ (k - 1) + 1 = k /\ ~(n <= k - 1)
      BY <2>1
    <3>2. k - 1 \in T
      BY <2>2, <3>1
    <3> HIDE DEF T
    <3> QED
      BY <1>1, <3>1, <3>2
  <2> QED
    BY <2>1, <2>2
<1>3. length \in 0..7
  <2> HIDE DEF Ends
  <2> QED
    BY <1>2, Zenon
<1>4. symbol_to_string(symbol) = SubSeq(symbol, 1, length)
  BY DEF symbol_to_string
<1> HIDE DEF length
<1>5. SubSeq(symbol, 1, length) \in Seq(0..255) /\ Len(SubSeq(symbol, 1, length)) <= 7
  <2>1. \A at \in 1..length : symbol[at] \in 0..255
    BY <1>3
  <2>2. 1 \in Int /\ length \in Int
    BY <1>3
  <2> QED
    BY <1>3, <2>1, <2>2, SubSeqProperties
<1> QED
  BY <1>4, <1>5

(* The first place of a character.                                         *)
LEMMA FindIs ==
  ASSUME NEW s, NEW c, NEW k \in 1..Len(s), Len(s) \in Nat,
         s[k] = c, \A m \in 1..(k - 1) : s[m] # c
  PROVE  Find(c, s) = k
<1> DEFINE First(m) == s[m] = c /\ \A l \in 1..(m - 1) : s[l] # c
<1>1. Find(c, s) = CHOOSE m \in 1..Len(s) : First(m)
  BY DEF Find
<1>2. First(k)
  OBVIOUS
<1>3. ASSUME NEW m \in 1..Len(s), First(m) PROVE m = k
  <2>1. ~(m < k)
    BY <1>3
  <2>2. ~(k < m)
    BY <1>3
  <2> QED
    BY <2>1, <2>2
<1> HIDE DEF First
<1> QED
  BY <1>1, <1>2, <1>3

(* What stands where in the text of an asset.                              *)
Joins(c, a, b, m, n) ==
    /\ c \in Seq(Int) /\ Len(c) = m + n
    /\ \A k \in 1..m : c[k] = a[k]
    /\ \A k \in 1..n : c[m + k] = b[k]

LEMMA Appended ==
  ASSUME NEW a \in Seq(Int), NEW b \in Seq(Int), NEW m \in Nat, m = Len(a),
         NEW n \in Nat, n = Len(b)
  PROVE  Joins(a \o b, a, b, m, n)
<1>1. PICK c : c = a \o b
  OBVIOUS
<1>2. /\ c \in Seq(Int) /\ Len(c) = m + n
      /\ \A at \in 1..(m + n) : c[at] = IF at <= m THEN a[at] ELSE b[at - m]
  BY <1>1, ConcatProperties
<1>3. \A k \in 1..m : c[k] = a[k]
  BY <1>2
<1>4. ASSUME NEW k \in 1..n PROVE c[m + k] = b[k]
  <2>1. m + k \in 1..(m + n) /\ ~(m + k <= m) /\ (m + k) - m = k
    OBVIOUS
  <2> QED
    BY <1>2, <2>1
<1> QED
  BY <1>1, <1>2, <1>3, <1>4 DEF Joins

LEMMA OneIsText ==
  ASSUME NEW n \in Int
  PROVE  <<n>> \in Seq(Int) /\ Len(<<n>>) = 1 /\ <<n>>[1] = n
OBVIOUS

HasParts(s, whole, fraction, symbol, w, f, l) ==
    /\ s \in Seq(Int) /\ Len(s) = w + f + l + 2
    /\ \A k \in 1..w : s[k] = whole[k]
    /\ s[w + 1] = Point
    /\ \A k \in 1..f : s[w + 1 + k] = fraction[k]
    /\ s[w + f + 2] = Space
    /\ \A k \in 1..l : s[w + f + 2 + k] = symbol[k]

LEMMA TextHasParts ==
  ASSUME NEW whole \in Seq(Int), NEW fraction \in Seq(Int), NEW symbol \in Seq(Int),
         NEW w \in Nat, w = Len(whole), NEW f \in Nat, f = Len(fraction),
         NEW l \in Nat, l = Len(symbol)
  PROVE  HasParts(whole \o <<Point>> \o fraction \o <<Space>> \o symbol,
                  whole, fraction, symbol, w, f, l)
<1>1. PICK pt, sp : /\ pt \in Seq(Int) /\ Len(pt) = 1 /\ pt[1] = Point /\ pt = <<Point>>
                    /\ sp \in Seq(Int) /\ Len(sp) = 1 /\ sp[1] = Space /\ sp = <<Space>>
  <2>1. Point \in Int /\ Space \in Int
    BY DEF Point, Space
  <2>2. <<Point>> \in Seq(Int) /\ Len(<<Point>>) = 1 /\ <<Point>>[1] = Point
    BY <2>1, OneIsText
  <2>3. <<Space>> \in Seq(Int) /\ Len(<<Space>>) = 1 /\ <<Space>>[1] = Space
    BY <2>1, OneIsText
  <2> QED
    BY <2>2, <2>3, Zenon
<1>2. PICK m1, m2, m3, one \in Nat : m1 = w + 1 /\ m2 = m1 + f /\ m3 = m2 + 1 /\ one = 1
  OBVIOUS
<1>3. PICK a, b, c, s :
          a = whole \o pt /\ b = a \o fraction /\ c = b \o sp /\ s = c \o symbol
  OBVIOUS
<1>4. Joins(a, whole, pt, w, one)
  BY <1>1, <1>2, <1>3, Appended
<1>5. Joins(b, a, fraction, m1, f)
  <2>1. a \in Seq(Int) /\ m1 = Len(a)
    BY <1>2, <1>4 DEF Joins
  <2> QED
    BY <1>3, <2>1, Appended
<1>6. Joins(c, b, sp, m2, one)
  <2>1. b \in Seq(Int) /\ m2 = Len(b)
    BY <1>2, <1>5 DEF Joins
  <2> QED
    BY <1>1, <1>2, <1>3, <2>1, Appended
<1>7. Joins(s, c, symbol, m3, l)
  <2>1. c \in Seq(Int) /\ m3 = Len(c)
    BY <1>2, <1>6 DEF Joins
  <2> QED
    BY <1>3, <2>1, Appended
<1>8. \A k \in 1..w : s[k] = whole[k]
  <2> SUFFICES ASSUME NEW k \in 1..w PROVE s[k] = whole[k]
    OBVIOUS
  <2>1. k \in 1..m1 /\ k \in 1..m2 /\ k \in 1..m3
    BY <1>2
  <2> QED
    BY <1>4, <1>5, <1>6, <1>7, <2>1 DEF Joins
<1>9. s[w + 1] = Point
  <2>1. m1 \in 1..m1 /\ m1 \in 1..m2 /\ m1 \in 1..m3 /\ 1 \in 1..one
    BY <1>2
  <2>2. a[w + 1] = pt[1]
    BY <1>4, <2>1 DEF Joins
  <2> QED
    BY <1>1, <1>2, <1>5, <1>6, <1>7, <2>1, <2>2 DEF Joins
<1>10. \A k \in 1..f : s[w + 1 + k] = fraction[k]
  <2> SUFFICES ASSUME NEW k \in 1..f PROVE s[w + 1 + k] = fraction[k]
    OBVIOUS
  <2>1. m1 + k \in 1..m2 /\ m1 + k \in 1..m3 /\ w + 1 + k = m1 + k
    BY <1>2
  <2>2. b[m1 + k] = fraction[k]
    BY <1>5 DEF Joins
  <2>3. c[m1 + k] = b[m1 + k]
    BY <1>6, <2>1 DEF Joins
  <2>4. s[m1 + k] = c[m1 + k]
    BY <1>7, <2>1 DEF Joins
  <2> QED
    BY <2>1, <2>2, <2>3, <2>4
<1>11. s[w + f + 2] = Space
  <2>1. m2 + 1 = m3 /\ m3 \in 1..m3 /\ w + f + 2 = m3 /\ 1 \in 1..one
    BY <1>2
  <2>2. c[m2 + 1] = sp[1]
    BY <1>6, <2>1 DEF Joins
  <2> QED
    BY <1>1, <1>7, <2>1, <2>2 DEF Joins
<1>12. \A k \in 1..l : s[w + f + 2 + k] = symbol[k]
  <2>1. w + f + 2 = m3
    BY <1>2
  <2> QED
    BY <1>7, <2>1 DEF Joins
<1>13. s \in Seq(Int) /\ Len(s) = w + f + l + 2
  BY <1>2, <1>7 DEF Joins
<1>14. s = whole \o <<Point>> \o fraction \o <<Space>> \o symbol
  BY <1>1, <1>3
<1> QED
  BY <1>8, <1>9, <1>10, <1>11, <1>12, <1>13, <1>14 DEF HasParts

(* The point and the space stand where the parts of the text end.          *)
LEMMA PartsAreFound ==
  ASSUME NEW w \in Nat, NEW f \in Nat, NEW l \in Nat, NEW whole, NEW fraction, NEW symbol,
         \A k \in 1..w : whole[k] \in 48..57, \A k \in 1..f : fraction[k] \in 48..57,
         NEW s, HasParts(s, whole, fraction, symbol, w, f, l)
  PROVE  /\ Find(Point, s) = w + 1 /\ Find(Space, s) = w + f + 2
<1>1. /\ Len(s) = w + f + l + 2
      /\ \A k \in 1..w : s[k] = whole[k]
      /\ s[w + 1] = Point
      /\ \A k \in 1..f : s[w + 1 + k] = fraction[k]
      /\ s[w + f + 2] = Space
  BY DEF HasParts
<1>2. Find(Point, s) = w + 1
  <2>1. w + 1 \in 1..Len(s) /\ Len(s) \in Nat /\ (w + 1) - 1 = w
    BY <1>1
  <2>2. ASSUME NEW k \in 1..((w + 1) - 1) PROVE s[k] # Point
    <3>1. s[k] = whole[k] /\ whole[k] \in 48..57
      BY <1>1, <2>1
    <3> QED
      BY <3>1 DEF Point
  <2> QED
    BY <1>1, <2>1, <2>2, FindIs
<1>3. Find(Space, s) = w + f + 2
  <2>1. w + f + 2 \in 1..Len(s) /\ Len(s) \in Nat
    BY <1>1
  <2>2. ASSUME NEW k \in 1..((w + f + 2) - 1) PROVE s[k] # Space
    <3>1. CASE k <= w
      <4>1. k \in 1..w
        BY <3>1
      <4>2. s[k] = whole[k] /\ whole[k] \in 48..57
        BY <1>1, <4>1
      <4> QED
        BY <4>2 DEF Space
    <3>2. CASE k = w + 1
      BY <1>1, <3>2 DEF Point, Space
    <3>3. CASE k > w + 1
      <4>1. k - (w + 1) \in 1..f /\ w + 1 + (k - (w + 1)) = k
        BY <3>3
      <4>2. s[k] = fraction[k - (w + 1)] /\ fraction[k - (w + 1)] \in 48..57
        BY <1>1, <4>1
      <4> QED
        BY <4>2 DEF Space
    <3> QED
      BY <3>1, <3>2, <3>3
  <2> QED
    BY <1>1, <2>1, <2>2, FindIs
<1> QED
  BY <1>2, <1>3

(* A part of a text is the sequence it is equal to, place by place.        *)
StandsAt(part, s, m, n) == \A k \in 1..n : s[m + k] = part[k]

NumbersAt(s, a, b) == \A k \in a..b : s[k] \in Int

LEMMA Numbers ==
  ASSUME NEW s, NEW a \in Int, NEW b \in Int, NumbersAt(s, a, b)
  PROVE  /\ SubSeq(s, a, b) \in Seq(Int)
         /\ Len(SubSeq(s, a, b)) = IF a <= b THEN b - a + 1 ELSE 0
         /\ \A k \in 1..(b - a + 1) : SubSeq(s, a, b)[k] = s[a + k - 1]
<1>1. \A k \in a..b : s[k] \in Int
  BY DEF NumbersAt
<1> QED
  BY <1>1, SubSeqProperties

LEMMA PartIs ==
  ASSUME NEW s, NEW part \in Seq(Int), NEW m \in Nat, NEW n \in Nat, n = Len(part),
         StandsAt(part, s, m, n)
  PROVE  SubSeq(s, m + 1, m + n) = part
<1>1. PICK a, b \in Int : a = m + 1 /\ b = m + n
  OBVIOUS
<1>2. NumbersAt(s, a, b)
  <2> SUFFICES ASSUME NEW at \in a..b PROVE s[at] \in Int
    BY DEF NumbersAt
  <2>1. at - m \in 1..n /\ m + (at - m) = at
    BY <1>1
  <2>2. s[at] = part[at - m] /\ part[at - m] \in Int
    BY <2>1 DEF StandsAt
  <2> QED
    BY <2>2
<1>3. PICK t : t = SubSeq(s, a, b)
  OBVIOUS
<1>4. /\ t \in Seq(Int)
      /\ Len(t) = IF a <= b THEN b - a + 1 ELSE 0
      /\ \A at \in 1..(b - a + 1) : t[at] = s[a + at - 1]
  BY <1>2, <1>3, Numbers
<1>5. Len(t) = n
  BY <1>1, <1>4
<1>6. \A at \in 1..n : t[at] = part[at]
  <2> SUFFICES ASSUME NEW at \in 1..n PROVE t[at] = part[at]
    OBVIOUS
  <2>1. at \in 1..(b - a + 1) /\ a + at - 1 = m + at
    BY <1>1
  <2> QED
    BY <1>4, <2>1 DEF StandsAt
<1>7. t = part
  BY <1>4, <1>5, <1>6, SeqEqual
<1> QED
  BY <1>1, <1>3, <1>7

LEMMA AssetText ==
  ASSUME NEW asset, asset.amount \in Nat, asset.amount < Half, asset.precision \in Nat,
         TenTo[asset.precision] < Half
  PROVE  asset_text(asset)
             = Digits(asset.amount \div TenTo[asset.precision]) \o <<Point>>
               \o Fraction(asset.amount % TenTo[asset.precision], asset.precision)
               \o <<Space>> \o symbol_to_string(asset.symbol)
<1>1. PICK n, p, t \in Nat : n = asset.amount /\ p = asset.precision /\ t = TenTo[p] /\ t >= 1
  BY TenToSteps
<1>2. PICK q, r \in Nat : n \div t = q /\ n % t = r /\ r < t /\ n = t * q + r /\ q <= n
  <2>1. Splits(n, t)
    BY <1>1, SplitFacts
  <2> QED
    BY <2>1 DEF Splits
<1>3. PowerOfTen[p] = t
  BY <1>1, PowerOfTenIs
<1>4. Quotient(n, t) = q
  <2>1. ~(n < 0) /\ ~(t < 0)
    OBVIOUS
  <2> QED
    BY <1>2, <2>1 DEF Quotient, Abs
<1>5. Remainder(n, t) = r
  <2>1. t * q \in Nat
    BY ProductIsNat
  <2> QED
    BY <1>2, <1>4, <2>1 DEF Remainder
<1>6. i64toa(q) = Digits(q)
  BY DEF i64toa, Abs
<1> QED
  BY <1>1, <1>2, <1>3, <1>4, <1>5, <1>6 DEF asset_text

(* The number of an asset is written in no more places than the largest    *)
(* number has, so that its text fits.                                      *)
LEMMA NumberFits ==
  ASSUME NEW n \in Nat, n < Half, NEW p \in Nat, TenTo[p] < Half
  PROVE  Len(Digits(n \div TenTo[p])) + p <= TextSize - 10
<1>1. PICK t \in Nat : t = TenTo[p] /\ t >= 1
  BY TenToSteps
<1>2. PICK q, r \in Nat : n \div t = q /\ n = t * q + r /\ q <= n
  <2>1. Splits(n, t)
    BY <1>1, SplitFacts
  <2> QED
    BY <2>1 DEF Splits
<1>3. PICK d \in Nat : d = TextSize - 10 /\ Half <= TenTo[d]
  <2>1. TextSize - 10 \in Nat /\ Half <= TenTo[TextSize - 10]
    BY FormatAssumption
  <2> QED
    BY <2>1, Zenon
<1>4. PICK h, v \in Nat : h = Half /\ v = TenTo[d] /\ h <= v /\ t < h /\ n < h
  <2>1. Half \in Nat /\ TenTo[d] \in Nat
    BY HalfFacts, TenToSteps
  <2> QED
    BY <1>1, <1>3, <2>1, Zenon
<1>5. p < d
  <2> SUFFICES ASSUME d <= p PROVE FALSE
    OBVIOUS
  <2>1. v <= t
    BY <1>1, <1>4, TenToGrows
  <2> QED
    BY <1>4, <2>1
<1>6. PICK m \in Nat \ {0} : Len(Digits(q)) = m /\ (m = 1 \/ q >= TenTo[m - 1])
  <2>1. q < 2 * Half
    BY <1>2, <1>4
  <2> QED
    BY <2>1, DigitsOfNumber DEF IsDigitsOf
<1>7. m + p <= d
  <2>1. CASE m = 1
    BY <1>5, <2>1
  <2>2. CASE m # 1
    <3> SUFFICES ASSUME ~(m + p <= d) PROVE FALSE
      OBVIOUS
    <3>1. PICK e, k \in Nat : e = d - p /\ k = m - 1 /\ e <= k /\ d = p + e
      <4>1. d - p \in Nat /\ m - 1 \in Nat /\ d - p <= m - 1 /\ d = p + (d - p)
        BY <1>5
      <4> QED
        BY <4>1, Zenon
    <3>2. PICK u, x \in Nat : u = TenTo[e] /\ x = TenTo[k] /\ v = t * u
      <4>1. TenTo[e] \in Nat /\ TenTo[k] \in Nat
        BY TenToSteps
      <4>2. TenTo[p + e] = TenTo[p] * TenTo[e]
        BY TenToGrows
      <4> QED
        BY <1>1, <1>4, <3>1, <4>1, <4>2, Zenon
    <3>3. u <= x
      BY <3>1, <3>2, TenToGrows
    <3>4. x <= q
      BY <1>6, <2>2, <3>1, <3>2
    <3>5. t * u <= t * q
      <4>1. \A a, b, c \in Nat : b <= c => a * b <= a * c
        OBVIOUS
      <4>2. u <= q
        BY <3>3, <3>4
      <4> QED
        BY <4>1, <4>2
    <3>6. t * u \in Nat /\ t * q \in Nat
      BY ProductIsNat
    <3> QED
      BY <1>2, <1>4, <3>2, <3>5, <3>6
  <2> QED
    BY <2>1, <2>2
<1> QED
  BY <1>1, <1>2, <1>3, <1>6, <1>7

(* The text of an asset on the screen is read as its amount and its symbol.*)
THEOREM AssetsAreReadable == FormatSpec => []AssetReadsBack
<1>1. FormatInv => AssetReadsBack
  <2> DEFINE point == Find(Point, text)
             space == Find(Space, text)
             before == SubSeq(text, 1, point - 1)
             after == SubSeq(text, point + 1, space - 1)
  <2> SUFFICES ASSUME FormatInv, text # <<>>, field.kind = "asset", field.amount >= 0,
                      field.precision <= TextSize - 10, TenTo[field.precision] < Half
               PROVE  /\ Len(after) = field.precision
                      /\ Read(before \o after) = field.amount /\ Canonical(before)
                      /\ SubSeq(text, space + 1, Len(text)) = symbol_to_string(field.symbol)
    BY DEF AssetReadsBack
  <2>1. /\ field.amount \in Nat /\ field.amount < Half /\ field.precision \in Nat
        /\ field.symbol \in [1..7 -> 0..255]
    <3>1. /\ field.amount \in Signed /\ field.precision \in 0..255
          /\ field.symbol \in [1..7 -> 0..255]
      BY FormatAssumption DEF FormatInv
    <3>2. PICK h \in Nat : h = Half
      BY HalfFacts
    <3>3. field.amount \in Nat /\ field.amount < Half
      <4>1. field.amount \in (-h)..(h - 1)
        BY <3>1, <3>2 DEF Signed
      <4>2. \A n \in (-h)..(h - 1) : n >= 0 => n \in Nat /\ n < h
        OBVIOUS
      <4> QED
        BY <3>2, <4>1, <4>2
    <3>4. field.precision \in Nat
      <4>1. 0..255 \subseteq Nat
        OBVIOUS
      <4> QED
        BY <3>1, <4>1, Zenon
    <3> QED
      BY <3>1, <3>3, <3>4, Zenon
  <2>2. PICK n, p \in Nat : n = field.amount /\ p = field.precision
    BY <2>1
  <2>3. PICK whole, fraction, symbol :
            /\ whole = Digits(n \div TenTo[p]) /\ fraction = Fraction(n % TenTo[p], p)
            /\ symbol = symbol_to_string(field.symbol)
    OBVIOUS
  <2>4. asset_text(field) = whole \o <<Point>> \o fraction \o <<Space>> \o symbol
    BY <2>1, <2>2, <2>3, AssetText
  <2>5. /\ whole \in Seq(Zero..(Zero + 9)) /\ fraction \in Seq(Zero..(Zero + 9))
        /\ Len(fraction) = p /\ Read(whole \o fraction) = n /\ Canonical(whole)
    <3>1. n < 2 * Half
      BY <2>1, <2>2, HalfFacts
    <3> QED
      BY <2>3, <3>1, PartsAreDigits
  <2>6. symbol \in Seq(0..255) /\ Len(symbol) <= 7
    BY <2>1, <2>3, SymbolIsText
  <2>7. PICK w, f, l \in Nat : w = Len(whole) /\ f = Len(fraction) /\ l = Len(symbol)
    BY <2>5, <2>6, LenProperties
  <2>8. whole \in Seq(Int) /\ fraction \in Seq(Int) /\ symbol \in Seq(Int)
    <3>1. Zero..(Zero + 9) \subseteq Int /\ 0..255 \subseteq Int
      BY DEF Zero
    <3>2. PICK D, B : D = Zero..(Zero + 9) /\ B = 0..255
      OBVIOUS
    <3>3. /\ whole \in Seq(D) /\ fraction \in Seq(D) /\ symbol \in Seq(B)
          /\ D \subseteq Int /\ B \subseteq Int
      BY <2>5, <2>6, <3>1, <3>2, Zenon
    <3> QED
      BY <3>3, SeqMonotonic
  <2>9. HasParts(text, whole, fraction, symbol, w, f, l)
    <3>1. HasParts(asset_text(field), whole, fraction, symbol, w, f, l)
      BY <2>4, <2>7, <2>8, TextHasParts
    <3>2. Len(asset_text(field)) < TextSize
      <4>1. Len(asset_text(field)) = w + f + l + 2
        BY <3>1 DEF HasParts
      <4>2. w + p <= TextSize - 10 /\ f = p /\ l <= 7
        BY <2>1, <2>2, <2>3, <2>5, <2>6, <2>7, NumberFits
      <4>3. TextSize \in Nat
        BY FormatAssumption
      <4> QED
        BY <4>1, <4>2, <4>3
    <3>3. PowerOfTen[p] # 0
      <4>1. PowerOfTen[p] = TenTo[p] /\ TenTo[p] >= 1
        BY <2>2, PowerOfTenIs, TenToSteps
      <4> QED
        BY <4>1
    <3>4. TextSize \in Nat /\ Len(asset_text(field)) \in Nat
      BY <3>1, FormatAssumption DEF HasParts
    <3>5. text = asset_text(field)
      <4>1. text = asset_to_string(field)
        BY DEF FormatInv
      <4>2. ~(Len(asset_text(field)) >= TextSize)
        BY <3>2, <3>4
      <4> QED
        BY <2>2, <3>3, <4>1, <4>2 DEF asset_to_string
    <3> QED
      BY <3>1, <3>5
  <2>10. (\A k \in 1..w : whole[k] \in 48..57) /\ (\A k \in 1..f : fraction[k] \in 48..57)
    BY <2>5, <2>7 DEF Zero
  <2>11. point = w + 1 /\ space = w + f + 2
    BY <2>9, <2>10, PartsAreFound
  <2> HIDE DEF point, space
  <2>12. before = whole
    <3>1. PICK e \in Nat : e = 0
      OBVIOUS
    <3>2. StandsAt(whole, text, e, w)
      BY <2>9, <3>1 DEF HasParts, StandsAt
    <3>3. SubSeq(text, e + 1, e + w) = whole
      BY <2>7, <2>8, <3>2, PartIs
    <3>4. e + 1 = 1 /\ e + w = point - 1
      BY <2>11, <3>1
    <3> QED
      BY <3>3, <3>4
  <2>13. after = fraction
    <3>1. PICK e \in Nat : e = w + 1
      OBVIOUS
    <3>2. StandsAt(fraction, text, e, f)
      BY <2>9, <3>1 DEF HasParts, StandsAt
    <3>3. SubSeq(text, e + 1, e + f) = fraction
      BY <2>7, <2>8, <3>2, PartIs
    <3>4. e + 1 = point + 1 /\ e + f = space - 1
      BY <2>11, <3>1
    <3> QED
      BY <3>3, <3>4
  <2>14. SubSeq(text, space + 1, Len(text)) = symbol
    <3>1. PICK e \in Nat : e = w + f + 2
      OBVIOUS
    <3>2. StandsAt(symbol, text, e, l)
      BY <2>9, <3>1 DEF HasParts, StandsAt
    <3>3. SubSeq(text, e + 1, e + l) = symbol
      BY <2>7, <2>8, <3>2, PartIs
    <3>4. Len(text) = w + f + l + 2
      BY <2>9 DEF HasParts
    <3>5. e + 1 = space + 1 /\ e + l = Len(text)
      BY <2>11, <3>1, <3>4
    <3> QED
      BY <3>3, <3>5
  <2> HIDE DEF before, after
  <2> QED
    BY <2>2, <2>3, <2>5, <2>12, <2>13, <2>14
<1> QED
  BY <1>1, FormatInductive, PTL
=============================================================================
