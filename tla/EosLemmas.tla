------------------------------ MODULE EosLemmas ------------------------------
(***************************************************************************)
(* What the proofs about the parser, the reviews and the signature need of *)
(* the decoders of EosEncoding and EosActions, for memory of any content   *)
(* and any length; the induction over numbers that recursive functions are *)
(* reasoned about with; and division.                                      *)
(***************************************************************************)
EXTENDS EosActions, Integers, FiniteSetTheorems, TLAPS

(* The remainder of a division is below the divisor.                       *)
LEMMA RemainderBound ==
  ASSUME NEW n \in Nat, NEW m \in Nat, m > 0
  PROVE  n % m \in 0..(m - 1)
OBVIOUS

LEMMA ByteFacts ==
  /\ Byte \subseteq Nat /\ 0 \in Byte
  /\ \A b \in Byte : b % 128 \in Nat
BY DEF Byte

(* Byte i of what From leaves of a buffer is byte offset + i of it.        *)
LEMMA ByteOfFrom ==
  ASSUME NEW buffer \in Seq(Byte), NEW offset \in Nat, NEW i \in Nat \ {0},
         offset + i <= Len(buffer)
  PROVE  From(buffer, offset)[i] = buffer[offset + i] /\ From(buffer, offset)[i] \in Byte
BY DEF From

(* unpack_variant32 reads at least one byte and no byte behind the length  *)
(* it is given, except the first; what it returns fits the width of the    *)
(* result, whatever the bytes are.                                         *)
LEMMA VariantBytesBound ==
  ASSUME NEW in, NEW length \in Int,
         \A i \in 1..5 : i = 1 \/ i <= length => in[i] \in Byte
  PROVE  /\ VariantBytes(in, length) \in 1..5
         /\ VariantBytes(in, length) = 1 \/ VariantBytes(in, length) <= length
<1> DEFINE Stops(n) == in[n] < 128 \/ n = 5 \/ n >= length
           First(n) == Stops(n) /\ \A i \in 1..(n - 1) : in[i] >= 128 /\ i < length
<1>1. \E n \in 1..5 : First(n)
  <2>1. \A n \in 1..5 : (n = 1 \/ n <= length) /\ ~Stops(n) => in[n] >= 128 /\ n < length
    BY DEF Byte
  <2> QED
    BY <2>1
<1>2. VariantBytes(in, length) \in 1..5 /\ First(VariantBytes(in, length))
  BY <1>1 DEF VariantBytes
<1> HIDE DEF Stops
<1>3. VariantBytes(in, length) # 1 => VariantBytes(in, length) - 1 \in 1..(VariantBytes(in, length) - 1)
  BY <1>2
<1> QED
  BY <1>2, <1>3

LEMMA VariantBound ==
  ASSUME NEW in, NEW length \in Int, NEW width \in Nat, width > 0,
         \A i \in 1..5 : i = 1 \/ i <= length => in[i] \in Byte
  PROVE  /\ unpack_variant32(in, length, width).value \in 0..(width - 1)
         /\ unpack_variant32(in, length, width).read \in 1..5
<1> DEFINE read == VariantBytes(in, length)
           group(i) == IF i <= read THEN in[i] % 128 ELSE 0
           sum == group(1) + 128 * (group(2) + 128 * (group(3)
                      + 128 * (group(4) + 128 * group(5))))
<1>1. read \in 1..5 /\ (read = 1 \/ read <= length)
  BY VariantBytesBound
<1>2. \A i \in 1..5 : group(i) \in Nat
  <2> SUFFICES ASSUME NEW i \in 1..5, i <= read PROVE in[i] % 128 \in Nat
    OBVIOUS
  <2>1. in[i] \in Byte
    BY <1>1
  <2> QED
    BY <2>1 DEF Byte
<1>3. sum \in Nat
  <2> HIDE DEF group
  <2> QED
    BY <1>2
<1>4. unpack_variant32(in, length, width) = [read |-> read, value |-> sum % width]
  BY DEF unpack_variant32
<1> HIDE DEF read, sum
<1> QED
  BY <1>1, <1>3, <1>4, RemainderBound

(* Whatever the data of a known action is, either one of the action's own  *)
(* checks fails or argumentCount is a char.  (processEosioVoteProducer     *)
(* tests no length: its reads stay inside the buffer because this is long  *)
(* enough.)                                                                *)
LEMMA CountIsChar == \A n \in Nat : Count(n).count \in 0..(CharMod - 1)
BY RemainderBound DEF Count, CharMod

LEMMA FromSkipList ==
  ASSUME NEW buffer \in Seq(Byte), NEW offset \in Nat, NEW length \in Nat, NEW size \in Nat,
         NEW width \in Nat, width > 0,
         offset < length, length <= Len(buffer)
  PROVE  /\ SkipList(offset, length, buffer, size, width).total \in Nat
         /\ SkipList(offset, length, buffer, size, width).end \in Nat
         /\ SkipList(offset, length, buffer, size, width).ok =>
                SkipList(offset, length, buffer, size, width).end < length
<1> DEFINE n == unpack_variant32(From(buffer, offset), length - offset, width)
           end == offset + n.read + size * n.value
<1>1. \A i \in 1..5 : i = 1 \/ i <= length - offset => From(buffer, offset)[i] \in Byte
  BY ByteOfFrom
<1>2. n.value \in 0..(width - 1) /\ n.read \in 1..5
  <2> length - offset \in Int
    OBVIOUS
  <2> QED
    BY <1>1, VariantBound
<1>3. SkipList(offset, length, buffer, size, width)
          = [ok |-> n.read < length - offset /\ end < length, total |-> n.value, end |-> end]
  BY DEF SkipList
<1> HIDE DEF n
<1>4. n.value \in Nat /\ end \in Nat
  <2>1. \A a, b \in Nat : a * b \in Nat
    OBVIOUS
  <2>2. n.value \in Nat /\ n.read \in Nat
    BY <1>2
  <2>3. size * n.value \in Nat
    BY <2>1, <2>2
  <2>4. \A a, b, c \in Nat : a + b + c \in Nat
    OBVIOUS
  <2> QED
    BY <2>2, <2>3, <2>4, Zenon
<1> HIDE DEF end
<1>5. SkipList(offset, length, buffer, size, width).ok => end < length
  <2>1. SkipList(offset, length, buffer, size, width).ok = (n.read < length - offset /\ end < length)
    BY <1>3
  <2> QED
    BY <2>1
<1>6. /\ SkipList(offset, length, buffer, size, width).total = n.value
      /\ SkipList(offset, length, buffer, size, width).end = end
  BY <1>3
<1> QED
  BY <1>4, <1>5, <1>6

LEMMA UpdateAuthCount ==
  ASSUME NEW buffer \in Seq(Byte), NEW length \in Nat, NEW width \in Nat, width > 0,
         length <= Len(buffer)
  PROVE  processEosioUpdateAuth(buffer, length, width).count \in 0..(CharMod - 1)
<1> DEFINE offset == 3 * NameSize + 4
           keySize == 1 + PublicKeySize + 2
           keys == SkipList(offset, length, buffer, keySize, width)
           accountSize == 2 * NameSize + 2
           accounts == SkipList(keys.end, length, buffer, accountSize, width)
           waits == unpack_variant32(From(buffer, accounts.end), length - accounts.end, width)
           n == 4 + 2 * (keys.total + accounts.total + waits.value)
           result == processEosioUpdateAuth(buffer, length, width)
<1>1. offset \in Nat /\ keySize \in Nat /\ accountSize \in Nat
  BY DEF NameSize, PublicKeySize
<1>2. \/ result = Asserts
      \/ /\ offset < length /\ keys.ok /\ accounts.ok
         /\ result = Count(n)
  <2>1. result =
            IF ~(offset < length) THEN Asserts
            ELSE IF ~keys.ok \/ 4 + 2 * keys.total >= CharMod THEN Asserts
            ELSE IF ~accounts.ok \/ 4 + 2 * (keys.total + accounts.total) >= CharMod THEN Asserts
            ELSE IF n >= CharMod THEN Asserts
            ELSE Count(n)
    BY DEF processEosioUpdateAuth
  <2> HIDE DEF result, offset, keys, accounts, n
  <2> QED
    BY <2>1
<1>3. CASE result = Asserts
  BY <1>3 DEF Asserts, CharMod
<1>4. CASE offset < length /\ keys.ok /\ accounts.ok /\ result = Count(n)
  <2> HIDE DEF offset, keySize, accountSize
  <2>1. keys.total \in Nat /\ keys.end \in Nat /\ keys.end < length
    BY <1>1, <1>4, FromSkipList
  <2> HIDE DEF keys
  <2>2. accounts.total \in Nat /\ accounts.end \in Nat /\ accounts.end < length
    BY <1>1, <1>4, <2>1, FromSkipList
  <2> HIDE DEF accounts
  <2>3. waits.value \in Nat
    <3>1. \A i \in 1..5 : i = 1 \/ i <= length - accounts.end =>
              From(buffer, accounts.end)[i] \in Byte
      BY <2>2, ByteOfFrom
    <3>2. length - accounts.end \in Int
      BY <2>2
    <3>3. waits.value \in 0..(width - 1)
      BY <3>1, <3>2, VariantBound
    <3> HIDE DEF waits
    <3> QED
      BY <3>3
  <2> HIDE DEF waits
  <2>4. n \in Nat
    <3>1. \A k, a, w \in Nat : 4 + 2 * (k + a + w) \in Nat
      OBVIOUS
    <3> QED
      BY <2>1, <2>2, <2>3, <3>1, Zenon
  <2> HIDE DEF n
  <2> QED
    BY <1>4, <2>4, CountIsChar
<1> QED
  BY <1>2, <1>3, <1>4

LEMMA VoteProducerCount ==
  ASSUME NEW buffer \in Seq(Byte), NEW length \in Nat, NEW width \in Nat, width > 0,
         2 * NameSize + 5 <= Len(buffer)
  PROVE  processEosioVoteProducer(buffer, length, width).count \in 0..(CharMod - 1)
<1> DEFINE total == unpack_variant32(From(buffer, 2 * NameSize), length, width)
<1>1. \A i \in 1..5 : From(buffer, 2 * NameSize)[i] \in Byte
  BY ByteOfFrom DEF NameSize
<1>2. total.value \in 0..(width - 1)
  BY <1>1, VariantBound
<1>3. 1 + total.value \in Nat
  <2> HIDE DEF total
  <2> QED
    BY <1>2
<1>4. \E n \in Nat : processEosioVoteProducer(buffer, length, width) = Count(n)
  <2>1. \/ processEosioVoteProducer(buffer, length, width) = Count(1 + total.value)
        \/ processEosioVoteProducer(buffer, length, width) = Count(2)
    BY DEF processEosioVoteProducer
  <2> HIDE DEF total
  <2> QED
    BY <1>3, <2>1
<1> QED
  BY <1>4, CountIsChar

LEMMA ArgumentCountIsChar ==
  ASSUME NEW contractName, NEW action, isKnownAction(contractName, action),
         NEW buffer \in Seq(Byte), NEW length \in Nat, NEW width \in Nat, width > 0,
         length <= Len(buffer), 2 * NameSize + 5 <= Len(buffer)
  PROVE  ArgumentCount(action, buffer, length, width).count \in 0..(CharMod - 1)
<1> DEFINE result == ArgumentCount(action, buffer, length, width)
<1>1. \A n \in 1..5 : Count(n).count \in 0..(CharMod - 1)
  BY CountIsChar
<1>2. processTokenTransfer(buffer, length, width).count \in 0..(CharMod - 1)
  BY <1>1 DEF processTokenTransfer
<1>3. processEosioDelegate(buffer).count \in 0..(CharMod - 1)
  BY <1>1 DEF processEosioDelegate
<1>4. processEosioNewAccountAction(buffer, length, width).count \in 0..(CharMod - 1)
  BY <1>1 DEF processEosioNewAccountAction, Asserts, CharMod
<1>5. result \in {processTokenTransfer(buffer, length, width),
                   processEosioDelegate(buffer),
                   processEosioVoteProducer(buffer, length, width),
                   processEosioUpdateAuth(buffer, length, width),
                   processEosioNewAccountAction(buffer, length, width),
                   Count(1), Count(2), Count(3), Count(4)}
  <2>1. action \in {EOSIO_TOKEN_TRANSFER} \cup EosioActions
    BY DEF isKnownAction
  <2> QED
    BY <2>1 DEF ArgumentCount, EosioActions
<1>6. processEosioVoteProducer(buffer, length, width).count \in 0..(CharMod - 1)
  BY VoteProducerCount
<1>7. processEosioUpdateAuth(buffer, length, width).count \in 0..(CharMod - 1)
  BY UpdateAuthCount
<1> HIDE DEF result
<1>8. /\ Count(1).count \in 0..(CharMod - 1) /\ Count(2).count \in 0..(CharMod - 1)
      /\ Count(3).count \in 0..(CharMod - 1) /\ Count(4).count \in 0..(CharMod - 1)
  BY <1>1
<1>9. result.count \in 0..(CharMod - 1)
  BY <1>1, <1>2, <1>3, <1>4, <1>5, <1>6, <1>7, <1>8, Zenon
<1> QED
  BY <1>9 DEF result

(* The length that a TLV header decodes to is a number, whatever the bytes *)
(* of the header are.                                                      *)
LEMMA BigEndianIsNumber ==
  ASSUME NEW s \in Seq(Byte)
  PROVE  BigEndian(s) \in Nat
<1> DEFINE digit(i) == IF i <= Len(s) THEN s[Len(s) + 1 - i] ELSE 0
<1>1. digit(1) \in Nat /\ digit(2) \in Nat /\ digit(3) \in Nat /\ digit(4) \in Nat
  <2>1. \A i \in 1..4 : i <= Len(s) => Len(s) + 1 - i \in 1..Len(s)
    OBVIOUS
  <2>2. \A j \in 1..Len(s) : s[j] \in Byte
    OBVIOUS
  <2>3. \A i \in 1..4 : digit(i) \in Nat
    BY <2>1, <2>2, ByteFacts
  <2> HIDE DEF digit
  <2> QED
    BY <2>3
<1> HIDE DEF digit
<1>2. digit(1) + 256 * (digit(2) + 256 * (digit(3) + 256 * digit(4))) \in Nat
  BY <1>1
<1> QED
  BY <1>2 DEF BigEndian, digit

LEMMA TlvLengthIsNumber ==
  ASSUME NEW buffer \in Seq(Byte), buffer # <<>>
  PROVE  tlvTryDecode(buffer).length \in Nat
<1> DEFINE count == buffer[2] % 128
           bytes == SubSeq(buffer, 3, 2 + count)
           result == tlvTryDecode(buffer)
<1>1. \/ result \in {TlvInvalid, TlvIncomplete}
      \/ Len(buffer) >= 2 /\ result = TlvLength(buffer[2])
      \/ /\ Len(buffer) >= 2 /\ ~LengthMissing(count, Len(buffer))
         /\ result = TlvLength(BigEndian(bytes))
  BY DEF tlvTryDecode
<1> HIDE DEF result
<1>2. CASE result \in {TlvInvalid, TlvIncomplete}
  BY <1>2 DEF TlvInvalid, TlvIncomplete, result
<1>3. CASE Len(buffer) >= 2 /\ result = TlvLength(buffer[2])
  <2>1. buffer[2] \in Byte
    BY <1>3
  <2> QED
    <3>1. TlvLength(buffer[2]).length = buffer[2]
      BY DEF TlvLength
    <3> QED
      BY <1>3, <2>1, <3>1, ByteFacts, Zenon DEF result
<1>4. CASE /\ Len(buffer) >= 2 /\ ~LengthMissing(count, Len(buffer))
           /\ result = TlvLength(BigEndian(bytes))
  <2>0. buffer[2] \in Byte
    BY <1>4
  <2>1. count \in Nat
    BY <2>0, ByteFacts
  <2>2. 2 + count <= Len(buffer)
    <3> HIDE DEF count
    <3> QED
      BY <1>4, <2>1 DEF LengthMissing
  <2>3. bytes \in Seq(Byte)
    <3> HIDE DEF count
    <3> QED
      BY <2>1, <2>2
  <2>4. BigEndian(bytes) \in Nat
    BY <2>3, BigEndianIsNumber
  <2> HIDE DEF bytes
  <2> QED
    BY <1>4, <2>4 DEF TlvLength, result
<1> QED
  BY <1>1, <1>2, <1>3, <1>4

(* Bytes that go over the beginning of a buffer leave its size.            *)
LEMMA Overwritten ==
  ASSUME NEW data \in Seq(Byte), NEW buffer \in Seq(Byte), Len(data) < Len(buffer)
  PROVE  /\ data \o SubSeq(buffer, Len(data) + 1, Len(buffer)) \in Seq(Byte)
         /\ Len(data \o SubSeq(buffer, Len(data) + 1, Len(buffer))) = Len(buffer)
<1> DEFINE rest == SubSeq(buffer, Len(data) + 1, Len(buffer))
<1>1. Len(data) \in Nat /\ Len(buffer) \in Nat
  OBVIOUS
<1>2. rest \in Seq(Byte) /\ Len(rest) = Len(buffer) - Len(data)
  BY <1>1
<1> HIDE DEF rest
<1>3. data \o rest \in Seq(Byte) /\ Len(data \o rest) = Len(buffer)
  BY <1>1, <1>2
<1> QED
  BY <1>3 DEF rest

(* Two numbers closer than the divisor have different remainders: the      *)
(* slots of a ring buffer.                                                 *)
LEMMA RemaindersDiffer ==
  ASSUME NEW m \in Nat, m > 0, NEW a \in Nat, NEW b \in Nat, a < b, b - a < m
  PROVE  a % m # b % m
<1> SUFFICES ASSUME a % m = b % m PROVE FALSE
  OBVIOUS
<1>1. ASSUME NEW c \in Nat
      PROVE  c % m = c - m * (c \div m) /\ c % m \in Nat /\ c \div m \in Int
  <2>1. c % m = c - m * (c \div m)
    OBVIOUS
  <2>2. c \div m \in Int
    OBVIOUS
  <2> QED
    BY <2>1, <2>2, RemainderBound
<1> DEFINE q == (b \div m) - (a \div m)
<1>2. b - a = m * q /\ q \in Int
  <2>1. \A k, l \in Int : m * (l - k) = m * l - m * k
    OBVIOUS
  <2>2. ASSUME NEW k \in Int, NEW l \in Int, a - m * k = b - m * l
        PROVE  b - a = m * l - m * k
    <3>1. m * k \in Int /\ m * l \in Int
      OBVIOUS
    <3> QED
      BY <2>2, <3>1
  <2>3. /\ a % m = a - m * (a \div m) /\ a \div m \in Int
        /\ b % m = b - m * (b \div m) /\ b \div m \in Int
    BY <1>1
  <2>4. b - a = m * (b \div m) - m * (a \div m)
    BY <2>2, <2>3
  <2> QED
    BY <2>1, <2>3, <2>4
<1> HIDE DEF q
<1>3. q >= 1 => m * q >= m
  BY <1>2
<1>4. q <= 0 => m * q <= 0
  BY <1>2
<1> QED
  BY <1>2, <1>3, <1>4

----------------------------------------------------------------------------
(* A set of numbers that is not empty has a least one; hence a set that    *)
(* holds 0, and n + 1 with n, holds every number.                          *)
LEMMA LeastNatural ==
  ASSUME NEW T \in SUBSET Nat, T # {}
  PROVE  \E m \in T : \A k \in T : m <= k
<1> DEFINE R == StrictSubsetOrdering(Nat)
           C == {0..n : n \in T}
<1>1. IsWellFoundedOn(R, FiniteSubsetsOf(Nat))
  BY FS_StrictSubsetOrderingWellFounded
<1>2. \A n \in T : 0..n \in FiniteSubsetsOf(Nat)
  BY FS_Interval DEF FiniteSubsetsOf
<1>3. C \subseteq FiniteSubsetsOf(Nat) /\ C # {}
  BY <1>2
<1>4. \E x \in C : \A y \in C : <<y, x>> \notin R
  <2> HIDE DEF R, C
  <2> QED
    BY <1>1, <1>3, WFMin
<1>5. PICK m \in T : \A n \in T : <<0..n, 0..m>> \notin R
  BY <1>4
<1>6. ASSUME NEW k \in T, ~(m <= k) PROVE FALSE
  <2>1. 0..k \subseteq 0..m /\ m \in 0..m /\ m \notin 0..k
    BY <1>6
  <2>2. <<0..k, 0..m>> \in R
    BY <2>1 DEF StrictSubsetOrdering
  <2> QED
    BY <1>5, <2>2
<1> QED
  BY <1>6

LEMMA NatSetInduction ==
  ASSUME NEW S, 0 \in S, \A n \in Nat : n \in S => n + 1 \in S
  PROVE Nat \subseteq S
<1> DEFINE T == {n \in Nat : n \notin S}
<1>1. SUFFICES T = {}
  OBVIOUS
<1>2. SUFFICES ASSUME T # {} PROVE FALSE
  OBVIOUS
<1>3. PICK m \in T : \A k \in T : m <= k
  <2>1. T \in SUBSET Nat OBVIOUS
  <2> HIDE DEF T
  <2> QED
    BY <2>1, <1>2, LeastNatural
<1>4. m # 0 /\ m - 1 \in Nat /\ m - 1 \notin T
  BY <1>3
<1> QED
  BY <1>3, <1>4

(* A function on the numbers can be defined by its first value and the     *)
(* step from one value to the next.                                        *)
LEMMA RecursiveFunction ==
  ASSUME NEW S, NEW b \in S, NEW G \in [Nat \X S -> S]
  PROVE  \E f \in [Nat -> S] : f[0] = b /\ \A n \in Nat : f[n + 1] = G[<<n, f[n]>>]
<1> DEFINE Chain(c, n) ==
               c \in [0..n -> S] /\ c[0] = b /\ \A k \in Nat : k < n => c[k + 1] = G[<<k, c[k]>>]
<1>1. \A n \in Nat : \E c : Chain(c, n)
  <2> DEFINE T == {n \in Nat : \E c : Chain(c, n)}
  <2>1. 0 \in T
    <3>1. Chain([k \in 0..0 |-> b], 0)
      OBVIOUS
    <3> QED
      BY <3>1
  <2>2. ASSUME NEW n \in Nat, n \in T
        PROVE  n + 1 \in T
    <3>1. PICK c : Chain(c, n)
      BY <2>2
    <3> DEFINE d == [k \in 0..(n + 1) |-> IF k = n + 1 THEN G[<<n, c[n]>>] ELSE c[k]]
    <3>2. c[n] \in S /\ G[<<n, c[n]>>] \in S
      <4>1. n \in 0..n
        OBVIOUS
      <4>2. c[n] \in S
        BY <3>1, <4>1
      <4>3. <<n, c[n]>> \in Nat \X S
        BY <4>2
      <4> QED
        BY <4>2, <4>3
    <3>3. \A k \in 0..n : d[k] = c[k] /\ c[k] \in S
      BY <3>1
    <3>4. d[n + 1] = G[<<n, c[n]>>]
      OBVIOUS
    <3>5. d \in [0..(n + 1) -> S]
      <4>1. \A k \in 0..(n + 1) : (IF k = n + 1 THEN G[<<n, c[n]>>] ELSE c[k]) \in S
        <5>1. \A k \in 0..(n + 1) : k = n + 1 \/ k \in 0..n
          OBVIOUS
        <5> QED
          BY <3>2, <3>3, <5>1
      <4> QED
        BY <4>1
    <3>6. ASSUME NEW k \in Nat, k < n + 1
          PROVE  d[k + 1] = G[<<k, d[k]>>]
      <4>1. CASE k = n
        <5>1. d[n] = c[n]
          BY <3>3
        <5> QED
          BY <3>4, <4>1, <5>1
      <4>2. CASE k # n
        <5>1. k < n /\ k \in 0..n /\ k + 1 \in 0..n
          BY <3>6, <4>2
        <5> QED
          BY <3>1, <3>3, <5>1
      <4> QED
        BY <4>1, <4>2
    <3>7. d[0] = b
      <4>1. 0 \in 0..n
        OBVIOUS
      <4> QED
        BY <3>1, <3>3, <4>1
    <3>8. Chain(d, n + 1)
      <4> HIDE DEF d
      <4> QED
        BY <3>5, <3>6, <3>7
    <3> HIDE DEF Chain, d
    <3> QED
      BY <3>8
  <2>3. Nat \subseteq T
    <3> HIDE DEF T
    <3> QED
      BY <2>1, <2>2, NatSetInduction
  <2> QED
    BY <2>3
<1>2. ASSUME NEW c, NEW d, NEW n \in Nat, NEW m \in Nat, Chain(c, n), Chain(d, m)
      PROVE  \A k \in Nat : k <= n /\ k <= m => c[k] = d[k]
  <2> DEFINE T == {k \in Nat : k <= n /\ k <= m => c[k] = d[k]}
  <2>1. 0 \in T
    BY <1>2
  <2>2. ASSUME NEW k \in Nat, k \in T
        PROVE  k + 1 \in T
    <3>1. SUFFICES ASSUME k + 1 <= n, k + 1 <= m
                   PROVE  c[k + 1] = d[k + 1]
      OBVIOUS
    <3>2. k < n /\ k < m /\ k <= n /\ k <= m
      BY <3>1
    <3> QED
      BY <1>2, <2>2, <3>2
  <2>3. Nat \subseteq T
    <3> HIDE DEF T
    <3> QED
      BY <2>1, <2>2, NatSetInduction
  <2> QED
    BY <2>3
<1> DEFINE chain == [n \in Nat |-> CHOOSE c : Chain(c, n)]
           f == [n \in Nat |-> chain[n][n]]
<1>3. \A n \in Nat : Chain(chain[n], n)
  <2> HIDE DEF Chain
  <2> QED
    BY <1>1
<1> HIDE DEF chain
<1>4. f \in [Nat -> S]
  <2>1. ASSUME NEW n \in Nat
        PROVE  chain[n][n] \in S
    <3>1. n \in 0..n
      OBVIOUS
    <3> QED
      BY <1>3, <3>1
  <2> QED
    BY <2>1
<1>5. f[0] = b
  BY <1>3
<1>6. ASSUME NEW n \in Nat
      PROVE  f[n + 1] = G[<<n, f[n]>>]
  <2>1. n + 1 \in Nat /\ n < n + 1 /\ n <= n + 1 /\ n <= n
    OBVIOUS
  <2>2. chain[n + 1][n + 1] = G[<<n, chain[n + 1][n]>>]
    BY <1>3, <2>1
  <2>3. chain[n + 1][n] = chain[n][n]
    <3> HIDE DEF Chain
    <3> QED
      BY <1>2, <1>3, <2>1
  <2> QED
    BY <2>1, <2>2, <2>3
<1> HIDE DEF f
<1> QED
  BY <1>4, <1>5, <1>6

LEMMA RecursiveNumbers ==
  ASSUME NEW b \in Nat, NEW G \in [Nat \X Nat -> Nat]
  PROVE  \E f \in [Nat -> Nat] : f[0] = b /\ \A n \in Nat : f[n + 1] = G[<<n, f[n]>>]
<1> DEFINE Defined(S, c, H) ==
               \E f \in [Nat -> S] : f[0] = c /\ \A n \in Nat : f[n + 1] = H[<<n, f[n]>>]
<1>1. \A S : \A c \in S : \A H \in [Nat \X S -> S] : Defined(S, c, H)
  BY RecursiveFunction, Zenon
<1>2. Defined(Nat, b, G)
  <2> HIDE DEF Defined
  <2> QED
    BY <1>1
<1> QED
  BY <1>2

LEMMA RecursiveIntegers ==
  ASSUME NEW b \in Int, NEW G \in [Nat \X Int -> Int]
  PROVE  \E f \in [Nat -> Int] : f[0] = b /\ \A n \in Nat : f[n + 1] = G[<<n, f[n]>>]
<1> DEFINE Defined(S, c, H) ==
               \E f \in [Nat -> S] : f[0] = c /\ \A n \in Nat : f[n + 1] = H[<<n, f[n]>>]
<1>1. \A S : \A c \in S : \A H \in [Nat \X S -> S] : Defined(S, c, H)
  BY RecursiveFunction, Zenon
<1>2. Defined(Int, b, G)
  <2> HIDE DEF Defined
  <2> QED
    BY <1>1
<1> QED
  BY <1>2

----------------------------------------------------------------------------
(* Division.  The quotient and the remainder are the only numbers of their *)
(* kind.                                                                   *)
LEMMA ProductIsNat == \A a, b \in Nat : a * b \in Nat /\ a + b \in Nat
OBVIOUS

LEMMA Division ==
  ASSUME NEW a \in Nat, NEW p \in Nat, p > 0
  PROVE  a \div p \in Nat /\ a % p \in 0..(p - 1) /\ a = p * (a \div p) + (a % p)
<1>1. a % p = a - p * (a \div p)
  OBVIOUS
<1>2. a \div p \in Nat
  OBVIOUS
<1>3. p * (a \div p) \in Nat
  BY <1>2, ProductIsNat
<1>4. a % p \in 0..(p - 1)
  BY RemainderBound
<1> QED
  BY <1>1, <1>2, <1>3, <1>4

LEMMA DivisionIsUnique ==
  ASSUME NEW p \in Nat, p > 0, NEW q \in Nat, NEW r \in Nat, r < p,
         NEW a, a = p * q + r
  PROVE  a \div p = q /\ a % p = r
<1>1. a \in Nat
  BY ProductIsNat
<1>2. PICK k \in Nat, l \in 0..(p - 1) : a = p * k + l /\ a \div p = k /\ a % p = l
  BY <1>1, Division
<1> DEFINE d == q - k
<1>3. p * d = l - r
  <2>1. p * d = p * q - p * k
    OBVIOUS
  <2>2. p * q \in Nat /\ p * k \in Nat
    BY ProductIsNat
  <2>3. l \in Nat /\ p * q + r = p * k + l
    BY <1>2
  <2> HIDE DEF d
  <2> QED
    BY <2>1, <2>2, <2>3
<1>4. d \in Int
  OBVIOUS
<1> HIDE DEF d
<1>5. d >= 1 => p * d >= p
  BY <1>4
<1>6. d <= -1 => p * d <= -p
  BY <1>4
<1>7. l - r < p /\ l - r > -p /\ l \in Int
  OBVIOUS
<1>8. d = 0
  BY <1>3, <1>4, <1>5, <1>6, <1>7
<1>9. p * d = 0
  BY <1>8
<1>10. l = r
  BY <1>3, <1>7, <1>9
<1>11. q = k
  BY <1>8 DEF d
<1> QED
  BY <1>2, <1>10, <1>11

LEMMA MultiplesVanish ==
  ASSUME NEW p \in Nat, p > 0, NEW t \in Nat, NEW u \in Nat
  PROVE  (p * t + u) % p = u % p
<1>1. PICK m \in Nat, n \in 0..(p - 1) : u = p * m + n /\ u % p = n
  BY Division
<1>2. p * t + u = p * (t + m) + n
  <2>1. p * (t + m) = p * t + p * m
    OBVIOUS
  <2>2. p * t \in Nat /\ p * m \in Nat
    BY ProductIsNat
  <2> QED
    BY <1>1, <2>1, <2>2
<1>3. n \in Nat /\ n < p /\ t + m \in Nat
  OBVIOUS
<1>4. (p * t + u) % p = n
  BY <1>2, <1>3, DivisionIsUnique
<1> QED
  BY <1>1, <1>4
=============================================================================
