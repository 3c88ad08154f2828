---------------------------- MODULE EosSignProofs ----------------------------
(***************************************************************************)
(* Proofs about the signature of a transaction, EosSign: for every size of *)
(* the numbers, every order, every set of candidates and of numbers, and   *)
(* any number of turns of the loop.                                        *)
(*                                                                         *)
(* The steps: the chain of RFC 6979 exists and is what rng_rfc6979         *)
(* computes; ecdsa_der_to_sig undoes the DER encoding; check_canonical     *)
(* compares with two powers of two.                                        *)
(***************************************************************************)
EXTENDS EosSign, EosLemmas, SequenceTheorems, TLAPS

----------------------------------------------------------------------------
(* Step h.3 as a function of the state, and the states a chain goes        *)
(* through: a chain to n is a function with the first n + 1 of them.       *)
RfcFirst ==
    LET v == <<"01">>
        k == HMAC(<<"00">>, v \o <<"/00">> \o <<"x">> \o <<"h1">>)
        k2 == HMAC(k, HMAC(k, v) \o <<"/01">> \o <<"x">> \o <<"h1">>)
    IN  <<k2, HMAC(k2, HMAC(k, v))>>
RfcStep(before) ==
    LET t == HMAC(before[1], before[2])
        k == HMAC(before[1], t \o <<"/00">>)
    IN  <<k, HMAC(k, t)>>

IsChain(c, n) == c = [m \in 0..n |-> IF m = 0 THEN RfcFirst ELSE RfcStep(c[m - 1])]

LEMMA ChainExists == \A n \in Nat : \E c : IsChain(c, n)
<1> DEFINE S == {n \in Nat : \E c : IsChain(c, n)}
<1>1. 0 \in S
  <2>1. IsChain([m \in 0..0 |-> RfcFirst], 0)
    BY DEF IsChain
  <2> QED
    BY <2>1
<1>2. ASSUME NEW n \in Nat, n \in S
      PROVE  n + 1 \in S
  <2>1. PICK c : IsChain(c, n)
    BY <1>2
  <2> DEFINE d == [m \in 0..(n + 1) |-> IF m = n + 1 THEN RfcStep(c[n]) ELSE c[m]]
  <2>2. \A m \in 0..n : d[m] = c[m] /\ c[m] = IF m = 0 THEN RfcFirst ELSE RfcStep(c[m - 1])
    BY <2>1 DEF IsChain
  <2>3. ASSUME NEW m \in 0..(n + 1)
        PROVE  d[m] = IF m = 0 THEN RfcFirst ELSE RfcStep(d[m - 1])
    <3>1. CASE m = n + 1
      <4>1. d[m] = RfcStep(c[n]) /\ d[m - 1] = c[n] /\ m # 0
        BY <3>1, <2>2
      <4> QED
        BY <4>1
    <3>2. CASE m = 0
      <4>1. m # n + 1 /\ m \in 0..n
        BY <3>2
      <4>2. d[m] = c[m] /\ c[m] = RfcFirst
        BY <2>2, <3>2, <4>1
      <4> QED
        BY <3>2, <4>2
    <3>3. CASE m # 0 /\ m # n + 1
      <4>1. m \in 0..n /\ m - 1 \in 0..n
        BY <3>3
      <4> QED
        BY <2>2, <3>3, <4>1
    <3> QED
      BY <3>1, <3>2, <3>3
  <2>4. IsChain(d, n + 1)
    <3>1. d = [m \in 0..(n + 1) |-> d[m]]
      OBVIOUS
    <3> QED
      BY <2>3, <3>1 DEF IsChain
  <2> QED
    BY <2>4
<1>3. S = Nat
  <2> HIDE DEF S
  <2>1. S \subseteq Nat
    BY DEF S
  <2> QED
    BY <1>1, <1>2, <2>1, NatSetInduction
<1> QED
  BY <1>3

(* Two chains agree as far as both go.                                     *)
LEMMA ChainsAgree ==
  ASSUME NEW c, NEW d, NEW n \in Nat, NEW k \in Nat, IsChain(c, n), IsChain(d, k)
  PROVE  \A m \in Nat : m <= n /\ m <= k => c[m] = d[m]
<1> DEFINE S == {m \in Nat : m <= n /\ m <= k => c[m] = d[m]}
<1>1. \A m \in 0..n : c[m] = IF m = 0 THEN RfcFirst ELSE RfcStep(c[m - 1])
  BY DEF IsChain
<1>2. \A m \in 0..k : d[m] = IF m = 0 THEN RfcFirst ELSE RfcStep(d[m - 1])
  BY DEF IsChain
<1>3. 0 \in S
  BY <1>1, <1>2
<1>4. ASSUME NEW m \in Nat, m \in S
      PROVE  m + 1 \in S
  <2>1. SUFFICES ASSUME m + 1 <= n, m + 1 <= k
                 PROVE  c[m + 1] = d[m + 1]
    OBVIOUS
  <2>2. c[m] = d[m]
    BY <1>4, <2>1
  <2>3. m + 1 \in 0..n /\ m + 1 \in 0..k /\ m + 1 # 0 /\ (m + 1) - 1 = m
    BY <2>1
  <2>4. c[m + 1] = RfcStep(c[m]) /\ d[m + 1] = RfcStep(d[m])
    BY <1>1, <1>2, <2>3
  <2> QED
    BY <2>2, <2>4
<1>5. Nat \subseteq S
  <2> HIDE DEF S
  <2> QED
    BY <1>3, <1>4, NatSetInduction
<1> QED
  BY <1>5

(* The chain of RFC 6979 is well defined: the recursion of RfcState has a  *)
(* solution, and its first values and steps are the ones written there.    *)
LEMMA RfcChain ==
  /\ RfcState[0] = RfcFirst
  /\ \A n \in Nat : RfcState[n + 1] = RfcStep(RfcState[n])
<1> DEFINE chain == [n \in Nat |-> CHOOSE c : IsChain(c, n)]
           f == [n \in Nat |-> chain[n][n]]
<1>1. \A n \in Nat : IsChain(chain[n], n)
  BY ChainExists
<1> HIDE DEF chain
<1>2. f[0] = RfcFirst
  <2>1. chain[0][0] = RfcFirst
    <3>1. IsChain(chain[0], 0) /\ 0 \in 0..0
      BY <1>1
    <3>2. ASSUME NEW c, IsChain(c, 0)
          PROVE  c[0] = RfcFirst
      BY <3>1, <3>2 DEF IsChain
    <3> QED
      BY <3>1, <3>2
  <2> QED
    BY <2>1
<1>3. ASSUME NEW n \in Nat, n # 0
      PROVE  f[n] = RfcStep(f[n - 1])
  <2>1. n - 1 \in Nat /\ n - 1 <= n /\ n - 1 <= n - 1 /\ n \in 0..n
    BY <1>3
  <2>2. chain[n][n] = RfcStep(chain[n][n - 1])
    <3>1. ASSUME NEW c, IsChain(c, n)
          PROVE  c[n] = RfcStep(c[n - 1])
      BY <1>3, <2>1, <3>1 DEF IsChain
    <3> QED
      BY <1>1, <3>1
  <2>3. IsChain(chain[n], n) /\ IsChain(chain[n - 1], n - 1)
    BY <1>1, <2>1
  <2>4. chain[n][n - 1] = chain[n - 1][n - 1]
    BY <2>1, <2>3, ChainsAgree
  <2> QED
    BY <2>1, <2>2, <2>4
<1>4. f = [n \in Nat |-> IF n = 0 THEN RfcFirst ELSE RfcStep(f[n - 1])]
  <2>1. f = [n \in Nat |-> f[n]]
    OBVIOUS
  <2> HIDE DEF f
  <2>2. \A n \in Nat : f[n] = IF n = 0 THEN RfcFirst ELSE RfcStep(f[n - 1])
    BY <1>2, <1>3
  <2> QED
    BY <2>1, <2>2
<1> HIDE DEF f
<1>5. \E g : g = [n \in Nat |-> IF n = 0 THEN RfcFirst ELSE RfcStep(g[n - 1])]
  BY <1>4
<1>6. RfcState = CHOOSE g : g = [n \in Nat |-> IF n = 0 THEN RfcFirst ELSE RfcStep(g[n - 1])]
  BY DEF RfcState, RfcFirst, RfcStep
<1>7. RfcState = [n \in Nat |-> IF n = 0 THEN RfcFirst ELSE RfcStep(RfcState[n - 1])]
  BY <1>5, <1>6
<1>8. RfcState[0] = RfcFirst
  BY <1>7
<1>9. ASSUME NEW n \in Nat
      PROVE  RfcState[n + 1] = RfcStep(RfcState[n])
  <2>1. n + 1 \in Nat /\ n + 1 # 0 /\ (n + 1) - 1 = n
    OBVIOUS
  <2> QED
    BY <1>7, <2>1
<1> QED
  BY <1>8, <1>9

----------------------------------------------------------------------------
(* The tokens of values are in a finite set.                               *)
Tokens == {"HMAC", "(", ",", ")", "00", "01", "/00", "/01", "x", "h1"}

LEMMA HmacOfTokens ==
  ASSUME NEW key \in Seq(Tokens), NEW message \in Seq(Tokens)
  PROVE  HMAC(key, message) \in Seq(Tokens)
<1>1. <<"HMAC", "(">> \in Seq(Tokens) /\ <<",">> \in Seq(Tokens) /\ <<")">> \in Seq(Tokens)
  <2>1. "HMAC" \in Tokens /\ "(" \in Tokens /\ "," \in Tokens /\ ")" \in Tokens
    BY Zenon DEF Tokens
  <2>2. ASSUME NEW T, NEW p \in T, NEW q \in T
        PROVE  <<p, q>> \in Seq(T) /\ <<p>> \in Seq(T)
    OBVIOUS
  <2> QED
    BY <2>1, <2>2, Zenon
<1>2. ASSUME NEW T, NEW a \in Seq(T), NEW b \in Seq(T), NEW c \in Seq(T), NEW d \in Seq(T),
             NEW e \in Seq(T)
      PROVE  a \o b \o c \o d \o e \in Seq(T)
  OBVIOUS
<1> QED
  BY <1>1, <1>2 DEF HMAC

LEMMA AppendedOneByOne ==
  ASSUME NEW T, NEW s \in Seq(T), NEW a \in T, NEW b \in T, NEW c \in T
  PROVE  s \o <<a, b, c>> = s \o <<a>> \o <<b>> \o <<c>>
<1>1. /\ Len(s \o <<a, b, c>>) = Len(s) + 3
      /\ Len(s \o <<a>> \o <<b>> \o <<c>>) = Len(s) + 3
      /\ s \o <<a, b, c>> \in Seq(T) /\ s \o <<a>> \o <<b>> \o <<c>> \in Seq(T)
  OBVIOUS
<1>2. ASSUME NEW i \in 1..(Len(s) + 3)
      PROVE  (s \o <<a, b, c>>)[i] = (s \o <<a>> \o <<b>> \o <<c>>)[i]
  <2>1. CASE i <= Len(s)
    BY <2>1
  <2>2. CASE i = Len(s) + 1
    BY <2>2
  <2>3. CASE i = Len(s) + 2
    BY <2>3
  <2>4. CASE i = Len(s) + 3
    BY <2>4
  <2> QED
    BY <2>1, <2>2, <2>3, <2>4
<1> DEFINE left == s \o <<a, b, c>>
           right == s \o <<a>> \o <<b>> \o <<c>>
<1>3. /\ left \in Seq(T) /\ right \in Seq(T) /\ Len(left) = Len(right)
      /\ \A i \in 1..Len(left) : left[i] = right[i]
  BY <1>1, <1>2
<1> HIDE DEF left, right
<1>4. left = right
  BY <1>3, SeqEqual
<1> QED
  BY <1>4 DEF left, right

(* The first call, with the key, computes the first state of the chain.    *)
LEMMA SeedIsFirst == RfcFirst = <<Seed.K, Seed.V>>
<1> DEFINE V0 == <<"01">>
           K1 == HMAC(<<"00">>, V0 \o <<"/00", "x", "h1">>)
           V1 == HMAC(K1, V0)
           K2 == HMAC(K1, V1 \o <<"/01", "x", "h1">>)
           k == HMAC(<<"00">>, V0 \o <<"/00">> \o <<"x">> \o <<"h1">>)
           v == HMAC(k, V0)
           k2 == HMAC(k, v \o <<"/01">> \o <<"x">> \o <<"h1">>)
<1>1. /\ V0 \in Seq(Tokens) /\ <<"00">> \in Seq(Tokens)
      /\ "/00" \in Tokens /\ "/01" \in Tokens /\ "x" \in Tokens /\ "h1" \in Tokens
  BY DEF Tokens
<1>2. V0 \o <<"/00", "x", "h1">> \in Seq(Tokens)
  <2>1. <<"/00", "x", "h1">> \in Seq(Tokens)
    BY DEF Tokens
  <2> QED
    BY <1>1, <2>1
<1>3. V1 \in Seq(Tokens)
  BY <1>1, <1>2, HmacOfTokens
<1>4. V0 \o <<"/00", "x", "h1">> = V0 \o <<"/00">> \o <<"x">> \o <<"h1">>
  BY <1>1, AppendedOneByOne
<1>5. V1 \o <<"/01", "x", "h1">> = V1 \o <<"/01">> \o <<"x">> \o <<"h1">>
  <2> HIDE DEF V1
  <2> QED
    BY <1>1, <1>3, AppendedOneByOne
<1>6. Seed = [K |-> K2, V |-> HMAC(K2, V1)]
  BY Zenon DEF Seed
<1>7. RfcFirst = <<k2, HMAC(k2, v)>>
  BY Zenon DEF RfcFirst
<1>8. K1 = k /\ V1 = v
  BY <1>4, Zenon
<1>9. K2 = k2
  BY <1>5, <1>8, Zenon
<1>10. Seed.K = K2 /\ Seed.V = HMAC(K2, V1)
  <2> HIDE DEF K2, V1
  <2> QED
    BY <1>6
<1> QED
  BY <1>7, <1>8, <1>9, <1>10, Zenon

----------------------------------------------------------------------------
(* A number is a sequence of octets.                                       *)
LEMMA OctetsAreSequence ==
  ASSUME NEW a \in Octets
  PROVE  /\ a \in Seq(0..255) /\ Len(a) = NumSize
         /\ \A i \in 1..NumSize : a[i] \in 0..255
<1>1. NumSize \in Nat
  BY SignAssumption
<1>2. ASSUME NEW S, NEW n \in Nat, NEW f \in [1..n -> S]
      PROVE  f \in Seq(S) /\ Len(f) = n /\ \A i \in 1..n : f[i] \in S
  <2>1. f \in Seq(S)
    BY SeqDef
  <2>2. DOMAIN f = 1..n
    OBVIOUS
  <2> QED
    BY <2>1, <2>2, LenProperties
<1>3. a \in [1..NumSize -> 0..255]
  BY DEF Octets
<1> QED
  BY <1>1, <1>2, <1>3, Zenon

(* The octet a DER integer begins with: the first one that is not zero, or *)
(* the last one.                                                           *)
LEMMA FirstOctet ==
  ASSUME NEW number \in Octets
  PROVE  LET first == CHOOSE i \in 1..NumSize :
                          (number[i] # 0 \/ i = NumSize) /\ \A j \in 1..(i - 1) : number[j] = 0
         IN  /\ first \in 1..NumSize
             /\ number[first] # 0 \/ first = NumSize
             /\ \A j \in 1..(first - 1) : number[j] = 0
<1> DEFINE T == {i \in 1..NumSize : number[i] # 0 \/ i = NumSize}
<1>1. NumSize \in Nat /\ NumSize >= 1
  BY SignAssumption
<1>2. T \in SUBSET Nat /\ T # {}
  BY <1>1
<1>3. PICK m \in T : \A k \in T : m <= k
  <2> HIDE DEF T
  <2> QED
    BY <1>2, LeastNatural
<1>4. m \in 1..NumSize /\ (number[m] # 0 \/ m = NumSize)
  OBVIOUS
<1>5. \A j \in 1..(m - 1) : number[j] = 0
  <2> SUFFICES ASSUME NEW j \in 1..(m - 1), number[j] # 0
               PROVE  FALSE
    OBVIOUS
  <2>1. j \in 1..NumSize /\ ~(m <= j)
    BY <1>1, <1>4
  <2>2. j \in T
    BY <2>1
  <2> QED
    BY <1>3, <2>1, <2>2
<1>6. \E i \in 1..NumSize :
          (number[i] # 0 \/ i = NumSize) /\ \A j \in 1..(i - 1) : number[j] = 0
  BY <1>4, <1>5
<1> QED
  BY <1>6

(* A DER integer, octet by octet: z octets of the number are left out, all *)
(* of them zero, and a zero is put in front if skip is 1.                  *)
IsDerOf(D, number, z, skip) ==
    /\ D \in Seq(Nat) /\ Len(D) >= 3
    /\ D[2] = skip + (NumSize - z) /\ Len(D) = 2 + D[2]
    /\ D[3] = 0 <=> skip = 1
    /\ \A i \in 1..NumSize :
           /\ i <= z => number[i] = 0
           /\ i > z => D[2 + skip + (i - z)] = number[i]

LEMMA DerIntegerOctets ==
  ASSUME NEW number \in Octets
  PROVE  \E z \in 0..NumSize, skip \in {0, 1} : IsDerOf(DerInteger(number), number, z, skip)
<1> DEFINE first == CHOOSE i \in 1..NumSize :
                        (number[i] # 0 \/ i = NumSize) /\ \A j \in 1..(i - 1) : number[j] = 0
           octets == SubSeq(number, first, NumSize)
           signed == IF octets[1] >= 128 THEN <<0>> \o octets ELSE octets
           D == DerInteger(number)
<1>1. /\ first \in 1..NumSize /\ first \in Nat
      /\ number[first] # 0 \/ first = NumSize
      /\ \A j \in 1..(first - 1) : number[j] = 0
  <2>1. /\ first \in 1..NumSize
        /\ number[first] # 0 \/ first = NumSize
        /\ \A j \in 1..(first - 1) : number[j] = 0
    BY FirstOctet, Zenon
  <2> HIDE DEF first
  <2>2. first \in Nat
    BY <2>1
  <2> QED
    BY <2>1, <2>2
<1>2. D = <<2, Len(signed)>> \o signed
  BY Zenon DEF DerInteger
<1>3. NumSize \in Nat /\ NumSize >= 1
  BY SignAssumption
<1> HIDE DEF first, D
<1>4. number \in Seq(Nat) /\ Len(number) = NumSize /\ \A i \in 1..NumSize : number[i] \in Nat
  <2>1. /\ number \in Seq(0..255) /\ Len(number) = NumSize
        /\ \A i \in 1..NumSize : number[i] \in 0..255
    BY OctetsAreSequence, Zenon
  <2>2. \A b \in 0..255 : b \in Nat
    OBVIOUS
  <2>3. ASSUME NEW S, NEW T, NEW s \in Seq(S), \A b \in S : b \in T
        PROVE  s \in Seq(T)
    BY <2>3
  <2> QED
    BY <2>1, <2>2, <2>3, Zenon
<1>5. /\ octets \in Seq(Nat) /\ Len(octets) = NumSize - first + 1
      /\ \A i \in 1..(NumSize - first + 1) : octets[i] = number[first + i - 1]
  BY <1>1, <1>3, <1>4
<1> HIDE DEF octets
<1>6. octets[1] = number[first] /\ number[first] \in Nat
  BY <1>1, <1>3, <1>4, <1>5
<1>7. ASSUME NEW i \in 1..NumSize, i > first - 1
      PROVE  octets[i - first + 1] = number[i]
  <2>1. i - first + 1 \in 1..(NumSize - first + 1) /\ first + (i - first + 1) - 1 = i
    BY <1>1, <1>3, <1>7
  <2> QED
    BY <1>5, <2>1
<1>8. ASSUME NEW S \in Seq(Nat), S = signed
      PROVE  /\ D \in Seq(Nat) /\ Len(D) = 2 + Len(S) /\ D[2] = Len(S)
             /\ \A i \in 1..Len(S) : D[2 + i] = S[i]
  <2>1. D = <<2, Len(S)>> \o S
    BY <1>2, <1>8
  <2>2. Len(S) \in Nat
    OBVIOUS
  <2>3. <<2, Len(S)>> \in Seq(Nat) /\ Len(<<2, Len(S)>>) = 2
    BY <2>2
  <2> QED
    BY <2>1, <2>2, <2>3
<1>9. CASE octets[1] >= 128
  <2>1. signed = <<0>> \o octets
    BY <1>9
  <2> HIDE DEF signed
  <2>2. /\ signed \in Seq(Nat) /\ Len(signed) = NumSize - first + 2 /\ signed[1] = 0
        /\ \A i \in 1..(NumSize - first + 1) : signed[i + 1] = octets[i]
    BY <1>1, <1>3, <1>5, <2>1
  <2>3. /\ D \in Seq(Nat) /\ Len(D) = 2 + Len(signed) /\ D[2] = Len(signed)
        /\ \A i \in 1..Len(signed) : D[2 + i] = signed[i]
    BY <1>8, <2>2
  <2>4. D[3] = 0
    <3>1. 1 \in 1..Len(signed) /\ 2 + 1 = 3
      BY <1>1, <1>3, <2>2
    <3> QED
      BY <2>2, <2>3, <3>1
  <2>5. ASSUME NEW i \in 1..NumSize, i > first - 1
        PROVE  D[2 + 1 + (i - (first - 1))] = number[i]
    <3>1. /\ i - first + 1 \in 1..(NumSize - first + 1)
          /\ (i - first + 1) + 1 \in 1..Len(signed)
          /\ 2 + 1 + (i - (first - 1)) = 2 + ((i - first + 1) + 1)
      BY <1>1, <1>3, <2>2, <2>5
    <3> QED
      BY <1>7, <2>2, <2>3, <2>5, <3>1
  <2>6. /\ first - 1 \in 0..NumSize /\ Len(D) >= 3 /\ D[2] = 1 + (NumSize - (first - 1))
        /\ Len(D) = 2 + D[2]
        /\ \A i \in 1..NumSize : i <= first - 1 => i \in 1..(first - 1)
    BY <1>1, <1>3, <2>2, <2>3
  <2>7. IsDerOf(D, number, first - 1, 1)
    BY <1>1, <2>3, <2>4, <2>5, <2>6 DEF IsDerOf
  <2> QED
    BY <2>6, <2>7 DEF D
<1>10. CASE ~(octets[1] >= 128)
  <2>1. signed = octets
    BY <1>10
  <2>2. /\ D \in Seq(Nat) /\ Len(D) = 2 + Len(octets) /\ D[2] = Len(octets)
        /\ \A i \in 1..Len(octets) : D[2 + i] = octets[i]
    BY <1>5, <1>8, <2>1
  <2> HIDE DEF signed
  <2>3. Len(octets) \in Nat /\ Len(octets) >= 1 /\ Len(octets) = NumSize - first + 1
    BY <1>1, <1>3, <1>5
  <2>4. D[3] = number[first]
    <3>1. 1 \in 1..Len(octets) /\ 2 + 1 = 3
      BY <2>3
    <3> QED
      BY <1>6, <2>2, <3>1
  <2>5. CASE number[first] # 0
    <3>1. ASSUME NEW i \in 1..NumSize, i > first - 1
          PROVE  D[2 + 0 + (i - (first - 1))] = number[i]
      <4>1. /\ i - first + 1 \in 1..Len(octets)
            /\ 2 + 0 + (i - (first - 1)) = 2 + (i - first + 1)
        BY <1>1, <1>3, <2>3, <3>1
      <4> QED
        BY <1>7, <2>2, <3>1, <4>1
    <3>2. /\ first - 1 \in 0..NumSize /\ Len(D) >= 3 /\ D[2] = 0 + (NumSize - (first - 1))
          /\ Len(D) = 2 + D[2]
          /\ \A i \in 1..NumSize : i <= first - 1 => i \in 1..(first - 1)
      BY <1>1, <1>3, <2>2, <2>3
    <3>3. IsDerOf(D, number, first - 1, 0)
      BY <1>1, <2>2, <2>4, <2>5, <3>1, <3>2 DEF IsDerOf
    <3> QED
      BY <3>2, <3>3 DEF D
  <2>6. CASE number[first] = 0
    <3>1. first = NumSize
      BY <1>1, <2>6
    <3>2. \A i \in 1..NumSize : number[i] = 0 /\ ~(i > NumSize)
      <4>1. \A i \in 1..NumSize : i = first \/ i \in 1..(first - 1)
        BY <1>3, <3>1
      <4> QED
        BY <1>1, <1>3, <2>6, <4>1
    <3>3. /\ NumSize \in 0..NumSize /\ Len(D) >= 3 /\ D[2] = 1 + (NumSize - NumSize)
          /\ Len(D) = 2 + D[2]
      BY <1>3, <2>2, <2>3, <3>1
    <3>4. IsDerOf(D, number, NumSize, 1)
      BY <2>2, <2>4, <2>6, <3>2, <3>3 DEF IsDerOf
    <3> QED
      BY <3>3, <3>4 DEF D
  <2> QED
    BY <2>5, <2>6
<1> QED
  BY <1>9, <1>10

(* Wherever a DER integer stands in a buffer, SigInteger reads the number  *)
(* it was made of, and ends where it ends.                                 *)
LEMMA SigIntegerReads ==
  ASSUME NEW number \in Octets, NEW der, NEW offset \in Nat,
         \A k \in 1..Len(DerInteger(number)) : der[offset + k] = DerInteger(number)[k]
  PROVE  /\ SigInteger(der, offset).number = number
         /\ SigInteger(der, offset).end = offset + Len(DerInteger(number))
<1> DEFINE D == DerInteger(number)
<1>1. PICK z \in 0..NumSize, put \in {0, 1} : IsDerOf(D, number, z, put)
  BY DerIntegerOctets
<1>2. \A k \in 1..Len(D) : der[offset + k] = D[k]
  OBVIOUS
<1> HIDE DEF D
<1>3. NumSize \in Nat /\ z \in Nat /\ z <= NumSize /\ put \in Nat /\ put <= 1
  BY <1>1, SignAssumption
<1>4. Len(D) \in Nat /\ Len(D) >= 3 /\ D[2] = put + (NumSize - z) /\ Len(D) = 2 + D[2]
  BY <1>1 DEF IsDerOf
<1> DEFINE skip == IF der[offset + 3] = 0 THEN 1 ELSE 0
           length == der[offset + 2] - skip
           delta == NumSize - length
           read == [i \in 1..NumSize |->
                        IF i <= delta THEN 0 ELSE der[offset + 2 + skip + i - delta]]
<1>5. /\ SigInteger(der, offset).number = read
      /\ SigInteger(der, offset).end = offset + 2 + skip + length
  BY DEF SigInteger
<1>6. skip = put
  <2>1. 3 \in 1..Len(D)
    BY <1>4
  <2>2. der[offset + 3] = D[3]
    BY <1>2, <2>1
  <2> QED
    BY <1>1, <2>2 DEF IsDerOf
<1>7. der[offset + 2] = put + (NumSize - z)
  <2>1. 2 \in 1..Len(D)
    BY <1>4
  <2> QED
    BY <1>2, <1>4, <2>1
<1> HIDE DEF skip
<1>8. length = NumSize - z /\ delta = z
  BY <1>3, <1>6, <1>7
<1> HIDE DEF length, delta
<1>9. ASSUME NEW i \in 1..NumSize
      PROVE  read[i] = number[i]
  <2>1. CASE i <= z
    <3>1. read[i] = 0
      BY <1>8, <2>1
    <3> QED
      BY <1>1, <2>1, <3>1 DEF IsDerOf
  <2>2. CASE i > z
    <3>1. read[i] = der[offset + 2 + put + i - z]
      BY <1>3, <1>6, <1>8, <2>2
    <3>2. /\ 2 + put + (i - z) \in 1..Len(D)
          /\ offset + 2 + put + i - z = offset + (2 + put + (i - z))
      BY <1>3, <1>4, <2>2
    <3>3. read[i] = D[2 + put + (i - z)]
      BY <1>2, <3>1, <3>2
    <3> QED
      BY <1>1, <2>2, <3>3 DEF IsDerOf
  <2> QED
    BY <1>3, <2>1, <2>2
<1>10. read = number
  <2>1. read = [i \in 1..NumSize |-> read[i]] /\ number = [i \in 1..NumSize |-> number[i]]
    BY DEF Octets
  <2> HIDE DEF read
  <2> QED
    BY <1>9, <2>1
<1>11. offset + 2 + skip + length = offset + Len(D)
  BY <1>3, <1>4, <1>6, <1>8
<1> QED
  BY <1>5, <1>10, <1>11 DEF D

(* ecdsa_der_to_sig undoes the DER encoding of a signature.                *)
LEMMA DerRoundTrip ==
  ASSUME NEW r \in Octets, NEW s \in Octets, NEW odd \in BOOLEAN
  PROVE  LET der == Der([r |-> r, s |-> s, odd |-> odd])
         IN  /\ ecdsa_der_to_sig(der) = r \o s
             /\ 27 + 4 + (der[1] % 2) = 31 + (IF odd THEN 1 ELSE 0)
<1> DEFINE R == DerInteger(r)
           S == DerInteger(s)
           head == 48 + (IF odd THEN 1 ELSE 0)
           der == Der([r |-> r, s |-> s, odd |-> odd])
<1>1. der = <<head, Len(R \o S)>> \o (R \o S)
  BY DEF Der
<1>2. R \in Seq(Nat) /\ S \in Seq(Nat)
  BY DerIntegerOctets DEF IsDerOf
<1>3. head \in Nat
  OBVIOUS
<1>4. ASSUME NEW A \in Seq(Nat), NEW B \in Seq(Nat), NEW h \in Nat, NEW d,
             d = <<h, Len(A \o B)>> \o (A \o B)
      PROVE  /\ d[1] = h
             /\ \A k \in 1..Len(A) : d[2 + k] = A[k]
             /\ \A k \in 1..Len(B) : d[(2 + Len(A)) + k] = B[k]
  <2> DEFINE p == <<h, Len(A \o B)>>
             q == A \o B
  <2>1. /\ q \in Seq(Nat) /\ Len(q) = Len(A) + Len(B) /\ Len(A) \in Nat /\ Len(B) \in Nat
        /\ \A i \in 1..(Len(A) + Len(B)) : q[i] = IF i <= Len(A) THEN A[i] ELSE B[i - Len(A)]
    BY ConcatProperties, LenProperties
  <2>2. p \in Seq(Nat) /\ Len(p) = 2 /\ p[1] = h
    BY <2>1
  <2> HIDE DEF p, q
  <2>3. \A i \in 1..(2 + Len(q)) : (p \o q)[i] = IF i <= 2 THEN p[i] ELSE q[i - 2]
    <3>1. \A i \in 1..(Len(p) + Len(q)) :
              (p \o q)[i] = IF i <= Len(p) THEN p[i] ELSE q[i - Len(p)]
      <4>1. p \in Seq(Nat) /\ q \in Seq(Nat)
        BY <2>1, <2>2, Zenon
      <4> QED
        BY <4>1, ConcatProperties
    <3>2. Len(p) = 2
      BY <2>2
    <3> QED
      BY <3>1, <3>2, Zenon
  <2>4. d = p \o q
    BY <1>4 DEF p, q
  <2>5. d[1] = h
    <3>1. 1 \in 1..(2 + Len(q))
      BY <2>1
    <3> QED
      BY <2>2, <2>3, <2>4, <3>1
  <2>6. ASSUME NEW k \in 1..Len(A)
        PROVE  d[2 + k] = A[k]
    <3>1. /\ 2 + k \in 1..(2 + Len(q)) /\ ~(2 + k <= 2) /\ (2 + k) - 2 = k
          /\ k \in 1..(Len(A) + Len(B)) /\ k <= Len(A)
      BY <2>1
    <3> QED
      BY <2>1, <2>3, <2>4, <3>1
  <2>7. ASSUME NEW k \in 1..Len(B)
        PROVE  d[(2 + Len(A)) + k] = B[k]
    <3> DEFINE at == (2 + Len(A)) + k
    <3>1. /\ at \in 1..(2 + Len(q)) /\ ~(at <= 2) /\ at - 2 = Len(A) + k
          /\ Len(A) + k \in 1..(Len(A) + Len(B)) /\ ~(Len(A) + k <= Len(A))
          /\ (Len(A) + k) - Len(A) = k
      BY <2>1
    <3> HIDE DEF at
    <3>2. d[at] = q[Len(A) + k]
      BY <2>3, <2>4, <3>1
    <3>3. q[Len(A) + k] = B[k]
      BY <2>1, <3>1
    <3> QED
      BY <3>2, <3>3 DEF at
  <2> QED
    BY <2>5, <2>6, <2>7
<1> HIDE DEF der
<1>5. /\ der[1] = head
      /\ \A k \in 1..Len(R) : der[2 + k] = R[k]
      /\ \A k \in 1..Len(S) : der[(2 + Len(R)) + k] = S[k]
  <2> HIDE DEF R, S, head
  <2> DEFINE Parts(A, B, h, d) == /\ d[1] = h
                                  /\ \A k \in 1..Len(A) : d[2 + k] = A[k]
                                  /\ \A k \in 1..Len(B) : d[(2 + Len(A)) + k] = B[k]
  <2>1. \A A, B \in Seq(Nat) : \A h \in Nat : \A d :
            d = <<h, Len(A \o B)>> \o (A \o B) => Parts(A, B, h, d)
    BY <1>4, Zenon
  <2> HIDE DEF Parts
  <2>2. Parts(R, S, head, der)
    BY <1>1, <1>2, <1>3, <2>1, Zenon
  <2> QED
    BY <2>2, Zenon DEF Parts
<1>6. 2 + Len(R) \in Nat /\ 2 \in Nat
  <2> HIDE DEF R
  <2> QED
    BY <1>2
<1>7. SigInteger(der, 2).number = r /\ SigInteger(der, 2).end = 2 + Len(R)
  BY <1>5, <1>6, SigIntegerReads
<1>8. SigInteger(der, 2 + Len(R)).number = s
  BY <1>5, <1>6, SigIntegerReads
<1>9. ecdsa_der_to_sig(der) = r \o s
  BY <1>7, <1>8, Zenon DEF ecdsa_der_to_sig
<1>10. 27 + 4 + (der[1] % 2) = 31 + (IF odd THEN 1 ELSE 0)
  BY <1>5
<1> QED
  BY <1>9, <1>10 DEF der

----------------------------------------------------------------------------
(* The octets check_canonical looks at compare a number with two powers of *)
(* two.                                                                    *)
LEMMA CanonicalOctets ==
  ASSUME NEW a \in Octets
  PROVE  CanonicalNumber(a) <=> a[1] < 128 /\ ~(a[1] = 0 /\ a[2] < 128)
<1>1. NumSize \in Nat /\ NumSize >= 2 /\ 1 \in 1..NumSize /\ 2 \in 1..NumSize
  BY SignAssumption
<1>2. \A i \in 1..NumSize : a[i] \in Nat
  <2>1. \A b \in 0..255 : b \in Nat
    OBVIOUS
  <2> QED
    BY <2>1 DEF Octets
<1>3. \A k, i \in 1..NumSize : HighBit(k)[i] = IF i = k THEN 128 ELSE 0
  BY DEF HighBit
<1>4. Less(a, HighBit(1)) <=> a[1] < 128
  <2>1. ASSUME NEW i \in 1..NumSize, a[i] < HighBit(1)[i]
        PROVE  a[1] < 128
    <3>1. CASE i = 1
      BY <1>1, <1>3, <2>1, <3>1
    <3>2. CASE i # 1
      BY <1>1, <1>2, <1>3, <2>1, <3>2
    <3> QED
      BY <3>1, <3>2
  <2>2. ASSUME a[1] < 128
        PROVE  Less(a, HighBit(1))
    <3>1. a[1] < HighBit(1)[1] /\ \A j \in 1..(1 - 1) : a[j] = HighBit(1)[j]
      BY <1>1, <1>3, <2>2
    <3> QED
      BY <1>1, <3>1 DEF Less
  <2> QED
    BY <2>1, <2>2 DEF Less
<1>5. Less(a, HighBit(2)) <=> a[1] = 0 /\ a[2] < 128
  <2>1. ASSUME NEW i \in 1..NumSize, a[i] < HighBit(2)[i],
               \A j \in 1..(i - 1) : a[j] = HighBit(2)[j]
        PROVE  a[1] = 0 /\ a[2] < 128
    <3>1. i = 2
      BY <1>1, <1>2, <1>3, <2>1
    <3>2. 1 \in 1..(i - 1)
      BY <3>1
    <3> QED
      BY <1>1, <1>3, <2>1, <3>1, <3>2
  <2>2. ASSUME a[1] = 0, a[2] < 128
        PROVE  Less(a, HighBit(2))
    <3>1. HighBit(2)[1] = 0 /\ HighBit(2)[2] = 128
      BY <1>1, <1>3
    <3>2. a[2] < HighBit(2)[2] /\ \A j \in 1..(2 - 1) : a[j] = HighBit(2)[j]
      BY <2>2, <3>1
    <3> QED
      BY <1>1, <3>2 DEF Less
  <2> QED
    BY <2>1, <2>2 DEF Less
<1> QED
  BY <1>4, <1>5 DEF CanonicalNumber

LEMMA BothCanonical ==
  ASSUME NEW r \in Octets, NEW s \in Octets
  PROVE  /\ Len(r \o s) = 2 * NumSize
         /\ r \o s \in Seq(0..255)
         /\ check_canonical(r \o s) <=> CanonicalNumber(r) /\ CanonicalNumber(s)
<1>1. NumSize \in Nat /\ NumSize >= 2
  BY SignAssumption
<1>2. /\ r \in Seq(0..255) /\ Len(r) = NumSize
      /\ s \in Seq(0..255) /\ Len(s) = NumSize
  BY OctetsAreSequence, Zenon
<1>3. /\ r \o s \in Seq(0..255) /\ Len(r \o s) = Len(r) + Len(s)
      /\ \A i \in 1..(Len(r) + Len(s)) :
             (r \o s)[i] = IF i <= Len(r) THEN r[i] ELSE s[i - Len(r)]
  <2>1. PICK S : S = 0..255
    OBVIOUS
  <2>2. r \in Seq(S) /\ s \in Seq(S)
    BY <1>2, <2>1
  <2>3. /\ r \o s \in Seq(S) /\ Len(r \o s) = Len(r) + Len(s)
        /\ \A i \in 1..(Len(r) + Len(s)) :
               (r \o s)[i] = IF i <= Len(r) THEN r[i] ELSE s[i - Len(r)]
    BY <2>2, ConcatProperties
  <2> QED
    BY <2>1, <2>3
<1>4. \A i \in 1..(NumSize + NumSize) :
          (r \o s)[i] = IF i <= NumSize THEN r[i] ELSE s[i - NumSize]
  BY <1>2, <1>3, Zenon
<1> DEFINE rs == r \o s
<1> HIDE DEF rs
<1>5. /\ rs[0 + 1] = r[1] /\ rs[0 + 2] = r[2]
      /\ rs[NumSize + 1] = s[1] /\ rs[NumSize + 2] = s[2]
  <2>1. \A i \in 1..(NumSize + NumSize) : rs[i] = IF i <= NumSize THEN r[i] ELSE s[i - NumSize]
    BY <1>4 DEF rs
  <2>2. /\ 0 + 1 = 1 /\ 0 + 2 = 2
        /\ 1 \in 1..(NumSize + NumSize) /\ 1 <= NumSize
        /\ 2 \in 1..(NumSize + NumSize) /\ 2 <= NumSize
        /\ NumSize + 1 \in 1..(NumSize + NumSize) /\ ~(NumSize + 1 <= NumSize)
        /\ NumSize + 2 \in 1..(NumSize + NumSize) /\ ~(NumSize + 2 <= NumSize)
        /\ (NumSize + 1) - NumSize = 1 /\ (NumSize + 2) - NumSize = 2
    BY <1>1
  <2> QED
    BY <2>1, <2>2
<1>6. check_canonical(rs) <=>
          /\ rs[0 + 1] < 128 /\ ~(rs[0 + 1] = 0 /\ rs[0 + 2] < 128)
          /\ rs[NumSize + 1] < 128 /\ ~(rs[NumSize + 1] = 0 /\ rs[NumSize + 2] < 128)
  BY DEF check_canonical
<1>7. check_canonical(rs) <=> CanonicalNumber(r) /\ CanonicalNumber(s)
  BY <1>5, <1>6, CanonicalOctets, Zenon
<1>8. Len(r \o s) = 2 * NumSize
  BY <1>1, <1>2, <1>3
<1> QED
  BY <1>3, <1>7, <1>8 DEF rs

----------------------------------------------------------------------------
(* What holds in each state.  A signature takes a candidate, so there are  *)
(* always fewer tries than candidates when one is made; K is the first     *)
(* half of the state of the chain that V is the candidate of.              *)
FollowsChain ==
    candidates > 0 => K = RfcState[candidates - 1][1] /\ V = RfcCandidate(candidates)

SignInv ==
    /\ SignTypeOK
    /\ pc = "sign" => tries < candidates
    /\ FollowsChain
    /\ SignatureIsCanonical

LEMMA SignInitInv == Init => SignInv
<1> SUFFICES ASSUME Init PROVE SignInv
  OBVIOUS
<1>1. MaxCandidates \in Nat
  BY SignAssumption
<1>2. Len(result) = 0
  BY DEF Init
<1>3. SignTypeOK
  <2>1. tries \in 0..candidates /\ candidates \in 0..MaxCandidates
    BY <1>1 DEF Init
  <2>2. x = (candidates = 0)
    BY Zenon DEF Init
  <2>3. pc \in {"rng", "sign", "done"} /\ rnd \in Candidates \cup {<<>>}
    BY DEF Init
  <2>4. Len(result) \in {0, 1 + 2 * NumSize}
    BY <1>2
  <2> QED
    BY <2>1, <2>2, <2>3, <2>4 DEF SignTypeOK
<1> QED
  BY <1>3 DEF Init, SignInv, FollowsChain, SignatureIsCanonical

LEMMA StatesOfChain ==
  ASSUME NEW n \in Nat
  PROVE  /\ n # 0 => RfcState[n] = RfcStep(RfcState[n - 1])
         /\ RfcState[0] = RfcFirst
<1>1. n # 0 => n - 1 \in Nat /\ (n - 1) + 1 = n
  OBVIOUS
<1> QED
  BY <1>1, RfcChain

LEMMA RngKeeps ==
  ASSUME SignInv, rng_rfc6979
  PROVE  SignInv'
<1>1. /\ candidates \in Nat /\ tries \in Nat /\ tries <= candidates
      /\ candidates < MaxCandidates /\ MaxCandidates \in Nat
      /\ candidates' = candidates + 1 /\ tries' = tries
  BY SignAssumption DEF SignInv, SignTypeOK, rng_rfc6979
<1>2. SignTypeOK'
  <2>1. pc' \in {"rng", "sign", "done"}
    BY DEF rng_rfc6979
  <2>2. tries' \in 0..candidates' /\ candidates' \in 0..MaxCandidates
    BY <1>1
  <2>3. x' = (candidates' = 0)
    <3>1. x' = FALSE
      BY DEF rng_rfc6979
    <3>2. ~(candidates' = 0)
      BY <1>1
    <3> QED
      BY <3>1, <3>2
  <2>4. rnd' \in Candidates \cup {<<>>}
    BY DEF rng_rfc6979
  <2>5. Len(result') \in {0, 1 + 2 * NumSize}
    BY DEF SignInv, SignTypeOK, rng_rfc6979
  <2> QED
    BY <2>1, <2>2, <2>3, <2>4, <2>5 DEF SignTypeOK
<1>3. FollowsChain'
  <2> DEFINE n == candidates
  <2>1. n \in Nat /\ candidates' - 1 = n
    BY <1>1
  <2>2. K' = RfcState[n][1] /\ V' = HMAC(RfcState[n][1], RfcState[n][2])
    <3>1. CASE n = 0
      <4>1. x = TRUE
        BY <3>1 DEF SignInv, SignTypeOK
      <4>2. K' = Seed.K /\ V' = HMAC(Seed.K, Seed.V)
        BY <4>1 DEF rng_rfc6979
      <4>3. RfcState[n] = <<Seed.K, Seed.V>>
        BY <3>1, SeedIsFirst, RfcChain
      <4>4. RfcState[n][1] = Seed.K /\ RfcState[n][2] = Seed.V
        BY <4>3
      <4> QED
        BY <4>2, <4>4
    <3>2. CASE n # 0
      <4> DEFINE before == RfcState[n - 1]
                 k == HMAC(before[1], HMAC(before[1], before[2]) \o <<"/00">>)
                 v == HMAC(k, HMAC(before[1], before[2]))
      <4>1. x = FALSE
        BY <3>2 DEF SignInv, SignTypeOK
      <4>2. n > 0
        BY <1>1, <3>2
      <4>3. K = before[1] /\ V = HMAC(before[1], before[2])
        BY <4>2 DEF SignInv, FollowsChain, RfcCandidate
      <4>4. Again = [K |-> k, V |-> v]
        BY <4>3, Zenon DEF Again
      <4>5. K' = Again.K /\ V' = HMAC(Again.K, Again.V)
        BY <4>1 DEF rng_rfc6979
      <4>6. RfcState[n] = <<k, v>>
        BY <2>1, <3>2, StatesOfChain DEF RfcStep
      <4> HIDE DEF k, v
      <4>7. Again.K = k /\ Again.V = v /\ RfcState[n][1] = k /\ RfcState[n][2] = v
        BY <4>4, <4>6
      <4> QED
        BY <4>5, <4>7
    <3> QED
      BY <3>1, <3>2
  <2> QED
    BY <2>1, <2>2 DEF FollowsChain, RfcCandidate
<1>4. pc' = "sign" => tries' < candidates'
  BY <1>1
<1>5. SignatureIsCanonical'
  <2>1. pc' # "done"
    BY DEF rng_rfc6979
  <2> QED
    BY <2>1 DEF SignatureIsCanonical
<1> QED
  BY <1>2, <1>3, <1>4, <1>5 DEF SignInv

(* A turn with a signature: what is sent, and when the loop ends.          *)
LEMMA SignatureSent ==
  ASSUME sign_hash_and_set_result
  PROVE  \E r, s \in Octets, odd \in BOOLEAN :
             LET canonical == CanonicalNumber(r) /\ CanonicalNumber(s)
             IN  /\ signature' = [r |-> r, s |-> s, odd |-> odd]
                 /\ result' = <<31 + (IF odd THEN 1 ELSE 0)>> \o (r \o s)
                 /\ canonical => pc' = "done" /\ tries' = tries /\ x' = x
                 /\ ~canonical => pc' = "rng" /\ tries' = tries + 1 /\ x' = (tries' = 0)
<1>1. PICK r \in Numbers, s \in Numbers, odd \in BOOLEAN :
          /\ signature' = [r |-> r, s |-> s, odd |-> odd]
          /\ LET der == Der(signature')
                 rs == ecdsa_der_to_sig(der)
             IN  /\ result' = <<27 + 4 + (der[1] % 2)>> \o rs
                 /\ IF check_canonical(rs)
                    THEN pc' = "done" /\ UNCHANGED <<tries, x>>
                    ELSE pc' = "rng" /\ tries' = tries + 1 /\ x' = (tries' = 0)
  BY Zenon DEF sign_hash_and_set_result
<1>2. r \in Octets /\ s \in Octets
  BY SignAssumption
<1> DEFINE der == Der([r |-> r, s |-> s, odd |-> odd])
<1>3. Der(signature') = der
  BY <1>1, Zenon
<1>4. /\ ecdsa_der_to_sig(der) = r \o s
      /\ 27 + 4 + (der[1] % 2) = 31 + (IF odd THEN 1 ELSE 0)
  BY <1>2, DerRoundTrip, Zenon
<1>5. check_canonical(r \o s) <=> CanonicalNumber(r) /\ CanonicalNumber(s)
  BY <1>2, BothCanonical
<1>6. result' = <<31 + (IF odd THEN 1 ELSE 0)>> \o (r \o s)
  BY <1>1, <1>3, <1>4, Zenon
<1>7. IF check_canonical(r \o s)
      THEN pc' = "done" /\ UNCHANGED <<tries, x>>
      ELSE pc' = "rng" /\ tries' = tries + 1 /\ x' = (tries' = 0)
  BY <1>1, <1>3, <1>4, Zenon
<1>8. CASE CanonicalNumber(r) /\ CanonicalNumber(s)
  <2>1. pc' = "done" /\ tries' = tries /\ x' = x
    BY <1>5, <1>7, <1>8, Zenon
  <2> QED
    BY <1>1, <1>2, <1>6, <1>8, <2>1, Zenon
<1>9. CASE ~(CanonicalNumber(r) /\ CanonicalNumber(s))
  <2>1. pc' = "rng" /\ tries' = tries + 1 /\ x' = (tries' = 0)
    BY <1>5, <1>7, <1>9, Zenon
  <2> QED
    BY <1>1, <1>2, <1>6, <1>9, <2>1, Zenon
<1> QED
  BY <1>8, <1>9

LEMMA SignatureKeeps ==
  ASSUME SignInv, sign_hash_and_set_result
  PROVE  SignInv'
<1>1. PICK r \in Octets, s \in Octets, odd \in BOOLEAN :
          /\ signature' = [r |-> r, s |-> s, odd |-> odd]
          /\ result' = <<31 + (IF odd THEN 1 ELSE 0)>> \o (r \o s)
          /\ CanonicalNumber(r) /\ CanonicalNumber(s)
                 => pc' = "done" /\ tries' = tries /\ x' = x
          /\ ~(CanonicalNumber(r) /\ CanonicalNumber(s))
                 => pc' = "rng" /\ tries' = tries + 1 /\ x' = (tries' = 0)
  BY SignatureSent, Zenon
<1>2. /\ candidates \in Nat /\ tries \in Nat /\ tries < candidates
      /\ candidates <= MaxCandidates /\ MaxCandidates \in Nat
  BY SignAssumption DEF SignInv, SignTypeOK, sign_hash_and_set_result
<1>3. candidates' = candidates /\ K' = K /\ V' = V /\ rnd' = rnd
  BY DEF sign_hash_and_set_result
<1>4. Len(result') = 1 + 2 * NumSize
  <2>1. r \o s \in Seq(0..255) /\ Len(r \o s) = 2 * NumSize
    BY BothCanonical, Zenon
  <2>2. ASSUME NEW h \in Nat, NEW t \in Seq(0..255)
        PROVE  Len(<<h>> \o t) = 1 + Len(t)
    OBVIOUS
  <2>3. 31 + (IF odd THEN 1 ELSE 0) \in Nat
    OBVIOUS
  <2> QED
    BY <1>1, <2>1, <2>2, <2>3, Zenon
<1>5. SignTypeOK'
  <2>1. /\ pc' \in {"rng", "sign", "done"}
        /\ tries' \in 0..candidates' /\ candidates' \in 0..MaxCandidates
    BY <1>1, <1>2, <1>3
  <2>2. x' = (candidates' = 0)
    <3>1. ~(candidates' = 0) /\ ~(tries + 1 = 0) /\ ~(candidates = 0)
      BY <1>2, <1>3
    <3>2. x = FALSE
      BY <3>1 DEF SignInv, SignTypeOK
    <3>3. x' = FALSE
      BY <1>1, <3>1, <3>2, Zenon
    <3> QED
      BY <3>1, <3>3
  <2>3. rnd' \in Candidates \cup {<<>>}
    BY <1>3 DEF SignInv, SignTypeOK
  <2> QED
    BY <1>4, <2>1, <2>2, <2>3 DEF SignTypeOK
<1>6. FollowsChain'
  <2>1. FollowsChain
    BY DEF SignInv
  <2> QED
    BY <1>3, <2>1 DEF FollowsChain, RfcCandidate
<1>7. SignatureIsCanonical'
  <2>1. signature.r' = r /\ signature.s' = s /\ signature.odd' = odd
    BY <1>1
  <2>2. <<31 + (IF odd THEN 1 ELSE 0)>> \o (r \o s)
            = <<31 + (IF odd THEN 1 ELSE 0)>> \o r \o s
    <3>1. r \in Seq(Nat) /\ s \in Seq(Nat)
      <4>1. r \in Seq(0..255) /\ s \in Seq(0..255)
        BY OctetsAreSequence, Zenon
      <4>2. 0..255 \subseteq Nat
        OBVIOUS
      <4> QED
        BY <4>1, <4>2, SeqMonotonic
    <3>2. PICK head : head = <<31 + (IF odd THEN 1 ELSE 0)>> /\ head \in Seq(Nat)
      <4>1. <<31 + (IF odd THEN 1 ELSE 0)>> \in Seq(Nat)
        OBVIOUS
      <4> QED
        BY <4>1
    <3>3. (head \o r) \o s = head \o (r \o s)
      BY <3>1, <3>2, ConcatAssociative
    <3> QED
      BY <3>2, <3>3
  <2>3. pc' = "done" => CanonicalNumber(r) /\ CanonicalNumber(s)
    BY <1>1
  <2> QED
    BY <1>1, <2>1, <2>2, <2>3, Zenon DEF SignatureIsCanonical, CanonicalNumber, Less
<1> QED
  <2>1. pc' # "sign"
    BY <1>1
  <2> QED
    BY <1>5, <1>6, <1>7, <2>1 DEF SignInv

THEOREM SignInvariant == SignSpec => []SignInv
<1>1. SignInv /\ [SignNext]_vars => SignInv'
  <2> SUFFICES ASSUME SignInv, [SignNext]_vars PROVE SignInv'
    OBVIOUS
  <2>1. CASE rng_rfc6979
    BY <2>1, RngKeeps
  <2>2. CASE sign_hash_and_set_result
    BY <2>2, SignatureKeeps
  <2>3. CASE UNCHANGED vars
    <3>1. FollowsChain'
      BY <2>3 DEF SignInv, FollowsChain, RfcCandidate, vars
    <3>2. SignTypeOK'
      BY <2>3 DEF SignInv, SignTypeOK, vars
    <3>3. SignatureIsCanonical'
      <4>1. SignatureIsCanonical /\ pc' = pc /\ result' = result /\ signature' = signature
        BY <2>3 DEF SignInv, vars
      <4> QED
        BY <4>1, Zenon DEF SignatureIsCanonical, CanonicalNumber, Less
    <3>4. pc' = "sign" => tries' < candidates'
      BY <2>3 DEF SignInv, vars
    <3> QED
      BY <3>1, <3>2, <3>3, <3>4 DEF SignInv
  <2> QED
    BY <2>1, <2>2, <2>3 DEF SignNext
<1> QED
  BY SignInitInv, <1>1, PTL DEF SignSpec

(* The variables of the loop have their types, and tries never passes the  *)
(* number of candidates.                                                   *)
THEOREM SignTypes == SignSpec => []SignTypeOK
<1>1. SignInv => SignTypeOK
  BY DEF SignInv
<1> QED
  BY <1>1, SignInvariant, PTL

(* Over all calls of rng_rfc6979 for a transaction, V is the next          *)
(* candidate of the chain of RFC 6979: no nonce is used twice.             *)
THEOREM NoncesOfChain == SignSpec => []NoncesFollowRfc6979
<1>1. SignInv => NoncesFollowRfc6979
  BY DEF SignInv, FollowsChain, NoncesFollowRfc6979
<1> QED
  BY <1>1, SignInvariant, PTL

(* What is sent is the last signature, unchanged by the DER encoding and   *)
(* its decoding, and both its numbers are canonical.                       *)
THEOREM SentSignatureIsCanonical == SignSpec => []SignatureIsCanonical
<1>1. SignInv => SignatureIsCanonical
  BY DEF SignInv
<1> QED
  BY <1>1, SignInvariant, PTL

(* The first signature with canonical numbers ends the loop.               *)
THEOREM FirstCanonicalEndsLoop == SignSpec => FirstCanonicalIsSent
<1>1. ASSUME sign_hash_and_set_result, pc' = "rng"
      PROVE  ~(CanonicalNumber(signature'.r) /\ CanonicalNumber(signature'.s))
  <2>1. PICK r \in Octets, s \in Octets, odd \in BOOLEAN :
            /\ signature' = [r |-> r, s |-> s, odd |-> odd]
            /\ CanonicalNumber(r) /\ CanonicalNumber(s)
                   => pc' = "done" /\ tries' = tries /\ x' = x
    BY <1>1, SignatureSent, Zenon
  <2>2. signature'.r = r /\ signature'.s = s
    BY <2>1
  <2>3. pc' # "done"
    BY <1>1
  <2> QED
    BY <2>1, <2>2, <2>3, Zenon
<1> QED
  BY <1>1, PTL DEF SignSpec, FirstCanonicalIsSent

(* Found compares octet by octet and not as a number; still a candidate it *)
(* passes over is at least the order.                                      *)
THEOREM CandidatesAreTried == SignSpec => NoCandidateSkipped
<1>1. ASSUME rng_rfc6979, pc' = "rng"
      PROVE  ~Less(rnd', Order)
  <2>1. ~Found(rnd')
    BY <1>1 DEF rng_rfc6979
  <2>2. ASSUME NEW i \in 1..NumSize
        PROVE  ~(rnd'[i] < Order[i])
    BY <2>1 DEF Found
  <2> QED
    BY <2>2 DEF Less
<1> QED
  BY <1>1, PTL DEF SignSpec, NoCandidateSkipped
=============================================================================
