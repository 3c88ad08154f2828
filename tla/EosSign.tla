------------------------------- MODULE EosSign -------------------------------
(***************************************************************************)
(* The signature of a transaction: sign_hash_and_set_result of src/main.c  *)
(* with rng_rfc6979, ecdsa_der_to_sig and check_canonical of               *)
(* src/eos_utils.c.  A nonce is derived from the key and the hash; while   *)
(* the signature with it is not what EOS calls canonical, the next nonce   *)
(* of the same chain is tried.                                             *)
(*                                                                         *)
(* HMAC is a symbol: a value is the sequence of tokens that computes it.   *)
(* As octets, such a value can be anything.  External: cx_ecdsa_sign       *)
(* returns any pair of numbers below the order and a parity.               *)
(***************************************************************************)
EXTENDS Naturals, Sequences

CONSTANTS
    NumSize,        \* octets of a number, 32 in the code
    Order,          \* SECP256K1_N, as octets
    Candidates,     \* the octets an HMAC may have
    Numbers,        \* the octets of the numbers of a signature
    MaxCandidates   \* bound on the candidates

Octets == [1..NumSize -> 0..255]

ASSUME SignAssumption ==
    /\ NumSize \in Nat \ {0, 1}
    /\ Order \in Octets /\ Candidates \subseteq Octets /\ Numbers \subseteq Octets
    /\ MaxCandidates \in Nat

VARIABLES
    pc,             \* "rng" and "sign" in the loop, "done" behind it
    x,              \* whether the key is passed to rng_rfc6979
    tries,
    V, K,
    rnd,            \* the candidate in G_io_apdu_buffer + 100
    result,         \* the first 65 octets of G_io_apdu_buffer
    candidates,     \* history: how many candidates were computed
    signature       \* history: the last answer of cx_ecdsa_sign

vars == <<pc, x, tries, V, K, rnd, result, candidates, signature>>

NoSignature == [r |-> [i \in 1..NumSize |-> 0], s |-> [i \in 1..NumSize |-> 0], odd |-> FALSE]

Init ==
    /\ pc = "rng" /\ x = TRUE /\ tries = 0
    /\ V = <<>> /\ K = <<>> /\ rnd = <<>> /\ result = <<>>
    /\ candidates = 0
    /\ signature = NoSignature

----------------------------------------------------------------------------
HMAC(key, message) == <<"HMAC", "(">> \o key \o <<",">> \o message \o <<")">>

(* Steps b to g, with the key; step h.3, without.                          *)
Seed ==
    LET V0 == <<"01">>
        K1 == HMAC(<<"00">>, V0 \o <<"/00", "x", "h1">>)
        V1 == HMAC(K1, V0)
        K2 == HMAC(K1, V1 \o <<"/01", "x", "h1">>)
    IN  [K |-> K2, V |-> HMAC(K2, V1)]

AgainSameKey == [K |-> K, V |-> HMAC(K, V)]
Again ==
    LET K1 == HMAC(K, V \o <<"/00">>)
    IN  [K |-> K1, V |-> HMAC(K1, V)]

(* Step h.3, "Check T is < n", octet by octet.                             *)
FoundByFirst(candidate) == candidate[1] < Order[1]
Found(candidate) == \E i \in 1..NumSize : candidate[i] < Order[i]

(* A turn of the loop of rng_rfc6979, to its end if a candidate is found.  *)
rng_rfc6979_reseeds ==
    /\ pc = "rng" /\ candidates < MaxCandidates
    /\ LET state == IF x THEN Seed ELSE Again
       IN  K' = state.K /\ V' = HMAC(state.K, state.V)
    /\ rnd' \in Candidates
    /\ pc' = IF Found(rnd') THEN "sign" ELSE "rng"
    /\ candidates' = candidates + 1
    /\ UNCHANGED <<x, tries, result, signature>>
rng_rfc6979 ==
    /\ pc = "rng" /\ candidates < MaxCandidates
    /\ LET state == IF x THEN Seed ELSE Again
       IN  K' = state.K /\ V' = HMAC(state.K, state.V)
    /\ x' = FALSE
    /\ rnd' \in Candidates
    /\ pc' = IF Found(rnd') THEN "sign" ELSE "rng"
    /\ candidates' = candidates + 1
    /\ UNCHANGED <<tries, result, signature>>

----------------------------------------------------------------------------
(* A signature as cx_ecdsa_sign leaves it in the buffer: two DER integers, *)
(* without leading zeros but for the one a high bit asks for.              *)
DerInteger(number) ==
    LET first == CHOOSE i \in 1..NumSize :
                     (number[i] # 0 \/ i = NumSize) /\ \A j \in 1..(i - 1) : number[j] = 0
        octets == SubSeq(number, first, NumSize)
        signed == IF octets[1] >= 128 THEN <<0>> \o octets ELSE octets
    IN  <<2, Len(signed)>> \o signed

Der(sig) ==
    LET both == DerInteger(sig.r) \o DerInteger(sig.s)
    IN  <<48 + (IF sig.odd THEN 1 ELSE 0), Len(both)>> \o both

(* ecdsa_der_to_sig: the number at an offset of the DER sequence, without  *)
(* the leading zero, and what precedes it filled with zeros.               *)
SigIntegerUnfilled(der, offset) ==
    LET skip == IF der[offset + 3] = 0 THEN 1 ELSE 0
        length == der[offset + 2] - skip
    IN  [number |-> [i \in 1..NumSize |->
                         IF i <= length THEN der[offset + 2 + skip + i] ELSE 0],
         end |-> offset + 2 + skip + length]
SigInteger(der, offset) ==
    LET skip == IF der[offset + 3] = 0 THEN 1 ELSE 0
        length == der[offset + 2] - skip
        delta == NumSize - length
    IN  [number |-> [i \in 1..NumSize |->
                         IF i <= delta THEN 0 ELSE der[offset + 2 + skip + i - delta]],
         end |-> offset + 2 + skip + length]

ecdsa_der_to_sig(der) ==
    LET r == SigInteger(der, 2)
    IN  r.number \o SigInteger(der, r.end).number

check_canonical(rs) ==
    \A at \in {0, NumSize} : rs[at + 1] < 128 /\ ~(rs[at + 1] = 0 /\ rs[at + 2] < 128)

(* The rest of a turn of the loop of sign_hash_and_set_result.             *)
sign_hash_and_set_result ==
    /\ pc = "sign"
    /\ \E r, s \in Numbers, odd \in BOOLEAN :
           /\ signature' = [r |-> r, s |-> s, odd |-> odd]
           /\ LET der == Der(signature')
                  rs == ecdsa_der_to_sig(der)
              IN  /\ result' = <<27 + 4 + (der[1] % 2)>> \o rs
                  /\ IF check_canonical(rs)
                     THEN pc' = "done" /\ UNCHANGED <<tries, x>>
                     ELSE pc' = "rng" /\ tries' = tries + 1 /\ x' = (tries' = 0)
    /\ UNCHANGED <<V, K, rnd, candidates>>

SignNext == rng_rfc6979 \/ sign_hash_and_set_result

SignSpec == Init /\ [][SignNext]_vars

----------------------------------------------------------------------------
(* The chain of candidates of RFC 6979, section 3.2: the state after steps *)
(* b to g, and after h.3 for each candidate that was not suitable.         *)
RfcState[n \in Nat] ==
    IF n = 0
    THEN LET v == <<"01">>
             k == HMAC(<<"00">>, v \o <<"/00">> \o <<"x">> \o <<"h1">>)
             k2 == HMAC(k, HMAC(k, v) \o <<"/01">> \o <<"x">> \o <<"h1">>)
         IN  <<k2, HMAC(k2, HMAC(k, v))>>
    ELSE LET before == RfcState[n - 1]
             t == HMAC(before[1], before[2])
             k == HMAC(before[1], t \o <<"/00">>)
         IN  <<k, HMAC(k, t)>>
RfcCandidate(n) == HMAC(RfcState[n - 1][1], RfcState[n - 1][2])

(* Numbers are compared by their first octet that differs.                 *)
Less(a, b) ==
    \E i \in 1..NumSize : a[i] < b[i] /\ \A j \in 1..(i - 1) : a[j] = b[j]
HighBit(i) == [j \in 1..NumSize |-> IF j = i THEN 128 ELSE 0]

SignTypeOK ==
    /\ pc \in {"rng", "sign", "done"}
    /\ tries \in 0..candidates /\ candidates \in 0..MaxCandidates
    /\ x = (candidates = 0)
    /\ rnd \in Candidates \cup {<<>>}
    /\ Len(result) \in {0, 1 + 2 * NumSize}

(* No nonce is used twice or out of turn: each signature is made with the  *)
(* next candidate of the chain that begins with the key and the hash, over *)
(* the calls of rng_rfc6979 that V and K live through.                     *)
NoncesFollowRfc6979 ==
    candidates > 0 => V = RfcCandidate(candidates)

(* No candidate below the order is passed over.                            *)
NoCandidateSkipped ==
    [][rng_rfc6979 /\ pc' = "rng" => ~Less(rnd', Order)]_vars

(* What is sent to the host are the numbers and the parity of the last     *)
(* signature, which is the first one with both numbers between 2^(8n - 9)  *)
(* and 2^(8n - 1).                                                         *)
CanonicalNumber(a) == ~Less(a, HighBit(2)) /\ Less(a, HighBit(1))
SignatureIsCanonical ==
    pc = "done" =>
        /\ result = <<31 + (IF signature.odd THEN 1 ELSE 0)>> \o signature.r \o signature.s
        /\ CanonicalNumber(signature.r) /\ CanonicalNumber(signature.s)
FirstCanonicalIsSent ==
    [][sign_hash_and_set_result /\ pc' = "rng" =>
           ~(CanonicalNumber(signature'.r) /\ CanonicalNumber(signature'.s))]_vars

(* The comment of src/eos_utils.c:308, "Check T is < n".                   *)
NonceBelowOrder == pc = "sign" => Less(rnd, Order)
=============================================================================
