------------------------------ MODULE MCEosText ------------------------------
(***************************************************************************)
(* The texts of the application for TLC: either one key or other input is  *)
(* encoded, or one field is formatted.                                     *)
(***************************************************************************)
EXTENDS EosBase58, EosFormat

(* Inputs of up to three bytes around the limits of a digit, and keys with *)
(* their checksums: the largest, one of zeros, and some in between.        *)
Bytes == {0, 1, 57, 58, 255}

MCInputs ==
    UNION {[1..n -> Bytes] : n \in 0..3}
    \cup {[k \in 1..37 |-> 255],
          [k \in 1..37 |-> IF k <= 33 THEN 0 ELSE 255],
          [k \in 1..37 |-> IF k = 1 THEN 2 ELSE (k * 91) % 256],
          [k \in 1..37 |-> IF k = 1 THEN 3 ELSE 0]}

(* Numbers of 16 bits around the powers of ten and of two, and precisions  *)
(* up to those whose power is zero or whose text does not fit.             *)
Around(s) == UNION {{n - 1, n, n + 1} : n \in s}
Some == Around({1, 10, 100, 1000, 10000}) \cup {7, 42, 2019, 32766, 32767}

EOS == <<69, 79, 83, 0, 0, 0, 0>>
ABCDEFG == <<65, 66, 67, 68, 69, 70, 71>>
NoSymbol == <<0, 65, 0, 0, 0, 0, 0>>

MCFields ==
    {[kind |-> k, number |-> n] :
         k \in {"unsigned", "%d"}, n \in Some \cup {32768, 40000, 65535}}
    \cup {[kind |-> "asset", amount |-> a, precision |-> p, symbol |-> s] :
              a \in Some \cup {-32768, -32767, -10000, -25, -1}, p \in (0..7) \cup {9, 12, 15, 16, 17},
              s \in {EOS, ABCDEFG, NoSymbol}}

----------------------------------------------------------------------------
TextInit ==
    /\ EncInit
    /\ FormatInit
    /\ bin = <<>> \/ field = [kind |-> "unsigned", number |-> 7]

TextSpec ==
    TextInit /\ [][\/ EncNext /\ UNCHANGED formatVars
                   \/ Format /\ UNCHANGED encVars]_<<encVars, formatVars>>
=============================================================================
