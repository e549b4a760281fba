-------------------------------- MODULE Money --------------------------------
(***************************************************************************)
(* Prices at the driver's terminal (src/internal/cliui/money.go): reais    *)
(* and centavos as typed, centavos on the wire and in the store, in signed *)
(* and unsigned integers of one fixed width (64 bits in the code), given   *)
(* here by the largest signed one.                                         *)
(*                                                                         *)
(* A text is Garbage, for blanks, signs, letters and second separators, or *)
(* a record: the number its digits before the separator spell, whether     *)
(* there is a separator, and the digits after it.                          *)
(***************************************************************************)
EXTENDS Integers, Sequences

CONSTANTS
  MaxInt,  \* the largest int64: 2^63 - 1
  Garbage, \* a text that is no number
  Rejected \* no price: the error of the parser

\* At least 8 bits.
ASSUME MaxIntAssumption == MaxInt \in Nat /\ MaxInt >= 127

Text == {Garbage} \cup [whole : Nat, sep : BOOLEAN, frac : Seq(0 .. 9)]

\* As many numbers as there are of the width: 2^64.
Modulus == 2 * MaxInt + 2

\* Two's complement.
AsInt(n) ==
  LET m == n % Modulus
  IN  IF m > MaxInt THEN m - Modulus ELSE m

\* The digits after the separator in centavos: one digit is tenths.
Centavos(frac) ==
  CASE Len(frac) = 0 -> 0
    [] Len(frac) = 1 -> 10 * frac[1]
    [] Len(frac) = 2 -> 10 * frac[1] + frac[2]

\* Mutant: only the digits are looked at, not how many reais they make.
ParseUnbounded(text) ==
  IF text = Garbage \/ (text.sep /\ text.frac = << >>) \/ Len(text.frac) > 2
     \/ text.whole > Modulus - 1
  THEN Rejected
  ELSE AsInt(AsInt(100 * text.whole) + Centavos(text.frac))

\* The reais must be a uint64, and not more than the largest int64 has; the
\* centavos are added after that check.
ParseBRLToCents(text) ==
  IF text = Garbage \/ (text.sep /\ text.frac = << >>) \/ Len(text.frac) > 2
     \/ text.whole > Modulus - 1
     \/ text.whole > MaxInt \div 100
  THEN Rejected
  ELSE AsInt(AsInt(100 * text.whole) + Centavos(text.frac))

\* What the driver means, whatever the machine makes of it.
Meant(text) == 100 * text.whole + Centavos(text.frac)
=============================================================================
