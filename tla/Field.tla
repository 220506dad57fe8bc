------------------------------- MODULE Field --------------------------------
(***************************************************************************)
(* The prime field of multiparty_sketch.rs, on machine words: P is the     *)
(* largest prime that fits, so that a sum of two residues may overflow.    *)
(***************************************************************************)
EXTENDS Integers

CONSTANTS
  P,       \* the prime (2^64 - 59 in the code)
  Word     \* where a word wraps (2^64)

\* That P is prime is used by finv alone.
ASSUME FieldAssumption ==
  /\ P \in Nat \ {0, 1}
  /\ Word \in P .. 2 * P - 1
  /\ \A d \in 2 .. P - 1 : P % d # 0

Residue == 0 .. P - 1

\* What a bug would do that overlooks the overflow.
FaddIgnoringCarry(a, b) ==
  LET s == (a + b) % Word IN IF s >= P THEN s - P ELSE s

\* wrapping_sub makes up for the overflow: s is Word too small then.
Fadd(a, b) ==
  LET s == (a + b) % Word
  IN  IF a + b >= Word \/ s >= P THEN (s - P) % Word ELSE s

Fsub(a, b) == IF a >= b THEN a - b ELSE P - (b - a)

Fmul(a, b) == (a * b) % P

\* The loop of fpow: square the base, halve the exponent.
Fpow[exp \in 0 .. P] ==
  [base \in Residue |->
     IF exp = 0 THEN 1
     ELSE Fmul(IF exp % 2 = 1 THEN base ELSE 1,
               Fpow[exp \div 2][Fmul(base, base)])]

Finv(a) == Fpow[P - 2][a]

Fdiv(a, b) == Fmul(a, Finv(b))

CountToField(count) ==
  IF count >= 0 THEN count % P ELSE P - ((-count) % P)

=============================================================================
