----------------------------- MODULE FileRefOps -----------------------------
(***************************************************************************)
(* The value space of file_ref_t: a 32-bit atomic counter cut in zones     *)
(* (file_ref.h).  Every zone boundary is a multiple of 2^28 (less one for  *)
(* MAXREF and NOREF), so the model keeps the layout and makes the unit a   *)
(* parameter: Scale = 2^28 is the code, Scale = 1 a 4-bit counter.         *)
(***************************************************************************)
EXTENDS Integers

CONSTANT Scale      \* 2^28 in the code

ASSUME ScaleAssumption == Scale \in Nat \ {0}

ONEREF    == 0
MAXREF    == 8 * Scale - 1
SATURATED == 10 * Scale
RELEASED  == 12 * Scale
DEAD      == 14 * Scale
NOREF     == 16 * Scale - 1

Counter == 0 .. NOREF

\* atomic_inc and atomic_dec wrap at the width of the counter.
Inc(c) == IF c = NOREF THEN 0 ELSE c + 1
\* Mutant: a counter that is not read as unsigned.
Dec_signed(c) == c - 1

Dec(c) == IF c = 0 THEN NOREF ELSE c - 1

\* "cnt < 0" of the code, which reads the unsigned counter as an int.
IsNegative(c) == c > MAXREF

=============================================================================
