-------------------------------- MODULE NumberTexts --------------------------------
(***************************************************************************)
(* JSON numbers as jsonconv sees them, and the machine's integers: Half is  *)
(* 2^63 in the program; a small power of two brings every boundary within   *)
(* a few digits.                                                            *)
(***************************************************************************)
EXTENDS Integers, Sequences

CONSTANTS Half, Raws

\* A character that is no digit: a point or an exponent.
NoDigit == 10

ASSUME NumberAssumption ==
    /\ Half \in Nat \ {0}
    /\ Raws \subseteq [negative : BOOLEAN, digits : Seq(0..NoDigit)]

\* Arithmetic of uint64, and its conversion to int64.
Uint64(n) == n % (2 * Half)
Int64(u) == IF u < Half THEN u ELSE u - 2 * Half
====================================================================================
