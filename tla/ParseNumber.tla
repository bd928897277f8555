-------------------------------- MODULE ParseNumber --------------------------------
(***************************************************************************)
(* ParseNumberBytes (src/internal/jsonconv/number.go): an integer literal   *)
(* is accumulated digit by digit in a uint64 and must neither wrap around   *)
(* nor be refused when it fits an int64.  Everything else goes to           *)
(* ParseNumber, which asks strconv.                                         *)
(***************************************************************************)
EXTENDS NumberTexts

VARIABLES
    raw,     \* the literal: [negative, digits]
    i,       \* the next digit
    value,   \* the accumulator
    read,    \* history: the number that the digits before i spell
    number   \* [kind, num]: kind is "none" while parsing, "int", or "library"

parseVars == <<raw, i, value, read, number>>

NoNumber == [kind |-> "none", num |-> 0]
Library == [kind |-> "library", num |-> 0]

ParseInit ==
    /\ raw \in Raws
    /\ i = 1 /\ value = 0 /\ read = 0 /\ number = NoNumber

\* A defect of the limit: the sign is not looked at.
LimitBug == Half
\* The largest magnitude: one more below zero.
Limit == IF raw.negative THEN Half ELSE Half - 1

Parsing == number = NoNumber /\ i <= Len(raw.digits)
Digit == raw.digits[i]

\* A defect of the guard: the last digit is not compared.
RefusesBug(v, d) == v > Limit \div 10
\* One more digit would exceed the limit; decided before the multiplication.
Refuses(v, d) == v > Limit \div 10 \/ (v = Limit \div 10 /\ d > Limit % 10)

Accumulate ==
    /\ Parsing /\ Digit # NoDigit /\ ~Refuses(value, Digit)
    /\ value' = Uint64(Uint64(value * 10) + Digit)
    /\ read' = read * 10 + Digit
    /\ i' = i + 1
    /\ UNCHANGED <<raw, number>>

Fallback ==
    /\ Parsing
    /\ Digit = NoDigit \/ Refuses(value, Digit)
    /\ number' = Library
    /\ UNCHANGED <<raw, i, value, read>>

\* The literal's sign is applied after the conversion; the smallest integer has
\* no positive counterpart.
Signed(v) ==
    IF raw.negative THEN IF v = Half THEN -Half ELSE -Int64(v) ELSE Int64(v)

Finish ==
    /\ number = NoNumber /\ i > Len(raw.digits)
    /\ number' = [kind |-> "int", num |-> Signed(value)]
    /\ UNCHANGED <<raw, i, value, read>>

ParseNext == Accumulate \/ Fallback \/ Finish

ParseSpec == ParseInit /\ [][ParseNext]_parseVars
------------------------------------------------------------------------------------
(* Properties.                                                                      *)

ParseTypeOK ==
    /\ raw \in Raws /\ i \in 1..(Len(raw.digits) + 1)
    /\ value \in 0..(2 * Half - 1) /\ read \in Nat
    /\ number.kind \in {"none", "int", "library"}

\* The accumulator is the number that was read, at every digit, and within the
\* limit: the wrap-around of uint64 never happens (number.go:40).
NothingWraps == ParseTypeOK /\ value = read /\ read <= Limit

\* An integer result is the literal's own value and fits an int64; the slow path
\* is taken only for a literal that is no integer or whose digits, as far as they
\* were looked at, exceed the limit.  So the two functions give the same result.
ResultIsTheNumber ==
    /\ number.kind = "int" =>
         /\ number.num = (IF raw.negative THEN -read ELSE read)
         /\ number.num \in -Half..(Half - 1)
         /\ i > Len(raw.digits)
    /\ number.kind = "library" =>
         Digit = NoDigit \/ read * 10 + Digit > Limit
====================================================================================
