---------------------------- MODULE ParseNumberProofs ----------------------------
(***************************************************************************)
(* ParseNumberBytes never wraps around and its result is the literal's      *)
(* value, for integers of any width and literals of any length.             *)
(***************************************************************************)
EXTENDS ParseNumber, TLAPS

\* What a literal is.
LEMMA RawTyped ==
    ASSUME NEW r \in Raws
    PROVE  /\ r.negative \in BOOLEAN /\ r.digits \in Seq(0..NoDigit)
           /\ Len(r.digits) \in Nat
           /\ \A k \in 1..Len(r.digits) : r.digits[k] \in 0..NoDigit
BY NumberAssumption DEF NoDigit

\* A digit that is not refused leaves the number within the limit, and one that
\* is refused would not: the comparison with limit/10 and limit%10 is exact.
LEMMA RefusesIsExact ==
    ASSUME NEW limit \in Nat, NEW v \in Nat, NEW d \in 0..9
    PROVE  (v > limit \div 10 \/ (v = limit \div 10 /\ d > limit % 10)) <=> v * 10 + d > limit
BY SMT

\* What is within the limit is within an uint64.
LEMMA NoWrap ==
    ASSUME NEW half \in Nat \ {0}, NEW n \in 0..half
    PROVE  n % (2 * half) = n
BY SMT

\* The limits are numbers.
LEMMA LimitTyped ==
    ASSUME raw \in Raws
    PROVE  Limit \in Nat /\ Limit <= Half /\ (~raw.negative => Limit < Half)
BY NumberAssumption, RawTyped DEF Limit

\* The inductive invariant: the accumulator is exact, and so is a result.
Exact == NothingWraps /\ ResultIsTheNumber

\* At first nothing has been read.
LEMMA InitExact == ParseInit => Exact
<1> SUFFICES ASSUME ParseInit PROVE Exact
    OBVIOUS
<1>1. raw \in Raws /\ Len(raw.digits) \in Nat
    BY RawTyped DEF ParseInit
<1>2. Limit \in Nat
    BY <1>1, LimitTyped
<1> QED
    BY <1>1, <1>2, NumberAssumption
    DEF ParseInit, Exact, NothingWraps, ParseTypeOK, ResultIsTheNumber, NoNumber

\* One more digit: the product and the sum are those of the integers.
LEMMA AccumulateExact == Exact /\ Accumulate => Exact'
<1> SUFFICES ASSUME Exact, Accumulate PROVE Exact'
    OBVIOUS
<1>1. /\ raw \in Raws /\ i \in 1..Len(raw.digits) /\ Len(raw.digits) \in Nat
      /\ value \in Nat /\ read = value /\ Digit \in 0..9
    BY RawTyped, NumberAssumption
    DEF Exact, NothingWraps, ParseTypeOK, Accumulate, Parsing, Digit, NoDigit
<1>2. Limit \in Nat /\ Limit <= Half
    BY <1>1, LimitTyped
<1>3. value * 10 + Digit <= Limit
  <2>1. ~(value * 10 + Digit > Limit)
      BY <1>1, <1>2, RefusesIsExact DEF Accumulate, Refuses
  <2> QED
      BY <2>1, <1>1, <1>2
<1>4. value' = value * 10 + Digit
  <2>1. Uint64(value * 10) = value * 10
    <3>1. value * 10 \in 0..Half
        BY <1>1, <1>2, <1>3, NumberAssumption
    <3> QED
        BY <3>1, NoWrap, NumberAssumption DEF Uint64
  <2>2. Uint64(value * 10 + Digit) = value * 10 + Digit
    <3>1. value * 10 + Digit \in 0..Half
        BY <1>1, <1>2, <1>3, NumberAssumption
    <3> QED
        BY <3>1, NoWrap, NumberAssumption DEF Uint64
  <2> QED
      BY <2>1, <2>2 DEF Accumulate
<1>5. Limit' = Limit
    BY DEF Limit, Accumulate
<1>6. NothingWraps'
    BY <1>1, <1>2, <1>3, <1>4, <1>5, NumberAssumption
    DEF Exact, NothingWraps, ParseTypeOK, Accumulate, NoNumber
<1>7. ResultIsTheNumber'
    BY <1>1 DEF Accumulate, Parsing, NoNumber, ResultIsTheNumber
<1> QED
    BY <1>6, <1>7 DEF Exact

\* The slow path: the digit that was refused would exceed the limit.
LEMMA FallbackExact == Exact /\ Fallback => Exact'
<1> SUFFICES ASSUME Exact, Fallback PROVE Exact'
    OBVIOUS
<1>1. /\ raw \in Raws /\ value \in Nat /\ read = value /\ Digit \in 0..NoDigit
    BY RawTyped, NumberAssumption
    DEF Exact, NothingWraps, ParseTypeOK, Fallback, Parsing, Digit
<1>2. Limit \in Nat
    BY <1>1, LimitTyped
<1>3. Digit = NoDigit \/ read * 10 + Digit > Limit
  <2>1. CASE Digit = NoDigit
      BY <2>1
  <2>2. CASE Digit # NoDigit
    <3>1. Digit \in 0..9
        BY <1>1, <2>2 DEF NoDigit
    <3> QED
        BY <1>1, <1>2, <2>2, <3>1, RefusesIsExact DEF Fallback, Refuses
  <2> QED
      BY <2>1, <2>2
<1>4. Limit' = Limit /\ Digit' = Digit
    BY DEF Limit, Digit, Fallback
<1> QED
    BY <1>3, <1>4 DEF Exact, NothingWraps, ParseTypeOK, ResultIsTheNumber, Fallback, Library

\* The result: neither the conversion to int64 nor the sign changes the value.
LEMMA FinishExact == Exact /\ Finish => Exact'
<1> SUFFICES ASSUME Exact, Finish PROVE Exact'
    OBVIOUS
<1>1. /\ raw \in Raws /\ value \in Nat /\ read = value /\ value <= Limit
      /\ i > Len(raw.digits)
    BY NumberAssumption DEF Exact, NothingWraps, ParseTypeOK, Finish
<1>2. Limit \in Nat /\ Limit <= Half /\ (~raw.negative => Limit < Half)
    BY <1>1, LimitTyped
<1>3. /\ Signed(value) = (IF raw.negative THEN -read ELSE read)
      /\ Signed(value) \in -Half..(Half - 1)
    BY <1>1, <1>2, NumberAssumption, RawTyped DEF Signed, Int64
<1>4. Limit' = Limit
    BY DEF Limit, Finish
<1> QED
    BY <1>1, <1>3, <1>4 DEF Exact, NothingWraps, ParseTypeOK, ResultIsTheNumber, Finish

\* Every digit that is read keeps the value exact.
LEMMA StepExact == Exact /\ [ParseNext]_parseVars => Exact'
<1> SUFFICES ASSUME Exact, [ParseNext]_parseVars PROVE Exact'
    OBVIOUS
<1>1. CASE UNCHANGED parseVars
    BY <1>1 DEF parseVars, Exact, NothingWraps, ParseTypeOK, ResultIsTheNumber, Limit, Digit
<1> QED
    BY <1>1, AccumulateExact, FallbackExact, FinishExact DEF ParseNext

\* The accumulator of ParseNumberBytes is the number that was read, at every
\* digit: the uint64 never wraps around, for any width and any literal.
THEOREM WithoutWrapping == ParseSpec => []NothingWraps
<1>1. Exact => NothingWraps
    BY DEF Exact
<1> QED
    BY <1>1, InitExact, StepExact, PTL DEF ParseSpec

\* Its integer results are the literals' values and fit an int64, and only what
\* does not fit, or is no integer, is left to the slow path.
THEOREM ResultsAreExact == ParseSpec => []ResultIsTheNumber
<1>1. Exact => ResultIsTheNumber
    BY DEF Exact
<1> QED
    BY <1>1, InitExact, StepExact, PTL DEF ParseSpec
==================================================================================
