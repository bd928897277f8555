----------------------------- MODULE RawControlsProofs -----------------------------
(***************************************************************************)
(* For words of any number of bytes and inputs of any length: the           *)
(* subtraction of containsControlByte over a whole word neither hides a     *)
(* control byte nor makes one up, and escapeRawControlsInStrings keeps what *)
(* the input means and escapes just the raw control bytes of its strings.   *)
(***************************************************************************)
EXTENDS RawControls, FiniteSetTheorems, SequenceTheorems, WellFoundedInduction, TLAPS

\* What an input is.
LEMMA DataTyped ==
    ASSUME data \in Datas
    PROVE  /\ Len(data) \in Nat /\ DOMAIN data = 1..Len(data)
           /\ \A j \in 1..Len(data) : data[j] \in Bytes
<1>1. data \in Seq(Bytes)
    BY ControlAssumption
<1> QED
    BY <1>1

\* Without a borrow a byte is flagged exactly if it is a control, and only a
\* control borrows.
LEMMA FlagIsExact ==
    ASSUME NEW byte \in Bytes
    PROVE  /\ Flagged((byte - Control) % (2 * High), byte) <=> byte < Control
           /\ byte - Control < 0 <=> byte < Control
<1>1. High \in Nat \ {0} /\ Control \in 0..High /\ byte \in 0..(2 * High - 1)
    BY ControlAssumption DEF Bytes
<1>2. CASE byte < Control
  <2>1. (byte - Control) % (2 * High) = byte - Control + 2 * High
      BY <1>1, <1>2, SMT
  <2> QED
      BY <1>1, <1>2, <2>1, SMT DEF Flagged
<1>3. CASE ~(byte < Control)
  <2>1. (byte - Control) % (2 * High) = byte - Control
      BY <1>1, <1>3, SMT
  <2> QED
      BY <1>1, <1>3, <2>1, SMT DEF Flagged
<1> QED
    BY <1>2, <1>3

\* Only a control byte is seen as one.
Found == hit => \E j \in 1..Len(data) : data[j] < Control
\* Until one is seen every byte passed is no control, ...
Cleared == ~hit /\ stage \in {"words", "tail"} => \A j \in 1..(at - 1) : data[j] >= Control
\* ... and nothing is borrowed within a word.
NoBorrow == ~hit /\ stage = "words" /\ left > 0 => borrow = 0
\* What the two ends of the scan know.
Answered ==
    /\ stage # "words" => left = 0
    /\ stage = "words" /\ left = 0 => ~hit
    /\ stage = "tail" => ~hit
    /\ stage = "escape" => hit
    /\ stage = "done" /\ ~hit => \A j \in 1..Len(data) : data[j] >= Control

\* The inductive invariant of containsControlByte.
ControlInv == ControlTypeOK /\ Found /\ Cleared /\ NoBorrow /\ Answered

\* It holds at the start,
LEMMA ControlInvInit == ControlInit => ControlInv
<1> SUFFICES ASSUME ControlInit PROVE ControlInv
    OBVIOUS
<1>1. data \in Datas /\ Len(data) \in Nat /\ Word \in Nat
    BY DataTyped, ControlAssumption DEF ControlInit
<1>2. ControlTypeOK
  <2>1. hit \in BOOLEAN /\ inString \in BOOLEAN /\ escaped \in BOOLEAN
      BY Zenon DEF ControlInit
  <2>2. /\ at \in 1..(Len(data) + 1) /\ left \in 0..Word /\ left <= Len(data) + 1 - at
        /\ borrow \in {0, 1} /\ stage = "words"
      BY <1>1 DEF ControlInit
  <2> QED
      BY <1>1, <2>1, <2>2 DEF ControlTypeOK
<1>3. Found /\ NoBorrow /\ Answered
    BY DEF ControlInit, Found, NoBorrow, Answered
<1>4. Cleared
    BY DEF ControlInit, Cleared
<1> QED
    BY <1>2, <1>3, <1>4 DEF ControlInv

\* and is kept by taking a word,
LEMMA NextWordKeeps == ControlInv /\ NextWord => ControlInv'
<1> SUFFICES ASSUME ControlInv, NextWord PROVE ControlInv'
    OBVIOUS
<1>1. data \in Datas /\ Len(data) \in Nat /\ Word \in Nat \ {0} /\ at \in 1..(Len(data) + 1)
    BY DataTyped, ControlAssumption DEF ControlInv, ControlTypeOK
<1>2. ControlTypeOK'
    BY <1>1 DEF ControlInv, ControlTypeOK, NextWord
<1>3. ~hit
    BY DEF ControlInv, Answered, NextWord
<1> QED
    BY <1>1, <1>2, <1>3 DEF ControlInv, ControlTypeOK, NextWord, Found, Cleared, NoBorrow, Answered

\* One byte of a word: a control is flagged, for nothing was borrowed before the
\* first one.
LEMMA WordByteKeeps == ControlInv /\ WordByte => ControlInv'
<1> SUFFICES ASSUME ControlInv, WordByte PROVE ControlInv'
    OBVIOUS
<1> DEFINE difference == data[at] - Control - borrow
<1>1. /\ data \in Datas /\ Len(data) \in Nat /\ at \in 1..(Len(data) + 1)
      /\ left \in 0..Word /\ left <= Len(data) + 1 - at /\ left > 0 /\ Word \in Nat
      /\ hit \in BOOLEAN /\ borrow \in {0, 1} /\ stage = "words"
    BY DataTyped, ControlAssumption DEF ControlInv, ControlTypeOK, WordByte
<1>2. at \in 1..Len(data) /\ data[at] \in Bytes
    BY <1>1, DataTyped
<1>3. /\ hit' = (hit \/ Flagged(difference % (2 * High), data[at]))
      /\ borrow' = (IF difference < 0 THEN 1 ELSE 0)
      /\ data' = data /\ left' = left - 1
      /\ IF left = 1 /\ hit' THEN stage' = "escape" /\ at' = 1
         ELSE at' = at + 1 /\ stage' = stage
      /\ UNCHANGED <<out, inString, escaped>>
    BY DEF WordByte
<1>4. Control \in Nat /\ data[at] \in Int /\ hit' \in BOOLEAN
    BY <1>1, <1>2, <1>3, ControlAssumption DEF Bytes, Flagged
<1>5. ControlTypeOK'
    BY <1>1, <1>2, <1>3, <1>4 DEF ControlInv, ControlTypeOK
<1>6. ~hit => (hit' <=> data[at] < Control) /\ (~hit' => borrow' = 0)
  <2> SUFFICES ASSUME ~hit PROVE (hit' <=> data[at] < Control) /\ (~hit' => borrow' = 0)
      OBVIOUS
  <2>1. borrow = 0
      BY <1>1 DEF ControlInv, NoBorrow
  <2>2. difference = data[at] - Control
      BY <1>4, <2>1
  <2>3. /\ Flagged(difference % (2 * High), data[at]) <=> data[at] < Control
        /\ difference < 0 <=> data[at] < Control
      BY <1>2, <2>2, FlagIsExact
  <2> QED
      BY <1>3, <2>3
<1>7. Found'
    BY <1>1, <1>2, <1>3, <1>4, <1>6 DEF ControlInv, Found
<1>8. Cleared'
  <2> SUFFICES ASSUME ~hit', NEW j \in 1..(at' - 1) PROVE data[j] >= Control
      BY <1>1, <1>3 DEF Cleared
  <2>1. ~hit /\ at' = at + 1
      BY <1>3
  <2>2. CASE j = at
      BY <1>4, <1>6, <2>1, <2>2
  <2>3. CASE j # at
    <3>1. j \in 1..(at - 1)
        BY <1>1, <2>1, <2>3
    <3> QED
        BY <1>1, <2>1, <3>1 DEF ControlInv, Cleared
  <2> QED
      BY <2>2, <2>3
<1>9. NoBorrow'
  <2>1. ~hit' => ~hit
      BY <1>3
  <2> QED
      BY <1>6, <2>1 DEF NoBorrow
<1>10. Answered'
  <2>1. CASE left = 1 /\ hit'
      BY <1>3, <2>1 DEF Answered
  <2>2. CASE ~(left = 1 /\ hit')
      BY <1>1, <1>3, <2>2 DEF Answered
  <2> QED
      BY <2>1, <2>2
<1> QED
    BY <1>5, <1>7, <1>8, <1>9, <1>10 DEF ControlInv

\* by each byte behind the last word,
LEMMA TailByteKeeps == ControlInv /\ TailByte => ControlInv'
<1> SUFFICES ASSUME ControlInv, TailByte PROVE ControlInv'
    OBVIOUS
<1>1. /\ data \in Datas /\ Len(data) \in Nat /\ at \in 1..Len(data)
      /\ left \in 0..Word /\ left <= Len(data) + 1 - at /\ Word \in Nat
    BY DataTyped, ControlAssumption DEF ControlInv, ControlTypeOK, TailByte
<1>2. data[at] \in Int /\ Control \in Nat
    BY <1>1, DataTyped, ControlAssumption DEF Bytes
<1>3. stage = "tail" /\ ~hit /\ left = 0
    BY DEF ControlInv, Answered, TailByte
<1>4. \A j \in 1..(at - 1) : data[j] >= Control
    BY <1>3 DEF ControlInv, Cleared
<1>5. /\ hit' = (data[at] < Control) /\ data' = data /\ left' = left /\ borrow' = borrow
      /\ IF hit' THEN stage' = "escape" /\ at' = 1 ELSE at' = at + 1 /\ stage' = stage
      /\ UNCHANGED <<inString, escaped>>
    BY DEF TailByte
<1>6. hit' \in BOOLEAN /\ (hit' <=> data[at] < Control)
  <2>1. hit' = TRUE \/ hit' = FALSE
      BY <1>2, <1>5
  <2>2. hit' <=> data[at] < Control
      BY <1>5, Zenon
  <2> QED
      BY <2>1, <2>2
<1>7. /\ inString' \in BOOLEAN /\ escaped' \in BOOLEAN /\ borrow' \in {0, 1}
    BY <1>5 DEF ControlInv, ControlTypeOK
<1>8. CASE data[at] < Control
  <2>1. hit' /\ stage' = "escape" /\ at' = 1
      BY <1>5, <1>6, <1>8
  <2>2. ControlTypeOK'
      BY <1>1, <1>3, <1>5, <1>6, <1>7, <2>1 DEF ControlTypeOK
  <2> QED
      BY <1>1, <1>3, <1>5, <1>8, <2>1, <2>2
      DEF ControlInv, Found, Cleared, NoBorrow, Answered
<1>9. CASE ~(data[at] < Control)
  <2>1. \A j \in 1..at : data[j] >= Control
      BY <1>1, <1>2, <1>4, <1>9
  <2>2. ~hit' /\ at' = at + 1 /\ stage' = "tail"
      BY <1>3, <1>5, <1>6, <1>9
  <2>3. ControlTypeOK'
      BY <1>1, <1>3, <1>5, <1>6, <1>7, <2>2 DEF ControlTypeOK
  <2> QED
      BY <1>1, <1>3, <1>5, <2>1, <2>2, <2>3
      DEF ControlInv, Found, Cleared, NoBorrow, Answered
<1> QED
    BY <1>8, <1>9

\* The automaton writes, and leaves the answer alone.
LEMMA OthersKeep == ControlInv /\ (Clean \/ EscapeByte \/ Escaped) => ControlInv'
<1> SUFFICES ASSUME ControlInv, Clean \/ EscapeByte \/ Escaped PROVE ControlInv'
    OBVIOUS
<1>1. data \in Datas /\ Len(data) \in Nat /\ at \in 1..(Len(data) + 1) /\ hit \in BOOLEAN
    BY DataTyped DEF ControlInv, ControlTypeOK
<1>2. CASE Clean
  <2>1. \A j \in 1..Len(data) : data[j] >= Control
      BY <1>1, <1>2 DEF Clean, ControlInv, Cleared, Answered
  <2> QED
      BY <1>1, <1>2, <2>1
      DEF Clean, ControlInv, ControlTypeOK, Found, Cleared, NoBorrow, Answered
<1>3. CASE EscapeByte
  <2>1. stage' = "escape" /\ hit' = hit /\ hit /\ left = 0 /\ left' = 0 /\ data' = data
      BY <1>3 DEF EscapeByte, ControlInv, Answered
  <2>2. at \in 1..Len(data) /\ at' = at + 1 /\ borrow' \in {0, 1}
      BY <1>1, <1>3 DEF EscapeByte, ControlInv, ControlTypeOK
  <2>4. escaped' \in BOOLEAN
      BY <1>3 DEF EscapeByte
  <2>5. inString' \in BOOLEAN
    <3>1. inString = TRUE \/ inString = FALSE
        BY DEF ControlInv, ControlTypeOK
    <3>2. inString' = inString \/ inString' = ~inString
        BY <1>3, Zenon DEF EscapeByte
    <3> QED
        BY <3>1, <3>2, Zenon
  <2>3. ControlTypeOK'
      BY <1>1, <2>1, <2>2, <2>4, <2>5 DEF ControlInv, ControlTypeOK
  <2> QED
      BY <2>1, <2>3 DEF ControlInv, Found, Cleared, NoBorrow, Answered
<1>4. CASE Escaped
  <2>1. hit
      BY <1>4 DEF Escaped, ControlInv, Answered
  <2> QED
      BY <1>1, <1>4, <2>1
      DEF Escaped, ControlInv, ControlTypeOK, Found, Cleared, NoBorrow, Answered
<1> QED
    BY <1>2, <1>3, <1>4

\* and so by every step.
LEMMA ControlStep == ControlInv /\ [ControlNext]_controlVars => ControlInv'
<1> SUFFICES ASSUME ControlInv, [ControlNext]_controlVars PROVE ControlInv'
    OBVIOUS
<1>1. CASE NextWord
    BY <1>1, NextWordKeeps
<1>2. CASE WordByte
    BY <1>2, WordByteKeeps
<1>3. CASE TailByte
    BY <1>3, TailByteKeeps
<1>4. CASE Clean \/ EscapeByte \/ Escaped
    BY <1>4, OthersKeep
<1>5. CASE UNCHANGED controlVars
    BY <1>5
    DEF controlVars, ControlInv, ControlTypeOK, Found, Cleared, NoBorrow, Answered
<1> QED
    BY <1>1, <1>2, <1>3, <1>4, <1>5 DEF ControlNext

\* containsControlByte says no exactly for the inputs without a control byte
\* (json.go:209), whatever the width of a byte and of a word.
THEOREM AnswerIsExact == ControlSpec => []NothingHidden
<1>1. ControlInit => ControlInv
    BY ControlInvInit
<1>2. ControlInv /\ [ControlNext]_controlVars => ControlInv'
    BY ControlStep
<1>3. ControlInv => NothingHidden
  <2> SUFFICES ASSUME ControlInv PROVE NothingHidden
      OBVIOUS
  <2>1. data \in Datas /\ DOMAIN data = 1..Len(data)
      BY DataTyped DEF ControlInv, ControlTypeOK
  <2> QED
      BY <2>1 DEF ControlInv, Found, Answered, NothingHidden
<1> QED
    BY <1>1, <1>2, <1>3, PTL DEF ControlSpec
-----------------------------------------------------------------------------------
(* What a text says, as a function of its bytes from the front.                    *)

\* What a text says, one after the other.
Unit == {"quote", "string", "escape", "outside"} \X Nat

\* f says what the last bytes of a text say.
Says(text, n, f) == f = [k \in 0..n |-> Say(text, f, k)]

\* A set of natural numbers that is not empty has a least element.
LEMMA LeastNat ==
    ASSUME NEW K, K \subseteq Nat, K # {}
    PROVE  \E m \in K : \A k \in K : m <= k
<1> DEFINE R == OpToRel(<, Nat)
<1>1. IsWellFoundedOn(R, Nat)
    BY NatLessThanWellFounded
<1>2. \A x, y \in Nat : x < y => <<x, y>> \in R
    BY DEF OpToRel
<1> HIDE DEF R
<1>3. PICK x \in K : \A y \in K : ~(<<y, x>> \in R)
    BY <1>1, WFMin
<1>4. ASSUME NEW y \in K PROVE x <= y
  <2>1. x \in Nat /\ y \in Nat
      OBVIOUS
  <2>2. ~(y < x)
      BY <2>1, <1>2, <1>3
  <2> QED
      BY <2>1, <2>2
<1> QED
    BY <1>4

\* What the last k bytes say depends on these bytes and on what fewer bytes say.
LEMMA SayAgrees ==
    ASSUME NEW s, NEW t, NEW f, NEW g, NEW k \in Nat,
           k # 0 => s[Len(s) + 1 - k] = t[Len(t) + 1 - k] /\ f[k - 1] = g[k - 1],
           k > 1 => s[Len(s) + 2 - k] = t[Len(t) + 2 - k] /\ f[k - 2] = g[k - 2]
    PROVE  Say(s, f, k) = Say(t, g, k)
<1>1. CASE k = 0
    BY <1>1 DEF Say
<1>2. CASE k # 0
  <2>1. CASE k > 1
      BY <1>2, <2>1 DEF Say
  <2>2. CASE ~(k > 1)
      BY <1>2, <2>2 DEF Say
  <2> QED
      BY <2>1, <2>2
<1> QED
    BY <1>1, <1>2

\* Every text says something.
LEMMA SaysExist ==
    ASSUME NEW text, NEW n \in Nat
    PROVE  \E f : Says(text, n, f)
<1> DEFINE K == {k \in Nat : ~ \E f : Says(text, k, f)}
<1>1. SUFFICES ASSUME K # {} PROVE FALSE
    OBVIOUS
<1>2. PICK m \in K : \A k \in K : m <= k
  <2>1. K \subseteq Nat
      OBVIOUS
  <2> HIDE DEF K
  <2> QED
      BY <1>1, <2>1, LeastNat
<1>3. m \in Nat /\ ~ \E f : Says(text, m, f)
    OBVIOUS
<1>4. CASE m = 0
  <2> DEFINE g == [k \in 0..0 |-> Say(text, <<>>, k)]
  <2>1. \A k \in 0..0 : Say(text, <<>>, k) = Say(text, g, k)
    <3>1. Say(text, <<>>, 0) = Say(text, g, 0)
      <4> HIDE DEF g
      <4> QED
          BY SayAgrees
    <3> QED
        BY <3>1
  <2>2. g = [k \in 0..0 |-> Say(text, g, k)]
      BY <2>1
  <2> QED
      BY <1>3, <1>4, <2>2 DEF Says
<1>5. CASE m # 0
  <2>1. m - 1 \in Nat /\ ~(m <= m - 1)
      BY <1>3, <1>5
  <2>2. m - 1 \notin K
    <3> HIDE DEF K
    <3> QED
        BY <1>2, <2>1
  <2>3. PICK f : Says(text, m - 1, f)
      BY <2>1, <2>2
  <2> DEFINE g == [k \in 0..m |-> Say(text, f, k)]
  <2>4. \A k \in 0..(m - 1) : g[k] = f[k]
    <3>1. \A k \in 0..(m - 1) : f[k] = Say(text, f, k)
        BY <2>3 DEF Says
    <3>2. \A k \in 0..(m - 1) : k \in 0..m
        BY <1>3
    <3> QED
        BY <3>1, <3>2
  <2>5. ASSUME NEW k \in 0..m PROVE Say(text, f, k) = Say(text, g, k)
    <3>1. k \in Nat /\ (k # 0 => k - 1 \in 0..(m - 1)) /\ (k > 1 => k - 2 \in 0..(m - 1))
        BY <1>3
    <3>2. k # 0 => f[k - 1] = g[k - 1]
        BY <2>4, <3>1
    <3>3. k > 1 => f[k - 2] = g[k - 2]
        BY <2>4, <3>1
    <3> HIDE DEF g
    <3> QED
        BY <3>1, <3>2, <3>3, SayAgrees
  <2>6. g = [k \in 0..m |-> Say(text, g, k)]
      BY <2>5
  <2> QED
      BY <1>3, <2>6 DEF Says
<1> QED
    BY <1>4, <1>5

\* The last n bytes of s are those of t.
EndAlike(s, t, n) == \A i \in 1..n : s[Len(s) + 1 - i] = t[Len(t) + 1 - i]

\* Texts with the same last bytes say the same with them.
LEMMA SameEnds ==
    ASSUME NEW s \in Seq(Nat), NEW t \in Seq(Nat), NEW f, NEW g, NEW n \in Nat,
           Says(s, Len(s), f), Says(t, Len(t), g), n <= Len(s), n <= Len(t),
           EndAlike(s, t, n)
    PROVE  f[n] = g[n]
<1> DEFINE K == {k \in 0..n : f[k] # g[k]}
<1>1. SUFFICES ASSUME K # {} PROVE FALSE
  <2>1. n \in 0..n
      OBVIOUS
  <2> QED
      BY <2>1
<1>2. PICK m \in K : \A k \in K : m <= k
  <2>1. K \subseteq Nat
      OBVIOUS
  <2> HIDE DEF K
  <2> QED
      BY <1>1, <2>1, LeastNat
<1>3. m \in 0..n /\ f[m] # g[m] /\ Len(s) \in Nat /\ Len(t) \in Nat
    OBVIOUS
<1>4. f[m] = Say(s, f, m) /\ g[m] = Say(t, g, m)
  <2>1. m \in 0..Len(s) /\ m \in 0..Len(t)
      BY <1>3
  <2> QED
      BY <2>1 DEF Says
<1>5. \A k \in 0..n : k < m => f[k] = g[k]
    BY <1>2, <1>3
<1>6. m # 0 => m \in 1..n /\ m - 1 \in 0..n /\ m - 1 < m
    BY <1>3
<1>7. m > 1 => m - 1 \in 1..n /\ m - 2 \in 0..n /\ m - 2 < m
                /\ Len(s) + 1 - (m - 1) = Len(s) + 2 - m /\ Len(t) + 1 - (m - 1) = Len(t) + 2 - m
    BY <1>3
<1>8. m # 0 => s[Len(s) + 1 - m] = t[Len(t) + 1 - m] /\ f[m - 1] = g[m - 1]
    BY <1>5, <1>6 DEF EndAlike
<1>9. m > 1 => s[Len(s) + 2 - m] = t[Len(t) + 2 - m] /\ f[m - 2] = g[m - 2]
  <2> SUFFICES ASSUME m > 1
               PROVE  s[Len(s) + 2 - m] = t[Len(t) + 2 - m] /\ f[m - 2] = g[m - 2]
      OBVIOUS
  <2>1. s[Len(s) + 1 - (m - 1)] = t[Len(t) + 1 - (m - 1)]
      BY <1>7 DEF EndAlike
  <2> QED
      BY <1>5, <1>7, <2>1
<1>10. m \in Nat
    BY <1>3
<1> HIDE DEF K
<1>11. Say(s, f, m) = Say(t, g, m)
    BY <1>8, <1>9, <1>10, SayAgrees
<1> QED
    BY <1>3, <1>4, <1>11

\* What a text says when a string is open in front of it, or none is.
Mean(text, inside) == (CHOOSE f : Says(text, Len(text), f))[Len(text)][inside]

\* Meaning, with no string open in front of the text.
LEMMA MeaningIsMean == \A text : Meaning(text) = Mean(text, FALSE)
    BY DEF Meaning, Mean, Says

\* It is read off the functions that say fewer bytes.
LEMMA MeanIs ==
    ASSUME NEW text \in Seq(Nat), NEW f, Says(text, Len(text), f)
    PROVE  \A inside : Mean(text, inside) = f[Len(text)][inside]
<1> DEFINE g == CHOOSE h : Says(text, Len(text), h)
<1>1. Says(text, Len(text), g)
    OBVIOUS
<1>2. \A inside : Mean(text, inside) = g[Len(text)][inside]
    BY DEF Mean
<1> HIDE DEF g
<1>3. Len(text) \in Nat /\ Len(text) \in 0..Len(text)
    OBVIOUS
<1>4. f[Len(text)] = g[Len(text)]
  <2>1. EndAlike(text, text, Len(text)) /\ Len(text) <= Len(text)
      BY <1>3 DEF EndAlike
  <2> QED
      BY <1>1, <1>3, <2>1, SameEnds
<1> QED
    BY <1>2, <1>4
-----------------------------------------------------------------------------------
(* What a text with one byte more in front says.                                   *)

\* z is y without its first d bytes.
EndOf(y, z, d) == Len(y) = Len(z) + d /\ \A i \in 1..Len(z) : y[i + d] = z[i]

\* f says what y means.
Reader(y, f) == Says(y, Len(y), f) /\ \A b : Mean(y, b) = Say(y, f, Len(y))[b]
\* f says of z what z means.
SaysOf(f, z) == \A b : f[Len(z)][b] = Mean(z, b)

\* f says of the end of a text what the end means.
LEMMA EndMeans ==
    ASSUME NEW y \in Seq(Nat), NEW f, Says(y, Len(y), f), NEW z \in Seq(Nat), NEW d \in Nat,
           EndOf(y, z, d)
    PROVE  SaysOf(f, z)
<1>1. /\ Len(y) \in Nat /\ Len(z) \in Nat /\ Len(z) \in 0..Len(z) /\ Len(z) <= Len(y)
      /\ Len(y) = Len(z) + d /\ \A i \in 1..Len(z) : y[i + d] = z[i]
    BY DEF EndOf
<1>2. PICK g : Says(z, Len(z), g)
    BY <1>1, SaysExist
<1>3. \A b : Mean(z, b) = g[Len(z)][b]
    BY <1>2, MeanIs
<1>4. ASSUME NEW i \in 1..Len(z) PROVE y[Len(y) + 1 - i] = z[Len(z) + 1 - i]
  <2>1. Len(z) + 1 - i \in 1..Len(z) /\ Len(y) + 1 - i = (Len(z) + 1 - i) + d
      BY <1>1
  <2> QED
      BY <1>1, <2>1
<1>5. f[Len(z)] = g[Len(z)]
  <2>1. EndAlike(y, z, Len(z))
      BY <1>4 DEF EndAlike
  <2>2. Len(z) \in Nat /\ Len(z) <= Len(y) /\ Len(z) <= Len(z)
      BY <1>1
  <2> QED
      BY <1>2, <2>1, <2>2, SameEnds
<1> QED
    BY <1>1, <1>3, <1>5 DEF SaysOf

\* The bytes behind the first say what they say without it.
LEMMA MeanStep ==
    ASSUME NEW c \in Nat, NEW x \in Seq(Nat), NEW y, y = <<c>> \o x
    PROVE  /\ y \in Seq(Nat) /\ y[1] = c /\ EndOf(y, x, 1)
           /\ \E f : Reader(y, f) /\ SaysOf(f, x)
<1>1. /\ y \in Seq(Nat) /\ Len(y) = Len(x) + 1 /\ y[1] = c /\ Len(x) \in Nat /\ Len(y) \in Nat
      /\ \A i \in 1..Len(x) : y[i + 1] = x[i]
    OBVIOUS
<1>2. EndOf(y, x, 1)
    BY <1>1 DEF EndOf
<1>3. PICK f : Says(y, Len(y), f)
    BY <1>1, SaysExist
<1>4. \A b : Mean(y, b) = f[Len(y)][b]
    BY <1>1, <1>3, MeanIs
<1>5. f[Len(y)] = Say(y, f, Len(y))
  <2>1. Len(y) \in 0..Len(y)
      BY <1>1
  <2> QED
      BY <1>3, <2>1 DEF Says
<1>6. SaysOf(f, x)
    BY <1>1, <1>2, <1>3, EndMeans
<1>7. Reader(y, f)
    BY <1>3, <1>4, <1>5 DEF Reader
<1> QED
    BY <1>1, <1>2, <1>6, <1>7

\* Nothing says nothing.
LEMMA MeanEmpty == \A b \in BOOLEAN : Mean(<<>>, b) = <<>>
<1>1. <<>> \in Seq(Nat) /\ Len(<<>>) = 0
    OBVIOUS
<1>2. PICK f : Says(<<>>, 0, f)
    BY SaysExist
<1>3. f[0] = Say(<<>>, f, 0)
    BY <1>2 DEF Says
<1>4. \A b : Mean(<<>>, b) = f[0][b]
    BY <1>1, <1>2, MeanIs
<1> QED
    BY <1>3, <1>4 DEF Say

\* A quote opens or closes a string.
LEMMA MeanQuote ==
    ASSUME NEW x \in Seq(Nat), NEW b \in BOOLEAN
    PROVE  Mean(<<Quote>> \o x, b) = <<<<"quote", Quote>>>> \o Mean(x, ~b)
<1>1. Quote \in Nat /\ Len(x) \in Nat
    BY ControlAssumption DEF Bytes
<1> SUFFICES ASSUME NEW y, y = <<Quote>> \o x
             PROVE  Mean(y, b) = <<<<"quote", Quote>>>> \o Mean(x, ~b)
    OBVIOUS
<1>2. /\ y[1] = Quote /\ EndOf(y, x, 1) /\ \E f : Reader(y, f) /\ SaysOf(f, x)
    BY <1>1, MeanStep
<1>3. PICK f : Reader(y, f) /\ SaysOf(f, x)
    BY <1>2
<1>4. Len(y) + 1 - Len(y) = 1 /\ Len(y) # 0 /\ Len(y) - 1 = Len(x)
    BY <1>1, <1>2 DEF EndOf
<1>5. Say(y, f, Len(y))[b] = <<<<"quote", Quote>>>> \o f[Len(x)][~b]
    BY <1>2, <1>4 DEF Say
<1> QED
    BY <1>3, <1>5 DEF Reader, SaysOf

\* A byte says itself unless it is a quote, or a backslash in a string.
LEMMA MeanPlain ==
    ASSUME NEW c \in Nat, NEW x \in Seq(Nat), NEW b \in BOOLEAN,
           c # Quote, b /\ c = Backslash => x = <<>>
    PROVE  Mean(<<c>> \o x, b)
             = <<<<IF b THEN "string" ELSE "outside", c>>>> \o Mean(x, b)
<1>1. Len(x) \in Nat /\ (x = <<>> => Len(x) = 0)
    OBVIOUS
<1> SUFFICES ASSUME NEW y, y = <<c>> \o x
             PROVE  Mean(y, b) = <<<<IF b THEN "string" ELSE "outside", c>>>> \o Mean(x, b)
    OBVIOUS
<1>2. /\ y[1] = c /\ EndOf(y, x, 1) /\ \E f : Reader(y, f) /\ SaysOf(f, x)
    BY MeanStep
<1>3. PICK f : Reader(y, f) /\ SaysOf(f, x)
    BY <1>2
<1>4. /\ Len(y) + 1 - Len(y) = 1 /\ Len(y) # 0 /\ Len(y) - 1 = Len(x)
      /\ ~(b /\ c = Backslash /\ Len(y) > 1)
    BY <1>1, <1>2 DEF EndOf
<1>5. Say(y, f, Len(y))[b]
        = <<<<IF b THEN "string" ELSE "outside", c>>>> \o f[Len(x)][b]
    BY <1>2, <1>4 DEF Say
<1> QED
    BY <1>3, <1>5 DEF Reader, SaysOf

\* A backslash in a string says what the byte behind it says.
LEMMA MeanEscape ==
    ASSUME NEW c \in Nat, NEW x \in Seq(Nat)
    PROVE  Mean(<<Backslash>> \o (<<c>> \o x), TRUE) = <<Behind(c)>> \o Mean(x, TRUE)
<1>1. Backslash \in Nat /\ Backslash # Quote /\ Len(x) \in Nat
    BY ControlAssumption DEF Bytes
<1> SUFFICES ASSUME NEW y, y = <<c>> \o x, NEW z, z = <<Backslash>> \o y
             PROVE  Mean(z, TRUE) = <<Behind(c)>> \o Mean(x, TRUE)
    OBVIOUS
<1>2. y \in Seq(Nat) /\ y[1] = c /\ EndOf(y, x, 1)
    BY MeanStep
<1>3. z \in Seq(Nat) /\ z[1] = Backslash /\ EndOf(z, y, 1) /\ \E f : Reader(z, f) /\ SaysOf(f, y)
    BY <1>1, <1>2, MeanStep
<1>4. PICK f : Reader(z, f)
    BY <1>3
<1>5. Len(y) \in Nat /\ Len(z) \in Nat /\ Len(y) = Len(x) + 1 /\ Len(z) = Len(y) + 1
    BY <1>2, <1>3 DEF EndOf
<1>6. /\ Len(z) + 1 - Len(z) = 1 /\ Len(z) + 2 - Len(z) = 2 /\ Len(z) > 1 /\ Len(z) # 0
      /\ Len(z) - 2 = Len(x) /\ Len(z) = Len(x) + 2
    BY <1>1, <1>5
<1>7. EndOf(z, x, 2)
  <2>1. \A i \in 1..Len(x) : i + 1 \in 1..Len(y) /\ i + 2 = (i + 1) + 1
      BY <1>1, <1>5
  <2> QED
      BY <1>2, <1>3, <1>6, <2>1 DEF EndOf
<1>8. SaysOf(f, x)
    BY <1>3, <1>4, <1>7, EndMeans DEF Reader
<1>9. z[2] = c
  <2>1. 1 \in 1..Len(y) /\ 1 + 1 = 2
      BY <1>1, <1>5
  <2> QED
      BY <1>2, <1>3, <2>1 DEF EndOf
<1>10. Say(z, f, Len(z))[TRUE] = <<Behind(c)>> \o f[Len(x)][TRUE]
    BY <1>1, <1>3, <1>6, <1>9 DEF Say
<1> QED
    BY <1>4, <1>8, <1>10 DEF Reader, SaysOf

\* What a byte can say, wherever it stands, is in S.
SaidIn(c, S) ==
    <<"quote", c>> \in S /\ Behind(c) \in S /\ <<"string", c>> \in S /\ <<"outside", c>> \in S

\* What a text says is said by its bytes.
LEMMA MeanTyped ==
    ASSUME NEW text \in Seq(Nat), NEW S, \A i \in 1..Len(text) : SaidIn(text[i], S)
    PROVE  \A b \in BOOLEAN : Mean(text, b) \in Seq(S)
<1>1. PICK f : Says(text, Len(text), f)
  <2>1. Len(text) \in Nat
      OBVIOUS
  <2> QED
      BY <2>1, SaysExist
<1>2. \A b : Mean(text, b) = f[Len(text)][b]
    BY <1>1, MeanIs
<1> DEFINE K == {k \in 0..Len(text) : ~ \A b \in BOOLEAN : f[k][b] \in Seq(S)}
<1>3. SUFFICES ASSUME K # {} PROVE FALSE
  <2>1. Len(text) \in 0..Len(text)
      OBVIOUS
  <2> QED
      BY <1>2, <2>1
<1>4. PICK m \in K : \A k \in K : m <= k
  <2>1. K \subseteq Nat
      OBVIOUS
  <2> HIDE DEF K
  <2> QED
      BY <1>3, <2>1, LeastNat
<1>5. m \in 0..Len(text) /\ Len(text) \in Nat /\ ~ \A b \in BOOLEAN : f[m][b] \in Seq(S)
    OBVIOUS
<1>6. \A k \in 0..Len(text) : k < m => \A b \in BOOLEAN : f[k][b] \in Seq(S)
    BY <1>4, <1>5
<1> HIDE DEF K
<1>7. PICK b \in BOOLEAN : f[m][b] \notin Seq(S)
    BY <1>5
<1>8. f[m][b] = Say(text, f, m)[b]
    BY <1>1, <1>5 DEF Says
<1>9. CASE m = 0
  <2>1. Say(text, f, m)[b] = <<>>
      BY <1>9 DEF Say
  <2>2. <<>> \in Seq(S)
      OBVIOUS
  <2> QED
      BY <1>7, <1>8, <2>1, <2>2
<1>10. CASE m # 0
  <2> DEFINE c == text[Len(text) + 1 - m]
             d == text[Len(text) + 2 - m]
  <2>1. SaidIn(c, S) /\ (m > 1 => SaidIn(d, S))
    <3>1. Len(text) + 1 - m \in 1..Len(text) /\ (m > 1 => Len(text) + 2 - m \in 1..Len(text))
        BY <1>5, <1>10
    <3> QED
        BY <3>1
  <2>2. /\ m - 1 \in 0..Len(text) /\ m - 1 < m
        /\ m > 1 => m - 2 \in 0..Len(text) /\ m - 2 < m
      BY <1>5, <1>10
  <2>3. (~b) \in BOOLEAN /\ TRUE \in BOOLEAN
      BY Zenon
  <2>4. /\ f[m - 1][~b] \in Seq(S) /\ f[m - 1][b] \in Seq(S)
        /\ m > 1 => f[m - 2][TRUE] \in Seq(S)
      BY <1>6, <2>2, <2>3
  <2> DEFINE Said(u, rest) == Say(text, f, m)[b] = <<u>> \o rest
  <2>5. \/ Said(<<"quote", c>>, f[m - 1][~b])
        \/ m > 1 /\ Said(Behind(d), f[m - 2][TRUE])
        \/ Said(<<"string", c>>, f[m - 1][b])
        \/ Said(<<"outside", c>>, f[m - 1][b])
      BY <1>10 DEF Say
  <2>6. ASSUME NEW u \in S, NEW rest \in Seq(S), Said(u, rest) PROVE FALSE
    <3>1. <<u>> \in Seq(S)
        OBVIOUS
    <3>2. <<u>> \o rest \in Seq(S)
        BY <3>1
    <3> QED
        BY <1>7, <1>8, <2>6, <3>2
  <2> HIDE DEF Said, c, d
  <2> QED
      BY <2>1, <2>4, <2>5, <2>6 DEF SaidIn
<1> QED
    BY <1>9, <1>10

\* Every number says something wherever it stands.
LEMMA AllSaid == \A c \in Nat : SaidIn(c, Unit)
<1> SUFFICES ASSUME NEW c \in Nat PROVE SaidIn(c, Unit)
    OBVIOUS
<1>1. High \in Nat \ {0}
    BY ControlAssumption
<1>2. Behind(c) \in Unit
    BY <1>1 DEF Behind, Unit
<1> QED
    BY <1>2 DEF SaidIn, Unit

\* So a text means a sequence of units.
LEMMA MeanUnits == \A text \in Seq(Nat) : \A b \in BOOLEAN : Mean(text, b) \in Seq(Unit)
<1> SUFFICES ASSUME NEW text \in Seq(Nat) PROVE \A b \in BOOLEAN : Mean(text, b) \in Seq(Unit)
    OBVIOUS
<1>1. \A i \in 1..Len(text) : SaidIn(text[i], Unit)
    BY AllSaid
<1> QED
    BY <1>1, MeanTyped

-----------------------------------------------------------------------------------
(* What the beginning of a text says, whatever follows.                            *)

\* t says what p lists, and leaves a string open if b.
Tells(t, b, p) == \A x \in Seq(Nat) : Mean(t \o x, FALSE) = p \o Mean(x, b)

\* Texts put together.
LEMMA TextsAssociate == \A a, b, c \in Seq(Nat) : (a \o b) \o c = a \o (b \o c)
    BY ConcatAssociative

\* Their length.
LEMMA TextsAdd ==
    \A a, b \in Seq(Nat) : a \o b \in Seq(Nat) /\ Len(a \o b) = Len(a) + Len(b)
    OBVIOUS

\* Two bytes behind a text.
LEMMA BytesBehind ==
    ASSUME NEW s \in Seq(Nat), NEW x \in Nat, NEW y \in Nat
    PROVE  (s \o <<x>>) \o <<y>> = s \o (<<x>> \o <<y>>)
<1>1. <<x>> \in Seq(Nat) /\ <<y>> \in Seq(Nat)
    OBVIOUS
<1> QED
    BY <1>1, TextsAssociate

\* Two bytes are one and another.
LEMMA TwoBytes ==
    ASSUME NEW c \in Nat, NEW d \in Nat
    PROVE  <<c>> \o <<d>> = <<c, d>> /\ <<c>> \o <<d>> \in Seq(Nat) /\ Len(<<c>> \o <<d>>) = 2
<1>1. /\ <<c>> \in Seq(Nat) /\ Len(<<c>>) = 1 /\ <<d>> \in Seq(Nat) /\ Len(<<d>>) = 1
      /\ <<c, d>> \in Seq(Nat) /\ Len(<<c, d>>) = 2
    OBVIOUS
<1>2. <<c>> \o <<d>> \in Seq(Nat) /\ Len(<<c>> \o <<d>>) = 2
    BY <1>1, TextsAdd
<1>3. /\ (<<c>> \o <<d>>)[1] = c /\ (<<c>> \o <<d>>)[2] = d
      /\ <<c, d>>[1] = c /\ <<c, d>>[2] = d
    BY <1>1
<1>4. \A i \in 1..2 : (<<c>> \o <<d>>)[i] = <<c, d>>[i]
  <2>1. \A i \in 1..2 : i = 1 \/ i = 2
      OBVIOUS
  <2> QED
      BY <1>3, <2>1
<1>5. <<c>> \o <<d>> = <<c, d>>
    BY <1>1, <1>2, <1>4, SeqEqual
<1> QED
    BY <1>2, <1>5

\* Behind an open string, or none, w says u and leaves one open, or none.
Adds(w, b, u, a) == \A x \in Seq(Nat) : Mean(w \o x, b) = <<u>> \o Mean(x, a)

\* More of the text says more.
LEMMA TellsMore ==
    ASSUME NEW t \in Seq(Nat), NEW b \in BOOLEAN, NEW p \in Seq(Unit), Tells(t, b, p),
           NEW w \in Seq(Nat), NEW u \in Unit, NEW a \in BOOLEAN,
           Adds(w, b, u, a)
    PROVE  Tells(t \o w, a, p \o <<u>>)
<1> SUFFICES ASSUME NEW x \in Seq(Nat)
             PROVE  Mean((t \o w) \o x, FALSE) = (p \o <<u>>) \o Mean(x, a)
    BY DEF Tells
<1>1. (t \o w) \o x = t \o (w \o x)
    BY TextsAssociate
<1>5. w \o x \in Seq(Nat)
    OBVIOUS
<1>2. Mean(t \o (w \o x), FALSE) = p \o Mean(w \o x, b)
    BY <1>5 DEF Tells
<1>3. Mean(x, a) \in Seq(Unit) /\ <<u>> \in Seq(Unit)
    BY MeanUnits
<1>4. (p \o <<u>>) \o Mean(x, a) = p \o (<<u>> \o Mean(x, a))
    BY <1>3, ConcatAssociative
<1>6. Mean(w \o x, b) = <<u>> \o Mean(x, a)
    BY DEF Adds
<1> QED
    BY <1>1, <1>2, <1>4, <1>6

\* At first nothing was said.
LEMMA TellsNothing == Tells(<<>>, FALSE, <<>>)
<1> SUFFICES ASSUME NEW x \in Seq(Nat) PROVE Mean(<<>> \o x, FALSE) = <<>> \o Mean(x, FALSE)
    BY DEF Tells
<1>1. Mean(x, FALSE) \in Seq(Unit)
    BY MeanUnits
<1>2. <<>> \o x = x /\ <<>> \o Mean(x, FALSE) = Mean(x, FALSE)
    BY <1>1, ConcatEmptySeq
<1> QED
    BY <1>2

\* The number of control bytes grows with each that is said.
LEMMA ControlsGrow ==
    ASSUME NEW p \in Seq(Unit), NEW u \in Unit
    PROVE  /\ IsFiniteSet(Controls(p)) /\ Cardinality(Controls(p)) \in Nat
           /\ Cardinality(Controls(p \o <<u>>))
                = Cardinality(Controls(p)) + (IF u[1] = "string" /\ u[2] < Control THEN 1 ELSE 0)
<1>1. IsFiniteSet(Controls(p))
  <2>1. Controls(p) \subseteq 1..Len(p) /\ Len(p) \in Nat
      BY DEF Controls
  <2>2. IsFiniteSet(1..Len(p))
      BY <2>1, FS_Interval
  <2> QED
      BY <2>1, <2>2, FS_Subset
<1>2. Cardinality(Controls(p)) \in Nat
    BY <1>1, FS_CardinalityType
<1> DEFINE q == p \o <<u>>
<1>3. /\ Len(q) = Len(p) + 1 /\ q[Len(p) + 1] = u /\ \A i \in 1..Len(p) : q[i] = p[i]
      /\ DOMAIN q = 1..(Len(p) + 1) /\ DOMAIN p = 1..Len(p) /\ Len(p) \in Nat
    OBVIOUS
<1> HIDE DEF q
<1>4. \A i : i \in Controls(q) <=>
              \/ i \in Controls(p)
              \/ i = Len(p) + 1 /\ u[1] = "string" /\ u[2] < Control
  <2>1. \A i : i \in 1..(Len(p) + 1) <=> i \in 1..Len(p) \/ i = Len(p) + 1
      BY <1>3
  <2>2. Len(p) + 1 \notin 1..Len(p)
      BY <1>3
  <2> QED
      BY <1>3, <2>1, <2>2 DEF Controls
<1>5. CASE u[1] = "string" /\ u[2] < Control
  <2>1. Controls(q) = Controls(p) \cup {Len(p) + 1} /\ Len(p) + 1 \notin Controls(p)
    <3>1. Len(p) + 1 \notin Controls(p)
        BY <1>3 DEF Controls
    <3> QED
        BY <1>4, <1>5, <3>1
  <2>2. Cardinality(Controls(q)) = Cardinality(Controls(p)) + 1
      BY <1>1, <2>1, FS_AddElement
  <2> QED
      BY <1>1, <1>2, <1>5, <2>2 DEF q
<1>6. CASE ~(u[1] = "string" /\ u[2] < Control)
  <2>1. Controls(q) = Controls(p)
      BY <1>4, <1>6
  <2> QED
      BY <1>1, <1>2, <1>6, <2>1 DEF q
<1> QED
    BY <1>5, <1>6

\* What a quote adds.
LEMMA AddsQuote == \A b \in BOOLEAN : Adds(<<Quote>>, b, <<"quote", Quote>>, ~b)
    BY MeanQuote DEF Adds

\* A byte that is no quote, and no backslash in a string.
LEMMA AddsPlain ==
    ASSUME NEW c \in Nat, NEW b \in BOOLEAN, c # Quote, ~(b /\ c = Backslash)
    PROVE  Adds(<<c>>, b, <<IF b THEN "string" ELSE "outside", c>>, b)
    BY MeanPlain DEF Adds

\* A backslash in a string and the byte behind it.
LEMMA AddsPair == \A c \in Nat : Adds(<<Backslash>> \o <<c>>, TRUE, Behind(c), TRUE)
<1> SUFFICES ASSUME NEW c \in Nat, NEW x \in Seq(Nat)
             PROVE  Mean((<<Backslash>> \o <<c>>) \o x, TRUE) = <<Behind(c)>> \o Mean(x, TRUE)
    BY DEF Adds
<1>1. Backslash \in Nat
    BY ControlAssumption DEF Bytes
<1>2. <<Backslash>> \in Seq(Nat) /\ <<c>> \in Seq(Nat)
    BY <1>1
<1>3. (<<Backslash>> \o <<c>>) \o x = <<Backslash>> \o (<<c>> \o x)
    BY <1>2, TextsAssociate
<1> QED
    BY <1>3, MeanEscape

-----------------------------------------------------------------------------------
(* The automaton.                                                                  *)

\* Both texts say p, and leave a string open or not; if the last byte is a backslash
\* that waits for the next, then both end in it.
SameTexts(cur, done, inside, esc, p) ==
    /\ Cardinality(Controls(p)) = Len(cur) - Len(done)
    /\ ~esc => Tells(cur, inside, p) /\ Tells(done, inside, p)
    /\ esc => /\ inside
              /\ \E c, d \in Seq(Nat) :
                   /\ cur = c \o <<Backslash>> /\ done = d \o <<Backslash>>
                   /\ Tells(c, TRUE, p) /\ Tells(d, TRUE, p)

\* Both texts say one thing more.
LEMMA BothSay ==
    ASSUME NEW c \in Seq(Nat), NEW d \in Seq(Nat), NEW b \in BOOLEAN, NEW a \in BOOLEAN,
           NEW p \in Seq(Unit), Tells(c, b, p), Tells(d, b, p),
           NEW v \in Seq(Nat), NEW w \in Seq(Nat), NEW u \in Unit,
           Adds(v, b, u, a), Adds(w, b, u, a)
    PROVE  /\ p \o <<u>> \in Seq(Unit)
           /\ Tells(c \o v, a, p \o <<u>>) /\ Tells(d \o w, a, p \o <<u>>)
<1>1. p \o <<u>> \in Seq(Unit)
    OBVIOUS
<1>2. Tells(c \o v, a, p \o <<u>>)
    BY TellsMore
<1>3. Tells(d \o w, a, p \o <<u>>)
    BY TellsMore
<1> QED
    BY <1>1, <1>2, <1>3

\* What is written for a byte.
Piece(byte, inside, esc) == IF inside /\ ~esc /\ byte < Control THEN Escape(byte) ELSE <<byte>>

\* The byte behind a backslash belongs to it.
LEMMA BehindBackslash ==
    ASSUME NEW cur \in Seq(Nat), NEW done \in Seq(Nat), NEW p \in Seq(Unit), NEW byte \in Bytes,
           SameTexts(cur, done, TRUE, TRUE, p)
    PROVE  \E q \in Seq(Unit) : SameTexts(cur \o <<byte>>, done \o <<byte>>, TRUE, FALSE, q)
<1>1. PICK c, d \in Seq(Nat) : /\ cur = c \o <<Backslash>> /\ done = d \o <<Backslash>>
                               /\ Tells(c, TRUE, p) /\ Tells(d, TRUE, p)
    BY DEF SameTexts
<1>2. byte \in Nat /\ Backslash \in Nat /\ byte < 2 * High /\ High \in Nat \ {0}
    BY ControlAssumption DEF Bytes
<1> DEFINE u == <<"escape", byte>>
           w == <<Backslash>> \o <<byte>>
<1>3. u = Behind(byte) /\ u \in Unit
    BY <1>2 DEF Behind, Unit
<1>4. Adds(w, TRUE, u, TRUE)
    BY <1>2, <1>3, AddsPair
<1>5. <<byte>> \in Seq(Nat) /\ <<Backslash>> \in Seq(Nat) /\ w \in Seq(Nat)
    BY <1>2
<1>6. cur \o <<byte>> = c \o w /\ done \o <<byte>> = d \o w
  <2>1. (c \o <<Backslash>>) \o <<byte>> = c \o w
      BY <1>2, BytesBehind
  <2>2. (d \o <<Backslash>>) \o <<byte>> = d \o w
      BY <1>2, BytesBehind
  <2> QED
      BY <1>1, <2>1, <2>2
<1>7. ~(u[1] = "string" /\ u[2] < Control)
    OBVIOUS
<1> HIDE DEF u, w
<1>8. /\ p \o <<u>> \in Seq(Unit)
      /\ Tells(c \o w, TRUE, p \o <<u>>) /\ Tells(d \o w, TRUE, p \o <<u>>)
    BY <1>1, <1>3, <1>4, <1>5, BothSay
<1>9. Cardinality(Controls(p \o <<u>>)) = Cardinality(Controls(p)) /\ Cardinality(Controls(p)) \in Nat
    BY <1>3, <1>7, ControlsGrow
<1>10. Len(cur \o <<byte>>) - Len(done \o <<byte>>) = Len(cur) - Len(done)
  <2>1. Len(cur \o <<byte>>) = Len(cur) + 1 /\ Len(done \o <<byte>>) = Len(done) + 1
      BY <1>5
  <2> QED
      BY <2>1
<1>11. Cardinality(Controls(p)) = Len(cur) - Len(done)
    BY DEF SameTexts
<1>12. SameTexts(cur \o <<byte>>, done \o <<byte>>, TRUE, FALSE, p \o <<u>>)
    BY <1>6, <1>8, <1>9, <1>10, <1>11 DEF SameTexts
<1> QED
    BY <1>8, <1>12

\* A byte that is written as it is says one thing, which is no control in a string.
LEMMA WrittenAsIs ==
    ASSUME NEW cur \in Seq(Nat), NEW done \in Seq(Nat), NEW p \in Seq(Unit), NEW byte \in Nat,
           NEW inside \in BOOLEAN, SameTexts(cur, done, inside, FALSE, p),
           NEW u \in Unit, NEW a \in BOOLEAN, Adds(<<byte>>, inside, u, a),
           ~(u[1] = "string" /\ u[2] < Control)
    PROVE  \E q \in Seq(Unit) : SameTexts(cur \o <<byte>>, done \o <<byte>>, a, FALSE, q)
<1>1. /\ Cardinality(Controls(p)) = Len(cur) - Len(done)
      /\ Tells(cur, inside, p) /\ Tells(done, inside, p)
    BY DEF SameTexts
<1>2. <<byte>> \in Seq(Nat)
    OBVIOUS
<1>3. /\ p \o <<u>> \in Seq(Unit)
      /\ Tells(cur \o <<byte>>, a, p \o <<u>>) /\ Tells(done \o <<byte>>, a, p \o <<u>>)
  <2> DEFINE w == <<byte>>
  <2>1. w \in Seq(Nat) /\ Adds(w, inside, u, a)
      BY <1>2
  <2> HIDE DEF w
  <2>2. Tells(cur \o w, a, p \o <<u>>) /\ Tells(done \o w, a, p \o <<u>>)
      BY <1>1, <2>1, TellsMore
  <2> QED
      BY <2>2 DEF w
<1>4. Cardinality(Controls(p \o <<u>>)) = Cardinality(Controls(p)) /\ Cardinality(Controls(p)) \in Nat
    BY ControlsGrow
<1>5. Len(cur \o <<byte>>) = Len(cur) + 1 /\ Len(done \o <<byte>>) = Len(done) + 1
    BY <1>2
<1>6. Len(cur) \in Nat /\ Len(done) \in Nat
    OBVIOUS
<1>7. Len(cur \o <<byte>>) - Len(done \o <<byte>>) = Len(cur) - Len(done)
    BY <1>5, <1>6
<1>8. SameTexts(cur \o <<byte>>, done \o <<byte>>, a, FALSE, p \o <<u>>)
    BY <1>1, <1>3, <1>4, <1>7 DEF SameTexts
<1> QED
    BY <1>3, <1>8

\* An escape says what the raw control byte says.
LEMMA ControlEscaped ==
    ASSUME NEW cur \in Seq(Nat), NEW done \in Seq(Nat), NEW p \in Seq(Unit), NEW byte \in Bytes,
           byte < Control, SameTexts(cur, done, TRUE, FALSE, p)
    PROVE  \E q \in Seq(Unit) : SameTexts(cur \o Escape(byte), done \o <<byte>>, TRUE, FALSE, q)
<1>1. /\ Cardinality(Controls(p)) = Len(cur) - Len(done)
      /\ Tells(cur, TRUE, p) /\ Tells(done, TRUE, p)
    BY DEF SameTexts
<1>2. /\ byte \in Nat /\ Backslash \in Nat /\ High \in Nat \ {0} /\ Code(byte) \in Nat
      /\ byte # Quote /\ byte # Backslash /\ Code(byte) = 2 * High + byte
    BY ControlAssumption DEF Bytes, Code
<1> DEFINE u == <<"string", byte>>
           v == <<Backslash>> \o <<Code(byte)>>
<1>3. u = Behind(Code(byte)) /\ u \in Unit
    BY <1>2 DEF Behind, Unit
<1>4. /\ v = Escape(byte) /\ v \in Seq(Nat) /\ Len(v) = 2
      /\ <<byte>> \in Seq(Nat) /\ Len(<<byte>>) = 1
  <2>1. <<byte>> \in Seq(Nat) /\ Len(<<byte>>) = 1
      BY <1>2
  <2> QED
      BY <1>2, <2>1, TwoBytes DEF Escape
<1>5. Adds(v, TRUE, u, TRUE)
    BY <1>2, <1>3, AddsPair
<1>6. Adds(<<byte>>, TRUE, u, TRUE)
  <2>1. Adds(<<byte>>, TRUE, <<IF TRUE THEN "string" ELSE "outside", byte>>, TRUE)
      BY <1>2, AddsPlain
  <2> QED
      BY <2>1
<1>7. u[1] = "string" /\ u[2] < Control
    OBVIOUS
<1> HIDE DEF u, v
<1>8. /\ p \o <<u>> \in Seq(Unit)
      /\ Tells(cur \o v, TRUE, p \o <<u>>) /\ Tells(done \o <<byte>>, TRUE, p \o <<u>>)
    BY <1>1, <1>3, <1>4, <1>5, <1>6, BothSay
<1>9. /\ Cardinality(Controls(p \o <<u>>)) = Cardinality(Controls(p)) + 1
      /\ Cardinality(Controls(p)) \in Nat
    BY <1>3, <1>7, ControlsGrow
<1>10. Len(cur \o v) = Len(cur) + 2 /\ Len(done \o <<byte>>) = Len(done) + 1
    BY <1>4, TextsAdd
<1>11. Len(cur) \in Nat /\ Len(done) \in Nat
    OBVIOUS
<1>12. Cardinality(Controls(p \o <<u>>)) = Len(cur \o v) - Len(done \o <<byte>>)
    BY <1>1, <1>9, <1>10, <1>11
<1>13. SameTexts(cur \o v, done \o <<byte>>, TRUE, FALSE, p \o <<u>>)
    BY <1>8, <1>12 DEF SameTexts
<1> QED
    BY <1>4, <1>8, <1>13

\* Both texts say the same.
Alike(cur, done, inside, esc) == \E p \in Seq(Unit) : SameTexts(cur, done, inside, esc, p)

\* Whether a string is open behind a byte.
InsideAfter(byte, inside, esc) == IF ~esc /\ byte = Quote THEN ~inside ELSE inside
\* Whether the byte is a backslash that waits for the next.
WaitsAfter(byte, inside, esc) == ~esc /\ inside /\ byte = Backslash

\* One byte, and what is written for it, keep the texts alike.
LEMMA ByteStep ==
    ASSUME NEW cur \in Seq(Nat), NEW done \in Seq(Nat), NEW byte \in Bytes,
           NEW inside \in BOOLEAN, NEW esc \in BOOLEAN, Alike(cur, done, inside, esc)
    PROVE  Alike(cur \o Piece(byte, inside, esc), done \o <<byte>>,
                 InsideAfter(byte, inside, esc), WaitsAfter(byte, inside, esc))
<1> PICK p \in Seq(Unit) : SameTexts(cur, done, inside, esc, p)
    BY DEF Alike
<1> SUFFICES \E q \in Seq(Unit) :
               SameTexts(cur \o Piece(byte, inside, esc), done \o <<byte>>,
                         IF ~esc /\ byte = Quote THEN ~inside ELSE inside,
                         ~esc /\ inside /\ byte = Backslash, q)
    BY DEF Alike, InsideAfter, WaitsAfter
<1>1. /\ byte \in Nat /\ Backslash \in Nat /\ Quote \in Nat /\ Quote # Backslash
      /\ Control \in Nat /\ Control <= Quote /\ Control <= Backslash
    BY ControlAssumption DEF Bytes
<1> DEFINE Result(piece, a, e) ==
             \E q \in Seq(Unit) : SameTexts(cur \o piece, done \o <<byte>>, a, e, q)
<1>2. CASE esc
  <2>1. inside = TRUE /\ esc = TRUE
      BY <1>2 DEF SameTexts
  <2>2. Piece(byte, inside, esc) = <<byte>>
      BY <1>2 DEF Piece
  <2>3. Result(<<byte>>, TRUE, FALSE)
      BY <2>1, BehindBackslash
  <2> HIDE DEF Result
  <2>4. Result(Piece(byte, inside, esc), IF ~esc /\ byte = Quote THEN ~inside ELSE inside,
               ~esc /\ inside /\ byte = Backslash)
      BY <2>1, <2>2, <2>3
  <2> QED
      BY <2>4 DEF Result
<1>3. CASE ~esc /\ byte = Quote
  <2>1. esc = FALSE
      BY <1>3
  <2>2. Piece(byte, inside, esc) = <<byte>>
      BY <1>1, <1>3 DEF Piece
  <2>3. Adds(<<byte>>, inside, <<"quote", byte>>, ~inside) /\ <<"quote", byte>> \in Unit
      BY <1>1, <1>3, AddsQuote DEF Unit
  <2>4. CASE inside = TRUE
    <3>1. Result(<<byte>>, FALSE, FALSE)
      <4>1. Adds(<<byte>>, TRUE, <<"quote", byte>>, FALSE)
          BY <2>3, <2>4
      <4>2. SameTexts(cur, done, TRUE, FALSE, p)
          BY <2>1, <2>4
      <4>3. <<"quote", byte>>[1] # "string" /\ TRUE \in BOOLEAN /\ FALSE \in BOOLEAN
          OBVIOUS
      <4> QED
          BY <1>1, <2>3, <4>1, <4>2, <4>3, WrittenAsIs
    <3> HIDE DEF Result
    <3>2. Result(Piece(byte, inside, esc), IF ~esc /\ byte = Quote THEN ~inside ELSE inside,
                 ~esc /\ inside /\ byte = Backslash)
        BY <1>1, <1>3, <2>1, <2>2, <2>4, <3>1
    <3> QED
        BY <3>2 DEF Result
  <2>5. CASE inside = FALSE
    <3>1. Result(<<byte>>, TRUE, FALSE)
      <4>1. Adds(<<byte>>, FALSE, <<"quote", byte>>, TRUE)
          BY <2>3, <2>5
      <4>2. SameTexts(cur, done, FALSE, FALSE, p)
          BY <2>1, <2>5
      <4>3. <<"quote", byte>>[1] # "string" /\ TRUE \in BOOLEAN /\ FALSE \in BOOLEAN
          OBVIOUS
      <4> QED
          BY <1>1, <2>3, <4>1, <4>2, <4>3, WrittenAsIs
    <3> HIDE DEF Result
    <3>2. Result(Piece(byte, inside, esc), IF ~esc /\ byte = Quote THEN ~inside ELSE inside,
                 ~esc /\ inside /\ byte = Backslash)
        BY <1>1, <1>3, <2>1, <2>2, <2>5, <3>1
    <3> QED
        BY <3>2 DEF Result
  <2> QED
      BY <2>4, <2>5
<1>4. CASE ~esc /\ inside /\ byte = Backslash
  <2>1. esc = FALSE /\ inside = TRUE
      BY <1>4
  <2>2. Piece(byte, inside, esc) = <<byte>>
      BY <1>1, <1>4 DEF Piece
  <2>3. Result(<<byte>>, TRUE, TRUE)
    <3>1. /\ Cardinality(Controls(p)) = Len(cur) - Len(done)
          /\ Tells(cur, TRUE, p) /\ Tells(done, TRUE, p)
        BY <2>1 DEF SameTexts
    <3>2. <<byte>> \in Seq(Nat) /\ Len(<<byte>>) = 1
        BY <1>1
    <3>3. Len(cur \o <<byte>>) = Len(cur) + 1 /\ Len(done \o <<byte>>) = Len(done) + 1
        BY <3>2, TextsAdd
    <3>4. Len(cur) \in Nat /\ Len(done) \in Nat
        OBVIOUS
    <3>5. Len(cur \o <<byte>>) - Len(done \o <<byte>>) = Len(cur) - Len(done)
        BY <3>3, <3>4
    <3>6. SameTexts(cur \o <<byte>>, done \o <<byte>>, TRUE, TRUE, p)
        BY <1>4, <3>1, <3>5 DEF SameTexts
    <3> QED
        BY <3>6
  <2> HIDE DEF Result
  <2>4. Result(Piece(byte, inside, esc), IF ~esc /\ byte = Quote THEN ~inside ELSE inside,
               ~esc /\ inside /\ byte = Backslash)
      BY <1>1, <1>4, <2>1, <2>2, <2>3
  <2> QED
      BY <2>4 DEF Result
<1>5. CASE ~esc /\ inside /\ byte < Control
  <2>1. esc = FALSE /\ inside = TRUE /\ byte # Quote /\ byte # Backslash
      BY <1>1, <1>5
  <2>2. Piece(byte, inside, esc) = Escape(byte)
      BY <1>5 DEF Piece
  <2>3. Result(Escape(byte), TRUE, FALSE)
      BY <1>5, <2>1, ControlEscaped
  <2> HIDE DEF Result
  <2>4. Result(Piece(byte, inside, esc), IF ~esc /\ byte = Quote THEN ~inside ELSE inside,
               ~esc /\ inside /\ byte = Backslash)
      BY <2>1, <2>2, <2>3
  <2> QED
      BY <2>4 DEF Result
<1>6. CASE /\ ~esc /\ byte # Quote /\ ~(inside /\ byte = Backslash)
           /\ ~(inside /\ byte < Control)
  <2>1. esc = FALSE
      BY <1>6
  <2>2. Piece(byte, inside, esc) = <<byte>>
      BY <1>6 DEF Piece
  <2>3. Adds(<<byte>>, inside, <<IF inside THEN "string" ELSE "outside", byte>>, inside)
      BY <1>1, <1>6, AddsPlain
  <2>4. CASE inside = TRUE
    <3>1. Result(<<byte>>, TRUE, FALSE)
      <4>1. Adds(<<byte>>, TRUE, <<"string", byte>>, TRUE)
          BY <2>3, <2>4
      <4>2. SameTexts(cur, done, TRUE, FALSE, p)
          BY <2>1, <2>4
      <4>3. <<"string", byte>> \in Unit /\ ~(<<"string", byte>>[2] < Control) /\ TRUE \in BOOLEAN
          BY <1>1, <1>6, <2>4 DEF Unit
      <4> QED
          BY <1>1, <4>1, <4>2, <4>3, WrittenAsIs
    <3> HIDE DEF Result
    <3>2. Result(Piece(byte, inside, esc), IF ~esc /\ byte = Quote THEN ~inside ELSE inside,
                 ~esc /\ inside /\ byte = Backslash)
        BY <1>6, <2>1, <2>2, <2>4, <3>1
    <3> QED
        BY <3>2 DEF Result
  <2>5. CASE inside = FALSE
    <3>1. Result(<<byte>>, FALSE, FALSE)
      <4>1. Adds(<<byte>>, FALSE, <<"outside", byte>>, FALSE)
          BY <2>3, <2>5
      <4>2. SameTexts(cur, done, FALSE, FALSE, p)
          BY <2>1, <2>5
      <4>3. <<"outside", byte>> \in Unit /\ <<"outside", byte>>[1] # "string" /\ FALSE \in BOOLEAN
          BY <1>1 DEF Unit
      <4> QED
          BY <1>1, <4>1, <4>2, <4>3, WrittenAsIs
    <3> HIDE DEF Result
    <3>2. Result(Piece(byte, inside, esc), IF ~esc /\ byte = Quote THEN ~inside ELSE inside,
                 ~esc /\ inside /\ byte = Backslash)
        BY <1>6, <2>1, <2>2, <2>5, <3>1
    <3> QED
        BY <3>2 DEF Result
  <2> QED
      BY <2>4, <2>5
<1> QED
    BY <1>2, <1>3, <1>4, <1>5, <1>6

\* When the input is read, both texts mean the same, and one control byte was escaped
\* for each that they mean.
LEMMA TextsEnd ==
    ASSUME NEW cur \in Seq(Nat), NEW done \in Seq(Nat), NEW p \in Seq(Unit),
           NEW inside \in BOOLEAN, NEW esc \in BOOLEAN, SameTexts(cur, done, inside, esc, p)
    PROVE  /\ Meaning(cur) = Meaning(done)
           /\ Len(cur) - Len(done) = Cardinality(Controls(Meaning(done)))
<1>1. Cardinality(Controls(p)) = Len(cur) - Len(done)
    BY DEF SameTexts
<1>2. <<>> \in Seq(Nat)
    OBVIOUS
<1>3. CASE ~esc
  <2>1. Tells(cur, inside, p) /\ Tells(done, inside, p)
      BY <1>3 DEF SameTexts
  <2>2. Mean(<<>>, inside) = <<>>
      BY MeanEmpty
  <2>3. cur \o <<>> = cur /\ done \o <<>> = done /\ p \o <<>> = p
      BY ConcatEmptySeq
  <2>4. Mean(cur \o <<>>, FALSE) = p \o <<>> /\ Mean(done \o <<>>, FALSE) = p \o <<>>
      BY <1>2, <2>1, <2>2 DEF Tells
  <2>5. Mean(cur, FALSE) = p /\ Mean(done, FALSE) = p
      BY <2>3, <2>4
  <2> QED
      BY <1>1, <2>5, MeaningIsMean
<1>4. CASE esc
  <2> DEFINE b == <<Backslash>>
             u == <<"string", Backslash>>
  <2>1. PICK c, d \in Seq(Nat) :
          cur = c \o b /\ done = d \o b /\ Tells(c, TRUE, p) /\ Tells(d, TRUE, p)
      BY <1>4 DEF SameTexts
  <2>2. /\ Backslash \in Nat /\ Backslash # Quote /\ ~(Backslash < Control) /\ b \in Seq(Nat)
        /\ u \in Unit /\ <<u>> \in Seq(Unit)
      BY ControlAssumption DEF Bytes, Unit
  <2>3. Mean(b, TRUE) = <<u>>
    <3>1. Mean(b \o <<>>, TRUE) = <<<<IF TRUE THEN "string" ELSE "outside", Backslash>>>>
                                    \o Mean(<<>>, TRUE)
        BY <1>2, <2>2, MeanPlain
    <3>2. Mean(<<>>, TRUE) = <<>>
        BY MeanEmpty
    <3>3. b \o <<>> = b /\ <<u>> \o <<>> = <<u>>
        BY <2>2, ConcatEmptySeq
    <3> QED
        BY <3>1, <3>2, <3>3
  <2>4. ~(u[1] = "string" /\ u[2] < Control)
      BY <2>2
  <2> HIDE DEF b, u
  <2>5. Mean(cur, FALSE) = p \o <<u>> /\ Mean(done, FALSE) = p \o <<u>>
      BY <2>1, <2>2, <2>3 DEF Tells
  <2>6. Cardinality(Controls(p \o <<u>>)) = Cardinality(Controls(p)) /\ Cardinality(Controls(p)) \in Nat
      BY <2>2, <2>4, ControlsGrow
  <2> QED
      BY <1>1, <2>5, <2>6, MeaningIsMean
<1> QED
    BY <1>3, <1>4

\* Without control bytes a text means none.
LEMMA NoControls ==
    ASSUME NEW text \in Seq(Nat), \A i \in 1..Len(text) : text[i] \in Bytes /\ text[i] >= Control
    PROVE  Controls(Meaning(text)) = {}
<1> DEFINE S == {u \in Unit : u[1] = "string" => ~(u[2] < Control)}
<1>1. ASSUME NEW i \in 1..Len(text) PROVE SaidIn(text[i], S)
  <2>1. text[i] \in Nat /\ text[i] < 2 * High /\ ~(text[i] < Control) /\ High \in Nat
      BY <1>1, ControlAssumption DEF Bytes
  <2>2. SaidIn(text[i], Unit) /\ Behind(text[i]) = <<"escape", text[i]>>
      BY <2>1, AllSaid DEF Behind
  <2>3. /\ <<"quote", text[i]>>[1] # "string" /\ <<"escape", text[i]>>[1] # "string"
        /\ <<"outside", text[i]>>[1] # "string" /\ ~(<<"string", text[i]>>[2] < Control)
      BY <2>1
  <2> QED
      BY <2>2, <2>3 DEF SaidIn
<1>2. Mean(text, FALSE) \in Seq(S)
  <2> HIDE DEF S
  <2> QED
      BY <1>1, MeanTyped
<1> DEFINE m == Mean(text, FALSE)
<1>3. \A i \in DOMAIN m : m[i] \in S
  <2>1. DOMAIN m = 1..Len(m)
      BY <1>2, LenProperties
  <2> HIDE DEF m, S
  <2> QED
      BY <1>2, <2>1, ElementOfSeq DEF m
<1>4. \A i \in DOMAIN m : ~(m[i][1] = "string" /\ m[i][2] < Control)
  <2>1. \A u \in S : ~(u[1] = "string" /\ u[2] < Control)
      OBVIOUS
  <2> HIDE DEF m, S
  <2> QED
      BY <1>3, <2>1
<1> HIDE DEF m
<1>5. Controls(m) = {}
    BY <1>4 DEF Controls
<1> QED
    BY <1>5, MeaningIsMean DEF m
-----------------------------------------------------------------------------------
(* The whole scan.                                                                 *)

\* What was read.
Done == SubSeq(data, 1, at - 1)
\* What stands for it.
Cur == IF out = <<>> THEN Done ELSE out

\* The inductive invariant of escapeRawControlsInStrings.
MeaningInv ==
    /\ out \in Seq(Nat)
    /\ stage \in {"words", "tail"} => out = <<>> /\ inString = FALSE /\ escaped = FALSE
    /\ stage = "escape" => Alike(Cur, Done, inString, escaped)
    /\ EscapedTextIsTheSame

\* An input is a text, which may hold codes besides bytes.
LEMMA DataNat == ASSUME data \in Datas PROVE data \in Seq(Nat)
<1>1. data \in Seq(Bytes) /\ Bytes \subseteq Nat
    BY ControlAssumption DEF Bytes
<1> QED
    BY <1>1, SeqMonotonic

\* Before the first byte nothing was read.
LEMMA NothingRead == \A d \in Datas : SubSeq(d, 1, 0) = <<>>
<1> SUFFICES ASSUME NEW d \in Datas PROVE SubSeq(d, 1, 0) = <<>>
    OBVIOUS
<1>1. d \in Seq(Bytes)
    BY ControlAssumption
<1> QED
    BY <1>1, SubSeqEmpty

\* Two empty texts are alike.
LEMMA NothingYet == Alike(<<>>, <<>>, FALSE, FALSE)
<1> DEFINE p == <<>>
<1>1. Controls(p) = {} /\ Len(p) = 0 /\ p \in Seq(Unit)
    BY DEF Controls
<1>2. Cardinality(Controls(p)) = 0
  <2> HIDE DEF p
  <2> QED
      BY <1>1, FS_EmptySet
<1>3. Tells(p, FALSE, p)
    BY TellsNothing
<1>4. SameTexts(p, p, FALSE, FALSE, p)
  <2> HIDE DEF p
  <2>1. Cardinality(Controls(p)) = Len(p) - Len(p)
      BY <1>1, <1>2
  <2> QED
      BY <1>3, <2>1 DEF SameTexts
<1> QED
    BY <1>1, <1>4 DEF Alike

\* What was read grows by the byte at hand.
LEMMA DoneGrows ==
    ASSUME data \in Datas, NEW k \in 1..Len(data)
    PROVE  /\ SubSeq(data, 1, k - 1) \in Seq(Nat) /\ data[k] \in Bytes
           /\ SubSeq(data, 1, k) = SubSeq(data, 1, k - 1) \o <<data[k]>>
<1>1. data \in Seq(Nat) /\ Len(data) \in Nat
    BY DataNat
<1>2. data[k] \in Bytes /\ data[k] \in Nat
    BY <1>1, DataTyped
<1> DEFINE s == SubSeq(data, 1, k - 1)
           t == SubSeq(data, 1, k)
<1>3. /\ s \in Seq(Nat) /\ Len(s) = k - 1 /\ \A i \in 1..(k - 1) : s[i] = data[i]
      /\ t \in Seq(Nat) /\ Len(t) = k /\ \A i \in 1..k : t[i] = data[i]
    BY <1>1
<1> HIDE DEF s, t
<1>4. s \o <<data[k]>> \in Seq(Nat) /\ Len(s \o <<data[k]>>) = k
    BY <1>2, <1>3
<1>5. ASSUME NEW i \in 1..k PROVE (s \o <<data[k]>>)[i] = t[i]
  <2>1. CASE i = k
      BY <1>2, <1>3, <2>1
  <2>2. CASE i # k
    <3>1. i \in 1..(k - 1) /\ i \in 1..Len(s)
        BY <1>3, <2>2
    <3>2. (s \o <<data[k]>>)[i] = s[i]
        BY <1>2, <1>3, <3>1
    <3>3. s[i] = data[i] /\ t[i] = data[i]
        BY <1>3, <3>1
    <3> QED
        BY <3>2, <3>3
  <2> QED
      BY <2>1, <2>2
<1>6. s \o <<data[k]>> = t
    BY <1>3, <1>4, <1>5, SeqEqual
<1> QED
    BY <1>2, <1>3, <1>6 DEF s, t

\* Both texts grow by what a byte says.
LEMMA EscapeByteMeans ==
    ASSUME ControlInv, MeaningInv, EscapeByte
    PROVE  MeaningInv'
<1> DEFINE byte == data[at]
<1>1. /\ data \in Datas /\ at \in 1..Len(data) /\ Len(data) \in Nat
      /\ inString \in BOOLEAN /\ escaped \in BOOLEAN
    BY DataTyped DEF ControlInv, ControlTypeOK, EscapeByte
<1>2. /\ Done \in Seq(Nat) /\ byte \in Bytes /\ Done' = Done \o <<byte>>
  <2>1. data' = data /\ at' - 1 = at
      BY <1>1 DEF EscapeByte
  <2>2. Done' = SubSeq(data, 1, at)
      BY <2>1 DEF Done
  <2> QED
      BY <1>1, <2>2, DoneGrows DEF Done
<1>3. out \in Seq(Nat) /\ Cur \in Seq(Nat)
    BY <1>2 DEF MeaningInv, Cur
<1>4. Alike(Cur, Done, inString, escaped)
    BY DEF MeaningInv, EscapeByte
<1>5. /\ byte \in Nat /\ <<byte>> \in Seq(Nat) /\ Escape(byte) \in Seq(Nat)
      /\ <<byte>> # <<>> /\ Escape(byte) # <<>>
  <2>1. byte \in Nat /\ Backslash \in Nat /\ Code(byte) \in Nat
      BY <1>2, ControlAssumption DEF Bytes, Code
  <2> HIDE DEF byte
  <2> QED
      BY <2>1 DEF Escape
<1>6. Piece(byte, inString, escaped) = IF Escapes(byte) THEN Escape(byte) ELSE <<byte>>
    BY DEF Piece, Escapes
<1>7. /\ out' = IF Escapes(byte) THEN Cur \o Escape(byte)
                ELSE IF out # <<>> THEN Append(out, byte) ELSE out
      /\ escaped' = (~escaped /\ inString /\ byte = Backslash)
      /\ inString' = IF ~escaped /\ byte = Quote THEN ~inString ELSE inString
      /\ stage = "escape" /\ stage' = "escape"
    BY DEF EscapeByte, Cur, Done
<1> HIDE DEF byte
<1>8. out' \in Seq(Nat) /\ Cur' = Cur \o Piece(byte, inString, escaped)
  <2>1. CASE Escapes(byte)
    <3>1. out' = Cur \o Escape(byte)
        BY <1>7, <2>1
    <3>2. out' \in Seq(Nat) /\ out' # <<>>
      <4>1. out' \in Seq(Nat)
          BY <1>3, <1>5, <3>1, TextsAdd
      <4>2. Cur \o Escape(byte) # <<>>
          BY <1>3, <1>5, ConcatEqualIffEmpty
      <4> QED
          BY <3>1, <4>1, <4>2
    <3>3. Piece(byte, inString, escaped) = Escape(byte)
        BY <1>6, <2>1
    <3> QED
        BY <3>1, <3>2, <3>3 DEF Cur
  <2>2. CASE ~Escapes(byte) /\ out # <<>>
    <3>1. out' = Append(out, byte) /\ Append(out, byte) = out \o <<byte>>
        BY <1>3, <1>5, <1>7, <2>2
    <3>2. out' \in Seq(Nat) /\ out' # <<>>
        BY <1>3, <1>5, <3>1
    <3>3. Piece(byte, inString, escaped) = <<byte>> /\ Cur = out
        BY <1>6, <2>2 DEF Cur
    <3>4. Cur' = out'
        BY <3>2 DEF Cur
    <3> QED
        BY <3>1, <3>2, <3>3, <3>4
  <2>3. CASE ~Escapes(byte) /\ out = <<>>
    <3>1. out' = <<>>
        BY <1>7, <2>3
    <3>2. Piece(byte, inString, escaped) = <<byte>> /\ Cur = Done
        BY <1>6, <2>3 DEF Cur
    <3>3. Cur' = Done'
        BY <3>1 DEF Cur
    <3>4. out' \in Seq(Nat)
        BY <3>1
    <3> QED
        BY <1>2, <3>2, <3>3, <3>4
  <2> QED
      BY <2>1, <2>2, <2>3
<1>9. Alike(Cur', Done', inString', escaped')
  <2>1. Alike(Cur \o Piece(byte, inString, escaped), Done \o <<byte>>,
              InsideAfter(byte, inString, escaped), WaitsAfter(byte, inString, escaped))
      BY <1>1, <1>2, <1>3, <1>4, ByteStep
  <2>2. /\ inString' = InsideAfter(byte, inString, escaped)
        /\ escaped' = WaitsAfter(byte, inString, escaped)
      BY <1>7 DEF InsideAfter, WaitsAfter
  <2> QED
      BY <1>2, <1>8, <2>1, <2>2
<1> QED
    BY <1>7, <1>8, <1>9 DEF MeaningInv, EscapedTextIsTheSame

\* The input has no control byte.
LEMMA CleanMeans ==
    ASSUME ControlInv, MeaningInv, Clean
    PROVE  MeaningInv'
<1>1. /\ data \in Datas /\ stage' = "done" /\ UNCHANGED <<data, out, inString, escaped>>
      /\ hit = FALSE /\ hit' = FALSE /\ out = <<>>
    BY DEF ControlInv, ControlTypeOK, Clean, Answered, MeaningInv
<1>2. data \in Seq(Nat) /\ Len(data) \in Nat /\ \A i \in 1..Len(data) : data[i] \in Bytes
    BY <1>1, DataNat, DataTyped
<1>3. \A i \in 1..Len(data) : data[i] >= Control
  <2>1. at > Len(data) /\ stage = "tail" /\ at \in 1..(Len(data) + 1)
      BY DEF Clean, ControlInv, ControlTypeOK
  <2> QED
      BY <1>1, <1>2, <2>1 DEF ControlInv, Cleared
<1>4. Controls(Meaning(data)) = {}
    BY <1>2, <1>3, NoControls
<1>5. Cardinality(Controls(Meaning(data))) = 0 /\ Len(data) - Len(data) = 0
    BY <1>2, <1>4, FS_EmptySet
<1>6. Normalized' = data /\ data' = data
    BY <1>1 DEF Normalized
<1>7. EscapedTextIsTheSame'
    BY <1>5, <1>6 DEF EscapedTextIsTheSame
<1>8. <<>> \in Seq(Nat)
    OBVIOUS
<1> QED
    BY <1>1, <1>7, <1>8 DEF MeaningInv

\* The input is at its end.
LEMMA EscapedMeans ==
    ASSUME ControlInv, MeaningInv, Escaped
    PROVE  MeaningInv'
<1>1. /\ data \in Datas /\ stage' = "done" /\ stage = "escape"
      /\ UNCHANGED <<data, at, out, inString, escaped>>
      /\ at = Len(data) + 1 /\ inString \in BOOLEAN /\ escaped \in BOOLEAN
    BY DataTyped DEF ControlInv, ControlTypeOK, Escaped
<1>2. data \in Seq(Nat) /\ Len(data) \in Nat /\ out \in Seq(Nat)
    BY <1>1, DataNat DEF MeaningInv
<1>3. Done = data
  <2>1. Done = SubSeq(data, 1, Len(data))
      BY <1>1, <1>2 DEF Done
  <2> QED
      BY <1>2, <2>1, SubSeqFull
<1>4. Cur = Normalized
    BY <1>3 DEF Cur, Normalized
<1>5. PICK p \in Seq(Unit) : SameTexts(Normalized, data, inString, escaped, p)
    BY <1>1, <1>3, <1>4 DEF MeaningInv, Alike
<1>6. Normalized \in Seq(Nat)
    BY <1>2 DEF Normalized
<1>7. /\ Meaning(Normalized) = Meaning(data)
      /\ Len(Normalized) - Len(data) = Cardinality(Controls(Meaning(data)))
    BY <1>1, <1>2, <1>5, <1>6, TextsEnd
<1>8. Normalized' = Normalized
    BY <1>1 DEF Normalized
<1>9. EscapedTextIsTheSame'
    BY <1>1, <1>7, <1>8 DEF EscapedTextIsTheSame
<1> QED
    BY <1>1, <1>2, <1>9 DEF MeaningInv

\* When the escaping begins, nothing was read.
LEMMA ReadsFromTheStart ==
    ASSUME data' \in Datas, out' = <<>>, inString' = FALSE, escaped' = FALSE, at' = 1
    PROVE  Alike(Cur', Done', inString', escaped')
<1>1. Done' = SubSeq(data', 1, at' - 1) /\ at' - 1 = 0
    BY DEF Done
<1>2. SubSeq(data', 1, 0) = <<>>
    BY NothingRead
<1>3. Done' = <<>> /\ Cur' = <<>>
    BY <1>1, <1>2 DEF Cur
<1> QED
    BY <1>3, NothingYet, Zenon

\* Every step keeps what the texts mean.
LEMMA MeaningStep ==
    ASSUME ControlInv, MeaningInv, [ControlNext]_controlVars
    PROVE  MeaningInv'
<1>1. data \in Datas
    BY DEF ControlInv, ControlTypeOK
<1>2. CASE NextWord
    BY <1>2 DEF NextWord, MeaningInv, EscapedTextIsTheSame
<1>3. CASE WordByte
  <2>1. /\ stage = "words" /\ UNCHANGED <<data, out, inString, escaped>>
        /\ stage' = "words" \/ (stage' = "escape" /\ at' = 1)
      BY <1>3 DEF WordByte
  <2>2. out' = <<>> /\ inString' = FALSE /\ escaped' = FALSE /\ data' \in Datas /\ out' \in Seq(Nat)
      BY <1>1, <2>1 DEF MeaningInv
  <2>3. stage' = "escape" => Alike(Cur', Done', inString', escaped')
      BY <2>1, <2>2, ReadsFromTheStart
  <2> QED
      BY <2>1, <2>2, <2>3 DEF MeaningInv, EscapedTextIsTheSame
<1>4. CASE TailByte
  <2>1. /\ stage = "tail" /\ UNCHANGED <<data, out, inString, escaped>>
        /\ stage' = "tail" \/ (stage' = "escape" /\ at' = 1)
      BY <1>4 DEF TailByte
  <2>2. out' = <<>> /\ inString' = FALSE /\ escaped' = FALSE /\ data' \in Datas /\ out' \in Seq(Nat)
      BY <1>1, <2>1 DEF MeaningInv
  <2>3. stage' = "escape" => Alike(Cur', Done', inString', escaped')
      BY <2>1, <2>2, ReadsFromTheStart
  <2> QED
      BY <2>1, <2>2, <2>3 DEF MeaningInv, EscapedTextIsTheSame
<1>5. CASE Clean
    BY <1>5, CleanMeans
<1>6. CASE EscapeByte
    BY <1>6, EscapeByteMeans
<1>7. CASE Escaped
    BY <1>7, EscapedMeans
<1>8. CASE UNCHANGED controlVars
  <2>1. UNCHANGED <<data, stage, at, out, inString, escaped>>
      BY <1>8 DEF controlVars
  <2>2. Cur' = Cur /\ Done' = Done /\ Normalized' = Normalized
      BY <2>1 DEF Cur, Done, Normalized
  <2> QED
      BY <2>1, <2>2 DEF MeaningInv, EscapedTextIsTheSame
<1> QED
    BY <1>2, <1>3, <1>4, <1>5, <1>6, <1>7, <1>8 DEF ControlNext

\* The text that is decoded says what the input says, and exactly the raw control bytes
\* of its strings became escapes (json.go:172-207), for every input.
THEOREM EscapingKeepsMeaning == ControlSpec => []EscapedTextIsTheSame
<1>1. ControlInit => ControlInv /\ MeaningInv
  <2>1. ControlInit => ControlInv
      BY ControlInvInit
  <2>2. ControlInit => MeaningInv
      BY DEF ControlInit, MeaningInv, EscapedTextIsTheSame
  <2> QED
      BY <2>1, <2>2
<1>2. ControlInv /\ MeaningInv /\ [ControlNext]_controlVars => ControlInv' /\ MeaningInv'
    BY ControlStep, MeaningStep
<1>3. MeaningInv => EscapedTextIsTheSame
    BY DEF MeaningInv
<1> QED
    BY <1>1, <1>2, <1>3, PTL DEF ControlSpec
===================================================================================
