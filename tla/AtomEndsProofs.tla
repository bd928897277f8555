------------------------------ MODULE AtomEndsProofs ------------------------------
(***************************************************************************)
(* For byte texts of any length: the scanners of a string, of a number and  *)
(* of a bracketed part find the same end, and the decoders of a string      *)
(* the same text.                                                           *)
(***************************************************************************)
EXTENDS AtomEnds, FiniteSetTheorems, SequenceTheorems, WellFoundedInduction, TLAPS

\* The bytes; ByteAt says "end" behind the last one.
Byte == STRING \ {"end"}

\* What a text is.
LEMMA TextTyped ==
    ASSUME bytes \in Seq(Byte)
    PROVE  /\ Len(bytes) \in Nat /\ DOMAIN bytes = 1..Len(bytes)
           /\ \A j \in 1..Len(bytes) : bytes[j] # "end"
           /\ \A j \in 1..Len(bytes) : ByteAt(j) = bytes[j] /\ ByteAt(j) # "end"
           /\ \A j \in Nat : j > Len(bytes) => ByteAt(j) = "end"
<1>1. Len(bytes) \in Nat /\ DOMAIN bytes = 1..Len(bytes)
    OBVIOUS
<1>2. \A j \in 1..Len(bytes) : bytes[j] \in Byte
    OBVIOUS
<1>3. \A j \in 1..Len(bytes) : bytes[j] # "end"
    BY <1>2 DEF Byte
<1>4. \A j \in 1..Len(bytes) : j <= Len(bytes)
    BY <1>1
<1>5. \A j \in Nat : j > Len(bytes) => ~(j <= Len(bytes))
    BY <1>1
<1> QED
    BY <1>1, <1>3, <1>4, <1>5 DEF ByteAt

\* A set of natural numbers that is not empty has a least element.
LEMMA LeastNat ==
    ASSUME NEW K, K \subseteq Nat, K # {}
    PROVE  \E m \in K : \A k \in K : m <= k
<1> DEFINE R == OpToRel(<, Nat)
<1>1. IsWellFoundedOn(R, Nat)
    BY NatLessThanWellFounded
<1>2. \A x, y \in Nat : x < y => <<x, y>> \in R
    BY DEF OpToRel
<1> HIDE DEF R
<1>3. PICK x \in K : \A y \in K : ~(<<y, x>> \in R)
    BY <1>1, WFMin
<1>4. ASSUME NEW y \in K PROVE x <= y
  <2>1. x \in Nat /\ y \in Nat
      OBVIOUS
  <2>2. ~(y < x)
      BY <2>1, <1>2, <1>3
  <2> QED
      BY <2>1, <2>2
<1> QED
    BY <1>4

\* One that is bounded has a greatest.
LEMMA GreatestNat ==
    ASSUME NEW n \in Nat, NEW K, K \subseteq 0..n, K # {}
    PROVE  \E m \in K : \A k \in K : k <= m
<1> DEFINE L == {k \in 0..n : n - k \in K}
<1>1. L \subseteq Nat
    OBVIOUS
<1>2. L # {}
  <2>1. PICK k \in K : TRUE
      OBVIOUS
  <2>2. k \in 0..n /\ n - k \in 0..n /\ n - (n - k) = k
      BY <2>1
  <2>3. n - k \in L
      BY <2>1, <2>2
  <2> QED
      BY <2>3
<1>3. PICK m \in L : \A k \in L : m <= k
  <2> HIDE DEF L
  <2> QED
      BY <1>1, <1>2, LeastNat
<1>4. n - m \in K /\ m \in 0..n
    OBVIOUS
<1>5. ASSUME NEW k \in K PROVE k <= n - m
  <2>1. k \in 0..n /\ n - k \in 0..n /\ n - (n - k) = k
      OBVIOUS
  <2>2. n - k \in L
      BY <2>1
  <2>3. m <= n - k
    <3> HIDE DEF L
    <3> QED
        BY <1>3, <2>2
  <2> QED
      BY <1>4, <2>1, <2>3
<1> QED
    BY <1>4, <1>5
-----------------------------------------------------------------------------------
(* Numbers.                                                                        *)

\* From i to j - 1 there are digits, and none at j.
DigitsTo(i, j) ==
    j \in i..(Len(bytes) + 1) /\ ByteAt(j) \notin DigitByte /\ \A k \in i..(j - 1) : ByteAt(k) \in DigitByte

\* Digits finds the only such j.
LEMMA DigitsEnd ==
    ASSUME bytes \in Seq(Byte), NEW i \in 1..(Len(bytes) + 1)
    PROVE  DigitsTo(i, Digits(i)) /\ \A j : DigitsTo(i, j) => Digits(i) = j
<1> DEFINE K == {k \in i..(Len(bytes) + 1) : ByteAt(k) \notin DigitByte}
<1>1. Len(bytes) \in Nat /\ ByteAt(Len(bytes) + 1) \notin DigitByte
    BY TextTyped DEF DigitByte
<1>2. Len(bytes) + 1 \in K
    BY <1>1
<1>3. PICK m \in K : \A k \in K : m <= k
  <2>1. K \subseteq Nat /\ K # {}
      BY <1>2
  <2> HIDE DEF K
  <2> QED
      BY <2>1, LeastNat
<1>4. DigitsTo(i, m)
  <2>1. m \in i..(Len(bytes) + 1) /\ ByteAt(m) \notin DigitByte
      OBVIOUS
  <2>2. ASSUME NEW k \in i..(m - 1) PROVE ByteAt(k) \in DigitByte
    <3>1. k \in i..(Len(bytes) + 1) /\ ~(m <= k)
        BY <1>1, <2>1
    <3> QED
        BY <1>3, <3>1
  <2> QED
      BY <2>1, <2>2 DEF DigitsTo
<1>5. DigitsTo(i, Digits(i))
    BY <1>4 DEF DigitsTo, Digits
<1>6. ASSUME NEW a, NEW b, DigitsTo(i, a), DigitsTo(i, b) PROVE ~(a < b)
  <2> SUFFICES ASSUME a < b PROVE FALSE
      OBVIOUS
  <2>1. a \in Nat /\ b \in Nat /\ i <= a /\ ByteAt(a) \notin DigitByte
      BY <1>1, <1>6 DEF DigitsTo
  <2>2. a \in i..(b - 1)
      BY <2>1
  <2> QED
      BY <1>6, <2>1, <2>2 DEF DigitsTo
<1>7. ASSUME NEW j, DigitsTo(i, j) PROVE Digits(i) = j
  <2>1. ~(Digits(i) < j) /\ ~(j < Digits(i))
      BY <1>5, <1>6, <1>7
  <2>2. Digits(i) \in Nat /\ j \in Nat
      BY <1>1, <1>5, <1>7 DEF DigitsTo
  <2> QED
      BY <2>1, <2>2
<1> QED
    BY <1>5, <1>7

\* From i to j there are only digits.
DigitsIn(i, j) == \A k \in i..j : ByteAt(k) \in DigitByte

\* Where the digits of the exponent begin that ends at m and whose e is at e + 1.
ExponentDigits(e, m) == IF m > e + 1 /\ ByteAt(e + 2) \in {"+", "-"} THEN e + 3 ELSE e + 2

\* The bytes up to m are a number: its integer is from i + 1 to f, its fraction
\* ends at e.
Spelled(i, f, e, m) ==
    /\ i = 1 => ByteAt(1) = "-"
    /\ i < f /\ DigitsIn(i + 1, f) /\ (ByteAt(i + 1) = "0" => f = i + 1)
    /\ f < e => ByteAt(f + 1) = "." /\ f + 1 < e /\ DigitsIn(f + 2, e)
    /\ e < m => ByteAt(e + 1) = "e" /\ ExponentDigits(e, m) <= m /\ DigitsIn(ExponentDigits(e, m), m)

\* The parts of IsNumber.
AllDigitsOf(s) == s # <<>> /\ \A k \in DOMAIN s : s[k] \in DigitByte
Signed(s) == Len(s) > 1 /\ s[2] \in {"+", "-"}
Written(w, i, f, e) ==
    /\ SubSeq(w, 0 + 1, i) \in {<<>>, <<"-">>}
    /\ AllDigitsOf(SubSeq(w, i + 1, f)) /\ (w[i + 1] = "0" => f = i + 1)
    /\ LET fraction == SubSeq(w, f + 1, e) IN
       fraction = <<>> \/ (fraction[1] = "." /\ AllDigitsOf(Tail(fraction)))
    /\ LET exponent == SubSeq(w, e + 1, Len(w)) IN
       exponent = <<>> \/ /\ exponent[1] = "e"
                          /\ AllDigitsOf(SubSeq(exponent, IF Signed(exponent) THEN 3 ELSE 2, Len(exponent)))

\* s holds the n bytes behind a.
Holds(s, a, n) == Len(s) = n /\ \A k \in 1..n : s[k] = ByteAt(a + k)

\* A part of a text holds its bytes,
LEMMA PartHolds ==
    ASSUME NEW s \in Seq(Byte), NEW a \in Nat, NEW n \in Nat, Holds(s, a, n),
           NEW b \in 1..(n + 1), NEW c \in 0..n
    PROVE  /\ SubSeq(s, b, c) \in Seq(Byte)
           /\ Holds(SubSeq(s, b, c), a + b - 1, IF b <= c THEN c - b + 1 ELSE 0)
<1>1. Len(s) = n /\ \A k \in 1..n : s[k] = ByteAt(a + k)
    BY DEF Holds
<1>2. CASE b <= c
  <2> DEFINE t == SubSeq(s, b, c)
  <2>1. t \in Seq(Byte) /\ Len(t) = c - b + 1 /\ \A k \in 1..(c - b + 1) : t[k] = s[b + k - 1]
    <3>1. /\ b \in 1..(Len(s) + 1) /\ c \in b-1..Len(s)
          /\ \A i \in b..c : s[i] \in Byte
        BY <1>1, <1>2
    <3> QED
        BY <3>1, SubSeqProperties
  <2>2. ASSUME NEW k \in 1..(c - b + 1) PROVE t[k] = ByteAt((a + b - 1) + k)
    <3>1. b + k - 1 \in 1..n /\ a + (b + k - 1) = (a + b - 1) + k
        BY <1>2
    <3>2. s[b + k - 1] = ByteAt(a + (b + k - 1))
        BY <1>1, <3>1
    <3> QED
        BY <2>1, <3>1, <3>2
  <2> HIDE DEF t
  <2>3. Holds(t, a + b - 1, c - b + 1)
      BY <2>1, <2>2 DEF Holds
  <2> QED
      BY <1>2, <2>1, <2>3 DEF t
<1>3. CASE ~(b <= c)
  <2>1. SubSeq(s, b, c) = <<>>
      BY <1>1, <1>3
  <2>2. Len(<<>>) = 0 /\ <<>> \in Seq(Byte)
      OBVIOUS
  <2>3. Holds(<<>>, a + b - 1, 0)
      BY <2>2 DEF Holds
  <2> QED
      BY <1>3, <2>1, <2>2, <2>3
<1> QED
    BY <1>2, <1>3

\* and says whether these are digits.
LEMMA DigitsHeld ==
    ASSUME NEW s \in Seq(Byte), NEW a \in Nat, NEW n \in Nat, Holds(s, a, n)
    PROVE  /\ s = <<>> <=> n = 0
           /\ AllDigitsOf(s) <=> n > 0 /\ DigitsIn(a + 1, a + n)
<1>1. Len(s) = n /\ DOMAIN s = 1..n /\ \A k \in 1..n : s[k] = ByteAt(a + k)
    BY DEF Holds
<1>2. s = <<>> <=> n = 0
    BY <1>1
<1>3. (\A k \in DOMAIN s : s[k] \in DigitByte) <=> DigitsIn(a + 1, a + n)
  <2>1. ASSUME DigitsIn(a + 1, a + n), NEW k \in 1..n PROVE s[k] \in DigitByte
    <3>1. a + k \in (a + 1)..(a + n)
        OBVIOUS
    <3> QED
        BY <1>1, <2>1, <3>1 DEF DigitsIn
  <2>2. ASSUME \A k \in 1..n : s[k] \in DigitByte, NEW k \in (a + 1)..(a + n) PROVE ByteAt(k) \in DigitByte
    <3>1. k - a \in 1..n /\ a + (k - a) = k
        OBVIOUS
    <3>2. s[k - a] = ByteAt(a + (k - a)) /\ s[k - a] \in DigitByte
        BY <1>1, <2>2, <3>1
    <3> QED
        BY <3>1, <3>2
  <2> QED
      BY <1>1, <2>1, <2>2 DEF DigitsIn
<1> QED
    BY <1>2, <1>3 DEF AllDigitsOf

\* A text of one byte.
LEMMA OneByte ==
    ASSUME NEW s \in Seq(Byte), Len(s) = 1
    PROVE  s # <<>> /\ (s = <<"-">> <=> s[1] = "-")
<1>1. s # <<>>
  <2>1. Len(<<>>) = 0
      OBVIOUS
  <2> QED
      BY <2>1
<1>2. ASSUME s[1] = "-" PROVE s = <<"-">>
  <2>1. <<"-">> \in Seq({"-"} \cup Byte) /\ s \in Seq({"-"} \cup Byte)
      OBVIOUS
  <2>2. Len(<<"-">>) = 1 /\ <<"-">>[1] = "-"
      OBVIOUS
  <2>3. \A i \in 1..Len(s) : s[i] = <<"-">>[i]
      BY <1>2, <2>2
  <2> QED
      BY <2>1, <2>2, <2>3, SeqEqual
<1>3. ASSUME s = <<"-">> PROVE s[1] = "-"
    BY <1>3
<1> QED
    BY <1>1, <1>2, <1>3

\* The bytes up to m, with these parts, are a number if they are spelled as one.
LEMMA WrittenAsSpelled ==
    ASSUME bytes \in Seq(Byte), NEW m \in 0..Len(bytes),
           NEW i \in 0..1, NEW f \in 1..m, NEW e \in 1..m
    PROVE  Written(SubSeq(bytes, 1, m), i, f, e) <=> Spelled(i, f, e, m)
<1> DEFINE w == SubSeq(bytes, 1, m)
           integer == SubSeq(w, i + 1, f)
           fraction == SubSeq(w, f + 1, e)
           exponent == SubSeq(w, e + 1, Len(w))
           sign == SubSeq(w, 0 + 1, i)
           d == IF Signed(exponent) THEN 3 ELSE 2
           power == SubSeq(exponent, d, Len(exponent))
           n == IF e < m THEN m - e ELSE 0
<1>1. Len(bytes) \in Nat /\ m \in Nat /\ m <= Len(bytes) /\ i \in Nat /\ f \in Nat /\ e \in Nat
      /\ f <= m /\ e <= m /\ f > 0 /\ e > 0 /\ (i = 0 \/ i = 1) /\ m > 0
    BY TextTyped
<1>2. w \in Seq(Byte) /\ Holds(w, 0, m)
  <2>1. Holds(bytes, 0, Len(bytes))
    <3>1. \A k \in 1..Len(bytes) : bytes[k] = ByteAt(0 + k)
      <4>1. \A k \in 1..Len(bytes) : 0 + k = k
          BY <1>1
      <4> QED
          BY <4>1, TextTyped
    <3> QED
        BY <3>1 DEF Holds
  <2>2. 0 \in Nat /\ 1 \in 1..(Len(bytes) + 1) /\ m \in 0..Len(bytes) /\ 0 + 1 - 1 = 0
        /\ (IF 1 <= m THEN m - 1 + 1 ELSE 0) = m
      BY <1>1
  <2>3. w \in Seq(Byte) /\ Holds(w, 0 + 1 - 1, IF 1 <= m THEN m - 1 + 1 ELSE 0)
    <3> HIDE DEF w
    <3> QED
        BY <1>1, <2>1, <2>2, PartHolds DEF w
  <2> HIDE DEF w
  <2> QED
      BY <2>2, <2>3
<1>3. Len(w) = m /\ \A k \in 1..m : w[k] = ByteAt(k)
  <2>1. \A k \in 1..m : 0 + k = k
      BY <1>1
  <2> HIDE DEF w
  <2> QED
      BY <1>2, <2>1 DEF Holds
<1> HIDE DEF w
<1>4. sign \in {<<>>, <<"-">>} <=> (i = 1 => ByteAt(1) = "-")
  <2>1. i + 1 \in 1..(m + 1) /\ 0 + 1 \in 1..(m + 1) /\ i \in 0..m
      BY <1>1
  <2>2. sign \in Seq(Byte) /\ Holds(sign, 0 + (0 + 1) - 1, IF 0 + 1 <= i THEN i - (0 + 1) + 1 ELSE 0)
    <3> HIDE DEF sign
    <3> QED
        BY <1>1, <1>2, <2>1, PartHolds DEF sign
  <2>3. sign \in Seq(Byte) /\ Len(sign) = i /\ \A k \in 1..i : sign[k] = ByteAt(k)
    <3>1. (0 + (0 + 1) - 1) = 0 /\ (IF 0 + 1 <= i THEN i - (0 + 1) + 1 ELSE 0) = i
          /\ \A k \in 1..i : 0 + k = k
        BY <1>1
    <3> HIDE DEF sign
    <3> QED
        BY <2>2, <3>1 DEF Holds
  <2> HIDE DEF sign
  <2>4. CASE i = 0
      BY <2>3, <2>4
  <2>5. CASE i = 1
    <3>1. Len(sign) = 1 /\ sign[1] = ByteAt(1)
        BY <2>3, <2>5
    <3>2. sign # <<>> /\ (sign = <<"-">> <=> sign[1] = "-")
        BY <2>3, <3>1, OneByte
    <3> QED
        BY <2>5, <3>1, <3>2
  <2> QED
      BY <1>1, <2>4, <2>5
<1>5. AllDigitsOf(integer) <=> i < f /\ DigitsIn(i + 1, f)
  <2>1. i + 1 \in 1..(m + 1) /\ f \in 0..m /\ 0 + (i + 1) - 1 = i
      BY <1>1
  <2> DEFINE c == IF i + 1 <= f THEN f - (i + 1) + 1 ELSE 0
  <2>2. integer \in Seq(Byte) /\ Holds(integer, i, c)
    <3> HIDE DEF integer
    <3> QED
        BY <1>1, <1>2, <2>1, PartHolds DEF integer
  <2>3. c \in Nat /\ (c > 0 <=> i < f) /\ (i < f => i + c = f)
      BY <1>1
  <2> HIDE DEF c, integer
  <2>4. AllDigitsOf(integer) <=> c > 0 /\ DigitsIn(i + 1, i + c)
      BY <1>1, <2>2, <2>3, DigitsHeld
  <2> QED
      BY <2>3, <2>4
<1>6. i < f => w[i + 1] = ByteAt(i + 1)
  <2>1. i < f => i + 1 \in 1..m
      BY <1>1
  <2> QED
      BY <1>3, <2>1
<1>7. (fraction = <<>> \/ (fraction[1] = "." /\ AllDigitsOf(Tail(fraction))))
      <=> (f < e => ByteAt(f + 1) = "." /\ f + 1 < e /\ DigitsIn(f + 2, e))
  <2>1. f + 1 \in 1..(m + 1) /\ e \in 0..m /\ 0 + (f + 1) - 1 = f
      BY <1>1
  <2> DEFINE c == IF f + 1 <= e THEN e - (f + 1) + 1 ELSE 0
  <2>2. fraction \in Seq(Byte) /\ Holds(fraction, f, c)
    <3> HIDE DEF fraction
    <3> QED
        BY <1>1, <1>2, <2>1, PartHolds DEF fraction
  <2>3. c \in Nat /\ (c = 0 <=> ~(f < e)) /\ (f < e => f + c = e)
      BY <1>1
  <2> HIDE DEF c, fraction
  <2>4. fraction = <<>> <=> ~(f < e)
      BY <1>1, <2>2, <2>3, DigitsHeld
  <2>5. ASSUME f < e
        PROVE  /\ fraction[1] = ByteAt(f + 1)
               /\ AllDigitsOf(Tail(fraction)) <=> f + 1 < e /\ DigitsIn(f + 2, e)
    <3>1. Len(fraction) = c /\ (\A k \in 1..c : fraction[k] = ByteAt(f + k)) /\ 1 \in 1..c
        BY <2>2, <2>3, <2>5 DEF Holds
    <3>2. /\ Tail(fraction) \in Seq(Byte) /\ Len(Tail(fraction)) = c - 1
          /\ \A k \in 1..(c - 1) : Tail(fraction)[k] = fraction[k + 1]
        BY <2>2, <2>4, <2>5, <3>1, HeadTailProperties
    <3>3. ASSUME NEW k \in 1..(c - 1) PROVE Tail(fraction)[k] = ByteAt((f + 1) + k)
      <4>1. k + 1 \in 1..c /\ f + (k + 1) = (f + 1) + k
          BY <2>3
      <4>2. fraction[k + 1] = ByteAt(f + (k + 1))
          BY <3>1, <4>1
      <4> QED
          BY <3>2, <4>1, <4>2
    <3>4. Holds(Tail(fraction), f + 1, c - 1)
        BY <3>2, <3>3 DEF Holds
    <3>5. /\ c - 1 \in Nat /\ f + 1 \in Nat /\ (c - 1 > 0 <=> f + 1 < e)
          /\ (f + 1) + (c - 1) = e /\ (f + 1) + 1 = f + 2
        BY <1>1, <2>3, <2>5
    <3>6. AllDigitsOf(Tail(fraction)) <=> c - 1 > 0 /\ DigitsIn((f + 1) + 1, (f + 1) + (c - 1))
        BY <3>2, <3>4, <3>5, DigitsHeld
    <3> QED
        BY <3>1, <3>5, <3>6
  <2> QED
      BY <2>4, <2>5
<1>8. (exponent = <<>> \/ (exponent[1] = "e" /\ AllDigitsOf(power)))
      <=> (e < m => ByteAt(e + 1) = "e" /\ ExponentDigits(e, m) <= m /\ DigitsIn(ExponentDigits(e, m), m))
  <2>1. e + 1 \in 1..(m + 1) /\ m \in 0..m /\ 0 + (e + 1) - 1 = e
      BY <1>1
  <2>2. exponent \in Seq(Byte) /\ Holds(exponent, e, IF e + 1 <= m THEN m - (e + 1) + 1 ELSE 0)
    <3> HIDE DEF exponent
    <3> QED
        BY <1>1, <1>2, <1>3, <2>1, PartHolds DEF exponent
  <2>3. n \in Nat /\ (n = 0 <=> ~(e < m)) /\ (e < m => e + n = m)
        /\ (IF e + 1 <= m THEN m - (e + 1) + 1 ELSE 0) = n
      BY <1>1
  <2>4. Holds(exponent, e, n)
    <3> HIDE DEF exponent
    <3> QED
        BY <2>2, <2>3
  <2> HIDE DEF n, exponent
  <2>5. exponent = <<>> <=> ~(e < m)
      BY <1>1, <2>2, <2>3, <2>4, DigitsHeld
  <2>6. ASSUME e < m
        PROVE  /\ exponent[1] = ByteAt(e + 1)
               /\ AllDigitsOf(power) <=> ExponentDigits(e, m) <= m /\ DigitsIn(ExponentDigits(e, m), m)
    <3>1. Len(exponent) = n /\ (\A k \in 1..n : exponent[k] = ByteAt(e + k)) /\ 1 \in 1..n /\ n > 0
        BY <2>3, <2>4, <2>6 DEF Holds
    <3>2. n > 1 => exponent[2] = ByteAt(e + 2)
      <4>1. n > 1 => 2 \in 1..n
          BY <2>3
      <4> QED
          BY <3>1, <4>1
    <3>3. n > 1 <=> m > e + 1
        BY <1>1, <2>3, <2>6
    <3>4. Signed(exponent) <=> m > e + 1 /\ ByteAt(e + 2) \in {"+", "-"}
        BY <3>1, <3>2, <3>3 DEF Signed
    <3>5. e + d = ExponentDigits(e, m) + 0 /\ d \in 2..3 /\ (d = 3 => n > 1)
        BY <1>1, <3>1, <3>3, <3>4 DEF ExponentDigits, Signed
    <3> HIDE DEF d
    <3> DEFINE c == IF d <= n THEN n - d + 1 ELSE 0
    <3>6. d \in 1..(n + 1) /\ n \in 0..n
        BY <2>3, <3>1, <3>5
    <3>7. power \in Seq(Byte) /\ Holds(power, e + d - 1, c)
      <4> HIDE DEF power
      <4> QED
          BY <1>1, <2>2, <2>3, <2>4, <3>1, <3>6, PartHolds DEF power
    <3>8. /\ c \in Nat /\ e + d - 1 \in Nat /\ (c > 0 <=> e + d <= m)
          /\ (e + d <= m => (e + d - 1) + c = m) /\ (e + d - 1) + 1 = e + d
        BY <1>1, <2>3, <2>6, <3>5
    <3> HIDE DEF c, power
    <3>9. AllDigitsOf(power) <=> c > 0 /\ DigitsIn((e + d - 1) + 1, (e + d - 1) + c)
        BY <3>7, <3>8, DigitsHeld
    <3>10. ExponentDigits(e, m) = e + d
        BY <1>1, <3>5 DEF ExponentDigits
    <3> QED
        BY <3>1, <3>8, <3>9, <3>10
  <2> HIDE DEF power
  <2> QED
      BY <2>5, <2>6
<1>9. Written(w, i, f, e) <=>
        /\ sign \in {<<>>, <<"-">>}
        /\ AllDigitsOf(integer) /\ (w[i + 1] = "0" => f = i + 1)
        /\ fraction = <<>> \/ (fraction[1] = "." /\ AllDigitsOf(Tail(fraction)))
        /\ exponent = <<>> \/ (exponent[1] = "e" /\ AllDigitsOf(power))
    BY DEF Written
<1> HIDE DEF sign, integer, fraction, exponent, power
<1>10. Written(w, i, f, e) <=> Spelled(i, f, e, m)
    BY <1>4, <1>5, <1>6, <1>7, <1>8, <1>9 DEF Spelled
<1> QED
    BY <1>10 DEF w

\* The bytes up to m are a number if they are spelled as one.
LEMMA NumberSpelled ==
    ASSUME bytes \in Seq(Byte), NEW m \in 0..Len(bytes)
    PROVE  IsNumber(SubSeq(bytes, 1, m)) <=>
             \E i \in 0..1, f \in 1..m, e \in 1..m : Spelled(i, f, e, m)
<1> DEFINE w == SubSeq(bytes, 1, m)
<1>1. IsNumber(w) <=> \E i \in 0..1, f \in 1..Len(w), e \in 1..Len(w) : Written(w, i, f, e)
    BY DEF IsNumber, Written, AllDigitsOf, Signed
<1>2. Len(w) = m
  <2>1. Len(bytes) \in Nat /\ m \in Nat /\ m <= Len(bytes)
      BY TextTyped
  <2> QED
      BY <2>1
<1>3. \A i \in 0..1, f \in 1..m, e \in 1..m : Written(w, i, f, e) <=> Spelled(i, f, e, m)
    BY WrittenAsSpelled
<1> HIDE DEF w
<1>4. IsNumber(w) <=> \E i \in 0..1, f \in 1..m, e \in 1..m : Spelled(i, f, e, m)
    BY <1>1, <1>2, <1>3
<1> QED
    BY <1>4 DEF w

\* The positions that both scanners of a number go through.
IntAt == IF ByteAt(1) = "-" THEN 2 ELSE 1
DotAt == IF ByteAt(IntAt) = "0" THEN IntAt + 1 ELSE Digits(IntAt)
ExpAt == IF ByteAt(DotAt) = "." THEN Digits(DotAt + 1) ELSE DotAt
SignAt == IF ByteAt(ExpAt + 1) \in {"+", "-"} THEN ExpAt + 2 ELSE ExpAt + 1
EndAt == IF ByteAt(ExpAt) = "e" THEN Digits(SignAt) ELSE ExpAt

\* What they refuse on the way.
Malformed ==
    ByteAt(IntAt) \notin DigitByte \/ (ByteAt(DotAt) = "." /\ ExpAt = DotAt + 1) \/ (ByteAt(ExpAt) = "e" /\ EndAt = SignAt)
LEMMA SkipNumberEndIs == SkipNumberEnd = IF Malformed THEN 0 ELSE EndAt
    BY DEF SkipNumberEnd, Malformed, IntAt, DotAt, ExpAt, SignAt, EndAt
LEMMA FastNumberEndIs ==
    FastNumberEnd = IF ByteAt(IntAt) = "0" /\ ByteAt(IntAt + 1) \notin {".", "e"} THEN IntAt + 1
                    ELSE IF Malformed \/ ByteAt(EndAt) \in {"+", "-", ".", "e"} THEN 0 ELSE EndAt
<1>1. FastNumberEnd =
        IF ByteAt(IntAt) = "0" /\ ByteAt(IntAt + 1) \notin {".", "e"} THEN IntAt + 1
        ELSE IF \/ ByteAt(IntAt) \notin DigitByte
                \/ ByteAt(DotAt) = "." /\ ExpAt = DotAt + 1
                \/ ByteAt(ExpAt) = "e" /\ EndAt = SignAt
                \/ ByteAt(EndAt) \in {"+", "-", ".", "e"}
             THEN 0 ELSE EndAt
    BY DEF FastNumberEnd, IntAt, DotAt, ExpAt, SignAt, EndAt
<1> QED
    BY <1>1, Zenon DEF Malformed

\* A byte that is there is no further than the last one.
LEMMA ByteThere ==
    ASSUME bytes \in Seq(Byte), NEW j \in Nat, ByteAt(j) # "end"
    PROVE  j <= Len(bytes)
<1>1. Len(bytes) \in Nat
    BY TextTyped
<1> QED
    BY <1>1, TextTyped

\* What is not refused is spelled as a number, up to its end.
LEMMA SkippedIsSpelled ==
    ASSUME bytes \in Seq(Byte), ~Malformed
    PROVE  /\ EndAt \in 2..(Len(bytes) + 1)
           /\ \E i \in 0..1, f \in 1..(EndAt - 1), e \in 1..(EndAt - 1) : Spelled(i, f, e, EndAt - 1)
<1>1. Len(bytes) \in Nat
    BY TextTyped
<1>2. IntAt \in 1..2 /\ ByteAt(IntAt) \in DigitByte /\ (IntAt = 2 => ByteAt(1) = "-")
    BY DEF IntAt, Malformed
<1>3. IntAt \in Nat /\ IntAt <= Len(bytes)
    BY <1>1, <1>2, ByteThere DEF DigitByte
<1>4. /\ DotAt \in (IntAt + 1)..(Len(bytes) + 1) /\ DigitsIn(IntAt, DotAt - 1)
      /\ ByteAt(IntAt) = "0" => DotAt = IntAt + 1
  <2>1. CASE ByteAt(IntAt) = "0"
    <3>1. DotAt = IntAt + 1
        BY <2>1 DEF DotAt
    <3>2. \A k \in IntAt..(DotAt - 1) : k = IntAt
        BY <1>3, <3>1
    <3> QED
        BY <1>1, <1>2, <1>3, <3>1, <3>2 DEF DigitsIn
  <2>2. CASE ByteAt(IntAt) # "0"
    <3>1. DotAt = Digits(IntAt)
        BY <2>2 DEF DotAt
    <3>2. IntAt \in 1..(Len(bytes) + 1)
        BY <1>1, <1>3, <1>2
    <3>3. DigitsTo(IntAt, DotAt)
        BY <3>1, <3>2, DigitsEnd
    <3>4. DotAt \in IntAt..(Len(bytes) + 1) /\ DotAt # IntAt
        BY <1>2, <3>3 DEF DigitsTo
    <3>5. DigitsIn(IntAt, DotAt - 1)
        BY <3>3 DEF DigitsTo, DigitsIn
    <3> QED
        BY <1>1, <1>3, <2>2, <3>4, <3>5
  <2> QED
      BY <2>1, <2>2
<1>5. DotAt \in Nat
    BY <1>1, <1>3, <1>4
<1>6. /\ ExpAt \in DotAt..(Len(bytes) + 1)
      /\ DotAt < ExpAt => ByteAt(DotAt) = "." /\ DotAt + 1 < ExpAt /\ DigitsIn(DotAt + 1, ExpAt - 1)
  <2>1. CASE ByteAt(DotAt) = "."
    <3>1. ExpAt = Digits(DotAt + 1) /\ ExpAt # DotAt + 1
        BY <2>1 DEF ExpAt, Malformed
    <3>2. DotAt <= Len(bytes)
        BY <1>5, <2>1, ByteThere
    <3>3. DotAt + 1 \in 1..(Len(bytes) + 1)
        BY <1>1, <1>5, <3>2
    <3>4. DigitsTo(DotAt + 1, ExpAt)
        BY <3>1, <3>3, DigitsEnd
    <3>5. ExpAt \in (DotAt + 1)..(Len(bytes) + 1)
        BY <3>4 DEF DigitsTo
    <3>6. DigitsIn(DotAt + 1, ExpAt - 1)
        BY <3>4 DEF DigitsTo, DigitsIn
    <3> QED
        BY <1>1, <1>5, <2>1, <3>1, <3>5, <3>6
  <2>2. CASE ByteAt(DotAt) # "."
    <3>1. ExpAt = DotAt
        BY <2>2 DEF ExpAt
    <3> QED
        BY <1>1, <1>4, <1>5, <3>1
  <2> QED
      BY <2>1, <2>2
<1>7. ExpAt \in Nat
    BY <1>1, <1>5, <1>6
<1>8. /\ EndAt \in ExpAt..(Len(bytes) + 1)
      /\ ExpAt < EndAt => /\ ByteAt(ExpAt) = "e" /\ SignAt < EndAt /\ DigitsIn(SignAt, EndAt - 1)
                          /\ SignAt = ExponentDigits(ExpAt - 1, EndAt - 1)
  <2>1. CASE ByteAt(ExpAt) = "e"
    <3>1. EndAt = Digits(SignAt) /\ EndAt # SignAt
        BY <2>1 DEF EndAt, Malformed
    <3>2. ExpAt <= Len(bytes)
        BY <1>7, <2>1, ByteThere
    <3>3. SignAt \in (ExpAt + 1)..(Len(bytes) + 1) /\ (ByteAt(ExpAt + 1) \in {"+", "-"} => SignAt = ExpAt + 2)
          /\ (ByteAt(ExpAt + 1) \notin {"+", "-"} => SignAt = ExpAt + 1)
      <4>1. CASE ByteAt(ExpAt + 1) \in {"+", "-"}
        <5>1. ExpAt + 1 <= Len(bytes)
          <6>1. ByteAt(ExpAt + 1) # "end" /\ ExpAt + 1 \in Nat
              BY <1>7, <4>1
          <6> QED
              BY <6>1, ByteThere
        <5> QED
            BY <1>1, <1>7, <4>1, <5>1 DEF SignAt
      <4>2. CASE ByteAt(ExpAt + 1) \notin {"+", "-"}
          BY <1>1, <1>7, <3>2, <4>2 DEF SignAt
      <4> QED
          BY <4>1, <4>2
    <3>4. SignAt \in 1..(Len(bytes) + 1)
        BY <1>1, <1>7, <3>3
    <3>5. DigitsTo(SignAt, EndAt)
        BY <3>1, <3>4, DigitsEnd
    <3>6. EndAt \in SignAt..(Len(bytes) + 1)
        BY <3>5 DEF DigitsTo
    <3>7. DigitsIn(SignAt, EndAt - 1)
        BY <3>5 DEF DigitsTo, DigitsIn
    <3>8. SignAt < EndAt
        BY <1>1, <3>1, <3>4, <3>6
    <3>9. SignAt = ExponentDigits(ExpAt - 1, EndAt - 1)
      <4>1. /\ EndAt - 1 > (ExpAt - 1) + 1 \/ EndAt = SignAt + 1
            /\ (ExpAt - 1) + 2 = ExpAt + 1 /\ (ExpAt - 1) + 3 = ExpAt + 2
          BY <1>1, <1>7, <3>3, <3>6, <3>8
      <4>2. CASE ByteAt(ExpAt + 1) \in {"+", "-"}
        <5>1. EndAt - 1 > (ExpAt - 1) + 1
            BY <1>1, <1>7, <3>3, <3>6, <3>8, <4>2
        <5> QED
            BY <3>3, <4>1, <4>2, <5>1 DEF ExponentDigits
      <4>3. CASE ByteAt(ExpAt + 1) \notin {"+", "-"}
          BY <3>3, <4>1, <4>3 DEF ExponentDigits
      <4> QED
          BY <4>2, <4>3
    <3> QED
        BY <1>1, <1>7, <2>1, <3>3, <3>6, <3>7, <3>8, <3>9
  <2>2. CASE ByteAt(ExpAt) # "e"
    <3>1. EndAt = ExpAt
        BY <2>2 DEF EndAt
    <3> QED
        BY <1>1, <1>6, <1>7, <1>5, <3>1
  <2> QED
      BY <2>1, <2>2
<1> DEFINE i == IntAt - 1
           f == DotAt - 1
           e == ExpAt - 1
           m == EndAt - 1
<1>9. /\ i \in 0..1 /\ f \in 1..m /\ e \in 1..m /\ m \in Nat /\ m <= Len(bytes) /\ EndAt \in 2..(Len(bytes) + 1)
      /\ i + 1 = IntAt /\ f + 1 = DotAt /\ f + 2 = DotAt + 1 /\ e + 1 = ExpAt
      /\ (i = 1 => IntAt = 2) /\ i < f /\ (f < e <=> DotAt < ExpAt) /\ (e < m <=> ExpAt < EndAt)
      /\ (DotAt + 1 < ExpAt => f + 1 < e) /\ (DotAt = IntAt + 1 => f = i + 1)
    BY <1>1, <1>2, <1>3, <1>4, <1>5, <1>6, <1>7, <1>8
<1>10. SignAt \in Int /\ SignAt < EndAt => SignAt <= m
    BY <1>9
<1>11. SignAt \in Int
    BY <1>7 DEF SignAt
<1>12. Spelled(i, f, e, m)
  <2>1. i = 1 => ByteAt(1) = "-"
      BY <1>2, <1>9
  <2>2. i < f /\ DigitsIn(i + 1, f) /\ (ByteAt(i + 1) = "0" => f = i + 1)
    <3> HIDE DEF i, e, m
    <3> QED
        BY <1>4, <1>9
  <2>3. f < e => ByteAt(f + 1) = "." /\ f + 1 < e /\ DigitsIn(f + 2, e)
    <3> HIDE DEF i, f, m
    <3> QED
        BY <1>6, <1>9
  <2>4. e < m => ByteAt(e + 1) = "e" /\ ExponentDigits(e, m) <= m /\ DigitsIn(ExponentDigits(e, m), m)
      BY <1>8, <1>9, <1>10, <1>11
  <2> HIDE DEF i, f, e, m
  <2> QED
      BY <2>1, <2>2, <2>3, <2>4 DEF Spelled
<1> QED
    BY <1>9, <1>12

\* Digits that end in front of no digit are found.
LEMMA DigitsFound ==
    ASSUME bytes \in Seq(Byte), NEW i \in Nat, NEW j \in Nat,
           1 <= i, i <= j, j <= Len(bytes), DigitsIn(i, j), ByteAt(j + 1) \notin DigitByte
    PROVE  Digits(i) = j + 1
<1>1. Len(bytes) \in Nat
    BY TextTyped
<1>2. i \in 1..(Len(bytes) + 1) /\ j + 1 \in i..(Len(bytes) + 1) /\ (j + 1) - 1 = j
    BY <1>1
<1>3. DigitsTo(i, j + 1)
    BY <1>2 DEF DigitsTo, DigitsIn
<1> QED
    BY <1>2, <1>3, DigitsEnd

\* What is spelled as a number is not refused, and its end is found, if nothing
\* behind it could go on with it.
LEMMA SpelledIsSkipped ==
    ASSUME bytes \in Seq(Byte), NEW m \in 1..Len(bytes), ByteAt(m + 1) \notin DigitByte \cup {".", "e"},
           NEW i \in 0..1, NEW f \in 1..m, NEW e \in 1..m, Spelled(i, f, e, m)
    PROVE  ~Malformed /\ EndAt = m + 1
<1>1. Len(bytes) \in Nat /\ m \in Nat /\ m <= Len(bytes) /\ i \in Nat /\ f \in Nat /\ e \in Nat
      /\ f <= m /\ e <= m /\ f > 0 /\ e > 0 /\ (i = 0 \/ i = 1)
    BY TextTyped
<1>2. i < f /\ DigitsIn(i + 1, f) /\ (ByteAt(i + 1) = "0" => f = i + 1) /\ (i = 1 => ByteAt(1) = "-")
    BY DEF Spelled
<1>3. f < e => ByteAt(f + 1) = "." /\ f + 1 < e /\ DigitsIn(f + 2, e)
    BY DEF Spelled
<1>4. e < m => ByteAt(e + 1) = "e" /\ ExponentDigits(e, m) <= m /\ DigitsIn(ExponentDigits(e, m), m)
    BY DEF Spelled
<1>5. ByteAt(i + 1) \in DigitByte /\ i + 1 \in 1..f
  <2>1. i + 1 \in (i + 1)..f /\ i + 1 \in 1..f
      BY <1>1, <1>2
  <2> QED
      BY <1>2, <2>1 DEF DigitsIn
<1>6. IntAt = i + 1
  <2>1. CASE i = 0
    <3>1. ByteAt(1) # "-"
        BY <1>5, <2>1 DEF DigitByte
    <3> QED
        BY <2>1, <3>1 DEF IntAt
  <2>2. CASE i = 1
      BY <1>2, <2>2 DEF IntAt
  <2> QED
      BY <1>1, <2>1, <2>2
<1>7. f <= e
  <2> SUFFICES ASSUME e < f PROVE FALSE
      BY <1>1
  <2>1. e < m /\ e + 1 \in (i + 1)..f
      BY <1>1
  <2>2. ByteAt(e + 1) \in DigitByte /\ ByteAt(e + 1) = "e"
      BY <1>2, <1>4, <2>1 DEF DigitsIn
  <2> QED
      BY <2>2 DEF DigitByte
<1>8. ByteAt(f + 1) \notin DigitByte /\ (f = e => ByteAt(f + 1) # ".")
  <2>1. CASE f < e
      BY <1>1, <1>3, <2>1 DEF DigitByte
  <2>2. CASE f = e /\ e < m
      BY <1>1, <1>4, <2>2 DEF DigitByte
  <2>3. CASE f = e /\ e = m
      BY <2>3
  <2> QED
      BY <1>1, <1>7, <2>1, <2>2, <2>3
<1>9. DotAt = f + 1
  <2>1. CASE ByteAt(IntAt) = "0"
      BY <1>2, <1>6, <2>1 DEF DotAt
  <2>2. CASE ByteAt(IntAt) # "0"
    <3>1. i + 1 \in Nat /\ 1 <= i + 1 /\ i + 1 <= f /\ f <= Len(bytes)
        BY <1>1, <1>2
    <3>2. Digits(i + 1) = f + 1
        BY <1>1, <1>2, <1>8, <3>1, DigitsFound
    <3> QED
        BY <1>6, <2>2, <3>2 DEF DotAt
  <2> QED
      BY <2>1, <2>2
<1>10. ByteAt(e + 1) \notin DigitByte /\ (e = m => ByteAt(e + 1) # "e")
  <2>1. CASE e < m
      BY <1>1, <1>4, <2>1 DEF DigitByte
  <2>2. CASE e = m
      BY <2>2
  <2> QED
      BY <1>1, <2>1, <2>2
<1>11. ExpAt = e + 1 /\ ~(ByteAt(DotAt) = "." /\ ExpAt = DotAt + 1)
  <2>1. CASE f < e
    <3>1. f + 2 \in Nat /\ 1 <= f + 2 /\ f + 2 <= e /\ e <= Len(bytes)
        BY <1>1, <1>3, <2>1
    <3>2. Digits(f + 2) = e + 1
        BY <1>1, <1>3, <1>10, <2>1, <3>1, DigitsFound
    <3>3. DotAt + 1 = f + 2 /\ e + 1 # f + 2
        BY <1>1, <1>3, <1>9, <2>1
    <3> QED
        BY <1>3, <1>9, <2>1, <3>2, <3>3 DEF ExpAt
  <2>2. CASE f = e
      BY <1>8, <1>9, <2>2 DEF ExpAt
  <2> QED
      BY <1>1, <1>7, <2>1, <2>2
<1>12. EndAt = m + 1 /\ ~(ByteAt(ExpAt) = "e" /\ EndAt = SignAt)
  <2>1. CASE e < m
    <3> DEFINE a == ExponentDigits(e, m)
    <3>1. a <= m /\ DigitsIn(a, m) /\ ByteAt(e + 1) = "e"
        BY <1>4, <2>1
    <3>2. a \in {e + 2, e + 3} /\ SignAt = a
      <4>1. ExpAt + 1 = e + 2 /\ ExpAt + 2 = e + 3
          BY <1>1, <1>11
      <4>2. CASE ByteAt(e + 2) \in {"+", "-"}
        <5>1. m > e + 1
          <6> SUFFICES ASSUME m = e + 1 PROVE FALSE
              BY <1>1, <2>1
          <6>1. a = e + 2 /\ ~(a <= m)
              BY <1>1 DEF ExponentDigits
          <6> QED
              BY <3>1, <6>1
        <5> QED
            BY <4>1, <4>2, <5>1 DEF ExponentDigits, SignAt
      <4>3. CASE ByteAt(e + 2) \notin {"+", "-"}
          BY <4>1, <4>3 DEF ExponentDigits, SignAt
      <4> QED
          BY <4>2, <4>3
    <3> HIDE DEF a
    <3>3. a \in Nat /\ 1 <= a
        BY <1>1, <3>2
    <3>4. Digits(a) = m + 1
        BY <1>1, <3>1, <3>3, DigitsFound
    <3>5. m + 1 # a
        BY <1>1, <3>1, <3>3
    <3> QED
        BY <1>11, <3>1, <3>2, <3>4, <3>5 DEF EndAt
  <2>2. CASE e = m
      BY <1>10, <1>11, <2>2 DEF EndAt
  <2> QED
      BY <1>1, <2>1, <2>2
<1> QED
    BY <1>5, <1>6, <1>11, <1>12 DEF Malformed

\* Where a number in a valid text ends: at a delimiter, or with the text.
LEMMA RawEnd ==
    ASSUME bytes \in Seq(Byte)
    PROVE  /\ RawNumberEnd \in 1..(Len(bytes) + 1)
           /\ ByteAt(RawNumberEnd) \in Delimiters \cup {"end"}
<1> DEFINE K == {j \in 1..Len(bytes) : bytes[j] \in Delimiters}
<1>1. Len(bytes) \in Nat
    BY TextTyped
<1>2. FirstAmong(1, Delimiters) = IF K = {} THEN 0 ELSE CHOOSE j \in K : \A k \in K : j <= k
    BY DEF FirstAmong
<1>3. CASE K = {}
  <2>1. RawNumberEnd = Len(bytes) + 1
      BY <1>2, <1>3 DEF RawNumberEnd
  <2>2. ByteAt(Len(bytes) + 1) = "end" /\ Len(bytes) + 1 \in 1..(Len(bytes) + 1)
      BY <1>1, TextTyped
  <2> QED
      BY <2>1, <2>2
<1>4. CASE K # {}
  <2>1. \E j \in K : \A k \in K : j <= k
    <3>1. K \subseteq Nat
        OBVIOUS
    <3> HIDE DEF K
    <3> QED
        BY <1>4, <3>1, LeastNat
  <2>2. FirstAmong(1, Delimiters) \in K
    <3> HIDE DEF K
    <3> QED
        BY <1>2, <1>4, <2>1
  <2>3. FirstAmong(1, Delimiters) \in 1..Len(bytes) /\ bytes[FirstAmong(1, Delimiters)] \in Delimiters
      BY <2>2
  <2>4. RawNumberEnd = FirstAmong(1, Delimiters)
    <3>1. FirstAmong(1, Delimiters) # 0
        BY <1>1, <2>3
    <3> QED
        BY <3>1 DEF RawNumberEnd
  <2>5. ByteAt(RawNumberEnd) = bytes[RawNumberEnd] /\ RawNumberEnd \in 1..(Len(bytes) + 1)
      BY <1>1, <2>3, <2>4, TextTyped
  <2> QED
      BY <2>3, <2>4, <2>5
<1> QED
    BY <1>3, <1>4

\* In front of a delimiter all find exactly the numbers, and what is found in front
\* of anything else is a number too (fastjson.go, search.go, localparser.go,
\* decoder.go and int64.go scan one each).
THEOREM NumbersEndAlike ==
    ASSUME bytes \in Seq(Byte)
    PROVE  NumbersAgree
<1> SUFFICES ASSUME ByteAt(1) \in DigitByte \cup {"-"} PROVE NumbersAgree
    BY DEF NumbersAgree
<1> DEFINE end == RawNumberEnd
<1>1. Len(bytes) \in Nat
    BY TextTyped
<1>2. end \in 1..(Len(bytes) + 1) /\ ByteAt(end) \in Delimiters \cup {"end"}
    BY RawEnd
<1>3. end # 1
    BY <1>2 DEF DigitByte, Delimiters
<1> HIDE DEF end
<1>4. end - 1 \in 1..Len(bytes) /\ end - 1 \in 0..Len(bytes) /\ (end - 1) + 1 = end /\ end # 0
    BY <1>1, <1>2, <1>3
<1>5. ByteAt(end) \notin DigitByte \cup {".", "e"} /\ ByteAt(end) \notin {"+", "-", ".", "e"}
    BY <1>2 DEF DigitByte, Delimiters
\* What Skip finds is a number.
<1>6. ASSUME SkipNumberEnd # 0 PROVE IsNumber(SubSeq(bytes, 1, SkipNumberEnd - 1))
  <2>1. ~Malformed /\ SkipNumberEnd = EndAt
      BY <1>6, SkipNumberEndIs
  <2>2. /\ EndAt \in 2..(Len(bytes) + 1)
        /\ \E i \in 0..1, f \in 1..(EndAt - 1), e \in 1..(EndAt - 1) : Spelled(i, f, e, EndAt - 1)
      BY <2>1, SkippedIsSpelled
  <2>3. EndAt - 1 \in 0..Len(bytes)
      BY <1>1, <2>2
  <2> QED
      BY <2>1, <2>2, <2>3, NumberSpelled
\* A number in front of the end is found by Skip.
<1>7. ASSUME IsNumber(SubSeq(bytes, 1, end - 1)) PROVE ~Malformed /\ EndAt = end
  <2>1. PICK i \in 0..1, f \in 1..(end - 1), e \in 1..(end - 1) : Spelled(i, f, e, end - 1)
      BY <1>4, <1>7, NumberSpelled
  <2>2. ~Malformed /\ EndAt = (end - 1) + 1
      BY <1>4, <1>5, <2>1, SpelledIsSkipped
  <2> QED
      BY <1>4, <2>2
\* The fast scanner goes as far as Skip, if it accepts.
<1>8. ASSUME ByteAt(IntAt) = "0", ByteAt(IntAt + 1) \notin {".", "e"}
      PROVE  ~Malformed /\ EndAt = IntAt + 1
  <2>1. DotAt = IntAt + 1
      BY <1>8 DEF DotAt
  <2>2. ExpAt = DotAt /\ ByteAt(DotAt) # "."
      BY <1>8, <2>1 DEF ExpAt
  <2>3. EndAt = ExpAt /\ ByteAt(ExpAt) # "e"
      BY <1>8, <2>1, <2>2 DEF EndAt
  <2> QED
      BY <1>8, <2>1, <2>2, <2>3 DEF Malformed, DigitByte
<1>9. FastNumberEnd # 0 => SkipNumberEnd = FastNumberEnd
    BY <1>8, SkipNumberEndIs, FastNumberEndIs
<1>10. SkipNumberEnd = end => FastNumberEnd = end
  <2> SUFFICES ASSUME SkipNumberEnd = end PROVE FastNumberEnd = end
      OBVIOUS
  <2>1. ~Malformed /\ EndAt = end
      BY <1>4, SkipNumberEndIs
  <2>2. CASE ByteAt(IntAt) = "0" /\ ByteAt(IntAt + 1) \notin {".", "e"}
      BY <1>8, <2>1, <2>2, FastNumberEndIs
  <2>3. CASE ~(ByteAt(IntAt) = "0" /\ ByteAt(IntAt + 1) \notin {".", "e"})
      BY <1>5, <2>1, <2>3, FastNumberEndIs
  <2> QED
      BY <2>2, <2>3
<1>11. SkipNumberEnd = end <=> IsNumber(SubSeq(bytes, 1, end - 1))
  <2>1. SkipNumberEnd = end => IsNumber(SubSeq(bytes, 1, end - 1))
      BY <1>4, <1>6
  <2>2. IsNumber(SubSeq(bytes, 1, end - 1)) => SkipNumberEnd = end
      BY <1>7, SkipNumberEndIs
  <2> QED
      BY <2>1, <2>2
<1>12. FastNumberEnd = end <=> SkipNumberEnd = end
    BY <1>4, <1>9, <1>10
<1>13. FastNumberEnd # 0 => IsNumber(SubSeq(bytes, 1, FastNumberEnd - 1))
    BY <1>6, <1>9
<1> QED
    BY <1>9, <1>11, <1>12, <1>13 DEF NumbersAgree, end
-----------------------------------------------------------------------------------
(* Recursive functions.                                                            *)

\* f goes from a, one step for each j up to N.
Runs(f, S, a, step, N) ==
    f \in [1..N -> S] /\ \A j \in 1..N : f[j] = IF j = 1 THEN a ELSE step[j][f[j - 1]]

\* Such a function exists.
LEMMA RunExists ==
    ASSUME NEW S, NEW a \in S, NEW N \in Nat, NEW step \in [1..N -> [S -> S]]
    PROVE  \E f : Runs(f, S, a, step, N)
<1> DEFINE K == {n \in 0..N : ~ \E f : Runs(f, S, a, step, n)}
<1>1. SUFFICES ASSUME K # {} PROVE FALSE
  <2>1. N \in 0..N
      OBVIOUS
  <2> QED
      BY <2>1
<1>2. PICK m \in K : \A n \in K : m <= n
  <2>1. K \subseteq Nat
      OBVIOUS
  <2> HIDE DEF K
  <2> QED
      BY <1>1, <2>1, LeastNat
<1>3. m \in 0..N /\ ~ \E f : Runs(f, S, a, step, m)
    OBVIOUS
<1>4. m # 0
  <2> SUFFICES ASSUME m = 0 PROVE FALSE
      OBVIOUS
  <2> DEFINE g == [j \in 1..0 |-> a]
  <2>1. g \in [1..0 -> S] /\ 1..0 = {}
      OBVIOUS
  <2>2. Runs(g, S, a, step, 0)
      BY <2>1 DEF Runs
  <2> HIDE DEF g
  <2> QED
      BY <1>3, <2>2
<1>5. m - 1 \in 0..N /\ ~(m <= m - 1)
    BY <1>3, <1>4
<1>6. m - 1 \notin K
  <2> HIDE DEF K
  <2> QED
      BY <1>2, <1>5
<1>7. PICK f : Runs(f, S, a, step, m - 1)
    BY <1>5, <1>6
<1> DEFINE g == [j \in 1..m |-> IF j = 1 THEN a ELSE step[j][f[j - 1]]]
<1>8. \A j \in 1..m : j # 1 => j - 1 \in 1..(m - 1) /\ f[j - 1] \in S /\ step[j] \in [S -> S]
    BY <1>3, <1>7 DEF Runs
<1>9. g \in [1..m -> S]
    BY <1>8
<1>10. \A j \in 1..(m - 1) : g[j] = f[j]
  <2>1. \A j \in 1..(m - 1) : j \in 1..m
      BY <1>3
  <2> QED
      BY <1>7, <2>1 DEF Runs
<1>11. ASSUME NEW j \in 1..m PROVE g[j] = IF j = 1 THEN a ELSE step[j][g[j - 1]]
  <2>1. g[j] = IF j = 1 THEN a ELSE step[j][f[j - 1]]
      OBVIOUS
  <2> HIDE DEF g
  <2>2. j # 1 => g[j - 1] = f[j - 1]
      BY <1>8, <1>10
  <2> QED
      BY <2>1, <2>2
<1> HIDE DEF g
<1>12. Runs(g, S, a, step, m)
    BY <1>9, <1>11 DEF Runs
<1> QED
    BY <1>3, <1>12

\* f looks up what it says of j further on, and says what base says beyond N.
LooksUp(f, j, base, next, step, N) ==
    f[j] = IF j <= N THEN step[j][f[next[j]]] ELSE base[j]

\* Such a function exists.
LEMMA ScanExists ==
    ASSUME NEW S, NEW N \in Nat, NEW D, D \subseteq Nat, NEW base \in [D -> S],
           NEW next \in [D -> D], NEW step \in [D -> [S -> S]],
           \A j \in D : j <= N => j < next[j]
    PROVE  \E f \in [D -> S] : \A j \in D : LooksUp(f, j, base, next, step, N)
<1> DEFINE OK(n) == \E f \in [D -> S] :
                      \A j \in D : N - n < j => LooksUp(f, j, base, next, step, N)
           K == {n \in 0..(N + 1) : ~OK(n)}
<1>1. SUFFICES ASSUME K # {} PROVE FALSE
  <2>1. OK(N + 1)
    <3>1. N + 1 \in 0..(N + 1)
        OBVIOUS
    <3> HIDE DEF OK
    <3> QED
        BY <3>1
  <2>2. \A j \in D : N - (N + 1) < j
      OBVIOUS
  <2> QED
      BY <2>1, <2>2
<1>2. PICK m \in K : \A n \in K : m <= n
  <2>1. K \subseteq Nat
      OBVIOUS
  <2> HIDE DEF K
  <2> QED
      BY <1>1, <2>1, LeastNat
<1>3. m \in 0..(N + 1) /\ ~OK(m)
    OBVIOUS
<1>4. m # 0
  <2>1. \A j \in D : N - 0 < j => ~(j <= N)
      OBVIOUS
  <2>2. \A j \in D : N - 0 < j => LooksUp(base, j, base, next, step, N)
      BY <2>1 DEF LooksUp
  <2> QED
      BY <1>3, <2>2
<1>5. m - 1 \in 0..(N + 1) /\ ~(m <= m - 1)
    BY <1>3, <1>4
<1>6. OK(m - 1)
  <2>1. m - 1 \notin K
    <3> HIDE DEF K
    <3> QED
        BY <1>2, <1>5
  <2> HIDE DEF OK
  <2> QED
      BY <1>5, <2>1
<1>7. PICK f \in [D -> S] : \A j \in D : N - (m - 1) < j => LooksUp(f, j, base, next, step, N)
    BY <1>6
<1> DEFINE i == N - (m - 1)
           g == [j \in D |-> IF j = i THEN IF i <= N THEN step[i][f[next[i]]] ELSE base[i] ELSE f[j]]
<1>8. i \in Int /\ \A j \in D : N - m < j => j = i \/ i < j
    BY <1>3
<1>9. g \in [D -> S]
  <2>1. ASSUME i \in D PROVE step[i][f[next[i]]] \in S /\ base[i] \in S
    <3>1. next[i] \in D /\ step[i] \in [S -> S]
        BY <2>1
    <3>2. f[next[i]] \in S
        BY <3>1
    <3> QED
        BY <2>1, <3>1, <3>2
  <2> HIDE DEF i
  <2> QED
      BY <2>1
<1>10. ASSUME NEW j \in D, N - m < j PROVE LooksUp(g, j, base, next, step, N)
  <2>1. j \in Nat /\ next[j] \in D /\ next[j] \in Nat
      OBVIOUS
  <2>2. j <= N => g[next[j]] = f[next[j]]
    <3>1. j <= N => next[j] # i
        BY <1>8, <1>10, <2>1
    <3> HIDE DEF i
    <3> QED
        BY <2>1, <3>1
  <2>3. CASE j = i
    <3>1. g[j] = IF j <= N THEN step[j][f[next[j]]] ELSE base[j]
      <4> HIDE DEF i
      <4> QED
          BY <2>3
    <3> HIDE DEF g, i
    <3> QED
        BY <2>2, <3>1 DEF LooksUp
  <2>4. CASE j # i
    <3>1. g[j] = f[j]
      <4> HIDE DEF i
      <4> QED
          BY <2>4
    <3>2. LooksUp(f, j, base, next, step, N)
        BY <1>7, <1>8, <1>10, <2>4
    <3> HIDE DEF g, i
    <3> QED
        BY <2>2, <3>1, <3>2 DEF LooksUp
  <2> QED
      BY <2>3, <2>4
<1> HIDE DEF g
<1>11. OK(m)
    BY <1>9, <1>10
<1> QED
    BY <1>3, <1>11
-----------------------------------------------------------------------------------
(* The end of a string.                                                            *)

\* The backslashes in front of j, back to the string's first byte.
Slashes(j) == {i \in 2..(j - 1) : \A k \in i..(j - 1) : bytes[k] = Slash}
\* The byte at j is escaped.
Escaped(j) == Cardinality(Slashes(j)) % 2 # 0

\* One more turns odd to even.
LEMMA OneMore == \A n \in Nat : (n + 1) % 2 # 0 <=> n % 2 = 0
    BY SMT

\* The first byte is not escaped, and another one is if an unescaped backslash is in
\* front of it.
LEMMA EscapedNext ==
    /\ ~Escaped(2)
    /\ \A j \in Nat : 2 <= j => (Escaped(j + 1) <=> bytes[j] = Slash /\ ~Escaped(j))
<1>1. ~Escaped(2)
  <2>1. Slashes(2) = {}
      BY DEF Slashes
  <2>2. Cardinality({}) = 0 /\ 0 % 2 = 0
      BY FS_EmptySet
  <2> QED
      BY <2>1, <2>2 DEF Escaped
<1>2. ASSUME NEW j \in Nat, 2 <= j PROVE Escaped(j + 1) <=> bytes[j] = Slash /\ ~Escaped(j)
  <2>1. j + 1 - 1 = j
      OBVIOUS
  <2>2. IsFiniteSet(Slashes(j)) /\ Cardinality(Slashes(j)) \in Nat
    <3>1. IsFiniteSet(2..(j - 1))
        BY FS_Interval
    <3>2. IsFiniteSet(Slashes(j))
        BY <3>1, FS_Subset DEF Slashes
    <3> QED
        BY <3>2, FS_CardinalityType
  <2>3. CASE bytes[j] = Slash
    <3>1. Slashes(j + 1) = Slashes(j) \cup {j}
      <4>1. ASSUME NEW i \in 2..j, i # j
            PROVE  (\A k \in i..j : bytes[k] = Slash) <=> (\A k \in i..(j - 1) : bytes[k] = Slash)
        <5>1. \A k : k \in i..j <=> k \in i..(j - 1) \/ k = j
            OBVIOUS
        <5> QED
            BY <2>3, <5>1
      <4>2. \A k \in j..j : k = j
          OBVIOUS
      <4>3. \A i : i \in 2..j <=> i \in 2..(j - 1) \/ i = j
          BY <1>2
      <4>4. j \notin 2..(j - 1)
          OBVIOUS
      <4>5. Slashes(j + 1) = {i \in 2..j : \A k \in i..j : bytes[k] = Slash}
          BY <2>1 DEF Slashes
      <4>6. ASSUME NEW i PROVE i \in Slashes(j + 1) <=> i \in Slashes(j) \cup {j}
        <5>1. CASE i = j
            BY <2>3, <4>2, <4>3, <4>5, <5>1
        <5>2. CASE i # j
            BY <4>1, <4>3, <4>5, <5>2 DEF Slashes
        <5> QED
            BY <5>1, <5>2
      <4> QED
          BY <4>6
    <3>2. j \notin Slashes(j)
        BY DEF Slashes
    <3>3. Cardinality(Slashes(j + 1)) = Cardinality(Slashes(j)) + 1
        BY <2>2, <3>1, <3>2, FS_AddElement
    <3> QED
        BY <2>2, <2>3, <3>3, OneMore DEF Escaped
  <2>4. CASE bytes[j] # Slash
    <3>1. Slashes(j + 1) = {}
      <4>1. \A i \in 2..j : j \in i..j
          OBVIOUS
      <4> QED
          BY <2>1, <2>4, <4>1 DEF Slashes
    <3>2. Cardinality({}) = 0 /\ 0 % 2 = 0
        BY FS_EmptySet
    <3> QED
        BY <2>4, <3>1, <3>2 DEF Escaped
  <2> QED
      BY <2>3, <2>4
<1> QED
    BY <1>1, <1>2

\* Backslashes from s + 1 to q - 1, and not at s, escape q if they are odd.
LEMMA EscapedCount ==
    ASSUME NEW q \in Nat, NEW s \in 1..(q - 1), s = 1 \/ bytes[s] # Slash,
           \A k \in (s + 1)..(q - 1) : bytes[k] = Slash
    PROVE  (q - s - 1) % 2 = 0 <=> ~Escaped(q)
<1>1. s \in Nat /\ 1 <= s /\ s <= q - 1
    OBVIOUS
<1>2. Slashes(q) = (s + 1)..(q - 1)
  <2>1. ASSUME NEW i \in (s + 1)..(q - 1) PROVE i \in Slashes(q)
    <3>1. i \in 2..(q - 1) /\ \A k \in i..(q - 1) : k \in (s + 1)..(q - 1)
        BY <1>1
    <3> QED
        BY <3>1 DEF Slashes
  <2>2. ASSUME NEW i \in Slashes(q) PROVE i \in (s + 1)..(q - 1)
    <3>1. i \in 2..(q - 1) /\ \A k \in i..(q - 1) : bytes[k] = Slash
        BY DEF Slashes
    <3>2. s < i
      <4> SUFFICES ASSUME i <= s PROVE FALSE
          BY <1>1, <3>1
      <4>1. s \in i..(q - 1) /\ s # 1
          BY <1>1, <3>1
      <4> QED
          BY <3>1, <4>1
    <3> QED
        BY <1>1, <3>1, <3>2
  <2> QED
      BY <2>1, <2>2
<1>3. Cardinality(Slashes(q)) = q - s - 1
  <2>1. Cardinality((s + 1)..(q - 1)) = IF s + 1 > q - 1 THEN 0 ELSE (q - 1) - (s + 1) + 1
      BY <1>1, FS_Interval
  <2> QED
      BY <1>1, <1>2, <2>1
<1> QED
    BY <1>3 DEF Escaped

\* The quotes that end the string are those that are not escaped.
LEMMA EndsAreUnescaped ==
    ASSUME bytes \in Seq(Byte)
    PROVE  /\ \A j : j \in StringEnds <=> j \in 2..Len(bytes) /\ bytes[j] = DoubleQuote /\ ~Escaped(j)
           /\ StringEnds \subseteq 2..Len(bytes)
<1>1. ASSUME NEW j \in 2..Len(bytes)
      PROVE  Escaped(j) <=> Cardinality({i \in 2..(j - 1) : \A k \in i..(j - 1) : bytes[k] = Slash}) % 2 # 0
    BY DEF Escaped, Slashes
<1> QED
    BY <1>1 DEF StringEnds

\* e is behind the first quote from j on that ends the string, 0 if there is none.
EndsFrom(j, e) ==
    \/ e = 0 /\ \A k \in StringEnds : k < j
    \/ e - 1 \in StringEnds /\ e \in Nat /\ j < e /\ \A k \in StringEnds : k < j \/ e - 1 <= k

\* From the first byte on this is the end of the string.
LEMMA EndOnce ==
    ASSUME bytes \in Seq(Byte), NEW e, EndsFrom(2, e)
    PROVE  StringEnd = e
<1>1. StringEnds \subseteq 2..Len(bytes) /\ Len(bytes) \in Nat
    BY EndsAreUnescaped, TextTyped
<1>2. \A k \in StringEnds : k \in Nat /\ ~(k < 2)
    BY <1>1
<1>3. CASE e = 0
  <2>1. StringEnds = {}
      BY <1>1, <1>2, <1>3 DEF EndsFrom
  <2> QED
      BY <1>3, <2>1 DEF StringEnd
<1>4. CASE e # 0
  <2>1. e - 1 \in StringEnds /\ e \in Nat /\ \A k \in StringEnds : e - 1 <= k
      BY <1>2, <1>4 DEF EndsFrom
  <2> DEFINE c == CHOOSE j \in StringEnds : \A k \in StringEnds : j <= k
  <2>2. c \in StringEnds /\ \A k \in StringEnds : c <= k
      BY <2>1
  <2>3. StringEnd = c + 1
      BY <2>1 DEF StringEnd
  <2> HIDE DEF c
  <2>4. c \in Nat /\ c <= e - 1 /\ e - 1 <= c
      BY <1>2, <2>1, <2>2
  <2> QED
      BY <2>1, <2>3, <2>4
<1> QED
    BY <1>3, <1>4

\* There is such an e.
LEMMA EndExists ==
    ASSUME bytes \in Seq(Byte)
    PROVE  EndsFrom(2, StringEnd)
<1>1. StringEnds \subseteq 2..Len(bytes) /\ Len(bytes) \in Nat
    BY EndsAreUnescaped, TextTyped
<1>2. CASE StringEnds = {}
    BY <1>2 DEF StringEnd, EndsFrom
<1>3. CASE StringEnds # {}
  <2>1. StringEnds \subseteq Nat
      BY <1>1
  <2>2. PICK m \in StringEnds : \A k \in StringEnds : m <= k
      BY <1>3, <2>1, LeastNat
  <2>3. m \in Nat /\ (m + 1) - 1 = m /\ m + 1 \in Nat /\ 2 < m + 1
      BY <1>1
  <2>4. EndsFrom(2, m + 1)
      BY <2>2, <2>3 DEF EndsFrom
  <2>5. StringEnd = m + 1
      BY <2>4, EndOnce
  <2> QED
      BY <2>4, <2>5
<1> QED
    BY <1>2, <1>3

\* Nothing before j ends the string that did not end it before i.
LEMMA EndFurther ==
    ASSUME bytes \in Seq(Byte), NEW i \in Nat, NEW j \in Nat, i <= j, NEW e, EndsFrom(j, e),
           \A k \in i..(j - 1) : k \notin StringEnds
    PROVE  EndsFrom(i, e)
<1>1. \A k \in StringEnds : k \in Nat
    BY EndsAreUnescaped, TextTyped
<1>2. ASSUME NEW k \in StringEnds, k < j PROVE k < i
  <2> SUFFICES ASSUME i <= k PROVE FALSE
      BY <1>1
  <2>1. k \in i..(j - 1)
      BY <1>1, <1>2
  <2> QED
      BY <2>1
<1> QED
    BY <1>1, <1>2 DEF EndsFrom

\* The scan with a flag (search.go, and both scanContainerEnds inside strings).
FlagFirst == [escaped |-> FALSE, end |-> 0]
FlagNext(s, j) ==
    IF s.end # 0 THEN s
    ELSE IF s.escaped THEN [s EXCEPT !.escaped = FALSE]
    ELSE [escaped |-> bytes[j] = Slash, end |-> IF bytes[j] = DoubleQuote THEN j + 1 ELSE 0]
FlagBody(run, j) ==
    LET s == IF j = 1 THEN [escaped |-> FALSE, end |-> 0] ELSE run[j - 1] IN
    IF j = 1 \/ s.end # 0 THEN s
    ELSE IF s.escaped THEN [s EXCEPT !.escaped = FALSE]
    ELSE [escaped |-> bytes[j] = Slash, end |-> IF bytes[j] = DoubleQuote THEN j + 1 ELSE 0]

\* Its states are these,
LEMMA FlagRun ==
    ASSUME bytes \in Seq(Byte), NEW last \in Nat
    PROVE  \E run : /\ FlagEnd(1, last) = run[last].end
                    /\ \A j \in 1..last : run[j] = IF j = 1 THEN FlagFirst ELSE FlagNext(run[j - 1], j)
<1> DEFINE S == [escaped : BOOLEAN, end : Nat]
           step == [j \in 1..last |-> [s \in S |-> FlagNext(s, j)]]
<1>1. \A s \in S : \A j \in 1..last : FlagNext(s, j) \in S
  <2>1. ASSUME NEW s \in S, NEW j \in 1..last PROVE FlagNext(s, j) \in S
    <3>1. (bytes[j] = Slash) \in BOOLEAN
        BY Zenon
    <3>4. (IF bytes[j] = DoubleQuote THEN j + 1 ELSE 0) \in Nat
        OBVIOUS
    <3>2. [escaped |-> bytes[j] = Slash, end |-> IF bytes[j] = DoubleQuote THEN j + 1 ELSE 0] \in S
        BY <3>4, <3>1, Zenon
    <3>3. [s EXCEPT !.escaped = FALSE] \in S
        OBVIOUS
    <3> QED
        BY <3>2, <3>3 DEF FlagNext
  <2> QED
      BY <2>1
<1>2. step \in [1..last -> [S -> S]]
  <2> HIDE DEF S
  <2> QED
      BY <1>1
<1>3. FlagFirst \in S
    BY DEF FlagFirst
<1>4. \E f : Runs(f, S, FlagFirst, step, last)
  <2> HIDE DEF S, step
  <2> QED
      BY <1>2, <1>3, RunExists
<1>5. PICK f : Runs(f, S, FlagFirst, step, last)
    BY <1>4
<1>6. ASSUME NEW j \in 1..last PROVE f[j] = FlagBody(f, j)
  <2>1. CASE j = 1
      BY <1>5, <2>1 DEF Runs, FlagBody, FlagFirst
  <2>2. CASE j # 1
    <3>1. f[j - 1] \in S
      <4>1. j - 1 \in 1..last
          BY <2>2
      <4> HIDE DEF S, step
      <4> QED
          BY <1>5, <4>1 DEF Runs
    <3>2. f[j] = step[j][f[j - 1]]
      <4> HIDE DEF S, step
      <4> QED
          BY <1>5, <2>2 DEF Runs
    <3>3. f[j] = FlagNext(f[j - 1], j)
      <4> HIDE DEF S
      <4> QED
          BY <3>1, <3>2
    <3> QED
        BY <2>2, <3>3 DEF FlagNext, FlagBody
  <2> QED
      BY <2>1, <2>2
<1>7. f = [j \in 1..last |-> FlagBody(f, j)]
  <2>1. f \in [1..last -> S]
      BY <1>5 DEF Runs
  <2> HIDE DEF S
  <2> QED
      BY <1>6, <2>1
<1> DEFINE run == CHOOSE r : r = [j \in 1..last |-> FlagBody(r, j)]
<1>8. run = [j \in 1..last |-> FlagBody(run, j)]
    BY <1>7
<1>9. FlagEnd(1, last) = run[last].end
    BY DEF FlagEnd, FlagBody
<1> HIDE DEF run
<1>10. ASSUME NEW j \in 1..last
       PROVE  run[j] = IF j = 1 THEN FlagFirst ELSE FlagNext(run[j - 1], j)
  <2>1. run[j] = FlagBody(run, j)
      BY <1>8
  <2> QED
      BY <2>1 DEF FlagBody, FlagFirst, FlagNext
<1> QED
    BY <1>9, <1>10

\* and after j bytes they know whether the next is escaped, or the string's end.
LEMMA FlaggedEnd ==
    ASSUME bytes \in Seq(Byte), NEW last \in 1..Len(bytes)
    PROVE  IF FlagEnd(1, last) = 0 THEN \A k \in StringEnds : last < k
           ELSE EndsFrom(2, FlagEnd(1, last))
<1>1. Len(bytes) \in Nat /\ last \in Nat
    BY TextTyped
<1>2. PICK run : /\ FlagEnd(1, last) = run[last].end
                 /\ \A j \in 1..last : run[j] = IF j = 1 THEN FlagFirst ELSE FlagNext(run[j - 1], j)
    BY <1>1, FlagRun
<1> DEFINE Open(j) == /\ run[j] \in [escaped : BOOLEAN, end : {0}]
                      /\ run[j].escaped <=> Escaped(j + 1)
                      /\ \A k \in StringEnds : j < k
           P(j) == Open(j) \/ (run[j].end # 0 /\ EndsFrom(2, run[j].end))
           K == {j \in 1..last : ~P(j)}
<1>3. \A k \in StringEnds : k \in Nat /\ 2 <= k
    BY <1>1, EndsAreUnescaped
<1>4. K = {}
  <2> SUFFICES ASSUME K # {} PROVE FALSE
      OBVIOUS
  <2>1. PICK j \in K : \A k \in K : j <= k
    <3>1. K \subseteq Nat
        OBVIOUS
    <3> HIDE DEF K
    <3> QED
        BY <3>1, LeastNat
  <2>2. j \in 1..last /\ ~P(j) /\ j \in Nat
      OBVIOUS
  <2>3. j # 1
    <3> SUFFICES ASSUME j = 1 PROVE FALSE
        OBVIOUS
    <3>1. run[1] = FlagFirst
        BY <1>2, <2>2
    <3>2. run[1] \in [escaped : BOOLEAN, end : {0}] /\ ~run[1].escaped
        BY <3>1 DEF FlagFirst
    <3>3. ~Escaped(1 + 1)
        BY EscapedNext
    <3>4. \A k \in StringEnds : 1 < k
        BY <1>3
    <3>5. Open(1)
        BY <3>2, <3>3, <3>4
    <3> QED
        BY <2>2, <3>5
  <2> DEFINE s == run[j - 1]
  <2>4. j - 1 \in 1..last /\ ~(j <= j - 1) /\ 2 <= j /\ j - 1 + 1 = j /\ j \in 2..Len(bytes)
      BY <1>1, <2>2, <2>3
  <2>5. P(j - 1)
    <3>1. j - 1 \notin K
      <4> HIDE DEF K
      <4> QED
          BY <2>1, <2>4
    <3> HIDE DEF P
    <3> QED
        BY <2>4, <3>1
  <2>6. run[j] = FlagNext(s, j)
      BY <1>2, <2>2, <2>3
  <2>7. CASE s.end # 0 /\ EndsFrom(2, s.end)
    <3>1. run[j] = s
        BY <2>6, <2>7 DEF FlagNext
    <3>2. P(j)
        BY <2>7, <3>1
    <3> QED
        BY <2>2, <3>2
  <2>8. CASE Open(j - 1)
    <3>1. s \in [escaped : BOOLEAN, end : {0}] /\ (s.escaped <=> Escaped(j)) /\ s.end = 0
          /\ \A k \in StringEnds : j - 1 < k
        BY <2>4, <2>8
    <3> HIDE DEF s, P
    <3>2. Escaped(j + 1) <=> bytes[j] = Slash /\ ~Escaped(j)
        BY <2>2, <2>4, EscapedNext
    <3>3. j \in StringEnds <=> bytes[j] = DoubleQuote /\ ~Escaped(j)
        BY <2>4, EndsAreUnescaped
    <3>4. CASE s.escaped
      <4>1. run[j] = [s EXCEPT !.escaped = FALSE]
          BY <2>6, <3>1, <3>4 DEF FlagNext
      <4>2. run[j] \in [escaped : BOOLEAN, end : {0}] /\ ~run[j].escaped
          BY <3>1, <4>1
      <4>3. ~Escaped(j + 1) /\ j \notin StringEnds
          BY <3>1, <3>2, <3>3, <3>4
      <4>4. \A k \in StringEnds : j < k
          BY <1>3, <2>2, <3>1, <4>3
      <4>5. P(j)
          BY <4>2, <4>3, <4>4 DEF P
      <4> QED
          BY <2>2, <4>5
    <3>5. CASE ~s.escaped
      <4>1. run[j] = [escaped |-> bytes[j] = Slash, end |-> IF bytes[j] = DoubleQuote THEN j + 1 ELSE 0]
          BY <2>6, <3>1, <3>5 DEF FlagNext
      <4>2. CASE bytes[j] = DoubleQuote
        <5>1. run[j].end = j + 1 /\ j + 1 # 0
            BY <2>2, <4>1, <4>2
        <5>2. j \in StringEnds
            BY <3>1, <3>3, <3>5, <4>2
        <5>3. \A k \in StringEnds : j <= k
            BY <1>3, <2>2, <3>1
        <5>4. EndsFrom(2, j + 1)
          <6>1. (j + 1) - 1 = j /\ j + 1 \in Nat /\ 2 < j + 1
              BY <2>2, <2>4
          <6> QED
              BY <5>2, <5>3, <6>1 DEF EndsFrom
        <5>5. P(j)
            BY <5>1, <5>4 DEF P
        <5> QED
            BY <2>2, <5>5
      <4>3. CASE bytes[j] # DoubleQuote
        <5>1. run[j].end = 0 /\ run[j].escaped = (bytes[j] = Slash)
            BY <4>1, <4>3
        <5>2. (bytes[j] = Slash) \in BOOLEAN
            BY Zenon
        <5>3. run[j] \in [escaped : BOOLEAN, end : {0}]
            BY <4>1, <4>3, <5>2
        <5>4. run[j].escaped <=> Escaped(j + 1)
            BY <3>1, <3>2, <3>5, <5>1
        <5>5. \A k \in StringEnds : j < k
            BY <1>3, <2>2, <3>1, <3>3, <4>3
        <5>6. P(j)
            BY <5>3, <5>4, <5>5 DEF P
        <5> QED
            BY <2>2, <5>6
      <4> QED
          BY <4>2, <4>3
    <3> QED
        BY <3>4, <3>5
  <2> QED
      BY <2>5, <2>7, <2>8
<1>5. P(last)
  <2>1. last \in 1..last
      BY <1>1
  <2> HIDE DEF P
  <2> QED
      BY <1>4, <2>1
<1>6. CASE Open(last)
  <2>1. run[last].end = 0
      BY <1>6
  <2> QED
      BY <1>2, <1>6, <2>1
<1>7. CASE run[last].end # 0 /\ EndsFrom(2, run[last].end)
    BY <1>2, <1>7
<1> QED
    BY <1>5, <1>6, <1>7

\* The scan that passes over pairs (decoder.go, encoder.go, int64.go, visitor.go).
PairBody(from, j) ==
    IF j > Len(bytes) THEN 0
    ELSE IF bytes[j] = Slash THEN from[j + 2]
    ELSE IF bytes[j] = DoubleQuote THEN j + 1 ELSE from[j + 1]
PairFrom == CHOOSE f : f = [j \in Nat |-> PairBody(f, j)]

\* What it finds from j on, it finds from a byte behind.
LEMMA PairScan ==
    ASSUME bytes \in Seq(Byte)
    PROVE  /\ \A start : PairStringEnd(start) = PairFrom[start + 1]
           /\ \A j \in Nat : PairFrom[j] = PairBody(PairFrom, j)
<1> DEFINE base == [j \in Nat |-> 0]
           next == [j \in Nat |-> IF bytes[j] = Slash THEN j + 2 ELSE j + 1]
           step == [j \in Nat |-> [x \in Nat |-> IF bytes[j] = Slash THEN x
                                                 ELSE IF bytes[j] = DoubleQuote THEN j + 1 ELSE x]]
<1>1. Len(bytes) \in Nat
    BY TextTyped
<1>2. base \in [Nat -> Nat] /\ next \in [Nat -> Nat] /\ step \in [Nat -> [Nat -> Nat]]
      /\ \A j \in Nat : j < next[j]
    OBVIOUS
<1>3. \E f \in [Nat -> Nat] : \A j \in Nat : LooksUp(f, j, base, next, step, Len(bytes))
  <2>1. Nat \subseteq Nat /\ \A j \in Nat : j <= Len(bytes) => j < next[j]
      BY <1>2
  <2> HIDE DEF base, next, step
  <2> QED
      BY <1>1, <1>2, <2>1, ScanExists
<1>4. PICK f \in [Nat -> Nat] : \A j \in Nat : LooksUp(f, j, base, next, step, Len(bytes))
    BY <1>3
<1>5. ASSUME NEW j \in Nat PROVE f[j] = PairBody(f, j)
  <2>1. f[j] = IF j <= Len(bytes) THEN step[j][f[next[j]]] ELSE base[j]
    <3> HIDE DEF base, next, step
    <3> QED
        BY <1>4 DEF LooksUp
  <2>2. next[j] \in Nat /\ f[next[j]] \in Nat
      BY <1>2
  <2>3. CASE j <= Len(bytes)
    <3>1. ~(j > Len(bytes))
        BY <1>1, <2>3
    <3>2. f[j] = step[j][f[next[j]]]
        BY <2>1, <2>3
    <3>3. CASE bytes[j] = Slash
      <4>1. next[j] = j + 2
          BY <3>3
      <4>2. step[j][f[next[j]]] = f[next[j]]
        <5> HIDE DEF next
        <5> QED
            BY <2>2, <3>3
      <4> QED
          BY <3>1, <3>2, <3>3, <4>1, <4>2 DEF PairBody
    <3>4. CASE bytes[j] # Slash
      <4>1. next[j] = j + 1
          BY <3>4
      <4>2. step[j][f[next[j]]] = IF bytes[j] = DoubleQuote THEN j + 1 ELSE f[next[j]]
        <5> HIDE DEF next
        <5> QED
            BY <2>2, <3>4
      <4> QED
          BY <3>1, <3>2, <3>4, <4>1, <4>2 DEF PairBody
    <3> QED
        BY <3>3, <3>4
  <2>4. CASE ~(j <= Len(bytes))
      BY <1>1, <2>1, <2>4 DEF PairBody
  <2> QED
      BY <2>3, <2>4
<1>6. f = [j \in Nat |-> PairBody(f, j)]
    BY <1>5
<1>7. PairFrom = [j \in Nat |-> PairBody(PairFrom, j)]
    BY <1>6 DEF PairFrom
<1>8. \A start : PairStringEnd(start) = PairFrom[start + 1]
    BY DEF PairStringEnd, PairFrom, PairBody
<1> QED
    BY <1>7, <1>8

\* It finds the end from every byte that is not escaped.
LEMMA PairEnd ==
    ASSUME bytes \in Seq(Byte), NEW i \in Nat, 2 <= i, ~Escaped(i)
    PROVE  EndsFrom(i, PairFrom[i])
<1> DEFINE K == {j \in 2..Len(bytes) : ~Escaped(j) /\ ~EndsFrom(j, PairFrom[j])}
<1>1. Len(bytes) \in Nat
    BY TextTyped
<1>2. \A j \in Nat : PairFrom[j] = PairBody(PairFrom, j)
    BY PairScan
<1>3. StringEnds \subseteq 2..Len(bytes)
    BY EndsAreUnescaped
<1>4. ASSUME NEW j \in Nat, j > Len(bytes) PROVE EndsFrom(j, PairFrom[j])
  <2>1. PairFrom[j] = 0
      BY <1>2, <1>4 DEF PairBody
  <2>2. \A k \in StringEnds : k < j
      BY <1>1, <1>3, <1>4
  <2> QED
      BY <2>1, <2>2 DEF EndsFrom
<1>5. K = {}
  <2> SUFFICES ASSUME K # {} PROVE FALSE
      OBVIOUS
  <2>1. PICK j \in K : \A k \in K : k <= j
    <3>1. K \subseteq 0..Len(bytes)
        BY <1>1
    <3> HIDE DEF K
    <3> QED
        BY <1>1, <3>1, GreatestNat
  <2>2. j \in 2..Len(bytes) /\ ~Escaped(j) /\ ~EndsFrom(j, PairFrom[j]) /\ j \in Nat
        /\ j + 1 \in Nat /\ j + 2 \in Nat /\ 2 <= j
      OBVIOUS
  <2>3. \A k \in Nat : j < k /\ ~Escaped(k) => EndsFrom(k, PairFrom[k])
    <3>1. ASSUME NEW k \in Nat, j < k, ~Escaped(k) PROVE EndsFrom(k, PairFrom[k])
      <4>1. ~(k <= j)
          BY <2>2, <3>1
      <4>2. k \notin K
        <5> HIDE DEF K
        <5> QED
            BY <2>1, <4>1
      <4>3. CASE k <= Len(bytes)
          BY <2>2, <3>1, <4>2, <4>3
      <4>4. CASE ~(k <= Len(bytes))
          BY <1>1, <1>4, <4>4
      <4> QED
          BY <4>3, <4>4
    <3> QED
        BY <3>1
  <2> HIDE DEF K
  <2>4. ~(j > Len(bytes)) /\ (Escaped(j + 1) <=> bytes[j] = Slash) /\ j + 1 + 1 = j + 2
    <3>1. ~(j > Len(bytes)) /\ j + 1 + 1 = j + 2
        BY <1>1, <2>2
    <3>2. Escaped(j + 1) <=> bytes[j] = Slash
        BY <2>2, EscapedNext
    <3> QED
        BY <3>1, <3>2
  <2>5. j \in StringEnds <=> bytes[j] = DoubleQuote
      BY <2>2, EndsAreUnescaped
  <2>6. CASE bytes[j] = Slash
    <3>1. Escaped(j + 1) /\ ~Escaped(j + 2) /\ j + 1 \notin StringEnds /\ j \notin StringEnds
      <4>1. Escaped(j + 1) /\ 2 <= j + 1
          BY <2>2, <2>4, <2>6
      <4>2. ~Escaped(j + 1 + 1)
          BY <2>2, <4>1, EscapedNext
      <4>3. j + 1 \notin StringEnds
          BY <4>1, EndsAreUnescaped
      <4>4. bytes[j] # DoubleQuote
          BY <2>6 DEF Slash, DoubleQuote
      <4> QED
          BY <2>4, <2>5, <4>1, <4>2, <4>3, <4>4
    <3>2. PairFrom[j] = PairFrom[j + 2]
        BY <1>2, <2>2, <2>4, <2>6 DEF PairBody
    <3>3. EndsFrom(j + 2, PairFrom[j])
        BY <2>2, <2>3, <3>1, <3>2
    <3>4. \A k \in j..(j + 2 - 1) : k = j \/ k = j + 1
        BY <2>2
    <3>5. EndsFrom(j, PairFrom[j])
        BY <2>2, <3>1, <3>3, <3>4, EndFurther
    <3> QED
        BY <2>2, <3>5
  <2>7. CASE bytes[j] # Slash /\ bytes[j] = DoubleQuote
    <3>1. PairFrom[j] = j + 1
        BY <1>2, <2>2, <2>4, <2>7 DEF PairBody
    <3>2. (j + 1) - 1 = j /\ j < j + 1 /\ \A k \in StringEnds : k < j \/ j <= k
        BY <1>3, <2>2
    <3>3. EndsFrom(j, j + 1)
        BY <2>2, <2>5, <2>7, <3>2 DEF EndsFrom
    <3> QED
        BY <2>2, <3>1, <3>3
  <2>8. CASE bytes[j] # Slash /\ bytes[j] # DoubleQuote
    <3>1. PairFrom[j] = PairFrom[j + 1] /\ ~Escaped(j + 1) /\ j \notin StringEnds
        BY <1>2, <2>2, <2>4, <2>5, <2>8 DEF PairBody
    <3>2. EndsFrom(j + 1, PairFrom[j])
        BY <2>2, <2>3, <3>1
    <3>3. \A k \in j..(j + 1 - 1) : k = j
        BY <2>2
    <3>4. EndsFrom(j, PairFrom[j])
        BY <2>2, <3>1, <3>2, <3>3, EndFurther
    <3> QED
        BY <2>2, <3>4
  <2> QED
      BY <2>6, <2>7, <2>8
<1>6. CASE i <= Len(bytes)
  <2>1. i \in 2..Len(bytes)
      BY <1>1, <1>6
  <2> QED
      BY <1>5, <2>1
<1>7. CASE ~(i <= Len(bytes))
    BY <1>1, <1>4, <1>7
<1> QED
    BY <1>6, <1>7

\* FirstAmong finds the first byte of a set.
LEMMA FirstFinds ==
    ASSUME bytes \in Seq(Byte), NEW from \in Nat, NEW set
    PROVE  \/ FirstAmong(from, set) = 0 /\ \A j \in from..Len(bytes) : bytes[j] \notin set
           \/ /\ FirstAmong(from, set) \in from..Len(bytes) /\ bytes[FirstAmong(from, set)] \in set
              /\ \A j \in from..(FirstAmong(from, set) - 1) : bytes[j] \notin set
<1> DEFINE K == {j \in from..Len(bytes) : bytes[j] \in set}
<1>1. Len(bytes) \in Nat
    BY TextTyped
<1>2. FirstAmong(from, set) = IF K = {} THEN 0 ELSE CHOOSE j \in K : \A k \in K : j <= k
    BY DEF FirstAmong
<1>3. CASE K = {}
    BY <1>2, <1>3
<1>4. CASE K # {}
  <2>1. \E j \in K : \A k \in K : j <= k
    <3>1. K \subseteq Nat
        OBVIOUS
    <3> HIDE DEF K
    <3> QED
        BY <1>4, <3>1, LeastNat
  <2> DEFINE c == CHOOSE j \in K : \A k \in K : j <= k
  <2>2. c \in K /\ \A k \in K : c <= k
    <3> HIDE DEF K
    <3> QED
        BY <2>1
  <2>3. FirstAmong(from, set) = c
      BY <1>2, <1>4
  <2> HIDE DEF c
  <2>4. c \in from..Len(bytes) /\ bytes[c] \in set
      BY <2>2
  <2>5. ASSUME NEW j \in from..(c - 1) PROVE bytes[j] \notin set
    <3>1. j \in from..Len(bytes) /\ ~(c <= j)
        BY <1>1, <2>4
    <3>2. j \notin K
      <4> HIDE DEF K
      <4> QED
          BY <2>2, <3>1
    <3> QED
        BY <3>1, <3>2
  <2> QED
      BY <2>3, <2>4, <2>5
<1> QED
    BY <1>3, <1>4

\* The search for an unescaped quote (fastjson.go).
LastOther(from, quote) ==
    CHOOSE j \in CountedFrom(1, from)..(quote - 1) :
      /\ j = CountedFrom(1, from) \/ bytes[j] # Slash
      /\ \A k \in (j + 1)..(quote - 1) : bytes[k] = Slash
SearchBody(search, from) ==
    LET quote == FirstAmong(from, {DoubleQuote}) IN
    IF quote = 0 THEN 0
    ELSE IF (quote - LastOther(from, quote) - 1) % 2 = 0 THEN quote + 1
    ELSE search[quote + 1]
Search == CHOOSE f : f = [from \in 1..(Len(bytes) + 1) |-> SearchBody(f, from)]
FastFrom == IF 1 + Short < Len(bytes) THEN 1 + Short ELSE Len(bytes)

\* It goes on behind a quote that is escaped.
LEMMA SearchScan ==
    ASSUME bytes \in Seq(Byte)
    PROVE  /\ FastStringEnd(1) = IF FlagEnd(1, FastFrom) # 0 THEN FlagEnd(1, FastFrom)
                                 ELSE Search[FastFrom + 1]
           /\ \A j \in 1..(Len(bytes) + 1) : Search[j] = SearchBody(Search, j)
<1> DEFINE D == 1..(Len(bytes) + 1)
           quote(j) == FirstAmong(j, {DoubleQuote})
           even(j) == (quote(j) - LastOther(j, quote(j)) - 1) % 2 = 0
           base == [j \in D |-> 0]
           next == [j \in D |-> IF quote(j) = 0 THEN j + 1 ELSE quote(j) + 1]
           last == [j \in D |-> IF j <= Len(bytes) THEN next[j] ELSE j]
           step == [j \in D |-> [x \in Nat |-> IF quote(j) = 0 THEN 0
                                               ELSE IF even(j) THEN quote(j) + 1 ELSE x]]
<1>1. Len(bytes) \in Nat
    BY TextTyped
<1>2. \A j \in D : quote(j) = 0 \/ (quote(j) \in j..Len(bytes) /\ quote(j) \in Nat)
    BY <1>1, FirstFinds
<1> HIDE DEF quote, even
<1>3. base \in [D -> Nat] /\ step \in [D -> [Nat -> Nat]]
    BY <1>2
<1>4. last \in [D -> D] /\ \A j \in D : j <= Len(bytes) => j < last[j]
  <2>1. ASSUME NEW j \in D PROVE last[j] \in D /\ (j <= Len(bytes) => j < last[j])
    <3>1. CASE j <= Len(bytes)
      <4>1. last[j] = IF quote(j) = 0 THEN j + 1 ELSE quote(j) + 1
          BY <3>1
      <4>2. CASE quote(j) = 0
          BY <1>1, <3>1, <4>1, <4>2
      <4>3. CASE quote(j) # 0
        <5>1. quote(j) \in j..Len(bytes)
            BY <1>2, <4>3
        <5> QED
            BY <1>1, <4>1, <4>3, <5>1
      <4> QED
          BY <4>2, <4>3
    <3>2. CASE ~(j <= Len(bytes))
        BY <3>2
    <3> QED
        BY <3>1, <3>2
  <2> HIDE DEF D, next
  <2>2. last \in [D -> D]
    <3>1. \A j \in D : (IF j <= Len(bytes) THEN next[j] ELSE j) \in D
        BY <2>1
    <3> QED
        BY <3>1
  <2> HIDE DEF last
  <2> QED
      BY <2>1, <2>2
<1>5. \E f \in [D -> Nat] : \A j \in D : LooksUp(f, j, base, last, step, Len(bytes))
  <2>1. D \subseteq Nat
      OBVIOUS
  <2> HIDE DEF D, base, next, last, step
  <2> QED
      BY <1>1, <1>3, <1>4, <2>1, ScanExists
<1>6. PICK f \in [D -> Nat] : \A j \in D : LooksUp(f, j, base, last, step, Len(bytes))
    BY <1>5
<1>7. ASSUME NEW j \in D PROVE f[j] = SearchBody(f, j)
  <2>1. f[j] = IF j <= Len(bytes) THEN step[j][f[last[j]]] ELSE base[j]
    <3> HIDE DEF base, last, step
    <3> QED
        BY <1>6 DEF LooksUp
  <2>2. f[last[j]] \in Nat
    <3> HIDE DEF D, last
    <3> QED
        BY <1>4
  <2>3. SearchBody(f, j) = IF quote(j) = 0 THEN 0 ELSE IF even(j) THEN quote(j) + 1 ELSE f[quote(j) + 1]
      BY DEF SearchBody, quote, even
  <2>4. CASE j <= Len(bytes)
    <3>1. f[j] = IF quote(j) = 0 THEN 0 ELSE IF even(j) THEN quote(j) + 1 ELSE f[last[j]]
      <4>1. step[j][f[last[j]]] = IF quote(j) = 0 THEN 0 ELSE IF even(j) THEN quote(j) + 1 ELSE f[last[j]]
        <5> HIDE DEF D, last
        <5> QED
            BY <2>2
      <4> HIDE DEF last, step
      <4> QED
          BY <2>1, <2>4, <4>1
    <3>2. last[j] = IF quote(j) = 0 THEN j + 1 ELSE quote(j) + 1
        BY <2>4
    <3> HIDE DEF last
    <3> QED
        BY <2>3, <3>1, <3>2
  <2>5. CASE ~(j <= Len(bytes))
    <3>1. quote(j) = 0
        BY <1>1, <1>2, <2>5
    <3>2. f[j] = 0
      <4> HIDE DEF last, step
      <4> QED
          BY <2>1, <2>5
    <3> QED
        BY <2>3, <3>1, <3>2
  <2> QED
      BY <2>4, <2>5
<1>8. f = [j \in D |-> SearchBody(f, j)]
  <2> HIDE DEF D
  <2> QED
      BY <1>7
<1>9. Search = [j \in D |-> SearchBody(Search, j)]
    BY <1>8 DEF Search
<1>10. FastStringEnd(1) = IF FlagEnd(1, FastFrom) # 0 THEN FlagEnd(1, FastFrom) ELSE Search[FastFrom + 1]
    BY DEF FastStringEnd, FastFrom, Search, SearchBody, LastOther
<1> QED
    BY <1>9, <1>10

\* The backslashes in front of a quote are counted as they stand.
LEMMA CountedBack ==
    ASSUME NEW q \in Nat, 2 <= q, NEW from
    PROVE  (q - LastOther(from, q) - 1) % 2 = 0 <=> ~Escaped(q)
<1> DEFINE K == {j \in 1..(q - 1) : j = 1 \/ bytes[j] # Slash}
<1>1. 1 \in K
    OBVIOUS
<1>2. PICK m \in K : \A k \in K : k <= m
  <2>1. K \subseteq 0..q /\ K # {}
      BY <1>1
  <2> HIDE DEF K
  <2> QED
      BY <2>1, GreatestNat
<1>3. m \in 1..(q - 1) /\ (m = 1 \/ bytes[m] # Slash)
    OBVIOUS
<1>4. ASSUME NEW k \in (m + 1)..(q - 1) PROVE bytes[k] = Slash
  <2>1. k \in 1..(q - 1) /\ ~(k <= m) /\ k # 1
      BY <1>3
  <2>2. k \notin K
    <3> HIDE DEF K
    <3> QED
        BY <1>2, <2>1
  <2> QED
      BY <2>1, <2>2
<1> DEFINE s == LastOther(from, q)
<1>5. s = CHOOSE j \in 1..(q - 1) : (j = 1 \/ bytes[j] # Slash) /\ \A k \in (j + 1)..(q - 1) : bytes[k] = Slash
    BY DEF LastOther, CountedFrom
<1> HIDE DEF s
<1>6. s \in 1..(q - 1) /\ (s = 1 \/ bytes[s] # Slash) /\ \A k \in (s + 1)..(q - 1) : bytes[k] = Slash
    BY <1>3, <1>4, <1>5
<1>7. (q - s - 1) % 2 = 0 <=> ~Escaped(q)
    BY <1>6, EscapedCount
<1> QED
    BY <1>7 DEF s

\* The search finds the end from every byte on.
LEMMA SearchEnd ==
    ASSUME bytes \in Seq(Byte), NEW i \in 2..(Len(bytes) + 1)
    PROVE  EndsFrom(i, Search[i])
<1> DEFINE K == {j \in 2..(Len(bytes) + 1) : ~EndsFrom(j, Search[j])}
<1>1. Len(bytes) \in Nat
    BY TextTyped
<1>2. StringEnds \subseteq 2..Len(bytes)
    BY EndsAreUnescaped
<1>3. SUFFICES ASSUME K # {} PROVE FALSE
    OBVIOUS
<1>4. PICK j \in K : \A k \in K : k <= j
  <2>1. K \subseteq 0..(Len(bytes) + 1) /\ Len(bytes) + 1 \in Nat
      BY <1>1
  <2> HIDE DEF K
  <2> QED
      BY <1>3, <2>1, GreatestNat
<1>5. j \in 2..(Len(bytes) + 1) /\ ~EndsFrom(j, Search[j]) /\ j \in Nat /\ j \in 1..(Len(bytes) + 1)
    OBVIOUS
<1> DEFINE q == FirstAmong(j, {DoubleQuote})
<1>6. Search[j] = IF q = 0 THEN 0
                  ELSE IF (q - LastOther(j, q) - 1) % 2 = 0 THEN q + 1 ELSE Search[q + 1]
    BY <1>5, SearchScan DEF SearchBody
<1>7. \/ q = 0 /\ \A k \in j..Len(bytes) : bytes[k] # DoubleQuote
      \/ q \in j..Len(bytes) /\ bytes[q] = DoubleQuote /\ \A k \in j..(q - 1) : bytes[k] # DoubleQuote
    BY <1>5, FirstFinds
<1> HIDE DEF q
<1>8. \A k \in StringEnds : k \in Nat /\ bytes[k] = DoubleQuote /\ ~Escaped(k) /\ k <= Len(bytes)
    BY <1>1, <1>2, EndsAreUnescaped
<1>9. CASE q = 0 /\ \A k \in j..Len(bytes) : bytes[k] # DoubleQuote
  <2>1. ASSUME NEW k \in StringEnds PROVE k < j
    <3> SUFFICES ASSUME j <= k PROVE FALSE
        BY <1>5, <1>8
    <3>1. k \in j..Len(bytes)
        BY <1>1, <1>5, <1>8
    <3> QED
        BY <1>8, <1>9, <3>1
  <2>2. EndsFrom(j, Search[j])
      BY <1>6, <1>9, <2>1 DEF EndsFrom
  <2> QED
      BY <1>5, <2>2
<1>10. CASE q \in j..Len(bytes) /\ bytes[q] = DoubleQuote /\ \A k \in j..(q - 1) : bytes[k] # DoubleQuote
  <2>1. q \in Nat /\ 2 <= q /\ q # 0 /\ j <= q /\ q \in 2..Len(bytes) /\ q + 1 \in 2..(Len(bytes) + 1)
        /\ ~(q + 1 <= j) /\ q + 1 \in Nat /\ j <= q + 1
      BY <1>1, <1>5, <1>10
  <2>2. (q - LastOther(j, q) - 1) % 2 = 0 <=> ~Escaped(q)
      BY <2>1, CountedBack
  <2>3. \A k \in StringEnds : k < j \/ q <= k
    <3>1. ASSUME NEW k \in StringEnds, j <= k, k < q PROVE FALSE
      <4>1. k \in j..(q - 1)
          BY <1>5, <1>8, <2>1, <3>1
      <4> QED
          BY <1>8, <1>10, <4>1
    <3> QED
        BY <1>5, <1>8, <2>1, <3>1
  <2>4. q \in StringEnds <=> ~Escaped(q)
      BY <1>10, <2>1, EndsAreUnescaped
  <2>5. CASE ~Escaped(q)
    <3>1. Search[j] = q + 1
        BY <1>6, <2>1, <2>2, <2>5
    <3>2. (q + 1) - 1 = q /\ j < q + 1
        BY <2>1, <1>5
    <3>3. EndsFrom(j, q + 1)
        BY <2>1, <2>3, <2>4, <2>5, <3>2 DEF EndsFrom
    <3> QED
        BY <1>5, <3>1, <3>3
  <2>6. CASE Escaped(q)
    <3>1. Search[j] = Search[q + 1]
        BY <1>6, <2>1, <2>2, <2>6
    <3>2. q + 1 \notin K
      <4> HIDE DEF K
      <4> QED
          BY <1>4, <2>1
    <3>3. EndsFrom(q + 1, Search[j])
        BY <2>1, <3>1, <3>2
    <3>4. ASSUME NEW k \in j..((q + 1) - 1) PROVE k \notin StringEnds
      <4>1. k \in Nat /\ j <= k /\ k <= q
          BY <1>5, <2>1
      <4>2. CASE k = q
          BY <2>4, <2>6, <4>2
      <4>3. CASE k # q
          BY <1>5, <2>1, <2>3, <4>1, <4>3
      <4> QED
          BY <4>2, <4>3
    <3>5. EndsFrom(j, Search[j])
        BY <1>5, <2>1, <3>3, <3>4, EndFurther
    <3> QED
        BY <1>5, <3>5
  <2> QED
      BY <2>5, <2>6
<1> QED
    BY <1>7, <1>9, <1>10

\* The end is found with a flag, by passing over pairs, and by counting the
\* backslashes in front of a quote (search.go, decoder.go, encoder.go, int64.go,
\* visitor.go, fastjson.go), after however many bytes that scan changes its ways.
LEMMA StringsEndAlike ==
    ASSUME bytes \in Seq(Byte), Short \in Nat, ByteAt(1) = DoubleQuote
    PROVE  FlagStringEnd(1) = StringEnd /\ FastStringEnd(1) = StringEnd /\ PairStringEnd(1) = StringEnd
<1>1. Len(bytes) \in Nat /\ 1 <= Len(bytes)
  <2>1. ByteAt(1) # "end" /\ 1 \in Nat
      BY DEF DoubleQuote
  <2> QED
      BY <2>1, TextTyped, ByteThere
<1>2. StringEnds \subseteq 2..Len(bytes)
    BY EndsAreUnescaped
<1>3. FlagStringEnd(1) = StringEnd
  <2>1. Len(bytes) \in 1..Len(bytes)
      BY <1>1
  <2>2. CASE FlagEnd(1, Len(bytes)) = 0
    <3>1. \A k \in StringEnds : Len(bytes) < k
        BY <2>1, <2>2, FlaggedEnd
    <3>2. \A k \in StringEnds : FALSE
        BY <1>1, <1>2, <3>1
    <3>3. EndsFrom(2, 0)
        BY <3>2 DEF EndsFrom
    <3>4. StringEnd = 0
        BY <3>3, EndOnce
    <3> QED
        BY <2>2, <3>4 DEF FlagStringEnd
  <2>3. CASE FlagEnd(1, Len(bytes)) # 0
    <3>1. EndsFrom(2, FlagEnd(1, Len(bytes)))
        BY <2>1, <2>3, FlaggedEnd
    <3> QED
        BY <3>1, EndOnce DEF FlagStringEnd
  <2> QED
      BY <2>2, <2>3
<1>4. FastStringEnd(1) = StringEnd
  <2>1. FastFrom \in 1..Len(bytes) /\ FastFrom + 1 \in 2..(Len(bytes) + 1) /\ FastFrom \in Nat
      BY <1>1 DEF FastFrom
  <2>2. CASE FlagEnd(1, FastFrom) = 0
    <3>1. \A k \in StringEnds : FastFrom < k
        BY <2>1, <2>2, FlaggedEnd
    <3>2. EndsFrom(FastFrom + 1, Search[FastFrom + 1])
        BY <2>1, SearchEnd
    <3>3. \A k \in 2..((FastFrom + 1) - 1) : k \notin StringEnds
      <4>1. ASSUME NEW k \in 2..((FastFrom + 1) - 1), k \in StringEnds PROVE FALSE
        <5>1. k <= FastFrom /\ k \in Nat
            BY <2>1
        <5>2. FastFrom < k
            BY <3>1, <4>1
        <5> QED
            BY <2>1, <5>1, <5>2
      <4> QED
          BY <4>1
    <3>4. 2 \in Nat /\ FastFrom + 1 \in Nat /\ 2 <= FastFrom + 1
        BY <2>1
    <3>5. EndsFrom(2, Search[FastFrom + 1])
        BY <3>2, <3>3, <3>4, EndFurther
    <3>6. FastStringEnd(1) = Search[FastFrom + 1]
        BY <2>2, SearchScan
    <3> QED
        BY <3>5, <3>6, EndOnce
  <2>3. CASE FlagEnd(1, FastFrom) # 0
    <3>1. EndsFrom(2, FlagEnd(1, FastFrom))
        BY <2>1, <2>3, FlaggedEnd
    <3>2. FastStringEnd(1) = FlagEnd(1, FastFrom)
        BY <2>3, SearchScan
    <3> QED
        BY <3>1, <3>2, EndOnce
  <2> QED
      BY <2>2, <2>3
<1>5. PairStringEnd(1) = StringEnd
  <2>1. ~Escaped(2)
      BY EscapedNext
  <2>2. EndsFrom(2, PairFrom[2])
      BY <2>1, PairEnd
  <2>3. PairStringEnd(1) = PairFrom[1 + 1]
      BY PairScan
  <2>4. 1 + 1 = 2
      OBVIOUS
  <2> QED
      BY <2>2, <2>3, <2>4, EndOnce
<1> QED
    BY <1>3, <1>4, <1>5
-----------------------------------------------------------------------------------
(* What a string holds.                                                            *)

\* The result of a decoder that refuses, and of one that is at the end j.
Nothing == [end |-> 0, text |-> <<>>]
Ended(j) == [end |-> j, text |-> <<>>]
\* A rune in front of what is decoded behind it.
Put(rune, s) == IF s.end = 0 THEN Nothing ELSE [s EXCEPT !.text = <<rune>> \o @]

\* The loop of a decoder.
DecodeBody(unicode, ends, from, j) ==
    IF j \in ends THEN Ended(j)
    ELSE IF j > Len(bytes) THEN Nothing
    ELSE IF bytes[j] # Slash THEN Put(bytes[j], from[j + 1])
    ELSE IF ByteAt(j + 1) \in {DoubleQuote, Slash} THEN Put(ByteAt(j + 1), from[j + 2])
    ELSE IF ByteAt(j + 1) = "u" /\ unicode[j].ok THEN Put(unicode[j].rune, from[unicode[j].next])
    ELSE Nothing
DecodeFrom(unicode, ends) ==
    CHOOSE f : f = [j \in Nat \ {0} |-> DecodeBody(unicode, ends, f, j)]
LEMMA DecodedIs ==
    \A unicode, ends, start : Decoded(unicode, ends, start) = DecodeFrom(unicode, ends)[start]
    BY DEF Decoded, DecodeFrom, DecodeBody, Put, Nothing, Ended

\* Whether it goes on behind j, with which rune, and where.
Goes(unicode, j) ==
    bytes[j] # Slash \/ ByteAt(j + 1) \in {DoubleQuote, Slash} \/ (ByteAt(j + 1) = "u" /\ unicode[j].ok)
RuneAt(unicode, j) ==
    IF bytes[j] # Slash THEN bytes[j]
    ELSE IF ByteAt(j + 1) \in {DoubleQuote, Slash} THEN ByteAt(j + 1) ELSE unicode[j].rune
NextAt(unicode, j) ==
    IF bytes[j] # Slash THEN j + 1
    ELSE IF ByteAt(j + 1) \in {DoubleQuote, Slash} THEN j + 2 ELSE unicode[j].next
LEMMA DecodeBodyIs ==
    ASSUME NEW unicode, NEW ends, NEW from, NEW j
    PROVE  DecodeBody(unicode, ends, from, j) =
             IF j \in ends THEN Ended(j)
             ELSE IF j > Len(bytes) \/ ~Goes(unicode, j) THEN Nothing
             ELSE Put(RuneAt(unicode, j), from[NextAt(unicode, j)])
<1>1. CASE bytes[j] # Slash
    BY <1>1 DEF DecodeBody, Goes, RuneAt, NextAt
<1>2. CASE bytes[j] = Slash /\ ByteAt(j + 1) \in {DoubleQuote, Slash}
    BY <1>2 DEF DecodeBody, Goes, RuneAt, NextAt
<1>3. CASE bytes[j] = Slash /\ ByteAt(j + 1) \notin {DoubleQuote, Slash}
    BY <1>3 DEF DecodeBody, Goes, RuneAt, NextAt
<1> QED
    BY <1>1, <1>2, <1>3

\* What a decoder writes.
Runes == STRING \cup {"pair", "d", Replacement}

\* An escape \u is followed by what is further on.
Forward(unicode, ends) ==
    /\ ends \subseteq Nat
    /\ \A j \in 1..Len(bytes) : j \notin ends /\ unicode[j].ok =>
         unicode[j].rune \in Runes /\ unicode[j].next \in Nat /\ j < unicode[j].next

\* Every text is decoded by such a loop.
LEMMA DecodeScan ==
    ASSUME bytes \in Seq(Byte), NEW unicode, NEW ends, Forward(unicode, ends)
    PROVE  \A j \in Nat \ {0} :
             DecodeFrom(unicode, ends)[j] = DecodeBody(unicode, ends, DecodeFrom(unicode, ends), j)
<1> DEFINE D == Nat \ {0}
           S == [end : Nat, text : Seq(Runes)]
           goes(j) == j <= Len(bytes) /\ j \notin ends /\ Goes(unicode, j)
           base == [j \in D |-> IF j \in ends THEN Ended(j) ELSE Nothing]
           next == [j \in D |-> IF goes(j) THEN NextAt(unicode, j) ELSE j + 1]
           step == [j \in D |-> [x \in S |->
                      IF j \in ends THEN Ended(j)
                      ELSE IF ~Goes(unicode, j) \/ ~goes(j) THEN Nothing ELSE Put(RuneAt(unicode, j), x)]]
<1>1. Len(bytes) \in Nat /\ \A j \in 1..Len(bytes) : bytes[j] \in Runes /\ ByteAt(j) = bytes[j]
  <2>1. \A j \in 1..Len(bytes) : bytes[j] \in Byte
      OBVIOUS
  <2> QED
      BY <2>1, TextTyped DEF Byte, Runes
<1>2. Nothing \in S /\ \A j \in Nat : Ended(j) \in S
  <2>1. <<>> \in Seq(Runes)
      OBVIOUS
  <2> QED
      BY <2>1 DEF Nothing, Ended
<1>3. \A rune \in Runes : \A x \in S : Put(rune, x) \in S
  <2>1. ASSUME NEW rune \in Runes, NEW x \in S PROVE [x EXCEPT !.text = <<rune>> \o @] \in S
    <3>1. x.text \in Seq(Runes) /\ <<rune>> \in Seq(Runes)
        OBVIOUS
    <3>2. <<rune>> \o x.text \in Seq(Runes)
        BY <3>1
    <3> QED
        BY <3>2
  <2> HIDE DEF S
  <2> QED
      BY <1>2, <2>1 DEF Put
<1>4. ASSUME NEW j \in D, goes(j)
      PROVE  RuneAt(unicode, j) \in Runes /\ NextAt(unicode, j) \in D /\ j < NextAt(unicode, j)
  <2>1. j \in 1..Len(bytes) /\ j \notin ends /\ Goes(unicode, j) /\ j \in Nat
      BY <1>1, <1>4
  <2>2. CASE bytes[j] # Slash
    <3>1. RuneAt(unicode, j) = bytes[j] /\ NextAt(unicode, j) = j + 1
        BY <2>2 DEF RuneAt, NextAt
    <3> QED
        BY <1>1, <2>1, <3>1
  <2>3. CASE bytes[j] = Slash /\ ByteAt(j + 1) \in {DoubleQuote, Slash}
    <3>1. RuneAt(unicode, j) = ByteAt(j + 1) /\ NextAt(unicode, j) = j + 2
        BY <2>3 DEF RuneAt, NextAt
    <3>2. ByteAt(j + 1) \in Runes
      <4>1. ByteAt(j + 1) # "end"
          BY <2>3 DEF DoubleQuote, Slash
      <4>3. j + 1 \in Nat /\ 1 <= j + 1
          BY <2>1
      <4>2. j + 1 \in 1..Len(bytes)
          BY <1>1, <4>1, <4>3, ByteThere
      <4> QED
          BY <1>1, <4>2
    <3> QED
        BY <2>1, <3>1, <3>2
  <2>4. CASE bytes[j] = Slash /\ ByteAt(j + 1) \notin {DoubleQuote, Slash}
    <3>1. unicode[j].ok /\ RuneAt(unicode, j) = unicode[j].rune /\ NextAt(unicode, j) = unicode[j].next
        BY <2>1, <2>4 DEF Goes, RuneAt, NextAt
    <3>2. unicode[j].rune \in Runes /\ unicode[j].next \in Nat /\ j < unicode[j].next
        BY <2>1, <3>1 DEF Forward
    <3> QED
        BY <2>1, <3>1, <3>2
  <2> QED
      BY <2>2, <2>3, <2>4
<1>5. base \in [D -> S]
  <2>1. \A j \in D : (IF j \in ends THEN Ended(j) ELSE Nothing) \in S
    <3> HIDE DEF S
    <3> QED
        BY <1>2
  <2> HIDE DEF S, D
  <2> QED
      BY <2>1
<1>6. next \in [D -> D] /\ \A j \in D : j < next[j]
  <2>1. \A j \in D : (IF goes(j) THEN NextAt(unicode, j) ELSE j + 1) \in D
    <3> HIDE DEF goes
    <3> QED
        BY <1>4
  <2>2. \A j \in D : j < (IF goes(j) THEN NextAt(unicode, j) ELSE j + 1)
    <3> HIDE DEF goes
    <3> QED
        BY <1>4
  <2> HIDE DEF D, goes
  <2> QED
      BY <2>1, <2>2
<1>7. step \in [D -> [S -> S]]
  <2>1. ASSUME NEW j \in D, NEW x \in S
        PROVE  (IF j \in ends THEN Ended(j)
                ELSE IF ~Goes(unicode, j) \/ ~goes(j) THEN Nothing ELSE Put(RuneAt(unicode, j), x)) \in S
    <3>1. j \in Nat
        OBVIOUS
    <3> HIDE DEF S, goes, D
    <3> QED
        BY <1>2, <1>3, <1>4, <3>1
  <2> HIDE DEF S, D, goes
  <2> QED
      BY <2>1
<1>8. \E f \in [D -> S] : \A j \in D : LooksUp(f, j, base, next, step, Len(bytes))
  <2>1. D \subseteq Nat
      OBVIOUS
  <2> HIDE DEF D, S, base, next, step
  <2> QED
      BY <1>1, <1>5, <1>6, <1>7, <2>1, ScanExists
<1>9. PICK f \in [D -> S] : \A j \in D : LooksUp(f, j, base, next, step, Len(bytes))
    BY <1>8
<1>10. ASSUME NEW j \in D PROVE f[j] = DecodeBody(unicode, ends, f, j)
  <2>1. f[j] = IF j <= Len(bytes) THEN step[j][f[next[j]]] ELSE base[j]
    <3> HIDE DEF base, next, step, D
    <3> QED
        BY <1>9 DEF LooksUp
  <2>2. f[next[j]] \in S
    <3> HIDE DEF D, S, next
    <3> QED
        BY <1>6
  <2>3. CASE j <= Len(bytes)
    <3>1. f[j] = IF j \in ends THEN Ended(j)
                 ELSE IF ~Goes(unicode, j) \/ ~goes(j) THEN Nothing ELSE Put(RuneAt(unicode, j), f[next[j]])
      <4>1. step[j][f[next[j]]] =
              IF j \in ends THEN Ended(j)
              ELSE IF ~Goes(unicode, j) \/ ~goes(j) THEN Nothing ELSE Put(RuneAt(unicode, j), f[next[j]])
        <5> HIDE DEF D, S, next, goes
        <5> QED
            BY <2>2
      <4> HIDE DEF step, next, goes
      <4> QED
          BY <2>1, <2>3, <4>1
    <3>2. ~(j > Len(bytes))
        BY <1>1, <2>3
    <3>3. goes(j) <=> j \notin ends /\ Goes(unicode, j)
        BY <2>3
    <3>4. goes(j) => next[j] = NextAt(unicode, j)
      <4> HIDE DEF goes
      <4> QED
          OBVIOUS
    <3> HIDE DEF next, goes
    <3> QED
        BY <3>1, <3>2, <3>3, <3>4, DecodeBodyIs
  <2>4. CASE ~(j <= Len(bytes))
    <3>1. f[j] = IF j \in ends THEN Ended(j) ELSE Nothing
      <4> HIDE DEF next, step
      <4> QED
          BY <2>1, <2>4
    <3>2. j > Len(bytes)
        BY <1>1, <2>4
    <3> QED
        BY <3>1, <3>2, DecodeBodyIs
  <2> QED
      BY <2>3, <2>4
<1>11. f = [j \in D |-> DecodeBody(unicode, ends, f, j)]
  <2> HIDE DEF D, S
  <2> QED
      BY <1>10
<1>12. DecodeFrom(unicode, ends) = [j \in D |-> DecodeBody(unicode, ends, DecodeFrom(unicode, ends), j)]
    BY <1>11 DEF DecodeFrom
<1> QED
    BY <1>12

\* At j two decoders do the same, and stay in R.
Together(u, d, v, e, R, j) ==
    \/ /\ Goes(u, j) /\ Goes(v, j) /\ RuneAt(u, j) = RuneAt(v, j)
       /\ NextAt(u, j) = NextAt(v, j) /\ NextAt(u, j) \in R /\ j < NextAt(u, j)
    \/ DecodeFrom(u, d)[j] = Nothing /\ DecodeFrom(v, e)[j] = Nothing
DecodedAlike(u, d, v, e, j) == DecodeFrom(u, d)[j] = DecodeFrom(v, e)[j]

\* Two loops that stand at the same places, in a set of them that they do not leave,
\* decode the same text.
LEMMA DecodeAlike ==
    ASSUME bytes \in Seq(Byte), NEW u, NEW d, NEW v, NEW e, Forward(u, d), Forward(v, e),
           NEW R, R \subseteq Nat \ {0}, \A j \in R : j \in d <=> j \in e,
           \A j \in R : j <= Len(bytes) /\ j \notin d => Together(u, d, v, e, R, j)
    PROVE  \A j \in R : DecodedAlike(u, d, v, e, j)
<1> DEFINE f == DecodeFrom(u, d)
           g == DecodeFrom(v, e)
           K == {j \in R : j <= Len(bytes) /\ f[j] # g[j]}
<1>1. /\ \A j \in Nat \ {0} : f[j] = DecodeBody(u, d, f, j)
      /\ \A j \in Nat \ {0} : g[j] = DecodeBody(v, e, g, j)
    BY DecodeScan
<1>2. Len(bytes) \in Nat
    BY TextTyped
<1> HIDE DEF f, g
<1>3. /\ \A j \in R : f[j] = IF j \in d THEN Ended(j)
                            ELSE IF j > Len(bytes) \/ ~Goes(u, j) THEN Nothing
                            ELSE Put(RuneAt(u, j), f[NextAt(u, j)])
      /\ \A j \in R : g[j] = IF j \in e THEN Ended(j)
                            ELSE IF j > Len(bytes) \/ ~Goes(v, j) THEN Nothing
                            ELSE Put(RuneAt(v, j), g[NextAt(v, j)])
    BY <1>1, DecodeBodyIs
<1>4. ASSUME NEW j \in R, ~(j <= Len(bytes)) PROVE f[j] = g[j]
  <2>1. j > Len(bytes)
      BY <1>2, <1>4
  <2> QED
      BY <1>3, <2>1
<1>5. K = {}
  <2> SUFFICES ASSUME K # {} PROVE FALSE
      OBVIOUS
  <2>1. PICK j \in K : \A k \in K : k <= j
    <3>1. \A k \in R : k \in Nat
        OBVIOUS
    <3>2. ASSUME NEW k \in K PROVE k \in 0..Len(bytes)
      <4>1. k \in R /\ k <= Len(bytes)
          OBVIOUS
      <4>2. k \in Nat
          BY <3>1, <4>1
      <4> QED
          BY <1>2, <4>1, <4>2
    <3> HIDE DEF K
    <3> QED
        BY <1>2, <3>2, GreatestNat
  <2>2. j \in R /\ j <= Len(bytes) /\ f[j] # g[j] /\ j \in Nat
      OBVIOUS
  <2>3. j \notin d /\ j \notin e
      BY <1>3, <2>2
  <2>4. ~(f[j] = Nothing /\ g[j] = Nothing)
      BY <2>2
  <2>5. /\ Goes(u, j) /\ Goes(v, j) /\ RuneAt(u, j) = RuneAt(v, j)
        /\ NextAt(u, j) = NextAt(v, j) /\ NextAt(u, j) \in R /\ j < NextAt(u, j)
      BY <2>2, <2>3, <2>4 DEF f, g, Together
  <2> DEFINE n == NextAt(u, j)
  <2>6. f[n] = g[n]
    <3>1. n \in R /\ n \in Nat /\ ~(n <= j)
      <4>1. n \in R /\ j < n
          BY <2>5
      <4> HIDE DEF n
      <4> QED
          BY <2>2, <4>1
    <3> HIDE DEF n
    <3>2. n \notin K
      <4> HIDE DEF K
      <4> QED
          BY <2>1, <3>1
    <3> QED
        BY <1>4, <3>1, <3>2
  <2>7. ~(j > Len(bytes))
      BY <1>2, <2>2
  <2>8. f[j] = Put(RuneAt(u, j), f[n]) /\ g[j] = Put(RuneAt(u, j), g[n])
      BY <1>3, <2>2, <2>3, <2>5, <2>7
  <2> QED
      BY <2>2, <2>6, <2>8
<1>6. ASSUME NEW j \in R PROVE f[j] = g[j]
    BY <1>4, <1>5
<1> QED
    BY <1>6 DEF f, g, DecodedAlike

\* The three decoders' escapes.
Local == [i \in DOMAIN bytes |-> LocalRune(i)]
Visited == [i \in DOMAIN bytes |-> VisitorRune(i)]
Unescaped(last) == [i \in 1..last |-> UnquoteRune(i, last)]

\* Runes differ from each other and from a refusal.
LEMMA RunesDiffer ==
    /\ ~Refused.ok
    /\ \A rune, next : Rune(rune, next).ok /\ Rune(rune, next) # Refused
    /\ \A r, s, n, m : r # s => Rune(r, n) # Rune(s, m)
<1>1. ~Refused.ok
    BY DEF Refused
<1>2. ASSUME NEW rune, NEW next PROVE Rune(rune, next).ok /\ Rune(rune, next) # Refused
  <2>1. Rune(rune, next).ok
      BY DEF Rune
  <2> QED
      BY <1>1, <2>1
<1>3. ASSUME NEW r, NEW s, NEW n, NEW m, Rune(r, n) = Rune(s, m) PROVE r = s
  <2>1. Rune(r, n).rune = r /\ Rune(s, m).rune = s
      BY DEF Rune
  <2> QED
      BY <1>3, <2>1
<1> QED
    BY <1>1, <1>2, <1>3

\* A broken escape behind a high surrogate.
BrokenPair(i) == ByteAt(i + 2) = "h" /\ Another(i + 3) /\ ~Hex(i + 5)
\* What they make of the escape at i is the same, but of a broken pair, from which
\* they all get nowhere: the replacement in front of nothing, or nothing at all.
LEMMA EscapesAlike ==
    ASSUME NEW i, NEW last
    PROVE  /\ Hex(i + 2) /\ ~BrokenPair(i) => VisitorRune(i) = LocalRune(i)
           /\ Hex(i + 2) /\ ~BrokenPair(i) /\ (ByteAt(i + 2) = "h" /\ Another(i + 3) => i + 5 <= last)
                => UnquoteRune(i, last) = LocalRune(i)
           /\ Hex(i + 2) <=> LocalRune(i).ok
           /\ ~Hex(i + 2) => ~VisitorRune(i).ok /\ ~UnquoteRune(i, last).ok
           /\ BrokenPair(i) => /\ LocalRune(i) = Rune(Replacement, i + 3) /\ ~VisitorRune(i).ok
                               /\ UnquoteRune(i, last) = Rune(Replacement, i + 3) \/ ~UnquoteRune(i, last).ok
           /\ Hex(i + 2) => LocalRune(i) = Rune("pair", i + 6) \/ LocalRune(i) = Rune("d", i + 3)
                              \/ LocalRune(i) = Rune(Replacement, i + 3)
           /\ LocalRune(i) = Rune("pair", i + 6) => Paired(i)
<1>0. ~Refused.ok /\ \A rune, next : Rune(rune, next).ok /\ Rune(rune, next) # Refused
    BY RunesDiffer
<1>1. CASE ~Hex(i + 2)
  <2>1. LocalRune(i) = Refused /\ VisitorRune(i) = Refused /\ UnquoteRune(i, last) = Refused
      BY <1>1 DEF LocalRune, VisitorRune, UnquoteRune
  <2>2. ~BrokenPair(i)
      BY <1>1 DEF BrokenPair, Hex
  <2>3. Refused # Rune("pair", i + 6)
      BY <1>0
  <2> QED
      BY <1>0, <1>1, <2>1, <2>2, <2>3
<1>2. CASE Hex(i + 2) /\ BrokenPair(i)
  <2>1. ~Paired(i) /\ Alone(i) = Replacement
      BY <1>2 DEF Paired, BrokenPair, Hex, Alone
  <2>2. LocalRune(i) = Rune(Replacement, i + 3)
      BY <1>2, <2>1 DEF LocalRune
  <2>3. VisitorRune(i) = Refused
      BY <1>2 DEF VisitorRune, BrokenPair
  <2>4. UnquoteRune(i, last) \in {Refused, Rune(Replacement, i + 3)}
      BY <1>2, <2>1 DEF UnquoteRune, BrokenPair
  <2>5. Rune(Replacement, i + 3) # Rune("pair", i + 6)
    <3>1. Replacement # "pair"
        BY DEF Replacement
    <3> QED
        BY <3>1, RunesDiffer
  <2>6. LocalRune(i).ok /\ ~VisitorRune(i).ok
      BY <1>0, <2>2, <2>3
  <2>7. UnquoteRune(i, last) = Rune(Replacement, i + 3) \/ ~UnquoteRune(i, last).ok
      BY <1>0, <2>4
  <2> QED
      BY <1>2, <2>2, <2>5, <2>6, <2>7
<1>3. CASE Hex(i + 2) /\ ~BrokenPair(i)
  <2>1. CASE Paired(i)
    <3>1. ByteAt(i + 5) = "l" /\ Hex(i + 5) /\ ByteAt(i + 2) = "h" /\ Another(i + 3)
        BY <2>1 DEF Paired, Hex
    <3>2. LocalRune(i) = Rune("pair", i + 6) /\ VisitorRune(i) = Rune("pair", i + 6)
        BY <1>3, <2>1, <3>1 DEF LocalRune, VisitorRune
    <3>3. i + 5 <= last => UnquoteRune(i, last) = Rune("pair", i + 6)
        BY <1>3, <3>1 DEF UnquoteRune
    <3> QED
        BY <1>0, <1>3, <2>1, <3>1, <3>2, <3>3
  <2>2. CASE ~Paired(i)
    <3>1. LocalRune(i) = Rune(Alone(i), i + 3)
        BY <1>3, <2>2 DEF LocalRune
    <3>2. Alone(i) \in {"d", Replacement} /\ (ByteAt(i + 2) = "h" => Alone(i) = Replacement)
        BY DEF Alone
    <3>3. VisitorRune(i) = Rune(Alone(i), i + 3)
        BY <1>3, <2>2, <3>2 DEF VisitorRune, BrokenPair, Paired
    <3>4. (ByteAt(i + 2) = "h" /\ Another(i + 3) => i + 5 <= last)
            => UnquoteRune(i, last) = Rune(Alone(i), i + 3)
        BY <1>3, <2>2, <3>2 DEF UnquoteRune, BrokenPair, Paired
    <3>5. Rune(Alone(i), i + 3) # Rune("pair", i + 6)
      <4>1. Alone(i) # "pair"
          BY <3>2 DEF Replacement
      <4> QED
          BY <4>1, RunesDiffer
    <3>6. LocalRune(i).ok
        BY <1>0, <3>1
    <3> QED
        BY <1>3, <3>1, <3>2, <3>3, <3>4, <3>5, <3>6
  <2> QED
      BY <2>1, <2>2
<1> QED
    BY <1>1, <1>2, <1>3

\* The same, of the two decoders that do not know where the string ends.
LEMMA EscapesHere ==
    ASSUME NEW i
    PROVE  /\ Hex(i + 2) /\ ~BrokenPair(i) => VisitorRune(i) = LocalRune(i)
           /\ Hex(i + 2) <=> LocalRune(i).ok
           /\ ~Hex(i + 2) => ~VisitorRune(i).ok
           /\ BrokenPair(i) => LocalRune(i) = Rune(Replacement, i + 3) /\ ~VisitorRune(i).ok
<1>1. BrokenPair(i) => LocalRune(i) = Rune(Replacement, i + 3) /\ ~VisitorRune(i).ok
  <2> SUFFICES ASSUME BrokenPair(i) PROVE LocalRune(i) = Rune(Replacement, i + 3) /\ ~VisitorRune(i).ok
      OBVIOUS
  <2>1. Hex(i + 2) /\ ~Paired(i) /\ Alone(i) = Replacement
      BY DEF Paired, BrokenPair, Hex, Alone
  <2>2. LocalRune(i) = Rune(Replacement, i + 3)
      BY <2>1 DEF LocalRune
  <2>3. VisitorRune(i) = Refused
      BY <2>1 DEF VisitorRune, BrokenPair
  <2> QED
      BY <2>2, <2>3, RunesDiffer
<1>2. \A last : Hex(i + 2) /\ ~BrokenPair(i) => VisitorRune(i) = LocalRune(i)
    BY EscapesAlike
<1>3. \A last : (Hex(i + 2) <=> LocalRune(i).ok) /\ (~Hex(i + 2) => ~VisitorRune(i).ok)
    BY EscapesAlike
<1> QED
    BY <1>1, <1>2, <1>3

\* Every escape is refused, or a rune with which they go on.
LEMMA EscapesGoOn ==
    ASSUME NEW i, NEW last
    PROVE  \A x \in {LocalRune(i), VisitorRune(i), UnquoteRune(i, last)} :
             ~x.ok \/ (x.rune \in {"pair", "d", Replacement} /\ x.next \in {i + 3, i + 6})
<1>1. ~Refused.ok /\ Alone(i) \in {"d", Replacement}
    BY DEF Refused, Alone
<1>2. \A rune, next : Rune(rune, next).rune = rune /\ Rune(rune, next).next = next
    BY DEF Rune
<1>3. \A x \in {LocalRune(i), VisitorRune(i), UnquoteRune(i, last)} :
        x \in {Refused, Rune("pair", i + 6), Rune(Alone(i), i + 3), Rune(Replacement, i + 3)}
    BY DEF LocalRune, VisitorRune, UnquoteRune
<1> QED
    BY <1>1, <1>2, <1>3

\* The three decoders are such loops.
LEMMA DecodersForward ==
    ASSUME bytes \in Seq(Byte), NEW last \in 0..Len(bytes)
    PROVE  /\ Forward(Local, Quotes) /\ Forward(Visited, Quotes)
           /\ Forward(Unescaped(last), (last + 1)..(Len(bytes) + 1))
<1>1. Len(bytes) \in Nat /\ DOMAIN bytes = 1..Len(bytes)
    BY TextTyped
<1>2. \A i \in 1..Len(bytes) : Local[i] = LocalRune(i) /\ Visited[i] = VisitorRune(i)
    BY <1>1 DEF Local, Visited
<1>3. \A i \in 1..last : Unescaped(last)[i] = UnquoteRune(i, last)
    BY DEF Unescaped
<1>4. "pair" \in Runes /\ "d" \in Runes /\ Replacement \in Runes
    BY DEF Runes
<1>5. ASSUME NEW i \in 1..Len(bytes), NEW x \in {LocalRune(i), VisitorRune(i), UnquoteRune(i, last)}, x.ok
      PROVE  x.rune \in Runes /\ x.next \in Nat /\ i < x.next
  <2>1. x.rune \in {"pair", "d", Replacement} /\ x.next \in {i + 3, i + 6}
      BY <1>5, EscapesGoOn
  <2>2. i + 3 \in Nat /\ i + 6 \in Nat /\ i < i + 3 /\ i < i + 6
      OBVIOUS
  <2> QED
      BY <1>4, <2>1, <2>2
<1>6. Quotes \subseteq Nat
    BY <1>1 DEF Quotes
<1>7. Forward(Local, Quotes)
    BY <1>2, <1>5, <1>6 DEF Forward
<1>8. Forward(Visited, Quotes)
    BY <1>2, <1>5, <1>6 DEF Forward
<1>9. Forward(Unescaped(last), (last + 1)..(Len(bytes) + 1))
  <2>1. (last + 1)..(Len(bytes) + 1) \subseteq Nat
      BY <1>1
  <2>2. \A i \in 1..Len(bytes) : i \notin (last + 1)..(Len(bytes) + 1) => i \in 1..last
      BY <1>1
  <2> QED
      BY <1>3, <1>5, <2>1, <2>2 DEF Forward
<1> QED
    BY <1>7, <1>8, <1>9

\* A byte that is no quote does not end the string, and one that is no backslash
\* escapes nothing.
LEMMA PlainByte ==
    ASSUME bytes \in Seq(Byte), NEW k \in Nat, 2 <= k
    PROVE  /\ ByteAt(k) # DoubleQuote => k \notin StringEnds
           /\ ByteAt(k) \notin {"end", Slash} => ~Escaped(k + 1)
<1>1. Len(bytes) \in Nat
    BY TextTyped
<1>2. ASSUME k \in StringEnds PROVE ByteAt(k) = DoubleQuote
  <2>1. k \in 2..Len(bytes) /\ bytes[k] = DoubleQuote
      BY <1>2, EndsAreUnescaped
  <2>2. k \in 1..Len(bytes)
      BY <1>1, <2>1
  <2> QED
      BY <2>1, <2>2, TextTyped
<1>3. ASSUME ByteAt(k) \notin {"end", Slash} PROVE ~Escaped(k + 1)
  <2>1. k <= Len(bytes)
      BY <1>3, ByteThere
  <2>2. k \in 1..Len(bytes)
      BY <1>1, <2>1
  <2>3. bytes[k] # Slash
      BY <1>3, <2>2, TextTyped
  <2> QED
      BY <2>3, EscapedNext
<1> QED
    BY <1>2, <1>3

\* A decoder passes over nothing that could end the string.
LEMMA LocalPasses ==
    ASSUME bytes \in Seq(Byte), NEW j \in 2..Len(bytes), bytes[j] # DoubleQuote, ~Escaped(j), Goes(Local, j)
    PROVE  LET n == NextAt(Local, j) IN
           n \in Nat /\ j < n /\ ~Escaped(n) /\ \A k \in j..(n - 1) : k \notin StringEnds
<1> DEFINE n == NextAt(Local, j)
<1>1. Len(bytes) \in Nat /\ j \in Nat /\ 2 <= j /\ j <= Len(bytes) /\ j \in 1..Len(bytes)
    BY TextTyped
<1>2. ByteAt(j) = bytes[j] /\ j \notin StringEnds
    BY <1>1, TextTyped, EndsAreUnescaped
<1>3. Escaped(j + 1) <=> bytes[j] = Slash
    BY <1>1, EscapedNext
<1>4. CASE bytes[j] # Slash
  <2>1. n = j + 1
      BY <1>4 DEF NextAt
  <2>2. \A k \in j..(j + 1 - 1) : k = j
      BY <1>1
  <2>3. j + 1 \in Nat /\ j < j + 1
      BY <1>1
  <2> HIDE DEF n
  <2> QED
      BY <1>2, <1>3, <1>4, <2>1, <2>2, <2>3 DEF n
<1>5. CASE bytes[j] = Slash /\ ByteAt(j + 1) \in {DoubleQuote, Slash}
  <2>1. n = j + 2
      BY <1>5 DEF NextAt
  <2>2. Escaped(j + 1) /\ j + 1 \notin StringEnds
      BY <1>3, <1>5, EndsAreUnescaped
  <2>3. ~Escaped(j + 2)
    <3>1. j + 1 \in Nat /\ 2 <= j + 1 /\ j + 1 + 1 = j + 2
        BY <1>1
    <3>2. ~Escaped(j + 1 + 1)
        BY <2>2, <3>1, EscapedNext
    <3> QED
        BY <3>1, <3>2
  <2>4. \A k \in j..(j + 2 - 1) : k = j \/ k = j + 1
      BY <1>1
  <2>5. j + 2 \in Nat /\ j < j + 2
      BY <1>1
  <2> HIDE DEF n
  <2> QED
      BY <1>2, <2>1, <2>2, <2>3, <2>4, <2>5 DEF n
<1>6. CASE bytes[j] = Slash /\ ByteAt(j + 1) \notin {DoubleQuote, Slash}
  <2>1. ByteAt(j + 1) = "u" /\ Local[j].ok /\ n = Local[j].next
      BY <1>6 DEF Goes, NextAt
  <2>2. Local[j] = LocalRune(j)
      BY <1>1, TextTyped DEF Local
  <2>3. Hex(j + 2)
      BY <2>1, <2>2, EscapesAlike
  <2>4. \/ LocalRune(j) = Rune("pair", j + 6) /\ Paired(j)
        \/ LocalRune(j) = Rune("d", j + 3) \/ LocalRune(j) = Rune(Replacement, j + 3)
      BY <2>3, EscapesAlike
  <2>5. (n = j + 6 /\ Paired(j)) \/ n = j + 3
    <3>1. \A rune, next : Rune(rune, next).next = next
        BY DEF Rune
    <3> HIDE DEF n
    <3> QED
        BY <2>1, <2>2, <2>4, <3>1
  <2> HIDE DEF n
  <2>6. /\ j + 1 \in Nat /\ j + 2 \in Nat /\ j + 3 \in Nat /\ j + 4 \in Nat /\ j + 5 \in Nat /\ j + 6 \in Nat
        /\ 2 <= j + 1 /\ 2 <= j + 2 /\ 2 <= j + 3 /\ 2 <= j + 4 /\ 2 <= j + 5
        /\ j + 2 + 1 = j + 3 /\ j + 3 + 1 = j + 4 /\ j + 5 + 1 = j + 6
      BY <1>1
  <2>7. j + 1 \notin StringEnds
    <3>1. ByteAt(j + 1) # DoubleQuote
        BY <2>1 DEF DoubleQuote
    <3> QED
        BY <2>6, <3>1, PlainByte
  <2>8. j + 2 \notin StringEnds /\ ~Escaped(j + 3)
    <3>1. ByteAt(j + 2) # DoubleQuote /\ ByteAt(j + 2) \notin {"end", Slash}
        BY <2>3 DEF Hex, DoubleQuote, Slash
    <3>2. j + 2 \notin StringEnds /\ ~Escaped(j + 2 + 1)
        BY <2>6, <3>1, PlainByte
    <3> QED
        BY <2>6, <3>2
  <2>9. CASE n = j + 3
    <3>1. \A k \in j..(j + 3 - 1) : k = j \/ k = j + 1 \/ k = j + 2
        BY <1>1
    <3>2. j < j + 3
        BY <1>1
    <3> QED
        BY <1>2, <2>6, <2>7, <2>8, <2>9, <3>1, <3>2 DEF n
  <2>10. CASE n = j + 6 /\ Paired(j)
    <3>1. ByteAt(j + 3) = Slash /\ ByteAt(j + 4) = "u" /\ ByteAt(j + 5) = "l"
        BY <2>6, <2>10 DEF Paired, Another
    <3>2. ByteAt(j + 3) # DoubleQuote /\ ByteAt(j + 4) # DoubleQuote /\ ByteAt(j + 5) # DoubleQuote
          /\ ByteAt(j + 5) \notin {"end", Slash}
        BY <3>1 DEF DoubleQuote, Slash
    <3>3. j + 3 \notin StringEnds /\ j + 4 \notin StringEnds /\ j + 5 \notin StringEnds
        BY <2>6, <3>2, PlainByte
    <3>4. ~Escaped(j + 5 + 1)
        BY <2>6, <3>2, PlainByte
    <3>5. \A k \in j..(j + 6 - 1) :
            k = j \/ k = j + 1 \/ k = j + 2 \/ k = j + 3 \/ k = j + 4 \/ k = j + 5
        BY <1>1
    <3>6. j < j + 6
        BY <1>1
    <3> QED
        BY <1>2, <2>6, <2>7, <2>8, <2>10, <3>3, <3>4, <3>5, <3>6 DEF n
  <2> QED
      BY <2>5, <2>9, <2>10
<1> QED
    BY <1>4, <1>5, <1>6 DEF Goes

\* A broken pair gets a decoder nowhere: if it is not refused at once, it is at its
\* second escape.
LEMMA BrokenPairRefused ==
    ASSUME bytes \in Seq(Byte), NEW u, NEW d, Forward(u, d), NEW j \in 1..Len(bytes),
           bytes[j] = Slash, ByteAt(j + 1) = "u", BrokenPair(j), j \notin d, j + 3 \notin d,
           ~u[j].ok \/ u[j] = Rune(Replacement, j + 3), ~u[j + 3].ok
    PROVE  DecodeFrom(u, d)[j] = Nothing
<1> DEFINE f == DecodeFrom(u, d)
<1>1. Len(bytes) \in Nat /\ j \in Nat \ {0} /\ j + 3 \in Nat \ {0} /\ j <= Len(bytes) /\ j + 3 + 1 = j + 4
    BY TextTyped
<1>2. \A k \in Nat \ {0} : f[k] = DecodeBody(u, d, f, k)
    BY DecodeScan
<1> HIDE DEF f
<1>3. \A k \in Nat \ {0} : f[k] = IF k \in d THEN Ended(k)
                                  ELSE IF k > Len(bytes) \/ ~Goes(u, k) THEN Nothing
                                  ELSE Put(RuneAt(u, k), f[NextAt(u, k)])
    BY <1>2, DecodeBodyIs
<1>4. ByteAt(j + 1) \notin {DoubleQuote, Slash}
    BY DEF DoubleQuote, Slash
<1>5. f[j + 3] = Nothing
  <2>1. ByteAt(j + 3) = Slash /\ ByteAt(j + 4) = "u"
      BY <1>1 DEF BrokenPair, Another
  <2>2. ByteAt(j + 3) # "end" /\ ByteAt(j + 4) \notin {DoubleQuote, Slash}
      BY <2>1 DEF DoubleQuote, Slash
  <2>3. j + 3 <= Len(bytes)
      BY <1>1, <2>2, ByteThere
  <2>4. j + 3 \in 1..Len(bytes)
      BY <1>1, <2>3
  <2>5. bytes[j + 3] = Slash
      BY <2>1, <2>4, TextTyped
  <2>6. ~Goes(u, j + 3)
      BY <1>1, <2>2, <2>5 DEF Goes
  <2> QED
      BY <1>1, <1>3, <2>6
<1>6. CASE ~u[j].ok
  <2>1. ~Goes(u, j)
      BY <1>4, <1>6 DEF Goes
  <2>2. f[j] = Nothing
      BY <1>1, <1>3, <2>1
  <2> QED
      BY <2>2 DEF f
<1>7. CASE u[j].ok /\ u[j] = Rune(Replacement, j + 3)
  <2>1. NextAt(u, j) = j + 3 /\ Goes(u, j)
      BY <1>4, <1>7 DEF Goes, NextAt, Rune
  <2>2. ~(j > Len(bytes))
      BY <1>1
  <2>3. f[j] = Put(RuneAt(u, j), Nothing)
      BY <1>1, <1>3, <1>5, <2>1, <2>2
  <2>4. f[j] = Nothing
      BY <2>3 DEF Put, Nothing
  <2> QED
      BY <2>4 DEF f
<1> QED
    BY <1>6, <1>7

\* Whatever does not go on decodes nothing.
LEMMA StopsThere ==
    ASSUME bytes \in Seq(Byte), NEW u, NEW d, Forward(u, d), NEW j \in 1..Len(bytes),
           j \notin d, ~Goes(u, j)
    PROVE  DecodeFrom(u, d)[j] = Nothing
<1>1. j \in Nat \ {0}
    OBVIOUS
<1> QED
    BY <1>1, DecodeScan, DecodeBodyIs

\* At j two decoders do the same: v like localparser.go's.
SameStep(v, e, j) ==
    \/ /\ Goes(Local, j) /\ Goes(v, j) /\ RuneAt(Local, j) = RuneAt(v, j)
       /\ NextAt(Local, j) = NextAt(v, j)
    \/ DecodeFrom(Local, Quotes)[j] = Nothing /\ DecodeFrom(v, e)[j] = Nothing
LEMMA StepsAlike ==
    ASSUME bytes \in Seq(Byte), NEW v, NEW e, Forward(Local, Quotes), Forward(v, e),
           NEW j \in 1..Len(bytes), j \notin Quotes, j \notin e,
           bytes[j] = Slash /\ ByteAt(j + 1) = "u" =>
             /\ ~Hex(j + 2) => ~v[j].ok
             /\ Hex(j + 2) /\ ~BrokenPair(j) => v[j] = LocalRune(j)
             /\ BrokenPair(j) => /\ ~v[j].ok \/ v[j] = Rune(Replacement, j + 3)
                                 /\ j + 3 \notin e /\ ~v[j + 3].ok
    PROVE  SameStep(v, e, j)
<1>1. Len(bytes) \in Nat /\ DOMAIN bytes = 1..Len(bytes)
    BY TextTyped
<1>2. Local[j] = LocalRune(j)
    BY <1>1 DEF Local
<1>3. CASE bytes[j] # Slash \/ ByteAt(j + 1) \in {DoubleQuote, Slash}
    BY <1>3 DEF SameStep, Goes, RuneAt, NextAt
<1>4. CASE bytes[j] = Slash /\ ByteAt(j + 1) \notin {DoubleQuote, Slash, "u"}
  <2>1. ~Goes(Local, j) /\ ~Goes(v, j)
      BY <1>4 DEF Goes
  <2> QED
      BY <2>1, StopsThere DEF SameStep
<1>5. CASE bytes[j] = Slash /\ ByteAt(j + 1) = "u"
  <2>1. ByteAt(j + 1) \notin {DoubleQuote, Slash}
      BY <1>5 DEF DoubleQuote, Slash
  <2>2. CASE ~Hex(j + 2)
    <3>1. ~Local[j].ok /\ ~v[j].ok
        BY <1>2, <1>5, <2>2, EscapesHere
    <3>2. ~Goes(Local, j) /\ ~Goes(v, j)
        BY <1>5, <2>1, <3>1 DEF Goes
    <3> QED
        BY <3>2, StopsThere DEF SameStep
  <2>3. CASE Hex(j + 2) /\ ~BrokenPair(j)
    <3>1. v[j] = LocalRune(j) /\ LocalRune(j).ok
        BY <1>5, <2>3, EscapesHere
    <3> QED
        BY <1>2, <1>5, <2>1, <3>1 DEF SameStep, Goes, RuneAt, NextAt
  <2>4. CASE BrokenPair(j)
    <3>1. j + 3 \in 1..Len(bytes) /\ bytes[j + 3] = Slash
      <4>1. ByteAt(j + 3) = Slash /\ j + 3 \in Nat
          BY <2>4 DEF BrokenPair, Another
      <4>2. ByteAt(j + 3) # "end"
          BY <4>1 DEF Slash
      <4>3. j + 3 \in 1..Len(bytes)
          BY <1>1, <4>1, <4>2, ByteThere
      <4> QED
          BY <4>1, <4>3, TextTyped
    <3>2. j + 3 \notin Quotes
        BY <3>1 DEF Quotes, DoubleQuote, Slash
    <3>3. Local[j + 3] = LocalRune(j + 3)
        BY <1>1, <3>1 DEF Local
    <3>4. ~LocalRune(j + 3).ok
      <4>1. ~Hex(j + 3 + 2)
        <5>1. j + 3 + 2 = j + 5
            OBVIOUS
        <5> QED
            BY <2>4, <5>1 DEF BrokenPair
      <4> QED
          BY <4>1, EscapesHere
    <3>5. Local[j] = Rune(Replacement, j + 3)
        BY <1>2, <2>4, EscapesHere
    <3>6. DecodeFrom(Local, Quotes)[j] = Nothing
        BY <1>5, <2>4, <3>2, <3>3, <3>4, <3>5, BrokenPairRefused
    <3>7. DecodeFrom(v, e)[j] = Nothing
        BY <1>5, <2>4, BrokenPairRefused
    <3> QED
        BY <3>6, <3>7 DEF SameStep
  <2> QED
      BY <2>2, <2>3, <2>4
<1> QED
    BY <1>3, <1>4, <1>5

\* The decoders of visitor.go and of localparser.go read the same.
LEMMA VisitorReadsAlike ==
    ASSUME bytes \in Seq(Byte)
    PROVE  VisitorString = LocalString
<1> DEFINE R == {j \in Nat : 2 <= j /\ ~Escaped(j)}
<1>1. Len(bytes) \in Nat /\ DOMAIN bytes = 1..Len(bytes)
    BY TextTyped
<1>2. Forward(Local, Quotes) /\ Forward(Visited, Quotes)
  <2>1. 0 \in 0..Len(bytes)
      BY <1>1
  <2> QED
      BY <2>1, DecodersForward
<1>3. ASSUME NEW j \in R, j <= Len(bytes), j \notin Quotes
      PROVE  Together(Local, Quotes, Visited, Quotes, R, j)
  <2>1. j \in Nat /\ 2 <= j /\ ~Escaped(j) /\ j \in 2..Len(bytes) /\ j \in 1..Len(bytes)
      BY <1>1, <1>3
  <2>2. bytes[j] # DoubleQuote
      BY <1>1, <1>3, <2>1 DEF Quotes
  <2>3. Visited[j] = VisitorRune(j)
      BY <1>1, <2>1 DEF Visited
  <2>4. BrokenPair(j) => j + 3 \notin Quotes /\ ~Visited[j + 3].ok
    <3> SUFFICES ASSUME BrokenPair(j) PROVE j + 3 \notin Quotes /\ ~Visited[j + 3].ok
        OBVIOUS
    <3>1. ByteAt(j + 3) = Slash /\ j + 3 \in Nat
        BY <2>1 DEF BrokenPair, Another
    <3>2. ByteAt(j + 3) # "end"
        BY <3>1 DEF Slash
    <3>3. j + 3 \in 1..Len(bytes)
        BY <1>1, <2>1, <3>1, <3>2, ByteThere
    <3>4. bytes[j + 3] = Slash
        BY <3>1, <3>3, TextTyped
    <3>5. j + 3 \notin Quotes
        BY <3>4 DEF Quotes, DoubleQuote, Slash
    <3>6. ~Hex(j + 3 + 2)
      <4>1. j + 3 + 2 = j + 5
          BY <2>1
      <4> QED
          BY <4>1 DEF BrokenPair
    <3>7. Visited[j + 3] = VisitorRune(j + 3)
        BY <1>1, <3>3 DEF Visited
    <3> QED
        BY <3>5, <3>6, <3>7, EscapesHere
  <2>5. SameStep(Visited, Quotes, j)
    <3>1. /\ ~Hex(j + 2) => ~Visited[j].ok
          /\ Hex(j + 2) /\ ~BrokenPair(j) => Visited[j] = LocalRune(j)
          /\ BrokenPair(j) => ~Visited[j].ok
        BY <2>3, EscapesHere
    <3> QED
        BY <1>2, <1>3, <2>1, <2>4, <3>1, StepsAlike
  <2>6. Goes(Local, j) => NextAt(Local, j) \in R /\ j < NextAt(Local, j)
    <3> SUFFICES ASSUME Goes(Local, j) PROVE NextAt(Local, j) \in R /\ j < NextAt(Local, j)
        OBVIOUS
    <3> DEFINE n == NextAt(Local, j)
    <3>1. n \in Nat /\ j < n /\ ~Escaped(n)
        BY <2>1, <2>2, LocalPasses
    <3> HIDE DEF n
    <3>2. n \in R
        BY <2>1, <3>1
    <3> QED
        BY <3>1, <3>2 DEF n
  <2> HIDE DEF R
  <2> QED
      BY <2>5, <2>6 DEF SameStep, Together
<1>4. R \subseteq Nat \ {0} /\ 2 \in R
    BY EscapedNext
<1> HIDE DEF R
<1>5. \A j \in R : DecodedAlike(Local, Quotes, Visited, Quotes, j)
  <2>1. \A j \in R : j <= Len(bytes) /\ j \notin Quotes => Together(Local, Quotes, Visited, Quotes, R, j)
      BY <1>3
  <2>2. \A j \in R : j \in Quotes <=> j \in Quotes
      OBVIOUS
  <2> QED
      BY ONLY bytes \in Seq(Byte), <1>2, <1>4, <2>1, <2>2, DecodeAlike
<1>6. DecodeFrom(Local, Quotes)[2] = DecodeFrom(Visited, Quotes)[2]
    BY <1>4, <1>5 DEF DecodedAlike
<1> QED
    BY <1>6, DecodedIs DEF VisitorString, LocalString, Local, Visited

\* What is decoded is a record, with a rune put in front of it too.
Shaped(s) == s = [end |-> s.end, text |-> s.text]
LEMMA PutEnd ==
    /\ Shaped(Nothing) /\ Nothing.end = 0 /\ \A j : Shaped(Ended(j)) /\ Ended(j).end = j
    /\ \A rune, s : Shaped(s) => Shaped(Put(rune, s)) /\ Put(rune, s).end = s.end
<1>1. Shaped(Nothing) /\ Nothing.end = 0 /\ \A j : Shaped(Ended(j)) /\ Ended(j).end = j
    BY DEF Shaped, Nothing, Ended
<1>2. ASSUME NEW rune, NEW s, Shaped(s) PROVE Shaped(Put(rune, s)) /\ Put(rune, s).end = s.end
  <2>1. CASE s.end = 0
      BY <1>1, <2>1 DEF Put
  <2>2. CASE s.end # 0
    <3>1. Put(rune, s) = [s EXCEPT !.text = <<rune>> \o s.text]
        BY <2>2 DEF Put
    <3> DEFINE e == s.end
               t == s.text
               t2 == <<rune>> \o s.text
    <3>2. s = [end |-> e, text |-> t]
        BY <1>2 DEF Shaped
    <3>3. Put(rune, s) = [s EXCEPT !.text = t2]
        BY <3>1
    <3> HIDE DEF e, t, t2
    <3>4. Put(rune, s) = [end |-> e, text |-> t2]
        BY <3>2, <3>3
    <3>5. Shaped(Put(rune, s)) /\ Put(rune, s).end = e
        BY <3>4 DEF Shaped
    <3> QED
        BY <3>5 DEF e
  <2> QED
      BY <2>1, <2>2
<1> QED
    BY <1>1, <1>2

\* From j on the decoder of localparser.go refuses, or finds the end of the string.
LocalFrom == DecodeFrom(Local, Quotes)
ReadsFrom(j) ==
    /\ Shaped(LocalFrom[j])
    /\ LocalFrom[j].end = 0 \/ (LocalFrom[j].end \in Nat /\ EndsFrom(j, LocalFrom[j].end + 1))
LEMMA LocalEnd ==
    ASSUME bytes \in Seq(Byte), NEW i \in Nat, 2 <= i, ~Escaped(i)
    PROVE  ReadsFrom(i)
<1> DEFINE R == {j \in Nat : 2 <= j /\ ~Escaped(j)}
           K == {j \in R : j <= Len(bytes) /\ ~ReadsFrom(j)}
<1>1. Len(bytes) \in Nat /\ DOMAIN bytes = 1..Len(bytes) /\ Quotes \subseteq 1..Len(bytes)
    BY TextTyped DEF Quotes
<1>2. ASSUME NEW j \in R
      PROVE  LocalFrom[j] = IF j \in Quotes THEN Ended(j)
                            ELSE IF j > Len(bytes) \/ ~Goes(Local, j) THEN Nothing
                            ELSE Put(RuneAt(Local, j), LocalFrom[NextAt(Local, j)])
  <2>1. 0 \in 0..Len(bytes)
      BY <1>1
  <2>2. Forward(Local, Quotes)
      BY <2>1, DecodersForward
  <2>3. j \in Nat \ {0}
      OBVIOUS
  <2>4. DecodeFrom(Local, Quotes)[j] = DecodeBody(Local, Quotes, DecodeFrom(Local, Quotes), j)
      BY <2>2, <2>3, DecodeScan
  <2> QED
      BY <2>4, DecodeBodyIs DEF LocalFrom
<1>3. ASSUME NEW j \in R, LocalFrom[j] = Nothing PROVE ReadsFrom(j)
    BY <1>3, PutEnd DEF ReadsFrom
<1>4. ASSUME NEW j \in R, ~(j <= Len(bytes)) PROVE ReadsFrom(j)
  <2>1. j > Len(bytes) /\ j \notin Quotes
      BY <1>1, <1>4
  <2> QED
      BY <1>2, <1>3, <2>1
<1>5. K = {}
  <2> SUFFICES ASSUME K # {} PROVE FALSE
      OBVIOUS
  <2>1. PICK j \in K : \A k \in K : k <= j
    <3>1. \A k \in R : k \in Nat
        OBVIOUS
    <3>2. ASSUME NEW k \in K PROVE k \in 0..Len(bytes)
      <4>1. k \in R /\ k <= Len(bytes)
          OBVIOUS
      <4>2. k \in Nat
          BY <3>1, <4>1
      <4> QED
          BY <1>1, <4>1, <4>2
    <3> HIDE DEF K
    <3> QED
        BY <1>1, <3>2, GreatestNat
  <2>2. j \in R /\ j <= Len(bytes) /\ ~ReadsFrom(j)
      OBVIOUS
  <2>3. j \in Nat /\ 2 <= j /\ ~Escaped(j) /\ j \in 2..Len(bytes) /\ j \in 1..Len(bytes) /\ ~(j > Len(bytes))
      BY <1>1, <2>2
  <2>4. j \notin Quotes
    <3> SUFFICES ASSUME j \in Quotes PROVE FALSE
        OBVIOUS
    <3>1. LocalFrom[j] = Ended(j)
        BY <1>2, <2>2
    <3>2. j \in StringEnds
        BY <2>3, EndsAreUnescaped DEF Quotes
    <3>3. j + 1 - 1 = j /\ j + 1 \in Nat /\ j < j + 1
        BY <2>3
    <3>4. \A k \in StringEnds : k < j \/ j <= k
      <4>1. \A k \in StringEnds : k \in Nat
          BY <1>1, EndsAreUnescaped
      <4> QED
          BY <2>3, <4>1
    <3>5. EndsFrom(j, j + 1)
        BY <3>2, <3>3, <3>4 DEF EndsFrom
    <3> QED
        BY <2>2, <2>3, <3>1, <3>5, PutEnd DEF ReadsFrom
  <2>5. Goes(Local, j)
    <3> SUFFICES ASSUME ~Goes(Local, j) PROVE FALSE
        OBVIOUS
    <3>1. LocalFrom[j] = Nothing
        BY <1>2, <2>2, <2>4
    <3> HIDE DEF R, K
    <3> QED
        BY <1>3, <2>2, <3>1
  <2> DEFINE n == NextAt(Local, j)
  <2>6. n \in Nat /\ j < n /\ ~Escaped(n) /\ \A k \in j..(n - 1) : k \notin StringEnds
    <3>1. bytes[j] # DoubleQuote
        BY <1>1, <2>3, <2>4 DEF Quotes
    <3> QED
        BY <2>3, <2>5, <3>1, LocalPasses
  <2>7. LocalFrom[j] = Put(RuneAt(Local, j), LocalFrom[n])
      BY <1>2, <2>2, <2>3, <2>4, <2>5
  <2> HIDE DEF n
  <2>8. n \in R /\ ~(n <= j) /\ j <= n
      BY <2>3, <2>6
  <2>9. n \notin K
    <3> HIDE DEF K, R
    <3> QED
        BY <2>1, <2>8
  <2>10. ReadsFrom(n)
    <3>1. n <= Len(bytes) => ReadsFrom(n)
        BY <2>8, <2>9
    <3> HIDE DEF R, K
    <3> QED
        BY <1>4, <2>8, <3>1
  <2>11. Shaped(LocalFrom[j]) /\ LocalFrom[j].end = LocalFrom[n].end
      BY <2>7, <2>10, PutEnd DEF ReadsFrom
  <2>12. ASSUME LocalFrom[n].end # 0 PROVE EndsFrom(j, LocalFrom[n].end + 1)
    <3>1. EndsFrom(n, LocalFrom[n].end + 1)
        BY <2>10, <2>12 DEF ReadsFrom
    <3> QED
        BY <2>3, <2>6, <2>8, <3>1, EndFurther
  <2>13. LocalFrom[n].end = 0 \/ LocalFrom[n].end \in Nat
      BY <2>10 DEF ReadsFrom
  <2>14. ReadsFrom(j)
      BY <2>11, <2>12, <2>13 DEF ReadsFrom
  <2> QED
      BY <2>2, <2>14
<1>6. i \in R
    OBVIOUS
<1>7. CASE i <= Len(bytes)
    BY <1>5, <1>6, <1>7
<1>8. CASE ~(i <= Len(bytes))
  <2> HIDE DEF R, K
  <2> QED
      BY <1>4, <1>6, <1>8
<1> QED
    BY <1>7, <1>8

\* unquote.go, given the content of a string, reads what localparser.go does: it
\* stands nowhere behind the closing quote.
LEMMA UnquoteReadsAlike ==
    ASSUME bytes \in Seq(Byte), StringEnd # 0
    PROVE  Unquoted(StringEnd - 2) = LocalString
<1> DEFINE q == StringEnd - 1
           last == StringEnd - 2
           behind == (last + 1)..(Len(bytes) + 1)
           R == {j \in 2..q : ~Escaped(j)}
<1>1. Len(bytes) \in Nat /\ DOMAIN bytes = 1..Len(bytes)
    BY TextTyped
<1>2. EndsFrom(2, StringEnd)
    BY EndExists
<1>3. q \in StringEnds /\ q \in 2..Len(bytes) /\ bytes[q] = DoubleQuote /\ StringEnd \in Nat
    BY <1>2, EndsAreUnescaped DEF EndsFrom
<1>4. \A k \in StringEnds : k < 2 \/ q <= k
    BY <1>2 DEF EndsFrom
<1>5. q \in Nat /\ last \in Nat /\ last + 1 = q /\ last = q - 1 /\ last \in 0..Len(bytes) /\ q \in 1..Len(bytes)
      /\ last <= Len(bytes)
    BY <1>1, <1>3
<1>6. ByteAt(q) = DoubleQuote
    BY <1>3, <1>5, TextTyped
<1> HIDE DEF q, last
<1>7. Forward(Local, Quotes) /\ Forward(Unescaped(last), behind)
    BY <1>5, DecodersForward
<1>8. ASSUME NEW j \in R, j # q
      PROVE  /\ j \in Nat /\ 2 <= j /\ j < q /\ j <= last /\ ~Escaped(j) /\ j \in 1..last
             /\ j \in 1..Len(bytes) /\ j \in 2..Len(bytes)
    BY <1>1, <1>3, <1>5, <1>8
<1>9. ASSUME NEW j \in R PROVE /\ j \in Quotes <=> j = q
                               /\ j \in behind <=> j = q
  <2>1. CASE j = q
      BY <1>1, <1>3, <1>5, <2>1 DEF Quotes
  <2>2. CASE j # q
    <3>1. j \notin behind
        BY <1>1, <1>5, <1>8, <2>2
    <3>2. j \notin StringEnds
        BY <1>3, <1>4, <1>5, <1>8, <2>2
    <3>3. j \notin Quotes
        BY <1>8, <2>2, <3>2, EndsAreUnescaped DEF Quotes
    <3> QED
        BY <2>2, <3>1, <3>3
  <2> QED
      BY <2>1, <2>2
<1>10. \A i \in 1..last : Unescaped(last)[i] = UnquoteRune(i, last)
    BY DEF Unescaped
<1>11. ASSUME NEW j \in R, j # q PROVE Together(Local, Quotes, Unescaped(last), behind, R, j)
  <2> DEFINE v == Unescaped(last)
  <2>1. v[j] = UnquoteRune(j, last)
      BY <1>8, <1>10, <1>11
  <2>2. bytes[j] # DoubleQuote /\ j \notin Quotes /\ j \notin behind
      BY <1>1, <1>8, <1>9, <1>11 DEF Quotes
  <2> HIDE DEF v
  <2>3. ASSUME ByteAt(j + 1) = "u", Hex(j + 2)
        PROVE  /\ Another(j + 3) /\ Hex(j + 5) => j + 5 <= last
               /\ Another(j + 3) => j + 3 <= last
    <3>1. ByteAt(j + 1) # DoubleQuote /\ ByteAt(j + 2) # DoubleQuote
        BY <2>3 DEF Hex, DoubleQuote
    <3>2. q # j + 1 /\ q # j + 2
        BY <1>6, <3>1
    <3>3. ASSUME Another(j + 3) PROVE q # j + 3 /\ q # j + 4
      <4>1. ByteAt(j + 3) = Slash /\ ByteAt(j + 3 + 1) = "u" /\ j + 3 + 1 = j + 4
          BY <1>8, <1>11, <3>3 DEF Another
      <4>2. ByteAt(j + 3) # DoubleQuote /\ ByteAt(j + 4) # DoubleQuote
          BY <4>1 DEF DoubleQuote, Slash
      <4> QED
          BY <1>6, <4>2
    <3>4. ASSUME Hex(j + 5) PROVE q # j + 5
      <4>1. ByteAt(j + 5) # DoubleQuote
          BY <3>4 DEF Hex, DoubleQuote
      <4> QED
          BY <1>6, <4>1
    <3> QED
        BY <1>5, <1>8, <1>11, <3>2, <3>3, <3>4
  <2>4. ASSUME ByteAt(j + 1) = "u"
        PROVE  /\ ~Hex(j + 2) => ~v[j].ok
               /\ Hex(j + 2) /\ ~BrokenPair(j) => v[j] = LocalRune(j)
               /\ BrokenPair(j) => /\ ~v[j].ok \/ v[j] = Rune(Replacement, j + 3)
                                   /\ j + 3 \notin behind /\ ~v[j + 3].ok
    <3>1. ~Hex(j + 2) => ~v[j].ok
        BY <2>1, EscapesAlike
    <3>2. ASSUME Hex(j + 2), ~BrokenPair(j) PROVE v[j] = LocalRune(j)
      <4>1. ByteAt(j + 2) = "h" /\ Another(j + 3) => j + 5 <= last
          BY <2>3, <2>4, <3>2 DEF BrokenPair
      <4> QED
          BY <2>1, <3>2, <4>1, EscapesAlike
    <3>3. ASSUME BrokenPair(j)
          PROVE  /\ ~v[j].ok \/ v[j] = Rune(Replacement, j + 3)
                 /\ j + 3 \notin behind /\ ~v[j + 3].ok
      <4>1. Hex(j + 2) /\ Another(j + 3) /\ ~Hex(j + 5)
          BY <3>3 DEF BrokenPair, Hex
      <4>2. j + 3 <= last /\ j + 3 \in 1..last /\ j + 3 \notin behind
        <5>1. j + 3 <= last
            BY <2>3, <2>4, <4>1
        <5> QED
            BY <1>5, <1>8, <1>11, <5>1
      <4>3. ~v[j + 3].ok
        <5>1. v[j + 3] = UnquoteRune(j + 3, last)
            BY <1>10, <4>2 DEF v
        <5>2. ~Hex(j + 3 + 2)
          <6>1. j + 3 + 2 = j + 5
              BY <1>8, <1>11
          <6> QED
              BY <4>1, <6>1
        <5>3. UnquoteRune(j + 3, last) = Refused
            BY <5>2 DEF UnquoteRune
        <5> QED
            BY <5>1, <5>3, RunesDiffer
      <4>4. v[j] = Rune(Replacement, j + 3) \/ ~v[j].ok
          BY <2>1, <3>3, EscapesAlike
      <4> QED
          BY <4>2, <4>3, <4>4
    <3> QED
        BY <3>1, <3>2, <3>3
  <2>5. SameStep(v, behind, j)
    <3>1. j \in 1..Len(bytes)
        BY <1>8, <1>11
    <3>2. Forward(v, behind)
        BY <1>7 DEF v
    <3> HIDE DEF behind
    <3> QED
        BY <1>7, <2>2, <2>4, <3>1, <3>2, StepsAlike
  <2>6. ASSUME Goes(Local, j) PROVE NextAt(Local, j) \in R /\ j < NextAt(Local, j)
    <3> DEFINE n == NextAt(Local, j)
    <3>1. j \in 2..Len(bytes) /\ ~Escaped(j)
        BY <1>8, <1>11
    <3>2. n \in Nat /\ j < n /\ ~Escaped(n) /\ \A k \in j..(n - 1) : k \notin StringEnds
        BY <2>2, <2>6, <3>1, LocalPasses
    <3> HIDE DEF n
    <3>3. n <= q
      <4> SUFFICES ASSUME q < n PROVE FALSE
          BY <1>5, <3>2
      <4>1. q \in j..(n - 1)
          BY <1>5, <1>8, <1>11, <3>2
      <4> QED
          BY <1>3, <3>2, <4>1
    <3>4. n \in R
        BY <1>5, <1>8, <1>11, <3>2, <3>3
    <3> QED
        BY <3>2, <3>4 DEF n
  <2> HIDE DEF R, behind
  <2> QED
      BY <2>5, <2>6 DEF SameStep, Together, v
<1>12. R \subseteq Nat \ {0} /\ 2 \in R
  <2>1. 2 \in 2..q /\ ~Escaped(2)
      BY <1>3, EscapedNext
  <2> QED
      BY <2>1
<1>13. \A j \in R : j \in Quotes <=> j \in behind
    BY <1>9
<1>14. \A j \in R : j <= Len(bytes) /\ j \notin Quotes => Together(Local, Quotes, Unescaped(last), behind, R, j)
    BY <1>9, <1>11
<1> HIDE DEF R
<1>15. \A j \in R : DecodedAlike(Local, Quotes, Unescaped(last), behind, j)
  <2> HIDE DEF behind
  <2> QED
      BY ONLY bytes \in Seq(Byte), <1>7, <1>12, <1>13, <1>14, DecodeAlike
<1>16. DecodeFrom(Local, Quotes)[2] = DecodeFrom(Unescaped(last), behind)[2]
    BY <1>12, <1>15 DEF DecodedAlike
<1> QED
    BY <1>16, DecodedIs DEF Unquoted, LocalString, Local, Unescaped, last

\* Every scanner finds a string's end, and the decoders that accept it read the same
\* text.
THEOREM StringsReadAlike ==
    ASSUME bytes \in Seq(Byte), Short \in Nat
    PROVE  StringsAgree
<1> SUFFICES ASSUME ByteAt(1) = DoubleQuote
             PROVE  /\ FlagStringEnd(1) = StringEnd /\ FastStringEnd(1) = StringEnd
                    /\ PairStringEnd(1) = StringEnd
                    /\ VisitorString = LocalString
                    /\ LocalString.end # 0 => LocalString.end + 1 = StringEnd
                    /\ StringEnd # 0 =>
                         LET unquoted == Unquoted(StringEnd - 2) IN
                         unquoted.text = LocalString.text /\ unquoted.end \in {0, StringEnd - 1}
    BY DEF StringsAgree
<1>1. FlagStringEnd(1) = StringEnd /\ FastStringEnd(1) = StringEnd /\ PairStringEnd(1) = StringEnd
    BY StringsEndAlike
<1>2. LocalString = LocalFrom[2]
    BY DecodedIs DEF LocalString, LocalFrom, Local
<1>3. ReadsFrom(2)
    BY EscapedNext, LocalEnd
<1>4. LocalString.end = 0 \/ (LocalString.end \in Nat /\ LocalString.end + 1 = StringEnd)
    BY <1>2, <1>3, EndOnce DEF ReadsFrom
<1>5. StringEnd # 0 => Unquoted(StringEnd - 2) = LocalString
    BY UnquoteReadsAlike
<1>6. LocalString.end \in {0, StringEnd - 1}
    BY <1>4
<1> QED
    BY <1>1, <1>4, <1>5, <1>6, VisitorReadsAlike
-----------------------------------------------------------------------------------
(* The end of an array.                                                            *)

\* Where a string ends, there is a byte behind where it began.
LEMMA PairFurther ==
    ASSUME bytes \in Seq(Byte), NEW i \in Nat
    PROVE  PairFrom[i] = 0 \/ (PairFrom[i] \in Nat /\ i < PairFrom[i])
<1> DEFINE P(j) == PairFrom[j] = 0 \/ (PairFrom[j] \in Nat /\ j < PairFrom[j])
           K == {j \in 0..Len(bytes) : ~P(j)}
<1>1. Len(bytes) \in Nat
    BY TextTyped
<1>2. \A j \in Nat : PairFrom[j] = PairBody(PairFrom, j)
    BY PairScan
<1>3. ASSUME NEW j \in Nat, j > Len(bytes) PROVE P(j)
    BY <1>2, <1>3 DEF PairBody
<1>4. K = {}
  <2> SUFFICES ASSUME K # {} PROVE FALSE
      OBVIOUS
  <2>1. PICK j \in K : \A k \in K : k <= j
    <3>1. K \subseteq 0..Len(bytes)
        OBVIOUS
    <3> HIDE DEF K
    <3> QED
        BY <1>1, <3>1, GreatestNat
  <2>2. j \in Nat /\ j <= Len(bytes) /\ ~P(j) /\ ~(j > Len(bytes))
      BY <1>1
  <2>3. ASSUME NEW k \in Nat, j < k PROVE P(k)
    <3>1. CASE k > Len(bytes)
        BY <1>3, <3>1
    <3>2. CASE ~(k > Len(bytes))
      <4>1. k \in 0..Len(bytes) /\ ~(k <= j)
          BY <1>1, <2>2, <2>3, <3>2
      <4>2. k \notin K
        <5> HIDE DEF K
        <5> QED
            BY <2>1, <4>1
      <4> QED
          BY <4>1, <4>2
    <3> QED
        BY <3>1, <3>2
  <2>4. P(j + 1) /\ P(j + 2) /\ j + 1 \in Nat /\ j + 2 \in Nat
    <3>1. j + 1 \in Nat /\ j + 2 \in Nat /\ j < j + 1 /\ j < j + 2
        BY <2>2
    <3> HIDE DEF P
    <3> QED
        BY <2>3, <3>1
  <2>5. PairFrom[j] \in {PairFrom[j + 2], j + 1, PairFrom[j + 1]}
      BY <1>2, <2>2 DEF PairBody
  <2> QED
      BY <2>2, <2>4, <2>5
<1>5. CASE i > Len(bytes)
    BY <1>3, <1>5
<1>6. CASE ~(i > Len(bytes))
  <2>1. i \in 0..Len(bytes)
      BY <1>1, <1>6
  <2> QED
      BY <1>4, <2>1
<1> QED
    BY <1>5, <1>6

\* The scan with flags (both scanContainerEnds).
ContainerFirst == [string |-> FALSE, escaped |-> FALSE, depth |-> 1, end |-> 0]
ContainerNext(s, j) ==
    IF s.end # 0 THEN s
    ELSE IF s.escaped THEN [s EXCEPT !.escaped = FALSE]
    ELSE IF s.string
    THEN [s EXCEPT !.escaped = bytes[j] = Slash, !.string = bytes[j] # DoubleQuote]
    ELSE IF bytes[j] = DoubleQuote THEN [s EXCEPT !.string = TRUE]
    ELSE IF bytes[j] = "[" THEN [s EXCEPT !.depth = @ + 1]
    ELSE IF bytes[j] # "]" THEN s
    ELSE [s EXCEPT !.depth = @ - 1, !.end = IF s.depth = 1 THEN j + 1 ELSE 0]
ContainerBody(run, j) ==
    IF j = 1 THEN [string |-> FALSE, escaped |-> FALSE, depth |-> 1, end |-> 0]
    ELSE LET s == run[j - 1] IN
         IF s.end # 0 THEN s
         ELSE IF s.escaped THEN [s EXCEPT !.escaped = FALSE]
         ELSE IF s.string
         THEN [s EXCEPT !.escaped = bytes[j] = Slash, !.string = bytes[j] # DoubleQuote]
         ELSE IF bytes[j] = DoubleQuote THEN [s EXCEPT !.string = TRUE]
         ELSE IF bytes[j] = "[" THEN [s EXCEPT !.depth = @ + 1]
         ELSE IF bytes[j] # "]" THEN s
         ELSE [s EXCEPT !.depth = @ - 1, !.end = IF s.depth = 1 THEN j + 1 ELSE 0]

\* Its states are these.
LEMMA ContainerRun ==
    ASSUME bytes \in Seq(Byte)
    PROVE  \E run : /\ FlagContainerEnd = run[Len(bytes)].end
                    /\ \A j \in 1..Len(bytes) :
                         run[j] = IF j = 1 THEN ContainerFirst ELSE ContainerNext(run[j - 1], j)
<1> DEFINE S == [string : BOOLEAN, escaped : BOOLEAN, depth : Int, end : Nat]
           last == Len(bytes)
           step == [j \in 1..last |-> [s \in S |-> ContainerNext(s, j)]]
<1>1. last \in Nat
    BY TextTyped
<1> HIDE DEF last
<1>2. ASSUME NEW s \in S, NEW j \in 1..last PROVE ContainerNext(s, j) \in S
  <2> DEFINE b == bytes[j] = Slash
             c == bytes[j] # DoubleQuote
             e == IF s.depth = 1 THEN j + 1 ELSE 0
             more == s.depth + 1
             less == s.depth - 1
  <2>1. b \in BOOLEAN /\ c \in BOOLEAN
      BY Zenon
  <2>2. e \in Nat /\ more \in Int /\ less \in Int
      OBVIOUS
  <2> HIDE DEF b, c, e, more, less
  <2>3. [s EXCEPT !.escaped = b, !.string = c] \in S
      BY <2>1
  <2>4. [s EXCEPT !.escaped = FALSE] \in S /\ [s EXCEPT !.string = TRUE] \in S
      OBVIOUS
  <2>5. [s EXCEPT !.depth = more] \in S
      BY <2>2
  <2>6. [s EXCEPT !.depth = less, !.end = e] \in S
      BY <2>2
  <2> HIDE DEF S
  <2> QED
      BY <2>3, <2>4, <2>5, <2>6 DEF ContainerNext, b, c, e, more, less
<1>3. step \in [1..last -> [S -> S]]
  <2> HIDE DEF S
  <2> QED
      BY <1>2
<1>4. ContainerFirst \in S
    BY DEF ContainerFirst
<1>5. \E f : Runs(f, S, ContainerFirst, step, last)
  <2> HIDE DEF S, step
  <2> QED
      BY <1>1, <1>3, <1>4, RunExists
<1>6. PICK f : Runs(f, S, ContainerFirst, step, last)
    BY <1>5
<1>7. ASSUME NEW j \in 1..last PROVE f[j] = ContainerBody(f, j)
  <2>1. CASE j = 1
      BY <1>6, <2>1 DEF Runs, ContainerBody, ContainerFirst
  <2>2. CASE j # 1
    <3>1. f[j - 1] \in S
      <4>1. j - 1 \in 1..last
          BY <1>1, <2>2
      <4> HIDE DEF S, step
      <4> QED
          BY <1>6, <4>1 DEF Runs
    <3>2. f[j] = step[j][f[j - 1]]
      <4> HIDE DEF S, step
      <4> QED
          BY <1>6, <2>2 DEF Runs
    <3>3. f[j] = ContainerNext(f[j - 1], j)
      <4> HIDE DEF S
      <4> QED
          BY <3>1, <3>2
    <3> QED
        BY <2>2, <3>3 DEF ContainerNext, ContainerBody
  <2> QED
      BY <2>1, <2>2
<1>8. f = [j \in 1..last |-> ContainerBody(f, j)]
  <2>1. f \in [1..last -> S]
      BY <1>6 DEF Runs
  <2> HIDE DEF S
  <2> QED
      BY <1>7, <2>1
<1> DEFINE run == CHOOSE r : r = [j \in 1..last |-> ContainerBody(r, j)]
<1>9. run = [j \in 1..last |-> ContainerBody(run, j)]
    BY <1>8
<1>10. FlagContainerEnd = run[last].end
    BY DEF FlagContainerEnd, ContainerBody, last
<1> HIDE DEF run
<1>11. ASSUME NEW j \in 1..last
       PROVE  run[j] = IF j = 1 THEN ContainerFirst ELSE ContainerNext(run[j - 1], j)
  <2>1. run[j] = ContainerBody(run, j)
      BY <1>9
  <2> QED
      BY <2>1 DEF ContainerBody, ContainerFirst, ContainerNext
<1> QED
    BY <1>10, <1>11 DEF last

\* The scan that passes over strings at once (visitor.go, int64.go).
SkipAt(from, j, depth) ==
    IF ByteAt(j) = "end" THEN 0
    ELSE IF bytes[j] = DoubleQuote
    THEN IF PairStringEnd(j) = 0 THEN 0 ELSE from[PairStringEnd(j)][depth]
    ELSE IF bytes[j] = "[" THEN from[j + 1][depth + 1]
    ELSE IF bytes[j] # "]" THEN from[j + 1][depth]
    ELSE IF depth = 1 THEN j + 1 ELSE from[j + 1][depth - 1]
SkipFrom == CHOOSE f : f = [j \in Nat \ {0} |-> [depth \in Int |-> SkipAt(f, j, depth)]]

\* What it finds from j on, it finds from a byte or a string behind.
LEMMA SkipScan ==
    ASSUME bytes \in Seq(Byte)
    PROVE  /\ SkipContainerEnd = SkipFrom[2][1]
           /\ \A j \in Nat \ {0} : \A depth \in Int : SkipFrom[j][depth] = SkipAt(SkipFrom, j, depth)
<1> DEFINE D == Nat \ {0}
           S == [Int -> Nat]
           over(j) == bytes[j] = DoubleQuote /\ PairStringEnd(j) # 0
           base == [j \in D |-> [depth \in Int |-> 0]]
           next == [j \in D |-> IF over(j) THEN PairStringEnd(j) ELSE j + 1]
           value(j, x, depth) ==
             IF bytes[j] = DoubleQuote
             THEN IF PairStringEnd(j) = 0 THEN 0 ELSE x[depth]
             ELSE IF bytes[j] = "[" THEN x[depth + 1]
             ELSE IF bytes[j] # "]" THEN x[depth]
             ELSE IF depth = 1 THEN j + 1 ELSE x[depth - 1]
           step == [j \in D |-> [x \in S |-> [depth \in Int |-> value(j, x, depth)]]]
<1>1. Len(bytes) \in Nat
    BY TextTyped
<1>2. \A j \in D : (ByteAt(j) = "end" <=> ~(j <= Len(bytes))) /\ j \in Nat
  <2>1. ASSUME NEW j \in D PROVE (ByteAt(j) = "end" <=> ~(j <= Len(bytes))) /\ j \in Nat
    <3>1. j \in Nat /\ 1 <= j
        OBVIOUS
    <3>2. j <= Len(bytes) => ByteAt(j) # "end"
      <4> SUFFICES ASSUME j <= Len(bytes) PROVE ByteAt(j) # "end"
          OBVIOUS
      <4>1. j \in 1..Len(bytes)
          BY <1>1, <3>1
      <4>2. bytes[j] \in Byte
          BY <4>1
      <4> QED
          BY <4>1, <4>2, TextTyped DEF Byte
    <3> QED
        BY <3>1, <3>2 DEF ByteAt
  <2> QED
      BY <2>1
<1>3. base \in [D -> S]
    OBVIOUS
<1>4. next \in [D -> D] /\ \A j \in D : j < next[j]
  <2>1. ASSUME NEW j \in D
        PROVE  /\ (IF over(j) THEN PairStringEnd(j) ELSE j + 1) \in D
               /\ j < (IF over(j) THEN PairStringEnd(j) ELSE j + 1)
    <3>1. PairStringEnd(j) = PairFrom[j + 1] /\ j + 1 \in Nat /\ j \in Nat
        BY PairScan
    <3>2. PairFrom[j + 1] = 0 \/ (PairFrom[j + 1] \in Nat /\ j + 1 < PairFrom[j + 1])
        BY <3>1, PairFurther
    <3> QED
        BY <3>1, <3>2
  <2> HIDE DEF over, D
  <2> QED
      BY <2>1
<1>5. step \in [D -> [S -> S]]
  <2>1. ASSUME NEW j \in D, NEW x \in S, NEW depth \in Int PROVE value(j, x, depth) \in Nat
    <3>1. depth + 1 \in Int /\ depth - 1 \in Int /\ j + 1 \in Nat
        OBVIOUS
    <3>2. x[depth] \in Nat /\ x[depth + 1] \in Nat /\ x[depth - 1] \in Nat /\ 0 \in Nat
      <4> HIDE DEF value, D
      <4> QED
          BY <3>1
    <3>3. value(j, x, depth) \in {0, j + 1, x[depth], x[depth + 1], x[depth - 1]}
      <4> HIDE DEF S, D
      <4> QED
          OBVIOUS
    <3> QED
        BY <3>1, <3>2, <3>3
  <2>2. \A j \in D : \A x \in S : [depth \in Int |-> value(j, x, depth)] \in S
    <3> HIDE DEF D, value
    <3> QED
        BY <2>1
  <2> HIDE DEF D, S, value
  <2> QED
      BY <2>2
<1>6. \E f \in [D -> S] : \A j \in D : LooksUp(f, j, base, next, step, Len(bytes))
  <2>1. D \subseteq Nat
      OBVIOUS
  <2> HIDE DEF D, S, base, next, step
  <2> QED
      BY <1>1, <1>3, <1>4, <1>5, <2>1, ScanExists
<1>7. PICK f \in [D -> S] : \A j \in D : LooksUp(f, j, base, next, step, Len(bytes))
    BY <1>6
<1>8. ASSUME NEW j \in D, NEW depth \in Int PROVE f[j][depth] = SkipAt(f, j, depth)
  <2>1. f[j] = IF j <= Len(bytes) THEN step[j][f[next[j]]] ELSE base[j]
    <3> HIDE DEF base, next, step, D, S
    <3> QED
        BY <1>7 DEF LooksUp
  <2>2. f[next[j]] \in S
    <3> HIDE DEF D, S, next
    <3> QED
        BY <1>4
  <2>3. CASE j <= Len(bytes)
    <3>1. f[j][depth] = value(j, f[next[j]], depth)
      <4>1. step[j][f[next[j]]] = [d \in Int |-> value(j, f[next[j]], d)]
        <5> HIDE DEF D, S, next, value
        <5> QED
            BY <2>2
      <4>2. f[j] = [d \in Int |-> value(j, f[next[j]], d)]
        <5> HIDE DEF step, next, value, base, S, D
        <5> QED
            BY <2>1, <2>3, <4>1
      <4> HIDE DEF value, next
      <4> QED
          BY <4>2
    <3>2. next[j] = IF over(j) THEN PairStringEnd(j) ELSE j + 1
      <4> HIDE DEF over, D
      <4> QED
          OBVIOUS
    <3>3. ByteAt(j) # "end"
      <4> HIDE DEF D
      <4> QED
          BY <1>2, <2>3
    <3>4. CASE bytes[j] = DoubleQuote
      <4>1. CASE PairStringEnd(j) = 0
        <5>1. f[j][depth] = 0
          <6> HIDE DEF next
          <6> QED
              BY <3>1, <3>4, <4>1
        <5> QED
            BY <3>3, <3>4, <4>1, <5>1 DEF SkipAt
      <4>2. CASE PairStringEnd(j) # 0
        <5>1. next[j] = PairStringEnd(j)
            BY <3>2, <3>4, <4>2
        <5>2. f[j][depth] = f[next[j]][depth]
          <6> HIDE DEF next
          <6> QED
              BY <3>1, <3>4, <4>2
        <5> HIDE DEF next
        <5> QED
            BY <3>3, <3>4, <4>2, <5>1, <5>2 DEF SkipAt
      <4> QED
          BY <4>1, <4>2
    <3>5. CASE bytes[j] # DoubleQuote
      <4>1. next[j] = j + 1
          BY <3>2, <3>5
      <4> HIDE DEF next, D, S, step
      <4>2. f[j][depth] = value(j, f[j + 1], depth)
        <5> HIDE DEF value
        <5> QED
            BY <3>1, <4>1
      <4> QED
          BY <3>3, <3>5, <4>2 DEF SkipAt
    <3> QED
        BY <3>4, <3>5
  <2>4. CASE ~(j <= Len(bytes))
    <3>1. f[j] = base[j]
      <4> HIDE DEF next, step, base
      <4> QED
          BY <2>1, <2>4
    <3>2. f[j][depth] = 0
        BY <3>1
    <3>3. ByteAt(j) = "end"
      <4> HIDE DEF D
      <4> QED
          BY <1>2, <2>4
    <3> QED
        BY <3>2, <3>3 DEF SkipAt
  <2> QED
      BY <2>3, <2>4
<1>9. f = [j \in D |-> [depth \in Int |-> SkipAt(f, j, depth)]]
  <2>1. ASSUME NEW j \in D PROVE f[j] = [depth \in Int |-> SkipAt(f, j, depth)]
    <3>1. f[j] \in [Int -> Nat]
      <4> HIDE DEF D
      <4> QED
          OBVIOUS
    <3> HIDE DEF D
    <3> QED
        BY <1>8, <3>1
  <2> HIDE DEF D, S
  <2> QED
      BY <2>1
<1>10. SkipFrom = [j \in D |-> [depth \in Int |-> SkipAt(SkipFrom, j, depth)]]
    BY <1>9 DEF SkipFrom
<1>11. SkipContainerEnd = SkipFrom[2][1]
    BY DEF SkipContainerEnd, SkipFrom, SkipAt
<1>12. ASSUME NEW j \in D, NEW depth \in Int PROVE SkipFrom[j][depth] = SkipAt(SkipFrom, j, depth)
  <2>1. SkipFrom[j] = [d \in Int |-> SkipAt(SkipFrom, j, d)]
    <3> HIDE DEF D
    <3> QED
        BY <1>10
  <2> QED
      BY <2>1
<1> QED
    BY <1>11, <1>12

\* A state of the scan outside a string, and inside one, behind a backslash or not.
Outside(depth) == [string |-> FALSE, escaped |-> FALSE, depth |-> depth, end |-> 0]
Quoted(depth) == [string |-> TRUE, escaped |-> FALSE, depth |-> depth, end |-> 0]
Escaping(depth) == [string |-> TRUE, escaped |-> TRUE, depth |-> depth, end |-> 0]

\* Outside a string a byte opens one, counts if it is a bracket, or changes nothing.
LEMMA OutsideNext ==
    ASSUME NEW depth \in Int, NEW j \in Nat
    PROVE  /\ bytes[j] = DoubleQuote => ContainerNext(Outside(depth), j) = Quoted(depth)
           /\ bytes[j] = "[" => ContainerNext(Outside(depth), j) = Outside(depth + 1)
           /\ bytes[j] \notin {DoubleQuote, "[", "]"} => ContainerNext(Outside(depth), j) = Outside(depth)
           /\ bytes[j] = "]" /\ depth # 1 => ContainerNext(Outside(depth), j) = Outside(depth - 1)
           /\ bytes[j] = "]" /\ depth = 1 => ContainerNext(Outside(depth), j).end = j + 1
<1> DEFINE t == ContainerNext(Outside(depth), j)
<1>1. CASE bytes[j] = DoubleQuote
  <2>1. DoubleQuote \notin {"[", "]"}
      BY DEF DoubleQuote
  <2>2. t = Quoted(depth)
      BY <1>1 DEF ContainerNext, Outside, Quoted
  <2> QED
      BY <1>1, <2>1, <2>2
<1>2. CASE bytes[j] = "["
  <2>1. DoubleQuote \notin {"[", "]"}
      BY DEF DoubleQuote
  <2>2. t = Outside(depth + 1)
      BY <1>2, <2>1 DEF ContainerNext, Outside
  <2> QED
      BY <1>2, <2>1, <2>2
<1>3. CASE bytes[j] \notin {DoubleQuote, "[", "]"}
  <2>2. t = Outside(depth)
      BY <1>3 DEF ContainerNext, Outside
  <2> QED
      BY <1>3, <2>2
<1>4. CASE bytes[j] = "]"
  <2>1. DoubleQuote \notin {"[", "]"}
      BY DEF DoubleQuote
  <2>2. depth # 1 => t = Outside(depth - 1)
      BY <1>4, <2>1 DEF ContainerNext, Outside
  <2>3. depth = 1 => t.end = j + 1
      BY <1>4, <2>1 DEF ContainerNext, Outside
  <2> QED
      BY <1>4, <2>1, <2>2, <2>3
<1> QED
    BY <1>1, <1>2, <1>3, <1>4

\* Inside one no bracket counts; a quote closes it, if it is not escaped.
LEMMA InsideNext ==
    ASSUME NEW depth \in Int, NEW j \in Nat
    PROVE  /\ ContainerNext(Escaping(depth), j) = Quoted(depth)
           /\ bytes[j] = Slash => ContainerNext(Quoted(depth), j) = Escaping(depth)
           /\ bytes[j] = DoubleQuote => ContainerNext(Quoted(depth), j) = Outside(depth)
           /\ bytes[j] \notin {Slash, DoubleQuote} =>
                ContainerNext(Quoted(depth), j) = Quoted(depth)
<1> DEFINE t == ContainerNext(Quoted(depth), j)
<1>1. ContainerNext(Escaping(depth), j) = Quoted(depth)
    BY DEF ContainerNext, Quoted, Escaping
<1>2. t = [string |-> bytes[j] # DoubleQuote, escaped |-> bytes[j] = Slash, depth |-> depth, end |-> 0]
    BY DEF ContainerNext, Quoted, Escaping
<1>3. Slash # DoubleQuote
    BY DEF Slash, DoubleQuote
<1>4. CASE bytes[j] = Slash
  <2>1. (bytes[j] # DoubleQuote) = TRUE /\ (bytes[j] = Slash) = TRUE
      BY <1>3, <1>4, Zenon
  <2>2. t = Escaping(depth)
      BY <1>2, <2>1, Zenon DEF Quoted, Escaping
  <2> QED
      BY <1>1, <1>3, <1>4, <2>2
<1>5. CASE bytes[j] = DoubleQuote
  <2>1. (bytes[j] # DoubleQuote) = FALSE /\ (bytes[j] = Slash) = FALSE
      BY <1>3, <1>5, Zenon
  <2>2. t = Outside(depth)
      BY <1>2, <2>1, Zenon DEF Outside
  <2> QED
      BY <1>1, <1>3, <1>5, <2>2
<1>6. CASE bytes[j] \notin {Slash, DoubleQuote}
  <2>1. (bytes[j] # DoubleQuote) = TRUE /\ (bytes[j] = Slash) = FALSE
      BY <1>6, Zenon
  <2>2. t = Quoted(depth)
      BY <1>2, <2>1, Zenon DEF Quoted, Escaping
  <2> QED
      BY <1>1, <1>3, <1>6, <2>2
<1> QED
    BY <1>4, <1>5, <1>6

\* The end of the array that holds the string that begins in front of j.
Behind(j, depth) == IF PairFrom[j] = 0 THEN 0 ELSE SkipFrom[PairFrom[j]][depth]

\* The scanners find the same end of an array: no bracket in a string counts.
THEOREM BracketsEndAlike ==
    ASSUME bytes \in Seq(Byte)
    PROVE  BracketsAgree
<1> SUFFICES ASSUME ByteAt(1) = "[" PROVE FlagContainerEnd = SkipContainerEnd
    BY DEF BracketsAgree
<1> DEFINE N == Len(bytes)
<1>1. N \in Nat /\ 1 <= N
  <2>1. ByteAt(1) # "end" /\ 1 \in Nat
      OBVIOUS
  <2> QED
      BY <2>1, TextTyped, ByteThere
<1> HIDE DEF N
<1>2. PICK run : /\ FlagContainerEnd = run[N].end
                 /\ \A j \in 1..N : run[j] = IF j = 1 THEN ContainerFirst ELSE ContainerNext(run[j - 1], j)
    BY ContainerRun DEF N
<1>3. \A j \in 2..N : run[j] = ContainerNext(run[j - 1], j)
  <2>1. \A j \in 2..N : j \in 1..N /\ j # 1
      BY <1>1
  <2> QED
      BY <1>2, <2>1
\* An end that is found stays.
<1>4. ASSUME NEW i \in 1..N, run[i].end # 0 PROVE run[N].end = run[i].end
  <2> DEFINE K == {j \in i..N : run[j].end # run[i].end}
  <2>1. SUFFICES ASSUME K # {} PROVE FALSE
    <3>1. N \in i..N
        BY <1>1
    <3> QED
        BY <3>1
  <2>2. PICK j \in K : \A k \in K : j <= k
    <3>1. K \subseteq Nat
        OBVIOUS
    <3> HIDE DEF K
    <3> QED
        BY <2>1, <3>1, LeastNat
  <2>3. j \in i..N /\ run[j].end # run[i].end /\ j # i
      OBVIOUS
  <2>4. j - 1 \in i..N /\ ~(j <= j - 1) /\ j \in 2..N
      BY <1>1, <2>3
  <2>5. j - 1 \notin K
    <3> HIDE DEF K
    <3> QED
        BY <2>2, <2>4
  <2>6. run[j - 1].end = run[i].end
      BY <2>4, <2>5
  <2>7. run[j] = run[j - 1]
      BY <1>3, <1>4, <2>4, <2>6 DEF ContainerNext
  <2> QED
      BY <2>3, <2>6, <2>7
<1>5. \A j \in Nat : PairFrom[j] = PairBody(PairFrom, j)
    BY PairScan
<1>6. \A j \in Nat \ {0} : \A depth \in Int : SkipFrom[j][depth] = SkipAt(SkipFrom, j, depth)
    BY SkipScan
<1> DEFINE Outer(j) == \A depth \in Int : run[j - 1] = Outside(depth) => run[N].end = SkipFrom[j][depth]
           Inner(j) == \A depth \in Int : run[j - 1] = Quoted(depth) =>
                         run[N].end = Behind(j, depth)
           Alike(j) == Outer(j) /\ Inner(j)
           K == {j \in 2..(N + 1) : ~Alike(j)}
<1>7. \A depth : Outside(depth).end = 0 /\ Quoted(depth).end = 0 /\ Escaping(depth).end = 0
    BY DEF Outside, Quoted, Escaping
<1>8. Alike(N + 1)
  <2> DEFINE m == N + 1
  <2>1. m - 1 = N /\ m \in Nat /\ m > N /\ m \in Nat \ {0} /\ ~(m <= N)
      BY <1>1
  <2> HIDE DEF m
  <2>2. PairFrom[m] = 0
      BY <1>5, <2>1 DEF PairBody, N
  <2>3. \A depth \in Int : SkipFrom[m][depth] = 0 /\ Behind(m, depth) = 0
    <3>1. ByteAt(m) = "end"
        BY <2>1 DEF ByteAt, N
    <3> QED
        BY <1>6, <2>1, <2>2, <3>1 DEF SkipAt, Behind
  <2>4. Alike(m)
      BY <1>7, <2>1, <2>3
  <2> HIDE DEF Alike
  <2> QED
      BY <2>4 DEF m
<1>9. K = {}
  <2> SUFFICES ASSUME K # {} PROVE FALSE
      OBVIOUS
  <2>1. PICK j \in K : \A k \in K : k <= j
    <3>1. K \subseteq 0..(N + 1) /\ N + 1 \in Nat
      <4> HIDE DEF Alike
      <4> QED
          BY <1>1
    <3> HIDE DEF K
    <3> QED
        BY <3>1, GreatestNat
  <2>2. j \in 2..(N + 1) /\ ~Alike(j)
      OBVIOUS
  <2>3. j # N + 1
    <3> HIDE DEF Alike, K
    <3> QED
        BY <1>8, <2>2
  <2>4. /\ j \in Nat /\ j \in Nat \ {0} /\ j \in 2..N /\ j \in 1..N /\ ~(j > N) /\ j + 1 \in 2..(N + 1) /\ j + 1 \in Nat
        /\ ~(j + 1 <= j) /\ j + 1 - 1 = j /\ ~(j + 2 <= j) /\ j + 2 \in Nat /\ j + 2 - 1 = j + 1
      BY <1>1, <2>2, <2>3
  <2>5. Alike(j + 1)
    <3>1. j + 1 \notin K
      <4> HIDE DEF K
      <4> QED
          BY <2>1, <2>4
    <3> HIDE DEF Alike
    <3> QED
        BY <2>4, <3>1
  <2>6. run[j] = ContainerNext(run[j - 1], j)
      BY <1>3, <2>4
  <2>7. ByteAt(j) # "end" /\ ByteAt(j) = bytes[j]
    <3>1. j \in 1..Len(bytes)
        BY <2>4 DEF N
    <3>2. bytes[j] \in Byte
        BY <3>1
    <3> QED
        BY <3>1, <3>2, TextTyped DEF Byte
  <2>8. Outer(j)
    <3> SUFFICES ASSUME NEW depth \in Int, run[j - 1] = Outside(depth)
                 PROVE  run[N].end = SkipFrom[j][depth]
        OBVIOUS
    <3>1. SkipFrom[j][depth] = SkipAt(SkipFrom, j, depth)
        BY <1>6, <2>4
    <3>2. \A d \in Int : run[j] = Outside(d) => run[N].end = SkipFrom[j + 1][d]
        BY <2>4, <2>5
    <3> HIDE DEF K, Alike, Outer, Inner
    <3>3. CASE bytes[j] = DoubleQuote
      <4>1. run[j] = Quoted(depth)
          BY <2>4, <2>6, <3>3, OutsideNext
      <4>2. run[N].end = Behind(j + 1, depth)
          BY <2>4, <2>5, <4>1 DEF Alike, Inner
      <4>3. PairStringEnd(j) = PairFrom[j + 1]
          BY PairScan
      <4> QED
          BY <2>7, <3>1, <3>3, <4>2, <4>3 DEF SkipAt, Behind
    <3>4. CASE bytes[j] = "["
      <4>1. run[j] = Outside(depth + 1)
          BY <2>4, <2>6, <3>4, OutsideNext
      <4>2. SkipFrom[j][depth] = SkipFrom[j + 1][depth + 1]
          BY <2>7, <3>1, <3>4 DEF SkipAt, DoubleQuote
      <4> QED
          BY <3>2, <4>1, <4>2
    <3>5. CASE bytes[j] \notin {DoubleQuote, "[", "]"}
      <4>1. run[j] = Outside(depth)
          BY <2>4, <2>6, <3>5, OutsideNext
      <4>2. SkipFrom[j][depth] = SkipFrom[j + 1][depth]
          BY <2>7, <3>1, <3>5 DEF SkipAt
      <4> QED
          BY <3>2, <4>1, <4>2
    <3>6. CASE bytes[j] = "]" /\ depth # 1
      <4>1. run[j] = Outside(depth - 1)
          BY <2>4, <2>6, <3>6, OutsideNext
      <4>2. SkipFrom[j][depth] = SkipFrom[j + 1][depth - 1]
          BY <2>7, <3>1, <3>6 DEF SkipAt, DoubleQuote
      <4> QED
          BY <3>2, <4>1, <4>2
    <3>7. CASE bytes[j] = "]" /\ depth = 1
      <4>1. run[j].end = j + 1
        <5>1. run[j] = ContainerNext(Outside(depth), j)
            BY <2>6
        <5>2. ContainerNext(Outside(depth), j).end = j + 1
            BY <2>4, <3>7, OutsideNext
        <5> QED
            BY <5>1, <5>2
      <4>2. run[N].end = run[j].end
        <5>1. run[j].end # 0 /\ j \in 1..N
            BY <2>4, <4>1
        <5> QED
            BY ONLY <1>4, <5>1
      <4>3. SkipFrom[j][depth] = j + 1
          BY <2>7, <3>1, <3>7 DEF SkipAt, DoubleQuote
      <4> QED
          BY <4>1, <4>2, <4>3
    <3> QED
        BY <3>3, <3>4, <3>5, <3>6, <3>7
  <2>9. Inner(j)
    <3> SUFFICES ASSUME NEW depth \in Int, run[j - 1] = Quoted(depth)
                 PROVE  run[N].end = Behind(j, depth)
        OBVIOUS
    <3>1. ~(j > Len(bytes)) /\ PairFrom[j] = PairBody(PairFrom, j)
        BY <1>5, <2>4 DEF N
    <3>2. \A d \in Int : run[j] = Outside(d) => run[N].end = SkipFrom[j + 1][d]
        BY <2>4, <2>5
    <3>3. \A d \in Int : run[j] = Quoted(d) =>
            run[N].end = Behind(j + 1, d)
        BY <2>4, <2>5
    <3> HIDE DEF Alike, Outer, Inner
    <3>4. CASE bytes[j] = Slash
      <4>1. run[j] = Escaping(depth)
          BY <2>4, <2>6, <3>4, InsideNext
      <4>2. PairFrom[j] = PairFrom[j + 2]
          BY <3>1, <3>4 DEF PairBody
      <4>3. CASE j = N
        <5>1. run[N].end = 0
            BY <1>7, <4>1, <4>3
        <5>2. PairFrom[j + 2] = 0
          <6>1. j + 2 > Len(bytes)
              BY <1>1, <2>4, <4>3 DEF N
          <6> QED
              BY <1>5, <2>4, <6>1 DEF PairBody
        <5> QED
            BY <4>2, <5>1, <5>2 DEF Behind
      <4>4. CASE j # N
        <5>1. j + 1 \in 2..N /\ j + 2 \in 2..(N + 1)
            BY <1>1, <2>4, <4>4
        <5>2. run[j + 1] = Quoted(depth)
          <6>1. run[j + 1] = ContainerNext(run[j], j + 1)
              BY <1>3, <2>4, <5>1
          <6> QED
              BY <2>4, <4>1, <6>1, InsideNext
        <5>3. j + 2 \notin K
          <6> HIDE DEF K
          <6> QED
              BY <2>1, <2>4
        <5>4. Alike(j + 2)
            BY <5>1, <5>3
        <5>5. run[N].end = Behind(j + 2, depth)
            BY <2>4, <5>2, <5>4 DEF Alike, Inner
        <5> QED
            BY <4>2, <5>5 DEF Behind
      <4> QED
          BY <4>3, <4>4
    <3>5. CASE bytes[j] = DoubleQuote
      <4>1. run[j] = Outside(depth)
          BY <2>4, <2>6, <3>5, InsideNext
      <4>2. PairFrom[j] = j + 1 /\ j + 1 # 0
        <5>1. Slash # DoubleQuote
            BY DEF Slash, DoubleQuote
        <5> QED
            BY <2>4, <3>1, <3>5, <5>1 DEF PairBody
      <4> QED
          BY <3>2, <4>1, <4>2 DEF Behind
    <3>6. CASE bytes[j] \notin {Slash, DoubleQuote}
      <4>1. run[j] = Quoted(depth)
          BY <2>4, <2>6, <3>6, InsideNext
      <4>2. PairFrom[j] = PairFrom[j + 1]
          BY <3>1, <3>6 DEF PairBody
      <4> QED
          BY <3>3, <4>1, <4>2 DEF Behind
    <3> QED
        BY <3>4, <3>5, <3>6
  <2> HIDE DEF Outer, Inner
  <2> QED
      BY <2>2, <2>8, <2>9
<1>10. Outer(2)
  <2>1. 2 \in 2..(N + 1)
      BY <1>1
  <2>2. Alike(2)
    <3> HIDE DEF Alike
    <3> QED
        BY <1>9, <2>1
  <2> HIDE DEF Outer, Inner
  <2> QED
      BY <2>2
<1>11. run[2 - 1] = Outside(1)
  <2>1. 1 \in 1..N /\ 2 - 1 = 1
      BY <1>1
  <2> QED
      BY <1>2, <2>1 DEF Outside, ContainerFirst
<1> QED
    BY <1>2, <1>10, <1>11, SkipScan

\* Strings, numbers and brackets end at the same byte for every scanner, in a text of
\* whatever bytes and length, and however many bytes scanStringEnd looks at one by one.
THEOREM TokensEndAlike ==
    ASSUME bytes \in Seq(Byte), Short \in Nat
    PROVE  ScannersAgree
    BY StringsReadAlike, NumbersEndAlike, BracketsEndAlike DEF ScannersAgree
===================================================================================
