------------------------------ MODULE StreamsProofs ------------------------------
(***************************************************************************)
(* Whatever the text, the sizes of the reads, the buffers and the options:  *)
(* the three decoders lose no byte of their input, tell exact positions,    *)
(* decode under the options in force, leave kept bytes alone, and so        *)
(* implement ValueStream.                                                   *)
(***************************************************************************)
EXTENDS Streams, FiniteSetTheorems, WellFoundedInduction, SequenceTheorems, TLAPS

Compat == source.kind = "compat"

\* A caller keeps input bytes and asks for more between two values: the code does
\* not keep them intact then.
KeepsAndPeeks == "raw" \in source.dests /\ "more" \in Cases

DecType == [buf : Nat, len : Nat, scanp : Nat, scanned : Nat, toggles : SUBSET Sticky,
            failed : {"no", "malformed", "eof", "cut"}]

TypeInv ==
    /\ source \in Source
    /\ mem \in Seq(Seq(Nat))
    /\ dec \in DecType
    /\ inp \in [pending : Seq(Nat), read : Nat]
    /\ call \in [op : {"none", "decode", "more"}, dest : {"plain", "raw"}, before : Nat,
                 end : {"no", "eof", "error"}]
    /\ got \in Seq(Nat) /\ changes \in Nat
    /\ kept \subseteq [val : Nat, buf : Nat, from : Nat, len : Nat]

\* The unread part of the buffer lies within it.
BufferInv ==
    /\ dec.buf <= Len(mem) /\ dec.scanp <= dec.len
    /\ IF dec.buf = 0 THEN dec.len = 0 ELSE dec.len <= Len(mem[dec.buf])

CallInv ==
    /\ call.op = "decode" => call.dest \in source.dests
    /\ call.op = "more" => "more" \in Cases
    /\ call.end # "no" => inp.pending = <<>> /\ ~Idle
    /\ call.end = "eof" => Unread = <<>>

\* There is a decoder behind the text.
Alive == String => st.live

\* The bytes not consumed yet are the text behind what was.
TextInv ==
    Alive => /\ inp.read <= Len(Input) /\ Consumed \in 0..Len(Input)
             /\ Rest = SubSeq(Input, Consumed + 1, Len(Input))

\* The first k values end at e.
IsEnd(k, e) ==
    /\ e \in 0..Len(Input) /\ (e # 0 => IsLast(Input[e]))
    /\ Cardinality({j \in 1..e : IsLast(Input[j])}) = k

Blank(e, c) == \A i \in (e + 1)..c : Input[i] = Space
End == EndOf(Len(got))

\* What was consumed are the values delivered, and spaces.
EndInv ==
    /\ IsEnd(Len(got), End)
    /\ \A i \in 1..End : Input[i] # Malformed
    /\ ~String => End <= Consumed /\ (~Terminal => Blank(End, Consumed))

StreamType == [offset : Nat, opts : Options, configured : Options, terminal : BOOLEAN,
               at : Nat, detach : BOOLEAN, pos : Nat, leading : Nat, waiting : BOOLEAN]

StreamInv ==
    Stream =>
      /\ sd \in StreamType
      /\ dec.toggles = sd.configured \cap Sticky
      /\ IF sd.terminal
         THEN /\ Idle /\ sd.at \in End..Len(Input) /\ Blank(End, sd.at)
              /\ sd.at = inp.read \/ (sd.at < Len(Input) /\ Input[sd.at + 1] # Space)
         ELSE /\ dec.failed = "no"
              /\ Len(got) > 0 =>
                   sd.pos = Cardinality({i \in (EndOf(Len(got) - 1) + 1)..End : Input[i] # Space})
      /\ call.op = "decode" =>
           /\ sd.configured = sd.opts /\ ~sd.detach /\ call.before = Offset(dec)
           /\ sd.leading = Spaces(Contents(dec))
           /\ sd.waiting = (sd.leading = Len(Contents(dec)))

CompatType == [opts : Options, terminal : BOOLEAN, detach : BOOLEAN]

CompatInv ==
    Compat =>
      /\ cs \in CompatType
      /\ cs.terminal => Idle
      /\ ~cs.terminal => dec.failed = "no"
      /\ call.op = "decode" => ~cs.detach
      /\ cs.opts \cap Sticky \subseteq dec.toggles
      /\ dec.toggles \subseteq C!Toggles(cs.opts)

StringType == [pos : Nat, opts : Options, live : BOOLEAN, base : Nat]

StringInv ==
    String =>
      /\ st \in StringType
      /\ st.pos = End \/ st.pos = Len(Input)
      /\ "eof" \notin Cases => Blank(End, st.pos)
      /\ ~Idle => call.op = "decode" /\ st.live /\ st.pos < Len(Input)
      /\ st.live =>
           /\ Consumed = End /\ dec.toggles = st.opts \cap Sticky
           /\ dec.failed = "eof" => st.pos = Len(Input)

\* A kept value is in a buffer that no decoder refills any more.
KeptInv ==
    ~KeepsAndPeeks =>
      \A r \in kept :
        /\ "raw" \in source.dests
        /\ r.buf \in 1..Len(mem) /\ r.from \in Nat \ {0} /\ r.from + r.len <= Len(mem[r.buf]) + 1
        /\ \A j \in 1..r.len : mem[r.buf][r.from + j - 1] \div 2 = r.val
        /\ r.buf = dec.buf =>
             Idle /\ (Stream => sd.detach) /\ (Compat => cs.detach) /\ (String => ~st.live)

StreamsInv ==
    /\ TypeInv /\ BufferInv /\ CallInv /\ TextInv /\ EndInv
    /\ StreamInv /\ CompatInv /\ StringInv /\ KeptInv
-----------------------------------------------------------------------------------
(* Natural numbers, sequences and the functions of the model on them.              *)

\* A set of natural numbers has a least element.
LEMMA LeastNat ==
    ASSUME NEW K, K \subseteq Nat, K # {}
    PROVE  \E m \in K : \A k \in K : m <= k
<1> DEFINE R == OpToRel(<, Nat)
<1>1. IsWellFoundedOn(R, Nat)
    BY NatLessThanWellFounded
<1>2. \A x, y \in Nat : x < y => <<x, y>> \in R
    BY DEF OpToRel
<1> HIDE DEF R
<1>3. PICK x \in K : \A y \in K : ~(<<y, x>> \in R)
    BY <1>1, WFMin
<1>4. ASSUME NEW y \in K PROVE x <= y
  <2>1. x \in Nat /\ y \in Nat
      OBVIOUS
  <2>2. ~(y < x)
      BY <2>1, <1>2, <1>3
  <2> QED
      BY <2>1, <2>2
<1> QED
    BY <1>4

\* A sequence of numbers is a function of its positions.
LEMMA SeqFacts ==
    ASSUME NEW s \in Seq(Nat)
    PROVE  Len(s) \in Nat /\ DOMAIN s = 1..Len(s) /\ \A i \in 1..Len(s) : s[i] \in Nat
    BY ElementOfSeq, LenProperties

\* Leading spaces end at a byte that is not one.
LEMMA SpacesFacts ==
    ASSUME NEW s \in Seq(Nat)
    PROVE  /\ Spaces(s) \in 0..Len(s)
           /\ \A i \in 1..Spaces(s) : s[i] = Space
           /\ Spaces(s) < Len(s) => s[Spaces(s) + 1] # Space
<1> DEFINE K == {k \in 0..Len(s) : k = Len(s) \/ s[k + 1] # Space}
<1>1. Len(s) \in Nat /\ Len(s) \in K
    BY SeqFacts
<1>2. PICK m \in K : \A k \in K : m <= k
  <2>1. K \subseteq Nat /\ K # {}
      BY <1>1
  <2> HIDE DEF K
  <2> QED
      BY <2>1, LeastNat
<1>5. m \in Nat /\ m <= Len(s) /\ (m = Len(s) \/ s[m + 1] # Space)
    BY <1>1, <1>2
<1>3. ASSUME NEW i \in 1..m PROVE s[i] = Space
  <2>1. i - 1 \in 0..Len(s) /\ i - 1 < m /\ i - 1 # Len(s) /\ (i - 1) + 1 = i
      BY <1>1, <1>5
  <2>2. i - 1 \notin K
    <3> HIDE DEF K
    <3>1. ~(m <= i - 1)
        BY <1>5, <2>1
    <3> QED
        BY <1>2, <3>1
  <2> QED
      BY <2>1, <2>2
<1>4. \E k \in 0..Len(s) : (\A i \in 1..k : s[i] = Space) /\ (k = Len(s) \/ s[k + 1] # Space)
  <2>1. m \in 0..Len(s)
      BY <1>1, <1>5
  <2> QED
      BY <1>3, <1>5, <2>1
<1>6. /\ Spaces(s) \in 0..Len(s) /\ \A i \in 1..Spaces(s) : s[i] = Space
      /\ Spaces(s) = Len(s) \/ s[Spaces(s) + 1] # Space
    BY <1>4 DEF Spaces
<1> QED
    BY <1>1, <1>6

\* There is one number of leading spaces.
LEMMA SpacesIs ==
    ASSUME NEW s \in Seq(Nat), NEW k \in 0..Len(s),
           \A i \in 1..k : s[i] = Space, k = Len(s) \/ s[k + 1] # Space
    PROVE  Spaces(s) = k
<1>1. Len(s) \in Nat /\ k \in Nat /\ Spaces(s) \in Nat /\ Spaces(s) <= Len(s)
    BY SeqFacts, SpacesFacts
<1>2. CASE k < Spaces(s)
  <2>1. k + 1 \in 1..Spaces(s) /\ k # Len(s)
      BY <1>1, <1>2
  <2> QED
      BY <2>1, SpacesFacts
<1>3. CASE Spaces(s) < k
  <2>1. Spaces(s) + 1 \in 1..k /\ Spaces(s) < Len(s)
      BY <1>1, <1>3
  <2> QED
      BY <2>1, SpacesFacts
<1> QED
    BY <1>1, <1>2, <1>3

\* The scan stops at the first byte it can stop at.
LEMMA StopFacts ==
    ASSUME NEW s \in Seq(Nat), Stops(s) # {}
    PROVE  /\ Stop(s) \in 1..Len(s)
           /\ s[Stop(s)] = Malformed \/ IsLast(s[Stop(s)])
           /\ \A i \in 1..(Stop(s) - 1) : s[i] # Malformed /\ ~IsLast(s[i])
           /\ Spaces(s) < Stop(s)
<1>1. Len(s) \in Nat
    BY SeqFacts
<1>2. PICK m \in Stops(s) : \A j \in Stops(s) : m <= j
  <2>1. Stops(s) \subseteq Nat
      BY <1>1 DEF Stops
  <2> QED
      BY <2>1, LeastNat
<1>3. Stop(s) \in Stops(s) /\ \A j \in Stops(s) : Stop(s) <= j
    BY <1>2 DEF Stop
<1>4. Stop(s) \in 1..Len(s) /\ (s[Stop(s)] = Malformed \/ IsLast(s[Stop(s)]))
    BY <1>3 DEF Stops
<1>5. ASSUME NEW i \in 1..(Stop(s) - 1) PROVE s[i] # Malformed /\ ~IsLast(s[i])
  <2>1. i \in 1..Len(s) /\ ~(Stop(s) <= i)
      BY <1>1, <1>4
  <2>2. i \notin Stops(s)
      BY <1>3, <2>1
  <2> QED
      BY <2>1, <2>2 DEF Stops
<1>6. Spaces(s) < Stop(s)
  <2>1. s[Stop(s)] # Space
      BY <1>4 DEF Space, Malformed, IsLast
  <2>2. Stop(s) \notin 1..Spaces(s)
      BY <2>1, SpacesFacts
  <2>3. Spaces(s) \in Nat /\ Stop(s) \in Nat /\ 1 <= Stop(s)
      BY <1>1, <1>4, SpacesFacts
  <2> QED
      BY <2>2, <2>3
<1> QED
    BY <1>4, <1>5, <1>6

\* The bytes of the text.
LEMMA InputFacts ==
    ASSUME source \in Source
    PROVE  Input \in Seq(Nat) /\ Len(Input) \in Nat /\ \A i \in 1..Len(Input) : Input[i] \in Nat
<1>1. Input \in Texts
    BY DEF Source, Input
<1>2. Input \in Seq(Nat)
    BY <1>1 DEF Texts
<1> QED
    BY <1>2, SeqFacts

\* The k-th value has one end.
LEMMA EndOfIs ==
    ASSUME source \in Source, NEW k \in Nat, NEW e, IsEnd(k, e)
    PROVE  EndOf(k) = e
<1> DEFINE L(i) == {j \in 1..i : IsLast(Input[j])}
<1>1. Len(Input) \in Nat
    BY InputFacts
<1>2. ASSUME NEW i \in Nat PROVE IsFiniteSet(L(i))
  <2>1. IsFiniteSet(1..i) /\ L(i) \subseteq 1..i
      BY FS_Interval
  <2> HIDE DEF L
  <2> QED
      BY <2>1, FS_Subset
<1>3. ASSUME NEW a \in 0..Len(Input), NEW b \in 1..Len(Input), a < b, IsLast(Input[b]),
             Cardinality(L(a)) = Cardinality(L(b))
      PROVE  FALSE
  <2>1. L(a) \subseteq L(b) /\ b \in L(b) /\ b \notin L(a)
      BY <1>1, <1>3
  <2>2. IsFiniteSet(L(a)) /\ IsFiniteSet(L(b))
      BY <1>1, <1>2
  <2> HIDE DEF L
  <2> QED
      BY <1>3, <2>1, <2>2, FS_Subset
<1>4. e \in 0..Len(Input) /\ (e # 0 => IsLast(Input[e])) /\ Cardinality(L(e)) = k
    BY DEF IsEnd
<1>5. CASE k = 0
  <2>1. Cardinality(L(0)) = 0
    <3>1. L(0) = {}
        OBVIOUS
    <3> HIDE DEF L
    <3> QED
        BY <3>1, FS_EmptySet
  <2>2. e = 0
    <3> HIDE DEF L
    <3> QED
        BY <1>1, <1>3, <1>4, <1>5, <2>1
  <2> QED
      BY <1>5, <2>2 DEF EndOf
<1>6. CASE k # 0
  <2>1. e # 0
    <3>1. L(0) = {}
        OBVIOUS
    <3> HIDE DEF L
    <3> QED
        BY <1>4, <1>6, <3>1, FS_EmptySet
  <2>2. e \in 1..Len(Input) /\ IsLast(Input[e])
      BY <1>1, <1>4, <2>1
  <2>3. ASSUME NEW i \in 1..Len(Input), IsLast(Input[i]), Cardinality(L(i)) = k
        PROVE  i = e
    <3> HIDE DEF L
    <3>1. i \in 0..Len(Input) /\ e \in 0..Len(Input) /\ i \in Nat /\ e \in Nat
        BY <1>1, <2>2
    <3>2. ~(i < e)
        BY <1>3, <1>4, <2>2, <2>3, <3>1
    <3>3. ~(e < i)
        BY <1>3, <1>4, <2>2, <2>3, <3>1
    <3> QED
        BY <3>1, <3>2, <3>3
  <2>4. EndOf(k) = CHOOSE i \in 1..Len(Input) : IsLast(Input[i]) /\ Cardinality(L(i)) = k
      BY <1>6 DEF EndOf
  <2> HIDE DEF L
  <2> QED
      BY <1>4, <2>2, <2>3, <2>4
<1> QED
    BY <1>5, <1>6

\* The first byte that can end a value behind the k-th ends the next one.
LEMMA NextEnd ==
    ASSUME source \in Source, NEW k \in Nat, NEW e, IsEnd(k, e), NEW b \in 1..Len(Input),
           e < b, IsLast(Input[b]), \A i \in (e + 1)..(b - 1) : ~IsLast(Input[i])
    PROVE  IsEnd(k + 1, b)
<1> DEFINE L(i) == {j \in 1..i : IsLast(Input[j])}
<1>1. Len(Input) \in Nat /\ e \in Nat /\ e <= Len(Input) /\ b \in Nat
    BY InputFacts DEF IsEnd
<1>2. L(b) = L(e) \cup {b} /\ b \notin L(e)
    BY <1>1
<1>3. IsFiniteSet(L(e))
  <2>1. IsFiniteSet(1..e) /\ L(e) \subseteq 1..e
      BY <1>1, FS_Interval
  <2> HIDE DEF L
  <2> QED
      BY <2>1, FS_Subset
<1>4. Cardinality(L(e)) = k
    BY DEF IsEnd
<1>5. Cardinality(L(b)) = k + 1
  <2> HIDE DEF L
  <2> QED
      BY <1>2, <1>3, <1>4, FS_AddElement
<1> QED
    BY <1>1, <1>5 DEF IsEnd
-----------------------------------------------------------------------------------
(* The buffer.                                                                     *)

\* The types of the state's parts.
LEMMA TypesOf ==
    ASSUME TypeInv
    PROVE  /\ MinRead \in Nat \ {0} /\ source \in Source
           /\ mem \in Seq(Seq(Nat)) /\ Len(mem) \in Nat
           /\ \A b \in 1..Len(mem) : mem[b] \in Seq(Nat) /\ Len(mem[b]) \in Nat
           /\ dec.buf \in Nat /\ dec.len \in Nat /\ dec.scanp \in Nat /\ dec.scanned \in Nat
           /\ inp.pending \in Seq(Nat) /\ inp.read \in Nat
<1>1. MinRead \in Nat \ {0} /\ source \in Source
    BY StreamAssumption DEF TypeInv
<1>2. mem \in Seq(Seq(Nat)) /\ Len(mem) \in Nat /\ \A b \in 1..Len(mem) : mem[b] \in Seq(Nat)
    BY LenProperties, ElementOfSeq DEF TypeInv
<1>3. /\ dec.buf \in Nat /\ dec.len \in Nat /\ dec.scanp \in Nat /\ dec.scanned \in Nat
      /\ inp.pending \in Seq(Nat) /\ inp.read \in Nat
    BY DEF TypeInv, DecType
<1>4. \A b \in 1..Len(mem) : Len(mem[b]) \in Nat
    BY <1>2, LenProperties
<1> QED
    BY <1>1, <1>2, <1>3, <1>4

\* The unread bytes of the buffer, one by one.
LEMMA ContentsFacts ==
    ASSUME TypeInv, BufferInv
    PROVE  /\ Contents(dec) \in Seq(Nat) /\ Len(Contents(dec)) = dec.len - dec.scanp
           /\ Len(Contents(dec)) \in Nat
           /\ dec.buf # 0 =>
                \A i \in 1..Len(Contents(dec)) : Contents(dec)[i] = mem[dec.buf][dec.scanp + i]
<1>1. CASE dec.buf = 0
  <2>1. Contents(dec) = <<>> /\ dec.len = 0 /\ dec.scanp = 0
      BY <1>1, TypesOf DEF Contents, BufferInv
  <2> QED
      BY <1>1, <2>1, EmptySeq
<1>2. CASE dec.buf # 0
  <2>1. dec.buf \in 1..Len(mem) /\ dec.scanp <= dec.len /\ dec.len <= Len(mem[dec.buf])
      BY <1>2, TypesOf DEF BufferInv
  <2>2. Contents(dec) = SubSeq(mem[dec.buf], dec.scanp + 1, dec.len)
      BY <1>2 DEF Contents
  <2>3. \A i \in (dec.scanp + 1)..dec.len : mem[dec.buf][i] \in Nat
    <3>1. mem[dec.buf] \in Seq(Nat) /\ dec.scanp \in Nat /\ dec.len \in Nat
        BY <2>1, TypesOf
    <3>2. ASSUME NEW i \in (dec.scanp + 1)..dec.len PROVE i \in 1..Len(mem[dec.buf])
        BY <2>1, <3>1, TypesOf
    <3> QED
        BY <3>1, <3>2, ElementOfSeq
  <2> DEFINE m == mem[dec.buf]
             a == dec.scanp + 1
             z == dec.len
  <2>4. a \in Int /\ z \in Int /\ a <= z + 1 /\ a >= 1
      BY <2>1, TypesOf
  <2>5. \A i \in a..z : m[i] \in Nat
      BY <2>3
  <2> HIDE DEF m, a, z
  <2>6. /\ SubSeq(m, a, z) \in Seq(Nat)
        /\ Len(SubSeq(m, a, z)) = IF a <= z THEN z - a + 1 ELSE 0
        /\ \A i \in 1..(z - a + 1) : SubSeq(m, a, z)[i] = m[a + i - 1]
      BY <2>4, <2>5, SubSeqProperties
  <2>7. Len(SubSeq(m, a, z)) = z - a + 1
      BY <2>4, <2>6
  <2>8. /\ Contents(dec) \in Seq(Nat) /\ Len(Contents(dec)) = z - a + 1
        /\ \A i \in 1..(z - a + 1) : Contents(dec)[i] = m[a + i - 1]
      BY <2>2, <2>6, <2>7 DEF m, a, z
  <2>9. z - a + 1 = dec.len - dec.scanp /\ z - a + 1 \in Nat
      BY <2>1, TypesOf DEF a, z
  <2>10. \A i \in 1..(z - a + 1) : m[a + i - 1] = mem[dec.buf][dec.scanp + i]
    <3>1. \A i \in 1..(z - a + 1) : a + i - 1 = dec.scanp + i
        BY <2>9, TypesOf DEF a
    <3> QED
        BY <3>1 DEF m
  <2> QED
      BY <2>8, <2>9, <2>10
<1> QED
    BY <1>1, <1>2

\* refill keeps the unread bytes, makes room, and touches no other buffer.
LEMMA RefillFacts ==
    ASSUME TypeInv, BufferInv, NEW r, r = Refilled
    PROVE  /\ r.mem \in Seq(Seq(Nat)) /\ Len(r.mem) \in Nat /\ Len(mem) <= Len(r.mem)
           /\ r.buf \in 1..Len(r.mem) /\ r.mem[r.buf] \in Seq(Nat)
           /\ Len(Contents(dec)) <= Len(r.mem[r.buf]) /\ Len(r.mem[r.buf]) \in Nat
           /\ \A i \in 1..Len(Contents(dec)) : r.mem[r.buf][i] = Contents(dec)[i]
           /\ \A b \in 1..Len(mem) : b # dec.buf => r.mem[b] = mem[b] /\ b # r.buf
           /\ \A b \in 1..Len(mem) : Len(r.mem[b]) = Len(mem[b])
<1> DEFINE s == Contents(dec)
           cap == IF dec.buf = 0 THEN 0 ELSE Len(mem[dec.buf])
           old == Slid(mem, dec)
           new == [i \in 1..(2 * cap + MinRead) |-> IF i <= Len(s) THEN s[i] ELSE Space]
<1>1. s \in Seq(Nat) /\ Len(s) \in Nat /\ (\A i \in 1..Len(s) : s[i] \in Nat)
    BY ContentsFacts, SeqFacts
<1>2. cap \in Nat /\ Len(s) <= cap
  <2>1. CASE dec.buf = 0
      BY <2>1, TypesOf, ContentsFacts DEF BufferInv
  <2>2. CASE dec.buf # 0
    <3>1. dec.buf \in 1..Len(mem) /\ dec.len <= Len(mem[dec.buf])
        BY <2>2, TypesOf DEF BufferInv
    <3>2. cap \in Nat /\ dec.len <= cap
        BY <2>2, <3>1, TypesOf
    <3>3. Len(s) = dec.len - dec.scanp /\ dec.len \in Nat /\ dec.scanp \in Nat
        BY ContentsFacts, TypesOf
    <3> HIDE DEF cap, s
    <3> QED
        BY <3>2, <3>3
  <2> QED
      BY <2>1, <2>2
<1>3. /\ old \in Seq(Seq(Nat)) /\ Len(old) = Len(mem)
      /\ \A b \in 1..Len(mem) : b # dec.buf => old[b] = mem[b]
      /\ \A b \in 1..Len(mem) : Len(old[b]) = Len(mem[b])
      /\ dec.buf # 0 => \A i \in 1..Len(s) : old[dec.buf][i] = s[i]
  <2>1. CASE dec.buf = 0
    <3>1. old = mem
        BY <2>1 DEF Slid
    <3> QED
        BY <2>1, <3>1, TypesOf
  <2>2. CASE dec.buf # 0
    <3> DEFINE b0 == dec.buf
               tail == SubSeq(mem[b0], Len(s) + 1, Len(mem[b0]))
               row == s \o tail
    <3>1. b0 \in 1..Len(mem) /\ mem[b0] \in Seq(Nat) /\ Len(mem[b0]) \in Nat /\ cap = Len(mem[b0])
        BY <2>2, TypesOf DEF BufferInv
    <3>2. old = [mem EXCEPT ![b0] = row]
        BY <2>2 DEF Slid
    <3>3. tail \in Seq(Nat) /\ Len(tail) = Len(mem[b0]) - Len(s)
      <4>1. \A i \in (Len(s) + 1)..Len(mem[b0]) : mem[b0][i] \in Nat
          BY <1>1, <3>1, ElementOfSeq
      <4>2. Len(s) + 1 \in Int /\ Len(mem[b0]) \in Int
          BY <1>1, <3>1
      <4> DEFINE m == mem[b0]
      <4> HIDE DEF s, b0, m
      <4>3. /\ SubSeq(m, Len(s) + 1, Len(m)) \in Seq(Nat)
            /\ Len(SubSeq(m, Len(s) + 1, Len(m))) =
                 IF Len(s) + 1 <= Len(m) THEN Len(m) - (Len(s) + 1) + 1 ELSE 0
          BY <4>1, <4>2, SubSeqProperties DEF m
      <4> QED
          BY <1>1, <1>2, <3>1, <4>3 DEF m
    <3> HIDE DEF s, tail
    <3>4. /\ row \in Seq(Nat) /\ Len(row) = Len(mem[b0])
          /\ \A i \in 1..Len(s) : row[i] = s[i]
      <4>1. /\ row \in Seq(Nat) /\ Len(row) = Len(s) + Len(tail)
            /\ \A i \in 1..Len(s) + Len(tail) :
                 row[i] = IF i <= Len(s) THEN s[i] ELSE tail[i - Len(s)]
          BY <1>1, <3>3, ConcatProperties
      <4> QED
          BY <1>1, <3>1, <3>3, <4>1
    <3> HIDE DEF row, old
    <3>5. /\ old \in Seq(Seq(Nat)) /\ Len(old) = Len(mem)
          /\ \A j \in 1..Len(mem) : old[j] = IF j = b0 THEN row ELSE mem[j]
        BY <3>1, <3>2, <3>4, TypesOf, ExceptSeq
    <3> QED
        BY <3>1, <3>4, <3>5
  <2> QED
      BY <2>1, <2>2
<1>4. CASE cap - Len(s) >= MinRead
  <2>1. r = [mem |-> old, buf |-> dec.buf]
      BY <1>4 DEF Refilled
  <2>2. dec.buf \in 1..Len(mem) /\ cap = Len(mem[dec.buf])
    <3>1. dec.buf # 0
        BY <1>1, <1>2, <1>4, TypesOf
    <3> QED
        BY <3>1, TypesOf DEF BufferInv
  <2> HIDE DEF s, old
  <2>3. r.mem = old /\ r.buf = dec.buf
      BY <2>1
  <2>4. old[dec.buf] \in Seq(Nat) /\ Len(old[dec.buf]) = cap
      BY <1>3, <2>2, ElementOfSeq
  <2>5. Len(s) <= Len(r.mem[r.buf]) /\ \A i \in 1..Len(s) : r.mem[r.buf][i] = s[i]
      BY <1>2, <1>3, <2>2, <2>3, <2>4, TypesOf
  <2>6. \A b \in 1..Len(mem) : b # dec.buf => r.mem[b] = mem[b] /\ b # r.buf
      BY <1>3, <2>3
  <2>7. Len(r.mem) = Len(mem) /\ \A b \in 1..Len(mem) : Len(r.mem[b]) = Len(mem[b])
      BY <1>3, <2>3
  <2> QED
      BY <1>2, <1>3, <2>2, <2>3, <2>4, <2>5, <2>6, <2>7, TypesOf DEF s
<1>5. CASE ~(cap - Len(s) >= MinRead)
  <2>1. r = [mem |-> Append(old, new), buf |-> Len(mem) + 1]
      BY <1>5 DEF Refilled
  <2>2. new \in Seq(Nat) /\ Len(new) = 2 * cap + MinRead /\ (\A i \in 1..Len(s) : new[i] = s[i])
    <3>1. 2 * cap + MinRead \in Nat /\ Len(s) <= 2 * cap + MinRead
      <4>1. MinRead \in Nat /\ cap \in Nat /\ Len(s) \in Nat /\ Len(s) <= cap
          BY <1>1, <1>2, TypesOf
      <4> HIDE DEF cap, s
      <4> QED
          BY <4>1
    <3>2. new \in [1..(2 * cap + MinRead) -> Nat]
        BY <1>1, <3>1 DEF Space
    <3>3. \A i \in 1..Len(s) : new[i] = s[i]
        BY <1>1, <3>1
    <3> HIDE DEF new, cap
    <3> QED
        BY <3>1, <3>2, <3>3
  <2> HIDE DEF s, old, new
  <2>3. r.mem = Append(old, new) /\ r.buf = Len(mem) + 1
      BY <2>1
  <2>4. /\ Append(old, new) \in Seq(Seq(Nat)) /\ Len(Append(old, new)) = Len(mem) + 1
        /\ \A i \in 1..Len(mem) : Append(old, new)[i] = old[i]
        /\ Append(old, new)[Len(mem) + 1] = new
      BY <1>3, <2>2, TypesOf, AppendProperties
  <2>5. /\ r.mem \in Seq(Seq(Nat)) /\ Len(r.mem) = Len(mem) + 1 /\ r.mem[r.buf] = new
        /\ \A i \in 1..Len(mem) : r.mem[i] = old[i]
      BY <2>3, <2>4
  <2>6. \A b \in 1..Len(mem) : b # r.buf
      BY <2>3, TypesOf
  <2>7. \A b \in 1..Len(mem) : b # dec.buf => r.mem[b] = mem[b] /\ b # r.buf
      BY <1>3, <2>5, <2>6
  <2>8. \A b \in 1..Len(mem) : Len(r.mem[b]) = Len(mem[b])
      BY <1>3, <2>5
  <2>9. r.buf \in 1..Len(r.mem) /\ Len(r.mem) \in Nat /\ Len(mem) <= Len(r.mem)
      BY <2>3, <2>5, TypesOf
  <2>10. Len(s) <= Len(new) /\ Len(new) \in Nat
      BY <1>1, <1>2, <2>2, TypesOf
  <2>11. \A i \in 1..Len(s) : r.mem[r.buf][i] = s[i]
      BY <2>2, <2>5
  <2> QED
      BY <2>2, <2>5, <2>7, <2>8, <2>9, <2>10, <2>11 DEF s
<1> QED
    BY <1>4, <1>5

\* What a Read returned follows the unread bytes.
LEMMA BufferedFacts ==
    ASSUME TypeInv, BufferInv, NEW c \in Seq(Nat), Buffered(c),
           Len(c) <= Len(Refilled.mem[Refilled.buf]) - Len(Contents(dec))
    PROVE  /\ mem' \in Seq(Seq(Nat)) /\ Len(mem) <= Len(mem') /\ dec' \in DecType /\ BufferInv'
           /\ Contents(dec)' = Contents(dec) \o c
           /\ Offset(dec)' = Offset(dec)
           /\ dec'.toggles = dec.toggles /\ dec'.failed = dec.failed
           /\ \A b \in 1..Len(mem) : b # dec.buf => mem'[b] = mem[b] /\ b # dec'.buf
           /\ \A b \in 1..Len(mem) : Len(mem'[b]) = Len(mem[b])
<1> DEFINE s == Contents(dec)
           n == Len(s)
           k == n + Len(c)
<1>1. PICK r : r = Refilled
    OBVIOUS
<1> DEFINE base == r.mem[r.buf]
           row == [i \in DOMAIN base |-> IF i \in (n + 1)..(n + Len(c)) THEN c[i - n] ELSE base[i]]
<1>2. /\ r.mem \in Seq(Seq(Nat)) /\ Len(r.mem) \in Nat /\ Len(mem) <= Len(r.mem)
      /\ r.buf \in 1..Len(r.mem) /\ base \in Seq(Nat) /\ Len(base) \in Nat
      /\ \A i \in 1..n : base[i] = s[i]
      /\ \A b \in 1..Len(mem) : b # dec.buf => r.mem[b] = mem[b] /\ b # r.buf
      /\ \A b \in 1..Len(mem) : Len(r.mem[b]) = Len(mem[b])
    BY <1>1, RefillFacts
<1>3. s \in Seq(Nat) /\ n \in Nat /\ Len(c) \in Nat /\ k \in Nat /\ k <= Len(base)
  <2>1. n \in Nat /\ s \in Seq(Nat) /\ Len(c) \in Nat /\ Len(base) \in Nat
      BY <1>2, ContentsFacts, SeqFacts
  <2>2. Len(c) <= Len(base) - n
      BY <1>1
  <2> HIDE DEF n, base
  <2> QED
      BY <2>1, <2>2
<1>4. mem' = [r.mem EXCEPT ![r.buf] = row]
    BY <1>1 DEF Buffered
<1>5. dec' = [dec EXCEPT !.buf = r.buf, !.len = k, !.scanp = 0, !.scanned = Offset(dec)]
    BY <1>1 DEF Buffered
<1> HIDE DEF s, n, k
<1>6. dec' \in DecType /\ dec'.buf = r.buf /\ dec'.len = k /\ dec'.scanp = 0
      /\ dec'.scanned = Offset(dec) /\ dec'.toggles = dec.toggles /\ dec'.failed = dec.failed
  <2> HIDE DEF base, row
  <2>1. r.buf \in Nat
      BY <1>2
  <2>2. Offset(dec) \in Nat /\ r.buf \in Nat /\ dec \in DecType
    <3>1. dec \in DecType
        BY DEF TypeInv
    <3> QED
        BY <2>1, <3>1, TypesOf DEF Offset
  <2> QED
      BY <1>3, <1>5, <2>2 DEF DecType
<1>7. /\ row \in Seq(Nat) /\ Len(row) = Len(base)
      /\ \A i \in 1..Len(base) : row[i] = IF i \in (n + 1)..k THEN c[i - n] ELSE base[i]
  <2>1. DOMAIN base = 1..Len(base) /\ \A i \in 1..Len(base) : base[i] \in Nat
      BY <1>2, SeqFacts
  <2>2. ASSUME NEW i \in 1..Len(base), i \in (n + 1)..k PROVE c[i - n] \in Nat
    <3>1. i - n \in 1..Len(c)
        BY <1>3, <2>2 DEF k
    <3> QED
        BY <3>1, SeqFacts
  <2>3. row = [i \in 1..Len(base) |-> IF i \in (n + 1)..k THEN c[i - n] ELSE base[i]]
      BY <2>1 DEF k
  <2>4. row \in [1..Len(base) -> Nat]
      BY <2>1, <2>2, <2>3
  <2> HIDE DEF row, base
  <2>5. row \in Seq(Nat) /\ Len(row) = Len(base)
    <3>1. Len(base) \in Nat
        BY <1>2
    <3>2. \A l \in Nat : row \in [1..l -> Nat] => row \in Seq(Nat) /\ Len(row) = l
        OBVIOUS
    <3> QED
        BY <2>4, <3>1, <3>2
  <2> QED
      BY <2>3, <2>5
<1> HIDE DEF row
<1>8. /\ mem' \in Seq(Seq(Nat)) /\ Len(mem') = Len(r.mem)
      /\ \A j \in 1..Len(r.mem) : mem'[j] = IF j = r.buf THEN row ELSE r.mem[j]
    BY <1>2, <1>4, <1>7, ExceptSeq
<1>9. mem'[dec'.buf] = row
    BY <1>2, <1>6, <1>8
<1>10. BufferInv'
  <2>1. dec'.buf # 0 /\ dec'.buf <= Len(mem') /\ dec'.scanp <= dec'.len
      BY <1>2, <1>3, <1>6, <1>8
  <2>2. dec'.len <= Len(mem'[dec'.buf])
      BY <1>3, <1>6, <1>7, <1>9
  <2> QED
      BY <2>1, <2>2 DEF BufferInv
<1>11. Contents(dec)' = s \o c
  <2>1. Contents(dec)' = SubSeq(row, 1, k)
    <3>1. dec'.buf # 0 /\ dec'.scanp + 1 = 1
        BY <1>2, <1>6
    <3> QED
        BY <1>6, <1>9, <3>1 DEF Contents
  <2>2. /\ SubSeq(row, 1, k) \in Seq(Nat) /\ Len(SubSeq(row, 1, k)) = k
        /\ \A i \in 1..k : SubSeq(row, 1, k)[i] = row[i]
    <3>1. \A i \in 1..k : row[i] \in Nat
      <4>1. \A i \in 1..k : i \in 1..Len(row)
          BY <1>2, <1>3, <1>7
      <4> QED
          BY <1>7, <4>1, SeqFacts
    <3>2. /\ SubSeq(row, 1, k) \in Seq(Nat)
          /\ Len(SubSeq(row, 1, k)) = IF 1 <= k THEN k - 1 + 1 ELSE 0
          /\ \A i \in 1..(k - 1 + 1) : SubSeq(row, 1, k)[i] = row[1 + i - 1]
        BY <1>3, <3>1, SubSeqProperties
    <3>3. k - 1 + 1 = k /\ \A i \in 1..k : 1 + i - 1 = i
        BY <1>3
    <3> QED
        BY <1>3, <3>2, <3>3
  <2>3. /\ s \o c \in Seq(Nat) /\ Len(s \o c) = k
        /\ \A i \in 1..k : (s \o c)[i] = IF i <= n THEN s[i] ELSE c[i - n]
      BY <1>3, ConcatProperties DEF n, k
  <2>4. ASSUME NEW i \in 1..k PROVE SubSeq(row, 1, k)[i] = (s \o c)[i]
    <3>1. i \in 1..Len(base) /\ i \in Nat
        BY <1>2, <1>3
    <3>2. row[i] = IF i \in (n + 1)..k THEN c[i - n] ELSE base[i]
        BY <1>7, <3>1
    <3>3. CASE i <= n
      <4>1. i \in 1..n /\ i \notin (n + 1)..k
          BY <1>3, <3>1, <3>3
      <4> QED
          BY <1>2, <2>2, <2>3, <3>2, <3>3, <4>1
    <3>4. CASE ~(i <= n)
      <4>1. i \in (n + 1)..k
          BY <1>3, <3>1, <3>4
      <4> QED
          BY <2>2, <2>3, <3>2, <3>4, <4>1
    <3> QED
        BY <3>3, <3>4
  <2> QED
      BY <2>1, <2>2, <2>3, <2>4, SeqEqual
<1>12. Offset(dec)' = Offset(dec)
  <2>1. Offset(dec) \in Nat
      BY TypesOf DEF Offset
  <2>2. Offset(dec)' = dec'.scanned + dec'.scanp
      BY DEF Offset
  <2> QED
      BY <1>6, <2>1, <2>2
<1>13. \A b \in 1..Len(mem) : b # dec.buf => mem'[b] = mem[b] /\ b # dec'.buf
  <2>1. \A b \in 1..Len(mem) : b \in 1..Len(r.mem)
      BY <1>2, TypesOf
  <2> QED
      BY <1>2, <1>6, <1>8, <2>1
<1>14. \A b \in 1..Len(mem) : Len(mem'[b]) = Len(mem[b])
  <2>1. \A b \in 1..Len(mem) : b \in 1..Len(r.mem)
      BY <1>2, TypesOf
  <2> QED
      BY <1>2, <1>7, <1>8, <2>1
<1> QED
    BY <1>2, <1>6, <1>8, <1>10, <1>11, <1>12, <1>13, <1>14 DEF s
-----------------------------------------------------------------------------------
(* What is left of a sequence.                                                     *)

Drop(t, n) == SubSeq(t, n + 1, Len(t))

\* The bytes behind the first n.
LEMMA DropFacts ==
    ASSUME NEW t \in Seq(Nat), NEW n \in 0..Len(t)
    PROVE  /\ Drop(t, n) \in Seq(Nat) /\ Len(Drop(t, n)) = Len(t) - n /\ Len(Drop(t, n)) \in Nat
           /\ \A i \in 1..(Len(t) - n) : Drop(t, n)[i] = t[n + i]
<1>1. Len(t) \in Nat /\ n \in Nat /\ n <= Len(t) /\ \A i \in 1..Len(t) : t[i] \in Nat
    BY SeqFacts
<1>2. \A i \in (n + 1)..Len(t) : t[i] \in Nat
    BY <1>1
<1>3. /\ Drop(t, n) \in Seq(Nat)
      /\ Len(Drop(t, n)) = IF n + 1 <= Len(t) THEN Len(t) - (n + 1) + 1 ELSE 0
      /\ \A i \in 1..(Len(t) - (n + 1) + 1) : Drop(t, n)[i] = t[(n + 1) + i - 1]
    BY <1>1, <1>2, SubSeqProperties DEF Drop
<1>4. Len(t) - (n + 1) + 1 = Len(t) - n /\ \A i \in 1..(Len(t) - n) : (n + 1) + i - 1 = n + i
    BY <1>1
<1>5. Len(Drop(t, n)) = Len(t) - n /\ Len(t) - n \in Nat
    BY <1>1, <1>3
<1>6. \A i \in 1..(Len(t) - n) : Drop(t, n)[i] = t[n + i]
    BY <1>3, <1>4
<1> QED
    BY <1>3, <1>5, <1>6

\* The first n bytes, and those behind them, are all.
LEMMA FrontFacts ==
    ASSUME NEW t \in Seq(Nat), NEW n \in 0..Len(t)
    PROVE  /\ SubSeq(t, 1, n) \in Seq(Nat) /\ Len(SubSeq(t, 1, n)) = n
           /\ \A i \in 1..n : SubSeq(t, 1, n)[i] = t[i]
           /\ SubSeq(t, 1, n) \o Drop(t, n) = t
<1>1. Len(t) \in Nat /\ n \in Nat /\ n <= Len(t) /\ \A i \in 1..Len(t) : t[i] \in Nat
    BY SeqFacts
<1>2. \A i \in 1..n : t[i] \in Nat
    BY <1>1
<1>3. /\ SubSeq(t, 1, n) \in Seq(Nat)
      /\ Len(SubSeq(t, 1, n)) = IF 1 <= n THEN n - 1 + 1 ELSE 0
      /\ \A i \in 1..(n - 1 + 1) : SubSeq(t, 1, n)[i] = t[1 + i - 1]
    BY <1>1, <1>2, SubSeqProperties
<1>4. n - 1 + 1 = n /\ \A i \in 1..n : 1 + i - 1 = i
    BY <1>1
<1>5. SubSeq(t, 1, n) \o Drop(t, n) = t
  <2>1. 1 \in 1..(Len(t) + 1) /\ n \in (1 - 1)..Len(t) /\ Len(t) \in n..Len(t)
      BY <1>1
  <2>2. SubSeq(t, 1, n) \o SubSeq(t, n + 1, Len(t)) = SubSeq(t, 1, Len(t))
      BY <2>1, ConcatAdjacentSubSeq
  <2> QED
      BY <2>2, SubSeqFull DEF Drop
<1> QED
    BY <1>1, <1>3, <1>4, <1>5

\* Skipping twice.
LEMMA DropDrop ==
    ASSUME NEW t \in Seq(Nat), NEW n \in 0..Len(t), NEW m \in 0..(Len(t) - n)
    PROVE  Drop(Drop(t, n), m) = Drop(t, n + m)
<1>1. Len(t) \in Nat /\ n + m \in 0..Len(t) /\ m \in 0..Len(Drop(t, n)) /\ n \in Nat /\ m \in Nat
    BY SeqFacts, DropFacts
<1>2. /\ Drop(Drop(t, n), m) \in Seq(Nat) /\ Len(Drop(Drop(t, n), m)) = Len(t) - n - m
      /\ \A i \in 1..(Len(t) - n - m) : Drop(Drop(t, n), m)[i] = Drop(t, n)[m + i]
    BY <1>1, DropFacts
<1>3. /\ Drop(t, n + m) \in Seq(Nat) /\ Len(Drop(t, n + m)) = Len(t) - (n + m)
      /\ \A i \in 1..(Len(t) - (n + m)) : Drop(t, n + m)[i] = t[(n + m) + i]
    BY <1>1, DropFacts
<1>4. ASSUME NEW i \in 1..(Len(t) - n - m)
      PROVE  Drop(Drop(t, n), m)[i] = Drop(t, n + m)[i]
  <2>1. m + i \in 1..(Len(t) - n) /\ i \in 1..(Len(t) - (n + m)) /\ n + (m + i) = (n + m) + i
      BY <1>1
  <2>2. Drop(t, n)[m + i] = t[n + (m + i)]
      BY <2>1, DropFacts
  <2> QED
      BY <1>2, <1>3, <2>1, <2>2
<1>5. Len(t) - n - m = Len(t) - (n + m)
    BY <1>1
<1> QED
    BY <1>2, <1>3, <1>4, <1>5, SeqEqual

\* Skipping within the first part.
LEMMA DropConcat ==
    ASSUME NEW s \in Seq(Nat), NEW t \in Seq(Nat), NEW n \in 0..Len(s)
    PROVE  Drop(s \o t, n) = Drop(s, n) \o t
<1> DEFINE u == Drop(s, n)
<1>1. Len(s) \in Nat /\ Len(t) \in Nat /\ n \in Nat /\ n <= Len(s)
    BY SeqFacts
<1>2. /\ s \o t \in Seq(Nat) /\ Len(s \o t) = Len(s) + Len(t)
      /\ \A i \in 1..(Len(s) + Len(t)) : (s \o t)[i] = IF i <= Len(s) THEN s[i] ELSE t[i - Len(s)]
    BY ConcatProperties
<1>3. u \in Seq(Nat) /\ Len(u) = Len(s) - n /\ \A i \in 1..(Len(s) - n) : u[i] = s[n + i]
    BY DropFacts
<1>4. n \in 0..Len(s \o t)
    BY <1>1, <1>2
<1>5. /\ Drop(s \o t, n) \in Seq(Nat) /\ Len(Drop(s \o t, n)) = Len(s) + Len(t) - n
      /\ \A i \in 1..(Len(s) + Len(t) - n) : Drop(s \o t, n)[i] = (s \o t)[n + i]
  <2> DEFINE w == s \o t
  <2>1. w \in Seq(Nat) /\ n \in 0..Len(w) /\ Len(w) = Len(s) + Len(t)
      BY <1>2, <1>4
  <2> HIDE DEF w
  <2>2. /\ Drop(w, n) \in Seq(Nat) /\ Len(Drop(w, n)) = Len(w) - n
        /\ \A i \in 1..(Len(w) - n) : Drop(w, n)[i] = w[n + i]
      BY <2>1, DropFacts
  <2> QED
      BY <2>1, <2>2 DEF w
<1> HIDE DEF u
<1>6. /\ u \o t \in Seq(Nat) /\ Len(u \o t) = Len(s) - n + Len(t)
      /\ \A i \in 1..(Len(s) - n + Len(t)) :
           (u \o t)[i] = IF i <= Len(s) - n THEN u[i] ELSE t[i - (Len(s) - n)]
  <2>1. /\ u \o t \in Seq(Nat) /\ Len(u \o t) = Len(u) + Len(t)
        /\ \A i \in 1..(Len(u) + Len(t)) :
             (u \o t)[i] = IF i <= Len(u) THEN u[i] ELSE t[i - Len(u)]
      BY <1>3, ConcatProperties
  <2> QED
      BY <1>3, <2>1
<1>7. ASSUME NEW i \in 1..(Len(s) + Len(t) - n) PROVE Drop(s \o t, n)[i] = (u \o t)[i]
  <2>1. /\ n + i \in 1..(Len(s) + Len(t)) /\ i \in 1..(Len(s) - n + Len(t))
        /\ (n + i) - Len(s) = i - (Len(s) - n) /\ (n + i <= Len(s) <=> i <= Len(s) - n)
      BY <1>1
  <2>2. CASE i <= Len(s) - n
    <3>1. i \in 1..(Len(s) - n)
        BY <1>1, <2>2
    <3>2. Drop(s \o t, n)[i] = s[n + i] /\ (u \o t)[i] = u[i]
        BY <1>2, <1>5, <1>6, <2>1, <2>2
    <3> QED
        BY <1>3, <3>1, <3>2
  <2>3. CASE ~(i <= Len(s) - n)
      BY <1>2, <1>5, <1>6, <2>1, <2>3
  <2> QED
      BY <2>2, <2>3
<1>8. Len(s) + Len(t) - n = Len(s) - n + Len(t)
    BY <1>1
<1>9. Drop(s \o t, n) = u \o t
    BY <1>5, <1>6, <1>7, <1>8, SeqEqual
<1> QED
    BY <1>9 DEF u

\* Where the parentheses are does not matter.
LEMMA Assoc == \A s, t, u \in Seq(Nat) : (s \o t) \o u = s \o (t \o u)
    BY ConcatAssociative
-----------------------------------------------------------------------------------
(* The reader.                                                                     *)

\* The bytes not consumed yet: the buffered ones, those given back, the unread ones.
LEMMA RestFacts ==
    ASSUME TypeInv, BufferInv, inp.read <= Len(Input)
    PROVE  /\ Unread \in Seq(Nat) /\ Unread = Drop(Input, inp.read)
           /\ Len(Unread) = Len(Input) - inp.read /\ Len(Unread) \in Nat
           /\ inp.pending \o Unread \in Seq(Nat) /\ Rest \in Seq(Nat)
           /\ Rest = Contents(dec) \o (inp.pending \o Unread)
           /\ Len(Rest) = Len(Contents(dec)) + (Len(inp.pending) + Len(Unread))
           /\ \A i \in 1..Len(Contents(dec)) : Rest[i] = Contents(dec)[i]
<1> DEFINE s == Contents(dec)
           p == inp.pending
           u == Unread
<1>1. s \in Seq(Nat) /\ Len(s) \in Nat /\ p \in Seq(Nat) /\ Len(p) \in Nat
    BY ContentsFacts, TypesOf, SeqFacts
<1>2. Input \in Seq(Nat) /\ inp.read \in 0..Len(Input) /\ u = Drop(Input, inp.read)
    BY InputFacts, TypesOf DEF Unread, Drop
<1>3. u \in Seq(Nat) /\ Len(u) = Len(Input) - inp.read /\ Len(u) \in Nat
    BY <1>2, DropFacts
<1>4. Rest = (s \o p) \o u
    BY DEF Rest
<1> HIDE DEF s, p, u
<1>5. p \o u \in Seq(Nat) /\ Len(p \o u) = Len(p) + Len(u)
    BY <1>1, <1>3, ConcatProperties
<1>6. (s \o p) \o u = s \o (p \o u)
    BY <1>1, <1>3, Assoc
<1> DEFINE v == p \o u
<1> HIDE DEF v
<1>7. /\ s \o v \in Seq(Nat) /\ Len(s \o v) = Len(s) + Len(v)
      /\ \A i \in 1..(Len(s) + Len(v)) : (s \o v)[i] = IF i <= Len(s) THEN s[i] ELSE v[i - Len(s)]
    BY <1>1, <1>5, ConcatProperties DEF v
<1>8. \A i \in 1..Len(s) : (s \o v)[i] = s[i]
  <2>1. \A i \in 1..Len(s) : i \in 1..(Len(s) + Len(v)) /\ i <= Len(s)
      BY <1>1, <1>3, <1>5 DEF v
  <2> QED
      BY <1>7, <2>1
<1>9. Rest = s \o v /\ Len(v) = Len(p) + Len(u)
    BY <1>4, <1>5, <1>6 DEF v
<1>10. Rest \in Seq(Nat) /\ Len(Rest) = Len(s) + (Len(p) + Len(u)) /\ \A i \in 1..Len(s) : Rest[i] = s[i]
    BY <1>7, <1>8, <1>9
<1> QED
    BY <1>2, <1>3, <1>5, <1>9, <1>10 DEF s, p, u, v

\* Where the buffered bytes are in the text.
LEMMA TextFacts ==
    ASSUME TypeInv, BufferInv, TextInv, Alive
    PROVE  /\ Consumed \in 0..Len(Input) /\ Len(Input) \in Nat /\ inp.read \in 0..Len(Input)
           /\ Rest = Drop(Input, Consumed) /\ Len(Rest) = Len(Input) - Consumed
           /\ Consumed + Len(Contents(dec)) <= Len(Input)
           /\ \A i \in 1..Len(Contents(dec)) : Input[Consumed + i] = Contents(dec)[i]
           /\ inp.pending = <<>> => Consumed + Len(Contents(dec)) = inp.read
<1>1. /\ Consumed \in 0..Len(Input) /\ Len(Input) \in Nat /\ inp.read \in 0..Len(Input)
      /\ Rest = Drop(Input, Consumed) /\ Input \in Seq(Nat)
    BY TypesOf, InputFacts DEF TextInv, Drop
<1>2. Len(Rest) = Len(Input) - Consumed /\ \A i \in 1..(Len(Input) - Consumed) : Rest[i] = Input[Consumed + i]
    BY <1>1, DropFacts
<1>3. /\ Len(Rest) = Len(Contents(dec)) + (Len(inp.pending) + Len(Unread))
      /\ \A i \in 1..Len(Contents(dec)) : Rest[i] = Contents(dec)[i]
      /\ Len(Unread) \in Nat /\ Len(Unread) = Len(Input) - inp.read
  <2>1. inp.read <= Len(Input)
      BY <1>1
  <2> QED
      BY <2>1, RestFacts
<1>4. Len(Contents(dec)) \in Nat /\ Len(inp.pending) \in Nat
    BY ContentsFacts, TypesOf, SeqFacts
<1>5. Consumed + Len(Contents(dec)) <= Len(Input)
    BY <1>1, <1>2, <1>3, <1>4
<1>6. ASSUME NEW i \in 1..Len(Contents(dec)) PROVE Input[Consumed + i] = Contents(dec)[i]
  <2>1. i \in 1..(Len(Input) - Consumed)
      BY <1>1, <1>4, <1>5
  <2> QED
      BY <1>2, <1>3, <2>1
<1>7. inp.pending = <<>> => Consumed + Len(Contents(dec)) = inp.read
  <2>1. Len(<<>>) = 0
      BY EmptySeq
  <2> QED
      BY <1>1, <1>2, <1>3, <1>4, <2>1
<1> QED
    BY <1>1, <1>2, <1>5, <1>6, <1>7

\* A Read returns the first bytes of what there is, within the room of the buffer.
LEMMA ChunkFacts ==
    ASSUME TypeInv, BufferInv, inp.read <= Len(Input), NEW c \in Chunks
    PROVE  /\ c \in Seq(Nat) /\ Len(c) \in Nat
           /\ Len(c) <= Len(Refilled.mem[Refilled.buf]) - Len(Contents(dec))
           /\ LET from == IF inp.pending # <<>> THEN inp.pending ELSE Unread
              IN Len(c) <= Len(from) /\ c = SubSeq(from, 1, Len(c))
<1> DEFINE room == Len(Refilled.mem[Refilled.buf]) - Len(Contents(dec))
           from == IF inp.pending # <<>> THEN inp.pending ELSE Unread
           most == IF room < Len(from) THEN room ELSE Len(from)
<1>1. from \in Seq(Nat) /\ Len(from) \in Nat
    BY TypesOf, RestFacts, SeqFacts
<1>2. room \in Nat
    BY RefillFacts, ContentsFacts
<1>3. PICK n \in IF source.kind = "string" THEN {most} \ {0} ELSE 1..most : c = SubSeq(from, 1, n)
    BY DEF Chunks
<1>4. most \in Nat /\ most <= room /\ most <= Len(from)
  <2> HIDE DEF from, room
  <2> QED
      BY <1>1, <1>2
<1> HIDE DEF room, from, most
<1>5. n \in 0..Len(from) /\ n <= room
    BY <1>1, <1>2, <1>3, <1>4
<1>6. c \in Seq(Nat) /\ Len(c) = n
    BY <1>1, <1>3, <1>5, FrontFacts
<1> QED
    BY <1>1, <1>3, <1>5, <1>6 DEF room, from

\* Only a decoder without an error or an end behind it reads.
LEMMA WantsFacts ==
    ASSUME TypeInv, Wants
    PROVE  call.end = "no" /\ ~Idle /\ (call.op = "decode" => dec.failed = "no")
    BY DEF Wants, Scanned, Scan, Peek, Idle, TypeInv, DecType

\* A Read moves bytes from the reader to the buffer, and the rest stays.
LEMMA TakeFacts ==
    ASSUME TypeInv, BufferInv, CallInv, inp.read <= Len(Input), NEW c \in Chunks, Take(c),
           UNCHANGED source
    PROVE  /\ TypeInv' /\ BufferInv' /\ CallInv' /\ inp'.read <= Len(Input)
           /\ c \in Seq(Nat) /\ Contents(dec)' = Contents(dec) \o c
           /\ Offset(dec)' = Offset(dec) /\ Rest' = Rest
           /\ dec'.toggles = dec.toggles /\ dec'.failed = dec.failed /\ Wants
           /\ Len(mem) <= Len(mem') /\ \A b \in 1..Len(mem) : Len(mem'[b]) = Len(mem[b])
           /\ \A b \in 1..Len(mem) : b # dec.buf => mem'[b] = mem[b] /\ b # dec'.buf
<1>1. /\ c \in Seq(Nat) /\ Len(c) \in Nat
      /\ Len(c) <= Len(Refilled.mem[Refilled.buf]) - Len(Contents(dec))
    BY ChunkFacts
<1>2. Buffered(c) /\ Wants /\ UNCHANGED <<call, got, kept, changes>>
    BY DEF Take
<1>3. /\ mem' \in Seq(Seq(Nat)) /\ Len(mem) <= Len(mem') /\ dec' \in DecType /\ BufferInv'
      /\ Contents(dec)' = Contents(dec) \o c
      /\ Offset(dec)' = Offset(dec)
      /\ dec'.toggles = dec.toggles /\ dec'.failed = dec.failed
      /\ \A b \in 1..Len(mem) : b # dec.buf => mem'[b] = mem[b] /\ b # dec'.buf
      /\ \A b \in 1..Len(mem) : Len(mem'[b]) = Len(mem[b])
    BY <1>1, <1>2, BufferedFacts
<1>4. Input' = Input /\ Input \in Seq(Nat) /\ Len(Input) \in Nat
    BY TypesOf, InputFacts DEF Input
<1> DEFINE s == Contents(dec)
           p == inp.pending
           u == Unread
<1>5. s \in Seq(Nat) /\ p \in Seq(Nat) /\ u \in Seq(Nat) /\ u = Drop(Input, inp.read)
      /\ Len(u) = Len(Input) - inp.read
      /\ Rest = s \o (p \o u) /\ inp.read \in 0..Len(Input)
  <2>1. inp.read \in 0..Len(Input)
      BY <1>4, TypesOf
  <2> QED
      BY <2>1, ContentsFacts, RestFacts, TypesOf
<1>6. inp \in [pending : Seq(Nat), read : Nat]
    BY DEF TypeInv
<1>7. /\ inp' \in [pending : Seq(Nat), read : Nat] /\ inp'.read <= Len(Input)
      /\ c \o (inp'.pending \o Unread') = p \o u /\ Unread' \in Seq(Nat)
      /\ p = <<>> => inp'.pending = <<>>
  <2>1. CASE p = <<>>
    <3>1. inp' = [inp EXCEPT !.read = @ + Len(c)]
        BY <2>1 DEF Take
    <3>2. Len(c) <= Len(u) /\ c = SubSeq(u, 1, Len(c))
        BY <2>1, ChunkFacts
    <3>3. inp' \in [pending : Seq(Nat), read : Nat] /\ inp'.pending = p /\ inp'.read = inp.read + Len(c)
        BY <1>1, <1>6, <3>1
    <3>4. inp'.read <= Len(Input) /\ Len(c) \in 0..(Len(Input) - inp.read) /\ Len(c) \in 0..Len(u)
        BY <1>1, <1>4, <1>5, <3>2, <3>3
    <3>5. Unread' = Drop(u, Len(c))
      <4>1. Unread' = Drop(Input, inp.read + Len(c))
          BY <1>4, <3>3 DEF Unread, Drop
      <4> HIDE DEF u
      <4>2. Drop(Drop(Input, inp.read), Len(c)) = Drop(Input, inp.read + Len(c))
          BY <1>4, <1>5, <3>4, DropDrop
      <4> QED
          BY <1>5, <4>1, <4>2
    <3> HIDE DEF u, p
    <3>6. c \o Drop(u, Len(c)) = u
        BY <1>5, <3>2, <3>4, FrontFacts
    <3>7. <<>> \o u = u /\ Drop(u, Len(c)) \in Seq(Nat)
        BY <1>5, <3>4, ConcatEmptySeq, DropFacts
    <3>8. <<>> \o Drop(u, Len(c)) = Drop(u, Len(c))
        BY <3>7, ConcatEmptySeq
    <3> QED
        BY <2>1, <3>3, <3>4, <3>5, <3>6, <3>7, <3>8
  <2>2. CASE p # <<>>
    <3>1. inp' = [inp EXCEPT !.pending = Drop(inp.pending, Len(c))]
        BY <2>2 DEF Take, Drop
    <3>2. Len(c) <= Len(p) /\ c = SubSeq(p, 1, Len(c))
        BY <2>2, ChunkFacts
    <3>3. Len(p) \in Nat /\ Len(c) \in 0..Len(p)
        BY <1>1, <1>5, <3>2, SeqFacts
    <3> DEFINE q == Drop(p, Len(c))
    <3>4. q \in Seq(Nat)
      <4> HIDE DEF p
      <4> QED
          BY <1>5, <3>3, DropFacts
    <3>5. inp' \in [pending : Seq(Nat), read : Nat] /\ inp'.pending = q /\ inp'.read = inp.read
      <4>1. inp' = [inp EXCEPT !.pending = q]
          BY <3>1
      <4> HIDE DEF q
      <4> QED
          BY <1>6, <3>4, <4>1
    <3>6. Unread' = u
        BY <1>4, <3>5 DEF Unread
    <3> HIDE DEF p, u
    <3>7. c \o q = p
        BY <1>5, <3>2, <3>3, FrontFacts
    <3>9. p \in Seq(Nat) /\ u \in Seq(Nat)
        BY <1>5
    <3> HIDE DEF q
    <3>8. (c \o q) \o u = c \o (q \o u)
        BY <1>1, <3>4, <3>9, Assoc
    <3> QED
        BY <1>5, <2>2, <3>5, <3>6, <3>7, <3>8
  <2> QED
      BY <2>1, <2>2
<1>8. TypeInv'
    BY <1>2, <1>3, <1>7 DEF TypeInv
<1>9. CallInv'
  <2>1. call.end = "no"
      BY <1>2, WantsFacts
  <2> QED
      BY <1>2, <2>1 DEF CallInv, Cases, Idle
<1>10. Rest' = Rest
  <2> DEFINE q == inp'.pending
             v == Unread'
  <2>1. Rest' = ((s \o c) \o q) \o v
      BY <1>3 DEF Rest
  <2>2. q \in Seq(Nat) /\ v \in Seq(Nat) /\ c \o (q \o v) = p \o u
      BY <1>7
  <2> HIDE DEF s, p, u, q, v
  <2>3. s \o c \in Seq(Nat) /\ q \o v \in Seq(Nat)
      BY <1>1, <1>5, <2>2, ConcatProperties
  <2>4. ((s \o c) \o q) \o v = (s \o c) \o (q \o v)
      BY <2>2, <2>3, Assoc
  <2> DEFINE w == q \o v
  <2> HIDE DEF w
  <2>5. (s \o c) \o w = s \o (c \o w)
    <3>1. w \in Seq(Nat) /\ s \in Seq(Nat) /\ c \in Seq(Nat)
        BY <1>1, <1>5, <2>3 DEF w
    <3> QED
        BY <3>1, Assoc
  <2> QED
      BY <1>5, <2>1, <2>2, <2>4, <2>5 DEF w
<1> QED
    BY <1>2, <1>3, <1>7, <1>8, <1>9, <1>10, <1>1

\* A Read that finds no bytes moves the buffered ones only.
LEMMA TakeEndFacts ==
    ASSUME TypeInv, BufferInv, CallInv, inp.read <= Len(Input), TakeEnd, UNCHANGED source
    PROVE  /\ TypeInv' /\ BufferInv' /\ CallInv' /\ inp' = inp
           /\ Contents(dec)' = Contents(dec)
           /\ Offset(dec)' = Offset(dec) /\ Rest' = Rest
           /\ dec'.toggles = dec.toggles /\ dec'.failed = dec.failed /\ Wants
           /\ call'.op = call.op /\ call'.dest = call.dest /\ call'.before = call.before
           /\ Len(mem) <= Len(mem') /\ \A b \in 1..Len(mem) : Len(mem'[b]) = Len(mem[b])
           /\ \A b \in 1..Len(mem) : b # dec.buf => mem'[b] = mem[b] /\ b # dec'.buf
<1>1. /\ <<>> \in Seq(Nat) /\ Len(<<>>) = 0
      /\ Len(<<>>) <= Len(Refilled.mem[Refilled.buf]) - Len(Contents(dec))
  <2>1. <<>> \in Seq(Nat) /\ Len(<<>>) = 0
      BY EmptySeq
  <2> QED
      BY <2>1, RefillFacts, ContentsFacts
<1>2. Buffered(<<>>) /\ Wants /\ UNCHANGED <<inp, got, kept, changes>> /\ inp.pending = <<>>
    BY DEF TakeEnd
<1>3. /\ mem' \in Seq(Seq(Nat)) /\ Len(mem) <= Len(mem') /\ dec' \in DecType /\ BufferInv'
      /\ Contents(dec)' = Contents(dec) \o <<>>
      /\ Offset(dec)' = Offset(dec)
      /\ dec'.toggles = dec.toggles /\ dec'.failed = dec.failed
      /\ \A b \in 1..Len(mem) : b # dec.buf => mem'[b] = mem[b] /\ b # dec'.buf
      /\ \A b \in 1..Len(mem) : Len(mem'[b]) = Len(mem[b])
    BY <1>1, <1>2, BufferedFacts
<1>4. Contents(dec)' = Contents(dec)
    BY <1>3, ContentsFacts, ConcatEmptySeq
<1>5. PICK end \in {"eof", "error"} :
        /\ IF end = "eof" THEN Unread = <<>> ELSE "fail" \in Cases
        /\ call' = [call EXCEPT !.end = end]
    BY DEF TakeEnd
<1>6. call' \in [op : {"none", "decode", "more"}, dest : {"plain", "raw"}, before : Nat,
                 end : {"no", "eof", "error"}]
      /\ call'.op = call.op /\ call'.dest = call.dest /\ call'.before = call.before /\ call'.end = end
    BY <1>5 DEF TypeInv
<1>7. TypeInv'
    BY <1>2, <1>3, <1>6 DEF TypeInv
<1>8. Unread' = Unread /\ Rest' = Rest
  <2>1. Unread' = Unread
      BY <1>2 DEF Unread, Input
  <2> QED
      BY <1>2, <1>4, <2>1 DEF Rest
<1>9. CallInv'
    BY <1>2, <1>5, <1>6, <1>8, WantsFacts DEF CallInv, Cases, Idle
<1> QED
    BY <1>2, <1>3, <1>4, <1>6, <1>7, <1>8, <1>9
-----------------------------------------------------------------------------------
(* What a scan finds.                                                              *)

\* A value found ends within the buffered bytes, and before it there is no other.
LEMMA SizeFacts ==
    ASSUME TypeInv, BufferInv
    PROVE  /\ Size \in Nat /\ Size <= Len(Contents(dec)) /\ (Size # 0 <=> Scanned = "value")
           /\ Scanned = "value" =>
                /\ Size = Stop(Contents(dec)) /\ IsLast(Contents(dec)[Size])
                /\ \A i \in 1..Size : Contents(dec)[i] # Malformed
                /\ \A i \in 1..(Size - 1) : ~IsLast(Contents(dec)[i])
                /\ Spaces(Contents(dec)) < Size /\ Value \in Nat
           /\ Scanned \in {"more", "value", "malformed", "eof", "cut"}
<1> DEFINE s == Contents(dec)
<1>1. s \in Seq(Nat) /\ Len(s) \in Nat
    BY ContentsFacts
<1>2. Scanned \in {"more", "value", "malformed", "eof", "cut"}
    BY DEF Scanned, Scan, TypeInv, DecType
<1>3. CASE Scanned # "value"
    BY <1>1, <1>2, <1>3 DEF Size
<1>4. CASE Scanned = "value"
  <2>1. Stops(s) # {} /\ s[Stop(s)] # Malformed
    <3>1. Scan(s, call.end) = "value"
        BY <1>4 DEF Scanned, TypeInv, DecType
    <3> HIDE DEF s
    <3> QED
        BY <3>1 DEF Scan
  <2>2. Size = Stop(s)
      BY <1>4 DEF Size
  <2> HIDE DEF s
  <2>3. /\ Stop(s) \in 1..Len(s)
        /\ s[Stop(s)] = Malformed \/ IsLast(s[Stop(s)])
        /\ \A i \in 1..(Stop(s) - 1) : s[i] # Malformed /\ ~IsLast(s[i])
        /\ Spaces(s) < Stop(s)
      BY <1>1, <2>1, StopFacts
  <2>4. \A i \in 1..Stop(s) : s[i] # Malformed
    <3>1. \A i \in 1..Stop(s) : i \in 1..(Stop(s) - 1) \/ i = Stop(s)
        BY <1>1, <2>3
    <3> QED
        BY <2>1, <2>3, <3>1
  <2>5. Value \in Nat
    <3>1. s[Stop(s)] \in Nat
        BY <1>1, <2>3, SeqFacts
    <3>2. Value = s[Stop(s)] \div 2
        BY <2>2 DEF Value, s
    <3> QED
        BY <3>1, <3>2
  <2> QED
      BY <1>1, <1>2, <1>4, <2>1, <2>2, <2>3, <2>4, <2>5 DEF s
<1> QED
    BY <1>3, <1>4

\* Bytes of the buffer are consumed, and the rest begins behind them.
LEMMA Forward ==
    ASSUME TypeInv, BufferInv, inp.read <= Len(Input), NEW n \in 0..Len(Contents(dec)),
           dec' \in DecType, dec'.scanp = dec.scanp + n, dec'.buf = dec.buf,
           dec'.len = dec.len, dec'.scanned = dec.scanned, UNCHANGED <<source, mem, inp>>
    PROVE  /\ BufferInv' /\ Contents(dec)' = Drop(Contents(dec), n)
           /\ Offset(dec)' = Offset(dec) + n /\ Rest' = Drop(Rest, n)
<1> DEFINE s == Contents(dec)
<1>1. /\ s \in Seq(Nat) /\ Len(s) \in Nat /\ Len(s) = dec.len - dec.scanp
      /\ n \in 0..Len(s) /\ n \in Nat
    BY ContentsFacts
<1> HIDE DEF s
<1>4. /\ dec' \in DecType /\ dec'.scanp = dec.scanp + n /\ dec'.buf = dec.buf
      /\ dec'.len = dec.len /\ dec'.scanned = dec.scanned
    OBVIOUS
<1>5. UNCHANGED <<mem, inp, source>>
    OBVIOUS
<1>6. BufferInv'
    BY <1>1, <1>4, <1>5, TypesOf DEF BufferInv
<1>7. Contents(dec)' = Drop(s, n)
  <2>1. CASE dec.buf = 0
    <3>1. s = <<>> /\ Contents(dec)' = <<>>
        BY <1>4, <2>1 DEF Contents, s
    <3>2. n = 0 /\ Len(s) = 0
        BY <1>1, <3>1, EmptySeq
    <3>3. SubSeq(s, 1, Len(s)) = s
        BY <1>1, SubSeqFull
    <3> QED
        BY <3>1, <3>2, <3>3 DEF Drop
  <2>2. CASE dec.buf # 0
    <3> DEFINE m == mem[dec.buf]
               d == dec.scanp
    <3>1. m \in Seq(Nat) /\ d \in 0..Len(m) /\ dec.len \in Nat /\ d <= dec.len /\ dec.len <= Len(m)
          /\ Len(m) \in Nat
      <4>1. dec.buf \in 1..Len(mem)
          BY <2>2, TypesOf DEF BufferInv
      <4>2. m \in Seq(Nat) /\ Len(m) \in Nat
          BY <4>1, TypesOf
      <4> QED
          BY <2>2, <4>2, TypesOf DEF BufferInv
    <3>2. Contents(dec)' = SubSeq(m, (d + n) + 1, dec.len)
        BY <1>4, <1>5, <2>2 DEF Contents
    <3>3. s = SubSeq(m, d + 1, dec.len)
        BY <2>2 DEF s, Contents
    <3> HIDE DEF m, d
    <3>4. \A a \in 1..(Len(m) + 1) : a <= dec.len + 1 =>
            /\ SubSeq(m, a, dec.len) \in Seq(Nat)
            /\ Len(SubSeq(m, a, dec.len)) = dec.len + 1 - a
            /\ \A i \in 1..(dec.len + 1 - a) : SubSeq(m, a, dec.len)[i] = m[a + i - 1]
      <4> TAKE a \in 1..(Len(m) + 1)
      <4> HAVE a <= dec.len + 1
      <4>1. \A i \in a..dec.len : m[i] \in Nat
        <5>1. \A i \in a..dec.len : i \in 1..Len(m)
            BY <3>1
        <5> QED
            BY <3>1, <5>1, SeqFacts
      <4>2. /\ SubSeq(m, a, dec.len) \in Seq(Nat)
            /\ Len(SubSeq(m, a, dec.len)) = IF a <= dec.len THEN dec.len - a + 1 ELSE 0
            /\ \A i \in 1..(dec.len - a + 1) : SubSeq(m, a, dec.len)[i] = m[a + i - 1]
          BY <3>1, <4>1, SubSeqProperties
      <4>3. dec.len - a + 1 = dec.len + 1 - a /\ Len(SubSeq(m, a, dec.len)) = dec.len + 1 - a
          BY <3>1, <4>2
      <4> QED
          BY <4>2, <4>3
    <3>5. /\ Len(Drop(s, n)) = Len(s) - n /\ Drop(s, n) \in Seq(Nat)
          /\ \A i \in 1..(Len(s) - n) : Drop(s, n)[i] = s[n + i]
        BY <1>1, DropFacts
    <3>6. Len(s) = dec.len - d
        BY <1>1 DEF d
    <3>7. d + 1 \in 1..(Len(m) + 1) /\ d + 1 <= dec.len + 1
        BY <3>1
    <3>8. d + n + 1 \in 1..(Len(m) + 1) /\ d + n + 1 <= dec.len + 1
        BY <1>1, <3>1, <3>6
    <3>9. /\ Contents(dec)' \in Seq(Nat) /\ Len(Contents(dec)') = Len(s) - n
          /\ \A i \in 1..(Len(s) - n) : Contents(dec)'[i] = m[d + n + i]
      <4>1. /\ SubSeq(m, d + n + 1, dec.len) \in Seq(Nat)
            /\ Len(SubSeq(m, d + n + 1, dec.len)) = dec.len + 1 - (d + n + 1)
            /\ \A i \in 1..(dec.len + 1 - (d + n + 1)) :
                 SubSeq(m, d + n + 1, dec.len)[i] = m[(d + n + 1) + i - 1]
          BY <3>4, <3>8
      <4>2. dec.len + 1 - (d + n + 1) = Len(s) - n
          BY <1>1, <3>1, <3>6
      <4>3. \A i \in 1..(Len(s) - n) : (d + n + 1) + i - 1 = d + n + i
          BY <1>1, <3>1
      <4> QED
          BY <3>2, <4>1, <4>2, <4>3
    <3>10. ASSUME NEW i \in 1..(Len(s) - n) PROVE Contents(dec)'[i] = Drop(s, n)[i]
      <4>3. i \in Nat /\ d \in Nat /\ dec.len \in Nat /\ n \in Nat /\ 1 <= i /\ i <= dec.len - d - n
          BY <1>1, <3>1, <3>6
      <4>4. (d + 1) + (n + i) - 1 = d + n + i
          BY <4>3
      <4>5. n + i \in 1..(dec.len + 1 - (d + 1))
          BY <4>3
      <4>1. n + i \in 1..(dec.len + 1 - (d + 1)) /\ (d + 1) + (n + i) - 1 = d + n + i
          BY <4>4, <4>5
      <4>2. s[n + i] = m[(d + 1) + (n + i) - 1]
          BY <3>3, <3>4, <3>7, <4>1
      <4> QED
          BY <3>5, <3>9, <4>1, <4>2
    <3> QED
        BY <3>5, <3>9, <3>10, SeqEqual
  <2> QED
      BY <2>1, <2>2
<1>8. Offset(dec)' = Offset(dec) + n
  <2>1. Offset(dec)' = dec'.scanned + dec'.scanp
      BY DEF Offset
  <2> QED
      BY <1>1, <1>4, <2>1, TypesOf DEF Offset
<1>9. Rest' = Drop(Rest, n)
  <2> DEFINE v == inp.pending \o Unread
  <2>1. v \in Seq(Nat) /\ Rest = s \o v /\ inp.pending \in Seq(Nat) /\ Unread \in Seq(Nat)
      BY RestFacts, TypesOf DEF s
  <2>2. Rest' = (Drop(s, n) \o inp.pending) \o Unread
    <3>1. Unread' = Unread
        BY <1>5 DEF Unread, Input
    <3> QED
        BY <1>5, <1>7, <3>1 DEF Rest
  <2>3. Drop(s, n) \in Seq(Nat)
      BY <1>1, DropFacts
  <2>4. Rest' = Drop(s, n) \o v
      BY <2>1, <2>2, <2>3, Assoc
  <2> HIDE DEF v
  <2>5. Drop(s \o v, n) = Drop(s, n) \o v
      BY <1>1, <2>1, DropConcat
  <2> QED
      BY <2>1, <2>4, <2>5
<1> QED
    BY <1>6, <1>7, <1>8, <1>9 DEF s

\* An answer consumes the value found, and the rest begins behind it.
LEMMA AnswerFacts ==
    ASSUME TypeInv, BufferInv, CallInv, inp.read <= Len(Input), NEW retains \in BOOLEAN,
           Answer(retains), UNCHANGED source, Scanned # "more"
    PROVE  /\ dec' \in DecType /\ call' = NoCall /\ UNCHANGED <<mem, inp, changes>>
           /\ kept' \subseteq [val : Nat, buf : Nat, from : Nat, len : Nat]
           /\ BufferInv' /\ CallInv'
           /\ Contents(dec)' = Drop(Contents(dec), Size)
           /\ Offset(dec)' = Offset(dec) + Size /\ Rest' = Drop(Rest, Size)
           /\ dec'.toggles = dec.toggles /\ dec'.buf = dec.buf
           /\ dec'.failed = IF Scanned = "value" THEN "no" ELSE Scanned
<1> DEFINE s == Contents(dec)
<1>1. /\ s \in Seq(Nat) /\ Len(s) \in Nat /\ Len(s) = dec.len - dec.scanp
      /\ Size \in 0..Len(s) /\ Size \in Nat
    BY ContentsFacts, SizeFacts
<1>2. dec' = [dec EXCEPT !.scanp = @ + Size,
                         !.failed = IF Scanned = "value" THEN "no" ELSE Scanned]
    BY DEF Answer
<1>3. dec \in DecType /\ Scanned \in {"more", "value", "malformed", "eof", "cut"}
    BY SizeFacts DEF TypeInv
<1> HIDE DEF s
<1>4. /\ dec' \in DecType /\ dec'.scanp = dec.scanp + Size /\ dec'.buf = dec.buf
      /\ dec'.len = dec.len /\ dec'.scanned = dec.scanned /\ dec'.toggles = dec.toggles
      /\ dec'.failed = IF Scanned = "value" THEN "no" ELSE Scanned
  <2> DEFINE f == IF Scanned = "value" THEN "no" ELSE Scanned
             k == dec.scanp + Size
  <2>1. f \in {"no", "malformed", "eof", "cut"}
      BY <1>3
  <2>2. k \in Nat
      BY <1>1, TypesOf
  <2>3. dec' = [dec EXCEPT !.scanp = k, !.failed = f]
      BY <1>2
  <2> HIDE DEF f, k
  <2>4. /\ dec' \in DecType /\ dec'.scanp = k /\ dec'.buf = dec.buf
        /\ dec'.len = dec.len /\ dec'.scanned = dec.scanned /\ dec'.toggles = dec.toggles
        /\ dec'.failed = f
      BY <1>3, <2>1, <2>2, <2>3 DEF DecType
  <2> QED
      BY <2>4 DEF f, k
<1>5. call' = NoCall /\ UNCHANGED <<mem, inp, changes>>
    BY DEF Answer
<1>6. /\ BufferInv' /\ Contents(dec)' = Drop(s, Size)
      /\ Offset(dec)' = Offset(dec) + Size /\ Rest' = Drop(Rest, Size)
    BY <1>1, <1>4, <1>5, Forward DEF s
<1>10. CallInv'
    BY <1>5 DEF CallInv, NoCall
<1>11. kept' \subseteq [val : Nat, buf : Nat, from : Nat, len : Nat]
  <2>1. Spaces(s) \in Nat
      BY <1>1, SpacesFacts
  <2>2. CASE Scanned = "value" /\ retains
    <3> DEFINE r == [val |-> Value, buf |-> dec.buf, from |-> dec.scanp + Spaces(s) + 1,
                     len |-> Size - Spaces(s)]
    <3>1. kept' = kept \cup {r}
        BY <2>2 DEF Answer, s
    <3>2. Spaces(s) < Size /\ Value \in Nat
        BY <2>2, SizeFacts DEF s
    <3>3. r \in [val : Nat, buf : Nat, from : Nat, len : Nat]
      <4>1. dec.scanp \in Nat /\ dec.buf \in Nat
          BY TypesOf
      <4>2. dec.scanp + Spaces(s) + 1 \in Nat
          BY <2>1, <4>1
      <4>3. Size - Spaces(s) \in Nat
          BY <1>1, <2>1, <3>2
      <4> QED
          BY <3>2, <4>1, <4>2, <4>3
    <3> QED
        BY <3>1, <3>3 DEF TypeInv
  <2>3. CASE ~(Scanned = "value" /\ retains)
      BY <2>3 DEF Answer, TypeInv
  <2> QED
      BY <2>2, <2>3
<1> QED
    BY <1>4, <1>5, <1>6, <1>10, <1>11 DEF s

\* More goes to the byte it found, past spaces only.
LEMMA PeekFacts ==
    ASSUME TypeInv, BufferInv, CallInv, inp.read <= Len(Input), PeekMore, UNCHANGED source
    PROVE  /\ TypeInv' /\ BufferInv' /\ CallInv' /\ call' = NoCall
           /\ UNCHANGED <<mem, inp, got, kept, changes>>
           /\ dec'.toggles = dec.toggles /\ dec'.buf = dec.buf /\ dec'.failed = dec.failed
           /\ \E n \in 0..Len(Contents(dec)) :
                /\ \A i \in 1..n : Contents(dec)[i] = Space
                /\ Contents(dec)' = Drop(Contents(dec), n)
                /\ Offset(dec)' = Offset(dec) + n /\ Rest' = Drop(Rest, n)
<1> DEFINE s == Contents(dec)
           n == IF Spaces(s) < Len(s) THEN Spaces(s) ELSE 0
<1>1. s \in Seq(Nat) /\ Len(s) \in Nat
    BY ContentsFacts
<1>2. call' = NoCall /\ UNCHANGED <<mem, inp, got, kept, changes>>
    BY DEF PeekMore
<1>3. n \in 0..Len(s) /\ n \in Nat /\ \A i \in 1..n : s[i] = Space
  <2> HIDE DEF s
  <2> QED
      BY <1>1, SpacesFacts
<1>4. dec \in DecType /\ dec.scanp \in Nat
    BY DEF TypeInv, DecType
<1>5. dec' = [dec EXCEPT !.scanp = dec.scanp + n]
    BY <1>4 DEF PeekMore, DecType
<1> HIDE DEF s, n
<1>6. /\ dec' \in DecType /\ dec'.scanp = dec.scanp + n /\ dec'.buf = dec.buf
      /\ dec'.len = dec.len /\ dec'.scanned = dec.scanned /\ dec'.toggles = dec.toggles
      /\ dec'.failed = dec.failed
    BY <1>3, <1>4, <1>5 DEF DecType
<1>7. /\ BufferInv' /\ Contents(dec)' = Drop(s, n)
      /\ Offset(dec)' = Offset(dec) + n /\ Rest' = Drop(Rest, n)
    BY <1>2, <1>3, <1>6, Forward DEF s
<1>8. CallInv'
    BY <1>2 DEF CallInv, NoCall
<1>9. TypeInv'
    BY <1>2, <1>6 DEF TypeInv, NoCall
<1> QED
    BY <1>2, <1>3, <1>6, <1>7, <1>8, <1>9 DEF s

\* A value is one run of bytes, all its own.
LEMMA ValueBytes ==
    ASSUME TypeInv, BufferInv, TextInv, Alive, Scanned = "value"
    PROVE  \A i \in (Spaces(Contents(dec)) + 1)..Size :
               Contents(dec)[i] > 1 /\ Contents(dec)[i] \div 2 = Value
<1> DEFINE s == Contents(dec)
           a == Spaces(s) + 1
           bad == {i \in a..Size : ~(s[i] > 1 /\ s[i] \div 2 = s[a] \div 2)}
<1>1. s \in Seq(Nat) /\ Len(s) \in Nat /\ Size \in Nat /\ Size <= Len(s)
    BY ContentsFacts, SizeFacts
<1>2. /\ IsLast(s[Size]) /\ Spaces(s) < Size
      /\ \A i \in 1..Size : s[i] # Malformed
      /\ \A i \in 1..(Size - 1) : ~IsLast(s[i])
    BY SizeFacts
<1>3. Spaces(s) \in Nat /\ (Spaces(s) < Len(s) => s[a] # Space)
    BY <1>1, SpacesFacts
<1>4. \A i \in 1..Len(s) : s[i] = Input[Consumed + i] /\ s[i] \in Nat
    BY <1>1, TextFacts, SeqFacts
<1>5. Consumed \in Nat /\ Consumed + Len(s) <= Len(Input) /\ Len(Input) \in Nat
    BY TextFacts
<1>6. \A j \in 1..(Len(Input) - 1) :
          Input[j] > 1 /\ ~IsLast(Input[j]) =>
              Input[j + 1] = Malformed \/ Input[j + 1] \div 2 = Input[j] \div 2
    BY TypesOf DEF Input, Source, Texts
<1> HIDE DEF s
<1>7. a \in 1..Size /\ s[a] > 1
  <2>1. a \in 1..Size /\ a \in 1..Len(s) /\ s[a] # Space
      BY <1>1, <1>2, <1>3
  <2>2. s[a] \in Nat /\ s[a] # 0 /\ s[a] # 1
      BY <1>2, <1>4, <2>1 DEF Space, Malformed
  <2> QED
      BY <2>1, <2>2
<1>8. bad = {}
  <2> SUFFICES ASSUME bad # {} PROVE FALSE
      OBVIOUS
  <2>1. PICK m \in bad : \A k \in bad : m <= k
    <3>1. bad \subseteq Nat
        BY <1>1, <1>3
    <3> QED
        BY <3>1, LeastNat
  <2>2. m \in a..Size /\ m # a /\ ~(s[m] > 1 /\ s[m] \div 2 = s[a] \div 2)
      BY <1>7
  <2> DEFINE k == m - 1
  <2>3. k \in a..Size /\ k \in 1..(Size - 1) /\ k + 1 = m /\ ~(m <= k) /\ k \in 1..Len(s) /\ m \in 1..Len(s)
        /\ k \in Nat
      BY <1>1, <1>3, <2>2
  <2>4. k \notin bad
    <3> HIDE DEF k, bad
    <3> QED
        BY <2>1, <2>3
  <2>5. s[k] > 1 /\ s[k] \div 2 = s[a] \div 2
      BY <2>3, <2>4
  <2> HIDE DEF k, a, bad
  <2>6. Consumed + k \in 1..(Len(Input) - 1) /\ (Consumed + k) + 1 = Consumed + m
      BY <1>1, <1>5, <2>3
  <2>7. s[k] = Input[Consumed + k] /\ s[m] = Input[Consumed + m] /\ s[m] \in Nat
      BY <1>4, <2>3
  <2>8. s[m] = Malformed \/ s[m] \div 2 = s[k] \div 2
      BY <1>2, <1>6, <2>3, <2>5, <2>6, <2>7
  <2>9. s[m] # Malformed
    <3>1. m \in 1..Size
        BY <1>3, <2>2 DEF a
    <3> QED
        BY <1>2, <3>1
  <2>10. s[m] > 1
    <3>1. s[m] \div 2 = s[k] \div 2 /\ s[k] \in Nat
        BY <1>4, <2>3, <2>8, <2>9
    <3> QED
        BY <2>5, <2>7, <2>9, <3>1 DEF Malformed
  <2> QED
      BY <2>2, <2>5, <2>8, <2>9, <2>10
<1>9. \A i \in a..Size : s[i] > 1 /\ s[i] \div 2 = s[a] \div 2
    BY <1>8
<1>10. Value = s[Size] \div 2 /\ Size \in a..Size
  <2>1. Size \in a..Size
      BY <1>1, <1>7
  <2> QED
      BY <2>1 DEF Value, s
<1>11. s[Size] \div 2 = s[a] \div 2
    BY <1>9, <1>10
<1> QED
    BY <1>9, <1>10, <1>11 DEF s
-----------------------------------------------------------------------------------
(* Going on in the text.                                                           *)

\* Spaces across two parts.
LEMMA SpacesConcat ==
    ASSUME NEW s \in Seq(Nat), NEW c \in Seq(Nat)
    PROVE  /\ Spaces(s \o c) = IF Spaces(s) = Len(s) THEN Len(s) + Spaces(c) ELSE Spaces(s)
           /\ Spaces(s \o c) = Len(s \o c) <=> Spaces(s) = Len(s) /\ Spaces(c) = Len(c)
<1> DEFINE w == s \o c
           a == Spaces(s)
           b == Spaces(c)
<1>1. Len(s) \in Nat /\ Len(c) \in Nat
    BY SeqFacts
<1>2. /\ w \in Seq(Nat) /\ Len(w) = Len(s) + Len(c)
      /\ \A i \in 1..(Len(s) + Len(c)) : w[i] = IF i <= Len(s) THEN s[i] ELSE c[i - Len(s)]
    BY ConcatProperties
<1>3. a \in 0..Len(s) /\ (\A i \in 1..a : s[i] = Space) /\ (a < Len(s) => s[a + 1] # Space)
    BY SpacesFacts
<1>4. b \in 0..Len(c) /\ (\A i \in 1..b : c[i] = Space) /\ (b < Len(c) => c[b + 1] # Space)
    BY SpacesFacts
<1> HIDE DEF w, a, b
<1>5. CASE a = Len(s)
  <2>1. Len(s) + b \in 0..Len(w)
      BY <1>1, <1>2, <1>4
  <2>2. ASSUME NEW i \in 1..(Len(s) + b) PROVE w[i] = Space
    <3>1. i \in 1..(Len(s) + Len(c))
        BY <1>1, <1>4
    <3>2. CASE i <= Len(s)
      <4>1. i \in 1..a /\ w[i] = s[i]
          BY <1>1, <1>2, <1>5, <3>1, <3>2
      <4> QED
          BY <1>3, <4>1
    <3>3. CASE ~(i <= Len(s))
      <4>1. w[i] = c[i - Len(s)]
          BY <1>2, <3>1, <3>3
      <4>2. i - Len(s) \in 1..b
          BY <1>1, <1>4, <3>3
      <4> QED
          BY <1>4, <4>1, <4>2
    <3> QED
        BY <3>2, <3>3
  <2>3. Len(s) + b = Len(w) \/ w[Len(s) + b + 1] # Space
    <3>1. CASE b = Len(c)
        BY <1>2, <3>1
    <3>2. CASE b # Len(c)
      <4>1. b < Len(c) /\ Len(s) + b + 1 \in 1..(Len(s) + Len(c)) /\ ~(Len(s) + b + 1 <= Len(s))
            /\ (Len(s) + b + 1) - Len(s) = b + 1
          BY <1>1, <1>4, <3>2
      <4> QED
          BY <1>2, <1>4, <4>1
    <3> QED
        BY <3>1, <3>2
  <2>4. Spaces(w) = Len(s) + b
      BY <1>2, <2>1, <2>2, <2>3, SpacesIs
  <2>5. Len(s) + b = Len(s) + Len(c) <=> b = Len(c)
      BY <1>1, <1>4
  <2> QED
      BY <1>2, <1>5, <2>4, <2>5 DEF w, a, b
<1>6. CASE a # Len(s)
  <2>1. a \in 0..Len(w) /\ a < Len(s) /\ a # Len(s) + Len(c)
      BY <1>1, <1>2, <1>3, <1>6
  <2>2. ASSUME NEW i \in 1..a PROVE w[i] = Space
    <3>1. i \in 1..(Len(s) + Len(c)) /\ i <= Len(s)
        BY <1>1, <1>3
    <3> QED
        BY <1>2, <1>3, <3>1
  <2>3. w[a + 1] # Space
    <3>1. a + 1 \in 1..(Len(s) + Len(c)) /\ a + 1 <= Len(s)
        BY <1>1, <1>3, <2>1
    <3> QED
        BY <1>2, <1>3, <2>1, <3>1
  <2>4. Spaces(w) = a
      BY <1>2, <2>1, <2>2, <2>3, SpacesIs
  <2> QED
      BY <1>2, <1>6, <2>1, <2>4 DEF w, a, b
<1> QED
    BY <1>5, <1>6

\* Consuming n bytes of the rest keeps the place in the text.
LEMMA Advance ==
    ASSUME TypeInv, BufferInv, TextInv, Alive, NEW n \in 0..Len(Contents(dec)),
           Rest' = Drop(Rest, n), UNCHANGED <<source, inp>>,
           ~Compat => Consumed' = Consumed + n
    PROVE  TextInv' /\ Consumed' = Consumed + n
<1>1. Input' = Input /\ Input \in Seq(Nat) /\ Len(Input) \in Nat
    BY TypesOf, InputFacts DEF Input
<1>2. /\ Consumed \in 0..Len(Input) /\ Len(Input) \in Nat /\ inp.read \in 0..Len(Input)
      /\ Rest = Drop(Input, Consumed) /\ Len(Rest) = Len(Input) - Consumed
      /\ Consumed + Len(Contents(dec)) <= Len(Input)
    BY TextFacts
<1>3. n \in 0..(Len(Input) - Consumed) /\ n \in 0..Len(Rest) /\ n \in Nat
    BY <1>2, ContentsFacts
<1>4. Rest' = Drop(Input, Consumed + n)
    BY <1>1, <1>2, <1>3, DropDrop
<1>5. Consumed' = Consumed + n
  <2>1. CASE ~Compat
      BY <2>1
  <2>2. CASE Compat
    <3>1. Consumed' = Len(Input) - Len(Rest')
        BY <1>1, <2>2 DEF Consumed, Compat, Stream, String
    <3>2. Consumed + n \in 0..Len(Input)
        BY <1>2, <1>3
    <3>3. Len(Rest') = Len(Input) - (Consumed + n)
        BY <1>1, <1>4, <3>2, DropFacts
    <3> QED
        BY <1>2, <1>3, <3>1, <3>3
  <2> QED
      BY <2>1, <2>2
<1>6. Consumed + n \in 0..Len(Input)
    BY <1>2, <1>3
<1>7. TextInv'
  <2>1. inp'.read <= Len(Input') /\ Consumed' \in 0..Len(Input')
      BY <1>1, <1>2, <1>5, <1>6
  <2>2. Rest' = SubSeq(Input', Consumed' + 1, Len(Input'))
      BY <1>1, <1>4, <1>5 DEF Drop
  <2> QED
      BY <2>1, <2>2 DEF TextInv
<1> QED
    BY <1>5, <1>7

\* A value found begins behind the last one and at most spaces, and ends the next.
LEMMA NextValue ==
    ASSUME TypeInv, BufferInv, TextInv, Alive, EndInv, End <= Consumed, Blank(End, Consumed),
           Scanned = "value"
    PROVE  /\ IsEnd(Len(got) + 1, Consumed + Size) /\ EndOf(Len(got) + 1) = Consumed + Size
           /\ \A i \in 1..(Consumed + Size) : Input[i] # Malformed
           /\ Consumed + Size \in 1..Len(Input) /\ Input[Consumed + Size] \div 2 = Value
<1> DEFINE s == Contents(dec)
           n == Len(got)
           b == Consumed + Size
<1>1. s \in Seq(Nat) /\ Len(s) \in Nat /\ Size \in 1..Len(s)
    BY ContentsFacts, SizeFacts
<1>2. /\ IsLast(s[Size]) /\ \A i \in 1..Size : s[i] # Malformed
      /\ \A i \in 1..(Size - 1) : ~IsLast(s[i])
    BY SizeFacts
<1>3. /\ Consumed \in Nat /\ Consumed + Len(s) <= Len(Input) /\ Len(Input) \in Nat
      /\ \A i \in 1..Len(s) : Input[Consumed + i] = s[i]
    BY TextFacts
<1>4. n \in Nat /\ source \in Source
    BY SeqFacts DEF TypeInv
<1>5. End \in 0..Len(Input) /\ IsEnd(n, End) /\ End <= Consumed
    BY DEF EndInv, IsEnd
<1> HIDE DEF s, n
<1>6. b \in 1..Len(Input) /\ End < b /\ b \in Nat /\ End \in Nat
    BY <1>1, <1>3, <1>5
<1>7. Input[b] = s[Size]
    BY <1>1, <1>3
<1>8. ASSUME NEW i \in (End + 1)..(b - 1) PROVE ~IsLast(Input[i]) /\ Input[i] # Malformed
  <2>1. CASE i <= Consumed
    <3>1. i \in (End + 1)..Consumed
        BY <1>3, <1>6, <2>1
    <3> QED
        BY <3>1 DEF Blank, IsLast, Space, Malformed
  <2>2. CASE ~(i <= Consumed)
    <3>1. i - Consumed \in 1..(Size - 1) /\ i - Consumed \in 1..Len(s) /\ Consumed + (i - Consumed) = i
          /\ i - Consumed \in 1..Size
        BY <1>1, <1>3, <1>6, <2>2
    <3>2. Input[i] = s[i - Consumed]
        BY <1>3, <3>1
    <3> QED
        BY <1>2, <3>1, <3>2
  <2> QED
      BY <2>1, <2>2
<1>9. IsEnd(n + 1, b)
  <2> HIDE DEF b
  <2> QED
      BY <1>2, <1>4, <1>5, <1>6, <1>7, <1>8, NextEnd
<1>10. EndOf(n + 1) = b
    BY <1>4, <1>9, EndOfIs
<1>11. ASSUME NEW i \in 1..b PROVE Input[i] # Malformed
  <2>1. CASE i <= End
    <3>1. i \in 1..End
        BY <1>6, <2>1
    <3> QED
        BY <3>1 DEF EndInv
  <2>2. CASE i = b
    <3>1. Size \in 1..Size
        BY <1>1
    <3> QED
        BY <1>2, <1>7, <2>2, <3>1
  <2>3. CASE ~(i <= End) /\ i # b
    <3>1. i \in (End + 1)..(b - 1)
        BY <1>6, <2>3
    <3> QED
        BY <1>8, <3>1
  <2> QED
      BY <2>1, <2>2, <2>3
<1>12. Input[b] \div 2 = Value
    BY <1>7 DEF Value, s
<1> QED
    BY <1>6, <1>9, <1>10, <1>11, <1>12 DEF n
-----------------------------------------------------------------------------------
(* The three decoders run the same json.Decoder.                                   *)

\* StreamDecode's json.Decoder is that of Streams.
LEMMA StreamReader ==
    /\ S!Chunks = Chunks /\ S!TakeEnd = TakeEnd /\ S!PeekMore = PeekMore
    /\ S!StartMore = StartMore /\ S!Scanned = Scanned /\ S!Size = Size /\ S!Value = Value
    /\ S!Fits = Fits /\ S!Idle = Idle /\ S!NewDec = NewDec /\ S!Options = Options
    /\ S!Sticky = Sticky /\ S!Cases = Cases
    /\ \A c : S!Take(c) = Take(c)
    /\ \A r : S!Answer(r) = Answer(r)
    /\ \A s : S!Spaces(s) = Spaces(s)
    /\ \A d : S!Contents(d) = Contents(d) /\ S!Offset(d) = Offset(d)
    BY DEF S!Chunks, Chunks, S!TakeEnd, TakeEnd, S!PeekMore, PeekMore, S!StartMore, StartMore,
       S!Scanned, Scanned, S!Size, Size, S!Value, Value, S!Fits, Fits, S!Idle, Idle,
       S!NewDec, NewDec, S!Options, Options, S!Sticky, Sticky, S!Cases, Cases,
       S!Take, Take, S!Answer, Answer, S!Spaces, Spaces, S!Contents, Contents, S!Offset, Offset,
       S!Wants, Wants, S!Buffered, Buffered, S!Peek, Peek, S!Refilled, Refilled, S!Slid, Slid,
       S!Scan, Scan, S!Stop, Stop, S!Stops, Stops, S!IsLast, IsLast, S!Space, Space,
       S!Malformed, Malformed, S!Unread, Unread, S!Input, Input, S!NoCall, NoCall
-----------------------------------------------------------------------------------
(* What most steps leave alone.                                                    *)

\* The position of the last value delivered is about the text and got only.
LEMMA SameEnds ==
    ASSUME UNCHANGED <<source, got>>
    PROVE  /\ Input' = Input /\ Cases' = Cases /\ Len(got)' = Len(got) /\ End' = End
           /\ EndOf(Len(got) - 1)' = EndOf(Len(got) - 1)
           /\ Stream' = Stream /\ Compat' = Compat /\ String' = String
           /\ KeepsAndPeeks' = KeepsAndPeeks
    BY DEF Input, Cases, End, EndOf, Stream, Compat, String, KeepsAndPeeks

\* Nothing delivered: only what is consumed matters.
LEMMA EndKeeps ==
    ASSUME EndInv, UNCHANGED <<source, got>>,
           ~String => End <= Consumed' /\ (~Terminal' => Blank(End, Consumed'))
    PROVE  EndInv'
    BY SameEnds DEF EndInv, IsEnd, Blank

\* The next value delivered.
LEMMA EndNext ==
    ASSUME TypeInv, BufferInv, TextInv, Alive, EndInv, End <= Consumed, Blank(End, Consumed),
           Scanned = "value", source' = source, got' = Append(got, Value),
           Consumed' = Consumed + Size
    PROVE  /\ EndInv' /\ Len(got') = Len(got) + 1 /\ End' = Consumed + Size
           /\ EndOf(Len(got') - 1) = End
<1>1. /\ IsEnd(Len(got) + 1, Consumed + Size) /\ EndOf(Len(got) + 1) = Consumed + Size
      /\ \A i \in 1..(Consumed + Size) : Input[i] # Malformed
      /\ Consumed + Size \in 1..Len(Input)
    BY NextValue
<1>2. Len(got') = Len(got) + 1 /\ Len(got) \in Nat
    BY SizeFacts, AppendProperties, SeqFacts DEF TypeInv
<1>3. Input' = Input
    BY DEF Input
<1>4. End' = Consumed + Size
    BY <1>1, <1>2, <1>3 DEF End, EndOf
<1> DEFINE e == Consumed + Size
           n == Len(got) + 1
<1>5. End' = e /\ Len(got') = n /\ Consumed' = e /\ e \in Nat /\ IsEnd(n, e)
      /\ \A i \in 1..e : Input[i] # Malformed
    BY <1>1, <1>2, <1>4, InputFacts DEF TypeInv
<1> HIDE DEF e, n
<1>6. EndInv'
    BY <1>3, <1>5 DEF EndInv, IsEnd, Blank
<1>7. EndOf(Len(got') - 1) = End
    BY <1>2 DEF End
<1> QED
    BY <1>2, <1>4, <1>6, <1>7

\* Nothing consumed: the bytes may move.
LEMMA TextKeeps ==
    ASSUME TextInv, Alive, source' = source, Rest' = Rest, Consumed' = Consumed,
           inp'.read <= Len(Input)
    PROVE  TextInv'
    BY DEF TextInv, Input

\* A refill touches no buffer of a kept value.
LEMMA KeptTake ==
    ASSUME TypeInv, BufferInv, KeptInv, ~Idle, UNCHANGED <<source, kept>>,
           Len(mem) <= Len(mem'), \A b \in 1..Len(mem) : Len(mem'[b]) = Len(mem[b]),
           \A b \in 1..Len(mem) : b # dec.buf => mem'[b] = mem[b] /\ b # dec'.buf,
           mem' \in Seq(Seq(Nat))
    PROVE  KeptInv'
<1> SUFFICES ASSUME ~KeepsAndPeeks, NEW r \in kept
             PROVE  /\ "raw" \in source.dests
                    /\ r.buf \in 1..Len(mem') /\ r.from \in Nat \ {0}
                    /\ r.from + r.len <= Len(mem'[r.buf]) + 1
                    /\ \A j \in 1..r.len : mem'[r.buf][r.from + j - 1] \div 2 = r.val
                    /\ r.buf # dec'.buf
    BY DEF KeptInv, KeepsAndPeeks, Cases
<1>1. /\ "raw" \in source.dests
      /\ r.buf \in 1..Len(mem) /\ r.from \in Nat \ {0} /\ r.from + r.len <= Len(mem[r.buf]) + 1
      /\ \A j \in 1..r.len : mem[r.buf][r.from + j - 1] \div 2 = r.val
      /\ r.buf # dec.buf
    BY DEF KeptInv
<1>2. mem'[r.buf] = mem[r.buf] /\ r.buf # dec'.buf /\ r.buf \in 1..Len(mem')
  <2>1. Len(mem') \in Nat /\ Len(mem) \in Nat
      BY TypesOf, LenProperties
  <2> QED
      BY <1>1, <2>1
<1> QED
    BY <1>1, <1>2

\* Nothing kept, nothing moved.
LEMMA KeptKeeps ==
    ASSUME KeptInv, UNCHANGED <<source, kept, mem>>,
           ~KeepsAndPeeks =>
             \A r \in kept : r.buf = dec'.buf =>
               (Idle /\ (Stream => sd.detach) /\ (Compat => cs.detach) /\ (String => ~st.live))'
    PROVE  KeptInv'
    BY DEF KeptInv, KeepsAndPeeks, Cases

\* A decoder that the source did not ask for is not there.
LEMMA StreamAlone ==
    ASSUME Stream, source' = source
    PROVE  /\ Alive /\ ~String /\ ~Compat /\ Stream' /\ ~String' /\ ~Compat'
           /\ CompatInv' /\ StringInv'
           /\ Consumed = sd.offset + Offset(dec) /\ Consumed' = sd'.offset + Offset(dec)'
           /\ Terminal = sd.terminal /\ Terminal' = sd'.terminal
           /\ Opts = sd.opts
    BY DEF Stream, String, Compat, Alive, CompatInv, StringInv, Consumed, Terminal, Opts
-----------------------------------------------------------------------------------
(* The steps of StreamDecoder.                                                     *)

\* What streamInput counted is what the buffer begins with.
LEMMA StreamRead ==
    ASSUME StreamsInv, Stream, source' = source, S!Read
    PROVE  StreamsInv'
<1>1. /\ TypeInv /\ BufferInv /\ CallInv /\ TextInv /\ EndInv /\ StreamInv /\ KeptInv
      /\ sd \in StreamType
    BY DEF StreamsInv, StreamInv
<1>2. PICK c \in Chunks :
        /\ Take(c)
        /\ sd' = [sd EXCEPT !.leading = IF sd.waiting THEN @ + Spaces(c) ELSE @,
                            !.waiting = @ /\ Spaces(c) = Len(c)]
    BY StreamReader DEF S!Read
<1>3. inp.read <= Len(Input) /\ UNCHANGED <<call, got, kept, changes>>
    BY <1>1, <1>2, StreamAlone DEF TextInv, Take
<1>4. /\ TypeInv' /\ BufferInv' /\ CallInv' /\ inp'.read <= Len(Input)
      /\ c \in Seq(Nat) /\ Contents(dec)' = Contents(dec) \o c
      /\ Offset(dec)' = Offset(dec) /\ Rest' = Rest
      /\ dec'.toggles = dec.toggles /\ dec'.failed = dec.failed /\ Wants
      /\ Len(mem) <= Len(mem') /\ \A b \in 1..Len(mem) : Len(mem'[b]) = Len(mem[b])
      /\ \A b \in 1..Len(mem) : b # dec.buf => mem'[b] = mem[b] /\ b # dec'.buf
    BY <1>1, <1>2, <1>3, TakeFacts
<1>5. ~Idle /\ ~sd.terminal
    BY <1>1, <1>4, WantsFacts DEF StreamInv
<1>6. /\ sd' \in StreamType
      /\ sd'.leading = IF sd.waiting THEN sd.leading + Spaces(c) ELSE sd.leading
      /\ sd'.waiting = (sd.waiting /\ Spaces(c) = Len(c))
      /\ sd'.offset = sd.offset /\ sd'.opts = sd.opts /\ sd'.configured = sd.configured
      /\ sd'.terminal = sd.terminal /\ sd'.at = sd.at /\ sd'.detach = sd.detach /\ sd'.pos = sd.pos
  <2>1. Spaces(c) \in Nat
      BY <1>4, SpacesFacts
  <2> DEFINE l == IF sd.waiting THEN sd.leading + Spaces(c) ELSE sd.leading
             w == sd.waiting /\ Spaces(c) = Len(c)
  <2>2. sd.leading \in Nat
      BY <1>1 DEF StreamType
  <2>3. l \in Nat /\ w \in BOOLEAN
      BY <2>1, <2>2
  <2>4. sd' = [sd EXCEPT !.leading = l, !.waiting = w]
      BY <1>2
  <2> HIDE DEF l, w
  <2>5. /\ sd' \in StreamType /\ sd'.leading = l /\ sd'.waiting = w
        /\ sd'.offset = sd.offset /\ sd'.opts = sd.opts /\ sd'.configured = sd.configured
        /\ sd'.terminal = sd.terminal /\ sd'.at = sd.at /\ sd'.detach = sd.detach /\ sd'.pos = sd.pos
      BY <1>1, <2>3, <2>4 DEF StreamType
  <2> QED
      BY <2>5 DEF l, w
<1>7. Consumed' = Consumed /\ TextInv'
    BY <1>1, <1>3, <1>4, <1>6, StreamAlone, TextKeeps
<1>8. EndInv'
    BY <1>1, <1>3, <1>5, <1>6, <1>7, StreamAlone, EndKeeps DEF EndInv
<1>9. KeptInv'
    BY <1>1, <1>3, <1>4, <1>5, KeptTake DEF TypeInv
<1>10. StreamInv'
  <2>1. call.op = "decode" =>
           /\ sd'.leading = Spaces(Contents(dec)')
           /\ sd'.waiting = (sd'.leading = Len(Contents(dec)'))
    <3> SUFFICES ASSUME call.op = "decode"
                 PROVE  /\ sd'.leading = Spaces(Contents(dec)')
                        /\ sd'.waiting = (sd'.leading = Len(Contents(dec)'))
        OBVIOUS
    <3>1. /\ Contents(dec) \in Seq(Nat) /\ sd.leading = Spaces(Contents(dec))
          /\ sd.waiting = (sd.leading = Len(Contents(dec)))
        BY <1>1, ContentsFacts DEF StreamInv
    <3>2. /\ Spaces(Contents(dec) \o c) = IF Spaces(Contents(dec)) = Len(Contents(dec))
                                          THEN Len(Contents(dec)) + Spaces(c)
                                          ELSE Spaces(Contents(dec))
          /\ Spaces(Contents(dec) \o c) = Len(Contents(dec) \o c) <=>
               Spaces(Contents(dec)) = Len(Contents(dec)) /\ Spaces(c) = Len(c)
        BY <1>4, <3>1, SpacesConcat
    <3>3. sd'.leading = Spaces(Contents(dec) \o c)
        BY <1>6, <3>1, <3>2
    <3>4. sd'.waiting <=> sd'.leading = Len(Contents(dec) \o c)
        BY <1>6, <3>1, <3>2, <3>3
    <3>5. sd'.waiting \in BOOLEAN
        BY <1>6 DEF StreamType
    <3> QED
        BY <1>4, <3>3, <3>4, <3>5
  <2>2. call'.op = "decode" =>
           /\ sd'.configured = sd'.opts /\ ~sd'.detach /\ call'.before = Offset(dec)'
      BY <1>1, <1>3, <1>4, <1>6 DEF StreamInv
  <2>3. dec'.toggles = sd'.configured \cap Sticky /\ dec'.failed = "no" /\ ~sd'.terminal
      BY <1>1, <1>4, <1>5, <1>6 DEF StreamInv
  <2>4. Len(got) > 0 =>
          sd'.pos = Cardinality({i \in (EndOf(Len(got) - 1) + 1)..End : Input[i] # Space})
      BY <1>1, <1>5, <1>6 DEF StreamInv
  <2>5. /\ Input' = Input /\ Len(got)' = Len(got) /\ End' = End
        /\ EndOf(Len(got) - 1)' = EndOf(Len(got) - 1)
      BY <1>3, SameEnds
  <2> QED
      BY <1>3, <1>6, <2>1, <2>2, <2>3, <2>4, <2>5 DEF StreamInv
<1> QED
    BY <1>4, <1>7, <1>8, <1>9, <1>10, StreamAlone DEF StreamsInv

\* The reader's end or failure moves the buffer only.
LEMMA StreamReadEnd ==
    ASSUME StreamsInv, Stream, source' = source, S!ReadEnd
    PROVE  StreamsInv'
<1>1. /\ TypeInv /\ BufferInv /\ CallInv /\ TextInv /\ EndInv /\ StreamInv /\ KeptInv
      /\ sd \in StreamType
    BY DEF StreamsInv, StreamInv
<1>2. TakeEnd /\ sd' = sd
    BY StreamReader DEF S!ReadEnd
<1>3. inp.read <= Len(Input) /\ UNCHANGED <<inp, got, kept, changes>>
    BY <1>1, <1>2, StreamAlone DEF TextInv, TakeEnd
<1>4. /\ TypeInv' /\ BufferInv' /\ CallInv' /\ inp' = inp
      /\ Contents(dec)' = Contents(dec)
      /\ Offset(dec)' = Offset(dec) /\ Rest' = Rest
      /\ dec'.toggles = dec.toggles /\ dec'.failed = dec.failed /\ Wants
      /\ call'.op = call.op /\ call'.dest = call.dest /\ call'.before = call.before
      /\ Len(mem) <= Len(mem') /\ \A b \in 1..Len(mem) : Len(mem'[b]) = Len(mem[b])
      /\ \A b \in 1..Len(mem) : b # dec.buf => mem'[b] = mem[b] /\ b # dec'.buf
    BY <1>1, <1>2, <1>3, TakeEndFacts
<1>5. ~Idle /\ ~sd.terminal
    BY <1>1, <1>4, WantsFacts DEF StreamInv
<1>6. Consumed' = Consumed /\ TextInv'
    BY <1>1, <1>2, <1>3, <1>4, StreamAlone, TextKeeps
<1>7. EndInv'
    BY <1>1, <1>2, <1>3, <1>5, <1>6, StreamAlone, EndKeeps DEF EndInv
<1>8. KeptInv'
    BY <1>1, <1>3, <1>4, <1>5, KeptTake DEF TypeInv
<1>9. StreamInv'
  <2>1. /\ Input' = Input /\ Len(got)' = Len(got) /\ End' = End
        /\ EndOf(Len(got) - 1)' = EndOf(Len(got) - 1)
      BY <1>3, SameEnds
  <2> QED
      BY <1>1, <1>2, <1>4, <1>5, <2>1 DEF StreamInv
<1> QED
    BY <1>4, <1>6, <1>7, <1>8, <1>9, StreamAlone DEF StreamsInv

\* The reader and the buffer as they are.
LEMMA SameReader ==
    ASSUME UNCHANGED <<source, mem, dec, inp>>
    PROVE  /\ Contents(dec)' = Contents(dec) /\ Offset(dec)' = Offset(dec) /\ Rest' = Rest
           /\ Unread' = Unread /\ Input' = Input /\ (BufferInv => BufferInv')
    BY DEF Contents, Offset, Rest, Unread, Input, BufferInv

\* More begins with a decoder that has no error.
LEMMA StreamMore ==
    ASSUME StreamsInv, Stream, source' = source, S!More
    PROVE  StreamsInv'
<1>1. /\ TypeInv /\ BufferInv /\ CallInv /\ TextInv /\ EndInv /\ StreamInv /\ KeptInv
    BY DEF StreamsInv
<1>2. ~sd.terminal /\ StartMore /\ sd' = sd
    BY StreamReader DEF S!More
<1>3. /\ "more" \in Cases /\ Idle /\ call' = [NoCall EXCEPT !.op = "more"]
      /\ UNCHANGED <<mem, dec, inp, got, kept, changes>>
    BY <1>2 DEF StartMore
<1>4. call' = [op |-> "more", dest |-> "plain", before |-> 0, end |-> "no"]
    BY <1>3 DEF NoCall
<1>5. /\ Contents(dec)' = Contents(dec) /\ Offset(dec)' = Offset(dec) /\ Rest' = Rest
      /\ Input' = Input /\ BufferInv'
    BY <1>1, <1>3, SameReader
<1>6. TypeInv'
  <2>1. call' \in [op : {"none", "decode", "more"}, dest : {"plain", "raw"}, before : Nat,
                   end : {"no", "eof", "error"}]
      BY <1>4
  <2> QED
      BY <1>1, <1>3, <2>1 DEF TypeInv
<1>7. CallInv'
    BY <1>3, <1>4 DEF CallInv, Cases
<1>8. Consumed' = Consumed /\ TextInv'
    BY <1>1, <1>2, <1>3, <1>5, StreamAlone, TextKeeps DEF TextInv
<1>9. EndInv'
    BY <1>1, <1>2, <1>3, <1>8, StreamAlone, EndKeeps DEF EndInv
<1>10. StreamInv'
  <2>1. /\ Len(got)' = Len(got) /\ End' = End
        /\ EndOf(Len(got) - 1)' = EndOf(Len(got) - 1)
      BY <1>3, SameEnds
  <2> QED
      BY <1>1, <1>2, <1>3, <1>4, <1>5, <2>1 DEF StreamInv
<1>11. KeptInv'
    BY <1>1, <1>3, KeptKeeps DEF KeptInv, KeepsAndPeeks
<1> QED
    BY <1>5, <1>6, <1>7, <1>8, <1>9, <1>10, <1>11, StreamAlone DEF StreamsInv

\* Spaces may follow what is known to be spaces.
LEMMA BlankAdvance ==
    ASSUME TypeInv, BufferInv, TextInv, Alive, NEW e \in Nat, Blank(e, Consumed),
           NEW n \in 0..Len(Contents(dec)), \A i \in 1..n : Contents(dec)[i] = Space
    PROVE  Blank(e, Consumed + n)
<1>1. /\ Consumed \in Nat /\ Len(Contents(dec)) \in Nat /\ n \in Nat
      /\ \A i \in 1..Len(Contents(dec)) : Input[Consumed + i] = Contents(dec)[i]
    BY TextFacts, ContentsFacts
<1>2. ASSUME NEW i \in (e + 1)..(Consumed + n) PROVE Input[i] = Space
  <2>1. CASE i <= Consumed
    <3>1. i \in (e + 1)..Consumed
        BY <1>1, <2>1
    <3> QED
        BY <3>1 DEF Blank
  <2>2. CASE ~(i <= Consumed)
    <3>1. i - Consumed \in 1..n /\ i - Consumed \in 1..Len(Contents(dec)) /\ Consumed + (i - Consumed) = i
        BY <1>1, <2>2
    <3> QED
        BY <1>1, <3>1
  <2> QED
      BY <2>1, <2>2
<1> QED
    BY <1>2 DEF Blank

\* More consumes spaces, which Decode would have consumed.
LEMMA StreamMoreEnd ==
    ASSUME StreamsInv, Stream, source' = source, S!MoreEnd
    PROVE  StreamsInv'
<1>1. /\ TypeInv /\ BufferInv /\ CallInv /\ TextInv /\ EndInv /\ StreamInv /\ KeptInv
    BY DEF StreamsInv
<1>2. PeekMore /\ sd' = sd
    BY StreamReader DEF S!MoreEnd
<1>3. inp.read <= Len(Input) /\ ~Idle /\ call.op = "more"
    BY <1>1, <1>2, StreamAlone DEF TextInv, PeekMore, Idle
<1>4. /\ TypeInv' /\ BufferInv' /\ CallInv' /\ call' = NoCall
      /\ UNCHANGED <<mem, inp, got, kept, changes>>
      /\ dec'.toggles = dec.toggles /\ dec'.buf = dec.buf /\ dec'.failed = dec.failed
    BY <1>1, <1>2, <1>3, PeekFacts
<1>5. PICK n \in 0..Len(Contents(dec)) :
        /\ \A i \in 1..n : Contents(dec)[i] = Space
        /\ Contents(dec)' = Drop(Contents(dec), n)
        /\ Offset(dec)' = Offset(dec) + n /\ Rest' = Drop(Rest, n)
    BY <1>1, <1>2, <1>3, PeekFacts
<1>6. Consumed' = Consumed + n /\ n \in Nat
  <2>1. Offset(dec) \in Nat
      BY <1>1, TypesOf DEF Offset
  <2>2. sd.offset \in Nat
      BY <1>1 DEF StreamInv, StreamType
  <2>3. n \in Nat
      BY <1>1, ContentsFacts
  <2> QED
      BY <1>2, <1>5, <2>1, <2>2, <2>3, StreamAlone
<1>7. TextInv'
    BY <1>1, <1>4, <1>5, <1>6, StreamAlone, Advance
<1>8. ~sd.terminal
    BY <1>1, <1>3 DEF StreamInv
<1>9. EndInv'
  <2>1. End \in Nat /\ End <= Consumed /\ Blank(End, Consumed) /\ Consumed \in Nat
      BY <1>1, <1>8, StreamAlone, TextFacts DEF EndInv, IsEnd
  <2>2. Blank(End, Consumed')
      BY <1>1, <1>5, <1>6, <2>1, StreamAlone, BlankAdvance
  <2>3. End <= Consumed'
      BY <1>6, <2>1
  <2> QED
      BY <1>1, <1>4, <2>2, <2>3, EndKeeps
<1>10. StreamInv'
  <2>1. /\ Input' = Input /\ Len(got)' = Len(got) /\ End' = End
        /\ EndOf(Len(got) - 1)' = EndOf(Len(got) - 1)
      BY <1>4, SameEnds
  <2> QED
      BY <1>1, <1>2, <1>4, <1>8, <2>1 DEF StreamInv, NoCall
<1>11. KeptInv'
    BY <1>1, <1>3, <1>4, KeptKeeps DEF KeptInv
<1> QED
    BY <1>4, <1>7, <1>9, <1>10, <1>11, StreamAlone DEF StreamsInv

\* New options wait for configure.
LEMMA StreamChoose ==
    ASSUME StreamsInv, Stream, source' = source, NEW o \in Options, S!Choose(o)
    PROVE  StreamsInv'
<1>1. /\ TypeInv /\ BufferInv /\ CallInv /\ TextInv /\ EndInv /\ StreamInv /\ KeptInv
      /\ sd \in StreamType
    BY DEF StreamsInv, StreamInv
<1>2. /\ Idle /\ sd' = [sd EXCEPT !.opts = o] /\ changes' = changes + 1
      /\ UNCHANGED <<mem, dec, inp, call, got, kept>>
    BY StreamReader DEF S!Choose
<1>3. /\ sd' \in StreamType /\ sd'.offset = sd.offset /\ sd'.configured = sd.configured
      /\ sd'.terminal = sd.terminal /\ sd'.at = sd.at /\ sd'.detach = sd.detach /\ sd'.pos = sd.pos
    BY <1>1, <1>2 DEF StreamType
<1>4. /\ Contents(dec)' = Contents(dec) /\ Offset(dec)' = Offset(dec) /\ Rest' = Rest
      /\ Unread' = Unread /\ Input' = Input /\ BufferInv'
    BY <1>1, <1>2, SameReader
<1>5. TypeInv' /\ CallInv'
    BY <1>1, <1>2, <1>4 DEF TypeInv, CallInv, Cases, Idle
<1>6. Consumed' = Consumed /\ TextInv'
    BY <1>1, <1>2, <1>3, <1>4, StreamAlone, TextKeeps DEF TextInv
<1>7. EndInv'
    BY <1>1, <1>2, <1>3, <1>6, StreamAlone, EndKeeps DEF EndInv
<1>8. StreamInv'
  <2>1. /\ Len(got)' = Len(got) /\ End' = End
        /\ EndOf(Len(got) - 1)' = EndOf(Len(got) - 1)
      BY <1>2, SameEnds
  <2>2. call.op # "decode" /\ call' = call
      BY <1>2 DEF Idle
  <2>3. Idle'
      BY <1>2 DEF Idle
  <2>4. inp' = inp /\ dec' = dec
      BY <1>2
  <2>5. dec'.toggles = sd'.configured \cap Sticky
      BY <1>1, <1>3, <2>4 DEF StreamInv
  <2>6. sd'.terminal =>
           /\ sd'.at \in End..Len(Input) /\ Blank(End, sd'.at)
           /\ sd'.at = inp'.read \/ (sd'.at < Len(Input) /\ Input[sd'.at + 1] # Space)
      BY <1>1, <1>3, <2>4 DEF StreamInv
  <2>7. ~sd'.terminal => dec'.failed = "no" /\
           (Len(got) > 0 =>
              sd'.pos = Cardinality({i \in (EndOf(Len(got) - 1) + 1)..End : Input[i] # Space}))
      BY <1>1, <1>3, <2>4 DEF StreamInv
  <2>8. sd'.terminal => Blank(End, sd.at)'
      BY <1>4, <2>1, <2>6 DEF Blank
  <2> QED
      BY <1>3, <1>4, <2>1, <2>2, <2>3, <2>5, <2>6, <2>7, <2>8 DEF StreamInv
<1>9. KeptInv'
    BY <1>1, <1>2, <1>3, StreamAlone, KeptKeeps DEF KeptInv, Idle
<1> QED
    BY <1>4, <1>5, <1>6, <1>7, <1>8, <1>9, StreamAlone DEF StreamsInv

\* A new json.Decoder that is given back what the old one had buffered.
LEMMA Rebuilt ==
    ASSUME TypeInv, BufferInv, inp.read <= Len(Input), UNCHANGED <<source, mem>>,
           dec'.buf = 0, dec'.len = 0, dec'.scanp = 0, dec'.scanned = 0,
           inp' = [inp EXCEPT !.pending = Contents(dec) \o @]
    PROVE  /\ inp' \in [pending : Seq(Nat), read : Nat] /\ inp'.read = inp.read
           /\ Input' = Input /\ BufferInv'
           /\ Contents(dec)' = <<>> /\ Offset(dec)' = 0 /\ Rest' = Rest
<1> DEFINE s == Contents(dec)
           p == s \o inp.pending
<1>1. s \in Seq(Nat) /\ inp.pending \in Seq(Nat) /\ p \in Seq(Nat)
    BY ContentsFacts, TypesOf, ConcatProperties
<1>2. inp \in [pending : Seq(Nat), read : Nat] /\ inp' = [inp EXCEPT !.pending = p]
    BY DEF TypeInv
<1> HIDE DEF s, p
<1>3. inp' \in [pending : Seq(Nat), read : Nat] /\ inp'.read = inp.read /\ inp'.pending = p
    BY <1>1, <1>2
<1>4. Input' = Input
    BY DEF Input
<1>5. BufferInv'
    BY TypesOf DEF BufferInv
<1>6. Contents(dec)' = <<>> /\ Offset(dec)' = 0
    BY DEF Contents, Offset
<1>7. Rest' = (<<>> \o p) \o Unread
  <2>1. Unread' = Unread
      BY <1>3, <1>4 DEF Unread
  <2> QED
      BY <1>3, <1>6, <2>1 DEF Rest
<1>8. <<>> \o p = p
    BY <1>1, ConcatEmptySeq
<1>9. Rest' = Rest
    BY <1>7, <1>8 DEF Rest, s, p
<1> QED
    BY <1>3, <1>4, <1>5, <1>6, <1>9

\* The buffer and the reader as they are, whatever the json.Decoder's options.
LEMMA SameBuffer ==
    ASSUME UNCHANGED <<source, mem, inp>>, BufferInv,
           dec'.buf = dec.buf, dec'.len = dec.len, dec'.scanp = dec.scanp, dec'.scanned = dec.scanned
    PROVE  /\ Contents(dec)' = Contents(dec) /\ Offset(dec)' = Offset(dec) /\ Rest' = Rest
           /\ Unread' = Unread /\ Input' = Input /\ BufferInv'
    BY DEF Contents, Offset, Rest, Unread, Input, BufferInv

\* configure replaces the json.Decoder or keeps it: the text goes on where it was.
LEMMA StreamDecodes ==
    ASSUME StreamsInv, Stream, source' = source, NEW dest \in source.dests, S!Decode(dest)
    PROVE  StreamsInv'
<1> DEFINE R == S!Rebuild
           d == IF R THEN NewDec ELSE dec
           s == Contents(d)
<1>1. /\ TypeInv /\ BufferInv /\ CallInv /\ TextInv /\ EndInv /\ StreamInv /\ KeptInv
      /\ sd \in StreamType
    BY DEF StreamsInv, StreamInv
<1>2. R \in BOOLEAN /\ (R <=> sd.detach \/ (sd.configured \cap Sticky) \ sd.opts # {})
    BY <1>1, StreamReader DEF S!Rebuild
<1>3. /\ Idle /\ ~sd.terminal
      /\ dec' = [d EXCEPT !.toggles = @ \cup (sd.opts \cap Sticky)]
      /\ inp' = [inp EXCEPT !.pending = IF R THEN Contents(dec) \o @ ELSE @]
      /\ sd' = [sd EXCEPT !.offset = IF R THEN @ + Offset(dec) ELSE @,
                          !.configured = sd.opts,
                          !.detach = IF R THEN FALSE ELSE @,
                          !.leading = Spaces(s), !.waiting = Spaces(s) = Len(s)]
      /\ call' = [op |-> "decode", dest |-> dest, before |-> Offset(d), end |-> "no"]
      /\ UNCHANGED <<mem, got, kept, changes>>
    BY StreamReader DEF S!Decode, S!GivenBack, S!Leading
<1>4. d \in DecType /\ dec \in DecType
    BY <1>1, <1>2 DEF NewDec, TypeInv, DecType
<1>5. inp.read <= Len(Input) /\ inp \in [pending : Seq(Nat), read : Nat]
    BY <1>1, StreamAlone DEF TextInv, TypeInv
<1> DEFINE t == d.toggles \cup (sd.opts \cap Sticky)
<1>6. t = sd.opts \cap Sticky
  <2>1. CASE R
      BY <2>1 DEF NewDec
  <2>2. CASE ~R
      BY <1>1, <1>2, <2>2 DEF StreamInv
  <2> QED
      BY <1>2, <2>1, <2>2
<1>7. /\ dec' \in DecType /\ dec'.buf = d.buf /\ dec'.len = d.len /\ dec'.scanp = d.scanp
      /\ dec'.scanned = d.scanned /\ dec'.toggles = sd.opts \cap Sticky /\ dec'.failed = d.failed
  <2>1. dec' = [d EXCEPT !.toggles = t] /\ t \subseteq Sticky
      BY <1>3, <1>4, <1>6 DEF DecType
  <2> HIDE DEF t, d
  <2> QED
      BY <1>4, <1>6, <2>1 DEF DecType
<1>8. d.failed = "no"
    BY <1>1, <1>3 DEF NewDec, StreamInv
<1>9. /\ inp' \in [pending : Seq(Nat), read : Nat] /\ inp'.read = inp.read
      /\ Input' = Input /\ BufferInv' /\ Rest' = Rest
      /\ Contents(dec)' = s /\ Offset(dec)' = Offset(d)
      /\ Offset(dec)' + (IF R THEN sd.offset + Offset(dec) ELSE sd.offset) = sd.offset + Offset(dec)
  <2>1. Offset(dec) \in Nat /\ sd.offset \in Nat
      BY <1>1, TypesOf DEF Offset, StreamType
  <2>2. CASE R
    <3>1. dec'.buf = 0 /\ dec'.len = 0 /\ dec'.scanp = 0 /\ dec'.scanned = 0
        BY <1>7, <2>2 DEF NewDec
    <3>2. inp' = [inp EXCEPT !.pending = Contents(dec) \o @]
        BY <1>3, <2>2
    <3>3. /\ inp' \in [pending : Seq(Nat), read : Nat] /\ inp'.read = inp.read
          /\ Input' = Input /\ BufferInv'
          /\ Contents(dec)' = <<>> /\ Offset(dec)' = 0 /\ Rest' = Rest
        BY <1>1, <1>3, <1>5, <3>1, <3>2, Rebuilt
    <3>4. s = <<>> /\ Offset(d) = 0
        BY <2>2 DEF Contents, Offset, NewDec
    <3> QED
        BY <2>1, <2>2, <3>3, <3>4
  <2>3. CASE ~R
    <3>1. inp' = inp
        BY <1>3, <1>5, <2>3
    <3>2. /\ Contents(dec)' = Contents(dec) /\ Offset(dec)' = Offset(dec) /\ Rest' = Rest
          /\ Input' = Input /\ BufferInv'
        BY <1>1, <1>3, <1>7, <2>3, <3>1, SameBuffer
    <3> QED
        BY <1>5, <2>1, <2>3, <3>1, <3>2
  <2> QED
      BY <1>2, <2>2, <2>3
<1>10. s \in Seq(Nat) /\ Offset(d) \in Nat /\ Spaces(s) \in Nat
  <2>1. s \in Seq(Nat)
    <3>1. CASE R
        BY <3>1 DEF Contents, NewDec
    <3>2. CASE ~R
        BY <1>1, <3>2, ContentsFacts
    <3> QED
        BY <1>2, <3>1, <3>2
  <2>2. Offset(d) \in Nat
      BY <1>4 DEF Offset, DecType
  <2> HIDE DEF s
  <2> QED
      BY <2>1, <2>2, SpacesFacts, SeqFacts
<1>11. /\ sd' \in StreamType /\ sd'.offset = (IF R THEN sd.offset + Offset(dec) ELSE sd.offset)
       /\ sd'.opts = sd.opts /\ sd'.configured = sd.opts /\ sd'.terminal = sd.terminal
       /\ sd'.at = sd.at /\ sd'.detach = (IF R THEN FALSE ELSE sd.detach) /\ sd'.pos = sd.pos
       /\ sd'.leading = Spaces(s) /\ sd'.waiting = (Spaces(s) = Len(s))
  <2> DEFINE o == IF R THEN sd.offset + Offset(dec) ELSE sd.offset
             x == IF R THEN FALSE ELSE sd.detach
             w == (Spaces(s) = Len(s))
             l == Spaces(s)
  <2>1. o \in Nat
    <3>1. Offset(dec) \in Nat /\ sd.offset \in Nat
        BY <1>1, TypesOf DEF Offset, StreamType
    <3> QED
        BY <3>1
  <2>2. x \in BOOLEAN /\ w \in BOOLEAN /\ l \in Nat
      BY <1>1, <1>10 DEF StreamType
  <2>3. sd' = [sd EXCEPT !.offset = o, !.configured = sd.opts, !.detach = x, !.leading = l, !.waiting = w]
      BY <1>3
  <2> HIDE DEF o, x, w, l
  <2>4. /\ sd' \in StreamType /\ sd'.offset = o
        /\ sd'.opts = sd.opts /\ sd'.configured = sd.opts /\ sd'.terminal = sd.terminal
        /\ sd'.at = sd.at /\ sd'.detach = x /\ sd'.pos = sd.pos
        /\ sd'.leading = l /\ sd'.waiting = w
      BY <1>1, <2>1, <2>2, <2>3 DEF StreamType
  <2> QED
      BY <2>4 DEF o, x, w, l
<1>12. Consumed' = Consumed
  <2>1. sd'.offset \in Nat /\ Offset(dec)' \in Nat
      BY <1>9, <1>10, <1>11 DEF StreamType
  <2> QED
      BY <1>9, <1>11, <2>1, StreamAlone
<1>13. TextInv'
    BY <1>1, <1>5, <1>9, <1>12, StreamAlone, TextKeeps
<1>14. EndInv'
    BY <1>1, <1>3, <1>11, <1>12, StreamAlone, EndKeeps DEF EndInv
<1> HIDE DEF d, s, R
<1>15. call'.op = "decode" /\ call'.before = Offset(d) /\ call'.dest = dest /\ call'.end = "no"
    BY <1>3
<1>16. TypeInv' /\ CallInv'
  <2>1. dest \in {"plain", "raw"}
      BY <1>1 DEF TypeInv, Source
  <2>2. call' \in [op : {"none", "decode", "more"}, dest : {"plain", "raw"}, before : Nat,
                   end : {"no", "eof", "error"}]
      BY <1>3, <1>10, <2>1
  <2>3. TypeInv'
      BY <1>1, <1>3, <1>7, <1>9, <2>2 DEF TypeInv
  <2>4. CallInv'
      BY <1>15 DEF CallInv
  <2> QED
      BY <2>3, <2>4
<1>17. StreamInv'
  <2>1. /\ Len(got)' = Len(got) /\ End' = End
        /\ EndOf(Len(got) - 1)' = EndOf(Len(got) - 1)
      BY <1>3, SameEnds
  <2>2. ~sd'.detach
      BY <1>1, <1>2, <1>11 DEF StreamType
  <2>3. Len(got) > 0 =>
          sd'.pos = Cardinality({i \in (EndOf(Len(got) - 1) + 1)..End : Input[i] # Space})
      BY <1>1, <1>3, <1>11 DEF StreamInv
  <2>4. /\ sd'.leading = Spaces(Contents(dec)')
        /\ sd'.waiting = (sd'.leading = Len(Contents(dec)'))
      BY <1>9, <1>11
  <2>5. (Len(got) > 0 =>
          sd.pos = Cardinality({i \in (EndOf(Len(got) - 1) + 1)..End : Input[i] # Space}))'
      BY <1>9, <2>1, <2>3
  <2>6. /\ sd' \in StreamType /\ ~sd'.terminal /\ sd'.configured = sd'.opts
        /\ dec'.toggles = sd'.configured \cap Sticky /\ dec'.failed = "no"
        /\ call'.before = Offset(dec)'
      BY <1>3, <1>7, <1>8, <1>9, <1>11, <1>15
  <2> QED
      BY <2>2, <2>4, <2>5, <2>6 DEF StreamInv
<1>18. KeptInv'
  <2>1. ~KeepsAndPeeks => \A r \in kept : r.buf # dec'.buf
    <3> SUFFICES ASSUME ~KeepsAndPeeks, NEW r \in kept, r.buf = dec'.buf PROVE FALSE
        OBVIOUS
    <3>1. r.buf # 0 /\ (r.buf = dec.buf => sd.detach)
        BY <1>1 DEF KeptInv
    <3>2. CASE R
        BY <1>7, <3>1, <3>2 DEF NewDec, d
    <3>3. CASE ~R
        BY <1>2, <1>7, <3>1, <3>3 DEF d
    <3> QED
        BY <3>2, <3>3
  <2> QED
      BY <1>1, <1>3, <2>1, KeptKeeps
<1> QED
    BY <1>9, <1>13, <1>14, <1>16, <1>17, <1>18, StreamAlone DEF StreamsInv

\* The size of a value is the number of its bytes that are not spaces.
LEMMA ValueSize ==
    ASSUME TypeInv, BufferInv, TextInv, Alive, End \in Nat, End <= Consumed, Blank(End, Consumed),
           Scanned = "value"
    PROVE  Cardinality({i \in (End + 1)..(Consumed + Size) : Input[i] # Space}) =
             Size - Spaces(Contents(dec))
<1> DEFINE s == Contents(dec)
           a == Spaces(s)
           K == {i \in (End + 1)..(Consumed + Size) : Input[i] # Space}
<1>1. s \in Seq(Nat) /\ Len(s) \in Nat /\ Size \in Nat /\ Size <= Len(s)
    BY ContentsFacts, SizeFacts
<1>2. a \in Nat /\ a < Size /\ \A i \in 1..a : s[i] = Space
    BY <1>1, SizeFacts, SpacesFacts
<1>3. \A i \in (a + 1)..Size : s[i] # Space
    BY ValueBytes DEF Space
<1>4. Consumed \in Nat /\ \A i \in 1..Len(s) : Input[Consumed + i] = s[i]
    BY TextFacts
<1> HIDE DEF s, a
<1>5. ASSUME NEW i \in (Consumed + a + 1)..(Consumed + Size) PROVE i \in K
  <2>1. i \in (End + 1)..(Consumed + Size)
      BY <1>1, <1>2, <1>4
  <2>2. /\ i - Consumed \in (a + 1)..Size /\ i - Consumed \in 1..Len(s)
        /\ Consumed + (i - Consumed) = i
      BY <1>1, <1>2, <1>4
  <2> QED
      BY <1>3, <1>4, <2>1, <2>2
<1>6. ASSUME NEW i \in K PROVE i \in (Consumed + a + 1)..(Consumed + Size)
  <2>1. i \in (End + 1)..(Consumed + Size) /\ Input[i] # Space /\ i \in Int
      BY <1>1, <1>4
  <2>2. ~(i <= Consumed)
    <3>1. i <= Consumed => i \in (End + 1)..Consumed
        BY <1>1, <1>4, <2>1
    <3> QED
        BY <2>1, <3>1 DEF Blank
  <2>3. ~(i <= Consumed + a)
    <3> SUFFICES ASSUME i <= Consumed + a PROVE FALSE
        OBVIOUS
    <3>1. i - Consumed \in 1..a /\ i - Consumed \in 1..Len(s) /\ Consumed + (i - Consumed) = i
        BY <1>1, <1>2, <1>4, <2>1, <2>2
    <3> QED
        BY <1>2, <1>4, <2>1, <3>1
  <2> QED
      BY <1>1, <1>2, <1>4, <2>1, <2>3
<1>7. K = (Consumed + a + 1)..(Consumed + Size)
  <2> HIDE DEF K
  <2> QED
      BY <1>5, <1>6, <1>1, <1>2, <1>4
<1>8. Cardinality((Consumed + a + 1)..(Consumed + Size)) = Size - a
  <2>1. Consumed + a + 1 \in Int /\ Consumed + Size \in Int /\ Consumed + a + 1 <= Consumed + Size
      BY <1>1, <1>2, <1>4
  <2> DEFINE x == Consumed + a + 1
             y == Consumed + Size
  <2>2. x \in Int /\ y \in Int /\ ~(x > y) /\ y - x + 1 = Size - a
      BY <1>1, <1>2, <1>4, <2>1
  <2> HIDE DEF x, y
  <2>3. Cardinality(x..y) = y - x + 1
      BY <2>2, FS_Interval
  <2> QED
      BY <2>2, <2>3 DEF x, y
<1> QED
    BY <1>7, <1>8 DEF s, a

\* What an answer lets the caller keep is the value, in a buffer that is given up.
LEMMA KeptAnswer ==
    ASSUME TypeInv, BufferInv, TextInv, Alive, KeptInv, CallInv, call.op = "decode",
           NEW retains \in BOOLEAN, retains => call.dest = "raw",
           Answer(retains), source' = source, dec'.buf = dec.buf,
           retains => (Stream => sd.detach)' /\ (Compat => cs.detach)' /\ (String => ~st.live)'
    PROVE  KeptInv'
<1> DEFINE s == Contents(dec)
           new == [val |-> Value, buf |-> dec.buf, from |-> dec.scanp + Spaces(s) + 1,
                   len |-> Size - Spaces(s)]
<1>1. mem' = mem /\ Idle' /\ ~Idle
    BY DEF Answer, NoCall, Idle
<1>2. ASSUME NEW r \in kept, ~KeepsAndPeeks
      PROVE  /\ "raw" \in source.dests
             /\ r.buf \in 1..Len(mem) /\ r.from \in Nat \ {0} /\ r.from + r.len <= Len(mem[r.buf]) + 1
             /\ \A j \in 1..r.len : mem[r.buf][r.from + j - 1] \div 2 = r.val
             /\ r.buf # dec.buf
    BY <1>1, <1>2 DEF KeptInv
<1>3. CASE Scanned = "value" /\ retains
  <2>1. kept' = kept \cup {new}
      BY <1>3 DEF Answer
  <2>2. "raw" \in source.dests
      BY <1>3 DEF CallInv
  <2>3. /\ s \in Seq(Nat) /\ Len(s) \in Nat /\ Size \in Nat /\ Size <= Len(s) /\ Len(s) = dec.len - dec.scanp
        /\ Spaces(s) \in Nat /\ Spaces(s) < Size
      BY <1>3, ContentsFacts, SizeFacts, SpacesFacts
  <2>4. dec.buf # 0 /\ dec.buf \in 1..Len(mem) /\ dec.len <= Len(mem[dec.buf])
        /\ Len(mem[dec.buf]) \in Nat
    <3>1. dec.scanp \in Nat /\ dec.len \in Nat /\ dec.buf \in Nat /\ Len(mem) \in Nat
        BY TypesOf
    <3>2. dec.len # 0
        BY <2>3, <3>1
    <3>3. dec.buf # 0 /\ dec.buf \in 1..Len(mem) /\ dec.len <= Len(mem[dec.buf])
        BY <3>1, <3>2 DEF BufferInv
    <3> QED
        BY <3>3, TypesOf
  <2> DEFINE a == Spaces(s)
             d == dec.scanp
             b == dec.buf
  <2>5. d \in Nat /\ a \in Nat /\ Size \in Nat /\ a < Size /\ d + Size <= dec.len /\ dec.len \in Nat
        /\ dec.len <= Len(mem[b]) /\ Len(mem[b]) \in Nat
    <3>1. d \in Nat /\ dec.len \in Nat
        BY TypesOf
    <3> QED
        BY <2>3, <2>4, <3>1
  <2>6. new.buf = b /\ new.from = d + a + 1 /\ new.len = Size - a /\ new.val = Value
      OBVIOUS
  <2>7. \A i \in 1..Len(s) : s[i] = mem[b][d + i]
      BY <2>4, ContentsFacts
  <2>8. \A i \in (a + 1)..Size : s[i] \div 2 = Value
      BY <1>3, ValueBytes
  <2> HIDE DEF a, d, b, new, s
  <2>9. new.from \in Nat \ {0} /\ new.from + new.len <= Len(mem[new.buf]) + 1
      BY <2>5, <2>6
  <2>10. ASSUME NEW j \in 1..new.len PROVE mem[new.buf][new.from + j - 1] \div 2 = new.val
    <3>1. a + j \in (a + 1)..Size /\ a + j \in 1..Len(s)
        BY <2>3, <2>5, <2>6 DEF a
    <3>2. new.from + j - 1 = d + (a + j)
        BY <2>5, <2>6
    <3> QED
        BY <2>6, <2>7, <2>8, <3>1, <3>2
  <2>11. new.buf \in 1..Len(mem)
      BY <2>4, <2>6 DEF b
  <2>12. (Stream => sd.detach)' /\ (Compat => cs.detach)' /\ (String => ~st.live)'
      BY <1>3
  <2> SUFFICES ASSUME ~KeepsAndPeeks, NEW r \in kept'
               PROVE  /\ "raw" \in source.dests
                      /\ r.buf \in 1..Len(mem) /\ r.from \in Nat \ {0}
                      /\ r.from + r.len <= Len(mem[r.buf]) + 1
                      /\ \A j \in 1..r.len : mem[r.buf][r.from + j - 1] \div 2 = r.val
      BY <1>1, <2>12 DEF KeptInv, KeepsAndPeeks, Cases
  <2>13. CASE r = new
      BY <2>2, <2>9, <2>10, <2>11, <2>13
  <2>14. CASE r \in kept
      BY <1>2, <2>14
  <2> QED
      BY <2>1, <2>13, <2>14
<1>4. CASE ~(Scanned = "value" /\ retains)
  <2>1. kept' = kept
      BY <1>4 DEF Answer
  <2> QED
      BY <1>1, <1>2, <2>1, KeptKeeps
<1> QED
    BY <1>3, <1>4

\* A value is consumed and counted from its first byte; an error is placed there.
LEMMA StreamDecodeEnd ==
    ASSUME StreamsInv, Stream, source' = source, S!DecodeEnd
    PROVE  StreamsInv'
<1> DEFINE s == Contents(dec)
<1>1. /\ TypeInv /\ BufferInv /\ CallInv /\ TextInv /\ EndInv /\ StreamInv /\ KeptInv
      /\ sd \in StreamType
    BY DEF StreamsInv, StreamInv
<1>2. PICK fits \in Fits :
        /\ sd' = [sd EXCEPT !.detach = S!Retains,
                            !.terminal = S!Ended(fits),
                            !.at = IF S!Ended(fits) THEN sd.offset + call.before + sd.leading ELSE @,
                            !.pos = IF Size = 0 THEN @
                                    ELSE Offset(dec) + Size - call.before - sd.leading]
        /\ got' = IF Size # 0 /\ fits THEN Append(got, Value) ELSE got
    BY StreamReader DEF S!DecodeEnd, S!Detach
<1>3. call.op = "decode" /\ Scanned # "more" /\ Answer(S!Retains)
    BY StreamReader DEF S!DecodeEnd
<1>4. /\ S!Retains \in BOOLEAN /\ (S!Retains => call.dest = "raw")
      /\ S!Ended(fits) = (Scanned # "value" \/ ~fits) /\ fits \in BOOLEAN
      /\ (Scanned # "value" => fits)
    BY StreamReader DEF S!Retains, S!Ended, Fits
<1>5. inp.read <= Len(Input) /\ ~Idle /\ ~sd.terminal /\ dec.failed = "no"
      /\ sd.leading = Spaces(s) /\ call.before = Offset(dec)
    BY <1>1, <1>3, StreamAlone DEF TextInv, StreamInv, Idle
<1>6. /\ dec' \in DecType /\ call' = NoCall /\ UNCHANGED <<mem, inp, changes>>
      /\ kept' \subseteq [val : Nat, buf : Nat, from : Nat, len : Nat]
      /\ BufferInv' /\ CallInv'
      /\ Offset(dec)' = Offset(dec) + Size /\ Rest' = Drop(Rest, Size)
      /\ dec'.toggles = dec.toggles /\ dec'.buf = dec.buf
      /\ dec'.failed = IF Scanned = "value" THEN "no" ELSE Scanned
    BY <1>1, <1>3, <1>4, <1>5, AnswerFacts
<1>7. /\ s \in Seq(Nat) /\ Len(s) \in Nat /\ Size \in 0..Len(s) /\ Size \in Nat
      /\ Spaces(s) \in 0..Len(s) /\ (Spaces(s) < Len(s) => s[Spaces(s) + 1] # Space)
      /\ \A i \in 1..Spaces(s) : s[i] = Space
    BY <1>1, ContentsFacts, SizeFacts, SpacesFacts
<1>8. Offset(dec) \in Nat /\ sd.offset \in Nat /\ sd.pos \in Nat /\ sd.at \in Nat
    BY <1>1, TypesOf DEF Offset, StreamType
<1> DEFINE e == Scanned # "value" \/ ~fits
           at == IF e THEN sd.offset + Offset(dec) + Spaces(s) ELSE sd.at
           pos == IF Size = 0 THEN sd.pos ELSE Size - Spaces(s)
<1>9. /\ sd' \in StreamType /\ sd'.offset = sd.offset /\ sd'.opts = sd.opts
      /\ sd'.configured = sd.configured /\ sd'.terminal = e
      /\ sd'.at = at /\ sd'.detach = S!Retains /\ sd'.pos = pos
  <2>1. at \in Nat
      BY <1>7, <1>8
  <2>2. pos \in Nat
    <3>1. Size # 0 => Spaces(s) < Size
        BY <1>1, SizeFacts
    <3> QED
        BY <1>7, <1>8, <3>1
  <2>3. Size # 0 => Offset(dec) + Size - call.before - sd.leading = Size - Spaces(s)
      BY <1>5, <1>7, <1>8
  <2>4. sd' = [sd EXCEPT !.detach = S!Retains, !.terminal = e, !.at = at, !.pos = pos]
      BY <1>1, <1>2, <1>4, <1>5, <2>3 DEF StreamType
  <2>5. e \in BOOLEAN
      OBVIOUS
  <2> HIDE DEF e, at, pos, s
  <2> QED
      BY <1>1, <1>4, <2>1, <2>2, <2>4, <2>5 DEF StreamType
<1>10. Consumed' = Consumed + Size
    BY <1>6, <1>7, <1>8, <1>9, StreamAlone
<1>11. TextInv'
    BY <1>1, <1>6, <1>7, <1>10, StreamAlone, Advance
<1>12. End \in Nat /\ End <= Consumed /\ Blank(End, Consumed) /\ Consumed \in Nat
    BY <1>1, <1>5, StreamAlone, TextFacts DEF EndInv, IsEnd
<1>13. KeptInv'
  <2>1. S!Retains => (Stream => sd.detach)' /\ (Compat => cs.detach)' /\ (String => ~st.live)'
      BY <1>9, StreamAlone
  <2> QED
      BY <1>1, <1>3, <1>4, <1>6, <2>1, StreamAlone, KeptAnswer
<1>14. dec'.toggles = sd'.configured \cap Sticky
    BY <1>1, <1>6, <1>9 DEF StreamInv
<1>15. call'.op = "none" /\ Idle'
    BY <1>6 DEF NoCall, Idle
<1> HIDE DEF s
<1>16. CASE ~e
  <2>1. Scanned = "value" /\ fits /\ Size # 0
      BY <1>1, <1>16, SizeFacts
  <2>2. got' = Append(got, Value)
      BY <1>2, <2>1
  <2>3. EndInv' /\ Len(got') = Len(got) + 1 /\ End' = Consumed + Size /\ EndOf(Len(got') - 1) = End
      BY <1>1, <1>10, <1>12, <2>1, <2>2, StreamAlone, EndNext
  <2>4. got' \in Seq(Nat)
      BY <1>1, <2>1, <2>2, SizeFacts, AppendProperties DEF TypeInv
  <2>5. Input' = Input /\ \A k : EndOf(k)' = EndOf(k)
      BY DEF Input, EndOf
  <2>6. sd'.pos = Cardinality({i \in (End + 1)..(Consumed + Size) : Input[i] # Space})
      BY <1>1, <1>9, <1>12, <2>1, StreamAlone, ValueSize DEF s
  <2>7. (sd.pos = Cardinality({i \in (EndOf(Len(got) - 1) + 1)..End : Input[i] # Space}))'
      BY <2>3, <2>5, <2>6
  <2>8. ~sd'.terminal /\ dec'.failed = "no"
      BY <1>6, <1>9, <1>16, <2>1
  <2>9. StreamInv'
      BY <1>9, <1>14, <1>15, <2>7, <2>8 DEF StreamInv
  <2>10. TypeInv'
      BY <1>1, <1>6, <2>4 DEF TypeInv, NoCall
  <2> QED
      BY <1>6, <1>11, <1>13, <2>3, <2>9, <2>10, StreamAlone DEF StreamsInv
<1>17. CASE e
  <2>1. got' = got
      BY <1>1, <1>2, <1>4, <1>17, SizeFacts
  <2>2. sd'.terminal /\ sd'.at = Consumed + Spaces(s)
      BY <1>9, <1>17, StreamAlone
  <2>3. EndInv'
    <3>1. End <= Consumed'
        BY <1>7, <1>10, <1>12
    <3> QED
        BY <1>1, <2>1, <2>2, <3>1, StreamAlone, EndKeeps
  <2>4. Input' = Input /\ End' = End /\ inp' = inp
      BY <1>6, <2>1, SameEnds
  <2>5. Blank(End, Consumed + Spaces(s))
      BY <1>1, <1>7, <1>12, StreamAlone, BlankAdvance DEF s
  <2>6. /\ Consumed + Len(s) <= Len(Input) /\ Len(Input) \in Nat /\ inp.read \in Nat
        /\ \A i \in 1..Len(s) : Input[Consumed + i] = s[i]
        /\ inp.pending = <<>> => Consumed + Len(s) = inp.read
      BY <1>1, StreamAlone, TextFacts DEF s
  <2>7. Consumed + Spaces(s) \in End..Len(Input)
      BY <1>7, <1>12, <2>6
  <2>8. \/ Consumed + Spaces(s) = inp.read
        \/ Consumed + Spaces(s) < Len(Input) /\ Input[Consumed + Spaces(s) + 1] # Space
    <3>1. CASE Spaces(s) < Len(s)
      <4>1. /\ Spaces(s) + 1 \in 1..Len(s) /\ Consumed + Spaces(s) < Len(Input)
            /\ Consumed + (Spaces(s) + 1) = Consumed + Spaces(s) + 1
          BY <1>7, <1>12, <2>6, <3>1
      <4> QED
          BY <1>7, <2>6, <3>1, <4>1
    <3>2. CASE ~(Spaces(s) < Len(s))
      <4>1. Spaces(s) = Len(s)
          BY <1>7, <3>2
      <4>2. Stops(s) = {}
        <5>1. Stops(s) # {} => Stop(s) \in 1..Len(s) /\ Spaces(s) < Stop(s)
            BY <1>7, StopFacts
        <5> QED
            BY <1>7, <4>1, <5>1
      <4>3. Scanned # "value" /\ Scanned = Scan(s, call.end)
        <5>1. Scanned = Scan(s, call.end)
            BY <1>5 DEF Scanned, s
        <5> QED
            BY <4>2, <5>1 DEF Scan
      <4>4. call.end # "no"
          BY <1>3, <4>2, <4>3 DEF Scan
      <4>5. inp.pending = <<>>
          BY <1>1, <4>4 DEF CallInv
      <4> QED
          BY <2>6, <4>1, <4>5
    <3> QED
        BY <3>1, <3>2
  <2>9. Blank(End, sd.at)'
      BY <2>2, <2>4, <2>5 DEF Blank
  <2>10. (sd.at \in End..Len(Input))'
      BY <2>2, <2>4, <2>7
  <2>11. (sd.at = inp.read \/ (sd.at < Len(Input) /\ Input[sd.at + 1] # Space))'
      BY <2>2, <2>4, <2>8
  <2>12. StreamInv'
      BY <1>9, <1>14, <1>15, <2>2, <2>9, <2>10, <2>11 DEF StreamInv
  <2>13. TypeInv'
      BY <1>1, <1>6, <2>1 DEF TypeInv, NoCall
  <2> QED
      BY <1>6, <1>11, <1>13, <2>3, <2>12, <2>13, StreamAlone DEF StreamsInv
<1> QED
    BY <1>16, <1>17

\* StreamDecoder keeps the invariant.
LEMMA StreamNext ==
    ASSUME StreamsInv, Stream, S!Next
    PROVE  StreamsInv'
<1>1. source' = source
    BY DEF S!Next
<1>2. sd.opts \in Options /\ Options = {o \in SUBSET (Sticky \cup {"UseInt64"}) : ~({"UseNumber", "UseInt64"} \subseteq o)}
    BY DEF StreamsInv, StreamInv, StreamType, Options
<1>3. ASSUME NEW o, S!Choose(o), o \in Options PROVE StreamsInv'
    BY <1>1, <1>3, StreamChoose
<1>4. CASE \E dest \in source.dests : S!Decode(dest)
    BY <1>1, <1>4, StreamDecodes
<1>5. CASE S!Read
    BY <1>1, <1>5, StreamRead
<1>6. CASE S!ReadEnd
    BY <1>1, <1>6, StreamReadEnd
<1>7. CASE S!DecodeEnd
    BY <1>1, <1>7, StreamDecodeEnd
<1>8. CASE S!More
    BY <1>1, <1>8, StreamMore
<1>9. CASE S!MoreEnd
    BY <1>1, <1>9, StreamMoreEnd
<1>10. CASE S!SetOptions
    BY <1>3, <1>10, StreamReader DEF S!SetOptions
<1>11. CASE S!UseNumber
  <2>1. ((sd.opts \ {"UseInt64"}) \cup {"UseNumber"}) \in Options
      BY <1>2 DEF Sticky
  <2> QED
      BY <1>3, <1>11, <2>1 DEF S!UseNumber
<1>12. CASE S!UseInt64
  <2>1. ((sd.opts \ {"UseNumber"}) \cup {"UseInt64"}) \in Options
      BY <1>2 DEF Sticky
  <2> QED
      BY <1>3, <1>12, <2>1 DEF S!UseInt64
<1>13. CASE S!DisallowUnknownFields
  <2>1. (sd.opts \cup {"DisableUnknown"}) \in Options
      BY <1>2 DEF Sticky
  <2> QED
      BY <1>3, <1>13, <2>1 DEF S!DisallowUnknownFields
<1> QED
    BY <1>4, <1>5, <1>6, <1>7, <1>8, <1>9, <1>10, <1>11, <1>12, <1>13 DEF S!Next
-----------------------------------------------------------------------------------
(* The steps of the compatible stream decoder.                                     *)

\* CompatStream's json.Decoder is that of Streams.
LEMMA CompatReader ==
    /\ C!Chunks = Chunks /\ C!TakeEnd = TakeEnd /\ C!PeekMore = PeekMore
    /\ C!StartMore = StartMore /\ C!Scanned = Scanned /\ C!Size = Size /\ C!Value = Value
    /\ C!Fits = Fits /\ C!Idle = Idle /\ C!NewDec = NewDec /\ C!Options = Options
    /\ C!Sticky = Sticky /\ C!Cases = Cases /\ C!NoCall = NoCall
    /\ \A c : C!Take(c) = Take(c)
    /\ \A r : C!Answer(r) = Answer(r)
    /\ \A s : C!Spaces(s) = Spaces(s)
    /\ \A d : C!Contents(d) = Contents(d) /\ C!Offset(d) = Offset(d)
    BY DEF C!Chunks, Chunks, C!TakeEnd, TakeEnd, C!PeekMore, PeekMore, C!StartMore, StartMore,
       C!Scanned, Scanned, C!Size, Size, C!Value, Value, C!Fits, Fits, C!Idle, Idle,
       C!NewDec, NewDec, C!Options, Options, C!Sticky, Sticky, C!Cases, Cases,
       C!Take, Take, C!Answer, Answer, C!Spaces, Spaces, C!Contents, Contents, C!Offset, Offset,
       C!Wants, Wants, C!Buffered, Buffered, C!Peek, Peek, C!Refilled, Refilled, C!Slid, Slid,
       C!Scan, Scan, C!Stop, Stop, C!Stops, Stops, C!IsLast, IsLast, C!Space, Space,
       C!Malformed, Malformed, C!Unread, Unread, C!Input, Input, C!NoCall, NoCall

\* Only the compatible decoder is there.
LEMMA CompatAlone ==
    ASSUME Compat, source' = source
    PROVE  /\ Alive /\ ~String /\ ~Stream /\ Compat' /\ ~String' /\ ~Stream'
           /\ StreamInv' /\ StringInv'
           /\ Consumed = Len(Input) - Len(Rest) /\ Consumed' = Len(Input) - Len(Rest')
           /\ (Terminal <=> cs.terminal) /\ (Terminal' <=> cs'.terminal)
           /\ Opts = cs.opts
    BY DEF Stream, String, Compat, Alive, StreamInv, StringInv, Consumed, Terminal, Opts, Input

\* A refill moves the buffer only.
LEMMA CompatRead ==
    ASSUME StreamsInv, Compat, source' = source, C!Read
    PROVE  StreamsInv'
<1>1. /\ TypeInv /\ BufferInv /\ CallInv /\ TextInv /\ EndInv /\ CompatInv /\ KeptInv
    BY DEF StreamsInv
<1>2. PICK c \in Chunks : Take(c)
    BY CompatReader DEF C!Read
<1>3. inp.read <= Len(Input) /\ UNCHANGED <<call, got, kept, changes>> /\ cs' = cs
    BY <1>1, <1>2, CompatAlone DEF TextInv, Take, C!Read
<1>4. /\ TypeInv' /\ BufferInv' /\ CallInv' /\ inp'.read <= Len(Input)
      /\ Rest' = Rest
      /\ dec'.toggles = dec.toggles /\ dec'.failed = dec.failed /\ Wants
      /\ Len(mem) <= Len(mem') /\ \A b \in 1..Len(mem) : Len(mem'[b]) = Len(mem[b])
      /\ \A b \in 1..Len(mem) : b # dec.buf => mem'[b] = mem[b] /\ b # dec'.buf
    BY <1>1, <1>2, <1>3, TakeFacts
<1>5. ~Idle /\ ~cs.terminal
    BY <1>1, <1>4, WantsFacts DEF CompatInv
<1>6. Consumed' = Consumed /\ TextInv'
    BY <1>1, <1>4, CompatAlone, TextKeeps
<1>7. EndInv'
    BY <1>1, <1>3, <1>5, <1>6, CompatAlone, EndKeeps DEF EndInv
<1>8. KeptInv'
    BY <1>1, <1>3, <1>4, <1>5, KeptTake DEF TypeInv
<1>9. CompatInv'
    BY <1>1, <1>3, <1>4, <1>5 DEF CompatInv, C!Toggles, C!Sticky
<1> QED
    BY <1>4, <1>6, <1>7, <1>8, <1>9, CompatAlone DEF StreamsInv

\* The reader's end or failure moves the buffer only.
LEMMA CompatReadEnd ==
    ASSUME StreamsInv, Compat, source' = source, C!ReadEnd
    PROVE  StreamsInv'
<1>1. /\ TypeInv /\ BufferInv /\ CallInv /\ TextInv /\ EndInv /\ CompatInv /\ KeptInv
    BY DEF StreamsInv
<1>2. TakeEnd /\ cs' = cs
    BY CompatReader DEF C!ReadEnd
<1>3. inp.read <= Len(Input) /\ UNCHANGED <<inp, got, kept, changes>>
    BY <1>1, <1>2, CompatAlone DEF TextInv, TakeEnd
<1>4. /\ TypeInv' /\ BufferInv' /\ CallInv' /\ inp' = inp
      /\ Rest' = Rest
      /\ dec'.toggles = dec.toggles /\ dec'.failed = dec.failed /\ Wants
      /\ call'.op = call.op
      /\ Len(mem) <= Len(mem') /\ \A b \in 1..Len(mem) : Len(mem'[b]) = Len(mem[b])
      /\ \A b \in 1..Len(mem) : b # dec.buf => mem'[b] = mem[b] /\ b # dec'.buf
    BY <1>1, <1>2, <1>3, TakeEndFacts
<1>5. ~Idle /\ ~cs.terminal
    BY <1>1, <1>4, WantsFacts DEF CompatInv
<1>6. Consumed' = Consumed /\ TextInv'
    BY <1>1, <1>3, <1>4, CompatAlone, TextKeeps
<1>7. EndInv'
    BY <1>1, <1>2, <1>3, <1>5, <1>6, CompatAlone, EndKeeps DEF EndInv
<1>8. KeptInv'
    BY <1>1, <1>3, <1>4, <1>5, KeptTake DEF TypeInv
<1>9. CompatInv'
    BY <1>1, <1>2, <1>4, <1>5 DEF CompatInv, C!Toggles, C!Sticky
<1> QED
    BY <1>4, <1>6, <1>7, <1>8, <1>9, CompatAlone DEF StreamsInv

\* More begins with a decoder that has no error.
LEMMA CompatMore ==
    ASSUME StreamsInv, Compat, source' = source, C!More
    PROVE  StreamsInv'
<1>1. /\ TypeInv /\ BufferInv /\ CallInv /\ TextInv /\ EndInv /\ CompatInv /\ KeptInv
    BY DEF StreamsInv
<1>2. ~cs.terminal /\ StartMore /\ cs' = cs
    BY CompatReader DEF C!More
<1>3. /\ "more" \in Cases /\ Idle /\ call' = [NoCall EXCEPT !.op = "more"]
      /\ UNCHANGED <<mem, dec, inp, got, kept, changes>>
    BY <1>2 DEF StartMore
<1>4. call' = [op |-> "more", dest |-> "plain", before |-> 0, end |-> "no"]
    BY <1>3 DEF NoCall
<1>5. Rest' = Rest /\ BufferInv'
    BY <1>1, <1>3, SameReader
<1>6. TypeInv'
  <2>1. call' \in [op : {"none", "decode", "more"}, dest : {"plain", "raw"}, before : Nat,
                   end : {"no", "eof", "error"}]
      BY <1>4
  <2> QED
      BY <1>1, <1>3, <2>1 DEF TypeInv
<1>7. CallInv'
    BY <1>3, <1>4 DEF CallInv, Cases
<1>8. Consumed' = Consumed /\ TextInv'
    BY <1>1, <1>3, <1>5, CompatAlone, TextKeeps DEF TextInv
<1>9. EndInv'
    BY <1>1, <1>2, <1>3, <1>8, CompatAlone, EndKeeps DEF EndInv
<1>10. CompatInv'
    BY <1>1, <1>2, <1>3, <1>4 DEF CompatInv, C!Toggles, C!Sticky
<1>11. KeptInv'
    BY <1>1, <1>3, KeptKeeps DEF KeptInv, KeepsAndPeeks
<1> QED
    BY <1>5, <1>6, <1>7, <1>8, <1>9, <1>10, <1>11, CompatAlone DEF StreamsInv

\* More consumes spaces only.
LEMMA CompatMoreEnd ==
    ASSUME StreamsInv, Compat, source' = source, C!MoreEnd
    PROVE  StreamsInv'
<1>1. /\ TypeInv /\ BufferInv /\ CallInv /\ TextInv /\ EndInv /\ CompatInv /\ KeptInv
    BY DEF StreamsInv
<1>2. PeekMore /\ cs' = cs
    BY CompatReader DEF C!MoreEnd
<1>3. inp.read <= Len(Input) /\ ~Idle /\ call.op = "more"
    BY <1>1, <1>2, CompatAlone DEF TextInv, PeekMore, Idle
<1>4. /\ TypeInv' /\ BufferInv' /\ CallInv' /\ call' = NoCall
      /\ UNCHANGED <<mem, inp, got, kept, changes>>
      /\ dec'.toggles = dec.toggles /\ dec'.buf = dec.buf /\ dec'.failed = dec.failed
    BY <1>1, <1>2, <1>3, PeekFacts
<1>5. PICK n \in 0..Len(Contents(dec)) :
        /\ \A i \in 1..n : Contents(dec)[i] = Space
        /\ Rest' = Drop(Rest, n)
    BY <1>1, <1>2, <1>3, PeekFacts
<1>6. Consumed' = Consumed + n /\ TextInv' /\ n \in Nat
    BY <1>1, <1>4, <1>5, CompatAlone, Advance, ContentsFacts
<1>7. ~cs.terminal
    BY <1>1, <1>3 DEF CompatInv
<1>8. EndInv'
  <2>1. End \in Nat /\ End <= Consumed /\ Blank(End, Consumed) /\ Consumed \in Nat
      BY <1>1, <1>7, CompatAlone, TextFacts DEF EndInv, IsEnd
  <2>2. Blank(End, Consumed')
      BY <1>1, <1>5, <1>6, <2>1, CompatAlone, BlankAdvance
  <2>3. End <= Consumed'
      BY <1>6, <2>1
  <2> QED
      BY <1>1, <1>4, <2>2, <2>3, EndKeeps
<1>9. CompatInv'
    BY <1>1, <1>2, <1>4, <1>7 DEF CompatInv, NoCall, C!Toggles, C!Sticky
<1>10. KeptInv'
    BY <1>1, <1>3, <1>4, KeptKeeps DEF KeptInv
<1> QED
    BY <1>4, <1>6, <1>8, <1>9, <1>10, CompatAlone DEF StreamsInv

\* The setters switch toggles on at once, those of the new options included.
LEMMA CompatChoose ==
    ASSUME StreamsInv, Compat, source' = source, NEW o \in Options, C!Choose(o),
           o = (cs.opts \ {"UseInt64"}) \cup {"UseNumber"} \/ o = cs.opts \cup {"DisableUnknown"}
    PROVE  StreamsInv'
<1>1. /\ TypeInv /\ BufferInv /\ CallInv /\ TextInv /\ EndInv /\ CompatInv /\ KeptInv
      /\ cs \in CompatType
    BY DEF StreamsInv, CompatInv
<1>2. /\ Idle /\ cs' = [cs EXCEPT !.opts = o] /\ changes' = changes + 1
      /\ dec' = [dec EXCEPT !.toggles = @ \cup (o \cap Sticky)]
      /\ UNCHANGED <<mem, inp, call, got, kept>>
    BY CompatReader DEF C!Choose
<1>3. /\ cs' \in CompatType /\ cs'.opts = o /\ cs'.terminal = cs.terminal /\ cs'.detach = cs.detach
    BY <1>1, <1>2 DEF CompatType
<1>4. /\ dec' \in DecType /\ dec'.buf = dec.buf /\ dec'.len = dec.len /\ dec'.scanp = dec.scanp
      /\ dec'.scanned = dec.scanned /\ dec'.toggles = dec.toggles \cup (o \cap Sticky)
      /\ dec'.failed = dec.failed
    BY <1>1, <1>2 DEF TypeInv, DecType
<1>5. Rest' = Rest /\ Unread' = Unread /\ Input' = Input /\ BufferInv'
    BY <1>1, <1>2, <1>4, SameBuffer
<1>6. TypeInv' /\ CallInv'
    BY <1>1, <1>2, <1>4, <1>5 DEF TypeInv, CallInv, Cases, Idle
<1>7. Consumed' = Consumed /\ TextInv'
    BY <1>1, <1>2, <1>5, CompatAlone, TextKeeps DEF TextInv
<1>8. EndInv'
    BY <1>1, <1>2, <1>3, <1>7, CompatAlone, EndKeeps DEF EndInv
<1>9. CompatInv'
  <2>1. cs.opts \cap Sticky \subseteq dec.toggles /\ dec.toggles \subseteq C!Toggles(cs.opts)
      BY <1>1 DEF CompatInv
  <2>2. dec'.toggles \subseteq C!Toggles(o)
      BY <1>4, <2>1 DEF C!Toggles, C!Sticky, Sticky
  <2>3. o \cap Sticky \subseteq dec'.toggles
      BY <1>4
  <2> QED
      BY <1>1, <1>2, <1>3, <1>4, <2>2, <2>3 DEF CompatInv, Idle
<1>10. KeptInv'
    BY <1>1, <1>2, <1>3, <1>4, CompatAlone, KeptKeeps DEF KeptInv, Idle
<1> QED
    BY <1>5, <1>6, <1>7, <1>8, <1>9, <1>10, CompatAlone DEF StreamsInv

\* A decoder whose buffer is kept is replaced; what it had buffered is read again.
LEMMA CompatDecodes ==
    ASSUME StreamsInv, Compat, source' = source, NEW dest \in source.dests, C!Decode(dest)
    PROVE  StreamsInv'
<1>1. /\ TypeInv /\ BufferInv /\ CallInv /\ TextInv /\ EndInv /\ CompatInv /\ KeptInv
      /\ cs \in CompatType
    BY DEF StreamsInv, CompatInv
<1>2. /\ Idle /\ ~cs.terminal /\ cs' = [cs EXCEPT !.detach = FALSE]
      /\ call' = [NoCall EXCEPT !.op = "decode", !.dest = dest]
      /\ UNCHANGED <<mem, got, kept, changes>>
    BY CompatReader DEF C!Decode
<1>3. /\ cs' \in CompatType /\ cs'.opts = cs.opts /\ cs'.terminal = cs.terminal /\ ~cs'.detach
    BY <1>1, <1>2 DEF CompatType
<1>4. call' = [op |-> "decode", dest |-> dest, before |-> 0, end |-> "no"]
    BY <1>2 DEF NoCall
<1>5. inp.read <= Len(Input) /\ inp \in [pending : Seq(Nat), read : Nat]
    BY <1>1, CompatAlone DEF TextInv, TypeInv
<1>6. /\ dec' \in DecType /\ dec'.failed = "no"
      /\ inp' \in [pending : Seq(Nat), read : Nat] /\ inp'.read = inp.read
      /\ Rest' = Rest /\ BufferInv'
      /\ cs.opts \cap Sticky \subseteq dec'.toggles /\ dec'.toggles \subseteq C!Toggles(cs.opts)
      /\ ~KeepsAndPeeks => \A r \in kept : r.buf # dec'.buf
  <2>1. CASE cs.detach
    <3>1. /\ dec' = [NewDec EXCEPT !.toggles = cs.opts \cap Sticky]
          /\ inp' = [inp EXCEPT !.pending = Contents(dec) \o @]
        BY <2>1, CompatReader DEF C!Decode, C!Reader
    <3>2. /\ dec' \in DecType /\ dec'.buf = 0 /\ dec'.len = 0 /\ dec'.scanp = 0 /\ dec'.scanned = 0
          /\ dec'.failed = "no" /\ dec'.toggles = cs.opts \cap Sticky
        BY <3>1 DEF NewDec, DecType
    <3>3. /\ inp' \in [pending : Seq(Nat), read : Nat] /\ inp'.read = inp.read
          /\ BufferInv' /\ Rest' = Rest
        BY <1>1, <1>2, <1>5, <3>1, <3>2, Rebuilt
    <3>4. cs.opts \cap Sticky \subseteq C!Toggles(cs.opts)
        BY CompatReader DEF C!Toggles
    <3>5. ~KeepsAndPeeks => \A r \in kept : r.buf # 0
        BY <1>1 DEF KeptInv
    <3> QED
        BY <3>2, <3>3, <3>4, <3>5
  <2>2. CASE ~cs.detach
    <3>1. dec' = dec /\ inp' = inp
        BY <2>2 DEF C!Decode
    <3>2. Rest' = Rest /\ BufferInv'
        BY <1>1, <1>2, <3>1, SameReader
    <3>3. ~KeepsAndPeeks => \A r \in kept : r.buf # dec.buf
        BY <1>1, <2>2 DEF KeptInv
    <3> QED
        BY <1>1, <1>2, <1>5, <3>1, <3>2, <3>3 DEF TypeInv, CompatInv
  <2> QED
      BY <2>1, <2>2
<1>7. TypeInv' /\ CallInv'
  <2>1. dest \in {"plain", "raw"}
      BY <1>1 DEF TypeInv, Source
  <2>2. call' \in [op : {"none", "decode", "more"}, dest : {"plain", "raw"}, before : Nat,
                   end : {"no", "eof", "error"}]
      BY <1>4, <2>1
  <2>3. TypeInv'
      BY <1>1, <1>2, <1>6, <2>2 DEF TypeInv
  <2>4. CallInv'
      BY <1>4 DEF CallInv
  <2> QED
      BY <2>3, <2>4
<1>8. Consumed' = Consumed /\ TextInv'
    BY <1>1, <1>5, <1>6, CompatAlone, TextKeeps
<1>9. EndInv'
    BY <1>1, <1>2, <1>3, <1>8, CompatAlone, EndKeeps DEF EndInv
<1>10. CompatInv'
    BY <1>2, <1>3, <1>4, <1>6 DEF CompatInv, C!Toggles, C!Sticky
<1>11. KeptInv'
    BY <1>1, <1>2, <1>6, KeptKeeps
<1> QED
    BY <1>6, <1>7, <1>8, <1>9, <1>10, <1>11, CompatAlone DEF StreamsInv

\* A value is consumed; an error is final.
LEMMA CompatDecodeEnd ==
    ASSUME StreamsInv, Compat, source' = source, C!DecodeEnd
    PROVE  StreamsInv'
<1>1. /\ TypeInv /\ BufferInv /\ CallInv /\ TextInv /\ EndInv /\ CompatInv /\ KeptInv
      /\ cs \in CompatType
    BY DEF StreamsInv, CompatInv
<1>2. PICK fits \in Fits :
        /\ cs' = [cs EXCEPT !.detach = C!Retains, !.terminal = Size = 0 \/ ~fits]
        /\ got' = IF Size # 0 /\ fits THEN Append(got, Value) ELSE got
    BY CompatReader DEF C!DecodeEnd
<1>3. call.op = "decode" /\ Scanned # "more" /\ Answer(C!Retains)
    BY CompatReader DEF C!DecodeEnd
<1>4. C!Retains \in BOOLEAN /\ (C!Retains => call.dest = "raw") /\ fits \in BOOLEAN
    BY CompatReader DEF C!Retains, Fits
<1>5. inp.read <= Len(Input) /\ ~Idle /\ ~cs.terminal
    BY <1>1, <1>3, CompatAlone DEF TextInv, CompatInv, Idle
<1>6. /\ dec' \in DecType /\ call' = NoCall /\ UNCHANGED <<mem, inp, changes>>
      /\ kept' \subseteq [val : Nat, buf : Nat, from : Nat, len : Nat]
      /\ BufferInv' /\ CallInv' /\ Rest' = Drop(Rest, Size)
      /\ dec'.toggles = dec.toggles /\ dec'.buf = dec.buf
      /\ dec'.failed = IF Scanned = "value" THEN "no" ELSE Scanned
    BY <1>1, <1>3, <1>4, <1>5, AnswerFacts
<1>7. Size \in 0..Len(Contents(dec)) /\ Size \in Nat
    BY <1>1, ContentsFacts, SizeFacts
<1> DEFINE e == Size = 0 \/ ~fits
<1>8. cs' \in CompatType /\ cs'.opts = cs.opts /\ cs'.terminal = e /\ cs'.detach = C!Retains
  <2>1. e \in BOOLEAN /\ cs' = [cs EXCEPT !.detach = C!Retains, !.terminal = e]
      BY <1>2
  <2> HIDE DEF e
  <2> QED
      BY <1>1, <1>4, <2>1 DEF CompatType
<1>9. Consumed' = Consumed + Size /\ TextInv'
    BY <1>1, <1>6, <1>7, CompatAlone, Advance
<1>10. End \in Nat /\ End <= Consumed /\ Blank(End, Consumed) /\ Consumed \in Nat
    BY <1>1, <1>5, CompatAlone, TextFacts DEF EndInv, IsEnd
<1>11. KeptInv'
  <2>1. C!Retains => (Stream => sd.detach)' /\ (Compat => cs.detach)' /\ (String => ~st.live)'
      BY <1>8, CompatAlone
  <2> QED
      BY <1>1, <1>3, <1>4, <1>6, <2>1, CompatAlone, KeptAnswer
<1>12. call'.op = "none" /\ Idle'
    BY <1>6 DEF NoCall, Idle
<1>13. EndInv' /\ got' \in Seq(Nat)
  <2>1. CASE ~e
    <3>1. Scanned = "value" /\ got' = Append(got, Value)
        BY <1>1, <1>2, <2>1, SizeFacts
    <3> QED
        BY <1>1, <1>9, <1>10, <3>1, CompatAlone, EndNext, SizeFacts, AppendProperties DEF TypeInv
  <2>2. CASE e
    <3>1. got' = got /\ End <= Consumed'
        BY <1>2, <1>4, <1>7, <1>9, <1>10, <2>2
    <3> QED
        BY <1>1, <1>8, <2>2, <3>1, CompatAlone, EndKeeps DEF TypeInv
  <2> QED
      BY <2>1, <2>2
<1>14. TypeInv'
    BY <1>1, <1>6, <1>13 DEF TypeInv, NoCall
<1>15. CompatInv'
  <2>1. ~cs'.terminal => dec'.failed = "no"
      BY <1>1, <1>6, <1>8, SizeFacts
  <2>2. cs'.opts \cap Sticky \subseteq dec'.toggles /\ dec'.toggles \subseteq C!Toggles(cs'.opts)
      BY <1>1, <1>6, <1>8 DEF CompatInv
  <2> QED
      BY <1>8, <1>12, <2>1, <2>2 DEF CompatInv, C!Toggles, C!Sticky
<1> QED
    BY <1>6, <1>9, <1>11, <1>13, <1>14, <1>15, CompatAlone DEF StreamsInv

\* The compatible decoder keeps the invariant.
LEMMA CompatNext ==
    ASSUME StreamsInv, Compat, C!Next
    PROVE  StreamsInv'
<1>1. source' = source
    BY DEF C!Next
<1>2. cs.opts \in Options /\ Options = {o \in SUBSET (Sticky \cup {"UseInt64"}) : ~({"UseNumber", "UseInt64"} \subseteq o)}
    BY DEF StreamsInv, CompatInv, CompatType, Options
<1>4. CASE \E dest \in source.dests : C!Decode(dest)
    BY <1>1, <1>4, CompatDecodes
<1>5. CASE C!Read
    BY <1>1, <1>5, CompatRead
<1>6. CASE C!ReadEnd
    BY <1>1, <1>6, CompatReadEnd
<1>7. CASE C!DecodeEnd
    BY <1>1, <1>7, CompatDecodeEnd
<1>8. CASE C!More
    BY <1>1, <1>8, CompatMore
<1>9. CASE C!MoreEnd
    BY <1>1, <1>9, CompatMoreEnd
<1>10. CASE C!UseNumber
  <2>1. ((cs.opts \ {"UseInt64"}) \cup {"UseNumber"}) \in Options
      BY <1>2 DEF Sticky
  <2> QED
      BY <1>1, <1>10, <2>1, CompatChoose DEF C!UseNumber
<1>11. CASE C!DisallowUnknownFields
  <2>1. (cs.opts \cup {"DisableUnknown"}) \in Options
      BY <1>2 DEF Sticky
  <2> QED
      BY <1>1, <1>11, <2>1, CompatChoose DEF C!DisallowUnknownFields
<1> QED
    BY <1>4, <1>5, <1>6, <1>7, <1>8, <1>9, <1>10, <1>11 DEF C!Next
-----------------------------------------------------------------------------------
(* The steps of the string Decoder.                                                *)

\* StringDecode's json.Decoder is that of Streams.
LEMMA StringReader ==
    /\ T!Chunks = Chunks /\ T!TakeEnd = TakeEnd
    /\ T!Scanned = Scanned /\ T!Size = Size /\ T!Value = Value
    /\ T!Idle = Idle /\ T!NewDec = NewDec /\ T!Options = Options
    /\ T!Sticky = Sticky /\ T!Cases = Cases /\ T!NoCall = NoCall /\ T!Input = Input
    /\ \A c : T!Take(c) = Take(c)
    /\ \A r : T!Answer(r) = Answer(r)
    /\ \A d : T!Contents(d) = Contents(d) /\ T!Offset(d) = Offset(d)
    BY DEF T!Chunks, Chunks, T!TakeEnd, TakeEnd,
       T!Scanned, Scanned, T!Size, Size, T!Value, Value, T!Idle, Idle,
       T!NewDec, NewDec, T!Options, Options, T!Sticky, Sticky, T!Cases, Cases,
       T!Take, Take, T!Answer, Answer, T!Spaces, Spaces, T!Contents, Contents, T!Offset, Offset,
       T!Wants, Wants, T!Buffered, Buffered, T!Peek, Peek, T!Refilled, Refilled, T!Slid, Slid,
       T!Scan, Scan, T!Stop, Stop, T!Stops, Stops, T!IsLast, IsLast, T!Space, Space,
       T!Malformed, Malformed, T!Unread, Unread, T!Input, Input, T!NoCall, NoCall

\* Only the string decoder is there.
LEMMA StringAlone ==
    ASSUME String, source'.kind = source.kind
    PROVE  /\ ~Compat /\ ~Stream /\ String' /\ ~Compat' /\ ~Stream'
           /\ StreamInv' /\ CompatInv' /\ (Alive <=> st.live) /\ (Alive' <=> st'.live)
           /\ Consumed = st.base + Offset(dec) /\ Consumed' = st'.base + Offset(dec)'
           /\ ~Terminal /\ ~Terminal' /\ Opts = st.opts
    BY DEF Stream, String, Compat, Alive, StreamInv, CompatInv, Consumed, Terminal, Opts

\* A refill moves the buffer only.
LEMMA StringRead ==
    ASSUME StreamsInv, String, source' = source, T!Read
    PROVE  StreamsInv'
<1>1. /\ TypeInv /\ BufferInv /\ CallInv /\ TextInv /\ EndInv /\ StringInv /\ KeptInv
    BY DEF StreamsInv
<1>2. PICK c \in Chunks : Take(c)
    BY StringReader DEF T!Read
<1>3. st' = st /\ UNCHANGED <<call, got, kept, changes>> /\ Wants
    BY <1>2 DEF Take, T!Read
<1>4. ~Idle /\ st.live
    BY <1>1, <1>3, WantsFacts DEF StringInv
<1>5. inp.read <= Len(Input) /\ Alive
    BY <1>1, <1>4, StringAlone DEF TextInv
<1>6. /\ TypeInv' /\ BufferInv' /\ CallInv' /\ inp'.read <= Len(Input)
      /\ Offset(dec)' = Offset(dec) /\ Rest' = Rest
      /\ dec'.toggles = dec.toggles /\ dec'.failed = dec.failed
      /\ Len(mem) <= Len(mem') /\ \A b \in 1..Len(mem) : Len(mem'[b]) = Len(mem[b])
      /\ \A b \in 1..Len(mem) : b # dec.buf => mem'[b] = mem[b] /\ b # dec'.buf
    BY <1>1, <1>2, <1>5, TakeFacts
<1>7. Consumed' = Consumed /\ TextInv'
    BY <1>1, <1>3, <1>5, <1>6, StringAlone, TextKeeps
<1>8. EndInv'
    BY <1>1, <1>3, EndKeeps
<1>9. KeptInv'
    BY <1>1, <1>3, <1>4, <1>6, KeptTake DEF TypeInv
<1>10. StringInv'
    BY <1>1, <1>3, <1>6, <1>7, SameEnds DEF StringInv, Idle, Blank
<1> QED
    BY <1>6, <1>7, <1>8, <1>9, <1>10, StringAlone DEF StreamsInv

\* The end of the text moves the buffer only.
LEMMA StringReadEnd ==
    ASSUME StreamsInv, String, source' = source, T!ReadEnd
    PROVE  StreamsInv'
<1>1. /\ TypeInv /\ BufferInv /\ CallInv /\ TextInv /\ EndInv /\ StringInv /\ KeptInv
    BY DEF StreamsInv
<1>2. TakeEnd /\ st' = st
    BY StringReader DEF T!ReadEnd
<1>3. UNCHANGED <<inp, got, kept, changes>> /\ Wants
    BY <1>2 DEF TakeEnd
<1>4. ~Idle /\ st.live
    BY <1>1, <1>3, WantsFacts DEF StringInv
<1>5. inp.read <= Len(Input) /\ Alive
    BY <1>1, <1>4, StringAlone DEF TextInv
<1>6. /\ TypeInv' /\ BufferInv' /\ CallInv'
      /\ Offset(dec)' = Offset(dec) /\ Rest' = Rest
      /\ dec'.toggles = dec.toggles /\ dec'.failed = dec.failed /\ call'.op = call.op
      /\ Len(mem) <= Len(mem') /\ \A b \in 1..Len(mem) : Len(mem'[b]) = Len(mem[b])
      /\ \A b \in 1..Len(mem) : b # dec.buf => mem'[b] = mem[b] /\ b # dec'.buf
    BY <1>1, <1>2, <1>5, TakeEndFacts
<1>7. Consumed' = Consumed /\ TextInv'
    BY <1>1, <1>2, <1>3, <1>5, <1>6, StringAlone, TextKeeps
<1>8. EndInv'
    BY <1>1, <1>3, EndKeeps
<1>9. KeptInv'
    BY <1>1, <1>3, <1>4, <1>6, KeptTake DEF TypeInv
<1>10. StringInv'
    BY <1>1, <1>2, <1>3, <1>6, <1>7, SameEnds DEF StringInv, Idle, Blank
<1> QED
    BY <1>6, <1>7, <1>8, <1>9, <1>10, StringAlone DEF StreamsInv

\* invalidateDecoder: the json.Decoder goes, the position stays.
LEMMA StringChoose ==
    ASSUME StreamsInv, String, NEW o \in Options, T!Choose(o)
    PROVE  StreamsInv'
<1>1. /\ TypeInv /\ BufferInv /\ CallInv /\ TextInv /\ EndInv /\ StringInv /\ KeptInv
      /\ st \in StringType
    BY DEF StreamsInv, StringInv
<1>2. /\ Idle /\ st' = [st EXCEPT !.opts = o, !.live = FALSE] /\ changes' = changes + 1
      /\ UNCHANGED <<source, mem, dec, inp, call, got, kept>>
    BY StringReader DEF T!Choose, T!Live
<1>3. st' \in StringType /\ st'.pos = st.pos /\ st'.opts = o /\ ~st'.live
    BY <1>1, <1>2 DEF StringType
<1>4. TypeInv' /\ BufferInv' /\ CallInv'
    BY <1>1, <1>2, SameReader DEF TypeInv, CallInv, Cases, Idle
<1>5. TextInv'
    BY <1>2, <1>3, StringAlone DEF TextInv
<1>6. EndInv'
    BY <1>1, <1>2, EndKeeps
<1>7. StringInv'
    BY <1>1, <1>2, <1>3, SameEnds DEF StringInv, Idle, Blank
<1>8. KeptInv'
    BY <1>1, <1>2, <1>3, StringAlone, KeptKeeps DEF Idle
<1> QED
    BY <1>2, <1>4, <1>5, <1>6, <1>7, <1>8, StringAlone DEF StreamsInv

\* Before the first value.
LEMMA NoValue ==
    ASSUME source \in Source
    PROVE  IsEnd(0, 0) /\ EndOf(0) = 0
<1>1. {j \in 1..0 : IsLast(Input[j])} = {} /\ Len(Input) \in Nat
    BY InputFacts
<1> QED
    BY <1>1, FS_EmptySet DEF IsEnd, EndOf

\* Another text: no value of it is delivered, and no json.Decoder reads it yet.
LEMMA StringReset ==
    ASSUME StreamsInv, String, T!Reset
    PROVE  StreamsInv'
<1>1. /\ TypeInv /\ BufferInv /\ CallInv /\ TextInv /\ EndInv /\ StringInv /\ KeptInv
      /\ st \in StringType
    BY DEF StreamsInv, StringInv
<1>2. /\ Idle /\ st' = [st EXCEPT !.pos = 0, !.live = FALSE]
      /\ got' = <<>> /\ changes' = changes + 1
      /\ UNCHANGED <<mem, dec, inp, call, kept>>
    BY StringReader DEF T!Reset
<1>3. PICK t \in source.resets \ {Input} : source' = [source EXCEPT !.input = t]
    BY StringReader DEF T!Reset
<1>4. /\ source' \in Source /\ source'.kind = source.kind /\ source'.dests = source.dests
      /\ source'.cases = source.cases
    BY <1>1, <1>3 DEF TypeInv, Source
<1>5. st' \in StringType /\ st'.pos = 0 /\ ~st'.live
    BY <1>1, <1>2 DEF StringType
<1>6. Len(got') = 0 /\ got' \in Seq(Nat)
    BY <1>2, EmptySeq
<1>7. TypeInv'
    BY <1>1, <1>2, <1>4, <1>6 DEF TypeInv
<1>8. BufferInv' /\ CallInv'
    BY <1>1, <1>2 DEF BufferInv, CallInv, Idle
<1>9. TextInv'
    BY <1>4, <1>5, StringAlone DEF TextInv
<1>10. Len(Input') \in Nat
  <2>1. Input' \in Texts
      BY <1>4 DEF Source, Input
  <2> QED
      BY <2>1, SeqFacts DEF Texts
<1>11. End' = 0
    BY <1>6 DEF End, EndOf
<1>12. EndInv'
  <2>1. {j \in 1..0 : IsLast(Input'[j])} = {}
      OBVIOUS
  <2>2. Cardinality({j \in 1..0 : IsLast(Input'[j])}) = 0
      BY <2>1, FS_EmptySet
  <2> QED
      BY <1>4, <1>6, <1>10, <1>11, <2>2, StringAlone DEF EndInv, IsEnd
<1>13. StringInv'
    BY <1>2, <1>4, <1>5, <1>11 DEF StringInv, Blank, Idle
<1>14. KeptInv'
  <2>1. KeepsAndPeeks' = KeepsAndPeeks /\ Idle'
      BY <1>2, <1>4 DEF KeepsAndPeeks, Cases, Idle
  <2> QED
      BY <1>1, <1>2, <1>4, <1>5, <2>1, StringAlone DEF KeptInv
<1> QED
    BY <1>4, <1>7, <1>8, <1>9, <1>12, <1>13, <1>14, StringAlone DEF StreamsInv

\* A new json.Decoder begins at the position, which is behind the last value.
LEMMA StringDecodes ==
    ASSUME StreamsInv, String, source' = source, NEW dest \in source.dests, T!Decode(dest)
    PROVE  StreamsInv'
<1>1. /\ TypeInv /\ BufferInv /\ CallInv /\ TextInv /\ EndInv /\ StringInv /\ KeptInv
      /\ st \in StringType
    BY DEF StreamsInv, StringInv
<1>2. /\ Idle /\ st.pos < Len(Input)
      /\ call' = [NoCall EXCEPT !.op = "decode", !.dest = dest]
      /\ UNCHANGED <<mem, got, kept, changes>>
    BY StringReader DEF T!Decode
<1>3. call' = [op |-> "decode", dest |-> dest, before |-> 0, end |-> "no"]
    BY <1>2 DEF NoCall
<1>4. Input \in Seq(Nat) /\ Len(Input) \in Nat /\ Input' = Input /\ st.pos \in Nat
    BY <1>1, InputFacts DEF TypeInv, StringType, Input
<1>5. st.pos = End
    BY <1>1, <1>2, <1>4 DEF StringInv
<1>6. /\ dec' \in DecType /\ dec'.failed # "eof" /\ inp' \in [pending : Seq(Nat), read : Nat]
      /\ st' \in StringType /\ st'.pos = st.pos /\ st'.opts = st.opts /\ st'.live
      /\ dec'.toggles = st.opts \cap Sticky /\ BufferInv' /\ TextInv' /\ Consumed' = End
      /\ ~KeepsAndPeeks => \A r \in kept : r.buf # dec'.buf
  <2>1. CASE st.live
    <3>1. dec' = dec /\ inp' = inp /\ st' = st
        BY <2>1 DEF T!Decode
    <3>2. Rest' = Rest /\ BufferInv' /\ Offset(dec)' = Offset(dec)
        BY <1>1, <1>2, <3>1, SameReader
    <3>3. Consumed' = Consumed /\ Consumed = End
        BY <1>1, <2>1, <3>1, <3>2, StringAlone DEF StringInv
    <3>4. TextInv'
        BY <1>1, <2>1, <3>1, <3>2, <3>3, StringAlone, TextKeeps DEF TextInv
    <3>5. ~KeepsAndPeeks => \A r \in kept : r.buf # dec.buf
        BY <1>1, <2>1 DEF KeptInv
    <3>6. dec.failed # "eof" /\ dec.toggles = st.opts \cap Sticky
        BY <1>1, <1>2, <1>4, <2>1 DEF StringInv
    <3> QED
        BY <1>1, <2>1, <3>1, <3>2, <3>3, <3>4, <3>5, <3>6 DEF TypeInv
  <2>2. CASE ~st.live
    <3>1. /\ dec' = [NewDec EXCEPT !.toggles = st.opts \cap Sticky]
          /\ inp' = [pending |-> <<>>, read |-> st.pos]
          /\ st' = [st EXCEPT !.live = TRUE, !.base = st.pos]
        BY <2>2, StringReader DEF T!Decode
    <3>2. /\ dec' \in DecType /\ dec'.buf = 0 /\ dec'.len = 0 /\ dec'.scanp = 0 /\ dec'.scanned = 0
          /\ dec'.failed = "no" /\ dec'.toggles = st.opts \cap Sticky
        BY <3>1 DEF NewDec, DecType
    <3>3. /\ st' \in StringType /\ st'.pos = st.pos /\ st'.opts = st.opts /\ st'.live
          /\ st'.base = st.pos
        BY <1>1, <1>4, <3>1 DEF StringType
    <3>4. inp' \in [pending : Seq(Nat), read : Nat] /\ inp'.pending = <<>> /\ inp'.read = st.pos
      <4>1. <<>> \in Seq(Nat)
          BY EmptySeq
      <4> QED
          BY <1>4, <3>1, <4>1
    <3>5. BufferInv'
        BY <1>1, <1>2, <3>2, TypesOf DEF BufferInv
    <3>6. Contents(dec)' = <<>> /\ Offset(dec)' = 0
        BY <3>2 DEF Contents, Offset
    <3>7. Consumed' = st.pos
        BY <1>4, <3>3, <3>6, StringAlone
    <3>8. Rest' = Drop(Input, st.pos)
      <4>1. Rest' = (<<>> \o <<>>) \o Drop(Input, st.pos)
          BY <1>4, <3>4, <3>6 DEF Rest, Unread, Drop
      <4>2. st.pos \in 0..Len(Input)
          BY <1>2, <1>4
      <4>3. Drop(Input, st.pos) \in Seq(Nat) /\ <<>> \in Seq(Nat)
          BY <1>4, <4>2, DropFacts, EmptySeq
      <4>4. <<>> \o <<>> = <<>>
          BY <4>3, ConcatEmptySeq
      <4>5. <<>> \o Drop(Input, st.pos) = Drop(Input, st.pos)
          BY <4>3, ConcatEmptySeq
      <4> QED
          BY <4>1, <4>4, <4>5
    <3>9. TextInv'
      <4>1. inp'.read <= Len(Input') /\ Consumed' \in 0..Len(Input')
          BY <1>2, <1>4, <3>4, <3>7
      <4>2. Rest' = SubSeq(Input', Consumed' + 1, Len(Input'))
          BY <1>4, <3>7, <3>8 DEF Drop
      <4> QED
          BY <4>1, <4>2 DEF TextInv
    <3>10. ~KeepsAndPeeks => \A r \in kept : r.buf # 0
        BY <1>1 DEF KeptInv
    <3> QED
        BY <1>5, <3>2, <3>3, <3>4, <3>5, <3>7, <3>9, <3>10
  <2> QED
      BY <2>1, <2>2
<1>7. TypeInv' /\ CallInv'
  <2>1. dest \in {"plain", "raw"}
      BY <1>1 DEF TypeInv, Source
  <2>2. call' \in [op : {"none", "decode", "more"}, dest : {"plain", "raw"}, before : Nat,
                   end : {"no", "eof", "error"}]
      BY <1>3, <2>1
  <2>3. TypeInv'
      BY <1>1, <1>2, <1>6, <2>2 DEF TypeInv
  <2>4. CallInv'
      BY <1>3 DEF CallInv
  <2> QED
      BY <2>3, <2>4
<1>8. EndInv'
    BY <1>1, <1>2, EndKeeps
<1>9. StringInv'
  <2>1. End' = End /\ Cases' = Cases
      BY <1>2, SameEnds
  <2> QED
      BY <1>1, <1>2, <1>3, <1>4, <1>5, <1>6, <2>1 DEF StringInv, Blank
<1>10. KeptInv'
    BY <1>1, <1>2, <1>6, KeptKeeps
<1> QED
    BY <1>6, <1>7, <1>8, <1>9, <1>10, StringAlone DEF StreamsInv

\* The position follows the value consumed, or goes to the end of the text.
LEMMA StringDecodeEnd ==
    ASSUME StreamsInv, String, source' = source, T!DecodeEnd
    PROVE  StreamsInv'
<1> DEFINE s == Contents(dec)
<1>1. /\ TypeInv /\ BufferInv /\ CallInv /\ TextInv /\ EndInv /\ StringInv /\ KeptInv
      /\ st \in StringType
    BY DEF StreamsInv, StringInv
<1>2. PICK end \in T!Ends :
        st' = [st EXCEPT !.pos = IF end THEN Len(Input)
                                 ELSE IF st.base + Offset(dec) + Size > @
                                      THEN st.base + Offset(dec) + Size ELSE @,
                         !.live = call.dest # "raw"]
    BY StringReader DEF T!DecodeEnd, T!Consumed
<1>3. /\ call.op = "decode" /\ Scanned # "more" /\ Answer(T!Retains)
      /\ got' = IF Size # 0 THEN Append(got, Value) ELSE got
    BY StringReader DEF T!DecodeEnd
<1>4. /\ T!Retains \in BOOLEAN /\ (T!Retains => call.dest = "raw")
      /\ end \in BOOLEAN /\ (Scanned = "eof" => end)
      /\ ("eof" \notin Cases => end = (Scanned = "eof"))
  <2>1. Scanned = "eof" => Size = 0
      BY DEF Size
  <2> QED
      BY <2>1, StringReader DEF T!Retains, T!Ends
<1>5. ~Idle /\ st.live /\ st.pos < Len(Input) /\ Consumed = End
    BY <1>1, <1>3 DEF StringInv, Idle
<1>6. Alive /\ inp.read <= Len(Input)
    BY <1>1, <1>5, StringAlone DEF TextInv
<1>7. /\ Consumed \in Nat /\ Len(Input) \in Nat /\ Consumed + Len(s) <= Len(Input)
      /\ inp.pending = <<>> => Consumed + Len(s) = inp.read
    BY <1>1, <1>6, TextFacts
<1>8. st.pos = End /\ dec.failed # "eof"
  <2>1. st.pos \in Nat /\ st.pos # Len(Input)
      BY <1>1, <1>5, <1>7 DEF StringType
  <2> QED
      BY <1>1, <1>5, <2>1 DEF StringInv
<1>9. /\ dec' \in DecType /\ call' = NoCall /\ UNCHANGED <<mem, inp, changes>>
      /\ kept' \subseteq [val : Nat, buf : Nat, from : Nat, len : Nat]
      /\ BufferInv' /\ CallInv'
      /\ Offset(dec)' = Offset(dec) + Size /\ Rest' = Drop(Rest, Size)
      /\ dec'.toggles = dec.toggles /\ dec'.buf = dec.buf
      /\ dec'.failed = IF Scanned = "value" THEN "no" ELSE Scanned
    BY <1>1, <1>3, <1>4, <1>6, AnswerFacts
<1>10. /\ s \in Seq(Nat) /\ Len(s) \in Nat /\ Size \in 0..Len(s) /\ Size \in Nat
       /\ Offset(dec) \in Nat /\ st.base \in Nat
  <2>1. s \in Seq(Nat) /\ Len(s) \in Nat /\ Size \in 0..Len(s) /\ Size \in Nat
      BY <1>1, ContentsFacts, SizeFacts
  <2>2. Offset(dec) \in Nat
      BY <1>1, TypesOf DEF Offset
  <2>3. st.base \in Nat
      BY <1>1 DEF StringType
  <2> QED
      BY <2>1, <2>2, <2>3
<1> DEFINE e == Consumed + Size
           pos == IF end THEN Len(Input) ELSE e
<1>11. /\ st' \in StringType /\ st'.pos = pos /\ st'.opts = st.opts /\ st'.base = st.base
       /\ st'.live = (call.dest # "raw")
  <2>1. e = st.base + Offset(dec) + Size /\ e \in Nat
      BY <1>7, <1>10, StringAlone
  <2>2. pos \in Nat
      BY <1>7, <2>1
  <2>3. pos = IF end THEN Len(Input)
              ELSE IF st.base + Offset(dec) + Size > st.pos
                   THEN st.base + Offset(dec) + Size ELSE st.pos
      BY <1>5, <1>7, <1>8, <1>10, <2>1
  <2>4. st' = [st EXCEPT !.pos = pos, !.live = call.dest # "raw"]
      BY <1>1, <1>2, <2>3 DEF StringType
  <2> HIDE DEF pos, s, e
  <2> QED
      BY <1>1, <2>2, <2>4 DEF StringType
<1>12. Consumed' = e
  <2>1. Consumed' = st.base + (Offset(dec) + Size) /\ Consumed = st.base + Offset(dec)
      BY <1>9, <1>11, StringAlone
  <2> HIDE DEF s, pos
  <2> QED
      BY <1>10, <2>1
<1>13. TextInv'
    BY <1>1, <1>6, <1>9, <1>10, <1>12, Advance
<1>14. KeptInv'
  <2>1. T!Retains => (Stream => sd.detach)' /\ (Compat => cs.detach)' /\ (String => ~st.live)'
      BY <1>4, <1>11, StringAlone
  <2> QED
      BY <1>1, <1>3, <1>4, <1>6, <1>9, <2>1, KeptAnswer
<1>15. EndInv' /\ got' \in Seq(Nat) /\ End' = e
  <2>1. CASE Size # 0
    <3>1. Scanned = "value" /\ got' = Append(got, Value)
        BY <1>1, <1>3, <2>1, SizeFacts
    <3>2. Blank(End, Consumed) /\ End <= Consumed
        BY <1>5, <1>7 DEF Blank
    <3> QED
        BY <1>1, <1>6, <1>12, <3>1, <3>2, EndNext, SizeFacts, AppendProperties DEF TypeInv
  <2>2. CASE Size = 0
    <3>1. got' = got /\ e = End
        BY <1>3, <1>5, <1>7, <2>2
    <3>2. End' = End
        BY <3>1, SameEnds
    <3>3. EndInv'
        BY <1>1, <3>1, StringAlone, EndKeeps
    <3> QED
        BY <1>1, <3>1, <3>2, <3>3 DEF TypeInv
  <2> QED
      BY <2>1, <2>2
<1>16. TypeInv'
    BY <1>1, <1>9, <1>15 DEF TypeInv, NoCall
<1>17. Idle' /\ Input' = Input /\ Cases' = Cases
    BY <1>9 DEF Idle, NoCall, Input, Cases
<1>18. "eof" \notin Cases => Blank(e, pos)
  <2> SUFFICES ASSUME "eof" \notin Cases, end PROVE Blank(e, Len(Input))
      BY <1>7, <1>10 DEF Blank
  <2>1. Scanned = "eof" /\ Size = 0
      BY <1>4 DEF Size
  <2>2. Scan(s, call.end) = "eof"
      BY <1>8, <2>1 DEF Scanned
  <2> HIDE DEF s
  <2>3. call.end = "eof" /\ Spaces(s) = Len(s)
      BY <2>2 DEF Scan
  <2>4. inp.pending = <<>> /\ Unread = <<>>
      BY <1>1, <2>3 DEF CallInv
  <2>5. Len(Unread) = Len(Input) - inp.read /\ Len(Unread) = 0 /\ inp.read \in Nat
      BY <1>1, <1>6, <2>4, RestFacts, EmptySeq, TypesOf
  <2>6. Consumed + Len(s) = Len(Input)
      BY <1>7, <2>4, <2>5
  <2>7. \A i \in 1..Len(s) : s[i] = Space
      BY <1>10, <2>3, SpacesFacts
  <2>8. Blank(Consumed, Consumed)
      BY <1>7 DEF Blank
  <2>9. Blank(Consumed, Consumed + Len(s))
      BY <1>1, <1>6, <1>7, <1>10, <2>7, <2>8, BlankAdvance DEF s
  <2> QED
      BY <1>7, <2>1, <2>6, <2>9
<1>19. dec'.failed = "eof" => pos = Len(Input)
    BY <1>4, <1>9
<1>20. dec'.toggles = st'.opts \cap Sticky
    BY <1>1, <1>5, <1>9, <1>11 DEF StringInv
<1> HIDE DEF e, pos, s
<1>21. StringInv'
  <2>1. ("eof" \notin Cases => Blank(End, st.pos))'
      BY <1>11, <1>15, <1>17, <1>18 DEF Blank
  <2>2. st'.pos = End' \/ st'.pos = Len(Input')
      BY <1>11, <1>15, <1>17 DEF pos
  <2>3. Consumed' = End' /\ (dec'.failed = "eof" => st'.pos = Len(Input'))
      BY <1>11, <1>12, <1>15, <1>17, <1>19
  <2> QED
      BY <1>11, <1>17, <1>20, <2>1, <2>2, <2>3 DEF StringInv
<1> QED
    BY <1>9, <1>13, <1>14, <1>15, <1>16, <1>21, StringAlone DEF StreamsInv

\* The string decoder keeps the invariant.
LEMMA StringNext ==
    ASSUME StreamsInv, String, T!Next
    PROVE  StreamsInv'
<1>1. st.opts \in Options /\ Options = {o \in SUBSET (Sticky \cup {"UseInt64"}) : ~({"UseNumber", "UseInt64"} \subseteq o)}
    BY DEF StreamsInv, StringInv, StringType, Options
<1>2. ASSUME source' = source, \E dest \in source.dests : T!Decode(dest) PROVE StreamsInv'
    BY <1>2, StringDecodes
<1>3. ASSUME source' = source, T!Read PROVE StreamsInv'
    BY <1>3, StringRead
<1>4. ASSUME source' = source, T!ReadEnd PROVE StreamsInv'
    BY <1>4, StringReadEnd
<1>5. ASSUME source' = source, T!DecodeEnd PROVE StreamsInv'
    BY <1>5, StringDecodeEnd
<1>6. CASE T!SetOptions
    BY <1>6, StringReader, StringChoose DEF T!SetOptions
<1>7. CASE T!UseNumber
  <2>1. ((st.opts \ {"UseInt64"}) \cup {"UseNumber"}) \in Options
      BY <1>1 DEF Sticky
  <2> QED
      BY <1>7, <2>1, StringChoose DEF T!UseNumber
<1>8. CASE T!UseInt64
  <2>1. ((st.opts \ {"UseNumber"}) \cup {"UseInt64"}) \in Options
      BY <1>1 DEF Sticky
  <2> QED
      BY <1>8, <2>1, StringChoose DEF T!UseInt64
<1>9. CASE T!DisallowUnknownFields
  <2>1. (st.opts \cup {"DisableUnknown"}) \in Options
      BY <1>1 DEF Sticky
  <2> QED
      BY <1>9, <2>1, StringChoose DEF T!DisallowUnknownFields
<1>10. CASE T!Reset
    BY <1>10, StringReset
<1> QED
    BY <1>2, <1>3, <1>4, <1>5, <1>6, <1>7, <1>8, <1>9, <1>10 DEF T!Next
-----------------------------------------------------------------------------------
(* The invariant.                                                                  *)

\* The decoders begin with the same json.Decoder.
LEMMA SameInit ==
    ASSUME NEW t
    PROVE  /\ S!InitDecoder(t) = InitDecoder(t) /\ C!InitDecoder(t) = InitDecoder(t)
           /\ T!InitDecoder(t) = InitDecoder(t)
    BY DEF InitDecoder, NewDec, NoCall, S!InitDecoder, S!NewDec, S!NoCall,
       C!InitDecoder, C!NewDec, C!NoCall, T!InitDecoder, T!NewDec, T!NoCall

\* A new decoder has everything before it.
LEMMA InitReader ==
    ASSUME source \in Source, NEW t \in SUBSET Sticky, InitDecoder(t)
    PROVE  /\ TypeInv /\ BufferInv /\ CallInv /\ KeptInv /\ Idle /\ inp.read = 0
           /\ Rest = SubSeq(Input, 0 + 1, Len(Input)) /\ Len(Rest) = Len(Input)
           /\ Offset(dec) = 0 /\ dec.toggles = t /\ dec.failed = "no"
           /\ Len(got) = 0 /\ End = 0 /\ IsEnd(0, 0) /\ Len(Input) \in Nat
<1>1. /\ mem = <<>> /\ dec = [NewDec EXCEPT !.toggles = t]
      /\ inp = [pending |-> <<>>, read |-> 0] /\ call = NoCall /\ got = <<>>
      /\ kept = {} /\ changes = 0
    BY DEF InitDecoder
<1>2. /\ dec \in DecType /\ dec.buf = 0 /\ dec.len = 0 /\ dec.scanp = 0 /\ dec.scanned = 0
      /\ dec.toggles = t /\ dec.failed = "no"
    BY <1>1 DEF NewDec, DecType
<1>3. Len(mem) = 0 /\ mem \in Seq(Seq(Nat)) /\ <<>> \in Seq(Nat) /\ Len(got) = 0 /\ got \in Seq(Nat)
    BY <1>1, EmptySeq
<1>4. call \in [op : {"none", "decode", "more"}, dest : {"plain", "raw"}, before : Nat,
                end : {"no", "eof", "error"}]
    BY <1>1 DEF NoCall
<1>5. TypeInv
    BY <1>1, <1>2, <1>3, <1>4 DEF TypeInv
<1>6. BufferInv
    BY <1>2, <1>3 DEF BufferInv
<1>7. CallInv /\ KeptInv /\ Idle
    BY <1>1 DEF CallInv, KeptInv, Idle, NoCall
<1>8. Input \in Seq(Nat) /\ Len(Input) \in Nat
    BY InputFacts
<1>9. Contents(dec) = <<>> /\ Offset(dec) = 0
    BY <1>2 DEF Contents, Offset
<1>10. Rest = (<<>> \o <<>>) \o Drop(Input, 0)
    BY <1>1, <1>9 DEF Rest, Unread, Drop
<1>11. Drop(Input, 0) \in Seq(Nat) /\ Len(Drop(Input, 0)) = Len(Input)
    BY <1>8, DropFacts
<1>12. <<>> \o <<>> = <<>> /\ <<>> \o Drop(Input, 0) = Drop(Input, 0)
    BY <1>3, <1>11, ConcatEmptySeq
<1>13. Rest = Drop(Input, 0)
    BY <1>10, <1>12
<1>14. IsEnd(0, 0) /\ End = 0
    BY <1>3, NoValue DEF End
<1> QED
    BY <1>1, <1>2, <1>3, <1>5, <1>6, <1>7, <1>8, <1>9, <1>11, <1>13, <1>14 DEF Drop

\* The invariant holds before the first call.
LEMMA InitInv == Init => StreamsInv
<1> SUFFICES ASSUME Init PROVE StreamsInv
    OBVIOUS
<1>1. source \in Source
    BY StreamAssumption DEF Init
<1>2. {} \in Options /\ {} \in SUBSET Sticky /\ {} \cap Sticky = {}
    BY DEF Options
<1>3. Blank(0, 0)
    BY DEF Blank
<1>4. source.kind \in {"stream", "compat", "string"}
    BY <1>1 DEF Source
<1>5. CASE source.kind = "stream"
  <2>1. /\ InitDecoder({})
        /\ sd = [offset |-> 0, opts |-> {}, configured |-> {}, terminal |-> FALSE,
                 at |-> 0, detach |-> FALSE, pos |-> 0, leading |-> 0, waiting |-> FALSE]
      BY <1>5, SameInit DEF Init, S!Init
  <2>2. /\ TypeInv /\ BufferInv /\ CallInv /\ KeptInv /\ Idle /\ inp.read = 0
        /\ Rest = SubSeq(Input, 0 + 1, Len(Input))
        /\ Offset(dec) = 0 /\ dec.toggles = {} /\ dec.failed = "no"
        /\ Len(got) = 0 /\ End = 0 /\ IsEnd(0, 0) /\ Len(Input) \in Nat
      BY <1>1, <1>2, <2>1, InitReader
  <2>3. sd \in StreamType /\ ~sd.terminal /\ sd.offset = 0 /\ sd.configured = {}
      BY <1>2, <2>1 DEF StreamType
  <2>4. Consumed = 0 /\ ~Terminal
      BY <1>5, <2>2, <2>3 DEF Consumed, Terminal, Stream
  <2>5. TextInv
      BY <2>2, <2>4 DEF TextInv
  <2>6. EndInv
      BY <1>3, <2>2, <2>4 DEF EndInv
  <2>7. StreamInv
      BY <1>2, <2>2, <2>3 DEF StreamInv, Idle
  <2> QED
      BY <1>5, <2>2, <2>5, <2>6, <2>7 DEF StreamsInv, CompatInv, StringInv, Compat, String
<1>6. CASE source.kind = "compat"
  <2>1. PICK o \in Options :
          /\ InitDecoder(C!Toggles(o))
          /\ cs = [opts |-> o, terminal |-> FALSE, detach |-> FALSE]
    <3>1. C!Options = Options /\ C!Cases = Cases
        BY CompatReader
    <3> QED
        BY <1>2, <1>6, <3>1, SameInit DEF Init, C!Init
  <2>2. C!Toggles(o) \in SUBSET Sticky /\ o \cap Sticky \subseteq C!Toggles(o)
      BY CompatReader DEF C!Toggles, Sticky
  <2>3. /\ TypeInv /\ BufferInv /\ CallInv /\ KeptInv /\ Idle /\ inp.read = 0
        /\ Rest = SubSeq(Input, 0 + 1, Len(Input)) /\ Len(Rest) = Len(Input)
        /\ dec.toggles = C!Toggles(o) /\ dec.failed = "no"
        /\ Len(got) = 0 /\ End = 0 /\ IsEnd(0, 0) /\ Len(Input) \in Nat
      BY <1>1, <2>1, <2>2, InitReader
  <2>4. cs \in CompatType /\ ~cs.terminal /\ cs.opts = o
      BY <2>1 DEF CompatType
  <2>5. Consumed = 0 /\ ~Terminal
      BY <1>6, <2>3, <2>4 DEF Consumed, Terminal, Stream, String
  <2>6. TextInv
      BY <2>3, <2>5 DEF TextInv
  <2>7. EndInv
      BY <1>3, <2>3, <2>5 DEF EndInv
  <2>8. CompatInv
      BY <2>2, <2>3, <2>4 DEF CompatInv, Idle
  <2> QED
      BY <1>6, <2>3, <2>6, <2>7, <2>8 DEF StreamsInv, StreamInv, StringInv, Stream, String
<1>7. CASE source.kind = "string"
  <2>1. InitDecoder({}) /\ st = [pos |-> 0, opts |-> {}, live |-> FALSE, base |-> 0]
      BY <1>7, SameInit DEF Init, T!Init
  <2>2. /\ TypeInv /\ BufferInv /\ CallInv /\ KeptInv /\ Idle /\ inp.read = 0
        /\ Rest = SubSeq(Input, 0 + 1, Len(Input))
        /\ Offset(dec) = 0 /\ dec.toggles = {} /\ dec.failed = "no"
        /\ Len(got) = 0 /\ End = 0 /\ IsEnd(0, 0) /\ Len(Input) \in Nat
      BY <1>1, <1>2, <2>1, InitReader
  <2>3. st \in StringType /\ ~st.live /\ st.pos = 0
      BY <1>2, <2>1 DEF StringType
  <2>4. TextInv
      BY <1>7, <2>3 DEF TextInv, Alive, String
  <2>5. EndInv
      BY <1>7, <2>2 DEF EndInv, String
  <2>6. StringInv
      BY <1>3, <2>2, <2>3 DEF StringInv
  <2> QED
      BY <1>7, <2>2, <2>4, <2>5, <2>6 DEF StreamsInv, StreamInv, CompatInv, Stream, Compat
<1> QED
    BY <1>4, <1>5, <1>6, <1>7

\* A step of none of the decoders.
LEMMA NoStep == StreamsInv /\ UNCHANGED vars => StreamsInv'
<1> SUFFICES ASSUME StreamsInv, UNCHANGED vars PROVE StreamsInv'
    OBVIOUS
<1>1. UNCHANGED <<source, mem, dec, inp, call, got, kept, changes, sd, cs, st>>
    BY DEF vars
<1>2. TypeInv' /\ BufferInv' /\ CallInv'
    BY <1>1 DEF StreamsInv, TypeInv, BufferInv, CallInv, Idle, Unread, Input, Cases
<1>3. Rest' = Rest /\ Consumed' = Consumed /\ Input' = Input /\ Alive' = Alive /\ Terminal' = Terminal
    BY <1>1 DEF Rest, Consumed, Input, Alive, Contents, Offset, Unread, Stream, String, Terminal
<1>4. TextInv'
    BY <1>1, <1>3 DEF StreamsInv, TextInv
<1>5. EndInv'
    BY <1>1, <1>3, EndKeeps DEF StreamsInv, EndInv
<1>6. Contents(dec)' = Contents(dec) /\ Offset(dec)' = Offset(dec)
    BY <1>1, SameReader
<1>7. StreamInv'
    BY <1>1, <1>3, <1>6, SameEnds DEF StreamsInv, StreamInv, Idle, Blank
<1>8. CompatInv'
    BY <1>1, SameEnds DEF StreamsInv, CompatInv, Idle, C!Toggles, C!Sticky
<1>9. StringInv'
    BY <1>1, <1>3, SameEnds DEF StreamsInv, StringInv, Idle, Blank
<1>10. KeptInv'
    BY <1>1, SameEnds, KeptKeeps DEF StreamsInv, KeptInv, Idle
<1> QED
    BY <1>2, <1>4, <1>5, <1>7, <1>8, <1>9, <1>10 DEF StreamsInv

\* Every step of the decoder that the source asks for keeps the invariant.
LEMMA NextInv == StreamsInv /\ [Next]_vars => StreamsInv'
<1> SUFFICES ASSUME StreamsInv, Next PROVE StreamsInv'
    BY NoStep
<1>1. CASE source.kind = "stream" /\ S!Next
    BY <1>1, StreamNext DEF Stream
<1>2. CASE source.kind = "compat" /\ C!Next
    BY <1>2, CompatNext DEF Compat
<1>3. CASE source.kind = "string" /\ T!Next
    BY <1>3, StringNext DEF String
<1> QED
    BY <1>1, <1>2, <1>3 DEF Next

\* The inductive invariant holds in every state.
THEOREM StreamsSound == Spec => []StreamsInv
    BY InitInv, NextInv, PTL DEF Spec
-----------------------------------------------------------------------------------
(* What the invariant says.                                                        *)

\* The variables have their types.
LEMMA InvTypes == StreamsInv => TypeOK
<1> SUFFICES ASSUME StreamsInv PROVE TypeOK
    OBVIOUS
<1>1. TypeInv /\ BufferInv /\ TextInv /\ EndInv /\ StreamInv /\ CompatInv /\ StringInv
    BY DEF StreamsInv
<1>2. /\ \A b \in DOMAIN mem : mem[b] \in Seq(Nat)
      /\ dec.buf \in 0..Len(mem) /\ dec.toggles \subseteq Sticky
      /\ dec.scanp <= dec.len /\ (dec.buf # 0 => dec.len <= Len(mem[dec.buf]))
      /\ call.dest \in {"plain", "raw"}
  <2>1. DOMAIN mem = 1..Len(mem)
      BY <1>1, TypesOf, LenProperties
  <2>2. dec.toggles \subseteq Sticky /\ call.dest \in {"plain", "raw"}
      BY <1>1 DEF TypeInv, DecType
  <2> QED
      BY <1>1, <2>1, <2>2, TypesOf DEF BufferInv
<1>3. (String => st.live) => inp.read \in 0..Len(Input)
    BY <1>1, TextFacts DEF Alive
<1>4. Stream => S!TypeOK
    BY <1>1, StreamReader DEF StreamInv, StreamType, S!TypeOK
<1>5. String => T!TypeOK
  <2> SUFFICES ASSUME String PROVE T!TypeOK
      OBVIOUS
  <2>1. st \in StringType /\ (st.pos = End \/ st.pos = Len(Input)) /\ End \in 0..Len(Input)
        /\ Len(Input) \in Nat
      BY <1>1, InputFacts DEF StringInv, EndInv, IsEnd, TypeInv
  <2>2. st.pos \in 0..Len(Input)
      BY <2>1
  <2> QED
      BY <2>1, <2>2, StringReader DEF StringType, T!TypeOK
<1>6. ~Stream /\ ~String => C!TypeOK
  <2>1. ~Stream /\ ~String => Compat
      BY <1>1 DEF TypeInv, Source, Stream, String, Compat
  <2> QED
      BY <1>1, <2>1, CompatReader DEF CompatInv, CompatType, C!TypeOK
<1> QED
    BY <1>2, <1>3, <1>4, <1>5, <1>6 DEF TypeOK

\* Bytes not consumed are the text behind those that were, and those are values and spaces.
LEMMA InvNoByteLost == StreamsInv => NoByteLost
<1> SUFFICES ASSUME StreamsInv PROVE NoByteLost
    OBVIOUS
<1>1. TypeOK
    BY InvTypes
<1>2. TypeInv /\ TextInv /\ EndInv /\ StringInv
    BY DEF StreamsInv
<1>3. ASSUME String => st.live
      PROVE  /\ Rest = SubSeq(Input, Consumed + 1, Len(Input))
             /\ ~Terminal => /\ Consumed >= EndOf(Len(got))
                             /\ \A i \in (EndOf(Len(got)) + 1)..Consumed : Input[i] = Space
  <2>1. Rest = SubSeq(Input, Consumed + 1, Len(Input)) /\ Consumed \in Nat
      BY <1>2, <1>3 DEF TextInv, Alive
  <2>2. CASE String
    <3>1. Consumed = End
        BY <1>2, <1>3, <2>2 DEF StringInv
    <3> QED
        BY <2>1, <3>1 DEF End
  <2>3. CASE ~String
      BY <1>2, <2>1, <2>3, InputFacts DEF EndInv, IsEnd, Blank, End, TypeInv
  <2> QED
      BY <2>1, <2>2, <2>3
<1> QED
    BY <1>1, <1>3 DEF NoByteLost

\* The toggles are those of the options when a value is decoded.
LEMMA InvOptionsApply == StreamsInv => OptionsApply
<1> SUFFICES ASSUME StreamsInv, call.op = "decode", "UseInt64" \notin Opts
             PROVE  dec.toggles = Opts \cap Sticky
    BY DEF OptionsApply
<1>1. TypeInv /\ StreamInv /\ CompatInv /\ StringInv
    BY DEF StreamsInv
<1>2. CASE Stream
    BY <1>1, <1>2 DEF StreamInv, Opts
<1>3. CASE String
    BY <1>1, <1>3 DEF StringInv, Opts, Stream, String, Idle
<1>4. CASE Compat
  <2>1. Opts = cs.opts
      BY <1>4 DEF Opts, Stream, String, Compat
  <2>2. C!Toggles(cs.opts) = cs.opts \cap Sticky
      BY <2>1, CompatReader DEF C!Toggles
  <2> QED
      BY <1>1, <1>4, <2>1, <2>2 DEF CompatInv
<1> QED
    BY <1>1, <1>2, <1>3, <1>4 DEF TypeInv, Source, Stream, String, Compat

\* A kept value reads as it did.
LEMMA InvRetained == StreamsInv /\ ~KeepsAndPeeks => RetainedStayIntact
    BY DEF StreamsInv, KeptInv, RetainedStayIntact

\* Where StreamDecoder says it is.
LEMMA StreamOffsets ==
    ASSUME StreamsInv, Stream, Idle
    PROVE  /\ Position >= End /\ Blank(End, Position)
           /\ Terminal => sd.at = inp.read \/ Input[sd.at + 1] # Space
           /\ Len(got) > 0 /\ ~Terminal =>
                sd.pos = Cardinality({i \in (EndOf(Len(got) - 1) + 1)..End : Input[i] # Space})
<1>1. TypeInv /\ BufferInv /\ TextInv /\ EndInv /\ StreamInv /\ sd \in StreamType
    BY DEF StreamsInv, StreamInv
<1>2. ~String /\ Alive /\ Terminal = sd.terminal /\ Consumed = sd.offset + Offset(dec)
    BY DEF String, Stream, Alive, Terminal, Consumed
<1>3. /\ Contents(dec) \in Seq(Nat) /\ Spaces(Contents(dec)) \in 0..Len(Contents(dec))
      /\ Spaces(Contents(dec)) \in Nat
      /\ \A i \in 1..Spaces(Contents(dec)) : Contents(dec)[i] = Space
    BY <1>1, ContentsFacts, SpacesFacts
<1>4. Consumed \in Nat /\ End \in Nat /\ Len(Input) \in Nat
    BY <1>1, <1>2, TextFacts DEF EndInv, IsEnd
<1>5. CASE sd.terminal
  <2>1. Position = sd.at
      BY <1>5 DEF Position, S!InputOffset
  <2>2. sd.at \in End..Len(Input) /\ Blank(End, sd.at)
        /\ (sd.at = inp.read \/ Input[sd.at + 1] # Space)
      BY <1>1, <1>5 DEF StreamInv
  <2> QED
      BY <1>2, <1>4, <1>5, <2>1, <2>2
<1>6. CASE ~sd.terminal
  <2>1. Position = Consumed + Spaces(Contents(dec))
      BY <1>2, <1>6, StreamReader DEF Position, S!InputOffset
  <2>2. End <= Consumed /\ Blank(End, Consumed)
      BY <1>1, <1>2, <1>6 DEF EndInv
  <2>3. Blank(End, Consumed + Spaces(Contents(dec)))
      BY <1>1, <1>2, <1>3, <1>4, <2>2, BlankAdvance
  <2>4. Position >= End
      BY <1>3, <1>4, <2>1, <2>2
  <2> QED
      BY <1>1, <1>2, <1>6, <2>1, <2>3, <2>4 DEF StreamInv
<1> QED
    BY <1>5, <1>6

\* Where the compatible decoder's Buffered begins.
LEMMA CompatOffsets ==
    ASSUME StreamsInv, Compat
    PROVE  Position >= End /\ (~Terminal => Blank(End, Position))
<1> DEFINE s == Contents(dec)
           a == IF cs.terminal THEN Len(s) ELSE Spaces(s)
<1>1. TypeInv /\ BufferInv /\ TextInv /\ EndInv /\ CompatInv /\ cs \in CompatType
    BY DEF StreamsInv, CompatInv
<1>2. ~String /\ ~Stream /\ Alive /\ (Terminal <=> cs.terminal)
    BY DEF String, Stream, Compat, Alive, Terminal
<1>3. /\ s \in Seq(Nat) /\ Len(s) \in Nat /\ Spaces(s) \in 0..Len(s)
      /\ \A i \in 1..Spaces(s) : s[i] = Space
    BY <1>1, ContentsFacts, SpacesFacts
<1>4. a \in 0..Len(s) /\ a \in Nat
    BY <1>3
<1>5. Consumed \in Nat /\ End \in Nat /\ Len(Input) \in Nat /\ End <= Consumed
      /\ Len(Rest) = Len(Input) - Consumed
    BY <1>1, <1>2, TextFacts DEF EndInv, IsEnd
<1>6. /\ inp.pending \in Seq(Nat) /\ Unread \in Seq(Nat) /\ Len(inp.pending) \in Nat
      /\ Len(Unread) \in Nat
      /\ Len(Rest) = Len(s) + (Len(inp.pending) + Len(Unread))
  <2>1. inp.read <= Len(Input)
      BY <1>1, <1>2 DEF TextInv
  <2>2. inp.pending \in Seq(Nat) /\ Len(inp.pending) \in Nat
      BY <1>1, TypesOf, SeqFacts
  <2>3. Unread \in Seq(Nat) /\ Len(Unread) \in Nat
      BY <1>1, <2>1, RestFacts, SeqFacts
  <2>4. Len(Rest) = Len(s) + (Len(inp.pending) + Len(Unread))
      BY <1>1, <2>1, RestFacts
  <2> QED
      BY <2>2, <2>3, <2>4
<1>7. C!BufferedBytes \in Seq(Nat) /\ Len(C!BufferedBytes) = Len(s) - a
  <2>1. CASE cs.terminal
    <3>1. C!BufferedBytes = <<>>
        BY <2>1 DEF C!BufferedBytes
    <3> QED
        BY <1>3, <2>1, <3>1, EmptySeq
  <2>2. CASE ~cs.terminal
    <3>1. C!BufferedBytes = Drop(s, Spaces(s))
        BY <2>2, CompatReader DEF C!BufferedBytes, Drop
    <3> HIDE DEF s
    <3> QED
        BY <1>3, <2>2, <3>1, DropFacts
  <2> QED
      BY <2>1, <2>2
<1>8. Position = Len(Input) - Len((C!BufferedBytes \o inp.pending) \o Unread)
    BY <1>2 DEF Position
<1> DEFINE b == C!BufferedBytes
<1> HIDE DEF b, s, a
<1>9. Len((b \o inp.pending) \o Unread) = (Len(s) - a) + Len(inp.pending) + Len(Unread)
  <2>1. b \o inp.pending \in Seq(Nat) /\ Len(b \o inp.pending) = Len(b) + Len(inp.pending)
      BY <1>6, <1>7, ConcatProperties DEF b
  <2> DEFINE w == b \o inp.pending
  <2> HIDE DEF w
  <2>2. Len(w \o Unread) = Len(w) + Len(Unread)
      BY <1>6, <2>1, ConcatProperties DEF w
  <2> QED
      BY <1>7, <2>1, <2>2 DEF b, w
<1>10. Position = Consumed + a
  <2>1. Position = Len(Input) - ((Len(s) - a) + Len(inp.pending) + Len(Unread))
      BY <1>8, <1>9 DEF b
  <2> DEFINE l == Len(Input)
             r == Len(Rest)
             n == Len(s)
             p == Len(inp.pending)
             u == Len(Unread)
  <2>2. l \in Nat /\ n \in Nat /\ a \in Nat /\ p \in Nat /\ u \in Nat /\ Consumed \in Nat
      BY <1>3, <1>4, <1>5, <1>6
  <2>3. r = l - Consumed
      BY <1>5
  <2>4. r = n + (p + u)
      BY <1>6
  <2>5. Position = l - ((n - a) + p + u)
      BY <2>1
  <2> HIDE DEF l, r, n, p, u
  <2> QED
      BY <2>2, <2>3, <2>4, <2>5
<1>11. Position >= End
    BY <1>4, <1>5, <1>10
<1>12. ASSUME ~Terminal PROVE Blank(End, Position)
  <2>1. a = Spaces(s)
      BY <1>2, <1>12 DEF a
  <2>2. Blank(End, Consumed)
      BY <1>1, <1>2, <1>12 DEF EndInv
  <2>3. Blank(End, Consumed + a)
      BY <1>1, <1>2, <1>3, <1>5, <2>1, <2>2, BlankAdvance DEF s
  <2> QED
      BY <1>10, <2>3
<1> QED
    BY <1>11, <1>12

\* The three positions are exact between calls.
LEMMA InvOffsets == StreamsInv /\ (String => "eof" \notin Cases) => OffsetsAreExact
<1> SUFFICES ASSUME StreamsInv, String => "eof" \notin Cases, Idle
             PROVE  /\ Position >= End
                    /\ ~Terminal \/ Stream => Blank(End, Position)
                    /\ String => Position \in {End, Len(Input)}
                    /\ Stream /\ Terminal => sd.at = inp.read \/ Input[sd.at + 1] # Space
                    /\ Stream /\ Len(got) > 0 /\ ~Terminal =>
                         sd.pos = Cardinality({i \in (EndOf(Len(got) - 1) + 1)..End : Input[i] # Space})
    BY DEF OffsetsAreExact, End, Blank
<1>1. CASE Stream
    BY <1>1, StreamOffsets DEF Stream, String
<1>2. CASE String
  <2>1. Position = st.pos /\ ~Stream
      BY <1>2 DEF Position, String, Stream
  <2>2. (st.pos = End \/ st.pos = Len(Input)) /\ Blank(End, st.pos)
      BY <1>2 DEF StreamsInv, StringInv
  <2>3. End \in 0..Len(Input) /\ Len(Input) \in Nat
      BY InputFacts DEF StreamsInv, EndInv, IsEnd, TypeInv
  <2> QED
      BY <2>1, <2>2, <2>3
<1>3. CASE Compat
    BY <1>3, CompatOffsets DEF Stream, String, Compat
<1> QED
    BY <1>1, <1>2, <1>3 DEF StreamsInv, TypeInv, Source, Stream, String, Compat

\* Rebuilding the json.Decoder, refilling its buffer and sliding it lose no byte
\* of the input and repeat none.
THEOREM StreamsLoseNoByte == Spec => []NoByteLost
    BY StreamsSound, InvNoByteLost, PTL

\* Every value is decoded under the options in force when its Decode was called.
THEOREM StreamsApplyOptions == Spec => []OptionsApply
    BY StreamsSound, InvOptionsApply, PTL

\* The position between calls is exact, for every decoder but a string's whose
\* destinations may return io.EOF.
THEOREM StreamsOffsetsExact == Spec => []((String => "eof" \notin Cases) => OffsetsAreExact)
    BY StreamsSound, InvOffsets, PTL

\* What a caller retained is never overwritten, unless it also calls More.
THEOREM StreamsRetainedIntact == Spec => [](~KeepsAndPeeks => RetainedStayIntact)
    BY StreamsSound, InvRetained, PTL
-----------------------------------------------------------------------------------
(* What the decoders promise.                                                      *)

\* A function of 1..n is a sequence of length n.
LEMMA RowLength ==
    ASSUME NEW n \in Nat, NEW K, NEW row \in [1..n -> K]
    PROVE  Len(row) = n
<1> DEFINE l == Len(row)
<1>1. row \in Seq(K)
    BY SeqDef
<1>2. l \in Nat /\ 1..l = 1..n
    BY <1>1, LenProperties
<1> HIDE DEF l
<1>3. ~(l < n)
  <2> SUFFICES ASSUME l < n PROVE FALSE
      OBVIOUS
  <2>1. n \in 1..n /\ n \notin 1..l
      BY <1>2
  <2> QED
      BY <1>2, <2>1
<1>4. ~(n < l)
  <2> SUFFICES ASSUME n < l PROVE FALSE
      OBVIOUS
  <2>1. l \in 1..l /\ l \notin 1..n
      BY <1>2
  <2> QED
      BY <1>2, <2>1
<1>5. l = n
    BY <1>2, <1>3, <1>4
<1> QED
    BY <1>5 DEF l

\* While nothing malformed is passed, the k-th value that ends is the k-th of Values.
LEMMA ValuesFacts ==
    ASSUME source \in Source, NEW k \in Nat \ {0}, NEW e, IsEnd(k, e),
           \A i \in 1..e : Input[i] # Malformed
    PROVE  Len(Values) \in Nat /\ k <= Len(Values) /\ Values[k] = Input[e] \div 2
<1> DEFINE L(i) == {j \in 1..i : IsLast(Input[j])}
           bad == {i \in 1..Len(Input) : Input[i] = Malformed}
           end == IF \E i \in DOMAIN Input : Input[i] = Malformed
                  THEN CHOOSE i \in DOMAIN Input :
                         Input[i] = Malformed /\ \A j \in 1..(i - 1) : Input[j] # Malformed
                  ELSE Len(Input)
           number == Cardinality(L(end))
<1>1. Len(Input) \in Nat /\ DOMAIN Input = 1..Len(Input)
    BY InputFacts, SeqFacts
<1>2. e \in 0..Len(Input) /\ Cardinality(L(e)) = k
    BY DEF IsEnd
<1>3. end \in 0..Len(Input) /\ e <= end
  <2>1. CASE bad = {}
    <3>1. end = Len(Input)
        BY <1>1, <2>1
    <3> HIDE DEF end
    <3> QED
        BY <1>1, <1>2, <3>1
  <2>2. CASE bad # {}
    <3>1. PICK m \in bad : \A j \in bad : m <= j
      <4>1. bad \subseteq Nat
          BY <1>1
      <4> HIDE DEF bad
      <4> QED
          BY <2>2, <4>1, LeastNat
    <3>2. m \in 1..Len(Input) /\ Input[m] = Malformed /\ \A j \in 1..(m - 1) : Input[j] # Malformed
      <4>1. ASSUME NEW j \in 1..(m - 1) PROVE Input[j] # Malformed
        <5>1. j \in 1..Len(Input) /\ ~(m <= j)
            BY <1>1
        <5> QED
            BY <3>1, <5>1
      <4> QED
          BY <4>1
    <3>3. /\ end \in DOMAIN Input /\ Input[end] = Malformed
          /\ \A j \in 1..(end - 1) : Input[j] # Malformed
        BY <1>1, <3>2
    <3> HIDE DEF end
    <3>4. end \notin 1..e
        BY <3>3
    <3> QED
        BY <1>1, <1>2, <3>3, <3>4
  <2> QED
      BY <2>1, <2>2
<1>4. number \in Nat /\ k <= number
  <2> HIDE DEF end
  <2>1. L(e) \subseteq L(end) /\ L(end) \subseteq 1..end
      BY <1>1, <1>2, <1>3
  <2>2. IsFiniteSet(1..end)
      BY <1>3, FS_Interval
  <2> HIDE DEF L
  <2>3. IsFiniteSet(L(end))
      BY <2>1, <2>2, FS_Subset
  <2>4. Cardinality(L(e)) <= Cardinality(L(end)) /\ Cardinality(L(end)) \in Nat
      BY <2>1, <2>3, FS_Subset, FS_CardinalityType
  <2> QED
      BY <1>2, <2>4
<1>5. Values = [j \in 1..number |-> Input[EndOf(j)] \div 2]
    BY DEF Values
<1> HIDE DEF number
<1>6. Len(Values) = number
  <2> DEFINE row == Values
             K == {row[j] : j \in 1..number}
  <2>1. row \in [1..number -> K]
      BY <1>5
  <2> HIDE DEF row, K
  <2> QED
      BY <1>4, <2>1, RowLength DEF row
<1>7. EndOf(k) = e
    BY EndOfIs
<1>8. Values[k] = Input[e] \div 2
    BY <1>4, <1>5, <1>7
<1> QED
    BY <1>4, <1>6, <1>8

\* When only spaces are left behind the k-th value, there are k.
LEMMA ValuesEnd ==
    ASSUME source \in Source, NEW k \in Nat, NEW e, IsEnd(k, e),
           \A i \in 1..e : Input[i] # Malformed, Blank(e, Len(Input))
    PROVE  Len(Values) = k
<1> DEFINE L(i) == {j \in 1..i : IsLast(Input[j])}
           end == IF \E i \in DOMAIN Input : Input[i] = Malformed
                  THEN CHOOSE i \in DOMAIN Input :
                         Input[i] = Malformed /\ \A j \in 1..(i - 1) : Input[j] # Malformed
                  ELSE Len(Input)
           number == Cardinality(L(end))
           row == Values
           K == {row[j] : j \in 1..k}
<1>1. Len(Input) \in Nat /\ DOMAIN Input = 1..Len(Input)
    BY InputFacts, SeqFacts
<1>2. e \in 0..Len(Input) /\ Cardinality(L(e)) = k
    BY DEF IsEnd
<1>3. ASSUME NEW i \in 1..Len(Input) PROVE Input[i] # Malformed /\ (i > e => ~IsLast(Input[i]))
  <2>1. CASE i <= e
    <3>1. i \in 1..e
        BY <1>1, <1>2, <2>1
    <3> QED
        BY <1>1, <1>2, <2>1, <3>1
  <2>2. CASE ~(i <= e)
    <3>1. i \in (e + 1)..Len(Input)
        BY <1>1, <1>2, <2>2
    <3> QED
        BY <3>1 DEF Blank, Space, Malformed, IsLast
  <2> QED
      BY <2>1, <2>2
<1>4. end = Len(Input)
    BY <1>1, <1>3
<1> HIDE DEF end
<1>5. L(end) = L(e)
    BY <1>1, <1>2, <1>3, <1>4
<1> HIDE DEF L
<1>6. Values = [j \in 1..k |-> Input[EndOf(j)] \div 2]
  <2>1. Values = [j \in 1..number |-> Input[EndOf(j)] \div 2]
      BY DEF Values, number, L, end
  <2> QED
      BY <1>2, <1>5, <2>1
<1>7. row \in [1..k -> K]
    BY <1>6
<1> HIDE DEF row, K
<1> QED
    BY <1>7, RowLength DEF row

\* A value that was found is the next one the caller is owed.
LEMMA NextOwed ==
    ASSUME TypeInv, BufferInv, TextInv, Alive, EndInv, End <= Consumed, Blank(End, Consumed),
           Scanned = "value"
    PROVE  Len(got) < Len(Values) /\ Values[Len(got) + 1] = Value
<1> DEFINE n == Len(got)
           e == Consumed + Size
<1>1. n \in Nat /\ source \in Source
    BY SeqFacts DEF TypeInv
<1>2. IsEnd(n + 1, e) /\ (\A i \in 1..e : Input[i] # Malformed) /\ Input[e] \div 2 = Value
    BY NextValue
<1> HIDE DEF n, e
<1>3. n + 1 \in Nat \ {0}
    BY <1>1
<1>4. Len(Values) \in Nat /\ n + 1 <= Len(Values) /\ Values[n + 1] = Value
    BY <1>1, <1>2, <1>3, ValuesFacts
<1> QED
    BY <1>1, <1>4 DEF n

\* The values are those of the text.
LEMMA SameValues ==
    ASSUME source' = source
    PROVE  Input' = Input /\ Values' = Values
    BY DEF Input, Values, EndOf

\* Of StreamDecoder's steps only the end of a Decode is seen.
LEMMA StreamDelivers ==
    ASSUME StreamsInv, Stream, S!Next
    PROVE  [Delivered!Next]_<<Input, Values, got, Terminal>>
<1>1. source' = source
    BY DEF S!Next
<1>2. Input' = Input /\ Values' = Values
    BY <1>1, SameValues
<1>3. /\ TypeInv /\ BufferInv /\ TextInv /\ EndInv /\ StreamInv /\ sd \in StreamType
      /\ Alive /\ ~String /\ Terminal = sd.terminal /\ Terminal' = sd'.terminal
    BY <1>1, StreamAlone DEF StreamsInv, StreamInv
<1>4. CASE S!DecodeEnd
  <2>1. PICK fits \in Fits :
          /\ sd' = [sd EXCEPT !.detach = S!Retains,
                              !.terminal = S!Ended(fits),
                              !.at = IF S!Ended(fits) THEN sd.offset + call.before + sd.leading ELSE @,
                              !.pos = IF Size = 0 THEN @
                                      ELSE Offset(dec) + Size - call.before - sd.leading]
          /\ got' = IF Size # 0 /\ fits THEN Append(got, Value) ELSE got
      BY <1>4, StreamReader DEF S!DecodeEnd, S!Detach
  <2>2. call.op = "decode" /\ ~Idle /\ ~sd.terminal
      BY <1>3, <1>4 DEF S!DecodeEnd, Idle, StreamInv
  <2>3. fits \in BOOLEAN /\ (Size # 0 <=> Scanned = "value")
      BY <1>3, SizeFacts DEF Fits
  <2>4. sd'.terminal = (Scanned # "value" \/ ~fits)
      BY <1>3, <2>1, StreamReader DEF S!Ended, StreamType
  <2>5. CASE Scanned = "value" /\ fits
    <3>1. End <= Consumed /\ Blank(End, Consumed)
        BY <1>3, <2>2 DEF EndInv
    <3>2. Len(got) < Len(Values) /\ Values[Len(got) + 1] = Value
        BY <1>3, <2>5, <3>1, NextOwed
    <3>3. got' = Append(got, Values[Len(got) + 1])
        BY <2>1, <2>3, <2>5, <3>2
    <3>4. sd'.terminal = sd.terminal
        BY <1>3, <2>2, <2>4, <2>5 DEF StreamType
    <3> QED
        BY <1>2, <1>3, <2>2, <3>2, <3>3, <3>4 DEF Delivered!Next, Delivered!Deliver
  <2>6. CASE ~(Scanned = "value" /\ fits)
    <3>1. got' = got /\ sd'.terminal = TRUE
        BY <2>1, <2>3, <2>4, <2>6
    <3> QED
        BY <1>2, <1>3, <2>2, <3>1 DEF Delivered!Next, Delivered!End
  <2> QED
      BY <2>5, <2>6
<1>5. CASE ~S!DecodeEnd
  <2>1. got' = got /\ sd'.terminal = sd.terminal
    <3>1. CASE \E dest \in source.dests : S!Decode(dest)
        BY <1>3, <3>1 DEF S!Decode, StreamType
    <3>2. CASE S!Read
        BY <1>3, <3>2, StreamReader DEF S!Read, Take, StreamType
    <3>3. CASE S!ReadEnd
        BY <3>3, StreamReader DEF S!ReadEnd, TakeEnd
    <3>4. CASE S!More
        BY <3>4, StreamReader DEF S!More, StartMore
    <3>5. CASE S!MoreEnd
        BY <3>5, StreamReader DEF S!MoreEnd, PeekMore
    <3>6. CASE \E o : S!Choose(o)
        BY <1>3, <3>6 DEF S!Choose, StreamType
    <3> QED
        BY <1>5, <3>1, <3>2, <3>3, <3>4, <3>5, <3>6
        DEF S!Next, S!SetOptions, S!UseNumber, S!UseInt64, S!DisallowUnknownFields
  <2> QED
      BY <1>2, <1>3, <2>1
<1> QED
    BY <1>4, <1>5

\* Of the compatible decoder's steps only the end of a Decode is seen.
LEMMA CompatDelivers ==
    ASSUME StreamsInv, Compat, C!Next
    PROVE  [Delivered!Next]_<<Input, Values, got, Terminal>>
<1>1. source' = source
    BY DEF C!Next
<1>2. Input' = Input /\ Values' = Values
    BY <1>1, SameValues
<1>3. /\ TypeInv /\ BufferInv /\ TextInv /\ EndInv /\ CompatInv /\ cs \in CompatType
      /\ Alive /\ ~String /\ (Terminal <=> cs.terminal) /\ (Terminal' <=> cs'.terminal)
      /\ Terminal \in BOOLEAN /\ Terminal' \in BOOLEAN
  <2>1. ~Stream /\ ~Stream'
      BY <1>1, CompatAlone
  <2>2. Terminal \in BOOLEAN /\ Terminal' \in BOOLEAN
      BY <2>1 DEF Terminal
  <2> QED
      BY <1>1, <2>2, CompatAlone DEF StreamsInv, CompatInv
<1>4. CASE C!DecodeEnd
  <2>1. PICK fits \in Fits :
          /\ cs' = [cs EXCEPT !.detach = C!Retains, !.terminal = Size = 0 \/ ~fits]
          /\ got' = IF Size # 0 /\ fits THEN Append(got, Value) ELSE got
      BY <1>4, CompatReader DEF C!DecodeEnd
  <2>2. call.op = "decode" /\ ~Idle /\ ~cs.terminal
      BY <1>3, <1>4 DEF C!DecodeEnd, Idle, CompatInv
  <2>3. fits \in BOOLEAN /\ (Size # 0 <=> Scanned = "value")
      BY <1>3, SizeFacts DEF Fits
  <2>4. cs'.terminal = (Size = 0 \/ ~fits)
      BY <1>3, <2>1 DEF CompatType
  <2>5. CASE Scanned = "value" /\ fits
    <3>1. End <= Consumed /\ Blank(End, Consumed)
        BY <1>3, <2>2 DEF EndInv
    <3>2. Len(got) < Len(Values) /\ Values[Len(got) + 1] = Value
        BY <1>3, <2>5, <3>1, NextOwed
    <3>3. got' = Append(got, Values[Len(got) + 1])
        BY <2>1, <2>3, <2>5, <3>2
    <3>4. cs'.terminal = cs.terminal
        BY <1>3, <2>2, <2>3, <2>4, <2>5 DEF CompatType
    <3> QED
        BY <1>2, <1>3, <2>2, <3>2, <3>3, <3>4 DEF Delivered!Next, Delivered!Deliver
  <2>6. CASE ~(Scanned = "value" /\ fits)
    <3>1. got' = got /\ cs'.terminal = TRUE
        BY <2>1, <2>3, <2>4, <2>6
    <3> QED
        BY <1>2, <1>3, <2>2, <3>1 DEF Delivered!Next, Delivered!End
  <2> QED
      BY <2>5, <2>6
<1>5. CASE ~C!DecodeEnd
  <2>1. got' = got /\ cs'.terminal = cs.terminal
    <3>1. CASE \E dest \in source.dests : C!Decode(dest)
        BY <1>3, <3>1 DEF C!Decode, CompatType
    <3>2. CASE C!Read
        BY <3>2, CompatReader DEF C!Read, Take
    <3>3. CASE C!ReadEnd
        BY <3>3, CompatReader DEF C!ReadEnd, TakeEnd
    <3>4. CASE C!More
        BY <3>4, CompatReader DEF C!More, StartMore
    <3>5. CASE C!MoreEnd
        BY <3>5, CompatReader DEF C!MoreEnd, PeekMore
    <3>6. CASE \E o : C!Choose(o)
        BY <1>3, <3>6 DEF C!Choose, CompatType
    <3> QED
        BY <1>5, <3>1, <3>2, <3>3, <3>4, <3>5, <3>6
        DEF C!Next, C!UseNumber, C!DisallowUnknownFields
  <2> QED
      BY <1>2, <1>3, <2>1
<1> QED
    BY <1>4, <1>5

\* Of a string decoder's steps the end of a Decode and Reset are seen.
LEMMA StringDelivers ==
    ASSUME StreamsInv, String, T!Next
    PROVE  [Delivered!Next]_<<Input, Values, got, Terminal>>
<1>1. /\ TypeInv /\ BufferInv /\ TextInv /\ EndInv /\ StringInv
    BY DEF StreamsInv
<1>2. Terminal = FALSE /\ Terminal' = FALSE
  <2>1. source'.kind = source.kind
    <3>1. CASE T!Reset
      <4>1. source \in Source
          BY <1>1 DEF TypeInv
      <4> QED
          BY <3>1, <4>1 DEF T!Reset, Source
    <3> QED
        BY <3>1 DEF T!Next, T!Choose, T!SetOptions, T!UseNumber, T!UseInt64,
                    T!DisallowUnknownFields
  <2> QED
      BY <2>1 DEF Terminal, String, Stream
<1>3. CASE T!Reset
  <2>1. got' = <<>> /\ Input' # Input
    <3>1. PICK t \in source.resets \ {Input} : source' = [source EXCEPT !.input = t]
        BY <1>3, StringReader DEF T!Reset
    <3>2. source \in Source
        BY <1>1 DEF TypeInv
    <3>3. source'.input = t
        BY <3>1, <3>2 DEF Source
    <3> QED
        BY <1>3, <3>1, <3>3 DEF T!Reset, Input
  <2> QED
      BY <1>2, <2>1 DEF Delivered!Next, Delivered!Reset
<1>4. CASE T!DecodeEnd /\ source' = source
  <2>1. call.op = "decode" /\ ~Idle
      BY <1>4 DEF T!DecodeEnd, Idle
  <2>2. st.live /\ Alive /\ Consumed = End
      BY <1>1, <2>1 DEF StringInv, Alive
  <2>3. got' = IF Size # 0 THEN Append(got, Value) ELSE got
      BY <1>4, StringReader DEF T!DecodeEnd
  <2>4. Size # 0 <=> Scanned = "value"
      BY <1>1, SizeFacts
  <2>5. Input' = Input /\ Values' = Values
      BY <1>4, SameValues
  <2>6. CASE Scanned = "value"
    <3>1. End \in Nat
        BY <1>1, InputFacts DEF EndInv, IsEnd, TypeInv
    <3>2. End <= Consumed /\ Blank(End, Consumed)
        BY <2>2, <3>1 DEF Blank
    <3>3. Len(got) < Len(Values) /\ Values[Len(got) + 1] = Value
        BY <1>1, <2>2, <2>6, <3>2, NextOwed
    <3> QED
        BY <1>2, <2>3, <2>4, <2>5, <2>6, <3>3 DEF Delivered!Next, Delivered!Deliver
  <2>7. CASE Scanned # "value"
      BY <1>2, <2>3, <2>4, <2>5, <2>7
  <2> QED
      BY <2>6, <2>7
<1>5. CASE ~T!Reset /\ ~(T!DecodeEnd /\ source' = source)
  <2>1. got' = got /\ source' = source
    <3>1. CASE (\E dest \in source.dests : T!Decode(dest)) /\ source' = source
        BY <3>1 DEF T!Decode
    <3>2. CASE T!Read /\ source' = source
        BY <3>2, StringReader DEF T!Read, Take
    <3>3. CASE T!ReadEnd /\ source' = source
        BY <3>3, StringReader DEF T!ReadEnd, TakeEnd
    <3>4. CASE \E o : T!Choose(o)
        BY <3>4 DEF T!Choose
    <3> QED
        BY <1>5, <3>1, <3>2, <3>3, <3>4
        DEF T!Next, T!SetOptions, T!UseNumber, T!UseInt64, T!DisallowUnknownFields
  <2> QED
      BY <1>2, <2>1, SameValues
<1> QED
    BY <1>3, <1>4, <1>5

\* The three decoders deliver the values of the input in order, each once, and
\* nothing after an error that is final.
THEOREM StreamsImplement == Spec => ImplementsStream
<1>1. Init => Delivered!Init
  <2> SUFFICES ASSUME Init PROVE Delivered!Init
      OBVIOUS
  <2>1. source \in Source
      BY StreamAssumption DEF Init
  <2>2. CASE source.kind = "stream"
      BY <2>2 DEF Init, Delivered!Init, S!Init, S!InitDecoder, Terminal, Stream
  <2>3. CASE source.kind = "compat"
    <3>1. got = <<>> /\ cs.terminal = FALSE
        BY <2>3 DEF Init, C!Init, C!InitDecoder
    <3> QED
        BY <2>3, <3>1 DEF Delivered!Init, Terminal, Stream, String
  <2>4. CASE source.kind = "string"
      BY <2>4 DEF Init, Delivered!Init, T!Init, T!InitDecoder, Terminal, Stream, String
  <2> QED
      BY <2>1, <2>2, <2>3, <2>4 DEF Source
<1>2. StreamsInv /\ [Next]_vars => [Delivered!Next]_<<Input, Values, got, Terminal>>
  <2> SUFFICES ASSUME StreamsInv, [Next]_vars
               PROVE  [Delivered!Next]_<<Input, Values, got, Terminal>>
      OBVIOUS
  <2>1. CASE source.kind = "stream" /\ S!Next
      BY <2>1, StreamDelivers DEF Stream
  <2>2. CASE source.kind = "compat" /\ C!Next
      BY <2>2, CompatDelivers DEF Compat
  <2>3. CASE source.kind = "string" /\ T!Next
      BY <2>3, StringDelivers DEF String
  <2>4. CASE UNCHANGED vars
    <3>1. Input' = Input /\ Values' = Values /\ got' = got
        BY <2>4, SameValues DEF vars
    <3>2. Terminal' = Terminal
        BY <2>4 DEF vars, Terminal, Stream, String
    <3> QED
        BY <3>1, <3>2
  <2> QED
      BY <2>1, <2>2, <2>3, <2>4 DEF Next
<1> QED
    BY <1>1, <1>2, StreamsSound, PTL DEF Spec, ImplementsStream, Delivered!Spec

\* ERR_EOF means that the text is used up, unless a destination returns io.EOF.
LEMMA InvExhausted == StreamsInv /\ "eof" \notin Cases => EOFOnlyWhenExhausted
<1> SUFFICES ASSUME StreamsInv, "eof" \notin Cases, String, st.pos = Len(Input)
             PROVE  Len(got) = Len(Values)
    BY DEF EOFOnlyWhenExhausted
<1>1. source \in Source /\ Len(got) \in Nat
    BY SeqFacts DEF StreamsInv, TypeInv
<1>2. IsEnd(Len(got), End) /\ (\A i \in 1..End : Input[i] # Malformed)
    BY DEF StreamsInv, EndInv
<1>3. Blank(End, Len(Input))
    BY DEF StreamsInv, StringInv
<1> QED
    BY <1>1, <1>2, <1>3, ValuesEnd

\* When Decode answers ERR_EOF every value of the text was decoded, for
\* destinations that do not return io.EOF themselves.
THEOREM StreamsExhausted == Spec => []("eof" \notin Cases => EOFOnlyWhenExhausted)
    BY StreamsSound, InvExhausted, PTL
=================================================================================
