------------------------------ MODULE EncoderProofs ------------------------------
(***************************************************************************)
(* The pool's states and buffers have one user each, and what Marshal has   *)
(* returned never changes, and what callers append to holds just what they  *)
(* appended: for any number of goroutines, values of any size, and          *)
(* marshalers that call the encoder again to any depth.  A StreamEncoder's  *)
(* writer takes whole records in the format in force, for values of any     *)
(* size, any writer, and any number of calls and changes.                   *)
(***************************************************************************)
EXTENDS Encoder, SequenceTheorems, WellFoundedInduction, TLAPS

Cell == Values \cup {Newline, Blank}
Buf == [arr : Nat, len : Nat]
Call == [op : {"marshal", "append"}, val : Values, st : Nat, phase : Phases, own : Buf]

Typed ==
    /\ mem \in Seq(Seq(Cell))
    /\ state \in Seq([arr : Nat, len : Nat, drop : BOOLEAN])
    /\ pool \subseteq DOMAIN state
    /\ stack \in [Goroutines -> Seq(Call)]
    /\ dst \in [Goroutines -> Buf]
    /\ results \subseteq [arr : Nat, len : Nat, val : Values]

\* Every buffer lies within its array, and a call's state is not in the pool.
FitsIn(m, b) == b.arr \in 0..Len(m) /\ b.len \in Nat /\ b.len <= Capacity(m, b)
Bounded ==
    /\ \A s \in DOMAIN state : FitsIn(mem, BufOf(s))
    /\ \A g \in Goroutines : FitsIn(mem, dst[g])
    /\ \A g \in Goroutines : \A i \in DOMAIN stack[g] :
         stack[g][i].st \in DOMAIN state \ pool /\ FitsIn(mem, stack[g][i].own)

\* Who holds a state, and in which place of its stack.
OneUser ==
    \A g, h \in Goroutines : \A i \in DOMAIN stack[g], j \in DOMAIN stack[h] :
        stack[g][i].st = stack[h][j].st => g = h /\ i = j

\* An array is private to a state: the pooled state's own, or that of the call
\* which holds the state.  A call of Append has lent its state another array.
Private(s, a) ==
    \/ s \in pool /\ state[s].arr = a
    \/ \E g \in Goroutines : \E i \in DOMAIN stack[g] :
         /\ stack[g][i].st = s
         /\ stack[g][i].own.arr = a \/ (stack[g][i].op = "marshal" /\ state[s].arr = a)
\* A caller appends to it.
Lent(a) ==
    \/ \E g \in Goroutines : dst[g].arr = a
    \/ \E g \in Goroutines : \E i \in DOMAIN stack[g] :
         stack[g][i].op = "append" /\ state[stack[g][i].st].arr = a
Returned(a) == \E r \in results : r.arr = a

\* An array has one owner: a state, the callers, or who was given the result.
OneOwner(a) ==
    /\ \A s, t \in DOMAIN state : Private(s, a) /\ Private(t, a) => s = t
    /\ \A s \in DOMAIN state : Private(s, a) => ~Lent(a) /\ ~Returned(a)
    /\ ~(Lent(a) /\ Returned(a))
Owned == \A a \in 1..Len(mem) : OneOwner(a)

\* A buffer holds the text of v.
Holds(m, b, v) ==
    /\ b.arr \in DOMAIN m /\ b.len = Size[v] /\ b.len <= Len(m[b.arr])
    /\ \A j \in 1..b.len : m[b.arr][j] = v

\* What a call may rely on: its state is set up for it, a marshaling one is empty
\* until the text is written, and its own buffer is as clean as the pool's.
CallOK(f) ==
    /\ state[f.st].drop = TRUE
    /\ f.own.len = 0 /\ Capacity(mem, f.own) <= Limit
    /\ f.op = "marshal" /\ f.phase = "encoding" => state[f.st].len = 0
    /\ f.op = "marshal" /\ f.phase = "written" => Holds(mem, BufOf(f.st), f.val)

Contents ==
    /\ PoolIsClean
    /\ \A r \in results : Holds(mem, r, r.val)
    /\ \A g \in Goroutines : \A i \in DOMAIN stack[g] : CallOK(stack[g][i])

PoolInv == Typed /\ Bounded /\ OneUser /\ Owned /\ Contents
-----------------------------------------------------------------------------
(* Sequences.                                                               *)

\* What tlapm is told about sequences: their length and domain,
LEMMA DomainFacts ==
    ASSUME NEW S, NEW s \in Seq(S)
    PROVE  Len(s) \in Nat /\ DOMAIN s = 1..Len(s)
OBVIOUS

\* an element put in front,
LEMMA PushFacts ==
    ASSUME NEW S, NEW e \in S, NEW s \in Seq(S)
    PROVE  /\ <<e>> \o s \in Seq(S) /\ Len(<<e>> \o s) = Len(s) + 1
           /\ (<<e>> \o s)[1] = e
           /\ \A i \in 1..Len(s) : (<<e>> \o s)[i + 1] = s[i]
OBVIOUS

\* one taken from the front,
LEMMA TailFacts ==
    ASSUME NEW S, NEW s \in Seq(S), s # <<>>
    PROVE  /\ Len(s) \in Nat \ {0} /\ Tail(s) \in Seq(S) /\ Len(Tail(s)) = Len(s) - 1
           /\ Head(s) = s[1] /\ s[1] \in S
           /\ \A i \in 1..Len(Tail(s)) : i + 1 \in 1..Len(s) /\ Tail(s)[i] = s[i + 1]
OBVIOUS

\* one put at the end,
LEMMA AppendFacts ==
    ASSUME NEW S, NEW e \in S, NEW s \in Seq(S)
    PROVE  /\ Append(s, e) \in Seq(S) /\ Len(Append(s, e)) = Len(s) + 1
           /\ Append(s, e)[Len(s) + 1] = e
           /\ \A i \in 1..Len(s) : Append(s, e)[i] = s[i]
OBVIOUS

\* a prefix,
LEMMA PrefixFacts ==
    ASSUME NEW S, NEW s \in Seq(S), NEW n \in 0..Len(s)
    PROVE  /\ SubSeq(s, 1, n) \in Seq(S) /\ Len(SubSeq(s, 1, n)) = n
           /\ \A i \in 1..n : SubSeq(s, 1, n)[i] = s[i]
OBVIOUS

\* two sequences in a row,
LEMMA ConcatFacts ==
    ASSUME NEW S, NEW s \in Seq(S), NEW t \in Seq(S)
    PROVE  /\ s \o t \in Seq(S) /\ Len(s \o t) = Len(s) + Len(t)
           /\ \A i \in 1..Len(s) : (s \o t)[i] = s[i]
           /\ \A i \in 1..Len(t) : (s \o t)[Len(s) + i] = t[i]
OBVIOUS
\* and a function on 1..n.
LEMMA FunctionFacts ==
    ASSUME NEW S, NEW n \in Nat, NEW f \in [1..n -> S]
    PROVE  f \in Seq(S) /\ Len(f) = n
OBVIOUS
-----------------------------------------------------------------------------
(* The memory.                                                              *)

\* m2 is m, maybe with another array at its end; only the array t has changed.
Grown(m, m2, t) ==
    /\ m2 \in Seq(Seq(Cell)) /\ (Len(m2) = Len(m) \/ Len(m2) = Len(m) + 1)
    /\ DOMAIN m \subseteq DOMAIN m2
    /\ \A a \in 1..Len(m) : Len(m2[a]) = Len(m[a]) /\ (a # t => m2[a] = m[a])

\* What lay within an array does so still,
LEMMA FitsGrown ==
    ASSUME NEW m \in Seq(Seq(Cell)), NEW m2, NEW t, Grown(m, m2, t), NEW b, FitsIn(m, b)
    PROVE  FitsIn(m2, b) /\ Capacity(m2, b) = Capacity(m, b)
BY DEF Grown, FitsIn, Capacity

\* a text in another array is still there,
LEMMA HoldsGrown ==
    ASSUME NEW m \in Seq(Seq(Cell)), NEW m2, NEW t, Grown(m, m2, t),
           NEW b, NEW v \in Values, Holds(m, b, v), b.arr # t
    PROVE  Holds(m2, b, v)
<1>1. b.arr \in DOMAIN m /\ DOMAIN m = 1..Len(m)
    BY DomainFacts DEF Holds
<1>2. b.arr \in DOMAIN m2 /\ m2[b.arr] = m[b.arr]
    BY <1>1 DEF Grown
<1> QED
    BY <1>2 DEF Holds

\* and a new array leaves all others alone.
LEMMA AppendGrown ==
    ASSUME NEW m \in Seq(Seq(Cell)), NEW s \in Seq(Cell)
    PROVE  /\ Grown(m, Append(m, s), 0)
           /\ Append(m, s) \in Seq(Seq(Cell)) /\ Append(m, s)[Len(m) + 1] = s
BY DEF Grown

\* Read gives the cells of the buffer,
LEMMA ReadFacts ==
    ASSUME NEW m \in Seq(Seq(Cell)), NEW b, FitsIn(m, b)
    PROVE  /\ Read(m, b) \in Seq(Cell) /\ Len(Read(m, b)) = b.len
           /\ \A j \in 1..b.len : Read(m, b)[j] = m[b.arr][j]
<1>1. CASE b.arr = 0
    BY <1>1 DEF FitsIn, Capacity, Read
<1>2. CASE b.arr # 0
  <2>1. m[b.arr] \in Seq(Cell) /\ b.len \in 0..Len(m[b.arr])
      BY <1>2 DEF FitsIn, Capacity
  <2> QED
      BY <1>2, <2>1, PrefixFacts DEF Read
<1> QED
    BY <1>1, <1>2

\* and Cells the text of a value.
LEMMA CellsFacts ==
    ASSUME NEW v \in Values
    PROVE  /\ Cells(v) \in Seq(Cell) /\ Len(Cells(v)) = Size[v] /\ Size[v] \in Nat \ {0}
           /\ \A j \in 1..Size[v] : Cells(v)[j] = v
BY PoolAssumption DEF Cells, Cell

\* What append does to the memory, and what the buffer then holds.
LEMMA ExtendedFacts ==
    ASSUME NEW m \in Seq(Seq(Cell)), NEW b, FitsIn(m, b),
           NEW cells \in Seq(Cell), cells # <<>>
    PROVE  LET e == Extended(m, b, cells) IN
           /\ Grown(m, e.mem, b.arr) /\ e.mem \in Seq(Seq(Cell)) /\ FitsIn(e.mem, e.buf)
           /\ e.buf.len = b.len + Len(cells) /\ e.buf \in Buf
           /\ \/ e.buf.arr = b.arr /\ b.arr # 0 /\ Len(e.mem) = Len(m)
              \/ e.buf.arr = Len(m) + 1 /\ Len(e.mem) = Len(m) + 1 /\ Grown(m, e.mem, 0)
           /\ b.len = 0 => \A j \in 1..Len(cells) : e.mem[e.buf.arr][j] = cells[j]
<1> DEFINE n == b.len + Len(cells)
           cap == Capacity(m, b)
           room == IF n <= cap THEN cap ELSE IF n > 2 * cap THEN n ELSE 2 * cap
           text == Read(m, b) \o cells
<1>1. /\ text \in Seq(Cell) /\ Len(text) = n /\ n \in Nat \ {0} /\ cap \in Nat /\ b.len \in Nat
      /\ \A j \in 1..n : text[j] \in Cell
      /\ b.len = 0 => \A j \in 1..Len(cells) : text[j] = cells[j]
  <2>1. Read(m, b) \in Seq(Cell) /\ Len(Read(m, b)) = b.len /\ b.len \in Nat
      BY ReadFacts DEF FitsIn
  <2>2. Len(cells) \in Nat \ {0} /\ cap \in Nat
      BY DEF FitsIn, Capacity
  <2>3. text \in Seq(Cell) /\ Len(text) = n
      BY <2>1, ConcatFacts
  <2>4. b.len = 0 => \A j \in 1..Len(cells) : text[j] = cells[j]
      BY <2>1, ConcatFacts
  <2> QED
      BY <2>1, <2>2, <2>3, <2>4
<1> HIDE DEF text
<1>2. CASE n <= cap
  <2> DEFINE old == m[b.arr]
             new == [i \in DOMAIN old |-> IF i \in (b.len + 1)..n THEN text[i] ELSE old[i]]
  <2>1. b.arr \in 1..Len(m) /\ cap = Len(old) /\ old \in Seq(Cell)
      BY <1>1, <1>2 DEF FitsIn, Capacity
  <2>2. new \in Seq(Cell) /\ Len(new) = Len(old)
    <3>1. Len(old) \in Nat /\ DOMAIN old = 1..Len(old) /\ \A i \in 1..Len(old) : old[i] \in Cell
        BY <2>1
    <3>2. new \in [1..Len(old) -> Cell]
        BY <1>1, <3>1
    <3> QED
        BY <3>1, <3>2, FunctionFacts
  <2>3. Extended(m, b, cells)
          = [mem |-> [m EXCEPT ![b.arr] = new], buf |-> [arr |-> b.arr, len |-> n]]
      BY <1>2, <2>1 DEF Extended, text
  <2>4. \A j \in 1..n : j > b.len => new[j] = text[j]
      BY <1>1, <1>2, <2>1
  <2> HIDE DEF new
  <2>5. /\ [m EXCEPT ![b.arr] = new] \in Seq(Seq(Cell))
        /\ Len([m EXCEPT ![b.arr] = new]) = Len(m)
        /\ [m EXCEPT ![b.arr] = new][b.arr] = new
        /\ \A a \in 1..Len(m) : a # b.arr => [m EXCEPT ![b.arr] = new][a] = m[a]
      BY <2>1, <2>2
  <2> DEFINE m2 == [m EXCEPT ![b.arr] = new]
  <2> HIDE DEF m2
  <2>6. Grown(m, m2, b.arr) /\ m2 \in Seq(Seq(Cell)) /\ m2[b.arr] = new /\ Len(m2) = Len(m)
      BY <2>1, <2>2, <2>5 DEF Grown, m2
  <2>7. Extended(m, b, cells) = [mem |-> m2, buf |-> [arr |-> b.arr, len |-> n]]
      BY <2>3 DEF m2
  <2> DEFINE c == [arr |-> b.arr, len |-> n]
  <2>8. FitsIn(m2, c) /\ c \in Buf /\ b.arr # 0
      BY <1>1, <1>2, <2>1, <2>2, <2>6 DEF FitsIn, Capacity, Buf
  <2>9. b.len = 0 => \A j \in 1..Len(cells) : m2[b.arr][j] = cells[j]
      BY <1>1, <2>4, <2>6
  <2> DEFINE e == Extended(m, b, cells)
  <2>10. e.mem = m2 /\ e.buf = c /\ c.arr = b.arr /\ c.len = n
      BY <2>7
  <2> HIDE DEF e, c
  <2>11. Grown(m, e.mem, b.arr) /\ e.mem \in Seq(Seq(Cell)) /\ Len(e.mem) = Len(m)
      BY <2>6, <2>10
  <2>12. FitsIn(e.mem, e.buf) /\ e.buf \in Buf /\ e.buf.arr = b.arr /\ e.buf.len = n
      BY <2>8, <2>10
  <2>13. b.len = 0 => \A j \in 1..Len(cells) : e.mem[e.buf.arr][j] = cells[j]
      BY <2>9, <2>10
  <2> QED
      BY <2>8, <2>11, <2>12, <2>13 DEF e
<1>3. CASE ~(n <= cap)
  <2> DEFINE new == [i \in 1..room |-> IF i <= n THEN text[i] ELSE Blank]
             m2 == Append(m, new)
  <2>1. room \in Nat /\ room >= n
      BY <1>1, <1>3
  <2> HIDE DEF room
  <2>2. new \in Seq(Cell) /\ Len(new) = room /\ \A j \in 1..n : new[j] = text[j]
    <3>1. Blank \in Cell
        BY DEF Cell
    <3>2. new \in [1..room -> Cell]
      <4>1. \A i \in 1..room : (IF i <= n THEN text[i] ELSE Blank) \in Cell
          BY <1>1, <3>1
      <4> QED
          BY <4>1
    <3>3. new \in Seq(Cell) /\ Len(new) = room
      <4> HIDE DEF new
      <4> QED
          BY <2>1, <3>2, FunctionFacts
    <3>4. \A j \in 1..n : new[j] = text[j]
      <4>1. \A j \in 1..n : j \in 1..room /\ j <= n
          BY <1>1, <2>1
      <4> QED
          BY <4>1
    <3> QED
        BY <3>3, <3>4
  <2>3. Extended(m, b, cells) = [mem |-> m2, buf |-> [arr |-> Len(m) + 1, len |-> n]]
      BY <1>3 DEF Extended, text, room
  <2> HIDE DEF new
  <2>4. Grown(m, m2, 0) /\ m2 \in Seq(Seq(Cell)) /\ m2[Len(m) + 1] = new /\ Len(m2) = Len(m) + 1
      BY <2>2, AppendGrown, AppendFacts
  <2> HIDE DEF m2
  <2>5. Grown(m, m2, b.arr)
    <3>1. Len(m) \in Nat
        OBVIOUS
    <3> QED
        BY <2>4, <3>1 DEF Grown
  <2> DEFINE c == [arr |-> Len(m) + 1, len |-> n]
  <2>6. FitsIn(m2, c) /\ c \in Buf
      BY <1>1, <2>1, <2>2, <2>4 DEF FitsIn, Capacity, Buf
  <2>7. b.len = 0 => \A j \in 1..Len(cells) : m2[Len(m) + 1][j] = cells[j]
      BY <1>1, <2>2, <2>4
  <2> QED
      BY <2>3, <2>4, <2>5, <2>6, <2>7
<1> QED
    BY <1>2, <1>3
-----------------------------------------------------------------------------
(* The stacks.                                                              *)

\* The same call, maybe in another phase.
Same(f2, f) == f2.st = f.st /\ f2.op = f.op /\ f2.own = f.own /\ f2.val = f.val

\* SetPhase changes nothing but the phase of g's innermost call.
LEMMA SetPhaseFacts ==
    ASSUME Typed, NEW g \in Goroutines, NEW p \in Phases, stack[g] # <<>>, SetPhase(g, p)
    PROVE  /\ stack' \in [Goroutines -> Seq(Call)]
           /\ \A h \in Goroutines : DOMAIN stack'[h] = DOMAIN stack[h]
           /\ \A h \in Goroutines : \A i \in DOMAIN stack[h] :
                Same(stack'[h][i], stack[h][i]) /\ (h # g \/ i # 1 => stack'[h][i] = stack[h][i])
           /\ 1 \in DOMAIN stack[g] /\ stack[g][1] = Top(g) /\ stack'[g][1].phase = p
<1> DEFINE old == stack[g]
           new == [old EXCEPT ![1].phase = p]
<1>1. old \in Seq(Call) /\ 1 \in DOMAIN old /\ old[1] = Head(old) /\ old[1] \in Call
    BY TailFacts, DomainFacts DEF Typed
<1>2. [old[1] EXCEPT !.phase = p] \in Call
    BY <1>1 DEF Call
<1>3. new \in Seq(Call)
    BY <1>1, <1>2
<1>4. /\ DOMAIN new = DOMAIN old /\ new[1].phase = p
      /\ \A i \in DOMAIN old : Same(new[i], old[i]) /\ (i # 1 => new[i] = old[i])
    BY <1>1 DEF Same, Call
<1>5. stack' = [stack EXCEPT ![g] = new]
    BY DEF SetPhase
<1> HIDE DEF new
<1>6. stack'[g] = new /\ \A h \in Goroutines : h # g => stack'[h] = stack[h]
    BY <1>5 DEF Typed
<1>7. stack' \in [Goroutines -> Seq(Call)]
    BY <1>3, <1>5 DEF Typed
<1> QED
    BY <1>1, <1>4, <1>6, <1>7 DEF Same, Top

\* A call is pushed: the others keep their order behind it.
LEMMA PushedFacts ==
    ASSUME Typed, NEW g \in Goroutines, NEW f \in Call,
           stack' = [stack EXCEPT ![g] = <<f>> \o @]
    PROVE  /\ stack' \in [Goroutines -> Seq(Call)]
           /\ \A h \in Goroutines : h # g => stack'[h] = stack[h]
           /\ stack'[g][1] = f
           /\ \A i \in DOMAIN stack'[g] :
                i # 1 => i - 1 \in DOMAIN stack[g] /\ stack'[g][i] = stack[g][i - 1]
<1> DEFINE new == <<f>> \o stack[g]
<1>1. stack[g] \in Seq(Call)
    BY DEF Typed
<1>2. /\ new \in Seq(Call) /\ Len(new) = Len(stack[g]) + 1 /\ new[1] = f
      /\ \A i \in 1..Len(stack[g]) : new[i + 1] = stack[g][i]
    BY <1>1, PushFacts
<1>3. /\ Len(stack[g]) \in Nat /\ DOMAIN stack[g] = 1..Len(stack[g])
      /\ DOMAIN new = 1..Len(new)
    BY <1>1, <1>2, DomainFacts
<1>4. \A i \in DOMAIN new : i # 1 => i - 1 \in DOMAIN stack[g] /\ new[i] = stack[g][i - 1]
  <2> TAKE i \in DOMAIN new
  <2> HAVE i # 1
  <2>1. i - 1 \in 1..Len(stack[g]) /\ (i - 1) + 1 = i
      BY <1>2, <1>3
  <2> QED
      BY <1>2, <1>3, <2>1
<1>5. stack' = [stack EXCEPT ![g] = new]
    OBVIOUS
<1> HIDE DEF new
<1>6. stack'[g] = new /\ \A h \in Goroutines : h # g => stack'[h] = stack[h]
    BY <1>5 DEF Typed
<1>7. stack' \in [Goroutines -> Seq(Call)]
    BY <1>2, <1>5 DEF Typed
<1> QED
    BY <1>2, <1>4, <1>6, <1>7

\* A call is over: the others stay, and the next one panics if it did.
LEMMA PoppedFacts ==
    ASSUME Typed, NEW g \in Goroutines, stack[g] # <<>>, stack' = [stack EXCEPT ![g] = Popped(g)]
    PROVE  /\ stack' \in [Goroutines -> Seq(Call)]
           /\ \A h \in Goroutines : h # g => stack'[h] = stack[h]
           /\ 1 \in DOMAIN stack[g] /\ stack[g][1] = Top(g) /\ Top(g) \in Call
           /\ \A i \in DOMAIN stack'[g] :
                /\ i \in Nat \ {0} /\ i + 1 \in DOMAIN stack[g]
                /\ Same(stack'[g][i], stack[g][i + 1])
                /\ stack'[g][i].phase \in {stack[g][i + 1].phase, "panicking"}
<1> DEFINE old == stack[g]
           tail == Tail(old)
<1>1. old \in Seq(Call) /\ old # <<>>
    BY DEF Typed
<1>2. /\ Len(old) \in Nat \ {0} /\ tail \in Seq(Call) /\ Len(tail) = Len(old) - 1
      /\ Head(old) = old[1] /\ old[1] \in Call
      /\ \A i \in 1..Len(tail) : i + 1 \in 1..Len(old) /\ tail[i] = old[i + 1]
    BY <1>1, TailFacts
<1>3. DOMAIN old = 1..Len(old) /\ DOMAIN tail = 1..Len(tail) /\ Len(tail) \in Nat
    BY <1>1, <1>2, DomainFacts
<1> HIDE DEF tail
<1>4. /\ Popped(g) \in Seq(Call) /\ DOMAIN Popped(g) = DOMAIN tail
      /\ \A i \in DOMAIN tail : /\ Same(Popped(g)[i], tail[i])
                               /\ Popped(g)[i].phase \in {tail[i].phase, "panicking"}
  <2>1. CASE Top(g).phase = "panicking" /\ tail # <<>>
    <3>1. 1 \in DOMAIN tail /\ tail[1] \in Call
        BY <1>2, <2>1, TailFacts, DomainFacts
    <3>2. [tail[1] EXCEPT !.phase = "panicking"] \in Call
        BY <3>1 DEF Call, Phases
    <3>3. [tail EXCEPT ![1].phase = "panicking"] \in Seq(Call)
        BY <1>2, <3>1, <3>2
    <3>4. Popped(g) = [tail EXCEPT ![1].phase = "panicking"]
        BY <2>1 DEF Popped, tail
    <3> QED
        BY <3>1, <3>3, <3>4 DEF Same, Call
  <2>2. CASE ~(Top(g).phase = "panicking" /\ tail # <<>>)
    <3>1. Popped(g) = tail
        BY <2>2 DEF Popped, tail
    <3> QED
        BY <1>2, <3>1 DEF Same
  <2> QED
      BY <2>1, <2>2
<1>5. stack'[g] = Popped(g) /\ \A h \in Goroutines : h # g => stack'[h] = stack[h]
    BY DEF Typed
<1>6. stack' \in [Goroutines -> Seq(Call)]
    BY <1>4 DEF Typed
<1>7. \A i \in DOMAIN stack'[g] :
        /\ i \in Nat \ {0} /\ i + 1 \in DOMAIN stack[g] /\ tail[i] = stack[g][i + 1]
        /\ i \in DOMAIN tail
    BY <1>2, <1>3, <1>4, <1>5
<1>8. /\ 1 \in DOMAIN stack[g] /\ stack[g][1] = Top(g) /\ Top(g) \in Call
    BY <1>2, <1>3 DEF Top
<1> HIDE DEF old
<1> QED
    BY <1>4, <1>5, <1>6, <1>7, <1>8
-----------------------------------------------------------------------------
(* The steps.                                                               *)

\* Nobody comes to own an array that was owned before.
LEMMA OwnersKept ==
    ASSUME NEW a, OneOwner(a),
           \A s \in DOMAIN state' : Private(s, a)' => s \in DOMAIN state /\ Private(s, a),
           Lent(a)' => Lent(a), Returned(a)' => Returned(a)
    PROVE  OneOwner(a)'
BY DEF OneOwner

\* The calls go on, and their states, the pool and the memory stay.
LEMMA PhaseStep ==
    ASSUME PoolInv, NEW g \in Goroutines, NEW p \in {"failed", "panicking"},
           stack[g] # <<>>, SetPhase(g, p), UNCHANGED <<mem, state, pool, dst, results>>
    PROVE  PoolInv'
<1>1. /\ stack' \in [Goroutines -> Seq(Call)]
      /\ \A h \in Goroutines : DOMAIN stack'[h] = DOMAIN stack[h]
      /\ \A h \in Goroutines : \A i \in DOMAIN stack[h] :
           Same(stack'[h][i], stack[h][i]) /\ (h # g \/ i # 1 => stack'[h][i] = stack[h][i])
      /\ stack'[g][1].phase = p
    BY SetPhaseFacts DEF PoolInv, Phases
<1>2. Typed'
    BY <1>1 DEF PoolInv, Typed
<1>3. Bounded'
    BY <1>1 DEF PoolInv, Bounded, Same, BufOf
<1>4. OneUser'
    BY <1>1 DEF PoolInv, OneUser, Same
<1>5. Owned'
  <2> SUFFICES ASSUME NEW a \in 1..Len(mem)
               PROVE  OneOwner(a)'
      BY DEF Owned
  <2>1. OneOwner(a)
      BY DEF PoolInv, Owned
  <2>2. ASSUME NEW s \in DOMAIN state', Private(s, a)'
        PROVE  s \in DOMAIN state /\ Private(s, a)
      BY <1>1, <2>2 DEF Private, Same
  <2>3. Lent(a)' => Lent(a)
      BY <1>1 DEF Lent, Same
  <2>4. Returned(a)' => Returned(a)
      BY DEF Returned
  <2> QED
      BY <2>1, <2>2, <2>3, <2>4, OwnersKept
<1>6. Contents'
  <2>1. PoolIsClean' /\ \A r \in results' : Holds(mem', r, r.val)
      BY DEF PoolInv, Contents, PoolIsClean, BufOf
  <2>2. ASSUME NEW h \in Goroutines, NEW i \in DOMAIN stack'[h]
        PROVE  CallOK(stack[h][i])'
    <3>1. CallOK(stack[h][i])
        BY <1>1 DEF PoolInv, Contents
    <3>2. CASE h = g /\ i = 1
        BY <1>1, <3>1, <3>2 DEF CallOK, Same
    <3>3. CASE ~(h = g /\ i = 1)
        BY <1>1, <3>1, <3>3 DEF CallOK, BufOf
    <3> QED
        BY <3>2, <3>3
  <2> QED
      BY <2>1, <2>2 DEF Contents
<1> QED
    BY <1>2, <1>3, <1>4, <1>5, <1>6 DEF PoolInv
StateRec == [arr : Nat, len : Nat, drop : BOOLEAN]

\* A state was taken out of the pool, or is new.
LEMMA GotFacts ==
    ASSUME Typed, NEW s \in Gettable
    PROVE  /\ Got(s) \in Seq(StateRec) /\ DOMAIN Got(s) = DOMAIN state \cup {s}
           /\ \A t \in DOMAIN state : Got(s)[t] = state[t]
           /\ Got(s)[s] \in StateRec /\ (s \notin DOMAIN state => Got(s)[s] = State(NilBuf, FALSE))
           /\ s \in pool \/ s \notin DOMAIN state
<1>1. state \in Seq(StateRec) /\ pool \subseteq DOMAIN state
    BY DEF Typed, StateRec
<1>2. Len(state) \in Nat /\ DOMAIN state = 1..Len(state)
    BY <1>1, DomainFacts
<1>3. CASE s \in DOMAIN state
  <2>3. s \in 1..Len(state)
      BY <1>2, <1>3
  <2>1. s # Len(state) + 1
      BY <1>2, <2>3
  <2>2. s \in pool /\ Got(s) = state
      BY <1>3, <2>1 DEF Got, Gettable
  <2>4. state[s] \in StateRec
      BY <1>1, <1>2, <2>3
  <2>5. DOMAIN state = DOMAIN state \cup {s}
      BY <1>3
  <2> QED
      BY <1>1, <1>3, <2>2, <2>4, <2>5, Zenon
<1>4. CASE s \notin DOMAIN state
  <2>1. s = Len(state) + 1 /\ Got(s) = Append(state, State(NilBuf, FALSE))
      BY <1>1, <1>4 DEF Got, Gettable
  <2> DEFINE new == State(NilBuf, FALSE)
             q == Append(state, new)
  <2>2. new \in StateRec
      BY DEF State, NilBuf, StateRec
  <2> HIDE DEF new
  <2>3. /\ q \in Seq(StateRec) /\ Len(q) = Len(state) + 1 /\ q[Len(state) + 1] = new
        /\ \A i \in 1..Len(state) : q[i] = state[i]
      BY <1>1, <2>2, AppendFacts
  <2> HIDE DEF q
  <2>5. Got(s) = q
      BY <2>1 DEF q, new
  <2>4. DOMAIN q = 1..Len(q)
      BY <2>3, DomainFacts
  <2>6. DOMAIN q = DOMAIN state \cup {s}
      BY <1>2, <2>1, <2>3, <2>4
  <2> QED
      BY <1>2, <1>4, <2>1, <2>2, <2>3, <2>5, <2>6 DEF new
<1> QED
    BY <1>3, <1>4

\* One state is set.
LEMMA SetFacts ==
    ASSUME NEW q \in Seq(StateRec), NEW s \in DOMAIN q, NEW x \in StateRec
    PROVE  /\ [q EXCEPT ![s] = x] \in Seq(StateRec) /\ DOMAIN [q EXCEPT ![s] = x] = DOMAIN q
           /\ [q EXCEPT ![s] = x][s] = x
           /\ \A t \in DOMAIN q : t # s => [q EXCEPT ![s] = x][t] = q[t]
OBVIOUS

\* A call takes a state that nobody has, and lends it the destination.
LEMMA EnterStep ==
    ASSUME PoolInv, NEW g \in Goroutines, NEW op \in {"marshal", "append"}, NEW v \in Values,
           Enter(g, op, v)
    PROVE  PoolInv'
<1>1. PICK s \in Gettable :
         /\ pool' = pool \ {s}
         /\ state' = [Got(s) EXCEPT ![s] =
                        State(IF op = "append" THEN dst[g] ELSE [arr |-> @.arr, len |-> @.len], TRUE)]
         /\ stack' = [stack EXCEPT ![g] =
                        <<[op |-> op, val |-> v, st |-> s, phase |-> "encoding",
                           own |-> [arr |-> Got(s)[s].arr, len |-> Got(s)[s].len]]>> \o @]
    BY DEF Enter, Taken
<1>2. UNCHANGED <<mem, dst, results>>
    BY DEF Enter
<1>3. Typed /\ Bounded /\ OneUser /\ Owned /\ Contents
    BY DEF PoolInv
<1> DEFINE own == [arr |-> Got(s)[s].arr, len |-> Got(s)[s].len]
           f == [op |-> op, val |-> v, st |-> s, phase |-> "encoding", own |-> own]
           buf == IF op = "append" THEN dst[g] ELSE own
<1>4. /\ Got(s) \in Seq(StateRec) /\ DOMAIN Got(s) = DOMAIN state \cup {s}
      /\ \A t \in DOMAIN state : Got(s)[t] = state[t]
      /\ Got(s)[s] \in StateRec /\ (s \notin DOMAIN state => Got(s)[s] = State(NilBuf, FALSE))
      /\ s \in pool \/ s \notin DOMAIN state
    BY <1>3, GotFacts
<1>5. /\ own \in Buf /\ own.len = 0 /\ FitsIn(mem, own) /\ Capacity(mem, own) <= Limit
      /\ own.arr # 0 => s \in pool /\ own.arr = state[s].arr
  <2>1. CASE s \in pool
    <3>1. s \in DOMAIN state /\ own = BufOf(s)
        BY <1>3, <1>4, <2>1 DEF Typed, BufOf
    <3> QED
        BY <1>3, <1>4, <2>1, <3>1 DEF Bounded, Contents, PoolIsClean, BufOf, Buf, StateRec
  <2>2. CASE s \notin DOMAIN state
    <3>1. own = NilBuf
        BY <1>4, <2>2 DEF State, NilBuf
    <3> QED
        BY <1>3, <3>1, PoolAssumption, DomainFacts DEF Typed, NilBuf, Buf, FitsIn, Capacity
  <2> QED
      BY <1>4, <2>1, <2>2
<1>6. /\ buf \in Buf /\ FitsIn(mem, buf) /\ State(buf, TRUE) \in StateRec
      /\ state' = [Got(s) EXCEPT ![s] = State(buf, TRUE)]
    BY <1>1, <1>3, <1>5 DEF Typed, Bounded, Buf, State, StateRec
<1> HIDE DEF own, buf
<1>7. /\ state' \in Seq(StateRec) /\ DOMAIN state' = DOMAIN state \cup {s}
      /\ state'[s] = State(buf, TRUE)
      /\ \A t \in DOMAIN state : t # s => state'[t] = state[t]
    BY <1>4, <1>6, SetFacts
<1>8. \A h \in Goroutines : \A i \in DOMAIN stack[h] :
        stack[h][i].st # s /\ stack[h][i].st \in DOMAIN state
    BY <1>3, <1>4 DEF Bounded
<1>9. f \in Call
  <2>1. DOMAIN Got(s) = 1..Len(Got(s))
      BY <1>4, DomainFacts
  <2>2. s \in Nat
      BY <1>4, <2>1
  <2> QED
      BY <1>5, <2>2 DEF Call, Phases
<1>10. stack' = [stack EXCEPT ![g] = <<f>> \o @]
    BY <1>1 DEF own
<1> HIDE DEF f
<1>11. /\ stack' \in [Goroutines -> Seq(Call)]
       /\ \A h \in Goroutines : h # g => stack'[h] = stack[h]
       /\ stack'[g][1] = f
       /\ \A i \in DOMAIN stack'[g] :
            i # 1 => i - 1 \in DOMAIN stack[g] /\ stack'[g][i] = stack[g][i - 1]
    BY <1>3, <1>9, <1>10, PushedFacts
<1>12. \A h \in Goroutines : \A i \in DOMAIN stack'[h] :
         \/ h = g /\ i = 1 /\ stack'[h][i] = f
         \/ \E k \in DOMAIN stack[h] : stack'[h][i] = stack[h][k]
    BY <1>11
<1>13. /\ f.op = op /\ f.val = v /\ f.st = s /\ f.phase = "encoding" /\ f.own = own
    BY DEF f
<1>14. Typed'
    BY <1>1, <1>2, <1>3, <1>4, <1>7, <1>11 DEF Typed, StateRec
<1>15. Bounded'
  <2>1. ASSUME NEW t \in DOMAIN state'
        PROVE  FitsIn(mem', BufOf(t)')
    <3>1. CASE t = s
      <4>1. BufOf(t)' = buf
          BY <1>6, <1>7, <3>1 DEF BufOf, State, Buf
      <4> QED
          BY <1>2, <1>6, <4>1
    <3>2. CASE t # s
      <4>1. t \in DOMAIN state /\ BufOf(t)' = BufOf(t)
          BY <1>7, <3>2 DEF BufOf
      <4> QED
          BY <1>2, <1>3, <4>1 DEF Bounded
    <3> QED
        BY <3>1, <3>2
  <2>2. ASSUME NEW h \in Goroutines, NEW i \in DOMAIN stack'[h]
        PROVE  stack'[h][i].st \in DOMAIN state' \ pool' /\ FitsIn(mem', stack'[h][i].own)
    <3>1. CASE stack'[h][i] = f
        BY <1>1, <1>2, <1>5, <1>7, <1>13, <3>1
    <3>2. CASE \E k \in DOMAIN stack[h] : stack'[h][i] = stack[h][k]
        BY <1>1, <1>2, <1>3, <1>7, <3>2 DEF Bounded
    <3> QED
        BY <1>12, <3>1, <3>2
  <2> QED
      BY <1>2, <1>3, <2>1, <2>2 DEF Bounded
<1>16. OneUser'
  <2> SUFFICES ASSUME NEW h \in Goroutines, NEW k \in Goroutines,
                      NEW i \in DOMAIN stack'[h], NEW j \in DOMAIN stack'[k],
                      stack'[h][i].st = stack'[k][j].st
               PROVE  h = k /\ i = j
      BY DEF OneUser
  <2>1. CASE h = g /\ i = 1
      BY <1>8, <1>12, <1>11, <1>13, <2>1
  <2>2. CASE k = g /\ j = 1
      BY <1>8, <1>12, <1>11, <1>13, <2>2
  <2>3. CASE ~(h = g /\ i = 1) /\ ~(k = g /\ j = 1)
    <3>1. \E x \in DOMAIN stack[h] :
            stack'[h][i] = stack[h][x] /\ (h = g => x = i - 1) /\ (h # g => x = i)
        BY <1>11, <2>3
    <3>2. \E x \in DOMAIN stack[k] :
            stack'[k][j] = stack[k][x] /\ (k = g => x = j - 1) /\ (k # g => x = j)
        BY <1>11, <2>3
    <3>3. h = k /\ (h = g => i - 1 = j - 1) /\ (h # g => i = j)
        BY <1>3, <3>1, <3>2 DEF OneUser
    <3>4. i \in Nat /\ j \in Nat
        BY <1>11, DomainFacts
    <3> QED
        BY <3>3, <3>4
  <2> QED
      BY <2>1, <2>2, <2>3
<1>17. Owned'
  <2> SUFFICES ASSUME NEW a \in 1..Len(mem)
               PROVE  OneOwner(a)'
      BY <1>2 DEF Owned
  <2>1. OneOwner(a) /\ a # 0
      BY <1>3, DomainFacts DEF Owned, Typed
  <2>2. ASSUME NEW t \in DOMAIN state', Private(t, a)'
        PROVE  t \in DOMAIN state /\ Private(t, a)
    <3>1. CASE t \in pool' /\ state'[t].arr = a
        BY <1>1, <1>3, <1>7, <3>1 DEF Private, Typed
    <3>2. CASE \E h \in Goroutines : \E i \in DOMAIN stack'[h] :
                 /\ stack'[h][i].st = t
                 /\ \/ stack'[h][i].own.arr = a
                    \/ stack'[h][i].op = "marshal" /\ state'[t].arr = a
      <4>1. PICK h \in Goroutines : \E i \in DOMAIN stack'[h] :
                 /\ stack'[h][i].st = t
                 /\ \/ stack'[h][i].own.arr = a
                    \/ stack'[h][i].op = "marshal" /\ state'[t].arr = a
          BY <3>2
      <4>5. PICK i \in DOMAIN stack'[h] :
                 /\ stack'[h][i].st = t
                 /\ \/ stack'[h][i].own.arr = a
                    \/ stack'[h][i].op = "marshal" /\ state'[t].arr = a
          BY <4>1
      <4>2. CASE stack'[h][i] = f
        <5>1. t = s /\ own.arr = a
            BY <1>7, <1>13, <4>5, <4>2 DEF buf, State
        <5> QED
            BY <1>3, <1>5, <2>1, <5>1 DEF Private, Typed
      <4>3. CASE \E k \in DOMAIN stack[h] : stack'[h][i] = stack[h][k]
          BY <1>7, <1>8, <4>5, <4>3 DEF Private
      <4> QED
          BY <1>12, <4>2, <4>3
    <3> QED
        BY <2>2, <3>1, <3>2 DEF Private
  <2>3. ASSUME Lent(a)' PROVE Lent(a)
    <3>1. CASE \E h \in Goroutines : dst'[h].arr = a
        BY <1>2, <3>1 DEF Lent
    <3>2. CASE \E h \in Goroutines : \E i \in DOMAIN stack'[h] :
                 stack'[h][i].op = "append" /\ state'[stack'[h][i].st].arr = a
      <4>1. PICK h \in Goroutines : \E i \in DOMAIN stack'[h] :
                 stack'[h][i].op = "append" /\ state'[stack'[h][i].st].arr = a
          BY <3>2
      <4>5. PICK i \in DOMAIN stack'[h] :
                 stack'[h][i].op = "append" /\ state'[stack'[h][i].st].arr = a
          BY <4>1
      <4>2. CASE stack'[h][i] = f
          BY <1>7, <1>13, <4>5, <4>2 DEF buf, State, Lent
      <4>3. CASE \E k \in DOMAIN stack[h] : stack'[h][i] = stack[h][k]
          BY <1>7, <1>8, <4>5, <4>3 DEF Lent
      <4> QED
          BY <1>12, <4>2, <4>3
    <3> QED
        BY <2>3, <3>1, <3>2 DEF Lent
  <2>4. Returned(a)' => Returned(a)
      BY <1>2 DEF Returned
  <2> QED
      BY <2>1, <2>2, <2>3, <2>4, OwnersKept
<1>18. Contents'
  <2>1. PoolIsClean'
      BY <1>1, <1>2, <1>3, <1>7 DEF Contents, PoolIsClean, BufOf, Typed
  <2>2. \A r \in results' : Holds(mem', r, r.val)
      BY <1>2, <1>3 DEF Contents
  <2>3. ASSUME NEW h \in Goroutines, NEW i \in DOMAIN stack'[h]
        PROVE  CallOK(stack[h][i])'
    <3>1. CASE stack'[h][i] = f
      <4>1. state'[s].drop = TRUE /\ (op = "marshal" => state'[s].len = 0)
          BY <1>5, <1>7 DEF buf, State
      <4> QED
          BY <1>2, <1>5, <1>13, <3>1, <4>1 DEF CallOK
    <3>2. CASE \E k \in DOMAIN stack[h] : stack'[h][i] = stack[h][k]
      <4>1. PICK k \in DOMAIN stack[h] : stack'[h][i] = stack[h][k]
          BY <3>2
      <4>2. CallOK(stack[h][k]) /\ state'[stack[h][k].st] = state[stack[h][k].st]
          BY <1>3, <1>7, <1>8 DEF Contents
      <4> QED
          BY <1>2, <4>1, <4>2 DEF CallOK, BufOf
    <3> QED
        BY <1>12, <3>1, <3>2
  <2> QED
      BY <2>1, <2>2, <2>3 DEF Contents
<1> QED
    BY <1>14, <1>15, <1>16, <1>17, <1>18 DEF PoolInv
\* The text is written to an array that its state, or its caller, owns alone.
LEMMA WriteStep ==
    ASSUME PoolInv, NEW g \in Goroutines, Write(g)
    PROVE  PoolInv'
<1>0. PICK s, v : s = Top(g).st /\ v = Top(g).val
    OBVIOUS
<1> DEFINE b == BufOf(s)
           e == Extended(mem, b, Cells(v))
<1>1. Typed /\ Bounded /\ OneUser /\ Owned /\ Contents /\ stack[g] # <<>>
    BY DEF PoolInv, Write
<1>2. /\ stack' \in [Goroutines -> Seq(Call)]
      /\ \A h \in Goroutines : DOMAIN stack'[h] = DOMAIN stack[h]
      /\ \A h \in Goroutines : \A i \in DOMAIN stack[h] :
           Same(stack'[h][i], stack[h][i]) /\ (h # g \/ i # 1 => stack'[h][i] = stack[h][i])
      /\ 1 \in DOMAIN stack[g] /\ stack[g][1] = Top(g) /\ stack'[g][1].phase = "written"
    BY <1>1, SetPhaseFacts DEF Write, Phases
<1>3. /\ Top(g) \in Call /\ CallOK(Top(g)) /\ Top(g).phase = "encoding" /\ v \in Values
      /\ s \in DOMAIN state \ pool /\ s \in DOMAIN state /\ FitsIn(mem, b)
      /\ state[s] \in StateRec /\ b.len \in Nat
  <2>1. stack[g] \in Seq(Call)
      BY <1>1 DEF Typed
  <2>2. Top(g) \in Call
      BY <1>2, <2>1
  <2>3. s \in DOMAIN state \ pool /\ s \in DOMAIN state /\ FitsIn(mem, b)
      BY <1>0, <1>1, <1>2 DEF Bounded
  <2>4. state \in Seq(StateRec)
      BY <1>1 DEF Typed, StateRec
  <2>5. state[s] \in StateRec
      BY <2>3, <2>4
  <2> QED
      BY <1>0, <1>1, <1>2, <2>2, <2>3, <2>5 DEF Contents, Call, Write, FitsIn
<1>4. /\ mem' = e.mem /\ state' = [state EXCEPT ![s] = State(e.buf, TRUE)]
      /\ UNCHANGED <<pool, dst, results>>
  <2>1. state[s].drop = TRUE
      BY <1>0, <1>3 DEF CallOK
  <2>2. Cells(v) \o <<>> = Cells(v)
      BY <1>3, CellsFacts
  <2> QED
      BY <1>0, <2>1, <2>2 DEF Write
<1>5. /\ mem \in Seq(Seq(Cell)) /\ Cells(v) \in Seq(Cell) /\ Cells(v) # <<>>
      /\ Len(Cells(v)) = Size[v] /\ Size[v] \in Nat /\ \A j \in 1..Size[v] : Cells(v)[j] = v
    BY <1>1, <1>3, CellsFacts DEF Typed
<1> DEFINE new == e.buf
<1> HIDE DEF b
<1>6. /\ Grown(mem, mem', b.arr) /\ mem' \in Seq(Seq(Cell)) /\ FitsIn(mem', new)
      /\ new.len = b.len + Size[v] /\ new \in Buf
      /\ \/ new.arr = b.arr /\ b.arr # 0 /\ Len(mem') = Len(mem)
         \/ new.arr = Len(mem) + 1 /\ Len(mem') = Len(mem) + 1
      /\ b.len = 0 => \A j \in 1..Len(Cells(v)) : mem'[new.arr][j] = Cells(v)[j]
    BY <1>3, <1>4, <1>5, ExtendedFacts
<1> HIDE DEF e
<1>7. /\ State(new, TRUE) \in StateRec
      /\ state' \in Seq(StateRec) /\ DOMAIN state' = DOMAIN state
      /\ state'[s] = State(new, TRUE)
      /\ \A t \in DOMAIN state : t # s => state'[t] = state[t]
  <2>1. State(new, TRUE) \in StateRec
      BY <1>6 DEF State, StateRec, Buf
  <2> QED
      BY <1>1, <1>3, <1>4, <2>1, SetFacts DEF Typed, StateRec
<1> HIDE DEF new
<1>8. /\ new \in Buf /\ BufOf(s)' = new /\ b.arr = state[s].arr /\ b.len = state[s].len
      /\ state'[s].arr = new.arr /\ state'[s].drop = TRUE
    BY <1>6, <1>7 DEF BufOf, State, Buf, b
<1>9. \A h \in Goroutines : \A i \in DOMAIN stack[h] :
        /\ stack[h][i].st \in DOMAIN state /\ stack[h][i].st \notin pool
        /\ stack[h][i].st = s => h = g /\ i = 1
    BY <1>0, <1>1, <1>2 DEF Bounded, OneUser
<1>10. \A c : FitsIn(mem, c) => FitsIn(mem', c) /\ Capacity(mem', c) = Capacity(mem, c)
    BY <1>5, <1>6, FitsGrown
<1>11. Typed'
    BY <1>1, <1>2, <1>4, <1>6, <1>7 DEF Typed, StateRec
<1>12. Bounded'
  <2>1. ASSUME NEW t \in DOMAIN state'
        PROVE  FitsIn(mem', BufOf(t)')
    <3>1. CASE t = s
        BY <1>6, <1>8, <3>1
    <3>2. CASE t # s
      <4>1. t \in DOMAIN state /\ BufOf(t)' = BufOf(t)
          BY <1>7, <3>2 DEF BufOf
      <4> QED
          BY <1>1, <1>10, <4>1 DEF Bounded
    <3> QED
        BY <3>1, <3>2
  <2>2. ASSUME NEW h \in Goroutines, NEW i \in DOMAIN stack'[h]
        PROVE  stack'[h][i].st \in DOMAIN state' \ pool' /\ FitsIn(mem', stack'[h][i].own)
    <3>1. i \in DOMAIN stack[h] /\ Same(stack'[h][i], stack[h][i])
        BY <1>2
    <3> QED
        BY <1>1, <1>4, <1>7, <1>10, <3>1 DEF Bounded, Same
  <2> QED
      BY <1>1, <1>4, <1>10, <2>1, <2>2 DEF Bounded
<1>13. OneUser'
    BY <1>1, <1>2 DEF OneUser, Same
<1>14. Owned'
  <2> SUFFICES ASSUME NEW a \in 1..Len(mem')
               PROVE  OneOwner(a)'
      BY DEF Owned
  <2>0. Len(mem) \in Nat /\ Len(mem') \in Nat /\ a \in Nat /\ a # 0
      BY <1>5, <1>6, DomainFacts
  <2>1. CASE a \in 1..Len(mem)
    <3>0. state'[s].arr = a => state[s].arr = a
        BY <1>6, <1>8, <2>0, <2>1
    <3>1. OneOwner(a)
        BY <1>1, <2>1 DEF Owned
    <3>2. ASSUME NEW t \in DOMAIN state', Private(t, a)'
          PROVE  t \in DOMAIN state /\ Private(t, a)
      <4>1. t \in DOMAIN state /\ (state'[t].arr = a => state[t].arr = a)
          BY <1>7, <3>0
      <4>2. CASE t \in pool' /\ state'[t].arr = a
          BY <1>4, <4>1, <4>2 DEF Private
      <4>3. CASE \E h \in Goroutines : \E i \in DOMAIN stack'[h] :
                   /\ stack'[h][i].st = t
                   /\ \/ stack'[h][i].own.arr = a
                      \/ stack'[h][i].op = "marshal" /\ state'[t].arr = a
        <5>1. PICK h \in Goroutines : \E i \in DOMAIN stack'[h] :
                   /\ stack'[h][i].st = t
                   /\ \/ stack'[h][i].own.arr = a
                      \/ stack'[h][i].op = "marshal" /\ state'[t].arr = a
            BY <4>3
        <5>2. \E i \in DOMAIN stack[h] :
                   /\ stack[h][i].st = t
                   /\ \/ stack[h][i].own.arr = a
                      \/ stack[h][i].op = "marshal" /\ state[t].arr = a
            BY <1>2, <4>1, <5>1 DEF Same
        <5> QED
            BY <4>1, <5>2 DEF Private
      <4> QED
          BY <3>2, <4>2, <4>3 DEF Private
    <3>3. ASSUME Lent(a)' PROVE Lent(a)
      <4>1. \A t \in DOMAIN state : state'[t].arr = a => state[t].arr = a
          BY <1>7, <3>0
      <4>2. CASE \E h \in Goroutines : dst'[h].arr = a
          BY <1>4, <4>2 DEF Lent
      <4>3. CASE \E h \in Goroutines : \E i \in DOMAIN stack'[h] :
                   stack'[h][i].op = "append" /\ state'[stack'[h][i].st].arr = a
        <5>1. PICK h \in Goroutines : \E i \in DOMAIN stack'[h] :
                   stack'[h][i].op = "append" /\ state'[stack'[h][i].st].arr = a
            BY <4>3
        <5>2. \E i \in DOMAIN stack[h] :
                   stack[h][i].op = "append" /\ state[stack[h][i].st].arr = a
            BY <1>2, <1>9, <4>1, <5>1 DEF Same
        <5> QED
            BY <5>2 DEF Lent
      <4> QED
          BY <3>3, <4>2, <4>3 DEF Lent
    <3>4. Returned(a)' => Returned(a)
        BY <1>4 DEF Returned
    <3> QED
        BY <3>1, <3>2, <3>3, <3>4, OwnersKept
  <2>2. CASE a \notin 1..Len(mem)
    <3>1. \A c : FitsIn(mem, c) => c.arr # a
      <4>1. a \notin 0..Len(mem)
          BY <2>0, <2>2
      <4> QED
          BY <4>1 DEF FitsIn
    <3>2. \A t \in DOMAIN state : t # s => state'[t].arr # a
      <4> TAKE t \in DOMAIN state
      <4> HAVE t # s
      <4>1. FitsIn(mem, BufOf(t)) /\ BufOf(t).arr = state[t].arr
          BY <1>1 DEF Bounded, BufOf
      <4>2. BufOf(t).arr # a
          BY <3>1, <4>1
      <4> QED
          BY <1>7, <4>1, <4>2
    <3>3. ~Returned(a)'
      <4>1. DOMAIN mem = 1..Len(mem)
          BY <1>5, DomainFacts
      <4> QED
          BY <1>1, <1>4, <2>2, <4>1 DEF Returned, Contents, Holds
    <3>4. ASSUME NEW t \in DOMAIN state', Private(t, a)'
          PROVE  t = s /\ stack[g][1].op = "marshal"
      <4>1. ~(t \in pool' /\ state'[t].arr = a)
          BY <1>3, <1>4, <1>7, <3>2
      <4>2. PICK h \in Goroutines : \E i \in DOMAIN stack'[h] :
              /\ stack'[h][i].st = t
              /\ \/ stack'[h][i].own.arr = a
                 \/ stack'[h][i].op = "marshal" /\ state'[t].arr = a
          BY <3>4, <4>1 DEF Private
      <4>3. PICK i \in DOMAIN stack[h] :
              /\ stack[h][i].st = t
              /\ \/ stack[h][i].own.arr = a
                 \/ stack[h][i].op = "marshal" /\ state'[t].arr = a
          BY <1>2, <4>2 DEF Same
      <4>4. stack[h][i].own.arr # a
          BY <1>1, <3>1 DEF Bounded
      <4> QED
          BY <1>7, <1>9, <3>2, <4>3, <4>4
    <3>5. ASSUME Lent(a)'
          PROVE  stack[g][1].op = "append"
      <4>1. \A h \in Goroutines : dst'[h].arr # a
          BY <1>1, <1>4, <3>1 DEF Bounded
      <4>2. PICK h \in Goroutines : \E i \in DOMAIN stack'[h] :
              stack'[h][i].op = "append" /\ state'[stack'[h][i].st].arr = a
          BY <3>5, <4>1 DEF Lent
      <4>3. PICK i \in DOMAIN stack[h] :
              stack[h][i].op = "append" /\ state'[stack[h][i].st].arr = a
          BY <1>2, <4>2 DEF Same
      <4> QED
          BY <1>9, <3>2, <4>3
    <3> QED
        BY <3>3, <3>4, <3>5 DEF OneOwner
  <2> QED
      BY <2>1, <2>2
<1>15. Contents'
  <2>1. PoolIsClean'
    <3> SUFFICES ASSUME NEW t \in pool'
                 PROVE  state'[t].len = 0 /\ ~state'[t].drop /\ Capacity(mem', BufOf(t)') <= Limit
        BY DEF PoolIsClean
    <3>1. t \in pool /\ t \in DOMAIN state /\ state'[t] = state[t] /\ BufOf(t)' = BufOf(t)
        BY <1>1, <1>3, <1>4, <1>7 DEF Typed, BufOf
    <3>2. Capacity(mem', BufOf(t)) = Capacity(mem, BufOf(t))
        BY <1>1, <1>10, <3>1 DEF Bounded
    <3> QED
        BY <1>1, <3>1, <3>2 DEF Contents, PoolIsClean
  <2>2. b.arr # 0 => /\ OneOwner(b.arr)
                     /\ (Top(g).op = "marshal" /\ Private(s, b.arr)) \/ Lent(b.arr)
    <3>1. b.arr # 0 => OneOwner(b.arr)
        BY <1>1, <1>3, <1>5, DomainFacts DEF Owned, FitsIn
    <3>2. Top(g).op \in {"marshal", "append"}
        BY <1>3 DEF Call
    <3> QED
        BY <1>0, <1>2, <1>3, <1>8, <3>1, <3>2 DEF Private, Lent
  <2>3. ASSUME NEW r \in results'
        PROVE  Holds(mem', r, r.val)
    <3>1. r \in results /\ Holds(mem, r, r.val) /\ r.val \in Values
        BY <1>1, <1>4 DEF Contents, Typed
    <3>2. r.arr # b.arr
      <4>1. r.arr # 0
          BY <1>5, <3>1, DomainFacts DEF Holds
      <4> QED
          BY <1>3, <2>2, <3>1, <4>1 DEF OneOwner, Returned
    <3> QED
        BY <1>5, <1>6, <3>1, <3>2, HoldsGrown
  <2>4. ASSUME NEW h \in Goroutines, NEW i \in DOMAIN stack'[h]
        PROVE  CallOK(stack[h][i])'
    <3>1. /\ i \in DOMAIN stack[h] /\ CallOK(stack[h][i]) /\ stack[h][i].val \in Values
          /\ Capacity(mem', stack[h][i].own) = Capacity(mem, stack[h][i].own)
      <4>1. i \in DOMAIN stack[h] /\ CallOK(stack[h][i]) /\ FitsIn(mem, stack[h][i].own)
          BY <1>1, <1>2 DEF Contents, Bounded
      <4>2. stack[h] \in Seq(Call)
          BY <1>1 DEF Typed
      <4>3. stack[h][i] \in Call
          BY <4>1, <4>2
      <4> QED
          BY <1>10, <4>1, <4>3 DEF Call
    <3>2. CASE h = g /\ i = 1
      <4>1. Top(g).op = "marshal" => Holds(mem', new, v)
        <5>1. Top(g).op = "marshal" => b.len = 0
            BY <1>0, <1>3, <1>8 DEF CallOK
        <5>2. new.arr \in DOMAIN mem'
            BY <1>5, <1>6, DomainFacts DEF FitsIn
        <5>3. Top(g).op = "marshal" => new.len = Size[v] /\ new.len <= Len(mem'[new.arr])
            BY <1>5, <1>6, <5>1 DEF FitsIn, Capacity
        <5> QED
            BY <1>5, <1>6, <5>1, <5>2, <5>3 DEF Holds
      <4> QED
          BY <1>0, <1>2, <1>8, <3>1, <3>2, <4>1 DEF CallOK, Same
    <3>3. CASE ~(h = g /\ i = 1)
      <4> DEFINE c == stack[h][i]
      <4>1. /\ stack'[h][i] = c /\ c.st \in DOMAIN state /\ c.st # s
            /\ state'[c.st] = state[c.st] /\ BufOf(c.st)' = BufOf(c.st)
          BY <1>2, <1>7, <1>9, <3>1, <3>3 DEF BufOf
      <4>2. ASSUME c.op = "marshal", c.phase = "written"
            PROVE  Holds(mem', BufOf(c.st), c.val)
        <5>1. Holds(mem, BufOf(c.st), c.val)
            BY <3>1, <4>2 DEF CallOK
        <5>2. BufOf(c.st).arr # b.arr
          <6>1. Private(c.st, BufOf(c.st).arr)
              BY <3>1, <4>2 DEF Private, BufOf
          <6>2. BufOf(c.st).arr # 0
              BY <1>5, <5>1, DomainFacts DEF Holds
          <6> QED
              BY <1>3, <2>2, <4>1, <6>1, <6>2 DEF OneOwner
        <5> QED
            BY <1>5, <1>6, <3>1, <5>1, <5>2, HoldsGrown
      <4> QED
          BY <3>1, <4>1, <4>2 DEF CallOK
    <3> QED
        BY <3>2, <3>3
  <2> QED
      BY <2>1, <2>3, <2>4 DEF Contents
<1> QED
    BY <1>11, <1>12, <1>13, <1>14, <1>15 DEF PoolInv
\* What is left on the stacks when a call is over.
LEMMA RestFacts ==
    ASSUME PoolInv, NEW g \in Goroutines, stack[g] # <<>>, stack' = [stack EXCEPT ![g] = Popped(g)]
    PROVE  /\ stack' \in [Goroutines -> Seq(Call)]
           /\ 1 \in DOMAIN stack[g] /\ stack[g][1] = Top(g) /\ Top(g) \in Call
           /\ \A h \in Goroutines : \A i \in DOMAIN stack'[h] : \E k \in DOMAIN stack[h] :
                /\ Same(stack'[h][i], stack[h][k]) /\ stack[h][k].st # Top(g).st
                /\ stack'[h][i].phase \in {stack[h][k].phase, "panicking"}
           /\ OneUser'
<1>1. /\ stack' \in [Goroutines -> Seq(Call)]
      /\ \A h \in Goroutines : h # g => stack'[h] = stack[h]
      /\ 1 \in DOMAIN stack[g] /\ stack[g][1] = Top(g) /\ Top(g) \in Call
      /\ \A i \in DOMAIN stack'[g] :
           /\ i \in Nat \ {0} /\ i + 1 \in DOMAIN stack[g]
           /\ Same(stack'[g][i], stack[g][i + 1])
           /\ stack'[g][i].phase \in {stack[g][i + 1].phase, "panicking"}
    BY PoppedFacts DEF PoolInv
<1>2. OneUser
    BY DEF PoolInv
<1>3. ASSUME NEW h \in Goroutines, NEW i \in DOMAIN stack'[h]
      PROVE  \E k \in DOMAIN stack[h] :
                /\ Same(stack'[h][i], stack[h][k]) /\ stack[h][k].st # Top(g).st
                /\ stack'[h][i].phase \in {stack[h][k].phase, "panicking"}
  <2>1. CASE h = g
    <3>1. i \in Nat \ {0} /\ i + 1 # 1 /\ i + 1 \in DOMAIN stack[g]
        BY <1>1, <2>1
    <3>2. stack[g][i + 1].st # stack[g][1].st
        BY <1>1, <1>2, <3>1 DEF OneUser
    <3> QED
        BY <1>1, <2>1, <3>1, <3>2
  <2>2. CASE h # g
    <3>1. stack'[h][i] = stack[h][i] /\ i \in DOMAIN stack[h]
        BY <1>1, <2>2
    <3>2. stack[h][i].st # stack[g][1].st
        BY <1>1, <1>2, <2>2, <3>1 DEF OneUser
    <3> QED
        BY <1>1, <3>1, <3>2 DEF Same
  <2> QED
      BY <2>1, <2>2
<1>4. OneUser'
  <2> SUFFICES ASSUME NEW h \in Goroutines, NEW k \in Goroutines,
                      NEW i \in DOMAIN stack'[h], NEW j \in DOMAIN stack'[k],
                      stack'[h][i].st = stack'[k][j].st
               PROVE  h = k /\ i = j
      BY DEF OneUser
  <2>1. \E x \in DOMAIN stack[h] :
          stack'[h][i].st = stack[h][x].st /\ (h = g => x = i + 1) /\ (h # g => x = i)
      BY <1>1 DEF Same
  <2>2. \E x \in DOMAIN stack[k] :
          stack'[k][j].st = stack[k][x].st /\ (k = g => x = j + 1) /\ (k # g => x = j)
      BY <1>1 DEF Same
  <2>3. h = k /\ (h = g => i + 1 = j + 1) /\ (h # g => i = j)
      BY <1>2, <2>1, <2>2 DEF OneUser
  <2>4. i \in Nat /\ j \in Nat
      BY <1>1, DomainFacts
  <2> QED
      BY <2>3, <2>4
<1> QED
    BY <1>1, <1>3, <1>4

\* A call is over and has put its state back, with a buffer nb that was its own.
LEMMA ReleaseStep ==
    ASSUME PoolInv, NEW g \in Goroutines, stack[g] # <<>>,
           stack' = [stack EXCEPT ![g] = Popped(g)],
           NEW s, s = Top(g).st, NEW nb \in Buf, nb.len = 0, FitsIn(mem, nb),
           Capacity(mem, nb) <= Limit, nb.arr # 0 => Private(s, nb.arr),
           state' = [state EXCEPT ![s] = State(nb, FALSE)], pool' = pool \cup {s},
           Grown(mem, mem', 0), dst' \in [Goroutines -> Buf],
           results' \subseteq [arr : Nat, len : Nat, val : Values],
           \A r \in results' : \/ r \in results
                               \/ r.arr = Len(mem) + 1 /\ Holds(mem', r, r.val),
           \A h \in Goroutines : /\ FitsIn(mem, dst'[h])
                                 /\ dst'[h].arr # 0 => Lent(dst'[h].arr)
    PROVE  PoolInv'
<1>1. Typed /\ Bounded /\ OneUser /\ Owned /\ Contents /\ mem \in Seq(Seq(Cell))
    BY DEF PoolInv, Typed
<1>2. /\ stack' \in [Goroutines -> Seq(Call)]
      /\ 1 \in DOMAIN stack[g] /\ stack[g][1] = Top(g) /\ Top(g) \in Call
      /\ \A h \in Goroutines : \A i \in DOMAIN stack'[h] : \E k \in DOMAIN stack[h] :
           /\ Same(stack'[h][i], stack[h][k]) /\ stack[h][k].st # s
           /\ stack'[h][i].phase \in {stack[h][k].phase, "panicking"}
      /\ OneUser'
    BY RestFacts
<1>3. s \in DOMAIN state /\ s \notin pool
    BY <1>1, <1>2 DEF Bounded
<1>4. /\ state' \in Seq(StateRec) /\ DOMAIN state' = DOMAIN state
      /\ state'[s] = State(nb, FALSE)
      /\ \A t \in DOMAIN state : t # s => state'[t] = state[t]
  <2>1. State(nb, FALSE) \in StateRec /\ state \in Seq(StateRec)
      BY <1>1 DEF State, StateRec, Buf, Typed
  <2> QED
      BY <1>3, <2>1, SetFacts
<1>5. BufOf(s)' = nb /\ state'[s].arr = nb.arr /\ state'[s].len = 0 /\ state'[s].drop = FALSE
    BY <1>4 DEF BufOf, State, Buf
<1>6. \A c : FitsIn(mem, c) => FitsIn(mem', c) /\ Capacity(mem', c) = Capacity(mem, c)
    BY <1>1, FitsGrown
<1>7. Typed'
    BY <1>1, <1>2, <1>3, <1>4 DEF Typed, StateRec, Grown
<1>8. \A h \in Goroutines : \A k \in DOMAIN stack[h] :
        /\ stack[h][k].st \in DOMAIN state /\ stack[h][k].st \notin pool
        /\ FitsIn(mem, stack[h][k].own)
    BY <1>1 DEF Bounded
<1>9. Bounded'
  <2>1. ASSUME NEW t \in DOMAIN state'
        PROVE  FitsIn(mem', BufOf(t)')
    <3>1. CASE t = s
        BY <1>5, <1>6, <3>1
    <3>2. CASE t # s
      <4>1. t \in DOMAIN state /\ BufOf(t)' = BufOf(t)
          BY <1>4, <3>2 DEF BufOf
      <4> QED
          BY <1>1, <1>6, <4>1 DEF Bounded
    <3> QED
        BY <3>1, <3>2
  <2>2. ASSUME NEW h \in Goroutines, NEW i \in DOMAIN stack'[h]
        PROVE  stack'[h][i].st \in DOMAIN state' \ pool' /\ FitsIn(mem', stack'[h][i].own)
    <3>1. PICK k \in DOMAIN stack[h] : Same(stack'[h][i], stack[h][k]) /\ stack[h][k].st # s
        BY <1>2
    <3> QED
        BY <1>4, <1>6, <1>8, <3>1 DEF Same
  <2> QED
      BY <1>6, <2>1, <2>2 DEF Bounded
<1>10. Owned'
  <2> SUFFICES ASSUME NEW a \in 1..Len(mem')
               PROVE  OneOwner(a)'
      BY DEF Owned
  <2>0. Len(mem) \in Nat /\ Len(mem') \in Nat /\ a \in Nat /\ a # 0
      BY <1>1, <1>7, DomainFacts DEF Typed
  <2>1. CASE a \in 1..Len(mem)
    <3>1. OneOwner(a)
        BY <1>1, <2>1 DEF Owned
    <3>2. ASSUME NEW t \in DOMAIN state', Private(t, a)'
          PROVE  t \in DOMAIN state /\ Private(t, a)
      <4>1. CASE t \in pool' /\ state'[t].arr = a
        <5>1. CASE t = s
            BY <1>3, <1>5, <2>0, <4>1, <5>1
        <5>2. CASE t # s
            BY <1>4, <4>1, <5>2 DEF Private
        <5> QED
            BY <5>1, <5>2
      <4>2. CASE \E h \in Goroutines : \E i \in DOMAIN stack'[h] :
                   /\ stack'[h][i].st = t
                   /\ \/ stack'[h][i].own.arr = a
                      \/ stack'[h][i].op = "marshal" /\ state'[t].arr = a
        <5>1. PICK h \in Goroutines : \E i \in DOMAIN stack'[h] :
                   /\ stack'[h][i].st = t
                   /\ \/ stack'[h][i].own.arr = a
                      \/ stack'[h][i].op = "marshal" /\ state'[t].arr = a
            BY <4>2
        <5>2. PICK i \in DOMAIN stack'[h] :
                   /\ stack'[h][i].st = t
                   /\ \/ stack'[h][i].own.arr = a
                      \/ stack'[h][i].op = "marshal" /\ state'[t].arr = a
            BY <5>1
        <5>3. PICK k \in DOMAIN stack[h] : Same(stack'[h][i], stack[h][k]) /\ stack[h][k].st # s
            BY <1>2
        <5> QED
            BY <1>4, <5>2, <5>3 DEF Private, Same
      <4> QED
          BY <3>2, <4>1, <4>2 DEF Private
    <3>3. ASSUME Lent(a)' PROVE Lent(a)
      <4>1. CASE \E h \in Goroutines : dst'[h].arr = a
          BY <2>0, <4>1
      <4>2. CASE \E h \in Goroutines : \E i \in DOMAIN stack'[h] :
                   stack'[h][i].op = "append" /\ state'[stack'[h][i].st].arr = a
        <5>1. PICK h \in Goroutines : \E i \in DOMAIN stack'[h] :
                   stack'[h][i].op = "append" /\ state'[stack'[h][i].st].arr = a
            BY <4>2
        <5>2. PICK i \in DOMAIN stack'[h] :
                   stack'[h][i].op = "append" /\ state'[stack'[h][i].st].arr = a
            BY <5>1
        <5>3. PICK k \in DOMAIN stack[h] : Same(stack'[h][i], stack[h][k]) /\ stack[h][k].st # s
            BY <1>2
        <5>4. /\ stack[h][k].op = "append" /\ stack[h][k].st \in DOMAIN state
              /\ state'[stack[h][k].st] = state[stack[h][k].st]
              /\ state'[stack[h][k].st].arr = a
            BY <1>4, <1>8, <5>2, <5>3 DEF Same
        <5> QED
            BY <5>4 DEF Lent
      <4> QED
          BY <3>3, <4>1, <4>2 DEF Lent
    <3>4. Returned(a)' => Returned(a)
        BY <2>0, <2>1 DEF Returned
    <3> QED
        BY <3>1, <3>2, <3>3, <3>4, OwnersKept
  <2>2. CASE a \notin 1..Len(mem)
    <3>1. \A c : FitsIn(mem, c) => c.arr # a
      <4>1. a \notin 0..Len(mem)
          BY <2>0, <2>2
      <4> QED
          BY <4>1 DEF FitsIn
    <3>2. \A t \in DOMAIN state : state'[t].arr # a
      <4> TAKE t \in DOMAIN state
      <4>1. FitsIn(mem, BufOf(t)) /\ BufOf(t).arr = state[t].arr
          BY <1>1 DEF Bounded, BufOf
      <4>2. BufOf(t).arr # a /\ nb.arr # a
          BY <3>1, <4>1
      <4> QED
          BY <1>4, <1>5, <4>1, <4>2
    <3>3. \A h \in Goroutines : \A i \in DOMAIN stack'[h] :
            stack'[h][i].own.arr # a /\ stack'[h][i].st \in DOMAIN state
      <4> TAKE h \in Goroutines
      <4> TAKE i \in DOMAIN stack'[h]
      <4>1. PICK k \in DOMAIN stack[h] : Same(stack'[h][i], stack[h][k])
          BY <1>2
      <4> QED
          BY <1>8, <3>1, <4>1 DEF Same
    <3>4. \A t \in DOMAIN state' : ~Private(t, a)'
        BY <1>4, <3>2, <3>3 DEF Private
    <3>5. ~Lent(a)'
        BY <3>1, <3>2, <3>3 DEF Lent
    <3> QED
        BY <3>4, <3>5 DEF OneOwner
  <2> QED
      BY <2>1, <2>2
<1>11. Contents'
  <2>1. PoolIsClean'
    <3> SUFFICES ASSUME NEW t \in pool'
                 PROVE  state'[t].len = 0 /\ ~state'[t].drop /\ Capacity(mem', BufOf(t)') <= Limit
        BY DEF PoolIsClean
    <3>1. CASE t = s
      <4>1. Capacity(mem', nb) = Capacity(mem, nb)
          BY <1>6
      <4> QED
          BY <1>5, <3>1, <4>1
    <3>2. CASE t # s
      <4>1. t \in pool /\ t \in DOMAIN state /\ state'[t] = state[t] /\ BufOf(t)' = BufOf(t)
          BY <1>1, <1>4, <3>2 DEF Typed, BufOf
      <4>2. Capacity(mem', BufOf(t)) = Capacity(mem, BufOf(t))
          BY <1>1, <1>6, <4>1 DEF Bounded
      <4> QED
          BY <1>1, <4>1, <4>2 DEF Contents, PoolIsClean
    <3> QED
        BY <3>1, <3>2
  <2>2. \A c : \A v \in Values : Holds(mem, c, v) => Holds(mem', c, v)
    <3> SUFFICES ASSUME NEW c, NEW v \in Values, Holds(mem, c, v)
                 PROVE  Holds(mem', c, v)
        OBVIOUS
    <3>1. c.arr # 0
        BY <1>1, DomainFacts DEF Holds
    <3> QED
        BY <1>1, <3>1, HoldsGrown
  <2>3. ASSUME NEW r \in results'
        PROVE  Holds(mem', r, r.val)
    <3>1. CASE r \in results
        BY <1>1, <2>2, <3>1 DEF Contents, Typed
    <3> QED
        BY <3>1
  <2>4. ASSUME NEW h \in Goroutines, NEW i \in DOMAIN stack'[h]
        PROVE  CallOK(stack[h][i])'
    <3>1. PICK k \in DOMAIN stack[h] :
            /\ Same(stack'[h][i], stack[h][k]) /\ stack[h][k].st # s
            /\ stack'[h][i].phase \in {stack[h][k].phase, "panicking"}
        BY <1>2
    <3>2. PICK c \in Call : c = stack[h][k]
      <4>1. stack[h] \in Seq(Call)
          BY <1>1 DEF Typed
      <4>2. stack[h][k] \in Call
          BY <4>1
      <4> QED
          BY <4>2
    <3>3. /\ CallOK(c) /\ c.st \in DOMAIN state /\ Capacity(mem', c.own) = Capacity(mem, c.own)
          /\ c.st # s /\ state'[c.st] = state[c.st] /\ BufOf(c.st)' = BufOf(c.st)
        BY <1>1, <1>4, <1>6, <1>8, <3>1, <3>2 DEF Contents, BufOf
    <3>4. c.op = "marshal" /\ c.phase = "written" => Holds(mem', BufOf(c.st), c.val)
        BY <2>2, <3>3 DEF CallOK, Call
    <3> QED
        BY <3>1, <3>2, <3>3, <3>4 DEF CallOK, Same
  <2> QED
      BY <2>1, <2>3, <2>4 DEF Contents
<1> QED
    BY <1>2, <1>7, <1>9, <1>10, <1>11 DEF PoolInv
\* Marshal returns a new array, and its state keeps the old one.
LEMMA MarshalReturnStep ==
    ASSUME PoolInv, NEW g \in Goroutines, MarshalReturn(g)
    PROVE  PoolInv'
<1>1. PICK s, b : s = Top(g).st /\ b = BufOf(s)
    OBVIOUS
<1> DEFINE c == Clone(mem, b)
           nb == Reset(s)
<1>2. /\ stack[g] # <<>> /\ Top(g).op = "marshal" /\ Top(g).phase # "encoding"
      /\ state' = [state EXCEPT ![s] = State(nb, FALSE)] /\ pool' = pool \cup {s}
      /\ stack' = [stack EXCEPT ![g] = Popped(g)] /\ dst' = dst
      /\ \/ /\ Top(g).phase = "written" /\ mem' = c.mem
            /\ results' = results \cup {[arr |-> c.buf.arr, len |-> c.buf.len, val |-> Top(g).val]}
         \/ mem' = mem /\ results' = results
    BY <1>1 DEF MarshalReturn
<1>3. /\ Typed /\ Bounded /\ Contents /\ mem \in Seq(Seq(Cell))
      /\ dst \in [Goroutines -> Buf] /\ results \subseteq [arr : Nat, len : Nat, val : Values]
    BY DEF PoolInv, Typed
<1>4. 1 \in DOMAIN stack[g] /\ stack[g][1] = Top(g) /\ Top(g) \in Call
    BY <1>2, RestFacts
<1>5. s \in DOMAIN state /\ FitsIn(mem, b) /\ CallOK(Top(g)) /\ b.arr \in Nat
  <2>1. s \in DOMAIN state /\ FitsIn(mem, b) /\ CallOK(Top(g))
      BY <1>1, <1>3, <1>4 DEF Bounded, Contents
  <2>2. Len(mem) \in Nat
      BY <1>3
  <2> QED
      BY <2>1, <2>2 DEF FitsIn
<1>6. /\ nb \in Buf /\ nb.len = 0 /\ FitsIn(mem, nb) /\ Capacity(mem, nb) <= Limit
      /\ nb.arr # 0 => Private(s, nb.arr)
  <2>1. CASE Capacity(mem, b) > Limit
    <3>1. nb = NilBuf
        BY <1>1, <2>1 DEF Reset
    <3> QED
        BY <1>3, <3>1, PoolAssumption, DomainFacts DEF NilBuf, Buf, FitsIn, Capacity
  <2>2. CASE ~(Capacity(mem, b) > Limit)
    <3>1. nb = [arr |-> b.arr, len |-> 0] /\ b.arr = state[s].arr
        BY <1>1, <2>2 DEF Reset, BufOf
    <3>2. Capacity(mem, nb) = Capacity(mem, b) /\ Capacity(mem, b) \in Nat
        BY <1>3, <1>5, <3>1 DEF Capacity, FitsIn
    <3>3. Private(s, nb.arr)
        BY <1>1, <1>2, <1>4, <3>1 DEF Private
    <3> QED
        BY <1>5, <2>2, <3>1, <3>2, <3>3, PoolAssumption DEF Buf, FitsIn
  <2> QED
      BY <2>1, <2>2
<1> HIDE DEF nb
<1>7. /\ Read(mem, b) \in Seq(Cell) /\ Len(Read(mem, b)) = b.len
      /\ \A j \in 1..b.len : Read(mem, b)[j] = mem[b.arr][j]
    BY <1>3, <1>5, ReadFacts
<1>8. /\ Grown(mem, mem', 0) /\ results' \subseteq [arr : Nat, len : Nat, val : Values]
      /\ \A r \in results' : r \in results \/ (r.arr = Len(mem) + 1 /\ Holds(mem', r, r.val))
  <2>1. CASE mem' = mem /\ results' = results
      BY <1>3, <2>1 DEF Grown
  <2>2. CASE /\ Top(g).phase = "written" /\ mem' = c.mem
             /\ results' = results \cup {[arr |-> c.buf.arr, len |-> c.buf.len, val |-> Top(g).val]}
    <3> DEFINE r == [arr |-> Len(mem) + 1, len |-> b.len, val |-> Top(g).val]
    <3>1. mem' = Append(mem, Read(mem, b)) /\ results' = results \cup {r}
        BY <2>2 DEF Clone
    <3>2. /\ Grown(mem, mem', 0) /\ mem' \in Seq(Seq(Cell)) /\ mem'[Len(mem) + 1] = Read(mem, b)
          /\ Len(mem') = Len(mem) + 1
        BY <1>3, <1>7, <3>1, AppendGrown, AppendFacts
    <3>3. Holds(mem, b, Top(g).val) /\ Top(g).val \in Values
        BY <1>1, <1>2, <1>4, <1>5, <2>2 DEF CallOK, Call
    <3>4. Len(mem) \in Nat /\ b.len \in Nat /\ DOMAIN mem' = 1..Len(mem')
        BY <1>3, <1>5, <3>2, DomainFacts DEF FitsIn
    <3>5. r \in [arr : Nat, len : Nat, val : Values]
        BY <3>3, <3>4
    <3>6. Holds(mem', r, r.val)
      <4>1. Len(mem) + 1 \in DOMAIN mem'
          BY <3>2, <3>4
      <4>2. b.len = Size[Top(g).val] /\ \A j \in 1..b.len : mem[b.arr][j] = Top(g).val
          BY <3>3 DEF Holds
      <4> QED
          BY <1>7, <3>2, <3>4, <4>1, <4>2 DEF Holds
    <3> QED
        BY <1>3, <3>1, <3>2, <3>5, <3>6
  <2> QED
      BY <1>2, <2>1, <2>2
<1>9. dst' \in [Goroutines -> Buf] /\ \A h \in Goroutines :
        FitsIn(mem, dst'[h]) /\ (dst'[h].arr # 0 => Lent(dst'[h].arr))
    BY <1>2, <1>3 DEF Bounded, Lent
<1> HIDE DEF c
<1> QED
    BY <1>1, <1>2, <1>6, <1>8, <1>9, ReleaseStep

\* A panic takes the calls of Append with it, and leaves their states to the
\* garbage collector.
LEMMA PanicStep ==
    ASSUME PoolInv, NEW g \in Goroutines, stack[g] # <<>>,
           stack' = [stack EXCEPT ![g] = Popped(g)], UNCHANGED <<mem, state, pool, dst, results>>
    PROVE  PoolInv'
<1>1. Typed /\ Bounded /\ OneUser /\ Owned /\ Contents
    BY DEF PoolInv
<1>2. /\ stack' \in [Goroutines -> Seq(Call)]
      /\ \A h \in Goroutines : \A i \in DOMAIN stack'[h] : \E k \in DOMAIN stack[h] :
           /\ Same(stack'[h][i], stack[h][k])
           /\ stack'[h][i].phase \in {stack[h][k].phase, "panicking"}
      /\ OneUser'
    BY RestFacts
<1>3. Typed'
    BY <1>1, <1>2 DEF Typed
<1>4. Bounded'
  <2>1. ASSUME NEW h \in Goroutines, NEW i \in DOMAIN stack'[h]
        PROVE  stack'[h][i].st \in DOMAIN state' \ pool' /\ FitsIn(mem', stack'[h][i].own)
    <3>1. PICK k \in DOMAIN stack[h] : Same(stack'[h][i], stack[h][k])
        BY <1>2
    <3> QED
        BY <1>1, <3>1 DEF Bounded, Same
  <2> QED
      BY <1>1, <2>1 DEF Bounded, BufOf
<1>5. Owned'
  <2> SUFFICES ASSUME NEW a \in 1..Len(mem)
               PROVE  OneOwner(a)'
      BY DEF Owned
  <2>1. OneOwner(a)
      BY <1>1 DEF Owned
  <2>2. ASSUME NEW t \in DOMAIN state', Private(t, a)'
        PROVE  t \in DOMAIN state /\ Private(t, a)
    <3>1. CASE t \in pool' /\ state'[t].arr = a
        BY <3>1 DEF Private
    <3>2. CASE \E h \in Goroutines : \E i \in DOMAIN stack'[h] :
                 /\ stack'[h][i].st = t
                 /\ \/ stack'[h][i].own.arr = a
                    \/ stack'[h][i].op = "marshal" /\ state'[t].arr = a
      <4>1. PICK h \in Goroutines : \E i \in DOMAIN stack'[h] :
                 /\ stack'[h][i].st = t
                 /\ \/ stack'[h][i].own.arr = a
                    \/ stack'[h][i].op = "marshal" /\ state'[t].arr = a
          BY <3>2
      <4>2. PICK i \in DOMAIN stack'[h] :
                 /\ stack'[h][i].st = t
                 /\ \/ stack'[h][i].own.arr = a
                    \/ stack'[h][i].op = "marshal" /\ state'[t].arr = a
          BY <4>1
      <4>3. PICK k \in DOMAIN stack[h] : Same(stack'[h][i], stack[h][k])
          BY <1>2
      <4> QED
          BY <4>2, <4>3 DEF Private, Same
    <3> QED
        BY <2>2, <3>1, <3>2 DEF Private
  <2>3. ASSUME Lent(a)' PROVE Lent(a)
    <3>1. CASE \E h \in Goroutines : dst'[h].arr = a
        BY <3>1 DEF Lent
    <3>2. CASE \E h \in Goroutines : \E i \in DOMAIN stack'[h] :
                 stack'[h][i].op = "append" /\ state'[stack'[h][i].st].arr = a
      <4>1. PICK h \in Goroutines : \E i \in DOMAIN stack'[h] :
                 stack'[h][i].op = "append" /\ state'[stack'[h][i].st].arr = a
          BY <3>2
      <4>2. PICK i \in DOMAIN stack'[h] :
                 stack'[h][i].op = "append" /\ state'[stack'[h][i].st].arr = a
          BY <4>1
      <4>3. PICK k \in DOMAIN stack[h] : Same(stack'[h][i], stack[h][k])
          BY <1>2
      <4> QED
          BY <4>2, <4>3 DEF Lent, Same
    <3> QED
        BY <2>3, <3>1, <3>2 DEF Lent
  <2>4. Returned(a)' => Returned(a)
      BY DEF Returned
  <2> QED
      BY <2>1, <2>2, <2>3, <2>4, OwnersKept
<1>6. Contents'
  <2>1. PoolIsClean' /\ \A r \in results' : Holds(mem', r, r.val)
      BY <1>1 DEF Contents, PoolIsClean, BufOf
  <2>2. ASSUME NEW h \in Goroutines, NEW i \in DOMAIN stack'[h]
        PROVE  CallOK(stack[h][i])'
    <3>1. PICK k \in DOMAIN stack[h] :
            /\ Same(stack'[h][i], stack[h][k])
            /\ stack'[h][i].phase \in {stack[h][k].phase, "panicking"}
        BY <1>2
    <3>2. CallOK(stack[h][k])
        BY <1>1 DEF Contents
    <3> QED
        BY <3>1, <3>2 DEF CallOK, Same, BufOf
  <2> QED
      BY <2>1, <2>2 DEF Contents
<1> QED
    BY <1>2, <1>3, <1>4, <1>5, <1>6 DEF PoolInv

\* Append takes the caller's array out of its state before it puts it back.
LEMMA AppendReturnStep ==
    ASSUME PoolInv, NEW g \in Goroutines, AppendReturn(g)
    PROVE  PoolInv'
<1>1. PICK s, nb : s = Top(g).st /\ nb = Top(g).own
    OBVIOUS
<1>2. /\ stack[g] # <<>> /\ Top(g).op = "append" /\ UNCHANGED <<mem, results>>
      /\ stack' = [stack EXCEPT ![g] = Popped(g)]
      /\ dst' = dst \/ (Top(g).phase = "written" /\ dst' = [dst EXCEPT ![g] = BufOf(s)])
    BY <1>1 DEF AppendReturn
<1>3. /\ Typed /\ Bounded /\ Contents /\ mem \in Seq(Seq(Cell)) /\ state \in Seq(StateRec)
      /\ dst \in [Goroutines -> Buf] /\ results \subseteq [arr : Nat, len : Nat, val : Values]
    BY DEF PoolInv, Typed, StateRec
<1>4. 1 \in DOMAIN stack[g] /\ stack[g][1] = Top(g) /\ Top(g) \in Call
    BY <1>2, RestFacts
<1>5. CASE Top(g).phase = "panicking"
    BY <1>2, <1>5, PanicStep DEF AppendReturn
<1>6. CASE Top(g).phase # "panicking"
  <2>1. state' = [state EXCEPT ![s] = State(nb, FALSE)] /\ pool' = pool \cup {s}
      BY <1>1, <1>6 DEF AppendReturn, TakeBack
  <2>2. s \in DOMAIN state /\ FitsIn(mem, BufOf(s)) /\ FitsIn(mem, nb) /\ CallOK(Top(g))
      BY <1>1, <1>3, <1>4 DEF Bounded, Contents
  <2>3. nb \in Buf /\ nb.len = 0 /\ Capacity(mem, nb) <= Limit /\ Private(s, nb.arr)
      BY <1>1, <1>4, <2>2 DEF CallOK, Call, Private
  <2>4. BufOf(s) \in Buf /\ Lent(BufOf(s).arr)
    <3>1. state[s] \in StateRec
        BY <1>3, <2>2
    <3> QED
        BY <1>1, <1>2, <1>4, <3>1 DEF BufOf, Buf, StateRec, Lent
  <2>5. dst' \in [Goroutines -> Buf] /\ \A h \in Goroutines :
          FitsIn(mem, dst'[h]) /\ (dst'[h].arr # 0 => Lent(dst'[h].arr))
    <3>1. CASE dst' = dst
        BY <1>3, <3>1 DEF Bounded, Lent
    <3>2. CASE dst' = [dst EXCEPT ![g] = BufOf(s)]
        BY <1>3, <2>2, <2>4, <3>2 DEF Bounded, Lent
    <3> QED
        BY <1>2, <3>1, <3>2
  <2>6. Grown(mem, mem', 0)
      BY <1>2, <1>3 DEF Grown
  <2> QED
      BY <1>1, <1>2, <1>3, <2>1, <2>2, <2>3, <2>5, <2>6, ReleaseStep
<1> QED
    BY <1>5, <1>6

\* A pooled state is forgotten.
LEMMA CollectStep ==
    ASSUME PoolInv, NEW s \in pool, Collect(s)
    PROVE  PoolInv'
<1>1. pool' = pool \ {s} /\ UNCHANGED <<mem, state, stack, dst, results>>
    BY DEF Collect
<1>2. Typed' /\ Bounded' /\ OneUser'
    BY <1>1 DEF PoolInv, Typed, Bounded, OneUser, BufOf
<1>3. Owned'
  <2> SUFFICES ASSUME NEW a \in 1..Len(mem)
               PROVE  OneOwner(a)'
      BY <1>1 DEF Owned
  <2>1. OneOwner(a)
      BY DEF PoolInv, Owned
  <2>2. ASSUME NEW t \in DOMAIN state', Private(t, a)'
        PROVE  t \in DOMAIN state /\ Private(t, a)
      BY <1>1, <2>2 DEF Private
  <2>3. (Lent(a)' => Lent(a)) /\ (Returned(a)' => Returned(a))
      BY <1>1 DEF Lent, Returned
  <2> QED
      BY <2>1, <2>2, <2>3, OwnersKept
<1>4. Contents'
  <2>1. PoolIsClean' /\ \A r \in results' : Holds(mem', r, r.val)
      BY <1>1 DEF PoolInv, Contents, PoolIsClean, BufOf
  <2>2. ASSUME NEW h \in Goroutines, NEW i \in DOMAIN stack'[h]
        PROVE  CallOK(stack[h][i])'
      BY <1>1 DEF PoolInv, Contents, CallOK, BufOf
  <2> QED
      BY <2>1, <2>2 DEF Contents
<1> QED
    BY <1>2, <1>3, <1>4 DEF PoolInv

\* The invariant holds at the beginning,
LEMMA InitPool ==
    ASSUME Init
    PROVE  PoolInv
<1>1. /\ mem = <<>> /\ state = <<>> /\ pool = {} /\ results = {}
      /\ stack = [g \in Goroutines |-> <<>>] /\ dst = [g \in Goroutines |-> NilBuf]
    BY DEF Init
<1>2. Typed
    BY <1>1 DEF Typed, NilBuf, Buf
<1>3. Bounded /\ OneUser /\ Owned /\ Contents
    BY <1>1 DEF Bounded, OneUser, Owned, Contents, PoolIsClean, FitsIn, Capacity, NilBuf
<1> QED
    BY <1>2, <1>3 DEF PoolInv

\* and every step keeps it.
LEMMA PoolStep ==
    ASSUME PoolInv, [Next]_vars
    PROVE  PoolInv'
<1>1. CASE UNCHANGED vars
  <2>1. UNCHANGED <<mem, state, pool, stack, dst, results>>
      BY <1>1 DEF vars
  <2>2. Typed' /\ Bounded' /\ OneUser'
      BY <2>1 DEF PoolInv, Typed, Bounded, OneUser, BufOf
  <2>3. ASSUME NEW a \in 1..Len(mem)
        PROVE  OneOwner(a)'
    <3>1. ASSUME NEW t \in DOMAIN state', Private(t, a)'
          PROVE  t \in DOMAIN state /\ Private(t, a)
        BY <2>1, <3>1 DEF Private
    <3>2. (Lent(a)' => Lent(a)) /\ (Returned(a)' => Returned(a))
        BY <2>1 DEF Lent, Returned
    <3>3. OneOwner(a)
        BY DEF PoolInv, Owned
    <3> QED
        BY <3>1, <3>2, <3>3, OwnersKept
  <2>4. PoolIsClean' /\ \A r \in results' : Holds(mem', r, r.val)
      BY <2>1 DEF PoolInv, Contents, PoolIsClean, BufOf
  <2>5. ASSUME NEW h \in Goroutines, NEW i \in DOMAIN stack'[h]
        PROVE  CallOK(stack[h][i])'
      BY <2>1 DEF PoolInv, Contents, CallOK, BufOf
  <2>6. Owned' /\ Contents'
      BY <2>1, <2>3, <2>4, <2>5 DEF Owned, Contents
  <2> QED
      BY <2>2, <2>6 DEF PoolInv
<1>2. ASSUME NEW g \in Goroutines, EncodeError(g) \/ Panic(g)
      PROVE  PoolInv'
    BY <1>2, PhaseStep DEF EncodeError, Panic
<1>3. ASSUME NEW g \in Goroutines,
             \/ \E op \in {"marshal", "append"}, v \in Values : Enter(g, op, v)
             \/ Write(g) \/ MarshalReturn(g) \/ AppendReturn(g)
      PROVE  PoolInv'
    BY <1>3, EnterStep, WriteStep, MarshalReturnStep, AppendReturnStep
<1>4. ASSUME NEW s \in pool, Collect(s)
      PROVE  PoolInv'
    BY <1>4, CollectStep
<1> QED
    BY <1>1, <1>2, <1>3, <1>4 DEF Next
-----------------------------------------------------------------------------
(* The text of a sequence of values.                                        *)

\* A set of natural numbers that is not empty has a least element.
LEMMA LeastNat ==
    ASSUME NEW T, T \subseteq Nat, T # {}
    PROVE  \E m \in T : \A k \in T : m <= k
<1> DEFINE R == OpToRel(<, Nat)
<1>1. IsWellFoundedOn(R, Nat)
    BY NatLessThanWellFounded
<1>2. \A x, y \in Nat : x < y => <<x, y>> \in R
    BY DEF OpToRel
<1> HIDE DEF R
<1>3. PICK x \in T : \A y \in T : ~(<<y, x>> \in R)
    BY <1>1, WFMin
<1>4. ASSUME NEW y \in T PROVE x <= y
  <2>1. x \in Nat /\ y \in Nat
      OBVIOUS
  <2>2. ~(y < x)
      BY <2>1, <1>2, <1>3
  <2> QED
      BY <2>1, <2>2
<1> QED
    BY <1>4

\* f gives the texts of the first n values, for each n up to k.
Texts(vs, k, f) ==
    f = [n \in 0..k |-> IF n = 0 THEN <<>> ELSE f[n - 1] \o Cells(vs[n])]

\* There are such texts: the first k for which there were none could be had from
\* those for k - 1.
LEMMA TextsExist ==
    ASSUME NEW vs, NEW k \in Nat
    PROVE  \E f : Texts(vs, k, f)
<1> DEFINE T == {n \in Nat : ~ \E f : Texts(vs, n, f)}
<1>1. SUFFICES T = {}
    OBVIOUS
<1>2. SUFFICES ASSUME T # {} PROVE FALSE
    OBVIOUS
<1>3. PICK m \in T : \A n \in T : m <= n
  <2>1. T \subseteq Nat
      OBVIOUS
  <2> HIDE DEF T
  <2> QED
      BY <1>2, <2>1, LeastNat
<1>4. m \in Nat /\ ~ \E f : Texts(vs, m, f)
    OBVIOUS
<1>5. CASE m = 0
  <2> DEFINE g == [n \in 0..0 |-> <<>>]
  <2>1. Texts(vs, 0, g)
      BY DEF Texts
  <2> QED
      BY <1>4, <1>5, <2>1
<1>6. CASE m # 0
  <2>1. m - 1 \in Nat /\ ~(m <= m - 1)
      BY <1>4, <1>6
  <2>2. m - 1 \notin T
    <3> HIDE DEF T
    <3> QED
        BY <1>3, <2>1
  <2>3. PICK f : Texts(vs, m - 1, f)
      BY <2>1, <2>2
  <2> DEFINE g == [n \in 0..m |-> IF n = 0 THEN <<>> ELSE f[n - 1] \o Cells(vs[n])]
  <2>4. ASSUME NEW n \in 1..m PROVE g[n - 1] = f[n - 1]
    <3>1. n - 1 \in 0..m /\ n - 1 \in 0..(m - 1)
        BY <1>4
    <3>2. g[n - 1] = IF n - 1 = 0 THEN <<>> ELSE f[(n - 1) - 1] \o Cells(vs[n - 1])
        BY <3>1
    <3>3. f[n - 1] = IF n - 1 = 0 THEN <<>> ELSE f[(n - 1) - 1] \o Cells(vs[n - 1])
        BY <2>3, <3>1 DEF Texts
    <3> QED
        BY <3>2, <3>3
  <2>5. g = [n \in 0..m |-> IF n = 0 THEN <<>> ELSE g[n - 1] \o Cells(vs[n])]
    <3> DEFINE e(h, n) == IF n = 0 THEN <<>> ELSE h[n - 1] \o Cells(vs[n])
    <3>1. \A n \in 0..m : e(f, n) = e(g, n)
      <4> SUFFICES ASSUME NEW n \in 0..m PROVE e(f, n) = e(g, n)
          OBVIOUS
      <4>1. CASE n = 0
          BY <4>1
      <4>2. CASE n # 0
        <5>1. n \in 1..m
            BY <1>4, <4>2
        <5>2. g[n - 1] = f[n - 1]
            BY <2>4, <5>1
        <5> HIDE DEF g
        <5> QED
            BY <4>2, <5>2
      <4> QED
          BY <4>1, <4>2
    <3>2. [n \in 0..m |-> e(f, n)] = [n \in 0..m |-> e(g, n)]
      <4> HIDE DEF e, g
      <4> QED
          BY <3>1
    <3> QED
        BY <3>2
  <2>6. Texts(vs, m, g)
    <3> HIDE DEF g
    <3> QED
        BY <2>5 DEF Texts
  <2> QED
      BY <1>4, <2>6
<1> QED
    BY <1>5, <1>6

\* They are determined by the values.
LEMMA TextsAgree ==
    ASSUME NEW vs, NEW ws, NEW k \in Nat, NEW l \in Nat, NEW f, NEW g,
           Texts(vs, k, f), Texts(ws, l, g), k <= l, \A i \in 1..k : vs[i] = ws[i]
    PROVE  f[k] = g[k]
<1> DEFINE T == {n \in 0..k : f[n] # g[n]}
<1>1. SUFFICES ASSUME T # {} PROVE FALSE
    OBVIOUS
<1>2. PICK m \in T : \A n \in T : m <= n
  <2>1. T \subseteq Nat
      OBVIOUS
  <2> HIDE DEF T
  <2> QED
      BY <1>1, <2>1, LeastNat
<1>3. m \in 0..k /\ m \in 0..l /\ m \in Nat /\ f[m] # g[m]
    OBVIOUS
<1>4. f[m] = IF m = 0 THEN <<>> ELSE f[m - 1] \o Cells(vs[m])
    BY <1>3 DEF Texts
<1>5. g[m] = IF m = 0 THEN <<>> ELSE g[m - 1] \o Cells(ws[m])
    BY <1>3 DEF Texts
<1>6. m # 0
    BY <1>3, <1>4, <1>5
<1>7. m - 1 \in 0..k /\ ~(m <= m - 1) /\ m \in 1..k
    BY <1>3, <1>6
<1>8. f[m - 1] = g[m - 1]
    BY <1>2, <1>7
<1>9. vs[m] = ws[m]
    BY <1>7
<1> QED
    BY <1>3, <1>4, <1>5, <1>6, <1>8, <1>9

\* Text is that of all values.
LEMMA TextIs ==
    ASSUME NEW vs, Len(vs) \in Nat
    PROVE  \E f : Texts(vs, Len(vs), f) /\ Text(vs) = f[Len(vs)]
<1> DEFINE t == CHOOSE f : f = [n \in 0..Len(vs) |->
                                  IF n = 0 THEN <<>> ELSE f[n - 1] \o Cells(vs[n])]
<1>1. \E f : f = [n \in 0..Len(vs) |-> IF n = 0 THEN <<>> ELSE f[n - 1] \o Cells(vs[n])]
    BY TextsExist DEF Texts
<1>2. t = [n \in 0..Len(vs) |-> IF n = 0 THEN <<>> ELSE t[n - 1] \o Cells(vs[n])]
    BY <1>1
<1>3. Text(vs) = t[Len(vs)]
    BY DEF Text
<1> HIDE DEF t
<1> QED
    BY <1>2, <1>3 DEF Texts

\* The text of no value is empty, and a value more adds its cells.
LEMMA TextFacts ==
    /\ Text(<<>>) = <<>>
    /\ \A vs \in Seq(Values) : \A v \in Values : Text(Append(vs, v)) = Text(vs) \o Cells(v)
<1>1. Text(<<>>) = <<>>
  <2>1. PICK f : Texts(<<>>, 0, f) /\ Text(<<>>) = f[0]
    <3>1. Len(<<>>) = 0 /\ 0 \in Nat
        OBVIOUS
    <3> QED
        BY <3>1, TextIs
  <2> QED
      BY <2>1 DEF Texts
<1>2. ASSUME NEW vs \in Seq(Values), NEW v \in Values
      PROVE  Text(Append(vs, v)) = Text(vs) \o Cells(v)
  <2> DEFINE k == Len(vs)
             ws == Append(vs, v)
  <2>1. k \in Nat /\ Len(ws) = k + 1 /\ ws[k + 1] = v /\ \A i \in 1..k : vs[i] = ws[i]
      BY AppendFacts
  <2> HIDE DEF ws
  <2>2. PICK f : Texts(vs, k, f) /\ Text(vs) = f[k]
      BY <2>1, TextIs
  <2>3. PICK g : Texts(ws, k + 1, g) /\ Text(ws) = g[k + 1]
      BY <2>1, TextIs
  <2> HIDE DEF k
  <2>4. f[k] = g[k]
      BY <2>1, <2>2, <2>3, TextsAgree
  <2>5. k + 1 \in 0..(k + 1) /\ k + 1 # 0 /\ (k + 1) - 1 = k
      BY <2>1
  <2>6. g[k + 1] = g[k] \o Cells(v)
      BY <2>1, <2>3, <2>5 DEF Texts
  <2> QED
      BY <2>2, <2>3, <2>4, <2>6 DEF ws
<1> QED
    BY <1>1, <1>2
-----------------------------------------------------------------------------
(* Destinations in the memory.                                              *)

\* Sequences with the same elements are the same.
LEMMA SameSeq ==
    ASSUME NEW S, NEW s \in Seq(S), NEW t \in Seq(S), Len(s) = Len(t),
           \A i \in 1..Len(s) : s[i] = t[i]
    PROVE  s = t
OBVIOUS

\* What is read of another array is read still.
LEMMA ReadGrown ==
    ASSUME NEW m \in Seq(Seq(Cell)), NEW m2, NEW t, Grown(m, m2, t),
           NEW b, FitsIn(m, b), b.arr # t \/ b.arr = 0
    PROVE  Read(m2, b) = Read(m, b)
<1>1. CASE b.arr = 0
    BY <1>1 DEF Read
<1>2. CASE b.arr # 0
  <2>1. b.arr \in 1..Len(m) /\ b.arr # t
      BY <1>2 DEF FitsIn
  <2>2. m2[b.arr] = m[b.arr]
      BY <2>1 DEF Grown
  <2> QED
      BY <1>2, <2>2 DEF Read
<1> QED
    BY <1>1, <1>2

\* append adds its cells, and whoever has the shorter buffer reads what it did.
LEMMA ExtendedText ==
    ASSUME NEW m \in Seq(Seq(Cell)), NEW b, FitsIn(m, b),
           NEW cells \in Seq(Cell), cells # <<>>
    PROVE  LET e == Extended(m, b, cells) IN
           Read(e.mem, e.buf) = Read(m, b) \o cells /\ Read(e.mem, b) = Read(m, b)
<1> DEFINE e == Extended(m, b, cells)
           n == b.len + Len(cells)
           cap == Capacity(m, b)
           room == IF n <= cap THEN cap ELSE IF n > 2 * cap THEN n ELSE 2 * cap
           text == Read(m, b) \o cells
<1>1. /\ text \in Seq(Cell) /\ Len(text) = n /\ n \in Nat \ {0} /\ cap \in Nat /\ b.len \in Nat
      /\ b.len <= cap /\ Len(cells) \in Nat \ {0}
      /\ (\A j \in 1..n : text[j] \in Cell)
      /\ (\A j \in 1..b.len : text[j] = Read(m, b)[j])
  <2>1. Read(m, b) \in Seq(Cell) /\ Len(Read(m, b)) = b.len /\ b.len \in Nat
      BY ReadFacts DEF FitsIn
  <2>2. Len(cells) \in Nat \ {0} /\ cap \in Nat /\ b.len <= cap
      BY DEF FitsIn, Capacity
  <2> DEFINE r == Read(m, b)
  <2>4. r \in Seq(Cell) /\ Len(r) = b.len
      BY <2>1
  <2> HIDE DEF r
  <2>5. r \o cells \in Seq(Cell) /\ Len(r \o cells) = n /\ \A j \in 1..b.len : (r \o cells)[j] = r[j]
      BY <2>4, ConcatFacts
  <2>3. text \in Seq(Cell) /\ Len(text) = n /\ \A j \in 1..b.len : text[j] = Read(m, b)[j]
      BY <2>5 DEF r
  <2>6. \A j \in 1..n : text[j] \in Cell
    <3> HIDE DEF text
    <3> QED
        BY <2>3, DomainFacts
  <2> QED
      BY <2>1, <2>2, <2>3, <2>6
<1>2. Read(m, b) \in Seq(Cell) /\ Len(Read(m, b)) = b.len
    BY ReadFacts
<1>3. /\ Grown(m, e.mem, b.arr) /\ e.mem \in Seq(Seq(Cell)) /\ FitsIn(e.mem, e.buf)
      /\ e.buf.len = n
    BY ExtendedFacts
<1> HIDE DEF text
<1>4. \A j \in 1..n : e.mem[e.buf.arr][j] = text[j]
  <2>1. CASE n <= cap
    <3> DEFINE old == m[b.arr]
               new == [i \in DOMAIN old |-> IF i \in (b.len + 1)..n THEN text[i] ELSE old[i]]
    <3>1. b.arr \in 1..Len(m) /\ cap = Len(old) /\ old \in Seq(Cell)
        BY <1>1, <2>1 DEF FitsIn, Capacity
    <3>2. e = [mem |-> [m EXCEPT ![b.arr] = new], buf |-> [arr |-> b.arr, len |-> n]]
        BY <2>1, <3>1 DEF Extended, text
    <3>3. \A j \in 1..b.len : text[j] = old[j]
        BY <1>1, ReadFacts
    <3>4. ASSUME NEW j \in 1..n PROVE new[j] = text[j]
      <4>1. j \in DOMAIN old
          BY <1>1, <2>1, <3>1
      <4>2. new[j] = IF j \in (b.len + 1)..n THEN text[j] ELSE old[j]
          BY <4>1
      <4>3. CASE j \in (b.len + 1)..n
          BY <4>2, <4>3
      <4>4. CASE j \notin (b.len + 1)..n
        <5>1. j \in 1..b.len
            BY <1>1, <4>4
        <5> QED
            BY <3>3, <4>2, <4>4, <5>1
      <4> QED
          BY <4>3, <4>4
    <3> HIDE DEF new, e
    <3>5. e.mem = [m EXCEPT ![b.arr] = new] /\ e.buf.arr = b.arr
        BY <3>2
    <3>6. [m EXCEPT ![b.arr] = new][b.arr] = new
        BY <3>1
    <3> QED
        BY <3>4, <3>5, <3>6
  <2>2. CASE ~(n <= cap)
    <3> DEFINE new == [i \in 1..room |-> IF i <= n THEN text[i] ELSE Blank]
    <3>1. room \in Nat /\ room >= n
        BY <1>1, <2>2
    <3> HIDE DEF room
    <3>2. new \in Seq(Cell) /\ Len(new) = room /\ \A j \in 1..n : new[j] = text[j]
      <4>1. \A i \in 1..room : new[i] \in Cell
          BY <1>1, <3>1 DEF Cell
      <4>2. \A j \in 1..n : j \in 1..room /\ j <= n
          BY <1>1, <3>1
      <4>3. \A j \in 1..n : new[j] = text[j]
          BY <4>2
      <4>4. new \in [1..room -> Cell]
          BY <4>1
      <4> HIDE DEF new
      <4> QED
          BY <3>1, <4>3, <4>4, FunctionFacts
    <3>3. e = [mem |-> Append(m, new), buf |-> [arr |-> Len(m) + 1, len |-> n]]
        BY <2>2 DEF Extended, text, room
    <3> HIDE DEF new, e
    <3>4. Append(m, new)[Len(m) + 1] = new
        BY <3>2, AppendFacts
    <3>5. e.mem = Append(m, new) /\ e.buf.arr = Len(m) + 1
        BY <3>3
    <3> QED
        BY <3>2, <3>4, <3>5
  <2> QED
      BY <2>1, <2>2
<1> DEFINE m2 == e.mem
           c == e.buf
<1> HIDE DEF e
<1>5. Read(m2, c) \in Seq(Cell) /\ Len(Read(m2, c)) = n /\ \A j \in 1..n : Read(m2, c)[j] = m2[c.arr][j]
    BY <1>3, ReadFacts
<1>6. Read(m2, c) = text
    BY <1>1, <1>4, <1>5, SameSeq
<1>7. Read(m2, b) = Read(m, b)
  <2>1. CASE b.arr = 0
      BY <2>1 DEF Read
  <2>2. CASE b.arr # 0
    <3>1. b.arr \in 1..Len(m) /\ cap = Len(m[b.arr])
        BY <2>2 DEF FitsIn, Capacity
    <3>2. b.arr \in 1..Len(m2) /\ Len(m2[b.arr]) = Len(m[b.arr])
        BY <1>3, <3>1, DomainFacts DEF Grown
    <3>3. FitsIn(m2, b)
        BY <1>1, <2>2, <3>1, <3>2 DEF FitsIn, Capacity
    <3>4. Read(m2, b) \in Seq(Cell) /\ Len(Read(m2, b)) = b.len
          /\ \A j \in 1..b.len : Read(m2, b)[j] = m2[b.arr][j]
        BY <1>3, <3>3, ReadFacts
    <3>5. ASSUME NEW j \in 1..b.len PROVE m2[b.arr][j] = m[b.arr][j]
      <4>1. CASE c.arr = b.arr
        <5>1. m2[b.arr][j] = text[j] /\ text[j] = Read(m, b)[j]
            BY <1>1, <1>4, <4>1
        <5> QED
            BY <5>1, ReadFacts
      <4>2. CASE c.arr # b.arr
        <5>1. Grown(m, m2, 0)
            BY <4>2, ExtendedFacts DEF e
        <5>2. m2[b.arr] = m[b.arr]
            BY <2>2, <3>1, <5>1 DEF Grown
        <5> QED
            BY <5>2
      <4> QED
          BY <4>1, <4>2
    <3>6. \A j \in 1..b.len : Read(m, b)[j] = m[b.arr][j]
        BY ReadFacts
    <3> DEFINE r == Read(m, b)
               r2 == Read(m2, b)
    <3>7. /\ r \in Seq(Cell) /\ r2 \in Seq(Cell) /\ Len(r2) = b.len /\ Len(r) = Len(r2)
          /\ \A j \in 1..b.len : r2[j] = r[j]
        BY <1>2, <3>4, <3>5, <3>6
    <3> HIDE DEF r, r2
    <3>8. r2 = r
        BY <3>7, SameSeq
    <3> QED
        BY <3>8 DEF r, r2
  <2> QED
      BY <2>1, <2>2
<1> QED
    BY <1>6, <1>7 DEF e, text
-----------------------------------------------------------------------------
(* The steps and the destinations.                                          *)

\* An array that g appends to, or is about to take back from an Append.
Held(g, a) ==
    \/ dst[g].arr = a
    \/ \E i \in DOMAIN stack[g] :
         stack[g][i].op = "append" /\ state[stack[g][i].st].arr = a

\* A goroutine makes one call of Append at a time.
OneAppend ==
    \A g \in Goroutines : \A i, j \in DOMAIN stack[g] :
        stack[g][i].op = "append" /\ stack[g][j].op = "append" => i = j

\* No two goroutines append to one array.
Apart ==
    \A g, h \in Goroutines : \A a \in Nat \ {0} : Held(g, a) /\ Held(h, a) => g = h

\* An Append begins with the destination, and has added its value once written.
AppendOK(g, f) ==
    f.op = "append" =>
      /\ f.phase = "encoding" => BufOf(f.st) = dst[g]
      /\ f.phase = "written" => Read(mem, BufOf(f.st)) = Text(Append(appended[g], f.val))

\* What each destination holds, and why nobody writes over it.
DestInv ==
    /\ appended \in [Goroutines -> Seq(Values)]
    /\ OneAppend /\ Apart /\ DestinationsHoldTheirValues
    /\ \A g \in Goroutines : \A i \in DOMAIN stack[g] : AppendOK(g, stack[g][i])

\* The buffer of a state after the step.
BufThen(s) == [arr |-> state'[s].arr, len |-> state'[s].len]

\* A call of Append goes on, is new, or is over and its buffer the destination; what
\* is lent to a state is read as before.
LEMMA DestKept ==
    ASSUME PoolInv, DestInv, OneAppend', appended' \in [Goroutines -> Seq(Values)],
           dst' \in [Goroutines -> Buf],
           \A h \in Goroutines :
             \/ dst'[h] = dst[h] /\ appended'[h] = appended[h]
             \/ \E i \in DOMAIN stack[h] :
                  /\ stack[h][i].op = "append" /\ stack[h][i].phase = "written"
                  /\ dst'[h] = BufOf(stack[h][i].st)
                  /\ appended'[h] = Append(appended[h], stack[h][i].val)
                  /\ \A j \in DOMAIN stack'[h] : stack'[h][j].op # "append",
           \A h \in Goroutines : \A i \in DOMAIN stack'[h] : stack'[h][i].op = "append" =>
             \/ stack'[h][i].phase = "encoding" /\ BufThen(stack'[h][i].st) = dst[h]
             \/ \E k \in DOMAIN stack[h] :
                  /\ stack[h][k].op = "append" /\ stack'[h][i].val = stack[h][k].val
                  /\ BufThen(stack'[h][i].st) = BufOf(stack[h][k].st)
                  /\ stack'[h][i].phase \in {stack[h][k].phase, "failed", "panicking"},
           \A b : FitsIn(mem, b) /\ (b.arr = 0 \/ Lent(b.arr)) => Read(mem', b) = Read(mem, b)
    PROVE  DestInv'
<1>1. /\ \A h \in Goroutines : FitsIn(mem, dst[h]) /\ Lent(dst[h].arr)
      /\ \A h \in Goroutines : \A i \in DOMAIN stack[h] :
           stack[h][i].op = "append" =>
             FitsIn(mem, BufOf(stack[h][i].st)) /\ Lent(BufOf(stack[h][i].st).arr)
    BY DEF PoolInv, Bounded, Lent, BufOf
<1>2. ASSUME NEW h \in Goroutines, NEW a, Held(h, a)'
      PROVE  Held(h, a)
  <2>1. CASE dst'[h].arr = a
    <3>1. CASE dst'[h] = dst[h]
        BY <2>1, <3>1 DEF Held
    <3>2. CASE dst'[h] # dst[h]
      <4>1. PICK i \in DOMAIN stack[h] :
              stack[h][i].op = "append" /\ dst'[h] = BufOf(stack[h][i].st)
          BY <3>2
      <4> QED
          BY <2>1, <4>1 DEF Held, BufOf
    <3> QED
        BY <3>1, <3>2
  <2>2. CASE dst'[h].arr # a
    <3>1. PICK i \in DOMAIN stack'[h] :
            stack'[h][i].op = "append" /\ state'[stack'[h][i].st].arr = a
        BY <1>2, <2>2 DEF Held
    <3>2. BufThen(stack'[h][i].st).arr = a
        BY <3>1 DEF BufThen
    <3>3. CASE BufThen(stack'[h][i].st) = dst[h]
        BY <3>2, <3>3 DEF Held
    <3>4. CASE BufThen(stack'[h][i].st) # dst[h]
      <4>1. PICK k \in DOMAIN stack[h] :
              stack[h][k].op = "append" /\ BufThen(stack'[h][i].st) = BufOf(stack[h][k].st)
          BY <3>1, <3>4
      <4> QED
          BY <3>2, <4>1 DEF Held, BufOf
    <3> QED
        BY <3>3, <3>4
  <2> QED
      BY <2>1, <2>2
<1>3. Apart'
    BY <1>2 DEF Apart, DestInv
<1>4. ASSUME NEW h \in Goroutines
      PROVE  Read(mem', dst'[h]) = Text(appended'[h])
  <2>1. CASE dst'[h] = dst[h] /\ appended'[h] = appended[h]
    <3>1. Read(mem, dst[h]) = Text(appended[h])
        BY DEF DestInv, DestinationsHoldTheirValues
    <3>2. Read(mem', dst[h]) = Read(mem, dst[h])
        BY <1>1
    <3> QED
        BY <2>1, <3>1, <3>2
  <2>2. CASE ~(dst'[h] = dst[h] /\ appended'[h] = appended[h])
    <3>1. PICK i \in DOMAIN stack[h] :
            /\ stack[h][i].op = "append" /\ stack[h][i].phase = "written"
            /\ dst'[h] = BufOf(stack[h][i].st)
            /\ appended'[h] = Append(appended[h], stack[h][i].val)
        BY <2>2
    <3>2. Read(mem, dst'[h]) = Text(appended'[h])
        BY <3>1 DEF DestInv, AppendOK
    <3>3. Read(mem', dst'[h]) = Read(mem, dst'[h])
        BY <1>1, <3>1
    <3> QED
        BY <3>2, <3>3
  <2> QED
      BY <2>1, <2>2
<1>5. ASSUME NEW h \in Goroutines, NEW i \in DOMAIN stack'[h], stack'[h][i].op = "append"
      PROVE  /\ stack'[h][i].phase = "encoding" => BufThen(stack'[h][i].st) = dst'[h]
             /\ stack'[h][i].phase = "written" =>
                  Read(mem', BufThen(stack'[h][i].st)) = Text(Append(appended'[h], stack'[h][i].val))
  <2>1. dst'[h] = dst[h] /\ appended'[h] = appended[h]
      BY <1>5
  <2>2. CASE stack'[h][i].phase = "encoding" /\ BufThen(stack'[h][i].st) = dst[h]
      BY <2>1, <2>2
  <2>3. CASE ~(stack'[h][i].phase = "encoding" /\ BufThen(stack'[h][i].st) = dst[h])
    <3>1. PICK k \in DOMAIN stack[h] :
            /\ stack[h][k].op = "append" /\ stack'[h][i].val = stack[h][k].val
            /\ BufThen(stack'[h][i].st) = BufOf(stack[h][k].st)
            /\ stack'[h][i].phase \in {stack[h][k].phase, "failed", "panicking"}
        BY <1>5, <2>3
    <3>2. /\ stack[h][k].phase = "encoding" => BufOf(stack[h][k].st) = dst[h]
          /\ stack[h][k].phase = "written" =>
               Read(mem, BufOf(stack[h][k].st)) = Text(Append(appended[h], stack[h][k].val))
        BY <3>1 DEF DestInv, AppendOK
    <3>3. Read(mem', BufOf(stack[h][k].st)) = Read(mem, BufOf(stack[h][k].st))
        BY <1>1, <3>1
    <3> QED
        BY <2>1, <3>1, <3>2, <3>3
  <2> QED
      BY <2>2, <2>3
<1>6. \A h \in Goroutines : \A i \in DOMAIN stack'[h] : AppendOK(h, stack[h][i])'
    BY <1>5 DEF AppendOK, BufOf, BufThen
<1> QED
    BY <1>3, <1>4, <1>6 DEF DestInv, DestinationsHoldTheirValues

\* An error or a panic of the value.
LEMMA DestPhase ==
    ASSUME PoolInv, DestInv, NEW g \in Goroutines, EncodeError(g) \/ Panic(g)
    PROVE  DestInv'
<1>1. PICK p \in {"failed", "panicking"} : SetPhase(g, p)
    BY DEF EncodeError, Panic
<1>2. stack[g] # <<>> /\ UNCHANGED <<mem, state, dst, appended>>
    BY DEF EncodeError, Panic
<1>3. /\ \A h \in Goroutines : DOMAIN stack'[h] = DOMAIN stack[h]
      /\ \A h \in Goroutines : \A i \in DOMAIN stack[h] :
           Same(stack'[h][i], stack[h][i]) /\ (h # g \/ i # 1 => stack'[h][i] = stack[h][i])
      /\ stack'[g][1].phase = p
    BY <1>1, <1>2, SetPhaseFacts DEF PoolInv, Phases
<1>4. OneAppend'
    BY <1>3 DEF DestInv, OneAppend, Same
<1>5. appended' \in [Goroutines -> Seq(Values)] /\ dst' \in [Goroutines -> Buf]
    BY <1>2 DEF DestInv, PoolInv, Typed
<1>6. ASSUME NEW h \in Goroutines, NEW i \in DOMAIN stack'[h], stack'[h][i].op = "append"
      PROVE  \E k \in DOMAIN stack[h] :
                  /\ stack[h][k].op = "append" /\ stack'[h][i].val = stack[h][k].val
                  /\ BufThen(stack'[h][i].st) = BufOf(stack[h][k].st)
                  /\ stack'[h][i].phase \in {stack[h][k].phase, "failed", "panicking"}
  <2>1. i \in DOMAIN stack[h] /\ Same(stack'[h][i], stack[h][i])
      BY <1>3
  <2>2. stack'[h][i].phase \in {stack[h][i].phase, "failed", "panicking"}
      BY <1>3, <2>1
  <2> QED
      BY <1>2, <1>6, <2>1, <2>2 DEF Same, BufThen, BufOf
<1> QED
    BY <1>2, <1>4, <1>5, <1>6, DestKept

\* Nothing happens, or a pooled state is forgotten.
LEMMA DestStays ==
    ASSUME PoolInv, DestInv, UNCHANGED <<mem, state, stack, dst, appended>>
    PROVE  DestInv'
<1>1. OneAppend'
    BY DEF DestInv, OneAppend
<1>2. appended' \in [Goroutines -> Seq(Values)] /\ dst' \in [Goroutines -> Buf]
    BY DEF DestInv, PoolInv, Typed
<1>3. ASSUME NEW h \in Goroutines, NEW i \in DOMAIN stack'[h], stack'[h][i].op = "append"
      PROVE  \E k \in DOMAIN stack[h] :
                  /\ stack[h][k].op = "append" /\ stack'[h][i].val = stack[h][k].val
                  /\ BufThen(stack'[h][i].st) = BufOf(stack[h][k].st)
                  /\ stack'[h][i].phase \in {stack[h][k].phase, "failed", "panicking"}
    BY <1>3 DEF BufThen, BufOf
<1> QED
    BY <1>1, <1>2, <1>3, DestKept

\* A call begins: Append lends the destination to a state that nobody has.
LEMMA DestEnter ==
    ASSUME PoolInv, DestInv, NEW g \in Goroutines, NEW op \in {"marshal", "append"},
           NEW v \in Values, Enter(g, op, v)
    PROVE  DestInv'
<1>1. PICK s \in Gettable :
         /\ state' = [Got(s) EXCEPT ![s] =
                        State(IF op = "append" THEN dst[g] ELSE [arr |-> @.arr, len |-> @.len], TRUE)]
         /\ stack' = [stack EXCEPT ![g] =
                        <<[op |-> op, val |-> v, st |-> s, phase |-> "encoding",
                           own |-> [arr |-> Got(s)[s].arr, len |-> Got(s)[s].len]]>> \o @]
    BY DEF Enter
<1>2. /\ mem' = mem /\ dst' = dst /\ appended' = appended
      /\ op = "append" => \A i \in DOMAIN stack[g] : stack[g][i].op # "append"
    BY DEF Enter
<1>3. Typed /\ Bounded /\ dst \in [Goroutines -> Buf]
    BY DEF PoolInv, Typed
<1> DEFINE own == [arr |-> Got(s)[s].arr, len |-> Got(s)[s].len]
           f == [op |-> op, val |-> v, st |-> s, phase |-> "encoding", own |-> own]
           buf == IF op = "append" THEN dst[g] ELSE own
<1>4. /\ Got(s) \in Seq(StateRec) /\ DOMAIN Got(s) = DOMAIN state \cup {s}
      /\ \A t \in DOMAIN state : Got(s)[t] = state[t]
      /\ s \in pool \/ s \notin DOMAIN state
    BY <1>3, GotFacts
<1>5. Got(s)[s] \in StateRec /\ own \in Buf
    BY <1>3, GotFacts DEF StateRec, Buf
<1>6. /\ buf \in Buf /\ State(buf, TRUE) \in StateRec
      /\ state' = [Got(s) EXCEPT ![s] = State(buf, TRUE)]
    BY <1>1, <1>3, <1>5 DEF Buf, State, StateRec
<1>7. stack' = [stack EXCEPT ![g] = <<f>> \o @]
    BY <1>1
<1>8. /\ f.op = op /\ f.st = s /\ f.phase = "encoding" /\ f \in Call
  <2>1. s \in DOMAIN Got(s) /\ DOMAIN Got(s) = 1..Len(Got(s)) /\ Len(Got(s)) \in Nat
      BY <1>4, DomainFacts
  <2>2. s \in Nat
      BY <2>1
  <2> HIDE DEF own
  <2> QED
      BY <1>5, <2>2 DEF Call, Phases
<1> HIDE DEF own, f
<1>9. op = "append" => buf = dst[g]
    OBVIOUS
<1> HIDE DEF buf
<1>10. state'[s] = State(buf, TRUE) /\ \A t \in DOMAIN state : t # s => state'[t] = state[t]
    BY <1>4, <1>6, SetFacts
<1>11. \A h \in Goroutines : \A i \in DOMAIN stack[h] :
        stack[h][i].st # s /\ stack[h][i].st \in DOMAIN state
    BY <1>3, <1>4 DEF Bounded
<1>12. /\ \A h \in Goroutines : h # g => stack'[h] = stack[h]
       /\ stack'[g] \in Seq(Call) /\ stack'[g][1] = f
       /\ \A i \in DOMAIN stack'[g] :
            i # 1 => i - 1 \in DOMAIN stack[g] /\ stack'[g][i] = stack[g][i - 1]
    BY <1>3, <1>7, <1>8, PushedFacts
<1>13. OneAppend'
  <2> SUFFICES ASSUME NEW h \in Goroutines, NEW i \in DOMAIN stack'[h], NEW j \in DOMAIN stack'[h],
                      stack'[h][i].op = "append", stack'[h][j].op = "append"
               PROVE  i = j
      BY DEF OneAppend
  <2>1. CASE h # g
      BY <1>12, <2>1 DEF DestInv, OneAppend
  <2>2. CASE h = g /\ op = "append"
      BY <1>2, <1>12, <2>2
  <2>3. CASE h = g /\ op # "append"
    <3>1. i - 1 \in DOMAIN stack[g] /\ j - 1 \in DOMAIN stack[g]
          /\ stack[g][i - 1].op = "append" /\ stack[g][j - 1].op = "append"
        BY <1>8, <1>12, <2>3
    <3>2. i - 1 = j - 1
        BY <3>1 DEF DestInv, OneAppend
    <3>3. i \in Nat /\ j \in Nat
        BY <1>12, <2>3, DomainFacts
    <3> QED
        BY <3>2, <3>3
  <2> QED
      BY <2>1, <2>2, <2>3
<1>14. ASSUME NEW h \in Goroutines, NEW i \in DOMAIN stack'[h], stack'[h][i].op = "append"
       PROVE  \/ stack'[h][i].phase = "encoding" /\ BufThen(stack'[h][i].st) = dst[h]
              \/ \E k \in DOMAIN stack[h] :
                   /\ stack[h][k].op = "append" /\ stack'[h][i].val = stack[h][k].val
                   /\ BufThen(stack'[h][i].st) = BufOf(stack[h][k].st)
                   /\ stack'[h][i].phase \in {stack[h][k].phase, "failed", "panicking"}
  <2>1. CASE h = g /\ i = 1
    <3>1. op = "append" /\ stack'[h][i] = f
        BY <1>8, <1>12, <1>14, <2>1
    <3>2. BufThen(s) = dst[g]
        BY <1>6, <1>9, <1>10, <3>1 DEF BufThen, State, Buf
    <3> QED
        BY <1>8, <2>1, <3>1, <3>2
  <2>2. CASE ~(h = g /\ i = 1)
    <3>1. PICK k \in DOMAIN stack[h] : stack'[h][i] = stack[h][k]
        BY <1>12, <2>2
    <3>2. BufThen(stack[h][k].st) = BufOf(stack[h][k].st)
        BY <1>10, <1>11 DEF BufThen, BufOf
    <3> QED
        BY <1>14, <3>1, <3>2
  <2> QED
      BY <2>1, <2>2
<1>15. appended' \in [Goroutines -> Seq(Values)]
    BY <1>2 DEF DestInv
<1> QED
    BY <1>2, <1>3, <1>13, <1>14, <1>15, DestKept

\* What is left on the stacks when a call is over, as to Append.
LEMMA RestAppends ==
    ASSUME PoolInv, OneAppend, NEW g \in Goroutines, stack[g] # <<>>,
           stack' = [stack EXCEPT ![g] = Popped(g)]
    PROVE  /\ OneAppend'
           /\ Top(g).op = "append" => \A i \in DOMAIN stack'[g] : stack'[g][i].op # "append"
           /\ 1 \in DOMAIN stack[g] /\ stack[g][1] = Top(g) /\ Top(g) \in Call
           /\ \A h \in Goroutines : \A i \in DOMAIN stack'[h] : \E k \in DOMAIN stack[h] :
                /\ Same(stack'[h][i], stack[h][k]) /\ stack[h][k].st # Top(g).st
                /\ stack'[h][i].phase \in {stack[h][k].phase, "panicking"}
<1>1. /\ \A h \in Goroutines : h # g => stack'[h] = stack[h]
      /\ 1 \in DOMAIN stack[g] /\ stack[g][1] = Top(g) /\ Top(g) \in Call
      /\ \A i \in DOMAIN stack'[g] :
           /\ i \in Nat \ {0} /\ i + 1 \in DOMAIN stack[g]
           /\ Same(stack'[g][i], stack[g][i + 1])
    BY PoppedFacts DEF PoolInv
<1>2. OneAppend'
  <2> SUFFICES ASSUME NEW h \in Goroutines, NEW i \in DOMAIN stack'[h], NEW j \in DOMAIN stack'[h],
                      stack'[h][i].op = "append", stack'[h][j].op = "append"
               PROVE  i = j
      BY DEF OneAppend
  <2>1. CASE h # g
      BY <1>1, <2>1 DEF OneAppend
  <2>2. CASE h = g
    <3>1. /\ i + 1 \in DOMAIN stack[g] /\ j + 1 \in DOMAIN stack[g] /\ i \in Nat /\ j \in Nat
          /\ stack[g][i + 1].op = "append" /\ stack[g][j + 1].op = "append"
        BY <1>1, <2>2 DEF Same
    <3>2. i + 1 = j + 1
        BY <3>1 DEF OneAppend
    <3> QED
        BY <3>1, <3>2
  <2> QED
      BY <2>1, <2>2
<1>3. ASSUME Top(g).op = "append", NEW i \in DOMAIN stack'[g], stack'[g][i].op = "append"
      PROVE  FALSE
  <2>1. i \in Nat \ {0} /\ i + 1 \in DOMAIN stack[g] /\ stack[g][i + 1].op = "append"
      BY <1>1, <1>3 DEF Same
  <2>2. i + 1 = 1
      BY <1>1, <1>3, <2>1 DEF OneAppend
  <2> QED
      BY <2>1, <2>2
<1>4. \A h \in Goroutines : \A i \in DOMAIN stack'[h] : \E k \in DOMAIN stack[h] :
        /\ Same(stack'[h][i], stack[h][k]) /\ stack[h][k].st # Top(g).st
        /\ stack'[h][i].phase \in {stack[h][k].phase, "panicking"}
    BY RestFacts
<1> QED
    BY <1>1, <1>2, <1>3, <1>4

\* Marshal's array is new, and the destinations are others'.
LEMMA DestMarshalReturn ==
    ASSUME PoolInv, DestInv, NEW g \in Goroutines, MarshalReturn(g)
    PROVE  DestInv'
<1>1. PICK s, nb : s = Top(g).st /\ nb = Reset(s)
    OBVIOUS
<1>2. /\ stack[g] # <<>> /\ stack' = [stack EXCEPT ![g] = Popped(g)]
      /\ state' = [state EXCEPT ![s] = State(nb, FALSE)] /\ dst' = dst /\ appended' = appended
      /\ mem' = mem \/ mem' = Append(mem, Read(mem, BufOf(s)))
    BY <1>1 DEF MarshalReturn, Clone
<1>3. /\ OneAppend' /\ 1 \in DOMAIN stack[g] /\ stack[g][1] = Top(g)
      /\ \A h \in Goroutines : \A i \in DOMAIN stack'[h] : \E k \in DOMAIN stack[h] :
           /\ Same(stack'[h][i], stack[h][k]) /\ stack[h][k].st # s
           /\ stack'[h][i].phase \in {stack[h][k].phase, "panicking"}
    BY <1>1, <1>2, RestAppends DEF DestInv
<1>4. mem \in Seq(Seq(Cell)) /\ FitsIn(mem, BufOf(s))
    BY <1>1, <1>3 DEF PoolInv, Typed, Bounded
<1>5. Grown(mem, mem', 0)
  <2>1. CASE mem' = mem
      BY <1>4, <2>1 DEF Grown
  <2>2. CASE mem' = Append(mem, Read(mem, BufOf(s)))
      BY <1>4, <2>2, AppendGrown, ReadFacts
  <2> QED
      BY <1>2, <2>1, <2>2
<1>6. \A b : FitsIn(mem, b) => Read(mem', b) = Read(mem, b)
    BY <1>4, <1>5, ReadGrown
<1>7. \A t \in DOMAIN state : t # s => state'[t] = state[t]
    BY <1>2 DEF PoolInv, Typed
<1>8. ASSUME NEW h \in Goroutines, NEW i \in DOMAIN stack'[h], stack'[h][i].op = "append"
      PROVE  \E k \in DOMAIN stack[h] :
                  /\ stack[h][k].op = "append" /\ stack'[h][i].val = stack[h][k].val
                  /\ BufThen(stack'[h][i].st) = BufOf(stack[h][k].st)
                  /\ stack'[h][i].phase \in {stack[h][k].phase, "failed", "panicking"}
  <2>1. PICK k \in DOMAIN stack[h] :
           /\ Same(stack'[h][i], stack[h][k]) /\ stack[h][k].st # s
           /\ stack'[h][i].phase \in {stack[h][k].phase, "panicking"}
      BY <1>3
  <2>2. stack[h][k].st \in DOMAIN state
      BY DEF PoolInv, Bounded
  <2> QED
      BY <1>7, <1>8, <2>1, <2>2 DEF Same, BufThen, BufOf
<1>9. appended' \in [Goroutines -> Seq(Values)] /\ dst' \in [Goroutines -> Buf]
    BY <1>2 DEF DestInv, PoolInv, Typed
<1> QED
    BY <1>2, <1>3, <1>6, <1>8, <1>9, DestKept

\* Append hands the longer buffer to its caller, or leaves the caller's as it was.
LEMMA DestAppendReturn ==
    ASSUME PoolInv, DestInv, NEW g \in Goroutines, AppendReturn(g)
    PROVE  DestInv'
<1>1. PICK s, nb : s = Top(g).st /\ nb = TakeBack(g)
    OBVIOUS
<1>2. /\ stack[g] # <<>> /\ stack' = [stack EXCEPT ![g] = Popped(g)] /\ mem' = mem
      /\ Top(g).op = "append"
      /\ state' = state \/ state' = [state EXCEPT ![s] = State(nb, FALSE)]
      /\ \/ dst' = dst /\ appended' = appended
         \/ /\ Top(g).phase = "written" /\ dst' = [dst EXCEPT ![g] = BufOf(s)]
            /\ appended' = [appended EXCEPT ![g] = Append(@, Top(g).val)]
    BY <1>1 DEF AppendReturn
<1>3. /\ OneAppend' /\ 1 \in DOMAIN stack[g] /\ stack[g][1] = Top(g) /\ Top(g) \in Call
      /\ \A i \in DOMAIN stack'[g] : stack'[g][i].op # "append"
      /\ \A h \in Goroutines : \A i \in DOMAIN stack'[h] : \E k \in DOMAIN stack[h] :
           /\ Same(stack'[h][i], stack[h][k]) /\ stack[h][k].st # s
           /\ stack'[h][i].phase \in {stack[h][k].phase, "panicking"}
    BY <1>1, <1>2, RestAppends DEF DestInv
<1>4. \A t \in DOMAIN state : t # s => state'[t] = state[t]
    BY <1>2 DEF PoolInv, Typed
<1>5. ASSUME NEW h \in Goroutines, NEW i \in DOMAIN stack'[h], stack'[h][i].op = "append"
      PROVE  \E k \in DOMAIN stack[h] :
                  /\ stack[h][k].op = "append" /\ stack'[h][i].val = stack[h][k].val
                  /\ BufThen(stack'[h][i].st) = BufOf(stack[h][k].st)
                  /\ stack'[h][i].phase \in {stack[h][k].phase, "failed", "panicking"}
  <2>1. PICK k \in DOMAIN stack[h] :
           /\ Same(stack'[h][i], stack[h][k]) /\ stack[h][k].st # s
           /\ stack'[h][i].phase \in {stack[h][k].phase, "panicking"}
      BY <1>3
  <2>2. stack[h][k].st \in DOMAIN state
      BY DEF PoolInv, Bounded
  <2> QED
      BY <1>4, <1>5, <2>1, <2>2 DEF Same, BufThen, BufOf
<1>6. dst \in [Goroutines -> Buf] /\ appended \in [Goroutines -> Seq(Values)]
      /\ BufOf(s) \in Buf /\ Top(g).val \in Values
  <2>1. s \in DOMAIN state /\ state \in Seq(StateRec)
      BY <1>1, <1>3 DEF PoolInv, Bounded, Typed, StateRec
  <2>2. state[s] \in StateRec
      BY <2>1
  <2> QED
      BY <1>3, <2>2 DEF PoolInv, Typed, DestInv, BufOf, Buf, StateRec, Call
<1>7. CASE dst' = dst /\ appended' = appended
    BY <1>2, <1>3, <1>5, <1>6, <1>7, DestKept
<1>8. CASE /\ Top(g).phase = "written" /\ dst' = [dst EXCEPT ![g] = BufOf(s)]
           /\ appended' = [appended EXCEPT ![g] = Append(@, Top(g).val)]
  <2>1. /\ dst' \in [Goroutines -> Buf] /\ dst'[g] = BufOf(s)
        /\ \A h \in Goroutines : h # g => dst'[h] = dst[h]
      BY <1>6, <1>8
  <2>2. /\ appended' \in [Goroutines -> Seq(Values)]
        /\ appended'[g] = Append(appended[g], Top(g).val)
        /\ \A h \in Goroutines : h # g => appended'[h] = appended[h]
      BY <1>6, <1>8
  <2>3. ASSUME NEW h \in Goroutines
        PROVE  \/ dst'[h] = dst[h] /\ appended'[h] = appended[h]
               \/ \E i \in DOMAIN stack[h] :
                    /\ stack[h][i].op = "append" /\ stack[h][i].phase = "written"
                    /\ dst'[h] = BufOf(stack[h][i].st)
                    /\ appended'[h] = Append(appended[h], stack[h][i].val)
                    /\ \A j \in DOMAIN stack'[h] : stack'[h][j].op # "append"
    <3>1. CASE h = g
        BY <1>1, <1>2, <1>3, <1>8, <2>1, <2>2, <3>1
    <3>2. CASE h # g
        BY <2>1, <2>2, <3>2
    <3> QED
        BY <3>1, <3>2
  <2> QED
      BY <1>2, <1>3, <1>5, <2>1, <2>2, <2>3, DestKept
<1> QED
    BY <1>2, <1>7, <1>8

\* The text of Marshal goes to its state's array, that of Append behind what the
\* caller has: in place, where nobody else reads, or in a new array.
LEMMA DestWrite ==
    ASSUME PoolInv, DestInv, NEW g \in Goroutines, Write(g)
    PROVE  DestInv'
<1>0. PICK s, v : s = Top(g).st /\ v = Top(g).val
    OBVIOUS
<1> DEFINE b == BufOf(s)
           e == Extended(mem, b, Cells(v))
<1>1. /\ Typed /\ Bounded /\ OneUser /\ Owned /\ Contents /\ stack[g] # <<>>
      /\ dst' = dst /\ appended' = appended /\ mem \in Seq(Seq(Cell))
    BY DEF PoolInv, Write, Typed
<1>2. /\ \A h \in Goroutines : DOMAIN stack'[h] = DOMAIN stack[h]
      /\ \A h \in Goroutines : \A i \in DOMAIN stack[h] :
           Same(stack'[h][i], stack[h][i]) /\ (h # g \/ i # 1 => stack'[h][i] = stack[h][i])
      /\ 1 \in DOMAIN stack[g] /\ stack[g][1] = Top(g) /\ stack'[g][1].phase = "written"
    BY <1>1, SetPhaseFacts DEF Write, Phases
<1>3. /\ Top(g) \in Call /\ CallOK(Top(g)) /\ Top(g).phase = "encoding" /\ v \in Values
      /\ s \in DOMAIN state \ pool /\ s \in DOMAIN state /\ FitsIn(mem, b)
  <2>1. stack[g] \in Seq(Call)
      BY <1>1 DEF Typed
  <2>2. Top(g) \in Call
      BY <1>2, <2>1
  <2>3. s \in DOMAIN state \ pool /\ s \in DOMAIN state /\ FitsIn(mem, b)
      BY <1>0, <1>1, <1>2 DEF Bounded
  <2> QED
      BY <1>0, <1>1, <1>2, <2>2, <2>3 DEF Contents, Call, Write
<1>4. mem' = e.mem /\ state' = [state EXCEPT ![s] = State(e.buf, TRUE)]
  <2>1. state[s].drop = TRUE
      BY <1>0, <1>3 DEF CallOK
  <2>2. Cells(v) \o <<>> = Cells(v)
      BY <1>3, CellsFacts
  <2> QED
      BY <1>0, <2>1, <2>2 DEF Write
<1>5. Cells(v) \in Seq(Cell) /\ Cells(v) # <<>>
    BY <1>3, CellsFacts
<1> DEFINE new == e.buf
<1> HIDE DEF b
<1>6. /\ Grown(mem, mem', b.arr) /\ new \in Buf
      /\ \/ new.arr = b.arr /\ b.arr # 0
         \/ new.arr = Len(mem) + 1
      /\ Read(mem', new) = Read(mem, b) \o Cells(v) /\ Read(mem', b) = Read(mem, b)
    BY <1>1, <1>3, <1>4, <1>5, ExtendedFacts, ExtendedText
<1> HIDE DEF e
<1>7. state'[s] = State(new, TRUE) /\ \A t \in DOMAIN state : t # s => state'[t] = state[t]
    BY <1>1, <1>3, <1>4 DEF Typed
<1> HIDE DEF new
<1>8. BufThen(s) = new
    BY <1>6, <1>7 DEF BufThen, State, Buf
<1>9. \A h \in Goroutines : \A i \in DOMAIN stack[h] :
        /\ stack[h][i].st \in DOMAIN state
        /\ ~(h = g /\ i = 1) => /\ stack'[h][i] = stack[h][i]
                                /\ BufThen(stack[h][i].st) = BufOf(stack[h][i].st)
    BY <1>0, <1>1, <1>2, <1>7 DEF Bounded, OneUser, BufThen, BufOf
<1>10. OneAppend'
    BY <1>2 DEF DestInv, OneAppend, Same
<1>11. appended' \in [Goroutines -> Seq(Values)] /\ dst' \in [Goroutines -> Buf]
    BY <1>1 DEF DestInv, Typed
<1>12. \A c : FitsIn(mem, c) /\ (c.arr # b.arr \/ c.arr = 0) => Read(mem', c) = Read(mem, c)
    BY <1>1, <1>6, ReadGrown
<1>13. CASE Top(g).op = "marshal"
  <2>1. b.arr = 0 \/ ~Lent(b.arr)
    <3>1. b.arr # 0 => OneOwner(b.arr)
        BY <1>1, <1>3, DomainFacts DEF Owned, FitsIn
    <3>2. Private(s, b.arr)
        BY <1>0, <1>2, <1>13 DEF Private, BufOf, b
    <3> QED
        BY <1>3, <3>1, <3>2 DEF OneOwner
  <2>2. \A c : FitsIn(mem, c) /\ (c.arr = 0 \/ Lent(c.arr)) => Read(mem', c) = Read(mem, c)
      BY <1>12, <2>1
  <2>3. ASSUME NEW h \in Goroutines, NEW i \in DOMAIN stack'[h], stack'[h][i].op = "append"
        PROVE  \E k \in DOMAIN stack[h] :
                  /\ stack[h][k].op = "append" /\ stack'[h][i].val = stack[h][k].val
                  /\ BufThen(stack'[h][i].st) = BufOf(stack[h][k].st)
                  /\ stack'[h][i].phase \in {stack[h][k].phase, "failed", "panicking"}
    <3>1. i \in DOMAIN stack[h] /\ Same(stack'[h][i], stack[h][i])
        BY <1>2
    <3>2. ~(h = g /\ i = 1)
        BY <1>2, <1>13, <2>3, <3>1 DEF Same
    <3> QED
        BY <1>9, <2>3, <3>1, <3>2
  <2> QED
      BY <1>1, <1>10, <1>11, <2>2, <2>3, DestKept
<1>14. CASE Top(g).op = "append"
  <2>1. b = dst[g]
      BY <1>0, <1>2, <1>3, <1>14 DEF DestInv, AppendOK, b
  <2>2. \A h \in Goroutines : \A i \in DOMAIN stack[h] :
          stack[h][i].op = "append" /\ h = g => i = 1
      BY <1>2, <1>14 DEF DestInv, OneAppend
  <2>3. /\ \A h \in Goroutines : FitsIn(mem, dst[h])
        /\ \A h \in Goroutines : \A i \in DOMAIN stack[h] : FitsIn(mem, BufOf(stack[h][i].st))
      BY <1>1 DEF Bounded
  <2>4. Held(g, b.arr)
      BY <2>1 DEF Held
  <2>5. ASSUME NEW h \in Goroutines, NEW c, FitsIn(mem, c), Held(h, c.arr), h # g
        PROVE  Read(mem', c) = Read(mem, c)
    <3>1. CASE c.arr = 0
        BY <1>12, <2>5, <3>1
    <3>2. CASE c.arr # 0
      <4>1. c.arr \in Nat \ {0}
          BY <1>1, <2>5, <3>2, DomainFacts DEF FitsIn
      <4>2. c.arr # b.arr
          BY <2>4, <2>5, <4>1 DEF DestInv, Apart
      <4> QED
          BY <1>12, <2>5, <4>2
    <3> QED
        BY <3>1, <3>2
  <2>6. ASSUME NEW h \in Goroutines
        PROVE  Read(mem', dst'[h]) = Text(appended'[h])
    <3>1. Read(mem, dst[h]) = Text(appended[h])
        BY DEF DestInv, DestinationsHoldTheirValues
    <3>2. CASE h = g
        BY <1>1, <1>6, <2>1, <3>1, <3>2
    <3>3. CASE h # g
      <4>1. Held(h, dst[h].arr)
          BY DEF Held
      <4> QED
          BY <1>1, <2>3, <2>5, <3>1, <3>3, <4>1
    <3> QED
        BY <3>2, <3>3
  <2>7. ASSUME NEW h \in Goroutines, NEW i \in DOMAIN stack'[h], stack'[h][i].op = "append"
        PROVE  /\ stack'[h][i].phase = "encoding" => BufThen(stack'[h][i].st) = dst'[h]
               /\ stack'[h][i].phase = "written" =>
                    Read(mem', BufThen(stack'[h][i].st)) = Text(Append(appended'[h], stack'[h][i].val))
    <3>1. i \in DOMAIN stack[h] /\ Same(stack'[h][i], stack[h][i])
        BY <1>2
    <3>2. CASE h = g
      <4>1. /\ i = 1 /\ stack'[h][i].phase = "written" /\ stack'[h][i].st = s
            /\ stack'[h][i].val = v
          BY <1>0, <1>2, <2>2, <2>7, <3>1, <3>2 DEF Same
      <4>2. Text(Append(appended[g], v)) = Text(appended[g]) \o Cells(v)
          BY <1>3, TextFacts DEF DestInv
      <4>3. Read(mem, b) = Text(appended[g])
          BY <2>1 DEF DestInv, DestinationsHoldTheirValues
      <4> QED
          BY <1>1, <1>6, <1>8, <3>2, <4>1, <4>2, <4>3
    <3>3. CASE h # g
      <4> DEFINE f == stack[h][i]
      <4>1. stack'[h][i] = f /\ BufThen(f.st) = BufOf(f.st) /\ f.op = "append"
          BY <1>9, <2>7, <3>1, <3>3
      <4>2. /\ f.phase = "encoding" => BufOf(f.st) = dst[h]
            /\ f.phase = "written" => Read(mem, BufOf(f.st)) = Text(Append(appended[h], f.val))
          BY <3>1, <4>1 DEF DestInv, AppendOK
      <4>3. Held(h, BufOf(f.st).arr)
          BY <3>1, <4>1 DEF Held, BufOf
      <4>4. Read(mem', BufOf(f.st)) = Read(mem, BufOf(f.st))
          BY <2>3, <2>5, <3>1, <3>3, <4>3
      <4> HIDE DEF f
      <4> QED
          BY <1>1, <4>1, <4>2, <4>4
    <3> QED
        BY <3>2, <3>3
  <2>8. \A h \in Goroutines : \A i \in DOMAIN stack'[h] : AppendOK(h, stack[h][i])'
      BY <2>7 DEF AppendOK, BufOf, BufThen
  <2>9. ASSUME NEW h \in Goroutines, NEW a \in Nat \ {0}, Held(h, a)'
        PROVE  (a # Len(mem) + 1 /\ Held(h, a)) \/ (a = Len(mem) + 1 /\ h = g)
    <3>1. \A c : FitsIn(mem, c) => c.arr # Len(mem) + 1
        BY <1>1, DomainFacts DEF FitsIn
    <3>2. CASE dst'[h].arr = a
        BY <1>1, <2>3, <3>1, <3>2 DEF Held
    <3>3. CASE dst'[h].arr # a
      <4>1. PICK i \in DOMAIN stack'[h] :
              stack'[h][i].op = "append" /\ state'[stack'[h][i].st].arr = a
          BY <2>9, <3>3 DEF Held
      <4>2. i \in DOMAIN stack[h] /\ Same(stack'[h][i], stack[h][i]) /\ stack[h][i].op = "append"
          BY <1>2, <4>1 DEF Same
      <4>3. BufThen(stack[h][i].st).arr = a
          BY <4>1, <4>2 DEF Same, BufThen
      <4>4. CASE h = g
        <5>1. new.arr = a
            BY <1>0, <1>2, <1>8, <2>2, <4>2, <4>3, <4>4
        <5>2. b.arr # Len(mem) + 1
            BY <1>3, <3>1
        <5> QED
            BY <1>6, <2>4, <4>4, <5>1, <5>2
      <4>5. CASE h # g
        <5>1. BufOf(stack[h][i].st).arr = a
            BY <1>9, <4>2, <4>3, <4>5
        <5>2. Held(h, a)
            BY <4>2, <5>1 DEF Held, BufOf
        <5> QED
            BY <2>3, <3>1, <4>2, <5>1, <5>2
      <4> QED
          BY <4>4, <4>5
    <3> QED
        BY <3>2, <3>3
  <2>10. Apart'
    <3> SUFFICES ASSUME NEW h \in Goroutines, NEW k \in Goroutines, NEW a \in Nat \ {0},
                        Held(h, a)', Held(k, a)'
                 PROVE  h = k
        BY DEF Apart
    <3> QED
        BY <2>9 DEF DestInv, Apart
  <2> QED
      BY <1>10, <1>11, <2>6, <2>8, <2>10 DEF DestInv, DestinationsHoldTheirValues
<1> QED
    BY <1>3, <1>13, <1>14 DEF Call

\* Nothing has been appended at the beginning,
LEMMA InitDest ==
    ASSUME Init
    PROVE  DestInv
<1>1. /\ stack = [g \in Goroutines |-> <<>>] /\ dst = [g \in Goroutines |-> NilBuf]
      /\ appended = [g \in Goroutines |-> <<>>] /\ mem = <<>>
    BY DEF Init
<1>2. appended \in [Goroutines -> Seq(Values)] /\ OneAppend
    BY <1>1 DEF OneAppend
<1>3. \A g \in Goroutines : stack[g] = <<>> /\ dst[g] = NilBuf /\ appended[g] = <<>>
    BY <1>1
<1>4. Apart /\ \A g \in Goroutines : \A i \in DOMAIN stack[g] : AppendOK(g, stack[g][i])
    BY <1>3 DEF Apart, Held, NilBuf
<1>5. DestinationsHoldTheirValues
    BY <1>3, TextFacts DEF DestinationsHoldTheirValues, Read, NilBuf
<1> QED
    BY <1>2, <1>4, <1>5 DEF DestInv

\* and every step keeps the destinations what they hold.
LEMMA DestStep ==
    ASSUME PoolInv, DestInv, [Next]_vars
    PROVE  DestInv'
<1>1. CASE UNCHANGED vars
    BY <1>1, DestStays DEF vars
<1>2. ASSUME NEW g \in Goroutines, EncodeError(g) \/ Panic(g)
      PROVE  DestInv'
    BY <1>2, DestPhase
<1>3. ASSUME NEW g \in Goroutines,
             \/ \E op \in {"marshal", "append"}, v \in Values : Enter(g, op, v)
             \/ Write(g) \/ MarshalReturn(g) \/ AppendReturn(g)
      PROVE  DestInv'
    BY <1>3, DestEnter, DestWrite, DestMarshalReturn, DestAppendReturn
<1>4. ASSUME NEW s \in pool, Collect(s)
      PROVE  DestInv'
    BY <1>4, DestStays DEF Collect
<1> QED
    BY <1>1, <1>2, <1>3, <1>4 DEF Next
-----------------------------------------------------------------------------
(* The theorems.                                                            *)

\* The pool's invariant holds always: the calls are typed, each state has one user
\* and each array one owner, and what the calls rely on is there (json.go:47-111).
THEOREM PoolIsSound == Spec => []PoolInv
<1>1. Init => PoolInv
    BY InitPool
<1>2. PoolInv /\ [Next]_vars => PoolInv'
    BY PoolStep
<1> QED
    BY <1>1, <1>2, PTL DEF Spec

\* No two calls use one state, and none uses a pooled one.
THEOREM UsersAreAlone == Spec => []OneUserPerState
<1>1. PoolInv => OneUserPerState
  <2> SUFFICES ASSUME PoolInv PROVE OneUserPerState
      OBVIOUS
  <2>1. ASSUME NEW s \in DOMAIN state
        PROVE  state[s].arr \in 0..Len(mem) /\ state[s].drop \in BOOLEAN
    <3>1. FitsIn(mem, BufOf(s)) /\ state \in Seq(StateRec)
        BY DEF PoolInv, Bounded, Typed, StateRec
    <3>2. state[s] \in StateRec
        BY <3>1
    <3> QED
        BY <3>1, <3>2 DEF FitsIn, BufOf, StateRec
  <2>2. ASSUME NEW g \in Goroutines
        PROVE  /\ dst[g].arr \in 0..Len(mem) /\ dst[g].len <= Capacity(mem, dst[g])
               /\ \A f \in Frames(g) : f.st \in DOMAIN state \ pool /\ f.phase \in Phases
    <3>1. stack[g] \in Seq(Call)
        BY DEF PoolInv, Typed
    <3>2. \A i \in DOMAIN stack[g] : stack[g][i] \in Call
        BY <3>1
    <3> QED
        BY <3>2 DEF PoolInv, Bounded, FitsIn, Frames, Call
  <2>3. TypeOK
      BY <2>1, <2>2 DEF PoolInv, Typed, TypeOK
  <2> QED
      BY <2>3 DEF PoolInv, OneUser, OneUserPerState
<1> QED
    BY <1>1, PoolIsSound, PTL

\* The array of a pooled buffer belongs to nobody else.
THEOREM BuffersAreOwned == Spec => []PooledBuffersAreOwned
<1>1. PoolInv => PooledBuffersAreOwned
  <2> SUFFICES ASSUME PoolInv, NEW s \in pool, state[s].arr # 0
               PROVE  LET a == state[s].arr IN
                      /\ \A t \in pool \ {s} : state[t].arr # a
                      /\ \A g \in Goroutines : dst[g].arr # a /\ \A f \in Frames(g) : f.own.arr # a
                      /\ \A r \in results : r.arr # a
      BY DEF PooledBuffersAreOwned
  <2> DEFINE a == state[s].arr
  <2>1. s \in DOMAIN state /\ FitsIn(mem, BufOf(s)) /\ pool \subseteq DOMAIN state
      BY DEF PoolInv, Bounded, Typed
  <2>2. a \in 1..Len(mem)
    <3>1. a \in 0..Len(mem) /\ Len(mem) \in Nat
        BY <2>1 DEF FitsIn, BufOf, PoolInv, Typed
    <3> QED
        BY <3>1
  <2>3. OneOwner(a)
      BY <2>2 DEF PoolInv, Owned
  <2> HIDE DEF a
  <2>4. Private(s, a)
      BY DEF Private, a
  <2>5. \A t \in pool \ {s} : state[t].arr # a
      BY <2>1, <2>3, <2>4 DEF OneOwner, Private
  <2>6. ~Lent(a) /\ ~Returned(a)
      BY <2>1, <2>3, <2>4 DEF OneOwner
  <2>7. ASSUME NEW g \in Goroutines, NEW f \in Frames(g)
        PROVE  f.own.arr # a
    <3>1. PICK i \in DOMAIN stack[g] : f = stack[g][i]
        BY DEF Frames
    <3>2. f.st \in DOMAIN state /\ f.st # s
        BY <3>1 DEF PoolInv, Bounded
    <3>3. f.own.arr = a => Private(f.st, a)
        BY <3>1 DEF Private
    <3> QED
        BY <2>1, <2>3, <2>4, <3>2, <3>3 DEF OneOwner
  <2> QED
      BY <2>5, <2>6, <2>7 DEF Lent, Returned, a
<1> QED
    BY <1>1, PoolIsSound, PTL

\* A pooled state is empty, adds newlines again, and is not larger than the limit.
THEOREM PoolStaysClean == Spec => []PoolIsClean
<1>1. PoolInv => PoolIsClean
    BY DEF PoolInv, Contents
<1> QED
    BY <1>1, PoolIsSound, PTL

\* What Marshal returned stays the text of its value, whatever is encoded later.
THEOREM ResultsAreTheCallers == Spec => []ResultsStayIntact
<1>1. PoolInv => ResultsStayIntact
  <2> SUFFICES ASSUME PoolInv, NEW r \in results
               PROVE  Read(mem, r) = Cells(r.val)
      BY DEF ResultsStayIntact
  <2>1. Holds(mem, r, r.val) /\ r.val \in Values /\ mem \in Seq(Seq(Cell)) /\ r.len \in Nat
      BY DEF PoolInv, Contents, Typed
  <2>2. DOMAIN mem = 1..Len(mem) /\ Len(mem) \in Nat
      BY <2>1, DomainFacts
  <2>3. FitsIn(mem, r)
      BY <2>1, <2>2 DEF Holds, FitsIn, Capacity
  <2>4. /\ Read(mem, r) \in Seq(Cell) /\ Len(Read(mem, r)) = r.len
        /\ \A j \in 1..r.len : Read(mem, r)[j] = mem[r.arr][j]
      BY <2>1, <2>3, ReadFacts
  <2>5. /\ Cells(r.val) \in Seq(Cell) /\ Len(Cells(r.val)) = Size[r.val]
        /\ \A j \in 1..Size[r.val] : Cells(r.val)[j] = r.val
      BY <2>1, CellsFacts
  <2>6. r.len = Size[r.val] /\ \A j \in 1..r.len : mem[r.arr][j] = r.val
      BY <2>1 DEF Holds
  <2> QED
      BY <2>4, <2>5, <2>6
<1> QED
    BY <1>1, PoolIsSound, PTL

\* A destination holds exactly the values appended without an error, in order: of
\* all goroutines at once, and with encoders called from a value's MarshalJSON
\* (json.go:98-111).
THEOREM DestinationsAreExact == Spec => []DestinationsHoldTheirValues
<1>1. Init => PoolInv /\ DestInv
    BY InitPool, InitDest
<1>2. PoolInv /\ DestInv /\ [Next]_vars => (PoolInv /\ DestInv)'
    BY PoolStep, DestStep
<1>3. DestInv => DestinationsHoldTheirValues
    BY DEF DestInv
<1> QED
    BY <1>1, <1>2, <1>3, PTL DEF Spec
-----------------------------------------------------------------------------------
(* Streams.                                                                        *)

WriterCell == [val : Records, html : BOOLEAN, indent : BOOLEAN] \cup {LineEnd}

\* A stream that was made has the newline option of the Opts it was made with, so
\* that one that is not stale has the current one.
StreamInv ==
    /\ opts \subseteq Bits /\ indent \in BOOLEAN
    /\ stream.made \in BOOLEAN
    /\ stream.made => stream.noNewline = ("NoEncoderNewline" \in lastOpts)
    /\ rest \in Seq(WriterCell) /\ out \in Seq(WriterCell) /\ sent \in Seq(WriterCell)
    /\ ~torn => out \o rest = sent

\* The text of a value, with or without a newline behind it.
LEMMA FormattedTyped ==
    ASSUME NEW v \in Records, NEW html \in BOOLEAN, NEW ind \in BOOLEAN, NEW noNewline
    PROVE  Formatted(v, html, ind, noNewline) \in Seq(WriterCell)
<1> DEFINE text == [i \in 1..RecordSize[v] |-> [val |-> v, html |-> html, indent |-> ind]]
           end == IF noNewline THEN <<>> ELSE <<LineEnd>>
<1>1. text \in Seq(WriterCell)
  <2>1. RecordSize[v] \in Nat /\ text \in [1..RecordSize[v] -> WriterCell]
      BY StreamAssumption DEF WriterCell
  <2> HIDE DEF text
  <2> QED
      BY <2>1
<1>2. end \in Seq(WriterCell)
  <2>1. <<>> \in Seq(WriterCell)
      BY EmptySeq
  <2>2. <<LineEnd>> \in Seq(WriterCell)
      BY DEF WriterCell
  <2> QED
      BY <2>1, <2>2
<1> HIDE DEF text, end
<1>3. text \o end \in Seq(WriterCell)
    BY <1>1, <1>2
<1> QED
    BY <1>3 DEF Formatted, text, end

\* What a write takes, and what it leaves, are what there was.
LEMMA SplitFacts ==
    ASSUME NEW s \in Seq(WriterCell), NEW t \in Seq(WriterCell), NEW n \in 0..Len(t)
    PROVE  /\ SubSeq(t, 1, n) \in Seq(WriterCell) /\ SubSeq(t, n + 1, Len(t)) \in Seq(WriterCell)
           /\ s \o SubSeq(t, 1, n) \in Seq(WriterCell)
           /\ (s \o SubSeq(t, 1, n)) \o SubSeq(t, n + 1, Len(t)) = s \o t
<1>1. Len(t) \in Nat /\ n \in Nat /\ n <= Len(t) /\ DOMAIN t = 1..Len(t)
    OBVIOUS
<1>2. \A i \in 1..Len(t) : t[i] \in WriterCell
    BY ElementOfSeq
<1>3. SubSeq(t, 1, n) \in Seq(WriterCell)
    BY <1>1, <1>2, SubSeqProperties
<1>4. SubSeq(t, n + 1, Len(t)) \in Seq(WriterCell)
    BY <1>1, <1>2, SubSeqProperties
<1>5. SubSeq(t, 1, n) \o SubSeq(t, n + 1, Len(t)) = t
  <2>1. /\ 1 \in 1..(Len(t) + 1) /\ n \in (1 - 1)..Len(t)
        /\ Len(t) \in n..Len(t)
      BY <1>1
  <2>2. SubSeq(t, 1, n) \o SubSeq(t, n + 1, Len(t)) = SubSeq(t, 1, Len(t))
      BY <2>1, ConcatAdjacentSubSeq
  <2> QED
      BY <2>2, SubSeqFull
<1>6. /\ s \o SubSeq(t, 1, n) \in Seq(WriterCell)
      /\ (s \o SubSeq(t, 1, n)) \o SubSeq(t, n + 1, Len(t))
            = s \o (SubSeq(t, 1, n) \o SubSeq(t, n + 1, Len(t)))
  <2> DEFINE head == SubSeq(t, 1, n)
             tail == SubSeq(t, n + 1, Len(t))
  <2>1. head \in Seq(WriterCell) /\ tail \in Seq(WriterCell)
      BY <1>3, <1>4
  <2> HIDE DEF head, tail
  <2>2. s \o head \in Seq(WriterCell)
      BY <2>1, ConcatProperties
  <2>3. (s \o head) \o tail = s \o (head \o tail)
      BY <2>1, ConcatAssociative
  <2> QED
      BY <2>2, <2>3 DEF head, tail
<1> QED
    BY <1>3, <1>4, <1>5, <1>6

\* Current has the current newline option.
LEMMA CurrentFacts ==
    ASSUME StreamInv
    PROVE  Current.made = TRUE /\ Current.noNewline = ("NoEncoderNewline" \in opts)
<1>1. CASE Stale
    BY <1>1 DEF Current
<1>2. CASE ~Stale
    BY <1>2 DEF Current, Stale, StreamInv
<1> QED
    BY <1>1, <1>2

\* Encode begins with nothing left to write, and adds the same text to what is to
\* be written as to what was sent.
LEMMA EncodeStep ==
    ASSUME StreamInv, NEW v \in Records, Encode(v)
    PROVE  StreamInv'
<1> DEFINE text == Formatted(v, "EscapeHTML" \in opts, indent, "NoEncoderNewline" \in opts)
<1>1. /\ stream' = Current /\ lastOpts' = opts /\ rest = <<>>
      /\ rest' = text /\ sent' = sent \o text /\ UNCHANGED <<opts, indent, out, torn>>
    BY CurrentFacts DEF Encode
<1>2. text \in Seq(WriterCell)
  <2>1. ("EscapeHTML" \in opts) \in BOOLEAN /\ indent \in BOOLEAN
      BY DEF StreamInv
  <2> HIDE DEF StreamInv
  <2> QED
      BY <2>1, FormattedTyped
<1> HIDE DEF text
<1>3. sent \o text \in Seq(WriterCell) /\ (~torn => out = sent)
    BY <1>1, <1>2 DEF StreamInv
<1> QED
    BY <1>1, <1>2, <1>3, CurrentFacts DEF StreamInv

\* A value that cannot be encoded and a setter leave the texts alone.
LEMMA OtherSteps ==
    ASSUME StreamInv, EncodeFails \/ (\E on \in BOOLEAN : Configure(on)) \/ UNCHANGED streamVars
    PROVE  StreamInv'
<1>1. CASE EncodeFails
  <2>1. /\ stream' = Current /\ lastOpts' = opts
        /\ UNCHANGED <<opts, indent, rest, out, sent, torn>>
      BY <1>1 DEF EncodeFails
  <2>2. stream'.made = TRUE /\ stream'.noNewline = ("NoEncoderNewline" \in lastOpts')
      BY <2>1, CurrentFacts
  <2> QED
      BY <2>1, <2>2 DEF StreamInv
<1>2. CASE \E on \in BOOLEAN : Configure(on)
  <2>1. PICK on \in BOOLEAN : Configure(on)
      BY <1>2
  <2>2. UNCHANGED <<stream, lastOpts, rest, out, sent, torn>>
      BY <2>1 DEF Configure
  <2>3. indent' \in BOOLEAN
      BY <2>1 DEF Configure, StreamInv
  <2>4. opts' \subseteq Bits
    <3>1. \/ opts' = opts
          \/ opts' = opts \cup {"EscapeHTML"} \/ opts' = opts \ {"EscapeHTML"}
          \/ opts' = opts \cup {"NoEncoderNewline"} \/ opts' = opts \ {"NoEncoderNewline"}
        BY <2>1 DEF Configure, SetEscapeHTML, SetNoEncoderNewline
    <3> QED
        BY <3>1 DEF StreamInv, Bits
  <2> QED
      BY <2>2, <2>3, <2>4 DEF StreamInv
<1>3. CASE UNCHANGED streamVars
    BY <1>3 DEF streamVars, StreamInv
<1> QED
    BY <1>1, <1>2, <1>3

\* A write moves the front of what is left to the writer, or tears the stream.
LEMMA WriteSteps ==
    ASSUME StreamInv, \/ \E n \in 1..Len(rest) : WriteSome(n)
                      \/ \E n \in 0..Len(rest) : WriteFails(n)
    PROVE  StreamInv'
<1>1. ASSUME NEW n \in 1..Len(rest), WriteSome(n)
      PROVE  StreamInv'
  <2>1. n \in 0..Len(rest) /\ out \in Seq(WriterCell) /\ rest \in Seq(WriterCell)
      BY DEF StreamInv
  <2>2. /\ out' = out \o SubSeq(rest, 1, n) /\ rest' = SubSeq(rest, n + 1, Len(rest))
        /\ UNCHANGED <<opts, indent, stream, lastOpts, sent, torn>>
      BY <1>1 DEF WriteSome, AfterWrite, config
  <2>3. out' \in Seq(WriterCell) /\ rest' \in Seq(WriterCell) /\ out' \o rest' = out \o rest
    <3>1. /\ SubSeq(rest, n + 1, Len(rest)) \in Seq(WriterCell)
          /\ out \o SubSeq(rest, 1, n) \in Seq(WriterCell)
          /\ (out \o SubSeq(rest, 1, n)) \o SubSeq(rest, n + 1, Len(rest)) = out \o rest
        BY <2>1, SplitFacts, Zenon
    <3> QED
        BY <2>2, <3>1
  <2> QED
      BY <2>2, <2>3 DEF StreamInv
<1>2. ASSUME NEW n \in 0..Len(rest), WriteFails(n)
      PROVE  StreamInv'
  <2>1. /\ out' = out \o SubSeq(rest, 1, n) /\ rest' = <<>> /\ torn' = TRUE
        /\ UNCHANGED <<opts, indent, stream, lastOpts, sent>>
      BY <1>2 DEF WriteFails, config
  <2>2. out' \in Seq(WriterCell)
      BY <2>1, SplitFacts DEF StreamInv
  <2> QED
      BY <2>1, <2>2 DEF StreamInv
<1> QED
    BY <1>1, <1>2

\* Until a write fails the writer has taken exactly the records, and what is left
\* of the last one is still to be written (encoder.go:665-678, json.go:326-356).
THEOREM WholeRecords == StreamSpec => []WriterTakesWholeRecords
<1>1. StreamInit => StreamInv
  <2>1. <<>> \in Seq(WriterCell) /\ <<>> \o <<>> = <<>>
      BY EmptySeq, ConcatEmptySeq
  <2> SUFFICES ASSUME StreamInit PROVE StreamInv
      OBVIOUS
  <2>2. /\ opts \subseteq Bits /\ indent \in BOOLEAN
        /\ stream.made = FALSE
      BY DEF StreamInit
  <2>3. rest = <<>> /\ out = <<>> /\ sent = <<>>
      BY DEF StreamInit
  <2> QED
      BY <2>1, <2>2, <2>3 DEF StreamInv
<1>2. StreamInv /\ [StreamNext]_streamVars => StreamInv'
    BY EncodeStep, OtherSteps, WriteSteps DEF StreamNext
<1>3. StreamInv => WriterTakesWholeRecords
    BY DEF StreamInv, WriterTakesWholeRecords
<1> QED
    BY <1>1, <1>2, <1>3, PTL DEF StreamSpec
==================================================================================
