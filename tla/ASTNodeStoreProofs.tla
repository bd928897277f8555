--------------------------- MODULE ASTNodeStoreProofs ---------------------------
(***************************************************************************)
(* The storage of a container is sound for every text, any members and any  *)
(* number of operations, as long as a node that is edited has no copies:    *)
(* every member pointer is real, slots keep their place and their order, a  *)
(* retained pointer stays a member, an iterator passes each member once,    *)
(* and copies that are only read give the whole text.                       *)
(***************************************************************************)
EXTENDS ASTNodeStore, FiniteSetTheorems, FunctionTheorems, SequenceTheorems, WellFoundedInduction,
        TLAPS

Reading == {"get", "load", "copy", "write"}
\* What the owner of a text does: he edits a node that has no copies, or reads
\* through copies and writes through pointers.
Reads(src) == src.ops \subseteq Reading
Disciplined == \A src \in Sources : "copy" \in src.ops => Reads(src)

NodeRec == [typ : {"absent", None, "array", "object", "error"}, raw : BOOLEAN,
            pos : Nat, arr : Nat, len : Nat]
StoreRec == [n : NodeRec, arrs : Seq(Seq(Nat)), slot : Seq(Member)]

\* The arrays hold slots, each slot once.
ArraysOK(s) ==
    \A b \in 1..Len(s.arrs) :
      /\ \A i \in 1..Len(s.arrs[b]) : s.arrs[b][i] \in 0..Len(s.slot)
      /\ \A i, j \in 1..Len(s.arrs[b]) :
           s.arrs[b][i] = s.arrs[b][j] /\ s.arrs[b][i] # Nil => i = j

\* A cursor stands at a member, or at the end of an empty text.
CursorOK(src, n) ==
    /\ n.raw => n.pos = 0 /\ n.len = 0 /\ n.typ \in {"array", "object"}
    /\ n.pos # 0 => /\ n.typ \in {"array", "object"}
                    /\ n.pos \in 1..Len(src.members) \/ (n.pos = 1 /\ src.members = <<>>)
    /\ n.typ \in {"absent", None} => n.len = 0

\* A node and the memory behind it.
StoreOK(src, s) ==
    /\ s \in StoreRec /\ ArraysOK(s) /\ CursorOK(src, s.n)
    /\ s.n.arr \in 0..Len(s.arrs) /\ s.n.len <= Cap(s)
    /\ \A i \in 1..s.n.len : At(s, i) # Nil

\* The members of the text that a node has not loaded yet.
Unread(src, n) ==
    IF n.raw THEN Len(src.members)
    ELSE IF n.pos = 0 THEN 0 ELSE (Len(src.members) + 1) - n.pos

\* What the one owner of a node finds: nothing behind the end of the list, and room
\* for what is to be loaded.
OwnerOK(src, s) ==
    /\ \A i \in 1..Cap(s) : i > s.n.len => At(s, i) = Nil
    /\ s.n.len <= Len(s.slot) /\ Len(s.slot) + Unread(src, s.n) <= src.room

\* What readers of copies find: whatever an array holds is the text's, at its place,
\* and the cursor stands behind the list.
ReaderOK(src, s) ==
    /\ \A b \in 1..Len(s.arrs) : \A i \in 1..Len(s.arrs[b]) : s.arrs[b][i] # Nil =>
         i <= Len(src.members) /\ s.slot[s.arrs[b][i]].key = src.members[i].key
    /\ IsContainer(s) =>
         /\ src.errAt # 0 => s.n.raw \/ (s.n.pos # 0 /\ s.n.pos <= src.errAt)
         /\ s.n.pos # 0 => s.n.len = s.n.pos - 1
         /\ ~s.n.raw /\ s.n.pos = 0 => s.n.len = Len(src.members)

Good(src, s) ==
    /\ StoreOK(src, s)
    /\ Reads(src) => ReaderOK(src, s)
    /\ ~Reads(src) => OwnerOK(src, s)

\* A step takes nothing from a list nor from an array.  An owner's list gets only
\* new slots, and the keys of slots outside of it stay.
Kept(src, s, t) ==
    /\ Len(s.slot) <= Len(t.slot) /\ Len(s.arrs) <= Len(t.arrs)
    /\ \A b \in 1..Len(s.arrs) :
         /\ Len(t.arrs[b]) = Len(s.arrs[b])
         /\ \A i \in 1..Len(s.arrs[b]) : s.arrs[b][i] # Nil => t.arrs[b][i] = s.arrs[b][i]
    /\ s.n.len <= t.n.len /\ \A i \in 1..s.n.len : At(t, i) = At(s, i)
    /\ t.n.typ \in {s.n.typ, "error"} /\ (s.n.typ = "absent" => t.n.typ = "absent")
    /\ s.n.raw = FALSE => t.n.raw = FALSE
    /\ ~Reads(src) => \A i \in 1..t.n.len : i > s.n.len => At(t, i) > Len(s.slot)
    /\ \A x \in 1..Len(s.slot) :
         t.slot[x].key = s.slot[x].key \/ \E i \in 1..s.n.len : At(s, i) = x

\* The members of a text before the malformed one.
Readable(src) ==
    IF src.errAt = 0 THEN src.members ELSE SubSeq(src.members, 1, src.errAt - 1)

\* What the owner of a node reads: the loaded members, then the rest of the text.
Items(s) == [i \in 1..s.n.len |-> MemberAt(s, i)]
Rest(src, n) == IF n.pos = 0 THEN <<>> ELSE SubSeq(Readable(src), n.pos, Len(Readable(src)))
Shown(src, s) ==
    IF ~IsContainer(s) THEN <<>>
    ELSE IF s.n.raw THEN Readable(src) ELSE Items(s) \o Rest(src, s.n)
\* The malformed member is still ahead.
Awaits(src, s) == src.errAt # 0 /\ (s.n.raw \/ s.n.pos # 0)

\* What makes loading show what was there: a cursor is not behind the malformed member;
\* what lies behind a list is nothing, or, where copies are made, the text's member.
Faithful(src, s) ==
    /\ src.errAt # 0 /\ s.n.pos # 0 => s.n.pos <= src.errAt
    /\ "copy" \notin src.ops => \A i \in 1..Cap(s) : i > s.n.len => At(s, i) = Nil
    /\ "copy" \in src.ops =>
         /\ Reads(src)
         /\ \A b \in 1..Len(s.arrs) : \A i \in 1..Len(s.arrs[b]) : s.arrs[b][i] # Nil =>
              i <= Len(src.members) /\ s.slot[s.arrs[b][i]] = src.members[i]

\* A step shows the same members, or turns a node into an error, as it may when the
\* malformed member is ahead.
ShowsSame(src, s, t) ==
    /\ t.n.typ = s.n.typ /\ Shown(src, t) = Shown(src, s)
    /\ Awaits(src, t) <=> Awaits(src, s)
Fails(src, s, t) == t.n.typ = "error" /\ Awaits(src, s)
Shows(src, s, t) ==
    Faithful(src, s) => Faithful(src, t) /\ (ShowsSame(src, s, t) \/ Fails(src, s, t))

\* Loading changes no slot, and nothing that is read.
Brings(src, s, t) ==
    Good(src, t) /\ Kept(src, s, t) /\ \A x \in 1..Len(s.slot) : t.slot[x] = s.slot[x]
Loads(src, s, t) == Brings(src, s, t) /\ Shows(src, s, t)
-----------------------------------------------------------------------------
(* Numbers, sequences and recursive functions.                              *)

\* A set of natural numbers that is not empty has a least element.
LEMMA LeastNat ==
    ASSUME NEW K, K \subseteq Nat, K # {}
    PROVE  \E m \in K : \A k \in K : m <= k
<1> DEFINE R == OpToRel(<, Nat)
<1>1. IsWellFoundedOn(R, Nat)
    BY NatLessThanWellFounded
<1>2. \A x, y \in Nat : x < y => <<x, y>> \in R
    BY DEF OpToRel
<1> HIDE DEF R
<1>3. PICK x \in K : \A y \in K : ~(<<y, x>> \in R)
    BY <1>1, WFMin
<1>4. ASSUME NEW y \in K PROVE x <= y
  <2>1. x \in Nat /\ y \in Nat
      OBVIOUS
  <2>2. ~(y < x)
      BY <2>1, <1>2, <1>3
  <2> QED
      BY <2>1, <2>2
<1> QED
    BY <1>4

\* What holds at first, and from one place to the next, holds of all places.
LEMMA Places ==
    ASSUME NEW N \in Nat, NEW f, NEW P, f[0] \in P[0],
           \A k \in 1..N : f[k - 1] \in P[k - 1] => f[k] \in P[k]
    PROVE  \A k \in 0..N : f[k] \in P[k]
<1> DEFINE K == {k \in 0..N : f[k] \notin P[k]}
<1>1. SUFFICES ASSUME K # {} PROVE FALSE
    OBVIOUS
<1>2. PICK m \in K : \A k \in K : m <= k
  <2>1. K \subseteq Nat
      OBVIOUS
  <2> HIDE DEF K
  <2> QED
      BY <1>1, <2>1, LeastNat
<1>3. m \in 0..N /\ f[m] \notin P[m] /\ m # 0
    OBVIOUS
<1>4. m \in 1..N /\ m - 1 \in 0..N /\ ~(m <= m - 1)
    BY <1>3
<1>5. f[m - 1] \in P[m - 1]
    BY <1>2, <1>4
<1> QED
    BY <1>3, <1>4, <1>5

\* f is the first N repetitions of a step.
Repeats(f, S, a, step, N) ==
    f \in [0..N -> S] /\ f[0] = a /\ \A k \in 1..N : f[k] = step[f[k - 1]]

\* A step may be repeated: the function of its repetitions exists.
LEMMA Repeated ==
    ASSUME NEW S, NEW a \in S, NEW step \in [S -> S], NEW N \in Nat
    PROVE  \E f : Repeats(f, S, a, step, N)
<1> DEFINE OK(n) == \E f \in [0..n -> S] : f[0] = a /\ \A k \in 1..n : f[k] = step[f[k - 1]]
           K == {n \in Nat : ~OK(n)}
<1>1. SUFFICES ASSUME K # {} PROVE FALSE
    BY DEF Repeats
<1>2. PICK m \in K : \A n \in K : m <= n
  <2>1. K \subseteq Nat
      OBVIOUS
  <2> HIDE DEF K
  <2> QED
      BY <1>1, <2>1, LeastNat
<1>3. m \in Nat /\ ~OK(m)
    OBVIOUS
<1>4. m # 0
  <2> SUFFICES ASSUME m = 0 PROVE FALSE
      OBVIOUS
  <2> DEFINE g == [k \in 0..0 |-> a]
  <2>1. g \in [0..0 -> S] /\ g[0] = a /\ \A k \in 1..0 : g[k] = step[g[k - 1]]
      OBVIOUS
  <2> QED
      BY <1>3, <2>1
<1>5. m - 1 \in Nat /\ ~(m <= m - 1)
    BY <1>3, <1>4
<1>6. OK(m - 1)
    BY <1>2, <1>5
<1>7. PICK f \in [0..(m - 1) -> S] : f[0] = a /\ \A k \in 1..(m - 1) : f[k] = step[f[k - 1]]
    BY <1>6
<1> DEFINE g == [k \in 0..m |-> IF k = m THEN step[f[m - 1]] ELSE f[k]]
<1>8. m - 1 \in 0..(m - 1) /\ f[m - 1] \in S
    BY <1>5
<1>9. g \in [0..m -> S]
  <2>1. \A k \in 0..m : k # m => k \in 0..(m - 1)
      BY <1>3
  <2> QED
      BY <1>8, <2>1
<1>10. g[0] = a
    BY <1>3, <1>4, <1>7
<1>11. ASSUME NEW k \in 1..m PROVE g[k] = step[g[k - 1]]
  <2>1. k - 1 \in 0..m /\ k - 1 # m /\ k \in 0..m /\ g[k - 1] = f[k - 1]
      BY <1>3
  <2>2. CASE k = m
      BY <2>1, <2>2
  <2>3. CASE k # m
    <3>1. k \in 1..(m - 1)
        BY <1>3, <2>3
    <3> QED
        BY <1>7, <2>1, <2>3, <3>1
  <2> QED
      BY <2>2, <2>3
<1> HIDE DEF g
<1>12. OK(m)
    BY <1>9, <1>10, <1>11
<1> QED
    BY <1>3, <1>12 DEF Repeats
-----------------------------------------------------------------------------
(* Appending and loading.                                                   *)

\* What append leaves: one slot more at the end of the list, and every other
\* entry of an array where it was.
Appended(s, m, t) ==
    /\ t \in StoreRec /\ ArraysOK(t) /\ t.slot = Append(s.slot, m)
    /\ t.n.typ = s.n.typ /\ t.n.raw = s.n.raw /\ t.n.pos = s.n.pos
    /\ t.n.len = s.n.len + 1 /\ t.n.arr \in 1..Len(t.arrs) /\ t.n.len <= Cap(t)
    /\ At(t, t.n.len) = Len(t.slot) /\ \A i \in 1..s.n.len : At(t, i) = At(s, i)
    /\ \A i \in 1..Cap(t) : i > t.n.len =>
         At(t, i) = Nil \/ (i <= Cap(s) /\ At(t, i) = At(s, i))
    /\ Len(s.arrs) <= Len(t.arrs)
    /\ \A b \in 1..Len(s.arrs) :
         /\ Len(t.arrs[b]) = Len(s.arrs[b])
         /\ \A i \in 1..Len(s.arrs[b]) : s.arrs[b][i] # Nil => t.arrs[b][i] = s.arrs[b][i]
    /\ \A b \in 1..Len(t.arrs) : \A i \in 1..Len(t.arrs[b]) :
         \/ t.arrs[b][i] = Nil
         \/ t.arrs[b][i] = Len(t.slot) /\ i = t.n.len
         \/ \E c \in 1..Len(s.arrs) :
              i \in 1..Len(s.arrs[c]) /\ t.arrs[b][i] = s.arrs[c][i]

\* Writing one entry of one array.
LEMMA ArrayPut ==
    ASSUME NEW A \in Seq(Seq(Nat)), NEW a \in 1..Len(A), NEW i \in 1..Len(A[a]), NEW id \in Nat,
           NEW B, B = [A EXCEPT ![a][i] = id]
    PROVE  /\ B \in Seq(Seq(Nat)) /\ Len(B) = Len(A)
           /\ \A b \in 1..Len(A) : b # a => B[b] = A[b]
           /\ Len(B[a]) = Len(A[a]) /\ B[a][i] = id
           /\ \A j \in 1..Len(A[a]) : j # i => B[a][j] = A[a][j]
<1> DEFINE r == [A[a] EXCEPT ![i] = id]
<1>1. A[a] \in Seq(Nat)
    OBVIOUS
<1>2. r \in Seq(Nat) /\ Len(r) = Len(A[a]) /\ r[i] = id
      /\ \A j \in 1..Len(A[a]) : j # i => r[j] = A[a][j]
    BY <1>1
<1>3. B = [A EXCEPT ![a] = r]
    OBVIOUS
<1> HIDE DEF r
<1>4. B \in Seq(Seq(Nat)) /\ Len(B) = Len(A) /\ B[a] = r
      /\ \A b \in 1..Len(A) : b # a => B[b] = A[b]
    BY <1>2, <1>3
<1> QED
    BY <1>2, <1>4

\* append in place.
LEMMA AppendInPlace ==
    ASSUME NEW s \in StoreRec, NEW m \in Member, ArraysOK(s), s.n.arr \in 0..Len(s.arrs),
           s.n.len + 1 <= Cap(s), At(s, s.n.len + 1) = Nil
    PROVE  Appended(s, m, AppendSlot(s, m))
<1> DEFINE id == Len(s.slot) + 1
           i == s.n.len + 1
           a == s.n.arr
           A == s.arrs
           B == [A EXCEPT ![a][i] = id]
           n == [s.n EXCEPT !.len = i]
           t == [n |-> n, arrs |-> B, slot |-> Append(s.slot, m)]
<1>1. A \in Seq(Seq(Nat)) /\ s.n \in NodeRec /\ s.slot \in Seq(Member) /\ id \in Nat /\ Len(s.slot) \in Nat
    BY DEF StoreRec
<1>2. i \in Nat /\ s.n.len \in Nat /\ a \in 1..Len(A) /\ i \in 1..Len(A[a]) /\ Cap(s) = Len(A[a]) /\ A[a][i] = Nil
  <2>1. s.n.len \in Nat /\ s.n.arr \in Nat
      BY <1>1 DEF NodeRec
  <2>2. a # 0
      BY <2>1 DEF Cap
  <2>3. a \in 1..Len(A) /\ Cap(s) = Len(A[a]) /\ Len(A[a]) \in Nat
      BY <1>1, <2>2 DEF Cap
  <2> QED
      BY <2>1, <2>3 DEF At
<1>3. t = AppendSlot(s, m)
    BY <1>2 DEF AppendSlot
<1>4. n \in NodeRec /\ n.typ = s.n.typ /\ n.raw = s.n.raw /\ n.pos = s.n.pos /\ n.arr = a /\ n.len = i
    BY <1>1, <1>2 DEF NodeRec
<1>5. /\ B \in Seq(Seq(Nat)) /\ Len(B) = Len(A)
      /\ \A b \in 1..Len(A) : b # a => B[b] = A[b]
      /\ Len(B[a]) = Len(A[a]) /\ B[a][i] = id
      /\ \A j \in 1..Len(A[a]) : j # i => B[a][j] = A[a][j]
  <2> HIDE DEF A, a, i, id
  <2> QED
      BY <1>1, <1>2, ArrayPut
<1>6. t.n = n /\ t.arrs = B /\ t.slot = Append(s.slot, m)
    OBVIOUS
<1>7. t.slot \in Seq(Member) /\ Len(t.slot) = id
    BY <1>1, <1>6
<1>8. t \in StoreRec
    BY <1>4, <1>5, <1>7 DEF StoreRec
<1>9. /\ \A b \in 1..Len(A) : \A j \in 1..Len(A[b]) : A[b][j] \in 0..Len(s.slot)
      /\ \A b \in 1..Len(A) : \A j, k \in 1..Len(A[b]) :
           A[b][j] = A[b][k] /\ A[b][j] # Nil => j = k
    BY DEF ArraysOK
<1>18. /\ \A x \in 0..Len(s.slot) : x # id /\ x \in 0..id
       /\ id \in 0..id
    BY <1>1
<1> HIDE DEF t, B, n, i, a, A, id
<1>10. ArraysOK(t)
  <2> SUFFICES ASSUME NEW b \in 1..Len(A)
               PROVE  /\ \A j \in 1..Len(A[b]) : B[b][j] \in 0..id
                      /\ \A j, k \in 1..Len(A[b]) : B[b][j] = B[b][k] /\ B[b][j] # Nil => j = k
    <3>1. \A b \in 1..Len(A) : Len(B[b]) = Len(A[b])
        BY <1>5
    <3>2. t.arrs = B /\ Len(B) = Len(A) /\ Len(t.slot) = id
        BY <1>5, <1>6, <1>7
    <3> QED
        BY <3>1, <3>2 DEF ArraysOK
  <2>1. CASE b # a
    <3>1. B[b] = A[b]
        BY <2>1, <1>5
    <3> QED
        BY <3>1, <1>9, <1>18
  <2>2. CASE b = a
    <3>1. \A j \in 1..Len(A[b]) : B[b][j] \in 0..id
        BY <2>2, <1>5, <1>9, <1>18
    <3>2. \A j, k \in 1..Len(A[b]) : B[b][j] = B[b][k] /\ B[b][j] # Nil => j = k
      <4>1. \A j \in 1..Len(A[b]) : j # i => B[b][j] = A[b][j] /\ B[b][j] # id
          BY <2>2, <1>5, <1>9, <1>18
      <4>2. B[b][i] = id
          BY <2>2, <1>5
      <4> QED
          BY <4>1, <4>2, <1>9
    <3> QED
        BY <3>1, <3>2
  <2> QED
      BY <2>1, <2>2
<1>11. Cap(t) = Len(B[a]) /\ \A j : At(t, j) = B[a][j]
    BY <1>2, <1>4, <1>6 DEF Cap, At
<1>12. \A j : At(s, j) = A[a][j]
    BY DEF At, a, A
<1>13. t.n.arr \in 1..Len(t.arrs) /\ t.n.len = s.n.len + 1 /\ t.n.len <= Cap(t) /\ At(t, t.n.len) = Len(t.slot)
       /\ \A j \in 1..s.n.len : At(t, j) = At(s, j)
  <2>1. \A j \in 1..s.n.len : j \in 1..Len(A[a]) /\ j # i
      BY <1>2 DEF i
  <2>2. t.n.arr = a /\ t.n.len = i /\ i = s.n.len + 1 /\ i <= Len(B[a]) /\ t.arrs = B /\ Len(t.slot) = id
      BY <1>2, <1>4, <1>5, <1>6, <1>7 DEF i
  <2>3. \A j \in 1..s.n.len : At(t, j) = At(s, j)
      BY <2>1, <1>5, <1>11, <1>12
  <2>4. At(t, i) = id
      BY <1>5, <1>11
  <2> QED
      BY <2>2, <2>3, <2>4, <1>2, <1>5, <1>11
<1>14. \A j \in 1..Cap(t) : j > t.n.len =>
         At(t, j) = Nil \/ (j <= Cap(s) /\ At(t, j) = At(s, j))
  <2>1. t.n.len = i /\ Cap(t) = Len(A[a]) /\ Cap(s) = Len(A[a])
      BY <1>2, <1>4, <1>5, <1>6, <1>11
  <2>2. Len(A[a]) \in Nat
      BY <1>1, <1>2
  <2> SUFFICES ASSUME NEW j \in 1..Len(A[a]), j > i
               PROVE  j <= Len(A[a]) /\ At(t, j) = At(s, j)
      BY <2>1
  <2>3. j # i
      BY <1>2
  <2> QED
      BY <2>2, <2>3, <1>5, <1>11, <1>12
<1>15. \A b \in 1..Len(A) :
         /\ Len(B[b]) = Len(A[b])
         /\ \A j \in 1..Len(A[b]) : A[b][j] # Nil => B[b][j] = A[b][j]
    BY <1>2, <1>5
<1>16. \A b \in 1..Len(B) : \A j \in 1..Len(B[b]) :
         \/ B[b][j] = Nil
         \/ B[b][j] = Len(t.slot) /\ j = t.n.len
         \/ \E c \in 1..Len(A) : j \in 1..Len(A[c]) /\ B[b][j] = A[c][j]
  <2>1. t.n.len = i
      BY <1>4, <1>6
  <2> SUFFICES ASSUME NEW b \in 1..Len(A), NEW j \in 1..Len(B[b]), ~(b = a /\ j = i)
               PROVE  j \in 1..Len(A[b]) /\ B[b][j] = A[b][j]
      BY <2>1, <1>5, <1>7
  <2> QED
      BY <1>2, <1>5
<1>17. Len(A) <= Len(B)
  <2>1. Len(A) \in Nat
      BY <1>1
  <2> QED
      BY <2>1, <1>5
<1> QED
    BY <1>3, <1>4, <1>6, <1>8, <1>10, <1>13, <1>14, <1>15, <1>16, <1>17 DEF Appended, A

\* append into a new array.
LEMMA AppendGrows ==
    ASSUME NEW s \in StoreRec, NEW m \in Member, ArraysOK(s), s.n.arr \in 0..Len(s.arrs),
           s.n.len = Cap(s), \A i \in 1..s.n.len : At(s, i) # Nil
    PROVE  Appended(s, m, AppendSlot(s, m))
<1> DEFINE id == Len(s.slot) + 1
           l == s.n.len
           i == l + 1
           A == s.arrs
           G == Grow(Cap(s))
           g == [j \in 1..G |-> IF j < i THEN At(s, j) ELSE IF j = i THEN id ELSE Nil]
           B == Append(A, g)
           n == [s.n EXCEPT !.len = i, !.arr = Len(A) + 1]
           t == [n |-> n, arrs |-> B, slot |-> Append(s.slot, m)]
<1>1. A \in Seq(Seq(Nat)) /\ s.n \in NodeRec /\ s.slot \in Seq(Member) /\ id \in Nat /\ Len(s.slot) \in Nat
      /\ Len(A) \in Nat
    BY DEF StoreRec
<1>2. l \in Nat /\ i \in Nat /\ l = Cap(s) /\ G \in Nat /\ i <= G /\ ~(i <= Cap(s))
  <2>1. l \in Nat
      BY <1>1 DEF NodeRec
  <2> QED
      BY <2>1 DEF Grow
<1>3. t = AppendSlot(s, m)
    BY <1>2 DEF AppendSlot
<1>4. n \in NodeRec /\ n.typ = s.n.typ /\ n.raw = s.n.raw /\ n.pos = s.n.pos /\ n.arr = Len(A) + 1 /\ n.len = i
  <2>1. i \in Nat /\ Len(A) + 1 \in Nat
      BY <1>1, <1>2
  <2> HIDE DEF i, A
  <2> QED
      BY <2>1, <1>1 DEF NodeRec
<1>5. l # 0 => s.n.arr \in 1..Len(A) /\ l = Len(A[s.n.arr])
    BY <1>2 DEF Cap
<1>6. /\ \A b \in 1..Len(A) : \A j \in 1..Len(A[b]) : A[b][j] \in 0..Len(s.slot)
      /\ \A b \in 1..Len(A) : \A j, k \in 1..Len(A[b]) :
           A[b][j] = A[b][k] /\ A[b][j] # Nil => j = k
    BY DEF ArraysOK
<1>21. /\ \A x \in 0..Len(s.slot) : x # id /\ x \in 0..id
       /\ id \in 0..id /\ 0..Len(s.slot) \subseteq Nat /\ Nil \in 0..id /\ 1..Len(s.slot) \subseteq 0..Len(s.slot)
    BY <1>1 DEF Nil
<1>7. /\ \A j \in 1..l : /\ At(s, j) \in 1..Len(s.slot)
                         /\ \E c \in 1..Len(A) : j \in 1..Len(A[c]) /\ At(s, j) = A[c][j]
      /\ \A j, k \in 1..l : At(s, j) = At(s, k) => j = k
  <2>1. CASE l = 0
      BY <2>1
  <2>2. CASE l # 0
    <3> DEFINE r == A[s.n.arr]
    <3>1. s.n.arr \in 1..Len(A) /\ l = Len(r)
        BY <2>2, <1>5
    <3>2. \A j : At(s, j) = r[j]
        BY DEF At
    <3>3. \A j \in 1..Len(r) : r[j] # Nil /\ r[j] \in 0..Len(s.slot)
        BY <3>1, <3>2, <1>6
    <3>4. \A x \in 0..Len(s.slot) : x # Nil => x \in 1..Len(s.slot)
        BY <1>1 DEF Nil
    <3>5. \A j, k \in 1..Len(r) : r[j] = r[k] => j = k
        BY <3>1, <3>3, <1>6
    <3>6. \A j \in 1..l : At(s, j) \in 1..Len(s.slot)
        BY <3>1, <3>2, <3>3, <3>4
    <3>7. \A j \in 1..l : j \in 1..Len(A[s.n.arr]) /\ At(s, j) = A[s.n.arr][j]
        BY <3>1, <3>2
    <3>8. \A j, k \in 1..l : At(s, j) = At(s, k) => j = k
        BY <3>1, <3>2, <3>5
    <3> HIDE DEF l, A, r
    <3> QED
        BY <3>1, <3>6, <3>7, <3>8
  <2> QED
      BY <2>1, <2>2
<1> HIDE DEF l, G
<1>8. g \in Seq(Nat) /\ Len(g) = G /\ (\A j \in 1..l : g[j] = At(s, j)) /\ g[i] = id
      /\ \A j \in 1..G : j > i => g[j] = Nil
  <2>1. \A j \in 1..G : (IF j < i THEN At(s, j) ELSE IF j = i THEN id ELSE Nil) \in Nat
    <3>1. \A j \in 1..G : j < i => j \in 1..l
        BY <1>2
    <3>2. \A j \in 1..l : At(s, j) \in Nat
        BY <1>7, <1>21
    <3> QED
        BY <3>1, <3>2, <1>1 DEF Nil
  <2>2. g \in [1..G -> Nat]
      BY <2>1
  <2>3. g \in Seq(Nat) /\ Len(g) = G
      BY <2>2, <1>2
  <2>4. (\A j \in 1..l : g[j] = At(s, j)) /\ g[i] = id /\ \A j \in 1..G : j > i => g[j] = Nil
      BY <1>2
  <2> QED
      BY <2>3, <2>4
<1> HIDE DEF g
<1>9. /\ B \in Seq(Seq(Nat)) /\ Len(B) = Len(A) + 1 /\ B[Len(A) + 1] = g
      /\ \A b \in 1..Len(A) : B[b] = A[b]
    BY <1>1, <1>8
<1>10. t.n = n /\ t.arrs = B /\ t.slot = Append(s.slot, m)
    OBVIOUS
<1>11. t.slot \in Seq(Member) /\ Len(t.slot) = id
    BY <1>1, <1>10
<1>12. t \in StoreRec
    BY <1>4, <1>9, <1>11 DEF StoreRec
<1> HIDE DEF t, B, n, A
<1>13. \A j \in 1..G : j <= l \/ j = i \/ j > i
    BY <1>2
<1> HIDE DEF id
<1>14. /\ \A j \in 1..G : g[j] \in 0..id
       /\ \A j, k \in 1..G : g[j] = g[k] /\ g[j] # Nil => j = k
  <2>1. \A j \in 1..l : g[j] \in 0..Len(s.slot)
      BY <1>7, <1>8, <1>21
  <2>2. \A j \in 1..l : g[j] # id
      BY <2>1, <1>21
  <2>3. \A j \in 1..G : j \in 1..l \/ j = i \/ (j > i)
      BY <1>2, <1>13
  <2>4. \A j \in 1..G : g[j] # Nil => j \in 1..l \/ j = i
      BY <2>3, <1>8
  <2>5. \A j \in 1..G : g[j] \in 0..id
      BY <2>1, <2>3, <1>8, <1>21
  <2>6. \A j, k \in 1..l : g[j] = g[k] => j = k
      BY <1>7, <1>8
  <2> QED
      BY <2>2, <2>4, <2>5, <2>6, <1>8
<1>15. ArraysOK(t)
  <2> SUFFICES ASSUME NEW b \in 1..Len(B)
               PROVE  /\ \A j \in 1..Len(B[b]) : B[b][j] \in 0..id
                      /\ \A j, k \in 1..Len(B[b]) : B[b][j] = B[b][k] /\ B[b][j] # Nil => j = k
    <3>1. t.arrs = B /\ Len(t.slot) = id
        BY <1>10, <1>11
    <3> QED
        BY <3>1 DEF ArraysOK
  <2>1. CASE b = Len(A) + 1
      BY <2>1, <1>8, <1>9, <1>14
  <2>2. CASE b # Len(A) + 1
    <3>1. b \in 1..Len(A) /\ B[b] = A[b]
        BY <2>2, <1>1, <1>9
    <3> QED
        BY <3>1, <1>6, <1>21
  <2> QED
      BY <2>1, <2>2
<1>16. Cap(t) = G /\ \A j : At(t, j) = g[j]
  <2>1. t.n.arr = Len(A) + 1 /\ Len(A) + 1 # 0
      BY <1>1, <1>4, <1>10
  <2> QED
      BY <2>1, <1>8, <1>9, <1>10 DEF Cap, At
<1>17. t.n.arr \in 1..Len(t.arrs) /\ t.n.len = s.n.len + 1 /\ t.n.len <= Cap(t) /\ At(t, t.n.len) = Len(t.slot)
       /\ \A j \in 1..s.n.len : At(t, j) = At(s, j)
  <2>1. t.n.len = i /\ t.n.arr = Len(A) + 1 /\ t.arrs = B /\ Len(B) = Len(A) + 1 /\ Len(t.slot) = id
      BY <1>4, <1>9, <1>10, <1>11
  <2>2. Len(A) + 1 \in 1..(Len(A) + 1) /\ s.n.len = l
      BY <1>1 DEF l
  <2> QED
      BY <2>1, <2>2, <1>2, <1>8, <1>16
<1>18. \A j \in 1..Cap(t) : j > t.n.len => At(t, j) = Nil
  <2>1. t.n.len = i
      BY <1>4, <1>10
  <2> QED
      BY <2>1, <1>8, <1>16
<1>19. \A b \in 1..Len(B) : \A j \in 1..Len(B[b]) :
         \/ B[b][j] = Nil
         \/ B[b][j] = Len(t.slot) /\ j = t.n.len
         \/ \E c \in 1..Len(A) : j \in 1..Len(A[c]) /\ B[b][j] = A[c][j]
  <2>1. t.n.len = i
      BY <1>4, <1>10
  <2> SUFFICES ASSUME NEW b \in 1..Len(B), NEW j \in 1..Len(B[b])
               PROVE  \/ B[b][j] = Nil
                      \/ B[b][j] = id /\ j = i
                      \/ \E c \in 1..Len(A) : j \in 1..Len(A[c]) /\ B[b][j] = A[c][j]
      BY <2>1, <1>11
  <2>2. CASE b = Len(A) + 1
    <3>1. j \in 1..G /\ B[b][j] = g[j]
        BY <2>2, <1>8, <1>9
    <3>2. CASE j <= l
      <4>1. j \in 1..l
          BY <3>1, <3>2, <1>2
      <4> QED
          BY <4>1, <3>1, <1>7, <1>8
    <3> QED
        BY <3>1, <3>2, <1>8, <1>13
  <2>3. CASE b # Len(A) + 1
    <3>1. b \in 1..Len(A) /\ B[b] = A[b]
        BY <2>3, <1>1, <1>9
    <3> QED
        BY <3>1
  <2> QED
      BY <2>2, <2>3
<1>20. Len(A) <= Len(B)
    BY <1>1, <1>9
<1> QED
    BY <1>3, <1>4, <1>9, <1>10, <1>12, <1>15, <1>17, <1>18, <1>19, <1>20 DEF Appended, A

\* append, when the place behind the list is free.
LEMMA Appends ==
    ASSUME NEW src, NEW s, NEW m \in Member, StoreOK(src, s),
           s.n.len + 1 <= Cap(s) => At(s, s.n.len + 1) = Nil
    PROVE  Appended(s, m, AppendSlot(s, m))
<1>1. s \in StoreRec /\ ArraysOK(s) /\ s.n.arr \in 0..Len(s.arrs) /\ s.n.len <= Cap(s)
      /\ \A i \in 1..s.n.len : At(s, i) # Nil
    BY DEF StoreOK
<1>2. s.n.len \in Nat /\ Cap(s) \in Nat
  <2>1. s.n.len \in Nat /\ s.arrs \in Seq(Seq(Nat)) /\ s.n.arr \in Nat
      BY <1>1 DEF StoreRec, NodeRec
  <2>2. s.n.arr # 0 => s.arrs[s.n.arr] \in Seq(Nat)
      BY <1>1, <2>1
  <2> QED
      BY <2>1, <2>2 DEF Cap
<1>3. CASE s.n.len + 1 <= Cap(s)
    BY <1>1, <1>3, AppendInPlace
<1>4. CASE s.n.len = Cap(s)
    BY <1>1, <1>4, AppendGrows
<1> QED
    BY <1>1, <1>2, <1>3, <1>4
-----------------------------------------------------------------------------
(* Loading the next member.                                                 *)

\* The sources of the model.
LEMMA TextOK ==
    ASSUME NEW src \in Sources
    PROVE  /\ src.members \in Seq(Member) /\ Len(src.members) \in Nat
           /\ src.errAt \in 0..Len(src.members) /\ src.kind \in {"array", "object"}
           /\ src.room \in Nat /\ Len(src.members) <= src.room
           /\ \A i \in 1..Len(src.members) : src.members[i] \in Member
<1>1. /\ src.members \in Seq(Member) /\ src.errAt \in 0..Len(src.members)
      /\ src.kind \in {"array", "object"} /\ src.room \in Nat /\ Len(src.members) <= src.room
    BY StoreAssumption
<1> QED
    BY <1>1

\* The fields of a store.
LEMMA Fields ==
    ASSUME NEW s \in StoreRec
    PROVE  /\ s.arrs \in Seq(Seq(Nat)) /\ Len(s.arrs) \in Nat
           /\ s.slot \in Seq(Member) /\ Len(s.slot) \in Nat
           /\ s.n \in NodeRec /\ s.n.raw \in BOOLEAN /\ s.n.pos \in Nat /\ s.n.arr \in Nat
           /\ s.n.len \in Nat /\ s.n.typ \in {"absent", None, "array", "object", "error"}
           /\ s = [n |-> s.n, arrs |-> s.arrs, slot |-> s.slot]
    BY DEF StoreRec, NodeRec

\* Changing one field of a store.
LEMMA WithNode ==
    ASSUME NEW s, s = [n |-> s.n, arrs |-> s.arrs, slot |-> s.slot]
    PROVE  /\ \A x : [s EXCEPT !.n = x] = [n |-> x, arrs |-> s.arrs, slot |-> s.slot]
           /\ \A x : [s EXCEPT !.slot = x] = [n |-> s.n, arrs |-> s.arrs, slot |-> x]
<1> DEFINE a == s.n
           b == s.arrs
           c == s.slot
<1>1. s = [n |-> a, arrs |-> b, slot |-> c]
    OBVIOUS
<1> HIDE DEF a, b, c
<1>2. /\ \A x : [[n |-> a, arrs |-> b, slot |-> c] EXCEPT !.n = x]
                 = [n |-> x, arrs |-> b, slot |-> c]
      /\ \A x : [[n |-> a, arrs |-> b, slot |-> c] EXCEPT !.slot = x]
                 = [n |-> a, arrs |-> b, slot |-> x]
    OBVIOUS
<1>3. /\ \A x : [s EXCEPT !.n = x] = [n |-> x, arrs |-> b, slot |-> c]
      /\ \A x : [s EXCEPT !.slot = x] = [n |-> a, arrs |-> b, slot |-> x]
    BY ONLY <1>1, <1>2
<1> QED
    BY <1>3 DEF a, b, c

\* The record of an opened node.
LEMMA OpenedRecord ==
    ASSUME NEW s \in StoreRec
    PROVE  [s EXCEPT !.n.raw = FALSE, !.n.pos = 1]
             = [n |-> [s.n EXCEPT !.raw = FALSE, !.pos = 1], arrs |-> s.arrs, slot |-> s.slot]
<1> DEFINE t == [s EXCEPT !.n.raw = FALSE]
<1>1. t = [n |-> [s.n EXCEPT !.raw = FALSE], arrs |-> s.arrs, slot |-> s.slot]
  <2>1. s = [n |-> s.n, arrs |-> s.arrs, slot |-> s.slot]
      BY Fields
  <2> QED
      BY <2>1, WithNode
<1>2. t.n = [s.n EXCEPT !.raw = FALSE] /\ t.arrs = s.arrs /\ t.slot = s.slot
  <2> HIDE DEF t
  <2> QED
      BY <1>1
<1>3. [t EXCEPT !.n.pos = 1]
        = [n |-> [t.n EXCEPT !.pos = 1], arrs |-> t.arrs, slot |-> t.slot]
  <2>1. t = [n |-> t.n, arrs |-> t.arrs, slot |-> t.slot]
    <3> HIDE DEF t
    <3> QED
        BY <1>1, <1>2
  <2> HIDE DEF t
  <2> QED
      BY <2>1, WithNode
<1> QED
    BY <1>2, <1>3

\* The record of a node whose text is malformed.
LEMMA FailedRecord ==
    ASSUME NEW s \in StoreRec
    PROVE  Failed(s) = [n |-> [s.n EXCEPT !.typ = "error", !.raw = FALSE, !.pos = 0],
                        arrs |-> s.arrs, slot |-> s.slot]
<1> DEFINE t == [s EXCEPT !.n.typ = "error"]
           u == [t EXCEPT !.n.raw = FALSE]
<1>1. t = [n |-> [s.n EXCEPT !.typ = "error"], arrs |-> s.arrs, slot |-> s.slot]
  <2>1. s = [n |-> s.n, arrs |-> s.arrs, slot |-> s.slot]
      BY Fields
  <2> QED
      BY <2>1, WithNode
<1>2. t.n = [s.n EXCEPT !.typ = "error"] /\ t.arrs = s.arrs /\ t.slot = s.slot
  <2> HIDE DEF t
  <2> QED
      BY <1>1
<1>3. u = [n |-> [t.n EXCEPT !.raw = FALSE], arrs |-> t.arrs, slot |-> t.slot]
  <2>1. t = [n |-> t.n, arrs |-> t.arrs, slot |-> t.slot]
    <3> HIDE DEF t
    <3> QED
        BY <1>1, <1>2
  <2> HIDE DEF t
  <2> QED
      BY <2>1, WithNode
<1>4. u.n = [t.n EXCEPT !.raw = FALSE] /\ u.arrs = t.arrs /\ u.slot = t.slot
  <2> HIDE DEF u, t
  <2> QED
      BY <1>3
<1>5. [u EXCEPT !.n.pos = 0]
        = [n |-> [u.n EXCEPT !.pos = 0], arrs |-> u.arrs, slot |-> u.slot]
  <2>1. u = [n |-> u.n, arrs |-> u.arrs, slot |-> u.slot]
    <3> HIDE DEF u, t
    <3> QED
        BY <1>3, <1>4
  <2> HIDE DEF u
  <2> QED
      BY <2>1, WithNode
<1>6. Failed(s) = [u EXCEPT !.n.pos = 0]
    BY DEF Failed
<1> QED
    BY <1>2, <1>4, <1>5, <1>6

\* The capacity of a list is a number; its entries are those of its array.
LEMMA CapOK ==
    ASSUME NEW s \in StoreRec, s.n.arr \in 0..Len(s.arrs)
    PROVE  /\ Cap(s) \in Nat
           /\ Cap(s) # 0 => s.n.arr \in 1..Len(s.arrs) /\ Cap(s) = Len(s.arrs[s.n.arr])
           /\ s.n.arr # 0 => s.n.arr \in 1..Len(s.arrs) /\ Cap(s) = Len(s.arrs[s.n.arr])
<1>1. s.arrs \in Seq(Seq(Nat)) /\ Len(s.arrs) \in Nat /\ s.n.arr \in Nat
    BY Fields
<1>2. s.n.arr # 0 => s.arrs[s.n.arr] \in Seq(Nat)
    BY <1>1
<1> QED
    BY <1>1, <1>2 DEF Cap

\* An entry of a list is a slot or Nil.
LEMMA EntryNat ==
    ASSUME NEW s \in StoreRec, s.n.arr \in 0..Len(s.arrs), NEW i \in 1..Cap(s)
    PROVE  At(s, i) \in Nat
<1>1. s.n.arr \in 1..Len(s.arrs) /\ i \in 1..Len(s.arrs[s.n.arr])
  <2>1. Cap(s) # 0
      BY CapOK
  <2> QED
      BY <2>1, CapOK
<1>2. s.arrs[s.n.arr] \in Seq(Nat)
    BY <1>1, Fields
<1> QED
    BY <1>1, <1>2 DEF At

\* A step that changes neither the list nor the memory takes nothing.
LEMMA KeptSame ==
    ASSUME NEW src, NEW s \in StoreRec, NEW t, t.arrs = s.arrs, t.slot = s.slot,
           t.n.arr = s.n.arr, t.n.len = s.n.len, t.n.typ \in {s.n.typ, "error"},
           s.n.typ = "absent" => t.n.typ = "absent", s.n.raw = FALSE => t.n.raw = FALSE
    PROVE  Kept(src, s, t)
<1>1. Len(s.arrs) \in Nat /\ Len(s.slot) \in Nat /\ s.n.len \in Nat
    BY Fields
<1>2. \A i : At(t, i) = At(s, i)
    BY DEF At
<1>3. \A i \in 1..t.n.len : ~(i > s.n.len)
    BY <1>1
<1> QED
    BY <1>1, <1>2, <1>3 DEF Kept

\* It keeps a store good when its cursor is right.
LEMMA GoodSame ==
    ASSUME NEW src \in Sources, NEW s, NEW t \in StoreRec, Good(src, s),
           t.arrs = s.arrs, t.slot = s.slot, t.n.arr = s.n.arr, t.n.len = s.n.len,
           CursorOK(src, t.n), Unread(src, t.n) \in Nat, Unread(src, t.n) <= Unread(src, s.n),
           Unread(src, s.n) \in Nat,
           Reads(src) /\ IsContainer(t) =>
             /\ src.errAt # 0 => t.n.raw \/ (t.n.pos # 0 /\ t.n.pos <= src.errAt)
             /\ t.n.pos # 0 => t.n.len = t.n.pos - 1
             /\ ~t.n.raw /\ t.n.pos = 0 => t.n.len = Len(src.members)
    PROVE  Good(src, t)
<1>1. StoreOK(src, s) /\ s \in StoreRec
    BY DEF Good, StoreOK
<1>2. (\A i : At(t, i) = At(s, i)) /\ Cap(t) = Cap(s)
    BY DEF At, Cap
<1>3. StoreOK(src, t)
    BY <1>1, <1>2 DEF StoreOK, ArraysOK
<1>4. Reads(src) => ReaderOK(src, t)
    BY DEF Good, ReaderOK
<1>5. ~Reads(src) => OwnerOK(src, t)
  <2> SUFFICES ASSUME OwnerOK(src, s), ~Reads(src) PROVE OwnerOK(src, t)
      BY DEF Good
  <2>1. Len(s.slot) \in Nat /\ src.room \in Nat
      BY <1>1, Fields, TextOK
  <2>2. Len(t.slot) + Unread(src, t.n) <= src.room
      BY <2>1 DEF OwnerOK
  <2> QED
      BY <1>2, <2>2 DEF OwnerOK
<1> QED
    BY <1>3, <1>4, <1>5 DEF Good

\* The number of members not read is a number.
LEMMA UnreadNat ==
    ASSUME NEW src \in Sources, NEW s, StoreOK(src, s)
    PROVE  Unread(src, s.n) \in Nat
<1>1. s.n.pos \in Nat /\ Len(src.members) \in Nat
    BY Fields, TextOK DEF StoreOK
<1>2. s.n.pos # 0 => s.n.pos <= Len(src.members) + 1
  <2>1. s.n.pos # 0 => s.n.pos \in 1..Len(src.members) \/ s.n.pos = 1
      BY DEF StoreOK, CursorOK
  <2> QED
      BY <1>1, <2>1
<1> QED
    BY <1>1, <1>2 DEF Unread

-----------------------------------------------------------------------------
(* What a node shows.                                                      *)

\* A list holds slots, each once.
LEMMA ListedSlot ==
    ASSUME NEW src, NEW s, StoreOK(src, s)
    PROVE  /\ s.n.len \in Nat
           /\ \A i \in 1..s.n.len : At(s, i) \in 1..Len(s.slot) /\ i \in 1..Cap(s)
           /\ \A i, j \in 1..s.n.len : At(s, i) = At(s, j) => i = j
           /\ s.n.len # 0 => s.n.arr \in 1..Len(s.arrs) /\ Cap(s) = Len(s.arrs[s.n.arr])
<1>1. s \in StoreRec /\ s.n.len \in Nat /\ s.n.len <= Cap(s) /\ Cap(s) \in Nat /\ Len(s.slot) \in Nat
    BY Fields, CapOK DEF StoreOK
<1>2. \A i \in 1..s.n.len : i \in 1..Cap(s)
    BY <1>1
<1>3. s.n.len # 0 => s.n.arr \in 1..Len(s.arrs) /\ Cap(s) = Len(s.arrs[s.n.arr])
    BY <1>1, CapOK DEF StoreOK
<1>4. ASSUME s.n.len # 0
      PROVE  /\ \A i \in 1..s.n.len : At(s, i) \in 1..Len(s.slot)
             /\ \A i, j \in 1..s.n.len : At(s, i) = At(s, j) => i = j
  <2> DEFINE A == s.arrs[s.n.arr]
  <2>1. /\ \A i \in 1..Len(A) : A[i] \in 0..Len(s.slot)
        /\ \A i, j \in 1..Len(A) : A[i] = A[j] /\ A[i] # Nil => i = j
      BY <1>3, <1>4 DEF StoreOK, ArraysOK
  <2>2. \A i : At(s, i) = A[i]
      BY DEF At
  <2>3. \A i \in 1..s.n.len : At(s, i) # Nil
      BY DEF StoreOK
  <2>4. \A x \in 0..Len(s.slot) : x # Nil => x \in 1..Len(s.slot)
      BY <1>1 DEF Nil
  <2>5. Len(A) = Cap(s)
      BY <1>3, <1>4
  <2> HIDE DEF A
  <2> QED
      BY <2>1, <2>2, <2>3, <2>4, <2>5, <1>2
<1>5. \A i \in 1..s.n.len : s.n.len # 0
    BY <1>1
<1> QED
    BY <1>1, <1>2, <1>3, <1>4, <1>5

\* The rest of a sequence from place p.
LEMMA RestOf ==
    ASSUME NEW t \in Seq(Member), NEW p \in 1..(Len(t) + 1)
    PROVE  /\ SubSeq(t, p, Len(t)) \in Seq(Member) /\ Len(SubSeq(t, p, Len(t))) = (Len(t) + 1) - p
           /\ \A i \in 1..((Len(t) + 1) - p) : SubSeq(t, p, Len(t))[i] = t[(p - 1) + i]
<1> DEFINE n == Len(t)
<1>1. n \in Nat /\ p \in Nat /\ p <= n + 1 /\ 1 <= p
    OBVIOUS
<1>2. SubSeq(t, p, n) \in Seq(Member)
  <2>1. \A i \in p..n : i \in 1..Len(t)
      BY <1>1
  <2>2. \A i \in p..n : t[i] \in Member
      BY <2>1
  <2> QED
      BY <1>1, <2>1, SubSeqProperties
<1>3. Len(SubSeq(t, p, n)) = (n + 1) - p
    BY <1>1
<1>4. \A i \in 1..((n + 1) - p) : SubSeq(t, p, n)[i] = t[(p - 1) + i]
    BY <1>1
<1> QED
    BY <1>2, <1>3, <1>4

\* The members before a malformed one.
LEMMA ReadableOf ==
    ASSUME NEW src \in Sources
    PROVE  /\ Readable(src) \in Seq(Member) /\ Len(Readable(src)) \in Nat
           /\ Len(Readable(src)) = (IF src.errAt = 0 THEN Len(src.members) ELSE src.errAt - 1)
           /\ Len(Readable(src)) <= Len(src.members)
           /\ \A i \in 1..Len(Readable(src)) : Readable(src)[i] = src.members[i]
<1> DEFINE r == Readable(src)
           m == src.members
<1>1. m \in Seq(Member) /\ Len(m) \in Nat /\ src.errAt \in 0..Len(m)
    BY TextOK
<1>2. CASE src.errAt = 0
    BY <1>1, <1>2 DEF Readable
<1>3. CASE src.errAt # 0
  <2> DEFINE e == src.errAt - 1
  <2>1. e \in Nat /\ e <= Len(m)
      BY <1>1, <1>3
  <2>2. r = SubSeq(m, 1, e)
      BY <1>3 DEF Readable
  <2>3. src.errAt - 1 = e
      OBVIOUS
  <2> HIDE DEF e, r, m
  <2>4. SubSeq(m, 1, e) \in Seq(Member) /\ Len(SubSeq(m, 1, e)) = e
        /\ \A i \in 1..e : SubSeq(m, 1, e)[i] = m[i]
      BY <1>1, <2>1
  <2>5. r \in Seq(Member) /\ Len(r) = e /\ \A i \in 1..Len(r) : r[i] = m[i]
      BY <2>2, <2>4
  <2>6. Len(r) = (IF src.errAt = 0 THEN Len(m) ELSE src.errAt - 1)
      BY <1>3, <2>3, <2>5
  <2> QED
      BY <2>1, <2>5, <2>6 DEF r, m
<1> QED
    BY <1>2, <1>3

\* The loaded members.
LEMMA ItemsOf ==
    ASSUME NEW src, NEW s, StoreOK(src, s)
    PROVE  /\ s.n.len \in Nat /\ Items(s) \in Seq(Member) /\ Len(Items(s)) = s.n.len
           /\ \A i \in 1..s.n.len : Items(s)[i] = MemberAt(s, i) /\ MemberAt(s, i) \in Member
<1>1. s.n.len \in Nat /\ \A i \in 1..s.n.len : At(s, i) \in 1..Len(s.slot)
    BY ListedSlot
<1>2. s.slot \in Seq(Member)
    BY Fields DEF StoreOK
<1>3. \A i \in 1..s.n.len : MemberAt(s, i) \in Member
    BY <1>1, <1>2 DEF MemberAt
<1> QED
    BY <1>1, <1>3 DEF Items

\* Two nodes with the same list in the same memory.
LEMMA ItemsSame ==
    ASSUME NEW s, NEW t, t.arrs = s.arrs, t.slot = s.slot, t.n.arr = s.n.arr, t.n.len = s.n.len
    PROVE  Items(t) = Items(s) /\ Cap(t) = Cap(s) /\ \A i : At(t, i) = At(s, i)
<1>1. Cap(t) = Cap(s) /\ \A i : At(t, i) = At(s, i)
    BY DEF Cap, At
<1> QED
    BY <1>1 DEF Items, MemberAt

\* To be faithful is a matter of the list, the memory and the cursor.
LEMMA FaithfulSame ==
    ASSUME NEW src, NEW s, NEW t, t.arrs = s.arrs, t.slot = s.slot, t.n.arr = s.n.arr,
           t.n.len = s.n.len, src.errAt # 0 /\ t.n.pos # 0 => t.n.pos <= src.errAt,
           Faithful(src, s)
    PROVE  Faithful(src, t)
<1>1. Cap(t) = Cap(s) /\ \A i : At(t, i) = At(s, i)
    BY ItemsSame
<1> QED
    BY <1>1 DEF Faithful

\* A node that is no container awaits nothing.
LEMMA ErrorAwaits ==
    ASSUME NEW src, NEW s, StoreOK(src, s), ~IsContainer(s)
    PROVE  ~Awaits(src, s) /\ Shown(src, s) = <<>>
    BY Fields DEF StoreOK, CursorOK, IsContainer, Awaits, Shown

\* One step may follow another, or be none.
LEMMA ShowsTwice ==
    ASSUME NEW src, NEW s, NEW t, NEW u, StoreOK(src, t), Shows(src, s, t), Shows(src, t, u)
    PROVE  Shows(src, s, u)
<1> SUFFICES ASSUME Faithful(src, s)
             PROVE  Faithful(src, u) /\ (ShowsSame(src, s, u) \/ Fails(src, s, u))
    BY DEF Shows
<1>1. Faithful(src, t) /\ (ShowsSame(src, s, t) \/ Fails(src, s, t))
    BY DEF Shows
<1>2. Faithful(src, u) /\ (ShowsSame(src, t, u) \/ Fails(src, t, u))
    BY <1>1 DEF Shows
<1>3. CASE ShowsSame(src, s, t)
    BY <1>2, <1>3 DEF ShowsSame, Fails
<1>4. CASE Fails(src, s, t)
  <2>1. ~Awaits(src, t)
      BY <1>4, ErrorAwaits DEF Fails, IsContainer
  <2> QED
      BY <1>2, <1>4, <2>1 DEF ShowsSame, Fails
<1> QED
    BY <1>1, <1>2, <1>3, <1>4

\* No step shows nothing new.
LEMMA ShowsNothing == \A src, s : Shows(src, s, s)
    BY DEF Shows, ShowsSame

\* Opening a raw node.
LEMMA OpenedShows ==
    ASSUME NEW src \in Sources, NEW s, Good(src, s), s.n.raw, NEW t, Good(src, t),
           t.arrs = s.arrs, t.slot = s.slot, t.n.arr = s.n.arr, t.n.len = s.n.len,
           t.n.typ = s.n.typ, t.n.raw = FALSE, t.n.pos = 1
    PROVE  Shows(src, s, t)
<1> SUFFICES ASSUME Faithful(src, s) PROVE Faithful(src, t) /\ ShowsSame(src, s, t)
    BY DEF Shows
<1> DEFINE r == Readable(src)
<1>1. r \in Seq(Member) /\ src.errAt \in Nat
    BY ReadableOf, TextOK
<1>2. Faithful(src, t)
    BY <1>1, FaithfulSame
<1>3. s.n.len = 0 /\ s.n.typ \in {"array", "object"} /\ StoreOK(src, t)
    BY DEF Good, StoreOK, CursorOK
<1>4. Items(t) = <<>>
  <2>1. Items(t) \in Seq(Member) /\ Len(Items(t)) = 0
      BY <1>3, ItemsOf
  <2> QED
      BY <2>1, EmptySeq
<1>5. Shown(src, s) = r
    BY <1>3 DEF Shown, IsContainer
<1>6. Shown(src, t) = Items(t) \o SubSeq(r, 1, Len(r))
    BY <1>3 DEF Shown, IsContainer, Rest
<1> HIDE DEF r
<1>7. SubSeq(r, 1, Len(r)) = r /\ <<>> \o r = r
    BY <1>1, SubSeqFull, ConcatEmptySeq
<1>8. Shown(src, t) = Shown(src, s)
    BY <1>4, <1>5, <1>6, <1>7
<1> QED
    BY <1>2, <1>8 DEF ShowsSame, Awaits

\* Failing at the malformed member.
LEMMA FailedShows ==
    ASSUME NEW src, NEW s, NEW t, t.arrs = s.arrs, t.slot = s.slot, t.n.arr = s.n.arr,
           t.n.len = s.n.len, t.n.typ = "error", t.n.pos = 0,
           s.n.pos # 0, src.errAt = s.n.pos
    PROVE  Shows(src, s, t)
<1>1. Faithful(src, s) => Faithful(src, t)
    BY FaithfulSame
<1> QED
    BY <1>1 DEF Shows, Fails, Awaits

\* Reading the end of an empty text.
LEMMA EmptyShows ==
    ASSUME NEW src \in Sources, NEW s, Good(src, s), s.n.pos # 0, src.members = <<>>, NEW t,
           t.arrs = s.arrs, t.slot = s.slot, t.n.arr = s.n.arr, t.n.len = s.n.len,
           t.n.typ = s.n.typ, t.n.raw = s.n.raw, t.n.pos = 0
    PROVE  Shows(src, s, t)
<1> SUFFICES ASSUME Faithful(src, s) PROVE Faithful(src, t) /\ ShowsSame(src, s, t)
    BY DEF Shows
<1> DEFINE r == Readable(src)
<1>1. /\ r \in Seq(Member) /\ Len(r) = 0 /\ src.errAt = 0
      /\ s.n.typ \in {"array", "object"} /\ s.n.raw = FALSE /\ s.n.pos = 1
  <2>1. Len(src.members) = 0 /\ src.errAt \in 0..Len(src.members) /\ s.n.raw \in BOOLEAN
      BY TextOK, Fields DEF Good, StoreOK
  <2>2. src.errAt = 0
      BY <2>1
  <2> QED
      BY <2>1, <2>2, ReadableOf DEF Good, StoreOK, CursorOK
<1>2. Faithful(src, t)
    BY FaithfulSame
<1>3. SubSeq(r, 1, Len(r)) = <<>>
  <2> HIDE DEF r
  <2> QED
      BY <1>1, SubSeqFull, EmptySeq
<1>4. Items(t) = Items(s)
    BY ItemsSame
<1>5. Shown(src, s) = Items(s) \o <<>> /\ Shown(src, t) = Items(s) \o <<>>
    BY <1>1, <1>3, <1>4 DEF Shown, IsContainer, Rest
<1> QED
    BY <1>1, <1>2, <1>5 DEF ShowsSame, Awaits

\* The rest of a text from its member p is that member, then the rest behind it.
LEMMA RestSplit ==
    ASSUME NEW r \in Seq(Member), NEW p \in 1..Len(r), NEW q, q = 0 \/ q = p + 1,
           q = 0 => p = Len(r), NEW z,
           z = IF q = 0 THEN <<>> ELSE SubSeq(r, q, Len(r))
    PROVE  z \in Seq(Member) /\ SubSeq(r, p, Len(r)) = <<r[p]>> \o z
<1> DEFINE n == Len(r)
<1>1. n \in Nat /\ p \in 1..n /\ n \in p..n /\ p + 1 \in 1..(n + 1)
    OBVIOUS
<1>2. SubSeq(r, p, n) = <<r[p]>> \o SubSeq(r, p + 1, n)
    BY <1>1, SubSeqRecursiveFirst
<1>3. SubSeq(r, p + 1, n) \in Seq(Member)
    BY <1>1, RestOf
<1>4. q = 0 => SubSeq(r, p + 1, n) = <<>>
    BY <1>1, SubSeqEmpty
<1> QED
    BY <1>2, <1>3, <1>4

\* The list got the next member of the text.
LEMMA NextShown ==
    ASSUME NEW src \in Sources, NEW s, NEW t, Good(src, s), Good(src, t),
           IsContainer(s), t.n.typ = s.n.typ, s.n.raw = FALSE, t.n.raw = FALSE,
           s.n.pos \in 1..Len(src.members), s.n.pos # src.errAt,
           src.errAt # 0 => s.n.pos <= src.errAt,
           t.n.pos = 0 \/ t.n.pos = s.n.pos + 1, t.n.pos = 0 => s.n.pos = Len(src.members),
           src.errAt # 0 => t.n.pos # 0,
           t.n.len = s.n.len + 1, \A i \in 1..s.n.len : MemberAt(t, i) = MemberAt(s, i),
           MemberAt(t, t.n.len) = src.members[s.n.pos]
    PROVE  ShowsSame(src, s, t)
<1> DEFINE r == Readable(src)
           p == s.n.pos
           a == Items(s)
           b == Items(t)
           z == Rest(src, t.n)
           l == s.n.len
<1>1. /\ r \in Seq(Member) /\ Len(r) \in Nat /\ src.errAt \in 0..Len(src.members)
      /\ Len(r) = (IF src.errAt = 0 THEN Len(src.members) ELSE src.errAt - 1)
      /\ \A i \in 1..Len(r) : r[i] = src.members[i]
    BY ReadableOf, TextOK
<1>2. Len(src.members) \in Nat /\ p \in Nat /\ 1 <= p /\ p <= Len(src.members)
    BY TextOK
<1>3. p \in 1..Len(r) /\ (t.n.pos = 0 => p = Len(r))
  <2>1. CASE src.errAt = 0
      BY <1>1, <1>2, <2>1
  <2>2. CASE src.errAt # 0
    <3>1. Len(r) = src.errAt - 1 /\ p <= src.errAt /\ p # src.errAt /\ t.n.pos # 0
        BY <1>1, <2>2
    <3> QED
        BY <3>1, <1>1, <1>2
  <2> QED
      BY <2>1, <2>2
<1>4. r[p] = src.members[p] /\ r[p] \in Member
    BY <1>1, <1>3, ElementOfSeq
<1>5. /\ a \in Seq(Member) /\ Len(a) = l /\ l \in Nat /\ b \in Seq(Member) /\ Len(b) = l + 1
      /\ \A i \in 1..l : a[i] = MemberAt(s, i)
      /\ \A i \in 1..(l + 1) : b[i] = MemberAt(t, i)
  <2>1. StoreOK(src, s) /\ StoreOK(src, t)
      BY DEF Good
  <2>2. a \in Seq(Member) /\ Len(a) = l /\ l \in Nat /\ \A i \in 1..l : a[i] = MemberAt(s, i)
      BY <2>1, ItemsOf
  <2>3. b \in Seq(Member) /\ Len(b) = t.n.len /\ \A i \in 1..t.n.len : b[i] = MemberAt(t, i)
      BY <2>1, ItemsOf
  <2> QED
      BY <2>2, <2>3
<1>6. z \in Seq(Member) /\ SubSeq(r, p, Len(r)) = <<r[p]>> \o z
  <2>1. z = IF t.n.pos = 0 THEN <<>> ELSE SubSeq(r, t.n.pos, Len(r))
      BY DEF Rest
  <2> HIDE DEF z, r
  <2> QED
      BY <2>1, <1>1, <1>3, RestSplit
<1>7. Shown(src, s) = a \o SubSeq(r, p, Len(r)) /\ Shown(src, t) = b \o z
  <2>1. IsContainer(t) /\ s.n.pos # 0
      BY <1>2 DEF IsContainer
  <2>2. Rest(src, s.n) = SubSeq(r, p, Len(r))
      BY <2>1 DEF Rest
  <2>3. Shown(src, s) = a \o Rest(src, s.n) /\ Shown(src, t) = b \o z
      BY <2>1 DEF Shown
  <2> QED
      BY <2>2, <2>3
<1> HIDE DEF a, b, r, z
<1>8. b = Append(a, r[p])
  <2> DEFINE c == Append(a, r[p])
  <2>1. /\ c \in Seq(Member) /\ Len(c) = l + 1
        /\ \A i \in 1..l : c[i] = a[i]
        /\ c[l + 1] = r[p]
      BY <1>4, <1>5, AppendProperties
  <2>2. \A i \in 1..(l + 1) : i \in 1..l \/ i = l + 1
      BY <1>5
  <2>3. \A i \in 1..Len(b) : b[i] = c[i]
      BY <2>1, <2>2, <1>4, <1>5
  <2> HIDE DEF c
  <2>4. b = c
      BY <2>1, <2>3, <1>5, SeqEqual
  <2> QED
      BY <2>4 DEF c
<1>9. b = a \o <<r[p]>>
    BY <1>4, <1>5, <1>8, AppendIsConcat
<1>10. (a \o <<r[p]>>) \o z = a \o (<<r[p]>> \o z)
  <2> DEFINE x == <<r[p]>>
  <2>1. x \in Seq(Member)
      BY <1>4
  <2>3. a \in Seq(Member) /\ z \in Seq(Member)
      BY <1>5, <1>6
  <2> HIDE DEF x
  <2>2. (a \o x) \o z = a \o (x \o z)
      BY ONLY <2>1, <2>3, ConcatAssociative
  <2> QED
      BY <2>2 DEF x
<1>11. Shown(src, t) = Shown(src, s)
    BY <1>6, <1>7, <1>9, <1>10
<1> QED
    BY <1>2, <1>11 DEF ShowsSame, Awaits
-----------------------------------------------------------------------------
(* Steps that load follow each other.                                       *)

\* A step that takes nothing may follow another.
LEMMA LoadsTwice ==
    ASSUME NEW src, NEW s, NEW t, NEW u, Good(src, s), Loads(src, s, t), Loads(src, t, u)
    PROVE  Loads(src, s, u)
<1>1. s \in StoreRec /\ t \in StoreRec /\ u \in StoreRec
    BY DEF Loads, Brings, Good, StoreOK
<1>2. /\ Len(s.arrs) \in Nat /\ Len(s.slot) \in Nat /\ s.n.len \in Nat
      /\ Len(t.arrs) \in Nat /\ Len(t.slot) \in Nat /\ t.n.len \in Nat
      /\ Len(u.arrs) \in Nat /\ Len(u.slot) \in Nat /\ u.n.len \in Nat
    BY <1>1, Fields
<1>3. Kept(src, s, t) /\ Kept(src, t, u) /\ Good(src, u)
    BY DEF Loads, Brings
<1>4. Len(s.slot) <= Len(u.slot) /\ Len(s.arrs) <= Len(u.arrs) /\ s.n.len <= u.n.len
  <2>1. Kept(src, s, t)
      BY <1>3
  <2>2. Len(s.slot) <= Len(t.slot) /\ Len(s.arrs) <= Len(t.arrs) /\ s.n.len <= t.n.len
      BY ONLY <2>1 DEF Kept
  <2>3. Kept(src, t, u)
      BY <1>3
  <2>4. Len(t.slot) <= Len(u.slot) /\ Len(t.arrs) <= Len(u.arrs) /\ t.n.len <= u.n.len
      BY ONLY <2>3 DEF Kept
  <2>5. \A a, b, c \in Nat : a <= b /\ b <= c => a <= c
      OBVIOUS
  <2>6. Len(s.slot) <= Len(u.slot)
      BY ONLY <1>2, <2>2, <2>4, <2>5
  <2>7. Len(s.arrs) <= Len(u.arrs)
      BY ONLY <1>2, <2>2, <2>4, <2>5
  <2>8. s.n.len <= u.n.len
      BY ONLY <1>2, <2>2, <2>4, <2>5
  <2> QED
      BY ONLY <2>6, <2>7, <2>8
<1>5. \A x \in 1..Len(s.slot) : x \in 1..Len(t.slot) /\ u.slot[x] = s.slot[x]
  <2>1. /\ \A x \in 1..Len(s.slot) : t.slot[x] = s.slot[x]
        /\ \A x \in 1..Len(t.slot) : u.slot[x] = t.slot[x]
      BY DEF Loads, Brings
  <2>2. Len(s.slot) <= Len(t.slot)
      BY <1>3 DEF Kept
  <2>3. \A x \in 1..Len(s.slot) : x \in 1..Len(t.slot)
      BY <1>2, <2>2
  <2> QED
      BY <2>1, <2>3
<1>6. ASSUME NEW b \in 1..Len(s.arrs)
      PROVE  /\ Len(u.arrs[b]) = Len(s.arrs[b])
             /\ \A i \in 1..Len(s.arrs[b]) : s.arrs[b][i] # Nil => u.arrs[b][i] = s.arrs[b][i]
  <2>1. b \in 1..Len(t.arrs)
      BY <1>2, <1>3 DEF Kept
  <2>2. /\ Len(t.arrs[b]) = Len(s.arrs[b])
        /\ \A i \in 1..Len(s.arrs[b]) : s.arrs[b][i] # Nil => t.arrs[b][i] = s.arrs[b][i]
      BY <1>3 DEF Kept
  <2>3. /\ Len(u.arrs[b]) = Len(t.arrs[b])
        /\ \A i \in 1..Len(t.arrs[b]) : t.arrs[b][i] # Nil => u.arrs[b][i] = t.arrs[b][i]
      BY <2>1, <1>3 DEF Kept
  <2> QED
      BY <2>2, <2>3
<1>7. \A i \in 1..s.n.len : i \in 1..t.n.len /\ At(u, i) = At(s, i)
    BY <1>2, <1>3 DEF Kept
<1>8. /\ u.n.typ \in {s.n.typ, "error"} /\ (s.n.typ = "absent" => u.n.typ = "absent")
      /\ s.n.raw = FALSE => u.n.raw = FALSE
    BY <1>3 DEF Kept
<1>9. ASSUME ~Reads(src), NEW i \in 1..u.n.len, i > s.n.len PROVE At(u, i) > Len(s.slot)
  <2>1. CASE i > t.n.len
    <3>1. At(u, i) > Len(t.slot) /\ i \in 1..Cap(u)
        BY <2>1, <1>9, <1>2, <1>3, <1>1, CapOK DEF Kept, Good, StoreOK
    <3>2. At(u, i) \in Nat
      <4>1. u.n.arr \in 0..Len(u.arrs)
          BY <1>3 DEF Good, StoreOK
      <4> QED
          BY <3>1, <4>1, <1>1, EntryNat
    <3> QED
        BY <3>1, <3>2, <1>2, <1>3 DEF Kept
  <2>2. CASE ~(i > t.n.len)
    <3>1. i \in 1..t.n.len
        BY <2>2, <1>2
    <3>2. At(t, i) > Len(s.slot) /\ At(u, i) = At(t, i)
        BY <3>1, <1>9, <1>3 DEF Kept
    <3> QED
        BY <3>2
  <2> QED
      BY <2>1, <2>2
<1>10. Brings(src, s, u)
    BY <1>3, <1>4, <1>5, <1>6, <1>7, <1>8, <1>9 DEF Brings, Kept
<1>11. Shows(src, s, u)
    BY ShowsTwice DEF Loads, Brings, Good
<1> QED
    BY <1>10, <1>11 DEF Loads

\* ... and one that does nothing is one.
LEMMA LoadsNothing ==
    ASSUME NEW src, NEW s, Good(src, s)
    PROVE  Loads(src, s, s)
<1>1. s \in StoreRec
    BY DEF Good, StoreOK
<1>2. Kept(src, s, s)
    BY <1>1, KeptSame
<1> QED
    BY <1>2, ShowsNothing DEF Loads, Brings

\* Opening a raw node.
LEMMA OpenedLoads ==
    ASSUME NEW src \in Sources, NEW s, Good(src, s)
    PROVE  Loads(src, s, Opened(s)) /\ (s.n.typ = "absent" => Opened(s) = s)
           /\ Opened(s).n.raw = FALSE
<1>1. StoreOK(src, s) /\ s \in StoreRec
    BY DEF Good, StoreOK
<1>2. CASE ~s.n.raw
    BY <1>2, LoadsNothing DEF Opened, StoreOK, CursorOK
<1>3. CASE s.n.raw
  <2> DEFINE n == [s.n EXCEPT !.raw = FALSE, !.pos = 1]
             t == [n |-> n, arrs |-> s.arrs, slot |-> s.slot]
  <2>1. t = Opened(s)
      BY <1>1, <1>3, OpenedRecord, Fields DEF Opened
  <2>2. /\ n \in NodeRec /\ n.raw = FALSE /\ n.pos = 1 /\ n.typ = s.n.typ
        /\ n.arr = s.n.arr /\ n.len = s.n.len
      BY <1>1, Fields DEF NodeRec
  <2>3. s.n.pos = 0 /\ s.n.len = 0 /\ s.n.typ \in {"array", "object"} /\ ~(s.n.typ = "absent")
      BY <1>1, <1>3 DEF StoreOK, CursorOK
  <2>4. t \in StoreRec
      BY <2>2, <1>1 DEF StoreRec
  <2> HIDE DEF n
  <2>5. t.n = n /\ t.arrs = s.arrs /\ t.slot = s.slot
      OBVIOUS
  <2> HIDE DEF t
  <2>6. Kept(src, s, t)
      BY <1>1, <2>2, <2>3, <2>5, KeptSame
  <2>7. src.members \in Seq(Member) /\ Len(src.members) \in Nat /\ src.errAt \in 0..Len(src.members)
      BY TextOK
  <2>8. CursorOK(src, t.n)
    <3>1. 1 \in 1..Len(src.members) \/ src.members = <<>>
        BY <2>7
    <3> QED
        BY <3>1, <2>2, <2>3, <2>5 DEF CursorOK, None
  <2>9. Unread(src, t.n) = Unread(src, s.n) /\ Unread(src, s.n) \in Nat
      BY <1>3, <2>2, <2>5, <2>7 DEF Unread
  <2>10. /\ src.errAt # 0 => 1 <= src.errAt
         /\ t.n.pos # 0 /\ t.n.len = t.n.pos - 1 /\ t.n.pos = 1
      BY <2>2, <2>3, <2>5, <2>7
  <2>11. Unread(src, t.n) <= Unread(src, s.n)
      BY <2>9
  <2>12. Good(src, t)
      BY <1>1, <2>2, <2>4, <2>5, <2>8, <2>9, <2>10, <2>11, GoodSame
  <2>13. Shows(src, s, t)
      BY <1>3, <2>2, <2>5, <2>12, OpenedShows
  <2> QED
      BY <2>1, <2>2, <2>3, <2>5, <2>6, <2>12, <2>13 DEF Loads, Brings
<1> QED
    BY <1>2, <1>3
\* Loading the next member when the text is malformed there.
LEMMA FailedBrings ==
    ASSUME NEW src \in Sources, NEW s, Good(src, s), s.n.pos # 0
    PROVE  Brings(src, s, Failed(s)) /\ Failed(s).n.pos = 0
<1>1. StoreOK(src, s) /\ s \in StoreRec
    BY DEF Good, StoreOK
<1> DEFINE n == [s.n EXCEPT !.typ = "error", !.raw = FALSE, !.pos = 0]
           t == [n |-> n, arrs |-> s.arrs, slot |-> s.slot]
<1>2. t = Failed(s)
    BY <1>1, FailedRecord
<1>3. /\ n \in NodeRec /\ n.raw = FALSE /\ n.pos = 0 /\ n.typ = "error"
      /\ n.arr = s.n.arr /\ n.len = s.n.len
    BY <1>1, Fields DEF NodeRec
<1>4. t \in StoreRec
    BY <1>3, <1>1 DEF StoreRec
<1> HIDE DEF n
<1>5. t.n = n /\ t.arrs = s.arrs /\ t.slot = s.slot
    OBVIOUS
<1> HIDE DEF t
<1>6. s.n.typ # "absent"
    BY <1>1 DEF StoreOK, CursorOK
<1>7. Kept(src, s, t)
    BY <1>1, <1>3, <1>5, <1>6, KeptSame
<1>8. CursorOK(src, t.n) /\ ~IsContainer(t)
    BY <1>3, <1>5 DEF CursorOK, IsContainer, None
<1>9. Unread(src, s.n) \in Nat /\ Unread(src, t.n) = 0
    BY <1>1, <1>3, <1>5, UnreadNat DEF Unread
<1>10. Unread(src, t.n) \in Nat /\ Unread(src, t.n) <= Unread(src, s.n)
    BY <1>9
<1>11. Good(src, t)
    BY <1>3, <1>4, <1>5, <1>8, <1>9, <1>10, GoodSame
<1> QED
    BY <1>2, <1>3, <1>5, <1>7, <1>11 DEF Brings

\* Loading an empty text.
LEMMA EmptyBrings ==
    ASSUME NEW src \in Sources, NEW s, Good(src, s), s.n.pos # 0, src.members = <<>>
    PROVE  Brings(src, s, [s EXCEPT !.n.pos = 0])
<1>1. StoreOK(src, s) /\ s \in StoreRec
    BY DEF Good, StoreOK
<1> DEFINE n == [s.n EXCEPT !.pos = 0]
           t == [n |-> n, arrs |-> s.arrs, slot |-> s.slot]
<1>2. t = [s EXCEPT !.n.pos = 0]
    BY <1>1, Fields, WithNode
<1>3. /\ n \in NodeRec /\ n.raw = s.n.raw /\ n.pos = 0 /\ n.typ = s.n.typ
      /\ n.arr = s.n.arr /\ n.len = s.n.len
    BY <1>1, Fields DEF NodeRec
<1>4. t \in StoreRec
    BY <1>3, <1>1 DEF StoreRec
<1> HIDE DEF n
<1>5. t.n = n /\ t.arrs = s.arrs /\ t.slot = s.slot
    OBVIOUS
<1> HIDE DEF t
<1>6. /\ s.n.typ \in {"array", "object"} /\ s.n.raw = FALSE /\ s.n.pos = 1
      /\ Len(src.members) = 0 /\ src.errAt = 0
  <2>1. Len(src.members) = 0 /\ src.errAt \in 0..Len(src.members) /\ s.n.raw \in BOOLEAN
      BY <1>1, TextOK, Fields
  <2> QED
      BY <1>1, <2>1 DEF StoreOK, CursorOK
<1>7. Kept(src, s, t)
    BY <1>1, <1>3, <1>5, KeptSame
<1>8. CursorOK(src, t.n)
    BY <1>3, <1>5, <1>6 DEF CursorOK, None
<1>9. Unread(src, s.n) \in Nat /\ Unread(src, t.n) = 0
    BY <1>1, <1>3, <1>5, <1>6, UnreadNat DEF Unread
<1>10. Unread(src, t.n) \in Nat /\ Unread(src, t.n) <= Unread(src, s.n)
    BY <1>9
<1>11. Reads(src) => t.n.len = Len(src.members)
    BY <1>3, <1>5, <1>6 DEF Good, ReaderOK, IsContainer
<1>12. Good(src, t)
    BY <1>3, <1>4, <1>5, <1>6, <1>8, <1>9, <1>10, <1>11, GoodSame
<1> QED
    BY <1>2, <1>5, <1>7, <1>12 DEF Brings

\* Where the cursor of a loaded member stands.
LEMMA CursorNext ==
    ASSUME NEW p \in 1..Len(Text), Len(Text) \in Nat, p # ErrAt
    PROVE  /\ Cursor(p) \in {0, p + 1} /\ Cursor(p) \in Nat
           /\ Cursor(p) # 0 => Cursor(p) = p + 1 /\ Cursor(p) \in 1..Len(Text)
           /\ Cursor(p) = 0 => p = Len(Text)
    BY DEF Cursor

\* What the next member is and where the cursor goes.
LEMMA NextMember ==
    ASSUME source \in Sources, NEW s, Good(source, s), s.n.pos # 0, s.n.pos # ErrAt, Text # <<>>
    PROVE  /\ s.n.pos \in 1..Len(Text) /\ Len(Text) \in Nat /\ Text[s.n.pos] \in Member
           /\ s.n.typ \in {"array", "object"} /\ s.n.raw = FALSE
           /\ Reads(source) => s.n.len = s.n.pos - 1 /\ (ErrAt # 0 => s.n.pos <= ErrAt)
           /\ ErrAt \in 0..Len(Text)
<1>1. Len(Text) \in Nat /\ Text \in Seq(Member) /\ ErrAt \in 0..Len(Text)
    BY TextOK DEF Text, ErrAt
<1>2. StoreOK(source, s) /\ s.n.raw \in BOOLEAN
    BY Fields DEF Good, StoreOK
<1>3. s.n.pos \in 1..Len(Text) /\ s.n.typ \in {"array", "object"} /\ s.n.raw = FALSE
  <2>1. s.n.pos \in 1..Len(Text) \/ (s.n.pos = 1 /\ Text = <<>>)
      BY <1>2 DEF StoreOK, CursorOK, Text
  <2> QED
      BY <1>2, <2>1 DEF StoreOK, CursorOK
<1>4. Reads(source) => s.n.len = s.n.pos - 1 /\ (ErrAt # 0 => s.n.pos <= ErrAt)
    BY <1>3 DEF Good, ReaderOK, IsContainer, ErrAt
<1> QED
    BY <1>1, <1>3, <1>4

\* Loading a member that a copy has exposed.
LEMMA ReuseBrings ==
    ASSUME source \in Sources, NEW s, Good(source, s), s.n.pos # 0, s.n.pos # ErrAt, Text # <<>>,
           s.n.len < Cap(s), At(s, s.n.len + 1) # Nil, NEW q, q = Cursor(s.n.pos)
    PROVE  Brings(source, s, [n |-> [s.n EXCEPT !.len = s.n.len + 1, !.pos = q],
                             arrs |-> s.arrs, slot |-> s.slot])
<1>1. StoreOK(source, s) /\ s \in StoreRec
    BY DEF Good, StoreOK
<1> DEFINE n == [s.n EXCEPT !.len = s.n.len + 1, !.pos = q]
           t == [n |-> n, arrs |-> s.arrs, slot |-> s.slot]
           p == s.n.pos
           l == s.n.len
<1>2. /\ p \in 1..Len(Text) /\ Len(Text) \in Nat
      /\ s.n.typ \in {"array", "object"} /\ s.n.raw = FALSE
      /\ Reads(source) => l = p - 1 /\ (ErrAt # 0 => p <= ErrAt)
      /\ ErrAt \in 0..Len(Text) /\ p # ErrAt
    BY NextMember
<1>3. /\ q \in {0, p + 1} /\ q \in Nat
      /\ q # 0 => q = p + 1 /\ q \in 1..Len(Text)
      /\ q = 0 => p = Len(Text)
    BY <1>2, CursorNext
<1>4. l \in Nat /\ Cap(s) \in Nat /\ l + 1 \in 1..Cap(s) /\ l + 1 <= Cap(s)
  <2>1. l \in Nat /\ Cap(s) \in Nat
      BY <1>1, Fields, CapOK DEF StoreOK
  <2> QED
      BY <2>1
<1>5. /\ n \in NodeRec /\ n.raw = FALSE /\ n.pos = q /\ n.typ = s.n.typ
      /\ n.arr = s.n.arr /\ n.len = l + 1
  <2>1. l + 1 \in Nat /\ s.n \in NodeRec
      BY <1>1, <1>4, Fields
  <2> HIDE DEF l, p
  <2> QED
      BY <2>1, <1>2, <1>3 DEF NodeRec, l
<1>6. t \in StoreRec
    BY <1>5, <1>1 DEF StoreRec
<1> HIDE DEF n
<1>7. t.n = n /\ t.arrs = s.arrs /\ t.slot = s.slot
    OBVIOUS
<1> HIDE DEF t
<1>8. (\A i : At(t, i) = At(s, i)) /\ Cap(t) = Cap(s)
    BY <1>5, <1>7 DEF At, Cap
<1>9. Reads(source)
  <2> SUFFICES ASSUME ~Reads(source) PROVE FALSE
      OBVIOUS
  <2>1. \A i \in 1..Cap(s) : i > s.n.len => At(s, i) = Nil
      BY DEF Good, OwnerOK
  <2>2. l + 1 > l
      BY <1>4
  <2> QED
      BY <2>1, <2>2, <1>4
<1>10. CursorOK(source, t.n)
    BY <1>2, <1>3, <1>5, <1>7 DEF CursorOK, None, Text
<1>11. \A i \in 1..t.n.len : At(t, i) # Nil
  <2>1. \A i \in 1..(l + 1) : i \in 1..l \/ i = l + 1
      BY <1>4
  <2> HIDE DEF l
  <2> QED
      BY <2>1, <1>1, <1>5, <1>7, <1>8 DEF StoreOK, l
<1>12. StoreOK(source, t)
  <2>1. ArraysOK(t)
      BY <1>1, <1>7 DEF StoreOK, ArraysOK
  <2>2. t.n.arr \in 0..Len(t.arrs) /\ t.n.len <= Cap(t)
      BY <1>1, <1>4, <1>5, <1>7, <1>8 DEF StoreOK
  <2> QED
      BY <2>1, <2>2, <1>6, <1>10, <1>11 DEF StoreOK
<1>13. ReaderOK(source, t)
  <2>1. /\ ErrAt # 0 => t.n.pos # 0 /\ t.n.pos <= ErrAt
        /\ t.n.pos # 0 => t.n.len = t.n.pos - 1
        /\ t.n.pos = 0 => t.n.len = Len(Text)
      BY <1>2, <1>3, <1>4, <1>5, <1>7, <1>9
  <2>2. \A b \in 1..Len(t.arrs) : \A i \in 1..Len(t.arrs[b]) : t.arrs[b][i] # Nil =>
          i <= Len(source.members) /\ t.slot[t.arrs[b][i]].key = source.members[i].key
      BY <1>7, <1>9 DEF Good, ReaderOK
  <2> QED
      BY <2>1, <2>2, <1>5, <1>7 DEF ReaderOK, ErrAt, Text
<1>14. Kept(source, s, t)
  <2>1. Len(s.slot) \in Nat /\ Len(s.arrs) \in Nat /\ s.n.len <= t.n.len
      BY <1>1, <1>4, <1>5, <1>7, Fields
  <2> QED
      BY <2>1, <1>2, <1>5, <1>7, <1>8, <1>9 DEF Kept
<1> QED
    BY <1>7, <1>9, <1>12, <1>13, <1>14 DEF Brings, Good, n, t
\* A store with its cursor at q.
WithPos(u, q) == [n |-> [u.n EXCEPT !.pos = q], arrs |-> u.arrs, slot |-> u.slot]

\* What is left of the room after one member more.
LEMMA RoomLeft ==
    ASSUME NEW S \in Nat, NEW T \in Nat, NEW R \in Nat, NEW p \in Nat, p <= T, p # 0,
           S + ((T + 1) - p) <= R, NEW q \in Nat, q = 0 \/ q = p + 1
    PROVE  (S + 1) + (IF q = 0 THEN 0 ELSE (T + 1) - q) <= R
    OBVIOUS

\* When m may follow the members of s, its cursor then being q.
MayAppend(src, s, m, q) ==
    /\ s.n.typ \in {"array", "object"} /\ s.n.raw = FALSE
    /\ q # 0 => q \in 1..Len(src.members)
    /\ Reads(src) =>
         /\ s.n.len + 1 <= Len(src.members) /\ m.key = src.members[s.n.len + 1].key
         /\ src.errAt # 0 => q # 0 /\ q <= src.errAt
         /\ q # 0 => s.n.len + 1 = q - 1
         /\ q = 0 => s.n.len + 1 = Len(src.members)
    /\ ~Reads(src) =>
         (Len(s.slot) + 1) + (IF q = 0 THEN 0 ELSE (Len(src.members) + 1) - q) <= src.room

\* Appending to a sequence of members.
LEMMA MemberAppended ==
    ASSUME NEW L \in Seq(Member), NEW m \in Member, NEW B, B = Append(L, m)
    PROVE  /\ Len(B) = Len(L) + 1 /\ B[Len(L) + 1] = m
           /\ \A x \in 1..Len(L) : B[x] = L[x]
    OBVIOUS

\* append of a member keeps a store good, when there is room for it and, for readers,
\* when it is the next one of the text.
LEMMA AppendedGood ==
    ASSUME NEW src \in Sources, NEW s, Good(src, s), NEW m \in Member,
           NEW u, Appended(s, m, u), NEW q \in Nat, NEW t, t = WithPos(u, q),
           MayAppend(src, s, m, q)
    PROVE  Brings(src, s, t) /\ t.n.pos = q /\ t.n.typ = s.n.typ
<1> DEFINE n == [u.n EXCEPT !.pos = q]
           l == s.n.len
           id == Len(s.slot) + 1
<1>17. t = [n |-> n, arrs |-> u.arrs, slot |-> u.slot]
    BY DEF WithPos
<1>1. StoreOK(src, s) /\ s \in StoreRec /\ u \in StoreRec
    BY DEF Good, StoreOK, Appended
<1>2. /\ l \in Nat /\ Len(s.slot) \in Nat /\ Len(s.arrs) \in Nat /\ s.slot \in Seq(Member)
      /\ u.n \in NodeRec /\ u.arrs \in Seq(Seq(Nat)) /\ u.slot \in Seq(Member) /\ Len(u.arrs) \in Nat
    BY <1>1, Fields
<1>3. /\ u.slot = Append(s.slot, m) /\ u.n.typ = s.n.typ /\ u.n.raw = FALSE
      /\ u.n.len = l + 1 /\ u.n.arr \in 1..Len(u.arrs) /\ u.n.len <= Cap(u)
    BY DEF Appended, MayAppend
<1>4. /\ Len(u.slot) = id /\ u.slot[id] = m
      /\ \A x \in 1..Len(s.slot) : u.slot[x] = s.slot[x]
    BY <1>2, <1>3, MemberAppended
<1>5. /\ n \in NodeRec /\ n.typ = s.n.typ /\ n.raw = FALSE /\ n.pos = q /\ n.arr = u.n.arr
      /\ n.len = l + 1
    BY <1>2, <1>3 DEF NodeRec
<1>6. t \in StoreRec
    BY <1>2, <1>5, <1>17 DEF StoreRec
<1>7. t.n = n /\ t.arrs = u.arrs /\ t.slot = u.slot
    BY <1>17
<1>18. /\ s.n.typ \in {"array", "object"} /\ s.n.raw = FALSE
       /\ q # 0 => q \in 1..Len(src.members)
    BY DEF MayAppend
<1> HIDE DEF n
<1>8. (\A i : At(t, i) = At(u, i)) /\ Cap(t) = Cap(u)
    BY <1>5, <1>7 DEF At, Cap
<1>9. CursorOK(src, t.n)
    BY <1>5, <1>7, <1>18 DEF CursorOK, None
<1>10. At(u, l + 1) = id /\ \A i \in 1..l : At(u, i) = At(s, i)
    BY <1>3, <1>4 DEF Appended
<1>11. \A i \in 1..(l + 1) : i \in 1..l \/ i = l + 1
    BY <1>2
<1>12. StoreOK(src, t)
  <2>1. \A i \in 1..t.n.len : At(t, i) # Nil
    <3>1. id # Nil
        BY <1>2 DEF Nil
    <3>2. \A i \in 1..l : At(s, i) # Nil
        BY <1>1 DEF StoreOK
    <3> QED
        BY <3>1, <3>2, <1>5, <1>7, <1>8, <1>10, <1>11
  <2>2. ArraysOK(t)
      BY <1>7 DEF Appended, ArraysOK
  <2>3. t.n.arr \in 0..Len(t.arrs) /\ t.n.len <= Cap(t)
    <3>1. t.n.arr = u.n.arr /\ t.n.len = u.n.len /\ t.arrs = u.arrs
        BY <1>3, <1>5, <1>7
    <3>2. u.n.arr \in 0..Len(u.arrs)
        BY <1>2, <1>3
    <3> QED
        BY <3>1, <3>2, <1>3, <1>8
  <2> QED
      BY <2>1, <2>2, <2>3, <1>6, <1>9 DEF StoreOK
<1>13. ASSUME Reads(src) PROVE ReaderOK(src, t)
  <2>1. /\ src.errAt # 0 => t.n.pos # 0 /\ t.n.pos <= src.errAt
        /\ t.n.pos # 0 => t.n.len = t.n.pos - 1
        /\ t.n.pos = 0 => t.n.len = Len(src.members)
      BY <1>5, <1>7, <1>13 DEF MayAppend
  <2>2. ASSUME NEW b \in 1..Len(t.arrs), NEW i \in 1..Len(t.arrs[b]), t.arrs[b][i] # Nil
        PROVE  i <= Len(src.members) /\ t.slot[t.arrs[b][i]].key = src.members[i].key
    <3>1. CASE t.arrs[b][i] = Len(u.slot) /\ i = u.n.len
        BY <3>1, <1>3, <1>4, <1>7, <1>13 DEF MayAppend
    <3>2. CASE \E c \in 1..Len(s.arrs) : i \in 1..Len(s.arrs[c]) /\ t.arrs[b][i] = s.arrs[c][i]
      <4>1. PICK c \in 1..Len(s.arrs) : i \in 1..Len(s.arrs[c]) /\ t.arrs[b][i] = s.arrs[c][i]
          BY <3>2
      <4>2. s.arrs[c][i] \in 1..Len(s.slot)
        <5>1. s.arrs[c][i] \in 0..Len(s.slot)
            BY <4>1, <1>1 DEF StoreOK, ArraysOK
        <5>2. s.arrs[c][i] # Nil
            BY <4>1, <2>2
        <5>3. \A x \in 0..Len(s.slot) : x # Nil => x \in 1..Len(s.slot)
            BY <1>2 DEF Nil
        <5> QED
            BY <5>1, <5>2, <5>3
      <4>3. i <= Len(src.members) /\ s.slot[s.arrs[c][i]].key = src.members[i].key
          BY <4>1, <2>2, <1>13 DEF Good, ReaderOK
      <4> QED
          BY <4>1, <4>2, <4>3, <1>4, <1>7
    <3>3. \/ u.arrs[b][i] = Nil
          \/ u.arrs[b][i] = Len(u.slot) /\ i = u.n.len
          \/ \E c \in 1..Len(s.arrs) : i \in 1..Len(s.arrs[c]) /\ u.arrs[b][i] = s.arrs[c][i]
        BY <1>7 DEF Appended
    <3> QED
        BY <3>1, <3>2, <3>3, <2>2, <1>7
  <2> QED
      BY <2>1, <2>2, <1>5, <1>7 DEF ReaderOK
<1>14. ASSUME ~Reads(src) PROVE OwnerOK(src, t)
  <2>1. \A i \in 1..Cap(t) : i > t.n.len => At(t, i) = Nil
    <3>1. \A i \in 1..Cap(u) : i > u.n.len =>
            At(u, i) = Nil \/ (i <= Cap(s) /\ At(u, i) = At(s, i))
        BY DEF Appended
    <3>2. \A i \in 1..Cap(s) : i > l => At(s, i) = Nil
        BY <1>14 DEF Good, OwnerOK
    <3>3. Cap(s) \in Nat /\ Cap(u) \in Nat
      <4>1. s.n.arr \in 0..Len(s.arrs) /\ u.n.arr \in 0..Len(u.arrs)
          BY <1>1, <1>2, <1>3 DEF StoreOK
      <4> QED
          BY <4>1, <1>1, CapOK
    <3>4. \A i \in 1..Cap(u) : i > l + 1 => i > l /\ (i <= Cap(s) => i \in 1..Cap(s))
        BY <3>3, <1>2
    <3>5. u.n.len = l + 1 /\ t.n.len = l + 1 /\ Cap(t) = Cap(u)
        BY <1>3, <1>5, <1>7, <1>8
    <3> HIDE DEF l
    <3>6. \A i \in 1..Cap(u) : i > l + 1 => At(u, i) = Nil
        BY <3>1, <3>2, <3>4, <3>5
    <3> QED
        BY <3>5, <3>6, <1>8
  <2>2. t.n.len <= Len(t.slot)
    <3>1. l <= Len(s.slot)
        BY <1>14 DEF Good, OwnerOK
    <3>2. l + 1 <= Len(s.slot) + 1
        BY <3>1, <1>2
    <3>3. t.n.len = l + 1 /\ Len(t.slot) = Len(s.slot) + 1
        BY <1>4, <1>5, <1>7
    <3> QED
        BY <3>2, <3>3
  <2>3. Unread(src, t.n) = IF q = 0 THEN 0 ELSE (Len(src.members) + 1) - q
      BY <1>5, <1>7 DEF Unread
  <2>4. Len(t.slot) + Unread(src, t.n) <= src.room
      BY <2>3, <1>4, <1>7, <1>14 DEF MayAppend
  <2> QED
      BY <2>1, <2>2, <2>4 DEF OwnerOK
<1>15. Kept(src, s, t)
  <2>1. Len(s.slot) <= Len(t.slot) /\ Len(s.arrs) <= Len(t.arrs) /\ s.n.len <= t.n.len
    <3>1. Len(s.slot) <= id /\ l <= l + 1
        BY <1>2
    <3>2. t.n.len = l + 1 /\ Len(t.slot) = id /\ t.arrs = u.arrs
        BY <1>4, <1>5, <1>7
    <3>3. Len(s.arrs) <= Len(u.arrs)
        BY DEF Appended
    <3> QED
        BY <3>1, <3>2, <3>3
  <2>2. \A b \in 1..Len(s.arrs) :
         /\ Len(t.arrs[b]) = Len(s.arrs[b])
         /\ \A i \in 1..Len(s.arrs[b]) : s.arrs[b][i] # Nil => t.arrs[b][i] = s.arrs[b][i]
      BY <1>7 DEF Appended
  <2>3. \A i \in 1..s.n.len : At(t, i) = At(s, i)
      BY <1>8, <1>10
  <2>4. \A i \in 1..t.n.len : i > s.n.len => At(t, i) > Len(s.slot)
    <3>1. \A i \in 1..(l + 1) : i > l => i = l + 1
        BY <1>2
    <3>2. id > Len(s.slot)
        BY <1>2
    <3> QED
        BY <3>1, <3>2, <1>5, <1>7, <1>8, <1>10
  <2>5. \A x \in 1..Len(s.slot) : t.slot[x] = s.slot[x]
      BY <1>4, <1>7
  <2> QED
      BY <2>1, <2>2, <2>3, <2>4, <2>5, <1>5, <1>7 DEF Kept
<1>16. \A x \in 1..Len(s.slot) : t.slot[x] = s.slot[x]
    BY <1>4, <1>7
<1> QED
    BY <1>5, <1>7, <1>12, <1>13, <1>14, <1>15, <1>16 DEF Brings, Good

\* The cursor behind the next member.
LEMMA NextCursor ==
    ASSUME source \in Sources, NEW s, Good(source, s), s.n.pos # 0, s.n.pos # ErrAt, Text # <<>>,
           ErrAt # 0 => s.n.pos <= ErrAt, NEW q, q = Cursor(s.n.pos)
    PROVE  /\ s.n.pos \in 1..Len(Text) /\ IsContainer(s) /\ s.n.raw = FALSE
           /\ q = 0 \/ q = s.n.pos + 1
           /\ q = 0 => s.n.pos = Len(Text)
           /\ ErrAt # 0 => q # 0 /\ q <= ErrAt
<1> DEFINE p == s.n.pos
<1>1. /\ p \in 1..Len(Text) /\ Len(Text) \in Nat /\ ErrAt \in 0..Len(Text)
      /\ s.n.typ \in {"array", "object"} /\ s.n.raw = FALSE
    BY NextMember
<1>2. (q = 0 \/ q = p + 1) /\ (q # 0 => q \in 1..Len(Text)) /\ (q = 0 => p = Len(Text))
    BY <1>1, CursorNext
<1>3. ErrAt # 0 => p <= ErrAt /\ p # ErrAt
    OBVIOUS
<1> HIDE DEF p
<1>4. ErrAt # 0 => q # 0 /\ q <= ErrAt
    BY <1>1, <1>2, <1>3
<1> QED
    BY <1>1, <1>2, <1>4 DEF p, IsContainer

\* Loading a member that a copy has exposed shows it where it was.
LEMMA ReuseShows ==
    ASSUME source \in Sources, NEW s, Good(source, s), s.n.pos # 0, s.n.pos # ErrAt, Text # <<>>,
           s.n.len < Cap(s), At(s, s.n.len + 1) # Nil,
           NEW t, Good(source, t), t.arrs = s.arrs, t.slot = s.slot, t.n.arr = s.n.arr,
           t.n.typ = s.n.typ, t.n.raw = FALSE, t.n.len = s.n.len + 1,
           t.n.pos = Cursor(s.n.pos)
    PROVE  Shows(source, s, t)
<1> SUFFICES ASSUME Faithful(source, s) PROVE Faithful(source, t) /\ ShowsSame(source, s, t)
    BY DEF Shows
<1> DEFINE p == s.n.pos
           l == s.n.len
<1>1. /\ p \in 1..Len(Text) /\ IsContainer(s) /\ s.n.raw = FALSE
      /\ t.n.pos = 0 \/ t.n.pos = p + 1
      /\ t.n.pos = 0 => p = Len(Text)
      /\ ErrAt # 0 => t.n.pos # 0 /\ t.n.pos <= ErrAt
  <2>1. ErrAt # 0 => p <= ErrAt
      BY DEF Faithful, ErrAt
  <2> QED
      BY <2>1, NextCursor
<1>2. l \in Nat /\ Cap(s) \in Nat /\ l + 1 \in 1..Cap(s) /\ l + 1 > l /\ StoreOK(source, s)
  <2>1. l \in Nat /\ Cap(s) \in Nat /\ StoreOK(source, s)
      BY Fields, CapOK DEF Good, StoreOK
  <2> QED
      BY <2>1
<1>3. "copy" \in source.ops /\ Reads(source)
    BY <1>2 DEF Faithful
<1>4. l + 1 = p
  <2>1. l = p - 1 /\ p \in Nat
      BY <1>1, <1>3 DEF Good, ReaderOK
  <2> QED
      BY <2>1
<1>5. (\A i : At(t, i) = At(s, i) /\ MemberAt(t, i) = MemberAt(s, i)) /\ Cap(t) = Cap(s)
    BY DEF At, Cap, MemberAt
<1>6. MemberAt(t, l + 1) = source.members[p]
  <2>1. s.n.arr \in 1..Len(s.arrs) /\ l + 1 \in 1..Len(s.arrs[s.n.arr])
    <3>1. Cap(s) # 0 /\ s \in StoreRec /\ s.n.arr \in 0..Len(s.arrs)
        BY <1>2 DEF StoreOK
    <3>2. s.n.arr \in 1..Len(s.arrs) /\ Cap(s) = Len(s.arrs[s.n.arr])
        BY <3>1, CapOK
    <3> QED
        BY <3>2, <1>2
  <2>2. s.slot[s.arrs[s.n.arr][l + 1]] = source.members[l + 1]
      BY <2>1, <1>3 DEF Faithful, At
  <2> QED
      BY <2>2, <1>4, <1>5 DEF MemberAt, At
<1>7. Faithful(source, t)
  <2>1. source.errAt # 0 /\ t.n.pos # 0 => t.n.pos <= source.errAt
      BY <1>1 DEF ErrAt
  <2> QED
      BY <2>1, <1>3 DEF Faithful
<1>8. ShowsSame(source, s, t)
  <2>1. /\ s.n.pos \in 1..Len(source.members) /\ s.n.pos # source.errAt
        /\ t.n.pos = 0 \/ t.n.pos = s.n.pos + 1
        /\ t.n.pos = 0 => s.n.pos = Len(source.members)
        /\ source.errAt # 0 => t.n.pos # 0 /\ s.n.pos <= source.errAt
      BY <1>1 DEF Text, ErrAt, Faithful
  <2> QED
      BY <2>1, <1>1, <1>5, <1>6, NextShown
<1> QED
    BY <1>7, <1>8

\* Appending the next member shows it where it was.
LEMMA AppendShows ==
    ASSUME source \in Sources, NEW s, Good(source, s), s.n.pos # 0, s.n.pos # ErrAt, Text # <<>>,
           NEW u, Appended(s, Text[s.n.pos], u),
           NEW t, t = WithPos(u, Cursor(s.n.pos)), Good(source, t)
    PROVE  Shows(source, s, t)
<1> SUFFICES ASSUME Faithful(source, s) PROVE Faithful(source, t) /\ ShowsSame(source, s, t)
    BY DEF Shows
<1> DEFINE p == s.n.pos
           l == s.n.len
           q == Cursor(p)
           m == Text[p]
<1>1. /\ p \in 1..Len(Text) /\ IsContainer(s) /\ s.n.raw = FALSE
      /\ q = 0 \/ q = p + 1
      /\ q = 0 => p = Len(Text)
      /\ ErrAt # 0 => q # 0 /\ q <= ErrAt /\ p <= ErrAt
  <2>1. ErrAt # 0 => p <= ErrAt
      BY DEF Faithful, ErrAt
  <2> QED
      BY <2>1, NextCursor
<1>2. /\ StoreOK(source, s) /\ s \in StoreRec /\ u \in StoreRec /\ m \in Member
      /\ s.slot \in Seq(Member) /\ Len(s.slot) \in Nat /\ l \in Nat /\ u.n \in NodeRec
    BY <1>1, Fields, NextMember DEF Good, StoreOK, Appended
<1>3. /\ t.n = [u.n EXCEPT !.pos = q] /\ t.arrs = u.arrs /\ t.slot = u.slot
    BY DEF WithPos
<1>4. /\ t.n.typ = s.n.typ /\ t.n.raw = FALSE /\ t.n.pos = q /\ t.n.len = l + 1
      /\ t.n.arr = u.n.arr /\ u.n.len = l + 1
  <2>1. u.n.typ = s.n.typ /\ u.n.raw = FALSE /\ u.n.len = l + 1
      BY <1>1 DEF Appended
  <2> HIDE DEF q
  <2> QED
      BY <1>2, <1>3, <2>1 DEF NodeRec
<1>5. (\A i : At(t, i) = At(u, i)) /\ Cap(t) = Cap(u)
    BY <1>3, <1>4 DEF At, Cap
<1>6. /\ Len(u.slot) = Len(s.slot) + 1 /\ u.slot[Len(s.slot) + 1] = m
      /\ \A x \in 1..Len(s.slot) : u.slot[x] = s.slot[x]
  <2>1. u.slot = Append(s.slot, m)
      BY DEF Appended
  <2> HIDE DEF m
  <2> QED
      BY <2>1, <1>2, MemberAppended
<1>7. /\ At(u, l + 1) = Len(u.slot) /\ \A i \in 1..l : At(u, i) = At(s, i)
    BY <1>4 DEF Appended
<1>8. MemberAt(t, l + 1) = m /\ \A i \in 1..l : MemberAt(t, i) = MemberAt(s, i)
  <2>1. \A i \in 1..l : At(s, i) \in 1..Len(s.slot)
      BY <1>2, ListedSlot
  <2> HIDE DEF m
  <2> QED
      BY <2>1, <1>3, <1>5, <1>6, <1>7 DEF MemberAt
<1> HIDE DEF q
<1>9. ASSUME "copy" \notin source.ops, NEW i \in 1..Cap(t), i > t.n.len PROVE At(t, i) = Nil
  <2>1. At(u, i) = Nil \/ (i <= Cap(s) /\ At(u, i) = At(s, i))
      BY <1>4, <1>5, <1>9 DEF Appended
  <2>2. i > l /\ (i <= Cap(s) => i \in 1..Cap(s))
    <3>1. Cap(s) \in Nat /\ Cap(t) \in Nat
        BY <1>2, CapOK DEF StoreOK, Good
    <3> QED
        BY <3>1, <1>2, <1>4, <1>9
  <2>3. i <= Cap(s) => At(s, i) = Nil
      BY <2>2, <1>9 DEF Faithful
  <2> QED
      BY <2>1, <2>3, <1>5
<1>10. ASSUME "copy" \in source.ops, NEW b \in 1..Len(t.arrs), NEW i \in 1..Len(t.arrs[b]),
              t.arrs[b][i] # Nil
       PROVE  i <= Len(source.members) /\ t.slot[t.arrs[b][i]] = source.members[i]
  <2>1. CASE t.arrs[b][i] = Len(u.slot) /\ i = u.n.len
    <3>1. l = p - 1 /\ p \in Nat /\ p <= Len(source.members)
      <4>1. Reads(source)
          BY <1>10 DEF Faithful
      <4> QED
          BY <4>1, <1>1 DEF Good, ReaderOK, Text
    <3>2. i = p
        BY <3>1, <2>1, <1>4
    <3> QED
        BY <3>1, <3>2, <2>1, <1>3, <1>6 DEF Text
  <2>2. CASE \E c \in 1..Len(s.arrs) : i \in 1..Len(s.arrs[c]) /\ t.arrs[b][i] = s.arrs[c][i]
    <3>1. PICK c \in 1..Len(s.arrs) : i \in 1..Len(s.arrs[c]) /\ t.arrs[b][i] = s.arrs[c][i]
        BY <2>2
    <3>2. s.arrs[c][i] \in 1..Len(s.slot)
      <4>1. s.arrs[c][i] \in 0..Len(s.slot)
          BY <3>1, <1>2 DEF StoreOK, ArraysOK
      <4>2. s.arrs[c][i] # Nil
          BY <3>1, <1>10
      <4>3. \A x \in 0..Len(s.slot) : x # Nil => x \in 1..Len(s.slot)
          BY <1>2 DEF Nil
      <4> QED
          BY <4>1, <4>2, <4>3
    <3>3. i <= Len(source.members) /\ s.slot[s.arrs[c][i]] = source.members[i]
        BY <3>1, <1>10 DEF Faithful
    <3> QED
        BY <3>1, <3>2, <3>3, <1>3, <1>6
  <2>3. \/ u.arrs[b][i] = Nil
        \/ u.arrs[b][i] = Len(u.slot) /\ i = u.n.len
        \/ \E c \in 1..Len(s.arrs) : i \in 1..Len(s.arrs[c]) /\ u.arrs[b][i] = s.arrs[c][i]
    <3>1. b \in 1..Len(u.arrs) /\ i \in 1..Len(u.arrs[b])
        BY <1>3
    <3>2. Appended(s, Text[s.n.pos], u)
        OBVIOUS
    <3> QED
        BY ONLY <3>1, <3>2 DEF Appended
  <2> QED
      BY <2>1, <2>2, <2>3, <1>3, <1>10
<1>11. Faithful(source, t)
  <2>1. source.errAt # 0 /\ t.n.pos # 0 => t.n.pos <= source.errAt
      BY <1>1, <1>4 DEF ErrAt
  <2>2. "copy" \in source.ops => Reads(source)
      BY DEF Faithful
  <2> QED
      BY <2>1, <2>2, <1>9, <1>10 DEF Faithful
<1>12. ShowsSame(source, s, t)
  <2>1. /\ s.n.pos \in 1..Len(source.members) /\ s.n.pos # source.errAt
        /\ t.n.pos = 0 \/ t.n.pos = s.n.pos + 1
        /\ t.n.pos = 0 => s.n.pos = Len(source.members)
        /\ source.errAt # 0 => t.n.pos # 0 /\ s.n.pos <= source.errAt
      BY <1>1, <1>4 DEF Text, ErrAt
  <2>2. MemberAt(t, t.n.len) = source.members[s.n.pos]
      BY <1>4, <1>8 DEF Text
  <2>3. /\ t.n.len = s.n.len + 1 /\ t.n.typ = s.n.typ /\ t.n.raw = FALSE /\ s.n.raw = FALSE
        /\ \A i \in 1..s.n.len : MemberAt(t, i) = MemberAt(s, i)
      BY <1>1, <1>4, <1>8
  <2> HIDE DEF l, p, m
  <2> QED
      BY <2>1, <2>2, <2>3, <1>1, NextShown
<1> QED
    BY <1>11, <1>12

\* Loading the next member: nothing is taken, and the cursor goes on or the end is
\* reached.
LEMMA LoadNextLoads ==
    ASSUME source \in Sources, NEW s, Good(source, s), s.n.pos # 0
    PROVE  Loads(source, s, LoadNext(s)) /\ LoadNext(s).n.pos \in {0, s.n.pos + 1}
<1> DEFINE p == s.n.pos
           m == Text[p]
           q == Cursor(p)
           u == AppendSlot(s, m)
<1>1. StoreOK(source, s) /\ s \in StoreRec
    BY DEF Good, StoreOK
<1>2. CASE ErrAt = p
  <2>1. LoadNext(s) = Failed(s) /\ Brings(source, s, Failed(s)) /\ Failed(s).n.pos = 0
      BY <1>2, FailedBrings DEF LoadNext
  <2>2. Shows(source, s, Failed(s))
    <3> DEFINE n == [s.n EXCEPT !.typ = "error", !.raw = FALSE, !.pos = 0]
               t == [n |-> n, arrs |-> s.arrs, slot |-> s.slot]
    <3>1. /\ n.pos = 0 /\ n.typ = "error" /\ n.arr = s.n.arr /\ n.len = s.n.len
        BY <1>1, Fields DEF NodeRec
    <3>2. Failed(s) = t /\ t.n = n /\ t.arrs = s.arrs /\ t.slot = s.slot
        BY <1>1, FailedRecord
    <3> HIDE DEF n, t
    <3> QED
        BY <3>1, <3>2, <1>2, FailedShows DEF ErrAt
  <2> QED
      BY <2>1, <2>2 DEF Loads
<1>3. CASE ErrAt # p /\ Text = <<>>
  <2>1. LoadNext(s) = [s EXCEPT !.n.pos = 0]
      BY <1>3 DEF LoadNext
  <2>2. s = [n |-> s.n, arrs |-> s.arrs, slot |-> s.slot] /\ s.n \in NodeRec
      BY <1>1, Fields
  <2>3. [s EXCEPT !.n.pos = 0] = [n |-> [s.n EXCEPT !.pos = 0], arrs |-> s.arrs, slot |-> s.slot]
      BY <2>2, WithNode
  <2>4. LoadNext(s).n.pos = 0
      BY <2>1, <2>2, <2>3 DEF NodeRec
  <2>5. Shows(source, s, LoadNext(s))
    <3> DEFINE n == [s.n EXCEPT !.pos = 0]
               t == [n |-> n, arrs |-> s.arrs, slot |-> s.slot]
    <3>1. /\ n.pos = 0 /\ n.typ = s.n.typ /\ n.raw = s.n.raw /\ n.arr = s.n.arr
          /\ n.len = s.n.len
        BY <2>2 DEF NodeRec
    <3>2. LoadNext(s) = t /\ t.n = n /\ t.arrs = s.arrs /\ t.slot = s.slot
        BY <2>1, <2>3
    <3> HIDE DEF n, t
    <3> QED
        BY <3>1, <3>2, <1>3, EmptyShows DEF Text
  <2> QED
      BY <2>1, <2>4, <2>5, <1>3, EmptyBrings DEF Text, Loads
<1>4. CASE ErrAt # p /\ Text # <<>>
  <2>1. /\ p \in 1..Len(Text) /\ Len(Text) \in Nat /\ m \in Member
        /\ s.n.typ \in {"array", "object"} /\ s.n.raw = FALSE
        /\ Reads(source) => s.n.len = p - 1 /\ (ErrAt # 0 => p <= ErrAt)
        /\ ErrAt \in 0..Len(Text)
      BY <1>4, NextMember
  <2>2. /\ q \in {0, p + 1} /\ q \in Nat
        /\ q # 0 => q = p + 1 /\ q \in 1..Len(Text)
        /\ q = 0 => p = Len(Text)
      BY <2>1, <1>4, CursorNext
  <2>3. LoadNext(s) = [LoadSlot(s, m) EXCEPT !.n.pos = q]
      BY <1>4 DEF LoadNext
  <2>4. CASE s.n.len < Cap(s) /\ At(s, s.n.len + 1) # Nil
    <3> DEFINE v == [n |-> [s.n EXCEPT !.len = s.n.len + 1], arrs |-> s.arrs, slot |-> s.slot]
    <3>1. LoadSlot(s, m) = v
      <4>1. LoadSlot(s, m) = [s EXCEPT !.n.len = @ + 1]
          BY <2>4 DEF LoadSlot
      <4>2. s = [n |-> s.n, arrs |-> s.arrs, slot |-> s.slot]
          BY <1>1, Fields
      <4> QED
          BY <4>1, <4>2, WithNode
    <3>2. v.n = [s.n EXCEPT !.len = s.n.len + 1] /\ v.arrs = s.arrs /\ v.slot = s.slot
          /\ v = [n |-> v.n, arrs |-> v.arrs, slot |-> v.slot]
        OBVIOUS
    <3>3. [v EXCEPT !.n.pos = q] = [n |-> [v.n EXCEPT !.pos = q], arrs |-> v.arrs, slot |-> v.slot]
      <4> HIDE DEF v, q
      <4> QED
          BY <3>2, WithNode
    <3> DEFINE n == [s.n EXCEPT !.len = s.n.len + 1, !.pos = q]
    <3>4. [v.n EXCEPT !.pos = q] = n
        BY <3>2
    <3>5. LoadNext(s) = [n |-> n, arrs |-> s.arrs, slot |-> s.slot]
        BY <2>3, <3>1, <3>2, <3>3, <3>4
    <3> DEFINE t == [n |-> n, arrs |-> s.arrs, slot |-> s.slot]
    <3>6. Brings(source, s, t)
        BY <2>4, <1>4, ReuseBrings
    <3>7. /\ n.pos = q /\ n.typ = s.n.typ /\ n.raw = FALSE /\ n.arr = s.n.arr
          /\ n.len = s.n.len + 1
      <4>1. s.n.len + 1 \in Nat /\ s.n \in NodeRec /\ q \in Nat
          BY <1>1, <2>2, Fields
      <4> HIDE DEF q, p
      <4> QED
          BY <2>1, <4>1 DEF NodeRec
    <3> HIDE DEF n
    <3>8. t.n = n /\ t.arrs = s.arrs /\ t.slot = s.slot
        OBVIOUS
    <3> HIDE DEF t
    <3>9. Shows(source, s, t)
        BY <2>4, <1>4, <3>6, <3>7, <3>8, ReuseShows DEF Brings
    <3> HIDE DEF q
    <3> QED
        BY <3>5, <3>6, <3>7, <3>8, <3>9, <2>2 DEF Loads, t
  <2>5. CASE ~(s.n.len < Cap(s) /\ At(s, s.n.len + 1) # Nil)
    <3>1. LoadSlot(s, m) = u
        BY <2>5 DEF LoadSlot
    <3>2. Appended(s, m, u)
      <4>1. s.n.len + 1 <= Cap(s) => At(s, s.n.len + 1) = Nil
        <5>1. s.n.len \in Nat /\ Cap(s) \in Nat
            BY <1>1, Fields, CapOK DEF StoreOK
        <5> QED
            BY <5>1, <2>5
      <4> HIDE DEF m
      <4> QED
          BY <4>1, <2>1, <1>1, Appends
    <3> HIDE DEF u
    <3> DEFINE t == WithPos(u, q)
    <3>3. LoadNext(s) = t
      <4>1. u = [n |-> u.n, arrs |-> u.arrs, slot |-> u.slot]
          BY <3>2, Fields DEF Appended
      <4> HIDE DEF q, m
      <4> QED
          BY <4>1, <2>3, <3>1, WithNode DEF WithPos
    <3>4. /\ s.n.len \in Nat /\ Len(s.slot) \in Nat /\ source.room \in Nat
        BY <1>1, Fields, TextOK
    <3>5. Reads(source) =>
             /\ s.n.len + 1 = p /\ p <= Len(Text)
             /\ ErrAt # 0 => q # 0 /\ q <= ErrAt
             /\ q # 0 => s.n.len + 1 = q - 1
             /\ q = 0 => s.n.len + 1 = Len(Text)
      <4> SUFFICES ASSUME Reads(source)
                   PROVE  /\ s.n.len + 1 = p /\ p <= Len(Text)
                          /\ ErrAt # 0 => q # 0 /\ q <= ErrAt
                          /\ q # 0 => s.n.len + 1 = q - 1
                          /\ q = 0 => s.n.len + 1 = Len(Text)
          OBVIOUS
      <4> HIDE DEF q, p
      <4>1. p \in Nat /\ p <= Len(Text) /\ s.n.len = p - 1 /\ s.n.len + 1 = p
          BY <2>1, <3>4
      <4>2. ErrAt # 0 => p + 1 <= ErrAt /\ p # Len(Text)
        <5>1. ErrAt # 0 => p <= ErrAt /\ ErrAt # p
            BY <2>1, <1>4 DEF p
        <5>2. ErrAt \in Nat /\ ErrAt <= Len(Text)
            BY <2>1
        <5> QED
            BY <5>1, <5>2, <4>1, <2>1
      <4>3. q = 0 \/ q = p + 1
          BY <2>2
      <4>4. ErrAt # 0 => q # 0 /\ q <= ErrAt
          BY <4>2, <4>3, <2>2
      <4>5. q # 0 => s.n.len + 1 = q - 1
          BY <4>1, <4>3
      <4>6. q = 0 => s.n.len + 1 = Len(Text)
          BY <4>1, <2>2
      <4> QED
          BY <4>1, <4>4, <4>5, <4>6
    <3>6. ~Reads(source) =>
             (Len(s.slot) + 1) + (IF q = 0 THEN 0 ELSE (Len(Text) + 1) - q) <= source.room
      <4> SUFFICES ASSUME OwnerOK(source, s)
                   PROVE  (Len(s.slot) + 1) + (IF q = 0 THEN 0 ELSE (Len(Text) + 1) - q) <= source.room
          BY DEF Good
      <4>1. Len(s.slot) + ((Len(Text) + 1) - p) <= source.room
          BY <2>1 DEF OwnerOK, Unread, Text
      <4>2. p \in Nat /\ p <= Len(Text) /\ p # 0 /\ q \in Nat /\ (q = 0 \/ q = p + 1)
          BY <2>1, <2>2
      <4> HIDE DEF q, p
      <4> QED
          BY <4>1, <4>2, <2>1, <3>4, RoomLeft
    <3>7. Brings(source, s, t) /\ t.n.pos = q
      <4>1. Reads(source) => m.key = source.members[s.n.len + 1].key
          BY <3>5 DEF Text
      <4>2. q # 0 => q \in 1..Len(source.members)
          BY <2>2 DEF Text
      <4>3. Reads(source) =>
             /\ s.n.len + 1 <= Len(source.members) /\ m.key = source.members[s.n.len + 1].key
             /\ source.errAt # 0 => q # 0 /\ q <= source.errAt
             /\ q # 0 => s.n.len + 1 = q - 1
             /\ q = 0 => s.n.len + 1 = Len(source.members)
        <5> HIDE DEF q, m, p
        <5> QED
            BY <4>1, <3>5 DEF Text, ErrAt
      <4>4. ~Reads(source) =>
             (Len(s.slot) + 1) + (IF q = 0 THEN 0 ELSE (Len(source.members) + 1) - q) <= source.room
          BY <3>6 DEF Text
      <4>5. m \in Member /\ q \in Nat /\ s.n.typ \in {"array", "object"} /\ s.n.raw = FALSE
          BY <2>1, <2>2
      <4>6. t = WithPos(u, q)
          OBVIOUS
      <4> HIDE DEF q, m, p, t
      <4>7. MayAppend(source, s, m, q)
          BY <4>2, <4>3, <4>4, <4>5 DEF MayAppend
      <4> QED
          BY <4>5, <4>6, <4>7, <3>2, AppendedGood
    <3>8. Shows(source, s, t)
      <4>1. t = WithPos(u, Cursor(s.n.pos)) /\ Appended(s, Text[s.n.pos], u)
          BY <3>2
      <4> HIDE DEF t
      <4> QED
          BY <4>1, <3>7, <1>4, AppendShows DEF Brings
    <3> HIDE DEF t
    <3> QED
        BY <3>3, <3>7, <3>8, <2>2 DEF Loads
  <2> QED
      BY <2>4, <2>5
<1> QED
    BY <1>2, <1>3, <1>4
-----------------------------------------------------------------------------
(* Loading as far as an operation needs.                                    *)

\* The stores that loading leads to.
Reached(src, s) == {t \in StoreRec : Loads(src, s, t)}

\* One more member leads to another of them.
LEMMA ReachedNext ==
    ASSUME source \in Sources, NEW s, Good(source, s), NEW t \in Reached(source, s), t.n.pos # 0
    PROVE  LoadNext(t) \in Reached(source, s) /\ LoadNext(t).n.pos \in {0, t.n.pos + 1}
<1>1. Good(source, t) /\ Loads(source, s, t)
    BY DEF Reached, Loads, Brings
<1>2. Loads(source, t, LoadNext(t)) /\ LoadNext(t).n.pos \in {0, t.n.pos + 1}
    BY <1>1, LoadNextLoads
<1>3. Loads(source, s, LoadNext(t))
    BY <1>1, <1>2, LoadsTwice
<1>4. LoadNext(t) \in StoreRec
    BY <1>2 DEF Loads, Brings, Good, StoreOK
<1> QED
    BY <1>2, <1>3, <1>4 DEF Reached

\* f loads while the store is in W.
LoadsWhile(src, s, W, f) ==
    /\ f \in [0..(Len(src.members) + 1) -> Reached(src, s)] /\ f[0] = s
    /\ \A k \in 1..(Len(src.members) + 1) :
         f[k] = IF f[k - 1].n.pos # 0 /\ f[k - 1] \in W THEN LoadNext(f[k - 1]) ELSE f[k - 1]

\* There is such a function.
LEMMA LoadingExists ==
    ASSUME source \in Sources, NEW s, Good(source, s), NEW W
    PROVE  \E f : LoadsWhile(source, s, W, f)
<1> DEFINE S == Reached(source, s)
           step == [t \in S |-> IF t.n.pos # 0 /\ t \in W THEN LoadNext(t) ELSE t]
           N == Len(Text) + 1
<1>1. N \in Nat
    BY TextOK DEF Text
<1>2. s \in S
    BY LoadsNothing DEF Reached, Good, StoreOK
<1>3. step \in [S -> S]
  <2>1. \A t \in S : t.n.pos # 0 => LoadNext(t) \in S
      BY ReachedNext
  <2> HIDE DEF S
  <2> QED
      BY <2>1
<1>4. \A t \in S : step[t] = IF t.n.pos # 0 /\ t \in W THEN LoadNext(t) ELSE t
    OBVIOUS
<1> HIDE DEF S, step, N
<1>5. PICK f : Repeats(f, S, s, step, N)
    BY <1>1, <1>2, <1>3, Repeated
<1>8. f \in [0..N -> S] /\ f[0] = s /\ \A k \in 1..N : f[k] = step[f[k - 1]]
    BY <1>5 DEF Repeats
<1>6. \A k \in 1..N : f[k - 1] \in S
  <2>1. \A k \in 1..N : k - 1 \in 0..N
      BY <1>1
  <2> QED
      BY <1>8, <2>1
<1>7. \A k \in 1..N : f[k] = IF f[k - 1].n.pos # 0 /\ f[k - 1] \in W THEN LoadNext(f[k - 1])
                             ELSE f[k - 1]
    BY <1>4, <1>6, <1>8
<1> QED
    BY <1>7, <1>8 DEF S, N, LoadsWhile, Text

\* Whatever decides how long, loading leads to one of the stores.
LEMMA LoadedPath ==
    ASSUME source \in Sources, NEW s, Good(source, s), NEW h, h[0] = s,
           \A k \in 1..(Len(Text) + 1) :
             h[k] = h[k - 1] \/ (h[k - 1].n.pos # 0 /\ h[k] = LoadNext(h[k - 1]))
    PROVE  Loads(source, s, h[Len(Text) + 1])
<1> DEFINE N == Len(Text) + 1
           S == Reached(source, s)
           P == [k \in 0..N |-> S]
<1>1. N \in Nat
    BY TextOK DEF Text
<1>2. s \in S
    BY LoadsNothing DEF Reached, Good, StoreOK
<1>3. \A t \in S : t.n.pos # 0 => LoadNext(t) \in S
    BY ReachedNext
<1> HIDE DEF N, S
<1>4. \A k \in 1..N : k \in 0..N /\ k - 1 \in 0..N
    BY <1>1
<1>5. \A k \in 1..N : h[k] = h[k - 1] \/ (h[k - 1].n.pos # 0 /\ h[k] = LoadNext(h[k - 1]))
    BY DEF N
<1>6. \A k \in 1..N : h[k - 1] \in P[k - 1] => h[k] \in P[k]
    BY <1>3, <1>4, <1>5
<1>7. h[0] \in P[0]
    BY <1>1, <1>2
<1>10. \A k \in 0..N : P[k] = S
    OBVIOUS
<1> HIDE DEF P
<1>8. \A k \in 0..N : h[k] \in P[k]
    BY <1>1, <1>6, <1>7, Places
<1>9. h[N] \in S
    BY <1>1, <1>8, <1>10
<1> QED
    BY <1>9 DEF S, N, Reached

\* Loading without a condition reaches the end of the text.
LEMMA LoadedEnd ==
    ASSUME source \in Sources, NEW s, Good(source, s), NEW h, h[0] = s,
           \A k \in 1..(Len(Text) + 1) :
             h[k] = IF h[k - 1].n.pos # 0 THEN LoadNext(h[k - 1]) ELSE h[k - 1]
    PROVE  h[Len(Text) + 1].n.pos = 0
<1> DEFINE N == Len(Text) + 1
           S == Reached(source, s)
           P == [k \in 0..N |-> {t \in S : t.n.pos = 0 \/ t.n.pos > k}]
<1>1. N \in Nat /\ Len(Text) \in Nat
    BY TextOK DEF Text
<1>2. s \in S /\ s.n.pos \in Nat
    BY LoadsNothing, Fields DEF Reached, Good, StoreOK
<1>3. \A t \in S : t.n.pos \in Nat
    BY Fields DEF Reached
<1>4. \A t \in S : t.n.pos # 0 => LoadNext(t) \in S /\ LoadNext(t).n.pos \in {0, t.n.pos + 1}
    BY ReachedNext
<1>5. \A t \in S : t.n.pos # 0 => t.n.pos \in 1..Len(Text) \/ t.n.pos = 1
    BY DEF Reached, Loads, Brings, Good, StoreOK, CursorOK, Text
<1> HIDE DEF N, S
<1>6. \A k \in 1..N : k \in 0..N /\ k - 1 \in 0..N
    BY <1>1
<1>7. \A k \in 1..N : h[k] = IF h[k - 1].n.pos # 0 THEN LoadNext(h[k - 1]) ELSE h[k - 1]
    BY DEF N
<1>8. \A k \in 0..N : \A t : t \in P[k] <=> t \in S /\ (t.n.pos = 0 \/ t.n.pos > k)
    OBVIOUS
<1> HIDE DEF P
<1>9. ASSUME NEW k \in 1..N, h[k - 1] \in P[k - 1] PROVE h[k] \in P[k]
  <2> DEFINE t == h[k - 1]
  <2>1. t \in S /\ (t.n.pos = 0 \/ t.n.pos > k - 1) /\ t.n.pos \in Nat
      BY <1>3, <1>6, <1>8, <1>9
  <2>2. CASE t.n.pos = 0
      BY <2>1, <2>2, <1>6, <1>7, <1>8
  <2>3. CASE t.n.pos # 0
    <3>1. h[k] = LoadNext(t) /\ h[k] \in S
        BY <2>1, <2>3, <1>4, <1>7
    <3>2. h[k].n.pos \in {0, t.n.pos + 1}
        BY <2>1, <2>3, <3>1, <1>4
    <3>3. t.n.pos + 1 > k
        BY <2>1, <2>3, <1>1
    <3> QED
        BY <3>1, <3>2, <3>3, <1>6, <1>8
  <2> QED
      BY <2>2, <2>3
<1>10. h[0] \in P[0]
  <2>1. s.n.pos = 0 \/ s.n.pos > 0
      BY <1>2
  <2> QED
      BY <2>1, <1>1, <1>2, <1>8
<1>11. \A k \in 0..N : h[k] \in P[k]
    BY <1>1, <1>9, <1>10, Places
<1>12. h[N] \in S /\ (h[N].n.pos = 0 \/ h[N].n.pos > N) /\ h[N].n.pos \in Nat
    BY <1>1, <1>3, <1>8, <1>11
<1>13. ~(h[N].n.pos > N)
  <2>1. h[N].n.pos # 0 => h[N].n.pos \in 1..Len(Text) \/ h[N].n.pos = 1
      BY <1>5, <1>12
  <2> QED
      BY <2>1, <1>1, <1>12 DEF N
<1> QED
    BY <1>12, <1>13 DEF N

\* Loading while the list is shorter than i.
LEMMA LoadToLoads ==
    ASSUME source \in Sources, NEW v, Good(source, v), NEW i
    PROVE  Loads(source, v, LoadedTo(v, i))
<1> DEFINE s == Opened(v)
           N == Len(Text) + 1
           body(h) == [k \in 0..N |->
                         IF k = 0 THEN s
                         ELSE LET t == h[k - 1] IN
                              IF t.n.pos # 0 /\ t.n.len < i THEN LoadNext(t) ELSE t]
           load == CHOOSE h : h = body(h)
<1>1. LoadedTo(v, i) = load[N]
    BY DEF LoadedTo, LoadWhile
<1> HIDE DEF s
<1>6. Loads(source, v, s) /\ Good(source, s)
    BY OpenedLoads DEF s, Loads, Brings
<1>2. N \in Nat
    BY TextOK DEF Text
<1>3. \E f : f = body(f)
  <2> DEFINE W == {t \in StoreRec : t.n.len < i}
  <2>5. PICK f : LoadsWhile(source, s, W, f)
    <3> HIDE DEF W
    <3> QED
        BY <1>6, LoadingExists
  <2>1. /\ f \in [0..N -> Reached(source, s)] /\ f[0] = s
        /\ \A k \in 1..N :
             f[k] = IF f[k - 1].n.pos # 0 /\ f[k - 1] \in W THEN LoadNext(f[k - 1]) ELSE f[k - 1]
      BY <2>5 DEF LoadsWhile, Text
  <2>2. \A k \in 1..N : f[k - 1] \in W <=> f[k - 1].n.len < i
    <3>1. \A k \in 1..N : k - 1 \in 0..N
        BY <1>2
    <3>2. \A k \in 1..N : f[k - 1] \in Reached(source, s)
      <4> HIDE DEF N
      <4> QED
          BY <3>1, <2>1
    <3> QED
        BY <3>2 DEF Reached
  <2>3. \A k \in 0..N : f[k] = body(f)[k]
    <3>1. \A k \in 0..N : k # 0 => k \in 1..N
        BY <1>2
    <3> HIDE DEF N, W
    <3> QED
        BY <3>1, <2>1, <2>2
  <2> HIDE DEF N
  <2>4. f = body(f)
      BY <2>1, <2>3
  <2> QED
      BY <2>4
<1>4. load = body(load)
  <2> HIDE DEF body
  <2> QED
      BY <1>3
<1> HIDE DEF load
<1>5. load[0] = s /\ \A k \in 1..N : load[k] = load[k - 1] \/ (load[k - 1].n.pos # 0 /\ load[k] = LoadNext(load[k - 1]))
  <2>1. 0 \in 0..N /\ \A k \in 1..N : k \in 0..N /\ k # 0
      BY <1>2
  <2> HIDE DEF N
  <2> QED
      BY <2>1, <1>4
<1> HIDE DEF body
<1>7. Loads(source, s, load[N])
    BY <1>5, <1>6, LoadedPath
<1> QED
    BY <1>1, <1>6, <1>7, LoadsTwice

\* Loading while the list has no member at p.
LEMMA ReachLoads ==
    ASSUME source \in Sources, NEW s, Good(source, s), NEW p
    PROVE  Loads(source, s, Reach(s, p))
<1> DEFINE N == Len(Text) + 1
           body(h) == [k \in 0..N |->
                         IF k = 0 THEN s
                         ELSE LET t == h[k - 1] IN
                              IF t.n.pos # 0 /\ t.n.len <= p THEN LoadNext(t) ELSE t]
           load == CHOOSE h : h = body(h)
<1>1. Reach(s, p) = load[N]
    BY DEF Reach, LoadWhile
<1>2. N \in Nat
    BY TextOK DEF Text
<1>3. \E f : f = body(f)
  <2> DEFINE W == {t \in StoreRec : t.n.len <= p}
  <2>5. PICK f : LoadsWhile(source, s, W, f)
    <3> HIDE DEF W
    <3> QED
        BY LoadingExists
  <2>1. /\ f \in [0..N -> Reached(source, s)] /\ f[0] = s
        /\ \A k \in 1..N :
             f[k] = IF f[k - 1].n.pos # 0 /\ f[k - 1] \in W THEN LoadNext(f[k - 1]) ELSE f[k - 1]
      BY <2>5 DEF LoadsWhile, Text
  <2>2. \A k \in 1..N : f[k - 1] \in W <=> f[k - 1].n.len <= p
    <3>1. \A k \in 1..N : k - 1 \in 0..N
        BY <1>2
    <3>2. \A k \in 1..N : f[k - 1] \in Reached(source, s)
      <4> HIDE DEF N
      <4> QED
          BY <3>1, <2>1
    <3> QED
        BY <3>2 DEF Reached
  <2>3. \A k \in 0..N : f[k] = body(f)[k]
    <3>1. \A k \in 0..N : k # 0 => k \in 1..N
        BY <1>2
    <3> HIDE DEF N, W
    <3> QED
        BY <3>1, <2>1, <2>2
  <2> HIDE DEF N
  <2>4. f = body(f)
      BY <2>1, <2>3
  <2> QED
      BY <2>4
<1>4. load = body(load)
  <2> HIDE DEF body
  <2> QED
      BY <1>3
<1> HIDE DEF load
<1>5. load[0] = s /\ \A k \in 1..N : load[k] = load[k - 1] \/ (load[k - 1].n.pos # 0 /\ load[k] = LoadNext(load[k - 1]))
  <2>1. 0 \in 0..N /\ \A k \in 1..N : k \in 0..N /\ k # 0
      BY <1>2
  <2> HIDE DEF N
  <2> QED
      BY <2>1, <1>4
<1> HIDE DEF body
<1> QED
    BY <1>1, <1>5, LoadedPath

\* Loading until a member has the key.
LEMMA LoadKeyLoads ==
    ASSUME source \in Sources, NEW v, Good(source, v), NEW key
    PROVE  Loads(source, v, LoadedKey(v, key))
<1> DEFINE s == Opened(v)
           N == Len(Text) + 1
           body(h) == [k \in 0..N |->
                         IF k = 0 THEN s
                         ELSE LET t == h[k - 1] IN
                              IF t.n.pos # 0 /\ ~Has(t, key) THEN LoadNext(t) ELSE t]
           load == CHOOSE h : h = body(h)
<1>1. LoadedKey(v, key) = load[N]
    BY DEF LoadedKey, LoadWhile
<1> HIDE DEF s
<1>6. Loads(source, v, s) /\ Good(source, s)
    BY OpenedLoads DEF s, Loads, Brings
<1>2. N \in Nat
    BY TextOK DEF Text
<1>3. \E f : f = body(f)
  <2> DEFINE W == {t \in StoreRec : ~Has(t, key)}
  <2>5. PICK f : LoadsWhile(source, s, W, f)
    <3> HIDE DEF W
    <3> QED
        BY <1>6, LoadingExists
  <2>1. /\ f \in [0..N -> Reached(source, s)] /\ f[0] = s
        /\ \A k \in 1..N :
             f[k] = IF f[k - 1].n.pos # 0 /\ f[k - 1] \in W THEN LoadNext(f[k - 1]) ELSE f[k - 1]
      BY <2>5 DEF LoadsWhile, Text
  <2>2. \A k \in 1..N : f[k - 1] \in W <=> ~Has(f[k - 1], key)
    <3>1. \A k \in 1..N : k - 1 \in 0..N
        BY <1>2
    <3>2. \A k \in 1..N : f[k - 1] \in Reached(source, s)
      <4> HIDE DEF N
      <4> QED
          BY <3>1, <2>1
    <3> QED
        BY <3>2 DEF Reached
  <2>3. \A k \in 0..N : f[k] = body(f)[k]
    <3>1. \A k \in 0..N : k # 0 => k \in 1..N
        BY <1>2
    <3> HIDE DEF N, W
    <3> QED
        BY <3>1, <2>1, <2>2
  <2> HIDE DEF N
  <2>4. f = body(f)
      BY <2>1, <2>3
  <2> QED
      BY <2>4
<1>4. load = body(load)
  <2> HIDE DEF body
  <2> QED
      BY <1>3
<1> HIDE DEF load
<1>5. load[0] = s /\ \A k \in 1..N : load[k] = load[k - 1] \/ (load[k - 1].n.pos # 0 /\ load[k] = LoadNext(load[k - 1]))
  <2>1. 0 \in 0..N /\ \A k \in 1..N : k \in 0..N /\ k # 0
      BY <1>2
  <2> HIDE DEF N
  <2> QED
      BY <2>1, <1>4
<1> HIDE DEF body
<1>7. Loads(source, s, load[N])
    BY <1>5, <1>6, LoadedPath
<1> QED
    BY <1>1, <1>6, <1>7, LoadsTwice

\* Loading the whole text.
LEMMA LoadAllLoads ==
    ASSUME source \in Sources, NEW s, Good(source, s)
    PROVE  Loads(source, s, LoadWhile(s, LAMBDA t : TRUE)) /\ LoadWhile(s, LAMBDA t : TRUE).n.pos = 0
<1> DEFINE N == Len(Text) + 1
           body(h) == [k \in 0..N |->
                         IF k = 0 THEN s
                         ELSE LET t == h[k - 1] IN
                              IF t.n.pos # 0 /\ TRUE THEN LoadNext(t) ELSE t]
           load == CHOOSE h : h = body(h)
<1>1. LoadWhile(s, LAMBDA t : TRUE) = load[N]
    BY DEF LoadWhile
<1>2. N \in Nat
    BY TextOK DEF Text
<1>3. \E f : f = body(f)
  <2> DEFINE W == StoreRec
  <2>5. PICK f : LoadsWhile(source, s, W, f)
    <3> HIDE DEF W
    <3> QED
        BY LoadingExists
  <2>1. /\ f \in [0..N -> Reached(source, s)] /\ f[0] = s
        /\ \A k \in 1..N :
             f[k] = IF f[k - 1].n.pos # 0 /\ f[k - 1] \in W THEN LoadNext(f[k - 1]) ELSE f[k - 1]
      BY <2>5 DEF LoadsWhile, Text
  <2>2. \A k \in 1..N : f[k - 1] \in W <=> TRUE
    <3>1. \A k \in 1..N : k - 1 \in 0..N
        BY <1>2
    <3>2. \A k \in 1..N : f[k - 1] \in Reached(source, s)
      <4> HIDE DEF N
      <4> QED
          BY <3>1, <2>1
    <3> QED
        BY <3>2 DEF Reached
  <2>3. \A k \in 0..N : f[k] = body(f)[k]
    <3>1. \A k \in 0..N : k # 0 => k \in 1..N
        BY <1>2
    <3> HIDE DEF N, W
    <3> QED
        BY <3>1, <2>1, <2>2
  <2> HIDE DEF N
  <2>4. f = body(f)
      BY <2>1, <2>3
  <2> QED
      BY <2>4
<1>4. load = body(load)
  <2> HIDE DEF body
  <2> QED
      BY <1>3
<1> HIDE DEF load
<1>5. load[0] = s /\ \A k \in 1..N : load[k] = load[k - 1] \/ (load[k - 1].n.pos # 0 /\ load[k] = LoadNext(load[k - 1]))
  <2>1. 0 \in 0..N /\ \A k \in 1..N : k \in 0..N /\ k # 0
      BY <1>2
  <2> HIDE DEF N
  <2> QED
      BY <2>1, <1>4
<1>6. \A k \in 1..N : load[k] = IF load[k - 1].n.pos # 0 THEN LoadNext(load[k - 1]) ELSE load[k - 1]
  <2>1. \A k \in 1..N : k \in 0..N /\ k # 0
      BY <1>2
  <2> HIDE DEF N
  <2> QED
      BY <2>1, <1>4
<1> HIDE DEF body
<1>7. Loads(source, s, load[N])
    BY <1>5, LoadedPath
<1>8. load[N].n.pos = 0
    BY <1>5, <1>6, LoadedEnd
<1> QED
    BY <1>1, <1>7, <1>8

\* Every member loaded: the cursor is at the end and the node is no longer raw.
LEMMA LoadedAllLoads ==
    ASSUME source \in Sources, NEW s, Good(source, s)
    PROVE  Loads(source, s, LoadedAll(s)) /\ LoadedAll(s).n.pos = 0
           /\ LoadedAll(s).n.raw = FALSE
<1> DEFINE o == Opened(s)
           t == LoadWhile(o, LAMBDA u : TRUE)
<1>1. Loads(source, s, o) /\ Good(source, o)
    BY OpenedLoads DEF Loads, Brings
<1>5. o.n.raw = FALSE
    BY OpenedLoads
<1>2. LoadedAll(s) = t
    BY DEF LoadedAll
<1>3. Loads(source, o, t) /\ t.n.pos = 0
  <2> HIDE DEF o
  <2> QED
      BY <1>1, LoadAllLoads
<1> HIDE DEF o, t
<1>4. Loads(source, s, t)
    BY <1>1, <1>3, LoadsTwice
<1>6. t.n.raw = FALSE
    BY <1>3, <1>5 DEF Loads, Brings, Kept
<1> QED
    BY <1>2, <1>3, <1>4, <1>6
-----------------------------------------------------------------------------
(* The iterator's way through the list.                                     *)

\* What an iterator has passed, each slot once.
SeenOK(L, passed) ==
    /\ passed \in Seq(Nat) /\ \A i \in 1..Len(passed) : passed[i] \in 1..Len(L)
    /\ \A i, j \in 1..Len(passed) : passed[i] = passed[j] => i = j

\* None of it is ahead of it in the list, and unless the list lost a member it is
\* what the list holds up to its position.
Passed(s, pos, passed, lost) ==
    /\ pos \in Nat /\ SeenOK(s.slot, passed)
    /\ \A i \in 1..s.n.len : i > pos => \A j \in 1..Len(passed) : passed[j] # At(s, i)
    /\ ~lost => /\ pos <= s.n.len /\ Len(passed) = pos
                /\ \A i \in 1..pos : passed[i] = At(s, i)

\* It stays so when the list grows.
LEMMA PassedKept ==
    ASSUME NEW src, ~Reads(src), NEW s \in StoreRec, NEW t \in StoreRec, Kept(src, s, t),
           NEW pos, NEW passed, NEW lost, Passed(s, pos, passed, lost)
    PROVE  Passed(t, pos, passed, lost)
<1>1. /\ pos \in Nat /\ passed \in Seq(Nat) /\ Len(passed) \in Nat
      /\ \A i \in 1..Len(passed) : passed[i] \in 1..Len(s.slot)
      /\ \A i, j \in 1..Len(passed) : passed[i] = passed[j] => i = j
    BY DEF Passed, SeenOK
<1>2. /\ s.n.len \in Nat /\ t.n.len \in Nat /\ Len(s.slot) \in Nat /\ Len(t.slot) \in Nat
    BY Fields
<1>3. /\ Len(s.slot) <= Len(t.slot) /\ s.n.len <= t.n.len
      /\ \A i \in 1..s.n.len : At(t, i) = At(s, i)
      /\ \A i \in 1..t.n.len : i > s.n.len => At(t, i) > Len(s.slot)
    BY DEF Kept
<1>4. \A x \in 1..Len(s.slot) : x \in 1..Len(t.slot) /\ ~(x > Len(s.slot))
    BY <1>2, <1>3
<1>5. SeenOK(t.slot, passed)
    BY <1>1, <1>4 DEF SeenOK
<1>6. ASSUME NEW i \in 1..t.n.len, i > pos, NEW j \in 1..Len(passed)
      PROVE  passed[j] # At(t, i)
  <2>1. CASE i > s.n.len
    <3>1. At(t, i) > Len(s.slot) /\ ~(passed[j] > Len(s.slot))
        BY <2>1, <1>1, <1>3, <1>4
    <3> QED
        BY <3>1
  <2>2. CASE ~(i > s.n.len)
    <3>1. i \in 1..s.n.len
        BY <2>2, <1>2
    <3> QED
        BY <3>1, <1>3, <1>6 DEF Passed
  <2> QED
      BY <2>1, <2>2
<1>7. ASSUME ~lost
      PROVE  /\ pos <= t.n.len /\ Len(passed) = pos
             /\ \A i \in 1..pos : passed[i] = At(t, i)
  <2>1. pos <= s.n.len /\ Len(passed) = pos /\ \A i \in 1..pos : passed[i] = At(s, i)
      BY <1>7 DEF Passed
  <2>2. \A i \in 1..pos : i \in 1..s.n.len
      BY <2>1, <1>1, <1>2
  <2> QED
      BY <2>1, <2>2, <1>1, <1>2, <1>3
<1> QED
    BY <1>1, <1>5, <1>6, <1>7 DEF Passed

\* Passing the next member.
LEMMA PassedNext ==
    ASSUME NEW src, NEW s, StoreOK(src, s), NEW pos, NEW passed, NEW lost,
           Passed(s, pos, passed, lost), pos < s.n.len
    PROVE  Passed(s, pos + 1, Append(passed, At(s, pos + 1)), lost)
<1> DEFINE x == At(s, pos + 1)
           P == Append(passed, x)
           l == Len(passed)
<1>1. /\ pos \in Nat /\ passed \in Seq(Nat) /\ l \in Nat
      /\ \A i \in 1..l : passed[i] \in 1..Len(s.slot)
      /\ \A i, j \in 1..l : passed[i] = passed[j] => i = j
    BY DEF Passed, SeenOK
<1>2. s \in StoreRec /\ s.n.len \in Nat /\ s.n.len <= Cap(s) /\ Cap(s) \in Nat /\ Len(s.slot) \in Nat
    BY Fields, CapOK DEF StoreOK
<1>3. pos + 1 \in 1..s.n.len /\ pos + 1 \in Nat /\ s.n.len # 0 /\ Cap(s) # 0
    BY <1>1, <1>2
<1>6. \A i \in 1..s.n.len : /\ At(s, i) \in 1..Len(s.slot)
                            /\ \A j \in 1..s.n.len : At(s, i) = At(s, j) => i = j
    BY ListedSlot
<1>7. x \in 1..Len(s.slot) /\ x \in Nat
  <2>1. x \in 1..Len(s.slot)
      BY <1>3, <1>6
  <2> HIDE DEF x
  <2> QED
      BY <2>1, <1>2
<1>8. \A j \in 1..l : passed[j] # x
  <2>1. pos + 1 > pos
      BY <1>1
  <2> QED
      BY <2>1, <1>3 DEF Passed
<1>9. \A i \in 1..s.n.len : i > pos + 1 => At(s, i) # x /\ i > pos
    BY <1>1, <1>3, <1>6
<1> HIDE DEF x
<1>10. /\ P \in Seq(Nat) /\ Len(P) = l + 1 /\ P[l + 1] = x
       /\ \A j \in 1..l : P[j] = passed[j]
    BY <1>1, <1>7
<1>11. \A j \in 1..(l + 1) : j \in 1..l \/ j = l + 1
    BY <1>1
<1> HIDE DEF P, l
<1>12. SeenOK(s.slot, P)
  <2>1. \A j \in 1..Len(P) : P[j] \in 1..Len(s.slot)
      BY <1>1, <1>7, <1>10, <1>11
  <2>2. \A i, j \in 1..Len(P) : P[i] = P[j] => i = j
      BY <1>1, <1>8, <1>10, <1>11
  <2> QED
      BY <2>1, <2>2, <1>10 DEF SeenOK
<1>13. \A i \in 1..s.n.len : i > pos + 1 => \A j \in 1..Len(P) : P[j] # At(s, i)
  <2>1. \A i \in 1..s.n.len : i > pos => \A j \in 1..l : passed[j] # At(s, i)
      BY DEF Passed, l
  <2> QED
      BY <2>1, <1>9, <1>10, <1>11
<1>14. ASSUME ~lost
       PROVE  /\ pos + 1 <= s.n.len /\ Len(P) = pos + 1
              /\ \A i \in 1..(pos + 1) : P[i] = At(s, i)
  <2>1. l = pos /\ \A i \in 1..pos : passed[i] = At(s, i)
      BY <1>14 DEF Passed, l
  <2>2. x = At(s, pos + 1)
      BY DEF x
  <2> QED
      BY <2>1, <2>2, <1>3, <1>10, <1>11
<1> QED
    BY <1>3, <1>12, <1>13, <1>14 DEF Passed, P, x

\* Where an iterator over the list of s can be.
Walks(src, s, lost) ==
    {c \in [s : StoreRec, pos : Nat, passed : Seq(Nat), hit : BOOLEAN] :
       Loads(src, s, c.s) /\ Passed(c.s, c.pos, c.passed, lost)}

\* Loading goes on from one of these places.
LEMMA WalkLoads ==
    ASSUME source \in Sources, ~Reads(source), NEW s, Good(source, s), NEW u, Loads(source, s, u),
           NEW p, NEW passed, NEW lost, Passed(u, p, passed, lost), NEW q
    PROVE  /\ Loads(source, s, Reach(u, q)) /\ Reach(u, q) \in StoreRec
           /\ Passed(Reach(u, q), p, passed, lost)
<1> DEFINE r == Reach(u, q)
<1>1. Good(source, u) /\ u \in StoreRec
    BY DEF Loads, Brings, Good, StoreOK
<1>2. Loads(source, u, r)
    BY <1>1, ReachLoads
<1> HIDE DEF r
<1>3. Loads(source, s, r)
    BY <1>2, LoadsTwice
<1>4. r \in StoreRec /\ Kept(source, u, r)
    BY <1>2 DEF Loads, Brings, Good, StoreOK
<1>5. Passed(r, p, passed, lost)
    BY <1>1, <1>4, PassedKept
<1> QED
    BY <1>3, <1>4, <1>5 DEF r

\* One member further.
WalkStep(c) ==
    IF c.hit \/ ~More(c.s, c.pos) THEN c
    ELSE LET absent == MemberAt(c.s, c.pos + 1).val = None
             next == IF absent THEN Skip(c.pos) ELSE c.pos + 1 IN
         [s |-> IF absent THEN Reach(c.s, next) ELSE c.s, pos |-> next,
          passed |-> Append(c.passed, At(c.s, c.pos + 1)), hit |-> ~absent]

\* It is another of these places.
LEMMA WalkNext ==
    ASSUME source \in Sources, ~Reads(source), NEW s, Good(source, s), NEW lost,
           NEW c \in Walks(source, s, lost)
    PROVE  WalkStep(c) \in Walks(source, s, lost)
<1> DEFINE absent == MemberAt(c.s, c.pos + 1).val = None
           passed == Append(c.passed, At(c.s, c.pos + 1))
           r == Reach(c.s, c.pos + 1)
           d == [s |-> IF absent THEN r ELSE c.s, pos |-> c.pos + 1,
                 passed |-> passed, hit |-> ~absent]
<1>1. CASE c.hit \/ ~More(c.s, c.pos)
    BY <1>1 DEF WalkStep
<1>2. CASE ~(c.hit \/ ~More(c.s, c.pos))
  <2>1. WalkStep(c) = d
      BY <1>2 DEF WalkStep, Skip
  <2>2. /\ c.s \in StoreRec /\ Loads(source, s, c.s) /\ c.pos \in Nat
        /\ Passed(c.s, c.pos, c.passed, lost)
      BY DEF Walks
  <2>3. c.pos < c.s.n.len /\ StoreOK(source, c.s)
      BY <1>2, <2>2 DEF More, Loads, Brings, Good
  <2>4. Passed(c.s, c.pos + 1, passed, lost)
      BY <2>2, <2>3, PassedNext
  <2> HIDE DEF passed
  <2>5. /\ Loads(source, s, r) /\ r \in StoreRec /\ Passed(r, c.pos + 1, passed, lost)
      BY <2>2, <2>4, WalkLoads
  <2> HIDE DEF r, absent
  <2>6. passed \in Seq(Nat) /\ c.pos + 1 \in Nat
      BY <2>4 DEF Passed, SeenOK
  <2>7. d.pos = c.pos + 1 /\ d.passed = passed /\ d.s \in {r, c.s}
        /\ d \in [s : StoreRec, pos : Nat, passed : Seq(Nat), hit : BOOLEAN]
      BY <2>2, <2>5, <2>6
  <2> HIDE DEF d
  <2> QED
      BY <2>1, <2>2, <2>4, <2>5, <2>7 DEF Walks
<1> QED
    BY <1>1, <1>2

\* Next leaves the iterator at one of these places.
LEMMA AdvanceWalks ==
    ASSUME source \in Sources, ~Reads(source), NEW s, Good(source, s), NEW p,
           Passed(s, p, seen, shrunk)
    PROVE  Advance(s, p) \in Walks(source, s, shrunk)
<1> DEFINE N == MaxLen
           S == Walks(source, s, shrunk)
           a == [s |-> Reach(s, p), pos |-> p, passed |-> seen, hit |-> FALSE]
           body(g) == [k \in 0..N |->
                         IF k = 0 THEN a
                         ELSE LET c == g[k - 1] IN
                              IF c.hit \/ ~More(c.s, c.pos) THEN c
                              ELSE LET absent == MemberAt(c.s, c.pos + 1).val = None
                                       next == IF absent THEN Skip(c.pos) ELSE c.pos + 1 IN
                                   [s |-> IF absent THEN Reach(c.s, next) ELSE c.s, pos |-> next,
                                    passed |-> Append(c.passed, At(c.s, c.pos + 1)),
                                    hit |-> ~absent]]
           go == CHOOSE g : g = body(g)
           step == [c \in S |-> WalkStep(c)]
<1>1. Advance(s, p) = go[N]
    BY DEF Advance
<1>2. N \in Nat
    BY TextOK DEF MaxLen, MaxSlots
<1>3. a \in S
  <2> DEFINE r == Reach(s, p)
  <2>1. Loads(source, s, s)
      BY LoadsNothing
  <2>2. Loads(source, s, r) /\ r \in StoreRec /\ Passed(r, p, seen, shrunk)
      BY <2>1, WalkLoads
  <2> HIDE DEF r
  <2>3. p \in Nat /\ seen \in Seq(Nat)
      BY <2>2 DEF Passed, SeenOK
  <2>4. /\ a.s = r /\ a.pos = p /\ a.passed = seen
        /\ a \in [s : StoreRec, pos : Nat, passed : Seq(Nat), hit : BOOLEAN]
      BY <2>2, <2>3 DEF r
  <2> HIDE DEF a
  <2> QED
      BY <2>2, <2>4 DEF Walks
<1>4. \A c \in S : WalkStep(c) \in S
    BY WalkNext
<1>5. \A g : body(g) = [k \in 0..N |-> IF k = 0 THEN a ELSE WalkStep(g[k - 1])]
    BY DEF WalkStep
<1> HIDE DEF body
<1>6. \A k \in 1..N : k \in 0..N /\ k # 0 /\ k - 1 \in 0..N
    BY <1>2
<1> HIDE DEF N, S, a
<1>7. \E f : f = body(f)
  <2>1. step \in [S -> S]
      BY <1>4
  <2>2. \A c \in S : step[c] = WalkStep(c)
      OBVIOUS
  <2> HIDE DEF step
  <2>3. PICK f : Repeats(f, S, a, step, N)
      BY <2>1, <1>2, <1>3, Repeated
  <2>4. f \in [0..N -> S] /\ f[0] = a /\ \A k \in 1..N : f[k] = step[f[k - 1]]
      BY <2>3 DEF Repeats
  <2>5. \A k \in 1..N : f[k] = WalkStep(f[k - 1])
      BY <2>2, <2>4, <1>6
  <2>6. \A k \in 0..N : k # 0 => k \in 1..N
      BY <1>2
  <2>7. \A k \in 0..N : f[k] = IF k = 0 THEN a ELSE WalkStep(f[k - 1])
      BY <2>4, <2>5, <2>6
  <2>8. f = [k \in 0..N |-> IF k = 0 THEN a ELSE WalkStep(f[k - 1])]
      BY <2>4, <2>7
  <2>9. f = body(f)
      BY <2>8, <1>5
  <2> QED
      BY <2>9
<1>8. go = body(go)
    BY <1>7
<1> HIDE DEF go
<1>9. go = [k \in 0..N |-> IF k = 0 THEN a ELSE WalkStep(go[k - 1])]
    BY <1>5, <1>8
<1>10. go[0] = a /\ \A k \in 1..N : go[k] = WalkStep(go[k - 1])
  <2>1. 0 \in 0..N
      BY <1>2
  <2> QED
      BY <2>1, <1>6, <1>9
<1> DEFINE P == [k \in 0..N |-> S]
<1>11. \A k \in 0..N : P[k] = S
    OBVIOUS
<1>12. 0 \in 0..N /\ N \in 0..N
    BY <1>2
<1> HIDE DEF P
<1>13. \A k \in 1..N : go[k - 1] \in P[k - 1] => go[k] \in P[k]
    BY <1>4, <1>6, <1>10, <1>11
<1>14. go[0] \in P[0]
    BY <1>3, <1>10, <1>11, <1>12
<1>15. \A k \in 0..N : go[k] \in P[k]
    BY <1>2, <1>13, <1>14, Places
<1> QED
    BY <1>1, <1>11, <1>12, <1>15 DEF S
-----------------------------------------------------------------------------
(* Adding, setting, moving and removing members.                            *)

\* A step that changes only slots of the list keeps a store good; readers' slots keep
\* their keys.
LEMMA SlotsKept ==
    ASSUME NEW src, NEW s, Good(src, s), NEW L \in Seq(Member), Len(L) = Len(s.slot),
           \A x \in 1..Len(L) : L[x].key = s.slot[x].key
                                \/ (~Reads(src) /\ \E i \in 1..s.n.len : At(s, i) = x),
           NEW t, t = [n |-> s.n, arrs |-> s.arrs, slot |-> L]
    PROVE  Good(src, t) /\ Kept(src, s, t)
<1>1. StoreOK(src, s) /\ s \in StoreRec
    BY DEF Good, StoreOK
<1>2. t.n = s.n /\ t.arrs = s.arrs /\ t.slot = L
    OBVIOUS
<1>3. t \in StoreRec
    BY <1>1 DEF StoreRec
<1>4. (\A i : At(t, i) = At(s, i)) /\ Cap(t) = Cap(s)
    BY <1>2 DEF At, Cap
<1>5. Len(s.slot) \in Nat /\ Len(s.arrs) \in Nat /\ s.n.len \in Nat
    BY <1>1, Fields
<1>6. StoreOK(src, t)
  <2>1. ArraysOK(t)
    <3>1. ArraysOK(s) /\ t.arrs = s.arrs /\ Len(t.slot) = Len(s.slot)
        BY <1>1, <1>2 DEF StoreOK
    <3> QED
        BY <3>1 DEF ArraysOK
  <2> QED
      BY <2>1, <1>1, <1>2, <1>3, <1>4 DEF StoreOK
<1>7. ASSUME Reads(src) PROVE ReaderOK(src, t)
  <2>1. \A b \in 1..Len(s.arrs) : \A i \in 1..Len(s.arrs[b]) : s.arrs[b][i] # Nil =>
          /\ i <= Len(src.members) /\ s.slot[s.arrs[b][i]].key = src.members[i].key
          /\ s.arrs[b][i] \in 1..Len(L)
    <3>1. \A x \in 0..Len(L) : x # Nil => x \in 1..Len(L)
        BY <1>5 DEF Nil
    <3> QED
        BY <3>1, <1>1, <1>7 DEF Good, ReaderOK, StoreOK, ArraysOK
  <2>2. IsContainer(t) = IsContainer(s)
      BY <1>2 DEF IsContainer
  <2> QED
      BY <2>1, <2>2, <1>2, <1>7 DEF Good, ReaderOK
<1>8. ASSUME ~Reads(src) PROVE OwnerOK(src, t)
    BY <1>2, <1>4, <1>8 DEF Good, OwnerOK
<1>9. Kept(src, s, t)
  <2>1. \A i \in 1..t.n.len : ~(i > s.n.len)
      BY <1>2, <1>5
  <2> QED
      BY <2>1, <1>2, <1>4, <1>5 DEF Kept
<1> QED
    BY <1>6, <1>7, <1>8, <1>9 DEF Good

\* The slots L when that of x has the value v.
WithValue(L, x, v) == [L EXCEPT ![x].val = v]

\* Setting the value of a slot.
LEMMA ValueSet ==
    ASSUME NEW L \in Seq(Member), NEW x, NEW v \in Values \cup {None}
    PROVE  /\ WithValue(L, x, v) \in Seq(Member) /\ Len(WithValue(L, x, v)) = Len(L)
           /\ \A y \in 1..Len(L) : WithValue(L, x, v)[y].key = L[y].key
<1> DEFINE M == WithValue(L, x, v)
<1>3. M = [L EXCEPT ![x].val = v]
    BY DEF WithValue
<1> HIDE DEF M
<1> SUFFICES M \in Seq(Member) /\ Len(M) = Len(L) /\ \A y \in 1..Len(L) : M[y].key = L[y].key
    BY DEF M
<1>1. CASE x \in 1..Len(L)
  <2> DEFINE r == [L[x] EXCEPT !.val = v]
  <2>1. L[x] \in Member
      BY <1>1
  <2>2. r \in Member /\ r.key = L[x].key
      BY <2>1 DEF Member
  <2>3. M = [L EXCEPT ![x] = r]
      BY <1>3
  <2> HIDE DEF r
  <2> QED
      BY <2>2, <2>3, <1>1
<1>2. CASE x \notin 1..Len(L)
  <2>1. M = L
      BY <1>2, <1>3
  <2> QED
      BY <2>1
<1> QED
    BY <1>1, <1>2

\* ... keeps a store good.
LEMMA ValueKept ==
    ASSUME NEW src, NEW s, Good(src, s), NEW x, NEW v \in Values \cup {None},
           NEW t, t = [s EXCEPT !.slot[x].val = v]
    PROVE  Good(src, t) /\ Kept(src, s, t)
<1> DEFINE L == WithValue(s.slot, x, v)
<1>1. s \in StoreRec /\ s.slot \in Seq(Member) /\ s = [n |-> s.n, arrs |-> s.arrs, slot |-> s.slot]
    BY Fields DEF Good, StoreOK
<1>2. t = [s EXCEPT !.slot = L]
    BY DEF WithValue
<1>3. L \in Seq(Member) /\ Len(L) = Len(s.slot) /\ \A y \in 1..Len(s.slot) : L[y].key = s.slot[y].key
    BY <1>1, ValueSet
<1> HIDE DEF L
<1>4. t = [n |-> s.n, arrs |-> s.arrs, slot |-> L]
    BY <1>1, <1>2, WithNode
<1> QED
    BY <1>3, <1>4, SlotsKept

\* Moving members among the slots of a list.
LEMMA MovedKept ==
    ASSUME NEW src, NEW s, Good(src, s), ~Reads(src), NEW L,
           DOMAIN L = DOMAIN s.slot,
           L = [x \in DOMAIN L |-> L[x]],
           \A x \in DOMAIN s.slot :
             IF \E i \in 1..s.n.len : At(s, i) = x
             THEN \E i \in 1..s.n.len : L[x] = MemberAt(s, i)
             ELSE L[x] = s.slot[x],
           NEW t, t = [s EXCEPT !.slot = L]
    PROVE  Good(src, t) /\ Kept(src, s, t)
<1>1. /\ s \in StoreRec /\ s.slot \in Seq(Member) /\ s = [n |-> s.n, arrs |-> s.arrs, slot |-> s.slot]
      /\ Len(s.slot) \in Nat /\ DOMAIN s.slot = 1..Len(s.slot)
    BY Fields DEF Good, StoreOK
<1>2. t = [n |-> s.n, arrs |-> s.arrs, slot |-> L]
    BY <1>1, WithNode
<1>3. \A i \in 1..s.n.len : MemberAt(s, i) \in Member
  <2>1. \A i \in 1..s.n.len : At(s, i) \in 1..Len(s.slot)
      BY ListedSlot DEF Good
  <2> QED
      BY <2>1, <1>1 DEF MemberAt
<1>4. \A x \in 1..Len(s.slot) : L[x] \in Member
    BY <1>1, <1>3
<1>5. L \in Seq(Member) /\ Len(L) = Len(s.slot)
    BY <1>1, <1>4
<1>6. \A x \in 1..Len(L) : L[x].key = s.slot[x].key
                           \/ (~Reads(src) /\ \E i \in 1..s.n.len : At(s, i) = x)
    BY <1>1, <1>5
<1> QED
    BY <1>2, <1>5, <1>6, SlotsKept
\* Move takes each member from a place of the list.
LEMMA ShiftedIn ==
    ASSUME NEW l \in Nat, NEW i \in 1..l, NEW dst \in 1..l, NEW from \in 1..l
    PROVE  Shifted(i, dst, from) \in 1..l
    BY DEF Shifted

\* Moving one member of an array.
LEMMA ShiftedKept ==
    ASSUME NEW src, NEW s, Good(src, s), ~Reads(src),
           NEW dst \in 1..s.n.len, NEW from \in 1..s.n.len,
           NEW t, t = Permuted(s, LAMBDA i : Shifted(i, dst, from))
    PROVE  Good(src, t) /\ Kept(src, s, t)
<1> DEFINE Position(x) == CHOOSE i \in 1..s.n.len : At(s, i) = x
           L == [x \in DOMAIN s.slot |->
                   IF \E i \in 1..s.n.len : At(s, i) = x
                   THEN MemberAt(s, Shifted(Position(x), dst, from)) ELSE s.slot[x]]
<1>1. t = [s EXCEPT !.slot = L]
    BY DEF Permuted
<1>2. s.n.len \in Nat
    BY ListedSlot DEF Good
<1>3. \A i \in 1..s.n.len : Shifted(i, dst, from) \in 1..s.n.len
    BY <1>2, ShiftedIn
<1>4. \A x : (\E i \in 1..s.n.len : At(s, i) = x) => Position(x) \in 1..s.n.len
    OBVIOUS
<1>5. \A x \in DOMAIN s.slot :
        IF \E i \in 1..s.n.len : At(s, i) = x
        THEN \E i \in 1..s.n.len : L[x] = MemberAt(s, i)
        ELSE L[x] = s.slot[x]
  <2> HIDE DEF Position
  <2> QED
      BY <1>3, <1>4
<1>6. DOMAIN L = DOMAIN s.slot /\ L = [x \in DOMAIN L |-> L[x]]
    OBVIOUS
<1> HIDE DEF L
<1> QED
    BY <1>1, <1>5, <1>6, MovedKept

\* The place of a member in the order of the keys.
RankOf(s, i) == Cardinality({j \in 1..s.n.len : Before(s, j, i)}) + 1

\* Some member has each place, and the places are in the order of the keys.
LEMMA Ranked ==
    ASSUME NEW s, s.n.len \in Nat, \A i \in 1..s.n.len : MemberAt(s, i).key \in Nat,
           NEW r \in 1..s.n.len
    PROVE  /\ \E i \in 1..s.n.len : RankOf(s, i) = r
           /\ \A i, j \in 1..s.n.len : RankOf(s, i) < RankOf(s, j) => Before(s, i, j)
<1> DEFINE n == s.n.len
           S == 1..n
           B(i) == {j \in S : Before(s, j, i)}
           key(i) == MemberAt(s, i).key
           f == [i \in S |-> Cardinality(B(i)) + 1]
<1>1. n \in Nat /\ \A i \in S : key(i) \in Nat
    OBVIOUS
<1>2. \A i, j : Before(s, i, j) <=> key(i) < key(j) \/ (key(i) = key(j) /\ i < j)
    BY DEF Before
<1>3. \A i \in S : i \in Nat /\ i \in Int
    BY <1>1
<1> HIDE DEF key, n
<1>4. \A i \in S : ~Before(s, i, i)
    BY <1>1, <1>2, <1>3
<1>5. \A i, j \in S : i # j => Before(s, i, j) \/ Before(s, j, i)
    BY <1>1, <1>2, <1>3
<1>6. \A i, j, k \in S : Before(s, i, j) /\ Before(s, j, k) => Before(s, i, k)
    BY <1>1, <1>2, <1>3
<1>7. IsFiniteSet(S) /\ Cardinality(S) = n
  <2>2. n \in Int /\ 1 \in Int
      BY <1>1
  <2>1. IsFiniteSet(1..n) /\ Cardinality(1..n) = (IF 1 > n THEN 0 ELSE n - 1 + 1)
      BY <2>2, FS_Interval
  <2> QED
      BY <2>1, <1>1
<1>8. \A i \in S : /\ IsFiniteSet(B(i)) /\ Cardinality(B(i)) \in Nat
                   /\ i \notin B(i) /\ B(i) \cup {i} \subseteq S
  <2> SUFFICES ASSUME NEW i \in S
               PROVE  /\ IsFiniteSet(B(i)) /\ Cardinality(B(i)) \in Nat
                      /\ i \notin B(i) /\ B(i) \cup {i} \subseteq S
      OBVIOUS
  <2>1. B(i) \in SUBSET S /\ i \notin B(i) /\ B(i) \cup {i} \subseteq S
      BY <1>4
  <2> HIDE DEF B, S
  <2>2. IsFiniteSet(B(i))
      BY <2>1, <1>7, FS_Subset
  <2> QED
      BY <2>1, <2>2, FS_CardinalityType
<1>9. \A i \in S : IsFiniteSet(B(i) \cup {i}) /\ Cardinality(B(i) \cup {i}) = Cardinality(B(i)) + 1
  <2> HIDE DEF B, S
  <2> QED
      BY <1>8, FS_AddElement
<1>10. ASSUME NEW i \in S, NEW j \in S, Before(s, i, j)
       PROVE  Cardinality(B(i)) < Cardinality(B(j))
  <2>1. B(i) \cup {i} \in SUBSET B(j)
      BY <1>6, <1>10
  <2> HIDE DEF B, S
  <2>2. Cardinality(B(i) \cup {i}) <= Cardinality(B(j))
      BY <2>1, <1>8, FS_Subset
  <2>3. Cardinality(B(i)) \in Nat /\ Cardinality(B(j)) \in Nat
        /\ Cardinality(B(i) \cup {i}) = Cardinality(B(i)) + 1
      BY <1>8, <1>9
  <2> QED
      BY <2>2, <2>3
<1>11. f \in [S -> S]
  <2> SUFFICES ASSUME NEW i \in S PROVE Cardinality(B(i)) + 1 \in S
      OBVIOUS
  <2>1. B(i) \cup {i} \in SUBSET S
      BY <1>8
  <2>2. Cardinality(B(i)) + 1 <= n
    <3> HIDE DEF B, S
    <3>1. Cardinality(B(i) \cup {i}) <= Cardinality(S)
        BY <2>1, <1>7, FS_Subset
    <3> QED
        BY <3>1, <1>7, <1>9
  <2>3. Cardinality(B(i)) \in Nat
      BY <1>8
  <2> HIDE DEF B
  <2> QED
      BY <2>2, <2>3, <1>1
<1>12. \A i \in S : f[i] = Cardinality(B(i)) + 1
    OBVIOUS
<1>13. \A i, j \in S : f[i] = f[j] => i = j
  <2> SUFFICES ASSUME NEW i \in S, NEW j \in S, f[i] = f[j], i # j PROVE FALSE
      OBVIOUS
  <2>1. Cardinality(B(i)) \in Nat /\ Cardinality(B(j)) \in Nat
      BY <1>8
  <2>2. Cardinality(B(i)) < Cardinality(B(j)) \/ Cardinality(B(j)) < Cardinality(B(i))
      BY <1>5, <1>10
  <2>3. Cardinality(B(i)) + 1 = Cardinality(B(j)) + 1
      BY <1>12
  <2> HIDE DEF B, f
  <2> QED
      BY <2>1, <2>2, <2>3
<1> HIDE DEF f
<1>14. f \in Injection(S, S)
    BY <1>11, <1>13 DEF Injection, IsInjective
<1>15. f \in Surjection(S, S)
  <2> HIDE DEF S
  <2> QED
      BY <1>7, <1>14, FS_Injection
<1>16. PICK i \in S : f[i] = r
    BY <1>15 DEF Surjection, n
<1>17. ASSUME NEW j \in S, NEW k \in S, f[j] < f[k] PROVE Before(s, j, k)
  <2>1. j # k
    <3>1. f[j] \in S
        BY <1>11
    <3>2. f[j] \in Nat
        BY <3>1, <1>1
    <3> QED
        BY <3>2, <1>17
  <2>2. ~Before(s, k, j)
    <3>1. Before(s, k, j) => f[k] < f[j]
      <4>1. Cardinality(B(j)) \in Nat /\ Cardinality(B(k)) \in Nat
          BY <1>8
      <4>2. f[j] = Cardinality(B(j)) + 1 /\ f[k] = Cardinality(B(k)) + 1
          BY <1>12
      <4>3. Before(s, k, j) => Cardinality(B(k)) < Cardinality(B(j))
          BY <1>10
      <4> HIDE DEF B
      <4> QED
          BY <4>1, <4>2, <4>3
    <3>2. f[j] \in S /\ f[k] \in S
        BY <1>11
    <3>3. f[j] \in Nat /\ f[k] \in Nat
        BY <3>2, <1>1
    <3> QED
        BY <3>1, <3>3, <1>17
  <2> QED
      BY <2>1, <2>2, <1>5
<1>18. \A j \in S : RankOf(s, j) = f[j]
    BY <1>12 DEF RankOf, n
<1> QED
    BY <1>16, <1>17, <1>18 DEF n

\* Sorting the members of an object.
LEMMA SortedKept ==
    ASSUME NEW src, NEW s, Good(src, s), ~Reads(src), NEW t,
           t = Permuted(s, LAMBDA r : CHOOSE i \in 1..s.n.len :
                             Cardinality({j \in 1..s.n.len : Before(s, j, i)}) + 1 = r)
    PROVE  Good(src, t) /\ Kept(src, s, t)
<1> DEFINE Position(x) == CHOOSE i \in 1..s.n.len : At(s, i) = x
           from(r) == CHOOSE i \in 1..s.n.len : RankOf(s, i) = r
           L == [x \in DOMAIN s.slot |->
                   IF \E i \in 1..s.n.len : At(s, i) = x
                   THEN MemberAt(s, from(Position(x))) ELSE s.slot[x]]
<1>1. t = [s EXCEPT !.slot = L]
    BY DEF Permuted, RankOf
<1>2. s.n.len \in Nat /\ \A i \in 1..s.n.len : MemberAt(s, i).key \in Nat
  <2>1. s.n.len \in Nat /\ \A i \in 1..s.n.len : At(s, i) \in 1..Len(s.slot)
      BY ListedSlot DEF Good
  <2>2. s.slot \in Seq(Member)
      BY Fields DEF Good, StoreOK
  <2>3. \A x \in 1..Len(s.slot) : s.slot[x] \in Member
      BY <2>2
  <2> QED
      BY <2>1, <2>3 DEF MemberAt, Member
<1>3. \A r \in 1..s.n.len : from(r) \in 1..s.n.len
  <2> SUFFICES ASSUME NEW r \in 1..s.n.len PROVE from(r) \in 1..s.n.len
      OBVIOUS
  <2>1. \E i \in 1..s.n.len : RankOf(s, i) = r
      BY <1>2, Ranked
  <2> QED
      BY <2>1
<1>4. \A x : (\E i \in 1..s.n.len : At(s, i) = x) => Position(x) \in 1..s.n.len
    OBVIOUS
<1>5. \A x \in DOMAIN s.slot :
        IF \E i \in 1..s.n.len : At(s, i) = x
        THEN \E i \in 1..s.n.len : L[x] = MemberAt(s, i)
        ELSE L[x] = s.slot[x]
  <2> HIDE DEF Position, from
  <2> QED
      BY <1>3, <1>4
<1>6. DOMAIN L = DOMAIN s.slot /\ L = [x \in DOMAIN L |-> L[x]]
    OBVIOUS
<1> HIDE DEF L
<1> QED
    BY <1>1, <1>5, <1>6, MovedKept

\* The arrays A when r replaces that of a.
WithArray(A, a, r) == [A EXCEPT ![a] = r]

\* Replacing an array.
LEMMA ArraySet ==
    ASSUME NEW A \in Seq(Seq(Nat)), NEW a \in 1..Len(A), NEW r \in Seq(Nat)
    PROVE  /\ WithArray(A, a, r) \in Seq(Seq(Nat)) /\ Len(WithArray(A, a, r)) = Len(A)
           /\ WithArray(A, a, r)[a] = r
           /\ \A b \in 1..Len(A) : b # a => WithArray(A, a, r)[b] = A[b]
    BY DEF WithArray

\* What removing the member at i leaves.
Removes(s, i, t) ==
    /\ t.n.typ = s.n.typ /\ t.n.raw = s.n.raw /\ t.n.pos = s.n.pos /\ t.n.arr = s.n.arr
    /\ t.n.len = s.n.len - 1
    /\ \A j \in 1..(s.n.len - 1) : At(t, j) = IF j < i THEN At(s, j) ELSE At(s, j + 1)
    /\ t.slot = [s.slot EXCEPT ![At(s, i)] = Cleared]

\* Removing a member from the list of an owner keeps the store good.
LEMMA RemovedGood ==
    ASSUME NEW src, NEW s, Good(src, s), ~Reads(src), NEW i \in 1..s.n.len
    PROVE  Good(src, RemoveAt(s, i)) /\ Removes(s, i, RemoveAt(s, i))
<1> DEFINE l == s.n.len
           a == s.n.arr
           A == s.arrs[a]
           r == [j \in DOMAIN A |-> IF j = l THEN Nil ELSE IF j \in i..(l - 1) THEN A[j + 1] ELSE A[j]]
           C == WithArray(s.arrs, a, r)
           n == [s.n EXCEPT !.len = l - 1]
           L == [s.slot EXCEPT ![At(s, i)] = Cleared]
           t == [n |-> n, arrs |-> C, slot |-> L]
<1>1. StoreOK(src, s) /\ s \in StoreRec /\ OwnerOK(src, s)
    BY DEF Good, StoreOK
<1>2. /\ s.arrs \in Seq(Seq(Nat)) /\ s.slot \in Seq(Member) /\ s.n \in NodeRec /\ Len(s.slot) \in Nat
      /\ s.n.raw \in BOOLEAN
    BY <1>1, Fields
<1>3. /\ l \in Nat /\ l # 0 /\ a \in 1..Len(s.arrs) /\ Cap(s) = Len(A) /\ l <= Len(A)
      /\ A \in Seq(Nat) /\ Len(A) \in Nat /\ At(s, i) \in 1..Len(s.slot)
      /\ DOMAIN A = 1..Len(A)
  <2>1. l \in Nat /\ l # 0
      BY <1>1, ListedSlot
  <2>2. a \in 1..Len(s.arrs) /\ Cap(s) = Len(A) /\ At(s, i) \in 1..Len(s.slot)
      BY <2>1, <1>1, ListedSlot
  <2>3. l <= Cap(s)
      BY <1>1 DEF StoreOK
  <2> HIDE DEF l
  <2> QED
      BY <2>1, <2>2, <2>3, <1>2
<1>4. t = RemoveAt(s, i)
    BY DEF RemoveAt, Closed, WithArray
<1>5. \A j : At(s, j) = A[j]
    BY DEF At
<1>6. /\ \A j \in 1..Len(A) : A[j] \in 0..Len(s.slot)
      /\ \A j, k \in 1..Len(A) : A[j] = A[k] /\ A[j] # Nil => j = k
      /\ \A j \in 1..Len(A) : j > l => A[j] = Nil
      /\ \A j \in 1..l : A[j] # Nil
    BY <1>1, <1>3, <1>5 DEF StoreOK, ArraysOK, OwnerOK
<1>7. /\ n \in NodeRec /\ n.typ = s.n.typ /\ n.raw = s.n.raw /\ n.pos = s.n.pos /\ n.arr = a
      /\ n.len = l - 1
  <2>1. l - 1 \in Nat
      BY <1>3
  <2> HIDE DEF l
  <2> QED
      BY <2>1, <1>2 DEF NodeRec, a
<1>8. Cleared \in Member
    BY DEF Cleared, Member
<1>9. L \in Seq(Member) /\ Len(L) = Len(s.slot)
  <2> HIDE DEF Member
  <2> QED
      BY <1>2, <1>3, <1>8
<1>20. i \in 1..l
    OBVIOUS
<1> HIDE DEF l, A, a
<1>10. /\ DOMAIN r = 1..Len(A)
       /\ \A j \in 1..Len(A) : j < i => r[j] = A[j]
       /\ \A j \in 1..Len(A) : i <= j /\ j < l => r[j] = A[j + 1]
       /\ \A j \in 1..Len(A) : l <= j => r[j] = Nil
    BY <1>3, <1>6, <1>20
<1>11. r \in Seq(Nat) /\ Len(r) = Len(A) /\ \A j \in 1..Len(A) : r[j] \in 0..Len(s.slot)
  <2>1. \A j \in 1..Len(A) : r[j] \in 0..Len(s.slot)
    <3> SUFFICES ASSUME NEW j \in 1..Len(A) PROVE r[j] \in 0..Len(s.slot)
        OBVIOUS
    <3> HIDE DEF r
    <3>1. CASE j < i
        BY <3>1, <1>6, <1>10
    <3>2. CASE i <= j /\ j < l
      <4>1. j + 1 \in 1..Len(A)
          BY <3>2, <1>3
      <4> QED
          BY <4>1, <3>2, <1>6, <1>10
    <3>3. CASE l <= j
        BY <3>3, <1>2, <1>10 DEF Nil
    <3> QED
        BY <3>1, <3>2, <3>3, <1>3, <1>20
  <2>2. \A j \in 1..Len(A) : r[j] \in Nat
    <3>1. 0..Len(s.slot) \subseteq Nat
        BY <1>2
    <3> HIDE DEF r
    <3> QED
        BY <2>1, <3>1
  <2>3. r = [j \in 1..Len(A) |-> r[j]]
      BY <1>3
  <2> HIDE DEF r
  <2>4. r \in Seq(Nat) /\ Len(r) = Len(A)
      BY <2>2, <2>3, <1>3
  <2> QED
      BY <2>1, <2>4
<1> HIDE DEF r
<1>12. ASSUME NEW j \in 1..Len(A), NEW k \in 1..Len(A), r[j] = r[k], r[j] # Nil PROVE j = k
  <2>1. \A x \in 1..Len(A) : r[x] # Nil => x < l
      BY <1>3, <1>10
  <2>2. j < l /\ k < l
      BY <2>1, <1>12
  <2>3. \A x \in 1..Len(A) : x < l => x + 1 \in 1..Len(A) /\ r[x] = (IF x < i THEN A[x] ELSE A[x + 1])
      BY <1>3, <1>10, <1>20
  <2>4. CASE j < i /\ k < i
      BY <2>2, <2>3, <2>4, <1>6, <1>12
  <2>5. CASE ~(j < i) /\ ~(k < i)
    <3>1. A[j + 1] = A[k + 1] /\ A[j + 1] # Nil /\ j + 1 \in 1..Len(A) /\ k + 1 \in 1..Len(A)
        BY <2>2, <2>3, <2>5, <1>12
    <3>2. j + 1 = k + 1
        BY <3>1, <1>6
    <3> QED
        BY <3>2, <1>3
  <2>6. CASE j < i /\ ~(k < i)
    <3>1. A[j] = A[k + 1] /\ A[j] # Nil /\ k + 1 \in 1..Len(A)
        BY <2>2, <2>3, <2>6, <1>12
    <3>2. j = k + 1
        BY <3>1, <1>6
    <3> QED
        BY <3>2, <2>6, <1>3, <1>20
  <2>7. CASE ~(j < i) /\ k < i
    <3>1. A[j + 1] = A[k] /\ A[k] # Nil /\ j + 1 \in 1..Len(A)
        BY <2>2, <2>3, <2>7, <1>12
    <3>2. j + 1 = k
        BY <3>1, <1>6
    <3> QED
        BY <3>2, <2>7, <1>3, <1>20
  <2> QED
      BY <2>4, <2>5, <2>6, <2>7
<1>13. /\ C \in Seq(Seq(Nat)) /\ Len(C) = Len(s.arrs) /\ C[a] = r
       /\ \A b \in 1..Len(s.arrs) : b # a => C[b] = s.arrs[b]
  <2>1. s.arrs \in Seq(Seq(Nat)) /\ a \in 1..Len(s.arrs) /\ r \in Seq(Nat)
      BY <1>2, <1>3, <1>11
  <2> QED
      BY <2>1, ArraySet
<1>14. t.n = n /\ t.arrs = C /\ t.slot = L
    OBVIOUS
<1>15. t \in StoreRec
    BY <1>7, <1>9, <1>13 DEF StoreRec
<1> HIDE DEF t, n, C, L
<1>16. (\A j : At(t, j) = r[j]) /\ Cap(t) = Len(A)
  <2>1. a # 0
      BY <1>3
  <2> QED
      BY <2>1, <1>7, <1>11, <1>13, <1>14 DEF At, Cap
<1>17. StoreOK(src, t)
  <2>1. ArraysOK(t)
    <3>1. /\ \A b \in 1..Len(s.arrs) : \A j \in 1..Len(s.arrs[b]) : s.arrs[b][j] \in 0..Len(s.slot)
          /\ \A b \in 1..Len(s.arrs) : \A j, k \in 1..Len(s.arrs[b]) :
               s.arrs[b][j] = s.arrs[b][k] /\ s.arrs[b][j] # Nil => j = k
        BY <1>1 DEF StoreOK, ArraysOK
    <3>2. t.arrs = C /\ Len(t.slot) = Len(s.slot) /\ Len(C) = Len(s.arrs)
        BY <1>9, <1>13, <1>14
    <3> SUFFICES ASSUME NEW b \in 1..Len(s.arrs)
                 PROVE  /\ \A j \in 1..Len(C[b]) : C[b][j] \in 0..Len(s.slot)
                        /\ \A j, k \in 1..Len(C[b]) : C[b][j] = C[b][k] /\ C[b][j] # Nil => j = k
        BY <3>2 DEF ArraysOK
    <3>3. CASE b = a
        BY <3>3, <1>11, <1>12, <1>13
    <3>4. CASE b # a
        BY <3>1, <3>4, <1>13
    <3> QED
        BY <3>3, <3>4
  <2>2. CursorOK(src, t.n)
    <3>1. ~s.n.raw /\ s.n.typ \notin {"absent", None}
        BY <1>1, <1>3 DEF StoreOK, CursorOK, l
    <3> QED
        BY <3>1, <1>1, <1>7, <1>14 DEF StoreOK, CursorOK
  <2>3. t.n.arr \in 0..Len(t.arrs) /\ t.n.len <= Cap(t)
      BY <1>3, <1>7, <1>13, <1>14, <1>16
  <2>4. \A j \in 1..t.n.len : At(t, j) # Nil
    <3> SUFFICES ASSUME NEW j \in 1..(l - 1) PROVE r[j] # Nil
        BY <1>7, <1>14, <1>16
    <3>1. j \in 1..Len(A) /\ j < l /\ j \in 1..l /\ j + 1 \in 1..l
        BY <1>3
    <3>2. r[j] = A[j] \/ r[j] = A[j + 1]
        BY <3>1, <1>10, <1>3, <1>20
    <3> QED
        BY <3>1, <3>2, <1>6
  <2> QED
      BY <2>1, <2>2, <2>3, <2>4, <1>15 DEF StoreOK
<1>18. OwnerOK(src, t)
  <2>1. \A j \in 1..Cap(t) : j > t.n.len => At(t, j) = Nil
    <3>1. \A j \in 1..Len(A) : j > l - 1 => l <= j
        BY <1>3
    <3> QED
        BY <3>1, <1>7, <1>10, <1>14, <1>16
  <2>2. t.n.len <= Len(t.slot)
    <3>1. l <= Len(s.slot)
        BY <1>1 DEF OwnerOK, l
    <3> QED
        BY <3>1, <1>2, <1>3, <1>7, <1>9, <1>14
  <2>3. Unread(src, t.n) = Unread(src, s.n)
      BY <1>7, <1>14 DEF Unread
  <2> QED
      BY <2>1, <2>2, <2>3, <1>1, <1>9, <1>14 DEF OwnerOK
<1>19. Removes(s, i, t)
  <2>1. \A j \in 1..(l - 1) : At(t, j) = IF j < i THEN At(s, j) ELSE At(s, j + 1)
    <3>1. \A j \in 1..(l - 1) : j \in 1..Len(A) /\ j < l
        BY <1>3
    <3>2. \A j \in 1..(l - 1) : (~(j < i) => i <= j)
        BY <1>3, <1>20
    <3> QED
        BY <3>1, <3>2, <1>5, <1>10, <1>16
  <2> QED
      BY <2>1, <1>7, <1>14 DEF Removes, l, L, a
<1> QED
    BY <1>4, <1>17, <1>18, <1>19 DEF Good
-----------------------------------------------------------------------------
(* The invariant, as a predicate on the parts of a state.                   *)

\* The store of h among nodes nd, arrays A and slots L.
StoreIn(nd, A, L, h) == [n |-> nd[h], arrs |-> A, slot |-> L]
In(s, x) == \E i \in 1..s.n.len : At(s, i) = x

\* Every node is good; an edited one has no copies.
NodesOK(src, nd, A, L) ==
    /\ src \in Sources /\ nd \in [Handles -> NodeRec]
    /\ \A h \in Handles : /\ Good(src, StoreIn(nd, A, L, h))
                          /\ nd[h].typ = "absent" => nd[h] = FreshNode("absent")
    /\ ~Reads(src) => \A h \in Handles : h # Root => nd[h].typ = "absent"

\* A retained pointer is in its node's list, or an owner has cleared its slot.
PtrOK(src, nd, A, L, p) ==
    /\ p.slot \in Nat
    /\ p.slot # Nil =>
         /\ p.of \in Handles /\ nd[p.of].typ # "absent" /\ p.slot \in 1..Len(L)
         /\ nd[p.of].typ \in {"array", "object"} =>
              In(StoreIn(nd, A, L, p.of), p.slot) \/ (~Reads(src) /\ L[p.slot].key = 0)

\* An iterator belongs to an owner, and what it has passed is not ahead of it.
ItOK(src, nd, A, L, i, passed, lost) ==
    /\ i = [of |-> i.of, pos |-> i.pos] /\ SeenOK(L, passed)
    /\ i.of # "nobody" =>
         /\ i.of \in Handles /\ nd[i.of].typ # "absent" /\ ~Reads(src)
         /\ Passed(StoreIn(nd, A, L, i.of), i.pos, passed, lost)

\* The pointers that stay in a list keep their order, and a slot that leaves it is
\* cleared, unless the node is replaced.
Stable(s, t) ==
    \/ ~IsContainer(t) \/ t.n.raw
    \/ /\ \A i, j \in 1..t.n.len : i < j /\ In(s, At(t, j)) =>
            \E a, b \in 1..s.n.len : a < b /\ At(s, a) = At(t, i) /\ At(s, b) = At(t, j)
       /\ \A x : In(s, x) /\ ~In(t, x) => t.slot[x] = Cleared
AllStable(nd, A, L, nd2, A2, L2) ==
    \A h \in Handles : Stable(StoreIn(nd, A, L, h), StoreIn(nd2, A2, L2, h))

\* The nodes nd when h becomes n.
Replaced(nd, h, n) == [nd EXCEPT ![h] = n]
\* A step of the node h among such nodes ...
Edits(src, nd, A, L, h) ==
    NodesOK(src, nd, A, L) /\ h \in Handles /\ nd[h].typ # "absent"
\* ... that keeps the nodes good and the lists stable, a retained pointer a member, and
\* what an iterator has passed behind it.
Keeps(src, nd, A, L, nd2, A2, L2) ==
    /\ NodesOK(src, nd2, A2, L2) /\ AllStable(nd, A, L, nd2, A2, L2)
    /\ \A p : PtrOK(src, nd, A, L, p) => PtrOK(src, nd2, A2, L2, p)
    /\ \A i, passed, lost : ItOK(src, nd, A, L, i, passed, lost) =>
         ItOK(src, nd2, A2, L2, i, passed, lost)

\* One that takes a member from the list of h, or ...
Lost(lost, i, h) == lost \/ i.of = h
Shortens(src, nd, A, L, nd2, A2, L2, h) ==
    /\ NodesOK(src, nd2, A2, L2) /\ AllStable(nd, A, L, nd2, A2, L2)
    /\ \A p : PtrOK(src, nd, A, L, p) => PtrOK(src, nd2, A2, L2, p)
    /\ \A i, passed, lost : ItOK(src, nd, A, L, i, passed, lost) =>
         ItOK(src, nd2, A2, L2, i, passed, Lost(lost, i, h))
\* ... replaces the node.
Past(p, h) == IF p.of = h THEN [of |-> "nobody", slot |-> Nil] ELSE p
Replaces(src, nd, A, L, nd2, A2, L2, h) ==
    /\ NodesOK(src, nd2, A2, L2) /\ AllStable(nd, A, L, nd2, A2, L2)
    /\ \A p : PtrOK(src, nd, A, L, p) => PtrOK(src, nd2, A2, L2, Past(p, h))
    /\ \A i, passed, lost : ItOK(src, nd, A, L, i, passed, lost) =>
         ItOK(src, nd2, A2, L2, i, passed, Lost(lost, i, h))

\* A node that does not exist fits any memory.
LEMMA AbsentGood ==
    ASSUME NEW src \in Sources, NEW t, Good(src, t), NEW u,
           u = [n |-> FreshNode("absent"), arrs |-> t.arrs, slot |-> t.slot]
    PROVE  Good(src, u) /\ ~IsContainer(u) /\ u.n.len = 0
<1> DEFINE n == FreshNode("absent")
<1>1. /\ n \in NodeRec /\ n.typ = "absent" /\ n.raw = FALSE /\ n.pos = 0 /\ n.arr = 0 /\ n.len = 0
    BY DEF FreshNode, NodeRec
<1>2. u = [n |-> n, arrs |-> t.arrs, slot |-> t.slot]
    OBVIOUS
<1> HIDE DEF n
<1>3. u.n = n /\ u.arrs = t.arrs /\ u.slot = t.slot
    BY <1>2
<1>4. StoreOK(src, t) /\ t \in StoreRec /\ Len(t.arrs) \in Nat /\ Len(t.slot) \in Nat
    BY Fields DEF Good, StoreOK
<1>5. u \in StoreRec
    BY <1>1, <1>2, <1>4 DEF StoreRec
<1>6. Cap(u) = 0 /\ ~IsContainer(u)
    BY <1>1, <1>3 DEF Cap, IsContainer
<1>7. StoreOK(src, u)
  <2>1. ArraysOK(u)
      BY <1>3, <1>4 DEF StoreOK, ArraysOK
  <2>2. CursorOK(src, u.n)
      BY <1>1, <1>3 DEF CursorOK
  <2>3. u.n.arr \in 0..Len(u.arrs) /\ u.n.len <= Cap(u) /\ \A i \in 1..u.n.len : FALSE
      BY <1>1, <1>3, <1>4, <1>6
  <2> QED
      BY <2>1, <2>2, <2>3, <1>5 DEF StoreOK
<1>8. Reads(src) => ReaderOK(src, u)
    BY <1>3, <1>6 DEF Good, ReaderOK
<1>9. ASSUME ~Reads(src) PROVE OwnerOK(src, u)
  <2>1. Unread(src, t.n) \in Nat /\ Len(t.slot) + Unread(src, t.n) <= src.room /\ src.room \in Nat
      BY <1>4, <1>9, UnreadNat, TextOK DEF Good, OwnerOK
  <2>2. Unread(src, u.n) = 0
      BY <1>1, <1>3 DEF Unread
  <2>3. Len(u.slot) + Unread(src, u.n) <= src.room
      BY <2>1, <2>2, <1>3, <1>4
  <2>4. \A i \in 1..Cap(u) : FALSE
      BY <1>6
  <2> QED
      BY <2>3, <2>4, <1>1, <1>3, <1>4 DEF OwnerOK
<1> QED
    BY <1>1, <1>3, <1>6, <1>7, <1>8, <1>9 DEF Good

\* A reader's step keeps the other copies good and their lists as they are.
LEMMA CopyGood ==
    ASSUME NEW src \in Sources, Reads(src), NEW s, NEW t, Good(src, s), Good(src, t), Kept(src, s, t),
           NEW g, Good(src, g), g.arrs = s.arrs, g.slot = s.slot,
           NEW u, u = [n |-> g.n, arrs |-> t.arrs, slot |-> t.slot]
    PROVE  /\ Good(src, u) /\ Cap(u) = Cap(g) /\ u.n = g.n
           /\ \A i \in 1..g.n.len : At(u, i) = At(g, i)
<1>1. /\ StoreOK(src, g) /\ g \in StoreRec /\ StoreOK(src, t) /\ t \in StoreRec /\ s \in StoreRec
      /\ ReaderOK(src, g) /\ ReaderOK(src, t)
    BY DEF Good, StoreOK
<1>2. u.n = g.n /\ u.arrs = t.arrs /\ u.slot = t.slot
    OBVIOUS
<1>3. u \in StoreRec
    BY <1>1 DEF StoreRec
<1>4. Len(s.arrs) \in Nat /\ Len(t.arrs) \in Nat /\ g.n.len \in Nat /\ g.n.arr \in Nat
      /\ g.n.arr \in 0..Len(s.arrs)
    BY <1>1, Fields DEF StoreOK
<1>5. /\ Len(s.arrs) <= Len(t.arrs)
      /\ \A b \in 1..Len(s.arrs) :
           /\ Len(t.arrs[b]) = Len(s.arrs[b])
           /\ \A i \in 1..Len(s.arrs[b]) : s.arrs[b][i] # Nil => t.arrs[b][i] = s.arrs[b][i]
    BY DEF Kept
<1> HIDE DEF Good
<1>6. g.n.arr # 0 => g.n.arr \in 1..Len(s.arrs)
    BY <1>4
<1>7. Cap(u) = Cap(g)
    BY <1>2, <1>5, <1>6 DEF Cap
<1>8. \A i \in 1..g.n.len : At(u, i) = At(g, i) /\ At(g, i) # Nil
  <2> SUFFICES ASSUME NEW i \in 1..g.n.len PROVE At(u, i) = At(g, i) /\ At(g, i) # Nil
      OBVIOUS
  <2>1. g.n.len # 0 /\ i \in 1..Cap(g) /\ At(g, i) # Nil
    <3>1. StoreOK(src, g)
        BY <1>1
    <3>2. i \in 1..Cap(g)
        BY <3>1, ListedSlot
    <3>3. At(g, i) # Nil
        BY <3>1 DEF StoreOK
    <3> QED
        BY <3>2, <3>3, <1>4
  <2>2. g.n.arr \in 1..Len(s.arrs) /\ i \in 1..Len(s.arrs[g.n.arr])
      BY <2>1, <1>1, ListedSlot
  <2>3. At(u, i) = t.arrs[g.n.arr][i] /\ At(g, i) = s.arrs[g.n.arr][i]
      BY <1>2 DEF At
  <2> QED
      BY <2>1, <2>2, <2>3, <1>5
<1>9. StoreOK(src, u)
  <2>1. ArraysOK(u)
    <3>1. ArraysOK(t)
        BY <1>1 DEF StoreOK
    <3> QED
        BY <3>1, <1>2 DEF ArraysOK
  <2>2. u.n.arr \in 0..Len(u.arrs) /\ u.n.len <= Cap(u)
    <3>1. g.n.len <= Cap(g)
        BY <1>1 DEF StoreOK
    <3> QED
        BY <3>1, <1>2, <1>4, <1>5, <1>7
  <2>3. CursorOK(src, u.n)
      BY <1>1, <1>2 DEF StoreOK
  <2> QED
      BY <2>1, <2>2, <2>3, <1>2, <1>3, <1>8 DEF StoreOK
<1>10. ReaderOK(src, u)
    BY <1>1, <1>2 DEF ReaderOK, IsContainer
<1> QED
    BY <1>2, <1>7, <1>8, <1>9, <1>10 DEF Good

\* A list that keeps its members in place is stable.
LEMMA KeptStable ==
    ASSUME NEW src, NEW s, NEW t, StoreOK(src, t), s.n.len \in Nat, s.n.len <= t.n.len,
           \A i \in 1..s.n.len : At(t, i) = At(s, i)
    PROVE  Stable(s, t) /\ \A x : In(s, x) => In(t, x)
<1>1. t.n.len \in Nat /\ \A i, j \in 1..t.n.len : At(t, i) = At(t, j) => i = j
    BY ListedSlot
<1>2. \A i \in 1..s.n.len : i \in 1..t.n.len
    BY <1>1
<1>3. \A x : In(s, x) => In(t, x)
    BY <1>2 DEF In
<1>4. ASSUME NEW i \in 1..t.n.len, NEW j \in 1..t.n.len, i < j, In(s, At(t, j))
      PROVE  \E a, b \in 1..s.n.len : a < b /\ At(s, a) = At(t, i) /\ At(s, b) = At(t, j)
  <2>1. PICK b \in 1..s.n.len : At(s, b) = At(t, j)
      BY <1>4 DEF In
  <2>2. b = j
      BY <2>1, <1>1, <1>2
  <2>3. i \in 1..s.n.len
      BY <2>2, <1>1, <1>4
  <2> QED
      BY <2>1, <2>2, <2>3, <1>4
<1> QED
    BY <1>3, <1>4 DEF Stable

\* A step of one node that takes nothing from its list.
LEMMA KeptStep ==
    ASSUME NEW src, NEW nd, NEW A, NEW L, NEW h, Edits(src, nd, A, L, h),
           NEW t, Good(src, t), Kept(src, StoreIn(nd, A, L, h), t),
           NEW nd2, nd2 = Replaced(nd, h, t.n)
    PROVE  /\ Keeps(src, nd, A, L, nd2, t.arrs, t.slot)
           /\ StoreIn(nd2, t.arrs, t.slot, h) = t
<1> USE DEF Edits, Replaced
<1> DEFINE s == StoreIn(nd, A, L, h)
           g(k) == StoreIn(nd, A, L, k)
           u(k) == StoreIn(nd2, t.arrs, t.slot, k)
<1>1. /\ src \in Sources /\ nd \in [Handles -> NodeRec]
      /\ \A k \in Handles : Good(src, g(k))
      /\ \A k \in Handles : nd[k].typ = "absent" => nd[k] = FreshNode("absent")
      /\ ~Reads(src) => \A k \in Handles : k # Root => nd[k].typ = "absent"
    BY DEF NodesOK
<1>2. Good(src, s) /\ s.n = nd[h] /\ s.arrs = A /\ s.slot = L
    BY <1>1 DEF StoreIn
<1>3. /\ StoreOK(src, s) /\ s \in StoreRec /\ StoreOK(src, t) /\ t \in StoreRec
      /\ t = [n |-> t.n, arrs |-> t.arrs, slot |-> t.slot] /\ t.n \in NodeRec
      /\ s.n.len \in Nat /\ t.n.len \in Nat /\ Len(s.slot) \in Nat /\ Len(t.slot) \in Nat
    BY <1>2, Fields DEF Good, StoreOK
<1>4. /\ nd2 \in [Handles -> NodeRec] /\ nd2[h] = t.n
      /\ \A k \in Handles : k # h => nd2[k] = nd[k]
    BY <1>1, <1>3
<1>5. u(h) = t
    BY <1>3, <1>4 DEF StoreIn
<1>6. \A k \in Handles : /\ g(k).n = nd[k] /\ g(k).arrs = A /\ g(k).slot = L
                         /\ k # h => u(k) = [n |-> nd[k], arrs |-> t.arrs, slot |-> t.slot]
    BY <1>4 DEF StoreIn
<1>7. /\ Kept(src, s, t) /\ t.n.typ \in {s.n.typ, "error"} /\ s.n.len <= t.n.len
      /\ \A i \in 1..s.n.len : At(t, i) = At(s, i)
      /\ Len(s.slot) <= Len(t.slot)
      /\ \A x \in 1..Len(s.slot) : t.slot[x].key = s.slot[x].key \/ In(s, x)
    BY DEF Kept, In
<1> HIDE DEF s, g, u
<1>8. ASSUME NEW k \in Handles, k # h
      PROVE  /\ Good(src, u(k)) /\ Stable(g(k), u(k))
             /\ nd[k].typ # "absent" => Reads(src)
             /\ \A x : In(g(k), x) => In(u(k), x)
  <2>1. CASE nd[k].typ = "absent"
    <3>1. nd[k] = FreshNode("absent")
        BY <2>1, <1>1
    <3>2. u(k) = [n |-> FreshNode("absent"), arrs |-> t.arrs, slot |-> t.slot]
        BY <3>1, <1>6, <1>8
    <3>3. Good(src, u(k)) /\ ~IsContainer(u(k))
        BY <3>2, <1>1, AbsentGood
    <3>4. g(k).n.len = 0
        BY <3>1, <1>6 DEF FreshNode
    <3> QED
        BY <2>1, <3>3, <3>4 DEF Stable, In
  <2>2. CASE nd[k].typ # "absent"
    <3>1. Reads(src)
        BY <2>2, <1>1, <1>8
    <3>2. Good(src, g(k)) /\ g(k).arrs = s.arrs /\ g(k).slot = s.slot
          /\ u(k) = [n |-> g(k).n, arrs |-> t.arrs, slot |-> t.slot]
        BY <1>1, <1>2, <1>6, <1>8
    <3>3. /\ Good(src, u(k)) /\ u(k).n = g(k).n
          /\ \A i \in 1..g(k).n.len : At(u(k), i) = At(g(k), i)
        BY <3>1, <3>2, <1>1, <1>2, <1>7, CopyGood
    <3>4. g(k).n.len \in Nat /\ StoreOK(src, u(k)) /\ g(k).n.len <= u(k).n.len
        BY <3>2, <3>3, Fields DEF Good, StoreOK
    <3>5. Stable(g(k), u(k)) /\ \A x : In(g(k), x) => In(u(k), x)
        BY <3>3, <3>4, KeptStable
    <3> QED
        BY <3>1, <3>3, <3>5
  <2> QED
      BY <2>1, <2>2
<1>9. Stable(s, t) /\ \A x : In(s, x) => In(t, x)
    BY <1>3, <1>7, KeptStable
<1>10. s = g(h)
    BY DEF s, g
<1>11. NodesOK(src, nd2, t.arrs, t.slot)
  <2>1. \A k \in Handles : Good(src, StoreIn(nd2, t.arrs, t.slot, k))
    <3>1. \A k \in Handles : Good(src, u(k))
        BY <1>5, <1>8
    <3> QED
        BY <3>1 DEF u
  <2>2. \A k \in Handles : nd2[k].typ = "absent" => nd2[k] = FreshNode("absent")
    <3>1. nd2[h].typ # "absent"
        BY <1>2, <1>4, <1>7
    <3> QED
        BY <3>1, <1>1, <1>4
  <2>3. ~Reads(src) => \A k \in Handles : k # Root => nd2[k].typ = "absent"
      BY <1>1, <1>4
  <2> QED
      BY <2>1, <2>2, <2>3, <1>1, <1>4 DEF NodesOK
<1>12. AllStable(nd, A, L, nd2, t.arrs, t.slot)
  <2>1. \A k \in Handles : Stable(g(k), u(k))
      BY <1>5, <1>8, <1>9, <1>10
  <2> QED
      BY <2>1 DEF AllStable, g, u
<1>13. ASSUME NEW p, PtrOK(src, nd, A, L, p) PROVE PtrOK(src, nd2, t.arrs, t.slot, p)
  <2> SUFFICES ASSUME p.slot # Nil PROVE PtrOK(src, nd2, t.arrs, t.slot, p)
      BY <1>13 DEF PtrOK
  <2>1. /\ p.of \in Handles /\ nd[p.of].typ # "absent" /\ p.slot \in 1..Len(L) /\ p.slot \in Nat
        /\ nd[p.of].typ \in {"array", "object"} =>
             In(g(p.of), p.slot) \/ (~Reads(src) /\ L[p.slot].key = 0)
      BY <1>13 DEF PtrOK, g
  <2>2. p.slot \in 1..Len(t.slot)
      BY <2>1, <1>2, <1>3, <1>7
  <2>3. nd2[p.of].typ # "absent" /\ nd2[p.of].typ \in {nd[p.of].typ, "error"}
      BY <2>1, <1>2, <1>4, <1>7
  <2>4. ASSUME nd2[p.of].typ \in {"array", "object"}
        PROVE  In(u(p.of), p.slot) \/ (~Reads(src) /\ t.slot[p.slot].key = 0)
    <3>1. nd[p.of].typ \in {"array", "object"}
        BY <2>3, <2>4
    <3>2. CASE p.of = h
        BY <2>1, <3>1, <3>2, <1>2, <1>5, <1>7, <1>9, <1>10
    <3>3. CASE p.of # h
        BY <2>1, <3>1, <3>3, <1>8
    <3> QED
        BY <3>2, <3>3
  <2> QED
      BY <2>1, <2>2, <2>3, <2>4 DEF PtrOK, u
<1>14. ASSUME NEW i, NEW passed, NEW lost, ItOK(src, nd, A, L, i, passed, lost)
       PROVE  ItOK(src, nd2, t.arrs, t.slot, i, passed, lost)
  <2>1. i = [of |-> i.of, pos |-> i.pos] /\ SeenOK(t.slot, passed)
    <3>1. \A x \in 1..Len(L) : x \in 1..Len(t.slot)
        BY <1>2, <1>3, <1>7
    <3> QED
        BY <3>1, <1>14 DEF ItOK, SeenOK
  <2>2. ASSUME i.of # "nobody"
        PROVE  /\ i.of \in Handles /\ nd2[i.of].typ # "absent" /\ ~Reads(src)
               /\ Passed(u(i.of), i.pos, passed, lost)
    <3>1. i.of \in Handles /\ nd[i.of].typ # "absent" /\ ~Reads(src) /\ Passed(g(i.of), i.pos, passed, lost)
        BY <2>2, <1>14 DEF ItOK, g
    <3>2. i.of = h
        BY <3>1, <1>1
    <3>3. Passed(t, i.pos, passed, lost)
        BY <3>1, <3>2, <1>3, <1>7, <1>10, PassedKept
    <3>4. nd2[h].typ # "absent"
        BY <1>2, <1>4, <1>7
    <3> QED
        BY <3>1, <3>2, <3>3, <3>4, <1>5
  <2> QED
      BY <2>1, <2>2 DEF ItOK, u
<1> QED
    BY <1>5, <1>11, <1>12, <1>13, <1>14 DEF u, Keeps
\* A member leaves the list of an owner.
LEMMA RemoveStep ==
    ASSUME NEW src, NEW nd, NEW A, NEW L, NEW h, Edits(src, nd, A, L, h), ~Reads(src),
           NEW s, s = StoreIn(nd, A, L, h), NEW i \in 1..s.n.len,
           NEW t, Good(src, t), Removes(s, i, t),
           NEW nd2, nd2 = Replaced(nd, h, t.n)
    PROVE  Shortens(src, nd, A, L, nd2, t.arrs, t.slot, h)
<1> USE DEF Edits, Replaced
<1> DEFINE g(k) == StoreIn(nd, A, L, k)
           u(k) == StoreIn(nd2, t.arrs, t.slot, k)
           l == s.n.len
<1>1. /\ src \in Sources /\ nd \in [Handles -> NodeRec]
      /\ \A k \in Handles : Good(src, g(k))
      /\ \A k \in Handles : nd[k].typ = "absent" => nd[k] = FreshNode("absent")
      /\ \A k \in Handles : k # Root => nd[k].typ = "absent"
    BY DEF NodesOK
<1>2. Good(src, s) /\ s.n = nd[h] /\ s.arrs = A /\ s.slot = L
    BY <1>1 DEF StoreIn
<1>3. /\ StoreOK(src, s) /\ s \in StoreRec /\ StoreOK(src, t) /\ t \in StoreRec
      /\ t = [n |-> t.n, arrs |-> t.arrs, slot |-> t.slot] /\ t.n \in NodeRec
      /\ Len(s.slot) \in Nat /\ s.slot \in Seq(Member)
    BY <1>2, Fields DEF Good, StoreOK
<1>4. /\ nd2 \in [Handles -> NodeRec] /\ nd2[h] = t.n
      /\ \A k \in Handles : k # h => nd2[k] = nd[k] /\ nd[k].typ = "absent"
  <2>1. h = Root
      BY <1>1
  <2> QED
      BY <2>1, <1>1, <1>3
<1>5. u(h) = t /\ g(h) = s
    BY <1>3, <1>4 DEF StoreIn
<1>6. /\ t.n.typ = s.n.typ /\ t.n.len = l - 1
      /\ \A j \in 1..(l - 1) : At(t, j) = IF j < i THEN At(s, j) ELSE At(s, j + 1)
      /\ t.slot = [s.slot EXCEPT ![At(s, i)] = Cleared]
    BY DEF Removes
<1>7. /\ l \in Nat /\ i \in 1..l
      /\ \A j \in 1..l : At(s, j) \in 1..Len(s.slot)
      /\ \A j, k \in 1..l : At(s, j) = At(s, k) => j = k
    BY <1>3, ListedSlot
<1>8. Len(t.slot) = Len(L) /\ \A x \in 1..Len(L) : t.slot[x] = IF x = At(s, i) THEN Cleared ELSE L[x]
    BY <1>2, <1>3, <1>6, <1>7
<1> HIDE DEF l, g, u
<1>9. /\ \A j \in 1..(l - 1) : j \in 1..l /\ j + 1 \in 1..l /\ (i <= j => j + 1 > i)
      /\ \A j \in 1..l : i < j => j - 1 \in 1..(l - 1) /\ ~(j - 1 < i) /\ (j - 1) + 1 = j
      /\ \A j \in 1..l : j < i => j \in 1..(l - 1)
      /\ \A j, k \in 1..(l - 1) : j < k => j < k + 1 /\ j + 1 < k + 1
      /\ \A j, k \in 1..(l - 1) : ~(j < i) /\ k < i => ~(j < k)
    BY <1>7
<1>10. \A j, k \in 1..(l - 1) : j < k =>
         \E a, b \in 1..l : a < b /\ At(s, a) = At(t, j) /\ At(s, b) = At(t, k)
  <2> SUFFICES ASSUME NEW j \in 1..(l - 1), NEW k \in 1..(l - 1), j < k
               PROVE  \E a, b \in 1..l : a < b /\ At(s, a) = At(t, j) /\ At(s, b) = At(t, k)
      OBVIOUS
  <2>1. CASE j < i /\ k < i
      BY <2>1, <1>6, <1>9
  <2>2. CASE j < i /\ ~(k < i)
      BY <2>2, <1>6, <1>9
  <2>3. CASE ~(j < i) /\ ~(k < i)
      BY <2>3, <1>6, <1>9
  <2> QED
      BY <2>1, <2>2, <2>3, <1>9
<1>11. \A x : In(s, x) => In(t, x) \/ x = At(s, i)
  <2> SUFFICES ASSUME NEW j \in 1..l, j # i PROVE In(t, At(s, j))
      BY DEF In, l
  <2>1. CASE j < i
    <3>1. j \in 1..(l - 1) /\ At(t, j) = At(s, j)
        BY <2>1, <1>6, <1>9
    <3> QED
        BY <3>1, <1>6 DEF In
  <2>2. CASE i < j
    <3>1. j - 1 \in 1..(l - 1) /\ At(t, j - 1) = At(s, j)
        BY <2>2, <1>6, <1>9
    <3> QED
        BY <3>1, <1>6 DEF In
  <2> QED
      BY <2>1, <2>2, <1>7
<1>12. Stable(s, t)
  <2>1. \A j, k \in 1..t.n.len : j < k => \E a, b \in 1..s.n.len : a < b /\ At(s, a) = At(t, j) /\ At(s, b) = At(t, k)
      BY <1>6, <1>10 DEF l
  <2>2. \A x : In(s, x) /\ ~In(t, x) => t.slot[x] = Cleared
      BY <1>2, <1>7, <1>8, <1>11
  <2> QED
      BY <2>1, <2>2 DEF Stable
<1>13. \A k \in Handles : k # h => /\ nd2[k] = FreshNode("absent") /\ nd[k] = FreshNode("absent")
                                   /\ u(k) = [n |-> FreshNode("absent"), arrs |-> t.arrs, slot |-> t.slot]
                                   /\ g(k).n.len = 0
  <2> SUFFICES ASSUME NEW k \in Handles, k # h
               PROVE  /\ nd2[k] = FreshNode("absent") /\ nd[k] = FreshNode("absent")
                      /\ u(k) = [n |-> FreshNode("absent"), arrs |-> t.arrs, slot |-> t.slot]
                      /\ g(k).n.len = 0
      OBVIOUS
  <2>1. nd2[k] = FreshNode("absent") /\ nd[k] = FreshNode("absent")
      BY <1>1, <1>4
  <2>2. u(k) = [n |-> FreshNode("absent"), arrs |-> t.arrs, slot |-> t.slot]
      BY <2>1 DEF u, StoreIn
  <2>3. g(k).n.len = 0
      BY <2>1 DEF g, StoreIn, FreshNode
  <2> QED
      BY <2>1, <2>2, <2>3
<1>14. \A k \in Handles : k # h => Good(src, u(k)) /\ ~IsContainer(u(k))
    BY <1>1, <1>13, AbsentGood
<1>15. NodesOK(src, nd2, t.arrs, t.slot)
  <2>1. \A k \in Handles : Good(src, StoreIn(nd2, t.arrs, t.slot, k))
    <3>1. \A k \in Handles : Good(src, u(k))
        BY <1>5, <1>14
    <3> QED
        BY <3>1 DEF u
  <2>2. \A k \in Handles : nd2[k].typ = "absent" => nd2[k] = FreshNode("absent")
      BY <1>2, <1>4, <1>6, <1>13
  <2>3. \A k \in Handles : k # Root => nd2[k].typ = "absent"
      BY <1>1, <1>4
  <2> QED
      BY <2>1, <2>2, <2>3, <1>1, <1>4 DEF NodesOK
<1>16. AllStable(nd, A, L, nd2, t.arrs, t.slot)
  <2>1. \A k \in Handles : Stable(g(k), u(k))
      BY <1>5, <1>12, <1>14 DEF Stable
  <2> QED
      BY <2>1 DEF AllStable, g, u
<1>17. ASSUME NEW p, PtrOK(src, nd, A, L, p) PROVE PtrOK(src, nd2, t.arrs, t.slot, p)
  <2> SUFFICES ASSUME p.slot # Nil PROVE PtrOK(src, nd2, t.arrs, t.slot, p)
      BY <1>17 DEF PtrOK
  <2>1. /\ p.of \in Handles /\ nd[p.of].typ # "absent" /\ p.slot \in 1..Len(L) /\ p.slot \in Nat
        /\ nd[p.of].typ \in {"array", "object"} =>
             In(g(p.of), p.slot) \/ L[p.slot].key = 0
      BY <1>17 DEF PtrOK, g
  <2>2. p.of = h
      BY <2>1, <1>4
  <2>3. nd2[h].typ = nd[h].typ
      BY <1>2, <1>4, <1>6
  <2>4. ASSUME nd[h].typ \in {"array", "object"}
        PROVE  In(u(p.of), p.slot) \/ t.slot[p.slot].key = 0
    <3>1. Cleared.key = 0
        BY DEF Cleared
    <3>2. CASE p.slot = At(s, i)
        BY <3>1, <3>2, <2>1, <1>8
    <3>3. CASE p.slot # At(s, i)
        BY <3>3, <2>1, <2>2, <2>4, <1>5, <1>8, <1>11
    <3> QED
        BY <3>2, <3>3
  <2> QED
      BY <2>1, <2>2, <2>3, <2>4, <1>8 DEF PtrOK, u
<1>18. ASSUME NEW k, NEW passed, NEW lost, ItOK(src, nd, A, L, k, passed, lost)
       PROVE  ItOK(src, nd2, t.arrs, t.slot, k, passed, Lost(lost, k, h))
  <2>1. k = [of |-> k.of, pos |-> k.pos] /\ SeenOK(t.slot, passed)
      BY <1>8, <1>18 DEF ItOK, SeenOK
  <2>2. ASSUME k.of # "nobody"
        PROVE  /\ k.of \in Handles /\ nd2[k.of].typ # "absent"
               /\ Passed(u(k.of), k.pos, passed, Lost(lost, k, h))
    <3>1. k.of \in Handles /\ nd[k.of].typ # "absent" /\ Passed(g(k.of), k.pos, passed, lost)
        BY <2>2, <1>18 DEF ItOK, g
    <3>2. k.of = h /\ nd2[h].typ # "absent"
        BY <3>1, <1>2, <1>4, <1>6
    <3>3. k.pos \in Nat /\ \A j \in 1..l : j > k.pos => \A x \in 1..Len(passed) : passed[x] # At(s, j)
        BY <3>1, <3>2, <1>5 DEF Passed, l
    <3>4. ASSUME NEW j \in 1..(l - 1), j > k.pos, NEW x \in 1..Len(passed) PROVE passed[x] # At(t, j)
      <4>1. j + 1 > k.pos /\ j \in 1..l /\ j + 1 \in 1..l
          BY <3>3, <3>4, <1>7
      <4> QED
          BY <4>1, <3>3, <3>4, <1>6
    <3>5. \A j \in 1..t.n.len : j > k.pos => \A x \in 1..Len(passed) : passed[x] # At(t, j)
        BY <3>4, <1>6
    <3>6. Passed(t, k.pos, passed, TRUE)
        BY <3>3, <3>5, <2>1 DEF Passed
    <3>7. Passed(t, k.pos, passed, Lost(lost, k, h))
        BY <3>2, <3>6 DEF Passed, Lost
    <3> QED
        BY <3>1, <3>2, <3>7, <1>5
  <2> QED
      BY <2>1, <2>2 DEF ItOK, u
<1> QED
    BY <1>15, <1>16, <1>17, <1>18 DEF Shortens

\* An owner's node gets a new value.
LEMMA AssignStep ==
    ASSUME NEW src, NEW nd, NEW A, NEW L, NEW h, Edits(src, nd, A, L, h), ~Reads(src),
           NEW t, Good(src, t), t.n.typ # "absent",
           Len(L) <= Len(t.slot), \A i \in 1..t.n.len : At(t, i) > Len(L),
           Stable(StoreIn(nd, A, L, h), t),
           NEW nd2, nd2 = Replaced(nd, h, t.n)
    PROVE  Replaces(src, nd, A, L, nd2, t.arrs, t.slot, h)
<1> USE DEF Edits, Replaced
<1> DEFINE g(k) == StoreIn(nd, A, L, k)
           u(k) == StoreIn(nd2, t.arrs, t.slot, k)
           s == g(h)
<1>1. /\ src \in Sources /\ nd \in [Handles -> NodeRec]
      /\ \A k \in Handles : Good(src, g(k))
      /\ \A k \in Handles : nd[k].typ = "absent" => nd[k] = FreshNode("absent")
      /\ \A k \in Handles : k # Root => nd[k].typ = "absent"
    BY DEF NodesOK
<1>2. Good(src, s) /\ s.n = nd[h] /\ s.arrs = A /\ s.slot = L
    BY <1>1 DEF StoreIn
<1>3. /\ StoreOK(src, t) /\ t \in StoreRec /\ Len(L) \in Nat
      /\ t = [n |-> t.n, arrs |-> t.arrs, slot |-> t.slot] /\ t.n \in NodeRec
      /\ t.n.len \in Nat /\ Len(t.slot) \in Nat
    BY <1>2, Fields DEF Good, StoreOK
<1>4. /\ nd2 \in [Handles -> NodeRec] /\ nd2[h] = t.n
      /\ \A k \in Handles : k # h => nd2[k] = nd[k] /\ nd[k].typ = "absent"
  <2>1. h = Root
      BY <1>1
  <2> QED
      BY <2>1, <1>1, <1>3
<1>5. u(h) = t
    BY <1>3, <1>4 DEF StoreIn
<1> HIDE DEF g, u, s
<1>6. \A k \in Handles : k # h => /\ nd2[k] = FreshNode("absent")
                                  /\ u(k) = [n |-> FreshNode("absent"), arrs |-> t.arrs, slot |-> t.slot]
  <2>1. \A k \in Handles : k # h => nd2[k] = FreshNode("absent")
      BY <1>1, <1>4
  <2> QED
      BY <2>1 DEF u, StoreIn
<1>7. \A k \in Handles : k # h => Good(src, u(k)) /\ ~IsContainer(u(k))
    BY <1>1, <1>6, AbsentGood
<1>8. NodesOK(src, nd2, t.arrs, t.slot)
  <2>1. \A k \in Handles : Good(src, StoreIn(nd2, t.arrs, t.slot, k))
    <3>1. \A k \in Handles : Good(src, u(k))
        BY <1>5, <1>7
    <3> QED
        BY <3>1 DEF u
  <2>2. \A k \in Handles : nd2[k].typ = "absent" => nd2[k] = FreshNode("absent")
      BY <1>4, <1>6
  <2>3. \A k \in Handles : k # Root => nd2[k].typ = "absent"
      BY <1>1, <1>4
  <2> QED
      BY <2>1, <2>2, <2>3, <1>1, <1>4 DEF NodesOK
<1>9. AllStable(nd, A, L, nd2, t.arrs, t.slot)
  <2>1. Stable(g(h), u(h))
      BY <1>5 DEF g
  <2>2. \A k \in Handles : Stable(g(k), u(k))
      BY <2>1, <1>7 DEF Stable
  <2> QED
      BY <2>2 DEF AllStable, g, u
<1>10. ASSUME NEW p, PtrOK(src, nd, A, L, p)
       PROVE  PtrOK(src, nd2, t.arrs, t.slot, Past(p, h))
  <2>1. CASE p.of = h
      BY <2>1 DEF PtrOK, Nil, Past
  <2>2. CASE p.of # h
      BY <2>2, <1>4, <1>10 DEF PtrOK, Past
  <2> QED
      BY <2>1, <2>2
<1>11. ASSUME NEW k, NEW passed, NEW lost, ItOK(src, nd, A, L, k, passed, lost)
       PROVE  ItOK(src, nd2, t.arrs, t.slot, k, passed, Lost(lost, k, h))
  <2>1. k = [of |-> k.of, pos |-> k.pos] /\ SeenOK(t.slot, passed)
        /\ \A x \in 1..Len(passed) : passed[x] \in 1..Len(L)
    <3>1. \A x \in 1..Len(L) : x \in 1..Len(t.slot)
        BY <1>3
    <3> QED
        BY <3>1, <1>11 DEF ItOK, SeenOK
  <2>2. ASSUME k.of # "nobody"
        PROVE  /\ k.of \in Handles /\ nd2[k.of].typ # "absent"
               /\ Passed(u(k.of), k.pos, passed, Lost(lost, k, h))
    <3>1. k.of \in Handles /\ nd[k.of].typ # "absent" /\ k.pos \in Nat
        BY <2>2, <1>11 DEF ItOK, Passed
    <3>2. k.of = h
        BY <3>1, <1>4
    <3>3. \A i \in 1..t.n.len : \A x \in 1..Len(passed) : passed[x] # At(t, i)
      <4>1. \A x \in 1..Len(L) : ~(x > Len(L))
          BY <1>3
      <4> QED
          BY <4>1, <2>1
    <3>4. Passed(t, k.pos, passed, Lost(lost, k, h))
        BY <3>1, <3>2, <3>3, <2>1 DEF Passed, Lost
    <3> QED
        BY <3>1, <3>2, <3>4, <1>4, <1>5
  <2> QED
      BY <2>1, <2>2 DEF ItOK, u
<1> QED
    BY <1>8, <1>9, <1>10, <1>11 DEF Replaces

\* A reader copies a node.
LEMMA CopyStep ==
    ASSUME NEW src, NEW nd, NEW A, NEW L, NEW h, Edits(src, nd, A, L, h), Reads(src),
           NEW c \in Handles, nd[c].typ = "absent", NEW nd2, nd2 = Replaced(nd, c, nd[h])
    PROVE  Keeps(src, nd, A, L, nd2, A, L)
<1> USE DEF Edits, Replaced
<1> DEFINE g(k) == StoreIn(nd, A, L, k)
           u(k) == StoreIn(nd2, A, L, k)
<1>1. /\ src \in Sources /\ nd \in [Handles -> NodeRec]
      /\ \A k \in Handles : Good(src, g(k))
      /\ \A k \in Handles : nd[k].typ = "absent" => nd[k] = FreshNode("absent")
    BY DEF NodesOK
<1>2. /\ nd2 \in [Handles -> NodeRec] /\ nd2[c] = nd[h]
      /\ \A k \in Handles : k # c => nd2[k] = nd[k]
    BY <1>1
<1>3. u(c) = g(h) /\ \A k \in Handles : k # c => u(k) = g(k)
    BY <1>2 DEF StoreIn
<1>4. g(c).n.len = 0
    BY <1>1 DEF StoreIn, FreshNode
<1> HIDE DEF g, u
<1>5. NodesOK(src, nd2, A, L)
  <2>1. \A k \in Handles : Good(src, u(k))
      BY <1>1, <1>3
  <2>2. \A k \in Handles : Good(src, StoreIn(nd2, A, L, k))
      BY <2>1 DEF u
  <2> QED
      BY <2>2, <1>1, <1>2 DEF NodesOK
<1>6. AllStable(nd, A, L, nd2, A, L)
  <2>1. \A x : ~In(g(c), x)
      BY <1>4 DEF In
  <2>2. Stable(g(c), u(c))
      BY <2>1 DEF Stable
  <2>3. ASSUME NEW k \in Handles, k # c PROVE Stable(g(k), u(k))
    <3>1. StoreOK(src, g(k)) /\ g(k).n.len \in Nat /\ g(k).n.len <= g(k).n.len
        BY <1>1, Fields DEF Good, StoreOK
    <3>2. Stable(g(k), g(k))
        BY <3>1, KeptStable
    <3> QED
        BY <3>2, <2>3, <1>3
  <2> QED
      BY <2>2, <2>3 DEF AllStable, g, u
<1>7. ASSUME NEW p, PtrOK(src, nd, A, L, p) PROVE PtrOK(src, nd2, A, L, p)
  <2> SUFFICES ASSUME p.slot # Nil PROVE PtrOK(src, nd2, A, L, p)
      BY <1>7 DEF PtrOK
  <2>1. p.of \in Handles /\ p.of # c
      BY <1>7 DEF PtrOK
  <2>2. StoreIn(nd2, A, L, p.of) = StoreIn(nd, A, L, p.of)
      BY <2>1, <1>3 DEF u, g
  <2> QED
      BY <2>1, <2>2, <1>2, <1>7 DEF PtrOK
<1>8. ASSUME NEW k, NEW passed, NEW lost, ItOK(src, nd, A, L, k, passed, lost)
      PROVE  ItOK(src, nd2, A, L, k, passed, lost)
    BY <1>8 DEF ItOK
<1> QED
    BY <1>5, <1>6, <1>7, <1>8 DEF Keeps

\* A step that takes nothing, after a load.
LEMMA LoadedKept ==
    ASSUME NEW src, ~Reads(src), NEW s, NEW t, NEW u, Good(src, s), Good(src, t), Good(src, u),
           Loads(src, s, t), Kept(src, t, u)
    PROVE  Kept(src, s, u)
<1>1. /\ s \in StoreRec /\ t \in StoreRec /\ s.n.arr \in 0..Len(s.arrs)
    BY DEF Good, StoreOK
<1>2. /\ Len(s.slot) \in Nat /\ Len(t.slot) \in Nat /\ Len(s.arrs) \in Nat /\ Len(t.arrs) \in Nat
      /\ s.n.len \in Nat /\ t.n.len \in Nat
    BY <1>1, Fields
<1>3. /\ Len(s.slot) <= Len(t.slot) /\ Len(s.arrs) <= Len(t.arrs)
      /\ \A b \in 1..Len(s.arrs) :
           /\ Len(t.arrs[b]) = Len(s.arrs[b])
           /\ \A i \in 1..Len(s.arrs[b]) : s.arrs[b][i] # Nil => t.arrs[b][i] = s.arrs[b][i]
      /\ s.n.len <= t.n.len /\ \A i \in 1..s.n.len : At(t, i) = At(s, i)
      /\ t.n.typ \in {s.n.typ, "error"} /\ (s.n.typ = "absent" => t.n.typ = "absent")
      /\ s.n.raw = FALSE => t.n.raw = FALSE
      /\ \A i \in 1..t.n.len : i > s.n.len => At(t, i) > Len(s.slot)
      /\ \A x \in 1..Len(s.slot) : t.slot[x] = s.slot[x]
    BY DEF Loads, Brings, Kept
<1>4. /\ Len(t.slot) <= Len(u.slot) /\ Len(t.arrs) <= Len(u.arrs)
      /\ \A b \in 1..Len(t.arrs) :
           /\ Len(u.arrs[b]) = Len(t.arrs[b])
           /\ \A i \in 1..Len(t.arrs[b]) : t.arrs[b][i] # Nil => u.arrs[b][i] = t.arrs[b][i]
      /\ t.n.len <= u.n.len /\ \A i \in 1..t.n.len : At(u, i) = At(t, i)
      /\ u.n.typ \in {t.n.typ, "error"} /\ (t.n.typ = "absent" => u.n.typ = "absent")
      /\ t.n.raw = FALSE => u.n.raw = FALSE
      /\ \A i \in 1..u.n.len : i > t.n.len => At(u, i) > Len(t.slot)
      /\ \A x \in 1..Len(t.slot) :
           u.slot[x].key = t.slot[x].key \/ \E i \in 1..t.n.len : At(t, i) = x
    BY DEF Kept
<1>5. \A i \in 1..t.n.len : At(t, i) \in 1..Len(t.slot)
    BY ListedSlot DEF Good
<1>6. /\ \A b \in 1..Len(s.arrs) : b \in 1..Len(t.arrs)
      /\ \A i \in 1..s.n.len : i \in 1..t.n.len
      /\ \A x \in 1..Len(s.slot) : x \in 1..Len(t.slot) /\ ~(x > Len(s.slot))
      /\ \A i \in 1..t.n.len : i \in 1..s.n.len \/ i > s.n.len
    BY <1>2, <1>3
<1>7. /\ Len(s.slot) <= Len(u.slot) /\ Len(s.arrs) <= Len(u.arrs) /\ s.n.len <= u.n.len
      /\ Len(u.slot) \in Nat /\ u.n.len \in Nat
  <2>1. u \in StoreRec
      BY DEF Good, StoreOK
  <2>2. Len(u.slot) \in Nat /\ Len(u.arrs) \in Nat /\ u.n.len \in Nat
      BY <2>1, Fields
  <2> QED
      BY <2>2, <1>2, <1>3, <1>4
<1>8. \A b \in 1..Len(s.arrs) :
        /\ Len(u.arrs[b]) = Len(s.arrs[b])
        /\ \A i \in 1..Len(s.arrs[b]) : s.arrs[b][i] # Nil => u.arrs[b][i] = s.arrs[b][i]
  <2> SUFFICES ASSUME NEW b \in 1..Len(s.arrs)
               PROVE  /\ Len(u.arrs[b]) = Len(s.arrs[b])
                      /\ \A i \in 1..Len(s.arrs[b]) :
                           s.arrs[b][i] # Nil => u.arrs[b][i] = s.arrs[b][i]
      OBVIOUS
  <2>1. /\ Len(t.arrs[b]) = Len(s.arrs[b])
        /\ \A i \in 1..Len(s.arrs[b]) : s.arrs[b][i] # Nil => t.arrs[b][i] = s.arrs[b][i]
      BY <1>3
  <2>2. /\ Len(u.arrs[b]) = Len(t.arrs[b])
        /\ \A i \in 1..Len(t.arrs[b]) : t.arrs[b][i] # Nil => u.arrs[b][i] = t.arrs[b][i]
      BY <1>4, <1>6
  <2> QED
      BY <2>1, <2>2
<1>9. \A i \in 1..s.n.len : At(u, i) = At(s, i)
    BY <1>3, <1>4, <1>6
<1>10. \A i \in 1..u.n.len : i > s.n.len => At(u, i) > Len(s.slot)
  <2> SUFFICES ASSUME NEW i \in 1..u.n.len, i > s.n.len PROVE At(u, i) > Len(s.slot)
      OBVIOUS
  <2>1. CASE i <= t.n.len
    <3>1. i \in 1..t.n.len
        BY <2>1, <1>2, <1>7
    <3> QED
        BY <3>1, <1>3, <1>4
  <2>2. CASE ~(i <= t.n.len)
    <3>1. i > t.n.len
        BY <2>2, <1>2, <1>7
    <3>2. At(u, i) > Len(t.slot) /\ At(u, i) \in 1..Len(u.slot)
        BY <3>1, <1>4, ListedSlot DEF Good
    <3> QED
        BY <3>2, <1>2, <1>3, <1>7
  <2> QED
      BY <2>1, <2>2
<1>11. \A x \in 1..Len(s.slot) :
         u.slot[x].key = s.slot[x].key \/ \E i \in 1..s.n.len : At(s, i) = x
  <2> SUFFICES ASSUME NEW x \in 1..Len(s.slot), NEW i \in 1..t.n.len, At(t, i) = x
               PROVE  \E j \in 1..s.n.len : At(s, j) = x
      BY <1>3, <1>4, <1>6
  <2>1. ~(i > s.n.len)
      BY <1>3, <1>6
  <2> QED
      BY <2>1, <1>3, <1>6
<1>12. /\ u.n.typ \in {s.n.typ, "error"} /\ (s.n.typ = "absent" => u.n.typ = "absent")
       /\ s.n.raw = FALSE => u.n.raw = FALSE
    BY <1>3, <1>4
<1> QED
    BY <1>7, <1>8, <1>9, <1>10, <1>11, <1>12 DEF Kept

\* A member leaves the list of an owner once the whole text is loaded.
LEMMA LoadRemoveStep ==
    ASSUME NEW src, NEW nd, NEW A, NEW L, NEW h, Edits(src, nd, A, L, h), ~Reads(src),
           NEW s, Loads(src, StoreIn(nd, A, L, h), s), NEW i \in 1..s.n.len,
           NEW t, Good(src, t), Removes(s, i, t),
           NEW nd2, nd2 = Replaced(nd, h, t.n)
    PROVE  Shortens(src, nd, A, L, nd2, t.arrs, t.slot, h)
<1> DEFINE nd1 == Replaced(nd, h, s.n)
           s0 == StoreIn(nd, A, L, h)
<1>1. Good(src, s) /\ Kept(src, s0, s) /\ nd \in [Handles -> NodeRec] /\ Good(src, s0)
    BY DEF Loads, Brings, NodesOK, Edits
<1>2. Keeps(src, nd, A, L, nd1, s.arrs, s.slot) /\ StoreIn(nd1, s.arrs, s.slot, h) = s
  <2>1. Good(src, s) /\ Kept(src, StoreIn(nd, A, L, h), s) /\ nd1 = Replaced(nd, h, s.n)
      BY <1>1
  <2> HIDE DEF nd1
  <2> QED
      BY <2>1, KeptStep
<1>3. nd1[h] = s.n /\ nd1[h].typ # "absent" /\ nd2 = Replaced(nd1, h, t.n)
  <2>1. s.n \in NodeRec /\ s.n.typ # "absent"
    <3>1. s \in StoreRec /\ s0.n = nd[h] /\ s.n.typ \in {s0.n.typ, "error"}
        BY <1>1 DEF Good, StoreOK, StoreIn, Kept
    <3>2. s.n.typ # "absent"
        BY <3>1 DEF Edits
    <3> QED
        BY <3>1, <3>2, Fields
  <2> QED
      BY <2>1, <1>1 DEF Edits, Replaced
<1> HIDE DEF nd1, s0
<1>4. Shortens(src, nd1, s.arrs, s.slot, nd2, t.arrs, t.slot, h)
  <2>1. Edits(src, nd1, s.arrs, s.slot, h) /\ s = StoreIn(nd1, s.arrs, s.slot, h)
      BY <1>2, <1>3 DEF Edits, Keeps
  <2> QED
      BY <2>1, <1>3, RemoveStep
<1>5. Stable(s, StoreIn(nd2, t.arrs, t.slot, h))
    BY <1>2, <1>4 DEF AllStable, Shortens, Edits
<1>6. /\ \A j \in 1..s0.n.len : At(s, j) = At(s0, j) /\ j \in 1..s.n.len
      /\ \A j \in 1..s.n.len : j \in 1..s0.n.len \/ j > s0.n.len
      /\ \A j, k \in 1..s.n.len : At(s, j) = At(s, k) => j = k
      /\ s0.n.len \in Nat /\ s.n.len \in Nat
  <2>1. s0 \in StoreRec /\ s \in StoreRec
      BY <1>1 DEF Good, StoreOK
  <2>2. s0.n.len \in Nat /\ s.n.len \in Nat
      BY <2>1, Fields
  <2>3. s0.n.len <= s.n.len /\ \A j \in 1..s0.n.len : At(s, j) = At(s0, j)
      BY <1>1 DEF Kept
  <2>4. \A j, k \in 1..s.n.len : At(s, j) = At(s, k) => j = k
      BY <1>1, ListedSlot DEF Good
  <2> QED
      BY <2>2, <2>3, <2>4
<1>7. ASSUME NEW v, Stable(s, v) PROVE Stable(s0, v)
  <2> SUFFICES ASSUME ~(~IsContainer(v) \/ v.n.raw) PROVE Stable(s0, v)
      BY DEF Stable
  <2>1. /\ \A j, k \in 1..v.n.len : j < k /\ In(s, At(v, k)) =>
             \E a, b \in 1..s.n.len : a < b /\ At(s, a) = At(v, j) /\ At(s, b) = At(v, k)
        /\ \A x : In(s, x) /\ ~In(v, x) => v.slot[x] = Cleared
      BY <1>7 DEF Stable
  <2>2. \A x : In(s0, x) => In(s, x)
      BY <1>6 DEF In
  <2>3. ASSUME NEW j \in 1..v.n.len, NEW k \in 1..v.n.len, j < k, In(s0, At(v, k))
        PROVE  \E a, b \in 1..s0.n.len : a < b /\ At(s0, a) = At(v, j) /\ At(s0, b) = At(v, k)
    <3>1. PICK a \in 1..s.n.len, b \in 1..s.n.len :
            a < b /\ At(s, a) = At(v, j) /\ At(s, b) = At(v, k)
        BY <2>1, <2>2, <2>3
    <3>2. PICK c \in 1..s0.n.len : At(s0, c) = At(v, k)
        BY <2>3 DEF In
    <3>3. b = c
        BY <3>1, <3>2, <1>6
    <3>4. a \in 1..s0.n.len /\ b \in 1..s0.n.len
        BY <3>1, <3>3, <1>6
    <3> QED
        BY <3>1, <3>4, <1>6
  <2> QED
      BY <2>1, <2>2, <2>3 DEF Stable
<1>8. \A k \in Handles : k # h => nd2[k].typ = "absent"
  <2>1. \A k \in Handles : k # Root => nd[k].typ = "absent" /\ nd2[k].typ = "absent"
      BY <1>4 DEF NodesOK, Shortens, Edits
  <2>2. h = Root
      BY <2>1 DEF Edits
  <2> QED
      BY <2>1, <2>2
<1>9. \A k \in Handles : Stable(StoreIn(nd, A, L, k), StoreIn(nd2, t.arrs, t.slot, k))
  <2> SUFFICES ASSUME NEW k \in Handles
               PROVE  Stable(StoreIn(nd, A, L, k), StoreIn(nd2, t.arrs, t.slot, k))
      OBVIOUS
  <2>1. CASE k = h
      BY <2>1, <1>5, <1>7 DEF s0
  <2>2. CASE k # h
      BY <2>2, <1>8 DEF Stable, StoreIn, IsContainer
  <2> QED
      BY <2>1, <2>2
<1>10. AllStable(nd, A, L, nd2, t.arrs, t.slot)
    BY <1>9 DEF AllStable
<1>11. ASSUME NEW k, NEW passed, NEW lost, ItOK(src, nd, A, L, k, passed, lost)
       PROVE  ItOK(src, nd2, t.arrs, t.slot, k, passed, Lost(lost, k, h))
  <2>1. ItOK(src, nd1, s.arrs, s.slot, k, passed, lost)
      BY <1>2, <1>11 DEF Keeps
  <2> QED
      BY <2>1, <1>4 DEF Shortens
<1>12. \A p : PtrOK(src, nd, A, L, p) => PtrOK(src, nd2, t.arrs, t.slot, p)
    BY <1>2, <1>4 DEF Keeps, Shortens
<1> QED
    BY <1>4, <1>10, <1>11, <1>12 DEF Shortens
-----------------------------------------------------------------------------
(* The invariant of a state, and the steps that keep it.                    *)

NodesInv == NodesOK(source, node, arrs, slot)
PtrInv == PtrOK(source, node, arrs, slot, ptr)
ItInv == ItOK(source, node, arrs, slot, it, seen, shrunk)
Inv == NodesInv /\ PtrInv /\ ItInv

Steady == AllStable(node, arrs, slot, node', arrs', slot')

\* A node that exists is one to work on.
LEMMA Existing ==
    ASSUME Inv, NEW h \in Handles, Alive(h)
    PROVE  /\ source \in Sources /\ Good(source, Store(h)) /\ Edits(source, node, arrs, slot, h)
           /\ StoreIn(node, arrs, slot, h) = Store(h)
           /\ Store(h).n = node[h] /\ Store(h).arrs = arrs /\ Store(h).slot = slot
<1>1. StoreIn(node, arrs, slot, h) = Store(h)
    BY DEF StoreIn, Store
<1>2. NodesOK(source, node, arrs, slot)
    BY DEF Inv, NodesInv
<1>3. source \in Sources /\ Good(source, StoreIn(node, arrs, slot, h))
    BY <1>2 DEF NodesOK
<1>4. Edits(source, node, arrs, slot, h)
    BY <1>2 DEF Edits, Alive
<1> QED
    BY <1>1, <1>3, <1>4 DEF Store

\* A container exists.
LEMMA ContainerExists ==
    ASSUME NEW h \in Handles, IsContainer(Store(h))
    PROVE  Alive(h)
    BY DEF IsContainer, Store, Alive

\* A step that keeps all this, with the pointer and the iterator as they are ...
LEMMA KeepsAll ==
    ASSUME Inv, Keeps(source, node, arrs, slot, node', arrs', slot'), UNCHANGED <<source, cursor>>
    PROVE  Inv' /\ Steady
<1>1. /\ NodesOK(source, node', arrs', slot')
      /\ PtrOK(source, node', arrs', slot', ptr)
      /\ ItOK(source, node', arrs', slot', it, seen, shrunk)
      /\ Steady
    BY DEF Inv, NodesInv, PtrInv, ItInv, Keeps, Steady
<1>2. source' = source /\ ptr' = ptr /\ it' = it /\ seen' = seen /\ shrunk' = shrunk
    BY DEF cursor
<1> QED
    BY <1>1, <1>2 DEF Inv, NodesInv, PtrInv, ItInv

\* A step that keeps the store of a node.
LEMMA PutKeeps ==
    ASSUME Inv, NEW h \in Handles, Alive(h), NEW t, Good(source, t), Kept(source, Store(h), t),
           Put(h, t), UNCHANGED source
    PROVE  /\ Keeps(source, node, arrs, slot, node', arrs', slot')
           /\ StoreIn(node', arrs', slot', h) = t
<1>1. Edits(source, node, arrs, slot, h) /\ StoreIn(node, arrs, slot, h) = Store(h)
    BY Existing
<1>2. node' = Replaced(node, h, t.n) /\ arrs' = t.arrs /\ slot' = t.slot
    BY DEF Put, Replaced
<1>3. Kept(source, StoreIn(node, arrs, slot, h), t)
    BY <1>1
<1> QED
    BY <1>1, <1>2, <1>3, KeptStep

\* A pointer into the list of a node is a member of it.
LEMMA NewPointer ==
    ASSUME Inv, NEW h \in Handles, Alive(h), NEW t, Good(source, t), Kept(source, Store(h), t),
           Put(h, t), UNCHANGED source, NEW i \in 1..t.n.len
    PROVE  PtrOK(source, node', arrs', slot', [of |-> h, slot |-> At(t, i)])
<1>1. StoreIn(node', arrs', slot', h) = t
    BY PutKeeps
<1>2. node'[h] = t.n /\ slot' = t.slot
    BY <1>1 DEF StoreIn
<1>3. t.n.typ # "absent"
    BY Existing DEF Kept, Alive
<1>4. At(t, i) \in 1..Len(t.slot) /\ Len(t.slot) \in Nat
  <2>1. StoreOK(source, t) /\ t \in StoreRec
      BY DEF Good, StoreOK
  <2> QED
      BY <2>1, ListedSlot, Fields
<1> QED
    BY <1>1, <1>2, <1>3, <1>4 DEF PtrOK, In

\* A step that takes nothing and retains a pointer into the list, or none.
LEMMA PointsInto ==
    ASSUME Inv, NEW h \in Handles, Alive(h), NEW t, Good(source, t), Kept(source, Store(h), t),
           Put(h, t), UNCHANGED <<source, it, seen, shrunk>>,
           ptr' = ptr \/ \E i \in 1..t.n.len : ptr' = [of |-> h, slot |-> At(t, i)]
    PROVE  Inv' /\ Steady
<1>1. Keeps(source, node, arrs, slot, node', arrs', slot')
    BY PutKeeps
<1>2. PtrOK(source, node', arrs', slot', ptr')
  <2>1. PtrOK(source, node', arrs', slot', ptr)
      BY <1>1 DEF Inv, PtrInv, Keeps
  <2>2. \A i \in 1..t.n.len : PtrOK(source, node', arrs', slot', [of |-> h, slot |-> At(t, i)])
      BY NewPointer
  <2> QED
      BY <2>1, <2>2
<1>3. /\ NodesOK(source, node', arrs', slot')
      /\ ItOK(source, node', arrs', slot', it, seen, shrunk)
      /\ Steady
    BY <1>1 DEF Inv, ItInv, Keeps, Steady
<1> QED
    BY <1>2, <1>3 DEF Inv, NodesInv, PtrInv, ItInv

\* The slot that Find returns is the one of a member.
LEMMA FindIn ==
    ASSUME NEW s, s.n.len \in Nat, NEW k, Has(s, k)
    PROVE  \E i \in 1..s.n.len : Find(s, k) = At(s, i) /\ MemberAt(s, i).key = k
<1> DEFINE K == {i \in 1..s.n.len : MemberAt(s, i).key = k}
           P(i) == /\ MemberAt(s, i).key = k
                   /\ \A j \in 1..(i - 1) : MemberAt(s, j).key # k
           c == CHOOSE i \in 1..s.n.len : P(i)
<1>1. K \subseteq Nat /\ K # {}
    BY DEF Has
<1>2. PICK m \in K : \A i \in K : m <= i
  <2> HIDE DEF K
  <2> QED
      BY <1>1, LeastNat
<1>3. m \in 1..s.n.len /\ P(m)
  <2>1. m \in 1..s.n.len /\ MemberAt(s, m).key = k
      BY <1>2
  <2>2. ASSUME NEW j \in 1..(m - 1), MemberAt(s, j).key = k PROVE FALSE
    <3>1. j \in 1..s.n.len /\ ~(m <= j)
        BY <2>1
    <3> QED
        BY <3>1, <2>2, <1>2
  <2> QED
      BY <2>1, <2>2
<1>4. Find(s, k) = At(s, c)
    BY DEF Find
<1> HIDE DEF P
<1>5. c \in 1..s.n.len /\ P(c)
    BY <1>3
<1> QED
    BY <1>4, <1>5 DEF P

\* Get loads as far as the key and points into the list.
LEMMA GetStep ==
    ASSUME Inv, NEW h \in Handles, NEW k, Get(h, k), UNCHANGED source
    PROVE  Inv' /\ Steady
<1> DEFINE s == LoadedKey(Store(h), k)
<1>1. /\ Put(h, s) /\ UNCHANGED <<it, seen, shrunk>>
      /\ ptr' = (IF s.n.typ = "object" /\ Has(s, k)
                 THEN [of |-> h, slot |-> Find(s, k)] ELSE ptr)
    BY DEF Get
<1>2. Alive(h)
    BY DEF Get, Alive
<1>3. Loads(source, Store(h), s)
  <2>1. source \in Sources /\ Good(source, Store(h))
      BY <1>2, Existing
  <2> QED
      BY <2>1, LoadKeyLoads
<1> HIDE DEF s
<1>4. Good(source, s) /\ Kept(source, Store(h), s)
    BY <1>3 DEF Loads, Brings
<1>5. s.n.len \in Nat
    BY <1>4, Fields DEF Good, StoreOK
<1>6. ptr' = ptr \/ \E i \in 1..s.n.len : ptr' = [of |-> h, slot |-> At(s, i)]
    BY <1>1, <1>5, FindIn
<1> QED
    BY <1>1, <1>2, <1>4, <1>6, PointsInto

\* Index loads as far as the place and points into the list.
LEMMA IndexStep ==
    ASSUME Inv, NEW h \in Handles, NEW i \in Nat, i # 0, Index(h, i), UNCHANGED source
    PROVE  Inv' /\ Steady
<1> DEFINE s == LoadedTo(Store(h), i)
<1>1. /\ Put(h, s) /\ UNCHANGED <<it, seen, shrunk>>
      /\ ptr' = (IF IsContainer(s) /\ i <= s.n.len
                 THEN [of |-> h, slot |-> At(s, i)] ELSE ptr)
    BY DEF Index
<1>2. Alive(h)
    BY DEF Index, Alive
<1>3. Loads(source, Store(h), s)
  <2>1. source \in Sources /\ Good(source, Store(h))
      BY <1>2, Existing
  <2> QED
      BY <2>1, LoadToLoads
<1> HIDE DEF s
<1>4. Good(source, s) /\ Kept(source, Store(h), s)
    BY <1>3 DEF Loads, Brings
<1>5. s.n.len \in Nat
    BY <1>4, Fields DEF Good, StoreOK
<1>6. ptr' = ptr \/ \E j \in 1..s.n.len : ptr' = [of |-> h, slot |-> At(s, j)]
  <2>1. i <= s.n.len => i \in 1..s.n.len
      BY <1>5
  <2> QED
      BY <1>1, <2>1
<1> QED
    BY <1>1, <1>2, <1>4, <1>6, PointsInto

\* A step that keeps the store of a node, with the pointer and the iterator as they are,
LEMMA KeepsPut ==
    ASSUME Inv, NEW h \in Handles, Alive(h), NEW t, Good(source, t), Kept(source, Store(h), t),
           Put(h, t), UNCHANGED <<source, cursor>>
    PROVE  Inv' /\ Steady
<1>1. Keeps(source, node, arrs, slot, node', arrs', slot')
    BY PutKeeps
<1> QED
    BY <1>1, KeepsAll

\* ... also when the whole text is loaded first.
LEMMA EditPut ==
    ASSUME Inv, ~Reads(source), NEW h \in Handles, Alive(h), NEW t, Good(source, t),
           Kept(source, LoadedAll(Store(h)), t), Put(h, t), UNCHANGED <<source, cursor>>
    PROVE  Inv' /\ Steady
<1>1. source \in Sources /\ Good(source, Store(h))
    BY Existing
<1>2. Loads(source, Store(h), LoadedAll(Store(h)))
    BY <1>1, LoadedAllLoads
<1>3. Good(source, LoadedAll(Store(h)))
    BY <1>2 DEF Loads, Brings
<1>4. Kept(source, Store(h), t)
    BY <1>1, <1>2, <1>3, LoadedKept
<1> QED
    BY <1>4, KeepsPut

\* What loading the whole text leaves.
LEMMA AllLoaded ==
    ASSUME Inv, NEW h \in Handles, Alive(h), NEW s, s = LoadedAll(Store(h))
    PROVE  /\ source \in Sources /\ Good(source, s) /\ Loads(source, Store(h), s)
           /\ Kept(source, Store(h), s) /\ s.n.pos = 0 /\ s.n.raw = FALSE /\ s.n.len \in Nat
           /\ StoreOK(source, s) /\ s \in StoreRec
<1>1. source \in Sources /\ Good(source, Store(h))
    BY Existing
<1>2. Loads(source, Store(h), s) /\ s.n.pos = 0 /\ s.n.raw = FALSE
    BY <1>1, LoadedAllLoads
<1>3. Good(source, s) /\ Kept(source, Store(h), s)
    BY <1>2 DEF Loads, Brings
<1>4. StoreOK(source, s) /\ s \in StoreRec
    BY <1>3 DEF Good, StoreOK
<1> QED
    BY <1>1, <1>2, <1>3, <1>4, Fields

\* A step that only loads the text.
LEMMA LoadPut ==
    ASSUME Inv, NEW h \in Handles, Alive(h), Put(h, LoadedAll(Store(h))), UNCHANGED <<source, cursor>>
    PROVE  Inv' /\ Steady
<1> DEFINE s == LoadedAll(Store(h))
<1>1. Good(source, s) /\ Kept(source, Store(h), s)
    BY AllLoaded
<1> HIDE DEF s
<1>2. Put(h, s)
    BY DEF s
<1> QED
    BY <1>1, <1>2, KeepsPut

\* Reading the whole node loads it.
LEMMA LoadChildrenStep ==
    ASSUME Inv, NEW h \in Handles, LoadChildren(h), UNCHANGED source
    PROVE  Inv' /\ Steady
<1>1. IsContainer(Store(h)) /\ Put(h, LoadedAll(Store(h))) /\ UNCHANGED cursor
    BY DEF LoadChildren
<1> QED
    BY <1>1, ContainerExists, LoadPut

\* The fresh members that operations insert.
LEMMA FreshMember ==
    ASSUME NEW m \in Fresh
    PROVE  m \in Member /\ m.val \in Values \cup {None} /\ m.key \in Nat
<1>1. m \in Member
    BY StoreAssumption
<1> QED
    BY <1>1 DEF Member

\* Add, and Set of a new key, append a slot ...
LEMMA AddGood ==
    ASSUME Inv, NEW h \in Handles, NEW m \in Fresh, Alive(h), ~Reads(source),
           NEW s, s = LoadedAll(Store(h)), IsContainer(s), Len(s.slot) < MaxSlots,
           NEW u, u = AppendSlot(s, m)
    PROVE  Appended(s, m, u) /\ Good(source, u) /\ Kept(source, s, u)
<1>1. /\ source \in Sources /\ Good(source, s) /\ StoreOK(source, s) /\ s \in StoreRec
      /\ s.n.pos = 0 /\ s.n.raw = FALSE /\ s.n.len \in Nat
    BY AllLoaded
<1>2. m \in Member
    BY FreshMember
<1>3. Appended(s, m, u)
  <2>1. s.n.len + 1 <= Cap(s) => At(s, s.n.len + 1) = Nil
    <3> SUFFICES ASSUME s.n.len + 1 <= Cap(s) PROVE At(s, s.n.len + 1) = Nil
        OBVIOUS
    <3>1. \A i \in 1..Cap(s) : i > s.n.len => At(s, i) = Nil
        BY <1>1 DEF Good, OwnerOK
    <3>2. Cap(s) \in Nat
        BY <1>1, CapOK DEF StoreOK
    <3>3. s.n.len + 1 \in 1..Cap(s) /\ s.n.len + 1 > s.n.len
        BY <1>1, <3>2
    <3> QED
        BY <3>1, <3>3
  <2> QED
      BY <2>1, <1>1, <1>2, Appends
<1>4. u = WithPos(u, 0)
  <2>1. u \in StoreRec /\ u.n.pos = 0
      BY <1>1, <1>3 DEF Appended
  <2>2. u.n \in NodeRec /\ u = [n |-> u.n, arrs |-> u.arrs, slot |-> u.slot]
      BY <2>1, Fields
  <2>3. [u.n EXCEPT !.pos = 0] = u.n
      BY <2>1, <2>2 DEF NodeRec
  <2> QED
      BY <2>2, <2>3 DEF WithPos
<1>5. MayAppend(source, s, m, 0)
  <2>1. s.n.typ \in {"array", "object"}
      BY DEF IsContainer
  <2>2. (Len(s.slot) + 1) + 0 <= source.room
    <3>1. Len(s.slot) \in Nat /\ source.room \in Nat /\ Len(s.slot) < source.room
        BY <1>1, Fields, TextOK DEF MaxSlots
    <3> QED
        BY <3>1
  <2> QED
      BY <2>1, <2>2, <1>1 DEF MayAppend
<1>6. Brings(source, s, u)
    BY <1>1, <1>2, <1>3, <1>4, <1>5, AppendedGood
<1> QED
    BY <1>3, <1>6 DEF Brings

\* ... at the end of the loaded list.
LEMMA AddStep ==
    ASSUME Inv, NEW h \in Handles, NEW m \in Fresh, AddMember(h, m), UNCHANGED source
    PROVE  Inv' /\ Steady
<1> DEFINE s == LoadedAll(Store(h))
<1>1. /\ "add" \in Ops /\ Len(s.slot) < MaxSlots /\ UNCHANGED cursor
      /\ Put(h, IF IsContainer(s) THEN AppendSlot(s, m) ELSE s)
    BY DEF AddMember
<1>2. Alive(h)
    BY DEF AddMember, Alive
<1>3. ~Reads(source)
    BY <1>1 DEF Reads, Reading, Ops
<1>4. CASE ~IsContainer(s)
    BY <1>1, <1>2, <1>4, LoadPut
<1>5. CASE IsContainer(s)
  <2> DEFINE u == AppendSlot(s, m)
  <2>1. Put(h, u)
      BY <1>1, <1>5
  <2>2. Good(source, u) /\ Kept(source, s, u)
    <3> HIDE DEF s
    <3>1. s = LoadedAll(Store(h))
        BY DEF s
    <3> QED
        BY <3>1, <1>1, <1>2, <1>3, <1>5, AddGood
  <2> HIDE DEF u
  <2> QED
      BY <2>1, <2>2, <1>1, <1>2, <1>3, EditPut
<1> QED
    BY <1>4, <1>5

\* Set of a known key writes one slot.
LEMMA SetStep ==
    ASSUME Inv, NEW h \in Handles, NEW k, NEW v \in Values \cup {None}, SetMember(h, k, v), UNCHANGED source
    PROVE  Inv' /\ Steady
<1> DEFINE s == LoadedAll(Store(h))
<1>1. /\ "set" \in Ops /\ UNCHANGED cursor
      /\ Put(h, IF IsContainer(s) THEN [s EXCEPT !.slot[Find(s, k)].val = v] ELSE s)
    BY DEF SetMember
<1>2. Alive(h)
    BY DEF SetMember, Alive
<1>3. ~Reads(source)
    BY <1>1 DEF Reads, Reading, Ops
<1>4. CASE ~IsContainer(s)
    BY <1>1, <1>2, <1>4, LoadPut
<1>5. CASE IsContainer(s)
  <2> DEFINE t == [s EXCEPT !.slot[Find(s, k)].val = v]
  <2>1. Put(h, t)
      BY <1>1, <1>5
  <2>2. Good(source, s)
      BY <1>2, AllLoaded
  <2>3. Good(source, t) /\ Kept(source, s, t)
    <3> HIDE DEF s
    <3> QED
        BY <2>2, ValueKept
  <2> HIDE DEF t
  <2> QED
      BY <2>1, <2>3, <1>1, <1>2, <1>3, EditPut
<1> QED
    BY <1>4, <1>5

\* SetByIndex writes one slot.
LEMMA SetByIndexStep ==
    ASSUME Inv, NEW h \in Handles, NEW i, NEW v \in Values \cup {None}, SetByIndex(h, i, v),
           UNCHANGED source
    PROVE  Inv' /\ Steady
<1> DEFINE s == LoadedAll(Store(h))
           hit == IsContainer(s) /\ i <= s.n.len
<1>1. /\ "set" \in Ops /\ UNCHANGED cursor
      /\ Put(h, IF hit THEN [s EXCEPT !.slot[At(s, i)].val = v] ELSE s)
    BY DEF SetByIndex
<1>2. Alive(h)
    BY ContainerExists DEF SetByIndex
<1>3. ~Reads(source)
    BY <1>1 DEF Reads, Reading, Ops
<1>4. CASE ~hit
    BY <1>1, <1>2, <1>4, LoadPut
<1>5. CASE hit
  <2> DEFINE t == [s EXCEPT !.slot[At(s, i)].val = v]
  <2>1. Put(h, t)
      BY <1>1, <1>5
  <2>2. Good(source, s)
      BY <1>2, AllLoaded
  <2>3. Good(source, t) /\ Kept(source, s, t)
    <3> HIDE DEF s
    <3> QED
        BY <2>2, ValueKept
  <2> HIDE DEF t
  <2> QED
      BY <2>1, <2>3, <1>1, <1>2, <1>3, EditPut
<1> QED
    BY <1>4, <1>5

\* Move permutes the values among the slots.
LEMMA MoveStep ==
    ASSUME Inv, NEW h \in Handles, NEW dst \in Nat, dst # 0, NEW src \in Nat, src # 0,
           Move(h, dst, src), UNCHANGED source
    PROVE  Inv' /\ Steady
<1> DEFINE s == LoadedAll(Store(h))
           hit == IsContainer(s) /\ dst <= s.n.len /\ src <= s.n.len
           t == Permuted(s, LAMBDA i : Shifted(i, dst, src))
<1>1. /\ "move" \in Ops /\ UNCHANGED cursor /\ Put(h, IF hit THEN t ELSE s)
    BY DEF Move
<1>2. Alive(h)
    BY DEF Move, Alive
<1>3. ~Reads(source)
    BY <1>1 DEF Reads, Reading, Ops
<1>4. CASE ~hit
    BY <1>1, <1>2, <1>4, LoadPut
<1>5. CASE hit
  <2>1. Put(h, t)
      BY <1>1, <1>5
  <2>2. Good(source, s) /\ s.n.len \in Nat
      BY <1>2, AllLoaded
  <2>3. Good(source, t) /\ Kept(source, s, t)
    <3>1. dst \in 1..s.n.len /\ src \in 1..s.n.len
        BY <1>5, <2>2
    <3> HIDE DEF s
    <3> QED
        BY <3>1, <2>2, <1>3, ShiftedKept
  <2> HIDE DEF t
  <2> QED
      BY <2>1, <2>3, <1>1, <1>2, <1>3, EditPut
<1> QED
    BY <1>4, <1>5

\* SortKeys permutes the members among the slots.
LEMMA SortStep ==
    ASSUME Inv, NEW h \in Handles, SortKeys(h), UNCHANGED source
    PROVE  Inv' /\ Steady
<1> DEFINE s == LoadedAll(Store(h))
           t == Permuted(s, LAMBDA r : CHOOSE i \in 1..s.n.len :
                              Cardinality({j \in 1..s.n.len : Before(s, j, i)}) + 1 = r)
<1>1. /\ "move" \in Ops /\ UNCHANGED cursor /\ Put(h, IF IsContainer(s) THEN t ELSE s)
    BY DEF SortKeys
<1>2. Alive(h)
    BY DEF SortKeys, Alive
<1>3. ~Reads(source)
    BY <1>1 DEF Reads, Reading, Ops
<1>4. CASE ~IsContainer(s)
    BY <1>1, <1>2, <1>4, LoadPut
<1>5. CASE IsContainer(s)
  <2>1. Put(h, t)
      BY <1>1, <1>5
  <2>2. Good(source, s)
      BY <1>2, AllLoaded
  <2>3. Good(source, t) /\ Kept(source, s, t)
    <3> HIDE DEF s
    <3> QED
        BY <2>2, <1>3, SortedKept
  <2> HIDE DEF t
  <2> QED
      BY <2>1, <2>3, <1>1, <1>2, <1>3, EditPut
<1> QED
    BY <1>4, <1>5
-----------------------------------------------------------------------------
(* Removing, iterating, replacing, copying and writing.                     *)

\* A step that takes a member from a list.
LEMMA ShortensAll ==
    ASSUME Inv, NEW h \in Handles, Shortens(source, node, arrs, slot, node', arrs', slot', h),
           UNCHANGED <<source, ptr, it, seen>>, shrunk' = (shrunk \/ it.of = h)
    PROVE  Inv' /\ Steady
<1>1. /\ NodesOK(source, node', arrs', slot')
      /\ PtrOK(source, node', arrs', slot', ptr)
      /\ ItOK(source, node', arrs', slot', it, seen, Lost(shrunk, it, h))
      /\ Steady
    BY DEF Inv, NodesInv, PtrInv, ItInv, Shortens, Steady
<1>2. shrunk' = Lost(shrunk, it, h)
    BY DEF Lost
<1> QED
    BY <1>1, <1>2 DEF Inv, NodesInv, PtrInv, ItInv

\* A removal, or a load when there is nothing to remove.
LEMMA RemovalStep ==
    ASSUME Inv, ~Reads(source), NEW h \in Handles, Alive(h), NEW i,
           Removal(h, LoadedAll(Store(h)), i), UNCHANGED <<source, ptr, it, seen>>
    PROVE  Inv' /\ Steady
<1> DEFINE s == LoadedAll(Store(h))
           hit == IsContainer(s) /\ i \in 1..s.n.len
<1>1. /\ hit => Put(h, RemoveAt(s, i)) /\ shrunk' = (shrunk \/ it.of = h)
      /\ ~hit => Put(h, s) /\ UNCHANGED shrunk
    BY DEF Removal
<1>2. CASE ~hit
  <2>1. UNCHANGED <<source, cursor>>
      BY <1>1, <1>2 DEF cursor
  <2> QED
      BY <1>1, <1>2, <2>1, LoadPut
<1>3. CASE hit
  <2> DEFINE t == RemoveAt(s, i)
  <2>1. Put(h, t) /\ shrunk' = (shrunk \/ it.of = h) /\ i \in 1..s.n.len
      BY <1>1, <1>3
  <2>2. Good(source, s) /\ Loads(source, Store(h), s)
      BY AllLoaded
  <2>3. Edits(source, node, arrs, slot, h) /\ StoreIn(node, arrs, slot, h) = Store(h)
      BY Existing
  <2> HIDE DEF s
  <2>4. Good(source, t) /\ Removes(s, i, t)
      BY <2>1, <2>2, RemovedGood
  <2> HIDE DEF t
  <2>5. Loads(source, StoreIn(node, arrs, slot, h), s)
      BY <2>2, <2>3
  <2>6. node' = Replaced(node, h, t.n) /\ arrs' = t.arrs /\ slot' = t.slot
      BY <2>1 DEF Put, Replaced
  <2>7. Shortens(source, node, arrs, slot, Replaced(node, h, t.n), t.arrs, t.slot, h)
      BY <2>1, <2>3, <2>4, <2>5, LoadRemoveStep
  <2>8. Shortens(source, node, arrs, slot, node', arrs', slot', h)
      BY <2>6, <2>7
  <2> QED
      BY <2>1, <2>8, ShortensAll
<1> QED
    BY <1>2, <1>3

\* Unset removes the member with the key.
LEMMA UnsetStep ==
    ASSUME Inv, NEW h \in Handles, NEW k, Unset(h, k), UNCHANGED source
    PROVE  Inv' /\ Steady
<1> DEFINE s == LoadedAll(Store(h))
           i == IF IsContainer(s) /\ Has(s, k)
                THEN CHOOSE j \in 1..s.n.len : At(s, j) = Find(s, k) ELSE 0
<1>1. "remove" \in Ops /\ Removal(h, s, i) /\ UNCHANGED <<ptr, it, seen>>
    BY DEF Unset
<1>2. Alive(h)
    BY DEF Unset, Alive
<1>3. ~Reads(source)
    BY <1>1 DEF Reads, Reading, Ops
<1> HIDE DEF i
<1> QED
    BY <1>1, <1>2, <1>3, RemovalStep

\* UnsetByIndex removes the member at a place.
LEMMA UnsetByIndexStep ==
    ASSUME Inv, NEW h \in Handles, NEW i, UnsetByIndex(h, i), UNCHANGED source
    PROVE  Inv' /\ Steady
<1>1. "remove" \in Ops /\ Removal(h, LoadedAll(Store(h)), i) /\ UNCHANGED <<ptr, it, seen>>
    BY DEF UnsetByIndex
<1>2. Alive(h)
    BY ContainerExists DEF UnsetByIndex
<1>3. ~Reads(source)
    BY <1>1 DEF Reads, Reading, Ops
<1> QED
    BY <1>1, <1>2, <1>3, RemovalStep

\* Pop removes the last member.
LEMMA PopStep ==
    ASSUME Inv, NEW h \in Handles, Pop(h), UNCHANGED source
    PROVE  Inv' /\ Steady
<1> DEFINE i == LoadedAll(Store(h)).n.len
<1>1. "remove" \in Ops /\ Removal(h, LoadedAll(Store(h)), i) /\ UNCHANGED <<ptr, it, seen>>
    BY DEF Pop
<1>2. Alive(h)
    BY ContainerExists DEF Pop
<1>3. ~Reads(source)
    BY <1>1 DEF Reads, Reading, Ops
<1> HIDE DEF i
<1> QED
    BY <1>1, <1>2, <1>3, RemovalStep

\* Values and Properties make an iterator that has passed nothing.
LEMMA IterateStep ==
    ASSUME Inv, NEW h \in Handles, Iterate(h), UNCHANGED source
    PROVE  Inv' /\ Steady
<1> DEFINE t == Opened(Store(h))
<1>1. /\ "iterate" \in Ops /\ Put(h, t) /\ it' = [of |-> h, pos |-> 0]
      /\ seen' = <<>> /\ shrunk' = FALSE /\ ptr' = ptr
    BY DEF Iterate
<1>2. Alive(h)
    BY ContainerExists DEF Iterate
<1>3. ~Reads(source)
    BY <1>1 DEF Reads, Reading, Ops
<1>4. source \in Sources /\ Good(source, Store(h))
    BY <1>2, Existing
<1>5. Good(source, t) /\ Kept(source, Store(h), t)
    BY <1>4, OpenedLoads DEF Loads, Brings
<1> HIDE DEF t
<1>6. Keeps(source, node, arrs, slot, node', arrs', slot') /\ StoreIn(node', arrs', slot', h) = t
    BY <1>1, <1>2, <1>5, PutKeeps
<1>7. Passed(t, 0, <<>>, FALSE) /\ SeenOK(slot', <<>>)
  <2>1. t.n.len \in Nat
      BY <1>5, Fields DEF Good, StoreOK
  <2>2. <<>> \in Seq(Nat) /\ Len(<<>>) = 0
      OBVIOUS
  <2> QED
      BY <2>1, <2>2 DEF Passed, SeenOK
<1>8. node'[h].typ # "absent"
  <2>1. node'[h] = t.n
      BY <1>6 DEF StoreIn
  <2> QED
      BY <2>1, <1>2, <1>5, Existing DEF Kept, Alive
<1>9. ItOK(source, node', arrs', slot', it', seen', shrunk')
    BY <1>1, <1>3, <1>6, <1>7, <1>8 DEF ItOK
<1>10. /\ NodesOK(source, node', arrs', slot')
       /\ PtrOK(source, node', arrs', slot', ptr)
       /\ Steady
    BY <1>6 DEF Inv, PtrInv, Keeps, Steady
<1> QED
    BY <1>1, <1>9, <1>10 DEF Inv, NodesInv, PtrInv, ItInv

\* Next passes members that it has not passed.
LEMMA IteratorNextStep ==
    ASSUME Inv, IteratorNext, UNCHANGED source
    PROVE  Inv' /\ Steady
<1> DEFINE h == it.of
           c == Advance(Store(h), it.pos)
<1>1. /\ h # "nobody" /\ Put(h, c.s) /\ it' = [it EXCEPT !.pos = c.pos]
      /\ seen' = c.passed /\ ptr' = ptr /\ shrunk' = shrunk
    BY DEF IteratorNext
<1>2. /\ h \in Handles /\ Alive(h) /\ ~Reads(source) /\ it = [of |-> it.of, pos |-> it.pos]
      /\ Passed(StoreIn(node, arrs, slot, h), it.pos, seen, shrunk)
    BY <1>1 DEF Inv, ItInv, ItOK, Alive
<1> HIDE DEF h
<1>3. source \in Sources /\ Good(source, Store(h)) /\ StoreIn(node, arrs, slot, h) = Store(h)
    BY <1>2, Existing
<1>4. c \in Walks(source, Store(h), shrunk)
    BY <1>2, <1>3, AdvanceWalks
<1> HIDE DEF c
<1>5. /\ Good(source, c.s) /\ Kept(source, Store(h), c.s)
      /\ Passed(c.s, c.pos, c.passed, shrunk)
    BY <1>4 DEF Walks, Loads, Brings
<1>6. Keeps(source, node, arrs, slot, node', arrs', slot') /\ StoreIn(node', arrs', slot', h) = c.s
    BY <1>1, <1>2, <1>5, PutKeeps
<1>7. it' = [of |-> h, pos |-> c.pos]
    BY <1>1, <1>2 DEF h
<1>8. node'[h].typ # "absent" /\ slot' = c.s.slot
  <2>1. node'[h] = c.s.n /\ slot' = c.s.slot
      BY <1>6 DEF StoreIn
  <2> QED
      BY <2>1, <1>2, <1>5, Existing DEF Kept, Alive
<1>9. ItOK(source, node', arrs', slot', it', seen', shrunk')
    BY <1>1, <1>2, <1>5, <1>6, <1>7, <1>8 DEF ItOK, Passed
<1>10. /\ NodesOK(source, node', arrs', slot')
       /\ PtrOK(source, node', arrs', slot', ptr)
       /\ Steady
    BY <1>6 DEF Inv, PtrInv, Keeps, Steady
<1> QED
    BY <1>1, <1>9, <1>10 DEF Inv, NodesInv, PtrInv, ItInv

\* A copy shares what the node has loaded.
LEMMA CopyAction ==
    ASSUME Inv, Disciplined, NEW h \in Handles, NEW c \in Handles, Copy(h, c), UNCHANGED source
    PROVE  Inv' /\ Steady
<1>1. /\ "copy" \in Ops /\ Alive(h) /\ ~Alive(c) /\ node' = Replaced(node, c, node[h])
      /\ arrs' = arrs /\ slot' = slot /\ UNCHANGED cursor
    BY DEF Copy, Replaced
<1>2. source \in Sources /\ Edits(source, node, arrs, slot, h)
    BY <1>1, Existing
<1>3. Reads(source)
    BY <1>1, <1>2 DEF Disciplined, Ops
<1>4. node[c].typ = "absent"
    BY <1>1 DEF Alive
<1>5. Keeps(source, node, arrs, slot, Replaced(node, c, node[h]), arrs, slot)
    BY <1>2, <1>3, <1>4, CopyStep
<1>6. Keeps(source, node, arrs, slot, node', arrs', slot')
    BY <1>1, <1>5
<1> QED
    BY <1>1, <1>6, KeepsAll

\* A write through a retained pointer changes one slot.
LEMMA WriteStep ==
    ASSUME Inv, NEW v \in Values \cup {None}, WriteThrough(v), UNCHANGED source
    PROVE  Inv' /\ Steady
<1> DEFINE h == ptr.of
           x == ptr.slot
           s == Store(h)
           t == [s EXCEPT !.slot[x].val = v]
<1>1. /\ x # Nil /\ slot' = [slot EXCEPT ![x].val = v] /\ node' = node /\ arrs' = arrs
      /\ UNCHANGED cursor
    BY DEF WriteThrough
<1>2. h \in Handles /\ Alive(h)
    BY <1>1 DEF Inv, PtrInv, PtrOK, Alive
<1>3. s = [n |-> node[h], arrs |-> arrs, slot |-> slot]
    BY DEF Store
<1>4. t = [n |-> node[h], arrs |-> arrs, slot |-> [slot EXCEPT ![x].val = v]]
    BY <1>3
<1>5. node' = [node EXCEPT ![h] = t.n] /\ arrs' = t.arrs /\ slot' = t.slot
  <2>1. node \in [Handles -> NodeRec]
      BY DEF Inv, NodesInv, NodesOK
  <2>2. node = [node EXCEPT ![h] = node[h]]
      BY <2>1
  <2>3. t.n = node[h] /\ t.arrs = arrs /\ t.slot = [slot EXCEPT ![x].val = v]
      BY <1>4
  <2> QED
      BY <1>1, <2>2, <2>3
<1>6. Good(source, s)
    BY <1>2, Existing
<1> HIDE DEF s
<1>7. Good(source, t) /\ Kept(source, s, t)
    BY <1>6, ValueKept
<1> HIDE DEF t, x
<1>8. Put(h, t)
    BY <1>5 DEF Put
<1>9. Kept(source, Store(h), t)
    BY <1>7 DEF s
<1> HIDE DEF h
<1> QED
    BY <1>1, <1>2, <1>7, <1>8, <1>9, KeepsPut

\* A step that replaces a node.
LEMMA ReplacesAll ==
    ASSUME Inv, NEW h \in Handles, Replaces(source, node, arrs, slot, node', arrs', slot', h),
           UNCHANGED <<source, it, seen>>, shrunk' = (shrunk \/ it.of = h), ptr' = Past(ptr, h)
    PROVE  Inv' /\ Steady
<1>1. /\ NodesOK(source, node', arrs', slot')
      /\ PtrOK(source, node', arrs', slot', Past(ptr, h))
      /\ ItOK(source, node', arrs', slot', it, seen, Lost(shrunk, it, h))
      /\ Steady
    BY DEF Inv, NodesInv, PtrInv, ItInv, Replaces, Steady
<1>2. shrunk' = Lost(shrunk, it, h)
    BY DEF Lost
<1> QED
    BY <1>1, <1>2 DEF Inv, NodesInv, PtrInv, ItInv

\* A new value n of a node, with arrays A and slots L.
LEMMA AssignPut ==
    ASSUME Inv, ~Reads(source), NEW h \in Handles, Alive(h), NEW n, NEW A, NEW L,
           NEW t, t = [n |-> n, arrs |-> A, slot |-> L], Good(source, t), n.typ # "absent",
           Len(slot) <= Len(L), \A i \in 1..n.len : At(t, i) > Len(slot),
           Stable(Store(h), t), Assign(h, n), arrs' = A, slot' = L, UNCHANGED source
    PROVE  Inv' /\ Steady
<1>1. Edits(source, node, arrs, slot, h) /\ StoreIn(node, arrs, slot, h) = Store(h)
    BY Existing
<1>2. t.n = n /\ t.arrs = A /\ t.slot = L
    OBVIOUS
<1>3. /\ node' = Replaced(node, h, t.n) /\ ptr' = Past(ptr, h) /\ shrunk' = (shrunk \/ it.of = h)
      /\ UNCHANGED <<it, seen>> /\ arrs' = t.arrs /\ slot' = t.slot
    BY <1>2 DEF Assign, Replaced, Past
<1>4. /\ Stable(StoreIn(node, arrs, slot, h), t) /\ t.n.typ # "absent"
      /\ Len(slot) <= Len(t.slot) /\ \A i \in 1..t.n.len : At(t, i) > Len(slot)
    BY <1>1, <1>2
<1>5. Replaces(source, node, arrs, slot, Replaced(node, h, t.n), t.arrs, t.slot, h)
    BY <1>1, <1>4, AssignStep
<1> QED
    BY <1>3, <1>5, ReplacesAll

\* A node with no list is good with any memory that has the room.
LEMMA FreshGood ==
    ASSUME NEW src \in Sources, NEW A \in Seq(Seq(Nat)), NEW L \in Seq(Member),
           NEW n, n \in {[FreshNode(src.kind) EXCEPT !.raw = TRUE], FreshNode(None),
                         FreshNode("absent"), FreshNode("error")},
           NEW t, t = [n |-> n, arrs |-> A, slot |-> L], ArraysOK(t),
           Reads(src) => A = <<>>, Len(L) + Len(src.members) <= src.room
    PROVE  Good(src, t)
<1>1. /\ t.n = n /\ t.arrs = A /\ t.slot = L
      /\ n.pos = 0 /\ n.arr = 0 /\ n.len = 0 /\ n.raw \in BOOLEAN
      /\ n.raw => n.typ = src.kind
      /\ ~n.raw => n.typ \in {"absent", None, "error"}
  <2>1. t.n = n /\ t.arrs = A /\ t.slot = L
      OBVIOUS
  <2>2. CASE n = [FreshNode(src.kind) EXCEPT !.raw = TRUE]
    <3>1. n = [typ |-> src.kind, raw |-> TRUE, pos |-> 0, arr |-> 0, len |-> 0]
        BY <2>2 DEF FreshNode
    <3> QED
        BY <2>1, <3>1
  <2>3. CASE n # [FreshNode(src.kind) EXCEPT !.raw = TRUE]
    <3>1. PICK y \in {None, "absent", "error"} : n = FreshNode(y)
        BY <2>3
    <3>2. n = [typ |-> y, raw |-> FALSE, pos |-> 0, arr |-> 0, len |-> 0]
        BY <3>1 DEF FreshNode
    <3> QED
        BY <2>1, <3>2
  <2> QED
      BY <2>2, <2>3
<1>2. src.kind \in {"array", "object"} /\ Len(src.members) \in Nat /\ Len(L) \in Nat /\ Len(A) \in Nat
    BY TextOK
<1>3. n \in NodeRec
  <2>1. CASE n = [FreshNode(src.kind) EXCEPT !.raw = TRUE]
    <3>1. n = [typ |-> src.kind, raw |-> TRUE, pos |-> 0, arr |-> 0, len |-> 0]
        BY <2>1 DEF FreshNode
    <3> QED
        BY <3>1, <1>2 DEF NodeRec
  <2>2. CASE n # [FreshNode(src.kind) EXCEPT !.raw = TRUE]
    <3>1. PICK y \in {None, "absent", "error"} : n = FreshNode(y)
        BY <2>2
    <3>2. n = [typ |-> y, raw |-> FALSE, pos |-> 0, arr |-> 0, len |-> 0]
        BY <3>1 DEF FreshNode
    <3> QED
        BY <3>2 DEF NodeRec
  <2> QED
      BY <2>1, <2>2
<1>4. t \in StoreRec
    BY <1>3 DEF StoreRec
<1>5. Cap(t) = 0
    BY <1>1 DEF Cap
<1>6. CursorOK(src, t.n)
  <2>1. None \notin {"array", "object"}
      BY DEF None
  <2> QED
      BY <1>1, <1>2, <2>1 DEF CursorOK
<1>7. StoreOK(src, t)
    BY <1>1, <1>2, <1>4, <1>5, <1>6 DEF StoreOK
<1>8. Reads(src) => ReaderOK(src, t)
  <2> SUFFICES ASSUME Reads(src) PROVE ReaderOK(src, t)
      OBVIOUS
  <2>1. t.arrs = <<>> /\ Len(t.arrs) = 0
      BY <1>1
  <2>2. IsContainer(t) => n.raw
      BY <1>1 DEF IsContainer, None
  <2> QED
      BY <1>1, <2>1, <2>2 DEF ReaderOK
<1>9. OwnerOK(src, t)
  <2>1. Unread(src, n) \in {0, Len(src.members)}
      BY <1>1 DEF Unread
  <2>2. src.room \in Nat /\ Len(L) <= src.room
      BY <1>2, TextOK
  <2> QED
      BY <1>1, <1>2, <1>5, <2>1, <2>2 DEF OwnerOK
<1> QED
    BY <1>7, <1>8, <1>9 DEF Good

\* UnmarshalJSON starts the node anew.
LEMMA UnmarshalStep ==
    ASSUME Inv, NEW h \in Handles, UnmarshalJSON(h), UNCHANGED source
    PROVE  Inv' /\ Steady
<1> DEFINE n == IF ErrAt = 0 THEN RawNode ELSE FreshNode("error")
           t == [n |-> n, arrs |-> arrs, slot |-> slot]
<1>1. /\ "unmarshal" \in Ops /\ Alive(h) /\ Len(slot) + Len(Text) <= MaxSlots
      /\ Assign(h, n) /\ arrs' = arrs /\ slot' = slot
    BY DEF UnmarshalJSON
<1>2. ~Reads(source)
    BY <1>1 DEF Reads, Reading, Ops
<1>3. /\ source \in Sources /\ Good(source, Store(h)) /\ StoreOK(source, Store(h))
      /\ Store(h) \in StoreRec /\ Store(h).arrs = arrs /\ Store(h).slot = slot
      /\ ArraysOK(Store(h))
    BY <1>1, Existing DEF Good, StoreOK
<1>4. arrs \in Seq(Seq(Nat)) /\ slot \in Seq(Member) /\ Len(slot) \in Nat
    BY <1>3, Fields
<1>5. ArraysOK(t)
  <2>1. t.arrs = Store(h).arrs /\ t.slot = Store(h).slot
      BY <1>3
  <2> QED
      BY <2>1, <1>3 DEF ArraysOK
<1>6. n \in {[FreshNode(source.kind) EXCEPT !.raw = TRUE], FreshNode(None),
             FreshNode("absent"), FreshNode("error")}
    BY DEF RawNode, Kind
<1>7. /\ n.len = 0 /\ n.typ # "absent" /\ (n.typ \in {"array", "object"} => n.raw)
  <2>1. source.kind \in {"array", "object"}
      BY <1>3, TextOK
  <2> QED
      BY <2>1 DEF RawNode, Kind, FreshNode
<1>8. t.n = n
    OBVIOUS
<1> HIDE DEF n
<1>9. Good(source, t)
    BY <1>1, <1>2, <1>3, <1>4, <1>5, <1>6, FreshGood DEF Text, MaxSlots
<1>10. Stable(Store(h), t)
    BY <1>7, <1>8 DEF Stable, IsContainer
<1>11. \A i \in 1..n.len : At(t, i) > Len(slot)
    BY <1>7
<1> HIDE DEF t
<1>12. t = [n |-> n, arrs |-> arrs, slot |-> slot]
    BY DEF t
<1>13. Len(slot) <= Len(slot)
    BY <1>4
<1> QED
    BY <1>1, <1>2, <1>7, <1>9, <1>10, <1>11, <1>12, <1>13, AssignPut

\* An absent node becomes a container of one member.
LEMMA PromoteStep ==
    ASSUME Inv, NEW h \in Handles, NEW m \in Fresh, Promote(h, m), UNCHANGED source
    PROVE  Inv' /\ Steady
<1> DEFINE id == Len(slot) + 1
           n == [FreshNode(IF m.key = 0 THEN "array" ELSE "object") EXCEPT
                   !.arr = Len(arrs) + 1, !.len = 1]
           A == Append(arrs, <<id>>)
           L == Append(slot, m)
           t == [n |-> n, arrs |-> A, slot |-> L]
<1>1. /\ "promote" \in Ops /\ node[h].typ = None /\ Len(slot) < MaxSlots
      /\ Assign(h, n) /\ arrs' = A /\ slot' = L
    BY DEF Promote
<1>2. ~Reads(source)
    BY <1>1 DEF Reads, Reading, Ops
<1>3. Alive(h)
    BY <1>1 DEF Alive, None
<1>4. /\ source \in Sources /\ Good(source, Store(h)) /\ StoreOK(source, Store(h))
      /\ Store(h) \in StoreRec /\ Store(h).arrs = arrs /\ Store(h).slot = slot
      /\ ArraysOK(Store(h)) /\ Store(h).n = node[h] /\ CursorOK(source, Store(h).n)
    BY <1>3, Existing DEF Good, StoreOK
<1>5. /\ arrs \in Seq(Seq(Nat)) /\ slot \in Seq(Member) /\ Len(slot) \in Nat /\ Len(arrs) \in Nat
    BY <1>4, Fields
<1>6. m \in Member
    BY FreshMember
<1>7. /\ A \in Seq(Seq(Nat)) /\ Len(A) = Len(arrs) + 1 /\ A[Len(arrs) + 1] = <<id>>
      /\ \A b \in 1..Len(arrs) : A[b] = arrs[b]
  <2>1. id \in Nat /\ <<id>> \in Seq(Nat)
      BY <1>5
  <2> QED
      BY <2>1, <1>5
<1>8. L \in Seq(Member) /\ Len(L) = id
    BY <1>5, <1>6
<1>9. /\ n \in NodeRec /\ n.len = 1 /\ n.arr = Len(arrs) + 1 /\ n.pos = 0 /\ n.raw = FALSE
      /\ n.typ \in {"array", "object"}
  <2> DEFINE y == IF m.key = 0 THEN "array" ELSE "object"
             f == FreshNode(y)
  <2>1. y \in {"array", "object"}
      OBVIOUS
  <2>2. n = [f EXCEPT !.arr = Len(arrs) + 1, !.len = 1]
      OBVIOUS
  <2> HIDE DEF y, n
  <2>3. f = [typ |-> y, raw |-> FALSE, pos |-> 0, arr |-> 0, len |-> 0]
      BY DEF FreshNode
  <2> HIDE DEF f
  <2>4. f \in NodeRec /\ f.typ = y /\ f.raw = FALSE /\ f.pos = 0
      BY <2>1, <2>3 DEF NodeRec
  <2>5. Len(arrs) + 1 \in Nat
      BY <1>5
  <2> QED
      BY <2>1, <2>2, <2>4, <2>5 DEF NodeRec
<1>10. t.n = n /\ t.arrs = A /\ t.slot = L
    OBVIOUS
<1>11. id \in Nat /\ id > Len(slot) /\ id # Nil /\ Len(<<id>>) = 1 /\ <<id>>[1] = id
    BY <1>5 DEF Nil
<1> HIDE DEF id, n, A, L
<1>12. t \in StoreRec
    BY <1>7, <1>8, <1>9 DEF StoreRec
<1> HIDE DEF t
<1>13. Cap(t) = 1 /\ At(t, 1) = id
  <2>1. t.n.arr = Len(arrs) + 1 /\ t.n.arr # 0
      BY <1>5, <1>9, <1>10
  <2>2. t.arrs[t.n.arr] = <<id>>
      BY <2>1, <1>7, <1>10
  <2> QED
      BY <2>1, <2>2, <1>11 DEF Cap, At
<1>14. ArraysOK(t)
  <2>1. \A b \in 1..Len(arrs) :
          /\ \A i \in 1..Len(arrs[b]) : arrs[b][i] \in 0..Len(slot)
          /\ \A i, j \in 1..Len(arrs[b]) : arrs[b][i] = arrs[b][j] /\ arrs[b][i] # Nil => i = j
      BY <1>4 DEF ArraysOK
  <2>2. \A y \in 0..Len(slot) : y \in 0..Len(L)
      BY <1>5, <1>8, <1>11
  <2>3. \A b \in 1..Len(A) : b \in 1..Len(arrs) \/ b = Len(arrs) + 1
      BY <1>5, <1>7
  <2>4. id \in 0..Len(L)
      BY <1>8, <1>11
  <2> SUFFICES ASSUME NEW b \in 1..Len(A)
               PROVE  /\ \A i \in 1..Len(A[b]) : A[b][i] \in 0..Len(L)
                      /\ \A i, j \in 1..Len(A[b]) : A[b][i] = A[b][j] /\ A[b][i] # Nil => i = j
      BY <1>10 DEF ArraysOK
  <2>5. CASE b \in 1..Len(arrs)
      BY <2>1, <2>2, <2>5, <1>7
  <2>6. CASE b = Len(arrs) + 1
    <3>1. A[b] = <<id>> /\ \A i \in 1..Len(<<id>>) : i = 1
        BY <2>6, <1>7, <1>11
    <3> QED
        BY <3>1, <2>4, <1>11
  <2> QED
      BY <2>3, <2>5, <2>6
<1>15. StoreOK(source, t)
  <2>1. CursorOK(source, t.n)
      BY <1>9, <1>10 DEF CursorOK, None
  <2>2. t.n.arr \in 0..Len(t.arrs)
      BY <1>5, <1>7, <1>9, <1>10
  <2>3. t.n.len <= Cap(t)
      BY <1>9, <1>10, <1>13
  <2>4. \A i \in 1..t.n.len : At(t, i) # Nil
      BY <1>9, <1>10, <1>11, <1>13
  <2> QED
      BY <2>1, <2>2, <2>3, <2>4, <1>12, <1>14 DEF StoreOK
<1>16. OwnerOK(source, t)
  <2>1. Unread(source, n) = 0
      BY <1>9 DEF Unread
  <2>2. Len(L) + 0 <= source.room /\ 1 <= Len(L)
    <3>1. source.room \in Nat /\ Len(slot) < source.room
        BY <1>1, <1>4, TextOK DEF MaxSlots
    <3>2. Len(L) = Len(slot) + 1
        BY <1>8 DEF id
    <3> QED
        BY <3>1, <3>2, <1>5
  <2>3. \A i \in 1..Cap(t) : i > t.n.len => At(t, i) = Nil
      BY <1>9, <1>10, <1>13
  <2> QED
      BY <2>1, <2>2, <2>3, <1>9, <1>10 DEF OwnerOK
<1>17. Good(source, t)
    BY <1>2, <1>15, <1>16 DEF Good
<1>18. Stable(Store(h), t)
  <2>1. Store(h).n.len = 0
      BY <1>1, <1>4 DEF CursorOK
  <2>2. \A i, j \in 1..t.n.len : ~(i < j)
      BY <1>9, <1>10
  <2>3. \A x : ~In(Store(h), x)
      BY <2>1 DEF In
  <2> QED
      BY <2>2, <2>3 DEF Stable
<1>19. Len(slot) <= Len(L) /\ \A i \in 1..n.len : At(t, i) > Len(slot)
    BY <1>5, <1>8, <1>9, <1>11, <1>13
<1>20. t = [n |-> n, arrs |-> A, slot |-> L] /\ n.typ # "absent"
    BY <1>9 DEF t
<1> QED
    BY <1>1, <1>2, <1>3, <1>17, <1>18, <1>19, <1>20, AssignPut
-----------------------------------------------------------------------------
(* The specification.                                                       *)

\* A new node has no list.
LEMMA InitStore ==
    ASSUME Init
    PROVE  Inv
<1> DEFINE g(k) == StoreIn(node, arrs, slot, k)
<1>1. source \in Sources /\ arrs = <<>> /\ slot = <<>>
    BY DEF Init
<1>2. PICK n \in {RawNode, FreshNode(None)} :
        node = [h \in Handles |-> IF h = Root THEN n ELSE FreshNode("absent")]
    BY DEF Init
<1>3. FreshNode("absent").typ = "absent" /\ n.typ # "absent"
  <2>1. source.kind # "absent"
      BY <1>1, TextOK
  <2> QED
      BY <2>1 DEF FreshNode, RawNode, Kind, None
<1>4. n \in NodeRec /\ FreshNode("absent") \in NodeRec
  <2>1. source.kind \in {"array", "object"}
      BY <1>1, TextOK
  <2>2. \A y \in {"array", "object", "absent", None} : FreshNode(y) \in NodeRec
      BY DEF FreshNode, NodeRec
  <2>3. RawNode \in NodeRec
    <3> DEFINE f == FreshNode(source.kind)
    <3>1. f \in NodeRec /\ RawNode = [f EXCEPT !.raw = TRUE]
        BY <2>1, <2>2 DEF RawNode, Kind
    <3> HIDE DEF f
    <3> QED
        BY <3>1 DEF NodeRec
  <2> QED
      BY <2>2, <2>3
<1>5. \A k \in Handles :
        node[k] \in {[FreshNode(source.kind) EXCEPT !.raw = TRUE], FreshNode(None),
                     FreshNode("absent"), FreshNode("error")}
    BY <1>2 DEF RawNode, Kind
<1>6. /\ \A k \in Handles : Good(source, g(k))
  <2> SUFFICES ASSUME NEW k \in Handles PROVE Good(source, g(k))
      OBVIOUS
  <2>1. g(k) = [n |-> node[k], arrs |-> arrs, slot |-> slot]
      BY DEF StoreIn
  <2>2. arrs \in Seq(Seq(Nat)) /\ slot \in Seq(Member) /\ Len(arrs) = 0 /\ Len(slot) = 0
      BY <1>1
  <2>3. ArraysOK(g(k))
      BY <2>1, <2>2 DEF ArraysOK
  <2>4. Len(slot) + Len(source.members) <= source.room
      BY <1>1, <2>2, TextOK
  <2> QED
      BY <1>1, <1>5, <2>1, <2>2, <2>3, <2>4, FreshGood
<1>7. NodesInv
  <2>1. node \in [Handles -> NodeRec]
      BY <1>2, <1>4
  <2>2. \A k \in Handles : k # Root => node[k].typ = "absent"
      BY <1>2, <1>3
  <2>3. \A k \in Handles : node[k].typ = "absent" => node[k] = FreshNode("absent")
      BY <1>2, <1>3
  <2> QED
      BY <1>1, <1>6, <2>1, <2>2, <2>3 DEF NodesInv, NodesOK
<1>8. PtrInv
  <2>1. ptr.slot = Nil
      BY DEF Init
  <2> QED
      BY <2>1 DEF PtrInv, PtrOK, Nil
<1>9. ItInv
  <2>1. it = [of |-> "nobody", pos |-> 0] /\ seen = <<>>
      BY DEF Init
  <2>2. it = [of |-> it.of, pos |-> it.pos] /\ it.of = "nobody"
      BY <2>1
  <2>3. seen \in Seq(Nat) /\ Len(seen) = 0
      BY <2>1
  <2> QED
      BY <2>2, <2>3 DEF ItInv, ItOK, SeenOK
<1> QED
    BY <1>7, <1>8, <1>9 DEF Inv

\* A state that does not change.
LEMMA StoreStutters ==
    ASSUME Inv, UNCHANGED vars
    PROVE  Inv' /\ Steady
<1>1. /\ source' = source /\ node' = node /\ arrs' = arrs /\ slot' = slot
      /\ ptr' = ptr /\ it' = it /\ seen' = seen /\ shrunk' = shrunk
    BY DEF vars
<1>2. Inv'
    BY <1>1 DEF Inv, NodesInv, PtrInv, ItInv
<1>3. \A h \in Handles : Stable(StoreIn(node, arrs, slot, h), StoreIn(node, arrs, slot, h))
  <2> TAKE h \in Handles
  <2> DEFINE s == StoreIn(node, arrs, slot, h)
  <2>1. Good(source, s)
      BY DEF Inv, NodesInv, NodesOK
  <2> HIDE DEF s
  <2>2. StoreOK(source, s) /\ s.n.len \in Nat
      BY <2>1, Fields DEF Good, StoreOK
  <2>3. s.n.len <= s.n.len
      BY <2>2
  <2>4. Stable(s, s)
      BY <2>2, <2>3, KeptStable
  <2> QED
      BY <2>4 DEF s
<1> QED
    BY <1>1, <1>2, <1>3 DEF Steady, AllStable

\* What the owner of one node does.
LEMMA UseStep ==
    ASSUME Inv, NEW h \in Handles, Use(h), UNCHANGED source
    PROVE  Inv' /\ Steady
<1>1. \A i \in Indices : i \in Nat /\ i # 0
  <2>1. source \in Sources
      BY DEF Inv, NodesInv, NodesOK
  <2>2. MaxLen \in Nat
      BY <2>1, TextOK DEF MaxLen, MaxSlots
  <2> QED
      BY <2>2 DEF Indices
<1>2. ASSUME NEW k \in Keys \ {0}, Get(h, k) \/ Unset(h, k) PROVE Inv' /\ Steady
    BY <1>2, GetStep, UnsetStep
<1>3. ASSUME NEW i \in Indices, Index(h, i) \/ UnsetByIndex(h, i) PROVE Inv' /\ Steady
    BY <1>1, <1>3, IndexStep, UnsetByIndexStep
<1>4. ASSUME NEW m \in Fresh, Promote(h, m) \/ AddMember(h, m) PROVE Inv' /\ Steady
    BY <1>4, PromoteStep, AddStep
<1>5. ASSUME NEW m \in Fresh, NEW k \in Keys \ {0}, SetMember(h, k, m.val) PROVE Inv' /\ Steady
    BY <1>5, FreshMember, SetStep
<1>6. ASSUME NEW m \in Fresh, NEW i \in Indices, SetByIndex(h, i, m.val) PROVE Inv' /\ Steady
    BY <1>6, FreshMember, SetByIndexStep
<1>7. ASSUME NEW i \in Indices, NEW j \in Indices, Move(h, i, j) PROVE Inv' /\ Steady
    BY <1>1, <1>7, MoveStep
<1>8. ASSUME LoadChildren(h) PROVE Inv' /\ Steady
    BY <1>8, LoadChildrenStep
<1>9. ASSUME Iterate(h) PROVE Inv' /\ Steady
    BY <1>9, IterateStep
<1>10. ASSUME Pop(h) PROVE Inv' /\ Steady
    BY <1>10, PopStep
<1>11. ASSUME SortKeys(h) PROVE Inv' /\ Steady
    BY <1>11, SortStep
<1>12. ASSUME UnmarshalJSON(h) PROVE Inv' /\ Steady
    BY <1>12, UnmarshalStep
<1> QED
    BY <1>2, <1>3, <1>4, <1>5, <1>6, <1>7, <1>8, <1>9, <1>10, <1>11, <1>12 DEF Use

\* Every step keeps the invariant and the lists stable.
LEMMA StoreStep ==
    ASSUME Disciplined, Inv, [Next]_vars
    PROVE  Inv' /\ Steady
<1>1. CASE UNCHANGED vars
    BY <1>1, StoreStutters
<1>2. CASE Next
  <2>1. UNCHANGED source
      BY <1>2 DEF Next
  <2>2. ASSUME NEW h \in Handles, Use(h) PROVE Inv' /\ Steady
      BY <2>1, <2>2, UseStep
  <2>3. ASSUME NEW h \in Handles, NEW c \in Handles, Copy(h, c) PROVE Inv' /\ Steady
      BY <2>1, <2>3, CopyAction
  <2>4. ASSUME IteratorNext PROVE Inv' /\ Steady
      BY <2>1, <2>4, IteratorNextStep
  <2>5. ASSUME NEW m \in Fresh, WriteThrough(m.val) PROVE Inv' /\ Steady
      BY <2>1, <2>5, FreshMember, WriteStep
  <2> QED
      BY <1>2, <2>2, <2>3, <2>4, <2>5 DEF Next
<1> QED
    BY <1>1, <1>2
-----------------------------------------------------------------------------
(* What the invariant says.                                                 *)

\* The list of a node, in numbers.
LEMMA Listing ==
    ASSUME Inv, NEW h \in Handles
    PROVE  /\ source \in Sources /\ StoreIn(node, arrs, slot, h) = Store(h)
           /\ Good(source, Store(h)) /\ StoreOK(source, Store(h)) /\ Store(h) \in StoreRec
           /\ Store(h).n = node[h] /\ Store(h).arrs = arrs /\ Store(h).slot = slot
           /\ node \in [Handles -> NodeRec] /\ node[h] \in NodeRec /\ node[h].len \in Nat
           /\ arrs \in Seq(Seq(Nat)) /\ slot \in Seq(Member) /\ Len(arrs) \in Nat /\ Len(slot) \in Nat
<1>1. StoreIn(node, arrs, slot, h) = Store(h) /\ Store(h).n = node[h]
      /\ Store(h).arrs = arrs /\ Store(h).slot = slot
    BY DEF StoreIn, Store
<1>2. /\ source \in Sources /\ Good(source, Store(h)) /\ node \in [Handles -> NodeRec]
    BY <1>1 DEF Inv, NodesInv, NodesOK
<1>3. StoreOK(source, Store(h)) /\ Store(h) \in StoreRec
    BY <1>2 DEF Good, StoreOK
<1> QED
    BY <1>1, <1>2, <1>3, Fields

\* A list is not longer than the room that the bound leaves.
LEMMA ListFits ==
    ASSUME Inv, NEW h \in Handles
    PROVE  node[h].len \in 0..MaxLen
<1> DEFINE s == Store(h)
           l == node[h].len
<1>1. /\ Good(source, s) /\ StoreOK(source, s) /\ s \in StoreRec /\ l = s.n.len /\ l \in Nat
      /\ source \in Sources /\ Len(s.slot) \in Nat
    BY Listing
<1> HIDE DEF s, l
<1>2. source.room \in Nat /\ Len(source.members) <= source.room /\ Len(source.members) \in Nat
    BY <1>1, TextOK
<1>3. CASE ~Reads(source)
  <2>1. l <= Len(s.slot) /\ Len(s.slot) + Unread(source, s.n) <= source.room
      BY <1>1, <1>3 DEF Good, OwnerOK
  <2>2. Unread(source, s.n) \in Nat
      BY <1>1, UnreadNat
  <2>3. l <= source.room
      BY <1>1, <1>2, <2>1, <2>2
  <2> QED
      BY <2>3, <1>1, <1>2 DEF MaxLen, MaxSlots, l
<1>4. CASE Reads(source)
  <2>1. ASSUME l # 0 PROVE l <= Len(source.members)
    <3>1. l \in 1..s.n.len
        BY <2>1, <1>1
    <3>2. l \in 1..Cap(s) /\ s.n.arr \in 1..Len(s.arrs) /\ Cap(s) = Len(s.arrs[s.n.arr])
        BY <1>1, <2>1, <3>1, ListedSlot
    <3>3. s.arrs[s.n.arr][l] # Nil
        BY <1>1, <3>1 DEF StoreOK, At
    <3> QED
        BY <1>1, <1>4, <3>2, <3>3 DEF Good, ReaderOK
  <2>2. l <= source.room
      BY <1>1, <1>2, <2>1
  <2> QED
      BY <2>2, <1>1, <1>2 DEF MaxLen, MaxSlots, l
<1> QED
    BY <1>3, <1>4

\* The invariant gives the types and bounds.
LEMMA InvTyped ==
    ASSUME Inv
    PROVE  TypeOK
<1>1. Root \in Handles
    BY StoreAssumption
<1>2. /\ source \in Sources /\ arrs \in Seq(Seq(Nat)) /\ slot \in Seq(Member)
      /\ Len(arrs) \in Nat /\ Len(slot) \in Nat /\ node \in [Handles -> NodeRec]
    BY <1>1, Listing
<1>3. ASSUME NEW h \in Handles
      PROVE  /\ node[h] \in [typ : {"absent", None, "array", "object", "error"},
                             raw : BOOLEAN, pos : 0..(Len(Text) + 1),
                             arr : 0..Len(arrs), len : 0..MaxLen]
             /\ node[h].len <= Cap(Store(h))
             /\ node[h].pos # 0 => ~node[h].raw /\ IsContainer(Store(h))
  <2>1. /\ StoreOK(source, Store(h)) /\ Store(h).n = node[h] /\ Store(h).arrs = arrs
        /\ node[h] \in NodeRec /\ node[h].len \in 0..MaxLen
      BY Listing, ListFits
  <2>2. CursorOK(source, node[h]) /\ node[h].arr \in 0..Len(arrs) /\ node[h].len <= Cap(Store(h))
      BY <2>1 DEF StoreOK
  <2>3. node[h].pos \in 0..(Len(Text) + 1)
    <3>1. Len(source.members) \in Nat /\ node[h].pos \in Nat
        BY <1>2, <2>1, TextOK DEF NodeRec
    <3>2. node[h].pos = 0 \/ node[h].pos = 1 \/ node[h].pos \in 1..Len(source.members)
        BY <2>2 DEF CursorOK
    <3> QED
        BY <3>1, <3>2 DEF Text
  <2>4. node[h].pos # 0 => ~node[h].raw /\ IsContainer(Store(h))
      BY <2>1, <2>2 DEF CursorOK, IsContainer
  <2> QED
      BY <2>1, <2>2, <2>3, <2>4 DEF NodeRec
<1>4. \A b \in DOMAIN arrs, i \in Indices : i <= Len(arrs[b]) => arrs[b][i] \in 0..Len(slot)
  <2> SUFFICES ASSUME NEW b \in DOMAIN arrs, NEW i \in Indices, i <= Len(arrs[b])
               PROVE  arrs[b][i] \in 0..Len(slot)
      OBVIOUS
  <2>1. b \in 1..Len(arrs)
      BY <1>2
  <2>2. i \in 1..Len(arrs[b])
    <3>1. arrs[b] \in Seq(Nat) /\ Len(arrs[b]) \in Nat
        BY <1>2, <2>1
    <3>2. MaxLen \in Nat
        BY <1>2, TextOK DEF MaxLen, MaxSlots
    <3> QED
        BY <3>1, <3>2 DEF Indices
  <2>3. ArraysOK(Store(Root)) /\ Store(Root).arrs = arrs /\ Store(Root).slot = slot
      BY <1>1, Listing DEF StoreOK
  <2> QED
      BY <2>1, <2>2, <2>3 DEF ArraysOK
<1>5. ptr.slot \in 0..Len(slot)
  <2>1. ptr.slot \in Nat /\ (ptr.slot # Nil => ptr.slot \in 1..Len(slot))
      BY DEF Inv, PtrInv, PtrOK
  <2> QED
      BY <1>2, <2>1 DEF Nil
<1>6. \A i \in DOMAIN seen : seen[i] \in DOMAIN slot
  <2>1. seen \in Seq(Nat) /\ \A i \in 1..Len(seen) : seen[i] \in 1..Len(slot)
      BY DEF Inv, ItInv, ItOK, SeenOK
  <2>2. DOMAIN seen = 1..Len(seen)
      BY <2>1
  <2>3. DOMAIN slot = 1..Len(slot)
      BY <1>2
  <2> QED
      BY <2>1, <2>2, <2>3
<1>7. node \in [Handles -> [typ : {"absent", None, "array", "object", "error"},
                            raw : BOOLEAN, pos : 0..(Len(Text) + 1),
                            arr : 0..Len(arrs), len : 0..MaxLen]]
    BY <1>2, <1>3
<1> QED
    BY <1>3, <1>4, <1>5, <1>6, <1>7 DEF TypeOK

\* ... where a retained pointer leads,
LEMMA InvPointer ==
    ASSUME Inv
    PROVE  PointerStaysChild
<1>1. TypeOK
    BY InvTyped
<1>2. ASSUME ptr.slot # Nil, IsContainer(Store(ptr.of))
      PROVE  ptr.slot \in Listed(ptr.of) \/ slot[ptr.slot].key = 0
  <2> DEFINE h == ptr.of
  <2>1. /\ h \in Handles
        /\ node[h].typ \in {"array", "object"} =>
             In(StoreIn(node, arrs, slot, h), ptr.slot) \/ slot[ptr.slot].key = 0
      BY <1>2 DEF Inv, PtrInv, PtrOK
  <2>2. StoreIn(node, arrs, slot, h) = Store(h) /\ Store(h).n = node[h]
      BY <2>1, Listing
  <2>3. In(Store(h), ptr.slot) \/ slot[ptr.slot].key = 0
      BY <1>2, <2>1, <2>2 DEF IsContainer
  <2>4. In(Store(h), ptr.slot) => ptr.slot \in Listed(h)
      BY <2>2 DEF In, Listed
  <2> QED
      BY <2>3, <2>4
<1> QED
    BY <1>1, <1>2 DEF PointerStaysChild

\* ... what an iterator has passed,
LEMMA InvIterator ==
    ASSUME Inv
    PROVE  IteratorVisitsOnce
<1>1. SeenOK(slot, seen)
    BY DEF Inv, ItInv, ItOK
<1>2. \A i, j \in DOMAIN seen : seen[i] = seen[j] => i = j
    BY <1>1 DEF SeenOK
<1>3. ASSUME it.of # "nobody", ~shrunk
      PROVE  it.pos <= node[it.of].len /\ seen = SubSeq(List(it.of), 1, it.pos)
  <2> DEFINE h == it.of
             f == List(h)
             p == it.pos
             l == node[h].len
  <2>1. h \in Handles /\ Passed(StoreIn(node, arrs, slot, h), p, seen, shrunk)
      BY <1>3 DEF Inv, ItInv, ItOK
  <2>2. StoreIn(node, arrs, slot, h) = Store(h) /\ Store(h).n = node[h] /\ l \in Nat
        /\ StoreOK(source, Store(h)) /\ Store(h).slot = slot /\ Len(slot) \in Nat
      BY <2>1, Listing
  <2>3. p \in Nat /\ p <= l /\ Len(seen) = p /\ \A i \in 1..p : seen[i] = At(Store(h), i)
      BY <2>1, <2>2, <1>3 DEF Passed
  <2>4. f \in Seq(Nat) /\ Len(f) = l /\ \A i \in 1..l : f[i] = At(Store(h), i)
    <3>1. \A i \in 1..l : At(Store(h), i) \in Nat
        BY <2>2, ListedSlot
    <3> QED
        BY <2>2, <3>1 DEF List
  <2>5. seen \in Seq(Nat)
      BY <1>1 DEF SeenOK
  <2> HIDE DEF f, p, l
  <2>6. SubSeq(f, 1, p) \in Seq(Nat) /\ Len(SubSeq(f, 1, p)) = p /\ \A i \in 1..p : SubSeq(f, 1, p)[i] = f[i]
      BY <2>2, <2>3, <2>4
  <2>7. \A i \in 1..p : i \in 1..l
      BY <2>2, <2>3
  <2>8. \A i \in 1..p : seen[i] = SubSeq(f, 1, p)[i]
      BY <2>3, <2>4, <2>6, <2>7
  <2>9. seen = SubSeq(f, 1, p)
      BY <2>3, <2>5, <2>6, <2>8
  <2> QED
      BY <2>3, <2>9 DEF f, p, l
<1> QED
    BY <1>2, <1>3 DEF IteratorVisitsOnce

\* The members before a malformed one.
LEMMA PrefixOf ==
    ASSUME source \in Sources
    PROVE  /\ Prefix \in Seq(Member) /\ Len(Prefix) = (IF ErrAt = 0 THEN Len(Text) ELSE ErrAt - 1)
           /\ Len(Prefix) \in Nat /\ Len(Prefix) <= Len(Text) /\ Len(Text) \in Nat
           /\ \A i \in 1..Len(Prefix) : Prefix[i] = Text[i]
<1>1. Prefix = Readable(source)
    BY DEF Prefix, Readable, Text, ErrAt
<1> QED
    BY <1>1, ReadableOf, TextOK DEF Text, ErrAt

\* The members of a node, as its readers see them.
LEMMA ReadMembers ==
    ASSUME Inv, Reads(source), NEW h \in Handles, IsContainer(Store(h))
    PROVE  /\ Len(Members(h)) = Len(Prefix)
           /\ \A i \in 1..Len(Prefix) : Members(h)[i].key = Prefix[i].key
<1> DEFINE s == Store(h)
           n == node[h]
           f == [i \in 1..n.len |-> MemberAt(s, i)]
           rest == IF n.pos = 0 THEN <<>> ELSE SubSeq(Prefix, n.pos, Len(Prefix))
<1>1. /\ source \in Sources /\ Good(source, s) /\ StoreOK(source, s) /\ s.n = n
      /\ s.arrs = arrs /\ s.slot = slot /\ n \in NodeRec /\ n.len \in Nat
      /\ slot \in Seq(Member) /\ CursorOK(source, n)
    BY Listing DEF StoreOK
<1>2. /\ Prefix \in Seq(Member) /\ Len(Prefix) = (IF ErrAt = 0 THEN Len(Text) ELSE ErrAt - 1)
      /\ Len(Prefix) \in Nat /\ Len(Prefix) <= Len(Text) /\ Len(Text) \in Nat
      /\ \A i \in 1..Len(Prefix) : Prefix[i] = Text[i]
    BY <1>1, PrefixOf
<1>3. CASE n.raw
  <2>1. Members(h) = Prefix
      BY <1>3 DEF Members
  <2> QED
      BY <2>1
<1>4. CASE ~n.raw
  <2>1. Members(h) = f \o rest
      BY <1>4 DEF Members
  <2>2. /\ ErrAt # 0 => n.pos # 0 /\ n.pos <= ErrAt
        /\ n.pos # 0 => n.len = n.pos - 1
        /\ n.pos = 0 => n.len = Len(Text)
      BY <1>1, <1>4 DEF Good, ReaderOK, ErrAt, Text
  <2>3. n.pos \in Nat /\ ErrAt \in Nat /\ ErrAt <= Len(Text)
      BY <1>1, TextOK DEF NodeRec, Text, ErrAt
  <2>4. n.pos # 0 => n.pos \in 1..(Len(Prefix) + 1)
    <3>1. n.pos # 0 => n.pos \in 1..Len(Text) \/ (n.pos = 1 /\ Text = <<>>)
        BY <1>1 DEF CursorOK, Text
    <3>2. CASE ErrAt = 0
        BY <3>1, <3>2, <1>2, <2>3
    <3>3. CASE ErrAt # 0
        BY <3>3, <1>2, <2>2, <2>3
    <3> QED
        BY <3>2, <3>3
  <2>5. \A i \in 1..n.len : MemberAt(s, i) \in Member /\ i <= Len(Text) /\ MemberAt(s, i).key = Text[i].key
    <3> SUFFICES ASSUME NEW i \in 1..n.len
                 PROVE  MemberAt(s, i) \in Member /\ i <= Len(Text) /\ MemberAt(s, i).key = Text[i].key
        OBVIOUS
    <3>1. /\ At(s, i) \in 1..Len(slot) /\ At(s, i) # Nil /\ i \in 1..Cap(s)
          /\ s.n.arr \in 1..Len(s.arrs) /\ Cap(s) = Len(s.arrs[s.n.arr])
      <4>1. n.len # 0
          BY <1>1
      <4>2. i \in 1..s.n.len
          BY <1>1
      <4>3. At(s, i) # Nil
          BY <1>1, <4>2 DEF StoreOK
      <4> QED
          BY <1>1, <4>1, <4>2, <4>3, ListedSlot
    <3>2. i <= Len(Text) /\ slot[At(s, i)].key = Text[i].key
        BY <1>1, <3>1 DEF Good, ReaderOK, At, Text
    <3> QED
        BY <3>1, <3>2, <1>1 DEF MemberAt
  <2>6. f \in Seq(Member) /\ Len(f) = n.len /\ \A i \in 1..n.len : f[i] = MemberAt(s, i)
      BY <2>5, <1>1
  <2>7. /\ rest \in Seq(Member) /\ Len(rest) \in Nat
        /\ n.len + Len(rest) = Len(Prefix)
        /\ \A i \in 1..Len(rest) : rest[i] = Prefix[n.len + i]
    <3>1. CASE n.pos = 0
      <4>1. ErrAt = 0 /\ rest = <<>> /\ n.len = Len(Text)
          BY <2>2, <3>1
      <4> HIDE DEF rest
      <4>2. rest \in Seq(Member) /\ Len(rest) = 0 /\ \A i \in 1..Len(rest) : FALSE
          BY <4>1
      <4>3. n.len + Len(rest) = Len(Prefix)
          BY <4>1, <4>2, <1>2
      <4> QED
          BY <4>2, <4>3
    <3>2. CASE n.pos # 0
      <4>1. rest = SubSeq(Prefix, n.pos, Len(Prefix)) /\ n.pos \in 1..(Len(Prefix) + 1) /\ n.len = n.pos - 1
          BY <2>2, <2>4, <3>2
      <4> HIDE DEF rest
      <4>2. /\ rest \in Seq(Member) /\ Len(rest) = (Len(Prefix) + 1) - n.pos
            /\ \A i \in 1..((Len(Prefix) + 1) - n.pos) : rest[i] = Prefix[(n.pos - 1) + i]
          BY <4>1, <1>2, RestOf
      <4>3. Len(rest) \in Nat /\ n.len + Len(rest) = Len(Prefix)
          BY <4>1, <4>2, <1>2
      <4> QED
          BY <4>1, <4>2, <4>3
    <3> QED
        BY <3>1, <3>2
  <2> HIDE DEF f, rest, s, n
  <2>8. /\ Len(Members(h)) = n.len + Len(rest)
        /\ \A i \in 1..(n.len + Len(rest)) :
             Members(h)[i] = IF i <= n.len THEN f[i] ELSE rest[i - n.len]
      BY <2>1, <2>6, <2>7, ConcatProperties
  <2>9. ASSUME NEW i \in 1..Len(Prefix) PROVE Members(h)[i].key = Prefix[i].key
    <3>1. CASE i <= n.len
      <4>1. i \in 1..n.len
          BY <3>1, <1>1
      <4> QED
          BY <4>1, <3>1, <2>5, <2>6, <2>7, <2>8, <1>2
    <3>2. CASE ~(i <= n.len)
      <4>1. i - n.len \in 1..Len(rest) /\ n.len + (i - n.len) = i
          BY <3>2, <1>1, <1>2, <2>7
      <4>2. Members(h)[i] = rest[i - n.len]
          BY <3>2, <2>7, <2>8
      <4>3. rest[i - n.len] = Prefix[i]
          BY <4>1, <2>7
      <4> QED
          BY <4>2, <4>3
    <3> QED
        BY <3>1, <3>2
  <2> QED
      BY <2>7, <2>8, <2>9
<1> QED
    BY <1>3, <1>4

\* ... what readers of copies see,
LEMMA InvCopies ==
    ASSUME Inv
    PROVE  CopiesReadTheWholeText
<1> SUFFICES ASSUME NEW h \in Handles, IsContainer(Store(h)), Ops \subseteq {"get", "load", "copy", "write"}
             PROVE  /\ Len(Members(h)) = Len(Prefix)
                    /\ \A i \in DOMAIN Prefix : Members(h)[i].key = Prefix[i].key
    BY DEF CopiesReadTheWholeText
<1>1. Reads(source)
    BY DEF Reads, Reading, Ops
<1>2. DOMAIN Prefix = 1..Len(Prefix)
  <2>1. Prefix \in Seq(Member)
      BY Listing, PrefixOf
  <2> QED
      BY <2>1
<1> QED
    BY <1>1, <1>2, ReadMembers

\* ... and that member pointers are real.
LEMMA InvNoNil ==
    ASSUME Inv
    PROVE  NoNilSlot
<1>1. ASSUME NEW h \in Handles PROVE \A i \in 1..node[h].len : At(Store(h), i) # Nil
  <2>1. StoreOK(source, Store(h)) /\ Store(h).n = node[h]
      BY Listing
  <2> QED
      BY <2>1 DEF StoreOK
<1> QED
    BY <1>1 DEF NoNilSlot

\* What a steady step leaves of the lists.
LEMMA SteadyLists ==
    ASSUME Inv, Inv', Steady, NEW h \in Handles
    PROVE  \/ ~IsContainer(Store(h)') \/ node'[h].raw
           \/ /\ \A i, j \in DOMAIN List(h)' : i < j /\ List(h)'[j] \in Listed(h) =>
                    \E a, b \in DOMAIN List(h) :
                      a < b /\ List(h)[a] = List(h)'[i] /\ List(h)[b] = List(h)'[j]
              /\ \A x \in Listed(h) \ Listed(h)' : slot'[x] = Cleared
<1> DEFINE s == Store(h)
           t == Store(h)'
<1>1. s = StoreIn(node, arrs, slot, h) /\ t = StoreIn(node', arrs', slot', h)
    BY DEF Store, StoreIn
<1>2. Stable(s, t)
    BY <1>1 DEF Steady, AllStable
<1>3. s.n = node[h] /\ t.n = node'[h] /\ t.slot = slot'
    BY <1>1 DEF StoreIn
<1>4. /\ List(h) = [i \in 1..s.n.len |-> At(s, i)] /\ List(h)' = [i \in 1..t.n.len |-> At(t, i)]
      /\ Listed(h) = {At(s, i) : i \in 1..s.n.len} /\ Listed(h)' = {At(t, i) : i \in 1..t.n.len}
    BY <1>3 DEF List, Listed, Store, At
<1> HIDE DEF s, t
<1>5. /\ \A x : x \in Listed(h) <=> In(s, x)
      /\ \A x : x \in Listed(h)' <=> In(t, x)
    BY <1>4 DEF In
<1>6. /\ DOMAIN List(h) = 1..s.n.len /\ \A i \in 1..s.n.len : List(h)[i] = At(s, i)
      /\ DOMAIN List(h)' = 1..t.n.len /\ \A i \in 1..t.n.len : List(h)'[i] = At(t, i)
    BY <1>4
<1>7. ~IsContainer(t) \/ t.n.raw \/
      /\ \A i, j \in 1..t.n.len : i < j /\ In(s, At(t, j)) =>
           \E a, b \in 1..s.n.len : a < b /\ At(s, a) = At(t, i) /\ At(s, b) = At(t, j)
      /\ \A x : In(s, x) /\ ~In(t, x) => t.slot[x] = Cleared
    BY <1>2 DEF Stable
<1>8. ASSUME NEW i \in DOMAIN List(h)', NEW j \in DOMAIN List(h)', i < j, List(h)'[j] \in Listed(h),
             IsContainer(t), ~t.n.raw
      PROVE  \E a, b \in DOMAIN List(h) :
               a < b /\ List(h)[a] = List(h)'[i] /\ List(h)[b] = List(h)'[j]
  <2>1. i \in 1..t.n.len /\ j \in 1..t.n.len /\ In(s, At(t, j))
      BY <1>5, <1>6, <1>8
  <2>2. PICK a \in 1..s.n.len, b \in 1..s.n.len : a < b /\ At(s, a) = At(t, i) /\ At(s, b) = At(t, j)
      BY <1>7, <1>8, <2>1
  <2>3. a \in DOMAIN List(h) /\ b \in DOMAIN List(h) /\ List(h)[a] = List(h)'[i] /\ List(h)[b] = List(h)'[j]
      BY <1>6, <2>1, <2>2
  <2> QED
      BY <2>2, <2>3
<1>9. ASSUME NEW x \in Listed(h) \ Listed(h)', IsContainer(t), ~t.n.raw PROVE slot'[x] = Cleared
    BY <1>3, <1>5, <1>7, <1>9
<1> QED
    BY <1>3, <1>8, <1>9 DEF t
-----------------------------------------------------------------------------
(* The theorems, for disciplined owners: who adds, moves, removes or iterates *)
(* has no copies; who has copies reads, loads and writes through pointers.    *)

\* What holds of a node's storage holds always.
THEOREM StoreIsSound == ASSUME Disciplined PROVE Spec => []Inv
<1>1. Init => Inv
    BY InitStore
<1>2. Inv /\ [Next]_vars => Inv'
    BY StoreStep
<1> QED
    BY <1>1, <1>2, PTL DEF Spec

\* Every member pointer that Get, Index and MarshalJSON dereference is real
\* (node.go:907, 1092, 1207). It is false where a node with a copy loses a member.
THEOREM PointersAreReal == ASSUME Disciplined PROVE Spec => []NoNilSlot
<1>1. Inv => NoNilSlot
    BY InvNoNil
<1> QED
    BY <1>1, StoreIsSound, PTL

\* A pointer that Get or Index returned addresses a member, or a removed and cleared
\* one (node.go:883-885), whether a node without copies is edited or copies are read;
\* the state is typed.
THEOREM PointersStayChildren == ASSUME Disciplined PROVE Spec => []PointerStaysChild
<1>1. Inv => PointerStaysChild
    BY InvPointer
<1> QED
    BY <1>1, StoreIsSound, PTL

\* An iterator over a node without copies passes no member twice and misses none
\* (iterator.go:66-129).
THEOREM IteratorsVisitOnce == ASSUME Disciplined PROVE Spec => []IteratorVisitsOnce
<1>1. Inv => IteratorVisitsOnce
    BY InvIterator
<1> QED
    BY <1>1, StoreIsSound, PTL

\* Copies that share a backing array, and are not edited, read the whole text each
\* (lazy.go:106-127).
THEOREM CopiesAreComplete == ASSUME Disciplined PROVE Spec => []CopiesReadTheWholeText
<1>1. Inv => CopiesReadTheWholeText
    BY InvCopies
<1> QED
    BY <1>1, StoreIsSound, PTL

\* No load of a node, and no edit of one without copies, puts a member that stays in
\* front of another or behind a new one, and one that removes a member clears it
\* (docs/compatibility.md:44).
THEOREM SlotsAreStable == ASSUME Disciplined PROVE Spec => StableSlots
<1>1. Inv /\ Inv' /\ [Next]_vars =>
        [\A h \in Handles :
           \/ ~IsContainer(Store(h)') \/ node'[h].raw
           \/ /\ \A i, j \in DOMAIN List(h)' : i < j /\ List(h)'[j] \in Listed(h) =>
                    \E a, b \in DOMAIN List(h) :
                      a < b /\ List(h)[a] = List(h)'[i] /\ List(h)[b] = List(h)'[j]
              /\ \A x \in Listed(h) \ Listed(h)' : slot'[x] = Cleared]_vars
    BY StoreStep, SteadyLists
<1> QED
    BY <1>1, StoreIsSound, PTL DEF Spec, StableSlots
=============================================================================
