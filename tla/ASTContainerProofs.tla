--------------------------- MODULE ASTContainerProofs ---------------------------
(***************************************************************************)
(* The lazy storage of ASTNodeStore implements ASTContainer: to its owner a *)
(* node is the list of members that parsing the whole text at once would    *)
(* have given, changed by nothing but his own operations.                   *)
(***************************************************************************)
EXTENDS ASTNodeStoreProofs

\* The abstract list changes with no copy: who copies a node only reads it.
CopiesOnlyRead == \A src \in Sources : "copy" \in src.ops => src.ops \subseteq {"get", "load", "copy"}

\* What loading relies on holds of every node that exists, the root among them; where
\* no copies are made it is the only one.
FaithOK(src, nd, A, L) ==
    /\ \A h \in Handles : nd[h].typ # "absent" => Faithful(src, StoreIn(nd, A, L, h))
    /\ nd[Root].typ # "absent"
    /\ "copy" \notin src.ops => \A h \in Handles : h # Root => nd[h].typ = "absent"
FaithInv == FaithOK(source, node, arrs, slot)

\* b is a in the order of the keys.
InOrder(a, b) ==
    \E p \in [DOMAIN a -> DOMAIN a] :
      /\ b = [i \in DOMAIN a |-> a[p[i]]]
      /\ \A i, j \in DOMAIN a : i < j =>
           a[p[i]].key < a[p[j]].key \/ (a[p[i]].key = a[p[j]].key /\ p[i] < p[j])

\* What an operation does to a list of members.
ListChanges(typ, a, b) ==
    \/ \E m \in Fresh : b = Append(a, m)
    \/ \E i \in DOMAIN a :
         \/ b = Container!RemoveAt(a, i)
         \/ \E m \in Fresh : b = [a EXCEPT ![i].val = m.val]
         \/ \E j \in DOMAIN a :
              typ = "array" /\ b = Container!InsertAt(Container!RemoveAt(a, j), i, a[j])
    \/ typ = "object" /\ InOrder(a, b)

\* What a step shows: nothing, a failure, or ...
FailsNow(src, s, t) ==
    Awaits(src, s) /\ t.n.typ = "error" /\ Shown(src, t) = <<>> /\ ~Awaits(src, t)
Renewed(src, t) ==
    /\ t.n.typ = (IF src.errAt # 0 THEN "error" ELSE src.kind) /\ ~Awaits(src, t)
    /\ src.errAt # 0 => Shown(src, t) = <<>>
    /\ src.errAt = 0 => Shown(src, t) = Readable(src)
\* ... a value that its owner gives it or changes.
Promoted(src, s, t) ==
    /\ s.n.typ = None /\ t.n.typ \in {"array", "object"}
    /\ ~Awaits(src, s) /\ ~Awaits(src, t) /\ \E m \in Fresh : Shown(src, t) = <<m>>
ListEdited(src, s, t) ==
    /\ IsContainer(s) /\ t.n.typ = s.n.typ /\ ~Awaits(src, s) /\ ~Awaits(src, t)
    /\ ListChanges(s.n.typ, Shown(src, s), Shown(src, t))
Written(src, s, t) ==
    /\ t.n.typ = s.n.typ /\ (Awaits(src, t) <=> Awaits(src, s))
    /\ \E i \in DOMAIN Shown(src, s) : \E m \in Fresh :
         Shown(src, t) = [Shown(src, s) EXCEPT ![i].val = m.val]
Implements(src, s, t) ==
    \/ ShowsSame(src, s, t) \/ FailsNow(src, s, t) \/ Renewed(src, t)
    \/ Promoted(src, s, t) \/ ListEdited(src, s, t) \/ Written(src, s, t)

RootNow == StoreIn(node, arrs, slot, Root)
RootNext == StoreIn(node', arrs', slot', Root)
-----------------------------------------------------------------------------
(* What operations do to the members of a node.                             *)

\* append adds the member at the end.
LEMMA AppendItems ==
    ASSUME NEW src, NEW s, StoreOK(src, s), NEW m \in Member, NEW u, StoreOK(src, u),
           Appended(s, m, u)
    PROVE  Items(u) = Append(Items(s), m)
<1> DEFINE a == Items(s)
           b == Items(u)
           c == Append(a, m)
           l == s.n.len
<1>1. a \in Seq(Member) /\ Len(a) = l /\ l \in Nat /\ \A i \in 1..l : a[i] = MemberAt(s, i)
    BY ItemsOf
<1>2. b \in Seq(Member) /\ Len(b) = u.n.len /\ \A i \in 1..u.n.len : b[i] = MemberAt(u, i)
    BY ItemsOf
<1>3. u.n.len = l + 1 /\ At(u, l + 1) = Len(u.slot) /\ \A i \in 1..l : At(u, i) = At(s, i)
    BY DEF Appended
<1>4. s.slot \in Seq(Member) /\ u.slot = Append(s.slot, m)
    BY Fields DEF StoreOK, Appended
<1>5. /\ Len(u.slot) = Len(s.slot) + 1 /\ u.slot[Len(s.slot) + 1] = m
      /\ \A x \in 1..Len(s.slot) : u.slot[x] = s.slot[x]
    BY <1>4, MemberAppended
<1>6. \A i \in 1..l : At(s, i) \in 1..Len(s.slot)
    BY ListedSlot
<1>7. MemberAt(u, l + 1) = m /\ \A i \in 1..l : MemberAt(u, i) = MemberAt(s, i)
    BY <1>3, <1>5, <1>6 DEF MemberAt
<1>8. c \in Seq(Member) /\ Len(c) = l + 1 /\ c[l + 1] = m /\ \A i \in 1..l : c[i] = a[i]
  <2> HIDE DEF a
  <2> QED
      BY <1>1, AppendProperties
<1> HIDE DEF a, b, c
<1>9. \A i \in 1..(l + 1) : i \in 1..l \/ i = l + 1
    BY <1>1
<1>10. \A i \in 1..Len(b) : b[i] = c[i]
    BY <1>1, <1>2, <1>3, <1>7, <1>8, <1>9
<1>11. b = c
    BY <1>2, <1>3, <1>8, <1>10, SeqEqual
<1> QED
    BY <1>11 DEF a, b, c

\* Writing the value of a listed slot replaces that of one member.
LEMMA ValueItems ==
    ASSUME NEW src, NEW s, StoreOK(src, s), NEW i \in 1..s.n.len, NEW v,
           NEW u, u = [s EXCEPT !.slot = WithValue(s.slot, At(s, i), v)]
    PROVE  /\ u.n = s.n /\ i \in DOMAIN Items(s)
           /\ Items(u) = WithValue(Items(s), i, v)
<1> DEFINE x == At(s, i)
           l == s.n.len
           L == [s.slot EXCEPT ![x].val = v]
<1>1. l \in Nat /\ s.slot \in Seq(Member) /\ x \in 1..Len(s.slot)
      /\ s = [n |-> s.n, arrs |-> s.arrs, slot |-> s.slot]
    BY Fields, ListedSlot DEF StoreOK
<1>2. (\A j \in 1..l : At(s, j) \in 1..Len(s.slot)) /\ \A j \in 1..l : At(s, j) = x => j = i
    BY ListedSlot
<1>3. u = [n |-> s.n, arrs |-> s.arrs, slot |-> L]
  <2>1. u = [s EXCEPT !.slot = L]
      BY DEF WithValue
  <2> HIDE DEF L
  <2> QED
      BY <2>1, <1>1, WithNode
<1>4. L[x] = [s.slot[x] EXCEPT !.val = v] /\ \A y \in 1..Len(s.slot) : y # x => L[y] = s.slot[y]
  <2>1. DOMAIN s.slot = 1..Len(s.slot)
      BY <1>1
  <2> HIDE DEF x
  <2> QED
      BY <2>1, <1>1
<1> HIDE DEF L
<1>5. u.n = s.n /\ u.arrs = s.arrs /\ u.slot = L
    BY <1>3
<1>6. \A j : At(u, j) = At(s, j)
    BY <1>5 DEF At
<1>7. \A j \in 1..l : MemberAt(u, j) = IF j = i THEN [MemberAt(s, i) EXCEPT !.val = v]
                                       ELSE MemberAt(s, j)
    BY <1>2, <1>4, <1>5, <1>6 DEF MemberAt
<1>8. Items(s) = [j \in 1..l |-> MemberAt(s, j)] /\ Items(u) = [j \in 1..l |-> MemberAt(u, j)]
    BY <1>5 DEF Items
<1> DEFINE M(j) == MemberAt(s, j)
<1>9. /\ Items(s) = [j \in 1..l |-> M(j)]
      /\ Items(u) = [j \in 1..l |-> IF j = i THEN [M(i) EXCEPT !.val = v] ELSE M(j)]
    BY <1>7, <1>8
<1> HIDE DEF M
<1> QED
    BY <1>5, <1>9 DEF WithValue

\* A slot that is not listed may be written.
LEMMA OtherItems ==
    ASSUME NEW src, NEW s, StoreOK(src, s), NEW x, \A i \in 1..s.n.len : At(s, i) # x, NEW v,
           NEW u, u = [n |-> s.n, arrs |-> s.arrs, slot |-> [s.slot EXCEPT ![x].val = v]]
    PROVE  Items(u) = Items(s)
<1> DEFINE L == [s.slot EXCEPT ![x].val = v]
<1>1. s.slot \in Seq(Member) /\ \A i \in 1..s.n.len : At(s, i) \in 1..Len(s.slot)
    BY Fields, ListedSlot DEF StoreOK
<1>2. \A y \in 1..Len(s.slot) : y # x => L[y] = s.slot[y]
    BY <1>1
<1> HIDE DEF L
<1>3. u.n = s.n /\ u.arrs = s.arrs /\ u.slot = L
    BY DEF L
<1>4. \A j : At(u, j) = At(s, j)
    BY <1>3 DEF At
<1>5. \A i \in 1..s.n.len : MemberAt(u, i) = MemberAt(s, i)
    BY <1>1, <1>2, <1>3, <1>4 DEF MemberAt
<1> QED
    BY <1>3, <1>5 DEF Items

\* The first k members of a list.
LEMMA FirstOf ==
    ASSUME NEW t \in Seq(Member), NEW k \in 0..Len(t)
    PROVE  /\ SubSeq(t, 1, k) \in Seq(Member) /\ Len(SubSeq(t, 1, k)) = k
           /\ \A i \in 1..k : SubSeq(t, 1, k)[i] = t[i]
<1>1. k \in Int /\ 1 \in Int /\ k \in Nat /\ \A i \in 1..k : i \in 1..Len(t)
    OBVIOUS
<1>2. \A i \in 1..k : t[i] \in Member
    BY <1>1
<1>3. /\ SubSeq(t, 1, k) \in Seq(Member)
      /\ Len(SubSeq(t, 1, k)) = IF 1 <= k THEN k - 1 + 1 ELSE 0
      /\ \A i \in 1..(k - 1 + 1) : SubSeq(t, 1, k)[i] = t[1 + i - 1]
    BY <1>1, <1>2, SubSeqProperties
<1>4. Len(SubSeq(t, 1, k)) = k
    BY <1>1, <1>3
<1>5. \A i \in 1..k : i \in 1..(k - 1 + 1) /\ 1 + i - 1 = i
    BY <1>1
<1> QED
    BY <1>3, <1>4, <1>5

\* Two lists, one after the other.
LEMMA Joined ==
    ASSUME NEW a \in Seq(Member), NEW b \in Seq(Member)
    PROVE  /\ a \o b \in Seq(Member) /\ Len(a \o b) = Len(a) + Len(b)
           /\ \A i \in 1..Len(a) : (a \o b)[i] = a[i]
           /\ \A i \in 1..Len(b) : (a \o b)[Len(a) + i] = b[i]
<1> DEFINE c == a \o b
           k == Len(a)
           l == Len(b)
<1>1. /\ c \in Seq(Member) /\ Len(c) = k + l /\ k \in Nat /\ l \in Nat
      /\ \A i \in 1..(k + l) : c[i] = IF i <= k THEN a[i] ELSE b[i - k]
    BY ConcatProperties
<1> HIDE DEF c, k, l
<1>2. /\ \A i \in 1..k : i \in 1..(k + l) /\ i <= k
      /\ \A i \in 1..l : k + i \in 1..(k + l) /\ ~(k + i <= k) /\ (k + i) - k = i
    BY <1>1
<1>3. ASSUME NEW i \in 1..k PROVE c[i] = a[i]
    BY <1>1, <1>2
<1>4. ASSUME NEW i \in 1..l PROVE c[k + i] = b[i]
  <2>1. k + i \in 1..(k + l) /\ ~(k + i <= k) /\ (k + i) - k = i
      BY <1>2
  <2>2. c[k + i] = IF k + i <= k THEN a[k + i] ELSE b[(k + i) - k]
      BY <2>1, <1>1
  <2> QED
      BY <2>1, <2>2
<1> QED
    BY <1>1, <1>3, <1>4 DEF c, k, l

\* A list without its member at i.
LEMMA WithoutOne ==
    ASSUME NEW t \in Seq(Member), NEW i \in 1..Len(t), NEW r, r = Container!RemoveAt(t, i)
    PROVE  /\ r \in Seq(Member) /\ Len(r) = Len(t) - 1
           /\ \A j \in 1..(Len(t) - 1) : r[j] = IF j < i THEN t[j] ELSE t[j + 1]
<1> DEFINE n == Len(t)
           a == SubSeq(t, 1, i - 1)
           b == SubSeq(t, i + 1, n)
<1>1. n \in Nat /\ i - 1 \in 0..Len(t) /\ i - 1 \in Nat /\ i + 1 \in 1..(Len(t) + 1) /\ n - i \in Nat
      /\ (n + 1) - (i + 1) = n - i
    OBVIOUS
<1>2. a \in Seq(Member) /\ Len(a) = i - 1 /\ \A j \in 1..(i - 1) : a[j] = t[j]
    BY <1>1, FirstOf
<1>3. b \in Seq(Member) /\ Len(b) = n - i /\ \A j \in 1..(n - i) : b[j] = t[i + j]
  <2>1. /\ b \in Seq(Member) /\ Len(b) = (n + 1) - (i + 1)
        /\ \A j \in 1..((n + 1) - (i + 1)) : b[j] = t[((i + 1) - 1) + j]
      BY <1>1, RestOf
  <2>2. \A j : ((i + 1) - 1) + j = i + j
      OBVIOUS
  <2> HIDE DEF b
  <2> QED
      BY <2>1, <2>2, <1>1
<1>4. r = a \o b
    BY DEF Container!RemoveAt
<1> HIDE DEF a, b
<1>5. /\ r \in Seq(Member) /\ Len(r) = (i - 1) + (n - i)
      /\ \A j \in 1..(i - 1) : r[j] = a[j]
      /\ \A j \in 1..(n - i) : r[(i - 1) + j] = b[j]
  <2> DEFINE k == i - 1
             m == n - i
  <2>1. a \in Seq(Member) /\ b \in Seq(Member) /\ k \in Nat /\ m \in Nat /\ Len(a) = k /\ Len(b) = m
      BY <1>1, <1>2, <1>3
  <2> HIDE DEF k, m
  <2>2. /\ a \o b \in Seq(Member) /\ Len(a \o b) = Len(a) + Len(b)
        /\ \A j \in 1..Len(a) : (a \o b)[j] = a[j]
        /\ \A j \in 1..Len(b) : (a \o b)[Len(a) + j] = b[j]
      BY ONLY <2>1, Joined
  <2>3. /\ r \in Seq(Member) /\ Len(r) = k + m
        /\ \A j \in 1..k : r[j] = a[j]
        /\ \A j \in 1..m : r[k + j] = b[j]
      BY ONLY <2>1, <2>2, <1>4
  <2> QED
      BY ONLY <2>3 DEF k, m
<1>6. ASSUME NEW j \in 1..(n - 1) PROVE r[j] = IF j < i THEN t[j] ELSE t[j + 1]
  <2>1. CASE j < i
    <3>1. j \in 1..(i - 1)
        BY <2>1
    <3> QED
        BY <2>1, <3>1, <1>2, <1>5
  <2>2. CASE ~(j < i)
    <3> DEFINE k == j - (i - 1)
    <3>1. k \in 1..(n - i) /\ (i - 1) + k = j /\ i + k = j + 1
        BY <2>2
    <3> HIDE DEF k
    <3>2. r[(i - 1) + k] = b[k] /\ b[k] = t[i + k]
        BY <3>1, <1>3, <1>5
    <3> QED
        BY <2>2, <3>1, <3>2
  <2> QED
      BY <2>1, <2>2
<1>7. (i - 1) + (n - i) = n - 1
    OBVIOUS
<1> QED
    BY <1>5, <1>6, <1>7

\* A list with e put before its member at i.
LEMMA WithOne ==
    ASSUME NEW t \in Seq(Member), NEW i \in 1..(Len(t) + 1),
           NEW e \in Member, NEW r, r = Container!InsertAt(t, i, e)
    PROVE  /\ r \in Seq(Member) /\ Len(r) = Len(t) + 1
           /\ \A j \in 1..(Len(t) + 1) :
                r[j] = IF j < i THEN t[j] ELSE IF j = i THEN e ELSE t[j - 1]
<1> DEFINE n == Len(t)
           a == SubSeq(t, 1, i - 1)
           b == SubSeq(t, i, n)
           x == <<e>>
           y == a \o x
<1>1. n \in Nat /\ i - 1 \in 0..Len(t) /\ i - 1 \in Nat /\ i \in 1..(Len(t) + 1) /\ (n + 1) - i \in Nat
      /\ i \in Nat /\ (i - 1) + 1 = i /\ 1 \in Nat
    OBVIOUS
<1>2. a \in Seq(Member) /\ Len(a) = i - 1 /\ \A j \in 1..(i - 1) : a[j] = t[j]
    BY <1>1, FirstOf
<1>3. b \in Seq(Member) /\ Len(b) = (n + 1) - i
      /\ \A j \in 1..((n + 1) - i) : b[j] = t[(i - 1) + j]
    BY <1>1, RestOf
<1>4. x \in Seq(Member) /\ Len(x) = 1 /\ x[1] = e
    OBVIOUS
<1>5. r = y \o b
    BY DEF Container!InsertAt
<1> HIDE DEF a, b, x
<1>6. /\ y \in Seq(Member) /\ Len(y) = (i - 1) + 1
      /\ \A j \in 1..(i - 1) : y[j] = a[j]
      /\ \A j \in 1..1 : y[(i - 1) + j] = x[j]
  <2> DEFINE k == i - 1
  <2>1. a \in Seq(Member) /\ x \in Seq(Member) /\ k \in Nat /\ Len(a) = k /\ Len(x) = 1 /\ 1 \in Nat
      BY <1>1, <1>2, <1>4
  <2> HIDE DEF k
  <2>2. /\ a \o x \in Seq(Member) /\ Len(a \o x) = Len(a) + Len(x)
        /\ \A j \in 1..Len(a) : (a \o x)[j] = a[j]
        /\ \A j \in 1..Len(x) : (a \o x)[Len(a) + j] = x[j]
      BY ONLY <2>1, Joined
  <2> QED
      BY <2>1, <2>2 DEF k
<1> HIDE DEF y
<1>7. Len(y) = i /\ (\A j \in 1..(i - 1) : y[j] = t[j]) /\ y[i] = e
    BY <1>1, <1>2, <1>4, <1>6
<1>8. /\ r \in Seq(Member) /\ Len(r) = i + ((n + 1) - i)
      /\ \A j \in 1..i : r[j] = y[j]
      /\ \A j \in 1..((n + 1) - i) : r[i + j] = b[j]
  <2> DEFINE m == (n + 1) - i
  <2>1. y \in Seq(Member) /\ b \in Seq(Member) /\ i \in Nat /\ m \in Nat /\ Len(y) = i /\ Len(b) = m
      BY <1>1, <1>3, <1>6, <1>7
  <2> HIDE DEF m
  <2>2. /\ y \o b \in Seq(Member) /\ Len(y \o b) = Len(y) + Len(b)
        /\ \A j \in 1..Len(y) : (y \o b)[j] = y[j]
        /\ \A j \in 1..Len(b) : (y \o b)[Len(y) + j] = b[j]
      BY ONLY <2>1, Joined
  <2>3. /\ r \in Seq(Member) /\ Len(r) = i + m
        /\ \A j \in 1..i : r[j] = y[j]
        /\ \A j \in 1..m : r[i + j] = b[j]
      BY ONLY <2>1, <2>2, <1>5
  <2> QED
      BY ONLY <2>3 DEF m
<1>9. ASSUME NEW j \in 1..(n + 1)
      PROVE  r[j] = IF j < i THEN t[j] ELSE IF j = i THEN e ELSE t[j - 1]
  <2>1. CASE j < i
    <3>1. j \in 1..(i - 1) /\ j \in 1..i
        BY <2>1
    <3> QED
        BY <2>1, <3>1, <1>7, <1>8
  <2>2. CASE j = i
    <3>1. j \in 1..i /\ ~(j < i)
        BY <2>2
    <3> QED
        BY <2>2, <3>1, <1>7, <1>8
  <2>3. CASE ~(j < i) /\ j # i
    <3> DEFINE k == j - i
    <3>1. k \in 1..((n + 1) - i) /\ i + k = j /\ (i - 1) + k = j - 1
        BY <2>3
    <3> HIDE DEF k
    <3>2. r[i + k] = b[k] /\ b[k] = t[(i - 1) + k]
        BY <3>1, <1>3, <1>8
    <3> QED
        BY <2>3, <3>1, <3>2
  <2> QED
      BY <2>1, <2>2, <2>3
<1>10. i + ((n + 1) - i) = n + 1
    OBVIOUS
<1> QED
    BY <1>8, <1>9, <1>10

\* A removal removes one member.
LEMMA RemoveItems ==
    ASSUME NEW src, NEW s, StoreOK(src, s), NEW i \in 1..s.n.len, NEW u, StoreOK(src, u),
           Removes(s, i, u)
    PROVE  i \in DOMAIN Items(s) /\ Items(u) = Container!RemoveAt(Items(s), i)
<1> DEFINE a == Items(s)
           b == Items(u)
           l == s.n.len
           r == Container!RemoveAt(a, i)
<1>1. a \in Seq(Member) /\ Len(a) = l /\ l \in Nat /\ \A j \in 1..l : a[j] = MemberAt(s, j)
    BY ItemsOf
<1>2. b \in Seq(Member) /\ Len(b) = u.n.len /\ \A j \in 1..u.n.len : b[j] = MemberAt(u, j)
    BY ItemsOf
<1>3. /\ u.n.len = l - 1 /\ u.slot = [s.slot EXCEPT ![At(s, i)] = Cleared]
      /\ \A j \in 1..(l - 1) : At(u, j) = IF j < i THEN At(s, j) ELSE At(s, j + 1)
    BY DEF Removes
<1>4. /\ \A j \in 1..l : At(s, j) \in 1..Len(s.slot)
      /\ \A j \in 1..l : At(s, j) = At(s, i) => j = i
    BY ListedSlot
<1>5. \A x \in 1..Len(s.slot) : x # At(s, i) => u.slot[x] = s.slot[x]
  <2>1. s.slot \in Seq(Member)
      BY Fields DEF StoreOK
  <2> QED
      BY <2>1, <1>3
<1>6. r \in Seq(Member) /\ Len(r) = l - 1
      /\ \A j \in 1..(l - 1) : r[j] = IF j < i THEN a[j] ELSE a[j + 1]
  <2>1. i \in 1..l /\ a \in Seq(Member) /\ l \in Nat /\ Len(a) = l
        /\ r = Container!RemoveAt(a, i)
      BY <1>1
  <2> HIDE DEF a, l, r
  <2>2. r \in Seq(Member) /\ Len(r) = Len(a) - 1
        /\ \A j \in 1..(Len(a) - 1) : r[j] = IF j < i THEN a[j] ELSE a[j + 1]
      BY ONLY <2>1, WithoutOne
  <2> QED
      BY <2>1, <2>2
<1>7. ASSUME NEW j \in 1..(l - 1) PROVE b[j] = r[j]
  <2>1. j \in 1..l /\ j + 1 \in 1..l /\ (j < i => j # i) /\ (~(j < i) => j + 1 # i)
      BY <1>1
  <2>2. b[j] = MemberAt(u, j)
      BY <1>2, <1>3
  <2>3. CASE j < i
      BY <2>1, <2>2, <2>3, <1>1, <1>3, <1>4, <1>5, <1>6 DEF MemberAt
  <2>4. CASE ~(j < i)
      BY <2>1, <2>2, <2>4, <1>1, <1>3, <1>4, <1>5, <1>6 DEF MemberAt
  <2> QED
      BY <2>3, <2>4
<1> HIDE DEF a, b, r
<1>8. b = r
    BY <1>2, <1>3, <1>6, <1>7, SeqEqual
<1>9. i \in DOMAIN a
    BY <1>1
<1> QED
    BY <1>8, <1>9 DEF a, b, r

Exchanges(s, f, L) ==
    \A i \in 1..s.n.len : f[i] \in 1..s.n.len /\ L[At(s, i)] = MemberAt(s, f[i])
Picked(s, f) == [i \in 1..s.n.len |-> Items(s)[f[i]]]

\* Slots that exchange their members, the one of i for the one of f[i].
LEMMA PermutedItems ==
    ASSUME NEW src, NEW s, StoreOK(src, s), NEW f, NEW L,
           Exchanges(s, f, L), NEW t, t = [s EXCEPT !.slot = L]
    PROVE  t.n = s.n /\ Items(t) = Picked(s, f)
<1>1. s = [n |-> s.n, arrs |-> s.arrs, slot |-> s.slot]
    BY Fields DEF StoreOK
<1>2. t = [n |-> s.n, arrs |-> s.arrs, slot |-> L]
    BY <1>1, WithNode
<1>3. t.n = s.n /\ t.arrs = s.arrs /\ t.slot = L
    BY <1>2
<1>4. \A i : At(t, i) = At(s, i)
    BY <1>3 DEF At
<1>5. \A i \in 1..s.n.len : Items(s)[i] = MemberAt(s, i)
    BY ItemsOf
<1>6. \A i \in 1..s.n.len : MemberAt(t, i) = Items(s)[f[i]]
    BY <1>3, <1>4, <1>5 DEF MemberAt, Exchanges
<1>7. Items(t) = [i \in 1..s.n.len |-> MemberAt(t, i)]
    BY <1>3 DEF Items
<1> QED
    BY <1>3, <1>6, <1>7 DEF Picked

\* The place of a slot in the list.
LEMMA PlaceOf ==
    ASSUME NEW src, NEW s, StoreOK(src, s), NEW i \in 1..s.n.len
    PROVE  /\ (CHOOSE j \in 1..s.n.len : At(s, j) = At(s, i)) = i
           /\ At(s, i) \in DOMAIN s.slot /\ \E j \in 1..s.n.len : At(s, j) = At(s, i)
<1>1. At(s, i) \in 1..Len(s.slot) /\ \A j \in 1..s.n.len : At(s, j) = At(s, i) => j = i
    BY ListedSlot
<1>2. s.slot \in Seq(Member)
    BY Fields DEF StoreOK
<1> QED
    BY <1>1, <1>2

\* Move takes a member out and puts it before another.
LEMMA MoveItems ==
    ASSUME NEW src, NEW s, StoreOK(src, s), NEW dst \in 1..s.n.len, NEW from \in 1..s.n.len,
           NEW t, t = Permuted(s, LAMBDA i : Shifted(i, dst, from))
    PROVE  /\ t.n = s.n /\ dst \in DOMAIN Items(s) /\ from \in DOMAIN Items(s)
           /\ Items(t) = Container!InsertAt(Container!RemoveAt(Items(s), from), dst, Items(s)[from])
<1> DEFINE l == s.n.len
           a == Items(s)
           w == Container!RemoveAt(a, from)
           r == Container!InsertAt(w, dst, a[from])
           f == [i \in 1..l |-> Shifted(i, dst, from)]
           Position(x) == CHOOSE i \in 1..s.n.len : At(s, i) = x
           L == [x \in DOMAIN s.slot |->
                   IF \E i \in 1..s.n.len : At(s, i) = x
                   THEN MemberAt(s, Shifted(Position(x), dst, from)) ELSE s.slot[x]]
<1>1. l \in Nat /\ a \in Seq(Member) /\ Len(a) = l
    BY ItemsOf
<1>2. t = [s EXCEPT !.slot = L]
    BY DEF Permuted
<1>3. \A i \in 1..l : f[i] = Shifted(i, dst, from) /\ f[i] \in 1..l
    BY <1>1, ShiftedIn
<1>4. ASSUME NEW i \in 1..l PROVE L[At(s, i)] = MemberAt(s, f[i])
  <2>1. Position(At(s, i)) = i /\ At(s, i) \in DOMAIN s.slot
        /\ \E j \in 1..l : At(s, j) = At(s, i)
      BY PlaceOf
  <2> HIDE DEF Position, f
  <2> QED
      BY <2>1, <1>3
<1> HIDE DEF L, f
<1>5. t.n = s.n /\ Items(t) = [i \in 1..l |-> a[f[i]]]
  <2>1. Exchanges(s, f, L)
      BY <1>3, <1>4 DEF Exchanges
  <2>2. t.n = s.n /\ Items(t) = Picked(s, f)
      BY <2>1, <1>2, PermutedItems
  <2> QED
      BY <2>2 DEF Picked
<1>6. w \in Seq(Member) /\ Len(w) = l - 1
      /\ \A j \in 1..(l - 1) : w[j] = IF j < from THEN a[j] ELSE a[j + 1]
  <2>1. from \in 1..Len(a) /\ a \in Seq(Member) /\ w = Container!RemoveAt(a, from)
      BY <1>1
  <2> HIDE DEF a, l, w
  <2>2. w \in Seq(Member) /\ Len(w) = Len(a) - 1
        /\ \A j \in 1..(Len(a) - 1) : w[j] = IF j < from THEN a[j] ELSE a[j + 1]
      BY ONLY <2>1, WithoutOne
  <2> QED
      BY <2>2, <1>1
<1> HIDE DEF w
<1>7. r \in Seq(Member) /\ Len(r) = l
      /\ \A j \in 1..l : r[j] = IF j < dst THEN w[j] ELSE IF j = dst THEN a[from] ELSE w[j - 1]
  <2> DEFINE e == a[from]
  <2>1. w \in Seq(Member) /\ dst \in 1..(Len(w) + 1) /\ e \in Member
        /\ r = Container!InsertAt(w, dst, e) /\ Len(w) + 1 = l
      BY <1>1, <1>6
  <2> HIDE DEF a, l, r, e
  <2>2. r \in Seq(Member) /\ Len(r) = Len(w) + 1
        /\ \A j \in 1..(Len(w) + 1) : r[j] = IF j < dst THEN w[j] ELSE IF j = dst THEN e ELSE w[j - 1]
      BY ONLY <2>1, WithOne
  <2> QED
      BY <2>1, <2>2 DEF e
<1> HIDE DEF r
<1>8. ASSUME NEW j \in 1..l PROVE r[j] = a[f[j]]
  <2>1. f[j] = Shifted(j, dst, from) /\ dst \in 1..l /\ from \in 1..l
        /\ dst \in Int /\ from \in Int /\ j \in Int
      BY <1>1, <1>3
  <2>6. f[j] = IF j = dst THEN from
               ELSE IF from < dst /\ from <= j /\ j <= dst THEN j + 1
               ELSE IF dst < from /\ dst <= j /\ j <= from THEN j - 1 ELSE j
    <3>1. (j \in from..dst <=> from <= j /\ j <= dst) /\ (j \in dst..from <=> dst <= j /\ j <= from)
        BY <2>1
    <3> QED
        BY <2>1, <3>1 DEF Shifted
  <2>2. r[j] = IF j < dst THEN w[j] ELSE IF j = dst THEN a[from] ELSE w[j - 1]
      BY <1>7
  <2>3. CASE j < dst
    <3>1. j \in 1..(l - 1) /\ r[j] = w[j]
        BY <2>1, <2>2, <2>3, <1>1
    <3>2. w[j] = IF j < from THEN a[j] ELSE a[j + 1]
        BY <3>1, <1>6
    <3>3. f[j] = IF j < from THEN j ELSE j + 1
        BY ONLY <2>1, <2>3, <2>6
    <3> QED
        BY <3>1, <3>2, <3>3
  <2>4. CASE j = dst
    <3>1. ~(j < dst)
        BY ONLY <2>1, <2>4
    <3> QED
        BY ONLY <3>1, <2>2, <2>4, <2>6
  <2>5. CASE dst < j
    <3>1. j - 1 \in 1..(l - 1) /\ r[j] = w[j - 1] /\ (j - 1) + 1 = j
        BY <2>1, <2>2, <2>5, <1>1
    <3>2. w[j - 1] = IF j - 1 < from THEN a[j - 1] ELSE a[j]
        BY <3>1, <1>6
    <3>3. f[j] = IF j - 1 < from THEN j - 1 ELSE j
        BY ONLY <2>1, <2>5, <2>6
    <3> QED
        BY <3>1, <3>2, <3>3
  <2> QED
      BY <2>1, <2>3, <2>4, <2>5, <1>1
<1>9. r = [i \in 1..l |-> a[f[i]]]
  <2> HIDE DEF a, l
  <2>1. DOMAIN r = 1..l /\ r = [i \in DOMAIN r |-> r[i]]
      BY <1>1, <1>7
  <2> QED
      BY <2>1, <1>8
<1>10. DOMAIN a = 1..l
    BY <1>1
<1> QED
    BY <1>5, <1>9, <1>10 DEF r, w

\* SortKeys puts the members in the order of their keys.
LEMMA SortItems ==
    ASSUME NEW src, NEW s, StoreOK(src, s), NEW t,
           t = Permuted(s, LAMBDA r : CHOOSE i \in 1..s.n.len :
                             Cardinality({j \in 1..s.n.len : Before(s, j, i)}) + 1 = r)
    PROVE  t.n = s.n /\ InOrder(Items(s), Items(t))
<1> DEFINE l == s.n.len
           a == Items(s)
           Position(x) == CHOOSE i \in 1..s.n.len : At(s, i) = x
           from(r) == CHOOSE i \in 1..s.n.len : RankOf(s, i) = r
           p == [i \in 1..l |-> from(i)]
           L == [x \in DOMAIN s.slot |->
                   IF \E i \in 1..s.n.len : At(s, i) = x
                   THEN MemberAt(s, from(Position(x))) ELSE s.slot[x]]
<1>1. l \in Nat /\ a \in Seq(Member) /\ Len(a) = l /\ DOMAIN a = 1..l
      /\ \A i \in 1..l : a[i] = MemberAt(s, i) /\ MemberAt(s, i) \in Member
    BY ItemsOf
<1>2. t = [s EXCEPT !.slot = L]
    BY DEF Permuted, RankOf
<1>3. \A i \in 1..l : MemberAt(s, i).key \in Nat
    BY <1>1 DEF Member
<1>4. ASSUME NEW r \in 1..l PROVE from(r) \in 1..l /\ RankOf(s, from(r)) = r
  <2>1. \E i \in 1..l : RankOf(s, i) = r
      BY <1>1, <1>3, Ranked
  <2> QED
      BY <2>1
<1> HIDE DEF from
<1>5. \A i \in 1..l : p[i] = from(i) /\ p[i] \in 1..l /\ RankOf(s, p[i]) = i
    BY <1>4
<1>6. ASSUME NEW i \in 1..l PROVE L[At(s, i)] = MemberAt(s, p[i])
  <2>1. Position(At(s, i)) = i /\ At(s, i) \in DOMAIN s.slot
        /\ \E j \in 1..l : At(s, j) = At(s, i)
      BY PlaceOf
  <2> HIDE DEF Position, p
  <2> QED
      BY <2>1, <1>5
<1> HIDE DEF L
<1>7. p \in [1..l -> 1..l]
    BY <1>4
<1> HIDE DEF p
<1>8. t.n = s.n /\ Items(t) = [i \in 1..l |-> a[p[i]]]
  <2>1. Exchanges(s, p, L)
      BY <1>5, <1>6 DEF Exchanges
  <2>2. t.n = s.n /\ Items(t) = Picked(s, p)
      BY <2>1, <1>2, PermutedItems
  <2> QED
      BY <2>2 DEF Picked
<1>9. ASSUME NEW i \in 1..l, NEW j \in 1..l, i < j
      PROVE  \/ a[p[i]].key < a[p[j]].key
             \/ a[p[i]].key = a[p[j]].key /\ p[i] < p[j]
  <2>1. p[i] \in 1..l /\ p[j] \in 1..l /\ RankOf(s, p[i]) < RankOf(s, p[j])
      BY <1>5, <1>9
  <2>2. Before(s, p[i], p[j])
      BY <2>1, <1>1, <1>3, Ranked
  <2> HIDE DEF a
  <2> QED
      BY <2>1, <2>2, <1>1 DEF Before
<1> HIDE DEF a, l
<1> QED
    BY <1>1, <1>7, <1>8, <1>9 DEF a, l, InOrder
-----------------------------------------------------------------------------
(* What the abstract container is made of.                                  *)

\* What the mapping reads of the root's node, before ...
LEMMA RootShown ==
    /\ Members(Root) = Shown(source, RootNow) /\ Prefix = Readable(source)
    /\ (ErrAt # 0 /\ (node[Root].raw \/ node[Root].pos # 0)) = Awaits(source, RootNow)
    /\ node[Root].typ = RootNow.n.typ
<1> DEFINE s == RootNow
<1>1. Prefix = Readable(source)
    BY DEF Prefix, Readable, Text, ErrAt
<1>2. s = Store(Root) /\ s.n = node[Root]
    BY DEF RootNow, StoreIn, Store
<1>3. Items(s) = [i \in 1..node[Root].len |-> MemberAt(Store(Root), i)]
    BY <1>2 DEF Items
<1>4. Rest(source, s.n) =
        (IF node[Root].pos = 0 THEN <<>> ELSE SubSeq(Prefix, node[Root].pos, Len(Prefix)))
    BY <1>1, <1>2 DEF Rest
<1> HIDE DEF s
<1>5. Members(Root) = Shown(source, s)
    BY <1>1, <1>2, <1>3, <1>4 DEF Members, Shown
<1>6. (ErrAt # 0 /\ (node[Root].raw \/ node[Root].pos # 0)) = Awaits(source, s)
    BY <1>2 DEF Awaits, ErrAt
<1> QED
    BY <1>1, <1>2, <1>5, <1>6 DEF s

\* ... and after a step.
LEMMA RootShownNext ==
    ASSUME UNCHANGED source
    PROVE  /\ Members(Root)' = Shown(source, RootNext) /\ Prefix' = Prefix
           /\ (ErrAt # 0 /\ (node[Root].raw \/ node[Root].pos # 0))' = Awaits(source, RootNext)
           /\ (node[Root].typ)' = RootNext.n.typ
           /\ Kind' = Kind /\ ErrAt' = ErrAt
<1> DEFINE s == RootNext
<1>1. Prefix' = Readable(source) /\ Prefix' = Prefix /\ Kind' = Kind /\ ErrAt' = ErrAt
    BY DEF Prefix, Readable, Text, ErrAt, Kind
<1>2. s = Store(Root)' /\ s.n = node'[Root]
    BY DEF RootNext, StoreIn, Store
<1>3. Items(s) = [i \in 1..node'[Root].len |-> MemberAt(Store(Root)', i)]
    BY <1>2 DEF Items
<1>4. Rest(source, s.n) =
        (IF node'[Root].pos = 0 THEN <<>> ELSE SubSeq(Prefix', node'[Root].pos, Len(Prefix')))
    BY <1>1, <1>2 DEF Rest
<1> HIDE DEF s
<1>5. Members(Root)' = Shown(source, s)
    BY <1>1, <1>2, <1>3, <1>4 DEF Members, Shown
<1>6. (ErrAt # 0 /\ (node[Root].raw \/ node[Root].pos # 0))' = Awaits(source, s)
    BY <1>2 DEF Awaits, ErrAt
<1> QED
    BY <1>1, <1>2, <1>5, <1>6 DEF s

\* Awaiting is true or false.
LEMMA AwaitsEqual ==
    ASSUME NEW src, NEW s, NEW t
    PROVE  /\ (Awaits(src, t) <=> Awaits(src, s)) => Awaits(src, t) = Awaits(src, s)
           /\ ~Awaits(src, t) => Awaits(src, t) = FALSE
           /\ ~Awaits(src, s) /\ ~Awaits(src, t) => Awaits(src, t) = Awaits(src, s)
    BY DEF Awaits

\* The variables of the container, as the mapping gives them.
ContainerVars ==
    <<[kind |-> Kind, prefix |-> Prefix, bad |-> ErrAt # 0], node[Root].typ, Members(Root),
      ErrAt # 0 /\ (node[Root].raw \/ node[Root].pos # 0)>>

\* Every way in which a step shows is one of the container's.
LEMMA ContainerStep ==
    ASSUME UNCHANGED source, Implements(source, RootNow, RootNext)
    PROVE  [Container!Next]_ContainerVars
<1> DEFINE s == RootNow
           t == RootNext
           M == Members(Root)
           B == ErrAt # 0 /\ (node[Root].raw \/ node[Root].pos # 0)
           y == node[Root].typ
           text == [kind |-> Kind, prefix |-> Prefix, bad |-> ErrAt # 0]
<1>1. /\ M = Shown(source, s) /\ Prefix = Readable(source) /\ B = Awaits(source, s)
      /\ y = s.n.typ
    BY RootShown
<1>2. /\ M' = Shown(source, t) /\ B' = Awaits(source, t) /\ y' = t.n.typ /\ text' = text
    BY RootShownNext
<1>3. text.kind = source.kind /\ text.prefix = Readable(source) /\ text.bad = (source.errAt # 0)
    BY <1>1 DEF Kind, ErrAt
<1> HIDE DEF s, t, M, B, y, text
<1>4. CASE ShowsSame(source, s, t)
  <2>1. M' = M /\ y' = y /\ B' = B
    <3>1. Shown(source, t) = Shown(source, s) /\ t.n.typ = s.n.typ
          /\ Awaits(source, t) = Awaits(source, s)
        BY <1>4, AwaitsEqual DEF ShowsSame
    <3> QED
        BY <3>1, <1>1, <1>2
  <2> QED
      BY <2>1, <1>2 DEF M, B, y, text, ContainerVars
<1>5. CASE FailsNow(source, s, t)
  <2>1. B /\ y' = "error" /\ M' = <<>> /\ B' = FALSE
      BY <1>1, <1>2, <1>5 DEF FailsNow
  <2>2. Container!Fail
      BY <2>1 DEF Container!Fail, M, B, y
  <2> QED
      BY <2>2, <1>2 DEF Container!Next, text
<1>6. CASE Renewed(source, t)
  <2>1. /\ y' = (IF text.bad THEN "error" ELSE text.kind)
        /\ M' = (IF text.bad THEN <<>> ELSE text.prefix) /\ B' = FALSE
    <3>1. /\ t.n.typ = (IF source.errAt # 0 THEN "error" ELSE source.kind)
          /\ Shown(source, t) = (IF source.errAt # 0 THEN <<>> ELSE Readable(source))
        BY <1>6 DEF Renewed
    <3>2. B' = FALSE
        BY <1>2, <1>6, AwaitsEqual DEF Renewed
    <3> QED
        BY <3>1, <3>2, <1>2, <1>3
  <2>2. Container!Unmarshal
      BY <2>1 DEF Container!Unmarshal, M, B, y, text
  <2> QED
      BY <2>2, <1>2 DEF Container!Next, text
<1>7. CASE Promoted(source, s, t)
  <2>1. PICK m \in Fresh : y = "none" /\ y' \in {"array", "object"} /\ M' = <<m>> /\ B' = B
    <3>1. B' = B
        BY <1>1, <1>2, <1>7, AwaitsEqual DEF Promoted
    <3> QED
        BY <3>1, <1>1, <1>2, <1>7 DEF Promoted, None
  <2>2. Container!Promote(m)
      BY <2>1 DEF Container!Promote, M, B, y
  <2> QED
      BY <2>2, <1>2 DEF Container!Next, text
<1>8. CASE ListEdited(source, s, t)
  <2>1. /\ y \in {"array", "object"} /\ ~B /\ y' = y /\ B' = B /\ ListChanges(y, M, M')
    <3>1. B' = B /\ ~B
        BY <1>1, <1>2, <1>8, AwaitsEqual DEF ListEdited
    <3>2. y \in {"array", "object"} /\ y' = y
        BY <1>1, <1>2, <1>8 DEF ListEdited, IsContainer
    <3>3. ListChanges(s.n.typ, Shown(source, s), Shown(source, t))
        BY <1>8 DEF ListEdited
    <3>4. ListChanges(y, M, M')
        BY ONLY <3>3, <1>1, <1>2
    <3> QED
        BY <3>1, <3>2, <3>4
  <2>2. ASSUME NEW m \in Fresh, M' = Append(M, m) PROVE Container!Edit
    <3>1. Container!Insert(m)
        BY <2>1, <2>2 DEF Container!Insert, M, B, y
    <3> QED
        BY <3>1 DEF Container!Edit
  <2>3. ASSUME NEW i \in DOMAIN M, M' = Container!RemoveAt(M, i) PROVE Container!Edit
    <3>1. Container!Remove(i)
        BY <2>1, <2>3 DEF Container!Remove, M, B, y
    <3> QED
        BY <3>1 DEF Container!Edit, M
  <2>4. ASSUME NEW i \in DOMAIN M, NEW m \in Fresh, M' = [M EXCEPT ![i].val = m.val]
        PROVE  Container!Edit
    <3>1. Container!Replace(i, m.val)
        BY <2>1, <2>4 DEF Container!Replace, M, B, y
    <3> QED
        BY <3>1 DEF Container!Edit, M
  <2>5. ASSUME NEW i \in DOMAIN M, NEW j \in DOMAIN M, y = "array",
               M' = Container!InsertAt(Container!RemoveAt(M, j), i, M[j])
        PROVE  Container!Edit
    <3>1. Container!Move(i, j)
        BY <2>1, <2>5 DEF Container!Move, M, B, y
    <3> QED
        BY <3>1 DEF Container!Edit, M
  <2>6. ASSUME y = "object", InOrder(M, M') PROVE Container!Edit
    <3>1. Container!Sort
        BY <2>1, <2>6 DEF Container!Sort, InOrder, M, B, y
    <3> QED
        BY <3>1 DEF Container!Edit
  <2>7. Container!Edit
      BY <2>1, <2>2, <2>3, <2>4, <2>5, <2>6 DEF ListChanges
  <2> QED
      BY <2>1, <2>7, <1>2 DEF Container!Next, text, y, B
<1>9. CASE Written(source, s, t)
  <2>1. PICK i \in DOMAIN M, m \in Fresh : M' = [M EXCEPT ![i].val = m.val]
      BY <1>1, <1>2, <1>9 DEF Written
  <2>2. y' = y /\ B' = B
    <3>1. t.n.typ = s.n.typ /\ Awaits(source, t) = Awaits(source, s)
        BY <1>9, AwaitsEqual DEF Written
    <3> QED
        BY <3>1, <1>1, <1>2
  <2>3. Container!Replace(i, m.val)
      BY <2>1 DEF Container!Replace, M
  <2>4. Container!Edit
      BY <2>3 DEF Container!Edit, M
  <2> QED
      BY <2>2, <2>4, <1>2 DEF Container!Next, text, y, B
<1> QED
    BY <1>4, <1>5, <1>6, <1>7, <1>8, <1>9 DEF Implements, s, t
-----------------------------------------------------------------------------
(* The steps.                                                               *)

\* A node that exists, and the root.
LEMMA Known ==
    ASSUME Inv, FaithInv, NEW h \in Handles, Alive(h)
    PROVE  /\ Faithful(source, Store(h)) /\ source \in Sources
           /\ "copy" \notin Ops => h = Root
           /\ h = Root => RootNow = Store(h)
           /\ Root \in Handles /\ Alive(Root) /\ StoreOK(source, RootNow)
           /\ RootNow.n = node[Root] /\ RootNow.arrs = arrs /\ RootNow.slot = slot
           /\ node \in [Handles -> NodeRec]
<1>1. FaithOK(source, node, arrs, slot) /\ Root \in Handles
    BY StoreAssumption DEF FaithInv
<1>2. Faithful(source, StoreIn(node, arrs, slot, h)) /\ StoreIn(node, arrs, slot, h) = Store(h)
    BY <1>1, Existing DEF FaithOK, Alive
<1>3. "copy" \notin Ops => h = Root
    BY <1>1 DEF FaithOK, Alive, Ops
<1>4. Alive(Root)
    BY <1>1 DEF FaithOK, Alive
<1>5. NodesOK(source, node, arrs, slot)
    BY DEF Inv, NodesInv
<1>6. Good(source, RootNow) /\ source \in Sources /\ node \in [Handles -> NodeRec]
    BY <1>1, <1>5 DEF NodesOK, RootNow
<1>7. RootNow.n = node[Root] /\ RootNow.arrs = arrs /\ RootNow.slot = slot
    BY DEF RootNow, StoreIn
<1> QED
    BY <1>1, <1>2, <1>3, <1>4, <1>6, <1>7 DEF RootNow, Good

\* A node whose list keeps its members in another memory.
LEMMA ListKept ==
    ASSUME NEW src, NEW s, NEW t, StoreOK(src, s), t.n = s.n,
           \A i \in 1..s.n.len : At(t, i) = At(s, i),
           \A x \in 1..Len(s.slot) : t.slot[x] = s.slot[x]
    PROVE  ShowsSame(src, s, t)
<1>1. \A i \in 1..s.n.len : At(s, i) \in 1..Len(s.slot)
    BY ListedSlot
<1>2. \A i \in 1..s.n.len : MemberAt(t, i) = MemberAt(s, i)
    BY <1>1 DEF MemberAt
<1>3. Items(t) = Items(s)
    BY <1>2 DEF Items
<1>4. Shown(src, t) = Shown(src, s)
    BY <1>3 DEF Shown, IsContainer
<1> QED
    BY <1>4 DEF ShowsSame, Awaits

\* A step that only loads, of the root or of a copy.
LEMMA LoadStep ==
    ASSUME Inv, FaithInv, NEW h \in Handles, Alive(h), NEW t, Loads(source, Store(h), t),
           Put(h, t), UNCHANGED source
    PROVE  FaithInv' /\ Implements(source, RootNow, RootNext)
<1> DEFINE s == Store(h)
<1>1. /\ source \in Sources /\ Faithful(source, s) /\ s.n = node[h] /\ s.arrs = arrs
      /\ s.slot = slot /\ StoreOK(source, s) /\ s \in StoreRec /\ node \in [Handles -> NodeRec]
      /\ s.n.typ # "absent"
    BY Known, Existing DEF Good, StoreOK, Alive
<1>2. /\ Good(source, t) /\ Kept(source, s, t) /\ Faithful(source, t)
      /\ \A x \in 1..Len(s.slot) : t.slot[x] = s.slot[x]
      /\ ShowsSame(source, s, t) \/ Fails(source, s, t)
    BY <1>1 DEF Loads, Brings, Shows
<1>3. /\ node' = [node EXCEPT ![h] = t.n] /\ arrs' = t.arrs /\ slot' = t.slot
      /\ StoreIn(node', arrs', slot', h) = t
    BY <1>2, PutKeeps DEF Put
<1> HIDE DEF s
<1>4. node'[h] = t.n /\ \A g \in Handles : g # h => node'[g] = node[g]
    BY <1>1, <1>3
<1>5. t.n.typ # "absent"
    BY <1>1, <1>2 DEF Kept
<1>6. ASSUME NEW g \in Handles, g # h, node[g].typ # "absent"
      PROVE  Faithful(source, StoreIn(node', arrs', slot', g))
  <2> DEFINE u == StoreIn(node, arrs, slot, g)
             v == StoreIn(node', arrs', slot', g)
  <2>1. Faithful(source, u)
      BY <1>6 DEF FaithInv, FaithOK
  <2>2. "copy" \in source.ops
      BY <1>6, <1>1, Known DEF Alive, Ops
  <2>3. u.n = node[g] /\ v.n = node[g] /\ v.arrs = t.arrs /\ v.slot = t.slot
      BY <1>3, <1>4, <1>6 DEF StoreIn
  <2> HIDE DEF u, v
  <2> QED
      BY <2>1, <2>2, <2>3, <1>2 DEF Faithful, v
<1>7. FaithInv'
  <2>1. \A g \in Handles : node'[g].typ # "absent" => Faithful(source, StoreIn(node', arrs', slot', g))
      BY <1>2, <1>3, <1>4, <1>6
  <2>2. node'[Root].typ # "absent"
      BY <1>4, <1>5, Known DEF Alive
  <2>3. "copy" \notin source.ops => \A g \in Handles : g # Root => node'[g].typ = "absent"
      BY <1>4, Known DEF FaithInv, FaithOK, Ops
  <2> QED
      BY <2>1, <2>2, <2>3 DEF FaithInv, FaithOK
<1>8. CASE h = Root
  <2>1. RootNow = s /\ RootNext = t
      BY <1>3, <1>8, Known DEF s, RootNext
  <2>2. Fails(source, s, t) => FailsNow(source, s, t)
    <3>1. t.n.typ = "error" => ~IsContainer(t)
        BY DEF IsContainer
    <3>2. StoreOK(source, t)
        BY <1>2 DEF Good
    <3> QED
        BY <3>1, <3>2, ErrorAwaits DEF Fails, FailsNow
  <2> QED
      BY <2>1, <2>2, <1>2, <1>7 DEF Implements
<1>9. CASE h # Root
  <2> DEFINE u == RootNow
             v == RootNext
  <2>1. StoreOK(source, u) /\ u.n = node[Root] /\ u.arrs = arrs /\ u.slot = slot
      BY Known
  <2>2. v.n = node[Root] /\ v.arrs = t.arrs /\ v.slot = t.slot
      BY <1>3, <1>4, <1>9, Known DEF RootNext, StoreIn
  <2> HIDE DEF u, v
  <2>3. ASSUME NEW i \in 1..u.n.len PROVE At(v, i) = At(u, i)
    <3>1. /\ u.n.arr \in 1..Len(arrs) /\ i \in 1..Len(arrs[u.n.arr])
      <4>1. u.n.len # 0
          BY <2>3, <2>1, ListedSlot
      <4> QED
          BY <4>1, <2>1, ListedSlot
    <3>2. arrs[u.n.arr][i] # Nil
        BY <2>1 DEF StoreOK, At
    <3>3. t.arrs[u.n.arr][i] = arrs[u.n.arr][i]
        BY <3>1, <3>2, <1>1, <1>2 DEF Kept
    <3> QED
        BY <3>3, <2>1, <2>2 DEF At
  <2>4. ShowsSame(source, u, v)
      BY <2>1, <2>2, <2>3, <1>1, <1>2, ListKept
  <2> QED
      BY <2>4, <1>7 DEF Implements, u, v
<1> QED
    BY <1>7, <1>8, <1>9

\* A step of the root where no copies are made.
LEMMA OwnStep ==
    ASSUME Inv, FaithInv, "copy" \notin Ops, NEW t, UNCHANGED source, RootNext = t,
           Faithful(source, t), t.n.typ # "absent",
           \A h \in Handles : h # Root => node'[h] = node[h]
    PROVE  FaithInv'
<1>1. node'[Root] = t.n
    BY DEF RootNext, StoreIn
<1>2. \A h \in Handles : h # Root => node'[h].typ = "absent"
    BY DEF FaithInv, FaithOK, Ops
<1> QED
    BY <1>1, <1>2 DEF FaithInv, FaithOK, RootNext

\* The members of a list that is loaded.
LEMMA Whole ==
    ASSUME NEW src, NEW s, StoreOK(src, s), IsContainer(s), s.n.raw = FALSE, s.n.pos = 0
    PROVE  Shown(src, s) = Items(s) /\ ~Awaits(src, s)
<1>1. Items(s) \in Seq(Member)
    BY ItemsOf
<1>2. Items(s) \o <<>> = Items(s)
    BY <1>1, ConcatEmptySeq
<1>3. Rest(src, s.n) = <<>>
    BY DEF Rest
<1> QED
    BY <1>2, <1>3 DEF Shown, Awaits

\* An owner's list that is loaded has nothing behind it.
LEMMA OwnerFaithful ==
    ASSUME NEW src, NEW s, Good(src, s), ~Reads(src), "copy" \notin src.ops, s.n.pos = 0
    PROVE  Faithful(src, s)
    BY DEF Good, OwnerOK, Faithful

\* An edit of the list of the root, which is loaded first.
LEMMA EditShows ==
    ASSUME Inv, FaithInv, "copy" \notin Ops, ~Reads(source), NEW h \in Handles, Alive(h),
           NEW s, s = LoadedAll(Store(h)), IsContainer(s), UNCHANGED source,
           NEW t, Good(source, t), Put(h, t),
           t.n.typ = s.n.typ, t.n.raw = s.n.raw, t.n.pos = s.n.pos,
           ListChanges(s.n.typ, Items(s), Items(t))
    PROVE  FaithInv' /\ Implements(source, RootNow, RootNext)
<1>1. /\ h = Root /\ RootNow = Store(h) /\ Faithful(source, Store(h))
      /\ node \in [Handles -> NodeRec]
    BY Known
<1>2. /\ Loads(source, Store(h), s) /\ s.n.pos = 0 /\ s.n.raw = FALSE /\ StoreOK(source, s)
    BY AllLoaded
<1>3. ShowsSame(source, Store(h), s)
  <2>1. ~(s.n.typ = "error")
      BY DEF IsContainer
  <2> QED
      BY <2>1, <1>1, <1>2 DEF Loads, Shows, Fails
<1>4. Shown(source, s) = Items(s) /\ ~Awaits(source, s)
    BY <1>2, Whole
<1>5. Shown(source, t) = Items(t) /\ ~Awaits(source, t)
  <2>1. StoreOK(source, t) /\ IsContainer(t)
      BY DEF Good, IsContainer
  <2> QED
      BY <2>1, <1>2, Whole
<1>6. /\ Shown(source, RootNow) = Items(s) /\ ~Awaits(source, RootNow) /\ RootNow.n.typ = s.n.typ
      /\ IsContainer(RootNow)
    BY <1>1, <1>3, <1>4 DEF ShowsSame, IsContainer
<1>7. RootNext = t /\ \A g \in Handles : g # Root => node'[g] = node[g]
  <2>1. t = [n |-> t.n, arrs |-> t.arrs, slot |-> t.slot] /\ Root \in Handles
      BY Fields, StoreAssumption DEF Good, StoreOK
  <2>2. node' = [node EXCEPT ![Root] = t.n] /\ arrs' = t.arrs /\ slot' = t.slot
      BY <1>1 DEF Put
  <2>3. node'[Root] = t.n /\ \A g \in Handles : g # Root => node'[g] = node[g]
      BY <2>1, <2>2, <1>1
  <2> QED
      BY <2>1, <2>2, <2>3 DEF RootNext, StoreIn
<1>8. FaithInv'
  <2>1. Faithful(source, t)
      BY <1>2, OwnerFaithful DEF Ops
  <2>2. t.n.typ # "absent"
      BY DEF IsContainer
  <2> QED
      BY <2>1, <2>2, <1>7, OwnStep
<1>9. ListEdited(source, RootNow, t)
    BY <1>5, <1>6 DEF ListEdited
<1> QED
    BY <1>7, <1>8, <1>9 DEF Implements

\* Who edits a node makes no copies.
LEMMA EditsAlone ==
    ASSUME CopiesOnlyRead, Inv, NEW o \in Ops, o \notin {"get", "load", "copy"}
    PROVE  "copy" \notin Ops /\ (o # "write" => ~Reads(source))
<1>1. source \in Sources
    BY DEF Inv, NodesInv, NodesOK
<1>2. "copy" \notin Ops
    BY <1>1 DEF CopiesOnlyRead, Ops
<1>3. o # "write" => ~Reads(source)
    BY DEF Reads, Reading, Ops
<1> QED
    BY <1>2, <1>3

\* Operations that read, of the root or of a copy, show the same or a failure.
LEMMA ReadShows ==
    ASSUME Inv, FaithInv, NEW h \in Handles, UNCHANGED source,
           \/ \E k : Get(h, k)
           \/ \E i \in Nat : Index(h, i)
           \/ LoadChildren(h) \/ Iterate(h)
    PROVE  FaithInv' /\ Implements(source, RootNow, RootNext)
<1>1. Alive(h)
    BY ContainerExists DEF Get, Index, LoadChildren, Iterate, Alive
<1>2. source \in Sources /\ Good(source, Store(h))
    BY <1>1, Existing
<1>3. \E t : Loads(source, Store(h), t) /\ Put(h, t)
  <2>1. ASSUME NEW k, Get(h, k) PROVE \E t : Loads(source, Store(h), t) /\ Put(h, t)
      BY <2>1, <1>2, LoadKeyLoads DEF Get
  <2>2. ASSUME NEW i \in Nat, Index(h, i) PROVE \E t : Loads(source, Store(h), t) /\ Put(h, t)
      BY <2>2, <1>2, LoadToLoads DEF Index
  <2>3. ASSUME LoadChildren(h) PROVE \E t : Loads(source, Store(h), t) /\ Put(h, t)
      BY <2>3, <1>2, LoadedAllLoads DEF LoadChildren
  <2>4. ASSUME Iterate(h) PROVE \E t : Loads(source, Store(h), t) /\ Put(h, t)
      BY <2>4, <1>2, OpenedLoads DEF Iterate
  <2> QED
      BY <2>1, <2>2, <2>3, <2>4
<1> QED
    BY <1>1, <1>3, LoadStep

\* ... and so does the iterator's Next.
LEMMA IteratorShows ==
    ASSUME Inv, FaithInv, IteratorNext, UNCHANGED source
    PROVE  FaithInv' /\ Implements(source, RootNow, RootNext)
<1> DEFINE h == it.of
           c == Advance(Store(h), it.pos)
<1>1. h # "nobody" /\ Put(h, c.s)
    BY DEF IteratorNext
<1>2. /\ h \in Handles /\ Alive(h) /\ ~Reads(source)
      /\ Passed(StoreIn(node, arrs, slot, h), it.pos, seen, shrunk)
    BY <1>1 DEF Inv, ItInv, ItOK, Alive
<1> HIDE DEF h
<1>3. source \in Sources /\ Good(source, Store(h)) /\ StoreIn(node, arrs, slot, h) = Store(h)
    BY <1>2, Existing
<1>4. c \in Walks(source, Store(h), shrunk)
    BY <1>2, <1>3, AdvanceWalks
<1> HIDE DEF c
<1>5. Loads(source, Store(h), c.s)
    BY <1>4 DEF Walks
<1> QED
    BY <1>1, <1>2, <1>5, LoadStep

\* An edit that finds no container, or nothing to change, only loads.
LEMMA NoEdit ==
    ASSUME Inv, FaithInv, NEW h \in Handles, Alive(h), Put(h, LoadedAll(Store(h))),
           UNCHANGED source
    PROVE  FaithInv' /\ Implements(source, RootNow, RootNext)
<1> DEFINE t == LoadedAll(Store(h))
<1>1. Loads(source, Store(h), t) /\ Put(h, t)
    BY AllLoaded
<1> HIDE DEF t
<1> QED
    BY <1>1, LoadStep

\* Add appends a member.
LEMMA AddShows ==
    ASSUME CopiesOnlyRead, Inv, FaithInv, NEW h \in Handles, NEW m \in Fresh, AddMember(h, m),
           UNCHANGED source
    PROVE  FaithInv' /\ Implements(source, RootNow, RootNext)
<1> DEFINE s == LoadedAll(Store(h))
           t == AppendSlot(s, m)
<1>1. /\ "add" \in Ops /\ Len(s.slot) < MaxSlots /\ Alive(h)
      /\ Put(h, IF IsContainer(s) THEN t ELSE s)
    BY DEF AddMember, Alive
<1>2. "copy" \notin Ops /\ ~Reads(source)
    BY <1>1, EditsAlone
<1>3. CASE ~IsContainer(s)
    BY <1>1, <1>3, NoEdit
<1>4. CASE IsContainer(s)
  <2>1. s = LoadedAll(Store(h)) /\ t = AppendSlot(s, m) /\ Put(h, t) /\ Len(s.slot) < MaxSlots
      BY <1>1, <1>4
  <2> HIDE DEF s, t
  <2>2. Appended(s, m, t) /\ Good(source, t)
      BY <2>1, <1>1, <1>2, <1>4, AddGood
  <2>3. StoreOK(source, s) /\ StoreOK(source, t) /\ m \in Member
      BY <2>1, <2>2, <1>1, AllLoaded, FreshMember DEF Good
  <2>4. Items(t) = Append(Items(s), m)
      BY <2>2, <2>3, AppendItems
  <2>5. ListChanges(s.n.typ, Items(s), Items(t))
      BY <2>4 DEF ListChanges
  <2>6. t.n.typ = s.n.typ /\ t.n.raw = s.n.raw /\ t.n.pos = s.n.pos
      BY <2>2 DEF Appended
  <2> QED
      BY <2>1, <2>2, <2>5, <2>6, <1>1, <1>2, <1>4, EditShows
<1> QED
    BY <1>3, <1>4

\* Writing the value of a listed member, once all of them are loaded.
LEMMA ValueShows ==
    ASSUME Inv, FaithInv, "copy" \notin Ops, ~Reads(source), NEW h \in Handles, Alive(h),
           NEW s, s = LoadedAll(Store(h)), IsContainer(s), UNCHANGED source,
           NEW i \in 1..s.n.len, NEW m \in Fresh,
           NEW t, t = [s EXCEPT !.slot[At(s, i)].val = m.val], Put(h, t)
    PROVE  FaithInv' /\ Implements(source, RootNow, RootNext)
<1>1. StoreOK(source, s) /\ Good(source, s)
    BY AllLoaded
<1>2. m.val \in Values \cup {None}
    BY FreshMember
<1>3. Good(source, t)
    BY <1>1, <1>2, ValueKept
<1>4. t.n = s.n /\ i \in DOMAIN Items(s) /\ Items(t) = [Items(s) EXCEPT ![i].val = m.val]
  <2> DEFINE v == m.val
  <2>1. t = [s EXCEPT !.slot = WithValue(s.slot, At(s, i), v)]
      BY DEF WithValue
  <2> HIDE DEF v
  <2>2. t.n = s.n /\ i \in DOMAIN Items(s) /\ Items(t) = WithValue(Items(s), i, v)
      BY <2>1, <1>1, ValueItems
  <2> QED
      BY <2>2 DEF v, WithValue
<1>5. ListChanges(s.n.typ, Items(s), Items(t))
    BY <1>4 DEF ListChanges
<1> QED
    BY <1>3, <1>4, <1>5, EditShows

\* Set replaces the value of the first member with the key ...
LEMMA SetShows ==
    ASSUME CopiesOnlyRead, Inv, FaithInv, NEW h \in Handles, NEW k, NEW m \in Fresh,
           SetMember(h, k, m.val), UNCHANGED source
    PROVE  FaithInv' /\ Implements(source, RootNow, RootNext)
<1> DEFINE s == LoadedAll(Store(h))
           t == [s EXCEPT !.slot[Find(s, k)].val = m.val]
<1>1. /\ "set" \in Ops /\ Alive(h) /\ (IsContainer(s) => Has(s, k))
      /\ Put(h, IF IsContainer(s) THEN t ELSE s)
    BY DEF SetMember, Alive
<1>2. "copy" \notin Ops /\ ~Reads(source)
    BY <1>1, EditsAlone
<1>3. CASE ~IsContainer(s)
    BY <1>1, <1>3, NoEdit
<1>4. CASE IsContainer(s)
  <2>1. s = LoadedAll(Store(h)) /\ Put(h, t) /\ Has(s, k)
      BY <1>1, <1>4
  <2>2. s.n.len \in Nat
      BY <1>1, AllLoaded
  <2> HIDE DEF s
  <2>3. PICK i \in 1..s.n.len : Find(s, k) = At(s, i)
      BY <2>1, <2>2, FindIn
  <2>4. t = [s EXCEPT !.slot[At(s, i)].val = m.val]
      BY <2>3
  <2> HIDE DEF t
  <2> QED
      BY <2>1, <2>4, <1>1, <1>2, <1>4, ValueShows
<1> QED
    BY <1>3, <1>4

\* ... and SetByIndex that of the member at a place.
LEMMA SetByIndexShows ==
    ASSUME CopiesOnlyRead, Inv, FaithInv, NEW h \in Handles, NEW i \in Nat, i # 0, NEW m \in Fresh,
           SetByIndex(h, i, m.val), UNCHANGED source
    PROVE  FaithInv' /\ Implements(source, RootNow, RootNext)
<1> DEFINE s == LoadedAll(Store(h))
           t == [s EXCEPT !.slot[At(s, i)].val = m.val]
           hit == IsContainer(s) /\ i <= s.n.len
<1>1. "set" \in Ops /\ Alive(h) /\ Put(h, IF hit THEN t ELSE s)
    BY ContainerExists DEF SetByIndex
<1>2. "copy" \notin Ops /\ ~Reads(source)
    BY <1>1, EditsAlone
<1>3. CASE ~hit
    BY <1>1, <1>3, NoEdit
<1>4. CASE hit
  <2>1. /\ s = LoadedAll(Store(h)) /\ Put(h, t) /\ t = [s EXCEPT !.slot[At(s, i)].val = m.val]
        /\ IsContainer(s)
      BY <1>1, <1>4
  <2>2. i \in 1..s.n.len
    <3>1. s.n.len \in Nat
        BY <1>1, AllLoaded
    <3> HIDE DEF s
    <3> QED
        BY <3>1, <1>4
  <2> HIDE DEF s, t
  <2> QED
      BY <2>1, <2>2, <1>1, <1>2, ValueShows
<1> QED
    BY <1>3, <1>4

\* Move moves one member of an array.
LEMMA MoveShows ==
    ASSUME CopiesOnlyRead, Inv, FaithInv, NEW h \in Handles, NEW dst \in Nat, dst # 0,
           NEW src \in Nat, src # 0, Move(h, dst, src), UNCHANGED source
    PROVE  FaithInv' /\ Implements(source, RootNow, RootNext)
<1> DEFINE s == LoadedAll(Store(h))
           hit == IsContainer(s) /\ dst <= s.n.len /\ src <= s.n.len
           t == Permuted(s, LAMBDA i : Shifted(i, dst, src))
<1>1. "move" \in Ops /\ node[h].typ = "array" /\ Put(h, IF hit THEN t ELSE s) /\ Alive(h)
    BY DEF Move, Alive
<1>2. "copy" \notin Ops /\ ~Reads(source)
    BY <1>1, EditsAlone
<1>3. CASE ~hit
    BY <1>1, <1>3, NoEdit
<1>4. CASE hit
  <2>1. Put(h, t) /\ IsContainer(s) /\ s = LoadedAll(Store(h))
      BY <1>1, <1>4
  <2>2. /\ StoreOK(source, s) /\ Good(source, s) /\ s.n.len \in Nat
        /\ Kept(source, Store(h), s) /\ Store(h).n = node[h]
      BY <1>1, AllLoaded, Existing
  <2>3. dst \in 1..s.n.len /\ src \in 1..s.n.len
    <3> HIDE DEF s
    <3> QED
        BY <1>4, <2>2
  <2> HIDE DEF s
  <2>8. Good(source, s)
      BY <2>2
  <2>4. Good(source, t) /\ Kept(source, s, t)
      BY <2>8, <2>3, <1>2, ShiftedKept
  <2>5. /\ t.n = s.n /\ dst \in DOMAIN Items(s) /\ src \in DOMAIN Items(s)
        /\ Items(t) = Container!InsertAt(Container!RemoveAt(Items(s), src), dst, Items(s)[src])
      BY <2>2, <2>3, MoveItems
  <2> HIDE DEF t
  <2>6. s.n.typ = "array"
    <3>1. s.n.typ \in {node[h].typ, "error"}
        BY <2>2 DEF Kept
    <3> QED
        BY <3>1, <2>1, <1>1 DEF IsContainer
  <2>7. ListChanges(s.n.typ, Items(s), Items(t))
      BY <2>5, <2>6 DEF ListChanges
  <2> QED
      BY <2>1, <2>4, <2>5, <2>7, <1>1, <1>2, EditShows
<1> QED
    BY <1>3, <1>4

\* SortKeys sorts the members of an object.
LEMMA SortShows ==
    ASSUME CopiesOnlyRead, Inv, FaithInv, NEW h \in Handles, SortKeys(h), UNCHANGED source
    PROVE  FaithInv' /\ Implements(source, RootNow, RootNext)
<1> DEFINE s == LoadedAll(Store(h))
           t == Permuted(s, LAMBDA r : CHOOSE i \in 1..s.n.len :
                              Cardinality({j \in 1..s.n.len : Before(s, j, i)}) + 1 = r)
<1>1. /\ "move" \in Ops /\ node[h].typ = "object" /\ Put(h, IF IsContainer(s) THEN t ELSE s)
      /\ Alive(h)
    BY DEF SortKeys, Alive
<1>2. "copy" \notin Ops /\ ~Reads(source)
    BY <1>1, EditsAlone
<1>3. CASE ~IsContainer(s)
    BY <1>1, <1>3, NoEdit
<1>4. CASE IsContainer(s)
  <2>1. Put(h, t) /\ s = LoadedAll(Store(h))
      BY <1>1, <1>4
  <2>2. /\ StoreOK(source, s) /\ Good(source, s)
        /\ Kept(source, Store(h), s) /\ Store(h).n = node[h]
      BY <1>1, AllLoaded, Existing
  <2> HIDE DEF s
  <2>8. Good(source, s)
      BY <2>2
  <2>3. Good(source, t) /\ Kept(source, s, t)
      BY <2>8, <1>2, SortedKept
  <2>7. t = Permuted(s, LAMBDA r : CHOOSE i \in 1..s.n.len :
                         Cardinality({j \in 1..s.n.len : Before(s, j, i)}) + 1 = r)
      OBVIOUS
  <2>4. t.n = s.n /\ InOrder(Items(s), Items(t))
      BY <2>2, <2>7, SortItems
  <2> HIDE DEF t
  <2>5. s.n.typ = "object"
    <3>1. s.n.typ \in {node[h].typ, "error"}
        BY <2>2 DEF Kept
    <3> QED
        BY <3>1, <1>1, <1>4 DEF IsContainer
  <2>6. ListChanges(s.n.typ, Items(s), Items(t))
      BY <2>4, <2>5 DEF ListChanges
  <2> QED
      BY <2>1, <2>3, <2>4, <2>6, <1>1, <1>2, <1>4, EditShows
<1> QED
    BY <1>3, <1>4

\* Unset, UnsetByIndex and Pop remove one member.
LEMMA RemovalShows ==
    ASSUME CopiesOnlyRead, Inv, FaithInv, "remove" \in Ops, NEW h \in Handles, Alive(h), NEW i,
           Removal(h, LoadedAll(Store(h)), i), UNCHANGED source
    PROVE  FaithInv' /\ Implements(source, RootNow, RootNext)
<1> DEFINE s == LoadedAll(Store(h))
           t == RemoveAt(s, i)
           hit == IsContainer(s) /\ i \in 1..s.n.len
<1>1. (hit => Put(h, t)) /\ (~hit => Put(h, s))
    BY DEF Removal
<1>2. "copy" \notin Ops /\ ~Reads(source)
    BY EditsAlone
<1>3. CASE ~hit
    BY <1>1, <1>3, NoEdit
<1>4. CASE hit
  <2>1. Put(h, t) /\ IsContainer(s) /\ i \in 1..s.n.len /\ s = LoadedAll(Store(h))
      BY <1>1, <1>4
  <2>2. StoreOK(source, s) /\ Good(source, s)
      BY AllLoaded
  <2> HIDE DEF s
  <2>3. Good(source, t) /\ Removes(s, i, t)
      BY <2>1, <2>2, <1>2, RemovedGood
  <2> HIDE DEF t
  <2>4. StoreOK(source, t)
      BY <2>3 DEF Good
  <2>5. i \in DOMAIN Items(s) /\ Items(t) = Container!RemoveAt(Items(s), i)
      BY <2>1, <2>2, <2>3, <2>4, RemoveItems
  <2>6. ListChanges(s.n.typ, Items(s), Items(t))
      BY <2>5 DEF ListChanges
  <2>7. t.n.typ = s.n.typ /\ t.n.raw = s.n.raw /\ t.n.pos = s.n.pos
      BY <2>3 DEF Removes
  <2> QED
      BY <2>1, <2>3, <2>6, <2>7, <1>2, EditShows
<1> QED
    BY <1>3, <1>4

\* The three of them.
LEMMA UnsetShows ==
    ASSUME CopiesOnlyRead, Inv, FaithInv, NEW h \in Handles, UNCHANGED source,
           (\E k : Unset(h, k)) \/ (\E i : UnsetByIndex(h, i)) \/ Pop(h)
    PROVE  FaithInv' /\ Implements(source, RootNow, RootNext)
<1>1. "remove" \in Ops /\ Alive(h) /\ \E i : Removal(h, LoadedAll(Store(h)), i)
  <2>1. "remove" \in Ops /\ Alive(h)
      BY ContainerExists DEF Unset, UnsetByIndex, Pop, Alive
  <2>2. \E i : Removal(h, LoadedAll(Store(h)), i)
      BY DEF Unset, UnsetByIndex, Pop
  <2> QED
      BY <2>1, <2>2
<1> QED
    BY <1>1, RemovalShows

\* A node with no list and no cursor is faithful to its text.
LEMMA EmptyFaithful ==
    ASSUME NEW src, NEW t, "copy" \notin src.ops, t.n.pos = 0, t.n.arr = 0
    PROVE  Faithful(src, t)
<1>1. \A i \in 1..Cap(t) : FALSE
    BY DEF Cap
<1> QED
    BY <1>1 DEF Faithful

\* The root as Assign leaves it.
LEMMA Assigned ==
    ASSUME Inv, FaithInv, NEW n, Assign(Root, n)
    PROVE  /\ RootNext = [n |-> n, arrs |-> arrs', slot |-> slot']
           /\ \A h \in Handles : h # Root => node'[h] = node[h]
<1>1. node' = [node EXCEPT ![Root] = n] /\ Root \in Handles /\ node \in [Handles -> NodeRec]
    BY StoreAssumption DEF Assign, Inv, NodesInv, NodesOK
<1> QED
    BY <1>1 DEF RootNext, StoreIn

\* UnmarshalJSON shows the members of the whole text, or an error.
LEMMA UnmarshalShows ==
    ASSUME CopiesOnlyRead, Inv, FaithInv, NEW h \in Handles, UnmarshalJSON(h), UNCHANGED source
    PROVE  FaithInv' /\ Implements(source, RootNow, RootNext)
<1> DEFINE n == IF ErrAt = 0 THEN RawNode ELSE FreshNode("error")
           t == RootNext
<1>1. "unmarshal" \in Ops /\ Alive(h) /\ Assign(h, n)
    BY DEF UnmarshalJSON
<1>2. "copy" \notin Ops
    BY <1>1, EditsAlone
<1>3. h = Root /\ source \in Sources
    BY <1>1, <1>2, Known
<1>4. /\ n.pos = 0 /\ n.arr = 0 /\ n.raw = (source.errAt = 0)
      /\ n.typ = (IF source.errAt # 0 THEN "error" ELSE source.kind)
    BY DEF RawNode, FreshNode, Kind, ErrAt
<1>5. source.kind \in {"array", "object"}
    BY <1>3, TextOK
<1> HIDE DEF n
<1>6. t = [n |-> n, arrs |-> arrs', slot |-> slot'] /\ \A g \in Handles : g # Root => node'[g] = node[g]
    BY <1>1, <1>3, Assigned
<1>7. t.n = n
    BY <1>6
<1> HIDE DEF t
<1>8. FaithInv'
  <2>1. Faithful(source, t)
      BY <1>2, <1>4, <1>7, EmptyFaithful DEF Ops
  <2>2. RootNext = t /\ t.n.typ # "absent"
      BY <1>4, <1>5, <1>7 DEF t
  <2> QED
      BY <2>1, <2>2, <1>2, <1>6, OwnStep
<1>9. Renewed(source, t)
    BY <1>4, <1>5, <1>7 DEF Renewed, Shown, Awaits, IsContainer
<1> QED
    BY <1>8, <1>9 DEF Implements, t

\* NewArray and NewObject show one member.
LEMMA PromoteShows ==
    ASSUME CopiesOnlyRead, Inv, FaithInv, NEW h \in Handles, NEW m \in Fresh, Promote(h, m),
           UNCHANGED source
    PROVE  FaithInv' /\ Implements(source, RootNow, RootNext)
<1> DEFINE n == [FreshNode(IF m.key = 0 THEN "array" ELSE "object") EXCEPT
                   !.arr = Len(arrs) + 1, !.len = 1]
           id == Len(slot) + 1
           t == RootNext
<1>1. /\ "promote" \in Ops /\ node[h].typ = None /\ Assign(h, n)
      /\ arrs' = Append(arrs, <<id>>) /\ slot' = Append(slot, m) /\ Alive(h)
    BY DEF Promote, Alive, None
<1>2. "copy" \notin Ops
    BY <1>1, EditsAlone
<1>3. /\ h = Root /\ source \in Sources /\ StoreOK(source, RootNow) /\ RootNow.n = node[Root]
      /\ RootNow.arrs = arrs /\ RootNow.slot = slot
    BY <1>1, <1>2, Known
<1>4. arrs \in Seq(Seq(Nat)) /\ slot \in Seq(Member) /\ m \in Member
    BY <1>3, Fields, FreshMember DEF StoreOK
<1>5. /\ n.pos = 0 /\ n.arr = Len(arrs) + 1 /\ n.len = 1 /\ n.raw = FALSE
      /\ n.typ \in {"array", "object"}
    BY DEF FreshNode
<1> HIDE DEF n
<1>6. t = [n |-> n, arrs |-> arrs', slot |-> slot'] /\ \A g \in Handles : g # Root => node'[g] = node[g]
    BY <1>1, <1>3, Assigned
<1>7. t.n = n /\ t.arrs = arrs' /\ t.slot = slot'
    BY <1>6
<1> HIDE DEF t
<1>8. t.arrs[t.n.arr] = <<id>> /\ t.slot[id] = m /\ t.n.arr # 0
  <2>1. arrs'[Len(arrs) + 1] = <<id>> /\ Len(arrs) + 1 # 0
      BY <1>1, <1>4
  <2>2. slot'[id] = m
      BY <1>1, <1>4
  <2> QED
      BY <2>1, <2>2, <1>5, <1>7
<1>9. Cap(t) = 1 /\ At(t, 1) = id /\ MemberAt(t, 1) = m
    BY <1>8 DEF Cap, At, MemberAt
<1>10. FaithInv'
  <2>1. \A i \in 1..Cap(t) : ~(i > t.n.len)
      BY <1>5, <1>7, <1>9
  <2>2. Faithful(source, t)
      BY <2>1, <1>2, <1>5, <1>7 DEF Faithful, Ops
  <2>3. RootNext = t /\ t.n.typ # "absent"
      BY <1>5, <1>7 DEF t
  <2> QED
      BY <2>2, <2>3, <1>2, <1>6, OwnStep
<1>11. ~Awaits(source, RootNow)
  <2>1. ~IsContainer(RootNow)
      BY <1>1, <1>3 DEF IsContainer, None
  <2> QED
      BY <2>1, <1>3, ErrorAwaits
<1>12. Shown(source, t) = <<m>> /\ ~Awaits(source, t)
  <2>1. Items(t) = <<m>>
    <3>1. Items(t) = [i \in 1..1 |-> MemberAt(t, i)]
        BY <1>5, <1>7 DEF Items
    <3>2. \A i \in 1..1 : MemberAt(t, i) = m
        BY <1>9
    <3> QED
        BY <3>1, <3>2
  <2>2. Rest(source, t.n) = <<>>
      BY <1>5, <1>7 DEF Rest
  <2>3. <<m>> \o <<>> = <<m>>
      BY <1>4, ConcatEmptySeq
  <2> QED
      BY <2>1, <2>2, <2>3, <1>5, <1>7 DEF Shown, Awaits, IsContainer
<1>13. Promoted(source, RootNow, t)
    BY <1>1, <1>3, <1>5, <1>7, <1>11, <1>12 DEF Promoted
<1> QED
    BY <1>10, <1>13 DEF Implements, t

\* What the text has behind the cursor.
LEMMA RestList ==
    ASSUME NEW src \in Sources, NEW s, StoreOK(src, s), Faithful(src, s)
    PROVE  Rest(src, s.n) \in Seq(Member)
<1> DEFINE r == Readable(src)
           p == s.n.pos
<1>1. /\ r \in Seq(Member) /\ Len(r) \in Nat
      /\ Len(r) = (IF src.errAt = 0 THEN Len(src.members) ELSE src.errAt - 1)
    BY ReadableOf
<1>2. src.members \in Seq(Member) /\ Len(src.members) \in Nat /\ src.errAt \in 0..Len(src.members)
    BY TextOK
<1>3. p \in Nat
    BY Fields DEF StoreOK, NodeRec
<1>4. CASE p = 0
    BY <1>4 DEF Rest
<1>5. CASE p # 0
  <2>1. p \in 1..Len(src.members) \/ (p = 1 /\ src.members = <<>>)
      BY <1>5 DEF StoreOK, CursorOK
  <2>2. src.errAt # 0 => p <= src.errAt
      BY <1>5 DEF Faithful
  <2>3. p \in 1..(Len(r) + 1)
      BY <2>1, <2>2, <1>1, <1>2, <1>3, <1>5
  <2>4. Rest(src, s.n) = SubSeq(r, p, Len(r))
      BY <1>5 DEF Rest
  <2> HIDE DEF r, p
  <2> QED
      BY <2>3, <2>4, <1>1, RestOf
<1> QED
    BY <1>4, <1>5

\* Writing a value in the first of two lists.
LEMMA ValueJoined ==
    ASSUME NEW a \in Seq(Member), NEW r \in Seq(Member), NEW i \in 1..Len(a),
           NEW v \in Values \cup {None}
    PROVE  i \in DOMAIN (a \o r) /\ WithValue(a, i, v) \o r = WithValue(a \o r, i, v)
<1> DEFINE b == WithValue(a, i, v)
           c == a \o r
           d == b \o r
           e == WithValue(c, i, v)
           k == Len(a)
           l == Len(r)
<1>1. b \in Seq(Member) /\ Len(b) = k /\ k \in Nat /\ l \in Nat
    BY ValueSet
<1>2. /\ c \in Seq(Member) /\ Len(c) = k + l
      /\ \A j \in 1..k : c[j] = a[j]
      /\ \A j \in 1..l : c[k + j] = r[j]
    BY Joined
<1>3. /\ d \in Seq(Member) /\ Len(d) = k + l
      /\ \A j \in 1..k : d[j] = b[j]
      /\ \A j \in 1..l : d[k + j] = r[j]
  <2> HIDE DEF b, d, k, l
  <2>1. /\ b \o r \in Seq(Member) /\ Len(b \o r) = Len(b) + Len(r)
        /\ \A j \in 1..Len(b) : (b \o r)[j] = b[j]
        /\ \A j \in 1..Len(r) : (b \o r)[Len(b) + j] = r[j]
      BY <1>1, Joined
  <2> QED
      BY <2>1, <1>1 DEF d, l
<1>4. e \in Seq(Member) /\ Len(e) = k + l
  <2> HIDE DEF c, e, k, l
  <2>1. WithValue(c, i, v) \in Seq(Member) /\ Len(WithValue(c, i, v)) = Len(c)
      BY <1>2, ValueSet
  <2> QED
      BY <2>1, <1>2 DEF e
<1> HIDE DEF c
<1>5. \A j \in 1..(k + l) : e[j] = IF j = i THEN [c[i] EXCEPT !.val = v] ELSE c[j]
  <2>1. DOMAIN c = 1..(k + l)
      BY <1>1, <1>2
  <2> HIDE DEF k, l
  <2> QED
      BY <2>1, <1>2 DEF WithValue
<1>6. \A j \in 1..k : b[j] = IF j = i THEN [a[i] EXCEPT !.val = v] ELSE a[j]
    BY DEF WithValue
<1>7. i \in 1..k
    OBVIOUS
<1> HIDE DEF b, d, e, k, l
<1>8. ASSUME NEW j \in 1..(k + l) PROVE d[j] = e[j]
  <2>1. CASE j \in 1..k
      BY <2>1, <1>2, <1>3, <1>5, <1>6, <1>7
  <2>2. CASE j \notin 1..k
    <3> DEFINE z == j - k
    <3>1. z \in 1..l /\ k + z = j /\ j # i
        BY <2>2, <1>1, <1>7
    <3> HIDE DEF z
    <3>2. d[k + z] = r[z] /\ c[k + z] = r[z]
        BY <3>1, <1>2, <1>3
    <3> QED
        BY <3>1, <3>2, <1>5
  <2> QED
      BY <2>1, <2>2
<1>9. d = e
    BY <1>3, <1>4, <1>8, SeqEqual
<1>10. i \in 1..(k + l) /\ DOMAIN c = 1..(k + l)
    BY <1>1, <1>2, <1>7
<1> QED
    BY <1>9, <1>10 DEF b, c, d, e

\* A write through a retained pointer replaces the value of one member, or is not seen.
LEMMA WriteShows ==
    ASSUME CopiesOnlyRead, Inv, FaithInv, NEW m \in Fresh, WriteThrough(m.val), UNCHANGED source
    PROVE  FaithInv' /\ Implements(source, RootNow, RootNext)
<1> DEFINE x == ptr.slot
           v == m.val
           s == RootNow
           t == RootNext
<1>1. /\ "write" \in Ops /\ x # Nil /\ slot' = WithValue(slot, x, v)
      /\ node' = node /\ arrs' = arrs
    BY DEF WriteThrough, WithValue
<1>2. "copy" \notin Ops
    BY <1>1, EditsAlone
<1>3. /\ Alive(Root) /\ Root \in Handles /\ source \in Sources
  <2>1. Root \in Handles /\ Alive(Root)
      BY StoreAssumption DEF FaithInv, FaithOK, Alive
  <2> QED
      BY <2>1, Known
<1>4. /\ StoreOK(source, s) /\ Faithful(source, s) /\ s.n = node[Root] /\ s.arrs = arrs
      /\ s.slot = slot
    BY <1>3, Known
<1>5. t = [n |-> s.n, arrs |-> s.arrs, slot |-> WithValue(s.slot, x, v)]
    BY <1>1, <1>4 DEF RootNext, StoreIn
<1>6. v \in Values \cup {None}
    BY FreshMember
<1> HIDE DEF s, t, x, v
<1>7. /\ t.n = s.n /\ t.arrs = s.arrs /\ Cap(t) = Cap(s) /\ \A i : At(t, i) = At(s, i)
    BY <1>5 DEF Cap, At
<1>8. FaithInv'
  <2>1. Faithful(source, t)
      BY <1>2, <1>4, <1>7 DEF Faithful, Ops
  <2>2. t.n.typ # "absent"
      BY <1>3, <1>4, <1>7 DEF Alive
  <2>3. RootNext = t
      BY DEF t
  <2> QED
      BY <2>1, <2>2, <2>3, <1>1, <1>2, OwnStep
<1>9. ASSUME Items(t) = Items(s) PROVE ShowsSame(source, s, t)
    BY <1>7, <1>9 DEF ShowsSame, Shown, Awaits, IsContainer
<1>10. CASE ~IsContainer(s) \/ s.n.raw
  <2>1. ShowsSame(source, s, t)
      BY <1>7, <1>10 DEF ShowsSame, Shown, Awaits, IsContainer
  <2> QED
      BY <2>1, <1>8 DEF Implements, s, t
<1>11. CASE \A i \in 1..s.n.len : At(s, i) # x
  <2>1. t = [n |-> s.n, arrs |-> s.arrs, slot |-> [s.slot EXCEPT ![x].val = v]]
      BY <1>5 DEF WithValue
  <2>2. Items(t) = Items(s)
      BY <2>1, <1>4, <1>11, OtherItems
  <2> QED
      BY <2>2, <1>8, <1>9 DEF Implements, s, t
<1>12. CASE IsContainer(s) /\ ~s.n.raw /\ \E i \in 1..s.n.len : At(s, i) = x
  <2>1. PICK i \in 1..s.n.len : At(s, i) = x
      BY <1>12
  <2>2. s = [n |-> s.n, arrs |-> s.arrs, slot |-> s.slot]
      BY <1>4, Fields DEF StoreOK
  <2>3. t = [s EXCEPT !.slot = WithValue(s.slot, At(s, i), v)]
      BY <2>1, <2>2, <1>5, WithNode
  <2> DEFINE a == Items(s)
             r == Rest(source, s.n)
  <2>4. Items(t) = WithValue(a, i, v)
      BY <2>3, <1>4, ValueItems
  <2>5. a \in Seq(Member) /\ r \in Seq(Member) /\ i \in 1..Len(a)
      BY <1>3, <1>4, ItemsOf, RestList
  <2>6. Shown(source, s) = a \o r /\ Shown(source, t) = Items(t) \o r
      BY <1>7, <1>12 DEF Shown, IsContainer
  <2> HIDE DEF a, r
  <2>7. i \in DOMAIN (a \o r) /\ WithValue(a, i, v) \o r = WithValue(a \o r, i, v)
      BY <2>5, <1>6, ValueJoined
  <2>8. i \in DOMAIN Shown(source, s) /\ Shown(source, t) = WithValue(Shown(source, s), i, v)
      BY <2>4, <2>6, <2>7
  <2>9. Shown(source, t) = [Shown(source, s) EXCEPT ![i].val = m.val]
      BY <2>8 DEF WithValue, v
  <2>10. t.n.typ = s.n.typ /\ (Awaits(source, t) <=> Awaits(source, s))
      BY <1>7 DEF Awaits
  <2>11. Written(source, s, t)
      BY <2>8, <2>9, <2>10 DEF Written
  <2> QED
      BY <2>11, <1>8 DEF Implements, s, t
<1> QED
    BY <1>10, <1>11, <1>12

\* A copy shows what its node does, and the root the same as before.
LEMMA CopyShows ==
    ASSUME Inv, FaithInv, NEW h \in Handles, NEW c \in Handles, Copy(h, c), UNCHANGED source
    PROVE  FaithInv' /\ Implements(source, RootNow, RootNext)
<1>1. /\ "copy" \in source.ops /\ Alive(h) /\ ~Alive(c) /\ node' = [node EXCEPT ![c] = node[h]]
      /\ arrs' = arrs /\ slot' = slot
    BY DEF Copy, Ops
<1>2. /\ Faithful(source, StoreIn(node, arrs, slot, h)) /\ Alive(Root) /\ Root \in Handles
      /\ node \in [Handles -> NodeRec]
    BY <1>1, Known, Existing
<1>3. node'[c] = node[h] /\ \A g \in Handles : g # c => node'[g] = node[g]
    BY <1>1, <1>2
<1>4. Root # c /\ node'[Root] = node[Root]
    BY <1>1, <1>2, <1>3
<1>5. \A g \in Handles : node'[g].typ # "absent" => Faithful(source, StoreIn(node', arrs', slot', g))
  <2> TAKE g \in Handles
  <2>1. CASE g = c
    <3>1. StoreIn(node', arrs', slot', g) = StoreIn(node, arrs, slot, h)
        BY <1>1, <1>3, <2>1 DEF StoreIn
    <3> QED
        BY <3>1, <1>2
  <2>2. CASE g # c
    <3>1. StoreIn(node', arrs', slot', g) = StoreIn(node, arrs, slot, g) /\ node'[g] = node[g]
        BY <1>1, <1>3, <2>2 DEF StoreIn
    <3> QED
        BY <3>1 DEF FaithInv, FaithOK
  <2> QED
      BY <2>1, <2>2
<1>6. FaithInv'
    BY <1>1, <1>2, <1>4, <1>5 DEF FaithInv, FaithOK, Alive
<1>7. RootNext = RootNow
    BY <1>1, <1>4 DEF RootNow, RootNext, StoreIn
<1> QED
    BY <1>6, <1>7 DEF Implements, ShowsSame

\* What an owner of a node does to it.
LEMMA UseShows ==
    ASSUME CopiesOnlyRead, Inv, FaithInv, NEW h \in Handles, Use(h), UNCHANGED source
    PROVE  FaithInv' /\ Implements(source, RootNow, RootNext)
<1> DEFINE Done == FaithInv' /\ Implements(source, RootNow, RootNext)
<1>1. \A i \in Indices : i \in Nat /\ i # 0
  <2>1. source \in Sources
      BY DEF Inv, NodesInv, NodesOK
  <2>2. MaxLen \in Nat
      BY <2>1, TextOK DEF MaxLen, MaxSlots
  <2> QED
      BY <2>2 DEF Indices
<1>2. ASSUME NEW k \in Keys \ {0}, Get(h, k) \/ Unset(h, k) PROVE Done
    BY <1>2, ReadShows, UnsetShows
<1>3. ASSUME NEW i \in Indices, Index(h, i) \/ UnsetByIndex(h, i) PROVE Done
    BY <1>1, <1>3, ReadShows, UnsetShows
<1>4. ASSUME NEW m \in Fresh, Promote(h, m) \/ AddMember(h, m) PROVE Done
    BY <1>4, PromoteShows, AddShows
<1>5. ASSUME NEW m \in Fresh, NEW k \in Keys \ {0}, SetMember(h, k, m.val) PROVE Done
    BY <1>5, SetShows
<1>6. ASSUME NEW m \in Fresh, NEW i \in Indices, SetByIndex(h, i, m.val) PROVE Done
    BY <1>1, <1>6, SetByIndexShows
<1>7. ASSUME NEW i \in Indices, NEW j \in Indices, Move(h, i, j) PROVE Done
    BY <1>1, <1>7, MoveShows
<1>8. ASSUME LoadChildren(h) \/ Iterate(h) PROVE Done
    BY <1>8, ReadShows
<1>9. ASSUME Pop(h) PROVE Done
    BY <1>9, UnsetShows
<1>10. ASSUME SortKeys(h) PROVE Done
    BY <1>10, SortShows
<1>11. ASSUME UnmarshalJSON(h) PROVE Done
    BY <1>11, UnmarshalShows
<1> HIDE DEF Done
<1>12. Done
    BY <1>2, <1>3, <1>4, <1>5, <1>6, <1>7, <1>8, <1>9, <1>10, <1>11 DEF Use
<1> QED
    BY <1>12 DEF Done

\* Every step keeps the nodes faithful, and is one of the container's or none.
LEMMA StepShows ==
    ASSUME CopiesOnlyRead, Inv, FaithInv, [Next]_vars
    PROVE  FaithInv' /\ [Container!Next]_ContainerVars
<1>1. UNCHANGED source
    BY DEF Next, vars
<1> SUFFICES FaithInv' /\ Implements(source, RootNow, RootNext)
    BY <1>1, ContainerStep
<1>2. CASE UNCHANGED vars
  <2>1. node' = node /\ arrs' = arrs /\ slot' = slot
      BY <1>2 DEF vars
  <2>2. FaithInv' /\ RootNext = RootNow
      BY <1>1, <2>1 DEF FaithInv, RootNow, RootNext
  <2> QED
      BY <2>2 DEF Implements, ShowsSame
<1>3. CASE Next
  <2>1. ASSUME NEW h \in Handles, Use(h) PROVE FaithInv' /\ Implements(source, RootNow, RootNext)
      BY <1>1, <2>1, UseShows
  <2>2. ASSUME NEW h \in Handles, NEW c \in Handles, Copy(h, c)
        PROVE  FaithInv' /\ Implements(source, RootNow, RootNext)
      BY <1>1, <2>2, CopyShows
  <2>3. ASSUME IteratorNext PROVE FaithInv' /\ Implements(source, RootNow, RootNext)
      BY <1>1, <2>3, IteratorShows
  <2>4. ASSUME NEW m \in Fresh, WriteThrough(m.val)
        PROVE  FaithInv' /\ Implements(source, RootNow, RootNext)
      BY <1>1, <2>4, WriteShows
  <2> QED
      BY <1>3, <2>1, <2>2, <2>3, <2>4 DEF Next
<1> QED
    BY <1>2, <1>3

\* A new node is faithful, and shows the text or nothing.
LEMMA InitShows ==
    ASSUME CopiesOnlyRead, Init
    PROVE  FaithInv /\ Container!Init
<1>1. source \in Sources /\ arrs = <<>> /\ slot = <<>> /\ Root \in Handles
    BY StoreAssumption DEF Init
<1>2. PICK n \in {RawNode, FreshNode(None)} :
        node = [h \in Handles |-> IF h = Root THEN n ELSE FreshNode("absent")]
    BY DEF Init
<1>3. node[Root] = n /\ \A h \in Handles : h # Root => node[h].typ = "absent"
    BY <1>1, <1>2 DEF FreshNode
<1>4. source.kind \in {"array", "object"}
    BY <1>1, TextOK
<1>5. /\ n.pos = 0 /\ n.arr = 0 /\ n.len = 0 /\ n.typ # "absent"
      /\ n = RawNode => n.raw = TRUE /\ n.typ = Kind
      /\ n = FreshNode(None) => n.raw = FALSE /\ n.typ = None
    BY <1>4 DEF RawNode, FreshNode, Kind, None
<1>6. FaithInv
  <2> SUFFICES ASSUME NEW h \in Handles, node[h].typ # "absent"
               PROVE  Faithful(source, StoreIn(node, arrs, slot, h))
      BY <1>3, <1>5 DEF FaithInv, FaithOK
  <2>1. h = Root
      BY <1>3
  <2> DEFINE s == StoreIn(node, arrs, slot, h)
  <2>2. s.n = n /\ s.arrs = <<>> /\ Len(s.arrs) = 0
      BY <2>1, <1>1, <1>3 DEF StoreIn
  <2> HIDE DEF s
  <2>3. "copy" \in source.ops => Reads(source)
      BY <1>1 DEF CopiesOnlyRead, Reads, Reading
  <2>4. \A i \in 1..Cap(s) : FALSE
      BY <2>2, <1>5 DEF Cap
  <2>5. Faithful(source, s)
      BY <2>2, <2>3, <2>4, <1>5 DEF Faithful
  <2> QED
      BY <2>5 DEF s
<1>7. Container!Init
  <2>1. CASE n = RawNode
    <3>1. node[Root].raw = TRUE /\ node[Root].typ = Kind /\ IsContainer(Store(Root))
        BY <2>1, <1>3, <1>4, <1>5 DEF IsContainer, Store, Kind
    <3>2. Members(Root) = Prefix
        BY <3>1 DEF Members
    <3> QED
        BY <3>1, <3>2 DEF Container!Init
  <2>2. CASE n = FreshNode(None)
    <3>1. /\ node[Root].raw = FALSE /\ node[Root].typ = "none" /\ node[Root].pos = 0
          /\ ~IsContainer(Store(Root))
        BY <2>2, <1>3, <1>5 DEF IsContainer, Store, None
    <3>2. Members(Root) = <<>>
        BY <3>1 DEF Members
    <3> QED
        BY <3>1, <3>2 DEF Container!Init
  <2> QED
      BY <2>1, <2>2
<1> QED
    BY <1>6, <1>7
-----------------------------------------------------------------------------
(* The theorem.                                                             *)

\* To an owner who makes no copies of a node he edits, its lazy list of slots is the
\* list of members that parsing the text at once would have given: loading, iterating
\* and retained pointers change nothing that he reads, and each of his edits changes
\* it as its name says (node.go, lazy.go, storage.go, iterator.go).
THEOREM ContainerImplemented == ASSUME CopiesOnlyRead PROVE Spec => ImplementsContainer
<1>1. Disciplined
    BY DEF CopiesOnlyRead, Disciplined, Reads, Reading
<1>2. Init => Inv /\ FaithInv /\ Container!Init
    BY InitStore, InitShows
<1>3. Inv /\ FaithInv /\ [Next]_vars => Inv' /\ FaithInv' /\ [Container!Next]_ContainerVars
    BY <1>1, StoreStep, StepShows
<1> QED
    BY <1>2, <1>3, PTL DEF Spec, ImplementsContainer, Container!Spec, ContainerVars

=============================================================================
