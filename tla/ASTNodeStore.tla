------------------------------- MODULE ASTNodeStore -------------------------------
(***************************************************************************)
(* The storage of one ast.Node container and its value copies, used by one  *)
(* goroutine (src/ast/node.go, lazy.go, storage.go, iterator.go).           *)
(*                                                                          *)
(* A handle is a Node value: a cursor into the JSON text and a slice of     *)
(* pointers to member slots.  Slots never move; the slice grows as append   *)
(* grows it, one member at a time while the text is parsed.  A copy of a    *)
(* handle has its own cursor and slice header and shares the backing array. *)
(***************************************************************************)
EXTENDS Naturals, Sequences, FiniteSets

CONSTANTS
    Handles,       \* Node values
    Root,          \* the one that exists first; the others are copies of it
    Values,        \* what members hold
    Fresh,         \* members a caller may insert; an array's have key 0
    Sources        \* the texts a node is made from, and what its owner does:
                   \* [kind, members, errAt, ops, room]

None == "none"     \* the value of Node{}
Nil == 0           \* a nil member pointer
Member == [key : Nat, val : Values \cup {None}]
Cleared == [key |-> 0, val |-> None]

ASSUME StoreAssumption ==
    /\ Root \in Handles /\ Fresh \subseteq Member
    /\ \A t \in Sources :
         /\ t.kind \in {"array", "object"} /\ t.members \in Seq(Member)
         /\ t.errAt \in 0..Len(t.members)
         /\ t.room \in Nat /\ Len(t.members) <= t.room
         /\ \A i \in DOMAIN t.members : (t.members[i].key = 0) = (t.kind = "array")

VARIABLES
    source,   \* the text of the node, one of Sources
    node,     \* handle -> [typ, raw, pos, arr, len]; typ "absent": no such value yet
    arrs,     \* backing arrays: sequences of slot numbers or Nil; 0 is the nil slice
    slot,     \* member slots, in order of allocation
    ptr,      \* the pointer the last Get or Index returned: [of, slot]
    it,       \* an iterator: [of, pos], of = "nobody" before Values or Properties
    seen,     \* history: the slots the iterator has returned or skipped
    shrunk    \* history: the list lost a member since the iterator was made

Kind == source.kind
Text == source.members   \* the members of the text, in order
ErrAt == source.errAt    \* 0, or the member at which parsing the text fails
Ops == source.ops        \* the operations the owner uses
MaxSlots == source.room  \* bound: member slots ever allocated
MaxLen == MaxSlots + 1

vars == <<source, node, arrs, slot, ptr, it, seen, shrunk>>
cursor == <<ptr, it, seen, shrunk>>

\* What an operation works on: one node and the memory behind it.
Store(h) == [n |-> node[h], arrs |-> arrs, slot |-> slot]
Put(h, s) == node' = [node EXCEPT ![h] = s.n] /\ arrs' = s.arrs /\ slot' = s.slot

At(s, i) == s.arrs[s.n.arr][i]
MemberAt(s, i) == s.slot[At(s, i)]
Cap(s) == IF s.n.arr = 0 THEN 0 ELSE Len(s.arrs[s.n.arr])

FreshNode(t) == [typ |-> t, raw |-> FALSE, pos |-> 0, arr |-> 0, len |-> 0]
RawNode == [FreshNode(Kind) EXCEPT !.raw = TRUE]

Init ==
    /\ source \in Sources
    /\ \E n \in {RawNode, FreshNode(None)} :
         node = [h \in Handles |-> IF h = Root THEN n ELSE FreshNode("absent")]
    /\ arrs = <<>> /\ slot = <<>>
    /\ ptr = [of |-> "nobody", slot |-> Nil]
    /\ it = [of |-> "nobody", pos |-> 0]
    /\ seen = <<>> /\ shrunk = FALSE

-----------------------------------------------------------------------------
(* Loading.                                                                 *)

\* append allocates twice the room it had.
Grow(c) == IF c = 0 THEN 1 ELSE 2 * c

\* append(list, &m): in place while there is room, whatever a copy keeps there.
AppendSlot(s, m) ==
    LET id == Len(s.slot) + 1
        i == s.n.len + 1
    IN
    IF i <= Cap(s)
    THEN [n |-> [s.n EXCEPT !.len = i],
          arrs |-> [s.arrs EXCEPT ![s.n.arr][i] = id],
          slot |-> Append(s.slot, m)]
    ELSE [n |-> [s.n EXCEPT !.len = i, !.arr = Len(s.arrs) + 1],
          arrs |-> Append(s.arrs, [j \in 1..Grow(Cap(s)) |->
                     IF j < i THEN At(s, j) ELSE IF j = i THEN id ELSE Nil]),
          slot |-> Append(s.slot, m)]

\* A defect of loadNext: a slot that a copy has filled is filled again.
LoadSlotBug(s, m) == AppendSlot(s, m)
\* loadNext reuses a slot that a copy of the node has already exposed.
LoadSlot(s, m) ==
    IF s.n.len < Cap(s) /\ At(s, s.n.len + 1) # Nil
    THEN [s EXCEPT !.n.len = @ + 1]
    ELSE AppendSlot(s, m)

\* A defect of loadNext: the last member is taken for the closing bracket.
CursorBug(k) == IF k + 1 >= Len(Text) THEN 0 ELSE k + 1
\* The cursor after member k; 0 when that was the last one.
Cursor(k) == IF k >= Len(Text) THEN 0 ELSE k + 1

Failed(s) == [s EXCEPT !.n.typ = "error", !.n.raw = FALSE, !.n.pos = 0]

LoadNext(s) ==
    IF ErrAt = s.n.pos THEN Failed(s)
    ELSE IF Text = <<>> THEN [s EXCEPT !.n.pos = 0]
    ELSE [LoadSlot(s, Text[s.n.pos]) EXCEPT !.n.pos = Cursor(s.n.pos)]

\* ensureLoaded of a node without a mutex: a container starts at its cursor.
Opened(s) == IF s.n.raw THEN [s EXCEPT !.n.raw = FALSE, !.n.pos = 1] ELSE s

\* Load members while the text has more and Wanted(s) holds.
LoadWhile(s, Wanted(_)) ==
    LET load[k \in 0..(Len(Text) + 1)] ==
          IF k = 0 THEN s
          ELSE LET t == load[k - 1] IN
               IF t.n.pos # 0 /\ Wanted(t) THEN LoadNext(t) ELSE t
    IN load[Len(Text) + 1]

LoadedTo(s, i) == LoadWhile(Opened(s), LAMBDA t : t.n.len < i)
LoadedAll(s) == LoadWhile(Opened(s), LAMBDA t : TRUE)
Has(s, k) == \E i \in 1..s.n.len : MemberAt(s, i).key = k
LoadedKey(s, k) == LoadWhile(Opened(s), LAMBDA t : ~Has(t, k))
\* The slot of the first member with key k.
Find(s, k) ==
    At(s, CHOOSE i \in 1..s.n.len :
            /\ MemberAt(s, i).key = k
            /\ \A j \in 1..(i - 1) : MemberAt(s, j).key # k)

Alive(h) == node[h].typ # "absent"
IsContainer(s) == s.n.typ \in {"array", "object"}

-----------------------------------------------------------------------------
(* Reading.                                                                 *)

\* Get loads as far as the key; the pointer addresses the member's slot.
Get(h, k) ==
    LET s == LoadedKey(Store(h), k) IN
    /\ "get" \in Ops /\ node[h].typ = "object"
    /\ Put(h, s)
    /\ ptr' = (IF s.n.typ = "object" /\ Has(s, k)
               THEN [of |-> h, slot |-> Find(s, k)] ELSE ptr)
    /\ UNCHANGED <<it, seen, shrunk>>

Index(h, i) ==
    LET s == LoadedTo(Store(h), i) IN
    /\ "get" \in Ops /\ node[h].typ \in {"array", "object"}
    /\ Put(h, s)
    /\ ptr' = (IF IsContainer(s) /\ i <= s.n.len
               THEN [of |-> h, slot |-> At(s, i)] ELSE ptr)
    /\ UNCHANGED <<it, seen, shrunk>>

\* IndexOrGet, IndexPair, Interface, Raw, MarshalJSON: everything is loaded.
LoadChildren(h) ==
    /\ "load" \in Ops /\ IsContainer(Store(h))
    /\ Put(h, LoadedAll(Store(h)))
    /\ UNCHANGED cursor

\* c := *n, an iterator's Next, ArrayUseNode: a second handle.
Copy(h, c) ==
    /\ "copy" \in Ops /\ Alive(h) /\ ~Alive(c)
    /\ node' = [node EXCEPT ![c] = node[h]]
    /\ UNCHANGED <<arrs, slot, cursor>>

\* Values, Properties.
Iterate(h) ==
    /\ "iterate" \in Ops /\ IsContainer(Store(h)) /\ it.of = "nobody"
    /\ Put(h, Opened(Store(h)))
    /\ it' = [of |-> h, pos |-> 0]
    /\ seen' = <<>> /\ shrunk' = FALSE
    /\ UNCHANGED ptr

\* A defect of Next: an absent member is counted twice.
SkipBug(p) == p + 2
Skip(p) == p + 1

\* HasNext: an iterator does not open a raw node, and an error has no members.
Reach(s, p) == LoadWhile(s, LAMBDA t : t.n.len <= p)
More(s, p) == IsContainer(s) /\ p < s.n.len

\* Next: up to the first member from position p that is not absent.
Advance(s, p) ==
    LET go[k \in 0..MaxLen] ==
          IF k = 0 THEN [s |-> Reach(s, p), pos |-> p, passed |-> seen, hit |-> FALSE]
          ELSE LET c == go[k - 1] IN
               IF c.hit \/ ~More(c.s, c.pos) THEN c
               ELSE LET absent == MemberAt(c.s, c.pos + 1).val = None
                        next == IF absent THEN Skip(c.pos) ELSE c.pos + 1 IN
                    [s |-> IF absent THEN Reach(c.s, next) ELSE c.s, pos |-> next,
                     passed |-> Append(c.passed, At(c.s, c.pos + 1)), hit |-> ~absent]
    IN go[MaxLen]

IteratorNext ==
    LET c == Advance(Store(it.of), it.pos) IN
    /\ it.of # "nobody"
    /\ Put(it.of, c.s)
    /\ it' = [it EXCEPT !.pos = c.pos]
    /\ seen' = c.passed
    /\ UNCHANGED <<ptr, shrunk>>

-----------------------------------------------------------------------------
(* Writing.  Every operation loads the whole list first.                    *)

\* A new value for the node; pointers into the old one are the caller's past.
Assign(h, n) ==
    /\ node' = [node EXCEPT ![h] = n]
    /\ ptr' = (IF ptr.of = h THEN [of |-> "nobody", slot |-> Nil] ELSE ptr)
    /\ shrunk' = (shrunk \/ it.of = h)
    /\ UNCHANGED <<it, seen>>

\* NewArray, NewObject: an absent node becomes a container of one member.
Promote(h, m) ==
    /\ "promote" \in Ops /\ node[h].typ = None /\ Len(slot) < MaxSlots
    /\ Assign(h, [FreshNode(IF m.key = 0 THEN "array" ELSE "object") EXCEPT
                    !.arr = Len(arrs) + 1, !.len = 1])
    /\ arrs' = Append(arrs, <<Len(slot) + 1>>)
    /\ slot' = Append(slot, m)

\* Add, and Set of a key the object does not have.
AddMember(h, m) ==
    LET s == LoadedAll(Store(h)) IN
    /\ "add" \in Ops /\ node[h].typ = (IF m.key = 0 THEN "array" ELSE "object")
    /\ Len(s.slot) < MaxSlots
    /\ m.key # 0 /\ IsContainer(s) => ~Has(s, m.key)
    /\ Put(h, IF IsContainer(s) THEN AppendSlot(s, m) ELSE s)
    /\ UNCHANGED cursor

\* Set of a key the object has: the first member with the key.
SetMember(h, k, v) ==
    LET s == LoadedAll(Store(h)) IN
    /\ "set" \in Ops /\ node[h].typ = "object"
    /\ IsContainer(s) => Has(s, k)
    /\ Put(h, IF IsContainer(s) THEN [s EXCEPT !.slot[Find(s, k)].val = v] ELSE s)
    /\ UNCHANGED cursor

SetByIndex(h, i, v) ==
    LET s == LoadedAll(Store(h)) IN
    /\ "set" \in Ops /\ IsContainer(Store(h))
    /\ Put(h, IF IsContainer(s) /\ i <= s.n.len
              THEN [s EXCEPT !.slot[At(s, i)].val = v] ELSE s)
    /\ UNCHANGED cursor

\* The backing array of s once the pointer at i is gone.
Closed(s, i) ==
    [s.arrs EXCEPT ![s.n.arr] = [j \in DOMAIN @ |->
        IF j = s.n.len THEN Nil ELSE IF j \in i..(s.n.len - 1) THEN @[j + 1] ELSE @[j]]]

\* Defects of removeArrayAt: the removed slot keeps its value; the list keeps
\* its length.
RemoveKeepsBug(s, i) ==
    [n |-> [s.n EXCEPT !.len = @ - 1], arrs |-> Closed(s, i), slot |-> s.slot]
RemoveLenBug(s, i) ==
    [n |-> s.n, arrs |-> Closed(s, i), slot |-> [s.slot EXCEPT ![At(s, i)] = Cleared]]
\* removeArrayAt, removeObjectAt: the slot is cleared, the pointers behind it
\* move up in the shared backing array and the last one becomes nil.
RemoveAt(s, i) ==
    [n |-> [s.n EXCEPT !.len = @ - 1], arrs |-> Closed(s, i),
     slot |-> [s.slot EXCEPT ![At(s, i)] = Cleared]]

Removal(h, s, i) ==
    IF IsContainer(s) /\ i \in 1..s.n.len
    THEN Put(h, RemoveAt(s, i)) /\ shrunk' = (shrunk \/ it.of = h)
    ELSE Put(h, s) /\ UNCHANGED shrunk

\* Unset by key.
Unset(h, k) ==
    LET s == LoadedAll(Store(h)) IN
    /\ "remove" \in Ops /\ node[h].typ = "object"
    /\ Removal(h, s, IF IsContainer(s) /\ Has(s, k)
                     THEN CHOOSE i \in 1..s.n.len : At(s, i) = Find(s, k) ELSE 0)
    /\ UNCHANGED <<ptr, it, seen>>

UnsetByIndex(h, i) ==
    /\ "remove" \in Ops /\ IsContainer(Store(h))
    /\ Removal(h, LoadedAll(Store(h)), i)
    /\ UNCHANGED <<ptr, it, seen>>

Pop(h) ==
    LET s == LoadedAll(Store(h)) IN
    /\ "remove" \in Ops /\ IsContainer(Store(h))
    /\ Removal(h, s, s.n.len)
    /\ UNCHANGED <<ptr, it, seen>>

\* A defect of Move: the two elements are swapped.
ShiftedBug(i, dst, src) == IF i = dst THEN src ELSE IF i = src THEN dst ELSE i
\* Which element Move puts at position i.
Shifted(i, dst, src) ==
    IF i = dst THEN src
    ELSE IF src < dst /\ i \in src..dst THEN i + 1
    ELSE IF dst < src /\ i \in dst..src THEN i - 1 ELSE i

\* The values move among the slots, which stay where they are: position i gets
\* the member at position from(i).
Permuted(s, from(_)) ==
    LET Position(x) == CHOOSE i \in 1..s.n.len : At(s, i) = x IN
    [s EXCEPT !.slot = [x \in DOMAIN s.slot |->
        IF \E i \in 1..s.n.len : At(s, i) = x
        THEN MemberAt(s, from(Position(x))) ELSE s.slot[x]]]

Move(h, dst, src) ==
    LET s == LoadedAll(Store(h)) IN
    /\ "move" \in Ops /\ node[h].typ = "array"
    /\ Put(h, IF IsContainer(s) /\ dst <= s.n.len /\ src <= s.n.len
              THEN Permuted(s, LAMBDA i : Shifted(i, dst, src)) ELSE s)
    /\ UNCHANGED cursor

\* sort.Stable's order: members with equal keys keep theirs.
Before(s, j, i) ==
    LET a == MemberAt(s, j).key b == MemberAt(s, i).key IN a < b \/ (a = b /\ j < i)

\* SortKeys of one object: sort.Stable over pairSlots.
SortKeys(h) ==
    LET s == LoadedAll(Store(h))
        Rank(i) == Cardinality({j \in 1..s.n.len : Before(s, j, i)}) + 1
    IN
    /\ "move" \in Ops /\ node[h].typ = "object"
    /\ Put(h, IF IsContainer(s)
              THEN Permuted(s, LAMBDA r : CHOOSE i \in 1..s.n.len : Rank(i) = r) ELSE s)
    /\ UNCHANGED cursor

\* UnmarshalJSON: NewRaw validates the text; the old list is dropped.
UnmarshalJSON(h) ==
    /\ "unmarshal" \in Ops /\ Alive(h) /\ Len(slot) + Len(Text) <= MaxSlots
    /\ Assign(h, IF ErrAt = 0 THEN RawNode ELSE FreshNode("error"))
    /\ UNCHANGED <<arrs, slot>>

\* *p = v through the pointer that Get or Index returned.
WriteThrough(v) ==
    /\ "write" \in Ops /\ ptr.slot # Nil
    /\ slot' = [slot EXCEPT ![ptr.slot].val = v]
    /\ UNCHANGED <<node, arrs, cursor>>

Keys == {Text[i].key : i \in DOMAIN Text} \cup {m.key : m \in Fresh}
Indices == 1..MaxLen

Use(h) ==
    \/ \E k \in Keys \ {0} : Get(h, k) \/ Unset(h, k)
    \/ \E i \in Indices : Index(h, i) \/ UnsetByIndex(h, i)
    \/ \E m \in {f \in Fresh : (f.key = 0) = (Kind = "array")} :
         \/ Promote(h, m) \/ AddMember(h, m)
         \/ \E k \in Keys \ {0} : SetMember(h, k, m.val)
         \/ \E i \in Indices : SetByIndex(h, i, m.val)
    \/ \E i, j \in Indices : Move(h, i, j)
    \/ LoadChildren(h) \/ Iterate(h) \/ Pop(h) \/ SortKeys(h) \/ UnmarshalJSON(h)

Next ==
    /\ \/ \E h \in Handles : Use(h) \/ \E c \in Handles : Copy(h, c)
       \/ IteratorNext
       \/ \E m \in Fresh : WriteThrough(m.val)
    /\ UNCHANGED source

Spec == Init /\ [][Next]_vars
-----------------------------------------------------------------------------
(* Properties.                                                              *)

TypeOK ==
    /\ node \in [Handles -> [typ : {"absent", None, "array", "object", "error"},
                             raw : BOOLEAN, pos : 0..(Len(Text) + 1),
                             arr : 0..Len(arrs), len : 0..MaxLen]]
    /\ \A h \in Handles :
         /\ node[h].len <= Cap(Store(h))
         /\ node[h].pos # 0 => ~node[h].raw /\ IsContainer(Store(h))
    /\ \A b \in DOMAIN arrs, i \in Indices :
         i <= Len(arrs[b]) => arrs[b][i] \in 0..Len(slot)
    /\ ptr.slot \in 0..Len(slot) /\ \A i \in DOMAIN seen : seen[i] \in DOMAIN slot

List(h) == [i \in 1..node[h].len |-> At(Store(h), i)]
Listed(h) == {At(Store(h), i) : i \in 1..node[h].len}

\* Every member pointer of a container is a real one: node.go:907, 1092 and
\* 1207 dereference n.obj[i] and n.arr[i] without a check.
NoNilSlot == \A h \in Handles : \A i \in 1..node[h].len : At(Store(h), i) # Nil

\* "Child storage has stable addresses across adding members and removing
\* siblings" (docs/compatibility.md:44): while the node is not replaced, the
\* pointers that stay in its list keep their order and their place before the
\* new ones, and a slot that leaves the list is cleared at that moment.
StableSlots ==
    [][\A h \in Handles :
         \/ ~IsContainer(Store(h)') \/ node'[h].raw
         \/ /\ \A i, j \in DOMAIN List(h)' : i < j /\ List(h)'[j] \in Listed(h) =>
                  \E a, b \in DOMAIN List(h) :
                    a < b /\ List(h)[a] = List(h)'[i] /\ List(h)[b] = List(h)'[j]
            /\ \A x \in Listed(h) \ Listed(h)' : slot'[x] = Cleared]_vars

\* A retained child pointer addresses a member of the list still, or a slot
\* that was cleared when it was removed (node.go:883-885).
PointerStaysChild ==
    /\ TypeOK
    /\ ptr.slot # Nil /\ IsContainer(Store(ptr.of)) =>
         ptr.slot \in Listed(ptr.of) \/ slot[ptr.slot].key = 0

\* An iterator over a list that is changed under it passes no member twice,
\* and unless the list lost a member meanwhile it has passed exactly the
\* members before its position, those appended later included.
IteratorVisitsOnce ==
    /\ \A i, j \in DOMAIN seen : seen[i] = seen[j] => i = j
    /\ it.of # "nobody" /\ ~shrunk =>
         it.pos <= node[it.of].len /\ seen = SubSeq(List(it.of), 1, it.pos)

\* The list of members as its owner would read it: the loaded ones, then the
\* rest of the text up to the malformed member.
Prefix == IF ErrAt = 0 THEN Text ELSE SubSeq(Text, 1, ErrAt - 1)
Members(h) ==
    LET n == node[h] IN
    IF ~IsContainer(Store(h)) THEN <<>>
    ELSE IF n.raw THEN Prefix
    ELSE [i \in 1..n.len |-> MemberAt(Store(h), i)]
         \o (IF n.pos = 0 THEN <<>> ELSE SubSeq(Prefix, n.pos, Len(Prefix)))

\* Each copy of a node that its owners only read, or write through a pointer,
\* reads the members of the whole text, whatever the others have loaded
\* through the shared array.
CopiesReadTheWholeText ==
    \A h \in Handles : IsContainer(Store(h)) /\ Ops \subseteq {"get", "load", "copy", "write"} =>
        /\ Len(Members(h)) = Len(Prefix)
        /\ \A i \in DOMAIN Prefix : Members(h)[i].key = Prefix[i].key

\* The lazy list of slots implements a container that was parsed at once.
Container == INSTANCE ASTContainer WITH
    text <- [kind |-> Kind, prefix |-> Prefix, bad |-> ErrAt # 0],
    typ <- node[Root].typ, members <- Members(Root),
    bad <- ErrAt # 0 /\ (node[Root].raw \/ node[Root].pos # 0)
ImplementsContainer == Container!Spec
=============================================================================
