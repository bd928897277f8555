---------------------------- MODULE ASTConcurrentRead ----------------------------
(***************************************************************************)
(* Concurrent readers of lazy ast.Node values (src/ast/node.go, lazy.go).   *)
(*                                                                          *)
(* A node starts as raw JSON text.  The first reader that needs its value   *)
(* takes the node's RWMutex, parses a scalar or slices a container into raw *)
(* children, and unlocks; every later read of the node's fields happens     *)
(* WITHOUT the lock.  Node values can be copied: a copy has its own fields  *)
(* but shares the mutex and, when some children were already loaded, the    *)
(* backing array of child slots.                                            *)
(*                                                                          *)
(* A goroutine runs one read API at a time.  Each API is a sequence of      *)
(* calls (Check, ensureLoaded, finishLazy, ...) on one node followed by an  *)
(* unlocked use of that node, which may visit the children recursively.     *)
(***************************************************************************)
EXTENDS Naturals, Sequences, FiniteSets

CONSTANTS
    Goroutines,    \* readers
    Nodes,         \* Node values: published ones, their children, copies
    Roots,         \* the published nodes every reader holds a pointer to
    Scalars,       \* nodes whose text is a scalar
    Kids,          \* Kids[n]: the child nodes that parsing n's text creates
    ErrAt,         \* 0, or which parsing step of n's text fails
    Text,          \* Text[n]: the JSON text the node was made from
    Copies,        \* nodes that are snapshots, filled in during the run
    CopyOf, Owner, \* the node a snapshot copies, the reader that takes it
    Mutexes, NoMutex, MutexOf,
    Backings, Own, \* backing arrays; Own[n]: the array n's append allocates
    NilArray,      \* the nil slice of a node without children
    Cap,           \* capacity of each backing array
    MaxKids,       \* bound: children of a node
    InitNode, InitCell,
    None, Nil,
    APIs           \* bound: the kinds of read API the readers call

Slots == 1..MaxKids

\* raw: not loaded, text kept; err: typ = V_ERROR; pos: the child the cursor
\* lazyPos stands at, 0 when there is none; arr, len: the slice of children.
NodeRecord == [raw : BOOLEAN, err : BOOLEAN, pos : 0..(MaxKids + 1),
               arr : Backings, len : 0..MaxKids]

Modes == {"type", "get", "each", "value", "json", "copy"}
Calls == {"check", "ensure", "finish", "peek", "snapshot"}

ASSUME ShapeAssumption ==
    /\ MaxKids \in Nat /\ APIs \subseteq Modes
    /\ Roots \subseteq Nodes \ Copies /\ Copies \subseteq Nodes
    /\ Kids \in [Nodes -> Seq(Nodes \ Copies)]
    /\ ErrAt \in [Nodes -> Nat]
    /\ CopyOf \in [Copies -> Nodes \ Copies] /\ Owner \in [Copies -> Goroutines]
    /\ \A n \in Nodes : Len(Kids[n]) <= MaxKids /\ (n \in Scalars => Kids[n] = <<>>)
    /\ Own \in [Nodes -> Backings] /\ Cap \in [Backings -> Nat]
    /\ \A n \in Nodes : Cap[Own[n]] = MaxKids
    /\ NilArray \in Backings /\ Cap[NilArray] = 0
    /\ \A b \in Backings : Cap[b] <= MaxKids
    /\ MutexOf \in [Nodes -> Mutexes \cup {NoMutex}] /\ NoMutex \notin Mutexes
    /\ \A n \in Nodes : MutexOf[n] = NoMutex <=> n \in Copies
    /\ None \notin Goroutines /\ Nil \notin Nodes

\* A copy is made from the text of the node it copies.
SameText(n, m) ==
    /\ (n \in Scalars) = (m \in Scalars) /\ ErrAt[n] = ErrAt[m]
    /\ Len(Kids[n]) = Len(Kids[m])
    /\ \A i \in 1..Len(Kids[n]) : Text[Kids[n][i]] = Text[Kids[m][i]]

\* The first i slots of array b hold the children the text of n has there.
Holds(b, i, n, c) ==
    \A j \in 1..i : c[b][j] # Nil /\ Text[c[b][j]] = Text[Kids[n][j]]

\* Whatever array b holds, also past the end of a slice, are children of n.
Fits(b, n, c) ==
    \A j \in Slots : c[b][j] # Nil => j <= Len(Kids[n]) /\ Text[c[b][j]] = Text[Kids[n][j]]

\* What holds of the fields r of node n and the slot arrays c at every moment.
NodeOK(n, r, c) ==
    /\ r.len <= Cap[r.arr]
    /\ r.raw => r.pos = 0 /\ r.len = 0 /\ ~r.err /\ r.arr = NilArray
    /\ r.err => r.pos = 0 /\ ErrAt[n] # 0
    /\ r.pos # 0 => /\ r.pos = r.len + 1 /\ n \notin Scalars
                    /\ r.pos <= Len(Kids[n]) \/ r.pos = 1
                    /\ ErrAt[n] = 0 \/ r.pos <= ErrAt[n]
    /\ ~r.raw /\ ~r.err /\ r.pos = 0 => r.len = Len(Kids[n]) /\ ErrAt[n] = 0
    /\ Holds(r.arr, r.len, n, c) /\ Fits(r.arr, n, c)

\* The initial states are those NewRawConcurrentRead, a Searcher with
\* ConcurrentRead, or Load leave behind before the node is published: raw
\* nodes, settled nodes, and nodes a reader had partly loaded before Load gave
\* them a mutex.  Copies do not exist yet; arrays not allocated yet are empty.
ASSUME InitAssumption ==
    /\ InitNode \in [Nodes -> NodeRecord]
    /\ InitCell \in [Backings -> [Slots -> (Nodes \ Copies) \cup {Nil}]]
    /\ \A n \in Nodes :
         /\ NodeOK(n, InitNode[n], InitCell)
         /\ InitNode[n].arr # Own[n] => \A i \in Slots : InitCell[Own[n]][i] = Nil
         /\ n \in Copies => InitNode[n].raw
         /\ ErrAt[n] > 1 => ErrAt[n] <= Len(Kids[n])
         /\ Own[n] # NilArray
    /\ \A d \in Copies : SameText(d, CopyOf[d])
    /\ \A n, m \in Nodes :
         /\ Own[n] = Own[m] => n = m
         /\ InitNode[n].arr = Own[m] => n = m
    /\ \A n, m \in Nodes \ Copies :
         InitNode[n].arr = InitNode[m].arr => InitNode[n].arr = NilArray \/ SameText(n, m)

\* What makes the protocol sound, and what the code leaves to its caller: nodes
\* that share a slot array share the mutex that guards their cursors.
MutexPerArray ==
    \A n, m \in Nodes \ Copies :
        InitNode[n].arr = InitNode[m].arr =>
            InitNode[n].arr = NilArray \/ MutexOf[n] = MutexOf[m]

VARIABLES
    node, cell, mu,     \* the heap: node fields, child slots, mutex pointers
    readers, writer,    \* per RWMutex: who holds it to read; who locks it
    pc, mode, call,     \* per reader: where it stands in which API and call
    cur, idx, stack,    \* the node being read, the next child, the callers' loops
    ptr                 \* the pointer the last Get, Index or Next returned

heap  == <<node, cell, mu>>
locks == <<readers, writer>>
frame == <<mode, call, cur, idx, stack, ptr>>
vars  == <<heap, locks, pc, frame>>

Settled(n) == ~node[n].raw /\ node[n].pos = 0
Slot(n, i) == cell[node[n].arr][i]

TypeOK ==
    /\ node \in [Nodes -> NodeRecord]
    /\ cell \in [Backings -> [Slots -> Nodes \cup {Nil}]]
    /\ mu \in [Nodes -> Mutexes \cup {NoMutex}]
    /\ readers \in [Mutexes -> SUBSET Goroutines]
    /\ writer \in [Mutexes -> Goroutines \cup {None}]
    /\ pc \in [Goroutines -> {"idle", "rlock", "rheld", "lock", "drain", "locked", "use"}]
    /\ mode \in [Goroutines -> Modes]
    /\ call \in [Goroutines -> Calls]
    /\ cur \in [Goroutines -> Nodes]
    /\ idx \in [Goroutines -> 1..(MaxKids + 1)]
    /\ stack \in [Goroutines -> Seq(Nodes \X (1..MaxKids))]
    /\ ptr \in [Goroutines -> Nodes]

Init ==
    /\ node = InitNode /\ cell = InitCell /\ mu = MutexOf
    /\ readers = [m \in Mutexes |-> {}]
    /\ writer = [m \in Mutexes |-> None]
    /\ pc = [g \in Goroutines |-> "idle"]
    /\ mode = [g \in Goroutines |-> "type"]
    /\ call = [g \in Goroutines |-> "check"]
    /\ idx = [g \in Goroutines |-> 1]
    /\ stack = [g \in Goroutines |-> <<>>]
    /\ \E r \in Roots : cur = [g \in Goroutines |-> r] /\ ptr = cur

-----------------------------------------------------------------------------
(* Control: which call follows which, and how a reader moves on.           *)

\* The call each API makes after a call that succeeded; "use" is the unlocked
\* use of the node, "leave" the end of the visit.
After(m, c) ==
    CASE c = "check" /\ m \in {"get", "value"} -> "ensure"
      [] c = "check" /\ m = "json"             -> "finish"
      [] c = "ensure" /\ m \in {"get", "each"} -> "use"
      [] c = "ensure" /\ m = "value"           -> "finish"
      [] c = "finish" /\ m = "value"           -> "use"
      [] c = "finish" /\ m = "json"            -> "peek"
      [] OTHER                                 -> "leave"

FirstCall(m) ==
    CASE m \in {"type", "get"}   -> "check"
      [] m \in {"each", "value"} -> "ensure"
      [] m = "json"              -> "finish"
      [] m = "copy"              -> "snapshot"

\* The API returns pointer p; its locals are gone.
Return(g, p) ==
    /\ pc' = [pc EXCEPT ![g] = "idle"]
    /\ mode' = [mode EXCEPT ![g] = "type"]
    /\ call' = [call EXCEPT ![g] = "check"]
    /\ cur' = [cur EXCEPT ![g] = p]
    /\ idx' = [idx EXCEPT ![g] = 1]
    /\ stack' = [stack EXCEPT ![g] = <<>>]
    /\ ptr' = [ptr EXCEPT ![g] = p]

\* An error returns through every caller.
Fail(g) == Return(g, ptr[g])

\* The visit of cur[g] ends: back to the caller's loop over its children.
Leave(g) ==
    IF stack[g] = <<>>
    THEN Return(g, ptr[g])
    ELSE LET top == Head(stack[g]) IN
         /\ pc' = [pc EXCEPT ![g] = "use"]
         /\ cur' = [cur EXCEPT ![g] = top[1]]
         /\ idx' = [idx EXCEPT ![g] = top[2] + 1]
         /\ stack' = [stack EXCEPT ![g] = Tail(@)]
         /\ UNCHANGED <<mode, call, ptr>>

Proceed(g) ==
    LET next == After(mode[g], call[g]) IN
    \/ /\ next = "leave"
       /\ Leave(g)
    \/ /\ next = "use"
       /\ pc' = [pc EXCEPT ![g] = "use"]
       /\ UNCHANGED frame
    \/ /\ next \in Calls
       /\ pc' = [pc EXCEPT ![g] = "rlock"]
       /\ call' = [call EXCEPT ![g] = next]
       /\ UNCHANGED <<mode, cur, idx, stack, ptr>>

\* An idle goroutine calls a read API on a node it has a pointer to.
Start(g, n, m) ==
    /\ pc[g] = "idle"
    /\ n \in Roots \cup {ptr[g]}
    /\ m = "copy" => \E d \in Copies : Owner[d] = g /\ CopyOf[d] = n /\ mu[d] = NoMutex
    /\ pc' = [pc EXCEPT ![g] = "rlock"]
    /\ mode' = [mode EXCEPT ![g] = m]
    /\ call' = [call EXCEPT ![g] = FirstCall(m)]
    /\ cur' = [cur EXCEPT ![g] = n]
    /\ ptr' = [ptr EXCEPT ![g] = n]
    /\ UNCHANGED <<heap, locks, idx, stack>>

-----------------------------------------------------------------------------
(* sync.RWMutex.  A Lock that waits for readers to drain already keeps new  *)
(* readers out, which is why a reader must never hold a lock while it takes *)
(* another: the second may be the same mutex.                               *)

RLock(g) ==
    LET m == mu[cur[g]] IN
    /\ pc[g] = "rlock"
    /\ writer[m] = None
    /\ readers' = [readers EXCEPT ![m] = @ \cup {g}]
    /\ pc' = [pc EXCEPT ![g] = "rheld"]
    /\ UNCHANGED <<heap, writer, frame>>

RUnlock(g) ==
    LET m == mu[cur[g]] IN
    /\ readers' = [readers EXCEPT ![m] = @ \ {g}]
    /\ UNCHANGED writer

LockAnnounce(g) ==
    LET m == mu[cur[g]] IN
    /\ pc[g] = "lock"
    /\ writer[m] = None
    /\ writer' = [writer EXCEPT ![m] = g]
    /\ pc' = [pc EXCEPT ![g] = "drain"]
    /\ UNCHANGED <<heap, readers, frame>>

LockAcquire(g) ==
    /\ pc[g] = "drain"
    /\ readers[mu[cur[g]]] = {}
    /\ pc' = [pc EXCEPT ![g] = "locked"]
    /\ UNCHANGED <<heap, locks, frame>>

-----------------------------------------------------------------------------
(* The calls.  What a call reads while it holds the read lock and its       *)
(* RUnlock are one step: nobody writes meanwhile.                           *)

\* Check, TypeSafe, Exists, Valid.  A container's loop skips an error child
\* (Exists is false); serialisation looks at V_NONE only and goes on.
CheckNode(g) ==
    /\ pc[g] = "rheld" /\ call[g] = "check"
    /\ RUnlock(g)
    /\ IF node[cur[g]].err /\ mode[g] \in {"get", "value"}
       THEN IF mode[g] = "get" THEN Fail(g) ELSE Leave(g)
       ELSE Proceed(g)
    /\ UNCHANGED heap

\* Plausible defects of the fast path of ensureLoaded: it forgets the cursor.
InitialisedBug(n) == ~node[n].raw
\* The fast path of ensureLoaded.
Initialised(n) == ~node[n].raw /\ node[n].pos = 0

EnsureLoaded(g) ==
    /\ pc[g] = "rheld" /\ call[g] = "ensure"
    /\ RUnlock(g)
    /\ IF ~Initialised(cur[g])
       THEN pc' = [pc EXCEPT ![g] = "lock"] /\ UNCHANGED frame
       ELSE IF node[cur[g]].err THEN Fail(g) ELSE Proceed(g)
    /\ UNCHANGED heap

FinishLazy(g) ==
    /\ pc[g] = "rheld" /\ call[g] = "finish"
    /\ RUnlock(g)
    /\ IF node[cur[g]].pos # 0
       THEN pc' = [pc EXCEPT ![g] = "lock"] /\ UNCHANGED frame
       ELSE IF node[cur[g]].err THEN Fail(g) ELSE Proceed(g)
    /\ UNCHANGED heap

\* A defect of peekRaw: the read lock is kept while the children are visited.
PeekUnlockBug(g) ==
    IF node[cur[g]].raw THEN RUnlock(g) ELSE UNCHANGED locks
PeekUnlock(g) == RUnlock(g)

\* Raw, MarshalJSON, appendNodeJSON: an untouched raw node is copied as it is;
\* any other node is serialised after the lock is released.
PeekRaw(g) ==
    /\ pc[g] = "rheld" /\ call[g] = "peek"
    /\ PeekUnlock(g)
    /\ IF node[cur[g]].raw
       THEN Leave(g)
       ELSE pc' = [pc EXCEPT ![g] = "use"] /\ UNCHANGED frame
    /\ UNCHANGED heap

\* snapshot: the iterator's Next and ArrayUseNode copy a child, mutex included.
Snapshot(g) ==
    /\ pc[g] = "rheld" /\ call[g] = "snapshot"
    /\ RUnlock(g)
    /\ \E d \in Copies :
         /\ Owner[d] = g /\ CopyOf[d] = cur[g] /\ mu[d] = NoMutex
         /\ node' = [node EXCEPT ![d] = node[cur[g]]]
         /\ mu' = [mu EXCEPT ![d] = mu[cur[g]]]
         /\ Return(g, d)
    /\ UNCHANGED cell

-----------------------------------------------------------------------------
(* Under the write lock.                                                    *)

Failed(r) == [raw |-> FALSE, err |-> TRUE, pos |-> 0, arr |-> r.arr, len |-> r.len]

\* A defect of materializeUnlocked: no second look at the node once locked.
StillRawBug(n) == node[n].pos = 0 /\ ~node[n].err
\* materializeUnlocked checks again, under the lock, that the node is raw.
StillRaw(n) == node[n].raw

\* materializeUnlocked: a scalar is parsed, a container starts at its first
\* child.
Materialize(g) ==
    LET n == cur[g] IN
    /\ pc[g] = "locked" /\ call[g] = "ensure"
    /\ StillRaw(n)
    /\ node' = [node EXCEPT ![n] =
                  IF n \in Scalars
                  THEN IF ErrAt[n] # 0 THEN Failed(@) ELSE [@ EXCEPT !.raw = FALSE]
                  ELSE [@ EXCEPT !.raw = FALSE, !.pos = 1]]
    /\ UNCHANGED <<cell, mu, locks, pc, frame>>

\* A defect of loadNext: a slot a copy has already filled is filled again.
FillSlotBug(old, kid) == kid
\* A slot that a copy has already exposed is reused.
FillSlot(old, kid) == IF old = Nil THEN kid ELSE old

\* A defect of loadNext: the last child is taken for the end of the container.
NextPosBug(n, k) == IF k + 1 >= Len(Kids[n]) THEN 0 ELSE k + 1
\* The cursor after child k; the last child closes the container.
NextPos(n, k) == IF k >= Len(Kids[n]) THEN 0 ELSE k + 1

\* Node n once child s stands in slot s of array a.
Appended(n, a, s) == [raw |-> FALSE, err |-> FALSE, pos |-> NextPos(n, s), arr |-> a, len |-> s]

\* loadNext: one child is sliced off the text and appended.  append writes the
\* shared array while it has capacity and otherwise moves to a new array.
LoadNext(g) ==
    LET n == cur[g]
        r == node[n]
        s == r.len + 1
    IN
    /\ pc[g] = "locked" /\ r.pos # 0
    /\ \/ /\ ErrAt[n] = r.pos
          /\ node' = [node EXCEPT ![n] = Failed(r)]
          /\ UNCHANGED cell
       \/ /\ ErrAt[n] # r.pos /\ Kids[n] = <<>>
          /\ node' = [node EXCEPT ![n] = [r EXCEPT !.pos = 0]]
          /\ UNCHANGED cell
       \/ /\ ErrAt[n] # r.pos /\ Kids[n] # <<>> /\ s <= Cap[r.arr]
          /\ cell' = [cell EXCEPT ![r.arr][s] = FillSlot(@, Kids[n][r.pos])]
          /\ node' = [node EXCEPT ![n] = Appended(n, r.arr, s)]
       \/ /\ ErrAt[n] # r.pos /\ Kids[n] # <<>> /\ s > Cap[r.arr]
          /\ cell' = [cell EXCEPT ![Own[n]] =
                        [i \in Slots |-> IF i < s THEN cell[r.arr][i]
                                         ELSE IF i = s THEN Kids[n][r.pos] ELSE Nil]]
          /\ node' = [node EXCEPT ![n] = Appended(n, Own[n], s)]
    /\ UNCHANGED <<mu, locks, pc, frame>>

\* A defect of materializeUnlocked: the children are left for later.
LoadedBug(n) == ~node[n].raw
\* The lock is released when the whole node is loaded.
Loaded(n) == node[n].pos = 0

Unlock(g) ==
    /\ pc[g] = "locked" /\ Loaded(cur[g])
    /\ call[g] = "ensure" => ~StillRaw(cur[g])
    /\ writer' = [writer EXCEPT ![mu[cur[g]]] = None]
    /\ IF node[cur[g]].err THEN Fail(g) ELSE Proceed(g)
    /\ UNCHANGED <<heap, readers>>

-----------------------------------------------------------------------------
(* The unlocked use of a node that ensureLoaded or finishLazy has prepared. *)

GetRange(n) == 1..node[n].len

\* Get, Index: a pointer to a child slot, or nothing.
UseGet(g) ==
    /\ pc[g] = "use" /\ mode[g] = "get"
    /\ \/ \E i \in GetRange(cur[g]) : Return(g, Slot(cur[g], i))
       \/ Return(g, ptr[g])
    /\ UNCHANGED <<heap, locks>>

\* ForEach, Interface, serialisation: the next child of the loop.
UseVisit(g) ==
    LET n == cur[g] IN
    /\ pc[g] = "use" /\ mode[g] # "get"
    /\ ~node[n].err /\ idx[g] <= node[n].len
    /\ stack' = [stack EXCEPT ![g] = <<<<n, idx[g]>>>> \o @]
    /\ cur' = [cur EXCEPT ![g] = Slot(n, idx[g])]
    /\ idx' = [idx EXCEPT ![g] = 1]
    /\ call' = [call EXCEPT ![g] = "check"]
    /\ pc' = [pc EXCEPT ![g] = "rlock"]
    /\ UNCHANGED <<heap, locks, mode, ptr>>

UseLeave(g) ==
    /\ pc[g] = "use" /\ mode[g] # "get"
    /\ ~node[cur[g]].err /\ idx[g] > node[cur[g]].len
    /\ Leave(g)
    /\ UNCHANGED <<heap, locks>>

\* Another reader found the error between finishLazy and the unlocked use.
UseError(g) ==
    /\ pc[g] = "use" /\ mode[g] # "get"
    /\ node[cur[g]].err
    /\ Fail(g)
    /\ UNCHANGED <<heap, locks>>

Step(g) ==
    \/ RLock(g) \/ LockAnnounce(g) \/ LockAcquire(g)
    \/ CheckNode(g) \/ EnsureLoaded(g) \/ FinishLazy(g) \/ PeekRaw(g) \/ Snapshot(g)
    \/ Materialize(g) \/ LoadNext(g) \/ Unlock(g)
    \/ UseGet(g) \/ UseVisit(g) \/ UseLeave(g) \/ UseError(g)

Next == \E g \in Goroutines : Step(g) \/ \E n \in Nodes, m \in APIs : Start(g, n, m)

Spec == Init /\ [][Next]_vars

\* Go schedules every runnable goroutine again and again; nobody is obliged to
\* call a read API.
FairSpec == Spec /\ \A g \in Goroutines : WF_vars(Step(g))
-----------------------------------------------------------------------------
(* Properties.                                                              *)

\* The memory a goroutine touches in its next step.
FieldsRead(g) ==
    IF pc[g] \in {"rheld", "locked", "use"} THEN {cur[g]} ELSE {}
FieldsWritten(g) ==
    IF pc[g] = "locked" /\ ~Settled(cur[g]) THEN {cur[g]} ELSE {}
SlotsRead(g) ==
    LET r == node[cur[g]] IN
    IF pc[g] = "use" \/ (pc[g] = "locked" /\ r.pos # 0)
    THEN {r.arr} \X (1..r.len) ELSE {}
SlotsWritten(g) ==
    LET r == node[cur[g]] IN
    IF pc[g] = "locked" /\ r.pos # 0 /\ Kids[cur[g]] # <<>> /\ r.len < Cap[r.arr]
    THEN IF cell[r.arr][r.len + 1] = Nil THEN {<<r.arr, r.len + 1>>} ELSE {}
    ELSE {}

\* No data race: while one goroutine writes a node's fields or a child slot,
\* under whatever lock, no other goroutine reads or writes the same memory.
\* The readers of lazy.go:9 rely on it: after ensureLoaded they take no lock.
NoDataRace ==
    \A g, h \in Goroutines : g # h =>
        /\ FieldsWritten(g) \cap (FieldsRead(h) \cup FieldsWritten(h)) = {}
        /\ SlotsWritten(g) \cap (SlotsRead(h) \cup SlotsWritten(h)) = {}

\* What an unlocked reader sees of node n: an error node, or every child of
\* its text, in order, whichever copy sliced it first; never a prefix.
WholeValue(n) ==
    /\ Settled(n)
    /\ IF node[n].err THEN ErrAt[n] # 0
       ELSE /\ ErrAt[n] = 0
            /\ node[n].len = Len(Kids[n])
            /\ Holds(node[n].arr, node[n].len, n, cell)

\* Unlocked uses (node.go:899, 938, 1203, 1871) and the loops of the callers
\* that wait on a child only ever see whole values.
ReadersSeeWholeValues ==
    \A g \in Goroutines :
        /\ pc[g] = "use" => WholeValue(cur[g])
        /\ \A i \in 1..Len(stack[g]) : WholeValue(stack[g][i][1]) /\ ~node[stack[g][i][1]].err

\* Once a published node is settled nothing a reader does changes its fields
\* or the child pointers it exposes, although copies of the node still load
\* their own cursor through the same slot array.
SettledNodesAreFrozen ==
    [][\A n \in Nodes : mu[n] # NoMutex /\ Settled(n) =>
          /\ node'[n] = node[n]
          /\ \A i \in 1..node[n].len : Slot(n, i)' = Slot(n, i)]_vars

\* A child pointer in a slot is never replaced: a pointer Get returned and the
\* slot a copy exposes later are the same Node (lazy.go:107).
SlotsAreWrittenOnce ==
    [][\A b \in Backings, i \in Slots : cell[b][i] # Nil => cell'[b][i] = cell[b][i]]_vars

\* A goroutine about to take a lock holds none: a copy shares its mutex with
\* the node it was taken from, which may be its own ancestor, and a reader
\* that waits behind a waiting writer while it holds the lock never wakes.
NoLockWhileAcquiring ==
    \A g \in Goroutines : pc[g] \in {"idle", "rlock", "lock", "use"} =>
        \A m \in Mutexes : g \notin readers[m] /\ writer[m] # g

\* Every read API returns, whatever the other readers do.
EveryCallReturns == \A g \in Goroutines : pc[g] # "idle" ~> pc[g] = "idle"

-----------------------------------------------------------------------------
(* The inductive invariant behind the safety properties.                    *)

\* Which calls each API makes.
Program(m) ==
    CASE m = "type"  -> {"check"}
      [] m = "get"   -> {"check", "ensure"}
      [] m = "each"  -> {"ensure", "check"}
      [] m = "value" -> {"check", "ensure", "finish"}
      [] m = "json"  -> {"check", "finish", "peek"}
      [] m = "copy"  -> {"snapshot"}

HeapOK ==
    /\ \A n \in Nodes :
         /\ NodeOK(n, node[n], cell)
         /\ node[n].arr # Own[n] => \A i \in Slots : cell[Own[n]][i] = Nil
         /\ n \notin Copies => mu[n] = MutexOf[n]
         /\ mu[n] = NoMutex => node[n].raw
    /\ \A n, m \in Nodes :
         /\ node[m].arr = Own[n] => node[n].arr = Own[n]
         /\ node[n].arr = node[m].arr =>
              node[n].arr = NilArray \/ (SameText(n, m) /\ mu[n] = mu[m])
    /\ \A b \in Backings, i \in Slots : cell[b][i] \notin Copies

LockOK ==
    /\ \A g \in Goroutines, m \in Mutexes :
         /\ g \in readers[m] <=> pc[g] = "rheld" /\ mu[cur[g]] = m
         /\ writer[m] = g <=> pc[g] \in {"drain", "locked"} /\ mu[cur[g]] = m
    /\ \A g \in Goroutines : pc[g] = "locked" => readers[mu[cur[g]]] = {}

\* Some goroutine is loading node n.
InFlight(n) == \E h \in Goroutines : pc[h] = "locked" /\ cur[h] = n

\* The loops that wait on a child all range over settled nodes.
StackOK(g) ==
    \A i \in 1..Len(stack[g]) : LET n == stack[g][i][1] IN
        mu[n] # NoMutex /\ Settled(n) /\ ~node[n].err /\ stack[g][i][2] <= node[n].len

LocalOK(g) ==
    /\ mu[cur[g]] # NoMutex /\ mu[ptr[g]] # NoMutex
    /\ pc[g] # "idle" => call[g] \in Program(mode[g])
    /\ pc[g] \in {"lock", "drain", "locked"} =>
         call[g] = "ensure" \/ (call[g] = "finish" /\ ~node[cur[g]].raw)
    /\ pc[g] = "use" => Settled(cur[g]) /\ mode[g] # "copy"
    /\ pc[g] = "idle" \/ mode[g] = "copy" => stack[g] = <<>>
    /\ pc[g] # "idle" /\ mode[g] = "value" /\ call[g] = "finish" => Settled(cur[g])
    /\ pc[g] \in {"rlock", "rheld"} /\ call[g] = "peek" =>
         node[cur[g]].raw \/ Settled(cur[g]) \/ InFlight(cur[g])
    /\ StackOK(g)

\* The inductive invariant.  With LockOK a node is written only by the one
\* goroutine that has its mutex and drained its readers; LocalOK ties every
\* unlocked reader to a settled node; HeapOK says that whoever shares a slot
\* array with a node shares its mutex and its text.
IndInv == TypeOK /\ HeapOK /\ LockOK /\ \A g \in Goroutines : LocalOK(g)

-----------------------------------------------------------------------------
\* The value of each node as its readers may observe it: unresolved, then once
\* and for all the children of its text, or an error.
NodeValue ==
    [n \in Nodes |->
        IF mu[n] = NoMutex THEN "absent"
        ELSE IF ~Settled(n) THEN "lazy"
        ELSE IF node[n].err THEN "error" ELSE "loaded"]
ChildTexts ==
    [n \in Nodes |-> IF NodeValue[n] = "loaded"
                     THEN [i \in 1..node[n].len |-> Text[Slot(n, i)]] ELSE <<>>]

\* The locking protocol implements nodes whose value is computed once,
\* atomically, from their text alone (ASTNodeValue).
Value == INSTANCE ASTNodeValue WITH
    status <- NodeValue, children <- ChildTexts,
    TextsOf <- [n \in Nodes |-> [i \in 1..Len(Kids[n]) |-> Text[Kids[n][i]]]],
    Bad <- {n \in Nodes : ErrAt[n] # 0}
ImplementsNodeValue == Value!Spec
=============================================================================
