------------------------------ MODULE ASTReadHeaps ------------------------------
(* Heaps of lazy nodes for the runs of ASTConcurrentRead, as small as the   *)
(* hazard each is about allows.                                             *)
EXTENDS Naturals, Sequences, TLC

NoArray == <<"nil", "array">>

\* Every node is raw unless it is listed; own mutex, own slot array.
Raw0(n) == [raw |-> TRUE, err |-> FALSE, pos |-> 0, arr |-> NoArray, len |-> 0]
Loaded0(n) == [Raw0(n) EXCEPT !.raw = FALSE]
OwnArrays(nodes) == {NoArray} \cup {<<"own", n>> : n \in nodes}
OwnOf(nodes) == [n \in nodes |-> <<"own", n>>]
Empty(k) == [i \in 1..k |-> "nil"]

\* "Halfway": [1,2,3,4] was read up to its third element before Load of its
\* parent gave it a mutex; a reader copies it while it is in that state.  Go's
\* append left room for one more slot in the array the copies then share.
HNodes == {"p", "q", "c1", "c2", "c3", "p4", "q4"}
HScalars == HNodes \ {"p", "q"}
HKids == [n \in HNodes |-> IF n = "p" THEN <<"c1", "c2", "c3", "p4">>
                           ELSE IF n = "q" THEN <<"c1", "c2", "c3", "q4">> ELSE <<>>]
HText == [n \in HNodes |-> IF n = "q" THEN "p" ELSE IF n = "q4" THEN "p4" ELSE n]
HErrAt == [n \in HNodes |-> 0]
HShared == <<"shared", "p">>
HBackings == OwnArrays(HNodes) \cup {HShared}
HCap == [b \in HBackings |-> IF b = NoArray THEN 0 ELSE 4]
HMutexOf == [n \in HNodes |-> IF n = "q" THEN "nomutex" ELSE n]
HInitNode == [n \in HNodes |->
                IF n = "p"
                THEN [raw |-> FALSE, err |-> FALSE, pos |-> 4, arr |-> HShared, len |-> 3]
                ELSE IF n \in {"c1", "c2", "c3"} THEN Loaded0(n) ELSE Raw0(n)]
HInitCell == [b \in HBackings |-> IF b = HShared THEN <<"c1", "c2", "c3", "nil">> ELSE Empty(4)]
HOwn == OwnOf(HNodes)
HCopyOf == [d \in {"q"} |-> "p"]
HOwner == [d \in {"q"} |-> "g1"]

\* "Malformed": an array read up to its first element and then loaded; append
\* moves it to a new array when its second element is sliced off.  That element
\* is a container with a malformed tail.
FNodes == {"r", "a", "b", "b1", "b2"}
FScalars == {"a", "b1", "b2"}
FKids == [n \in FNodes |-> IF n = "r" THEN <<"a", "b">> ELSE IF n = "b" THEN <<"b1", "b2">> ELSE <<>>]
FText == [n \in FNodes |-> n]
FErrAt == [n \in FNodes |-> IF n = "b" THEN 2 ELSE 0]
FShared == <<"shared", "r">>
FBackings == OwnArrays(FNodes) \cup {FShared}
FCap == [b \in FBackings |-> IF b = NoArray THEN 0 ELSE IF b = FShared THEN 1 ELSE 4]
FMutexOf == [n \in FNodes |-> n]
FInitNode == [n \in FNodes |->
                IF n = "r"
                THEN [raw |-> FALSE, err |-> FALSE, pos |-> 2, arr |-> FShared, len |-> 1]
                ELSE Raw0(n)]
FInitCell == [b \in FBackings |-> IF b = FShared THEN <<"a", "nil", "nil", "nil">> ELSE Empty(4)]
FOwn == OwnOf(FNodes)

\* "Nested": n.Add(*n) put a raw copy of a node, mutex included, among its own
\* children; it is empty.
SNodes == {"n", "c", "s"}
SScalars == {"c"}
SKids == [n \in SNodes |-> IF n = "n" THEN <<"c", "s">> ELSE <<>>]
SText == [n \in SNodes |-> n]
SErrAt == [n \in SNodes |-> 0]
SBackings == OwnArrays(SNodes)
SCap == [b \in SBackings |-> IF b = NoArray THEN 0 ELSE 4]
SMutexOf == [n \in SNodes |-> IF n = "s" THEN "n" ELSE n]
SInitNode == [n \in SNodes |-> IF n = "n" THEN [Loaded0(n) EXCEPT !.arr = <<"own", "n">>, !.len = 2] ELSE Raw0(n)]
SInitCell == [b \in SBackings |-> IF b = <<"own", "n">> THEN <<"c", "s", "nil", "nil">> ELSE Empty(4)]
SOwn == OwnOf(SNodes)

NoFunction == [d \in {} |-> d]

\* The three together; the readers of one behaviour stay on one of them.
Heaps == {HNodes, FNodes, SNodes}
AllNodes == UNION Heaps
AllRoots == {"p", "r", "n"}
AllScalars == HScalars \cup FScalars \cup SScalars
AllKids == HKids @@ FKids @@ SKids
AllText == HText @@ FText @@ SText
AllErrAt == HErrAt @@ FErrAt @@ SErrAt
AllBackings == HBackings \cup FBackings \cup SBackings
AllCap == HCap @@ FCap @@ SCap
AllMutexOf == HMutexOf @@ FMutexOf @@ SMutexOf
AllInitNode == HInitNode @@ FInitNode @@ SInitNode
AllInitCell == HInitCell @@ FInitCell @@ SInitCell
AllOwn == HOwn @@ FOwn @@ SOwn
=============================================================================
