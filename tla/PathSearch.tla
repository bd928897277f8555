-------------------------------- MODULE PathSearch --------------------------------
(***************************************************************************)
(* Searcher.GetByPath (src/ast/search.go): the value at a path of keys and  *)
(* indices, found in the text without parsing what does not lie on the      *)
(* path.  Values before the target are skipped (containers by their         *)
(* brackets alone), the target is scanned, and a key that cannot be decoded *)
(* cheaply makes the search start over on a tree of the whole text          *)
(* (src/ast/localparser.go).                                                *)
(***************************************************************************)
EXTENDS JSONText, Integers

CONSTANTS
    Texts, Paths,   \* what is searched, and for what: sequences of steps
    AnyString,      \* the string tokens, decodable or not
    Fast,           \* the keys that encoding/json decodes
    Decodable,      \* the strings that the local parser decodes
    MaxDepth        \* maxScanDepth, maxParseDepth

ASSUME SearchAssumption ==
    /\ Fast \subseteq Decodable /\ Decodable \subseteq AnyString
    /\ MaxDepth \in Nat

VARIABLES
    src, path, validate,  \* the text, the path, ValidateJSON
    phase,    \* "enter" a container, at a "member" or an "element", or "done"
    step,     \* the current step of the path
    pos,      \* the next token
    nth,      \* elements passed in the current array
    result    \* [status, from, to]: the raw text [from, to) once it is found

vars == <<src, path, validate, phase, step, pos, nth, result>>
input == <<src, path, validate>>

\* A step of a path: a string, an int (an int64 or a json.Number is one or the
\* other), or something else.
KeyStep(k) == [kind |-> "key", key |-> k, at |-> 0]
IndexStep(i) == [kind |-> "index", key |-> "", at |-> i]
OtherStep == [kind |-> "other", key |-> "", at |-> 0]

NoResult == [status |-> "searching", from |-> 0, to |-> 0]

Init ==
    /\ src \in Texts /\ path \in Paths /\ validate \in BOOLEAN
    /\ phase = "enter" /\ step = 1 /\ pos = 1 /\ nth = 0
    /\ result = NoResult

At(i) == IF i <= Len(src) THEN src[i] ELSE "end"
Closer(opener) == IF opener = "[" THEN "]" ELSE "}"

-----------------------------------------------------------------------------------
(* The scanners: the position behind the value at position i, 0 if there is none.  *)

\* The recursive descent that the scanner of the target and the local parser share:
\* e["value", i, d] scans a value inside d containers, e["items", i, d] and
\* e["members", i, d] the rest of a container from its next item on.
Descent(strings) ==
    LET e[c \in {"value", "items", "members"}, i \in Nat, d \in Nat] ==
          LET more(after, closer) ==
                IF after = 0 THEN 0
                ELSE IF At(after) = "," THEN e[c, after + 1, d]
                ELSE IF At(after) = closer THEN after + 1 ELSE 0
          IN CASE c = "value" ->
                    IF d > MaxDepth THEN 0
                    ELSE IF At(i) \in strings \cup Scalars THEN i + 1
                    ELSE IF At(i) \notin Openers THEN 0
                    ELSE IF At(i + 1) = Closer(At(i)) THEN i + 2
                    ELSE e[IF At(i) = "[" THEN "items" ELSE "members", i + 1, d + 1]
               [] c = "items" -> more(e["value", i, d], "]")
               [] c = "members" ->
                    IF At(i) \in strings /\ At(i + 1) = ":" THEN more(e["value", i + 2, d], "}") ELSE 0
    IN e

\* scanValueEndString at depth 0: strings are not decoded.
ValueEnd(i) == Descent(AnyString)["value", i, 0]

\* parseValue of the local parser at depth 0: every string is decoded.
LocalEnd(i) == Descent(Decodable)["value", i, 0]

\* A defect of scanContainerEnd: brackets are counted, not matched.
MatchesBug(closer, expected) == TRUE
Matches(closer, expected) == closer = expected

\* scanContainerEnd: only the brackets are looked at; expects[j] are those still
\* expected behind token j, the next first.
ContainerEnd(i) ==
    LET expects[j \in i..Len(src)] ==
          IF j = i THEN <<Closer(src[i])>>
          ELSE LET s == expects[j - 1] IN
               IF s = <<>> \/ src[j] \notin Openers \cup Closers THEN s
               ELSE IF src[j] \in Openers THEN <<Closer(src[j])>> \o s
               ELSE IF Matches(src[j], Head(s)) THEN Tail(s) ELSE <<"mismatch">>
        ends == {j \in i..Len(src) : expects[j] = <<>>}
    IN IF ends = {} THEN 0 ELSE (CHOOSE j \in ends : \A k \in ends : j <= k) + 1

\* scanPreTargetValueEndString.
PreTargetEnd(i) == IF At(i) \in Openers THEN ContainerEnd(i) ELSE ValueEnd(i)

-----------------------------------------------------------------------------------
(* The tree: Node.Get and Node.Index, after the local parser or on a lazy node.    *)

\* The positions of the children of the container at i, which the scanner e accepts.
Children(e, i) ==
    LET first == IF src[i] = "[" THEN 1 ELSE 3
        upTo[n \in 0..Len(src)] ==
          IF n = 0 THEN IF At(i + 1) = Closer(src[i]) THEN <<>> ELSE <<i + first>>
          ELSE LET s == upTo[n - 1]
                   after == IF s = <<>> THEN 0 ELSE e["value", s[Len(s)], 0]
               IN IF s # <<>> /\ At(after) = "," THEN Append(s, after + first) ELSE s
    IN upTo[Len(src)]

\* A defect of Get: the last of several members with one key.
ChosenBug(kids) == CHOOSE k \in kids : \A j \in kids : j <= k
\* Get finds the first of several members with one key.
Chosen(kids) == CHOOSE k \in kids : \A j \in kids : k <= j

\* The position of the child that step s selects in the container at i, 0 if none:
\* Index also counts the members of an object.
Child(e, i, s) ==
    IF i = 0 \/ s.kind = "other" THEN 0
    ELSE IF src[i] \notin Openers THEN 0
    ELSE LET kids == Children(e, i)
             named == {k \in DOMAIN kids : src[i] = "{" /\ src[kids[k] - 2] = s.key}
         IN IF s.kind = "key" THEN IF named = {} THEN 0 ELSE kids[Chosen(named)]
            ELSE IF s.at + 1 \in DOMAIN kids THEN kids[s.at + 1] ELSE 0

\* Node.GetByPath from the value at position 1.
Walk(e) ==
    LET w[k \in 0..Len(path)] == IF k = 0 THEN 1 ELSE Child(e, w[k - 1], path[k])
    IN w[Len(path)]

-----------------------------------------------------------------------------------

Finish(status, from, to) ==
    /\ result' = [status |-> status, from |-> from, to |-> to]
    /\ phase' = "done"
    /\ UNCHANGED <<step, pos, nth>>
Missing == Finish("missing", 0, 0)
Malformed == Finish("invalid", 0, 0)

\* rawPathNoFast: the local parser takes the whole text, and the path is walked
\* on its tree.
Fallback ==
    LET at == Walk(Descent(Decodable)) IN
    IF LocalEnd(1) # Len(src) + 1 THEN Malformed
    ELSE IF \E k \in DOMAIN path :
              /\ path[k].kind = "other"
              /\ LET before[j \in 0..(k - 1)] ==
                       IF j = 0 THEN 1 ELSE Child(Descent(Decodable), before[j - 1], path[j])
                 IN before[k - 1] # 0
    THEN Finish("unsupported", 0, 0)
    ELSE IF at = 0 THEN Missing ELSE Finish("found", at, Descent(Decodable)["value", at, 0])

\* The next step is taken from the value at i.
Arrive(i) ==
    /\ step' = step + 1 /\ pos' = i /\ nth' = 0 /\ phase' = "enter"
    /\ UNCHANGED result

\* The value at i does not lie on the path; what follows it?
Pass(i, closer) ==
    LET after == PreTargetEnd(i) IN
    IF after = 0 THEN Malformed
    ELSE IF At(after) = closer THEN Missing
    ELSE IF At(after) # "," THEN Malformed
    ELSE pos' = after + 1 /\ nth' = nth + 1 /\ UNCHANGED <<phase, step, result>>

Entering == phase = "enter" /\ step <= Len(path)

\* Into the container that the step needs, if the value is one and not empty.
Into(opener, next) ==
    IF At(pos) # opener \/ At(pos + 1) = Closer(opener) THEN Missing
    ELSE pos' = pos + 1 /\ nth' = 0 /\ phase' = next /\ UNCHANGED <<step, result>>

\* A text without a value.
Empty ==
    /\ phase = "enter" /\ src = <<>>
    /\ Malformed

EnterObject ==
    /\ Entering /\ src # <<>> /\ path[step].kind = "key"
    /\ Into("{", "member")

EnterArray ==
    /\ Entering /\ src # <<>> /\ path[step].kind = "index"
    /\ IF path[step].at < 0 THEN Missing ELSE Into("[", "element")

Unsupported ==
    /\ Entering /\ src # <<>> /\ path[step].kind = "other"
    /\ Fallback

\* findObjectValueStartString: one turn of its loop.
Member ==
    /\ phase = "member"
    /\ IF At(pos) \notin AnyString THEN Malformed
       ELSE IF At(pos) \notin Fast THEN Fallback
       ELSE IF At(pos + 1) # ":" THEN Malformed
       ELSE IF At(pos) # path[step].key THEN Pass(pos + 2, "}")
       ELSE IF pos + 2 > Len(src) THEN Malformed
       ELSE Arrive(pos + 2)

Reached == nth = path[step].at

\* findArrayValueStartString: one turn of its loop.
Element ==
    /\ phase = "element"
    /\ IF pos > Len(src) THEN Malformed
       ELSE IF Reached THEN Arrive(pos)
       ELSE Pass(pos, "]")

\* Without ValidateJSON a container is taken by its brackets.
Loose == ~validate /\ At(pos) \in Openers

\* searchValueRaw: the end of the path.
Select ==
    /\ phase = "enter" /\ src # <<>> /\ step > Len(path)
    /\ LET end == IF Loose THEN ContainerEnd(pos) ELSE ValueEnd(pos)
       IN IF end = 0 THEN Malformed ELSE Finish("found", pos, end)

Next ==
    /\ \/ Empty \/ EnterObject \/ EnterArray \/ Unsupported
       \/ Member \/ Element \/ Select
    /\ UNCHANGED input

Spec == Init /\ [][Next]_vars
-----------------------------------------------------------------------------------
(* Properties.                                                                     *)

\* The parts of the state agree.
TypeOK ==
    /\ phase \in {"enter", "member", "element", "done"}
    /\ step \in 1..(Len(path) + 1) /\ nth \in 0..Len(src)
    /\ pos \in 1..(Len(src) + 1)
    /\ phase \in {"member", "element"} =>
         step <= Len(path) /\ path[step].kind = (IF phase = "member" THEN "key" ELSE "index")
    /\ result.status \in {"searching", "found", "missing", "invalid", "unsupported"}
    /\ (phase = "done") = (result.status # "searching")

\* A text for the grammar, which knows no difference between strings.
Plain(text) ==
    LET s == CHOOSE t \in Strings : TRUE
    IN [j \in DOMAIN text |-> IF text[j] \in AnyString \ Strings THEN s ELSE text[j]]

BracketsOf(text) == SelectSeq(text, LAMBDA t : t \in Openers \cup Closers)
Balanced == UNION {{BracketsOf(v) : v \in Language[n]} : n \in 1..MaxLength}

\* "Searcher validation applies only to the selected value"
\* (docs/compatibility.md:34): with ValidateJSON what the search without a
\* tree returns is a value by the grammar, not nested too deeply, whatever
\* stands around it; without it a well-formed value is still returned whole,
\* and what is returned for a malformed one has matching brackets.
FoundIsAValue ==
    LET raw == Plain(SubSeq(src, result.from, result.to - 1))
        n == ValueLength(Plain(src), result.from)
    IN /\ TypeOK
       /\ result.status = "found" =>
            /\ validate => IsValue(raw) /\ Shallow(raw, MaxDepth)
            /\ n # 0 => Len(raw) = n
            /\ BracketsOf(raw) \in Balanced

\* What NewRaw(src).GetByPath finds: the position of a value, 0 for none.
NodeFinds ==
    IF ValueEnd(1) = 0 THEN 0 ELSE Walk(Descent(AnyString))

\* Well-formed text that is not nested too deeply, without undecodable strings,
\* and a path of keys and numbers.
Regular ==
    /\ IsValue(Plain(src)) /\ Shallow(Plain(src), MaxDepth)
    /\ \A j \in DOMAIN src : src[j] \notin AnyString \ Decodable
    /\ \A k \in DOMAIN path : path[k].kind # "other"

\* The path leads into an object by a number.
IndexesAnObject ==
    \E k \in DOMAIN path :
        LET w[j \in 0..(k - 1)] == IF j = 0 THEN 1 ELSE Child(Descent(AnyString), w[j - 1], path[j])
        IN path[k].kind = "index" /\ w[k - 1] # 0 /\ src[w[k - 1]] = "{"

\* On such text the search, which parses almost nothing, and the fallback,
\* which parses everything, find the value that walking the tree of nodes
\* finds: the first of equal keys, the same element, and nothing when that
\* finds nothing; only numbers as steps into an object are left out.
SearcherFindsWhatNodesFind ==
    result.status # "searching" /\ Regular /\ ~IndexesAnObject =>
        /\ result.status \in {"found", "missing"}
        /\ result.from = NodeFinds

\* "Both should return the same value (or both fail) for a given path"
\* (ast/fuzz_test.go:12), for every valid text and path.
SearcherAndNodesAgree ==
    result.status # "searching" /\ Regular => (result.status = "found") = (NodeFinds # 0)
===================================================================================
