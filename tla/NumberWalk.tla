-------------------------------- MODULE NumberWalk --------------------------------
(***************************************************************************)
(* numberDecoder (src/internal/jsonconv/int64.go), behind UnmarshalInt64    *)
(* and UnmarshalDynamic (dynamic.go): a valid text is decoded into a        *)
(* destination by one cursor.  A member that does not fit leaves an error   *)
(* and the walk goes on behind it; any other error ends the walk, wherever  *)
(* it is in the tree.  The calls in progress are a stack of frames.         *)
(*                                                                          *)
(* A destination's type is a record: kind, zero (its zero value), and what  *)
(* the kind needs: accepts (the tokens a scalar or a custom method takes),  *)
(* elem, size, keys (what decodes as a map key), method (keys decode        *)
(* themselves), fields.  A field has a type; quoted is its ,string option,  *)
(* broken an embedded pointer that cannot be set.  A value is a record, so  *)
(* that any two can be compared.  A slice is its array and its length: what *)
(* lies behind the length is hidden, but not gone.                          *)
(***************************************************************************)
EXTENDS JSONText, TLC

CONSTANTS
    Texts,     \* what is decoded
    Goals,     \* into what: [type, old, disallow, dynamic]
    Overflow,  \* the numbers no float64 holds
    Content    \* what a string holds: a token, or "none" if it is no JSON

Nil == [is |-> "nil", of |-> 0]
Leaf(t) == [is |-> "leaf", of |-> t]
List(s) == [is |-> "list", of |-> s]
Slice(s, n) == [is |-> "slice", of |-> s, len |-> n]
Obj(f) == [is |-> "obj", of |-> f]
Interface == [kind |-> "any", zero |-> Nil]

\* "type" is a json.UnmarshalTypeError, on which the walk goes on.
Error(kind, at) == [kind |-> kind, at |-> at]
None == Error("none", 0)

VARIABLES
    src,     \* the text
    goal,    \* one of Goals
    pos,     \* the next token
    phase,   \* what comes next: "start", a "value", the head of an "item" loop,
             \* a "separator"; "failing" while the calls return; or "done"
    frames,  \* the containers being decoded, the innermost first: [kind, type,
             \* val, i, key, at, first]
    out,     \* the destination when the walk is over
    err      \* the error then

vars == <<src, goal, pos, phase, frames, out, err>>

Init ==
    /\ src \in Texts /\ goal \in Goals
    /\ pos = 1 /\ phase = "start" /\ frames = <<>> /\ out = goal.old /\ err = None

Token == src[pos]
Top == Head(frames)

\* valueEnd: the brackets are counted, whatever their kind.
RawEnd(i) ==
    IF src[i] \notin Openers THEN i + 1
    ELSE CHOOSE j \in (i + 1)..(Len(src) + 1) :
           /\ NestedIn(src, j) = NestedIn(src, i)
           /\ \A k \in (i + 1)..(j - 1) : NestedIn(src, k) > NestedIn(src, i)

\* Where the next value goes, its type, and what is there now.
Type(fs) ==
    IF fs = <<>> THEN goal.type
    ELSE LET f == Head(fs) IN
         IF f.kind = "struct" THEN f.type.fields[f.key].type
         ELSE IF f.kind \in {"anyList", "anyObj"} THEN Interface
         ELSE f.type.elem
Slot(fs) ==
    IF fs = <<>> THEN IF goal.dynamic /\ goal.type = Interface THEN Nil ELSE goal.old
    ELSE LET f == Head(fs) IN
         CASE f.kind = "struct" -> f.val.of[f.key]
           [] f.kind \in {"slice", "array"} -> f.val.of[f.i + 1]
           [] OTHER -> Type(fs).zero

Put(f, v) ==
    CASE f.kind = "struct" -> [f EXCEPT !.val.of[f.key] = v]
      [] f.kind \in {"map", "anyObj"} -> [f EXCEPT !.val.of = (f.key :> v) @@ @]
      [] f.kind = "anyList" -> [f EXCEPT !.val.of = Append(@, v)]
      [] OTHER -> [f EXCEPT !.val.of[f.i + 1] = v, !.i = @ + 1]

\* The value for fs is v; an error on which the walk goes on is kept if it is
\* the first of its container.
KeptBug(first, e) == e
Kept(first, e) == IF first = None THEN e ELSE first
Noted(f, e) == [f EXCEPT !.first = Kept(@, e)]

Return(fs, v, e) ==
    IF fs = <<>>
    THEN phase' = "done" /\ frames' = fs /\ out' = v /\ err' = e
    ELSE /\ frames' = <<Noted(Put(Head(fs), v), e)>> \o Tail(fs)
         /\ phase' = "separator" /\ UNCHANGED <<out, err>>

\* The call for fs fails for good and has left v there.
Fail(fs, v, e) ==
    /\ err' = e
    /\ IF fs = <<>> THEN phase' = "done" /\ frames' = fs /\ out' = v
       ELSE /\ frames' = <<Put(Head(fs), v)>> \o Tail(fs)
            /\ phase' = "failing" /\ UNCHANGED out

-----------------------------------------------------------------------------------
(* UnmarshalInt64 and UnmarshalDynamic hand what they do not walk over to the      *)
(* library: malformed text, and a map that has entries already.                    *)
Walks == IsValue(src) /\ ~(goal.dynamic /\ goal.type.kind = "map" /\ goal.old \notin {Nil, Obj(<<>>)})

Start ==
    /\ phase = "start" /\ phase' = (IF Walks THEN "value" ELSE "library")
    /\ UNCHANGED <<pos, frames, out, err>>

(* value: one call, for the slot of the innermost frame.                           *)

\* A pointer, allocated when it was nil, is decoded through.
Pointed == Type(frames).kind = "ptr" /\ Token # "null"
Dest == IF Pointed THEN Type(frames).elem ELSE Type(frames)
Old == IF Pointed /\ Slot(frames) = Nil THEN Dest.zero ELSE Slot(frames)

\* A container is entered, in a new frame.
Push(kind, val) ==
    /\ frames' = <<[kind |-> kind, type |-> Dest, val |-> val, i |-> 0, key |-> "",
                    at |-> pos + 1, first |-> None]>> \o frames
    /\ pos' = pos + 1 /\ phase' = "item" /\ UNCHANGED <<out, err>>

Opens == \/ Token = "{" /\ Dest.kind \in {"struct", "map"}
         \/ Token = "[" /\ Dest.kind \in {"slice", "array"}

\* The kinds that null sets to nil; others keep what they hold.
Nilled == {"ptr", "any", "map", "slice"}

Null ==
    /\ phase = "value" /\ Token = "null" /\ Dest.kind # "custom"
    /\ pos' = pos + 1
    /\ Return(frames, IF Dest.kind \in Nilled THEN Nil ELSE Old, None)

\* A method owns its result, and its error ends the walk.
Custom ==
    /\ phase = "value" /\ Dest.kind = "custom"
    /\ pos' = RawEnd(pos)
    /\ IF Token \in Dest.accepts THEN Return(frames, Leaf(Token), None)
       ELSE Fail(frames, Old, Error("custom", pos))

\* anyValue; a number out of range ends the walk.
AnyAtom ==
    /\ phase = "value" /\ Dest.kind = "any" /\ Token \in Atoms \ {"null"}
    /\ pos' = pos + 1
    /\ IF Token \in Overflow THEN Fail(frames, Old, Error("range", pos))
       ELSE Return(frames, Leaf(Token), None)

AnyOpen ==
    /\ phase = "value" /\ Dest.kind = "any" /\ Token \in Openers
    /\ IF Token = "[" THEN Push("anyList", List(<<>>)) ELSE Push("anyObj", Obj(<<>>))

Open ==
    /\ phase = "value" /\ Opens
    /\ LET fresh == IF Dest.kind = "map" THEN Obj(<<>>) ELSE Slice(<<>>, 0) IN
       Push(Dest.kind, IF Old = Nil THEN fresh ELSE Old)

\* Scalars, and containers that do not match: the library decodes the value,
\* and finds that it does not fit.
Scalar ==
    /\ phase = "value" /\ Token # "null" /\ ~Opens /\ Dest.kind \notin {"any", "custom"}
    /\ pos' = RawEnd(pos)
    /\ IF Dest.kind = "scalar" /\ Token \in Dest.accepts
       THEN Return(frames, Leaf(Token), None)
       ELSE Return(frames, Old, Error("type", pos))

-----------------------------------------------------------------------------------
(* The loops over members and elements.                                            *)

Closes == Token = IF Top.kind \in {"struct", "map", "anyObj"} THEN "}" ELSE "]"
InLoop(kinds) == phase = "item" /\ Top.kind \in kinds /\ ~Closes

\* What a container holds once its text has ended; an empty slice is a new one.
Finished(f) ==
    CASE f.kind = "slice" -> IF f.i = 0 THEN Slice(<<>>, 0) ELSE Slice(f.val.of, f.i)
      [] f.kind = "array" ->
           List([j \in DOMAIN f.val.of |-> IF j <= f.i THEN f.val.of[j] ELSE f.type.elem.zero])
      [] OTHER -> f.val

Close ==
    /\ phase = "item" /\ Closes
    /\ pos' = pos + 1
    /\ Return(Tail(frames), Finished(Top), Top.first)

\* The value of the member or element that begins at i is next, in frame f.
Descend(f, i) ==
    /\ frames' = <<[f EXCEPT !.at = i]>> \o Tail(frames)
    /\ pos' = i /\ phase' = "value" /\ UNCHANGED <<out, err>>

\* A defect of the loops: a value that is not wanted is not passed over.
PassedBug(i) == i
\* d.raw(): the cursor behind a value that is not wanted.
Passed(i) == RawEnd(i)

\* The value at i is passed over; the walk goes on, with error e.
Pass(f, i, e) ==
    /\ frames' = <<[Noted(f, e) EXCEPT !.at = i]>> \o Tail(frames)
    /\ pos' = Passed(i) /\ phase' = "separator" /\ UNCHANGED <<out, err>>

Stop(v, i, e) ==
    /\ frames' = <<[Top EXCEPT !.val = v]>> \o Tail(frames)
    /\ pos' = i /\ phase' = "failing" /\ err' = e /\ UNCHANGED out

Known == Token \in DOMAIN Top.type.fields
Field == Top.type.fields[Token]
\* The value behind the key.
ValueAt == pos + 2
Raw == src[ValueAt]

UnknownField ==
    /\ InLoop({"struct"}) /\ ~Known
    /\ IF goal.disallow THEN Stop(Top.val, ValueAt, Error("unknown", pos))
       ELSE Pass(Top, ValueAt, None)

\* fieldByIndex fails: the member is passed over, and its error is final.
BrokenField ==
    /\ InLoop({"struct"}) /\ Known /\ Field.broken
    /\ Stop(Top.val, Passed(ValueAt), Error("embedded", pos))

\* ,string: the string's content is decoded as a text of its own.
QuotedField ==
    /\ InLoop({"struct"}) /\ Known /\ ~Field.broken /\ Field.quoted /\ Raw # "null"
    /\ LET inner == IF Raw \in Strings THEN Content[Raw] ELSE "none"
           f == [Top EXCEPT !.key = Token]
       IN IF inner = "none" THEN Stop(Top.val, Passed(ValueAt), Error("quoted", pos))
          ELSE IF inner \in Field.type.accepts
          THEN Pass(Put(f, Leaf(inner)), ValueAt, None)
          ELSE Pass(f, ValueAt, IF inner = "null" THEN None ELSE Error("type", ValueAt))

Member ==
    /\ InLoop({"struct"}) /\ Known /\ ~Field.broken /\ (Field.quoted => Raw = "null")
    /\ Descend([Top EXCEPT !.key = Token], ValueAt)

\* A key that does not decode leaves its value out of the map; when it decodes
\* by a method, its error is final.
Entry ==
    /\ InLoop({"map"})
    /\ IF Token \in Top.type.keys THEN Descend([Top EXCEPT !.key = Token], ValueAt)
       ELSE IF Top.type.method THEN Stop(Top.val, Passed(ValueAt), Error("custom", pos))
       ELSE Pass(Top, ValueAt, Error("type", pos))

\* The slice as element i is decoded into it: within the capacity, SetLen brings
\* back what the array holds.  Behind what was ever used, also in an array that
\* Grow allocates, the elements are zero.
Roomy(s, i, elem) ==
    IF i <= s.len THEN s
    ELSE Slice(IF i <= Len(s.of) THEN s.of ELSE Append(s.of, elem.zero), i)

\* What an array has no room for is passed over.
Element ==
    /\ InLoop({"slice", "array"})
    /\ IF Top.kind = "slice"
       THEN Descend([Top EXCEPT !.val = Roomy(@, Top.i + 1, Top.type.elem)], pos)
       ELSE IF Top.i < Len(Top.val.of) THEN Descend(Top, pos)
       ELSE Pass([Top EXCEPT !.i = @ + 1], pos, None)

AnyItem ==
    /\ InLoop({"anyList", "anyObj"})
    /\ IF Top.kind = "anyList" THEN Descend(Top, pos)
       ELSE Descend([Top EXCEPT !.key = Token], ValueAt)

Separator ==
    /\ phase = "separator"
    /\ pos' = IF Token = "," THEN pos + 1 ELSE pos
    /\ phase' = "item" /\ UNCHANGED <<frames, out, err>>

\* The calls return with the final error: a slice ends behind the element that
\* failed, a value for an interface is given up, and the rest stays as it is.
Unwind ==
    LET fs == Tail(frames)
        v == CASE Top.kind = "slice" -> Slice(Top.val.of, Top.i)
               [] Top.kind \in {"anyList", "anyObj"} -> Slot(fs)
               [] OTHER -> Top.val
    IN /\ phase = "failing" /\ Fail(fs, v, err) /\ UNCHANGED pos

Next ==
    /\ \/ Start \/ Null \/ Custom \/ AnyAtom \/ AnyOpen \/ Open \/ Scalar \/ Close
       \/ UnknownField \/ BrokenField \/ QuotedField \/ Member \/ Entry \/ Element
       \/ AnyItem \/ Separator \/ Unwind
    /\ UNCHANGED <<src, goal>>

Spec == Init /\ [][Next]_vars
-----------------------------------------------------------------------------------
(* Properties.                                                                     *)

\* After every member and element, decoded, misfitting or unwanted, the cursor is
\* exactly behind its value, and at the end behind the whole text: every read of
\* the unchecked data[pos] is where the walk believes it is.
CursorIsBehindEachValue ==
    /\ phase = "separator" => pos = Top.at + ValueLength(src, Top.at)
    /\ phase \in {"value", "item"} => pos <= Len(src)
    /\ phase = "done" /\ err.kind \in {"none", "type"} => pos = Len(src) + 1

Result(v, e) == [val |-> v, err |-> e]

\* The items of the container at i: the positions of its keys or elements.
Items(i) ==
    SelectSeq([j \in 1..(RawEnd(i) - 1) |-> j],
              LAMBDA j : /\ j > i /\ NestedIn(src, j) = NestedIn(src, i) + 1
                         /\ src[j] \notin Closers /\ src[j - 1] \in Openers \cup {","})

RECURSIVE Tree(_), Meaning(_, _, _)

\* The value at i for an interface.
Tree(i) ==
    LET js == Items(i) IN
    CASE src[i] = "null" -> Nil
      [] src[i] = "[" -> List([k \in DOMAIN js |-> Tree(js[k])])
      [] src[i] = "{" ->
           LET last(key) == CHOOSE k \in DOMAIN js :
                 src[js[k]] = key /\ \A n \in DOMAIN js : src[js[n]] = key => n <= k
           IN Obj([key \in {src[js[k]] : k \in DOMAIN js} |-> Tree(js[last(key)] + 2)])
      [] OTHER -> Leaf(src[i])

\* One item, at j, of a container of type t that holds val.
ItemMeaning(t, val, j, k) ==
    IF t.kind \in {"slice", "array"}
    THEN LET room == IF t.kind = "slice" /\ k > Len(val.of)
                     THEN Append(val.of, t.elem.zero) ELSE val.of
             m == Meaning(j, t.elem, room[k])
         IN IF k > Len(room) THEN Result(val, None)
            ELSE Result([val EXCEPT !.of = [room EXCEPT ![k] = m.val]], m.err)
    ELSE IF t.kind = "map"
    THEN LET m == Meaning(j + 2, t.elem, t.elem.zero) IN
         IF src[j] \notin t.keys
         THEN Result(val, Error(IF t.method THEN "custom" ELSE "type", j))
         ELSE Result(Obj((src[j] :> m.val) @@ val.of), m.err)
    ELSE IF src[j] \notin DOMAIN t.fields
    THEN Result(val, IF goal.disallow THEN Error("unknown", j) ELSE None)
    ELSE LET field == t.fields[src[j]]
             raw == src[j + 2]
             inner == IF raw \in Strings THEN Content[raw] ELSE "none"
             m == IF ~field.quoted \/ raw = "null"
                  THEN Meaning(j + 2, field.type, val.of[src[j]])
                  ELSE IF inner = "none" THEN Result(val.of[src[j]], Error("quoted", j))
                  ELSE IF inner \in field.type.accepts THEN Result(Leaf(inner), None)
                  ELSE Result(val.of[src[j]],
                              IF inner = "null" THEN None ELSE Error("type", j + 2))
         IN IF field.broken THEN Result(val, Error("embedded", j))
            ELSE Result(Obj([val.of EXCEPT ![src[j]] = m.val]), m.err)

\* What the value at i makes of a destination that holds old.
Meaning(i, t, old) ==
    LET js == Items(i)
        Final(e) == e.kind \notin {"none", "type"}
        start == IF old # Nil THEN old ELSE IF t.kind = "map" THEN Obj(<<>>) ELSE Slice(<<>>, 0)
        \* After k items: what it holds, the error, and how many were begun.
        after[k \in 0..Len(js)] ==
            IF k = 0 THEN [val |-> start, err |-> None, n |-> 0]
            ELSE IF Final(after[k - 1].err) THEN after[k - 1]
            ELSE LET m == ItemMeaning(t, after[k - 1].val, js[k], k) IN
                 [val |-> m.val, n |-> k,
                  err |-> IF Final(m.err) \/ after[k - 1].err = None
                          THEN m.err ELSE after[k - 1].err]
        end == after[Len(js)]
        huge == {j \in i..(RawEnd(i) - 1) : src[j] \in Overflow}
    IN
    IF t.kind = "ptr" /\ src[i] # "null"
    THEN Meaning(i, t.elem, IF old = Nil THEN t.elem.zero ELSE old)
    ELSE IF t.kind = "any"
    THEN IF huge = {} THEN Result(Tree(i), None)
         ELSE Result(old, Error("range", CHOOSE j \in huge : \A k \in huge : j <= k))
    ELSE IF t.kind \in {"scalar", "custom"} /\ src[i] \in t.accepts
    THEN Result(Leaf(src[i]), None)
    ELSE IF t.kind = "custom" THEN Result(old, Error("custom", i))
    ELSE IF src[i] = "null"
    THEN Result(IF t.kind \in {"ptr", "map", "slice"} THEN Nil ELSE old, None)
    ELSE IF ~\/ src[i] = "{" /\ t.kind \in {"struct", "map"}
             \/ src[i] = "[" /\ t.kind \in {"slice", "array"}
    THEN Result(old, Error("type", i))
    ELSE Result(IF t.kind = "slice"
                THEN Slice(IF js = <<>> THEN <<>> ELSE end.val.of, end.n)
                ELSE IF t.kind = "array" /\ ~Final(end.err)
                THEN List([k \in DOMAIN end.val.of |->
                             IF k <= Len(js) THEN end.val.of[k] ELSE t.elem.zero])
                ELSE end.val, end.err)

\* In the end the destination holds what each member of the text means for it, in
\* document order: all of them when every error was a misfit, of which the first
\* is returned; those before the failing one, and what that one left, otherwise.
\* Where the text says nothing (null, a misfit, a field it leaves out) what was
\* there stays: in a slice also what was hidden behind its length (int64.go:214).
DestinationHoldsTheText ==
    phase = "done" =>
        Result(out, err) =
            Meaning(1, goal.type, IF goal.dynamic /\ goal.type = Interface THEN Nil ELSE goal.old)
===================================================================================
