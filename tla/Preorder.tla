--------------------------------- MODULE Preorder ---------------------------------
(***************************************************************************)
(* ast.Preorder (src/ast/visitor.go): a walk over a text that calls a       *)
(* visitor at every token, and nothing of the text is kept.  The visitor is *)
(* the environment: each call is answered with nil ("go"), VisitOPSkip      *)
(* ("skip") or an error ("stop").                                           *)
(***************************************************************************)
EXTENDS JSONText

CONSTANTS Texts,    \* what is walked over
          Answers   \* what a visitor returns: a subset of {"go", "skip", "stop"}

VARIABLES
    src, pos,   \* the text and the next token
    phase,      \* what comes next: a "value", the "first" item of a container,
                \* a "key", "more" items; or "done"
    stack,      \* the containers being walked through, the innermost first
    events,     \* the calls so far: [kind |-> a token, at |-> its position]
    skipped,    \* the positions of the containers that the visitor skipped
    result      \* "walking", or what Preorder returned: "nil", "syntax", "visitor"

vars == <<src, pos, phase, stack, events, skipped, result>>

Init ==
    /\ src \in Texts
    /\ pos = 1 /\ phase = "value" /\ stack = <<>> /\ events = <<>> /\ skipped = {}
    /\ result = "walking"

At(i) == IF i <= Len(src) THEN src[i] ELSE "end"
Closer(opener) == IF opener = "[" THEN "]" ELSE "}"

Event(kind, at) == [kind |-> kind, at |-> at]
Return(code) == result' = code /\ phase' = "done" /\ UNCHANGED stack

\* The walk goes on behind a value, in the containers st.
Complete(st) ==
    /\ stack' = st
    /\ IF st = <<>> THEN result' = "nil" /\ phase' = "done"
       ELSE phase' = "more" /\ UNCHANGED result

\* An item of an object begins with its key.
Item(opener) == IF opener = "{" THEN "key" ELSE "value"

\* The next token is not the one expected; no call is made.
SyntaxError ==
    /\ Return("syntax")
    /\ UNCHANGED <<pos, events, skipped>>

\* OnNull, OnBool, OnString, OnInt64, OnFloat64.
Atom(answer) ==
    /\ phase = "value" /\ At(pos) \in Atoms
    /\ pos' = pos + 1 /\ events' = Append(events, Event("value", pos))
    /\ IF answer = "go" THEN Complete(stack) ELSE Return("visitor")
    /\ UNCHANGED skipped

NotAValue ==
    /\ phase = "value" /\ At(pos) \notin Atoms \cup Openers
    /\ SyntaxError

\* OnObjectBegin, OnArrayBegin, answered with anything but VisitOPSkip.
Begin(answer) ==
    /\ phase = "value" /\ At(pos) \in Openers /\ answer # "skip"
    /\ pos' = pos + 1 /\ events' = Append(events, Event(At(pos), pos))
    /\ IF answer = "go" THEN stack' = <<At(pos)>> \o stack /\ phase' = "first" /\ UNCHANGED result
       ELSE Return("visitor")
    /\ UNCHANGED skipped

MayEnd(closer, opener) == closer = Closer(opener)

\* skipContainer: the position of the bracket that closes the one at i, brackets
\* of both kinds counted alike; 0 if there is none or it is of the wrong kind.
SkipTo(i) ==
    LET open[j \in i..Len(src)] ==
          IF j = i THEN 1
          ELSE IF src[j] \in Openers THEN open[j - 1] + 1
          ELSE IF src[j] \in Closers /\ open[j - 1] > 0 THEN open[j - 1] - 1
          ELSE open[j - 1]
        closed == {j \in i..Len(src) : open[j] = 0}
        end == CHOOSE j \in closed : \A k \in closed : j <= k
    IN IF closed = {} THEN 0 ELSE IF MayEnd(src[end], src[i]) THEN end ELSE 0

\* A defect of the walk: a skipped container has no end event.
SkippedEventsBug(end) == <<Event(src[pos], pos)>>
\* The calls for a skipped container that ends at end.
SkippedEvents(end) == <<Event(src[pos], pos), Event(src[end], end)>>

\* A begin call answered with VisitOPSkip: the body is passed over and the end
\* call follows at once, answered too.
SkipContainer(answer) ==
    /\ phase = "value" /\ At(pos) \in Openers /\ "skip" \in Answers
    /\ LET end == SkipTo(pos) IN
       IF end = 0
       THEN /\ events' = Append(events, Event(At(pos), pos))
            /\ Return("syntax") /\ UNCHANGED pos
       ELSE /\ pos' = end + 1
            /\ events' = events \o SkippedEvents(end)
            /\ IF answer = "go" THEN Complete(stack) ELSE Return("visitor")
    /\ skipped' = skipped \cup {pos}

\* OnObjectEnd, OnArrayEnd, in an empty container or behind an item.
End(answer) ==
    /\ phase \in {"first", "more"} /\ At(pos) = Closer(Head(stack))
    /\ pos' = pos + 1 /\ events' = Append(events, Event(At(pos), pos))
    /\ IF answer = "go" THEN Complete(Tail(stack)) ELSE Return("visitor")
    /\ UNCHANGED skipped

\* The container is not empty.
First ==
    /\ phase = "first" /\ At(pos) \notin {"end", Closer(Head(stack))}
    /\ phase' = Item(Head(stack))
    /\ UNCHANGED <<pos, stack, events, skipped, result>>

\* A defect of both loops: after a comma the container may end.
NextItemBug(opener) == "first"
NextItem(opener) == Item(opener)

Comma ==
    /\ phase = "more" /\ At(pos) = ","
    /\ pos' = pos + 1 /\ phase' = NextItem(Head(stack))
    /\ UNCHANGED <<stack, events, skipped, result>>

NotMore ==
    /\ \/ phase = "first" /\ At(pos) = "end"
       \/ phase = "more" /\ At(pos) \notin {",", Closer(Head(stack))}
    /\ SyntaxError

\* OnObjectKey; the colon is looked for after the call.
Key(answer) ==
    /\ phase = "key" /\ At(pos) \in Strings
    /\ events' = Append(events, Event("key", pos))
    /\ IF answer # "go" THEN pos' = pos + 1 /\ Return("visitor")
       ELSE IF At(pos + 1) # ":" THEN pos' = pos + 1 /\ Return("syntax")
       ELSE pos' = pos + 2 /\ phase' = "value" /\ UNCHANGED <<stack, result>>
    /\ UNCHANGED skipped

NotAKey ==
    /\ phase = "key" /\ At(pos) \notin Strings
    /\ SyntaxError

Next ==
    /\ \/ NotAValue \/ First \/ Comma \/ NotMore \/ NotAKey
       \/ \E answer \in Answers :
             Atom(answer) \/ Begin(answer) \/ SkipContainer(answer) \/ End(answer) \/ Key(answer)
    /\ UNCHANGED src

Spec == Init /\ [][Next]_vars
-----------------------------------------------------------------------------------
(* Properties.                                                                     *)

\* The phase is one that the innermost container allows.
TypeOK ==
    /\ pos \in 1..(Len(src) + 1)
    /\ stack \in Seq(Openers)
    /\ phase \in {"first", "more", "key"} => stack # <<>>
    /\ phase = "value" /\ stack # <<>> => (Head(stack) = "{") = (src[pos - 1] = ":")
    /\ result \in {"walking", "nil", "syntax", "visitor"}
    /\ (phase = "done") = (result # "walking")

\* Token j of a well-formed text is the visitor's to see: no colon or comma, and
\* not inside a container that was skipped.
Inside(i, j) ==
    /\ i < j /\ NestedIn(src, j) > NestedIn(src, i)
    /\ ~\E k \in (i + 1)..j : src[k] \in Closers /\ NestedIn(src, k) = NestedIn(src, i) + 1
Visible(j) == src[j] \notin {":", ","} /\ ~\E i \in skipped : Inside(i, j)

\* The call for token j of a text whose value has n tokens.
EventOf(j, n) ==
    Event(IF src[j] \in Openers \cup Closers THEN src[j]
          ELSE IF j < n /\ src[j + 1] = ":" THEN "key" ELSE "value", j)

\* On well-formed text the visitor is told of every token, in document order and
\* once, up to the cursor; of a skipped container only the begin and the end, and
\* whatever the visitor skips the walk stays in step with the document.
EventsFollowTheDocument ==
    LET n == ValueLength(src, 1)
        seen == SelectSeq([j \in 1..(pos - 1) |-> j], Visible)
    IN n # 0 => events = [k \in DOMAIN seen |-> EventOf(seen[k], n)]

BracketsOf(text) == SelectSeq(text, LAMBDA t : t \in Openers \cup Closers)
Balanced == UNION {{BracketsOf(v) : v \in Language[n]} : n \in 1..MaxLength}

\* On any text, skipped containers or not, every end call closes the container of
\* the latest open begin call, of its kind; when Preorder returns nil the calls
\* have built one whole value.
EndsMatchBegins ==
    LET calls == BracketsOf([k \in DOMAIN events |-> events[k].kind])
        open == [k \in DOMAIN stack |-> Closer(stack[k])]
    IN /\ TypeOK
       /\ result = "walking" /\ events # <<>> => calls \o open \in Balanced
       /\ result = "nil" /\ Len(calls) > 0 => calls \in Balanced

\* A visitor that skips nothing gets nil exactly when the text begins with a
\* value, and the walk ends behind it; with skipped containers well-formed text
\* is still no syntax error and the walk ends at the same place.
WalkAcceptsValues ==
    LET n == ValueLength(src, 1) IN
    /\ result = "nil" /\ skipped = {} => n # 0
    /\ result = "syntax" => n = 0
    /\ result = "nil" /\ n # 0 => pos = n + 1
===================================================================================
