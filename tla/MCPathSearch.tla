------------------------------ MODULE MCPathSearch ------------------------------
(* Well-formed texts of up to eleven tokens, damaged ones of up to seven, and   *)
(* paths of up to two steps.  Key "odd" is decoded by the local parser only,    *)
(* "bad" by nobody.                                                             *)
EXTENDS PathSearch

Get == INSTANCE FastGet

Grammar == GrammarOf(Strings, Scalars, MaxLength)
MCLanguage == Grammar

OddKeys == UNION {{[v EXCEPT ![j - 1] = "odd"] : j \in {k \in DOMAIN v : v[k] = ":"}} : v \in Values(9)}
SearchTexts == Values(11) \cup OddKeys \cup Damaged(7, Openers \cup Closers \cup {",", ":", "?", "odd", "bad"})
Steps == {KeyStep("a"), KeyStep("b"), IndexStep(0), IndexStep(1)}
SearchPaths == {<<>>} \cup {<<s>> : s \in Steps \cup {KeyStep("odd"), IndexStep(-1), OtherStep}}
               \cup {<<s, t>> : s \in Steps \ {IndexStep(0)}, t \in {KeyStep("a"), IndexStep(0), OtherStep}}

\* Objects and arrays of one or two members, and numbers as steps.
ShortTexts == Values(9)
NumberPaths == {<<IndexStep(i)>> : i \in 0..1}
OtherPaths == {<<OtherStep>>}

\* What NewSearcher(src).GetByPath() returns.
Root == [status |-> IF ValueEnd(1) = 0 THEN "invalid" ELSE "found",
         from |-> IF ValueEnd(1) = 0 THEN 0 ELSE 1, to |-> ValueEnd(1)]
GetResult(blank) == Get!Get(Root, blank)

\* No stretch of the text opens more containers than it closes by over MaxDepth.
Flat ==
    \A i, j \in DOMAIN src :
        NestedIn(SubSeq(src, i, j), j - i + 2) <= MaxDepth

\* The two scanners agree on every text, malformed or not, and every path: where
\* the bytes are scanned without a Searcher, Get returns the very value that the
\* validating Searcher behind GetFromString returns, or the same kind of error.
\* They differ beyond the depth limit, which GetFromString does not apply to what
\* it passes over, so that Get finds less (fastjson.go:439, search.go:480), and on
\* no data, which is a missing node for Get and malformed for GetFromString
\* (fastjson.go:61); blank text is malformed for both.
GetAgreesWithSearcher ==
    \A blank \in BOOLEAN :
        LET compared == validate /\ path # <<>> /\ Get!GetPathASCII.status # "noFast"
            got == GetResult(blank)
        IN result.status # "searching" /\ compared /\ (src = <<>> => blank)
           /\ (got.status = "found" \/ Flat) => got = result

\* Valid accepts exactly the values of the grammar that nest at most MaxDepth
\* containers, whatever their strings hold (fastjson.go:19).
ValidAcceptsValues ==
    Get!Valid = (/\ IsValue(Plain(src))
                 /\ \A j \in DOMAIN src : src[j] \in Openers => NestedIn(src, j) < MaxDepth)

\* "An invalid path element type or a missing node yields ast.ErrNotExist or
\* ast.ErrUnsupportType" (internal/fastjsoncompat/fastjson.go:58).
InvalidStepIsAnError ==
    result.status # "searching" /\ (\E k \in DOMAIN path : path[k].kind = "other")
        => GetResult(TRUE).status # "found"
=================================================================================
