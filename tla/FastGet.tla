--------------------------------- MODULE FastGet ---------------------------------
(***************************************************************************)
(* fastjsoncompat.Get and Valid (src/internal/fastjsoncompat/fastjson.go),  *)
(* behind the root Get, GetWithOptions and Valid: a second scanner, over    *)
(* bytes, for what Searcher.GetByPath does over a string.  It keeps no      *)
(* state, so it is given as the functions it computes.                      *)
(***************************************************************************)
EXTENDS JSONText, Integers

CONSTANTS
    AnyString,  \* the string tokens, decodable or not
    Fast,       \* the keys that encoding/json decodes
    MaxDepth    \* maxScanDepth

VARIABLES src, path   \* the text, and the steps: [kind, key, at]

At(i) == IF i <= Len(src) THEN src[i] ELSE "end"
Closer(opener) == IF opener = "[" THEN "]" ELSE "}"

\* A defect of scanObjectEnd and scanArrayEnd: an empty container is not too deep.
LimitBug(d, i) == d > MaxDepth
\* scanValueEnd refuses a value inside more than MaxDepth containers; the container
\* that would be one too many is refused before it is known to be empty.
Limit(d, i) == d + (IF At(i) \in Openers THEN 1 ELSE 0) > MaxDepth

\* scanValueEnd, scanObjectEnd and scanArrayEnd: the position behind the value at i,
\* which is inside d containers; 0 if there is none.
Ends ==
    LET e[c \in {"value", "items", "members"}, i \in Nat, d \in Nat] ==
          LET more(after, closer) ==
                IF after = 0 THEN 0
                ELSE IF At(after) = "," THEN e[c, after + 1, d]
                ELSE IF At(after) = closer THEN after + 1 ELSE 0
          IN CASE c = "value" ->
                    IF Limit(d, i) THEN 0
                    ELSE IF At(i) \in AnyString \cup Scalars THEN i + 1
                    ELSE IF At(i) \notin Openers THEN 0
                    ELSE IF At(i + 1) = Closer(At(i)) THEN i + 2
                    ELSE e[IF At(i) = "[" THEN "items" ELSE "members", i + 1, d + 1]
               [] c = "items" -> more(e["value", i, d], "]")
               [] c = "members" ->
                    IF At(i) \in AnyString /\ At(i + 1) = ":"
                    THEN more(e["value", i + 2, d], "}") ELSE 0
    IN e
ScanValueEnd(i) == Ends["value", i, 0]

\* A defect of scanContainerEnd: a closing bracket ends whatever is open.
ExpectedBug(c, expects) == expects # <<>>
Expected(c, expects) == expects # <<>> /\ c = Head(expects)

\* scanContainerEnd: the brackets alone, matched on a stack of at most MaxDepth.
ScanContainerEnd(i) ==
    LET run[j \in i..Len(src)] ==
          LET s == IF j = i THEN [expects |-> <<>>, end |-> -1] ELSE run[j - 1]
              refused == [s EXCEPT !.end = 0]
              rest == Tail(s.expects)
          IN IF s.end # -1 THEN s
             ELSE IF src[j] \in Openers
             THEN IF Len(s.expects) = MaxDepth THEN refused
                  ELSE [s EXCEPT !.expects = <<Closer(src[j])>> \o @]
             ELSE IF src[j] \notin Closers THEN s
             ELSE IF ~Expected(src[j], s.expects) THEN refused
             ELSE [expects |-> rest, end |-> IF rest = <<>> THEN j + 1 ELSE -1]
        last == run[Len(src)]
    IN IF last.end = -1 THEN 0 ELSE last.end

ScanPreTargetValueEnd(i) == IF At(i) \in Openers THEN ScanContainerEnd(i) ELSE ScanValueEnd(i)

-----------------------------------------------------------------------------------
(* Get.                                                                            *)

Found(i) == [status |-> "found", at |-> i]
No(status) == [status |-> status, at |-> 0]

\* findObjectValueStart: where the value of key begins, in the object at i.
FindObjectValueStart(i, key) ==
    LET member[j \in Nat] ==
          LET after == ScanPreTargetValueEnd(j + 2) IN
          IF At(j) \notin AnyString THEN No("invalid")
          ELSE IF At(j) \notin Fast THEN No("noFast")
          ELSE IF At(j + 1) # ":" THEN No("invalid")
          ELSE IF At(j) = key THEN IF At(j + 2) = "end" THEN No("invalid") ELSE Found(j + 2)
          ELSE IF after = 0 THEN No("invalid")
          ELSE IF At(after) = "}" THEN No("missing")
          ELSE IF At(after) = "," THEN member[after + 1] ELSE No("invalid")
    IN IF At(i) # "{" \/ At(i + 1) = "}" THEN No("missing") ELSE member[i + 1]

Outside(idx) == idx < 0

\* findArrayValueStart: where element idx begins, in the array at i.
FindArrayValueStart(i, idx) ==
    LET element[j \in Nat, cur \in Nat] ==
          LET after == ScanPreTargetValueEnd(j) IN
          IF At(j) = "end" THEN No("invalid")
          ELSE IF cur = idx THEN Found(j)
          ELSE IF after = 0 THEN No("invalid")
          ELSE IF At(after) = "]" THEN No("missing")
          ELSE IF At(after) = "," THEN element[after + 1, cur + 1] ELSE No("invalid")
    IN IF Outside(idx) \/ At(i) # "[" \/ At(i + 1) = "]" THEN No("missing")
       ELSE element[i + 1, 0]

\* getPathASCII: the loop over the steps, then the value they lead to.
GetPathASCII ==
    LET next(i, s) == CASE s.kind = "key"   -> FindObjectValueStart(i, s.key)
                        [] s.kind = "index" -> FindArrayValueStart(i, s.at)
                        [] s.kind = "other" -> No("noFast")
        reach[k \in 0..Len(path)] ==
          IF k = 0 THEN Found(1)
          ELSE LET r == reach[k - 1] IN IF r.status = "found" THEN next(r.at, path[k]) ELSE r
        r == reach[Len(path)]
        end == ScanValueEnd(r.at)
        outcome(status, from, to) == [status |-> status, from |-> from, to |-> to]
    IN IF r.status # "found" \/ src = <<>>
       THEN outcome(IF src = <<>> THEN "invalid" ELSE r.status, 0, 0)
       ELSE IF end = 0 THEN outcome("invalid", 0, 0) ELSE outcome("found", r.at, end)

\* Get without options: nothing in no data; what it finds without a Searcher; else
\* what a new Searcher finds for the empty path, given as root.  A text of no tokens
\* is no data, or it is blank.
Get(root, blank) ==
    IF src = <<>> /\ ~blank THEN [status |-> "missing", from |-> 0, to |-> 0]
    ELSE IF path # <<>> /\ GetPathASCII.status # "noFast" THEN GetPathASCII ELSE root

Valid == ScanValueEnd(1) = Len(src) + 1
===================================================================================
