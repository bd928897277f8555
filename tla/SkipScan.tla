--------------------------------- MODULE SkipScan ---------------------------------
(***************************************************************************)
(* decoder.Skip (src/decoder/decoder.go): the end of the first JSON value   *)
(* of a text, found without decoding it and without recursion, on a stack   *)
(* of frames; encoder.Valid (src/encoder/encoder.go) is built on it.        *)
(*                                                                          *)
(* A text is a sequence of tokens; "nul" is a zero byte, and any token that *)
(* is not JSON starts no value.                                             *)
(***************************************************************************)
EXTENDS JSONText

CONSTANTS Texts,      \* what is scanned
          MaxDepth    \* maxSkipContainerDepth

VARIABLES
    src,      \* the text
    pos,      \* the next token
    frames,   \* the open containers' states, the innermost first
    result    \* "scanning", "value", or the error: "eof", "invalid", "depth"

vars == <<src, pos, frames, result>>

WantsValue == {"arrayValueOrEnd", "arrayValue", "objectValue"}
States == WantsValue \cup {"arrayCommaOrEnd", "objectKeyOrEnd", "objectKey", "objectColon",
                           "objectCommaOrEnd"}

Init ==
    /\ src \in Texts
    /\ pos = 1 /\ frames = <<>> /\ result = "scanning"

Token == IF pos <= Len(src) THEN src[pos] ELSE "end"
Top == IF frames = <<>> THEN "none" ELSE Head(frames)

\* A scan of a value begins: of the first one, or inside a container.
ValueDue == frames = <<>> \/ Top \in WantsValue

\* An object's value would be nested too deeply, whatever it is.
ObjectValueAtDepthLimit == Len(frames) >= MaxDepth /\ Top = "objectValue"

\* The checks at the head of the loop have passed.
Ready == result = "scanning" /\ ~ObjectValueAtDepthLimit /\ Token \notin {"end", "nul"}

InState(f) == frames' = <<f>> \o Tail(frames)

\* A defect of completeValue: an object goes on with a key.
AfterValueBug(f) == IF f = "objectValue" THEN "objectKey" ELSE "arrayCommaOrEnd"
\* The state of a container after one of its values.
AfterValue(f) == IF f = "objectValue" THEN "objectCommaOrEnd" ELSE "arrayCommaOrEnd"

\* completeValue on the frames fs; the scan is over when none is left.
CompleteValue(fs) ==
    IF fs = <<>> THEN frames' = fs /\ result' = "value"
    ELSE frames' = <<AfterValue(Head(fs))>> \o Tail(fs) /\ UNCHANGED result

Failure(code) == result' = code /\ UNCHANGED <<pos, frames>>

\* The checks before a token is looked at: depth, the end, a zero byte.
RecurseExceeded ==
    /\ result = "scanning" /\ ObjectValueAtDepthLimit
    /\ Failure("depth")

EOF ==
    /\ result = "scanning" /\ ~ObjectValueAtDepthLimit /\ Token \in {"end", "nul"}
    /\ Failure("eof")

\* A string, a number or a literal is a whole value.
Atom ==
    /\ Ready /\ ValueDue /\ Token \in Atoms
    /\ pos' = pos + 1
    /\ CompleteValue(frames)

TooDeep == Len(frames) >= MaxDepth

Open ==
    /\ Ready /\ ValueDue /\ Token \in Openers
    /\ IF TooDeep THEN Failure("depth")
       ELSE /\ pos' = pos + 1
            /\ frames' = <<IF Token = "[" THEN "arrayValueOrEnd" ELSE "objectKeyOrEnd">> \o frames
            /\ UNCHANGED result

\* A defect of scan: a container may close after a comma.
MayCloseBug == \/ Token = "]" /\ Top \in {"arrayValueOrEnd", "arrayValue", "arrayCommaOrEnd"}
               \/ Token = "}" /\ Top \in {"objectKeyOrEnd", "objectCommaOrEnd"}
MayClose == \/ Token = "]" /\ Top \in {"arrayValueOrEnd", "arrayCommaOrEnd"}
            \/ Token = "}" /\ Top \in {"objectKeyOrEnd", "objectCommaOrEnd"}

CloseContainer ==
    /\ Ready /\ MayClose
    /\ pos' = pos + 1
    /\ CompleteValue(Tail(frames))

Key ==
    /\ Ready /\ Top \in {"objectKeyOrEnd", "objectKey"} /\ Token \in Strings
    /\ pos' = pos + 1
    /\ InState("objectColon")
    /\ UNCHANGED result

Colon ==
    /\ Ready /\ Top = "objectColon" /\ Token = ":"
    /\ pos' = pos + 1
    /\ InState("objectValue")
    /\ UNCHANGED result

Comma ==
    /\ Ready /\ Top \in {"arrayCommaOrEnd", "objectCommaOrEnd"} /\ Token = ","
    /\ pos' = pos + 1
    /\ InState(IF Top = "arrayCommaOrEnd" THEN "arrayValue" ELSE "objectKey")
    /\ UNCHANGED result

\* A token that the state does not allow.
Invalid ==
    /\ Ready /\ ~MayClose
    /\ ValueDue => Token \notin Atoms \cup Openers
    /\ Top \in {"objectKeyOrEnd", "objectKey"} => Token \notin Strings
    /\ Top = "objectColon" => Token # ":"
    /\ Top \in {"arrayCommaOrEnd", "objectCommaOrEnd"} => Token # ","
    /\ Failure("invalid")

Next ==
    /\ \/ RecurseExceeded \/ EOF \/ Atom \/ Open \/ CloseContainer
       \/ Key \/ Colon \/ Comma \/ Invalid
    /\ UNCHANGED src

Spec == Init /\ [][Next]_vars

\* encoder.Valid: the text is one value with nothing behind it.
Valid == result = "value" /\ pos > Len(src)
-----------------------------------------------------------------------------------
(* Properties.                                                                     *)

\* No frame is pushed beyond the limit.
TypeOK ==
    /\ pos \in 1..(Len(src) + 1)
    /\ frames \in Seq(States) /\ Len(frames) <= MaxDepth
    /\ result \in {"scanning", "value", "eof", "invalid", "depth"}

\* Skip's depth: at most MaxDepth containers, and no member directly in the
\* innermost of so many (decoder.go:389).
Nestable(v) ==
    \A j \in DOMAIN v :
        /\ v[j] \in Openers => NestedIn(v, j) < MaxDepth
        /\ v[j] = ":" => NestedIn(v, j) < MaxDepth

\* Skip finds a value exactly when the text begins with one that is not nested
\* too deeply, and returns its end; Valid accepts exactly the texts that are
\* such a value.  A text that goes wrong later, or never ends, is an error
\* however far the scan came.
SkipFindsTheValue ==
    LET n == ValueLength(src, 1)
        found == n # 0 /\ Nestable(SubSeq(src, 1, n))
    IN result # "scanning" =>
         /\ (result = "value") = found
         /\ found => pos = n + 1
         /\ Valid = (found /\ n = Len(src))

\* The shortest text that completes the containers whose states are fs.
Rest(fs) ==
    LET a == CHOOSE t \in Strings : TRUE
        inner(f) == CASE f \in {"arrayValueOrEnd", "arrayCommaOrEnd"} -> <<"]">>
                      [] f \in {"objectKeyOrEnd", "objectCommaOrEnd"} -> <<"}">>
                      [] f = "arrayValue"  -> <<a, "]">>
                      [] f = "objectKey"   -> <<a, ":", a, "}">>
                      [] f = "objectColon" -> <<":", a, "}">>
                      [] f = "objectValue" -> <<a, "}">>
        rest[k \in 0..Len(fs)] ==
            IF k = 0 THEN <<>>
            ELSE rest[k - 1] \o inner(IF k = 1 THEN fs[1] ELSE AfterValue(fs[k]))
    IN rest[Len(fs)]

\* The scan never goes on over a text that cannot become a value: what it has
\* read is a value once the containers on its stack are completed, each from
\* the state its frame is in.
FramesMatchTheText ==
    /\ TypeOK
    /\ result = "scanning" /\ frames # <<>> => IsValue(SubSeq(src, 1, pos - 1) \o Rest(frames))
===================================================================================
