------------------------------- MODULE MCStreams -------------------------------
(***************************************************************************)
(* Inputs for Streams: {..} between spaces, a scalar, then another object,  *)
(* well-formed or with a malformed byte after the scalar.                   *)
(***************************************************************************)
EXTENDS Streams

GoodInput == <<0, 2, 3, 0, 0, 5, 0, 6, 6, 7, 0>>
BadInput == <<2, 3, 0, 5, 0, 0, 1, 6, 7>>
OtherInput == <<7, 0, 5>>
ScalarValues == {2}

Source_(kind, input, dests, cases, most) ==
    [kind |-> kind, input |-> input, dests |-> dests, cases |-> cases,
     changes |-> most, resets |-> IF kind = "string" THEN {OtherInput} ELSE {}]

Both == {"plain", "raw"}

\* Options change between values that are buffered already; values do not fit,
\* are malformed or cut off by the reader; a caller keeps raw values and only
\* calls Decode; a string's decoder is turned to another text.
AllSources == {
    Source_("stream", GoodInput, {"plain"}, {"options", "misfit", "more"}, 2),
    Source_("stream", BadInput, {"plain"}, {"options", "misfit", "more", "fail"}, 1),
    Source_("stream", GoodInput, Both, {"options", "misfit"}, 1),
    Source_("compat", GoodInput, {"plain"}, {"options", "misfit", "more"}, 2),
    Source_("compat", BadInput, Both, {"options", "misfit", "fail"}, 1),
    Source_("compat", GoodInput, Both, {"options", "misfit"}, 2),
    Source_("string", GoodInput, Both, {"options", "misfit"}, 3),
    Source_("string", BadInput, Both, {"options", "misfit"}, 2)}

\* A caller that keeps raw values calls More between two of them.
MoreSources == {Source_(k, GoodInput, {"raw"}, {"more"}, 0) : k \in {"stream", "compat"}}

\* An Unmarshaler returns io.EOF.
EOFSources == {Source_("string", GoodInput, {"plain"}, {"eof"}, 0)}
=============================================================================
