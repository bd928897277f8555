------------------------------- MODULE ValueStream -------------------------------
(***************************************************************************)
(* What a decoder of many values promises its caller: the values of the     *)
(* input, each once and in order, until a final error; after it, nothing    *)
(* more.                                                                    *)
(***************************************************************************)
EXTENDS Naturals, Sequences

\* text: the input; values: those of the input before the first malformed one.
VARIABLES text, values, got, ended

Init == got = <<>> /\ ended = FALSE

Deliver ==
    /\ ~ended /\ Len(got) < Len(values)
    /\ got' = Append(got, values[Len(got) + 1])
    /\ UNCHANGED <<text, values, ended>>

\* The end of the input, malformed input, a destination that does not fit, or
\* an error of the reader.
End == ~ended /\ ended' = TRUE /\ UNCHANGED <<text, values, got>>

\* Another input: nothing of the old one is delivered any more.
Reset == text' # text /\ got' = <<>> /\ ended' = FALSE

Next == Deliver \/ End \/ Reset

Spec == Init /\ [][Next]_<<text, values, got, ended>>
=============================================================================
