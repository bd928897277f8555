------------------------------- MODULE StringDecode -------------------------------
(***************************************************************************)
(* decoder.Decoder (src/decoder/decoder.go): values decoded one by one from *)
(* a string.  Between calls it keeps its place in the text and a            *)
(* json.Decoder over the rest of it, which the setters and Reset drop.      *)
(***************************************************************************)
EXTENDS JSONDecoder

\* Decoder: [pos, opts, live, base]; live says whether there is a json.Decoder,
\* and base where in the text it began.
VARIABLE st

Init == InitDecoder({}) /\ st = [pos |-> 0, opts |-> {}, live |-> FALSE, base |-> 0]

\* A Decode that finds the text used up answers ERR_EOF and changes nothing.
Decode(dest) ==
    /\ Idle /\ st.pos < Len(Input) /\ Len(mem) < MaxBuffers
    /\ IF st.live THEN UNCHANGED <<dec, inp, st>>
       ELSE /\ dec' = [NewDec EXCEPT !.toggles = st.opts \cap Sticky]
            /\ inp' = [pending |-> <<>>, read |-> st.pos]
            /\ st' = [st EXCEPT !.live = TRUE, !.base = st.pos]
    /\ call' = [NoCall EXCEPT !.op = "decode", !.dest = dest]
    /\ UNCHANGED <<mem, got, kept, changes>>

Read == (\E c \in Chunks : Take(c)) /\ UNCHANGED st
ReadEnd == TakeEnd /\ UNCHANGED st

Retains == call.dest = "raw" /\ "UseInt64" \notin st.opts

\* A defect of Decode: the offset of a rebuilt decoder begins at zero.
ConsumedBug == Offset(dec) + Size
\* How much of the text the json.Decoder has consumed once Decode has answered.
Consumed == st.base + Offset(dec) + Size

\* io.EOF is taken for the end of the text, also when an Unmarshaler returned it.
Ends == {Scanned = "eof"} \cup (IF "eof" \in Cases /\ Size # 0 THEN {TRUE} ELSE {})

\* A value that does not fit its destination is answered with an error, but it
\* is consumed, and the next call goes on behind it.
DecodeEnd ==
    /\ call.op = "decode" /\ Scanned # "more"
    /\ Answer(Retains)
    /\ \E end \in Ends :
         st' = [st EXCEPT !.pos = IF end THEN Len(Input)
                                  ELSE IF Consumed > @ THEN Consumed ELSE @,
                          !.live = call.dest # "raw"]
    /\ got' = IF Size # 0 THEN Append(got, Value) ELSE got

\* A defect of the setters: the json.Decoder in use stays as it is.
LiveBug == st.live
\* invalidateDecoder.
Live == FALSE

Choose(o) ==
    /\ "options" \in Cases /\ Idle /\ changes < MaxChanges
    /\ st' = [st EXCEPT !.opts = o, !.live = Live]
    /\ changes' = changes + 1
    /\ UNCHANGED <<source, mem, dec, inp, call, got, kept>>

\* With both number options SetOptions panics and changes nothing.
SetOptions == \E o \in Options : Choose(o)
UseNumber == Choose((st.opts \ {"UseInt64"}) \cup {"UseNumber"})
UseInt64 == Choose((st.opts \ {"UseNumber"}) \cup {"UseInt64"})
DisallowUnknownFields == Choose(st.opts \cup {"DisableUnknown"})

\* The options stay.
Reset ==
    /\ Idle /\ changes < MaxChanges
    /\ \E t \in source.resets \ {Input} : source' = [source EXCEPT !.input = t]
    /\ st' = [st EXCEPT !.pos = 0, !.live = FALSE]
    /\ got' = <<>> /\ changes' = changes + 1
    /\ UNCHANGED <<mem, dec, inp, call, kept>>

Next ==
    \/ /\ (\E dest \in source.dests : Decode(dest)) \/ Read \/ ReadEnd \/ DecodeEnd
       /\ UNCHANGED source
    \/ SetOptions \/ UseNumber \/ UseInt64 \/ DisallowUnknownFields \/ Reset

\* CheckTrailings accepts what is left.
OnlySpacesLeft == \A i \in (st.pos + 1)..Len(Input) : Input[i] = Space

TypeOK == st.opts \in Options /\ st.pos \in 0..Len(Input) /\ st.live \in BOOLEAN
=============================================================================
