------------------------------- MODULE CompatStream -------------------------------
(***************************************************************************)
(* The stream decoder that the API's configurations hand out                *)
(* (src/internal/stdjsoncompat/json.go): its options come with it and are   *)
(* switched on only, so that the json.Decoder is replaced only when a       *)
(* caller keeps a part of its buffer.                                       *)
(***************************************************************************)
EXTENDS JSONDecoder

\* streamDecoder: [opts, terminal, detach]; useInt64 && !useNumber is
\* "UseInt64", which UseNumber ends.
VARIABLE cs

\* NewDecoder: with UseInt64 the json.Decoder, too, keeps numbers as text.
Toggles(o) == (o \cap Sticky) \cup (IF "UseInt64" \in o THEN {"UseNumber"} ELSE {})

Init ==
    \E o \in IF "options" \in Cases THEN Options ELSE {{}} :
        /\ InitDecoder(Toggles(o))
        /\ cs = [opts |-> o, terminal |-> FALSE, detach |-> FALSE]

Read == (\E c \in Chunks : Take(c)) /\ UNCHANGED cs
ReadEnd == TakeEnd /\ UNCHANGED cs

\* A defect of Decode: the new decoder reads on behind what the old one had.
ReaderBug == inp
\* The unread bytes of the old decoder, then the old reader.
Reader == [inp EXCEPT !.pending = Contents(dec) \o @]

Decode(dest) ==
    /\ Idle /\ ~cs.terminal
    /\ IF cs.detach
       THEN dec' = [NewDec EXCEPT !.toggles = cs.opts \cap Sticky] /\ inp' = Reader
       ELSE UNCHANGED <<dec, inp>>
    /\ cs' = [cs EXCEPT !.detach = FALSE]
    /\ call' = [NoCall EXCEPT !.op = "decode", !.dest = dest]
    /\ UNCHANGED <<mem, got, kept, changes>>

\* UseInt64 decodes through a json.RawMessage, which is a copy.
Retains == call.dest = "raw" /\ "UseInt64" \notin cs.opts

DecodeEnd ==
    /\ call.op = "decode" /\ Scanned # "more"
    /\ Answer(Retains)
    /\ \E fits \in Fits :
         /\ cs' = [cs EXCEPT !.detach = Retains, !.terminal = Size = 0 \/ ~fits]
         /\ got' = IF Size # 0 /\ fits THEN Append(got, Value) ELSE got

More == ~cs.terminal /\ StartMore /\ UNCHANGED cs
MoreEnd == PeekMore /\ UNCHANGED cs

\* The setters reach the json.Decoder at once.
Choose(o) ==
    /\ "options" \in Cases /\ Idle /\ changes < MaxChanges
    /\ cs' = [cs EXCEPT !.opts = o]
    /\ dec' = [dec EXCEPT !.toggles = @ \cup (o \cap Sticky)]
    /\ changes' = changes + 1
    /\ UNCHANGED <<mem, inp, call, got, kept>>

UseNumber == Choose((cs.opts \ {"UseInt64"}) \cup {"UseNumber"})
DisallowUnknownFields == Choose(cs.opts \cup {"DisableUnknown"})

Next ==
    /\ \/ \E dest \in source.dests : Decode(dest)
       \/ Read \/ ReadEnd \/ DecodeEnd \/ More \/ MoreEnd
       \/ UseNumber \/ DisallowUnknownFields
    /\ UNCHANGED source

\* What Buffered returns: nothing after an error, and no leading spaces.
BufferedBytes ==
    LET s == Contents(dec) IN
    IF cs.terminal THEN <<>> ELSE SubSeq(s, Spaces(s) + 1, Len(s))

TypeOK == cs.opts \in Options /\ cs.terminal \in BOOLEAN /\ cs.detach \in BOOLEAN
=============================================================================
