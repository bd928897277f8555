------------------------------- MODULE StreamDecode -------------------------------
(***************************************************************************)
(* decoder.StreamDecoder (src/decoder/decoder.go): values decoded one by    *)
(* one from an io.Reader.  The json.Decoder is replaced when an option is   *)
(* switched off and when a caller keeps a part of its buffer.               *)
(***************************************************************************)
EXTENDS JSONDecoder

\* StreamDecoder: [offset, opts, configured, terminal, at, detach, pos,
\* leading, waiting]; at is where the terminal error happened, pos the embedded
\* Decoder's position, leading and waiting are streamInput's.
VARIABLE sd

Init ==
    /\ InitDecoder({})
    /\ sd = [offset |-> 0, opts |-> {}, configured |-> {}, terminal |-> FALSE,
             at |-> 0, detach |-> FALSE, pos |-> 0, leading |-> 0, waiting |-> FALSE]

\* streamInput.Read: leading spaces are counted until the value begins.
Read ==
    \E c \in Chunks :
        /\ Take(c)
        /\ sd' = [sd EXCEPT !.leading = IF sd.waiting THEN @ + Spaces(c) ELSE @,
                            !.waiting = @ /\ Spaces(c) = Len(c)]

ReadEnd == TakeEnd /\ UNCHANGED sd

\* configure: json.Decoder's toggles are one-way, and a buffer that a caller's
\* value points into must not be refilled.
Rebuild == sd.detach \/ (sd.configured \cap Sticky) \ sd.opts # {}

\* The unread bytes of the old decoder are read again by the new one.
GivenBack(s) == s

\* Decode looks at the buffered spaces before the value.
Leading(s) == Spaces(s)

Decode(dest) ==
    LET d == IF Rebuild THEN NewDec ELSE dec
        s == Contents(d)
    IN
    /\ Idle /\ ~sd.terminal
    /\ dec' = [d EXCEPT !.toggles = @ \cup (sd.opts \cap Sticky)]
    /\ inp' = [inp EXCEPT !.pending = IF Rebuild THEN GivenBack(Contents(dec)) \o @ ELSE @]
    /\ sd' = [sd EXCEPT !.offset = IF Rebuild THEN @ + Offset(dec) ELSE @,
                        !.configured = sd.opts,
                        !.detach = IF Rebuild THEN FALSE ELSE @,
                        !.leading = Leading(s), !.waiting = Spaces(s) = Len(s)]
    /\ call' = [op |-> "decode", dest |-> dest, before |-> Offset(d), end |-> "no"]
    /\ UNCHANGED <<mem, got, kept, changes>>

\* UseInt64 decodes through a json.RawMessage, which is a copy.
Retains == call.dest = "raw" /\ "UseInt64" \notin sd.opts

\* A defect of Decode: a value that does not fit leaves the stream usable.
EndedBug(fits) == Scanned # "value"
\* Every error is final.
Ended(fits) == Scanned # "value" \/ ~fits

\* A defect of Decode: the buffer is kept although a value points into it.
DetachBug == FALSE
Detach == Retains

\* Decode once the json.Decoder has an answer.
DecodeEnd ==
    /\ call.op = "decode" /\ Scanned # "more"
    /\ Answer(Retains)
    /\ \E fits \in Fits :
         /\ sd' = [sd EXCEPT
                     !.detach = Detach,
                     !.terminal = Ended(fits),
                     !.at = IF Ended(fits) THEN sd.offset + call.before + sd.leading ELSE @,
                     !.pos = IF Size = 0 THEN @
                             ELSE Offset(dec) + Size - call.before - sd.leading]
         /\ got' = IF Size # 0 /\ fits THEN Append(got, Value) ELSE got

\* More: json.Decoder's peek, on the decoder as it is.
More == ~sd.terminal /\ StartMore /\ UNCHANGED sd

MoreEnd == PeekMore /\ UNCHANGED sd

\* The options in force from the next value on.
Choose(o) ==
    /\ "options" \in Cases /\ Idle /\ changes < MaxChanges
    /\ sd' = [sd EXCEPT !.opts = o]
    /\ changes' = changes + 1
    /\ UNCHANGED <<mem, dec, inp, call, got, kept>>

SetOptions == \E o \in Options : Choose(o)
UseNumber == Choose((sd.opts \ {"UseInt64"}) \cup {"UseNumber"})
UseInt64 == Choose((sd.opts \ {"UseNumber"}) \cup {"UseInt64"})
DisallowUnknownFields == Choose(sd.opts \cup {"DisableUnknown"})

Next ==
    /\ \/ \E dest \in source.dests : Decode(dest)
       \/ Read \/ ReadEnd \/ DecodeEnd \/ More \/ MoreEnd
       \/ SetOptions \/ UseNumber \/ UseInt64 \/ DisallowUnknownFields
    /\ UNCHANGED source

\* StreamDecoder.InputOffset.
InputOffset == IF sd.terminal THEN sd.at
               ELSE sd.offset + Offset(dec) + Spaces(Contents(dec))

TypeOK ==
    /\ sd.opts \in Options /\ sd.configured \in Options
    /\ sd.pos \in Nat /\ sd.leading \in Nat /\ sd.waiting \in BOOLEAN
=============================================================================
