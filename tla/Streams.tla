---------------------------------- MODULE Streams ----------------------------------
(***************************************************************************)
(* The three decoders that keep a json.Decoder between calls, each on what  *)
(* its source asks for, and what they promise.                              *)
(***************************************************************************)
EXTENDS JSONDecoder

VARIABLES sd, cs, st   \* StreamDecode's, CompatStream's, StringDecode's

S == INSTANCE StreamDecode
C == INSTANCE CompatStream
T == INSTANCE StringDecode

vars == <<source, mem, dec, inp, call, got, kept, changes, sd, cs, st>>

\* The source picks the decoder; the others do not exist.
Init ==
    /\ source \in Sources
    /\ CASE source.kind = "stream" -> S!Init /\ cs = <<>> /\ st = <<>>
         [] source.kind = "compat" -> C!Init /\ sd = <<>> /\ st = <<>>
         [] source.kind = "string" -> T!Init /\ sd = <<>> /\ cs = <<>>

Next ==
    \/ source.kind = "stream" /\ S!Next /\ UNCHANGED <<cs, st>>
    \/ source.kind = "compat" /\ C!Next /\ UNCHANGED <<sd, st>>
    \/ source.kind = "string" /\ T!Next /\ UNCHANGED <<sd, cs>>

Spec == Init /\ [][Next]_vars

-----------------------------------------------------------------------------
Stream == source.kind = "stream"
String == source.kind = "string"
Opts == IF Stream THEN sd.opts ELSE IF String THEN st.opts ELSE cs.opts
Terminal == IF Stream THEN sd.terminal ELSE ~String /\ cs.terminal

\* The bytes that are not consumed yet, where they are now.
Rest == Contents(dec) \o inp.pending \o Unread

\* How much of the input is consumed.
Consumed == IF Stream THEN sd.offset + Offset(dec)
            ELSE IF String THEN st.base + Offset(dec)
            ELSE Len(Input) - Len(Rest)

\* Where the caller is told that it is.
Position == IF Stream THEN S!InputOffset
            ELSE IF String THEN st.pos
            ELSE Len(Input) - Len(C!BufferedBytes \o inp.pending \o Unread)

\* Where the k-th value of the input ends.
EndOf(k) ==
    IF k = 0 THEN 0
    ELSE CHOOSE i \in 1..Len(Input) :
           IsLast(Input[i]) /\ Cardinality({j \in 1..i : IsLast(Input[j])}) = k

TypeOK ==
    /\ \A b \in DOMAIN mem : mem[b] \in Seq(Nat)
    /\ dec.buf \in 0..Len(mem) /\ dec.toggles \subseteq Sticky
    /\ dec.scanp <= dec.len /\ (dec.buf # 0 => dec.len <= Len(mem[dec.buf]))
    /\ ((String => st.live) => inp.read \in 0..Len(Input)) /\ call.dest \in {"plain", "raw"}
    /\ IF Stream THEN S!TypeOK ELSE IF String THEN T!TypeOK ELSE C!TypeOK

\* However often the decoder was replaced and its buffer refilled, the bytes not
\* consumed yet are exactly the input behind what was, and between calls nothing
\* was consumed but the values answered and spaces.
NoByteLost ==
    /\ TypeOK
    /\ (String => st.live) =>
          /\ Rest = SubSeq(Input, Consumed + 1, Len(Input))
          /\ Idle /\ ~Terminal =>
               /\ Consumed >= EndOf(Len(got))
               /\ \A i \in (EndOf(Len(got)) + 1)..Consumed : Input[i] = Space

\* Between calls the position the caller sees is behind the last value and at
\* most spaces after it (a string's decoder goes past those only at the end);
\* after an error a stream's is where the failed value begins, or how far the
\* reader got, and its Pos is the size of the last value.
OffsetsAreExact ==
    LET n == Len(got) IN
    Idle =>
        /\ Position >= EndOf(n)
        /\ ~Terminal \/ Stream => \A i \in (EndOf(n) + 1)..Position : Input[i] = Space
        /\ String => Position \in {EndOf(n), Len(Input)}
        /\ Stream /\ Terminal => sd.at = inp.read \/ Input[sd.at + 1] # Space
        /\ Stream /\ n > 0 /\ ~Terminal =>
             sd.pos = Cardinality({i \in (EndOf(n - 1) + 1)..EndOf(n) : Input[i] # Space})

\* A value is decoded under the options in force when Decode was called, also
\* one whose bytes were buffered before they changed; with UseInt64 the
\* json.Decoder only cuts the value out.
OptionsApply ==
    call.op = "decode" /\ "UseInt64" \notin Opts => dec.toggles = Opts \cap Sticky

\* The input bytes a caller retained are never overwritten
\* (docs/compatibility.md:54, stdjsonv2/raw_ownership_jsonv2_test.go:58).
RetainedStayIntact ==
    \A r \in kept : \A j \in 1..r.len : mem[r.buf][r.from + j - 1] \div 2 = r.val

\* The values of the input before the first malformed byte.
Values ==
    LET end == IF \E i \in DOMAIN Input : Input[i] = Malformed
               THEN CHOOSE i \in DOMAIN Input :
                      Input[i] = Malformed /\ \A j \in 1..(i - 1) : Input[j] # Malformed
               ELSE Len(Input)
        number == Cardinality({i \in 1..end : IsLast(Input[i])})
    IN [k \in 1..number |-> Input[EndOf(k)] \div 2]

\* decoder.go:567-571: successive calls return successive values, and ERR_EOF
\* is for a source that is exhausted.
EOFOnlyWhenExhausted ==
    String /\ Idle /\ st.pos = Len(Input) => Len(got) = Len(Values)

\* The buffering, the replaced decoders, the cached one and the sticky errors
\* together deliver the values of the input in order, none twice, and none
\* after an error that is final.
Delivered == INSTANCE ValueStream WITH text <- Input, values <- Values, ended <- Terminal
ImplementsStream == Delivered!Spec
=============================================================================
