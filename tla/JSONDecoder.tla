------------------------------- MODULE JSONDecoder -------------------------------
(***************************************************************************)
(* encoding/json's Decoder as the decoders of this library use it: a buffer *)
(* that the reader refills in place, options that can be switched on only,  *)
(* and an error that stays.  It is the standard library's.                  *)
(*                                                                          *)
(* Bytes are numbers: 0 is a space, 1 a byte no value may contain, 2v a     *)
(* byte of value v and 2v + 1 its last byte.                                *)
(***************************************************************************)
EXTENDS Naturals, Sequences, FiniteSets

CONSTANTS
    Scalars,    \* values that end only at the byte after them, or at the end
    MinRead,    \* the free room refill insists on
    MaxBuffers, \* bound: buffers allocated before a string is decoded further
    Sources     \* what is decoded, and how: see Source

Space == 0
Malformed == 1
IsLast(c) == c > 1 /\ c % 2 = 1

\* The sticky toggles of json.Decoder.
Sticky == {"UseNumber", "DisableUnknown"}
\* What an owner asks for: never UseNumber and UseInt64 both.
Options == {o \in SUBSET (Sticky \cup {"UseInt64"}) :
              ~({"UseNumber", "UseInt64"} \subseteq o)}

\* A value is spelled with its own bytes from its first byte to its last, unless
\* the text ends or a malformed byte comes before.
Texts == {t \in Seq(Nat) :
            \A i \in 1..(Len(t) - 1) :
                t[i] > 1 /\ ~IsLast(t[i]) =>
                    t[i + 1] = Malformed \/ t[i + 1] \div 2 = t[i] \div 2}

\* Who decodes which text into which destinations ("raw": one that may keep
\* input bytes), what happens meanwhile, at most how often, and which texts
\* Reset turns to.
Source == [kind : {"stream", "compat", "string"}, input : Texts,
           dests : SUBSET {"plain", "raw"},
           cases : SUBSET {"options", "more", "misfit", "fail", "eof"},
           changes : Nat, resets : SUBSET Texts]

ASSUME StreamAssumption ==
    /\ Scalars \subseteq Nat /\ MinRead \in Nat \ {0} /\ MaxBuffers \in Nat
    /\ Sources \subseteq Source

VARIABLES
    source,  \* one of Sources
    mem,     \* every buffer ever allocated, a sequence of bytes each
    dec,     \* json.Decoder: [buf, len, scanp, scanned, toggles, failed]
    inp,     \* the reader behind it: [pending, read]
    call,    \* the call in progress: [op, dest, before, end]
    got,     \* history: the values delivered
    kept,    \* history: retained values, [val, buf, from, len]
    changes  \* history: option changes and resets

Input == source.input          \* the bytes the reader delivers
Cases == source.cases
MaxChanges == source.changes   \* bound: option changes and resets

NewDec == [buf |-> 0, len |-> 0, scanp |-> 0, scanned |-> 0, toggles |-> {},
           failed |-> "no"]
NoCall == [op |-> "none", dest |-> "plain", before |-> 0, end |-> "no"]
Idle == call.op = "none"

InitDecoder(toggles) ==
    /\ mem = <<>> /\ dec = [NewDec EXCEPT !.toggles = toggles]
    /\ inp = [pending |-> <<>>, read |-> 0]
    /\ call = NoCall /\ got = <<>> /\ kept = {} /\ changes = 0

-----------------------------------------------------------------------------
(* The buffer.                                                              *)

Contents(d) == IF d.buf = 0 THEN <<>> ELSE SubSeq(mem[d.buf], d.scanp + 1, d.len)
\* dec.InputOffset().
Offset(d) == d.scanned + d.scanp

\* How many spaces s starts with.
Spaces(s) ==
    CHOOSE k \in 0..Len(s) :
        (\A i \in 1..k : s[i] = Space) /\ (k = Len(s) \/ s[k + 1] # Space)

\* readValue stops at a malformed byte or at the last byte of a value.
Stops(s) == {i \in 1..Len(s) : s[i] = Malformed \/ IsLast(s[i])}
Stop(s) == CHOOSE i \in Stops(s) : \A j \in Stops(s) : i <= j

\* What readValue makes of the buffered bytes s; end says whether the reader
\* has nothing more ("eof") or failed ("error").
Scan(s, end) ==
    IF Stops(s) # {} /\ s[Stop(s)] = Malformed THEN "malformed"
    ELSE IF /\ Stops(s) # {}
            /\ s[Stop(s)] \div 2 \in Scalars => Stop(s) < Len(s) \/ end = "eof"
    THEN "value"
    ELSE IF end = "no" THEN "more"
    ELSE IF end = "eof" /\ Spaces(s) = Len(s) THEN "eof"
    ELSE "cut"

\* Decode starts with the error that an earlier Decode ran into, if any.
Scanned == IF dec.failed # "no" THEN dec.failed ELSE Scan(Contents(dec), call.end)

\* More's peek looks for a byte that is not a space.
Peek(s, end) == IF Spaces(s) < Len(s) \/ end # "no" THEN "done" ELSE "more"

Wants == \/ call.op = "decode" /\ Scanned = "more"
         \/ call.op = "more" /\ Peek(Contents(dec), call.end) = "more"

\* refill, first part: the unread bytes slide to the start of the buffer, in
\* place; a buffer without room for MinRead more is replaced by a larger one.
Slid(m, d) ==
    IF d.buf = 0 THEN m
    ELSE LET s == Contents(d) IN
         [m EXCEPT ![d.buf] = s \o SubSeq(@, Len(s) + 1, Len(@))]
Refilled ==
    LET s == Contents(dec)
        cap == IF dec.buf = 0 THEN 0 ELSE Len(mem[dec.buf])
        grown == 2 * cap + MinRead
    IN
    IF cap - Len(s) >= MinRead
    THEN [mem |-> Slid(mem, dec), buf |-> dec.buf]
    ELSE [mem |-> Append(Slid(mem, dec), [i \in 1..grown |-> IF i <= Len(s) THEN s[i] ELSE Space]),
          buf |-> Len(mem) + 1]

\* refill, second part: the bytes that Read returned follow the unread ones.
Buffered(bytes) ==
    LET r == Refilled
        n == Len(Contents(dec))
    IN
    /\ mem' = [r.mem EXCEPT ![r.buf] = [i \in DOMAIN @ |->
                  IF i \in (n + 1)..(n + Len(bytes)) THEN bytes[i - n] ELSE @[i]]]
    /\ dec' = [dec EXCEPT !.buf = r.buf, !.len = n + Len(bytes), !.scanp = 0,
                          !.scanned = Offset(dec)]

-----------------------------------------------------------------------------
(* The reader: first what a rebuilt decoder was given back, then the text.  *)

Unread == SubSeq(Input, inp.read + 1, Len(Input))

\* What one Read may return.  A strings.Reader fills the room it is given;
\* other readers may deliver less.
Chunks ==
    LET room == Len(Refilled.mem[Refilled.buf]) - Len(Contents(dec))
        from == IF inp.pending # <<>> THEN inp.pending ELSE Unread
        most == IF room < Len(from) THEN room ELSE Len(from)
    IN {SubSeq(from, 1, n) :
          n \in IF source.kind = "string" THEN {most} \ {0} ELSE 1..most}

Take(c) ==
    /\ Wants /\ Buffered(c)
    /\ inp' = IF inp.pending = <<>> THEN [inp EXCEPT !.read = @ + Len(c)]
              ELSE [inp EXCEPT !.pending = SubSeq(@, Len(c) + 1, Len(@))]
    /\ UNCHANGED <<call, got, kept, changes>>

\* The reader has reached the end, or fails; the buffer has been moved already.
TakeEnd ==
    /\ Wants /\ inp.pending = <<>>
    /\ \E end \in {"eof", "error"} :
         /\ IF end = "eof" THEN Unread = <<>> ELSE "fail" \in Cases
         /\ call' = [call EXCEPT !.end = end]
    /\ Buffered(<<>>)
    /\ UNCHANGED <<inp, got, kept, changes>>

-----------------------------------------------------------------------------
(* Decode and More of the json.Decoder.                                     *)

\* The size of the value readValue found, with the spaces before it.
Size == IF Scanned = "value" THEN Stop(Contents(dec)) ELSE 0
Value == Contents(dec)[Size] \div 2
Fits == {TRUE} \cup (IF "misfit" \in Cases /\ Scanned = "value" THEN {FALSE} ELSE {})

\* Decode has an answer.  A value that does not fit is consumed; any other
\* error stays.  With retains the caller keeps a part of the buffer.
Answer(retains) ==
    LET spaces == Spaces(Contents(dec)) IN
    /\ dec' = [dec EXCEPT !.scanp = @ + Size,
                          !.failed = IF Scanned = "value" THEN "no" ELSE Scanned]
    /\ kept' = kept \cup
         (IF Scanned = "value" /\ retains
          THEN {[val |-> Value, buf |-> dec.buf, from |-> dec.scanp + spaces + 1,
                 len |-> Size - spaces]}
          ELSE {})
    /\ call' = NoCall
    /\ UNCHANGED <<mem, inp, changes>>

\* More moves the decoder to the next byte that is not a space.
PeekMore ==
    LET s == Contents(dec) IN
    /\ call.op = "more" /\ Peek(s, call.end) = "done"
    /\ dec' = [dec EXCEPT !.scanp = IF Spaces(s) < Len(s) THEN @ + Spaces(s) ELSE @]
    /\ call' = NoCall
    /\ UNCHANGED <<mem, inp, got, kept, changes>>

StartMore ==
    /\ "more" \in Cases /\ Idle
    /\ call' = [NoCall EXCEPT !.op = "more"]
    /\ UNCHANGED <<mem, dec, inp, got, kept, changes>>
=============================================================================
