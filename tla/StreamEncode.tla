------------------------------- MODULE StreamEncode -------------------------------
(***************************************************************************)
(* encoder.StreamEncoder (src/encoder/encoder.go) over streamEncoder        *)
(* (src/internal/stdjsoncompat/json.go): each value is encoded whole, then  *)
(* written out in as many writes as the io.Writer needs.  The options live  *)
(* in the embedded Encoder; the stream behind it has its own copy of them.  *)
(*                                                                          *)
(* The text of a value is RecordSize[v] cells that record the value and the *)
(* options it was formatted with, and a newline cell.                       *)
(***************************************************************************)
EXTENDS Naturals, Sequences

CONSTANTS
    Records, RecordSize,   \* the values, and the lengths of their texts
    Writers,     \* what a Write does: "short", "error", "liar"
    MaxRecords,  \* bound: Encode calls
    MaxChanges   \* bound: option changes

ASSUME StreamAssumption ==
    /\ RecordSize \in [Records -> Nat \ {0}]
    /\ Writers \subseteq {"short", "error", "liar"}
    /\ MaxRecords \in Nat /\ MaxChanges \in Nat

Bits == {"EscapeHTML", "NoEncoderNewline"}
LineEnd == "newline"

VARIABLES
    opts, indent,   \* the embedded Encoder: Opts, and whether it indents
    stream,         \* the stream's copy: [made, noNewline]
    lastOpts,       \* the Opts the stream was made with
    rest,           \* what Encode has not written yet; <<>> when no call is running
    out,            \* everything the writer has taken
    sent,           \* history: the texts of the values Encode began to write
    torn,           \* history: a Write failed
    encodes, changes  \* history: numbers of calls and of option changes

streamVars == <<opts, indent, stream, lastOpts, rest, out, sent, torn, encodes, changes>>
config == <<opts, indent, stream, lastOpts>>

StreamInit ==
    /\ opts = {} /\ indent = FALSE
    /\ stream = [made |-> FALSE, noNewline |-> FALSE] /\ lastOpts = {}
    /\ rest = <<>> /\ out = <<>> /\ sent = <<>> /\ torn = FALSE
    /\ encodes = 0 /\ changes = 0

Formatted(v, html, ind, noNewline) ==
    [i \in 1..RecordSize[v] |-> [val |-> v, html |-> html, indent |-> ind]]
    \o (IF noNewline THEN <<>> ELSE <<LineEnd>>)

\* A defect of Encode: a stream, once made, is kept.
StaleBug == ~stream.made
\* The stream is made anew when the options differ from those it was made with.
Stale == ~stream.made \/ lastOpts # opts

Current == IF Stale THEN [made |-> TRUE, noNewline |-> "NoEncoderNewline" \in opts] ELSE stream

\* Encode: the options are brought up to date and the whole value is encoded
\* into the stream's buffer; a value that cannot be encoded writes nothing.
Encode(v) ==
    /\ rest = <<>> /\ encodes < MaxRecords
    /\ stream' = Current
    /\ lastOpts' = opts
    /\ rest' = Formatted(v, "EscapeHTML" \in opts, indent, Current.noNewline)
    /\ sent' = sent \o Formatted(v, "EscapeHTML" \in opts, indent, "NoEncoderNewline" \in opts)
    /\ encodes' = encodes + 1
    /\ UNCHANGED <<opts, indent, out, torn, changes>>

EncodeFails ==
    /\ rest = <<>> /\ encodes < MaxRecords
    /\ stream' = Current
    /\ lastOpts' = opts
    /\ encodes' = encodes + 1
    /\ UNCHANGED <<opts, indent, rest, out, sent, torn, changes>>

\* The write loop goes on with what a short write left.
AfterWrite(n) == SubSeq(rest, n + 1, Len(rest))

\* One turn of the loop: the writer takes n of the bytes it was given.
WriteSome(n) ==
    /\ rest # <<>> /\ n \in 1..Len(rest)
    /\ n < Len(rest) => "short" \in Writers
    /\ out' = out \o SubSeq(rest, 1, n)
    /\ rest' = AfterWrite(n)
    /\ UNCHANGED <<config, sent, torn, encodes, changes>>

\* The writer fails after n bytes, or claims to have written none, or more
\* than it was given (io.ErrShortWrite).  Encode returns; the error is not kept.
WriteFails(n) ==
    /\ rest # <<>> /\ n \in 0..Len(rest)
    /\ \/ "error" \in Writers
       \/ "liar" \in Writers /\ n \in {0, Len(rest)}
    /\ out' = out \o SubSeq(rest, 1, n)
    /\ rest' = <<>> /\ torn' = TRUE
    /\ UNCHANGED <<config, sent, encodes, changes>>

SetEscapeHTML(on) == opts' = (IF on THEN opts \cup {"EscapeHTML"} ELSE opts \ {"EscapeHTML"})
SetNoEncoderNewline(on) ==
    opts' = (IF on THEN opts \cup {"NoEncoderNewline"} ELSE opts \ {"NoEncoderNewline"})

\* The setters of the embedded Encoder, between two calls.
Configure(on) ==
    /\ rest = <<>> /\ changes < MaxChanges
    /\ changes' = changes + 1
    /\ \/ (SetEscapeHTML(on) \/ SetNoEncoderNewline(on)) /\ UNCHANGED indent
       \/ indent' = on /\ UNCHANGED opts
    /\ UNCHANGED <<stream, lastOpts, rest, out, sent, torn, encodes>>

StreamNext ==
    \/ \E v \in Records : Encode(v)
    \/ EncodeFails
    \/ \E n \in 1..Len(rest) : WriteSome(n)
    \/ \E n \in 0..Len(rest) : WriteFails(n)
    \/ \E on \in BOOLEAN : Configure(on)

StreamSpec == StreamInit /\ [][StreamNext]_streamVars
-----------------------------------------------------------------------------
(* Properties.                                                              *)

\* Until a write fails, what the writer has taken and what is still to be
\* written are the records in order, complete, each in the format of the
\* options in force when its Encode was called, also after short writes,
\* option changes and values that could not be encoded
\* (docs/compatibility.md:52).
WriterTakesWholeRecords == ~torn => out \o rest = sent
=============================================================================
