-------------------------------- MODULE RawControls --------------------------------
(***************************************************************************)
(* escapeRawControlsInStrings (src/internal/stdjsoncompat/json.go), through *)
(* which Unmarshal passes its input: control characters that stand raw in a *)
(* string become escapes, which encoding/json accepts.  The automaton that  *)
(* does it is run only when containsControlByte, which compares a word of   *)
(* bytes in one subtraction, has seen a control byte.                       *)
(***************************************************************************)
EXTENDS Integers, Sequences, FiniteSets

CONSTANTS
    High,               \* the highest bit of a byte: 0x80
    Control,            \* the first byte that is no control: 0x20
    Word,               \* bytes compared at once: 8
    Quote, Backslash,   \* 0x22, 0x5c
    Datas               \* the inputs

Bytes == 0..(2 * High - 1)

ASSUME ControlAssumption ==
    /\ High \in Nat \ {0} /\ Control \in 0..High /\ Word \in Nat \ {0}
    /\ Quote \in Bytes /\ Backslash \in Bytes /\ Quote # Backslash
    /\ Control <= Quote /\ Control <= Backslash
    /\ Datas \subseteq Seq(Bytes)

VARIABLES
    data,       \* the input
    stage,      \* "words" and "tail" of containsControlByte, "escape", "done"
    at,         \* the next byte
    left,       \* how many bytes of the word in hand are not compared yet
    borrow,     \* what the byte before borrows from the next, 0 or 1
    hit,        \* a control byte was seen
    out,        \* the bytes written; nothing is written before the first escape
    inString, escaped

controlVars == <<data, stage, at, left, borrow, hit, out, inString, escaped>>

ControlInit ==
    /\ data \in Datas
    /\ stage = "words" /\ at = 1 /\ left = 0 /\ borrow = 0 /\ hit = FALSE
    /\ out = <<>> /\ inString = FALSE /\ escaped = FALSE

-----------------------------------------------------------------------------------
(* containsControlByte.                                                            *)

NextWord ==
    /\ stage = "words" /\ left = 0
    /\ IF Len(data) - at + 1 >= Word
       THEN left' = Word /\ borrow' = 0 /\ UNCHANGED stage
       ELSE stage' = "tail" /\ UNCHANGED <<left, borrow>>
    /\ UNCHANGED <<data, at, hit, out, inString, escaped>>

\* A defect of the comparison: the bytes are masked with the word itself.
FlaggedBug(difference, byte) == difference >= High /\ byte >= High
\* One byte of (word - 0x2020202020202020) &^ word & 0x8080808080808080.
Flagged(difference, byte) == difference >= High /\ byte < High

\* One byte of a word: the subtraction goes over all of them, and a difference
\* below zero borrows from the byte above.  The word decides when it is done.
WordByte ==
    LET difference == data[at] - Control - borrow IN
    /\ stage = "words" /\ left > 0
    /\ borrow' = IF difference < 0 THEN 1 ELSE 0
    /\ hit' = (hit \/ Flagged(difference % (2 * High), data[at]))
    /\ left' = left - 1
    /\ IF left = 1 /\ hit' THEN stage' = "escape" /\ at' = 1
       ELSE at' = at + 1 /\ UNCHANGED stage
    /\ UNCHANGED <<data, out, inString, escaped>>

TailByte ==
    /\ stage = "tail" /\ at <= Len(data)
    /\ hit' = (data[at] < Control)
    /\ IF hit' THEN stage' = "escape" /\ at' = 1 ELSE at' = at + 1 /\ UNCHANGED stage
    /\ UNCHANGED <<data, left, borrow, out, inString, escaped>>

\* Without a control byte the input is used as it is.
Clean ==
    /\ stage = "tail" /\ at > Len(data)
    /\ stage' = "done" /\ UNCHANGED <<data, at, left, borrow, hit, out, inString, escaped>>

-----------------------------------------------------------------------------------
(* escapeRawControlsInStrings.                                                     *)

\* The escape of a control byte; Code stands for the five bytes u00XX.
Code(byte) == 2 * High + byte
Escape(byte) == <<Backslash, Code(byte)>>

\* A defect of the loop: a byte behind a backslash is escaped like any other.
EscapesBug(byte) == inString /\ byte < Control
Escapes(byte) == inString /\ ~escaped /\ byte < Control

EscapeByte ==
    LET byte == data[at] IN
    /\ stage = "escape" /\ at <= Len(data)
    /\ out' = IF Escapes(byte) THEN (IF out = <<>> THEN SubSeq(data, 1, at - 1) ELSE out) \o Escape(byte)
              ELSE IF out # <<>> THEN Append(out, byte) ELSE out
    /\ escaped' = (~escaped /\ inString /\ byte = Backslash)
    /\ inString' = IF ~escaped /\ byte = Quote THEN ~inString ELSE inString
    /\ at' = at + 1
    /\ UNCHANGED <<data, stage, left, borrow, hit>>

Escaped ==
    /\ stage = "escape" /\ at > Len(data)
    /\ stage' = "done" /\ UNCHANGED <<data, at, left, borrow, hit, out, inString, escaped>>

ControlNext == NextWord \/ WordByte \/ TailByte \/ Clean \/ EscapeByte \/ Escaped

ControlSpec == ControlInit /\ [][ControlNext]_controlVars

\* What Unmarshal goes on with: the input itself when nothing was escaped.
Normalized == IF out = <<>> THEN data ELSE out
-----------------------------------------------------------------------------------
(* Properties.                                                                     *)

ControlTypeOK ==
    /\ data \in Datas /\ stage \in {"words", "tail", "escape", "done"}
    /\ at \in 1..(Len(data) + 1) /\ left \in 0..Word /\ left <= Len(data) + 1 - at
    /\ borrow \in {0, 1} /\ hit \in BOOLEAN /\ inString \in BOOLEAN /\ escaped \in BOOLEAN

\* containsControlByte answers no only when no byte is a control, and yes only
\* when one is: a borrow between bytes neither hides one (json.go:213) nor makes
\* one up, for it begins at a control byte.
NothingHidden ==
    /\ ControlTypeOK
    /\ hit => \E j \in DOMAIN data : data[j] < Control
    /\ stage = "done" /\ ~hit => \A j \in DOMAIN data : data[j] >= Control

\* What a text says: its bytes outside strings, and what its strings hold, read
\* one escape at a time; a control byte means itself, raw or in an escape of ours.
Behind(byte) == IF byte >= 2 * High THEN <<"string", byte - 2 * High>> ELSE <<"escape", byte>>

\* The last k bytes, by whether a string is open in front of them; f says the same
\* of fewer bytes.
Say(text, f, k) ==
    LET byte == text[Len(text) + 1 - k] IN
    [inside \in BOOLEAN |->
       IF k = 0 THEN <<>>
       ELSE IF byte = Quote THEN <<<<"quote", byte>>>> \o f[k - 1][~inside]
       ELSE IF inside /\ byte = Backslash /\ k > 1
       THEN <<Behind(text[Len(text) + 2 - k])>> \o f[k - 2][TRUE]
       ELSE <<<<IF inside THEN "string" ELSE "outside", byte>>>> \o f[k - 1][inside]]

Meaning(text) ==
    LET last[k \in 0..Len(text)] == Say(text, last, k) IN last[Len(text)][FALSE]

\* The control bytes in the strings of a text.
Controls(meaning) ==
    {i \in DOMAIN meaning : meaning[i][1] = "string" /\ meaning[i][2] < Control}

\* The text that is decoded says what the input says, and exactly the raw control
\* bytes of its strings became escapes: not those outside, and not one that follows
\* a backslash, for which the text must still be refused.
EscapedTextIsTheSame ==
    stage = "done" =>
        /\ Meaning(Normalized) = Meaning(data)
        /\ Len(Normalized) - Len(data) = Cardinality(Controls(Meaning(data)))
====================================================================================
