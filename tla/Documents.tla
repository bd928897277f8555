--------------------------------- MODULE Documents ---------------------------------
(***************************************************************************)
(* The scans that go over one text with one cursor: Skip, which keeps a     *)
(* stack of states; Preorder, which calls a visitor; numberDecoder, which   *)
(* fills a destination; ParseNumberBytes, which it calls for a number; the  *)
(* escaping of control bytes in front of it; and the scanners of one string *)
(* or number, over bytes, that the others take for one token.  Each run of  *)
(* the program is one of them.  The properties of ParseNumber, RawControls  *)
(* and AtomEnds are stated in those modules.                                *)
(***************************************************************************)
EXTENDS Preorder, ParseNumber, RawControls, AtomEnds

CONSTANTS
    SkipTexts, MaxDepth,                             \* Skip's
    Keys, Numbers, DecodeLength, DecodeLanguage,     \* the decoder's grammar,
    DecodeTexts, Goals, Overflow, Content,           \* texts and destinations
    AtomTexts                                        \* the byte scanners'

ASSUME DocumentsAssumption ==
    /\ MaxDepth \in Nat \ {0} /\ Short \in Nat
    /\ Overflow \subseteq Numbers /\ Content \in [Keys -> Numbers \cup {"none"}]
    /\ \A g \in Goals : g.disallow \in BOOLEAN /\ g.dynamic \in BOOLEAN

VARIABLES
    scan,            \* "skip", "visit", "decode", "parse", "control" or "atom"
    frames,          \* Skip's and the decoder's stacks
    goal, dest, err  \* the decoder's

Skip == INSTANCE SkipScan WITH Texts <- SkipTexts
Decode == INSTANCE NumberWalk
          WITH Strings <- Keys, Scalars <- Numbers, MaxLength <- DecodeLength,
               Language <- DecodeLanguage, Texts <- DecodeTexts, out <- dest

visitor == <<stack, events, skipped>>
decoder == <<goal, dest, err>>
own == <<src, pos, phase, frames, result>>

Idle == "idle"
NoVisitor == stack = Idle /\ events = Idle /\ skipped = Idle
NoDecoder == goal = Idle /\ dest = Idle /\ err = Idle
NoText == src = Idle /\ pos = Idle /\ phase = Idle /\ frames = Idle /\ result = Idle
\* These two wait in one of their initial states.
AnyRaw == CHOOSE r \in Raws : TRUE
AnyData == CHOOSE d \in Datas : TRUE
NoParser == raw = AnyRaw /\ ParseInit
NoControls == data = AnyData /\ ControlInit
NoBytes == bytes = <<>>

AllInit ==
    /\ \/ scan = "skip" /\ Skip!Init /\ phase = Idle /\ NoVisitor /\ NoDecoder
       \/ scan = "visit" /\ Init /\ frames = Idle /\ NoDecoder
       \/ scan = "decode" /\ Decode!Init /\ result = Idle /\ NoVisitor
       \/ scan \in {"parse", "control", "atom"} /\ NoText /\ NoVisitor /\ NoDecoder
    /\ IF scan = "parse" THEN ParseInit ELSE NoParser
    /\ IF scan = "control" THEN ControlInit ELSE NoControls
    /\ IF scan = "atom" THEN bytes \in AtomTexts ELSE NoBytes

AllNext ==
    /\ \/ scan = "skip" /\ Skip!Next
          /\ UNCHANGED <<phase, visitor, decoder, parseVars, controlVars>>
       \/ scan = "visit" /\ Next /\ UNCHANGED <<frames, decoder, parseVars, controlVars>>
       \/ scan = "decode" /\ Decode!Next /\ UNCHANGED <<result, visitor, parseVars, controlVars>>
       \/ scan = "parse" /\ ParseNext /\ UNCHANGED <<own, visitor, decoder, controlVars>>
       \/ scan = "control" /\ ControlNext /\ UNCHANGED <<own, visitor, decoder, parseVars>>
    /\ UNCHANGED <<scan, bytes>>

AllSpec == AllInit /\ [][AllNext]_<<scan, bytes, own, visitor, decoder, parseVars, controlVars>>
-----------------------------------------------------------------------------------
(* Properties: each scan's own, where they are explained.                          *)

\* Skip and Valid accept exactly the values that nest as deeply as allowed, and
\* end where they end.
SkipFindsTheValue == scan = "skip" => Skip!SkipFindsTheValue

\* Skip never goes on over a text that cannot become a value.
FramesMatchTheText == scan = "skip" => Skip!FramesMatchTheText

\* Preorder's calls follow the document, whatever is skipped, and its end calls
\* match its begin calls, also on malformed text.
VisitorSeesTheDocument == scan = "visit" => EventsFollowTheDocument /\ EndsMatchBegins

\* Preorder accepts exactly the values.
VisitorAcceptsValues == scan = "visit" => WalkAcceptsValues

\* numberDecoder's cursor is behind each member's value, fitting or not.
CursorIsBehindEachValue == scan = "decode" => Decode!CursorIsBehindEachValue

\* numberDecoder's destination holds what the text means for it.
DestinationHoldsTheText == scan = "decode" => Decode!DestinationHoldsTheText
===================================================================================
