--------------------------------- MODULE AtomEnds ---------------------------------
(***************************************************************************)
(* Where a string and a number end, and what a string holds, by every       *)
(* scanner of the library that goes over bytes.  The other modules take a   *)
(* string or a number for one token: this one shows that their scanners     *)
(* agree on what that token is.                                             *)
(*                                                                          *)
(* A byte is a string of one character.  \u is followed by one character in *)
(* place of four hexadecimal digits: "h" for a high surrogate, "l" for a    *)
(* low one, "d" for any other code.                                         *)
(***************************************************************************)
EXTENDS Integers, Sequences, FiniteSets

CONSTANT Short   \* bytes that scanStringEnd looks at one by one: 16

VARIABLE bytes   \* the bytes from the string or number on

DoubleQuote == "\""
Slash == "\\"
ByteAt(i) == IF i <= Len(bytes) THEN bytes[i] ELSE "end"

FirstAmong(from, set) ==
    LET js == {j \in from..Len(bytes) : bytes[j] \in set}
    IN IF js = {} THEN 0 ELSE CHOOSE j \in js : \A k \in js : j <= k
-----------------------------------------------------------------------------------
(* The end of a string: the position behind its closing quote, 0 if there is none. *)

\* The scan of bytes start+1 to last with a flag for the byte behind a backslash
\* (search.go, and both scanContainerEnds inside strings).
FlagEnd(start, last) ==
    LET run[j \in start..last] ==
          LET s == IF j = start THEN [escaped |-> FALSE, end |-> 0] ELSE run[j - 1] IN
          IF j = start \/ s.end # 0 THEN s
          ELSE IF s.escaped THEN [s EXCEPT !.escaped = FALSE]
          ELSE [escaped |-> bytes[j] = Slash, end |-> IF bytes[j] = DoubleQuote THEN j + 1 ELSE 0]
    IN run[last].end
FlagStringEnd(start) == FlagEnd(start, Len(bytes))

\* A defect of scanStringEnd: the backslashes are counted from where the search
\* began.
CountedFromBug(start, i) == i - 1
\* The backslashes in front of a quote are counted back to the opening quote.
CountedFrom(start, i) == start

\* fastjson.go: after Short bytes the flag is forgotten; from there the next quote
\* is searched, and closes the string if an even number of backslashes precede it.
FastStringEnd(start) ==
    LET i == IF start + Short < Len(bytes) THEN start + Short ELSE Len(bytes)
        slash(from, quote) ==
          CHOOSE j \in CountedFrom(start, from)..(quote - 1) :
            /\ j = CountedFrom(start, from) \/ bytes[j] # Slash
            /\ \A k \in (j + 1)..(quote - 1) : bytes[k] = Slash
        search[from \in 1..(Len(bytes) + 1)] ==
          LET quote == FirstAmong(from, {DoubleQuote}) IN
          IF quote = 0 THEN 0
          ELSE IF (quote - slash(from, quote) - 1) % 2 = 0 THEN quote + 1
          ELSE search[quote + 1]
    IN IF FlagEnd(start, i) # 0 THEN FlagEnd(start, i) ELSE search[i + 1]

\* decoder.go, encoder.go, int64.go and visitor.go: a backslash and the byte behind
\* it are passed over together.
PairStringEnd(start) ==
    LET from[j \in Nat] ==
          IF j > Len(bytes) THEN 0
          ELSE IF bytes[j] = Slash THEN from[j + 2]
          ELSE IF bytes[j] = DoubleQuote THEN j + 1 ELSE from[j + 1]
    IN from[start + 1]

-----------------------------------------------------------------------------------
(* What a string holds: [end, text], end being 0 if it is refused.                 *)

Hex(i) == ByteAt(i) \in {"d", "h", "l"}
Another(i) == ByteAt(i) = Slash /\ ByteAt(i + 1) = "u"
Replacement == "fffd"
Refused == [ok |-> FALSE, rune |-> "", next |-> 0]
Rune(rune, next) == [ok |-> TRUE, rune |-> rune, next |-> next]
Paired(i) == ByteAt(i + 2) = "h" /\ Another(i + 3) /\ ByteAt(i + 5) = "l"
\* A surrogate alone becomes U+FFFD; utf8 writes that for any surrogate.
Alone(i) == IF ByteAt(i + 2) = "d" THEN "d" ELSE Replacement

\* The escape \u at i, by localparser.go: whatever cannot be paired is looked at
\* again, from its backslash.
LocalRune(i) ==
    IF ~Hex(i + 2) THEN Refused
    ELSE IF Paired(i) THEN Rune("pair", i + 6) ELSE Rune(Alone(i), i + 3)

\* By visitor.go: a broken escape behind a high surrogate is refused at once.
VisitorRune(i) ==
    IF ~Hex(i + 2) THEN Refused
    ELSE IF ByteAt(i + 2) = "h" /\ Another(i + 3)
    THEN IF ~Hex(i + 5) THEN Refused
         ELSE IF ByteAt(i + 5) = "l" THEN Rune("pair", i + 6) ELSE Rune(Replacement, i + 3)
    ELSE Rune(Alone(i), i + 3)

\* By unquote.go, in a content that ends at last: the second escape is looked at
\* only when it is complete.
UnquoteRune(i, last) ==
    IF ~Hex(i + 2) THEN Refused
    ELSE IF ByteAt(i + 2) = "h" /\ i + 5 <= last /\ Another(i + 3)
    THEN IF ~Hex(i + 5) THEN Refused
         ELSE IF ByteAt(i + 5) = "l" THEN Rune("pair", i + 6) ELSE Rune(Replacement, i + 3)
    ELSE Rune(Alone(i), i + 3)

\* The loop over bytes and escapes that they share: what begins at start, up to
\* one of the positions ends; unicode[j] is the escape \u at j.
Decoded(unicode, ends, start) ==
    LET refused == [end |-> 0, text |-> <<>>]
        from[j \in Nat \ {0}] ==
          LET put(rune, s) == IF s.end = 0 THEN refused ELSE [s EXCEPT !.text = <<rune>> \o @]
          IN IF j \in ends THEN [end |-> j, text |-> <<>>]
             ELSE IF j > Len(bytes) THEN refused
             ELSE IF bytes[j] # Slash THEN put(bytes[j], from[j + 1])
             ELSE IF ByteAt(j + 1) \in {DoubleQuote, Slash} THEN put(ByteAt(j + 1), from[j + 2])
             ELSE IF ByteAt(j + 1) = "u" /\ unicode[j].ok
             THEN put(unicode[j].rune, from[unicode[j].next])
             ELSE refused
    IN from[start]

Quotes == {j \in DOMAIN bytes : bytes[j] = DoubleQuote}
LocalString == Decoded([i \in DOMAIN bytes |-> LocalRune(i)], Quotes, 2)
VisitorString == Decoded([i \in DOMAIN bytes |-> VisitorRune(i)], Quotes, 2)
\* unquote.String of the bytes up to last.
Unquoted(last) ==
    Decoded([i \in 1..last |-> UnquoteRune(i, last)], (last + 1)..(Len(bytes) + 1), 2)

-----------------------------------------------------------------------------------
(* The end of a number.                                                            *)

DigitByte == {"0", "1"}
Digits(i) ==
    CHOOSE j \in i..(Len(bytes) + 1) :
      ByteAt(j) \notin DigitByte /\ \A k \in i..(j - 1) : ByteAt(k) \in DigitByte

\* fastjson.go, search.go and localparser.go: a number must not be followed by a
\* character that could continue one, unless it is a zero.
FastNumberEnd ==
    LET int == IF ByteAt(1) = "-" THEN 2 ELSE 1
        dot == IF ByteAt(int) = "0" THEN int + 1 ELSE Digits(int)
        exp == IF ByteAt(dot) = "." THEN Digits(dot + 1) ELSE dot
        sign == IF ByteAt(exp + 1) \in {"+", "-"} THEN exp + 2 ELSE exp + 1
        end == IF ByteAt(exp) = "e" THEN Digits(sign) ELSE exp
    IN IF ByteAt(int) = "0" /\ ByteAt(int + 1) \notin {".", "e"} THEN int + 1
       ELSE IF \/ ByteAt(int) \notin DigitByte
               \/ ByteAt(dot) = "." /\ exp = dot + 1
               \/ ByteAt(exp) = "e" /\ end = sign
               \/ ByteAt(end) \in {"+", "-", ".", "e"}
       THEN 0 ELSE end

\* decoder.go: what follows is left to the scanner's next state.
SkipNumberEnd ==
    LET int == IF ByteAt(1) = "-" THEN 2 ELSE 1
        dot == IF ByteAt(int) = "0" THEN int + 1 ELSE Digits(int)
        exp == IF ByteAt(dot) = "." THEN Digits(dot + 1) ELSE dot
        sign == IF ByteAt(exp + 1) \in {"+", "-"} THEN exp + 2 ELSE exp + 1
        end == IF ByteAt(exp) = "e" THEN Digits(sign) ELSE exp
    IN IF \/ ByteAt(int) \notin DigitByte
          \/ ByteAt(dot) = "." /\ exp = dot + 1
          \/ ByteAt(exp) = "e" /\ end = sign
       THEN 0 ELSE end

\* int64.go: the text is valid, and a number ends at the next delimiter.
Delimiters == {",", "]", "}", " "}
RawNumberEnd == IF FirstAmong(1, Delimiters) = 0 THEN Len(bytes) + 1 ELSE FirstAmong(1, Delimiters)

-----------------------------------------------------------------------------------
(* The end of an array: the brackets outside strings.                              *)

\* Both scanContainerEnds: a flag for strings and one for the byte behind a
\* backslash.
FlagContainerEnd ==
    LET run[j \in 1..Len(bytes)] ==
          IF j = 1 THEN [string |-> FALSE, escaped |-> FALSE, depth |-> 1, end |-> 0]
          ELSE LET s == run[j - 1] IN
               IF s.end # 0 THEN s
               ELSE IF s.escaped THEN [s EXCEPT !.escaped = FALSE]
               ELSE IF s.string
               THEN [s EXCEPT !.escaped = bytes[j] = Slash, !.string = bytes[j] # DoubleQuote]
               ELSE IF bytes[j] = DoubleQuote THEN [s EXCEPT !.string = TRUE]
               ELSE IF bytes[j] = "[" THEN [s EXCEPT !.depth = @ + 1]
               ELSE IF bytes[j] # "]" THEN s
               ELSE [s EXCEPT !.depth = @ - 1, !.end = IF s.depth = 1 THEN j + 1 ELSE 0]
    IN run[Len(bytes)].end

\* visitor.go's skipContainer passes over pairs inside strings; int64.go's valueEnd
\* passes over a string at once.
SkipContainerEnd ==
    LET from[j \in Nat \ {0}] == [depth \in Int |->
          IF ByteAt(j) = "end" THEN 0
          ELSE IF bytes[j] = DoubleQuote
          THEN IF PairStringEnd(j) = 0 THEN 0 ELSE from[PairStringEnd(j)][depth]
          ELSE IF bytes[j] = "[" THEN from[j + 1][depth + 1]
          ELSE IF bytes[j] # "]" THEN from[j + 1][depth]
          ELSE IF depth = 1 THEN j + 1 ELSE from[j + 1][depth - 1]]
    IN from[2][1]

-----------------------------------------------------------------------------------
(* Properties.                                                                     *)

\* A quote ends the string at 1 if an even number of backslashes precede it.
StringEnds ==
    {j \in 2..Len(bytes) :
       bytes[j] = DoubleQuote /\ Cardinality({i \in 2..(j - 1) :
         \A k \in i..(j - 1) : bytes[k] = Slash}) % 2 = 0}
StringEnd == IF StringEnds = {} THEN 0
             ELSE (CHOOSE j \in StringEnds : \A k \in StringEnds : j <= k) + 1

\* All find the same end, however long the string is, and the three decoders, which
\* refuse more, refuse the same strings and find the same text in the others.
StringsAgree ==
    ByteAt(1) = DoubleQuote =>
        /\ FlagStringEnd(1) = StringEnd /\ FastStringEnd(1) = StringEnd
        /\ PairStringEnd(1) = StringEnd
        /\ VisitorString = LocalString
        /\ LocalString.end # 0 => LocalString.end + 1 = StringEnd
        /\ StringEnd # 0 =>
             LET unquoted == Unquoted(StringEnd - 2) IN
             unquoted.text = LocalString.text /\ unquoted.end \in {0, StringEnd - 1}

\* The numbers of the grammar (RFC 8259).
IsNumber(w) ==
    \E i \in 0..1, f \in 1..Len(w), e \in 1..Len(w) :
        LET Part(a, b) == SubSeq(w, a + 1, b)
            AllDigits(s) == s # <<>> /\ \A k \in DOMAIN s : s[k] \in DigitByte
            fraction == Part(f, e)
            exponent == Part(e, Len(w))
            signed == Len(exponent) > 1 /\ exponent[2] \in {"+", "-"}
        IN /\ Part(0, i) \in {<<>>, <<"-">>}
           /\ AllDigits(Part(i, f)) /\ (w[i + 1] = "0" => f = i + 1)
           /\ fraction = <<>> \/ (fraction[1] = "." /\ AllDigits(Tail(fraction)))
           /\ exponent = <<>> \/ /\ exponent[1] = "e"
                                 /\ AllDigits(SubSeq(exponent, IF signed THEN 3 ELSE 2, Len(exponent)))

\* In front of a delimiter all find exactly the numbers, and one that is found in
\* front of anything else is a number.
NumbersAgree ==
    ByteAt(1) \in DigitByte \cup {"-"} =>
        LET end == RawNumberEnd IN
        /\ FastNumberEnd = end <=> IsNumber(SubSeq(bytes, 1, end - 1))
        /\ SkipNumberEnd = end <=> IsNumber(SubSeq(bytes, 1, end - 1))
        /\ FastNumberEnd # 0 =>
             IsNumber(SubSeq(bytes, 1, FastNumberEnd - 1)) /\ SkipNumberEnd = FastNumberEnd

\* All find the same end of an array: no bracket in a string counts.
BracketsAgree ==
    ByteAt(1) = "[" => FlagContainerEnd = SkipContainerEnd

\* Every string and number is one token, the same for every scanner.
ScannersAgree == StringsAgree /\ NumbersAgree /\ BracketsAgree
===================================================================================
