--------------------------------- MODULE JSONText ---------------------------------
(***************************************************************************)
(* JSON texts as sequences of tokens; the white space between tokens, which *)
(* every scanner skips, is left out.  This is the grammar the scanners are  *)
(* compared with: the language, not a way to recognise it.                  *)
(***************************************************************************)
EXTENDS Naturals, Sequences

CONSTANTS Strings,    \* string tokens, which may be keys
          Scalars,    \* numbers and literals
          MaxLength,  \* bound: tokens of a value
          Language    \* GrammarOf these: a constant, so that it is computed once for a run

Openers == {"[", "{"}
Closers == {"]", "}"}

\* The values of n tokens, made from shorter lists: s[k] holds the
\* comma-separated items and the members of k tokens.
ValuesOf(strings, scalars, n, s) ==
    IF n = 1 THEN {<<a>> : a \in strings \cup scalars}
    ELSE IF n = 2 THEN {<<"[", "]">>, <<"{", "}">>}
    ELSE {<<"[">> \o x \o <<"]">> : x \in s[n - 2].items}
         \cup {<<"{">> \o x \o <<"}">> : x \in s[n - 2].members}

Level(strings, scalars, n, s) ==
    LET whole == ValuesOf(strings, scalars, n, s)
        member == IF n < 3 THEN {} ELSE {<<p[1], ":">> \o p[2] : p \in strings \X s[n - 2].value}
        Listed(one, more) == UNION {{p[1] \o <<",">> \o p[2] : p \in one[k] \X more[n - k - 1]} :
                                      k \in 1..(n - 2)}
    IN [value |-> whole, member |-> member,
        items |-> whole \cup Listed([k \in 1..(n - 1) |-> s[k].value], [k \in 1..(n - 1) |-> s[k].items]),
        members |-> member \cup Listed([k \in 1..(n - 1) |-> s[k].member], [k \in 1..(n - 1) |-> s[k].members])]

\* The values of one token, of two, and so on.
GrammarOf(strings, scalars, length) ==
    LET upTo[n \in 0..length] ==
          IF n = 0 THEN <<>> ELSE LET s == upTo[n - 1] IN Append(s, Level(strings, scalars, n, s))
        levels == upTo[length - 2]
        grammar[n \in 0..length] ==
          IF n = 0 THEN <<>> ELSE Append(grammar[n - 1], ValuesOf(strings, scalars, n, levels))
    IN grammar[length]

Atoms == Strings \cup Scalars

IsValue(text) == Len(text) \in 1..MaxLength /\ text \in Language[Len(text)]

\* The length of the value that text has at position i, 0 if it has none.
ValueLength(text, i) ==
    LET lengths == {n \in 1..(Len(text) + 1 - i) : IsValue(SubSeq(text, i, i + n - 1))}
    IN IF lengths = {} THEN 0 ELSE CHOOSE n \in lengths : TRUE

\* How many containers the value at position j of text is nested in.
NestedIn(text, j) ==
    LET Count(kind) == Len(SelectSeq(SubSeq(text, 1, j - 1), LAMBDA t : t \in kind))
    IN Count(Openers) - Count(Closers)

\* Every value in text is nested in at most depth containers.
Shallow(text, depth) ==
    \A j \in DOMAIN text : text[j] \in Atoms \cup Openers => NestedIn(text, j) <= depth

\* The values of at most n tokens.
Values(n) == UNION {Language[k] : k \in 1..n}

\* A value with a token replaced or added at its end, or cut off before one:
\* at its own end it stays whole.
Cut == "cut"
DamagedAt(v, j, t) ==
    IF t = Cut THEN SubSeq(v, 1, j - 1)
    ELSE SubSeq(v, 1, j - 1) \o <<t>> \o SubSeq(v, j + 1, Len(v))

\* The values of at most n tokens, and those damaged with one of ts.
Damaged(n, ts) ==
    LET places == {p \in Values(n) \X (1..(n + 1)) : p[2] <= Len(p[1]) + 1}
    IN {DamagedAt(p[1], p[2], t) : p \in places, t \in ts \cup {Cut}}
===================================================================================
