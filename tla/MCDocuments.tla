-------------------------------- MODULE MCDocuments --------------------------------
(***************************************************************************)
(* Texts of up to nine tokens, well-formed or one token away from it, some  *)
(* nested too deeply; destinations of every kind, empty and filled, two     *)
(* levels deep, slices with hidden elements; number literals around the     *)
(* limits of eight-bit integers; inputs of two words and a byte behind      *)
(* them; and strings longer than what is scanned byte by byte, with every   *)
(* sequence of backslashes and quotes.                                      *)
(***************************************************************************)
EXTENDS Documents

Grammar == GrammarOf(Strings, Scalars, MaxLength)
MCLanguage == Grammar
KeyGrammar == GrammarOf(Keys, Numbers, DecodeLength)
MCDecodeLanguage == KeyGrammar

NoValue == Openers \cup Closers \cup {",", ":", "?"}
MCSkipTexts == Damaged(9, Atoms \cup NoValue \cup {"nul"})
MCTexts == Values(9) \cup Damaged(8, Atoms \cup NoValue)

\* Up to five tokens; lists of three, and objects with two different keys.
MCDecodeTexts ==
    UNION {KeyGrammar[n] : n \in 1..5} \cup {v \in KeyGrammar[7] : Head(v) = "["}
    \cup {v \in KeyGrammar[9] : Head(v) = "{" /\ {v[2], v[6]} = Keys}

MCContent == [s \in Keys |-> IF s = "b" THEN "1" ELSE "none"]

\* NumberWalk's values.
Nil == [is |-> "nil", of |-> 0]
Leaf(t) == [is |-> "leaf", of |-> t]
List(s) == [is |-> "list", of |-> s]
Slice(s, n) == [is |-> "slice", of |-> s, len |-> n]
Obj(f) == [is |-> "obj", of |-> f]
Interface == [kind |-> "any", zero |-> Nil]

Int8 == [kind |-> "scalar", zero |-> Leaf("0"), accepts |-> {"1"}]
Custom1 == [kind |-> "custom", zero |-> Leaf("0"), accepts |-> {"1", "null"}]
PtrTo(t) == [kind |-> "ptr", zero |-> Nil, elem |-> t]
SliceOf(t) == [kind |-> "slice", zero |-> Nil, elem |-> t]
ArrayOf(t) == [kind |-> "array", zero |-> List(<<t.zero, t.zero>>), elem |-> t]
MapOf(t, ks) == [kind |-> "map", zero |-> Nil, elem |-> t, keys |-> ks, method |-> FALSE]
MapByMethod(t, ks) == [MapOf(t, ks) EXCEPT !.method = TRUE]
Struct(fs) ==
    [kind |-> "struct", zero |-> Obj([k \in DOMAIN fs |-> fs[k].type.zero]), fields |-> fs]
Fields(a, b) == [k \in Keys |-> IF k = "a" THEN a ELSE b]
FieldOf(t) == [type |-> t, quoted |-> FALSE, broken |-> FALSE]
Two8 == Struct(Fields(FieldOf(Int8), FieldOf(Int8)))

Types == {
    Interface, Int8, PtrTo(Int8), SliceOf(Int8), SliceOf(Interface), ArrayOf(Int8),
    ArrayOf(PtrTo(SliceOf(Int8))), MapOf(Int8, {"a"}), MapOf(Interface, Keys),
    MapByMethod(Int8, {"a"}), MapOf(ArrayOf(Interface), Keys), SliceOf(Custom1),
    SliceOf(Two8), SliceOf(SliceOf(Int8)),
    Struct(Fields(FieldOf(SliceOf(Int8)), FieldOf(Interface))),
    Struct([k \in {"a"} |-> FieldOf(Int8)]),
    Struct(Fields([FieldOf(Int8) EXCEPT !.quoted = TRUE], [FieldOf(Int8) EXCEPT !.broken = TRUE]))}

\* What a destination may hold already; slices also behind their length.
Old8 == Leaf("old")
OldElem(t) ==
    CASE t.kind = "slice" -> Slice(<<Old8, Old8>>, 1)
      [] t.kind = "struct" -> Obj([k \in Keys |-> Old8])
      [] OTHER -> Old8
Filled(t) ==
    LET old == Old8 IN
    {t.zero} \cup
    CASE t.kind = "slice" -> LET e == OldElem(t.elem)
                             IN {Slice(<<e, e, e>>, 3), Slice(<<e, e>>, 0), Slice(<<e, e>>, 1)}
      [] t.kind = "map" -> {Obj([k \in {"b"} |-> t.elem.zero])}
      [] t.kind = "array" /\ t.elem = Int8 -> {List(<<old, old>>)}
      [] t.kind = "any" -> {old}
      [] OTHER -> {}

\* disallow is for structs, dynamic for UnmarshalDynamic's two destinations.
Dynamic == {Interface, MapOf(Interface, Keys)}
MCGoals ==
    UNION {[type : {t}, old : Filled(t), dynamic : {t \in Dynamic, FALSE},
            disallow : {t.kind = "struct", FALSE}] : t \in Types}

\* JSON integers without leading zeros, of up to four digits, and numbers with a
\* point or an exponent.
Literals == UNION {[1..n -> {0, 1, 2, 7, 8, 9, NoDigit}] : n \in 1..4}
Integers4 == {d \in Literals : d[1] # NoDigit /\ (d[1] = 0 => Len(d) = 1 \/ d[2] = NoDigit)}
SignedIntegers == {[negative |-> n, digits |-> d] : n \in BOOLEAN, d \in Integers4}
MCRaws == SignedIntegers

\* Every input of up to five bytes: controls, quotes, backslashes, and others
\* below and above the highest bit.
FiveBytes == UNION {[1..n -> {0, 1, Backslash, Quote, 4, 7}] : n \in 0..5}
MCDatas == FiveBytes

\* Texts of at most n bytes, or pieces, behind a first one.
Upto(n, pieces) == UNION {[1..k -> pieces] : k \in 0..n}
Joined(f) == LET t[k \in 0..Len(f)] == IF k = 0 THEN <<>> ELSE t[k - 1] \o f[k] IN t[Len(f)]
ByteTexts ==
    {<<"\"">> \o f : f \in Upto(8, {"\"", "\\", "d"})}
    \cup {<<"\"">> \o Joined(f) : f \in
           Upto(5, {<<"\"">>, <<"\\">>, <<"\\", "u">>, <<"h">>, <<"l">>, <<"d">>})}
    \cup Upto(5, {"0", "1", "-", ".", "e", "+", ","})
    \cup {<<"[">> \o f : f \in Upto(6, {"[", "]", "\"", "\\"})}
MCAtomTexts == ByteTexts
====================================================================================
