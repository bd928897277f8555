------------------------------- MODULE ASTContainer -------------------------------
(***************************************************************************)
(* What an ast.Node container promises its one owner: an ordered list of    *)
(* members, as if the text had been parsed at once.  Reading never changes  *)
(* it, except that reading on into malformed text turns the node into an    *)
(* error.                                                                   *)
(***************************************************************************)
EXTENDS Naturals, Sequences

CONSTANT Fresh     \* the members a caller may insert

\* text: what the node is made from, [kind, prefix, bad]: its members before the
\* first malformed one, and whether there is one.
\* bad: the malformed member has not been reached yet.
VARIABLES text, typ, members, bad

RemoveAt(s, i) == SubSeq(s, 1, i - 1) \o SubSeq(s, i + 1, Len(s))
InsertAt(s, i, e) == SubSeq(s, 1, i - 1) \o <<e>> \o SubSeq(s, i, Len(s))

Init ==
    \/ typ = text.kind /\ members = text.prefix /\ bad = text.bad
    \/ typ = "none" /\ members = <<>> /\ bad = FALSE

Fail ==
    /\ bad
    /\ typ' = "error" /\ members' = <<>> /\ bad' = FALSE

\* An absent node becomes a container of one member.
Promote(m) ==
    /\ typ = "none"
    /\ typ' \in {"array", "object"} /\ members' = <<m>>
    /\ UNCHANGED bad

Insert(m) == typ \in {"array", "object"} /\ ~bad /\ members' = Append(members, m)

Replace(i, v) == members' = [members EXCEPT ![i].val = v]

Remove(i) == ~bad /\ members' = RemoveAt(members, i)

Move(dst, src) ==
    typ = "array" /\ ~bad /\ members' = InsertAt(RemoveAt(members, src), dst, members[src])

\* The members by key; those with equal keys keep their order.
Sort ==
    \E p \in [DOMAIN members -> DOMAIN members] :
      /\ typ = "object" /\ ~bad
      /\ members' = [i \in DOMAIN members |-> members[p[i]]]
      /\ \A i, j \in DOMAIN members : i < j =>
           \/ members[p[i]].key < members[p[j]].key
           \/ members[p[i]].key = members[p[j]].key /\ p[i] < p[j]

\* The value is replaced by a new one; malformed text makes an error at once.
Unmarshal ==
    /\ typ' = (IF text.bad THEN "error" ELSE text.kind)
    /\ members' = (IF text.bad THEN <<>> ELSE text.prefix)
    /\ bad' = FALSE

Edit ==
    \/ \E m \in Fresh : Insert(m)
    \/ \E i \in DOMAIN members :
         \/ Remove(i)
         \/ \E m \in Fresh : Replace(i, m.val)
         \/ \E j \in DOMAIN members : Move(i, j)
    \/ Sort

Next ==
    /\ \/ Fail \/ Unmarshal
       \/ \E m \in Fresh : Promote(m)
       \/ Edit /\ UNCHANGED <<typ, bad>>
    /\ UNCHANGED text

Spec == Init /\ [][Next]_<<text, typ, members, bad>>
=============================================================================
