------------------------------- MODULE ASTNodeValue -------------------------------
(***************************************************************************)
(* What lazy nodes promise their readers: the value of a node is a function *)
(* of its text.  It is computed once, atomically, and a copy of a node has  *)
(* the status the node has when it is copied.                               *)
(***************************************************************************)
EXTENDS Naturals, Sequences

CONSTANTS Nodes, Copies, CopyOf,
          TextsOf,  \* the texts of a node's children, in order
          Bad       \* nodes whose text does not parse

VARIABLES status, children

\* The status and the children that reading node n for the first time yields.
Outcome(n) == IF n \in Bad THEN "error" ELSE "loaded"
Content(n) == IF n \in Bad THEN <<>> ELSE TextsOf[n]

Init ==
    /\ \A n \in Nodes : status[n] \in {"lazy", Outcome(n)} \/ (n \in Copies /\ status[n] = "absent")
    /\ children = [n \in Nodes |-> IF status[n] = Outcome(n) THEN Content(n) ELSE <<>>]

\* The first read that needs the value resolves it for every reader.
Resolve(n) ==
    /\ status[n] = "lazy"
    /\ status' = [status EXCEPT ![n] = Outcome(n)]
    /\ children' = [children EXCEPT ![n] = Content(n)]

Copy(d) ==
    /\ status[d] = "absent"
    /\ status[CopyOf[d]] # "absent"
    /\ status' = [status EXCEPT ![d] = status[CopyOf[d]]]
    /\ children' = [children EXCEPT ![d] = children[CopyOf[d]]]

Next == \/ \E n \in Nodes : Resolve(n)
        \/ \E d \in Copies : Copy(d)

Spec == Init /\ [][Next]_<<status, children>>
=============================================================================
