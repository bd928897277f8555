-------------------------- MODULE MCASTSeparateMutexes --------------------------
(* Two copies of one partly read array, each a child of its own container.  *)
(* Load of the containers gave each copy a mutex of its own (lazy.go:177).  *)
EXTENDS ASTConcurrentRead, ASTReadHeaps

SeparateMutexes == [n \in HNodes |-> n]
TwoPartlyRead == [HInitNode EXCEPT !["q"] = HInitNode["p"]]
=============================================================================
