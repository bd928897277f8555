-------------------------- MODULE MCASTConcurrentRead --------------------------
(***************************************************************************)
(* ASTConcurrentRead on heaps in which nodes that share a slot array share  *)
(* their mutex.  A behaviour plays on one of the heaps, with the APIs that  *)
(* its hazard is about.                                                     *)
(***************************************************************************)
EXTENDS ASTConcurrentRead, ASTReadHeaps

ASSUME MutexPerArray

HeapOf(n) == CHOOSE h \in Heaps : n \in h
APIsOn(h) == IF h = HNodes THEN {"get", "json", "copy"}
             ELSE IF h = FNodes THEN {"get", "value", "json"}
             ELSE {"type", "each", "json"}

MCNext == \E g \in Goroutines :
             \/ Step(g)
             \/ \E n \in HeapOf(ptr[g]) : \E m \in APIsOn(HeapOf(n)) : Start(g, n, m)

MCSpec == Init /\ [][MCNext]_vars /\ \A g \in Goroutines : WF_vars(Step(g))
=============================================================================
