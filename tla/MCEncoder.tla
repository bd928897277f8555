--------------------------------- MODULE MCEncoder ---------------------------------
(***************************************************************************)
(* Texts for the pool: two that fit the limit and one that exceeds it.      *)
(* Records for the stream: a one-byte and a two-byte value.                 *)
(***************************************************************************)
EXTENDS Encoder

MCSize == [v \in Values |-> IF v = "short" THEN 1 ELSE IF v = "fits" THEN 2 ELSE 3]
MCRecordSize == [v \in Records |-> IF v = "a" THEN 1 ELSE 2]
====================================================================================
