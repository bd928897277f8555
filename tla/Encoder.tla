---------------------------------- MODULE Encoder ----------------------------------
(***************************************************************************)
(* The two ways a value leaves the encoder: goroutines that marshal and     *)
(* append through the pool, and a StreamEncoder that writes records to an   *)
(* io.Writer.  They share no state; a run of the program is one of them.    *)
(***************************************************************************)
EXTENDS EncodePool, StreamEncode

VARIABLE way    \* "pool" or "stream"

BothInit == way \in {"pool", "stream"} /\ Init /\ StreamInit

BothNext ==
    /\ \/ way = "pool" /\ Next /\ UNCHANGED streamVars
       \/ way = "stream" /\ StreamNext /\ UNCHANGED vars
    /\ UNCHANGED way

BothSpec == BothInit /\ [][BothNext]_<<way, vars, streamVars>>
===================================================================================
