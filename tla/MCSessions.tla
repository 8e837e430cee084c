----------------------------- MODULE MCSessions ------------------------------
(***************************************************************************)
(* Both sessions carry the id of one miner.                                *)
(***************************************************************************)
EXTENDS Sessions

SameMiner == [s \in SessionIds |-> 1]
=============================================================================
