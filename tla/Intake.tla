------------------------------- MODULE Intake -------------------------------
(***************************************************************************)
(* The jobs the coordinator carries, and the chain reads they come from.   *)
(* ChainReads has no state: it is examined once, in the initial state.     *)
(***************************************************************************)
EXTENDS JobFlow, ChainReads

(***************************************************************************)
(* What the live client reads is what the chain holds: ReadsFaithful, of   *)
(* fetch_mempool_orders, fetch_pending_proofs and topology_meta.           *)
(***************************************************************************)
ReadsSound == Init => ReadsFaithful
=============================================================================
