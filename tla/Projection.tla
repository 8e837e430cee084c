----------------------------- MODULE Projection -----------------------------
(***************************************************************************)
(* The win stash (Settlement) with the arithmetic behind its projections   *)
(* (Decay), which has no state: it is examined once, in the initial state. *)
(***************************************************************************)
EXTENDS Settlement, Decay

\* The win stash's projection is exact: ProjectionExact, for the curves of Models.
ProjectionSound == Init => ProjectionExact
=============================================================================
