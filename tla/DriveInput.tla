----------------------------- MODULE DriveInput -----------------------------
(***************************************************************************)
(* Drive with the sources of its jobs and its graph. They have no state:   *)
(* they are examined once, in one initial state.                           *)
(***************************************************************************)
EXTENDS Drive, Sources

AtStart == /\ Init /\ token /\ kind = CHOOSE w \in Workloads : TRUE
           /\ Cardinality(Range(id)) = Cardinality(Jobs)

\* build_jobs drains what the lease source or the list holds, no more and no less.
JobsSound == AtStart => JobsFaithful

\* A graph that a run resolves is the one the operator or the chain named.
GraphsSound == AtStart => GraphsFaithful
=============================================================================
