------------------------------ MODULE Listing -------------------------------
(***************************************************************************)
(* Finite sets of numbers in ascending order, and the entries of a         *)
(* sequence at the places a set names: what collecting from a BTreeMap and *)
(* filtering an iterator yield, stated without a recursion.                *)
(***************************************************************************)
EXTENDS Naturals, Sequences, FiniteSets

Ascending(s) == \A i, k \in DOMAIN s : i < k => s[i] < s[k]

InOrderOf(S) == CHOOSE s \in [1 .. Cardinality(S) -> S] : Ascending(s)

\* The entries of s at the given places, in the order of s.
Picked(s, places) == LET at == InOrderOf(places) IN [i \in DOMAIN at |-> s[at[i]]]
=============================================================================
