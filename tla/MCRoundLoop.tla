----------------------------- MODULE MCRoundLoop -----------------------------
(***************************************************************************)
(* Proof 1 clears as soon as its root exists, proof 2 one block later.     *)
(***************************************************************************)
EXTENDS RoundLoop

MCEasesAt == [n \in Nonces |-> n - 1]

\* Proof 1, or proof 1 with a resubmission and proof 2.
Once  == {[nonce |-> 1, copy |-> 1]}
Three == {[nonce |-> 1, copy |-> 1], [nonce |-> 1, copy |-> 2], [nonce |-> 2, copy |-> 1]}
=============================================================================
