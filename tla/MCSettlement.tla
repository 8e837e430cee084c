---------------------------- MODULE MCSettlement ----------------------------
(***************************************************************************)
(* The chain eases its ceiling by the stepwise rule, one step a block: it  *)
(* asks for less than 2 at first and less than 3 one block later. The      *)
(* stepwise projection is the search of Decay; the other rule stands for a *)
(* projection made under another runtime, which clears every energy at     *)
(* once. Energy 3 is beyond the stepwise horizon.                          *)
(*                                                                         *)
(* Decay and Scoring have no state: they are examined once, in the initial *)
(* state.                                                                  *)
(***************************************************************************)
EXTENDS Projection, Scoring

Milli(e) == 1000 * e

\* the round's threshold: base 2, one minimum step a block
RoundModel ==
  [base |-> Milli(2), curve |-> [min_milli |-> 0, max_milli |-> Milli(10), known |-> TRUE],
   epoch_length |-> 1, algorithm |-> "stepwise"]

MCCeiling == [n \in 0 .. MaxElapsed |-> threshold_at(RoundModel, n) \div 1000]

MCClearing ==
  [r \in Rules |-> [e \in Energies |->
     IF r = "continuous" THEN 0 ELSE first_clearing_elapsed(RoundModel, Milli(e), MaxElapsed + 1)]]

\* two bases, an easing curve, a degenerate one and none, whole and broken epochs
MCModels ==
  [base : {-12000, -10500},
   curve : {[min_milli |-> -20000, max_milli |-> -8700, known |-> TRUE],
            [min_milli |-> -8000, max_milli |-> -9000, known |-> TRUE], NoCurve},
   epoch_length : {0, 50, 60, 100}, algorithm : {"stepwise", "continuous", "gated"}]

\* a path of four nodes with one edge to a node the topology does not list
MCNodes == <<10, 11, 12, 13>>
MCEdges == << <<10, 11>>, <<11, 12>>, <<12, 13>>, <<13, 99>> >>
MCFields == <<1, 0, -1, 1>>
MCCouplings == <<-2, 1, -1, 1>>
MCInline == << <<1, 3>>, <<2, 4>> >>

\* rows, a flip of one of them, and one that is too short
MCRows == {<<1, 1, 1, 1>>, <<-1, -1, -1, -1>>, <<1, 1, 1, -1>>, <<1, 1, -1, -1>>,
           <<1, -1, 1, -1>>, <<1, 1, 1>>}
MCResults == UNION {[1 .. n -> MCRows] : n \in 0 .. 4}
MCGates == [ceiling : {0, 3}, min_diversity : {0, 300}, min_solutions : 1 .. 3]

\* What validation accepts and what it holds for later pass the chain's gates: ProofSurvives.
ProofsSound == Init => ProofSurvives
=============================================================================
