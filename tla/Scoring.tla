------------------------------ MODULE Scoring ------------------------------
(***************************************************************************)
(* Result validation, validate.rs: decoding and scoring a miner's rows     *)
(* against the position-resolved graph, the energy gate, the flip-         *)
(* invariant deduplication, the diverse selection that becomes the proof,  *)
(* the rows the win stash keeps for an eased ceiling, and the replay of    *)
(* the chain's gates over held rows.                                       *)
(*                                                                         *)
(* A row is a sequence of spins in node order. select_diverse and          *)
(* calculate_diversity belong to the consensus crate: they are taken from  *)
(* the way this code describes and uses them (most separated subset, mean  *)
(* pairwise flip-invariant distance).                                      *)
(***************************************************************************)
EXTENDS Integers, Sequences, FiniteSetsExt, SequencesExt

CONSTANTS
  Nodes,                 \* node ids of the topology, in order
  Edges,                 \* its edges, pairs of node ids
  Fields,                \* h, one per node
  Couplings,             \* J, one per edge
  Inline,                \* the edges of a job that carries its own, as positions
  Results,               \* wire results: sequences of wire rows
  Gates,                 \* quality gates examined
  Ceilings,              \* energy ceilings a held proof may meet later
  MAX_PROOF_SOLUTIONS    \* rows the pallet decodes

NoEnergy == 1000000      \* i64::MAX, above every energy
STASH_SCAN_LIMIT == 4 * MAX_PROOF_SOLUTIONS

\* pos.get(id).unwrap_or(0), positions counted from 1
Position(id) == IF \E i \in DOMAIN Nodes : Nodes[i] = id
                THEN CHOOSE i \in DOMAIN Nodes : Nodes[i] = id ELSE 1

ResolvedTopo == [k \in DOMAIN Edges |-> <<Position(Edges[k][1]), Position(Edges[k][2])>>]

edges_pos(graph) ==
  CASE graph = "edges" -> Inline [] graph = "topology_hash" -> ResolvedTopo [] OTHER -> <<>>

\* decode_spins_packed refuses a row of another length or with padding bits set (0 here)
Decodable(row) == Len(row) = Len(Fields) /\ \A i \in DOMAIN row : row[i] \in {-1, 1}

canonicalize_spins(spins) ==
  IF spins # <<>> /\ spins[1] = -1 THEN [i \in DOMAIN spins |-> -spins[i]] ELSE spins

SumOver(S, f(_)) == MapThenSumSet(f, S)

\* the couplings that have an edge: edges_pos zipped with J
Terms(graph) == 1 .. Min({Len(edges_pos(graph)), Len(Couplings)})

\* an endpoint past the row has no energy
Scorable(spins, graph) ==
  \A k \in Terms(graph) : {edges_pos(graph)[k][1], edges_pos(graph)[k][2]} \subseteq DOMAIN spins

energy_of_row(spins, graph) ==
  SumOver(DOMAIN spins, LAMBDA i : Fields[i] * spins[i])
  + SumOver(Terms(graph), LAMBDA k :
      Couplings[k] * spins[edges_pos(graph)[k][1]] * spins[edges_pos(graph)[k][2]])

\* the rows that decode and have an energy, in the order they arrived
Scored(result, graph) ==
  LET kept == SelectSeq(result, LAMBDA r : Decodable(r) /\ Scorable(r, graph)) IN
  [i \in DOMAIN kept |-> [spins |-> kept[i], energy |-> energy_of_row(kept[i], graph)]]

\* keeps the first row of each class of rows equal up to a global flip
Unique(rows) ==
  LET fresh == {i \in DOMAIN rows : \A j \in 1 .. i - 1 :
                  canonicalize_spins(rows[j].spins) # canonicalize_spins(rows[i].spins)}
      order == SetToSortSeq(fresh, <)
  IN  [k \in DOMAIN order |-> rows[order[k]]]

Admitted(rows, ceiling) == SelectSeq(rows, LAMBDA r : r.energy < ceiling)
BestEnergy(rows) == IF rows = <<>> THEN NoEnergy ELSE Min({rows[i].energy : i \in DOMAIN rows})
-----------------------------------------------------------------------------
\* symmetric_hamming: the distance to the row or to its flip, whichever is less
Distance(a, b) ==
  LET d == Cardinality({i \in DOMAIN a : a[i] # b[i]}) IN Min({d, Len(a) - d})

Pairs(S) == {p \in S \X S : p[1] < p[2]}
Separation(rows, S) == SumOver(Pairs(S), LAMBDA p : Distance(rows[p[1]].spins, rows[p[2]].spins))

\* the `n` most separated rows, by index
select_diverse(rows, n) ==
  LET subsets == kSubset(n, DOMAIN rows) IN
  CHOOSE S \in subsets : \A T \in subsets : Separation(rows, T) <= Separation(rows, S)

\* mean pairwise distance in milli of a row length; fewer than two rows have none
calculate_diversity(rows, S) ==
  IF Cardinality(S) < 2 THEN 0
  ELSE (1000 * Separation(rows, S)) \div (Cardinality(Pairs(S)) * Len(Fields))

select_and_score(rows, min_solutions) ==
  LET S == select_diverse(rows, Min({Len(rows), Max({min_solutions, 1})}))
  IN  [selected |-> SetToSortSeq(S, <), diversity |-> calculate_diversity(rows, S)]

\* the chain's gates replayed over rows that carry their energy
check_proof_gates(rows, gates) ==
  LET admitted == Admitted(rows, gates.ceiling) IN
  /\ admitted # <<>>
  /\ Len(admitted) >= gates.min_solutions
  /\ select_and_score(admitted, gates.min_solutions).diversity >= gates.min_diversity

\* the selection materialised, cut at the pallet's bound
selected_solutions(rows, chosen) ==
  [k \in 1 .. Min({Len(chosen), MAX_PROOF_SOLUTIONS}) |-> rows[chosen[k]]]
-----------------------------------------------------------------------------
\* order.sort_by_key: stable, ascending energy
ByEnergy(rows) ==
  LET before(i, j) == rows[i].energy < rows[j].energy \/ (rows[i].energy = rows[j].energy /\ i < j)
      order == SetToSortSeq(DOMAIN rows, before)
  IN  [k \in DOMAIN rows |-> rows[order[k]]]

\* every row is taken, the lowest energies first
KeepsLowest(chosen, row, gates) ==
  IF Len(chosen) = MAX_PROOF_SOLUTIONS THEN chosen ELSE Append(chosen, row)

\* one pass of the loop: the row is held while the prefix it ends stays diverse
Keeps(chosen, row, gates) ==
  LET prefix == Append(chosen, row) IN
  IF \/ Len(chosen) = MAX_PROOF_SOLUTIONS
     \/ /\ Len(prefix) >= 2
        /\ select_and_score(prefix, gates.min_solutions).diversity < gates.min_diversity
  THEN chosen ELSE prefix

stash_rows(rows, gates) ==
  LET order == Unique(ByEnergy(rows))
      Chosen[n \in 0 .. Min({Len(order), STASH_SCAN_LIMIT})] ==
        IF n = 0 THEN <<>> ELSE Keeps(Chosen[n - 1], order[n], gates)
  IN  Chosen[Min({Len(order), STASH_SCAN_LIMIT})]

\* validate_result and validate_scored; a malformed problem refuses every row
validate_result(graph, result, gates) ==
  LET rows == IF graph = "malformed" THEN <<>> ELSE Scored(result, graph)
      valid == Unique(Admitted(rows, gates.ceiling))
      score == IF valid = <<>> THEN [selected |-> <<>>, diversity |-> 0]
               ELSE select_and_score(valid, gates.min_solutions) IN
  [n_valid |-> Len(valid),
   accepted |-> /\ graph # "malformed"
                /\ Len(valid) >= gates.min_solutions
                /\ score.diversity >= gates.min_diversity,
   best |-> BestEnergy([k \in DOMAIN score.selected |-> valid[score.selected[k]]]),
   raw_best |-> BestEnergy(rows),
   proof |-> selected_solutions(valid, score.selected),
   stash |-> stash_rows(rows, gates)]

\* gates_from_target before any target was advertised
NoTarget == [ceiling |-> NoEnergy, min_diversity |-> 0, min_solutions |-> 0]
-----------------------------------------------------------------------------
\* the chain refuses a difficulty that asks for diversity of a single row
OnChain(gates) == /\ gates.min_solutions \in 1 .. MAX_PROOF_SOLUTIONS
                  /\ gates.min_diversity > 0 => gates.min_solutions >= 2

NoTwins(rows) == \A i, j \in DOMAIN rows :
  i # j => canonicalize_spins(rows[i].spins) # canonicalize_spins(rows[j].spins)

(***************************************************************************)
(* A result that validate_result accepts is a proof the chain's own gates  *)
(* accept: the diverse selection packed into it, at most                   *)
(* MAX_PROOF_SOLUTIONS rows and never a row with its flip, still has       *)
(* enough rows and diversity when the chain filters and selects again.     *)
(* The rows held for later keep that promise under every ceiling the chain *)
(* may ease to: the gates then hold as soon as min_solutions of them are   *)
(* admitted, and the energy the projection rides on is one of theirs.      *)
(***************************************************************************)
ProofSurvives ==
  \A graph \in {"edges", "topology_hash", "none", "malformed"}, result \in Results,
     gates \in Gates \union {NoTarget} :
    LET v == validate_result(graph, result, gates) IN
    /\ \A rows \in {v.proof, v.stash} : Len(rows) <= MAX_PROOF_SOLUTIONS /\ NoTwins(rows)
    /\ BestEnergy(v.stash) = v.raw_best
    /\ OnChain(gates) =>
         /\ v.accepted <=> check_proof_gates(v.proof, gates)
         /\ \A c \in Ceilings :
              check_proof_gates(v.stash, [gates EXCEPT !.ceiling = c])
                <=> Len(Admitted(v.stash, c)) >= gates.min_solutions
=============================================================================
