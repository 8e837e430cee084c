------------------------------- MODULE Decay -------------------------------
(***************************************************************************)
(* The difficulty-decay arithmetic of decay.rs: the three rules the chain  *)
(* has shipped (one step per whole epoch, per-block easing with a faster   *)
(* overdue phase, and no easing before the target), the threshold they     *)
(* give at every block of a round, and the binary search by which the win  *)
(* stash learns when an energy first clears. Energies are in milli, as in  *)
(* the code; the constants of the pallet keep their values.                *)
(*                                                                         *)
(* ease_room is geometric while the room is above its crossover (f64       *)
(* logarithms and powers, not modelled) and linear below it: Models holds  *)
(* only rooms in the linear regime, where every value is exact.            *)
(***************************************************************************)
EXTENDS Integers, FiniteSetsExt

CONSTANTS
  Models,    \* the DecayModels examined
  Horizon    \* DECAY_HORIZON_BLOCKS

DECAY_RATE_MILLI == 25
OVERDUE_EASE_RATE_MILLI == 25
MIN_ENERGY_DELTA_MILLI == 1000
TARGET_PROOF_BLOCKS == 100

Curve == [min_milli : Int, max_milli : Int, known : BOOLEAN]
Algorithms == {"stepwise", "continuous", "gated"}
DecayModel == [base : Int, curve : Curve, epoch_length : Nat, algorithm : Algorithms]

NoCurve == [min_milli |-> 0, max_milli |-> 0, known |-> FALSE]

\* x / y rounded half away from zero, for x and y not negative
Rounded(x, y) == (2 * x + y) \div (2 * y)

\* max_milli <= min_milli: the rules leave such a curve alone
Degenerate(curve) == curve.max_milli <= curve.min_milli

geometric_floored(room) ==
  Max({Rounded(room * DECAY_RATE_MILLI, 1000), MIN_ENERGY_DELTA_MILLI})

ease_step(current, curve) ==
  LET room == curve.max_milli - current IN
  IF Degenerate(curve) \/ room <= 0 THEN current
  ELSE current + Min({geometric_floored(room), room})

ease_stepwise(base, steps, curve) ==
  LET After[n \in 0 .. steps] == IF n = 0 THEN base ELSE ease_step(After[n - 1], curve)
  IN  After[steps]

\* combined rate of the two phases, in millionths: 1 - (1 - 0.025) * (1 - 0.025)
CombinedRate == 1000000 - (1000 - DECAY_RATE_MILLI) * (1000 - OVERDUE_EASE_RATE_MILLI)

\* the room below which the minimum step beats the geometric one
InLinearRegime(room, rate) == room * rate <= MIN_ENERGY_DELTA_MILLI * 1000000

ASSUME LinearAssumption ==
  /\ Horizon \in Nat
  /\ Models \subseteq DecayModel
  /\ \A m \in Models : InLinearRegime(m.curve.max_milli - m.base, CombinedRate)

\* amount eased over `blocks`, at most the room
ease_room(room, blocks, epoch_length) ==
  IF room <= 0 \/ blocks = 0 \/ epoch_length = 0 THEN 0
  ELSE Min({Rounded(blocks * MIN_ENERGY_DELTA_MILLI, epoch_length), room})

ease_continuous(current, elapsed, epoch_length, curve) ==
  LET room == curve.max_milli - current
      in_target == Min({elapsed, TARGET_PROOF_BLOCKS})
      first == ease_room(room, in_target, epoch_length)
      second == ease_room(room - first, elapsed - in_target, epoch_length) IN
  IF Degenerate(curve) \/ elapsed = 0 \/ epoch_length = 0 \/ room <= 0 THEN current
  ELSE current + Min({first + second, room})

ease_gated(current, elapsed, epoch_length, curve) ==
  LET overdue == Max({elapsed - TARGET_PROOF_BLOCKS, 0}) IN
  IF Degenerate(curve) \/ overdue = 0 \/ epoch_length = 0 THEN current
  ELSE current + ease_room(curve.max_milli - current, overdue, epoch_length)

for_spec_version(v) ==
  IF v >= 119 THEN "gated" ELSE IF v >= 118 THEN "continuous" ELSE "stepwise"

threshold_at(m, elapsed) ==
  IF ~m.curve.known \/ m.epoch_length = 0 THEN m.base ELSE
  CASE m.algorithm = "stepwise" -> ease_stepwise(m.base, elapsed \div m.epoch_length, m.curve)
    [] m.algorithm = "continuous" -> ease_continuous(m.base, elapsed, m.epoch_length, m.curve)
    [] m.algorithm = "gated" -> ease_gated(m.base, elapsed, m.epoch_length, m.curve)

\* the block count found, Never when the horizon does not clear the energy
Never == -1

\* an energy equal to the threshold taken as clearing it
ClearsOnEqual(threshold, energy) == threshold >= energy

\* the strict comparison of the search
Clears(threshold, energy) == threshold > energy

first_clearing_elapsed(m, energy, horizon) ==
  LET Search[range \in (0 .. horizon) \X (0 .. horizon)] ==
        LET lo == range[1]
            hi == range[2]
            mid == lo + ((hi - lo) \div 2) IN
        IF hi - lo <= 1 THEN hi
        ELSE IF Clears(threshold_at(m, mid), energy) THEN Search[<<lo, mid>>] ELSE Search[<<mid, hi>>] IN
  IF Clears(threshold_at(m, 0), energy) THEN 0
  ELSE IF ~Clears(threshold_at(m, horizon), energy) THEN Never
  ELSE Search[<<0, horizon>>]
-----------------------------------------------------------------------------
\* energies at and around the thresholds of the round's boundaries
Probes(m) == UNION {{threshold_at(m, n) - 1, threshold_at(m, n), threshold_at(m, n) + 1} :
                      n \in {0, 1, TARGET_PROOF_BLOCKS, TARGET_PROOF_BLOCKS + 1, Horizon}}

(***************************************************************************)
(* What the stash relies on when it holds a candidate until its projected  *)
(* block: the search over first_clearing_elapsed returns the least number  *)
(* of blocks whose threshold the energy beats strictly, and nothing when   *)
(* no block up to the horizon is beaten; no rule tightens the base or      *)
(* eases past the curve's easy bound; and across a runtime upgrade, which  *)
(* swaps the rule and keeps the candidates, the per-block rule equals the  *)
(* stepwise one at every whole epoch inside the target and never falls     *)
(* behind either other rule.                                               *)
(***************************************************************************)
ProjectionExact ==
  \A m \in Models :
    LET limit == [n \in 0 .. Horizon |-> threshold_at(m, n)]
        under(rule) == [n \in 0 .. Horizon |-> threshold_at([m EXCEPT !.algorithm = rule], n)]
    IN
    /\ \A n \in 0 .. Horizon : m.base <= limit[n] /\ limit[n] <= Max({m.base, m.curve.max_milli})
    /\ \A e \in Probes(m) :
         LET found == first_clearing_elapsed(m, e, Horizon) IN
         \A n \in 0 .. Horizon : limit[n] > e <=> found # Never /\ found <= n
    /\ \A n \in 0 .. Horizon :
         /\ n <= TARGET_PROOF_BLOCKS /\ m.epoch_length # 0 /\ n % m.epoch_length = 0
              => under("continuous")[n] = under("stepwise")[n]
         /\ under("stepwise")[n] <= under("continuous")[n]
         /\ under("gated")[n] <= under("continuous")[n]
=============================================================================
