----------------------------- MODULE Settlement -----------------------------
(***************************************************************************)
(* How a validated PoW result becomes a proof on the chain. Sessions       *)
(* settle results concurrently (settle_pow_result): an accepted result     *)
(* that beats the round's best is submitted, everything else is offered to *)
(* the win-time stash. The feeder submits stashed candidates as the        *)
(* difficulty eases (feeder_loop, WinStash, SubmitLedger). Every submit is *)
(* an await: other sessions and the feeder run before its answer arrives.  *)
(***************************************************************************)
EXTENDS Integers, Sequences, FiniteSets, SequencesExt

CONSTANTS
  Sessions,       \* concurrent session read loops
  Ids,            \* job ids (nonces)
  Energies,       \* energies of a result; lower is better
  Rules,          \* decay rules (DecayAlgorithm)
  Clearing,       \* Clearing[r][e]: elapsed blocks after which rule r projects that e clears
  Ceiling,        \* Ceiling[n]: max_energy the chain asks n blocks after the last proof
  MaxElapsed,     \* bound: blocks after the last proof; also the projection horizon
  MaxGeneration,  \* bound: generations entered
  K,              \* WIN_STASH_K
  MaxAttempts     \* max_submit_attempts, at least one

ASSUME SettlementConstants ==
  /\ Energies \subseteq Int
  /\ Rules # {}
  /\ Clearing \in [Rules -> [Energies -> Nat]]
  /\ Ceiling \in [0 .. MaxElapsed -> Int]
  /\ {MaxElapsed, MaxGeneration} \subseteq Nat
  /\ {K, MaxAttempts} \subseteq Nat \ {0}

\* An energy the chain's ceiling admits within the horizon is projected to
\* clear within it, whichever rule projects (Decay: ProjectionExact).
ASSUME ProjectionCovers ==
  \A r \in Rules, n \in 0 .. MaxElapsed, e \in Energies :
    e < Ceiling[n] => Clearing[r][e] <= MaxElapsed

Answers == {"Success", "Retry", "StopRoundStale", "StopFatal", "Err"}

VARIABLES
  \* CoordinatorState
  generation,          \* the feeder's round
  mining,              \* the round reached StartMining: jobs are in flight
  target,              \* ceiling the session path validates against
  current_best_milli,  \* {} is None, {e} is Some(e)
  stash,               \* WinStash.candidates, best first
  model,               \* decay rule of the stash's projection, "none" without one
  \* sessions and feeder
  settling,            \* per session, the result it is settling: {} or one record
  submitting,          \* the candidate the feeder has handed to the chain: {} or one
  ledger,              \* SubmitLedger: consecutive refusals per id in the current qblock
  \* environment and history
  elapsed,             \* blocks since the last proof
  reported,            \* ids that produced a result
  best_from,           \* generation of the proof that set current_best_milli
  finished,            \* ids the win-time driver is done with
  owed                 \* accepted results of this round whose submit failed transiently

roundVars == <<generation, mining, target, model, elapsed>>
vars == <<roundVars, current_best_milli, stash, settling, submitting, ledger,
          reported, best_from, finished, owed>>

\* A result: `reach` is the worst row its gates need, so it clears a ceiling above `reach`.
Outcome == [id : Ids, energy : Energies, reach : Energies, generation : Nat]

Candidate == [id : Ids, energy : Energies, reach : Energies, generation : Nat,
              submitted : BOOLEAN]

Beats(e, best) == \A b \in best : e < b
-----------------------------------------------------------------------------
(***************************************************************************)
(* WinStash                                                                *)
(***************************************************************************)

viability_block(e) == IF model = "none" THEN MaxElapsed + 1 ELSE Clearing[model][e]

InsertUnranked(c) ==
  LET longer == Append(stash, c)
  IN  SubSeq(longer, 1, IF Len(longer) < K THEN Len(longer) ELSE K)

\* Insert in energy order, after equals (a stable sort), and keep the first K.
InsertCandidate(c) ==
  LET before == {i \in DOMAIN stash : stash[i].energy <= c.energy}
      longer == InsertAt(stash, Cardinality(before) + 1, c)
  IN  SubSeq(longer, 1, IF Len(longer) < K THEN Len(longer) ELSE K)

Inserted(c) == IF viability_block(c.energy) <= MaxElapsed THEN InsertCandidate(c) ELSE stash

\* The strongest unsubmitted candidate due at `block`: {} or one.
due_at(candidates, block, rule) ==
  LET due == {i \in DOMAIN candidates : /\ ~candidates[i].submitted
                                        /\ rule # "none"
                                        /\ Clearing[rule][candidates[i].energy] <= block}
  IN  {candidates[i] : i \in {n \in due : \A k \in due : n <= k}}

due_improving(candidates, block, rule, best) ==
  {c \in due_at(candidates, block, rule) : Beats(c.energy, best)}

MarkedNothing(id) == stash

\* Only the first candidate with that id is marked.
Marked(id) ==
  [i \in DOMAIN stash |->
     IF stash[i].id = id /\ \A k \in 1 .. i - 1 : stash[k].id # id
     THEN [stash[i] EXCEPT !.submitted = TRUE] ELSE stash[i]]
-----------------------------------------------------------------------------
Init ==
  /\ generation = 0
  /\ mining = FALSE
  /\ target \in {Ceiling[0]}
  /\ current_best_milli = {}
  /\ stash = <<>>
  /\ model = "none"
  /\ settling = [s \in Sessions |-> {}]
  /\ submitting = {}
  /\ ledger = [i \in Ids |-> 0]
  /\ elapsed = 0
  /\ reported = {}
  /\ best_from = 0
  /\ finished = {}
  /\ owed = {}

(***************************************************************************)
(* Session: settle_pow_result in its three critical sections               *)
(***************************************************************************)

\* The result's job, the round's best and the gates are read under one lock.
\* An id is reported once: a job's Result completes it, and a miner reports a
\* lease's salt once.
BeginSettle(s, id, e, reach) ==
  /\ mining
  /\ settling[s] = {}
  /\ id \notin reported
  /\ e <= reach
  /\ LET accepted == reach < target
         result   == [id |-> id, energy |-> e, reach |-> reach, generation |-> generation]
         step     == IF accepted /\ Beats(e, current_best_milli) THEN "submitting" ELSE "recording"
     IN  settling' = [settling EXCEPT
                        ![s] = {[result |-> result, step |-> step, offer |-> ~accepted]}]
  /\ reported' = reported \union {id}
  /\ UNCHANGED <<roundVars, current_best_milli, stash, submitting, ledger, best_from,
                 finished, owed>>

\* The chain answered submit_proof: a success sets the round's best, a
\* retryable refusal or an error keeps the winner for the stash.
SubmitAnswered(s, answer) ==
  \E p \in settling[s] :
    /\ p.step = "submitting"
    /\ settling' = [settling EXCEPT
         ![s] = {[p EXCEPT !.step = "recording", !.offer = answer \in {"Retry", "Err"}]}]
    /\ current_best_milli' = IF answer = "Success" THEN {p.result.energy}
                                                   ELSE current_best_milli
    /\ best_from' = IF answer = "Success" THEN p.result.generation ELSE best_from
    /\ owed' = IF answer \in {"Retry", "Err"} /\ p.result.generation = generation
               THEN owed \union {p.result} ELSE owed
    /\ UNCHANGED <<roundVars, stash, submitting, ledger, reported, finished>>

\* Record the attempt; offer a sub-threshold or retained result to the stash.
RecordAttempt(s) ==
  \E p \in settling[s] :
    /\ p.step = "recording"
    /\ settling' = [settling EXCEPT ![s] = {}]
    /\ stash' = IF p.offer
                THEN Inserted([id |-> p.result.id, energy |-> p.result.energy,
                               reach |-> p.result.reach, generation |-> p.result.generation,
                               submitted |-> FALSE])
                ELSE stash
    /\ UNCHANGED <<roundVars, current_best_milli, submitting, ledger, reported,
                   best_from, finished, owed>>

(***************************************************************************)
(* Feeder: one task, so a reseed never overlaps its own submit             *)
(***************************************************************************)

\* stop_mining: a new generation, without best and with an unarmed stash.
StopMining ==
  /\ submitting = {}
  /\ generation < MaxGeneration
  /\ generation' = generation + 1
  /\ mining' = FALSE
  /\ current_best_milli' = {}
  /\ stash' = <<>>
  /\ model' = "none"
  /\ owed' = {}
  /\ UNCHANGED <<target, settling, submitting, ledger, elapsed, reported, best_from, finished>>

\* The walk is done: fresh target and projection. `rule` is "none" when the
\* chain reads that build the model failed; a new root starts a new qblock.
Reseed(rule, newRoot) ==
  /\ generation > 0 /\ ~mining
  /\ mining' = TRUE
  /\ elapsed' = IF newRoot THEN 0 ELSE elapsed
  /\ target' = Ceiling[elapsed']
  /\ stash' = <<>>
  /\ model' = rule
  /\ ledger' = IF newRoot THEN [i \in Ids |-> 0] ELSE ledger
  /\ UNCHANGED <<generation, current_best_milli, settling, submitting, reported,
                 best_from, finished, owed>>

(***************************************************************************)
(* One poll: store the eased target and the rule of the head's runtime,    *)
(* then pick the best due candidate that improves. The current block is an *)
(* estimate and may run `ahead` of the head, so the pick is replayed       *)
(* against the target of this poll before it is submitted.                 *)
(***************************************************************************)
Poll(blocks, ahead, rule) ==
  /\ mining
  /\ submitting = {}
  /\ elapsed + blocks <= MaxElapsed
  /\ elapsed' = elapsed + blocks
  /\ target' = Ceiling[elapsed']
  /\ model' = IF model = "none" THEN "none" ELSE rule
  /\ submitting' = {c \in due_improving(stash, elapsed' + ahead, model', current_best_milli) :
                      c.reach < target'}
  /\ UNCHANGED <<generation, mining, current_best_milli, stash, settling, ledger, reported,
                 best_from, finished, owed>>

ExhaustedOneLate(id) == ledger[id] >= MaxAttempts

\* record_failure: the bound is reached with this refusal.
Exhausted(id) == ledger[id] + 1 >= MaxAttempts

\* The chain answered the feeder's submit.
WinTimeAnswered(answer) ==
  \E c \in submitting :
    /\ submitting' = {}
    /\ LET done == \/ answer \in {"Success", "StopRoundStale", "StopFatal"}
                   \/ answer = "Retry" /\ Exhausted(c.id)
       IN  /\ stash' = IF done THEN Marked(c.id) ELSE stash
           /\ finished' = IF done THEN finished \union {c.id} ELSE finished
    /\ ledger' = CASE answer = "Success" -> [ledger EXCEPT ![c.id] = 0]
                   [] answer = "Retry"   -> [ledger EXCEPT ![c.id] = @ + 1]
                   [] OTHER              -> ledger
    /\ current_best_milli' = IF answer = "Success" THEN {c.energy} ELSE current_best_milli
    /\ best_from' = IF answer = "Success" THEN c.generation ELSE best_from
    /\ UNCHANGED <<roundVars, settling, reported, owed>>

Next ==
  \/ \E s \in Sessions :
       \/ \E id \in Ids, e, r \in Energies : BeginSettle(s, id, e, r)
       \/ \E a \in Answers : SubmitAnswered(s, a)
       \/ RecordAttempt(s)
  \/ StopMining
  \/ \E rule \in Rules \union {"none"}, n \in BOOLEAN : Reseed(rule, n)
  \/ \E b, ahead \in 0 .. 1, rule \in Rules : Poll(b, ahead, rule)
  \/ \E a \in Answers : WinTimeAnswered(a)

Spec == Init /\ [][Next]_vars

(***************************************************************************)
(* The feeder keeps polling on its interval, and a chain that is asked     *)
(* again and again does not fail in transport for ever.                    *)
(***************************************************************************)
Fairness ==
  /\ WF_vars(\E b, ahead \in 0 .. 1, rule \in Rules : Poll(b, ahead, rule))
  /\ WF_vars(\E a \in Answers : WinTimeAnswered(a))
  /\ SF_vars(\E a \in Answers \ {"Err"} : WinTimeAnswered(a))

FairSpec == Spec /\ Fairness
-----------------------------------------------------------------------------
(***************************************************************************)
(* Properties                                                              *)
(***************************************************************************)

\* The state has its shape: the stash is ranked best first and holds at most
\* K candidates (WinStash::insert).
TypeOK ==
  /\ generation \in 0 .. MaxGeneration
  /\ mining \in BOOLEAN
  /\ target \in Int
  /\ current_best_milli \in {{}} \union {{e} : e \in Energies}
  /\ stash \in Seq(Candidate) /\ Len(stash) <= K
  /\ \A i, k \in DOMAIN stash : i < k => stash[i].energy <= stash[k].energy
  /\ model \in Rules \union {"none"}
  /\ \A s \in Sessions : Cardinality(settling[s]) <= 1
  /\ submitting \subseteq Candidate /\ Cardinality(submitting) <= 1
  /\ ledger \in [Ids -> 0 .. MaxAttempts]
  /\ elapsed \in 0 .. MaxElapsed
  /\ owed \subseteq Outcome

\* A proof the driver is done with (landed, refused for good, stale, or
\* refused max_submit_attempts times) is never submitted again: whatever the
\* sessions insert meanwhile, mark_submitted reaches the candidate the feeder
\* was holding. The state has its shape throughout.
FinishedNotResubmitted == TypeOK /\ \A c \in submitting : c.id \notin finished

\* A winner is not lost while it is on its way to the stash, in it, or K
\* candidates at least as good hold its place.
Kept(r) ==
  \/ \E s \in Sessions : \E p \in settling[s] : p.result = r
  \/ \E i \in DOMAIN stash : stash[i].id = r.id
  \/ Len(stash) = K /\ \A i \in DOMAIN stash : stash[i].energy <= r.energy

\* While the stash has a projection, a winner whose submit failed transiently
\* is kept until the round ends (settle_pow_result, WinStash::insert).
WinnersKept == model # "none" => \A r \in owed : Kept(r)

\* current_best_milli is the "Best accepted energy so far this generation".
BestOfThisGeneration == current_best_milli # {} => best_from = generation

\* The head of the line: due, improving, and clearing the live target.
Ready(id) ==
  /\ mining
  /\ \E c \in due_improving(stash, elapsed, model, current_best_milli) :
       c.id = id /\ c.reach < target

\* A candidate that is due, improves and clears the live gates does not stay
\* so: the driver finishes it after at most max_submit_attempts refusals, a
\* better result overtakes it, or the round ends.
ReadyResolves == \A id \in Ids : Ready(id) ~> ~Ready(id)
=============================================================================
