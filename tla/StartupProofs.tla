--------------------------- MODULE StartupProofs -----------------------------
(***************************************************************************)
(* What a starting coordinator may rely on (Startup), for any validators,  *)
(* configurations, funding budget and retry bounds.                        *)
(***************************************************************************)
EXTENDS Launch, FiniteSetTheorems, SequenceTheorems, WellFoundedInduction, TLAPS

Shape ==
  /\ gate \in [silent : 0 .. UnreachableGrace, saw : BOOLEAN, clear : 0 .. SyncedConfirmations]
  /\ fund \in [remaining : 1 .. Timeout, backoff : BackoffStart .. BackoffMax, last : SUBSET Nat]
  /\ said \in [Validators -> {"nothing", "syncing", "clear"}]
  /\ IsFiniteSet(answered)
  /\ topology \in {"none", "ours", "rival"}

\* The solver is read and registered only while it is not latched, and until
\* then no type is cached.
SolverOpen ==
  /\ phase \in {"solver", "deregister"} => "solver" \notin latch
  /\ "solver" \notin latch => cached = "none"

\* A difficulty is only ever set for the topology the chain has selected.
SeedOrdered == seed = "setting" => topology = "ours"

\* One validator alone has answered so far, or nobody.
Alone(v) == answered = {v}

\* The sync gate with a single validator that is still behind: it has said so,
\* and since then it was clear at most once.
GateHonest ==
  /\ \A v \in Validators \ answered : said[v] = "nothing"
  /\ phase \in {"load", "preflight", "sync"} => ~gaveUp /\ fund.last = {}
  /\ phase \in {"load", "preflight"} => answered = {}
  /\ phase \in {"load", "preflight", "sync"} => \A v \in Validators :
       (answered = {} \/ Alone(v)) /\ v \notin synced =>
         /\ said[v] = "nothing" => answered = {}
         /\ said[v] = "syncing" => gate.saw /\ gate.clear = 0
         /\ said[v] = "clear" => gate.saw /\ gate.clear <= 1
  /\ answered = {} /\ phase \in {"load", "preflight", "sync"} => ~gate.saw /\ gate.clear = 0

\* Past the gate a lone validator is at the head of the chain, and a balance
\* below the floor was the account's.
ReadsHonest ==
  /\ phase \notin {"load", "preflight", "sync", "exited"} /\ ~gaveUp =>
       /\ answered # {}
       /\ \A v \in Validators : Alone(v) => v \in synced
  /\ phase = "asking" => fund.last # {}
  /\ phase \in {"funding", "asking"} /\ fund.last # {} =>
       short \/ gaveUp \/ Cardinality(answered) > 1
  /\ ShortageIsReal

IInv ==
  /\ LatchesTrue
  /\ Shape
  /\ SolverOpen
  /\ SeedReportTrue
  /\ SeedOrdered
  /\ GateHonest
  /\ ReadsHonest
-----------------------------------------------------------------------------
(***************************************************************************)
(* Facts about the operators                                               *)
(***************************************************************************)

\* participate_kind picks one of the four kinds, so a plan always declares a
\* solver type and never looks like the absence of an entry.
LEMMA KindNamed ==
  ASSUME NEW launch
  PROVE  SolverType(participate_kind(launch)) \in {"Cpu", "Gpu", "QpuDwave"}
<1> DEFINE kinds == {Kind(launch[i].backend) : i \in DOMAIN launch}
<1>1. kinds \subseteq {"Cpu", "Gpu", "Metal", "QpuDwave"}
  BY DEF Kind
<1>2. participate_kind(launch) =
        IF kinds = {} THEN "Cpu"
        ELSE CHOOSE k \in kinds : \A j \in kinds : kind_rank(j) <= kind_rank(k)
  BY DEF participate_kind
<1>3. /\ kind_rank("Cpu") = 0 /\ kind_rank("Gpu") = 1
      /\ kind_rank("Metal") = 2 /\ kind_rank("QpuDwave") = 7
  BY DEF kind_rank
<1> HIDE DEF kinds
<1>4. kinds # {} => \E k \in kinds : \A j \in kinds : kind_rank(j) <= kind_rank(k)
  <2>1. CASE "QpuDwave" \in kinds
    BY <2>1, <1>1, <1>3
  <2>2. CASE "QpuDwave" \notin kinds /\ "Metal" \in kinds
    BY <2>2, <1>1, <1>3
  <2>3. CASE "QpuDwave" \notin kinds /\ "Metal" \notin kinds /\ "Gpu" \in kinds
    BY <2>3, <1>1, <1>3
  <2>4. CASE kinds = {"Cpu"}
    <3>1. \A j \in kinds : kind_rank(j) <= kind_rank("Cpu")
      BY <2>4, <1>3
    <3> QED
      BY <2>4, <3>1
  <2> QED
    BY <1>1, <2>1, <2>2, <2>3, <2>4
<1>5. participate_kind(launch) \in {"Cpu", "Gpu", "Metal", "QpuDwave"}
  BY <1>1, <1>2, <1>4
<1> QED
  BY <1>5 DEF SolverType

\* The type the plan asks for is never the value that stands for no entry.
LEMMA WantNamed == Want # "none"
BY KindNamed DEF Want

\* next_backoff: the doubled gap stays between the first gap and the ceiling.
LEMMA BackoffBounded ==
  ASSUME NEW b \in BackoffStart .. BackoffMax
  PROVE  next_backoff(b) \in BackoffStart .. BackoffMax
<1>1. BackoffStart \in Nat /\ BackoffMax \in Nat
  BY StartupConstants
<1>2. 2 * b \in Nat /\ 2 * b >= b
  BY <1>1
<1> DEFINE m == CHOOSE x \in {2 * b, BackoffMax} : \A y \in {2 * b, BackoffMax} : x <= y
<1>3. \E x \in {2 * b, BackoffMax} : \A y \in {2 * b, BackoffMax} : x <= y
  BY <1>1, <1>2
<1>4. m \in {2 * b, BackoffMax} /\ m <= BackoffMax
  BY <1>3
<1>5. next_backoff(b) = m
  BY DEF next_backoff, Min
<1> HIDE DEF m
<1> QED
  BY <1>1, <1>2, <1>4, <1>5

\* A set of validators that is neither empty nor a single one has two.
LEMMA MoreThanOne ==
  ASSUME NEW S, IsFiniteSet(S), S # {}, \A v \in S : S # {v}
  PROVE  Cardinality(S) > 1
<1>1. Cardinality(S) \in Nat
  BY FS_CardinalityType
<1>2. Cardinality(S) # 0
  BY FS_EmptySet
<1>3. Cardinality(S) # 1
  BY FS_Singleton
<1> QED
  BY <1>1, <1>2, <1>3

\* One more validator never makes the answers fewer.
LEMMA OneMore ==
  ASSUME NEW S, IsFiniteSet(S), NEW v
  PROVE  /\ IsFiniteSet(S \cup {v})
         /\ Cardinality(S) > 1 => Cardinality(S \cup {v}) > 1
<1>1. IsFiniteSet(S \cup {v})
  BY FS_AddElement
<1>2. Cardinality(S) <= Cardinality(S \cup {v})
  BY <1>1, FS_Subset
<1>3. Cardinality(S) \in Nat /\ Cardinality(S \cup {v}) \in Nat
  BY <1>1, FS_CardinalityType
<1> QED
  BY <1>1, <1>2, <1>3
-----------------------------------------------------------------------------
(***************************************************************************)
(* The state keeps its shape                                               *)
(***************************************************************************)

\* A pass of ensure_funded that sleeps leaves the budget positive and the gap
\* within its bounds; one that gives up leaves them alone.
LEMMA SpentShape ==
  ASSUME NEW f \in [remaining : 1 .. Timeout, backoff : BackoffStart .. BackoffMax,
                    last : SUBSET Nat]
  PROVE  /\ Spent(f) \in [remaining : 1 .. Timeout, backoff : BackoffStart .. BackoffMax,
                          last : SUBSET Nat]
         /\ Spent(f).last = f.last
<1>1. Timeout \in Nat /\ BackoffStart \in Nat \ {0} /\ BackoffMax \in Nat
  BY StartupConstants
<1>2. f.remaining \in 1 .. Timeout /\ f.backoff \in BackoffStart .. BackoffMax
  OBVIOUS
<1>3. next_backoff(f.backoff) \in BackoffStart .. BackoffMax
  BY <1>2, BackoffBounded
<1>4. CASE f.remaining <= f.backoff
  BY <1>4 DEF Spent
<1>5. CASE ~(f.remaining <= f.backoff)
  <2>1. f.remaining - f.backoff \in 1 .. Timeout
    BY <1>1, <1>2, <1>5
  <2>2. Spent(f) = [f EXCEPT !.remaining = f.remaining - f.backoff,
                             !.backoff = next_backoff(f.backoff)]
    BY <1>5 DEF Spent, Slept
  <2> HIDE DEF next_backoff
  <2> QED
    BY <2>1, <2>2, <1>3
<1> QED
  BY <1>4, <1>5

\* The parts of the state that have a type.
Typed == TypeOK /\ Shape

\* A starting process begins with its variables in their ranges.
LEMMA TypedInit == Init => Typed
<1> SUFFICES ASSUME Init PROVE Typed
  OBVIOUS
<1>1. /\ {Floor, Timeout, BackoffStart, BackoffMax, UnreachableGrace, SyncedConfirmations,
          SubmitAttempts, MaxMints} \subseteq Nat \ {0}
      /\ BackoffStart <= BackoffMax
  BY StartupConstants
<1>2. IsFiniteSet(answered)
  BY FS_EmptySet DEF Init
<1>3. Shape
  BY <1>1, <1>2 DEF Init, Shape, Fresh, Unfunded
<1>4. TypeOK
  BY <1>1 DEF Init, TypeOK, Fresh, Unfunded, ConfigInvalid
<1> QED
  BY <1>3, <1>4 DEF Typed

\* The gate's three counters, put together.
LEMMA GateShape ==
  ASSUME NEW n \in 0 .. UnreachableGrace, NEW b \in BOOLEAN, NEW c \in 0 .. SyncedConfirmations
  PROVE  [silent |-> n, saw |-> b, clear |-> c] \in
           [silent : 0 .. UnreachableGrace, saw : BOOLEAN, clear : 0 .. SyncedConfirmations]
OBVIOUS

\* wait_until_synced keeps its counters within the grace and the confirmations.
LEMMA TypedGate ==
  ASSUME Typed,
         NoAnswer \/ \E v \in Validators : SyncAnswer(v)
  PROVE  Typed'
<1>1. UnreachableGrace \in Nat /\ SyncedConfirmations \in Nat /\ PollInterval \in Nat
  BY StartupConstants
<1>2. gate \in [silent : 0 .. UnreachableGrace, saw : BOOLEAN, clear : 0 .. SyncedConfirmations]
  BY DEF Typed, Shape
<1>3. CASE NoAnswer
  <2>1. gate' \in [silent : 0 .. UnreachableGrace, saw : BOOLEAN, clear : 0 .. SyncedConfirmations]
    <3> DEFINE n == gate.silent + PollInterval
    <3>1. n \in Nat
      BY <1>1, <1>2
    <3>2. \/ gate' = [silent |-> 0, saw |-> FALSE, clear |-> 0]
          \/ ~(n > UnreachableGrace) /\ gate' = [gate EXCEPT !.silent = n, !.clear = gate.clear]
      BY <1>3 DEF NoAnswer, Silence, KeptCount, Fresh
    <3> HIDE DEF n
    <3>3. 0 \in 0 .. UnreachableGrace /\ 0 \in 0 .. SyncedConfirmations
      BY <1>1
    <3>4. ~(n > UnreachableGrace) => n \in 0 .. UnreachableGrace
      BY <1>1, <3>1
    <3>5. \/ gate' = [silent |-> 0, saw |-> FALSE, clear |-> 0]
          \/ /\ ~(n > UnreachableGrace)
             /\ gate' = [silent |-> n, saw |-> gate.saw, clear |-> gate.clear]
      BY <1>2, <3>2
    <3>6. gate.saw \in BOOLEAN /\ gate.clear \in 0 .. SyncedConfirmations
      BY <1>2
    <3>7. CASE gate' = [silent |-> 0, saw |-> FALSE, clear |-> 0]
      BY <3>3, <3>7, GateShape, Zenon
    <3>8. CASE /\ ~(n > UnreachableGrace)
               /\ gate' = [silent |-> n, saw |-> gate.saw, clear |-> gate.clear]
      BY <3>4, <3>6, <3>8, GateShape, Zenon
    <3> QED
      BY <3>5, <3>7, <3>8
  <2> QED
    BY <1>3, <2>1 DEF NoAnswer, Typed, TypeOK, Shape, Enters, ConfigInvalid, outside
<1>4. CASE \E v \in Validators : SyncAnswer(v)
  <2> PICK v \in Validators : SyncAnswer(v)
    BY <1>4
  <2>1. gate' \in [silent : 0 .. UnreachableGrace, saw : BOOLEAN, clear : 0 .. SyncedConfirmations]
    <3>1. \/ gate' = [silent |-> 0, saw |-> TRUE, clear |-> 0]
          \/ gate' = [silent |-> 0, saw |-> FALSE, clear |-> 0]
          \/ /\ ~(gate.clear + 1 >= SyncedConfirmations)
             /\ gate' = [gate EXCEPT !.silent = 0, !.clear = gate.clear + 1]
      BY DEF SyncAnswer, Confirmed, Fresh
    <3>2. 0 \in 0 .. UnreachableGrace /\ 0 \in 0 .. SyncedConfirmations
      BY <1>1
    <3>3. ~(gate.clear + 1 >= SyncedConfirmations) => gate.clear + 1 \in 0 .. SyncedConfirmations
      BY <1>1, <1>2
    <3>4. \/ gate' = [silent |-> 0, saw |-> TRUE, clear |-> 0]
          \/ gate' = [silent |-> 0, saw |-> FALSE, clear |-> 0]
          \/ /\ ~(gate.clear + 1 >= SyncedConfirmations)
             /\ gate' = [silent |-> 0, saw |-> gate.saw, clear |-> gate.clear + 1]
      BY <1>2, <3>1
    <3>5. gate.saw \in BOOLEAN
      BY <1>2
    <3>6. CASE gate' = [silent |-> 0, saw |-> gate.saw, clear |-> gate.clear + 1]
               /\ ~(gate.clear + 1 >= SyncedConfirmations)
      BY <3>2, <3>3, <3>5, <3>6, GateShape, Zenon
    <3>7. CASE \/ gate' = [silent |-> 0, saw |-> TRUE, clear |-> 0]
               \/ gate' = [silent |-> 0, saw |-> FALSE, clear |-> 0]
      BY <3>2, <3>7, GateShape, Zenon
    <3> QED
      BY <3>4, <3>6, <3>7
  <2>2. IsFiniteSet(answered') /\ answered' \subseteq Validators
    BY OneMore DEF SyncAnswer, Typed, Shape, TypeOK
  <2>3. said' \in [Validators -> {"nothing", "syncing", "clear"}]
    BY DEF SyncAnswer, Typed, Shape
  <2> QED
    BY <2>1, <2>2, <2>3 DEF SyncAnswer, Typed, TypeOK, Shape, Enters, ConfigInvalid, outside
<1> QED
  BY <1>3, <1>4

\* ensure_funded keeps its budget positive and the faucet within its bound.
LEMMA TypedFunding ==
  ASSUME Typed,
         BalanceUnread \/ (\E v \in Validators : BalanceRead(v)) \/ AskFaucet
  PROVE  Typed'
<1> DEFINE F == [remaining : 1 .. Timeout, backoff : BackoffStart .. BackoffMax, last : SUBSET Nat]
<1>1. fund \in F /\ Spent(fund) \in F
  BY SpentShape DEF Typed, Shape
<1>2. CASE BalanceUnread
  <2>1. fund' \in F
    BY <1>1, <1>2 DEF BalanceUnread
  <2> QED
    BY <1>2, <2>1 DEF BalanceUnread, SleepOrGiveUp, Typed, TypeOK, Shape, Enters, Exits,
                      ConfigInvalid, outside, history
<1>3. CASE \E v \in Validators : BalanceRead(v)
  <2> PICK v \in Validators : BalanceRead(v)
    BY <1>3
  <2> PICK b \in Balances(v) :
       /\ fund' = [fund EXCEPT !.last = {b}]
       /\ IF b >= Floor THEN Enters("register")
          ELSE IF config.faucet THEN Enters("asking") ELSE Exits("unfunded")
    BY DEF BalanceRead
  <2>1. b \in Nat
    BY DEF Balances, Typed, TypeOK
  <2>2. fund' \in F
    BY <1>1, <2>1
  <2>3. IsFiniteSet(answered') /\ answered' \subseteq Validators
    BY OneMore DEF BalanceRead, Typed, Shape, TypeOK
  <2> QED
    BY <2>2, <2>3 DEF BalanceRead, Typed, TypeOK, Shape, Enters, Exits, ConfigInvalid, outside
<1>4. CASE AskFaucet
  <2>1. fund' \in F
    BY <1>1, <1>4 DEF AskFaucet
  <2>2. balance \div TopUp \in Nat
    BY StartupConstants DEF Typed, TypeOK
  <2>3. mints' \in 0 .. MaxMints
    <3> DEFINE d == balance \div TopUp
    <3>1. mints \in 0 .. MaxMints /\ MaxMints \in Nat
      BY StartupConstants DEF Typed, TypeOK
    <3>2. mints' = mints \/ (mints' = mints + 1 /\ mints + 1 + d <= MaxMints)
      BY <1>4 DEF AskFaucet
    <3>3. d \in Nat
      BY <2>2
    <3> HIDE DEF d
    <3> QED
      BY <3>1, <3>2, <3>3
  <2> QED
    BY <1>4, <2>1, <2>3 DEF AskFaucet, SleepOrGiveUp, Typed, TypeOK, Shape, Enters, Exits,
                            ConfigInvalid, history
<1> QED
  BY <1>2, <1>3, <1>4

\* The other steps of a start, and the feeder's solver steps.
LEMMA TypedWalk ==
  ASSUME Typed,
         \/ LoadConfig \/ run_preflight_gate
         \/ RegisterMiner \/ FetchSnapshot \/ FileDescriptor
         \/ SolverStep
  PROVE  Typed'
<1>1. SubmitAttempts \in Nat \ {0}
  BY StartupConstants
<1>2. CASE LoadConfig \/ run_preflight_gate
  BY <1>2 DEF LoadConfig, run_preflight_gate, Typed, TypeOK, Shape, Enters, Exits,
              ConfigInvalid, outside, history
<1>3. CASE RegisterMiner
  <2>1. tries' \in 0 .. SubmitAttempts - 1
    <3>1. tries' = 0 \/ (tries' = tries + 1 /\ tries + 1 # SubmitAttempts)
      BY <1>3 DEF RegisterMiner
    <3>2. tries \in 0 .. SubmitAttempts - 1
      BY DEF Typed, TypeOK
    <3> QED
      BY <1>1, <3>1, <3>2
  <2> QED
    BY <1>3, <2>1 DEF RegisterMiner, AfterAttempts, Typed, TypeOK, Shape, Enters,
                      ConfigInvalid, history
<1>4. CASE FetchSnapshot
  BY <1>4 DEF FetchSnapshot, Typed, TypeOK, Shape, Enters, ConfigInvalid, outside, history
<1>5. CASE FileDescriptor
  <2>1. tries' \in 0 .. SubmitAttempts - 1
    BY <1>1, <1>5 DEF FileDescriptor, Typed, TypeOK
  <2> QED
    BY <1>5, <2>1 DEF FileDescriptor, Typed, TypeOK, Shape, Enters, ConfigInvalid, outside,
                      history
<1>6. CASE SolverStep
  <2>1. phase' \in {"serving", "solver", "deregister"} /\ exit' = exit /\ phase # "exited"
    BY <1>6 DEF SolverStep, ReadSolver, DeregisterSolver, RegisterSolver, Enters
  <2>2. latch' \in {latch, latch \cup {"solver"}}
    BY <1>6 DEF SolverStep, ReadSolver, DeregisterSolver, RegisterSolver
  <2>3. UNCHANGED <<synced, balance, mints, topology, config, gate, fund, tries, said, seed,
                    history>>
    BY <1>6 DEF SolverStep, ReadSolver, DeregisterSolver, RegisterSolver, outside
  <2> QED
    BY <2>1, <2>2, <2>3 DEF Typed, TypeOK, Shape, ConfigInvalid, history
<1> QED
  BY <1>2, <1>3, <1>4, <1>5, <1>6

\* What happens around the process, and its end and next start.
LEMMA TypedOutside ==
  ASSUME Typed,
         \/ SeedStep \/ SeedAgain \/ RuntimeEnds \/ Restart
         \/ \E v \in Validators : FinishSync(v)
         \/ MintSettles \/ RivalSeeds
         \/ UNCHANGED vars
  PROVE  Typed'
<1>1. /\ {TopUp, Timeout, BackoffStart, BackoffMax, UnreachableGrace, SyncedConfirmations,
          SubmitAttempts, MaxMints} \subseteq Nat \ {0}
      /\ BackoffStart <= BackoffMax
  BY StartupConstants
<1>2. CASE SeedStep \/ SeedAgain
  <2>1. /\ seed' \in {"idle", "registering", "reading", "setting", "done", "refused", "failed"}
        /\ topology' \in {topology, "ours"}
        /\ UNCHANGED <<synced, balance, mints, config, process, history>>
    BY <1>2 DEF SeedStep, SeedChecks, SeedRegisters, SeedReadsBack, SeedSetsDifficulty,
                SeedAgain, outside
  <2> QED
    BY <2>1 DEF Typed, TypeOK, Shape, ConfigInvalid, process, history
<1>3. CASE RuntimeEnds
  BY <1>3 DEF RuntimeEnds, Exits, Typed, TypeOK, Shape, ConfigInvalid, outside, history
<1>4. CASE Restart
  <2>1. IsFiniteSet(answered')
    BY <1>4, FS_EmptySet DEF Restart
  <2>2. Shape'
    BY <1>1, <1>4, <2>1 DEF Restart, Typed, Shape, Fresh, Unfunded
  <2> QED
    BY <1>1, <1>4, <2>2 DEF Restart, Typed, TypeOK, Fresh, Unfunded, ConfigInvalid
<1>5. CASE (\E v \in Validators : FinishSync(v)) \/ RivalSeeds \/ UNCHANGED vars
  <2>1. CASE \E v \in Validators : FinishSync(v)
    BY <2>1 DEF FinishSync, Typed, TypeOK, Shape, ConfigInvalid, process, history
  <2>2. CASE RivalSeeds
    BY <2>2 DEF RivalSeeds, Typed, TypeOK, Shape, ConfigInvalid, process, history
  <2>3. CASE UNCHANGED vars
    BY <2>3 DEF vars, Typed, TypeOK, Shape, ConfigInvalid, outside, process, history
  <2> QED
    BY <1>5, <2>1, <2>2, <2>3
<1>6. CASE MintSettles
  <2>1. balance' \in Nat /\ mints' \in 0 .. MaxMints
    BY <1>1, <1>6 DEF MintSettles, Typed, TypeOK
  <2> QED
    BY <1>6, <2>1 DEF MintSettles, Typed, TypeOK, Shape, ConfigInvalid, process, history
<1> QED
  BY <1>2, <1>3, <1>4, <1>5, <1>6

\* Every step leaves the state in its shape.
LEMMA TypedNext == Typed /\ [Next]_vars => Typed'
BY TypedGate, TypedFunding, TypedWalk, TypedOutside DEF Next, StartStep

-----------------------------------------------------------------------------
(***************************************************************************)
(* What is latched is on chain                                             *)
(***************************************************************************)

\* The latches and the cache against the chain.
Latched ==
  /\ "miner" \in latch => miners
  /\ "solver" \in latch => solver # "none"
  /\ cached # "none" => cached = solver
  /\ SolverOpen

\* Only the registration steps touch the latches, the cache and what they are
\* about; a latched solver is neither read nor deregistered again.
LEMMA LatchedNext ==
  ASSUME Latched, Typed, [Next]_vars
  PROVE  Latched'
<1>1. CASE RegisterMiner
  BY <1>1 DEF RegisterMiner, AfterAttempts, Latched, SolverOpen, Enters
<1>2. CASE ReadSolver
  <2>1. CASE \E v \in Validators : \E type \in Types(v) :
               /\ type = Want
               /\ cached' = type /\ latch' = latch \cup {"solver"} /\ UNCHANGED <<phase, exit>>
    <3>1. PICK v \in Validators : \E type \in Types(v) :
               /\ type = Want
               /\ cached' = type /\ latch' = latch \cup {"solver"} /\ UNCHANGED <<phase, exit>>
      BY <2>1
    <3>2. Want \in {"none", solver} /\ cached' = Want
      BY <3>1 DEF Types
    <3>3. solver = Want /\ solver' = solver /\ miners' = miners
      BY <1>2, <3>2, WantNamed DEF ReadSolver, outside
    <3> QED
      BY <1>2, <3>1, <3>2, <3>3, WantNamed DEF ReadSolver, Latched, SolverOpen
  <2>2. CASE cached' = "none" /\ latch' = latch
    BY <1>2, <2>2 DEF ReadSolver, Latched, SolverOpen, outside
  <2> QED
    BY <1>2, <2>1, <2>2 DEF ReadSolver
<1>3. CASE DeregisterSolver
  BY <1>3 DEF DeregisterSolver, Latched, SolverOpen, Enters
<1>4. CASE RegisterSolver
  <2>1. CASE /\ solver' = IF solver = "none" THEN Want ELSE solver
             /\ latch' = latch \cup {"solver"}
             /\ cached' = IF solver' = Want THEN Want ELSE "none"
    BY <1>4, <2>1, WantNamed DEF RegisterSolver, Latched, SolverOpen, Enters
  <2>2. CASE /\ solver' \in {solver, IF solver = "none" THEN Want ELSE solver}
             /\ UNCHANGED <<latch, cached>>
    BY <1>4, <2>2, WantNamed DEF RegisterSolver, Latched, SolverOpen, Enters
  <2> QED
    BY <1>4, <2>1, <2>2 DEF RegisterSolver
<1>5. CASE Restart
  BY <1>5 DEF Restart, Latched, SolverOpen
<1>6. CASE FileDescriptor
  BY <1>6 DEF FileDescriptor, Latched, SolverOpen, Enters, outside
<1>7. CASE /\ UNCHANGED <<latch, cached, miners, solver>>
           /\ phase' \notin {"solver", "deregister"} \/ phase' = phase
  BY <1>7 DEF Latched, SolverOpen
<1>8. \/ RegisterMiner \/ SolverStep \/ Restart \/ FileDescriptor
      \/ /\ UNCHANGED <<latch, cached, miners, solver>>
         /\ phase' \notin {"solver", "deregister"} \/ phase' = phase
  <2>1. CASE LoadConfig \/ run_preflight_gate \/ FetchSnapshot \/ RuntimeEnds
    BY <2>1 DEF LoadConfig, run_preflight_gate, FetchSnapshot, RuntimeEnds, Enters, Exits, outside
  <2>2. CASE NoAnswer \/ \E v \in Validators : SyncAnswer(v)
    BY <2>2 DEF NoAnswer, SyncAnswer, Enters, outside
  <2>3. CASE BalanceUnread \/ (\E v \in Validators : BalanceRead(v)) \/ AskFaucet
    BY <2>3 DEF BalanceUnread, BalanceRead, AskFaucet, SleepOrGiveUp, Enters, Exits, outside
  <2>4. CASE SeedStep \/ SeedAgain
    BY <2>4 DEF SeedStep, SeedAgain, SeedChecks, SeedRegisters, SeedReadsBack,
                SeedSetsDifficulty, outside, process
  <2>5. CASE (\E v \in Validators : FinishSync(v)) \/ MintSettles \/ RivalSeeds \/ UNCHANGED vars
    BY <2>5 DEF FinishSync, MintSettles, RivalSeeds, vars, outside, process
  <2> QED
    BY <2>1, <2>2, <2>3, <2>4, <2>5 DEF Next, StartStep
<1> QED
  BY <1>1, <1>2, <1>3, <1>4, <1>5, <1>6, <1>7, <1>8 DEF SolverStep

-----------------------------------------------------------------------------
(***************************************************************************)
(* seed-chain                                                              *)
(***************************************************************************)

\* DefaultTopology is written once, so what SeedReadsBack saw still holds when
\* the difficulty is set.
LEMMA SeededNext ==
  ASSUME SeedReportTrue, SeedOrdered, Typed, [Next]_vars
  PROVE  SeedReportTrue' /\ SeedOrdered'
<1>1. CASE SeedChecks
  BY <1>1 DEF SeedChecks, SeedReportTrue, SeedOrdered, outside
<1>2. CASE SeedRegisters
  BY <1>2 DEF SeedRegisters, SeedReportTrue, SeedOrdered
<1>3. CASE SeedReadsBack
  BY <1>3 DEF SeedReadsBack, HashMatches, SeedReportTrue, SeedOrdered, outside
<1>4. CASE SeedSetsDifficulty
  BY <1>4 DEF SeedSetsDifficulty, SeedReportTrue, SeedOrdered
<1>5. CASE SeedAgain
  BY <1>5 DEF SeedAgain, SeedReportTrue, SeedOrdered, outside
<1>6. CASE RivalSeeds
  BY <1>6 DEF RivalSeeds, SeedReportTrue, SeedOrdered
<1>7. CASE UNCHANGED <<seed, topology, difficulty>>
  BY <1>7 DEF SeedReportTrue, SeedOrdered
<1>8. \/ SeedStep \/ SeedAgain \/ RivalSeeds
      \/ UNCHANGED <<seed, topology, difficulty>>
  <2>1. CASE LoadConfig \/ run_preflight_gate \/ FetchSnapshot \/ RuntimeEnds \/ RegisterMiner
             \/ FileDescriptor \/ SolverStep \/ Restart
    BY <2>1 DEF LoadConfig, run_preflight_gate, FetchSnapshot, RuntimeEnds, RegisterMiner,
                FileDescriptor, SolverStep, ReadSolver, DeregisterSolver, RegisterSolver,
                Restart, outside
  <2>2. CASE NoAnswer \/ \E v \in Validators : SyncAnswer(v)
    BY <2>2 DEF NoAnswer, SyncAnswer, outside
  <2>3. CASE BalanceUnread \/ (\E v \in Validators : BalanceRead(v)) \/ AskFaucet
    BY <2>3 DEF BalanceUnread, BalanceRead, AskFaucet, outside
  <2>4. CASE (\E v \in Validators : FinishSync(v)) \/ MintSettles \/ UNCHANGED vars
    BY <2>4 DEF FinishSync, MintSettles, vars, outside
  <2> QED
    BY <2>1, <2>2, <2>3, <2>4 DEF Next, StartStep
<1> QED
  BY <1>1, <1>2, <1>3, <1>4, <1>5, <1>6, <1>7, <1>8 DEF SeedStep

-----------------------------------------------------------------------------
(***************************************************************************)
(* The gate and the reads after it                                         *)
(***************************************************************************)

Honest == GateHonest /\ ReadsHonest

\* One more answer leaves a lone validator only when it is the one that was
\* alone before, or the first.
LEMMA StillAlone ==
  ASSUME Typed, NEW v \in Validators, NEW w, answered \cup {v} = {w}
  PROVE  w = v /\ (answered = {} \/ answered = {v})
OBVIOUS

\* wait_until_synced: a lone validator that is behind has said so, and is then
\* believed only after SyncedConfirmations clear answers in a row, one more than
\* it can give.
LEMMA HonestSyncAnswer ==
  ASSUME Honest, Typed, NEW v \in Validators, SyncAnswer(v)
  PROVE  Honest'
<1>1. PICK syncing \in Reports(v) :
        /\ said' = [said EXCEPT ![v] = IF syncing THEN "syncing" ELSE "clear"]
        /\ IF syncing
           THEN /\ gate' = [silent |-> 0, saw |-> TRUE, clear |-> 0]
                /\ UNCHANGED <<phase, exit>>
           ELSE IF Confirmed(gate.clear + 1, gate.saw)
           THEN Enters("funding") /\ gate' = Fresh
           ELSE /\ gate' = [gate EXCEPT !.silent = 0, !.clear = gate.clear + 1]
                /\ UNCHANGED <<phase, exit>>
  BY DEF SyncAnswer
<1>2. /\ phase = "sync" /\ answered' = answered \cup {v}
      /\ UNCHANGED <<fund, gaveUp, short, synced>>
  BY DEF SyncAnswer, outside
<1>3. ~gaveUp /\ fund.last = {} /\ exit = "none"
  BY <1>2 DEF Honest, GateHonest, Typed, TypeOK
<1>4. said' \in [Validators -> {"nothing", "syncing", "clear"}]
      /\ said'[v] = IF syncing THEN "syncing" ELSE "clear"
  BY <1>1 DEF Typed, Shape
<1>5. \A w \in Validators \ answered' : said'[w] = "nothing"
  BY <1>1, <1>2 DEF Honest, GateHonest, Typed, Shape
<1>6. answered' # {}
  BY <1>2
<1>7. v \notin synced /\ ~syncing /\ answered' = {v} =>
        answered = {v} /\ gate.saw /\ gate.clear = 0
  <2> SUFFICES ASSUME v \notin synced, ~syncing, answered' = {v}
               PROVE  answered = {v} /\ gate.saw /\ gate.clear = 0
    OBVIOUS
  <2>1. said[v] = "syncing"
    BY <1>1 DEF Reports
  <2>2. v \in answered
    BY <2>1 DEF Honest, GateHonest
  <2>3. answered = {v}
    BY <2>2, <1>2
  <2> QED
    BY <2>1, <2>3, <1>2 DEF Honest, GateHonest, Alone
<1>8. gate \in [silent : 0 .. UnreachableGrace, saw : BOOLEAN, clear : 0 .. SyncedConfirmations]
  BY DEF Typed, Shape
<1>9. CASE syncing
  <2>1. gate'.saw /\ gate'.clear = 0 /\ phase' = "sync" /\ exit' = "none"
    BY <1>1, <1>2, <1>3, <1>9
  <2>2. \A w \in Validators : Alone(w)' => said'[w] = "syncing"
    BY <1>2, <1>4, <1>9 DEF Alone
  <2> QED
    BY <2>1, <2>2, <1>2, <1>3, <1>5, <1>6 DEF Honest, GateHonest, ReadsHonest, ShortageIsReal
<1>10. CASE ~syncing /\ Confirmed(gate.clear + 1, gate.saw)
  <2>1. phase' = "funding" /\ exit' = "none"
    BY <1>1, <1>3, <1>10 DEF Enters
  <2>2. answered' = {v} => v \in synced
    <3> SUFFICES ASSUME answered' = {v}, v \notin synced PROVE FALSE
      OBVIOUS
    <3>1. Confirmed(0 + 1, TRUE)
      BY <1>7, <1>10
    <3>2. SyncedConfirmations \in Nat /\ SyncedConfirmations >= 2
      BY StartupConstants
    <3> QED
      BY <3>1, <3>2 DEF Confirmed
  <2>3. \A w \in Validators : Alone(w)' => w \in synced
    BY <2>2, <1>2 DEF Alone
  <2> QED
    BY <2>1, <2>3, <1>2, <1>3, <1>5, <1>6 DEF Honest, GateHonest, ReadsHonest, ShortageIsReal
<1>11. CASE ~syncing /\ ~Confirmed(gate.clear + 1, gate.saw)
  <2>1. /\ gate'.saw = gate.saw /\ gate'.clear = gate.clear + 1
        /\ phase' = "sync" /\ exit' = "none"
    BY <1>1, <1>2, <1>3, <1>8, <1>11
  <2>2. \A w \in Validators : Alone(w)' => w = v /\ said'[w] = "clear"
    BY <1>2, <1>4, <1>11 DEF Alone
  <2>3. \A w \in Validators : Alone(w)' /\ w \notin synced => gate'.saw /\ gate'.clear <= 1
    <3> SUFFICES ASSUME answered' = {v}, v \notin synced PROVE gate'.saw /\ gate'.clear <= 1
      BY <2>2 DEF Alone
    <3> QED
      BY <1>7, <1>11, <2>1
  <2> QED
    BY <2>1, <2>2, <2>3, <1>2, <1>3, <1>5, <1>6 DEF Honest, GateHonest, ReadsHonest, ShortageIsReal
<1> QED
  BY <1>9, <1>10, <1>11

\* A poll nobody answered: the counts stay, or the gate is given up.
LEMMA HonestNoAnswer ==
  ASSUME Honest, Typed, NoAnswer
  PROVE  Honest'
<1>1. /\ phase = "sync" /\ UNCHANGED <<fund, answered, said, short, synced>>
      /\ exit = "none" /\ exit' = "none" /\ fund.last = {}
  BY DEF NoAnswer, outside, Enters, Typed, TypeOK, Honest, GateHonest
<1>2. CASE phase' = "funding" /\ gaveUp'
  BY <1>1, <1>2 DEF Honest, GateHonest, ReadsHonest, ShortageIsReal
<1>3. CASE /\ UNCHANGED <<phase, gaveUp>>
           /\ gate' = [gate EXCEPT !.silent = Silence(gate.silent), !.clear = gate.clear]
  <2>1. gate'.saw = gate.saw /\ gate'.clear = gate.clear
    BY <1>3 DEF Typed, Shape
  <2> QED
    BY <1>1, <1>3, <2>1 DEF Honest, GateHonest, ReadsHonest, ShortageIsReal, Alone
<1> QED
  BY <1>2, <1>3 DEF NoAnswer, KeptCount, Enters

\* A balance: below the floor it is the account's own, when the validator that
\* let the process through the gate is the only one that ever answered.
LEMMA HonestBalanceRead ==
  ASSUME Honest, Typed, NEW v \in Validators, BalanceRead(v)
  PROVE  Honest'
<1>1. PICK b \in Balances(v) :
        /\ fund' = [fund EXCEPT !.last = {b}]
        /\ IF b >= Floor THEN Enters("register")
           ELSE IF config.faucet THEN Enters("asking") ELSE Exits("unfunded")
  BY DEF BalanceRead
<1>2. /\ phase = "funding" /\ exit = "none"
      /\ answered' = answered \cup {v} /\ short' = (balance < Floor)
      /\ UNCHANGED <<said, gaveUp, synced>>
  BY DEF BalanceRead, outside, Typed, TypeOK
<1>3. fund'.last # {}
  BY <1>1 DEF Typed, Shape
<1>4. ~gaveUp => \A w \in Validators : answered' = {w} => w = v /\ v \in synced
  BY <1>2 DEF Honest, ReadsHonest, Alone
<1>5. ~(b >= Floor) => short' \/ gaveUp' \/ Cardinality(answered') > 1
  <2> SUFFICES ASSUME ~(b >= Floor), ~gaveUp, ~(Cardinality(answered') > 1)
               PROVE  short'
    BY <1>2
  <2>1. IsFiniteSet(answered')
    BY <1>2, OneMore DEF Typed, Shape
  <2>2. \E w \in answered' : answered' = {w}
    BY <1>2, <2>1, MoreThanOne
  <2>3. v \in synced
    BY <1>2, <1>4, <2>2 DEF Typed, TypeOK
  <2>4. b = balance
    BY <2>3 DEF Balances
  <2>5. Floor \in Nat /\ balance \in Nat
    BY StartupConstants DEF Typed, TypeOK
  <2>6. balance < Floor
    BY <2>4, <2>5
  <2> QED
    BY <1>2, <2>6
<1>6. GateHonest'
  BY <1>1, <1>2 DEF Enters, Exits, Honest, GateHonest
<1>7. CASE b >= Floor
  BY <1>1, <1>2, <1>4, <1>7 DEF Enters, Honest, ReadsHonest, ShortageIsReal, Alone, GateHonest
<1>8. CASE ~(b >= Floor) /\ config.faucet
  BY <1>1, <1>2, <1>3, <1>4, <1>5, <1>6, <1>8 DEF Enters, Honest, ReadsHonest, ShortageIsReal, Alone
<1>9. CASE ~(b >= Floor) /\ ~config.faucet
  BY <1>1, <1>2, <1>3, <1>4, <1>5, <1>6, <1>9 DEF Exits, Honest, ReadsHonest, ShortageIsReal, Alone
<1> QED
  BY <1>6, <1>7, <1>8, <1>9 DEF Honest

\* The rest of a funding pass: a process that gives up says "unfunded" only when
\* a balance below the floor was read.
LEMMA HonestPass ==
  ASSUME Honest, Typed, BalanceUnread \/ AskFaucet
  PROVE  Honest'
<1>1. /\ phase \in {"funding", "asking"} /\ exit = "none"
      /\ UNCHANGED <<said, answered, gaveUp, short, synced, gate>>
  BY DEF BalanceUnread, AskFaucet, outside, history, Typed, TypeOK
<1>2. fund'.last = fund.last
  BY SpentShape DEF BalanceUnread, AskFaucet, Typed, Shape
<1>3. phase = "asking" => fund.last # {}
  BY DEF Honest, ReadsHonest
<1>4. \/ phase' = "funding" /\ exit' = "none"
      \/ phase' = "exited" /\ exit' = "unfunded" /\ fund.last # {}
      \/ phase' = "exited" /\ exit' \in {"unreadable", "rejected"}
  BY <1>1, <1>2 DEF BalanceUnread, AskFaucet, SleepOrGiveUp, Enters, Exits
<1>5. GateHonest'
  BY <1>1, <1>4 DEF Honest, GateHonest
<1>6. ReadsHonest'
  BY <1>1, <1>2, <1>3, <1>4 DEF Honest, ReadsHonest, ShortageIsReal, Alone
<1> QED
  BY <1>5, <1>6 DEF Honest

\* Every step of the specification keeps the reads honest.
LEMMA HonestNext ==
  ASSUME Honest, Typed, [Next]_vars
  PROVE  Honest'
<1>1. CASE NoAnswer \/ (\E v \in Validators : SyncAnswer(v) \/ BalanceRead(v))
           \/ BalanceUnread \/ AskFaucet
  BY <1>1, HonestNoAnswer, HonestSyncAnswer, HonestBalanceRead, HonestPass
<1>2. CASE Restart
  BY <1>2 DEF Restart, Honest, GateHonest, ReadsHonest, ShortageIsReal, Alone, Fresh, Unfunded
<1>3. CASE LoadConfig \/ run_preflight_gate
  <2>1. /\ UNCHANGED <<said, answered, gaveUp, short, synced, gate, fund>>
        /\ phase \in {"load", "preflight"} /\ exit = "none"
        /\ \/ phase' \in {"preflight", "sync"} /\ exit' = "none"
           \/ phase' = "exited" /\ exit' \in {"config", "incompatible"}
    BY <1>3 DEF LoadConfig, run_preflight_gate, Enters, Exits, outside, history, Typed, TypeOK
  <2>2. phase' = "preflight" => phase \in {"load", "preflight"}
    BY <2>1
  <2>3. GateHonest'
    BY <2>1 DEF Honest, GateHonest, Alone
  <2>4. ReadsHonest'
    BY <2>1 DEF Honest, ReadsHonest, ShortageIsReal, Alone
  <2> QED
    BY <2>3, <2>4 DEF Honest
<1>4. CASE RegisterMiner \/ FetchSnapshot \/ FileDescriptor \/ SolverStep \/ RuntimeEnds
  <2>1. /\ UNCHANGED <<said, answered, gaveUp, short, synced, gate, fund>>
        /\ phase \in {"register", "snapshot", "descriptor", "serving", "solver", "deregister"}
        /\ \/ /\ phase' \in {"register", "snapshot", "descriptor", "serving", "solver", "deregister"}
              /\ exit' = exit
           \/ phase' = "exited" /\ exit' = "stopped"
    BY <1>4 DEF RegisterMiner, FetchSnapshot, FileDescriptor, SolverStep, ReadSolver,
                DeregisterSolver, RegisterSolver, RuntimeEnds, Enters, Exits, outside, history
  <2>2. GateHonest'
    BY <2>1 DEF Honest, GateHonest
  <2>3. ReadsHonest'
    BY <2>1 DEF Honest, ReadsHonest, ShortageIsReal, Alone
  <2> QED
    BY <2>2, <2>3 DEF Honest
<1>5. CASE SeedStep \/ SeedAgain \/ MintSettles \/ RivalSeeds \/ UNCHANGED vars
           \/ \E v \in Validators : FinishSync(v)
  <2>1. /\ UNCHANGED <<said, answered, gaveUp, short, gate, fund, phase, exit>>
        /\ synced \subseteq synced'
    BY <1>5 DEF SeedStep, SeedAgain, SeedChecks, SeedRegisters, SeedReadsBack,
                SeedSetsDifficulty, MintSettles, RivalSeeds, FinishSync, vars, outside,
                process, history
  <2>2. GateHonest'
    BY <2>1 DEF Honest, GateHonest, Alone
  <2>3. ReadsHonest'
    BY <2>1 DEF Honest, ReadsHonest, ShortageIsReal, Alone
  <2> QED
    BY <2>2, <2>3 DEF Honest
<1> QED
  BY <1>1, <1>2, <1>3, <1>4, <1>5 DEF Next, StartStep
-----------------------------------------------------------------------------
(***************************************************************************)
(* The theorems                                                            *)
(***************************************************************************)

\* The inductive invariant holds of every start: the shape of the state, what is
\* latched, what seed-chain reports and what the gate has let through.
THEOREM Invariance == Spec => []IInv
<1>1. Init => IInv
  <2> SUFFICES ASSUME Init PROVE IInv
    OBVIOUS
  <2>1. Typed
    BY TypedInit
  <2>2. Latched /\ SeedReportTrue /\ SeedOrdered
    BY DEF Init, Latched, SolverOpen, SeedReportTrue, SeedOrdered
  <2>3. Honest
    BY DEF Init, Honest, GateHonest, ReadsHonest, ShortageIsReal, Alone, Fresh, Unfunded
  <2> QED
    BY <2>1, <2>2, <2>3 DEF IInv, Typed, Latched, Honest, LatchesTrue
<1>2. IInv /\ [Next]_vars => IInv'
  <2> SUFFICES ASSUME IInv, [Next]_vars PROVE IInv'
    OBVIOUS
  <2>1. Typed /\ Latched /\ SeedReportTrue /\ SeedOrdered /\ Honest
    BY DEF IInv, Typed, Latched, Honest, LatchesTrue
  <2>2. Typed'
    BY <2>1, TypedNext
  <2>3. Latched'
    BY <2>1, LatchedNext
  <2>4. SeedReportTrue' /\ SeedOrdered'
    BY <2>1, SeededNext
  <2>5. Honest'
    BY <2>1, HonestNext
  <2> QED
    BY <2>2, <2>3, <2>4, <2>5 DEF IInv, Typed, Latched, Honest, LatchesTrue
<1> QED
  BY <1>1, <1>2, PTL DEF Spec

\* What the process has latched or cached is on chain, for every plan and every
\* loss of an answer.
THEOREM LatchedIsOnChain == Spec => []LatchesTrue
<1>1. IInv => LatchesTrue
  BY DEF IInv
<1> QED
  BY <1>1, Invariance, PTL

\* seed-chain reports success only for a chain that mines its topology.
THEOREM SeedingIsTrue == Spec => []SeedReportTrue
<1>1. IInv => SeedReportTrue
  BY DEF IInv
<1> QED
  BY <1>1, Invariance, PTL

\* A process refuses to start over a shortage only when the account is short,
\* unless nobody answered the gate or two validators answered the process.
THEOREM RefusalIsRight == Spec => []ShortageIsReal
<1>1. IInv => ShortageIsReal
  BY DEF IInv, ReadsHonest
<1> QED
  BY <1>1, Invariance, PTL
-----------------------------------------------------------------------------
(***************************************************************************)
(* The launch plan: what parse_config makes of any set of keys.            *)
(***************************************************************************)

\* A non-empty set of numbers has a least one.
LEMMA LeastNat ==
  ASSUME NEW T, T \subseteq Nat, T # {}
  PROVE  \E x \in T : \A y \in T : x <= y
<1> DEFINE R == {p \in Nat \X Nat : p[1] < p[2]}
<1>1. IsWellFoundedOn(R, Nat)
  BY NatLessThanWellFounded DEF OpToRel
<1>2. PICK x \in T : \A y \in T : ~(<<y, x>> \in R)
  BY <1>1, WFMin
<1>3. \A y \in T : x \in Nat /\ y \in Nat
  OBVIOUS
<1>4. \A y \in T : ~(y < x)
  BY <1>2, <1>3
<1>5. QED
  BY <1>3, <1>4

\* There are n numbers from 1 to n.
LEMMA UpTo ==
  ASSUME NEW n \in Nat
  PROVE  IsFiniteSet(1 .. n) /\ Cardinality(1 .. n) = n
<1>1. 1 \in Int /\ n \in Int
  OBVIOUS
<1>2. /\ IsFiniteSet(1 .. n)
      /\ Cardinality(1 .. n) = IF 1 > n THEN 0 ELSE n - 1 + 1
  BY <1>1, FS_Interval
<1>3. QED
  BY <1>2

\* Sets that a function pairs off have one size.
LEMMA PairedOff ==
  ASSUME NEW S, NEW T, IsFiniteSet(S), NEW f \in [S -> T],
         \A x, y \in S : f[x] = f[y] => x = y, \A t \in T : \E x \in S : f[x] = t
  PROVE  IsFiniteSet(T) /\ Cardinality(T) = Cardinality(S)
<1>1. f \in Bijection(S, T)
  BY DEF Bijection, Injection, Surjection, IsInjective
<1>2. ExistsBijection(S, T)
  BY <1>1 DEF ExistsBijection
<1>3. QED
  BY <1>2, FS_Bijection

\* A finite set of numbers can be listed in ascending order.
LEMMA AscendingExists ==
  ASSUME NEW D \in SUBSET Nat, IsFiniteSet(D)
  PROVE  \E s \in [1 .. Cardinality(D) -> D] : Ascending(s)
<1> DEFINE Listed(E) == \E s \in [1 .. Cardinality(E) -> E] : Ascending(s)
           bad == {n \in Nat : \E E \in SUBSET Nat : IsFiniteSet(E) /\ Cardinality(E) = n /\ ~Listed(E)}
<1>1. SUFFICES bad = {}
  <2>1. Cardinality(D) \in Nat
    BY FS_CardinalityType
  <2> HIDE DEF Listed
  <2>2. Cardinality(D) \notin bad
    BY <1>1
  <2>3. Listed(D)
    BY <2>1, <2>2
  <2>4. QED
    BY <2>3 DEF Listed
<1>2. SUFFICES ASSUME bad # {} PROVE FALSE
  OBVIOUS
<1>3. PICK n \in bad : \A y \in bad : n <= y
  <2>1. bad \subseteq Nat
    OBVIOUS
  <2> HIDE DEF bad
  <2>2. QED
    BY <1>2, <2>1, LeastNat
<1>4. PICK E \in SUBSET Nat : IsFiniteSet(E) /\ Cardinality(E) = n /\ ~Listed(E)
  <2> HIDE DEF Listed
  <2>1. QED
    BY <1>3
<1>5. n \in Nat
  BY <1>3
<1>6. CASE n = 0
  <2>1. [i \in 1 .. 0 |-> i] \in [1 .. 0 -> E] /\ Ascending([i \in 1 .. 0 |-> i])
    BY DEF Ascending
  <2>2. QED
    BY <1>4, <1>6, <2>1
<1>7. CASE n # 0
  <2>1. E # {}
    BY <1>4, <1>7, FS_EmptySet
  <2>2. PICK x \in E : \A y \in E : x <= y
    BY <2>1, LeastNat
  <2> DEFINE G == E \ {x}
             m == n - 1
  <2>3. IsFiniteSet(G) /\ Cardinality(G) = m /\ G \in SUBSET Nat
    BY <1>4, FS_RemoveElement
  <2>4. m \in Nat /\ ~(n <= m) /\ m + 1 = n
    BY <1>5, <1>7
  <2>5. Listed(G)
    <3> HIDE DEF Listed, G
    <3>1. m \notin bad
      <4> HIDE DEF bad
      <4>1. QED
        BY <1>3, <2>4
    <3>2. QED
      BY <2>3, <2>4, <3>1
  <2>6. PICK t \in [1 .. m -> G] : Ascending(t)
    BY <2>3, <2>5
  <2> DEFINE s == [i \in 1 .. n |-> IF i = 1 THEN x ELSE t[i - 1]]
  <2>7. \A i \in 1 .. n : i # 1 => i - 1 \in 1 .. m
    BY <2>4
  <2>8. s \in [1 .. n -> E]
    BY <2>6, <2>7
  <2>9. \A y \in G : x < y
    BY <2>2
  <2>10. Ascending(s)
    <3> SUFFICES ASSUME NEW i \in 1 .. n, NEW k \in 1 .. n, i < k PROVE s[i] < s[k]
      BY DEF Ascending
    <3>1. k # 1 /\ s[k] = t[k - 1] /\ k - 1 \in 1 .. m
      BY <2>7
    <3>2. CASE i = 1
      <4>1. t[k - 1] \in G
        BY <2>6, <3>1
      <4>2. QED
        BY <2>9, <3>1, <3>2, <4>1
    <3>3. CASE i # 1
      <4>1. s[i] = t[i - 1] /\ i - 1 \in 1 .. m /\ i - 1 < k - 1
        BY <2>7, <3>3
      <4>2. t[i - 1] < t[k - 1]
        BY <2>6, <3>1, <4>1 DEF Ascending
      <4>3. QED
        BY <3>1, <4>1, <4>2
    <3>4. QED
      BY <3>2, <3>3
  <2>11. Listed(E)
    <3> HIDE DEF s
    <3>1. QED
      BY <1>4, <2>8, <2>10
  <2>12. QED
    BY <1>4, <2>11
<1>8. QED
  BY <1>6, <1>7

\* That listing is the one InOrderOf chooses.
LEMMA OrderedIsListing ==
  ASSUME NEW D \in SUBSET Nat, IsFiniteSet(D)
  PROVE  InOrderOf(D) \in [1 .. Cardinality(D) -> D] /\ Ascending(InOrderOf(D))
<1>1. \E s \in [1 .. Cardinality(D) -> D] : Ascending(s)
  BY AscendingExists
<1>2. QED
  BY <1>1 DEF InOrderOf

\* A scan that refuses nothing found one device per key.
LEMMA ScanFindsAll ==
  ASSUME NEW keys \in SUBSET ToSet(CudaKeys), CudaScan(keys).refused = "no"
  PROVE  LET devices == CudaScan(keys).devices IN
         /\ devices \in SUBSET Nat /\ IsFiniteSet(devices)
         /\ Cardinality(devices) = Cardinality(keys)
<1> DEFINE there == {i \in DOMAIN CudaKeys : CudaKeys[i] \in keys}
           device(i) == DeviceOf[CudaKeys[i]]
           seen(i) == {device(k) : k \in {k \in there : k < i}}
           bad == {i \in there : device(i) = NotANumber \/ Repeats(seen(i), device(i))}
           devices == {device(i) : i \in there}
<1>1. CudaScan(keys) =
        IF bad = {} THEN [refused |-> "no", devices |-> devices]
        ELSE [refused |-> IF device(Min(bad)) = NotANumber THEN "not_indexed" ELSE "duplicate",
              devices |-> seen(Min(bad))]
  BY DEF CudaScan
<1>2. bad = {} /\ CudaScan(keys).devices = devices
  <2> HIDE DEF bad, device, seen, devices
  <2>1. bad # {} => CudaScan(keys).refused \in {"not_indexed", "duplicate"}
    BY <1>1
  <2>2. bad = {}
    BY <2>1
  <2>3. QED
    BY <1>1, <2>2
<1>3. /\ DOMAIN CudaKeys = 1 .. Len(CudaKeys) /\ Len(CudaKeys) \in Nat
      /\ \A i, k \in DOMAIN CudaKeys : CudaKeys[i] = CudaKeys[k] => i = k
      /\ \A i \in DOMAIN CudaKeys : CudaKeys[i] \in ToSet(CudaKeys) /\ DeviceOf[CudaKeys[i]] \in Nat
  BY LaunchPlanConstants DEF IsInjective, ToSet
<1>4. IsFiniteSet(there) /\ there \subseteq Nat
  <2>1. there \in SUBSET (1 .. Len(CudaKeys)) /\ IsFiniteSet(1 .. Len(CudaKeys))
    BY <1>3, FS_Interval
  <2>2. IsFiniteSet(there)
    BY <2>1, FS_Subset
  <2>3. QED
    BY <1>3, <2>2
<1>5. IsFiniteSet(keys) /\ Cardinality(keys) = Cardinality(there)
  <2> DEFINE f == [i \in there |-> CudaKeys[i]]
  <2>1. f \in [there -> keys] /\ \A x, y \in there : f[x] = f[y] => x = y
    BY <1>3
  <2>2. \A t \in keys : \E x \in there : f[x] = t
    BY DEF ToSet
  <2> HIDE DEF f, there
  <2>3. QED
    BY <1>4, <2>1, <2>2, PairedOff
<1>6. IsFiniteSet(devices) /\ Cardinality(devices) = Cardinality(there)
  <2> DEFINE f == [i \in there |-> device(i)]
  <2>1. f \in [there -> devices] /\ \A t \in devices : \E x \in there : f[x] = t
    OBVIOUS
  <2>2. \A x, y \in there : x < y => f[x] # f[y]
    <3> TAKE x, y \in there
    <3> HAVE x < y
    <3>1. device(x) \in seen(y)
      OBVIOUS
    <3>2. ~Repeats(seen(y), device(y))
      BY <1>2
    <3>3. QED
      BY <3>1, <3>2 DEF Repeats
  <2>3. \A x, y \in there : f[x] = f[y] => x = y
    <3> TAKE x, y \in there
    <3>1. x \in Nat /\ y \in Nat
      BY <1>4
    <3>2. x < y \/ y < x \/ x = y
      BY <3>1
    <3> HIDE DEF f, there
    <3>3. QED
      BY <2>2, <3>2
  <2> HIDE DEF f, there, devices
  <2>4. QED
    BY <1>4, <2>1, <2>3, PairedOff
<1>7. devices \in SUBSET Nat
  BY <1>3
<1> HIDE DEF there, devices
<1>8. QED
  BY <1>2, <1>5, <1>6, <1>7

\* One entry per device, no device twice.
LEMMA OneEntryPerDevice ==
  ASSUME NEW D \in SUBSET Nat, IsFiniteSet(D)
  PROVE  /\ CudaEntries(D) \in Seq([backend : {"cuda"}, index : D])
         /\ Len(CudaEntries(D)) = Cardinality(D)
         /\ IsInjective(CudaEntries(D))
<1> DEFINE n == Cardinality(D)
           ordered == InOrderOf(D)
           E == [i \in DOMAIN ordered |-> Entry("cuda", ordered[i])]
<1>1. CudaEntries(D) = E
  BY DEF CudaEntries
<1>2. ordered \in [1 .. n -> D] /\ Ascending(ordered)
  BY OrderedIsListing
<1>3. n \in Nat
  BY FS_CardinalityType
<1> HIDE DEF ordered
<1>4. E \in [1 .. n -> [backend : {"cuda"}, index : D]] /\ DOMAIN E = 1 .. n
  BY <1>2 DEF Entry
<1>5. \A i, k \in 1 .. n : E[i] = E[k] => i = k
  <2> TAKE i, k \in 1 .. n
  <2> HAVE E[i] = E[k]
  <2>1. ordered[i] = ordered[k] /\ ordered[i] \in Nat
    BY <1>2 DEF Entry
  <2>2. i < k => ordered[i] < ordered[k]
    BY <1>2 DEF Ascending
  <2>3. k < i => ordered[k] < ordered[i]
    BY <1>2 DEF Ascending
  <2>4. QED
    BY <1>3, <2>1, <2>2, <2>3
<1> HIDE DEF E, n
<1>6. E \in Seq([backend : {"cuda"}, index : D]) /\ Len(E) = n
  <2> DEFINE T == [backend : {"cuda"}, index : D]
  <2>1. E \in [1 .. n -> T]
    BY <1>4
  <2> HIDE DEF T
  <2>2. E \in Seq(T)
    BY <1>3, <2>1
  <2>3. Len(E) = n
    BY <1>3, <1>4, <2>2
  <2>4. QED
    BY <2>2, <2>3 DEF T
<1>7. QED
  BY <1>1, <1>4, <1>5, <1>6 DEF IsInjective, n

\* Two plans without a backend in common.
Apart(a, b) == \A i \in DOMAIN a : \A k \in DOMAIN b : a[i].backend # b[k].backend

\* c is a plan over T without repetition: the entries of a, then those of b.
Joins(T, c, a, b) ==
  /\ c \in Seq(T) /\ Len(c) = Len(a) + Len(b) /\ IsInjective(c)
  /\ \A i \in 1 .. Len(a) : i \in DOMAIN c /\ c[i] = a[i]
  /\ \A i \in 1 .. Len(b) : Len(a) + i \in DOMAIN c /\ c[Len(a) + i] = b[i]
  /\ \A i \in DOMAIN c :
       \/ i \in 1 .. Len(a)
       \/ i - Len(a) \in 1 .. Len(b) /\ c[i] = b[i - Len(a)]

\* Plans of different backends, one after the other.
LEMMA Joined ==
  ASSUME NEW T, NEW a \in Seq(T), NEW b \in Seq(T), IsInjective(a), IsInjective(b), Apart(a, b)
  PROVE  Joins(T, a \o b, a, b)
<1> DEFINE m == Len(a)
           n == Len(b)
           c == a \o b
<1>1. /\ m \in Nat /\ n \in Nat /\ DOMAIN a = 1 .. m /\ DOMAIN b = 1 .. n
      /\ c \in Seq(T) /\ Len(c) = m + n /\ DOMAIN c = 1 .. m + n
  BY LenProperties, ConcatProperties
<1>2. \A i \in 1 .. m : i \in DOMAIN c /\ c[i] = a[i]
  BY <1>1
<1>3. \A i \in 1 .. n : m + i \in DOMAIN c /\ c[m + i] = b[i]
  BY <1>1
<1>4. \A i \in DOMAIN c : i \in 1 .. m \/ (i - m \in 1 .. n /\ c[i] = b[i - m])
  <2> TAKE i \in DOMAIN c
  <2>1. CASE i <= m
    BY <1>1, <2>1
  <2>2. CASE ~(i <= m)
    <3>1. i - m \in 1 .. n /\ m + (i - m) = i
      BY <1>1, <2>2
    <3>2. QED
      BY <1>3, <3>1
  <2>3. QED
    BY <2>1, <2>2
<1> HIDE DEF c, m, n
<1>5. \A i, k \in DOMAIN c : c[i] = c[k] => i = k
  <2> TAKE i, k \in DOMAIN c
  <2> HAVE c[i] = c[k]
  <2>1. CASE i \in 1 .. m /\ k \in 1 .. m
    BY <1>1, <1>2, <2>1 DEF IsInjective
  <2>2. CASE i \notin 1 .. m /\ k \notin 1 .. m
    <3>1. i - m \in 1 .. n /\ k - m \in 1 .. n /\ b[i - m] = b[k - m]
      BY <1>4, <2>2
    <3>2. i - m = k - m
      BY <1>1, <3>1 DEF IsInjective
    <3>3. i \in 1 .. m + n /\ k \in 1 .. m + n
      BY <1>1
    <3>4. QED
      BY <1>1, <3>2, <3>3
  <2>3. CASE i \in 1 .. m /\ k \notin 1 .. m
    BY <1>1, <1>2, <1>4, <2>3 DEF Apart
  <2>4. CASE i \notin 1 .. m /\ k \in 1 .. m
    BY <1>1, <1>2, <1>4, <2>4 DEF Apart
  <2>5. QED
    BY <2>1, <2>2, <2>3, <2>4
<1>6. IsInjective(c)
  BY <1>5 DEF IsInjective
<1>7. Joins(T, c, a, b)
  <2>1. c \in Seq(T) /\ Len(c) = Len(a) + Len(b)
    BY <1>1 DEF m, n
  <2>2. \A i \in 1 .. Len(a) : i \in DOMAIN c /\ c[i] = a[i]
    BY ONLY <1>2 DEF m
  <2>3. \A i \in 1 .. Len(b) : Len(a) + i \in DOMAIN c /\ c[Len(a) + i] = b[i]
    BY ONLY <1>3 DEF m, n
  <2>4. \A i \in DOMAIN c :
          \/ i \in 1 .. Len(a)
          \/ i - Len(a) \in 1 .. Len(b) /\ c[i] = b[i - Len(a)]
    BY ONLY <1>4 DEF m, n
  <2>5. QED
    BY ONLY <1>6, <2>1, <2>2, <2>3, <2>4, Zenon DEF Joins
<1>8. QED
  BY <1>7 DEF c

\* A section that is a table has one entry of its backend.
LEMMA SingleEntry ==
  ASSUME NEW section, NEW backend, NEW T, Entry(backend, 0) \in T
  PROVE  /\ Single(section, backend) \in Seq(T) /\ IsInjective(Single(section, backend))
         /\ \A i \in DOMAIN Single(section, backend) : Single(section, backend)[i].backend = backend
         /\ Len(Single(section, backend)) = IF IsTable(section) THEN 1 ELSE 0
<1>1. CASE IsTable(section)
  <2> DEFINE e == Entry(backend, 0)
  <2>1. Single(section, backend) = <<e>> /\ e.backend = backend
    BY <1>1 DEF Single, Entry
  <2> HIDE DEF e
  <2>2. <<e>> \in Seq(T) /\ Len(<<e>>) = 1 /\ IsInjective(<<e>>)
    BY DEF IsInjective, e
  <2>3. \A i \in DOMAIN <<e>> : <<e>>[i] = e
    OBVIOUS
  <2>4. QED
    BY <1>1, <2>1, <2>2, <2>3
<1>2. CASE ~IsTable(section)
  <2>1. Single(section, backend) = <<>>
    BY <1>2 DEF Single
  <2>2. <<>> \in Seq(T) /\ Len(<<>>) = 0 /\ IsInjective(<<>>) /\ DOMAIN <<>> = {}
    BY DEF IsInjective
  <2>3. QED
    BY <1>2, <2>1, <2>2
<1>3. QED
  BY <1>1, <1>2

\* The entries of one backend in a plan, by place.
Of(launch, b) == {i \in DOMAIN launch : launch[i].backend = b}

\* The plan of a configuration whose [cuda] keys name different devices: four runs
\* of entries, one per backend, with as many entries of CUDA as there are keys.
LEMMA PlanShape ==
  ASSUME NEW c \in Config, CudaScan(c.cuda).refused = "no"
  PROVE  /\ IsInjective(parse_launch(c))
         /\ Cardinality(Of(parse_launch(c), "cuda")) = Cardinality(c.cuda)
         /\ Of(parse_launch(c), "cpu") # {} <=> IsTable(c.cpu)
         /\ Of(parse_launch(c), "metal") # {} <=> IsTable(c.metal)
         /\ IsTable(Qpu(c)) => Of(parse_launch(c), "dwave") # {}
<1> DEFINE D == CudaScan(c.cuda).devices
           T == [backend : {"cpu", "cuda", "metal", "dwave"}, index : Nat]
           p == Single(c.cpu, "cpu")
           q == CudaEntries(D)
           r == Single(c.metal, "metal")
           s == Single(Qpu(c), "dwave")
<1>1. D \in SUBSET Nat /\ IsFiniteSet(D) /\ Cardinality(D) = Cardinality(c.cuda)
  <2>1. c.cuda \in SUBSET ToSet(CudaKeys)
    BY DEF Config
  <2>2. QED
    BY <2>1, ScanFindsAll
<1>2. parse_launch(c) = ((p \o q) \o r) \o s
  BY DEF parse_launch
<1>3. Entry("cpu", 0) \in T /\ Entry("metal", 0) \in T /\ Entry("dwave", 0) \in T
  BY DEF Entry
<1> HIDE DEF D
<1>4. q \in Seq(T) /\ Len(q) = Cardinality(D) /\ IsInjective(q) /\ \A i \in DOMAIN q : q[i].backend = "cuda"
  <2> DEFINE U == [backend : {"cuda"}, index : D]
  <2>1. q \in Seq(U) /\ Len(q) = Cardinality(D) /\ IsInjective(q)
    BY <1>1, OneEntryPerDevice
  <2>2. U \subseteq T /\ \A e \in U : e.backend = "cuda"
    BY <1>1
  <2> HIDE DEF U, T, q
  <2>3. q \in Seq(T)
    BY <2>1, <2>2, SeqMonotonic
  <2>4. \A i \in DOMAIN q : q[i] \in U
    BY <2>1
  <2>5. QED
    BY <2>1, <2>2, <2>3, <2>4
<1> HIDE DEF T
<1>5. /\ p \in Seq(T) /\ IsInjective(p) /\ Len(p) = (IF IsTable(c.cpu) THEN 1 ELSE 0)
      /\ \A i \in DOMAIN p : p[i].backend = "cpu"
  BY <1>3, SingleEntry
<1>6. /\ r \in Seq(T) /\ IsInjective(r) /\ Len(r) = (IF IsTable(c.metal) THEN 1 ELSE 0)
      /\ \A i \in DOMAIN r : r[i].backend = "metal"
  BY <1>3, SingleEntry
<1>7. /\ s \in Seq(T) /\ IsInjective(s) /\ Len(s) = (IF IsTable(Qpu(c)) THEN 1 ELSE 0)
      /\ \A i \in DOMAIN s : s[i].backend = "dwave"
  BY <1>3, SingleEntry
<1> HIDE DEF p, q, r, s
<1>8. /\ DOMAIN p = 1 .. Len(p) /\ DOMAIN q = 1 .. Len(q) /\ DOMAIN r = 1 .. Len(r) /\ DOMAIN s = 1 .. Len(s)
      /\ Len(p) \in Nat /\ Len(q) \in Nat /\ Len(r) \in Nat /\ Len(s) \in Nat
  BY <1>4, <1>5, <1>6, <1>7, LenProperties
<1> DEFINE u == p \o q
           v == u \o r
           w == v \o s
           m == Len(p)
           n == Len(q)
<1>9. /\ u \in Seq(T) /\ Len(u) = m + n /\ IsInjective(u)
      /\ \A i \in 1 .. m : i \in DOMAIN u /\ u[i] = p[i]
      /\ \A i \in 1 .. n : m + i \in DOMAIN u /\ u[m + i] = q[i]
      /\ \A i \in DOMAIN u : \/ i \in 1 .. m
                             \/ i - m \in 1 .. n /\ u[i] = q[i - m]
  <2>1. \A i \in DOMAIN p : \A k \in DOMAIN q : p[i].backend # q[k].backend
    BY <1>4, <1>5
  <2>2. Apart(p, q)
    BY <2>1 DEF Apart
  <2>3. p \in Seq(T) /\ q \in Seq(T) /\ IsInjective(p) /\ IsInjective(q)
    BY <1>4, <1>5
  <2> HIDE DEF u
  <2>4. Joins(T, p \o q, p, q)
    BY ONLY <2>2, <2>3, Joined
  <2>5. Joins(T, u, p, q)
    BY <2>4 DEF u
  <2>6. QED
    BY <2>5 DEF Joins
<1> HIDE DEF u
<1>10. /\ DOMAIN u = 1 .. m + n
       /\ \A i \in DOMAIN u : \/ i \in 1 .. m /\ u[i].backend = "cpu"
                              \/ i - m \in 1 .. n /\ u[i].backend = "cuda"
  <2>1. DOMAIN u = 1 .. m + n
    BY <1>9, LenProperties
  <2>2. QED
    BY <1>4, <1>5, <1>8, <1>9, <2>1
<1>11. /\ v \in Seq(T) /\ Len(v) = Len(u) + Len(r) /\ IsInjective(v)
       /\ \A i \in 1 .. Len(u) : i \in DOMAIN v /\ v[i] = u[i]
       /\ \A i \in 1 .. Len(r) : Len(u) + i \in DOMAIN v /\ v[Len(u) + i] = r[i]
       /\ \A i \in DOMAIN v : \/ i \in 1 .. Len(u)
                              \/ i - Len(u) \in 1 .. Len(r) /\ v[i] = r[i - Len(u)]
  <2>1. \A i \in DOMAIN u : \A k \in DOMAIN r : u[i].backend # r[k].backend
    BY <1>6, <1>10
  <2>2. Apart(u, r)
    BY <2>1 DEF Apart
  <2>3. u \in Seq(T) /\ r \in Seq(T) /\ IsInjective(u) /\ IsInjective(r)
    BY <1>6, <1>9
  <2> HIDE DEF v
  <2>4. Joins(T, u \o r, u, r)
    BY ONLY <2>2, <2>3, Joined
  <2>5. Joins(T, v, u, r)
    BY <2>4 DEF v
  <2>6. QED
    BY <2>5 DEF Joins
<1> HIDE DEF v
<1>12. \A i \in DOMAIN v : \/ i \in DOMAIN u /\ v[i] = u[i]
                           \/ i - Len(u) \in 1 .. Len(r) /\ v[i].backend = "metal"
  BY <1>6, <1>8, <1>9, <1>10, <1>11
<1>13. /\ w \in Seq(T) /\ Len(w) = Len(v) + Len(s) /\ IsInjective(w)
       /\ \A i \in 1 .. Len(v) : i \in DOMAIN w /\ w[i] = v[i]
       /\ \A i \in 1 .. Len(s) : Len(v) + i \in DOMAIN w /\ w[Len(v) + i] = s[i]
       /\ \A i \in DOMAIN w : \/ i \in 1 .. Len(v)
                              \/ i - Len(v) \in 1 .. Len(s) /\ w[i] = s[i - Len(v)]
  <2>1. \A i \in DOMAIN v : \A k \in DOMAIN s : v[i].backend # s[k].backend
    BY <1>7, <1>10, <1>12
  <2>2. Apart(v, s)
    BY <2>1 DEF Apart
  <2>3. v \in Seq(T) /\ s \in Seq(T) /\ IsInjective(v) /\ IsInjective(s)
    BY <1>7, <1>11
  <2> HIDE DEF w
  <2>4. Joins(T, v \o s, v, s)
    BY ONLY <2>2, <2>3, Joined
  <2>5. Joins(T, w, v, s)
    BY <2>4 DEF w
  <2>6. QED
    BY <2>5 DEF Joins
<1> HIDE DEF w
<1>14. DOMAIN v = 1 .. Len(v) /\ Len(v) \in Nat
  BY <1>11, LenProperties
<1>15. \A i \in DOMAIN w : \/ i \in DOMAIN v /\ w[i] = v[i]
                           \/ i - Len(v) \in 1 .. Len(s) /\ w[i].backend = "dwave"
  BY <1>7, <1>8, <1>13, <1>14
<1>16. \A i \in DOMAIN u : i \in DOMAIN w /\ w[i] = u[i]
  <2>1. \A i \in DOMAIN u : i \in DOMAIN v /\ v[i] = u[i]
    BY <1>9, <1>10, <1>11
  <2>2. \A i \in DOMAIN v : i \in DOMAIN w /\ w[i] = v[i]
    BY <1>13, <1>14
  <2>3. QED
    BY <2>1, <2>2
<1>17. \A i \in DOMAIN w : \/ i \in 1 .. m /\ w[i].backend = "cpu"
                           \/ i - m \in 1 .. n /\ i \in DOMAIN u /\ w[i].backend = "cuda"
                           \/ i - Len(u) \in 1 .. Len(r) /\ w[i].backend = "metal"
                           \/ i - Len(v) \in 1 .. Len(s) /\ w[i].backend = "dwave"
  BY <1>10, <1>12, <1>15
<1>18. Cardinality(Of(w, "cuda")) = n
  <2> DEFINE f == [i \in 1 .. n |-> m + i]
  <2>1. \A i \in 1 .. n : m + i \in Of(w, "cuda")
    BY <1>4, <1>8, <1>9, <1>16 DEF Of
  <2>2. f \in [1 .. n -> Of(w, "cuda")]
    BY <2>1
  <2>3. \A x, y \in 1 .. n : f[x] = f[y] => x = y
    BY <1>8
  <2>4. \A t \in Of(w, "cuda") : \E x \in 1 .. n : f[x] = t
    <3> TAKE t \in Of(w, "cuda")
    <3>1. t - m \in 1 .. n /\ t \in DOMAIN u
      BY <1>17 DEF Of
    <3>2. m + (t - m) = t
      BY <1>8, <1>10, <3>1
    <3>3. QED
      BY <3>1, <3>2
  <2>5. IsFiniteSet(1 .. n) /\ Cardinality(1 .. n) = n
    <3>1. n \in Nat
      BY <1>8
    <3> HIDE DEF n
    <3>2. QED
      BY ONLY <3>1, UpTo
  <2> HIDE DEF f
  <2>6. QED
    BY <2>2, <2>3, <2>4, <2>5, PairedOff
<1>19. Of(w, "cpu") # {} <=> IsTable(c.cpu)
  <2>1. ASSUME IsTable(c.cpu) PROVE Of(w, "cpu") # {}
    <3>1. 1 \in 1 .. m /\ p[1].backend = "cpu"
      BY <1>5, <1>8, <2>1
    <3>2. 1 \in DOMAIN w /\ w[1] = p[1]
      BY <1>9, <1>16, <3>1
    <3>3. QED
      BY <3>1, <3>2 DEF Of
  <2>2. ASSUME Of(w, "cpu") # {} PROVE IsTable(c.cpu)
    <3>1. PICK i \in DOMAIN w : w[i].backend = "cpu"
      BY <2>2 DEF Of
    <3>2. i \in 1 .. m
      BY <1>17, <3>1
    <3>3. QED
      BY <1>5, <3>2
  <2>3. QED
    BY <2>1, <2>2
<1>20. Of(w, "metal") # {} <=> IsTable(c.metal)
  <2>1. ASSUME IsTable(c.metal) PROVE Of(w, "metal") # {}
    <3>1. 1 \in 1 .. Len(r) /\ r[1].backend = "metal"
      BY <1>6, <1>8, <2>1
    <3>2. Len(u) + 1 \in DOMAIN v /\ v[Len(u) + 1] = r[1]
      BY <1>11, <3>1
    <3>3. Len(u) + 1 \in DOMAIN w /\ w[Len(u) + 1] = r[1]
      BY <1>13, <1>14, <3>2
    <3>4. QED
      BY <3>1, <3>3 DEF Of
  <2>2. ASSUME Of(w, "metal") # {} PROVE IsTable(c.metal)
    <3>1. PICK i \in DOMAIN w : w[i].backend = "metal"
      BY <2>2 DEF Of
    <3>2. i - Len(u) \in 1 .. Len(r)
      BY <1>17, <3>1
    <3>3. QED
      BY <1>6, <3>2
  <2>3. QED
    BY <2>1, <2>2
<1>21. ASSUME IsTable(Qpu(c)) PROVE Of(w, "dwave") # {}
  <2>1. 1 \in 1 .. Len(s) /\ s[1].backend = "dwave"
    BY <1>7, <1>8, <1>21
  <2>2. Len(v) + 1 \in DOMAIN w /\ w[Len(v) + 1] = s[1]
    BY <1>13, <2>1
  <2>3. QED
    BY <2>1, <2>2 DEF Of
<1>22. parse_launch(c) = w
  BY <1>2 DEF u, v, w
<1>23. QED
  BY <1>1, <1>4, <1>13, <1>18, <1>19, <1>20, <1>21, <1>22

\* parse_config refuses every configuration that parse_launch would not turn into
\* one miner per section: the first failed check is named, and none is named "no".
LEMMA PlansHold == OneMinerPerSection
<1> SUFFICES ASSUME NEW c \in Config, parse_config(c).refused = "no"
             PROVE  LET r == parse_config(c)
                        of(b) == {i \in DOMAIN r.launch : r.launch[i].backend = b}
                    IN  /\ r.launch # <<>> /\ IsInjective(r.launch)
                        /\ Cardinality(of("cuda")) = Cardinality(c.cuda)
                        /\ \A b \in {"cpu", "metal"} : of(b) # {} <=> IsTable(c[b])
                        /\ IsTable(c.dwave) => of("dwave") # {}
  BY Zenon DEF OneMinerPerSection
<1> DEFINE scan == CudaScan(c.cuda).refused
           plan == parse_launch(c)
           checks == Refusals(c)
           failed == {i \in DOMAIN checks : checks[i][1]}
<1>1. parse_config(c) = IF failed = {} THEN [refused |-> "no", launch |-> parse_launch(c)]
      ELSE [refused |-> checks[Min(failed)][2], launch |-> <<>>]
  BY DEF parse_config
<1> HIDE DEF scan, plan
<1>2. checks = << <<~c.toml, "bad_toml">>, <<~c.miner, "missing_miner">>, <<c.cpu = "indexed", "indexed_cpu">>,
                  <<scan # "no", scan>>, <<c.metal = "indexed", "indexed_metal">>,
                  <<plan = <<>>, IF c.legacy THEN "no_backends_v0_2" ELSE "no_backends">>,
                  <<~c.host, "missing_public_host">>, <<~c.port, "missing_public_port">> >>
  BY Zenon DEF Refusals, scan, plan
<1> HIDE DEF checks
<1>3. DOMAIN checks = 1 .. 8
  BY <1>2
<1>4. /\ checks[1][2] = "bad_toml" /\ checks[2][2] = "missing_miner" /\ checks[3][2] = "indexed_cpu"
      /\ checks[5][2] = "indexed_metal"
      /\ checks[7][2] = "missing_public_host" /\ checks[8][2] = "missing_public_port"
  BY <1>2
<1>5. checks[4][1] = (scan # "no") /\ checks[4][2] = scan
  BY <1>2
<1>6. checks[6][1] = (plan = <<>>) /\ checks[6][2] \in {"no_backends_v0_2", "no_backends"}
  BY <1>2
<1>7. failed = {}
  <2>1. \A i \in failed : checks[i][2] # "no"
    <3> TAKE i \in failed
    <3>1. i \in 1 .. 8 /\ checks[i][1]
      BY <1>3
    <3>2. i \in {1, 2, 3, 5, 7, 8} \/ i = 4 \/ i = 6
      BY <3>1
    <3> HIDE DEF failed
    <3>3. CASE i \in {1, 2, 3, 5, 7, 8}
      BY <1>4, <3>3
    <3>4. CASE i = 4
      BY <1>5, <3>1, <3>4
    <3>5. CASE i = 6
      BY <1>6, <3>5
    <3>6. QED
      BY <3>2, <3>3, <3>4, <3>5
  <2>2. failed # {} => Min(failed) \in failed
    <3>1. failed \subseteq Nat
      BY <1>3
    <3> HIDE DEF failed
    <3>2. ASSUME failed # {} PROVE Min(failed) \in failed
      <4>1. PICK m \in failed : \A y \in failed : m <= y
        BY <3>1, <3>2, LeastNat
      <4>2. QED
        BY <4>1 DEF Min
    <3>3. QED
      BY <3>2
  <2> HIDE DEF failed
  <2>3. QED
    BY <1>1, <2>1, <2>2
<1>8. parse_config(c).launch = parse_launch(c)
  BY <1>1, <1>7 DEF plan
<1>9. CudaScan(c.cuda).refused = "no" /\ parse_launch(c) # <<>>
  <2>1. ~checks[4][1] /\ ~checks[6][1]
    BY <1>7, <1>3
  <2>2. QED
    BY <1>5, <1>6, <2>1 DEF scan, plan
<1>10. IsTable(c.dwave) => IsTable(Qpu(c))
  BY DEF Qpu, IsTable
<1>11. /\ IsInjective(parse_launch(c))
       /\ Cardinality(Of(parse_launch(c), "cuda")) = Cardinality(c.cuda)
       /\ Of(parse_launch(c), "cpu") # {} <=> IsTable(c.cpu)
       /\ Of(parse_launch(c), "metal") # {} <=> IsTable(c.metal)
       /\ IsTable(Qpu(c)) => Of(parse_launch(c), "dwave") # {}
  BY <1>9, PlanShape
<1>12. \A b \in {"cpu", "metal"} : Of(parse_launch(c), b) # {} <=> IsTable(c[b])
  BY <1>11
<1>13. QED
  BY <1>8, <1>9, <1>10, <1>11, <1>12 DEF Of

\* Every configuration that parse_config accepts starts one miner per section, for
\* any list of keys and any way of reading a device number from a key.
THEOREM PlansAreSound == Spec => []PlanSound
<1>1. PlanSound
  BY PlansHold DEF PlanSound
<1> QED
  BY <1>1, PTL
-----------------------------------------------------------------------------
(***************************************************************************)
(* The node descriptor: what the survey of any host may put on chain.      *)
(***************************************************************************)

\* A non-empty set of numbers below a bound has a greatest one.
LEMMA GreatestNat ==
  ASSUME NEW T, T \subseteq Nat, T # {}, NEW m \in Nat, \A y \in T : y <= m
  PROVE  \E x \in T : \A y \in T : x >= y
<1> DEFINE B == {x \in Nat : \A y \in T : y <= x}
<1>1. PICK x \in B : \A y \in B : x <= y
  <2>1. B \subseteq Nat /\ m \in B
    OBVIOUS
  <2> HIDE DEF B
  <2>2. QED
    BY <2>1, LeastNat
<1>2. x \in Nat /\ \A y \in T : y \in Nat /\ y <= x
  BY <1>1
<1>3. x \in T
  <2> SUFFICES ASSUME x \notin T PROVE FALSE
    OBVIOUS
  <2>1. \A y \in T : y < x
    BY <1>2
  <2>2. PICK z \in T : TRUE
    OBVIOUS
  <2>3. x - 1 \in Nat
    BY <1>2, <2>1, <2>2
  <2>4. \A y \in T : y <= x - 1
    BY <1>2, <2>1
  <2>5. x - 1 \in B
    BY <2>3, <2>4
  <2>6. x <= x - 1
    BY <1>1, <2>5
  <2>7. QED
    BY <1>2, <2>6
<1>4. QED
  BY <1>2, <1>3

\* f adds up the widths of the first n characters.
AddsUp(f, chars, n) ==
  /\ DOMAIN f = 0 .. n /\ f[0] = 0
  /\ \A k \in 1 .. n : f[k] = f[k - 1] + chars[k]

\* Offsets adds up the widths; that its recursion has a solution is shown by the
\* least length without one.
LEMMA OffsetsAddUp ==
  ASSUME NEW chars, NEW n \in Nat, Len(chars) = n
  PROVE  AddsUp(Offsets(chars), chars, n)
<1> DEFINE Step(f, m) == [k \in 0 .. m |-> IF k = 0 THEN 0 ELSE f[k - 1] + chars[k]]
           upto == CHOOSE f : f = Step(f, n)
           has(m) == \E f : f = Step(f, m)
           bad == {m \in Nat : ~has(m)}
<1>1. has(0)
  <2> DEFINE f == [k \in 0 .. 0 |-> 0]
  <2>1. \A k \in 0 .. 0 : k = 0
    OBVIOUS
  <2>2. f = Step(f, 0)
    BY <2>1
  <2>3. QED
    BY <2>2
<1>2. ASSUME NEW m \in Nat, has(m) PROVE has(m + 1)
  <2>1. PICK f : f = Step(f, m)
    BY <1>2
  <2> DEFINE g == [k \in 0 .. m + 1 |-> IF k = m + 1 THEN f[m] + chars[m + 1] ELSE f[k]]
  <2>2. \A k \in 0 .. m : f[k] = IF k = 0 THEN 0 ELSE f[k - 1] + chars[k]
    BY <2>1
  <2>3. \A k \in 0 .. m + 1 : g[k] = IF k = 0 THEN 0 ELSE g[k - 1] + chars[k]
    <3> TAKE k \in 0 .. m + 1
    <3>1. CASE k = m + 1
      <4>1. k # 0 /\ k - 1 = m /\ m \in 0 .. m + 1 /\ m # m + 1
        BY <3>1
      <4>2. g[k] = f[m] + chars[k] /\ g[m] = f[m]
        BY <3>1, <4>1
      <4>3. QED
        BY <4>1, <4>2
    <3>2. CASE k # m + 1
      <4>1. k \in 0 .. m
        BY <3>2
      <4>2. g[k] = f[k]
        BY <3>2
      <4>3. k # 0 => k - 1 \in 0 .. m + 1 /\ k - 1 # m + 1
        BY <4>1
      <4>4. k # 0 => g[k - 1] = f[k - 1]
        BY <4>3
      <4> HIDE DEF g
      <4>5. QED
        BY <2>2, <4>1, <4>2, <4>4
    <3>3. QED
      BY <3>1, <3>2
  <2>4. g = [k \in 0 .. m + 1 |-> g[k]]
    OBVIOUS
  <2> HIDE DEF g
  <2>5. g = Step(g, m + 1)
    BY <2>3, <2>4
  <2>6. QED
    BY <2>5
<1>3. bad = {}
  <2> SUFFICES ASSUME bad # {} PROVE FALSE
    OBVIOUS
  <2> HIDE DEF has
  <2>1. PICK m \in bad : \A y \in bad : m <= y
    BY LeastNat
  <2>2. m \in Nat /\ ~has(m)
    BY <2>1
  <2>3. m # 0
    BY <1>1, <2>2
  <2>4. m - 1 \in Nat /\ m - 1 + 1 = m /\ ~(m <= m - 1)
    BY <2>2, <2>3
  <2>5. m - 1 \notin bad
    BY <2>1, <2>4
  <2>6. has(m - 1)
    BY <2>4, <2>5
  <2>7. has(m - 1 + 1)
    BY <1>2, <2>4, <2>6
  <2>8. QED
    BY <2>2, <2>4, <2>7
<1>4. has(n)
  <2> HIDE DEF has
  <2>1. QED
    BY <1>3
<1>5. upto = Step(upto, n)
  BY <1>4
<1>6. Offsets(chars) = upto
  BY DEF Offsets
<1> HIDE DEF upto
<1>7. DOMAIN upto = 0 .. n
  BY <1>5
<1>8. \A k \in 0 .. n : upto[k] = IF k = 0 THEN 0 ELSE upto[k - 1] + chars[k]
  BY <1>5
<1>9. upto[0] = 0 /\ \A k \in 1 .. n : upto[k] = upto[k - 1] + chars[k]
  BY <1>8
<1>10. QED
  BY <1>6, <1>7, <1>9 DEF AddsUp

\* A character ends at a whole number of bytes.
LEMMA OffsetsCount ==
  ASSUME NEW chars \in Seq(Nat)
  PROVE  \A k \in 0 .. Len(chars) : Offsets(chars)[k] \in Nat
<1> DEFINE n == Len(chars)
           f == Offsets(chars)
           bad == {k \in 0 .. n : f[k] \notin Nat}
<1>1. n \in Nat /\ \A k \in 1 .. n : chars[k] \in Nat
  BY LenProperties, ElementOfSeq
<1>2. f[0] = 0 /\ \A k \in 1 .. n : f[k] = f[k - 1] + chars[k]
  <2> HIDE DEF n
  <2>1. Len(chars) = n
    BY DEF n
  <2>2. AddsUp(Offsets(chars), chars, n)
    BY ONLY <1>1, <2>1, OffsetsAddUp
  <2>3. QED
    BY <2>2 DEF AddsUp
<1> HIDE DEF f, n
<1>3. bad = {}
  <2> SUFFICES ASSUME bad # {} PROVE FALSE
    OBVIOUS
  <2>1. bad \subseteq Nat
    BY <1>1
  <2>2. PICK k \in bad : \A y \in bad : k <= y
    <3> HIDE DEF bad
    <3>1. QED
      BY <2>1, LeastNat
  <2>3. k \in 0 .. n /\ f[k] \notin Nat
    BY <2>2
  <2>4. k # 0 /\ k \in 1 .. n /\ k - 1 \in 0 .. n /\ ~(k <= k - 1)
    BY <1>1, <1>2, <2>3
  <2>5. f[k - 1] \in Nat
    BY <2>2, <2>4
  <2>6. f[k] = f[k - 1] + chars[k] /\ chars[k] \in Nat
    BY <1>1, <1>2, <2>4
  <2>7. QED
    BY <2>3, <2>5, <2>6
<1>4. QED
  BY <1>3 DEF f, n

\* A text of n one-byte characters has n bytes.
LEMMA OnesCount ==
  ASSUME NEW n \in Nat
  PROVE  Ones(n) \in Seq(Nat) /\ Len(Ones(n)) = n /\ n \in Boundaries(Ones(n))
<1> DEFINE c == Ones(n)
           f == Offsets(c)
           bad == {k \in 0 .. n : f[k] # k}
<1>1. c \in Seq(Nat) /\ Len(c) = n /\ \A k \in 1 .. n : c[k] = 1
  <2>1. c \in [1 .. n -> Nat] /\ \A k \in 1 .. n : c[k] = 1
    BY DEF Ones
  <2> HIDE DEF c
  <2>2. c \in Seq(Nat)
    BY <2>1
  <2>3. Len(c) = n
    BY <2>1, <2>2
  <2>4. QED
    BY <2>1, <2>2, <2>3
<1> HIDE DEF c
<1>2. f[0] = 0 /\ \A k \in 1 .. n : f[k] = f[k - 1] + 1
  <2>1. AddsUp(Offsets(c), c, n)
    BY ONLY <1>1, OffsetsAddUp, n \in Nat
  <2>2. QED
    BY <1>1, <2>1 DEF AddsUp
<1> HIDE DEF f
<1>3. bad = {}
  <2> SUFFICES ASSUME bad # {} PROVE FALSE
    OBVIOUS
  <2>1. bad \subseteq Nat
    OBVIOUS
  <2>2. PICK k \in bad : \A y \in bad : k <= y
    <3> HIDE DEF bad
    <3>1. QED
      BY <2>1, LeastNat
  <2>3. k \in 0 .. n /\ f[k] # k
    BY <2>2
  <2>4. k # 0 /\ k \in 1 .. n /\ k - 1 \in 0 .. n /\ ~(k <= k - 1)
    BY <1>2, <2>3
  <2>5. f[k - 1] = k - 1
    BY <2>2, <2>4
  <2>6. QED
    BY <1>2, <2>3, <2>4, <2>5
<1>4. f[n] = n /\ n \in 0 .. n
  BY <1>3
<1>5. n \in {f[k] : k \in 0 .. n}
  BY <1>4
<1>6. Boundaries(c) = {f[k] : k \in 0 .. n}
  BY <1>1 DEF Boundaries, f
<1>7. QED
  BY <1>1, <1>5, <1>6 DEF c

\* The cut of clamp_utf8 is a boundary within the bound.
LEMMA ClampLands ==
  ASSUME NEW chars \in Seq(Nat), NEW max \in Nat
  PROVE  /\ clamp_utf8(chars, max) \in Boundaries(chars)
         /\ clamp_utf8(chars, max) \in Nat /\ clamp_utf8(chars, max) <= max
<1> DEFINE T == {b \in Boundaries(chars) : b <= max}
<1>1. Boundaries(chars) \subseteq Nat
  BY OffsetsCount DEF Boundaries
<1>2. 0 \in Boundaries(chars)
  <2>1. Len(chars) \in Nat
    BY LenProperties
  <2>2. AddsUp(Offsets(chars), chars, Len(chars))
    BY <2>1, OffsetsAddUp
  <2>3. Offsets(chars)[0] = 0 /\ 0 \in 0 .. Len(chars)
    BY <2>1, <2>2 DEF AddsUp
  <2>4. QED
    BY <2>3 DEF Boundaries
<1>3. T \subseteq Nat /\ T # {} /\ \A y \in T : y <= max
  BY <1>1, <1>2
<1> HIDE DEF T
<1>4. \E x \in T : \A y \in T : x >= y
  BY ONLY <1>3, GreatestNat, max \in Nat
<1>5. Max(T) \in T
  BY <1>4 DEF Max
<1>6. clamp_utf8(chars, max) = Max(T)
  BY DEF clamp_utf8, T
<1>7. QED
  BY <1>1, <1>5, <1>6 DEF T

\* f[k] is what scrub makes of the first k characters.
Scrubs(f, chars, n) ==
  /\ f[0] = <<>>
  /\ \A k \in 1 .. n :
       \/ f[k] = f[k - 1]
       \/ f[k] = f[k - 1] \o <<>> \o <<chars[k]>>
       \/ f[k] = f[k - 1] \o <<1>> \o <<chars[k]>>

\* scrub adds a character, with or without a space before it, or drops it.
LEMMA ScrubSteps ==
  ASSUME NEW chars, NEW n \in Nat, Len(chars) = n
  PROVE  \E f : Scrubs(f, chars, n) /\ scrub(chars) = f[n]
<1> DEFINE Add(k, x) == IF chars[k] = 0 THEN x
                        ELSE x \o (IF k > 1 /\ chars[k - 1] = 0 /\ x # <<>> THEN <<1>> ELSE <<>>)
                               \o <<chars[k]>>
           Step(f, m) == [k \in 0 .. m |-> IF k = 0 THEN <<>> ELSE Add(k, f[k - 1])]
           out == CHOOSE f : f = Step(f, n)
           has(m) == \E f : f = Step(f, m)
           bad == {m \in Nat : ~has(m)}
<1>1. scrub(chars) = out[n]
  BY DEF scrub
<1>2. \A k, x : \/ Add(k, x) = x
                \/ Add(k, x) = x \o <<>> \o <<chars[k]>>
                \/ Add(k, x) = x \o <<1>> \o <<chars[k]>>
  OBVIOUS
<1> HIDE DEF Add
<1>3. has(0)
  <2> DEFINE f == [k \in 0 .. 0 |-> <<>>]
  <2>1. \A k \in 0 .. 0 : k = 0
    OBVIOUS
  <2>2. f = Step(f, 0)
    BY <2>1
  <2>3. QED
    BY <2>2
<1>4. ASSUME NEW m \in Nat, has(m) PROVE has(m + 1)
  <2>1. PICK f : f = Step(f, m)
    BY <1>4
  <2> DEFINE g == [k \in 0 .. m + 1 |-> IF k = m + 1 THEN Add(m + 1, f[m]) ELSE f[k]]
  <2>2. \A k \in 0 .. m : f[k] = IF k = 0 THEN <<>> ELSE Add(k, f[k - 1])
    BY <2>1
  <2>3. \A k \in 0 .. m + 1 : g[k] = IF k = 0 THEN <<>> ELSE Add(k, g[k - 1])
    <3> TAKE k \in 0 .. m + 1
    <3>1. CASE k = m + 1
      <4>1. k # 0 /\ k - 1 = m /\ m \in 0 .. m + 1 /\ m # m + 1
        BY <3>1
      <4>2. g[k] = Add(k, f[m]) /\ g[m] = f[m]
        BY <3>1, <4>1
      <4>3. QED
        BY <4>1, <4>2
    <3>2. CASE k # m + 1
      <4>1. k \in 0 .. m
        BY <3>2
      <4>2. g[k] = f[k]
        BY <3>2
      <4>3. k # 0 => k - 1 \in 0 .. m + 1 /\ k - 1 # m + 1
        BY <4>1
      <4>4. k # 0 => g[k - 1] = f[k - 1]
        BY <4>3
      <4> HIDE DEF g
      <4>5. QED
        BY <2>2, <4>1, <4>2, <4>4
    <3>3. QED
      BY <3>1, <3>2
  <2>4. g = [k \in 0 .. m + 1 |-> g[k]]
    OBVIOUS
  <2> HIDE DEF g
  <2>5. g = Step(g, m + 1)
    BY <2>3, <2>4
  <2>6. QED
    BY <2>5
<1>5. bad = {}
  <2> SUFFICES ASSUME bad # {} PROVE FALSE
    OBVIOUS
  <2> HIDE DEF has
  <2>1. PICK m \in bad : \A y \in bad : m <= y
    BY LeastNat
  <2>2. m \in Nat /\ ~has(m)
    BY <2>1
  <2>3. m # 0
    BY <1>3, <2>2
  <2>4. m - 1 \in Nat /\ m - 1 + 1 = m /\ ~(m <= m - 1)
    BY <2>2, <2>3
  <2>5. m - 1 \notin bad
    BY <2>1, <2>4
  <2>6. has(m - 1)
    BY <2>4, <2>5
  <2>7. has(m - 1 + 1)
    BY <1>4, <2>4, <2>6
  <2>8. QED
    BY <2>2, <2>4, <2>7
<1>6. has(n)
  <2> HIDE DEF has
  <2>1. QED
    BY <1>5
<1>7. out = Step(out, n)
  BY <1>6
<1> HIDE DEF out
<1>8. \A k \in 0 .. n : out[k] = IF k = 0 THEN <<>> ELSE Add(k, out[k - 1])
  BY <1>7
<1>9. out[0] = <<>> /\ \A k \in 1 .. n : out[k] = Add(k, out[k - 1])
  BY <1>8
<1>10. \A k \in 1 .. n :
         \/ out[k] = out[k - 1]
         \/ out[k] = out[k - 1] \o <<>> \o <<chars[k]>>
         \/ out[k] = out[k - 1] \o <<1>> \o <<chars[k]>>
  BY <1>2, <1>9
<1>11. Scrubs(out, chars, n)
  BY <1>9, <1>10 DEF Scrubs
<1>12. QED
  BY <1>1, <1>11

\* A scrubbed text is a text.
LEMMA ScrubIsText ==
  ASSUME NEW chars \in Seq(Nat)
  PROVE  scrub(chars) \in Seq(Nat)
<1> DEFINE n == Len(chars)
<1>1. n \in Nat /\ \A k \in 1 .. n : chars[k] \in Nat
  BY LenProperties, ElementOfSeq
<1>2. PICK f : Scrubs(f, chars, n) /\ scrub(chars) = f[n]
  <2>1. Len(chars) = n
    OBVIOUS
  <2> HIDE DEF n
  <2>2. QED
    BY ONLY <1>1, <2>1, ScrubSteps
<1> HIDE DEF n
<1> DEFINE bad == {k \in 0 .. n : f[k] \notin Seq(Nat)}
<1>3. bad = {}
  <2> SUFFICES ASSUME bad # {} PROVE FALSE
    OBVIOUS
  <2>1. bad \subseteq Nat
    BY <1>1
  <2>2. PICK k \in bad : \A y \in bad : k <= y
    <3> HIDE DEF bad
    <3>1. QED
      BY <2>1, LeastNat
  <2>3. k \in 0 .. n /\ f[k] \notin Seq(Nat)
    BY <2>2
  <2>4. f[0] \in Seq(Nat)
    BY <1>2 DEF Scrubs
  <2>5. k # 0 /\ k \in 1 .. n /\ k - 1 \in 0 .. n /\ ~(k <= k - 1)
    BY <1>1, <2>3, <2>4
  <2>6. f[k - 1] \in Seq(Nat)
    BY <2>2, <2>5
  <2>7. <<>> \in Seq(Nat) /\ <<1>> \in Seq(Nat) /\ <<chars[k]>> \in Seq(Nat)
    BY <1>1, <2>5
  <2>8. \A a, b, c \in Seq(Nat) : a \o b \o c \in Seq(Nat)
    OBVIOUS
  <2>9. \/ f[k] = f[k - 1]
        \/ f[k] = f[k - 1] \o <<>> \o <<chars[k]>>
        \/ f[k] = f[k - 1] \o <<1>> \o <<chars[k]>>
    BY <1>2, <2>5 DEF Scrubs
  <2>10. QED
    BY <2>3, <2>6, <2>7, <2>8, <2>9
<1>4. f[n] \in Seq(Nat)
  BY <1>1, <1>3
<1>5. QED
  BY <1>2, <1>4

\* What a field filed on chain must be: whole characters, no secret, in bounds.
Clean(field) == field.whole /\ ~field.secret /\ field.bytes \in Nat /\ InBound(field)

\* The two texts that stand in for a reading are clean.
LEMMA StandInsClean ==
  /\ Clean(Field(REDACTED.chars, Len(REDACTED.chars), REDACTED))
  /\ Clean(Field(UNKNOWN.chars, Len(UNKNOWN.chars), UNKNOWN))
  /\ Field(UNKNOWN.chars, Len(UNKNOWN.chars), UNKNOWN).bytes > 0
<1>1. \A n \in Nat : /\ Text(Ones(n)).chars = Ones(n)
                     /\ Len(Ones(n)) = n /\ n \in Boundaries(Ones(n))
                     /\ ~looks_like_credential(Text(Ones(n)))
  BY OnesCount DEF Text, looks_like_credential
<1>2. MaxBytes \in Nat /\ MaxBytes >= 8
  BY <1>1, DescriptorConstants DEF REDACTED
<1>3. \A n \in 0 .. 8 : Clean(Field(Text(Ones(n)).chars, Len(Text(Ones(n)).chars), Text(Ones(n))))
  <2> TAKE n \in 0 .. 8
  <2> DEFINE t == Text(Ones(n))
             F == Field(t.chars, Len(t.chars), t)
  <2>1. t.chars = Ones(n) /\ Len(t.chars) = n /\ n \in Boundaries(t.chars) /\ ~looks_like_credential(t)
    BY <1>1
  <2> HIDE DEF t
  <2>2. F.bytes = n /\ F.whole /\ ~F.secret
    BY <2>1 DEF Field
  <2> HIDE DEF F
  <2>3. Clean(F)
    BY <1>2, <2>2 DEF Clean, InBound
  <2>4. QED
    BY <2>3 DEF F, t
<1>4. Field(UNKNOWN.chars, Len(UNKNOWN.chars), UNKNOWN).bytes = 7
  BY <1>1 DEF Field, UNKNOWN
<1>5. QED
  BY <1>3, <1>4 DEF REDACTED, UNKNOWN

\* Whatever the reading, bounded yields a clean field and bounded_nonempty one
\* with something in it.
LEMMA BoundedClean ==
  ASSUME NEW text, text.chars \in Seq(Nat)
  PROVE  /\ Clean(bounded(text))
         /\ Clean(bounded_nonempty(text)) /\ bounded_nonempty(text).bytes > 0
<1> DEFINE chars == scrub(text.chars)
           cut == clamp_utf8(chars, MaxBytes)
<1>1. MaxBytes \in Nat
  BY DescriptorConstants
<1>2. chars \in Seq(Nat)
  BY ScrubIsText
<1> HIDE DEF chars
<1>3. cut \in Boundaries(chars) /\ cut \in Nat /\ cut <= MaxBytes
  BY <1>1, <1>2, ClampLands
<1> HIDE DEF cut
<1>4. bounded(text) = IF looks_like_credential(text) THEN Field(REDACTED.chars, Len(REDACTED.chars), REDACTED)
                      ELSE Field(chars, cut, text)
  BY DEF bounded, chars, cut
<1>5. ~looks_like_credential(text) => Clean(Field(chars, cut, text))
  BY <1>3 DEF Field, Clean, InBound
<1>6. Clean(bounded(text))
  BY <1>4, <1>5, StandInsClean
<1>7. QED
  BY <1>6, StandInsClean DEF bounded_nonempty, Clean

\* The entries picked from a sequence, as many as there are places.
LEMMA PickedEntries ==
  ASSUME NEW T, NEW s \in Seq(T), NEW places \in SUBSET DOMAIN s
  PROVE  Picked(s, places) \in Seq(T) /\ Len(Picked(s, places)) <= Len(s)
<1> DEFINE n == Len(s)
           m == Cardinality(places)
           at == InOrderOf(places)
           P == [i \in DOMAIN at |-> s[at[i]]]
<1>1. n \in Nat /\ DOMAIN s = 1 .. n /\ \A i \in 1 .. n : s[i] \in T
  BY LenProperties, ElementOfSeq
<1>2. IsFiniteSet(1 .. n) /\ Cardinality(1 .. n) = n
  <2> HIDE DEF n
  <2>1. QED
    BY <1>1, UpTo
<1>3. places \in SUBSET Nat /\ IsFiniteSet(places) /\ m <= n /\ m \in Nat
  <2> HIDE DEF n
  <2>1. places \subseteq 1 .. n
    BY <1>1
  <2>2. IsFiniteSet(places) /\ Cardinality(places) <= Cardinality(1 .. n)
    BY <1>2, <2>1, FS_Subset
  <2>3. Cardinality(places) \in Nat
    BY <2>2, FS_CardinalityType
  <2>4. QED
    BY <1>2, <2>1, <2>2, <2>3
<1>4. at \in [1 .. m -> places]
  BY <1>3, OrderedIsListing
<1>5. Picked(s, places) = P
  BY DEF Picked
<1> HIDE DEF at, m, n
<1>6. P \in [1 .. m -> T]
  BY <1>1, <1>4
<1> HIDE DEF P
<1>7. P \in Seq(T)
  BY <1>3, <1>6
<1>8. Len(P) = m
  BY <1>3, <1>6, <1>7
<1>9. QED
  BY <1>3, <1>5, <1>7, <1>8 DEF n

\* The first n entries.
LEMMA TakenEntries ==
  ASSUME NEW T, NEW s \in Seq(T), NEW n \in Nat
  PROVE  Taken(s, n) \in Seq(T) /\ Len(Taken(s, n)) <= n /\ DOMAIN Taken(s, n) \subseteq DOMAIN s
<1> DEFINE m == Min({Len(s), n})
<1>1. Len(s) \in Nat /\ DOMAIN s = 1 .. Len(s)
  BY LenProperties
<1>2. m \in Nat /\ m <= Len(s) /\ m <= n
  <2> DEFINE S == {Len(s), n}
  <2>1. \E x \in S : \A y \in S : x <= y
    BY <1>1
  <2>2. m \in S /\ \A y \in S : m <= y
    BY <2>1 DEF Min
  <2> HIDE DEF m
  <2>3. QED
    BY <1>1, <2>2
<1>3. Taken(s, n) = SubSeq(s, 1, m)
  BY DEF Taken
<1> HIDE DEF m
<1>4. \A i \in 1 .. m : s[i] \in T
  BY <1>1, <1>2, ElementOfSeq
<1>5. SubSeq(s, 1, m) \in Seq(T) /\ Len(SubSeq(s, 1, m)) = m
  BY <1>1, <1>2, <1>4, SubSeqProperties
<1>6. DOMAIN SubSeq(s, 1, m) = 1 .. m
  BY <1>5, LenProperties
<1>7. QED
  BY <1>1, <1>2, <1>3, <1>5, <1>6

\* The trimmed text is a text.
LEMMA TrimIsText ==
  ASSUME NEW chars \in Seq(Nat)
  PROVE  trim(chars) \in Seq(Nat)
<1> DEFINE n == Len(chars)
           kept == {i \in DOMAIN chars : chars[i] # 0}
<1>1. n \in Nat /\ DOMAIN chars = 1 .. n /\ \A k \in 1 .. n : chars[k] \in Nat
  BY LenProperties, ElementOfSeq
<1>2. trim(chars) = IF kept = {} THEN <<>>
                    ELSE [i \in 1 .. Max(kept) - Min(kept) + 1 |-> Max({1, chars[Min(kept) + i - 1]})]
  BY DEF trim
<1>3. kept \subseteq 1 .. n
  BY <1>1
<1> HIDE DEF n, kept
<1>4. CASE kept = {}
  BY <1>2, <1>4
<1>5. CASE kept # {}
  <2> DEFINE lo == Min(kept)
             hi == Max(kept)
             m == hi - lo + 1
             out == [i \in 1 .. m |-> Max({1, chars[lo + i - 1]})]
  <2>1. kept \subseteq Nat /\ \A y \in kept : y <= n
    BY <1>1, <1>3
  <2>2. lo \in kept /\ \A y \in kept : lo <= y
    <3>1. \E x \in kept : \A y \in kept : x <= y
      BY <1>5, <2>1, LeastNat
    <3>2. QED
      BY <3>1 DEF Min
  <2>3. hi \in kept
    <3>1. \E x \in kept : \A y \in kept : x >= y
      BY <1>1, <1>5, <2>1, GreatestNat
    <3>2. QED
      BY <3>1 DEF Max
  <2>4. trim(chars) = out
    BY <1>2, <1>5
  <2> HIDE DEF lo, hi
  <2>5. lo \in 1 .. n /\ hi \in 1 .. n /\ lo <= hi
    BY <1>3, <2>2, <2>3
  <2>6. m \in Nat
    BY <1>1, <2>5
  <2>7. \A x \in Nat : Max({1, x}) \in Nat
    <3> TAKE x \in Nat
    <3> DEFINE S == {1, x}
    <3>1. \E z \in S : \A y \in S : z >= y
      OBVIOUS
    <3>2. Max(S) \in S
      BY <3>1 DEF Max
    <3>3. QED
      BY <3>2
  <2>8. \A i \in 1 .. m : lo + i - 1 \in 1 .. n
    BY <1>1, <2>5
  <2>9. \A i \in 1 .. m : chars[lo + i - 1] \in Nat
    BY <1>1, <2>8
  <2>10. out \in [1 .. m -> Nat]
    BY <2>7, <2>9
  <2> HIDE DEF out, m
  <2>11. out \in Seq(Nat)
    BY <2>6, <2>10
  <2>12. QED
    BY <2>4, <2>11
<1>6. QED
  BY <1>4, <1>5

\* Nothing is no text, no survey and no payload.
LEMMA NoneIsNoText ==
  ASSUME NEW t \in Readings, t # None
  PROVE  t \in Texts
BY DEF Readings

\* What the small helpers of the survey return.
LEMMA HelpersTyped ==
  /\ \A n \in Nat : Text(Ones(n)) \in Texts
  /\ Text(<<>>) \in Texts
  /\ \A r \in Readings : OrEmpty(r) \in Texts
  /\ \A t \in Texts : t.chars \in Seq(Nat)
  /\ \A c \in Counts : c \in Int /\ FitsU32(c) \in Counts /\ NonZero(c) \in Counts
<1>1. \A c \in Seq(Nat) : Text(c) \in Texts
  BY DEF Text, Texts
<1>2. \A n \in Nat : Text(Ones(n)) \in Texts
  BY <1>1, OnesCount
<1>3. Text(<<>>) \in Texts
  <2>1. <<>> \in Seq(Nat)
    OBVIOUS
  <2>2. QED
    BY <1>1, <2>1
<1>4. \A r \in Readings : OrEmpty(r) \in Texts
  BY <1>3 DEF OrEmpty, Readings
<1>5. \A t \in Texts : t.chars \in Seq(Nat)
  BY DEF Texts
<1>6. \A c \in Counts : c \in Int /\ FitsU32(c) \in Counts /\ NonZero(c) \in Counts
  BY DescriptorConstants DEF Counts, FitsU32, NonZero, NoNumber
<1>7. QED
  BY <1>2, <1>3, <1>4, <1>5, <1>6

\* A file that is read and trimmed is a reading.
LEMMA ReadTrimmedTyped ==
  ASSUME NEW r \in Readings
  PROVE  read_trimmed(r) \in Readings
<1>1. CASE r = None \/ trim(r.chars) = <<>>
  BY <1>1 DEF read_trimmed, Readings
<1>2. CASE ~(r = None \/ trim(r.chars) = <<>>)
  <2>1. r \in Texts
    BY <1>2 DEF Readings
  <2>2. trim(r.chars) \in Seq(Nat)
    BY <2>1, HelpersTyped, TrimIsText
  <2>3. read_trimmed(r) = [r EXCEPT !.chars = trim(r.chars)]
    BY <1>2 DEF read_trimmed
  <2>4. read_trimmed(r) \in Texts
    BY <2>1, <2>2, <2>3 DEF Texts
  <2>5. QED
    BY <2>4 DEF Readings
<1>3. QED
  BY <1>1, <1>2

\* The first reading that is there, if one is.
LEMMA FirstOfTyped ==
  ASSUME NEW readings \in Seq(Readings)
  PROVE  FirstOf(readings) \in Readings
<1> DEFINE there == {i \in DOMAIN readings : readings[i] # None}
<1>1. FirstOf(readings) = IF there = {} THEN None ELSE readings[Min(there)]
  BY DEF FirstOf
<1>2. there \subseteq Nat /\ \A i \in there : readings[i] \in Readings
  <2>1. DOMAIN readings = 1 .. Len(readings) /\ Len(readings) \in Nat
    BY LenProperties
  <2>2. QED
    BY <2>1, ElementOfSeq
<1> HIDE DEF there
<1>3. CASE there = {}
  BY <1>1, <1>3 DEF Readings
<1>4. CASE there # {}
  <2>1. \E x \in there : \A y \in there : x <= y
    BY <1>2, <1>4, LeastNat
  <2>2. Min(there) \in there
    BY <2>1 DEF Min
  <2>3. QED
    BY <1>1, <1>2, <1>4, <2>2
<1>5. QED
  BY <1>3, <1>4

\* A host as the survey may find it.
LEMMA HostTyped ==
  ASSUME NEW host \in Hosts
  PROVE  /\ host.macos \in BOOLEAN /\ host.apple \in BOOLEAN /\ host.os \in Texts /\ host.arch \in Texts
         /\ host.release \in Readings /\ host.machine \in Readings /\ host.brand \in Readings
         /\ host.board \in Readings /\ host.image \in Readings /\ host.python \in Seq(Readings)
         /\ host.logical \in Counts /\ host.physical \in Counts /\ host.memory \in Counts
         /\ host.cpu_dirs \in Counts /\ host.gpus \in Seq(Gpus) /\ host.displays \in Seq(Gpus)
<1>1. host \in [thread : {"answers", "not_started", "late", "panicked"},
                macos : BOOLEAN, apple : BOOLEAN, os : Texts, release : Readings,
                machine : Readings, brand : Readings, board : Readings, arch : Texts,
                logical : Counts, cpu_dirs : Nat, physical : Counts, memory : Counts,
                gpus : Seq(Gpus), displays : Seq(Gpus), python : Seq(Readings),
                image : Readings]
  BY DescriptorConstants
<1>2. Nat \subseteq Counts
  BY DEF Counts
<1>3. QED
  BY <1>1, <1>2

\* The GPUs of a host, from the two listings or the die itself.
LEMMA GpusTyped ==
  ASSUME NEW host \in Hosts
  PROVE  nvidia_gpus(host) \in Seq(Gpus) /\ macos_gpus(host) \in Seq(Gpus)
<1> DEFINE seen == {i \in DOMAIN host.gpus : trim(host.gpus[i].name.chars) # <<>>}
           shown == {i \in DOMAIN host.displays : host.displays[i].name.chars # <<>>}
           listed == Picked(host.displays, shown)
           name == [OrEmpty(host.brand) EXCEPT !.chars = @ \o <<0, 1, 1, 1>>]
           die == [vendor |-> Text(Ones(5)), utilization |-> NoNumber, name |-> name]
<1>1. host.gpus \in Seq(Gpus) /\ host.displays \in Seq(Gpus) /\ host.brand \in Readings
  BY HostTyped
<1>2. nvidia_gpus(host) = Picked(host.gpus, seen)
  BY DEF nvidia_gpus
<1>3. macos_gpus(host) = IF ~host.macos THEN <<>>
                         ELSE IF listed # <<>> THEN listed
                         ELSE IF host.apple /\ host.brand # None THEN <<die>> ELSE <<>>
  BY Zenon DEF macos_gpus
<1>4. seen \in SUBSET DOMAIN host.gpus /\ shown \in SUBSET DOMAIN host.displays
  OBVIOUS
<1> HIDE DEF seen, shown
<1>5. Picked(host.gpus, seen) \in Seq(Gpus)
  BY <1>1, <1>4, PickedEntries
<1>6. listed \in Seq(Gpus)
  BY <1>1, <1>4, PickedEntries
<1>7. name \in Texts
  <2>1. OrEmpty(host.brand) \in Texts
    BY <1>1, HelpersTyped
  <2>2. <<0, 1, 1, 1>> \in Seq(Nat)
    OBVIOUS
  <2>3. OrEmpty(host.brand).chars \o <<0, 1, 1, 1>> \in Seq(Nat)
    BY <2>1, <2>2, HelpersTyped, ConcatProperties
  <2>4. QED
    BY <2>1, <2>3 DEF Texts
<1>8. Text(Ones(5)) \in Texts
  BY HelpersTyped
<1> HIDE DEF name
<1>9. die \in Gpus
  BY <1>7, <1>8 DEF Gpus, Counts
<1> HIDE DEF die, listed
<1>10. QED
  BY <1>2, <1>3, <1>5, <1>6, <1>9

\* What the probes read, before it is sanitised.
Raw == [os : Texts, arch : Texts, release : Texts, machine : Texts, brand : Texts,
        logical : Counts, physical : Counts, memory : Counts, gpus : Seq(Gpus),
        python : Texts, image : Readings]

\* Every probe answers with a reading.
LEMMA ProbeTyped ==
  ASSUME NEW host \in Hosts
  PROVE  probe(host) \in Raw
<1>1. host.os \in Texts /\ host.arch \in Texts
  BY HostTyped
<1>2. OrEmpty(os_release(host)) \in Texts
  BY HostTyped, ReadTrimmedTyped, HelpersTyped DEF os_release
<1>3. os_machine(host) \in Texts
  BY HostTyped, NoneIsNoText DEF os_machine
<1>4. OrEmpty(cpu_brand(host)) \in Texts
  <2> DEFINE two == <<read_trimmed(host.brand), read_trimmed(host.board)>>
  <2>1. read_trimmed(host.brand) \in Readings /\ read_trimmed(host.board) \in Readings
    BY HostTyped, ReadTrimmedTyped
  <2>2. two \in Seq(Readings)
    BY <2>1
  <2> HIDE DEF two
  <2>3. FirstOf(two) \in Readings
    BY <2>2, FirstOfTyped
  <2>4. cpu_brand(host) = IF host.macos THEN host.brand ELSE FirstOf(two)
    BY DEF cpu_brand, two
  <2>5. cpu_brand(host) \in Readings
    BY <2>3, <2>4, HostTyped
  <2>6. QED
    BY <2>5, HelpersTyped
<1>5. logical_cores(host) \in Counts
  BY HostTyped, HelpersTyped DEF logical_cores
<1>6. physical_cores(host) \in Counts
  BY HostTyped, HelpersTyped DEF physical_cores
<1>7. memory_mb(host) \in Counts
  BY HostTyped, HelpersTyped DEF memory_mb
<1>8. Taken(nvidia_gpus(host) \o macos_gpus(host), MAX_GPUS) \in Seq(Gpus)
  <2>1. nvidia_gpus(host) \o macos_gpus(host) \in Seq(Gpus)
    BY GpusTyped, ConcatProperties
  <2>2. MAX_GPUS \in Nat
    BY DescriptorConstants
  <2>3. QED
    BY <2>1, <2>2, TakenEntries
<1>9. python_version(host) \in Texts
  <2>1. FirstOf(host.python) \in Readings
    BY HostTyped, FirstOfTyped
  <2>2. PYTHON_UNKNOWN \in Texts
    BY HelpersTyped DEF PYTHON_UNKNOWN
  <2>3. QED
    BY <2>1, <2>2, NoneIsNoText DEF python_version
<1>10. docker_image(host) \in Readings
  BY HostTyped, ReadTrimmedTyped DEF docker_image
<1>11. QED
  BY <1>1, <1>2, <1>3, <1>4, <1>5, <1>6, <1>7, <1>8, <1>9, <1>10 DEF probe, Raw

\* A clean field with something in it.
Filled(field) == Clean(field) /\ field.bytes > 0

\* A survey without a field that the pallet refuses, one that splits a character
\* or one that shows a secret.
Presentable(survey) ==
  LET sys == survey.system
      run == survey.runtime
  IN  /\ Filled(sys.os) /\ Filled(sys.brand) /\ Filled(sys.arch) /\ Filled(run.python)
      /\ Clean(sys.release) /\ Clean(sys.machine)
      /\ Len(sys.gpus) <= MAX_GPUS
      /\ \A i \in DOMAIN sys.gpus : /\ Filled(sys.gpus[i].vendor) /\ Filled(sys.gpus[i].name)
                                    /\ sys.gpus[i].utilization <= 100
      /\ run.image = None \/ Filled(run.image)
      /\ NoNumber \notin {sys.physical, sys.logical} => sys.physical <= sys.logical

\* The smaller of two numbers.
LEMMA SmallerOf ==
  ASSUME NEW a \in Int, NEW b \in Int
  PROVE  Min({a, b}) \in Int /\ Min({a, b}) <= a /\ Min({a, b}) <= b
<1> DEFINE S == {a, b}
<1>1. \E x \in S : \A y \in S : x <= y
  OBVIOUS
<1>2. Min(S) \in S /\ \A y \in S : Min(S) <= y
  BY <1>1 DEF Min
<1>3. QED
  BY <1>2

\* sanitize makes a presentable survey of any readings.
LEMMA SanitizeFits ==
  ASSUME NEW raw \in Raw
  PROVE  Presentable(sanitize(raw))
<1> DEFINE sys == sanitize(raw).system
           run == sanitize(raw).runtime
           taken == Taken(raw.gpus, MAX_GPUS)
<1>1. /\ sys.os = bounded_nonempty(raw.os) /\ sys.release = bounded(raw.release)
      /\ sys.machine = bounded(raw.machine) /\ sys.brand = bounded_nonempty(raw.brand)
      /\ sys.arch = bounded_nonempty(raw.arch)
      /\ run.python = bounded_nonempty(raw.python)
  BY DEF sanitize
<1>2. /\ sys.logical = raw.logical
      /\ sys.physical = IF NoNumber \in {raw.physical, raw.logical} THEN raw.physical
                        ELSE Min({raw.physical, raw.logical})
  BY DEF sanitize
<1>3. sys.gpus = [i \in DOMAIN taken |-> sanitize_gpu(raw.gpus[i])]
  BY DEF sanitize
<1>4. run.image = IF raw.image = None \/ bounded(raw.image).bytes = 0 THEN None ELSE bounded(raw.image)
  BY DEF sanitize
<1> HIDE DEF sys, run
<1>5. /\ raw.os.chars \in Seq(Nat) /\ raw.release.chars \in Seq(Nat) /\ raw.machine.chars \in Seq(Nat)
      /\ raw.brand.chars \in Seq(Nat) /\ raw.arch.chars \in Seq(Nat) /\ raw.python.chars \in Seq(Nat)
  BY HelpersTyped DEF Raw
<1>6. Filled(sys.os) /\ Filled(sys.brand) /\ Filled(sys.arch) /\ Filled(run.python)
  BY <1>1, <1>5, BoundedClean DEF Filled
<1>7. Clean(sys.release) /\ Clean(sys.machine)
  BY <1>1, <1>5, BoundedClean
<1>8. taken \in Seq(Gpus) /\ Len(taken) <= MAX_GPUS /\ DOMAIN taken \subseteq DOMAIN raw.gpus
  <2>1. raw.gpus \in Seq(Gpus) /\ MAX_GPUS \in Nat
    BY DescriptorConstants DEF Raw
  <2>2. QED
    BY <2>1, TakenEntries
<1> HIDE DEF taken
<1>9. Len(sys.gpus) = Len(taken) /\ DOMAIN sys.gpus = DOMAIN taken
  <2>1. DOMAIN taken = 1 .. Len(taken) /\ Len(taken) \in Nat
    BY <1>8, LenProperties
  <2>2. DOMAIN sys.gpus = 1 .. Len(taken)
    BY <1>3, <2>1
  <2>3. Len(sys.gpus) = Len(taken)
    BY <2>1, <2>2
  <2>4. QED
    BY <2>1, <2>2, <2>3
<1>10. ASSUME NEW i \in DOMAIN sys.gpus
       PROVE  /\ Filled(sys.gpus[i].vendor) /\ Filled(sys.gpus[i].name)
              /\ sys.gpus[i].utilization <= 100
  <2> DEFINE g == raw.gpus[i]
  <2>1. g \in Gpus
    <3>1. raw.gpus \in Seq(Gpus) /\ i \in DOMAIN raw.gpus
      BY <1>8, <1>9 DEF Raw
    <3>2. i \in 1 .. Len(raw.gpus)
      BY <3>1, LenProperties
    <3>3. QED
      BY <3>1, <3>2, ElementOfSeq
  <2>2. sys.gpus[i] = sanitize_gpu(g)
    BY <1>3, <1>9
  <2> HIDE DEF g
  <2>3. g.vendor \in Texts /\ g.name \in Texts /\ g.utilization \in Counts
    BY <2>1 DEF Gpus
  <2>4. g.vendor.chars \in Seq(Nat) /\ g.name.chars \in Seq(Nat) /\ g.utilization \in Int
    BY <2>3, HelpersTyped
  <2>5. Filled(bounded_nonempty(g.vendor)) /\ Filled(bounded_nonempty(g.name))
    BY <2>4, BoundedClean DEF Filled
  <2>6. Min({g.utilization, 100}) <= 100
    <3>1. 100 \in Int
      OBVIOUS
    <3>2. QED
      BY ONLY <2>4, <3>1, SmallerOf, Zenon
  <2>7. QED
    BY <2>2, <2>5, <2>6 DEF sanitize_gpu
<1>11. run.image = None \/ Filled(run.image)
  <2>1. CASE raw.image = None \/ bounded(raw.image).bytes = 0
    BY <1>4, <2>1
  <2>2. CASE ~(raw.image = None \/ bounded(raw.image).bytes = 0)
    <3>1. raw.image \in Texts
      BY <2>2, NoneIsNoText DEF Raw
    <3>2. Clean(bounded(raw.image))
      BY <3>1, HelpersTyped, BoundedClean
    <3>3. run.image = bounded(raw.image)
      BY <1>4, <2>2
    <3>4. bounded(raw.image).bytes > 0
      BY <2>2, <3>2 DEF Clean
    <3>5. QED
      BY <3>2, <3>3, <3>4 DEF Filled
  <2>3. QED
    BY <2>1, <2>2
<1>12. NoNumber \notin {sys.physical, sys.logical} => sys.physical <= sys.logical
  <2>1. raw.physical \in Int /\ raw.logical \in Int
    BY HelpersTyped DEF Raw
  <2>2. Min({raw.physical, raw.logical}) <= raw.logical
    BY <2>1, SmallerOf
  <2>3. QED
    BY <1>2, <2>1, <2>2
<1>13. Len(sys.gpus) <= MAX_GPUS
  BY <1>8, <1>9
<1>14. QED
  BY <1>6, <1>7, <1>10, <1>11, <1>12, <1>13 DEF Presentable, sys, run

\* A record of something else is not the record None.
LEMMA SurveyIsThere ==
  ASSUME NEW raw
  PROVE  sanitize(raw) # None /\ sanitize(raw).system # None /\ sanitize(raw).runtime # None
<1>1. DOMAIN None = {"none"}
  BY DEF None
<1>2. DOMAIN sanitize(raw) = {"system", "runtime"}
  BY DEF sanitize
<1>3. "os" \in DOMAIN sanitize(raw).system
  BY DEF sanitize
<1>4. "python" \in DOMAIN sanitize(raw).runtime
  BY DEF sanitize
<1>5. QED
  BY <1>1, <1>2, <1>3, <1>4

\* A presentable survey passes the last gate, and none of its texts is broken.
LEMMA PresentablePasses ==
  ASSUME NEW survey, Presentable(survey)
  PROVE  /\ fits_pallet_bounds(survey.system) /\ runtime_fits_pallet_bounds(survey.runtime)
         /\ \A f \in TextFields(survey) : f.whole /\ ~f.secret
<1> DEFINE sys == survey.system
           run == survey.runtime
<1>1. /\ Filled(sys.os) /\ Filled(sys.brand) /\ Filled(sys.arch) /\ Filled(run.python)
      /\ Clean(sys.release) /\ Clean(sys.machine)
      /\ Len(sys.gpus) <= MAX_GPUS
      /\ \A i \in DOMAIN sys.gpus : /\ Filled(sys.gpus[i].vendor) /\ Filled(sys.gpus[i].name)
                                    /\ sys.gpus[i].utilization <= 100
      /\ run.image = None \/ Filled(run.image)
  BY DEF Presentable
<1> HIDE DEF sys, run
<1>2. \A f : Filled(f) => Required(f) /\ Clean(f)
  BY DEF Filled, Clean, Required
<1>3. \A f : Clean(f) => InBound(f) /\ f.whole /\ ~f.secret
  BY DEF Clean
<1>4. fits_pallet_bounds(sys)
  BY <1>1, <1>2, <1>3 DEF fits_pallet_bounds
<1>5. runtime_fits_pallet_bounds(run)
  BY <1>1, <1>2 DEF runtime_fits_pallet_bounds
<1>6. \A f \in TextFields(survey) : Clean(f)
  <2> DEFINE A == {sys.os, sys.release, sys.machine, sys.brand, sys.arch, run.python}
             B == IF run.image = None THEN {} ELSE {run.image}
             C == UNION {{g.vendor, g.name} : g \in ToSet(sys.gpus)}
  <2>1. TextFields(survey) = (A \union B) \union C
    BY DEF TextFields, sys, run
  <2>2. \A f \in A : Clean(f)
    BY <1>1, <1>2
  <2>3. \A f \in B : Clean(f)
    BY <1>1, <1>2
  <2>4. ASSUME NEW f \in C PROVE Clean(f)
    <3>1. PICK g \in ToSet(sys.gpus) : f \in {g.vendor, g.name}
      OBVIOUS
    <3>2. PICK i \in DOMAIN sys.gpus : g = sys.gpus[i]
      BY <3>1 DEF ToSet
    <3>3. Clean(g.vendor) /\ Clean(g.name)
      BY <1>1, <1>2, <3>2
    <3>4. QED
      BY <3>1, <3>3
  <2> HIDE DEF A, B, C
  <2>5. QED
    BY <2>1, <2>2, <2>3, <2>4
<1>7. QED
  BY <1>3, <1>4, <1>5, <1>6 DEF sys, run

\* The endpoints filed are at most as many as the pallet takes.
LEMMA EndpointsBounded ==
  ASSUME NEW op \in Operators
  PROVE  Len(Endpoints(op)) <= MAX_RPC_ENDPOINTS
<1> DEFINE taken == Taken(op.endpoints, MAX_RPC_ENDPOINTS)
           sizes == [i \in DOMAIN taken |-> Trimmed(op.endpoints[i])]
           some == {i \in DOMAIN sizes : sizes[i] > 0 /\ sizes[i] <= MaxBytes}
           T == {sizes[i] : i \in DOMAIN sizes}
<1>1. MAX_RPC_ENDPOINTS \in Nat /\ op.endpoints \in Seq(Texts)
  BY DescriptorConstants
<1>2. taken \in Seq(Texts) /\ Len(taken) <= MAX_RPC_ENDPOINTS
  BY <1>1, TakenEntries
<1>3. Endpoints(op) = Picked(sizes, some)
  BY DEF Endpoints
<1> HIDE DEF taken
<1>4. DOMAIN taken = 1 .. Len(taken) /\ Len(taken) \in Nat
  BY <1>2, LenProperties
<1>5. DOMAIN sizes = 1 .. Len(taken) /\ some \in SUBSET DOMAIN sizes
  BY <1>4
<1>6. sizes \in [1 .. Len(taken) -> T]
  BY <1>4
<1> HIDE DEF sizes, some, T
<1>7. sizes \in Seq(T)
  BY <1>4, <1>6
<1>8. Len(sizes) = Len(taken)
  BY <1>4, <1>5, <1>7
<1>9. Picked(sizes, some) \in Seq(T) /\ Len(Picked(sizes, some)) <= Len(sizes)
  BY <1>5, <1>7, PickedEntries
<1>10. Len(Picked(sizes, some)) \in Nat
  BY <1>9, LenProperties
<1>11. QED
  BY <1>1, <1>2, <1>3, <1>4, <1>8, <1>9, <1>10

\* Whatever the host answers, the survey costs at most itself.
LEMMA DescriptorsHold == DescriptorFits
<1> SUFFICES ASSUME NEW host \in Hosts
             PROVE  LET survey == collect(host) IN
                    /\ survey # None =>
                         /\ \A f \in TextFields(survey) : f.whole /\ ~f.secret
                         /\ NoNumber \notin {survey.system.physical, survey.system.logical}
                              => survey.system.physical <= survey.system.logical
                    /\ \A op \in Operators :
                         LET payload == build_descriptor_payload(op, survey) IN
                         /\ (payload # None) = Describable(op)
                         /\ payload # None =>
                              /\ (payload.system # None) = (host.thread = "answers")
                              /\ (payload.runtime # None) = (host.thread = "answers")
                              /\ Len(payload.endpoints) <= MAX_RPC_ENDPOINTS
  BY Zenon DEF DescriptorFits
<1> DEFINE survey == collect(host)
           answers == host.thread = "answers"
<1>1. survey = IF answers THEN sanitize(probe(host)) ELSE None
  BY DEF collect
<1>2. answers => Presentable(survey) /\ survey # None /\ survey.system # None /\ survey.runtime # None
  <2>1. probe(host) \in Raw
    BY ProbeTyped
  <2>2. Presentable(sanitize(probe(host)))
    BY <2>1, SanitizeFits
  <2>3. QED
    BY <1>1, <2>2, SurveyIsThere
<1> HIDE DEF survey
<1>3. survey # None <=> answers
  BY <1>1, <1>2
<1> HIDE DEF answers
<1>4. answers => /\ fits_pallet_bounds(survey.system) /\ runtime_fits_pallet_bounds(survey.runtime)
                 /\ \A f \in TextFields(survey) : f.whole /\ ~f.secret
  BY <1>2, PresentablePasses
<1>5. answers => (NoNumber \notin {survey.system.physical, survey.system.logical}
                    => survey.system.physical <= survey.system.logical)
  BY <1>2 DEF Presentable
<1>6. ASSUME NEW op \in Operators
      PROVE  LET payload == build_descriptor_payload(op, survey) IN
             /\ (payload # None) = Describable(op)
             /\ payload # None =>
                  /\ (payload.system # None) = answers
                  /\ (payload.runtime # None) = answers
                  /\ Len(payload.endpoints) <= MAX_RPC_ENDPOINTS
  <2> DEFINE payload == build_descriptor_payload(op, survey)
             filed == [endpoints |-> Endpoints(op), miners |-> op.miners,
                       port |-> NonZero(op.port),
                       system |-> IF survey # None /\ fits_pallet_bounds(survey.system)
                                  THEN survey.system ELSE None,
                       runtime |-> IF survey # None /\ runtime_fits_pallet_bounds(survey.runtime)
                                   THEN survey.runtime ELSE None]
  <2>1. payload = IF ~Describable(op) THEN None ELSE filed
    BY Zenon DEF build_descriptor_payload
  <2>2. /\ filed.endpoints = Endpoints(op)
        /\ filed.system = IF survey # None /\ fits_pallet_bounds(survey.system) THEN survey.system ELSE None
        /\ filed.runtime = IF survey # None /\ runtime_fits_pallet_bounds(survey.runtime)
                           THEN survey.runtime ELSE None
    OBVIOUS
  <2>3. filed # None
    <3>1. "miners" \in DOMAIN filed
      OBVIOUS
    <3>2. DOMAIN None = {"none"}
      BY DEF None
    <3> HIDE DEF filed
    <3>3. QED
      BY <3>1, <3>2
  <2> HIDE DEF payload, filed
  <2>4. (filed.system # None) <=> answers
    BY <1>2, <1>3, <1>4, <2>2
  <2>5. (filed.runtime # None) <=> answers
    BY <1>2, <1>3, <1>4, <2>2
  <2>6. Describable(op) \in BOOLEAN /\ answers \in BOOLEAN
    BY DEF Describable, answers
  <2>7. Len(filed.endpoints) <= MAX_RPC_ENDPOINTS
    BY <2>2, EndpointsBounded
  <2>8. /\ (payload # None) = Describable(op)
        /\ payload # None =>
             /\ (payload.system # None) = answers
             /\ (payload.runtime # None) = answers
             /\ Len(payload.endpoints) <= MAX_RPC_ENDPOINTS
    BY <2>1, <2>3, <2>4, <2>5, <2>6, <2>7
  <2>9. QED
    BY <2>8 DEF payload
<1>7. QED
  BY <1>3, <1>4, <1>5, <1>6, Zenon DEF survey, answers

\* Whatever any host answers to the probes, and whatever the operator has set,
\* build_descriptor_payload files a descriptor that can be decoded and that costs
\* no reading but the broken ones.
THEOREM DescriptorsAreSound == Spec => []DescriptorSound
<1>1. DescriptorSound
  BY DescriptorsHold DEF DescriptorSound
<1> QED
  BY <1>1, PTL
=============================================================================
