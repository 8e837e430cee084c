------------------------------ MODULE Startup -------------------------------
(***************************************************************************)
(* The coordinator from process start to serving miners (main.rs,          *)
(* chain/preflight.rs, chain/sync.rs, funding.rs, readiness.rs), next to a *)
(* chain that is being seeded (chain/seed.rs), validators that sync while  *)
(* it starts, a faucet whose mints settle late, and a node manager that    *)
(* respawns it unless it exits with 64.                                    *)
(*                                                                         *)
(* Every chain call goes to the first validator that answers it            *)
(* (RealChainClient::rpc_call), so two calls in a row may be answered by   *)
(* two validators, and any call by none. Time is counted in the seconds    *)
(* the loops ask to sleep, as the code counts it.                          *)
(***************************************************************************)
EXTENDS LaunchPlan

CONSTANTS
  Validators,
  Api,            \* QuantumPowApi version a validator reports, 0 for none
  Configs,        \* configurations the operator may have on disk
  Floor,          \* min_balance_plancks
  TopUp,          \* faucet_top_up_plancks
  Timeout,        \* funding_timeout_s
  BackoffStart, BackoffMax,
  PollInterval, UnreachableGrace, SyncedConfirmations,
  SubmitAttempts,
  MaxMints,       \* bound: mints the faucet grants
  MaxStarts       \* bound: process starts

MinQuantumPowApi == 2

ASSUME StartupConstants ==
  /\ Validators # {} /\ Api \in [Validators -> Nat]
  /\ \A c \in Configs : c.plan \in Config /\ {c.faucet, c.describable} \subseteq BOOLEAN
  /\ {Floor, TopUp, Timeout, BackoffStart, BackoffMax, PollInterval, UnreachableGrace,
      SyncedConfirmations, SubmitAttempts, MaxMints, MaxStarts} \subseteq Nat \ {0}
  /\ BackoffStart <= BackoffMax /\ SyncedConfirmations >= 2

VARIABLES
  \* outside: validators, faucet, chain state, config.toml
  synced,        \* validators at the head of the chain
  said,          \* last sync report of each to this process
  balance, mints,  \* free balance of the account; mints on their way
  miners,        \* QuantumPow.Miners holds the account
  solver,        \* type in QuantumComputeMempool.Solvers, "none" without an entry
  topology,      \* QuantumPow.DefaultTopology: "none", "ours" or "rival"
  difficulty,    \* topologies with an entry in QuantumPow.Difficulties
  config,
  \* the process
  phase,         \* where run_config_path is
  exit,          \* "none" while it runs
  gate,          \* wait_until_synced: unreachable_for, saw_syncing, clear_polls
  fund,          \* ensure_funded: remaining, backoff, last_balance ({} before one)
  tries,         \* attempts of the step it is at
  latch,         \* the process latches that are set
  cached,        \* registered_solver, "none" when empty
  \* the seed-chain command
  seed,          \* "absent" when nobody runs it
  \* history
  answered,      \* validators whose sync report or balance the process used
  gaveUp,        \* the sync gate was left without an answer
  short,         \* the account was below the floor at the last balance read
  starts

outside == <<synced, balance, mints, miners, solver, topology, difficulty, config>>
process == <<phase, exit, gate, fund, tries, latch, cached, said>>
history == <<answered, gaveUp, short, starts>>
vars == <<outside, process, seed, history>>

Fresh == [silent |-> 0, saw |-> FALSE, clear |-> 0]
Unfunded == [remaining |-> Timeout, backoff |-> BackoffStart, last |-> {}]

\* Exits with 64, after which the node manager does not respawn.
ConfigInvalid == {"config", "incompatible", "unfunded", "rejected", "unreadable"}

Exits(why) == phase' = "exited" /\ exit' = why
Enters(p)  == phase' = p /\ UNCHANGED exit
-----------------------------------------------------------------------------
Init ==
  /\ synced \in SUBSET Validators
  /\ balance \in {0, Floor}
  /\ miners \in BOOLEAN /\ solver = "none"
  /\ topology \in {"none", "rival"} /\ difficulty = {topology} \ {"none"}
  /\ config \in Configs
  /\ mints = 0
  /\ phase = "load" /\ exit = "none"
  /\ gate = Fresh /\ fund = Unfunded /\ tries = 0 /\ latch = {} /\ cached = "none"
  /\ said = [v \in Validators |-> "nothing"]
  /\ seed \in {"idle", "absent"}
  /\ answered = {} /\ gaveUp = FALSE /\ short = FALSE /\ starts = 1

(***************************************************************************)
(* Outside                                                                 *)
(***************************************************************************)

FinishSync(v) ==
  /\ v \notin synced
  /\ synced' = synced \cup {v}
  /\ UNCHANGED <<balance, mints, miners, solver, topology, difficulty, config, process, seed,
                 history>>

MintSettles ==
  /\ mints > 0
  /\ mints' = mints - 1 /\ balance' = balance + TopUp
  /\ UNCHANGED <<synced, miners, solver, topology, difficulty, config, process, seed, history>>

RivalSeeds ==
  /\ topology = "none" /\ seed # "absent"
  /\ topology' = "rival" /\ difficulty' = difficulty \cup {"rival"}
  /\ UNCHANGED <<synced, balance, mints, miners, solver, config, process, seed, history>>

\* A node that imports history drops isSyncing for one answer near the tip; it
\* says syncing before it does, and says it again after.
Reports(v) ==
  IF v \in synced THEN {FALSE} ELSE {TRUE} \cup {FALSE : x \in {said[v]} \cap {"syncing"}}

\* What a validator that is behind shows: the account may read as empty, an
\* entry as missing.
Balances(v) == IF v \in synced THEN {balance} ELSE {0, balance}
Sees(v, stored) == IF v \in synced THEN {stored} ELSE {FALSE, stored}

(***************************************************************************)
(* load_coordinator_config and preflight                                   *)
(***************************************************************************)

LoadConfig ==
  /\ phase = "load"
  /\ IF parse_config(config.plan).refused # "no" THEN Exits("config") ELSE Enters("preflight")
  /\ UNCHANGED <<outside, gate, fund, tries, latch, cached, said, seed, history>>

\* A skewed validator is fatal, a silent one is not.
run_preflight_gate ==
  /\ phase = "preflight"
  /\ \/ Enters("sync")
     \/ \E v \in Validators :
          IF Api[v] < MinQuantumPowApi THEN Exits("incompatible") ELSE Enters("sync")
  /\ UNCHANGED <<outside, gate, fund, tries, latch, cached, said, seed, history>>

(***************************************************************************)
(* wait_until_synced. The number of clear answers starts over with every   *)
(* syncing one, the silence with every answer.                             *)
(***************************************************************************)

ConfirmedAtOnce(clear, saw) == TRUE

\* A node never seen syncing is believed on its first answer.
Confirmed(clear, saw) == ~saw \/ clear >= SyncedConfirmations

StartsOver(clear) == 0

\* A poll without an answer leaves the count of clear answers as it is.
KeptCount(clear) == clear

\* unreachable_for after one more poll without an answer.
Silence(n) == n + PollInterval

NoAnswer ==
  /\ phase = "sync"
  /\ LET silent == Silence(gate.silent)
     IN  IF silent > UnreachableGrace
         THEN Enters("funding") /\ gate' = Fresh /\ gaveUp' = TRUE
         ELSE /\ gate' = [gate EXCEPT !.silent = silent, !.clear = KeptCount(@)]
              /\ UNCHANGED <<phase, exit, gaveUp>>
  /\ UNCHANGED <<outside, fund, tries, latch, cached, said, seed, answered, short, starts>>

SyncAnswer(v) ==
  /\ phase = "sync"
  /\ \E syncing \in Reports(v) :
       /\ said' = [said EXCEPT ![v] = IF syncing THEN "syncing" ELSE "clear"]
       /\ IF syncing
          THEN /\ gate' = [silent |-> 0, saw |-> TRUE, clear |-> 0]
               /\ UNCHANGED <<phase, exit>>
          ELSE IF Confirmed(gate.clear + 1, gate.saw)
          THEN Enters("funding") /\ gate' = Fresh
          ELSE /\ gate' = [gate EXCEPT !.silent = 0, !.clear = @ + 1]
               /\ UNCHANGED <<phase, exit>>
  /\ answered' = answered \cup {v}
  /\ UNCHANGED <<outside, fund, tries, latch, cached, seed, gaveUp, short, starts>>

(***************************************************************************)
(* ensure_funded. A pass reads the balance, asks the faucet when it is     *)
(* short, and sleeps as long as the budget lasts.                          *)
(***************************************************************************)

next_backoff(backoff) == Min({2 * backoff, BackoffMax})

\* The end of a pass that did not settle the matter.
SleepOrGiveUp ==
  IF fund.remaining <= fund.backoff
  THEN Exits(IF fund'.last = {} THEN "unreadable" ELSE "unfunded")
  ELSE Enters("funding")

\* The next pass's budget.
Slept(f) == [f EXCEPT !.remaining = @ - f.backoff, !.backoff = next_backoff(f.backoff)]

Spent(f) == IF f.remaining <= f.backoff THEN f ELSE Slept(f)

BalanceUnread ==
  /\ phase = "funding"
  /\ fund' = Spent(fund)
  /\ SleepOrGiveUp
  /\ UNCHANGED <<outside, gate, tries, latch, cached, said, seed, history>>

BalanceRead(v) ==
  /\ phase = "funding"
  /\ \E b \in Balances(v) :
       /\ fund' = [fund EXCEPT !.last = {b}]
       /\ IF b >= Floor THEN Enters("register")
          ELSE IF config.faucet THEN Enters("asking") ELSE Exits("unfunded")
  /\ answered' = answered \cup {v} /\ short' = (balance < Floor)
  /\ UNCHANGED <<outside, gate, tries, latch, cached, said, seed, gaveUp, starts>>

\* classify_status: only 400 is permanent; 403, a rate limit, a server error
\* and a timeout are judged by the next balance.
AskFaucet ==
  /\ phase = "asking"
  /\ \/ /\ Exits("rejected") /\ UNCHANGED <<fund, mints>>
     \/ /\ mints' \in {mints} \cup {m \in {mints + 1} : m + balance \div TopUp <= MaxMints}
        /\ fund' = Spent(fund)
        /\ SleepOrGiveUp
  /\ UNCHANGED <<synced, balance, miners, solver, topology, difficulty, config, gate, tries,
                 latch, cached, said, seed, history>>

(***************************************************************************)
(* register_round_miner, the snapshot and file_round_descriptor            *)
(***************************************************************************)

LatchedAnyway == latch \cup {"miner"}

\* A failed registration is not latched: the feeder tries again every round.
AfterAttempts == latch

\* ensure_miner_registered: read first, then submit; the answer to a call that
\* landed may be lost, and a call for a registered account says so.
RegisterMiner ==
  /\ phase = "register"
  /\ \/ /\ miners' = TRUE
        /\ latch' = latch \cup {"miner"} /\ tries' = 0
        /\ Enters("snapshot")
     \/ /\ miners' \in {miners, TRUE}
        /\ IF tries + 1 = SubmitAttempts
           THEN Enters("snapshot") /\ tries' = 0 /\ latch' = AfterAttempts
           ELSE tries' = tries + 1 /\ UNCHANGED <<phase, exit, latch>>
  /\ UNCHANGED <<synced, balance, mints, solver, topology, difficulty, config, gate, fund,
                 cached, said, seed, history>>

\* Without a snapshot the walk ends early, and the feeder files the descriptor.
FetchSnapshot ==
  /\ phase = "snapshot"
  /\ \/ Enters("serving")
     \/ \E v \in Validators : TRUE \in Sees(v, topology # "none") /\ Enters("descriptor")
  /\ UNCHANGED <<outside, gate, fund, tries, latch, cached, said, seed, history>>

\* Filed, rejected, not describable or three errors: latched in every case.
FileDescriptor ==
  /\ phase = "descriptor"
  /\ \/ /\ latch' = latch \cup {"descriptor"} /\ tries' = 0 /\ Enters("serving")
     \/ /\ config.describable /\ tries + 1 < SubmitAttempts
        /\ tries' = tries + 1 /\ UNCHANGED <<phase, exit, latch>>
  /\ UNCHANGED <<outside, gate, fund, cached, said, seed, history>>

(***************************************************************************)
(* Serving: the feeder registers the solver, one attempt per round. A type *)
(* that differs from the plan's is deregistered first.                     *)
(***************************************************************************)

Want == SolverType(participate_kind(parse_config(config.plan).launch))

Types(v) == IF v \in synced THEN {solver} ELSE {"none", solver}

ReadSolver ==
  /\ phase = "serving" /\ "solver" \notin latch
  /\ \/ cached' = "none" /\ UNCHANGED <<phase, exit, latch>>
     \/ \E v \in Validators : \E type \in Types(v) :
          IF type = Want
          THEN cached' = type /\ latch' = latch \cup {"solver"} /\ UNCHANGED <<phase, exit>>
          ELSE /\ cached' = "none" /\ UNCHANGED latch
               /\ Enters(IF type = "none" THEN "solver" ELSE "deregister")
  /\ UNCHANGED <<outside, gate, fund, tries, said, seed, history>>

DeregisterSolver ==
  /\ phase = "deregister"
  /\ \/ solver' = "none" /\ Enters("solver")
     \/ solver' \in {solver, "none"} /\ Enters("serving")
  /\ UNCHANGED <<synced, balance, mints, miners, topology, difficulty, config, gate, fund, tries,
                 latch, cached, said, seed, history>>

\* A registered account keeps its entry, and its type, whatever was read.
RegisterSolver ==
  /\ phase = "solver"
  /\ LET stored == IF solver = "none" THEN Want ELSE solver
     IN  \/ /\ solver' = stored /\ latch' = latch \cup {"solver"}
            /\ cached' = IF stored = Want THEN Want ELSE "none"
         \/ solver' \in {solver, stored} /\ UNCHANGED <<latch, cached>>
  /\ Enters("serving")
  /\ UNCHANGED <<synced, balance, mints, miners, topology, difficulty, config, gate, fund, tries,
                 said, seed, history>>

(***************************************************************************)
(* The end of a process, and the next one. The latches and the cache are   *)
(* the process's own. After exit 64 only the operator starts it again.     *)
(***************************************************************************)

\* A signal ends the runtime cleanly; a runtime error is fatal but not 64.
RuntimeEnds ==
  /\ phase = "serving"
  /\ Exits("stopped")
  /\ UNCHANGED <<outside, gate, fund, tries, latch, cached, said, seed, history>>

\* A crash at any time or an exit, then a new start, perhaps with another config.
\* Bound: not while the chain is being seeded, which only the snapshot notices.
Restart ==
  /\ starts < MaxStarts /\ seed = "absent"
  /\ starts' = starts + 1
  /\ config' \in Configs
  /\ phase' = "load" /\ exit' = "none"
  /\ gate' = Fresh /\ fund' = Unfunded /\ tries' = 0 /\ latch' = {} /\ cached' = "none"
  /\ said' = [v \in Validators |-> "nothing"]
  /\ answered' = {} /\ gaveUp' = FALSE /\ short' = FALSE
  /\ UNCHANGED <<synced, balance, mints, miners, solver, topology, difficulty, seed>>

(***************************************************************************)
(* seed_chain: two root calls with a read before, between and after each.  *)
(* The pallet writes DefaultTopology only when there is none, and sudo     *)
(* reports the outer call, so a registration that came second is included  *)
(* like one that came first.                                               *)
(***************************************************************************)

SeedChecks ==
  /\ seed = "idle"
  /\ seed' = IF topology = "none" THEN "registering" ELSE "refused"
  /\ UNCHANGED <<outside, process, history>>

SeedRegisters ==
  /\ seed = "registering"
  /\ LET stored == IF topology = "none" THEN "ours" ELSE topology
     IN  \/ topology' = stored /\ seed' = "reading"
         \/ topology' \in {topology, stored} /\ seed' = "failed"
  /\ UNCHANGED <<synced, balance, mints, miners, solver, difficulty, config, process, history>>

AnyTopology == topology # "none"

\* The hash the chain stored is the one computed here.
HashMatches == topology = "ours"

SeedReadsBack ==
  /\ seed = "reading"
  /\ seed' \in {IF HashMatches THEN "setting" ELSE "failed", "failed"}
  /\ UNCHANGED <<outside, process, history>>

SeedSetsDifficulty ==
  /\ seed = "setting"
  /\ \/ difficulty' = difficulty \cup {"ours"} /\ seed' = "done"
     \/ difficulty' \in {difficulty, difficulty \cup {"ours"}} /\ seed' = "failed"
  /\ UNCHANGED <<synced, balance, mints, miners, solver, topology, config, process, history>>

\* The operator runs the command again.
SeedAgain ==
  /\ seed = "failed"
  /\ seed' = "idle"
  /\ UNCHANGED <<outside, process, history>>
-----------------------------------------------------------------------------
SeedStep == SeedChecks \/ SeedRegisters \/ SeedReadsBack \/ SeedSetsDifficulty

StartStep ==
  \/ LoadConfig \/ run_preflight_gate
  \/ NoAnswer \/ \E v \in Validators : SyncAnswer(v)
  \/ BalanceUnread \/ \E v \in Validators : BalanceRead(v)
  \/ AskFaucet
  \/ RegisterMiner \/ FetchSnapshot \/ FileDescriptor

SolverStep == ReadSolver \/ DeregisterSolver \/ RegisterSolver

Next ==
  \/ StartStep \/ SolverStep \/ SeedStep
  \/ RuntimeEnds \/ Restart \/ SeedAgain
  \/ \E v \in Validators : FinishSync(v)
  \/ MintSettles \/ RivalSeeds

Spec == Init /\ [][Next]_vars

(***************************************************************************)
(* The process keeps running, and a validator that imports history comes   *)
(* to the end of it. Nobody has to answer, pay or seed.                    *)
(***************************************************************************)
FairSpec ==
  /\ Spec
  /\ WF_vars(StartStep)
  /\ \A v \in Validators : WF_vars(FinishSync(v))
-----------------------------------------------------------------------------
(***************************************************************************)
(* Properties                                                              *)
(***************************************************************************)

\* The state has its shape; the retry gap stays within its ceiling and the
\* funding budget is never overdrawn.
TypeOK ==
  /\ synced \subseteq Validators /\ answered \subseteq Validators
  /\ balance \in Nat /\ mints \in 0 .. MaxMints
  /\ config \in Configs
  /\ phase \in {"load", "preflight", "sync", "funding", "asking", "register", "snapshot",
                "descriptor", "serving", "deregister", "solver", "exited"}
  /\ exit \in ConfigInvalid \cup {"none", "stopped"} /\ (exit = "none" <=> phase # "exited")
  /\ gate.silent \in 0 .. UnreachableGrace /\ gate.clear \in 0 .. SyncedConfirmations
  /\ fund.remaining \in 1 .. Timeout /\ fund.backoff \in BackoffStart .. BackoffMax
  /\ tries \in 0 .. SubmitAttempts - 1
  /\ latch \subseteq {"miner", "descriptor", "solver"}
  /\ seed \in {"idle", "registering", "reading", "setting", "done", "refused", "failed", "absent"}

\* A process that refuses to start because the account is short is right about
\* the account, although validators flap as they near the tip and mints settle
\* late, unless no validator answered the sync gate or two validators answered
\* the process: the gate judges whoever answers first, and so does the read.
ShortageIsReal ==
  exit = "unfunded" => short \/ gaveUp \/ Cardinality(answered) > 1

\* The state keeps its shape, and what the process has latched or cached is on
\* chain, although calls fail
\* after they landed, the plan changes between two starts, and a validator
\* that is behind hides entries: a latched miner and a latched solver are
\* registered, and the type that selects orders is the registered one.
LatchesTrue ==
  /\ TypeOK
  /\ "miner" \in latch => miners
  /\ "solver" \in latch => solver # "none"
  /\ cached # "none" => cached = solver

\* seed-chain reports success only for a chain that mines its topology at its
\* difficulty, and gives no difficulty to a topology nobody will select, also
\* when another operator seeds the chain between any two of its calls.
SeedReportTrue ==
  /\ seed = "done" => topology = "ours" /\ "ours" \in difficulty
  /\ "ours" \in difficulty => topology = "ours"

\* Startup ends: the process serves its miners or says why it does not, however
\* the silence, the flapping and the faucet's answers interleave.
StartupEnds ==
  (phase = "load") ~> (phase \in {"serving", "exited"})
=============================================================================
