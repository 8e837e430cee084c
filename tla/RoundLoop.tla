------------------------------ MODULE RoundLoop ------------------------------
(***************************************************************************)
(* The feeder's round machine (round.rs, drive_to_mining, feeder_loop) with *)
(* its watch over the transaction pool (pool_watch.rs) and the declaration *)
(* of participation (readiness.rs). The feeder is one task; every chain    *)
(* call is an await, so the chain moves between any two of its steps: a    *)
(* snapshot, a pool read and a qblock id may belong to different heads.    *)
(*                                                                         *)
(* The chain is external and modelled from the calls made to it: a root is *)
(* the number of qblocks minted so far, and the candidate of that root is  *)
(* the next one.                                                           *)
(***************************************************************************)
EXTENDS Naturals, FiniteSets

CONSTANTS
  Extrinsics,     \* extrinsics that carry a proof, [nonce, copy]: a resubmission of a
                  \* nonce has another hash; the lower the nonce the better its energy
  EasesAt,        \* EasesAt[n]: blocks after its root at which proof n clears the gates
  AwaitClearPolls,    \* AWAIT_CLEAR_POLLS
  AwaitMaxBlocks,     \* AWAIT_QBLOCK_MAX_BLOCKS
  MaxRoot,        \* bound: qblocks minted
  MaxBlock,       \* bound: blocks
  MaxGeneration,  \* bound: generations entered
  Answering       \* generations in which some miner answers

Nonces == {e.nonce : e \in Extrinsics}

ASSUME RoundLoopConstants ==
  /\ Nonces \subseteq Nat
  /\ EasesAt \in [Nonces -> Nat]
  /\ {AwaitClearPolls, AwaitMaxBlocks, MaxRoot, MaxBlock, MaxGeneration} \subseteq Nat
  /\ AwaitClearPolls >= 1

RoundStates == {"StopMining", "ValidatorSynced", "AccountFunded", "MinerRegistered",
                "RequirementsDownloaded", "DescriptorFiled", "StartMining", "AwaitingQBlock"}

VARIABLES
  \* chain
  root,                 \* qblocks minted: names LastProofBlockHash
  block,                \* head number
  root_block,           \* block that minted the current root
  pool,                 \* pending proofs
  \* feeder
  pc,                   \* where the loop body is
  snap,                 \* snapshot of this poll, or of the walk
  round,                \* the loop's RoundState; "none" before the first walk
  machine,              \* drive_to_mining's RoundState
  current_head,         \* root the round mines on: {} is None
  generation,
  miner_registered, descriptor_filed,          \* process latches
  last_declared, declared_generation,          \* participation: {} is None
  candidate,            \* qblock id read, submission under way
  mined,                \* round_mined(): a Result counted for this generation
  stopping,             \* shutdown requested
  \* PoolWatch
  watch_root, verdicts, ignored, stopped_at, clear_polls,
  \* history
  built,                \* <<generation, root>> of the work built
  answered,             \* candidates the chain gave a final answer for
  held                  \* <<root, nonce>> of proofs that stopped the miners

chainVars   == <<root, block, root_block, pool>>
walkVars    == <<machine, miner_registered, descriptor_filed>>
partVars    == <<last_declared, declared_generation, candidate, answered>>
watchVars   == <<watch_root, verdicts, ignored, stopped_at, clear_polls>>
vars == <<chainVars, pc, snap, round, current_head, generation, stopping, built, held,
          walkVars, partVars, watchVars, mined>>

\* A pending extrinsic; the record stands for its hash.
Pending == [extrinsic : Extrinsics, root : Nat]
Snapshot == [root : Nat, block : Nat, since : Nat]

ChainView == [root |-> root, block |-> block, since |-> block - root_block]

\* RoundState::transition; Shutdown ends the feeder instead.
transition(state, event) ==
  CASE event = "NewHead" -> "StopMining"
    [] event = "WinPending" -> IF state = "StartMining" THEN "AwaitingQBlock" ELSE state
    [] event = "Resume" -> IF state = "AwaitingQBlock" THEN "StopMining" ELSE state
    [] event = "Failed" -> state
    [] event = "Succeeded" ->
         CASE state = "StopMining" -> "ValidatorSynced"
           [] state = "ValidatorSynced" -> "AccountFunded"
           [] state = "AccountFunded" -> "MinerRegistered"
           [] state = "MinerRegistered" -> "RequirementsDownloaded"
           [] state = "RequirementsDownloaded" -> "DescriptorFiled"
           [] state = "DescriptorFiled" -> "StartMining"
           [] OTHER -> state

candidate_qblock_id(latest) == latest + 1
-----------------------------------------------------------------------------
(***************************************************************************)
(* PoolWatch                                                               *)
(***************************************************************************)

\* judge_pending_proof: malformed proofs end like those of another round.
Judge(p, s) ==
  IF p.root # s.root THEN "OtherRound"
  ELSE IF s.since >= EasesAt[p.extrinsic.nonce] THEN "Clears" ELSE "BelowGates"

CacheEverything(verdict) == TRUE

\* Verdicts the cache may keep for the life of the root: difficulty only eases.
Cacheable(verdict) == verdict # "BelowGates"

KnownVerdicts == IF watch_root = {snap.root} THEN verdicts ELSE {}
KnownIgnored  == IF watch_root = {snap.root} THEN ignored ELSE {}

\* The cache after a scan of the pool.
ScannedVerdicts(pending) ==
  KnownVerdicts \union
    {[pending |-> p, clears |-> Judge(p, snap) = "Clears"] :
       p \in {q \in pending : /\ q.extrinsic.nonce \notin KnownIgnored
                              /\ \A v \in KnownVerdicts : v.pending # q
                              /\ Cacheable(Judge(q, snap))}}

\* Pending proofs the scan reports as clearing.
ClearingProofs(pending) ==
  {p \in pending : /\ p.extrinsic.nonce \notin KnownIgnored
                   /\ \E v \in ScannedVerdicts(pending) : v.pending = p /\ v.clears}

ClearPolls(observed) ==
  CASE observed = "Clearing" -> 0
    [] observed = "Clear" -> clear_polls + 1
    [] observed = "Unknown" -> clear_polls

\* PoolWatch::stopped starts a new count.
StoppedPolls == 0

ResumesOnClearOnly(observed) == ClearPolls(observed) >= AwaitClearPolls

\* resume_reason, after the poll was counted.
Resumes(observed) ==
  \/ ClearPolls(observed) >= AwaitClearPolls
  \/ \E b \in stopped_at : snap.block >= b + AwaitMaxBlocks

ExpireNothing(cache) == {}

\* expire_clearing: proofs that held the miners cannot hold them again.
Expired(cache) == {v.pending.extrinsic.nonce : v \in {w \in cache : w.clears}}

Scan(readable) ==
  /\ watch_root' = IF readable THEN {snap.root} ELSE watch_root
  /\ verdicts' = IF readable THEN ScannedVerdicts(pool) ELSE verdicts
  /\ ignored' = IF readable THEN KnownIgnored ELSE ignored

Observation(readable) ==
  IF ~readable THEN "Unknown"
  ELSE IF ClearingProofs(pool) # {} THEN "Clearing" ELSE "Clear"
-----------------------------------------------------------------------------
Init ==
  /\ root = 0 /\ block = 0 /\ root_block = 0 /\ pool = {}
  /\ pc = "poll"
  /\ snap = ChainView
  /\ round = "none"
  /\ machine = "StartMining"
  /\ current_head = {}
  /\ generation = 0
  /\ miner_registered \in BOOLEAN /\ descriptor_filed = TRUE
  /\ last_declared = {} /\ declared_generation = {} /\ candidate = 0
  /\ mined = FALSE
  /\ stopping = FALSE
  /\ watch_root = {} /\ verdicts = {} /\ ignored = {} /\ stopped_at = {} /\ clear_polls = 0
  /\ built = {} /\ answered = {} /\ held = {}

(***************************************************************************)
(* The chain and the miners                                                *)
(***************************************************************************)

\* A proof enters the pool, is resubmitted, or leaves it without a qblock.
PoolChanges ==
  /\ \/ \E e \in Extrinsics : pool' = pool \union {[extrinsic |-> e, root |-> root]}
     \/ \E p \in pool : pool' = pool \ {p}
  /\ UNCHANGED <<root, block, root_block, pc, snap, round, current_head, generation, stopping,
                 built, held, walkVars, partVars, watchVars, mined>>

\* A block without a qblock.
EmptyBlock ==
  /\ block < MaxBlock
  /\ block' = block + 1
  /\ UNCHANGED <<root, root_block, pool, pc, snap, round, current_head, generation, stopping,
                 built, held, walkVars, partVars, watchVars, mined>>

\* A block that includes a clearing proof, of this or another node: a new root.
QBlock ==
  /\ block < MaxBlock /\ root < MaxRoot
  /\ block' = block + 1
  /\ root' = root + 1
  /\ root_block' = block'
  /\ \E left \in SUBSET pool : pool' = left
  /\ UNCHANGED <<pc, snap, round, current_head, generation, stopping, built, held, walkVars,
                 partVars, watchVars, mined>>

\* A miner answers a job of this generation (note_result).
MinerResult ==
  /\ generation \in Answering
  /\ \E b \in built : b[1] = generation
  /\ mined' = TRUE
  /\ UNCHANGED <<chainVars, pc, snap, round, current_head, generation, stopping, built, held,
                 walkVars, partVars, watchVars>>

Shutdown ==
  /\ ~stopping
  /\ stopping' = TRUE
  /\ UNCHANGED <<chainVars, pc, snap, round, current_head, generation, built, held, walkVars,
                 partVars, watchVars, mined>>

(***************************************************************************)
(* The feeder                                                              *)
(***************************************************************************)

SleepThrough ==
  /\ pc = "sleep"
  /\ pc' = "poll"
  /\ UNCHANGED <<chainVars, snap, round, current_head, generation, stopping, built, held,
                 walkVars, partVars, watchVars, mined>>

\* The loop sleeps between two polls; a shutdown seen there ends it instead.
Sleep ==
  /\ pc = "sleep" /\ ~stopping
  /\ pc' = "poll"
  /\ UNCHANGED <<chainVars, snap, round, current_head, generation, stopping, built, held,
                 walkVars, partVars, watchVars, mined>>

\* A poll starts with a snapshot. Without one the loop sleeps again.
FetchSnapshot(ok) ==
  /\ pc = "poll"
  /\ pc' = IF ok THEN "decide" ELSE "sleep"
  /\ snap' = IF ok THEN ChainView ELSE snap
  /\ UNCHANGED <<chainVars, round, current_head, generation, stopping, built, held, walkVars,
                 partVars, watchVars, mined>>

\* A new generation: the walk starts by stopping the miners.
BeginWalk(event) ==
  /\ generation < MaxGeneration
  /\ generation' = generation + 1
  /\ mined' = FALSE
  /\ machine' = IF round = "none" THEN "StopMining" ELSE transition(round, event)
  /\ pc' = "walk"

\* The snapshot shows another root: start over.
NewHead ==
  /\ pc = "decide"
  /\ current_head # {snap.root}
  /\ BeginWalk("NewHead")
  /\ UNCHANGED <<chainVars, snap, round, current_head, stopping, built, held, miner_registered,
                 descriptor_filed, partVars, watchVars>>

\* Whether the round's participation still has to be declared.
Owed == declared_generation # {generation} /\ mined

\* A poll while mining. A pending proof that clears stops the miners; what is
\* owed is decided before the generation moves.
MiningPoll(readable) ==
  /\ pc = "decide"
  /\ current_head = {snap.root}
  /\ round = "StartMining"
  /\ Scan(readable)
  /\ IF readable /\ ClearingProofs(pool) # {}
     THEN /\ generation < MaxGeneration
          /\ generation' = generation + 1
          /\ mined' = FALSE
          /\ round' = transition(round, "WinPending")
          /\ stopped_at' = {snap.block}
          /\ clear_polls' = StoppedPolls
          /\ pc' = IF Owed THEN "declare" ELSE "sleep"
          /\ \E p \in ClearingProofs(pool) :
               /\ \A q \in ClearingProofs(pool) : p.extrinsic.nonce <= q.extrinsic.nonce
               /\ held' = held \union {<<snap.root, p.extrinsic.nonce>>}
     ELSE /\ pc' = IF Owed THEN "declare" ELSE "stage"
          /\ UNCHANGED <<generation, mined, round, stopped_at, clear_polls, held>>
  /\ UNCHANGED <<chainVars, snap, current_head, stopping, built, walkVars, partVars>>

\* A poll while waiting for the block of a pending win: resume on the same
\* root once the proof is gone or too many blocks passed.
AwaitingPoll(readable) ==
  /\ pc = "decide"
  /\ current_head = {snap.root}
  /\ round = "AwaitingQBlock"
  /\ clear_polls' = ClearPolls(Observation(readable))
  /\ IF Resumes(Observation(readable))
     THEN /\ watch_root' = IF readable THEN {snap.root} ELSE watch_root
          /\ LET cache == IF readable THEN ScannedVerdicts(pool) ELSE verdicts
             IN  /\ verdicts' = {v \in cache : ~v.clears}
                 /\ ignored' = Expired(cache) \union IF readable THEN KnownIgnored ELSE ignored
          /\ BeginWalk("Resume")
     ELSE /\ Scan(readable)
          /\ pc' = "sleep"
          /\ UNCHANGED <<generation, mined, machine>>
  /\ UNCHANGED <<chainVars, snap, round, current_head, stopping, built, held, miner_registered,
                 descriptor_filed, partVars, stopped_at>>

\* States whose work await_round_step races against shutdown.
Interruptible == {"ValidatorSynced", "AccountFunded", "MinerRegistered", "RequirementsDownloaded"}

StepNeverFailsRegistration(ok) ==
  /\ ~ok
  /\ machine \in {"AccountFunded", "RequirementsDownloaded"}

\* Whether a step that was not `ok` holds the walk: an unknown sync state and
\* a descriptor that cannot be filed do not, and a latch skips the chain call.
StepFails(ok) ==
  /\ ~ok
  /\ \/ machine \in {"AccountFunded", "RequirementsDownloaded"}
     \/ machine = "MinerRegistered" /\ ~miner_registered

\* One state of drive_to_mining.
WalkStep(ok) ==
  /\ pc = "walk" /\ machine # "StartMining"
  /\ stopping => machine \notin Interruptible
  /\ machine' = transition(machine, IF StepFails(ok) THEN "Failed" ELSE "Succeeded")
  /\ miner_registered' = (miner_registered \/ (machine = "MinerRegistered" /\ ok))
  /\ descriptor_filed' = (descriptor_filed \/ machine = "DescriptorFiled")
  /\ snap' = IF machine = "RequirementsDownloaded" /\ ok THEN ChainView ELSE snap
  /\ UNCHANGED <<chainVars, pc, round, current_head, generation, stopping, built, held,
                 partVars, watchVars, mined>>

WalkedRootLive == {root}

\* The root the round is mined on: the one of the snapshot the walk fetched.
WalkedRoot == {snap.root}

\* The walk reached StartMining: reseed from the snapshot it downloaded. The
\* miners are told before any job of the generation is staged.
ReachStartMining ==
  /\ pc = "walk" /\ machine = "StartMining"
  /\ round' = "StartMining"
  /\ current_head' = WalkedRoot
  /\ pc' = "stage"
  /\ UNCHANGED <<chainVars, snap, generation, stopping, built, held, walkVars, partVars,
                 watchVars, mined>>

\* declare_round_participation, first call: read the latest qblock id.
ReadCandidate(ok) ==
  /\ pc = "declare"
  /\ LET q    == candidate_qblock_id(root)
         next == IF round = "StartMining" THEN "stage" ELSE "sleep"
     IN  \/ /\ ~ok
            /\ pc' = next
            /\ UNCHANGED <<candidate, declared_generation>>
         \/ /\ ok /\ last_declared = {q}
            /\ pc' = next
            /\ declared_generation' = IF round = "StartMining" THEN {generation}
                                                               ELSE declared_generation
            /\ UNCHANGED candidate
         \/ /\ ok /\ last_declared # {q}
            /\ pc' = "submit"
            /\ candidate' = q
            /\ UNCHANGED declared_generation
  /\ UNCHANGED <<chainVars, snap, round, current_head, generation, stopping, built, held,
                 walkVars, last_declared, answered, watchVars, mined>>

RememberedNothing(q) == last_declared

\* What the feeder remembers after a final answer for q.
Remembered(q) == {q}

\* Second call: any answer of the pallet settles the candidate; a chain error
\* leaves it to the next poll.
SubmitParticipation(ok) ==
  /\ pc = "submit"
  /\ answered' = IF ok THEN answered \union {candidate} ELSE answered
  /\ last_declared' = IF ok THEN Remembered(candidate) ELSE last_declared
  /\ declared_generation' = IF ok /\ round = "StartMining" THEN {generation}
                                                            ELSE declared_generation
  /\ pc' = IF round = "StartMining" THEN "stage" ELSE "sleep"
  /\ UNCHANGED <<chainVars, snap, round, current_head, generation, stopping, built, held,
                 walkVars, candidate, watchVars, mined>>

\* The rest of the poll: work of this generation is built on the snapshot.
StageWork ==
  /\ pc = "stage"
  /\ built' = built \union {<<generation, snap.root>>}
  /\ pc' = "sleep"
  /\ UNCHANGED <<chainVars, snap, round, current_head, generation, stopping, held, walkVars,
                 partVars, watchVars, mined>>

\* Shutdown ends the feeder at its sleep or inside an interruptible step.
FeederStops ==
  /\ stopping
  /\ pc = "sleep" \/ (pc = "walk" /\ machine \in Interruptible)
  /\ pc' = "done"
  /\ UNCHANGED <<chainVars, snap, round, current_head, generation, stopping, built, held,
                 walkVars, partVars, watchVars, mined>>

FeederStep ==
  \/ Sleep
  \/ NewHead
  \/ \E readable \in BOOLEAN : MiningPoll(readable) \/ AwaitingPoll(readable)
  \/ \E ok \in BOOLEAN : FetchSnapshot(ok) \/ WalkStep(ok) \/ ReadCandidate(ok) \/ SubmitParticipation(ok)
  \/ ReachStartMining
  \/ StageWork
  \/ FeederStops

Next ==
  \/ PoolChanges \/ EmptyBlock \/ QBlock
  \/ MinerResult
  \/ Shutdown
  \/ FeederStep

Spec == Init /\ [][Next]_vars

(***************************************************************************)
(* The feeder's task keeps running, its chain calls return, a snapshot or  *)
(* a step of the walk that is retried succeeds in the end, and the chain   *)
(* makes blocks.                                                           *)
(***************************************************************************)
Fairness ==
  /\ WF_vars(FeederStep)
  /\ SF_vars(FetchSnapshot(TRUE))
  /\ SF_vars(WalkStep(TRUE))
  /\ WF_vars(EmptyBlock)

FairSpec == Spec /\ Fairness
-----------------------------------------------------------------------------
(***************************************************************************)
(* Properties                                                              *)
(***************************************************************************)

\* The state has its shape, and the wait's poll counter, which survives
\* a resume until the next stop, never passes its limit.
TypeOK ==
  /\ root \in 0 .. MaxRoot /\ block \in 0 .. MaxBlock /\ root_block \in 0 .. block
  /\ pool \subseteq Pending
  /\ pc \in {"poll", "sleep", "decide", "walk", "declare", "submit", "stage", "done"}
  /\ snap \in Snapshot
  /\ round \in {"none", "StartMining", "AwaitingQBlock"}
  /\ machine \in RoundStates
  /\ current_head \subseteq 0 .. MaxRoot /\ Cardinality(current_head) <= 1
  /\ generation \in 0 .. MaxGeneration
  /\ {miner_registered, descriptor_filed, mined, stopping} \subseteq BOOLEAN
  /\ last_declared \subseteq Nat /\ declared_generation \subseteq Nat
  /\ verdicts \subseteq [pending : Pending, clears : BOOLEAN]
  /\ ignored \subseteq Nonces
  /\ stopped_at \subseteq Nat
  /\ clear_polls \in 0 .. AwaitClearPolls

\* The state keeps its shape, and all work of one generation is built on one
\* root, although the poll's snapshot, the walk's snapshot and the head may be
\* three different ones.
OneRootPerGeneration ==
  /\ TypeOK
  /\ \A a, b \in built : a[1] = b[1] => a[2] = b[2]

\* Work is built only for an account known to be registered: the walk holds
\* at MinerRegistered until the latch is set, however often it is restarted.
OnlyRegisteredMine == pc = "stage" => miner_registered

\* The cache never changes a scan's answer: every pending proof of this root
\* that clears and is not ignored is reported, whichever poll first saw it.
NoClearingProofMissed ==
  pc = "decide" /\ current_head = {snap.root} =>
    ClearingProofs(pool) =
      {p \in pool : Judge(p, snap) = "Clears" /\ p.extrinsic.nonce \notin KnownIgnored}

\* A proof stops the miners at most once per root: when no qblock followed,
\* a resubmission under another hash cannot stop them again.
StopsOncePerRoot ==
  [][round = "StartMining" /\ round' = "AwaitingQBlock" => held' # held]_vars

\* The chain is never asked twice for a candidate it gave a final answer for,
\* across reseeds of the same root and the declaration of a stopped round.
AnsweredOnce == pc = "submit" => candidate \notin answered

\* The wait ends: a new root, or a resume at the latest two blocks after the stop.
AwaitEnds ==
  (round = "AwaitingQBlock" /\ ~stopping /\ generation < MaxGeneration
     /\ \A b \in stopped_at : b + AwaitMaxBlocks <= MaxBlock)
    ~> (round # "AwaitingQBlock" \/ pc \in {"walk", "done"} \/ generation = MaxGeneration)

\* Shutdown ends the feeder wherever it is.
ShutdownHonoured ==
  stopping ~> (pc = "done" \/ generation = MaxGeneration)
=============================================================================
