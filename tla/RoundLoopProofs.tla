--------------------------- MODULE RoundLoopProofs ---------------------------
(***************************************************************************)
(* The feeder's rounds (RoundLoop) for any proofs and gates, any number of *)
(* roots, blocks and generations, and any poll and block limits.           *)
(***************************************************************************)
EXTENDS RoundLoop, FiniteSetTheorems, TLAPS

\* A snapshot is one the chain showed, now or before.
Heads ==
  /\ snap.root \in 0 .. MaxRoot /\ snap.root <= root
  /\ snap.root = root => snap.since <= block - root_block
  /\ current_head = {} \/ \E r \in 0 .. MaxRoot : current_head = {r}
  /\ watch_root = {} \/ \E r \in 0 .. snap.root : watch_root = {r}

\* Where the feeder is: past the walk the account is registered, what follows a
\* poll runs on the root of that poll, and a wait has polls left.
Walked ==
  /\ pc \in {"declare", "submit", "stage"} => current_head = {snap.root} /\ round # "none"
  /\ pc = "stage" => round = "StartMining"
  /\ round # "none" => miner_registered
  /\ pc = "walk" /\ machine \in {"RequirementsDownloaded", "DescriptorFiled", "StartMining"} =>
       miner_registered
  /\ round = "AwaitingQBlock" /\ pc \notin {"walk", "done"} => clear_polls < AwaitClearPolls

\* Work of the current generation is on the round's root, and there is none
\* before the walk has ended.
Built ==
  /\ built \subseteq Nat \X Nat
  /\ \A a \in built : a[1] <= generation
  /\ \A a \in built : a[1] = generation => pc # "walk" /\ current_head = {a[2]}
  /\ \A a, b \in built : a[1] = b[1] => a[2] = b[2]

\* The candidate remembered is the latest of those the chain answered.
Answers ==
  /\ candidate \in Nat /\ answered \subseteq Nat
  /\ last_declared = {} \/ \E q \in 0 .. root + 1 : last_declared = {q}
  /\ \A x \in answered : \E q \in last_declared : x <= q
  /\ pc = "submit" => candidate <= root + 1 /\ \A q \in last_declared : q < candidate

\* What the cache keeps is still true for every later snapshot of its root: a
\* proof of another root stays one, and the gates only ease.
Lasting(v, r) ==
  /\ v.clears => /\ v.pending.root = r
                 /\ root = r => EasesAt[v.pending.extrinsic.nonce] <= block - root_block
                 /\ snap.root = r => EasesAt[v.pending.extrinsic.nonce] <= snap.since
  /\ ~v.clears => v.pending.root # r

CacheTrue == \A r \in watch_root : \A v \in verdicts : Lasting(v, r)

\* A proof that stopped the miners on the root at hand is ignored, or they are
\* still stopped for it.
StillStopped(n) ==
  /\ round = "AwaitingQBlock" /\ pc # "walk" /\ current_head = {snap.root}
  /\ \E v \in verdicts : v.clears /\ v.pending.extrinsic.nonce = n

Held ==
  \A h \in held :
    /\ h[1] \in Nat /\ h[1] <= snap.root
    /\ h[1] = snap.root => watch_root = {snap.root} /\ (h[2] \in ignored \/ StillStopped(h[2]))

IInv ==
  /\ TypeOK
  /\ Heads
  /\ Walked
  /\ Built
  /\ Answers
  /\ CacheTrue
  /\ Held
-----------------------------------------------------------------------------
(***************************************************************************)
(* Facts about the operators                                               *)
(***************************************************************************)

\* The constants, one by one.
LEMMA Bounds ==
  /\ AwaitClearPolls \in Nat /\ AwaitClearPolls >= 1 /\ AwaitMaxBlocks \in Nat
  /\ MaxRoot \in Nat /\ MaxBlock \in Nat /\ MaxGeneration \in Nat
BY RoundLoopConstants

\* RoundState::transition stays among its states and skips no step of the walk.
LEMMA TransitionType ==
  /\ \A s \in {"StartMining", "AwaitingQBlock"} : transition(s, "NewHead") = "StopMining"
  /\ transition("AwaitingQBlock", "Resume") = "StopMining"
  /\ transition("StartMining", "WinPending") = "AwaitingQBlock"
  /\ \A s \in RoundStates : /\ transition(s, "Failed") = s
                            /\ transition(s, "Succeeded") \in RoundStates
  /\ \A s \in RoundStates \ {"MinerRegistered", "RequirementsDownloaded", "DescriptorFiled",
                             "StartMining", "AwaitingQBlock"} :
       transition(s, "Succeeded") \notin {"RequirementsDownloaded", "DescriptorFiled", "StartMining"}
<1>1. /\ \A s : transition(s, "NewHead") = "StopMining"
      /\ \A s : transition(s, "Failed") = s
      /\ transition("AwaitingQBlock", "Resume") = "StopMining"
      /\ transition("StartMining", "WinPending") = "AwaitingQBlock"
  BY DEF transition
<1>2. /\ transition("StopMining", "Succeeded") = "ValidatorSynced"
      /\ transition("ValidatorSynced", "Succeeded") = "AccountFunded"
      /\ transition("AccountFunded", "Succeeded") = "MinerRegistered"
      /\ transition("MinerRegistered", "Succeeded") = "RequirementsDownloaded"
      /\ transition("RequirementsDownloaded", "Succeeded") = "DescriptorFiled"
      /\ transition("DescriptorFiled", "Succeeded") = "StartMining"
      /\ transition("StartMining", "Succeeded") = "StartMining"
      /\ transition("AwaitingQBlock", "Succeeded") = "AwaitingQBlock"
  BY DEF transition
<1> QED
  BY <1>1, <1>2 DEF RoundStates

\* The snapshot the chain gives is well formed and of its own root.
LEMMA ViewShape ==
  ASSUME TypeOK
  PROVE  /\ ChainView \in Snapshot
         /\ ChainView.root = root /\ ChainView.block = block
         /\ ChainView.since = block - root_block
<1>1. root \in Nat /\ block \in Nat /\ block - root_block \in Nat
  BY Bounds DEF TypeOK
<1> QED
  BY <1>1 DEF ChainView, Snapshot

\* The cache after a scan holds verdicts on pending proofs.
LEMMA ScanShape ==
  ASSUME TypeOK
  PROVE  /\ ScannedVerdicts(pool) \subseteq [pending : Pending, clears : BOOLEAN]
         /\ KnownVerdicts \subseteq verdicts /\ KnownIgnored \subseteq ignored
         /\ ignored \subseteq Nonces
         /\ Expired(ScannedVerdicts(pool)) \subseteq Nonces /\ Expired(verdicts) \subseteq Nonces
<1>1. KnownVerdicts \subseteq verdicts /\ KnownIgnored \subseteq ignored /\ ignored \subseteq Nonces
  BY DEF KnownVerdicts, KnownIgnored, TypeOK
<1>2. /\ verdicts \subseteq [pending : Pending, clears : BOOLEAN]
      /\ pool \subseteq Pending
  BY DEF TypeOK
<1>3. ScannedVerdicts(pool) \subseteq [pending : Pending, clears : BOOLEAN]
  <2>1. \A p \in Pending : \A b \in BOOLEAN :
          [pending |-> p, clears |-> b] \in [pending : Pending, clears : BOOLEAN]
    OBVIOUS
  <2>2. \A p \in pool : [pending |-> p, clears |-> (Judge(p, snap) = "Clears")] \in
                          [pending : Pending, clears : BOOLEAN]
    BY <1>2, <2>1, Zenon
  <2>3. \A v \in ScannedVerdicts(pool) :
          \/ v \in KnownVerdicts
          \/ \E p \in pool : v = [pending |-> p, clears |-> (Judge(p, snap) = "Clears")]
    BY DEF ScannedVerdicts
  <2> QED
    BY <1>1, <1>2, <2>2, <2>3, Zenon
<1>4. \A V : V \subseteq [pending : Pending, clears : BOOLEAN] => Expired(V) \subseteq Nonces
  BY DEF Expired, Pending, Nonces
<1> QED
  BY <1>1, <1>2, <1>3, <1>4

-----------------------------------------------------------------------------
(***************************************************************************)
(* The state keeps its shape, and its heads their order                    *)
(***************************************************************************)

Typed == TypeOK /\ Heads

\* A root and a cached root are at most one.
LEMMA AtMostOneHead ==
  ASSUME NEW S, S = {} \/ \E r : S = {r}
  PROVE  Cardinality(S) <= 1
<1>1. Cardinality(S) = 0 \/ Cardinality(S) = 1
  BY FS_EmptySet, FS_Singleton
<1> QED
  BY <1>1

\* The chain moves on: blocks and roots only grow.
LEMMA TypedChain ==
  ASSUME Typed, PoolChanges \/ EmptyBlock \/ QBlock \/ MinerResult \/ Shutdown
  PROVE  Typed'
<1>1. /\ root \in 0 .. MaxRoot /\ block \in 0 .. MaxBlock /\ root_block \in 0 .. block
      /\ snap.root \in 0 .. MaxRoot /\ snap.root <= root
      /\ snap.root = root => snap.since <= block - root_block
      /\ snap.since \in Nat
  BY DEF Typed, TypeOK, Heads, Snapshot
<1>2. CASE PoolChanges
  <2>1. pool' \subseteq Pending
    BY <1>1, <1>2, Bounds DEF PoolChanges, Typed, TypeOK, Pending
  <2> QED
    BY <1>2, <2>1 DEF PoolChanges, Typed, TypeOK, Heads, walkVars, partVars, watchVars
<1>3. CASE EmptyBlock
  <2>1. /\ block' \in 0 .. MaxBlock /\ root_block' \in 0 .. block'
        /\ snap.root = root => snap.since <= block' - root_block
    BY <1>1, <1>3, Bounds DEF EmptyBlock
  <2> QED
    BY <1>3, <2>1 DEF EmptyBlock, Typed, TypeOK, Heads, walkVars, partVars, watchVars
<1>4. CASE QBlock
  <2>1. /\ block' \in 0 .. MaxBlock /\ root_block' \in 0 .. block' /\ root' \in 0 .. MaxRoot
        /\ snap.root <= root' /\ snap.root # root'
    BY <1>1, <1>4, Bounds DEF QBlock
  <2>2. pool' \subseteq Pending
    BY <1>4 DEF QBlock, Typed, TypeOK
  <2> QED
    BY <1>4, <2>1, <2>2 DEF QBlock, Typed, TypeOK, Heads, walkVars, partVars, watchVars
<1>5. CASE MinerResult \/ Shutdown
  <2>1. CASE MinerResult
    BY <2>1 DEF MinerResult, Typed, TypeOK, Heads, chainVars, walkVars, partVars, watchVars
  <2>2. CASE Shutdown
    BY <2>2 DEF Shutdown, Typed, TypeOK, Heads, chainVars, walkVars, partVars, watchVars
  <2> QED
    BY <1>5, <2>1, <2>2
<1> QED
  BY <1>2, <1>3, <1>4, <1>5

\* The feeder's polls.
LEMMA TypedPoll ==
  ASSUME Typed, Walked,
         \/ Sleep \/ NewHead \/ FeederStops
         \/ \E readable \in BOOLEAN : MiningPoll(readable) \/ AwaitingPoll(readable)
         \/ \E ok \in BOOLEAN : FetchSnapshot(ok)
  PROVE  Typed'
<1>1. CASE Sleep \/ FeederStops
  BY <1>1 DEF Sleep, FeederStops, Typed, TypeOK, Heads, chainVars, walkVars, partVars, watchVars
<1>2. CASE NewHead
  <2>1. generation' \in 0 .. MaxGeneration
    BY <1>2, Bounds DEF NewHead, BeginWalk, Typed, TypeOK
  <2>2. machine' \in RoundStates
    BY <1>2, TransitionType DEF NewHead, BeginWalk, Typed, TypeOK, RoundStates
  <2> QED
    BY <1>2, <2>1, <2>2 DEF NewHead, BeginWalk, Typed, TypeOK, Heads, chainVars, partVars, watchVars
<1>3. ASSUME NEW readable \in BOOLEAN, MiningPoll(readable)
      PROVE  Typed'
  <2>1. /\ verdicts' \subseteq [pending : Pending, clears : BOOLEAN]
        /\ ignored' \subseteq Nonces
    BY <1>3, ScanShape DEF MiningPoll, Scan, Typed, TypeOK
  <2>2. watch_root' = watch_root \/ watch_root' = {snap.root}
    BY <1>3 DEF MiningPoll, Scan
  <2>3. /\ generation' \in 0 .. MaxGeneration /\ clear_polls' \in 0 .. AwaitClearPolls
        /\ stopped_at' \subseteq Nat
    <3>1. \/ /\ generation < MaxGeneration /\ generation' = generation + 1
             /\ clear_polls' = 0 /\ stopped_at' = {snap.block}
          \/ UNCHANGED <<generation, clear_polls, stopped_at>>
      BY <1>3 DEF MiningPoll, StoppedPolls
    <3>2. /\ generation \in 0 .. MaxGeneration /\ clear_polls \in 0 .. AwaitClearPolls
          /\ stopped_at \subseteq Nat /\ snap.block \in Nat
      BY DEF Typed, TypeOK, Snapshot
    <3>3. generation' \in 0 .. MaxGeneration
      BY <3>1, <3>2, Bounds
    <3>4. clear_polls' \in 0 .. AwaitClearPolls
      BY <3>1, <3>2, Bounds
    <3>5. stopped_at' \subseteq Nat
      BY <3>1, <3>2
    <3> QED
      BY <3>3, <3>4, <3>5
  <2>4. mined' \in BOOLEAN /\ round' \in {"StartMining", "AwaitingQBlock"}
    BY <1>3, TransitionType DEF MiningPoll, Typed, TypeOK
  <2>5. pc' \in {"declare", "sleep", "stage"}
    BY <1>3 DEF MiningPoll
  <2>6. snap.root \in 0 .. snap.root
    BY Bounds DEF Typed, Heads
  <2>7. TypeOK'
    BY <1>3, <2>1, <2>3, <2>4, <2>5 DEF MiningPoll, Typed, TypeOK, chainVars, walkVars, partVars
  <2>8. Heads'
    BY <1>3, <2>2, <2>6 DEF MiningPoll, Typed, Heads, chainVars
  <2> QED
    BY <2>7, <2>8 DEF Typed
<1>4. ASSUME NEW readable \in BOOLEAN, AwaitingPoll(readable)
      PROVE  Typed'
  <2>1. clear_polls' \in 0 .. AwaitClearPolls
    <3>1. clear_polls \in 0 .. AwaitClearPolls /\ clear_polls < AwaitClearPolls
      BY <1>4 DEF AwaitingPoll, Typed, TypeOK, Walked
    <3>2. Observation(readable) \in {"Unknown", "Clearing", "Clear"}
      BY DEF Observation
    <3>3. clear_polls' \in {0, clear_polls, clear_polls + 1}
      BY <1>4, <3>2 DEF AwaitingPoll, ClearPolls
    <3> QED
      BY <3>1, <3>3, Bounds
  <2>2. /\ verdicts' \subseteq [pending : Pending, clears : BOOLEAN]
        /\ ignored' \subseteq Nonces
    BY <1>4, ScanShape DEF AwaitingPoll, Scan, Typed, TypeOK
  <2>3. watch_root' = watch_root \/ watch_root' = {snap.root}
    BY <1>4 DEF AwaitingPoll, Scan
  <2>4. generation' \in 0 .. MaxGeneration
    BY <1>4, Bounds DEF AwaitingPoll, BeginWalk, Typed, TypeOK
  <2>5. machine' \in RoundStates
    BY <1>4, TransitionType DEF AwaitingPoll, BeginWalk, Typed, TypeOK, RoundStates
  <2>6. mined' \in BOOLEAN /\ pc' \in {"walk", "sleep"}
    BY <1>4 DEF AwaitingPoll, BeginWalk, Typed, TypeOK
  <2>7. snap.root \in 0 .. snap.root
    BY Bounds DEF Typed, Heads
  <2>8. TypeOK'
    BY <1>4, <2>1, <2>2, <2>4, <2>5, <2>6 DEF AwaitingPoll, Typed, TypeOK, chainVars, partVars
  <2>9. Heads'
    BY <1>4, <2>3, <2>7 DEF AwaitingPoll, Typed, Heads, chainVars
  <2> QED
    BY <2>8, <2>9 DEF Typed
<1>5. ASSUME NEW ok \in BOOLEAN, FetchSnapshot(ok)
      PROVE  Typed'
  <2>1. snap' = snap \/ snap' = ChainView
    BY <1>5 DEF FetchSnapshot
  <2>2. snap' \in Snapshot /\ snap'.root \in 0 .. MaxRoot /\ snap'.root <= root
        /\ (snap'.root = root => snap'.since <= block - root_block) /\ snap.root <= snap'.root
    <3>1. root \in 0 .. MaxRoot /\ block - root_block \in Int
      BY Bounds DEF Typed, TypeOK
    <3>2. CASE snap' = snap
      BY <3>1, <3>2, Bounds DEF Typed, TypeOK, Heads
    <3>3. CASE snap' = ChainView
      BY <3>1, <3>3, ViewShape, Bounds DEF Typed, Heads
    <3> QED
      BY <2>1, <3>2, <3>3
  <2>3. \A r \in 0 .. snap.root : r \in 0 .. snap'.root
    BY <2>2, Bounds DEF Typed, Heads
  <2> QED
    BY <1>5, <2>2, <2>3 DEF FetchSnapshot, Typed, TypeOK, Heads, chainVars, walkVars, partVars,
                            watchVars
<1> QED
  BY <1>1, <1>2, <1>3, <1>4, <1>5

\* The walk and what follows a poll.
LEMMA TypedWalk ==
  ASSUME Typed, Walked,
         \/ ReachStartMining \/ StageWork \/ UNCHANGED vars
         \/ \E ok \in BOOLEAN : WalkStep(ok) \/ ReadCandidate(ok) \/ SubmitParticipation(ok),
         candidate \in Nat
  PROVE  Typed'
<1>1. CASE ReachStartMining
  <2>1. current_head' = {snap.root} /\ current_head' \subseteq 0 .. MaxRoot
    BY <1>1 DEF ReachStartMining, WalkedRoot, Typed, Heads
  <2>2. Cardinality(current_head') <= 1
    BY <2>1, AtMostOneHead
  <2>3. TypeOK'
    BY <1>1, <2>1, <2>2 DEF ReachStartMining, Typed, TypeOK, chainVars, walkVars, partVars, watchVars
  <2>4. Heads'
    BY <1>1, <2>1 DEF ReachStartMining, Typed, Heads, chainVars, watchVars
  <2> QED
    BY <2>3, <2>4 DEF Typed
<1>2. CASE StageWork \/ UNCHANGED vars
  BY <1>2 DEF StageWork, vars, Typed, TypeOK, Heads, chainVars, walkVars, partVars, watchVars
<1>3. ASSUME NEW ok \in BOOLEAN, WalkStep(ok)
      PROVE  Typed'
  <2>1. snap' = snap \/ snap' = ChainView
    BY <1>3 DEF WalkStep
  <2>2. /\ snap' \in Snapshot /\ snap'.root \in 0 .. MaxRoot /\ snap'.root <= root
        /\ snap'.root = root => snap'.since <= block - root_block
        /\ snap.root <= snap'.root
    <3>1. root \in 0 .. MaxRoot /\ block - root_block \in Int
      BY Bounds DEF Typed, TypeOK
    <3>2. CASE snap' = snap
      BY <3>1, <3>2, Bounds DEF Typed, TypeOK, Heads
    <3>3. CASE snap' = ChainView
      BY <3>1, <3>3, ViewShape, Bounds DEF Typed, Heads
    <3> QED
      BY <2>1, <3>2, <3>3
  <2>3. \A r \in 0 .. snap.root : r \in 0 .. snap'.root
    BY <2>2, Bounds DEF Typed, Heads
  <2>4. machine' \in RoundStates
    BY <1>3, TransitionType DEF WalkStep, Typed, TypeOK
  <2>5. miner_registered' \in BOOLEAN /\ descriptor_filed' \in BOOLEAN
    BY <1>3 DEF WalkStep
  <2>6. TypeOK'
    BY <1>3, <2>2, <2>4, <2>5 DEF WalkStep, Typed, TypeOK, chainVars, partVars, watchVars
  <2>7. Heads'
    BY <1>3, <2>2, <2>3 DEF WalkStep, Typed, Heads, chainVars, watchVars
  <2> QED
    BY <2>6, <2>7 DEF Typed
<1>4. ASSUME NEW ok \in BOOLEAN, ReadCandidate(ok) \/ SubmitParticipation(ok)
      PROVE  Typed'
  <2>1. pc' \in {"stage", "sleep", "submit"}
    BY <1>4 DEF ReadCandidate, SubmitParticipation
  <2>2. generation \in Nat
    BY Bounds DEF Typed, TypeOK
  <2>3. declared_generation' \subseteq Nat /\ last_declared' \subseteq Nat
    BY <1>4, <2>2 DEF ReadCandidate, SubmitParticipation, Remembered, Typed, TypeOK
  <2>4. UNCHANGED <<chainVars, snap, round, current_head, generation, stopping, walkVars,
                    watchVars, mined>>
    BY <1>4 DEF ReadCandidate, SubmitParticipation
  <2>5. TypeOK'
    BY <2>1, <2>3, <2>4 DEF Typed, TypeOK, chainVars, walkVars, watchVars
  <2>6. Heads'
    BY <2>4 DEF Typed, Heads, chainVars, watchVars
  <2> QED
    BY <2>5, <2>6 DEF Typed
<1> QED
  BY <1>1, <1>2, <1>3, <1>4

-----------------------------------------------------------------------------
(***************************************************************************)
(* The walk, the work and the answers                                      *)
(***************************************************************************)

\* Only a registered account leaves the walk, and a poll's follow-up runs on the
\* poll's root.
LEMMA WalkedNext ==
  ASSUME Typed, Walked, [Next]_vars
  PROVE  Walked'
<1>1. CASE PoolChanges \/ EmptyBlock \/ QBlock \/ MinerResult \/ Shutdown \/ UNCHANGED vars
  BY <1>1 DEF PoolChanges, EmptyBlock, QBlock, MinerResult, Shutdown, vars, Walked, chainVars,
              walkVars, watchVars
<1>2. CASE Sleep \/ FeederStops
  BY <1>2 DEF Sleep, FeederStops, Walked, walkVars, watchVars
<1>3. CASE NewHead
  <2>1. machine' = "StopMining"
    BY <1>3, TransitionType DEF NewHead, BeginWalk, Typed, TypeOK
  <2> QED
    BY <1>3, <2>1 DEF NewHead, BeginWalk, Walked, watchVars
<1>4. ASSUME NEW readable \in BOOLEAN, MiningPoll(readable)
      PROVE  Walked'
  <2>1. \/ /\ round' = "AwaitingQBlock" /\ clear_polls' = 0 /\ pc' \in {"declare", "sleep"}
        \/ round' = "StartMining" /\ pc' \in {"declare", "stage"}
    BY <1>4, TransitionType DEF MiningPoll, StoppedPolls
  <2>2. /\ UNCHANGED <<snap, current_head, miner_registered>>
        /\ current_head = {snap.root} /\ round = "StartMining"
    BY <1>4 DEF MiningPoll, walkVars
  <2> QED
    BY <2>1, <2>2, Bounds DEF Walked
<1>5. ASSUME NEW readable \in BOOLEAN, AwaitingPoll(readable)
      PROVE  Walked'
  <2>1. /\ round = "AwaitingQBlock" /\ UNCHANGED <<round, miner_registered>>
        /\ \/ pc' = "walk" /\ machine' = "StopMining"
           \/ pc' = "sleep" /\ ~Resumes(Observation(readable))
    BY <1>5, TransitionType DEF AwaitingPoll, BeginWalk
  <2>2. clear_polls' = ClearPolls(Observation(readable))
    BY <1>5 DEF AwaitingPoll
  <2>3. clear_polls' \in Nat
    <3>1. Observation(readable) \in {"Unknown", "Clearing", "Clear"}
      BY DEF Observation
    <3>2. clear_polls' \in {0, clear_polls, clear_polls + 1} /\ clear_polls \in Nat
      BY <2>2, <3>1, Bounds DEF ClearPolls, Typed, TypeOK
    <3> QED
      BY <3>2
  <2>4. pc' = "sleep" => clear_polls' < AwaitClearPolls
    BY <2>1, <2>2, <2>3, Bounds DEF Resumes
  <2> QED
    BY <2>1, <2>4 DEF Walked
<1>6. ASSUME NEW ok \in BOOLEAN, FetchSnapshot(ok)
      PROVE  Walked'
  BY <1>6 DEF FetchSnapshot, Walked, walkVars, watchVars
<1>7. ASSUME NEW ok \in BOOLEAN, WalkStep(ok)
      PROVE  Walked'
  <2>1. /\ pc = "walk" /\ pc' = "walk" /\ UNCHANGED <<round, clear_polls>>
        /\ miner_registered' = (miner_registered \/ (machine = "MinerRegistered" /\ ok))
        /\ machine' = transition(machine, IF StepFails(ok) THEN "Failed" ELSE "Succeeded")
    BY <1>7 DEF WalkStep, watchVars
  <2>2. machine' \in {"RequirementsDownloaded", "DescriptorFiled", "StartMining"} => miner_registered'
    <3>1. CASE StepFails(ok)
      BY <2>1, <3>1, TransitionType DEF Walked, Typed, TypeOK
    <3>2. CASE ~StepFails(ok) /\ machine = "MinerRegistered"
      BY <2>1, <3>2 DEF StepFails
    <3>3. CASE /\ ~StepFails(ok)
               /\ machine \in {"RequirementsDownloaded", "DescriptorFiled", "StartMining"}
      BY <2>1, <3>3 DEF Walked
    <3>4. CASE ~StepFails(ok) /\ machine = "AwaitingQBlock"
      BY <2>1, <3>4 DEF transition
    <3> QED
      BY <2>1, <3>1, <3>2, <3>3, <3>4, TransitionType DEF Typed, TypeOK
  <2> QED
    BY <2>1, <2>2 DEF Walked
<1>8. CASE ReachStartMining
  BY <1>8 DEF ReachStartMining, WalkedRoot, Walked, walkVars
<1>9. ASSUME NEW ok \in BOOLEAN, ReadCandidate(ok) \/ SubmitParticipation(ok)
      PROVE  Walked'
  <2>1. /\ pc \in {"declare", "submit"}
        /\ pc' \in {"sleep", "submit", "stage"} /\ (pc' = "stage" => round = "StartMining")
        /\ UNCHANGED <<snap, round, current_head, miner_registered, clear_polls>>
    BY <1>9 DEF ReadCandidate, SubmitParticipation, walkVars, watchVars
  <2> QED
    BY <2>1 DEF Walked
<1>10. CASE StageWork
  BY <1>10 DEF StageWork, Walked, walkVars, watchVars
<1> QED
  BY <1>1, <1>2, <1>3, <1>4, <1>5, <1>6, <1>7, <1>8, <1>9, <1>10 DEF Next, FeederStep

\* A generation is entered before its work exists, and the root of a round
\* changes only then.
LEMMA BuiltNext ==
  ASSUME Typed, Walked, Built, [Next]_vars
  PROVE  Built'
<1>1. generation \in Nat /\ \A a \in built : a[1] \in Nat
  BY Bounds DEF Typed, TypeOK, Built
<1>2. CASE generation' = generation + 1 /\ built' = built
  <2>1. \A a \in built' : a[1] < generation'
    BY <1>1, <1>2 DEF Built
  <2>2. generation' \in Nat
    BY <1>1, <1>2
  <2> QED
    BY <1>1, <1>2, <2>1, <2>2 DEF Built
<1>3. CASE UNCHANGED <<generation, built, current_head>> /\ (pc' = "walk" => pc = "walk")
  BY <1>3 DEF Built
<1>4. CASE ReachStartMining
  BY <1>4 DEF ReachStartMining, Built
<1>5. CASE StageWork
  <2>1. /\ built' = built \union {<<generation, snap.root>>} /\ pc' = "sleep"
        /\ current_head = {snap.root} /\ UNCHANGED <<generation, current_head>>
    BY <1>5 DEF StageWork, Walked
  <2>2. snap.root \in Nat
    BY DEF Typed, TypeOK, Snapshot
  <2>3. \A a \in built' : \/ a \in built
                          \/ a = <<generation, snap.root>> /\ a[1] = generation /\ a[2] = snap.root
    BY <2>1
  <2>4. \A a \in built' : a[1] = generation => a[2] = snap.root
    BY <2>1, <2>3 DEF Built
  <2>5. \A a \in built' : a[1] <= generation
    BY <1>1, <2>3 DEF Built
  <2>6. built' \subseteq Nat \X Nat
    BY <1>1, <2>1, <2>2 DEF Built
  <2>7. \A a, b \in built' : a[1] = b[1] => a[2] = b[2]
    BY <2>3, <2>4 DEF Built
  <2> QED
    BY <2>1, <2>4, <2>5, <2>6, <2>7 DEF Built
<1>6. \/ generation' = generation + 1 /\ built' = built
      \/ UNCHANGED <<generation, built, current_head>> /\ (pc' = "walk" => pc = "walk")
      \/ ReachStartMining \/ StageWork
  <2>1. CASE PoolChanges \/ EmptyBlock \/ QBlock \/ MinerResult \/ Shutdown \/ UNCHANGED vars
    BY <2>1 DEF PoolChanges, EmptyBlock, QBlock, MinerResult, Shutdown, vars
  <2>2. CASE Sleep \/ NewHead \/ FeederStops
    BY <2>2 DEF Sleep, NewHead, FeederStops, BeginWalk
  <2>3. CASE \E readable \in BOOLEAN : MiningPoll(readable) \/ AwaitingPoll(readable)
    BY <2>3 DEF MiningPoll, AwaitingPoll, BeginWalk
  <2>4. CASE \E ok \in BOOLEAN : FetchSnapshot(ok) \/ WalkStep(ok) \/ ReadCandidate(ok)
                                 \/ SubmitParticipation(ok)
    BY <2>4 DEF FetchSnapshot, WalkStep, ReadCandidate, SubmitParticipation
  <2> QED
    BY <2>1, <2>2, <2>3, <2>4 DEF Next, FeederStep
<1> QED
  BY <1>2, <1>3, <1>4, <1>5, <1>6

\* What was at most one past a root is at most one past a later root.
LEMMA LaterRoot ==
  ASSUME NEW a \in Nat, NEW b \in Nat, a <= b
  PROVE  /\ \A q \in 0 .. a + 1 : q \in 0 .. b + 1
         /\ \A q \in Nat : q <= a + 1 => q <= b + 1
OBVIOUS

\* The root only grows, so a candidate that differs from the one remembered is
\* past every candidate the chain has answered.
LEMMA AnswersNext ==
  ASSUME Typed, Answers, [Next]_vars
  PROVE  Answers'
<1>1. root \in Nat
  BY Bounds DEF Typed, TypeOK
<1>2. CASE /\ UNCHANGED <<candidate, answered, last_declared>> /\ root' \in {root, root + 1}
           /\ pc' = "submit" => pc = "submit"
  <2>0. root' \in Nat /\ root <= root' /\ candidate' = candidate
    BY <1>1, <1>2
  <2>1. \A q \in 0 .. root + 1 : q \in 0 .. root' + 1
    BY <1>1, <2>0, LaterRoot
  <2>2. candidate <= root + 1 => candidate' <= root' + 1
    <3>1. candidate \in Nat
      BY DEF Answers
    <3> QED
      BY <1>1, <2>0, <3>1, LaterRoot
  <2> QED
    BY <1>2, <2>1, <2>2 DEF Answers
<1>3. ASSUME NEW ok \in BOOLEAN, ReadCandidate(ok)
      PROVE  Answers'
  <2>1. CASE pc' = "submit"
    <3>1. /\ last_declared # {root + 1} /\ candidate' = root + 1
          /\ UNCHANGED <<root, answered, last_declared>>
      BY <1>3, <2>1 DEF ReadCandidate, candidate_qblock_id, chainVars
    <3>2. \A q \in last_declared : q < root + 1
      BY <1>1, <3>1 DEF Answers
    <3> QED
      BY <1>1, <3>1, <3>2 DEF Answers
  <2>2. CASE pc' # "submit"
    BY <1>3, <2>2 DEF ReadCandidate, Answers, chainVars
  <2> QED
    BY <2>1, <2>2
<1>4. ASSUME NEW ok \in BOOLEAN, SubmitParticipation(ok)
      PROVE  Answers'
  <2>1. /\ pc = "submit" /\ pc' # "submit" /\ UNCHANGED <<candidate, root>>
        /\ candidate \in Nat /\ candidate <= root + 1 /\ \A q \in last_declared : q < candidate
    BY <1>4 DEF SubmitParticipation, chainVars, Answers
  <2>2. CASE ok
    <3>1. answered' = answered \union {candidate} /\ last_declared' = {candidate}
      BY <1>4, <2>2 DEF SubmitParticipation, Remembered
    <3>2. candidate \in 0 .. root + 1
      BY <1>1, <2>1
    <3>3. \A x \in answered : x <= candidate
      <4> SUFFICES ASSUME NEW x \in answered PROVE x <= candidate
        OBVIOUS
      <4>1. PICK q \in last_declared : x <= q
        BY DEF Answers
      <4>2. x \in Nat /\ q \in Nat /\ q < candidate
        BY <1>1, <2>1 DEF Answers
      <4> QED
        BY <2>1, <4>1, <4>2
    <3> QED
      BY <2>1, <3>1, <3>2, <3>3 DEF Answers
  <2>3. CASE ~ok
    BY <1>4, <2>1, <2>3 DEF SubmitParticipation, Answers
  <2> QED
    BY <2>2, <2>3
<1>5. \/ /\ UNCHANGED <<candidate, answered, last_declared>> /\ root' \in {root, root + 1}
         /\ pc' = "submit" => pc = "submit"
      \/ \E ok \in BOOLEAN : ReadCandidate(ok) \/ SubmitParticipation(ok)
  <2>1. CASE PoolChanges \/ EmptyBlock \/ QBlock \/ MinerResult \/ Shutdown \/ UNCHANGED vars
    BY <2>1 DEF PoolChanges, EmptyBlock, QBlock, MinerResult, Shutdown, vars, chainVars, partVars
  <2>2. CASE Sleep \/ NewHead \/ FeederStops \/ ReachStartMining \/ StageWork
    BY <2>2 DEF Sleep, NewHead, FeederStops, ReachStartMining, StageWork, BeginWalk, chainVars, partVars
  <2>3. CASE \E readable \in BOOLEAN : MiningPoll(readable) \/ AwaitingPoll(readable)
    BY <2>3 DEF MiningPoll, AwaitingPoll, BeginWalk, chainVars, partVars
  <2>4. CASE \E ok \in BOOLEAN : FetchSnapshot(ok) \/ WalkStep(ok)
    BY <2>4 DEF FetchSnapshot, WalkStep, chainVars, partVars
  <2> QED
    BY <2>1, <2>2, <2>3, <2>4 DEF Next, FeederStep
<1> QED
  BY <1>2, <1>3, <1>4, <1>5

-----------------------------------------------------------------------------
(***************************************************************************)
(* The pool watch                                                          *)
(***************************************************************************)

\* A scan leaves a cache that is true of its root.
LEMMA ScanTrue ==
  ASSUME Typed, CacheTrue, NEW v \in ScannedVerdicts(pool)
  PROVE  Lasting(v, snap.root)
<1>1. CASE v \in KnownVerdicts
  <2>1. v \in verdicts /\ snap.root \in watch_root
    BY <1>1 DEF KnownVerdicts
  <2> QED
    BY <2>1 DEF CacheTrue
<1>2. ASSUME NEW p \in pool, Cacheable(Judge(p, snap)),
             v = [pending |-> p, clears |-> (Judge(p, snap) = "Clears")]
      PROVE  Lasting(v, snap.root)
  <2>1. v.pending = p /\ v.clears = (Judge(p, snap) = "Clears")
    BY <1>2
  <2>2. p.extrinsic.nonce \in Nonces /\ EasesAt[p.extrinsic.nonce] \in Nat
    BY RoundLoopConstants DEF Typed, TypeOK, Pending, Nonces
  <2>3. /\ snap.since \in Nat /\ block - root_block \in Int
        /\ snap.root = root => snap.since <= block - root_block
    BY Bounds DEF Typed, TypeOK, Heads, Snapshot
  <2>4. CASE Judge(p, snap) = "Clears"
    <3>1. p.root = snap.root /\ snap.since >= EasesAt[p.extrinsic.nonce]
      BY <2>4 DEF Judge
    <3>2. root = snap.root => EasesAt[p.extrinsic.nonce] <= block - root_block
      BY <2>2, <2>3, <3>1
    <3>3. EasesAt[p.extrinsic.nonce] <= snap.since
      BY <2>2, <2>3, <3>1
    <3> QED
      BY <2>1, <2>4, <3>1, <3>2, <3>3 DEF Lasting
  <2>5. CASE Judge(p, snap) # "Clears"
    <3>1. Judge(p, snap) = "OtherRound"
      BY <1>2, <2>5 DEF Cacheable, Judge
    <3>2. p.root # snap.root
      BY <3>1 DEF Judge
    <3> QED
      BY <2>1, <2>5, <3>2 DEF Lasting
  <2> QED
    BY <2>4, <2>5
<1> QED
  BY <1>1, <1>2 DEF ScannedVerdicts

\* The blocks since a root are no fewer a block later.
LEMMA LaterBlock ==
  ASSUME NEW e \in Nat, NEW a \in Nat, NEW b \in Nat, e <= a - b,
         NEW c, c = a \/ c = a + 1
  PROVE  e <= c - b
OBVIOUS

\* A later head or snapshot keeps every cached verdict true.
LEMMA CacheLasts ==
  ASSUME Typed, Typed', CacheTrue, UNCHANGED <<watch_root, verdicts>>,
         \/ UNCHANGED <<root, root_block>> /\ block' \in {block, block + 1}
         \/ root' = root + 1,
         snap' = snap \/ (snap' = ChainView /\ UNCHANGED <<root, root_block, block>>)
  PROVE  CacheTrue'
<1> SUFFICES ASSUME NEW r \in watch_root, NEW v \in verdicts PROVE Lasting(v, r)'
  BY DEF CacheTrue
<1>1. Lasting(v, r)
  BY DEF CacheTrue
<1> DEFINE e == EasesAt[v.pending.extrinsic.nonce]
<1>2. e \in Nat
  BY RoundLoopConstants DEF Typed, TypeOK, Pending, Nonces
<1>3. /\ r \in Nat /\ r <= snap.root /\ snap.root <= root /\ snap.root \in Nat /\ root \in Nat
      /\ block \in Nat /\ root_block \in Nat
  BY Bounds DEF Typed, TypeOK, Heads
<1>4. ASSUME v.clears, root' = r
      PROVE  e <= block' - root_block'
  <2>1. UNCHANGED <<root, root_block>> /\ block' \in {block, block + 1}
    BY <1>3, <1>4
  <2>2. e <= block - root_block
    BY <1>1, <1>4, <2>1 DEF Lasting
  <2>3. block' = block \/ block' = block + 1
    BY <2>1
  <2>4. e <= block' - root_block
    BY <1>2, <1>3, <2>2, <2>3, LaterBlock
  <2> QED
    BY <2>1, <2>4
<1>5. ASSUME v.clears, snap'.root = r
      PROVE  e <= snap'.since
  <2>1. CASE snap' = snap
    BY <1>1, <1>5, <2>1 DEF Lasting
  <2>2. CASE snap' = ChainView /\ UNCHANGED <<root, root_block, block>>
    <3>1. snap'.root = root /\ snap'.since = block - root_block
      BY <2>2, ViewShape DEF Typed
    <3>2. e <= block - root_block
      BY <1>1, <1>5, <3>1 DEF Lasting
    <3> QED
      BY <3>1, <3>2
  <2> QED
    BY <2>1, <2>2
<1> QED
  BY <1>1, <1>4, <1>5 DEF Lasting

\* The verdicts the pool watch keeps stay true, whoever moves.
LEMMA CacheNext ==
  ASSUME Typed, Typed', CacheTrue, [Next]_vars
  PROVE  CacheTrue'
<1>1. ASSUME NEW readable \in BOOLEAN, MiningPoll(readable) \/ AwaitingPoll(readable)
      PROVE  CacheTrue'
  <2>1. UNCHANGED <<root, block, root_block, snap>>
    BY <1>1 DEF MiningPoll, AwaitingPoll, chainVars
  <2>2. \/ UNCHANGED watch_root /\ verdicts' \subseteq verdicts
        \/ watch_root' = {snap.root} /\ verdicts' \subseteq ScannedVerdicts(pool)
    BY <1>1 DEF MiningPoll, AwaitingPoll, Scan
  <2>3. CASE UNCHANGED watch_root /\ verdicts' \subseteq verdicts
    BY <2>1, <2>3 DEF CacheTrue, Lasting
  <2>4. CASE watch_root' = {snap.root} /\ verdicts' \subseteq ScannedVerdicts(pool)
    <3>1. \A v \in verdicts' : Lasting(v, snap.root)
      BY <2>4, ScanTrue
    <3> QED
      BY <2>1, <2>4, <3>1 DEF CacheTrue, Lasting
  <2> QED
    BY <2>2, <2>3, <2>4
<1>2. \/ \E readable \in BOOLEAN : MiningPoll(readable) \/ AwaitingPoll(readable)
      \/ /\ UNCHANGED <<watch_root, verdicts>>
         /\ \/ UNCHANGED <<root, root_block>> /\ block' \in {block, block + 1}
            \/ root' = root + 1
         /\ snap' = snap \/ (snap' = ChainView /\ UNCHANGED <<root, root_block, block>>)
  <2>1. CASE PoolChanges \/ EmptyBlock \/ QBlock \/ MinerResult \/ Shutdown \/ UNCHANGED vars
    BY <2>1 DEF PoolChanges, EmptyBlock, QBlock, MinerResult, Shutdown, vars, chainVars, watchVars
  <2>2. CASE Sleep \/ NewHead \/ FeederStops \/ ReachStartMining \/ StageWork
    BY <2>2 DEF Sleep, NewHead, FeederStops, ReachStartMining, StageWork, chainVars, watchVars
  <2>3. CASE \E ok \in BOOLEAN : FetchSnapshot(ok) \/ WalkStep(ok) \/ ReadCandidate(ok)
                                 \/ SubmitParticipation(ok)
    BY <2>3 DEF FetchSnapshot, WalkStep, ReadCandidate, SubmitParticipation, chainVars, watchVars
  <2> QED
    BY <2>1, <2>2, <2>3 DEF Next, FeederStep
<1> QED
  BY <1>1, <1>2, CacheLasts

\* A proof that stopped the miners is ignored from the resume on, and until then
\* its verdict is in the cache.
LEMMA HeldNext ==
  ASSUME Typed, Typed', CacheTrue, Held, [Next]_vars
  PROVE  Held'
<1>1. snap.root \in Nat /\ snap'.root \in Nat /\ \A h \in held : h[1] <= snap.root
  BY DEF Typed, TypeOK, Snapshot, Held
<1>2. ASSUME NEW readable \in BOOLEAN, MiningPoll(readable)
      PROVE  Held'
  <2>1. /\ round = "StartMining" /\ current_head = {snap.root}
        /\ UNCHANGED <<snap, current_head>> /\ Scan(readable)
    BY <1>2 DEF MiningPoll
  <2>2. \A h \in held : h[1] = snap.root =>
          watch_root = {snap.root} /\ watch_root' = {snap.root} /\ h[2] \in ignored'
    BY <2>1 DEF Held, StillStopped, Scan, KnownIgnored
  <2>3. CASE readable /\ ClearingProofs(pool) # {}
    <3>1. PICK p \in ClearingProofs(pool) : held' = held \union {<<snap.root, p.extrinsic.nonce>>}
      BY <1>2, <2>3 DEF MiningPoll
    <3>2. /\ round' = "AwaitingQBlock" /\ pc' # "walk"
          /\ watch_root' = {snap.root} /\ verdicts' = ScannedVerdicts(pool)
      BY <1>2, <2>1, <2>3, TransitionType DEF MiningPoll, Scan
    <3>3. \E v \in verdicts' : v.clears /\ v.pending.extrinsic.nonce = p.extrinsic.nonce
      BY <3>1, <3>2 DEF ClearingProofs
    <3>4. StillStopped(p.extrinsic.nonce)'
      BY <2>1, <3>2, <3>3 DEF StillStopped
    <3>5. \A h \in held' : \/ h \in held
                           \/ h[1] = snap.root /\ h[2] = p.extrinsic.nonce
      BY <3>1
    <3> QED
      BY <1>1, <2>1, <2>2, <3>2, <3>4, <3>5 DEF Held, StillStopped
  <2>4. CASE ~(readable /\ ClearingProofs(pool) # {})
    <3>1. held' = held
      BY <1>2, <2>4 DEF MiningPoll
    <3> QED
      BY <1>1, <2>1, <2>2, <3>1 DEF Held
  <2> QED
    BY <2>3, <2>4
<1>3. ASSUME NEW readable \in BOOLEAN, AwaitingPoll(readable)
      PROVE  Held'
  <2>1. /\ round = "AwaitingQBlock" /\ current_head = {snap.root}
        /\ UNCHANGED <<snap, current_head, round, held>>
    BY <1>3 DEF AwaitingPoll
  <2>2. watch_root = {snap.root} => /\ KnownVerdicts = verdicts /\ KnownIgnored = ignored
                                    /\ verdicts \subseteq ScannedVerdicts(pool)
    BY DEF KnownVerdicts, KnownIgnored, ScannedVerdicts
  <2>3. CASE Resumes(Observation(readable))
    <3> DEFINE cache == IF readable THEN ScannedVerdicts(pool) ELSE verdicts
    <3>1. /\ watch_root' = IF readable THEN {snap.root} ELSE watch_root
          /\ ignored' = Expired(cache) \union IF readable THEN KnownIgnored ELSE ignored
      BY <1>3, <2>3 DEF AwaitingPoll
    <3>2. watch_root = {snap.root} => verdicts \subseteq cache
      BY <2>2
    <3>3. \A n : StillStopped(n) /\ watch_root = {snap.root} => n \in Expired(cache)
      BY <3>2 DEF StillStopped, Expired
    <3>4. \A h \in held : h[1] = snap.root => watch_root' = {snap.root} /\ h[2] \in ignored'
      BY <2>2, <3>1, <3>3 DEF Held
    <3> QED
      BY <1>1, <2>1, <3>4 DEF Held
  <2>4. CASE ~Resumes(Observation(readable))
    <3>1. Scan(readable) /\ pc' = "sleep"
      BY <1>3, <2>4 DEF AwaitingPoll
    <3>2. watch_root = {snap.root} => /\ watch_root' = {snap.root} /\ ignored' = ignored
                                      /\ verdicts \subseteq verdicts'
      BY <2>2, <3>1 DEF Scan
    <3>3. \A n : StillStopped(n) /\ watch_root = {snap.root} => StillStopped(n)'
      BY <2>1, <3>1, <3>2 DEF StillStopped
    <3>4. \A h \in held : h[1] = snap.root =>
            watch_root' = {snap.root} /\ (h[2] \in ignored' \/ StillStopped(h[2])')
      BY <3>2, <3>3 DEF Held
    <3>5. \A h \in held' : h[1] <= snap'.root
      BY <1>1, <2>1
    <3> QED
      BY <2>1, <3>4, <3>5 DEF Held, StillStopped
  <2> QED
    BY <2>3, <2>4
<1>4. CASE NewHead
  <2>1. /\ current_head # {snap.root} /\ UNCHANGED <<snap, held, watch_root, ignored>>
    BY <1>4 DEF NewHead, watchVars
  <2>2. \A h \in held : h[1] = snap.root => watch_root = {snap.root} /\ h[2] \in ignored
    BY <2>1 DEF Held, StillStopped
  <2> QED
    BY <1>1, <2>1, <2>2 DEF Held
<1>5. ASSUME NEW ok \in BOOLEAN, FetchSnapshot(ok) \/ WalkStep(ok)
      PROVE  Held'
  <2>1. /\ UNCHANGED <<held, watch_root, ignored, verdicts, round, current_head>>
        /\ pc # "walk" => pc' # "walk"
    BY <1>5 DEF FetchSnapshot, WalkStep, watchVars
  <2>2. snap.root <= snap'.root
    <3>1. snap' = snap \/ snap' = ChainView
      BY <1>5 DEF FetchSnapshot, WalkStep
    <3> QED
      BY <1>1, <3>1, ViewShape DEF Typed, Heads
  <2>3. ASSUME NEW h \in held
        PROVE  /\ h[1] <= snap'.root
               /\ h[1] = snap'.root => h[1] = snap.root /\ snap'.root = snap.root
    <3>1. h[1] <= snap.root
      BY <1>1
    <3>2. h[1] \in Int
      BY DEF Held
    <3> QED
      BY <1>1, <2>2, <3>1, <3>2
  <2> QED
    BY <2>1, <2>3 DEF Held, StillStopped
<1>6. CASE ReachStartMining
  <2>1. pc = "walk" /\ UNCHANGED <<snap, held, watch_root, ignored>>
    BY <1>6 DEF ReachStartMining, watchVars
  <2>2. \A h \in held : h[1] = snap.root => watch_root = {snap.root} /\ h[2] \in ignored
    BY <2>1 DEF Held, StillStopped
  <2> QED
    BY <1>1, <2>1, <2>2 DEF Held
<1>7. CASE /\ UNCHANGED <<snap, held, watch_root, ignored, verdicts, round, current_head>>
           /\ pc' = "walk" => pc = "walk"
  BY <1>7 DEF Held, StillStopped
<1>8. \/ \E readable \in BOOLEAN : MiningPoll(readable) \/ AwaitingPoll(readable)
      \/ NewHead \/ ReachStartMining
      \/ \E ok \in BOOLEAN : FetchSnapshot(ok) \/ WalkStep(ok)
      \/ /\ UNCHANGED <<snap, held, watch_root, ignored, verdicts, round, current_head>>
         /\ pc' = "walk" => pc = "walk"
  <2>1. CASE PoolChanges \/ EmptyBlock \/ QBlock \/ MinerResult \/ Shutdown \/ UNCHANGED vars
    BY <2>1 DEF PoolChanges, EmptyBlock, QBlock, MinerResult, Shutdown, vars, watchVars
  <2>2. CASE Sleep \/ FeederStops \/ StageWork
    BY <2>2 DEF Sleep, FeederStops, StageWork, watchVars
  <2>3. CASE \E ok \in BOOLEAN : ReadCandidate(ok) \/ SubmitParticipation(ok)
    BY <2>3 DEF ReadCandidate, SubmitParticipation, watchVars
  <2> QED
    BY <2>1, <2>2, <2>3 DEF Next, FeederStep
<1> QED
  BY <1>2, <1>3, <1>4, <1>5, <1>6, <1>7, <1>8
-----------------------------------------------------------------------------
(***************************************************************************)
(* The theorems                                                            *)
(***************************************************************************)

\* The inductive invariant: where snapshots, work, answers, cached verdicts and
\* stops stand to one another.
THEOREM Invariance == Spec => []IInv
<1>1. Init => IInv
  <2> SUFFICES ASSUME Init PROVE IInv
    OBVIOUS
  <2>1. snap = [root |-> 0, block |-> 0, since |-> 0]
    BY DEF Init, ChainView
  <2>2. TypeOK
    <3>1. Cardinality(current_head) <= 1
      BY AtMostOneHead DEF Init
    <3>2. snap \in Snapshot
      BY <2>1 DEF Snapshot
    <3>3. {miner_registered, descriptor_filed, mined, stopping} \subseteq BOOLEAN
      BY Zenon DEF Init
    <3>4. /\ 0 \in 0 .. MaxRoot /\ 0 \in 0 .. MaxBlock /\ 0 \in 0 .. 0
          /\ 0 \in 0 .. MaxGeneration /\ 0 \in 0 .. AwaitClearPolls
      BY Bounds
    <3>5. "StartMining" \in RoundStates
      BY DEF RoundStates
    <3> QED
      BY <3>1, <3>2, <3>3, <3>4, <3>5 DEF Init, TypeOK
  <2>3. Heads /\ Walked
    BY <2>1, Bounds DEF Init, Heads, Walked
  <2>4. Built /\ Answers /\ CacheTrue /\ Held
    BY DEF Init, Built, Answers, CacheTrue, Held
  <2> QED
    BY <2>2, <2>3, <2>4 DEF IInv
<1>2. IInv /\ [Next]_vars => IInv'
  <2> SUFFICES ASSUME IInv, [Next]_vars PROVE IInv'
    OBVIOUS
  <2>1. Typed /\ Walked /\ Built /\ Answers /\ CacheTrue /\ Held /\ candidate \in Nat
    BY DEF IInv, Typed, Answers
  <2>2. Typed'
    BY <2>1, TypedChain, TypedPoll, TypedWalk DEF Next, FeederStep
  <2>3. Walked'
    BY <2>1, WalkedNext
  <2>4. Built'
    BY <2>1, BuiltNext
  <2>5. Answers'
    BY <2>1, AnswersNext
  <2>6. CacheTrue' /\ Held'
    BY <2>1, <2>2, CacheNext, HeldNext
  <2> QED
    BY <2>2, <2>3, <2>4, <2>5, <2>6 DEF IInv, Typed
<1> QED
  BY <1>1, <1>2, PTL DEF Spec

\* All work of a generation is built on one root, whichever snapshots the feeder
\* got and whenever.
THEOREM GenerationHasOneRoot == Spec => []OneRootPerGeneration
<1>1. IInv => OneRootPerGeneration
  BY DEF IInv, Built, OneRootPerGeneration
<1> QED
  BY <1>1, Invariance, PTL

\* No work is built for an account that is not registered.
THEOREM RegisteredBeforeWork == Spec => []OnlyRegisteredMine
<1>1. IInv => OnlyRegisteredMine
  BY DEF IInv, Walked, OnlyRegisteredMine
<1> QED
  BY <1>1, Invariance, PTL

\* The chain is not asked again for a candidate it answered for.
THEOREM ParticipationOnce == Spec => []AnsweredOnce
<1>1. IInv => AnsweredOnce
  <2> SUFFICES ASSUME IInv, pc = "submit", candidate \in answered PROVE FALSE
    BY DEF AnsweredOnce
  <2>1. PICK q \in last_declared : candidate <= q
    BY DEF IInv, Answers
  <2>2. q \in Nat /\ candidate \in Nat /\ q < candidate
    BY Bounds DEF IInv, Answers, TypeOK
  <2> QED
    BY <2>1, <2>2
<1> QED
  BY <1>1, Invariance, PTL

\* The verdict cache never hides a clearing proof from a scan and never invents one.
THEOREM ScansAreExact == Spec => []NoClearingProofMissed
<1>1. IInv => NoClearingProofMissed
  <2> SUFFICES ASSUME IInv
               PROVE  ClearingProofs(pool) =
                        {p \in pool : Judge(p, snap) = "Clears" /\ p.extrinsic.nonce \notin KnownIgnored}
    BY DEF NoClearingProofMissed
  <2>1. ASSUME NEW p \in pool, NEW v \in ScannedVerdicts(pool), v.pending = p, v.clears
        PROVE  Judge(p, snap) = "Clears"
    <3>1. Lasting(v, snap.root)
      BY ScanTrue DEF IInv, Typed
    <3>2. p.root = snap.root /\ EasesAt[p.extrinsic.nonce] <= snap.since
      BY <2>1, <3>1 DEF Lasting
    <3>3. EasesAt[p.extrinsic.nonce] \in Nat /\ snap.since \in Nat
      BY RoundLoopConstants DEF IInv, TypeOK, Pending, Nonces, Snapshot
    <3>4. snap.since >= EasesAt[p.extrinsic.nonce]
      BY <3>2, <3>3
    <3> QED
      BY <3>2, <3>4 DEF Judge
  <2>2. ASSUME NEW p \in pool, Judge(p, snap) = "Clears", p.extrinsic.nonce \notin KnownIgnored
        PROVE  \E v \in ScannedVerdicts(pool) : v.pending = p /\ v.clears
    <3>1. CASE \E v \in KnownVerdicts : v.pending = p
      <4>1. PICK v \in KnownVerdicts : v.pending = p
        BY <3>1
      <4>2. v \in ScannedVerdicts(pool)
        BY DEF ScannedVerdicts
      <4>3. Lasting(v, snap.root)
        BY <4>2, ScanTrue DEF IInv, Typed
      <4>4. p.root = snap.root
        BY <2>2 DEF Judge
      <4> QED
        BY <4>1, <4>2, <4>3, <4>4 DEF Lasting
    <3>2. CASE \A v \in KnownVerdicts : v.pending # p
      <4> DEFINE v == [pending |-> p, clears |-> (Judge(p, snap) = "Clears")]
      <4>1. Cacheable(Judge(p, snap))
        BY <2>2 DEF Cacheable
      <4>2. v \in ScannedVerdicts(pool)
        BY <2>2, <3>2, <4>1 DEF ScannedVerdicts
      <4>3. v.pending = p /\ v.clears
        BY <2>2
      <4> QED
        BY <4>2, <4>3
    <3> QED
      BY <3>1, <3>2
  <2> QED
    BY <2>1, <2>2 DEF ClearingProofs
<1> QED
  BY <1>1, Invariance, PTL

\* A nonce stops the miners at most once on a root: every stop adds a proof that
\* had not stopped them before.
THEOREM StopIsNew == Spec => StopsOncePerRoot
<1>1. IInv /\ [Next]_vars => [round = "StartMining" /\ round' = "AwaitingQBlock" => held' # held]_vars
  <2> SUFFICES ASSUME IInv, Next, round = "StartMining", round' = "AwaitingQBlock"
               PROVE  held' # held
    OBVIOUS
  <2>1. PICK readable \in BOOLEAN : MiningPoll(readable)
    <3>1. CASE PoolChanges \/ EmptyBlock \/ QBlock \/ MinerResult \/ Shutdown
      BY <3>1 DEF PoolChanges, EmptyBlock, QBlock, MinerResult, Shutdown
    <3>2. CASE Sleep \/ NewHead \/ FeederStops \/ ReachStartMining \/ StageWork
      BY <3>2 DEF Sleep, NewHead, FeederStops, ReachStartMining, StageWork
    <3>3. CASE \E readable \in BOOLEAN : AwaitingPoll(readable)
      BY <3>3 DEF AwaitingPoll
    <3>4. CASE \E ok \in BOOLEAN : FetchSnapshot(ok) \/ WalkStep(ok) \/ ReadCandidate(ok)
                                   \/ SubmitParticipation(ok)
      BY <3>4 DEF FetchSnapshot, WalkStep, ReadCandidate, SubmitParticipation
    <3> QED
      BY <3>1, <3>2, <3>3, <3>4 DEF Next, FeederStep
  <2>2. PICK p \in ClearingProofs(pool) : held' = held \union {<<snap.root, p.extrinsic.nonce>>}
    BY <2>1 DEF MiningPoll
  <2>3. p.extrinsic.nonce \notin KnownIgnored
    BY DEF ClearingProofs
  <2>4. <<snap.root, p.extrinsic.nonce>> \notin held
    <3> DEFINE h == <<snap.root, p.extrinsic.nonce>>
    <3> SUFFICES ASSUME h \in held PROVE FALSE
      OBVIOUS
    <3>1. h[1] = snap.root /\ h[2] = p.extrinsic.nonce
      OBVIOUS
    <3>2. watch_root = {snap.root} /\ p.extrinsic.nonce \in ignored
      BY <3>1 DEF IInv, Held, StillStopped
    <3> QED
      BY <2>3, <3>2 DEF KnownIgnored
  <2> QED
    BY <2>2, <2>4
<1> QED
  BY <1>1, Invariance, PTL DEF Spec, StopsOncePerRoot
=============================================================================
