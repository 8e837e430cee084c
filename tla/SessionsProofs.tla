---------------------------- MODULE SessionsProofs ----------------------------
(***************************************************************************)
(* Sessions' invariant for every set of miners and of sessions, whichever  *)
(* id each session carries, and for every bound.                           *)
(***************************************************************************)
EXTENDS Sessions, FiniteSetTheorems, SequenceTheorems, TLAPS

Steps == {"unopened", "opened", "accepted", "registered", "told", "listed", "live", "ended",
          "over"}

\* The tables of the coordinator, the sessions and the feeder.
Typed ==
  /\ topology \in 0 .. MaxRound
  /\ outbound \in [Miners -> SUBSET SessionIds] /\ wakeups \in [Miners -> SUBSET SessionIds]
  /\ registered \subseteq Miners
  /\ staged \in [Miners -> Nat] /\ inflight \in [Miners -> Nat]
  /\ granted_credits \in [Miners -> Nat]
  /\ step \in [SessionIds -> Steps]
  /\ told \in [SessionIds -> Nat]
  /\ grants \in [SessionIds -> Seq({0, 1})]
  /\ dispatcher \in [SessionIds -> {"none", "parked", "sending", "over"}]
  /\ batch \in [SessionIds -> [jobs : Nat, round : Nat, held : BOOLEAN]]
  /\ feeder \in {"stopped", "stored", "sending", "mining"}
  /\ senders \subseteq SessionIds /\ collected \subseteq SessionIds

\* A registry holds one channel of a miner id or none.
AtMostOne(channels) == channels = {} \/ \E s \in SessionIds : channels = {s}

Channels ==
  /\ \A m \in Miners : AtMostOne(outbound[m]) /\ AtMostOne(wakeups[m])
  /\ \A s \in SessionIds : Len(grants[s]) <= GrantDepth

\* What a dispatcher has popped and not sent is in flight for its miner until
\* it is reclaimed or cancelled. A dispatcher that waits has popped nothing, and
\* there is none before the handshake is over.
HeldFits ==
  /\ \A s \in SessionIds : step[s] \notin {"live", "ended", "over"} => dispatcher[s] = "none"
  /\ \A s \in SessionIds : dispatcher[s] \in {"none", "parked"} => ~batch[s].held
  /\ \A m \in Miners : IsFiniteSet(Held(m)) /\ Unsent(m) <= inflight[m]

\* Between stop_mining and the first top-up of the next round nothing is queued
\* or in flight.
Idle ==
  /\ feeder = "stopped" => topology < MaxRound
  /\ feeder # "mining" => \A m \in Miners : staged[m] = 0 /\ inflight[m] = 0

\* A batch is of this round or of an earlier one, and of an earlier one until
\* the round's broadcast is through.
Batches ==
  \A s \in SessionIds : dispatcher[s] = "sending" =>
    /\ batch[s].round <= topology
    /\ feeder \in {"stored", "sending"} => batch[s].round < topology

\* The broadcast has told every session it collected, but for those it has
\* still to send to.
Broadcast ==
  /\ feeder # "sending" => senders = {}
  /\ \A s \in collected \ senders : told[s] = topology

IInv ==
  /\ Typed
  /\ Channels
  /\ HeldFits
  /\ Idle
  /\ Batches
  /\ Broadcast
-----------------------------------------------------------------------------
(***************************************************************************)
(* The batches the sessions of a miner hold                                *)
(***************************************************************************)

\* Held, by membership.
LEMMA HeldMembers ==
  ASSUME NEW m \in Miners, NEW p
  PROVE  p \in Held(m) <=>
           \E s \in SessionIds : /\ MinerOf[s] = m /\ batch[s].held
                                 /\ p \in {s} \X (1 .. batch[s].jobs)
BY DEF Held

\* The same in the next state.
LEMMA HeldMembersNext ==
  ASSUME NEW m \in Miners, NEW p
  PROVE  p \in Held(m)' <=>
           \E s \in SessionIds : /\ MinerOf[s] = m /\ batch'[s].held
                                 /\ p \in {s} \X (1 .. batch'[s].jobs)
BY DEF Held

\* A step that takes batches away, or only stops holding them, leaves no more
\* jobs unsent than there were.
LEMMA HeldShrinks ==
  ASSUME NEW m \in Miners, IsFiniteSet(Held(m)),
         \A s \in SessionIds : MinerOf[s] = m /\ batch'[s].held => batch'[s] = batch[s]
  PROVE  /\ IsFiniteSet(Held(m)')
         /\ Unsent(m) \in Nat /\ Unsent(m)' \in Nat
         /\ Unsent(m)' <= Unsent(m)
<1>1. \A p : p \in Held(m)' => p \in Held(m)
  BY HeldMembers, HeldMembersNext
<1>2. Held(m)' \in SUBSET Held(m)
  BY <1>1
<1>3. /\ IsFiniteSet(Held(m)')
      /\ Cardinality(Held(m)') <= Cardinality(Held(m))
  BY <1>2, FS_Subset
<1>4. Cardinality(Held(m)) \in Nat /\ Cardinality(Held(m)') \in Nat
  BY <1>3, FS_CardinalityType
<1>5. QED
  BY <1>3, <1>4 DEF Unsent

\* Popping n jobs into the batch of a session that held none makes n more.
LEMMA HeldGrows ==
  ASSUME Typed, NEW s \in SessionIds, NEW m \in Miners, MinerOf[s] = m, IsFiniteSet(Held(m)),
         ~batch[s].held, NEW n \in Nat, NEW r \in Nat,
         batch' = [batch EXCEPT ![s] = [jobs |-> n, round |-> r, held |-> TRUE]]
  PROVE  /\ IsFiniteSet(Held(m)')
         /\ Unsent(m) \in Nat
         /\ Unsent(m)' = Unsent(m) + n
<1> DEFINE New == {s} \X (1 .. n)
<1>0. /\ \A x \in SessionIds : x # s => batch'[x] = batch[x]
      /\ batch'[s].held /\ batch'[s].jobs = n
  BY DEF Typed
<1>1. \A p : p \in Held(m)' <=> p \in Held(m) \/ p \in New
  BY <1>0, HeldMembers, HeldMembersNext
<1>2. \A p \in Held(m) : p \notin New
  <2>1. SUFFICES ASSUME NEW p \in Held(m), p \in New
                 PROVE  FALSE
    OBVIOUS
  <2>2. PICK x \in SessionIds : batch[x].held /\ p \in {x} \X (1 .. batch[x].jobs)
    BY <2>1, HeldMembers
  <2>3. p[1] = x /\ p[1] = s
    BY <2>1, <2>2
  <2>4. QED
    BY <2>2, <2>3
<1> HIDE DEF New
<1>3. Held(m)' = Held(m) \union New /\ Held(m) \intersect New = {}
  BY <1>1, <1>2
<1>4. IsFiniteSet(New) /\ Cardinality(New) = n
  <2>1. IsFiniteSet({s}) /\ Cardinality({s}) = 1
    BY FS_Singleton
  <2>2. IsFiniteSet(1 .. n) /\ Cardinality(1 .. n) = n
    BY FS_Interval
  <2>3. IsFiniteSet(New) /\ Cardinality(New) = 1 * n
    BY <2>1, <2>2, FS_Product DEF New
  <2>4. QED
    BY <2>3
<1>5. /\ IsFiniteSet(Held(m)')
      /\ Cardinality(Held(m)') = Cardinality(Held(m)) + n - Cardinality({})
  BY <1>3, <1>4, FS_Union
<1>6. Cardinality({}) = 0 /\ Cardinality(Held(m)) \in Nat
  BY FS_EmptySet, FS_CardinalityType
<1>7. QED
  BY <1>5, <1>6 DEF Unsent

\* A wakeup adds at most one entry, and only where there is room.
LEMMA WokenFits ==
  ASSUME SessionsConstants, Typed, Channels, NEW s \in SessionIds
  PROVE  Woken(s) \in Seq({0, 1}) /\ Len(Woken(s)) <= GrantDepth
<1>1. /\ grants[s] \in Seq({0, 1}) /\ Len(grants[s]) <= GrantDepth
      /\ GrantDepth \in Nat
  BY DEF Typed, Channels, SessionsConstants
<1>2. CASE Woken(s) = grants[s]
  BY <1>1, <1>2
<1>3. CASE Len(grants[s]) < GrantDepth /\ Woken(s) = Append(grants[s], 0)
  BY <1>1, <1>3
<1>4. QED
  BY <1>2, <1>3 DEF Woken
-----------------------------------------------------------------------------
(***************************************************************************)
(* One step of the dispatcher and the miner's answer                       *)
(***************************************************************************)

\* A drain pops no more than is granted and no more than is queued.
LEMMA DrainFits ==
  ASSUME NEW pool \in Nat, NEW m \in Miners, Typed
  PROVE  /\ Drained(m, pool) \in Nat
         /\ Drained(m, pool) <= pool /\ Drained(m, pool) <= staged[m]
         /\ pool - Drained(m, pool) \in Nat /\ staged[m] - Drained(m, pool) \in Nat
BY DEF Typed, Drained

\* What one drain does to the tables, with the jobs popped named.
LEMMA DispatchEffect ==
  ASSUME SessionsConstants, Typed, Channels, NEW s \in SessionIds, DispatchGranted(s)
  PROVE  \E n \in Nat, c \in Nat, q \in Nat :
           /\ MinerOf[s] \in Miners
           /\ n <= staged[MinerOf[s]] /\ q = staged[MinerOf[s]] - n
           /\ granted_credits' = [granted_credits EXCEPT ![MinerOf[s]] = c]
           /\ staged' = [staged EXCEPT ![MinerOf[s]] = q]
           /\ inflight' = [inflight EXCEPT ![MinerOf[s]] = inflight[MinerOf[s]] + n]
           /\ grants' = [grants EXCEPT ![s] = Tail(grants[s])]
           /\ Tail(grants[s]) \in Seq({0, 1}) /\ Len(Tail(grants[s])) <= GrantDepth
           /\ \/ /\ n = 0
                 /\ batch' = [batch EXCEPT ![s] = NoBatch]
                 /\ dispatcher' = [dispatcher EXCEPT ![s] = "parked"]
              \/ /\ n # 0
                 /\ batch' = [batch EXCEPT ![s] = [jobs |-> n, round |-> topology, held |-> TRUE]]
                 /\ dispatcher' = [dispatcher EXCEPT ![s] = "sending"]
<1> DEFINE m == MinerOf[s]
           pool == granted_credits[m] + Head(grants[s])
           n == Drained(m, pool)
<1>1. m \in Miners
  BY DEF SessionsConstants
<1>2. /\ grants[s] \in Seq({0, 1}) /\ grants[s] # <<>> /\ Len(grants[s]) <= GrantDepth
      /\ GrantDepth \in Nat
  BY DEF DispatchGranted, Typed, Channels, SessionsConstants
<1>3. /\ Head(grants[s]) \in {0, 1}
      /\ Tail(grants[s]) \in Seq({0, 1}) /\ Len(Tail(grants[s])) <= GrantDepth
  BY <1>2
<1>4. pool \in Nat
  BY <1>1, <1>3 DEF Typed
<1>5. /\ granted_credits' = [granted_credits EXCEPT ![m] = pool - n]
      /\ staged' = [staged EXCEPT ![m] = staged[m] - n]
      /\ inflight' = [inflight EXCEPT ![m] = inflight[m] + n]
      /\ grants' = [grants EXCEPT ![s] = Tail(grants[s])]
      /\ batch' = [batch EXCEPT ![s] = IF n = 0 THEN NoBatch
                      ELSE [jobs |-> n, round |-> topology, held |-> TRUE]]
      /\ dispatcher' = [dispatcher EXCEPT ![s] = IF n = 0 THEN "parked" ELSE "sending"]
  BY DEF DispatchGranted
<1> HIDE DEF pool
<1>6. n \in Nat /\ n <= staged[m] /\ pool - n \in Nat /\ staged[m] - n \in Nat
  BY <1>1, <1>4, DrainFits
<1> HIDE DEF n
<1>7. \/ /\ n = 0
         /\ batch' = [batch EXCEPT ![s] = NoBatch]
         /\ dispatcher' = [dispatcher EXCEPT ![s] = "parked"]
      \/ /\ n # 0
         /\ batch' = [batch EXCEPT ![s] = [jobs |-> n, round |-> topology, held |-> TRUE]]
         /\ dispatcher' = [dispatcher EXCEPT ![s] = "sending"]
  BY <1>5
<1> DEFINE c == pool - n
           q == staged[m] - n
<1>8. c \in Nat /\ q \in Nat
  BY <1>6
<1>9. QED
  BY <1>1, <1>3, <1>5, <1>6, <1>7, <1>8

\* A terminal message retires a job the router has in flight.
LEMMA AnsweredEffect ==
  ASSUME SessionsConstants, Typed, HeldFits, NEW s \in SessionIds, Answered(s)
  PROVE  \E k \in Nat :
           /\ MinerOf[s] \in Miners
           /\ inflight[MinerOf[s]] = k + 1
           /\ Unsent(MinerOf[s]) <= k
           /\ inflight' = [inflight EXCEPT ![MinerOf[s]] = k]
<1> DEFINE m == MinerOf[s]
           u == Unsent(m)
           k == inflight[m] - 1
<1>1. m \in Miners
  BY DEF SessionsConstants
<1>2. u \in Nat
  BY <1>1, FS_CardinalityType DEF HeldFits, Unsent
<1>3. inflight[m] \in Nat /\ inflight[m] > u
  BY <1>1 DEF Typed, Answered
<1>4. inflight' = [inflight EXCEPT ![m] = k]
  BY DEF Answered
<1> HIDE DEF u
<1>5. k \in Nat /\ inflight[m] = k + 1 /\ u <= k
  BY <1>2, <1>3
<1>6. QED
  BY <1>1, <1>4, <1>5 DEF u
-----------------------------------------------------------------------------
(***************************************************************************)
(* Every step keeps the invariant                                          *)
(***************************************************************************)

\* The records of the batch table.
BatchRecords == [jobs : Nat, round : Nat, held : BOOLEAN]

\* A batch that is popped, and none, are of the table.
LEMMA BatchTypes ==
  /\ NoBatch \in BatchRecords
  /\ \A n, r \in Nat : [jobs |-> n, round |-> r, held |-> TRUE] \in BatchRecords
BY DEF NoBatch, BatchRecords

\* The tables keep their types.
LEMMA TypedNext ==
  ASSUME SessionsConstants, IInv, [Next]_vars
  PROVE  Typed'
<1> USE SessionsConstants DEF IInv
<1>0. /\ \A s \in SessionIds : MinerOf[s] \in Miners
      /\ Depth \in Nat
      /\ {"parked", "over", "sending"} \subseteq {"none", "parked", "sending", "over"}
      /\ {"opened", "accepted", "registered", "told", "listed", "live", "ended", "over"} \subseteq Steps
  BY DEF SessionsConstants, Steps
<1>1. ASSUME NEW m \in Miners, Spawn(m) \/ ChildExits(m)
      PROVE  Typed'
  BY <1>1 DEF Spawn, ChildExits, Typed, routerVars, jobVars, handVars, dispatchVars, feederVars
<1>2. ASSUME NEW m \in Miners, Reclaim(m)
      PROVE  Typed'
  <2>1. /\ staged' \in [Miners -> Nat] /\ inflight' \in [Miners -> Nat]
        /\ granted_credits' \in [Miners -> Nat]
        /\ outbound' \in [Miners -> SUBSET SessionIds]
    BY <1>2 DEF Reclaim, Typed
  <2>2. batch' \in [SessionIds -> [jobs : Nat, round : Nat, held : BOOLEAN]]
    BY <1>2 DEF Reclaim, Typed
  <2>3. QED
    BY <1>2, <2>1, <2>2 DEF Reclaim, Typed, handVars, feederVars
<1>3. ASSUME NEW s \in SessionIds, Open(s) \/ Disconnect(s) \/ Hello(s) \/ Register(s)
                                   \/ HandshakeFails(s) \/ StreamEnds(s)
      PROVE  Typed'
  <2>0. \/ step' = step
        \/ \E x \in Steps : step' = [step EXCEPT ![s] = x]
    BY <1>3, <1>0 DEF Open, Disconnect, Hello, Register, HandshakeFails, StreamEnds
  <2>1. /\ step' \in [SessionIds -> Steps]
        /\ registered' \subseteq Miners
        /\ granted_credits' \in [Miners -> Nat]
    <3>1. step' \in [SessionIds -> Steps]
      BY <2>0 DEF Typed
    <3>2. CASE Register(s)
      BY <3>1, <3>2, <1>0 DEF Register, Typed
    <3>3. CASE registered' = registered /\ granted_credits' = granted_credits
      BY <3>1, <3>3 DEF Typed
    <3>4. QED
      BY <1>3, <3>2, <3>3 DEF Open, Disconnect, Hello, HandshakeFails, StreamEnds, routerVars
  <2>2. QED
    BY <1>3, <2>1 DEF Open, Disconnect, Hello, Register, HandshakeFails, StreamEnds, Typed,
         routerVars, jobVars, dispatchVars, feederVars
<1>4. ASSUME NEW s \in SessionIds, Tell(s)
      PROVE  Typed'
  <2>1. topology \in Nat
    BY DEF Typed
  <2>2. step' \in [SessionIds -> Steps] /\ told' \in [SessionIds -> Nat]
    BY <1>4, <1>0, <2>1 DEF Tell, Typed
  <2>3. QED
    BY <1>4, <2>2 DEF Tell, Typed, routerVars, jobVars, dispatchVars, feederVars
<1>5. ASSUME NEW s \in SessionIds, register_outbound(s) \/ register_wakeup(s) \/ deregister_outbound(s)
      PROVE  Typed'
  <2>1. /\ step' \in [SessionIds -> Steps]
        /\ outbound' \in [Miners -> SUBSET SessionIds]
        /\ wakeups' \in [Miners -> SUBSET SessionIds]
        /\ dispatcher' \in [SessionIds -> {"none", "parked", "sending", "over"}]
    <3>1. CASE register_outbound(s)
      BY <3>1, <1>0 DEF register_outbound, Typed, dispatchVars
    <3>2. CASE register_wakeup(s)
      BY <3>2, <1>0 DEF register_wakeup, Typed
    <3>3. CASE deregister_outbound(s)
      BY <3>3, <1>0 DEF deregister_outbound, Typed, dispatchVars
    <3>4. QED
      BY <1>5, <3>1, <3>2, <3>3
  <2>2. QED
    BY <1>5, <2>1 DEF register_outbound, register_wakeup, deregister_outbound, Typed,
         routerVars, jobVars, dispatchVars, feederVars
<1>6. ASSUME NEW s \in SessionIds, JobRequest(s)
      PROVE  Typed'
  <2>1. grants[s] \in Seq({0, 1}) /\ Append(grants[s], 1) \in Seq({0, 1})
    BY DEF Typed
  <2>2. step' \in [SessionIds -> Steps] /\ grants' \in [SessionIds -> Seq({0, 1})]
    <3>1. step' \in [SessionIds -> Steps]
      <4>1. step' = step \/ step' = [step EXCEPT ![s] = "ended"]
        BY <1>6 DEF JobRequest
      <4>2. step \in [SessionIds -> Steps]
        BY DEF Typed
      <4>3. QED
        BY <4>1, <4>2 DEF Steps
    <3>2. grants' = grants \/ grants' = [grants EXCEPT ![s] = Append(@, 1)]
      BY <1>6 DEF JobRequest
    <3>3. grants \in [SessionIds -> Seq({0, 1})]
      BY DEF Typed
    <3>4. QED
      BY <2>1, <3>1, <3>2, <3>3
  <2>3. QED
    BY <1>6, <2>2 DEF JobRequest, Typed, routerVars, jobVars, feederVars
<1>7. ASSUME NEW s \in SessionIds, Answered(s)
      PROVE  Typed'
  <2>1. PICK k \in Nat : inflight' = [inflight EXCEPT ![MinerOf[s]] = k]
    BY <1>7, AnsweredEffect
  <2>2. inflight' \in [Miners -> Nat]
    BY <2>1 DEF Typed
  <2>3. QED
    BY <1>7, <2>2 DEF Answered, Typed, handVars, dispatchVars, feederVars
<1>8. ASSUME NEW s \in SessionIds, apply_capabilities(s)
      PROVE  Typed'
  <2>1. grants' \in [SessionIds -> Seq({0, 1})]
    BY <1>8, WokenFits DEF apply_capabilities
  <2>2. QED
    BY <1>8, <2>1 DEF apply_capabilities, Typed, routerVars, jobVars, handVars, feederVars
<1>9. ASSUME NEW s \in SessionIds, DispatchGranted(s)
      PROVE  Typed'
  <2>1. PICK n \in Nat, c \in Nat, q \in Nat :
           /\ granted_credits' = [granted_credits EXCEPT ![MinerOf[s]] = c]
           /\ staged' = [staged EXCEPT ![MinerOf[s]] = q]
           /\ inflight' = [inflight EXCEPT ![MinerOf[s]] = inflight[MinerOf[s]] + n]
           /\ grants' = [grants EXCEPT ![s] = Tail(grants[s])]
           /\ Tail(grants[s]) \in Seq({0, 1})
           /\ \/ /\ batch' = [batch EXCEPT ![s] = NoBatch]
                 /\ dispatcher' = [dispatcher EXCEPT ![s] = "parked"]
              \/ /\ batch' = [batch EXCEPT ![s] = [jobs |-> n, round |-> topology, held |-> TRUE]]
                 /\ dispatcher' = [dispatcher EXCEPT ![s] = "sending"]
    BY <1>9, DispatchEffect
  <2>2. /\ granted_credits' \in [Miners -> Nat] /\ staged' \in [Miners -> Nat]
        /\ inflight' \in [Miners -> Nat] /\ grants' \in [SessionIds -> Seq({0, 1})]
        /\ dispatcher' \in [SessionIds -> {"none", "parked", "sending", "over"}]
    <3>1. granted_credits' \in [Miners -> Nat] /\ staged' \in [Miners -> Nat]
      BY <2>1 DEF Typed
    <3>2. inflight[MinerOf[s]] + n \in Nat
      BY <1>0 DEF Typed
    <3>3. inflight' \in [Miners -> Nat]
      BY <2>1, <3>2 DEF Typed
    <3>4. grants' \in [SessionIds -> Seq({0, 1})]
      BY <2>1 DEF Typed
    <3>5. dispatcher' \in [SessionIds -> {"none", "parked", "sending", "over"}]
      BY <2>1 DEF Typed
    <3>6. QED
      BY <3>1, <3>3, <3>4, <3>5
  <2>3. topology \in Nat
    BY DEF Typed
  <2>4. batch' \in [SessionIds -> [jobs : Nat, round : Nat, held : BOOLEAN]]
    <3>1. \E b \in BatchRecords : batch' = [batch EXCEPT ![s] = b]
      BY <2>1, <2>3, BatchTypes
    <3>2. QED
      BY <3>1 DEF Typed, BatchRecords
  <2>5. QED
    BY <1>9, <2>2, <2>4 DEF DispatchGranted, Typed, handVars, feederVars
<1>10. ASSUME NEW s \in SessionIds, SendBatch(s) \/ DispatcherEnds(s)
       PROVE  Typed'
  <2>1. dispatcher' \in [SessionIds -> {"none", "parked", "sending", "over"}]
    BY <1>10, <1>0 DEF SendBatch, DispatcherEnds, Typed
  <2>2. batch' \in [SessionIds -> [jobs : Nat, round : Nat, held : BOOLEAN]]
    <3>1. batch' = batch \/ \E b \in BatchRecords : batch' = [batch EXCEPT ![s] = b]
      BY <1>10, BatchTypes DEF SendBatch, DispatcherEnds
    <3>2. QED
      BY <3>1 DEF Typed, BatchRecords
  <2>3. QED
    BY <1>10, <2>1, <2>2 DEF SendBatch, DispatcherEnds, Typed, routerVars, jobVars, handVars, feederVars
<1>11. CASE StopMining
  <2>1. batch' \in [SessionIds -> [jobs : Nat, round : Nat, held : BOOLEAN]]
    BY <1>11 DEF StopMining, Typed
  <2>2. staged' \in [Miners -> Nat] /\ inflight' \in [Miners -> Nat]
    BY <1>11 DEF StopMining
  <2>3. QED
    BY <1>11, <2>1, <2>2 DEF StopMining, Typed, handVars
<1>12. CASE Reseed
  <2>1. topology' \in 0 .. MaxRound
    BY <1>12 DEF Reseed, Typed, Idle, SessionsConstants
  <2>2. QED
    BY <1>12, <2>1 DEF Reseed, Typed, routerVars, jobVars, handVars, dispatchVars
<1>13. CASE CollectSenders
  BY <1>13 DEF CollectSenders, Typed, routerVars, jobVars, handVars, dispatchVars
<1>14. ASSUME NEW s \in SessionIds, SendRequirements(s)
       PROVE  Typed'
  <2>1. topology \in Nat
    BY DEF Typed
  <2>2. told' \in [SessionIds -> Nat] /\ senders' \subseteq SessionIds
    BY <1>14, <2>1 DEF SendRequirements, Typed
  <2>3. QED
    BY <1>14, <2>2 DEF SendRequirements, Typed, routerVars, jobVars, dispatchVars
<1>15. CASE TopUp
  <2>1. grants' \in [SessionIds -> Seq({0, 1})]
    BY <1>15, WokenFits DEF TopUp
  <2>2. staged' \in [Miners -> Nat]
    BY <1>15, <1>0 DEF TopUp, Typed
  <2>3. QED
    BY <1>15, <2>1, <2>2 DEF TopUp, Typed, handVars
<1>16. CASE UNCHANGED vars
  BY <1>16 DEF vars, Typed, routerVars, jobVars, handVars, dispatchVars, feederVars
<1>17. QED
  BY <1>1, <1>2, <1>3, <1>4, <1>5, <1>6, <1>7, <1>8, <1>9, <1>10, <1>11, <1>12, <1>13, <1>14,
     <1>15, <1>16 DEF Next, HandshakeStep, DispatcherStep, FeederStep

\* An id keeps one channel of each kind, and a grant channel its capacity.
LEMMA ChannelsNext ==
  ASSUME SessionsConstants, IInv, [Next]_vars
  PROVE  Channels'
<1> USE SessionsConstants DEF IInv
<1>0. \A s \in SessionIds : MinerOf[s] \in Miners
  BY DEF SessionsConstants
<1> DEFINE One == \A m \in Miners : AtMostOne(outbound[m]) /\ AtMostOne(wakeups[m])
           Fit == \A s \in SessionIds : Len(grants[s]) <= GrantDepth
<1>1. ASSUME outbound' = outbound, wakeups' = wakeups
      PROVE  One'
  BY <1>1 DEF Channels, AtMostOne
<1>2. ASSUME grants' = grants
      PROVE  Fit'
  BY <1>2 DEF Channels
<1>3. ASSUME NEW m \in Miners, Reclaim(m)
      PROVE  Channels'
  <2>1. One'
    BY <1>3 DEF Reclaim, Channels, AtMostOne, Typed
  <2>2. QED
    BY <1>3, <1>2, <2>1 DEF Reclaim, Channels
<1>4. ASSUME NEW s \in SessionIds, register_outbound(s) \/ register_wakeup(s) \/ deregister_outbound(s)
      PROVE  Channels'
  <2>1. One'
    <3>1. CASE register_outbound(s)
      BY <3>1, <1>0 DEF register_outbound, Channels, AtMostOne, Typed, dispatchVars
    <3>2. CASE register_wakeup(s)
      BY <3>2, <1>0 DEF register_wakeup, Channels, AtMostOne, Typed
    <3>3. CASE deregister_outbound(s)
      BY <3>3, <1>0 DEF deregister_outbound, Channels, AtMostOne, Typed, dispatchVars
    <3>4. QED
      BY <1>4, <3>1, <3>2, <3>3
  <2>2. QED
    BY <1>4, <1>2, <2>1 DEF register_outbound, register_wakeup, deregister_outbound, Channels, dispatchVars
<1>5. ASSUME NEW s \in SessionIds, JobRequest(s)
      PROVE  Channels'
  <2>1. /\ grants[s] \in Seq({0, 1})
        /\ Len(Append(grants[s], 1)) = Len(grants[s]) + 1
        /\ GrantDepth \in Nat
        /\ grants \in [SessionIds -> Seq({0, 1})]
    BY DEF Typed, SessionsConstants
  <2>2. Fit'
    <3>1. CASE grants' = grants
      BY <3>1, <1>2
    <3>2. CASE Len(grants[s]) < GrantDepth /\ grants' = [grants EXCEPT ![s] = Append(grants[s], 1)]
      <4>1. Len(grants[s]) \in Nat /\ Len(Append(grants[s], 1)) <= GrantDepth
        BY <2>1, <3>2
      <4> DEFINE g == Append(grants[s], 1)
      <4>2. Len(g) <= GrantDepth /\ grants' = [grants EXCEPT ![s] = g]
        BY <3>2, <4>1
      <4> HIDE DEF g
      <4>3. QED
        BY <2>1, <4>2 DEF Channels
    <3>3. QED
      BY <1>5, <3>1, <3>2 DEF JobRequest
  <2>3. QED
    BY <1>5, <1>1, <2>2 DEF JobRequest, Channels
<1>6. ASSUME NEW s \in SessionIds, DispatchGranted(s)
      PROVE  Channels'
  <2>1. /\ grants' = [grants EXCEPT ![s] = Tail(grants[s])]
        /\ Len(Tail(grants[s])) <= GrantDepth
    BY <1>6, DispatchEffect
  <2>2. Fit'
    BY <2>1 DEF Typed, Channels
  <2>3. QED
    BY <1>6, <1>1, <2>2 DEF DispatchGranted, Channels
<1>7. ASSUME TopUp \/ \E s \in SessionIds : apply_capabilities(s)
      PROVE  Channels'
  <2>1. grants' = [s \in SessionIds |-> Woken(s)]
    BY <1>7 DEF TopUp, apply_capabilities
  <2>2. Fit'
    BY <2>1, WokenFits
  <2>3. QED
    BY <1>7, <1>1, <2>2 DEF TopUp, apply_capabilities, Channels
<1>8. CASE UNCHANGED <<outbound, wakeups, grants>>
  BY <1>8, <1>1, <1>2 DEF Channels
<1>9. \/ \E m \in Miners : Reclaim(m)
      \/ \E s \in SessionIds : \/ register_outbound(s) \/ register_wakeup(s) \/ deregister_outbound(s)
                               \/ JobRequest(s) \/ DispatchGranted(s)
      \/ TopUp \/ \E s \in SessionIds : apply_capabilities(s)
      \/ UNCHANGED <<outbound, wakeups, grants>>
  BY DEF Next, HandshakeStep, DispatcherStep, FeederStep, vars, Spawn, ChildExits, Open, Disconnect,
    Hello, Register, HandshakeFails, Tell, Answered, StreamEnds, SendBatch, DispatcherEnds,
    StopMining, Reseed, CollectSenders, SendRequirements, dispatchVars
<1>10. QED
  BY <1>3, <1>4, <1>5, <1>6, <1>7, <1>8, <1>9

\* A dispatcher starts when the handshake ends.
LEMMA DispatcherStarts ==
  ASSUME SessionsConstants, IInv, [Next]_vars
  PROVE  \A s \in SessionIds : step'[s] \notin {"live", "ended", "over"} => dispatcher'[s] = "none"
<1> USE SessionsConstants DEF IInv
<1> DEFINE Late == {"live", "ended", "over"}
<1>0. /\ step \in [SessionIds -> Steps]
      /\ dispatcher \in [SessionIds -> {"none", "parked", "sending", "over"}]
      /\ \A s \in SessionIds : step[s] \notin Late => dispatcher[s] = "none"
  BY DEF Typed, HeldFits
<1>1. ASSUME NEW s \in SessionIds, UNCHANGED dispatcher,
             \/ step' = step
             \/ step[s] \notin Late /\ \E x : step' = [step EXCEPT ![s] = x]
             \/ \E x \in Late : step' = [step EXCEPT ![s] = x]
      PROVE  \A y \in SessionIds : step'[y] \notin Late => dispatcher'[y] = "none"
  BY <1>0, <1>1
<1>2. ASSUME NEW s \in SessionIds, UNCHANGED step, step[s] \in Late,
             \E x : dispatcher' = [dispatcher EXCEPT ![s] = x]
      PROVE  \A y \in SessionIds : step'[y] \notin Late => dispatcher'[y] = "none"
  BY <1>0, <1>2
<1>3. ASSUME NEW s \in SessionIds, register_wakeup(s)
      PROVE  \A y \in SessionIds : step'[y] \notin Late => dispatcher'[y] = "none"
  BY <1>0, <1>3 DEF register_wakeup
<1>4. ASSUME NEW s \in SessionIds, Open(s) \/ Hello(s) \/ Register(s) \/ HandshakeFails(s) \/ Tell(s)
                                   \/ register_outbound(s) \/ JobRequest(s) \/ StreamEnds(s)
                                   \/ deregister_outbound(s)
      PROVE  /\ UNCHANGED dispatcher
             /\ \/ step' = step
                \/ step[s] \notin Late /\ \E x : step' = [step EXCEPT ![s] = x]
                \/ \E x \in Late : step' = [step EXCEPT ![s] = x]
  BY <1>4 DEF Open, Hello, Register, HandshakeFails, Tell, register_outbound, JobRequest,
    StreamEnds, deregister_outbound, dispatchVars
<1>5. ASSUME NEW s \in SessionIds, DispatcherStep(s)
      PROVE  /\ UNCHANGED step /\ step[s] \in Late
             /\ \E x : dispatcher' = [dispatcher EXCEPT ![s] = x]
  BY <1>0, <1>5 DEF DispatcherStep, DispatchGranted, SendBatch, DispatcherEnds, handVars
<1>6. CASE UNCHANGED <<step, dispatcher>>
  BY <1>0, <1>6
<1>7. \/ \E s \in SessionIds : \/ Open(s) \/ Hello(s) \/ Register(s) \/ HandshakeFails(s) \/ Tell(s)
                               \/ register_outbound(s) \/ JobRequest(s) \/ StreamEnds(s)
                               \/ deregister_outbound(s)
      \/ \E s \in SessionIds : register_wakeup(s) \/ DispatcherStep(s)
      \/ UNCHANGED <<step, dispatcher>>
  BY DEF Next, HandshakeStep, FeederStep, vars, Spawn, ChildExits, Reclaim, Disconnect, Answered,
    apply_capabilities, StopMining, Reseed, CollectSenders, SendRequirements, TopUp, handVars,
    dispatchVars
<1> HIDE DEF Late
<1>8. QED
  BY <1>1, <1>2, <1>3, <1>4, <1>5, <1>6, <1>7 DEF Late

\* A dispatcher that waits has popped nothing.
LEMMA WaitingHoldsNothing ==
  ASSUME SessionsConstants, IInv, [Next]_vars
  PROVE  \A s \in SessionIds : dispatcher'[s] \in {"none", "parked"} => ~batch'[s].held
<1> USE SessionsConstants DEF IInv
<1>0. /\ dispatcher \in [SessionIds -> {"none", "parked", "sending", "over"}]
      /\ batch \in [SessionIds -> BatchRecords]
      /\ \A s \in SessionIds : dispatcher[s] \in {"none", "parked"} => ~batch[s].held
      /\ ~NoBatch.held
  BY DEF Typed, HeldFits, BatchRecords, NoBatch
<1>1. ASSUME NEW s \in SessionIds, register_wakeup(s)
      PROVE  \A y \in SessionIds : dispatcher'[y] \in {"none", "parked"} => ~batch'[y].held
  <2>1. dispatcher[s] = "none"
    BY <1>1 DEF register_wakeup, HeldFits
  <2>2. QED
    BY <1>0, <1>1, <2>1 DEF register_wakeup
<1>2. ASSUME NEW s \in SessionIds, DispatchGranted(s)
      PROVE  \A y \in SessionIds : dispatcher'[y] \in {"none", "parked"} => ~batch'[y].held
  <2>1. \/ /\ batch' = [batch EXCEPT ![s] = NoBatch]
           /\ dispatcher' = [dispatcher EXCEPT ![s] = "parked"]
        \/ /\ \E b : batch' = [batch EXCEPT ![s] = b]
           /\ dispatcher' = [dispatcher EXCEPT ![s] = "sending"]
    BY <1>2, DispatchEffect
  <2>2. QED
    BY <1>0, <2>1
<1>3. ASSUME NEW s \in SessionIds, SendBatch(s) \/ DispatcherEnds(s)
      PROVE  \A y \in SessionIds : dispatcher'[y] \in {"none", "parked"} => ~batch'[y].held
  BY <1>0, <1>3 DEF SendBatch, DispatcherEnds
<1>4. ASSUME StopMining \/ \E m \in Miners : Reclaim(m)
      PROVE  \A y \in SessionIds : dispatcher'[y] \in {"none", "parked"} => ~batch'[y].held
  <2>1. \A s \in SessionIds : ~batch'[s].held \/ batch'[s] = batch[s]
    BY <1>0, <1>4 DEF StopMining, Reclaim, BatchRecords
  <2>2. dispatcher' = dispatcher
    BY <1>4 DEF StopMining, Reclaim
  <2>3. QED
    BY <1>0, <2>1, <2>2
<1>5. CASE UNCHANGED <<dispatcher, batch>>
  BY <1>0, <1>5
<1>6. \/ \E s \in SessionIds : register_wakeup(s) \/ DispatchGranted(s) \/ SendBatch(s) \/ DispatcherEnds(s)
      \/ StopMining \/ \E m \in Miners : Reclaim(m)
      \/ UNCHANGED <<dispatcher, batch>>
  BY DEF Next, HandshakeStep, DispatcherStep, FeederStep, vars, Spawn, ChildExits, Open, Disconnect,
    Hello, Register, HandshakeFails, Tell, register_outbound, JobRequest, Answered,
    apply_capabilities, StreamEnds, deregister_outbound, Reseed, CollectSenders,
    SendRequirements, TopUp, dispatchVars
<1>7. QED
  BY <1>1, <1>2, <1>3, <1>4, <1>5, <1>6

\* Jobs popped and not sent stay within the jobs in flight.
LEMMA UnsentNext ==
  ASSUME SessionsConstants, IInv, [Next]_vars, NEW m \in Miners
  PROVE  IsFiniteSet(Held(m)') /\ Unsent(m)' <= inflight'[m]
<1> USE SessionsConstants DEF IInv
<1>0. /\ IsFiniteSet(Held(m)) /\ Unsent(m) <= inflight[m]
      /\ Unsent(m) \in Nat /\ inflight[m] \in Nat
      /\ inflight \in [Miners -> Nat]
      /\ batch \in [SessionIds -> BatchRecords]
      /\ ~NoBatch.held
  BY FS_CardinalityType DEF HeldFits, Typed, Unsent, BatchRecords, NoBatch
<1> DEFINE Shrinks == \A s \in SessionIds : MinerOf[s] = m /\ batch'[s].held => batch'[s] = batch[s]
<1>1. ASSUME Shrinks
      PROVE  /\ IsFiniteSet(Held(m)') /\ Unsent(m)' \in Nat
             /\ Unsent(m)' <= Unsent(m)
  BY <1>0, <1>1, HeldShrinks
<1>2. ASSUME Shrinks, inflight'[m] = inflight[m]
      PROVE  IsFiniteSet(Held(m)') /\ Unsent(m)' <= inflight'[m]
  BY <1>0, <1>1, <1>2
<1>3. ASSUME \A s \in SessionIds : MinerOf[s] = m => ~batch'[s].held,
             inflight'[m] = 0
      PROVE  IsFiniteSet(Held(m)') /\ Unsent(m)' <= inflight'[m]
  <2>1. Held(m)' = {}
    BY <1>3, HeldMembersNext
  <2>2. IsFiniteSet({}) /\ Cardinality({}) = 0
    BY FS_EmptySet
  <2>3. QED
    BY <1>3, <2>1, <2>2 DEF Unsent
<1> HIDE DEF Shrinks
<1>4. ASSUME NEW x \in Miners, Reclaim(x)
      PROVE  IsFiniteSet(Held(m)') /\ Unsent(m)' <= inflight'[m]
  <2>1. CASE x = m
    <3>1. \A s \in SessionIds : MinerOf[s] = m => ~batch'[s].held
      BY <1>0, <1>4, <2>1 DEF Reclaim, BatchRecords
    <3>2. inflight'[m] = 0
      BY <1>0, <1>4, <2>1 DEF Reclaim
    <3>3. QED
      BY <1>3, <3>1, <3>2
  <2>2. CASE x # m
    <3>1. Shrinks /\ inflight'[m] = inflight[m]
      BY <1>0, <1>4, <2>2 DEF Reclaim, Shrinks
    <3>2. QED
      BY <1>2, <3>1
  <2>3. QED
    BY <2>1, <2>2
<1>5. CASE StopMining
  <2>1. \A s \in SessionIds : ~batch'[s].held
    BY <1>0, <1>5 DEF StopMining, BatchRecords
  <2>2. inflight'[m] = 0
    BY <1>5 DEF StopMining
  <2>3. QED
    BY <1>3, <2>1, <2>2
<1>6. ASSUME NEW s \in SessionIds, Answered(s)
      PROVE  IsFiniteSet(Held(m)') /\ Unsent(m)' <= inflight'[m]
  <2>1. PICK k \in Nat : /\ Unsent(MinerOf[s]) <= k
                         /\ inflight' = [inflight EXCEPT ![MinerOf[s]] = k]
    BY <1>6, AnsweredEffect
  <2>2. Shrinks
    BY <1>6 DEF Answered, dispatchVars, Shrinks
  <2>3. /\ Unsent(m) <= inflight'[m]
        /\ inflight'[m] \in Nat
    BY <1>0, <2>1
  <2>4. QED
    BY <1>0, <1>1, <2>2, <2>3
<1>7. ASSUME NEW s \in SessionIds, DispatchGranted(s)
      PROVE  IsFiniteSet(Held(m)') /\ Unsent(m)' <= inflight'[m]
  <2>1. PICK n \in Nat :
           /\ MinerOf[s] \in Miners
           /\ inflight' = [inflight EXCEPT ![MinerOf[s]] = inflight[MinerOf[s]] + n]
           /\ \/ /\ n = 0
                 /\ batch' = [batch EXCEPT ![s] = NoBatch]
              \/ batch' = [batch EXCEPT ![s] = [jobs |-> n, round |-> topology, held |-> TRUE]]
    BY <1>7, DispatchEffect
  <2>2. CASE MinerOf[s] # m
    <3>1. Shrinks /\ inflight'[m] = inflight[m]
      BY <1>0, <2>1, <2>2 DEF Shrinks
    <3>2. QED
      BY <1>2, <3>1
  <2>3. CASE MinerOf[s] = m /\ n = 0 /\ batch' = [batch EXCEPT ![s] = NoBatch]
    <3>1. Shrinks /\ inflight'[m] = inflight[m]
      BY <1>0, <2>1, <2>3 DEF Shrinks
    <3>2. QED
      BY <1>2, <3>1
  <2>4. CASE /\ MinerOf[s] = m
             /\ batch' = [batch EXCEPT ![s] = [jobs |-> n, round |-> topology, held |-> TRUE]]
    <3>1. ~batch[s].held
      BY <1>7 DEF DispatchGranted, HeldFits
    <3>2. topology \in Nat
      BY DEF Typed
    <3>3. IsFiniteSet(Held(m)') /\ Unsent(m)' = Unsent(m) + n
      BY <1>0, <2>4, <3>1, <3>2, HeldGrows
    <3>4. inflight'[m] = inflight[m] + n
      BY <1>0, <2>1, <2>4
    <3>5. QED
      BY <1>0, <3>3, <3>4
  <2>5. QED
    BY <2>1, <2>2, <2>3, <2>4
<1>8. ASSUME NEW s \in SessionIds, SendBatch(s)
      PROVE  IsFiniteSet(Held(m)') /\ Unsent(m)' <= inflight'[m]
  <2>1. Shrinks
    BY <1>0, <1>8 DEF SendBatch, Shrinks
  <2>2. inflight' = inflight
    BY <1>8 DEF SendBatch, routerVars, jobVars
  <2>3. QED
    BY <1>2, <2>1, <2>2
<1>9. CASE UNCHANGED <<batch, inflight>>
  BY <1>2, <1>9 DEF Shrinks
<1>10. \/ \E x \in Miners : Reclaim(x)
       \/ \E s \in SessionIds : Answered(s) \/ DispatchGranted(s) \/ SendBatch(s)
       \/ StopMining
       \/ UNCHANGED <<batch, inflight>>
  BY DEF Next, HandshakeStep, DispatcherStep, FeederStep, vars, Spawn, ChildExits, Open, Disconnect,
    Hello, Register, HandshakeFails, Tell, register_outbound, register_wakeup, JobRequest,
    apply_capabilities, StreamEnds, deregister_outbound, DispatcherEnds, Reseed, CollectSenders,
    SendRequirements, TopUp, dispatchVars, routerVars, jobVars
<1>11. QED
  BY <1>4, <1>5, <1>6, <1>7, <1>8, <1>9, <1>10

\* Nothing is queued or in flight until the next top-up.
LEMMA IdleNext ==
  ASSUME SessionsConstants, IInv, [Next]_vars
  PROVE  Idle'
<1> USE SessionsConstants DEF IInv
<1>0. /\ staged \in [Miners -> Nat] /\ inflight \in [Miners -> Nat]
      /\ feeder \in {"stopped", "stored", "sending", "mining"}
      /\ topology \in Nat /\ MaxRound \in Nat
      /\ feeder = "stopped" => topology < MaxRound
      /\ feeder # "mining" => \A m \in Miners : staged[m] = 0 /\ inflight[m] = 0
  BY DEF Typed, Idle, SessionsConstants
<1>1. ASSUME UNCHANGED <<feeder, topology>>,
             feeder # "mining" => \A m \in Miners : staged'[m] = 0 /\ inflight'[m] = 0
      PROVE  Idle'
  BY <1>0, <1>1 DEF Idle
<1>2. ASSUME NEW m \in Miners, Reclaim(m)
      PROVE  Idle'
  <2>1. \A x \in Miners : /\ inflight'[x] = inflight[x] \/ inflight'[x] = 0
                          /\ staged'[x] = staged[x] \/ staged'[x] = staged[x] + inflight[x]
    BY <1>0, <1>2 DEF Reclaim
  <2>2. feeder # "mining" => \A x \in Miners : staged'[x] = 0 /\ inflight'[x] = 0
    BY <1>0, <2>1
  <2>3. QED
    BY <1>1, <1>2, <2>2 DEF Reclaim, feederVars
<1>3. ASSUME NEW s \in SessionIds, Answered(s)
      PROVE  Idle'
  <2>1. PICK k \in Nat : MinerOf[s] \in Miners /\ inflight[MinerOf[s]] = k + 1
    BY <1>3, AnsweredEffect
  <2>2. feeder = "mining"
    BY <1>0, <2>1
  <2>3. QED
    BY <1>1, <1>3, <2>2 DEF Answered, feederVars
<1>4. ASSUME NEW s \in SessionIds, DispatchGranted(s)
      PROVE  Idle'
  <2>1. PICK n \in Nat, q \in Nat :
           /\ MinerOf[s] \in Miners
           /\ n <= staged[MinerOf[s]] /\ q = staged[MinerOf[s]] - n
           /\ staged' = [staged EXCEPT ![MinerOf[s]] = q]
           /\ inflight' = [inflight EXCEPT ![MinerOf[s]] = inflight[MinerOf[s]] + n]
    BY <1>4, DispatchEffect
  <2>2. ASSUME feeder # "mining"
        PROVE  n = 0 /\ q = 0
    BY <1>0, <2>1, <2>2
  <2>3. feeder # "mining" => \A x \in Miners : staged'[x] = 0 /\ inflight'[x] = 0
    BY <1>0, <2>1, <2>2
  <2>4. QED
    BY <1>1, <1>4, <2>3 DEF DispatchGranted, feederVars
<1>5. CASE StopMining
  <2>1. \A m \in Miners : staged'[m] = 0 /\ inflight'[m] = 0
    BY <1>5 DEF StopMining
  <2>2. topology' < MaxRound
    BY <1>5 DEF StopMining
  <2>3. QED
    BY <2>1, <2>2 DEF Idle
<1>6. CASE Reseed \/ CollectSenders
  BY <1>0, <1>6 DEF Reseed, CollectSenders, Idle, routerVars, jobVars
<1>7. CASE TopUp
  BY <1>7 DEF TopUp, Idle
<1>8. CASE UNCHANGED <<staged, inflight, feeder, topology>>
  BY <1>0, <1>1, <1>8
<1>9. \/ \E m \in Miners : Reclaim(m)
      \/ \E s \in SessionIds : Answered(s) \/ DispatchGranted(s)
      \/ StopMining \/ Reseed \/ CollectSenders \/ TopUp
      \/ UNCHANGED <<staged, inflight, feeder, topology>>
  BY DEF Next, HandshakeStep, DispatcherStep, FeederStep, vars, Spawn, ChildExits, Open, Disconnect,
    Hello, Register, HandshakeFails, Tell, register_outbound, register_wakeup, JobRequest,
    apply_capabilities, StreamEnds, deregister_outbound, SendBatch, DispatcherEnds,
    SendRequirements, routerVars, jobVars, feederVars
<1>10. QED
  BY <1>2, <1>3, <1>4, <1>5, <1>6, <1>7, <1>8, <1>9

\* No job of a round is popped before the round's broadcast is through.
LEMMA BatchesNext ==
  ASSUME SessionsConstants, IInv, [Next]_vars
  PROVE  Batches'
<1> USE SessionsConstants DEF IInv
<1>0. /\ dispatcher \in [SessionIds -> {"none", "parked", "sending", "over"}]
      /\ batch \in [SessionIds -> BatchRecords]
      /\ \A s \in SessionIds : batch[s].round \in Nat
      /\ feeder \in {"stopped", "stored", "sending", "mining"}
      /\ topology \in Nat
  BY DEF Typed, BatchRecords
<1>1. ASSUME UNCHANGED <<feeder, topology>>,
             \A s \in SessionIds : dispatcher'[s] = "sending" =>
               dispatcher[s] = "sending" /\ batch'[s].round = batch[s].round
      PROVE  Batches'
  BY <1>1 DEF Batches
<1>2. ASSUME NEW s \in SessionIds, DispatchGranted(s)
      PROVE  Batches'
  <2>0. feeder' = feeder /\ topology' = topology
    BY <1>2 DEF DispatchGranted, feederVars
  <2>1. PICK n \in Nat :
           /\ MinerOf[s] \in Miners
           /\ n <= staged[MinerOf[s]]
           /\ \/ /\ n = 0
                 /\ batch' = [batch EXCEPT ![s] = NoBatch]
                 /\ dispatcher' = [dispatcher EXCEPT ![s] = "parked"]
              \/ /\ n # 0
                 /\ batch' = [batch EXCEPT ![s] = [jobs |-> n, round |-> topology, held |-> TRUE]]
                 /\ dispatcher' = [dispatcher EXCEPT ![s] = "sending"]
    BY <1>2, DispatchEffect
  <2>2. CASE /\ batch' = [batch EXCEPT ![s] = NoBatch]
             /\ dispatcher' = [dispatcher EXCEPT ![s] = "parked"]
    <3>1. \A x \in SessionIds : dispatcher'[x] = "sending" =>
               dispatcher[x] = "sending" /\ batch'[x].round = batch[x].round
      BY <1>0, <2>2
    <3>2. QED
      BY <1>1, <2>0, <3>1
  <2>3. CASE /\ n # 0
             /\ batch' = [batch EXCEPT ![s] = [jobs |-> n, round |-> topology, held |-> TRUE]]
             /\ dispatcher' = [dispatcher EXCEPT ![s] = "sending"]
    <3>1. feeder = "mining"
      BY <2>1, <2>3 DEF Idle
    <3>2. batch'[s].round = topology
      BY <1>0, <2>3
    <3>3. \A x \in SessionIds : x # s => batch'[x] = batch[x] /\ dispatcher'[x] = dispatcher[x]
      BY <1>0, <2>3
    <3>4. \A x \in SessionIds : dispatcher'[x] = "sending" => batch'[x].round <= topology
      BY <1>0, <3>2, <3>3 DEF Batches
    <3>5. QED
      BY <2>0, <3>1, <3>4 DEF Batches
  <2>4. QED
    BY <2>1, <2>2, <2>3
<1>3. ASSUME NEW s \in SessionIds, SendBatch(s) \/ DispatcherEnds(s) \/ register_wakeup(s)
      PROVE  Batches'
  <2>1. \A x \in SessionIds : dispatcher'[x] = "sending" =>
               dispatcher[x] = "sending" /\ batch'[x].round = batch[x].round
    BY <1>0, <1>3 DEF SendBatch, DispatcherEnds, register_wakeup
  <2>2. QED
    BY <1>1, <1>3, <2>1 DEF SendBatch, DispatcherEnds, register_wakeup, feederVars
<1>4. ASSUME NEW m \in Miners, Reclaim(m)
      PROVE  Batches'
  <2>1. \A x \in SessionIds : batch'[x].round = batch[x].round
    BY <1>0, <1>4 DEF Reclaim, BatchRecords
  <2>2. QED
    BY <1>1, <1>4, <2>1 DEF Reclaim, feederVars
<1>5. CASE StopMining
  <2>1. \A x \in SessionIds : batch'[x].round = batch[x].round
    BY <1>0, <1>5 DEF StopMining, BatchRecords
  <2>2. QED
    BY <1>5, <2>1 DEF StopMining, Batches
<1>6. CASE Reseed
  <2>1. \A s \in SessionIds : dispatcher[s] = "sending" =>
            batch[s].round <= topology + 1 /\ batch[s].round < topology + 1
    BY <1>0 DEF Batches
  <2>2. topology' = topology + 1 /\ dispatcher' = dispatcher /\ batch' = batch
    BY <1>6 DEF Reseed, dispatchVars
  <2>3. QED
    BY <2>1, <2>2 DEF Batches
<1>7. CASE CollectSenders \/ TopUp
  BY <1>7 DEF CollectSenders, TopUp, Batches, dispatchVars
<1>8. CASE UNCHANGED <<dispatcher, batch, feeder, topology>>
  BY <1>1, <1>8
<1>9. \/ \E m \in Miners : Reclaim(m)
      \/ \E s \in SessionIds : DispatchGranted(s) \/ SendBatch(s) \/ DispatcherEnds(s) \/ register_wakeup(s)
      \/ StopMining \/ Reseed \/ CollectSenders \/ TopUp
      \/ UNCHANGED <<dispatcher, batch, feeder, topology>>
  BY DEF Next, HandshakeStep, DispatcherStep, FeederStep, vars, Spawn, ChildExits, Open, Disconnect,
    Hello, Register, HandshakeFails, Tell, register_outbound, JobRequest, Answered,
    apply_capabilities, StreamEnds, deregister_outbound, SendRequirements, dispatchVars, feederVars
<1>10. QED
  BY <1>2, <1>3, <1>4, <1>5, <1>6, <1>7, <1>8, <1>9

\* The broadcast leaves out nobody it collected.
LEMMA BroadcastNext ==
  ASSUME SessionsConstants, IInv, [Next]_vars
  PROVE  Broadcast'
<1> USE SessionsConstants DEF IInv
<1>0. told \in [SessionIds -> Nat] /\ senders \subseteq SessionIds /\ collected \subseteq SessionIds
  BY DEF Typed
<1>1. ASSUME NEW s \in SessionIds, Tell(s)
      PROVE  Broadcast'
  BY <1>0, <1>1 DEF Tell, Broadcast, feederVars
<1>2. ASSUME NEW s \in SessionIds, SendRequirements(s)
      PROVE  Broadcast'
  BY <1>0, <1>2 DEF SendRequirements, Broadcast
<1>3. CASE StopMining
  BY <1>3 DEF StopMining, Broadcast, handVars
<1>4. CASE Reseed
  BY <1>4 DEF Reseed, Broadcast
<1>5. CASE CollectSenders
  BY <1>5 DEF CollectSenders, Broadcast
<1>6. CASE TopUp
  BY <1>6 DEF TopUp, Stages, Broadcast, handVars
<1>7. CASE UNCHANGED <<told, feederVars>>
  BY <1>7 DEF Broadcast, feederVars
<1>8. \/ \E s \in SessionIds : Tell(s) \/ SendRequirements(s)
      \/ StopMining \/ Reseed \/ CollectSenders \/ TopUp
      \/ UNCHANGED <<told, feederVars>>
  BY DEF Next, HandshakeStep, DispatcherStep, FeederStep, vars, Spawn, ChildExits, Reclaim, Open,
    Disconnect, Hello, Register, HandshakeFails, register_outbound, register_wakeup, JobRequest,
    Answered, apply_capabilities, StreamEnds, deregister_outbound, DispatchGranted, SendBatch,
    DispatcherEnds, handVars
<1>9. QED
  BY <1>1, <1>2, <1>3, <1>4, <1>5, <1>6, <1>7, <1>8

\* The invariant holds before the first spawn.
LEMMA InitIInv ==
  ASSUME SessionsConstants, Init
  PROVE  IInv
<1>1. /\ FirstRound \in 0 .. 1 /\ MaxRound \in Nat \ {0} /\ GrantDepth \in Nat
      /\ feeder = "stopped" \/ feeder = "mining"
      /\ feeder = "stopped" => topology = 0
      /\ topology \in 0 .. MaxRound
  BY DEF SessionsConstants, Init
<1>2. batch = [s \in SessionIds |-> NoBatch] /\ ~NoBatch.held
  BY DEF Init, NoBatch
<1>3. Typed
  <2>1. batch \in [SessionIds -> BatchRecords]
    BY <1>2, BatchTypes
  <2>2. \A s \in SessionIds : <<>> \in Seq({0, 1})
    OBVIOUS
  <2>3. QED
    BY <1>1, <2>1, <2>2 DEF Init, Typed, BatchRecords, Steps
<1>4. Channels
  BY <1>1 DEF Init, Channels, AtMostOne
<1>5. HeldFits
  <2>1. ASSUME NEW m \in Miners
        PROVE  IsFiniteSet(Held(m)) /\ Unsent(m) <= inflight[m]
    <3>1. Held(m) = {}
      BY <1>2, HeldMembers
    <3>2. IsFiniteSet({}) /\ Cardinality({}) = 0
      BY FS_EmptySet
    <3>3. QED
      BY <3>1, <3>2 DEF Init, Unsent
  <2>2. QED
    BY <1>2, <2>1 DEF Init, HeldFits
<1>6. Idle
  BY <1>1 DEF Init, Idle
<1>7. Batches
  BY DEF Init, Batches
<1>8. Broadcast
  BY DEF Init, Broadcast
<1>9. QED
  BY <1>3, <1>4, <1>5, <1>6, <1>7, <1>8 DEF IInv

\* And every step of a supervisor, a session, a dispatcher or the feeder keeps it.
LEMMA NextIInv ==
  ASSUME SessionsConstants, IInv, [Next]_vars
  PROVE  IInv'
<1>1. HeldFits'
  BY DispatcherStarts, WaitingHoldsNothing, UnsentNext DEF HeldFits
<1>2. QED
  BY <1>1, TypedNext, ChannelsNext, IdleNext, BatchesNext, BroadcastNext DEF IInv
-----------------------------------------------------------------------------
(***************************************************************************)
(* Theorems                                                                *)
(***************************************************************************)

\* The invariant above holds in every state.
THEOREM Invariance == Spec => []IInv
<1>1. Init => IInv
  BY SessionsConstants, InitIInv
<1>2. IInv /\ [Next]_vars => IInv'
  BY SessionsConstants, NextIInv
<1>3. QED
  BY <1>1, <1>2, PTL DEF Spec

\* However many sessions carry one miner id: an id has at most one outbound and
\* one wakeup channel, a grant channel never exceeds its depth, and what the
\* dispatchers hold is in flight (session.rs: register_outbound, wake_dispatcher,
\* dispatch_inflight).
THEOREM TypeCorrect == Spec => []TypeOK
<1>1. ASSUME NEW channels, AtMostOne(channels)
      PROVE  Cardinality(channels) <= 1
  BY <1>1, FS_EmptySet, FS_Singleton DEF AtMostOne
<1>2. IInv => TypeOK
  BY <1>1 DEF IInv, Typed, Channels, HeldFits, TypeOK, Steps
<1>3. QED
  BY <1>2, Invariance, PTL

\* A session the round's broadcast was sent to has the round's Topology and
\* SetTarget before a job of the round (runtime.rs: broadcast_topology,
\* broadcast_set_target and the staging that follows them).
THEOREM RequirementsFirst == Spec => []ToldBeforeJobs
<1>1. IInv => ToldBeforeJobs
  <2>1. SUFFICES ASSUME IInv, NEW s \in SessionIds, dispatcher[s] = "sending", s \in collected,
                        batch[s].round = topology
                 PROVE  told[s] = topology
    BY DEF ToldBeforeJobs
  <2>2. topology \in Nat /\ feeder \in {"stopped", "stored", "sending", "mining"}
    BY <2>1 DEF IInv, Typed
  <2>3. feeder \notin {"stored", "sending"}
    BY <2>1, <2>2 DEF IInv, Batches
  <2>4. QED
    BY <2>1, <2>2, <2>3 DEF IInv, Broadcast
<1>2. QED
  BY <1>1, Invariance, PTL
=============================================================================
