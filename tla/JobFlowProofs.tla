---------------------------- MODULE JobFlowProofs ----------------------------
(***************************************************************************)
(* JobFlow's invariants for every set of miners, orders, envelopes and     *)
(* graphs and every bound. The inductive invariant adds to the checked     *)
(* properties what they rest on: every queued, in-flight or answering job  *)
(* is well formed (Sound), the queues are finite, and mined_generation is  *)
(* never ahead of the round.                                               *)
(*                                                                         *)
(* Of the chain reads the jobs come from, ReadsSound is proved for every   *)
(* chain, page size and outage.                                            *)
(***************************************************************************)
EXTENDS Intake, FiniteSetTheorems, SequenceTheorems, WellFoundedInduction, TLAPS

\* A live job is either an order the book holds, or PoW work of this round.
Sound(j) ==
  /\ generation > 0
  /\ j.class = "order" => j = OrderJob(j.id) /\ j.id \in mempool_orders
  /\ j.class # "order" => /\ j.generation = generation
                          /\ phase = "mining"
                          /\ j.id <= salt_ctr

LiveJobsSound ==
  /\ \A m \in Miners : \A j \in staged[m] \union inflight[m] : Sound(j)
  /\ \A j \in answering : j.class = "order" /\ Sound(j)

QueuesFinite == \A m \in Miners : IsFiniteSet(staged[m]) /\ IsFiniteSet(inflight[m])

RoundsOrdered ==
  /\ phase # "idle" => generation > 0
  /\ \A g \in mined_generation : g <= generation
  /\ \A j \in salts : j.generation = generation

IInv ==
  /\ TypeOK
  /\ InOnePlace
  /\ LiveJobsSound
  /\ QueuesFinite
  /\ RoundsOrdered
  /\ OrdersAccounted
  /\ MinedIsEvidence
-----------------------------------------------------------------------------
(***************************************************************************)
(* Routing picks one miner, and picks one whenever a candidate exists.     *)
(***************************************************************************)

\* Two miners cannot both be the first candidate (route_excluding sorts and
\* takes the head).
LEMMA FirstUnique ==
  ASSUME NEW S, S \subseteq Nat, NEW a, NEW b, First(S, a), First(S, b)
  PROVE  a = b
  BY DEF First

\* A non-empty set of ids has a first one (route_excluding's candidates.first()).
LEMMA FirstExists ==
  ASSUME NEW S, S \subseteq Nat, S # {}
  PROVE  \E a \in S : First(S, a)
<1> DEFINE R == {p \in Nat \X Nat : p[1] < p[2]}
<1>1. IsWellFoundedOn(R, Nat)
  BY NatLessThanWellFounded DEF OpToRel
<1>2. PICK a \in S : \A b \in S : ~(<<b, a>> \in R)
  BY <1>1, WFMin
<1>3. \A b \in S : a <= b
  <2> SUFFICES ASSUME NEW b \in S PROVE a <= b
    OBVIOUS
  <2>1. <<b, a>> \notin R
    BY <1>2
  <2>2. QED
    BY <2>1
<1>4. QED
  BY <1>2, <1>3 DEF First

\* Every job has exactly one target among the registered miners, or none and
\* is unroutable (route_excluding).
LEMMA Routing ==
  ASSUME TypeOK, NEW j, NEW excluded
  PROVE  /\ \A x, y : RoutesTo(j, excluded, x) /\ RoutesTo(j, excluded, y) => x = y
         /\ \A x : RoutesTo(j, excluded, x) => x \in Miners \ excluded
         /\ Unroutable(j, excluded) \/ \E x \in Miners : RoutesTo(j, excluded, x)
<1> DEFINE S == Candidates(j, excluded)
<1>1. S \subseteq Nat /\ S \subseteq Miners \ excluded
  BY JobFlowConstants DEF Candidates, TypeOK
<1> HIDE DEF S
<1>2. \A x, y : First(S, x) /\ First(S, y) => x = y
  BY <1>1, FirstUnique
<1>3. \A x : First(S, x) => x \in Miners \ excluded
  BY <1>1 DEF First
<1>4. S = {} \/ \E x \in Miners : First(S, x)
  BY <1>1, FirstExists
<1>5. QED
  BY <1>2, <1>3, <1>4 DEF RoutesTo, Unroutable, S

\* The same in the state after a step, for an action that routes against the
\* capabilities it has just stored (update_capabilities).
LEMMA RoutingAfter ==
  ASSUME TypeOK', NEW j, NEW excluded
  PROVE  /\ \A x, y : RoutesTo(j, excluded, x)' /\ RoutesTo(j, excluded, y)' => x = y
         /\ \A x : RoutesTo(j, excluded, x)' => x \in Miners \ excluded
         /\ Unroutable(j, excluded)' \/ \E x \in Miners : RoutesTo(j, excluded, x)'
<1> DEFINE S == Candidates(j, excluded)'
<1>1. S \subseteq Nat /\ S \subseteq Miners \ excluded
  BY JobFlowConstants DEF Candidates, TypeOK
<1> HIDE DEF S
<1>2. \A x, y : First(S, x) /\ First(S, y) => x = y
  BY <1>1, FirstUnique
<1>3. \A x : First(S, x) => x \in Miners \ excluded
  BY <1>1 DEF First
<1>4. S = {} \/ \E x \in Miners : First(S, x)
  BY <1>1, FirstExists
<1>5. QED
  BY <1>2, <1>3, <1>4 DEF RoutesTo, Unroutable, S, First

\* The image of a finite set of salts as PoW jobs is finite.
LEMMA FinitePowJobs ==
  ASSUME NEW S, IsFiniteSet(S), NEW m
  PROVE  IsFiniteSet({PowJob(m, n) : n \in S})
<1> DEFINE T == {PowJob(m, n) : n \in S}
           f == [n \in S |-> PowJob(m, n)]
<1>1. f \in Surjection(S, T)
  <2> HIDE DEF PowJob
  <2>1. f \in [S -> T]
    OBVIOUS
  <2>2. \A t \in T : \E s \in S : f[s] = t
    OBVIOUS
  <2>3. QED
    BY <2>1, <2>2 DEF Surjection
<1>2. QED
  BY <1>1, FS_Surjection

\* The image of a finite set of orders as jobs is finite.
LEMMA FiniteOrderJobs ==
  ASSUME NEW S, IsFiniteSet(S)
  PROVE  IsFiniteSet({OrderJob(o) : o \in S})
<1> DEFINE T == {OrderJob(o) : o \in S}
           f == [o \in S |-> OrderJob(o)]
<1>1. f \in Surjection(S, T)
  <2>1. f \in [S -> T]
    OBVIOUS
  <2>2. \A t \in T : \E s \in S : f[s] = t
    OBVIOUS
  <2>3. QED
    BY <2>1, <2>2 DEF Surjection
<1>2. QED
  BY <1>1, FS_Surjection
-----------------------------------------------------------------------------
(***************************************************************************)
(* One lemma per action: it preserves the inductive invariant.             *)
(***************************************************************************)

\* In the initial state nothing is queued and no order is taken on.
LEMMA InitIInv == Init => IInv
<1> SUFFICES ASSUME Init PROVE IInv
  OBVIOUS
<1>1. TypeOK
  BY JobFlowConstants DEF Init, TypeOK
<1>2. InOnePlace
  BY DEF Init, InOnePlace
<1>3. LiveJobsSound /\ RoundsOrdered /\ OrdersAccounted /\ MinedIsEvidence
  BY DEF Init, LiveJobsSound, RoundsOrdered, OrdersAccounted, MinedIsEvidence
<1>4. QueuesFinite
  BY FS_EmptySet DEF Init, QueuesFinite
<1>5. QED
  BY <1>1, <1>2, <1>3, <1>4 DEF IInv

\* Registration touches neither queues nor the in-flight table (register_miner).
LEMMA RegisterMinerIInv ==
  ASSUME IInv, NEW m \in Miners, NEW e \in Envelopes, RegisterMiner(m, e)
  PROVE  IInv'
<1> USE DEF RegisterMiner, orderVars, feederVars, sessionVars
<1>1. TypeOK'
  BY DEF IInv, TypeOK
<1>2. InOnePlace'
  BY DEF IInv, InOnePlace, Placed, Dispatched
<1>3. LiveJobsSound' /\ QueuesFinite' /\ RoundsOrdered'
  BY DEF IInv, LiveJobsSound, QueuesFinite, RoundsOrdered, Sound
<1>4. OrdersAccounted' /\ MinedIsEvidence'
  BY DEF IInv, OrdersAccounted, MinedIsEvidence, Placed, Dispatched
<1>5. QED
  BY <1>1, <1>2, <1>3, <1>4 DEF IInv

\* A drain moves jobs from the queue to the in-flight table or to another
\* miner's queue, and spends a credit for each dispatch only (dispatch_granted).
LEMMA DispatchGrantedIInv ==
  ASSUME IInv, NEW m \in Miners, NEW credits \in Nat, DispatchGranted(m, credits)
  PROVE  IInv'
<1> DEFINE pool == granted_credits[m] + credits
           batch(popped) == {j \in popped : Capable(m, j)}
           moved(popped) == popped \ batch(popped)
<1>1. PICK popped \in SUBSET staged[m] :
        /\ Cardinality(batch(popped)) <= pool
        /\ granted_credits' = [granted_credits EXCEPT ![m] = pool - Cardinality(batch(popped))]
        /\ staged' = [x \in Miners |->
                        IF x = m THEN staged[m] \ popped
                        ELSE staged[x] \union {j \in moved(popped) : RoutesTo(j, {m}, x)}]
        /\ unroutable' = unroutable \union {j \in moved(popped) : Unroutable(j, {m})}
        /\ inflight' = [x \in Miners |->
                          IF x = m THEN inflight[m] \union batch(popped)
                          ELSE inflight[x] \ batch(popped)]
        /\ sent' = [sent EXCEPT ![m] = @ \union batch(popped)]
  BY DEF DispatchGranted
<1>2. UNCHANGED <<registered, caps, unsupported_kinds, topology, salts,
                  mined_generation, orderVars, feederVars, reading>>
  BY DEF DispatchGranted
<1> DEFINE b == batch(popped)
           v == moved(popped)
<1>3. b \subseteq staged[m] /\ v \subseteq staged[m] /\ b \intersect v = {} /\ popped = b \union v
  OBVIOUS
<1>4. IsFiniteSet(b) /\ Cardinality(b) \in Nat
  <2>1. IsFiniteSet(staged[m])
    BY DEF IInv, QueuesFinite
  <2>2. QED
    BY <2>1, <1>3, FS_Subset, FS_CardinalityType
<1>5. /\ \A j, x, y : RoutesTo(j, {m}, x) /\ RoutesTo(j, {m}, y) => x = y
      /\ \A j : \A x : RoutesTo(j, {m}, x) => x \in Miners /\ x # m
      /\ \A j : Unroutable(j, {m}) \/ \E x \in Miners : RoutesTo(j, {m}, x)
  BY Routing DEF IInv
<1> HIDE DEF b, v, batch, moved
<1> USE DEF orderVars, feederVars, sessionVars
<1>6. TypeOK'
  <2>1. granted_credits' \in [Miners -> Nat]
    BY <1>1, <1>4 DEF IInv, TypeOK, b
  <2>2. /\ staged' \in [Miners -> SUBSET Job] /\ inflight' \in [Miners -> SUBSET Job]
        /\ sent' \in [Miners -> SUBSET Job] /\ unroutable' \subseteq Job
    BY <1>1, <1>3 DEF IInv, TypeOK, b, v
  <2>3. QED
    BY <1>2, <2>1, <2>2 DEF IInv, TypeOK
<1>7. InOnePlace'
  <2>1. /\ \A a, k \in Miners : \A j : ~(j \in staged[a] /\ j \in inflight[k])
        /\ \A a, k \in Miners : \A j : j \in staged[a] /\ j \in staged[k] => a = k
        /\ \A a, k \in Miners : \A j : j \in inflight[a] /\ j \in inflight[k] => a = k
    BY DEF IInv, InOnePlace
  <2>2. ASSUME NEW a \in Miners, NEW k \in Miners, NEW j
        PROVE  /\ ~(j \in staged'[a] /\ j \in inflight'[k])
               /\ j \in staged'[a] /\ j \in staged'[k] => a = k
               /\ j \in inflight'[a] /\ j \in inflight'[k] => a = k
    BY <1>1, <1>3, <1>5, <2>1 DEF b, v
  <2>3. ASSUME NEW j \in answering' PROVE ~Placed(j)'
    <3>1. \A a \in Miners : j \notin staged[a] /\ j \notin inflight[a]
      BY <1>2 DEF IInv, InOnePlace, Placed, Dispatched
    <3>2. QED
      BY <1>1, <1>3, <3>1 DEF Placed, Dispatched, b, v
  <2>4. QED
    BY <2>2, <2>3 DEF InOnePlace
<1>8. LiveJobsSound' /\ RoundsOrdered'
  BY <1>1, <1>2, <1>3 DEF IInv, LiveJobsSound, RoundsOrdered, Sound, b, v
<1>9. QueuesFinite'
  <2>1. \A a \in Miners : IsFiniteSet(staged[a]) /\ IsFiniteSet(inflight[a])
    BY DEF IInv, QueuesFinite
  <2>2. IsFiniteSet(v)
    BY <1>3, <2>1, FS_Subset
  <2>3. ASSUME NEW a \in Miners PROVE IsFiniteSet(staged'[a])
    <3>1. staged'[a] \subseteq staged[a] \union v
      BY <1>1 DEF v
    <3>2. QED
      BY <3>1, <2>1, <2>2, FS_Union, FS_Subset
  <2>4. ASSUME NEW a \in Miners PROVE IsFiniteSet(inflight'[a])
    <3>1. inflight'[a] \subseteq inflight[a] \union b
      BY <1>1 DEF b
    <3>2. QED
      BY <3>1, <2>1, <1>4, FS_Union, FS_Subset
  <2>5. QED
    BY <2>3, <2>4 DEF QueuesFinite
<1>10. OrdersAccounted'
  <2>1. ASSUME NEW j, Placed(j) PROVE Placed(j)' \/ j \in unroutable'
    BY <1>1, <1>3, <1>5, <2>1 DEF Placed, Dispatched, b, v
  <2>2. QED
    BY <1>1, <1>2, <2>1 DEF IInv, OrdersAccounted, OrderJob
<1>11. MinedIsEvidence'
  BY <1>1, <1>2 DEF IInv, MinedIsEvidence, TypeOK
<1>12. QED
  BY <1>6, <1>7, <1>8, <1>9, <1>10, <1>11 DEF IInv

\* A capability snapshot only moves queued jobs between queues, or records
\* them as unroutable (update_capabilities).
LEMMA UpdateCapabilitiesIInv ==
  ASSUME IInv, NEW m \in Miners, NEW e \in Envelopes, UpdateCapabilities(m, e)
  PROVE  IInv'
<1> DEFINE v == {j \in staged[m] : ~Capable(m, j)'}
<1>1. /\ staged' = [x \in Miners |->
                      IF x = m THEN staged[m] \ v
                      ELSE staged[x] \union {j \in v : RoutesTo(j, {m}, x)'}]
      /\ unroutable' = unroutable \union {j \in v : Unroutable(j, {m})'}
      /\ caps' = [caps EXCEPT ![m] = e]
      /\ unsupported_kinds' = [unsupported_kinds EXCEPT ![m] = {}]
  BY DEF UpdateCapabilities
<1>2. UNCHANGED <<registered, topology, granted_credits, inflight, salts, mined_generation,
                  orderVars, feederVars, sessionVars>>
  BY DEF UpdateCapabilities
<1>3. v \subseteq staged[m]
  OBVIOUS
<1> HIDE DEF v
<1> USE DEF orderVars, feederVars, sessionVars
<1>4. TypeOK'
  <2>1. staged' \in [Miners -> SUBSET Job] /\ unroutable' \subseteq Job
    BY <1>1, <1>3 DEF IInv, TypeOK
  <2>2. caps' \in [Miners -> Envelopes] /\ unsupported_kinds' \in [Miners -> SUBSET Kinds]
    BY <1>1 DEF IInv, TypeOK
  <2>3. QED
    BY <1>2, <2>1, <2>2 DEF IInv, TypeOK
<1>5. /\ \A j, x, y : RoutesTo(j, {m}, x)' /\ RoutesTo(j, {m}, y)' => x = y
      /\ \A j : \A x : RoutesTo(j, {m}, x)' => x \in Miners /\ x # m
      /\ \A j : Unroutable(j, {m})' \/ \E x \in Miners : RoutesTo(j, {m}, x)'
  BY <1>4, RoutingAfter
<1>6. InOnePlace'
  <2>1. /\ \A a, k \in Miners : \A j : ~(j \in staged[a] /\ j \in inflight[k])
        /\ \A a, k \in Miners : \A j : j \in staged[a] /\ j \in staged[k] => a = k
        /\ \A a, k \in Miners : \A j : j \in inflight[a] /\ j \in inflight[k] => a = k
    BY DEF IInv, InOnePlace
  <2>2. ASSUME NEW a \in Miners, NEW k \in Miners, NEW j
        PROVE  /\ ~(j \in staged'[a] /\ j \in inflight'[k])
               /\ j \in staged'[a] /\ j \in staged'[k] => a = k
               /\ j \in inflight'[a] /\ j \in inflight'[k] => a = k
    BY <1>1, <1>2, <1>3, <1>5, <2>1
  <2>3. ASSUME NEW j \in answering' PROVE ~Placed(j)'
    <3>1. \A a \in Miners : j \notin staged[a] /\ j \notin inflight[a]
      BY <1>2 DEF IInv, InOnePlace, Placed, Dispatched
    <3>2. QED
      BY <1>1, <1>2, <1>3, <3>1 DEF Placed, Dispatched
  <2>4. QED
    BY <2>2, <2>3 DEF InOnePlace
<1>7. LiveJobsSound' /\ RoundsOrdered'
  BY <1>1, <1>2, <1>3 DEF IInv, LiveJobsSound, RoundsOrdered, Sound
<1>8. QueuesFinite'
  <2>1. \A a \in Miners : IsFiniteSet(staged[a]) /\ IsFiniteSet(inflight[a])
    BY DEF IInv, QueuesFinite
  <2>2. IsFiniteSet(v)
    BY <1>3, <2>1, FS_Subset
  <2>3. ASSUME NEW a \in Miners PROVE IsFiniteSet(staged'[a])
    <3>1. staged'[a] \subseteq staged[a] \union v
      BY <1>1
    <3>2. QED
      BY <3>1, <2>1, <2>2, FS_Union, FS_Subset
  <2>4. QED
    BY <1>2, <2>1, <2>3 DEF QueuesFinite
<1>9. OrdersAccounted'
  <2>1. ASSUME NEW j, Placed(j) PROVE Placed(j)' \/ j \in unroutable'
    BY <1>1, <1>2, <1>3, <1>5, <2>1 DEF Placed, Dispatched
  <2>2. QED
    BY <1>1, <1>2, <2>1 DEF IInv, OrdersAccounted, OrderJob
<1>10. MinedIsEvidence'
  BY <1>2 DEF IInv, MinedIsEvidence
<1>11. QED
  BY <1>4, <1>6, <1>7, <1>8, <1>9, <1>10 DEF IInv

\* An order in flight never has the round's generation: its own is 0.
LEMMA OrdersAreNotRoundWork ==
  ASSUME IInv, NEW j, Dispatched(j), j.generation = generation
  PROVE  j.class # "order"
<1>1. Sound(j) /\ generation \in Nat
  BY DEF IInv, LiveJobsSound, Dispatched, TypeOK
<1>2. QED
  BY <1>1 DEF Sound, OrderJob

\* A Result that note_result counts is evidence that the round was mined.
LEMMA NotedResultIsEvidence ==
  ASSUME IInv, NEW m \in Miners, NEW j \in sent[m],
         j.generation = generation => j.class # "order",
         sent' = sent, generation' = generation,
         mined_generation' \in {NotedResult(j), mined_generation}
  PROVE  /\ MinedIsEvidence'
         /\ mined_generation' \subseteq Nat /\ \A g \in mined_generation' : g <= generation
<1>1. generation \in Nat /\ mined_generation \subseteq Nat
  BY DEF IInv, TypeOK
<1>2. MinedIsEvidence'
  BY DEF IInv, MinedIsEvidence, NotedResult
<1>3. QED
  BY <1>1, <1>2 DEF IInv, RoundsOrdered, NotedResult

\* Checking a Result's job against the table changes no table.
LEMMA CheckLeaseIInv ==
  ASSUME IInv, NEW m \in Miners, NEW j \in sent[m], CheckLease(m, j)
  PROVE  IInv'
<1> USE DEF CheckLease, routerVars, orderVars, feederVars
<1>1. TypeOK'
  <2>1. j \in Job /\ Dispatched(j) \in BOOLEAN
    BY DEF IInv, TypeOK, Dispatched
  <2>2. reading' \subseteq Job \X BOOLEAN
    BY <2>1 DEF IInv, TypeOK
  <2>3. QED
    BY <2>2 DEF IInv, TypeOK
<1>2. InOnePlace'
  BY DEF IInv, InOnePlace, Placed, Dispatched
<1>3. LiveJobsSound' /\ QueuesFinite' /\ RoundsOrdered'
  BY DEF IInv, LiveJobsSound, QueuesFinite, RoundsOrdered, Sound
<1>4. OrdersAccounted' /\ MinedIsEvidence'
  BY DEF IInv, OrdersAccounted, MinedIsEvidence, Placed, Dispatched
<1>5. QED
  BY <1>1, <1>2, <1>3, <1>4 DEF IInv

\* A Result completes the job; an order moves on to its submission
\* (the Result arm of run_session).
LEMMA ResultIInv ==
  ASSUME IInv, NEW m \in Miners, NEW j \in sent[m], Result(m, j)
  PROVE  IInv'
<1> USE DEF Result, complete_inflight, routerVars, feederVars, sessionVars
<1>1. TypeOK' /\ MinedIsEvidence' /\ \A g \in mined_generation' : g <= generation
  <2>1. MinedIsEvidence' /\ mined_generation' \subseteq Nat /\ \A g \in mined_generation' : g <= generation
    <3>1. CASE Dispatched(j)
      BY <3>1, NotedResultIsEvidence, OrdersAreNotRoundWork
    <3>2. CASE ~Dispatched(j)
      BY <3>2 DEF IInv, TypeOK, MinedIsEvidence, RoundsOrdered
    <3>3. QED
      BY <3>1, <3>2
  <2>2. j \in Job
    BY DEF IInv, TypeOK
  <2>3. QED
    BY <2>1, <2>2 DEF IInv, TypeOK
<1>2. InOnePlace'
  BY DEF IInv, InOnePlace, Placed, Dispatched
<1>3. LiveJobsSound'
  <2>1. Dispatched(j) => Sound(j)
    BY DEF IInv, LiveJobsSound, Dispatched
  <2>2. QED
    BY <2>1 DEF IInv, LiveJobsSound, Sound
<1>4. RoundsOrdered'
  BY <1>1 DEF IInv, RoundsOrdered
<1>5. QueuesFinite'
  <2>1. \A a \in Miners : IsFiniteSet(staged[a]) /\ IsFiniteSet(inflight[a])
    BY DEF IInv, QueuesFinite
  <2>2. \A a \in Miners : inflight'[a] \subseteq inflight[a]
    OBVIOUS
  <2>3. QED
    BY <2>1, <2>2, FS_Subset DEF QueuesFinite
<1>6. OrdersAccounted'
  <2>1. ASSUME NEW o, Placed(OrderJob(o))
        PROVE  Placed(OrderJob(o))' \/ OrderJob(o) \in answering'
    <3>1. OrderJob(o).class = "order"
      BY DEF OrderJob
    <3>2. QED
      BY <2>1, <3>1 DEF Placed, Dispatched
  <2>2. QED
    BY <2>1 DEF IInv, OrdersAccounted, OrderJob
<1>7. QED
  BY <1>1, <1>2, <1>3, <1>4, <1>5, <1>6 DEF IInv

\* A lease Result leaves the lease in flight (handle_lease_result).
LEMMA LeaseResultIInv ==
  ASSUME IInv, NEW m \in Miners, NEW j \in sent[m], NEW v \in BOOLEAN, LeaseResult(m, j, v)
  PROVE  IInv'
<1> USE DEF LeaseResult, routerVars, orderVars, feederVars, sessionVars
<1>1. MinedIsEvidence' /\ mined_generation' \subseteq Nat /\ \A g \in mined_generation' : g <= generation
  BY NotedResultIsEvidence
<1>2. TypeOK'
  BY <1>1 DEF IInv, TypeOK
<1>3. InOnePlace'
  BY DEF IInv, InOnePlace, Placed, Dispatched
<1>4. LiveJobsSound' /\ QueuesFinite'
  BY DEF IInv, LiveJobsSound, QueuesFinite, Sound
<1>5. RoundsOrdered'
  BY <1>1 DEF IInv, RoundsOrdered
<1>6. OrdersAccounted'
  BY DEF IInv, OrdersAccounted, Placed, Dispatched
<1>7. QED
  BY <1>1, <1>2, <1>3, <1>4, <1>5, <1>6 DEF IInv

\* LeaseDone retires the lease, which is never an order (handle_lease_done).
LEMMA LeaseDoneIInv ==
  ASSUME IInv, NEW m \in Miners, NEW j \in sent[m], NEW s \in Nat, LeaseDone(m, j, s)
  PROVE  IInv'
<1> USE DEF LeaseDone, complete_inflight, routerVars, orderVars, feederVars, sessionVars
<1>1. MinedIsEvidence' /\ mined_generation' \subseteq Nat /\ \A g \in mined_generation' : g <= generation
  BY NotedResultIsEvidence
<1>2. TypeOK'
  BY <1>1 DEF IInv, TypeOK
<1>3. InOnePlace'
  BY DEF IInv, InOnePlace, Placed, Dispatched
<1>4. LiveJobsSound'
  BY DEF IInv, LiveJobsSound, Sound
<1>5. QueuesFinite'
  <2>1. \A a \in Miners : IsFiniteSet(staged[a]) /\ IsFiniteSet(inflight[a])
    BY DEF IInv, QueuesFinite
  <2>2. \A a \in Miners : inflight'[a] \subseteq inflight[a]
    OBVIOUS
  <2>3. QED
    BY <2>1, <2>2, FS_Subset DEF QueuesFinite
<1>6. RoundsOrdered'
  BY <1>1 DEF IInv, RoundsOrdered
<1>7. OrdersAccounted'
  <2>1. ASSUME NEW o, Placed(OrderJob(o)) PROVE Placed(OrderJob(o))'
    <3>1. OrderJob(o).class = "order"
      BY DEF OrderJob
    <3>2. OrderJob(o) # j
      BY <3>1
    <3>3. QED
      BY <2>1, <3>2 DEF Placed, Dispatched
  <2>2. QED
    BY <2>1 DEF IInv, OrdersAccounted, OrderJob
<1>8. QED
  BY <1>1, <1>2, <1>3, <1>4, <1>5, <1>6, <1>7 DEF IInv

\* A rejected job moves to one other miner's queue or becomes unroutable
\* (on_reject).
LEMMA RejectIInv ==
  ASSUME IInv, NEW m \in Miners, NEW j \in sent[m], NEW u \in BOOLEAN, Reject(m, j, u)
  PROVE  IInv'
<1> USE DEF Reject, complete_inflight, orderVars, feederVars, sessionVars
<1>1. /\ \A x, y : RoutesTo(j, {m}, x) /\ RoutesTo(j, {m}, y) => x = y
      /\ Unroutable(j, {m}) \/ \E x \in Miners : RoutesTo(j, {m}, x)
  BY Routing DEF IInv
<1>2. j \in Job /\ Kind(j) \in Kinds /\ Sound(j)
  BY DEF IInv, TypeOK, LiveJobsSound, Dispatched, Kind, Kinds
<1>3. TypeOK'
  <2>1. unsupported_kinds' \in [Miners -> SUBSET Kinds]
    BY <1>2 DEF IInv, TypeOK
  <2>2. /\ staged' \in [Miners -> SUBSET Job] /\ inflight' \in [Miners -> SUBSET Job]
        /\ unroutable' \subseteq Job
    BY <1>2 DEF IInv, TypeOK
  <2>3. QED
    BY <2>1, <2>2 DEF IInv, TypeOK
<1>4. InOnePlace'
  <2>1. /\ \A a, k \in Miners : \A i : ~(i \in staged[a] /\ i \in inflight[k])
        /\ \A a, k \in Miners : \A i : i \in staged[a] /\ i \in staged[k] => a = k
        /\ \A a, k \in Miners : \A i : i \in inflight[a] /\ i \in inflight[k] => a = k
        /\ \A i \in answering : \A a \in Miners : i \notin staged[a] /\ i \notin inflight[a]
    BY DEF IInv, InOnePlace, Placed, Dispatched
  <2>2. \A a \in Miners : j \notin staged[a]
    BY <2>1 DEF Dispatched
  <2>3. ASSUME NEW a \in Miners, NEW k \in Miners, NEW i
        PROVE  /\ ~(i \in staged'[a] /\ i \in inflight'[k])
               /\ i \in staged'[a] /\ i \in staged'[k] => a = k
               /\ i \in inflight'[a] /\ i \in inflight'[k] => a = k
    BY <1>1, <2>1, <2>2
  <2>4. j \notin answering
    BY <2>1 DEF Dispatched
  <2>5. ASSUME NEW i \in answering' PROVE ~Placed(i)'
    BY <2>1, <2>4 DEF Placed, Dispatched
  <2>6. QED
    BY <2>3, <2>5 DEF InOnePlace
<1>5. LiveJobsSound' /\ RoundsOrdered'
  BY <1>2 DEF IInv, LiveJobsSound, RoundsOrdered, Sound
<1>6. QueuesFinite'
  <2>1. \A a \in Miners : IsFiniteSet(staged[a]) /\ IsFiniteSet(inflight[a])
    BY DEF IInv, QueuesFinite
  <2>2. \A a \in Miners : /\ inflight'[a] \subseteq inflight[a]
                          /\ staged'[a] \subseteq staged[a] \union {j}
    OBVIOUS
  <2>3. QED
    BY <2>1, <2>2, FS_Subset, FS_Singleton, FS_Union DEF QueuesFinite
<1>7. OrdersAccounted'
  <2>1. ASSUME NEW i, Placed(i) PROVE Placed(i)' \/ i \in unroutable'
    BY <1>1, <2>1 DEF Placed, Dispatched
  <2>2. QED
    BY <2>1 DEF IInv, OrdersAccounted, OrderJob
<1>8. MinedIsEvidence'
  BY DEF IInv, MinedIsEvidence
<1>9. QED
  BY <1>3, <1>4, <1>5, <1>6, <1>7, <1>8 DEF IInv

\* A delivered order is settled; a failed delivery forgets it, and no copy of
\* it is left behind (submit_mempool_result).
LEMMA AnswerOrderIInv ==
  ASSUME IInv, NEW j \in answering, NEW d \in BOOLEAN, AnswerOrder(j, d)
  PROVE  IInv'
<1> USE DEF AnswerOrder, routerVars, feederVars, sessionVars
<1>1. j = OrderJob(j.id) /\ j.id \in mempool_orders /\ ~Placed(j)
  BY DEF IInv, LiveJobsSound, Sound, InOnePlace
<1>2. TypeOK'
  BY <1>1 DEF IInv, TypeOK
<1>3. InOnePlace'
  BY DEF IInv, InOnePlace, Placed, Dispatched
<1>4. LiveJobsSound'
  <2>1. ASSUME NEW i, Sound(i), i # j PROVE Sound(i)'
    BY <1>1, <2>1 DEF Sound
  <2>2. \A a \in Miners : j \notin staged[a] /\ j \notin inflight[a]
    BY <1>1 DEF Placed, Dispatched
  <2>3. QED
    BY <2>1, <2>2 DEF IInv, LiveJobsSound
<1>5. QueuesFinite' /\ RoundsOrdered' /\ MinedIsEvidence'
  BY DEF IInv, QueuesFinite, RoundsOrdered, MinedIsEvidence
<1>6. OrdersAccounted'
  <2>1. ASSUME NEW o \in mempool_orders, o # j.id PROVE OrderJob(o) # j
    <3>1. OrderJob(o).id = o
      BY DEF OrderJob
    <3>2. QED
      BY <2>1, <3>1
  <2>2. \A o : Placed(OrderJob(o))' <=> Placed(OrderJob(o))
    BY DEF Placed, Dispatched, OrderJob
  <2>3. \A o \in mempool_orders' : o = j.id => o \in settled'
    BY <1>1
  <2>4. QED
    BY <2>1, <2>2, <2>3 DEF IInv, OrdersAccounted, OrderJob
<1>7. QED
  BY <1>2, <1>3, <1>4, <1>5, <1>6 DEF IInv

\* A crash re-queues what the miner held, each job once (supervise_miner,
\* reclaim_miner).
LEMMA MinerExitIInv ==
  ASSUME IInv, NEW m \in Miners, MinerExit(m)
  PROVE  IInv'
<1> DEFINE v == inflight[m] \union staged[m]
<1>1. /\ granted_credits' = [granted_credits EXCEPT ![m] = 0]
      /\ inflight' = [inflight EXCEPT ![m] = {}]
      /\ staged' = [x \in Miners |->
                      (IF x = m THEN {} ELSE staged[x])
                        \union {j \in v : RoutesTo(j, {}, x)}]
      /\ unroutable' = unroutable \union {j \in v : Unroutable(j, {})}
  BY DEF MinerExit, Reclaimed
<1>2. UNCHANGED <<registered, caps, unsupported_kinds, topology, salts,
                  mined_generation, orderVars, feederVars, sessionVars>>
  BY DEF MinerExit
<1>3. /\ \A j, x, y : RoutesTo(j, {}, x) /\ RoutesTo(j, {}, y) => x = y
      /\ \A j : Unroutable(j, {}) \/ \E x \in Miners : RoutesTo(j, {}, x)
  BY Routing DEF IInv
<1>4. inflight \in [Miners -> SUBSET Job] /\ staged \in [Miners -> SUBSET Job]
  BY DEF IInv, TypeOK
<1> USE DEF orderVars, feederVars, sessionVars
<1>5. TypeOK'
  <2>1. /\ staged' \in [Miners -> SUBSET Job] /\ inflight' \in [Miners -> SUBSET Job]
        /\ unroutable' \subseteq Job /\ granted_credits' \in [Miners -> Nat]
    BY <1>1, <1>4 DEF IInv, TypeOK
  <2>2. QED
    BY <1>2, <2>1 DEF IInv, TypeOK
<1>6. InOnePlace'
  <2>1. /\ \A a, k \in Miners : \A j : ~(j \in staged[a] /\ j \in inflight[k])
        /\ \A a, k \in Miners : \A j : j \in staged[a] /\ j \in staged[k] => a = k
        /\ \A a, k \in Miners : \A j : j \in inflight[a] /\ j \in inflight[k] => a = k
        /\ \A j \in answering : \A a \in Miners : j \notin staged[a] /\ j \notin inflight[a]
    BY DEF IInv, InOnePlace, Placed, Dispatched
  <2>2. ASSUME NEW a \in Miners, NEW k \in Miners, NEW j
        PROVE  /\ ~(j \in staged'[a] /\ j \in inflight'[k])
               /\ j \in staged'[a] /\ j \in staged'[k] => a = k
               /\ j \in inflight'[a] /\ j \in inflight'[k] => a = k
    BY <1>1, <1>3, <1>4, <2>1
  <2>3. ASSUME NEW j \in answering' PROVE ~Placed(j)'
    BY <1>1, <1>2, <1>4, <2>1 DEF Placed, Dispatched
  <2>4. QED
    BY <2>2, <2>3 DEF InOnePlace
<1>7. LiveJobsSound' /\ RoundsOrdered'
  BY <1>1, <1>2, <1>4 DEF IInv, LiveJobsSound, RoundsOrdered, Sound
<1>8. QueuesFinite'
  <2>1. \A a \in Miners : IsFiniteSet(staged[a]) /\ IsFiniteSet(inflight[a])
    BY DEF IInv, QueuesFinite
  <2>2. IsFiniteSet(v)
    BY <2>1, FS_Union
  <2> HIDE DEF v
  <2>3. ASSUME NEW a \in Miners PROVE IsFiniteSet(staged'[a]) /\ IsFiniteSet(inflight'[a])
    <3>1. staged'[a] \subseteq staged[a] \union v /\ inflight'[a] \subseteq inflight[a]
      BY <1>1, <1>4
    <3>2. QED
      BY <3>1, <2>1, <2>2, FS_Union, FS_Subset
  <2>4. QED
    BY <2>3 DEF QueuesFinite
<1>9. OrdersAccounted'
  <2>1. ASSUME NEW j, Placed(j) PROVE Placed(j)' \/ j \in unroutable'
    <3>1. CASE j \in v
      BY <1>1, <1>3, <3>1 DEF Placed, Dispatched
    <3>2. CASE j \notin v
      BY <1>1, <1>4, <2>1, <3>2 DEF Placed, Dispatched
    <3>3. QED
      BY <3>1, <3>2
  <2>2. QED
    BY <1>1, <1>2, <2>1 DEF IInv, OrdersAccounted, OrderJob
<1>10. MinedIsEvidence'
  BY <1>2 DEF IInv, MinedIsEvidence
<1>11. QED
  BY <1>5, <1>6, <1>7, <1>8, <1>9, <1>10 DEF IInv

\* Entering a generation drops every PoW job and salt and keeps every order
\* (stop_mining).
LEMMA StopMiningIInv ==
  ASSUME IInv, stop_mining, phase' \in {"walking", "awaiting"}
  PROVE  IInv'
<1> USE DEF stop_mining, Retained, orderVars, sessionVars
<1>1. generation \in Nat /\ mined_generation \subseteq Nat
  BY DEF IInv, TypeOK
<1>2. TypeOK'
  BY DEF IInv, TypeOK
<1>3. InOnePlace'
  BY DEF IInv, InOnePlace, Placed, Dispatched
<1>4. LiveJobsSound'
  <2>1. ASSUME NEW j, Sound(j), j.generation = 0 \/ j.generation > generation
        PROVE  Sound(j)'
    BY <1>1, <2>1 DEF Sound
  <2>2. ASSUME NEW j, Sound(j), j.class = "order" PROVE Sound(j)'
    BY <1>1, <2>2 DEF Sound
  <2>3. QED
    BY <2>1, <2>2 DEF IInv, LiveJobsSound
<1>5. QueuesFinite'
  <2>1. \A a \in Miners : IsFiniteSet(staged[a]) /\ IsFiniteSet(inflight[a])
    BY DEF IInv, QueuesFinite
  <2>2. \A a \in Miners : inflight'[a] \subseteq inflight[a] /\ staged'[a] \subseteq staged[a]
    OBVIOUS
  <2>3. QED
    BY <2>1, <2>2, FS_Subset DEF QueuesFinite
<1>6. RoundsOrdered'
  BY <1>1 DEF IInv, RoundsOrdered
<1>7. OrdersAccounted'
  <2>1. ASSUME NEW o, Placed(OrderJob(o)) PROVE Placed(OrderJob(o))'
    <3>1. OrderJob(o).generation = 0
      BY DEF OrderJob
    <3>2. QED
      BY <2>1, <3>1 DEF Placed, Dispatched
  <2>2. QED
    BY <2>1 DEF IInv, OrdersAccounted, OrderJob
<1>8. MinedIsEvidence'
  BY <1>1 DEF IInv, MinedIsEvidence, RoundsOrdered
<1>9. QED
  BY <1>2, <1>3, <1>4, <1>5, <1>6, <1>7, <1>8 DEF IInv

\* StartMining installs the graph and moves no job (drive_to_mining).
LEMMA StartMiningIInv ==
  ASSUME IInv, NEW t \in Topologies, StartMining(t)
  PROVE  IInv'
<1> USE DEF StartMining, orderVars, sessionVars
<1>1. TypeOK'
  BY DEF IInv, TypeOK
<1>2. InOnePlace'
  BY DEF IInv, InOnePlace, Placed, Dispatched
<1>3. LiveJobsSound' /\ QueuesFinite' /\ RoundsOrdered'
  BY DEF IInv, LiveJobsSound, QueuesFinite, RoundsOrdered, Sound
<1>4. OrdersAccounted' /\ MinedIsEvidence'
  BY DEF IInv, OrdersAccounted, MinedIsEvidence, Placed, Dispatched
<1>5. QED
  BY <1>1, <1>2, <1>3, <1>4 DEF IInv

\* A top-up draws salts no queued or in-flight job has, each for one miner
\* (the staging loop of feeder_loop).
LEMMA TopUpIInv ==
  ASSUME IInv, NEW depth, TopUp(depth)
  PROVE  IInv'
<1>1. PICK fresh \in [registered -> SUBSET (salt_ctr + 1 .. MaxSalt)] :
        /\ \A a, b \in registered : a < b => \A n \in fresh[a], k \in fresh[b] : n < k
        /\ salt_ctr' \in salt_ctr .. MaxSalt
        /\ UNION {fresh[m] : m \in registered} = salt_ctr + 1 .. salt_ctr'
        /\ staged' = [m \in Miners |->
                        IF m \in registered /\ Stageable(m)
                        THEN staged[m] \union {PowJob(m, n) : n \in fresh[m]} ELSE staged[m]]
        /\ salts' = salts \union
             UNION {{PowJob(m, n) : n \in fresh[m]} :
                      m \in {k \in registered : Stageable(k) /\ PowClass(k) = "sample"}}
  BY DEF TopUp
<1>2. UNCHANGED <<registered, caps, unsupported_kinds, granted_credits, unroutable,
                  topology, inflight, mined_generation, orderVars, generation, phase, sessionVars>>
  BY DEF TopUp
<1>3. phase = "mining" /\ generation > 0
  BY DEF TopUp, IInv, RoundsOrdered
<1> USE DEF orderVars, sessionVars
<1>4. salt_ctr \in Nat /\ generation \in Nat /\ MaxSalt \in Nat /\ registered \subseteq Nat
  BY JobFlowConstants DEF IInv, TypeOK
<1>5. ASSUME NEW m \in registered, NEW n \in fresh[m]
      PROVE  n \in Nat /\ salt_ctr < n /\ n <= salt_ctr'
  <2>1. n \in salt_ctr + 1 .. salt_ctr'
    BY <1>1
  <2>2. QED
    BY <1>1, <1>4, <2>1
<1>6. \A m, n : /\ PowJob(m, n).id = n /\ PowJob(m, n).generation = generation
                /\ PowJob(m, n).class \in Classes /\ PowJob(m, n).class # "order"
  BY DEF PowJob, PowClass, Classes
<1>7. \A m, n : n \in Nat => PowJob(m, n) \in Job
  BY <1>4 DEF PowJob, PowClass, Classes, Job
<1> HIDE DEF PowJob
<1>8. \A x, y \in registered : \A n \in fresh[x], k \in fresh[y] : n = k => x = y
  BY <1>1, <1>4, <1>5
<1>9. TypeOK'
  <2>1. staged' \in [Miners -> SUBSET Job]
    BY <1>1, <1>5, <1>7 DEF IInv, TypeOK
  <2>2. salts' \subseteq Job
    BY <1>1, <1>5, <1>7 DEF IInv, TypeOK
  <2>3. salt_ctr' \in Nat
    BY <1>1, <1>4
  <2>4. QED
    BY <1>2, <2>1, <2>2, <2>3 DEF IInv, TypeOK
<1>10. \A m \in registered : \A n \in fresh[m] : ~Placed(PowJob(m, n)) /\ PowJob(m, n) \notin answering
  <2>1. ASSUME NEW m \in registered, NEW n \in fresh[m], Sound(PowJob(m, n)) PROVE FALSE
    BY <1>4, <1>5, <1>6, <2>1 DEF Sound
  <2>2. QED
    BY <2>1 DEF IInv, LiveJobsSound, Placed, Dispatched
<1>11. InOnePlace'
  <2>1. /\ \A a, k \in Miners : \A i : ~(i \in staged[a] /\ i \in inflight[k])
        /\ \A a, k \in Miners : \A i : i \in staged[a] /\ i \in staged[k] => a = k
        /\ \A a, k \in Miners : \A i : i \in inflight[a] /\ i \in inflight[k] => a = k
        /\ \A i \in answering : \A a \in Miners : i \notin staged[a] /\ i \notin inflight[a]
    BY DEF IInv, InOnePlace, Placed, Dispatched
  <2>2. ASSUME NEW a \in Miners, NEW i \in staged'[a]
        PROVE  i \in staged[a] \/ (a \in registered /\ \E n \in fresh[a] : i = PowJob(a, n))
    BY <1>1
  <2>3. ASSUME NEW m \in registered, NEW n \in fresh[m], NEW a \in Miners
        PROVE  PowJob(m, n) \notin staged[a] /\ PowJob(m, n) \notin inflight[a]
               /\ PowJob(m, n) \notin answering
    BY <1>10 DEF Placed, Dispatched
  <2>4. ASSUME NEW a \in Miners, NEW k \in Miners, NEW i, i \in staged'[a], i \in staged'[k]
        PROVE  a = k
    <3>1. CASE i \in staged[a]
      BY <2>1, <2>2, <2>3, <2>4, <3>1
    <3>2. CASE i \notin staged[a]
      <4>1. PICK n \in fresh[a] : a \in registered /\ i = PowJob(a, n)
        BY <2>2, <2>4, <3>2
      <4>2. PICK q \in fresh[k] : k \in registered /\ i = PowJob(k, q)
        BY <2>2, <2>3, <2>4, <4>1
      <4>3. n = q
        <5>1. PowJob(a, n).id = n /\ PowJob(k, q).id = q
          BY <1>6
        <5>2. QED
          BY <4>1, <4>2, <5>1
      <4>4. QED
        BY <1>8, <4>1, <4>2, <4>3
    <3>3. QED
      BY <3>1, <3>2
  <2>5. \A a, k \in Miners : \A i : ~(i \in staged'[a] /\ i \in inflight'[k])
    BY <1>2, <2>1, <2>2, <2>3
  <2>6. ASSUME NEW i \in answering' PROVE ~Placed(i)'
    BY <1>2, <2>1, <2>2, <2>3 DEF Placed, Dispatched
  <2>7. QED
    BY <1>2, <2>1, <2>4, <2>5, <2>6 DEF InOnePlace
<1>12. LiveJobsSound'
  <2>1. ASSUME NEW i \in Job, Sound(i) PROVE Sound(i)'
    <3>1. i.id \in Nat
      BY DEF Job
    <3>2. salt_ctr <= salt_ctr' /\ salt_ctr' \in Nat
      BY <1>1, <1>4
    <3>3. QED
      BY <1>2, <1>4, <2>1, <3>1, <3>2 DEF Sound
  <2>3. ASSUME NEW m \in registered, NEW n \in fresh[m], NEW i, i = PowJob(m, n) PROVE Sound(i)'
    <3>1. i.id = n /\ i.generation = generation /\ i.class # "order"
      BY <1>6, <2>3
    <3>2. QED
      BY <1>2, <1>3, <1>5, <3>1 DEF Sound
  <2>4. \A a \in Miners : \A i \in staged[a] \union inflight[a] : i \in Job /\ Sound(i)
    BY DEF IInv, LiveJobsSound, TypeOK
  <2>5. \A i \in answering : i \in Job /\ Sound(i) /\ i.class = "order"
    BY DEF IInv, LiveJobsSound, TypeOK
  <2>6. ASSUME NEW a \in Miners, NEW i \in staged'[a] \union inflight'[a] PROVE Sound(i)'
    <3>1. i \in staged[a] \union inflight[a] \/ (a \in registered /\ \E n \in fresh[a] : i = PowJob(a, n))
      BY <1>1, <1>2
    <3>2. QED
      BY <2>1, <2>3, <2>4, <3>1
  <2>7. QED
    BY <1>2, <2>1, <2>5, <2>6 DEF LiveJobsSound
<1>13. QueuesFinite'
  <2>1. \A a \in Miners : IsFiniteSet(staged[a]) /\ IsFiniteSet(inflight[a])
    BY DEF IInv, QueuesFinite
  <2>2. ASSUME NEW a \in registered PROVE IsFiniteSet({PowJob(a, n) : n \in fresh[a]})
    <3>1. IsFiniteSet(salt_ctr + 1 .. MaxSalt)
      BY <1>4, FS_Interval
    <3>2. IsFiniteSet(fresh[a])
      BY <3>1, FS_Subset
    <3>3. QED
      BY <3>2, FinitePowJobs
  <2>3. ASSUME NEW a \in Miners PROVE IsFiniteSet(staged'[a])
    <3>1. CASE a \in registered /\ Stageable(a)
      <4>1. staged'[a] = staged[a] \union {PowJob(a, n) : n \in fresh[a]}
        BY <1>1, <3>1
      <4>2. IsFiniteSet(staged[a]) /\ IsFiniteSet({PowJob(a, n) : n \in fresh[a]})
        BY <2>1, <2>2, <3>1
      <4>3. QED
        BY ONLY <4>1, <4>2, FS_Union
    <3>2. CASE ~(a \in registered /\ Stageable(a))
      BY <1>1, <2>1, <3>2
    <3>3. QED
      BY <3>1, <3>2
  <2>4. QED
    BY <1>2, <2>1, <2>3 DEF QueuesFinite
<1>14. RoundsOrdered'
  <2>1. \A i \in salts' : i.generation = generation
    BY <1>1, <1>6 DEF IInv, RoundsOrdered
  <2>2. QED
    BY <1>2, <2>1 DEF IInv, RoundsOrdered
<1>15. OrdersAccounted'
  <2>1. ASSUME NEW i, Placed(i) PROVE Placed(i)'
    BY <1>1, <1>2, <2>1 DEF Placed, Dispatched
  <2>2. QED
    BY <1>2, <2>1 DEF IInv, OrdersAccounted, OrderJob
<1>16. MinedIsEvidence'
  BY <1>2 DEF IInv, MinedIsEvidence
<1>17. QED
  BY <1>9, <1>11, <1>12, <1>13, <1>14, <1>15, <1>16 DEF IInv

\* An order enters the queues once: while the book holds it, it is not staged
\* again (stage_mempool_orders).
LEMMA StageMempoolOrdersIInv ==
  ASSUME IInv, NEW open \in SUBSET Orders, NEW malformed \in SUBSET open,
         StageMempoolOrders(open, malformed)
  PROVE  IInv'
<1> DEFINE new  == open \ mempool_orders
           jobs == {OrderJob(o) : o \in new \ malformed}
<1>1. /\ mempool_orders' = mempool_orders \union new
      /\ settled' = settled \union (new \intersect malformed)
      /\ staged' = [m \in Miners |-> staged[m] \union {j \in jobs : RoutesTo(j, {}, m)}]
      /\ unroutable' = unroutable \union {j \in jobs : Unroutable(j, {})}
  BY DEF StageMempoolOrders, Unstaged
<1>2. UNCHANGED <<registered, caps, unsupported_kinds, granted_credits, topology,
                  inflight, salts, mined_generation, answering, feederVars, sessionVars>>
  BY DEF StageMempoolOrders
<1> USE DEF feederVars, sessionVars
<1>3. phase = "mining" /\ generation \in Nat /\ generation > 0
  BY DEF StageMempoolOrders, IInv, RoundsOrdered, TypeOK
<1>4. /\ \A j, x, y : RoutesTo(j, {}, x) /\ RoutesTo(j, {}, y) => x = y
      /\ \A j : Unroutable(j, {}) \/ \E x \in Miners : RoutesTo(j, {}, x)
  BY Routing DEF IInv
<1>5. new \subseteq Orders /\ jobs \subseteq Job
  <2>1. \A o \in Orders : OrderJob(o) \in Job
    BY JobFlowConstants DEF OrderJob, Job, Classes
  <2>2. QED
    BY <2>1
<1>6. \A j \in jobs : j = OrderJob(j.id) /\ j.class = "order" /\ j.id \in new
  BY DEF OrderJob
<1>7. \A j \in jobs : ~Placed(j) /\ j \notin answering
  <2>1. ASSUME NEW j \in jobs, Sound(j) PROVE FALSE
    BY <1>6, <2>1 DEF Sound
  <2>2. QED
    BY <2>1 DEF IInv, LiveJobsSound, Placed, Dispatched
<1>8. \A o \in new \ malformed : OrderJob(o) \in jobs
  OBVIOUS
<1>9. IsFiniteSet(jobs)
  <2>1. IsFiniteSet(new \ malformed)
    BY <1>5, JobFlowConstants, FS_Subset
  <2>2. QED
    BY <2>1, FiniteOrderJobs
<1> HIDE DEF jobs
<1>10. TypeOK'
  BY <1>1, <1>2, <1>5 DEF IInv, TypeOK
<1>11. InOnePlace'
  <2>1. /\ \A a, k \in Miners : \A i : ~(i \in staged[a] /\ i \in inflight[k])
        /\ \A a, k \in Miners : \A i : i \in staged[a] /\ i \in staged[k] => a = k
        /\ \A a, k \in Miners : \A i : i \in inflight[a] /\ i \in inflight[k] => a = k
        /\ \A i \in answering : \A a \in Miners : i \notin staged[a] /\ i \notin inflight[a]
    BY DEF IInv, InOnePlace, Placed, Dispatched
  <2>2. \A j \in jobs : \A a \in Miners : j \notin staged[a] /\ j \notin inflight[a]
    BY <1>7 DEF Placed, Dispatched
  <2>3. ASSUME NEW a \in Miners, NEW k \in Miners, NEW i
        PROVE  /\ ~(i \in staged'[a] /\ i \in inflight'[k])
               /\ i \in staged'[a] /\ i \in staged'[k] => a = k
               /\ i \in inflight'[a] /\ i \in inflight'[k] => a = k
    BY <1>1, <1>2, <1>4, <2>1, <2>2
  <2>4. ASSUME NEW i \in answering' PROVE ~Placed(i)'
    BY <1>1, <1>2, <1>7, <2>1 DEF Placed, Dispatched
  <2>5. QED
    BY <2>3, <2>4 DEF InOnePlace
<1>12. LiveJobsSound'
  <2>1. ASSUME NEW j, Sound(j) PROVE Sound(j)'
    BY <1>1, <1>2, <2>1 DEF Sound
  <2>2. ASSUME NEW j \in jobs PROVE Sound(j)'
    BY <1>1, <1>2, <1>3, <1>6 DEF Sound
  <2>3. \A a \in Miners : \A i \in staged'[a] : i \in staged[a] \/ i \in jobs
    BY <1>1
  <2>4. QED
    BY <1>2, <2>1, <2>2, <2>3 DEF IInv, LiveJobsSound
<1>13. QueuesFinite'
  <2>1. \A a \in Miners : IsFiniteSet(staged[a]) /\ IsFiniteSet(inflight[a])
    BY DEF IInv, QueuesFinite
  <2>2. ASSUME NEW a \in Miners PROVE IsFiniteSet(staged'[a])
    <3>1. staged'[a] \subseteq staged[a] \union jobs
      BY <1>1
    <3>2. QED
      BY <1>9, <2>1, <3>1, FS_Union, FS_Subset
  <2>3. QED
    BY <1>2, <2>1, <2>2 DEF QueuesFinite
<1>14. RoundsOrdered' /\ MinedIsEvidence'
  BY <1>2 DEF IInv, RoundsOrdered, MinedIsEvidence
<1>15. OrdersAccounted'
  <2>1. ASSUME NEW j, Placed(j) \/ j \in jobs PROVE Placed(j)' \/ j \in unroutable'
    BY <1>1, <1>2, <1>4, <2>1 DEF Placed, Dispatched
  <2>2. ASSUME NEW o \in new
        PROVE  Placed(OrderJob(o))' \/ OrderJob(o) \in unroutable' \/ o \in settled'
    BY <1>1, <1>8, <2>1, <2>2
  <2>3. ASSUME NEW o \in mempool_orders
        PROVE  \/ Placed(OrderJob(o))' \/ OrderJob(o) \in answering' \union unroutable'
               \/ o \in settled'
    BY <1>1, <1>2, <2>1 DEF IInv, OrdersAccounted
  <2>4. QED
    BY <1>1, <2>2, <2>3 DEF OrdersAccounted, OrderJob
<1>16. QED
  BY <1>10, <1>11, <1>12, <1>13, <1>14, <1>15 DEF IInv
-----------------------------------------------------------------------------
\* Every step of a session, a supervisor, a submission or the feeder preserves
\* the inductive invariant.
LEMMA NextIInv == IInv /\ [Next]_vars => IInv'
<1> SUFFICES ASSUME IInv, [Next]_vars PROVE IInv'
  OBVIOUS
<1>1. ASSUME NEW m \in Miners, SessionStep(m) PROVE IInv'
  <2>1. ASSUME NEW e \in Envelopes, RegisterMiner(m, e) \/ UpdateCapabilities(m, e)
        PROVE  IInv'
    BY <2>1, RegisterMinerIInv, UpdateCapabilitiesIInv
  <2>2. ASSUME NEW c \in 0 .. MaxGrant, DispatchGranted(m, c) PROVE IInv'
    BY <2>2, DispatchGrantedIInv
  <2>3. ASSUME NEW j \in sent[m], CheckLease(m, j) \/ Result(m, j) PROVE IInv'
    BY <2>3, CheckLeaseIInv, ResultIInv
  <2>7. ASSUME NEW j \in sent[m], NEW v \in BOOLEAN, LeaseResult(m, j, v) PROVE IInv'
    BY <2>7, LeaseResultIInv
  <2>4. ASSUME NEW j \in sent[m], NEW s \in 0 .. 1, LeaseDone(m, j, s) PROVE IInv'
    BY <2>4, LeaseDoneIInv
  <2>5. ASSUME NEW j \in sent[m], NEW u \in BOOLEAN, Reject(m, j, u) PROVE IInv'
    BY <2>5, RejectIInv
  <2>6. QED
    BY <1>1, <2>1, <2>2, <2>3, <2>4, <2>5, <2>7 DEF SessionStep
<1>2. ASSUME NEW m \in Miners, MinerExit(m) PROVE IInv'
  BY <1>2, MinerExitIInv
<1>3. ASSUME NEW j \in answering, NEW d \in BOOLEAN, AnswerOrder(j, d) PROVE IInv'
  BY <1>3, AnswerOrderIInv
<1>4. ASSUME FeederStep PROVE IInv'
  <2>1. CASE BeginRound \/ WinPending
    BY <2>1, StopMiningIInv DEF BeginRound, WinPending
  <2>2. ASSUME NEW t \in Topologies, StartMining(t) PROVE IInv'
    BY <2>2, StartMiningIInv
  <2>3. ASSUME NEW depth, TopUp(depth) PROVE IInv'
    BY <2>3, TopUpIInv
  <2>4. ASSUME NEW open \in SUBSET Orders, NEW malformed \in SUBSET open,
               StageMempoolOrders(open, malformed)
        PROVE  IInv'
    BY <2>4, StageMempoolOrdersIInv
  <2>5. QED
    BY <1>4, <2>1, <2>2, <2>3, <2>4 DEF FeederStep
<1>5. CASE UNCHANGED vars
  <2> USE <1>5 DEF vars, routerVars, orderVars, feederVars, sessionVars
  <2>1. TypeOK'
    BY DEF IInv, TypeOK
  <2>2. InOnePlace' /\ OrdersAccounted' /\ MinedIsEvidence'
    BY DEF IInv, InOnePlace, OrdersAccounted, MinedIsEvidence, Placed, Dispatched
  <2>3. LiveJobsSound' /\ QueuesFinite' /\ RoundsOrdered'
    BY DEF IInv, LiveJobsSound, QueuesFinite, RoundsOrdered, Sound
  <2>4. QED
    BY <2>1, <2>2, <2>3 DEF IInv
<1>6. QED
  BY <1>1, <1>2, <1>3, <1>4, <1>5 DEF Next

\* The inductive invariant holds in every reachable state.
THEOREM Invariance == Spec => []IInv
  BY InitIInv, NextIInv, PTL DEF Spec

\* Queues, tables and counters keep their shape, and no credit pool is ever
\* overdrawn (next_job spends a credit only while one is left).
THEOREM TypeCorrect == Spec => []TypeOK
<1>1. IInv => TypeOK
  BY DEF IInv
<1>2. QED
  BY <1>1, Invariance, PTL

\* No interleaving of crashes, rejects, capability changes, rounds and answers
\* leaves a job in two places (reclaim_miner, on_reject, update_capabilities).
THEOREM JobsInOnePlace == Spec => []SinglePlacement
<1>1. IInv => SinglePlacement
  BY DEF IInv, SinglePlacement
<1>2. QED
  BY <1>1, Invariance, PTL

\* Work of an earlier generation never survives stop_mining or comes back.
THEOREM NoWorkOfEarlierRounds == Spec => []NoStaleWork
<1>1. IInv => NoStaleWork
  <2>1. ASSUME IInv, NEW m \in Miners, NEW j \in staged[m] \union inflight[m], j.generation # 0
        PROVE  j.generation = generation /\ phase = "mining"
    <3>1. Sound(j)
      BY <2>1 DEF IInv, LiveJobsSound
    <3>2. QED
      BY <2>1, <3>1 DEF Sound, OrderJob
  <2>2. QED
    BY <2>1 DEF IInv, NoStaleWork, RoundsOrdered
<1>2. QED
  BY <1>1, Invariance, PTL

\* No order the feeder took on is silently lost (supervise_miner, run_session).
THEOREM OrdersNeverLost == Spec => []OrdersAccounted
<1>1. IInv => OrdersAccounted
  BY DEF IInv
<1>2. QED
  BY <1>1, Invariance, PTL

\* round_mined never holds for a round whose work reached no miner (note_result).
THEOREM ParticipationEvidence == Spec => []MinedIsEvidence
<1>1. IInv => MinedIsEvidence
  BY DEF IInv
<1>2. QED
  BY <1>1, Invariance, PTL
-----------------------------------------------------------------------------
(***************************************************************************)
(* Chain reads                                                             *)
(*                                                                         *)
(* A pinned read is the chain's value at the block, so a walk of several   *)
(* calls reads one block. What the recursive functions (the walk, the      *)
(* polls, FlattenSeq) compute is proved through the least argument where   *)
(* it would be something else.                                             *)
(***************************************************************************)

\* A non-empty set of numbers has a least one.
LEMMA LeastNat ==
  ASSUME NEW T, T \subseteq Nat, T # {}
  PROVE  \E x \in T : \A y \in T : x <= y
  BY FirstExists DEF First

\* An answered call is not a failed one, and holds its answer.
LEMMA OkIsNoFailure ==
  ASSUME NEW v
  PROVE  Ok(v) # Failed /\ Ok(v).ok = v
<1>1. DOMAIN Ok(v) = {"ok"} /\ DOMAIN Failed = {"failed"}
  BY DEF Ok, Failed
<1>2. QED
  BY <1>1 DEF Ok

\* call_with_failover: some validator that answers is heard, whenever one does.
LEMMA FirstAnswer ==
  ASSUME NEW answers, DOMAIN answers \subseteq Nat, NEW S, S \subseteq DOMAIN answers,
         \A v \in DOMAIN answers : answers[v] # Failed <=> v \in S
  PROVE  /\ S = {} => rpc_call(answers) = Failed
         /\ S # {} => \E v \in S : rpc_call(answers) = answers[v]
<1> DEFINE ok == {v \in DOMAIN answers : answers[v] # Failed}
<1>1. ok = S
  OBVIOUS
<1>2. CASE S = {}
  BY <1>1, <1>2 DEF rpc_call
<1>3. CASE S # {}
  <2>1. PICK m \in S : \A y \in S : m <= y
    BY <1>3, LeastNat
  <2>2. Min(S) \in S
    BY <2>1 DEF Min
  <2>3. rpc_call(answers) = answers[Min(S)]
    BY <1>1, <1>3 DEF rpc_call
  <2>4. QED
    BY <2>2, <2>3, <1>3
<1>4. QED
  BY <1>2, <1>3

\* A validator that answers the call has block b.
Reached(C, up, call, b) == \E v \in up[call] : b <= C.heads[v]

\* A read that names its block returns what the chain holds at that block from
\* whichever validator answers, and fails just when none that has it does
\* (read_storage over call_with_failover).
THEOREM PinnedRead ==
  ASSUME NEW C, NEW up, NEW call, NEW b, NEW map,
         DOMAIN C.heads \subseteq Nat, up[call] \subseteq DOMAIN C.heads
  PROVE  read_storage(C, up, call, b, map)
           = IF Reached(C, up, call, b) THEN Ok(map[b]) ELSE Failed
<1> DEFINE S == {v \in up[call] : b <= C.heads[v]}
           answers == [v \in DOMAIN C.heads |->
                         IF v \in up[call] /\ b <= C.heads[v] THEN Ok(map[b]) ELSE Failed]
<1>1. read_storage(C, up, call, b, map) = rpc_call(answers)
  BY DEF read_storage
<1>2. Reached(C, up, call, b) <=> S # {}
  BY DEF Reached
<1>3. Ok(map[b]) # Failed
  BY OkIsNoFailure
<1>4. /\ DOMAIN answers \subseteq Nat /\ S \subseteq DOMAIN answers
      /\ \A v \in DOMAIN answers : answers[v] # Failed <=> v \in S
      /\ \A v \in S : answers[v] = Ok(map[b])
  BY <1>3
<1> HIDE DEF S, answers
<1>5. /\ S = {} => rpc_call(answers) = Failed
      /\ S # {} => \E v \in S : rpc_call(answers) = answers[v]
  BY <1>4, FirstAnswer
<1>6. QED
  BY <1>1, <1>2, <1>4, <1>5

\* The best block is that of a validator that answers.
LEMMA BestBlock ==
  ASSUME NEW C, NEW up, DOMAIN C.heads \subseteq Nat, up["head"] \subseteq DOMAIN C.heads
  PROVE  /\ up["head"] = {} => best_block(C, up) = Failed
         /\ up["head"] # {} => \E v \in up["head"] : best_block(C, up) = Ok(C.heads[v])
<1> DEFINE answers == [v \in DOMAIN C.heads |->
                         IF v \in up["head"] THEN Ok(C.heads[v]) ELSE Failed]
<1>1. best_block(C, up) = rpc_call(answers)
  BY DEF best_block
<1>2. \A v \in DOMAIN C.heads : Ok(C.heads[v]) # Failed
  BY OkIsNoFailure
<1>3. /\ DOMAIN answers \subseteq Nat /\ up["head"] \subseteq DOMAIN answers
      /\ \A v \in DOMAIN answers : answers[v] # Failed <=> v \in up["head"]
      /\ \A v \in up["head"] : answers[v] = Ok(C.heads[v])
  BY <1>2
<1> HIDE DEF answers
<1>4. /\ up["head"] = {} => rpc_call(answers) = Failed
      /\ up["head"] # {} => \E v \in up["head"] : rpc_call(answers) = answers[v]
  BY <1>3, FirstAnswer
<1>5. QED
  BY <1>1, <1>3, <1>4

\* A page and what the walk finds after it are the keys from the page on.
LEMMA PageThenRest ==
  ASSUME NEW K, NEW T, K \in Seq(T), NEW s \in 0 .. Len(K), NEW size \in Nat \ {0}
  PROVE  /\ KeysPaged(K, size, s) \in Seq(T)
         /\ s + size > Len(K) => /\ Len(KeysPaged(K, size, s)) < size
                                 /\ KeysPaged(K, size, s) = SubSeq(K, s + 1, Len(K))
         /\ s + size <= Len(K) => /\ Len(KeysPaged(K, size, s)) = size
                                  /\ KeysPaged(K, size, s) \o SubSeq(K, s + size + 1, Len(K))
                                       = SubSeq(K, s + 1, Len(K))
<1> DEFINE n == Len(K)
           m == Min({s + size, n})
<1>0. n \in Nat /\ s \in Nat /\ s <= n /\ size \in Nat /\ size > 0
  OBVIOUS
<1>1. m = IF s + size <= n THEN s + size ELSE n
  BY <1>0 DEF Min
<1>2. KeysPaged(K, size, s) = SubSeq(K, s + 1, m)
  BY DEF KeysPaged
<1>3. CASE s + size > n
  <2>1. m = n
    BY <1>0, <1>1, <1>3
  <2>2. SubSeq(K, s + 1, n) \in Seq(T) /\ Len(SubSeq(K, s + 1, n)) = n - s
    BY <1>0
  <2>3. QED
    <3>1. n - s < size /\ ~(s + size <= n)
      BY <1>0, <1>3
    <3>2. QED
      BY ONLY <1>2, <2>1, <2>2, <3>1
<1>4. CASE s + size <= n
  <2>1. m = s + size
    BY <1>0, <1>1, <1>4
  <2> DEFINE A == SubSeq(K, s + 1, s + size)
             B == SubSeq(K, s + size + 1, n)
             D == SubSeq(K, s + 1, n)
  <2>2. /\ A \in Seq(T) /\ Len(A) = size /\ \A i \in 1 .. size : A[i] = K[s + i]
        /\ B \in Seq(T) /\ Len(B) = n - (s + size) /\ \A i \in 1 .. (n - (s + size)) : B[i] = K[s + size + i]
        /\ D \in Seq(T) /\ Len(D) = n - s /\ \A i \in 1 .. (n - s) : D[i] = K[s + i]
    BY <1>0, <1>4
  <2> HIDE DEF A, B, D
  <2>3. A \o B \in Seq(T) /\ Len(A \o B) = n - s
    <3>1. A \o B \in Seq(T) /\ Len(A \o B) = Len(A) + Len(B)
      BY <2>2
    <3>2. size + (n - (s + size)) = n - s
      BY <1>0
    <3>3. QED
      BY <2>2, <3>1, <3>2
  <2>4. \A i \in 1 .. (n - s) : (A \o B)[i] = D[i]
    <3> TAKE i \in 1 .. (n - s)
    <3>1. CASE i <= size
      BY <1>0, <1>4, <2>2, <3>1
    <3>2. CASE i > size
      <4>1. (A \o B)[i] = B[i - size] /\ i - size \in 1 .. (n - (s + size))
        BY <1>0, <1>4, <2>2, <3>2
      <4>2. B[i - size] = K[s + size + (i - size)]
        BY <2>2, <4>1
      <4>3. s + size + (i - size) = s + i
        BY <1>0
      <4>4. QED
        BY <4>1, <4>2, <4>3, <2>2
    <3>3. QED
      <4>1. i <= size \/ i > size
        BY <1>0
      <4>2. QED
        BY <3>1, <3>2, <4>1
  <2>5. A \o B = D
    BY <2>2, <2>3, <2>4, SeqEqual
  <2>6. QED
    <3>1. ~(s + size > n) /\ KeysPaged(K, size, s) = A
      <4>1. ~(s + size > n)
        BY ONLY <1>0, <1>4
      <4>2. KeysPaged(K, size, s) = A
        BY <1>2, <2>1 DEF A
      <4>3. QED
        BY <4>1, <4>2
    <3>2. B = SubSeq(K, s + size + 1, Len(K)) /\ D = SubSeq(K, s + 1, Len(K))
      BY DEF B, D
    <3>3. QED
      BY ONLY <3>1, <3>2, <2>2, <2>5
<1>5. QED
  BY <1>0, <1>3, <1>4

\* Whatever the page size, order_keys returns every key of the block, or fails
\* for a page nobody served: by the least distance from the end of the keys.
THEOREM WalkReturnsEveryKey ==
  ASSUME NEW C, NEW up, NEW b, NEW size \in Nat \ {0}, NEW T,
         DOMAIN C.heads \subseteq Nat, up \in [Calls -> SUBSET DOMAIN C.heads],
         b \in DOMAIN C.keys, C.keys[b] \in Seq(T)
  PROVE  \/ order_keys(C, up, b, size) = Ok(C.keys[b])
         \/ /\ order_keys(C, up, b, size) = Failed
            /\ \E call \in {"keys", "more"} : ~Reached(C, up, call, b)
<1> DEFINE K == C.keys[b]
           n == Len(K)
           call(s) == IF s = 0 THEN "keys" ELSE "more"
           paged(s) == [m \in DOMAIN C.keys |-> KeysPaged(K, size, s)]
           got(s) == read_storage(C, up, call(s), b, paged(s))
           Step(f) == [s \in 0 .. n |->
             IF got(s) = Failed THEN Failed
             ELSE IF Len(got(s).ok) < size THEN got(s)
             ELSE IF f[s + size] = Failed THEN Failed ELSE Ok(got(s).ok \o f[s + size].ok)]
           walk == CHOOSE f : f = Step(f)
           R(s) == Reached(C, up, call(s), b)
           rest(s) == SubSeq(K, s + 1, n)
           W == [s \in 0 .. n |->
                   IF R(s) /\ (s + size <= n => R(s + size)) THEN Ok(rest(s)) ELSE Failed]
<1>1. order_keys(C, up, b, size) = walk[0]
  BY DEF order_keys
<1>0. n \in Nat /\ size \in Nat /\ size > 0 /\ K \in Seq(T)
  OBVIOUS
<1>2. \A s \in 0 .. n : got(s) = IF R(s) THEN Ok(KeysPaged(K, size, s)) ELSE Failed
  <2> TAKE s \in 0 .. n
  <2>1. up[call(s)] \subseteq DOMAIN C.heads
    BY DEF Calls
  <2>2. paged(s)[b] = KeysPaged(K, size, s)
    OBVIOUS
  <2> HIDE DEF paged, call
  <2>3. QED
    BY <2>1, <2>2, PinnedRead
<1> HIDE DEF got, R
<1>3. \A s \in 0 .. n : \A f :
        Step(f)[s] = IF ~R(s) THEN Failed
                     ELSE IF s + size > n THEN Ok(rest(s))
                     ELSE IF f[s + size] = Failed THEN Failed
                     ELSE Ok(KeysPaged(K, size, s) \o f[s + size].ok)
  <2> TAKE s \in 0 .. n
  <2> TAKE f
  <2>0. PICK P : P = KeysPaged(K, size, s)
    OBVIOUS
  <2>1. got(s) = IF R(s) THEN Ok(P) ELSE Failed
    BY <1>2, <2>0
  <2>2. Ok(P) # Failed /\ Ok(P).ok = P
    BY OkIsNoFailure
  <2>3. /\ s + size > n => Len(P) < size /\ P = rest(s)
        /\ s + size <= n => Len(P) = size
    BY <1>0, <2>0, PageThenRest
  <2> HIDE DEF rest
  <2>4. Step(f)[s] = IF got(s) = Failed THEN Failed
             ELSE IF Len(got(s).ok) < size THEN got(s)
             ELSE IF f[s + size] = Failed THEN Failed ELSE Ok(got(s).ok \o f[s + size].ok)
    OBVIOUS
  <2> HIDE DEF Step
  <2>5. s \in Nat
    OBVIOUS
  <2>6. CASE ~R(s)
    BY <2>1, <2>4, <2>6
  <2>7. CASE R(s) /\ s + size > n
    <3>1. Len(P) < size /\ P = rest(s)
      BY <2>3, <2>7
    <3>2. QED
      BY <2>1, <2>2, <2>4, <3>1, <2>7
  <2>8. CASE R(s) /\ ~(s + size > n)
    <3>1. Len(P) = size
      BY <2>3, <2>5, <1>0, <2>8
    <3>2. ~(Len(P) < size)
      BY <3>1, <1>0
    <3>3. QED
      BY <2>1, <2>2, <2>4, <2>0, <3>2, <2>8
  <2>9. QED
    BY <2>6, <2>7, <2>8
<1>4. \A s \in 0 .. n : s + size <= n =>
        s + size \in 0 .. n /\ s + size # 0
  BY <1>0
<1>5. \A s, t \in 0 .. n : s # 0 /\ t # 0 => (R(s) <=> R(t))
  BY DEF R
<1>6. \A f : DOMAIN Step(f) = 0 .. n
  OBVIOUS
<1>7. \A s \in 0 .. n : s + size <= n =>
        KeysPaged(K, size, s) \o rest(s + size) = rest(s)
  BY <1>0, PageThenRest
<1>8. \A s \in 0 .. n : Ok(rest(s)) # Failed /\ Ok(rest(s)).ok = rest(s)
  BY OkIsNoFailure
<1> HIDE DEF Step, call, rest
<1>9. \A s \in 0 .. n : Step(W)[s] = W[s]
  <2> TAKE s \in 0 .. n
  <2>1. CASE ~R(s)
    BY <1>3, <2>1
  <2>2. CASE R(s) /\ s + size > n
    <3>1. ~(s + size <= n)
      BY <1>0, <2>2
    <3>2. QED
      BY <1>3, <2>2, <3>1
  <2>3. CASE R(s) /\ s + size <= n
    <3> DEFINE t == s + size
    <3>1. t \in 0 .. n /\ t # 0 /\ ~(t > n)
      BY <1>0, <2>3
    <3>2. W[t] = IF R(t) THEN Ok(rest(t)) ELSE Failed
      <4>1. t + size <= n => (R(t) => R(t + size))
        BY <1>4, <1>5, <3>1
      <4>2. QED
        BY <3>1, <4>1
    <3>3. W[s] = IF R(t) THEN Ok(rest(s)) ELSE Failed
      BY <2>3
    <3>4. Step(W)[s] = IF W[t] = Failed THEN Failed ELSE Ok(KeysPaged(K, size, s) \o W[t].ok)
      BY <1>3, <2>3, <3>1
    <3>5. Ok(rest(t)) # Failed /\ Ok(rest(t)).ok = rest(t)
      BY <1>8, <3>1
    <3>6. KeysPaged(K, size, s) \o rest(t) = rest(s)
      BY <1>7, <2>3
    <3> HIDE DEF t, W
    <3>7. QED
      BY <3>2, <3>3, <3>4, <3>5, <3>6
  <2>4. QED
    BY <1>0, <2>1, <2>2, <2>3
<1>10. W = Step(W)
  <2>1. DOMAIN W = 0 .. n
    OBVIOUS
  <2> HIDE DEF W
  <2>2. Step(W) = [s \in 0 .. n |-> Step(W)[s]] /\ W = [s \in 0 .. n |-> W[s]]
    BY <2>1 DEF Step, W
  <2>3. QED
    BY <1>9, <2>2
<1>11. walk = Step(walk)
  BY <1>10
<1>12. \A s \in 0 .. n : walk[s] = Step(walk)[s]
  BY <1>11
<1> HIDE DEF walk, W
<1>13. \A s \in 0 .. n : walk[s] = W[s]
  <2> SUFFICES ASSUME \E s \in 0 .. n : walk[s] # W[s] PROVE FALSE
    OBVIOUS
  <2> DEFINE bad == {d \in 0 .. n : walk[n - d] # W[n - d]}
  <2>1. bad \subseteq Nat /\ bad # {}
    <3>1. PICK s \in 0 .. n : walk[s] # W[s]
      OBVIOUS
    <3>2. n - s \in 0 .. n /\ n - (n - s) = s
      BY <1>0
    <3>3. n - s \in bad
      BY <3>1, <3>2
    <3>4. 0 .. n \subseteq Nat
      OBVIOUS
    <3>5. QED
      BY <3>3, <3>4
  <2>2. PICK d \in bad : \A y \in bad : d <= y
    BY <2>1, LeastNat
  <2> DEFINE s == n - d
  <2>3. d \in 0 .. n /\ s \in 0 .. n /\ walk[s] # W[s]
    BY <1>0, <2>2
  <2>4. CASE ~R(s) \/ s + size > n
    BY <1>3, <1>9, <1>12, <2>3, <2>4
  <2>5. CASE R(s) /\ s + size <= n
    <3>1. s + size \in 0 .. n /\ s + size = n - (d - size) /\ d - size \in 0 .. n /\ d - size < d /\ ~(s + size > n)
      BY <1>0, <2>3, <2>5
    <3>2. d - size \notin bad
      <4> SUFFICES ASSUME d - size \in bad PROVE FALSE
        OBVIOUS
      <4> HIDE DEF bad
      <4>1. d <= d - size /\ d \in 0 .. n
        BY <2>2, <2>3
      <4>2. QED
        BY ONLY <4>1, <3>1, <1>0
    <3>3. walk[s + size] = W[s + size]
      BY <3>1, <3>2
    <3> HIDE DEF bad, s
    <3>4. QED
      <4>1. Step(walk)[s] = IF walk[s + size] = Failed THEN Failed
                            ELSE Ok(KeysPaged(K, size, s) \o walk[s + size].ok)
        BY <1>3, <2>3, <2>5, <3>1
      <4>2. Step(W)[s] = IF W[s + size] = Failed THEN Failed
                         ELSE Ok(KeysPaged(K, size, s) \o W[s + size].ok)
        BY <1>3, <2>3, <2>5, <3>1
      <4>3. Step(walk)[s] = walk[s] /\ Step(W)[s] = W[s]
        BY <1>9, <1>12, <2>3
      <4>4. QED
        BY <2>3, <3>3, <4>1, <4>2, <4>3
  <2>6. QED
    BY <1>0, <2>3, <2>4, <2>5
<1>14. walk[0] = W[0]
  BY <1>0, <1>13
<1>15. rest(0) = K
  BY <1>0 DEF rest
<1>16. walk[0] = Ok(K) \/ (walk[0] = Failed /\ (~R(0) \/ ~R(size)))
  <2>1. 0 \in 0 .. n /\ 0 + size = size
    BY <1>0
  <2>2. W[0] = Ok(K) \/ (W[0] = Failed /\ (~R(0) \/ ~R(size)))
    BY <1>15, <2>1 DEF W
  <2>3. QED
    BY <1>14, <2>2
<1>17. R(0) = Reached(C, up, "keys", b) /\ R(size) = Reached(C, up, "more", b)
  BY <1>0 DEF R, call
<1>18. QED
  BY <1>1, <1>16, <1>17

\* A saturated sum passes a block below u32::MAX just when the sum does.
LEMMA SaturatesAbove ==
  ASSUME NEW x \in Nat, NEW y \in Nat, NEW b \in Nat, MaxBlock \in Nat, b < MaxBlock
  PROVE  SaturatingAdd(x, y) \in Nat /\ (SaturatingAdd(x, y) > b <=> b < x + y)
<1>1. SaturatingAdd(x, y) = IF x + y <= MaxBlock THEN x + y ELSE MaxBlock
  BY DEF SaturatingAdd, Min
<1>2. QED
  BY <1>1

\* order_deadline_ms is a time ahead just while the chain still takes answers.
LEMMA DeadlineLies ==
  ASSUME NEW o, NEW b \in Nat, MaxBlock \in Nat, b < MaxBlock, IsOrder(o)
  PROVE  IF b < o.created_at + o.deadline_blocks /\
              \A first \in o.first_solution_at : b < first + o.block_wait
         THEN \E d \in Nat : d > 0 /\ order_deadline_ms(o, b, 0) = {d}
         ELSE order_deadline_ms(o, b, 0) = {}
<1> DEFINE hard == SaturatingAdd(o.created_at, o.deadline_blocks)
           soft == {SaturatingAdd(first, o.block_wait) : first \in o.first_solution_at}
           expiry == Min({hard} \union soft)
           open == b < o.created_at + o.deadline_blocks /\
                   \A first \in o.first_solution_at : b < first + o.block_wait
<1>1. /\ o.created_at \in Nat /\ o.deadline_blocks \in Nat /\ o.block_wait \in Nat
      /\ \A first \in o.first_solution_at : first \in Nat
      /\ AtMostOneOf(o.first_solution_at)
  BY DEF IsOrder
<1>2. hard \in Nat /\ (hard > b <=> b < o.created_at + o.deadline_blocks)
  BY <1>1, SaturatesAbove
<1>3. \A first \in o.first_solution_at :
        /\ SaturatingAdd(first, o.block_wait) \in Nat
        /\ SaturatingAdd(first, o.block_wait) > b <=> b < first + o.block_wait
  BY <1>1, SaturatesAbove
<1> DEFINE S == {hard} \union soft
<1>4. S \subseteq Nat /\ S # {} /\ (open <=> \A x \in S : x > b)
  BY <1>2, <1>3
<1>5. order_deadline_ms(o, b, 0) = IF expiry > b THEN {0 + (expiry - b) * BLOCK_TIME_ESTIMATE_MS} ELSE {}
  BY DEF order_deadline_ms
<1> HIDE DEF S
<1>6. PICK m \in S : \A y \in S : m <= y
  BY <1>4, LeastNat
<1>7. Min(S) \in S /\ \A y \in S : Min(S) <= y
  BY <1>6 DEF Min
<1>8. expiry = Min(S)
  BY DEF S
<1> HIDE DEF expiry, open
<1>9. expiry \in Nat /\ (open <=> expiry > b)
  <2>1. expiry \in S /\ \A y \in S : expiry <= y
    BY <1>7, <1>8
  <2>2. expiry \in Nat /\ \A y \in S : y \in Nat
    BY <1>4, <2>1
  <2>3. expiry > b => \A y \in S : y > b
    BY ONLY <2>1, <2>2, b \in Nat
  <2>4. QED
    BY <1>4, <2>1, <2>2, <2>3
<1>10. expiry > b => (0 + (expiry - b) * BLOCK_TIME_ESTIMATE_MS) \in Nat /\ 0 + (expiry - b) * BLOCK_TIME_ESTIMATE_MS > 0
  BY <1>9 DEF BLOCK_TIME_ESTIMATE_MS
<1>11. QED
  BY <1>5, <1>9, <1>10 DEF open

\* The type the account is registered as, when the read asks or remembers.
Solver(C, b, cached) == IF cached # {} THEN cached ELSE C.solver[b]

\* What a visit to order id makes of it.
Visited(C, up, b, cached, id) ==
  \/ /\ Visit(C, up, b, cached, id, 0) = Failed
     /\ \/ \E call \in {"storage", "solver"} : ~Reached(C, up, call, b)
        \/ \E o \in C.orders[b][id] : ~o.decodes
  \/ /\ Visit(C, up, b, cached, id, 0) = Ok({})
     /\ ~\E o \in C.orders[b][id] : Answerable(o, b, Solver(C, b, cached))
  \/ \E d \in Nat :
       /\ d > 0
       /\ Visit(C, up, b, cached, id, 0) = Ok({[order_id |-> id, deadline_ms |-> d]})
       /\ \E o \in C.orders[b][id] : Answerable(o, b, Solver(C, b, cached))

\* An order of the walk is taken just when the account may answer it.
LEMMA VisitFaithful ==
  ASSUME NEW C, NEW up, NEW b \in Nat, NEW cached, NEW id, MaxBlock \in Nat, b < MaxBlock,
         DOMAIN C.heads \subseteq Nat, up \in [Calls -> SUBSET DOMAIN C.heads],
         b \in DOMAIN C.orders, AtMostOneOf(C.orders[b][id]),
         \A o \in C.orders[b][id] : IsOrder(o)
  PROVE  Visited(C, up, b, cached, id)
<1> USE DEF Visited
<1> DEFINE stored == read_storage(C, up, "storage", b, [n \in DOMAIN C.orders |-> C.orders[n][id]])
           order == CHOOSE o \in stored.ok : TRUE
           deadline == order_deadline_ms(order, b, 0)
           solver == registered_solver_type(C, up, b, cached)
           admitted == {d \in deadline : \/ order.mode.kind = "Open"
                                         \/ \E t \in solver.ok : is_eligible_for(order.mode, Me, t)}
           taken == {[order_id |-> id, deadline_ms |-> d] : d \in admitted}
           O == C.orders[b][id]
           V == Visit(C, up, b, cached, id, 0)
           who == Solver(C, b, cached)
<1>1. V = IF stored = Failed THEN Failed
      ELSE IF stored.ok = {} THEN Ok({})
      ELSE IF ~order.decodes THEN Failed
      ELSE IF order.status # "Opened" \/ deadline = {} THEN Ok({})
      ELSE IF order.mode.kind = "Bid" /\ solver = Failed THEN Failed
      ELSE Ok(taken)
  BY DEF Visit
<1>2. stored = IF Reached(C, up, "storage", b) THEN Ok(O) ELSE Failed
  <2> DEFINE map == [n \in DOMAIN C.orders |-> C.orders[n][id]]
  <2>1. map[b] = O
    OBVIOUS
  <2>2. up["storage"] \subseteq DOMAIN C.heads
    BY DEF Calls
  <2> HIDE DEF map
  <2>3. read_storage(C, up, "storage", b, map) = IF Reached(C, up, "storage", b) THEN Ok(map[b]) ELSE Failed
    BY <2>2, PinnedRead
  <2>4. QED
    BY <2>1, <2>3 DEF map
<1>3. \/ solver = Ok(who)
      \/ solver = Failed /\ ~Reached(C, up, "solver", b)
  <2>1. up["solver"] \subseteq DOMAIN C.heads
    BY DEF Calls
  <2>2. read_storage(C, up, "solver", b, C.solver) = IF Reached(C, up, "solver", b) THEN Ok(C.solver[b]) ELSE Failed
    BY <2>1, PinnedRead
  <2>3. QED
    BY <2>2 DEF registered_solver_type, Solver
<1> HIDE DEF V, solver, who, stored
<1>4. CASE stored = Failed
  BY <1>1, <1>2, <1>4, OkIsNoFailure DEF V
<1>5. CASE stored # Failed /\ O = {}
  <2>1. stored = Ok(O) /\ stored.ok = O
    BY <1>2, <1>5, OkIsNoFailure
  <2>2. V = Ok({})
    BY <1>1, <1>5, <2>1
  <2>3. QED
    BY <1>5, <2>2 DEF V, who
<1>6. CASE stored # Failed /\ O # {}
  <2>1. stored = Ok(O) /\ stored.ok = O
    BY <1>2, <1>6, OkIsNoFailure
  <2>2. order \in O
    BY <1>6, <2>1
  <2>3. O = {order} /\ IsOrder(order)
    BY <2>2 DEF AtMostOneOf
  <2> HIDE DEF order, O
  <2>4. CASE ~order.decodes
    <3>1. V = Failed
      BY <1>1, <1>6, <2>1, <2>4
    <3>2. QED
      BY <2>2, <2>4, <3>1 DEF V, O
  <2> DEFINE open == b < order.created_at + order.deadline_blocks /\
                     \A first \in order.first_solution_at : b < first + order.block_wait
  <2>5. IF open THEN \E d \in Nat : d > 0 /\ deadline = {d} ELSE deadline = {}
    BY <2>3, DeadlineLies
  <2>6. CASE order.decodes /\ (order.status # "Opened" \/ deadline = {})
    <3>1. V = Ok({})
      BY <1>1, <1>6, <2>1, <2>6
    <3>2. ~Answerable(order, b, who)
      BY <2>5, <2>6 DEF Answerable
    <3>3. QED
      BY <2>3, <3>1, <3>2 DEF V, O, who
  <2>7. CASE order.decodes /\ ~(order.status # "Opened" \/ deadline = {})
    <3>1. PICK d \in Nat : d > 0 /\ deadline = {d}
      BY <2>5, <2>7
    <3>2. open
      BY <2>5, <2>7
    <3> DEFINE may == \/ order.mode.kind = "Open"
                      \/ who # {} /\ Me \in order.mode.miners
                      \/ who \intersect order.mode.miner_types # {}
    <3>3. Answerable(order, b, who) <=> may
      BY <2>7, <3>2 DEF Answerable
    <3> HIDE DEF open, deadline
    <3>4. CASE order.mode.kind = "Bid" /\ solver = Failed
      <4>1. V = Failed
        BY <1>1, <1>6, <2>1, <2>7, <3>4
      <4>2. QED
        BY <1>3, <3>4, <4>1, OkIsNoFailure DEF V
    <3>5. CASE ~(order.mode.kind = "Bid" /\ solver = Failed)
      <4>1. V = Ok(taken)
        BY <1>1, <1>6, <2>1, <2>7, <3>5
      <4>2. order.mode.kind \in {"Open", "Bid"}
        BY <2>3 DEF IsOrder
      <4>3. (order.mode.kind = "Open" \/ \E t \in solver.ok : is_eligible_for(order.mode, Me, t)) <=> may
        <5>1. CASE order.mode.kind = "Open"
          BY <5>1
        <5>2. CASE order.mode.kind = "Bid"
          <6>1. solver.ok = who
            BY <1>3, <3>5, <5>2, OkIsNoFailure
          <6>2. QED
            BY <6>1, <5>2 DEF is_eligible_for
        <5>3. QED
          BY <4>2, <5>1, <5>2
      <4>4. admitted = IF may THEN {d} ELSE {}
        BY <3>1, <4>3
      <4>5. taken = IF may THEN {[order_id |-> id, deadline_ms |-> d]} ELSE {}
        BY <4>4
      <4> HIDE DEF taken, may
      <4>6. CASE may
        BY <4>1, <4>5, <4>6, <3>1, <3>3, <2>2 DEF V, O, who
      <4>7. CASE ~may
        BY <4>1, <4>5, <4>7, <3>3, <2>3 DEF V, O, who
      <4>8. QED
        BY <4>6, <4>7
    <3>6. QED
      BY <3>4, <3>5
  <2>8. QED
    BY <2>4, <2>6, <2>7
<1>7. QED
  BY <1>4, <1>5, <1>6

\* An option as a sequence: empty, or its one element.
LEMMA OptionAsSeq ==
  ASSUME NEW S, AtMostOneOf(S)
  PROVE  /\ S = {} => SetToSeq(S) = <<>>
         /\ \A x \in S : SetToSeq(S) = <<x>>
         /\ SetToSeq(S) \in Seq(S)
<1>1. CASE S = {}
  <2>1. Cardinality(S) = 0
    BY <1>1, FS_EmptySet
  <2>2. 1 .. 0 = {}
    OBVIOUS
  <2>3. \A f \in [1 .. 0 -> S] : f = <<>> /\ IsInjective(f)
    BY <2>2 DEF IsInjective
  <2>4. <<>> \in [1 .. 0 -> S]
    BY <2>2
  <2>5. (CHOOSE f \in [1 .. 0 -> S] : IsInjective(f)) = <<>>
    BY <2>3, <2>4
  <2>6. SetToSeq(S) = <<>>
    BY <2>1, <2>5 DEF SetToSeq
  <2>7. <<>> \in Seq(S) /\ \A x \in S : FALSE
    BY <1>1
  <2>8. QED
    BY <2>6, <2>7
<1>2. CASE S # {}
  <2>1. PICK x : x \in S
    BY <1>2
  <2>2. S = {x}
    BY <2>1 DEF AtMostOneOf
  <2>3. Cardinality(S) = 1
    BY <2>2, FS_Singleton
  <2>4. 1 .. 1 = {1}
    OBVIOUS
  <2>5. \A f \in [1 .. 1 -> S] : f = <<x>> /\ IsInjective(f)
    BY <2>2, <2>4 DEF IsInjective
  <2>6. <<x>> \in [1 .. 1 -> S]
    BY <2>2, <2>4
  <2>7. (CHOOSE f \in [1 .. 1 -> S] : IsInjective(f)) = <<x>>
    BY <2>5, <2>6
  <2>8. SetToSeq(S) = <<x>>
    BY <2>3, <2>7 DEF SetToSeq
  <2>9. <<x>> \in Seq(S) /\ \A y \in S : y = x
    BY <2>2
  <2>10. SetToSeq(S) \in Seq(S)
    BY <2>8, <2>9
  <2>11. \A y \in S : SetToSeq(S) = <<y>>
    BY <2>8, <2>9
  <2>12. QED
    BY <1>2, <2>10, <2>11
<1>3. QED
  BY <1>1, <1>2

\* f[i] is the sequences q[1] to q[i], one after the other.
Appends(f, q, n) ==
  /\ f[1] = q[1]
  /\ \A i \in 1 .. n : i # 1 => f[i] = f[i - 1] \o q[i]

\* FlattenSeq appends the sequences one after the other; that its recursion has
\* a solution is shown by the least length without one.
LEMMA FlattenSteps ==
  ASSUME NEW q, NEW n \in Nat, n > 0, Len(q) = n
  PROVE  \E f : Appends(f, q, n) /\ FlattenSeq(q) = f[n]
<1> DEFINE Step(f, m) == [i \in 1 .. m |-> IF i = 1 THEN q[i] ELSE f[i - 1] \o q[i]]
           flatten == CHOOSE f : f = Step(f, n)
           has(m) == \E f : f = Step(f, m)
           bad == {m \in Nat \ {0} : ~has(m)}
<1>1. has(1)
  <2> DEFINE f == [i \in 1 .. 1 |-> q[i]]
  <2>1. \A i \in 1 .. 1 : i = 1
    OBVIOUS
  <2>2. f = Step(f, 1)
    BY <2>1
  <2>3. QED
    BY <2>2
<1>2. ASSUME NEW m \in Nat \ {0}, has(m) PROVE has(m + 1)
  <2>1. PICK f : f = Step(f, m)
    BY <1>2
  <2> DEFINE g == [i \in 1 .. m + 1 |-> IF i = m + 1 THEN f[m] \o q[m + 1] ELSE f[i]]
  <2>2. \A i \in 1 .. m : f[i] = IF i = 1 THEN q[i] ELSE f[i - 1] \o q[i]
    BY <2>1
  <2>3. \A i \in 1 .. m + 1 : g[i] = IF i = 1 THEN q[i] ELSE g[i - 1] \o q[i]
    <3> TAKE i \in 1 .. m + 1
    <3>1. CASE i = m + 1
      <4>1. i # 1 /\ i - 1 = m /\ m \in 1 .. m + 1 /\ m # m + 1
        BY <3>1
      <4>2. g[i] = f[m] \o q[i] /\ g[m] = f[m]
        BY <3>1, <4>1
      <4>3. QED
        BY <4>1, <4>2
    <3>2. CASE i # m + 1
      <4>1. i \in 1 .. m
        BY <3>2
      <4>2. g[i] = f[i]
        BY <3>2
      <4>3. i # 1 => i - 1 \in 1 .. m + 1 /\ i - 1 # m + 1
        BY <4>1
      <4>4. i # 1 => g[i - 1] = f[i - 1]
        BY <4>3
      <4> HIDE DEF g
      <4>5. QED
        BY <2>2, <4>1, <4>2, <4>4
    <3>3. QED
      BY <3>1, <3>2
  <2>4. g = [i \in 1 .. m + 1 |-> g[i]]
    OBVIOUS
  <2> HIDE DEF g
  <2>5. g = Step(g, m + 1)
    BY <2>3, <2>4
  <2>6. QED
    BY <2>5
<1>3. bad = {}
  <2> SUFFICES ASSUME bad # {} PROVE FALSE
    OBVIOUS
  <2> HIDE DEF has
  <2>1. PICK m \in bad : \A y \in bad : m <= y
    BY LeastNat
  <2>2. m \in Nat /\ m # 0 /\ ~has(m)
    BY <2>1
  <2>3. m # 1
    BY <1>1, <2>2
  <2>4. m - 1 \in Nat \ {0} /\ m - 1 + 1 = m /\ ~(m <= m - 1)
    BY <2>2, <2>3
  <2>5. m - 1 \notin bad
    BY <2>1, <2>4
  <2>6. has(m - 1)
    BY <2>4, <2>5
  <2>7. has(m - 1 + 1)
    BY <1>2, <2>4, <2>6
  <2>8. QED
    BY <2>2, <2>4, <2>7
<1>4. has(n)
  <2>1. n \in Nat \ {0}
    OBVIOUS
  <2> HIDE DEF has
  <2>2. QED
    BY <1>3, <2>1
<1>5. flatten = Step(flatten, n)
  BY <1>4
<1>6. FlattenSeq(q) = flatten[n]
  <2>1. Len(q) # 0
    OBVIOUS
  <2>2. QED
    BY <2>1 DEF FlattenSeq
<1> HIDE DEF flatten
<1>7. \A i \in 1 .. n : flatten[i] = IF i = 1 THEN q[i] ELSE flatten[i - 1] \o q[i]
  BY <1>5
<1>8. 1 \in 1 .. n
  OBVIOUS
<1>9. Appends(flatten, q, n)
  BY <1>7, <1>8 DEF Appends
<1>10. QED
  BY <1>6, <1>9

\* F holds what the options S[1] to S[n] hold, in their order.
InOrder(F, S, n) ==
  /\ \A j \in DOMAIN F : \E k \in 1 .. n : F[j] \in S[k]
  /\ \A k \in 1 .. n : \A x \in S[k] : \E j \in DOMAIN F : F[j] = x
  /\ \A j, l \in DOMAIN F : \A k, m \in 1 .. n :
       j < l /\ F[j] \in S[k] /\ F[l] \in S[m] => k < m

\* Options flattened: what the walk takes, in the order of the walk.
LEMMA FlattenOptions ==
  ASSUME NEW n \in Nat, NEW T, NEW S, \A k \in 1 .. n : AtMostOneOf(S[k]) /\ S[k] \subseteq T,
         \A k, l \in 1 .. n : \A x \in S[k] : x \in S[l] => k = l,
         NEW q, Len(q) = n, n = 0 => q = <<>>, \A k \in 1 .. n : q[k] = SetToSeq(S[k]),
         NEW F, F = FlattenSeq(q)
  PROVE  F \in Seq(T) /\ InOrder(F, S, n)
<1>1. \A k \in 1 .. n : q[k] \in Seq(T) /\ (S[k] = {} => q[k] = <<>>) /\ \A x \in S[k] : q[k] = <<x>>
  <2> TAKE k \in 1 .. n
  <2>1. /\ S[k] = {} => SetToSeq(S[k]) = <<>>
        /\ \A x \in S[k] : SetToSeq(S[k]) = <<x>>
        /\ SetToSeq(S[k]) \in Seq(S[k])
    BY OptionAsSeq
  <2>2. S[k] \subseteq T
    OBVIOUS
  <2>3. SetToSeq(S[k]) \in Seq(T)
    BY <2>1, <2>2, SeqMonotonic
  <2>4. QED
    BY <2>1, <2>3
<1>4. CASE n = 0
  <2>1. q = <<>> /\ 1 .. n = {}
    BY <1>4
  <2>2. F = <<>>
    BY <1>4, <2>1 DEF FlattenSeq
  <2>3. F \in Seq(T) /\ DOMAIN F = {}
    BY <2>2
  <2>4. QED
    BY <2>1, <2>3 DEF InOrder
<1>5. CASE n # 0
  <2>1. PICK f : /\ f[1] = q[1]
                 /\ \A i \in 1 .. n : i # 1 => f[i] = f[i - 1] \o q[i]
                 /\ F = f[n]
    <3>1. n > 0
      BY <1>5
    <3>2. \E f : Appends(f, q, n) /\ FlattenSeq(q) = f[n]
      BY <3>1, FlattenSteps
    <3>3. QED
      BY <3>2 DEF Appends
  <2> DEFINE Inv(i) ==
        /\ f[i] \in Seq(T)
        /\ \A j \in 1 .. Len(f[i]) : \E k \in 1 .. i : f[i][j] \in S[k]
        /\ \A k \in 1 .. i : \A x \in S[k] : \E j \in 1 .. Len(f[i]) : f[i][j] = x
        /\ \A j, l \in 1 .. Len(f[i]) : \A k, m \in 1 .. n :
             j < l /\ f[i][j] \in S[k] /\ f[i][l] \in S[m] => k < m
  <2>2. Inv(1)
    <3>1. 1 \in 1 .. n /\ \A k \in 1 .. 1 : k = 1
      BY <1>5
    <3>2. CASE S[1] = {}
      <4>1. f[1] = <<>> /\ f[1] \in Seq(T) /\ Len(f[1]) = 0
        BY <1>1, <2>1, <3>1, <3>2
      <4>2. 1 .. Len(f[1]) = {}
        BY <4>1
      <4>3. QED
        BY <3>1, <3>2, <4>1, <4>2
    <3>3. CASE S[1] # {}
      <4>1. PICK x : x \in S[1]
        BY <3>3
      <4>2. f[1] = <<x>> /\ f[1] \in Seq(T)
        BY <1>1, <2>1, <3>1, <4>1
      <4>3. Len(f[1]) = 1 /\ f[1][1] = x
        BY <4>2
      <4>4. \A y \in S[1] : y = x
        BY <3>1, <4>1 DEF AtMostOneOf
      <4>5. \A j \in 1 .. Len(f[1]) : j = 1
        BY <4>3
      <4>6. 1 \in 1 .. Len(f[1]) /\ 1 \in 1 .. 1 /\ ~(1 < 1)
        BY <4>3
      <4>7. \A j \in 1 .. Len(f[1]) : \E k \in 1 .. 1 : f[1][j] \in S[k]
        BY <4>1, <4>3, <4>5, <4>6
      <4>8. \A k \in 1 .. 1 : \A y \in S[k] : \E j \in 1 .. Len(f[1]) : f[1][j] = y
        BY <3>1, <4>3, <4>4, <4>6
      <4>9. \A j, l \in 1 .. Len(f[1]) : ~(j < l)
        BY <4>5, <4>6
      <4>10. QED
        BY <4>2, <4>7, <4>8, <4>9
    <3>4. QED
      BY <3>2, <3>3
  <2>3. ASSUME NEW i \in 1 .. n, i # 1, Inv(i - 1) PROVE Inv(i)
    <3> DEFINE p == i - 1
    <3>1. p \in 1 .. n /\ p < i /\ p + 1 = i
      BY <2>3
    <3>2. f[i] = f[p] \o q[i]
      BY <2>1, <2>3
    <3>3. q[i] \in Seq(T) /\ f[p] \in Seq(T)
      BY <1>1, <2>3
    <3>4. CASE S[i] = {}
      <4>1. f[i] = f[p]
        <5>1. q[i] = <<>>
          BY <1>1, <3>4
        <5>2. f[p] \o <<>> = f[p]
          BY <3>3, ConcatEmptySeq
        <5>3. QED
          BY <3>2, <5>1, <5>2
      <4>2. \A k \in 1 .. i : k \in 1 .. p \/ k = i
        BY <3>1
      <4>3. \A k \in 1 .. p : k \in 1 .. i
        BY <3>1
      <4>4. Inv(p)
        BY <2>3
      <4> HIDE DEF p
      <4>5. QED
        BY <3>4, <4>1, <4>2, <4>3, <4>4
    <3>5. CASE S[i] # {}
      <4>1. PICK x : x \in S[i]
        BY <3>5
      <4>2. q[i] = <<x>>
        BY <1>1, <4>1
      <4>3. PICK L \in Nat : L = Len(f[p])
        BY <3>3
      <4>4. /\ f[i] \in Seq(T) /\ Len(f[i]) = L + 1 /\ f[i][L + 1] = x
            /\ \A j \in 1 .. L : f[i][j] = f[p][j]
        BY <3>2, <3>3, <4>2, <4>3
      <4>5. \A y \in S[i] : y = x
        BY <4>1 DEF AtMostOneOf
      <4>6. Inv(p)
        BY <2>3
      <4>7. \A k \in 1 .. i : k \in 1 .. p \/ k = i
        BY <3>1
      <4>8. \A k \in 1 .. p : k \in 1 .. i /\ k \in 1 .. n /\ k < i
        BY <3>1
      <4>9. \A j \in 1 .. L + 1 : j \in 1 .. L \/ j = L + 1
        BY <4>3
      <4>10. \A j \in 1 .. L : j \in 1 .. L + 1
        BY <4>3
      <4>11. L + 1 \in 1 .. L + 1 /\ i \in 1 .. i
        BY <4>3, <3>1
      <4> HIDE DEF p
      <4>12. \A j \in 1 .. Len(f[i]) : \E k \in 1 .. i : f[i][j] \in S[k]
        <5> TAKE j \in 1 .. Len(f[i])
        <5>1. CASE j = L + 1
          BY <4>1, <4>4, <4>11, <5>1
        <5>2. CASE j \in 1 .. L
          <6>1. PICK k \in 1 .. p : f[p][j] \in S[k]
            BY <4>3, <4>6, <5>2
          <6>2. QED
            BY <4>4, <4>8, <5>2, <6>1
        <5>3. QED
          BY <4>4, <4>9, <5>1, <5>2
      <4>13. \A k \in 1 .. i : \A y \in S[k] : \E j \in 1 .. Len(f[i]) : f[i][j] = y
        <5> TAKE k \in 1 .. i
        <5> TAKE y \in S[k]
        <5>1. CASE k = i
          BY <4>4, <4>5, <4>11, <5>1
        <5>2. CASE k \in 1 .. p
          <6>1. PICK j \in 1 .. L : f[p][j] = y
            BY <4>3, <4>6, <5>2
          <6>2. QED
            BY <4>4, <4>10, <6>1
        <5>3. QED
          BY <4>7, <5>1, <5>2 DEF InOrder
      <4>14. ASSUME NEW j \in 1 .. Len(f[i]), NEW l \in 1 .. Len(f[i]), NEW k \in 1 .. n, NEW m \in 1 .. n,
                    j < l, f[i][j] \in S[k], f[i][l] \in S[m]
             PROVE  k < m
        <5>1. j \in 1 .. L
          BY <4>3, <4>4, <4>14
        <5>2. f[p][j] \in S[k]
          BY <4>4, <4>14, <5>1
        <5>3. CASE l \in 1 .. L
          BY <4>3, <4>4, <4>6, <4>14, <5>1, <5>2, <5>3
        <5>4. CASE l = L + 1
          <6>1. x \in S[m]
            BY <4>4, <4>14, <5>4
          <6>2. m = i
            BY <4>1, <6>1
          <6>3. PICK h \in 1 .. p : f[p][j] \in S[h]
            BY <4>3, <4>6, <5>1
          <6>4. h = k /\ h < i
            BY <4>8, <5>2, <6>3
          <6>5. QED
            BY <6>2, <6>4
        <5>5. QED
          BY <4>4, <4>9, <5>3, <5>4
      <4>15. QED
        BY <4>4, <4>12, <4>13, <4>14
    <3>6. QED
      BY <3>4, <3>5
  <2> HIDE DEF Inv
  <2>4. Inv(n)
    <3> DEFINE bad == {i \in 1 .. n : ~Inv(i)}
    <3> SUFFICES ASSUME bad # {} PROVE FALSE
      BY <1>5
    <3>1. bad \subseteq Nat
      OBVIOUS
    <3>2. PICK i \in bad : \A y \in bad : i <= y
      BY <3>1, LeastNat
    <3>3. i \in 1 .. n /\ ~Inv(i) /\ i # 1
      BY <2>2, <3>2
    <3>4. i - 1 \in 1 .. n /\ ~(i <= i - 1)
      BY <3>3
    <3>5. Inv(i - 1)
      BY <3>2, <3>4
    <3>6. QED
      BY <2>3, <3>3, <3>5
  <2>5. f[n] = F
    BY <2>1
  <2>6. F \in Seq(T) /\ DOMAIN F = 1 .. Len(F)
    BY <2>4, <2>5 DEF Inv
  <2>7. InOrder(F, S, n)
    BY ONLY <2>4, <2>5, <2>6 DEF Inv, InOrder
  <2>8. QED
    BY <2>6, <2>7
<1>6. QED
  BY <1>4, <1>5

\* One read of the orders, under any outage and page size.
LEMMA OrdersRead ==
  ASSUME NEW C \in Chains, NEW up \in Outages, NEW size \in PageSizes, NEW cached
  PROVE  ReadFaithful(C, up, size, cached)
<1> DEFINE read == fetch_mempool_orders(C, up, size, cached, 0)
           b == best_block(C, up).ok
           solver == IF cached # {} THEN cached ELSE C.solver[b]
           ids == {k.id : k \in {k \in ToSet(C.keys[b]) : k.order}}
           stored == {id \in ids : C.orders[b][id] # {}}
           place(id) == CHOOSE i \in DOMAIN C.keys[b] : C.keys[b][i].id = id /\ C.keys[b][i].order
           excused ==
             \/ up["head"] = {}
             \/ \E call \in Calls \ {"head"} : \A v \in up[call] : C.heads[v] < b
             \/ \E id \in stored : \E o \in C.orders[b][id] : ~o.decodes
           faithful ==
             /\ {read.ok[i].order_id : i \in DOMAIN read.ok} =
                  {id \in stored : \E o \in C.orders[b][id] : Answerable(o, b, solver)}
             /\ \A i, k \in DOMAIN read.ok :
                  i < k => place(read.ok[i].order_id) < place(read.ok[k].order_id)
             /\ \A i \in DOMAIN read.ok : read.ok[i].deadline_ms > 0
<1> SUFFICES IF read = Failed THEN excused ELSE faithful
  BY Zenon DEF ReadFaithful
<1>1. /\ DOMAIN C.heads \subseteq Nat /\ up \in [Calls -> SUBSET DOMAIN C.heads]
      /\ size \in Nat \ {0} /\ MaxBlock \in Nat
  BY ChainReadsAssumption DEF IsChain
<1>2. \A v \in DOMAIN C.heads :
       /\ C.heads[v] \in Nat /\ C.heads[v] < MaxBlock
       /\ C.heads[v] \in DOMAIN C.keys /\ C.heads[v] \in DOMAIN C.orders
       /\ IsState(C.keys[C.heads[v]], C.orders[C.heads[v]])
  BY <1>1, ChainReadsAssumption DEF IsChain
<1>3. up["head"] \subseteq DOMAIN C.heads /\ up["header"] \subseteq DOMAIN C.heads
  BY <1>1 DEF Calls
<1>4. CASE up["head"] = {}
  <2>1. best_block(C, up) = Failed
    BY <1>1, <1>3, <1>4, BestBlock
  <2>2. read = Failed
    BY <2>1 DEF fetch_mempool_orders
  <2>3. QED
    BY <1>4, <2>2
<1>5. CASE up["head"] # {}
  <2>1. PICK v \in up["head"] : best_block(C, up) = Ok(C.heads[v])
    BY <1>1, <1>3, <1>5, BestBlock
  <2>2. b = C.heads[v] /\ best_block(C, up) # Failed
    BY <2>1, OkIsNoFailure
  <2>3. /\ b \in Nat /\ b < MaxBlock /\ b \in DOMAIN C.keys /\ b \in DOMAIN C.orders
        /\ IsState(C.keys[b], C.orders[b])
    BY <1>2, <1>3, <2>2
  <2> DEFINE K == C.keys[b]
             O == C.orders[b]
             T == [order : BOOLEAN, id : DOMAIN O]
             n == Len(K)
             keys == order_keys(C, up, b, size)
             header == read_storage(C, up, "header", b, [m \in DOMAIN C.keys |-> m])
             seen == [i \in DOMAIN keys.ok |->
                 LET found == order_id_from_key(keys.ok[i]) IN
                 IF found = {} THEN Ok({})
                 ELSE Visit(C, up, header.ok, cached, CHOOSE id \in found : TRUE, 0)]
             flat == FlattenSeq([i \in DOMAIN seen |-> SetToSeq(seen[i].ok)])
  <2>4. read = IF Failed \in {keys, header} THEN Failed
               ELSE IF \E i \in DOMAIN seen : seen[i] = Failed THEN Failed ELSE Ok(flat)
    BY <2>2 DEF fetch_mempool_orders
  <2>5. /\ K \in Seq(T)
        /\ \A i, k \in DOMAIN K : K[i].order /\ K[k].order /\ K[i].id = K[k].id => i = k
        /\ \A id \in DOMAIN O : AtMostOneOf(O[id]) /\ \A o \in O[id] : IsOrder(o)
    BY <2>3 DEF IsState
  <2>6. \A call \in Calls \ {"head"} : ~Reached(C, up, call, b) => excused
    <3> TAKE call \in Calls \ {"head"}
    <3> HAVE ~Reached(C, up, call, b)
    <3>1. \A w \in up[call] : C.heads[w] \in Nat /\ ~(b <= C.heads[w])
      BY <1>1, <1>2 DEF Reached
    <3> HIDE DEF b
    <3>2. \A w \in up[call] : C.heads[w] < b
      BY <2>3, <3>1
    <3>3. QED
      BY <3>2
  <2>7. keys = Ok(K) \/ (keys = Failed /\ excused)
    <3>1. {"keys", "more"} \subseteq Calls \ {"head"}
      BY DEF Calls
    <3> HIDE DEF b, keys, excused
    <3>2. \/ keys = Ok(K)
          \/ keys = Failed /\ \E call \in {"keys", "more"} : ~Reached(C, up, call, b)
      BY <1>1, <2>3, <2>5, WalkReturnsEveryKey DEF keys
    <3>3. QED
      BY <2>6, <3>1, <3>2
  <2>8. header = Ok(b) \/ (header = Failed /\ excused)
    <3> DEFINE map == [m \in DOMAIN C.keys |-> m]
    <3>1. map[b] = b
      BY <2>3
    <3>2. "header" \in Calls \ {"head"}
      BY DEF Calls
    <3> HIDE DEF map, b, excused
    <3>3. read_storage(C, up, "header", b, map) = IF Reached(C, up, "header", b) THEN Ok(map[b]) ELSE Failed
      BY <1>1, <1>3, PinnedRead
    <3>4. QED
      BY <2>6, <3>1, <3>2, <3>3 DEF map
  <2> HIDE DEF b, keys, header, excused, faithful, read
  <2>9. CASE keys = Failed \/ header = Failed
    <3>1. excused
      BY <2>7, <2>8, <2>9, OkIsNoFailure
    <3>2. read = Failed
      BY <2>4, <2>9
    <3>3. QED
      BY <3>1, <3>2
  <2>10. CASE ~(keys = Failed \/ header = Failed)
    <3>1. keys = Ok(K) /\ keys.ok = K /\ header = Ok(b) /\ header.ok = b
      BY <2>7, <2>8, <2>10, OkIsNoFailure
    <3>2. n \in Nat /\ DOMAIN K = 1 .. n /\ \A i \in 1 .. n : K[i] \in T
      <4> HIDE DEF K, T
      <4>1. QED
        BY <2>5, LenProperties, ElementOfSeq
    <3>3. \A i \in 1 .. n : K[i].order \in BOOLEAN /\ K[i].id \in DOMAIN O
      BY <3>2
    <3>4. DOMAIN seen = 1 .. n
      BY <3>1, <3>2
    <3>5. \A i \in 1 .. n :
            seen[i] = IF K[i].order THEN Visit(C, up, b, cached, K[i].id, 0) ELSE Ok({})
      <4> TAKE i \in 1 .. n
      <4>1. seen[i] = LET found == order_id_from_key(K[i]) IN
                      IF found = {} THEN Ok({})
                      ELSE Visit(C, up, b, cached, CHOOSE id \in found : TRUE, 0)
        BY <3>1, <3>2
      <4>2. CASE K[i].order
        <5>1. order_id_from_key(K[i]) = {K[i].id}
          BY <4>2 DEF order_id_from_key
        <5>2. (CHOOSE id \in {K[i].id} : TRUE) = K[i].id
          OBVIOUS
        <5> HIDE DEF seen
        <5>3. QED
          BY <4>1, <4>2, <5>1, <5>2
      <4>3. CASE ~K[i].order
        <5>1. order_id_from_key(K[i]) = {}
          BY <4>3 DEF order_id_from_key
        <5> HIDE DEF seen
        <5>2. QED
          BY <4>1, <4>3, <5>1
      <4>4. QED
        BY <4>2, <4>3
    <3> DEFINE may(id) == \E o \in O[id] : Answerable(o, b, solver)
               entry(id, d) == [order_id |-> id, deadline_ms |-> d]
    <3>6. \A id : (\E i \in 1 .. n : K[i].order /\ K[i].id = id) <=> id \in ids
      BY <3>2 DEF ToSet
    <3> HIDE DEF seen, flat, K, O, n, ids
    <3>7. ASSUME NEW i \in 1 .. n
          PROVE  \/ seen[i] = Failed /\ excused
                 \/ seen[i] = Ok({}) /\ ~(K[i].order /\ may(K[i].id))
                 \/ \E d \in Nat : d > 0 /\ seen[i] = Ok({entry(K[i].id, d)}) /\ K[i].order /\ may(K[i].id)
      <4>1. CASE ~K[i].order
        BY <3>5, <4>1
      <4>2. CASE K[i].order
        <5> DEFINE id == K[i].id
                   visit == Visit(C, up, b, cached, id, 0)
        <5>1. seen[i] = visit /\ id \in DOMAIN O /\ id \in ids
          BY <3>3, <3>5, <3>6, <4>2
        <5> HIDE DEF id
        <5>2. AtMostOneOf(C.orders[b][id]) /\ \A o \in C.orders[b][id] : IsOrder(o)
          BY <2>5, <5>1 DEF O
        <5>3. Visited(C, up, b, cached, id)
          BY ONLY <1>1, <2>3, <5>2, VisitFaithful
        <5>4. Solver(C, b, cached) = solver
          BY DEF Solver
        <5>5. (\E call \in {"storage", "solver"} : ~Reached(C, up, call, b)) => excused
          <6>1. {"storage", "solver"} \subseteq Calls \ {"head"}
            BY DEF Calls
          <6>2. QED
            BY <2>6, <6>1
        <5>6. (\E o \in O[id] : ~o.decodes) => excused
          BY <5>1 DEF excused, O
        <5> HIDE DEF visit, solver
        <5>7. QED
          BY <3>5, <4>2, <5>1, <5>3, <5>4, <5>5, <5>6 DEF O, id, Visited, visit
      <4>3. QED
        BY <4>1, <4>2
    <3> HIDE DEF may
    <3>8. CASE \E i \in 1 .. n : seen[i] = Failed
      <4>1. PICK i \in 1 .. n : seen[i] = Failed
        BY <3>8
      <4>2. excused
        BY <3>7, <4>1, OkIsNoFailure
      <4>3. read = Failed
        BY <2>4, <3>4, <3>8
      <4>4. QED
        BY <4>2, <4>3
    <3>9. CASE ~\E i \in 1 .. n : seen[i] = Failed
      <4> DEFINE S == [i \in 1 .. n |-> seen[i].ok]
      <4>1. read = Ok(flat) /\ read # Failed /\ read.ok = flat
        <5>1. read = Ok(flat)
          BY <2>4, <2>10, <3>4, <3>9
        <5>2. QED
          BY <5>1, OkIsNoFailure
      <4>2. \A i \in 1 .. n :
              \/ S[i] = {} /\ ~(K[i].order /\ may(K[i].id))
              \/ \E d \in Nat : d > 0 /\ S[i] = {entry(K[i].id, d)} /\ K[i].order /\ may(K[i].id)
        <5> TAKE i \in 1 .. n
        <5>1. S[i] = seen[i].ok
          OBVIOUS
        <5> HIDE DEF S
        <5>2. QED
          <6>1. seen[i] # Failed
            BY <3>9
          <6>2. CASE seen[i] = Ok({}) /\ ~(K[i].order /\ may(K[i].id))
            BY <5>1, <6>2, OkIsNoFailure
          <6>3. CASE \E d \in Nat : d > 0 /\ seen[i] = Ok({entry(K[i].id, d)}) /\ K[i].order /\ may(K[i].id)
            <7>1. PICK d \in Nat : d > 0 /\ seen[i] = Ok({entry(K[i].id, d)}) /\ K[i].order /\ may(K[i].id)
              BY <6>3
            <7>2. S[i] = {entry(K[i].id, d)}
              BY <5>1, <7>1, OkIsNoFailure
            <7>3. QED
              BY <7>1, <7>2
          <6>4. QED
            BY <3>7, <6>1, <6>2, <6>3
      <4> DEFINE q == [i \in DOMAIN seen |-> SetToSeq(seen[i].ok)]
      <4>3. /\ Len(q) = n /\ (n = 0 => q = <<>>) /\ flat = FlattenSeq(q)
            /\ \A k \in 1 .. n : q[k] = SetToSeq(S[k])
        <5>1. \A k \in 1 .. n : q[k] = SetToSeq(S[k])
          BY <3>4
        <5>2. DOMAIN q = 1 .. n
          BY <3>4
        <5>3. q = [k \in 1 .. n |-> q[k]]
          BY <5>2
        <5>4. flat = FlattenSeq(q)
          BY DEF flat
        <5> HIDE DEF q
        <5>5. Len(q) = n
          BY <3>2, <5>2, <5>3
        <5>6. n = 0 => q = <<>>
          BY <5>3
        <5>7. QED
          BY <5>1, <5>4, <5>5, <5>6
      <4> HIDE DEF S, q
      <4>4. \A k \in 1 .. n : AtMostOneOf(S[k])
        BY <4>2 DEF AtMostOneOf
      <4>5. \A k \in 1 .. n : \A x \in S[k] :
              K[k].order /\ may(K[k].id) /\ x.order_id = K[k].id /\ x.deadline_ms > 0
        BY <4>2
      <4>6. \A k, l \in 1 .. n : \A x \in S[k] : x \in S[l] => k = l
        BY <2>5, <3>2, <4>5
      <4> DEFINE U == UNION {S[k] : k \in 1 .. n}
      <4>15. \A k \in 1 .. n : AtMostOneOf(S[k]) /\ S[k] \subseteq U
        BY <4>4
      <4> HIDE DEF U
      <4>7. flat \in Seq(U) /\ InOrder(flat, S, n)
        BY ONLY <3>2, <4>3, <4>15, <4>6, FlattenOptions
      <4>8. \A j \in DOMAIN flat : \E k \in 1 .. n : flat[j] \in S[k]
        BY <4>7 DEF InOrder
      <4>9. \A k \in 1 .. n : K[k].order => place(K[k].id) = k
        <5> TAKE k \in 1 .. n
        <5> HAVE K[k].order
        <5>1. \A i \in DOMAIN K : K[i].id = K[k].id /\ K[i].order => i = k
          BY <2>5, <3>2
        <5>2. QED
          BY <3>2, <5>1 DEF K
      <4> HIDE DEF place
      <4>10. {flat[i].order_id : i \in DOMAIN flat} = {id \in stored : may(id)}
        <5>1. ASSUME NEW i \in DOMAIN flat PROVE flat[i].order_id \in {id \in stored : may(id)}
          <6>1. PICK k \in 1 .. n : flat[i] \in S[k]
            BY <4>8
          <6>2. flat[i].order_id = K[k].id /\ K[k].order /\ may(K[k].id)
            BY <4>5, <6>1
          <6>3. K[k].id \in ids
            BY <3>6, <6>2
          <6>4. C.orders[b][K[k].id] # {}
            BY <6>2 DEF may, O
          <6>5. QED
            BY <6>2, <6>3, <6>4
        <5>2. ASSUME NEW id \in stored, may(id) PROVE \E i \in DOMAIN flat : flat[i].order_id = id
          <6>1. PICK k \in 1 .. n : K[k].order /\ K[k].id = id
            BY <3>6, <5>2
          <6>2. PICK d \in Nat : S[k] = {entry(K[k].id, d)}
            BY <4>2, <5>2, <6>1
          <6>3. PICK j \in DOMAIN flat : flat[j] = entry(id, d)
            BY <4>7, <6>1, <6>2 DEF InOrder
          <6>4. QED
            BY <6>3
        <5>3. QED
          BY <5>1, <5>2
      <4>11. \A i, k \in DOMAIN flat :
                  i < k => place(flat[i].order_id) < place(flat[k].order_id)
        <5> SUFFICES ASSUME NEW i \in DOMAIN flat, NEW k \in DOMAIN flat, i < k
                     PROVE  place(flat[i].order_id) < place(flat[k].order_id)
          OBVIOUS
        <5>1. PICK x \in 1 .. n : flat[i] \in S[x]
          BY <4>8
        <5>2. PICK y \in 1 .. n : flat[k] \in S[y]
          BY <4>8
        <5>3. x < y
          BY <4>7, <5>1, <5>2 DEF InOrder
        <5>4. place(flat[i].order_id) = x /\ place(flat[k].order_id) = y
          BY <4>5, <4>9, <5>1, <5>2
        <5>5. QED
          BY <5>3, <5>4
      <4>12. \A i \in DOMAIN flat : flat[i].deadline_ms > 0
        BY <4>5, <4>8
      <4>13. faithful
        BY <4>1, <4>10, <4>11, <4>12 DEF faithful, may, O, place
      <4>14. QED
        BY <4>1, <4>13
    <3>10. QED
      BY <3>8, <3>9
  <2>11. QED
    BY <2>9, <2>10
<1>6. QED
  BY <1>4, <1>5

\* fetch_mempool_orders returns the orders the account may answer.
LEMMA OrdersHold == OrdersFaithful
  BY OrdersRead DEF OrdersFaithful

\* A pool of one entry is read as what decode_pending_proof makes of the entry.
LEMMA OneEntry ==
  ASSUME NEW e, NEW ctx, NEW cached, NEW spec, NEW fetched,
         runtime_tx_context(cached, spec, fetched) = ctx
  PROVE  /\ fetch_pending_proofs(<<e>>, cached, spec, fetched) # <<>> <=> decode_pending_proof(e, ctx) # {}
         /\ fetch_pending_proofs(<<e>>, cached, spec, fetched) # <<>> =>
              fetch_pending_proofs(<<e>>, cached, spec, fetched)[1] = [account |-> e.account, proof |-> e.call.proof]
<1> DEFINE D == decode_pending_proof(e, ctx)
           q == [i \in DOMAIN <<e>> |-> SetToSeq(decode_pending_proof(<<e>>[i], ctx))]
           r == [account |-> e.account, proof |-> e.call.proof]
           F == fetch_pending_proofs(<<e>>, cached, spec, fetched)
<1>1. D \subseteq {r}
  BY DEF decode_pending_proof
<1>2. F = FlattenSeq(q)
  BY DEF fetch_pending_proofs
<1>3. DOMAIN <<e>> = 1 .. 1 /\ <<e>>[1] = e /\ \A k \in 1 .. 1 : k = 1
  OBVIOUS
<1>4. Len(q) = 1 /\ \A k \in 1 .. 1 : q[k] = SetToSeq(D)
  <2>1. \A k \in 1 .. 1 : q[k] = SetToSeq(D)
    BY <1>3
  <2>2. DOMAIN q = 1 .. 1 /\ q = [i \in 1 .. 1 |-> q[i]]
    BY <1>3
  <2> HIDE DEF q
  <2>3. Len(q) = 1
    BY <2>2
  <2>4. QED
    BY <2>1, <2>3
<1> DEFINE S == [k \in 1 .. 1 |-> D]
<1>5. \A k \in 1 .. 1 : AtMostOneOf(S[k]) /\ S[k] \subseteq {r} /\ S[k] = D
  BY <1>1 DEF AtMostOneOf
<1>6. \A k, l \in 1 .. 1 : \A x \in S[k] : x \in S[l] => k = l
  OBVIOUS
<1>7. \A k \in 1 .. 1 : q[k] = SetToSeq(S[k])
  BY <1>4, <1>5
<1> HIDE DEF S, D, q, F, r
<1>8. F \in Seq({r}) /\ InOrder(F, S, 1)
  <2>1. 1 \in Nat /\ (1 = 0 => q = <<>>) /\ Len(q) = 1
    BY <1>4
  <2>2. QED
    BY ONLY <1>2, <1>5, <1>6, <1>7, <2>1, FlattenOptions
<1>9. F # <<>> => 1 \in DOMAIN F /\ F[1] = r
  BY <1>8
<1>10. F # <<>> => D # {}
  <2>1. F # <<>> => \E k \in 1 .. 1 : F[1] \in S[k]
    BY <1>8, <1>9 DEF InOrder
  <2>2. QED
    BY <1>5, <2>1
<1>11. D # {} => F # <<>>
  <2> SUFFICES ASSUME NEW x \in D PROVE F # <<>>
    OBVIOUS
  <2>1. 1 \in 1 .. 1
    OBVIOUS
  <2>2. x \in S[1]
    BY <1>5, <2>1
  <2>3. \E j \in DOMAIN F : F[j] = x
    BY <1>8, <2>1, <2>2 DEF InOrder
  <2>4. QED
    BY <2>3
<1>12. QED
  BY <1>9, <1>10, <1>11 DEF D, F, r

\* fetch_pending_proofs believes the proofs of the current runtime.
LEMMA PendingHolds == PendingFaithful
<1> SUFFICES ASSUME NEW now \in DOMAIN Runtimes, NEW cached \in {{}} \union {{Runtimes[n]} : n \in 1 .. now},
                    NEW spec \in {{}, {Runtimes[now].spec_version}}, NEW e \in PoolEntries
             PROVE  LET believed == fetch_pending_proofs(<<e>>, cached, spec, Runtimes[now])
          mine == build_hybrid_signed_extrinsic(Me, e.call, 0, Runtimes[now])
      IN  /\ believed # <<>> =>
               /\ e.call.name = "submit_proof" /\ believed[1].account = e.public
               /\ e.extra.mode = "disabled" => e.signed[3] = encode_additional(Runtimes[now])
                                               /\ e.signed[1] = e.call
          /\ e.call.name = "submit_proof" =>
               fetch_pending_proofs(<<mine>>, cached, spec, Runtimes[now]) # <<>>
  BY DEF PendingFaithful
<1> DEFINE ctx == Runtimes[now]
           believed == fetch_pending_proofs(<<e>>, cached, spec, ctx)
           mine == build_hybrid_signed_extrinsic(Me, e.call, 0, ctx)
<1>1. runtime_tx_context(cached, spec, ctx) = ctx
  <2>1. CASE ~\E c \in cached : c.spec_version \in spec
    BY <2>1 DEF runtime_tx_context
  <2>2. CASE \E c \in cached : c.spec_version \in spec
    <3>1. PICK n \in 1 .. now : cached = {Runtimes[n]}
      BY <2>2
    <3>2. Runtimes[n].spec_version = Runtimes[now].spec_version
      BY <2>2, <3>1
    <3>3. n \in DOMAIN Runtimes
      BY RuntimesAssumption
    <3>6. Runtimes[n] = ctx
      BY <3>2, <3>3, RuntimesAssumption
    <3>4. (CHOOSE c \in cached : TRUE) = ctx
      BY <3>1, <3>6
    <3>5. QED
      BY <2>2, <3>4 DEF runtime_tx_context
  <2>3. QED
    BY <2>1, <2>2
<1> HIDE DEF ctx
<1>2. /\ believed # <<>> <=> decode_pending_proof(e, ctx) # {}
      /\ believed # <<>> => believed[1] = [account |-> e.account, proof |-> e.call.proof]
  BY <1>1, OneEntry
<1>3. fetch_pending_proofs(<<mine>>, cached, spec, ctx) # <<>> <=> decode_pending_proof(mine, ctx) # {}
  BY <1>1, OneEntry
<1> HIDE DEF believed
<1>4. ASSUME believed # <<>>
      PROVE  /\ e.call.name = "submit_proof" /\ believed[1].account = e.public
             /\ e.extra.mode = "disabled" => e.signed[3] = encode_additional(ctx) /\ e.signed[1] = e.call
  <2>1. PICK m \in read_signed_extensions(e.extra) : e.call.name = "submit_proof" /\ signature_holds(e, m, ctx)
    BY <1>2, <1>4 DEF decode_pending_proof
  <2>2. m = e.extra.mode
    BY <2>1 DEF read_signed_extensions
  <2>3. believed[1].account = e.account
    BY <1>2, <1>4
  <2>4. e.public = e.account
    BY <2>1 DEF signature_holds
  <2>5. ASSUME e.extra.mode = "disabled" PROVE e.signed = <<e.call, e.extra, encode_additional(ctx)>>
    BY <2>1, <2>2, <2>5 DEF signature_holds, signing_payload
  <2>6. QED
    BY <2>1, <2>3, <2>4, <2>5
<1>5. ASSUME e.call.name = "submit_proof" PROVE decode_pending_proof(mine, ctx) # {}
  <2>1. /\ mine.framed /\ mine.version = "signed_v4" /\ mine.address = "Id" /\ mine.call = e.call
        /\ mine.rest = FALSE /\ mine.public = mine.account
        /\ mine.extra = encode_extra(0)
        /\ mine.signed = signing_payload(mine.call, mine.extra, encode_additional(ctx))
    BY DEF build_hybrid_signed_extrinsic
  <2>2. "disabled" \in read_signed_extensions(mine.extra)
    BY <2>1 DEF encode_extra, read_signed_extensions
  <2> HIDE DEF mine
  <2>3. signature_holds(mine, "disabled", ctx)
    BY <2>1 DEF signature_holds
  <2>4. QED
    BY <1>5, <2>1, <2>2, <2>3 DEF decode_pending_proof
<1>6. QED
  BY <1>3, <1>4, <1>5 DEF believed, ctx

\* The slot of the topology cache holds what is registered under its key.
CacheSound(cache) == \A c \in cache : c.meta = Meta(c.hash)

\* topology_meta answers for the hash asked for, from the slot or the chain.
LEMMA CacheKept ==
  ASSUME NEW cache, CacheSound(cache), NEW known, NEW h, \A c \in cache : c.hash \in known
  PROVE  /\ topology_meta(cache, known, h).meta = {Meta(g) : g \in {h} \intersect known}
         /\ CacheSound(topology_meta(cache, known, h).cache)
         /\ \A c \in topology_meta(cache, known, h).cache : c.hash \in known
<1> DEFINE cached == {c.meta : c \in {c \in cache : c.hash = h}}
           found == quantum_pow_call_by_hash(known, h)
<1>1. found = {Meta(g) : g \in {h} \intersect known}
  BY DEF quantum_pow_call_by_hash
<1>2. topology_meta(cache, known, h) =
        IF cached # {} THEN [meta |-> cached, cache |-> cache]
        ELSE [meta |-> found,
              cache |-> IF found = {} THEN cache ELSE {[hash |-> h, meta |-> m] : m \in found}]
  BY DEF topology_meta
<1>3. cached \subseteq {Meta(h)} /\ (cached # {} => h \in known)
  BY DEF CacheSound
<1> HIDE DEF cached, found
<1>4. CASE cached # {}
  <2>1. cached = {Meta(h)} /\ {h} \intersect known = {h}
    BY <1>3, <1>4
  <2>2. QED
    BY <1>2, <1>4, <2>1
<1>5. CASE cached = {} /\ found = {}
  BY <1>1, <1>2, <1>5
<1>6. CASE cached = {} /\ found # {}
  <2>1. h \in known /\ found = {Meta(h)}
    BY <1>1, <1>6
  <2>2. topology_meta(cache, known, h) = [meta |-> found, cache |-> {[hash |-> h, meta |-> Meta(h)]}]
    BY <1>2, <1>6, <2>1
  <2>3. QED
    BY <1>1, <2>1, <2>2 DEF CacheSound
<1>7. QED
  BY <1>4, <1>5, <1>6

\* What is registered under a hash.
MetaIn(known, hash) == {Meta(h) : h \in {hash} \intersect known}

\* N polls that want hashes[1] to hashes[N], of a chain where a topology once registered stays.
PollsOf(polls, N, hashes, reg) ==
  /\ Len(polls) = N /\ DOMAIN polls = 1 .. N
  /\ \A n \in 1 .. N :
       /\ snapshot_topology_hash(polls[n].chosen, polls[n].default) = {hashes[n]}
       /\ polls[n].registered = reg[n]
  /\ \A n \in 2 .. N : reg[n - 1] \subseteq reg[n]

\* However many polls there were, each snapshot carries what its own hash is
\* registered as at that poll (topology_meta, fetch_snapshot).
THEOREM SnapshotsCarryOwnTopology ==
  ASSUME NEW N \in Nat, NEW hashes, NEW reg, NEW polls, PollsOf(polls, N, hashes, reg)
  PROVE  \A n \in 1 .. N : Polls(polls)[n] = MetaIn(reg[n], hashes[n])
<1> USE DEF PollsOf
<1> DEFINE first == [meta |-> {}, cache |-> {}]
           wanted(n) == snapshot_topology_hash(polls[n].chosen, polls[n].default)
           next(n, before) ==
             IF wanted(n) = {} THEN [meta |-> {}, cache |-> before]
             ELSE topology_meta(before, polls[n].registered, CHOOSE h \in wanted(n) : TRUE)
           Step(f, m) == [n \in 0 .. m |-> IF n = 0 THEN first ELSE next(n, f[n - 1].cache)]
           after == CHOOSE f : f = Step(f, N)
           has(m) == \E f : f = Step(f, m)
           bad == {m \in Nat : ~has(m)}
<1>1. \A n \in 1 .. N : Polls(polls)[n] = after[n].meta
  BY DEF Polls
<1>2. \A n \in 1 .. N : \A before : next(n, before) = topology_meta(before, reg[n], hashes[n])
  <2> TAKE n \in 1 .. N
  <2> TAKE before
  <2>1. wanted(n) = {hashes[n]}
    OBVIOUS
  <2>2. (CHOOSE h \in {hashes[n]} : TRUE) = hashes[n]
    OBVIOUS
  <2> HIDE DEF wanted
  <2>3. QED
    BY <2>1, <2>2
<1> HIDE DEF next, wanted, first
<1>3. has(0)
  <2> DEFINE f == [n \in 0 .. 0 |-> first]
  <2>1. \A n \in 0 .. 0 : n = 0
    OBVIOUS
  <2>2. f = Step(f, 0)
    BY <2>1
  <2>3. QED
    BY <2>2
<1>4. ASSUME NEW m \in Nat, has(m) PROVE has(m + 1)
  <2>1. PICK f : f = Step(f, m)
    BY <1>4
  <2> DEFINE g == [n \in 0 .. m + 1 |-> IF n = m + 1 THEN next(m + 1, f[m].cache) ELSE f[n]]
  <2>2. \A n \in 0 .. m : f[n] = IF n = 0 THEN first ELSE next(n, f[n - 1].cache)
    BY <2>1
  <2>3. \A n \in 0 .. m + 1 : g[n] = IF n = 0 THEN first ELSE next(n, g[n - 1].cache)
    <3> TAKE n \in 0 .. m + 1
    <3>1. CASE n = m + 1
      <4>1. n # 0 /\ n - 1 = m /\ m \in 0 .. m + 1 /\ m # m + 1
        BY <3>1
      <4>2. g[n] = next(n, f[m].cache) /\ g[m] = f[m]
        BY <3>1, <4>1
      <4>3. QED
        BY <4>1, <4>2
    <3>2. CASE n # m + 1
      <4>1. n \in 0 .. m
        BY <3>2
      <4>2. g[n] = f[n]
        BY <3>2
      <4>3. n # 0 => n - 1 \in 0 .. m + 1 /\ n - 1 # m + 1
        BY <4>1
      <4>4. n # 0 => g[n - 1] = f[n - 1]
        BY <4>3
      <4> HIDE DEF g
      <4>5. QED
        BY <2>2, <4>1, <4>2, <4>4
    <3>3. QED
      BY <3>1, <3>2
  <2>4. g = [n \in 0 .. m + 1 |-> g[n]]
    OBVIOUS
  <2> HIDE DEF g
  <2>5. g = Step(g, m + 1)
    BY <2>3, <2>4
  <2>6. QED
    BY <2>5
<1>5. has(N)
  <2> HIDE DEF has
  <2>1. SUFFICES ASSUME bad # {} PROVE FALSE
    OBVIOUS
  <2>2. PICK m \in bad : \A y \in bad : m <= y
    BY <2>1, LeastNat
  <2>3. m \in Nat /\ ~has(m) /\ m # 0
    BY <1>3, <2>2
  <2>4. m - 1 \in Nat /\ m - 1 + 1 = m /\ ~(m <= m - 1)
    BY <2>3
  <2>5. has(m - 1)
    BY <2>2, <2>4
  <2>6. has(m - 1 + 1)
    BY <1>4, <2>4, <2>5
  <2>7. QED
    BY <2>3, <2>4, <2>6
<1>6. after = Step(after, N)
  BY <1>5
<1> HIDE DEF after
<1>7. after[0] = first /\ \A n \in 1 .. N : after[n] = topology_meta(after[n - 1].cache, reg[n], hashes[n])
  <2>1. \A n \in 0 .. N : after[n] = IF n = 0 THEN first ELSE next(n, after[n - 1].cache)
    BY <1>6
  <2>2. 0 \in 0 .. N /\ \A n \in 1 .. N : n \in 0 .. N /\ n # 0
    OBVIOUS
  <2>3. QED
    BY <1>2, <2>1, <2>2
<1> DEFINE Kept(n) == /\ CacheSound(after[n].cache)
                      /\ n # 0 => /\ after[n].meta = MetaIn(reg[n], hashes[n])
                                  /\ \A c \in after[n].cache : c.hash \in reg[n]
<1>8. after[0].cache = {} /\ Kept(0)
  BY <1>7 DEF first, CacheSound
<1>9. ASSUME NEW n \in 1 .. N, Kept(n - 1) PROVE Kept(n)
  <2> DEFINE before == after[n - 1].cache
  <2>1. CacheSound(before)
    BY <1>9
  <2>2. \A c \in before : c.hash \in reg[n]
    <3>1. CASE n = 1
      BY <1>8, <3>1
    <3>2. CASE n # 1
      <4>3. n - 1 # 0 /\ n \in 2 .. N
        BY <3>2
      <4>1. n - 1 # 0 /\ reg[n - 1] \subseteq reg[n]
        BY <4>3
      <4>2. QED
        BY <1>9, <4>1
    <3>3. QED
      BY <3>1, <3>2
  <2>3. after[n] = topology_meta(before, reg[n], hashes[n]) /\ n # 0
    BY <1>7
  <2> HIDE DEF before
  <2>4. QED
    BY <2>1, <2>2, <2>3, CacheKept DEF MetaIn
<1> HIDE DEF Kept
<1>10. \A n \in 0 .. N : Kept(n)
  <2> DEFINE lost == {n \in 0 .. N : ~Kept(n)}
  <2>1. SUFFICES ASSUME lost # {} PROVE FALSE
    OBVIOUS
  <2>2. lost \subseteq Nat
    OBVIOUS
  <2>3. PICK n \in lost : \A y \in lost : n <= y
    BY <2>1, <2>2, LeastNat
  <2>4. n \in 0 .. N /\ ~Kept(n) /\ n # 0
    BY <1>8, <2>3
  <2>5. n \in 1 .. N /\ n - 1 \in 0 .. N /\ ~(n <= n - 1)
    BY <2>4
  <2>6. Kept(n - 1)
    BY <2>3, <2>5
  <2>7. QED
    BY <1>9, <2>4, <2>5, <2>6
<1>11. \A n \in 1 .. N : after[n].meta = MetaIn(reg[n], hashes[n])
  <2>1. \A n \in 1 .. N : n \in 0 .. N /\ n # 0
    OBVIOUS
  <2>2. QED
    BY <1>10, <2>1 DEF Kept
<1>12. QED
  BY <1>1, <1>11

\* Three polls, and the default topology.
LEMMA TopologiesHold == TopologyFaithful
<1> SUFFICES ASSUME NEW hashes \in [1 .. 3 -> Hashes], NEW chosen \in [1 .. 3 -> BOOLEAN],
                    NEW from \in [Hashes -> 1 .. 4], NEW n \in 1 .. 3
             PROVE  LET known(k) == {h \in Hashes : from[h] <= k}
                        polls == [k \in 1 .. 3 |->
                          [chosen |-> IF chosen[k] THEN {hashes[k]} ELSE {},
                           default |-> IF chosen[k] THEN Hashes \ {hashes[k]} ELSE {hashes[k]},
                           registered |-> known(k)]]
                    IN  /\ Polls(polls)[n] = {Meta(h) : h \in {hashes[n]} \intersect known(n)}
                        /\ (fetch_default_topology({}, known(n), {hashes[n]}) = Failed)
                             <=> hashes[n] \notin known(n)
  BY Zenon DEF TopologyFaithful
<1> DEFINE known(k) == {h \in Hashes : from[h] <= k}
           polls == [k \in 1 .. 3 |->
                       [chosen |-> IF chosen[k] THEN {hashes[k]} ELSE {},
                        default |-> IF chosen[k] THEN Hashes \ {hashes[k]} ELSE {hashes[k]},
                        registered |-> known(k)]]
           reg == [k \in 1 .. 3 |-> known(k)]
<1>1. reg[1] \subseteq reg[2] /\ reg[2] \subseteq reg[3]
  <2>1. \A h \in Hashes : from[h] \in Nat
    OBVIOUS
  <2>2. \A h \in Hashes : (from[h] <= 1 => from[h] <= 2) /\ (from[h] <= 2 => from[h] <= 3)
    BY <2>1
  <2>3. reg[1] = known(1) /\ reg[2] = known(2) /\ reg[3] = known(3)
    OBVIOUS
  <2>4. QED
    BY <2>2, <2>3
<1>2. 3 \in Nat /\ Len(polls) = 3 /\ DOMAIN polls = 1 .. 3
  OBVIOUS
<1> HIDE DEF known
<1>3. /\ \A k \in 1 .. 3 :
           /\ snapshot_topology_hash(polls[k].chosen, polls[k].default) = {hashes[k]}
           /\ polls[k].registered = reg[k]
      /\ \A k \in 2 .. 3 : reg[k - 1] \subseteq reg[k]
  <2>1. \A k \in 1 .. 3 :
          /\ snapshot_topology_hash(polls[k].chosen, polls[k].default) = {hashes[k]}
          /\ polls[k].registered = reg[k]
    BY DEF snapshot_topology_hash
  <2>2. \A k \in 2 .. 3 : (k = 2 /\ k - 1 = 1) \/ (k = 3 /\ k - 1 = 2)
    OBVIOUS
  <2> HIDE DEF reg, polls
  <2>3. QED
    BY <1>1, <2>1, <2>2
<1>4. reg[n] = known(n)
  OBVIOUS
<1> HIDE DEF polls, reg
<1>5. \A k \in 1 .. 3 : Polls(polls)[k] = MetaIn(reg[k], hashes[k])
  <2>1. PICK N \in Nat : N = 3
    OBVIOUS
  <2>2. PollsOf(polls, N, hashes, reg)
    BY <1>2, <1>3, <2>1 DEF PollsOf
  <2>3. \A k \in 1 .. N : Polls(polls)[k] = MetaIn(reg[k], hashes[k])
    BY <2>2, SnapshotsCarryOwnTopology
  <2>4. QED
    BY <2>1, <2>3
<1>6. Polls(polls)[n] = {Meta(h) : h \in {hashes[n]} \intersect known(n)}
  BY <1>4, <1>5 DEF MetaIn
<1>7. (fetch_default_topology({}, known(n), {hashes[n]}) = Failed) <=> hashes[n] \notin known(n)
  <2> DEFINE meta == topology_meta({}, known(n), hashes[n]).meta
  <2>1. (CHOOSE h \in {hashes[n]} : TRUE) = hashes[n] /\ {hashes[n]} # {}
    OBVIOUS
  <2>2. fetch_default_topology({}, known(n), {hashes[n]}) = IF meta = {} THEN Failed ELSE Ok(meta)
    BY <2>1 DEF fetch_default_topology
  <2>3. meta = {Meta(g) : g \in {hashes[n]} \intersect known(n)}
    <3>1. CacheSound({}) /\ \A c \in {} : c.hash \in known(n)
      BY DEF CacheSound
    <3>2. QED
      BY <3>1, CacheKept
  <2>4. meta = {} <=> hashes[n] \notin known(n)
    BY <2>3
  <2> HIDE DEF meta
  <2>5. QED
    BY <2>2, <2>4, OkIsNoFailure
<1>8. QED
  BY <1>6, <1>7 DEF polls, known

\* What the live client reads is what the chain holds, for every chain, outage,
\* page size, runtime history and pool (chain/real.rs, chain/orders.rs, chain/pool.rs).
THEOREM ReadsAreSound == Spec => []ReadsSound
<1>1. ReadsSound
  BY OrdersHold, PendingHolds, TopologiesHold DEF ReadsSound, ReadsFaithful
<1>2. QED
  BY <1>1, PTL
=============================================================================
