------------------------------- MODULE JobFlow -------------------------------
(***************************************************************************)
(* Where a job is between staging and its answer: the router's per-miner   *)
(* queues and credits (router.rs), the in-flight table, the salts and the  *)
(* mempool order book (session.rs, runtime.rs), at the granularity of the  *)
(* coordinator's one state mutex: each action below is one critical        *)
(* section of a session, a dispatcher, a supervisor or the feeder, and the *)
(* actors interleave between critical sections.                            *)
(*                                                                         *)
(* A queue is the set of its jobs: its order decides which job is sent     *)
(* first, never where a job may be.                                        *)
(***************************************************************************)
EXTENDS Naturals, FiniteSets

CONSTANTS
  Miners,          \* miner ids; numbers, because routing takes the first id in sort order
  Orders,          \* ids of mempool orders the chain may list as open
  Envelopes,       \* capability envelopes a miner may advertise (MinerCaps)
  LeaseEnvelopes,  \* the envelopes for which accepts_leases holds
  Topologies,      \* session graphs
  Fits,            \* Fits[e][t]: the job classes envelope e takes under graph t
  MaxDepth,        \* bound: deepest staging window of one top-up
  MaxGrant,        \* bound: credits of one JobRequest
  MaxCredits,      \* bound: credits a miner may hold
  MaxSalt,         \* bound: salts the feeder draws
  MaxGeneration    \* bound: generations the feeder enters

\* A job's class: a plain PoW sample, a PoW lease, or a mempool order.
Classes == {"sample", "generate", "order"}

Kinds == {"sample", "generate"}

ASSUME JobFlowConstants ==
  /\ Miners \subseteq Nat
  /\ Orders \subseteq Nat /\ IsFiniteSet(Orders)
  /\ LeaseEnvelopes \subseteq Envelopes
  /\ Envelopes # {} /\ Topologies # {}
  /\ Fits \in [Envelopes -> [Topologies -> SUBSET Classes]]
  /\ {MaxDepth, MaxGrant, MaxCredits, MaxSalt, MaxGeneration} \subseteq Nat

VARIABLES
  \* Router
  registered,        \* miners that completed a handshake at least once
  caps,              \* capability envelope per miner
  unsupported_kinds, \* job kinds a miner rejected as unsupported
  staged,            \* jobs queued per miner
  granted_credits,   \* dispatches a miner has asked for and not received
  unroutable,        \* jobs no capable miner could take
  topology,          \* graph the router judges capability against
  \* CoordinatorState
  inflight,          \* jobs dispatched and unanswered, per owning miner
  salts,             \* plain jobs whose salt is remembered
  generation,        \* the feeder's round
  mined_generation,  \* newest round a Result counted for: {} is None, {g} is Some(g)
  mempool_orders,    \* orders staged once already
  \* feeder
  phase,             \* "idle", "walking", "mining" or "awaiting"
  salt_ctr,          \* last salt drawn
  \* environment and history
  sent,              \* jobs ever handed to a session of a miner: it may answer these at any time
  reading,           \* Results of leases past the first lock: <<job, was it in flight>>
  answering,         \* order jobs completed by a Result, submission under way
  settled            \* orders answered for good, refused, or unusable

routerVars == <<registered, caps, unsupported_kinds, staged, granted_credits,
                unroutable, topology>>
orderVars  == <<mempool_orders, answering, settled>>
feederVars == <<generation, phase, salt_ctr>>
sessionVars == <<sent, reading>>
vars == <<routerVars, inflight, salts, mined_generation, orderVars, feederVars, sessionVars>>

Job == [class : Classes, id : Nat, generation : Nat]

\* JobKind: orders and plain PoW jobs are both ISING_SAMPLE.
Kind(j) == IF j.class = "generate" THEN "generate" ELSE "sample"

OrderJob(o) == [class |-> "order", id |-> o, generation |-> 0]

Dispatched(j) == \E m \in Miners : j \in inflight[m]
Placed(j)     == Dispatched(j) \/ \E m \in Miners : j \in staged[m]
-----------------------------------------------------------------------------
(***************************************************************************)
(* Routing                                                                 *)
(***************************************************************************)

Capable(m, j) ==
  /\ Kind(j) \notin unsupported_kinds[m]
  /\ j.class \in Fits[caps[m]][topology]

Candidates(j, excluded) == {m \in registered \ excluded : Capable(m, j)}

First(ids, m) == m \in ids /\ \A k \in ids : m <= k

\* route_excluding: the first capable id in sort order takes the job.
RoutesTo(j, excluded, m) == First(Candidates(j, excluded), m)

Unroutable(j, excluded) == Candidates(j, excluded) = {}

RetainedOffByOne(jobs, max_generation) ==
  {j \in jobs : j.generation = 0 \/ j.generation >= max_generation}

\* Jobs that Router::cancel and cancel_inflight keep.
Retained(jobs, max_generation) ==
  {j \in jobs : j.generation = 0 \/ j.generation > max_generation}

NotedAnyResult(j) == {generation}

\* note_result: only a Result for a job of the current round counts.
NotedResult(j) == IF j.generation = generation THEN {generation} ELSE mined_generation
-----------------------------------------------------------------------------
Init ==
  /\ registered = {}
  /\ caps \in [Miners -> Envelopes]
  /\ unsupported_kinds = [m \in Miners |-> {}]
  /\ staged = [m \in Miners |-> {}]
  /\ granted_credits = [m \in Miners |-> 0]
  /\ unroutable = {}
  /\ topology \in Topologies
  /\ inflight = [m \in Miners |-> {}]
  /\ salts = {}
  /\ generation = 0
  /\ mined_generation = {}
  /\ mempool_orders = {}
  /\ phase = "idle"
  /\ salt_ctr = 0
  /\ sent = [m \in Miners |-> {}]
  /\ reading = {}
  /\ answering = {}
  /\ settled = {}

(***************************************************************************)
(* Session: handshake, capability snapshots and the dispatcher             *)
(***************************************************************************)

\* Registration after a Hello. Jobs re-staged on this id while it was down stay.
RegisterMiner(m, e) ==
  /\ registered' = registered \union {m}
  /\ caps' = [caps EXCEPT ![m] = e]
  /\ unsupported_kinds' = [unsupported_kinds EXCEPT ![m] = {}]
  /\ granted_credits' = [granted_credits EXCEPT ![m] = 0]
  /\ UNCHANGED <<staged, unroutable, topology, inflight, salts, mined_generation,
                 orderVars, feederVars, sessionVars>>

\* A live Capabilities snapshot: queued jobs that no longer fit move on.
UpdateCapabilities(m, e) ==
  /\ m \in registered
  /\ caps' = [caps EXCEPT ![m] = e]
  /\ unsupported_kinds' = [unsupported_kinds EXCEPT ![m] = {}]
  /\ UNCHANGED <<registered, topology>>
  /\ LET misfits == {j \in staged[m] : ~Capable(m, j)'}
     IN  /\ staged' = [x \in Miners |->
                         IF x = m THEN staged[m] \ misfits
                         ELSE staged[x] \union {j \in misfits : RoutesTo(j, {m}, x)'}]
         /\ unroutable' = unroutable \union {j \in misfits : Unroutable(j, {m})'}
  /\ UNCHANGED <<granted_credits, inflight, salts, mined_generation, orderVars,
                 feederVars, sessionVars>>

(***************************************************************************)
(* dispatch_granted under the lock: add the credits, then pop until they   *)
(* are spent or the queue is empty. A popped job the miner can no longer   *)
(* take moves to another miner and costs no credit. A grant of zero is a   *)
(* wakeup.                                                                 *)
(***************************************************************************)
DispatchGranted(m, credits) ==
  /\ m \in registered
  /\ granted_credits[m] + credits <= MaxCredits
  /\ \E popped \in SUBSET staged[m] :
       LET pool  == granted_credits[m] + credits
           batch == {j \in popped : Capable(m, j)}
           moved == popped \ batch
       IN  /\ pool = 0 => popped = {}
           /\ Cardinality(batch) <= pool
           /\ Cardinality(batch) = pool \/ popped = staged[m]
           /\ granted_credits' = [granted_credits EXCEPT ![m] = pool - Cardinality(batch)]
           /\ staged' = [x \in Miners |->
                           IF x = m THEN staged[m] \ popped
                           ELSE staged[x] \union {j \in moved : RoutesTo(j, {m}, x)}]
           /\ unroutable' = unroutable \union {j \in moved : Unroutable(j, {m})}
           /\ inflight' = [x \in Miners |->
                             IF x = m THEN inflight[m] \union batch ELSE inflight[x] \ batch]
           /\ sent' = [sent EXCEPT ![m] = @ \union batch]
  /\ UNCHANGED <<registered, caps, unsupported_kinds, topology, salts,
                 mined_generation, orderVars, feederVars, reading>>

(***************************************************************************)
(* Session: terminal messages. A message may arrive long after the miner   *)
(* that sent it was reclaimed, and more than once.                         *)
(***************************************************************************)

complete_inflight(j) == inflight' = [x \in Miners |-> inflight[x] \ {j}]

(***************************************************************************)
(* A Result is handled in several critical sections: the first looks up    *)
(* whether its job is a lease in flight, the next acts on it. For a job    *)
(* that is no lease the first decides nothing; for a lease the table may   *)
(* change in between.                                                      *)
(***************************************************************************)
CheckLease(m, j) ==
  /\ j \in sent[m]
  /\ j.class = "generate"
  /\ reading' = reading \union {<<j, Dispatched(j)>>}
  /\ UNCHANGED <<routerVars, inflight, salts, mined_generation, orderVars, feederVars, sent>>

\* The plain path: complete the job if it is in flight, and take its salt.
Result(m, j) ==
  /\ j \in sent[m]
  /\ j.class = "generate" => <<j, FALSE>> \in reading
  /\ reading' = reading \ {<<j, FALSE>>}
  /\ complete_inflight(j)
  /\ mined_generation' = IF Dispatched(j) THEN NotedResult(j) ELSE mined_generation
  /\ salts' = salts \ {j}
  /\ answering' = IF Dispatched(j) /\ j.class = "order" THEN answering \union {j}
                                                        ELSE answering
  /\ UNCHANGED <<routerVars, mempool_orders, settled, feederVars, sent>>

\* The lease path: a verified Result counts for the round; one that is refused,
\* or whose lease is gone when it is looked up again, is dropped. The lease
\* stays in flight.
LeaseResult(m, j, verified) ==
  /\ j \in sent[m]
  /\ j.class = "generate" /\ <<j, TRUE>> \in reading
  /\ reading' = reading \ {<<j, TRUE>>}
  /\ mined_generation' = IF verified THEN NotedResult(j) ELSE mined_generation
  /\ UNCHANGED <<routerVars, inflight, salts, orderVars, feederVars, sent>>

LeaseDone(m, j, salts_done) ==
  /\ j \in sent[m]
  /\ j.class = "generate" /\ Dispatched(j)
  /\ complete_inflight(j)
  /\ mined_generation' = IF salts_done > 0 THEN NotedResult(j) ELSE mined_generation
  /\ UNCHANGED <<routerVars, salts, orderVars, feederVars, sessionVars>>

\* on_reject: never back to the miner that rejected it.
Reject(m, j, unsupportedKind) ==
  /\ j \in sent[m]
  /\ Dispatched(j)
  /\ complete_inflight(j)
  /\ unsupported_kinds' = IF unsupportedKind
                          THEN [unsupported_kinds EXCEPT ![m] = @ \union {Kind(j)}]
                          ELSE unsupported_kinds
  /\ staged' = [x \in Miners |->
                  IF RoutesTo(j, {m}, x) THEN staged[x] \union {j} ELSE staged[x]]
  /\ unroutable' = IF Unroutable(j, {m}) THEN unroutable \union {j} ELSE unroutable
  /\ UNCHANGED <<registered, caps, granted_credits, topology, salts,
                 mined_generation, orderVars, feederVars, sessionVars>>

(***************************************************************************)
(* submit_mempool_result after the chain answered: a delivery failure      *)
(* forgets the order so that the feeder stages it again, every other       *)
(* outcome (submitted, refused, below the order's gates) keeps it.         *)
(***************************************************************************)
AnswerOrder(j, delivered) ==
  /\ j \in answering
  /\ answering' = answering \ {j}
  /\ mempool_orders' = IF delivered THEN mempool_orders ELSE mempool_orders \ {j.id}
  /\ settled' = IF delivered THEN settled \union {j.id} ELSE settled
  /\ UNCHANGED <<routerVars, inflight, salts, mined_generation, feederVars, sessionVars>>

(***************************************************************************)
(* Supervisor                                                              *)
(***************************************************************************)

ReclaimedStagedOnly(m) == staged[m]

\* What reclaim_miner returns: the miner's in-flight jobs and its queue.
Reclaimed(m) == inflight[m] \union staged[m]

\* The child exited: reclaim its jobs and route each one, under one lock.
MinerExit(m) ==
  /\ m \in registered
  /\ granted_credits' = [granted_credits EXCEPT ![m] = 0]
  /\ inflight' = [inflight EXCEPT ![m] = {}]
  /\ staged' = [x \in Miners |->
                  (IF x = m THEN {} ELSE staged[x])
                    \union {j \in Reclaimed(m) : RoutesTo(j, {}, x)}]
  /\ unroutable' = unroutable \union {j \in Reclaimed(m) : Unroutable(j, {})}
  /\ UNCHANGED <<registered, caps, unsupported_kinds, topology, salts,
                 mined_generation, orderVars, feederVars, sessionVars>>

(***************************************************************************)
(* Feeder                                                                  *)
(***************************************************************************)

\* stop_mining(generation + 1): drop the previous generation's work and salts.
stop_mining ==
  /\ generation < MaxGeneration
  /\ generation' = generation + 1
  /\ staged' = [m \in Miners |-> Retained(staged[m], generation)]
  /\ inflight' = [m \in Miners |-> Retained(inflight[m], generation)]
  /\ salts' = {}
  /\ UNCHANGED <<registered, caps, unsupported_kinds, granted_credits, unroutable,
                 topology, mined_generation, orderVars, salt_ctr, sessionVars>>

\* A new root, or a resume on the same one: the walk starts with stop_mining.
BeginRound ==
  /\ stop_mining
  /\ phase' = "walking"

\* The walk reached StartMining: the new graph is in place.
StartMining(t) ==
  /\ phase = "walking"
  /\ phase' = "mining"
  /\ topology' = t
  /\ UNCHANGED <<registered, caps, unsupported_kinds, staged, granted_credits,
                 unroutable, inflight, salts, generation, mined_generation,
                 orderVars, salt_ctr, sessionVars>>

\* A pending proof clears the round: stop the miners and wait for its block.
WinPending ==
  /\ phase = "mining"
  /\ stop_mining
  /\ phase' = "awaiting"

\* The class of PoW work the feeder draws for a miner.
PowClass(m) == IF caps[m] \in LeaseEnvelopes THEN "generate" ELSE "sample"

PowJob(m, n) == [class |-> PowClass(m), id |-> n, generation |-> generation]

\* Whether stage_on takes the miner's next PoW job.
Stageable(m) == Capable(m, PowJob(m, 0))

\* Salts the top-up draws to bring a queue to `depth`. For a miner that cannot
\* take the job, a plain draw is spent before stage_on refuses it, a lease is not.
Draws(m, depth) ==
  LET room == depth - Cardinality(staged[m])
  IN  IF Cardinality(staged[m]) >= depth THEN 0
      ELSE IF Stageable(m) THEN room
      ELSE IF PowClass(m) = "sample" THEN 1 ELSE 0

(***************************************************************************)
(* One poll's top-up: every registered miner's queue is filled to its      *)
(* window (adaptive for plain jobs, LEASE_STAGE_DEPTH for leases) with     *)
(* fresh salts, miners in id order. Only plain jobs record a salt.         *)
(***************************************************************************)
TopUp(depth) ==
  /\ phase = "mining"
  /\ \E fresh \in [registered -> SUBSET (salt_ctr + 1 .. MaxSalt)] :
       /\ \A m \in registered : Cardinality(fresh[m]) = Draws(m, depth[m])
       /\ \A a, b \in registered : a < b => \A n \in fresh[a], k \in fresh[b] : n < k
       /\ salt_ctr' \in salt_ctr .. MaxSalt
       /\ UNION {fresh[m] : m \in registered} = salt_ctr + 1 .. salt_ctr'
       /\ staged' = [m \in Miners |->
                       IF m \in registered /\ Stageable(m)
                       THEN staged[m] \union {PowJob(m, n) : n \in fresh[m]} ELSE staged[m]]
       /\ salts' = salts \union
            UNION {{PowJob(m, n) : n \in fresh[m]} :
                     m \in {k \in registered : Stageable(k) /\ PowClass(k) = "sample"}}
  /\ UNCHANGED <<registered, caps, unsupported_kinds, granted_credits, unroutable,
                 topology, inflight, mined_generation, orderVars, generation, phase, sessionVars>>

UnstagedForgetful(open) == open

\* Open orders that stage_mempool_orders still has to stage.
Unstaged(open) == open \ mempool_orders

(***************************************************************************)
(* stage_mempool_orders: each open order not staged before becomes a       *)
(* generation-0 job on the first capable miner. An order whose node list   *)
(* cannot index its edges, or that nobody can take, is skipped for good.   *)
(***************************************************************************)
StageMempoolOrders(open, malformed) ==
  /\ phase = "mining"
  /\ registered # {}
  /\ LET new  == Unstaged(open)
         jobs == {OrderJob(o) : o \in new \ malformed}
     IN  /\ mempool_orders' = mempool_orders \union new
         /\ settled' = settled \union (new \intersect malformed)
         /\ staged' = [m \in Miners |->
                         staged[m] \union {j \in jobs : RoutesTo(j, {}, m)}]
         /\ unroutable' = unroutable \union {j \in jobs : Unroutable(j, {})}
  /\ UNCHANGED <<registered, caps, unsupported_kinds, granted_credits, topology,
                 inflight, salts, mined_generation, answering, feederVars, sessionVars>>
-----------------------------------------------------------------------------
SessionStep(m) ==
  \/ \E e \in Envelopes : RegisterMiner(m, e) \/ UpdateCapabilities(m, e)
  \/ \E c \in 0 .. MaxGrant : DispatchGranted(m, c)
  \/ \E j \in sent[m] :
       \/ CheckLease(m, j)
       \/ Result(m, j)
       \/ \E v \in BOOLEAN : LeaseResult(m, j, v)
       \/ \E s \in 0 .. 1 : LeaseDone(m, j, s)
       \/ \E u \in BOOLEAN : Reject(m, j, u)

FeederStep ==
  \/ BeginRound
  \/ \E t \in Topologies : StartMining(t)
  \/ WinPending
  \/ \E depth \in [Miners -> 1 .. MaxDepth] : TopUp(depth)
  \/ \E open \in SUBSET Orders : \E malformed \in SUBSET open :
       StageMempoolOrders(open, malformed)

Next ==
  \/ \E m \in Miners : SessionStep(m)
  \/ \E m \in Miners : MinerExit(m)
  \/ \E j \in answering, d \in BOOLEAN : AnswerOrder(j, d)
  \/ FeederStep

Spec == Init /\ [][Next]_vars
-----------------------------------------------------------------------------
(***************************************************************************)
(* Properties                                                              *)
(***************************************************************************)

\* The state has its shape: in particular the credit pool never goes below
\* zero, whatever mix of capable and incapable jobs a drain meets (next_job).
TypeOK ==
  /\ registered \subseteq Miners
  /\ caps \in [Miners -> Envelopes]
  /\ unsupported_kinds \in [Miners -> SUBSET Kinds]
  /\ staged \in [Miners -> SUBSET Job]
  /\ granted_credits \in [Miners -> Nat]
  /\ unroutable \subseteq Job
  /\ topology \in Topologies
  /\ inflight \in [Miners -> SUBSET Job]
  /\ salts \subseteq Job
  /\ generation \in Nat
  /\ mined_generation \subseteq Nat
  /\ mempool_orders \subseteq Orders
  /\ phase \in {"idle", "walking", "mining", "awaiting"}
  /\ salt_ctr \in Nat
  /\ sent \in [Miners -> SUBSET Job]
  /\ reading \subseteq Job \X BOOLEAN
  /\ answering \subseteq Job
  /\ settled \subseteq Orders

\* A job is in at most one place: one miner's queue, one miner's in-flight
\* list, or a submission under way.
InOnePlace ==
  /\ \A m, k \in Miners : staged[m] \intersect inflight[k] = {}
  /\ \A m, k \in Miners : m # k => /\ staged[m] \intersect staged[k] = {}
                                   /\ inflight[m] \intersect inflight[k] = {}
  /\ \A j \in answering : ~Placed(j)

\* Crash re-queues, rejects, capability changes and re-staged orders never leave
\* two copies of a job behind, nor a credit pool below zero.
SinglePlacement == TypeOK /\ InOnePlace

\* Once stop_mining entered a generation, no PoW job of an earlier one is
\* staged, in flight, or holds a salt, and none reappears through a crash
\* re-queue, a reject or a capability change; outside StartMining there is no
\* PoW work at all.
NoStaleWork ==
  /\ \A m \in Miners : \A j \in staged[m] \union inflight[m] :
       j.generation # 0 => j.generation = generation /\ phase = "mining"
  /\ \A j \in salts : j.generation = generation

\* An order the feeder took on is never silently lost: it is queued, in
\* flight, being submitted, recorded as unroutable, or settled
\* (supervise_miner reclaims "or any mempool order is silently lost").
OrdersAccounted ==
  \A o \in mempool_orders :
    \/ Placed(OrderJob(o))
    \/ OrderJob(o) \in answering \union unroutable
    \/ o \in settled

\* round_mined is evidence: it holds only when a PoW job of the current round
\* reached a miner, so a late answer or a mempool order cannot make the feeder
\* declare participation in a round nobody mined.
MinedIsEvidence ==
  mined_generation = {generation} =>
    \E m \in Miners : \E j \in sent[m] : j.class # "order" /\ j.generation = generation
=============================================================================
