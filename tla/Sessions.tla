------------------------------ MODULE Sessions -------------------------------
(***************************************************************************)
(* Miner sessions as the coordinator sees them: the handshake, which takes *)
(* the state lock five times, the registries that map a miner id to its    *)
(* live channels (outbound, wakeups), the dispatcher task of each session  *)
(* fed by its grant channel, the reseed broadcasts and the supervisor that *)
(* reclaims a dead child's jobs and spawns the next one (session.rs,       *)
(* runtime.rs, supervisor.rs).                                             *)
(*                                                                         *)
(* Several sessions may carry one miner id: a restarted child, or a child  *)
(* that reconnects, says Hello while the read loop of the session before   *)
(* has not seen its end. Jobs are counted, each is of the current round    *)
(* (JobFlow: NoStaleWork), and a round has one topology.                   *)
(***************************************************************************)
EXTENDS Naturals, Sequences, FiniteSets

CONSTANTS
  Miners,
  SessionIds,
  MinerOf,      \* the miner id a session's Hello carries
  GrantDepth,   \* GRANT_CHANNEL_DEPTH
  Depth,        \* staging window of a miner
  MaxRequests,  \* bound: JobRequests of one credit (Ready is the first) per session
  FirstRound,   \* the round that runs before the first spawn, 0 when there is none
  MaxRound,     \* bound: rounds
  MaxSpawns     \* bound: spawns of one child

ASSUME SessionsConstants ==
  /\ MinerOf \in [SessionIds -> Miners]
  /\ {GrantDepth, Depth} \subseteq Nat \ {0}
  /\ {MaxRequests, MaxSpawns} \subseteq Nat /\ MaxRound \in Nat \ {0}
  /\ FirstRound \in 0 .. 1

VARIABLES
  \* CoordinatorState
  topology,         \* round of the stored graph and target, 0 before the first
  outbound, wakeups,  \* the session registered for a miner id: {} or one
  expected_tokens,  \* spawn whose token the server expects, per miner
  registered,       \* miner ids the router knows
  staged, granted_credits, inflight,  \* jobs and credits per miner
  \* sessions
  step,             \* where the session's task is
  alive,            \* the miner still reads the session's channel
  token,            \* spawn of the child that opened the session
  requests,         \* requests read from the session
  grants,           \* grant channel: credits, 0 is a wakeup
  dispatcher,       \* "none", "parked", "sending" or "over"
  batch,            \* jobs popped and not sent: number, round, still in flight
  told,             \* round of the last Topology and SetTarget on its channel
  \* supervisors and feeder
  spawns, child,    \* spawns so far; "down", "running", "exited" or "reclaimed"
  feeder,           \* "stopped", "stored", "sending" or "mining"
  senders,          \* senders the broadcast cloned and has not used
  \* history
  collected         \* sessions the round's broadcast was sent to

jobVars     == <<staged, inflight>>
routerVars  == <<registered, granted_credits, jobVars>>
handVars    == <<step, alive, token, told>>
dispatchVars == <<requests, grants, dispatcher, batch>>
superVars   == <<expected_tokens, spawns, child>>
feederVars  == <<topology, feeder, senders, collected>>
vars == <<outbound, wakeups, routerVars, handVars, dispatchVars, superVars, feederVars>>

NoBatch == [jobs |-> 0, round |-> 0, held |-> FALSE]

\* Jobs recorded in flight for a miner that no session was sent: those of the
\* batches its sessions hold.
Held(m) == UNION {{s} \X (1 .. batch[s].jobs) :
                  s \in {x \in SessionIds : MinerOf[x] = m /\ batch[x].held}}

Unsent(m) == Cardinality(Held(m))

WakesNobody(s) == grants[s]

WakesUnbounded(s) ==
  IF s \in wakeups[MinerOf[s]] /\ MinerOf[s] \in registered /\ dispatcher[s] # "over"
  THEN Append(grants[s], 0) ELSE grants[s]

\* wake_dispatcher: a try_send that drops the wakeup when the channel is full.
Woken(s) ==
  IF /\ s \in wakeups[MinerOf[s]] /\ MinerOf[s] \in registered
     /\ dispatcher[s] # "over" /\ Len(grants[s]) < GrantDepth
  THEN Append(grants[s], 0) ELSE grants[s]
-----------------------------------------------------------------------------
Init ==
  /\ topology = FirstRound
  /\ outbound = [m \in Miners |-> {}] /\ wakeups = [m \in Miners |-> {}]
  /\ expected_tokens = [m \in Miners |-> 0]
  /\ registered = {}
  /\ staged = [m \in Miners |-> 0]
  /\ granted_credits = [m \in Miners |-> 0]
  /\ inflight = [m \in Miners |-> 0]
  /\ step = [s \in SessionIds |-> "unopened"]
  /\ alive = [s \in SessionIds |-> FALSE]
  /\ token = [s \in SessionIds |-> 0]
  /\ requests = [s \in SessionIds |-> 0]
  /\ grants = [s \in SessionIds |-> <<>>]
  /\ dispatcher = [s \in SessionIds |-> "none"]
  /\ batch = [s \in SessionIds |-> NoBatch]
  /\ told = [s \in SessionIds |-> 0]
  /\ spawns = [m \in Miners |-> 0]
  /\ child = [m \in Miners |-> "down"]
  /\ feeder = (IF FirstRound = 0 THEN "stopped" ELSE "mining") /\ senders = {} /\ collected = {}

(***************************************************************************)
(* Supervisor                                                              *)
(***************************************************************************)

\* A fresh token per spawn, stored before the child starts.
Spawn(m) ==
  /\ child[m] \in {"down", "reclaimed"}
  /\ spawns[m] < MaxSpawns
  /\ spawns' = [spawns EXCEPT ![m] = @ + 1]
  /\ expected_tokens' = [expected_tokens EXCEPT ![m] = spawns'[m]]
  /\ child' = [child EXCEPT ![m] = "running"]
  /\ UNCHANGED <<outbound, wakeups, routerVars, handVars, dispatchVars, feederVars>>

ChildExits(m) ==
  /\ child[m] = "running"
  /\ child' = [child EXCEPT ![m] = "exited"]
  /\ UNCHANGED <<outbound, wakeups, routerVars, handVars, dispatchVars, feederVars,
                 expected_tokens, spawns>>

\* The exit is seen: the id's jobs are taken back and routed again, and its
\* outbound channel is dropped. The id stays registered, so with no other
\* capable miner the jobs come back to it.
Reclaim(m) ==
  /\ child[m] = "exited"
  /\ child' = [child EXCEPT ![m] = "reclaimed"]
  /\ staged' = [staged EXCEPT ![m] = IF m \in registered THEN @ + inflight[m] ELSE @]
  /\ inflight' = [inflight EXCEPT ![m] = 0]
  /\ granted_credits' = [granted_credits EXCEPT ![m] = 0]
  /\ batch' = [s \in SessionIds |->
                 IF MinerOf[s] = m THEN [batch[s] EXCEPT !.held = FALSE] ELSE batch[s]]
  /\ outbound' = [outbound EXCEPT ![m] = {}]
  /\ UNCHANGED <<wakeups, registered, handVars, requests, grants, dispatcher,
                 feederVars, expected_tokens, spawns>>

(***************************************************************************)
(* Session: the handshake                                                  *)
(***************************************************************************)

\* A child opens a session, or opens another one after it lost the first.
Open(s) ==
  /\ step[s] = "unopened"
  /\ child[MinerOf[s]] = "running"
  /\ \A x \in SessionIds : MinerOf[x] = MinerOf[s] /\ alive[x] => token[x] # spawns[MinerOf[s]]
  /\ step' = [step EXCEPT ![s] = "opened"]
  /\ alive' = [alive EXCEPT ![s] = TRUE]
  /\ token' = [token EXCEPT ![s] = spawns[MinerOf[s]]]
  /\ UNCHANGED <<outbound, wakeups, routerVars, told, dispatchVars, superVars, feederVars>>

\* The miner's end of the stream goes away.
Disconnect(s) ==
  /\ alive[s]
  /\ alive' = [alive EXCEPT ![s] = FALSE]
  /\ UNCHANGED <<outbound, wakeups, routerVars, step, token, told, dispatchVars, superVars,
                 feederVars>>

\* Hello: the token has to be the one of the current spawn.
Hello(s) ==
  /\ step[s] = "opened"
  /\ step' = [step EXCEPT ![s] = IF token[s] = expected_tokens[MinerOf[s]]
                                 THEN "accepted" ELSE "over"]
  /\ UNCHANGED <<outbound, wakeups, routerVars, alive, token, told, dispatchVars, superVars,
                 feederVars>>

\* register_miner: queued jobs stay, credits start over.
Register(s) ==
  /\ step[s] = "accepted"
  /\ step' = [step EXCEPT ![s] = "registered"]
  /\ registered' = registered \union {MinerOf[s]}
  /\ granted_credits' = [granted_credits EXCEPT ![MinerOf[s]] = 0]
  /\ UNCHANGED <<outbound, wakeups, jobVars, alive, token, told, dispatchVars, superVars,
                 feederVars>>

\* Welcome or Configure cannot be sent: the session ends here.
HandshakeFails(s) ==
  /\ step[s] = "registered" /\ ~alive[s]
  /\ step' = [step EXCEPT ![s] = "over"]
  /\ UNCHANGED <<outbound, wakeups, routerVars, alive, token, told, dispatchVars, superVars,
                 feederVars>>

\* The stored Topology and SetTarget, if any, are pushed under the lock.
Tell(s) ==
  /\ step[s] = "registered"
  /\ step' = [step EXCEPT ![s] = "told"]
  /\ told' = [told EXCEPT ![s] = topology]
  /\ UNCHANGED <<outbound, wakeups, routerVars, alive, token, dispatchVars, superVars,
                 feederVars>>

register_outbound(s) ==
  /\ step[s] = "told"
  /\ step' = [step EXCEPT ![s] = "listed"]
  /\ outbound' = [outbound EXCEPT ![MinerOf[s]] = {s}]
  /\ UNCHANGED <<wakeups, routerVars, alive, token, told, dispatchVars, superVars, feederVars>>

\* register_wakeup and the dispatcher task: the message loop begins.
register_wakeup(s) ==
  /\ step[s] = "listed"
  /\ step' = [step EXCEPT ![s] = "live"]
  /\ wakeups' = [wakeups EXCEPT ![MinerOf[s]] = {s}]
  /\ dispatcher' = [dispatcher EXCEPT ![s] = "parked"]
  /\ UNCHANGED <<outbound, routerVars, alive, token, told, requests, grants, batch,
                 superVars, feederVars>>

(***************************************************************************)
(* Session: the message loop. Messages the child sent before it went away  *)
(* are still read.                                                         *)
(***************************************************************************)

\* Ready or JobRequest: a grant for the dispatcher. The read loop waits while
\* the channel is full, and ends when the dispatcher is gone.
JobRequest(s) ==
  /\ step[s] = "live"
  /\ requests[s] < MaxRequests
  /\ requests' = [requests EXCEPT ![s] = @ + 1]
  /\ \/ /\ dispatcher[s] # "over" /\ Len(grants[s]) < GrantDepth
        /\ grants' = [grants EXCEPT ![s] = Append(@, 1)]
        /\ UNCHANGED step
     \/ /\ dispatcher[s] = "over"
        /\ step' = [step EXCEPT ![s] = "ended"]
        /\ UNCHANGED grants
  /\ UNCHANGED <<outbound, wakeups, routerVars, alive, token, told, dispatcher, batch,
                 superVars, feederVars>>

\* A terminal message retires a delivered job.
Answered(s) ==
  /\ step[s] = "live"
  /\ inflight[MinerOf[s]] > Unsent(MinerOf[s])
  /\ inflight' = [inflight EXCEPT ![MinerOf[s]] = @ - 1]
  /\ UNCHANGED <<outbound, wakeups, registered, staged, granted_credits, handVars,
                 dispatchVars, superVars, feederVars>>

\* A Capabilities snapshot (JobFlow, UpdateCapabilities): the router moves what
\* no longer fits, and every dispatcher is woken.
apply_capabilities(s) ==
  /\ step[s] = "live"
  /\ grants' = [x \in SessionIds |-> Woken(x)]
  /\ UNCHANGED <<outbound, wakeups, routerVars, handVars, requests, dispatcher, batch,
                 superVars, feederVars>>

\* The read loop sees the end of the stream.
StreamEnds(s) ==
  /\ step[s] = "live" /\ ~alive[s]
  /\ step' = [step EXCEPT ![s] = "ended"]
  /\ UNCHANGED <<outbound, wakeups, routerVars, alive, token, told, dispatchVars, superVars,
                 feederVars>>

\* deregister_outbound removes the miner id's channels.
deregister_outbound(s) ==
  /\ step[s] = "ended"
  /\ step' = [step EXCEPT ![s] = "over"]
  /\ outbound' = [outbound EXCEPT ![MinerOf[s]] = {}]
  /\ wakeups' = [wakeups EXCEPT ![MinerOf[s]] = {}]
  /\ UNCHANGED <<routerVars, alive, token, told, dispatchVars, superVars, feederVars>>

(***************************************************************************)
(* Dispatcher                                                              *)
(***************************************************************************)

\* How many jobs one drain pops.
Drained(m, pool) == IF pool < staged[m] THEN pool ELSE staged[m]

\* dispatch_granted under the lock: add the credits, pop, mark in flight.
DispatchGranted(s) ==
  /\ dispatcher[s] = "parked"
  /\ grants[s] # <<>>
  /\ grants' = [grants EXCEPT ![s] = Tail(@)]
  /\ LET m    == MinerOf[s]
         pool == granted_credits[m] + Head(grants[s])
         n    == Drained(m, pool)
     IN  /\ granted_credits' = [granted_credits EXCEPT ![m] = pool - n]
         /\ staged' = [staged EXCEPT ![m] = @ - n]
         /\ inflight' = [inflight EXCEPT ![m] = @ + n]
         /\ batch' = [batch EXCEPT ![s] = IF n = 0 THEN NoBatch
                         ELSE [jobs |-> n, round |-> topology, held |-> TRUE]]
         /\ dispatcher' = [dispatcher EXCEPT ![s] = IF n = 0 THEN "parked" ELSE "sending"]
  /\ UNCHANGED <<outbound, wakeups, registered, handVars, requests, superVars,
                 feederVars>>

\* Off the lock: the jobs go out, or the channel is closed and the task ends.
SendBatch(s) ==
  /\ dispatcher[s] = "sending"
  /\ \/ /\ alive[s]
        /\ dispatcher' = [dispatcher EXCEPT ![s] = "parked"]
        /\ batch' = [batch EXCEPT ![s] = NoBatch]
     \/ /\ ~alive[s]
        /\ dispatcher' = [dispatcher EXCEPT ![s] = "over"]
        /\ UNCHANGED batch
  /\ UNCHANGED <<outbound, wakeups, routerVars, handVars, requests, grants, superVars,
                 feederVars>>

\* The session is over and its grants are drained: recv returns None.
DispatcherEnds(s) ==
  /\ dispatcher[s] = "parked" /\ grants[s] = <<>> /\ step[s] = "over"
  /\ dispatcher' = [dispatcher EXCEPT ![s] = "over"]
  /\ UNCHANGED <<outbound, wakeups, routerVars, handVars, requests, grants, batch,
                 superVars, feederVars>>

(***************************************************************************)
(* Feeder                                                                  *)
(***************************************************************************)

\* stop_mining: staged and in-flight work of the round is dropped.
StopMining ==
  /\ feeder = "mining"
  /\ topology < MaxRound
  /\ feeder' = "stopped"
  /\ staged' = [m \in Miners |-> 0]
  /\ inflight' = [m \in Miners |-> 0]
  /\ batch' = [s \in SessionIds |-> [batch[s] EXCEPT !.held = FALSE]]
  /\ UNCHANGED <<outbound, wakeups, registered, granted_credits, handVars, requests, grants,
                 dispatcher, superVars, topology, senders, collected>>

\* The walk is done: the round's graph and target are stored.
Reseed ==
  /\ feeder = "stopped"
  /\ feeder' = "stored"
  /\ topology' = topology + 1
  /\ collected' = {}
  /\ UNCHANGED <<outbound, wakeups, routerVars, handVars, dispatchVars, superVars, senders>>

\* broadcast_topology and broadcast_set_target: clone the senders under the lock,
CollectSenders ==
  /\ feeder = "stored"
  /\ feeder' = "sending"
  /\ senders' = UNION {outbound[m] : m \in Miners}
  /\ collected' = senders'
  /\ UNCHANGED <<outbound, wakeups, routerVars, handVars, dispatchVars, superVars, topology>>

\* and send off the lock, one after the other.
SendRequirements(s) ==
  /\ feeder = "sending" /\ s \in senders
  /\ senders' = senders \ {s}
  /\ told' = [told EXCEPT ![s] = topology]
  /\ UNCHANGED <<outbound, wakeups, routerVars, step, alive, token, dispatchVars, superVars,
                 topology, feeder, collected>>

StagesEarly == feeder \in {"stored", "sending", "mining"}

\* Jobs are staged only after the round's sends.
Stages == feeder = "mining" \/ (feeder = "sending" /\ senders = {})

\* One poll: every registered miner's queue is filled and its dispatcher woken.
TopUp ==
  /\ Stages
  /\ feeder' = "mining"
  /\ staged' = [m \in Miners |->
                  IF m \in registered /\ staged[m] < Depth THEN Depth ELSE staged[m]]
  /\ grants' = [s \in SessionIds |-> Woken(s)]
  /\ UNCHANGED <<outbound, wakeups, registered, granted_credits, inflight, handVars, requests,
                 dispatcher, batch, superVars, topology, senders,
                 collected>>
-----------------------------------------------------------------------------
HandshakeStep(s) ==
  \/ Hello(s) \/ Register(s) \/ HandshakeFails(s) \/ Tell(s)
  \/ register_outbound(s) \/ register_wakeup(s)

DispatcherStep(s) == DispatchGranted(s) \/ SendBatch(s) \/ DispatcherEnds(s)

FeederStep ==
  \/ StopMining \/ Reseed \/ CollectSenders \/ TopUp
  \/ \E s \in SessionIds : SendRequirements(s)

Next ==
  \/ \E m \in Miners : Spawn(m) \/ ChildExits(m) \/ Reclaim(m)
  \/ \E s \in SessionIds :
       \/ Open(s) \/ Disconnect(s) \/ HandshakeStep(s)
       \/ JobRequest(s) \/ Answered(s) \/ apply_capabilities(s) \/ StreamEnds(s) \/ deregister_outbound(s)
       \/ DispatcherStep(s)
  \/ FeederStep

Spec == Init /\ [][Next]_vars

(***************************************************************************)
(* Every task keeps running, and the feeder keeps polling.                 *)
(***************************************************************************)
Fairness ==
  /\ \A s \in SessionIds : WF_vars(DispatcherStep(s))
  /\ WF_vars(Reseed) /\ WF_vars(CollectSenders) /\ WF_vars(TopUp)
  /\ \A s \in SessionIds : WF_vars(SendRequirements(s))

FairSpec == Spec /\ Fairness
-----------------------------------------------------------------------------
(***************************************************************************)
(* Properties                                                              *)
(***************************************************************************)

\* The state has its shape: an id has at most one channel of each kind, and
\* a full grant channel takes no more.
TypeOK ==
  /\ topology \in 0 .. MaxRound
  /\ outbound \in [Miners -> SUBSET SessionIds] /\ wakeups \in [Miners -> SUBSET SessionIds]
  /\ \A m \in Miners : Cardinality(outbound[m]) <= 1 /\ Cardinality(wakeups[m]) <= 1
  /\ registered \subseteq Miners
  /\ staged \in [Miners -> Nat] /\ inflight \in [Miners -> Nat]
  /\ granted_credits \in [Miners -> Nat]
  /\ \A m \in Miners : Unsent(m) <= inflight[m]
  /\ step \in [SessionIds -> {"unopened", "opened", "accepted", "registered", "told", "listed",
                              "live", "ended", "over"}]
  /\ \A s \in SessionIds : Len(grants[s]) <= GrantDepth
  /\ dispatcher \in [SessionIds -> {"none", "parked", "sending", "over"}]
  /\ feeder \in {"stopped", "stored", "sending", "mining"}

\* A session the round's broadcast reached gets no job of the round before the
\* round's Topology and SetTarget, although the broadcast, the top-up and the
\* dispatcher are three tasks' steps and a send takes as long as it takes.
ToldBeforeJobs ==
  \A s \in SessionIds : dispatcher[s] = "sending" /\ s \in collected /\ batch[s].round = topology
    => told[s] = topology

\* "A job of the new generation cannot leave before those two messages."
\* (COORDINATOR.md, round state machine)
NoEarlyJob ==
  \A s \in SessionIds : dispatcher[s] = "sending" /\ alive[s] => told[s] >= batch[s].round

\* A miner with queued work and unspent credits.
Waiting(s) ==
  /\ step[s] = "live" /\ alive[s] /\ s \in wakeups[MinerOf[s]]
  /\ staged[MinerOf[s]] > 0 /\ granted_credits[MinerOf[s]] > 0

\* A miner with queued work and unspent credits does not wait for ever: jobs
\* staged after its grant drained an empty queue reach it, also when a wakeup
\* was dropped because the grant channel was full (wake_dispatcher).
WorkReachesMiner == \A s \in SessionIds : Waiting(s) ~> ~Waiting(s)
=============================================================================
