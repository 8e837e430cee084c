----------------------------- MODULE Supervisor ------------------------------
(***************************************************************************)
(* The life of the miner processes (supervisor.rs) and of the process that *)
(* owns them (run_runtime): spawn, restart policy with backoff and failure *)
(* budget, and the shutdown fan-out. The messages that matter here are the *)
(* ones sent without a timeout on a session's bounded outbound channel:    *)
(* the feeder's and the liveness loop's broadcasts, which send to one      *)
(* miner after the other, and the supervisor's Shutdown.                   *)
(***************************************************************************)
EXTENDS Naturals, Sequences, FiniteSets, SequencesExt

CONSTANTS
  Miners,
  Hanging,     \* miners whose process may stop reading its stream
  Capacity,    \* messages an outbound channel and the transport under it hold
  BaseDelay, MaxDelay, Budget, Window,  \* BackoffPolicy
  MaxTime,     \* bound: clock
  MaxCrashes   \* bound: crashes of one miner

ASSUME SupervisorConstants ==
  /\ Hanging \subseteq Miners
  /\ Capacity \in Nat \ {0}
  /\ {BaseDelay, MaxDelay, Budget, Window, MaxTime, MaxCrashes} \subseteq Nat

VARIABLES
  now,           \* clock
  stop,          \* the watch channel was flipped
  main,          \* what run_runtime waits for
  sup,           \* per miner, where supervise_miner is
  until,         \* end of its backoff sleep
  consecutive, crashes,  \* RestartTracker
  child,         \* "none", "running", "hung", or its exit: "clean", "never", "crash"
  listed,        \* the child's session is registered in outbound
  channel,       \* unread messages on that session's channel
  feeder,        \* miners the feeder's broadcast still sends to, in order
  pinger,        \* the same for the liveness loop
  over,          \* tasks that returned: "feeder", "liveness"
  crash_log      \* history: times of all crashes

supVars  == <<sup, until, consecutive, crashes, crash_log>>
taskVars == <<feeder, pinger, over>>
vars == <<now, stop, main, supVars, child, listed, channel, taskVars>>

Exits == {"clean", "never", "crash"}
Running(m) == child[m] \in {"running", "hung"}
-----------------------------------------------------------------------------
(***************************************************************************)
(* RestartTracker                                                          *)
(***************************************************************************)

\* 2^consecutive times the base, capped.
Delay(n) ==
  LET d == BaseDelay * 2 ^ (IF n < 16 THEN n ELSE 16)
  IN  IF d < MaxDelay THEN d ELSE MaxDelay

StaleAtEdge(t) == t + Window <= now

\* A crash older than the window (t < cutoff).
Stale(t) == t + Window < now

\* The deque once the crashes that left the window are popped from its front,
\* up to the first one that did not.
Pruned(m) ==
  LET q == crashes[m]
      first == CHOOSE k \in 1 .. Len(q) + 1 :
                 /\ \A i \in 1 .. k - 1 : Stale(q[i])
                 /\ k <= Len(q) => ~Stale(q[k])
  IN  SubSeq(q, first, Len(q))

\* on_exit: what becomes of the tracker and of the supervisor's loop.
on_exit(m, exit) ==
  LET recent == Append(Pruned(m), now)
  IN  \/ /\ exit = "clean"
         /\ consecutive' = [consecutive EXCEPT ![m] = 0]
         /\ sup' = [sup EXCEPT ![m] = "sleeping"]
         /\ until' = [until EXCEPT ![m] = now + BaseDelay]
         /\ UNCHANGED <<crashes, crash_log>>
      \/ /\ exit = "never"
         /\ sup' = [sup EXCEPT ![m] = "over"]
         /\ UNCHANGED <<consecutive, crashes, until, crash_log>>
      \/ /\ exit = "crash"
         /\ crashes' = [crashes EXCEPT ![m] = recent]
         /\ crash_log' = [crash_log EXCEPT ![m] = Append(@, now)]
         /\ \/ /\ Len(recent) > Budget
               /\ sup' = [sup EXCEPT ![m] = "over"]
               /\ UNCHANGED <<consecutive, until>>
            \/ /\ Len(recent) <= Budget
               /\ sup' = [sup EXCEPT ![m] = "sleeping"]
               /\ until' = [until EXCEPT ![m] = now + Delay(consecutive[m])]
               /\ consecutive' = [consecutive EXCEPT ![m] = @ + 1]
-----------------------------------------------------------------------------
Init ==
  /\ now = 0
  /\ stop = FALSE
  /\ main = "serving"
  /\ sup = [m \in Miners |-> "spawning"]
  /\ until = [m \in Miners |-> 0]
  /\ consecutive = [m \in Miners |-> 0]
  /\ crashes = [m \in Miners |-> <<>>]
  /\ child = [m \in Miners |-> "none"]
  /\ listed = {}
  /\ channel = [m \in Miners |-> 0]
  /\ feeder = <<>> /\ pinger = <<>> /\ over = {}
  /\ crash_log = [m \in Miners |-> <<>>]

Tick ==
  /\ now < MaxTime
  /\ now' = now + 1
  /\ UNCHANGED <<stop, main, supVars, child, listed, channel, taskVars>>

(***************************************************************************)
(* The miner process                                                       *)
(***************************************************************************)

\* The child completes a handshake: its session gets a fresh channel.
Handshake(m) ==
  /\ child[m] = "running" /\ m \notin listed
  /\ listed' = listed \union {m}
  /\ UNCHANGED <<now, stop, main, supVars, child, channel, taskVars>>

\* It takes what the transport holds for it.
ChildReads(m) ==
  /\ child[m] = "running" /\ channel[m] > 0
  /\ channel' = [channel EXCEPT ![m] = 0]
  /\ UNCHANGED <<now, stop, main, supVars, child, listed, taskVars>>

ChildHangs(m) ==
  /\ m \in Hanging /\ child[m] = "running"
  /\ child' = [child EXCEPT ![m] = "hung"]
  /\ UNCHANGED <<now, stop, main, supVars, listed, channel, taskVars>>

\* The process ends: its stream closes, so sends under way return an error at
\* once, and the session's read loop deregisters its channel.
Gone(m, state) ==
  /\ child' = [child EXCEPT ![m] = state]
  /\ listed' = listed \ {m}
  /\ channel' = [channel EXCEPT ![m] = 0]
  /\ feeder' = SelectSeq(feeder, LAMBDA x : x # m)
  /\ pinger' = SelectSeq(pinger, LAMBDA x : x # m)

ChildExits(m, exit) ==
  /\ child[m] = "running"
  /\ Len(crash_log[m]) < MaxCrashes
  /\ Gone(m, exit)
  /\ UNCHANGED <<now, stop, main, supVars, over>>

(***************************************************************************)
(* supervise_miner                                                         *)
(***************************************************************************)

Spawn(m, ok) ==
  /\ sup[m] = "spawning"
  /\ sup' = [sup EXCEPT ![m] = IF ok THEN "waiting" ELSE "over"]
  /\ child' = [child EXCEPT ![m] = IF ok THEN "running" ELSE "none"]
  /\ UNCHANGED <<now, stop, main, until, consecutive, crashes, crash_log, listed, channel,
                 taskVars>>

\* child.wait() returned: the jobs are reclaimed (JobFlow, MinerExit), the
\* tracker decides.
Reap(m) ==
  /\ sup[m] = "waiting" /\ child[m] \in Exits
  /\ child' = [child EXCEPT ![m] = "none"]
  /\ on_exit(m, child[m])
  /\ UNCHANGED <<now, stop, main, listed, channel, taskVars>>

\* The backoff sleep ends, or the shutdown ends it.
Wake(m) ==
  /\ sup[m] = "sleeping"
  /\ \/ /\ now >= until[m]
        /\ sup' = [sup EXCEPT ![m] = "spawning"]
     \/ /\ stop
        /\ sup' = [sup EXCEPT ![m] = "over"]
  /\ UNCHANGED <<now, stop, main, until, consecutive, crashes, crash_log, child, listed,
                 channel, taskVars>>

\* Shutdown requested while the child runs; outbound is looked up once.
BeginShutdown(m) ==
  /\ sup[m] = "waiting" /\ stop
  /\ sup' = [sup EXCEPT ![m] = IF m \in listed THEN "notifying" ELSE "grace"]
  /\ UNCHANGED <<now, stop, main, until, consecutive, crashes, crash_log, child, listed,
                 channel, taskVars>>

\* A send on the bounded channel completes when there is room.
Room(m) == channel[m] < Capacity

\* The in-band Shutdown: the send waits for room, or fails on a closed stream.
SendShutdown(m) ==
  /\ sup[m] = "notifying"
  /\ Room(m) \/ ~Running(m)
  /\ channel' = IF Running(m) THEN [channel EXCEPT ![m] = @ + 1] ELSE channel
  /\ sup' = [sup EXCEPT ![m] = "grace"]
  /\ UNCHANGED <<now, stop, main, until, consecutive, crashes, crash_log, child, listed,
                 taskVars>>

LeavesIt(m) == UNCHANGED <<child, listed, channel, feeder, pinger>>

\* kill and wait: whatever it is doing, the child is gone.
Kill(m) == Gone(m, "none")

AfterGraceWaits(m) ==
  /\ sup[m] = "grace"
  /\ ~Running(m)
  /\ Kill(m)
  /\ sup' = [sup EXCEPT ![m] = "over"]
  /\ UNCHANGED <<now, stop, main, until, consecutive, crashes, crash_log, over>>

\* The child exited within the grace period or is killed after it.
AfterGrace(m) ==
  /\ sup[m] = "grace"
  /\ Kill(m)
  /\ sup' = [sup EXCEPT ![m] = "over"]
  /\ UNCHANGED <<now, stop, main, until, consecutive, crashes, crash_log, over>>

(***************************************************************************)
(* Broadcasts: senders are cloned, then awaited one after the other, in    *)
(* the order of a hash map.                                                *)
(***************************************************************************)

BeginBroadcast(task, queue) ==
  /\ task \notin over
  /\ queue = <<>>
  /\ ~stop

Delivers(queue) ==
  /\ queue # <<>>
  /\ Room(Head(queue))
  /\ channel' = [channel EXCEPT ![Head(queue)] = @ + 1]

FeederBroadcasts ==
  /\ BeginBroadcast("feeder", feeder)
  /\ \E order \in SetToSeqs(listed) : feeder' = order
  /\ UNCHANGED <<now, stop, main, supVars, child, listed, channel, pinger, over>>

FeederSends ==
  /\ Delivers(feeder)
  /\ feeder' = Tail(feeder)
  /\ UNCHANGED <<now, stop, main, supVars, child, listed, pinger, over>>

PingsBegin ==
  /\ BeginBroadcast("liveness", pinger)
  /\ \E order \in SetToSeqs(listed) : pinger' = order
  /\ UNCHANGED <<now, stop, main, supVars, child, listed, channel, feeder, over>>

PingSends ==
  /\ Delivers(pinger)
  /\ pinger' = Tail(pinger)
  /\ UNCHANGED <<now, stop, main, supVars, child, listed, feeder, over>>

\* A task sees the shutdown between two broadcasts.
TaskEnds(task) ==
  /\ stop /\ task \notin over
  /\ task = "feeder" => feeder = <<>>
  /\ task = "liveness" => pinger = <<>>
  /\ over' = over \union {task}
  /\ UNCHANGED <<now, stop, main, supVars, child, listed, channel, feeder, pinger>>

(***************************************************************************)
(* run_runtime                                                             *)
(***************************************************************************)

RequestStop ==
  /\ main = "serving"
  /\ stop' = TRUE
  /\ main' = "feeder"
  /\ UNCHANGED <<now, supVars, child, listed, channel, taskVars>>

\* The tasks are joined in this order; then the server is dropped.
Join ==
  /\ \/ main = "feeder" /\ "feeder" \in over /\ main' = "liveness"
     \/ main = "liveness" /\ "liveness" \in over /\ main' = "supervisors"
     \/ main = "supervisors" /\ (\A m \in Miners : sup[m] = "over") /\ main' = "over"
  /\ UNCHANGED <<now, stop, supVars, child, listed, channel, taskVars>>
-----------------------------------------------------------------------------
MinerStep(m) ==
  \/ Handshake(m) \/ ChildReads(m) \/ ChildHangs(m)
  \/ \E exit \in Exits : ChildExits(m, exit)

SupervisorStep(m) ==
  \/ \E ok \in BOOLEAN : Spawn(m, ok)
  \/ Reap(m) \/ Wake(m) \/ BeginShutdown(m) \/ SendShutdown(m) \/ AfterGrace(m)

TaskStep ==
  \/ FeederBroadcasts \/ FeederSends \/ PingsBegin \/ PingSends
  \/ \E task \in {"feeder", "liveness"} : TaskEnds(task)

Next ==
  \/ Tick
  \/ \E m \in Miners : MinerStep(m) \/ SupervisorStep(m)
  \/ TaskStep
  \/ RequestStop \/ Join

Spec == Init /\ [][Next]_vars

(***************************************************************************)
(* The runtime schedules its tasks, time passes, and a miner that has not  *)
(* hung reads its stream.                                                  *)
(***************************************************************************)
Fairness ==
  /\ WF_vars(Tick) /\ WF_vars(Join)
  /\ \A m \in Miners : WF_vars(SupervisorStep(m)) /\ WF_vars(ChildReads(m))
  /\ WF_vars(FeederSends) /\ WF_vars(PingSends)
  /\ \A task \in {"feeder", "liveness"} : WF_vars(TaskEnds(task))

FairSpec == Spec /\ Fairness
-----------------------------------------------------------------------------
(***************************************************************************)
(* Properties                                                              *)
(***************************************************************************)

\* The state has its shape; no channel holds more than its capacity although
\* three tasks send on it.
TypeOK ==
  /\ now \in 0 .. MaxTime /\ stop \in BOOLEAN
  /\ main \in {"serving", "feeder", "liveness", "supervisors", "over"}
  /\ sup \in [Miners -> {"spawning", "waiting", "sleeping", "notifying", "grace", "over"}]
  /\ consecutive \in [Miners -> Nat] /\ until \in [Miners -> Nat]
  /\ crashes \in [Miners -> Seq(0 .. MaxTime)]
  /\ child \in [Miners -> {"none", "running", "hung"} \union Exits]
  /\ listed \subseteq Miners
  /\ channel \in [Miners -> 0 .. Capacity]
  /\ over \subseteq {"feeder", "liveness"}

\* Crashes of m in the window that ends at this exit.
RecentCrashes(m, log) == {i \in DOMAIN log[m] : log[m][i] + Window >= now}

\* The failure budget is exact: a crashed miner is restarted if and only if,
\* of all its crashes, at most Budget fall into the window before this one,
\* however clean exits and pruning of the deque interleave with them.
BudgetIsExact ==
  [][\A m \in Miners : Len(crash_log'[m]) > Len(crash_log[m]) =>
       (sup'[m] = "sleeping" <=> Cardinality(RecentCrashes(m, crash_log')) <= Budget)]_vars

\* The state keeps its shape, and when run_runtime returns no miner process is
\* left behind: the supervisors have reaped or killed every child, also one
\* spawned while stop was flipped.
NoOrphans ==
  /\ TypeOK
  /\ main = "over" => \A m \in Miners : child[m] = "none"

\* "each live miner gets an in-band `Shutdown` first, then a hard kill after
\* the grace period" (COORDINATOR.md): a requested stop completes.
ShutdownCompletes == stop ~> main = "over"

\* A miner that stopped reading with nothing more to be put on its channel.
Clogged(m) == child[m] = "hung" /\ ~Room(m)

\* A requested stop completes whatever the miners do, unless one hangs with a
\* full channel: spawns, backoffs, broadcasts and exits under way do not hold
\* the joins, and a hung miner whose channel takes the Shutdown is killed.
StopCompletes == stop ~> (main = "over" \/ \E m \in Miners : Clogged(m))
=============================================================================
