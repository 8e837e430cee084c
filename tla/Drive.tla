------------------------------- MODULE Drive -------------------------------
(***************************************************************************)
(* A drive run: the harness (drive/harness.rs) spawns one miner, stages    *)
(* every job up front, records one row per terminal outcome and shuts the  *)
(* miner down once every job has one. The far end is the reference miner   *)
(* (quip-mock-miner), extended by what other backends may do at any time:  *)
(* give up with Fatal, narrow their capabilities, or die.                  *)
(*                                                                         *)
(* Both directions are bounded channels and every send is an await. The    *)
(* harness runs four kinds of task: the session's read loop, the           *)
(* dispatcher, one validation task per Result, and the caller that waits   *)
(* for the child.                                                          *)
(***************************************************************************)
EXTENDS Naturals, Sequences, FiniteSets, SequencesExt

CONSTANTS
  Jobs,        \* the run's jobs; numbers, staged in order
  Workloads,   \* the kinds of the jobs: a set of functions from Jobs to AllKinds
  Labels,      \* possible job ids: a set of functions from Jobs
  QueueDepth,  \* Configure.queue_depth
  OutCap,      \* capacity of the harness's outbound channel
  GrantCap,    \* GRANT_CHANNEL_DEPTH
  InCap        \* capacity of the miner's outbound channel

(***************************************************************************)
(* "plain" is sampled, "lease" reports no winner and "winner" one, "bad"   *)
(* is refused by the miner, "foreign" is outside its envelope.             *)
(***************************************************************************)
AllKinds == {"plain", "lease", "winner", "bad", "foreign"}
Leases   == {"lease", "winner"}

ASSUME DriveConstants ==
  /\ Jobs \subseteq Nat /\ IsFiniteSet(Jobs)
  /\ Workloads # {} /\ Workloads \subseteq [Jobs -> AllKinds]
  /\ Labels # {} /\ \A f \in Labels : DOMAIN f = Jobs
  /\ QueueDepth \in Nat
  /\ {OutCap, GrantCap, InCap} \subseteq Nat \ {0}

VARIABLES
  kind,       \* the run's input: the kind of every job
  id,         \* and its job id, which the source chose
  \* harness
  loop,       \* read loop: "hello", "greeting", "reading", "closing" or "ended"
  pending,    \* messages the read loop has still to send before it goes on
  registered, \* the miner is known to the router
  staged,     \* the router's queue for it, in the order of the jobs
  credits,    \* granted_credits
  inflight,   \* dispatched jobs without an outcome, at most one per id
  grants,     \* credit grants on their way to the dispatcher
  batch,      \* jobs the dispatcher has popped and not yet sent, in order
  tasks,      \* validation tasks
  winners,    \* jobs whose lease has a verified winner (lease_winners)
  rows,       \* RunState.rows
  toMiner,    \* the outbound channel and the stream behind it
  report,     \* the exit status: "none" while the run goes on
  \* miner
  toCoord,    \* its outbound channel and the stream behind it
  miner,      \* "dialing", "running", "draining" or "exited"
  token,      \* whether it holds the session token
  replies,    \* what it has still to send for the message it is handling
  told,       \* session facts it has received
  narrowed,   \* it has announced that it takes no leases any more
  \* history
  shut,       \* a Shutdown was sent
  fault       \* the miner died or gave up, or a validation panicked

inputs     == <<kind, id, token>>
routerVars == <<registered, staged, credits>>
dispatchVars == <<grants, batch>>
minerVars  == <<miner, replies, told, narrowed>>
vars == <<inputs, loop, pending, routerVars, inflight, dispatchVars, tasks, winners, rows,
          toMiner, report, toCoord, minerVars, shut, fault>>

Total == Cardinality(Jobs)

Msg(type)     == [type |-> type, job |-> 0]
JobMsg(t, j)  == [type |-> t, job |-> j]
Shutdown      == Msg("Shutdown")
JobRequest    == Msg("JobRequest")

\* Seed credits: queue_depth.max(1).
Seed == IF QueueDepth = 0 THEN 1 ELSE QueueDepth

\* A send completes when there is room, and at once when the peer is gone.
Room == Len(toMiner) < OutCap \/ miner = "exited"

Sent(m) == IF miner = "exited" THEN toMiner ELSE Append(toMiner, m)

CompleteEarly(r) == Len(r) + 1 >= Total

\* RunState::is_complete
Complete(r) == Len(r) >= Total

\* The router takes a lease only while the miner's capabilities allow it.
Capable(j, takesLeases) ==
  /\ kind[j] # "foreign"
  /\ kind[j] \in Leases => takesLeases

Row(j, passed)  == [job |-> j, rejected |-> FALSE, passed |-> passed]
FailingRow(j)   == [job |-> j, rejected |-> TRUE, passed |-> FALSE]

\* One row each; whose comes first tells nothing apart.
FailingRows(js) == LET q == SetToSeq(js) IN [i \in DOMAIN q |-> FailingRow(q[i])]

ForgetNothing(j) == inflight

\* inflight.remove(job_id): whichever job holds that id.
Forget(j) == {k \in inflight : id[k] # id[j]}

Holding(j) == {k \in inflight : id[k] = id[j]}
-----------------------------------------------------------------------------
(***************************************************************************)
(* run_drive stages the jobs and spawns the miner. Only a list can name    *)
(* one id twice: the same nonce, so the same problem, and never a lease.   *)
(***************************************************************************)
Init ==
  /\ kind \in Workloads
  /\ id \in Labels
  /\ \A j, k \in Jobs : j # k /\ id[j] = id[k] => kind[j] = kind[k] /\ kind[j] \notin Leases
  /\ token \in BOOLEAN
  /\ loop = "hello"
  /\ pending = <<>>
  /\ registered = FALSE
  /\ staged = Jobs
  /\ credits = 0
  /\ inflight = {}
  /\ grants = <<>> /\ batch = {}
  /\ tasks = {}
  /\ winners = {}
  /\ rows = <<>>
  /\ toMiner = <<>>
  /\ report = "none"
  /\ toCoord = <<>>
  /\ miner = "dialing"
  /\ replies = <<>>
  /\ told = {}
  /\ narrowed = FALSE
  /\ shut = FALSE
  /\ fault = FALSE

GreetingWithoutTopology == <<Msg("Welcome"), Msg("Configure"), Msg("SetTarget")>>

\* What the handshake sends, in this order.
Greeting == <<Msg("Welcome"), Msg("Configure"), Msg("Topology"), Msg("SetTarget")>>

NothingRecorded(js) == <<>>

\* record_unroutable
Unroutable(js) == FailingRows(js)

\* Hello: check the token, register, route every job, record what nobody takes.
Handshake ==
  /\ loop = "hello"
  /\ toCoord # <<>>
  /\ toCoord' = Tail(toCoord)
  /\ IF token
     THEN /\ registered' = TRUE
          /\ staged' = {j \in staged : Capable(j, TRUE)}
          /\ rows' = rows \o Unroutable(staged \ staged')
          /\ loop' = "greeting"
          /\ pending' = Greeting
     ELSE /\ loop' = "ended"
          /\ UNCHANGED <<registered, staged, rows, pending>>
  /\ UNCHANGED <<inputs, credits, inflight, dispatchVars, tasks, winners, toMiner, report,
                 minerVars, shut, fault>>

\* The read loop sends what it owes the miner: the greeting, or a Shutdown.
LoopSends ==
  /\ loop \in {"greeting", "closing"}
  /\ pending # <<>>
  /\ Room
  /\ toMiner' = Sent(Head(pending))
  /\ pending' = Tail(pending)
  /\ shut' = (shut \/ Head(pending) = Shutdown)
  /\ UNCHANGED <<inputs, loop, routerVars, inflight, dispatchVars, tasks, winners, rows,
                 report, toCoord, minerVars, fault>>

\* Nothing left to run: shut down without waiting for Ready. Else read on.
Greeted ==
  /\ loop = "greeting"
  /\ pending = <<>>
  /\ loop' = IF Complete(rows) THEN "closing" ELSE "reading"
  /\ pending' = IF Complete(rows) THEN <<Shutdown>> ELSE <<>>
  /\ UNCHANGED <<inputs, routerVars, inflight, dispatchVars, tasks, winners, rows, toMiner,
                 report, toCoord, minerVars, shut, fault>>

\* The session is over: deregister, drop the grants, abort the dispatcher.
Ended ==
  /\ loop' = "ended"
  /\ pending' = <<>>
  /\ grants' = <<>> /\ batch' = {}

LoopCloses ==
  /\ loop = "closing" /\ pending = <<>>
  /\ Ended
  /\ UNCHANGED <<inputs, routerVars, inflight, tasks, winners, rows, toMiner, report,
                 toCoord, minerVars, shut, fault>>

\* The stream ended: the miner dropped its sender, or died.
StreamEnds ==
  /\ loop \in {"hello", "reading"}
  /\ toCoord = <<>>
  /\ miner \in {"draining", "exited"}
  /\ Ended
  /\ UNCHANGED <<inputs, routerVars, inflight, tasks, winners, rows, toMiner, report,
                 toCoord, minerVars, shut, fault>>
-----------------------------------------------------------------------------
(***************************************************************************)
(* handle_message, then the loop's own completion check. `first` is what   *)
(* the handler itself sends when the run is complete.                      *)
(***************************************************************************)
Next_message(type) ==
  /\ loop = "reading"
  /\ toCoord # <<>>
  /\ Head(toCoord).type = type
  /\ toCoord' = Tail(toCoord)

GoOn(newRows, first) ==
  /\ rows' = newRows
  /\ loop' = IF Complete(newRows) THEN "closing" ELSE "reading"
  /\ pending' = IF Complete(newRows) THEN first \o <<Shutdown>> ELSE <<>>

\* Ready seeds the credits, a JobRequest grants one: both go to the dispatcher.
HandleGrant(type, n) ==
  /\ Next_message(type)
  /\ Len(grants) < GrantCap
  /\ grants' = Append(grants, n)
  /\ GoOn(rows, <<>>)
  /\ UNCHANGED <<inputs, routerVars, inflight, batch, tasks, winners, toMiner, report,
                 minerVars, shut, fault>>

\* apply_capabilities: queued leases lose their miner; the dispatcher is woken
\* with an empty grant unless its channel is full.
HandleCapabilities ==
  /\ Next_message("Capabilities")
  /\ staged' = {j \in staged : Capable(j, FALSE)}
  /\ grants' = IF Len(grants) < GrantCap THEN Append(grants, 0) ELSE grants
  /\ GoOn(rows \o Unroutable(staged \ staged'), <<>>)
  /\ UNCHANGED <<inputs, registered, credits, inflight, batch, tasks, winners, toMiner,
                 report, minerVars, shut, fault>>

\* A verified winner of a lease in flight is counted at once.
Counted(j) == winners \union {j}

\* A Result of a lease is settled inline, any other by a task of its own.
HandleResult ==
  LET j     == Head(toCoord).job
      lease == \E k \in Holding(j) : kind[k] \in Leases
  IN  /\ Next_message("Result")
      /\ tasks' = IF lease THEN tasks ELSE tasks \union {[job |-> j, step |-> "spawned"]}
      /\ winners' = IF lease THEN Counted(j) ELSE winners
      /\ GoOn(rows, <<>>)
      /\ UNCHANGED <<inputs, routerVars, inflight, dispatchVars, toMiner, report, minerVars,
                     shut, fault>>

HandleLeaseDone ==
  LET j == Head(toCoord).job
      r == IF Holding(j) = {} THEN rows ELSE Append(rows, Row(j, j \in winners))
  IN  /\ Next_message("LeaseDone")
      /\ inflight' = Forget(j)
      /\ winners' = winners \ {j}
      /\ GoOn(r, <<Shutdown>>)
      /\ UNCHANGED <<inputs, routerVars, dispatchVars, tasks, toMiner, report, minerVars,
                     shut, fault>>

\* A Reject is a failing row whether or not the job is in flight.
HandleReject ==
  LET j == Head(toCoord).job
  IN  /\ Next_message("Reject")
      /\ inflight' = Forget(j)
      /\ GoOn(Append(rows, FailingRow(j)), <<>>)
      /\ UNCHANGED <<inputs, routerVars, dispatchVars, tasks, winners, toMiner, report,
                     minerVars, shut, fault>>

\* Fatal: every job in flight fails and the session ends, without a Shutdown.
HandleFatal ==
  /\ Next_message("Fatal")
  /\ inflight' = {}
  /\ rows' = rows \o FailingRows(inflight)
  /\ Ended
  /\ UNCHANGED <<inputs, routerVars, tasks, winners, toMiner, report, minerVars, shut, fault>>
-----------------------------------------------------------------------------
(***************************************************************************)
(* dispatch_jobs: grant and pop under the lock, send after it              *)
(***************************************************************************)
\* The first n jobs of the queue, or all of them.
Popped(n, jobs) ==
  /\ jobs \subseteq staged
  /\ Cardinality(jobs) = IF n < Cardinality(staged) THEN n ELSE Cardinality(staged)
  /\ \A j \in jobs, k \in staged \ jobs : j < k

Dispatch ==
  LET available == credits + Head(grants)
  IN  /\ loop \in {"reading", "closing"}
      /\ batch = {}
      /\ grants # <<>>
      /\ grants' = Tail(grants)
      /\ \E new \in SUBSET staged :
           /\ Popped(available, new)
           /\ credits' = available - Cardinality(new)
           /\ staged' = staged \ new
           /\ batch' = new
           \* a later job with the same id takes the earlier one's place
           /\ inflight' = {k \in inflight \union new :
                             \A later \in new : id[later] = id[k] => later <= k}
      /\ UNCHANGED <<inputs, loop, pending, registered, tasks, winners, rows, toMiner, report,
                     toCoord, minerVars, shut, fault>>

DispatchSends ==
  /\ loop \in {"reading", "closing"}
  /\ Room
  /\ \E j \in batch :
       /\ \A k \in batch : j <= k
       /\ toMiner' = Sent(JobMsg("Job", j))
       /\ batch' = batch \ {j}
  /\ UNCHANGED <<inputs, loop, pending, routerVars, inflight, grants, tasks, winners, rows,
                 report, toCoord, minerVars, shut, fault>>
-----------------------------------------------------------------------------
(***************************************************************************)
(* handle_result: take the job, validate off the runtime, record, then     *)
(* shut the miner down if that row was the last                            *)
(***************************************************************************)
At(t, step) == (tasks \ {t}) \union {[t EXCEPT !.step = step]}

TaskTakes(t) ==
  /\ t.step = "spawned"
  /\ inflight' = Forget(t.job)
  /\ tasks' = At(t, IF Holding(t.job) = {} THEN "checking" ELSE "validating")
  /\ UNCHANGED <<inputs, loop, pending, routerVars, dispatchVars, winners, rows, toMiner,
                 report, toCoord, minerVars, shut, fault>>

TaskRecords(t, passed) ==
  /\ t.step = "validating"
  /\ rows' = Append(rows, Row(t.job, passed))
  /\ tasks' = At(t, "checking")
  /\ UNCHANGED <<inputs, loop, pending, routerVars, inflight, dispatchVars, winners, toMiner,
                 report, toCoord, minerVars, shut, fault>>

\* The validation panicked: no row.
TaskPanics(t) ==
  /\ t.step = "validating"
  /\ tasks' = At(t, "checking")
  /\ fault' = TRUE
  /\ UNCHANGED <<inputs, loop, pending, routerVars, inflight, dispatchVars, winners, rows,
                 toMiner, report, toCoord, minerVars, shut>>

TaskEnds(t) ==
  /\ t.step = "checking"
  /\ Complete(rows) => Room
  /\ toMiner' = IF Complete(rows) THEN Sent(Shutdown) ELSE toMiner
  /\ shut' = (shut \/ Complete(rows))
  /\ tasks' = tasks \ {t}
  /\ UNCHANGED <<inputs, loop, pending, routerVars, inflight, dispatchVars, winners, rows,
                 report, toCoord, minerVars, fault>>
-----------------------------------------------------------------------------
(***************************************************************************)
(* The miner: run_session of quip-mock-miner                               *)
(***************************************************************************)
StreamLeaked == FALSE

\* The harness's side of the stream is closed once no task can send on it.
StreamClosed == loop = "ended" /\ tasks = {}

MinerDials ==
  /\ miner = "dialing"
  /\ miner' = "running"
  /\ toCoord' = Append(toCoord, Msg("Hello"))
  /\ UNCHANGED <<inputs, loop, pending, routerVars, inflight, dispatchVars, tasks, winners,
                 rows, toMiner, report, replies, told, narrowed, shut, fault>>

RejectOnly(j) == <<JobMsg("Reject", j)>>

\* reject_and_replace: a reject refunds its credit like a completion.
RejectAndReplace(j) == <<JobMsg("Reject", j), JobRequest>>

\* handle_job and handle_lease.
Answer(j) ==
  IF kind[j] = "bad" \/ "Topology" \notin told \/ (kind[j] \in Leases /\ "SetTarget" \notin told)
  THEN RejectAndReplace(j)
  ELSE CASE kind[j] = "lease"  -> <<JobMsg("LeaseDone", j), JobRequest>>
         [] kind[j] = "winner" -> <<JobMsg("Result", j), JobMsg("LeaseDone", j), JobRequest>>
         [] OTHER              -> <<JobMsg("Result", j), JobRequest>>

MinerReceives ==
  LET m == Head(toMiner)
  IN  /\ miner = "running"
      /\ replies = <<>>
      /\ toMiner # <<>>
      /\ toMiner' = Tail(toMiner)
      /\ miner' = IF m.type = "Shutdown" THEN "draining" ELSE miner
      /\ told' = IF m.type \in {"Topology", "SetTarget"} THEN told \union {m.type} ELSE told
      /\ replies' = CASE m.type = "Configure" -> <<Msg("Ready")>>
                      [] m.type = "Job"       -> Answer(m.job)
                      [] OTHER                -> <<>>
      /\ UNCHANGED <<inputs, loop, pending, routerVars, inflight, dispatchVars, tasks,
                     winners, rows, report, toCoord, narrowed, shut, fault>>

MinerReplies ==
  /\ miner = "running"
  /\ replies # <<>>
  /\ loop # "ended" /\ Len(toCoord) < InCap
  /\ toCoord' = Append(toCoord, Head(replies))
  /\ replies' = Tail(replies)
  /\ UNCHANGED <<inputs, loop, pending, routerVars, inflight, dispatchVars, tasks, winners,
                 rows, toMiner, report, miner, told, narrowed, shut, fault>>

\* The harness stopped reading: the reply is buffered in vain, or the send
\* fails and the miner exits with InternalFatal.
MinerRepliesInVain(fails) ==
  /\ miner = "running"
  /\ replies # <<>>
  /\ loop = "ended"
  /\ replies' = Tail(replies)
  /\ miner' = IF fails THEN "exited" ELSE miner
  /\ UNCHANGED <<inputs, loop, pending, routerVars, inflight, dispatchVars, tasks, winners,
                 rows, toMiner, report, toCoord, told, narrowed, shut, fault>>

(***************************************************************************)
(* The idle timeout is orders of magnitude longer than any step above, so  *)
(* it fires only when nothing else is left to happen.                      *)
(***************************************************************************)
Quiescent ==
  /\ loop = "reading"
  /\ <<toMiner, toCoord, grants>> = <<<<>>, <<>>, <<>>>>
  /\ batch = {} /\ tasks = {}

\* Idle, or the harness closed the stream: leave the loop cleanly.
MinerLeaves ==
  /\ miner = "running"
  /\ replies = <<>>
  /\ toMiner = <<>>
  /\ Quiescent \/ StreamClosed
  /\ miner' = "draining"
  /\ UNCHANGED <<inputs, loop, pending, routerVars, inflight, dispatchVars, tasks, winners,
                 rows, toMiner, report, toCoord, replies, told, narrowed, shut, fault>>

\* The sender is dropped; what still arrives is discarded, until the harness
\* closes its side or the grace period is over.
MinerDrains ==
  /\ miner = "draining"
  /\ toMiner # <<>>
  /\ toMiner' = Tail(toMiner)
  /\ UNCHANGED <<inputs, loop, pending, routerVars, inflight, dispatchVars, tasks, winners,
                 rows, report, toCoord, minerVars, shut, fault>>

MinerExits ==
  /\ miner = "draining"
  /\ miner' = "exited"
  /\ UNCHANGED <<inputs, loop, pending, routerVars, inflight, dispatchVars, tasks, winners,
                 rows, toMiner, report, toCoord, replies, told, narrowed, shut, fault>>

\* The miner gives up: Fatal is its last message.
MinerGivesUp ==
  /\ miner = "running"
  /\ replies = <<>>
  /\ Len(toCoord) < InCap
  /\ toCoord' = Append(toCoord, Msg("Fatal"))
  /\ miner' = "draining"
  /\ fault' = TRUE
  /\ UNCHANGED <<inputs, loop, pending, routerVars, inflight, dispatchVars, tasks, winners,
                 rows, toMiner, report, replies, told, narrowed, shut>>

\* A capability update in mid-session, once the greeting is through: no
\* leases any more.
MinerNarrows ==
  /\ miner = "running"
  /\ "SetTarget" \in told
  /\ replies = <<>>
  /\ ~narrowed
  /\ Len(toCoord) < InCap
  /\ narrowed' = TRUE
  /\ toCoord' = Append(toCoord, Msg("Capabilities"))
  /\ UNCHANGED <<inputs, loop, pending, routerVars, inflight, dispatchVars, tasks, winners,
                 rows, toMiner, report, miner, replies, told, shut, fault>>

\* The miner dies, or Ctrl-C makes run_drive kill it; what it had not
\* delivered may be lost.
MinerDies(lost) ==
  /\ miner # "exited"
  /\ miner' = "exited"
  /\ toCoord' = IF lost THEN <<>> ELSE toCoord
  /\ replies' = <<>>
  /\ fault' = TRUE
  /\ UNCHANGED <<inputs, loop, pending, routerVars, inflight, dispatchVars, tasks, winners,
                 rows, toMiner, report, told, narrowed, shut>>
-----------------------------------------------------------------------------
\* The child exited: the caller reads the rows, whatever tasks are still
\* running. A truncated run or a failed handshake does not exit clean.
Report ==
  /\ miner = "exited"
  /\ report' = IF registered /\ Complete(rows) THEN "clean" ELSE "failed"
  /\ UNCHANGED <<inputs, loop, pending, routerVars, inflight, dispatchVars, tasks, winners,
                 rows, toMiner, toCoord, minerVars, shut, fault>>

Harness ==
  \/ Handshake \/ LoopSends \/ Greeted \/ LoopCloses \/ StreamEnds
  \/ HandleGrant("Ready", Seed) \/ HandleGrant("JobRequest", 1)
  \/ HandleCapabilities \/ HandleResult \/ HandleLeaseDone \/ HandleReject \/ HandleFatal
  \/ Dispatch \/ DispatchSends
  \/ \E t \in tasks : TaskTakes(t) \/ (\E p \in BOOLEAN : TaskRecords(t, p)) \/ TaskEnds(t)

Miner ==
  \/ MinerDials \/ MinerReceives \/ MinerReplies
  \/ \E f \in BOOLEAN : MinerRepliesInVain(f)
  \/ MinerLeaves \/ MinerDrains \/ MinerExits

Trouble ==
  \/ MinerGivesUp \/ MinerNarrows
  \/ \E lost \in BOOLEAN : MinerDies(lost)
  \/ \E t \in tasks : TaskPanics(t)

Next == report = "none" /\ (Harness \/ Miner \/ Trouble \/ Report)

Spec == Init /\ [][Next]_vars

(***************************************************************************)
(* Every task of the runtime runs, the miner works through its messages    *)
(* and its two timeouts fire.                                              *)
(***************************************************************************)
FairSpec == Spec /\ WF_vars(report = "none" /\ (Harness \/ Miner \/ Report))
-----------------------------------------------------------------------------
(***************************************************************************)
(* Properties                                                              *)
(***************************************************************************)

\* The channels stay within their capacities and the tables hold jobs.
TypeOK ==
  /\ Len(toMiner) <= OutCap /\ Len(grants) <= GrantCap /\ Len(toCoord) <= InCap
  /\ inflight \subseteq Jobs
  /\ rows \in Seq([job : Jobs, rejected : BOOLEAN, passed : BOOLEAN])
  /\ staged \union batch \subseteq Jobs
  /\ credits \in Nat

Distinct == \A j, k \in Jobs : id[j] = id[k] => j = k

\* The state keeps its shape, and a job gets at most one row, whichever of the
\* unroutable check, the validation task, LeaseDone, Reject and Fatal reaches
\* it first.
OneRowPerJob ==
  /\ TypeOK
  /\ \A i, k \in DOMAIN rows : rows[i].job = rows[k].job => i = k

Count(q, type) == Cardinality({i \in DOMAIN q : q[i].type = type})

\* The credits of the grants under way.
Granted == Cardinality(UNION {{i} \X (1 .. grants[i]) : i \in DOMAIN grants})

\* Credits the miner holds, has asked for or will be seeded with.
Slots ==
  credits + Granted + Cardinality(batch) + Count(toMiner, "Job")
  + Count(toCoord \o replies, "JobRequest")
  + Seed * (Count(pending \o toMiner, "Configure") + Count(toCoord \o replies, "Ready"))

\* No slot of the pipeline is leaked and none is invented: while both ends run,
\* dispatches, answers and refunds add up to the seeded depth (dispatch_jobs,
\* reject_and_replace).
SlotsConserved ==
  loop \in {"greeting", "reading"} /\ miner = "running" => Slots = Seed

\* A row says what happened. A job is reported as rejected only if the miner
\* could not serve it: by the time a job reaches it, it has been told the
\* topology and the target (handshake). A lease's row counts the winner that
\* was reported before LeaseDone.
RowsTrue ==
  \A i \in DOMAIN rows :
    LET k == kind[rows[i].job]
    IN  IF rows[i].rejected
        THEN fault \/ k \in {"bad", "foreign"} \/ (narrowed /\ k \in Leases)
        ELSE k \in Leases => rows[i].passed = (k = "winner")

\* A run without a fault, over distinct job ids and with the right token,
\* reports every job: whatever the channels' capacities, the idle timeout
\* never cuts a run short.
NothingLost ==
  report # "none" /\ ~fault /\ Distinct /\ token => report = "clean"

\* Every run ends, also one whose validation panicked, whose ids collide or
\* whose miner vanished.
RunEnds == <>(report # "none")

\* The promise of DriveReport: outcomes are final, the miner is stopped and
\* the process exits clean only when every job has one.
Outcome(j) ==
  IF \E i \in DOMAIN rows : rows[i].job = j /\ ~rows[i].rejected THEN "answered"
  ELSE IF \E i \in DOMAIN rows : rows[i].job = j THEN "failed" ELSE "open"

Impl == INSTANCE DriveReport WITH
  outcome <- [j \in Jobs |-> Outcome(j)],
  stopped <- shut,
  verdict <- IF report = "none" THEN "running" ELSE report

Promise == Impl!Spec
=============================================================================
