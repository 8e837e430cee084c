---------------------------- MODULE DriveReport ----------------------------
(***************************************************************************)
(* What a drive run promises its caller: every job gets at most one        *)
(* outcome, an outcome is never revised, the miner is told to stop only    *)
(* once no job is left, and the process exits clean only then.             *)
(***************************************************************************)
CONSTANTS Jobs

VARIABLES
  outcome,   \* per job: "open", "answered" or "failed"
  stopped,   \* the miner was told to shut down
  verdict    \* "running", "clean" or "failed": the exit status

vars == <<outcome, stopped, verdict>>

AllClosed == \A j \in Jobs : outcome[j] # "open"

Init ==
  /\ outcome = [j \in Jobs |-> "open"]
  /\ stopped = FALSE
  /\ verdict = "running"

\* Some open jobs get their outcome: one by an answer, or several at once when
\* the miner cannot serve them or gives up.
Close(some, how) ==
  /\ verdict = "running"
  /\ some # {}
  /\ \A j \in some : outcome[j] = "open"
  /\ how = "answered" => \E j \in some : some = {j}
  /\ outcome' = [j \in Jobs |-> IF j \in some THEN how ELSE outcome[j]]
  /\ UNCHANGED <<stopped, verdict>>

Stop ==
  /\ verdict = "running"
  /\ AllClosed
  /\ stopped' = TRUE
  /\ UNCHANGED <<outcome, verdict>>

Publish(v) ==
  /\ verdict = "running"
  /\ v = "clean" => AllClosed
  /\ verdict' = v
  /\ UNCHANGED <<outcome, stopped>>

Next ==
  \/ \E some \in SUBSET Jobs, how \in {"answered", "failed"} : Close(some, how)
  \/ Stop
  \/ \E v \in {"clean", "failed"} : Publish(v)

Spec == Init /\ [][Next]_vars
=============================================================================
