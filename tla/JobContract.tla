---------------------------- MODULE JobContract ----------------------------
(***************************************************************************)
(* What the job queue promises the code that enqueues, with no attempts,   *)
(* reapers, heartbeats or clocks: a key is accepted once; at most one job  *)
(* is in execution; a job is only ever executed before its verdict; 'done' *)
(* is the verdict of an execution; a job nobody executes may be given up   *)
(* as failed; and a verdict is given once (core/queue.py QueueInterface,   *)
(* core/state.py create_job, claim_next_job, update_job).                  *)
(***************************************************************************)
CONSTANTS Jobs, NoJob

VARIABLES verdict, executing

cvars == <<verdict, executing>>

Init ==
  /\ verdict = [j \in Jobs |-> "none"]
  /\ executing = NoJob

Accept(j) ==
  /\ verdict[j] = "none"
  /\ verdict' = [verdict EXCEPT ![j] = "open"]
  /\ UNCHANGED executing

Start(j) ==
  /\ executing = NoJob
  /\ verdict[j] = "open"
  /\ executing' = j
  /\ UNCHANGED verdict

\* The execution ends without a verdict: put back, or lost with its process.
Stop ==
  /\ executing # NoJob
  /\ executing' = NoJob
  /\ UNCHANGED verdict

Finish(v) ==
  /\ executing # NoJob
  /\ verdict[executing] = "open"
  /\ verdict' = [verdict EXCEPT ![executing] = v]
  /\ executing' = NoJob

GiveUp(S) ==
  /\ \A j \in S : verdict[j] = "open" /\ executing # j
  /\ verdict' = [j \in Jobs |-> IF j \in S THEN "failed" ELSE verdict[j]]
  /\ UNCHANGED executing

Next ==
  \/ \E j \in Jobs : Accept(j) \/ Start(j)
  \/ Stop
  \/ \E v \in {"done", "failed"} : Finish(v)
  \/ \E S \in SUBSET Jobs : GiveUp(S)

Spec == Init /\ [][Next]_cvars
=============================================================================
