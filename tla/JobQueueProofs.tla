--------------------------- MODULE JobQueueProofs ---------------------------
(***************************************************************************)
(* Machine-checked facts about JobQueue, for any finite set of jobs, any   *)
(* cap and any number of faults.  TypeOK is inductive by itself; JobInv is *)
(* inductive relative to it; the properties follow from JobInv and from    *)
(* the shape of the actions.                                               *)
(***************************************************************************)
EXTENDS JobQueue, TLAPS, FiniteSetTheorems

\* The order of creation is a number: finitely many keys are ever asked for.
LEMMA CreatedFinite == Cardinality(Created) \in Nat
<1>1. Created \subseteq Jobs
  BY DEF Created
<1>2. IsFiniteSet(Created)
  BY <1>1, FS_Subset, JobsAssumption
<1> QED
  BY <1>2, FS_CardinalityType

\* A reap changes the reaped rows' status, window and freshness, within their types.
LEMMA ReapType ==
  ASSUME TypeOK, NEW S \in SUBSET Jobs, NEW D, Reap(S, D)
  PROVE  /\ status' \in [Jobs -> Statuses]
         /\ held' \in [Jobs -> 0..DeferTicks]
         /\ fresh' \in SUBSET Jobs
  BY DEF TypeOK, Reap, Statuses, DeferTicks

\* Every variable keeps its type (core/state.py jobs table, core/worker.py locals).
THEOREM TypeCorrect == Spec => []TypeOK
<1>1. Init => TypeOK
  <2> SUFFICES ASSUME Init PROVE TypeOK
    OBVIOUS
  <2>1. told \in [Jobs -> SUBSET {"run", "reap"}] /\ 0 \in 0..DeferTicks
    BY DEF Init, DeferTicks
  <2> QED
    BY <2>1, JobsAssumption DEF Init, TypeOK, Statuses, Outcomes, Phases
<1>2. TypeOK /\ [Next]_vars => TypeOK'
  <2> SUFFICES ASSUME TypeOK, [Next]_vars PROVE TypeOK'
    OBVIOUS
  <2> USE JobsAssumption, BoundsAssumption
  <2>1. CASE UNCHANGED vars
    BY <2>1 DEF TypeOK, vars, tableVars, workerVars, ghostVars
  <2>2. ASSUME NEW j \in Jobs, Enqueue(j) PROVE TypeOK'
    BY <2>2, CreatedFinite DEF Enqueue, TypeOK, Statuses, workerVars, ghostVars
  <2>3. CASE Poll
    BY <2>3 DEF Poll, TypeOK, Phases, tableVars, ghostVars
  <2>4. ASSUME NEW j \in Jobs, Claim(j) PROVE TypeOK'
    BY <2>4 DEF Claim, TypeOK, Phases, Statuses
  <2>5. CASE Idle
    BY <2>5 DEF Idle, TypeOK, Phases, Stale, tableVars, ghostVars
  <2>6. CASE HandlerReturns
    BY <2>6 DEF HandlerReturns, TypeOK, Phases, Possible, Outcomes, tableVars
  <2>7. CASE NotifySlow
    <3>1. noted' \in SUBSET Jobs /\ heads' \in [Jobs -> Nat] /\ faults' \in Nat
      BY <2>7 DEF NotifySlow, TypeOK, Fault
    <3> QED
      BY <2>7, <3>1 DEF NotifySlow, TypeOK, Phases
  <2>8. CASE Settle
    BY <2>8 DEF Settle, TypeOK, Phases, Statuses, Outcomes, Complete, FailJob, Requeue,
                Window, DeferTicks, Forget
  <2>9. CASE SettleLocked
    BY <2>9 DEF SettleLocked, TypeOK, Phases, Outcomes, Forget, Fault, tableVars, ghostVars
  <2>10. CASE FireHook
    BY <2>10 DEF FireHook, TypeOK, Phases, Outcomes, Forget, tableVars
  <2>11. CASE Beat
    BY <2>11 DEF Beat, TypeOK, workerVars, ghostVars
  <2>12. ASSUME NEW j \in Jobs, Age(j) PROVE TypeOK'
    BY <2>12 DEF Age, TypeOK, Fault, workerVars, ghostVars
  <2>13. CASE Tick
    BY <2>13 DEF Tick, TypeOK, Phases, DeferTicks, ghostVars
  <2>14. CASE WorkerReap
    <3>1. scan \in SUBSET Jobs /\ Reap(scan, OverCap(scan))
      BY <2>14 DEF WorkerReap, TypeOK
    <3> QED
      BY <2>14, <3>1, ReapType DEF WorkerReap, TypeOK, OverCap, Phases, ghostVars
  <2>15. CASE WorkerReapLocked
    BY <2>15 DEF WorkerReapLocked, TypeOK, Phases, Fault, tableVars, ghostVars
  <2>16. ASSUME NEW j \in Jobs, ReapHook(j) PROVE TypeOK'
    BY <2>16 DEF ReapHook, TypeOK, Phases, tableVars
  <2>17. CASE WatchdogScan
    BY <2>17 DEF WatchdogScan, TypeOK, Stale, tableVars, workerVars, ghostVars
  <2>18. CASE WatchdogReap
    <3>1. wd \in SUBSET Jobs /\ Reap(wd, {})
      BY <2>18 DEF WatchdogReap, TypeOK
    <3>2. /\ status' \in [Jobs -> Statuses]
          /\ held' \in [Jobs -> 0..DeferTicks]
          /\ fresh' \in SUBSET Jobs
      BY <3>1, ReapType
    <3>3. rescued' \in [Jobs -> Nat]
      BY <2>18 DEF WatchdogReap, TypeOK
    <3> QED
      BY <2>18, <3>2, <3>3 DEF WatchdogReap, TypeOK, workerVars
  <2>19. CASE Crash
    BY <2>19 DEF Crash, TypeOK, Phases, Outcomes, Forget, Fault, tableVars, ghostVars
  <2>20. CASE Restart
    BY <2>20 DEF Restart, TypeOK, Phases, tableVars, ghostVars
  <2>21. CASE Halt
    BY <2>21 DEF Halt, TypeOK, tableVars, workerVars
  <2>22. CASE Resume
    BY <2>22 DEF Resume, TypeOK, tableVars, workerVars
  <2> QED
    BY <2>1, <2>2, <2>3, <2>4, <2>5, <2>6, <2>7, <2>8, <2>9, <2>10, <2>11, <2>12, <2>13,
       <2>14, <2>15, <2>16, <2>17, <2>18, <2>19, <2>20, <2>21, <2>22 DEF Next, Worker
<1> QED
  BY <1>1, <1>2, PTL DEF Spec

-----------------------------------------------------------------------------
\* JobInv holds initially and every step keeps it, given the types.
LEMMA JobInvInductive == TypeOK /\ TypeOK' /\ JobInv /\ [Next]_vars => JobInv'
<1> SUFFICES ASSUME TypeOK, TypeOK', JobInv, [Next]_vars PROVE JobInv'
  OBVIOUS
<1> USE JobsAssumption, BoundsAssumption
<1>1. CASE UNCHANGED vars
  BY <1>1 DEF JobInv, vars, tableVars, workerVars, ghostVars
<1>2. ASSUME NEW j \in Jobs, Enqueue(j) PROVE JobInv'
  BY <1>2 DEF Enqueue, JobInv, TypeOK, workerVars, ghostVars
<1>3. CASE Poll
  BY <1>3 DEF Poll, JobInv, TypeOK, tableVars, ghostVars
<1>4. ASSUME NEW j \in Jobs, Claim(j) PROVE JobInv'
  BY <1>4 DEF Claim, Oldest, Claimable, JobInv, TypeOK
<1>5. CASE Idle
  BY <1>5 DEF Idle, JobInv, TypeOK, tableVars, ghostVars
<1>6. CASE HandlerReturns
  BY <1>6 DEF HandlerReturns, JobInv, TypeOK, tableVars
<1>7. CASE NotifySlow
  BY <1>7 DEF NotifySlow, JobInv, TypeOK, Fault
<1>8. CASE Settle
  <2> USE <1>8
  <2>1. cur \in Jobs /\ status[cur] \in {"running", "queued"} /\ seen = attempts[cur] /\ seen >= 1
    BY DEF Settle, JobInv
  <2>2. CASE Fate(out) = "done" /\ Complete(cur) /\ pc' = "next" /\ Forget
    BY <2>1, <2>2 DEF Settle, Complete, Forget, JobInv, TypeOK
  <2>3. CASE Fate(out) = "failed" /\ FailJob(cur) /\ pc' = "hook" /\ UNCHANGED <<cur, out, seen>>
    BY <2>1, <2>3 DEF Settle, FailJob, JobInv, TypeOK
  <2>4. ASSUME NEW t \in Window(out), Fate(out) \in {"defer", "retry"},
               Requeue(cur, Refunded(out), t), pc' \in {"paused", "next"}, Forget
        PROVE  JobInv'
    <3>1. Refunded(out) \/ seen < MaxAttempts
      BY <2>4, <2>1 DEF Fate, Exhausted, Refunded, TypeOK, Outcomes
    <3>2. /\ attempts'[cur] = IF Refunded(out) THEN attempts[cur] - 1 ELSE attempts[cur]
          /\ \A j \in Jobs : j # cur => attempts'[j] = attempts[j]
      <4>1. attempts[cur] > 0 /\ attempts \in [Jobs -> Nat]
        BY <2>1 DEF TypeOK
      <4>2. attempts' = [attempts EXCEPT ![cur] = IF Refunded(out) /\ attempts[cur] > 0
                                                  THEN attempts[cur] - 1 ELSE attempts[cur]]
        BY <2>4 DEF Requeue
      <4>3. CASE Refunded(out)
        BY <2>1, <4>1, <4>2, <4>3
      <4>4. CASE ~Refunded(out)
        BY <2>1, <4>1, <4>2, <4>4
      <4> QED
        BY <4>3, <4>4
    <3>3. attempts'[cur] < MaxAttempts + rescued[cur] /\ attempts'[cur] <= attempts[cur]
      BY <2>1, <3>1, <3>2 DEF JobInv, TypeOK
    <3>4. \A j \in Jobs : j # cur => attempts'[j] = attempts[j] /\ status'[j] = status[j]
      BY <2>4, <3>2 DEF Requeue, TypeOK
    <3>5. UNCHANGED <<noted, halted, rescued, told, heads, claimsHalted, faults>>
          /\ pc' \notin {"run", "note", "settle", "hook", "poll"} /\ pc = "settle"
      BY <2>4 DEF Settle
    <3>6. status'[cur] = "queued" /\ "run" \notin told[cur]
      BY <2>1, <2>4 DEF Requeue, JobInv, TypeOK
    <3> QED
      BY <2>1, <3>3, <3>4, <3>5, <3>6 DEF JobInv, TypeOK
  <2> QED
    BY <2>2, <2>3, <2>4 DEF Settle
<1>9. CASE SettleLocked
  BY <1>9 DEF SettleLocked, Forget, Fault, JobInv, TypeOK, tableVars, ghostVars
<1>10. CASE FireHook
  BY <1>10 DEF FireHook, Forget, JobInv, TypeOK, tableVars
<1>11. CASE Beat
  BY <1>11 DEF Beat, JobInv, workerVars, ghostVars
<1>12. ASSUME NEW j \in Jobs, Age(j) PROVE JobInv'
  BY <1>12 DEF Age, Fault, JobInv, TypeOK, workerVars, ghostVars
<1>13. CASE Tick
  BY <1>13 DEF Tick, JobInv, TypeOK, ghostVars
<1>14. CASE WorkerReap
  BY <1>14 DEF WorkerReap, Reap, OverCap, JobInv, TypeOK, ghostVars
<1>15. CASE WorkerReapLocked
  BY <1>15 DEF WorkerReapLocked, Fault, JobInv, TypeOK, tableVars, ghostVars
<1>16. ASSUME NEW j \in Jobs, ReapHook(j) PROVE JobInv'
  BY <1>16 DEF ReapHook, JobInv, TypeOK, tableVars
<1>17. CASE WatchdogScan
  BY <1>17 DEF WatchdogScan, JobInv, tableVars, workerVars, ghostVars
<1>18. CASE WatchdogReap
  BY <1>18 DEF WatchdogReap, Reap, JobInv, TypeOK, workerVars
<1>19. CASE Crash
  BY <1>19 DEF Crash, Forget, Fault, JobInv, TypeOK, tableVars, ghostVars
<1>20. CASE Restart
  BY <1>20 DEF Restart, JobInv, TypeOK, tableVars, ghostVars
<1>21. CASE Halt
  BY <1>21 DEF Halt, JobInv, TypeOK, tableVars, workerVars
<1>22. CASE Resume
  BY <1>22 DEF Resume, JobInv, TypeOK, tableVars, workerVars
<1> QED
  BY <1>1, <1>2, <1>3, <1>4, <1>5, <1>6, <1>7, <1>8, <1>9, <1>10, <1>11, <1>12, <1>13,
     <1>14, <1>15, <1>16, <1>17, <1>18, <1>19, <1>20, <1>21, <1>22 DEF Next, Worker

\* The invariants the runs check, for every value of the constants: the attempt cap
\* up to watchdog rescues, the failure notice, the job in hand, one heads-up, and
\* the kill switch (core/worker.py process_one, run_forever).
THEOREM JobInvariant == Spec => []JobInv
<1>1. Init => JobInv
  BY BoundsAssumption DEF Init, JobInv
<1>2. TypeOK /\ TypeOK' /\ JobInv /\ [Next]_vars => JobInv'
  BY JobInvInductive
<1> QED
  BY <1>1, <1>2, TypeCorrect, PTL DEF Spec

\* Each start over the cap costs a watchdog rescue (core/state.py reap_orphan_jobs).
COROLLARY CapCorrect == Spec => []CapHolds
<1>1. JobInv => CapHolds
  BY DEF JobInv, CapHolds
<1> QED
  BY <1>1, JobInvariant, PTL

\* A job whose failure process_one announced stays failed (core/worker.py
\* _fire_failure_hook).
COROLLARY NoticeCorrect == Spec => []NoticeStands
<1>1. JobInv => NoticeStands
  BY DEF JobInv, NoticeStands
<1> QED
  BY <1>1, JobInvariant, PTL

\* At most one job is claimed after the kill switch (core/pause.py).
COROLLARY HaltCorrect == Spec => []HaltStops
<1>1. TypeOK /\ JobInv => HaltStops
  BY DEF TypeOK, JobInv, HaltStops
<1> QED
  BY <1>1, JobInvariant, TypeCorrect, PTL

\* The row that the worker's handler runs on has no verdict before process_one
\* writes one: nobody else settles it (core/worker.py process_one).
COROLLARY InHandCorrect == Spec => []InHandUnsettled
<1>1. TypeOK /\ JobInv => InHandUnsettled
  BY JobsAssumption DEF TypeOK, JobInv, InHandUnsettled, InHand
<1> QED
  BY <1>1, JobInvariant, TypeCorrect, PTL

\* The owner is told once that a job takes long, and once more only for a checkpoint
\* that was lost (core/worker.py _notify_slow).
COROLLARY HeadsUpCorrect == Spec => []HeadsUpOnce
<1>1. TypeOK /\ JobInv => HeadsUpOnce
  BY DEF TypeOK, JobInv, HeadsUpOnce
<1> QED
  BY <1>1, JobInvariant, TypeCorrect, PTL

-----------------------------------------------------------------------------
\* Who writes a status: only process_one on the job in hand, which has no verdict,
\* a claim of a queued row, a reap of a running row, and the first enqueue.
LEMMA StatusStep ==
  ASSUME TypeOK, JobInv, [Next]_vars, NEW j \in Jobs, status[j] \in {"done", "failed"}
  PROVE  status'[j] = status[j]
<1> USE JobsAssumption, BoundsAssumption
<1>1. CASE Settle
  BY <1>1 DEF Settle, Complete, FailJob, Requeue, JobInv, TypeOK
<1>2. ASSUME NEW k \in Jobs, Enqueue(k) PROVE status'[j] = status[j]
  BY <1>2 DEF Enqueue, TypeOK
<1>3. ASSUME NEW k \in Jobs, Claim(k) PROVE status'[j] = status[j]
  BY <1>3 DEF Claim, Oldest, Claimable, TypeOK
<1>4. CASE WorkerReap
  BY <1>4 DEF WorkerReap, Reap, TypeOK
<1>5. CASE WatchdogReap
  BY <1>5 DEF WatchdogReap, Reap, TypeOK
<1>6. CASE UNCHANGED status
  BY <1>6
<1> QED
  BY <1>1, <1>2, <1>3, <1>4, <1>5, <1>6
     DEF Next, Worker, Poll, Idle, HandlerReturns, NotifySlow, FireHook, ReapHook,
         SettleLocked, WorkerReapLocked, Beat, Tick, Age, WatchdogScan, Crash, Restart,
         Halt, Resume, vars, tableVars

\* A verdict is final: done and failed never change (core/state.py update_job).
THEOREM VerdictIsFinal == Spec => VerdictFinal
<1>1. TypeOK /\ JobInv /\ [Next]_vars =>
        [\A j \in Jobs : status[j] \in {"done", "failed"} => status'[j] = status[j]]_status
  BY StatusStep
<1> QED
  BY <1>1, TypeCorrect, JobInvariant, PTL DEF Spec, VerdictFinal

-----------------------------------------------------------------------------
\* The mapped variables, point by point.
LEMMA VerdictAt ==
  ASSUME NEW j \in Jobs
  PROVE  /\ status[j] = "absent" => Verdict[j] = "none"
         /\ status[j] \in {"queued", "running"} => Verdict[j] = "open"
         /\ status[j] \in {"done", "failed"} => Verdict[j] = status[j]
         /\ status'[j] = "absent" => Verdict'[j] = "none"
         /\ status'[j] \in {"queued", "running"} => Verdict'[j] = "open"
         /\ status'[j] \in {"done", "failed"} => Verdict'[j] = status'[j]
  BY DEF Verdict

\* Two verdict functions are equal when they agree on every job.
LEMMA VerdictExt ==
  /\ Verdict = [j \in Jobs |-> Verdict[j]]
  /\ Verdict' = [j \in Jobs |-> Verdict'[j]]
  BY DEF Verdict

\* A step that moves rows between queued and running only, and leaves the job in
\* execution alone, is invisible to the contract.
LEMMA Invisible ==
  ASSUME TypeOK, TypeOK', Executing' = Executing,
         \A j \in Jobs : \/ status'[j] = status[j]
                          \/ {status[j], status'[j]} \subseteq {"queued", "running"}
  PROVE  UNCHANGED Contract!cvars
<1>1. \A j \in Jobs : Verdict'[j] = Verdict[j]
  BY VerdictAt DEF TypeOK, Statuses
<1> QED
  BY <1>1, VerdictExt DEF Contract!cvars

\* Every step of the queue is a step of the contract, or invisible to it.
LEMMA StepRefines ==
  TypeOK /\ TypeOK' /\ JobInv /\ [Next]_vars => [Contract!Next]_(Contract!cvars)
<1> SUFFICES ASSUME TypeOK, TypeOK', JobInv, [Next]_vars
             PROVE  [Contract!Next]_(Contract!cvars)
  OBVIOUS
<1> USE JobsAssumption
<1>1. CASE UNCHANGED <<status, pc, cur>>
  BY <1>1, Invisible DEF Executing
<1>2. ASSUME NEW j \in Jobs, Enqueue(j) PROVE [Contract!Next]_(Contract!cvars)
  <2>1. Executing' = Executing
    BY <1>2 DEF Enqueue, workerVars, Executing
  <2>2. CASE status[j] = "absent"
    <3>1. Verdict' = [Verdict EXCEPT ![j] = "open"]
      BY <1>2, <2>2 DEF Enqueue, Verdict, TypeOK
    <3>2. Contract!Accept(j)
      BY <2>1, <2>2, <3>1, VerdictAt DEF Contract!Accept
    <3> QED
      BY <3>2 DEF Contract!Next
  <2>3. CASE status[j] # "absent"
    BY <1>2, <2>1, <2>3, Invisible DEF Enqueue
  <2> QED
    BY <2>2, <2>3
<1>3. ASSUME NEW j \in Jobs, Claim(j) PROVE [Contract!Next]_(Contract!cvars)
  <2>1. Executing = NoJob /\ Executing' = j /\ status[j] = "queued" /\ status'[j] = "running"
    BY <1>3 DEF Claim, Oldest, Claimable, Executing, TypeOK
  <2>2. Verdict' = Verdict
    BY <1>3, <2>1 DEF Claim, Verdict, TypeOK
  <2>3. Contract!Start(j)
    BY <2>1, <2>2, VerdictAt DEF Contract!Start
  <2> QED
    BY <2>3 DEF Contract!Next
<1>4. CASE Settle
  <2>1. /\ cur \in Jobs /\ cur # NoJob /\ status[cur] \in {"running", "queued"}
        /\ Executing = cur /\ Executing' = NoJob
    BY <1>4 DEF Settle, JobInv, Executing, Forget
  <2>2. Verdict[cur] = "open"
    BY <2>1, VerdictAt
  <2>3. ASSUME NEW v \in {"done", "failed"}, status' = [status EXCEPT ![cur] = v]
        PROVE  [Contract!Next]_(Contract!cvars)
    <3>1. Verdict' = [Verdict EXCEPT ![cur] = v]
      BY <2>1, <2>3 DEF Verdict, TypeOK
    <3>2. Contract!Finish(v)
      BY <2>1, <2>2, <3>1 DEF Contract!Finish
    <3> QED
      BY <3>2 DEF Contract!Next
  <2>4. ASSUME status' = [status EXCEPT ![cur] = "queued"]
        PROVE  [Contract!Next]_(Contract!cvars)
    <3>1. Verdict' = Verdict
      BY <2>1, <2>4 DEF Verdict, TypeOK
    <3>2. Contract!Stop
      BY <2>1, <3>1 DEF Contract!Stop
    <3> QED
      BY <3>2 DEF Contract!Next
  <2> QED
    BY <1>4, <2>1, <2>3, <2>4 DEF Settle, Complete, FailJob, Requeue, TypeOK
<1>5. ASSUME UNCHANGED status, Executing' = NoJob PROVE [Contract!Next]_(Contract!cvars)
  <2>1. Verdict' = Verdict
    BY <1>5 DEF Verdict
  <2>2. CASE Executing = NoJob
    BY <1>5, <2>1, <2>2 DEF Contract!cvars
  <2>3. CASE Executing # NoJob
    BY <1>5, <2>1, <2>3 DEF Contract!Stop, Contract!Next
  <2> QED
    BY <2>2, <2>3
<1>6. CASE WorkerReap
  <2> DEFINE S == {j \in OverCap(scan) : status[j] = "running"}
  <2>1. Executing = NoJob /\ Executing' = NoJob
    BY <1>6 DEF WorkerReap, Executing
  <2>2. \A j \in Jobs : Verdict'[j] = IF j \in S THEN "failed" ELSE Verdict[j]
    BY <1>6, VerdictAt DEF WorkerReap, Reap, OverCap, TypeOK, Statuses
  <2>3. S \in SUBSET Jobs /\ \A j \in S : Verdict[j] = "open"
    BY VerdictAt DEF OverCap, TypeOK
  <2>4. Contract!GiveUp(S)
    BY <2>1, <2>2, <2>3, VerdictExt DEF Contract!GiveUp
  <2> QED
    BY <2>3, <2>4 DEF Contract!Next
<1>7. CASE WatchdogReap
  <2>1. Executing' = Executing
    BY <1>7 DEF WatchdogReap, workerVars, Executing
  <2> QED
    BY <1>7, <2>1, Invisible DEF WatchdogReap, Reap, TypeOK
<1>8. ASSUME UNCHANGED status, Executing' = Executing PROVE [Contract!Next]_(Contract!cvars)
  BY <1>8, Invisible
<1> QED
  BY <1>1, <1>2, <1>3, <1>4, <1>5, <1>6, <1>7, <1>8
     DEF Next, Worker, Poll, Idle, HandlerReturns, NotifySlow, FireHook, ReapHook,
         SettleLocked, WorkerReapLocked, Beat, Tick, Age, WatchdogScan, Crash, Restart,
         Halt, Resume, vars, tableVars, workerVars, Executing, Forget

\* The queue implements the contract its callers rely on (core/queue.py
\* QueueInterface): accepted once, one execution at a time, never executed after a
\* verdict, one verdict.
THEOREM QueueImplementsContract == Spec => ImplementsContract
<1>1. Init => Contract!Init
  BY DEF Init, Contract!Init, Verdict, Executing
<1>2. TypeOK /\ TypeOK' /\ JobInv /\ [Next]_vars => [Contract!Next]_(Contract!cvars)
  BY StepRefines
<1> QED
  BY <1>1, <1>2, TypeCorrect, JobInvariant, PTL DEF Spec, ImplementsContract, Contract!Spec
=============================================================================
