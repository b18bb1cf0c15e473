------------------------------ MODULE JobQueue ------------------------------
(***************************************************************************)
(* The box's job queue: the `jobs` table of core/state.py, the worker      *)
(* process that claims and runs jobs (core/worker.py), the heartbeat       *)
(* thread that keeps the row of the job in hand fresh, the two reapers     *)
(* that find rows whose worker died (the worker's own, which may fail a    *)
(* job, and the watchdog's, which only requeues), and the kill switch.     *)
(*                                                                         *)
(* One worker process runs per box (deploy/aios-worker.service), so its    *)
(* locals are plain variables.  A statement on the database is one step;   *)
(* what the code does between two statements is not.  In particular a      *)
(* reaper reads the stale rows and only then updates them, and a handler   *)
(* returns before its outcome is written.                                  *)
(***************************************************************************)
EXTENDS Naturals, FiniteSets

CONSTANTS
  Jobs,          \* idempotency keys the dispatchers may ask for
  Deferring,     \* the jobs whose handler may hit a soft budget or a send cap
  MaxAttempts,   \* worker.max_attempts
  MaxFaults,     \* bound: crashes, locked-database errors and stalls together
  NoJob          \* the worker holds no job

ASSUME JobsAssumption ==
  /\ Deferring \subseteq Jobs
  /\ NoJob \notin Jobs
  /\ IsFiniteSet(Jobs)
ASSUME BoundsAssumption ==
  /\ MaxAttempts \in Nat \ {0}
  /\ MaxFaults \in Nat

VARIABLES
  \* the jobs table, one function per column
  status,    \* "absent" before the row exists
  attempts,
  held,      \* pause intervals until not_before passes, 0 when it has
  fresh,     \* the rows whose updated_at is younger than the reapers' threshold
  born,      \* created_at, as the order of creation
  noted,     \* the rows whose checkpoint "slow_notified" is stored
  \* the worker process
  pc, cur, out, seen,
  scan,      \* stale rows the worker's reaper has read and not yet updated
  hookq,     \* jobs the reaper reports as failed, hooks still to run
  \* the other processes
  wd,        \* stale rows the watchdog has read and not yet updated
  halted,    \* data/PAUSED exists
  \* observation only
  rescued, succeeded, told, heads, claimsHalted, faults

tableVars  == <<status, attempts, held, fresh, born, noted>>
workerVars == <<pc, cur, out, seen, scan, hookq>>
ghostVars  == <<rescued, succeeded, told, heads, claimsHalted>>
vars == <<tableVars, workerVars, wd, halted, ghostVars, faults>>

Statuses == {"absent", "queued", "running", "done", "failed"}
Outcomes == {"ok", "no_handler", "hard", "soft", "capped", "retry", "bug", "locked"}
Phases   == {"down", "idle", "next", "poll", "run", "note", "settle", "hook",
             "paused", "reap", "reaphook"}

\* The clock's unit is the worker's pause_interval (300 s); a budget deferral
\* (_BUDGET_DEFER_S, 600 s) is two of them.
DeferTicks == 2

TypeOK ==
  /\ status \in [Jobs -> Statuses]
  /\ attempts \in [Jobs -> Nat]
  /\ held \in [Jobs -> 0..DeferTicks]
  /\ fresh \in SUBSET Jobs
  /\ born \in [Jobs -> Nat]
  /\ noted \in SUBSET Jobs
  /\ pc \in Phases
  /\ cur \in Jobs \union {NoJob}
  /\ pc \in {"run", "note", "settle", "hook"} <=> cur # NoJob
  /\ out \in Outcomes
  /\ seen \in Nat
  /\ scan \in SUBSET Jobs
  /\ hookq \in SUBSET Jobs
  /\ wd \in SUBSET Jobs
  /\ halted \in BOOLEAN
  /\ rescued \in [Jobs -> Nat]
  /\ succeeded \in SUBSET Jobs
  /\ told \in [Jobs -> SUBSET {"run", "reap"}]
  /\ heads \in [Jobs -> Nat]
  /\ claimsHalted \in Nat
  /\ faults \in Nat

Init ==
  /\ status = [j \in Jobs |-> "absent"]
  /\ attempts = [j \in Jobs |-> 0]
  /\ held = [j \in Jobs |-> 0]
  /\ fresh = {}
  /\ born = [j \in Jobs |-> 0]
  /\ noted = {}
  /\ pc = "idle" /\ cur = NoJob /\ out = "ok" /\ seen = 0
  /\ scan = {} /\ hookq = {} /\ wd = {}
  /\ halted = FALSE
  /\ rescued = [j \in Jobs |-> 0]
  /\ succeeded = {}
  /\ told = [j \in Jobs |-> {}]
  /\ heads = [j \in Jobs |-> 0]
  /\ claimsHalted = 0
  /\ faults = 0

-----------------------------------------------------------------------------
(* Helpers *)

Created      == {j \in Jobs : status[j] # "absent"}
Claimable(j) == status[j] = "queued" /\ held[j] = 0
Oldest(j)    == Claimable(j) /\ \A k \in Jobs : Claimable(k) => born[j] <= born[k]
InHand(j)    == cur = j
\* Mutant: a reaper passes over the rows that have had their attempts.
StaleUnderCap ==
  {j \in Jobs : status[j] = "running" /\ j \notin fresh /\ attempts[j] < MaxAttempts}
\* The rows a reaper finds: running, and not touched for half an hour.
Stale == {j \in Jobs : status[j] = "running" /\ j \notin fresh}

\* Mutant: one attempt too many before the job fails.
ExhaustedLate == seen > MaxAttempts

\* What process_one does with an outcome; `locked` is the generic except on a
\* transient SQLite lock.  The attempt count is the one the claim returned.
Exhausted == seen >= MaxAttempts
Fate(o) ==
  CASE o = "ok"                      -> "done"
    [] o \in {"soft", "capped"}      -> "defer"
    [] o \in {"retry", "locked"}     -> IF Exhausted THEN "failed" ELSE "retry"
    [] OTHER                         -> "failed"
\* The not_before of a requeue: 600 s for a budget, a backoff of 60 to 600 s for a
\* retry, when a slot frees for a cap.
Window(o)    == IF o = "soft" THEN {DeferTicks} ELSE 1..DeferTicks
Refunded(o)  == o \in {"soft", "capped"}
HeadsUp(o)   == o \in {"soft", "capped"} \/ (o = "retry" /\ ~Exhausted)

Possible(j) == Outcomes \ (IF j \in Deferring THEN {} ELSE {"soft", "capped"})

\* process_one is left: its locals and _current_job_id are gone.
Forget == cur' = NoJob /\ out' = "ok" /\ seen' = 0

Fault == faults < MaxFaults /\ faults' = faults + 1

-----------------------------------------------------------------------------
(* Dispatchers, periodics and pollers: state.create_job *)

\* INSERT OR IGNORE on the idempotency key: a second request for a key that
\* already has a row, whatever its status, returns the row and changes nothing.
Enqueue(j) ==
  /\ IF status[j] = "absent"
     THEN /\ status' = [status EXCEPT ![j] = "queued"]
          /\ born' = [born EXCEPT ![j] = Cardinality(Created) + 1]
     ELSE UNCHANGED <<status, born>>
  /\ UNCHANGED <<attempts, held, fresh, noted, workerVars, wd, halted, ghostVars, faults>>

-----------------------------------------------------------------------------
(* The worker's loop *)

\* Mutant: the loop reads the kill switch only when it was idle.
PollWhileBusy ==
  /\ pc \in {"idle", "next"}
  /\ pc = "idle" => ~halted
  /\ pc' = "poll"
  /\ UNCHANGED <<tableVars, cur, out, seen, scan, hookq, wd, halted, ghostVars, faults>>

\* The kill switch is read, and only then is a job claimed.
Poll ==
  /\ pc \in {"idle", "next"}
  /\ ~halted
  /\ pc' = "poll"
  /\ UNCHANGED <<tableVars, cur, out, seen, scan, hookq, wd, halted, ghostVars, faults>>

\* state.claim_next_job: one UPDATE ... RETURNING of the oldest claimable row.
Claim(j) ==
  /\ pc = "poll"
  /\ Oldest(j)
  /\ status' = [status EXCEPT ![j] = "running"]
  /\ attempts' = [attempts EXCEPT ![j] = @ + 1]
  /\ fresh' = fresh \union {j}
  /\ pc' = "run" /\ cur' = j /\ seen' = attempts[j] + 1
  /\ claimsHalted' = IF halted THEN claimsHalted + 1 ELSE claimsHalted
  /\ UNCHANGED <<held, born, noted, out, scan, hookq, wd, halted,
                 rescued, succeeded, told, heads, faults>>

\* The queue is empty: the cheap moment to reap.  The stale rows are read here.
Idle ==
  /\ pc = "poll"
  /\ ~\E j \in Jobs : Claimable(j)
  /\ scan' = Stale
  /\ pc' = IF Stale = {} THEN "idle" ELSE "reap"
  /\ UNCHANGED <<tableVars, cur, out, seen, hookq, wd, halted, ghostVars, faults>>

\* The handler (or the router before it) returns or raises.
HandlerReturns ==
  /\ pc = "run"
  /\ \E o \in Possible(cur) :
       /\ out' = o
       /\ pc' = IF HeadsUp(o) THEN "note" ELSE "settle"
       /\ succeeded' = IF o = "ok" THEN succeeded \union {cur} ELSE succeeded
  /\ UNCHANGED <<tableVars, cur, seen, scan, hookq, wd, halted,
                 rescued, told, heads, claimsHalted, faults>>

\* Mutant: the heads-up is sent and its checkpoint never stored.
NotifySlowEveryTime ==
  /\ pc = "note"
  /\ pc' = "settle"
  /\ heads' = [heads EXCEPT ![cur] = @ + 1]
  /\ heads[cur] < 4
  /\ UNCHANGED <<noted, faults, status, attempts, held, fresh, born, cur, out, seen, scan, hookq,
                 wd, halted, rescued, succeeded, told, claimsHalted>>

\* _notify_slow: one heads-up per job, remembered by a checkpoint; a reply or a
\* checkpoint that fails is swallowed, so the next requeue says it again.
NotifySlow ==
  /\ pc = "note"
  /\ pc' = "settle"
  /\ \/ /\ cur \in noted
        /\ UNCHANGED <<noted, heads, faults>>
     \/ /\ cur \notin noted
        /\ heads' = [heads EXCEPT ![cur] = @ + 1]
        /\ \/ noted' = noted \union {cur} /\ UNCHANGED faults
           \/ Fault /\ UNCHANGED noted
     \/ cur \notin noted /\ Fault /\ UNCHANGED <<noted, heads>>
  /\ UNCHANGED <<status, attempts, held, fresh, born, cur, out, seen, scan, hookq,
                 wd, halted, rescued, succeeded, told, claimsHalted>>

\* queue.complete: status 'done', whatever the row says now.
Complete(j) ==
  /\ status' = [status EXCEPT ![j] = "done"]
  /\ UNCHANGED <<attempts, held>>

\* queue.fail: never over a 'done' row.
FailJob(j) ==
  /\ status' = [status EXCEPT ![j] = IF @ = "done" THEN @ ELSE "failed"]
  /\ UNCHANGED <<attempts, held>>

\* state.requeue_job: whatever the row says now.
Requeue(j, refund, ticks) ==
  /\ status' = [status EXCEPT ![j] = "queued"]
  /\ held' = [held EXCEPT ![j] = ticks]
  /\ attempts' = [attempts EXCEPT ![j] = IF refund /\ @ > 0 THEN @ - 1 ELSE @]

\* The outcome is written, and the worker forgets the job unless a hook is due.
Settle ==
  /\ pc = "settle"
  /\ \/ /\ Fate(out) = "done"
        /\ Complete(cur)
        /\ pc' = "next" /\ Forget
     \/ /\ Fate(out) = "failed"
        /\ FailJob(cur)
        /\ pc' = "hook" /\ UNCHANGED <<cur, out, seen>>
     \/ /\ Fate(out) \in {"defer", "retry"}
        /\ \E t \in Window(out) : Requeue(cur, Refunded(out), t)
        /\ pc' = (IF out = "soft" THEN "paused" ELSE "next") /\ Forget
  /\ fresh' = fresh \union {cur}
  /\ UNCHANGED <<born, noted, scan, hookq, wd, halted,
                 rescued, succeeded, told, heads, claimsHalted, faults>>

\* The write meets a locked database.  Inside the try (the success path and the
\* missing handler) the generic except gets it; raised by an except clause it
\* leaves process_one and ends the process.
SettleLocked ==
  /\ pc = "settle"
  /\ Fault
  /\ IF out \in {"ok", "no_handler"}
     THEN out' = "locked" /\ UNCHANGED <<pc, cur, seen>>
     ELSE pc' = "down" /\ Forget
  /\ UNCHANGED <<tableVars, scan, hookq, wd, halted, ghostVars>>

\* _fire_failure_hook: the module's hook and the notice in the owner's thread.
FireHook ==
  /\ pc = "hook"
  /\ told' = [told EXCEPT ![cur] = @ \union {"run"}]
  /\ pc' = "next" /\ Forget
  /\ UNCHANGED <<tableVars, scan, hookq, wd, halted,
                 rescued, succeeded, heads, claimsHalted, faults>>

-----------------------------------------------------------------------------
(* Liveness of a row: the heartbeat thread and the passage of time *)

\* touch_job, from the heartbeat thread.
Beat ==
  /\ cur # NoJob
  /\ status[cur] = "running" /\ cur \notin fresh
  /\ fresh' = fresh \union {cur}
  /\ UNCHANGED <<status, attempts, held, born, noted, workerVars, wd, halted, ghostVars, faults>>

\* Half an hour without a touch.  A live worker touches its row every minute, so
\* its row goes stale only when every touch fails (a locked database, a frozen
\* machine): a fault.
Age(j) ==
  /\ status[j] = "running" /\ j \in fresh
  /\ IF InHand(j) THEN Fault ELSE UNCHANGED faults
  /\ fresh' = fresh \ {j}
  /\ UNCHANGED <<status, attempts, held, born, noted, workerVars, wd, halted, ghostVars>>

\* A pause interval goes by while the worker sleeps, waits, is down or runs a
\* handler; what it does between two jobs takes no time.  A handler that defers
\* does so before its work (the budget and the cap are checked first).
Tick ==
  /\ \/ pc \in {"idle", "down", "paused"}
     \/ pc = "run" /\ cur \notin Deferring
     \/ pc = "next" /\ halted
  /\ \/ pc = "paused"
     \/ \E j \in Jobs : held[j] > 0
  /\ held' = [j \in Jobs |-> IF held[j] > 0 THEN held[j] - 1 ELSE 0]
  /\ pc' = IF pc = "paused" THEN "next" ELSE pc
  /\ UNCHANGED <<status, attempts, fresh, born, noted, cur, out, seen, scan, hookq,
                 wd, halted, ghostVars, faults>>

-----------------------------------------------------------------------------
(* The reapers *)

\* Mutant: the update does not look at the status again.
ReapAnyway(S, doomed) ==
  /\ status' = [j \in Jobs |-> IF j \notin S THEN status[j]
                               ELSE IF j \in doomed THEN "failed" ELSE "queued"]
  /\ held' = [j \in Jobs |-> IF j \in S \ doomed THEN 0 ELSE held[j]]
  /\ fresh' = fresh \union S

\* The update of the rows read before, guarded on status = 'running' alone: the
\* doomed ones fail, the others go back with no window and no attempt refunded.
Reap(S, doomed) ==
  LET hit == {j \in S : status[j] = "running"} IN
  /\ status' = [j \in Jobs |-> IF j \notin hit THEN status[j]
                               ELSE IF j \in doomed THEN "failed" ELSE "queued"]
  /\ held' = [j \in Jobs |-> IF j \in hit \ doomed THEN 0 ELSE held[j]]
  /\ fresh' = fresh \union hit

OverCap(S) == {j \in S : attempts[j] >= MaxAttempts}

\* The jobs over the cap are reported whether or not their row was still running.
WorkerReap ==
  /\ pc = "reap"
  /\ Reap(scan, OverCap(scan))
  /\ hookq' = OverCap(scan)
  /\ pc' = IF hookq' = {} THEN "idle" ELSE "reaphook"
  /\ scan' = {}
  /\ UNCHANGED <<attempts, born, noted, cur, out, seen, wd, halted, ghostVars, faults>>

\* An error while reaping is logged and the loop goes on.  It comes on top of the fault
\* that left a stale row, so one more than MaxFaults is allowed here.
WorkerReapLocked ==
  /\ pc = "reap"
  /\ faults <= MaxFaults /\ faults' = faults + 1
  /\ pc' = "idle" /\ scan' = {}
  /\ UNCHANGED <<tableVars, cur, out, seen, hookq, wd, halted, ghostVars>>

ReapHook(j) ==
  /\ pc = "reaphook"
  /\ j \in hookq
  /\ told' = [told EXCEPT ![j] = @ \union {"reap"}]
  /\ hookq' = hookq \ {j}
  /\ pc' = IF hookq' = {} THEN "idle" ELSE "reaphook"
  /\ UNCHANGED <<tableVars, cur, out, seen, scan, wd, halted,
                 rescued, succeeded, heads, claimsHalted, faults>>

WatchdogScan ==
  /\ wd = {} /\ Stale # {}
  /\ wd' = Stale
  /\ UNCHANGED <<tableVars, workerVars, halted, ghostVars, faults>>

\* Mutant: the watchdog fails the rows over the cap while their handler may be alive.
WatchdogReapCapped ==
  /\ wd # {}
  /\ Reap(wd, OverCap(wd))
  /\ wd' = {}
  /\ UNCHANGED <<rescued, attempts, born, noted, workerVars, halted,
                 succeeded, told, heads, claimsHalted, faults>>

WatchdogReap ==
  /\ wd # {}
  /\ Reap(wd, {})
  /\ wd' = {}
  /\ rescued' = [j \in Jobs |-> IF j \in wd /\ status[j] = "running"
                                THEN rescued[j] + 1 ELSE rescued[j]]
  /\ UNCHANGED <<attempts, born, noted, workerVars, halted,
                 succeeded, told, heads, claimsHalted, faults>>

-----------------------------------------------------------------------------
(* The process and the operator *)

\* kill -9, OOM, a reboot, a deploy's restart: everything in memory is gone.
Crash ==
  /\ pc # "down"
  /\ Fault
  /\ pc' = "down" /\ Forget /\ scan' = {} /\ hookq' = {}
  /\ UNCHANGED <<tableVars, wd, halted, ghostVars>>

Restart ==
  /\ pc = "down"
  /\ pc' = "idle"
  /\ UNCHANGED <<tableVars, cur, out, seen, scan, hookq, wd, halted, ghostVars, faults>>

Halt ==
  /\ ~halted
  /\ halted' = TRUE
  /\ claimsHalted' = 0
  /\ UNCHANGED <<tableVars, workerVars, wd, rescued, succeeded, told, heads, faults>>

Resume ==
  /\ halted
  /\ halted' = FALSE
  /\ claimsHalted' = 0
  /\ UNCHANGED <<tableVars, workerVars, wd, rescued, succeeded, told, heads, faults>>

-----------------------------------------------------------------------------
Worker ==
  \/ Poll \/ (\E j \in Jobs : Claim(j)) \/ Idle
  \/ HandlerReturns \/ NotifySlow \/ Settle \/ FireHook
  \/ WorkerReap \/ (\E j \in Jobs : ReapHook(j))

Next ==
  \/ \E j \in Jobs : Enqueue(j)
  \/ Worker
  \/ SettleLocked \/ WorkerReapLocked
  \/ Beat
  \/ Tick \/ \E j \in Jobs : Age(j)
  \/ WatchdogScan \/ WatchdogReap
  \/ Crash \/ Restart
  \/ Halt \/ Resume

Spec == Init /\ [][Next]_vars

\* systemd restarts the worker (Restart=always), the watchdog is a timer, time
\* passes, and a handler that runs returns (each one bounds its own calls).
Fairness ==
  /\ WF_vars(Worker) /\ WF_vars(Restart) /\ WF_vars(Beat) /\ SF_vars(Tick)
  /\ WF_vars(WatchdogScan) /\ WF_vars(WatchdogReap)
  /\ \A j \in Jobs : WF_vars(Age(j) /\ ~InHand(j))

FairSpec == Spec /\ Fairness

-----------------------------------------------------------------------------
(* The contract this module implements *)

Executing == IF pc \in {"run", "note", "settle"} THEN cur ELSE NoJob
Verdict   == [j \in Jobs |-> CASE status[j] = "absent" -> "none"
                               [] status[j] \in {"queued", "running"} -> "open"
                               [] OTHER -> status[j]]

Contract == INSTANCE JobContract WITH verdict <- Verdict, executing <- Executing

\* The queue implements JobContract: accepted once, one execution at a time, no
\* execution after a verdict, one verdict (core/worker.py process_one with both
\* reapers of core/state.py at work).
ImplementsContract == Contract!Spec

-----------------------------------------------------------------------------
(* Properties *)

\* A verdict is final: a row that reached 'done' or 'failed' never changes again,
\* whatever a late failure write, requeue or reaper does (core/state.py update_job,
\* requeue_job, reap_orphan_jobs).
VerdictFinal ==
  [][\A j \in Jobs : status[j] \in {"done", "failed"} => status'[j] = status[j]]_status

\* A job is started past the cap only because the watchdog, which cannot fail a
\* job, requeued it: each start over max_attempts costs one watchdog rescue.
CapHolds ==
  \A j \in Jobs : attempts[j] <= MaxAttempts + rescued[j]

\* Once process_one has run the failure hook and told the owner, the job is failed
\* and stays so: no reaper has put it back in the queue behind the notice.
NoticeStands ==
  \A j \in Jobs : "run" \in told[j] => status[j] = "failed"

\* The row of the job in the worker's hands is never taken for a verdict by anyone
\* else: until process_one settles it, it is running or back in the queue.
InHandUnsettled ==
  \A j \in Jobs : InHand(j) /\ pc # "hook" => status[j] \in {"running", "queued"}

\* The owner gets one "still on it" per job unless the reply's checkpoint was lost.
HeadsUpOnce ==
  \A j \in Jobs : heads[j] <= 1 + faults

\* The kill switch stops the queue within one job: at most one claim slips through
\* between the check and the claim.
HaltStops == halted => claimsHalted <= 1

\* The inductive form of the invariants above: what is known of the job in hand,
\* of a row that may be claimed again, of the checkpoint and of the kill switch
\* (core/worker.py process_one, run_forever; core/state.py reap_orphan_jobs).
JobInv ==
  /\ pc \in {"run", "note", "settle"} =>
       /\ cur \in Jobs
       /\ status[cur] \in {"running", "queued"}
       /\ seen = attempts[cur] /\ seen >= 1
  /\ pc = "hook" => cur \in Jobs /\ status[cur] = "failed"
  /\ \A j \in Jobs :
       /\ attempts[j] <= MaxAttempts + rescued[j]
       /\ status[j] \in {"absent", "queued"} => attempts[j] < MaxAttempts + rescued[j]
       /\ "run" \in told[j] => status[j] = "failed"
       /\ heads[j] <= faults + (IF j \in noted THEN 1 ELSE 0)
  /\ ~halted => claimsHalted = 0
  /\ halted => claimsHalted <= (IF pc = "poll" THEN 0 ELSE 1)

\* Every accepted job reaches a verdict through crashes, outages and reaps, even
\* while another, older job is deferred for budget without end (two such jobs may
\* keep a third from ever being claimed: core/worker.py process_one, run_forever).
EveryJobSettles ==
  <>[]~halted =>
    \A j \in Jobs \ Deferring :
      status[j] # "absent" ~> status[j] \in {"done", "failed"}

-----------------------------------------------------------------------------
(* What the code's comments promise and the code does not keep *)

\* A job whose handler succeeded is never reported to its owner as failed.
SuccessNotReportedFailed ==
  \A j \in Jobs : j \in succeeded => "run" \notin told[j]
=============================================================================
