----------------------------- MODULE ShiftRuns ------------------------------
(***************************************************************************)
(* Coworker shifts on a box: the run ledger (core/coworkers/runs.py), the  *)
(* tick that plans, queues, starts and closes shifts every minute and the  *)
(* runner that works one (core/coworkers/runner.py), over the locks they   *)
(* share with box updates (module ShiftLocks).                             *)
(*                                                                         *)
(* The ledger is the only memory a restart leaves.  Every change of a row  *)
(* is one conditional UPDATE, so it is one step here; what the tick reads  *)
(* at one point and uses at a later one is kept in variables of its own.   *)
(***************************************************************************)
EXTENDS Naturals

CONSTANTS
  Slots,        \* the shift slots of the period, each a row of the ledger at most
  RunNow,       \* those a person asks for ("+now"); the others are scheduled
  Switched,     \* those whose coworker the owner may switch off, or break
  Start, Latest,\* each slot's window, in minutes
  MaxTime,      \* bound: the minutes of the period
  Grace,        \* START_GRACE_S in minutes
  Horizon,      \* how far ahead an update minds a shift, in minutes
  LookBack,     \* how far back a tick looks for windows it slept through, in minutes
  MaxFaults,    \* bound: deaths, reboots, failed mails, other failures, and changes
  MaxSwitches,  \* bound: changes of the schedule or the plan by the owner
  Updaters, WaitMax, UnitLimit, Free, Tick,  \* as in ShiftLocks
  NoSlot, NoTime

ASSUME SlotsAssumption ==
  /\ RunNow \subseteq Slots /\ Switched \subseteq Slots
  /\ NoSlot \notin Slots
ASSUME TimesAssumption ==
  /\ MaxTime \in Nat /\ Grace \in Nat /\ Horizon \in Nat /\ LookBack \in Nat
  /\ MaxFaults \in Nat /\ MaxSwitches \in Nat
  /\ Start \in [Slots -> 1..MaxTime] /\ Latest \in [Slots -> 1..MaxTime]
  /\ \A s \in Slots : Start[s] <= Latest[s]
  /\ NoTime \notin Nat
ASSUME ProcessesAssumption ==
  /\ Slots \cap Updaters = {}
  /\ Free \notin Slots \union Updaters /\ Tick \notin Slots \union Updaters
  /\ Free # Tick
  /\ WaitMax \in Nat
  /\ UnitLimit \in [Updaters -> Nat]

VARIABLES
  \* coworker_runs, one function or set per column
  st, claimedAt, emailed, pushed,
  \* the locks and who is where in taking them
  shiftLock, deployLock, rpc, upc, waited, look,
  \* each slot's runner, its AI's unit, and who is sending which report
  job, agents, rep,
  \* the tick: its phase, the rows it goes through, the row in hand, its "now", the slots
  \* whose coworker's file it could use and those of them switched on, what the plan says
  \* is due and missed, and the next start
  tpc, tset, tcur, tnow, tlist, ton, tdue, tmiss, tnext,
  \* the box
  clock, ticked,  \* the minute, and the minute of the latest tick
  since,          \* heartbeat shift_tick_ok
  nextFile,       \* /run/aios-shift.next
  file,           \* each slot's coworker's file: switched on, switched off, or of no use
  entitled,       \* tiers.allows("coworkers")
  \* observation and bounds
  starts, mailed, pushes,
  base,           \* the first tick since shifts were allowed
  excused,        \* slots a tick may leave without a row, by what schedule.py says
  unseen,         \* rows the tick under way did not find queued, or could not close
  faults, switches

lockVars == <<shiftLock, deployLock, rpc, upc, waited, look>>
marks  == <<claimedAt, emailed, pushed>>
ledger == <<st, marks>>
procs  == <<lockVars, job, agents, rep>>
tick   == <<tpc, tset, tcur>>
plan   == <<tnow, tlist, ton, tdue, tmiss, tnext, unseen>>
box    == <<clock, ticked, since, nextFile, file, entitled>>
ghosts == <<starts, mailed, pushes, base, excused>>
rest   == <<box, ghosts, switches>>
vars   == <<ledger, procs, tick, plan, rest, faults>>

Locks == INSTANCE ShiftLocks

Active    == {"starting", "running"}
Final     == {"DONE", "FAILED", "MISSED"}
Statuses  == {"none", "queued"} \union Active \union Final
Jobs      == {"none", "pending", "up", "run", "work", "agent", "done", "failed", "leave", "report"}
AtWork    == {"work", "agent", "done", "failed", "leave"}
Phases    == {"off", "close", "finish", "clean", "miss", "missrow", "queue", "unsched",
              "look", "claim", "launch", "write", "report"}
Reporters == Slots \union {Tick}

TypeOK ==
  /\ st \in [Slots -> Statuses]
  /\ claimedAt \in [Slots -> Nat]
  /\ emailed \in SUBSET Slots /\ pushed \in SUBSET Slots
  /\ Locks!TypeOK
  /\ job \in [Slots -> Jobs]
  /\ agents \in SUBSET Slots
  /\ rep \in [Reporters -> {"idle", "email", "mark", "push"}]
  /\ tpc \in Phases
  /\ tset \in SUBSET Slots /\ tcur \in Slots \union {NoSlot}
  /\ tpc \in {"finish", "clean", "missrow", "claim", "launch"} \/ rep[Tick] # "idle"
       <=> tcur # NoSlot
  /\ tnow \in Nat /\ tlist \in SUBSET Slots /\ ton \in SUBSET tlist
  /\ tdue \in SUBSET Slots /\ tmiss \in SUBSET Slots
  /\ tnext \in Nat \union {NoTime}
  /\ clock \in Nat /\ ticked \in Nat
  /\ since \in Nat \union {NoTime} /\ nextFile \in Nat \union {NoTime}
  /\ file \in [Slots -> {"on", "off", "broken"}] /\ entitled \in BOOLEAN
  /\ starts \in [Slots -> Nat] /\ pushes \in [Slots -> Nat]
  /\ mailed \in SUBSET (Slots \X Final)
  /\ base \in Nat /\ excused \in SUBSET Slots /\ unseen \in SUBSET Slots
  /\ faults \in Nat /\ switches \in Nat

Init ==
  /\ st = [s \in Slots |-> "none"] /\ claimedAt = [s \in Slots |-> 0]
  /\ emailed = {} /\ pushed = {}
  /\ Locks!Init
  /\ job = [s \in Slots |-> "none"] /\ agents = {}
  /\ rep = [p \in Reporters |-> "idle"]
  /\ tpc = "off" /\ tset = {} /\ tcur = NoSlot
  /\ tnow = 0 /\ tlist = {} /\ ton = {} /\ tdue = {} /\ tmiss = {} /\ tnext = NoTime
  /\ clock = 1 /\ ticked = 0 /\ since = NoTime /\ nextFile = NoTime
  /\ file = [s \in Slots |-> "on"] /\ entitled = TRUE
  /\ starts = [s \in Slots |-> 0] /\ pushes = [s \in Slots |-> 0]
  /\ mailed = {} /\ base = 0 /\ excused = {} /\ unseen = {} /\ faults = 0 /\ switches = 0

-----------------------------------------------------------------------------
(* Helpers *)

Fault  == faults + switches < MaxFaults /\ faults' = faults + 1
Switch == switches < MaxSwitches /\ faults + switches < MaxFaults /\ switches' = switches + 1

Scheduled == Slots \ RunNow
Queued    == {s \in Slots : st[s] = "queued"}

\* Mutant: the UPDATE does not ask for the status it leaves.
MoveAnyway(s, from, to) == st' = [st EXCEPT ![s] = to]

\* runs._move: one UPDATE, and nothing if the row is not in a status it may leave.
Move(s, from, to) == st' = [st EXCEPT ![s] = IF @ \in from THEN to ELSE @]

\* The waiting slot to start: the earliest latest, then the earliest start.
Before(s, t) == Latest[s] < Latest[t] \/ (Latest[s] = Latest[t] /\ Start[s] <= Start[t])
Head(s, S)   == s \in S /\ \A t \in S : Before(s, t)

\* systemctl is-active on the runner's unit; a job systemd has not begun is not active.
UnitActive(s) == job[s] \notin {"none", "pending"}

\* schedule.plan at minute n for the coworkers switched on, over the slots not taken.  A
\* window that closed more than LookBack ago is not looked at.
Open       == {s \in Scheduled \cap ton : st[s] \in {"none", "queued"}}
Due(n)     == {s \in Open : Start[s] <= n /\ n <= Latest[s]}
Missed(n)  ==
  {s \in Open : since # NoTime /\ since <= Latest[s] /\ n <= Latest[s] + LookBack /\ Latest[s] < n}
\* The first start of an open slot that is not over, if there is one.
NextStart(n, e) ==
  LET S == {Start[s] : s \in {t \in Open : n <= Latest[t]}} IN
  IF S = {} THEN e = NoTime ELSE e \in S /\ \A m \in S : e <= m

\* discover: the files that can be used; slots_on: those of a coworker switched on.
Discovers ==
  /\ tlist' = {s \in Slots : file[s] # "broken"}
  /\ ton' = {s \in Slots : file[s] = "on"}

PlanOver ==
  /\ tnow' = 0 /\ tlist' = {} /\ ton' = {} /\ unseen' = {}
  /\ tdue' = {} /\ tmiss' = {} /\ tnext' = NoTime

TickOver ==
  /\ tpc' = "off" /\ tset' = {} /\ tcur' = NoSlot
  /\ PlanOver

-----------------------------------------------------------------------------
(* The tick, 1: the runs whose unit is gone *)

\* Mutant: the heartbeat that says "planned up to here" is written before the plan is made.
TickBeginsWithHeartbeat ==
  /\ tpc = "off"
  /\ ticked < clock \/ clock = MaxTime
  /\ ticked' = clock
  /\ \/ /\ entitled
        /\ since' = clock /\ base' = IF since = NoTime THEN clock ELSE base
        /\ tpc' = "close" /\ tnow' = clock /\ Discovers
        /\ tset' = {s \in Slots : st[s] \in Active
                      /\ ~(st[s] = "starting" /\ clock < claimedAt[s] + Grace)}
        /\ UNCHANGED nextFile
     \/ /\ ~entitled
        /\ nextFile' = NoTime /\ since' = NoTime
        /\ UNCHANGED <<tpc, tset, tnow, tlist, ton, base>>
  /\ UNCHANGED <<ledger, procs, tcur, tdue, tmiss, tnext, unseen, clock, file, entitled,
                 starts, mailed, pushes, excused, faults, switches>>

\* Mutant: step 1 looks for dead runs among the running ones only.
TickBeginsWithRunning ==
  /\ tpc = "off"
  /\ ticked < clock \/ clock = MaxTime
  /\ ticked' = clock
  /\ \/ /\ entitled
        /\ tpc' = "close" /\ tnow' = clock /\ Discovers
        /\ tset' = {s \in Slots : st[s] = "running"}
        /\ UNCHANGED <<since, nextFile>>
     \/ /\ ~entitled
        /\ nextFile' = NoTime /\ since' = NoTime
        /\ UNCHANGED <<tpc, tset, tnow, tlist, ton>>
  /\ UNCHANGED <<ledger, procs, tcur, tdue, tmiss, tnext, unseen, clock, file, entitled, ghosts,
                 faults, switches>>

\* One tick a minute; the last minute of the period stands for all that follow.  A row
\* claimed less than Grace ago is left alone.
TickBegin ==
  /\ tpc = "off"
  /\ ticked < clock \/ clock = MaxTime
  /\ ticked' = clock
  /\ \/ /\ entitled
        /\ tpc' = "close" /\ tnow' = clock /\ Discovers
        /\ tset' = {s \in Slots : st[s] \in Active
                      /\ ~(st[s] = "starting" /\ clock < claimedAt[s] + Grace)}
        /\ UNCHANGED <<since, nextFile>>
     \/ /\ ~entitled
        /\ nextFile' = NoTime /\ since' = NoTime
        /\ UNCHANGED <<tpc, tset, tnow, tlist, ton>>
  /\ UNCHANGED <<ledger, procs, tcur, tdue, tmiss, tnext, unseen, clock, file, entitled, ghosts,
                 faults, switches>>

TickChecksUnit(s) ==
  /\ tpc = "close" /\ s \in tset
  /\ tset' = tset \ {s}
  /\ \/ UnitActive(s) /\ UNCHANGED <<tpc, tcur>>
     \/ ~UnitActive(s) /\ tpc' = "finish" /\ tcur' = s
  /\ UNCHANGED <<ledger, procs, plan, rest, faults>>

\* runs.finish(FAILED), whatever has happened to the row since the unit was checked.
TickCloses ==
  /\ tpc = "finish"
  /\ Move(tcur, Active, "FAILED")
  /\ \/ st[tcur] \in Active /\ tpc' = "clean" /\ UNCHANGED tcur
     \/ st[tcur] \notin Active /\ tpc' = "close" /\ tcur' = NoSlot
  /\ UNCHANGED <<marks, procs, tset, plan, rest, faults>>

\* _clean_up: the dead run's AI is stopped, as far as that works.
TickCleansUp ==
  /\ tpc = "clean"
  /\ \/ agents' = agents \ {tcur} /\ UNCHANGED faults
     \/ tcur \in agents /\ Fault /\ UNCHANGED agents
  /\ tpc' = "close" /\ tcur' = NoSlot
  /\ UNCHANGED <<ledger, lockVars, job, rep, tset, plan, rest>>

-----------------------------------------------------------------------------
(* The tick, 2 to 4b: the plan, the missed, the due and the no longer due *)

\* The slots taken and the queued rows whose window has closed are read here.
TickPlans ==
  /\ tpc = "close" /\ tset = {}
  /\ tdue' = Due(tnow) /\ tmiss' = Missed(tnow)
  /\ \E e \in 1..MaxTime \union {NoTime} : NextStart(tnow, e) /\ tnext' = e
  /\ tset' = {s \in Queued : Latest[s] < tnow}
  /\ tpc' = "miss"
  /\ UNCHANGED <<ledger, procs, tcur, tnow, tlist, ton, unseen, rest, faults>>

\* The three sweeps of the tick over rows it has read: the closed windows, the due slots
\* (INSERT OR IGNORE: a slot that has a row keeps it), the slots no longer due.
TickSweeps(s) ==
  /\ s \in tset
  /\ \/ tpc \in {"miss", "unsched"} /\ Move(s, {"queued"}, "MISSED")
     \/ tpc = "queue" /\ Move(s, {"none"}, "queued")
  /\ tset' = tset \ {s}
  /\ UNCHANGED <<marks, procs, tpc, tcur, plan, rest, faults>>

\* A row whose step raises is logged and passed over; one whose MISSED receipt cannot be
\* written is dropped, which is FAILED.
TickStumbles(s) ==
  /\ Fault
  /\ \/ /\ tpc = "finish" /\ s = tcur /\ tpc' = "close" /\ tcur' = NoSlot
        /\ UNCHANGED <<st, tset, unseen>>
     \/ /\ tpc \in {"miss", "unsched"} /\ s \in tset
        /\ tset' = tset \ {s} /\ UNCHANGED <<tpc, tcur>>
        /\ \/ Move(s, {"queued"}, "FAILED") /\ UNCHANGED unseen
           \/ UNCHANGED st /\ unseen' = unseen \union {s}
  /\ UNCHANGED <<marks, procs, tnow, tlist, ton, tdue, tmiss, tnext, rest>>

\* A slot no tick saw open gets its row, and then that row is missed.
TickQueuesMissed(s) ==
  /\ tpc = "miss" /\ tset = {} /\ s \in tmiss
  /\ tmiss' = tmiss \ {s}
  /\ Move(s, {"none"}, "queued")
  /\ \/ st[s] = "none" /\ tpc' = "missrow" /\ tcur' = s
     \/ st[s] # "none" /\ UNCHANGED <<tpc, tcur>>
  /\ UNCHANGED <<marks, procs, tset, tnow, tlist, ton, tdue, tnext, unseen, rest, faults>>

TickMissesRow ==
  /\ tpc = "missrow"
  /\ Move(tcur, {"queued"}, "MISSED")
  /\ tpc' = "miss" /\ tcur' = NoSlot
  /\ UNCHANGED <<marks, procs, tset, plan, rest, faults>>

\* Mutant: no sweep closes the queued rows the plan does not name.
TickNextSweepKeeps ==
  /\ tset = {}
  /\ \/ tpc = "miss" /\ tmiss = {} /\ tpc' = "queue" /\ tset' = tdue /\ UNCHANGED unseen
     \/ /\ tpc = "queue"
        /\ tpc' = "unsched" /\ tset' = {}
        /\ unseen' = unseen \union (Slots \ Queued)
  /\ UNCHANGED <<ledger, procs, tcur, tnow, tlist, ton, tdue, tmiss, tnext, rest, faults>>

\* On to the next sweep.  The queued rows the plan does not name are read only after the
\* due ones are queued; a row that a runner puts back later is not among them.
TickNextSweep ==
  /\ tset = {}
  /\ \/ tpc = "miss" /\ tmiss = {} /\ tpc' = "queue" /\ tset' = tdue /\ UNCHANGED unseen
     \/ /\ tpc = "queue"
        /\ tpc' = "unsched"
        /\ tset' = {s \in Queued \cap Scheduled : s \notin tdue /\ Latest[s] >= tnow}
        /\ unseen' = unseen \union (Slots \ Queued)
  /\ UNCHANGED <<ledger, procs, tcur, tnow, tlist, ton, tdue, tmiss, tnext, rest, faults>>

-----------------------------------------------------------------------------
(* The tick, 5 to 7: the head of the queue, the next start, the reports *)

Waiting == {s \in Queued : Latest[s] >= tnow}

\* Nothing waits, or a run is active.
TickStartsNone ==
  /\ tpc = "unsched" /\ tset = {}
  /\ Waiting = {} \/ \E s \in Slots : st[s] \in Active
  /\ tpc' = "write"
  /\ UNCHANGED <<ledger, procs, tset, tcur, plan, rest, faults>>

\* The waiting rows are read, and then the locks are looked at.
TickHeads ==
  /\ tpc = "unsched" /\ tset = {}
  /\ Waiting # {} /\ \A s \in Slots : st[s] \notin Active
  /\ tpc' = "look" /\ tset' = Waiting
  /\ UNCHANGED <<ledger, procs, tcur, plan, rest, faults>>

TickLooks ==
  /\ tpc = "look"
  /\ Locks!LookDeploy \/ Locks!UnlookDeploy \/ Locks!LookShift \/ Locks!UnlookShift
  /\ UNCHANGED <<ledger, job, agents, rep, tick, plan, rest, faults>>

\* A lock was held, or no coworker of a waiting slot can be used.
TickWaits ==
  /\ tpc = "look"
  /\ look = "busy" \/ (look = "clear" /\ tset \cap tlist = {})
  /\ Locks!EndLook
  /\ tpc' = "write" /\ tset' = {}
  /\ UNCHANGED <<ledger, job, agents, rep, tcur, plan, rest, faults>>

\* The first waiting slot whose coworker can be used is the one to claim.
TickPicks ==
  /\ tpc = "look" /\ look = "clear"
  /\ \E s \in tset : Head(s, tset \cap tlist) /\ tcur' = s
  /\ tpc' = "claim" /\ tset' = {}
  /\ Locks!EndLook
  /\ UNCHANGED <<ledger, job, agents, rep, plan, rest, faults>>

\* No one but the tick takes a row out of 'queued', so the claim is not refused.
TickClaims ==
  /\ tpc = "claim"
  /\ Move(tcur, {"queued"}, "starting")
  /\ claimedAt' = [claimedAt EXCEPT ![tcur] = tnow]
  /\ tpc' = "launch"
  /\ UNCHANGED <<emailed, pushed, procs, tset, tcur, plan, rest, faults>>

\* systemd-run refuses a unit name in use and may fail for other reasons: the run is then
\* closed FAILED.
TickLaunches ==
  /\ tpc = "launch"
  /\ \/ job[tcur] = "none" /\ job' = [job EXCEPT ![tcur] = "pending"] /\ UNCHANGED <<st, faults>>
     \/ job[tcur] # "none" /\ Move(tcur, Active, "FAILED") /\ UNCHANGED <<job, faults>>
     \/ job[tcur] = "none" /\ Fault /\ Move(tcur, Active, "FAILED") /\ UNCHANGED job
  /\ tpc' = "write" /\ tcur' = NoSlot
  /\ UNCHANGED <<marks, lockVars, agents, rep, tset, plan, rest>>

\* Observation: a window that closed since the last finished tick, and of which schedule.py
\* says that nothing is told: it closed more than LookBack ago, or this tick found its
\* coworker switched off or its file of no use.
Overlooked(s) ==
  /\ since # NoTime /\ since <= Latest[s] /\ Latest[s] < tnow
  /\ Latest[s] + LookBack < tnow \/ s \notin ton

\* NEXT_FILE is at least a minute ahead while a shift is due or waiting; then the
\* heartbeats; then the rows to report are read.
TickWrites ==
  /\ tpc = "write"
  /\ nextFile' = IF Queued # {} \/ tdue # {}
                 THEN (IF tnext # NoTime /\ tnext > tnow THEN tnext ELSE tnow + 1)
                 ELSE tnext
  /\ since' = tnow
  /\ base' = IF since = NoTime THEN tnow ELSE base
  /\ excused' = excused \union {s \in Slots : Overlooked(s)}
  /\ tset' = {s \in Slots : st[s] \in Final /\ ~(s \in emailed /\ s \in pushed)}
  /\ tpc' = "report" /\ PlanOver
  /\ UNCHANGED <<ledger, procs, tcur, clock, ticked, file, entitled, starts, mailed,
                 pushes, faults, switches>>

TickReports(s) ==
  /\ tpc = "report" /\ rep[Tick] = "idle"
  /\ s \in tset
  /\ tset' = tset \ {s} /\ tcur' = s
  /\ rep' = [rep EXCEPT ![Tick] = IF s \in emailed THEN "push" ELSE "email"]
  /\ UNCHANGED <<ledger, lockVars, job, agents, tpc, plan, rest, faults>>

\* All reported, or the tick's time for reports is used up.
TickEnds ==
  /\ tpc = "report" /\ rep[Tick] = "idle"
  /\ \/ tset = {} /\ UNCHANGED faults
     \/ tset # {} /\ Fault
  /\ TickOver
  /\ UNCHANGED <<ledger, procs, rest>>

\* TimeoutStartSec=50 of the tick's unit, or an error that ends it early.
TickDies ==
  /\ tpc # "off"
  /\ Fault
  /\ TickOver
  /\ rep' = [rep EXCEPT ![Tick] = "idle"]
  /\ \/ look # "none" /\ Locks!EndLook
     \/ look = "none" /\ UNCHANGED lockVars
  /\ UNCHANGED <<ledger, job, agents, rest>>

-----------------------------------------------------------------------------
(* report(): by the runner as it ends, and by every tick until both channels are done *)

Subject(p) == IF p = Tick THEN tcur ELSE p

\* The email is sent under the run's idempotency key, so a second send is the same
\* message.  One the server refused, or that broke off, is marked like one that went out;
\* one that failed before it began is left to a later tick.
ReportMails(p) ==
  /\ rep[p] = "email"
  /\ \/ /\ mailed' = mailed \union {<<Subject(p), st[Subject(p)]>>}
        /\ rep' = [rep EXCEPT ![p] = "mark"]
        /\ UNCHANGED faults
     \/ /\ Fault
        /\ \E next \in {"mark", "push"} : rep' = [rep EXCEPT ![p] = next]
        /\ UNCHANGED mailed
  /\ UNCHANGED <<ledger, lockVars, job, agents, tick, plan, box, starts, pushes, base, excused, switches>>

ReportMarks(p) ==
  /\ rep[p] = "mark"
  /\ emailed' = emailed \union {Subject(p)}
  /\ rep' = [rep EXCEPT ![p] = "push"]
  /\ UNCHANGED <<st, claimedAt, pushed, lockVars, job, agents, tick, plan, rest, faults>>

\* Mutant: a report's notification is sent without claiming it.
ReportPushesUnclaimed(p) ==
  /\ rep[p] = "push"
  /\ pushed' = pushed \union {Subject(p)}
  /\ pushes' = [pushes EXCEPT ![Subject(p)] = @ + 1]
  /\ rep' = [rep EXCEPT ![p] = "idle"]
  /\ \/ p = Tick /\ tcur' = NoSlot /\ UNCHANGED job
     \/ p # Tick /\ job' = [job EXCEPT ![p] = "none"] /\ UNCHANGED tcur
  /\ UNCHANGED <<st, claimedAt, emailed, lockVars, agents, tpc, tset, plan, box, starts, mailed,
                 base, excused, switches, faults>>

\* The notification is claimed before it is sent, and never sent again.
ReportPushes(p) ==
  /\ rep[p] = "push"
  /\ pushed' = pushed \union {Subject(p)}
  /\ \/ Subject(p) \in pushed /\ UNCHANGED <<pushes, faults>>
     \/ /\ Subject(p) \notin pushed
        /\ \/ pushes' = [pushes EXCEPT ![Subject(p)] = @ + 1] /\ UNCHANGED faults
           \/ Fault /\ UNCHANGED pushes
  /\ rep' = [rep EXCEPT ![p] = "idle"]
  /\ \/ p = Tick /\ tcur' = NoSlot /\ UNCHANGED job
     \/ p # Tick /\ job' = [job EXCEPT ![p] = "none"] /\ UNCHANGED tcur
  /\ UNCHANGED <<st, claimedAt, emailed, lockVars, agents, tpc, tset, plan, box, starts, mailed,
                 base, excused, switches>>

-----------------------------------------------------------------------------
(* The runner: scripts/run_coworker.py, runner.run *)

JGo(s, phase) == job' = [job EXCEPT ![s] = phase]

UnitUp(s) ==
  /\ job[s] = "pending"
  /\ JGo(s, "up")
  /\ UNCHANGED <<ledger, lockVars, agents, rep, tick, plan, rest, faults>>

\* A row that is no longer 'starting' is not this runner's.
RunReads(s) ==
  /\ job[s] = "up"
  /\ \/ st[s] = "starting" /\ JGo(s, "run") /\ Locks!Arrive(s)
     \/ st[s] # "starting" /\ JGo(s, "none") /\ UNCHANGED lockVars
  /\ UNCHANGED <<ledger, agents, rep, tick, plan, rest, faults>>

RunLocks(s) ==
  /\ Locks!TakeShift(s) \/ Locks!ProbeDeploy(s) \/ Locks!Enter(s)
  /\ UNCHANGED <<ledger, job, agents, rep, tick, plan, rest, faults>>

RunRequeues(s) ==
  /\ Locks!GiveUp(s)
  /\ Move(s, {"starting"}, "queued")
  /\ JGo(s, "none")
  /\ UNCHANGED <<marks, agents, rep, tick, plan, rest, faults>>

RunStarts(s) ==
  /\ rpc[s] = "in" /\ job[s] = "run"
  /\ Move(s, {"starting"}, "running")
  /\ \/ /\ st[s] = "starting"
        /\ JGo(s, "work") /\ starts' = [starts EXCEPT ![s] = @ + 1]
        /\ UNCHANGED lockVars
     \/ st[s] # "starting" /\ JGo(s, "none") /\ Locks!Leave(s) /\ UNCHANGED starts
  /\ UNCHANGED <<marks, agents, rep, tick, plan, box, mailed, pushes, base, excused, switches, faults>>

\* _work: the preflight and the before-steps, then the AI in a unit of its own.
RunWorks(s) ==
  /\ job[s] = "work"
  /\ \/ JGo(s, "failed") /\ UNCHANGED agents
     \/ file[s] # "broken" /\ JGo(s, "agent") /\ agents' = agents \union {s}
  /\ UNCHANGED <<ledger, lockVars, rep, tick, plan, rest, faults>>

\* The AI and the after-steps end.  Stopping an AI that overran may fail.
RunAgentEnds(s) ==
  /\ job[s] = "agent"
  /\ \/ agents' = agents \ {s} /\ (JGo(s, "done") \/ JGo(s, "failed")) /\ UNCHANGED faults
     \/ JGo(s, "failed") /\ Fault /\ UNCHANGED agents
  /\ UNCHANGED <<ledger, lockVars, rep, tick, plan, rest>>

RunFinishes(s) ==
  /\ job[s] \in {"done", "failed"}
  /\ Move(s, Active, IF job[s] = "done" THEN "DONE" ELSE "FAILED")
  /\ JGo(s, "leave")
  /\ UNCHANGED <<marks, lockVars, agents, rep, tick, plan, rest, faults>>

\* The lock is let go, and the row is read again for its report.
RunLeaves(s) ==
  /\ job[s] = "leave"
  /\ Locks!Leave(s)
  /\ JGo(s, "report")
  /\ rep' = [rep EXCEPT ![s] = IF s \in emailed THEN "push" ELSE "email"]
  /\ UNCHANGED <<ledger, agents, tick, plan, rest, faults>>

\* RuntimeMaxSec, the kernel, a person: the runner is gone and its lock with it.  Its AI
\* runs in another unit and stays.
RunDies(s) ==
  /\ job[s] # "none"
  /\ Fault
  /\ JGo(s, "none") /\ rep' = [rep EXCEPT ![s] = "idle"]
  /\ \/ rpc[s] # "out" /\ Locks!Die(s)
     \/ rpc[s] = "out" /\ UNCHANGED lockVars
  /\ UNCHANGED <<ledger, agents, tick, plan, rest>>

\* RuntimeMaxSec of the AI's own unit.
AgentExpires(s) ==
  /\ s \in agents /\ job[s] # "agent"
  /\ agents' = agents \ {s}
  /\ UNCHANGED <<ledger, lockVars, job, rep, tick, plan, rest, faults>>

-----------------------------------------------------------------------------
(* The updater, the owner and the box *)

\* shift_soon: a start after now, and within the hour.
Soon == nextFile # NoTime /\ nextFile > clock /\ nextFile <= clock + Horizon

UpdaterSteps(u) ==
  /\ \/ Locks!Launch(u) \/ Locks!Poll(u) \/ Locks!Unpoll(u) \/ Locks!Decide(u, Soon)
     \/ Locks!Take(u) \/ Locks!Recheck(u) \/ Locks!Install(u) \/ Locks!Installed(u)
     \/ Locks!Wake(u) \/ Locks!TimeOut(u)
  /\ UNCHANGED <<ledger, job, agents, rep, tick, plan, rest, faults>>

UpdaterQuits(u) ==
  /\ Fault
  /\ Locks!Quit(u)
  /\ UNCHANGED <<ledger, job, agents, rep, tick, plan, rest>>

\* start_now: a row of its own, its window from this minute on.
StartNow(s) ==
  /\ s \in RunNow /\ file[s] # "broken" /\ entitled
  /\ clock = Start[s]
  /\ st[s] = "none"
  /\ st' = [st EXCEPT ![s] = "queued"]
  /\ UNCHANGED <<marks, procs, tick, plan, rest, faults>>

\* The owner switches a coworker off or on, or breaks or mends its file.
OwnerSwitches(s) ==
  /\ s \in Switched
  /\ Switch
  /\ \E f \in {"on", "off", "broken"} \ {file[s]} : file' = [file EXCEPT ![s] = f]
  /\ UNCHANGED <<ledger, procs, tick, plan, clock, ticked, since, nextFile, entitled, ghosts, faults>>

\* The plan ends, or is renewed.
PlanChanges ==
  /\ Switch
  /\ entitled' = ~entitled
  /\ UNCHANGED <<ledger, procs, tick, plan, clock, ticked, since, nextFile, file, ghosts, faults>>

\* A minute passes.  A tick never outlasts its minute; a minute without a tick is one in
\* which the box was off, and it may stay off for many.
Minute ==
  /\ clock < MaxTime
  /\ tpc = "off"
  /\ \/ ticked = clock /\ clock' = clock + 1 /\ UNCHANGED faults
     \/ ticked # clock /\ Fault /\ \E n \in clock + 1..MaxTime : clock' = n
  /\ UNCHANGED <<ledger, procs, tick, plan, ticked, since, nextFile, file, entitled, ghosts,
                 switches>>

\* Every process is gone, and /run is empty.
Reboot ==
  /\ Fault
  /\ Locks!Reboot
  /\ job' = [s \in Slots |-> "none"] /\ agents' = {}
  /\ rep' = [p \in Reporters |-> "idle"]
  /\ TickOver
  /\ nextFile' = NoTime
  /\ UNCHANGED <<ledger, clock, ticked, since, file, entitled, ghosts, switches>>

-----------------------------------------------------------------------------
TickProgress ==
  \/ TickBegin
  \/ \E s \in Slots : TickChecksUnit(s) \/ TickSweeps(s) \/ TickQueuesMissed(s) \/ TickReports(s)
  \/ TickCloses \/ TickCleansUp \/ TickPlans \/ TickMissesRow \/ TickNextSweep
  \/ TickStartsNone \/ TickHeads \/ TickLooks \/ TickWaits \/ TickPicks
  \/ TickClaims \/ TickLaunches \/ TickWrites \/ TickEnds
  \/ ReportMails(Tick) \/ ReportMarks(Tick) \/ ReportPushes(Tick)

RunProgress(s) ==
  \/ UnitUp(s) \/ RunReads(s) \/ RunLocks(s) \/ RunRequeues(s) \/ RunStarts(s)
  \/ RunWorks(s) \/ RunAgentEnds(s) \/ RunFinishes(s) \/ RunLeaves(s)
  \/ ReportMails(s) \/ ReportMarks(s) \/ ReportPushes(s)

Next ==
  \/ TickProgress \/ TickDies
  \/ \E s \in Slots : TickStumbles(s) \/ RunProgress(s) \/ RunDies(s) \/ AgentExpires(s)
                      \/ StartNow(s) \/ OwnerSwitches(s)
  \/ \E u \in Updaters : UpdaterSteps(u) \/ UpdaterQuits(u)
  \/ PlanChanges \/ Minute \/ Reboot

Spec == Init /\ [][Next]_vars

\* The timer ticks, a unit that was started runs (its own limits end what does not), and
\* minutes pass.
FairSpec ==
  /\ Spec
  /\ WF_vars(TickProgress) /\ WF_vars(Minute)
  /\ \A s \in Slots : WF_vars(RunProgress(s))
  /\ \A u \in Updaters : WF_vars(UpdaterSteps(u))

-----------------------------------------------------------------------------
(* Properties *)

\* A slot is worked at most once, and only a slot that was never worked is MISSED
\* (core/coworkers/runs.py: "at most once, by the primary key").
WorkedAtMostOnce ==
  \A s \in Slots : /\ starts[s] <= 1
                   /\ st[s] = "MISSED" => starts[s] = 0
                   /\ st[s] \in {"running", "DONE"} => starts[s] = 1

\* No step of a run that lost its row: a runner at work holds the shift lock alone, and
\* nobody else's row is running but one whose runner is gone or whose tick gave it up.
WorkUnderLock ==
  \A s \in Slots : job[s] \in AtWork =>
    shiftLock = s /\ st[s] \in {"running"} \union Final

\* The end of a run is told once it is there: what is mailed about a slot is what its row
\* says, for good, and the notification goes out at most once, whoever of the runner and
\* the tick reports it.
ToldTheEnd ==
  \A s \in Slots : /\ \A o \in Final : <<s, o>> \in mailed => st[s] = o
                   /\ pushes[s] <= 1

\* A row that has ended stays as it is.
EndIsFinal ==
  [][\A s \in Slots : st[s] \in Final => st'[s] = st[s]]_st

\* No shift is skipped in silence: a scheduled slot whose window closed before the last
\* tick that finished has a row, whatever ticks died, unless the box slept through its
\* window and LookBack after it, or its coworker was off when a tick first came by
\* (schedule.py: "a box off for longer reports the last two days' misses and no more", "a
\* coworker switched on at 10:00 is not blamed for 07:30").
NoSilentSlot ==
  \A s \in Scheduled \ excused :
    since # NoTime /\ base <= Latest[s] /\ Latest[s] < since => st[s] # "none"

\* A scheduled shift is started only while it is scheduled: no row is claimed off the queue
\* that this tick's own plan does not name, but one that this tick could not close or that
\* a runner put back behind its sweep (runner.tick, 4b).
OnlyWhileScheduled ==
  [][\A s \in Scheduled :
       st[s] = "queued" /\ st'[s] = "starting" => s \in tdue \union unseen]_vars

\* The inductive form of the invariants above: what is known of the row of a runner at
\* work, of whoever is reporting, and of what has been mailed and pushed (runner.run,
\* runner.tick, runner.report; core/coworkers/runs.py _move, claim_report).
RunInv ==
  /\ \A s \in Slots :
       /\ job[s] \in AtWork => rpc[s] = "in" /\ st[s] \in {"running"} \union Final
       /\ job[s] = "leave" => st[s] \in Final
       /\ rep[s] # "idle" => st[s] \in Final
       /\ starts[s] <= 1
       /\ st[s] \in {"none", "queued", "starting", "MISSED"} => starts[s] = 0
       /\ st[s] \in {"running", "DONE"} => starts[s] = 1
       /\ \A o \in Final : <<s, o>> \in mailed => st[s] = o
       /\ pushes[s] <= 1 /\ (s \notin pushed => pushes[s] = 0)
  /\ rep[Tick] # "idle" => tpc = "report" /\ st[tcur] \in Final
  /\ tpc = "report" => \A s \in tset : st[s] \in Final

\* Every slot that has a row ends, and its end is mailed or settled, through deaths of the
\* tick and of the runner and through reboots.
EverySlotReported ==
  <>[]entitled => \A s \in Slots : st[s] # "none" ~> st[s] \in Final /\ s \in emailed
=============================================================================
