--------------------------- MODULE ShiftRunsProofs ---------------------------
(* Proofs about ShiftRuns, for any slots, windows, updaters and bounds.        *)
EXTENDS ShiftRuns, TLAPS

LP == INSTANCE ShiftLocksProofs

(* Every step of the tick, a runner, an updater or the box is a step of the    *)
(* two-lock protocol, or leaves both locks alone.                              *)
LEMMA LockStep ==
  ASSUME [Next]_vars
  PROVE  [Locks!Next]_(Locks!vars)
<1> USE DEF Locks!vars, lockVars
<1>1. CASE TickProgress
  <2>1. CASE TickLooks \/ TickWaits \/ TickPicks
    BY <2>1 DEF TickLooks, TickWaits, TickPicks, Locks!Next, Locks!Looking
  <2>2. CASE TickBegin \/ TickCloses \/ TickCleansUp \/ TickPlans \/ TickMissesRow
             \/ TickNextSweep \/ TickStartsNone \/ TickHeads \/ TickClaims \/ TickLaunches
             \/ TickWrites \/ TickEnds
    BY <2>2 DEF TickBegin, TickCloses, TickCleansUp, TickPlans, TickMissesRow, TickNextSweep,
                TickStartsNone, TickHeads, TickClaims, TickLaunches, TickWrites, TickEnds, procs
  <2>3. CASE \E s \in Slots : TickChecksUnit(s) \/ TickSweeps(s) \/ TickQueuesMissed(s)
                              \/ TickReports(s)
    BY <2>3 DEF TickChecksUnit, TickSweeps, TickQueuesMissed, TickReports, procs
  <2>4. CASE ReportMails(Tick) \/ ReportMarks(Tick) \/ ReportPushes(Tick)
    BY <2>4 DEF ReportMails, ReportMarks, ReportPushes
  <2> QED
    BY <1>1, <2>1, <2>2, <2>3, <2>4 DEF TickProgress
<1>2. CASE TickDies
  BY <1>2 DEF TickDies, Locks!Next, Locks!Looking
<1>3. ASSUME NEW s \in Slots, RunProgress(s)
      PROVE  [Locks!Next]_(Locks!vars)
  <2>1. CASE RunReads(s) \/ RunLocks(s) \/ RunRequeues(s) \/ RunStarts(s) \/ RunLeaves(s)
    BY <2>1 DEF RunReads, RunLocks, RunRequeues, RunStarts, RunLeaves, Locks!Next, Locks!Runner
  <2>2. CASE UnitUp(s) \/ RunWorks(s) \/ RunAgentEnds(s) \/ RunFinishes(s)
             \/ ReportMails(s) \/ ReportMarks(s) \/ ReportPushes(s)
    BY <2>2 DEF UnitUp, RunWorks, RunAgentEnds, RunFinishes, ReportMails, ReportMarks,
                ReportPushes
  <2> QED
    BY <1>3, <2>1, <2>2 DEF RunProgress
<1>4. ASSUME NEW s \in Slots, RunDies(s)
      PROVE  [Locks!Next]_(Locks!vars)
  BY <1>4 DEF RunDies, Locks!Next
<1>5. ASSUME NEW s \in Slots, TickStumbles(s) \/ AgentExpires(s) \/ StartNow(s) \/ OwnerSwitches(s)
      PROVE  [Locks!Next]_(Locks!vars)
  BY <1>5 DEF TickStumbles, AgentExpires, StartNow, OwnerSwitches, procs
<1>6. ASSUME NEW u \in Updaters, UpdaterSteps(u)
      PROVE  [Locks!Next]_(Locks!vars)
  <2>1. Soon \in BOOLEAN
    BY DEF Soon
  <2>2. Locks!Launch(u) \/ Locks!Updater(u)
    BY <1>6, <2>1 DEF UpdaterSteps, Locks!Updater
  <2> QED
    BY <2>2 DEF Locks!Next
<1>7. ASSUME NEW u \in Updaters, UpdaterQuits(u)
      PROVE  [Locks!Next]_(Locks!vars)
  BY <1>7 DEF UpdaterQuits, Locks!Next
<1>8. CASE PlanChanges \/ Minute
  BY <1>8 DEF PlanChanges, Minute, procs
<1>9. CASE Reboot
  BY <1>9 DEF Reboot, Locks!Next
<1>10. CASE UNCHANGED vars
  BY <1>10 DEF vars, procs
<1> QED
  BY <1>1, <1>2, <1>3, <1>4, <1>5, <1>6, <1>7, <1>8, <1>9, <1>10 DEF Next

(* Each step at the locks is one of ShiftLocks, so what is proved there holds  *)
(* of the tick, the runners and the updaters together.                         *)
LEMMA ObeysLocks == Spec => Locks!Spec
<1>1. Init => Locks!Init
  BY DEF Init
<1> QED
  BY <1>1, LockStep, PTL DEF Spec, Locks!Spec

(* ShiftLocksProofs speaks of its own copy of the protocol, which is the same. *)
LEMMA SameStep ==
  ASSUME [Locks!Next]_(Locks!vars)
  PROVE  [LP!Next]_(LP!vars)
<1>1. Locks!Next => LP!Next
  BY DEF Locks!Next, Locks!Arrive, Locks!Runner, Locks!TakeShift, Locks!ProbeDeploy,
         Locks!Enter, Locks!GiveUp, Locks!Leave, Locks!Die, Locks!Launch,
         Locks!Quit, Locks!Updater, Locks!Poll, Locks!Unpoll, Locks!Decide,
         Locks!Take, Locks!Recheck, Locks!Install, Locks!Installed, Locks!Wake,
         Locks!TimeOut, Locks!OutOfTime, Locks!Looking, Locks!LookDeploy,
         Locks!UnlookDeploy, Locks!LookShift, Locks!UnlookShift, Locks!EndLook,
         Locks!Reboot, Locks!RMove, Locks!UMove, Locks!Released, LP!Next, LP!Arrive,
         LP!Runner, LP!TakeShift, LP!ProbeDeploy, LP!Enter, LP!GiveUp, LP!Leave,
         LP!Die, LP!Launch, LP!Quit, LP!Updater, LP!Poll, LP!Unpoll, LP!Decide,
         LP!Take, LP!Recheck, LP!Install, LP!Installed, LP!Wake, LP!TimeOut,
         LP!OutOfTime, LP!Looking, LP!LookDeploy, LP!UnlookDeploy, LP!LookShift,
         LP!UnlookShift, LP!EndLook, LP!Reboot, LP!RMove, LP!UMove, LP!Released
<1> QED
  BY <1>1 DEF Locks!vars, LP!vars

LEMMA SameProtocol == Locks!Spec => LP!Spec
<1>1. Locks!Init => LP!Init
  BY DEF Locks!Init, LP!Init
<1> QED
  BY <1>1, SameStep, PTL DEF Locks!Spec, LP!Spec

(* In particular no box update is installed while a coworker works.            *)
THEOREM NoUpdateDuringShift == Spec => []Locks!UpdateExcludesShift
<1>1. LP!LocksAssumption
  BY ProcessesAssumption DEF LP!LocksAssumption
<1>2. LP!Spec => []LP!UpdateExcludesShift
  BY <1>1, LP!ExclusionCorrect
<1>3. LP!UpdateExcludesShift => Locks!UpdateExcludesShift
  BY DEF LP!UpdateExcludesShift, Locks!UpdateExcludesShift
<1> QED
  BY <1>2, <1>3, SameProtocol, ObeysLocks, PTL

-----------------------------------------------------------------------------
(* Types *)

LEMMA InitType == Init => TypeOK
BY SlotsAssumption, TimesAssumption, ProcessesAssumption
   DEF Init, TypeOK, Locks!Init, Locks!TypeOK, Locks!Holders, Locks!RunnerPhases,
       Locks!UpdaterPhases, Locks!LookPhases, Statuses, Jobs, Phases, Reporters

LEMMA LocksType ==
  ASSUME Locks!TypeOK, [Next]_vars
  PROVE  Locks!TypeOK'
<1>1. [LP!Next]_(LP!vars)
  BY LockStep, SameStep
<1>2. LP!LocksAssumption
  BY ProcessesAssumption DEF LP!LocksAssumption
<1>3. LP!TypeOK
  BY DEF Locks!TypeOK, LP!TypeOK, Locks!Holders, LP!Holders, Locks!RunnerPhases,
         LP!RunnerPhases, Locks!UpdaterPhases, LP!UpdaterPhases, Locks!LookPhases,
         LP!LookPhases
<1>4. LP!TypeOK'
  BY <1>1, <1>2, <1>3, LP!TypeInductive
<1> QED
  BY <1>4 DEF Locks!TypeOK, LP!TypeOK, Locks!Holders, LP!Holders, Locks!RunnerPhases,
              LP!RunnerPhases, Locks!UpdaterPhases, LP!UpdaterPhases, Locks!LookPhases,
              LP!LookPhases

(* Every variable keeps its type, whatever step is taken.                      *)
LEMMA TypeInductive ==
  ASSUME TypeOK, RunInv, [Next]_vars
  PROVE  TypeOK'
<1> USE SlotsAssumption, TimesAssumption, ProcessesAssumption
    DEF TypeOK, Statuses, Active, Final, Jobs, Phases, Reporters, Move, JGo, Fault, Switch,
        ledger, marks, procs, tick, plan, box, ghosts, rest
<1>0. /\ Locks!TypeOK'
      /\ rep[Tick] # "idle" => tpc = "report" /\ st[tcur] \in Final
      /\ \A s \in Slots : rep[s] # "idle" => st[s] \in Final
      /\ Tick \in Reporters /\ Slots \subseteq Reporters
  BY LocksType DEF RunInv
<1>1. CASE TickBegin
  BY <1>0, <1>1 DEF TickBegin, Discovers
<1>2. ASSUME NEW s \in Slots, TickChecksUnit(s) PROVE TypeOK'
  BY <1>0, <1>2 DEF TickChecksUnit
<1>3. CASE TickCloses
  BY <1>0, <1>3 DEF TickCloses
<1>4. CASE TickCleansUp
  BY <1>0, <1>4 DEF TickCleansUp
<1>5. CASE TickPlans
  BY <1>0, <1>5 DEF TickPlans, Due, Missed, Open, Queued, Scheduled
<1>6. ASSUME NEW s \in Slots, TickSweeps(s) PROVE TypeOK'
  BY <1>0, <1>6 DEF TickSweeps
<1>7. ASSUME NEW s \in Slots, TickQueuesMissed(s) PROVE TypeOK'
  BY <1>0, <1>7 DEF TickQueuesMissed
<1>8. ASSUME NEW s \in Slots, TickStumbles(s) PROVE TypeOK'
  BY <1>0, <1>8 DEF TickStumbles
<1>9. CASE TickMissesRow
  BY <1>0, <1>9 DEF TickMissesRow
<1>10. CASE TickNextSweep
  BY <1>0, <1>10 DEF TickNextSweep, Queued, Scheduled
<1>11. CASE TickStartsNone \/ TickHeads
  BY <1>0, <1>11 DEF TickStartsNone, TickHeads, Waiting, Queued
<1>12. CASE TickLooks \/ TickWaits
  BY <1>0, <1>12 DEF TickLooks, TickWaits
<1>13. CASE TickPicks
  BY <1>0, <1>13 DEF TickPicks
<1>14. CASE TickClaims
  BY <1>0, <1>14 DEF TickClaims
<1>15. CASE TickLaunches
  BY <1>0, <1>15 DEF TickLaunches
<1>16. CASE TickWrites
  BY <1>0, <1>16 DEF TickWrites, PlanOver
<1>17. ASSUME NEW s \in Slots, TickReports(s) PROVE TypeOK'
  BY <1>0, <1>17 DEF TickReports
<1>18. CASE TickEnds \/ TickDies
  BY <1>0, <1>18 DEF TickEnds, TickDies, TickOver, PlanOver
<1>19. ASSUME NEW p \in Reporters, ReportMails(p) \/ ReportMarks(p) PROVE TypeOK'
  BY <1>0, <1>19 DEF ReportMails, ReportMarks, Subject
<1>20. ASSUME NEW p \in Reporters, ReportPushes(p) PROVE TypeOK'
  BY <1>0, <1>20 DEF ReportPushes, Subject
<1>21. ASSUME NEW s \in Slots,
              UnitUp(s) \/ RunReads(s) \/ RunLocks(s) \/ RunRequeues(s) \/ RunStarts(s)
       PROVE  TypeOK'
  BY <1>0, <1>21 DEF UnitUp, RunReads, RunLocks, RunRequeues, RunStarts
<1>22. ASSUME NEW s \in Slots, RunWorks(s) \/ RunAgentEnds(s) \/ RunFinishes(s)
       PROVE  TypeOK'
  BY <1>0, <1>22 DEF RunWorks, RunAgentEnds, RunFinishes
<1>23. ASSUME NEW s \in Slots, RunLeaves(s) \/ RunDies(s) \/ AgentExpires(s)
       PROVE  TypeOK'
  BY <1>0, <1>23 DEF RunLeaves, RunDies, AgentExpires
<1>24. ASSUME NEW u \in Updaters, UpdaterSteps(u) \/ UpdaterQuits(u)
       PROVE  TypeOK'
  BY <1>0, <1>24 DEF UpdaterSteps, UpdaterQuits
<1>25. ASSUME NEW s \in Slots, StartNow(s) \/ OwnerSwitches(s)
       PROVE  TypeOK'
  BY <1>0, <1>25 DEF StartNow, OwnerSwitches
<1>26. CASE PlanChanges
  BY <1>0, <1>26 DEF PlanChanges
<1>28. CASE Minute
  BY <1>0, <1>28 DEF Minute
<1>29. CASE Reboot
  BY <1>0, <1>29 DEF Reboot, TickOver, PlanOver
<1>27. CASE UNCHANGED vars
  BY <1>0, <1>27 DEF vars
<1> QED
  BY <1>1, <1>2, <1>3, <1>4, <1>5, <1>6, <1>7, <1>8, <1>9, <1>10, <1>11, <1>12, <1>13, <1>14,
     <1>15, <1>16, <1>17, <1>18, <1>19, <1>20, <1>21, <1>22, <1>23, <1>24, <1>25, <1>26, <1>27,
     <1>28, <1>29 DEF Next, TickProgress, RunProgress

-----------------------------------------------------------------------------
(* Rows, runners and reports *)

(* A row whose runner is at work is running or has ended, a row that has ended *)
(* stays as it is, and what is mailed is what the row says.                    *)
LEMMA RunInvInductive ==
  ASSUME TypeOK, RunInv, [Next]_vars
  PROVE  RunInv'
<1> USE SlotsAssumption, ProcessesAssumption
    DEF RunInv, AtWork, Active, Final, Move, JGo, Fault, Switch,
        ledger, marks, procs, lockVars, tick, plan, box, ghosts, rest
<1>0. /\ st \in [Slots -> Statuses] /\ job \in [Slots -> Jobs]
      /\ rep \in [Reporters -> {"idle", "email", "mark", "push"}]
      /\ starts \in [Slots -> Nat] /\ pushes \in [Slots -> Nat]
      /\ rpc \in [Slots -> Locks!RunnerPhases]
      /\ tset \subseteq Slots /\ tcur \in Slots \union {NoSlot}
      /\ tpc \in {"finish", "clean", "missrow", "claim", "launch"} \/ rep[Tick] # "idle"
           <=> tcur # NoSlot
      /\ mailed \subseteq Slots \X Final
      /\ Tick \in Reporters /\ Slots \subseteq Reporters /\ Tick \notin Slots
  BY DEF TypeOK, Locks!TypeOK, Reporters
<1>1. CASE TickBegin
  BY <1>0, <1>1 DEF TickBegin
<1>2. ASSUME NEW s \in Slots, TickChecksUnit(s) PROVE RunInv'
  BY <1>0, <1>2 DEF TickChecksUnit
<1>3. CASE TickCloses
  BY <1>0, <1>3 DEF TickCloses
<1>4. CASE TickCleansUp
  BY <1>0, <1>4 DEF TickCleansUp
<1>5. CASE TickPlans
  BY <1>0, <1>5 DEF TickPlans
<1>6. ASSUME NEW s \in Slots, TickSweeps(s) PROVE RunInv'
  BY <1>0, <1>6 DEF TickSweeps
<1>7. ASSUME NEW s \in Slots, TickQueuesMissed(s) PROVE RunInv'
  BY <1>0, <1>7 DEF TickQueuesMissed
<1>8. ASSUME NEW s \in Slots, TickStumbles(s) PROVE RunInv'
  BY <1>0, <1>8 DEF TickStumbles
<1>9. CASE TickMissesRow
  BY <1>0, <1>9 DEF TickMissesRow
<1>10. CASE TickNextSweep
  BY <1>0, <1>10 DEF TickNextSweep
<1>11. CASE TickStartsNone \/ TickHeads
  BY <1>0, <1>11 DEF TickStartsNone, TickHeads
<1>12. CASE TickLooks \/ TickWaits
  BY <1>0, <1>12 DEF TickLooks, TickWaits, Locks!LookDeploy, Locks!UnlookDeploy,
                     Locks!LookShift, Locks!UnlookShift, Locks!EndLook
<1>13. CASE TickPicks
  BY <1>0, <1>13 DEF TickPicks, Locks!EndLook
<1>14. CASE TickClaims
  BY <1>0, <1>14 DEF TickClaims
<1>15. CASE TickLaunches
  BY <1>0, <1>15 DEF TickLaunches
<1>16. CASE TickWrites
  BY <1>0, <1>16 DEF TickWrites
<1>17. ASSUME NEW s \in Slots, TickReports(s) PROVE RunInv'
  BY <1>0, <1>17 DEF TickReports
<1>18. CASE TickEnds \/ TickDies
  BY <1>0, <1>18 DEF TickEnds, TickDies, TickOver, Locks!EndLook
<1>19. ASSUME NEW p \in Reporters, ReportMails(p) PROVE RunInv'
  BY <1>0, <1>19 DEF ReportMails, Subject, Reporters
<1>20. ASSUME NEW p \in Reporters, ReportMarks(p) PROVE RunInv'
  BY <1>0, <1>20 DEF ReportMarks, Subject, Reporters
<1>21. ASSUME NEW p \in Reporters, ReportPushes(p) PROVE RunInv'
  BY <1>0, <1>21 DEF ReportPushes, Subject, Reporters
<1>22. ASSUME NEW s \in Slots, UnitUp(s) \/ RunReads(s) PROVE RunInv'
  BY <1>0, <1>22 DEF UnitUp, RunReads, Locks!Arrive, Locks!RMove
<1>23. ASSUME NEW s \in Slots, RunLocks(s) PROVE RunInv'
  BY <1>0, <1>23 DEF RunLocks, Locks!TakeShift, Locks!ProbeDeploy, Locks!Enter, Locks!RMove
<1>24. ASSUME NEW s \in Slots, RunRequeues(s) PROVE RunInv'
  BY <1>0, <1>24 DEF RunRequeues, Locks!GiveUp, Locks!RMove
<1>25. ASSUME NEW s \in Slots, RunStarts(s) PROVE RunInv'
  BY <1>0, <1>25 DEF RunStarts, Locks!Leave, Locks!RMove
<1>26. ASSUME NEW s \in Slots, RunWorks(s) \/ RunAgentEnds(s) PROVE RunInv'
  BY <1>0, <1>26 DEF RunWorks, RunAgentEnds
<1>27. ASSUME NEW s \in Slots, RunFinishes(s) PROVE RunInv'
  BY <1>0, <1>27 DEF RunFinishes
<1>28. ASSUME NEW s \in Slots, RunLeaves(s) \/ RunDies(s) PROVE RunInv'
  BY <1>0, <1>28 DEF RunLeaves, RunDies, Locks!Leave, Locks!Die, Locks!RMove
<1>29. ASSUME NEW u \in Updaters, UpdaterSteps(u) PROVE RunInv'
  BY <1>0, <1>29 DEF UpdaterSteps, Locks!Launch, Locks!Poll, Locks!Unpoll, Locks!Decide,
                     Locks!Take, Locks!Recheck, Locks!Install, Locks!Installed, Locks!Wake,
                     Locks!TimeOut
<1>30. ASSUME NEW u \in Updaters, UpdaterQuits(u) PROVE RunInv'
  BY <1>0, <1>30 DEF UpdaterQuits, Locks!Quit
<1>31. ASSUME NEW s \in Slots, AgentExpires(s) \/ StartNow(s) \/ OwnerSwitches(s)
       PROVE  RunInv'
  BY <1>0, <1>31 DEF AgentExpires, StartNow, OwnerSwitches
<1>32. CASE PlanChanges \/ Minute
  BY <1>0, <1>32 DEF PlanChanges, Minute
<1>33. CASE Reboot
  BY <1>0, <1>33 DEF Reboot, TickOver, Locks!Reboot
<1>34. CASE UNCHANGED vars
  BY <1>34 DEF vars
<1> QED
  BY <1>0, <1>1, <1>2, <1>3, <1>4, <1>5, <1>6, <1>7, <1>8, <1>9, <1>10, <1>11, <1>12, <1>13,
     <1>14, <1>15, <1>16, <1>17, <1>18, <1>19, <1>20, <1>21, <1>22, <1>23, <1>24, <1>25, <1>26,
     <1>27, <1>28, <1>29, <1>30, <1>31, <1>32, <1>33, <1>34 DEF Next, TickProgress, RunProgress

LEMMA Inductive == Spec => [](TypeOK /\ RunInv)
<1>1. Init => TypeOK /\ RunInv
  BY InitType, ProcessesAssumption
     DEF Init, RunInv, Locks!Init, AtWork, Final, Reporters
<1> QED
  BY <1>1, TypeInductive, RunInvInductive, PTL DEF Spec

(* Type correctness.                                                           *)
THEOREM TypeCorrect == Spec => []TypeOK
BY Inductive, PTL

(* The inductive invariant holds: what each process may assume of the rows.    *)
THEOREM RunsInvariant == Spec => []RunInv
BY Inductive, PTL

(* A slot is worked at most once, and never after it was reported MISSED       *)
(* (core/coworkers/runs.py _move, runner.run).                                 *)
THEOREM WorkedOnce == Spec => []WorkedAtMostOnce
<1>1. RunInv => WorkedAtMostOnce
  BY DEF RunInv, WorkedAtMostOnce
<1> QED
  BY <1>1, Inductive, PTL

(* A report says how the run ended, and its notification goes out once, though *)
(* the runner and the tick may both be sending it (runner.report).             *)
THEOREM ReportsTrue == Spec => []ToldTheEnd
<1>1. RunInv => ToldTheEnd
  BY DEF RunInv, ToldTheEnd
<1> QED
  BY <1>1, Inductive, PTL

(* A runner works only while it holds the shift lock, and its row is its own   *)
(* or has ended (runner.run, locks.shift).                                     *)
THEOREM WorksUnderLock == Spec => []WorkUnderLock
<1>1. Locks!Spec => []Locks!LockInv
  <2>1. LP!LocksAssumption
    BY ProcessesAssumption DEF LP!LocksAssumption
  <2>2. LP!Spec => []LP!LockInv
    BY <2>1, LP!LocksCorrect
  <2>3. LP!LockInv => Locks!LockInv
    BY DEF LP!LockInv, Locks!LockInv, LP!UpdateExcludesShift, Locks!UpdateExcludesShift
  <2> QED
    BY <2>2, <2>3, SameProtocol, PTL
<1>2. RunInv /\ Locks!LockInv => WorkUnderLock
  BY DEF RunInv, WorkUnderLock, Locks!LockInv
<1> QED
  BY <1>1, <1>2, Inductive, ObeysLocks, PTL

(* A row that has ended stays as it is: no late runner, sweep, requeue or      *)
(* clean-up changes it (core/coworkers/runs.py _move).                         *)
THEOREM EndStays == Spec => EndIsFinal
<1> DEFINE Stays == \A s \in Slots : st[s] \in Final => st'[s] = st[s]
<1>1. TypeOK /\ RunInv /\ [Next]_vars => [Stays]_st
  <2> SUFFICES ASSUME TypeOK, RunInv, [Next]_vars, NEW s \in Slots, st[s] \in Final
               PROVE  st'[s] = st[s]
    OBVIOUS
  <2> USE DEF Active, Final, Move, ledger, procs, rest
  <2>0. st \in [Slots -> Statuses]
    BY DEF TypeOK
  <2>1. CASE TickProgress
    BY <2>0, <2>1
       DEF TickProgress, TickBegin, TickChecksUnit, TickSweeps, TickQueuesMissed, TickReports,
           TickCloses, TickCleansUp, TickPlans, TickMissesRow, TickNextSweep, TickStartsNone,
           TickHeads, TickLooks, TickWaits, TickPicks, TickClaims, TickLaunches, TickWrites,
           TickEnds, ReportMails, ReportMarks, ReportPushes
  <2>2. ASSUME NEW t \in Slots, TickStumbles(t) \/ RunProgress(t) \/ RunDies(t)
                                \/ AgentExpires(t) \/ StartNow(t) \/ OwnerSwitches(t)
        PROVE  st'[s] = st[s]
    BY <2>0, <2>2
       DEF TickStumbles, RunProgress, UnitUp, RunReads, RunLocks, RunRequeues,
           RunStarts, RunWorks, RunAgentEnds, RunFinishes, RunLeaves, ReportMails, ReportMarks,
           ReportPushes, RunDies, AgentExpires, StartNow, OwnerSwitches
  <2>3. CASE (\E u \in Updaters : UpdaterSteps(u) \/ UpdaterQuits(u))
             \/ TickDies \/ PlanChanges \/ Minute \/ Reboot
    BY <2>3 DEF UpdaterSteps, UpdaterQuits, TickDies, PlanChanges, Minute, Reboot
  <2>4. CASE UNCHANGED vars
    BY <2>4 DEF vars
  <2> QED
    BY <2>1, <2>2, <2>3, <2>4 DEF Next
<1> QED
  BY <1>1, Inductive, PTL DEF Spec, EndIsFinal
-----------------------------------------------------------------------------
(* A row, once there, is not taken away.                                       *)
LEMMA RowsStay ==
  ASSUME TypeOK, [Next]_vars, NEW s \in Slots, st[s] # "none"
  PROVE  st'[s] # "none"
<1> USE DEF Active, Final, Move, ledger, procs, rest
<1>0. st \in [Slots -> Statuses]
  BY DEF TypeOK
<1>1. CASE TickProgress
  BY <1>0, <1>1
     DEF TickProgress, TickBegin, TickChecksUnit, TickSweeps, TickQueuesMissed, TickReports,
         TickCloses, TickCleansUp, TickPlans, TickMissesRow, TickNextSweep, TickStartsNone,
         TickHeads, TickLooks, TickWaits, TickPicks, TickClaims, TickLaunches, TickWrites,
         TickEnds, ReportMails, ReportMarks, ReportPushes
<1>2. ASSUME NEW t \in Slots, TickStumbles(t) \/ RunProgress(t) \/ RunDies(t)
                              \/ AgentExpires(t) \/ StartNow(t) \/ OwnerSwitches(t)
      PROVE  st'[s] # "none"
  BY <1>0, <1>2
     DEF TickStumbles, RunProgress, UnitUp, RunReads, RunLocks, RunRequeues,
         RunStarts, RunWorks, RunAgentEnds, RunFinishes, RunLeaves, ReportMails, ReportMarks,
         ReportPushes, RunDies, AgentExpires, StartNow, OwnerSwitches
<1>3. CASE (\E u \in Updaters : UpdaterSteps(u) \/ UpdaterQuits(u))
           \/ TickDies \/ PlanChanges \/ Minute \/ Reboot
  BY <1>3 DEF UpdaterSteps, UpdaterQuits, TickDies, PlanChanges, Minute, Reboot
<1>4. CASE UNCHANGED vars
  BY <1>4 DEF vars
<1> QED
  BY <1>1, <1>2, <1>3, <1>4 DEF Next

(* The window of s closed after the last tick that finished and before the one *)
(* under way, which has to account for it.                                     *)
Slipped(s) == since # NoTime /\ since <= Latest[s] /\ Latest[s] < tnow

(* Such a slot without a row is among the missed ones as soon as the tick has  *)
(* made its plan, and has its row before the tick moves on to its heartbeat.   *)
SlotSeen(s) ==
  /\ st[s] = "none" /\ Slipped(s) =>
       \/ tpc \in {"off", "close", "finish", "clean", "report"}
       \/ tpc \in {"miss", "missrow"} /\ s \in tmiss
       \/ Latest[s] + LookBack < tnow \/ s \notin ton
  /\ since # NoTime /\ base <= Latest[s] /\ Latest[s] < since => st[s] # "none" \/ s \in excused

LEMMA SlotStaysSeen ==
  ASSUME TypeOK, [Next]_vars, NEW s \in Scheduled, SlotSeen(s)
  PROVE  SlotSeen(s)'
<1> USE DEF SlotSeen, Slipped, ledger, procs, plan, tick, rest, box, ghosts
<1>a. s \in Slots /\ s \notin RunNow
  BY DEF Scheduled
<1>b. /\ Latest[s] \in Nat /\ clock \in Nat /\ tnow \in Nat /\ base \in Nat /\ LookBack \in Nat
      /\ since \in Nat \union {NoTime} /\ tpc \in Phases
  BY <1>a, TimesAssumption DEF TypeOK
<1>c. st'[s] = "none" => st[s] = "none"
  BY <1>a, RowsStay
\* The steps that leave the tick where it is, and its plan and heartbeat alone.
<1>1. ASSUME UNCHANGED <<tpc, tnow, ton, tmiss, since, base, excused>> PROVE SlotSeen(s)'
  BY <1>1, <1>c
\* A tick that ends or dies leaves its heartbeat alone.
<1>2. ASSUME tpc' = "off", UNCHANGED <<since, base, excused>> PROVE SlotSeen(s)'
  BY <1>2, <1>c
<1>3. CASE TickBegin
  BY <1>3, <1>b, <1>c DEF TickBegin
<1>4. ASSUME UNCHANGED <<tnow, ton, tmiss, since, base, excused>>, tpc # "off",
             \/ tpc' \in {"close", "finish", "clean"}
             \/ {tpc, tpc'} \subseteq {"miss", "missrow"}
             \/ tpc \in {"queue", "unsched", "look", "claim", "launch", "write"}
             \/ tpc = "miss" /\ tmiss = {}
      PROVE  SlotSeen(s)'
  BY <1>4, <1>b, <1>c DEF Phases
<1>5. CASE TickCloses \/ TickCleansUp \/ TickMissesRow \/ TickNextSweep \/ TickStartsNone
           \/ TickHeads \/ TickWaits \/ TickPicks \/ TickClaims \/ TickLaunches
  BY <1>4, <1>5
     DEF TickCloses, TickCleansUp, TickMissesRow, TickNextSweep, TickStartsNone, TickHeads,
         TickWaits, TickPicks, TickClaims, TickLaunches
<1>6. CASE TickPlans
  <2>1. /\ tpc' = "miss" /\ tmiss' = Missed(tnow)
        /\ UNCHANGED <<st, tnow, ton, since, base, excused>>
    BY <1>6 DEF TickPlans
  <2>2. st[s] = "none" /\ Slipped(s) /\ s \in ton /\ ~(Latest[s] + LookBack < tnow)
          => s \in Missed(tnow)
    BY <1>a, <1>b DEF Missed, Open
  <2> QED
    BY <2>1, <2>2, <1>6 DEF TickPlans
<1>7. ASSUME NEW t \in Slots, TickQueuesMissed(t) PROVE SlotSeen(s)'
  <2>1. tpc = "miss" /\ tpc' \in {"miss", "missrow"} /\ tmiss' = tmiss \ {t}
        /\ UNCHANGED <<tnow, ton, since, base, excused>>
    BY <1>7 DEF TickQueuesMissed
  <2>2. t = s => st'[s] # "none"
    BY <1>7, <1>a DEF TickQueuesMissed, Move, TypeOK
  <2> QED
    BY <2>1, <2>2, <1>c
<1>8. CASE TickWrites
  <2>1. /\ tpc = "write" /\ tpc' = "report" /\ since' = tnow
        /\ base' = (IF since = NoTime THEN tnow ELSE base)
        /\ excused' = excused \union {t \in Slots : Overlooked(t)}
        /\ UNCHANGED st
    BY <1>8 DEF TickWrites
  <2>2. base' <= Latest[s] /\ Latest[s] < tnow => st[s] # "none" \/ s \in excused'
    BY <2>1, <1>a, <1>b DEF Overlooked
  <2> QED
    BY <2>1, <2>2
<1>9. ASSUME NEW t \in Slots,
             TickChecksUnit(t) \/ TickSweeps(t) \/ TickReports(t) \/ TickStumbles(t)
      PROVE  SlotSeen(s)'
  BY <1>1, <1>4, <1>9 DEF TickChecksUnit, TickSweeps, TickReports, TickStumbles
<1>10. CASE TickLooks
  BY <1>1, <1>10 DEF TickLooks
<1>11. ASSUME NEW p \in Slots \union {Tick}, ReportMails(p) \/ ReportMarks(p) \/ ReportPushes(p)
       PROVE  SlotSeen(s)'
  BY <1>1, <1>11 DEF ReportMails, ReportMarks, ReportPushes
<1>12. ASSUME NEW t \in Slots,
              \/ UnitUp(t) \/ RunReads(t) \/ RunLocks(t) \/ RunRequeues(t) \/ RunStarts(t)
              \/ RunWorks(t) \/ RunAgentEnds(t) \/ RunFinishes(t) \/ RunLeaves(t)
              \/ RunDies(t) \/ AgentExpires(t) \/ StartNow(t) \/ OwnerSwitches(t)
       PROVE  SlotSeen(s)'
  BY <1>1, <1>12
     DEF UnitUp, RunReads, RunLocks, RunRequeues, RunStarts, RunWorks, RunAgentEnds,
         RunFinishes, RunLeaves, RunDies, AgentExpires, StartNow, OwnerSwitches
<1>13. CASE (\E u \in Updaters : UpdaterSteps(u) \/ UpdaterQuits(u)) \/ PlanChanges \/ Minute
  BY <1>1, <1>13 DEF UpdaterSteps, UpdaterQuits, PlanChanges, Minute
<1>14. CASE TickEnds \/ TickDies \/ Reboot
  BY <1>2, <1>14 DEF TickEnds, TickDies, Reboot, TickOver
<1>15. CASE UNCHANGED vars
  BY <1>1, <1>15 DEF vars
<1> QED
  BY <1>3, <1>5, <1>6, <1>7, <1>8, <1>9, <1>10, <1>11, <1>12, <1>13, <1>14, <1>15
     DEF Next, TickProgress, RunProgress

(* No scheduled shift is skipped in silence: a slot whose window closed before *)
(* the last tick that finished has a row, though ticks die at any point, unless*)
(* the box was off until LookBack after its window, or its coworker was        *)
(* switched off when a tick came by (runner.tick, schedule.plan).              *)
THEOREM NoShiftSkipped == Spec => []NoSilentSlot
<1> DEFINE Seen == \A s \in Scheduled : SlotSeen(s)
<1>1. Init => Seen
  BY DEF Init, SlotSeen, Slipped, Scheduled
<1>2. TypeOK /\ Seen /\ [Next]_vars => Seen'
  BY SlotStaysSeen DEF Scheduled
<1>3. Seen => NoSilentSlot
  BY DEF SlotSeen, NoSilentSlot
<1> QED
  BY <1>1, <1>2, <1>3, TypeCorrect, PTL DEF Spec

-----------------------------------------------------------------------------
(* The queue and the schedule *)

(* Once the fourth sweep has read the queue, a scheduled row is due, or is yet *)
(* to be closed, or has ended, or is too late to start, or it is one that the  *)
(* sweep did not see or could not close; and what is claimed is one of these.  *)
SlotSwept(s) ==
  /\ tpc = "unsched" =>
       /\ s \in tdue \union unseen \union tset \/ st[s] \in Final \/ Latest[s] < tnow
       /\ s \in tset => st[s] \in {"queued"} \union Final
  /\ tpc = "look" /\ s \in tset => s \in tdue \union unseen
  /\ tpc = "claim" /\ s = tcur => s \in tdue \union unseen

LEMMA SlotStaysSwept ==
  ASSUME TypeOK, [Next]_vars, NEW s \in Scheduled, SlotSwept(s)
  PROVE  /\ SlotSwept(s)'
         /\ st[s] = "queued" /\ st'[s] = "starting" => s \in tdue \union unseen
<1> USE DEF SlotSwept, Active, Final, Move, ledger, procs, tick, plan, rest
<1>a. s \in Slots /\ s \notin RunNow
  BY DEF Scheduled
<1>b. st \in [Slots -> Statuses] /\ Latest[s] \in Nat /\ tnow \in Nat
  BY <1>a, TimesAssumption DEF TypeOK
<1> DEFINE Goal == /\ SlotSwept(s)'
                   /\ st[s] = "queued" /\ st'[s] = "starting" => s \in tdue \union unseen
\* The steps of the others: they leave the tick alone, a queued row queued and an end an end.
<1>1. ASSUME UNCHANGED <<tpc, tset, tcur, tnow, tdue, unseen>>,
             st[s] \in {"queued"} \union Final => st'[s] = st[s]
      PROVE  Goal
  BY <1>1
\* The steps of the tick that end outside the three phases.
<1>2. ASSUME tpc' \notin {"unsched", "look", "claim"},
             st[s] = "queued" => st'[s] # "starting"
      PROVE  Goal
  BY <1>2
<1>3. CASE TickBegin \/ TickCloses \/ TickCleansUp \/ TickPlans \/ TickMissesRow
           \/ TickStartsNone \/ TickWaits \/ TickWrites \/ TickEnds \/ TickDies \/ Reboot
  BY <1>2, <1>3, <1>a, <1>b
     DEF TickBegin, TickCloses, TickCleansUp, TickPlans, TickMissesRow, TickStartsNone, TickWaits,
         TickWrites, TickEnds, TickDies, Reboot, TickOver
<1>4. CASE TickNextSweep
  BY <1>4, <1>a, <1>b DEF TickNextSweep, Queued
<1>5. CASE TickHeads
  BY <1>5, <1>a, <1>b DEF TickHeads, Waiting, Queued
<1>6. CASE TickLooks
  BY <1>1, <1>6 DEF TickLooks
<1>7. CASE TickPicks
  BY <1>7, <1>a DEF TickPicks, Head
<1>8. CASE TickClaims
  BY <1>8, <1>a, <1>b DEF TickClaims
<1>9. CASE TickLaunches
  BY <1>2, <1>9, <1>a, <1>b DEF TickLaunches
<1>10. ASSUME NEW t \in Slots, TickSweeps(t) \/ TickStumbles(t) PROVE Goal
  BY <1>10, <1>a, <1>b DEF TickSweeps, TickStumbles
<1>11. ASSUME NEW t \in Slots, TickChecksUnit(t) \/ TickQueuesMissed(t) \/ TickReports(t)
       PROVE  Goal
  BY <1>11, <1>2, <1>a, <1>b DEF TickChecksUnit, TickQueuesMissed, TickReports
<1>12. ASSUME NEW p \in Slots \union {Tick}, ReportMails(p) \/ ReportMarks(p) PROVE Goal
  BY <1>1, <1>12 DEF ReportMails, ReportMarks
<1>13. ASSUME NEW p \in Slots \union {Tick}, ReportPushes(p) PROVE Goal
  BY <1>13, <1>a, SlotsAssumption DEF ReportPushes
<1>14. ASSUME NEW t \in Slots,
              \/ UnitUp(t) \/ RunReads(t) \/ RunLocks(t) \/ RunRequeues(t) \/ RunStarts(t)
              \/ RunWorks(t) \/ RunAgentEnds(t) \/ RunFinishes(t) \/ RunLeaves(t)
              \/ RunDies(t) \/ AgentExpires(t) \/ StartNow(t) \/ OwnerSwitches(t)
       PROVE  Goal
  BY <1>1, <1>14, <1>a, <1>b
     DEF UnitUp, RunReads, RunLocks, RunRequeues, RunStarts, RunWorks, RunAgentEnds,
         RunFinishes, RunLeaves, RunDies, AgentExpires, StartNow, OwnerSwitches
<1>15. CASE (\E u \in Updaters : UpdaterSteps(u) \/ UpdaterQuits(u)) \/ PlanChanges \/ Minute
  BY <1>1, <1>15 DEF UpdaterSteps, UpdaterQuits, PlanChanges, Minute
<1>16. CASE UNCHANGED vars
  BY <1>1, <1>16 DEF vars
<1> QED
  BY <1>3, <1>4, <1>5, <1>6, <1>7, <1>8, <1>9, <1>10, <1>11, <1>12, <1>13, <1>14, <1>15, <1>16
     DEF Next, TickProgress, RunProgress

(* A scheduled shift is started only while it is scheduled: switched off, or   *)
(* its window closed, while it waits in the queue, it is not claimed, except a *)
(* row the sweep of that tick failed to close or that came back behind it      *)
(* (runner.tick, 4b and 5).                                                    *)
THEOREM StartedAsScheduled == Spec => OnlyWhileScheduled
<1> DEFINE Swept == \A s \in Scheduled : SlotSwept(s)
           Named == \A s \in Scheduled :
                      st[s] = "queued" /\ st'[s] = "starting" => s \in tdue \union unseen
<1>1. Init => Swept
  BY DEF Init, SlotSwept
<1>2. TypeOK /\ Swept /\ [Next]_vars => Swept' /\ [Named]_vars
  BY SlotStaysSwept DEF Scheduled
<1>3. [][Named]_vars <=> OnlyWhileScheduled
  BY PTL DEF OnlyWhileScheduled
<1> QED
  BY <1>1, <1>2, <1>3, TypeCorrect, PTL DEF Spec
=============================================================================
