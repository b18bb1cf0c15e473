--------------------------- MODULE ArticlesProofs ---------------------------
(* Proofs about the machine that publishes articles, for any number of        *)
(* proposals, requests and topics: the queue of approvals and what a yes sets *)
(* going, and the weekly number.                                              *)
EXTENDS Articles, TLAPS, FiniteSetTheorems

(* A request that carries a change out has its row in hand, and no other.     *)
StepInv ==
  /\ step \in [Deciders -> {"rest", "run", "writes", "taken off"}]
  /\ todo \in [Deciders -> SUBSET (Tasks \X Rows)]
  /\ \A p \in Deciders : step[p] = "rest" <=> hand[p] = Nothing

QueueInv == ApprovalsTypeOK /\ StepInv /\ RunOnce /\ InHandIsApproved

(* All that any step of the machine does to the queue.                        *)
Answered(p) == hand[p] # Nothing /\ \E how \in {"done", "failed"} : Ends(p, how)

QueueMoves ==
  \/ QueueStep
  \/ \E p \in Deciders, a \in Proposals : Approves(p, a)
  \/ \E p \in Deciders : Answered(p)
  \/ WebDies
  \/ UNCHANGED approvalVars

-----------------------------------------------------------------------------
(* The worker, the screen and the clock leave the queue and its requests be.  *)
LEMMA OthersLeaveIt ==
  ASSUME WorkerStep \/ (\E r \in Rows : Edits(r)) \/ Tick
  PROVE  UNCHANGED <<approvalVars, runVars>>
<1>1. ASSUME NEW r \in Rows, ReleaseStale(r) \/ Takes(r)
      PROVE  UNCHANGED <<approvalVars, runVars>>
  BY <1>1 DEF ReleaseStale, Takes, JobStep
<1>2. CASE Claims \/ Publishes \/ PublishesNot \/ Records
  BY <1>2 DEF Claims, Publishes, PublishesNot, Records, JobStep
<1>3. CASE PublishesUnheard \/ WorkerDies
  BY <1>3 DEF PublishesUnheard, WorkerDies
<1>4. ASSUME NEW r \in Rows, Edits(r)
      PROVE  UNCHANGED <<approvalVars, runVars>>
  BY <1>4 DEF Edits
<1>5. CASE Tick
  BY <1>5 DEF Tick
<1> QED
  BY <1>1, <1>2, <1>3, <1>4, <1>5 DEF WorkerStep

(* Who has a row in hand keeps StepInv and moves the queue as QueueMoves says.*)
LEMMA StepsAreMoves ==
  ASSUME ApprovalsTypeOK, StepInv, [Next]_vars
  PROVE  QueueMoves /\ StepInv'
<1> USE ApprovalsAssumption DEF ApprovalsTypeOK, StepInv
<1>1. CASE UNCHANGED <<approvalVars, runVars>>
  BY <1>1 DEF QueueMoves, approvalVars, runVars
<1>2. CASE Queues
  BY <1>2 DEF Queues, QueueStep, QueueMoves, Proposes, Expires, Declines, runVars
<1>3. ASSUME NEW p \in Deciders, NEW a \in Proposals, Approved(p, a)
      PROVE  QueueMoves /\ StepInv'
  BY <1>3 DEF Approved, Approves, QueueMoves
<1>4. ASSUME NEW p \in Deciders, NEW how \in {"done", "failed"}, step[p] # "rest",
             Finishes(p, how)
      PROVE  QueueMoves /\ StepInv'
  BY <1>4 DEF Finishes, Ends, Answered, QueueMoves
<1>5. ASSUME NEW p \in Deciders, RunRefuses(p) \/ RunEnds(p)
      PROVE  QueueMoves /\ StepInv'
  BY <1>4, <1>5 DEF RunRefuses, RunEnds
<1>6. ASSUME NEW p \in Deciders, RunLooks(p)
      PROVE  QueueMoves /\ StepInv'
  <2>1. hand[p] \in Proposals
    BY <1>6 DEF RunLooks
  <2>2. {t \in Change[hand[p]] : ~Done(hand[p], t)} \in SUBSET (Tasks \X Rows)
    BY <2>1, ArticlesAssumption
  <2> QED
    BY <1>6, <2>2 DEF RunLooks, QueueMoves, approvalVars
<1>8. ASSUME NEW p \in Deciders, NEW t \in Tasks \X Rows, RunPlans(p, t) \/ RunMisses(p, t)
      PROVE  QueueMoves /\ StepInv'
  <2>1. CASE step[p] = "writes" /\ Finishes(p, "failed")
    BY <1>4, <2>1
  <2>2. CASE todo' = [todo EXCEPT ![p] = @ \ {t}] /\ UNCHANGED <<approvalVars, step>>
    BY <2>2 DEF QueueMoves, approvalVars
  <2> QED
    BY <1>8, <2>1, <2>2 DEF RunPlans, RunMisses
<1>9. ASSUME NEW p \in Deciders, NEW r \in Rows, RunFails(p, r) \/ RunMarksOff(p, r)
      PROVE  QueueMoves /\ StepInv'
  BY <1>4, <1>9 DEF RunFails, RunMarksOff
<1>10. ASSUME NEW p \in Deciders, NEW r \in Rows, RunTakesOff(p, r)
      PROVE  QueueMoves /\ StepInv'
  BY <1>10 DEF RunTakesOff, QueueMoves, approvalVars
<1>7. CASE ServerDies
  BY <1>7 DEF ServerDies, WebDies, QueueMoves
<1> QED
  BY <1>1, <1>2, <1>3, <1>5, <1>6, <1>7, <1>8, <1>9, <1>10, OthersLeaveIt DEF Next, WebStep, vars

(* The queue's own moves keep what a yes is worth.                            *)
LEMMA QueueKeeps ==
  ASSUME QueueInv, QueueMoves
  PROVE  (ApprovalsTypeOK /\ RunOnce /\ InHandIsApproved)'
<1> USE ApprovalsAssumption DEF QueueInv, ApprovalsTypeOK, RunOnce, InHandIsApproved,
                                Statuses, Undecided, Final, Becomes
<1>1. ASSUME NEW a \in Proposals, Proposes(a) \/ Expires(a)
      PROVE  (ApprovalsTypeOK /\ RunOnce /\ InHandIsApproved)'
  BY <1>1 DEF Proposes, Expires
<1>2. ASSUME NEW p \in Deciders, NEW a \in Proposals, Declines(p, a)
      PROVE  (ApprovalsTypeOK /\ RunOnce /\ InHandIsApproved)'
  BY <1>2 DEF Declines
<1>3. ASSUME NEW p \in Deciders, NEW a \in Proposals, Approves(p, a)
      PROVE  (ApprovalsTypeOK /\ RunOnce /\ InHandIsApproved)'
  BY <1>3 DEF Approves
<1>4. ASSUME NEW p \in Deciders, Answered(p)
      PROVE  (ApprovalsTypeOK /\ RunOnce /\ InHandIsApproved)'
  BY <1>4 DEF Answered, Ends
<1>5. CASE WebDies
  BY <1>5 DEF WebDies
<1>6. CASE UNCHANGED approvalVars
  BY <1>6 DEF approvalVars
<1> QED
  BY <1>1, <1>2, <1>3, <1>4, <1>5, <1>6 DEF QueueMoves, QueueStep

(* The queue keeps its types, a request is at work on a row exactly while it   *)
(* has one in hand, and what is in hand is approved and run once              *)
(* (core/approvals.py decide).                                                *)
THEOREM QueueInvHolds == Spec => []QueueInv
<1>1. Init => QueueInv
  BY ApprovalsAssumption
     DEF Init, ApprovalsInit, QueueInv, ApprovalsTypeOK, StepInv, RunOnce, InHandIsApproved,
         Statuses, Undecided, Final
<1>2. QueueInv /\ [Next]_vars => QueueInv'
  BY StepsAreMoves, QueueKeeps DEF QueueInv
<1> QED
  BY <1>1, <1>2, PTL DEF Spec

(* A yes is carried out at most once, and what was declined or has expired    *)
(* never is (core/approvals.py decide).                                       *)
THEOREM CarriedOutOnce == Spec => []RunOnce
BY QueueInvHolds, PTL DEF QueueInv

(* A row that a request has in hand is approved, and no other request has it, *)
(* so the answer written at the end without another look is the first.        *)
THEOREM TheFirstAnswer == Spec => []InHandIsApproved
BY QueueInvHolds, PTL DEF QueueInv

(* A decision stays as it was made, whatever answers late.                    *)
THEOREM DecidedForGood == Spec => DecisionFinal
<1> DEFINE Kept == \A a \in Proposals : approval[a] \in Final => approval'[a] = approval[a]
<1>1. QueueInv /\ [Next]_vars => Kept
  <2> SUFFICES ASSUME QueueInv, [Next]_vars, NEW a \in Proposals, approval[a] \in Final
               PROVE  approval'[a] = approval[a]
    OBVIOUS
  <2>1. QueueMoves
    BY StepsAreMoves DEF QueueInv
  <2> USE DEF QueueInv, ApprovalsTypeOK, InHandIsApproved, Final, Becomes
  <2>2. CASE QueueStep
    BY <2>2 DEF QueueStep, Proposes, Expires, Declines
  <2>3. ASSUME NEW p \in Deciders, NEW b \in Proposals, Approves(p, b)
        PROVE  approval'[a] = approval[a]
    BY <2>3 DEF Approves
  <2>4. ASSUME NEW p \in Deciders, Answered(p)
        PROVE  approval'[a] = approval[a]
    BY <2>4 DEF Answered, Ends
  <2>5. CASE WebDies \/ UNCHANGED approvalVars
    BY <2>5 DEF WebDies, approvalVars
  <2> QED
    BY <2>1, <2>2, <2>3, <2>4, <2>5 DEF QueueMoves
<1>2. QueueInv /\ [Next]_vars => [Kept]_vars
  BY <1>1
<1> QED
  BY <1>2, QueueInvHolds, PTL DEF Spec, DecisionFinal
-----------------------------------------------------------------------------
(* What was set going was set going once.                                     *)
GoingIsRun == \A a \in Proposals : approval[a] = "approved" => ran[a] = 1

LEMMA QueueKeepsGoing ==
  ASSUME QueueInv, GoingIsRun, QueueMoves
  PROVE  GoingIsRun'
<1> USE DEF QueueInv, ApprovalsTypeOK, RunOnce, GoingIsRun, Undecided, Becomes
<1>1. ASSUME NEW a \in Proposals, Proposes(a) \/ Expires(a)
      PROVE  GoingIsRun'
  BY <1>1 DEF Proposes, Expires
<1>2. ASSUME NEW p \in Deciders, NEW a \in Proposals, Declines(p, a)
      PROVE  GoingIsRun'
  BY <1>2 DEF Declines
<1>3. ASSUME NEW p \in Deciders, NEW a \in Proposals, Approves(p, a)
      PROVE  GoingIsRun'
  BY <1>3 DEF Approves
<1>4. ASSUME NEW p \in Deciders, Answered(p)
      PROVE  GoingIsRun'
  BY <1>4 DEF Answered, Ends
<1>5. CASE WebDies \/ UNCHANGED approvalVars
  BY <1>5 DEF WebDies, approvalVars
<1> QED
  BY <1>1, <1>2, <1>3, <1>4, <1>5 DEF QueueMoves, QueueStep

(* Each move of the queue is a step of the promise, or none of its business.   *)
LEMMA MovesDecideOnce ==
  ASSUME QueueInv, GoingIsRun, QueueMoves
  PROVE  [Decisions!Next]_<<approval, ran>>
<1> USE DEF Becomes, Decisions!Becomes
<1>1. ASSUME NEW a \in Proposals, Proposes(a)
      PROVE  Decisions!Propose(a)
  BY <1>1 DEF Proposes, Decisions!Propose
<1>2. ASSUME NEW a \in Proposals, Expires(a) \/ \E p \in Deciders : Declines(p, a)
      PROVE  Decisions!TurnDown(a)
  BY <1>2 DEF Expires, Declines, Decisions!TurnDown
<1>3. ASSUME NEW p \in Deciders, NEW a \in Proposals, Approves(p, a)
      PROVE  Decisions!CarryOut(a)
  <2>1. approval[a] = "waiting" /\ ran[a] = 0
    BY <1>3 DEF Approves, QueueInv, RunOnce, Undecided
  <2>2. ran' = [ran EXCEPT ![a] = 1]
    BY <1>3, <2>1 DEF Approves
  <2> QED
    BY <1>3, <2>1, <2>2 DEF Approves, Decisions!CarryOut
<1>4. ASSUME NEW p \in Deciders, Answered(p)
      PROVE  \E a \in Proposals : Decisions!End(a)
  <2>1. hand[p] \in Proposals /\ approval[hand[p]] = "approved" /\ ran[hand[p]] = 1
    BY <1>4 DEF Answered, QueueInv, ApprovalsTypeOK, InHandIsApproved, GoingIsRun
  <2>2. Decisions!End(hand[p])
    BY <1>4, <2>1 DEF Answered, Ends, Decisions!End
  <2> QED
    BY <2>1, <2>2
<1>5. CASE WebDies \/ UNCHANGED approvalVars
  BY <1>5 DEF WebDies, approvalVars
<1> QED
  BY <1>1, <1>2, <1>3, <1>4, <1>5 DEF QueueMoves, QueueStep, Decisions!Next

(* Whatever the screens, the machine and the worker do, and whichever process  *)
(* dies between a yes and what it sets going, the queue keeps the promise of   *)
(* module DecideOnce (core/approvals.py propose, _expire, decide).             *)
THEOREM QueueDecidesOnce == Spec => ImplementsDecideOnce
<1>1. Init => Decisions!Init
  BY DEF Init, ApprovalsInit, Decisions!Init
<1>2. Init => GoingIsRun
  BY DEF Init, ApprovalsInit, GoingIsRun
<1>3. QueueInv /\ GoingIsRun /\ [Next]_vars => GoingIsRun'
  BY StepsAreMoves, QueueKeepsGoing DEF QueueInv
<1>4. QueueInv /\ GoingIsRun /\ [Next]_vars => [Decisions!Next]_(Decisions!onceVars)
  BY StepsAreMoves, MovesDecideOnce DEF QueueInv, Decisions!onceVars
<1> QED
  BY <1>1, <1>2, <1>3, <1>4, QueueInvHolds, PTL DEF Spec, ImplementsDecideOnce, Decisions!Spec
-----------------------------------------------------------------------------
(* The plan, the writing job and the website keep their types.                *)
PlanOK ==
  /\ status \in [Rows -> RowStatus]
  /\ asked \subseteq Rows /\ url \subseteq Rows /\ off \subseteq Rows
  /\ firstAt \in [Rows -> Times]
MachineOK ==
  /\ live \subseteq Rows /\ liveAt \in [Rows -> Times]
  /\ job \in [at : JobAt, row : Rows \union {Nothing}]
  /\ job.at = "rest" <=> job.row = Nothing
  /\ clock \in 0..MaxTime /\ faults \in 0..MaxFaults /\ edits \in 0..MaxEdits

TypeInv == QueueInv /\ PlanOK /\ MachineOK

LEMMA TypeParts == QueueInv /\ PlanOK /\ MachineOK => TypeOK
BY DEF TypeOK, QueueInv, StepInv, PlanOK, MachineOK

(* A statement on one row of the plan leaves a plan.                          *)
LEMMA MarkKeepsPlan ==
  ASSUME PlanOK, clock \in 0..MaxTime, NEW r \in Rows, NEW to \in RowStatus, NEW unpublished \in BOOLEAN,
         Mark(r, to, unpublished)
  PROVE  PlanOK'
<1>1. CASE UNCHANGED planVars
  BY <1>1 DEF PlanOK, planVars
<1>2. CASE status[r] # "gone"
  <2>1. firstAt' \in [Rows -> Times]
    BY <1>2 DEF Mark, PlanOK, Times
  <2> QED
    BY <1>2, <2>1 DEF Mark, PlanOK
<1> QED
  BY <1>1, <1>2 DEF Mark

LEMMA PlansKeepsPlan ==
  ASSUME PlanOK, NEW r \in Rows, NEW now \in BOOLEAN, Plans(r, now)
  PROVE  PlanOK'
BY DEF PlanOK, Plans, RowStatus

(* The worker's steps keep the plan and the machine.                          *)
LEMMA WorkerKeepsTypes ==
  ASSUME PlanOK, MachineOK, WorkerStep
  PROVE  PlanOK' /\ MachineOK'
<1> USE ArticlesAssumption
<1>1. job.at # "rest" => job.row \in Rows
  BY DEF MachineOK
<1>2. ASSUME NEW r \in Rows, ReleaseStale(r)
      PROVE  PlanOK' /\ MachineOK'
  <2>1. PlanOK'
    BY <1>2, MarkKeepsPlan DEF ReleaseStale, MachineOK, RowStatus
  <2> QED
    BY <1>2, <2>1 DEF ReleaseStale, JobStep, MachineOK
<1>3. ASSUME NEW r \in Rows, Takes(r)
      PROVE  PlanOK' /\ MachineOK'
  BY <1>3 DEF Takes, JobGo, JobStep, PlanOK, MachineOK, planVars, JobAt
<1>4. CASE Claims
  <2>1. PlanOK'
    BY <1>1, <1>4, MarkKeepsPlan DEF Claims, MachineOK, RowStatus
  <2>2. CASE JobGo("writes", job.row)
    BY <1>1, <1>4, <2>1, <2>2 DEF Claims, JobGo, JobStep, JobAt, MachineOK
  <2>3. CASE job' = Idle
    BY <1>4, <2>1, <2>3 DEF Claims, JobStep, Idle, JobAt, MachineOK
  <2> QED
    BY <1>4, <2>2, <2>3 DEF Claims
<1>5. CASE Publishes \/ PublishesUnheard
  <2>1. live' \subseteq Rows /\ liveAt' \in [Rows -> Times]
    BY <1>1, <1>5 DEF Publishes, PublishesUnheard, GoesLive, MachineOK, Times
  <2> QED
    BY <1>1, <1>5, <2>1 DEF Publishes, PublishesUnheard, JobGo, JobStep, PlanOK, MachineOK, planVars, JobAt
<1>6. CASE PublishesNot
  BY <1>1, <1>6 DEF PublishesNot, JobGo, JobStep, PlanOK, MachineOK, planVars, JobAt
<1>7. CASE Records
  <2>1. PlanOK'
    <3>1. job.at \in RowStatus /\ job.row \in Rows /\ Mark(job.row, job.at, FALSE)
      BY <1>1, <1>7 DEF Records, RowStatus
    <3> QED
      BY <3>1, MarkKeepsPlan DEF MachineOK
  <2> QED
    BY <1>7, <2>1 DEF Records, JobStep, Idle, JobAt, MachineOK
<1>8. CASE WorkerDies
  BY <1>8 DEF WorkerDies, Idle, JobAt, PlanOK, MachineOK, planVars
<1> QED
  BY <1>2, <1>3, <1>4, <1>5, <1>6, <1>7, <1>8 DEF WorkerStep

(* So do the screen, the changes that are carried out, and the clock.         *)
LEMMA WebKeepsTypes ==
  ASSUME ApprovalsTypeOK, StepInv, PlanOK, MachineOK, WebStep \/ Tick
  PROVE  PlanOK' /\ MachineOK'
<1> USE ArticlesAssumption
<1>1. ASSUME NEW r \in Rows, Removes(r) \/ Renumbers
      PROVE  PlanOK'
  BY <1>1 DEF Removes, Renumbers, PlanOK, RowStatus
<1>2. ASSUME NEW r \in Rows, Edits(r)
      PROVE  PlanOK' /\ MachineOK'
  <2>1. MachineOK'
    BY <1>2 DEF Edits, MachineOK
  <2> QED
    BY <1>1, <1>2, <2>1, PlansKeepsPlan DEF Edits
<1>3. ASSUME UNCHANGED planVars, Leaves
      PROVE  PlanOK' /\ MachineOK'
  BY <1>3 DEF Leaves, PlanOK, MachineOK, planVars
<1>4. CASE Queues \/ (\E p \in Deciders, a \in Proposals : Approved(p, a))
  BY <1>3, <1>4 DEF Queues, Approved
<1>5. ASSUME NEW p \in Deciders, RunRefuses(p) \/ RunLooks(p)
      PROVE  PlanOK' /\ MachineOK'
  BY <1>3, <1>5 DEF RunRefuses, RunLooks
<1>6. ASSUME NEW p \in Deciders, NEW t \in Tasks \X Rows, RunPlans(p, t) \/ RunMisses(p, t)
      PROVE  PlanOK' /\ MachineOK'
  <2>1. CASE RunMisses(p, t)
    BY <1>3, <2>1 DEF RunMisses
  <2>2. CASE RunPlans(p, t)
    <3>1. t[2] \in Rows /\ (t[1] # "topic") \in BOOLEAN
      OBVIOUS
    <3>2. PlanOK'
      BY <1>1, <2>2, <3>1, PlansKeepsPlan DEF RunPlans
    <3> QED
      BY <2>2, <3>2 DEF RunPlans, Leaves, MachineOK
  <2> QED
    BY <1>6, <2>1, <2>2
<1>7. ASSUME NEW p \in Deciders, NEW r \in Rows, RunTakesOff(p, r) \/ RunFails(p, r)
      PROVE  PlanOK' /\ MachineOK'
  <2>1. PlanOK'
    BY <1>7 DEF RunTakesOff, RunFails, PlanOK, planVars
  <2>2. live' \subseteq live /\ UNCHANGED <<job, clock, liveAt, edits>>
    BY <1>7 DEF RunTakesOff, RunFails
  <2>3. faults' = faults \/ (faults < MaxFaults /\ faults' = faults + 1)
    BY <1>7 DEF RunTakesOff, RunFails
  <2>4. faults \in 0..MaxFaults
    BY DEF MachineOK
  <2>5. faults' \in 0..MaxFaults
    BY <2>3, <2>4
  <2> QED
    BY <2>1, <2>2, <2>5 DEF MachineOK
<1>8. ASSUME NEW p \in Deciders, NEW r \in Rows, RunMarksOff(p, r)
      PROVE  PlanOK' /\ MachineOK'
  BY <1>8, MarkKeepsPlan DEF RunMarksOff, Leaves, MachineOK, RowStatus
<1>10. ASSUME NEW p \in Deciders, RunEnds(p)
      PROVE  PlanOK' /\ MachineOK'
  <2>1. CASE UNCHANGED planVars
    BY <1>3, <1>10, <2>1 DEF RunEnds
  <2>2. CASE Renumbers
    BY <1>10, <2>2 DEF RunEnds, Renumbers, Leaves, PlanOK, MachineOK
  <2> QED
    BY <1>10, <2>1, <2>2 DEF RunEnds
<1>9. CASE ServerDies \/ Tick
  BY <1>9 DEF ServerDies, Tick, PlanOK, MachineOK, planVars
<1> QED
  BY <1>2, <1>4, <1>5, <1>6, <1>7, <1>8, <1>9, <1>10 DEF WebStep

(* The plan, the queue, the job, the website and the clock keep their types   *)
(* (plan.py, job.py, core/approvals.py).                                      *)
THEOREM TypeInvHolds == Spec => []TypeInv
<1>1. Init => TypeInv
  <2> SUFFICES ASSUME Init PROVE PlanOK /\ MachineOK /\ QueueInv
    BY DEF TypeInv
  <2>1. PlanOK /\ MachineOK
    BY ArticlesAssumption DEF Init, PlanOK, MachineOK, RowStatus, Times, Idle, JobAt
  <2>2. QueueInv
    BY ApprovalsAssumption
       DEF Init, ApprovalsInit, QueueInv, ApprovalsTypeOK, StepInv, RunOnce, InHandIsApproved,
           Statuses, Undecided, Final
  <2> QED
    BY <2>1, <2>2
<1>2. TypeInv /\ [Next]_vars => TypeInv'
  <2> SUFFICES ASSUME TypeInv, [Next]_vars PROVE TypeInv'
    OBVIOUS
  <2>1. QueueInv'
    BY StepsAreMoves, QueueKeeps DEF TypeInv, QueueInv
  <2>2. CASE UNCHANGED vars
    BY <2>1, <2>2 DEF vars, planVars, TypeInv, PlanOK, MachineOK
  <2> QED
    BY <2>1, <2>2, WorkerKeepsTypes, WebKeepsTypes DEF Next, TypeInv, QueueInv
<1> QED
  BY <1>1, <1>2, PTL DEF Spec

(* Every variable of the machine has its type.                               *)
THEOREM ArticlesTypeCorrect == Spec => []TypeOK
BY TypeInvHolds, TypeParts, PTL DEF TypeInv
-----------------------------------------------------------------------------
(* The weekly number.  But for the articles whose answer the box never had (U, *)
(* one for each fault), whatever is on the website went there a pace after    *)
(* whatever was there before, and what goes there next does so too: the plan's *)
(* first day, which the pace is counted from, is never before the website's.  *)
Pace == Week \div Cap

Heard(U) == {r \in Rows \ U : status[r] # "gone" /\ liveAt[r] # Never}

Dated(U) ==
  \A r \in Heard(U) :
    /\ liveAt[r] <= clock
    /\ firstAt[r] # Never => liveAt[r] <= firstAt[r]
    /\ firstAt[r] = Never => job.at = "published" /\ job.row = r
Apart(U) ==
  \A r, q \in Heard(U) : r # q => liveAt[r] >= liveAt[q] + Pace \/ liveAt[q] >= liveAt[r] + Pace
NextIsApart(U) ==
  (job.at \in {"taken", "writes"} /\ status[job.row] # "gone" /\ liveAt[job.row] = Never)
    => \A q \in Heard(U) : clock >= liveAt[q] + Pace
Spaced(U) == Dated(U) /\ Apart(U) /\ NextIsApart(U)

OnSiteInv ==
  /\ \A r \in url : liveAt[r] # Never
  /\ \A r \in Rows : firstAt[r] # Never => liveAt[r] # Never
  /\ job.at = "published" => liveAt[job.row] # Never
WeekInv == OnSiteInv /\ \E U \in SUBSET Rows : Cardinality(U) <= faults /\ Spaced(U)

(* What most steps do to all this: nothing, but for rows that go and time that *)
(* passes.                                                                    *)
JobMoves ==
  \/ job' = job
  \/ job.at # "published" /\ job'.at \in {"rest", "refused", "failed"}
  \/ job.at = "taken" /\ job' = [at |-> "writes", row |-> job.row]
PlanQuiet ==
  /\ firstAt' = firstAt /\ url' = url
  /\ \A r \in Rows : status[r] = "gone" => status'[r] = "gone"
Quiet ==
  /\ PlanQuiet /\ JobMoves /\ liveAt' = liveAt
  /\ clock' \in Nat /\ clock' >= clock /\ faults' \in Nat /\ faults' >= faults

LEMMA NumbersOK ==
  ASSUME MachineOK
  PROVE  /\ clock \in Nat /\ faults \in Nat /\ faults + 1 \in Nat /\ clock + 1 \in Nat
         /\ job.at # "rest" => job.row \in Rows
BY ArticlesAssumption DEF MachineOK

LEMMA PaceIsPositive == Pace \in Nat \ {0} /\ Week = Cap * Pace
BY ArticlesAssumption DEF ArticlesAssumption, Pace

LEMMA MarkIsQuiet ==
  ASSUME PlanOK, NEW r, NEW to \in RowStatus \ {"published", "gone"}, NEW unpublished \in BOOLEAN,
         Mark(r, to, unpublished)
  PROVE  PlanQuiet
<1>1. CASE UNCHANGED planVars
  BY <1>1 DEF PlanQuiet, planVars
<1>2. CASE status[r] # "gone"
  <2>1. firstAt' = firstAt
    BY <1>2 DEF Mark, PlanOK
  <2> QED
    BY <1>2, <2>1 DEF Mark, PlanOK, PlanQuiet
<1> QED
  BY <1>1, <1>2 DEF Mark

LEMMA PlansIsQuiet ==
  ASSUME PlanOK, NEW r, NEW now \in BOOLEAN, status[r] # "gone", Plans(r, now)
  PROVE  PlanQuiet
BY DEF PlanOK, Plans, PlanQuiet

(* The worker's steps that are quiet.                                         *)
LEMMA WorkerIsQuiet ==
  ASSUME PlanOK, MachineOK,
         \/ \E r \in Rows : ReleaseStale(r)
         \/ Claims \/ PublishesNot
         \/ (Records \/ WorkerDies) /\ job.at # "published"
  PROVE  Quiet
<1> USE NumbersOK
<1>1. ASSUME NEW r \in Rows, ReleaseStale(r)
      PROVE  Quiet
  <2>1. PlanQuiet
    BY <1>1, MarkIsQuiet DEF ReleaseStale, RowStatus
  <2> QED
    BY <1>1, <2>1 DEF ReleaseStale, JobStep, Quiet, JobMoves
<1>2. CASE Claims
  <2>1. PlanQuiet
    BY <1>2, MarkIsQuiet DEF Claims, RowStatus
  <2>2. job' = [at |-> "writes", row |-> job.row] \/ job' = Idle
    BY <1>2 DEF Claims, JobGo
  <2>3. Idle.at = "rest"
    BY DEF Idle
  <2>4. JobMoves
    BY <1>2, <2>2, <2>3 DEF Claims, JobMoves
  <2> QED
    BY <1>2, <2>1, <2>4 DEF Claims, JobStep, Quiet
<1>3. CASE PublishesNot
  BY <1>3 DEF PublishesNot, JobGo, JobStep, Quiet, JobMoves, PlanQuiet, planVars
<1>4. CASE Records /\ job.at # "published"
  <2>1. job.at \in RowStatus \ {"published", "gone"} /\ Mark(job.row, job.at, FALSE)
    BY <1>4 DEF Records, RowStatus
  <2>2. PlanQuiet
    BY <2>1, MarkIsQuiet
  <2> QED
    BY <1>4, <2>2 DEF Records, JobStep, Idle, Quiet, JobMoves
<1>5. CASE WorkerDies /\ job.at # "published"
  BY <1>5 DEF WorkerDies, Idle, Quiet, JobMoves, PlanQuiet, planVars
<1> QED
  BY <1>1, <1>2, <1>3, <1>4, <1>5

(* And all that the web process does, and the clock.                          *)
LEMMA WebIsQuiet ==
  ASSUME ApprovalsTypeOK, PlanOK, MachineOK, WebStep \/ Tick
  PROVE  Quiet
<1> USE NumbersOK
<1>0. ASSUME PlanQuiet, Leaves
      PROVE  Quiet
  BY <1>0 DEF Leaves, Quiet, JobMoves
<1>1. ASSUME UNCHANGED planVars
      PROVE  PlanQuiet
  BY <1>1 DEF PlanQuiet, planVars
<1>10. ASSUME NEW r, Removes(r) \/ Renumbers
      PROVE  PlanQuiet
  BY <1>10 DEF Removes, Renumbers, PlanOK, PlanQuiet
<1>2. ASSUME NEW r \in Rows, Edits(r)
      PROVE  Quiet
  <2>1. CASE (MayAdd(r) /\ Plans(r, FALSE)) \/ (MayRequest(r) /\ Plans(r, TRUE))
    <3>1. PlanQuiet
      BY <2>1, PlansIsQuiet DEF MayAdd, MayRequest
    <3> QED
      BY <1>2, <3>1 DEF Edits, Quiet, JobMoves
  <2>2. CASE Removes(r) \/ Renumbers
    BY <1>2, <1>10, <2>2 DEF Edits, Quiet, JobMoves
  <2> QED
    BY <1>2, <2>1, <2>2 DEF Edits
<1>3. CASE Queues \/ (\E p \in Deciders, a \in Proposals : Approved(p, a))
  BY <1>0, <1>1, <1>3 DEF Queues, Approved
<1>4. ASSUME NEW p \in Deciders, RunRefuses(p) \/ RunLooks(p)
      PROVE  Quiet
  BY <1>0, <1>1, <1>4 DEF RunRefuses, RunLooks
<1>5. ASSUME NEW p \in Deciders, NEW t \in Tasks \X Rows, RunPlans(p, t) \/ RunMisses(p, t)
      PROVE  Quiet
  <2>1. CASE RunMisses(p, t)
    BY <1>0, <1>1, <2>1 DEF RunMisses
  <2>2. CASE RunPlans(p, t) /\ t[1] = "off"
    BY <1>0, <1>10, <2>2 DEF RunPlans
  <2>3. CASE RunPlans(p, t) /\ t[1] # "off"
    <3>1. status[t[2]] # "gone"
      BY <2>3 DEF RunPlans, May, MayAdd, MayRequest, MayRewrite
    <3>2. (t[1] # "topic") \in BOOLEAN /\ Plans(t[2], t[1] # "topic")
      BY <2>3 DEF RunPlans
    <3>3. PlanQuiet
      BY <3>1, <3>2, PlansIsQuiet
    <3> QED
      BY <1>0, <2>3, <3>3 DEF RunPlans
  <2> QED
    BY <1>5, <2>1, <2>2, <2>3
<1>6. ASSUME NEW p \in Deciders, NEW r \in Rows, RunTakesOff(p, r) \/ RunFails(p, r)
      PROVE  Quiet
  <2>1. PlanQuiet /\ UNCHANGED <<job, clock, liveAt>>
    BY <1>1, <1>6 DEF RunTakesOff, RunFails
  <2>2. faults' = faults \/ faults' = faults + 1
    BY <1>6 DEF RunTakesOff, RunFails
  <2> QED
    BY <2>1, <2>2 DEF Quiet, JobMoves
<1>7. ASSUME NEW p \in Deciders, NEW r \in Rows, RunMarksOff(p, r)
      PROVE  Quiet
  BY <1>0, <1>7, MarkIsQuiet DEF RunMarksOff, RowStatus
<1>9. ASSUME NEW p \in Deciders, RunEnds(p)
      PROVE  Quiet
  BY <1>0, <1>1, <1>9, <1>10 DEF RunEnds
<1>8. CASE ServerDies \/ Tick
  BY <1>1, <1>8 DEF ServerDies, Tick, Quiet, JobMoves
<1> QED
  BY <1>2, <1>3, <1>4, <1>5, <1>6, <1>7, <1>8, <1>9 DEF WebStep

LEMMA QuietKeepsApart ==
  ASSUME PlanOK, MachineOK, WeekInv, Quiet
  PROVE  WeekInv'
<1> USE NumbersOK
<1>1. PICK U \in SUBSET Rows : Cardinality(U) <= faults /\ Spaced(U)
  BY DEF WeekInv
<1>2. Heard(U)' \subseteq Heard(U)
  BY DEF Heard, Quiet, PlanQuiet
<1>3. Dated(U)' /\ Apart(U)'
  <2>1. \A r \in Rows : liveAt[r] \in Int
    BY ArticlesAssumption DEF MachineOK, Times, Never
  <2>2. \A r \in Heard(U) : r \in Rows
    BY DEF Heard
  <2>3. Dated(U)'
    BY <1>1, <1>2, <2>1, <2>2 DEF Spaced, Dated, Quiet, PlanQuiet, JobMoves
  <2> QED
    BY <1>1, <1>2, <2>3 DEF Spaced, Apart, Quiet
<1>4. NextIsApart(U)'
  <2> SUFFICES ASSUME job'.at \in {"taken", "writes"}, status'[job'.row] # "gone",
                      liveAt'[job'.row] = Never, NEW q \in Heard(U)'
               PROVE  clock' >= liveAt'[q] + Pace
    BY DEF NextIsApart
  <2>1. job.at \in {"taken", "writes"} /\ job'.row = job.row /\ job.row \in Rows
    BY DEF Quiet, JobMoves
  <2>2. status[job.row] # "gone" /\ liveAt[job.row] = Never
    BY <2>1 DEF Quiet, PlanQuiet
  <2>3. clock >= liveAt[q] + Pace
    BY <1>1, <1>2, <2>1, <2>2 DEF Spaced, NextIsApart
  <2>4. q \in Rows /\ liveAt[q] \in Int
    BY ArticlesAssumption DEF Heard, MachineOK, Times, Never
  <2> QED
    BY <2>3, <2>4, PaceIsPositive DEF Quiet
<1>5. OnSiteInv'
  BY DEF WeekInv, OnSiteInv, Quiet, PlanQuiet, JobMoves
<1>6. Cardinality(U) <= faults'
  BY <1>1, FS_Subset, FS_CardinalityType, ArticlesAssumption DEF Quiet
<1> QED
  BY <1>1, <1>3, <1>4, <1>5, <1>6 DEF WeekInv, Spaced

(* A row is taken that is on the website already, or when the pace allows it.  *)
LEMMA TakesKeepsApart ==
  ASSUME PlanOK, MachineOK, WeekInv, NEW r \in Rows, Takes(r)
  PROVE  WeekInv'
<1> USE NumbersOK
<1>1. PICK U \in SUBSET Rows : Cardinality(U) <= faults /\ Spaced(U)
  BY DEF WeekInv
<1>2. /\ UNCHANGED <<planVars, liveAt, clock, faults>> /\ job.at = "rest"
      /\ job' = [at |-> "taken", row |-> r]
  BY DEF Takes, JobGo, JobStep
<1>3. Heard(U)' = Heard(U)
  BY <1>2 DEF Heard, planVars
<1>4. Dated(U)' /\ Apart(U)'
  BY <1>1, <1>2, <1>3 DEF Spaced, Dated, Apart, planVars
<1>5. NextIsApart(U)'
  <2> SUFFICES ASSUME liveAt[r] = Never, NEW q \in Heard(U)
               PROVE  clock >= liveAt[q] + Pace
    BY <1>2, <1>3 DEF NextIsApart
  <2>1. ~IsRewrite(r)
    BY DEF IsRewrite, WeekInv, OnSiteInv
  <2>2. Paced
    BY <2>1 DEF Takes, MayPublishNew
  <2>3. q \in Rows /\ status[q] # "gone" /\ firstAt[q] # Never /\ liveAt[q] <= firstAt[q]
    BY <1>1, <1>2 DEF Heard, Spaced, Dated
  <2>4. clock >= firstAt[q] + Pace
    BY <2>2, <2>3 DEF Paced, Pace
  <2>5. firstAt[q] \in Int /\ liveAt[q] \in Int
    BY <2>3, ArticlesAssumption DEF PlanOK, MachineOK, Times, Never
  <2> QED
    BY <2>3, <2>4, <2>5, PaceIsPositive
<1>6. OnSiteInv'
  BY <1>2 DEF WeekInv, OnSiteInv, planVars
<1> QED
  BY <1>1, <1>2, <1>4, <1>5, <1>6 DEF WeekInv, Spaced

(* What goes on the website goes there a pace after the rest, or was there.    *)
LEMMA GoesLiveFacts ==
  ASSUME MachineOK, job.at = "writes", GoesLive(job.row)
  PROVE  /\ \A q \in Rows : q # job.row \/ liveAt[q] # Never => liveAt'[q] = liveAt[q]
         /\ liveAt[job.row] = Never => liveAt'[job.row] = clock
         /\ \A q \in Rows : liveAt[q] # Never => liveAt'[q] # Never
         /\ liveAt'[job.row] # Never
BY NumbersOK, ArticlesAssumption DEF GoesLive, MachineOK, Never

LEMMA PublishesKeepsApart ==
  ASSUME PlanOK, MachineOK, WeekInv, Publishes
  PROVE  WeekInv'
<1> USE NumbersOK
<1> DEFINE r == job.row
<1>1. PICK U \in SUBSET Rows : Cardinality(U) <= faults /\ Spaced(U)
  BY DEF WeekInv
<1>2. /\ UNCHANGED <<planVars, clock, faults>> /\ job.at = "writes" /\ r \in Rows
      /\ job' = [at |-> "published", row |-> r] /\ GoesLive(r)
  BY DEF Publishes, JobGo, JobStep
<1> HIDE DEF r
<1>3. /\ \A q \in Rows : q # r \/ liveAt[q] # Never => liveAt'[q] = liveAt[q]
      /\ liveAt[r] = Never => liveAt'[r] = clock
      /\ \A q \in Rows : liveAt[q] # Never => liveAt'[q] # Never
      /\ liveAt'[r] # Never
  BY <1>2, GoesLiveFacts DEF r
<1>4. Heard(U) \subseteq Heard(U)' /\ Heard(U)' \subseteq Heard(U) \union {r}
      /\ (liveAt[r] # Never => Heard(U)' = Heard(U))
  BY <1>2, <1>3 DEF Heard, planVars
<1>5. \A q \in Heard(U) : liveAt'[q] = liveAt[q] /\ liveAt[q] \in Int /\ q \in Rows
  BY <1>3, ArticlesAssumption DEF Heard, MachineOK, Times, Never
<1>6. liveAt[r] = Never /\ r \in Heard(U)' => \A q \in Heard(U) : clock >= liveAt[q] + Pace
  BY <1>1, <1>2 DEF Spaced, NextIsApart, Heard, planVars, r
<1>7. Dated(U)'
  <2> SUFFICES ASSUME NEW q \in Heard(U)'
               PROVE  /\ liveAt'[q] <= clock
                      /\ firstAt[q] # Never => liveAt'[q] <= firstAt[q]
                      /\ firstAt[q] = Never => q = r
    BY <1>2 DEF Dated, planVars
  <2>1. CASE q \in Heard(U)
    BY <1>1, <1>2, <1>5, <2>1 DEF Spaced, Dated
  <2>2. CASE q \notin Heard(U)
    <3>1. q = r /\ liveAt[r] = Never /\ liveAt'[r] = clock /\ firstAt[r] = Never
      BY <1>2, <1>3, <1>4, <2>2 DEF WeekInv, OnSiteInv, r
    <3> QED
      BY <3>1
  <2> QED
    BY <2>1, <2>2
<1>8. Apart(U)'
  <2> SUFFICES ASSUME NEW p \in Heard(U)', NEW q \in Heard(U)', p # q
               PROVE  liveAt'[p] >= liveAt'[q] + Pace \/ liveAt'[q] >= liveAt'[p] + Pace
    BY DEF Apart
  <2>1. CASE p \in Heard(U) /\ q \in Heard(U)
    BY <1>1, <1>5, <2>1 DEF Spaced, Apart
  <2>2. CASE p \notin Heard(U)
    BY <1>3, <1>4, <1>5, <1>6, <2>2
  <2>3. CASE q \notin Heard(U)
    BY <1>3, <1>4, <1>5, <1>6, <2>3
  <2> QED
    BY <2>1, <2>2, <2>3
<1>9. OnSiteInv'
  <2>1. \A q \in url : q \in Rows /\ liveAt'[q] # Never
    BY <1>3 DEF WeekInv, OnSiteInv, PlanOK
  <2>2. \A q \in Rows : firstAt[q] # Never => liveAt'[q] # Never
    BY <1>3 DEF WeekInv, OnSiteInv
  <2> QED
    BY <1>2, <1>3, <2>1, <2>2 DEF OnSiteInv, planVars
<1> QED
  BY <1>1, <1>2, <1>7, <1>8, <1>9 DEF WeekInv, Spaced, NextIsApart

(* An answer that is lost, or a death with the answer in hand, is a fault, and *)
(* the fault stands for that one article.                                     *)
LEMMA FaultKeepsApart ==
  ASSUME PlanOK, MachineOK, WeekInv, NEW r \in Rows,
         UNCHANGED planVars, clock' = clock, faults' = faults + 1,
         \A q \in Rows : q # r => liveAt'[q] = liveAt[q],
         \A q \in Rows : liveAt[q] # Never => liveAt'[q] # Never,
         job'.at \in {"rest", "failed"},
         job.at = "published" => job.row = r
  PROVE  WeekInv'
<1> USE NumbersOK
<1>1. PICK U \in SUBSET Rows : Cardinality(U) <= faults /\ Spaced(U)
  BY DEF WeekInv
<1> DEFINE V == U \union {r}
<1>2. V \in SUBSET Rows /\ Cardinality(V) <= faults'
  <2>1. IsFiniteSet(U)
    BY FS_Subset, ArticlesAssumption
  <2>2. Cardinality(U) \in Nat
    BY <2>1, FS_CardinalityType
  <2> QED
    <3>1. V \in SUBSET Rows
      OBVIOUS
    <3>2. Cardinality(V) = IF r \in U THEN Cardinality(U) ELSE Cardinality(U) + 1
      BY <2>1, FS_AddElement
    <3> HIDE DEF V
    <3>3. Cardinality(V) <= faults + 1
      BY <1>1, <2>2, <3>2
    <3> QED
      BY <3>1, <3>3
<1>3. Heard(V)' \subseteq Heard(U) \ {r}
  BY DEF Heard, planVars
<1>4. \A q \in Heard(V)' : liveAt'[q] = liveAt[q] /\ q \in Heard(U) /\ q # r
  BY <1>3 DEF Heard
<1> HIDE DEF V
<1>5. Spaced(V)'
  <2>1. Dated(V)'
    BY <1>1, <1>4 DEF Spaced, Dated, planVars
  <2>2. Apart(V)'
    BY <1>1, <1>4 DEF Spaced, Apart
  <2> QED
    BY <2>1, <2>2 DEF Spaced, NextIsApart
<1>6. OnSiteInv'
  BY DEF WeekInv, OnSiteInv, PlanOK, planVars
<1> QED
  BY <1>2, <1>5, <1>6 DEF WeekInv

(* An answer that is written down dates the article no earlier than it was on  *)
(* the website.                                                               *)
LEMMA RecordsKeepsApart ==
  ASSUME PlanOK, MachineOK, WeekInv, Records, job.at = "published"
  PROVE  WeekInv'
<1> USE NumbersOK
<1> DEFINE r == job.row
<1>1. PICK U \in SUBSET Rows : Cardinality(U) <= faults /\ Spaced(U)
  BY DEF WeekInv
<1>2. /\ UNCHANGED <<liveAt, clock, faults>> /\ r \in Rows /\ job' = Idle /\ liveAt[r] # Never
      /\ Mark(r, "published", FALSE)
  BY DEF Records, JobStep, WeekInv, OnSiteInv
<1>3. /\ \A q \in Rows : status[q] = "gone" => status'[q] = "gone"
      /\ \A q \in Rows : firstAt[q] # Never => firstAt'[q] = firstAt[q]
      /\ status[r] # "gone" /\ firstAt[r] = Never => firstAt'[r] = clock
      /\ \A q \in Rows : q # r => firstAt'[q] = firstAt[q]
      /\ \A q \in url' : q \in Rows /\ (q \in url \/ q = r)
  <2>1. CASE UNCHANGED planVars /\ status[r] = "gone"
    BY <2>1 DEF planVars, PlanOK
  <2>2. CASE status[r] # "gone"
    BY <1>2, <2>2 DEF Mark, PlanOK
  <2> QED
    BY <1>2, <2>1, <2>2 DEF Mark
<1> HIDE DEF r
<1>4. Heard(U)' \subseteq Heard(U)
  BY <1>2, <1>3 DEF Heard
<1>5. Dated(U)'
  <2> SUFFICES ASSUME NEW q \in Heard(U)
               PROVE  /\ liveAt[q] <= clock
                      /\ firstAt'[q] # Never /\ liveAt[q] <= firstAt'[q]
    BY <1>2, <1>4 DEF Dated
  <2>1. q \in Rows /\ status[q] # "gone" /\ liveAt[q] <= clock
    BY <1>1 DEF Heard, Spaced, Dated
  <2>2. CASE firstAt[q] # Never
    BY <1>1, <1>3, <2>1, <2>2 DEF Spaced, Dated
  <2>3. CASE firstAt[q] = Never
    <3>1. q = r
      BY <1>1, <2>3 DEF Spaced, Dated, r
    <3>2. firstAt'[q] = clock
      BY <1>3, <2>1, <2>3, <3>1
    <3> QED
      BY <2>1, <3>2 DEF Never
  <2> QED
    BY <2>2, <2>3
<1>6. Apart(U)'
  BY <1>1, <1>2, <1>4 DEF Spaced, Apart
<1>7. OnSiteInv'
  <2>1. \A q \in url' : liveAt'[q] # Never
    BY <1>2, <1>3 DEF WeekInv, OnSiteInv
  <2>2. \A q \in Rows : firstAt'[q] # Never => liveAt'[q] # Never
    BY <1>2, <1>3 DEF WeekInv, OnSiteInv
  <2> QED
    BY <1>2, <2>1, <2>2 DEF OnSiteInv, Idle
<1>8. NextIsApart(U)'
  BY <1>2 DEF NextIsApart, Idle
<1> QED
  BY <1>1, <1>2, <1>5, <1>6, <1>7, <1>8 DEF WeekInv, Spaced

LEMMA WeekInductive ==
  ASSUME TypeInv, WeekInv, [Next]_vars
  PROVE  WeekInv'
<1> USE DEF TypeInv
<1>1. CASE UNCHANGED vars
  BY <1>1, NumbersOK, QuietKeepsApart DEF vars, planVars, Quiet, PlanQuiet, JobMoves
<1>2. CASE WebStep \/ Tick
  BY <1>2, WebIsQuiet, QuietKeepsApart DEF QueueInv
<1>3. ASSUME NEW r \in Rows, ReleaseStale(r) \/ Takes(r)
      PROVE  WeekInv'
  BY <1>3, WorkerIsQuiet, QuietKeepsApart, TakesKeepsApart
<1>4. CASE Claims \/ PublishesNot \/ ((Records \/ WorkerDies) /\ job.at # "published")
  BY <1>4, WorkerIsQuiet, QuietKeepsApart
<1>5. CASE Publishes
  BY <1>5, PublishesKeepsApart
<1>6. CASE PublishesUnheard
  <2>1. /\ job.row \in Rows /\ UNCHANGED planVars /\ clock' = clock /\ faults' = faults + 1
        /\ job'.at = "failed" /\ job.at = "writes" /\ GoesLive(job.row)
    BY <1>6, NumbersOK DEF PublishesUnheard, JobGo
  <2>2. /\ \A q \in Rows : q # job.row => liveAt'[q] = liveAt[q]
        /\ \A q \in Rows : liveAt[q] # Never => liveAt'[q] # Never
    BY <2>1, GoesLiveFacts
  <2> QED
    BY <2>1, <2>2, FaultKeepsApart
<1>7. CASE WorkerDies /\ job.at = "published"
  <2>1. /\ job.row \in Rows /\ UNCHANGED <<planVars, liveAt>> /\ clock' = clock
        /\ faults' = faults + 1 /\ job'.at = "rest"
    BY <1>7, NumbersOK DEF WorkerDies, Idle
  <2> QED
    BY <2>1, FaultKeepsApart
<1>8. CASE Records /\ job.at = "published"
  BY <1>8, RecordsKeepsApart
<1> QED
  BY <1>1, <1>2, <1>3, <1>4, <1>5, <1>6, <1>7, <1>8 DEF Next, WorkerStep

(* Days a pace apart fall in paces of their own, and a week has as many paces  *)
(* as the weekly number.                                                      *)
LEMMA PacesApart ==
  ASSUME NEW x \in Nat, NEW y \in Nat, x >= y + Pace
  PROVE  x \div Pace # y \div Pace
<1> HIDE DEF Pace
<1>1. ASSUME NEW n \in Nat
      PROVE  n \div Pace \in Nat /\ (n \div Pace) * Pace <= n /\ n < (n \div Pace) * Pace + Pace
  BY PaceIsPositive
<1> QED
  BY <1>1, PaceIsPositive

LEMMA PacesInAWeek ==
  ASSUME NEW x \in Nat, x < Week
  PROVE  x \div Pace \in 0 .. (Cap - 1)
<1> HIDE DEF Pace
<1>1. x \div Pace \in Nat /\ (x \div Pace) * Pace <= x
  BY PaceIsPositive
<1>2. Cap \in Nat \ {0} /\ x < Cap * Pace
  BY PaceIsPositive, ArticlesAssumption
<1>3. x \div Pace < Cap
  BY <1>1, <1>2, PaceIsPositive
<1> QED
  BY <1>1, <1>2, <1>3

LEMMA WeekBound == TypeInv /\ WeekInv => WithinTheWeek
<1> SUFFICES ASSUME TypeInv, WeekInv PROVE WithinTheWeek
  OBVIOUS
<1> USE NumbersOK DEF TypeInv
<1>1. PICK U \in SUBSET Rows : Cardinality(U) <= faults /\ Spaced(U)
  BY DEF WeekInv
<1> DEFINE Recent == {r \in Rows : status[r] # "gone" /\ liveAt[r] # Never /\ liveAt[r] > clock - Week}
           H == {r \in Heard(U) : liveAt[r] > clock - Week}
           f == [r \in H |-> (clock - liveAt[r]) \div Pace]
<1>2. \A r \in H : clock - liveAt[r] \in Nat /\ clock - liveAt[r] < Week /\ liveAt[r] \in Int
  BY <1>1, ArticlesAssumption DEF Heard, Spaced, Dated, MachineOK, Times, Never
<1>3. \A r \in H : f[r] \in 0 .. (Cap - 1)
  BY <1>2, PacesInAWeek
<1>4. \A r, q \in H : f[r] = f[q] => r = q
  <2> SUFFICES ASSUME NEW r \in H, NEW q \in H, r # q
               PROVE  (clock - liveAt[r]) \div Pace # (clock - liveAt[q]) \div Pace
    OBVIOUS
  <2>1. clock - liveAt[q] >= (clock - liveAt[r]) + Pace \/ clock - liveAt[r] >= (clock - liveAt[q]) + Pace
    BY <1>1, <1>2, PaceIsPositive DEF Spaced, Apart
  <2> QED
    BY <1>2, <2>1, PacesApart
<1>5. IsFiniteSet(H) /\ Cardinality(H) <= Cap
  <2> HIDE DEF H
  <2>1. f \in Injection(H, 0 .. (Cap - 1))
    BY <1>3, <1>4 DEF Injection, IsInjective
  <2>2. IsFiniteSet(0 .. (Cap - 1)) /\ Cardinality(0 .. (Cap - 1)) = Cap
    <3>1. 0 \in Int /\ Cap - 1 \in Int /\ ~(0 > Cap - 1) /\ (Cap - 1) - 0 + 1 = Cap
      BY ArticlesAssumption
    <3>2. /\ IsFiniteSet(0 .. (Cap - 1))
          /\ Cardinality(0 .. (Cap - 1)) = IF 0 > Cap - 1 THEN 0 ELSE (Cap - 1) - 0 + 1
      BY <3>1, FS_Interval
    <3> QED
      BY <3>1, <3>2
  <2> HIDE DEF f
  <2> QED
    BY <2>1, <2>2, FS_Injection
<1>6. IsFiniteSet(U) /\ Cardinality(U) \in Nat /\ Cardinality(H) \in Nat
  BY <1>5, FS_Subset, FS_CardinalityType, ArticlesAssumption
<1>7. Recent \subseteq H \union U
  BY DEF Heard
<1> HIDE DEF H, f
<1>8. IsFiniteSet(H \union U) /\ Cardinality(H \union U) <= Cardinality(H) + Cardinality(U)
  <2>1. IsFiniteSet(H \cap U) /\ Cardinality(H \cap U) \in Nat
    BY <1>5, FS_Intersection, FS_CardinalityType
  <2> QED
    <3>1. /\ IsFiniteSet(H \union U)
          /\ Cardinality(H \union U) = Cardinality(H) + Cardinality(U) - Cardinality(H \cap U)
      BY <1>5, <1>6, FS_Union
    <3> QED
      BY <1>6, <2>1, <3>1
<1>9. Cardinality(Recent) <= Cardinality(H \union U)
  BY <1>7, <1>8, FS_Subset
<1>10. Cardinality(Recent) \in Nat /\ Cardinality(H \union U) \in Nat
  BY <1>7, <1>8, FS_Subset, FS_CardinalityType
<1>11. Cardinality(Recent) <= Cap + faults
  BY <1>1, <1>5, <1>6, <1>8, <1>9, <1>10, ArticlesAssumption
<1> QED
  BY <1>11 DEF WithinTheWeek

(* New articles on the website in a rolling week, for any weekly number: never *)
(* more than the number and one for each answer the box never had, whatever    *)
(* the owner, the approvals and the deaths in between make of the plan        *)
(* (job.py next_at, plan.py mark).                                            *)
THEOREM WeekHeld == Spec => []WithinTheWeek
<1>1. Init => WeekInv
  <2> SUFFICES ASSUME Init PROVE WeekInv
    OBVIOUS
  <2>1. Heard({}) = {}
    BY DEF Init, Heard
  <2>2. Spaced({})
    BY <2>1 DEF Spaced, Dated, Apart, NextIsApart
  <2>3. OnSiteInv
    BY DEF Init, OnSiteInv, Idle
  <2> QED
    BY <2>2, <2>3, FS_EmptySet DEF Init, WeekInv
<1>2. TypeInv /\ WeekInv /\ [Next]_vars => WeekInv'
  BY WeekInductive
<1> QED
  BY <1>1, <1>2, TypeInvHolds, WeekBound, PTL DEF Spec
=============================================================================
