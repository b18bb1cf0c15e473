-------------------------- MODULE ShiftLocksProofs --------------------------
(* Proofs about ShiftLocks, for any number of slots and of updaters.          *)
EXTENDS ShiftLocks, TLAPS

(* Every step keeps every variable in its type (core/coworkers/locks.py,      *)
(* scripts/box_update.sh).                                                    *)
LEMMA TypeInductive ==
  ASSUME TypeOK, [Next]_vars
  PROVE  TypeOK'
<1> USE LocksAssumption DEF TypeOK, Holders, RunnerPhases, UpdaterPhases, LookPhases,
                            RMove, UMove, Released
<1>1. ASSUME NEW s \in Slots, Arrive(s) \/ Runner(s) \/ Leave(s) \/ Die(s)
      PROVE  TypeOK'
  BY <1>1 DEF Arrive, Runner, TakeShift, ProbeDeploy, Enter, GiveUp, Leave, Die
<1>2. ASSUME NEW u \in Updaters, Launch(u) \/ Quit(u)
      PROVE  TypeOK'
  BY <1>2 DEF Launch, Quit
<1>3. ASSUME NEW u \in Updaters, Updater(u)
      PROVE  TypeOK'
  <2>1. CASE Poll(u) \/ Unpoll(u) \/ Take(u) \/ Recheck(u)
    BY <2>1 DEF Poll, Unpoll, Take, Recheck
  <2>2. CASE \E soon \in BOOLEAN : Decide(u, soon)
    BY <2>2 DEF Decide
  <2>3. CASE Install(u) \/ Installed(u) \/ Wake(u) \/ TimeOut(u)
    BY <2>3 DEF Install, Installed, Wake, TimeOut
  <2> QED
    BY <1>3, <2>1, <2>2, <2>3 DEF Updater
<1>4. CASE Looking
  BY <1>4 DEF Looking, LookDeploy, UnlookDeploy, LookShift, UnlookShift, EndLook
<1>5. CASE Reboot
  BY <1>5 DEF Reboot
<1>6. CASE UNCHANGED vars
  BY <1>6 DEF vars
<1> QED
  BY <1>1, <1>2, <1>3, <1>4, <1>5, <1>6 DEF Next

(* Type correctness.                                                          *)
THEOREM TypeCorrect == Spec => []TypeOK
<1>1. Init => TypeOK
  BY LocksAssumption DEF Init, TypeOK, Holders, RunnerPhases, UpdaterPhases, LookPhases
<1> QED
  BY <1>1, TypeInductive, PTL DEF Spec

(* The heart of the argument: a side enters only while it holds its own lock  *)
(* and, for that moment, the other's too.                                     *)
LEMMA LockInvInductive ==
  ASSUME TypeOK, LockInv, [Next]_vars
  PROVE  LockInv'
<1> USE LocksAssumption DEF TypeOK, Holders, LockInv, UpdateExcludesShift, RMove, UMove, Released
<1>1. ASSUME NEW s \in Slots, Arrive(s) \/ TakeShift(s) \/ GiveUp(s)
      PROVE  LockInv'
  BY <1>1 DEF Arrive, TakeShift, GiveUp
<1>2. ASSUME NEW s \in Slots, ProbeDeploy(s) \/ Enter(s)
      PROVE  LockInv'
  BY <1>2 DEF ProbeDeploy, Enter
<1>3. ASSUME NEW s \in Slots, Leave(s) \/ Die(s)
      PROVE  LockInv'
  BY <1>3 DEF Leave, Die
<1>4. ASSUME NEW u \in Updaters, Launch(u) \/ Quit(u) \/ Wake(u) \/ TimeOut(u)
      PROVE  LockInv'
  BY <1>4 DEF Launch, Quit, Wake, TimeOut
<1>5. ASSUME NEW u \in Updaters, Poll(u) \/ Unpoll(u) \/ Take(u) \/ Recheck(u)
      PROVE  LockInv'
  BY <1>5 DEF Poll, Unpoll, Take, Recheck
<1>6. ASSUME NEW u \in Updaters, (\E soon \in BOOLEAN : Decide(u, soon))
      PROVE  LockInv'
  BY <1>6 DEF Decide
<1>7. ASSUME NEW u \in Updaters, Install(u) \/ Installed(u)
      PROVE  LockInv'
  BY <1>7 DEF Install, Installed
<1>8. CASE Looking
  BY <1>8 DEF Looking, LookDeploy, UnlookDeploy, LookShift, UnlookShift, EndLook
<1>9. CASE Reboot
  BY <1>9 DEF Reboot
<1>10. CASE UNCHANGED vars
  BY <1>10 DEF vars
<1> QED
  BY <1>1, <1>2, <1>3, <1>4, <1>5, <1>6, <1>7, <1>8, <1>9, <1>10 DEF Next, Runner, Updater

(* Each lock is held by exactly the process the code believes holds it, and   *)
(* nobody waits with one in its hands.                                        *)
THEOREM LocksCorrect == Spec => []LockInv
<1>1. Init => LockInv
  BY LocksAssumption DEF Init, LockInv, UpdateExcludesShift
<1> QED
  BY <1>1, TypeCorrect, LockInvInductive, PTL DEF Spec

(* An update and a coworker's run never overlap.                              *)
COROLLARY ExclusionCorrect == Spec => []UpdateExcludesShift
<1>1. LockInv => UpdateExcludesShift
  BY DEF LockInv
<1> QED
  BY <1>1, LocksCorrect, PTL

(* At most one run, and at most one update, at a time.                        *)
COROLLARY OneOfEachCorrect == Spec => []OneOfEach
<1>1. LockInv => OneOfEach
  BY DEF LockInv, OneOfEach
<1> QED
  BY <1>1, LocksCorrect, PTL
=============================================================================
