----------------------------- MODULE ShiftLocks -----------------------------
(***************************************************************************)
(* Coworker shifts and box updates wait for each other through two flocks: *)
(* core/coworkers/locks.py (the runner's side and the tick's look at both  *)
(* locks) and the head of scripts/box_update.sh (the updater's side).      *)
(*                                                                         *)
(* Nobody ever waits for a lock.  A process tests the other side's lock by *)
(* taking it without blocking and letting it go at once, so for a moment   *)
(* the tester itself holds it; the model gives that moment a state.        *)
(***************************************************************************)
EXTENDS Naturals

CONSTANTS
  Slots,      \* shift slots, each with a runner unit of its own
  Updaters,   \* runs of box_update.sh: the timer's and those /deploy starts
  WaitMax,    \* SHIFT_WAIT_MAX, in sleeps of SHIFT_WAIT_STEP
  UnitLimit,  \* sleeps after which systemd kills the updater's unit, 0 for no limit
  Free, Tick  \* a lock nobody holds; the tick as its holder

ASSUME LocksAssumption ==
  /\ Slots \cap Updaters = {}
  /\ Free \notin Slots \union Updaters /\ Tick \notin Slots \union Updaters
  /\ Free # Tick
  /\ WaitMax \in Nat
  /\ UnitLimit \in [Updaters -> Nat]

VARIABLES
  shiftLock,   \* /run/aios-shift.lock
  deployLock,  \* /tmp/aios-deploy.lock
  rpc,         \* where each slot's runner is in locks.shift()
  upc,         \* where each updater is in its waiting loop
  waited,      \* how often it has slept
  look         \* where the tick is in its look at both locks

vars == <<shiftLock, deployLock, rpc, upc, waited, look>>

RunnerPhases  == {"out", "boot", "held", "probe", "refused", "in"}
UpdaterPhases == {"off", "poll", "polling", "soon", "take", "recheck", "rechecking",
                  "sleep", "update", "aborted", "killed"}
LookPhases    == {"none", "deploy", "between", "shift", "clear", "busy"}
Holders       == Slots \union Updaters \union {Tick, Free}

TypeOK ==
  /\ shiftLock \in Holders
  /\ deployLock \in Holders
  /\ rpc \in [Slots -> RunnerPhases]
  /\ upc \in [Updaters -> UpdaterPhases]
  /\ waited \in [Updaters -> Nat]
  /\ look \in LookPhases

Init ==
  /\ shiftLock = Free /\ deployLock = Free
  /\ rpc = [s \in Slots |-> "out"]
  /\ upc = [u \in Updaters |-> "off"]
  /\ waited = [u \in Updaters |-> 0]
  /\ look = "none"

\* What a lock is once its holder p is gone: the kernel lets go of it.
Released(lock, p) == IF lock = p THEN Free ELSE lock

-----------------------------------------------------------------------------
(* The runner: with locks.shift() as held *)

RMove(s, phase) == rpc' = [rpc EXCEPT ![s] = phase]

Arrive(s) ==
  /\ rpc[s] = "out"
  /\ RMove(s, "boot")
  /\ UNCHANGED <<shiftLock, deployLock, upc, waited, look>>

\* Its own lock first; a lock it cannot have at once is a refusal (yield False).
TakeShift(s) ==
  /\ rpc[s] = "boot"
  /\ \/ /\ shiftLock = Free
        /\ shiftLock' = s
        /\ RMove(s, "held")
     \/ /\ shiftLock # Free
        /\ RMove(s, "refused")
        /\ UNCHANGED shiftLock
  /\ UNCHANGED <<deployLock, upc, waited, look>>

\* Then the other's: busy, and it lets go of its own.
ProbeDeploy(s) ==
  /\ rpc[s] = "held"
  /\ \/ /\ deployLock = Free
        /\ deployLock' = s
        /\ RMove(s, "probe")
        /\ UNCHANGED shiftLock
     \/ /\ deployLock # Free
        /\ shiftLock' = Free
        /\ RMove(s, "refused")
        /\ UNCHANGED deployLock
  /\ UNCHANGED <<upc, waited, look>>

Enter(s) ==
  /\ rpc[s] = "probe"
  /\ deployLock' = Free
  /\ RMove(s, "in")
  /\ UNCHANGED <<shiftLock, upc, waited, look>>

Leave(s) ==
  /\ rpc[s] = "in"
  /\ shiftLock' = Free
  /\ RMove(s, "out")
  /\ UNCHANGED <<deployLock, upc, waited, look>>

GiveUp(s) ==
  /\ rpc[s] = "refused"
  /\ RMove(s, "out")
  /\ UNCHANGED <<shiftLock, deployLock, upc, waited, look>>

\* The runner's unit is killed, at any point.
Die(s) ==
  /\ rpc[s] # "out"
  /\ shiftLock' = Released(shiftLock, s)
  /\ deployLock' = Released(deployLock, s)
  /\ RMove(s, "out")
  /\ UNCHANGED <<upc, waited, look>>

-----------------------------------------------------------------------------
(* The updater: box_update.sh up to the point where it starts to install *)

UMove(u, phase) == upc' = [upc EXCEPT ![u] = phase]

Launch(u) ==
  /\ upc[u] \in {"off", "aborted", "killed"}
  /\ UMove(u, "poll")
  /\ waited' = [waited EXCEPT ![u] = 0]
  /\ UNCHANGED <<shiftLock, deployLock, rpc, look>>

\* shift_busy: flock -n takes the shift lock for a moment.
Poll(u) ==
  /\ upc[u] = "poll"
  /\ \/ shiftLock = Free /\ shiftLock' = u /\ UMove(u, "polling")
     \/ shiftLock # Free /\ UNCHANGED shiftLock /\ UMove(u, "sleep")
  /\ UNCHANGED <<deployLock, rpc, waited, look>>

Unpoll(u) ==
  /\ upc[u] = "polling"
  /\ shiftLock' = Free
  /\ UMove(u, "soon")
  /\ UNCHANGED <<deployLock, rpc, waited, look>>

\* Mutant: the wait for a shift due soon has no end.
DecideForever(u, soon) ==
  /\ upc[u] = "soon"
  /\ UMove(u, IF soon THEN "sleep" ELSE "take")
  /\ UNCHANGED <<shiftLock, deployLock, rpc, waited, look>>

\* shift_soon, for at most WaitMax sleeps.
Decide(u, soon) ==
  /\ upc[u] = "soon"
  /\ UMove(u, IF soon /\ waited[u] < WaitMax THEN "sleep" ELSE "take")
  /\ UNCHANGED <<shiftLock, deployLock, rpc, waited, look>>

\* Mutant: no second look at the shift lock.
TakeAndInstall(u) ==
  /\ upc[u] = "take"
  /\ \/ deployLock = Free /\ deployLock' = u /\ UMove(u, "update")
     \/ deployLock # Free /\ UNCHANGED deployLock /\ UMove(u, "aborted")
  /\ UNCHANGED <<shiftLock, rpc, waited, look>>

Take(u) ==
  /\ upc[u] = "take"
  /\ \/ deployLock = Free /\ deployLock' = u /\ UMove(u, "recheck")
     \/ deployLock # Free /\ UNCHANGED deployLock /\ UMove(u, "aborted")
  /\ UNCHANGED <<shiftLock, rpc, waited, look>>

\* shift_busy once more, now holding the deploy lock; busy, and it lets go.
Recheck(u) ==
  /\ upc[u] = "recheck"
  /\ \/ /\ shiftLock = Free
        /\ shiftLock' = u
        /\ UMove(u, "rechecking")
        /\ UNCHANGED deployLock
     \/ /\ shiftLock # Free
        /\ deployLock' = Free
        /\ UMove(u, "sleep")
        /\ UNCHANGED shiftLock
  /\ UNCHANGED <<rpc, waited, look>>

Install(u) ==
  /\ upc[u] = "rechecking"
  /\ shiftLock' = Free
  /\ UMove(u, "update")
  /\ UNCHANGED <<deployLock, rpc, waited, look>>

Installed(u) ==
  /\ upc[u] = "update"
  /\ deployLock' = Free
  /\ UMove(u, "off")
  /\ UNCHANGED <<shiftLock, rpc, waited, look>>

\* TimeoutStartSec of aios-update.service; a unit /deploy starts has none.
OutOfTime(u) == UnitLimit[u] > 0 /\ waited[u] >= UnitLimit[u]

\* The count is kept only as far as a guard reads it.
Wake(u) ==
  /\ upc[u] = "sleep"
  /\ ~OutOfTime(u)
  /\ UMove(u, "poll")
  /\ waited' = [waited EXCEPT ![u] = IF @ < WaitMax \/ @ < UnitLimit[u] THEN @ + 1 ELSE @]
  /\ UNCHANGED <<shiftLock, deployLock, rpc, look>>

TimeOut(u) ==
  /\ upc[u] = "sleep"
  /\ OutOfTime(u)
  /\ UMove(u, "killed")
  /\ UNCHANGED <<shiftLock, deployLock, rpc, waited, look>>

\* It fails or is killed at any other point: the exit drops its locks.
Quit(u) ==
  /\ upc[u] \notin {"off", "aborted", "killed"}
  /\ shiftLock' = Released(shiftLock, u)
  /\ deployLock' = Released(deployLock, u)
  /\ UMove(u, "off")
  /\ UNCHANGED <<rpc, waited, look>>

-----------------------------------------------------------------------------
(* The tick: update_running(), then _busy(SHIFT_LOCK) *)

LookDeploy ==
  /\ look = "none"
  /\ \/ deployLock = Free /\ deployLock' = Tick /\ look' = "deploy"
     \/ deployLock # Free /\ UNCHANGED deployLock /\ look' = "busy"
  /\ UNCHANGED <<shiftLock, rpc, upc, waited>>

UnlookDeploy ==
  /\ look = "deploy"
  /\ deployLock' = Free
  /\ look' = "between"
  /\ UNCHANGED <<shiftLock, rpc, upc, waited>>

LookShift ==
  /\ look = "between"
  /\ \/ shiftLock = Free /\ shiftLock' = Tick /\ look' = "shift"
     \/ shiftLock # Free /\ UNCHANGED shiftLock /\ look' = "busy"
  /\ UNCHANGED <<deployLock, rpc, upc, waited>>

UnlookShift ==
  /\ look = "shift"
  /\ shiftLock' = Free
  /\ look' = "clear"
  /\ UNCHANGED <<deployLock, rpc, upc, waited>>

\* The tick acts on what it saw, or is killed while it looks.
EndLook ==
  /\ look # "none"
  /\ shiftLock' = Released(shiftLock, Tick)
  /\ deployLock' = Released(deployLock, Tick)
  /\ look' = "none"
  /\ UNCHANGED <<rpc, upc, waited>>

\* A reboot: every process is gone, /run and its locks with them.
Reboot ==
  /\ shiftLock' = Free /\ deployLock' = Free
  /\ rpc' = [s \in Slots |-> "out"]
  /\ upc' = [u \in Updaters |-> "off"]
  /\ look' = "none"
  /\ UNCHANGED waited

-----------------------------------------------------------------------------
Runner(s) == TakeShift(s) \/ ProbeDeploy(s) \/ Enter(s) \/ GiveUp(s)

Updater(u) ==
  \/ Poll(u) \/ Unpoll(u) \/ (\E soon \in BOOLEAN : Decide(u, soon)) \/ Take(u)
  \/ Recheck(u) \/ Install(u) \/ Installed(u) \/ Wake(u) \/ TimeOut(u)

Looking == LookDeploy \/ UnlookDeploy \/ LookShift \/ UnlookShift \/ EndLook

Next ==
  \/ \E s \in Slots : Arrive(s) \/ Runner(s) \/ Leave(s) \/ Die(s)
  \/ \E u \in Updaters : Launch(u) \/ Updater(u) \/ Quit(u)
  \/ Looking
  \/ Reboot

Spec == Init /\ [][Next]_vars

\* Processes make progress and a shift ends (its unit has a RuntimeMaxSec); that one
\* starts, or that the timer fires, is not assumed.
FairSpec ==
  /\ Spec
  /\ \A s \in Slots : WF_vars(Runner(s)) /\ WF_vars(Leave(s))
  /\ \A u \in Updaters : WF_vars(Updater(u))
  /\ WF_vars(UnlookDeploy \/ UnlookShift)

-----------------------------------------------------------------------------
(* Properties *)

\* An update and a coworker's run never overlap, whichever of them comes first
\* (core/coworkers/locks.py, THE RULE, BOTH WAYS).
UpdateExcludesShift ==
  \A s \in Slots, u \in Updaters : ~(rpc[s] = "in" /\ upc[u] = "update")

\* One run at a time, one update at a time.
OneOfEach ==
  /\ \A s, t \in Slots : rpc[s] = "in" /\ rpc[t] = "in" => s = t
  /\ \A u, v \in Updaters : upc[u] = "update" /\ upc[v] = "update" => u = v

\* Who holds a lock is exactly who the code says holds it; in particular nobody who
\* waits (a sleeping updater, a refused runner) holds one while it does.
LockInv ==
  /\ \A s \in Slots : rpc[s] \in {"held", "probe", "in"} <=> shiftLock = s
  /\ \A s \in Slots : rpc[s] = "probe" <=> deployLock = s
  /\ \A u \in Updaters : upc[u] \in {"polling", "rechecking"} <=> shiftLock = u
  /\ \A u \in Updaters : upc[u] \in {"recheck", "rechecking", "update"} <=> deployLock = u
  /\ look = "shift" <=> shiftLock = Tick
  /\ look = "deploy" <=> deployLock = Tick
  /\ UpdateExcludesShift

\* Nobody else is at a lock: no runner, no tick with a shift to start, no other updater
\* in its loop.
Alone(u) ==
  /\ \A s \in Slots : rpc[s] = "out"
  /\ look = "none"
  /\ \A v \in Updaters \ {u} : upc[v] \in {"off", "aborted", "killed", "update"}

GoesAhead(u) ==
  <>[]Alone(u) => (upc[u] = "poll" ~> upc[u] \in {"update", "aborted", "off"})

\* An updater whose unit has time for the wait is not left in its loop: once it is alone
\* there it gets to install (or finds the deploy lock taken, or fails), even if a shift
\* is always due within the hour.
UpdateAfterShifts ==
  \A u \in Updaters : UnitLimit[u] = 0 => GoesAhead(u)
=============================================================================
