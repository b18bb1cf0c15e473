---------------------------- MODULE MCShiftLocks ----------------------------
(* Small instances of ShiftLocks: the timer's updater, whose unit systemd     *)
(* kills after 30 minutes, and one started by /deploy, whose unit has no      *)
(* limit.  One sleep stands for half an hour of them.                         *)
EXTENDS ShiftLocks

CONSTANTS s1, s2, timer, deploy

\* SHIFT_WAIT_MAX is 2 hours, aios-update.service's TimeoutStartSec 30 minutes.
MCUnitLimit == [u \in Updaters |-> IF u = timer THEN 1 ELSE 0]
=============================================================================
