----------------------------- MODULE MCShiftRuns -----------------------------
(* Small instances of ShiftRuns: at most two slots, of which one may be asked *)
(* for by a person, over the minutes of their windows, those a tick looks     *)
(* back to, and one more, which stands for all the minutes that follow.       *)
EXTENDS ShiftRuns

CONSTANTS s1, s2, u1

\* The only window is the first minute.
MCFirst  == [s \in Slots |-> 1]
\* The second slot's window is the first minute.  The first slot's is the two after it, which
\* the box may be off for, and it may be switched off while it waits.
MCStart  == [s \in Slots |-> IF s = s1 THEN 2 ELSE 1]
MCLatest == [s \in Slots |-> IF s = s1 THEN 3 ELSE 1]
MCUnitLimit == [u \in Updaters |-> 1]
=============================================================================
