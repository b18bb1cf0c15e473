----------------------------- MODULE MCJobQueue -----------------------------
(* Small instances of JobQueue.  Two jobs, one of which may be deferred       *)
(* without end, are enough for every order of claim, deferral and reap.       *)
EXTENDS JobQueue

CONSTANTS j1, j2
=============================================================================
