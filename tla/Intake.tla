------------------------------- MODULE Intake -------------------------------
(***************************************************************************)
(* What the box does with the messages people write to it: the poller      *)
(* reads a page of each conversation that changed, mirrors it, queues a    *)
(* job for the message to act on and only then moves the conversation's    *)
(* watermark (inbox/poller.py); the worker runs the job, which mutes a     *)
(* conversation on a STOP and otherwise greets a new one (inbox/           *)
(* handler.py); the listener answers the newest message on its own         *)
(* (inbox/autosend.py, reply.py send_automatic); a machine says its lines  *)
(* (reply.py send_for_machine).  All three share one cap per hour          *)
(* (inbox/store.py).                                                       *)
(*                                                                         *)
(* The poller and the listener run on the worker's periodic thread, the    *)
(* jobs on its main thread, each machine's job on a thread of its own      *)
(* (core/machine_jobs.py).  The process may die at any point and comes     *)
(* back with all of them at rest; a job may raise at any point; a job has  *)
(* so many attempts.  The owner's kill switch holds every thread at its    *)
(* next beginning.  The platform is external.  Module InboxSend has one    *)
(* conversation's sends in full: people, claims, the ledger's races; here  *)
(* are many conversations, and only what sends on its own.                 *)
(***************************************************************************)
EXTENDS Integers, FiniteSets

CONSTANTS
  Convs,       \* conversations
  MaxIn,       \* bound: messages a person writes on one of them
  MaxAll,      \* bound: messages written on all of them
  Page,        \* _MSG_PAGE: messages read of a changed conversation
  Cap,         \* the hourly cap
  Machines,    \* the threads that say machines' lines
  Steps,       \* the lines: a machine's name and the key of its step
  MaxAttempts, \* worker.max_attempts
  MaxFaults,   \* bound: deaths, failed reads, jobs that raise, kill switches and hours, together
  NoKey        \* no conversation in hand

ASSUME IntakeAssumption ==
  /\ IsFiniteSet(Convs)
  /\ IsFiniteSet(Machines) /\ IsFiniteSet(Steps)
  /\ MaxIn \in Nat /\ MaxAll \in Nat /\ Cap \in Nat /\ MaxAttempts \in Nat /\ MaxFaults \in Nat
  /\ Page \in Nat \ {0}
  /\ Steps \cap (0..MaxIn) = {}
  /\ NoKey \notin Convs \X ((0..MaxIn) \union Steps)

Ins  == 1..MaxIn
Msgs == Convs \X Ins
\* Ledger keys: 0 is the opener's, i the reply's to message i, a step a machine's.
Keys == Convs \X ((0..MaxIn) \union Steps)
Opener(c) == <<c, 0>>

VARIABLES
  came,      \* how many messages the person wrote, by conversation
  stops,     \* those of them that say STOP
  aged,      \* how many of them are older than the send window
  mirror,    \* inbox_messages, inbound
  lastIn,    \* inbox_conversations.last_inbound_at, as a message's number
  seen,      \* inbox_state.last_seen_msg_id
  activity,  \* inbox_state.last_activity, as the number of messages it stands for
  muted,     \* inbox_conversations.opted_out
  opened,    \* inbox_conversations.opener_sent_at
  answered,  \* the newest message mirrored when the box last spoke
  job,       \* the jobs of intent "inbox", by the message they act on
  attempts,  \* jobs.attempts
  ledger,    \* inbox_send_ledger, by key
  recent,    \* keys whose row counts in this hour
  sweep,     \* the periodic thread
  worker,    \* the main thread
  machines,  \* the machines' threads
  paused,    \* data/PAUSED
  greeted,   \* observation: openers that left in this hour
  lost,      \* observation: how often in this hour one left and its record was not made
  written, faults

outside  == <<came, stops, aged, written>>
rows     == <<mirror, lastIn, seen, activity, muted, opened, answered, job, attempts, ledger, recent>>
seenOut  == <<greeted, lost>>
vars == <<outside, rows, sweep, worker, machines, paused, seenOut, faults>>

\* "out" is "ok" or "indeterminate": it went, or may have.  A row that failed is to every
\* reader here what no row is: it does not count, and may be claimed again.
Status  == {"none", "sending", "out"}
JobAt   == {"none", "queued", "later", "running", "done", "failed"}
SweepAt == {"rest", "sweep", "act", "mark", "claim", "call"}
WorkAt  == {"rest", "start", "muted", "claim", "call", "ok", "unsure", "refused"}
SayAt   == {"rest", "claim", "call"}

\* The threads at rest: todo are the conversations still to read, listed the activity the
\* platform gave for each, key the conversation in hand with the message acted on.
SweepRest == [at |-> "rest", todo |-> {}, listed |-> [c \in Convs |-> 0], key |-> NoKey]
WorkRest  == [at |-> "rest", key |-> NoKey]

TypeOK ==
  /\ came \in [Convs -> 0..MaxIn] /\ aged \in [Convs -> 0..MaxIn]
  /\ stops \subseteq Msgs /\ mirror \subseteq Msgs
  /\ lastIn \in [Convs -> 0..MaxIn] /\ seen \in [Convs -> 0..MaxIn]
  /\ activity \in [Convs -> 0..MaxIn] /\ answered \in [Convs -> 0..MaxIn]
  /\ muted \subseteq Convs /\ opened \subseteq Convs
  /\ job \in [Msgs -> JobAt] /\ attempts \in [Msgs -> Nat]
  /\ ledger \in [Keys -> Status] /\ recent \subseteq Keys
  /\ sweep \in [at : SweepAt, todo : SUBSET Convs, listed : [Convs -> 0..MaxIn],
                key : Keys \union {NoKey}]
  /\ (sweep.at \in {"rest", "sweep"}) = (sweep.key = NoKey)
  /\ worker \in [at : WorkAt, key : Keys \union {NoKey}]
  /\ (worker.at = "rest") = (worker.key = NoKey)
  /\ machines \in [Machines -> [at : SayAt, key : Keys \union {NoKey}]]
  /\ \A a \in Machines : (machines[a].at = "rest") = (machines[a].key = NoKey)
  /\ paused \in BOOLEAN /\ greeted \subseteq Keys
  /\ lost \in Nat /\ written \in Nat /\ faults \in Nat

Init ==
  /\ came = [c \in Convs |-> 0] /\ aged = [c \in Convs |-> 0]
  /\ stops = {} /\ mirror = {}
  /\ lastIn = [c \in Convs |-> 0] /\ seen = [c \in Convs |-> 0]
  /\ activity = [c \in Convs |-> 0] /\ answered = [c \in Convs |-> 0]
  /\ muted = {} /\ opened = {}
  /\ job = [m \in Msgs |-> "none"] /\ attempts = [m \in Msgs |-> 0]
  /\ ledger = [k \in Keys |-> "none"] /\ recent = {}
  /\ sweep = SweepRest /\ worker = WorkRest
  /\ machines = [a \in Machines |-> WorkRest] /\ paused = FALSE
  /\ greeted = {} /\ lost = 0
  /\ written = 0 /\ faults = 0
-----------------------------------------------------------------------------
\* What a thread's step leaves alone: the outside and the other threads.
Sweeping == UNCHANGED <<outside, faults, paused, lost, worker, machines>>
Working  == UNCHANGED <<outside, paused, sweep, machines>>
Saying   == UNCHANGED <<outside, faults, paused, seenOut, sweep, worker>>

Fresh(c, i) == i > aged[c]
LatestIn(c) == {i \in Ins : <<c, i>> \in mirror /\ \A j \in Ins : <<c, j>> \in mirror => j <= i}
PageOf(c) == {i \in Ins : i <= came[c] /\ i > came[c] - Page}

CountedButClaims == {k \in recent : ledger[k] = "out"}   \* mutant: only what has been settled
\* store.sends_last_hour: a claimed attempt counts, and so does one nobody knows about.
Counted == {k \in recent : ledger[k] # "none"}
CapLeft == Cardinality(Counted) < Cap

SetRow(k, status) == ledger' = [ledger EXCEPT ![k] = status]
\* claim_send takes a key that has no row, or one that failed.
ClaimRow(k) == SetRow(k, "sending") /\ recent' = recent \union {k}
\* record_message, outbound: it is later than everything mirrored before.
Newest(c) == IF LatestIn(c) = {} THEN 0 ELSE CHOOSE i \in LatestIn(c) : TRUE
Spoken(c) == [answered EXCEPT ![c] = Newest(c)]
-----------------------------------------------------------------------------
(* The outside. *)

\* Somebody writes.  Between two readings of a conversation no more is written on it
\* than a page holds: what a longer page would have shown is lost to the box.
Writes(c) ==
  /\ came[c] < MaxIn /\ written < MaxAll /\ came[c] - seen[c] < Page
  /\ written' = written + 1
  /\ came' = [came EXCEPT ![c] = @ + 1]
  /\ \E stop \in BOOLEAN :
       stops' = IF stop THEN stops \union {<<c, came[c] + 1>>} ELSE stops
  /\ UNCHANGED <<aged, rows, sweep, worker, machines, paused, seenOut, faults>>

\* The window to answer what was written so far closes (inbox/window.py).
WindowCloses(c) ==
  /\ aged[c] < came[c]
  /\ aged' = [aged EXCEPT ![c] = came[c]]
  /\ UNCHANGED <<came, stops, written, rows, sweep, worker, machines, paused, seenOut, faults>>

\* Stop everything, and go on (core/pause.py).
Halts ==
  /\ ~paused /\ faults < MaxFaults
  /\ paused' = TRUE /\ faults' = faults + 1
  /\ UNCHANGED <<outside, rows, sweep, worker, machines, seenOut>>

Resumes ==
  /\ paused /\ paused' = FALSE
  /\ UNCHANGED <<outside, rows, sweep, worker, machines, seenOut, faults>>

\* An hour passes: no row counts any longer, and the jobs put off until then come back.
HourPasses ==
  /\ recent \union greeted # {} /\ faults < MaxFaults
  /\ faults' = faults + 1
  /\ recent' = {} /\ greeted' = {} /\ lost' = 0
  /\ job' = [m \in Msgs |-> IF job[m] = "later" THEN "queued" ELSE job[m]]
  /\ UNCHANGED <<outside, mirror, lastIn, seen, activity, muted, opened, answered,
                 attempts, ledger, sweep, worker, machines, paused>>
-----------------------------------------------------------------------------
(* poller.py _sweep_channel, on the periodic thread. *)

SweepGo(phase, key) == sweep' = [sweep EXCEPT !.at = phase, !.key = key]

\* One list call for the channel; a conversation whose activity stands is not read.
Lists ==
  /\ sweep.at = "rest" /\ ~paused
  /\ \E c \in Convs : came[c] # activity[c]
  /\ sweep' = [sweep EXCEPT !.at = "sweep", !.listed = came,
                            !.todo = {c \in Convs : came[c] # activity[c]}]
  /\ UNCHANGED <<rows, greeted>> /\ Sweeping

\* The messages could not be read: the conversation waits for the next sweep.
ReadFails(c) ==
  /\ sweep.at = "sweep" /\ c \in sweep.todo /\ faults < MaxFaults
  /\ sweep' = [sweep EXCEPT !.todo = @ \ {c}]
  /\ faults' = faults + 1
  /\ UNCHANGED <<outside, rows, worker, machines, paused, seenOut>>

Marks(c, newest) ==
  /\ seen' = [seen EXCEPT ![c] = newest]
  /\ activity' = [activity EXCEPT ![c] = sweep.listed[c]]

\* mutant: the message is put behind the watermark before anything is done about it
ReadsAndMarks(c) ==
  /\ sweep.at = "sweep" /\ c \in sweep.todo
  /\ mirror' = mirror \union {<<c, i>> : i \in PageOf(c)}
  /\ Marks(c, came[c])
  /\ IF came[c] = seen[c]
       THEN sweep' = [sweep EXCEPT !.todo = @ \ {c}]
       ELSE SweepGo("act", <<c, came[c]>>)
  /\ UNCHANGED <<lastIn, muted, opened, answered, job, attempts, ledger, recent, greeted>> /\ Sweeping

\* A page is read and mirrored before anything is decided; with nothing new in it the
\* watermark is set at once.
Reads(c) ==
  /\ sweep.at = "sweep" /\ c \in sweep.todo
  /\ mirror' = mirror \union {<<c, i>> : i \in PageOf(c)}
  /\ IF came[c] = seen[c]
       THEN /\ Marks(c, seen[c])
            /\ sweep' = [sweep EXCEPT !.todo = @ \ {c}]
       ELSE /\ SweepGo("act", <<c, came[c]>>)
            /\ UNCHANGED <<seen, activity>>
  /\ UNCHANGED <<lastIn, muted, opened, answered, job, attempts, ledger, recent, greeted>> /\ Sweeping

\* The messages of the page in hand (read when its newest was the newest).
InHand == LET c == sweep.key[1] IN {i \in Ins : i <= sweep.key[2] /\ i > sweep.key[2] - Page}
StopsInHand == {i \in InHand : <<sweep.key[1], i>> \in stops}

NewestOnly == {sweep.key[2]}   \* mutant: the newest, whatever the others say
\* The message to act on: a STOP anywhere in the page goes before the newest.
Targets == IF StopsInHand = {} THEN {sweep.key[2]} ELSE StopsInHand

\* queue.enqueue: one job per key, whatever became of the first.
Enqueue(m) == job' = [job EXCEPT ![m] = IF @ = "none" THEN "queued" ELSE @]

\* A job is made only if the handler could act on it; a STOP the window shut on is
\* honoured here.
Acts ==
  /\ sweep.at = "act"
  /\ LET c == sweep.key[1] IN
     \E i \in Targets :
       /\ lastIn' = [lastIn EXCEPT ![c] = i]
       /\ IF Fresh(c, i)
            THEN Enqueue(<<c, i>>) /\ UNCHANGED muted
            ELSE /\ muted' = IF StopsInHand # {} THEN muted \union {c} ELSE muted
                 /\ UNCHANGED job
  /\ SweepGo("mark", sweep.key)
  /\ UNCHANGED <<mirror, seen, activity, opened, answered, attempts, ledger, recent,
                 greeted>>
  /\ Sweeping

\* The queue did not take the job: the conversation waits for the next sweep.
EnqueueFails ==
  /\ sweep.at = "act" /\ faults < MaxFaults
  /\ \E i \in Targets :
       /\ Fresh(sweep.key[1], i)
       /\ lastIn' = [lastIn EXCEPT ![sweep.key[1]] = i]
  /\ sweep' = [sweep EXCEPT !.at = "sweep", !.key = NoKey, !.todo = @ \ {sweep.key[1]}]
  /\ faults' = faults + 1
  /\ UNCHANGED <<outside, mirror, seen, activity, muted, opened, answered, job, attempts, ledger,
                 recent, worker, machines, paused, seenOut>>

\* Only now is the message behind the watermark.
MarksSeen ==
  /\ sweep.at = "mark"
  /\ Marks(sweep.key[1], sweep.key[2])
  /\ sweep' = [sweep EXCEPT !.at = "sweep", !.key = NoKey, !.todo = @ \ {sweep.key[1]}]
  /\ UNCHANGED <<mirror, lastIn, muted, opened, answered, job, attempts, ledger, recent, greeted>>
  /\ Sweeping

SweepEnds ==
  /\ sweep.at = "sweep" /\ sweep.todo = {}
  /\ sweep' = SweepRest
  /\ UNCHANGED <<rows, greeted>> /\ Sweeping
-----------------------------------------------------------------------------
(* inbox/autosend.py and reply.py send_automatic, on the same thread. *)

\* ready, and send_automatic's looks: the box is not stopped, the newest message,
\* unanswered, not muted, in its window, and room under the cap.  The reply is in writing by then, or is not yet
\* (module Drafts).
Asks(c, i) ==
  /\ sweep.at = "rest" /\ ~paused
  /\ i \in LatestIn(c) /\ c \notin muted
  /\ answered[c] < i /\ Fresh(c, lastIn[c]) /\ CapLeft
  /\ ledger[<<c, i>>] = "none"
  /\ SweepGo("claim", <<c, i>>)
  /\ UNCHANGED <<rows, greeted>> /\ Sweeping

\* claim_send, and the last look after it: somebody may have answered since.
Claims ==
  /\ sweep.at = "claim"
  /\ LET k == sweep.key IN
     IF answered[k[1]] < k[2]
       THEN ClaimRow(k) /\ SweepGo("call", k)
       ELSE sweep' = SweepRest /\ UNCHANGED <<ledger, recent>>
  /\ UNCHANGED <<mirror, lastIn, seen, activity, muted, opened, answered, job, attempts, greeted>>
  /\ Sweeping

\* The platform takes the message, or refuses it, or nobody knows; resolve_send, and the
\* mirror of what was said.
Settles(k) ==
  \/ /\ SetRow(k, "out") /\ UNCHANGED recent
     /\ answered' = Spoken(k[1]) \/ UNCHANGED answered
  \/ SetRow(k, "none") /\ recent' = recent \ {k} /\ UNCHANGED answered

AnswerSettles ==
  /\ sweep.at = "call"
  /\ Settles(sweep.key)
  /\ sweep' = SweepRest
  /\ UNCHANGED <<mirror, lastIn, seen, activity, muted, opened, job, attempts, greeted>>
  /\ Sweeping
-----------------------------------------------------------------------------
(* reply.py send_for_machine, on a machine's own thread. *)

SayGo(a, phase, key) == machines' = [machines EXCEPT ![a] = [at |-> phase, key |-> key]]

\* The box is not stopped, the person not muted, the window open, and room under the cap.
\* What the machine's claim adds is in module InboxSend.
MachineLooks(a, c, s) ==
  /\ machines[a].at = "rest" /\ ~paused
  /\ c \notin muted /\ Fresh(c, lastIn[c]) /\ CapLeft
  /\ SayGo(a, "claim", <<c, s>>)
  /\ UNCHANGED rows /\ Saying

\* claim_send: whoever finds the line said, or being said, leaves it.
MachineClaims(a) ==
  /\ machines[a].at = "claim"
  /\ LET k == machines[a].key IN
     IF ledger[k] = "none"
       THEN ClaimRow(k) /\ SayGo(a, "call", k)
       ELSE SayGo(a, "rest", NoKey) /\ UNCHANGED <<ledger, recent>>
  /\ UNCHANGED <<mirror, lastIn, seen, activity, muted, opened, answered, job, attempts>>
  /\ Saying

MachineSettles(a) ==
  /\ machines[a].at = "call"
  /\ Settles(machines[a].key)
  /\ SayGo(a, "rest", NoKey)
  /\ UNCHANGED <<mirror, lastIn, seen, activity, muted, opened, job, attempts>>
  /\ Saying
-----------------------------------------------------------------------------
(* handler.py handle, on the main thread. *)

WorkGo(phase, key) == worker' = [at |-> phase, key |-> key]
JobEnds(status) ==
  /\ job' = [job EXCEPT ![worker.key] = status]
  /\ worker' = WorkRest

Takes(m) ==
  /\ worker.at = "rest" /\ ~paused /\ job[m] = "queued"
  /\ job' = [job EXCEPT ![m] = "running"]
  /\ attempts' = [attempts EXCEPT ![m] = @ + 1]
  /\ WorkGo("start", m)
  /\ UNCHANGED <<mirror, lastIn, seen, activity, muted, opened, answered, ledger, recent,
                 seenOut, faults>>
  /\ Working

\* The STOP comes before everything else: the person is muted, then the owner told and the
\* job closed.
StopMutes ==
  /\ worker.at = "start" /\ worker.key \in stops
  /\ muted' = muted \union {worker.key[1]}
  /\ WorkGo("muted", worker.key)
  /\ UNCHANGED <<mirror, lastIn, seen, activity, opened, answered, job, attempts, ledger, recent,
                 seenOut, faults>>
  /\ Working

StopEnds ==
  /\ worker.at = "muted"
  /\ JobEnds("done")
  /\ UNCHANGED <<mirror, lastIn, seen, activity, muted, opened, answered, attempts, ledger, recent,
                 seenOut, faults>>
  /\ Working

MayGreet(c) == c \notin muted /\ Fresh(c, lastIn[c])

\* mutant: the gates are asked before the STOP is
DeclinesAnyway ==
  /\ worker.at = "start"
  /\ JobEnds("done")
  /\ UNCHANGED <<mirror, lastIn, seen, activity, muted, opened, answered, attempts, ledger, recent,
                 seenOut, faults>>
  /\ Working

\* Muted, the window has shut, or a gate this module leaves out says no (sending is off, a
\* machine that holds the conversation, no account): nothing is sent.
Declines ==
  /\ worker.at = "start" /\ worker.key \notin stops
  /\ JobEnds("done")
  /\ UNCHANGED <<mirror, lastIn, seen, activity, muted, opened, answered, attempts, ledger, recent,
                 seenOut, faults>>
  /\ Working

\* The hour is spent: the job is put off, at no attempt's cost.
Defers ==
  /\ worker.at = "start" /\ worker.key \notin stops /\ MayGreet(worker.key[1]) /\ ~CapLeft
  /\ JobEnds("later")
  /\ attempts' = [attempts EXCEPT ![worker.key] = IF @ = 0 THEN 0 ELSE @ - 1]
  /\ UNCHANGED <<mirror, lastIn, seen, activity, muted, opened, answered, ledger, recent,
                 seenOut, faults>>
  /\ Working

GoesOn ==
  /\ worker.at = "start" /\ worker.key \notin stops /\ MayGreet(worker.key[1]) /\ CapLeft
  /\ WorkGo("claim", worker.key)
  /\ UNCHANGED <<rows, seenOut, faults>> /\ Working

\* claim_opener: one per conversation; who comes second sends nothing.
ClaimsOpener ==
  /\ worker.at = "claim"
  /\ LET c == worker.key[1] IN
     IF c \in opened
       THEN JobEnds("done") /\ UNCHANGED opened
       ELSE /\ opened' = opened \union {c}
            /\ WorkGo("call", worker.key)
            /\ UNCHANGED job
  /\ UNCHANGED <<mirror, lastIn, seen, activity, muted, answered, attempts, ledger, recent,
                 seenOut, faults>>
  /\ Working

OpenerTaken ==
  /\ worker.at = "call"
  /\ greeted' = greeted \union {Opener(worker.key[1])}
  /\ \E phase \in {"ok", "unsure"} : WorkGo(phase, worker.key)
  /\ UNCHANGED <<rows, lost, faults>> /\ Working

OpenerNotTaken ==
  /\ worker.at = "call"
  /\ \E phase \in {"unsure", "refused"} : WorkGo(phase, worker.key)
  /\ UNCHANGED <<rows, seenOut, faults>> /\ Working

\* record_send: the opener's row is made only now, when the hour's count first sees it.
OpenerSettles ==
  /\ worker.at \in {"ok", "unsure"}
  /\ LET c == worker.key[1] IN
     /\ SetRow(Opener(c), "out")
     /\ recent' = recent \union {Opener(c)}
     /\ answered' = IF worker.at = "ok" THEN Spoken(c) ELSE answered
  /\ JobEnds("done")
  /\ UNCHANGED <<mirror, lastIn, seen, activity, muted, opened, attempts, seenOut, faults>>
  /\ Working

\* release_opener: unless some send on the conversation may have landed.
MayHaveLanded(c) == \E k \in Keys : k[1] = c /\ ledger[k] # "none"

\* Tried again, as often as the queue allows.
Retried(m) == IF attempts[m] < MaxAttempts THEN "queued" ELSE "failed"

\* Determinately not sent: the claim is given up and the job tried again.
OpenerRefused ==
  /\ worker.at = "refused"
  /\ LET c == worker.key[1] IN
     opened' = IF MayHaveLanded(c) THEN opened ELSE opened \ {c}
  /\ JobEnds(Retried(worker.key))
  /\ UNCHANGED <<mirror, lastIn, seen, activity, muted, answered, attempts, ledger, recent,
                 seenOut, faults>>
  /\ Working
-----------------------------------------------------------------------------
(* core/worker.py: a handler that raises, a death, the jobs a death leaves. *)

\* An opener that went and has no row yet is lost to the hour's count.
Loses == lost' = IF worker.at \in {"ok", "unsure"} THEN lost + 1 ELSE lost

\* The handler raises, or closing its job does: a locked database is tried again, any
\* other error fails the job for good.
HandlerRaises ==
  /\ worker.at # "rest" /\ faults < MaxFaults
  /\ faults' = faults + 1 /\ Loses
  /\ JobEnds(Retried(worker.key)) \/ JobEnds("failed")
  /\ UNCHANGED <<mirror, lastIn, seen, activity, muted, opened, answered, attempts, ledger, recent,
                 greeted>>
  /\ Working

\* The process dies: every thread starts again, and the job in hand stays "running".
Dies ==
  /\ faults < MaxFaults
  /\ faults' = faults + 1 /\ Loses
  /\ sweep' = SweepRest /\ worker' = WorkRest /\ machines' = [a \in Machines |-> WorkRest]
  /\ UNCHANGED <<outside, rows, paused, greeted>>

\* reap_orphan_jobs, of a job that was running when the process died: by the worker when it
\* is idle, which fails it when its attempts are spent, or by the watchdog, which does not.
Reaps(m) ==
  /\ job[m] = "running" /\ worker.key # m
  /\ \/ worker.at = "rest" /\ ~paused /\ job' = [job EXCEPT ![m] = Retried(m)]
     \/ job' = [job EXCEPT ![m] = "queued"]
  /\ UNCHANGED <<outside, mirror, lastIn, seen, activity, muted, opened, answered, attempts, ledger,
                 recent, sweep, worker, machines, paused, seenOut, faults>>

SweepStep ==
  \/ \E c \in Convs : Reads(c)
  \/ Acts \/ MarksSeen \/ SweepEnds
  \/ Claims \/ AnswerSettles

WorkStep ==
  \/ \E m \in Msgs : Takes(m)
  \/ StopMutes \/ StopEnds \/ Declines \/ Defers \/ GoesOn
  \/ ClaimsOpener \/ OpenerTaken \/ OpenerNotTaken \/ OpenerSettles \/ OpenerRefused

SayStep(a) ==
  \/ \E c \in Convs, s \in Steps : MachineLooks(a, c, s)
  \/ MachineClaims(a) \/ MachineSettles(a)

Reap == \E m \in Msgs : Reaps(m)

Next ==
  \/ \E c \in Convs : Writes(c) \/ WindowCloses(c) \/ ReadFails(c)
  \/ Halts \/ Resumes \/ HourPasses \/ EnqueueFails
  \/ Lists \/ SweepStep
  \/ \E c \in Convs, i \in Ins : Asks(c, i)
  \/ WorkStep
  \/ \E a \in Machines : SayStep(a)
  \/ HandlerRaises \/ Dies \/ Reap

Spec == Init /\ [][Next]_vars

\* While the box is not stopped every tick of the periodic thread begins with a sweep and the
\* worker takes the next job; neither stops in the middle of its work while the process lives;
\* and the watchdog reaps what a death left.  (With the hours bounded no job that was put off
\* comes back for ever; in the code the oldest job goes first, and one put off is out of the
\* way for an hour.)
Fairness == SF_vars(Lists) /\ WF_vars(SweepStep) /\ WF_vars(WorkStep) /\ WF_vars(Reap)
FairSpec == Spec /\ Fairness
-----------------------------------------------------------------------------
\* The job of a STOP failed for good: its handler raised, or its attempts were spent.  The
\* queue makes no second one (core/queue.py enqueue).
GivenUp == {m \in stops : job[m] = "failed"}
TakenUp == {m \in stops : job[m] \in {"queued", "running"}}

\* A STOP behind the watermark is honoured, or has a job that will honour it, or had one that
\* failed for good: no death, error or kill switch between the steps of a sweep leaves one
\* with no job at all (poller.py:600-611).
StopKept ==
  \A m \in stops :
    m[2] <= seen[m[1]] =>
      m[1] \in muted \/ \E n \in TakenUp \union GivenUp : n[1] = m[1]

\* All that becomes of a STOP is what StopLine says: whatever a death, a failed read or a
\* failed enqueue leaves half done, a STOP is taken up before the watermark passes it, put
\* down only when the person is muted or its job has failed for good, and nobody else is
\* muted (poller.py:600-611, handler.py:97, worker.py:466-482).
Line == INSTANCE StopLine WITH upTo <- seen, due <- TakenUp, given <- GivenUp
ImplementsStopLine == Line!Spec

\* What the platform took in one hour, or may have, is within the hourly cap but for one
\* message of each thread beside the first that saw the last free place, and one more for
\* each opener that was sent and not recorded, by a death or an error in between
\* (store.py:675, handler.py:173, reply.py:541).
MayHaveGone == {k \in recent : ledger[k] # "none"}
CapOvershoot == Cardinality(MayHaveGone \union greeted) <= Cap + 1 + Cardinality(Machines) + lost

\* On a box that is not stopped for good, whoever writes STOP is muted in the end, or a STOP
\* of his was given up (handler.py:97).
EveryStopHonoured ==
  <>[]~paused =>
    \A c \in Convs :
      (\E m \in stops : m[1] = c) ~> (c \in muted \/ \E n \in GivenUp : n[1] = c)
=============================================================================
