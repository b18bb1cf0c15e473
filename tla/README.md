# The box, in TLA+

A TLA+ development of the Unified Inbox Machine: the program of a single-customer
"box" that answers the customer's conversations, runs AI coworkers on a schedule and
keeps itself up to date. The code is Python over one SQLite database, run as several
processes and threads per box, so most of what can go wrong is an order of steps that
no test wrote down. The modules here are translated from the code; every property
names the code it is about.

- [Inventory](#inventory): the system's parts, their state, operations and hazards
- [Modules](#modules): what models what, and how to read it against the code
- [Runs](#runs): what TLC checks, the bounds, the fairness
- [Proofs](#proofs): what TLAPS proves, and along which argument
- [Where the code and its words differ](#where-the-code-and-its-words-differ)
- [Not modelled](#not-modelled) and [Plan](#plan)

## Inventory

### Processes of a box

| Process | Started by | What it does |
| --- | --- | --- |
| worker | `deploy/aios-worker.service`, `Restart=always` | main thread runs jobs one by one; a heartbeat thread; one thread of periodic tasks (the inbox poll, automatic replies); a thread per machine job |
| dispatch (web) | `aios-dispatch.service`, gthread | screens, webhooks, `/deploy`, a person's replies, the MCP connector |
| shift tick | `aios-shifts.timer`, every minute | plans, queues and starts coworker shifts, closes dead ones, reports |
| runner | one transient unit per shift | works one shift; its AI runs in another unit |
| box updater | `aios-update.timer` (08 and 20 UTC) and `/deploy` | `scripts/box_update.sh` |
| watchdog | timer, every 30 minutes | probes, alerts, a second reaper of jobs |
| slack, check-in, backup, litestream, restore drill, morning, key features | units of their own | transports and periodic I/O |

They share the database (`core/state.py`: one statement or one `with connect()` block is
a transaction), two flocks (`/run/aios-shift.lock`, `/tmp/aios-deploy.lock`), a few files
(`data/PAUSED`, `/run/aios-shift.next`) and the outside world (a messaging vendor, mail,
model providers), whose answers may be lost.

### Components

**Job queue and worker** (`core/worker.py`, `core/queue.py`, `core/state.py`,
`core/pause.py`). State: the `jobs` table (status, attempts, not_before, updated_at), one
checkpoint, the kill-switch file; the worker's locals. Operations: create, claim the oldest
claimable row, run the handler, complete / fail / requeue, defer with the attempt given back
(budget, send cap), touch, reap (worker: capped, fails what is exhausted; watchdog:
uncapped), notify. Hard: two reapers and a live worker on one row; a crash between any two
statements; a locked database at the write that matters; deferral against fairness. Correct
when verdicts are final and true, nothing runs after its verdict, attempts are bounded, the
stop switch stops, every job settles.

**Shift and update locks** (`core/coworkers/locks.py`, `scripts/box_update.sh`,
`core/dispatch.py` deploy). State: the two flocks and the next-start file. Operations: take,
probe (take and drop at once), back off, wait. Hard: two programs in two languages take two
locks in opposite orders, and every probe is itself a short hold. Correct when an update and
a shift never overlap, nobody waits while holding, and an update is not postponed for ever.

**Coworker shifts** (`core/coworkers/runs.py`, `runner.py`, `schedule.py`). State: the
`coworker_runs` ledger, the tick's heartbeats ("since"), systemd's units. Operations: tick
(close dead runs, plan, queue, drop, miss, launch, clean up, write the next start, report),
run, start now, report, clean up. Hard: tick, runner and a person in separate processes; a
death or a reboot anywhere; the owner switching a coworker or the plan off in between;
two reporters. Correct when a slot is worked at most once and under the lock, its end is
final and told truly and once, no slot is skipped in silence, and every run ends.

**Conversation claims** (`marketing/customer_voice/claims.py`). State: `inbox_claims`,
`inbox_takeovers`, `inbox_reservations`. Operations: claim, reserve, release, take over,
hand back, lift by a new comment, expiry. Hard: claim and take_over are each several
transactions, called from jobs, requests and the poller at once. Correct when no machine
holds what a person has taken over.

**Inbox sends** (`inbox/reply.py`, `handler.py`, `store.py`). State: the send ledger, the
opener's mark on the conversation, the messages mirrored in the thread. Operations: a
person's reply, a machine's message, the box's own reply, the opener; claim the ledger key,
look again, call the vendor, settle, mirror. Hard: the vendor may take a message and say it
did not; double clicks; a person replying while a machine is on its way out; a kill between
any two of these. Correct when no key's message reaches the customer twice, the ledger and
the answer to the person are true, and a person always wins.

**Inbox poller** (`inbox/poller.py`, `email_channel.py`, `window.py`). State: watermarks per
conversation, the mirrored thread. Operations: list a channel, read a page, mirror it, end
claims, detect STOP, enqueue a job for the message to act on, move the watermark. Hard: a
crash between any two of these; the box reading its own messages back; an opt-out racing a
send; the hourly cap shared by the periodic thread, the main thread and a thread per machine; a
job that raises, is reaped and in the end given up. Correct when no STOP is lost, a STOP mutes its
conversation unless its job failed for good, and the hour's sends stay within the cap but for
what is in flight.

**Automatic replies and drafts** (`inbox/autosend.py`, `drafter/`, `inbox/mailbox_drafts.py`).
State: one draft per message with the rules it was written under, what the owner threw away,
his list of drafts to write again, the stamp of the mailbox copy. Operations: draft, rewrite,
recheck, dismiss, revive, copy, send on its own. Hard: a model call takes minutes, and owner,
rules and his own AI go on meanwhile; a lost answer of the mailbox. Correct when a no stays a
no, nobody's words are written over, no call is paid for twice, every message gets a draft or
a decision, and one copy reaches the mailbox.

**Approvals and proposals** (`core/approvals.py`, `aeo_machine/proposals.py`). State: one row
per proposal. Operations: propose, expire, decide, run. Hard: two screens at once; a week
between the proposal and its run; a death in the middle. Correct when a proposal is carried
out once or not at all, and what was decided stays decided.

**Published articles machine** (`marketing/aeo_machine/`). State: the plan's rows, the
website. Operations: add, ask for, rewrite, reorder, remove, write and publish, take off.
Hard: the job takes minutes and marks rows by id alone, while screens and approvals change
them; the website's answer may be lost. Correct when the weekly number of new articles holds
however rows move between states.

**Connections** (`core/connections/`). State: the list of apps (one setting, read and written
whole), a secret per app, the one sign-in under way, a file lock. Operations: begin, cancel
and finish a sign-in; add, turn on and off, remove; call and check with a token renewed when
due. Hard: what renews a token is good once; the browser comes back twice; the owner removes
an app during a call. Correct when nothing is spent twice, what is stored can be renewed, and
a removed app stays removed.

**Cost guard** (`core/cost_guard.py`): reads what was spent and then lets a caller spend.
**Box mail** (`core/box_mail.py`): a claim row per mail before the SMTP conversation.
**Connector and seats** (`core/connector/`): one-use codes, seats and their revocation.
**Box ownership** (`core/claim.py`): a box is claimed once. **Push** (`core/push.py`): keys
made once under a lock. **Release** (`core/release/`): which release is the right one.
**Watchdog** (`core/watchdog.py`): probes, alerts and their throttle. **Machine jobs and
sandbox** (`core/machine_jobs.py`, `core/machine_sandbox/`). **Post targets** (`core/state.py`
2592-2716): functions nothing in this repository calls. **Brain and AI sign-in**, **Slack**,
**dashboard**, **foundation** (`marketing/foundation/`), **check-in, backup, restore**,
**vendors and settings**. `PROJECT.json` lists each with its files and status, and under
"hazards" every place where an order, a crash, a lost answer or a stale read can bite, with the
property that watches it.

### How they interact

The poller mirrors a page, ends claims and enqueues jobs; the worker runs the inbox handler,
which claims the opener and sends; a machine claims a conversation and sends through
`send_for_machine`; a person's reply takes the conversation over and sends. All of them end
in `_deliver`, the ledger and the mirror. The tick launches runners, and both obey the two
locks with the updater. The kill switch stops the worker's claims, what is periodic and every
automatic send.
The poll, the listener, the drafter, the mailbox copies and the articles job share the worker's
one periodic thread and so never overlap; jobs run on its main thread beside them, each machine's
job on a thread of its own, screens and approvals in the web process.

## Modules

| Module | Models | Extends / composes |
| --- | --- | --- |
| `JobContract` | what the queue promises: accepted once, one execution at a time, one verdict | |
| `JobQueue` | the queue, the worker, its heartbeat, both reapers, the kill switch | implements `JobContract` |
| `ShiftLocks` | the two locks: runner, updater and tick | |
| `ShiftRuns` | the ledger, the tick, the runners, the reports, the owner's switches | composes with `ShiftLocks` by instance |
| `SendOnce` | what the inbox promises of an irreversible send | |
| `Claims` | who may speak on a conversation | |
| `InboxSend` | the four doors, the ledger, the vendor, the mirror and the poll | extends `Claims`, implements `SendOnce` |
| `StopLine` | what the intake promises of a STOP | |
| `Intake` | the poll of a channel, the worker's inbox handler, the listener's and the machines' sends, STOP, retries and reaps, the kill switch, the watermark and the hourly cap | implements `StopLine` |
| `DraftLife` | what may become of the reply to one message | |
| `Drafts` | the drafter, the mailbox copies, the owner and his AI | implements `DraftLife` |
| `DecideOnce` | what the queue of approvals promises | |
| `Approvals` | propose, expire, decide, run | |
| `Articles` | the plan, the writing job, the website, the approved changes | extends `Approvals`, implements `DecideOnce` |
| `Connections` | sign-in, stored token, renewal under the lock, the list of apps | |
| `*Proofs` | the theorems and proofs of the module they are named after | |
| `MC*` | the constants of the small instances | |

A state machine step is one transaction, one lock operation, one file operation or one call
to the outside; what a process does between two of them is not a step. A variable that
appears under "observation" in a module is not in the code: it counts or remembers what a
property speaks of, and no guard reads it (bounds such as `faults` are named in the
constants). Definitions marked "Mutant" are changed copies of the definition that follows
them; no specification uses them, and each makes one property fail.

### JobQueue

`status`, `attempts`, `held` (not_before), `fresh` (updated_at against the reapers'
threshold), `born` (created_at) and `noted` (the checkpoint) are the row. `pc` follows
`run_forever` and `process_one`: `poll` (the kill switch was read), `run` (claimed), `note`
(about to send the slow notice), `settle` (the handler came back, its outcome not written),
`hook` (failed, the owner not told yet), `paused`, `reap`, `reaphook`. `scan` and `wd` are
the stale rows a reaper has read and not yet updated: the read and the guarded updates are
steps of their own. `Fate` and `Window` give what each `except` clause of `process_one`
writes. Time is an order of pause intervals (300 s; a budget deferral is two), and half an
hour without a touch is the action `Age`, which for a row in the hands of a live worker is a
fault, since its heartbeat touches it each minute. `MaxFaults` bounds crashes, locked-database
errors and such stalls together.

### ShiftLocks and ShiftRuns

A probe of a lock takes it, so the prober is its holder for one state (`polling`,
`rechecking`, `probe`, the tick's `look`). `rpc` follows `locks.shift()`, `upc` the loop at
the head of `box_update.sh`; `TimeOut` is systemd's limit on the timer's unit, which the unit
of `/deploy` does not have. The kernel drops the locks of a process that dies.

`ShiftRuns` keeps the ledger's columns (`st`, `claimedAt`, `emailed`, `pushed`) and gives the
tick a phase per section of the code and the rows it has read (`tset`, `tlist`, `tdue`,
`tmiss`): what was read early and used late is a variable, so the owner, a runner or a person
may change the row in between. `Move` is `runs._move`, the one conditional update that every
transition goes through. Everything at the locks is `ShiftLocks`' own actions, conjoined;
the work of a shift is a choice of how it ends. Time is minutes up to `MaxTime`; a tick never
outlasts its minute (its unit has a limit shorter than that), and a minute without a tick is
one in which the box was off.

`LookBack` is the two days of `schedule.py:28-30`: a tick after a longer time off reports what was
missed within them and is silent about the rest. `file` is what a coworker's file says (on, off,
or of no use), read once at the head of a tick into `tlist` and `ton`; `Switched` are the slots
whose file may change, and each change spends the bound on faults as well as its own. `excused`
remembers the slots that a tick may leave without a row by what the code says: those older than
`LookBack`, and those whose coworker was off, or its file of no use, when the first tick after
their window read it. `unseen` remembers the rows that the sweep of a switched-off coworker's queue did not find
queued, or failed to close.

### Claims and InboxSend

`claim` is three steps (drop the reservation, look at the takeover, upsert and read back), and
`take_over` up to four (read the claim, read the reservation, write the takeover, release).
A call may stop between any two: `Abandon`, `TakeOverFails` and `Dies` are always possible and
not bounded. Times are not numbers: `claimed_at` is compared only with what people wrote, so
it is kept as the set of moments that were past (`old`), and a comment as newer or not than
the takeover (`anew`). Two events in one second, which the code's text stamps cannot order,
are therefore left out.

`InboxSend` has one conversation that starts with one inbound message. A key's ledger status,
the thread's `row` for each message (`ai`; `kept`: the box's own copy of a person's reply;
`human`: the poll's copy), where each sender is, and `went`, what really reached the customer.
The vendor call either takes the message or not, and then says so, says no, or says nothing;
`VendorTakesNot` and `unsure` keep both truths apart. The gates that only refuse (opt-out,
window, hourly cap, pause, lane, account) change no state and are left out: dropping a refusal
only adds behaviours. `holder()` and `person_wrote_since()` of one re-check are read in one
step. The page the poll fetched is abstracted to what is on the platform when it is mirrored,
since what a page shows stays there. Not modelled: an error in `claim_send` or in the
`get_send` that follows a lost claim, and the private reply to a comment except for its
reservation.

### Intake

`InboxSend` has the races of one conversation's sends; `Intake` has what comes before them.
`sweep` is the periodic thread, in `_sweep_channel` (`sweep`, `act`, `mark`) or in
`send_automatic` (`claim`, `call` and what came of it); `worker` is the main thread in
`handler.handle`; `machines` are the threads in `send_for_machine`, each of which looks, claims
its row, calls and settles. A message is its place in the conversation: `seen`, `lastIn` and
`answered` are such places, and `activity` is the number of messages the platform's `updatedTime`
stands for. `stops` says which messages are a STOP. `WindowCloses` makes what was written so far
too old to answer. `recent` is the rolling hour: its rows leave it together. `HourPasses` brings
back what was deferred. The one assumption: no more than a page (`_MSG_PAGE`) is written between
two readings; the code reads no second page, so that what is beyond it is lost.

A job may end badly. `HandlerRaises` is the `except` clauses of `process_one`: queued again, or
failed for good, at once or at the last attempt. `Dies` leaves what was running running, and
`Reaps` is the reapers' look: the worker's, which fails a job whose attempts are used up, and the
watchdog's, which queues it again. A failed job is not made again, since `state.create_job` finds
its key; so a STOP whose job failed stays unmuted, and only a later page that shows the STOP again mutes
it, in the poller (`poller.py:555-561`). A verdict the database does not take leaves the row
running, which is `Dies` without the death: `JobQueue` has that case in full.

`paused` is `data/PAUSED`: each thread looks at it before it begins, none in the middle. The
handler's own gates that change no state (a machine that holds the conversation, a missing account,
the lane) are the choice between `Declines` and `GoesOn`. People's own replies count in the hour
but are not held by it, and the private reply to a comment spends the cap in the same three
statements as a machine's line; neither is a sender of its own here.

`StopLine` keeps of a conversation how far it was read (`upTo` is the watermark, `seen`), the
STOPs written on it, those taken up (`TakenUp`: queued or running), those given up (`GivenUp`:
their job failed) and whether it is muted.

### Drafts

One record, `thread`, is the periodic thread with the draft in hand and the rules it took
into the call; `kind` is one of the sweep's four lists. Rules are numbered by the owner's
changes; `rules[d]` is the row of `inbox_draft_rules` (no row, the box's, or the mark of the
connector's draft). `words` remembers whose words the body is. `put` is `INSERT OR IGNORE`,
`rewrite` spares a dismissed draft, `revive` takes only the box's own "no reply", and a first
"no reply" is two statements (`undismissed` is between them, where a screen can show and
discard it). The list of requests is read and written back in two steps, by the thread (`listed`)
and by the owner's screen (`asking`), and either may write back what the other changed.

`World` is what shuts a conversation to `needs_a_draft`: an answer of the owner's or of the
platform (`Answers`), an opt-out (`Mutes`), a machine's claim (`Holds`, `Frees`), a newer message
(`Newest`), an automated sender, a skipped channel or a sender the rules refuse (`LeftAlone`),
and the drafter switched off (`SwitchesOff`). Each list of the sweep has its own query: `Waiting`
is the screens' (`store.waiting`), which a claim does not change, `InMailbox` the mailbox's.
`fails`, `resting` and `turn` are `_failed`, `_resting` and the count of sweeps: what failed
`FailsToRest` times in a row is set aside for `RestSweeps` sweeps. `Stubborn`
are messages about which every call fails, which is what could keep the others from their turn.

Left out: a sweep's other sizes (`per_sweep` is 1 here, so that a sweep takes one of the lists'
first rows), the listener's `new_only` sweeps, which are a part of a sweep, and the order of two
messages without words. A recheck that fails is not set aside (`draft.py:930-935`), as in the code.

`DraftLife` knows no model, rules, sweeps or deaths: a reply is not there, nothing is to be
answered, it is the box's or the AI's words, and then it may be withdrawn by the box or thrown
away by a person, after which its words never change. `LifeOf` reads that state off the row: it
is what `store.put`, `rewrite`, `revive` and `dismiss` together must add up to.

### Approvals and Articles

`approval` is a row's status and `hand` the row a web request runs after its yes; a row that
waits beyond its week is `expired` at once here, since every reader runs `_expire` first.
`Articles` gives the yes its meaning: a proposal is a set of tasks (`Change`) and, for a plan,
the new order (`Orders`). What is carried out is looked at first (`RunLooks`, `Holds`) and then
done statement by statement (`todo`): `_run_plan` rewrites, adds, removes and then reorders, a new
topic "to be written now" is added and then asked for, and taking an article off is a call and a
mark. A row that changed since the look makes a statement change nothing (`RunMisses`), and a death
leaves the rest undone. Proposals about settings and facts are left out: each is one save of a value
nothing here reads. `job` is the
writing job: `taken` is between `next_up` and the claim, `writes` is the model and the guard,
then the website, then the mark. `live` is the website. `DecideOnce` keeps of all this what the
queue owes: `approval` is its `answer`, `ran` its `carried`. Days are `clock`, the week `Week`
ticks and the pace `Week \div Cap`.

### Connections

`req` is one record per request, with its place in the code and its locals: the token it
read (`seen`), the one it sends or got (`tok`), the list of apps as it read it (`read`). Tokens
are numbered by the app; `good` are those whose renewal credential the app still honours. What
renews a token and the token itself are one number, since the code stores them together. To begin
a sign-in is to look at the list, register over the network and then put the pending one
(`Begins`, `Registers`); to add an app with a key is to look, to ask it for its tools, to store the
key and to write the list as it was read before (`Adds`, `Lists`, `StoresToken`, `Writes`), or to
clear the key when that write fails (`AddFails`).
`pending` is the one sign-in under way, `lock` the flock. `lost` remembers tokens whose renewal
the box did not get to store, through a lost answer or a death.

## Runs

Every run covers its whole state space (a refuted one up to the counterexample), with deadlock
checked except where an instance comes to rest when its bounds are used up (`Intake`, `Drafts`,
`Articles`, `Connections`).

| Run | Instance | Shows |
| --- | --- | --- |
| `MCJobQueue` | 2 jobs, one that may be deferred; cap 2; 1 fault; fair | `CapHolds`, `NoticeStands`, `InHandUnsettled`, `HeadsUpOnce`, `HaltStops`, `VerdictFinal`, `EveryJobSettles`, and that the queue implements `JobContract` |
| `MCJobQueueSuccessNotReportedFailed` | 1 job | the code refutes `SuccessNotReportedFailed` |
| `MCShiftLocks` | 2 runners, 2 updaters, the tick, fair | `UpdateExcludesShift`, `UpdateAfterShifts` |
| `MCShiftRuns` | a scheduled slot that may be switched off and one asked for, 5 minutes, a look back of 1, 2 faults of which 1 may be the switch | `WorkedAtMostOnce`, `ToldTheEnd`, `NoSilentSlot`, `EndIsFinal`, `OnlyWhileScheduled` |
| `MCShiftRunsLive` | 1 slot, an updater, 2 minutes, 2 faults of which 1 may be a switch, fair | `EverySlotReported` |
| `MCInboxSend` | a person, a machine, the poller | `PersonWins`, `TakeoverHolds`, and that sends implement `SendOnce` |
| `MCInboxSendOwn` | a double click, the box's reply, the opener, the poller, a message typed on the platform | `LedgerTrue`, `ToldTrue`, `PersonWins` |
| `MCIntake` | 1 conversation, 2 messages, a page of 2, cap 1, one machine with one line, 1 attempt, 1 fault (a death, a raise, a failed read, the switch or an hour), fair | `StopKept`, `CapOvershoot`, `EveryStopHonoured`, and that the intake implements `StopLine` |
| `MCDrafts` | 2 conversations of one message, one by email, one stubborn; set aside after 2 failures for 2 sweeps; 1 change of rules, 1 fault or turn of the world, 1 request; fair | `PaidOnce`, `OneCopy`, `NoStaysNo`, `TheirWordsStand`, `EveryMessageJudged`, and that drafts implement `DraftLife` |
| `MCArticles` | 2 topics; 3 proposals (a topic to be written now, an article off, a plan of a rewrite, a topic and an order); 2 screens, a week of 2 days with 1 article, 3 days, a fault, 2 edits | `RunOnce`, `WithinTheWeek`, `DecisionFinal`, and that the queue implements `DecideOnce` |
| `MCConnections` | 1 app, 2 requests, 2 sign-ins, 2 tokens that age, a fault, 2 changes | `TypeOK`, `SpentOnce`, `StoredIsGood`, `CodeOnce` |
| `MCConnectionsNotWrittenBack` | the same, no fault | the code refutes `NotWrittenBack` |

The type invariants of the older modules, of `Intake`, `Drafts` and `Articles`, and `JobInv`, `LockInv`,
`OneOfEach`, `RunInv`, `WorkUnderLock` and `InHandIsApproved`, are theorems and are no longer spent
a run on.

**Bounds.** Two jobs give every order of claim, deferral, reap and settlement between a job
and an older one, and two faults put a crash and a locked write, or two stalls, into one
life (the run takes one, which keeps the fair graph small; the proofs cover any number); the
worker is one process, so more jobs add no new pair of actors on a row. Two slots
are needed for one to wait behind the other; five minutes cover one window of a minute and one
of two, a tick within the look back, one beyond it and every minute after (the tick treats all
later ones alike); each fault kind can hit any statement, and the second one its recovery. Two updaters are the timer's and `/deploy`'s.
In the inbox the kills and failures are unbounded; one machine and one person meet in every
pair of statements, and the second person is the double click, the one case of two requests
that share a key. The machine and the own senders are checked in separate instances because
they share nothing but the person's takeover, and the theorems below cover any mix. A
message typed on the platform reaches the box the same way as the poll's copy of a person's
reply, which the first instance has.

In `Intake` two messages are a STOP and what is written before or after it, which is every
order a page can show; one conversation suffices because the threads share nothing between
two but the cap, and the opener, the reply and a machine's line of one conversation already meet
there. With one attempt the reaper and the last `except` give a STOP's job up at the first fault,
and the watchdog's uncapped reap is the retry; more attempts add only more such rounds, which the
theorems cover. In `Drafts` one message competes with another whose calls always fail, and
meets the owner in every statement of a call. Two messages of one conversation, messages that are
left alone, and a fault together with a turn of the world are not in the instance (each multiplies
the fair graph); the theorems are of any number of all of them. In
`Articles` the second topic is the one that room is made for when the first is sent back; three
days go past a week of two. The changes that switch, retry or only reorder are not in the
instance; the theorems are of any changes. In `Connections` two requests
are the two that find one token old; `MaxAges` of 2 lets the renewed one age as well.
The largest graphs are `MCShiftRuns` (5.2 million states), `MCArticles` (3.7), `MCConnections`
(2.5) and `MCIntake` (0.9, with liveness).
Symmetry is used for screens and requests, which no property tells apart.

**Fairness.** Actions of the environment (a death, a reboot, an owner's switch, an enqueued
job, a typed message) are never assumed. `JobQueue`: the worker's steps (systemd restarts it,
a handler bounds its own calls), the heartbeat, the watchdog's timer and time are weakly
fair; time is strongly fair because it passes only in phases the worker keeps leaving and
returning to. The premise of `EveryJobSettles` is that the stop switch is off in the end. It
speaks of the jobs that are not deferred without end, with at most one that is.
`ShiftLocks`: a process that is running goes on and a shift ends (its unit has
`RuntimeMaxSec`); no process is assumed to start. `ShiftRuns`: the timer ticks, units that
were started run or are ended by their limits, minutes pass; the premise of
`EverySlotReported` is that the plan includes coworkers in the end, because the tick does
nothing for a box whose plan does not. `InboxSend` has no liveness: a kill leaves a key at
`sending` for good, by design. `Intake`: a sweep is begun again and again (strongly fair,
since it needs the thread at rest), what a thread has begun it goes on with while the
process lives, and the reapers run; the machines are not assumed to. The premise of
`EveryStopHonoured` is that the kill switch is off in the end, since nothing begins while it is on;
its conclusion is that a STOP is muted or its job was given up. `Drafts`: the periodic thread's
steps are weakly fair, faults and the owner never assumed; the premise of `EveryMessageJudged`
is `Answerable`: that in the end the message stays one the drafter may write to, with the drafter
on. `Articles` and `Connections` promise nothing in time: a proposal may wait and expire, a
removed app may never come back.

## Proofs

TLAPS checks every theorem for every value of the constants that the ASSUMEs allow (sets of
any size, any cap, any number of faults). The assumptions say that the constants' sets do not
overlap and bounds are naturals; `KeysAssumption` says that keys of automatic sends are their
own (`machine:`, `auto:`, `opener:` prefixes), while people may share one.

- `JobQueueProofs`. `TypeCorrect`, then `JobInvariant`: `JobInv` is inductive with the types.
  It strengthens the safety properties by what is known of the row in hand (while a handler
  runs the row is `running`, or `queued` if a reaper took it, and the local copy of attempts
  equals the row's), without which nothing can be said of the verdict written at the end.
  `CapCorrect`, `NoticeCorrect` and `HaltCorrect` are parts of it; `VerdictIsFinal` is an action
  property from it; `QueueImplementsContract` maps each step to one of `JobContract` or a stutter.
- `ShiftLocksProofs`. `LockInv` (who holds which lock is exactly who stands where) is
  inductive, and `ExclusionCorrect` follows: the runner in `in` has looked at the deploy lock
  holding the shift lock, the updater in `update` has looked at the shift lock holding the
  deploy lock, and one of the two looks came second.
- `ShiftRunsProofs`. The steps at the locks are `ShiftLocks`' own, so `LockInv` is an invariant
  here too, and `NoUpdateDuringShift` follows from it. `RunsInvariant`: `RunInv`
  links the runner's place, the row's status and the counts of starts, mails and pushes; from it
  `WorkedOnce`, `WorksUnderLock`, `ReportsTrue`, and `EndStays` as an action property.
  `StartedAsScheduled` (`OnlyWhileScheduled`) carries the queue from the tick's sweep of it to its
  launch: what the tick starts, or a runner takes, was switched on when that tick read the files,
  or is one of `unseen`.
- `InboxSendProofs`. `ClaimsInv` (a takeover not yet effective has its `take_over` on the way;
  every machine past its check is in `raced`) gives `TakeoverHolding`. `SendInv` (who owns a key
  owns it alone and knows what became of its message) gives `LedgerIsTrue`, `ToldTruly` and
  `SendsOnce`, the refinement of `SendOnce`. `OvertakenInv`, over `TimesInv`, carries "the person
  wrote after the claim" from the mirrored row to the machine's last look: `PersonAlwaysWins`.

- `ArticlesProofs`. The queue of approvals is a machine of its own inside `Articles`: every step
  is one of `QueueMoves` (a proposal, an expiry, a no, a yes, the answer of what a yes ran, a
  death). With `StepInv` (a request is at work exactly while it has a row in hand) `QueueInv` is
  inductive: `CarriedOutOnce`, `TheFirstAnswer`; `DecidedForGood` follows as an action property.
  `QueueDecidesOnce` maps every move to a step of `DecideOnce` or a stutter: the answer written at
  the end looks at nothing, so it needs that what is in hand is approved (`InHandIsApproved`) and
  was set going once (`GoingIsRun`). `ArticlesTypeCorrect` carries the plan's and the job's types.
  `WeekHeld` is the weekly number. `WeekInv` names a set of unheard rows, at most one per fault:
  every other article went on the website a pace after whatever was there before, because `next_at`
  looked at the plan's first days of all of them before its topic was taken, and a first day is
  never before the article. Times a pace apart fall into different ones of the week's `Cap` paces,
  so the recent ones inject into `0..Cap-1`, and the rest are no more than the faults. A rewrite, a
  row sent back or an article taken off changes no first day (`Quiet`): that is why the pace holds
  where the number alone would not.
- `DraftsProofs`. `DraftsTypeCorrect` carries that a draft is in hand exactly while the thread is
  at work. `RefusedInv` (what was thrown away is dismissed and has words, so the only statement
  that would bring it back, which asks for a "no reply", passes it by) gives `ThrownAwayForGood`;
  `MailInv` (an unstamped draft has no copy the box was told of) gives `CopiedOnce`; `TheirsInv`
  (words that are not the box's are marked so, and a call about them is new or was asked for)
  gives `TheirWordsKept`. `OneAnswerPaid` is by an account (`PaidInv`): for each draft and the
  rules of now, the calls paid, the one under way and those still to come (`ToCome`: one for a
  draft that is behind, one for a request that stands, one more for a "no reply" that a death left
  undismissed) are within one, the requests and the faults; a call moves one from the second part
  to the first, a change of the rules opens a new account, and what is behind it is closed. For
  each kind of step a lemma (`ThinksFits`, `AnswersFits`, `WordsFit`, ...) balances it.
  `DraftsLiveSo` maps every step to one of `DraftLife` or a stutter. It needs the three invariants
  above, `PaidAux` (what is judged on request is still on the list, and what is on the list was
  written) and `DismissedInv` (only what was written is dismissed, or the first words of a message
  would be born withdrawn).
- `ConnectionsProofs`. `ConnectionsTypeCorrect` needs `Carries`, what a request has in hand at each
  of its steps. `CodeInv` gives `CodeUsedOnce`. For the tokens every step is first reduced to one of
  a few `Moves` (a token is looked at, sent, renewed, stored, dropped); `TokenInv` is inductive
  over those. Its parts: a token belongs to one app, one about to be sent is good or its answer
  was lost, a new one is its request's alone until it is stored. `TokensSpentOnce` and
  `TheStoredTokenIsGood` are two of its conjuncts, neither inductive without the others.
- `IntakeProofs`. `IntakeTypeCorrect` needs that the job and the page in hand are messages that
  came (`JobInHand`, `PageInHand`) and that the watermark is behind what came by a page at most
  (`Watermark`). `StopInv` adds that the job of a STOP ends only by muting or by failing for good,
  and that whatever a sweep is about to put behind the watermark is handled; `NoStopLost` follows,
  and `StopsInLine` maps every step to one of `StopLine` or a stutter: the two ways a sweep acts on
  a STOP are a taking up and a muting, the mark is a passing (which `MarkedHandled` allows), a job
  that fails is a giving up, and a death, a reap or an hour that passes moves no STOP's job out of
  what is taken up otherwise. `CapHeld` is by `CapInv`: what counts in the hour (`Load`), the openers
  that left and what each thread has seen room for and not yet claimed included, is within the cap,
  one for each thread beside the first (the machines' and one of the other two) and one for each
  opener whose record was lost.

In `JobQueueProofs`, `InHandCorrect` and `HeadsUpCorrect` are corollaries of `JobInv` too. In
`ShiftRunsProofs`, `NoShiftSkipped` has an invariant per slot (`SlotSeen`): a slot whose window
closed between two heartbeats is among the missed ones once the tick has made its plan, and has
its row before that tick can write the next heartbeat, unless it is older than the look back or
its coworker was off or unreadable when the tick read it (`excused`).

Every safety invariant, action property and refinement of a passing run is a theorem. Only
model-checked: `EveryJobSettles`, `UpdateAfterShifts`, `EverySlotReported`, `EveryStopHonoured`,
`EveryMessageJudged`, because liveness under fairness is beyond the prover; and the two properties
the code refutes. No module needs recursion.

## Where the code and its words differ

The first two are runs whose counterexample is a behaviour of the code.

1. `SuccessNotReportedFailed`: `queue.complete` runs inside the `try` of `process_one`; a locked
   database there on the last attempt fails a job that succeeded and tells its owner so, which
   `core/state.py:2574` says must never happen.
2. `NotWrittenBack`: `token_for` sees that the app is still on the list, asks the app for a new
   token and stores it whatever happened during that call, while `store.remove` takes no lock.
   A removed app's credential is stored again, which `core/connections/oauth.py:315` says never
   happens.

Met while modelling, built into the models as the code has them, and not runs of their own:

- `aios-update.service` has `TimeoutStartSec=30min`, less than the two hours
  `box_update.sh:35` says the updater waits at most; on a box with an hourly coworker the
  timer's updater is killed every time (`TimeOut` in `ShiftLocks`).
- `runner.run` does not look at the window again after the tick's claim; `runner.py:641` says
  "a shift is never run after its latest".
- A poll between the vendor call and the mirror (or after a mirror that failed) writes the box's
  own message as a person's; the comment at `poller.py:413` says this "can never" happen.
- `handler.py:97` "opt-out law runs before anything else": once the poller has read a STOP, the
  listener may still answer the person's next message, until the main thread has run the STOP's job.
- `store.check` writes back the list it read before asking the app: a tool the owner turned off
  during the check is on again, although "a new read-only tool stays off until the owner turns it
  on"; two screens that change two apps at once lose one of the changes.
- `plan.py:208` "a live or unpublished article is never removed": a row removed between `next_up`
  and the claim (`job.py:223`) is written and published without a row, and one left `failed` by a
  lost answer may be live and is removable.
- `plan.mark` is unguarded: taking an article off while its rewrite is under way leaves the row
  published and the article off, or the other way round.
- `drafter/store.py:52` says a rewritten draft carries the rules that wrote it; `draft.py:621`
  reads the rules after the call, so a change during the call makes old words look fresh.
- A first "no reply" is on the screen until its second statement; one discarded there may be
  taken up again by a later recheck.
- A process that dies while an approval runs leaves it `approved` for good.
- `core/worker.py:428` "the rest of the queue drains": one budget-deferred job cannot starve
  the others, but two can, since a deferral (600 s) is two pauses (300 s) and one of them is
  claimable after each pause. `MCJobQueue` with three jobs, `Deferring = {j1, j2}`, shows it.
- A STOP whose job fails for good (the last attempt raised, or its worker died on it) leaves the
  person unmuted: `state.create_job` finds the failed row by its key and makes no other. The failure is
  reported to the owner as any other is. Later pages that show the STOP still mute in the poller.
- `runner.py:283-300`: the sweep that closes the queued rows of a switched-off coworker may fail on
  one, and a runner may put one back behind it; the tick then starts that shift once more.
- `needs_a_draft` (`store.py:209-228`) asks whether the newest inbound message has a draft, not
  whether it was answered: a message the owner answered by hand is drafted, and paid for, all the
  same.
- The owner's list of drafts to write again is read and written back by two processes: a draft that
  was just judged may be on it again, and is judged, and paid for, once more (`PaidOnce` counts it).
- `draft.py:746-785` sets aside what fails again and again; what fails comes back after its rest, so
  messages enough to fill every turn between the rests would still keep an older one waiting. The
  instance of `EveryMessageJudged` has one such message. A recheck that fails is never set aside
  (`draft.py:930-935`).
- `proposals.py:412-413` says the owner "never gets half of what he approved"; the plan is several
  transactions after that check, so a change or a death between them leaves half of it.
- The watchdog's reaper has no cap (`watchdog.py:1991`), which is why `CapHolds` counts rescues.
- `claims.py:77` "no machine claims the conversation again": the look at the takeover and the
  upsert are two transactions, and `take_over` releases only the holder it read. `TakeoverHolds`
  states the exceptions exactly.
- `claim()` drops the reservation before it holds the claim: for a moment the conversation looks free.
- `locks.py`: a probe by one process can make another's non-blocking attempt fail, so
  `box_update.sh:59` may report a deploy in progress when there is only a tick looking.
- `runs.py:90` "The window still counts" against `runner.py:287-297`; `runner.py:416` "never runs
  beside another" against a failed stop of the AI's unit (`core/brain.py:1009`).

## Not modelled

Rendering, parsing, wording, logging; what handlers, coworkers and models do inside one step;
clients of vendors; backups and provisioning; the installation and rollback inside
`box_update.sh`. SQLite itself is assumed to make a transaction atomic and durable.

Post targets have no caller in this repository, so there is no interleaving to be faithful to.
The cost guard claims nothing: it reads and lets the caller spend, so its only property would be
a bound on what is in flight, which is the number of callers. Box mail's claim row, the push keys
and the ownership claim are a single guarded statement each, which a unit test reaches. The
screens (the largest files of the repository) render what the modelled operations store; what
they change they change through those operations. `PROJECT.json` gives the reason for each part.

## Plan

Done: 1. `JobQueue` with its contract; 2. `ShiftLocks`, `ShiftRuns`; 3. `Claims`, `InboxSend`
with `SendOnce`; 4. `Intake`; 5. `Drafts`; 6. `Approvals`, `Articles`; 7. `Connections`; the
proofs named above.

Next: the connector's one-use codes and seats; the choice of a release as a pure function with a
reference definition; an abstract specification of `Connections` (a token is spent once and what
replaces it is kept) and its refinement.
