------------------------------ MODULE Articles ------------------------------
(***************************************************************************)
(* The machine that publishes articles (marketing/aeo_machine): the plan's *)
(* rows (plan.py), the job that writes and publishes the next one within   *)
(* the weekly number and its pace (job.py), the website (publisher.py),    *)
(* the owner's screen (app.py), and the changes a chat proposes, which run *)
(* when a person approves them (proposals.py, module Approvals).           *)
(*                                                                         *)
(* The job runs on the worker's periodic thread and takes minutes; the     *)
(* screen and the approvals run in the web process meanwhile.  Either      *)
(* process may die, and the website may do as asked without the box        *)
(* hearing of it.                                                          *)
(***************************************************************************)
EXTENDS Approvals

CONSTANTS
  Rows,        \* topics
  Change,      \* what a proposal asks for: tasks, each on a topic
  Orders,      \* the proposals that set the plan: their topics in an order
  Week, Cap,   \* the rolling week, and the weekly number
  MaxTime, MaxFaults, MaxEdits  \* bounds: the clock, deaths and lost answers, the screen's changes

Tasks == {"topic", "ask", "retry", "unpublish", "rewrite", "order", "off"}
Never == -1

ASSUME ArticlesAssumption ==
  /\ IsFiniteSet(Rows) /\ Nothing \notin Rows
  /\ Change \in [Proposals -> SUBSET (Tasks \X Rows)] /\ Orders \subseteq Proposals
  /\ Fingerprint = Change
  /\ Week \in Nat \ {0} /\ Cap \in Nat \ {0} /\ Week % Cap = 0
  /\ MaxTime \in Nat /\ MaxFaults \in Nat /\ MaxEdits \in Nat

VARIABLES
  status,      \* seo_plan.status ("none": no row yet; "gone": taken off the plan)
  asked,       \* requested_at is set
  firstAt,     \* published_at
  url,         \* rows whose url is set
  off,         \* rows whose refusal says "Unpublished at your request"
  live,        \* the website: topics with an article on it
  job,         \* the writing job
  step,        \* how far an approved change has come
  todo,        \* and what is left of it
  clock,
  liveAt,      \* observation: when a topic's article first went on the website
  faults, edits

planVars == <<status, asked, firstAt, url, off>>
runVars  == <<step, todo>>
vars == <<approvalVars, planVars, runVars, live, job, clock, liveAt, faults, edits>>

RowStatus == {"none", "planned", "writing", "published", "refused", "failed", "gone"}
JobAt     == {"rest", "taken", "writes", "published", "refused", "failed"}
Idle      == [at |-> "rest", row |-> Nothing]
Times     == 0..MaxTime \union {Never}

TypeOK ==
  /\ ApprovalsTypeOK
  /\ status \in [Rows -> RowStatus]
  /\ asked \subseteq Rows /\ url \subseteq Rows /\ off \subseteq Rows /\ live \subseteq Rows
  /\ firstAt \in [Rows -> Times] /\ liveAt \in [Rows -> Times]
  /\ job \in [at : JobAt, row : Rows \union {Nothing}]
  /\ (job.at = "rest") = (job.row = Nothing)
  /\ step \in [Deciders -> {"rest", "run", "writes", "taken off"}]
  /\ todo \in [Deciders -> SUBSET (Tasks \X Rows)]
  /\ \A p \in Deciders : (step[p] = "rest") = (hand[p] = Nothing)
  /\ clock \in 0..MaxTime /\ faults \in 0..MaxFaults /\ edits \in 0..MaxEdits

Init ==
  /\ ApprovalsInit
  /\ status = [r \in Rows |-> "none"]
  /\ asked = {} /\ url = {} /\ off = {} /\ live = {}
  /\ firstAt = [r \in Rows |-> Never] /\ liveAt = [r \in Rows |-> Never]
  /\ job = Idle
  /\ step = [p \in Deciders |-> "rest"] /\ todo = [p \in Deciders |-> {}]
  /\ clock = 0 /\ faults = 0 /\ edits = 0
-----------------------------------------------------------------------------
(* plan.py, one statement each. *)

\* mark: by id alone, so that of a row that is gone nothing is written.
Mark(r, to, unpublished) ==
  IF status[r] = "gone" THEN UNCHANGED planVars
  ELSE /\ status' = [status EXCEPT ![r] = to]
       /\ asked' = IF to = "writing" THEN asked ELSE asked \ {r}
       /\ firstAt' = [firstAt EXCEPT ![r] = IF to = "published" /\ @ = Never THEN clock ELSE @]
       /\ url' = IF to = "published" THEN url \union {r} ELSE url
       /\ off' = IF unpublished THEN off \union {r}
                 ELSE IF to = "writing" THEN off ELSE off \ {r}

MayAdd(r)     == status[r] = "none"
MayRequest(r) == status[r] \in {"refused", "failed"} \/ (status[r] = "planned" /\ r \notin asked)
MayRewrite(r) == r \in url /\ (status[r] = "published" \/ (status[r] = "refused" /\ r \in off))
MayRemove(r)  == status[r] \in {"planned", "refused", "failed"} /\ r \notin url
IsNewTopic(r) == status[r] = "planned" /\ r \notin url
IsRewrite(r)  == status[r] = "planned" /\ r \in url

Plans(r, now) ==
  /\ status' = [status EXCEPT ![r] = "planned"]
  /\ asked' = IF now THEN asked \union {r} ELSE asked
  /\ off' = off \ {r}
  /\ UNCHANGED <<firstAt, url>>

Removes(r) ==
  /\ status' = [status EXCEPT ![r] = "gone"]
  /\ asked' = asked \ {r} /\ off' = off \ {r}
  /\ UNCHANGED <<firstAt, url>>

\* place, move_up: _renumber makes the asks of every new topic part of the order.
Renumbers ==
  /\ asked' = {q \in asked : ~IsNewTopic(q)}
  /\ UNCHANGED <<status, firstAt, url, off>>

\* next_at, of what is live now: room in the week, and the pace since the newest first day.
HasRoom ==
  Cardinality({r \in Rows : status[r] = "published" /\ firstAt[r] > clock - Week}) < Cap
Paced   == \A r \in Rows : status[r] # "gone" /\ firstAt[r] # Never => clock >= firstAt[r] + Week \div Cap
RoomOnly      == HasRoom   \* mutant: as many as there is room for, at once
MayPublishNew == HasRoom /\ Paced

\* The plan's order: what was asked for comes first.
NextUp(r) ==
  /\ status[r] = "planned"
  /\ r \in asked \/ \A q \in asked : status[q] # "planned"
-----------------------------------------------------------------------------
(* job.py periodic, on the worker's thread. *)

JobGo(phase, r) == job' = [at |-> phase, row |-> r]
JobStep == UNCHANGED <<approvalVars, runVars, clock, faults, edits>>

\* A row left writing by a worker that died fails, so that a person can send it again.
ReleaseStale(r) ==
  /\ job.at = "rest" /\ status[r] = "writing"
  /\ Mark(r, "failed", FALSE)
  /\ UNCHANGED <<live, job, liveAt>> /\ JobStep

\* The next row is read, and its address looked for on the website, before it is claimed.
Takes(r) ==
  /\ job.at = "rest"
  /\ IF MayPublishNew THEN NextUp(r) ELSE IsRewrite(r) /\ r \in asked
  /\ JobGo("taken", r)
  /\ UNCHANGED <<planVars, live, liveAt>> /\ JobStep

\* The claim, before anything is spent; or an address it may not have.
Claims ==
  /\ job.at = "taken"
  /\ \/ Mark(job.row, "writing", FALSE) /\ JobGo("writes", job.row)
     \/ \E to \in {"refused", "failed"} : Mark(job.row, to, FALSE) /\ job' = Idle
  /\ UNCHANGED <<live, liveAt>> /\ JobStep

\* publisher.publish: created, or patched where an article is live.
GoesLive(r) ==
  /\ live' = live \union {r}
  /\ liveAt' = [liveAt EXCEPT ![r] = IF @ = Never THEN clock ELSE @]

Publishes ==
  /\ job.at = "writes"
  /\ GoesLive(job.row)
  /\ JobGo("published", job.row)
  /\ UNCHANGED planVars /\ JobStep

\* The guard refuses what was written, or something broke before the website had it.
PublishesNot ==
  /\ job.at = "writes"
  /\ \E to \in {"refused", "failed"} : JobGo(to, job.row)
  /\ UNCHANGED <<planVars, live, liveAt>> /\ JobStep

\* The website took it, and the answer was lost.
PublishesUnheard ==
  /\ job.at = "writes" /\ faults < MaxFaults
  /\ faults' = faults + 1
  /\ GoesLive(job.row)
  /\ JobGo("failed", job.row)
  /\ UNCHANGED <<approvalVars, planVars, runVars, clock, edits>>

Records ==
  /\ job.at \in {"published", "refused", "failed"}
  /\ Mark(job.row, job.at, FALSE)
  /\ job' = Idle
  /\ UNCHANGED <<live, liveAt>> /\ JobStep

WorkerDies ==
  /\ job.at # "rest" /\ faults < MaxFaults
  /\ faults' = faults + 1 /\ job' = Idle
  /\ UNCHANGED <<approvalVars, planVars, runVars, live, clock, liveAt, edits>>
-----------------------------------------------------------------------------
(* The owner's screen: add, write this next, change the order, take off the plan. *)

Edits(r) ==
  /\ edits < MaxEdits /\ edits' = edits + 1
  /\ \/ MayAdd(r) /\ Plans(r, FALSE)
     \/ MayRequest(r) /\ Plans(r, TRUE)
     \/ IsNewTopic(r) /\ Renumbers
     \/ MayRemove(r) /\ Removes(r)
  /\ UNCHANGED <<approvalVars, runVars, live, job, clock, liveAt, faults>>
-----------------------------------------------------------------------------
(* proposals.py _run: an approved change looks again at what it changes. *)

Leaves == UNCHANGED <<live, job, clock, liveAt, faults, edits>>

\* The queue itself: a row is proposed, expires, is declined, is approved.
Queues ==
  /\ QueueStep
  /\ UNCHANGED <<planVars, runVars>> /\ Leaves

Approved(p, a) ==
  /\ Approves(p, a)
  /\ step' = [step EXCEPT ![p] = "run"]
  /\ UNCHANGED <<planVars, todo>> /\ Leaves

Finishes(p, how) ==
  /\ Ends(p, how)
  /\ step' = [step EXCEPT ![p] = "rest"] /\ todo' = [todo EXCEPT ![p] = {}]

\* Where an order finds its topic added, or its rewrite begun, since it was asked for,
\* that task is done; every other topic it names has to be a new one.
Done(a, t) ==
  /\ a \in Orders
  /\ \/ t[1] \in {"topic", "order"} /\ IsNewTopic(t[2])
     \/ t[1] = "rewrite" /\ IsRewrite(t[2])

\* The guard of the statement that carries a task out.
May(t) ==
  \/ t[1] = "topic" /\ MayAdd(t[2])
  \/ t[1] \in {"retry", "ask"} /\ MayRequest(t[2])
  \/ t[1] = "rewrite" /\ MayRewrite(t[2])
  \/ t[1] = "off" /\ MayRemove(t[2])

\* May it still be made, a week later?  A topic that is added now can be asked for after.
Holds(a, t) ==
  \/ Done(a, t)
  \/ t[1] = "ask"
  \/ t[1] = "retry" /\ status[t[2]] \in {"refused", "failed"}
  \/ t[1] = "unpublish" /\ status[t[2]] = "published"
  \/ t[1] \in {"topic", "rewrite", "off"} /\ May(t)

RunRefuses(p) ==
  /\ step[p] = "run" /\ \E t \in Change[hand[p]] : ~Holds(hand[p], t)
  /\ Finishes(p, "failed")
  /\ UNCHANGED planVars /\ Leaves

\* Everything is looked at before anything is changed.
RunLooks(p) ==
  /\ step[p] = "run" /\ \A t \in Change[hand[p]] : Holds(hand[p], t)
  /\ step' = [step EXCEPT ![p] = "writes"]
  /\ todo' = [todo EXCEPT ![p] = {t \in Change[hand[p]] : ~Done(hand[p], t)}]
  /\ UNCHANGED <<approvalVars, planVars>> /\ Leaves

\* Rewrites first, then what is added, then what is asked for, then what is taken off.
Rank(t) == CASE t[1] = "rewrite" -> 1 [] t[1] = "topic" -> 2 [] t[1] = "off" -> 4 [] OTHER -> 3
IsNext(p, t) == t \in todo[p] /\ \A u \in todo[p] : Rank(t) <= Rank(u)

\* One task, one statement on the plan, with its own guard.
RunPlans(p, t) ==
  /\ step[p] = "writes" /\ IsNext(p, t) /\ May(t)
  /\ IF t[1] = "off" THEN Removes(t[2]) ELSE Plans(t[2], t[1] # "topic")
  /\ todo' = [todo EXCEPT ![p] = @ \ {t}]
  /\ UNCHANGED <<approvalVars, step>> /\ Leaves

\* The row has moved on since the look.  In an order a rewrite or a removal that finds it so
\* changes nothing and is passed over, and so is "write now"; any other change ends there.
RunMisses(p, t) ==
  /\ step[p] = "writes" /\ IsNext(p, t) /\ t[1] # "unpublish" /\ ~May(t)
  /\ IF t[1] = "ask" \/ (hand[p] \in Orders /\ t[1] # "topic")
     THEN todo' = [todo EXCEPT ![p] = @ \ {t}] /\ UNCHANGED <<approvalVars, step>>
     ELSE Finishes(p, "failed")
  /\ UNCHANGED planVars /\ Leaves

\* Nothing is left: an order puts its topics first, if they are still new ones.
InOrder(a) == {t[2] : t \in {u \in Change[a] : u[1] \in {"topic", "order"}}}

RunEnds(p) ==
  /\ step[p] = "writes" /\ todo[p] = {}
  /\ \/ /\ hand[p] \notin Orders \/ InOrder(hand[p]) = {}
        /\ Finishes(p, "done") /\ UNCHANGED planVars
     \/ /\ hand[p] \in Orders /\ InOrder(hand[p]) # {}
        /\ IF \A r \in InOrder(hand[p]) : IsNewTopic(r)
           THEN Finishes(p, "done") /\ Renumbers
           ELSE Finishes(p, "failed") /\ UNCHANGED planVars
  /\ Leaves

\* unpublish: the article is taken off the website, then the plan told.
RunTakesOff(p, r) ==
  /\ step[p] = "writes" /\ <<"unpublish", r>> \in todo[p]
  /\ live' = live \ {r}
  /\ step' = [step EXCEPT ![p] = "taken off"]
  /\ UNCHANGED <<approvalVars, planVars, todo, job, clock, liveAt, faults, edits>>

\* The website did not answer: the change failed, whatever it did.
RunFails(p, r) ==
  /\ step[p] = "writes" /\ <<"unpublish", r>> \in todo[p] /\ faults < MaxFaults
  /\ faults' = faults + 1
  /\ live' \in {live, live \ {r}}
  /\ Finishes(p, "failed")
  /\ UNCHANGED <<planVars, job, clock, liveAt, edits>>

RunMarksOff(p, r) ==
  /\ step[p] = "taken off" /\ <<"unpublish", r>> \in todo[p]
  /\ Mark(r, "refused", TRUE)
  /\ Finishes(p, "done")
  /\ Leaves

ServerDies ==
  /\ \E p \in Deciders : step[p] # "rest"
  /\ faults < MaxFaults /\ faults' = faults + 1
  /\ WebDies
  /\ step' = [p \in Deciders |-> "rest"] /\ todo' = [p \in Deciders |-> {}]
  /\ UNCHANGED <<planVars, live, job, clock, liveAt, edits>>

Tick ==
  /\ clock < MaxTime /\ clock' = clock + 1
  /\ UNCHANGED <<approvalVars, planVars, runVars, live, job, liveAt, faults, edits>>

WorkerStep ==
  \/ \E r \in Rows : ReleaseStale(r) \/ Takes(r)
  \/ Claims \/ Publishes \/ PublishesNot \/ PublishesUnheard \/ Records \/ WorkerDies

WebStep ==
  \/ \E r \in Rows : Edits(r)
  \/ Queues
  \/ \E p \in Deciders, a \in Proposals : Approved(p, a)
  \/ \E p \in Deciders : RunRefuses(p) \/ RunLooks(p) \/ RunEnds(p)
  \/ \E p \in Deciders, t \in Tasks \X Rows : RunPlans(p, t) \/ RunMisses(p, t)
  \/ \E p \in Deciders, r \in Rows : RunTakesOff(p, r) \/ RunFails(p, r) \/ RunMarksOff(p, r)
  \/ ServerDies

Next == WorkerStep \/ WebStep \/ Tick

Spec == Init /\ [][Next]_vars
-----------------------------------------------------------------------------
\* New articles on the website in a rolling week: never more than the weekly number and
\* one for each answer the box never had, rewrites and unpublished ones notwithstanding
\* (job.py next_at: the number alone would not do, for an article sent back to be
\* rewritten no longer counts).  A topic taken off the plan
\* while the job had it in hand is not counted: its row is gone.
WithinTheWeek ==
  Cardinality({r \in Rows : status[r] # "gone" /\ liveAt[r] # Never /\ liveAt[r] > clock - Week})
    <= Cap + faults

\* What the queue promises whoever proposes, decides and carries out, though two screens
\* answer at once, a change is looked at a week later and its request may die on the way.
Decisions == INSTANCE DecideOnce WITH answer <- approval, carried <- ran
ImplementsDecideOnce == Decisions!Spec

\* What was decided stays decided.
DecisionFinal == [][\A a \in Proposals : approval[a] \in Final => approval'[a] = approval[a]]_vars
=============================================================================
