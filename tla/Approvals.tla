----------------------------- MODULE Approvals ------------------------------
(***************************************************************************)
(* The queue of what waits for a person's yes (core/approvals.py): a       *)
(* machine proposes, the row waits a week, a person on some screen says    *)
(* yes or no, and a yes runs what was proposed.  Two screens may answer at *)
(* once, and the process that runs it may die.                             *)
(* What a yes does is the business of the modules that extend this one.    *)
(***************************************************************************)
EXTENDS Integers, FiniteSets

CONSTANTS
  Proposals,    \* rows of the queue, in the life of this model
  Fingerprint,  \* what each of them asks for
  Deciders,     \* requests that answer one
  Nothing       \* no row in hand

ASSUME ApprovalsAssumption ==
  /\ IsFiniteSet(Proposals) /\ Nothing \notin Proposals

VARIABLES
  approval,     \* approvals.status ("none": no row yet)
  hand,         \* the row each request has set out to carry out
  ran           \* observation: how often each row was carried out

approvalVars == <<approval, hand, ran>>

Undecided == {"none", "waiting"}
Final     == {"declined", "done", "failed", "expired"}
Statuses  == Undecided \union Final \union {"approved"}

ApprovalsTypeOK ==
  /\ approval \in [Proposals -> Statuses]
  /\ hand \in [Deciders -> Proposals \union {Nothing}]
  /\ ran \in [Proposals -> Nat]

ApprovalsInit ==
  /\ approval = [a \in Proposals |-> "none"]
  /\ hand = [p \in Deciders |-> Nothing]
  /\ ran = [a \in Proposals |-> 0]
-----------------------------------------------------------------------------
Becomes(a, status) == approval' = [approval EXCEPT ![a] = status]

\* propose: the same thing, while it waits, is the row that is there.
Proposes(a) ==
  /\ approval[a] = "none"
  /\ \A b \in Proposals : Fingerprint[b] = Fingerprint[a] => approval[b] # "waiting"
  /\ Becomes(a, "waiting")
  /\ UNCHANGED <<hand, ran>>

\* mutant: whatever it has become, a row a week old expires
ExpiresAll(a) ==
  /\ approval[a] \in {"waiting", "approved"}
  /\ Becomes(a, "expired")
  /\ UNCHANGED <<hand, ran>>

\* A week has passed: _expire, with whoever looks next.
Expires(a) ==
  /\ approval[a] = "waiting"
  /\ Becomes(a, "expired")
  /\ UNCHANGED <<hand, ran>>

\* decide: only a row that waits, in one statement.
Declines(p, a) ==
  /\ hand[p] = Nothing /\ approval[a] = "waiting"
  /\ Becomes(a, "declined")
  /\ UNCHANGED <<hand, ran>>

\* mutant: whatever became of the row since it was shown
ApprovesAnyway(p, a) ==
  /\ hand[p] = Nothing /\ approval[a] # "none" /\ ran[a] < 2
  /\ Becomes(a, "approved")
  /\ hand' = [hand EXCEPT ![p] = a]
  /\ ran' = [ran EXCEPT ![a] = @ + 1]

Approves(p, a) ==
  /\ hand[p] = Nothing /\ approval[a] = "waiting"
  /\ Becomes(a, "approved")
  /\ hand' = [hand EXCEPT ![p] = a]
  /\ ran' = [ran EXCEPT ![a] = @ + 1]

\* What came of it, written without another look at the row.
Ends(p, status) ==
  /\ Becomes(hand[p], status)
  /\ hand' = [hand EXCEPT ![p] = Nothing]
  /\ UNCHANGED ran

\* The web process dies: the rows its requests had in hand stay as they are.
WebDies ==
  /\ hand' = [p \in Deciders |-> Nothing]
  /\ UNCHANGED <<approval, ran>>

QueueStep ==
  \/ \E a \in Proposals : Proposes(a) \/ Expires(a)
  \/ \E p \in Deciders, a \in Proposals : Declines(p, a)
-----------------------------------------------------------------------------
\* A yes is carried out at most once, and nothing that was declined or expired ever is.
RunOnce ==
  \A a \in Proposals :
    /\ ran[a] <= 1
    /\ approval[a] \in Undecided \union {"declined", "expired"} => ran[a] = 0

\* At most one request has a row in hand, and the row says so: the answer it writes at
\* the end, without looking, is the first.
InHandIsApproved ==
  /\ \A p \in Deciders : hand[p] # Nothing => approval[hand[p]] = "approved"
  /\ \A p, q \in Deciders : hand[p] = hand[q] /\ hand[p] # Nothing => p = q
=============================================================================
