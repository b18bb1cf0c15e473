------------------------------- MODULE Drafts -------------------------------
(***************************************************************************)
(* The replies the box writes and does not send (drafter/): one draft per  *)
(* incoming message, written by a model under the rules of the day,        *)
(* written again when the rules change or the owner asks, dropped when the *)
(* model finds nothing to answer, taken up again when later rules find     *)
(* something; and the copy of it put in the owner's own mailbox            *)
(* (inbox/mailbox_drafts.py).                                              *)
(*                                                                         *)
(* The drafter and the mailbox rail run on the worker's periodic thread    *)
(* and a model call takes long: meanwhile the owner, on a screen, throws   *)
(* drafts away, asks for others to be written again and changes the rules, *)
(* and his own AI leaves drafts through the connector; and people write    *)
(* again, are answered, say STOP, or are taken over by a machine.          *)
(***************************************************************************)
EXTENDS Integers, FiniteSets

CONSTANTS
  Convs,       \* conversations
  Asked,       \* incoming messages, numbered in the order they come
  ConvOf,      \* the conversation of each
  Email,       \* conversations by email: their drafts are copied to the mailbox
  LeftAlone,   \* those the sweep leaves: a robot's, or of a channel left to the owner
  Stubborn,    \* messages of which every call of the model fails
  FailsToRest, RestSweeps,  \* so many failures in a row set a draft aside, for so many sweeps
  MaxRules,    \* bound: how often the owner changes what shapes a draft
  MaxFaults,   \* bound: deaths of the worker, other failed calls, answers and whatever else
               \* closes a conversation to the drafter, and switching it off, together
  MaxAsks,     \* bound: requests to write again
  NoOne        \* no draft in hand

ASSUME DraftsAssumption ==
  /\ Asked \subseteq Nat /\ NoOne \notin Asked /\ ConvOf \in [Asked -> Convs]
  /\ Email \subseteq Convs /\ LeftAlone \subseteq Convs /\ Stubborn \subseteq Asked
  /\ FailsToRest \in Nat \ {0} /\ RestSweeps \in Nat
  /\ MaxRules \in Nat /\ MaxFaults \in Nat /\ MaxAsks \in Nat

Versions == 0..MaxRules
NoRules  == -1          \* no row of inbox_draft_rules
Kept     == -2          \* the mark of a draft the owner's own AI wrote

VARIABLES
  current,     \* the fingerprint of what shapes a draft now
  body,        \* inbox_drafts.body: "none" (no row), "words", "noReply"
  words,       \* observation: the rules they were written under, or Kept
  dismissed,   \* dismissed_at is set
  rules,       \* inbox_draft_rules
  came,        \* the messages that have come
  answered,    \* those that somebody wrote after
  muted,       \* inbox_conversations.opted_out
  held,        \* conversations an automation runs, or marked automated
  off,         \* the drafter is switched off, or its number per sweep is 0
  requested,   \* the owner's list of drafts to write again
  asking,      \* a screen that asks for one: it has read that list
  fails, resting,  \* failures in a row, and sweeps still to rest: in memory
  mailed,      \* mailbox_at is set
  thread,      \* the periodic thread: what it does, with which draft, under which rules
  refused,     \* observation: drafts with words a person threw away
  everAsked,   \* observation: drafts the owner asked to have written again
  copies,      \* observation: copies that reached the mailbox
  unheard,     \* observation: copies of which the box was not told
  paid,        \* observation: answers of the model, by draft and rules
  faults, asks, turns

draftVars == <<body, words, dismissed, rules>>
seenVars  == <<refused, everAsked, copies, unheard, paid>>
worldVars == <<came, answered, muted, held, off, turns>>
listVars  == <<requested, asking>>
restVars  == <<fails, resting>>
vars == <<current, draftVars, worldVars, listVars, restVars, mailed, thread, seenVars, faults, asks>>

Rest   == [at |-> "rest", d |-> NoOne, kind |-> "new", under |-> 0, list |-> {}]
Phases == {"rest", "thinks", "words", "noReply", "undismissed", "listed", "appends"}
Kinds  == {"new", "stale", "request", "recheck"}
Keys   == Asked \X Kinds
NoAsk  == [d |-> NoOne, list |-> {}]

TypeOK ==
  /\ current \in Versions
  /\ body \in [Asked -> {"none", "words", "noReply"}]
  /\ words \in [Asked -> Versions \union {Kept}]
  /\ rules \in [Asked -> Versions \union {NoRules, Kept}]
  /\ dismissed \subseteq Asked /\ mailed \subseteq Asked
  /\ came \subseteq Asked /\ answered \subseteq Asked
  /\ muted \subseteq Convs /\ held \subseteq Convs /\ off \in BOOLEAN
  /\ requested \subseteq Asked
  /\ asking \in [d : Asked \union {NoOne}, list : SUBSET Asked]
  /\ fails \in [Keys -> Nat] /\ resting \in [Keys -> Nat]
  /\ thread \in [at : Phases, d : Asked \union {NoOne}, kind : Kinds, under : Versions,
                 list : SUBSET Asked]
  /\ (thread.at = "rest") = (thread.d = NoOne)
  /\ refused \subseteq Asked /\ everAsked \subseteq Asked
  /\ copies \in [Asked -> Nat] /\ unheard \in [Asked -> Nat]
  /\ paid \in [Asked \X Versions -> Nat]
  /\ faults \in Nat /\ asks \in Nat /\ turns \in Nat

Init ==
  /\ current = 0
  /\ body = [d \in Asked |-> "none"] /\ words = [d \in Asked |-> 0]
  /\ dismissed = {} /\ rules = [d \in Asked |-> NoRules]
  /\ came = {} /\ answered = {} /\ muted = {} /\ held = {} /\ off = FALSE
  /\ requested = {} /\ asking = NoAsk /\ mailed = {}
  /\ fails = [k \in Keys |-> 0] /\ resting = [k \in Keys |-> 0]
  /\ thread = Rest
  /\ refused = {} /\ everAsked = {}
  /\ copies = [d \in Asked |-> 0] /\ unheard = [d \in Asked |-> 0]
  /\ paid = [p \in Asked \X Versions |-> 0]
  /\ faults = 0 /\ asks = 0 /\ turns = 0
-----------------------------------------------------------------------------
Muted(d)   == ConvOf[d] \in muted
Taken(d)   == ConvOf[d] \in held
Newest(d)  == d \in came /\ \A e \in came : ConvOf[e] = ConvOf[d] => e <= d
Waiting(d) == body[d] # "none" /\ d \notin dismissed /\ d \notin answered /\ ~Muted(d) /\ ~Taken(d)
Does(phase) == thread' = [thread EXCEPT !.at = phase]
Faulty == faults + turns < MaxFaults /\ faults' = faults + 1

\* What is written on a draft's row, and the rules it is marked with.
Write(d, text, whose, mark) ==
  /\ body'  = [body EXCEPT ![d] = text]
  /\ words' = [words EXCEPT ![d] = whose]
  /\ rules' = [rules EXCEPT ![d] = mark]
Mark(d, mark) == rules' = [rules EXCEPT ![d] = mark] /\ UNCHANGED <<body, words>>
-----------------------------------------------------------------------------
(* The drafter's sweep: which draft is worth a model call. *)

\* The newest message of a conversation, answered or not.
NeedsADraft(d)  == Newest(d) /\ body[d] = "none" /\ ~Muted(d) /\ ~Taken(d) /\ ConvOf[d] \notin LeftAlone
StaleAny(d)     == Waiting(d) /\ rules[d] # current   \* mutant: whoever wrote it
StaleWaiting(d) == Waiting(d) /\ rules[d] # Kept /\ rules[d] # current
Requested(d)    == d \in requested /\ Waiting(d)
StaleNoReply(d) ==
  /\ Newest(d) /\ body[d] = "noReply" /\ rules[d] # current
  /\ d \notin answered /\ ~Muted(d) /\ ~Taken(d) /\ ConvOf[d] \notin LeftAlone

WorthACall(d, kind) ==
  \/ kind = "new"     /\ NeedsADraft(d)
  \/ kind = "request" /\ Requested(d)
  \/ kind = "stale"   /\ StaleWaiting(d)
  \/ kind = "recheck" /\ StaleNoReply(d)

\* What was set aside rests one sweep less.
Rested == [k \in Keys |-> IF resting[k] = 0 THEN 0 ELSE resting[k] - 1]
Due(kind) == {d \in Asked : WorthACall(d, kind) /\ Rested[<<d, kind>>] = 0}

Before == [new |-> {}, request |-> {"new"}, stale |-> {"new", "request"},
           recheck |-> {"new", "request", "stale"}]

\* A sweep takes one draft here (drafts.per_sweep of 1): a longer list is read once and
\* worked through, and what it writes looks again at the row it writes to.
Thinks(d, kind) ==
  /\ thread.at = "rest" /\ ~off
  /\ d \in Due(kind) /\ \A k \in Before[kind] : Due(k) = {}
  /\ kind = "new" => \A e \in Due("new") : e <= d
  /\ thread' = [thread EXCEPT !.at = "thinks", !.d = d, !.kind = kind, !.under = current]
  /\ resting' = Rested
  /\ UNCHANGED <<current, draftVars, worldVars, listVars, fails, mailed, seenVars, faults, asks>>

FindsNothing ==
  /\ thread.at = "rest"
  /\ off \/ \A kind \in Kinds : Due(kind) = {}
  /\ resting' = Rested
  /\ UNCHANGED <<current, draftVars, worldVars, listVars, fails, mailed, thread, seenVars, faults, asks>>

\* A name on the owner's list that no longer waits is taken off it.
ForgetsRequests(d) ==
  /\ thread.at = "rest" /\ ~off /\ Due("new") = {}
  /\ d \in requested /\ ~Waiting(d)
  /\ thread' = [thread EXCEPT !.at = "listed", !.d = d, !.kind = "request", !.list = requested]
  /\ UNCHANGED <<current, draftVars, worldVars, listVars, restVars, mailed, seenVars, faults, asks>>

NeverSetAside(k) == resting' = [resting EXCEPT ![k] = 0] /\ UNCHANGED fails  \* mutant: tried every sweep

\* _failed: so many in a row set it aside.
SetsAside(k) ==
  IF fails[k] + 1 < FailsToRest
    THEN fails' = [fails EXCEPT ![k] = @ + 1] /\ UNCHANGED resting
    ELSE fails' = [fails EXCEPT ![k] = 0] /\ resting' = [resting EXCEPT ![k] = RestSweeps]

Worked == fails' = [fails EXCEPT ![<<thread.d, thread.kind>>] = 0] /\ UNCHANGED resting

\* What the sweep notes of a call that wrote nothing: of a new message only when nobody
\* else wrote anything; a second look at a "no reply" is not counted.
Failed ==
  IF thread.kind = "recheck" THEN UNCHANGED restVars
  ELSE IF thread.kind = "new" /\ body[thread.d] # "none" THEN Worked
  ELSE SetsAside(<<thread.d, thread.kind>>)

NothingCame ==
  /\ thread.at = "thinks" /\ Failed /\ thread' = Rest
  /\ UNCHANGED <<current, draftVars, worldVars, listVars, mailed, refused, everAsked, copies, unheard, asks>>

\* Nothing came back, or the budget is spent: the draft is left as it was.
ThinkFails == NothingCame /\ Faulty /\ UNCHANGED paid
ModelRefuses == NothingCame /\ thread.d \in Stubborn /\ UNCHANGED <<paid, faults>>

\* An answer with nothing in it once its mark is taken off: paid for, and nothing is kept.
AnswersNothing ==
  /\ NothingCame /\ thread.d \notin Stubborn /\ Faulty
  /\ paid' = [paid EXCEPT ![<<thread.d, thread.under>>] = @ + 1]

ModelAnswers ==
  /\ thread.at = "thinks" /\ thread.d \notin Stubborn
  /\ \E phase \in {"words", "noReply"} : Does(phase)
  /\ paid' = [paid EXCEPT ![<<thread.d, thread.under>>] = @ + 1]
  /\ UNCHANGED <<current, draftVars, worldVars, listVars, restVars, mailed, refused, everAsked, copies,
                 unheard, faults, asks>>

PutsAnyway(text) == Write(thread.d, text, thread.under, current)  \* mutant: the last one stands

\* draft_one: the first draft of a message stands, whoever wrote it (store.put).
Puts(text) ==
  IF body[thread.d] = "none" THEN Write(thread.d, text, thread.under, current)
  ELSE UNCHANGED <<body, words, rules>>

RewritesAnyway == Write(thread.d, "words", thread.under, current)  \* mutant: a dismissed one too

\* store.rewrite: never a dismissed one.  The mark is that of the rules of now.
Rewrites ==
  IF thread.d \notin dismissed THEN Write(thread.d, "words", thread.under, current)
  ELSE UNCHANGED <<body, words, rules>>

\* store.revive: only the box's own "no reply" is taken up again.
Revives ==
  IF body[thread.d] = "noReply"
    THEN Write(thread.d, "words", thread.under, thread.under) /\ dismissed' = dismissed \ {thread.d}
    ELSE UNCHANGED draftVars

\* A draft on the owner's list that was judged is taken off it: the list is read first.
AfterAnswer(judged) ==
  thread' = IF thread.kind = "request" /\ judged THEN [thread EXCEPT !.at = "listed", !.list = requested]
            ELSE Rest

WritesWords ==
  /\ thread.at = "words"
  /\ \/ thread.kind = "new" /\ Puts("words") /\ Worked /\ UNCHANGED dismissed
     \/ /\ thread.kind \in {"stale", "request"} /\ Rewrites /\ UNCHANGED dismissed
        /\ IF thread.d \in dismissed THEN Failed ELSE Worked
     \/ thread.kind = "recheck" /\ Revives /\ UNCHANGED restVars
  /\ AfterAnswer(thread.d \notin dismissed)
  /\ UNCHANGED <<current, worldVars, listVars, mailed, seenVars, faults, asks>>

NotesNothing ==   \* mutant: a decision not to answer is thrown away
  /\ thread.at = "noReply" /\ thread' = Rest
  /\ UNCHANGED <<current, draftVars, worldVars, listVars, restVars, mailed, seenVars, faults, asks>>

\* No reply is needed: of a new message that is written down and dismissed, in two
\* statements; of one judged before, only the rules are marked.
WritesNoReply ==
  /\ thread.at = "noReply"
  /\ \/ /\ thread.kind = "new" /\ Puts("noReply") /\ Worked
        /\ IF body[thread.d] = "none" THEN Does("undismissed") ELSE thread' = Rest
        /\ UNCHANGED dismissed
     \/ /\ thread.kind \in {"stale", "request"} /\ Mark(thread.d, current) /\ AfterAnswer(TRUE)
        /\ dismissed' = dismissed \union {thread.d} /\ Worked
     \/ /\ thread.kind = "recheck" /\ Mark(thread.d, thread.under) /\ AfterAnswer(TRUE)
        /\ UNCHANGED <<dismissed, restVars>>
  /\ UNCHANGED <<current, worldVars, listVars, mailed, seenVars, faults, asks>>

Dismisses ==
  /\ thread.at = "undismissed"
  /\ dismissed' = dismissed \union {thread.d}
  /\ thread' = Rest
  /\ UNCHANGED <<current, body, words, rules, worldVars, listVars, restVars, mailed, seenVars, faults, asks>>

\* done_rewriting: the list as it was read, without this draft, is written back.
DoneRewriting ==
  /\ thread.at = "listed"
  /\ requested' = thread.list \ {thread.d}
  /\ thread' = Rest
  /\ UNCHANGED <<current, draftVars, worldVars, asking, restVars, mailed, seenVars, faults, asks>>
-----------------------------------------------------------------------------
(* mailbox_drafts.py sweep. *)

\* Who runs the conversation does not matter here, nor whether a newer message came.
InMailbox(d) ==
  /\ ConvOf[d] \in Email /\ d \notin mailed
  /\ body[d] # "none" /\ d \notin dismissed /\ d \notin answered /\ ~Muted(d)

StampsNothing(d) ==  \* mutant: stamped only by whoever comes after
  /\ thread.at = "rest" /\ InMailbox(d)
  /\ thread' = [thread EXCEPT !.at = "appends", !.d = d]
  /\ UNCHANGED <<current, draftVars, worldVars, listVars, restVars, mailed, seenVars, faults, asks>>

\* The stamp goes on before the copy is made.
Stamps(d) ==
  /\ thread.at = "rest" /\ InMailbox(d)
  /\ mailed' = mailed \union {d}
  /\ thread' = [thread EXCEPT !.at = "appends", !.d = d]
  /\ UNCHANGED <<current, draftVars, worldVars, listVars, restVars, seenVars, faults, asks>>

\* append_draft: True, or None for a row no mailbox will take: the stamp stays.
Appends ==
  /\ thread.at = "appends"
  /\ \E n \in {0, 1} : copies' = [copies EXCEPT ![thread.d] = @ + n]
  /\ thread' = Rest
  /\ UNCHANGED <<current, draftVars, worldVars, listVars, restVars, mailed, refused, everAsked, unheard,
                 paid, faults, asks>>

\* False: not this time, so far as the box was told; the stamp comes off.
AppendFails ==
  /\ thread.at = "appends" /\ Faulty
  /\ \E n \in {0, 1} :
       /\ copies' = [copies EXCEPT ![thread.d] = @ + n]
       /\ unheard' = [unheard EXCEPT ![thread.d] = @ + n]
  /\ mailed' = mailed \ {thread.d}
  /\ thread' = Rest
  /\ UNCHANGED <<current, draftVars, worldVars, listVars, restVars, refused, everAsked, paid, asks>>
-----------------------------------------------------------------------------
(* The owner, his AI, and the conversation. *)

RulesChange ==
  /\ current < MaxRules
  /\ current' = current + 1
  /\ UNCHANGED <<draftVars, worldVars, listVars, restVars, mailed, thread, seenVars, faults, asks>>

\* api_draft_discard: only one that still waits.
Discards(d) ==
  /\ Waiting(d)
  /\ dismissed' = dismissed \union {d}
  /\ refused' = IF body[d] = "words" THEN refused \union {d} ELSE refused
  /\ UNCHANGED <<current, body, words, rules, worldVars, listVars, restVars, mailed, thread, everAsked,
                 copies, unheard, paid, faults, asks>>

\* The connector's draft_reply: his AI's words, unless a draft is there.
LeavesADraft(d) ==
  /\ Newest(d) /\ body[d] = "none" /\ ~Muted(d)
  /\ Write(d, "words", Kept, Kept)
  /\ UNCHANGED <<current, dismissed, worldVars, listVars, restVars, mailed, thread, seenVars, faults, asks>>

\* request_rewrites: the list is read, and written back with one name more.
AsksAgain(d) ==
  /\ asking.d = NoOne /\ asks < MaxAsks /\ Waiting(d)
  /\ asks' = asks + 1
  /\ asking' = [d |-> d, list |-> requested]
  /\ everAsked' = everAsked \union {d}
  /\ UNCHANGED <<current, draftVars, worldVars, requested, restVars, mailed, thread, refused, copies,
                 unheard, paid, faults>>

Requests ==
  /\ asking.d # NoOne
  /\ requested' = asking.list \union {asking.d}
  /\ asking' = NoAsk
  /\ UNCHANGED <<current, draftVars, worldVars, restVars, mailed, thread, seenVars, faults, asks>>

\* Messages come; somebody answers what had come, the person says STOP for good, a machine
\* takes the conversation or gives it back; the drafter is switched.
Arrives(d) ==
  /\ d \notin came /\ \A e \in came : e < d
  /\ came' = came \union {d}
  /\ UNCHANGED <<answered, muted, held, off, turns>>
Turn == faults + turns < MaxFaults /\ turns' = turns + 1
Written(c) == {d \in came : ConvOf[d] = c}
Answers(c) ==
  /\ Turn /\ ~(Written(c) \subseteq answered)
  /\ answered' = answered \union Written(c)
  /\ UNCHANGED <<came, muted, held, off>>
Mutes(c) ==
  /\ Turn /\ Written(c) # {} /\ muted' = muted \union {c}
  /\ UNCHANGED <<came, answered, held, off>>
Holds(c) ==
  /\ Turn /\ Written(c) # {} /\ held' = held \union {c}
  /\ UNCHANGED <<came, answered, muted, off>>
Frees(c) == held' = held \ {c} /\ UNCHANGED <<came, answered, muted, off, turns>>
SwitchesOff == ~off /\ off' = TRUE /\ Turn /\ UNCHANGED <<came, answered, muted, held>>
SwitchesOn == off' = FALSE /\ UNCHANGED <<came, answered, muted, held, turns>>

World ==
  /\ \/ \E d \in Asked : Arrives(d)
     \/ \E c \in Convs : Answers(c) \/ Mutes(c) \/ Holds(c) \/ Frees(c)
     \/ SwitchesOff \/ SwitchesOn
  /\ UNCHANGED <<current, draftVars, listVars, restVars, mailed, thread, seenVars, faults, asks>>

\* The counts of failures are in the process's memory.
Dies ==
  /\ thread.at # "rest" /\ Faulty
  /\ thread' = Rest
  /\ fails' = [k \in Keys |-> 0] /\ resting' = [k \in Keys |-> 0]
  /\ UNCHANGED <<current, draftVars, worldVars, listVars, mailed, seenVars, asks>>

ThreadStep ==
  \/ \E d \in Asked, kind \in Kinds : Thinks(d, kind)
  \/ FindsNothing
  \/ \E d \in Asked : ForgetsRequests(d) \/ Stamps(d)
  \/ ModelRefuses \/ ModelAnswers \/ WritesWords \/ WritesNoReply \/ Dismisses \/ DoneRewriting
  \/ Appends

OwnerStep ==
  \/ RulesChange
  \/ \E d \in Asked : Discards(d) \/ LeavesADraft(d) \/ AsksAgain(d)
  \/ Requests

Next == ThreadStep \/ OwnerStep \/ World \/ ThinkFails \/ AnswersNothing \/ AppendFails \/ Dies

Spec == Init /\ [][Next]_vars
FairSpec == Spec /\ WF_vars(ThreadStep)
-----------------------------------------------------------------------------
\* A reply a person threw away stays away, in the words it had: no answer of a model that
\* was under way brings it back or writes over it (store.py:52-66, 475-487).
NoStaysNo ==
  [][\A d \in refused : d \in dismissed' /\ words'[d] = words[d] /\ body'[d] = body[d]]_vars

\* The words the owner's own AI left are the box's to replace only when he asked.
TheirWordsStand ==
  [][\A d \in Asked :
       body[d] # "none" /\ words[d] = Kept /\ words'[d] # Kept => d \in everAsked]_vars

\* What became of the reply to a message, for module DraftLife.
LifeOf(d) ==
  CASE body[d] = "none"    -> "none"
    [] body[d] = "noReply" -> "nothing"
    [] body[d] = "words"   -> IF d \in refused THEN "thrown"
                              ELSE IF d \in dismissed THEN "withdrawn"
                              ELSE IF words[d] = Kept THEN "theirs" ELSE "ours"
Life == INSTANCE DraftLife WITH Msgs <- Asked, Texts <- Versions \union {Kept}, Theirs <- Kept,
                                draft <- [d \in Asked |-> LifeOf(d)], text <- words, asked <- everAsked

\* The drafts live as DraftLife says: every call of the model, whenever it was begun, ends
\* in a step of that life or in none (store.py:29-73, 475-488).
ImplementsLife == Life!Spec

\* One answer of the model is paid for per message and rules, and one more for each
\* request and each fault (draft.py:425-437, 600-606).
PaidOnce == \A p \in Asked \X Versions : paid[p] <= 1 + asks + faults

\* The mailbox gets one copy, but for those whose arrival the box was not told of.
OneCopy == \A d \in Asked : copies[d] <= 1 + unheard[d]

\* A message the drafter may answer, from some moment on for good: the newest of its
\* conversation, no machine's, no robot's, of no channel left to the owner, not muted, with
\* the drafter on, and not one that the model fails on every time.
Answerable(d) ==
  /\ Newest(d) /\ ~Muted(d) /\ ~Taken(d) /\ ~off
  /\ ConvOf[d] \notin LeftAlone /\ d \notin Stubborn

\* Such a message gets a draft or a decision: not even one that fails at every sweep, and
\* comes before it, keeps it waiting for good (draft.py:746-785, 849).
EveryMessageJudged == \A d \in Asked : <>[]Answerable(d) => <>(body[d] # "none")
=============================================================================
