---------------------------- MODULE DraftsProofs ----------------------------
(* Proofs about Drafts, for any number of messages, of changes of the rules,  *)
(* of requests and of faults.                                                 *)
EXTENDS Drafts, TLAPS

(* What the thread does, as far as the type goes.                             *)
Threads == [at : Phases, d : Asked \union {NoOne}, kind : Kinds, under : Versions,
            list : SUBSET Asked]
ThreadOK == thread \in Threads /\ (thread.at = "rest" <=> thread.d = NoOne)

LEMMA RestOK == Rest \in Threads /\ Rest.at = "rest" /\ Rest.d = NoOne /\ Rest.list = {}
BY DraftsAssumption DEF Rest, Threads, Phases, Kinds, Versions

LEMMA MovesOK ==
  ASSUME NEW t \in Threads, NEW phase \in Phases
  PROVE  /\ [t EXCEPT !.at = phase] \in Threads
         /\ [t EXCEPT !.at = phase].at = phase
         /\ [t EXCEPT !.at = phase].d = t.d
         /\ [t EXCEPT !.at = phase].kind = t.kind
         /\ [t EXCEPT !.at = phase].under = t.under
         /\ [t EXCEPT !.at = phase].list = t.list
BY DEF Threads

LEMMA ListsOK ==
  ASSUME NEW t \in Threads, NEW l \in SUBSET Asked
  PROVE  LET s == [t EXCEPT !.at = "listed", !.list = l]
         IN  s \in Threads /\ s.at = "listed" /\ s.d = t.d /\ s.list = l
BY DEF Threads, Phases

LEMMA FieldsOK ==
  ASSUME NEW t \in Threads
  PROVE  /\ t.at \in Phases /\ t.d \in Asked \union {NoOne} /\ t.kind \in Kinds
         /\ t.under \in Versions /\ t.list \in SUBSET Asked
BY DEF Threads
-----------------------------------------------------------------------------
(* The four variables of a draft's row, and the counts.                       *)
RowsOK ==
  /\ current \in Versions
  /\ body \in [Asked -> {"none", "words", "noReply"}]
  /\ words \in [Asked -> Versions \union {Kept}]
  /\ rules \in [Asked -> Versions \union {NoRules, Kept}]
  /\ dismissed \subseteq Asked /\ mailed \subseteq Asked
  /\ requested \subseteq Asked
  /\ refused \subseteq Asked /\ everAsked \subseteq Asked

AskingOK == asking \in [d : Asked \union {NoOne}, list : SUBSET Asked]

WorldOK ==
  /\ came \subseteq Asked /\ answered \subseteq Asked
  /\ muted \subseteq Convs /\ held \subseteq Convs /\ off \in BOOLEAN
  /\ turns \in Nat

PatienceOK == fails \in [Keys -> Nat] /\ resting \in [Keys -> Nat]

CountsOK ==
  /\ copies \in [Asked -> Nat] /\ unheard \in [Asked -> Nat]
  /\ paid \in [Asked \X Versions -> Nat]
  /\ faults \in Nat /\ asks \in Nat

LEMMA TypeParts ==
  TypeOK <=> RowsOK /\ CountsOK /\ ThreadOK /\ AskingOK /\ WorldOK /\ PatienceOK
BY DEF TypeOK, RowsOK, CountsOK, ThreadOK, AskingOK, WorldOK, PatienceOK, Threads

(* What a call that wrote nothing leaves alone.                               *)
NoCall == ThinkFails \/ ModelRefuses \/ AnswersNothing

LEMMA NoCallIs ==
  ASSUME NoCall
  PROVE  /\ UNCHANGED <<current, body, words, rules, dismissed, worldVars, requested, asking, mailed, asks>>
         /\ UNCHANGED <<refused, everAsked, copies, unheard>>
         /\ thread.at = "thinks" /\ thread' = Rest
BY DEF NoCall, ThinkFails, ModelRefuses, AnswersNothing, NothingCame, draftVars, listVars

(* What the conversations do and the switch leave everything else alone.      *)
LEMMA WorldIs ==
  ASSUME World
  PROVE  /\ UNCHANGED <<current, body, words, rules, dismissed, requested, asking, fails, resting>>
         /\ UNCHANGED <<mailed, thread, refused, everAsked, copies, unheard, paid, faults, asks>>
BY DEF World, draftVars, listVars, restVars, seenVars

LEMMA ThreadInductive ==
  ASSUME TypeOK, [Next]_vars
  PROVE  ThreadOK'
<1>a. /\ thread \in Threads /\ (thread.at = "rest" <=> thread.d = NoOne)
      /\ current \in Versions /\ requested \in SUBSET Asked
  BY TypeParts DEF ThreadOK, RowsOK
<1>b. NoOne \notin Asked
  BY DraftsAssumption
<1> USE <1>a, <1>b DEF ThreadOK
<1>1. ASSUME NEW d \in Asked, NEW kind \in Kinds, Thinks(d, kind)
      PROVE  ThreadOK'
  <2> DEFINE s == [thread EXCEPT !.at = "thinks", !.d = d, !.kind = kind, !.under = current]
  <2>1. s \in Threads /\ s.at = "thinks" /\ s.d = d
    BY DEF Threads, Phases
  <2>2. thread' = s
    BY <1>1 DEF Thinks
  <2> QED
    BY <2>1, <2>2
<1>2. ASSUME NEW d \in Asked, Stamps(d)
      PROVE  ThreadOK'
  <2> DEFINE s == [thread EXCEPT !.at = "appends", !.d = d]
  <2>1. s \in Threads /\ s.at = "appends" /\ s.d = d
    BY DEF Threads, Phases
  <2>2. thread' = s
    BY <1>2 DEF Stamps
  <2> QED
    BY <2>1, <2>2
<1>3. ASSUME NEW phase \in Phases \ {"rest"}, thread.at # "rest", Does(phase)
      PROVE  ThreadOK'
  BY <1>3, MovesOK DEF Does
<1>4. ASSUME thread' = Rest
      PROVE  ThreadOK'
  BY <1>4, RestOK
<1>5. ASSUME NEW judged, thread.at # "rest", AfterAnswer(judged)
      PROVE  ThreadOK'
  BY <1>4, <1>5, ListsOK DEF AfterAnswer
<1>6. CASE ModelAnswers
  BY <1>3, <1>6 DEF ModelAnswers, Phases
<1>7. CASE WritesWords
  BY <1>5, <1>7 DEF WritesWords
<1>8. CASE WritesNoReply
  BY <1>3, <1>4, <1>5, <1>8 DEF WritesNoReply, Phases
<1>9. CASE NoCall \/ Dismisses \/ DoneRewriting \/ Appends \/ AppendFails \/ Dies
  BY <1>4, <1>9, NoCallIs DEF Dismisses, DoneRewriting, Appends, AppendFails, Dies
<1>10. CASE FindsNothing \/ OwnerStep \/ World \/ UNCHANGED vars
  BY <1>10, WorldIs DEF FindsNothing, OwnerStep, RulesChange, Discards, LeavesADraft, AsksAgain, Requests, vars
<1>11. ASSUME NEW d \in Asked, ForgetsRequests(d)
      PROVE  ThreadOK'
  <2> DEFINE s == [thread EXCEPT !.at = "listed", !.d = d, !.kind = "request", !.list = requested]
  <2>1. s \in Threads /\ s.at = "listed" /\ s.d = d
    BY DEF Threads, Phases, Kinds
  <2>2. thread' = s
    BY <1>11 DEF ForgetsRequests
  <2> QED
    BY <2>1, <2>2
<1> QED
  BY <1>1, <1>2, <1>6, <1>7, <1>8, <1>9, <1>10, <1>11 DEF Next, ThreadStep, NoCall

LEMMA AskingInductive ==
  ASSUME TypeOK, [Next]_vars
  PROVE  AskingOK'
<1>a. AskingOK /\ requested \in SUBSET Asked
  BY TypeParts DEF RowsOK
<1> USE <1>a DEF AskingOK
<1>1. ASSUME NEW d \in Asked, AsksAgain(d)
      PROVE  AskingOK'
  BY <1>1 DEF AsksAgain
<1>2. CASE Requests
  BY <1>2 DEF Requests, NoAsk
<1>3. CASE ThreadStep
  BY <1>3, NoCallIs DEF ThreadStep, Thinks, FindsNothing, ForgetsRequests, Stamps, ModelAnswers, WritesWords,
     WritesNoReply, Dismisses, DoneRewriting, Appends, listVars, NoCall
<1>4. CASE NoCall \/ AppendFails \/ Dies \/ World \/ RulesChange \/ UNCHANGED vars
  BY <1>4, NoCallIs, WorldIs DEF AppendFails, Dies, RulesChange, vars, listVars
<1>5. ASSUME NEW d \in Asked, Discards(d) \/ LeavesADraft(d)
      PROVE  AskingOK'
  BY <1>5 DEF Discards, LeavesADraft, listVars
<1> QED
  BY <1>1, <1>2, <1>3, <1>4, <1>5 DEF Next, OwnerStep, NoCall

LEMMA WorldInductive ==
  ASSUME TypeOK, [Next]_vars
  PROVE  WorldOK'
<1>a. WorldOK
  BY TypeParts
<1> USE <1>a DEF WorldOK
<1>1. CASE World
  <2>1. ASSUME NEW d \in Asked, Arrives(d)
        PROVE  WorldOK'
    BY <2>1 DEF Arrives
  <2>2. ASSUME NEW c \in Convs, Answers(c)
        PROVE  WorldOK'
    BY <2>2 DEF Answers, Turn, Written
  <2>3. ASSUME NEW c \in Convs, Mutes(c) \/ Holds(c)
        PROVE  WorldOK'
    BY <2>3 DEF Mutes, Holds, Turn
  <2>4. ASSUME NEW c \in Convs, Frees(c)
        PROVE  WorldOK'
    <3>1. held' = held \ {c} /\ UNCHANGED <<came, answered, muted, off, turns>>
      BY <2>4 DEF Frees
    <3> QED
      BY <3>1
  <2>5. CASE SwitchesOff \/ SwitchesOn
    <3>1. off' \in BOOLEAN /\ UNCHANGED <<came, answered, muted, held>> /\ turns' \in {turns, turns + 1}
      BY <2>5 DEF SwitchesOff, SwitchesOn, Turn
    <3> QED
      BY <3>1
  <2> QED
    BY <1>1, <2>1, <2>2, <2>3, <2>4, <2>5 DEF World
<1>2. CASE UNCHANGED worldVars
  BY <1>2 DEF worldVars
<1>3. UNCHANGED worldVars \/ World
  <2>1. CASE ThreadStep
    BY <2>1, NoCallIs DEF ThreadStep, Thinks, FindsNothing, ForgetsRequests, Stamps, ModelAnswers, WritesWords,
       WritesNoReply, Dismisses, DoneRewriting, Appends, NoCall
  <2>2. CASE OwnerStep
    BY <2>2 DEF OwnerStep, RulesChange, Discards, LeavesADraft, AsksAgain, Requests
  <2>3. CASE NoCall \/ AppendFails \/ Dies \/ UNCHANGED vars
    BY <2>3, NoCallIs DEF AppendFails, Dies, vars
  <2> QED
    BY <2>1, <2>2, <2>3 DEF Next, NoCall
<1> QED
  BY <1>1, <1>2, <1>3

(* Counting the failures of one key, and setting it aside.                    *)
LEMMA CountOne ==
  ASSUME NEW S, NEW f \in [S -> Nat], NEW x, NEW n \in Nat
  PROVE  [f EXCEPT ![x] = n] \in [S -> Nat]
OBVIOUS

LEMMA PatienceSteps ==
  ASSUME PatienceOK, TypeOK
  PROVE  /\ Rested \in [Keys -> Nat]
         /\ Worked => PatienceOK'
         /\ \A k \in Keys : SetsAside(k) => PatienceOK'
<1>1. Rested \in [Keys -> Nat]
  BY DEF PatienceOK, Rested
<1>2. Worked => PatienceOK'
  <2> DEFINE x == <<thread.d, thread.kind>>
  <2> SUFFICES ASSUME Worked PROVE PatienceOK'
    OBVIOUS
  <2>1. fails' = [fails EXCEPT ![x] = 0] /\ UNCHANGED resting
    BY DEF Worked
  <2> HIDE DEF x
  <2> QED
    BY <2>1, CountOne DEF PatienceOK
<1>3. ASSUME NEW k \in Keys, SetsAside(k)
      PROVE  PatienceOK'
  <2>1. fails[k] + 1 \in Nat /\ RestSweeps \in Nat
    BY DraftsAssumption DEF PatienceOK
  <2>2. CASE fails[k] + 1 < FailsToRest
    BY <1>3, <2>1, <2>2, CountOne DEF SetsAside, PatienceOK
  <2>3. CASE ~(fails[k] + 1 < FailsToRest)
    BY <1>3, <2>1, <2>3, CountOne DEF SetsAside, PatienceOK
  <2> QED
    BY <2>2, <2>3
<1> QED
  BY <1>1, <1>2, <1>3

LEMMA PatienceInductive ==
  ASSUME TypeOK, [Next]_vars
  PROVE  PatienceOK'
<1>a. PatienceOK
  BY TypeParts
<1>b. Worked => PatienceOK'
  BY <1>a, PatienceSteps
<1>c. UNCHANGED restVars => PatienceOK'
  BY <1>a DEF PatienceOK, restVars
<1>d. ASSUME thread.at # "rest", Failed
      PROVE  PatienceOK'
  <2>1. <<thread.d, thread.kind>> \in Keys
    BY <1>d, TypeParts DEF ThreadOK, Threads, Keys
  <2> QED
    BY <1>a, <1>b, <1>c, <1>d, <2>1, PatienceSteps DEF Failed
<1>1. CASE FindsNothing \/ \E d \in Asked, kind \in Kinds : Thinks(d, kind)
  BY <1>1, <1>a, PatienceSteps DEF FindsNothing, Thinks, PatienceOK
<1>2. CASE NoCall
  BY <1>2, <1>d DEF NoCall, ThinkFails, ModelRefuses, AnswersNothing, NothingCame
<1>3. CASE WritesWords
  BY <1>3, <1>b, <1>c, <1>d DEF WritesWords
<1>4. CASE WritesNoReply
  BY <1>4, <1>b, <1>c DEF WritesNoReply, restVars
<1>5. CASE Dies
  BY <1>5 DEF Dies, PatienceOK
<1>6. CASE ModelAnswers \/ Dismisses \/ DoneRewriting \/ Appends \/ AppendFails \/ OwnerStep
  BY <1>6, <1>c DEF ModelAnswers, Dismisses, DoneRewriting, Appends, AppendFails, OwnerStep, RulesChange,
     Discards, LeavesADraft, AsksAgain, Requests
<1>7. ASSUME NEW d \in Asked, ForgetsRequests(d) \/ Stamps(d)
      PROVE  PatienceOK'
  BY <1>7, <1>c DEF ForgetsRequests, Stamps
<1>8. CASE World \/ UNCHANGED vars
  BY <1>8, <1>c, WorldIs DEF vars, restVars
<1> QED
  BY <1>1, <1>2, <1>3, <1>4, <1>5, <1>6, <1>7, <1>8 DEF Next, ThreadStep, NoCall

(* Who is at work has a draft in hand, judged under rules there have been.    *)
LEMMA InHand ==
  ASSUME TypeOK
  PROVE  /\ thread.at # "rest" => thread.d \in Asked
         /\ thread.under \in Versions /\ thread.kind \in Kinds /\ thread.list \subseteq Asked
BY TypeParts, FieldsOK DEF ThreadOK

LEMMA RowsInductive ==
  ASSUME TypeOK, [Next]_vars
  PROVE  RowsOK'
<1>a. RowsOK
  BY TypeParts
<1>b. MaxRules \in Nat /\ (asking.d # NoOne => asking.d \in Asked) /\ asking.list \subseteq Asked
  BY TypeParts, DraftsAssumption DEF AskingOK
<1> USE <1>a, <1>b, InHand DEF RowsOK, seenVars, listVars, Versions, Kept, NoRules
<1>1. ASSUME NEW d \in Asked, (\E kind \in Kinds : Thinks(d, kind)) \/ Stamps(d) \/ ForgetsRequests(d)
      PROVE  RowsOK'
  BY <1>1 DEF Thinks, Stamps, ForgetsRequests, draftVars
<1>2. CASE NoCall \/ World
  BY <1>2, NoCallIs, WorldIs
<1>2a. CASE FindsNothing \/ ModelAnswers \/ Dismisses \/ DoneRewriting
  BY <1>2a DEF FindsNothing, ModelAnswers, Dismisses, DoneRewriting, draftVars
<1>3. CASE WritesWords
  BY <1>3 DEF WritesWords, Puts, Rewrites, Revives, Write, draftVars
<1>4. CASE WritesNoReply
  BY <1>4 DEF WritesNoReply, Puts, Write, Mark
<1>5. CASE Appends \/ AppendFails \/ Dies
  BY <1>5 DEF Appends, AppendFails, Dies, draftVars
<1>6. CASE OwnerStep
  BY <1>6 DEF OwnerStep, RulesChange, Discards, LeavesADraft, Write, AsksAgain, Requests, draftVars
<1>7. CASE UNCHANGED vars
  BY <1>7 DEF vars, draftVars
<1> QED
  BY <1>1, <1>2, <1>2a, <1>3, <1>4, <1>5, <1>6, <1>7 DEF Next, ThreadStep, NoCall

LEMMA OneMore ==
  ASSUME NEW S, NEW f \in [S -> Nat], NEW x \in S
  PROVE  [f EXCEPT ![x] = @ + 1] \in [S -> Nat]
OBVIOUS

LEMMA CountsInductive ==
  ASSUME TypeOK, [Next]_vars
  PROVE  CountsOK'
<1>a. CountsOK
  BY TypeParts
<1> USE <1>a, InHand DEF CountsOK, seenVars, Faulty
<1>1. ASSUME NEW d \in Asked, (\E kind \in Kinds : Thinks(d, kind)) \/ Stamps(d) \/ ForgetsRequests(d)
      PROVE  CountsOK'
  BY <1>1 DEF Thinks, Stamps, ForgetsRequests
<1>2. CASE FindsNothing \/ Dismisses \/ DoneRewriting
  BY <1>2 DEF FindsNothing, Dismisses, DoneRewriting
<1>2a. CASE ThinkFails \/ ModelRefuses \/ World
  BY <1>2a, WorldIs DEF ThinkFails, ModelRefuses, NothingCame
<1>2b. CASE WritesWords \/ WritesNoReply
  BY <1>2b DEF WritesWords, WritesNoReply
<1>3. CASE ModelAnswers \/ AnswersNothing
  <2> DEFINE S == Asked \X Versions
             x == <<thread.d, thread.under>>
  <2>1. x \in S
    BY <1>3 DEF ModelAnswers, AnswersNothing, NothingCame
  <2>2. paid \in [S -> Nat]
    OBVIOUS
  <2>3. paid' = [paid EXCEPT ![x] = @ + 1]
    BY <1>3 DEF ModelAnswers, AnswersNothing, NothingCame
  <2>4. paid' \in [S -> Nat]
    <3> HIDE DEF S, x
    <3> QED
      BY <2>1, <2>2, <2>3, OneMore
  <2> QED
    BY <1>3, <2>4 DEF ModelAnswers, AnswersNothing, NothingCame
<1>4. CASE Appends \/ AppendFails \/ Dies
  BY <1>4 DEF Appends, AppendFails, Dies
<1>5. CASE OwnerStep
  BY <1>5 DEF OwnerStep, RulesChange, Discards, LeavesADraft, AsksAgain, Requests
<1>6. CASE UNCHANGED vars
  BY <1>6 DEF vars
<1> QED
  BY <1>1, <1>2, <1>2a, <1>2b, <1>3, <1>4, <1>5, <1>6 DEF Next, ThreadStep

(* Type correctness.                                                          *)
THEOREM DraftsTypeCorrect == Spec => []TypeOK
<1>1. Init => TypeOK
  <2> SUFFICES ASSUME Init
               PROVE  RowsOK /\ CountsOK /\ ThreadOK /\ AskingOK /\ WorldOK /\ PatienceOK
    BY TypeParts
  <2>1. RowsOK
    BY DraftsAssumption DEF Init, RowsOK, Versions, NoRules
  <2>2. CountsOK
    BY DEF Init, CountsOK
  <2>3. ThreadOK
    BY RestOK DEF Init, ThreadOK
  <2>4. AskingOK /\ WorldOK /\ PatienceOK
    BY DEF Init, AskingOK, WorldOK, PatienceOK, NoAsk
  <2> QED
    BY <2>1, <2>2, <2>3, <2>4
<1>2. TypeOK /\ [Next]_vars => TypeOK'
  <2>1. TypeOK' <=> (RowsOK' /\ CountsOK' /\ ThreadOK' /\ AskingOK' /\ WorldOK' /\ PatienceOK')
    BY DEF TypeOK, RowsOK, CountsOK, ThreadOK, AskingOK, WorldOK, PatienceOK, Threads
  <2> QED
    BY <2>1, RowsInductive, CountsInductive, ThreadInductive, AskingInductive, WorldInductive,
       PatienceInductive
<1> QED
  BY <1>1, <1>2, PTL DEF Spec
-----------------------------------------------------------------------------
(* What a person threw away: his words, and dismissed.                        *)
RefusedInv == \A d \in refused : d \in dismissed /\ body[d] = "words"

(* A step leaves it so, and what it says of such a draft is that it stays.    *)
LEMMA RefusedKept ==
  ASSUME TypeOK, RefusedInv, [Next]_vars
  PROVE  /\ RefusedInv'
         /\ \A d \in refused : d \in dismissed' /\ words'[d] = words[d] /\ body'[d] = body[d]
<1> DEFINE Stays == \A d \in refused : d \in dismissed' /\ words'[d] = words[d] /\ body'[d] = body[d]
<1>a. RowsOK
  BY TypeParts
<1> USE <1>a, InHand DEF RowsOK, RefusedInv, seenVars
<1>1. ASSUME NEW d \in Asked, Discards(d)
      PROVE  RefusedInv' /\ Stays
  BY <1>1 DEF Discards
<1>2. ASSUME UNCHANGED <<body, words, refused>>, dismissed \subseteq dismissed'
      PROVE  RefusedInv' /\ Stays
  BY <1>2
<1>3. CASE WritesWords
  BY <1>3 DEF WritesWords, Puts, Rewrites, Revives, Write, draftVars
<1>4. CASE WritesNoReply
  BY <1>4 DEF WritesNoReply, Puts, Write, Mark
<1>5. ASSUME NEW d \in Asked, LeavesADraft(d)
      PROVE  RefusedInv' /\ Stays
  BY <1>5 DEF LeavesADraft, Write
<1>6. CASE (\E d \in Asked : (\E kind \in Kinds : Thinks(d, kind)) \/ Stamps(d) \/ ForgetsRequests(d) \/ AsksAgain(d))
           \/ RulesChange \/ Requests \/ FindsNothing \/ ModelAnswers \/ Dismisses \/ DoneRewriting
  BY <1>2, <1>6 DEF Thinks, Stamps, AsksAgain, Requests, RulesChange, ForgetsRequests, FindsNothing, ModelAnswers,
                    Dismisses, DoneRewriting, draftVars
<1>7. CASE NoCall \/ World \/ Appends \/ AppendFails \/ Dies \/ UNCHANGED vars
  BY <1>2, <1>7, NoCallIs, WorldIs DEF Appends, AppendFails, Dies, vars, draftVars
<1> QED
  BY <1>1, <1>3, <1>4, <1>5, <1>6, <1>7 DEF Next, ThreadStep, OwnerStep, NoCall

(* No answer of a model that was under way brings back what a person threw    *)
(* away, nor writes over it (drafter/store.py rewrite, revive).               *)
THEOREM ThrownAwayForGood == Spec => NoStaysNo
<1> DEFINE Stays == \A d \in refused : d \in dismissed' /\ words'[d] = words[d] /\ body'[d] = body[d]
<1>1. Init => RefusedInv
  BY DEF Init, RefusedInv
<1>2. TypeOK /\ RefusedInv /\ [Next]_vars => RefusedInv' /\ [Stays]_vars
  BY RefusedKept
<1> QED
  BY <1>1, <1>2, DraftsTypeCorrect, PTL DEF Spec, NoStaysNo
-----------------------------------------------------------------------------
(* The copies of a draft that the box was told of are one at most, and none   *)
(* while there is no stamp on it or while the copy is being made.             *)
MailInv ==
  /\ thread.at = "appends" => thread.d \in mailed
  /\ \A d \in Asked :
       /\ copies[d] <= 1 + unheard[d]
       /\ d \notin mailed \/ (thread.at = "appends" /\ thread.d = d) => copies[d] <= unheard[d]

LEMMA MailInvInductive ==
  ASSUME TypeOK, MailInv, [Next]_vars
  PROVE  MailInv'
<1>a. CountsOK /\ thread \in Threads /\ mailed \subseteq Asked
  BY TypeParts DEF ThreadOK, RowsOK
<1> USE <1>a, InHand DEF CountsOK, MailInv, seenVars
<1>1. ASSUME NEW d \in Asked, Stamps(d)
      PROVE  MailInv'
  <2>1. thread'.at = "appends" /\ thread'.d = d
    BY <1>1 DEF Stamps, Threads
  <2> QED
    BY <1>1, <2>1 DEF Stamps, InMailbox
<1>2. CASE Appends
  BY <1>2, RestOK DEF Appends
<1>3. CASE AppendFails
  BY <1>3, RestOK DEF AppendFails
<1>4. ASSUME UNCHANGED <<copies, unheard, mailed>>, thread'.at # "appends"
      PROVE  MailInv'
  BY <1>4
<1>5. ASSUME NEW d \in Asked, NEW kind \in Kinds, Thinks(d, kind)
      PROVE  MailInv'
  <2>1. thread'.at = "thinks"
    BY <1>5 DEF Thinks, Threads
  <2> QED
    BY <1>4, <1>5, <2>1 DEF Thinks
<1>6. ASSUME NEW phase \in Phases \ {"appends"}, Does(phase)
      PROVE  thread'.at # "appends"
  BY <1>6, MovesOK DEF Does
<1>7. ASSUME NEW judged, AfterAnswer(judged), requested \subseteq Asked
      PROVE  thread'.at # "appends"
  BY <1>7, RestOK, ListsOK DEF AfterAnswer
<1>8. CASE ModelAnswers
  BY <1>4, <1>6, <1>8 DEF ModelAnswers, Phases
<1>9. CASE WritesWords \/ WritesNoReply
  <2>1. requested \subseteq Asked
    BY TypeParts DEF RowsOK
  <2>2. thread'.at # "appends"
    BY <1>6, <1>7, <1>9, <2>1, RestOK DEF WritesWords, WritesNoReply, Phases
  <2> QED
    BY <1>4, <1>9, <2>2 DEF WritesWords, WritesNoReply
<1>10. CASE NoCall \/ Dismisses \/ DoneRewriting \/ Dies
  BY <1>4, <1>10, RestOK, NoCallIs DEF Dismisses, DoneRewriting, Dies
<1>11. CASE FindsNothing \/ OwnerStep \/ World \/ UNCHANGED vars
  BY <1>11, WorldIs DEF FindsNothing, OwnerStep, RulesChange, Discards, LeavesADraft, AsksAgain, Requests, vars
<1>12. ASSUME NEW d \in Asked, ForgetsRequests(d)
      PROVE  MailInv'
  <2>1. thread'.at = "listed"
    BY <1>12 DEF ForgetsRequests, Threads
  <2> QED
    BY <1>4, <1>12, <2>1 DEF ForgetsRequests
<1> QED
  BY <1>1, <1>2, <1>3, <1>5, <1>8, <1>9, <1>10, <1>11, <1>12 DEF Next, ThreadStep, NoCall

(* The owner's mailbox gets one copy of a draft, and one more only for each   *)
(* copy whose arrival the box was not told of (inbox/mailbox_drafts.py).      *)
THEOREM CopiedOnce == Spec => []OneCopy
<1>1. Init => MailInv
  BY RestOK DEF Init, MailInv
<1>2. TypeOK /\ MailInv /\ [Next]_vars => MailInv'
  BY MailInvInductive
<1>3. MailInv => OneCopy
  BY DEF MailInv, OneCopy
<1> QED
  BY <1>1, <1>2, <1>3, DraftsTypeCorrect, PTL DEF Spec
-----------------------------------------------------------------------------
(* Words of his own AI that he never asked about bear its mark, and the       *)
(* drafter has none of them in hand to be replaced.                           *)
Judging == thread.at \in {"thinks", "words", "noReply"}

JudgedOK(t) ==
  /\ t.kind = "request" => t.d \in everAsked
  /\ t.kind = "stale" => body[t.d] # "none" /\ (words[t.d] # Kept \/ t.d \in everAsked)
  /\ t.kind = "recheck" => body[t.d] = "noReply"

TheirsInv ==
  /\ requested \subseteq everAsked /\ thread.list \subseteq everAsked
  /\ asking.list \subseteq everAsked /\ (asking.d # NoOne => asking.d \in everAsked)
  /\ \A d \in Asked :
       /\ body[d] = "noReply" => words[d] # Kept
       /\ body[d] # "none" /\ words[d] = Kept /\ d \notin everAsked => rules[d] = Kept
  /\ Judging => JudgedOK(thread)

Untouched == \A d \in Asked : body[d] # "none" /\ words[d] = Kept /\ words'[d] # Kept => d \in everAsked

LEMMA TheirsKept ==
  ASSUME TypeOK, TheirsInv, [Next]_vars
  PROVE  TheirsInv' /\ Untouched
<1>a. RowsOK /\ thread \in Threads
  BY TypeParts DEF ThreadOK
<1> USE <1>a, InHand DEF RowsOK, TheirsInv, Untouched, Judging, JudgedOK, seenVars, listVars, Kept, NoRules, Versions
<1>1. ASSUME NEW d \in Asked, NEW kind \in Kinds, Thinks(d, kind)
      PROVE  TheirsInv' /\ Untouched
  <2>1. thread'.d = d /\ thread'.kind = kind /\ thread'.list = thread.list
    BY <1>1 DEF Thinks, Threads
  <2>2. UNCHANGED <<body, words, rules, requested, everAsked>>
    BY <1>1 DEF Thinks, draftVars
  <2>3. WorthACall(d, kind) /\ UNCHANGED asking
    BY <1>1 DEF Thinks, Due
  <2> QED
    BY <2>1, <2>2, <2>3 DEF WorthACall, Requested, StaleWaiting, StaleNoReply, Waiting
<1>2. ASSUME NEW d \in Asked, Stamps(d)
      PROVE  TheirsInv' /\ Untouched
  <2>1. thread'.at = "appends" /\ thread'.list = thread.list
    BY <1>2 DEF Stamps, Threads
  <2> QED
    BY <1>2, <2>1 DEF Stamps, draftVars
<1>3. CASE ModelAnswers
  <2>1. thread'.d = thread.d /\ thread'.kind = thread.kind /\ thread'.list = thread.list
    BY <1>3, MovesOK DEF ModelAnswers, Does, Phases
  <2> QED
    BY <1>3, <2>1 DEF ModelAnswers, draftVars
<1>4. CASE NoCall \/ Dismisses \/ DoneRewriting \/ Appends \/ AppendFails \/ Dies
  BY <1>4, RestOK, NoCallIs DEF Dismisses, DoneRewriting, Appends, AppendFails, Dies, draftVars
<1>4a. ASSUME NEW d \in Asked, ForgetsRequests(d)
      PROVE  TheirsInv' /\ Untouched
  <2>1. thread'.at = "listed" /\ thread'.list = requested
    BY <1>4a DEF ForgetsRequests, Threads
  <2> QED
    BY <1>4a, <2>1 DEF ForgetsRequests, draftVars
<1>5. ASSUME NEW judged, AfterAnswer(judged), UNCHANGED everAsked
      PROVE  thread'.at \in {"listed", "rest"} /\ thread'.list \subseteq everAsked
  <2>1. CASE thread' = Rest
    BY <1>5, <2>1, RestOK
  <2>2. CASE thread' = [thread EXCEPT !.at = "listed", !.list = requested]
    <3>1. thread'.at = "listed" /\ thread'.list = requested
      BY <2>2 DEF Threads
    <3> QED
      BY <1>5, <3>1
  <2> QED
    BY <1>5, <2>1, <2>2 DEF AfterAnswer
<1>6. CASE WritesWords
  <2>1. thread'.at \in {"listed", "rest"} /\ thread'.list \subseteq everAsked
    BY <1>5, <1>6 DEF WritesWords
  <2> QED
    BY <1>6, <2>1 DEF WritesWords, Puts, Rewrites, Revives, Write, draftVars, Kinds
<1>7. CASE WritesNoReply
  <2>1. thread'.at \in {"listed", "rest", "undismissed"} /\ thread'.list \subseteq everAsked
    <3>1. ASSUME Does("undismissed")
          PROVE  thread'.at = "undismissed" /\ thread'.list = thread.list
      BY <3>1 DEF Does, Threads
    <3> QED
      BY <1>5, <1>7, <3>1, RestOK DEF WritesNoReply
  <2>2. CASE thread.kind = "new" /\ Puts("noReply")
    BY <1>7, <2>1, <2>2 DEF WritesNoReply, Puts, Write
  <2>3. ASSUME NEW mark \in Versions, Mark(thread.d, mark), thread.kind # "new"
        PROVE  TheirsInv' /\ Untouched
    BY <1>7, <2>1, <2>3 DEF WritesNoReply, Mark, Kinds
  <2> QED
    BY <1>7, <2>2, <2>3 DEF WritesNoReply
<1>8. ASSUME NEW d \in Asked, LeavesADraft(d)
      PROVE  TheirsInv' /\ Untouched
  BY <1>8 DEF LeavesADraft, Write
<1>9. ASSUME NEW d \in Asked, Discards(d) \/ AsksAgain(d)
      PROVE  TheirsInv' /\ Untouched
  BY <1>9 DEF Discards, AsksAgain, draftVars
<1>9a. CASE Requests
  BY <1>9a DEF Requests, NoAsk, draftVars
<1>10. CASE FindsNothing \/ RulesChange \/ World \/ UNCHANGED vars
  BY <1>10, WorldIs DEF FindsNothing, RulesChange, vars, draftVars
<1> QED
  BY <1>1, <1>2, <1>3, <1>4, <1>4a, <1>6, <1>7, <1>8, <1>9, <1>9a, <1>10 DEF Next, ThreadStep, OwnerStep, NoCall

(* What the owner's own AI wrote is replaced by the box only when he asked    *)
(* for that draft to be written again (drafter/store.py waiting_to_refresh).  *)
THEOREM TheirWordsKept == Spec => TheirWordsStand
<1>1. Init => TheirsInv
  BY RestOK DEF Init, TheirsInv, Judging, Kept, NoRules, NoAsk
<1>2. TypeOK /\ TheirsInv /\ [Next]_vars => TheirsInv' /\ [Untouched]_vars
  BY TheirsKept
<1> QED
  BY <1>1, <1>2, DraftsTypeCorrect, PTL DEF Spec, TheirWordsStand, Untouched
-----------------------------------------------------------------------------
(* What is still to be paid for a draft under the rules of now, before anybody *)
(* asks or anything fails again: nothing for words a person threw away, one   *)
(* call for a draft behind the rules, one for a request that stands, and one  *)
(* more for a "no reply" that a death left undismissed, which a person may    *)
(* throw away while it is judged.  A call takes one off.                      *)
Behind(d)  == rules[d] \notin {current, Kept}
Off(d)     == d \in dismissed \/ (thread.at = "undismissed" /\ thread.d = d)
Wanted(d)  == d \in requested /\ ~(thread.at = "listed" /\ thread.d = d)
WantedN(d) == IF Wanted(d) THEN 1 ELSE 0
OnN(d)     == IF Off(d) THEN 0 ELSE 1

OfWords(d)   == IF Off(d) THEN 0 ELSE (IF Behind(d) THEN 1 ELSE 0) + WantedN(d)
OfNoReply(d) == IF Behind(d) THEN 1 + WantedN(d) + OnN(d) ELSE IF Off(d) THEN 0 ELSE WantedN(d)
AtRest(d) ==
  IF body[d] = "none" THEN 1 ELSE IF body[d] = "words" THEN OfWords(d) ELSE OfNoReply(d)

AfterNew(d)     == IF body[d] = "none" THEN 0 ELSE AtRest(d)
AfterStale(d)   == IF body[d] = "noReply" THEN 1 + WantedN(d) ELSE IF Off(d) THEN 0 ELSE WantedN(d)
AfterRequest(d) == IF Behind(d) THEN (IF body[d] = "noReply" THEN 2 ELSE OnN(d)) ELSE 0
AfterRecheck(d) == (IF thread.under = current THEN 0 ELSE 1) + WantedN(d) + OnN(d)
AfterCall(d) ==
  IF thread.kind = "new" THEN AfterNew(d) ELSE IF thread.kind = "stale" THEN AfterStale(d)
  ELSE IF thread.kind = "request" THEN AfterRequest(d) ELSE AfterRecheck(d)

ToCome(d)      == IF Judging /\ thread.d = d THEN AfterCall(d) ELSE AtRest(d)
UnderWay(d, v) == IF thread.at = "thinks" /\ thread.d = d /\ thread.under = v THEN 1 ELSE 0
Calls(d, v)    == paid[<<d, v>>] + UnderWay(d, v)

(* A screen that has read the owner's list, and has yet to write it back, may  *)
(* put any draft on it again that was judged in between.                       *)
AskN == IF asking.d = NoOne THEN 0 ELSE 1

PaidAux ==
  /\ Judging => thread.under <= current
  /\ thread.at = "listed" => thread.list \subseteq requested
  /\ thread.at = "undismissed" => body[thread.d] = "noReply"
  /\ Judging /\ thread.kind = "request" => thread.d \in requested
  /\ \A d \in requested : body[d] # "none" /\ asks >= 1 + AskN
  /\ asking.d # NoOne =>
       /\ asks >= 1 /\ requested \subseteq asking.list /\ body[asking.d] # "none"
       /\ \A d \in asking.list : body[d] # "none"
  /\ \A d \in Asked : body[d] = "noReply" => rules[d] # Kept /\ (Off(d) \/ faults >= 1)
PaidInv ==
  /\ PaidAux
  /\ \A d \in Stubborn, v \in Versions : paid[<<d, v>>] = 0
  /\ \A d \in Asked \ Stubborn, v \in Versions :
       /\ v > current => paid[<<d, v>>] = 0
       /\ v < current => Calls(d, v) <= 1 + asks + faults
       /\ v = current => Calls(d, v) + ToCome(d) + AskN <= 1 + asks + faults

(* Whole numbers, and what is known of the draft in hand.                      *)
LEMMA PaidTypes ==
  ASSUME TypeOK
  PROVE  /\ thread \in Threads /\ (thread.at # "rest" => thread.d \in Asked)
         /\ thread.at = "rest" => thread.d \notin Asked
         /\ thread.kind \in Kinds /\ thread.under \in Int /\ thread.list \subseteq Asked
         /\ current \in Nat /\ asks \in Nat /\ faults \in Nat /\ requested \subseteq Asked
         /\ AskN \in {0, 1}
         /\ \A v \in Versions : v \in Int
         /\ \A d \in Asked, v \in Versions : paid[<<d, v>>] \in Nat /\ UnderWay(d, v) \in {0, 1}
         /\ \A d \in Asked : body[d] \in {"none", "words", "noReply"}
         /\ \A d \in Asked : rules[d] \in Int
<1>1. RowsOK /\ CountsOK /\ ThreadOK /\ NoOne \notin Asked /\ MaxRules \in Nat
  BY TypeParts, DraftsAssumption
<1>2. \A d \in Asked, v \in Versions : paid[<<d, v>>] \in Nat
  BY <1>1 DEF CountsOK
<1>3. AskN \in {0, 1}
  BY DEF AskN
<1> QED
  BY <1>1, <1>2, <1>3, InHand DEF RowsOK, CountsOK, ThreadOK, Versions, UnderWay, NoRules, Kept

LEMMA ToComeInt ==
  ASSUME TypeOK, NEW d \in Asked
  PROVE  /\ ToCome(d) \in 0..3 /\ AtRest(d) \in 0..3 /\ WantedN(d) \in 0..1 /\ OnN(d) \in 0..1
         /\ AfterCall(d) \in 0..3
BY DEF ToCome, AtRest, OfWords, OfNoReply, WantedN, OnN, AfterCall, AfterNew, AfterStale,
       AfterRequest, AfterRecheck

LEMMA ToComeNext ==
  ASSUME NEW d
  PROVE  ToCome(d)' \in 0..3
BY DEF ToCome, AtRest, OfWords, OfNoReply, WantedN, OnN, AfterCall, AfterNew, AfterStale,
       AfterRequest, AfterRecheck

(* What a step that leaves the rules does to a draft's account: never more of  *)
(* it than there was, and one for each request or fault.                      *)
Fits(d) ==
  /\ current' = current
  /\ \A v \in Versions :
       /\ v > current => paid'[<<d, v>>] = paid[<<d, v>>]
       /\ v < current => Calls(d, v)' <= Calls(d, v)
       /\ v = current => Calls(d, v)' + ToCome(d)' + AskN'
                           <= Calls(d, v) + ToCome(d) + AskN + (asks' - asks) + (faults' - faults)

(* Nothing is under way that was not, and nothing is paid.                    *)
Idles == thread'.at # "thinks" \/ thread' = thread

LEMMA FitsByBoth ==
  ASSUME TypeOK, TypeOK', NEW d \in Asked, UNCHANGED <<current, paid>>, Idles,
         ToCome(d)' + AskN' <= ToCome(d) + AskN + (asks' - asks) + (faults' - faults)
  PROVE  Fits(d)
<1>1. \A v \in Versions : UnderWay(d, v)' <= UnderWay(d, v) /\ UnderWay(d, v)' \in Int
  BY DEF Idles, UnderWay
<1>2. /\ ToCome(d) \in Int /\ ToCome(d)' \in Int /\ asks \in Int /\ asks' \in Int
      /\ faults \in Int /\ faults' \in Int
  <2>1. ToCome(d)' \in 0..3
    BY ToComeNext
  <2>2. asks' \in Nat /\ faults' \in Nat
    BY DEF TypeOK
  <2> QED
    BY <2>1, <2>2, ToComeInt, PaidTypes
<1>3. AskN \in Int /\ AskN' \in Int
  BY DEF AskN
<1> QED
  BY <1>1, <1>2, <1>3, PaidTypes DEF Fits, Calls

LEMMA FitsByToCome ==
  ASSUME TypeOK, TypeOK', NEW d \in Asked, UNCHANGED <<current, paid, asking>>, Idles,
         ToCome(d)' <= ToCome(d) + (asks' - asks) + (faults' - faults)
  PROVE  Fits(d)
<1>1. AskN' = AskN /\ AskN \in Int
  BY DEF AskN
<1>2. /\ ToCome(d) \in Int /\ ToCome(d)' \in Int /\ asks \in Int /\ asks' \in Int
      /\ faults \in Int /\ faults' \in Int
  <2>1. ToCome(d)' \in 0..3
    BY ToComeNext
  <2>2. asks' \in Nat /\ faults' \in Nat
    BY DEF TypeOK
  <2> QED
    BY <2>1, <2>2, ToComeInt, PaidTypes
<1> QED
  BY <1>1, <1>2, FitsByBoth

(* A draft the thread has nothing to do with, before or after.                *)
LEMMA ElsewhereFits ==
  ASSUME TypeOK, NEW d \in Asked, current' = current, rules'[d] = rules[d], body'[d] = body[d],
         d \in dismissed' <=> d \in dismissed, d \in requested' => d \in requested,
         thread.d # d, thread'.d # d
  PROVE  ToCome(d)' <= ToCome(d)
BY DEF ToCome, AtRest, OfWords, OfNoReply, WantedN, OnN, Wanted, Off, Behind, Judging

(* The owner's steps, his AI's and the conversation's.                        *)
LEMMA OwnerFits ==
  ASSUME TypeOK, TypeOK', PaidInv, TheirsInv, NEW d \in Asked,
         \/ FindsNothing \/ World \/ Requests \/ UNCHANGED vars
         \/ \E e \in Asked : Discards(e) \/ LeavesADraft(e) \/ AsksAgain(e)
  PROVE  Fits(d)
<1> USE PaidTypes DEF listVars
<1>1. Idles /\ UNCHANGED <<current, paid, thread>>
  BY WorldIs DEF Idles, FindsNothing, vars, seenVars, Discards, LeavesADraft, AsksAgain, Requests
<1> DEFINE Goal == ToCome(d)' <= ToCome(d) + (asks' - asks) + (faults' - faults)
<1>2. CASE FindsNothing \/ World \/ UNCHANGED vars
  <2>1. UNCHANGED <<current, body, rules, dismissed, thread, asks, faults, requested, asking>>
    BY <1>2, WorldIs DEF FindsNothing, vars, draftVars
  <2>2. Goal
    BY <2>1, ToComeInt DEF ToCome, AtRest, OfWords, OfNoReply, WantedN, OnN, Wanted, Off, Behind, Judging,
                AfterCall, AfterNew, AfterStale, AfterRequest, AfterRecheck
  <2> QED
    BY <1>1, <2>1, <2>2, FitsByToCome
<1>3. ASSUME NEW e \in Asked, AsksAgain(e)
      PROVE  Fits(d)
  <2>1. /\ UNCHANGED <<current, body, rules, dismissed, requested, thread, faults>> /\ asks' = asks + 1
        /\ asking.d = NoOne
    BY <1>3 DEF AsksAgain, draftVars
  <2>2. AskN = 0 /\ AskN' \in {0, 1}
    BY <2>1 DEF AskN
  <2>3. ToCome(d)' = ToCome(d)
    BY <2>1 DEF ToCome, AtRest, OfWords, OfNoReply, WantedN, OnN, Wanted, Off, Behind, Judging,
                AfterCall, AfterNew, AfterStale, AfterRequest, AfterRecheck
  <2>4. ToCome(d)' + AskN' <= ToCome(d) + AskN + (asks' - asks) + (faults' - faults)
    BY <2>1, <2>2, <2>3, ToComeInt
  <2> QED
    BY <1>1, <2>4, FitsByBoth
<1>4. CASE Requests
  <2>1. /\ UNCHANGED <<current, body, rules, dismissed, thread, faults, asks>>
        /\ asking.d # NoOne /\ asking' = NoAsk
    BY <1>4 DEF Requests, draftVars
  <2>2. AskN = 1 /\ AskN' = 0
    BY <2>1 DEF AskN, NoAsk
  <2>3. ToCome(d)' <= ToCome(d) + 1
    BY <2>1, ToComeInt DEF ToCome, AtRest, OfWords, OfNoReply, WantedN, OnN, Wanted, Off, Behind, Judging,
                AfterCall, AfterNew, AfterStale, AfterRequest, AfterRecheck
  <2>4. ToCome(d)' + AskN' <= ToCome(d) + AskN + (asks' - asks) + (faults' - faults)
    BY <2>1, <2>2, <2>3, ToComeInt, ToComeNext
  <2> QED
    BY <1>1, <2>4, FitsByBoth
<1>5. ASSUME NEW e \in Asked, Discards(e)
      PROVE  Fits(d)
  <2>1. /\ UNCHANGED <<current, body, rules, requested, asking, thread, asks, faults>>
        /\ dismissed' = dismissed \union {e}
    BY <1>5 DEF Discards
  <2>2. e = d => body[d] # "none" /\ d \notin dismissed
    BY <1>5 DEF Discards, Waiting
  <2>3. Goal
    BY <2>1, <2>2, ToComeInt DEF ToCome, AtRest, OfWords, OfNoReply, WantedN, OnN, Wanted, Off, Behind, Judging,
                AfterCall, AfterNew, AfterStale, AfterRequest, AfterRecheck
  <2> QED
    BY <1>1, <2>1, <2>3, FitsByToCome
<1>6. ASSUME NEW e \in Asked, LeavesADraft(e)
      PROVE  Fits(d)
  <2>1. /\ UNCHANGED <<current, dismissed, requested, asking, thread, asks, faults>> /\ body[e] = "none"
        /\ e # d => body'[d] = body[d] /\ rules'[d] = rules[d]
        /\ e = d => body'[d] = "words" /\ rules'[d] = Kept
    BY <1>6 DEF LeavesADraft, Write, TypeOK
  <2>2. CASE e # d
    <3>1. Goal
      BY <2>1, <2>2, ToComeInt DEF ToCome, AtRest, OfWords, OfNoReply, WantedN, OnN, Wanted, Off, Behind, Judging,
                AfterCall, AfterNew, AfterStale, AfterRequest, AfterRecheck
    <3> QED
      BY <1>1, <2>1, <3>1, FitsByToCome
  <2>3. CASE e = d
    <3>1. d \notin requested /\ ~Wanted(d)' /\ ~Behind(d)'
      BY <2>1, <2>3 DEF PaidInv, PaidAux, Wanted, Behind
    <3>2. Judging /\ thread.d = d => thread.kind = "new"
      BY <2>1, <2>3, <3>1 DEF PaidInv, PaidAux, TheirsInv, JudgedOK, Kinds
    <3>3. Goal
      BY <2>1, <2>3, <3>1, <3>2 DEF ToCome, AtRest, OfWords, WantedN, OnN, Judging, AfterCall, AfterNew
    <3> QED
      BY <1>1, <2>1, <3>3, FitsByToCome
  <2> QED
    BY <2>2, <2>3
<1> QED
  BY <1>2, <1>3, <1>4, <1>5, <1>6

(* A call is begun for what was to come.                                      *)
LEMMA ThinksFits ==
  ASSUME TypeOK, TypeOK', PaidInv, NEW d \in Asked,
         NEW e \in Asked, NEW kind \in Kinds, Thinks(e, kind)
  PROVE  Fits(d)
<1> USE PaidTypes
<1>1. /\ UNCHANGED <<current, paid, body, rules, dismissed, requested, asking, asks, faults>>
      /\ thread.at = "rest" /\ WorthACall(e, kind)
  BY DEF Thinks, Due, draftVars, listVars, seenVars
<1>1a. AskN' = AskN
  BY <1>1 DEF AskN
<1>2. thread'.at = "thinks" /\ thread'.d = e /\ thread'.kind = kind /\ thread'.under = current
  BY DEF Thinks, Threads
<1>3. \A v \in Versions : UnderWay(d, v) = 0
  BY <1>1 DEF UnderWay
<1>4. CASE e # d
  <2>1. ToCome(d)' <= ToCome(d)
    BY <1>1, <1>2, <1>4, ElsewhereFits
  <2>2. \A v \in Versions : UnderWay(d, v)' = 0
    BY <1>2, <1>4 DEF UnderWay
  <2>3. ToCome(d)' \in 0..3
    BY ToComeNext
  <2> QED
    BY <1>1, <1>1a, <1>3, <2>1, <2>2, <2>3, ToComeInt DEF Fits, Calls
<1>5. CASE e = d
  <2>1. \A v \in Versions : UnderWay(d, v)' = IF v = current THEN 1 ELSE 0
    BY <1>1, <1>2, <1>5 DEF UnderWay
  <2>2. ToCome(d) = AtRest(d) /\ ToCome(d)' = AfterCall(d)'
    BY <1>1, <1>2, <1>5 DEF ToCome, Judging
  <2>3. AfterCall(d)' + 1 <= AtRest(d)
    <3>1. UNCHANGED <<WantedN(d), OnN(d), Behind(d)>> /\ (Off(d) <=> d \in dismissed) /\ (Off(d)' <=> Off(d))
          /\ (Wanted(d) <=> d \in requested) /\ body'[d] = body[d]
      BY <1>1, <1>2 DEF WantedN, OnN, Wanted, Off, Behind
    <3>2. CASE kind = "new"
      BY <1>1, <1>2, <1>5, <3>1, <3>2 DEF WorthACall, NeedsADraft, AfterCall, AfterNew, AtRest
    <3>3. CASE kind = "stale"
      BY <1>1, <1>2, <1>5, <3>1, <3>3
         DEF WorthACall, StaleWaiting, Waiting, AfterCall, AfterStale, AtRest, OfWords, OfNoReply, Behind,
             WantedN, OnN
    <3>4. CASE kind = "request"
      BY <1>1, <1>2, <1>5, <3>1, <3>4
         DEF WorthACall, Requested, Waiting, AfterCall, AfterRequest, AtRest, OfWords, OfNoReply, WantedN, OnN
    <3>5. CASE kind = "recheck"
      BY <1>1, <1>2, <1>5, <3>1, <3>5, ToComeInt
         DEF WorthACall, StaleNoReply, AfterCall, AfterRecheck, AtRest, OfNoReply, Behind, PaidInv, PaidAux
    <3> QED
      BY <3>2, <3>3, <3>4, <3>5 DEF Kinds
  <2>4. AfterCall(d)' \in 0..3
    BY DEF AtRest, OfWords, OfNoReply, WantedN, OnN, AfterCall, AfterNew, AfterStale, AfterRequest, AfterRecheck
  <2> QED
    BY <1>1, <1>1a, <1>3, <2>1, <2>2, <2>3, <2>4, ToComeInt DEF Fits, Calls
<1> QED
  BY <1>4, <1>5

(* One more answer is paid for the draft in hand, and no call is under way.    *)
LEMMA OnePaid ==
  ASSUME TypeOK, PaidInv, NEW d \in Asked, thread.at = "thinks", thread'.at # "thinks",
         paid' = [paid EXCEPT ![<<thread.d, thread.under>>] = @ + 1], NEW v \in Versions
  PROVE  /\ paid'[<<d, v>>] + UnderWay(d, v)' = paid[<<d, v>>] + UnderWay(d, v)
         /\ v > current => paid'[<<d, v>>] = paid[<<d, v>>]
<1> USE PaidTypes
<1> DEFINE x == <<thread.d, thread.under>>
           y == <<d, v>>
<1>1. x = y <=> thread.d = d /\ thread.under = v
  OBVIOUS
<1>2. y \in Asked \X Versions /\ paid \in [Asked \X Versions -> Nat]
  BY DEF TypeOK
<1>3. paid'[y] = IF x = y THEN paid[y] + 1 ELSE paid[y]
  <2> HIDE DEF x, y
  <2>1. paid' = [paid EXCEPT ![x] = @ + 1]
    BY DEF x
  <2> QED
    BY <1>2, <2>1
<1>4. UnderWay(d, v)' = 0 /\ UnderWay(d, v) = IF x = y THEN 1 ELSE 0
  BY <1>1 DEF UnderWay
<1>5. thread.under <= current
  BY DEF PaidInv, PaidAux, Judging
<1> HIDE DEF x
<1> QED
  BY <1>1, <1>3, <1>4, <1>5

(* It is paid for when the model answers.                                     *)
LEMMA AnswersFits ==
  ASSUME TypeOK, TypeOK', PaidInv, NEW d \in Asked, ModelAnswers
  PROVE  Fits(d)
<1> USE PaidTypes
<1>1. /\ UNCHANGED <<current, body, rules, dismissed, requested, asking, asks, faults>>
      /\ thread.at = "thinks" /\ thread.d \in Asked
      /\ paid' = [paid EXCEPT ![<<thread.d, thread.under>>] = @ + 1]
  BY DEF ModelAnswers, draftVars, listVars
<1>2. /\ thread'.at \in {"words", "noReply"} /\ thread'.d = thread.d /\ thread'.kind = thread.kind
      /\ thread'.under = thread.under
  BY MovesOK DEF ModelAnswers, Does, Phases
<1>3. ToCome(d)' = ToCome(d)
  BY <1>1, <1>2 DEF ToCome, AtRest, OfWords, OfNoReply, WantedN, OnN, Wanted, Off, Behind, Judging,
                AfterCall, AfterNew, AfterStale, AfterRequest, AfterRecheck
<1>4. \A v \in Versions :
        /\ paid'[<<d, v>>] + UnderWay(d, v)' = paid[<<d, v>>] + UnderWay(d, v)
        /\ v > current => paid'[<<d, v>>] = paid[<<d, v>>]
  BY <1>1, <1>2, OnePaid
<1>5. AskN' = AskN
  BY <1>1 DEF AskN
<1> QED
  BY <1>1, <1>3, <1>4, <1>5, ToComeInt DEF Fits, Calls

(* What fails, or dies, may be done again: one fault.                         *)
LEMMA FailsFits ==
  ASSUME TypeOK, TypeOK', PaidInv, TheirsInv, NEW d \in Asked,
         ThinkFails \/ AnswersNothing \/ Dies \/ AppendFails
  PROVE  Fits(d)
<1> USE PaidTypes
<1>1. /\ UNCHANGED <<current, body, rules, dismissed, requested, asking, asks>> /\ faults' = faults + 1
      /\ thread' = Rest /\ thread.at # "rest"
  BY DEF ThinkFails, AnswersNothing, NothingCame, Dies, AppendFails, Faulty, draftVars, listVars
<1>2. thread'.at = "rest" /\ thread'.d = NoOne /\ NoOne # d
  BY <1>1, RestOK, DraftsAssumption
<1>3. ToCome(d)' <= ToCome(d) + 1
  <2>1. CASE thread.d # d
    <3>1. ToCome(d)' <= ToCome(d)
      BY <1>1, <1>2, <2>1, ElsewhereFits
    <3> QED
      BY <3>1, ToComeInt, ToComeNext
  <2>2. CASE thread.d = d /\ Judging
    <3>1. AtRest(d)' <= AfterCall(d) + 1
      BY <1>1, <1>2, <2>2
         DEF PaidInv, PaidAux, TheirsInv, JudgedOK, AtRest, OfWords, OfNoReply, WantedN, OnN, Wanted, Off, Behind,
             AfterCall, AfterNew, AfterStale, AfterRequest, AfterRecheck, Judging, Kinds
    <3> QED
      BY <1>2, <2>2, <3>1 DEF ToCome, Judging
  <2>3. CASE thread.d = d /\ ~Judging
    <3>1. AtRest(d)' <= AtRest(d) + 1
      BY <1>1, <1>2, <2>3
         DEF PaidInv, PaidAux, AtRest, OfWords, OfNoReply, WantedN, OnN, Wanted, Off, Behind, Judging
    <3> QED
      BY <1>2, <2>3, <3>1 DEF ToCome, Judging
  <2> QED
    BY <2>1, <2>2, <2>3
<1>4. Idles
  BY <1>2 DEF Idles
<1>5. ToCome(d)' <= ToCome(d) + (asks' - asks) + (faults' - faults)
  BY <1>1, <1>3, ToComeInt
<1>6. CASE UNCHANGED paid
  BY <1>1, <1>4, <1>5, <1>6, FitsByToCome
<1>7. CASE AnswersNothing
  <2>1. thread.at = "thinks" /\ paid' = [paid EXCEPT ![<<thread.d, thread.under>>] = @ + 1]
    BY <1>7 DEF AnswersNothing, NothingCame
  <2>2. \A v \in Versions :
          /\ paid'[<<d, v>>] + UnderWay(d, v)' = paid[<<d, v>>] + UnderWay(d, v)
          /\ v > current => paid'[<<d, v>>] = paid[<<d, v>>]
    BY <1>2, <2>1, OnePaid
  <2>3. AskN' = AskN
    BY <1>1 DEF AskN
  <2> QED
    BY <1>1, <1>3, <2>2, <2>3, ToComeInt, ToComeNext DEF Fits, Calls
<1> QED
  BY <1>6, <1>7 DEF ThinkFails, Dies, AppendFails, seenVars

(* A message of which every call fails is never paid for, and the account of   *)
(* no other changes when it fails.                                            *)
LEMMA RefusesFits ==
  ASSUME TypeOK, TypeOK', PaidInv, NEW d \in Asked \ Stubborn, ModelRefuses
  PROVE  Fits(d)
<1> USE PaidTypes
<1>1. /\ UNCHANGED <<current, paid, body, rules, dismissed, requested, asking, asks, faults>>
      /\ thread' = Rest /\ thread.d # d
  BY DEF ModelRefuses, NothingCame, draftVars, listVars
<1>2. thread'.at = "rest" /\ thread'.d # d
  BY <1>1, RestOK, DraftsAssumption
<1>3. ToCome(d)' <= ToCome(d)
  BY <1>1, <1>2, ElsewhereFits
<1>4. ToCome(d)' <= ToCome(d) + (asks' - asks) + (faults' - faults)
  BY <1>1, <1>3, ToComeInt, ToComeNext
<1> QED
  BY <1>1, <1>2, <1>4, FitsByToCome DEF Idles

(* The mailbox rail, the second half of a decision, and the list written back. *)
LEMMA SmallFits ==
  ASSUME TypeOK, TypeOK', PaidInv, NEW d \in Asked,
         (\E e \in Asked : Stamps(e) \/ ForgetsRequests(e)) \/ Appends \/ Dismisses \/ DoneRewriting
  PROVE  Fits(d)
<1> USE PaidTypes
<1>1. /\ UNCHANGED <<current, paid, body, rules, asking, asks, faults>>
  BY DEF Stamps, ForgetsRequests, Appends, Dismisses, DoneRewriting, draftVars, listVars, seenVars
<1> DEFINE Goal == ToCome(d)' <= ToCome(d)
<1>2. ASSUME NEW e \in Asked, Stamps(e)
      PROVE  Goal /\ Idles
  <2>1. thread.at = "rest" /\ thread'.at = "appends" /\ UNCHANGED <<dismissed, requested>>
    BY <1>2 DEF Stamps, Threads, draftVars, listVars
  <2> QED
    BY <1>1, <2>1, ToComeInt DEF ToCome, AtRest, OfWords, OfNoReply, WantedN, OnN, Wanted, Off, Behind, Judging, Idles
<1>3. ASSUME Appends
      PROVE  Goal /\ Idles
  <2>1. thread.at = "appends" /\ thread'.at = "rest" /\ UNCHANGED <<dismissed, requested>>
    BY <1>3, RestOK DEF Appends, draftVars, listVars
  <2> QED
    BY <1>1, <2>1, ToComeInt DEF ToCome, AtRest, OfWords, OfNoReply, WantedN, OnN, Wanted, Off, Behind, Judging, Idles
<1>4. ASSUME Dismisses
      PROVE  Goal /\ Idles
  <2>1. /\ thread.at = "undismissed" /\ thread'.at = "rest" /\ UNCHANGED requested
        /\ dismissed' = dismissed \union {thread.d}
    BY <1>4, RestOK DEF Dismisses, listVars
  <2> QED
    BY <1>1, <2>1, ToComeInt DEF ToCome, AtRest, OfWords, OfNoReply, WantedN, OnN, Wanted, Off, Behind, Judging, Idles
<1>5. ASSUME DoneRewriting
      PROVE  Goal /\ Idles
  <2>1. /\ thread.at = "listed" /\ thread'.at = "rest" /\ UNCHANGED dismissed
        /\ requested' \subseteq requested \ {thread.d}
    BY <1>5, RestOK DEF DoneRewriting, PaidInv, PaidAux, draftVars
  <2> QED
    BY <1>1, <2>1, ToComeInt DEF ToCome, AtRest, OfWords, OfNoReply, WantedN, OnN, Wanted, Off, Behind, Judging, Idles
<1>5a. ASSUME NEW e \in Asked, ForgetsRequests(e)
      PROVE  Goal /\ Idles
  <2>1. thread.at = "rest" /\ thread'.at = "listed" /\ thread'.d = e /\ UNCHANGED <<dismissed, requested>>
    BY <1>5a DEF ForgetsRequests, Threads, draftVars, listVars
  <2> QED
    BY <1>1, <2>1, ToComeInt DEF ToCome, AtRest, OfWords, OfNoReply, WantedN, OnN, Wanted, Off, Behind, Judging, Idles
<1>6. Goal /\ Idles
  BY <1>2, <1>3, <1>4, <1>5, <1>5a
<1>7. Goal => ToCome(d)' <= ToCome(d) + (asks' - asks) + (faults' - faults)
  BY <1>1, ToComeInt, ToComeNext
<1> QED
  BY <1>1, <1>6, <1>7, FitsByToCome

(* The lists that are read for a request that was judged.                     *)
LEMMA AfterAnswerIs ==
  ASSUME TypeOK, NEW judged \in BOOLEAN, AfterAnswer(judged)
  PROVE  \/ /\ thread.kind = "request" /\ judged
            /\ thread'.at = "listed" /\ thread'.d = thread.d /\ thread'.list = requested
         \/ ~(thread.kind = "request" /\ judged) /\ thread' = Rest
BY PaidTypes DEF AfterAnswer, Threads

(* Words are written, or not any more.                                        *)
LEMMA WordsFit ==
  ASSUME TypeOK, TypeOK', PaidInv, TheirsInv, NEW d \in Asked, WritesWords
  PROVE  Fits(d)
<1> USE PaidTypes
<1> DEFINE t == thread.d
<1>1. /\ UNCHANGED <<current, paid, requested, asking, asks, faults>> /\ thread.at = "words" /\ t \in Asked
      /\ \A e \in Asked : e # t => body'[e] = body[e] /\ rules'[e] = rules[e] /\ (e \in dismissed' <=> e \in dismissed)
  <2>1. UNCHANGED <<current, paid, requested, asking, asks, faults>> /\ thread.at = "words"
    BY DEF WritesWords, seenVars, listVars
  <2>2. \A e \in Asked : e # t => body'[e] = body[e] /\ rules'[e] = rules[e] /\ (e \in dismissed' <=> e \in dismissed)
    BY DEF WritesWords, Puts, Rewrites, Revives, Write, TypeOK, draftVars
  <2> QED
    BY <2>1, <2>2
<1>2. \/ /\ thread.kind = "request" /\ t \notin dismissed
         /\ thread'.at = "listed" /\ thread'.d = t
      \/ /\ ~(thread.kind = "request" /\ t \notin dismissed)
         /\ thread'.at = "rest" /\ thread'.d = NoOne
  <2>1. AfterAnswer(t \notin dismissed)
    BY DEF WritesWords
  <2> QED
    BY <2>1, AfterAnswerIs, RestOK
<1>3. Idles
  BY <1>2 DEF Idles
<1>4. ToCome(d)' <= ToCome(d)
  <2>1. CASE t # d
    BY <1>1, <1>2, <2>1, ElsewhereFits, DraftsAssumption
  <2>2. CASE t = d
    <3>1. ToCome(d) = AfterCall(d) /\ ToCome(d)' = AtRest(d)' /\ (Off(d) <=> d \in dismissed)
          /\ (Off(d)' <=> d \in dismissed') /\ (Wanted(d) <=> d \in requested)
          /\ (Wanted(d)' <=> d \in requested /\ thread'.at # "listed")
      BY <1>1, <1>2, <2>2 DEF ToCome, Judging, Off, Wanted
    <3>2. CASE thread.kind = "new"
      <4>1. CASE body[d] = "none"
        <5>1. body'[d] = "words" /\ rules'[d] = current /\ d \notin requested
          BY <1>1, <2>2, <3>2, <4>1 DEF WritesWords, Puts, Write, TypeOK, PaidInv, PaidAux
        <5> QED
          BY <1>1, <3>1, <3>2, <4>1, <5>1, ToComeInt DEF AtRest, OfWords, WantedN, Behind
      <4>2. CASE body[d] # "none"
        <5>1. body'[d] = body[d] /\ rules'[d] = rules[d] /\ dismissed' = dismissed /\ thread'.at # "listed"
          BY <1>1, <1>2, <2>2, <3>2, <4>2 DEF WritesWords, Puts
        <5> QED
          BY <1>1, <3>1, <3>2, <4>2, <5>1
             DEF AtRest, OfWords, OfNoReply, WantedN, OnN, Behind, AfterCall, AfterNew
      <4> QED
        BY <4>1, <4>2
    <3>3. CASE thread.kind \in {"stale", "request"} /\ d \notin dismissed
      <4>1. body'[d] = "words" /\ rules'[d] = current /\ dismissed' = dismissed
        BY <1>1, <2>2, <3>3 DEF WritesWords, Rewrites, Write, TypeOK
      <4> QED
        BY <1>1, <1>2, <2>2, <3>1, <3>3, <4>1, ToComeInt
           DEF AtRest, OfWords, WantedN, Behind, AfterCall, AfterStale
    <3>4. CASE thread.kind \in {"stale", "request"} /\ d \in dismissed
      <4>1. body'[d] = body[d] /\ rules'[d] = rules[d] /\ dismissed' = dismissed /\ thread'.at # "listed"
        BY <1>1, <1>2, <2>2, <3>4 DEF WritesWords, Rewrites
      <4>2. body[d] # "none"
        BY <1>1, <2>2, <3>4 DEF TheirsInv, JudgedOK, Judging, PaidInv, PaidAux
      <4> QED
        BY <1>1, <3>1, <3>4, <4>1, <4>2
           DEF AtRest, OfWords, OfNoReply, WantedN, OnN, Behind, AfterCall, AfterStale, AfterRequest,
               PaidInv, PaidAux, Judging
    <3>5. CASE thread.kind = "recheck"
      <4>1. body'[d] = "words" /\ rules'[d] = thread.under /\ d \notin dismissed'
        <5>1. body[d] = "noReply"
          BY <1>1, <2>2, <3>5 DEF TheirsInv, JudgedOK, Judging
        <5> QED
          BY <1>1, <2>2, <3>5, <5>1 DEF WritesWords, Revives, Write, TypeOK
      <4> QED
        BY <1>1, <1>2, <3>1, <3>5, <4>1
           DEF AtRest, OfWords, WantedN, OnN, Behind, AfterCall, AfterRecheck
    <3> QED
      BY <3>2, <3>3, <3>4, <3>5 DEF Kinds
  <2> QED
    BY <2>1, <2>2
<1>5. ToCome(d)' <= ToCome(d) + (asks' - asks) + (faults' - faults)
  <2>1. ToCome(d)' \in 0..3
    BY ToComeNext
  <2> QED
    BY <1>1, <1>4, <2>1, ToComeInt
<1> QED
  BY <1>1, <1>3, <1>5, FitsByToCome

(* "No reply" is written, or the rules it was found under.                    *)
LEMMA NoReplyFits ==
  ASSUME TypeOK, TypeOK', PaidInv, TheirsInv, NEW d \in Asked, WritesNoReply
  PROVE  Fits(d)
<1> USE PaidTypes
<1> DEFINE t == thread.d
<1>1. /\ UNCHANGED <<current, paid, requested, asking, asks, faults>> /\ thread.at = "noReply" /\ t \in Asked
      /\ \A e \in Asked : e # t => body'[e] = body[e] /\ rules'[e] = rules[e] /\ (e \in dismissed' <=> e \in dismissed)
  <2>1. UNCHANGED <<current, paid, requested, asking, asks, faults>> /\ thread.at = "noReply"
    BY DEF WritesNoReply, seenVars, listVars
  <2>2. \A e \in Asked : e # t => body'[e] = body[e] /\ rules'[e] = rules[e] /\ (e \in dismissed' <=> e \in dismissed)
    <3>1. CASE Puts("noReply") /\ UNCHANGED dismissed
      BY <3>1 DEF Puts, Write, TypeOK
    <3>2. ASSUME NEW mark, Mark(t, mark), dismissed' = dismissed \/ dismissed' = dismissed \union {t}
          PROVE  \A e \in Asked : e # t => body'[e] = body[e] /\ rules'[e] = rules[e]
                                          /\ (e \in dismissed' <=> e \in dismissed)
      BY <3>2 DEF Mark, TypeOK
    <3> QED
      BY <3>1, <3>2 DEF WritesNoReply
  <2> QED
    BY <2>1, <2>2
<1>2. /\ thread'.at \in {"rest", "listed", "undismissed"}
      /\ thread'.at = "rest" => thread'.d = NoOne
      /\ thread'.at # "rest" => thread'.d = t
      /\ thread.kind = "new" => thread'.at # "listed" /\ (thread'.at = "undismissed" <=> body[t] = "none")
      /\ thread.kind = "request" => thread'.at = "listed"
      /\ thread.kind \in {"stale", "recheck"} => thread'.at = "rest"
  <2>1. CASE thread.kind = "new"
    <3>1. CASE body[t] = "none"
      <4>1. thread'.at = "undismissed" /\ thread'.d = t
        <5>1. Does("undismissed")
          BY <2>1, <3>1 DEF WritesNoReply
        <5> QED
          BY <5>1, MovesOK DEF Does, Phases
      <4> QED
        BY <2>1, <3>1, <4>1
    <3>2. CASE body[t] # "none"
      <4>1. thread'.at = "rest" /\ thread'.d = NoOne
        BY <2>1, <3>2, RestOK DEF WritesNoReply
      <4> QED
        BY <2>1, <3>2, <4>1
    <3> QED
      BY <3>1, <3>2
  <2>2. CASE thread.kind # "new"
    <3>1. AfterAnswer(TRUE)
      BY <2>2 DEF WritesNoReply
    <3> QED
      BY <2>2, <3>1, AfterAnswerIs, RestOK DEF Kinds
  <2> QED
    BY <2>1, <2>2
<1>3. Idles
  BY <1>2 DEF Idles
<1>4. ToCome(d)' <= ToCome(d)
  <2>1. CASE t # d
    BY <1>1, <1>2, <2>1, ElsewhereFits, DraftsAssumption
  <2>2. CASE t = d
    <3>1. ToCome(d) = AfterCall(d) /\ ToCome(d)' = AtRest(d)' /\ (Off(d) <=> d \in dismissed)
          /\ (Off(d)' <=> d \in dismissed' \/ thread'.at = "undismissed") /\ (Wanted(d) <=> d \in requested)
          /\ (Wanted(d)' <=> d \in requested /\ thread'.at # "listed")
      BY <1>1, <1>2, <2>2, DraftsAssumption DEF ToCome, Judging, Off, Wanted
    <3>2. CASE thread.kind = "new" /\ body[d] = "none"
      <4>1. body'[d] = "noReply" /\ rules'[d] = current /\ thread'.at = "undismissed"
        BY <1>1, <1>2, <2>2, <3>2 DEF WritesNoReply, Puts, Write, TypeOK
      <4> QED
        BY <1>1, <3>1, <4>1, ToComeInt DEF AtRest, OfNoReply, Behind
    <3>3. CASE thread.kind = "new" /\ body[d] # "none"
      <4>1. body'[d] = body[d] /\ rules'[d] = rules[d] /\ dismissed' = dismissed /\ thread'.at = "rest"
        BY <1>1, <1>2, <2>2, <3>3 DEF WritesNoReply, Puts
      <4> QED
        BY <1>1, <3>1, <3>3, <4>1
           DEF AtRest, OfWords, OfNoReply, WantedN, OnN, Behind, AfterCall, AfterNew
    <3>4. CASE thread.kind \in {"stale", "request"}
      <4>1. body'[d] = body[d] /\ rules'[d] = current /\ d \in dismissed'
        BY <1>1, <2>2, <3>4 DEF WritesNoReply, Mark, TypeOK
      <4>2. body[d] # "none"
        BY <1>1, <2>2, <3>4 DEF TheirsInv, JudgedOK, Judging, PaidInv, PaidAux
      <4> QED
        BY <1>1, <3>1, <4>1, <4>2, ToComeInt DEF AtRest, OfWords, OfNoReply, Behind
    <3>5. CASE thread.kind = "recheck"
      <4>1. body'[d] = "noReply" /\ rules'[d] = thread.under /\ dismissed' = dismissed
        BY <1>1, <2>2, <3>5 DEF WritesNoReply, Mark, TypeOK, TheirsInv, JudgedOK, Judging
      <4> QED
        BY <1>1, <1>2, <3>1, <3>5, <4>1
           DEF AtRest, OfNoReply, WantedN, OnN, Behind, AfterCall, AfterRecheck
    <3> QED
      BY <3>2, <3>3, <3>4, <3>5 DEF Kinds
  <2> QED
    BY <2>1, <2>2
<1>5. ToCome(d)' <= ToCome(d) + (asks' - asks) + (faults' - faults)
  <2>1. ToCome(d)' \in 0..3
    BY ToComeNext
  <2> QED
    BY <1>1, <1>4, <2>1, ToComeInt
<1> QED
  BY <1>1, <1>3, <1>5, FitsByToCome

(* The rules change: nothing has been paid under the new ones, and each draft  *)
(* may have to be judged under them, a request and a fault apart once.         *)
LEMMA RulesFit ==
  ASSUME TypeOK, TypeOK', PaidInv, TheirsInv, RulesChange, NEW d \in Asked \ Stubborn, NEW v \in Versions
  PROVE  /\ v > current' => paid'[<<d, v>>] = 0
         /\ v < current' => Calls(d, v)' <= 1 + asks' + faults'
         /\ v = current' => Calls(d, v)' + ToCome(d)' + AskN' <= 1 + asks' + faults'
<1> USE PaidTypes
<1>1. /\ UNCHANGED <<body, rules, dismissed, requested, asking, thread, paid, asks, faults>>
      /\ current' = current + 1
  BY DEF RulesChange, draftVars, listVars, seenVars
<1>1a. AskN' = AskN /\ AskN <= asks
  BY <1>1 DEF AskN, PaidInv, PaidAux
<1>2. UnderWay(d, v)' = UnderWay(d, v) /\ (Wanted(d)' <=> Wanted(d)) /\ (Off(d)' <=> Off(d))
  BY <1>1 DEF UnderWay, Wanted, Off
<1>3. CASE v < current'
  <2>1. v < current \/ v = current
    BY <1>1, <1>3
  <2> QED
    BY <1>1, <1>2, <1>3, <2>1, ToComeInt DEF PaidInv, Calls
<1>4. CASE v = current'
  <2>1. v > current /\ paid[<<d, v>>] = 0
    BY <1>1, <1>4 DEF PaidInv
  <2>2. UnderWay(d, v) = 0
    BY <2>1 DEF UnderWay, PaidInv, PaidAux, Judging
  <2>3. Wanted(d) => asks >= 1 + AskN /\ body[d] # "none"
    BY DEF Wanted, PaidInv, PaidAux
  <2>4. body[d] = "noReply" => Off(d) \/ faults >= 1
    BY DEF PaidInv, PaidAux
  <2>5. Judging /\ thread.d = d /\ thread.kind = "request" => asks >= 1 + AskN
    BY DEF PaidInv, PaidAux
  <2>6. Judging /\ thread.d = d /\ thread.kind = "recheck" => body[d] = "noReply"
    BY DEF TheirsInv, JudgedOK
  <2>7. AtRest(d)' + AskN <= 1 + asks + faults
    BY <1>1, <1>1a, <1>2, <2>3, <2>4 DEF AtRest, OfWords, OfNoReply, WantedN, OnN
  <2>8. Judging /\ thread.d = d => AfterCall(d)' + AskN <= 1 + asks + faults
    <3> SUFFICES ASSUME Judging, thread.d = d
                 PROVE  AfterCall(d)' + AskN <= 1 + asks + faults
      OBVIOUS
    <3>1. CASE thread.kind = "new"
      BY <1>1, <1>1a, <2>7, <3>1 DEF AfterCall, AfterNew
    <3>2. CASE thread.kind = "stale"
      BY <1>1, <1>1a, <1>2, <2>3, <3>2 DEF AfterCall, AfterStale, WantedN
    <3>3. CASE thread.kind = "request"
      BY <1>1, <1>1a, <1>2, <2>5, <3>3 DEF AfterCall, AfterRequest, OnN
    <3>4. CASE thread.kind = "recheck"
      BY <1>1, <1>1a, <1>2, <2>3, <2>4, <2>6, <3>4 DEF AfterCall, AfterRecheck, WantedN, OnN
    <3> QED
      BY <3>1, <3>2, <3>3, <3>4 DEF Kinds
  <2>9. ToCome(d)' + AskN <= 1 + asks + faults
    BY <1>1, <2>7, <2>8 DEF ToCome, Judging
  <2> QED
    BY <1>1, <1>1a, <1>2, <1>4, <2>1, <2>2, <2>9, ToComeNext DEF Calls
<1>5. CASE v > current'
  BY <1>1, <1>5 DEF PaidInv
<1> QED
  BY <1>1, <1>3, <1>4, <1>5

(* The rest of the invariant: who is at work works under rules there have      *)
(* been, what stands on the list was asked for, and only a death leaves a "no  *)
(* reply" undismissed.                                                        *)
LEMMA PaidAuxInductive ==
  ASSUME TypeOK, TypeOK', PaidAux, TheirsInv, [Next]_vars
  PROVE  PaidAux'
<1>a. asking.list \subseteq Asked /\ (asking.d # NoOne => asking.d \in Asked)
  BY TypeParts DEF AskingOK
<1> USE <1>a, PaidTypes DEF PaidAux, Judging, listVars, AskN
<1>1. ASSUME NEW e \in Asked, NEW kind \in Kinds, Thinks(e, kind)
      PROVE  PaidAux'
  <2>1. /\ thread.at = "rest" /\ WorthACall(e, kind)
        /\ UNCHANGED <<current, body, rules, dismissed, requested, asking, asks, faults>>
    BY <1>1 DEF Thinks, Due, draftVars
  <2>2. thread'.at = "thinks" /\ thread'.d = e /\ thread'.kind = kind /\ thread'.under = current
    BY <1>1 DEF Thinks, Threads
  <2> QED
    BY <2>1, <2>2 DEF Off, WorthACall, Requested
<1>2. ASSUME NEW e \in Asked, Stamps(e)
      PROVE  PaidAux'
  <2>1. /\ thread.at = "rest" /\ thread'.at = "appends"
        /\ UNCHANGED <<current, body, rules, dismissed, requested, asking, asks, faults>>
    BY <1>2 DEF Stamps, Threads, draftVars
  <2> QED
    BY <2>1 DEF Off
<1>3. CASE ModelAnswers
  <2>1. /\ thread.at = "thinks"
        /\ UNCHANGED <<current, body, rules, dismissed, requested, asking, asks, faults>>
    BY <1>3 DEF ModelAnswers, draftVars
  <2>2. /\ thread'.at \in {"words", "noReply"} /\ thread'.d = thread.d /\ thread'.kind = thread.kind
        /\ thread'.under = thread.under
    BY <1>3, MovesOK DEF ModelAnswers, Does, Phases
  <2> QED
    BY <2>1, <2>2 DEF Off
<1>4. CASE NoCall \/ Dies \/ AppendFails
  <2>1. /\ UNCHANGED <<current, body, rules, dismissed, requested, asking, asks>>
        /\ faults' = faults + 1 \/ (faults' = faults /\ thread.at = "thinks")
        /\ thread'.at = "rest"
    BY <1>4, RestOK, NoCallIs DEF NoCall, ThinkFails, ModelRefuses, AnswersNothing, Dies, AppendFails, Faulty, draftVars
  <2> QED
    BY <2>1 DEF Off
<1>5. CASE Appends
  <2>1. /\ UNCHANGED <<current, body, rules, dismissed, requested, asking, asks, faults>>
        /\ thread.at = "appends" /\ thread'.at = "rest"
    BY <1>5, RestOK DEF Appends, draftVars
  <2> QED
    BY <2>1 DEF Off
<1>6. CASE Dismisses
  <2>1. /\ UNCHANGED <<current, body, rules, requested, asking, asks, faults>>
        /\ thread'.at = "rest" /\ dismissed' = dismissed \union {thread.d}
    BY <1>6, RestOK DEF Dismisses
  <2> QED
    BY <2>1 DEF Off
<1>7. CASE DoneRewriting
  <2>1. /\ UNCHANGED <<current, body, rules, dismissed, asking, asks, faults>>
        /\ thread.at = "listed" /\ thread'.at = "rest" /\ requested' \subseteq thread.list
    BY <1>7, RestOK DEF DoneRewriting, draftVars
  <2> QED
    BY <2>1 DEF Off
<1>8. CASE WritesWords
  <2>1. UNCHANGED <<current, requested, asking, asks, faults>> /\ thread.at = "words"
    BY <1>8 DEF WritesWords
  <2>2. thread'.at = "rest" \/ (thread'.at = "listed" /\ thread'.list = requested)
    <3>1. AfterAnswer(thread.d \notin dismissed)
      BY <1>8 DEF WritesWords
    <3> QED
      BY <3>1, AfterAnswerIs, RestOK
  <2>3. \A d \in Asked :
          \/ body'[d] = "words"
          \/ body'[d] = body[d] /\ rules'[d] = rules[d] /\ (d \in dismissed' <=> d \in dismissed)
    BY <1>8 DEF WritesWords, Puts, Rewrites, Revives, Write, TypeOK, draftVars
  <2> QED
    BY <2>1, <2>2, <2>3 DEF Off
<1>9. CASE WritesNoReply
  <2>1. UNCHANGED <<current, requested, asking, asks, faults>> /\ thread.at = "noReply"
    BY <1>9 DEF WritesNoReply
  <2>2. current # Kept /\ thread.under # Kept
    BY InHand DEF TypeOK, Versions, Kept
  <2>3. CASE thread.kind = "new" /\ body[thread.d] = "none"
    <3>1. Does("undismissed") /\ Puts("noReply") /\ UNCHANGED dismissed
      BY <1>9, <2>3 DEF WritesNoReply
    <3>2. thread'.at = "undismissed" /\ thread'.d = thread.d
      BY <3>1, MovesOK DEF Does, Phases
    <3>3. /\ body'[thread.d] = "noReply" /\ rules'[thread.d] = current
          /\ \A d \in Asked : d # thread.d => body'[d] = body[d] /\ rules'[d] = rules[d]
      BY <2>1, <2>3, <3>1 DEF Puts, Write, TypeOK
    <3> QED
      BY <2>1, <2>2, <2>3, <3>1, <3>2, <3>3 DEF Off
  <2>4. CASE thread.kind = "new" /\ body[thread.d] # "none"
    <3>1. thread' = Rest /\ UNCHANGED <<body, rules, dismissed>>
      BY <1>9, <2>4 DEF WritesNoReply, Puts
    <3>2. thread'.at = "rest"
      BY <3>1, RestOK
    <3> QED
      BY <2>1, <3>1, <3>2 DEF Off
  <2>5. CASE thread.kind # "new"
    <3>1. AfterAnswer(TRUE) /\ (Mark(thread.d, current) \/ Mark(thread.d, thread.under))
          /\ dismissed \subseteq dismissed'
      BY <1>9, <2>5 DEF WritesNoReply
    <3>2. thread'.at = "rest" \/ (thread'.at = "listed" /\ thread'.list = requested)
      BY <3>1, AfterAnswerIs, RestOK
    <3>3. body' = body /\ \A d \in Asked : rules'[d] # rules[d] => rules'[d] # Kept
      BY <2>2, <3>1 DEF Mark, TypeOK
    <3> QED
      BY <2>1, <3>1, <3>2, <3>3 DEF Off
  <2> QED
    BY <2>3, <2>4, <2>5
<1>10. ASSUME NEW e \in Asked, LeavesADraft(e)
      PROVE  PaidAux'
  <2>1. /\ UNCHANGED <<current, dismissed, requested, asking, thread, asks, faults>> /\ body[e] = "none"
        /\ body'[e] = "words"
        /\ \A d \in Asked : d # e => body'[d] = body[d] /\ rules'[d] = rules[d]
    BY <1>10 DEF LeavesADraft, Write, TypeOK
  <2> QED
    BY <2>1 DEF Off
<1>11. ASSUME NEW e \in Asked, Discards(e) \/ AsksAgain(e)
      PROVE  PaidAux'
  <2>1. CASE Discards(e)
    <3>1. /\ UNCHANGED <<current, body, rules, thread, faults, requested, asking, asks>>
          /\ dismissed \subseteq dismissed'
      BY <2>1 DEF Discards
    <3> QED
      BY <3>1 DEF Off
  <2>2. CASE AsksAgain(e)
    <3>1. /\ UNCHANGED <<current, body, rules, dismissed, thread, faults, requested>> /\ asks' = asks + 1
          /\ asking.d = NoOne /\ asking'.d = e /\ asking'.list = requested /\ body[e] # "none"
      BY <2>2 DEF AsksAgain, Waiting, draftVars
    <3>2. e # NoOne
      BY DraftsAssumption
    <3> QED
      BY <3>1, <3>2 DEF Off
  <2> QED
    BY <1>11, <2>1, <2>2
<1>12. CASE Requests
  <2>1. /\ UNCHANGED <<current, body, rules, dismissed, thread, faults, asks>> /\ asking.d # NoOne
        /\ requested' = asking.list \union {asking.d} /\ asking'.d = NoOne
    BY <1>12 DEF Requests, NoAsk, draftVars
  <2> QED
    BY <2>1 DEF Off
<1>13. CASE FindsNothing \/ RulesChange \/ World \/ UNCHANGED vars
  <2>1. /\ UNCHANGED <<body, rules, dismissed, thread, asks, faults, requested, asking>>
        /\ current' >= current /\ current' \in Int
    BY <1>13, WorldIs DEF FindsNothing, RulesChange, vars, draftVars
  <2> QED
    BY <2>1 DEF Off
<1>14. ASSUME NEW e \in Asked, ForgetsRequests(e)
      PROVE  PaidAux'
  <2>1. /\ thread.at = "rest" /\ thread'.at = "listed" /\ thread'.list = requested
        /\ UNCHANGED <<current, body, rules, dismissed, requested, asking, asks, faults>>
    BY <1>14 DEF ForgetsRequests, Threads, draftVars
  <2> QED
    BY <2>1 DEF Off
<1> QED
  BY <1>1, <1>2, <1>3, <1>4, <1>5, <1>6, <1>7, <1>8, <1>9, <1>10, <1>11, <1>12, <1>13, <1>14
     DEF Next, ThreadStep, OwnerStep, NoCall

LEMMA NeverPaid ==
  ASSUME TypeOK, PaidInv, [Next]_vars, NEW d \in Stubborn, NEW v \in Versions
  PROVE  paid'[<<d, v>>] = 0
<1>1. CASE UNCHANGED paid
  BY <1>1 DEF PaidInv
<1>2. CASE ModelAnswers \/ AnswersNothing
  <2> DEFINE x == <<thread.d, thread.under>>
             y == <<d, v>>
  <2>1. x # y
    BY <1>2 DEF ModelAnswers, AnswersNothing
  <2>2. paid' = [paid EXCEPT ![x] = @ + 1]
    BY <1>2 DEF ModelAnswers, AnswersNothing
  <2>3. y \in Asked \X Versions /\ paid \in [Asked \X Versions -> Nat] /\ paid[y] = 0
    BY DraftsAssumption DEF TypeOK, PaidInv
  <2> HIDE DEF x, y
  <2>4. paid'[y] = 0
    BY <2>1, <2>2, <2>3
  <2> QED
    BY <2>4 DEF y
<1>3. UNCHANGED paid \/ ModelAnswers \/ AnswersNothing
  <2>1. CASE ThreadStep
    BY <2>1 DEF ThreadStep, Thinks, FindsNothing, ForgetsRequests, Stamps, ModelRefuses, WritesWords,
       WritesNoReply, Dismisses, DoneRewriting, Appends, seenVars
  <2>2. CASE OwnerStep
    BY <2>2 DEF OwnerStep, RulesChange, Discards, LeavesADraft, AsksAgain, Requests, seenVars
  <2>3. CASE World \/ ThinkFails \/ AppendFails \/ Dies \/ UNCHANGED vars
    BY <2>3, WorldIs DEF ThinkFails, AppendFails, Dies, vars, seenVars
  <2> QED
    BY <2>1, <2>2, <2>3 DEF Next
<1> QED
  BY <1>1, <1>2, <1>3

LEMMA PaidInductive ==
  ASSUME TypeOK, TypeOK', PaidInv, TheirsInv, [Next]_vars
  PROVE  PaidInv'
<1>1. PaidAux'
  BY PaidAuxInductive DEF PaidInv
<1>2. ASSUME NEW d \in Asked \ Stubborn, Fits(d), NEW v \in Versions
      PROVE  /\ v > current' => paid'[<<d, v>>] = 0
             /\ v < current' => Calls(d, v)' <= 1 + asks' + faults'
             /\ v = current' => Calls(d, v)' + ToCome(d)' + AskN' <= 1 + asks' + faults'
  <2>1. asks' \in Nat /\ faults' \in Nat /\ asks' >= asks /\ faults' >= faults
    <3>1. asks' >= asks /\ faults' >= faults
      <4>1. CASE ThreadStep
        <5>1. UNCHANGED <<asks, faults>>
          BY <4>1 DEF ThreadStep, Thinks, FindsNothing, ForgetsRequests, ModelAnswers, ModelRefuses, NothingCame,
             WritesWords, WritesNoReply, Dismisses, DoneRewriting, Stamps, Appends
        <5> QED
          BY <5>1, PaidTypes
      <4>2. CASE OwnerStep \/ World \/ UNCHANGED vars
        BY <4>2, PaidTypes, WorldIs DEF OwnerStep, RulesChange, Discards, LeavesADraft, AsksAgain, Requests, vars
      <4>3. CASE ThinkFails \/ AnswersNothing \/ AppendFails \/ Dies
        BY <4>3, PaidTypes DEF ThinkFails, AnswersNothing, NothingCame, AppendFails, Dies, Faulty
      <4> QED
        BY <4>1, <4>2, <4>3 DEF Next
    <3> QED
      BY <3>1 DEF TypeOK
  <2>2. paid[<<d, v>>] \in Nat /\ UnderWay(d, v) \in {0, 1} /\ ToCome(d) \in 0..3
    BY PaidTypes, ToComeInt
  <2>3. Calls(d, v)' \in Int /\ ToCome(d)' \in 0..3 /\ AskN' \in {0, 1}
    <3>1. paid'[<<d, v>>] \in Nat
      <4>1. CountsOK'
        BY DEF TypeOK, CountsOK
      <4> QED
        BY <4>1 DEF CountsOK
    <3> QED
      BY <3>1, ToComeNext DEF Calls, UnderWay, AskN
  <2> QED
    BY <1>2, <2>1, <2>2, <2>3, PaidTypes DEF Fits, PaidInv, Calls
<1>2a. \A d \in Stubborn, v \in Versions : paid'[<<d, v>>] = 0
  BY NeverPaid
<1>3. CASE RulesChange
  BY <1>1, <1>2a, <1>3, RulesFit DEF PaidInv
<1>4. CASE ~RulesChange
  <2> SUFFICES ASSUME NEW d \in Asked \ Stubborn
               PROVE  Fits(d)
    BY <1>1, <1>2, <1>2a DEF PaidInv
  <2> QED
    BY <1>4, OwnerFits, ThinksFits, AnswersFits, FailsFits, RefusesFits, SmallFits, WordsFit, NoReplyFits
       DEF Next, ThreadStep, OwnerStep
<1> QED
  BY <1>3, <1>4

(* One answer of the model is paid for per message and rules, and one more for *)
(* each request of the owner and each fault, whatever the owner, his AI and   *)
(* the conversation do while a call is under way (drafter/draft.py sweep).     *)
THEOREM OneAnswerPaid == Spec => []PaidOnce
<1>1. Init => TheirsInv /\ PaidInv
  <2> SUFFICES ASSUME Init PROVE TheirsInv /\ PaidInv
    OBVIOUS
  <2>1. TheirsInv
    BY RestOK DEF Init, TheirsInv, Judging, Kept, NoRules, NoAsk
  <2>2. PaidAux /\ AskN = 0
    BY RestOK DEF Init, PaidAux, Judging, NoAsk, AskN
  <2>3. \A d \in Asked, v \in Versions : paid[<<d, v>>] = 0 /\ UnderWay(d, v) = 0 /\ ToCome(d) = 1
    BY RestOK DEF Init, UnderWay, ToCome, Judging, AtRest
  <2>4. Stubborn \subseteq Asked
    BY DraftsAssumption
  <2> QED
    BY <2>1, <2>2, <2>3, <2>4 DEF Init, PaidInv, Calls
<1>2. TypeOK /\ TypeOK' /\ TheirsInv /\ PaidInv /\ [Next]_vars => TheirsInv' /\ PaidInv'
  BY TheirsKept, PaidInductive
<1>3. TypeOK /\ PaidInv => PaidOnce
  <2> SUFFICES ASSUME TypeOK, PaidInv, NEW d \in Asked, NEW v \in Versions
               PROVE  paid[<<d, v>>] <= 1 + asks + faults
    BY DEF PaidOnce
  <2>1. /\ paid[<<d, v>>] \in Nat /\ UnderWay(d, v) \in {0, 1} /\ ToCome(d) \in 0..3
        /\ v \in Int /\ current \in Int /\ asks \in Nat /\ faults \in Nat
    BY PaidTypes, ToComeInt
  <2>2. CASE d \in Stubborn
    BY <2>1, <2>2 DEF PaidInv
  <2>3. CASE d \notin Stubborn
    BY <2>1, <2>3, PaidTypes DEF PaidInv, Calls
  <2> QED
    BY <2>2, <2>3
<1> QED
  BY <1>1, <1>2, <1>3, DraftsTypeCorrect, PTL DEF Spec
-----------------------------------------------------------------------------
(* Only what was written is ever dismissed.                                   *)
DismissedInv == \A d \in dismissed : body[d] # "none"

LifeInv == TypeOK /\ RefusedInv /\ TheirsInv /\ PaidAux /\ DismissedInv

LEMMA DismissedInductive ==
  ASSUME LifeInv, [Next]_vars
  PROVE  DismissedInv'
<1>a. RowsOK
  BY TypeParts DEF LifeInv
<1> USE <1>a, InHand DEF LifeInv, RowsOK, DismissedInv
<1>1. CASE WritesWords
  BY <1>1 DEF WritesWords, Puts, Rewrites, Revives, Write, draftVars
<1>2. CASE WritesNoReply
  <2>1. thread.d \in Asked
    BY <1>2 DEF WritesNoReply
  <2>2. thread.kind \in {"stale", "request"} => body[thread.d] # "none"
    BY <1>2 DEF WritesNoReply, TheirsInv, PaidAux, Judging, JudgedOK
  <2> QED
    BY <1>2, <2>1, <2>2 DEF WritesNoReply, Puts, Write, Mark
<1>3. CASE Dismisses
  BY <1>3 DEF Dismisses, PaidAux
<1>4. ASSUME NEW d \in Asked, Discards(d)
      PROVE  DismissedInv'
  BY <1>4 DEF Discards, Waiting
<1>5. ASSUME NEW d \in Asked, LeavesADraft(d)
      PROVE  DismissedInv'
  BY <1>5 DEF LeavesADraft, Write
<1>6. CASE (\E d \in Asked : (\E kind \in Kinds : Thinks(d, kind)) \/ Stamps(d) \/ ForgetsRequests(d) \/ AsksAgain(d))
           \/ RulesChange \/ Requests \/ FindsNothing \/ ModelAnswers \/ DoneRewriting
  BY <1>6 DEF Thinks, Stamps, AsksAgain, Requests, RulesChange, ForgetsRequests, FindsNothing, ModelAnswers,
              DoneRewriting, draftVars
<1>7. CASE NoCall \/ World \/ Appends \/ AppendFails \/ Dies \/ UNCHANGED vars
  BY <1>7, NoCallIs, WorldIs DEF Appends, AppendFails, Dies, vars, draftVars
<1> QED
  BY <1>1, <1>2, <1>3, <1>4, <1>5, <1>6, <1>7 DEF Next, ThreadStep, OwnerStep, NoCall

(* A step writes to one draft, and the life of every other is as it was.      *)
Elsewhere(d) ==
  \A e \in Asked \ {d} : /\ body'[e] = body[e] /\ words'[e] = words[e]
                        /\ (e \in dismissed') = (e \in dismissed)
                        /\ (e \in refused') = (e \in refused)

LEMMA LifeElsewhere ==
  ASSUME NEW d \in Asked, Elsewhere(d)
  PROVE  [e \in Asked |-> LifeOf(e)]' = [[e \in Asked |-> LifeOf(e)] EXCEPT ![d] = LifeOf(d)']
<1>1. ASSUME NEW e \in Asked \ {d}
      PROVE  LifeOf(e)' = LifeOf(e)
  BY <1>1 DEF Elsewhere, LifeOf
<1> QED
  BY <1>1

LEMMA BecomesIs ==
  ASSUME NEW d \in Asked, Elsewhere(d), UNCHANGED everAsked, NEW state, LifeOf(d)' = state
  PROVE  Life!Becomes(d, state)
BY LifeElsewhere DEF Life!Becomes

LEMMA LifeStands ==
  ASSUME NEW d \in Asked, Elsewhere(d), LifeOf(d)' = LifeOf(d)
  PROVE  UNCHANGED [e \in Asked |-> LifeOf(e)]
<1>1. [e \in Asked |-> LifeOf(e)]' = [[e \in Asked |-> LifeOf(e)] EXCEPT ![d] = LifeOf(d)']
  BY LifeElsewhere
<1> QED
  BY <1>1

LEMMA LifeUntouched ==
  ASSUME UNCHANGED <<body, words, dismissed, refused, everAsked>>
  PROVE  UNCHANGED Life!lifeVars
<1>1. ASSUME NEW e \in Asked
      PROVE  LifeOf(e)' = LifeOf(e)
  BY DEF LifeOf
<1>2. UNCHANGED [e \in Asked |-> LifeOf(e)]
  BY <1>1
<1> QED
  BY <1>2 DEF Life!lifeVars

(* What a draft in each state of its life may become.                         *)
LEMMA StatesOfLife ==
  ASSUME LifeInv, NEW d \in Asked
  PROVE  /\ body[d] = "none" => LifeOf(d) = "none" /\ d \notin dismissed /\ d \notin refused
         /\ body[d] = "noReply" => LifeOf(d) = "nothing" /\ d \notin refused
         /\ body[d] = "words" /\ d \notin dismissed =>
              /\ d \notin refused
              /\ words[d] = Kept => LifeOf(d) = "theirs"
              /\ words[d] # Kept => LifeOf(d) = "ours"
         /\ body[d] \in {"none", "words", "noReply"}
BY TypeParts DEF LifeInv, RowsOK, RefusedInv, DismissedInv, LifeOf

(* Words the box writes where the reply may be written, or written anew.      *)
LEMMA WordsAreOurs ==
  ASSUME LifeInv, NEW d \in Asked, NEW v \in Versions, NEW mark,
         Write(d, "words", v, mark), UNCHANGED <<refused, everAsked>>,
         dismissed' \in {dismissed, dismissed \ {d}}, d \notin dismissed',
         d \notin refused
  PROVE  Life!Becomes(d, "ours") /\ Life!Says(d)
<1>1. RowsOK /\ MaxRules \in Nat
  BY TypeParts, DraftsAssumption DEF LifeInv
<1>2. /\ body' = [body EXCEPT ![d] = "words"] /\ words' = [words EXCEPT ![d] = v]
      /\ v # Kept /\ v \in (Versions \union {Kept}) \ {Kept}
  BY <1>1 DEF Write, Versions, Kept
<1>3. Elsewhere(d) /\ LifeOf(d)' = "ours"
  BY <1>1, <1>2 DEF Elsewhere, LifeOf, RowsOK
<1>4. Life!Becomes(d, "ours")
  BY <1>3, BecomesIs
<1>5. Life!Says(d)
  BY <1>2 DEF Life!Says
<1> QED
  BY <1>4, <1>5

(* Words, judged and written, are a step of the life.                         *)
LEMMA WordsOfLife ==
  ASSUME LifeInv, WritesWords
  PROVE  [Life!Next]_(Life!lifeVars)
<1>a. PICK d \in Asked : d = thread.d
  BY InHand DEF LifeInv, WritesWords
<1> USE <1>a
<1>1. thread.under \in Versions /\ Judging /\ UNCHANGED <<refused, everAsked>>
  BY InHand DEF LifeInv, WritesWords, Judging, seenVars
<1>2. CASE thread.kind = "new" /\ Puts("words") /\ UNCHANGED dismissed
  <2>1. CASE body[d] = "none"
    <3>1. Life!Becomes(d, "ours") /\ Life!Says(d)
      BY <1>1, <1>2, <2>1, StatesOfLife, WordsAreOurs DEF Puts
    <3>2. Life!Writes(d)
      BY <1>1, <2>1, <3>1, StatesOfLife DEF Life!Writes
    <3> QED
      BY <1>1, <3>2 DEF Life!Next
  <2>2. CASE body[d] # "none"
    BY <1>1, <1>2, <2>2, LifeUntouched DEF Puts
  <2> QED
    BY <2>1, <2>2
<1>3. CASE thread.kind \in {"stale", "request"} /\ Rewrites /\ UNCHANGED dismissed
  <2>1. CASE d \notin dismissed
    <3>1. Life!Becomes(d, "ours") /\ Life!Says(d)
      <4>1. d \notin refused
        BY <1>1, <2>1 DEF LifeInv, RefusedInv
      <4> QED
        BY <1>1, <1>3, <2>1, <4>1, WordsAreOurs DEF Rewrites
    <3>2. body[d] # "none" /\ (words[d] # Kept \/ d \in everAsked)
      BY <1>1, <1>3 DEF LifeInv, TheirsInv, PaidAux, JudgedOK, Judging
    <3>3. Life!TheBoxes(d) \/ LifeOf(d) = "nothing"
      BY <1>1, <2>1, <3>2, StatesOfLife DEF Life!TheBoxes
    <3>4. Life!Rewrites(d)
      BY <1>1, <3>1, <3>3 DEF Life!Rewrites
    <3> QED
      BY <1>1, <3>4 DEF Life!Next
  <2>2. CASE d \in dismissed
    BY <1>1, <1>3, <2>2, LifeUntouched DEF Rewrites
  <2> QED
    BY <2>1, <2>2
<1>4. CASE thread.kind = "recheck" /\ Revives
  <2>1. CASE body[d] = "noReply"
    <3>1. Life!Becomes(d, "ours") /\ Life!Says(d)
      BY <1>1, <1>4, <2>1, StatesOfLife, WordsAreOurs DEF Revives
    <3>2. Life!Rewrites(d)
      BY <1>1, <2>1, <3>1, StatesOfLife DEF Life!Rewrites
    <3> QED
      BY <1>1, <3>2 DEF Life!Next
  <2>2. CASE body[d] # "noReply"
    BY <1>1, <1>4, <2>2, LifeUntouched DEF Revives, draftVars
  <2> QED
    BY <2>1, <2>2
<1> QED
  BY <1>2, <1>3, <1>4 DEF WritesWords

(* So is a judgement that nothing is to be answered.                          *)
LEMMA NoReplyOfLife ==
  ASSUME LifeInv, WritesNoReply
  PROVE  [Life!Next]_(Life!lifeVars)
<1>a. PICK d \in Asked : d = thread.d
  BY InHand DEF LifeInv, WritesNoReply
<1> USE <1>a
<1>1. /\ thread.under \in Versions /\ Judging /\ UNCHANGED <<refused, everAsked>>
      /\ RowsOK /\ MaxRules \in Nat
  BY InHand, TypeParts, DraftsAssumption DEF LifeInv, WritesNoReply, Judging, seenVars
<1>2. CASE thread.kind = "new" /\ Puts("noReply") /\ UNCHANGED dismissed
  <2>1. CASE body[d] = "none"
    <3>1. /\ body' = [body EXCEPT ![d] = "noReply"] /\ words' = [words EXCEPT ![d] = thread.under]
          /\ thread.under \in (Versions \union {Kept}) \ {Kept}
      BY <1>1, <1>2, <2>1 DEF Puts, Write, Versions, Kept
    <3>2. Elsewhere(d) /\ LifeOf(d)' = "nothing"
      BY <1>1, <1>2, <3>1 DEF Elsewhere, LifeOf, RowsOK
    <3>3. Life!Becomes(d, "nothing")
      BY <1>1, <3>2, BecomesIs
    <3>4. Life!Says(d)
      BY <3>1 DEF Life!Says
    <3>5. Life!Writes(d)
      BY <1>1, <2>1, <3>3, <3>4, StatesOfLife DEF Life!Writes
    <3> QED
      BY <1>1, <3>5 DEF Life!Next
  <2>2. CASE body[d] # "none"
    BY <1>1, <1>2, <2>2, LifeUntouched DEF Puts
  <2> QED
    BY <2>1, <2>2
<1>3. CASE thread.kind \in {"stale", "request"} /\ Mark(d, current) /\ dismissed' = dismissed \union {d}
  <2>1. UNCHANGED <<body, words>> /\ Elsewhere(d)
    BY <1>1, <1>3 DEF Mark, Elsewhere
  <2>2. body[d] # "none" /\ (words[d] # Kept \/ d \in everAsked)
    BY <1>1, <1>3 DEF LifeInv, TheirsInv, PaidAux, JudgedOK, Judging
  <2>3. CASE body[d] = "words" /\ d \notin dismissed
    <3>1. Life!TheBoxes(d) /\ d \notin refused
      BY <1>1, <2>2, <2>3, StatesOfLife DEF Life!TheBoxes
    <3>2. LifeOf(d)' = "withdrawn"
      BY <1>1, <1>3, <2>1, <2>3, <3>1 DEF LifeOf
    <3>3. Life!Withdraws(d)
      BY <1>1, <2>1, <3>1, <3>2, BecomesIs DEF Life!Withdraws
    <3> QED
      BY <1>1, <3>3 DEF Life!Next
  <2>4. CASE ~(body[d] = "words" /\ d \notin dismissed)
    <3>1. LifeOf(d)' = LifeOf(d)
      BY <1>1, <1>3, <2>1, <2>4 DEF LifeOf
    <3> QED
      BY <1>1, <2>1, <3>1, LifeStands DEF Life!lifeVars
  <2> QED
    BY <2>3, <2>4
<1>4. CASE thread.kind = "recheck" /\ Mark(d, thread.under) /\ UNCHANGED dismissed
  BY <1>1, <1>4, LifeUntouched DEF Mark
<1> QED
  BY <1>2, <1>3, <1>4 DEF WritesNoReply

(* A person throws away, asks, leaves the words of his AI; or the draft that   *)
(* nothing was to be answered to is dismissed, which is no news.               *)
LEMMA ScreenOfLife ==
  ASSUME LifeInv, NEW d \in Asked, Discards(d) \/ AsksAgain(d) \/ LeavesADraft(d)
  PROVE  [Life!Next]_(Life!lifeVars)
<1>a. RowsOK
  BY TypeParts DEF LifeInv
<1>1. CASE Discards(d) /\ body[d] = "words"
  <2>1. /\ d \notin dismissed /\ UNCHANGED <<body, words, everAsked>>
        /\ dismissed' = dismissed \union {d} /\ refused' = refused \union {d}
    BY <1>1 DEF Discards, Waiting
  <2>2. Elsewhere(d) /\ LifeOf(d)' = "thrown"
    BY <1>1, <2>1 DEF Elsewhere, LifeOf
  <2>3. LifeOf(d) \in {"ours", "theirs"}
    BY <1>1, <2>1, StatesOfLife
  <2>4. Life!Throws(d)
    BY <2>1, <2>2, <2>3, BecomesIs DEF Life!Throws
  <2> QED
    BY <2>4 DEF Life!Next
<1>2. CASE Discards(d) /\ body[d] # "words"
  <2>1. /\ body[d] = "noReply" /\ UNCHANGED <<body, words, everAsked, refused>>
        /\ dismissed' = dismissed \union {d}
    BY <1>2, StatesOfLife DEF Discards, Waiting
  <2>2. Elsewhere(d) /\ LifeOf(d)' = LifeOf(d)
    BY <2>1 DEF Elsewhere, LifeOf
  <2> QED
    BY <2>1, <2>2, LifeStands DEF Life!lifeVars
<1>3. CASE AsksAgain(d)
  <2>1. /\ body[d] # "none" /\ d \notin dismissed /\ everAsked' = everAsked \union {d}
        /\ UNCHANGED <<body, words, dismissed, refused>>
    BY <1>3 DEF AsksAgain, Waiting, draftVars
  <2>2. LifeOf(d) \in {"ours", "theirs", "nothing"}
    BY <2>1, StatesOfLife
  <2>3. UNCHANGED [e \in Asked |-> LifeOf(e)]
    <3>1. Elsewhere(d) /\ LifeOf(d)' = LifeOf(d)
      BY <2>1 DEF Elsewhere, LifeOf
    <3> QED
      BY <3>1, LifeStands
  <2>4. Life!Asks(d)
    BY <2>1, <2>2, <2>3 DEF Life!Asks
  <2> QED
    BY <2>4 DEF Life!Next
<1>4. CASE LeavesADraft(d)
  <2>1. /\ body[d] = "none" /\ LifeOf(d) = "none" /\ d \notin dismissed /\ d \notin refused
        /\ body' = [body EXCEPT ![d] = "words"] /\ words' = [words EXCEPT ![d] = Kept]
        /\ UNCHANGED <<dismissed, refused, everAsked>>
    BY <1>4, StatesOfLife DEF LeavesADraft, Write, seenVars
  <2>2. Elsewhere(d) /\ LifeOf(d)' = "theirs"
    BY <1>a, <2>1 DEF Elsewhere, LifeOf, RowsOK
  <2>3. Life!Leaves(d)
    BY <2>1, <2>2, BecomesIs DEF Life!Leaves
  <2> QED
    BY <2>3 DEF Life!Next
<1> QED
  BY <1>1, <1>2, <1>3, <1>4

LEMMA DismissalOfLife ==
  ASSUME LifeInv, Dismisses
  PROVE  UNCHANGED Life!lifeVars
<1>1. PICK d \in Asked : d = thread.d
  BY InHand DEF LifeInv, Dismisses
<1>2. /\ body[d] = "noReply" /\ UNCHANGED <<body, words, refused, everAsked>>
      /\ dismissed' = dismissed \union {d}
  BY <1>1 DEF LifeInv, Dismisses, PaidAux, seenVars
<1>3. Elsewhere(d) /\ LifeOf(d)' = LifeOf(d)
  BY <1>2 DEF Elsewhere, LifeOf
<1> QED
  BY <1>2, <1>3, LifeStands DEF Life!lifeVars

(* Every step of the drafter, the mailbox and the owner is one of the life of  *)
(* one draft, or of none.                                                      *)
LEMMA StepsOfLife ==
  ASSUME LifeInv, [Next]_vars
  PROVE  [Life!Next]_(Life!lifeVars)
<1>1. CASE \E d \in Asked : (\E kind \in Kinds : Thinks(d, kind)) \/ Stamps(d) \/ ForgetsRequests(d)
  BY <1>1, LifeUntouched DEF Thinks, Stamps, ForgetsRequests, draftVars, seenVars
<1>2. CASE RulesChange \/ Requests \/ FindsNothing \/ ModelAnswers \/ DoneRewriting
  BY <1>2, LifeUntouched DEF RulesChange, Requests, FindsNothing, ModelAnswers, DoneRewriting, draftVars, seenVars
<1>3. CASE NoCall \/ World \/ Appends \/ AppendFails \/ Dies \/ UNCHANGED vars
  BY <1>3, LifeUntouched, NoCallIs, WorldIs DEF Appends, AppendFails, Dies, vars, draftVars, seenVars
<1> QED
  BY <1>1, <1>2, <1>3, WordsOfLife, NoReplyOfLife, ScreenOfLife, DismissalOfLife
     DEF Next, ThreadStep, OwnerStep, NoCall

(* The replies live as module DraftLife says, whenever a call of the model was *)
(* begun, whatever the owner did meanwhile and wherever the worker died: what  *)
(* was thrown away or withdrawn is over, and the owner's AI is written over    *)
(* only where he asked (drafter/store.py put, rewrite, revive, dismiss).       *)
THEOREM DraftsLiveSo == Spec => ImplementsLife
<1>1. Init /\ TypeOK => LifeInv /\ Life!Init
  <2> SUFFICES ASSUME Init, TypeOK PROVE LifeInv /\ Life!Init
    OBVIOUS
  <2>1. RefusedInv /\ TheirsInv /\ PaidAux /\ DismissedInv
    BY RestOK DEF Init, RefusedInv, TheirsInv, PaidAux, DismissedInv, Judging, Kept, NoRules, NoAsk, AskN
  <2>2. Life!Init
    BY DraftsAssumption DEF Init, Life!Init, LifeOf, Versions
  <2> QED
    BY <2>1, <2>2 DEF LifeInv
<1>2. LifeInv /\ TypeOK' /\ [Next]_vars => LifeInv'
  BY RefusedKept, TheirsKept, PaidAuxInductive, DismissedInductive DEF LifeInv
<1>3. LifeInv /\ [Next]_vars => [Life!Next]_(Life!lifeVars)
  BY StepsOfLife
<1> QED
  BY <1>1, <1>2, <1>3, DraftsTypeCorrect, PTL DEF Spec, ImplementsLife, Life!Spec
=============================================================================
