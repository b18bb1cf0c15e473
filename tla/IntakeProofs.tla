---------------------------- MODULE IntakeProofs ----------------------------
(* Proofs about Intake, for any number of conversations and messages, any     *)
(* page, any cap, any number of machines and any number of attempts.          *)
EXTENDS Intake, TLAPS, FiniteSetTheorems

(* The type, in the parts the steps disturb together.                         *)
Numbers == 0..MaxIn
OutsideOK ==
  /\ came \in [Convs -> Numbers] /\ aged \in [Convs -> Numbers]
  /\ stops \subseteq Msgs
  /\ written \in Nat /\ faults \in Nat /\ lost \in Nat /\ paused \in BOOLEAN
RowsOK ==
  /\ mirror \subseteq Msgs
  /\ lastIn \in [Convs -> Numbers] /\ seen \in [Convs -> Numbers]
  /\ activity \in [Convs -> Numbers] /\ answered \in [Convs -> Numbers]
  /\ muted \subseteq Convs /\ opened \subseteq Convs
  /\ job \in [Msgs -> JobAt] /\ attempts \in [Msgs -> Nat]
  /\ ledger \in [Keys -> Status] /\ recent \subseteq Keys
  /\ greeted \subseteq Keys
Sweeps == [at : SweepAt, todo : SUBSET Convs, listed : [Convs -> Numbers], key : Keys \union {NoKey}]
SweepOK ==
  sweep \in Sweeps /\ (sweep.at \in {"rest", "sweep"} <=> sweep.key = NoKey)
WorkerOK ==
  /\ worker \in [at : WorkAt, key : Keys \union {NoKey}]
  /\ worker.at = "rest" <=> worker.key = NoKey
MachinesOK ==
  /\ machines \in [Machines -> [at : SayAt, key : Keys \union {NoKey}]]
  /\ \A a \in Machines : machines[a].at = "rest" <=> machines[a].key = NoKey

LEMMA TypeParts == TypeOK <=> OutsideOK /\ RowsOK /\ SweepOK /\ WorkerOK /\ MachinesOK
BY DEF TypeOK, OutsideOK, RowsOK, SweepOK, WorkerOK, MachinesOK, Sweeps, Numbers
LEMMA TypePartsNext == TypeOK' <=> OutsideOK' /\ RowsOK' /\ SweepOK' /\ WorkerOK' /\ MachinesOK'
BY DEF TypeOK, OutsideOK, RowsOK, SweepOK, WorkerOK, MachinesOK, Sweeps, Numbers

(* The job in hand is a message's: the type alone does not say so.            *)
JobInHand == worker.at # "rest" => worker.key \in Msgs
(* What the sweep acts on is a message that came and is not marked yet.       *)
PageInHand ==
  sweep.at \in {"act", "mark"} =>
    /\ sweep.key \in Msgs
    /\ seen[sweep.key[1]] < sweep.key[2] /\ sweep.key[2] <= came[sweep.key[1]]
(* A machine's thread has a line in hand.                                     *)
Lines == Convs \X Steps
LineInHand == \A a \in Machines : machines[a].at # "rest" => machines[a].key \in Lines
(* The watermark is behind what came, and no further than a page.             *)
Watermark == \A c \in Convs : seen[c] <= came[c] /\ came[c] - seen[c] <= Page
TypeInv == TypeOK /\ JobInHand /\ LineInHand /\ PageInHand /\ Watermark

LEMMA OutsideInductive ==
  ASSUME TypeOK, [Next]_vars
  PROVE  OutsideOK'
<1>a. OutsideOK
  BY TypeParts
<1> USE <1>a DEF OutsideOK, outside, seenOut
<1>1. ASSUME NEW c \in Convs, Writes(c)
      PROVE  OutsideOK'
  BY <1>1, IntakeAssumption DEF Writes, Numbers, Msgs, Ins
<1>2. ASSUME NEW c \in Convs, WindowCloses(c) \/ ReadFails(c)
      PROVE  OutsideOK'
  BY <1>2 DEF WindowCloses, ReadFails
<1>3. CASE HourPasses \/ EnqueueFails \/ Lists \/ Reap \/ UNCHANGED vars
  BY <1>3 DEF HourPasses, EnqueueFails, Lists, Sweeping, Reap, Reaps, vars
<1>3a. CASE Halts \/ Resumes
  <2>1. UNCHANGED <<outside, lost>> /\ faults' \in {faults, faults + 1} /\ paused' \in BOOLEAN
    BY <1>3a DEF Halts, Resumes
  <2> QED
    BY <2>1
<1>4. CASE SweepStep \/ (\E c \in Convs, i \in Ins : Asks(c, i))
  BY <1>4 DEF SweepStep, Reads, Acts, MarksSeen, SweepEnds, Claims, AnswerSettles, Asks, Sweeping
<1>5. CASE WorkStep
  BY <1>5 DEF WorkStep, Takes, StopMutes, StopEnds, Declines, Defers, GoesOn, ClaimsOpener, OpenerTaken,
              OpenerNotTaken, OpenerSettles, OpenerRefused, Working
<1>6. CASE Dies \/ HandlerRaises
  <2>1. UNCHANGED <<outside, paused>> /\ faults' = faults + 1 /\ lost' \in {lost, lost + 1}
    BY <1>6 DEF Dies, HandlerRaises, Loses, Working
  <2> QED
    BY <2>1
<1>7. ASSUME NEW a \in Machines, SayStep(a)
      PROVE  OutsideOK'
  BY <1>7 DEF SayStep, MachineLooks, MachineClaims, MachineSettles, Saying
<1> QED
  BY <1>1, <1>2, <1>3, <1>3a, <1>4, <1>5, <1>6, <1>7 DEF Next

(* Keys, messages and the conversations they are on.                          *)
LEMMA KeyFacts ==
  /\ NoKey \notin Keys /\ Msgs \subseteq Keys
  /\ \A k \in Keys : k[1] \in Convs /\ k = <<k[1], k[2]>>
  /\ \A m \in Msgs : m[1] \in Convs /\ m[2] \in Ins /\ m = <<m[1], m[2]>>
  /\ \A c \in Convs, i \in Numbers : <<c, i>> \in Keys
  /\ \A c \in Convs, i \in Ins : <<c, i>> \in Msgs
  /\ \A c \in Convs : Opener(c) \in Keys
  /\ \A c \in Convs, s \in Steps : <<c, s>> \in Lines
  /\ Lines \subseteq Keys
BY IntakeAssumption DEF Keys, Msgs, Ins, Numbers, Opener, Lines

LEMMA SweepInductive ==
  ASSUME TypeOK, [Next]_vars
  PROVE  SweepOK'
<1>a. /\ sweep \in Sweeps /\ (sweep.at \in {"rest", "sweep"} <=> sweep.key = NoKey)
      /\ came \in [Convs -> Numbers]
  BY TypeParts DEF SweepOK, OutsideOK
<1>b. SweepRest \in Sweeps /\ SweepRest.at = "rest" /\ SweepRest.key = NoKey
  BY IntakeAssumption DEF SweepRest, Sweeps, SweepAt, Numbers
<1>1. CASE UNCHANGED sweep
  BY <1>1, <1>a DEF SweepOK
<1>2. CASE sweep' = SweepRest
  BY <1>2, <1>b DEF SweepOK
<1>3. ASSUME NEW phase \in SweepAt \ {"rest", "sweep"}, NEW k \in Keys, SweepGo(phase, k)
      PROVE  SweepOK'
  <2>1. sweep' \in Sweeps /\ sweep'.at = phase /\ sweep'.key = k
    BY <1>3, <1>a DEF SweepGo, Sweeps
  <2> QED
    BY <1>3, <2>1, KeyFacts DEF SweepOK
<1>4. ASSUME NEW c, sweep.at = "sweep", sweep' = [sweep EXCEPT !.todo = @ \ {c}]
      PROVE  SweepOK'
  <2>1. sweep' \in Sweeps /\ sweep'.at = "sweep" /\ sweep'.key = sweep.key
    BY <1>4, <1>a DEF Sweeps
  <2> QED
    BY <1>a, <1>4, <2>1 DEF SweepOK
<1>5. ASSUME NEW c, sweep' = [sweep EXCEPT !.at = "sweep", !.key = NoKey, !.todo = @ \ {c}]
      PROVE  SweepOK'
  <2>1. sweep' \in Sweeps /\ sweep'.at = "sweep" /\ sweep'.key = NoKey
    BY <1>5, <1>a DEF Sweeps, SweepAt
  <2> QED
    BY <2>1 DEF SweepOK
<1>6. CASE Lists
  <2>1. sweep' \in Sweeps /\ sweep'.at = "sweep" /\ sweep'.key = sweep.key
    BY <1>6, <1>a DEF Sweeps, SweepAt, Lists
  <2> QED
    BY <1>6, <1>a, <2>1 DEF SweepOK, Lists
<1>7. ASSUME NEW c \in Convs, Reads(c)
      PROVE  SweepOK'
  BY <1>3, <1>4, <1>7, <1>a, KeyFacts DEF Reads, SweepAt
<1>8. ASSUME NEW c \in Convs, ReadFails(c)
      PROVE  SweepOK'
  BY <1>4, <1>8 DEF ReadFails
<1>9. ASSUME sweep.at \notin {"rest", "sweep"}
      PROVE  sweep.key \in Keys
  BY <1>9, <1>a DEF Sweeps
<1>10. CASE Acts
  BY <1>3, <1>9, <1>10 DEF Acts, SweepAt
<1>11. CASE EnqueueFails \/ MarksSeen
  BY <1>5, <1>11 DEF EnqueueFails, MarksSeen
<1>12. CASE SweepEnds \/ AnswerSettles \/ Dies
  BY <1>2, <1>12 DEF SweepEnds, AnswerSettles, Dies
<1>13. ASSUME NEW c \in Convs, NEW i \in Ins, Asks(c, i)
       PROVE  SweepOK'
  BY <1>3, <1>13, KeyFacts DEF Asks, SweepAt, Msgs
<1>14. CASE Claims
  BY <1>2, <1>3, <1>9, <1>14 DEF Claims, SweepAt
<1>15. CASE Halts \/ Resumes \/ Reap \/ HandlerRaises \/ (\E a \in Machines : SayStep(a))
  BY <1>1, <1>15 DEF Halts, Resumes, Reap, Reaps, HandlerRaises, Working, SayStep, MachineLooks, MachineClaims,
                     MachineSettles, Saying
<1>16. CASE HourPasses \/ UNCHANGED vars \/ (\E c \in Convs : Writes(c) \/ WindowCloses(c))
  BY <1>1, <1>16 DEF HourPasses, vars, Writes, WindowCloses
<1>17. CASE WorkStep
  BY <1>1, <1>17 DEF WorkStep, Takes, StopMutes, StopEnds, Declines, Defers, GoesOn, ClaimsOpener, OpenerTaken,
              OpenerNotTaken, OpenerSettles, OpenerRefused, Working
<1> QED
  BY <1>6, <1>7, <1>8, <1>10, <1>11, <1>12, <1>13, <1>14, <1>15, <1>16, <1>17 DEF Next, SweepStep

(* The worker's step: at rest, or on with a message.                          *)
LEMMA WorkerInductive ==
  ASSUME TypeOK, JobInHand, [Next]_vars
  PROVE  WorkerOK' /\ JobInHand'
<1>a. worker \in [at : WorkAt, key : Keys \union {NoKey}] /\ (worker.at = "rest" <=> worker.key = NoKey)
  BY TypeParts DEF WorkerOK
<1>1. CASE UNCHANGED worker
  BY <1>1, <1>a DEF WorkerOK, JobInHand
<1>2. CASE worker' = WorkRest
  BY <1>2 DEF WorkerOK, JobInHand, WorkRest, WorkAt
<1>3. ASSUME NEW phase \in WorkAt \ {"rest"}, NEW m \in Msgs, WorkGo(phase, m)
      PROVE  WorkerOK' /\ JobInHand'
  <2>1. worker' = [at |-> phase, key |-> m] /\ m \in Keys /\ m # NoKey
    BY <1>3, KeyFacts DEF WorkGo
  <2> QED
    BY <1>3, <2>1 DEF WorkerOK, JobInHand
<1>4. CASE WorkStep
  BY <1>2, <1>3, <1>4 DEF WorkStep, Takes, StopMutes, StopEnds, Declines, Defers, GoesOn, ClaimsOpener, OpenerTaken,
       OpenerNotTaken, OpenerSettles, OpenerRefused, JobEnds, JobInHand, WorkAt
<1>5. CASE Dies \/ HandlerRaises
  BY <1>2, <1>5 DEF Dies, HandlerRaises, JobEnds
<1>6. CASE SweepStep \/ (\E c \in Convs, i \in Ins : Asks(c, i)) \/ Lists
  BY <1>1, <1>6 DEF SweepStep, Reads, Acts, MarksSeen, SweepEnds, Claims, AnswerSettles, Asks,
                    Lists, Sweeping
<1>7. CASE HourPasses \/ EnqueueFails \/ Halts \/ Resumes \/ Reap \/ UNCHANGED vars
           \/ (\E c \in Convs : Writes(c) \/ WindowCloses(c) \/ ReadFails(c))
           \/ (\E a \in Machines : SayStep(a))
  BY <1>1, <1>7 DEF HourPasses, EnqueueFails, Halts, Resumes, Reap, Reaps, vars, Writes, WindowCloses, ReadFails,
        SayStep, MachineLooks, MachineClaims, MachineSettles, Saying
<1> QED
  BY <1>4, <1>5, <1>6, <1>7 DEF Next

(* A machine's thread: at rest, or on with a line.                            *)
LEMMA MachinesInductive ==
  ASSUME TypeOK, LineInHand, [Next]_vars
  PROVE  MachinesOK' /\ LineInHand'
<1>a. /\ machines \in [Machines -> [at : SayAt, key : Keys \union {NoKey}]]
      /\ \A a \in Machines : machines[a].at = "rest" <=> machines[a].key = NoKey
  BY TypeParts DEF MachinesOK
<1>1. CASE UNCHANGED machines
  BY <1>1, <1>a DEF MachinesOK, LineInHand
<1>2. CASE Dies
  <2>1. machines' = [a \in Machines |-> [at |-> "rest", key |-> NoKey]]
    BY <1>2 DEF Dies, WorkRest
  <2> QED
    BY <2>1 DEF MachinesOK, LineInHand, SayAt
<1>3. ASSUME NEW a \in Machines, NEW phase \in SayAt, NEW k \in Keys \union {NoKey}, SayGo(a, phase, k),
             phase = "rest" <=> k = NoKey, phase # "rest" => k \in Lines
      PROVE  MachinesOK' /\ LineInHand'
  BY <1>3, <1>a DEF SayGo, MachinesOK, LineInHand
<1>4. ASSUME NEW a \in Machines, SayStep(a)
      PROVE  MachinesOK' /\ LineInHand'
  <2>1. CASE \E c \in Convs, s \in Steps : MachineLooks(a, c, s)
    <3>1. PICK c \in Convs, s \in Steps : SayGo(a, "claim", <<c, s>>)
      BY <2>1 DEF MachineLooks
    <3>2. <<c, s>> \in Lines /\ <<c, s>> \in Keys /\ <<c, s>> # NoKey
      BY KeyFacts
    <3> QED
      BY <1>3, <3>1, <3>2 DEF SayAt
  <2>2. CASE SayGo(a, "rest", NoKey)
    BY <1>3, <2>2 DEF SayAt
  <2>3. CASE MachineClaims(a) /\ SayGo(a, "call", machines[a].key)
    <3>1. machines[a].key \in Lines /\ machines[a].key \in Keys /\ machines[a].key # NoKey
      BY <2>3, KeyFacts DEF MachineClaims, LineInHand
    <3> QED
      BY <1>3, <2>3, <3>1 DEF SayAt
  <2> QED
    BY <1>4, <2>1, <2>2, <2>3 DEF SayStep, MachineClaims, MachineSettles
<1>5. CASE WorkStep \/ HandlerRaises
  BY <1>1, <1>5 DEF WorkStep, Takes, StopMutes, StopEnds, Declines, Defers, GoesOn, ClaimsOpener, OpenerTaken,
       OpenerNotTaken, OpenerSettles, OpenerRefused, HandlerRaises, Working
<1>6. CASE SweepStep \/ (\E c \in Convs, i \in Ins : Asks(c, i)) \/ Lists
  BY <1>1, <1>6 DEF SweepStep, Reads, Acts, MarksSeen, SweepEnds, Claims, AnswerSettles, Asks, Lists, Sweeping
<1>7. CASE HourPasses \/ EnqueueFails \/ Halts \/ Resumes \/ Reap \/ UNCHANGED vars
           \/ (\E c \in Convs : Writes(c) \/ WindowCloses(c) \/ ReadFails(c))
  BY <1>1, <1>7 DEF HourPasses, EnqueueFails, Halts, Resumes, Reap, Reaps, vars, Writes, WindowCloses, ReadFails
<1> QED
  BY <1>2, <1>4, <1>5, <1>6, <1>7 DEF Next

(* Spoken is the number of a message.                                         *)
LEMMA SpokenType ==
  ASSUME answered \in [Convs -> Numbers], NEW c \in Convs
  PROVE  Spoken(c) \in [Convs -> Numbers]
<1>1. LatestIn(c) \subseteq Numbers /\ 0 \in Numbers
  BY IntakeAssumption DEF LatestIn, Ins, Numbers
<1>2. CASE LatestIn(c) = {}
  BY <1>1, <1>2 DEF Newest, Spoken
<1>3. CASE LatestIn(c) # {}
  <2>1. PICK i : i \in LatestIn(c)
    BY <1>3
  <2>2. (CHOOSE j \in LatestIn(c) : TRUE) \in LatestIn(c)
    BY <2>1
  <2>3. Newest(c) \in Numbers
    BY <1>1, <1>3, <2>2 DEF Newest
  <2> QED
    BY <2>3 DEF Spoken
<1> QED
  BY <1>2, <1>3

LEMMA RowsInductive ==
  ASSUME TypeInv, [Next]_vars
  PROVE  RowsOK'
<1>a. RowsOK /\ came \in [Convs -> Numbers]
  BY TypeParts DEF TypeInv, OutsideOK
<1>b. /\ worker.at # "rest" => worker.key \in Msgs
      /\ sweep.at \notin {"rest", "sweep"} => sweep.key \in Keys
      /\ sweep.listed \in [Convs -> Numbers]
  BY TypeParts DEF TypeInv, SweepOK, Sweeps, JobInHand
<1>c. InHand \subseteq Ins /\ StopsInHand \subseteq Ins
  BY DEF InHand, StopsInHand
<1>1. ASSUME NEW status \in JobAt, JobEnds(status), worker.at # "rest"
      PROVE  job' \in [Msgs -> JobAt]
  BY <1>1, <1>a DEF JobEnds, RowsOK
<1>2. CASE UNCHANGED <<rows, greeted>>
  BY <1>2, <1>a DEF RowsOK, rows
<1>d. \A m : Retried(m) \in JobAt
  BY DEF Retried, JobAt
<1>3. CASE StopMutes \/ StopEnds \/ Declines
  BY <1>1, <1>3, <1>a, <1>b, KeyFacts DEF StopMutes, StopEnds, Declines, RowsOK, JobAt, seenOut
<1>3a. CASE Defers
  <2>1. worker.key \in Msgs /\ attempts \in [Msgs -> Nat] /\ job' \in [Msgs -> JobAt]
    BY <1>1, <1>3a, <1>a, <1>b DEF Defers, RowsOK, JobAt
  <2>2. attempts' \in [Msgs -> Nat]
    BY <1>3a, <2>1 DEF Defers
  <2> QED
    BY <1>3a, <1>a, <2>1, <2>2 DEF Defers, RowsOK, seenOut
<1>4. CASE \E m \in Msgs : Takes(m)
  BY <1>4, <1>a DEF Takes, RowsOK, JobAt, seenOut
<1>5. CASE GoesOn \/ OpenerNotTaken \/ Lists \/ SweepEnds \/ Halts \/ Resumes
           \/ (\E c \in Convs, i \in Ins : Asks(c, i))
  BY <1>2, <1>5 DEF GoesOn, OpenerNotTaken, Lists, SweepEnds, Halts, Resumes, Asks, seenOut
<1>6. CASE ClaimsOpener
  BY <1>1, <1>6, <1>a, <1>b, KeyFacts DEF ClaimsOpener, RowsOK, JobAt, seenOut
<1>7. CASE OpenerTaken
  BY <1>7, <1>a, <1>b, KeyFacts DEF OpenerTaken, RowsOK, rows
<1>8. CASE OpenerSettles
  <2>1. "out" \in Status /\ Opener(worker.key[1]) \in Keys /\ worker.key[1] \in Convs
    BY <1>8, <1>b, KeyFacts DEF Status, OpenerSettles
  <2>2. \A c \in Convs : Spoken(c) \in [Convs -> Numbers]
    BY <1>a, SpokenType DEF RowsOK
  <2> QED
    BY <1>1, <1>8, <1>a, <1>b, <2>1, <2>2, KeyFacts DEF OpenerSettles, SetRow, RowsOK, JobAt, seenOut
<1>9. CASE OpenerRefused
  BY <1>1, <1>9, <1>a, <1>b, <1>d, KeyFacts DEF OpenerRefused, RowsOK, seenOut
<1>9a. CASE HandlerRaises
  BY <1>1, <1>9a, <1>a, <1>b, <1>d, KeyFacts DEF HandlerRaises, RowsOK, JobAt
<1>9b. CASE Reap
  BY <1>9b, <1>a, <1>d DEF Reap, Reaps, RowsOK, JobAt, seenOut
<1>s. ASSUME NEW k \in Keys, Settles(k)
      PROVE  ledger' \in [Keys -> Status] /\ recent' \subseteq Keys /\ answered' \in [Convs -> Numbers]
  <2>1. k[1] \in Convs /\ {"out", "none"} \subseteq Status
    BY KeyFacts DEF Status
  <2>2. Spoken(k[1]) \in [Convs -> Numbers]
    BY <1>a, <2>1, SpokenType DEF RowsOK
  <2> QED
    BY <1>s, <1>a, <2>1, <2>2 DEF Settles, SetRow, RowsOK
<1>m. ASSUME NEW k \in Keys, ClaimRow(k)
      PROVE  ledger' \in [Keys -> Status] /\ recent' \subseteq Keys
  BY <1>m, <1>a DEF ClaimRow, SetRow, Status, RowsOK
<1>9c. ASSUME NEW a \in Machines, SayStep(a)
       PROVE  RowsOK'
  <2>1. machines[a].at # "rest" => machines[a].key \in Keys
    BY KeyFacts DEF TypeInv, LineInHand
  <2>2. CASE \E c \in Convs, s \in Steps : MachineLooks(a, c, s)
    BY <1>2, <2>2 DEF MachineLooks, Saying, seenOut
  <2>3. CASE MachineClaims(a)
    <3>1. ledger' \in [Keys -> Status] /\ recent' \subseteq Keys
      BY <1>m, <1>a, <2>1, <2>3 DEF MachineClaims, RowsOK
    <3> QED
      BY <1>a, <2>3, <3>1 DEF MachineClaims, RowsOK, Saying, seenOut
  <2>4. CASE MachineSettles(a)
    <3>1. machines[a].key \in Keys /\ Settles(machines[a].key)
      BY <2>1, <2>4 DEF MachineSettles
    <3>2. ledger' \in [Keys -> Status] /\ recent' \subseteq Keys /\ answered' \in [Convs -> Numbers]
      BY <1>s, <3>1
    <3> QED
      BY <1>a, <2>4, <3>2 DEF MachineSettles, RowsOK, Saying, seenOut
  <2> QED
    BY <1>9c, <2>2, <2>3, <2>4 DEF SayStep
<1>10. ASSUME NEW c \in Convs, Reads(c)
       PROVE  RowsOK'
  <2>1. {<<c, i>> : i \in PageOf(c)} \subseteq Msgs
    BY KeyFacts DEF PageOf
  <2> QED
    BY <1>10, <1>a, <1>b, <2>1 DEF Reads, Marks, RowsOK
<1>11. CASE Acts
  <2>1. /\ sweep.key[1] \in Convs /\ sweep.key[2] \in Ins
    BY <1>11, KeyFacts DEF Acts, TypeInv, PageInHand
  <2>2. Targets \subseteq Ins
    BY <1>c, <2>1 DEF Targets
  <2>3. PICK i \in Targets :
          /\ lastIn' = [lastIn EXCEPT ![sweep.key[1]] = i]
          /\ \/ Enqueue(<<sweep.key[1], i>>) /\ UNCHANGED muted
             \/ muted' \in {muted, muted \union {sweep.key[1]}} /\ UNCHANGED job
    BY <1>11 DEF Acts
  <2>4. i \in Ins /\ i \in Numbers /\ <<sweep.key[1], i>> \in Msgs
    BY <2>1, <2>2, <2>3, KeyFacts DEF Ins, Numbers
  <2>5. UNCHANGED <<mirror, seen, activity, opened, answered, attempts, ledger, recent, greeted>>
    BY <1>11 DEF Acts
  <2>6. lastIn' \in [Convs -> Numbers]
    BY <2>1, <2>3, <2>4, <1>a DEF RowsOK
  <2>7. job' \in [Msgs -> JobAt] /\ muted' \subseteq Convs
    BY <2>1, <2>3, <2>4, <1>a DEF RowsOK, Enqueue, JobAt
  <2> QED
    BY <1>a, <2>5, <2>6, <2>7 DEF RowsOK
<1>12. CASE EnqueueFails
  <2>1. /\ sweep.key[1] \in Convs /\ sweep.key[2] \in Ins
    BY <1>12, KeyFacts DEF EnqueueFails, TypeInv, PageInHand
  <2>2. Targets \subseteq Ins
    BY <1>c, <2>1 DEF Targets
  <2>3. PICK i \in Targets : lastIn' = [lastIn EXCEPT ![sweep.key[1]] = i]
    BY <1>12 DEF EnqueueFails
  <2>4. i \in Numbers
    BY <2>2, <2>3 DEF Ins, Numbers
  <2> QED
    BY <1>12, <1>a, <2>1, <2>3, <2>4 DEF EnqueueFails, RowsOK, seenOut
<1>13. CASE MarksSeen
  <2>1. sweep.key[1] \in Convs /\ sweep.key[2] \in Numbers
    BY <1>13, KeyFacts DEF MarksSeen, TypeInv, PageInHand, Ins, Numbers
  <2> QED
    BY <1>13, <1>a, <1>b, <2>1 DEF MarksSeen, Marks, RowsOK
<1>14. CASE Claims
  <2>1. ledger' \in [Keys -> Status] /\ recent' \subseteq Keys
    BY <1>m, <1>14, <1>a, <1>b DEF Claims, RowsOK
  <2> QED
    BY <1>14, <1>a, <2>1 DEF Claims, RowsOK
<1>15. CASE AnswerSettles
  <2>1. ledger' \in [Keys -> Status] /\ recent' \subseteq Keys /\ answered' \in [Convs -> Numbers]
    BY <1>s, <1>15, <1>b DEF AnswerSettles
  <2> QED
    BY <1>15, <1>a, <2>1 DEF AnswerSettles, RowsOK
<1>16. CASE HourPasses \/ Dies
  BY <1>16, <1>a DEF HourPasses, Dies, RowsOK, JobAt, rows
<1>17. CASE UNCHANGED vars \/ (\E c \in Convs : Writes(c) \/ WindowCloses(c) \/ ReadFails(c))
  BY <1>2, <1>17 DEF vars, Writes, WindowCloses, ReadFails, seenOut
<1> QED
  BY <1>3, <1>3a, <1>4, <1>5, <1>6, <1>7, <1>8, <1>9, <1>9a, <1>9b, <1>9c, <1>10, <1>11, <1>12, <1>13, <1>14,
     <1>15, <1>16, <1>17
     DEF Next, SweepStep, WorkStep

(* The page in hand and the watermark: only a sweep reads and marks, and it   *)
(* does one conversation at a time.                                           *)
LEMMA PageInductive ==
  ASSUME TypeInv, [Next]_vars
  PROVE  PageInHand' /\ Watermark'
<1>a. /\ came \in [Convs -> Numbers] /\ seen \in [Convs -> Numbers] /\ sweep \in Sweeps
      /\ \A c \in Convs : came[c] \in Nat /\ seen[c] \in Nat
      /\ PageInHand /\ Watermark /\ Page \in Nat \ {0}
  BY TypeParts, IntakeAssumption DEF TypeInv, OutsideOK, RowsOK, SweepOK, Numbers
<1>1. CASE UNCHANGED <<came, seen, sweep>>
  BY <1>1, <1>a DEF PageInHand, Watermark
<1>2. ASSUME UNCHANGED <<came, seen>>, sweep'.at \notin {"act", "mark"}
      PROVE  PageInHand' /\ Watermark'
  BY <1>2, <1>a DEF PageInHand, Watermark
<1>3. ASSUME NEW c \in Convs, Writes(c)
      PROVE  PageInHand' /\ Watermark'
  <2>1. UNCHANGED <<seen, sweep>> /\ came[c] - seen[c] < Page /\ came' = [came EXCEPT ![c] = @ + 1]
    BY <1>3 DEF Writes, rows
  <2>2. Watermark'
    BY <1>a, <2>1 DEF Watermark
  <2>3. \A m \in Msgs : m[1] \in Convs /\ m[2] \in Nat
    BY KeyFacts, IntakeAssumption DEF Ins
  <2>4. PageInHand'
    BY <1>a, <2>1, <2>3 DEF PageInHand
  <2> QED
    BY <2>2, <2>4
<1>4. CASE sweep' = SweepRest /\ UNCHANGED <<came, seen>>
  BY <1>2, <1>4 DEF SweepRest
<1>5. ASSUME NEW phase \in SweepAt, NEW k, SweepGo(phase, k)
      PROVE  sweep'.at = phase /\ sweep'.key = k
  BY <1>5, <1>a DEF SweepGo, Sweeps
<1>6. ASSUME NEW c \in Convs, Reads(c)
      PROVE  PageInHand' /\ Watermark'
  <2>1. UNCHANGED came
    BY <1>6 DEF Reads, Sweeping, outside
  <2>2. CASE came[c] = seen[c] /\ Marks(c, seen[c]) /\ sweep' = [sweep EXCEPT !.todo = @ \ {c}]
    <3>1. sweep'.at = "sweep"
      BY <1>6, <1>a, <2>2 DEF Reads, Sweeps
    <3>2. UNCHANGED seen
      BY <2>2, <1>a DEF Marks
    <3> QED
      BY <1>2, <2>1, <3>1, <3>2
  <2>3. CASE came[c] # seen[c] /\ SweepGo("act", <<c, came[c]>>) /\ UNCHANGED seen
    <3>1. sweep'.at = "act" /\ sweep'.key = <<c, came[c]>>
      BY <1>5, <2>3 DEF SweepAt
    <3>2. seen[c] < came[c] /\ came[c] \in Ins
      <4>1. came[c] \in 0..MaxIn /\ seen[c] \in Nat /\ seen[c] <= came[c] /\ MaxIn \in Nat
        BY <1>a, IntakeAssumption DEF Watermark, Numbers
      <4> QED
        BY <4>1, <2>3 DEF Ins
    <3>3. <<c, came[c]>> \in Msgs
      BY <3>2 DEF Msgs
    <3> QED
      BY <1>a, <2>1, <2>3, <3>1, <3>2, <3>3 DEF PageInHand, Watermark
  <2> QED
    BY <1>6, <2>2, <2>3 DEF Reads
<1>7. CASE Acts
  <2>1. sweep'.at = "mark" /\ sweep'.key = sweep.key /\ UNCHANGED <<came, seen>> /\ sweep.at = "act"
    BY <1>5, <1>7 DEF Acts, SweepAt, Sweeping, outside
  <2> QED
    BY <1>a, <2>1 DEF PageInHand, Watermark
<1>8. CASE MarksSeen
  <2> DEFINE c == sweep.key[1]
             i == sweep.key[2]
  <2>1. sweep'.at = "sweep" /\ UNCHANGED came
    BY <1>8, <1>a DEF MarksSeen, Sweeps, SweepAt, Sweeping, outside
  <2>2. c \in Convs /\ i \in Nat /\ seen[c] < i /\ i <= came[c]
    BY <1>8, <1>a, KeyFacts, IntakeAssumption DEF MarksSeen, PageInHand, Ins
  <2>3. seen' = [seen EXCEPT ![c] = i]
    BY <1>8 DEF MarksSeen, Marks
  <2> HIDE DEF c, i
  <2>4. Watermark'
    BY <1>a, <2>1, <2>2, <2>3 DEF Watermark
  <2> QED
    BY <2>1, <2>4 DEF PageInHand
<1>9. CASE EnqueueFails
  <2>1. sweep'.at = "sweep" /\ UNCHANGED <<came, seen>>
    BY <1>9, <1>a DEF EnqueueFails, Sweeps, SweepAt, outside
  <2> QED
    BY <1>2, <2>1
<1>10. ASSUME NEW c \in Convs, ReadFails(c)
       PROVE  PageInHand' /\ Watermark'
  <2>1. sweep'.at = "sweep" /\ UNCHANGED <<came, seen>>
    BY <1>10, <1>a DEF ReadFails, Sweeps, outside, rows
  <2> QED
    BY <1>2, <2>1
<1>11. CASE Lists
  <2>1. sweep'.at = "sweep" /\ UNCHANGED <<came, seen>>
    BY <1>11, <1>a DEF Lists, Sweeps, SweepAt, Sweeping, outside, rows
  <2> QED
    BY <1>2, <2>1
<1>12. CASE SweepEnds \/ AnswerSettles \/ Dies
  BY <1>4, <1>12 DEF SweepEnds, AnswerSettles, Dies, Sweeping, outside, rows
<1>13. CASE (\E c \in Convs, i \in Ins : Asks(c, i)) \/ Claims
  <2>1. UNCHANGED <<came, seen>>
    BY <1>13 DEF Asks, Claims, Sweeping, outside, rows
  <2>2. sweep' = SweepRest \/ \E phase \in SweepAt \ {"act", "mark"} : \E k : SweepGo(phase, k)
    BY <1>13 DEF Asks, Claims, SweepAt
  <2> QED
    BY <1>2, <1>4, <1>5, <2>1, <2>2
<1>14. CASE WorkStep
  BY <1>1, <1>14 DEF WorkStep, Takes, StopMutes, StopEnds, Declines, Defers, GoesOn, ClaimsOpener, OpenerTaken,
       OpenerNotTaken, OpenerSettles, OpenerRefused, Working, outside, rows
<1>15. CASE HourPasses \/ Halts \/ Resumes \/ Reap \/ HandlerRaises \/ UNCHANGED vars
            \/ (\E c \in Convs : WindowCloses(c)) \/ (\E a \in Machines : SayStep(a))
  BY <1>1, <1>15 DEF HourPasses, Halts, Resumes, Reap, Reaps, HandlerRaises, Working, vars, WindowCloses, SayStep,
        MachineLooks, MachineClaims, MachineSettles, Saying, outside, rows
<1> QED
  BY <1>3, <1>6, <1>7, <1>8, <1>9, <1>10, <1>11, <1>12, <1>13, <1>14, <1>15 DEF Next, SweepStep

(* Types, with the job and the page that are in hand at each step of the worker *)
(* and of a sweep, and the order of the watermark (poller.py sweep).          *)
THEOREM TypeInvHolds == Spec => []TypeInv
<1>1. Init => TypeInv
  <2> SUFFICES ASSUME Init PROVE TypeInv
    OBVIOUS
  <2>1. 0 \in Numbers
    BY IntakeAssumption DEF Numbers
  <2>2. OutsideOK
    BY <2>1 DEF Init, OutsideOK
  <2>3. RowsOK
    BY <2>1 DEF Init, RowsOK, JobAt, Status
  <2>4. SweepOK /\ WorkerOK /\ MachinesOK
    BY <2>1 DEF Init, SweepOK, Sweeps, SweepAt, SweepRest, WorkerOK, WorkRest, WorkAt, MachinesOK, SayAt
  <2>5. JobInHand /\ LineInHand /\ PageInHand
    BY DEF Init, JobInHand, LineInHand, PageInHand, SweepRest, WorkRest
  <2>6. Watermark
    BY IntakeAssumption DEF Init, Watermark
  <2> QED
    BY <2>2, <2>3, <2>4, <2>5, <2>6, TypeParts DEF TypeInv
<1>2. TypeInv /\ [Next]_vars => TypeInv'
  BY TypePartsNext, OutsideInductive, RowsInductive, SweepInductive, WorkerInductive, MachinesInductive,
     PageInductive DEF TypeInv
<1> QED
  BY <1>1, <1>2, PTL DEF Spec

(* Type correctness.                                                          *)
THEOREM IntakeTypeCorrect == Spec => []TypeOK
BY TypeInvHolds, PTL DEF TypeInv
-----------------------------------------------------------------------------
(* A conversation's STOP is honoured, or will be by a job in the queue, or    *)
(* had a job that failed for good.                                            *)
Sought == {"queued", "running", "failed"}
Handled(c) ==
  c \in muted \/ \E n \in stops : n[1] = c /\ job[n] \in Sought

(* The job of a STOP ends by honouring it or fails; jobs are of messages that *)
(* came; and what the sweep is about to mark is handled.                      *)
JobsOK ==
  /\ \A m \in stops : m[2] <= came[m[1]]
  /\ \A m \in Msgs : job[m] # "none" => m[2] <= came[m[1]]
  /\ \A m \in stops : job[m] \in {"none"} \union Sought \/ (job[m] = "done" /\ m[1] \in muted)
  /\ worker.at # "rest" => job[worker.key] = "running"
  /\ worker.at \notin {"rest", "start", "muted"} => worker.key \notin stops
  /\ worker.at = "muted" => worker.key[1] \in muted
MarkedHandled ==
  /\ \A m \in stops : m[2] <= seen[m[1]] => Handled(m[1])
  /\ sweep.at = "mark" =>
       \A m \in stops : m[1] = sweep.key[1] /\ m[2] <= sweep.key[2] => Handled(m[1])
StopInv == JobsOK /\ MarkedHandled

LEMMA JobsInductive ==
  ASSUME TypeInv, StopInv, [Next]_vars
  PROVE  JobsOK'
<1>a. /\ came \in [Convs -> Numbers] /\ \A c \in Convs : came[c] \in Nat
      /\ job \in [Msgs -> JobAt] /\ stops \subseteq Msgs
      /\ worker.at # "rest" => worker.key \in Msgs
      /\ JobsOK
  BY TypeParts, IntakeAssumption DEF TypeInv, OutsideOK, RowsOK, Numbers, JobInHand, StopInv
<1>b. \A m \in Msgs : m[1] \in Convs /\ m[2] \in Nat /\ m = <<m[1], m[2]>>
  BY KeyFacts, IntakeAssumption DEF Ins
<1>1. CASE UNCHANGED <<came, stops, job, muted, worker>>
  BY <1>1, <1>a DEF JobsOK
<1>2. ASSUME NEW c \in Convs, Writes(c)
      PROVE  JobsOK'
  <2>1. UNCHANGED <<job, muted, worker>> /\ came' = [came EXCEPT ![c] = @ + 1]
        /\ stops' \subseteq stops \union {<<c, came[c] + 1>>}
    BY <1>2 DEF Writes, rows
  <2>2. <<c, came[c] + 1>> \in Msgs
    BY <1>2, <1>a, IntakeAssumption DEF Writes, Msgs, Ins
  <2>3. \A d \in Convs : came'[d] = (IF d = c THEN came[c] + 1 ELSE came[d]) /\ came[d] <= came'[d]
    BY <2>1, <1>a
  <2>4. job[<<c, came[c] + 1>>] = "none"
    <3>1. ~(came[c] + 1 <= came[c])
      BY <1>a
    <3> QED
      BY <2>2, <3>1, <1>a DEF JobsOK
  <2>5. worker.at # "rest" => worker.key # <<c, came[c] + 1>>
    BY <2>4, <1>a DEF JobsOK
  <2>6. \A m \in Msgs : m[2] <= came[m[1]] => m[2] <= came'[m[1]]
    BY <2>3, <1>a, <1>b
  <2>7. /\ \A m \in stops' : m[2] <= came'[m[1]]
        /\ \A m \in Msgs : job'[m] # "none" => m[2] <= came'[m[1]]
    BY <2>1, <2>2, <2>3, <2>6, <1>a DEF JobsOK
  <2>8. \A m \in stops' : job'[m] \in {"none"} \union Sought \/ (job'[m] = "done" /\ m[1] \in muted')
    BY <2>1, <2>4, <1>a DEF JobsOK
  <2>9. /\ worker'.at # "rest" => job'[worker'.key] = "running"
        /\ worker'.at \notin {"rest", "start", "muted"} => worker'.key \notin stops'
        /\ worker'.at = "muted" => worker'.key[1] \in muted'
    BY <2>1, <2>5, <1>a DEF JobsOK
  <2> QED
    BY <2>7, <2>8, <2>9 DEF JobsOK
<1>3. ASSUME NEW status \in {"done", "later", "queued", "failed"}, JobEnds(status), worker.at # "rest",
             UNCHANGED <<came, stops>>, muted \subseteq muted',
             worker.key \in stops => status \in Sought \/ (status = "done" /\ worker.key[1] \in muted')
      PROVE  JobsOK'
  <2>1. worker.key \in Msgs /\ job' = [job EXCEPT ![worker.key] = status] /\ worker'.at = "rest"
    BY <1>3, <1>a DEF JobEnds, WorkRest
  <2>2. worker.key[2] <= came[worker.key[1]]
    BY <1>3, <2>1, <1>a DEF JobsOK
  <2>3. /\ \A m \in stops' : m[2] <= came'[m[1]]
        /\ \A m \in Msgs : job'[m] # "none" => m[2] <= came'[m[1]]
    BY <1>3, <1>a, <2>1, <2>2 DEF JobsOK
  <2>4. \A m \in stops : job'[m] \in {"none"} \union Sought \/ (job'[m] = "done" /\ m[1] \in muted')
    <3> SUFFICES ASSUME NEW m \in stops
                 PROVE  job'[m] \in {"none"} \union Sought \/ (job'[m] = "done" /\ m[1] \in muted')
      OBVIOUS
    <3>1. CASE m = worker.key
      <4>1. job'[m] = status
        BY <3>1, <2>1, <1>a
      <4> QED
        BY <1>3, <3>1, <4>1
    <3>2. CASE m # worker.key
      BY <1>3, <1>a, <2>1, <3>2 DEF JobsOK
    <3> QED
      BY <3>1, <3>2
  <2> QED
    BY <1>3, <2>1, <2>3, <2>4 DEF JobsOK
<1>4. ASSUME NEW phase \in WorkAt, worker.at \notin {"rest", "muted"}, WorkGo(phase, worker.key),
             worker.at = "start" => worker.key \notin stops, phase # "muted",
             UNCHANGED <<came, stops, job, muted>>
      PROVE  JobsOK'
  <2>1. worker'.key = worker.key /\ worker'.at = phase
    BY <1>4 DEF WorkGo
  <2> QED
    BY <1>4, <1>a, <2>1 DEF JobsOK
<1>5. ASSUME NEW m \in Msgs, Takes(m)
      PROVE  JobsOK'
  <2>1. /\ job[m] = "queued" /\ job' = [job EXCEPT ![m] = "running"]
        /\ worker'.at = "start" /\ worker'.key = m /\ UNCHANGED <<came, stops, muted>>
    BY <1>5 DEF Takes, WorkGo, Working, outside
  <2> QED
    BY <2>1, <1>a DEF JobsOK, Sought
<1>6. CASE StopMutes
  <2>1. /\ worker.at = "start" /\ worker.key[1] \in muted' /\ muted \subseteq muted'
        /\ worker' = [at |-> "muted", key |-> worker.key] /\ UNCHANGED <<came, stops, job>>
    BY <1>6 DEF StopMutes, WorkGo, Working, outside
  <2> QED
    BY <1>a, <2>1 DEF JobsOK
<1>6a. CASE StopEnds
  <2>1. worker.at = "muted" /\ JobEnds("done") /\ UNCHANGED <<came, stops, muted>>
    BY <1>6a DEF StopEnds, Working, outside
  <2>2. worker.key[1] \in muted'
    BY <2>1, <1>a DEF JobsOK
  <2> QED
    BY <1>3, <2>1, <2>2
<1>6b. CASE HandlerRaises
  <2>1. /\ worker.at # "rest" /\ UNCHANGED <<came, stops, muted>>
        /\ \E status \in {"queued", "failed"} : JobEnds(status)
    BY <1>6b DEF HandlerRaises, Retried, Working, outside
  <2> QED
    BY <1>3, <2>1 DEF Sought
<1>7. CASE Declines \/ Defers
  <2>1. /\ worker.at = "start" /\ worker.key \notin stops /\ UNCHANGED <<came, stops, muted>>
        /\ JobEnds("done") \/ JobEnds("later")
    BY <1>7 DEF Declines, Defers, Working, outside
  <2> QED
    BY <1>3, <2>1
<1>8. CASE GoesOn \/ OpenerTaken \/ OpenerNotTaken
  <2>1. /\ worker.at \notin {"rest", "muted"} /\ (worker.at = "start" => worker.key \notin stops)
        /\ UNCHANGED <<came, stops, job, muted>>
        /\ \E phase \in WorkAt \ {"muted"} : WorkGo(phase, worker.key)
    BY <1>8 DEF GoesOn, OpenerTaken, OpenerNotTaken, Working, outside, rows, WorkAt
  <2> QED
    BY <1>4, <2>1
<1>9. CASE ClaimsOpener
  <2>1. worker.at = "claim" /\ UNCHANGED <<came, stops, muted>>
        /\ (JobEnds("done") \/ (WorkGo("call", worker.key) /\ UNCHANGED job))
    BY <1>9 DEF ClaimsOpener, Working, outside
  <2>2. worker.key \notin stops
    BY <2>1, <1>a DEF JobsOK
  <2> QED
    BY <1>3, <1>4, <2>1, <2>2 DEF WorkAt
<1>10. CASE OpenerSettles \/ OpenerRefused
  <2>1. worker.at \in {"ok", "unsure", "refused"} /\ UNCHANGED <<came, stops, muted>>
        /\ \E status \in {"done", "queued", "failed"} : JobEnds(status)
    BY <1>10 DEF OpenerSettles, OpenerRefused, Retried, Working, outside
  <2>2. worker.key \notin stops
    BY <2>1, <1>a DEF JobsOK
  <2> QED
    BY <1>3, <2>1, <2>2
<1>11. CASE Acts
  <2>1. /\ sweep.key \in Msgs /\ sweep.key[2] <= came[sweep.key[1]]
        /\ sweep.key[1] \in Convs /\ sweep.key[2] \in Ins /\ sweep.key[2] \in Nat
    BY <1>11, <1>b, KeyFacts DEF Acts, TypeInv, PageInHand
  <2>2. \A i \in Targets : i \in Ins /\ i \in Nat /\ i <= sweep.key[2]
    BY <2>1, IntakeAssumption DEF Targets, StopsInHand, InHand, Ins
  <2>3. PICK i \in Targets : Enqueue(<<sweep.key[1], i>>) \/ UNCHANGED job
    BY <1>11 DEF Acts
  <2>4. muted \subseteq muted' /\ UNCHANGED <<came, stops, worker>>
    BY <1>11 DEF Acts, Sweeping, outside
  <2> DEFINE m == <<sweep.key[1], i>>
  <2>5. m \in Msgs /\ m[2] <= came[m[1]]
    BY <2>1, <2>2, <2>3, <1>a, KeyFacts
  <2>6. UNCHANGED job \/ (job[m] = "none" /\ job' = [job EXCEPT ![m] = "queued"])
    BY <2>3, <2>5, <1>a DEF Enqueue
  <2> HIDE DEF m
  <2> QED
    BY <2>4, <2>5, <2>6, <1>a DEF JobsOK, Sought
<1>12. CASE HourPasses \/ Dies \/ Reap
  <2>1. /\ UNCHANGED <<came, stops, muted>>
        /\ \A m \in Msgs : job'[m] = job[m] \/ (job[m] \in {"later", "running"} /\ job'[m] \in {"queued", "failed"})
    BY <1>12, <1>a DEF HourPasses, Dies, Reap, Reaps, Retried, outside, rows
  <2>2. \/ worker' = WorkRest
        \/ UNCHANGED worker /\ \A m \in Msgs : m = worker.key /\ job[m] = "running" => job'[m] = "running"
    BY <1>12, <1>a DEF HourPasses, Dies, Reap, Reaps
  <2>3. /\ worker'.at # "rest" => job'[worker'.key] = "running"
        /\ worker'.at \notin {"rest", "start", "muted"} => worker'.key \notin stops'
        /\ worker'.at = "muted" => worker'.key[1] \in muted'
    BY <1>a, <2>1, <2>2 DEF JobsOK, WorkRest
  <2>4. \A m \in stops' : job'[m] \in {"none"} \union Sought \/ (job'[m] = "done" /\ m[1] \in muted')
    BY <1>a, <2>1 DEF JobsOK, Sought
  <2>5. \A m \in Msgs : job'[m] # "none" => m[2] <= came'[m[1]]
    BY <1>a, <2>1 DEF JobsOK
  <2> QED
    BY <1>a, <2>1, <2>3, <2>4, <2>5 DEF JobsOK
<1>13. CASE Lists \/ EnqueueFails \/ MarksSeen \/ SweepEnds \/ Claims \/ AnswerSettles \/ Halts \/ Resumes
            \/ (\E c \in Convs : WindowCloses(c) \/ ReadFails(c) \/ Reads(c))
            \/ (\E c \in Convs, i \in Ins : Asks(c, i)) \/ UNCHANGED vars
            \/ (\E a \in Machines : SayStep(a))
  BY <1>1, <1>13 DEF Lists, EnqueueFails, MarksSeen, SweepEnds, Claims, AnswerSettles, Halts, Resumes,
        WindowCloses, ReadFails, Reads, Asks, Sweeping, outside, rows, vars, SayStep, MachineLooks,
        MachineClaims, MachineSettles, Saying
<1> QED
  BY <1>2, <1>5, <1>6, <1>6a, <1>6b, <1>7, <1>8, <1>9, <1>10, <1>11, <1>12, <1>13 DEF Next, SweepStep, WorkStep

(* No step undoes what has been seen to.                                      *)
LEMMA HandledStays ==
  ASSUME TypeInv, StopInv, [Next]_vars, NEW c \in Convs, Handled(c)
  PROVE  Handled(c)'
<1>a. /\ job \in [Msgs -> JobAt] /\ stops \subseteq Msgs
      /\ worker.at # "rest" => worker.key \in Msgs
      /\ worker.at \notin {"rest", "start", "muted"} => worker.key \notin stops
      /\ worker.at = "muted" => worker.key[1] \in muted
  BY TypeParts DEF TypeInv, OutsideOK, RowsOK, JobInHand, StopInv, JobsOK
<1>1. ASSUME stops \subseteq stops', muted \subseteq muted',
             \A n \in stops : job[n] \in Sought => job'[n] \in Sought \/ n[1] \in muted'
      PROVE  Handled(c)'
  BY <1>1 DEF Handled
<1>2. ASSUME stops \subseteq stops', muted \subseteq muted', UNCHANGED job
      PROVE  Handled(c)'
  BY <1>1, <1>2
<1>3. ASSUME UNCHANGED stops, muted \subseteq muted', NEW status, JobEnds(status), worker.at # "rest",
             worker.key \in stops => status \in Sought \/ worker.key[1] \in muted'
      PROVE  Handled(c)'
  <2>1. \A n \in stops : job'[n] = job[n] \/ (n = worker.key /\ job'[n] = status)
    BY <1>3, <1>a DEF JobEnds
  <2> QED
    BY <1>1, <1>3, <2>1
<1>4. CASE StopMutes
  BY <1>2, <1>4 DEF StopMutes, Working, outside
<1>4a. CASE StopEnds
  BY <1>3, <1>4a, <1>a DEF StopEnds, Working, outside
<1>4b. CASE HandlerRaises
  <2>1. worker.at # "rest" /\ UNCHANGED <<stops, muted>> /\ \E status \in Sought : JobEnds(status)
    BY <1>4b DEF HandlerRaises, Retried, Sought, Working, outside
  <2> QED
    BY <1>3, <2>1
<1>5. CASE Declines \/ Defers
  BY <1>3, <1>5 DEF Declines, Defers, Working, outside
<1>6. CASE ClaimsOpener
  <2>1. /\ worker.key \notin stops /\ worker.at # "rest" /\ UNCHANGED <<stops, muted>>
        /\ JobEnds("done") \/ UNCHANGED job
    BY <1>6, <1>a DEF ClaimsOpener, Working, outside
  <2> QED
    BY <1>2, <1>3, <2>1
<1>7. CASE OpenerSettles \/ OpenerRefused
  <2>1. /\ worker.key \notin stops /\ worker.at # "rest" /\ UNCHANGED <<stops, muted>>
        /\ \E status : JobEnds(status)
    BY <1>7, <1>a DEF OpenerSettles, OpenerRefused, Working, outside
  <2> QED
    BY <1>3, <2>1
<1>8. CASE (\E m \in Msgs : Takes(m)) \/ HourPasses \/ Reap
  <2>1. /\ UNCHANGED <<stops, muted>>
        /\ \A n \in stops : job'[n] = job[n] \/ job'[n] \in Sought
    BY <1>8, <1>a DEF Takes, HourPasses, Reap, Reaps, Retried, Sought, Working, outside
  <2> QED
    BY <1>1, <2>1
<1>9. CASE Acts
  <2>1. PICK i \in Targets : Enqueue(<<sweep.key[1], i>>) \/ UNCHANGED job
    BY <1>9 DEF Acts
  <2>2. \A n \in stops : job[n] # "none" => job'[n] = job[n]
    BY <2>1, <1>a DEF Enqueue
  <2>3. UNCHANGED stops /\ muted \subseteq muted'
    BY <1>9 DEF Acts, Sweeping, outside
  <2>4. \A n \in stops : job[n] \in Sought => job'[n] \in Sought
    BY <2>2 DEF Sought
  <2> QED
    BY <1>1, <2>3, <2>4
<1>10. CASE (\E d \in Convs : Writes(d) \/ WindowCloses(d) \/ ReadFails(d) \/ Reads(d))
            \/ GoesOn \/ OpenerTaken \/ OpenerNotTaken \/ Dies \/ Halts \/ Resumes
            \/ (\E a \in Machines : SayStep(a))
  BY <1>2, <1>10 DEF Writes, WindowCloses, ReadFails, Reads, GoesOn, OpenerTaken, OpenerNotTaken, Dies, Halts,
        Resumes, SayStep, MachineLooks, MachineClaims, MachineSettles, Saying, Sweeping, Working, outside, rows
<1>11. CASE Lists \/ EnqueueFails \/ MarksSeen \/ SweepEnds \/ Claims \/ AnswerSettles
            \/ (\E d \in Convs, i \in Ins : Asks(d, i)) \/ UNCHANGED vars
  BY <1>2, <1>11 DEF Lists, EnqueueFails, MarksSeen, SweepEnds, Claims, AnswerSettles, Asks,
                     Sweeping, outside, rows, vars
<1> QED
  BY <1>4, <1>4a, <1>4b, <1>5, <1>6, <1>7, <1>8, <1>9, <1>10, <1>11 DEF Next, SweepStep, WorkStep

(* Acting on a page sees to every STOP up to its newest message: those before *)
(* the watermark were seen to, and the others are on the page.                *)
LEMMA ActsHandles ==
  ASSUME TypeInv, StopInv, Acts, [Next]_vars, NEW m \in stops, m[1] = sweep.key[1], m[2] <= sweep.key[2]
  PROVE  Handled(m[1])'
<1> DEFINE c == sweep.key[1]
           k == sweep.key[2]
<1>a. /\ stops \subseteq Msgs /\ job \in [Msgs -> JobAt] /\ seen \in [Convs -> Numbers]
      /\ came \in [Convs -> Numbers] /\ Page \in Nat \ {0}
      /\ sweep.key \in Msgs /\ k <= came[c]
      /\ came[c] - seen[c] <= Page
  BY TypeParts, KeyFacts, IntakeAssumption
     DEF TypeInv, OutsideOK, RowsOK, Acts, PageInHand, Watermark
<1>b. /\ m \in Msgs /\ c \in Convs /\ k \in Ins /\ m[2] \in Ins /\ m = <<c, m[2]>>
      /\ k \in Nat /\ m[2] \in Nat /\ came[c] \in Nat /\ seen[c] \in Nat
  BY <1>a, KeyFacts, IntakeAssumption DEF Ins, Numbers
<1>1. CASE m[2] <= seen[m[1]]
  BY <1>1, <1>b, HandledStays DEF StopInv, MarkedHandled
<1>2. CASE seen[c] < m[2]
  <2>1. m[2] \in InHand
    BY <1>2, <1>a, <1>b DEF InHand
  <2>2. m[2] \in StopsInHand
    BY <2>1, <1>b DEF StopsInHand
  <2>3. Targets = StopsInHand /\ StopsInHand # {}
    BY <2>2 DEF Targets
  <2>4. PICK i \in StopsInHand :
          IF Fresh(c, i) THEN Enqueue(<<c, i>>) /\ UNCHANGED muted ELSE muted' = muted \union {c}
    BY <2>3 DEF Acts
  <2>5. <<c, i>> \in stops /\ <<c, i>> \in Msgs /\ UNCHANGED stops /\ <<c, i>>[1] = c
    BY <2>4, <1>a, <1>b DEF StopsInHand, Acts, Sweeping, outside
  <2>6. CASE muted' = muted \union {c}
    BY <2>6, <1>b DEF Handled
  <2>7. CASE Enqueue(<<c, i>>) /\ UNCHANGED muted
    <3> DEFINE n == <<c, i>>
    <3>1. job'[n] = IF job[n] = "none" THEN "queued" ELSE job[n]
      BY <2>5, <2>7, <1>a DEF Enqueue
    <3>2. job[n] \in {"none"} \union Sought \/ n[1] \in muted
      BY <2>5 DEF StopInv, JobsOK
    <3>3. job'[n] \in Sought \/ c \in muted'
      BY <3>1, <3>2, <2>5, <2>7 DEF Sought
    <3>4. n \in stops' /\ n[1] = c /\ m[1] = c
      BY <2>5
    <3> HIDE DEF n, c
    <3> QED
      BY <3>3, <3>4 DEF Handled
  <2> QED
    BY <2>4, <2>6, <2>7
<1> QED
  BY <1>1, <1>2, <1>b

LEMMA MarkedInductive ==
  ASSUME TypeInv, StopInv, [Next]_vars
  PROVE  MarkedHandled'
<1>a. /\ came \in [Convs -> Numbers] /\ seen \in [Convs -> Numbers] /\ sweep \in Sweeps
      /\ stops \subseteq Msgs
      /\ \A c \in Convs : came[c] \in Nat /\ seen[c] \in Nat /\ seen[c] <= came[c]
  BY TypeParts, IntakeAssumption DEF TypeInv, OutsideOK, RowsOK, SweepOK, Numbers, Watermark
<1>b. \A m \in Msgs : m[1] \in Convs /\ m[2] \in Nat
  BY KeyFacts, IntakeAssumption DEF Ins
<1>c. \A m \in stops : Handled(m[1]) => Handled(m[1])'
  BY <1>a, <1>b, HandledStays
<1>1. ASSUME UNCHANGED <<stops, seen>>, sweep'.at # "mark" \/ UNCHANGED sweep
      PROVE  MarkedHandled'
  BY <1>1, <1>c DEF StopInv, MarkedHandled
<1>2. CASE \E c \in Convs : Writes(c)
  <2>1. PICK c \in Convs :
          /\ UNCHANGED <<seen, sweep>> /\ stops' \subseteq stops \union {<<c, came[c] + 1>>}
    BY <1>2 DEF Writes, rows
  <2> DEFINE n == <<c, came[c] + 1>>
  <2>2. ~(n[2] <= seen[n[1]])
    BY <1>a
  <2>3. sweep.at = "mark" => ~(n[1] = sweep.key[1] /\ n[2] <= sweep.key[2])
    <3> SUFFICES ASSUME sweep.at = "mark", c = sweep.key[1]
                 PROVE  ~(came[c] + 1 <= sweep.key[2])
      OBVIOUS
    <3>1. sweep.key[2] <= came[c] /\ sweep.key[2] \in Nat
      BY <1>b DEF TypeInv, PageInHand
    <3> QED
      BY <3>1, <1>a
  <2> HIDE DEF n
  <2>4. stops' \subseteq stops \union {n}
    BY <2>1 DEF n
  <2> QED
    BY <2>1, <2>2, <2>3, <2>4, <1>c DEF StopInv, MarkedHandled
<1>3. CASE Acts
  <2>1. UNCHANGED <<stops, seen>> /\ sweep'.key = sweep.key
    BY <1>3, <1>a DEF Acts, Sweeping, outside, SweepGo, Sweeps
  <2>2. \A m \in stops : m[1] = sweep.key[1] /\ m[2] <= sweep.key[2] => Handled(m[1])'
    BY <1>3, ActsHandles
  <2> QED
    BY <2>1, <2>2, <1>c DEF StopInv, MarkedHandled
<1>4. CASE MarksSeen
  <2>1. /\ UNCHANGED stops /\ sweep'.at = "sweep" /\ sweep.at = "mark"
        /\ seen' = [seen EXCEPT ![sweep.key[1]] = sweep.key[2]]
    BY <1>4, <1>a DEF MarksSeen, Marks, Sweeping, outside, Sweeps, SweepAt
  <2>2. \A m \in stops : m[2] <= seen'[m[1]] =>
          m[2] <= seen[m[1]] \/ (m[1] = sweep.key[1] /\ m[2] <= sweep.key[2])
    BY <2>1, <1>a, <1>b
  <2> QED
    BY <2>1, <2>2, <1>c DEF StopInv, MarkedHandled
<1>5. CASE \E c \in Convs : Reads(c)
  <2>1. PICK c \in Convs : Reads(c)
    BY <1>5
  <2>2. UNCHANGED <<stops, seen>>
    BY <2>1, <1>a DEF Reads, Marks, Sweeping, outside
  <2>3. sweep'.at # "mark"
    BY <2>1, <1>a DEF Reads, SweepGo, Sweeps
  <2> QED
    BY <1>1, <2>2, <2>3
<1>6. CASE EnqueueFails \/ Lists \/ SweepEnds \/ AnswerSettles \/ Dies \/ (\E c \in Convs : ReadFails(c))
  <2>1. UNCHANGED <<stops, seen>>
    BY <1>6 DEF EnqueueFails, Lists, SweepEnds, AnswerSettles, Dies, ReadFails, Sweeping, outside, rows
  <2>2. sweep'.at # "mark"
    <3>1. CASE sweep' = SweepRest
      BY <3>1 DEF SweepRest
    <3>2. CASE EnqueueFails
      BY <3>2, <1>a DEF EnqueueFails, Sweeps
    <3>3. CASE Lists
      BY <3>3, <1>a DEF Lists, Sweeps
    <3>4. CASE \E c \in Convs : ReadFails(c)
      BY <3>4, <1>a DEF ReadFails, Sweeps
    <3> QED
      BY <1>6, <3>1, <3>2, <3>3, <3>4 DEF SweepEnds, AnswerSettles, Dies
  <2> QED
    BY <1>1, <2>1, <2>2
<1>7. CASE Claims \/ (\E c \in Convs, i \in Ins : Asks(c, i))
  <2>1. UNCHANGED <<stops, seen>>
    BY <1>7 DEF Claims, Asks, Sweeping, outside, rows
  <2>2. sweep'.at # "mark"
    <3>1. CASE sweep' = SweepRest
      BY <3>1 DEF SweepRest
    <3>2. ASSUME NEW phase \in SweepAt \ {"mark"}, NEW k, SweepGo(phase, k)
          PROVE  sweep'.at # "mark"
      BY <3>2, <1>a DEF SweepGo, Sweeps
    <3> QED
      BY <1>7, <3>1, <3>2 DEF Claims, Asks, SweepAt
  <2> QED
    BY <1>1, <2>1, <2>2
<1>8. CASE WorkStep
  BY <1>1, <1>8 DEF WorkStep, Takes, StopMutes, StopEnds, Declines, Defers, GoesOn, ClaimsOpener, OpenerTaken,
       OpenerNotTaken, OpenerSettles, OpenerRefused, Working, outside, rows
<1>9. CASE HourPasses \/ Halts \/ Resumes \/ Reap \/ HandlerRaises \/ UNCHANGED vars
           \/ (\E c \in Convs : WindowCloses(c)) \/ (\E a \in Machines : SayStep(a))
  BY <1>1, <1>9 DEF HourPasses, Halts, Resumes, Reap, Reaps, HandlerRaises, Working, vars, WindowCloses, SayStep,
        MachineLooks, MachineClaims, MachineSettles, Saying, outside, rows
<1> QED
  BY <1>2, <1>3, <1>4, <1>5, <1>6, <1>7, <1>8, <1>9 DEF Next, SweepStep

(* The job of a STOP ends by honouring it or fails for good, and a STOP at or  *)
(* behind the watermark is honoured, has its job, or is of a conversation one  *)
(* of whose STOPs failed (poller.py _act, handler.py handle).                  *)
THEOREM StopInvHolds == Spec => []StopInv
<1>1. Init => StopInv
  BY IntakeAssumption DEF Init, StopInv, JobsOK, MarkedHandled, SweepRest, WorkRest
<1>2. TypeInv /\ StopInv /\ [Next]_vars => StopInv'
  BY JobsInductive, MarkedInductive DEF StopInv
<1> QED
  BY <1>1, <1>2, TypeInvHolds, PTL DEF Spec

(* No STOP is left behind the watermark with nothing made of it, at whatever   *)
(* step of a sweep or of a job the process dies, the handler raises or the box *)
(* is stopped: the person is muted, a job of theirs is queued or running, or   *)
(* one was and failed for good (poller.py _act, handler.py handle).            *)
THEOREM NoStopLost == Spec => []StopKept
<1>1. TypeInv /\ StopInv => StopKept
  BY DEF StopInv, MarkedHandled, Handled, StopKept, Sought, TakenUp, GivenUp
<1> QED
  BY <1>1, TypeInvHolds, StopInvHolds, PTL
-----------------------------------------------------------------------------
(* The line of STOPs: what most steps do to it is nothing.                    *)
LEMMA LineQuiet ==
  ASSUME UNCHANGED <<stops, muted, seen>>,
         \A m \in stops : /\ (job'[m] \in {"queued", "running"}) = (job[m] \in {"queued", "running"})
                          /\ (job'[m] = "failed") = (job[m] = "failed")
  PROVE  UNCHANGED Line!lineVars
<1>1. TakenUp' = TakenUp
  BY DEF TakenUp
<1>2. GivenUp' = GivenUp
  BY DEF GivenUp
<1> QED
  BY <1>1, <1>2 DEF Line!lineVars

LEMMA LineAlone ==
  ASSUME TypeInv,
         \/ (\E c \in Convs : WindowCloses(c) \/ ReadFails(c) \/ Reads(c)) \/ UNCHANGED vars
         \/ EnqueueFails \/ Lists \/ SweepEnds \/ Claims \/ AnswerSettles
         \/ Halts \/ Resumes \/ Dies \/ (\E a \in Machines : SayStep(a))
         \/ (\E c \in Convs, i \in Ins : Asks(c, i))
         \/ GoesOn \/ OpenerTaken \/ OpenerNotTaken
  PROVE  UNCHANGED Line!lineVars
<1>a. seen \in [Convs -> Numbers]
  BY TypeParts DEF TypeInv, RowsOK
<1>1. UNCHANGED <<stops, muted, seen, job>>
  BY <1>a DEF WindowCloses, ReadFails, Reads, Marks, vars, EnqueueFails, Lists, SweepEnds, Claims,
              AnswerSettles, Halts, Resumes, Dies, SayStep, MachineLooks, MachineClaims, MachineSettles,
              Asks, GoesOn, OpenerTaken, OpenerNotTaken, Sweeping, Working, Saying, outside, rows
<1> QED
  BY <1>1, LineQuiet

(* A job in hand that is not a STOP ends as it may.                           *)
LEMMA OtherJobEnds ==
  ASSUME TypeInv, NEW status, worker.at # "rest", worker.key \notin stops,
         JobEnds(status) \/ UNCHANGED job, UNCHANGED <<stops, muted, seen>>
  PROVE  UNCHANGED Line!lineVars
<1>1. job \in [Msgs -> JobAt] /\ worker.key \in Msgs /\ stops \subseteq Msgs
  BY TypeParts DEF TypeInv, RowsOK, OutsideOK, JobInHand
<1>2. \A m \in stops : job'[m] = job[m]
  BY <1>1 DEF JobEnds
<1> QED
  BY <1>2, LineQuiet

(* A running job is put back in the queue, or fails: nothing of it is seen in  *)
(* the line, or a STOP is given up.                                            *)
LEMMA JobLeftOnLine ==
  ASSUME TypeInv, NEW m \in Msgs, job[m] = "running", NEW status \in {"queued", "failed"},
         job' = [job EXCEPT ![m] = status], UNCHANGED <<stops, muted, seen>>
  PROVE  [Line!Next]_(Line!lineVars)
<1>a. job \in [Msgs -> JobAt] /\ stops \subseteq Msgs
  BY TypeParts DEF TypeInv, RowsOK, OutsideOK
<1>b. \A n \in Msgs : job'[n] = IF n = m THEN status ELSE job[n]
  BY <1>a
<1>1. CASE status = "queued" \/ m \notin stops
  BY <1>a, <1>b, <1>1, LineQuiet
<1>2. CASE status = "failed" /\ m \in stops
  <2>1. PICK c \in Convs, i \in Ins : m = <<c, i>>
    BY KeyFacts
  <2>2. m \in TakenUp /\ TakenUp' = TakenUp \ {m}
    BY <1>a, <1>b, <1>2 DEF TakenUp
  <2>3. GivenUp' = GivenUp \union {m}
    BY <1>a, <1>b, <1>2 DEF GivenUp
  <2>4. Line!GiveUp(c, i)
    BY <2>1, <2>2, <2>3 DEF Line!GiveUp
  <2> QED
    BY <2>4 DEF Line!Next
<1> QED
  BY <1>1, <1>2

LEMMA WritesOnLine ==
  ASSUME TypeInv, StopInv, NEW c \in Convs, Writes(c)
  PROVE  [Line!Next]_(Line!lineVars)
<1> DEFINE i == came[c] + 1
           n == <<c, i>>
<1>1. /\ came[c] \in Nat /\ seen[c] \in Nat /\ seen[c] <= came[c] /\ stops \subseteq Msgs
      /\ MaxIn \in Nat /\ UNCHANGED <<job, muted, seen>>
  BY TypeParts, IntakeAssumption DEF TypeInv, OutsideOK, RowsOK, Numbers, Watermark, Writes, rows
<1>2. i \in Ins /\ n \in Msgs /\ ~(i <= came[c]) /\ i > seen[c]
  BY <1>1 DEF Writes, Ins, Msgs
<1>3. n \notin stops /\ job[n] = "none"
  BY <1>1, <1>2 DEF StopInv, JobsOK
<1>4. CASE stops' = stops
  BY <1>1, <1>4, LineQuiet
<1>5. CASE stops' = stops \union {n}
  <2>1. TakenUp' = TakenUp /\ GivenUp' = GivenUp
    <3> HIDE DEF n
    <3> QED
      BY <1>1, <1>3, <1>5 DEF TakenUp, GivenUp
  <2>2. Line!Say(c, i)
    BY <1>1, <1>2, <1>3, <1>5, <2>1 DEF Line!Say
  <2> QED
    BY <1>2, <2>2 DEF Line!Next
<1> QED
  BY <1>4, <1>5 DEF Writes

(* A STOP in the page is taken up, or the conversation muted at once.         *)
LEMMA ActsOnLine ==
  ASSUME TypeInv, StopInv, Acts
  PROVE  [Line!Next]_(Line!lineVars)
<1>a. PICK c \in Convs : c = sweep.key[1]
  BY KeyFacts DEF TypeInv, PageInHand, Acts
<1>b. /\ stops \subseteq Msgs /\ job \in [Msgs -> JobAt] /\ UNCHANGED <<stops, seen>>
      /\ sweep.key \in Msgs /\ sweep.key = <<c, sweep.key[2]>> /\ sweep.key[2] \in Ins
      /\ StopsInHand \subseteq Ins /\ Page \in Nat \ {0} /\ \A j \in Ins : j \in Nat
  BY <1>a, TypeParts, KeyFacts, IntakeAssumption
     DEF TypeInv, OutsideOK, RowsOK, PageInHand, Acts, Sweeping, outside, StopsInHand, InHand, Ins
<1>1. PICK i \in Targets :
        IF Fresh(c, i) THEN Enqueue(<<c, i>>) /\ UNCHANGED muted
        ELSE muted' = (IF StopsInHand # {} THEN muted \union {c} ELSE muted) /\ UNCHANGED job
  BY <1>a DEF Acts
<1>2. i \in Ins /\ <<c, i>> \in Msgs
  BY <1>b, KeyFacts DEF Targets
<1> DEFINE n == <<c, i>>
<1>3. CASE StopsInHand = {}
  <2>1. n \notin stops
    <3>1. sweep.key[2] \in InHand
      BY <1>b DEF InHand
    <3>2. i = sweep.key[2]
      BY <1>3 DEF Targets
    <3> QED
      BY <1>3, <1>a, <3>1, <3>2 DEF StopsInHand
  <2>2. \A m \in stops : job'[m] = job[m]
    <3> HIDE DEF n
    <3>1. UNCHANGED job \/ Enqueue(n)
      BY <1>1 DEF n
    <3> QED
      BY <1>b, <2>1, <3>1 DEF Enqueue
  <2>3. UNCHANGED muted
    BY <1>1, <1>3
  <2> QED
    BY <1>b, <2>2, <2>3, LineQuiet
<1>4. CASE StopsInHand # {}
  <2>1. n \in stops
    BY <1>4, <1>a DEF Targets, StopsInHand
  <2>2. CASE UNCHANGED job /\ muted' = muted \union {c}
    <3>1. TakenUp' = TakenUp /\ GivenUp' = GivenUp
      BY <1>b, <2>2 DEF TakenUp, GivenUp
    <3>2. Line!Mute(c, i)
      BY <1>b, <2>1, <2>2, <3>1 DEF Line!Mute
    <3> QED
      BY <1>2, <3>2 DEF Line!Next
  <2>3. CASE Enqueue(n) /\ UNCHANGED muted
    <3>1. CASE job[n] = "none"
      <4>1. /\ TakenUp' = TakenUp \union {n} /\ n \notin TakenUp
            /\ GivenUp' = GivenUp /\ n \notin GivenUp
        <5>1. n \in Msgs
          BY <1>2
        <5> HIDE DEF n
        <5>2. \A m \in Msgs : job'[m] = IF m = n THEN "queued" ELSE job[m]
          BY <1>b, <2>3, <3>1, <5>1 DEF Enqueue
        <5> QED
          BY <1>b, <2>1, <3>1, <5>1, <5>2 DEF TakenUp, GivenUp
      <4>2. Line!TakeUp(c, i)
        BY <1>b, <2>1, <2>3, <4>1 DEF Line!TakeUp
      <4> QED
        BY <1>2, <4>2 DEF Line!Next
    <3>2. CASE job[n] # "none"
      <4>1. UNCHANGED job
        <5>1. n \in Msgs
          BY <1>2
        <5> HIDE DEF n
        <5> QED
          BY <1>b, <2>3, <3>2, <5>1 DEF Enqueue
      <4> QED
        BY <1>b, <2>3, <4>1, LineQuiet
    <3> QED
      BY <3>1, <3>2
  <2> QED
    BY <1>1, <1>4, <2>2, <2>3
<1> QED
  BY <1>3, <1>4

LEMMA MarkOnLine ==
  ASSUME TypeInv, StopInv, MarksSeen
  PROVE  [Line!Next]_(Line!lineVars)
<1>a. PICK c \in Convs, i \in Ins : sweep.key = <<c, i>>
  BY KeyFacts DEF TypeInv, PageInHand, MarksSeen
<1>1. /\ seen' = [seen EXCEPT ![c] = i] /\ UNCHANGED <<stops, muted, job>> /\ i > seen[c]
      /\ sweep.at = "mark" /\ seen[c] \in Nat /\ i \in Nat /\ stops \subseteq Msgs
  BY <1>a, TypeParts, IntakeAssumption
     DEF TypeInv, PageInHand, MarksSeen, Marks, Sweeping, outside, OutsideOK, RowsOK, Numbers, Ins
<1>2. TakenUp' = TakenUp /\ GivenUp' = GivenUp
  BY <1>1 DEF TakenUp, GivenUp
<1>3. ASSUME NEW n \in Ins, n <= i, <<c, n>> \in stops
      PROVE  c \in muted \/ \E j \in Ins : <<c, j>> \in TakenUp \union GivenUp
  <2>1. Handled(c)
    BY <1>1, <1>3, <1>a DEF StopInv, MarkedHandled
  <2>2. CASE c \in muted
    BY <2>2
  <2>3. ASSUME NEW m \in stops, m[1] = c, job[m] \in Sought
        PROVE  \E j \in Ins : <<c, j>> \in TakenUp \union GivenUp
    <3>1. m = <<c, m[2]>> /\ m[2] \in Ins /\ m \in TakenUp \union GivenUp
      BY <1>1, <2>3, KeyFacts DEF TakenUp, GivenUp, Sought
    <3> QED
      BY <3>1
  <2> QED
    BY <2>1, <2>2, <2>3 DEF Handled
<1>4. Line!Pass(c, i)
  BY <1>1, <1>2, <1>3 DEF Line!Pass
<1> QED
  BY <1>4 DEF Line!Next

LEMMA WorkOnLine ==
  ASSUME TypeInv, StopInv, WorkStep
  PROVE  [Line!Next]_(Line!lineVars)
<1>a. /\ stops \subseteq Msgs /\ job \in [Msgs -> JobAt] /\ JobsOK
      /\ worker.at # "rest" => worker.key \in Msgs
  BY TypeParts DEF TypeInv, OutsideOK, RowsOK, JobInHand, StopInv
<1>b. ASSUME worker.at # "rest"
      PROVE  \E c \in Convs, i \in Ins : worker.key = <<c, i>>
  BY <1>b, <1>a, KeyFacts
<1>0. CASE StopMutes
  <2>1. PICK c \in Convs, i \in Ins : worker.key = <<c, i>>
    BY <1>0, <1>b DEF StopMutes
  <2>2. <<c, i>> \in stops /\ muted' = muted \union {c} /\ UNCHANGED <<stops, seen, job>>
    BY <1>0, <2>1 DEF StopMutes, Working, outside
  <2>3. TakenUp' = TakenUp /\ GivenUp' = GivenUp
    BY <2>2 DEF TakenUp, GivenUp
  <2>4. Line!Mute(c, i)
    BY <2>2, <2>3 DEF Line!Mute
  <2> QED
    BY <2>4 DEF Line!Next
<1>1. CASE StopEnds
  <2>1. PICK c \in Convs, i \in Ins : worker.key = <<c, i>>
    BY <1>1, <1>b DEF StopEnds
  <2> DEFINE n == <<c, i>>
  <2>2. /\ n \in Msgs /\ job[n] = "running" /\ c \in muted
        /\ UNCHANGED <<stops, muted, seen>> /\ job' = [job EXCEPT ![n] = "done"]
    BY <1>1, <1>a, <2>1 DEF StopEnds, JobEnds, JobsOK, Working, outside
  <2> HIDE DEF n
  <2>3. \A m \in Msgs : job'[m] = IF m = n THEN "done" ELSE job[m]
    BY <1>a, <2>2
  <2>4. TakenUp' = TakenUp \ {n} /\ GivenUp' = GivenUp
    BY <1>a, <2>2, <2>3 DEF TakenUp, GivenUp
  <2>5. CASE n \in stops
    <3>1. n \in TakenUp
      BY <2>2, <2>5 DEF TakenUp
    <3>2. Line!PutDown(c, i)
      BY <2>2, <2>4, <3>1 DEF Line!PutDown, n
    <3> QED
      BY <2>1, <3>2 DEF Line!Next
  <2>6. CASE n \notin stops
    <3>1. \A m \in stops : job'[m] = job[m]
      BY <1>a, <2>3, <2>6
    <3> QED
      BY <2>2, <3>1, LineQuiet
  <2> QED
    BY <2>5, <2>6
<1>2. ASSUME NEW m \in Msgs, Takes(m)
      PROVE  UNCHANGED Line!lineVars
  BY <1>2, <1>a, LineQuiet DEF Takes, Working, outside
<1>3. CASE Declines \/ Defers \/ ClaimsOpener \/ OpenerSettles \/ OpenerRefused
  <2>1. worker.at # "rest" /\ worker.key \notin stops /\ UNCHANGED <<stops, muted, seen>>
    BY <1>3, <1>a DEF Declines, Defers, ClaimsOpener, OpenerSettles, OpenerRefused, JobsOK, Working, outside
  <2>2. (\E status : JobEnds(status)) \/ UNCHANGED job
    BY <1>3 DEF Declines, Defers, ClaimsOpener, OpenerSettles, OpenerRefused
  <2> QED
    BY <2>1, <2>2, OtherJobEnds
<1> QED
  BY <1>0, <1>1, <1>2, <1>3, LineAlone DEF WorkStep

LEMMA StepsOnLine ==
  ASSUME TypeInv, StopInv, [Next]_vars
  PROVE  [Line!Next]_(Line!lineVars)
<1>a. stops \subseteq Msgs /\ job \in [Msgs -> JobAt] /\ JobsOK
  BY TypeParts DEF TypeInv, OutsideOK, RowsOK, StopInv
<1>1. CASE HourPasses
  <2>1. /\ UNCHANGED <<stops, muted, seen>> /\ \A m \in stops : job[m] # "later"
        /\ \A m \in Msgs : job'[m] = IF job[m] = "later" THEN "queued" ELSE job[m]
    BY <1>1, <1>a DEF HourPasses, outside, JobsOK, Sought
  <2>2. \A m \in stops : job'[m] = job[m]
    BY <1>a, <2>1
  <2> QED
    BY <2>1, <2>2, LineQuiet
<1>2. CASE HandlerRaises
  <2>1. /\ UNCHANGED <<stops, muted, seen>> /\ worker.key \in Msgs /\ job[worker.key] = "running"
        /\ \E status \in {"queued", "failed"} : JobEnds(status)
    BY <1>2, <1>a, TypeParts
       DEF HandlerRaises, Retried, Working, outside, JobsOK, TypeInv, JobInHand
  <2> QED
    BY <2>1, JobLeftOnLine DEF JobEnds
<1>3. ASSUME NEW m \in Msgs, Reaps(m)
      PROVE  [Line!Next]_(Line!lineVars)
  <2>1. /\ UNCHANGED <<stops, muted, seen>> /\ job[m] = "running"
        /\ \E status \in {"queued", "failed"} : job' = [job EXCEPT ![m] = status]
    BY <1>3 DEF Reaps, Retried, outside
  <2> QED
    BY <2>1, JobLeftOnLine
<1> QED
  BY <1>1, <1>2, <1>3, LineAlone, WritesOnLine, ActsOnLine, MarkOnLine, WorkOnLine
     DEF Next, SweepStep, Reap

(* The intake keeps the promise of module StopLine, whatever dies, fails or is *)
(* stopped between reading a page, enqueueing its job and moving the watermark *)
(* and whatever becomes of the job: a STOP is taken up before it is passed, it *)
(* is put down only when the person is muted or its job has failed for good,   *)
(* and nobody else is muted (poller.py _act, handler.py handle, worker.py      *)
(* process_one).                                                               *)
THEOREM StopsInLine == Spec => ImplementsStopLine
<1>1. Init => Line!Init
  BY DEF Init, Line!Init, TakenUp, GivenUp
<1>2. TypeInv /\ StopInv /\ [Next]_vars => [Line!Next]_(Line!lineVars)
  BY StepsOnLine
<1> QED
  BY <1>1, <1>2, TypeInvHolds, StopInvHolds, PTL DEF Spec, ImplementsStopLine, Line!Spec
-----------------------------------------------------------------------------
(* What counts against the hour, and what a thread is about to add to it: a    *)
(* reply or a line that is to be claimed, an opener to be sent or recorded.    *)
ReplyToCome  == IF sweep.at = "claim" THEN {sweep.key} ELSE {}
OpenerToCome == IF worker.at \in {"claim", "call", "ok", "unsure"} THEN {Opener(worker.key[1])} ELSE {}
Unrecorded   == IF worker.at \in {"ok", "unsure"} THEN {Opener(worker.key[1])} ELSE {}
Claiming     == {a \in Machines : machines[a].at = "claim"}
LinesOf(A)   == {machines[a].key : a \in A}
LinesToCome  == LinesOf(Claiming)
ToCome  == (ReplyToCome \union OpenerToCome) \union LinesToCome
Load    == (Counted \union greeted) \union ToCome

(* Openers that left, of which an error or a death kept the hour's count from  *)
(* hearing.                                                                    *)
Orphans == greeted \ (Counted \union Unrecorded)

(* What is on its way is claimed, by one thread.                               *)
InHandApart ==
  /\ sweep.at \in {"claim", "call"} => sweep.key \in Msgs
  /\ sweep.at = "call" => ledger[sweep.key] = "sending"
  /\ \A a \in Machines : machines[a].at = "call" => ledger[machines[a].key] = "sending"
  /\ \A a, b \in Machines :
       a # b /\ machines[a].at = "call" /\ machines[b].at = "call" => machines[a].key # machines[b].key
  /\ greeted \subseteq {Opener(c) : c \in Convs}

(* The place a thread saw free is taken into account from then on.             *)
CapInv ==
  /\ Cardinality(Orphans) <= lost
  /\ Cardinality(Load) <= Cap + 1 + Cardinality(Machines) + lost
  /\ ToCome # {} => Cap # 0

(* Openers, replies and lines have different keys.                             *)
LEMMA KeysApart ==
  /\ \A c \in Convs : Opener(c) \in Keys /\ Opener(c) \notin Msgs /\ Opener(c) \notin Lines
  /\ \A k \in Msgs : k \notin Lines
<1>1. 0 \notin Ins /\ 0 \notin Steps /\ \A i \in Ins : i \notin Steps
  BY IntakeAssumption DEF Ins
<1>2. \A c \in Convs : Opener(c)[2] = 0
  BY DEF Opener
<1>3. /\ \A k \in Msgs : k[2] \in Ins
      /\ \A k \in Lines : k[2] \in Steps
  BY DEF Msgs, Lines
<1> QED
  BY <1>1, <1>2, <1>3, KeyFacts

LEMMA InHandInductive ==
  ASSUME TypeInv, InHandApart, [Next]_vars
  PROVE  InHandApart'
<1>a. /\ sweep \in Sweeps /\ ledger \in [Keys -> Status]
      /\ machines \in [Machines -> [at : SayAt, key : Keys \union {NoKey}]]
      /\ worker.at # "rest" => worker.key \in Msgs /\ worker.key[1] \in Convs
      /\ \A a \in Machines : machines[a].at # "rest" => machines[a].key \in Lines /\ machines[a].key \in Keys
  BY TypeParts, KeyFacts DEF TypeInv, SweepOK, RowsOK, JobInHand, MachinesOK, LineInHand
<1>b. \A phase, k : SweepGo(phase, k) => sweep'.at = phase /\ sweep'.key = k
  BY <1>a DEF SweepGo, Sweeps
<1> USE DEF InHandApart
<1>1. ASSUME UNCHANGED <<sweep, machines>>, greeted' \subseteq greeted \/ OpenerTaken,
             \A k \in Msgs \union Lines : ledger'[k] = ledger[k]
      PROVE  InHandApart'
  <2>1. OpenerTaken => worker.key[1] \in Convs /\ greeted' = greeted \union {Opener(worker.key[1])}
    BY <1>a DEF OpenerTaken
  <2> QED
    BY <1>1, <1>a, <2>1
<1>2. ASSUME UNCHANGED <<greeted, ledger, machines>>, sweep'.at \notin {"claim", "call"}
      PROVE  InHandApart'
  BY <1>2
<1>3. CASE SweepEnds \/ EnqueueFails \/ MarksSeen \/ Lists \/ Acts
  <2>1. UNCHANGED <<greeted, ledger, machines>>
    BY <1>3 DEF SweepEnds, EnqueueFails, MarksSeen, Lists, Acts, rows, seenOut, Sweeping
  <2>2. CASE SweepEnds
    BY <1>2, <2>1, <2>2 DEF SweepEnds, SweepRest
  <2>3. CASE EnqueueFails \/ MarksSeen \/ Lists
    <3>1. sweep'.at = "sweep"
      BY <1>a, <2>3 DEF EnqueueFails, MarksSeen, Lists, Sweeps
    <3> QED
      BY <1>2, <2>1, <3>1
  <2>4. CASE Acts
    BY <1>2, <1>b, <2>1, <2>4 DEF Acts
  <2> QED
    BY <1>3, <2>2, <2>3, <2>4
<1>4. ASSUME NEW c \in Convs, Reads(c) \/ ReadFails(c)
      PROVE  InHandApart'
  <2>1. UNCHANGED <<greeted, ledger, machines>>
    BY <1>4 DEF Reads, ReadFails, rows, seenOut, Sweeping
  <2>2. sweep' = [sweep EXCEPT !.todo = @ \ {c}] \/ SweepGo("act", <<c, came[c]>>)
    BY <1>4 DEF Reads, ReadFails
  <2>3. sweep.at = "sweep"
    BY <1>4 DEF Reads, ReadFails
  <2>4. sweep'.at \in {"sweep", "act"}
    BY <1>a, <1>b, <2>2, <2>3 DEF Sweeps
  <2> QED
    BY <1>2, <2>1, <2>4
<1>5. ASSUME NEW c \in Convs, NEW i \in Ins, Asks(c, i)
      PROVE  InHandApart'
  <2>1. sweep'.at = "claim" /\ sweep'.key = <<c, i>> /\ UNCHANGED <<greeted, ledger, machines>>
    BY <1>5, <1>b DEF Asks, rows, Sweeping
  <2> QED
    BY <1>5, <2>1, KeyFacts
<1>6. CASE Claims
  <2>1. sweep.key \in Msgs /\ sweep.key \in Keys /\ UNCHANGED <<greeted, machines>>
    BY <1>6, KeyFacts DEF Claims, Sweeping
  <2>2. \/ sweep' = SweepRest /\ UNCHANGED ledger
        \/ SetRow(sweep.key, "sending") /\ SweepGo("call", sweep.key)
    BY <1>6 DEF Claims, ClaimRow
  <2>3. CASE sweep' = SweepRest /\ UNCHANGED ledger
    BY <1>2, <2>1, <2>3 DEF SweepRest
  <2>4. CASE SetRow(sweep.key, "sending") /\ SweepGo("call", sweep.key)
    <3>1. /\ sweep'.at = "call" /\ sweep'.key = sweep.key /\ ledger'[sweep.key] = "sending"
          /\ \A k \in Lines : ledger'[k] = ledger[k]
      BY <1>a, <1>b, <2>1, <2>4, KeysApart, KeyFacts DEF SetRow
    <3>2. \A a \in Machines : machines[a].at = "call" => ledger'[machines[a].key] = "sending"
      BY <1>a, <3>1
    <3> QED
      BY <2>1, <3>1, <3>2
  <2> QED
    BY <2>2, <2>3, <2>4
<1>7. CASE AnswerSettles
  <2>1. /\ sweep.key \in Msgs /\ sweep.key \in Keys /\ UNCHANGED <<greeted, machines>>
        /\ sweep' = SweepRest /\ \E st \in {"out", "none"} : SetRow(sweep.key, st)
    BY <1>7, KeyFacts DEF AnswerSettles, Settles, Sweeping
  <2>2. \A k \in Lines : ledger'[k] = ledger[k]
    BY <1>a, <2>1, KeysApart, KeyFacts DEF SetRow
  <2>3. \A a \in Machines : machines[a].at = "call" => ledger'[machines[a].key] = "sending"
    BY <1>a, <2>2
  <2> QED
    BY <2>1, <2>3 DEF SweepRest
<1>8. CASE OpenerSettles
  <2>1. worker.key[1] \in Convs /\ UNCHANGED <<sweep, machines, greeted>>
    BY <1>8, <1>a DEF OpenerSettles, Working, seenOut
  <2>2. \A k \in Msgs \union Lines : ledger'[k] = ledger[k]
    BY <1>8, <1>a, <2>1, KeysApart, KeyFacts DEF OpenerSettles, SetRow
  <2> QED
    BY <1>1, <2>1, <2>2
<1>9. CASE (WorkStep /\ ~OpenerSettles) \/ HandlerRaises \/ Reap \/ Halts \/ Resumes \/ UNCHANGED vars
           \/ (\E c \in Convs : Writes(c) \/ WindowCloses(c)) \/ HourPasses
  <2>1. /\ UNCHANGED <<sweep, machines, ledger>>
        /\ greeted' \subseteq greeted \/ OpenerTaken
    BY <1>9 DEF WorkStep, Takes, StopMutes, StopEnds, Declines, Defers, GoesOn, ClaimsOpener,
                OpenerNotTaken, OpenerRefused, OpenerTaken, HandlerRaises, Reap, Reaps, Halts, Resumes,
                Writes, WindowCloses, HourPasses, Working, rows, seenOut, vars
  <2> QED
    BY <1>1, <2>1
<1>10. CASE Dies
  <2>1. /\ UNCHANGED <<greeted, ledger>> /\ sweep'.at = "rest"
        /\ \A a \in Machines : machines'[a].at = "rest"
    BY <1>10 DEF Dies, SweepRest, WorkRest, rows
  <2> QED
    BY <2>1
<1>11. ASSUME NEW a \in Machines, SayStep(a)
       PROVE  InHandApart'
  <2>1. /\ UNCHANGED <<sweep, greeted>>
        /\ \A b \in Machines \ {a} : machines'[b] = machines[b]
        /\ \A phase, k : SayGo(a, phase, k) => machines'[a].at = phase /\ machines'[a].key = k
    BY <1>11, <1>a DEF SayStep, MachineLooks, MachineClaims, MachineSettles, SayGo, Saying, seenOut
  <2>2. CASE (\E c \in Convs, s \in Steps : MachineLooks(a, c, s)) 
           \/ (MachineClaims(a) /\ ledger[machines[a].key] # "none")
    <3>1. UNCHANGED ledger /\ \E phase \in {"claim", "rest"}, k \in Lines \union {NoKey} : SayGo(a, phase, k)
      <4>1. CASE \E c \in Convs, s \in Steps : MachineLooks(a, c, s)
        BY <4>1, KeyFacts DEF MachineLooks, rows
      <4>2. CASE MachineClaims(a) /\ ledger[machines[a].key] # "none"
        BY <4>2 DEF MachineClaims
      <4> QED
        BY <2>2, <4>1, <4>2
    <3>2. UNCHANGED ledger /\ machines'[a].at # "call"
      BY <2>1, <3>1
    <3> QED
      BY <2>1, <3>2
  <2>3. CASE MachineClaims(a) /\ ledger[machines[a].key] = "none"
    <3> DEFINE k == machines[a].key
    <3>1. /\ k \in Keys /\ k \in Lines /\ ledger[k] = "none" /\ SetRow(k, "sending") /\ SayGo(a, "call", k)
      BY <2>3, <1>a DEF MachineClaims, ClaimRow
    <3>2. /\ ledger'[k] = "sending" /\ \A j \in Keys : j # k => ledger'[j] = ledger[j]
          /\ machines'[a].at = "call" /\ machines'[a].key = k
      BY <1>a, <2>1, <3>1 DEF SetRow
    <3>3. \A b \in Machines \ {a} : machines[b].at = "call" => machines[b].key # k
      BY <3>1
    <3>4. sweep.at = "call" => sweep.key # k /\ sweep.key \in Keys
      BY <3>1, KeysApart, KeyFacts
    <3> HIDE DEF k
    <3>5. \A b \in Machines \ {a} : machines[b].at = "call" => ledger'[machines[b].key] = "sending"
      BY <1>a, <3>2, <3>3
    <3>6. sweep.at = "call" => ledger'[sweep.key] = "sending"
      BY <3>2, <3>4
    <3> QED
      BY <2>1, <3>2, <3>3, <3>5, <3>6
  <2>4. CASE MachineSettles(a)
    <3> DEFINE k == machines[a].key
    <3>1. /\ k \in Keys /\ k \in Lines /\ machines[a].at = "call" /\ SayGo(a, "rest", NoKey)
          /\ \E st \in {"out", "none"} : SetRow(k, st)
      BY <2>4, <1>a DEF MachineSettles, Settles
    <3>2. /\ \A j \in Keys : j # k => ledger'[j] = ledger[j]
          /\ machines'[a].at = "rest"
      BY <1>a, <2>1, <3>1 DEF SetRow
    <3>3. \A b \in Machines \ {a} : machines[b].at = "call" => machines[b].key # k
      BY <3>1
    <3>4. sweep.at = "call" => sweep.key # k /\ sweep.key \in Keys
      BY <3>1, KeysApart, KeyFacts
    <3> HIDE DEF k
    <3>5. \A b \in Machines \ {a} : machines[b].at = "call" => ledger'[machines[b].key] = "sending"
      BY <1>a, <3>2, <3>3
    <3>6. sweep.at = "call" => ledger'[sweep.key] = "sending"
      BY <3>2, <3>4
    <3> QED
      BY <2>1, <3>2, <3>5, <3>6
  <2> QED
    BY <1>11, <2>2, <2>3, <2>4 DEF SayStep
<1> QED
  BY <1>3, <1>4, <1>5, <1>6, <1>7, <1>8, <1>9, <1>10, <1>11 DEF Next, SweepStep

(* Finite sets of keys are counted: one more adds at most one.                 *)
LEMMA KeysFinite == IsFiniteSet(Keys)
<1>1. IsFiniteSet(0..MaxIn)
  BY IntakeAssumption, FS_Interval
<1>2. IsFiniteSet((0..MaxIn) \union Steps)
  BY <1>1, IntakeAssumption, FS_Union
<1> QED
  BY <1>2, IntakeAssumption, FS_Product DEF Keys

LEMMA Counting ==
  ASSUME NEW S \in SUBSET Keys, NEW T \in SUBSET Keys
  PROVE  /\ Cardinality(S) \in Nat /\ Cardinality(T) \in Nat /\ Cardinality(S \union T) \in Nat
         /\ Cardinality(S \union T) <= Cardinality(S) + Cardinality(T)
         /\ S \subseteq T => Cardinality(S) <= Cardinality(T)
<1>1. IsFiniteSet(S) /\ IsFiniteSet(T) /\ IsFiniteSet(S \union T) /\ IsFiniteSet(S \cap T)
  BY KeysFinite, FS_Subset
<1>2. /\ Cardinality(S) \in Nat /\ Cardinality(T) \in Nat /\ Cardinality(S \union T) \in Nat
      /\ Cardinality(S \cap T) \in Nat
  BY <1>1, FS_CardinalityType
<1>3. Cardinality(S \union T) = Cardinality(S) + Cardinality(T) - Cardinality(S \cap T)
  BY <1>1, FS_Union
<1>4. S \subseteq T => Cardinality(S) <= Cardinality(T)
  BY <1>1, FS_Subset
<1> QED
  BY <1>2, <1>3, <1>4

(* No more lines are on their way than there are threads to say them.          *)
LEMMA LinesCount ==
  ASSUME TypeInv, NEW A \in SUBSET Machines, A \subseteq Claiming
  PROVE  LinesOf(A) \subseteq Keys /\ Cardinality(LinesOf(A)) <= Cardinality(A)
<1> DEFINE f == [a \in A |-> machines[a].key]
<1>1. IsFiniteSet(A)
  BY IntakeAssumption, FS_Subset
<1>2. f \in Surjection(A, LinesOf(A))
  BY DEF LinesOf, Surjection
<1>3. LinesOf(A) \subseteq Keys
  BY KeyFacts DEF LinesOf, Claiming, TypeInv, LineInHand
<1> HIDE DEF f
<1>4. Cardinality(LinesOf(A)) <= Cardinality(A)
  BY <1>1, <1>2, FS_Surjection
<1> QED
  BY <1>3, <1>4

(* The sets of the invariant are sets of keys, one key per thread.             *)
LEMMA LoadIsKeys ==
  ASSUME TypeInv
  PROVE  /\ Counted \subseteq Keys /\ greeted \subseteq Keys /\ Orphans \subseteq Keys
         /\ ReplyToCome \subseteq Keys /\ OpenerToCome \subseteq Keys /\ Unrecorded \subseteq Keys
         /\ LinesToCome \subseteq Keys /\ ToCome \subseteq Keys /\ Load \subseteq Keys
         /\ Cardinality(ReplyToCome) <= 1 /\ Cardinality(OpenerToCome) <= 1
         /\ Cardinality(Machines) \in Nat /\ Cardinality(LinesToCome) <= Cardinality(Machines)
<1>1. recent \subseteq Keys /\ greeted \subseteq Keys
  BY TypeParts DEF TypeInv, RowsOK
<1>2. Counted \subseteq Keys
  BY <1>1 DEF Counted
<1>3. ReplyToCome \subseteq Keys
  BY TypeParts, KeyFacts DEF TypeInv, SweepOK, Sweeps, ReplyToCome
<1>4. OpenerToCome \subseteq Keys /\ Unrecorded \subseteq Keys
  BY KeyFacts DEF TypeInv, JobInHand, OpenerToCome, Unrecorded
<1>5. Cardinality({}) = 0 /\ \A x : Cardinality({x}) = 1
  BY FS_Singleton, FS_EmptySet, Zenon
<1>6. Cardinality(ReplyToCome) \in {0, 1} /\ Cardinality(OpenerToCome) \in {0, 1}
  BY <1>5, Zenon DEF ReplyToCome, OpenerToCome
<1>7. Cardinality(ReplyToCome) <= 1 /\ Cardinality(OpenerToCome) <= 1
  BY <1>6
<1>8. Claiming \subseteq Machines /\ IsFiniteSet(Machines)
  BY IntakeAssumption DEF Claiming
<1>9. /\ Cardinality(Machines) \in Nat /\ Cardinality(Claiming) \in Nat
      /\ Cardinality(Claiming) <= Cardinality(Machines)
  BY <1>8, FS_Subset, FS_CardinalityType
<1>10. LinesToCome \subseteq Keys /\ Cardinality(LinesToCome) <= Cardinality(Claiming)
  BY <1>8, LinesCount DEF LinesToCome
<1>11. Cardinality(LinesToCome) \in Nat
  BY <1>10, Counting
<1>12. Cardinality(LinesToCome) <= Cardinality(Machines)
  BY <1>9, <1>10, <1>11
<1> QED
  BY <1>1, <1>2, <1>3, <1>4, <1>7, <1>9, <1>10, <1>12 DEF Orphans, ToCome, Load

(* A step that adds nothing keeps the bounds.                                  *)
LEMMA Lighter ==
  ASSUME TypeInv, CapInv, Load' \subseteq Load, Orphans' \subseteq Orphans,
         ToCome' \subseteq ToCome, lost' = lost
  PROVE  CapInv'
<1>1. lost \in Nat /\ Load \subseteq Keys /\ Orphans \subseteq Keys /\ Cardinality(Machines) \in Nat
  BY TypeParts, LoadIsKeys DEF TypeInv, OutsideOK
<1>2. /\ Cardinality(Load') \in Nat /\ Cardinality(Load) \in Nat
      /\ Cardinality(Load') <= Cardinality(Load)
  BY <1>1, Counting
<1>3. /\ Cardinality(Orphans') \in Nat /\ Cardinality(Orphans) \in Nat
      /\ Cardinality(Orphans') <= Cardinality(Orphans)
  BY <1>1, Counting
<1>4. Cardinality(Orphans') <= lost'
  BY <1>1, <1>3 DEF CapInv
<1>5. Cardinality(Load') <= Cap + 1 + Cardinality(Machines) + lost'
  BY <1>1, <1>2, IntakeAssumption DEF CapInv
<1> QED
  BY <1>4, <1>5 DEF CapInv

(* A look that finds room leaves one place for it, and every other thread may  *)
(* have found the same.                                                        *)
LEMMA RoomForOne ==
  ASSUME TypeInv, CapInv, CapLeft, NEW k \in Keys,
         NEW O \in SUBSET Keys, Cardinality(O) <= 1 + Cardinality(Machines),
         greeted \subseteq (Counted \union Orphans) \union O
  PROVE  /\ Cardinality(((Counted \union greeted) \union O) \union {k})
              <= Cap + 1 + Cardinality(Machines) + lost
         /\ Cap # 0
<1> DEFINE A == Counted \union Orphans
           B == A \union O
           D == B \union {k}
<1>1. /\ lost \in Nat /\ Cap \in Nat /\ Cardinality(Orphans) <= lost /\ Cardinality(Machines) \in Nat
      /\ Counted \subseteq Keys /\ Orphans \subseteq Keys /\ A \subseteq Keys /\ B \subseteq Keys
      /\ D \subseteq Keys /\ {k} \subseteq Keys
  BY TypeParts, LoadIsKeys, IntakeAssumption DEF TypeInv, OutsideOK, CapInv
<1>2. Cardinality(Counted) \in Nat /\ Cardinality(Counted) < Cap
  BY <1>1, Counting DEF CapLeft
<1>3. /\ Cardinality(A) \in Nat /\ Cardinality(Orphans) \in Nat
      /\ Cardinality(A) <= Cardinality(Counted) + Cardinality(Orphans)
  BY <1>1, Counting
<1>4. /\ Cardinality(B) \in Nat /\ Cardinality(O) \in Nat
      /\ Cardinality(B) <= Cardinality(A) + Cardinality(O)
  BY <1>1, Counting
<1>5. Cardinality({k}) = 1
  BY FS_Singleton, Zenon
<1>6. Cardinality(D) \in Nat /\ Cardinality(D) <= Cardinality(B) + Cardinality({k})
  BY <1>1, Counting
<1>7. ((Counted \union greeted) \union O) \union {k} \subseteq D
  OBVIOUS
<1>8. /\ Cardinality(((Counted \union greeted) \union O) \union {k}) <= Cardinality(D)
      /\ Cardinality(((Counted \union greeted) \union O) \union {k}) \in Nat
  BY <1>1, <1>7, Counting
<1> HIDE DEF A, B, D
<1>9. Cardinality(D) <= Cap + 1 + Cardinality(Machines) + lost
  BY <1>1, <1>2, <1>3, <1>4, <1>5, <1>6
<1>10. Cap # 0
  BY <1>1, <1>2
<1> QED
  BY <1>1, <1>8, <1>9, <1>10, <1>6

(* What the other threads are about to add, of a thread that looks.            *)
LEMMA TwoSets ==
  ASSUME NEW S \in SUBSET Keys, NEW T \in SUBSET Keys, NEW n \in Nat,
         Cardinality(S) <= 1, Cardinality(T) <= n
  PROVE  S \union T \in SUBSET Keys /\ Cardinality(S \union T) <= 1 + n
<1>1. /\ Cardinality(S) \in Nat /\ Cardinality(T) \in Nat /\ Cardinality(S \union T) \in Nat
      /\ Cardinality(S \union T) <= Cardinality(S) + Cardinality(T)
  BY Counting
<1> QED
  BY <1>1

(* An opener that is on its way when its job ends otherwise is one more lost.  *)
LEMMA OneMoreLost ==
  ASSUME TypeInv, CapInv, Loses, UNCHANGED <<recent, ledger, greeted>>, worker'.at = "rest",
         ReplyToCome' \subseteq ReplyToCome, LinesToCome' \subseteq LinesToCome
  PROVE  CapInv'
<1>a. lost \in Nat /\ Cardinality(Machines) \in Nat
  BY TypeParts, LoadIsKeys DEF TypeInv, OutsideOK
<1>1. Counted' = Counted /\ OpenerToCome' = {} /\ Unrecorded' = {}
  BY DEF Counted, OpenerToCome, Unrecorded
<1>2. ToCome' \subseteq ToCome /\ Load' \subseteq Load /\ Orphans' \subseteq Orphans \union Unrecorded
  BY <1>1 DEF ToCome, Load, Orphans
<1>3. CASE worker.at \notin {"ok", "unsure"}
  <2>1. Unrecorded = {} /\ lost' = lost
    BY <1>3 DEF Unrecorded, Loses
  <2> QED
    BY <1>2, <2>1, Lighter
<1>4. CASE worker.at \in {"ok", "unsure"}
  <2>1. lost' = lost + 1 /\ Unrecorded = OpenerToCome
    BY <1>4 DEF Unrecorded, OpenerToCome, Loses
  <2>2. /\ Load \subseteq Keys /\ Load' \subseteq Keys /\ Unrecorded \subseteq Keys
        /\ Orphans \subseteq Keys /\ Orphans \union Unrecorded \subseteq Keys /\ Orphans' \subseteq Keys
        /\ Cardinality(Unrecorded) <= 1
    BY <1>2, <2>1, LoadIsKeys
  <2>3. /\ Cardinality(Load) \in Nat /\ Cardinality(Load') \in Nat
        /\ Cardinality(Load') <= Cardinality(Load)
    BY <1>2, <2>2, Counting
  <2>4. /\ Cardinality(Orphans) \in Nat /\ Cardinality(Unrecorded) \in Nat
        /\ Cardinality(Orphans \union Unrecorded) \in Nat
        /\ Cardinality(Orphans \union Unrecorded) <= Cardinality(Orphans) + Cardinality(Unrecorded)
    BY <2>2, Counting
  <2>5. /\ Cardinality(Orphans') \in Nat
        /\ Cardinality(Orphans') <= Cardinality(Orphans \union Unrecorded)
    BY <1>2, <2>2, Counting
  <2>6. Cardinality(Orphans') <= lost'
    BY <1>a, <2>1, <2>2, <2>4, <2>5 DEF CapInv
  <2>7. Cardinality(Load') <= Cap + 1 + Cardinality(Machines) + lost'
    BY <1>a, <2>1, <2>3, IntakeAssumption DEF CapInv
  <2> QED
    BY <1>2, <2>6, <2>7 DEF CapInv
<1> QED
  BY <1>3, <1>4

LEMMA CapInductive ==
  ASSUME TypeInv, InHandApart, CapInv, [Next]_vars
  PROVE  CapInv'
<1>a. /\ sweep \in Sweeps /\ ledger \in [Keys -> Status] /\ recent \subseteq Keys
      /\ worker \in [at : WorkAt, key : Keys \union {NoKey}] /\ lost \in Nat
      /\ machines \in [Machines -> [at : SayAt, key : Keys \union {NoKey}]]
      /\ worker.at # "rest" => worker.key \in Msgs /\ worker.key[1] \in Convs
      /\ \A a \in Machines : machines[a].at # "rest" => machines[a].key \in Lines /\ machines[a].key \in Keys
  BY TypeParts, KeyFacts
     DEF TypeInv, OutsideOK, SweepOK, RowsOK, WorkerOK, JobInHand, MachinesOK, LineInHand
<1>b. \A phase, k : SweepGo(phase, k) => sweep'.at = phase /\ sweep'.key = k
  BY <1>a DEF SweepGo, Sweeps
<1>c. \A phase, k : WorkGo(phase, k) => worker'.at = phase /\ worker'.key = k
  BY DEF WorkGo
<1>d. SweepRest.at = "rest" /\ WorkRest.at = "rest" /\ \A st : JobEnds(st) => worker'.at = "rest"
  BY DEF SweepRest, WorkRest, JobEnds
<1>e. UNCHANGED machines => LinesToCome' = LinesToCome
  BY DEF LinesToCome, LinesOf, Claiming
\* A step of the sweep that claims nothing, and whatever happens outside.
<1>1. ASSUME UNCHANGED <<recent, ledger, greeted, lost, worker, machines>>,
             sweep'.at # "claim" \/ UNCHANGED sweep
      PROVE  CapInv'
  <2>1. Counted' = Counted /\ OpenerToCome' = OpenerToCome /\ Unrecorded' = Unrecorded
        /\ ReplyToCome' \subseteq ReplyToCome
    BY <1>1 DEF Counted, OpenerToCome, Unrecorded, ReplyToCome
  <2> QED
    BY <1>1, <1>e, <2>1, Lighter DEF Load, ToCome, Orphans
<1>2. CASE Lists \/ SweepEnds \/ Acts \/ EnqueueFails \/ MarksSeen
           \/ \E c \in Convs : Reads(c) \/ ReadFails(c)
  <2>1. UNCHANGED <<recent, ledger, greeted, lost, worker, machines>>
    BY <1>2 DEF Lists, SweepEnds, Acts, EnqueueFails, MarksSeen, Reads, ReadFails, rows,
                seenOut, Sweeping
  <2>2. CASE Lists \/ EnqueueFails \/ MarksSeen
    <3>1. sweep'.at = "sweep"
      BY <1>a, <2>2 DEF Lists, EnqueueFails, MarksSeen, Sweeps
    <3> QED
      BY <1>1, <2>1, <3>1
  <2>3. CASE SweepEnds \/ Acts
    BY <1>1, <1>b, <1>d, <2>1, <2>3 DEF SweepEnds, Acts
  <2>4. ASSUME NEW c \in Convs, Reads(c) \/ ReadFails(c)
        PROVE  CapInv'
    <3>1. /\ sweep' = [sweep EXCEPT !.todo = @ \ {c}] \/ SweepGo("act", <<c, came[c]>>)
          /\ sweep.at = "sweep"
      BY <2>4 DEF Reads, ReadFails
    <3>2. sweep'.at # "claim"
      BY <1>a, <1>b, <3>1 DEF Sweeps
    <3> QED
      BY <1>1, <2>1, <3>2
  <2> QED
    BY <1>2, <2>2, <2>3, <2>4
<1>3. CASE UNCHANGED vars \/ (\E c \in Convs : Writes(c) \/ WindowCloses(c)) \/ Halts \/ Resumes \/ Reap
  <2>1. UNCHANGED <<recent, ledger, greeted, lost, worker, machines, sweep>>
    BY <1>3 DEF vars, Writes, WindowCloses, Halts, Resumes, Reap, Reaps, rows, seenOut
  <2> QED
    BY <1>1, <2>1
\* A step of the worker that sends nothing and records nothing.
<1>4. ASSUME UNCHANGED <<recent, ledger, greeted, lost, sweep, machines>>,
             OpenerToCome' \subseteq OpenerToCome, Unrecorded = {}
      PROVE  CapInv'
  <2>1. Counted' = Counted /\ ReplyToCome' = ReplyToCome
    BY <1>4 DEF Counted, ReplyToCome
  <2> QED
    BY <1>4, <1>e, <2>1, Lighter DEF Load, ToCome, Orphans
<1>5. CASE (\E m \in Msgs : Takes(m)) \/ StopMutes \/ StopEnds \/ Declines \/ Defers \/ ClaimsOpener
           \/ OpenerNotTaken \/ OpenerRefused
  <2>1. UNCHANGED <<recent, ledger, greeted, lost, sweep, machines>>
    BY <1>5 DEF Takes, StopMutes, StopEnds, Declines, Defers, ClaimsOpener, OpenerNotTaken, OpenerRefused,
                rows, seenOut, Working
  <2>2. worker.at \in {"rest", "start", "muted", "claim", "call", "refused"}
    BY <1>5 DEF Takes, StopMutes, StopEnds, Declines, Defers, ClaimsOpener, OpenerNotTaken, OpenerRefused
  <2>3. \/ worker'.at \in {"rest", "start", "muted", "refused"}
        \/ worker'.at \in {"call", "unsure"} /\ worker.at \in {"claim", "call"} /\ worker'.key = worker.key
    BY <1>5, <1>c, <1>d
       DEF Takes, StopMutes, StopEnds, Declines, Defers, ClaimsOpener, OpenerNotTaken, OpenerRefused
  <2> QED
    BY <1>4, <2>1, <2>2, <2>3 DEF OpenerToCome, Unrecorded
<1>6. CASE OpenerTaken
  <2> DEFINE o == Opener(worker.key[1])
  <2>1. /\ greeted' = greeted \union {o} /\ UNCHANGED <<recent, ledger, lost, sweep, machines>>
        /\ worker.at = "call" /\ worker'.at \in {"ok", "unsure"} /\ worker'.key = worker.key
    BY <1>6, <1>c DEF OpenerTaken, rows, Working
  <2>2. /\ Counted' = Counted /\ ReplyToCome' = ReplyToCome /\ LinesToCome' = LinesToCome
        /\ OpenerToCome = {o} /\ OpenerToCome' = {o} /\ Unrecorded = {} /\ Unrecorded' = {o}
    BY <1>e, <2>1 DEF Counted, ReplyToCome, OpenerToCome, Unrecorded
  <2> HIDE DEF o
  <2> QED
    BY <2>1, <2>2, Lighter DEF Load, ToCome, Orphans
<1>7. CASE OpenerSettles
  <2> DEFINE o == Opener(worker.key[1])
  <2>1. /\ recent' = recent \union {o} /\ UNCHANGED <<greeted, lost, sweep, machines>>
        /\ worker.at \in {"ok", "unsure"} /\ worker'.at = "rest" /\ o \in Keys
        /\ ledger' = [ledger EXCEPT ![o] = "out"]
    BY <1>7, <1>a, <1>d, KeyFacts DEF OpenerSettles, SetRow, seenOut, Working
  <2>2. Counted' = Counted \union {o}
    BY <1>a, <2>1 DEF Counted
  <2>3. /\ ReplyToCome' = ReplyToCome /\ OpenerToCome = {o} /\ OpenerToCome' = {}
        /\ LinesToCome' = LinesToCome /\ Unrecorded = {o} /\ Unrecorded' = {}
    BY <1>e, <2>1 DEF ReplyToCome, OpenerToCome, Unrecorded
  <2> HIDE DEF o
  <2> QED
    BY <2>1, <2>2, <2>3, Lighter DEF Load, ToCome, Orphans
\* What another thread writes is not an opener's row.
<1>8. ASSUME NEW k \in Msgs \union Lines, UNCHANGED <<greeted, lost, worker>>,
             ToCome' \subseteq ToCome, Counted' \subseteq Counted \union ToCome,
             Counted \ {k} \subseteq Counted'
      PROVE  CapInv'
  <2>1. k \notin greeted
    BY KeysApart DEF InHandApart
  <2>2. Unrecorded' = Unrecorded
    BY <1>8 DEF Unrecorded
  <2>3. Orphans' \subseteq Orphans
    BY <1>8, <2>1, <2>2 DEF Orphans
  <2>4. Load' \subseteq Load
    BY <1>8 DEF Load
  <2> QED
    BY <1>8, <2>3, <2>4, Lighter
\* Settling a row that is being sent counts no more than before.
<1>8a. ASSUME NEW k \in Keys, Settles(k), ledger[k] = "sending"
       PROVE  Counted' \subseteq Counted /\ Counted \ {k} \subseteq Counted'
  <2>1. \/ ledger' = [ledger EXCEPT ![k] = "out"] /\ recent' = recent
        \/ ledger' = [ledger EXCEPT ![k] = "none"] /\ recent' = recent \ {k}
    BY <1>8a DEF Settles, SetRow
  <2> QED
    BY <1>8a, <1>a, <2>1 DEF Counted
<1>8b. ASSUME NEW k \in Keys, ClaimRow(k) \/ UNCHANGED <<ledger, recent>>
       PROVE  Counted' \subseteq Counted \union {k} /\ Counted \ {k} \subseteq Counted'
  BY <1>8b, <1>a DEF Counted, ClaimRow, SetRow
<1>9. CASE Claims
  <2> DEFINE k == sweep.key
  <2>1. /\ ReplyToCome = {k} /\ k \in Keys /\ k \in Msgs /\ UNCHANGED <<greeted, lost, worker, machines>>
        /\ ClaimRow(k) \/ UNCHANGED <<ledger, recent>>
        /\ sweep'.at \in {"call", "rest"}
    BY <1>9, <1>b, <1>d, KeyFacts DEF Claims, ReplyToCome, InHandApart, Sweeping
  <2>2. Counted' \subseteq Counted \union {k} /\ Counted \ {k} \subseteq Counted'
    BY <1>8b, <2>1
  <2>3. ReplyToCome' = {} /\ OpenerToCome' = OpenerToCome /\ LinesToCome' = LinesToCome
    BY <1>e, <2>1 DEF ReplyToCome, OpenerToCome
  <2>4. ToCome' \subseteq ToCome /\ k \in ToCome
    BY <2>1, <2>3 DEF ToCome
  <2> HIDE DEF k
  <2> QED
    BY <1>8, <2>1, <2>2, <2>4
<1>10. CASE AnswerSettles
  <2> DEFINE k == sweep.key
  <2>1. /\ k \in Keys /\ k \in Msgs /\ ledger[k] = "sending" /\ Settles(k)
        /\ UNCHANGED <<greeted, lost, worker, machines>> /\ sweep'.at = "rest"
    BY <1>10, <1>d, KeyFacts DEF AnswerSettles, InHandApart, Sweeping
  <2>2. Counted' \subseteq Counted /\ Counted \ {k} \subseteq Counted'
    BY <1>8a, <2>1
  <2>3. ReplyToCome' = {} /\ OpenerToCome' = OpenerToCome /\ LinesToCome' = LinesToCome
    BY <1>e, <2>1 DEF ReplyToCome, OpenerToCome
  <2>4. ToCome' \subseteq ToCome
    BY <2>3 DEF ToCome
  <2> HIDE DEF k
  <2> QED
    BY <1>8, <2>1, <2>2, <2>4
\* The looks at what is left of the hour.
<1>11. ASSUME NEW c \in Convs, NEW i \in Ins, Asks(c, i)
       PROVE  CapInv'
  <2> DEFINE k == <<c, i>>
             O == OpenerToCome \union LinesToCome
  <2>1. /\ UNCHANGED <<recent, ledger, greeted, lost, worker, machines>> /\ CapLeft /\ k \in Keys
        /\ sweep.at = "rest" /\ sweep'.at = "claim" /\ sweep'.key = k
    BY <1>11, <1>b, KeyFacts DEF Asks, rows, Sweeping
  <2>2. /\ Counted' = Counted /\ OpenerToCome' = OpenerToCome /\ Unrecorded' = Unrecorded
        /\ LinesToCome' = LinesToCome
        /\ ReplyToCome = {} /\ ReplyToCome' = {k} /\ Unrecorded \subseteq OpenerToCome
    BY <1>e, <2>1 DEF Counted, OpenerToCome, Unrecorded, ReplyToCome
  <2> HIDE DEF k
  <2>3. greeted \subseteq (Counted \union Orphans) \union O
    BY <2>2 DEF Orphans
  <2>4. O \in SUBSET Keys /\ Cardinality(O) <= 1 + Cardinality(Machines)
    BY LoadIsKeys, TwoSets
  <2>5. Load' = ((Counted \union greeted) \union O) \union {k} /\ Orphans' = Orphans
    BY <2>1, <2>2 DEF Load, ToCome, Orphans
  <2> HIDE DEF O
  <2>6. /\ Cardinality(((Counted \union greeted) \union O) \union {k})
             <= Cap + 1 + Cardinality(Machines) + lost
        /\ Cap # 0
    BY <2>1, <2>3, <2>4, RoomForOne
  <2> QED
    BY <2>1, <2>5, <2>6 DEF CapInv
<1>12. CASE GoesOn
  <2> DEFINE o == Opener(worker.key[1])
             O == ReplyToCome \union LinesToCome
  <2>1. /\ UNCHANGED <<recent, ledger, greeted, lost, sweep, machines>> /\ CapLeft /\ o \in Keys
        /\ worker.at = "start" /\ worker'.at = "claim" /\ worker'.key = worker.key
    BY <1>12, <1>a, <1>c, KeyFacts DEF GoesOn, rows, seenOut, Working
  <2>2. /\ Counted' = Counted /\ ReplyToCome' = ReplyToCome /\ Unrecorded' = {} /\ Unrecorded = {}
        /\ OpenerToCome = {} /\ OpenerToCome' = {o} /\ LinesToCome' = LinesToCome
    BY <1>e, <2>1 DEF Counted, OpenerToCome, Unrecorded, ReplyToCome
  <2> HIDE DEF o
  <2>3. greeted \subseteq (Counted \union Orphans) \union O
    BY <2>2 DEF Orphans
  <2>4. O \in SUBSET Keys /\ Cardinality(O) <= 1 + Cardinality(Machines)
    BY LoadIsKeys, TwoSets
  <2>5. Load' = ((Counted \union greeted) \union O) \union {o} /\ Orphans' = Orphans
    BY <2>1, <2>2 DEF Load, ToCome, Orphans
  <2> HIDE DEF O
  <2>6. /\ Cardinality(((Counted \union greeted) \union O) \union {o})
             <= Cap + 1 + Cardinality(Machines) + lost
        /\ Cap # 0
    BY <2>1, <2>3, <2>4, RoomForOne
  <2> QED
    BY <2>1, <2>5, <2>6 DEF CapInv
<1>12a. ASSUME NEW a \in Machines, NEW c \in Convs, NEW s \in Steps, MachineLooks(a, c, s)
        PROVE  CapInv'
  <2> DEFINE k == <<c, s>>
             P == OpenerToCome \union LinesToCome
             O == ReplyToCome \union P
  <2>1. /\ UNCHANGED <<recent, ledger, greeted, lost, sweep, worker>> /\ CapLeft /\ k \in Keys
        /\ machines[a].at = "rest" /\ machines' = [machines EXCEPT ![a] = [at |-> "claim", key |-> k]]
    BY <1>12a, KeyFacts DEF MachineLooks, SayGo, rows, seenOut, Saying
  <2>2. /\ Counted' = Counted /\ ReplyToCome' = ReplyToCome /\ OpenerToCome' = OpenerToCome
        /\ Unrecorded' = Unrecorded /\ Unrecorded \subseteq OpenerToCome
    BY <2>1 DEF Counted, OpenerToCome, Unrecorded, ReplyToCome
  <2> HIDE DEF k
  <2>3. LinesToCome' = LinesToCome \union {k}
    <3>1. /\ \A b \in Machines : machines'[b] = IF b = a THEN [at |-> "claim", key |-> k] ELSE machines[b]
          /\ a \notin Claiming
      BY <1>a, <2>1 DEF Claiming
    <3>2. Claiming' = Claiming \union {a}
      BY <3>1 DEF Claiming
    <3>3. /\ machines'[a].key = k
          /\ \A b \in Claiming : machines'[b].key = machines[b].key
      BY <3>1 DEF Claiming
    <3> QED
      BY <3>2, <3>3 DEF LinesToCome, LinesOf
  <2>4. greeted \subseteq (Counted \union Orphans) \union O
    BY <2>2 DEF Orphans
  <2>5. Cardinality(LinesToCome) <= Cardinality(Machines) - 1 /\ Cardinality(Machines) - 1 \in Nat
    <3>1. /\ Claiming \subseteq Machines \ {a} /\ Claiming \subseteq Machines /\ IsFiniteSet(Machines)
          /\ Machines # {}
      BY <2>1, IntakeAssumption DEF Claiming
    <3>2. /\ IsFiniteSet(Machines \ {a}) /\ Cardinality(Machines \ {a}) = Cardinality(Machines) - 1
          /\ Cardinality(Machines) \in Nat /\ Cardinality(Machines \ {a}) \in Nat
      BY <3>1, FS_RemoveElement, FS_CardinalityType
    <3>3. Cardinality(Claiming) <= Cardinality(Machines \ {a}) /\ Cardinality(Claiming) \in Nat
      BY <3>1, <3>2, FS_Subset, FS_CardinalityType
    <3>4. Cardinality(LinesToCome) <= Cardinality(Claiming) /\ Cardinality(LinesToCome) \in Nat
      BY <3>1, LinesCount, LoadIsKeys, Counting DEF LinesToCome
    <3> QED
      BY <3>2, <3>3, <3>4
  <2>6. P \in SUBSET Keys /\ Cardinality(P) <= 1 + (Cardinality(Machines) - 1)
    BY <2>5, LoadIsKeys, TwoSets
  <2>7. Cardinality(P) <= Cardinality(Machines)
    BY <2>5, <2>6, LoadIsKeys
  <2>8. Load' = ((Counted \union greeted) \union O) \union {k} /\ Orphans' = Orphans
    BY <2>1, <2>2, <2>3 DEF Load, ToCome, Orphans
  <2> HIDE DEF P
  <2>9. O \in SUBSET Keys /\ Cardinality(O) <= 1 + Cardinality(Machines)
    BY <2>6, <2>7, LoadIsKeys, TwoSets
  <2> HIDE DEF O
  <2>10. /\ Cardinality(((Counted \union greeted) \union O) \union {k})
              <= Cap + 1 + Cardinality(Machines) + lost
         /\ Cap # 0
    BY <2>1, <2>4, <2>9, RoomForOne
  <2> QED
    BY <2>1, <2>8, <2>10 DEF CapInv
\* A machine's thread no longer about to claim has claimed, or will not.
<1>12b. ASSUME NEW a \in Machines, NEW k, machines[a].key = k,
               MachineClaims(a) \/ MachineSettles(a)
        PROVE  CapInv'
  <2>1. /\ UNCHANGED <<greeted, lost, sweep, worker>> /\ k \in Keys /\ k \in Lines
        /\ \E phase \in {"rest", "call"}, j \in {k, NoKey} : SayGo(a, phase, j)
    BY <1>12b, <1>a DEF MachineClaims, MachineSettles, seenOut, Saying
  <2>2. /\ machines'[a].at # "claim"
        /\ \A b \in Machines \ {a} : machines'[b] = machines[b]
    BY <1>a, <2>1 DEF SayGo
  <2>3. LinesToCome' \subseteq LinesToCome
    <3>1. Claiming' \subseteq Claiming /\ a \notin Claiming'
      BY <2>2 DEF Claiming
    <3>2. \A b \in Claiming' : machines'[b].key = machines[b].key
      BY <2>2, <3>1 DEF Claiming
    <3> QED
      BY <3>1, <3>2 DEF LinesToCome, LinesOf
  <2>4. ToCome' \subseteq ToCome
    BY <2>1, <2>3 DEF ToCome, ReplyToCome, OpenerToCome
  <2>5. CASE MachineClaims(a)
    <3>1. (ClaimRow(k) \/ UNCHANGED <<ledger, recent>>) /\ k \in LinesToCome
      BY <2>5, <1>12b DEF MachineClaims, LinesToCome, LinesOf, Claiming
    <3>2. Counted' \subseteq Counted \union {k} /\ Counted \ {k} \subseteq Counted' /\ k \in ToCome
      BY <1>8b, <2>1, <3>1 DEF ToCome
    <3> QED
      BY <1>8, <2>1, <2>4, <3>2
  <2>6. CASE MachineSettles(a)
    <3>1. Settles(k) /\ ledger[k] = "sending"
      BY <2>6, <1>12b DEF MachineSettles, InHandApart
    <3>2. Counted' \subseteq Counted /\ Counted \ {k} \subseteq Counted'
      BY <1>8a, <2>1, <3>1
    <3> QED
      BY <1>8, <2>1, <2>4, <3>2
  <2> QED
    BY <1>12b, <2>5, <2>6
<1>13. CASE HourPasses
  <2>1. recent' = {} /\ greeted' = {} /\ lost' = 0 /\ UNCHANGED <<sweep, worker, machines>>
    BY <1>13 DEF HourPasses
  <2>2. Counted' = {} /\ Orphans' = {} /\ ToCome' = ToCome /\ Load' = ToCome
    BY <1>e, <2>1 DEF Counted, Orphans, ToCome, ReplyToCome, OpenerToCome, Load
  <2>3. Cardinality({}) = 0
    BY FS_EmptySet
  <2> DEFINE P == ReplyToCome \union OpenerToCome
  <2>4. P \in SUBSET Keys /\ Cardinality(P) <= 1 + 1 /\ Cardinality(P) \in Nat
    BY LoadIsKeys, TwoSets, Counting
  <2>5. ToCome = P \union LinesToCome
    BY DEF ToCome
  <2> HIDE DEF P
  <2>6. /\ Cardinality(LinesToCome) \in Nat /\ Cardinality(ToCome) \in Nat
        /\ Cardinality(ToCome) <= Cardinality(P) + Cardinality(LinesToCome)
        /\ Cardinality(LinesToCome) <= Cardinality(Machines) /\ Cardinality(Machines) \in Nat
    BY <2>4, <2>5, LoadIsKeys, Counting
  <2>7. ToCome = {} \/ Cap # 0
    BY DEF CapInv
  <2>8. Cardinality(ToCome) <= Cap + 1 + Cardinality(Machines) + 0
    BY <2>3, <2>4, <2>6, <2>7, IntakeAssumption
  <2> QED
    BY <2>1, <2>2, <2>3, <2>7, <2>8 DEF CapInv
<1>14. CASE Dies \/ HandlerRaises
  <2>1. UNCHANGED <<recent, ledger, greeted>> /\ worker'.at = "rest" /\ Loses
    BY <1>14, <1>d DEF Dies, HandlerRaises, rows
  <2>2. ReplyToCome' \subseteq ReplyToCome /\ LinesToCome' \subseteq LinesToCome
    <3>1. CASE Dies
      <4>1. sweep'.at = "rest" /\ \A a \in Machines : machines'[a].at = "rest"
        BY <3>1, <1>d DEF Dies
      <4> QED
        BY <4>1 DEF ReplyToCome, LinesToCome, LinesOf, Claiming
    <3>2. CASE HandlerRaises
      BY <3>2, <1>e DEF HandlerRaises, Working, ReplyToCome
    <3> QED
      BY <1>14, <3>1, <3>2
  <2> QED
    BY <2>1, <2>2, OneMoreLost
<1> QED
  BY <1>2, <1>3, <1>5, <1>6, <1>7, <1>9, <1>10, <1>11, <1>12, <1>12a, <1>12b, <1>13, <1>14
     DEF Next, SweepStep, WorkStep, SayStep

(* What leaves the box on its own, or may have, in one hour is within the      *)
(* hourly cap but for one message of each thread beside the first that saw     *)
(* room for it (the sweep, the worker and every machine's), and one for each   *)
(* opener that went and was not recorded, by an error or a death in between    *)
(* (inbox/store.py sends_last_hour, handler.py handle, reply.py                *)
(* send_for_machine).                                                          *)
THEOREM CapHeld == Spec => []CapOvershoot
<1>1. Init => InHandApart /\ CapInv
  <2> SUFFICES ASSUME Init PROVE InHandApart /\ CapInv
    OBVIOUS
  <2>0. \A a \in Machines : machines[a].at = "rest"
    BY DEF Init, WorkRest
  <2>1. InHandApart
    BY <2>0 DEF Init, InHandApart, SweepRest
  <2>2. Counted = {} /\ Orphans = {} /\ ToCome = {} /\ Load = {}
    BY <2>0 DEF Init, Counted, Orphans, ToCome, ReplyToCome, OpenerToCome, LinesToCome, LinesOf,
                Claiming, Load, SweepRest, WorkRest
  <2>3. Cardinality({}) = 0 /\ Cardinality(Machines) \in Nat
    BY FS_EmptySet, FS_CardinalityType, IntakeAssumption
  <2> QED
    BY <2>1, <2>2, <2>3, IntakeAssumption DEF Init, CapInv
<1>2. TypeInv /\ InHandApart /\ CapInv /\ [Next]_vars => InHandApart' /\ CapInv'
  BY InHandInductive, CapInductive
<1>3. TypeInv /\ CapInv => CapOvershoot
  <2> SUFFICES ASSUME TypeInv, CapInv PROVE CapOvershoot
    OBVIOUS
  <2>1. /\ MayHaveGone \union greeted \subseteq Load /\ Load \subseteq Keys /\ lost \in Nat
        /\ Cardinality(Machines) \in Nat
    BY LoadIsKeys, TypeParts DEF MayHaveGone, Counted, Load, TypeInv, OutsideOK
  <2>2. /\ Cardinality(MayHaveGone \union greeted) \in Nat /\ Cardinality(Load) \in Nat
        /\ Cardinality(MayHaveGone \union greeted) <= Cardinality(Load)
    BY <2>1, Counting
  <2> QED
    BY <2>1, <2>2, IntakeAssumption DEF CapInv, CapOvershoot
<1> QED
  BY <1>1, <1>2, <1>3, TypeInvHolds, PTL DEF Spec
=============================================================================
