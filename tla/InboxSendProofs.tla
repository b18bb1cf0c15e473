--------------------------- MODULE InboxSendProofs ---------------------------
(* Proofs about Claims and InboxSend, for any persons, machines and keys.      *)
EXTENDS InboxSend, TLAPS

-----------------------------------------------------------------------------
(* The claims, whoever moves them *)

\* A step as the claims see it.
ClaimsMove ==
  \/ \E m \in Machines : ClaimStep(m) \/ Abandon(m)
  \/ \E t \in Takers : BeginTakeOver(t) \/ TakeOverStep(t) \/ TakeOverFails(t)
  \/ Turns
  \/ \E x \in Moments : Passes(x) /\ UNCHANGED <<claimRow, takenRow, reserved, calls>>
  \/ UNCHANGED claimVars

LEMMA ClaimsTypeStep ==
  ASSUME ClaimsTypeOK, ClaimsMove
  PROVE  ClaimsTypeOK'
<1> USE ClaimsAssumption DEF ClaimsTypeOK, claimVars, claimRow, takenRow, calls
<1>1. ASSUME NEW m \in Machines, ClaimStep(m) \/ Abandon(m)
      PROVE  ClaimsTypeOK'
  <2>1. CASE Look(m)
    BY <2>1 DEF Look
  <2>2. CASE Check(m)
    BY <2>2 DEF Check, Lift, Leave
  <2>3. CASE Upsert(m)
    <3>1. old' \in SUBSET Moments /\ holder' \in Machines \union {NoOne} /\ slipped' \in BOOLEAN
      BY <2>3 DEF Upsert
    <3> QED
      BY <2>3, <3>1 DEF Upsert, Leave
  <2>5. CASE Abandon(m)
    BY <2>5 DEF Abandon, Leave
  <2>4. CASE Release(m) \/ Reserve(m)
    BY <2>4 DEF Release, Reserve, Unheld
  <2> QED
    BY <1>1, <2>1, <2>2, <2>3, <2>4, <2>5 DEF ClaimStep
<1>2. ASSUME NEW t \in Takers, BeginTakeOver(t) \/ TakeOverStep(t) \/ TakeOverFails(t)
      PROVE  ClaimsTypeOK'
  <2> USE DEF TkGo, TkSaw, TkDone
  <2>1. CASE BeginTakeOver(t)
    BY <2>1 DEF BeginTakeOver
  <2>2. CASE ReadHolder(t)
    BY <2>2 DEF ReadHolder
  <2>3. CASE ReadReserved(t)
    BY <2>3 DEF ReadReserved
  <2>4. CASE Stamp(t)
    BY <2>4 DEF Stamp
  <2>5. CASE ReleaseSeen(t) \/ UnreserveSeen(t)
    BY <2>5 DEF ReleaseSeen, UnreserveSeen, Unheld
  <2>6. CASE TakeOverFails(t)
    BY <2>6 DEF TakeOverFails
  <2> QED
    BY <1>2, <2>1, <2>2, <2>3, <2>4, <2>5, <2>6 DEF TakeOverStep
<1>3. CASE Turns
  BY <1>3 DEF Turns, Expire, ReservationEnds, HandBack, Comment, Lift, Unheld
<1>4. ASSUME NEW x \in Moments, Passes(x), UNCHANGED <<claimRow, takenRow, reserved, calls>>
      PROVE  ClaimsTypeOK'
  BY <1>4 DEF Passes
<1> QED
  BY <1>1, <1>2, <1>3, <1>4 DEF ClaimsMove

(* The inductive step of TakeoverHolds: a claim that no take_over under way    *)
(* will end has slipped, and a check older than the takeover is remembered.    *)
LEMMA ClaimsInvStep ==
  ASSUME ClaimsTypeOK, ClaimsInv, ClaimsMove
  PROVE  ClaimsInv'
<1> USE ClaimsAssumption DEF ClaimsTypeOK, ClaimsInv, claimVars, claimRow, takenRow, calls
<1>1. ASSUME NEW m \in Machines, ClaimStep(m) \/ Abandon(m)
      PROVE  ClaimsInv'
  <2>1. CASE Look(m)
    BY <2>1 DEF Look
  <2>2. CASE Check(m)
    BY <2>2 DEF Check, Lift, Leave
  <2>3. CASE Upsert(m) \/ Abandon(m)
    BY <2>3 DEF Upsert, Abandon, Leave
  <2>4. CASE Release(m) \/ Reserve(m)
    BY <2>4 DEF Release, Reserve, Unheld
  <2> QED
    BY <1>1, <2>1, <2>2, <2>3, <2>4 DEF ClaimStep
<1>2. ASSUME NEW t \in Takers, BeginTakeOver(t) \/ TakeOverStep(t) \/ TakeOverFails(t)
      PROVE  ClaimsInv'
  <2> USE DEF TkGo, TkSaw, TkDone
  <2>1. CASE BeginTakeOver(t)
    BY <2>1 DEF BeginTakeOver
  <2>2. CASE ReadHolder(t)
    BY <2>2 DEF ReadHolder
  <2>3. CASE ReadReserved(t)
    BY <2>3 DEF ReadReserved
  <2>4. CASE Stamp(t)
    BY <2>4 DEF Stamp
  <2>5. CASE ReleaseSeen(t) \/ UnreserveSeen(t)
    BY <2>5 DEF ReleaseSeen, UnreserveSeen, Unheld
  <2>6. CASE TakeOverFails(t)
    BY <2>6 DEF TakeOverFails
  <2> QED
    BY <1>2, <2>1, <2>2, <2>3, <2>4, <2>5, <2>6 DEF TakeOverStep
<1>3. CASE Turns
  BY <1>3 DEF Turns, Expire, ReservationEnds, HandBack, Comment, Lift, Unheld
<1>4. ASSUME NEW x \in Moments, Passes(x), UNCHANGED <<claimRow, takenRow, reserved, calls>>
      PROVE  ClaimsInv'
  BY <1>4
<1> QED
  BY <1>1, <1>2, <1>3, <1>4 DEF ClaimsMove

-----------------------------------------------------------------------------
(* Type correctness *)

\* Every step of the inbox is a step of the claims, or leaves them alone.
LEMMA NextMoves ==
  ASSUME [Next]_vars, SendTypeOK
  PROVE  ClaimsMove
<1> USE SendersAssumption, KeysAssumption DEF ClaimsMove
<1>1. ASSUME NEW p \in Persons, PersonSends(p) \/ PersonGoes(p) \/ PersonLoses(p)
      PROVE  ClaimsMove
  BY <1>1 DEF PersonSends, PersonGoes, PersonLoses
<1>2. ASSUME NEW t \in Takers, TakesOver(t) \/ TakeOverLost(t)
      PROVE  ClaimsMove
  BY <1>2 DEF TakesOver, TakeOverLost
<1>3. ASSUME NEW m \in Machines,
             MachineClaims(m) \/ MachineAsks(m) \/ MachineRechecks(m) \/ MachineAbandons(m)
      PROVE  ClaimsMove
  BY <1>3 DEF MachineClaims, MachineAsks, MachineRechecks, MachineAbandons
<1>4. ASSUME NEW a \in Senders,
             \/ Sends(a) \/ Undo(a) \/ UndoFails(a) \/ VendorTakesNot(a)
             \/ Settle(a) \/ SettleFails(a) \/ MirrorFails(a) \/ Dies(a)
      PROVE  ClaimsMove
  BY <1>4 DEF Sends, Undo, UndoFails, VendorTakesNot, Settle, SettleFails, MirrorFails, Dies
<1>5. ASSUME NEW a \in Senders, VendorTakes(a) \/ Mirror(a)
      PROVE  ClaimsMove
  <2>1. Sent(KeyOf[a]) \in Moments /\ Kept(KeyOf[a]) \in Moments
    BY DEF Sent, Kept, Msgs
  <2> QED
    BY <1>5, <2>1 DEF VendorTakes, Mirror, claimVars
<1>6. ASSUME NEW m \in Msgs, Types(m) \/ PollMirrors(m)
      PROVE  ClaimsMove
  <2>1. Sent(m) \in Moments
    BY DEF Sent
  <2> QED
    BY <1>6, <2>1 DEF Types, PollMirrors
<1>7. CASE AutoAsks \/ AutoRechecks \/ OpenerAsks \/ OpenerClaims \/ OpenerSettles
  BY <1>7 DEF AutoAsks, AutoRechecks, OpenerAsks, OpenerClaims, OpenerSettles
<1>8. CASE PollEnds \/ ClaimsTurn \/ UNCHANGED vars
  BY <1>8 DEF PollEnds, ClaimsTurn, vars
<1> QED
  BY <1>1, <1>2, <1>3, <1>4, <1>5, <1>6, <1>7, <1>8 DEF Next

LEMMA SendTypeStep ==
  ASSUME SendTypeOK, [Next]_vars
  PROVE  SendTypeOK'
<1>1. ClaimsTypeOK'
  BY NextMoves, ClaimsTypeStep DEF SendTypeOK
<1> DEFINE Rows == /\ ledger \in [Keys -> {"none", "failed"} \union MayHave]
                   /\ opened \in BOOLEAN
                   /\ row \in [Msgs -> {"none", "ai", "kept", "human"}]
                   /\ pc \in [Senders -> Phases]
                   /\ went \in [Keys -> Nat]
                   /\ over \in SUBSET Senders
<1> SUFFICES Rows'
  BY <1>1 DEF SendTypeOK
<1> Rows
  BY DEF SendTypeOK
<1> USE SendersAssumption, KeysAssumption
    DEF MayHave, Phases, Rest, Owning, Go, SetRow, Resolve, Record, Answer, NewlyOvertaken
<1>2. ASSUME NEW p \in Persons, PersonSends(p) \/ PersonGoes(p) \/ PersonLoses(p)
      PROVE  Rows'
  <2> p \in Senders /\ KeyOf[p] \in Keys
    BY DEF Senders
  <2> QED
    BY <1>2 DEF PersonSends, PersonGoes, PersonLoses
<1>3. ASSUME NEW t \in Takers, TakesOver(t) \/ TakeOverLost(t)
      PROVE  Rows'
  <2>1. CASE TakesOver(t)
    <3>1. tk[t] = "release" => saw[t] \in Senders
      BY <2>1 DEF SendTypeOK, ClaimsTypeOK, Senders
    <3> QED
      BY <2>1, <3>1 DEF TakesOver
  <2> QED
    BY <1>3, <2>1 DEF TakeOverLost
<1>4. ASSUME NEW m \in Machines,
             MachineClaims(m) \/ MachineAsks(m) \/ MachineRechecks(m) \/ MachineAbandons(m)
      PROVE  Rows'
  <2> m \in Senders
    BY DEF Senders
  <2> QED
    BY <1>4 DEF MachineClaims, MachineAsks, MachineRechecks, MachineAbandons, sendVars
<1>5. ASSUME NEW a \in Senders
      PROVE  /\ Sends(a) \/ Undo(a) \/ UndoFails(a) => Rows'
             /\ VendorTakes(a) \/ VendorTakesNot(a) => Rows'
             /\ Settle(a) \/ SettleFails(a) => Rows'
             /\ Mirror(a) \/ MirrorFails(a) \/ Dies(a) => Rows'
  <2> KeyOf[a] \in Keys /\ KeyOf[a] \in Msgs
    BY DEF Msgs
  <2>1. Sends(a) \/ Undo(a) \/ UndoFails(a) => Rows'
    BY DEF Sends, Undo, UndoFails
  <2>2. VendorTakes(a) \/ VendorTakesNot(a) => Rows'
    BY DEF VendorTakes, VendorTakesNot
  <2>3. Settle(a) \/ SettleFails(a) => Rows'
    BY DEF Settle, SettleFails
  <2>4. Mirror(a) \/ MirrorFails(a) \/ Dies(a) => Rows'
    BY DEF Mirror, MirrorFails, Dies
  <2> QED
    BY <2>1, <2>2, <2>3, <2>4
<1>6. CASE AutoAsks \/ AutoRechecks
  BY <1>6 DEF AutoAsks, AutoRechecks, Senders
<1>7. CASE OpenerAsks \/ OpenerClaims \/ OpenerSettles
  BY <1>7 DEF OpenerAsks, OpenerClaims, OpenerSettles, Senders
<1>8. ASSUME NEW m \in Msgs, Types(m) \/ PollMirrors(m)
      PROVE  Rows'
  BY <1>8 DEF Types, PollMirrors, sendVars
<1>9. CASE PollEnds \/ ClaimsTurn \/ UNCHANGED vars
  BY <1>9 DEF PollEnds, ClaimsTurn, vars, sendVars
<1> QED
  BY <1>2, <1>3, <1>4, <1>5, <1>6, <1>7, <1>8, <1>9 DEF Next

(* Whatever interleaves, is refused or dies, every variable keeps its type.    *)
THEOREM SendTypeCorrect == Spec => []SendTypeOK
<1>1. Init => SendTypeOK
  <2>1. ClaimsInit => ClaimsTypeOK
    BY ClaimsAssumption DEF ClaimsInit, ClaimsTypeOK
  <2>2. Init => row \in [Msgs -> {"none", "ai", "kept", "human"}]
    BY DEF Init
  <2>3. Init => /\ ledger \in [Keys -> {"none", "failed"} \union MayHave]
                /\ pc \in [Senders -> Phases]
    BY DEF Init, MayHave, Phases, Rest
  <2>4. Init => went \in [Keys -> Nat]
    BY DEF Init
  <2>5. Init => ClaimsInit /\ opened \in BOOLEAN /\ over \in SUBSET Senders
    BY DEF Init
  <2> QED
    BY <2>1, <2>2, <2>3, <2>4, <2>5 DEF SendTypeOK
<1>2. SendTypeOK /\ [Next]_vars => SendTypeOK'
  BY SendTypeStep
<1> QED
  BY <1>1, <1>2, PTL DEF Spec

(* A machine outlives a takeover only in the three ways the code leaves open.  *)
THEOREM TakeoverHolding == Spec => []TakeoverHolds
<1>1. Init => ClaimsInv
  BY DEF Init, ClaimsInit, ClaimsInv
<1>2. SendTypeOK /\ ClaimsInv /\ [Next]_vars => ClaimsInv'
  BY NextMoves, ClaimsInvStep DEF SendTypeOK
<1>3. ClaimsInv => TakeoverHolds
  BY DEF ClaimsInv, TakeoverHolds
<1> QED
  BY <1>1, <1>2, <1>3, SendTypeCorrect, PTL DEF Spec

-----------------------------------------------------------------------------
(* The ledger, and what went *)

\* The opener's key is its own.
LEMMA OpenersKey ==
  ASSUME NEW a \in Senders
  PROVE  /\ KeyOf[a] \in Keys
         /\ IsOpener(KeyOf[a]) <=> a = Opener
BY SendersAssumption, KeysAssumption DEF IsOpener, Automatic, Senders

LEMMA SendInvStep ==
  ASSUME SendTypeOK, SendInv, [Next]_vars
  PROVE  SendInv'
<1> USE SendersAssumption, KeysAssumption, OpenersKey
    DEF SendTypeOK, SendInv, LedgerTrue, IsOpener, MayHave, Owning, Rest, FreeKey,
        Go, SetRow, Resolve, Answer
<1>1. ASSUME NEW p \in Persons
      PROVE  /\ PersonSends(p) => SendInv'
             /\ PersonGoes(p) \/ PersonLoses(p) => SendInv'
  <2> p \in Senders /\ p # Opener
    BY DEF Senders
  <2>1. PersonSends(p) => SendInv'
    BY DEF PersonSends
  <2>2. PersonGoes(p) \/ PersonLoses(p) => SendInv'
    BY DEF PersonGoes, PersonLoses
  <2> QED
    BY <2>1, <2>2
<1>2. ASSUME NEW t \in Takers, TakesOver(t) \/ TakeOverLost(t)
      PROVE  SendInv'
  BY <1>2 DEF TakesOver, TakeOverLost
<1>3. ASSUME NEW m \in Machines,
             MachineClaims(m) \/ MachineAsks(m) \/ MachineRechecks(m) \/ MachineAbandons(m)
      PROVE  SendInv'
  <2> m \in Senders /\ m # Opener
    BY DEF Senders
  <2> QED
    BY <1>3 DEF MachineClaims, MachineAsks, MachineRechecks, MachineAbandons, sendVars
<1>5. ASSUME NEW a \in Senders
      PROVE  /\ Sends(a) => SendInv'
             /\ Undo(a) \/ UndoFails(a) => SendInv'
             /\ VendorTakes(a) => SendInv'
             /\ VendorTakesNot(a) => SendInv'
             /\ Settle(a) => SendInv'
             /\ SettleFails(a) => SendInv'
             /\ Mirror(a) \/ MirrorFails(a) \/ Dies(a) => SendInv'
  <2>1. Sends(a) => SendInv'
    BY DEF Sends
  <2>2. Undo(a) \/ UndoFails(a) => SendInv'
    BY DEF Undo, UndoFails
  <2>3. VendorTakes(a) => SendInv'
    BY DEF VendorTakes
  <2>4. VendorTakesNot(a) => SendInv'
    BY DEF VendorTakesNot
  <2>5. Settle(a) => SendInv'
    BY DEF Settle
  <2>6. SettleFails(a) => SendInv'
    BY DEF SettleFails
  <2>7. Mirror(a) \/ MirrorFails(a) \/ Dies(a) => SendInv'
    BY DEF Mirror, MirrorFails, Dies
  <2> QED
    BY <2>1, <2>2, <2>3, <2>4, <2>5, <2>6, <2>7
<1>6. CASE AutoAsks \/ AutoRechecks
  BY <1>6 DEF AutoAsks, AutoRechecks, Senders
<1>7. CASE OpenerAsks \/ OpenerClaims \/ OpenerSettles
  <2> Opener \in Senders
    BY <1>7 DEF Senders, OpenerAsks, OpenerClaims, OpenerSettles
  <2>1. CASE OpenerAsks
    BY <2>1 DEF OpenerAsks
  <2>2. CASE OpenerClaims
    BY <2>2 DEF OpenerClaims
  <2>3. CASE OpenerSettles
    <3>1. KeyOf[Opener] \in Keys
      OBVIOUS
    <3>2. CASE pc[Opener] = "ok"
      BY <2>3, <3>1, <3>2 DEF OpenerSettles
    <3>3. CASE pc[Opener] = "unsure"
      BY <2>3, <3>1, <3>3 DEF OpenerSettles
    <3>4. CASE pc[Opener] = "refused"
      BY <2>3, <3>1, <3>4 DEF OpenerSettles
    <3> QED
      BY <2>3, <3>2, <3>3, <3>4 DEF OpenerSettles
  <2> QED
    BY <1>7, <2>1, <2>2, <2>3
<1>8. ASSUME NEW m \in Msgs, Types(m) \/ PollMirrors(m)
      PROVE  SendInv'
  BY <1>8 DEF Types, PollMirrors, sendVars
<1>9. CASE PollEnds \/ ClaimsTurn \/ UNCHANGED vars
  BY <1>9 DEF PollEnds, ClaimsTurn, vars, sendVars
<1> QED
  BY <1>1, <1>2, <1>3, <1>5, <1>6, <1>7, <1>8, <1>9 DEF Next

LEMMA SendInvHolds == Spec => [](SendTypeOK /\ SendInv)
<1>1. Init => SendInv
  BY OpenersKey DEF Init, SendInv, LedgerTrue, Owning, MayHave
<1>2. SendTypeOK /\ SendInv /\ [Next]_vars => SendInv'
  BY SendInvStep
<1> QED
  BY <1>1, <1>2, SendTypeCorrect, PTL DEF Spec

(* Every send's row says what became of the message, for any interleaving.     *)
THEOREM LedgerIsTrue == Spec => []LedgerTrue
<1>1. SendInv => LedgerTrue
  BY DEF SendInv
<1> QED
  BY <1>1, SendInvHolds, PTL

(* A person who is told that a reply went, or that nothing did, is told so     *)
(* truly.                                                                      *)
THEOREM ToldTruly == Spec => ToldTrue
<1> DEFINE Told == \A p \in Persons : pc'[p] # pc[p] =>
                     /\ pc'[p] = "sent" => went[KeyOf[p]] = 1
                     /\ pc'[p] = "not" => went[KeyOf[p]] = 0
<1>1. ASSUME SendTypeOK, SendInv, [Next]_vars, pc' # pc
      PROVE  Told
  <2> SUFFICES ASSUME NEW p \in Persons, pc'[p] # pc[p], pc'[p] \in {"sent", "not"}
               PROVE  /\ pc'[p] = "sent" => went[KeyOf[p]] = 1
                      /\ pc'[p] = "not" => went[KeyOf[p]] = 0
    OBVIOUS
  <2> p \in Senders
    BY DEF Senders
  <2> p # Opener /\ p # AutoReply
    BY SendersAssumption
  <2> USE <1>1, SendersAssumption, KeysAssumption, OpenersKey
      DEF SendTypeOK, SendInv, LedgerTrue, Go, Answer
  <2>1. ASSUME NEW q \in Persons, PersonSends(q) \/ PersonGoes(q) \/ PersonLoses(q)
        PROVE  Told!(p)
    <3> q \in Senders
      BY DEF Senders
    <3> QED
      BY <2>1 DEF PersonSends, PersonGoes, PersonLoses
  <2>2. ASSUME NEW t \in Takers, TakesOver(t) \/ TakeOverLost(t)
        PROVE  FALSE
    BY <2>2 DEF TakesOver, TakeOverLost
  <2>3. ASSUME NEW m \in Machines,
               MachineClaims(m) \/ MachineAsks(m) \/ MachineRechecks(m) \/ MachineAbandons(m)
        PROVE  FALSE
    BY <2>3 DEF MachineClaims, MachineAsks, MachineRechecks, MachineAbandons, sendVars
  <2>4. ASSUME NEW a \in Senders,
               Sends(a) \/ Undo(a) \/ UndoFails(a) \/ VendorTakes(a) \/ VendorTakesNot(a)
               \/ Dies(a)
        PROVE  FALSE
    BY <2>4 DEF Sends, Undo, UndoFails, VendorTakes, VendorTakesNot, Dies
  <2>5. ASSUME NEW a \in Senders,
               Settle(a) \/ SettleFails(a) \/ Mirror(a) \/ MirrorFails(a)
        PROVE  Told!(p)
    BY <2>5 DEF Settle, SettleFails, Mirror, MirrorFails
  <2>6. ASSUME NEW a \in Own, NEW s, Go(a, s)
        PROVE  FALSE
    BY <2>6
  <2>6a. CASE AutoAsks \/ AutoRechecks
    BY <2>6, <2>6a DEF AutoAsks, AutoRechecks
  <2>6b. CASE OpenerAsks \/ OpenerClaims
    BY <2>6, <2>6b DEF OpenerAsks, OpenerClaims
  <2>6c. CASE OpenerSettles
    BY <2>6, <2>6c DEF OpenerSettles
  <2>7. CASE (\E m \in Msgs : Types(m) \/ PollMirrors(m)) \/ PollEnds \/ ClaimsTurn
    BY <2>7 DEF Types, PollMirrors, PollEnds, ClaimsTurn, sendVars
  <2> QED
    BY <2>1, <2>2, <2>3, <2>4, <2>5, <2>6a, <2>6b, <2>6c, <2>7 DEF Next, vars, sendVars
<1>2. SendTypeOK /\ SendInv /\ [Next]_vars => [Told]_pc
  BY <1>1
<1> QED
  BY <1>2, SendInvHolds, PTL DEF Spec, ToldTrue

-----------------------------------------------------------------------------
(* The inbox implements SendOnce *)

LEMMA KeyMoves ==
  ASSUME NEW k \in Keys, NEW s, KeyState(k)' = s,
         \A j \in Keys \ {k} : KeyState(j)' = KeyState(j)
  PROVE  Once!Becomes(k, s)
BY DEF Once!Becomes

LEMMA KeysStay ==
  ASSUME UNCHANGED <<ledger, opened, went>>
  PROVE  UNCHANGED Once!onceVars
BY DEF Once!onceVars, KeyState, KeyFree, KeyTaken

LEMMA OnceStep ==
  ASSUME SendTypeOK, SendInv, [Next]_vars
  PROVE  [Once!Next]_(Once!onceVars)
<1> USE SendersAssumption, KeysAssumption, OpenersKey
<1> DEFINE Goal == [Once!Next]_(Once!onceVars)
<1>1. ASSUME NEW a \in Senders, a # Opener,
             FreeKey(KeyOf[a]), SetRow(KeyOf[a], "sending"), UNCHANGED <<opened, went>>
      PROVE  Goal
  <2>1. KeyState(KeyOf[a]) = "free" /\ KeyState(KeyOf[a])' = "taken"
    BY <1>1 DEF KeyState, KeyFree, KeyTaken, FreeKey, SetRow, SendTypeOK
  <2>2. \A j \in Keys \ {KeyOf[a]} : KeyState(j)' = KeyState(j)
    BY <1>1 DEF KeyState, KeyFree, KeyTaken, SetRow, SendTypeOK
  <2>3. went[KeyOf[a]] = 0
    BY <1>1 DEF SendInv, LedgerTrue, FreeKey
  <2> QED
    BY <1>1, <2>1, <2>2, <2>3, KeyMoves DEF Once!Next, Once!Take
<1>2. ASSUME NEW a \in Senders, a # Opener, NEW s \in {"failed", "ok", "indeterminate"},
             pc[a] \in Owning, s = "failed" => went[KeyOf[a]] = 0,
             Resolve(KeyOf[a], s), UNCHANGED <<opened, went>>
      PROVE  Goal
  <2>1. ledger[KeyOf[a]] = "sending"
    BY <1>2 DEF SendInv
  <2>2. KeyState(KeyOf[a]) = "taken"
        /\ KeyState(KeyOf[a])' = IF s = "failed" THEN "free" ELSE "closed"
    BY <1>2, <2>1 DEF KeyState, KeyFree, KeyTaken, Resolve, SetRow, SendTypeOK
  <2>3. \A j \in Keys \ {KeyOf[a]} : KeyState(j)' = KeyState(j)
    BY <1>2 DEF KeyState, KeyFree, KeyTaken, Resolve, SetRow, SendTypeOK
  <2> QED
    BY <1>2, <2>2, <2>3, KeyMoves DEF Once!Next, Once!Free, Once!Close
<1>3. ASSUME NEW p \in Persons, PersonSends(p) \/ PersonGoes(p) \/ PersonLoses(p)
      PROVE  Goal
  <2> p \in Senders /\ p # Opener
    BY DEF Senders
  <2> QED
    BY <1>1, <1>3, KeysStay DEF PersonSends, PersonGoes, PersonLoses
<1>4. ASSUME NEW a \in Senders, Sends(a) \/ Undo(a) \/ UndoFails(a)
      PROVE  Goal
  <2>1. CASE Sends(a)
    BY <1>1, <2>1, KeysStay DEF Sends
  <2>2. CASE Undo(a)
    <3>1. a # Opener
      BY <2>2 DEF Undo, SendInv
    <3> QED
      BY <1>2, <2>2, <3>1 DEF Undo, SendInv, Owning
  <2>3. CASE UndoFails(a)
    BY <2>3, KeysStay DEF UndoFails
  <2> QED
    BY <1>4, <2>1, <2>2, <2>3
<1>5. ASSUME NEW a \in Senders, VendorTakes(a)
      PROVE  Goal
  <2>1. KeyState(KeyOf[a]) = "taken" /\ went[KeyOf[a]] = 0
    BY <1>5 DEF VendorTakes, KeyState, KeyFree, KeyTaken, SendInv, Owning
  <2>2. \A j \in Keys : KeyState(j)' = KeyState(j)
    BY <1>5 DEF VendorTakes, KeyState, KeyFree, KeyTaken
  <2>3. went' = [went EXCEPT ![KeyOf[a]] = 1]
    BY <1>5, <2>1 DEF VendorTakes, SendTypeOK
  <2> QED
    BY <2>1, <2>2, <2>3 DEF Once!Next, Once!Send
<1>6. ASSUME NEW a \in Senders, Settle(a)
      PROVE  Goal
  <2>1. CASE pc[a] = "ok"
    BY <1>2, <1>6, <2>1 DEF Settle, Owning
  <2>2. CASE pc[a] = "unsure"
    BY <1>2, <1>6, <2>2 DEF Settle, Owning
  <2>3. CASE pc[a] = "refused"
    BY <1>2, <1>6, <2>3 DEF Settle, Owning, SendInv
  <2> QED
    BY <1>6, <2>1, <2>2, <2>3 DEF Settle
<1>7. ASSUME NEW a \in Senders,
             VendorTakesNot(a) \/ SettleFails(a) \/ Mirror(a) \/ MirrorFails(a) \/ Dies(a)
      PROVE  Goal
  BY <1>7, KeysStay DEF VendorTakesNot, SettleFails, Mirror, MirrorFails, Dies
<1>8. CASE OpenerClaims
  <2> DEFINE k == KeyOf[Opener]
  <2>0. Opener \in Senders /\ k \in Keys /\ IsOpener(k)
    BY <1>8 DEF OpenerClaims, Senders
  <2>1. CASE opened
    BY <1>8, <2>1, KeysStay DEF OpenerClaims, SendTypeOK
  <2>2. CASE ~opened
    <3>1. KeyState(k) = "free" /\ went[k] = 0 /\ KeyState(k)' = "taken"
      BY <1>8, <2>0, <2>2 DEF OpenerClaims, SendInv, KeyState, KeyFree, KeyTaken
    <3>2. \A j \in Keys \ {k} : KeyState(j)' = KeyState(j)
      BY <1>8, <2>0 DEF OpenerClaims, KeyState, KeyFree, KeyTaken, IsOpener
    <3> QED
      BY <1>8, <2>0, <3>1, <3>2, KeyMoves DEF OpenerClaims, Once!Next, Once!Take
  <2> QED
    BY <2>1, <2>2
<1>9. CASE OpenerSettles
  <2> DEFINE k == KeyOf[Opener]
  <2>0. Opener \in Senders /\ k \in Keys /\ IsOpener(k)
    BY <1>9 DEF OpenerSettles, Senders
  <2>1. KeyState(k) = "taken" /\ opened /\ ledger[k] = "none"
    BY <1>9, <2>0 DEF OpenerSettles, SendInv, Owning, KeyState, KeyFree, KeyTaken
  <2>2. \A j \in Keys \ {k} : KeyState(j)' = KeyState(j)
    BY <1>9, <2>0 DEF OpenerSettles, SetRow, KeyState, KeyFree, KeyTaken, IsOpener, SendTypeOK
  <2>3. CASE pc[Opener] \in {"ok", "unsure"}
    <3>1. KeyState(k)' = "closed"
      BY <1>9, <2>0, <2>1, <2>3 DEF OpenerSettles, SetRow, KeyState, KeyFree, KeyTaken,
         SendTypeOK, IsOpener
    <3> QED
      BY <1>9, <2>0, <2>1, <2>2, <3>1, KeyMoves DEF OpenerSettles, Once!Next, Once!Close
  <2>4. CASE pc[Opener] = "refused"
    <3>1. went[k] = 0
      BY <2>0, <2>4 DEF SendInv
    <3>2. CASE opened'
      BY <1>9, <2>1, <2>4, <3>2, KeysStay DEF OpenerSettles
    <3>3. CASE ~opened'
      <4>1. KeyState(k)' = "free"
        BY <2>0, <3>3 DEF KeyState, KeyFree, IsOpener
      <4> QED
        BY <1>9, <2>0, <2>1, <2>2, <3>1, <4>1, KeyMoves DEF OpenerSettles, Once!Next, Once!Free
    <3> QED
      BY <3>2, <3>3
  <2> QED
    BY <1>9, <2>3, <2>4 DEF OpenerSettles
<1>10. CASE OpenerAsks \/ AutoAsks \/ AutoRechecks \/ PollEnds \/ ClaimsTurn \/ UNCHANGED vars
  BY <1>10, KeysStay
     DEF OpenerAsks, AutoAsks, AutoRechecks, PollEnds, ClaimsTurn, vars, sendVars
<1>11. ASSUME NEW m \in Msgs, Types(m) \/ PollMirrors(m)
       PROVE  Goal
  BY <1>11, KeysStay DEF Types, PollMirrors, sendVars
<1>12. ASSUME NEW t \in Takers, TakesOver(t) \/ TakeOverLost(t)
       PROVE  Goal
  BY <1>12, KeysStay DEF TakesOver, TakeOverLost
<1>13. ASSUME NEW m \in Machines,
              MachineClaims(m) \/ MachineAsks(m) \/ MachineRechecks(m) \/ MachineAbandons(m)
       PROVE  Goal
  BY <1>13, KeysStay DEF MachineClaims, MachineAsks, MachineRechecks, MachineAbandons, sendVars
<1> QED
  BY <1>3, <1>4, <1>5, <1>6, <1>7, <1>8, <1>9, <1>10, <1>11, <1>12, <1>13 DEF Next

(* EXACTLY ONCE, as far as a vendor who may not answer allows: every key's     *)
(* message goes at most once, for any senders, retries, kills and answers.     *)
THEOREM SendsOnce == Spec => ImplementsOnce
<1>1. Init => Once!Init
  BY DEF Init, Once!Init, KeyState, KeyFree
<1>2. SendTypeOK /\ SendInv /\ [Next]_vars => [Once!Next]_(Once!onceVars)
  BY OnceStep
<1> QED
  BY <1>1, <1>2, SendInvHolds, PTL DEF Spec, ImplementsOnce, Once!Spec

-----------------------------------------------------------------------------
(* A person wins *)

LEMMA Times ==
  ASSUME NEW m \in Msgs, NEW k \in Msgs
  PROVE  /\ Sent(m) # Kept(k)
         /\ Sent(m) = Sent(k) => m = k
         /\ Kept(m) = Kept(k) => m = k
BY DEF Sent, Kept

\* The only times a step adds, and the only claim's it copies.
LEMMA TimesMove ==
  ASSUME SendTypeOK, [Next]_vars
  PROVE  /\ \/ past' = past
            \/ \E m \in Msgs : past' = past \union {Sent(m)}
            \/ \E a \in Senders : pc[a] = "mirror" /\ past' = past \union {Kept(KeyOf[a])}
         /\ \/ old' = old \/ old' = {}
            \/ \E c \in Machines : old' = now[c]
         /\ \A c \in Machines : now'[c] = now[c] \/ now'[c] = {} \/ now'[c] = past
<1> DEFINE Goal ==
         /\ \/ past' = past
            \/ \E m \in Msgs : past' = past \union {Sent(m)}
            \/ \E a \in Senders : pc[a] = "mirror" /\ past' = past \union {Kept(KeyOf[a])}
         /\ \/ old' = old \/ old' = {}
            \/ \E c \in Machines : old' = now[c]
         /\ \A c \in Machines : now'[c] = now[c] \/ now'[c] = {} \/ now'[c] = past
<1> USE SendersAssumption, KeysAssumption, OpenersKey DEF claimVars, claimRow, calls
<1>1. ASSUME NEW m \in Machines, ClaimStep(m) \/ Abandon(m)
      PROVE  Goal
  BY <1>1 DEF ClaimStep, Look, Check, Upsert, Release, Reserve, Abandon, Leave, Unheld,
              SendTypeOK, ClaimsTypeOK
<1>2. ASSUME NEW t \in Takers, BeginTakeOver(t) \/ TakeOverStep(t) \/ TakeOverFails(t)
      PROVE  Goal
  BY <1>2 DEF BeginTakeOver, TakeOverStep, ReadHolder, ReadReserved, Stamp, ReleaseSeen,
              UnreserveSeen, TakeOverFails, Unheld
<1>3. CASE Turns \/ UNCHANGED claimVars
  BY <1>3 DEF Turns, Expire, ReservationEnds, HandBack, Comment, Unheld
<1>4. ASSUME NEW p \in Persons, PersonSends(p) \/ PersonGoes(p) \/ PersonLoses(p)
      PROVE  Goal
  BY <1>2, <1>3, <1>4 DEF PersonSends, PersonGoes, PersonLoses
<1>5. ASSUME NEW t \in Takers, TakesOver(t) \/ TakeOverLost(t)
      PROVE  Goal
  BY <1>2, <1>5 DEF TakesOver, TakeOverLost
<1>6. ASSUME NEW m \in Machines,
             MachineClaims(m) \/ MachineAsks(m) \/ MachineRechecks(m) \/ MachineAbandons(m)
      PROVE  Goal
  BY <1>1, <1>2, <1>3, <1>6 DEF MachineClaims, MachineAsks, MachineRechecks, MachineAbandons
<1>7. ASSUME NEW a \in Senders,
             \/ Sends(a) \/ Undo(a) \/ UndoFails(a) \/ VendorTakesNot(a)
             \/ Settle(a) \/ SettleFails(a) \/ MirrorFails(a) \/ Dies(a)
      PROVE  Goal
  BY <1>2, <1>3, <1>7
     DEF Sends, Undo, UndoFails, VendorTakesNot, Settle, SettleFails, MirrorFails, Dies
<1>8. ASSUME NEW a \in Senders, VendorTakes(a) \/ Mirror(a)
      PROVE  Goal
  <2> KeyOf[a] \in Msgs
    BY DEF Msgs
  <2> QED
    BY <1>8 DEF VendorTakes, Mirror, Passes
<1>9. ASSUME NEW m \in Msgs, Types(m) \/ PollMirrors(m)
      PROVE  Goal
  BY <1>9 DEF Types, PollMirrors, Passes
<1>10. CASE AutoAsks \/ AutoRechecks \/ OpenerAsks \/ OpenerClaims \/ OpenerSettles
  BY <1>3, <1>10 DEF AutoAsks, AutoRechecks, OpenerAsks, OpenerClaims, OpenerSettles
<1>11. CASE PollEnds \/ ClaimsTurn \/ UNCHANGED vars
  BY <1>2, <1>3, <1>11 DEF PollEnds, ClaimsTurn, vars
<1> QED
  BY <1>4, <1>5, <1>6, <1>7, <1>8, <1>9, <1>10, <1>11 DEF Next

\* A message that went stays gone, and who sent it mirrors it afterwards.
LEMMA PhaseOfWent ==
  ASSUME SendTypeOK, [Next]_vars, NEW b \in Senders, pc'[b] \in {"ok", "mirror"}
  PROVE  pc[b] \in {"ok", "mirror"} \/ Sent(KeyOf[b]) \in past'
<1> USE SendersAssumption, KeysAssumption, OpenersKey
    DEF SendTypeOK, Go, Answer, Rest
<1>1. ASSUME NEW p \in Persons, PersonSends(p) \/ PersonGoes(p) \/ PersonLoses(p)
      PROVE  pc[b] \in {"ok", "mirror"}
  BY <1>1 DEF PersonSends, PersonGoes, PersonLoses
<1>2. ASSUME NEW t \in Takers, TakesOver(t) \/ TakeOverLost(t)
      PROVE  pc[b] \in {"ok", "mirror"}
  BY <1>2 DEF TakesOver, TakeOverLost
<1>3. ASSUME NEW m \in Machines,
             MachineClaims(m) \/ MachineAsks(m) \/ MachineRechecks(m) \/ MachineAbandons(m)
      PROVE  pc[b] \in {"ok", "mirror"}
  BY <1>3 DEF MachineClaims, MachineAsks, MachineRechecks, MachineAbandons, sendVars
<1>4. ASSUME NEW a \in Senders,
             \/ Sends(a) \/ Undo(a) \/ UndoFails(a) \/ VendorTakesNot(a)
             \/ Settle(a) \/ SettleFails(a) \/ Mirror(a) \/ MirrorFails(a) \/ Dies(a)
      PROVE  pc[b] \in {"ok", "mirror"}
  BY <1>4 DEF Sends, Undo, UndoFails, VendorTakesNot, Settle, SettleFails, Mirror,
              MirrorFails, Dies
<1>5. ASSUME NEW a \in Senders, VendorTakes(a)
      PROVE  pc[b] \in {"ok", "mirror"} \/ Sent(KeyOf[b]) \in past'
  BY <1>5 DEF VendorTakes, Passes
<1>6. CASE AutoAsks \/ AutoRechecks \/ OpenerAsks \/ OpenerClaims \/ OpenerSettles
  <2>1. CASE AutoAsks \/ AutoRechecks
    BY <2>1 DEF AutoAsks, AutoRechecks
  <2>2. CASE OpenerAsks \/ OpenerClaims
    BY <2>2 DEF OpenerAsks, OpenerClaims
  <2>3. CASE OpenerSettles
    BY <2>3 DEF OpenerSettles
  <2> QED
    BY <1>6, <2>1, <2>2, <2>3
<1>7. CASE (\E m \in Msgs : Types(m) \/ PollMirrors(m)) \/ PollEnds \/ ClaimsTurn \/ UNCHANGED vars
  BY <1>7 DEF Types, PollMirrors, PollEnds, ClaimsTurn, vars, sendVars
<1> QED
  BY <1>1, <1>2, <1>3, <1>4, <1>5, <1>6, <1>7 DEF Next

LEMMA TimesInvStep ==
  ASSUME SendTypeOK, TimesInv, [Next]_vars
  PROVE  TimesInv'
<1>1. past \subseteq past'
  BY TimesMove
<1>2. ASSUME NEW b \in Senders, pc'[b] \in {"ok", "mirror"}
      PROVE  Sent(KeyOf[b]) \in past'
  BY <1>1, <1>2, PhaseOfWent DEF TimesInv
<1>3. ASSUME NEW m \in Msgs, Kept(m) \in past'
      PROVE  Sent(m) \in past'
  <2>1. CASE Kept(m) \in past
    BY <1>1, <2>1 DEF TimesInv
  <2>2. ASSUME NEW k \in Msgs, past' = past \union {Sent(k)}
        PROVE  Kept(m) \in past
    BY <1>3, <2>2, Times
  <2>3. ASSUME NEW a \in Senders, pc[a] = "mirror", past' = past \union {Kept(KeyOf[a])},
               Kept(m) \notin past
        PROVE  Sent(m) \in past'
    <3>1. KeyOf[a] \in Msgs
      BY OpenersKey DEF Msgs
    <3>2. m = KeyOf[a]
      BY <1>3, <2>3, <3>1, Times
    <3> QED
      BY <1>1, <2>3, <3>2 DEF TimesInv
  <2> QED
    BY <1>3, <2>1, <2>2, <2>3, TimesMove
<1>4. ASSUME NEW m \in Msgs
      PROVE  /\ Kept(m) \in old' => Sent(m) \in old'
             /\ \A c \in Machines : Kept(m) \in now'[c] => Sent(m) \in now'[c]
  BY TimesMove DEF TimesInv
<1> QED
  BY <1>2, <1>3, <1>4 DEF TimesInv

\* A machine past its ledger claim gets the conversation from no step it lost it to.
LEMMA ClaimStays ==
  ASSUME SendTypeOK, [Next]_vars, NEW a \in Machines, pc[a] = "recheck", holder' = a
  PROVE  holder = a /\ old' = old
<1> USE SendersAssumption, ClaimsAssumption DEF claimVars, claimRow, SendTypeOK, ClaimsTypeOK
<1> DEFINE Goal == holder = a /\ old' = old
<1>1. ASSUME NEW m \in Machines, ClaimStep(m) \/ Abandon(m), m # a \/ ~Upsert(m)
      PROVE  Goal
  <2>1. CASE Upsert(m)
    BY <1>1, <2>1 DEF Upsert
  <2>2. CASE Look(m) \/ Check(m) \/ Reserve(m) \/ Abandon(m)
    BY <2>2 DEF Look, Check, Reserve, Abandon
  <2>3. CASE Release(m)
    BY <2>3 DEF Release, Unheld
  <2> QED
    BY <1>1, <2>1, <2>2, <2>3 DEF ClaimStep
<1>2. ASSUME NEW t \in Takers, BeginTakeOver(t) \/ TakeOverStep(t) \/ TakeOverFails(t)
      PROVE  Goal
  BY <1>2 DEF BeginTakeOver, TakeOverStep, ReadHolder, ReadReserved, Stamp, ReleaseSeen,
              UnreserveSeen, TakeOverFails, Unheld
<1>3. CASE Turns \/ UNCHANGED claimVars
  BY <1>3 DEF Turns, Expire, ReservationEnds, HandBack, Comment, Unheld
<1>4. ASSUME NEW p \in Persons, PersonSends(p) \/ PersonGoes(p) \/ PersonLoses(p)
      PROVE  Goal
  BY <1>2, <1>3, <1>4 DEF PersonSends, PersonGoes, PersonLoses
<1>5. ASSUME NEW t \in Takers, TakesOver(t) \/ TakeOverLost(t)
      PROVE  Goal
  BY <1>2, <1>5 DEF TakesOver, TakeOverLost
<1>6. ASSUME NEW m \in Machines,
             MachineClaims(m) \/ MachineAsks(m) \/ MachineRechecks(m) \/ MachineAbandons(m)
      PROVE  Goal
  <2>1. CASE MachineClaims(m)
    BY <1>1, <2>1 DEF MachineClaims
  <2>2. CASE MachineAbandons(m)
    BY <1>1, <2>2 DEF MachineAbandons, Abandon
  <2> QED
    BY <1>2, <1>3, <1>6, <2>1, <2>2 DEF MachineAsks, MachineRechecks
<1>7. ASSUME NEW b \in Senders,
             \/ Sends(b) \/ Undo(b) \/ UndoFails(b) \/ VendorTakesNot(b)
             \/ Settle(b) \/ SettleFails(b) \/ MirrorFails(b) \/ Dies(b)
      PROVE  Goal
  BY <1>2, <1>3, <1>7
     DEF Sends, Undo, UndoFails, VendorTakesNot, Settle, SettleFails, MirrorFails, Dies
<1>8. ASSUME NEW b \in Senders, VendorTakes(b) \/ Mirror(b)
      PROVE  Goal
  BY <1>8 DEF VendorTakes, Mirror
<1>9. ASSUME NEW m \in Msgs, Types(m) \/ PollMirrors(m)
      PROVE  Goal
  BY <1>9 DEF Types, PollMirrors
<1>10. CASE AutoAsks \/ AutoRechecks \/ OpenerAsks \/ OpenerClaims \/ OpenerSettles
  BY <1>3, <1>10 DEF AutoAsks, AutoRechecks, OpenerAsks, OpenerClaims, OpenerSettles
<1>11. CASE PollEnds \/ ClaimsTurn \/ UNCHANGED vars
  BY <1>2, <1>3, <1>11 DEF PollEnds, ClaimsTurn, vars
<1> QED
  BY <1>4, <1>5, <1>6, <1>7, <1>8, <1>9, <1>10, <1>11 DEF Next

\* What a sender's last look will find.
Late(a) ==
  IF a \in Machines
  THEN \/ holder # a
       \/ \E m \in Msgs : row[m] \in {"kept", "human"} /\ Sent(m) \notin old
  ELSE \E m \in Msgs : row[m] # "none"

LEMMA RowsStay ==
  ASSUME SendTypeOK, [Next]_vars, NEW m \in Msgs
  PROVE  /\ row[m] # "none" => row'[m] # "none"
         /\ row[m] \in {"kept", "human"} => row'[m] \in {"kept", "human"}
<1> DEFINE Goal == /\ row[m] # "none" => row'[m] # "none"
                   /\ row[m] \in {"kept", "human"} => row'[m] \in {"kept", "human"}
<1> USE SendersAssumption, KeysAssumption DEF SendTypeOK, sendVars
<1>1. ASSUME NEW a \in Senders, Mirror(a)
      PROVE  Goal
  BY <1>1 DEF Mirror, Record
<1>2. ASSUME NEW k \in Msgs, PollMirrors(k)
      PROVE  Goal
  BY <1>2 DEF PollMirrors
<1>3. CASE UNCHANGED row
  BY <1>3
<1>4. (\A a \in Senders : ~Mirror(a)) /\ (\A k \in Msgs : ~PollMirrors(k)) => UNCHANGED row
  BY DEF Next, PersonSends, PersonGoes, PersonLoses, TakesOver, TakeOverLost, MachineClaims,
         MachineAsks, MachineRechecks, MachineAbandons, Sends, Undo, UndoFails, VendorTakes,
         VendorTakesNot, Settle, SettleFails, MirrorFails, Dies, AutoAsks, AutoRechecks,
         OpenerAsks, OpenerClaims, OpenerSettles, Types, PollEnds, ClaimsTurn, vars
<1> QED
  BY <1>1, <1>2, <1>3, <1>4

LEMMA LateStays ==
  ASSUME SendTypeOK, [Next]_vars, NEW a \in Senders, pc[a] = "recheck", Late(a)
  PROVE  Late(a)'
<1>1. CASE a \in Machines
  BY <1>1, ClaimStays, RowsStay DEF Late
<1>2. CASE a \notin Machines
  BY <1>2, RowsStay DEF Late
<1> QED
  BY <1>1, <1>2

\* A sender becomes overtaken only before its last look, which will then fail.
LEMMA Overtaking ==
  ASSUME SendTypeOK, OvertakenInv, [Next]_vars, NEW a \in over', a \notin over
  PROVE  pc[a] = "recheck" /\ pc'[a] = "recheck" /\ Late(a)'
<1> USE SendersAssumption, KeysAssumption, ClaimsAssumption, OpenersKey
    DEF SendTypeOK, sendVars
<1> DEFINE Goal == pc[a] = "recheck" /\ pc'[a] = "recheck" /\ Late(a)'
<1>1. ASSUME NEW t \in Takers, TakesOver(t)
      PROVE  Goal
  <2>1. tk[t] = "release" /\ a = saw[t] /\ pc[a] = "recheck" /\ pc' = pc
    BY <1>1 DEF TakesOver
  <2>2. a \in Machines /\ a # NoOne
    BY <2>1 DEF ClaimsTypeOK
  <2>3. ReleaseSeen(t)
    BY <1>1, <2>1 DEF TakesOver, TakeOverStep, ReadHolder, ReadReserved, Stamp, UnreserveSeen
  <2>4. holder' # a
    BY <2>1, <2>2, <2>3 DEF ReleaseSeen, Unheld, claimRow
  <2> QED
    BY <2>1, <2>2, <2>4 DEF Late
<1>2. ASSUME NEW m \in Msgs, a \in NewlyOvertaken(m), row'[m] \in {"kept", "human"}, old' = old
      PROVE  pc[a] = "recheck" /\ Late(a)'
  BY <1>2 DEF NewlyOvertaken, Late
<1>3. ASSUME NEW b \in Senders, Mirror(b)
      PROVE  Goal
  <2>1. b \in Persons /\ a \in NewlyOvertaken(KeyOf[b]) /\ old' = old
    BY <1>3 DEF Mirror, claimRow
  <2>2. KeyOf[b] \in Msgs /\ row[KeyOf[b]] = "none" /\ pc[b] = "mirror" /\ pc[a] = "recheck"
    BY <1>3, <2>1 DEF Mirror, NewlyOvertaken, Msgs
  <2>3. row'[KeyOf[b]] = "kept"
    BY <1>3, <2>1, <2>2 DEF Mirror, Record
  <2>4. pc'[a] = "recheck"
    BY <1>3, <2>2 DEF Mirror, Go, Answer
  <2> QED
    BY <1>2, <2>1, <2>2, <2>3, <2>4
<1>4. ASSUME NEW m \in Msgs, PollMirrors(m)
      PROVE  Goal
  <2>1. a \in NewlyOvertaken(m) /\ old' = old /\ row'[m] = "human" /\ pc' = pc
    BY <1>4 DEF PollMirrors, claimVars, claimRow
  <2> QED
    BY <1>2, <2>1
<1>5. (\A t \in Takers : ~TakesOver(t)) /\ (\A b \in Senders : ~Mirror(b))
        /\ (\A m \in Msgs : ~PollMirrors(m)) => over' \subseteq over
  BY DEF Next, PersonSends, PersonGoes, PersonLoses, TakeOverLost, MachineClaims,
         MachineAsks, MachineRechecks, MachineAbandons, Sends, Undo, UndoFails, VendorTakes,
         VendorTakesNot, Settle, SettleFails, MirrorFails, Dies, AutoAsks, AutoRechecks,
         OpenerAsks, OpenerClaims, OpenerSettles, Types, PollEnds, ClaimsTurn, vars
<1> QED
  BY <1>1, <1>3, <1>4, <1>5

\* Only a ledger claim leads to the last look, and it clears what came before.
LEMMA ToRecheck ==
  ASSUME SendTypeOK, [Next]_vars, NEW a \in Senders, pc'[a] = "recheck", pc[a] # "recheck"
  PROVE  a \notin over' /\ a \notin Persons \union {Opener}
<1> USE SendersAssumption, KeysAssumption, OpenersKey
    DEF SendTypeOK, sendVars, Go, Answer
<1>1. ASSUME NEW b \in Senders, Sends(b)
      PROVE  a \notin over' /\ a \notin Persons \union {Opener}
  BY <1>1 DEF Sends
<1>2. ASSUME NEW p \in Persons, PersonSends(p) \/ PersonGoes(p) \/ PersonLoses(p)
      PROVE  FALSE
  BY <1>2 DEF PersonSends, PersonGoes, PersonLoses
<1>3. ASSUME NEW t \in Takers, TakesOver(t) \/ TakeOverLost(t)
      PROVE  FALSE
  BY <1>3 DEF TakesOver, TakeOverLost
<1>4. ASSUME NEW m \in Machines,
             MachineClaims(m) \/ MachineAsks(m) \/ MachineRechecks(m) \/ MachineAbandons(m)
      PROVE  FALSE
  BY <1>4 DEF MachineClaims, MachineAsks, MachineRechecks, MachineAbandons
<1>5. ASSUME NEW b \in Senders,
             \/ Undo(b) \/ UndoFails(b) \/ VendorTakes(b) \/ VendorTakesNot(b)
             \/ Settle(b) \/ SettleFails(b) \/ Mirror(b) \/ MirrorFails(b) \/ Dies(b)
      PROVE  FALSE
  BY <1>5 DEF Undo, UndoFails, VendorTakes, VendorTakesNot, Settle, SettleFails, Mirror,
              MirrorFails, Dies
<1>6. CASE AutoAsks \/ AutoRechecks
  BY <1>6 DEF AutoAsks, AutoRechecks
<1>7. CASE OpenerAsks \/ OpenerClaims
  BY <1>7 DEF OpenerAsks, OpenerClaims
<1>8. CASE OpenerSettles
  BY <1>8 DEF OpenerSettles
<1>9. CASE (\E m \in Msgs : Types(m) \/ PollMirrors(m)) \/ PollEnds \/ ClaimsTurn \/ UNCHANGED vars
  BY <1>9 DEF Types, PollMirrors, PollEnds, ClaimsTurn, vars
<1> QED
  BY <1>1, <1>2, <1>3, <1>4, <1>5, <1>6, <1>7, <1>8, <1>9 DEF Next

\* An overtaken sender does not go on to the vendor.
LEMMA OvertakenStops ==
  ASSUME SendTypeOK, TimesInv, OvertakenInv, [Next]_vars, NEW a \in over
  PROVE  pc'[a] \notin {"call", "ok", "unsure", "refused", "mirror"}
<1> USE SendersAssumption, KeysAssumption, OpenersKey
    DEF SendTypeOK, sendVars, Go, Answer
<1> DEFINE Goal == pc'[a] \notin {"call", "ok", "unsure", "refused", "mirror"}
<1> a \in Senders /\ a \notin Persons \union {Opener}
    /\ pc[a] \notin {"call", "ok", "unsure", "refused", "mirror"}
  BY DEF OvertakenInv, PersonWins
<1>1. pc[a] = "recheck" => Late(a)
  BY DEF OvertakenInv, Late
<1>2. ASSUME NEW p \in Persons, PersonSends(p) \/ PersonGoes(p) \/ PersonLoses(p)
      PROVE  Goal
  BY <1>2 DEF PersonSends, PersonGoes, PersonLoses
<1>3. ASSUME NEW t \in Takers, TakesOver(t) \/ TakeOverLost(t)
      PROVE  Goal
  BY <1>3 DEF TakesOver, TakeOverLost
<1>4. ASSUME NEW m \in Machines, MachineClaims(m) \/ MachineAsks(m) \/ MachineAbandons(m)
      PROVE  Goal
  BY <1>4 DEF MachineClaims, MachineAsks, MachineAbandons
<1>5. ASSUME NEW m \in Machines, MachineRechecks(m)
      PROVE  Goal
  <2>1. CASE m # a
    BY <1>5, <2>1 DEF MachineRechecks
  <2>2. CASE m = a
    <3>1. ~Speaks(a)
      BY <1>1, <1>5, <2>2 DEF MachineRechecks, Late, Speaks, Wrote, TimesInv
    <3> QED
      BY <1>5, <2>2, <3>1 DEF MachineRechecks
  <2> QED
    BY <2>1, <2>2
<1>6. ASSUME NEW b \in Senders,
             \/ Sends(b) \/ Undo(b) \/ UndoFails(b) \/ VendorTakes(b) \/ VendorTakesNot(b)
             \/ Settle(b) \/ SettleFails(b) \/ Mirror(b) \/ MirrorFails(b) \/ Dies(b)
      PROVE  Goal
  BY <1>6 DEF Sends, Undo, UndoFails, VendorTakes, VendorTakesNot, Settle, SettleFails,
              Mirror, MirrorFails, Dies
<1>7. CASE AutoAsks
  BY <1>7 DEF AutoAsks
<1>8. CASE AutoRechecks
  <2>1. CASE a # AutoReply
    BY <1>8, <2>1 DEF AutoRechecks
  <2>2. CASE a = AutoReply
    <3>1. ~Unanswered
      BY <1>1, <1>8, <2>2 DEF AutoRechecks, Late, Unanswered
    <3> QED
      BY <1>8, <2>2, <3>1 DEF AutoRechecks
  <2> QED
    BY <2>1, <2>2
<1>9. CASE OpenerAsks \/ OpenerClaims
  BY <1>9 DEF OpenerAsks, OpenerClaims
<1>10. CASE OpenerSettles
  BY <1>10 DEF OpenerSettles
<1>11. CASE (\E m \in Msgs : Types(m) \/ PollMirrors(m)) \/ PollEnds \/ ClaimsTurn \/ UNCHANGED vars
  BY <1>11 DEF Types, PollMirrors, PollEnds, ClaimsTurn, vars
<1> QED
  BY <1>2, <1>3, <1>4, <1>5, <1>6, <1>7, <1>8, <1>9, <1>10, <1>11 DEF Next

LEMMA OvertakenInvStep ==
  ASSUME SendTypeOK, TimesInv, OvertakenInv, [Next]_vars
  PROVE  OvertakenInv'
<1>1. ASSUME NEW a \in Senders, pc'[a] = "recheck"
      PROVE  a \notin Persons \union {Opener}
  BY <1>1, ToRecheck DEF OvertakenInv
<1>2. ASSUME NEW a \in over'
      PROVE  /\ a \notin Persons \union {Opener}
             /\ pc'[a] \notin {"call", "ok", "unsure", "refused", "mirror"}
             /\ pc'[a] = "recheck" => Late(a)'
  <2>1. CASE a \notin over
    <3>1. pc[a] = "recheck" /\ pc'[a] = "recheck" /\ Late(a)'
      BY <2>1, Overtaking
    <3>2. a \in Senders
      BY SendTypeStep DEF SendTypeOK
    <3> QED
      BY <3>1, <3>2 DEF OvertakenInv
  <2>2. CASE a \in over
    <3>1. a \in Senders /\ a \notin Persons \union {Opener}
      BY <2>2 DEF OvertakenInv, SendTypeOK
    <3>2. pc'[a] = "recheck" => pc[a] = "recheck"
      BY <3>1, ToRecheck
    <3>3. pc[a] = "recheck" => Late(a)
      BY <2>2 DEF OvertakenInv, Late
    <3> QED
      BY <2>2, <3>1, <3>2, <3>3, LateStays, OvertakenStops
  <2> QED
    BY <2>1, <2>2
<1> QED
  BY <1>1, <1>2 DEF OvertakenInv, PersonWins, Late

(* A person who overtakes a machine, or the box's own reply, before its last   *)
(* look is not spoken over.                                                    *)
THEOREM PersonAlwaysWins == Spec => []PersonWins
<1>1. Init => TimesInv /\ OvertakenInv
  BY DEF Init, ClaimsInit, TimesInv, OvertakenInv, PersonWins
<1>2. SendTypeOK /\ TimesInv /\ OvertakenInv /\ [Next]_vars => TimesInv' /\ OvertakenInv'
  BY TimesInvStep, OvertakenInvStep
<1>3. OvertakenInv => PersonWins
  BY DEF OvertakenInv
<1> QED
  BY <1>1, <1>2, <1>3, SendTypeCorrect, PTL DEF Spec
=============================================================================
