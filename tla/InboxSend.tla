----------------------------- MODULE InboxSend ------------------------------
(***************************************************************************)
(* Every message the box sends on one conversation of the inbox: a         *)
(* person's reply (reply.py send_reply), a machine's message               *)
(* (send_for_machine), the reply the box sends on its own (send_automatic) *)
(* and the opener (handler.py), with the send ledger they share, the       *)
(* thread's mirror, the poller that reads the platform back (poller.py),   *)
(* and the claims of module Claims.                                        *)
(*                                                                         *)
(* Requests, machine jobs, the worker and its periodics run on threads of  *)
(* their own and may interleave between any two statements; each may be    *)
(* killed at any point.  The vendor is external: it takes a message and    *)
(* says so, takes it or not and nobody knows, or refuses it.               *)
(***************************************************************************)
EXTENDS Claims

CONSTANTS
  Persons,               \* a person's POSTs; a double click is two with one key
  AutoReply, Opener, Own, \* what the box sends on its own, and which of the two it does
  Poller,
  Keys, KeyOf,           \* idempotency keys, and each sender's
  Typed                  \* messages a person writes in the platform's own app

Senders   == Persons \union Machines \union Own
Automatic == Senders \ Persons
Msgs      == Keys \union Typed

\* A message's two times: the platform's, and that of the box's own copy of it.
Sent(m) == <<m, "sent">>
Kept(m) == <<m, "kept">>

ASSUME SendersAssumption ==
  /\ Takers = Persons \union Machines \union {Poller}
  /\ Persons \cap Machines = {}
  /\ {AutoReply, Opener, Poller} \cap (Persons \union Machines) = {}
  /\ AutoReply # Opener /\ AutoReply # Poller /\ Opener # Poller
  /\ Own \subseteq {AutoReply, Opener}
ASSUME KeysAssumption ==
  /\ KeyOf \in [Senders -> Keys]
  /\ Keys \cap Typed = {}
  /\ \A a \in Automatic, b \in Senders : KeyOf[a] = KeyOf[b] => a = b
  /\ Moments = Msgs \X {"sent", "kept"}

VARIABLES
  ledger,        \* inbox_send_ledger: status by key
  opened,        \* inbox_conversations.opener_sent_at is set
  row,           \* inbox_messages, outbound: who said it ("kept": a person, with the
                 \* box's own time; "human": a person, with the platform's)
  pc,            \* where each sender is
  went,          \* how many messages the customer got under each key
  over           \* observation: senders a person overtook before their last look

sendVars == <<ledger, opened, row, pc, went, over>>
vars == <<claimVars, sendVars>>

Rest     == {"idle", "sent", "not", "maybe"}
Owning   == {"over", "recheck", "undo", "call", "ok", "unsure", "refused"}
Phases   == Rest \union Owning \union {"send", "lost", "mirror"}
MayHave  == {"sending", "ok", "indeterminate"}

SendTypeOK ==
  /\ ClaimsTypeOK
  /\ ledger \in [Keys -> {"none", "failed"} \union MayHave]
  /\ opened \in BOOLEAN
  /\ row \in [Msgs -> {"none", "ai", "kept", "human"}]
  /\ pc \in [Senders -> Phases]
  /\ went \in [Keys -> Nat]
  /\ over \in SUBSET Senders

Init ==
  /\ ClaimsInit
  /\ ledger = [k \in Keys |-> "none"]
  /\ opened = FALSE
  /\ row = [m \in Msgs |-> "none"]
  /\ pc = [a \in Senders |-> "idle"]
  /\ went = [k \in Keys |-> 0]
  /\ over = {}

-----------------------------------------------------------------------------
(* Helpers *)

Go(a, phase) == pc' = [pc EXCEPT ![a] = phase]

\* Only a person reads the answer; a machine or a timer comes back and asks again.
Answer(a, said) == IF a \in Persons THEN said ELSE "idle"

\* person_wrote_since, asked of the active claim.
Wrote ==
  \E m \in Msgs : \/ row[m] = "kept" /\ Kept(m) \notin old
                  \/ row[m] = "human" /\ Sent(m) \notin old

\* A machine that holds the conversation, on which no person has written since.
Speaks(m) == holder = m /\ ~Wrote

\* No automation has the conversation, and nothing went out on it yet.
Unanswered == holder = NoOne /\ reserved = NoOne /\ \A m \in Msgs : row[m] = "none"

\* Mutant: a send that may have landed may be sent again.
FreeOrUnsure(k) == ledger[k] \in {"none", "failed", "indeterminate"}

\* claim_send takes a new key, or one whose message provably never left.
FreeKey(k) == ledger[k] \in {"none", "failed"}

SetRow(k, status) == ledger' = [ledger EXCEPT ![k] = status]

\* resolve_send is guarded on status = 'sending'.
Resolve(k, status) == SetRow(k, IF ledger[k] = "sending" THEN status ELSE ledger[k])

\* record_message is INSERT OR IGNORE: the first word on who said it stands.
Record(m, who) == row' = [row EXCEPT ![m] = IF @ = "none" THEN who ELSE @]

\* The senders whom a person's message m, once it has a row, reaches between their
\* ledger claim and their last look: for a machine, if it was sent after the claim.
NewlyOvertaken(m) ==
  {a \in Senders :
     row[m] = "none" /\ pc[a] = "recheck" /\ (a \in Machines => Sent(m) \notin old)}

-----------------------------------------------------------------------------
(* A person's reply: send_reply *)

\* Its gates (opted out, no lane, no account) refuse before anything changes.
PersonSends(p) ==
  /\ pc[p] \in Rest /\ tk[p] = "no"
  /\ \/ /\ FreeKey(KeyOf[p])
        /\ SetRow(KeyOf[p], "sending") /\ Go(p, "over")
        /\ BeginTakeOver(p)
     \/ ~FreeKey(KeyOf[p]) /\ Go(p, "lost") /\ UNCHANGED <<ledger, claimVars>>
  /\ UNCHANGED <<opened, row, went, over>>

\* Any automation stops before the vendor call.
PersonGoes(p) ==
  /\ pc[p] = "over" /\ tk[p] = "no"
  /\ Go(p, "call")
  /\ UNCHANGED <<claimVars, ledger, opened, row, went, over>>

\* Mutant: a lost claim is reported as the send it lost to.
PersonLosesGladly(p) ==
  /\ pc[p] = "lost"
  /\ Go(p, IF ledger[KeyOf[p]] = "failed" THEN "not" ELSE "sent")
  /\ UNCHANGED <<claimVars, ledger, opened, row, went, over>>

\* The claim was lost: the row says what the earlier attempt came to.
PersonLoses(p) ==
  /\ pc[p] = "lost"
  /\ \/ ledger[KeyOf[p]] = "ok"                  /\ Go(p, "sent")
     \/ ledger[KeyOf[p]] = "failed"              /\ Go(p, "not")
     \/ ledger[KeyOf[p]] \notin {"ok", "failed"} /\ Go(p, "maybe")
  /\ UNCHANGED <<claimVars, ledger, opened, row, went, over>>

-----------------------------------------------------------------------------
(* take_over(), called by a person's reply, a machine or the poller *)

\* A take_over that ended a machine's claim before its last look overtook it.
TakesOver(t) ==
  /\ TakeOverStep(t)
  /\ over' = IF tk[t] = "release" /\ pc[saw[t]] = "recheck"
             THEN over \union {saw[t]} ELSE over
  /\ UNCHANGED <<ledger, opened, row, pc, went>>

TakeOverLost(t) ==
  /\ TakeOverFails(t)
  /\ UNCHANGED <<ledger, opened, row, pc, went, over>>

-----------------------------------------------------------------------------
(* A machine: its claims, and send_for_machine *)

MachineClaims(m) ==
  /\ pc[m] = "idle" /\ tk[m] = "no"
  /\ ClaimStep(m)
  /\ UNCHANGED sendVars

\* A person who wrote since the claim ends it; the other gates only refuse.
MachineAsks(m) ==
  /\ pc[m] = "idle" /\ cpc[m] = "out" /\ tk[m] = "no"
  /\ holder = m
  /\ \/ ~Wrote /\ Go(m, "send") /\ UNCHANGED claimVars
     \/ Wrote /\ BeginTakeOver(m) /\ UNCHANGED pc
  /\ UNCHANGED <<ledger, opened, row, went, over>>

Sends(a) ==
  /\ a \in Senders \ (Persons \union {Opener}) /\ pc[a] = "send"
  /\ \/ FreeKey(KeyOf[a]) /\ SetRow(KeyOf[a], "sending") /\ Go(a, "recheck")
     \/ ~FreeKey(KeyOf[a]) /\ Go(a, "idle") /\ UNCHANGED ledger
  /\ over' = over \ {a}
  /\ UNCHANGED <<claimVars, opened, row, went>>

\* Mutant: the second look asks only whether the claim still stands.
MachineLooksAway(m) ==
  /\ pc[m] = "recheck"
  /\ \/ holder = m /\ Go(m, "call") /\ UNCHANGED claimVars
     \/ holder # m /\ Go(m, "undo") /\ BeginTakeOver(m)
  /\ UNCHANGED <<ledger, opened, row, went, over>>

\* The second look, holding the ledger key.
MachineRechecks(m) ==
  /\ pc[m] = "recheck"
  /\ \/ Speaks(m) /\ Go(m, "call") /\ UNCHANGED claimVars
     \/ ~Speaks(m) /\ Go(m, "undo") /\ BeginTakeOver(m)
  /\ UNCHANGED <<ledger, opened, row, went, over>>

-----------------------------------------------------------------------------
(* The reply the box sends on its own: send_automatic *)

AutoAsks ==
  /\ AutoReply \in Own /\ pc[AutoReply] = "idle"
  /\ Unanswered
  /\ Go(AutoReply, "send")
  /\ UNCHANGED <<claimVars, ledger, opened, row, went, over>>

\* Mutant: the box does not look again.
AutoLooksAway ==
  /\ AutoReply \in Own /\ pc[AutoReply] = "recheck"
  /\ Go(AutoReply, "call")
  /\ UNCHANGED <<claimVars, ledger, opened, row, went, over>>

\* Someone who wrote in the half hour before may make it refuse as well.
AutoRechecks ==
  /\ AutoReply \in Own /\ pc[AutoReply] = "recheck"
  /\ \/ Unanswered /\ Go(AutoReply, "call")
     \/ Go(AutoReply, "undo")
  /\ UNCHANGED <<claimVars, ledger, opened, row, went, over>>

\* Nothing left the box, and the row says so.
Undo(a) ==
  /\ pc[a] = "undo" /\ (a \in Machines => tk[a] = "no")
  /\ Resolve(KeyOf[a], "failed") /\ Go(a, "idle")
  /\ over' = over \ {a}
  /\ UNCHANGED <<claimVars, opened, row, went>>

UndoFails(a) ==
  /\ pc[a] = "undo" /\ (a \in Machines => tk[a] = "no")
  /\ Go(a, "idle")
  /\ UNCHANGED <<claimVars, ledger, opened, row, went, over>>

-----------------------------------------------------------------------------
(* The vendor call: _deliver, and the opener's own *)

VendorTakes(a) ==
  /\ pc[a] = "call"
  /\ went' = [went EXCEPT ![KeyOf[a]] = @ + 1]
  /\ Passes(Sent(KeyOf[a]))
  /\ Go(a, "ok") \/ Go(a, "unsure")
  /\ UNCHANGED <<claimRow, takenRow, reserved, calls,
                 ledger, opened, row, over>>

\* Nothing left: a refusal before the call or of the call, or a call nobody answered.
VendorTakesNot(a) ==
  /\ pc[a] = "call"
  /\ Go(a, "refused") \/ Go(a, "unsure")
  /\ UNCHANGED <<claimVars, ledger, opened, row, went, over>>

\* Mutant: an error nobody expected is taken for a refusal.
SettleUnsureAsFailed(a) ==
  /\ a # Opener
  /\ \/ pc[a] = "ok" /\ Resolve(KeyOf[a], "ok") /\ Go(a, "mirror")
     \/ pc[a] \in {"unsure", "refused"} /\ Resolve(KeyOf[a], "failed") /\ Go(a, Answer(a, "not"))
  /\ UNCHANGED <<claimVars, opened, row, went, over>>

Settle(a) ==
  /\ a # Opener
  /\ \/ pc[a] = "ok" /\ Resolve(KeyOf[a], "ok") /\ Go(a, "mirror")
     \/ pc[a] = "unsure" /\ Resolve(KeyOf[a], "indeterminate") /\ Go(a, Answer(a, "maybe"))
     \/ pc[a] = "refused" /\ Resolve(KeyOf[a], "failed") /\ Go(a, Answer(a, "not"))
  /\ UNCHANGED <<claimVars, opened, row, went, over>>

\* _settle never raises; resolving a refusal may, and the caller says it did not send.
SettleFails(a) ==
  /\ a # Opener
  /\ \/ pc[a] = "ok" /\ Go(a, "mirror")
     \/ pc[a] = "unsure" /\ Go(a, Answer(a, "maybe"))
     \/ pc[a] = "refused" /\ Go(a, Answer(a, "not"))
  /\ UNCHANGED <<claimVars, ledger, opened, row, went, over>>

\* The thread's own copy, stamped as it is written; the poll may have been first.
Mirror(a) ==
  /\ pc[a] = "mirror"
  /\ \/ /\ a \in Persons
        /\ Record(KeyOf[a], "kept")
        /\ over' = over \union NewlyOvertaken(KeyOf[a])
        /\ Passes(Kept(KeyOf[a]))
     \/ a \notin Persons /\ Record(KeyOf[a], "ai") /\ UNCHANGED <<over, past>>
  /\ Go(a, Answer(a, "sent"))
  /\ UNCHANGED <<claimRow, takenRow, reserved, calls,
                 ledger, opened, went>>

MirrorFails(a) ==
  /\ pc[a] = "mirror"
  /\ Go(a, Answer(a, "sent"))
  /\ UNCHANGED <<claimVars, ledger, opened, row, went, over>>

-----------------------------------------------------------------------------
(* The opener: handler.handle, in the worker's job *)

OpenerAsks ==
  /\ Opener \in Own /\ pc[Opener] = "idle"
  /\ holder = NoOne /\ reserved = NoOne
  /\ Go(Opener, "send")
  /\ UNCHANGED <<claimVars, ledger, opened, row, went, over>>

\* claim_opener: one statement on opener_sent_at.
OpenerClaims ==
  /\ Opener \in Own /\ pc[Opener] = "send"
  /\ opened' = TRUE
  /\ Go(Opener, IF opened THEN "idle" ELSE "call")
  /\ UNCHANGED <<claimVars, ledger, row, went, over>>

\* record_send, or release_opener unless anything on this conversation may have landed.
OpenerSettles ==
  /\ Opener \in Own
  /\ \/ pc[Opener] = "ok" /\ SetRow(KeyOf[Opener], "ok") /\ Go(Opener, "mirror") /\ UNCHANGED opened
     \/ /\ pc[Opener] = "unsure" /\ SetRow(KeyOf[Opener], "indeterminate") /\ Go(Opener, "idle")
        /\ UNCHANGED opened
     \/ /\ pc[Opener] = "refused" /\ Go(Opener, "idle") /\ UNCHANGED ledger
        /\ opened' = \E k \in Keys : ledger[k] \in MayHave
  /\ UNCHANGED <<claimVars, row, went, over>>

-----------------------------------------------------------------------------
(* The platform and the poller *)

\* A person writes in the platform's own app.
Types(m) ==
  /\ m \in Typed /\ Sent(m) \notin past
  /\ Passes(Sent(m))
  /\ UNCHANGED <<claimRow, takenRow, reserved, calls, sendVars>>

\* _mirror_page: an outbound message the box has no row for was a person's.  One it has
\* gets the platform's time, unless it is read back under another id (is_box_echo).
\* What a page shows stays on the platform, so the fetch is no step of its own.
PollMirrors(m) ==
  /\ Sent(m) \in past
  /\ row[m] \in {"none", "kept"}
  /\ row' = [row EXCEPT ![m] = "human"]
  /\ over' = over \union NewlyOvertaken(m)
  /\ UNCHANGED <<claimVars, ledger, opened, pc, went>>

\* After the page: a person who wrote since the claim ends it.
PollEnds ==
  /\ holder # NoOne /\ Wrote
  /\ BeginTakeOver(Poller)
  /\ UNCHANGED sendVars

-----------------------------------------------------------------------------
(* Deaths: a worker restart, a request that is cut off, an error that ends a thread *)

Dies(a) ==
  /\ pc[a] \notin Rest
  /\ Go(a, "idle")
  /\ IF a \in Takers /\ tk[a] # "no" THEN TakeOverFails(a) ELSE UNCHANGED claimVars
  /\ UNCHANGED <<ledger, opened, row, went, over>>

MachineAbandons(m) ==
  /\ Abandon(m)
  /\ UNCHANGED <<ledger, opened, row, pc, went, over>>

ClaimsTurn ==
  /\ Turns
  /\ UNCHANGED sendVars

-----------------------------------------------------------------------------
Next ==
  \/ \E p \in Persons : PersonSends(p) \/ PersonGoes(p) \/ PersonLoses(p)
  \/ \E t \in Takers : TakesOver(t) \/ TakeOverLost(t)
  \/ \E m \in Machines : MachineClaims(m) \/ MachineAsks(m) \/ MachineRechecks(m)
                         \/ MachineAbandons(m)
  \/ AutoAsks \/ AutoRechecks
  \/ \E a \in Senders : Sends(a) \/ Undo(a) \/ UndoFails(a) \/ VendorTakes(a)
                        \/ VendorTakesNot(a) \/ Settle(a) \/ SettleFails(a)
                        \/ Mirror(a) \/ MirrorFails(a) \/ Dies(a)
  \/ OpenerAsks \/ OpenerClaims \/ OpenerSettles
  \/ \E m \in Msgs : Types(m) \/ PollMirrors(m)
  \/ PollEnds
  \/ ClaimsTurn

Spec == Init /\ [][Next]_vars

-----------------------------------------------------------------------------
(* The contract this module implements *)

IsOpener(k) == Opener \in Own /\ KeyOf[Opener] = k

KeyFree(k)  == IF IsOpener(k) THEN ~opened ELSE ledger[k] \in {"none", "failed"}
KeyTaken(k) == IF IsOpener(k) THEN opened /\ ledger[k] = "none" ELSE ledger[k] = "sending"
KeyState(k) == IF KeyFree(k) THEN "free" ELSE IF KeyTaken(k) THEN "taken" ELSE "closed"

Once == INSTANCE SendOnce WITH key <- [k \in Keys |-> KeyState(k)]

\* Whatever is clicked twice, retried, killed or answered by nobody, the customer gets
\* the message of one key at most once (reply.py: EXACTLY ONCE; store.py claim_send,
\* resolve_send, claim_opener, release_opener).
ImplementsOnce == Once!Spec

-----------------------------------------------------------------------------
(* Properties *)

\* What the ledger says of a message is what became of it: 'ok' went, and what it calls
\* 'failed' or has no row for never left (the opener's row comes after its send, which
\* its claim stands for until then).
LedgerTrue ==
  \A k \in Keys :
    /\ ledger[k] = "ok" => went[k] = 1
    /\ ledger[k] \in {"none", "failed"} => went[k] = 0 \/ (IsOpener(k) /\ opened)

\* What a person is told of their reply is so when they are told it: it went, or nothing
\* did (reply.py send_reply, with two clicks of one form; a request that is cut off is
\* told neither).
ToldTrue ==
  [][\A p \in Persons : pc'[p] # pc[p] =>
       /\ pc'[p] = "sent" => went[KeyOf[p]] = 1
       /\ pc'[p] = "not" => went[KeyOf[p]] = 0]_pc

\* A machine, or the box on its own, that a person overtook between its ledger claim and
\* its last look does not call the vendor (reply.py: RE-CHECKED AFTER THE LEDGER CLAIM).
PersonWins == \A a \in over : pc[a] \notin {"call", "ok", "unsure", "refused", "mirror"}

-----------------------------------------------------------------------------
(* The inductive forms *)

\* Who owns a key holds it alone, and knows what has become of its message.
SendInv ==
  /\ \A a \in Senders : pc[a] \in Owning =>
       /\ IF a = Opener THEN opened /\ ledger[KeyOf[a]] = "none"
                        ELSE ledger[KeyOf[a]] = "sending"
       /\ \A b \in Senders : KeyOf[b] = KeyOf[a] /\ pc[b] \in Owning => b = a
  /\ \A a \in Senders :
       /\ pc[a] \in {"over", "recheck", "undo"} => a # Opener
       /\ pc[a] \in {"over", "recheck", "undo", "call", "refused"} => went[KeyOf[a]] = 0
       /\ pc[a] \in {"ok", "mirror"} => went[KeyOf[a]] = 1
  /\ \A k \in Keys : went[k] \in {0, 1}
  /\ \A k \in Keys : IsOpener(k) =>
       /\ ledger[k] \in {"none", "ok", "indeterminate"}
       /\ ~opened => ledger[k] = "none" /\ went[k] = 0
  /\ LedgerTrue

\* A message the box has its own time of went before that time.
TimesInv ==
  /\ \A a \in Senders : pc[a] \in {"ok", "mirror"} => Sent(KeyOf[a]) \in past
  /\ \A m \in Msgs :
       /\ Kept(m) \in past => Sent(m) \in past
       /\ Kept(m) \in old => Sent(m) \in old
       /\ \A c \in Machines : Kept(m) \in now[c] => Sent(m) \in now[c]

\* Who was overtaken before its last look will see it.
OvertakenInv ==
  /\ PersonWins
  /\ \A a \in Senders : pc[a] = "recheck" => a \notin Persons \union {Opener}
  /\ \A a \in over :
       /\ a \notin Persons \union {Opener}
       /\ pc[a] = "recheck" =>
            IF a \in Machines
            THEN \/ holder # a
                 \/ \E m \in Msgs : row[m] \in {"kept", "human"} /\ Sent(m) \notin old
            ELSE \E m \in Msgs : row[m] # "none"
=============================================================================
