------------------------------- MODULE Claims -------------------------------
(***************************************************************************)
(* Who speaks on one conversation of the inbox: a machine that claimed it  *)
(* or that reserved it with its first message, or the person who took it   *)
(* over (marketing/customer_voice/claims.py).                              *)
(*                                                                         *)
(* claim() and take_over() are each several transactions, so each is       *)
(* several steps here, and two of them may interleave: a machine's job, a  *)
(* person's request and the poller run on threads of their own.            *)
(***************************************************************************)
EXTENDS Naturals

CONSTANTS
  Machines,      \* the machines that may claim the conversation
  Takers,        \* whoever calls take_over: people's requests, machines, the poller
  NoOne,
  Moments        \* what may happen on the conversation whose time is compared with a claim's

ASSUME ClaimsAssumption ==
  /\ Machines \subseteq Takers
  /\ NoOne \notin Takers

\* A time is kept as what it is compared with: claimed_at as the moments that were past,
\* a comment's as whether it is newer than the takeover.
VARIABLES
  holder, old,    \* inbox_claims: the active claim's machine, and its claimed_at
  taken,          \* inbox_takeovers has a row
  anew,           \* inbox_comments_seen has a comment newer than that row
  reserved,       \* inbox_reservations, by this conversation's person
  past,           \* the moments there have been
  cpc, now,       \* where a machine is in claim(), and its "now"
  tk, saw,        \* where a caller is in take_over(), and whose claim it read
  raced, slipped  \* observations: machines whose check is older than the takeover; the
                  \* claim outlives the takeover

claimRow  == <<holder, old, slipped>>
takenRow  == <<taken, anew>>
calls     == <<cpc, now, raced, tk, saw>>
claimVars == <<claimRow, takenRow, reserved, past, calls>>

ClaimsTypeOK ==
  /\ holder \in Machines \union {NoOne}
  /\ old \in SUBSET Moments /\ past \in SUBSET Moments
  /\ raced \in SUBSET Machines /\ slipped \in BOOLEAN
  /\ taken \in BOOLEAN /\ anew \in BOOLEAN
  /\ reserved \in Machines \union {NoOne}
  /\ cpc \in [Machines -> {"out", "check", "upsert"}]
  /\ now \in [Machines -> SUBSET Moments]
  /\ tk \in [Takers -> {"no", "holder", "reserved", "stamp", "release", "note", "unreserve"}]
  /\ saw \in [Takers -> Machines \union {NoOne}]
  /\ \A t \in Takers : tk[t] \in {"stamp", "release", "note", "unreserve"} <=> saw[t] # NoOne

ClaimsInit ==
  /\ holder = NoOne /\ old = {}
  /\ taken = FALSE /\ anew = FALSE
  /\ reserved = NoOne
  /\ past = {}
  /\ cpc = [m \in Machines |-> "out"] /\ now = [m \in Machines |-> {}]
  /\ tk = [t \in Takers |-> "no"] /\ saw = [t \in Takers |-> NoOne]
  /\ raced = {} /\ slipped = FALSE

Unheld   == holder' = NoOne /\ old' = {} /\ slipped' = FALSE
Passes(x) == past' = past \union {x}

Lift == taken' = FALSE /\ anew' = FALSE /\ slipped' = FALSE /\ raced' = {}

Leave(m) ==
  /\ cpc' = [cpc EXCEPT ![m] = "out"]
  /\ now' = [now EXCEPT ![m] = {}]
  /\ raced' = raced \ {m}

-----------------------------------------------------------------------------
(* claim() *)

\* now, and _unreserve: the machine has looked.
Look(m) ==
  /\ cpc[m] = "out"
  /\ now' = [now EXCEPT ![m] = past]
  /\ reserved' = IF reserved = m THEN NoOne ELSE reserved
  /\ cpc' = [cpc EXCEPT ![m] = "check"]
  /\ UNCHANGED <<claimRow, takenRow, past, raced, tk, saw>>

\* Mutant: the machine is not asked whether a person took the conversation over.
CheckNothing(m) ==
  /\ cpc[m] = "check"
  /\ cpc' = [cpc EXCEPT ![m] = "upsert"]
  /\ UNCHANGED <<claimRow, takenRow, reserved, past, now, raced, tk, saw>>

\* taken_over, and _new_start: a comment newer than the takeover lifts it, once.
Check(m) ==
  /\ cpc[m] = "check"
  /\ \/ /\ ~taken
        /\ cpc' = [cpc EXCEPT ![m] = "upsert"]
        /\ UNCHANGED <<takenRow, slipped, now, raced>>
     \/ /\ taken /\ anew /\ Lift
        /\ cpc' = [cpc EXCEPT ![m] = "upsert"] /\ UNCHANGED now
     \/ taken /\ Leave(m) /\ UNCHANGED <<takenRow, slipped>>
  /\ UNCHANGED <<holder, old, reserved, past, tk, saw>>

\* One statement inserts, renews, or takes what was released or has expired.
Upsert(m) ==
  /\ cpc[m] = "upsert"
  /\ Leave(m)
  /\ \/ /\ holder \in {NoOne, m}
        /\ holder' = m
        /\ old' = IF holder = m THEN old ELSE now[m]
        /\ slipped' = (slipped \/ m \in raced)
     \/ holder \notin {NoOne, m} /\ UNCHANGED claimRow
  /\ UNCHANGED <<takenRow, reserved, past, tk, saw>>

\* The machine's thread ends inside claim().
Abandon(m) ==
  /\ cpc[m] # "out"
  /\ Leave(m)
  /\ UNCHANGED <<claimRow, takenRow, reserved, past, tk, saw>>

-----------------------------------------------------------------------------
(* release(), the claim's and the reservation's expiry, reserve(), hand_back() *)

Release(m) ==
  /\ holder = m /\ cpc[m] = "out"
  /\ Unheld
  /\ UNCHANGED <<takenRow, reserved, past, calls>>

Expire ==
  /\ holder # NoOne
  /\ Unheld
  /\ UNCHANGED <<takenRow, reserved, past, calls>>

\* The machine's private reply to a comment has gone.
Reserve(m) ==
  /\ cpc[m] = "out"
  /\ reserved' = m
  /\ UNCHANGED <<claimRow, takenRow, past, calls>>

ReservationEnds ==
  /\ reserved # NoOne
  /\ reserved' = NoOne
  /\ UNCHANGED <<claimRow, takenRow, past, calls>>

HandBack ==
  /\ taken
  /\ Lift
  /\ UNCHANGED <<holder, old, reserved, past, cpc, now, tk, saw>>

\* The box reads a comment of theirs; one written before the takeover opens nothing.
Comment ==
  /\ taken
  /\ anew' = TRUE
  /\ UNCHANGED <<claimRow, taken, reserved, past, calls>>

-----------------------------------------------------------------------------
(* take_over(), by t; it never raises, so any of its steps may end it *)

TkGo(t, phase) == tk' = [tk EXCEPT ![t] = phase]
TkSaw(t, m)    == saw' = [saw EXCEPT ![t] = m]
TkDone(t)      == TkGo(t, "no") /\ TkSaw(t, NoOne)

BeginTakeOver(t) ==
  /\ tk[t] = "no"
  /\ TkGo(t, "holder")
  /\ UNCHANGED <<claimRow, takenRow, reserved, past, cpc, now, raced, saw>>

ReadHolder(t) ==
  /\ tk[t] = "holder"
  /\ \/ holder # NoOne /\ TkSaw(t, holder) /\ TkGo(t, "stamp")
     \/ holder = NoOne /\ TkGo(t, "reserved") /\ UNCHANGED saw
  /\ UNCHANGED <<claimRow, takenRow, reserved, past, cpc, now, raced>>

ReadReserved(t) ==
  /\ tk[t] = "reserved"
  /\ \/ reserved # NoOne /\ TkSaw(t, reserved) /\ TkGo(t, "note")
     \/ reserved = NoOne /\ TkDone(t)
  /\ UNCHANGED <<claimRow, takenRow, reserved, past, cpc, now, raced>>

\* INSERT OR REPLACE INTO inbox_takeovers, in either branch.
Stamp(t) ==
  /\ tk[t] \in {"stamp", "note"}
  /\ taken' = TRUE /\ anew' = FALSE
  /\ raced' = raced \union {m \in Machines : cpc[m] = "upsert"}
  /\ slipped' = (slipped \/ (holder # NoOne /\ (tk[t] = "note" \/ saw[t] # holder)))
  /\ TkGo(t, IF tk[t] = "stamp" THEN "release" ELSE "unreserve")
  /\ UNCHANGED <<holder, old, reserved, past, cpc, now, saw>>

\* release(), of the machine it read and no other.
ReleaseSeen(t) ==
  /\ tk[t] = "release"
  /\ \/ holder = saw[t] /\ Unheld
     \/ holder # saw[t] /\ UNCHANGED claimRow
  /\ TkDone(t)
  /\ UNCHANGED <<takenRow, reserved, past, cpc, now, raced>>

UnreserveSeen(t) ==
  /\ tk[t] = "unreserve"
  /\ reserved' = IF reserved = saw[t] THEN NoOne ELSE reserved
  /\ TkDone(t)
  /\ UNCHANGED <<claimRow, takenRow, past, cpc, now, raced>>

TakeOverFails(t) ==
  /\ tk[t] # "no"
  /\ slipped' = (slipped \/ (tk[t] = "release" /\ holder = saw[t] /\ taken))
  /\ TkDone(t)
  /\ UNCHANGED <<holder, old, takenRow, reserved, past, cpc, now, raced>>

-----------------------------------------------------------------------------
ClaimStep(m) == Look(m) \/ Check(m) \/ Upsert(m) \/ Release(m) \/ Reserve(m)

TakeOverStep(t) ==
  ReadHolder(t) \/ ReadReserved(t) \/ Stamp(t) \/ ReleaseSeen(t) \/ UnreserveSeen(t)

Turns == Expire \/ ReservationEnds \/ HandBack \/ Comment

\* Once a person has taken the conversation over no machine holds it, until the owner or
\* a newer comment of theirs gives it back (claims.py claim, take_over).  The code has
\* three exceptions, and no other: the machine had checked before the takeover was
\* written, whoever took over had read the claims before this one, or the take_over
\* failed before its release.
TakeoverHolds ==
  taken /\ holder # NoOne /\ (\A t \in Takers : tk[t] # "release") => slipped

\* The inductive form: the take_over under way that will end the claim.
ClaimsInv ==
  /\ taken /\ holder # NoOne /\ ~slipped =>
       \E t \in Takers : tk[t] = "release" /\ saw[t] = holder
  /\ taken => {m \in Machines : cpc[m] = "upsert"} \subseteq raced
=============================================================================
