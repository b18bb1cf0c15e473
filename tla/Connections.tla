---------------------------- MODULE Connections ----------------------------
(***************************************************************************)
(* The apps an owner connects (core/connections): the sign-in and its one  *)
(* use of the app's answer, the stored token and its renewal under a file  *)
(* lock (oauth.py), the list of apps and which of their tools are on, read *)
(* whole and written whole (store.py), a call of an app's tool             *)
(* (gateway.py), and the owner's screen (dash/sources.py).                 *)
(*                                                                         *)
(* Every operation is a request, on a thread of one of several processes.  *)
(* The app is external.  What an app is sent to renew a token it honours   *)
(* once.  A connection whose token was pasted has no renewal, and is not   *)
(* in this model.                                                          *)
(***************************************************************************)
EXTENDS Integers, FiniteSets

CONSTANTS
  Apps, Requests,
  NoApp, NoOne,           \* no app in hand; nobody holds the lock
  MaxSignIns, MaxAges,    \* bounds: sign-ins; tokens that grow old or are refused
  MaxFaults, MaxChanges   \* bounds: deaths and lost answers; changes from the screen

ASSUME ConnectionsAssumption ==
  /\ IsFiniteSet(Apps) /\ NoApp \notin Apps /\ NoOne \notin Requests
  /\ MaxSignIns \in Nat /\ MaxAges \in Nat /\ MaxFaults \in Nat /\ MaxChanges \in Nat

SignIns == Nat \ {0}
Tokens  == Nat \ {0}
NoToken == 0

VARIABLES
  items,      \* box_settings "connections": "none", or whether the app's read-only tool is on
  secret,     \* box_secrets app_conn_<slug>, as the number of its token
  pending,    \* box_secrets PENDING: the sign-in under way, and its app
  lock,       \* .connections.lock
  req,        \* the requests
  old,        \* tokens near their end
  bad,        \* tokens the app refuses before that
  good,       \* the app: tokens whose renewal it would honour
  next,       \* the app: the next token's number
  begun,      \* sign-ins begun
  spent, again,   \* observation: tokens sent to be renewed once, and once more
  used, usedAgain, \* observation: answers of a sign-in exchanged once, and once more
  lost,       \* observation: tokens whose renewal the box did not keep
  ages, faults, changes

storeVars == <<items, secret, pending>>
appVars   == <<old, bad, good, next>>
seenVars  == <<begun, spent, again, used, usedAgain, lost>>
bounds    == <<ages, faults, changes>>
vars == <<storeVars, lock, req, appVars, seenVars, bounds>>

Shown  == {"none", "off", "on"}
Phases == {"rest", "token", "looks", "spends", "saves", "asks", "checked", "takes", "exchanges",
           "begins", "adds", "lists", "keeps", "writes", "clears"}
Doings == {"call", "check", "add", "on", "off", "remove"}

\* A request that begins: nothing to send yet, nothing refused yet.
Asked(phase, do, a, tok, k, list) ==
  [at |-> phase, do |-> do, app |-> a, seen |-> tok, tok |-> NoToken, code |-> k,
   force |-> FALSE, read |-> list]
Unread == [a \in Apps |-> "none"]
Rest   == Asked("rest", "call", NoApp, NoToken, 0, Unread)

Request ==
  [at : Phases, do : Doings, app : Apps \union {NoApp}, seen : Tokens \union {NoToken},
   tok : Tokens \union {NoToken}, code : SignIns \union {0}, force : BOOLEAN, read : [Apps -> Shown]]

TypeOK ==
  /\ items \in [Apps -> Shown]
  /\ secret \in [Apps -> Tokens \union {NoToken}]
  /\ pending \in {<<0, NoApp>>} \union (SignIns \X Apps)
  /\ lock \in Requests \union {NoOne}
  /\ req \in [Requests -> Request]
  /\ \A p \in Requests : (lock = p) = (req[p].at \in {"looks", "spends", "saves"})
  /\ \A p \in Requests : req[p].at # "rest" => req[p].app \in Apps
  /\ old \subseteq Tokens /\ bad \subseteq Tokens /\ good \subseteq Tokens /\ next \in Tokens
  /\ begun \in Nat
  /\ spent \subseteq Tokens /\ again \subseteq Tokens /\ lost \subseteq Tokens
  /\ used \subseteq SignIns /\ usedAgain \subseteq SignIns
  /\ ages \in Nat /\ faults \in Nat /\ changes \in Nat

Init ==
  /\ items = [a \in Apps |-> "none"] /\ secret = [a \in Apps |-> NoToken]
  /\ pending = <<0, NoApp>>
  /\ lock = NoOne /\ req = [p \in Requests |-> Rest]
  /\ old = {} /\ bad = {} /\ good = {} /\ next = 1
  /\ begun = 0 /\ spent = {} /\ again = {} /\ used = {} /\ usedAgain = {} /\ lost = {}
  /\ ages = 0 /\ faults = 0 /\ changes = 0
-----------------------------------------------------------------------------
Goes(p, phase)  == req' = [req EXCEPT ![p].at = phase]
With(p, phase, tok) == req' = [req EXCEPT ![p].at = phase, ![p].tok = tok]
Ends(p)         == req' = [req EXCEPT ![p] = Rest]
KeepsHold       == UNCHANGED lock     \* mutant: an early return leaves the lock held
Frees           == lock' = NoOne
Asking(p)       == req[p].do \in {"call", "check"}
-----------------------------------------------------------------------------
(* The owner signs in: oauth.begin, the app's own page, oauth.finish, store.add. *)

\* begin: the name is free.
Begins(p, a) ==
  /\ req[p].at = "rest" /\ begun < MaxSignIns /\ items[a] = "none"
  /\ req' = [req EXCEPT ![p] = Asked("begins", "on", a, NoToken, 0, Unread)]
  /\ UNCHANGED <<storeVars, lock, appVars, seenVars, bounds>>

\* The app is found and takes the box on, or not.  One sign-in at a time: a second one
\* takes the place of the first.
Registers(p) ==
  /\ req[p].at = "begins"
  /\ \/ begun < MaxSignIns /\ begun' = begun + 1 /\ pending' = <<begun + 1, req[p].app>>
     \/ UNCHANGED <<begun, pending>>
  /\ Ends(p)
  /\ UNCHANGED <<items, secret, lock, appVars, spent, again, used, usedAgain, lost, bounds>>

Cancels ==
  /\ pending # <<0, NoApp>> /\ changes < MaxChanges
  /\ pending' = <<0, NoApp>> /\ changes' = changes + 1
  /\ UNCHANGED <<items, secret, lock, req, appVars, seenVars, ages, faults>>

\* finish: the browser is back, once or more than once, and the pending sign-in is read;
\* one it does not belong to changes nothing.
Returns(p) ==
  /\ req[p].at = "rest" /\ pending # <<0, NoApp>>
  /\ req' = [req EXCEPT ![p] = Asked("takes", "on", pending[2], NoToken, pending[1], Unread)]
  /\ UNCHANGED <<storeVars, lock, appVars, seenVars, bounds>>

\* mutant: the pending sign-in is cleared, by whoever comes
TakesAnyway(p) ==
  /\ req[p].at = "takes"
  /\ Goes(p, "exchanges") /\ pending' = <<0, NoApp>>
  /\ UNCHANGED <<items, secret, lock, appVars, seenVars, bounds>>

\* box_secrets.take: cleared only while it holds what was read.
Takes(p) ==
  /\ req[p].at = "takes"
  /\ IF pending[1] = req[p].code
       THEN Goes(p, "exchanges") /\ pending' = <<0, NoApp>>
       ELSE Ends(p) /\ UNCHANGED pending
  /\ UNCHANGED <<items, secret, lock, appVars, seenVars, bounds>>

\* The app's answer is exchanged for a token, if the app agrees and it is not too late.
Exchanges(p) ==
  /\ req[p].at = "exchanges"
  /\ used' = used \union {req[p].code}
  /\ usedAgain' = usedAgain \union (used \intersect {req[p].code})
  /\ \/ /\ req[p].code \notin used
        /\ With(p, "adds", next) /\ good' = good \union {next} /\ next' = next + 1
     \/ Ends(p) /\ UNCHANGED <<good, next>>
  /\ UNCHANGED <<storeVars, lock, old, bad, begun, spent, again, lost, bounds>>

\* store.add: the name is free.
Adds(p) ==
  /\ req[p].at = "adds"
  /\ (items[req[p].app] = "none" /\ Goes(p, "lists")) \/ Ends(p)
  /\ UNCHANGED <<storeVars, lock, appVars, seenVars, bounds>>

\* The app has tools to offer; the list is read, and the name not looked at again.
Lists(p) ==
  /\ req[p].at = "lists"
  /\ req' = [req EXCEPT ![p].at = "keeps", ![p].read = items] \/ Ends(p)
  /\ UNCHANGED <<storeVars, lock, appVars, seenVars, bounds>>

\* save_secret: the token is stored before the list that names its app is.
StoresToken(p) ==
  /\ req[p].at = "keeps"
  /\ secret' = [secret EXCEPT ![req[p].app] = req[p].tok]
  /\ Goes(p, "writes")
  /\ UNCHANGED <<items, pending, lock, appVars, seenVars, bounds>>

\* The list cannot be written: the token of the app that was to be added is forgotten.
AddFails(p) ==
  /\ req[p].at = "writes" /\ req[p].code # 0 /\ faults < MaxFaults
  /\ faults' = faults + 1
  /\ Goes(p, "clears")
  /\ UNCHANGED <<storeVars, lock, appVars, seenVars, ages, changes>>
-----------------------------------------------------------------------------
(* Changes to the list: read, changed, and written whole. *)

Opens(p, a, do) ==
  /\ req[p].at = "rest" /\ items[a] # "none" /\ changes < MaxChanges
  /\ changes' = changes + 1
  /\ req' = [req EXCEPT ![p] = Asked("writes", do, a, NoToken, 0, items)]
  /\ UNCHANGED <<storeVars, lock, appVars, seenVars, ages, faults>>

\* store._save; a removed app's token is forgotten after its place in the list.
Writes(p) ==
  /\ req[p].at = "writes"
  /\ LET to == IF req[p].do = "remove" THEN "none" ELSE req[p].do IN
     items' = [req[p].read EXCEPT ![req[p].app] = to]
  /\ IF req[p].do = "remove" THEN Goes(p, "clears") ELSE Ends(p)
  /\ UNCHANGED <<secret, pending, lock, appVars, seenVars, bounds>>

Clears(p) ==
  /\ req[p].at = "clears"
  /\ secret' = [secret EXCEPT ![req[p].app] = NoToken]
  /\ Ends(p)
  /\ UNCHANGED <<items, pending, lock, appVars, seenVars, bounds>>
-----------------------------------------------------------------------------
(* gateway.call and store.check: the app is asked, with the token to send now. *)

Starts(p, a, do) ==
  /\ req[p].at = "rest" /\ items[a] # "none" /\ secret[a] # NoToken
  /\ do = "call" => items[a] = "on"
  /\ req' = [req EXCEPT ![p] = Asked("token", do, a, secret[a], 0, items)]
  /\ UNCHANGED <<storeVars, lock, appVars, seenVars, bounds>>

\* token_for: a token that will do is sent as it is.
SendsAsIs(p) ==
  /\ req[p].at = "token" /\ ~req[p].force /\ req[p].seen \notin old
  /\ With(p, "asks", req[p].seen)
  /\ UNCHANGED <<storeVars, lock, appVars, seenVars, bounds>>

Locks(p) ==
  /\ req[p].at = "token" /\ (req[p].force \/ req[p].seen \in old)
  /\ lock = NoOne /\ lock' = p
  /\ Goes(p, "looks")
  /\ UNCHANGED <<storeVars, appVars, seenVars, bounds>>

StillOld(p, tok) == req[p].force \/ req[p].seen \in old  \* mutant: what it saw before it waited
StillDue(p, tok) == tok = req[p].seen /\ (req[p].force \/ tok \in old)

\* Read again inside the lock: gone, renewed by somebody else meanwhile, or still due.
Looks(p) ==
  /\ req[p].at = "looks"
  /\ LET tok == secret[req[p].app] IN
     \/ tok = NoToken /\ Ends(p) /\ Frees
     \/ tok # NoToken /\ ~StillDue(p, tok) /\ With(p, "asks", tok) /\ Frees
     \/ tok # NoToken /\ StillDue(p, tok) /\ With(p, "spends", tok) /\ UNCHANGED lock
  /\ UNCHANGED <<storeVars, appVars, seenVars, bounds>>

Spent(p) ==
  /\ spent' = spent \union {req[p].tok}
  /\ again' = again \union (spent \intersect {req[p].tok})

\* The app renews it, once.
Spends(p) ==
  /\ req[p].at = "spends" /\ Spent(p)
  /\ IF req[p].tok \in good
       THEN /\ good' = (good \ {req[p].tok}) \union {next} /\ next' = next + 1
            /\ With(p, "saves", next) /\ UNCHANGED lock
       ELSE Ends(p) /\ Frees /\ UNCHANGED <<good, next>>
  /\ UNCHANGED <<storeVars, old, bad, begun, used, usedAgain, lost, bounds>>

\* The app renewed it, or not, and the answer never came.
SpendsUnheard(p) ==
  /\ req[p].at = "spends" /\ faults < MaxFaults /\ faults' = faults + 1
  /\ Spent(p) /\ lost' = lost \union {req[p].tok}
  /\ good' \in {good, good \ {req[p].tok}}
  /\ Ends(p) /\ Frees
  /\ UNCHANGED <<storeVars, old, bad, next, begun, used, usedAgain, ages, changes>>

\* mutant: the new token is used and not stored
SavesNothing(p) ==
  /\ req[p].at = "saves"
  /\ Goes(p, "asks") /\ Frees
  /\ UNCHANGED <<storeVars, appVars, seenVars, bounds>>

\* save_secret, before the lock is let go.
Saves(p) ==
  /\ req[p].at = "saves"
  /\ secret' = [secret EXCEPT ![req[p].app] = req[p].tok]
  /\ Goes(p, "asks") /\ Frees
  /\ UNCHANGED <<items, pending, appVars, seenVars, bounds>>

\* The app answers; a check then writes the whole list it read at its start.
Answers(p) ==
  /\ req[p].at = "asks" /\ req[p].tok \notin bad
  /\ IF req[p].do = "check" THEN Goes(p, "checked") ELSE Ends(p)
  /\ UNCHANGED <<storeVars, lock, appVars, seenVars, bounds>>

CheckSaves(p) ==
  /\ req[p].at = "checked"
  /\ \E now \in {req[p].read[req[p].app], "off"} : items' = [req[p].read EXCEPT ![req[p].app] = now]
  /\ Ends(p)
  /\ UNCHANGED <<secret, pending, lock, appVars, seenVars, bounds>>

\* The app refuses the token: a call renews it and asks once more, a check does not.
Refuses(p) ==
  /\ req[p].at = "asks" /\ req[p].tok \in old \union bad
  /\ IF req[p].do = "call" /\ ~req[p].force
       THEN req' = [req EXCEPT ![p].at = "token", ![p].force = TRUE]
       ELSE Ends(p)
  /\ UNCHANGED <<storeVars, lock, appVars, seenVars, bounds>>
-----------------------------------------------------------------------------
\* A token nears its end, or the app will not have it any more.
Ages(t) ==
  /\ ages < MaxAges /\ t \notin old \union bad
  /\ ages' = ages + 1
  /\ \/ old' = old \union {t} /\ UNCHANGED bad
     \/ bad' = bad \union {t} /\ UNCHANGED old
  /\ UNCHANGED <<storeVars, lock, req, good, next, seenVars, faults, changes>>

\* The process of a request dies; the system lets go of its lock.
Dies(p) ==
  /\ req[p].at # "rest" /\ faults < MaxFaults /\ faults' = faults + 1
  /\ lost' = IF req[p].at = "saves" THEN lost \union {req[p].seen} ELSE lost
  /\ lock' = IF lock = p THEN NoOne ELSE lock
  /\ Ends(p)
  /\ UNCHANGED <<storeVars, appVars, begun, spent, again, used, usedAgain, ages, changes>>

RequestStep(p) ==
  \/ Registers(p) \/ Takes(p) \/ Exchanges(p)
  \/ Adds(p) \/ Lists(p) \/ StoresToken(p) \/ Writes(p) \/ AddFails(p) \/ Clears(p)
  \/ SendsAsIs(p) \/ Looks(p) \/ Spends(p) \/ Saves(p) \/ Answers(p) \/ CheckSaves(p) \/ Refuses(p)

Next ==
  \/ Cancels
  \/ \E p \in Requests :
       \/ \E a \in Apps : Begins(p, a)
       \/ Returns(p) \/ RequestStep(p) \/ Locks(p) \/ SpendsUnheard(p) \/ Dies(p)
       \/ \E a \in Apps, do \in {"on", "off", "remove"} : Opens(p, a, do)
       \/ \E a \in Apps, do \in {"call", "check"} : Starts(p, a, do)
  \/ \E t \in 1..(next - 1) : Ages(t)

Spec == Init /\ [][Next]_vars
-----------------------------------------------------------------------------
\* What a token is renewed with is sent once, though two requests find it old at the same
\* time; twice only when the box could not keep the answer (oauth.py:313-325).
SpentOnce == again \subseteq lost

\* The stored token is one whose renewal the app would honour, or it is being renewed, or
\* the answer was lost: no request signs the box out by what it stores.
StoredIsGood ==
  \A a \in Apps :
    \/ secret[a] \in good \union lost \union {NoToken}
    \/ \E p \in Requests : req[p].at = "saves" /\ req[p].app = a /\ req[p].seen = secret[a]

\* The app's answer to one sign-in is exchanged once, whatever the browser repeats
\* (oauth.py:281-284).
CodeOnce == usedAgain = {}

\* "never write a credential back for an app the owner removed" (oauth.py:314-315).
NotWrittenBack ==
  \A a \in Apps :
    secret[a] # NoToken /\ items[a] = "none" =>
      \E p \in Requests : req[p].app = a /\ req[p].at \in {"writes", "clears"}
=============================================================================
