-------------------------- MODULE ConnectionsProofs --------------------------
(***************************************************************************)
(* Theorems about module Connections, for every set of apps and requests.  *)
(***************************************************************************)
EXTENDS Connections, TLAPS

-----------------------------------------------------------------------------
(* What the steps of a request do to its record. *)

\* Everything but how far it is, and what is named besides, stays.
Keeps(p) ==
  /\ req'[p].do = req[p].do /\ req'[p].app = req[p].app /\ req'[p].seen = req[p].seen
  /\ req'[p].code = req[p].code
Others(p) == \A q \in Requests \ {p} : req'[q] = req[q]

LEMMA GoesOn ==
  ASSUME req \in [Requests -> Request], NEW p \in Requests, NEW phase \in Phases, Goes(p, phase)
  PROVE  /\ req' \in [Requests -> Request] /\ req'[p].at = phase /\ Keeps(p) /\ Others(p)
         /\ req'[p].tok = req[p].tok /\ req'[p].read = req[p].read /\ req'[p].force = req[p].force
<1>1. req[p] \in Request
  OBVIOUS
<1>2. req' = [req EXCEPT ![p] = [req[p] EXCEPT !.at = phase]]
  BY DEF Goes
<1>3. [req[p] EXCEPT !.at = phase] \in Request
  BY <1>1 DEF Request
<1> QED
  BY <1>1, <1>2, <1>3 DEF Request, Keeps, Others

LEMMA WithToken ==
  ASSUME req \in [Requests -> Request], NEW p \in Requests, NEW phase \in Phases,
         NEW tok \in Tokens \union {NoToken}, With(p, phase, tok)
  PROVE  /\ req' \in [Requests -> Request] /\ req'[p].at = phase /\ Keeps(p) /\ Others(p)
         /\ req'[p].tok = tok /\ req'[p].read = req[p].read /\ req'[p].force = req[p].force
<1>1. req[p] \in Request
  OBVIOUS
<1>2. req' = [req EXCEPT ![p] = [[req[p] EXCEPT !.at = phase] EXCEPT !.tok = tok]]
  BY DEF With
<1>3. [[req[p] EXCEPT !.at = phase] EXCEPT !.tok = tok] \in Request
  BY <1>1 DEF Request
<1> QED
  BY <1>1, <1>2, <1>3 DEF Request, Keeps, Others

LEMMA Ended ==
  ASSUME req \in [Requests -> Request], NEW p \in Requests, Ends(p)
  PROVE  /\ req' \in [Requests -> Request] /\ req'[p].at = "rest" /\ Others(p)
         /\ req'[p].tok = NoToken /\ req'[p].seen = NoToken /\ req'[p].app = NoApp
<1>1. Rest \in Request
  BY DEF Rest, Asked, Unread, Request, Phases, Doings, Shown
<1>2. Rest.at = "rest" /\ Rest.tok = NoToken /\ Rest.seen = NoToken /\ Rest.app = NoApp
  BY DEF Rest, Asked
<1> QED
  BY <1>1, <1>2 DEF Ends, Others

\* A request begins, in some phase.
LEMMA Begun ==
  ASSUME req \in [Requests -> Request], NEW p \in Requests, NEW r \in Request,
         req' = [req EXCEPT ![p] = r]
  PROVE  req' \in [Requests -> Request] /\ req'[p] = r /\ Others(p)
BY DEF Others

LEMMA NewRequest ==
  ASSUME NEW phase \in Phases, NEW do \in Doings, NEW a \in Apps, NEW tok \in Tokens \union {NoToken},
         NEW k \in SignIns \union {0}, NEW list \in [Apps -> Shown]
  PROVE  Asked(phase, do, a, tok, k, list) \in Request
BY DEF Asked, Request

LEMMA FieldsTyped ==
  ASSUME NEW r \in Request
  PROVE  /\ r.at \in Phases /\ r.do \in Doings /\ r.app \in Apps \union {NoApp}
         /\ r.seen \in Tokens \union {NoToken} /\ r.tok \in Tokens \union {NoToken}
         /\ r.code \in SignIns \union {0} /\ r.force \in BOOLEAN /\ r.read \in [Apps -> Shown]
BY DEF Request
-----------------------------------------------------------------------------
(* The type, in the parts the steps disturb together. *)

ReqsOK ==
  /\ req \in [Requests -> Request]
  /\ lock \in Requests \union {NoOne}
  /\ \A p \in Requests : lock = p <=> req[p].at \in {"looks", "spends", "saves"}
  /\ \A p \in Requests : req[p].at # "rest" => req[p].app \in Apps

StoreOK ==
  /\ items \in [Apps -> Shown]
  /\ secret \in [Apps -> Tokens \union {NoToken}]
  /\ pending \in {<<0, NoApp>>} \union (SignIns \X Apps)
  /\ begun \in Nat
  /\ used \subseteq SignIns /\ usedAgain \subseteq SignIns

SeenOK ==
  /\ old \subseteq Tokens /\ bad \subseteq Tokens /\ good \subseteq Tokens /\ next \in Tokens
  /\ spent \subseteq Tokens /\ again \subseteq Tokens /\ lost \subseteq Tokens
  /\ ages \in Nat /\ faults \in Nat /\ changes \in Nat

LEMMA TypeParts == TypeOK <=> ReqsOK /\ StoreOK /\ SeenOK
BY DEF TypeOK, ReqsOK, StoreOK, SeenOK
LEMMA TypePartsNext == TypeOK' <=> ReqsOK' /\ StoreOK' /\ SeenOK'
BY DEF TypeOK, ReqsOK, StoreOK, SeenOK

(* A step of one request that keeps the lock's meaning.                       *)
Locking == {"looks", "spends", "saves"}

LEMMA OneMoves ==
  ASSUME ReqsOK, NEW p \in Requests, req' \in [Requests -> Request], Others(p),
         req'[p].at # "rest" => req'[p].app \in Apps,
         \/ UNCHANGED lock /\ (req'[p].at \in Locking <=> req[p].at \in Locking)
         \/ lock = p /\ lock' = NoOne /\ req'[p].at \notin Locking
         \/ lock = NoOne /\ lock' = p /\ req'[p].at \in Locking
  PROVE  ReqsOK'
BY ConnectionsAssumption DEF ReqsOK, Others, Locking

LEMMA ReqsInductive ==
  ASSUME TypeOK, [Next]_vars
  PROVE  ReqsOK'
<1>a. ReqsOK /\ StoreOK /\ SeenOK
  BY TypeParts
<1>b. /\ req \in [Requests -> Request]
      /\ \A p \in Requests : lock = p <=> req[p].at \in Locking
      /\ \A p \in Requests : req[p].at # "rest" => req[p].app \in Apps
      /\ NoOne \notin Requests
  BY <1>a, ConnectionsAssumption DEF ReqsOK, Locking
<1>c. /\ items \in [Apps -> Shown] /\ secret \in [Apps -> Tokens \union {NoToken}]
      /\ next \in Tokens
  BY <1>a DEF StoreOK, SeenOK
<1>d. Unread \in [Apps -> Shown]
  BY DEF Unread, Shown
<1>1. CASE UNCHANGED <<req, lock>>
  BY <1>1, <1>a DEF ReqsOK
<1>2. ASSUME NEW p \in Requests, Ends(p), UNCHANGED lock, req[p].at \notin Locking
      PROVE  ReqsOK'
  BY <1>a, <1>b, <1>2, Ended, OneMoves DEF Locking
<1>3. ASSUME NEW p \in Requests, Ends(p), Frees, req[p].at \in Locking
      PROVE  ReqsOK'
  BY <1>a, <1>b, <1>3, Ended, OneMoves DEF Locking, Frees
<1>4. ASSUME NEW p \in Requests, NEW phase \in Phases, Goes(p, phase), req[p].at # "rest",
             \/ UNCHANGED lock /\ (phase \in Locking <=> req[p].at \in Locking)
             \/ lock = p /\ lock' = NoOne /\ phase \notin Locking
             \/ lock = NoOne /\ lock' = p /\ phase \in Locking
      PROVE  ReqsOK'
  <2>1. /\ req' \in [Requests -> Request] /\ req'[p].at = phase /\ req'[p].app = req[p].app /\ Others(p)
    BY <1>b, <1>4, GoesOn DEF Keeps
  <2> QED
    BY <1>a, <1>b, <1>4, <2>1, OneMoves
<1>5. ASSUME NEW p \in Requests, NEW phase \in Phases, NEW tok \in Tokens \union {NoToken},
             With(p, phase, tok), req[p].at # "rest",
             \/ UNCHANGED lock /\ (phase \in Locking <=> req[p].at \in Locking)
             \/ lock = p /\ lock' = NoOne /\ phase \notin Locking
      PROVE  ReqsOK'
  <2>1. /\ req' \in [Requests -> Request] /\ req'[p].at = phase /\ req'[p].app = req[p].app /\ Others(p)
    BY <1>b, <1>5, WithToken DEF Keeps
  <2> QED
    BY <1>a, <1>b, <1>5, <2>1, OneMoves
<1>6. ASSUME NEW p \in Requests, NEW r \in Request, req' = [req EXCEPT ![p] = r], UNCHANGED lock,
             r.app \in Apps, r.at \notin Locking, req[p].at \notin Locking
      PROVE  ReqsOK'
  <2>1. req' \in [Requests -> Request] /\ req'[p] = r /\ Others(p)
    BY <1>b, <1>6, Begun
  <2> QED
    BY <1>a, <1>b, <1>6, <2>1, OneMoves
<1>7. ASSUME NEW p \in Requests, Returns(p)
      PROVE  ReqsOK'
  <2> DEFINE r == Asked("takes", "on", pending[2], NoToken, pending[1], Unread)
  <2>1. pending[1] \in SignIns /\ pending[2] \in Apps
    BY <1>a, <1>7 DEF StoreOK, Returns
  <2>2. r \in Request
    BY <1>d, <2>1, NewRequest DEF Phases, Doings
  <2>3. r.app \in Apps /\ r.at = "takes"
    BY <2>1 DEF Asked
  <2> QED
    BY <1>6, <1>7, <2>2, <2>3 DEF Returns, Locking
<1>8. ASSUME NEW p \in Requests, NEW a \in Apps, NEW do \in Doings, Opens(p, a, do)
      PROVE  ReqsOK'
  <2> DEFINE r == Asked("writes", do, a, NoToken, 0, items)
  <2>1. r \in Request
    BY <1>c, NewRequest DEF Phases
  <2>2. r.app \in Apps /\ r.at = "writes"
    BY DEF Asked
  <2> QED
    BY <1>6, <1>8, <2>1, <2>2 DEF Opens, Locking
<1>9. ASSUME NEW p \in Requests, NEW a \in Apps, NEW do \in Doings, Starts(p, a, do)
      PROVE  ReqsOK'
  <2> DEFINE r == Asked("token", do, a, secret[a], 0, items)
  <2>1. r \in Request
    BY <1>c, NewRequest DEF Phases
  <2>2. r.app \in Apps /\ r.at = "token"
    BY DEF Asked
  <2> QED
    BY <1>6, <1>9, <2>1, <2>2 DEF Starts, Locking
<1>10. ASSUME NEW p \in Requests, Lists(p) \/ Refuses(p)
       PROVE  ReqsOK'
  <2>1. CASE Ends(p)
    BY <1>2, <1>10, <2>1 DEF Lists, Refuses, Locking
  <2>2. ASSUME NEW r \in Request, req' = [req EXCEPT ![p] = r], r.app = req[p].app, r.at \notin Locking
        PROVE  ReqsOK'
    BY <1>b, <1>6, <1>10, <2>2 DEF Lists, Refuses, Locking
  <2>3. CASE req' = [req EXCEPT ![p].at = "keeps", ![p].read = items]
    <3> DEFINE r == [req[p] EXCEPT !.at = "keeps", !.read = items]
    <3>1. r \in Request /\ r.app = req[p].app /\ r.at = "keeps"
      BY <1>b, <1>c DEF Request, Phases
    <3>2. req' = [req EXCEPT ![p] = r]
      BY <2>3, <1>b
    <3> QED
      BY <2>2, <3>1, <3>2 DEF Locking
  <2>4. CASE req' = [req EXCEPT ![p].at = "token", ![p].force = TRUE]
    <3> DEFINE r == [req[p] EXCEPT !.at = "token", !.force = TRUE]
    <3>1. r \in Request /\ r.app = req[p].app /\ r.at = "token"
      BY <1>b DEF Request, Phases
    <3>2. req' = [req EXCEPT ![p] = r]
      BY <2>4, <1>b
    <3> QED
      BY <2>2, <3>1, <3>2 DEF Locking
  <2> QED
    BY <1>10, <2>1, <2>3, <2>4 DEF Lists, Refuses
<1>11. ASSUME NEW p \in Requests, Takes(p) \/ Writes(p) \/ Clears(p) \/ Answers(p) \/ CheckSaves(p)
              \/ Registers(p) \/ Adds(p) \/ StoresToken(p) \/ AddFails(p)
       PROVE  ReqsOK'
  BY <1>2, <1>4, <1>11 DEF Takes, Writes, Clears, Answers, CheckSaves, Registers, Adds, StoresToken,
                             AddFails, Locking, Phases
<1>12. ASSUME NEW p \in Requests, Exchanges(p)
       PROVE  ReqsOK'
  BY <1>2, <1>5, <1>12, <1>c DEF Exchanges, Locking, Phases
<1>13. ASSUME NEW p \in Requests, SendsAsIs(p)
       PROVE  ReqsOK'
  BY <1>b, <1>5, <1>13, FieldsTyped DEF SendsAsIs, Locking, Phases
<1>14. ASSUME NEW p \in Requests, Locks(p)
       PROVE  ReqsOK'
  BY <1>4, <1>14 DEF Locks, Locking, Phases
<1>15. ASSUME NEW p \in Requests, Looks(p)
       PROVE  ReqsOK'
  <2>1. lock = p /\ req[p].at # "rest" /\ req[p].at \in Locking /\ req[p].app \in Apps
    BY <1>b, <1>15 DEF Looks, Locking
  <2> QED
    BY <1>3, <1>5, <1>15, <1>c, <2>1 DEF Looks, Locking, Phases, Frees
<1>16. ASSUME NEW p \in Requests, Spends(p) \/ SpendsUnheard(p)
       PROVE  ReqsOK'
  BY <1>3, <1>5, <1>16, <1>c DEF Spends, SpendsUnheard, Locking, Phases
<1>17. ASSUME NEW p \in Requests, Saves(p)
       PROVE  ReqsOK'
  <2>1. lock = p
    BY <1>b, <1>17 DEF Saves, Locking
  <2> QED
    BY <1>4, <1>17, <2>1 DEF Saves, Locking, Phases, Frees
<1>18. ASSUME NEW p \in Requests, Dies(p)
       PROVE  ReqsOK'
  BY <1>2, <1>3, <1>18, <1>b DEF Dies, Frees
<1>19. CASE UNCHANGED vars \/ Cancels \/ (\E t \in 1..(next - 1) : Ages(t))
  BY <1>1, <1>19 DEF vars, Cancels, Ages
<1>20. ASSUME NEW p \in Requests, NEW a \in Apps, Begins(p, a)
       PROVE  ReqsOK'
  <2> DEFINE r == Asked("begins", "on", a, NoToken, 0, Unread)
  <2>1. r \in Request
    BY <1>d, NewRequest DEF Phases, Doings
  <2>2. r.app \in Apps /\ r.at = "begins"
    BY DEF Asked
  <2> QED
    BY <1>6, <1>20, <2>1, <2>2 DEF Begins, Locking
<1> QED
  BY <1>20, <1>7, <1>8, <1>9, <1>10, <1>11, <1>12, <1>13, <1>14, <1>15, <1>16, <1>17, <1>18, <1>19
     DEF Next, RequestStep, Doings

(* What a request carries at the steps that use it.  The type needs it: what  *)
(* is noted as used or as spent is a sign-in or a token.                      *)
CarriesOK(r) ==
  /\ r.at \in {"takes", "exchanges"} => r.code \in SignIns
  /\ r.at = "spends" => r.tok \in Tokens /\ r.seen = r.tok
  /\ r.at = "saves" => r.seen \in Tokens
  /\ r.at \in {"takes", "exchanges", "adds", "lists", "keeps", "writes"} => r.do \in {"on", "off", "remove"}
Carries == \A p \in Requests : CarriesOK(req[p])

LEMMA OneCarries ==
  ASSUME Carries, NEW p \in Requests, Others(p), CarriesOK(req'[p])
  PROVE  Carries'
BY DEF Carries, Others, CarriesOK

LEMMA CarriesInductive ==
  ASSUME TypeOK, Carries, [Next]_vars
  PROVE  Carries'
<1>a. /\ req \in [Requests -> Request]
      /\ secret \in [Apps -> Tokens \union {NoToken}] /\ next \in Tokens
      /\ pending \in {<<0, NoApp>>} \union (SignIns \X Apps)
      /\ \A p \in Requests : req[p].at # "rest" => req[p].app \in Apps
      /\ Unread \in [Apps -> Shown]
  BY TypeParts DEF ReqsOK, StoreOK, SeenOK, Unread, Shown
<1>b. ASSUME NEW p \in Requests
      PROVE  CarriesOK(req[p]) /\ req[p] \in Request
  BY <1>a DEF Carries
<1>1. CASE UNCHANGED req
  BY <1>1 DEF Carries, CarriesOK
<1>2. ASSUME NEW p \in Requests, Ends(p)
      PROVE  Carries'
  <2>1. Others(p) /\ req'[p].at = "rest"
    BY <1>2, <1>a, Ended
  <2> QED
    BY <2>1, OneCarries DEF CarriesOK
<1>3. ASSUME NEW p \in Requests, NEW phase \in Phases, Goes(p, phase),
             \/ phase \notin {"takes", "exchanges", "spends", "saves", "adds", "lists", "keeps", "writes"}
             \/ phase = "exchanges" /\ req[p].at = "takes"
             \/ phase = "lists" /\ req[p].at = "adds"
             \/ phase = "writes" /\ req[p].at = "keeps"
      PROVE  Carries'
  <2>1. Others(p) /\ req'[p].at = phase /\ req'[p].code = req[p].code /\ req'[p].do = req[p].do
    BY <1>3, <1>a, GoesOn DEF Keeps
  <2> QED
    BY <1>3, <1>b, <2>1, OneCarries DEF CarriesOK
<1>4. ASSUME NEW p \in Requests, NEW phase \in Phases, NEW tok \in Tokens \union {NoToken},
             With(p, phase, tok),
             \/ phase = "asks"
             \/ phase = "adds" /\ req[p].at = "exchanges"
             \/ phase = "spends" /\ tok # NoToken /\ req[p].seen = tok
             \/ phase = "saves" /\ req[p].at = "spends"
      PROVE  Carries'
  <2>1. Others(p) /\ req'[p].at = phase /\ req'[p].seen = req[p].seen /\ req'[p].tok = tok
        /\ req'[p].do = req[p].do
    BY <1>4, <1>a, WithToken DEF Keeps
  <2>2. CarriesOK(req[p])
    BY <1>b
  <2> QED
    BY <1>4, <2>1, <2>2, OneCarries DEF CarriesOK
<1>5. ASSUME NEW p \in Requests, NEW phase \in Phases \ {"spends", "saves"}, NEW r,
             r.at = phase, phase = "takes" => r.code \in SignIns, phase \notin {"exchanges", "adds"},
             phase \in {"takes", "lists", "keeps", "writes"} => r.do \in {"on", "off", "remove"},
             req' = [req EXCEPT ![p] = r]
      PROVE  Carries'
  <2>1. Others(p) /\ req'[p] = r
    BY <1>5, <1>a DEF Others
  <2> QED
    BY <1>5, <2>1, OneCarries DEF CarriesOK
<1>6. ASSUME NEW p \in Requests, Returns(p)
      PROVE  Carries'
  <2> DEFINE r == Asked("takes", "on", pending[2], NoToken, pending[1], Unread)
  <2>1. pending[1] \in SignIns /\ r.at = "takes" /\ r.code = pending[1] /\ r.do = "on"
    BY <1>6, <1>a DEF Returns, Asked
  <2> QED
    BY <1>5, <1>6, <2>1 DEF Returns, Phases
<1>7. ASSUME NEW p \in Requests, NEW a \in Apps, NEW do,
             Starts(p, a, do) \/ Begins(p, a) \/ (Opens(p, a, do) /\ do \in {"on", "off", "remove"})
      PROVE  Carries'
  <2>1. PICK phase, tok, list :
          /\ phase \in {"begins", "writes", "token"}
          /\ \E how : /\ req' = [req EXCEPT ![p] = Asked(phase, how, a, tok, 0, list)]
                      /\ phase = "writes" => how \in {"on", "off", "remove"}
    BY <1>7 DEF Opens, Starts, Begins
  <2>2. \A how : /\ Asked(phase, how, a, tok, 0, list).at = phase
                 /\ Asked(phase, how, a, tok, 0, list).do = how
    BY DEF Asked
  <2> QED
    BY <1>5, <2>1, <2>2 DEF Phases
<1>8. ASSUME NEW p \in Requests, Lists(p) \/ Refuses(p), ~Ends(p)
      PROVE  Carries'
  <2>1. CASE Lists(p)
    <3> DEFINE r == [req[p] EXCEPT !.at = "keeps", !.read = items]
    <3>1. r.at = "keeps" /\ r.do = req[p].do /\ req' = [req EXCEPT ![p] = r]
      BY <1>b, <1>a, <1>8, <2>1 DEF Request, Lists
    <3>2. req[p].do \in {"on", "off", "remove"}
      BY <1>b, <2>1 DEF Lists, CarriesOK
    <3> QED
      BY <1>5, <3>1, <3>2 DEF Phases
  <2>2. CASE Refuses(p)
    <3> DEFINE r == [req[p] EXCEPT !.at = "token", !.force = TRUE]
    <3>1. r.at = "token" /\ req' = [req EXCEPT ![p] = r]
      BY <1>b, <1>a, <1>8, <2>2 DEF Request, Refuses
    <3> QED
      BY <1>5, <3>1 DEF Phases
  <2> QED
    BY <1>8, <2>1, <2>2
<1>9. ASSUME NEW p \in Requests,
             Takes(p) \/ Writes(p) \/ Clears(p) \/ Answers(p) \/ CheckSaves(p) \/ Locks(p) \/ Saves(p)
             \/ Dies(p) \/ SpendsUnheard(p) \/ Registers(p) \/ Adds(p) \/ StoresToken(p) \/ AddFails(p)
      PROVE  Carries'
  BY <1>2, <1>3, <1>9 DEF Takes, Writes, Clears, Answers, CheckSaves, Locks, Saves, Dies,
                          SpendsUnheard, Registers, Adds, StoresToken, AddFails, Phases
<1>10. ASSUME NEW p \in Requests, Exchanges(p) \/ Spends(p)
       PROVE  Carries'
  BY <1>2, <1>4, <1>10, <1>a DEF Exchanges, Spends, Phases
<1>11. ASSUME NEW p \in Requests, SendsAsIs(p)
       PROVE  Carries'
  BY <1>b, <1>4, <1>11, FieldsTyped DEF SendsAsIs, Phases
<1>12. ASSUME NEW p \in Requests, Looks(p)
       PROVE  Carries'
  <2>1. secret[req[p].app] \in Tokens \union {NoToken}
    BY <1>a, <1>12 DEF Looks
  <2> QED
    BY <1>2, <1>4, <1>12, <2>1 DEF Looks, StillDue, Phases
<1>13. CASE UNCHANGED vars \/ Cancels \/ (\E t \in 1..(next - 1) : Ages(t))
  BY <1>1, <1>13 DEF vars, Cancels, Ages
<1> QED
  BY <1>2, <1>6, <1>7, <1>8, <1>9, <1>10, <1>11, <1>12, <1>13 DEF Next, RequestStep

LEMMA StoreInductive ==
  ASSUME TypeOK, Carries, [Next]_vars
  PROVE  StoreOK'
<1>a. StoreOK
  BY TypeParts
<1>b. \A p \in Requests :
        /\ req[p].tok \in Tokens \union {NoToken} /\ req[p].code \in SignIns \union {0}
        /\ req[p].do \in Doings /\ req[p].read \in [Apps -> Shown]
  BY TypeParts, FieldsTyped DEF ReqsOK
<1> USE <1>a, <1>b DEF StoreOK
<1>1. CASE UNCHANGED <<storeVars, begun, used, usedAgain>>
  BY <1>1 DEF storeVars
<1>2. ASSUME NEW p \in Requests, Registers(p)
      PROVE  StoreOK'
  <2>1. req[p].app \in Apps
    BY <1>2, TypeParts DEF Registers, ReqsOK
  <2> QED
    BY <1>2, <2>1 DEF Registers, SignIns
<1>3. CASE Cancels
  BY <1>3 DEF Cancels, seenVars
<1>4. ASSUME NEW p \in Requests, Takes(p) \/ StoresToken(p) \/ Clears(p) \/ Saves(p)
      PROVE  StoreOK'
  BY <1>4 DEF Takes, StoresToken, Clears, Saves, seenVars
<1>5. ASSUME NEW p \in Requests, Exchanges(p)
      PROVE  StoreOK'
  <2>1. req[p].code \in SignIns
    BY <1>5 DEF Exchanges, Carries, CarriesOK
  <2> QED
    BY <1>5, <2>1 DEF Exchanges, storeVars
<1>6. ASSUME NEW p \in Requests, Writes(p) \/ CheckSaves(p)
      PROVE  StoreOK'
  <2>1. ASSUME NEW now \in Shown, items' = [req[p].read EXCEPT ![req[p].app] = now]
        PROVE  items' \in [Apps -> Shown]
    BY <2>1
  <2>2. CASE Writes(p)
    <3>1. (IF req[p].do = "remove" THEN "none" ELSE req[p].do) \in Shown
      BY <2>2 DEF Writes, Carries, CarriesOK, Shown
    <3> QED
      BY <2>1, <2>2, <3>1 DEF Writes, seenVars
  <2>3. CASE CheckSaves(p)
    <3>1. req[p].app \in Apps
      BY <2>3, TypeParts DEF CheckSaves, ReqsOK
    <3>2. req[p].read[req[p].app] \in Shown /\ "off" \in Shown
      BY <3>1 DEF Shown
    <3> QED
      BY <2>1, <2>3, <3>2 DEF CheckSaves, seenVars
  <2> QED
    BY <1>6, <2>2, <2>3
<1>7. ASSUME NEW p \in Requests,
             Returns(p) \/ SendsAsIs(p) \/ Locks(p) \/ Looks(p) \/ Spends(p) \/ SpendsUnheard(p)
             \/ Answers(p) \/ Refuses(p) \/ Dies(p) \/ Adds(p) \/ Lists(p) \/ AddFails(p)
      PROVE  StoreOK'
  BY <1>1, <1>7 DEF Returns, SendsAsIs, Locks, Looks, Spends, SpendsUnheard, Answers, Refuses, Dies,
                    Adds, Lists, AddFails,
                    seenVars, storeVars
<1>8. ASSUME NEW p \in Requests, NEW a \in Apps, NEW do, Opens(p, a, do) \/ Starts(p, a, do) \/ Begins(p, a)
      PROVE  StoreOK'
  BY <1>1, <1>8 DEF Opens, Starts, Begins, seenVars
<1>9. CASE UNCHANGED vars \/ (\E t \in 1..(next - 1) : Ages(t))
  BY <1>1, <1>9 DEF vars, Ages, seenVars
<1> QED
  BY <1>2, <1>3, <1>4, <1>5, <1>6, <1>7, <1>8, <1>9 DEF Next, RequestStep

LEMMA SeenInductive ==
  ASSUME TypeOK, Carries, [Next]_vars
  PROVE  SeenOK'
<1>a. SeenOK
  BY TypeParts
<1>b. /\ next \in Tokens /\ next + 1 \in Tokens /\ 1..(next - 1) \subseteq Tokens
      /\ ages + 1 \in Nat /\ faults + 1 \in Nat /\ changes + 1 \in Nat
  BY <1>a DEF SeenOK, Tokens
<1> USE <1>a, <1>b DEF SeenOK
<1>1. CASE UNCHANGED <<appVars, seenVars, bounds>>
  BY <1>1 DEF appVars, seenVars, bounds
<1>2. ASSUME NEW p \in Requests, Exchanges(p)
      PROVE  SeenOK'
  BY <1>2 DEF Exchanges, bounds
<1>3. ASSUME NEW p \in Requests, Spends(p) \/ SpendsUnheard(p)
      PROVE  SeenOK'
  <2>1. req[p].tok \in Tokens
    BY <1>3 DEF Spends, SpendsUnheard, Carries, CarriesOK
  <2> QED
    BY <1>3, <2>1 DEF Spends, SpendsUnheard, Spent, bounds
<1>4. ASSUME NEW p \in Requests, Dies(p)
      PROVE  SeenOK'
  <2>1. req[p].at = "saves" => req[p].seen \in Tokens
    BY DEF Carries, CarriesOK
  <2> QED
    BY <1>4, <2>1 DEF Dies, appVars
<1>5. ASSUME NEW t \in 1..(next - 1), Ages(t)
      PROVE  SeenOK'
  BY <1>5 DEF Ages, seenVars
<1>6. CASE Cancels
  BY <1>6 DEF Cancels, appVars, seenVars, bounds
<1>7. ASSUME NEW p \in Requests, NEW a \in Apps, NEW do, Opens(p, a, do) \/ Starts(p, a, do) \/ Begins(p, a)
      PROVE  SeenOK'
  BY <1>7 DEF Opens, Starts, Begins, appVars, seenVars, bounds
<1>8. ASSUME NEW p \in Requests,
             Returns(p) \/ Takes(p) \/ Adds(p) \/ Writes(p) \/ Clears(p) \/ SendsAsIs(p) \/ Looks(p)
             \/ Saves(p) \/ Answers(p) \/ CheckSaves(p) \/ Refuses(p) \/ Locks(p)
             \/ Lists(p) \/ StoresToken(p)
      PROVE  SeenOK'
  BY <1>1, <1>8 DEF Returns, Takes, Adds, Writes, Clears, SendsAsIs, Looks, Saves, Answers, CheckSaves,
                    Refuses, Locks, Lists, StoresToken
<1>10. ASSUME NEW p \in Requests, Registers(p) \/ AddFails(p)
      PROVE  SeenOK'
  BY <1>10 DEF Registers, AddFails, appVars, seenVars, bounds
<1>9. CASE UNCHANGED vars
  BY <1>9 DEF vars, appVars, seenVars, bounds
<1> QED
  BY <1>2, <1>3, <1>4, <1>5, <1>6, <1>7, <1>8, <1>9, <1>10 DEF Next, RequestStep

TypeInv == TypeOK /\ Carries

(* Types, with what a request carries at each of its steps (oauth.py           *)
(* token_for, finish).                                                        *)
THEOREM TypeInvHolds == Spec => []TypeInv
<1>1. Init => TypeInv
  <2> SUFFICES ASSUME Init PROVE ReqsOK /\ StoreOK /\ SeenOK /\ Carries
    BY TypeParts DEF TypeInv
  <2>1. Rest \in Request /\ Rest.at = "rest"
    BY DEF Rest, Asked, Unread, Request, Phases, Doings, Shown
  <2>2. ReqsOK /\ Carries
    BY <2>1, ConnectionsAssumption DEF Init, ReqsOK, Carries, CarriesOK
  <2>3. StoreOK /\ SeenOK
    BY DEF Init, StoreOK, SeenOK, Shown, Tokens
  <2> QED
    BY <2>2, <2>3
<1>2. TypeInv /\ [Next]_vars => TypeInv'
  BY TypePartsNext, ReqsInductive, CarriesInductive, StoreInductive, SeenInductive DEF TypeInv
<1> QED
  BY <1>1, <1>2, PTL DEF Spec

(* Type correctness.  The lock is a request's exactly while it renews.        *)
THEOREM ConnectionsTypeCorrect == Spec => []TypeOK
BY TypeInvHolds, PTL DEF TypeInv
-----------------------------------------------------------------------------
(* The answer of a sign-in is in one place only: it is under way, or a        *)
(* request has taken it, or it has been used.                                 *)
CodeInv ==
  /\ CodeOnce
  /\ pending[1] \notin used /\ pending[1] <= begun
  /\ \A k \in used : k <= begun
  /\ \A p \in Requests : req[p].at \in {"takes", "exchanges"} => req[p].code <= begun
  /\ \A p \in Requests : req[p].at = "exchanges" =>
       /\ req[p].code \notin used /\ req[p].code # pending[1]
       /\ \A q \in Requests \ {p} : req[q].at = "exchanges" => req[q].code # req[p].code

(* What a step does to the request that takes it, as far as codes go.         *)
LEMMA CodeUntouched ==
  ASSUME CodeInv, UNCHANGED <<pending, begun, used, usedAgain>>, NEW p \in Requests, Others(p),
         req'[p].at \notin {"takes", "exchanges"}
  PROVE  CodeInv'
BY DEF CodeInv, CodeOnce, Others

LEMMA CodeInductive ==
  ASSUME TypeInv, CodeInv, [Next]_vars
  PROVE  CodeInv'
<1>a. /\ req \in [Requests -> Request] /\ begun \in Nat /\ used \subseteq SignIns
      /\ pending \in {<<0, NoApp>>} \union (SignIns \X Apps)
      /\ secret \in [Apps -> Tokens \union {NoToken}] /\ next \in Tokens
      /\ \A p \in Requests : req[p].at # "rest" => req[p].app \in Apps
  BY TypeParts DEF ReqsOK, StoreOK, SeenOK, TypeInv
<1>b. \A p \in Requests : req[p] \in Request /\ CarriesOK(req[p])
  BY <1>a DEF TypeInv, Carries
<1>1. ASSUME NEW p \in Requests, UNCHANGED <<pending, begun, used, usedAgain>>, Ends(p)
      PROVE  CodeInv'
  <2>1. Others(p) /\ req'[p].at = "rest"
    BY <1>1, <1>a, Ended
  <2> QED
    BY <1>1, <2>1, CodeUntouched
<1>2. ASSUME NEW p \in Requests, UNCHANGED <<pending, begun, used, usedAgain>>,
             NEW phase \in Phases \ {"takes", "exchanges"}, Goes(p, phase)
      PROVE  CodeInv'
  <2>1. Others(p) /\ req'[p].at = phase
    BY <1>2, <1>a, GoesOn
  <2> QED
    BY <1>2, <2>1, CodeUntouched
<1>3. ASSUME NEW p \in Requests, UNCHANGED <<pending, begun, used, usedAgain>>,
             NEW phase \in Phases \ {"takes", "exchanges"}, NEW tok \in Tokens \union {NoToken},
             With(p, phase, tok)
      PROVE  CodeInv'
  <2>1. Others(p) /\ req'[p].at = phase
    BY <1>3, <1>a, WithToken
  <2> QED
    BY <1>3, <2>1, CodeUntouched
<1>4. ASSUME NEW p \in Requests, UNCHANGED <<pending, begun, used, usedAgain>>,
             NEW r, r.at \notin {"takes", "exchanges"}, req' = [req EXCEPT ![p] = r]
      PROVE  CodeInv'
  <2>1. Others(p) /\ req'[p].at = r.at
    BY <1>4, <1>a DEF Others
  <2> QED
    BY <1>4, <2>1, CodeUntouched
<1>5. ASSUME NEW p \in Requests, Registers(p)
      PROVE  CodeInv'
  <2>1. CASE UNCHANGED <<begun, pending>>
    BY <1>1, <1>5, <2>1 DEF Registers
  <2>2. CASE begun' = begun + 1 /\ pending' = <<begun + 1, req[p].app>>
    <3>1. pending'[1] = begun + 1 /\ begun' = begun + 1 /\ UNCHANGED <<used, usedAgain>>
      BY <1>5, <2>2 DEF Registers
    <3>2. Others(p) /\ req'[p].at = "rest"
      BY <1>5, <1>a, Ended DEF Registers
    <3> QED
      BY <3>1, <3>2, <1>a, <1>b, FieldsTyped DEF CodeInv, CodeOnce, SignIns, Others
  <2> QED
    BY <1>5, <2>1, <2>2 DEF Registers
<1>6. CASE Cancels
  <2>1. pending'[1] = 0 /\ UNCHANGED <<req, begun, used, usedAgain>>
    BY <1>6 DEF Cancels, seenVars
  <2> QED
    BY <2>1, <1>a, <1>b DEF CodeInv, CodeOnce, SignIns, CarriesOK
<1>7. ASSUME NEW p \in Requests, Returns(p)
      PROVE  CodeInv'
  <2> DEFINE r == Asked("takes", "on", pending[2], NoToken, pending[1], Unread)
  <2>1. r.at = "takes" /\ r.code = pending[1]
    BY DEF Asked
  <2>2. Others(p) /\ req'[p] = r
    BY <1>7, <1>a DEF Others, Returns
  <2>3. UNCHANGED <<pending, begun, used, usedAgain>>
    BY <1>7 DEF Returns, storeVars, seenVars
  <2> HIDE DEF r
  <2> QED
    BY <2>1, <2>2, <2>3 DEF CodeInv, CodeOnce, Others
<1>8. ASSUME NEW p \in Requests, Takes(p)
      PROVE  CodeInv'
  <2>1. CASE Ends(p) /\ UNCHANGED pending
    BY <1>1, <1>8, <2>1 DEF Takes, seenVars
  <2>2. CASE pending[1] = req[p].code /\ Goes(p, "exchanges") /\ pending' = <<0, NoApp>>
    <3>1. Others(p) /\ req'[p].at = "exchanges" /\ req'[p].code = req[p].code
      BY <1>a, <2>2, GoesOn DEF Keeps, Phases
    <3>2. pending'[1] = 0 /\ UNCHANGED <<begun, used, usedAgain>>
      BY <1>8, <2>2 DEF Takes, seenVars
    <3>3. 0 \notin SignIns /\ 0 <= begun /\ \A q \in Requests : req[q].at \in {"takes", "exchanges"} => req[q].code \in SignIns
      BY <1>a, <1>b DEF SignIns, CarriesOK
    <3>4. req[p].at = "takes"
      BY <1>8 DEF Takes
    <3> QED
      BY <1>a, <2>2, <3>1, <3>2, <3>3, <3>4 DEF CodeInv, CodeOnce, Others
  <2> QED
    BY <1>8, <2>1, <2>2 DEF Takes
<1>9. ASSUME NEW p \in Requests, Exchanges(p)
      PROVE  CodeInv'
  <2>1. Others(p) /\ req'[p].at \in {"adds", "rest"}
    <3>1. CASE Ends(p)
      BY <1>a, <3>1, Ended
    <3>2. CASE With(p, "adds", next)
      BY <1>a, <3>2, WithToken DEF Phases
    <3> QED
      BY <1>9, <3>1, <3>2 DEF Exchanges
  <2>2. /\ used' = used \union {req[p].code} /\ usedAgain' = usedAgain \union (used \intersect {req[p].code})
        /\ UNCHANGED <<pending, begun>> /\ req[p].at = "exchanges"
    BY <1>9 DEF Exchanges, storeVars
  <2> QED
    BY <2>1, <2>2 DEF CodeInv, CodeOnce, Others
<1>10. ASSUME NEW p \in Requests, Lists(p) \/ Refuses(p)
       PROVE  CodeInv'
  <2>1. UNCHANGED <<pending, begun, used, usedAgain>>
    BY <1>10 DEF Lists, Refuses, storeVars, seenVars
  <2>2. CASE Ends(p)
    BY <1>1, <2>1, <2>2
  <2>3. CASE req' = [req EXCEPT ![p].at = "keeps", ![p].read = items]
    <3> DEFINE r == [req[p] EXCEPT !.at = "keeps", !.read = items]
    <3>1. r.at = "keeps" /\ req' = [req EXCEPT ![p] = r]
      BY <1>b, <1>a, <2>3 DEF Request
    <3> QED
      BY <1>4, <2>1, <3>1
  <2>4. CASE req' = [req EXCEPT ![p].at = "token", ![p].force = TRUE]
    <3> DEFINE r == [req[p] EXCEPT !.at = "token", !.force = TRUE]
    <3>1. r.at = "token" /\ req' = [req EXCEPT ![p] = r]
      BY <1>b, <1>a, <2>4 DEF Request
    <3> QED
      BY <1>4, <2>1, <3>1
  <2> QED
    BY <1>10, <2>2, <2>3, <2>4 DEF Lists, Refuses
<1>11. ASSUME NEW p \in Requests, NEW a \in Apps, NEW do, Opens(p, a, do) \/ Starts(p, a, do) \/ Begins(p, a)
       PROVE  CodeInv'
  <2>1. PICK phase, tok, list :
          /\ phase \in {"begins", "writes", "token"}
          /\ \E how : req' = [req EXCEPT ![p] = Asked(phase, how, a, tok, 0, list)]
    BY <1>11 DEF Opens, Starts, Begins
  <2>2. \A how : Asked(phase, how, a, tok, 0, list).at = phase
    BY DEF Asked
  <2>3. UNCHANGED <<pending, begun, used, usedAgain>>
    BY <1>11 DEF Opens, Starts, Begins, storeVars, seenVars
  <2> QED
    BY <1>4, <2>1, <2>2, <2>3
<1>12. ASSUME NEW p \in Requests,
              Writes(p) \/ Clears(p) \/ Answers(p) \/ CheckSaves(p) \/ Locks(p) \/ Saves(p)
              \/ Dies(p) \/ SpendsUnheard(p) \/ Adds(p) \/ StoresToken(p) \/ AddFails(p)
       PROVE  CodeInv'
  <2>1. UNCHANGED <<pending, begun, used, usedAgain>>
    BY <1>12 DEF Writes, Clears, Answers, CheckSaves, Locks, Saves, Dies, SpendsUnheard, Adds,
              StoresToken, AddFails, storeVars, seenVars
  <2>2. Ends(p) \/ \E phase \in {"clears", "checked", "looks", "asks", "lists", "writes"} : Goes(p, phase)
    BY <1>12 DEF Writes, Clears, Answers, CheckSaves, Locks, Saves, Dies, SpendsUnheard, Adds,
              StoresToken, AddFails
  <2> QED
    BY <1>1, <1>2, <2>1, <2>2 DEF Phases
<1>13. ASSUME NEW p \in Requests, SendsAsIs(p) \/ Looks(p) \/ Spends(p)
       PROVE  CodeInv'
  <2>1. UNCHANGED <<pending, begun, used, usedAgain>>
    BY <1>13 DEF SendsAsIs, Looks, Spends, storeVars, seenVars
  <2>2. /\ req[p].seen \in Tokens \union {NoToken} /\ next \in Tokens \union {NoToken}
        /\ req[p].app \in Apps => secret[req[p].app] \in Tokens \union {NoToken}
        /\ req[p].app \in Apps
    BY <1>13, <1>a, <1>b, FieldsTyped DEF SendsAsIs, Looks, Spends
  <2>3. Ends(p) \/ \E phase \in {"asks", "spends", "saves"}, tok \in Tokens \union {NoToken} : With(p, phase, tok)
    BY <1>13, <2>2 DEF SendsAsIs, Looks, Spends
  <2> QED
    BY <1>1, <1>3, <2>1, <2>3 DEF Phases
<1>14. CASE UNCHANGED vars \/ (\E t \in 1..(next - 1) : Ages(t))
  <2>1. UNCHANGED <<pending, begun, used, usedAgain, req>>
    BY <1>14 DEF vars, Ages, storeVars, seenVars
  <2> QED
    BY <2>1 DEF CodeInv, CodeOnce
<1> QED
  BY <1>5, <1>6, <1>7, <1>8, <1>9, <1>10, <1>11, <1>12, <1>13, <1>14 DEF Next, RequestStep

(* The app's answer to a sign-in is exchanged once, however often the browser *)
(* brings it back and whatever the other requests do (oauth.py finish,        *)
(* box_secrets.take).                                                         *)
THEOREM CodeUsedOnce == Spec => []CodeOnce
<1>1. Init => CodeInv
  <2> SUFFICES ASSUME Init PROVE CodeInv
    OBVIOUS
  <2>1. \A p \in Requests : req[p].at = "rest"
    BY DEF Init, Rest, Asked
  <2> QED
    BY <2>1 DEF Init, CodeInv, CodeOnce
<1>2. TypeInv /\ CodeInv /\ [Next]_vars => CodeInv'
  BY CodeInductive
<1>3. CodeInv => CodeOnce
  BY DEF CodeInv
<1> QED
  BY <1>1, <1>2, <1>3, TypeInvHolds, PTL DEF Spec
-----------------------------------------------------------------------------
(* Where tokens are.  One app's token is stored nowhere else, one request     *)
(* renews at a time, and a token not stored yet is its request's alone.       *)
\* A new token that is not stored yet.
Fresh == {"adds", "lists", "keeps", "saves"}
Holds(p) == {req[p].tok, req[p].seen} \ {NoToken}

OneApp ==
  /\ \A a, b \in Apps : secret[a] = secret[b] /\ secret[a] # NoToken => a = b
  /\ \A p \in Requests, a \in Apps : secret[a] \in Holds(p) => req[p].app = a
  /\ \A p, q \in Requests : \A t \in Holds(p) \intersect Holds(q) : req[p].app = req[q].app

Made ==
  /\ \A t \in good \union spent : t < next
  /\ \A a \in Apps : secret[a] < next
  /\ \A p \in Requests : req[p].tok < next /\ req[p].seen < next

HeldIsGood ==
  /\ \A p \in Requests :
       /\ req[p].at = "spends" => req[p].tok \in good \union lost /\ req[p].seen = req[p].tok
                                  /\ req[p].tok # NoToken
       /\ req[p].at \in Fresh => req[p].tok \in good /\ req[p].tok # NoToken
  /\ good \intersect spent \subseteq lost

NewIsOwn ==
  \A p \in Requests : req[p].at \in Fresh =>
    /\ \A a \in Apps : secret[a] # req[p].tok
    /\ \A q \in Requests \ {p} : req[q].tok # req[p].tok
    /\ \A q \in Requests : req[q].seen # req[p].tok

TokenInv == OneApp /\ Made /\ HeldIsGood /\ NewIsOwn /\ StoredIsGood /\ SpentOnce

(* What a step does to the tokens: the moves of a request p.                  *)
Quiet == UNCHANGED <<secret, good, next, spent, again, lost>>

\* It begins, ends, or goes on with the token it saw or the one that is stored.
Passes(p) ==
  /\ Quiet /\ req[p].at # "saves" /\ req'[p].at \notin Fresh \union {"spends"}
  /\ \/ /\ req'[p].app = req[p].app /\ req'[p].seen = req[p].seen
        /\ \/ req'[p].tok \in {req[p].tok, req[p].seen}
           \/ req[p].app \in Apps /\ req'[p].tok = secret[req[p].app]
     \/ /\ req'[p].tok = NoToken
        /\ \/ req'[p].seen = NoToken
           \/ req'[p].app \in Apps /\ req'[p].seen = secret[req'[p].app]

Waits(p) ==
  /\ Quiet /\ req[p].at \in {"adds", "lists"} /\ req'[p].at \in {"lists", "keeps"}
  /\ req'[p].tok = req[p].tok /\ req'[p].seen = req[p].seen /\ req'[p].app = req[p].app

SetsOut(p) ==
  /\ Quiet /\ req[p].at = "looks" /\ req'[p].at = "spends" /\ req'[p].app = req[p].app /\ req[p].app \in Apps
  /\ req'[p].tok = secret[req[p].app] /\ req'[p].seen = req'[p].tok /\ req'[p].tok # NoToken

Obtains(p) ==
  /\ req[p].at = "exchanges" /\ req'[p].at = "adds" /\ req'[p].tok = next
  /\ req'[p].seen = req[p].seen /\ req'[p].app = req[p].app
  /\ good' = good \union {next} /\ next' = next + 1
  /\ UNCHANGED <<secret, spent, again, lost>>

Stores(p) ==
  /\ req[p].at \in {"keeps", "saves"} /\ req'[p].at \in {"writes", "asks"} /\ req[p].app \in Apps
  /\ req'[p].tok = req[p].tok /\ req'[p].seen = req[p].seen /\ req'[p].app = req[p].app
  /\ secret' = [secret EXCEPT ![req[p].app] = req[p].tok]
  /\ UNCHANGED <<good, next, spent, again, lost>>

Stops(p) == req'[p].at = "rest" /\ req'[p].tok = NoToken /\ req'[p].seen = NoToken /\ req'[p].app = NoApp

Forgets(p) ==
  /\ req[p].at = "clears" /\ Stops(p) /\ req[p].app \in Apps
  /\ secret' = [secret EXCEPT ![req[p].app] = NoToken]
  /\ UNCHANGED <<good, next, spent, again, lost>>

Renews(p) ==
  /\ req[p].at = "spends" /\ Spent(p) /\ req[p].tok \in good /\ req[p].app \in Apps
  /\ good' = (good \ {req[p].tok}) \union {next} /\ next' = next + 1
  /\ req'[p].at = "saves" /\ req'[p].tok = next /\ req'[p].seen = req[p].seen /\ req'[p].app = req[p].app
  /\ UNCHANGED <<secret, lost>>

RenewsNot(p) ==
  /\ req[p].at = "spends" /\ Spent(p) /\ Stops(p)
  /\ \/ req[p].tok \notin good /\ UNCHANGED <<good, lost>>
     \/ lost' = lost \union {req[p].tok} /\ good' \in {good, good \ {req[p].tok}}
  /\ UNCHANGED <<secret, next>>

Breaks(p) ==
  /\ req[p].at = "saves" /\ Stops(p)
  /\ lost' = lost \union {req[p].seen}
  /\ UNCHANGED <<secret, good, next, spent, again>>

Moves(p) ==
  /\ Others(p)
  /\ \/ Passes(p) \/ Waits(p) \/ SetsOut(p) \/ Obtains(p) \/ Stores(p) \/ Forgets(p) \/ Renews(p) \/ RenewsNot(p)
     \/ Breaks(p)

LEMMA StepsAreMoves ==
  ASSUME TypeInv, [Next]_vars
  PROVE  UNCHANGED <<req, secret, good, next, spent, again, lost>> \/ \E p \in Requests : Moves(p)
<1>a. /\ req \in [Requests -> Request]
      /\ pending \in {<<0, NoApp>>} \union (SignIns \X Apps)
      /\ secret \in [Apps -> Tokens \union {NoToken}] /\ next \in Tokens
      /\ \A p \in Requests : req[p].at # "rest" => req[p].app \in Apps
  BY TypeParts DEF ReqsOK, StoreOK, SeenOK, TypeInv
<1>b. \A p \in Requests : req[p] \in Request /\ CarriesOK(req[p])
  BY <1>a DEF TypeInv, Carries
<1>1. ASSUME NEW p \in Requests, Ends(p)
      PROVE  Others(p) /\ Stops(p)
  BY <1>1, <1>a, Ended DEF Stops
<1>2. ASSUME NEW p \in Requests, NEW phase \in Phases, Goes(p, phase)
      PROVE  /\ Others(p) /\ req'[p].at = phase /\ req'[p].tok = req[p].tok
             /\ req'[p].seen = req[p].seen /\ req'[p].app = req[p].app
  BY <1>2, <1>a, GoesOn DEF Keeps
<1>3. ASSUME NEW p \in Requests, NEW phase \in Phases, NEW tok \in Tokens \union {NoToken}, With(p, phase, tok)
      PROVE  /\ Others(p) /\ req'[p].at = phase /\ req'[p].tok = tok
             /\ req'[p].seen = req[p].seen /\ req'[p].app = req[p].app
  BY <1>3, <1>a, WithToken DEF Keeps
<1>4. ASSUME NEW p \in Requests, Quiet, Ends(p), req[p].at # "saves"
      PROVE  Moves(p)
  BY <1>1, <1>4 DEF Moves, Passes, Fresh, Stops
<1>5. ASSUME NEW p \in Requests, Quiet, NEW phase \in Phases \ (Fresh \union {"spends"}), Goes(p, phase),
             req[p].at # "saves"
      PROVE  Moves(p)
  BY <1>2, <1>5 DEF Moves, Passes, Fresh
<1>6. ASSUME NEW p \in Requests, Quiet, NEW r, req' = [req EXCEPT ![p] = r], req[p].at # "saves",
             r.at \notin Fresh \union {"spends"},
             \/ r.app = req[p].app /\ r.seen = req[p].seen /\ r.tok = req[p].tok
             \/ /\ r.tok = NoToken
                /\ r.seen = NoToken \/ (r.app \in Apps /\ r.seen = secret[r.app])
      PROVE  Moves(p)
  <2>1. Others(p) /\ req'[p] = r
    BY <1>6, <1>a DEF Others
  <2> QED
    BY <1>6, <2>1 DEF Moves, Passes, Fresh
<1>7. ASSUME NEW p \in Requests, Returns(p)
      PROVE  Moves(p)
  <2> DEFINE r == Asked("takes", "on", pending[2], NoToken, pending[1], Unread)
  <2>1. r.at = "takes" /\ r.tok = NoToken /\ r.seen = NoToken
    BY DEF Asked
  <2>2. Quiet /\ req' = [req EXCEPT ![p] = r] /\ req[p].at = "rest"
    BY <1>7 DEF Returns, Quiet, storeVars, appVars, seenVars
  <2> HIDE DEF r
  <2> QED
    BY <1>6, <2>1, <2>2 DEF Fresh
<1>8. ASSUME NEW p \in Requests, NEW a \in Apps, NEW do, Opens(p, a, do) \/ Starts(p, a, do) \/ Begins(p, a)
      PROVE  Moves(p)
  <2>1. PICK phase, tok, list :
          /\ phase \in {"begins", "writes", "token"} /\ tok \in {NoToken, secret[a]}
          /\ \E how : req' = [req EXCEPT ![p] = Asked(phase, how, a, tok, 0, list)]
    BY <1>8 DEF Opens, Starts, Begins
  <2>6. PICK how : req' = [req EXCEPT ![p] = Asked(phase, how, a, tok, 0, list)]
    BY <2>1
  <2> DEFINE r == Asked(phase, how, a, tok, 0, list)
  <2>2. r.at = phase /\ r.app = a /\ r.seen = tok /\ r.tok = NoToken
    BY DEF Asked
  <2>3. Quiet /\ req[p].at = "rest"
    BY <1>8 DEF Opens, Starts, Begins, Quiet, storeVars, appVars, seenVars
  <2> HIDE DEF r
  <2>4. req' = [req EXCEPT ![p] = r]
    BY <2>6 DEF r
  <2>5. phase \in {"begins", "writes", "token"} /\ tok \in {NoToken, secret[a]}
    BY <2>1
  <2> QED
    BY <1>6, <2>2, <2>3, <2>4, <2>5 DEF Fresh
<1>9. ASSUME NEW p \in Requests, Refuses(p)
      PROVE  Moves(p)
  <2>1. Quiet /\ req[p].at = "asks"
    BY <1>9 DEF Refuses, Quiet, storeVars, appVars, seenVars
  <2>2. CASE Ends(p)
    BY <1>4, <2>1, <2>2
  <2>3. CASE req' = [req EXCEPT ![p].at = "token", ![p].force = TRUE]
    <3> DEFINE r == [req[p] EXCEPT !.at = "token", !.force = TRUE]
    <3>1. r.at = "token" /\ r.app = req[p].app /\ r.seen = req[p].seen /\ r.tok = req[p].tok
      BY <1>b DEF Request
    <3>2. req' = [req EXCEPT ![p] = r]
      BY <2>3, <1>a
    <3> HIDE DEF r
    <3> QED
      BY <1>6, <2>1, <3>1, <3>2 DEF Fresh
  <2> QED
    BY <1>9, <2>2, <2>3 DEF Refuses
<1>10. ASSUME NEW p \in Requests, Lists(p)
       PROVE  Moves(p)
  <2>1. Quiet /\ req[p].at = "lists"
    BY <1>10 DEF Lists, Quiet, storeVars, appVars, seenVars
  <2>2. CASE Ends(p)
    BY <1>4, <2>1, <2>2
  <2>3. CASE req' = [req EXCEPT ![p].at = "keeps", ![p].read = items]
    <3> DEFINE r == [req[p] EXCEPT !.at = "keeps", !.read = items]
    <3>1. r.at = "keeps" /\ r.app = req[p].app /\ r.seen = req[p].seen /\ r.tok = req[p].tok
      BY <1>b DEF Request
    <3>2. req' = [req EXCEPT ![p] = r]
      BY <2>3, <1>a
    <3>3. Others(p) /\ req'[p] = r
      BY <3>2, <1>a DEF Others
    <3> HIDE DEF r
    <3> QED
      BY <2>1, <3>1, <3>3 DEF Moves, Waits
  <2> QED
    BY <1>10, <2>2, <2>3 DEF Lists
<1>21. ASSUME NEW p \in Requests, Adds(p)
       PROVE  Moves(p)
  <2>1. Quiet /\ req[p].at = "adds"
    BY <1>21 DEF Adds, Quiet, storeVars, appVars, seenVars
  <2>2. CASE Ends(p)
    BY <1>4, <2>1, <2>2
  <2>3. CASE Goes(p, "lists")
    BY <1>2, <2>1, <2>3 DEF Phases, Moves, Waits
  <2> QED
    BY <1>21, <2>2, <2>3 DEF Adds
<1>22. ASSUME NEW p \in Requests, StoresToken(p)
       PROVE  Moves(p)
  BY <1>2, <1>22, <1>a DEF StoresToken, Moves, Stores, appVars, seenVars, Phases
<1>23. ASSUME NEW p \in Requests, Registers(p) \/ AddFails(p)
       PROVE  Moves(p)
  <2>1. Quiet /\ req[p].at # "saves"
    BY <1>23 DEF Registers, AddFails, Quiet, storeVars, appVars, seenVars
  <2>2. Ends(p) \/ Goes(p, "clears")
    BY <1>23 DEF Registers, AddFails
  <2> QED
    BY <1>4, <1>5, <2>1, <2>2 DEF Phases, Fresh
<1>11. ASSUME NEW p \in Requests, Takes(p) \/ Writes(p) \/ Answers(p) \/ CheckSaves(p) \/ Locks(p)
       PROVE  Moves(p)
  <2>1. Quiet /\ req[p].at # "saves"
    BY <1>11 DEF Takes, Writes, Answers, CheckSaves, Locks, Quiet, storeVars, appVars, seenVars
  <2>2. Ends(p) \/ \E phase \in {"exchanges", "clears", "checked", "looks"} : Goes(p, phase)
    BY <1>11 DEF Takes, Writes, Answers, CheckSaves, Locks
  <2> QED
    BY <1>4, <1>5, <2>1, <2>2 DEF Phases, Fresh
<1>12. ASSUME NEW p \in Requests, Exchanges(p)
       PROVE  Moves(p)
  <2>1. CASE Ends(p) /\ UNCHANGED <<good, next>>
    BY <1>4, <1>12, <2>1 DEF Exchanges, Quiet, storeVars
  <2>2. CASE With(p, "adds", next) /\ good' = good \union {next} /\ next' = next + 1
    BY <1>3, <1>12, <2>2, <1>a DEF Exchanges, storeVars, Phases, Moves, Obtains
  <2> QED
    BY <1>12, <2>1, <2>2 DEF Exchanges
<1>13. ASSUME NEW p \in Requests, Clears(p)
       PROVE  Moves(p)
  BY <1>1, <1>13, <1>a DEF Clears, Moves, Forgets, appVars, seenVars
<1>14. ASSUME NEW p \in Requests, SendsAsIs(p)
       PROVE  Moves(p)
  <2>1. With(p, "asks", req[p].seen) /\ req[p].seen \in Tokens \union {NoToken}
    BY <1>14, <1>b, FieldsTyped DEF SendsAsIs
  <2>2. Quiet /\ req[p].at # "saves"
    BY <1>14 DEF SendsAsIs, Quiet, storeVars, appVars, seenVars
  <2> QED
    BY <1>3, <2>1, <2>2 DEF Moves, Passes, Fresh, Phases
<1>15. ASSUME NEW p \in Requests, Looks(p)
       PROVE  Moves(p)
  <2>1. /\ Quiet /\ req[p].at = "looks" /\ req[p].app \in Apps
        /\ secret[req[p].app] \in Tokens \union {NoToken}
    BY <1>15, <1>a DEF Looks, Quiet, storeVars, appVars, seenVars
  <2>2. CASE Ends(p)
    BY <1>4, <2>1, <2>2
  <2>3. CASE With(p, "asks", secret[req[p].app])
    BY <1>3, <2>1, <2>3 DEF Moves, Passes, Fresh, Phases
  <2>4. CASE With(p, "spends", secret[req[p].app]) /\ secret[req[p].app] = req[p].seen
             /\ secret[req[p].app] # NoToken
    BY <1>3, <2>1, <2>4 DEF Moves, SetsOut, Phases
  <2> QED
    BY <1>15, <2>2, <2>3, <2>4 DEF Looks, StillDue
<1>16. ASSUME NEW p \in Requests, Spends(p)
       PROVE  Moves(p)
  <2>1. req[p].app \in Apps /\ req[p].at = "spends" /\ UNCHANGED <<secret, lost>> /\ Spent(p)
    BY <1>16, <1>a DEF Spends, storeVars
  <2>2. CASE req[p].tok \in good
    BY <1>3, <1>16, <2>1, <2>2, <1>a DEF Spends, Moves, Renews, Phases
  <2>3. CASE req[p].tok \notin good
    BY <1>1, <1>16, <2>1, <2>3 DEF Spends, Moves, RenewsNot
  <2> QED
    BY <2>2, <2>3
<1>17. ASSUME NEW p \in Requests, SpendsUnheard(p)
       PROVE  Moves(p)
  BY <1>1, <1>17 DEF SpendsUnheard, Moves, RenewsNot, storeVars
<1>18. ASSUME NEW p \in Requests, Saves(p)
       PROVE  Moves(p)
  BY <1>2, <1>18, <1>a DEF Saves, Moves, Stores, appVars, seenVars, Phases
<1>19. ASSUME NEW p \in Requests, Dies(p)
       PROVE  Moves(p)
  <2>1. UNCHANGED <<secret, good, next, spent, again>> /\ Ends(p)
    BY <1>19 DEF Dies, storeVars, appVars
  <2>2. CASE req[p].at = "saves"
    BY <1>1, <1>19, <2>1, <2>2 DEF Dies, Moves, Breaks
  <2>3. CASE req[p].at # "saves"
    BY <1>4, <1>19, <2>1, <2>3 DEF Dies, Quiet
  <2> QED
    BY <2>2, <2>3
<1>20. CASE UNCHANGED vars \/ Cancels \/ (\E t \in 1..(next - 1) : Ages(t))
  BY <1>20 DEF vars, Cancels, Ages, storeVars, appVars, seenVars
<1> QED
  BY <1>7, <1>8, <1>9, <1>10, <1>11, <1>12, <1>13, <1>14, <1>15, <1>16, <1>17, <1>18, <1>19, <1>20,
     <1>21, <1>22, <1>23
     DEF Next, RequestStep

(* What the type says that the moves need.                                    *)
Plain ==
  /\ \A a \in Apps : secret[a] \in Nat
  /\ \A p \in Requests : req[p].tok \in Nat /\ req[p].seen \in Nat
  /\ next \in Nat \ {0} /\ secret \in [Apps -> Nat]
  /\ \A p, q \in Requests : req[p].at \in Locking /\ req[q].at \in Locking => p = q

Numbered == good \subseteq Nat /\ spent \subseteq Nat

LEMMA PlainType == TypeOK => Plain /\ Numbered
<1> SUFFICES ASSUME TypeOK PROVE Plain /\ Numbered
  OBVIOUS
<1>1. ReqsOK /\ StoreOK /\ SeenOK
  BY TypeParts
<1>2. \A p \in Requests : req[p].tok \in Nat /\ req[p].seen \in Nat
  BY <1>1, FieldsTyped DEF ReqsOK, Tokens, NoToken
<1> QED
  BY <1>1, <1>2 DEF ReqsOK, StoreOK, SeenOK, Plain, Numbered, Tokens, NoToken, Locking

LEMMA OneAppKept ==
  ASSUME Plain, TokenInv, NEW p \in Requests, Moves(p)
  PROVE  OneApp'
<1> USE DEF Plain, TokenInv, OneApp, Holds, NoToken, Others, Quiet
<1>1. CASE Passes(p)
  BY <1>1 DEF Moves, Passes
<1>7. CASE Waits(p)
  <2>1. \A q \in Requests : Holds(q)' = Holds(q) /\ req'[q].app = req[q].app
    BY <1>7 DEF Moves, Waits
  <2>2. secret' = secret
    BY <1>7 DEF Waits
  <2> HIDE DEF Holds
  <2> QED
    BY <2>1, <2>2
<1>2. CASE SetsOut(p)
  BY <1>2 DEF Moves, SetsOut
<1>3. CASE Obtains(p) \/ Renews(p)
  <2>1. /\ req'[p].tok = next /\ req'[p].seen = req[p].seen /\ req'[p].app = req[p].app
        /\ secret' = secret /\ \A q \in Requests \ {p} : req'[q] = req[q]
    BY <1>3 DEF Moves, Obtains, Renews
  <2>2. /\ \A a \in Apps : secret[a] # next
        /\ \A q \in Requests : next \notin Holds(q)
    BY DEF Made
  <2>3. /\ \A q \in Requests \ {p} : Holds(q)' = Holds(q)
        /\ Holds(p)' \subseteq {next} \union Holds(p)
    BY <2>1
  <2> HIDE DEF Holds
  <2> QED
    BY <2>1, <2>2, <2>3
<1>4. CASE Stores(p)
  <2>1. \A a \in Apps : secret'[a] = IF a = req[p].app THEN req[p].tok ELSE secret[a]
    BY <1>4 DEF Stores
  <2>2. \A q \in Requests : Holds(q)' = Holds(q) /\ req'[q].app = req[q].app
    BY <1>4 DEF Moves, Stores
  <2>3. req[p].tok # NoToken /\ \A a \in Apps : secret[a] # req[p].tok
    BY <1>4 DEF Stores, HeldIsGood, NewIsOwn, Fresh
  <2>4. req[p].tok \in Holds(p)
    BY <2>3
  <2> HIDE DEF Holds
  <2> QED
    BY <2>1, <2>2, <2>3, <2>4
<1>5. CASE Forgets(p)
  <2>1. \A a \in Apps : secret'[a] \in {secret[a], NoToken}
    BY <1>5 DEF Forgets
  <2>2. \A q \in Requests : Holds(q)' = {} \/ (Holds(q)' = Holds(q) /\ req'[q].app = req[q].app)
    BY <1>5 DEF Moves, Forgets, Stops
  <2>3. \A q \in Requests : NoToken \notin Holds(q)
    OBVIOUS
  <2> HIDE DEF Holds
  <2> QED
    BY <2>1, <2>2, <2>3
<1>6. CASE RenewsNot(p) \/ Breaks(p)
  BY <1>6 DEF Moves, RenewsNot, Breaks, Stops
<1> QED
  BY <1>1, <1>2, <1>3, <1>4, <1>5, <1>6, <1>7 DEF Moves

(* What requests hold is older than the next token when one more is made.      *)
LEMMA HeldIsOlder ==
  ASSUME Plain, Made, next' = next + 1,
         \A q \in Requests : req'[q].tok \in {req[q].tok, next} /\ req'[q].seen = req[q].seen
  PROVE  \A q \in Requests : req'[q].tok < next' /\ req'[q].seen < next'
<1> SUFFICES ASSUME NEW q \in Requests PROVE req'[q].tok < next' /\ req'[q].seen < next'
  OBVIOUS
<1>1. /\ next \in Nat /\ req[q].tok \in Nat /\ req[q].seen \in Nat
      /\ req[q].tok < next /\ req[q].seen < next
  BY DEF Plain, Made
<1>2. req'[q].tok \in {req[q].tok, next} /\ req'[q].seen = req[q].seen
  OBVIOUS
<1> QED
  BY <1>1, <1>2

LEMMA MadeKept ==
  ASSUME Plain, Numbered, TokenInv, NEW p \in Requests, Moves(p)
  PROVE  Made'
<1> USE DEF Plain, TokenInv, Made, NoToken, Others, Quiet, Fresh
<1>1. CASE Passes(p) \/ Waits(p)
  BY <1>1 DEF Moves, Passes, Waits
<1>2. CASE SetsOut(p)
  BY <1>2 DEF Moves, SetsOut
<1>3. CASE Obtains(p)
  <2>1. next' = next + 1 /\ good' = good \union {next} /\ UNCHANGED <<secret, spent>>
    BY <1>3 DEF Obtains
  <2>2. \A q \in Requests : req'[q].tok \in {req[q].tok, next} /\ req'[q].seen = req[q].seen
    BY <1>3 DEF Moves, Obtains
  <2>3. ASSUME NEW x \in good' \union spent' PROVE x < next'
    <3>1. next \in Nat /\ x \in Nat /\ (x < next \/ x = next)
      BY <2>1 DEF Numbered
    <3> QED
      BY <3>1, <2>1
  <2>4. \A q \in Requests : req'[q].tok < next' /\ req'[q].seen < next'
    BY <2>1, <2>2, HeldIsOlder
  <2>5. \A a \in Apps : secret'[a] < next'
    BY <2>1
  <2> QED
    BY <2>3, <2>4, <2>5
<1>4. CASE Stores(p)
  BY <1>4 DEF Moves, Stores
<1>5. CASE Forgets(p)
  BY <1>5 DEF Moves, Forgets, Stops
<1>6. CASE Renews(p)
  <2>1. /\ next' = next + 1 /\ good' \subseteq good \union {next} /\ UNCHANGED secret
        /\ spent' = spent \union {req[p].tok}
    BY <1>6 DEF Renews, Spent
  <2>2. \A q \in Requests : req'[q].tok \in {req[q].tok, next} /\ req'[q].seen = req[q].seen
    BY <1>6 DEF Moves, Renews
  <2>3. ASSUME NEW x \in good' \union spent' PROVE x < next'
    <3>1. next \in Nat /\ x \in Nat /\ (x < next \/ x = next)
      BY <2>1 DEF Numbered
    <3> QED
      BY <3>1, <2>1
  <2>4. \A q \in Requests : req'[q].tok < next' /\ req'[q].seen < next'
    BY <2>1, <2>2, HeldIsOlder
  <2>5. \A a \in Apps : secret'[a] < next'
    BY <2>1
  <2> QED
    BY <2>3, <2>4, <2>5
<1>7. CASE RenewsNot(p) \/ Breaks(p)
  BY <1>7 DEF Moves, RenewsNot, Breaks, Stops, Spent
<1> QED
  BY <1>1, <1>2, <1>3, <1>4, <1>5, <1>6, <1>7 DEF Moves

LEMMA HeldKept ==
  ASSUME Plain, TokenInv, NEW p \in Requests, Moves(p)
  PROVE  HeldIsGood' /\ SpentOnce'
<1> USE DEF Plain, TokenInv, HeldIsGood, SpentOnce, NoToken, Others, Quiet, Fresh, Locking
<1>1. CASE Passes(p) \/ Waits(p)
  BY <1>1 DEF Moves, Passes, Waits
<1>2. CASE SetsOut(p)
  BY <1>2 DEF Moves, SetsOut, StoredIsGood
<1>3. CASE Obtains(p)
  BY <1>3 DEF Moves, Obtains, Made
<1>4. CASE Stores(p) \/ Forgets(p)
  BY <1>4 DEF Moves, Stores, Forgets, Stops
<1>5. CASE Renews(p)
  BY <1>5 DEF Moves, Renews, Spent, Made, NewIsOwn
<1>6. CASE RenewsNot(p)
  BY <1>6 DEF Moves, RenewsNot, Stops, Spent, NewIsOwn
<1>7. CASE Breaks(p)
  BY <1>7 DEF Moves, Breaks, Stops
<1> QED
  BY <1>1, <1>2, <1>3, <1>4, <1>5, <1>6, <1>7 DEF Moves

LEMMA NewKept ==
  ASSUME Plain, TokenInv, NEW p \in Requests, Moves(p)
  PROVE  NewIsOwn'
<1> USE DEF Plain, TokenInv, NewIsOwn, NoToken, Others, Quiet, Fresh
<1>1. CASE Passes(p) \/ Waits(p)
  BY <1>1 DEF Moves, Passes, Waits, HeldIsGood
<1>2. CASE SetsOut(p)
  BY <1>2 DEF Moves, SetsOut
<1>3. CASE Obtains(p) \/ Renews(p)
  BY <1>3 DEF Moves, Obtains, Renews, Made
<1>4. CASE Stores(p)
  BY <1>4 DEF Moves, Stores
<1>5. CASE Forgets(p)
  BY <1>5 DEF Moves, Forgets, Stops, HeldIsGood
<1>6. CASE RenewsNot(p) \/ Breaks(p)
  BY <1>6 DEF Moves, RenewsNot, Breaks, Stops, HeldIsGood
<1> QED
  BY <1>1, <1>2, <1>3, <1>4, <1>5, <1>6 DEF Moves

LEMMA StoredKept ==
  ASSUME Plain, TokenInv, NEW p \in Requests, Moves(p)
  PROVE  StoredIsGood'
<1> USE DEF Plain, TokenInv, StoredIsGood, NoToken, Others, Quiet, Fresh, Locking
<1>1. CASE Passes(p) \/ Waits(p)
  BY <1>1 DEF Moves, Passes, Waits
<1>2. CASE SetsOut(p)
  BY <1>2 DEF Moves, SetsOut
<1>3. CASE Obtains(p)
  BY <1>3 DEF Moves, Obtains
<1>4. CASE Stores(p)
  BY <1>4 DEF Moves, Stores, HeldIsGood
<1>5. CASE Forgets(p)
  BY <1>5 DEF Moves, Forgets, Stops
<1>6. CASE Renews(p)
  BY <1>6 DEF Moves, Renews, HeldIsGood, OneApp, Holds
<1>7. CASE RenewsNot(p)
  BY <1>7 DEF Moves, RenewsNot, Stops
<1>8. CASE Breaks(p)
  BY <1>8 DEF Moves, Breaks, Stops
<1> QED
  BY <1>1, <1>2, <1>3, <1>4, <1>5, <1>6, <1>7, <1>8 DEF Moves

(* A token is of one app, made before it is seen, good or lost when a request  *)
(* is to send it, and a new one is its request's alone until it is stored     *)
(* (oauth.py token_for, finish).                                              *)
THEOREM TokenInvHolds == Spec => []TokenInv
<1>1. Init => TokenInv
  <2> SUFFICES ASSUME Init PROVE TokenInv
    OBVIOUS
  <2>1. \A p \in Requests : req[p].at = "rest" /\ req[p].tok = 0 /\ req[p].seen = 0
    BY DEF Init, Rest, Asked, NoToken
  <2> QED
    BY <2>1 DEF Init, TokenInv, OneApp, Holds, Made, HeldIsGood, NewIsOwn, StoredIsGood, SpentOnce, NoToken, Fresh
<1>2. TypeInv /\ TokenInv /\ [Next]_vars => TokenInv'
  <2> SUFFICES ASSUME TypeInv, TokenInv, [Next]_vars PROVE TokenInv'
    OBVIOUS
  <2>1. CASE UNCHANGED <<req, secret, good, next, spent, again, lost>>
    BY <2>1 DEF TokenInv, OneApp, Holds, Made, HeldIsGood, NewIsOwn, StoredIsGood, SpentOnce
  <2>2. ASSUME NEW p \in Requests, Moves(p)
        PROVE  TokenInv'
    <3>1. Plain /\ Numbered
      BY PlainType DEF TypeInv
    <3> QED
      BY <2>2, <3>1, OneAppKept, MadeKept, HeldKept, NewKept, StoredKept DEF TokenInv
  <2> QED
    BY <2>1, <2>2, StepsAreMoves
<1> QED
  BY <1>1, <1>2, TypeInvHolds, PTL DEF Spec

(* What a token is renewed with is sent once, or the answer was lost          *)
(* (oauth.py token_for).                                                      *)
THEOREM TokensSpentOnce == Spec => []SpentOnce
BY TokenInvHolds, PTL DEF TokenInv

(* The box never stores a token that the app would not renew, but for those   *)
(* being renewed and those whose renewal was lost (oauth.py token_for).       *)
THEOREM TheStoredTokenIsGood == Spec => []StoredIsGood
BY TokenInvHolds, PTL DEF TokenInv
=============================================================================
