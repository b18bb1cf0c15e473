----------------------------- MODULE DecideOnce -----------------------------
(***************************************************************************)
(* What the queue of approvals promises, with no requests, no processes    *)
(* and no deaths: of two proposals of the same thing one waits at a time,  *)
(* a proposal that waits is answered once or lapses, only a yes sets it    *)
(* going, once, and how it ended is said once, of what was set going       *)
(* (core/approvals.py propose, _expire, decide).                           *)
(***************************************************************************)
EXTENDS Naturals

CONSTANTS Proposals, Fingerprint

VARIABLES
  answer,    \* "none" (not proposed), "waiting", and what became of it
  carried    \* how often it was carried out

onceVars == <<answer, carried>>

Init ==
  /\ answer = [a \in Proposals |-> "none"]
  /\ carried = [a \in Proposals |-> 0]

Becomes(a, state) == answer' = [answer EXCEPT ![a] = state]

Propose(a) ==
  /\ answer[a] = "none"
  /\ \A b \in Proposals : Fingerprint[b] = Fingerprint[a] => answer[b] # "waiting"
  /\ Becomes(a, "waiting")
  /\ UNCHANGED carried

TurnDown(a) ==
  /\ answer[a] = "waiting"
  /\ \E state \in {"declined", "expired"} : Becomes(a, state)
  /\ UNCHANGED carried

CarryOut(a) ==
  /\ answer[a] = "waiting" /\ carried[a] = 0
  /\ Becomes(a, "approved")
  /\ carried' = [carried EXCEPT ![a] = 1]

End(a) ==
  /\ answer[a] = "approved" /\ carried[a] = 1
  /\ \E state \in {"done", "failed"} : Becomes(a, state)
  /\ UNCHANGED carried

Next == \E a \in Proposals : Propose(a) \/ TurnDown(a) \/ CarryOut(a) \/ End(a)

Spec == Init /\ [][Next]_onceVars
=============================================================================
