------------------------------ MODULE SendOnce ------------------------------
(***************************************************************************)
(* What the inbox promises of an irreversible send, with no ledger, vendor *)
(* answers, races or crashes: a key is taken before anything leaves the    *)
(* box, what leaves under it leaves once, and a key whose message may have *)
(* left is never taken again (marketing/customer_voice/inbox/store.py      *)
(* claim_send, resolve_send, claim_opener; reply.py send_reply).           *)
(***************************************************************************)
EXTENDS Naturals

CONSTANT Keys

VARIABLES
  key,   \* "free" to be taken, "taken", or "closed" for good
  went   \* how many messages left under the key

onceVars == <<key, went>>

Init ==
  /\ key = [k \in Keys |-> "free"]
  /\ went = [k \in Keys |-> 0]

\* The one key that changes (its new state first: TLC then rejects most steps at once).
Becomes(k, state) == key'[k] = state /\ key' = [key EXCEPT ![k] = state]

Take(k) ==
  /\ key[k] = "free" /\ went[k] = 0
  /\ Becomes(k, "taken")
  /\ UNCHANGED went

Send(k) ==
  /\ key[k] = "taken" /\ went[k] = 0
  /\ went' = [went EXCEPT ![k] = 1]
  /\ UNCHANGED key

\* Certainly nothing left: the key may be taken again.
Free(k) ==
  /\ key[k] = "taken" /\ went[k] = 0
  /\ Becomes(k, "free")
  /\ UNCHANGED went

\* It left, or nobody can know.
Close(k) ==
  /\ key[k] = "taken"
  /\ Becomes(k, "closed")
  /\ UNCHANGED went

Next == \E k \in Keys : Take(k) \/ Send(k) \/ Free(k) \/ Close(k)

Spec == Init /\ [][Next]_onceVars
=============================================================================
