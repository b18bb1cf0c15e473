----------------------------- MODULE DraftLife -----------------------------
(***************************************************************************)
(* What the drafter promises of the reply to one message, with no model,   *)
(* no rules, no sweeps and no deaths: the box writes one, or finds that    *)
(* none is needed, or the owner's own AI leaves its words; the box's words *)
(* may be written anew as long as the draft stands, the AI's only once the *)
(* owner asked; and a draft that was thrown away, or that the box has      *)
(* withdrawn, keeps its words and is over for good                         *)
(* (marketing/customer_voice/drafter/store.py put, rewrite, revive,        *)
(* dismiss; app_api.py api_draft_discard; inbox/tools.py draft_reply).     *)
(***************************************************************************)
CONSTANTS
  Msgs,
  Texts,    \* what a draft may say
  Theirs    \* what the owner's AI left: the box never writes this

VARIABLES
  draft,    \* "none", "ours", "theirs", "nothing" (to answer), "withdrawn", "thrown"
  text,
  asked     \* drafts the owner asked to have written again

lifeVars == <<draft, text, asked>>

Init ==
  /\ draft = [d \in Msgs |-> "none"]
  /\ text \in [Msgs -> Texts]
  /\ asked = {}

Becomes(d, state) == draft' = [draft EXCEPT ![d] = state] /\ UNCHANGED asked
Says(d) == \E t \in Texts \ {Theirs} : text' = [text EXCEPT ![d] = t]

\* The box may write here: its own draft, or one it was asked to replace.
TheBoxes(d) == draft[d] = "ours" \/ (draft[d] = "theirs" /\ d \in asked)

Writes(d) ==
  /\ draft[d] = "none"
  /\ \E state \in {"ours", "nothing"} : Becomes(d, state)
  /\ Says(d)

Leaves(d) ==
  /\ draft[d] = "none"
  /\ Becomes(d, "theirs")
  /\ text' = [text EXCEPT ![d] = Theirs]

\* Written anew, or for the first time where nothing was to be answered before.
Rewrites(d) ==
  /\ TheBoxes(d) \/ draft[d] = "nothing"
  /\ Becomes(d, "ours")
  /\ Says(d)

\* Nothing is to be answered any more.
Withdraws(d) ==
  /\ TheBoxes(d)
  /\ Becomes(d, "withdrawn")
  /\ UNCHANGED text

Throws(d) ==
  /\ draft[d] \in {"ours", "theirs"}
  /\ Becomes(d, "thrown")
  /\ UNCHANGED text

Asks(d) ==
  /\ draft[d] \in {"ours", "theirs", "nothing"}
  /\ asked' = asked \union {d}
  /\ UNCHANGED <<draft, text>>

Next ==
  \E d \in Msgs : Writes(d) \/ Leaves(d) \/ Rewrites(d) \/ Withdraws(d) \/ Throws(d) \/ Asks(d)

Spec == Init /\ [][Next]_lifeVars
=============================================================================
