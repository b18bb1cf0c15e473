------------------------------ MODULE StopLine ------------------------------
(***************************************************************************)
(* What the intake promises of a STOP, with no pages, sweeps, jobs, hours  *)
(* or deaths: the box reads each conversation in order and never goes      *)
(* back; it goes past a STOP only when the conversation is muted or a STOP *)
(* of it was taken up; what was taken up is put down only when the         *)
(* conversation is muted, or is given up for good; and nobody is muted who *)
(* did not say so                                                          *)
(* (marketing/customer_voice/inbox/poller.py _act, handler.py handle).     *)
(***************************************************************************)
EXTENDS Naturals

CONSTANTS
  Convs,   \* conversations
  Ins      \* the places of messages in one

VARIABLES
  stops,   \* the messages that say STOP
  due,     \* those of them that the box has taken up
  given,   \* those that it took up and gave up
  muted,   \* conversations
  upTo     \* how far each conversation has been dealt with

lineVars == <<stops, due, given, muted, upTo>>

Init ==
  /\ stops = {} /\ due = {} /\ given = {} /\ muted = {}
  /\ upTo = [c \in Convs |-> 0]

Say(c, i) ==
  /\ <<c, i>> \notin stops /\ i > upTo[c]
  /\ stops' = stops \union {<<c, i>>}
  /\ UNCHANGED <<due, given, muted, upTo>>

\* Once each: what was given up is not taken up again.
TakeUp(c, i) ==
  /\ <<c, i>> \in stops \ (due \union given)
  /\ due' = due \union {<<c, i>>}
  /\ UNCHANGED <<stops, given, muted, upTo>>

\* Of what was taken up, or at once.
Mute(c, i) ==
  /\ <<c, i>> \in stops
  /\ muted' = muted \union {c}
  /\ UNCHANGED <<stops, due, given, upTo>>

PutDown(c, i) ==
  /\ c \in muted /\ <<c, i>> \in due
  /\ due' = due \ {<<c, i>>}
  /\ UNCHANGED <<stops, given, muted, upTo>>

GiveUp(c, i) ==
  /\ <<c, i>> \in due
  /\ due' = due \ {<<c, i>>} /\ given' = given \union {<<c, i>>}
  /\ UNCHANGED <<stops, muted, upTo>>

\* Messages up to the i-th are dealt with.
Pass(c, i) ==
  /\ i > upTo[c]
  /\ (\E n \in Ins : n <= i /\ <<c, n>> \in stops) =>
       c \in muted \/ \E n \in Ins : <<c, n>> \in due \union given
  /\ upTo' = [upTo EXCEPT ![c] = i]
  /\ UNCHANGED <<stops, due, given, muted>>

Next ==
  \E c \in Convs, i \in Ins :
    Say(c, i) \/ TakeUp(c, i) \/ Mute(c, i) \/ PutDown(c, i) \/ GiveUp(c, i) \/ Pass(c, i)

Spec == Init /\ [][Next]_lineVars
=============================================================================
