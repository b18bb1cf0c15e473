---------------------------- MODULE MCInboxSend ----------------------------
(* Small instances of InboxSend, one conversation each: a person and a machine, *)
(* and a double click, the box's own reply, the opener and a message typed on   *)
(* the platform.                                                                *)
EXTENDS InboxSend

CONSTANTS p1, p2, m1, kPerson, kMachine, kAuto, kOpener, t1

MCTakers  == Persons \union Machines \union {Poller}
MCMoments == Msgs \X {"sent", "kept"}
MCKeyOf   == [a \in Senders |-> CASE a \in Persons -> kPerson
                                  [] a \in Machines -> kMachine
                                  [] a = AutoReply -> kAuto
                                  [] OTHER -> kOpener]
=============================================================================
