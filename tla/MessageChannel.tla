---------------------------- MODULE MessageChannel ----------------------------
(***************************************************************************)
(* What a message queue promises to the rest of the actor runtime: messages *)
(* of many senders are put into one order, and the receiver gets each of    *)
(* them once, whole and in that order.                                      *)
(***************************************************************************)
EXTENDS Naturals, Sequences

CONSTANT Message

VARIABLES
  sent,      \* the messages in the order the queue took them
  received   \* the messages the receiver got, oldest first

vars == <<sent, received>>

Init == sent = << >> /\ received = << >>

Send ==
  /\ \E m \in Message : sent' = Append(sent, m)
  /\ UNCHANGED received

Deliver ==
  /\ Len(received) < Len(sent)
  /\ received' = Append(received, sent[Len(received) + 1])
  /\ UNCHANGED sent

Next == Send \/ Deliver

\* The receiver polls: what is sent is delivered in the end.
Spec == Init /\ [][Next]_vars /\ WF_vars(Deliver)

=============================================================================
