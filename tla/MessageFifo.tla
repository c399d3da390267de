---------------------------- MODULE MessageFifo ----------------------------
(***************************************************************************)
(* What queue.h promises: a queue of whole messages.  A message that is    *)
(* not accepted leaves no trace, and QUEUE_Gets fails only when there is   *)
(* none.                                                                   *)
(***************************************************************************)
EXTENDS Sequences

CONSTANT Message

VARIABLES
    queued,          \* the messages accepted and not yet taken, oldest first
    taken            \* the answer to the last QUEUE_Gets, <<>> if it failed

vars == <<queued, taken>>

Init == queued = <<>> /\ taken = <<>>

Accept(m) == queued' = Append(queued, m) /\ UNCHANGED taken
Take == queued # <<>> /\ taken' = <<Head(queued)>> /\ queued' = Tail(queued)
Fail == queued = <<>> /\ taken' = <<>> /\ UNCHANGED queued

Next == Take \/ Fail \/ \E m \in Message : Accept(m)

Spec == Init /\ [][Next]_vars
=============================================================================
