------------------------------ MODULE BoundedQueues ------------------------------
(***************************************************************************)
(* What the buffers between producers and the Navigator promise: each is a    *)
(* queue of a bounded size.  Values enter one at a time at its end and leave   *)
(* in the order they entered, once; none is lost unless the queue is one that   *)
(* gives up its oldest value for the newest.                                  *)
(***************************************************************************)
EXTENDS Integers, Sequences

CONSTANTS
    Queues,       \* the queues
    Size,         \* the size of each
    Overwriting   \* those that give up their oldest value

VARIABLE queue

Newest(s) == s[Len(s)]

Unchanged(q) == queue'[q] = queue[q]

Enters(q) ==
    /\ Len(queue[q]) < Size[q] /\ queue'[q] # <<>>
    /\ queue'[q] = Append(queue[q], Newest(queue'[q]))

Replaces(q) ==
    /\ q \in Overwriting /\ Len(queue[q]) = Size[q] /\ queue'[q] # <<>>
    /\ queue'[q] = Append(Tail(queue[q]), Newest(queue'[q]))

Leaves(q) == \E k \in 1..Len(queue[q]) : queue'[q] = SubSeq(queue[q], k + 1, Len(queue[q]))

QueuesInit == queue = [q \in Queues |-> <<>>]

QueuesNext ==
    /\ DOMAIN queue' = Queues
    /\ \A q \in Queues : Unchanged(q) \/ Enters(q) \/ Replaces(q) \/ Leaves(q)

QueuesSpec == QueuesInit /\ [][QueuesNext]_queue
=============================================================================
