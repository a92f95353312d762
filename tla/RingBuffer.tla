------------------------------- MODULE RingBuffer -------------------------------
(***************************************************************************)
(* RingBuffer<T, N, Policy> as a record of its slots, head, tail and count;   *)
(* the operators return the buffer that a call leaves behind.                 *)
(***************************************************************************)
EXTENDS Integers, Sequences

Policies == {"reject", "overwriteOldest"}

\* A buffer of n values of T, its head where its tail and count put it.
IsRing(n, T, r) ==
    /\ r \in [slots : [0..(n - 1) -> T], head : 0..(n - 1), tail : 0..(n - 1), count : 0..n]
    /\ r.head = (r.tail + r.count) % n

EmptyRing(n, blank) == [slots |-> [i \in 0..(n - 1) |-> blank], head |-> 0, tail |-> 0, count |-> 0]

\* What the buffer holds, oldest first.
Contents(n, r) == [i \in 1..r.count |-> r.slots[(r.tail + i - 1) % n]]

RingFull(n, r) == r.count = n

\* A tail that runs past the last slot.
AdvanceTailUnwrapped(n, r) == [r EXCEPT !.tail = @ + 1, !.count = @ - 1]

\* advance_tail().
AdvanceTail(n, r) == [r EXCEPT !.tail = (@ + 1) % n, !.count = @ - 1]

\* The end of push().
Store(n, r, v) ==
    [r EXCEPT !.slots = [@ EXCEPT ![r.head] = v], !.head = (@ + 1) % n, !.count = @ + 1]

\* A full buffer whose newest value is overwritten in place of the oldest.
PushOverNewest(n, policy, r, v) ==
    IF ~RingFull(n, r) THEN Store(n, r, v)
    ELSE IF policy = "reject" THEN r
    ELSE [r EXCEPT !.slots = [@ EXCEPT ![(r.head + n - 1) % n] = v]]

\* push(): a full buffer rejects the value or gives up its oldest one.
Push(n, policy, r, v) ==
    IF ~RingFull(n, r) THEN Store(n, r, v)
    ELSE IF policy = "reject" THEN r
    ELSE Store(n, AdvanceTail(n, r), v)

\* pop() of a buffer that is not empty, which front() reads.
Pop(n, r) == AdvanceTail(n, r)
Front(r) == r.slots[r.tail]
=============================================================================
