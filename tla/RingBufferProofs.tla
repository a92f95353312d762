----------------------------- MODULE RingBufferProofs -----------------------------
(***************************************************************************)
(* What each operation of a ring buffer does to the sequence of its contents,  *)
(* for every size: the arithmetic of head and tail is the queue's.             *)
(***************************************************************************)
EXTENDS RingBuffer, SequenceTheorems, TLAPS

\* An index that has run past the n slots at most once.
Wrap(n, a) == IF a < n THEN a ELSE a - n

\* The remainder of such an index.
LEMMA Wrapped ==
    ASSUME NEW n \in Nat \ {0}, NEW a \in 0..(2 * n - 1)
    PROVE  a % n = Wrap(n, a)
  <1>1. CASE a < n
    BY <1>1 DEF Wrap
  <1>2. CASE a >= n
    <2>1. a = n * 1 + (a - n) /\ a - n \in 0..(n - 1)
      BY <1>2
    <2> QED  BY <1>2, <2>1 DEF Wrap
  <1> QED  BY <1>1, <1>2

\* The fields of a ring, one by one.
LEMMA RingFields ==
    ASSUME NEW n \in Nat \ {0}, NEW T, NEW r, IsRing(n, T, r)
    PROVE  /\ r.slots \in [0..(n - 1) -> T]
           /\ r.head \in 0..(n - 1) /\ r.tail \in 0..(n - 1) /\ r.count \in 0..n
           /\ r.head = Wrap(n, r.tail + r.count)
  <1>1. /\ r.slots \in [0..(n - 1) -> T]
        /\ r.head \in 0..(n - 1) /\ r.tail \in 0..(n - 1) /\ r.count \in 0..n
        /\ r.head = (r.tail + r.count) % n
    BY DEF IsRing
  <1> DEFINE a == r.tail + r.count
  <1>2. a \in 0..(2 * n - 1)
    BY <1>1
  <1> HIDE DEF a
  <1>3. a % n = Wrap(n, a)
    BY <1>2, Wrapped
  <1> QED  BY <1>1, <1>3 DEF a

\* The slot of the i-th oldest value, by its index.
Slot(n, r, i) == Wrap(n, r.tail + i - 1)

\* Such a slot is one of the buffer.
LEMMA SlotOfValue ==
    ASSUME NEW n \in Nat \ {0}, NEW T, NEW r, IsRing(n, T, r), NEW i \in 1..n
    PROVE  (r.tail + i - 1) % n = Slot(n, r, i) /\ Slot(n, r, i) \in 0..(n - 1)
  <1> DEFINE a == r.tail + i - 1
  <1>1. r.tail \in 0..(n - 1)
    BY RingFields
  <1>2. a \in 0..(2 * n - 1)
    BY <1>1
  <1>3. Wrap(n, a) \in 0..(n - 1)
    BY <1>1 DEF Wrap
  <1> HIDE DEF a
  <1>4. a % n = Wrap(n, a)
    BY <1>2, Wrapped
  <1> QED  BY <1>3, <1>4 DEF a, Slot

\* The contents are a sequence of as many values as the buffer counts.
LEMMA ContentsType ==
    ASSUME NEW n \in Nat \ {0}, NEW T, NEW r, IsRing(n, T, r)
    PROVE  /\ Contents(n, r) \in Seq(T) /\ Len(Contents(n, r)) = r.count
           /\ \A i \in 1..r.count : Contents(n, r)[i] = r.slots[Slot(n, r, i)]
  <1>1. r.count \in 0..n /\ r.slots \in [0..(n - 1) -> T]
    BY RingFields
  <1>2. ASSUME NEW i \in 1..r.count
        PROVE  /\ Contents(n, r)[i] = r.slots[Slot(n, r, i)]
               /\ Contents(n, r)[i] \in T
    <2>1. i \in 1..n
      BY <1>1
    <2>2. (r.tail + i - 1) % n = Slot(n, r, i) /\ Slot(n, r, i) \in 0..(n - 1)
      BY <2>1, SlotOfValue
    <2>3. Contents(n, r)[i] = r.slots[(r.tail + i - 1) % n]
      BY DEF Contents
    <2> QED  BY <1>1, <2>2, <2>3
  <1> DEFINE c == Contents(n, r)
  <1>3. DOMAIN c = 1..r.count /\ c = [i \in 1..r.count |-> c[i]]
    BY DEF Contents
  <1> HIDE DEF c
  <1>4. c \in [1..r.count -> T]
    <2>1. \A i \in 1..r.count : c[i] \in T
      BY <1>2 DEF c
    <2> QED  BY <1>3, <2>1
  <1>5. c \in Seq(T) /\ Len(c) = r.count
    BY <1>1, <1>4
  <1> QED  BY <1>2, <1>5 DEF c

\* A new buffer is well formed and empty.
LEMMA EmptyRingEffect ==
    ASSUME NEW n \in Nat \ {0}, NEW T, NEW blank \in T
    PROVE  IsRing(n, T, EmptyRing(n, blank)) /\ Contents(n, EmptyRing(n, blank)) = <<>>
  <1>1. IsRing(n, T, EmptyRing(n, blank))
    <2>1. 0 \in 0..(2 * n - 1) /\ 0 < n
      OBVIOUS
    <2>2. 0 % n = 0
      BY <2>1, Wrapped DEF Wrap
    <2> QED  BY <2>1, <2>2 DEF IsRing, EmptyRing
  <1>2. EmptyRing(n, blank).count = 0
    BY DEF EmptyRing
  <1>3. Contents(n, EmptyRing(n, blank)) \in Seq(T) /\ Len(Contents(n, EmptyRing(n, blank))) = 0
    BY <1>1, <1>2, ContentsType
  <1> QED  BY <1>1, <1>3, EmptySeq

\* A value enters at the end.
LEMMA StoreEffect ==
    ASSUME NEW n \in Nat \ {0}, NEW T, NEW r, IsRing(n, T, r), r.count < n, NEW v \in T
    PROVE  /\ IsRing(n, T, Store(n, r, v))
           /\ Contents(n, Store(n, r, v)) = Append(Contents(n, r), v)
  <1> DEFINE stored == Store(n, r, v)
  <1>1. r \in [slots : [0..(n - 1) -> T], head : 0..(n - 1), tail : 0..(n - 1), count : 0..n]
    BY DEF IsRing
  <1>2. /\ r.slots \in [0..(n - 1) -> T] /\ r.count + 1 \in 1..n /\ r.count \in 0..n
        /\ r.head \in 0..(n - 1) /\ r.tail \in 0..(n - 1)
        /\ r.head = Wrap(n, r.tail + r.count)
    BY RingFields
  <1>3. /\ stored.slots = [r.slots EXCEPT ![r.head] = v]
        /\ stored.head = (r.head + 1) % n /\ stored.tail = r.tail /\ stored.count = r.count + 1
    BY <1>1 DEF Store
  <1>4. (r.head + 1) % n \in 0..(n - 1)
    BY <1>2
  <1>5. [r.slots EXCEPT ![r.head] = v] \in [0..(n - 1) -> T]
    BY <1>2
  <1>6. stored \in [slots : [0..(n - 1) -> T], head : 0..(n - 1), tail : 0..(n - 1), count : 0..n]
    <2> DEFINE s == [r.slots EXCEPT ![r.head] = v]
               h == (r.head + 1) % n
               k == r.count + 1
    <2>1. stored = [r EXCEPT !.slots = s, !.head = h, !.count = k]
      BY <1>1, Zenon DEF Store
    <2>2. s \in [0..(n - 1) -> T] /\ h \in 0..(n - 1) /\ k \in 0..n
      BY <1>2, <1>4, <1>5
    <2> HIDE DEF s, h, k, stored
    <2> QED  BY <1>1, <2>1, <2>2
  <1>7. (r.head + 1) % n = (r.tail + (r.count + 1)) % n
    <2> DEFINE h == r.head + 1
               e == r.tail + (r.count + 1)
    <2>1. h \in 0..(2 * n - 1) /\ e \in 0..(2 * n - 1)
      BY <1>2
    <2>2. Wrap(n, h) = Wrap(n, e)
      <3> SUFFICES ASSUME NEW a \in 0..(n - 1), NEW c \in 0..(n - 1)
                   PROVE  Wrap(n, Wrap(n, a + c) + 1) = Wrap(n, a + (c + 1))
        <4>1. r.count \in 0..(n - 1) /\ r.tail \in 0..(n - 1) /\ r.head = Wrap(n, r.tail + r.count)
          BY <1>2
        <4> QED  BY <4>1
      <3> QED  BY DEF Wrap
    <2> HIDE DEF h, e
    <2>3. h % n = Wrap(n, h) /\ e % n = Wrap(n, e)
      BY <2>1, Wrapped
    <2>4. h % n = e % n
      BY <2>2, <2>3
    <2> QED  BY <2>4 DEF h, e
  <1>8. stored.head = (stored.tail + stored.count) % n
    BY <1>3, <1>7
  <1>9. IsRing(n, T, stored)
    BY <1>6, <1>8 DEF IsRing
  <1> HIDE DEF stored
  <1>10. ASSUME NEW i \in 1..r.count
         PROVE  Contents(n, stored)[i] = Contents(n, r)[i]
    <2>1. i \in 1..n /\ i \in 1..stored.count
      BY <1>2, <1>3
    <2>2. Slot(n, stored, i) = Slot(n, r, i)
      BY <1>3 DEF Slot
    <2>3. Slot(n, r, i) # r.head /\ Slot(n, r, i) \in 0..(n - 1)
      <3>1. Slot(n, r, i) \in 0..(n - 1)
        BY <2>1, SlotOfValue
      <3> QED  BY <1>2, <3>1 DEF Slot, Wrap
    <2>4. stored.slots[Slot(n, r, i)] = r.slots[Slot(n, r, i)]
      BY <1>2, <1>3, <2>3
    <2>5. Contents(n, stored)[i] = stored.slots[Slot(n, stored, i)]
      BY <1>9, <2>1, ContentsType
    <2>6. Contents(n, r)[i] = r.slots[Slot(n, r, i)]
      BY ContentsType
    <2> QED  BY <2>2, <2>4, <2>5, <2>6
  <1>11. Contents(n, stored)[r.count + 1] = v
    <2>1. r.count + 1 \in 1..stored.count
      BY <1>2, <1>3
    <2>2. Slot(n, stored, r.count + 1) = r.head
      BY <1>2, <1>3 DEF Slot
    <2>3. stored.slots[r.head] = v
      BY <1>2, <1>3
    <2>4. Contents(n, stored)[r.count + 1] = stored.slots[Slot(n, stored, r.count + 1)]
      BY <1>9, <2>1, ContentsType
    <2> QED  BY <2>2, <2>3, <2>4
  <1> DEFINE old == Contents(n, r)
             new == Contents(n, stored)
  <1>12. old \in Seq(T) /\ Len(old) = r.count /\ new \in Seq(T) /\ Len(new) = r.count + 1
    BY <1>3, <1>9, ContentsType
  <1>13. /\ \A i \in 1..r.count : new[i] = old[i]
         /\ new[r.count + 1] = v
    BY <1>10, <1>11
  <1> HIDE DEF old, new
  <1>14. /\ Append(old, v) \in Seq(T) /\ Len(Append(old, v)) = r.count + 1
         /\ \A i \in 1..r.count : Append(old, v)[i] = old[i]
         /\ Append(old, v)[r.count + 1] = v
    BY <1>2, <1>12, AppendProperties
  <1>15. \A i \in 1..Len(new) : new[i] = Append(old, v)[i]
    BY <1>2, <1>12, <1>13, <1>14
  <1>16. new = Append(old, v)
    BY <1>12, <1>14, <1>15, SeqEqual
  <1> QED  BY <1>9, <1>16 DEF old, new, stored

\* The oldest value leaves.
LEMMA AdvanceTailEffect ==
    ASSUME NEW n \in Nat \ {0}, NEW T, NEW r, IsRing(n, T, r), r.count > 0
    PROVE  /\ IsRing(n, T, AdvanceTail(n, r))
           /\ AdvanceTail(n, r).count = r.count - 1
           /\ Front(r) = Head(Contents(n, r)) /\ Front(r) \in T
           /\ Contents(n, AdvanceTail(n, r)) = Tail(Contents(n, r))
  <1> DEFINE rest == AdvanceTail(n, r)
  <1>1. r \in [slots : [0..(n - 1) -> T], head : 0..(n - 1), tail : 0..(n - 1), count : 0..n]
    BY DEF IsRing
  <1>2. /\ r.slots \in [0..(n - 1) -> T] /\ r.count \in 1..n
        /\ r.head \in 0..(n - 1) /\ r.tail \in 0..(n - 1)
        /\ r.head = Wrap(n, r.tail + r.count)
    BY RingFields
  <1>3. /\ rest.slots = r.slots /\ rest.head = r.head
        /\ rest.tail = (r.tail + 1) % n /\ rest.count = r.count - 1
    BY <1>1 DEF AdvanceTail
  <1>4. (r.tail + 1) % n \in 0..(n - 1) /\ r.count - 1 \in 0..n
    BY <1>2
  <1>5. rest \in [slots : [0..(n - 1) -> T], head : 0..(n - 1), tail : 0..(n - 1), count : 0..n]
    BY <1>1, <1>4 DEF AdvanceTail
  <1>6. rest.tail = Wrap(n, r.tail + 1)
    <2> DEFINE t == r.tail + 1
    <2>1. t \in 0..(2 * n - 1)
      BY <1>2
    <2> HIDE DEF t
    <2>2. t % n = Wrap(n, t)
      BY <2>1, Wrapped
    <2> QED  BY <1>3, <2>2 DEF t
  <1> HIDE DEF rest
  <1>7. rest.head = (rest.tail + rest.count) % n
    <2> DEFINE e == rest.tail + rest.count
    <2>1. e \in 0..(2 * n - 1)
      BY <1>2, <1>3, <1>4
    <2>2. Wrap(n, e) = r.head
      <3>1. CASE r.tail + 1 < n
        <4>1. e = r.tail + r.count
          BY <1>2, <1>3, <1>6, <3>1 DEF Wrap
        <4> QED  BY <1>2, <4>1
      <3>2. CASE r.tail + 1 = n
        <4>1. e = r.count - 1
          BY <1>2, <1>3, <1>6, <3>2 DEF Wrap
        <4> QED  BY <1>2, <3>2, <4>1 DEF Wrap
      <3> QED  BY <1>2, <3>1, <3>2
    <2> HIDE DEF e
    <2>3. e % n = Wrap(n, e)
      BY <2>1, Wrapped
    <2> QED  BY <1>3, <2>2, <2>3 DEF e
  <1>8. IsRing(n, T, rest)
    BY <1>5, <1>7 DEF IsRing
  <1> DEFINE old == Contents(n, r)
             new == Contents(n, rest)
  <1>9. old \in Seq(T) /\ Len(old) = r.count /\ new \in Seq(T) /\ Len(new) = r.count - 1
    BY <1>3, <1>8, ContentsType
  <1>10. ASSUME NEW i \in 1..(r.count - 1)
         PROVE  new[i] = old[i + 1]
    <2>1. i \in 1..rest.count /\ i + 1 \in 1..r.count
      BY <1>2, <1>3
    <2>2. Slot(n, rest, i) = Slot(n, r, i + 1)
      <3>1. CASE r.tail + 1 < n
        <4>1. rest.tail = r.tail + 1
          BY <1>6, <3>1 DEF Wrap
        <4>2. rest.tail + i - 1 = r.tail + (i + 1) - 1
          BY <1>2, <2>1, <4>1
        <4> QED  BY <4>2 DEF Slot
      <3>2. CASE r.tail + 1 = n
        <4>1. rest.tail = 0
          BY <1>2, <1>6, <3>2 DEF Wrap
        <4>2. Slot(n, rest, i) = i - 1
          BY <1>2, <1>3, <2>1, <4>1 DEF Slot, Wrap
        <4>3. Slot(n, r, i + 1) = i - 1
          BY <1>2, <2>1, <3>2 DEF Slot, Wrap
        <4> QED  BY <4>2, <4>3
      <3> QED  BY <1>2, <3>1, <3>2
    <2>3. new[i] = rest.slots[Slot(n, rest, i)]
      BY <1>8, <2>1, ContentsType
    <2>4. old[i + 1] = r.slots[Slot(n, r, i + 1)]
      BY <2>1, ContentsType
    <2> QED  BY <1>3, <2>2, <2>3, <2>4
  <1>11. old[1] = Front(r) /\ Front(r) \in T
    <2>1. 1 \in 1..r.count
      BY <1>2
    <2>2. Slot(n, r, 1) = r.tail
      BY <1>2 DEF Slot, Wrap
    <2>3. old[1] = r.slots[Slot(n, r, 1)]
      BY <2>1, ContentsType
    <2> QED  BY <1>2, <2>2, <2>3 DEF Front
  <1> HIDE DEF old, new
  <1>12. old # <<>>
    BY <1>2, <1>9, EmptySeq
  <1>13. /\ Tail(old) \in Seq(T) /\ Len(Tail(old)) = r.count - 1 /\ Head(old) = old[1]
         /\ \A i \in 1..(r.count - 1) : Tail(old)[i] = old[i + 1]
    BY <1>9, <1>12, HeadTailProperties
  <1>14. \A i \in 1..Len(new) : new[i] = Tail(old)[i]
    BY <1>9, <1>10, <1>13
  <1>15. new = Tail(old)
    BY <1>9, <1>13, <1>14, SeqEqual
  <1> QED  BY <1>3, <1>8, <1>11, <1>13, <1>15 DEF old, new, rest

\* A buffer is a buffer of the values it holds, and of any set that has them all.
Held(r) == {r.slots[i] : i \in DOMAIN r.slots}

\* What is well formed for one set of values is for the two others.
LEMMA RingOfHeld ==
    ASSUME NEW n \in Nat \ {0}, NEW T, NEW U, NEW r, IsRing(n, T, r)
    PROVE  IsRing(n, Held(r), r) /\ IsRing(n, T \cup U, r)
  <1>1. /\ r \in [slots : [0..(n - 1) -> T], head : 0..(n - 1), tail : 0..(n - 1), count : 0..n]
        /\ r.head = (r.tail + r.count) % n
    BY DEF IsRing
  <1>2. r.slots \in [0..(n - 1) -> Held(r)] /\ r.slots \in [0..(n - 1) -> T \cup U]
    BY <1>1 DEF Held
  <1>3. ASSUME NEW W, r.slots \in [0..(n - 1) -> W]
        PROVE  r \in [slots : [0..(n - 1) -> W], head : 0..(n - 1), tail : 0..(n - 1), count : 0..n]
    BY <1>1, <1>3
  <1> QED  BY <1>1, <1>2, <1>3 DEF IsRing

\* A full buffer gives up its oldest value or refuses the new one.
LEMMA PushEffect ==
    ASSUME NEW n \in Nat \ {0}, NEW T, NEW r, IsRing(n, T, r), NEW v \in T, NEW policy
    PROVE  /\ IsRing(n, T, Push(n, policy, r, v))
           /\ \/ r.count < n /\ Contents(n, Push(n, policy, r, v)) = Append(Contents(n, r), v)
              \/ r.count = n /\ policy = "reject" /\ Push(n, policy, r, v) = r
              \/ /\ r.count = n /\ policy # "reject"
                 /\ Contents(n, Push(n, policy, r, v)) = Append(Tail(Contents(n, r)), v)
  <1>1. r.count \in 0..n
    BY RingFields
  <1>2. CASE r.count < n
    <2>1. Push(n, policy, r, v) = Store(n, r, v)
      BY <1>2 DEF Push, RingFull
    <2> QED  BY <1>2, <2>1, StoreEffect
  <1>3. CASE r.count = n /\ policy = "reject"
    BY <1>3 DEF Push, RingFull
  <1>4. CASE r.count = n /\ policy # "reject"
    <2> DEFINE rest == AdvanceTail(n, r)
    <2>1. Push(n, policy, r, v) = Store(n, rest, v)
      BY <1>4 DEF Push, RingFull
    <2>2. r.count > 0
      BY <1>4
    <2>3. IsRing(n, T, rest) /\ rest.count = r.count - 1 /\ Contents(n, rest) = Tail(Contents(n, r))
      BY <2>2, AdvanceTailEffect
    <2> HIDE DEF rest
    <2>4. rest.count < n
      BY <1>4, <2>3
    <2>5. /\ IsRing(n, T, Store(n, rest, v))
          /\ Contents(n, Store(n, rest, v)) = Append(Contents(n, rest), v)
      BY <2>3, <2>4, StoreEffect
    <2> QED  BY <1>4, <2>1, <2>3, <2>5
  <1> QED  BY <1>1, <1>2, <1>3, <1>4

\* All values leave at once: the tail moves to the head.
Drained(n, r) == [r EXCEPT !.tail = (@ + r.count) % n, !.count = 0]

\* It leaves an empty, well-formed buffer.
LEMMA DrainEffect ==
    ASSUME NEW n \in Nat \ {0}, NEW T, NEW r, IsRing(n, T, r)
    PROVE  IsRing(n, T, Drained(n, r)) /\ Contents(n, Drained(n, r)) = <<>>
  <1> DEFINE d == Drained(n, r)
  <1>1. /\ r \in [slots : [0..(n - 1) -> T], head : 0..(n - 1), tail : 0..(n - 1), count : 0..n]
        /\ r.head = (r.tail + r.count) % n
    BY DEF IsRing
  <1>2. d = [r EXCEPT !.tail = r.head, !.count = 0]
    <2>1. d = [r EXCEPT !.tail = (r.tail + r.count) % n, !.count = 0]
      BY DEF Drained
    <2> HIDE DEF d
    <2> QED  BY <1>1, <2>1, Zenon
  <1> HIDE DEF d
  <1>3. /\ d \in [slots : [0..(n - 1) -> T], head : 0..(n - 1), tail : 0..(n - 1), count : 0..n]
        /\ d.head = r.head /\ d.tail = r.head /\ d.count = 0
    <2>1. /\ r \in [slots : [0..(n - 1) -> T], head : 0..(n - 1), tail : 0..(n - 1), count : 0..n]
          /\ r.head \in 0..(n - 1) /\ 0 \in 0..n
      BY <1>1
    <2> DEFINE h == r.head
    <2>2. d = [r EXCEPT !.tail = h, !.count = 0] /\ h \in 0..(n - 1)
      BY <1>2, <2>1
    <2> HIDE DEF h
    <2>3. /\ d \in [slots : [0..(n - 1) -> T], head : 0..(n - 1), tail : 0..(n - 1), count : 0..n]
          /\ d.head = r.head /\ d.tail = h /\ d.count = 0
      BY <2>1, <2>2
    <2> QED  BY <2>3 DEF h
  <1>4. r.head % n = r.head
    <2> DEFINE h == r.head
    <2>1. h \in 0..(2 * n - 1) /\ h < n
      BY <1>1
    <2> HIDE DEF h
    <2>2. h % n = Wrap(n, h)
      BY <2>1, Wrapped
    <2> QED  BY <2>1, <2>2 DEF Wrap, h
  <1>5. IsRing(n, T, d)
    <2>1. d.head = (d.tail + d.count) % n
      <3>1. d.tail + d.count = r.head
        BY <1>1, <1>3
      <3> QED  BY <1>3, <1>4, <3>1
    <2> QED  BY <1>3, <2>1 DEF IsRing
  <1>6. Contents(n, d) \in Seq(T) /\ Len(Contents(n, d)) = 0
    BY <1>3, <1>5, ContentsType
  <1> QED  BY <1>5, <1>6, EmptySeq DEF d
=============================================================================
