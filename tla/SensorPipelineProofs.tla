--------------------------- MODULE SensorPipelineProofs ---------------------------
(***************************************************************************)
(* The pipeline's ring buffers are the bounded queues of BoundedQueues, and the   *)
(* increments and measurements that pass through them have the times of their    *)
(* schedules, for every capacity, configuration, tolerance and end of time.       *)
(***************************************************************************)
EXTENDS SensorPipeline, RingBufferProofs, WellFoundedInduction

\* The steps of one queue of size n, which may give up its oldest value.
QueueStep(n, overwriting, s, t) ==
    \/ t = s
    \/ Len(s) < n /\ t # <<>> /\ t = Append(s, t[Len(t)])
    \/ overwriting /\ Len(s) = n /\ t # <<>> /\ t = Append(Tail(s), t[Len(t)])
    \/ \E k \in 1..Len(s) : t = SubSeq(s, k + 1, Len(s))

\* A ring that is still well formed, and whose contents took such a step.
RingStep(n, overwriting, r, u) ==
    /\ IsRing(n, Held(u), u)
    /\ QueueStep(n, overwriting, Contents(n, r), Contents(n, u))

\* The set of values that shows a ring well formed does not matter.
LEMMA RingStepOf ==
    ASSUME NEW n \in Nat \ {0}, NEW T, NEW r, NEW u, NEW overwriting, IsRing(n, T, u),
           QueueStep(n, overwriting, Contents(n, r), Contents(n, u))
    PROVE  RingStep(n, overwriting, r, u)
  BY RingOfHeld DEF RingStep

\* The value that entered is the newest of the result.
LEMMA AppendStep ==
    ASSUME NEW T, NEW s \in Seq(T), NEW v \in T
    PROVE  Append(s, v) # <<>> /\ Append(s, v) = Append(s, Append(s, v)[Len(Append(s, v))])
  BY AppendProperties

\* push() of either policy is a step of the queue.
LEMMA PushIsStep ==
    ASSUME NEW n \in Nat \ {0}, NEW r, IsRing(n, Held(r), r), NEW v, NEW policy \in Policies
    PROVE  RingStep(n, policy = "overwriteOldest", r, Push(n, policy, r, v))
  <1> DEFINE T == Held(r) \cup {v}
             u == Push(n, policy, r, v)
             s == Contents(n, r)
             t == Contents(n, u)
  <1>1. IsRing(n, T, r) /\ v \in T
    BY RingOfHeld
  <1>2. s \in Seq(T) /\ Len(s) = r.count
    BY <1>1, ContentsType
  <1> HIDE DEF T
  <1>3. /\ IsRing(n, T, u)
        /\ \/ r.count < n /\ t = Append(s, v)
           \/ r.count = n /\ policy = "reject" /\ u = r
           \/ r.count = n /\ policy # "reject" /\ t = Append(Tail(s), v)
    BY <1>1, PushEffect
  <1>4. QueueStep(n, policy = "overwriteOldest", s, t)
    <2> HIDE DEF s
    <2>1. CASE r.count < n /\ t = Append(s, v)
      BY <1>1, <1>2, <2>1, AppendStep DEF QueueStep
    <2>2. CASE u = r
      BY <2>2 DEF QueueStep, s
    <2>3. CASE r.count = n /\ policy # "reject" /\ t = Append(Tail(s), v)
      <3>1. policy = "overwriteOldest"
        BY <2>3 DEF Policies
      <3>2. s # <<>>
        BY <1>2, <2>3, EmptySeq
      <3>3. Tail(s) \in Seq(T)
        BY <1>2, <3>2, HeadTailProperties
      <3>4. t # <<>> /\ t = Append(Tail(s), t[Len(t)])
        BY <1>1, <2>3, <3>3, AppendStep
      <3> QED  BY <1>2, <2>3, <3>1, <3>4 DEF QueueStep
    <2> QED  BY <1>3, <2>1, <2>2, <2>3
  <1> QED  BY <1>3, <1>4, RingStepOf

\* One pop() is a step.
LEMMA PopIsStep ==
    ASSUME NEW n \in Nat \ {0}, NEW r, IsRing(n, Held(r), r), r.count > 0, NEW overwriting
    PROVE  RingStep(n, overwriting, r, Pop(n, r))
  <1> DEFINE u == AdvanceTail(n, r)
             s == Contents(n, r)
  <1>1. IsRing(n, Held(r), u) /\ Contents(n, u) = Tail(s)
    BY AdvanceTailEffect
  <1>2. s \in Seq(Held(r)) /\ Len(s) = r.count
    BY ContentsType
  <1>3. s # <<>> /\ 1 \in 1..Len(s)
    <2>1. r.count \in 0..n
      BY RingFields
    <2> QED  BY <1>2, <2>1, EmptySeq
  <1>4. Contents(n, u) = SubSeq(s, 1 + 1, Len(s))
    BY <1>1, <1>2, <1>3, TailIsSubSeq
  <1> HIDE DEF u, s
  <1>5. QueueStep(n, overwriting, s, Contents(n, u))
    BY <1>3, <1>4 DEF QueueStep
  <1> QED  BY <1>1, <1>5, RingStepOf DEF Pop, u, s

\* So are the two of a pair that is integrated.
LEMMA TwoPopsAreStep ==
    ASSUME NEW n \in Nat \ {0}, NEW r, IsRing(n, Held(r), r), r.count >= 2, NEW overwriting
    PROVE  RingStep(n, overwriting, r, Pop(n, Pop(n, r)))
  <1> DEFINE u == AdvanceTail(n, r)
             w == AdvanceTail(n, u)
             s == Contents(n, r)
  <1>1. r.count \in 2..n
    BY RingFields
  <1>2. IsRing(n, Held(r), u) /\ Contents(n, u) = Tail(s) /\ u.count = r.count - 1
    BY <1>1, AdvanceTailEffect
  <1>3. s \in Seq(Held(r)) /\ Len(s) = r.count
    BY ContentsType
  <1>4. u.count > 0
    BY <1>1, <1>2
  <1> HIDE DEF u, s
  <1>5. IsRing(n, Held(r), w) /\ Contents(n, w) = Tail(Contents(n, u))
    BY <1>2, <1>4, AdvanceTailEffect
  <1> HIDE DEF w
  <1>6. s # <<>> /\ 2 \in 1..Len(s) /\ Len(s) \in 2..Len(s)
    BY <1>1, <1>3, EmptySeq
  <1>7. Tail(s) = SubSeq(s, 2, Len(s))
    BY <1>3, <1>6, TailIsSubSeq
  <1>8. Tail(SubSeq(s, 2, Len(s))) = SubSeq(s, 2 + 1, Len(s))
    BY <1>3, <1>6, HeadTailOfSubSeq
  <1>9. Contents(n, w) = SubSeq(s, 2 + 1, Len(s))
    BY <1>2, <1>5, <1>7, <1>8
  <1>10. QueueStep(n, overwriting, s, Contents(n, w))
    BY <1>6, <1>9 DEF QueueStep
  <1> QED  BY <1>5, <1>10, RingStepOf DEF Pop, u, w, s

\* So are the pops that empty a sensor, however many there are.
LEMMA DrainIsStep ==
    ASSUME NEW n \in Nat \ {0}, NEW r, IsRing(n, Held(r), r), NEW overwriting
    PROVE  RingStep(n, overwriting, r, Drained(n, r))
  <1> DEFINE s == Contents(n, r)
  <1>1. IsRing(n, Held(r), Drained(n, r)) /\ Contents(n, Drained(n, r)) = <<>>
    BY DrainEffect
  <1>2. s \in Seq(Held(r)) /\ Len(s) \in Nat
    BY ContentsType, RingFields
  <1> HIDE DEF s
  <1>3. QueueStep(n, overwriting, s, <<>>)
    <2>1. CASE s = <<>>
      BY <2>1 DEF QueueStep
    <2>2. CASE s # <<>>
      <3>1. Len(s) \in 1..Len(s)
        BY <1>2, <2>2, EmptySeq
      <3>2. SubSeq(s, Len(s) + 1, Len(s)) = <<>>
        BY <1>2, SubSeqEmpty
      <3> QED  BY <3>1, <3>2 DEF QueueStep
    <2> QED  BY <2>1, <2>2
  <1> QED  BY <1>1, <1>3, RingStepOf DEF s

\* So is none.
LEMMA NoStep ==
    ASSUME NEW n \in Nat \ {0}, NEW r, IsRing(n, Held(r), r), NEW overwriting
    PROVE  RingStep(n, overwriting, r, r)
  BY DEF RingStep, QueueStep

-----------------------------------------------------------------------------
(* The pipeline. *)

\* Every buffer is a well-formed ring.
RingsInv ==
    /\ DOMAIN ring = Buffers
    /\ \A b \in Buffers : IsRing(Capacity[b], Held(ring[b]), ring[b])

\* What every action does to the buffers.
RingsStep ==
    /\ DOMAIN ring' = Buffers
    /\ \A b \in Buffers : RingStep(Capacity[b], b = "history", ring[b], ring'[b])

\* Capacities and policies of the buffers.
LEMMA CapacityFacts ==
    /\ \A b \in Buffers : Capacity[b] \in Nat \ {0} /\ Policy[b] \in Policies
    /\ \A b \in Buffers : (Policy[b] = "overwriteOldest") = (b = "history")
    /\ Capacity["imu"] = ImuCapacity /\ \A b \in Sensors : Capacity[b] = SensorCapacity
    /\ "imu" \in Buffers /\ "history" \in Buffers /\ Sensors \subseteq Buffers
  <1>1. "imu" \in Buffers /\ "history" \in Buffers /\ Sensors \subseteq Buffers
    BY DEF Buffers
  <1>2. \A b \in Buffers : Capacity[b] \in Nat \ {0}
    BY PipelineAssumption
  <1>3. \A b \in Buffers : Policy[b] \in Policies /\ (Policy[b] = "overwriteOldest") = (b = "history")
    BY DEF Policy, Policies
  <1>4. Capacity["imu"] = ImuCapacity /\ \A b \in Sensors : Capacity[b] = SensorCapacity
    BY <1>1 DEF Capacity, Sensors
  <1> QED  BY <1>1, <1>2, <1>3, <1>4

\* A push into any buffer is a step of its queue.
LEMMA PushedStep ==
    ASSUME RingsInv, NEW b \in Buffers, NEW v
    PROVE  RingStep(Capacity[b], b = "history", ring[b], Pushed(b, v))
  <1> DEFINE n == Capacity[b]
             p == Policy[b]
             r == ring[b]
  <1>1. /\ n \in Nat \ {0} /\ p \in Policies /\ (p = "overwriteOldest") = (b = "history")
        /\ IsRing(n, Held(r), r)
    BY CapacityFacts DEF RingsInv
  <1> HIDE DEF n, p, r
  <1>2. RingStep(n, p = "overwriteOldest", r, Push(n, p, r, v))
    BY <1>1, PushIsStep
  <1>3. RingStep(n, b = "history", r, Push(n, p, r, v))
    BY <1>1, <1>2
  <1> QED  BY <1>3 DEF Pushed, n, p, r

\* A buffer that is left alone takes the empty step.
LEMMA KeptStep ==
    ASSUME RingsInv, NEW b \in Buffers
    PROVE  RingStep(Capacity[b], b = "history", ring[b], ring[b])
  BY CapacityFacts, NoStep DEF RingsInv

\* An action that touches no buffer.
LEMMA UnchangedRings ==
    ASSUME RingsInv, UNCHANGED ring
    PROVE  RingsStep
  BY KeptStep DEF RingsStep, RingsInv

\* Publication pushes an increment, then the measurements it comes to.
LEMMA PublishRings ==
    ASSUME RingsInv, Publish
    PROVE  RingsStep
  <1>1. PICK pushesImu :
          ring' = [b \in Buffers |->
              IF b = "imu" /\ pushesImu THEN Pushed(b, prepared.imu)
              ELSE IF b \in Reached THEN Pushed(b, [t |-> now, dt |-> 0]) ELSE ring[b]]
    BY Zenon DEF Publish
  <1>2. ASSUME NEW b \in Buffers
        PROVE  \/ ring'[b] = Pushed(b, prepared.imu)
               \/ ring'[b] = Pushed(b, [t |-> now, dt |-> 0])
               \/ ring'[b] = ring[b]
    BY <1>1, Zenon
  <1>3. DOMAIN ring' = Buffers
    BY <1>1, Zenon
  <1>4. ASSUME NEW b \in Buffers
        PROVE  RingStep(Capacity[b], b = "history", ring[b], ring'[b])
    BY <1>2, PushedStep, KeptStep, Zenon
  <1> QED  BY <1>3, <1>4 DEF RingsStep

\* The strapdown loop takes a pair.
LEMMA PairRings ==
    ASSUME RingsInv, IntegratePair
    PROVE  RingsStep
  <1>1. /\ ring["imu"].count >= 2
        /\ ring' = [ring EXCEPT !["imu"] = Pop(ImuCapacity, Pop(ImuCapacity, ring["imu"]))]
    BY Zenon DEF IntegratePair
  <1>2. RingStep(ImuCapacity, FALSE, ring["imu"], Pop(ImuCapacity, Pop(ImuCapacity, ring["imu"])))
    BY <1>1, CapacityFacts, TwoPopsAreStep DEF RingsInv
  <1>3. /\ DOMAIN ring' = Buffers
        /\ ring'["imu"] = Pop(ImuCapacity, Pop(ImuCapacity, ring["imu"]))
        /\ \A b \in Buffers \ {"imu"} : ring'[b] = ring[b]
    BY <1>1, CapacityFacts DEF RingsInv
  <1>4. RingStep(Capacity["imu"], "imu" = "history", ring["imu"], ring'["imu"])
    BY <1>2, <1>3, CapacityFacts
  <1>5. \A b \in Buffers \ {"imu"} : RingStep(Capacity[b], b = "history", ring[b], ring'[b])
    BY <1>3, KeptStep
  <1> QED  BY <1>3, <1>4, <1>5 DEF RingsStep

\* The strapdown loop takes a single increment.
LEMMA SingleRings ==
    ASSUME RingsInv, IntegrateSingle
    PROVE  RingsStep
  <1>1. /\ ring["imu"].count = 1
        /\ ring' = [ring EXCEPT !["imu"] = Pop(ImuCapacity, ring["imu"])]
    BY Zenon DEF IntegrateSingle
  <1>2. RingStep(ImuCapacity, FALSE, ring["imu"], Pop(ImuCapacity, ring["imu"]))
    <2>1. ring["imu"].count > 0
      BY <1>1
    <2> QED  BY <2>1, CapacityFacts, PopIsStep DEF RingsInv
  <1>3. /\ DOMAIN ring' = Buffers
        /\ ring'["imu"] = Pop(ImuCapacity, ring["imu"])
        /\ \A b \in Buffers \ {"imu"} : ring'[b] = ring[b]
    BY <1>1, CapacityFacts DEF RingsInv
  <1>4. RingStep(Capacity["imu"], "imu" = "history", ring["imu"], ring'["imu"])
    BY <1>2, <1>3, CapacityFacts
  <1>5. \A b \in Buffers \ {"imu"} : RingStep(Capacity[b], b = "history", ring[b], ring'[b])
    BY <1>3, KeptStep
  <1> QED  BY <1>3, <1>4, <1>5 DEF RingsStep

\* The rest of the update remembers a covariance step and empties the sensors.
LEMMA UpdateRings ==
    ASSUME RingsInv, UpdateNavigator
    PROVE  RingsStep
  <1>1. PICK measures :
          ring' = [b \in Buffers |->
              IF b = "history" /\ CovarianceReady THEN Pushed(b, [t |-> now, dt |-> pending])
              ELSE IF b \in Sensors /\ measures
              THEN [ring[b] EXCEPT !.tail = (@ + ring[b].count) % SensorCapacity, !.count = 0]
              ELSE ring[b]]
    BY Zenon DEF UpdateNavigator
  <1>2. ASSUME NEW b \in Buffers
        PROVE  \/ ring'[b] = Pushed(b, [t |-> now, dt |-> pending])
               \/ b \in Sensors /\ ring'[b] = Drained(SensorCapacity, ring[b])
               \/ ring'[b] = ring[b]
    BY <1>1, Zenon DEF Drained
  <1>3. DOMAIN ring' = Buffers
    BY <1>1, Zenon
  <1>4. ASSUME NEW b \in Sensors
        PROVE  RingStep(Capacity[b], b = "history", ring[b], Drained(SensorCapacity, ring[b]))
    BY CapacityFacts, DrainIsStep DEF RingsInv
  <1>5. ASSUME NEW b \in Buffers
        PROVE  RingStep(Capacity[b], b = "history", ring[b], ring'[b])
    BY <1>2, <1>4, PushedStep, KeptStep, Zenon
  <1> QED  BY <1>3, <1>5 DEF RingsStep

\* Every step of the pipeline is a step of every queue.
LEMMA EveryStepMovesQueues ==
    ASSUME RingsInv, [PipelineNext]_pipelineVars
    PROVE  RingsStep
  <1>1. CASE Prepare
    BY <1>1, UnchangedRings DEF Prepare
  <1>2. CASE UNCHANGED pipelineVars
    BY <1>2, UnchangedRings DEF pipelineVars
  <1> QED  BY <1>1, <1>2, PublishRings, PairRings, SingleRings, UpdateRings DEF PipelineNext

\* The pipeline starts with empty, well-formed buffers.
LEMMA RingsInit == PipelineInit => RingsInv /\ Queued!QueuesInit
  <1> SUFFICES ASSUME PipelineInit
               PROVE  RingsInv /\ Queued!QueuesInit
    OBVIOUS
  <1>1. ring = [b \in Buffers |-> EmptyRing(Capacity[b], Blank)]
    BY DEF PipelineInit
  <1>2. ASSUME NEW b \in Buffers
        PROVE  /\ IsRing(Capacity[b], Held(ring[b]), ring[b])
               /\ Contents(Capacity[b], ring[b]) = <<>>
    <2>1. ring[b] = EmptyRing(Capacity[b], Blank) /\ Capacity[b] \in Nat \ {0}
      BY <1>1, CapacityFacts
    <2>2. IsRing(Capacity[b], {Blank}, ring[b]) /\ Contents(Capacity[b], ring[b]) = <<>>
      BY <2>1, EmptyRingEffect
    <2> QED  BY <2>1, <2>2, RingOfHeld
  <1>3. RingsInv
    BY <1>1, <1>2 DEF RingsInv
  <1>4. Queued!QueuesInit
    BY <1>2 DEF Queued!QueuesInit
  <1> QED  BY <1>3, <1>4

\* The buffers stay well-formed rings: head, tail and count of each agree.
THEOREM RingsWellFormed == PipelineSpec => []RingsInv
  <1>1. RingsInv /\ [PipelineNext]_pipelineVars => RingsInv'
    BY EveryStepMovesQueues DEF RingsStep, RingStep, RingsInv
  <1> QED  BY <1>1, RingsInit, PTL DEF PipelineSpec

\* What is pushed into a buffer of the Navigator comes out in order and once, for every
\* capacity and however often head and tail have wrapped around, and only the covariance
\* history gives up values (RingBuffer::push(), pop()).
THEOREM BuffersImplementQueues == PipelineSpec => BuffersAreQueues
  <1>1. RingsInv /\ [PipelineNext]_pipelineVars => Queued!QueuesNext
    <2> SUFFICES ASSUME RingsInv, [PipelineNext]_pipelineVars
                 PROVE  Queued!QueuesNext
      OBVIOUS
    <2>1. RingsStep
      BY EveryStepMovesQueues
    <2>2. \A b \in Buffers : QueueStep(Capacity[b], b = "history",
                                       Contents(Capacity[b], ring[b]), Contents(Capacity[b], ring'[b]))
      BY <2>1 DEF RingsStep, RingStep
    <2> QED  BY <2>2 DEF QueueStep, Queued!QueuesNext, Queued!Unchanged, Queued!Enters,
                         Queued!Replaces, Queued!Leaves, Queued!Newest
  <1> QED  BY <1>1, RingsInit, RingsWellFormed, PTL
           DEF PipelineSpec, BuffersAreQueues, Queued!QueuesSpec

-----------------------------------------------------------------------------
(* Samples of a rate: rounding to the nearest nanosecond is monotone. *)

\* Quotient and remainder.
LEMMA Division ==
    ASSUME NEW a \in Nat, NEW n \in Nat \ {0}
    PROVE  a \div n \in Nat /\ a % n \in 0..(n - 1) /\ a = n * (a \div n) + (a % n)
  OBVIOUS

\* A product of naturals is a natural.
LEMMA Product == ASSUME NEW a \in Nat, NEW b \in Nat PROVE a * b \in Nat
  OBVIOUS

\* Multiplication keeps the order.
LEMMA ProductOrder ==
    ASSUME NEW a \in Int, NEW b \in Int, NEW n \in Nat, a <= b PROVE n * a <= n * b
  OBVIOUS

\* A positive factor cancels.
LEMMA Factor ==
    ASSUME NEW n \in Nat \ {0}, NEW a \in Int, NEW b \in Int, n * a < n * b PROVE a < b
  OBVIOUS

\* v is the nearest integer to a / n, the greater one of two.
Nearest(n, a, v) == 2 * (n * v) <= 2 * a + n /\ 2 * a + n < 2 * (n * v) + 2 * n

\* Nearest values are ordered as the fractions they are nearest to, also if the
\* fractions have different denominators.
LEMMA NearestOrder ==
    ASSUME NEW n \in Nat \ {0}, NEW a \in Nat, NEW v \in Int, Nearest(n, a, v),
           NEW p \in Nat \ {0}, NEW b \in Nat, NEW w \in Int, Nearest(p, b, w), a * p <= b * n
    PROVE  v <= w
  <1>1. n * v \in Int /\ p * w \in Int /\ n * p \in Nat \ {0} /\ a * p \in Nat /\ b * n \in Nat
    OBVIOUS
  <1>2. p * (2 * (n * v)) <= p * (2 * a + n)
    BY <1>1, ProductOrder DEF Nearest
  <1>3. n * (2 * b + p) < n * (2 * (p * w) + 2 * p)
    BY <1>1 DEF Nearest
  <1>4. p * (2 * (n * v)) = 2 * ((n * p) * v) /\ p * (2 * a + n) = 2 * (a * p) + n * p
    OBVIOUS
  <1>5. n * (2 * b + p) = 2 * (b * n) + n * p /\ n * (2 * (p * w) + 2 * p) = 2 * ((n * p) * w) + 2 * (n * p)
    OBVIOUS
  <1>6. (n * p) * v \in Int /\ (n * p) * w \in Int
    BY <1>1
  <1>7. (n * p) * v < (n * p) * w + n * p
    BY <1>1, <1>2, <1>3, <1>4, <1>5, <1>6
  <1>8. (n * p) * (w + 1) = (n * p) * w + n * p
    OBVIOUS
  <1>9. (n * p) * v < (n * p) * (w + 1)
    BY <1>7, <1>8
  <1>10. v < w + 1
    BY <1>1, <1>9, Factor
  <1> QED  BY <1>10

\* Fractions that are one or more apart have different nearest values.
LEMMA NearestStrict ==
    ASSUME NEW n \in Nat \ {0}, NEW a \in Nat, NEW v \in Int, Nearest(n, a, v),
           NEW b \in Nat, NEW w \in Int, Nearest(n, b, w), a + n <= b
    PROVE  v < w
  <1>1. n * v \in Int /\ n * w \in Int
    OBVIOUS
  <1>2. n * v < n * w
    BY <1>1 DEF Nearest
  <1> QED  BY <1>2, Factor

\* Two steps by the same fraction differ by one at most after rounding.
LEMMA NearestSteps ==
    ASSUME NEW n \in Nat \ {0}, NEW d \in Nat,
           NEW a \in Nat, NEW u \in Int, NEW v \in Int, Nearest(n, a, u), Nearest(n, a + d, v),
           NEW b \in Nat, NEW w \in Int, NEW x \in Int, Nearest(n, b, w), Nearest(n, b + d, x)
    PROVE  (v - u) - (x - w) <= 1
  <1>1. n * u \in Int /\ n * v \in Int /\ n * w \in Int /\ n * x \in Int
    OBVIOUS
  <1>2. (n * v - n * u) - (n * x - n * w) < 2 * n
    BY <1>1 DEF Nearest
  <1>3. n * ((v - u) - (x - w)) = (n * v - n * u) - (n * x - n * w) /\ n * 2 = 2 * n
    OBVIOUS
  <1>4. (v - u) - (x - w) < 2
    BY <1>2, <1>3, Factor
  <1> QED  BY <1>4

\* What timestamp_at_sample_index() adds to the start.
Elapsed(r, k) ==
    (((k \div r.samples) * r.s) + (((k % r.samples) * r.s) \div r.samples)) * NsPerSecond
        + (((((k % r.samples) * r.s) % r.samples) * NsPerSecond + (r.samples \div 2)) \div r.samples)

\* Rates with samples.
SampleRate == [samples : Nat \ {0}, s : Nat \ {0}]

\* The time to sample k, in parts of a nanosecond.
Exact(r, k) == (k * r.s) * NsPerSecond

\* What a timestamp adds to the start is the nearest value to the exact time of the
\* sample: taking whole cycles off first changes nothing.
LEMMA ElapsedNearest ==
    ASSUME NEW r \in SampleRate, NEW k \in Nat
    PROVE  /\ Elapsed(r, k) \in Nat /\ Exact(r, k) \in Nat
           /\ Nearest(r.samples, Exact(r, k), Elapsed(r, k))
  <1> DEFINE n == r.samples
             s == r.s
             N == NsPerSecond
             q == k \div n
             m == k % n
             x == m * s
             c == x \div n
             y == x % n
             h == n \div 2
             z == (y * N + h) \div n
  <1>1. n \in Nat \ {0} /\ s \in Nat /\ N \in Nat
    BY TimeAssumption DEF SampleRate
  <1>20. Elapsed(r, k) = (q * s + c) * N + z /\ Exact(r, k) = (k * s) * N
    BY DEF Elapsed, Exact
  <1> HIDE DEF n, s, N
  <1>2. q \in Nat /\ m \in Nat /\ k = n * q + m
    BY <1>1, Division
  <1>3. x \in Nat
    BY <1>1, <1>2, Product
  <1> HIDE DEF q, m, x
  <1>4. c \in Nat /\ y \in Nat /\ x = n * c + y
    BY <1>1, <1>3, Division
  <1>5. h \in Nat /\ 2 * h <= n /\ n <= 2 * h + 1
    BY <1>1
  <1>6. y * N \in Nat /\ y * N + h \in Nat
    BY <1>1, <1>4, <1>5, Product
  <1>7. z \in Nat /\ n * z <= y * N + h /\ y * N + h < n * z + n
    <2>1. /\ z \in Nat /\ (y * N + h) % n \in 0..(n - 1)
          /\ y * N + h = n * z + ((y * N + h) % n)
      BY <1>1, <1>6, Division
    <2>2. n * z \in Nat
      BY <1>1, <2>1, Product
    <2> HIDE DEF z
    <2> QED  BY <1>1, <2>1, <2>2
  <1> HIDE DEF z, h, y, c
  <1>9. q * s \in Nat /\ (q * s + c) * N \in Nat /\ k * s \in Nat /\ (k * s) * N \in Nat /\ n * z \in Nat
    BY <1>1, <1>2, <1>4, <1>7, Product
  <1>10. n * ((q * s + c) * N + z) = (n * (q * s + c)) * N + n * z
    BY <1>1, <1>2, <1>4, <1>7
  <1>11. (k * s) * N = (n * (q * s + c)) * N + y * N
    <2>1. k * s = (n * q) * s + m * s
      BY <1>1, <1>2
    <2>2. k * s = n * (q * s + c) + y
      BY <1>1, <1>2, <1>4, <2>1 DEF x
    <2> QED  BY <1>1, <1>2, <1>4, <1>9, <2>2
  <1>12. (n * (q * s + c)) * N \in Nat
    BY <1>1, <1>4, <1>9, Product
  <1>13. Nearest(n, (k * s) * N, (q * s + c) * N + z)
    BY <1>1, <1>5, <1>6, <1>7, <1>9, <1>10, <1>11, <1>12 DEF Nearest
  <1> QED  BY <1>7, <1>20, <1>9, <1>13 DEF n

\* No product within a cycle overflows.
Computable(r) == (r.samples - 1) * r.s <= MaxSeconds

\* timestamp_at_sample_index() is the start and the elapsed time, as far as a timestamp
\* represents it.
LEMMA TimestampIs ==
    ASSUME NEW start \in Nat, NEW r \in SampleRate, Computable(r), NEW k \in Nat
    PROVE  TimestampAt(start, r, k) = IF start + Elapsed(r, k) >= NoTime THEN NoTime
                                      ELSE start + Elapsed(r, k)
  <1> DEFINE n == r.samples
             m == k % n
  <1>1. n \in Nat \ {0} /\ r.s \in Nat /\ NsPerSecond \in Nat /\ MaxSeconds \in Nat
    BY TimeAssumption DEF SampleRate
  <1>2. m \in Nat /\ m <= n - 1
    BY <1>1, Division
  <1>3. m * r.s <= (n - 1) * r.s
    <2>1. r.s * m <= r.s * (n - 1)
      BY <1>1, <1>2, ProductOrder
    <2> HIDE DEF n, m
    <2> QED  BY <1>1, <1>2, <2>1
  <1>4. ~(m * r.s > MaxSeconds)
    <2>1. m * r.s \in Nat /\ (n - 1) * r.s \in Nat
      BY <1>1, <1>2, Product
    <2> HIDE DEF m
    <2> QED  BY <1>1, <1>3, <2>1 DEF Computable
  <1>5. start + Elapsed(r, k) =
          start + (((k \div n) * r.s) + ((m * r.s) \div n)) * NsPerSecond
             + ((((m * r.s) % n) * NsPerSecond + (n \div 2)) \div n)
    <2> DEFINE x == m * r.s
               c == ((k \div n) * r.s) + (x \div n)
               y == (x % n) * NsPerSecond + (n \div 2)
               a == c * NsPerSecond
               b == y \div n
    <2>1. Elapsed(r, k) = a + b
      BY DEF Elapsed
    <2> HIDE DEF n
    <2>2. k \div n \in Nat /\ x \in Nat
      BY <1>1, <1>2, Division, Product
    <2> HIDE DEF x, m
    <2>3. x \div n \in Nat /\ x % n \in Nat
      BY <1>1, <2>2, Division
    <2>4. c \in Nat
      BY <1>1, <2>2, <2>3, Product
    <2>5. y \in Nat
      BY <1>1, <2>3, Product
    <2> HIDE DEF c, y
    <2>6. a \in Nat /\ b \in Nat
      BY <1>1, <2>4, <2>5, Division, Product
    <2> HIDE DEF a, b
    <2>7. start + Elapsed(r, k) = start + a + b
      BY <2>1, <2>6
    <2> QED  BY <2>7 DEF a, b, c, y, x, m
  <1> QED  BY <1>4, <1>5 DEF TimestampAt

\* Samples lie a nanosecond or more apart.
Resolvable(r) == r.samples <= r.s * NsPerSecond

\* A rate whose samples' times can be computed and told apart.
GridRate(r) == r \in SampleRate /\ Computable(r) /\ Resolvable(r)

\* The same, in the form the proofs below use.
LEMMA TimestampType ==
    ASSUME NEW start \in Nat, NEW r, GridRate(r), NEW k \in Nat
    PROVE  /\ NoTime \in Nat /\ TimestampAt(start, r, k) \in Nat /\ TimestampAt(start, r, k) <= NoTime
           /\ TimestampAt(start, r, k) # NoTime => TimestampAt(start, r, k) = start + Elapsed(r, k)
           /\ start + Elapsed(r, k) < NoTime => TimestampAt(start, r, k) = start + Elapsed(r, k)
           /\ start + Elapsed(r, k) >= NoTime => TimestampAt(start, r, k) = NoTime
  <1>1. NoTime \in Nat
    BY TimeAssumption, Product DEF NoTime
  <1>2. Elapsed(r, k) \in Nat
    BY ElapsedNearest DEF GridRate
  <1>3. TimestampAt(start, r, k) = IF start + Elapsed(r, k) >= NoTime THEN NoTime
                                   ELSE start + Elapsed(r, k)
    BY TimestampIs DEF GridRate
  <1> QED  BY <1>1, <1>2, <1>3

\* The exact times of the samples lie a period apart.
LEMMA ExactSteps ==
    ASSUME NEW r, GridRate(r), NEW j \in Nat, NEW k \in Nat
    PROVE  /\ Exact(r, k) \in Nat
           /\ Exact(r, k + 1) = Exact(r, k) + r.s * NsPerSecond
           /\ j <= k => Exact(r, j) <= Exact(r, k)
  <1> DEFINE s == r.s
             N == NsPerSecond
  <1>1. s \in Nat /\ N \in Nat
    BY TimeAssumption DEF GridRate, SampleRate
  <1>2. \A i : Exact(r, i) = (i * s) * N
    BY DEF Exact
  <1> HIDE DEF s, N
  <1>3. s * N \in Nat
    BY <1>1, Product
  <1>4. \A i \in Nat : (i * s) * N = (s * N) * i
    BY <1>1
  <1>5. (s * N) * (k + 1) = (s * N) * k + s * N
    BY <1>3
  <1>6. j <= k => (s * N) * j <= (s * N) * k
    BY <1>3, ProductOrder
  <1>7. (s * N) * k \in Nat
    BY <1>3, Product
  <1> QED  BY <1>2, <1>4, <1>5, <1>6, <1>7 DEF s, N

\* The times of samples are ordered.
LEMMA SampleOrder ==
    ASSUME NEW start \in Nat, NEW r, GridRate(r), NEW j \in Nat, NEW k \in Nat, j <= k
    PROVE  TimestampAt(start, r, j) <= TimestampAt(start, r, k)
  <1>1. r \in SampleRate /\ r.samples \in Nat \ {0}
    BY DEF GridRate, SampleRate
  <1>2. /\ Elapsed(r, j) \in Nat /\ Exact(r, j) \in Nat /\ Nearest(r.samples, Exact(r, j), Elapsed(r, j))
        /\ Elapsed(r, k) \in Nat /\ Exact(r, k) \in Nat /\ Nearest(r.samples, Exact(r, k), Elapsed(r, k))
    BY <1>1, ElapsedNearest
  <1>3. Exact(r, j) <= Exact(r, k)
    BY ExactSteps
  <1>4. Exact(r, j) * r.samples <= Exact(r, k) * r.samples
    BY <1>1, <1>2, <1>3
  <1>5. Elapsed(r, j) <= Elapsed(r, k)
    BY <1>1, <1>2, <1>4, NearestOrder
  <1>6. \A i \in Nat : /\ NoTime \in Nat /\ TimestampAt(start, r, i) \in Nat /\ TimestampAt(start, r, i) <= NoTime
                       /\ TimestampAt(start, r, i) # NoTime => TimestampAt(start, r, i) = start + Elapsed(r, i)
                       /\ start + Elapsed(r, i) < NoTime => TimestampAt(start, r, i) = start + Elapsed(r, i)
                       /\ start + Elapsed(r, i) >= NoTime => TimestampAt(start, r, i) = NoTime
    BY TimestampType
  <1> HIDE DEF NoTime
  <1> QED  BY <1>2, <1>5, <1>6

\* A timestamp differs from that of the next sample.
LEMMA NextSample ==
    ASSUME NEW start \in Nat, NEW r, GridRate(r), NEW k \in Nat, TimestampAt(start, r, k) # NoTime
    PROVE  TimestampAt(start, r, k) < TimestampAt(start, r, k + 1)
  <1>1. r \in SampleRate /\ r.samples \in Nat \ {0} /\ r.samples <= r.s * NsPerSecond /\ k + 1 \in Nat
        /\ r.s * NsPerSecond \in Nat
    BY TimeAssumption, Product DEF GridRate, SampleRate, Resolvable
  <1>2. /\ Elapsed(r, k) \in Nat /\ Exact(r, k) \in Nat /\ Nearest(r.samples, Exact(r, k), Elapsed(r, k))
        /\ Elapsed(r, k + 1) \in Nat /\ Exact(r, k + 1) \in Nat
        /\ Nearest(r.samples, Exact(r, k + 1), Elapsed(r, k + 1))
    BY <1>1, ElapsedNearest
  <1>3. Exact(r, k) + r.samples <= Exact(r, k + 1)
    <2>1. Exact(r, k + 1) = Exact(r, k) + r.s * NsPerSecond
      BY ExactSteps
    <2> QED  BY <1>1, <1>2, <2>1
  <1>4. Elapsed(r, k) < Elapsed(r, k + 1)
    BY <1>1, <1>2, <1>3, NearestStrict
  <1>5. TimestampAt(start, r, k) = start + Elapsed(r, k) /\ start + Elapsed(r, k) < NoTime
    BY <1>2, TimestampType
  <1>6. \A i \in Nat : /\ NoTime \in Nat /\ TimestampAt(start, r, i) \in Nat /\ TimestampAt(start, r, i) <= NoTime
                       /\ TimestampAt(start, r, i) # NoTime => TimestampAt(start, r, i) = start + Elapsed(r, i)
                       /\ start + Elapsed(r, i) < NoTime => TimestampAt(start, r, i) = start + Elapsed(r, i)
                       /\ start + Elapsed(r, i) >= NoTime => TimestampAt(start, r, i) = NoTime
    BY TimestampType
  <1> QED  BY <1>1, <1>2, <1>4, <1>5, <1>6

\* A timestamp differs from that of every later sample.
LEMMA LaterSample ==
    ASSUME NEW start \in Nat, NEW r, GridRate(r), NEW j \in Nat, NEW k \in Nat, j < k,
           TimestampAt(start, r, j) # NoTime
    PROVE  TimestampAt(start, r, j) < TimestampAt(start, r, k)
  <1>1. TimestampAt(start, r, j) < TimestampAt(start, r, j + 1)
    BY NextSample
  <1>2. TimestampAt(start, r, j + 1) <= TimestampAt(start, r, k)
    BY SampleOrder
  <1>3. j + 1 \in Nat
    OBVIOUS
  <1> QED  BY <1>1, <1>2, <1>3, TimestampType

\* The first sample is that of the start.
LEMMA StartSample ==
    ASSUME NEW start \in Nat, NEW r, GridRate(r), start < NoTime
    PROVE  TimestampAt(start, r, 0) = start
  <1>1. r \in SampleRate /\ r.samples \in Nat \ {0} /\ 0 \in Nat
    BY DEF GridRate, SampleRate
  <1>2. Elapsed(r, 0) \in Nat /\ Nearest(r.samples, Exact(r, 0), Elapsed(r, 0))
    BY <1>1, ElapsedNearest
  <1>3. Exact(r, 0) = 0
    BY <1>1, TimeAssumption DEF Exact, SampleRate
  <1>4. Elapsed(r, 0) = 0
    <2> DEFINE e == Elapsed(r, 0)
               n == r.samples
    <2>1. e \in Nat /\ n \in Nat \ {0} /\ 2 * (n * e) <= n
      BY <1>1, <1>2, <1>3 DEF Nearest
    <2> HIDE DEF e, n
    <2>2. ASSUME e >= 1 PROVE FALSE
      <3>1. n * 1 <= n * e
        BY <2>1, <2>2, ProductOrder
      <3> QED  BY <2>1, <3>1
    <2> QED  BY <2>1, <2>2 DEF e
  <1> QED  BY <1>4, TimestampType

\* If a rate is a multiple of another, then the other's samples are samples of it, to
\* the nanosecond: rounding does not depend on which of the two the time is computed from.
LEMMA CommonSamples ==
    ASSUME NEW start \in Nat, NEW f, GridRate(f), NEW g, GridRate(g), NEW m \in Nat,
           f.samples * g.s = m * (g.samples * f.s), NEW k \in Nat
    PROVE  TimestampAt(start, g, k) = TimestampAt(start, f, m * k)
  <1> DEFINE fn == f.samples
             gn == g.samples
             fs == f.s
             gs == g.s
             N == NsPerSecond
             a == Exact(f, m * k)
             b == Exact(g, k)
  <1>1. /\ fn \in Nat \ {0} /\ gn \in Nat \ {0} /\ fs \in Nat /\ gs \in Nat /\ N \in Nat
        /\ f \in SampleRate /\ g \in SampleRate
    BY TimeAssumption DEF GridRate, SampleRate
  <1>2. m * k \in Nat
    BY Product
  <1>3. /\ Elapsed(f, m * k) \in Nat /\ a \in Nat /\ Nearest(fn, a, Elapsed(f, m * k))
        /\ Elapsed(g, k) \in Nat /\ b \in Nat /\ Nearest(gn, b, Elapsed(g, k))
    BY <1>1, <1>2, ElapsedNearest
  <1>4. a * gn = b * fn
    <2>1. a = ((m * k) * fs) * N /\ b = (k * gs) * N /\ fn * gs = m * (gn * fs)
      BY DEF Exact
    <2> HIDE DEF a, b, fn, gn, fs, gs, N
    <2>2. b * fn = (k * N) * (fn * gs) /\ a * gn = (k * N) * (m * (gn * fs))
      BY <1>1, <2>1
    <2> QED  BY <2>1, <2>2
  <1> HIDE DEF a, b
  <1>5. b * fn \in Nat
    BY <1>1, <1>3, Product
  <1>6. Elapsed(f, m * k) <= Elapsed(g, k) /\ Elapsed(g, k) <= Elapsed(f, m * k)
    BY <1>1, <1>3, <1>4, <1>5, NearestOrder
  <1>7. Elapsed(f, m * k) = Elapsed(g, k)
    BY <1>3, <1>6
  <1>8. /\ TimestampAt(start, f, m * k) = IF start + Elapsed(f, m * k) >= NoTime THEN NoTime
                                          ELSE start + Elapsed(f, m * k)
        /\ TimestampAt(start, g, k) = IF start + Elapsed(g, k) >= NoTime THEN NoTime
                                      ELSE start + Elapsed(g, k)
    BY <1>2, TimestampIs DEF GridRate
  <1> QED  BY <1>7, <1>8

\* Two periods of a rate differ by a nanosecond at most.
LEMMA EvenPeriods ==
    ASSUME NEW start \in Nat, NEW r, GridRate(r), NEW j \in Nat, NEW k \in Nat,
           TimestampAt(start, r, j + 1) # NoTime, TimestampAt(start, r, k + 1) # NoTime
    PROVE  (TimestampAt(start, r, j + 1) - TimestampAt(start, r, j))
              - (TimestampAt(start, r, k + 1) - TimestampAt(start, r, k)) <= 1
  <1>1. r \in SampleRate /\ r.samples \in Nat \ {0} /\ r.s * NsPerSecond \in Nat
    BY TimeAssumption, Product DEF GridRate, SampleRate
  <1>2. \A i \in Nat : /\ Elapsed(r, i) \in Nat /\ Exact(r, i) \in Nat
                       /\ Nearest(r.samples, Exact(r, i), Elapsed(r, i))
    BY <1>1, ElapsedNearest
  <1>3. j + 1 \in Nat /\ k + 1 \in Nat
    OBVIOUS
  <1>4. Exact(r, j + 1) = Exact(r, j) + r.s * NsPerSecond /\ Exact(r, k + 1) = Exact(r, k) + r.s * NsPerSecond
    BY ExactSteps
  <1>5. (Elapsed(r, j + 1) - Elapsed(r, j)) - (Elapsed(r, k + 1) - Elapsed(r, k)) <= 1
    <2> DEFINE E(i) == Elapsed(r, i)
               n == r.samples
               d == r.s * NsPerSecond
    <2>1. /\ n \in Nat \ {0} /\ d \in Nat /\ Exact(r, j) \in Nat /\ Exact(r, k) \in Nat
          /\ E(j) \in Int /\ E(j + 1) \in Int /\ E(k) \in Int /\ E(k + 1) \in Int
          /\ Nearest(n, Exact(r, j), E(j)) /\ Nearest(n, Exact(r, j) + d, E(j + 1))
          /\ Nearest(n, Exact(r, k), E(k)) /\ Nearest(n, Exact(r, k) + d, E(k + 1))
      BY <1>1, <1>2, <1>3, <1>4
    <2> HIDE DEF E, n, d
    <2>2. (E(j + 1) - E(j)) - (E(k + 1) - E(k)) <= 1
      BY <2>1, NearestSteps
    <2> QED  BY <2>2 DEF E
  <1>6. /\ TimestampAt(start, r, j) <= TimestampAt(start, r, j + 1)
        /\ TimestampAt(start, r, k) <= TimestampAt(start, r, k + 1)
    BY <1>3, SampleOrder
  <1>7. \A i \in {j, k, j + 1, k + 1} : TimestampAt(start, r, i) = start + Elapsed(r, i)
    <2>1. ASSUME NEW i \in Nat, TimestampAt(start, r, i) # NoTime
          PROVE  TimestampAt(start, r, i) = start + Elapsed(r, i)
      BY <2>1, TimestampType
    <2>2. ASSUME NEW i \in Nat, TimestampAt(start, r, i + 1) # NoTime,
                 TimestampAt(start, r, i) <= TimestampAt(start, r, i + 1)
          PROVE  TimestampAt(start, r, i) # NoTime
      <3>1. i + 1 \in Nat
        OBVIOUS
      <3>2. TimestampAt(start, r, i + 1) <= NoTime /\ NoTime \in Nat /\ TimestampAt(start, r, i + 1) \in Nat
        BY <3>1, TimestampType
      <3> QED  BY <2>2, <3>2
    <2>3. TimestampAt(start, r, j) # NoTime /\ TimestampAt(start, r, k) # NoTime
      BY <1>6, <2>2
    <2> QED  BY <1>3, <2>1, <2>3
  <1> QED  BY <1>2, <1>3, <1>5, <1>7

-----------------------------------------------------------------------------
(* Multiples of a rate, and the index that is due. *)

\* A nonempty set of indices has a least one.
LEMMA LeastMember ==
    ASSUME NEW S \in SUBSET Nat, S # {}
    PROVE  \E x \in S : \A y \in S : x <= y
  <1>1. PICK x \in S : \A y \in S : ~(<<y, x>> \in OpToRel(<, Nat))
    BY WFMin, NatLessThanWellFounded
  <1>2. \A y \in S : ~(y < x)
    BY <1>1 DEF OpToRel
  <1> QED  BY <1>2

\* A nonempty set of bounded indices has a greatest one.
LEMMA GreatestMember ==
    ASSUME NEW n \in Nat, NEW S \in SUBSET (0..n), S # {}
    PROVE  \E x \in S : \A y \in S : y <= x
  <1> DEFINE D == {n - x : x \in S}
  <1>1. D \in SUBSET Nat /\ D # {}
    <2>1. \A x \in S : x \in Nat /\ n - x \in Nat
      OBVIOUS
    <2> QED  BY <2>1
  <1>2. PICK d \in D : \A e \in D : d <= e
    BY <1>1, LeastMember
  <1>3. PICK x \in S : d = n - x
    OBVIOUS
  <1>4. ASSUME NEW y \in S PROVE y <= x
    <2>1. n - y \in D
      OBVIOUS
    <2>2. n - x <= n - y
      BY <1>2, <1>3, <2>1
    <2> QED  BY <2>2
  <1> QED  BY <1>4

\* A division without remainder.
LEMMA ExactDivision ==
    ASSUME NEW a \in Nat \ {0}, NEW g \in Nat \ {0}, a % g = 0
    PROVE  a \div g \in Nat \ {0} /\ a = g * (a \div g)
  <1>1. a \div g \in Nat /\ a = g * (a \div g) + 0
    BY Division
  <1>2. a \div g # 0
    BY <1>1
  <1> QED  BY <1>1, <1>2

\* The greatest common divisor exists and divides both.
LEMMA GcdDivides ==
    ASSUME NEW a \in Nat \ {0}, NEW b \in Nat \ {0}
    PROVE  /\ Gcd(a, b) \in Nat \ {0} /\ a % Gcd(a, b) = 0 /\ b % Gcd(a, b) = 0
           /\ a \div Gcd(a, b) \in Nat \ {0} /\ a = Gcd(a, b) * (a \div Gcd(a, b))
           /\ b \div Gcd(a, b) \in Nat \ {0} /\ b = Gcd(a, b) * (b \div Gcd(a, b))
  <1> DEFINE D == {d \in 1..(a + b) : a % d = 0 /\ b % d = 0}
             P(d) == /\ a % d = 0 /\ b % d = 0
                     /\ \A e \in (d + 1)..(a + b) : ~(a % e = 0 /\ b % e = 0)
  <1>1. 1 \in D
    BY Z3
  <1>2. a + b \in Nat /\ D \in SUBSET (0..(a + b))
    OBVIOUS
  <1>3. PICK g \in D : \A e \in D : e <= g
    BY <1>1, <1>2, GreatestMember
  <1>4. ASSUME NEW e \in (g + 1)..(a + b) PROVE ~(a % e = 0 /\ b % e = 0)
    <2>1. g \in 1..(a + b) /\ e \in 1..(a + b) /\ ~(e <= g)
      OBVIOUS
    <2>2. e \notin D
      BY <1>3, <2>1
    <2> QED  BY <2>1, <2>2
  <1>5. \E d \in 1..(a + b) : P(d)
    <2>1. g \in 1..(a + b) /\ a % g = 0 /\ b % g = 0
      OBVIOUS
    <2> QED  BY <1>4, <2>1
  <1>6. Gcd(a, b) \in 1..(a + b) /\ a % Gcd(a, b) = 0 /\ b % Gcd(a, b) = 0
    BY <1>5 DEF Gcd
  <1>7. Gcd(a, b) \in Nat \ {0}
    BY <1>6
  <1> QED  BY <1>6, <1>7, ExactDivision

\* rational_rate_is_integer_multiple() accepts multiples only.
LEMMA MultipleMeans ==
    ASSUME NEW f \in SampleRate, NEW g \in SampleRate, IsIntegerMultiple(f, g)
    PROVE  \E m \in Nat \ {0} : f.samples * g.s = m * (g.samples * f.s)
  <1> DEFINE fn == f.samples
             fs == f.s
             gn == g.samples
             gs == g.s
             g1 == Gcd(fn, fs)
             g2 == Gcd(gs, fs \div g1)
             n1 == fn \div g1
             n2 == gs \div g2
             g3 == Gcd(n1, gn)
             g4 == Gcd(n2, gn \div g3)
             u == n1 \div g3
             v == n2 \div g4
  <1>1. fn \in Nat \ {0} /\ fs \in Nat \ {0} /\ gn \in Nat \ {0} /\ gs \in Nat \ {0}
    BY DEF SampleRate
  <1>2. fs \div g1 = g2 /\ gn \div g3 = g4
    BY DEF IsIntegerMultiple
  <1> HIDE DEF fn, fs, gn, gs
  <1>3. g1 \in Nat \ {0} /\ n1 \in Nat \ {0} /\ fn = g1 * n1 /\ fs \div g1 \in Nat \ {0} /\ fs = g1 * (fs \div g1)
    BY <1>1, GcdDivides
  <1> HIDE DEF g1, n1
  <1>4. g2 \in Nat \ {0} /\ n2 \in Nat \ {0} /\ gs = g2 * n2
    BY <1>1, <1>3, GcdDivides
  <1> HIDE DEF g2, n2
  <1>5. g3 \in Nat \ {0} /\ u \in Nat \ {0} /\ n1 = g3 * u /\ gn \div g3 \in Nat \ {0} /\ gn = g3 * (gn \div g3)
    BY <1>1, <1>3, GcdDivides
  <1> HIDE DEF g3, u
  <1>6. g4 \in Nat \ {0} /\ v \in Nat \ {0} /\ n2 = g4 * v
    BY <1>4, <1>5, GcdDivides
  <1> HIDE DEF g4, v
  <1>7. fn = g1 * (g3 * u) /\ fs = g1 * g2 /\ gn = g3 * g4 /\ gs = g2 * (g4 * v)
    BY <1>2, <1>3, <1>4, <1>5, <1>6
  <1>8. (g1 * (g3 * u)) * (g2 * (g4 * v)) = (u * v) * ((g3 * g4) * (g1 * g2))
    BY <1>3, <1>4, <1>5, <1>6
  <1>9. u * v \in Nat \ {0}
    BY <1>5, <1>6
  <1> QED  BY <1>7, <1>8, <1>9 DEF fn, fs, gn, gs

\* A configured rate or period is a rate of samples.
LEMMA RuntimeRateType ==
    ASSUME NEW num \in Nat \ {0}, NEW den \in Nat \ {0}, NEW c, c.num = num, c.den = den
    PROVE  RateFromRuntime(c) \in SampleRate
  <1>1. LowestTerms(c).num \in Nat \ {0} /\ LowestTerms(c).den \in Nat \ {0}
    BY GcdDivides DEF LowestTerms
  <1> QED  BY <1>1 DEF RateFromRuntime, SampleRate

\* IndexAfter() is the first index later than t, if there is one.
LEMMA IndexAfterIs ==
    ASSUME NEW start \in Nat, NEW r, GridRate(r), NEW next \in Nat, NEW t \in Nat,
           NEW K \in next..MaxIndex, TimestampAt(start, r, K) > t
    PROVE  LET k == IndexAfter(start, r, next, t)
           IN  /\ k \in next..MaxIndex /\ k \in Nat /\ TimestampAt(start, r, k) > t
               /\ \A j \in next..(k - 1) : TimestampAt(start, r, j) <= t
  <1> DEFINE S == {k \in next..MaxIndex : TimestampAt(start, r, k) > t}
             Q(k) == /\ TimestampAt(start, r, k) > t
                     /\ \A j \in next..(k - 1) : TimestampAt(start, r, j) <= t
  <1>0. MaxIndex \in Nat
    BY TimeAssumption
  <1>1. S \in SUBSET Nat /\ S # {}
    BY <1>0
  <1>2. PICK k \in S : \A y \in S : k <= y
    BY <1>1, LeastMember
  <1>3. \A j \in Nat : TimestampAt(start, r, j) \in Nat
    BY TimestampType
  <1>4. ASSUME NEW j \in next..(k - 1) PROVE TimestampAt(start, r, j) <= t
    <2>1. j \in Nat /\ j < k /\ j \in next..MaxIndex
      BY <1>0, <1>2
    <2>2. j \notin S
      BY <1>2, <2>1
    <2> QED  BY <1>3, <2>1, <2>2
  <1>5. \E i \in next..MaxIndex : Q(i)
    BY <1>2, <1>4
  <1>6. IndexAfter(start, r, next, t) \in next..MaxIndex /\ Q(IndexAfter(start, r, next, t))
    BY <1>5 DEF IndexAfter
  <1> QED  BY <1>0, <1>6

-----------------------------------------------------------------------------
(* A configuration's samples. *)

\* The rates of the sensors.
SensorRates == {ImuRate(setup), GnssRate(setup)}

\* The time of sample k of a rate, and that of epoch k.
SampleAt(r, k) == TimestampAt(setup.start, r, k)
AppTime(k) == SampleAt(AppRate(setup), k)

\* The configuration was accepted.
Configured == setup \in Setups /\ SetupAccepted(setup)

\* What is known of an accepted configuration.
LEMMA SetupFacts ==
    ASSUME Configured
    PROVE  /\ setup.start \in Nat /\ setup.end \in Nat /\ setup.start <= setup.end /\ setup.end < NoTime
           /\ NoTime \in Nat
           /\ GridRate(AppRate(setup)) /\ GridRate(ImuRate(setup)) /\ GridRate(GnssRate(setup))
           /\ \A r \in {AppRate(setup), ImuRate(setup), GnssRate(setup)} :
                 setup.end < TimestampAt(setup.start, r, MaxIndex)
           /\ TimestampAt(setup.start, ImuRate(setup), 2) # NoTime
           /\ IsIntegerMultiple(AppRate(setup), ImuRate(setup))
           /\ IsIntegerMultiple(AppRate(setup), GnssRate(setup))
  <1>1. NoTime \in Nat
    BY TimeAssumption, Product DEF NoTime
  <1>2. /\ {setup.app, setup.imu, setup.gnss} \subseteq ConfiguredRate
        /\ setup.start \in Nat /\ setup.end \in setup.start..(NoTime - 1)
    BY SetupsAssumption DEF Configured
  <1>3. AppRate(setup) \in SampleRate /\ ImuRate(setup) \in SampleRate /\ GnssRate(setup) \in SampleRate
    <2>1. ASSUME NEW c \in ConfiguredRate PROVE RateFromRuntime(c) \in SampleRate
      BY RuntimeRateType DEF ConfiguredRate
    <2> QED  BY <1>2, <2>1 DEF AppRate, ImuRate, GnssRate
  <1>4. /\ \A r \in {AppRate(setup), ImuRate(setup), GnssRate(setup)} :
              /\ (r.samples - 1) * r.s <= MaxSeconds
              /\ r.samples <= r.s * NsPerSecond
              /\ setup.end < TimestampAt(setup.start, r, MaxIndex)
        /\ TimestampAt(setup.start, ImuRate(setup), 2) # NoTime
    BY RangeAssumption DEF Configured
  <1>5. GridRate(AppRate(setup)) /\ GridRate(ImuRate(setup)) /\ GridRate(GnssRate(setup))
    BY <1>3, <1>4 DEF GridRate, Computable, Resolvable
  <1>6. IsIntegerMultiple(AppRate(setup), ImuRate(setup)) /\ IsIntegerMultiple(AppRate(setup), GnssRate(setup))
    BY DEF Configured, SetupAccepted
  <1> HIDE DEF NoTime
  <1> QED  BY <1>1, <1>2, <1>4, <1>5, <1>6

\* What the proofs below use of a rate's samples.
LEMMA Samples ==
    ASSUME Configured, NEW r \in {AppRate(setup), ImuRate(setup), GnssRate(setup)}
    PROVE  /\ \A k \in Nat : SampleAt(r, k) \in Nat /\ SampleAt(r, k) <= NoTime
           /\ SampleAt(r, 0) = setup.start
           /\ \A j, k \in Nat : j <= k => SampleAt(r, j) <= SampleAt(r, k)
           /\ \A j, k \in Nat : j < k /\ SampleAt(r, j) # NoTime => SampleAt(r, j) < SampleAt(r, k)
           /\ MaxIndex \in Nat /\ setup.end < SampleAt(r, MaxIndex)
  <1>1. GridRate(r) /\ setup.start \in Nat /\ setup.start < NoTime /\ setup.end < SampleAt(r, MaxIndex)
    BY SetupFacts DEF SampleAt
  <1>2. MaxIndex \in Nat
    BY TimeAssumption
  <1>3. \A k \in Nat : SampleAt(r, k) \in Nat /\ SampleAt(r, k) <= NoTime
    BY <1>1, TimestampType DEF SampleAt
  <1>4. SampleAt(r, 0) = setup.start
    BY <1>1, StartSample DEF SampleAt
  <1>5. \A j, k \in Nat : j <= k => SampleAt(r, j) <= SampleAt(r, k)
    BY <1>1, SampleOrder DEF SampleAt
  <1>6. \A j, k \in Nat : j < k /\ SampleAt(r, j) # NoTime => SampleAt(r, j) < SampleAt(r, k)
    BY <1>1, LaterSample DEF SampleAt
  <1> QED  BY <1>1, <1>2, <1>3, <1>4, <1>5, <1>6

\* Every sample of a sensor is one of the application's.
LEMMA SensorSamples ==
    ASSUME Configured, NEW r \in SensorRates
    PROVE  \E m \in Nat \ {0} : \A k \in Nat : SampleAt(r, k) = AppTime(m * k)
  <1> DEFINE f == AppRate(setup)
  <1>1. GridRate(f) /\ GridRate(r) /\ IsIntegerMultiple(f, r) /\ setup.start \in Nat
    BY SetupFacts DEF SensorRates
  <1>2. PICK m \in Nat \ {0} : f.samples * r.s = m * (r.samples * f.s)
    BY <1>1, MultipleMeans DEF GridRate
  <1> HIDE DEF f
  <1>3. ASSUME NEW k \in Nat PROVE TimestampAt(setup.start, r, k) = TimestampAt(setup.start, f, m * k)
    BY <1>1, <1>2, CommonSamples
  <1> QED  BY <1>3 DEF SampleAt, AppTime, f

\* next is the first index of a sample later than t.
FirstAfter(r, next, t) ==
    /\ next \in Nat /\ SampleAt(r, next) > t
    /\ \A j \in 0..(next - 1) : SampleAt(r, j) <= t

\* A schedule none of whose samples lies between its last index and t: a sample at t
\* is consumed, and due if the next sample is a timestamp.
LEMMA DueStep ==
    ASSUME Configured, NEW r \in SensorRates, NEW next \in Nat, NEW t \in setup.start..setup.end,
           SampleAt(r, next) >= t, \A j \in 0..(next - 1) : SampleAt(r, j) <= t
    PROVE  /\ Due(setup.start, r, next, t) <=> SampleAt(r, next) = t /\ SampleAt(r, next + 1) # NoTime
           /\ NextDue(setup.start, r, next, t) = IF SampleAt(r, next) = t THEN next + 1 ELSE next
           /\ FirstAfter(r, NextDue(setup.start, r, next, t), t)
  <1> DEFINE k == IndexAfter(setup.start, r, next, t)
  <1>1. /\ setup.start \in Nat /\ setup.end \in Nat /\ setup.end < NoTime /\ NoTime \in Nat /\ GridRate(r)
    BY SetupFacts DEF SensorRates
  <1>2. t \in Nat /\ setup.start <= t /\ t <= setup.end
    BY <1>1
  <1>3. /\ \A i \in Nat : SampleAt(r, i) \in Nat /\ SampleAt(r, i) <= NoTime
        /\ \A i, j \in Nat : i < j /\ SampleAt(r, i) # NoTime => SampleAt(r, i) < SampleAt(r, j)
        /\ MaxIndex \in Nat /\ setup.end < SampleAt(r, MaxIndex)
    BY Samples DEF SensorRates
  <1>4. next <= MaxIndex
    <2>1. ASSUME MaxIndex < next PROVE FALSE
      <3>1. MaxIndex \in 0..(next - 1)
        BY <1>3, <2>1
      <3> QED  BY <1>1, <1>2, <1>3, <3>1
    <2> QED  BY <1>3, <2>1
  <1>5. k \in Nat /\ next <= k /\ SampleAt(r, k) > t /\ \A j \in next..(k - 1) : SampleAt(r, j) <= t
    <2>1. MaxIndex \in next..MaxIndex /\ TimestampAt(setup.start, r, MaxIndex) > t
      BY <1>1, <1>2, <1>3, <1>4 DEF SampleAt
    <2>2. /\ k \in next..MaxIndex /\ k \in Nat /\ TimestampAt(setup.start, r, k) > t
          /\ \A j \in next..(k - 1) : TimestampAt(setup.start, r, j) <= t
      BY <1>1, <1>2, <2>1, IndexAfterIs
    <2> QED  BY <2>2 DEF SampleAt
  <1> HIDE DEF k
  <1>6. k = IF SampleAt(r, next) = t THEN next + 1 ELSE next
    <2>1. CASE SampleAt(r, next) = t
      <3>1. SampleAt(r, next + 1) > t
        BY <1>1, <1>2, <1>3, <2>1
      <3>2. k # next
        BY <1>2, <1>5, <2>1
      <3>3. ASSUME k > next + 1 PROVE FALSE
        <4>1. next + 1 \in next..(k - 1)
          BY <1>5, <3>3
        <4> QED  BY <1>2, <1>3, <1>5, <3>1, <4>1
      <3> QED  BY <1>5, <2>1, <3>2, <3>3
    <2>2. CASE SampleAt(r, next) # t
      <3>1. ASSUME k > next PROVE FALSE
        <4>1. next \in next..(k - 1)
          BY <1>5, <3>1
        <4> QED  BY <1>2, <1>3, <1>5, <2>2, <4>1
      <3> QED  BY <1>5, <2>2, <3>1
    <2> QED  BY <2>1, <2>2
  <1>7. NextDue(setup.start, r, next, t) = k
    BY <1>2 DEF NextDue, k
  <1>8. Due(setup.start, r, next, t) <=> SampleAt(r, next) <= t /\ SampleAt(r, k) # NoTime
    BY <1>2 DEF Due, k, SampleAt
  <1>9. SampleAt(r, next) <= t <=> SampleAt(r, next) = t
    BY <1>2, <1>3
  <1>10. FirstAfter(r, k, t)
    <2>1. \A j \in 0..(k - 1) : SampleAt(r, j) <= t
      BY <1>5
    <2> QED  BY <1>5, <2>1 DEF FirstAfter
  <1> QED  BY <1>6, <1>7, <1>8, <1>9, <1>10

\* No sample of a sensor lies between two epochs.
LEMMA EpochMeetsSample ==
    ASSUME Configured, NEW r \in SensorRates, NEW i \in Nat, NEW next \in Nat,
           FirstAfter(r, next, AppTime(i))
    PROVE  AppTime(i + 1) <= SampleAt(r, next)
  <1>1. PICK m \in Nat \ {0} : \A k \in Nat : SampleAt(r, k) = AppTime(m * k)
    BY SensorSamples
  <1>2. /\ \A k \in Nat : AppTime(k) \in Nat
        /\ \A j, k \in Nat : j <= k => AppTime(j) <= AppTime(k)
    BY Samples DEF AppTime
  <1>3. m * next \in Nat
    BY Product
  <1>4. AppTime(m * next) > AppTime(i)
    BY <1>1 DEF FirstAfter
  <1>5. i < m * next
    BY <1>2, <1>3, <1>4
  <1> QED  BY <1>1, <1>2, <1>3, <1>5

-----------------------------------------------------------------------------
(* Epochs and schedules. *)

\* The epoch's time is that of the application's grid, clamped to the end.
Timed ==
    /\ Configured
    /\ stage \in {"prepare", "publish", "integrate", "finished", "failed"}
    /\ index \in Nat /\ now \in setup.start..setup.end
    /\ stage # "failed" =>
          IF index = 0 THEN stage = "prepare" /\ now = setup.start
          ELSE /\ AppTime(index - 1) # NoTime
               /\ now = IF AppTime(index - 1) > setup.end THEN setup.end ELSE AppTime(index - 1)
               /\ stage = "prepare" => now < setup.end

\* Every schedule stands at the first sample later than the epoch.
Scheduled ==
    /\ imuNext \in Nat /\ gnss \in [Sensors -> [start : Nat \cup {-1}, next : Nat]]
    /\ stage # "failed" =>
          /\ IF index <= 1 THEN imuNext = 0 ELSE FirstAfter(ImuRate(setup), imuNext, now)
          /\ \A s \in Sensors :
                IF index = 0 THEN gnss[s] = [start |-> -1, next |-> 0]
                ELSE gnss[s].start = setup.start /\ FirstAfter(GnssRate(setup), gnss[s].next, now)

\* The epoch that is prepared next.
LEMMA EpochFacts ==
    ASSUME Timed, stage = "prepare", Requested # NoTime
    PROVE  /\ setup.start \in Nat /\ setup.end \in Nat /\ setup.end < NoTime /\ NoTime \in Nat
           /\ Requested = AppTime(index) /\ Requested \in Nat
           /\ EpochTime \in setup.start..setup.end /\ EpochTime <= Requested
           /\ EpochTime = IF AppTime(index) > setup.end THEN setup.end ELSE AppTime(index)
           /\ index = 0 => EpochTime = setup.start /\ now = setup.start
           /\ index > 0 => now = AppTime(index - 1) /\ now < EpochTime
  <1>1. /\ Configured /\ index \in Nat /\ now \in setup.start..setup.end
        /\ setup.start \in Nat /\ setup.end \in Nat /\ setup.end < NoTime /\ NoTime \in Nat
        /\ setup.start <= setup.end
    BY SetupFacts DEF Timed
  <1>2. /\ \A k \in Nat : AppTime(k) \in Nat
        /\ \A j, k \in Nat : j < k /\ AppTime(j) # NoTime => AppTime(j) < AppTime(k)
        /\ \A j, k \in Nat : j <= k => AppTime(j) <= AppTime(k)
        /\ AppTime(0) = setup.start
    BY <1>1, Samples DEF AppTime
  <1>3. Requested = AppTime(index)
    BY DEF Requested, AppTime, SampleAt
  <1>4. EpochTime = IF AppTime(index) > setup.end THEN setup.end ELSE AppTime(index)
    BY <1>3 DEF EpochTime
  <1>5. AppTime(index) \in Nat /\ setup.start <= AppTime(index)
    BY <1>1, <1>2
  <1>6. EpochTime \in setup.start..setup.end /\ EpochTime <= Requested
    BY <1>1, <1>3, <1>4, <1>5
  <1>7. ASSUME index = 0 PROVE EpochTime = setup.start /\ now = setup.start
    BY <1>1, <1>2, <1>4, <1>7 DEF Timed
  <1>8. ASSUME index > 0 PROVE now = AppTime(index - 1) /\ now < EpochTime
    <2>1. index - 1 \in Nat /\ index - 1 < index
      BY <1>1, <1>8
    <2>2. /\ AppTime(index - 1) # NoTime /\ now < setup.end
          /\ now = IF AppTime(index - 1) > setup.end THEN setup.end ELSE AppTime(index - 1)
      BY <1>8 DEF Timed
    <2>3. now = AppTime(index - 1)
      BY <1>1, <1>2, <2>1, <2>2
    <2>4. AppTime(index - 1) < AppTime(index)
      BY <1>1, <1>2, <2>1, <2>2
    <2> QED  BY <1>1, <1>2, <1>4, <2>1, <2>2, <2>3, <2>4
  <1> QED  BY <1>1, <1>3, <1>5, <1>6, <1>4, <1>7, <1>8

\* A sensor's schedule at the epoch: no sample of its was passed over.
LEMMA SensorAtEpoch ==
    ASSUME Timed, stage = "prepare", Requested # NoTime, NEW r \in SensorRates, NEW next \in Nat,
           IF index = 0 THEN next = 0 ELSE FirstAfter(r, next, now)
    PROVE  /\ Due(setup.start, r, next, EpochTime) <=>
                 SampleAt(r, next) = EpochTime /\ SampleAt(r, next + 1) # NoTime
           /\ NextDue(setup.start, r, next, EpochTime) =
                 IF SampleAt(r, next) = EpochTime THEN next + 1 ELSE next
           /\ FirstAfter(r, NextDue(setup.start, r, next, EpochTime), EpochTime)
           /\ SampleAt(r, next) >= EpochTime
           /\ \A j \in 0..(next - 1) : SampleAt(r, j) <= now
  <1>1. /\ setup.start \in Nat /\ setup.end \in Nat /\ Configured /\ index \in Nat
        /\ EpochTime \in setup.start..setup.end /\ EpochTime <= AppTime(index)
        /\ now \in setup.start..setup.end
        /\ index = 0 => EpochTime = setup.start /\ now = setup.start
        /\ index > 0 => now = AppTime(index - 1) /\ now < EpochTime
    BY EpochFacts DEF Timed
  <1>2. /\ \A k \in Nat : SampleAt(r, k) \in Nat
        /\ SampleAt(r, 0) = setup.start
    BY <1>1, Samples DEF SensorRates
  <1>3. AppTime(index) \in Nat
    BY <1>1, Samples DEF AppTime
  <1>4. /\ SampleAt(r, next) >= EpochTime
        /\ \A j \in 0..(next - 1) : SampleAt(r, j) <= now
    <2>1. CASE index = 0
      BY <1>1, <1>2, <2>1
    <2>2. CASE index > 0
      <3>1. index - 1 \in Nat /\ FirstAfter(r, next, AppTime(index - 1)) /\ (index - 1) + 1 = index
        BY <1>1, <2>2
      <3>2. AppTime(index) <= SampleAt(r, next)
        BY <1>1, <3>1, EpochMeetsSample
      <3> QED  BY <1>1, <1>2, <1>3, <2>2, <3>1, <3>2 DEF FirstAfter
    <2> QED  BY <1>1, <2>1, <2>2
  <1>5. \A j \in 0..(next - 1) : SampleAt(r, j) <= EpochTime
    <2>1. now <= EpochTime
      BY <1>1
    <2> QED  BY <1>1, <1>2, <1>4, <2>1
  <1> QED  BY <1>1, <1>4, <1>5, DueStep

\* The first epoch takes index 0 of the IMU's schedule, and index 1 if it is its time.
LEMMA ImuAtFirstEpoch ==
    ASSUME Timed, Scheduled, stage = "prepare", Requested # NoTime, index = 1
    PROVE  /\ ImuDue(EpochTime) /\ EpochTime = FirstEpoch /\ setup.start < EpochTime
           /\ NextDue(setup.start, ImuRate(setup), imuNext, EpochTime) =
                 IF SampleAt(ImuRate(setup), 1) = EpochTime THEN 2 ELSE 1
           /\ FirstAfter(ImuRate(setup), NextDue(setup.start, ImuRate(setup), imuNext, EpochTime), EpochTime)
           /\ EpochTime <= SampleAt(ImuRate(setup), 1)
  <1> DEFINE r == ImuRate(setup)
             t == EpochTime
             k == IndexAfter(setup.start, r, 0, t)
  <1>1. /\ setup.start \in Nat /\ setup.end \in Nat /\ setup.end < NoTime /\ NoTime \in Nat /\ Configured
        /\ t \in setup.start..setup.end /\ now = AppTime(0) /\ now < t
        /\ t = IF AppTime(1) > setup.end THEN setup.end ELSE AppTime(1)
    BY EpochFacts DEF Timed
  <1>2. AppTime(0) = setup.start /\ \A i \in Nat : AppTime(i) \in Nat
    BY <1>1, Samples DEF AppTime
  <1>3. /\ \A i \in Nat : SampleAt(r, i) \in Nat /\ SampleAt(r, i) <= NoTime
        /\ \A i, j \in Nat : i < j /\ SampleAt(r, i) # NoTime => SampleAt(r, i) < SampleAt(r, j)
        /\ MaxIndex \in Nat /\ setup.end < SampleAt(r, MaxIndex) /\ SampleAt(r, 0) = setup.start
        /\ \A i, j \in Nat : i <= j => SampleAt(r, i) <= SampleAt(r, j)
    BY <1>1, Samples
  <1>4. imuNext = 0
    BY DEF Scheduled
  <1>5. t \in Nat /\ setup.start < t /\ t = FirstEpoch
    BY <1>1, <1>2 DEF FirstEpoch, AppTime, SampleAt
  <1>6. t <= SampleAt(r, 1)
    <2>1. \A j \in 0..(1 - 1) : SampleAt(r, j) <= AppTime(0)
      BY <1>2, <1>3
    <2>2. SampleAt(r, 1) > AppTime(0)
      BY <1>1, <1>2, <1>3
    <2>3. FirstAfter(r, 1, AppTime(0))
      BY <2>1, <2>2 DEF FirstAfter
    <2>4. AppTime(0 + 1) <= SampleAt(r, 1)
      BY <1>1, <2>3, EpochMeetsSample DEF SensorRates
    <2> QED  BY <1>1, <1>2, <1>3, <1>5, <2>4
  <1>7. k \in Nat /\ SampleAt(r, k) > t /\ \A j \in 0..(k - 1) : SampleAt(r, j) <= t
    <2>1. MaxIndex \in 0..MaxIndex /\ TimestampAt(setup.start, r, MaxIndex) > t /\ GridRate(r)
      BY <1>1, <1>3, <1>5, SetupFacts DEF SampleAt
    <2>2. /\ k \in 0..MaxIndex /\ k \in Nat /\ TimestampAt(setup.start, r, k) > t
          /\ \A j \in 0..(k - 1) : TimestampAt(setup.start, r, j) <= t
      BY <1>1, <1>5, <2>1, IndexAfterIs
    <2> QED  BY <2>2 DEF SampleAt
  <1> HIDE DEF k
  <1>8. k = IF SampleAt(r, 1) = t THEN 2 ELSE 1
    <2>1. k # 0
      BY <1>3, <1>5, <1>7
    <2>2. CASE SampleAt(r, 1) = t
      <3>1. SampleAt(r, 2) > t
        BY <1>1, <1>3, <1>5, <2>2
      <3>2. k # 1
        BY <1>5, <1>7, <2>2
      <3>3. ASSUME k > 2 PROVE FALSE
        <4>1. 2 \in 0..(k - 1)
          BY <1>7, <3>3
        <4> QED  BY <1>3, <1>5, <1>7, <3>1, <4>1
      <3> QED  BY <1>7, <2>1, <2>2, <3>2, <3>3
    <2>3. CASE SampleAt(r, 1) # t
      <3>1. ASSUME k > 1 PROVE FALSE
        <4>1. 1 \in 0..(k - 1)
          BY <1>7, <3>1
        <4> QED  BY <1>3, <1>5, <1>6, <1>7, <2>3, <4>1
      <3> QED  BY <1>7, <2>1, <2>3, <3>1
    <2> QED  BY <2>2, <2>3
  <1>9. NextDue(setup.start, r, imuNext, t) = k
    BY <1>4, <1>5, <1>1 DEF NextDue, k
  <1>10. Due(setup.start, r, imuNext, t)
    <2>1. SampleAt(r, k) # NoTime
      <3>1. SampleAt(r, k) <= SampleAt(r, 2)
        BY <1>3, <1>8
      <3>2. SampleAt(r, 2) # NoTime
        BY <1>1, SetupFacts DEF SampleAt
      <3> QED  BY <1>1, <1>3, <1>7, <3>1, <3>2
    <2> QED  BY <1>1, <1>3, <1>4, <1>5, <2>1 DEF Due, k, SampleAt
  <1>11. FirstAfter(r, k, t)
    BY <1>7 DEF FirstAfter
  <1> QED  BY <1>5, <1>6, <1>8, <1>9, <1>10, <1>11 DEF ImuDue

\* Epochs and schedules are right at first.
LEMMA TimeInit == PipelineInit => Timed /\ Scheduled
  <1> SUFFICES ASSUME PipelineInit PROVE Timed /\ Scheduled
    OBVIOUS
  <1>1. Configured
    BY DEF PipelineInit, Configured
  <1>2. setup.start \in setup.start..setup.end
    BY <1>1, SetupFacts
  <1>3. Timed
    BY <1>1, <1>2 DEF PipelineInit, Timed
  <1>4. gnss = [s \in Sensors |-> [start |-> -1, next |-> 0]] /\ index = 0 /\ imuNext = 0
    BY DEF PipelineInit
  <1>5. gnss \in [Sensors -> [start : Nat \cup {-1}, next : Nat]]
    BY <1>4
  <1> QED  BY <1>3, <1>4, <1>5 DEF Scheduled

\* Steps that leave the source alone keep them.
LEMMA OthersKeepTime ==
    ASSUME Timed, Scheduled, UNCHANGED sourceVars,
           \/ stage' \in {"failed", stage}
           \/ stage = "publish" /\ stage' = "integrate"
           \/ stage = "integrate" /\ stage' = IF Terminal THEN "finished" ELSE "prepare"
    PROVE  Timed' /\ Scheduled'
  <1>1. /\ setup' = setup /\ index' = index /\ now' = now /\ imuNext' = imuNext /\ gnss' = gnss
    BY DEF sourceVars
  <1>2. Configured' /\ now' \in setup'.start..setup'.end /\ index' \in Nat
    BY <1>1 DEF Timed, Configured
  <1>3. stage' \in {"prepare", "publish", "integrate", "finished", "failed"}
    BY DEF Timed
  <1>4. stage' # "failed" => stage # "failed"
    BY DEF Timed
  <1>5. /\ stage' # "failed" /\ index > 0 /\ stage' = "prepare" => now < setup.end
        /\ stage' # "failed" /\ index = 0 => stage' = "prepare"
    <2>1. setup.start \in Nat /\ setup.end \in Nat
      BY SetupFacts DEF Timed
    <2> QED  BY <1>4, <2>1 DEF Timed, Terminal
  <1>6. \A k : AppTime(k)' = AppTime(k)
    BY <1>1 DEF AppTime, SampleAt
  <1>7. Timed'
    BY <1>1, <1>2, <1>3, <1>4, <1>5, <1>6 DEF Timed
  <1>8. \A r, next, t : FirstAfter(r, next, t)' = FirstAfter(r, next, t)
    BY <1>1 DEF FirstAfter, SampleAt
  <1>9. ImuRate(setup)' = ImuRate(setup) /\ GnssRate(setup)' = GnssRate(setup)
    BY <1>1
  <1>10. Scheduled'
    BY <1>1, <1>4, <1>8, <1>9 DEF Scheduled
  <1> QED  BY <1>7, <1>10

\* The two outcomes of a preparation.
LEMMA PrepareEffect ==
    ASSUME Timed, Scheduled, previous <= now, Prepare
    PROVE  \/ stage' = "failed" /\ UNCHANGED sourceVars
           \/ /\ stage = "prepare" /\ stage' = "publish" /\ setup' = setup
              /\ Requested # NoTime /\ now' = EpochTime /\ index' = index + 1
              /\ IF index > 0 THEN PrepareImu(EpochTime) ELSE UNCHANGED <<imuNext, previous>>
              /\ gnss' = [s \in Sensors |-> Consumed(s, EpochTime)]
              /\ prepared' = [imu |-> IF index > 0 /\ ImuDue(EpochTime)
                                      THEN Interval(EpochTime) ELSE Blank,
                              sensors |-> Measured(EpochTime)]
  <1>1. stage = "prepare"
    BY DEF Prepare
  <1> DEFINE bad == Requested = NoTime \/ (index > 0 /\ ImuFails(EpochTime))
  <1>2. CASE bad
    <2>1. stage' = "failed" /\ UNCHANGED sourceVars
      BY <1>2, Zenon DEF Prepare
    <2> QED  BY <2>1
  <1>3. CASE ~bad
    BY <1>1, <1>3, Zenon DEF Prepare
  <1> QED  BY <1>2, <1>3

\* The schedule of a receiver at the epoch.
LEMMA GnssAtEpoch ==
    ASSUME Timed, Scheduled, stage = "prepare", Requested # NoTime, NEW s \in Sensors
    PROVE  LET r == GnssRate(setup)
               n == gnss[s].next
               g == Consumed(s, EpochTime)
           IN  /\ n \in Nat
               /\ Started(s, EpochTime) = [start |-> setup.start, next |-> n]
               /\ g = [start |-> setup.start, next |-> IF SampleAt(r, n) = EpochTime THEN n + 1 ELSE n]
               /\ FirstAfter(r, g.next, EpochTime)
               /\ Generates(s, EpochTime) <=>
                    /\ SampleAt(r, n) = EpochTime /\ SampleAt(r, n + 1) # NoTime
                    /\ Available(setup.start, EpochTime)
  <1> DEFINE r == GnssRate(setup)
             n == gnss[s].next
             e == EpochTime
             after == NextDue(setup.start, r, n, e)
  <1>1. /\ setup.start \in Nat /\ index \in Nat /\ (index = 0 => e = setup.start)
    BY EpochFacts DEF Timed
  <1>2. gnss[s] \in [start : Nat \cup {-1}, next : Nat]
    BY DEF Scheduled
  <1>3. IF index = 0 THEN gnss[s] = [start |-> -1, next |-> 0]
        ELSE gnss[s].start = setup.start /\ FirstAfter(r, n, now)
    BY DEF Scheduled
  <1>4. n \in Nat /\ IF index = 0 THEN n = 0 ELSE FirstAfter(r, n, now)
    BY <1>2, <1>3
  <1>5. Started(s, e) = [start |-> setup.start, next |-> n]
    <2>1. CASE index = 0
      BY <1>1, <1>3, <2>1 DEF Started
    <2>2. CASE index # 0
      <3>1. gnss[s] = [start |-> setup.start, next |-> n]
        BY <1>1, <1>2, <1>3, <2>2
      <3>2. gnss[s].start = setup.start
        BY <1>3, <2>2
      <3>3. ~(gnss[s].start < 0)
        BY <1>1, <3>2
      <3> QED  BY <3>1, <3>3 DEF Started
    <2> QED  BY <2>1, <2>2
  <1>6. /\ Due(setup.start, r, n, e) <=> SampleAt(r, n) = e /\ SampleAt(r, n + 1) # NoTime
        /\ after = IF SampleAt(r, n) = e THEN n + 1 ELSE n
        /\ FirstAfter(r, after, e)
    <2> HIDE DEF n
    <2>1. r \in SensorRates
      BY DEF SensorRates
    <2> HIDE DEF r
    <2> QED  BY <1>4, <2>1, SensorAtEpoch
  <1>7. Consumed(s, e) = [start |-> setup.start, next |-> after]
    BY <1>5 DEF Consumed
  <1>8. Generates(s, e) <=> Due(setup.start, r, n, e) /\ Available(setup.start, e)
    BY <1>5 DEF Generates
  <1> HIDE DEF after, n
  <1> QED  BY <1>4, <1>5, <1>6, <1>7, <1>8 DEF n

\* The schedule of the IMU at an epoch after the initial one.
LEMMA ImuAtEpoch ==
    ASSUME Timed, Scheduled, stage = "prepare", Requested # NoTime, index > 0
    PROVE  LET r == ImuRate(setup)
               after == NextDue(setup.start, r, imuNext, EpochTime)
           IN  /\ FirstAfter(r, after, EpochTime)
               /\ index > 1 =>
                    /\ ImuDue(EpochTime) <=> SampleAt(r, imuNext) = EpochTime /\ SampleAt(r, imuNext + 1) # NoTime
                    /\ after = IF SampleAt(r, imuNext) = EpochTime THEN imuNext + 1 ELSE imuNext
  <1> DEFINE r == ImuRate(setup)
  <1>1. index \in Nat /\ imuNext \in Nat
    BY DEF Timed, Scheduled
  <1>2. CASE index = 1
    <2>1. FirstAfter(r, NextDue(setup.start, r, imuNext, EpochTime), EpochTime)
      BY <1>2, ImuAtFirstEpoch
    <2> QED  BY <1>2, <2>1
  <1>3. CASE index > 1
    <2>1. FirstAfter(r, imuNext, now) /\ r \in SensorRates
      BY <1>1, <1>3 DEF Scheduled, SensorRates
    <2> HIDE DEF r
    <2>2. index # 0
      BY <1>3
    <2>3. /\ Due(setup.start, r, imuNext, EpochTime) <=>
                 SampleAt(r, imuNext) = EpochTime /\ SampleAt(r, imuNext + 1) # NoTime
          /\ NextDue(setup.start, r, imuNext, EpochTime) =
                 IF SampleAt(r, imuNext) = EpochTime THEN imuNext + 1 ELSE imuNext
          /\ FirstAfter(r, NextDue(setup.start, r, imuNext, EpochTime), EpochTime)
      BY <1>1, <2>1, <2>2, SensorAtEpoch
    <2> QED  BY <2>3 DEF ImuDue, r
  <1> QED  BY <1>1, <1>2, <1>3

\* What depends on the configuration alone means the same after a step.
LEMMA SetupKept ==
    ASSUME setup' = setup
    PROVE  /\ Configured' <=> Configured
           /\ \A k : AppTime(k)' = AppTime(k)
           /\ \A r, k : SampleAt(r, k)' = SampleAt(r, k)
           /\ \A r, n, t : FirstAfter(r, n, t)' <=> FirstAfter(r, n, t)
           /\ ImuRate(setup)' = ImuRate(setup) /\ GnssRate(setup)' = GnssRate(setup)
           /\ FirstEpoch' = FirstEpoch
  BY DEF Configured, AppTime, SampleAt, FirstAfter, FirstEpoch

\* Preparation keeps epochs and schedules.
LEMMA PrepareKeepsTime ==
    ASSUME Timed, Scheduled, previous <= now, Prepare
    PROVE  Timed' /\ Scheduled'
  <1>1. CASE stage' = "failed" /\ UNCHANGED sourceVars
    BY <1>1, OthersKeepTime
  <1>2. CASE /\ stage = "prepare" /\ stage' = "publish" /\ setup' = setup
             /\ Requested # NoTime /\ now' = EpochTime /\ index' = index + 1
             /\ IF index > 0 THEN PrepareImu(EpochTime) ELSE UNCHANGED <<imuNext, previous>>
             /\ gnss' = [s \in Sensors |-> Consumed(s, EpochTime)]
    <2>1. /\ Requested = AppTime(index) /\ EpochTime \in setup.start..setup.end /\ index \in Nat /\ Configured
          /\ EpochTime = IF AppTime(index) > setup.end THEN setup.end ELSE AppTime(index)
      BY <1>2, EpochFacts DEF Timed
    <2>2. Timed'
      <3>1. index' \in Nat /\ index' # 0 /\ index' - 1 = index /\ index' > 0
        BY <1>2, <2>1
      <3>2. AppTime(index - 1)' = AppTime(index)
        BY <1>2, <3>1 DEF AppTime, SampleAt
      <3>3. Configured'
        BY <1>2, <2>1, SetupKept
      <3> QED  BY <1>2, <2>1, <3>1, <3>2, <3>3 DEF Timed
    <2>3. \A s \in Sensors : /\ gnss'[s] \in [start : Nat \cup {-1}, next : Nat]
                             /\ gnss'[s].start = setup.start
                             /\ FirstAfter(GnssRate(setup), gnss'[s].next, EpochTime)
      <3> SUFFICES ASSUME NEW s \in Sensors
                   PROVE  /\ gnss'[s] \in [start : Nat \cup {-1}, next : Nat]
                          /\ gnss'[s].start = setup.start
                          /\ FirstAfter(GnssRate(setup), gnss'[s].next, EpochTime)
        OBVIOUS
      <3> DEFINE n == IF SampleAt(GnssRate(setup), gnss[s].next) = EpochTime
                      THEN gnss[s].next + 1 ELSE gnss[s].next
      <3>1. /\ gnss'[s] = [start |-> setup.start, next |-> n] /\ n \in Nat
            /\ FirstAfter(GnssRate(setup), gnss'[s].next, EpochTime)
        BY <1>2, GnssAtEpoch
      <3> HIDE DEF n
      <3>2. setup.start \in Nat
        BY <2>1, SetupFacts
      <3> QED  BY <3>1, <3>2
    <2>4. gnss' \in [Sensors -> [start : Nat \cup {-1}, next : Nat]]
      <3>1. gnss' = [s \in Sensors |-> gnss'[s]]
        BY <1>2
      <3> QED  BY <2>3, <3>1
    <2>5. /\ imuNext' \in Nat
          /\ IF index' <= 1 THEN imuNext' = 0 ELSE FirstAfter(ImuRate(setup), imuNext', EpochTime)
      <3>1. CASE index = 0
        BY <1>2, <3>1 DEF Scheduled
      <3>2. CASE index > 0
        <4>1. FirstAfter(ImuRate(setup), imuNext', EpochTime)
          BY <1>2, <3>2, ImuAtEpoch DEF PrepareImu
        <4>2. imuNext' \in Nat
          BY <4>1 DEF FirstAfter
        <4>3. ~(index' <= 1)
          BY <1>2, <2>1, <3>2
        <4> QED  BY <4>1, <4>2, <4>3
      <3> QED  BY <2>1, <3>1, <3>2
    <2>7. Scheduled'
      <3>1. index' # 0
        BY <1>2, <2>1
      <3>2. /\ ImuRate(setup)' = ImuRate(setup) /\ GnssRate(setup)' = GnssRate(setup)
            /\ \A r, n : FirstAfter(r, n, now)' <=> FirstAfter(r, n, EpochTime)
        BY <1>2 DEF FirstAfter, SampleAt
      <3>3. IF index' <= 1 THEN imuNext' = 0 ELSE FirstAfter(ImuRate(setup), imuNext, now)'
        <4>1. FirstAfter(ImuRate(setup), imuNext, now)' <=> FirstAfter(ImuRate(setup), imuNext', EpochTime)
          BY <1>2 DEF FirstAfter, SampleAt
        <4> QED  BY <2>5, <4>1
      <3>4. \A s \in Sensors : gnss'[s].start = setup'.start /\ FirstAfter(GnssRate(setup), gnss[s].next, now)'
        <4>1. ASSUME NEW s \in Sensors
              PROVE  FirstAfter(GnssRate(setup), gnss[s].next, now)'
                       <=> FirstAfter(GnssRate(setup), gnss'[s].next, EpochTime)
          BY <1>2 DEF FirstAfter, SampleAt
        <4> QED  BY <1>2, <2>3, <4>1
      <3> QED  BY <2>4, <2>5, <3>1, <3>3, <3>4 DEF Scheduled
    <2> QED  BY <2>2, <2>7
  <1> QED  BY <1>1, <1>2, PrepareEffect

-----------------------------------------------------------------------------
(* The increments. *)

\* The first increment takes index 1 of the grid with it if the first epoch is its time.
Shift == IF SampleAt(ImuRate(setup), 1) = FirstEpoch THEN 1 ELSE 0

\* Where increment i ends.
IncrementEnd(i) == IF i = 1 THEN FirstEpoch ELSE SampleAt(ImuRate(setup), i - 1 + Shift)

\* Where the increment after the first n of seq starts.
EndOf(seq, n) == IF n = 0 THEN setup.start ELSE seq[n].t

\* The increments cover the time without a gap, and end by u.
Tiling(seq, u) ==
    /\ seq \in Seq(Element)
    /\ \A i \in 1..Len(seq) :
          /\ seq[i].t = IncrementEnd(i) /\ seq[i].t <= u
          /\ seq[i].dt = seq[i].t - EndOf(seq, i - 1) /\ seq[i].dt > 0
          /\ SampleAt(ImuRate(setup), i + Shift) # NoTime

\* The increments so far, with the one that waits for its publication.
Generated ==
    IF stage = "publish" /\ HasIncrement(prepared) THEN Append(imuLog, prepared.imu) ELSE imuLog

\* next is the schedule's after n increments: a due index that is followed by no
\* timestamp is consumed without one.
NextAfter(next, n) ==
    \/ next = n + Shift
    \/ next = n + Shift + 1 /\ SampleAt(ImuRate(setup), n + Shift + 1) = NoTime

\* The increments tile the time, the next one starts where the last one ended, and the
\* schedule stands at the index after it.
Covered ==
    /\ Tiling(imuLog, now)
    /\ stage # "failed" =>
          /\ Tiling(Generated, now)
          /\ previous = EndOf(Generated, Len(Generated))
          /\ IF index <= 1 THEN Generated = <<>>
             ELSE Len(Generated) > 0 /\ NextAfter(imuNext, Len(Generated))

\* What tiles keeps tiling.
LEMMA TilingKept ==
    ASSUME setup' = setup, NEW seq, NEW u
    PROVE  Tiling(seq, u)' <=> Tiling(seq, u)
  BY SetupKept DEF Tiling, IncrementEnd, EndOf, Shift

\* Increments that tile up to a time tile up to a later one.
LEMMA TilingLater ==
    ASSUME Configured, NEW seq, NEW u \in Nat, Tiling(seq, u), NEW v \in Nat, u <= v
    PROVE  Tiling(seq, v)
  <1>1. seq \in Seq(Element)
    BY DEF Tiling
  <1>2. ASSUME NEW i \in 1..Len(seq) PROVE seq[i].t \in Nat
    <2>1. seq[i] \in Element
      BY <1>1
    <2> QED  BY <2>1 DEF Element
  <1> QED  BY <1>1, <1>2 DEF Tiling

\* One more increment.
LEMMA TilingGrows ==
    ASSUME Configured, NEW seq, NEW u \in Nat, Tiling(seq, u),
           NEW x \in Element, x.t = IncrementEnd(Len(seq) + 1), x.t <= u,
           x.dt = x.t - EndOf(seq, Len(seq)), x.dt > 0,
           SampleAt(ImuRate(setup), Len(seq) + 1 + Shift) # NoTime
    PROVE  Tiling(Append(seq, x), u) /\ Len(Append(seq, x)) = Len(seq) + 1
           /\ Append(seq, x)[Len(seq) + 1] = x
  <1> DEFINE all == Append(seq, x)
             n == Len(seq)
  <1>1. seq \in Seq(Element) /\ n \in Nat
    BY DEF Tiling
  <1>2. /\ all \in Seq(Element) /\ Len(all) = n + 1 /\ all[n + 1] = x
        /\ \A i \in 1..n : all[i] = seq[i]
    BY <1>1, AppendProperties
  <1>3. \A i \in 1..(n + 1) : EndOf(all, i - 1) = EndOf(seq, i - 1)
    BY <1>1, <1>2 DEF EndOf
  <1> HIDE DEF all
  <1>4. ASSUME NEW i \in 1..(n + 1)
        PROVE  /\ all[i].t = IncrementEnd(i) /\ all[i].t <= u
               /\ all[i].dt = all[i].t - EndOf(all, i - 1) /\ all[i].dt > 0
               /\ SampleAt(ImuRate(setup), i + Shift) # NoTime
    <2>1. CASE i = n + 1
      <3>1. EndOf(all, i - 1) = EndOf(seq, n)
        BY <1>1, <1>3, <2>1
      <3> QED  BY <1>1, <1>2, <2>1, <3>1
    <2>2. CASE i # n + 1
      <3>1. i \in 1..n /\ all[i] = seq[i] /\ EndOf(all, i - 1) = EndOf(seq, i - 1)
        BY <1>1, <1>2, <1>3, <2>2
      <3> QED  BY <3>1 DEF Tiling
    <2> QED  BY <2>1, <2>2
  <1> QED  BY <1>2, <1>4 DEF Tiling, all

\* No increment is generated at first.
LEMMA CoveredInit == PipelineInit => Covered
  <1> SUFFICES ASSUME PipelineInit PROVE Covered
    OBVIOUS
  <1>1. imuLog = <<>> /\ stage = "prepare" /\ index = 0 /\ previous = setup.start
    BY DEF PipelineInit
  <1>2. Generated = <<>> /\ Len(<<>>) = 0
    BY <1>1 DEF Generated
  <1>3. \A u : Tiling(<<>>, u)
    BY DEF Tiling
  <1> QED  BY <1>1, <1>2, <1>3 DEF Covered, EndOf

\* The previous sample of the IMU simulator is one of the past.
LEMMA PreviousPast ==
    ASSUME Timed, Covered, stage # "failed"
    PROVE  previous \in Nat /\ previous <= now
  <1>1. setup.start \in Nat /\ setup.end \in Nat /\ now \in setup.start..setup.end
    BY SetupFacts DEF Timed
  <1>2. Tiling(Generated, now) /\ previous = EndOf(Generated, Len(Generated))
    BY DEF Covered
  <1>3. Generated \in Seq(Element) /\ Len(Generated) \in Nat
    BY <1>2 DEF Tiling
  <1>4. CASE Len(Generated) = 0
    BY <1>1, <1>2, <1>4 DEF EndOf
  <1>5. CASE Len(Generated) > 0
    <2>1. Len(Generated) \in 1..Len(Generated)
      BY <1>3, <1>5
    <2>2. Generated[Len(Generated)] \in Element
      BY <1>3, <2>1
    <2>3. Generated[Len(Generated)].t <= now /\ previous = Generated[Len(Generated)].t
      BY <1>2, <1>5, <2>1 DEF Tiling, EndOf
    <2> QED  BY <2>2, <2>3 DEF Element
  <1> QED  BY <1>3, <1>4, <1>5

\* The increment of an epoch, if one is due, ends at the next time of the IMU's grid.
LEMMA IncrementAtEpoch ==
    ASSUME Timed, Scheduled, Covered, stage = "prepare", Requested # NoTime, index > 0
    PROVE  LET e == EpochTime
               n == Len(imuLog)
           IN  /\ previous < e
               /\ IF ImuDue(e)
                  THEN /\ e = IncrementEnd(n + 1)
                       /\ SampleAt(ImuRate(setup), n + 1 + Shift) # NoTime
                       /\ NextDue(setup.start, ImuRate(setup), imuNext, e) = n + 1 + Shift
                  ELSE n > 0 /\ NextAfter(NextDue(setup.start, ImuRate(setup), imuNext, e), n)
  <1> DEFINE e == EpochTime
             n == Len(imuLog)
             r == ImuRate(setup)
             after == NextDue(setup.start, r, imuNext, e)
  <1>1. /\ setup.end \in Nat /\ setup.end < NoTime /\ NoTime \in Nat /\ e \in Nat /\ e <= setup.end
        /\ now < e /\ now \in Nat /\ Configured /\ index \in Nat /\ setup.start \in Nat
    BY EpochFacts DEF Timed
  <1>2. previous < e
    BY <1>1, PreviousPast
  <1>3. Generated = imuLog /\ n \in Nat
    BY DEF Generated, Covered, Tiling
  <1>4. imuNext \in Nat /\ Shift \in {0, 1}
    BY DEF Scheduled, Shift
  <1>5. /\ \A k \in Nat : SampleAt(r, k) \in Nat /\ SampleAt(r, k) <= NoTime
        /\ \A j, k \in Nat : j <= k => SampleAt(r, j) <= SampleAt(r, k)
    BY <1>1, Samples
  <1>6. CASE index = 1
    <2>1. ImuDue(e) /\ e = FirstEpoch /\ after = IF SampleAt(r, 1) = e THEN 2 ELSE 1
      BY <1>6, ImuAtFirstEpoch
    <2>2. imuLog = <<>> /\ n = 0
      BY <1>3, <1>6 DEF Covered
    <2>3. after = n + 1 + Shift /\ e = IncrementEnd(n + 1)
      BY <2>1, <2>2 DEF Shift, IncrementEnd
    <2>4. SampleAt(r, 2) # NoTime
      BY <1>1, SetupFacts DEF SampleAt
    <2>5. SampleAt(r, n + 1 + Shift) # NoTime
      <3>1. n + 1 + Shift \in Nat /\ n + 1 + Shift <= 2
        BY <1>4, <2>2
      <3> HIDE DEF n
      <3>2. SampleAt(r, n + 1 + Shift) <= SampleAt(r, 2)
        BY <1>5, <3>1
      <3> HIDE DEF r
      <3> QED  BY <1>1, <1>5, <2>4, <3>1, <3>2
    <2> QED  BY <1>2, <2>1, <2>3, <2>5
  <1>7. CASE index > 1
    <2>1. /\ ImuDue(e) <=> SampleAt(r, imuNext) = e /\ SampleAt(r, imuNext + 1) # NoTime
          /\ after = IF SampleAt(r, imuNext) = e THEN imuNext + 1 ELSE imuNext
      BY <1>7, ImuAtEpoch
    <2>2. n > 0 /\ NextAfter(imuNext, n)
      BY <1>1, <1>3, <1>7 DEF Covered
    <2> HIDE DEF e, r, after, n
    <2>3. CASE SampleAt(r, imuNext) = e
      <3>1. imuNext = n + Shift
        BY <1>1, <2>2, <2>3 DEF NextAfter, r
      <3>2. after = n + Shift + 1 /\ after = n + 1 + Shift
        BY <1>3, <1>4, <2>1, <2>3, <3>1
      <3>3. CASE SampleAt(r, imuNext + 1) # NoTime
        <4>1. ImuDue(e) /\ SampleAt(r, n + 1 + Shift) # NoTime
          BY <1>3, <1>4, <2>1, <2>3, <3>1, <3>2, <3>3
        <4>2. IncrementEnd(n + 1) = SampleAt(r, n + 1 - 1 + Shift) /\ n + 1 - 1 + Shift = imuNext
          BY <1>3, <1>4, <2>2, <3>1 DEF IncrementEnd, r
        <4> QED  BY <1>2, <2>3, <3>2, <4>1, <4>2 DEF e, r, after, n
      <3>4. CASE SampleAt(r, imuNext + 1) = NoTime
        <4>1. ~ImuDue(e) /\ SampleAt(r, n + Shift + 1) = NoTime
          BY <2>1, <3>1, <3>4
        <4>2. NextAfter(after, n)
          BY <3>2, <4>1 DEF NextAfter, r
        <4> QED  BY <1>2, <2>2, <4>1, <4>2 DEF e, r, after, n
      <3> QED  BY <3>3, <3>4
    <2>4. CASE SampleAt(r, imuNext) # e
      <3>1. ~ImuDue(e) /\ NextAfter(after, n)
        BY <2>1, <2>2, <2>4
      <3> QED  BY <1>2, <2>2, <3>1 DEF e, r, after, n
    <2> QED  BY <2>3, <2>4
  <1> QED  BY <1>1, <1>6, <1>7

\* A step that neither generates nor loses an increment keeps the tiling.
LEMMA CoveredKept ==
    ASSUME Timed, Covered, UNCHANGED sourceVars, stage' # "publish" \/ UNCHANGED stage,
           stage = "failed" => stage' = "failed",
           \/ imuLog' = imuLog /\ (stage' = "failed" \/ (stage' = "publish" <=> stage = "publish"))
           \/ imuLog' = Generated /\ stage' # "publish" /\ stage # "failed"
    PROVE  Covered'
  <1>1. /\ setup' = setup /\ now' = now /\ imuNext' = imuNext /\ index' = index
        /\ previous' = previous /\ prepared' = prepared
    BY DEF sourceVars
  <1>2. Tiling(imuLog', now)
    BY DEF Covered
  <1>3. Tiling(imuLog, now)'
    BY <1>1, <1>2 DEF Tiling, IncrementEnd, EndOf, Shift, SampleAt, FirstEpoch
  <1>4. ASSUME stage' # "failed" PROVE Generated' = Generated /\ stage # "failed"
    BY <1>1, <1>4 DEF Generated, HasIncrement
  <1>5. ASSUME stage' # "failed"
        PROVE  /\ Tiling(Generated, now)'
               /\ previous' = EndOf(Generated, Len(Generated))'
               /\ IF index' <= 1 THEN Generated' = <<>>
                  ELSE Len(Generated') > 0 /\ NextAfter(imuNext, Len(Generated))'
    <2>1. /\ Tiling(Generated, now) /\ previous = EndOf(Generated, Len(Generated))
          /\ IF index <= 1 THEN Generated = <<>>
             ELSE Len(Generated) > 0 /\ NextAfter(imuNext, Len(Generated))
      BY <1>4, <1>5 DEF Covered
    <2> DEFINE g == Generated
    <2>2. Generated' = g
      BY <1>4, <1>5
    <2> HIDE DEF g
    <2>3. Tiling(Generated, now)' <=> Tiling(g, now)
      BY <1>1, <2>2 DEF Tiling, IncrementEnd, EndOf, Shift, SampleAt, FirstEpoch
    <2>4. EndOf(Generated, Len(Generated))' = EndOf(g, Len(g))
      BY <1>1, <2>2 DEF EndOf
    <2>5. NextAfter(imuNext, Len(Generated))' <=> NextAfter(imuNext, Len(g))
      BY <1>1, <2>2 DEF NextAfter, Shift, SampleAt, FirstEpoch
    <2>6. g = Generated
      BY DEF g
    <2> QED  BY <1>1, <2>1, <2>2, <2>3, <2>4, <2>5, <2>6
  <1> QED  BY <1>3, <1>5 DEF Covered

\* Preparation generates at most the increment that comes next.
LEMMA PrepareKeepsCovered ==
    ASSUME Timed, Scheduled, Covered, Prepare
    PROVE  Covered'
  <1>1. stage = "prepare" /\ imuLog' = imuLog /\ previous <= now
    BY PreviousPast DEF Prepare
  <1>2. CASE stage' = "failed" /\ UNCHANGED sourceVars
    BY <1>1, <1>2, CoveredKept
  <1>3. CASE /\ stage = "prepare" /\ stage' = "publish" /\ setup' = setup
             /\ Requested # NoTime /\ now' = EpochTime /\ index' = index + 1
             /\ IF index > 0 THEN PrepareImu(EpochTime) ELSE UNCHANGED <<imuNext, previous>>
             /\ prepared' = [imu |-> IF index > 0 /\ ImuDue(EpochTime)
                                     THEN Interval(EpochTime) ELSE Blank,
                             sensors |-> Measured(EpochTime)]
    <2> DEFINE e == EpochTime
               x == Interval(e)
               due == index > 0 /\ ImuDue(e)
               n == Len(imuLog)
               grown == IF due THEN Append(imuLog, x) ELSE imuLog
    <2>1. /\ Configured /\ e \in Nat /\ now \in Nat /\ index \in Nat /\ now <= e /\ e < NoTime
          /\ setup.start \in Nat /\ setup.start <= now
      BY <1>3, EpochFacts DEF Timed
    <2>2. /\ Generated = imuLog /\ Tiling(imuLog, now) /\ previous = EndOf(imuLog, n)
          /\ IF index <= 1 THEN imuLog = <<>> ELSE n > 0 /\ NextAfter(imuNext, n)
      BY <1>1 DEF Covered, Generated
    <2>3. previous \in Nat /\ n \in Nat
      BY <1>1, <2>2, PreviousPast DEF Tiling
    <2>4. Tiling(imuLog, e)
      BY <2>1, <2>2, TilingLater
    <2>5. ASSUME due
          PROVE  /\ x \in Element /\ x # Blank /\ x.t = e /\ x.dt = e - previous /\ x.dt > 0
                 /\ Tiling(Append(imuLog, x), e) /\ Len(Append(imuLog, x)) = n + 1
                 /\ Append(imuLog, x)[n + 1] = x
                 /\ imuNext' = n + 1 + Shift /\ previous' = e
      <3>1. /\ previous < e /\ e = IncrementEnd(n + 1) /\ SampleAt(ImuRate(setup), n + 1 + Shift) # NoTime
            /\ NextDue(setup.start, ImuRate(setup), imuNext, e) = n + 1 + Shift
        BY <1>3, <2>5, IncrementAtEpoch
      <3>2. x = [t |-> e, dt |-> e - previous] /\ e - previous \in Nat \ {0}
        BY <2>1, <2>3, <3>1 DEF Interval
      <3>3. imuNext' = n + 1 + Shift /\ previous' = e
        BY <1>3, <2>5, <3>1 DEF PrepareImu
      <3> HIDE DEF e, x
      <3>4. x \in Element /\ x # Blank /\ x.t = e /\ x.dt = e - previous /\ x.dt > 0
        BY <2>1, <3>2 DEF Element, Blank
      <3> HIDE DEF n
      <3>5. /\ Tiling(Append(imuLog, x), e) /\ Len(Append(imuLog, x)) = n + 1
            /\ Append(imuLog, x)[n + 1] = x
        BY <2>1, <2>2, <2>4, <3>1, <3>4, TilingGrows DEF n
      <3> QED  BY <3>3, <3>4, <3>5
    <2>6. Generated' = grown
      <3>1. CASE due
        <4>1. prepared'.imu = x /\ stage' = "publish"
          BY <1>3, <3>1
        <4> QED  BY <1>1, <2>5, <3>1, <4>1 DEF Generated, HasIncrement
      <3>2. CASE ~due
        <4>1. prepared'.imu = Blank /\ stage' = "publish"
          BY <1>3, <3>2
        <4> QED  BY <1>1, <3>2, <4>1 DEF Generated, HasIncrement
      <3> QED  BY <3>1, <3>2
    <2>7. /\ Tiling(grown, e) /\ previous' = EndOf(grown, Len(grown))
          /\ IF index + 1 <= 1 THEN grown = <<>> ELSE Len(grown) > 0 /\ NextAfter(imuNext', Len(grown))
      <3>1. CASE due
        <4>1. grown = Append(imuLog, x) /\ Len(grown) = n + 1 /\ grown[n + 1] = x
          BY <2>5, <3>1
        <4>2. EndOf(grown, Len(grown)) = e /\ NextAfter(imuNext', Len(grown))
          BY <2>3, <2>5, <3>1, <4>1 DEF EndOf, NextAfter
        <4> QED  BY <2>1, <2>3, <2>5, <3>1, <4>1, <4>2
      <3>2. CASE ~due /\ index > 0
        <4>1. ~ImuDue(e) /\ previous' = previous
          BY <1>3, <3>2 DEF PrepareImu
        <4>2. n > 0 /\ NextAfter(imuNext', n)
          BY <1>3, <3>2, <4>1, IncrementAtEpoch DEF PrepareImu
        <4>3. grown = imuLog /\ Len(grown) = n
          BY <3>2
        <4> HIDE DEF grown
        <4> QED  BY <2>1, <2>2, <2>4, <3>2, <4>1, <4>2, <4>3
      <3>3. CASE ~due /\ index = 0
        <4>1. grown = imuLog /\ imuLog = <<>> /\ previous' = previous
          BY <1>3, <2>2, <3>3
        <4> QED  BY <2>2, <2>4, <3>3, <4>1
      <3> QED  BY <2>1, <3>1, <3>2, <3>3
    <2> HIDE DEF grown, e
    <2>8. now' = e /\ setup' = setup /\ imuLog' = imuLog /\ index' = index + 1
      BY <1>1, <1>3 DEF e
    <2>9. Tiling(imuLog, now)'
      BY <2>4, <2>8 DEF Tiling, IncrementEnd, EndOf, Shift, SampleAt, FirstEpoch
    <2>10. Tiling(Generated, now)'
      BY <2>6, <2>7, <2>8 DEF Tiling, IncrementEnd, EndOf, Shift, SampleAt, FirstEpoch
    <2>11. EndOf(Generated, Len(Generated))' = EndOf(grown, Len(grown))
      BY <2>6, <2>8 DEF EndOf
    <2>12. NextAfter(imuNext, Len(Generated))' <=> NextAfter(imuNext', Len(grown))
      BY <2>6, <2>8 DEF NextAfter, Shift, SampleAt, FirstEpoch
    <2> QED  BY <2>6, <2>7, <2>8, <2>9, <2>10, <2>11, <2>12 DEF Covered
  <1> QED  BY <1>1, <1>2, <1>3, PrepareEffect

\* The outcomes of a publication.
LEMMA PublishEffect ==
    ASSUME Publish
    PROVE  /\ stage = "publish" /\ UNCHANGED sourceVars
           /\ \/ HasIncrement(prepared) /\ imuLog' = Append(imuLog, prepared.imu) /\ rate' = now
              \/ ~(HasIncrement(prepared) /\ Accepts("imu")) /\ imuLog' = imuLog /\ rate' = rate
           /\ stage' = IF PublicationOk THEN "integrate" ELSE "failed"
           /\ PublicationOk => imuLog' = Generated /\ Reached = prepared.sensors
  <1>1. stage = "publish" /\ UNCHANGED sourceVars /\ stage' = IF PublicationOk THEN "integrate" ELSE "failed"
    BY DEF Publish
  <1>2. /\ rate' = IF HasIncrement(prepared) /\ Accepts("imu") THEN now ELSE rate
        /\ imuLog' = IF HasIncrement(prepared) /\ Accepts("imu") THEN Append(imuLog, prepared.imu) ELSE imuLog
    BY Zenon DEF Publish
  <1>3. ASSUME PublicationOk PROVE imuLog' = Generated
    BY <1>1, <1>2, <1>3, Zenon DEF PublicationOk, Generated
  <1>4. ASSUME PublicationOk PROVE Reached = prepared.sensors
    BY <1>4, Zenon DEF PublicationOk, Reached
  <1> QED  BY <1>1, <1>2, <1>3, <1>4, Zenon

\* Publication logs the increment that was generated, or fails.
LEMMA PublishKeepsCovered ==
    ASSUME Timed, Covered, Publish
    PROVE  Covered'
  <1>1. /\ stage = "publish" /\ UNCHANGED sourceVars /\ stage' \in {"integrate", "failed"}
        /\ imuLog' = Generated \/ (imuLog' = imuLog /\ stage' = "failed")
    <2>1. \/ imuLog' = Generated
          \/ imuLog' = imuLog /\ ~PublicationOk
      BY PublishEffect, Zenon DEF Generated
    <2> QED  BY <2>1, PublishEffect
  <1> QED  BY <1>1, CoveredKept

\* The Navigator leaves the source and its logs alone.
LEMMA NavigatorEffect ==
    ASSUME IntegratePair \/ IntegrateSingle \/ UpdateNavigator
    PROVE  /\ stage = "integrate" /\ UNCHANGED sourceVars /\ UNCHANGED <<rate, imuLog, gnssLog>>
           /\ \/ stage' \in {"failed", stage}
              \/ stage' = IF Terminal THEN "finished" ELSE "prepare"
  BY DEF IntegratePair, IntegrateSingle, UpdateNavigator

\* Times, schedules and increments together.
TimeInv == Timed /\ Scheduled /\ Covered

\* Every step keeps epochs, schedules and increments.
LEMMA TimeStep ==
    ASSUME TimeInv, [PipelineNext]_pipelineVars
    PROVE  TimeInv'
  <1>1. CASE Prepare
    <2>1. previous <= now
      BY <1>1, PreviousPast DEF TimeInv, Prepare
    <2> QED  BY <1>1, <2>1, PrepareKeepsTime, PrepareKeepsCovered DEF TimeInv
  <1>2. CASE Publish
    <2>1. stage = "publish" /\ UNCHANGED sourceVars /\ stage' \in {"integrate", "failed"}
      BY <1>2, PublishEffect
    <2> QED  BY <1>2, <2>1, OthersKeepTime, PublishKeepsCovered DEF TimeInv
  <1>3. CASE IntegratePair \/ IntegrateSingle \/ UpdateNavigator
    <2>1. /\ stage = "integrate" /\ UNCHANGED sourceVars /\ imuLog' = imuLog
          /\ \/ stage' \in {"failed", stage}
             \/ stage' = IF Terminal THEN "finished" ELSE "prepare"
      BY <1>3, NavigatorEffect
    <2>2. Timed' /\ Scheduled'
      BY <2>1, OthersKeepTime DEF TimeInv
    <2>3. stage' \in {"failed", "integrate", "finished", "prepare"}
      BY <2>1
    <2>4. Covered'
      BY <2>1, <2>3, CoveredKept DEF TimeInv
    <2> QED  BY <2>2, <2>4 DEF TimeInv
  <1>4. CASE UNCHANGED pipelineVars
    <2>1. UNCHANGED sourceVars /\ stage' = stage /\ imuLog' = imuLog
      BY <1>4 DEF pipelineVars, sourceVars
    <2> QED  BY <2>1, OthersKeepTime, CoveredKept DEF TimeInv
  <1> QED  BY <1>1, <1>2, <1>3, <1>4 DEF PipelineNext

\* Every epoch is a time of the application's grid or the end, no schedule has passed
\* a sample over, and the increments tile the time up to the last sample
\* (ApplicationTimeline, RationalSchedule::due(), ImuSimulator::interval_from_truth_ecef()).
THEOREM TimesFollowSchedules == PipelineSpec => []TimeInv
  <1>1. PipelineInit => TimeInv
    BY TimeInit, CoveredInit DEF TimeInv
  <1>2. TimeInv /\ [PipelineNext]_pipelineVars => TimeInv'
    BY TimeStep
  <1> QED  BY <1>1, <1>2, PTL DEF PipelineSpec

\* An IMU as fast as the application takes a sample at every epoch.
LEMMA SameRateSamples ==
    ASSUME Configured, IsIntegerMultiple(ImuRate(setup), AppRate(setup)), NEW k \in Nat
    PROVE  SampleAt(ImuRate(setup), k) = AppTime(k)
  <1> DEFINE f == AppRate(setup)
             g == ImuRate(setup)
  <1>1. GridRate(f) /\ GridRate(g) /\ IsIntegerMultiple(f, g) /\ IsIntegerMultiple(g, f) /\ setup.start \in Nat
    BY SetupFacts
  <1> HIDE DEF f, g
  <1>2. PICK m \in Nat \ {0} : f.samples * g.s = m * (g.samples * f.s)
    BY <1>1, MultipleMeans DEF GridRate
  <1>3. PICK p \in Nat \ {0} : g.samples * f.s = p * (f.samples * g.s)
    BY <1>1, MultipleMeans DEF GridRate
  <1>4. m = 1
    <2> DEFINE a == f.samples * g.s
               b == g.samples * f.s
    <2>1. f.samples \in Nat \ {0} /\ f.s \in Nat \ {0} /\ g.samples \in Nat \ {0} /\ g.s \in Nat \ {0}
      BY <1>1 DEF GridRate, SampleRate
    <2>2. a \in Nat \ {0} /\ b \in Nat \ {0}
      BY <2>1
    <2>3. a = m * b /\ b = p * a
      BY <1>2, <1>3
    <2> HIDE DEF a, b
    <2>4. b <= a /\ a <= b
      <3>1. 1 * b <= m * b /\ 1 * a <= p * a
        BY <2>2
      <3> QED  BY <2>2, <2>3, <3>1
    <2>5. ASSUME m > 1 PROVE FALSE
      <3>1. 2 * b <= m * b
        BY <2>2, <2>5
      <3> QED  BY <2>2, <2>3, <2>4, <3>1
    <2> QED  BY <2>5
  <1>5. TimestampAt(setup.start, g, k) = TimestampAt(setup.start, f, 1 * k)
    BY <1>1, <1>2, <1>4, CommonSamples
  <1> QED  BY <1>5 DEF SampleAt, AppTime, f, g

\* The times of a grid up to t are those of the indices before the schedule's next.
LEMMA GridMembers ==
    ASSUME Configured, NEW r \in SensorRates, NEW next, NEW t \in setup.start..setup.end, FirstAfter(r, next, t)
    PROVE  GridUpTo(r, t) = {SampleAt(r, k) : k \in {k \in 0..(next - 1) : SampleAt(r, k + 1) # NoTime}}
  <1>1. setup.start \in Nat /\ setup.end \in Nat /\ MaxIndex \in Nat /\ setup.end < SampleAt(r, MaxIndex)
    BY Samples, SetupFacts DEF SensorRates
  <1>2. /\ \A k \in Nat : SampleAt(r, k) \in Nat
        /\ \A j, k \in Nat : j <= k => SampleAt(r, j) <= SampleAt(r, k)
    BY Samples DEF SensorRates
  <1>3. ASSUME NEW k \in Nat
        PROVE  (k \in 0..(MaxIndex - 1) /\ SampleAt(r, k) <= t) <=> k \in 0..(next - 1)
    <2>1. next \in Nat /\ SampleAt(r, next) > t /\ \A j \in 0..(next - 1) : SampleAt(r, j) <= t
      BY DEF FirstAfter
    <2>2. t \in Nat /\ t < SampleAt(r, MaxIndex)
      BY <1>1, <1>2
    <2>3. k \in 0..(next - 1) => SampleAt(r, k) <= t /\ k < MaxIndex
      <3> SUFFICES ASSUME k \in 0..(next - 1) PROVE SampleAt(r, k) <= t /\ k < MaxIndex
        OBVIOUS
      <3>1. SampleAt(r, k) <= t
        BY <2>1
      <3>2. ~(MaxIndex <= k)
        BY <1>1, <1>2, <2>2, <3>1
      <3> QED  BY <1>1, <3>1, <3>2
    <2>4. SampleAt(r, k) <= t => k < next
      BY <1>2, <2>1, <2>2
    <2> QED  BY <1>1, <2>1, <2>3, <2>4
  <1>4. GridUpTo(r, t) = {SampleAt(r, k) : k \in {k \in 0..(MaxIndex - 1) :
                              SampleAt(r, k) <= t /\ SampleAt(r, k + 1) # NoTime}}
    BY DEF GridUpTo, SampleAt
  <1>5. {k \in 0..(MaxIndex - 1) : SampleAt(r, k) <= t /\ SampleAt(r, k + 1) # NoTime}
            = {k \in 0..(next - 1) : SampleAt(r, k + 1) # NoTime}
    BY <1>3
  <1> QED  BY <1>4, <1>5

\* Neighbouring increments differ by a nanosecond at most, past the start.
LEMMA EvenIncrements ==
    ASSUME Configured, NEW seq, NEW u \in setup.start..setup.end, Tiling(seq, u), NEW i \in 2..Len(seq),
           i >= 4 \/ IsIntegerMultiple(ImuRate(setup), AppRate(setup))
    PROVE  Abs(seq[i].dt - seq[i - 1].dt) <= 1
  <1> DEFINE r == ImuRate(setup)
             h == i + Shift - 3
  <1>1. /\ setup.start \in Nat /\ setup.end \in Nat /\ setup.end < NoTime /\ NoTime \in Nat /\ GridRate(r)
        /\ u \in Nat /\ u <= setup.end
    BY SetupFacts
  <1>2. /\ \A k \in Nat : SampleAt(r, k) \in Nat /\ SampleAt(r, k) <= NoTime
        /\ \A j, k \in Nat : j <= k => SampleAt(r, j) <= SampleAt(r, k)
        /\ SampleAt(r, 0) = setup.start
    BY Samples
  <1>3. seq \in Seq(Element) /\ Len(seq) \in Nat /\ i \in Nat /\ i >= 2 /\ i <= Len(seq)
    BY DEF Tiling
  <1>4. Shift \in {0, 1}
    BY DEF Shift
  <1>5. \A j \in 1..Len(seq) :
            /\ seq[j].t = IncrementEnd(j) /\ seq[j].t <= u
            /\ seq[j].dt = seq[j].t - EndOf(seq, j - 1)
            /\ SampleAt(r, j + Shift) # NoTime
    BY DEF Tiling
  <1>6. i >= 4 \/ Shift = 1
    <2> SUFFICES ASSUME IsIntegerMultiple(ImuRate(setup), AppRate(setup)), Shift # 1 PROVE FALSE
      OBVIOUS
    <2>1. SampleAt(r, 1) = AppTime(1)
      BY SameRateSamples
    <2>2. SampleAt(r, 1) # FirstEpoch
      BY DEF Shift
    <2>3. AppTime(1) > setup.end
      BY <2>1, <2>2 DEF FirstEpoch, AppTime, SampleAt
    <2>4. 2 \in 1..Len(seq) /\ Shift = 0
      BY <1>3, <1>4
    <2>5. seq[2].t = SampleAt(r, 1)
      BY <1>5, <2>4 DEF IncrementEnd
    <2>6. seq[2].t <= u
      BY <1>5, <2>4
    <2>7. SampleAt(r, 1) > setup.end /\ SampleAt(r, 1) <= u
      BY <2>1, <2>3, <2>5, <2>6
    <2> HIDE DEF r
    <2>8. SampleAt(r, 1) \in Nat
      BY <1>2
    <2> QED  BY <1>1, <2>7, <2>8
  <1> HIDE DEF r
  <1>7. h \in Nat /\ h + 2 = i + Shift - 1
    BY <1>3, <1>4, <1>6
  <1>8. seq[i].t = SampleAt(r, h + 2)
    BY <1>3, <1>4, <1>5, <1>7 DEF IncrementEnd, r
  <1>9. seq[i - 1].t = SampleAt(r, h + 1)
    <2>1. i - 1 \in 1..Len(seq)
      BY <1>3
    <2>2. CASE i = 2
      <3>1. Shift = 1 /\ h + 1 = 1
        BY <1>3, <1>6, <2>2
      <3>2. FirstEpoch = SampleAt(r, 1)
        BY <3>1 DEF Shift, r
      <3> QED  BY <1>5, <2>1, <2>2, <3>1, <3>2 DEF IncrementEnd
    <2>3. CASE i > 2
      <3>1. i - 1 # 1 /\ i - 1 - 1 + Shift = h + 1
        BY <1>3, <1>4, <2>3
      <3> QED  BY <1>5, <2>1, <3>1 DEF IncrementEnd, r
    <2> QED  BY <1>3, <2>2, <2>3
  <1>10. EndOf(seq, i - 2) = SampleAt(r, h)
    <2>1. CASE i = 2
      <3>1. h = 0 /\ i - 2 = 0
        BY <1>3, <1>6, <2>1
      <3> QED  BY <1>2, <3>1 DEF EndOf
    <2>2. CASE i = 3
      <3>1. Shift = 1 /\ h = 1 /\ i - 2 = 1 /\ 1 \in 1..Len(seq)
        BY <1>3, <1>6, <2>2
      <3>2. FirstEpoch = SampleAt(r, 1)
        BY <3>1 DEF Shift, r
      <3>3. EndOf(seq, i - 2) = IncrementEnd(1)
        BY <1>5, <3>1 DEF EndOf
      <3> QED  BY <3>1, <3>2, <3>3 DEF IncrementEnd
    <2>3. CASE i > 3
      <3>1. i - 2 \in 1..Len(seq) /\ i - 2 # 0 /\ i - 2 # 1 /\ i - 2 - 1 + Shift = h
        BY <1>3, <1>4, <2>3
      <3>2. EndOf(seq, i - 2) = IncrementEnd(i - 2)
        BY <1>5, <3>1 DEF EndOf
      <3> QED  BY <3>1, <3>2 DEF IncrementEnd, r
    <2> QED  BY <1>3, <2>1, <2>2, <2>3
  <1>11. /\ seq[i].dt = SampleAt(r, h + 2) - SampleAt(r, h + 1)
         /\ seq[i - 1].dt = SampleAt(r, h + 1) - SampleAt(r, h)
    <2>1. i \in 1..Len(seq) /\ i - 1 \in 1..Len(seq) /\ i - 1 # 0 /\ i - 1 - 1 = i - 2
      BY <1>3
    <2>2. seq[i].dt = seq[i].t - EndOf(seq, i - 1) /\ seq[i - 1].dt = seq[i - 1].t - EndOf(seq, i - 2)
      BY <1>5, <2>1
    <2>3. EndOf(seq, i - 1) = seq[i - 1].t
      BY <2>1 DEF EndOf
    <2> QED  BY <1>8, <1>9, <1>10, <2>2, <2>3
  <1>12. SampleAt(r, h + 2) # NoTime /\ SampleAt(r, h + 1) # NoTime
    <2>1. SampleAt(r, h + 2) <= u
      BY <1>3, <1>5, <1>8
    <2>2. h + 1 \in Nat /\ h + 2 \in Nat /\ h + 1 <= h + 2
      BY <1>7
    <2> HIDE DEF h
    <2>3. SampleAt(r, h + 1) <= SampleAt(r, h + 2)
      BY <1>2, <2>2
    <2>4. SampleAt(r, h + 1) \in Nat /\ SampleAt(r, h + 2) \in Nat
      BY <1>2, <2>2
    <2> QED  BY <1>1, <2>1, <2>3, <2>4
  <1> HIDE DEF h
  <1>13. /\ (SampleAt(r, h + 2) - SampleAt(r, h + 1)) - (SampleAt(r, h + 1) - SampleAt(r, h)) <= 1
         /\ (SampleAt(r, h + 1) - SampleAt(r, h)) - (SampleAt(r, h + 2) - SampleAt(r, h + 1)) <= 1
    <2>1. /\ TimestampAt(setup.start, r, h + 1) # NoTime /\ TimestampAt(setup.start, r, (h + 1) + 1) # NoTime
          /\ (h + 1) + 1 = h + 2 /\ h + 1 \in Nat
      BY <1>7, <1>12 DEF SampleAt
    <2>2. (TimestampAt(setup.start, r, (h + 1) + 1) - TimestampAt(setup.start, r, h + 1))
             - (TimestampAt(setup.start, r, h + 1) - TimestampAt(setup.start, r, h)) <= 1
      BY <1>1, <1>7, <2>1, EvenPeriods
    <2>3. (TimestampAt(setup.start, r, h + 1) - TimestampAt(setup.start, r, h))
             - (TimestampAt(setup.start, r, (h + 1) + 1) - TimestampAt(setup.start, r, h + 1)) <= 1
      BY <1>1, <1>7, <2>1, EvenPeriods
    <2> QED  BY <2>1, <2>2, <2>3 DEF SampleAt
  <1>14. SampleAt(r, h) \in Nat /\ SampleAt(r, h + 1) \in Nat /\ SampleAt(r, h + 2) \in Nat
    <2>1. h + 1 \in Nat /\ h + 2 \in Nat
      BY <1>7
    <2> QED  BY <1>2, <1>7, <2>1
  <1> QED  BY <1>11, <1>13, <1>14 DEF Abs

\* The ends of the increments are the times of the IMU's grid.
LEMMA IncrementsOnGrid ==
    ASSUME TimeInv, stage \in {"integrate", "finished"}, index > 1
    PROVE  {imuLog[i].t : i \in DOMAIN imuLog} =
              (GridUpTo(ImuRate(setup), now) \ {setup.start}) \cup {FirstEpoch}
  <1> DEFINE r == ImuRate(setup)
             n == Len(imuLog)
             I == {k \in 0..(imuNext - 1) : SampleAt(r, k + 1) # NoTime}
  <1>1. /\ Configured /\ index \in Nat /\ now \in setup.start..setup.end
        /\ Generated = imuLog /\ Tiling(imuLog, now) /\ n > 0 /\ NextAfter(imuNext, n)
        /\ FirstAfter(r, imuNext, now) /\ imuNext \in Nat
    BY DEF TimeInv, Timed, Scheduled, Covered, Generated
  <1>2. setup.start \in Nat /\ setup.end \in Nat /\ setup.end < NoTime /\ NoTime \in Nat
    BY <1>1, SetupFacts
  <1>3. /\ \A k \in Nat : SampleAt(r, k) \in Nat /\ SampleAt(r, k) <= NoTime
        /\ \A j, k \in Nat : j <= k => SampleAt(r, j) <= SampleAt(r, k)
        /\ \A j, k \in Nat : j < k /\ SampleAt(r, j) # NoTime => SampleAt(r, j) < SampleAt(r, k)
        /\ SampleAt(r, 0) = setup.start
    BY <1>1, Samples
  <1>4. GridUpTo(r, now) = {SampleAt(r, k) : k \in I}
    BY <1>1, GridMembers DEF SensorRates
  <1>5. imuLog \in Seq(Element) /\ n \in Nat /\ DOMAIN imuLog = 1..n /\ Shift \in {0, 1}
    BY <1>1 DEF Tiling, Shift
  <1>6. \A i \in 1..n : imuLog[i].t = IncrementEnd(i) /\ SampleAt(r, i + Shift) # NoTime
                     /\ imuLog[i].dt = imuLog[i].t - EndOf(imuLog, i - 1) /\ imuLog[i].dt > 0
    BY <1>1 DEF Tiling
  <1>7. FirstEpoch # setup.start
    <2>1. 1 \in 1..n
      BY <1>1, <1>5
    <2>2. imuLog[1].t = FirstEpoch /\ imuLog[1] \in Element
      BY <1>5, <1>6, <2>1 DEF IncrementEnd
    <2>3. EndOf(imuLog, 1 - 1) = setup.start
      BY DEF EndOf
    <2>4. imuLog[1].t - setup.start > 0 /\ imuLog[1].t \in Nat
      BY <1>6, <2>1, <2>2, <2>3 DEF Element
    <2> QED  BY <1>2, <2>2, <2>4
  <1> HIDE DEF r, n
  <1>8. I = 0..(n + Shift - 1)
    <2>1. ASSUME NEW k \in 0..(n + Shift - 1) PROVE SampleAt(r, k + 1) # NoTime
      <3>1. n \in 1..n /\ SampleAt(r, n + Shift) # NoTime
        BY <1>1, <1>5, <1>6
      <3>2. k + 1 \in Nat /\ n + Shift \in Nat /\ k + 1 <= n + Shift
        BY <1>5
      <3>3. SampleAt(r, k + 1) <= SampleAt(r, n + Shift)
        BY <1>3, <3>2
      <3> QED  BY <1>2, <1>3, <3>1, <3>2, <3>3
    <2>2. CASE imuNext = n + Shift
      BY <1>5, <2>1, <2>2
    <2>3. CASE imuNext = n + Shift + 1 /\ SampleAt(r, n + Shift + 1) = NoTime
      <3>1. \A k \in 0..(imuNext - 1) : k \in 0..(n + Shift - 1) \/ k = n + Shift
        BY <1>5, <2>3
      <3> QED  BY <1>5, <2>1, <2>3, <3>1
    <2> QED  BY <1>1, <2>2, <2>3 DEF NextAfter, r
  <1> HIDE DEF I
  <1>9. ASSUME NEW t \in {imuLog[i].t : i \in DOMAIN imuLog}
        PROVE  t \in (GridUpTo(r, now) \ {setup.start}) \cup {FirstEpoch}
    <2>1. PICK i \in 1..n : t = imuLog[i].t
      BY <1>5
    <2>2. t = IncrementEnd(i)
      BY <1>6, <2>1
    <2>3. CASE i = 1
      BY <2>2, <2>3 DEF IncrementEnd
    <2>4. CASE i # 1
      <3> DEFINE k == i - 1 + Shift
      <3>1. k \in I /\ k \in Nat /\ 0 < k
        BY <1>5, <1>8, <2>4
      <3>2. t = SampleAt(r, k)
        BY <2>2, <2>4 DEF IncrementEnd, r
      <3> HIDE DEF k
      <3>3. t # setup.start
        BY <1>1, <1>2, <1>3, <3>1, <3>2
      <3> QED  BY <1>4, <3>1, <3>2, <3>3
    <2> QED  BY <2>3, <2>4
  <1>10. ASSUME NEW t \in (GridUpTo(r, now) \ {setup.start}) \cup {FirstEpoch}
         PROVE  t \in {imuLog[i].t : i \in DOMAIN imuLog}
    <2>1. 1 \in 1..n /\ imuLog[1].t = FirstEpoch
      BY <1>1, <1>5, <1>6 DEF IncrementEnd
    <2>2. CASE t = FirstEpoch
      BY <1>5, <2>1, <2>2
    <2>3. CASE t # FirstEpoch
      <3>1. PICK k \in I : t = SampleAt(r, k) /\ t # setup.start
        BY <1>4, <2>3
      <3>2. k # 0 /\ k \in 0..(n + Shift - 1)
        BY <1>3, <1>8, <3>1
      <3>3. ~(k = 1 /\ Shift = 1)
        BY <2>3, <3>1 DEF Shift, r
      <3> DEFINE i == k + 1 - Shift
      <3>4. i \in 2..n /\ i - 1 + Shift = k
        BY <1>5, <3>2, <3>3
      <3>5. i \in 1..n /\ i # 1
        BY <3>4
      <3>6. imuLog[i].t = t
        BY <1>6, <3>1, <3>4, <3>5 DEF IncrementEnd, r
      <3> QED  BY <1>5, <3>5, <3>6
    <2> QED  BY <2>2, <2>3
  <1> QED  BY <1>9, <1>10 DEF r

\* Increments that tile satisfy the property.
LEMMA TilesAreCovered == TimeInv => IncrementsTile
  <1> SUFFICES ASSUME TimeInv PROVE IncrementsTile
    OBVIOUS
  <1>1. Configured /\ now \in setup.start..setup.end /\ Tiling(imuLog, now)
    BY DEF TimeInv, Timed, Covered
  <1>2. imuLog \in Seq(Element) /\ DOMAIN imuLog = 1..Len(imuLog) /\ Len(imuLog) \in Nat
    BY <1>1 DEF Tiling
  <1>3. ASSUME NEW i \in DOMAIN imuLog
        PROVE  imuLog[i].dt = imuLog[i].t - (IF i = 1 THEN setup.start ELSE imuLog[i - 1].t)
    <2>1. imuLog[i].dt = imuLog[i].t - EndOf(imuLog, i - 1)
      BY <1>1, <1>2 DEF Tiling
    <2>2. EndOf(imuLog, i - 1) = IF i = 1 THEN setup.start ELSE imuLog[i - 1].t
      BY <1>2 DEF EndOf
    <2> QED  BY <2>1, <2>2
  <1>4. ASSUME NEW i \in (IF IsIntegerMultiple(ImuRate(setup), AppRate(setup)) THEN 2 ELSE 4)..Len(imuLog)
        PROVE  Abs(imuLog[i].dt - imuLog[i - 1].dt) <= 1
    <2>1. i \in 2..Len(imuLog) /\ (i >= 4 \/ IsIntegerMultiple(ImuRate(setup), AppRate(setup)))
      BY <1>2
    <2> QED  BY <1>1, <2>1, EvenIncrements
  <1>5. ASSUME stage \in {"integrate", "finished"}, index > 1
        PROVE  {imuLog[i].t : i \in DOMAIN imuLog} =
                  (GridUpTo(ImuRate(setup), now) \ {setup.start}) \cup {FirstEpoch}
    BY <1>5, IncrementsOnGrid
  <1> QED  BY <1>3, <1>4, <1>5 DEF IncrementsTile

\* The increments the Navigator gets cover the time without gap or overlap, end at the
\* times of the IMU's grid, and a pair of them is even enough to be compensated
\* (ImuRuntime::prepare(), corrected_interval_from_pair()).
THEOREM IncrementsAlwaysTile == PipelineSpec => []IncrementsTile
  BY TimesFollowSchedules, TilesAreCovered, PTL

-----------------------------------------------------------------------------
(* The receivers *)

\* The times of a sensor's measurements, and that of the one to be published.
Times(s) == {gnssLog[s][i].t : i \in DOMAIN gnssLog[s]}
Waiting(s) == IF stage = "publish" /\ s \in prepared.sensors THEN {now} ELSE {}

\* The times of the receivers' grid before index n.
GridBefore(n) ==
    {SampleAt(GnssRate(setup), k) : k \in {k \in 0..(n - 1) : SampleAt(GnssRate(setup), k + 1) # NoTime}}

\* A measurement in the log.
Measurement == [t : Nat, rate : Nat \cup {-1}]

\* The measurements so far are those of the grid before the schedule's next index that
\* fall into the active windows, in their order.
Received ==
    /\ prepared.sensors \subseteq Sensors
    /\ rate \in Nat \cup {-1}
    /\ gnssLog \in [Sensors -> Seq(Measurement)]
    /\ \A s \in Sensors :
          /\ \A t \in Times(s) : t <= now
          /\ stage # "failed" =>
                /\ stage = "publish" => \A t \in Times(s) : t < now
                /\ \A i, j \in DOMAIN gnssLog[s] : i < j => gnssLog[s][i].t < gnssLog[s][j].t
                /\ Times(s) \cup Waiting(s) = {t \in GridBefore(gnss[s].next) : Available(setup.start, t)}

\* The angular rate is that of the newest increment.
RateFollows ==
    /\ stage = "publish" /\ HasIncrement(prepared) => prepared.imu.t = now
    /\ \A j \in DOMAIN imuLog : imuLog[j].t <= rate
    /\ \A i \in DOMAIN gnssLog["velocity"] : \A j \in DOMAIN imuLog :
          imuLog[j].t <= gnssLog["velocity"][i].t => imuLog[j].t <= gnssLog["velocity"][i].rate

\* No measurement is generated at first.
LEMMA ReceivedInit == PipelineInit => Received /\ RateFollows
  <1> SUFFICES ASSUME PipelineInit PROVE Received /\ RateFollows
    OBVIOUS
  <1>1. /\ stage = "prepare" /\ prepared = [imu |-> Blank, sensors |-> {}] /\ rate = -1 /\ imuLog = <<>>
        /\ gnssLog = [s \in Sensors |-> <<>>] /\ gnss = [s \in Sensors |-> [start |-> -1, next |-> 0]]
    BY DEF PipelineInit, Nothing
  <1>2. DOMAIN <<>> = {}
    OBVIOUS
  <1>3. \A s \in Sensors : gnssLog[s] = <<>> /\ DOMAIN gnssLog[s] = {} /\ gnss[s].next = 0
    BY <1>1, <1>2
  <1>4. \A s \in Sensors : Times(s) = {} /\ Waiting(s) = {}
    BY <1>1, <1>3 DEF Times, Waiting
  <1>5. GridBefore(0) = {}
    BY DEF GridBefore
  <1>6. gnssLog \in [Sensors -> Seq(Measurement)]
    BY <1>1
  <1>7. \A s \in Sensors :
          Times(s) \cup Waiting(s) = {t \in GridBefore(gnss[s].next) : Available(setup.start, t)}
    BY <1>3, <1>4, <1>5
  <1>8. Received
    BY <1>1, <1>3, <1>4, <1>6, <1>7 DEF Received
  <1>9. RateFollows
    BY <1>1, <1>2 DEF RateFollows
  <1> QED  BY <1>8, <1>9

\* One more index.
LEMMA GridGrows ==
    ASSUME NEW n \in Nat
    PROVE  GridBefore(n + 1) = GridBefore(n) \cup
              (IF SampleAt(GnssRate(setup), n + 1) # NoTime THEN {SampleAt(GnssRate(setup), n)} ELSE {})
  <1>1. \A k : k \in 0..(n + 1 - 1) <=> k \in 0..(n - 1) \/ k = n
    OBVIOUS
  <1> QED  BY <1>1 DEF GridBefore

\* The log of a sensor after a publication.
LEMMA SensorPublished ==
    ASSUME Timed, Received, Publish, NEW s \in Sensors
    PROVE  LET m == IF s = "position" THEN PositionMeasurement ELSE VelocityMeasurement
           IN  /\ gnssLog'[s] = IF s \in Reached THEN Append(gnssLog[s], m) ELSE gnssLog[s]
               /\ m.t = now
  <1> DEFINE P == IF "position" \in Reached THEN Append(gnssLog.position, PositionMeasurement) ELSE gnssLog.position
             V == IF "velocity" \in Reached THEN Append(gnssLog.velocity, VelocityMeasurement) ELSE gnssLog.velocity
  <1>1. gnssLog' = [position |-> P, velocity |-> V]
    BY Zenon DEF Publish, PublishMeasurements
  <1>2. PositionMeasurement.t = now /\ VelocityMeasurement.t = now
    BY DEF PositionMeasurement, VelocityMeasurement
  <1> HIDE DEF P, V
  <1>3. gnssLog'["position"] = P /\ gnssLog'["velocity"] = V
    BY <1>1
  <1>4. s \in {"position", "velocity"}
    BY DEF Sensors
  <1>5. CASE s = "position"
    BY <1>2, <1>3, <1>5 DEF P
  <1>6. CASE s = "velocity"
    BY <1>2, <1>3, <1>6 DEF V
  <1> QED  BY <1>4, <1>5, <1>6

\* A log with one more measurement.
LEMMA LogGrows ==
    ASSUME NEW seq \in Seq(Measurement), NEW m \in Measurement
    PROVE  LET all == Append(seq, m)
           IN  /\ all \in Seq(Measurement)
               /\ DOMAIN all = DOMAIN seq \cup {Len(seq) + 1} /\ DOMAIN seq = 1..Len(seq) /\ Len(seq) \in Nat
               /\ all[Len(seq) + 1] = m /\ \A i \in DOMAIN seq : all[i] = seq[i]
               /\ {all[i].t : i \in DOMAIN all} = {seq[i].t : i \in DOMAIN seq} \cup {m.t}
  <1> DEFINE all == Append(seq, m)
             n == Len(seq)
  <1>1. /\ all \in Seq(Measurement) /\ Len(all) = n + 1 /\ all[n + 1] = m /\ n \in Nat
        /\ \A i \in 1..n : all[i] = seq[i]
    BY AppendProperties
  <1>2. DOMAIN all = 1..(n + 1) /\ DOMAIN seq = 1..n
    BY <1>1
  <1> HIDE DEF all, n
  <1>3. 1..(n + 1) = 1..n \cup {n + 1}
    BY <1>1
  <1>4. {all[i].t : i \in DOMAIN all} = {seq[i].t : i \in DOMAIN seq} \cup {m.t}
    BY <1>1, <1>2, <1>3
  <1> QED  BY <1>1, <1>2, <1>3, <1>4 DEF all, n

\* A measurement that is published is later than those before it.
LEMMA LogAtPublication ==
    ASSUME Timed, Received, Publish, NEW s \in Sensors, rate' \in Nat \cup {-1}
    PROVE  /\ gnssLog'[s] \in Seq(Measurement)
           /\ Times(s)' = Times(s) \cup (IF s \in Reached THEN {now} ELSE {})
           /\ \A i, j \in DOMAIN gnssLog'[s] : i < j => gnssLog'[s][i].t < gnssLog'[s][j].t
           /\ \A i \in DOMAIN gnssLog'[s] :
                 \/ i \in DOMAIN gnssLog[s] /\ gnssLog'[s][i] = gnssLog[s][i] /\ gnssLog[s][i].t < now
                 \/ s = "velocity" /\ gnssLog'[s][i].rate = rate'
                 \/ s = "position"
  <1> DEFINE m == IF s = "position" THEN PositionMeasurement ELSE VelocityMeasurement
             seq == gnssLog[s]
  <1>1. gnssLog'[s] = (IF s \in Reached THEN Append(seq, m) ELSE seq) /\ m.t = now
    BY SensorPublished
  <1>2. now \in Nat /\ stage = "publish"
    BY SetupFacts DEF Timed, Publish
  <1>3. /\ seq \in Seq(Measurement) /\ \A i \in DOMAIN seq : seq[i].t < now
        /\ \A i, j \in DOMAIN seq : i < j => seq[i].t < seq[j].t
    <2>1. seq \in Seq(Measurement)
      BY DEF Received
    <2>2. \A t \in Times(s) : t < now
      BY <1>2 DEF Received
    <2>3. \A i, j \in DOMAIN seq : i < j => seq[i].t < seq[j].t
      BY <1>2 DEF Received
    <2> QED  BY <2>1, <2>2, <2>3 DEF Times
  <1>4. m \in Measurement /\ (s = "velocity" => m.rate = rate')
    BY <1>2 DEF PositionMeasurement, VelocityMeasurement, RateInContext, Measurement
  <1>5. s \in {"position", "velocity"}
    BY DEF Sensors
  <1>6. Times(s) = {seq[i].t : i \in DOMAIN seq} /\ Times(s)' = {gnssLog'[s][i].t : i \in DOMAIN gnssLog'[s]}
    BY DEF Times
  <1> HIDE DEF m, seq
  <1>7. CASE s \notin Reached
    <2>1. gnssLog'[s] = seq
      BY <1>1, <1>7
    <2> QED  BY <1>3, <1>6, <1>7, <2>1 DEF seq
  <1>8. CASE s \in Reached
    <2> DEFINE all == Append(seq, m)
    <2>1. gnssLog'[s] = all
      BY <1>1, <1>8
    <2>2. /\ all \in Seq(Measurement)
          /\ DOMAIN all = DOMAIN seq \cup {Len(seq) + 1} /\ DOMAIN seq = 1..Len(seq) /\ Len(seq) \in Nat
          /\ all[Len(seq) + 1] = m /\ \A i \in DOMAIN seq : all[i] = seq[i]
          /\ {all[i].t : i \in DOMAIN all} = {seq[i].t : i \in DOMAIN seq} \cup {m.t}
      BY <1>3, <1>4, LogGrows
    <2> HIDE DEF all
    <2>3. Times(s)' = Times(s) \cup {now}
      <3>1. {gnssLog'[s][i].t : i \in DOMAIN gnssLog'[s]} = {all[i].t : i \in DOMAIN all}
        BY <2>1
      <3>2. {all[i].t : i \in DOMAIN all} = {seq[i].t : i \in DOMAIN seq} \cup {now}
        BY <1>1, <2>2
      <3> QED  BY <1>6, <3>1, <3>2, Zenon
    <2>4. ASSUME NEW i \in DOMAIN all, NEW j \in DOMAIN all, i < j PROVE all[i].t < all[j].t
      <3>1. i \in DOMAIN seq
        BY <2>2, <2>4
      <3>2. CASE j \in DOMAIN seq
        BY <1>3, <2>2, <2>4, <3>1, <3>2
      <3>3. CASE j = Len(seq) + 1
        BY <1>1, <1>3, <2>2, <3>1, <3>3
      <3> QED  BY <2>2, <3>2, <3>3
    <2>5. ASSUME NEW i \in DOMAIN all
          PROVE  \/ i \in DOMAIN seq /\ all[i] = seq[i] /\ seq[i].t < now
                 \/ s = "velocity" /\ all[i].rate = rate'
                 \/ s = "position"
      <3>1. CASE i \in DOMAIN seq
        BY <1>3, <2>2, <3>1
      <3>2. CASE i = Len(seq) + 1
        BY <1>4, <1>5, <2>2, <3>2
      <3> QED  BY <2>2, <3>1, <3>2
    <2> QED  BY <1>8, <2>1, <2>2, <2>3, <2>4, <2>5 DEF seq
  <1> QED  BY <1>7, <1>8

\* The rate after a publication is that of the newest increment.
LEMMA RateAtPublication ==
    ASSUME TimeInv, Received, RateFollows, Publish
    PROVE  /\ rate' \in Nat \cup {-1}
           /\ \A j \in DOMAIN imuLog' :
                 /\ imuLog'[j].t <= rate'
                 /\ \/ j \in DOMAIN imuLog /\ imuLog'[j] = imuLog[j]
                    \/ imuLog'[j].t = now
  <1>1. now \in Nat /\ Tiling(imuLog, now) /\ stage = "publish" /\ Tiling(Generated, now)
    BY SetupFacts DEF TimeInv, Timed, Covered, Publish
  <1>2. CASE imuLog' = imuLog /\ rate' = rate
    BY <1>2 DEF Received, RateFollows
  <1>3. CASE HasIncrement(prepared) /\ imuLog' = Append(imuLog, prepared.imu) /\ rate' = now
    <2> DEFINE x == prepared.imu
               n == Len(imuLog)
               all == Append(imuLog, x)
    <2>1. x.t = now /\ Generated = all
      BY <1>1, <1>3 DEF RateFollows, Generated
    <2>2. imuLog \in Seq(Element) /\ n \in Nat
      BY <1>1 DEF Tiling
    <2>3. all \in Seq(Element) /\ \A j \in 1..Len(all) : all[j].t <= now
      BY <1>1, <2>1 DEF Tiling
    <2> HIDE DEF x
    <2>4. Len(all) = n + 1 /\ all[n + 1] = x /\ \A j \in 1..n : all[j] = imuLog[j]
      BY <2>2
    <2>5. DOMAIN all = 1..(n + 1) /\ DOMAIN imuLog = 1..n
      BY <2>2, <2>3, <2>4
    <2> HIDE DEF all, n
    <2>6. \A j \in 1..(n + 1) : j \in 1..n \/ j = n + 1
      BY <2>2
    <2>7. imuLog' = all
      BY <1>3 DEF all, x
    <2> QED  BY <1>1, <1>3, <2>1, <2>3, <2>4, <2>5, <2>6, <2>7
  <1> QED  BY <1>2, <1>3, PublishEffect

\* Publication logs the measurements that were generated, or fails.
LEMMA PublishKeepsReceived ==
    ASSUME TimeInv, Received, RateFollows, Publish
    PROVE  Received' /\ RateFollows'
  <1>1. /\ UNCHANGED sourceVars /\ stage = "publish" /\ stage' \in {"integrate", "failed"}
        /\ stage' # "failed" => Reached = prepared.sensors
    BY PublishEffect
  <1>2. setup' = setup /\ now' = now /\ gnss' = gnss /\ prepared' = prepared
    BY <1>1 DEF sourceVars
  <1>3. now \in Nat /\ Timed
    BY SetupFacts DEF TimeInv, Timed
  <1>4. rate' \in Nat \cup {-1}
    BY RateAtPublication
  <1>5. gnssLog' \in [Sensors -> Seq(Measurement)]
    <2>1. DOMAIN gnssLog' = {"position", "velocity"} /\ gnssLog' = [s \in DOMAIN gnssLog' |-> gnssLog'[s]]
      BY DEF Publish, PublishMeasurements
    <2>2. \A s \in Sensors : gnssLog'[s] \in Seq(Measurement)
      BY <1>3, <1>4, LogAtPublication
    <2> QED  BY <2>1, <2>2 DEF Sensors
  <1>6. ASSUME NEW s \in Sensors
        PROVE  /\ \A t \in Times(s)' : t <= now
               /\ stage' # "failed" =>
                     /\ \A i, j \in DOMAIN gnssLog'[s] : i < j => gnssLog'[s][i].t < gnssLog'[s][j].t
                     /\ Times(s)' \cup Waiting(s)' = {t \in GridBefore(gnss[s].next) : Available(setup.start, t)}
    <2>1. /\ Times(s)' = Times(s) \cup (IF s \in Reached THEN {now} ELSE {})
          /\ \A i, j \in DOMAIN gnssLog'[s] : i < j => gnssLog'[s][i].t < gnssLog'[s][j].t
      BY <1>3, <1>4, LogAtPublication
    <2>2. /\ \A t \in Times(s) : t <= now
          /\ Times(s) \cup Waiting(s) = {t \in GridBefore(gnss[s].next) : Available(setup.start, t)}
      BY <1>1 DEF Received
    <2>3. Waiting(s)' = {}
      BY <1>1 DEF Waiting
    <2>4. stage' # "failed" => Times(s)' = Times(s) \cup Waiting(s)
      BY <1>1, <2>1 DEF Waiting
    <2> QED  BY <1>3, <2>1, <2>2, <2>3, <2>4
  <1>7. Received'
    <2>1. \A n : GridBefore(n)' = GridBefore(n)
      BY <1>2 DEF GridBefore, SampleAt
    <2>2. \A s \in Sensors : GridBefore(gnss[s].next)' = GridBefore(gnss[s].next)
      BY <1>2 DEF GridBefore, SampleAt
    <2>3. \A t : Available(setup.start, t)' <=> Available(setup.start, t)
      BY <1>2 DEF Available
    <2>4. prepared'.sensors \subseteq Sensors /\ stage' # "publish"
      BY <1>1, <1>2 DEF Received
    <2> QED  BY <1>2, <1>4, <1>5, <1>6, <2>2, <2>3, <2>4 DEF Received
  <1>8. ASSUME NEW i \in DOMAIN gnssLog'["velocity"], NEW j \in DOMAIN imuLog',
               imuLog'[j].t <= gnssLog'["velocity"][i].t
        PROVE  imuLog'[j].t <= gnssLog'["velocity"][i].rate
    <2>1. "velocity" \in Sensors
      BY DEF Sensors
    <2>2. \/ /\ i \in DOMAIN gnssLog["velocity"] /\ gnssLog'["velocity"][i] = gnssLog["velocity"][i]
             /\ gnssLog["velocity"][i].t < now
          \/ gnssLog'["velocity"][i].rate = rate'
      BY <1>3, <1>4, <2>1, LogAtPublication
    <2>3. /\ imuLog'[j].t <= rate'
          /\ \/ j \in DOMAIN imuLog /\ imuLog'[j] = imuLog[j]
             \/ imuLog'[j].t = now
      BY RateAtPublication
    <2>4. CASE gnssLog'["velocity"][i].rate = rate'
      BY <2>3, <2>4
    <2>5. CASE /\ i \in DOMAIN gnssLog["velocity"] /\ gnssLog'["velocity"][i] = gnssLog["velocity"][i]
               /\ gnssLog["velocity"][i].t < now
      <3>1. gnssLog["velocity"][i].t \in Nat
        <4>1. gnssLog["velocity"] \in Seq(Measurement)
          BY <2>1 DEF Received
        <4>2. gnssLog["velocity"][i] \in Measurement
          BY <2>5, <4>1
        <4> QED  BY <4>2 DEF Measurement
      <3>2. imuLog'[j].t # now
        BY <1>3, <1>8, <2>5, <3>1
      <3>3. j \in DOMAIN imuLog /\ imuLog'[j] = imuLog[j]
        BY <2>3, <3>2
      <3> QED  BY <1>8, <2>5, <3>3 DEF RateFollows
    <2> QED  BY <2>2, <2>4, <2>5
  <1>9. RateFollows'
    <2>1. \A j \in DOMAIN imuLog' : imuLog'[j].t <= rate'
      BY RateAtPublication
    <2> QED  BY <1>1, <1>8, <2>1 DEF RateFollows
  <1> QED  BY <1>7, <1>9

\* Steps that leave the source and its logs alone keep the measurements.
LEMMA ReceivedKept ==
    ASSUME Received, RateFollows, UNCHANGED sourceVars, UNCHANGED <<rate, imuLog, gnssLog>>,
           stage = "failed" => stage' = "failed",
           stage' = "failed" \/ (stage' = "publish" <=> stage = "publish")
    PROVE  Received' /\ RateFollows'
  <1>1. /\ setup' = setup /\ now' = now /\ gnss' = gnss /\ prepared' = prepared
        /\ rate' = rate /\ imuLog' = imuLog /\ gnssLog' = gnssLog
    BY DEF sourceVars
  <1>2. \A s : Times(s)' = Times(s) /\ GridBefore(gnss[s].next)' = GridBefore(gnss[s].next)
    BY <1>1 DEF Times, GridBefore, SampleAt
  <1>3. \A t : Available(setup.start, t)' <=> Available(setup.start, t)
    BY <1>1 DEF Available
  <1>4. stage' # "failed" => stage # "failed" /\ \A s : Waiting(s)' = Waiting(s)
    BY <1>1 DEF Waiting
  <1>5. Received'
    BY <1>1, <1>2, <1>3, <1>4 DEF Received
  <1>6. RateFollows'
    BY <1>1 DEF RateFollows, HasIncrement
  <1> QED  BY <1>5, <1>6

\* The measurements up to the epoch, with the one it generates.
LEMMA GridAtEpoch ==
    ASSUME TimeInv, Received, stage = "prepare", Requested # NoTime, NEW s \in Sensors
    PROVE  {t \in GridBefore(Consumed(s, EpochTime).next) : Available(setup.start, t)}
              = Times(s) \cup (IF s \in Measured(EpochTime) THEN {EpochTime} ELSE {})
  <1> DEFINE r == GnssRate(setup)
             n == gnss[s].next
             e == EpochTime
             Up(k) == {t \in GridBefore(k) : Available(setup.start, t)}
  <1>1. /\ n \in Nat
        /\ Consumed(s, e).next = IF SampleAt(r, n) = e THEN n + 1 ELSE n
        /\ Generates(s, e) <=> /\ SampleAt(r, n) = e /\ SampleAt(r, n + 1) # NoTime
                               /\ Available(setup.start, e)
    <2>1. /\ n \in Nat
          /\ Consumed(s, e) = [start |-> setup.start, next |-> IF SampleAt(r, n) = e THEN n + 1 ELSE n]
          /\ Generates(s, e) <=> /\ SampleAt(r, n) = e /\ SampleAt(r, n + 1) # NoTime
                                 /\ Available(setup.start, e)
      BY GnssAtEpoch DEF TimeInv
    <2> QED  BY <2>1
  <1>2. s \in Measured(e) <=> Generates(s, e)
    BY DEF Measured
  <1>3. Times(s) = Up(n)
    <2>1. Times(s) \cup Waiting(s) = Up(n) /\ Waiting(s) = {}
      BY DEF Received, Waiting
    <2> QED  BY <2>1
  <1> HIDE DEF n, e
  <1>4. CASE SampleAt(r, n) = e
    <2>1. GridBefore(n + 1) = GridBefore(n) \cup (IF SampleAt(r, n + 1) # NoTime THEN {e} ELSE {})
      BY <1>1, <1>4, GridGrows
    <2>2. Up(n + 1) = Up(n) \cup (IF Generates(s, e) THEN {e} ELSE {})
      BY <1>1, <1>4, <2>1
    <2> QED  BY <1>1, <1>2, <1>3, <1>4, <2>2 DEF e
  <1>5. CASE SampleAt(r, n) # e
    BY <1>1, <1>2, <1>3, <1>5 DEF e
  <1> QED  BY <1>4, <1>5

\* Preparation generates the measurement of the grid, if the epoch is its time and the
\* receiver available.
LEMMA PrepareKeepsReceived ==
    ASSUME TimeInv, Received, RateFollows, Prepare
    PROVE  Received' /\ RateFollows'
  <1>1. stage = "prepare" /\ UNCHANGED <<rate, imuLog, gnssLog>> /\ previous <= now
    BY PreviousPast DEF Prepare, TimeInv
  <1>2. CASE stage' = "failed" /\ UNCHANGED sourceVars
    BY <1>1, <1>2, ReceivedKept
  <1>3. CASE /\ stage' = "publish" /\ setup' = setup
             /\ Requested # NoTime /\ now' = EpochTime /\ index' = index + 1
             /\ gnss' = [s \in Sensors |-> Consumed(s, EpochTime)]
             /\ prepared' = [imu |-> IF index > 0 /\ ImuDue(EpochTime)
                                     THEN Interval(EpochTime) ELSE Blank,
                             sensors |-> Measured(EpochTime)]
    <2> DEFINE e == EpochTime
    <2>1. /\ e \in Nat /\ now \in Nat /\ index \in Nat /\ now <= e /\ (index > 0 => now < e)
      BY <1>1, <1>3, EpochFacts DEF TimeInv, Timed
    <2>2. RateFollows'
      <3>1. HasIncrement(prepared') => prepared'.imu.t = now'
        BY <1>3 DEF HasIncrement, Interval
      <3>2. HasIncrement(prepared)' <=> HasIncrement(prepared')
        BY DEF HasIncrement
      <3> QED  BY <1>1, <3>1, <3>2 DEF RateFollows
    <2>3. \A s \in Sensors : \A i \in DOMAIN gnssLog[s] : gnssLog[s][i].t \in Nat
      <3> SUFFICES ASSUME NEW s \in Sensors, NEW i \in DOMAIN gnssLog[s] PROVE gnssLog[s][i].t \in Nat
        OBVIOUS
      <3>1. gnssLog[s] \in Seq(Measurement)
        BY DEF Received
      <3>2. gnssLog[s][i] \in Measurement
        BY <3>1
      <3> QED  BY <3>2 DEF Measurement
    <2>4. ASSUME NEW s \in Sensors PROVE \A t \in Times(s) : t < e /\ t <= e
      <3>1. \A t \in Times(s) : t \in Nat /\ t <= now
        BY <2>3 DEF Times, Received
      <3>2. CASE index > 0
        BY <2>1, <3>1, <3>2
      <3>3. CASE index = 0
        <4>1. gnss[s].next = 0
          BY <1>1, <3>3 DEF TimeInv, Scheduled
        <4>2. GridBefore(0) = {}
          BY DEF GridBefore
        <4>3. Times(s) = {}
          BY <1>1, <4>1, <4>2 DEF Received
        <4> QED  BY <4>3
      <3> QED  BY <2>1, <3>2, <3>3
    <2> HIDE DEF e
    <2>5. ASSUME NEW s \in Sensors
          PROVE  {t \in GridBefore(gnss'[s].next) : Available(setup.start, t)}
                    = Times(s) \cup (IF s \in prepared'.sensors THEN {e} ELSE {})
      <3>1. gnss'[s] = Consumed(s, e) /\ prepared'.sensors = Measured(e)
        BY <1>3 DEF e
      <3> QED  BY <1>1, <1>3, <3>1, GridAtEpoch DEF e
    <2>6. /\ \A s : Times(s)' = Times(s)
          /\ \A s : Waiting(s)' = IF s \in prepared'.sensors THEN {e} ELSE {}
          /\ \A t : Available(setup.start, t)' <=> Available(setup.start, t)
      BY <1>1, <1>3 DEF Times, Waiting, Available, e
    <2>7. ASSUME NEW s \in Sensors PROVE GridBefore(gnss[s].next)' = GridBefore(gnss'[s].next)
      BY <1>3 DEF GridBefore, SampleAt
    <2>8. prepared'.sensors \subseteq Sensors /\ now' = e
      BY <1>3 DEF Measured, e
    <2>9. /\ rate' \in Nat \cup {-1} /\ gnssLog' \in [Sensors -> Seq(Measurement)]
      BY <1>1 DEF Received
    <2>10. \A s \in Sensors : \A i, j \in DOMAIN gnssLog'[s] : i < j => gnssLog'[s][i].t < gnssLog'[s][j].t
      BY <1>1 DEF Received
    <2>11. Received'
      BY <1>1, <2>4, <2>5, <2>6, <2>7, <2>8, <2>9, <2>10 DEF Received
    <2> QED  BY <2>2, <2>11
  <1> QED  BY <1>1, <1>2, <1>3, PrepareEffect DEF TimeInv

\* All of the above.
SourceInv == TimeInv /\ Received /\ RateFollows

\* Every step keeps the source's invariant.
LEMMA SourceStep ==
    ASSUME SourceInv, [PipelineNext]_pipelineVars
    PROVE  SourceInv'
  <1>1. TimeInv'
    BY TimeStep DEF SourceInv
  <1>2. Received' /\ RateFollows'
    <2>1. CASE Prepare
      BY <2>1, PrepareKeepsReceived DEF SourceInv
    <2>2. CASE Publish
      BY <2>2, PublishKeepsReceived DEF SourceInv
    <2>3. CASE IntegratePair \/ IntegrateSingle \/ UpdateNavigator
      <3>1. /\ stage = "integrate" /\ UNCHANGED sourceVars /\ UNCHANGED <<rate, imuLog, gnssLog>>
            /\ \/ stage' \in {"failed", stage}
               \/ stage' = IF Terminal THEN "finished" ELSE "prepare"
        BY <2>3, NavigatorEffect
      <3>2. stage' # "publish"
        BY <3>1
      <3> QED  BY <3>1, <3>2, ReceivedKept DEF SourceInv
    <2>4. CASE UNCHANGED pipelineVars
      <3>1. UNCHANGED sourceVars /\ stage' = stage /\ UNCHANGED <<rate, imuLog, gnssLog>>
        BY <2>4 DEF pipelineVars, sourceVars
      <3> QED  BY <3>1, ReceivedKept DEF SourceInv
    <2> QED  BY <2>1, <2>2, <2>3, <2>4 DEF PipelineNext
  <1> QED  BY <1>1, <1>2 DEF SourceInv

\* The source's invariant holds.
LEMMA SourceFollowsSchedules == PipelineSpec => []SourceInv
  <1>1. PipelineInit => SourceInv
    BY TimeInit, CoveredInit, ReceivedInit DEF SourceInv, TimeInv
  <1>2. SourceInv /\ [PipelineNext]_pipelineVars => SourceInv'
    BY SourceStep
  <1> QED  BY <1>1, <1>2, PTL DEF PipelineSpec

\* Each receiver measures at exactly the times of its grid within the active windows:
\* an outage neither moves the grid nor lets a missed sample catch up
\* (GnssSimulator::should_generate()).
THEOREM MeasurementsStayOnGrid == PipelineSpec => []MeasurementsKeepGrid
  <1>1. SourceInv => MeasurementsKeepGrid
    <2> SUFFICES ASSUME SourceInv, stage \in {"integrate", "finished"}, NEW s \in Sensors
                 PROVE  /\ \A i \in 2..Len(gnssLog[s]) : gnssLog[s][i - 1].t < gnssLog[s][i].t
                        /\ {gnssLog[s][i].t : i \in DOMAIN gnssLog[s]} =
                              {t \in GridUpTo(GnssRate(setup), now) : Available(setup.start, t)}
      BY DEF MeasurementsKeepGrid
    <2>1. /\ Configured /\ index \in Nat /\ now \in setup.start..setup.end /\ index # 0
          /\ FirstAfter(GnssRate(setup), gnss[s].next, now)
      BY DEF SourceInv, TimeInv, Timed, Scheduled
    <2>2. /\ gnssLog[s] \in Seq(Measurement) /\ Waiting(s) = {}
          /\ \A i, j \in DOMAIN gnssLog[s] : i < j => gnssLog[s][i].t < gnssLog[s][j].t
          /\ Times(s) \cup Waiting(s) = {t \in GridBefore(gnss[s].next) : Available(setup.start, t)}
      BY DEF SourceInv, Received, Waiting
    <2>3. GridUpTo(GnssRate(setup), now) = GridBefore(gnss[s].next)
      BY <2>1, GridMembers DEF SensorRates, GridBefore
    <2>4. ASSUME NEW i \in 2..Len(gnssLog[s]) PROVE gnssLog[s][i - 1].t < gnssLog[s][i].t
      <3>1. i \in DOMAIN gnssLog[s] /\ i - 1 \in DOMAIN gnssLog[s] /\ i - 1 < i
        BY <2>2
      <3> QED  BY <2>2, <3>1
    <2>5. {gnssLog[s][i].t : i \in DOMAIN gnssLog[s]} =
              {t \in GridUpTo(GnssRate(setup), now) : Available(setup.start, t)}
      BY <2>2, <2>3 DEF Times
    <2> QED  BY <2>4, <2>5
  <1> QED  BY <1>1, SourceFollowsSchedules, PTL

\* A velocity measurement is corrected with the angular rate of the last increment that
\* ended by then, also one of the same epoch (publish_at_deadline(),
\* GnssVelocityEmulator::update_sensor_context()).
THEOREM RatesAreNewest == PipelineSpec => []RateOfNewestIncrement
  <1>1. SourceInv => RateOfNewestIncrement
    BY DEF SourceInv, RateFollows, RateOfNewestIncrement
  <1> QED  BY <1>1, SourceFollowsSchedules, PTL

-----------------------------------------------------------------------------
(* Types. *)

\* The buffers, and what is generated and pending, have their types.
Stored ==
    /\ previous \in Nat /\ pending \in Nat
    /\ prepared \in [imu : Element, sensors : SUBSET Sensors]
    /\ DOMAIN ring = Buffers /\ \A b \in Buffers : IsRing(Capacity[b], Element, ring[b])

\* Empty buffers are well formed.
LEMMA StoredInit == PipelineInit => Stored
  <1> SUFFICES ASSUME PipelineInit PROVE Stored
    OBVIOUS
  <1>1. ring = [b \in Buffers |-> EmptyRing(Capacity[b], Blank)]
    BY DEF PipelineInit
  <1>2. Blank \in Element
    BY DEF Blank, Element
  <1>3. ASSUME NEW b \in Buffers PROVE IsRing(Capacity[b], Element, ring[b])
    <2>1. ring[b] = EmptyRing(Capacity[b], Blank) /\ Capacity[b] \in Nat \ {0}
      BY <1>1, CapacityFacts
    <2> QED  BY <1>2, <2>1, EmptyRingEffect
  <1>4. DOMAIN ring = Buffers
    BY <1>1
  <1>5. previous \in Nat /\ pending \in Nat
    <2>1. Configured
      BY DEF PipelineInit, Configured
    <2> QED  BY <2>1, SetupFacts DEF PipelineInit
  <1>6. prepared = [imu |-> Blank, sensors |-> {}]
    BY DEF PipelineInit, Nothing
  <1>7. prepared \in [imu : Element, sensors : SUBSET Sensors]
    BY <1>2, <1>6
  <1> QED  BY <1>3, <1>4, <1>5, <1>7 DEF Stored

\* A push keeps a buffer well formed.
LEMMA TypedPush ==
    ASSUME Stored, NEW b \in Buffers, NEW v \in Element
    PROVE  IsRing(Capacity[b], Element, Pushed(b, v))
  <1> DEFINE n == Capacity[b]
             p == Policy[b]
             r == ring[b]
  <1>1. n \in Nat \ {0} /\ IsRing(n, Element, r)
    BY CapacityFacts DEF Stored
  <1> HIDE DEF n, p, r
  <1>2. IsRing(n, Element, Push(n, p, r, v))
    BY <1>1, PushEffect
  <1> QED  BY <1>2 DEF Pushed, n, p, r

\* Preparation generates a value of its type.
LEMMA PrepareKeepsStored ==
    ASSUME TimeInv, Stored, Prepare
    PROVE  Stored'
  <1>1. stage = "prepare" /\ UNCHANGED <<ring, pending>> /\ previous <= now
    BY PreviousPast DEF Prepare, TimeInv
  <1>2. CASE UNCHANGED sourceVars
    BY <1>1, <1>2 DEF sourceVars, Stored
  <1>3. CASE /\ Requested # NoTime
             /\ IF index > 0 THEN PrepareImu(EpochTime) ELSE UNCHANGED <<imuNext, previous>>
             /\ prepared' = [imu |-> IF index > 0 /\ ImuDue(EpochTime)
                                     THEN Interval(EpochTime) ELSE Blank,
                             sensors |-> Measured(EpochTime)]
    <2>1. EpochTime \in Nat /\ previous \in Nat
      BY <1>1, <1>3, EpochFacts DEF TimeInv, Timed, Stored
    <2>2. ASSUME index > 0 PROVE Interval(EpochTime) \in Element
      <3>1. previous < EpochTime
        BY <1>1, <1>3, <2>2, IncrementAtEpoch DEF TimeInv
      <3> QED  BY <2>1, <3>1 DEF Interval, Element
    <2>3. prepared' \in [imu : Element, sensors : SUBSET Sensors]
      <3>1. Blank \in Element /\ Measured(EpochTime) \subseteq Sensors
        BY DEF Blank, Element, Measured
      <3>2. (IF index > 0 /\ ImuDue(EpochTime) THEN Interval(EpochTime) ELSE Blank) \in Element
        BY <2>2, <3>1
      <3> QED  BY <1>3, <3>1, <3>2
    <2>4. previous' \in Nat
      BY <1>3, <2>1 DEF PrepareImu
    <2> QED  BY <1>1, <2>3, <2>4 DEF Stored
  <1> QED  BY <1>1, <1>2, <1>3, PrepareEffect DEF TimeInv

\* Publication pushes values of their types.
LEMMA PublishKeepsStored ==
    ASSUME TimeInv, Stored, Publish
    PROVE  Stored'
  <1>1. UNCHANGED sourceVars /\ UNCHANGED pending
    BY DEF Publish
  <1>2. PICK pushesImu :
          ring' = [b \in Buffers |->
              IF b = "imu" /\ pushesImu THEN Pushed(b, prepared.imu)
              ELSE IF b \in Reached THEN Pushed(b, [t |-> now, dt |-> 0]) ELSE ring[b]]
    BY Zenon DEF Publish
  <1>3. prepared.imu \in Element /\ [t |-> now, dt |-> 0] \in Element
    <2>1. now \in Nat
      BY SetupFacts DEF TimeInv, Timed
    <2> QED  BY <2>1 DEF Stored, Element
  <1>4. ASSUME NEW b \in Buffers
        PROVE  \/ ring'[b] = Pushed(b, prepared.imu)
               \/ ring'[b] = Pushed(b, [t |-> now, dt |-> 0])
               \/ ring'[b] = ring[b]
    BY <1>2, Zenon
  <1>5. ASSUME NEW b \in Buffers PROVE IsRing(Capacity[b], Element, ring'[b])
    <2>1. IsRing(Capacity[b], Element, ring[b])
      BY DEF Stored
    <2> QED  BY <1>3, <1>4, <2>1, TypedPush, Zenon
  <1>6. DOMAIN ring' = Buffers
    BY <1>2, Zenon
  <1> QED  BY <1>1, <1>5, <1>6 DEF Stored, sourceVars

\* A value that leaves the IMU's buffer.
LEMMA TypedPop ==
    ASSUME NEW r, IsRing(ImuCapacity, Element, r), r.count > 0
    PROVE  /\ IsRing(ImuCapacity, Element, Pop(ImuCapacity, r)) /\ Front(r).dt \in Nat
           /\ Pop(ImuCapacity, r).count = r.count - 1
  <1>1. ImuCapacity \in Nat \ {0}
    BY CapacityFacts
  <1>2. /\ IsRing(ImuCapacity, Element, AdvanceTail(ImuCapacity, r)) /\ Front(r) \in Element
        /\ AdvanceTail(ImuCapacity, r).count = r.count - 1
    BY <1>1, AdvanceTailEffect
  <1>3. Front(r).dt \in Nat
    BY <1>2 DEF Element
  <1> QED  BY <1>2, <1>3 DEF Pop

\* A pair that is integrated has two durations.
LEMMA PairKeepsStored ==
    ASSUME Stored, IntegratePair
    PROVE  Stored'
  <1> DEFINE r == ring["imu"]
             rest == Pop(ImuCapacity, r)
             after == Pop(ImuCapacity, rest)
  <1>1. /\ UNCHANGED sourceVars /\ r.count >= 2
        /\ ring' = [ring EXCEPT !["imu"] = after]
        /\ pending' = pending \/ pending' = pending + Front(r).dt + Front(rest).dt
    BY Zenon DEF IntegratePair
  <1>2. "imu" \in Buffers /\ IsRing(ImuCapacity, Element, r)
    BY CapacityFacts DEF Stored
  <1>3. r.count \in Nat
    BY <1>2, CapacityFacts, RingFields
  <1>4. IsRing(ImuCapacity, Element, rest) /\ Front(r).dt \in Nat /\ rest.count = r.count - 1
    BY <1>1, <1>2, <1>3, TypedPop
  <1>5. IsRing(ImuCapacity, Element, after) /\ Front(rest).dt \in Nat
    <2> HIDE DEF rest
    <2>1. rest.count > 0
      BY <1>1, <1>3, <1>4
    <2> QED  BY <1>4, <2>1, TypedPop
  <1>6. pending' \in Nat
    BY <1>1, <1>4, <1>5 DEF Stored
  <1> HIDE DEF r, rest, after
  <1>7. DOMAIN ring' = Buffers /\ ring'["imu"] = after /\ \A b \in Buffers \ {"imu"} : ring'[b] = ring[b]
    BY <1>1, <1>2 DEF Stored
  <1>8. \A b \in Buffers : IsRing(Capacity[b], Element, ring'[b])
    BY <1>5, <1>7, CapacityFacts DEF Stored
  <1> QED  BY <1>1, <1>6, <1>7, <1>8 DEF Stored, sourceVars

\* So does a single increment.
LEMMA SingleKeepsStored ==
    ASSUME Stored, IntegrateSingle
    PROVE  Stored'
  <1> DEFINE r == ring["imu"]
             after == Pop(ImuCapacity, r)
  <1>1. /\ UNCHANGED sourceVars /\ r.count = 1
        /\ ring' = [ring EXCEPT !["imu"] = after]
        /\ pending' = pending + Front(r).dt
    BY Zenon DEF IntegrateSingle
  <1>2. "imu" \in Buffers /\ IsRing(ImuCapacity, Element, r)
    BY CapacityFacts DEF Stored
  <1>3. IsRing(ImuCapacity, Element, after) /\ Front(r).dt \in Nat
    <2>1. r.count > 0
      BY <1>1
    <2> QED  BY <1>2, <2>1, TypedPop
  <1>4. pending' \in Nat
    BY <1>1, <1>3 DEF Stored
  <1> HIDE DEF r, after
  <1>5. DOMAIN ring' = Buffers /\ ring'["imu"] = after /\ \A b \in Buffers \ {"imu"} : ring'[b] = ring[b]
    BY <1>1, <1>2 DEF Stored
  <1>6. \A b \in Buffers : IsRing(Capacity[b], Element, ring'[b])
    BY <1>3, <1>5, CapacityFacts DEF Stored
  <1> QED  BY <1>1, <1>4, <1>5, <1>6 DEF Stored, sourceVars

\* The rest of the update pushes a covariance step and empties sensors.
LEMMA UpdateKeepsStored ==
    ASSUME TimeInv, Stored, UpdateNavigator
    PROVE  Stored'
  <1>1. /\ UNCHANGED sourceVars
        /\ pending' = IF CovarianceReady THEN 0 ELSE pending
    BY DEF UpdateNavigator
  <1>2. PICK measures :
          ring' = [b \in Buffers |->
              IF b = "history" /\ CovarianceReady THEN Pushed(b, [t |-> now, dt |-> pending])
              ELSE IF b \in Sensors /\ measures
              THEN [ring[b] EXCEPT !.tail = (@ + ring[b].count) % SensorCapacity, !.count = 0]
              ELSE ring[b]]
    BY Zenon DEF UpdateNavigator
  <1>3. ASSUME NEW b \in Buffers
        PROVE  \/ ring'[b] = Pushed(b, [t |-> now, dt |-> pending])
               \/ b \in Sensors /\ ring'[b] = Drained(SensorCapacity, ring[b])
               \/ ring'[b] = ring[b]
    BY <1>2, Zenon DEF Drained
  <1>4. [t |-> now, dt |-> pending] \in Element
    <2>1. now \in Nat
      BY SetupFacts DEF TimeInv, Timed
    <2> QED  BY <2>1 DEF Stored, Element
  <1>5. ASSUME NEW b \in Sensors PROVE IsRing(Capacity[b], Element, Drained(SensorCapacity, ring[b]))
    <2>1. /\ Capacity[b] = SensorCapacity /\ SensorCapacity \in Nat \ {0}
          /\ IsRing(SensorCapacity, Element, ring[b])
      BY CapacityFacts DEF Stored
    <2> QED  BY <2>1, DrainEffect
  <1>6. ASSUME NEW b \in Buffers PROVE IsRing(Capacity[b], Element, ring'[b])
    <2>1. IsRing(Capacity[b], Element, ring[b])
      BY DEF Stored
    <2> QED  BY <1>3, <1>4, <1>5, <2>1, TypedPush, Zenon
  <1>7. DOMAIN ring' = Buffers
    BY <1>2, Zenon
  <1>8. pending' \in Nat
    BY <1>1 DEF Stored
  <1> QED  BY <1>1, <1>6, <1>7, <1>8 DEF Stored, sourceVars

\* Every variable of the pipeline keeps its type, and head, tail and count of every
\* buffer agree (RingBuffer, EmulatorRuntime, ImuRuntime, Navigator).
THEOREM PipelineTypeCorrect == PipelineSpec => []PipelineTypeOK
  <1>1. PipelineInit => Stored
    BY StoredInit
  <1>2. SourceInv /\ Stored /\ [PipelineNext]_pipelineVars => Stored'
    <2> SUFFICES ASSUME SourceInv, Stored, [PipelineNext]_pipelineVars PROVE Stored'
      OBVIOUS
    <2>1. CASE UNCHANGED pipelineVars
      BY <2>1 DEF pipelineVars, sourceVars, Stored
    <2> QED  BY <2>1, PrepareKeepsStored, PublishKeepsStored, PairKeepsStored, SingleKeepsStored,
                UpdateKeepsStored DEF PipelineNext, SourceInv
  <1>3. SourceInv /\ Stored => PipelineTypeOK
    <2> SUFFICES ASSUME SourceInv, Stored PROVE PipelineTypeOK
      OBVIOUS
    <2>1. setup \in Setups /\ setup.start \in Nat /\ now \in Nat
      BY SetupFacts DEF SourceInv, TimeInv, Timed, Configured
    <2>2. /\ stage \in {"prepare", "publish", "integrate", "finished", "failed"} /\ index \in Nat
          /\ imuNext \in Nat /\ gnss \in [Sensors -> [start : Nat \cup {-1}, next : Nat]]
      BY DEF SourceInv, TimeInv, Timed, Scheduled
    <2>3. /\ rate \in Nat \cup {-1}
          /\ imuLog \in Seq(Element) /\ gnssLog \in [Sensors -> Seq([t : Nat, rate : Nat \cup {-1}])]
      BY DEF SourceInv, TimeInv, Covered, Tiling, Received, Measurement
    <2> QED  BY <2>1, <2>2, <2>3 DEF PipelineTypeOK, Stored
  <1> QED  BY <1>1, <1>2, <1>3, SourceFollowsSchedules, PTL DEF PipelineSpec
=============================================================================
