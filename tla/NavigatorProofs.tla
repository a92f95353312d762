---------------------------- MODULE NavigatorProofs ----------------------------
(***************************************************************************)
(* Type correctness and the safety invariants of Navigator, for every       *)
(* build, every buffer capacity and every order of pushes and calls.        *)
(*                                                                         *)
(* None of the invariants is inductive alone.  NavInv adds what holds       *)
(* between the steps of a call: which increments can be left once the       *)
(* strapdown loop is done, when the covariance has caught up, and which     *)
(* sensor's measurements can be pending at which step.                      *)
(***************************************************************************)
EXTENDS Navigator, SequenceTheorems, TLAPS

\* The steps of process_measurements().
Measuring == {"measurements", "position", "velocity", "filter"}

\* After the strapdown loop at most one increment is left, and only one that
\* waits for its partner; none is left once measurements are processed.
Flushed ==
    ok => /\ pc = "covariance" => imu = <<>> \/ (Len(imu) = 1 /\ config.coning /\ ~final)
          /\ pc \in Measuring => imu = <<>>

\* The covariance is predicted when due, and completely by finalize().
CovarianceSettled ==
    /\ covT + pending = navT
    /\ pc \notin {"strapdown", "covariance"} =>
          /\ pending = 0 \/ pending < config.covPeriod
          /\ final => pending = 0

\* Measurements pend only while their sensor, or one after it under
\* UpdatePostFilter, is processed; what is applied precedes what is pending.
PendingBySensor ==
    /\ pc \notin {"position", "velocity", "filter"} => dx = {}
    /\ pc = "position" => correction = {} /\ dx \subseteq {"position"} \X Nat
    /\ pc \in {"velocity", "filter"} =>
          IF config.afterEach
          THEN /\ dx \subseteq {"velocity"} \X Nat
               /\ pc = "velocity" => correction \subseteq {"position"} \X Nat
               /\ pc = "filter" => dx = {}
          ELSE correction = {}

NavInv ==
    /\ NavTypeOK
    /\ ImuTimeConserved
    /\ Flushed
    /\ CovarianceSettled
    /\ PendingBySensor

-----------------------------------------------------------------------------
(* Facts about the IMU buffer. *)

\* An empty queue is one of length zero.
LEMMA EmptyIffLengthZero ==
    ASSUME NEW S, NEW q \in Seq(S)
    PROVE  Len(q) \in Nat /\ (q = <<>> <=> Len(q) = 0)
  BY EmptySeq, LenProperties

\* The increments in imu reach from time a to time b without gap or overlap.
Spans(q, a, b) ==
    /\ \A i \in DOMAIN q : q[i].t - q[i].dt = IF i = 1 THEN a ELSE q[i - 1].t
    /\ b = IF q = <<>> THEN a ELSE q[Len(q)].t

\* Without its oldest increment a buffer reaches from where that one ended.
LEMMA SpansTail ==
    ASSUME NEW q \in Seq(Increment), q # <<>>, NEW a \in Nat, NEW b \in Nat, Spans(q, a, b)
    PROVE  Spans(Tail(q), a + q[1].dt, b)
  <1>1. /\ Tail(q) \in Seq(Increment) /\ Len(Tail(q)) = Len(q) - 1
        /\ \A i \in 1..Len(Tail(q)) : Tail(q)[i] = q[i + 1]
    BY HeadTailProperties
  <1>2. Len(q) \in Nat \ {0} /\ DOMAIN q = 1..Len(q) /\ DOMAIN Tail(q) = 1..Len(Tail(q))
    BY <1>1
  <1>3. q[1] \in Increment /\ q[1].t = a + q[1].dt
    <2>1. q[1] \in Increment /\ q[1].t - q[1].dt = a
      BY <1>2 DEF Spans
    <2> QED  BY <2>1 DEF Increment
  <1>4. ASSUME NEW i \in DOMAIN Tail(q)
        PROVE  Tail(q)[i].t - Tail(q)[i].dt = IF i = 1 THEN a + q[1].dt ELSE Tail(q)[i - 1].t
    <2>1. i + 1 \in DOMAIN q /\ i + 1 # 1 /\ Tail(q)[i] = q[i + 1]
      BY <1>1, <1>2
    <2>2. q[i + 1].t - q[i + 1].dt = q[(i + 1) - 1].t
      BY <2>1 DEF Spans
    <2>3. i # 1 => Tail(q)[i - 1] = q[(i + 1) - 1]
      BY <1>1, <1>2
    <2> QED  BY <1>2, <1>3, <2>1, <2>2, <2>3
  <1>5. b = IF Tail(q) = <<>> THEN a + q[1].dt ELSE Tail(q)[Len(Tail(q))].t
    <2>1. CASE Len(q) = 1
      <3>1. Tail(q) = <<>>
        <4>1. Len(Tail(q)) = 0
          BY <1>1, <2>1
        <4> QED  BY <1>1, <4>1, EmptyIffLengthZero
      <3>2. b = q[1].t
        BY <2>1 DEF Spans
      <3> QED  BY <1>3, <3>1, <3>2
    <2>2. CASE Len(q) > 1
      BY <1>1, <1>2, <2>2 DEF Spans
    <2> QED  BY <1>2, <2>1, <2>2
  <1> QED  BY <1>4, <1>5 DEF Spans

\* A pushed increment that starts at the last sample extends the buffer.
LEMMA SpansAppend ==
    ASSUME NEW q \in Seq(Increment), NEW a \in Nat, NEW b \in Nat, Spans(q, a, b),
           NEW dt \in Nat \ {0}
    PROVE  Spans(Append(q, [t |-> b + dt, dt |-> dt]), a, b + dt)
  <1> DEFINE x == [t |-> b + dt, dt |-> dt]
  <1>1. x \in Increment
    BY DEF Increment
  <1>2. /\ Append(q, x) \in Seq(Increment) /\ Append(q, x) # <<>>
        /\ Len(Append(q, x)) = Len(q) + 1
        /\ \A i \in 1..Len(q) : Append(q, x)[i] = q[i]
        /\ Append(q, x)[Len(q) + 1] = x
    BY <1>1, AppendProperties
  <1> HIDE DEF x
  <1>3. Len(q) \in Nat /\ DOMAIN q = 1..Len(q) /\ DOMAIN Append(q, x) = 1..(Len(q) + 1)
    BY <1>2
  <1>4. x.t = b + dt /\ x.t - x.dt = b
    BY DEF x
  <1>5. ASSUME NEW i \in 1..(Len(q) + 1)
        PROVE  Append(q, x)[i].t - Append(q, x)[i].dt
                 = IF i = 1 THEN a ELSE Append(q, x)[i - 1].t
    <2>1. CASE i \in 1..Len(q)
      <3>1. q[i].t - q[i].dt = IF i = 1 THEN a ELSE q[i - 1].t
        BY <1>3, <2>1 DEF Spans
      <3>2. i # 1 => i - 1 \in 1..Len(q)
        BY <2>1
      <3> QED  BY <1>2, <2>1, <3>1, <3>2
    <2>2. CASE i = Len(q) + 1
      <3>1. b = IF Len(q) = 0 THEN a ELSE q[Len(q)].t
        BY <1>3, EmptySeq DEF Spans
      <3>2. Append(q, x)[i] = x
        BY <1>2, <2>2
      <3>3. CASE Len(q) = 0
        BY <1>4, <2>2, <3>1, <3>2, <3>3
      <3>4. CASE Len(q) # 0
        <4>1. i # 1 /\ i - 1 = Len(q) /\ Len(q) \in 1..Len(q)
          BY <1>3, <2>2, <3>4
        <4>2. Append(q, x)[i - 1] = q[Len(q)]
          BY <1>2, <4>1
        <4> QED  BY <1>4, <3>1, <3>2, <3>4, <4>1, <4>2
      <3> QED  BY <3>3, <3>4
    <2>3. i \in 1..Len(q) \/ i = Len(q) + 1
      BY <1>3
    <2> QED  BY <2>1, <2>2, <2>3
  <1>6. Spans(Append(q, x), a, b + dt)
    BY <1>2, <1>3, <1>4, <1>5 DEF Spans
  <1> QED  BY <1>6 DEF x

-----------------------------------------------------------------------------
(* NavInv is inductive: one lemma for each step. *)

\* A new Navigator has nothing buffered, pending or counted.
LEMMA InitEstablishes == NavInit => NavInv
  <1> SUFFICES ASSUME NavInit PROVE NavInv
    OBVIOUS
  <1>1. <<>> \in Seq(Increment) /\ <<>> \in Seq(Nat) /\ Len(<<>>) = 0
    BY EmptySeq
  <1>2. NavTypeOK
    <2>1. ControlTypeOK /\ TimeTypeOK /\ CorrectionTypeOK
      BY DEF NavInit, ControlTypeOK, TimeTypeOK, CorrectionTypeOK, Steps
    <2>2. ImuTypeOK /\ QueueTypeOK
      BY <1>1, CapacityAssumption DEF NavInit, ImuTypeOK, QueueTypeOK
    <2> QED  BY <2>1, <2>2 DEF NavTypeOK
  <1>3. ImuTimeConserved
    BY <1>1 DEF NavInit, ImuTimeConserved
  <1>4. Flushed /\ CovarianceSettled /\ PendingBySensor
    BY DEF NavInit, Flushed, CovarianceSettled, PendingBySensor, Measuring
  <1> QED  BY <1>2, <1>3, <1>4 DEF NavInv

\* The configuration of a Navigator has its type, so that its periods can be added.
LEMMA ConfigType == ASSUME NavTypeOK PROVE config \in NavConfig /\ config.covPeriod \in Nat
  BY NavConfigAssumption DEF NavTypeOK, ControlTypeOK, NavConfig

\* What the first two increments of the buffer are.
LEMMA FirstIncrements ==
    ASSUME NavTypeOK, imu # <<>>
    PROVE  /\ imu[1] \in Increment /\ imu[1].dt \in Nat \ {0}
           /\ Tail(imu) \in Seq(Increment) /\ Len(Tail(imu)) = Len(imu) - 1
           /\ Len(imu) >= 2 =>
                 /\ Tail(imu) # <<>> /\ Tail(imu)[1] = imu[2]
                 /\ imu[2] \in Increment /\ imu[2].dt \in Nat \ {0}
                 /\ Tail(Tail(imu)) \in Seq(Increment) /\ Len(Tail(Tail(imu))) = Len(imu) - 2
  <1>1. imu \in Seq(Increment) /\ Len(imu) \in Nat /\ Len(imu) # 0
    BY EmptyIffLengthZero DEF NavTypeOK, ImuTypeOK
  <1>2. /\ Tail(imu) \in Seq(Increment) /\ Len(Tail(imu)) = Len(imu) - 1
        /\ \A i \in 1..Len(Tail(imu)) : Tail(imu)[i] = imu[i + 1]
    BY <1>1, HeadTailProperties
  <1>3. imu[1] \in Increment
    BY <1>1, ElementOfSeq
  <1>4. ASSUME Len(imu) >= 2
        PROVE  /\ Tail(imu) # <<>> /\ Tail(imu)[1] = imu[2]
               /\ imu[2] \in Increment
               /\ Tail(Tail(imu)) \in Seq(Increment) /\ Len(Tail(Tail(imu))) = Len(imu) - 2
    <2>1. imu[2] \in Increment
      BY <1>1, <1>4, ElementOfSeq
    <2>2. Len(Tail(imu)) # 0 /\ 1 \in 1..Len(Tail(imu))
      BY <1>1, <1>2, <1>4
    <2>3. Tail(imu) # <<>> /\ Tail(imu)[1] = imu[2]
      <3>1. Tail(imu) # <<>>
        BY <1>2, <2>2, EmptyIffLengthZero
      <3>2. Tail(imu)[1] = imu[1 + 1]
        BY <1>2, <2>2
      <3> QED  BY <3>1, <3>2
    <2>4. Tail(Tail(imu)) \in Seq(Increment) /\ Len(Tail(Tail(imu))) = Len(Tail(imu)) - 1
      BY <1>2, <2>3, HeadTailProperties
    <2> QED  BY <1>1, <1>2, <2>1, <2>3, <2>4
  <1> QED  BY <1>1, <1>2, <1>3, <1>4 DEF Increment

\* The two oldest increments are integrated as a pair.
LEMMA ImuPairPreserves == ASSUME NavInv, ImuPair PROVE NavInv'
  <1>1. NavTypeOK /\ imu \in Seq(Increment) /\ Len(imu) \in Nat /\ Len(imu) >= 2 /\ imu # <<>>
    <2>1. NavTypeOK /\ imu \in Seq(Increment) /\ Len(imu) >= 2
      BY DEF NavInv, NavTypeOK, ImuTypeOK, ImuPair
    <2> QED  BY <2>1, EmptyIffLengthZero
  <1>2. /\ imu' \in Seq(Increment) /\ Len(imu') = Len(imu) - 2
        /\ imu[1].dt \in Nat \ {0} /\ imu[2].dt \in Nat \ {0}
    BY <1>1, FirstIncrements DEF ImuPair
  <1>3. imu[1].dt + imu[2].dt \in Nat \ {0}
    BY <1>2
  <1>4. NavTypeOK'
    <2>1. ControlTypeOK' /\ QueueTypeOK' /\ CorrectionTypeOK'
      BY <1>1 DEF ImuPair, NavTypeOK, ControlTypeOK, QueueTypeOK, CorrectionTypeOK, Steps
    <2>2. ImuTypeOK'
      BY <1>1, <1>2, CapacityAssumption DEF NavTypeOK, ImuTypeOK
    <2>3. TimeTypeOK'
      BY <1>1, <1>3 DEF ImuPair, Integrate, NavTypeOK, TimeTypeOK
    <2> QED  BY <2>1, <2>2, <2>3 DEF NavTypeOK
  <1>5. ImuTimeConserved'
    <2>1. SUFFICES ASSUME ok' PROVE Spans(imu', navT', sampled')
      BY DEF ImuTimeConserved, Spans
    <2>2. ok /\ navT' = navT + imu[1].dt + imu[2].dt
      <3>1. ok /\ navT' = navT + (imu[1].dt + imu[2].dt)
        BY <2>1 DEF ImuPair, Integrate
      <3> QED  BY <1>1, <1>2, <3>1 DEF NavTypeOK, TimeTypeOK
    <2>3. Spans(imu, navT, sampled)
      BY <2>2 DEF NavInv, ImuTimeConserved, Spans
    <2>4. Spans(Tail(imu), navT + imu[1].dt, sampled)
      BY <1>1, <2>3, SpansTail DEF NavTypeOK, TimeTypeOK
    <2>5. Spans(Tail(Tail(imu)), navT + imu[1].dt + imu[2].dt, sampled)
      <3>1. Tail(imu) \in Seq(Increment) /\ Tail(imu) # <<>> /\ Tail(imu)[1] = imu[2]
        BY <1>1, FirstIncrements
      <3>2. navT + imu[1].dt \in Nat /\ sampled \in Nat
        BY <1>1, <1>2 DEF NavTypeOK, TimeTypeOK
      <3> QED  BY <2>4, <3>1, <3>2, SpansTail
    <2> QED  BY <2>2, <2>5 DEF ImuPair
  <1>6. Flushed'
    BY DEF NavInv, Flushed, ImuPair, Measuring
  <1>7. CovarianceSettled'
    <2>1. pc' \in {"strapdown", "covariance"}
      BY DEF ImuPair
    <2>2. /\ covT + pending = navT /\ covT \in Nat /\ pending \in Nat /\ navT \in Nat
          /\ covT' = covT
      BY <1>1 DEF NavInv, CovarianceSettled, ImuPair, NavTypeOK, TimeTypeOK
    <2>3. \/ /\ navT' = navT + (imu[1].dt + imu[2].dt)
             /\ pending' = pending + (imu[1].dt + imu[2].dt)
          \/ navT' = navT /\ pending' = pending
      BY DEF ImuPair, Integrate
    <2>4. covT' + pending' = navT'
      BY <1>3, <2>2, <2>3
    <2> QED  BY <2>1, <2>4 DEF CovarianceSettled
  <1>8. PendingBySensor'
    BY DEF NavInv, PendingBySensor, ImuPair
  <1> QED  BY <1>4, <1>5, <1>6, <1>7, <1>8 DEF NavInv

\* One increment is integrated alone, or held back for its partner.
LEMMA ImuSinglePreserves == ASSUME NavInv, ImuSingle PROVE NavInv'
  <1>1. NavTypeOK /\ imu \in Seq(Increment) /\ Len(imu) = 1 /\ imu # <<>>
    <2>1. NavTypeOK /\ imu \in Seq(Increment) /\ Len(imu) = 1
      BY DEF NavInv, NavTypeOK, ImuTypeOK, ImuSingle
    <2> QED  BY <2>1, EmptyIffLengthZero
  <1>2. imu[1].dt \in Nat \ {0} /\ Tail(imu) = <<>>
    <2>1. Tail(imu) \in Seq(Increment) /\ Len(Tail(imu)) = 0 /\ imu[1].dt \in Nat \ {0}
      BY <1>1, FirstIncrements
    <2> QED  BY <2>1, EmptyIffLengthZero
  <1>3. NavTypeOK'
    <2>1. ControlTypeOK' /\ QueueTypeOK' /\ CorrectionTypeOK'
      BY <1>1 DEF ImuSingle, NavTypeOK, ControlTypeOK, QueueTypeOK, CorrectionTypeOK, Steps
    <2>2. ImuTypeOK'
      BY EmptySeq, CapacityAssumption DEF ImuSingle, ImuTypeOK
    <2>3. TimeTypeOK'
      BY <1>1, <1>2 DEF ImuSingle, Integrate, NavTypeOK, TimeTypeOK
    <2> QED  BY <2>1, <2>2, <2>3 DEF NavTypeOK
  <1>4. ImuTimeConserved'
    <2>1. SUFFICES ASSUME ok' PROVE Spans(imu', navT', sampled')
      BY DEF ImuTimeConserved, Spans
    <2>2. Spans(imu, navT, sampled)
      BY <2>1 DEF NavInv, ImuTimeConserved, Spans, ImuSingle
    <2>3. Spans(Tail(imu), navT + imu[1].dt, sampled)
      BY <1>1, <2>2, SpansTail DEF NavTypeOK, TimeTypeOK
    <2> QED  BY <1>2, <2>3 DEF ImuSingle, Integrate
  <1>5. Flushed' /\ PendingBySensor'
    BY DEF NavInv, Flushed, PendingBySensor, ImuSingle, Measuring
  <1>6. CovarianceSettled'
    <2>1. pc' = "covariance"
      BY DEF ImuSingle
    <2>2. covT' + pending' = navT'
      BY <1>1, <1>2 DEF NavInv, CovarianceSettled, ImuSingle, Integrate, NavTypeOK, TimeTypeOK
    <2> QED  BY <2>1, <2>2 DEF CovarianceSettled
  <1> QED  BY <1>3, <1>4, <1>5, <1>6 DEF NavInv

\* The strapdown loop ends when it can take no further increment.
LEMMA StrapdownDonePreserves == ASSUME NavInv, StrapdownDone PROVE NavInv'
  <1>1. NavTypeOK'
    BY DEF NavInv, StrapdownDone, NavTypeOK, ControlTypeOK, ImuTypeOK, TimeTypeOK, QueueTypeOK,
           CorrectionTypeOK, Steps
  <1>2. ImuTimeConserved' /\ Flushed' /\ PendingBySensor' /\ CovarianceSettled'
    BY DEF NavInv, StrapdownDone, ImuTimeConserved, Flushed, PendingBySensor, CovarianceSettled,
           Measuring
  <1> QED  BY <1>1, <1>2 DEF NavInv

\* The pending covariance step is taken when it is due.
LEMMA PropagateCovariancePreserves == ASSUME NavInv, PropagateCovariance PROVE NavInv'
  <1>1. config.covPeriod \in Nat /\ TimeTypeOK
    BY ConfigType DEF NavInv, NavTypeOK
  <1>2. covT' \in Nat /\ pending' \in Nat /\ covT' + pending' = covT + pending
    BY <1>1 DEF PropagateCovariance, TimeTypeOK
  <1>3. NavTypeOK'
    <2>1. ControlTypeOK' /\ ImuTypeOK' /\ QueueTypeOK' /\ CorrectionTypeOK'
      BY DEF NavInv, PropagateCovariance, NavTypeOK, ControlTypeOK, ImuTypeOK, QueueTypeOK,
             CorrectionTypeOK, Steps
    <2> QED  BY <1>1, <1>2, <2>1 DEF PropagateCovariance, TimeTypeOK, NavTypeOK
  <1>4. ImuTimeConserved'
    BY DEF NavInv, PropagateCovariance, ImuTimeConserved
  <1>5. Flushed'
    BY DEF NavInv, PropagateCovariance, Flushed, AwaitingImuPair, Measuring
  <1>6. CovarianceSettled'
    <2>1. covT' + pending' = navT'
      BY <1>2 DEF NavInv, PropagateCovariance, CovarianceSettled
    <2>2. pending' = 0 \/ pending' < config'.covPeriod
      BY <1>1 DEF PropagateCovariance, CovarianceReady, TimeTypeOK
    <2>3. final' => pending' = 0
      BY <1>1 DEF PropagateCovariance, CovarianceReady, TimeTypeOK
    <2> QED  BY <2>1, <2>2, <2>3 DEF CovarianceSettled
  <1>7. PendingBySensor'
    BY DEF NavInv, PropagateCovariance, PendingBySensor
  <1> QED  BY <1>3, <1>4, <1>5, <1>6, <1>7 DEF NavInv

\* Measurements are only begun when no sampled increment waits.
LEMMA StartMeasurementsPreserves == ASSUME NavInv, StartMeasurements PROVE NavInv'
  <1>1. NavTypeOK'
    BY DEF NavInv, StartMeasurements, NavTypeOK, ControlTypeOK, ImuTypeOK, TimeTypeOK, QueueTypeOK,
           CorrectionTypeOK, Steps
  <1>2. ImuTimeConserved' /\ Flushed' /\ CovarianceSettled'
    BY DEF NavInv, StartMeasurements, ImuTimeConserved, Flushed, CovarianceSettled, Measuring
  <1>3. PendingBySensor'
    BY DEF NavInv, StartMeasurements, PendingBySensor
  <1> QED  BY <1>1, <1>2, <1>3 DEF NavInv

\* One measurement of a sensor is popped and judged by its gate.
LEMMA JudgePreserves == ASSUME NavInv, NEW s \in SensorNames, Judge(s) PROVE NavInv'
  <1>1. QueueTypeOK /\ CorrectionTypeOK /\ queue[s] \in Seq(Nat) /\ queue[s] # <<>>
    BY DEF NavInv, NavTypeOK, QueueTypeOK, Judge
  <1>2. /\ Head(queue[s]) \in Nat /\ Tail(queue[s]) \in Seq(Nat)
        /\ Len(queue[s]) \in Nat /\ Len(Tail(queue[s])) = Len(queue[s]) - 1
    BY <1>1, HeadTailProperties, EmptyIffLengthZero
  <1>3. dx' \subseteq dx \cup ({s} \X Nat)
    BY <1>2 DEF Judge
  <1>4. NavTypeOK'
    <2>1. ControlTypeOK' /\ ImuTypeOK' /\ TimeTypeOK'
      BY DEF NavInv, Judge, NavTypeOK, ControlTypeOK, ImuTypeOK, TimeTypeOK
    <2>2. queue' \in [SensorNames -> Seq(Nat)] /\ context' \in [SensorNames -> Nat]
      BY <1>1, <1>2 DEF Judge, QueueTypeOK
    <2>3. ASSUME NEW r \in SensorNames PROVE Len(queue'[r]) <= SensorCapacity
      <3>1. CASE r = s
        BY <1>1, <1>2, <3>1, CapacityAssumption DEF Judge, QueueTypeOK
      <3>2. CASE r # s
        BY <1>1, <3>2 DEF Judge, QueueTypeOK
      <3> QED  BY <3>1, <3>2
    <2>4. CorrectionTypeOK'
      BY <1>1, <1>3 DEF Judge, CorrectionTypeOK, MeasurementId
    <2> QED  BY <2>1, <2>2, <2>3, <2>4 DEF NavTypeOK, QueueTypeOK
  <1>5. ImuTimeConserved' /\ Flushed' /\ CovarianceSettled'
    BY DEF NavInv, Judge, ImuTimeConserved, Flushed, CovarianceSettled, Measuring
  <1>6. PendingBySensor'
    BY <1>3 DEF NavInv, Judge, PendingBySensor, SensorNames
  <1> QED  BY <1>4, <1>5, <1>6 DEF NavInv

\* A sensor's turn ends with the injection its policy asks for.
LEMMA SensorUpdatePreserves == ASSUME NavInv, NEW s \in SensorNames, SensorUpdate(s) PROVE NavInv'
  <1>1. NavTypeOK'
    BY DEF NavInv, SensorUpdate, Inject, NavTypeOK, ControlTypeOK, ImuTypeOK, TimeTypeOK,
           QueueTypeOK, CorrectionTypeOK, Steps
  <1>2. ImuTimeConserved' /\ Flushed' /\ CovarianceSettled'
    BY DEF NavInv, SensorUpdate, ImuTimeConserved, Flushed, CovarianceSettled, Measuring, SensorNames
  <1>3. PendingBySensor'
    <2>1. CASE s = "position"
      BY <2>1 DEF NavInv, SensorUpdate, Inject, PendingBySensor
    <2>2. CASE s = "velocity"
      BY <2>2 DEF NavInv, SensorUpdate, Inject, PendingBySensor
    <2> QED  BY <2>1, <2>2 DEF SensorNames
  <1> QED  BY <1>1, <1>2, <1>3 DEF NavInv

\* All sensors' corrections are injected at the end of the batch.
LEMMA FilterUpdatePreserves == ASSUME NavInv, FilterUpdate PROVE NavInv'
  <1>1. NavTypeOK'
    BY DEF NavInv, FilterUpdate, Inject, NavTypeOK, ControlTypeOK, ImuTypeOK, TimeTypeOK,
           QueueTypeOK, CorrectionTypeOK, Steps
  <1>2. ImuTimeConserved' /\ Flushed' /\ CovarianceSettled'
    BY DEF NavInv, FilterUpdate, ImuTimeConserved, Flushed, CovarianceSettled, Measuring
  <1>3. PendingBySensor'
    BY DEF NavInv, FilterUpdate, Inject, PendingBySensor
  <1> QED  BY <1>1, <1>2, <1>3 DEF NavInv

-----------------------------------------------------------------------------
(* The caller's operations. *)

\* An accepted increment extends the buffer to the new sample.
LEMMA PushImuExtends ==
    ASSUME NavTypeOK, NEW dt \in Nat \ {0}, PushImu(dt)
    PROVE  /\ ImuTypeOK' /\ sampled' = sampled + dt
           /\ ~ImuOverflows =>
                 /\ imu' = Append(imu, [t |-> sampled + dt, dt |-> dt])
                 /\ Len(imu') = Len(imu) + 1
                 /\ Spans(imu, navT, sampled) => Spans(imu', navT, sampled')
  <1> DEFINE x == [t |-> sampled + dt, dt |-> dt]
  <1>1. imu \in Seq(Increment) /\ Len(imu) \in Nat /\ Len(imu) <= ImuCapacity /\ TimeTypeOK
    BY EmptyIffLengthZero DEF NavTypeOK, ImuTypeOK
  <1>2. x \in Increment
    BY <1>1 DEF Increment, TimeTypeOK
  <1>3. Append(imu, x) \in Seq(Increment) /\ Len(Append(imu, x)) = Len(imu) + 1
    BY <1>1, <1>2, AppendProperties
  <1>4. ImuTypeOK' /\ sampled' = sampled + dt
    BY <1>1, <1>3, CapacityAssumption DEF PushImu, ImuTypeOK
  <1>5. ASSUME ~ImuOverflows
        PROVE  /\ imu' = Append(imu, x) /\ Len(imu') = Len(imu) + 1
               /\ Spans(imu, navT, sampled) => Spans(imu', navT, sampled')
    <2>1. Len(imu) < ImuCapacity
      <3>1. Len(imu) # ImuCapacity
        BY <1>5 DEF ImuOverflows
      <3> QED  BY <1>1, <3>1, CapacityAssumption
    <2>2. imu' = Append(imu, x)
      BY <2>1 DEF PushImu
    <2>3. Spans(imu, navT, sampled) => Spans(Append(imu, x), navT, sampled + dt)
      BY <1>1, SpansAppend DEF TimeTypeOK
    <2> QED  BY <1>3, <1>4, <2>2, <2>3
  <1> QED  BY <1>4, <1>5

\* A push between two calls keeps the invariant, at capacity too.
LEMMA PushImuPreserves ==
    ASSUME NavInv, pc = "idle", NEW dt \in Nat \ {0}, PushImu(dt), ok' = ~ImuOverflows,
           UNCHANGED <<config, pc, final, navT, covT, pending, queue, context, dx, correction>>, ok
    PROVE  NavInv'
  <1>1. NavTypeOK
    BY DEF NavInv
  <1>2. NavTypeOK'
    <2>1. ControlTypeOK' /\ QueueTypeOK' /\ CorrectionTypeOK'
      BY DEF NavInv, ImuOverflows, NavTypeOK, ControlTypeOK, QueueTypeOK, CorrectionTypeOK
    <2>2. ImuTypeOK' /\ sampled' = sampled + dt
      BY <1>1, PushImuExtends
    <2>3. TimeTypeOK'
      BY <1>1, <2>2 DEF NavTypeOK, TimeTypeOK
    <2> QED  BY <2>1, <2>2, <2>3 DEF NavTypeOK
  <1>3. ImuTimeConserved'
    <2>1. SUFFICES ASSUME ok' PROVE Spans(imu', navT, sampled')
      BY DEF ImuTimeConserved, Spans
    <2>2. Spans(imu, navT, sampled)
      BY DEF NavInv, ImuTimeConserved, Spans
    <2> QED  BY <1>1, <2>1, <2>2, PushImuExtends
  <1>4. Flushed' /\ CovarianceSettled' /\ PendingBySensor'
    BY DEF NavInv, Flushed, CovarianceSettled, PendingBySensor, Measuring
  <1> QED  BY <1>2, <1>3, <1>4 DEF NavInv

\* What a push leaves in a sensor's queue: as it was, or one measurement longer.
LEMMA PushMeasurementsExtends ==
    ASSUME QueueTypeOK, NEW sensors \in SUBSET SensorNames, NEW t \in Nat,
           PushMeasurements(sensors, t)
    PROVE  /\ QueueTypeOK'
           /\ \A s \in SensorNames :
                 /\ context'[s] \in {t, context[s]}
                 /\ s \in sensors /\ ~PushOverflows(sensors) => context'[s] = t
                 /\ \/ queue'[s] = queue[s]
                    \/ s \in sensors /\ context'[s] = t /\ queue'[s] = Append(queue[s], t)
  <1>1. ASSUME NEW s \in SensorNames
        PROVE  queue'[s] \in Seq(Nat) /\ Len(queue'[s]) <= SensorCapacity
    <2>1. queue[s] \in Seq(Nat) /\ Len(queue[s]) \in Nat /\ Len(queue[s]) <= SensorCapacity
      BY EmptyIffLengthZero DEF QueueTypeOK
    <2>2. Append(queue[s], t) \in Seq(Nat) /\ Len(Append(queue[s], t)) = Len(queue[s]) + 1
      BY <2>1, AppendProperties
    <2>3. CASE queue'[s] = queue[s]
      BY <2>1, <2>3
    <2>4. CASE queue'[s] = Append(queue[s], t) /\ Len(queue[s]) # SensorCapacity
      BY <2>1, <2>2, <2>4, CapacityAssumption
    <2> QED  BY <2>3, <2>4 DEF PushMeasurements, Full
  <1>2. QueueTypeOK'
    <2>1. DOMAIN queue' = SensorNames /\ queue' = [s \in SensorNames |-> queue'[s]]
      BY DEF PushMeasurements
    <2>2. queue' \in [SensorNames -> Seq(Nat)]
      BY <1>1, <2>1
    <2>3. context' \in [SensorNames -> Nat]
      BY DEF PushMeasurements, QueueTypeOK
    <2> QED  BY <1>1, <2>2, <2>3 DEF QueueTypeOK
  <1>3. ASSUME NEW s \in SensorNames
        PROVE  /\ context'[s] \in {t, context[s]}
               /\ s \in sensors /\ ~PushOverflows(sensors) => context'[s] = t
               /\ \/ queue'[s] = queue[s]
                  \/ s \in sensors /\ context'[s] = t /\ queue'[s] = Append(queue[s], t)
    BY DEF PushMeasurements, PushOverflows
  <1> QED  BY <1>2, <1>3

\* A push of measurements keeps the invariant, whichever sensors it reaches.
LEMMA PushMeasurementsPreserves ==
    ASSUME NavInv, pc = "idle", NEW sensors \in SUBSET SensorNames, NEW t \in Nat,
           PushMeasurements(sensors, t), ok' \in BOOLEAN, ok' => ok,
           UNCHANGED <<config, pc, final, imu, sampled, navT, covT, pending, dx, correction>>
    PROVE  NavInv'
  <1>1. QueueTypeOK'
    <2>1. QueueTypeOK
      BY DEF NavInv, NavTypeOK
    <2> QED  BY <2>1, PushMeasurementsExtends
  <1>2. NavTypeOK'
    BY <1>1 DEF NavInv, NavTypeOK, ControlTypeOK, ImuTypeOK, TimeTypeOK, CorrectionTypeOK
  <1>3. ImuTimeConserved' /\ Flushed' /\ CovarianceSettled' /\ PendingBySensor'
    BY DEF NavInv, ImuTimeConserved, Flushed, CovarianceSettled, PendingBySensor, Measuring
  <1> QED  BY <1>2, <1>3 DEF NavInv

\* The body of a call keeps the invariant, whoever called.
LEMMA NavStepPreserves == ASSUME NavInv, NavStep PROVE NavInv'
  <1>1. CASE ImuPair
    BY <1>1, ImuPairPreserves
  <1>2. CASE ImuSingle
    BY <1>2, ImuSinglePreserves
  <1>3. CASE StrapdownDone
    BY <1>3, StrapdownDonePreserves
  <1>4. CASE PropagateCovariance
    BY <1>4, PropagateCovariancePreserves
  <1>5. CASE StartMeasurements
    BY <1>5, StartMeasurementsPreserves
  <1>6. ASSUME NEW s \in SensorNames, Judge(s) \/ SensorUpdate(s) PROVE NavInv'
    <2>1. CASE Judge(s)
      BY <2>1, JudgePreserves
    <2>2. CASE SensorUpdate(s)
      BY <2>2, SensorUpdatePreserves
    <2> QED  BY <1>6, <2>1, <2>2
  <1>7. CASE FilterUpdate
    BY <1>7, FilterUpdatePreserves
  <1> QED  BY <1>1, <1>2, <1>3, <1>4, <1>5, <1>6, <1>7 DEF NavStep

\* The start of a call keeps the invariant.
LEMMA CallPreserves ==
    ASSUME NavInv, NEW finalize \in BOOLEAN, Call(finalize),
           UNCHANGED <<config, ok, imu, sampled, navT, covT, pending, queue, context, dx, correction>>
    PROVE  NavInv'
  <1>1. NavTypeOK'
    BY DEF NavInv, Call, NavTypeOK, ControlTypeOK, ImuTypeOK, TimeTypeOK, QueueTypeOK,
           CorrectionTypeOK, Steps
  <1>2. ImuTimeConserved' /\ Flushed' /\ CovarianceSettled' /\ PendingBySensor'
    BY DEF NavInv, Call, ImuTimeConserved, Flushed, CovarianceSettled, PendingBySensor, Measuring
  <1> QED  BY <1>1, <1>2 DEF NavInv

\* Every step, of a call or of its caller, keeps the invariant.
LEMMA StepPreserves == NavInv /\ [NavNext]_navVars => NavInv'
  <1> SUFFICES ASSUME NavInv, [NavNext]_navVars PROVE NavInv'
    OBVIOUS
  <1>1. CASE NavStep
    BY <1>1, NavStepPreserves
  <1>2. CASE CallerPushesImu
    <2>1. PICK dt \in 1..MaxDt : PushImu(dt)
      BY <1>2 DEF CallerPushesImu
    <2>2. dt \in Nat \ {0}
      BY CapacityAssumption
    <2> QED  BY <1>2, <2>1, <2>2, PushImuPreserves DEF CallerPushesImu
  <1>3. CASE CallerPushesMeasurements
    <2>1. PICK sensors \in SUBSET SensorNames \ {{}} :
              PushMeasurements(sensors, sampled) /\ ok' = ~PushOverflows(sensors)
      BY <1>3 DEF CallerPushesMeasurements
    <2>2. sampled \in Nat /\ ok' \in BOOLEAN
      BY <2>1 DEF NavInv, NavTypeOK, TimeTypeOK, PushOverflows
    <2> QED  BY <1>3, <2>1, <2>2, PushMeasurementsPreserves DEF CallerPushesMeasurements
  <1>4. CASE CallerUpdates
    BY <1>4, CallPreserves DEF CallerUpdates
  <1>5. CASE UNCHANGED navVars
    BY <1>5 DEF NavInv, NavTypeOK, ControlTypeOK, ImuTypeOK, TimeTypeOK, QueueTypeOK,
                 CorrectionTypeOK, ImuTimeConserved, Flushed, CovarianceSettled, PendingBySensor,
                 navVars
  <1> QED
    BY <1>1, <1>2, <1>3, <1>4, <1>5 DEF NavNext

-----------------------------------------------------------------------------
(* What the invariant gives. *)

\* Control, time and queues of the Navigator agree at every step, whoever calls it in whatever order.
THEOREM NavInvariant == NavSpec => []NavInv
  BY InitEstablishes, StepPreserves, PTL DEF NavSpec

\* Every variable keeps its type and no buffer exceeds its capacity.
THEOREM NavTypeCorrect == NavSpec => []NavTypeOK
  <1>1. NavInv => NavTypeOK
    BY DEF NavInv
  <1> QED  BY <1>1, NavInvariant, PTL

\* No sampled time is lost or integrated twice while the calls succeed.
THEOREM ImuTimeIsConserved == NavSpec => []ImuTimeConserved
  <1>1. NavInv => ImuTimeConserved
    BY DEF NavInv
  <1> QED  BY <1>1, NavInvariant, PTL

\* The covariance trails the state by the pending interval and by no more than
\* a covariance period between calls.
THEOREM CovarianceAlwaysFollows == NavSpec => []CovarianceFollowsState
  <1>1. NavInv => CovarianceFollowsState
    BY DEF NavInv, CovarianceSettled, CovarianceFollowsState
  <1> QED  BY <1>1, NavInvariant, PTL

\* Aiding is judged against the latest state, under compensation as well.
THEOREM JudgedAtLatest == NavSpec => []JudgedAtLatestState
  <1>1. NavInv => JudgedAtLatestState
    <2> SUFFICES ASSUME NavInv, ok, pc \in SensorNames \cup {"filter"}
                 PROVE  imu = <<>> /\ navT = sampled
      BY DEF JudgedAtLatestState
    <2>1. imu = <<>>
      BY DEF NavInv, Flushed, Measuring, SensorNames
    <2> QED  BY <2>1 DEF NavInv, ImuTimeConserved
  <1> QED  BY <1>1, NavInvariant, PTL

\* Every accepted measurement is injected before the call returns, and once.
THEOREM CorrectionsAreApplied == NavSpec => []CorrectionsApplied
  <1>1. NavInv => CorrectionsApplied
    <2> SUFFICES ASSUME NavInv PROVE dx \cap correction = {}
      BY DEF NavInv, PendingBySensor, CorrectionsApplied
    <2>1. CASE pc \notin {"position", "velocity", "filter"}
      BY <2>1 DEF NavInv, PendingBySensor
    <2>2. CASE pc = "position"
      BY <2>2 DEF NavInv, PendingBySensor
    <2>3. CASE pc \in {"velocity", "filter"}
      BY <2>3 DEF NavInv, PendingBySensor
    <2> QED  BY <2>1, <2>2, <2>3
  <1> QED  BY <1>1, NavInvariant, PTL
=============================================================================
