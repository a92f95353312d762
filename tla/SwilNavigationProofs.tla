-------------------------- MODULE SwilNavigationProofs --------------------------
(***************************************************************************)
(* The properties of SwilNavigation for every configuration of its producers *)
(* and every length of the mission.                                         *)
(*                                                                         *)
(* None of them is inductive.  SwilInv joins the invariant of the Navigator *)
(* with what relates it to the schedules: where each schedule stands after  *)
(* an epoch's publication, which increments a call can find in the buffer,  *)
(* and between which epochs the waiting measurements were taken.            *)
(***************************************************************************)
EXTENDS SwilNavigation, NavigatorProofs

\* The last epoch whose samples were published.
Published == IF stage = "publish" THEN epoch - 1 ELSE epoch

\* The stage of an epoch and the state of the Navigator's calls agree.
Controlled ==
    /\ cadence \in Cadences
    /\ epoch \in 0..cadence.end
    /\ stage \in {"publish", "call", "navigating", "finished", "failed"}
    /\ stage \in {"publish", "call"} => pc = "idle" /\ ok /\ ~final
    /\ stage = "finished" => pc = "idle" /\ ok /\ final
    /\ stage = "failed" => pc = "idle" /\ ~ok
    /\ stage \in {"navigating", "finished"} => (final <=> epoch = cadence.end)

\* Each schedule's next index is the first one after the last publication, and
\* the IMU's last sample was taken one period before its next, the first sample
\* at the first epoch.
Scheduled ==
    /\ due \in [Producers -> Nat]
    /\ \A p \in Producers : due[p] % cadence[p] = 0
    /\ IF Published < 0 THEN due["gnss"] = 0
       ELSE Published < due["gnss"] /\ due["gnss"] <= Published + cadence.gnss
    /\ IF Published <= 0 THEN due["imu"] = 0 /\ sampled = 0
       ELSE /\ Published < due["imu"] /\ due["imu"] <= Published + cadence.imu
            /\ sampled = IF due["imu"] = cadence.imu THEN 1 ELSE due["imu"] - cadence.imu

\* The buffer holds at most a pair.  Under compensation the two of a pair are
\* as long, except that the first pair of the mission may be of a short and a
\* long increment.
Paired ==
    ok => /\ Len(imu) <= 2
          /\ stage = "publish" => Len(imu) <= 1 /\ (Len(imu) = 1 => config.coning)
          /\ Len(imu) = 1 /\ config.coning => imu[1].dt = cadence.imu \/ imu[1] = [t |-> 1, dt |-> 1]
          /\ Len(imu) = 2 =>
                /\ config.coning
                /\ \/ imu[1].dt = cadence.imu /\ imu[2].dt = cadence.imu
                   \/ /\ navT = 0 /\ epoch = cadence.imu
                      /\ imu[1].dt = 1 /\ imu[2].dt = cadence.imu - 1
          /\ imu = <<>> /\ config.coning /\ ~final /\ sampled > 0 =>
                sampled = due["imu"] - cadence.imu

\* Only that first pair can fail a call, and it ends the strapdown loop.
FailedEarly ==
    /\ stage = "navigating" /\ ~ok => navT = 0 /\ epoch <= cadence.imu
    /\ pc = "strapdown" => ok

\* Measurements wait only for an increment's partner, and were all taken since
\* that increment.
Waiting ==
    \A s \in SensorNames :
        /\ context[s] <= epoch
        /\ \A i \in DOMAIN queue[s] :
              /\ queue[s][i] <= epoch
              /\ stage \in {"call", "navigating"} => epoch <= queue[s][i] + cadence.imu
              /\ ok /\ Len(imu) = 1 => sampled <= queue[s][i]
        /\ stage = "publish" /\ imu = <<>> => queue[s] = <<>>

\* Before they are processed the measurements of a sensor are a GNSS period
\* apart.
Spaced ==
    \A s \in SensorNames :
        queue[s] # <<>> /\ pc \notin SensorNames \cup {"filter"} =>
            Head(queue[s]) + cadence.gnss * Len(queue[s]) <= due["gnss"]

\* What a call leaves behind when it ends.
Drained ==
    /\ pc \in {"velocity", "filter"} => queue["position"] = <<>>
    /\ pc = "filter" => queue["velocity"] = <<>>
    /\ stage \in {"navigating", "finished"} /\ pc = "idle" /\ ok =>
          \/ imu = <<>> /\ \A s \in SensorNames : queue[s] = <<>>
          \/ Len(imu) = 1 /\ config.coning /\ ~final

\* With a log at the application rate the correction in force between two calls
\* is in the log.
Logged ==
    /\ logged \in Seq([t : Nat, correction : SUBSET MeasurementId])
    /\ cadence.log = 1 =>
        /\ stage \in {"publish", "call", "navigating"} => due["log"] <= epoch
        /\ stage \in {"publish", "call"} \/ pc \in {"strapdown", "covariance", "measurements"} =>
              correction = {} \/ \E i \in DOMAIN logged : logged[i].correction = correction

SwilInv ==
    NavInv /\ Controlled /\ Scheduled /\ Paired /\ FailedEarly /\ Waiting /\ Spaced /\ Drained /\ Logged

-----------------------------------------------------------------------------
(* Facts about multiples. *)

\* What the quotient and the remainder are.
LEMMA Division ==
    ASSUME NEW c \in Nat \ {0}, NEW e \in Nat
    PROVE  e \div c \in Nat /\ e % c \in 0..(c - 1) /\ e = c * (e \div c) + (e % c)
  OBVIOUS

\* A multiple has no remainder.
LEMMA MultipleHasNoRemainder == ASSUME NEW c \in Nat \ {0}, NEW q \in Nat PROVE (c * q) % c = 0
  OBVIOUS

\* The multiple that follows another.
LEMMA NextMultiple ==
    ASSUME NEW c \in Nat, NEW q \in Nat PROVE c * (q + 1) = c * q + c /\ c * q \in Nat
  OBVIOUS

\* No more multiples fit than the quotient says.
LEMMA MultiplesWithin ==
    ASSUME NEW c \in Nat \ {0}, NEW e \in Nat, NEW n \in Nat, c * n <= e PROVE n <= e \div c
  OBVIOUS

\* The remainders at the second and after the first multiple.
LEMMA SmallRemainders ==
    ASSUME NEW c \in Nat \ {0}
    PROVE  1 % c = (IF c = 1 THEN 0 ELSE 1) /\ 0 % c = 0 /\ ((c + 1) % c = 0 => c = 1)
  OBVIOUS

\* The index after an epoch is the first multiple of the period beyond it.
LEMMA FirstIndexAfter ==
    ASSUME NEW c \in Nat \ {0}, NEW e \in Nat
    PROVE  /\ c * ((e \div c) + 1) \in Nat
           /\ (c * ((e \div c) + 1)) % c = 0
           /\ c * ((e \div c) + 1) = e - (e % c) + c
           /\ e % c \in 0..(c - 1)
  <1>1. e \div c \in Nat /\ e = c * (e \div c) + (e % c) /\ e % c \in 0..(c - 1)
    BY Division
  <1>2. c * ((e \div c) + 1) = c * (e \div c) + c /\ c * (e \div c) \in Nat
    BY <1>1, NextMultiple
  <1>3. (c * ((e \div c) + 1)) % c = 0
    BY <1>1, MultipleHasNoRemainder
  <1> QED  BY <1>1, <1>2, <1>3

\* The types the configuration gives.
LEMMA CadenceType ==
    ASSUME Controlled
    PROVE  /\ cadence.imu \in Nat \ {0} /\ cadence.gnss \in Nat \ {0} /\ cadence.log \in Nat \ {0}
           /\ cadence.end \in Nat /\ epoch \in Nat /\ epoch <= cadence.end
           /\ \A p \in Producers : cadence[p] \in Nat \ {0}
  <1>1. cadence \in Cadence
    BY CadenceAssumption DEF Controlled
  <1>2. cadence.end \in Nat /\ \A p \in Producers : cadence[p] \in Nat \ {0}
    BY <1>1 DEF Cadence, Producers
  <1>3. epoch \in Nat /\ epoch <= cadence.end
    BY <1>2 DEF Controlled
  <1> QED  BY <1>2, <1>3 DEF Producers

\* What a consumed schedule's next index is.
LEMMA ConsumedIndex ==
    ASSUME Controlled, NEW p \in Producers
    PROVE  /\ Consumed(p) \in Nat /\ Consumed(p) % cadence[p] = 0
           /\ Consumed(p) = epoch - (epoch % cadence[p]) + cadence[p]
           /\ epoch < Consumed(p) /\ Consumed(p) <= epoch + cadence[p]
           /\ cadence[p] = 1 => Consumed(p) = epoch + 1
  <1>1. cadence[p] \in Nat \ {0} /\ epoch \in Nat
    BY CadenceType
  <1>2. /\ Consumed(p) \in Nat /\ Consumed(p) % cadence[p] = 0
        /\ Consumed(p) = epoch - (epoch % cadence[p]) + cadence[p]
        /\ epoch % cadence[p] \in 0..(cadence[p] - 1)
    BY <1>1, FirstIndexAfter DEF Consumed
  <1> DEFINE r == epoch % cadence[p]
             c == cadence[p]
             k == Consumed(p)
  <1>3. c \in Nat \ {0} /\ k = epoch - r + c /\ r \in 0..(c - 1)
    BY <1>1, <1>2
  <1> HIDE DEF r, c, k
  <1>4. epoch < k /\ k <= epoch + c /\ (c = 1 => k = epoch + 1)
    BY <1>1, <1>3
  <1> QED  BY <1>2, <1>4 DEF c, k

\* The last sample is no later than the publication and less than an IMU period
\* before it.
LEMMA SampledRecently ==
    ASSUME NavTypeOK, Controlled, Scheduled
    PROVE  /\ sampled \in Nat /\ due["imu"] \in Nat /\ due["gnss"] \in Nat /\ due["log"] \in Nat
           /\ Published > 0 =>
                /\ 0 < sampled /\ sampled <= Published /\ Published < sampled + cadence.imu
                /\ due["imu"] <= sampled + cadence.imu
           /\ Published <= 0 => sampled = 0 /\ due["imu"] = 0
           /\ Published \in Int /\ epoch <= Published + 1 /\ Published <= epoch
  <1>1. cadence.imu \in Nat \ {0} /\ epoch \in Nat
    BY CadenceType
  <1>2. sampled \in Nat /\ due["imu"] \in Nat /\ due["gnss"] \in Nat /\ due["log"] \in Nat
    BY DEF NavTypeOK, TimeTypeOK, Scheduled, Producers
  <1>3. Published \in Int /\ epoch <= Published + 1 /\ Published <= epoch
    BY <1>1 DEF Published
  <1> QED  BY <1>1, <1>2, <1>3 DEF Scheduled

-----------------------------------------------------------------------------
(* The publication of an epoch. *)

Sampling == epoch > 0 /\ Due("imu")

\* What a publication does, part by part.
LEMMA PublishParts ==
    ASSUME Publish
    PROVE  /\ stage = "publish" /\ stage' \in {"call", "failed"}
           /\ stage' = "call" <=> ok' = TRUE
           /\ UNCHANGED <<config, pc, final, navT, covT, pending, dx, correction, cadence, epoch,
                          logged>>
           /\ Sampling => PushImu(epoch - sampled) /\ due'["imu"] = Consumed("imu")
           /\ ~Sampling => UNCHANGED <<imu, sampled>> /\ due'["imu"] = due["imu"]
           /\ due'["gnss"] = IF Due("gnss") THEN Consumed("gnss") ELSE due["gnss"]
           /\ due'["log"] = due["log"]
           /\ due' = [p \in Producers |-> due'[p]]
           /\ \/ Sampling /\ ImuOverflows /\ ok' = FALSE /\ UNCHANGED <<queue, context>>
              \/ /\ ~(Sampling /\ ImuOverflows)
                 /\ \E measured \in SUBSET SensorNames :
                       /\ measured # {} => Due("gnss")
                       /\ ok' = ~PushOverflows(measured)
                       /\ PushMeasurements(measured, epoch)
  <1>1. /\ stage = "publish" /\ stage' = (IF ok' THEN "call" ELSE "failed")
        /\ UNCHANGED <<config, pc, final, navT, covT, pending, dx, correction, cadence, epoch,
                       logged>>
    BY DEF Publish
  <1>2. ok' \in BOOLEAN
    BY DEF Publish, PushOverflows
  <1>3. IF Sampling THEN PushImu(epoch - sampled) ELSE UNCHANGED <<imu, sampled>>
    BY DEF Publish, Sampling
  <1>4. due' = [p \in Producers |->
            IF (p = "imu" /\ Sampling) \/ (p = "gnss" /\ Due("gnss")) THEN Consumed(p) ELSE due[p]]
    BY DEF Publish, Sampling
  <1>5. \E measured \in {{}, IF Due("gnss") THEN SensorNames ELSE {}} :
            IF Sampling /\ ImuOverflows
            THEN ok' = FALSE /\ UNCHANGED <<queue, context>>
            ELSE ok' = ~PushOverflows(measured) /\ PushMeasurements(measured, epoch)
    BY DEF Publish, Sampling
  <1>6. /\ Sampling => due'["imu"] = Consumed("imu")
        /\ ~Sampling => due'["imu"] = due["imu"]
        /\ due'["gnss"] = IF Due("gnss") THEN Consumed("gnss") ELSE due["gnss"]
        /\ due'["log"] = due["log"]
        /\ due' = [p \in Producers |-> due'[p]]
    BY <1>4 DEF Producers
  <1> QED  BY <1>1, <1>2, <1>3, <1>5, <1>6

\* An increment reaches from the last sample to its epoch, which is the one
\* that was due unless it is the first.
LEMMA SamplingReach ==
    ASSUME NavTypeOK, Controlled, Scheduled, stage = "publish", Sampling
    PROVE  /\ epoch - sampled \in Nat \ {0} /\ sampled + (epoch - sampled) = epoch
           /\ epoch = 1 => sampled = 0
           /\ epoch # 1 => due["imu"] = epoch /\ epoch % cadence.imu = 0 /\ 0 < sampled
  <1>1. /\ epoch \in Nat /\ epoch > 0 /\ Published = epoch - 1 /\ due["imu"] <= epoch
        /\ cadence.imu \in Nat \ {0} /\ due["imu"] % cadence.imu = 0
    BY CadenceType DEF Sampling, Due, Published, Scheduled, Producers
  <1>2. sampled \in Nat /\ due["imu"] \in Nat
    BY SampledRecently
  <1>3. CASE epoch = 1
    BY <1>1, <1>2, <1>3, SampledRecently
  <1>4. CASE epoch # 1
    <2>1. Published > 0
      BY <1>1, <1>4
    <2>2. 0 < sampled /\ sampled <= Published
      BY <2>1, SampledRecently
    <2>3. Published < due["imu"]
      BY <1>1, <2>1 DEF Scheduled
    <2>4. due["imu"] = epoch
      BY <1>1, <1>2, <2>3
    <2> QED  BY <1>1, <1>2, <1>4, <2>2, <2>4
  <1> QED  BY <1>3, <1>4

\* Publication moves every schedule that was due past its epoch.
LEMMA PublishKeepsSchedules ==
    ASSUME NavTypeOK, Controlled, Scheduled, Publish
    PROVE  Scheduled' /\ Published' = epoch /\ (Sampling => sampled' = epoch)
  <1>1. stage = "publish" /\ epoch' = epoch /\ cadence' = cadence /\ Published' = epoch
    BY PublishParts DEF Published
  <1>2. /\ epoch \in Nat /\ Published = epoch - 1
        /\ cadence.imu \in Nat \ {0} /\ cadence.gnss \in Nat \ {0}
        /\ sampled \in Nat /\ due["imu"] \in Nat /\ due["gnss"] \in Nat
    BY <1>1, CadenceType, SampledRecently DEF Published
  <1>3. due'["gnss"] % cadence.gnss = 0 /\ epoch < due'["gnss"] /\ due'["gnss"] <= epoch + cadence.gnss
    <2>1. due["gnss"] % cadence.gnss = 0
      BY DEF Scheduled, Producers
    <2>2. due["gnss"] <= epoch + cadence.gnss
      BY <1>2 DEF Scheduled
    <2>3. CASE Due("gnss")
      BY <2>3, PublishParts, ConsumedIndex DEF Producers
    <2>4. CASE ~Due("gnss")
      BY <1>2, <2>1, <2>2, <2>4, PublishParts DEF Due
    <2> QED  BY <2>3, <2>4
  <1>4. due'["imu"] % cadence.imu = 0
    <2>1. due["imu"] % cadence.imu = 0
      BY DEF Scheduled, Producers
    <2> QED  BY <2>1, PublishParts, ConsumedIndex DEF Producers
  <1>5. Sampling => sampled' = epoch
    BY <1>1, SamplingReach, PublishParts DEF PushImu
  <1>6. IF epoch <= 0 THEN due'["imu"] = 0 /\ sampled' = 0
        ELSE /\ epoch < due'["imu"] /\ due'["imu"] <= epoch + cadence.imu
             /\ sampled' = IF due'["imu"] = cadence.imu THEN 1 ELSE due'["imu"] - cadence.imu
    <2>1. CASE Sampling
      <3>1. /\ due'["imu"] = Consumed("imu") /\ sampled' = epoch /\ epoch > 0
            /\ epoch < Consumed("imu") /\ Consumed("imu") <= epoch + cadence.imu
            /\ Consumed("imu") = epoch - (epoch % cadence.imu) + cadence.imu
        BY <1>5, <2>1, PublishParts, ConsumedIndex DEF Sampling, Producers
      <3>2. epoch = 1 => epoch % cadence.imu = IF cadence.imu = 1 THEN 0 ELSE 1
        BY <1>2, SmallRemainders
      <3>3. epoch # 1 => epoch % cadence.imu = 0
        BY <1>1, <2>1, SamplingReach
      <3>4. CASE epoch = 1 /\ cadence.imu # 1
        <4>1. epoch % cadence.imu = 1
          BY <3>2, <3>4
        <4> QED  BY <1>2, <3>1, <3>4, <4>1
      <3>5. CASE epoch # 1 \/ cadence.imu = 1
        <4>1. epoch % cadence.imu = 0
          BY <3>2, <3>3, <3>5
        <4> DEFINE c == cadence.imu
                   k == due'["imu"]
        <4>2. k = epoch + c /\ c \in Nat \ {0} /\ epoch \in Nat \ {0}
          BY <1>2, <3>1, <4>1
        <4>3. sampled' = epoch /\ epoch < k /\ k <= epoch + c
          BY <3>1
        <4> HIDE DEF c, k
        <4>4. k # c /\ k - c = epoch /\ ~(epoch <= 0)
          BY <4>2
        <4> QED  BY <4>3, <4>4 DEF c, k
      <3> QED  BY <3>4, <3>5
    <2>2. CASE ~Sampling
      <3>1. due'["imu"] = due["imu"] /\ sampled' = sampled
        BY <2>2, PublishParts
      <3>2. CASE epoch = 0
        BY <1>2, <3>1, <3>2, SampledRecently
      <3>3. CASE epoch # 0
        <4>1. due["imu"] > epoch
          BY <1>2, <2>2, <3>3 DEF Sampling, Due
        <4>2. Published > 0
          BY <1>2, <4>1, SampledRecently
        <4> QED  BY <1>2, <3>1, <4>1, <4>2 DEF Scheduled
      <3> QED  BY <3>2, <3>3
    <2> QED  BY <2>1, <2>2
  <1>7. /\ due' \in [Producers -> Nat]
        /\ \A p \in Producers : due'[p] % cadence'[p] = 0
    <2>1. due'["log"] \in Nat /\ due'["log"] % cadence.log = 0
      BY PublishParts DEF Scheduled, Producers
    <2>2. due'["imu"] \in Nat /\ due'["gnss"] \in Nat
      BY <1>2, PublishParts, ConsumedIndex DEF Producers
    <2>3. due' = [p \in Producers |-> due'[p]]
      BY PublishParts
    <2>4. \A p \in Producers : due'[p] \in Nat /\ due'[p] % cadence[p] = 0
      BY <1>3, <1>4, <2>1, <2>2 DEF Producers
    <2> QED  BY <1>1, <2>3, <2>4
  <1> QED  BY <1>1, <1>2, <1>3, <1>5, <1>6, <1>7 DEF Scheduled

\* Publication keeps the Navigator's invariant, a rejected sample included.
LEMMA PublishKeepsNavigator ==
    ASSUME NavInv, Controlled, Scheduled, Publish
    PROVE  NavInv'
  <1>1. /\ NavTypeOK /\ pc = "idle" /\ ok /\ stage = "publish" /\ epoch \in Nat
        /\ UNCHANGED <<config, pc, final, navT, covT, pending, dx, correction>>
    BY PublishParts, CadenceType DEF NavInv, Controlled
  <1>2. QueueTypeOK' /\ ok' \in BOOLEAN
    <2>1. CASE ok' = FALSE /\ UNCHANGED <<queue, context>>
      BY <1>1, <2>1 DEF NavTypeOK, QueueTypeOK
    <2>2. CASE \E measured \in SUBSET SensorNames :
                  ok' = ~PushOverflows(measured) /\ PushMeasurements(measured, epoch)
      BY <1>1, <2>2, PushMeasurementsExtends DEF NavTypeOK, PushOverflows
    <2> QED  BY <2>1, <2>2, PublishParts
  <1>3. /\ ImuTypeOK' /\ sampled' \in Nat
        /\ ok' => Spans(imu', navT, sampled')
    <2>1. Spans(imu, navT, sampled) /\ sampled \in Nat
      BY <1>1 DEF NavInv, ImuTimeConserved, Spans, NavTypeOK, TimeTypeOK
    <2>2. CASE Sampling
      <3>1. epoch - sampled \in Nat \ {0} /\ sampled + (epoch - sampled) = epoch
        BY <1>1, <2>2, SamplingReach
      <3>2. PushImu(epoch - sampled) /\ (ok' => ~ImuOverflows)
        BY <2>2, PublishParts
      <3>3. /\ ImuTypeOK' /\ sampled' = sampled + (epoch - sampled)
            /\ ~ImuOverflows => (Spans(imu, navT, sampled) => Spans(imu', navT, sampled'))
        BY <1>1, <3>1, <3>2, PushImuExtends
      <3> QED  BY <1>1, <2>1, <3>1, <3>2, <3>3
    <2>3. CASE ~Sampling
      <3>1. imu' = imu /\ sampled' = sampled
        BY <2>3, PublishParts
      <3> QED  BY <1>1, <2>1, <3>1 DEF NavTypeOK, ImuTypeOK
    <2> QED  BY <2>2, <2>3
  <1>4. NavTypeOK'
    BY <1>1, <1>2, <1>3 DEF NavTypeOK, ControlTypeOK, TimeTypeOK, CorrectionTypeOK
  <1>5. ImuTimeConserved'
    <2>1. SUFFICES ASSUME ok' PROVE Spans(imu', navT', sampled')
      BY DEF ImuTimeConserved, Spans
    <2> QED  BY <1>1, <1>3, <2>1
  <1>6. Flushed' /\ CovarianceSettled' /\ PendingBySensor'
    BY <1>1 DEF NavInv, Flushed, CovarianceSettled, PendingBySensor, Measuring
  <1> QED  BY <1>4, <1>5, <1>6 DEF NavInv

\* The increment of a buffer that holds just one.
LEMMA SingleIncrement ==
    ASSUME NavInv, ok, Len(imu) = 1
    PROVE  imu # <<>> /\ imu[1].t = sampled /\ sampled = navT + imu[1].dt /\ imu[1].dt \in Nat \ {0}
  <1>1. imu \in Seq(Increment) /\ navT \in Nat
    BY DEF NavInv, NavTypeOK, ImuTypeOK, TimeTypeOK
  <1>2. imu # <<>> /\ DOMAIN imu = 1..1
    <2>1. DOMAIN imu = 1..Len(imu)
      BY <1>1, LenProperties
    <2>2. imu # <<>>
      BY <1>1, EmptyIffLengthZero
    <2> QED  BY <2>1, <2>2
  <1>3. imu[1].t = sampled /\ imu[1].t - imu[1].dt = navT
    BY <1>2 DEF NavInv, ImuTimeConserved
  <1>4. imu[1].dt \in Nat \ {0} /\ imu[1].t \in Nat
    <2>1. imu[1] \in Increment
      BY <1>1, ElementOfSeq
    <2> QED  BY <2>1 DEF Increment
  <1> QED  BY <1>1, <1>2, <1>3, <1>4

\* An increment that joins a waiting one makes an even pair, or the first of
\* the mission.
LEMMA PublishKeepsPairs ==
    ASSUME NavInv, Controlled, Scheduled, Paired, Publish
    PROVE  Paired'
  <1> DEFINE c == cadence.imu
             x == [t |-> epoch, dt |-> epoch - sampled]
  <1>1. /\ NavTypeOK /\ ok /\ ~final /\ stage = "publish" /\ stage' # "publish"
        /\ epoch \in Nat /\ c \in Nat \ {0} /\ sampled \in Nat
        /\ UNCHANGED <<config, final, navT, epoch, cadence>>
    BY PublishParts, CadenceType DEF NavInv, Controlled, NavTypeOK, TimeTypeOK
  <1>2. imu \in Seq(Increment) /\ Len(imu) \in {0, 1} /\ (Len(imu) = 1 => config.coning)
    <2>1. imu \in Seq(Increment) /\ Len(imu) \in Nat
      BY <1>1, EmptyIffLengthZero DEF NavTypeOK, ImuTypeOK
    <2>2. Len(imu) <= 1 /\ (Len(imu) = 1 => config.coning)
      BY <1>1 DEF Paired
    <2>3. Len(imu) \in Nat /\ Len(imu) <= 1
      BY <2>1, <2>2
    <2>4. Len(imu) = 0 \/ Len(imu) = 1
      BY <2>3
    <2> QED  BY <2>1, <2>2, <2>4, Zenon
  <1>3. SUFFICES ASSUME ok' PROVE Paired'
    BY DEF Paired
  <1>4. CASE ~Sampling
    <2>1. imu' = imu /\ sampled' = sampled /\ due'["imu"] = due["imu"]
      BY <1>4, PublishParts
    <2> QED  BY <1>1, <1>2, <2>1 DEF Paired
  <1>5. CASE Sampling
    <2>1. epoch - sampled \in Nat \ {0} /\ sampled + (epoch - sampled) = epoch
      BY <1>1, <1>5, SamplingReach
    <2>2. PushImu(epoch - sampled) /\ ~ImuOverflows
      BY <1>3, <1>5, PublishParts
    <2>3. imu' = Append(imu, x) /\ Len(imu') = Len(imu) + 1
      <3>1. imu' = Append(imu, [t |-> sampled + (epoch - sampled), dt |-> epoch - sampled])
        BY <1>1, <2>1, <2>2, PushImuExtends
      <3>2. Len(imu') = Len(imu) + 1
        BY <1>1, <2>1, <2>2, PushImuExtends
      <3> QED  BY <2>1, <3>1, <3>2
    <2>4. /\ imu' \in Seq(Increment) /\ imu' # <<>>
          /\ imu'[Len(imu) + 1] = x /\ (Len(imu) = 1 => imu'[1] = imu[1])
      <3>1. x \in Increment
        BY <1>1, <2>1 DEF Increment
      <3> HIDE DEF x
      <3> QED  BY <1>2, <2>3, <3>1, AppendProperties
    <2>5. CASE Len(imu) = 0
      <3>1. imu = <<>> /\ imu'[1] = x /\ Len(imu') = 1
        BY <1>2, <2>3, <2>4, <2>5, EmptyIffLengthZero
      <3>2. config.coning => x.dt = c \/ x = [t |-> 1, dt |-> 1]
        <4>1. CASE epoch = 1
          BY <1>1, <1>5, <4>1, SamplingReach
        <4>2. CASE epoch # 1
          <5>1. due["imu"] = epoch /\ 0 < sampled
            BY <1>1, <1>5, <4>2, SamplingReach
          <5>2. config.coning => sampled = epoch - c
            BY <1>1, <3>1, <5>1 DEF Paired
          <5> QED  BY <1>1, <5>2
        <4> QED  BY <4>1, <4>2
      <3> QED  BY <1>1, <2>4, <3>1, <3>2 DEF Paired
    <2>6. CASE Len(imu) = 1
      <3>1. /\ config.coning /\ Len(imu') = 2 /\ imu'[1] = imu[1] /\ imu'[2] = x
        BY <1>2, <2>3, <2>4, <2>6
      <3>2. sampled = navT + imu[1].dt /\ imu[1].dt \in Nat \ {0} /\ navT \in Nat
        BY <1>1, <2>6, SingleIncrement DEF NavTypeOK, TimeTypeOK
      <3>3. imu[1].dt = c \/ imu[1].dt = 1
        BY <1>1, <2>6, <3>1 DEF Paired
      <3>4. imu[1].dt # c => sampled = 1 /\ navT = 0
        <4>1. imu[1].dt # c => imu[1] = [t |-> 1, dt |-> 1]
          BY <1>1, <2>6, <3>1 DEF Paired
        <4>2. imu[1].t = sampled
          BY <1>1, <2>6, SingleIncrement
        <4> QED  BY <1>1, <3>2, <4>1, <4>2
      <3>5. /\ epoch # 1 /\ due["imu"] = epoch
            /\ due["imu"] % c = 0
            /\ sampled = IF due["imu"] = c THEN 1 ELSE due["imu"] - c
        <4>1. epoch # 1
          BY <1>1, <1>5, <3>2, SamplingReach
        <4>2. due["imu"] = epoch /\ due["imu"] % c = 0
          BY <1>1, <1>5, <4>1, SamplingReach
        <4>3. Published \in Int /\ Published > 0
          BY <1>1, <1>5, <4>1 DEF Published, Sampling
        <4>4. sampled = IF due["imu"] = c THEN 1 ELSE due["imu"] - c
          BY <4>3 DEF Scheduled
        <4> QED  BY <4>1, <4>2, <4>4
      <3> HIDE DEF c
      <3>6. CASE epoch = c
        <4>1. sampled = 1 /\ x.dt = c - 1
          BY <3>5, <3>6
        <4>2. navT = 0 /\ imu[1].dt = 1
          BY <3>2, <4>1
        <4> QED  BY <1>1, <2>4, <3>1, <3>6, <4>1, <4>2 DEF Paired, c
      <3>7. CASE epoch # c
        <4>1. sampled = epoch - c /\ x.dt = c
          BY <1>1, <3>5, <3>7
        <4>2. imu[1].dt = c
          <5>1. SUFFICES ASSUME imu[1].dt # c PROVE FALSE
            OBVIOUS
          <5>2. epoch = c + 1
            BY <1>1, <3>4, <4>1, <5>1
          <5>3. c = 1
            BY <1>1, <3>5, <5>2, SmallRemainders
          <5> QED  BY <3>3, <5>1, <5>3
        <4> QED  BY <1>1, <2>4, <3>1, <4>1, <4>2 DEF Paired, c
      <3> QED  BY <3>6, <3>7
    <2> QED  BY <1>2, <2>5, <2>6
  <1> QED  BY <1>4, <1>5

\* What a sensor's queue and context are after a publication.
LEMMA PublishQueues ==
    ASSUME NavTypeOK, Controlled, Publish, NEW s \in SensorNames
    PROVE  /\ queue[s] \in Seq(Nat) /\ context'[s] \in {epoch, context[s]}
           /\ \/ queue'[s] = queue[s]
              \/ /\ Due("gnss") /\ queue'[s] = Append(queue[s], epoch)
                 /\ queue'[s] \in Seq(Nat) /\ queue'[s] # <<>>
                 /\ Len(queue'[s]) = Len(queue[s]) + 1
                 /\ queue'[s][Len(queue[s]) + 1] = epoch
                 /\ \A i \in 1..Len(queue[s]) : queue'[s][i] = queue[s][i]
  <1>1. QueueTypeOK /\ epoch \in Nat /\ queue[s] \in Seq(Nat)
    BY CadenceType DEF NavTypeOK, QueueTypeOK
  <1>2. CASE UNCHANGED <<queue, context>>
    BY <1>1, <1>2
  <1>3. CASE \E measured \in SUBSET SensorNames :
                /\ measured # {} => Due("gnss")
                /\ PushMeasurements(measured, epoch)
    <2>1. PICK measured \in SUBSET SensorNames :
                /\ measured # {} => Due("gnss")
                /\ PushMeasurements(measured, epoch)
      BY <1>3
    <2>2. /\ context'[s] \in {epoch, context[s]}
          /\ \/ queue'[s] = queue[s]
             \/ s \in measured /\ queue'[s] = Append(queue[s], epoch)
      BY <1>1, <2>1, PushMeasurementsExtends
    <2>3. CASE queue'[s] = queue[s]
      BY <1>1, <2>2, <2>3
    <2>4. CASE s \in measured /\ queue'[s] = Append(queue[s], epoch)
      <3>1. Due("gnss")
        BY <2>1, <2>4
      <3>2. /\ Append(queue[s], epoch) \in Seq(Nat) /\ Append(queue[s], epoch) # <<>>
            /\ Len(Append(queue[s], epoch)) = Len(queue[s]) + 1
            /\ Append(queue[s], epoch)[Len(queue[s]) + 1] = epoch
            /\ \A i \in 1..Len(queue[s]) : Append(queue[s], epoch)[i] = queue[s][i]
        BY <1>1, AppendProperties
      <3> QED  BY <1>1, <2>2, <2>4, <3>1, <3>2
    <2> QED  BY <2>2, <2>3, <2>4
  <1> QED  BY <1>2, <1>3, PublishParts

\* A waiting measurement is at most an IMU period old when the next increment
\* arrives.
LEMMA PublishKeepsWaiting ==
    ASSUME NavInv, Controlled, Scheduled, Paired, Waiting, Publish
    PROVE  Waiting'
  <1> DEFINE c == cadence.imu
  <1>1. /\ NavTypeOK /\ ok /\ stage = "publish" /\ stage' # "publish"
        /\ epoch \in Nat /\ c \in Nat \ {0} /\ sampled \in Nat
        /\ UNCHANGED <<epoch, cadence>>
    BY PublishParts, CadenceType DEF NavInv, Controlled, NavTypeOK, TimeTypeOK
  <1>2. epoch <= sampled + c /\ sampled <= epoch /\ sampled' \in Nat /\ sampled' <= epoch
    <2>1. epoch <= sampled + c /\ sampled <= epoch
      <3>1. /\ Published > 0 => sampled <= Published /\ Published < sampled + c
            /\ Published <= 0 => sampled = 0
            /\ Published \in Int /\ Published = epoch - 1
        BY <1>1, SampledRecently DEF Published
      <3> QED  BY <1>1, <3>1
    <2>2. CASE Sampling
      <3>1. sampled' = epoch
        BY <1>1, <2>2, PublishKeepsSchedules
      <3> QED  BY <1>1, <2>1, <3>1
    <2>3. CASE ~Sampling
      <3>1. sampled' = sampled
        BY <2>3, PublishParts
      <3> QED  BY <1>1, <2>1, <3>1
    <2> QED  BY <2>2, <2>3
  <1>3. ASSUME ok', Len(imu') = 1, imu # <<>> PROVE sampled' = sampled
    <2>1. imu \in Seq(Increment) /\ Len(imu) \in Nat /\ Len(imu) # 0
      BY <1>1, <1>3, EmptyIffLengthZero DEF NavTypeOK, ImuTypeOK
    <2>2. CASE Sampling
      <3>1. epoch - sampled \in Nat \ {0} /\ PushImu(epoch - sampled) /\ ~ImuOverflows
        BY <1>1, <1>3, <2>2, SamplingReach, PublishParts
      <3>2. Len(imu') = Len(imu) + 1
        BY <1>1, <3>1, PushImuExtends
      <3>3. Len(imu) + 1 = 1
        BY <1>3, <3>2, Zenon
      <3>4. Len(imu) \in Nat /\ Len(imu) # 0
        BY <2>1
      <3> QED  BY <3>3, <3>4
    <2> QED  BY <2>2, PublishParts
  <1>4. ASSUME NEW s \in SensorNames
        PROVE  /\ context'[s] <= epoch
               /\ \A i \in DOMAIN queue'[s] :
                     /\ queue'[s][i] <= epoch
                     /\ epoch <= queue'[s][i] + c
                     /\ ok' /\ Len(imu') = 1 => sampled' <= queue'[s][i]
    <2>1. queue[s] \in Seq(Nat) /\ Len(queue[s]) \in Nat /\ DOMAIN queue[s] = 1..Len(queue[s])
      BY <1>1, PublishQueues, LenProperties
    <2>2. context'[s] <= epoch
      <3>1. context[s] <= epoch /\ context'[s] \in {epoch, context[s]}
        BY <1>1, PublishQueues DEF Waiting
      <3> QED  BY <1>1, <3>1
    <2>3. ASSUME NEW i \in 1..Len(queue[s])
          PROVE  /\ queue[s][i] <= epoch
                 /\ epoch <= queue[s][i] + c
                 /\ ok' /\ Len(imu') = 1 => sampled' <= queue[s][i]
      <3>1. queue[s][i] \in Nat /\ queue[s] # <<>>
        BY <2>1, ElementOfSeq, EmptyIffLengthZero
      <3>2. imu # <<>> /\ Len(imu) = 1
        <4>1. imu # <<>>
          BY <1>1, <3>1 DEF Waiting
        <4>2. Len(imu) \in Nat /\ Len(imu) # 0
          BY <1>1, <4>1, EmptyIffLengthZero DEF NavTypeOK, ImuTypeOK
        <4>3. Len(imu) <= 1
          BY <1>1 DEF Paired
        <4>4. Len(imu) = 1
          BY <4>2, <4>3
        <4> QED  BY <4>1, <4>4, Zenon
      <3>3. queue[s][i] <= epoch /\ sampled <= queue[s][i]
        BY <1>1, <2>1, <3>2 DEF Waiting
      <3>4. epoch <= queue[s][i] + c
        BY <1>1, <1>2, <3>1, <3>3
      <3> QED  BY <1>3, <3>2, <3>3, <3>4
    <2>4. CASE queue'[s] = queue[s]
      BY <2>1, <2>2, <2>3, <2>4
    <2>5. CASE /\ queue'[s] \in Seq(Nat) /\ Len(queue'[s]) = Len(queue[s]) + 1
               /\ queue'[s][Len(queue[s]) + 1] = epoch
               /\ \A i \in 1..Len(queue[s]) : queue'[s][i] = queue[s][i]
      <3>1. DOMAIN queue'[s] = 1..(Len(queue[s]) + 1)
        BY <2>5, LenProperties
      <3>2. ASSUME NEW i \in 1..(Len(queue[s]) + 1)
            PROVE  /\ queue'[s][i] <= epoch
                   /\ epoch <= queue'[s][i] + c
                   /\ ok' /\ Len(imu') = 1 => sampled' <= queue'[s][i]
        <4>1. CASE i \in 1..Len(queue[s])
          BY <2>3, <2>5, <4>1
        <4>2. CASE i = Len(queue[s]) + 1
          <5>1. queue'[s][i] = epoch
            BY <2>5, <4>2
          <5> QED  BY <1>1, <1>2, <5>1
        <4> QED  BY <2>1, <4>1, <4>2
      <3> QED  BY <2>2, <3>1, <3>2
    <2> QED  BY <1>1, <2>4, <2>5, PublishQueues
  <1> QED  BY <1>1, <1>4 DEF Waiting

\* A measurement is published at its schedule's index, a period after the last.
LEMMA PublishKeepsSpacing ==
    ASSUME NavInv, Controlled, Scheduled, Spaced, Publish
    PROVE  Spaced'
  <1> DEFINE g == cadence.gnss
  <1>1. /\ NavTypeOK /\ pc = "idle" /\ stage = "publish" /\ epoch \in Nat /\ g \in Nat \ {0}
        /\ due["gnss"] \in Nat /\ due["gnss"] % g = 0 /\ cadence' = cadence
        /\ due'["gnss"] = IF Due("gnss") THEN Consumed("gnss") ELSE due["gnss"]
    <2>1. due["gnss"] % g = 0
      BY DEF Scheduled, Producers
    <2>2. /\ NavTypeOK /\ pc = "idle" /\ stage = "publish" /\ cadence' = cadence
          /\ due'["gnss"] = IF Due("gnss") THEN Consumed("gnss") ELSE due["gnss"]
      BY PublishParts DEF NavInv, Controlled
    <2> QED  BY <2>1, <2>2, CadenceType, SampledRecently
  <1>2. Due("gnss") => due["gnss"] = epoch /\ due'["gnss"] = epoch + g
    <2>1. SUFFICES ASSUME Due("gnss") PROVE due["gnss"] = epoch /\ due'["gnss"] = epoch + g
      OBVIOUS
    <2>2. due["gnss"] <= epoch /\ Published = epoch - 1
      BY <1>1, <2>1 DEF Due, Published
    <2>3. due["gnss"] = epoch
      <3>1. Published < 0 => due["gnss"] = 0
        BY DEF Scheduled
      <3>2. ~(Published < 0) => Published < due["gnss"]
        BY DEF Scheduled
      <3> QED  BY <1>1, <2>2, <3>1, <3>2
    <2>4. due'["gnss"] = epoch - (epoch % g) + g
      BY <1>1, <2>1, ConsumedIndex DEF Producers
    <2>5. epoch % g = 0
      BY <1>1, <2>3
    <2> HIDE DEF g
    <2> QED  BY <1>1, <2>3, <2>4, <2>5
  <1>3. ASSUME NEW s \in SensorNames, queue'[s] # <<>>
        PROVE  Head(queue'[s]) + g * Len(queue'[s]) <= due'["gnss"]
    <2>1. queue[s] \in Seq(Nat) /\ Len(queue[s]) \in Nat
      BY <1>1, PublishQueues, LenProperties
    <2>2. queue[s] # <<>> => Head(queue[s]) \in Nat /\ Head(queue[s]) + g * Len(queue[s]) <= due["gnss"]
      <3>1. pc \notin SensorNames \cup {"filter"}
        BY <1>1 DEF SensorNames
      <3> QED  BY <2>1, <3>1, HeadTailProperties DEF Spaced
    <2>3. g * Len(queue[s]) \in Nat /\ g * (Len(queue[s]) + 1) = g * Len(queue[s]) + g
      BY <1>1, <2>1, NextMultiple
    <2>4. CASE queue'[s] = queue[s]
      <3>1. due["gnss"] <= due'["gnss"] /\ due'["gnss"] \in Nat
        BY <1>1, <1>2
      <3> QED  BY <1>1, <1>3, <2>2, <2>3, <2>4, <3>1
    <2>5. CASE /\ Due("gnss") /\ queue'[s] # <<>> /\ queue'[s] \in Seq(Nat)
               /\ Len(queue'[s]) = Len(queue[s]) + 1
               /\ queue'[s][Len(queue[s]) + 1] = epoch
               /\ \A i \in 1..Len(queue[s]) : queue'[s][i] = queue[s][i]
      <3>1. Head(queue'[s]) = queue'[s][1]
        BY <2>5, HeadTailProperties
      <3>2. CASE Len(queue[s]) = 0
        <4>1. Head(queue'[s]) = epoch /\ Len(queue'[s]) = 1
          BY <2>5, <3>1, <3>2
        <4> QED  BY <1>1, <1>2, <2>5, <4>1
      <3>3. CASE Len(queue[s]) # 0
        <4>1. queue[s] # <<>>
          BY <2>1, <3>3, EmptyIffLengthZero
        <4>2. Head(queue'[s]) = Head(queue[s])
          <5>1. queue'[s][1] = queue[s][1]
            BY <2>1, <2>5, <3>3
          <5>2. Head(queue[s]) = queue[s][1]
            BY <2>1, <4>1, HeadTailProperties
          <5> QED  BY <3>1, <5>1, <5>2
        <4>3. Head(queue[s]) \in Nat /\ Head(queue[s]) + g * Len(queue[s]) <= due["gnss"]
          BY <2>2, <4>1
        <4>4. /\ due["gnss"] = epoch /\ due'["gnss"] = epoch + g
              /\ g * Len(queue'[s]) = g * Len(queue[s]) + g
          BY <1>2, <2>3, <2>5
        <4> DEFINE h == Head(queue[s])
                   w == g * Len(queue[s])
        <4>5. h \in Nat /\ w \in Nat /\ h + w <= epoch /\ epoch \in Nat /\ g \in Nat
          BY <1>1, <2>3, <4>3, <4>4
        <4> HIDE DEF g, h, w
        <4>6. h + (w + g) <= epoch + g
          BY <4>5
        <4> QED  BY <4>2, <4>4, <4>6 DEF h, w
      <3> QED  BY <3>2, <3>3
    <2> QED  BY <1>1, <1>3, <2>4, <2>5, PublishQueues
  <1> QED  BY <1>1, <1>3 DEF Spaced

\* Publication keeps the invariant.
LEMMA PublishPreserves == ASSUME SwilInv, Publish PROVE SwilInv'
  <1>1. NavInv /\ Controlled /\ Scheduled /\ Paired /\ Waiting /\ Spaced
    BY DEF SwilInv
  <1>2. NavInv' /\ Scheduled' /\ Paired' /\ Waiting' /\ Spaced'
    <2>1. NavTypeOK
      BY <1>1 DEF NavInv
    <2> QED  BY <1>1, <2>1, PublishKeepsNavigator, PublishKeepsSchedules, PublishKeepsPairs,
                PublishKeepsWaiting, PublishKeepsSpacing
  <1>3. /\ stage = "publish" /\ stage' \in {"call", "failed"}
        /\ stage' = "call" <=> ok' = TRUE
        /\ UNCHANGED <<pc, final, correction, cadence, epoch, logged>> /\ due'["log"] = due["log"]
    BY PublishParts
  <1>4. ok' \in BOOLEAN
    BY <1>2 DEF NavInv, NavTypeOK, ControlTypeOK
  <1>5. Controlled'
    BY <1>1, <1>3, <1>4 DEF Controlled
  <1>6. FailedEarly' /\ Drained'
    BY <1>1, <1>3 DEF Controlled, FailedEarly, Drained
  <1>7. Logged'
    BY <1>3 DEF SwilInv, Logged
  <1> QED  BY <1>2, <1>5, <1>6, <1>7 DEF SwilInv

-----------------------------------------------------------------------------
(* The start and the end of a call. *)

\* Making the call keeps the invariant.
LEMMA CallNavigatorPreserves == ASSUME SwilInv, CallNavigator PROVE SwilInv'
  <1>1. /\ stage = "call" /\ stage' = "navigating" /\ pc = "idle" /\ pc' = "strapdown" /\ ok
        /\ final' = (epoch = cadence.end) /\ ~final
        /\ UNCHANGED <<config, ok, imu, sampled, navT, covT, pending, queue, context, dx, correction,
                       cadence, epoch, due, logged>>
    BY DEF CallNavigator, Call, SwilInv, Controlled
  <1>2. NavInv'
    <2>1. (epoch = cadence.end) \in BOOLEAN /\ Call(epoch = cadence.end) /\ NavInv
      BY DEF CallNavigator, SwilInv
    <2> QED  BY <1>1, <2>1, CallPreserves
  <1>3. Controlled'
    BY <1>1 DEF SwilInv, Controlled
  <1>4. Scheduled'
    <2>1. Published' = Published
      BY <1>1 DEF Published
    <2> QED  BY <1>1, <2>1, Zenon DEF SwilInv, Scheduled
  <1>5. Paired'
    BY <1>1 DEF SwilInv, Paired
  <1>6. FailedEarly' /\ Drained' /\ Spaced'
    BY <1>1 DEF SwilInv, FailedEarly, Drained, Spaced, SensorNames
  <1>7. Waiting'
    BY <1>1 DEF SwilInv, Waiting
  <1>8. Logged'
    BY <1>1 DEF SwilInv, Logged
  <1> QED  BY <1>2, <1>3, <1>4, <1>5, <1>6, <1>7, <1>8 DEF SwilInv

\* What the end of an epoch does to the log and its schedule.
LEMMA LogCorrectionLogs ==
    ASSUME NavTypeOK, Controlled, Scheduled, Logged, LogCorrection, ok
    PROVE  /\ logged' \in Seq([t : Nat, correction : SUBSET MeasurementId])
           /\ due' \in [Producers -> Nat] /\ due'["imu"] = due["imu"] /\ due'["gnss"] = due["gnss"]
           /\ \A p \in Producers : due'[p] % cadence[p] = 0
           /\ cadence.log = 1 =>
                 /\ due'["log"] <= epoch + 1
                 /\ correction = {} \/ \E i \in DOMAIN logged' : logged'[i].correction = correction
  <1> DEFINE entry == [t |-> epoch, correction |-> correction]
             Entry == [t : Nat, correction : SUBSET MeasurementId]
  <1>1. /\ epoch \in Nat /\ correction \subseteq MeasurementId /\ logged \in Seq(Entry)
        /\ due \in [Producers -> Nat] /\ \A p \in Producers : due[p] % cadence[p] = 0
        /\ stage = "navigating"
    BY CadenceType DEF NavTypeOK, CorrectionTypeOK, Logged, Scheduled, LogCorrection
  <1>2. CASE LogsCorrection
    <2>1. /\ logged' = Append(logged, entry) /\ due' = [due EXCEPT !["log"] = Consumed("log")]
      BY <1>2 DEF LogCorrection
    <2>2. entry \in Entry /\ entry.correction = correction
      BY <1>1
    <2> HIDE DEF entry, Entry
    <2>3. /\ logged' \in Seq(Entry) /\ Len(logged') = Len(logged) + 1
          /\ logged'[Len(logged) + 1] = entry /\ Len(logged) \in Nat
      BY <1>1, <2>1, <2>2, AppendProperties, LenProperties
    <2>4. \E i \in DOMAIN logged' : logged'[i].correction = correction
      <3>1. Len(logged) + 1 \in DOMAIN logged'
        <4>1. DOMAIN logged' = 1..Len(logged')
          BY <2>3, LenProperties
        <4> QED  BY <2>3, <4>1
      <3> QED  BY <2>2, <2>3, <3>1
    <2>5. /\ Consumed("log") \in Nat /\ Consumed("log") % cadence["log"] = 0
          /\ cadence["log"] = 1 => Consumed("log") = epoch + 1
      BY ConsumedIndex DEF Producers
    <2>6. /\ due' \in [Producers -> Nat] /\ due'["imu"] = due["imu"] /\ due'["gnss"] = due["gnss"]
          /\ due'["log"] = Consumed("log")
      BY <1>1, <2>1, <2>5 DEF Producers
    <2>7. \A p \in Producers : due'[p] % cadence[p] = 0
      <3>1. due["imu"] % cadence["imu"] = 0 /\ due["gnss"] % cadence["gnss"] = 0
        BY <1>1 DEF Producers
      <3> QED  BY <2>5, <2>6, <3>1 DEF Producers
    <2>8. cadence.log = 1 => due'["log"] <= epoch + 1
      BY <1>1, <2>5, <2>6
    <2> QED  BY <2>3, <2>4, <2>6, <2>7, <2>8 DEF Entry
  <1>3. CASE ~LogsCorrection
    <2>1. logged' = logged /\ due' = due
      BY <1>3 DEF LogCorrection
    <2>2. cadence.log = 1 => due["log"] <= epoch /\ due["log"] \in Nat
      BY <1>1, SampledRecently DEF Logged
    <2>3. cadence.log = 1 => correction = {}
      BY <1>3, <2>2 DEF LogsCorrection, Due
    <2> QED  BY <1>1, <2>1, <2>2, <2>3
  <1> QED  BY <1>2, <1>3

\* The end of an epoch keeps the invariant.
LEMMA LogCorrectionPreserves == ASSUME SwilInv, LogCorrection PROVE SwilInv'
  <1>1. /\ NavTypeOK /\ stage = "navigating" /\ pc = "idle" /\ epoch \in Nat /\ cadence.end \in Nat
        /\ epoch <= cadence.end /\ epoch \in 0..cadence.end /\ cadence \in Cadences
        /\ final <=> epoch = cadence.end
        /\ UNCHANGED <<navVars, cadence>>
    BY CadenceType DEF LogCorrection, SwilInv, NavInv, Controlled
  <1>2. /\ UNCHANGED <<config, pc, final, ok, imu, sampled, navT, covT, pending>>
        /\ UNCHANGED <<queue, context, dx, correction, cadence>>
    BY <1>1 DEF navVars
  <1>3. NavInv'
    <2>1. NavInv /\ [NavNext]_navVars
      BY <1>1 DEF SwilInv
    <2> QED  BY <2>1, StepPreserves
  <1>4. CASE ~ok
    <2>1. stage' = "failed" /\ UNCHANGED <<epoch, due, logged>>
      BY <1>4 DEF LogCorrection
    <2>2. Published' = Published
      BY <1>1, <2>1 DEF Published
    <2>3. Controlled'
      BY <1>1, <1>2, <1>4, <2>1 DEF Controlled
    <2>4. Scheduled'
      BY <1>2, <2>1, <2>2, Zenon DEF SwilInv, Scheduled
    <2>5. Paired' /\ FailedEarly' /\ Drained'
      BY <1>1, <1>2, <1>4, <2>1 DEF Paired, FailedEarly, Drained
    <2>6. Waiting'
      BY <1>1, <1>2, <1>4, <2>1 DEF SwilInv, Waiting
    <2>7. Spaced' /\ Logged'
      BY <1>1, <1>2, <2>1 DEF SwilInv, Spaced, Logged
    <2> QED  BY <1>3, <2>3, <2>4, <2>5, <2>6, <2>7 DEF SwilInv
  <1>5. CASE ok
    <2>1. \/ final /\ stage' = "finished" /\ epoch' = epoch
          \/ ~final /\ stage' = "publish" /\ epoch' = epoch + 1
      BY <1>5 DEF LogCorrection
    <2>2. Published' = epoch /\ Published = epoch
      BY <1>1, <2>1 DEF Published
    <2>3. /\ logged' \in Seq([t : Nat, correction : SUBSET MeasurementId])
          /\ due' \in [Producers -> Nat] /\ due'["imu"] = due["imu"] /\ due'["gnss"] = due["gnss"]
          /\ \A p \in Producers : due'[p] % cadence[p] = 0
          /\ cadence.log = 1 =>
                /\ due'["log"] <= epoch + 1
                /\ correction = {} \/ \E i \in DOMAIN logged' : logged'[i].correction = correction
      BY <1>1, <1>5, LogCorrectionLogs DEF SwilInv
    <2>4. \/ imu = <<>> /\ \A s \in SensorNames : queue[s] = <<>>
          \/ Len(imu) = 1 /\ config.coning /\ ~final
      BY <1>1, <1>5 DEF SwilInv, Drained
    <2>5. imu = <<>> => Len(imu) = 0
      BY EmptySeq
    <2>6. Controlled'
      BY <1>1, <1>2, <1>5, <2>1 DEF Controlled
    <2>7. Scheduled'
      BY <1>2, <2>2, <2>3, Zenon DEF SwilInv, Scheduled
    <2>8. Paired'
      <3>1. Len(imu) = 0 \/ Len(imu) = 1
        BY <2>4, <2>5, Zenon
      <3>2. Len(imu) <= 2 /\ Len(imu) <= 1 /\ Len(imu) # 2
        <4> DEFINE n == Len(imu)
        <4>1. n = 0 \/ n = 1
          BY <3>1
        <4> HIDE DEF n
        <4>2. n <= 2 /\ n <= 1 /\ n # 2
          BY <4>1
        <4> QED  BY <4>2 DEF n
      <3>3. Len(imu) = 1 => config.coning
        <4>1. Len(imu) # 1 \/ config.coning
          BY <2>4, <2>5
        <4> QED  BY <4>1, Zenon
      <3>4. /\ Len(imu) = 1 /\ config.coning => imu[1].dt = cadence.imu \/ imu[1] = [t |-> 1, dt |-> 1]
            /\ imu = <<>> /\ config.coning /\ ~final /\ sampled > 0 =>
                  sampled = due["imu"] - cadence.imu
        BY <1>5 DEF SwilInv, Paired
      <3> QED  BY <1>2, <2>3, <3>2, <3>3, <3>4, Zenon DEF Paired
    <2>9. FailedEarly' /\ Drained'
      BY <1>1, <1>2, <1>5, <2>1, <2>4 DEF FailedEarly, Drained
    <2>10. Waiting'
      <3>1. ASSUME NEW s \in SensorNames
            PROVE  /\ context[s] <= epoch'
                   /\ \A i \in DOMAIN queue[s] :
                         /\ queue[s][i] <= epoch'
                         /\ Len(imu) = 1 => sampled <= queue[s][i]
                   /\ imu = <<>> => queue[s] = <<>>
        <4>1. /\ queue[s] \in Seq(Nat) /\ context[s] \in Nat /\ context[s] <= epoch
              /\ \A i \in DOMAIN queue[s] :
                    queue[s][i] <= epoch /\ (Len(imu) = 1 => sampled <= queue[s][i])
          BY <1>1, <1>5 DEF SwilInv, Waiting, NavTypeOK, QueueTypeOK
        <4>2. \A i \in DOMAIN queue[s] : queue[s][i] \in Nat
          BY <4>1, LenProperties, ElementOfSeq
        <4>3. epoch' \in Nat /\ epoch <= epoch'
          BY <1>1, <2>1
        <4>4. context[s] <= epoch' /\ \A i \in DOMAIN queue[s] : queue[s][i] <= epoch'
          BY <1>1, <4>1, <4>2, <4>3
        <4>5. imu = <<>> => queue[s] = <<>>
          BY <2>4, <2>5
        <4> QED  BY <4>1, <4>4, <4>5
      <3> QED  BY <1>2, <2>1, <3>1 DEF Waiting
    <2>11. Spaced'
      BY <1>2, <2>3 DEF SwilInv, Spaced
    <2>12. Logged'
      BY <1>1, <1>2, <2>1, <2>3 DEF Logged
    <2> QED  BY <1>3, <2>6, <2>7, <2>8, <2>9, <2>10, <2>11, <2>12 DEF SwilInv
  <1> QED  BY <1>4, <1>5

-----------------------------------------------------------------------------
(* The steps of a call. *)

\* What no step of a call changes.
LEMMA NavStepFrame == ASSUME NavStep PROVE UNCHANGED <<config, final, sampled, context>>
  BY DEF NavStep, ImuPair, ImuSingle, StrapdownDone, PropagateCovariance, StartMeasurements, Judge,
         SensorUpdate, FilterUpdate

\* What only the strapdown integration changes.
LEMMA NavStepAfterStrapdown ==
    ASSUME NavStep, ~ImuPair, ~ImuSingle
    PROVE  UNCHANGED <<imu, navT, ok>> /\ pc' # "strapdown"
  BY DEF NavStep, StrapdownDone, PropagateCovariance, StartMeasurements, Judge, SensorUpdate,
         FilterUpdate, SensorNames

\* The increments of a buffer that holds a pair.
LEMMA PairOfIncrements ==
    ASSUME NavInv, ok, Len(imu) = 2
    PROVE  /\ imu[1].dt \in Nat \ {0} /\ imu[2].dt \in Nat \ {0}
           /\ imu[2].t - imu[1].t = imu[2].dt
           /\ sampled = navT + imu[1].dt + imu[2].dt
           /\ Tail(Tail(imu)) = <<>>
  <1>1. imu \in Seq(Increment) /\ navT \in Nat /\ NavTypeOK /\ imu # <<>>
    <2>1. imu \in Seq(Increment) /\ navT \in Nat /\ NavTypeOK
      BY DEF NavInv, NavTypeOK, ImuTypeOK, TimeTypeOK
    <2> QED  BY <2>1, EmptyIffLengthZero
  <1>2. DOMAIN imu = 1..2
    BY <1>1, LenProperties
  <1>3. /\ imu[1].t - imu[1].dt = navT /\ imu[2].t - imu[2].dt = imu[1].t
        /\ sampled = imu[2].t
    BY <1>1, <1>2 DEF NavInv, ImuTimeConserved
  <1>4. imu[1] \in Increment /\ imu[2] \in Increment
    BY <1>1, ElementOfSeq
  <1>5. /\ imu[1].dt \in Nat \ {0} /\ imu[2].dt \in Nat \ {0}
        /\ imu[1].t \in Nat /\ imu[2].t \in Nat
    BY <1>4 DEF Increment
  <1>6. Tail(Tail(imu)) = <<>>
    <2>1. Tail(Tail(imu)) \in Seq(Increment) /\ Len(Tail(Tail(imu))) = 0
      BY <1>1, FirstIncrements
    <2> QED  BY <2>1, EmptyIffLengthZero
  <1>7. imu[2].t - imu[1].t = imu[2].dt /\ sampled = navT + imu[1].dt + imu[2].dt
    BY <1>1, <1>3, <1>5
  <1> QED  BY <1>5, <1>6, <1>7

\* A pair is integrated, or it is the first of the mission and the call fails.
LEMMA PairIntegratedOrFirst ==
    ASSUME SwilInv, stage = "navigating", ImuPair
    PROVE  /\ ok /\ imu' = <<>> /\ Len(imu) = 2
           /\ \/ ok' = ok
              \/ ok' = FALSE /\ config.coning /\ navT' = 0 /\ epoch = cadence.imu
                 /\ imu[1].dt = 1 /\ cadence.imu > 2
  <1>1. NavInv /\ ok /\ pc = "strapdown" /\ Len(imu) >= 2 /\ imu' = Tail(Tail(imu))
    BY DEF SwilInv, FailedEarly, ImuPair
  <1>2. Len(imu) = 2
    <2>1. Len(imu) \in Nat
      <3>1. imu \in Seq(Increment)
        BY <1>1 DEF NavInv, NavTypeOK, ImuTypeOK
      <3> QED  BY <3>1, LenProperties
    <2>2. Len(imu) <= 2
      BY <1>1 DEF SwilInv, Paired
    <2>3. \A n \in Nat : n >= 2 /\ n <= 2 => n = 2
      OBVIOUS
    <2> QED  BY <1>1, <2>1, <2>2, <2>3, Zenon
  <1>3. /\ imu[2].t - imu[1].t = imu[2].dt /\ Tail(Tail(imu)) = <<>>
        /\ imu[1].dt \in Nat \ {0} /\ imu[2].dt \in Nat \ {0}
    BY <1>1, <1>2, PairOfIncrements
  <1>4. CASE PairIntegrates(imu[1], imu[2])
    <2>1. ok' = ok
      BY <1>4 DEF ImuPair
    <2> QED  BY <1>1, <1>2, <1>3, <2>1
  <1>5. CASE ~PairIntegrates(imu[1], imu[2])
    <2>1. config.coning /\ imu[1].dt # imu[2].dt
      BY <1>3, <1>5 DEF PairIntegrates
    <2>2. ok' = FALSE /\ navT' = navT
      BY <1>5 DEF ImuPair
    <2>3. navT = 0 /\ epoch = cadence.imu /\ imu[1].dt = 1 /\ imu[2].dt = cadence.imu - 1
      BY <1>1, <1>2, <2>1 DEF SwilInv, Paired
    <2>4. cadence.imu > 2
      <3>1. cadence.imu \in Nat \ {0}
        BY CadenceType DEF SwilInv
      <3> QED  BY <1>3, <2>1, <2>3, <3>1
    <2> QED  BY <1>1, <1>2, <1>3, <2>1, <2>2, <2>3, <2>4
  <1> QED  BY <1>4, <1>5

\* After a call has used its increments the next to come is a full one.
LEMMA StepKeepsPairs ==
    ASSUME SwilInv, Navigate
    PROVE  Paired' /\ FailedEarly'
  <1>1. /\ stage = "navigating" /\ NavStep /\ NavInv
        /\ UNCHANGED <<cadence, epoch, stage, due, config, final, sampled>>
    BY NavStepFrame DEF Navigate, SwilInv
  <1>2. Len(<<>>) = 0 /\ ~(Len(<<>>) = 1) /\ ~(Len(<<>>) = 2) /\ Len(<<>>) <= 2
    <2>1. Len(<<>>) = 0
      BY EmptySeq
    <2> QED  BY <2>1
  <1>3. CASE ImuPair
    <2>1. ok /\ imu' = <<>> /\ Len(imu) = 2
      BY <1>1, <1>3, PairIntegratedOrFirst
    <2>2. sampled = due["imu"] - cadence.imu
      <3>1. sampled = navT + imu[1].dt + imu[2].dt /\ imu[1].dt \in Nat \ {0} /\ imu[2].dt \in Nat \ {0}
        BY <1>1, <2>1, PairOfIncrements
      <3>2. navT \in Nat
        BY <1>1 DEF NavInv, NavTypeOK, TimeTypeOK
      <3>3. sampled > 1
        BY <3>1, <3>2
      <3>4. Published \in Int /\ (Published <= 0 => sampled = 0)
        BY <1>1, SampledRecently DEF SwilInv, NavInv
      <3>5. Published > 0
        BY <3>3, <3>4
      <3> QED  BY <3>3, <3>4, <3>5 DEF SwilInv, Scheduled
    <2>3. Paired'
      BY <1>1, <1>2, <2>1, <2>2, Zenon DEF Paired
    <2>4. FailedEarly'
      <3>1. CASE ok' = ok
        BY <2>1, <3>1 DEF FailedEarly
      <3>2. CASE ok' = FALSE /\ navT' = 0 /\ epoch = cadence.imu
        <4>1. pc' = "covariance"
          BY <1>3, <2>1, <3>2 DEF ImuPair
        <4>2. epoch <= cadence.imu
          <5>1. cadence.imu \in Nat
            BY CadenceType DEF SwilInv
          <5> QED  BY <3>2, <5>1
        <4> QED  BY <1>1, <3>2, <4>1, <4>2 DEF FailedEarly
      <3> QED  BY <1>1, <1>3, <3>1, <3>2, PairIntegratedOrFirst
    <2> QED  BY <2>3, <2>4
  <1>4. CASE ImuSingle
    <2>1. imu' = <<>> /\ ok' = ok /\ ok /\ (final \/ ~config.coning) /\ pc' = "covariance"
      BY <1>4 DEF ImuSingle, SwilInv, FailedEarly
    <2>2. Paired'
      BY <1>1, <1>2, <2>1, Zenon DEF Paired
    <2> QED  BY <2>1, <2>2 DEF FailedEarly
  <1>5. CASE ~ImuPair /\ ~ImuSingle
    <2>1. UNCHANGED <<imu, navT, ok>> /\ pc' # "strapdown"
      BY <1>1, <1>5, NavStepAfterStrapdown
    <2>2. Paired'
      BY <1>1, <2>1, Zenon DEF SwilInv, Paired
    <2> QED  BY <1>1, <2>1, <2>2 DEF SwilInv, FailedEarly
  <1> QED  BY <1>3, <1>4, <1>5

\* A step of a call only shortens the queues.
LEMMA StepKeepsWaiting ==
    ASSUME SwilInv, Navigate
    PROVE  Waiting' /\ Spaced'
  <1>1. /\ stage = "navigating" /\ NavStep /\ NavInv /\ NavTypeOK
        /\ UNCHANGED <<cadence, epoch, stage, due, config, final, sampled, context>>
    BY NavStepFrame DEF Navigate, SwilInv, NavInv
  <1>2. ok' /\ Len(imu') = 1 => ok /\ imu' = imu
    <2>1. Len(<<>>) # 1
      <3>1. Len(<<>>) = 0
        BY EmptySeq
      <3> QED  BY <3>1
    <2>2. CASE ImuPair
      BY <1>1, <2>1, <2>2, PairIntegratedOrFirst
    <2>3. CASE ImuSingle
      BY <2>1, <2>3 DEF ImuSingle
    <2>4. CASE ~ImuPair /\ ~ImuSingle
      BY <1>1, <2>4, NavStepAfterStrapdown
    <2> QED  BY <2>2, <2>3, <2>4
  <1>3. ASSUME NEW s \in SensorNames
        PROVE  /\ queue[s] \in Seq(Nat)
               /\ \/ queue'[s] = queue[s]
                  \/ /\ queue[s] # <<>> /\ queue'[s] = Tail(queue[s])
                     /\ queue'[s] \in Seq(Nat) /\ Len(queue'[s]) = Len(queue[s]) - 1
                     /\ \A i \in 1..Len(queue'[s]) : queue'[s][i] = queue[s][i + 1]
    <2>1. queue[s] \in Seq(Nat) /\ queue \in [SensorNames -> Seq(Nat)]
      BY <1>1 DEF NavTypeOK, QueueTypeOK
    <2>2. queue'[s] = queue[s] \/ (queue[s] # <<>> /\ queue'[s] = Tail(queue[s]))
      <3>1. CASE queue' = queue
        BY <3>1
      <3>2. ASSUME NEW r \in SensorNames, Judge(r)
            PROVE  queue'[s] = queue[s] \/ (queue[s] # <<>> /\ queue'[s] = Tail(queue[s]))
        BY <2>1, <3>2 DEF Judge
      <3> QED
        BY <1>1, <3>1, <3>2 DEF NavStep, ImuPair, ImuSingle, StrapdownDone, PropagateCovariance,
           StartMeasurements, SensorUpdate, FilterUpdate
    <2>3. CASE queue[s] # <<>> /\ queue'[s] = Tail(queue[s])
      BY <2>1, <2>3, HeadTailProperties
    <2> QED  BY <2>1, <2>2, <2>3
  <1>4. Waiting'
    <2>1. ASSUME NEW s \in SensorNames, NEW i \in DOMAIN queue'[s]
          PROVE  /\ queue'[s][i] <= epoch
                 /\ epoch <= queue'[s][i] + cadence.imu
                 /\ ok' /\ Len(imu') = 1 => sampled <= queue'[s][i]
      <3>1. PICK j \in DOMAIN queue[s] : queue'[s][i] = queue[s][j]
        <4>1. queue[s] \in Seq(Nat) /\ Len(queue[s]) \in Nat /\ DOMAIN queue[s] = 1..Len(queue[s])
          BY <1>3, LenProperties
        <4>2. CASE queue'[s] = queue[s]
          BY <4>2
        <4>3. CASE /\ queue'[s] \in Seq(Nat) /\ Len(queue'[s]) = Len(queue[s]) - 1
                   /\ \A k \in 1..Len(queue'[s]) : queue'[s][k] = queue[s][k + 1]
          <5>1. DOMAIN queue'[s] = 1..Len(queue'[s])
            BY <4>3, LenProperties
          <5>2. i \in 1..Len(queue'[s]) /\ i + 1 \in 1..Len(queue[s])
            BY <4>1, <4>3, <5>1
          <5> QED  BY <4>1, <4>3, <5>2
        <4> QED  BY <1>3, <4>2, <4>3
      <3> QED  BY <1>1, <1>2, <3>1 DEF SwilInv, Waiting
    <2> QED  BY <1>1, <2>1 DEF SwilInv, Waiting
  <1>5. Spaced'
    <2> SUFFICES ASSUME NEW s \in SensorNames, queue'[s] # <<>>, pc' \notin SensorNames \cup {"filter"}
                 PROVE  Head(queue'[s]) + cadence.gnss * Len(queue'[s]) <= due["gnss"]
      BY <1>1 DEF Spaced
    <2>1. CASE pc \in SensorNames \cup {"filter"}
      <3>1. pc = "filter" /\ queue' = queue
        BY <1>1, <2>1 DEF NavStep, ImuPair, ImuSingle, StrapdownDone, PropagateCovariance,
           StartMeasurements, Judge, SensorUpdate, FilterUpdate, SensorNames
      <3>2. queue[s] = <<>>
        BY <3>1 DEF SwilInv, Drained, SensorNames
      <3> QED  BY <3>1, <3>2
    <2>2. CASE pc \notin SensorNames \cup {"filter"}
      <3>1. queue' = queue
        BY <1>1, <2>2 DEF NavStep, ImuPair, ImuSingle, StrapdownDone, PropagateCovariance,
           StartMeasurements, Judge, SensorUpdate, FilterUpdate
      <3> QED  BY <2>2, <3>1 DEF SwilInv, Spaced
    <2> QED  BY <2>1, <2>2
  <1> QED  BY <1>4, <1>5

\* A call that ends leaves measurements only with an increment that waits.
LEMMA StepKeepsDrained ==
    ASSUME SwilInv, Navigate
    PROVE  Drained'
  <1>1. /\ stage = "navigating" /\ stage' = stage /\ NavStep /\ NavInv /\ Flushed /\ NavTypeOK
        /\ UNCHANGED <<config, final>>
    BY NavStepFrame DEF Navigate, SwilInv, NavInv
  <1>2. CASE ImuPair \/ ImuSingle \/ StrapdownDone \/ StartMeasurements
    BY <1>2 DEF Drained, ImuPair, ImuSingle, StrapdownDone, StartMeasurements
  <1>3. CASE PropagateCovariance
    <2>1. /\ pc = "covariance" /\ imu' = imu /\ ok' = ok
          /\ pc' = IF AwaitingImuPair /\ ~final THEN "idle" ELSE "measurements"
      BY <1>3 DEF PropagateCovariance
    <2>2. CASE AwaitingImuPair /\ ~final
      <3>1. ok => Len(imu) = 1
        BY <1>1, <2>1, <2>2 DEF Flushed, AwaitingImuPair
      <3> QED  BY <1>1, <2>1, <2>2, <3>1 DEF Drained, AwaitingImuPair
    <2>3. CASE ~(AwaitingImuPair /\ ~final)
      BY <2>1, <2>3 DEF Drained
    <2> QED  BY <2>2, <2>3
  <1>4. ASSUME NEW s \in SensorNames, Judge(s) PROVE Drained'
    <2>1. pc = s /\ pc' = pc /\ queue[s] # <<>> /\ queue' = [queue EXCEPT ![s] = Tail(@)]
      BY <1>4 DEF Judge
    <2>2. queue \in [SensorNames -> Seq(Nat)]
      BY <1>1 DEF NavTypeOK, QueueTypeOK
    <2>3. CASE s = "position"
      BY <2>1, <2>3 DEF Drained
    <2>4. CASE s = "velocity"
      <3>1. queue["position"] = <<>> /\ queue'["position"] = queue["position"]
        BY <2>1, <2>2, <2>4 DEF SwilInv, Drained, SensorNames
      <3> QED  BY <2>1, <2>4, <3>1 DEF Drained
    <2> QED  BY <2>3, <2>4 DEF SensorNames
  <1>5. ASSUME NEW s \in SensorNames, SensorUpdate(s) PROVE Drained'
    <2>1. /\ pc = s /\ queue[s] = <<>> /\ queue' = queue
          /\ pc' = IF s = "position" THEN "velocity" ELSE "filter"
      BY <1>5 DEF SensorUpdate
    <2>2. s = "velocity" => queue["position"] = <<>>
      BY <2>1 DEF SwilInv, Drained
    <2> QED  BY <2>1, <2>2 DEF Drained, SensorNames
  <1>6. CASE FilterUpdate
    <2>1. pc = "filter" /\ pc' = "idle" /\ queue' = queue /\ imu' = imu /\ ok' = ok
      BY <1>6 DEF FilterUpdate
    <2>2. ok => imu = <<>>
      BY <1>1, <2>1 DEF Flushed, Measuring
    <2>3. \A s \in SensorNames : queue[s] = <<>>
      BY <2>1 DEF SwilInv, Drained, SensorNames
    <2> QED  BY <2>1, <2>2, <2>3 DEF Drained
  <1> QED  BY <1>1, <1>2, <1>3, <1>4, <1>5, <1>6 DEF NavStep

\* A step of a call keeps the invariant.
LEMMA NavigatePreserves == ASSUME SwilInv, Navigate PROVE SwilInv'
  <1>1. /\ stage = "navigating" /\ NavStep /\ NavInv
        /\ UNCHANGED <<cadence, epoch, stage, due, config, final, sampled, context, logged>>
    BY NavStepFrame DEF Navigate, SwilInv
  <1>2. NavInv'
    BY <1>1, NavStepPreserves
  <1>3. Controlled'
    BY <1>1 DEF SwilInv, Controlled
  <1>4. Scheduled'
    <2>1. Published' = Published
      BY <1>1 DEF Published
    <2> QED  BY <1>1, <2>1, Zenon DEF SwilInv, Scheduled
  <1>5. Paired' /\ FailedEarly' /\ Waiting' /\ Spaced' /\ Drained'
    BY StepKeepsPairs, StepKeepsWaiting, StepKeepsDrained
  <1>6. Logged'
    <2>1. pc' \in {"strapdown", "covariance", "measurements"} =>
              pc \in {"strapdown", "covariance", "measurements"} /\ correction' = correction
      BY <1>1 DEF NavStep, ImuPair, ImuSingle, StrapdownDone, PropagateCovariance,
         StartMeasurements, Judge, SensorUpdate, FilterUpdate, SensorNames
    <2> QED  BY <1>1, <2>1 DEF SwilInv, Logged
  <1> QED  BY <1>2, <1>3, <1>4, <1>5, <1>6 DEF SwilInv

\* The invariant holds at the start.
LEMMA SwilInitEstablishes == SwilInit => SwilInv
  <1> SUFFICES ASSUME SwilInit PROVE SwilInv
    OBVIOUS
  <1>1. /\ NavInit /\ cadence \in Cadences /\ epoch = 0 /\ stage = "publish"
        /\ due = [p \in Producers |-> 0] /\ logged = <<>>
    BY DEF SwilInit
  <1>2. NavInv
    BY <1>1, InitEstablishes
  <1>3. /\ pc = "idle" /\ ok /\ ~final /\ imu = <<>> /\ sampled = 0 /\ correction = {}
        /\ \A s \in SensorNames : queue[s] = <<>> /\ context[s] = 0
    BY <1>1 DEF NavInit
  <1>4. Controlled
    <2>1. cadence.end \in Nat
      BY <1>1, CadenceAssumption DEF Cadence
    <2> QED  BY <1>1, <1>3, <2>1 DEF Controlled
  <1>5. Scheduled
    <2>1. \A p \in Producers : due[p] = 0 /\ due[p] % cadence[p] = 0
      <3>1. \A p \in Producers : cadence[p] \in Nat \ {0} /\ due[p] = 0
        BY <1>1, <1>4, CadenceType
      <3> QED  BY <3>1, SmallRemainders
    <2>2. Published = -1
      BY <1>1 DEF Published
    <2>3. due["imu"] = 0 /\ due["gnss"] = 0 /\ due \in [Producers -> Nat]
      BY <1>1 DEF Producers
    <2>4. Published < 0 /\ Published <= 0
      BY <2>2
    <2> QED  BY <1>3, <2>1, <2>3, <2>4, Zenon DEF Scheduled
  <1>6. Paired /\ FailedEarly /\ Drained /\ Spaced
    <2>1. Len(imu) = 0
      BY <1>3, EmptySeq
    <2>2. Len(imu) <= 2 /\ Len(imu) <= 1 /\ Len(imu) # 1 /\ Len(imu) # 2 /\ ~(sampled > 0)
      BY <1>3, <2>1
    <2> QED  BY <1>1, <1>3, <2>2, Zenon DEF Paired, FailedEarly, Drained, Spaced
  <1>7. Waiting
    <2>1. DOMAIN <<>> = {}
      BY EmptySeq
    <2> QED  BY <1>1, <1>3, <2>1 DEF Waiting
  <1>8. Logged
    <2>1. <<>> \in Seq([t : Nat, correction : SUBSET MeasurementId]) /\ due["log"] = 0
      BY <1>1, EmptySeq DEF Producers
    <2> QED  BY <1>1, <1>3, <2>1 DEF Logged
  <1> QED  BY <1>2, <1>4, <1>5, <1>6, <1>7, <1>8 DEF SwilInv

\* Every step keeps the invariant.
LEMMA SwilStepPreserves == SwilInv /\ [SwilNext]_swilVars => SwilInv'
  <1> SUFFICES ASSUME SwilInv, [SwilNext]_swilVars PROVE SwilInv'
    OBVIOUS
  <1>1. CASE Publish
    BY <1>1, PublishPreserves
  <1>2. CASE CallNavigator
    BY <1>2, CallNavigatorPreserves
  <1>3. CASE Navigate
    BY <1>3, NavigatePreserves
  <1>4. CASE LogCorrection
    BY <1>4, LogCorrectionPreserves
  <1>5. CASE UNCHANGED swilVars
    <2>1. /\ UNCHANGED navVars /\ UNCHANGED <<cadence, epoch, stage, due, logged>>
          /\ UNCHANGED <<config, pc, final, ok, imu, sampled, navT, queue, context, correction>>
      BY <1>5 DEF swilVars, navVars
    <2>2. NavInv'
      BY <2>1, StepPreserves DEF SwilInv
    <2>3. Controlled' /\ FailedEarly' /\ Drained' /\ Logged'
      BY <2>1 DEF SwilInv, Controlled, FailedEarly, Drained, Logged
    <2>4. Scheduled'
      BY <2>1, Zenon DEF SwilInv, Scheduled, Published
    <2>5. Paired'
      BY <2>1, Zenon DEF SwilInv, Paired
    <2>6. Waiting' /\ Spaced'
      BY <2>1 DEF SwilInv, Waiting, Spaced
    <2> QED  BY <2>2, <2>3, <2>4, <2>5, <2>6 DEF SwilInv
  <1> QED  BY <1>1, <1>2, <1>3, <1>4, <1>5 DEF SwilNext

-----------------------------------------------------------------------------
(* What the invariant gives. *)

\* The invariant holds in every mission.
THEOREM SwilInvariant == SwilSpec => []SwilInv
  BY SwilInitEstablishes, SwilStepPreserves, PTL DEF SwilSpec

\* Every variable keeps its type and every schedule its grid.
THEOREM SwilTypeCorrect == SwilSpec => []SwilTypeOK
  <1>1. SwilInv => SwilTypeOK
    BY DEF SwilInv, NavInv, Controlled, Scheduled, Logged, SwilTypeOK
  <1> QED  BY <1>1, SwilInvariant, PTL

\* A finished mission has integrated all increments and judged all measurements.
THEOREM FinishedMissionsAreComplete == SwilSpec => []FinishedMissionIsComplete
  <1>1. SwilInv => FinishedMissionIsComplete
    <2> SUFFICES ASSUME SwilInv, stage = "finished"
                 PROVE  /\ imu = <<>> /\ navT = sampled /\ covT = navT
                        /\ navT <= cadence.end /\ cadence.end < navT + cadence.imu
                        /\ \A s \in SensorNames : queue[s] = <<>>
      BY DEF FinishedMissionIsComplete
    <2>1. NavInv /\ NavTypeOK /\ pc = "idle" /\ ok /\ final /\ epoch = cadence.end /\ Published = epoch
      BY DEF SwilInv, NavInv, Controlled, Published
    <2>2. imu = <<>> /\ \A s \in SensorNames : queue[s] = <<>>
      BY <2>1 DEF SwilInv, Drained
    <2>3. navT = sampled
      BY <2>1, <2>2 DEF NavInv, ImuTimeConserved
    <2>4. covT = navT
      <3>1. covT + pending = navT /\ pending = 0 /\ covT \in Nat
        BY <2>1 DEF NavInv, CovarianceSettled, NavTypeOK, TimeTypeOK
      <3> QED  BY <3>1
    <2>5. sampled <= epoch /\ epoch < sampled + cadence.imu
      <3>1. cadence.imu \in Nat \ {0} /\ epoch \in Nat
        BY CadenceType DEF SwilInv
      <3>2. /\ epoch > 0 => sampled <= epoch /\ epoch < sampled + cadence.imu
            /\ epoch <= 0 => sampled = 0
        BY <2>1, SampledRecently DEF SwilInv
      <3> QED  BY <3>1, <3>2
    <2> QED  BY <2>1, <2>2, <2>3, <2>4, <2>5
  <1> QED  BY <1>1, SwilInvariant, PTL

\* Publication rejects nothing while the buffers have room for a period.
LEMMA PublishSustained ==
    ASSUME SwilInv, Publish,
           SensorCapacity > cadence.imu \div cadence.gnss, ImuCapacity >= 2
    PROVE  ok'
  <1> DEFINE c == cadence.imu
             g == cadence.gnss
  <1>1. /\ NavInv /\ NavTypeOK /\ Controlled /\ Scheduled /\ ok /\ stage = "publish" /\ pc = "idle"
        /\ epoch \in Nat /\ c \in Nat \ {0} /\ g \in Nat \ {0} /\ SensorCapacity \in Nat
    BY PublishParts, CadenceType, CapacityAssumption DEF SwilInv, NavInv, Controlled
  <1>2. imu \in Seq(Increment) /\ Len(imu) \in Nat /\ Len(imu) <= 1
    <2>1. imu \in Seq(Increment) /\ Len(imu) \in Nat
      BY <1>1, EmptyIffLengthZero DEF NavTypeOK, ImuTypeOK
    <2>2. Len(imu) <= 1
      BY <1>1 DEF SwilInv, Paired
    <2> QED  BY <2>1, <2>2
  <1>3. ~ImuOverflows
    <2>1. ImuCapacity \in Nat
      BY CapacityAssumption
    <2>2. Len(imu) # ImuCapacity
      BY <1>2, <2>1
    <2> QED  BY <2>2 DEF ImuOverflows
  <1>4. ASSUME NEW s \in SensorNames, Due("gnss") PROVE ~Full(s)
    <2>1. queue[s] \in Seq(Nat) /\ Len(queue[s]) \in Nat
      BY <1>1, LenProperties DEF NavTypeOK, QueueTypeOK
    <2>2. CASE queue[s] = <<>>
      <3>1. Len(queue[s]) = 0
        BY <2>2, EmptySeq
      <3> QED  BY <3>1, CapacityAssumption DEF Full
    <2>3. CASE queue[s] # <<>>
      <3>1. imu # <<>> /\ Len(imu) = 1
        <4>1. imu # <<>>
          BY <1>1, <2>3 DEF SwilInv, Waiting
        <4>2. Len(imu) # 0
          BY <1>2, <4>1, EmptyIffLengthZero
        <4>3. \A n \in Nat : n <= 1 /\ n # 0 => n = 1
          OBVIOUS
        <4> QED  BY <1>2, <4>1, <4>2, <4>3, Zenon
      <3>2. Head(queue[s]) \in Nat /\ Head(queue[s]) = queue[s][1] /\ 1 \in DOMAIN queue[s]
        <4>1. Len(queue[s]) # 0 /\ DOMAIN queue[s] = 1..Len(queue[s])
          BY <2>1, <2>3, EmptyIffLengthZero, LenProperties
        <4>2. 1 \in DOMAIN queue[s]
          BY <2>1, <4>1
        <4> QED  BY <2>1, <2>3, <4>2, HeadTailProperties
      <3>3. sampled <= Head(queue[s]) /\ sampled \in Nat
        BY <1>1, <3>1, <3>2 DEF SwilInv, Waiting, NavTypeOK, TimeTypeOK
      <3>4. epoch <= sampled + c
        <4>1. /\ Published > 0 => Published < sampled + c
              /\ Published \in Int /\ Published = epoch - 1
          BY <1>1, SampledRecently DEF Published
        <4> QED  BY <1>1, <3>3, <4>1
      <3>5. Head(queue[s]) + g * Len(queue[s]) <= epoch
        <4>1. Head(queue[s]) + g * Len(queue[s]) <= due["gnss"]
          BY <1>1, <2>3 DEF SwilInv, Spaced, SensorNames
        <4>2. due["gnss"] <= epoch /\ due["gnss"] \in Nat
          BY <1>1, <1>4, SampledRecently DEF Due
        <4>3. g * Len(queue[s]) \in Nat
          BY <1>1, <2>1, NextMultiple
        <4> QED  BY <1>1, <3>2, <4>1, <4>2, <4>3
      <3>6. g * Len(queue[s]) <= c
        <4> DEFINE w == g * Len(queue[s])
                   h == Head(queue[s])
        <4>1. w \in Nat /\ h \in Nat /\ h + w <= epoch /\ epoch <= sampled + c /\ sampled <= h
          BY <1>1, <2>1, <3>2, <3>3, <3>4, <3>5, NextMultiple
        <4>2. sampled \in Nat /\ c \in Nat /\ epoch \in Nat
          BY <1>1, <3>3
        <4> HIDE DEF w, h, c
        <4>3. w <= c
          BY <4>1, <4>2
        <4> QED  BY <4>3 DEF w, c
      <3>7. Len(queue[s]) <= c \div g
        BY <1>1, <2>1, <3>6, MultiplesWithin
      <3>8. c \div g \in Nat
        BY <1>1, Division
      <3>9. Len(queue[s]) # SensorCapacity
        BY <1>1, <2>1, <3>7, <3>8
      <3> QED  BY <3>9 DEF Full
    <2> QED  BY <2>2, <2>3
  <1>5. PICK measured \in SUBSET SensorNames :
            (measured # {} => Due("gnss")) /\ ok' = ~PushOverflows(measured)
    BY <1>3, PublishParts
  <1>6. ~PushOverflows(measured)
    BY <1>4, <1>5 DEF PushOverflows
  <1> QED  BY <1>5, <1>6

\* A mission with increments that pair evenly and room for a period's
\* measurements never fails.
THEOREM EvenRatesAreSustained == SwilSpec => []EvenRatesSustained
  <1>1. SwilInit => EvenRatesSustained
    BY DEF SwilInit, NavInit, EvenRatesSustained
  <1>2. SwilInv /\ EvenRatesSustained /\ [SwilNext]_swilVars => EvenRatesSustained'
    <2> SUFFICES ASSUME SwilInv, EvenRatesSustained, [SwilNext]_swilVars,
                        config'.coning => cadence'.imu <= 2,
                        SensorCapacity > cadence'.imu \div cadence'.gnss,
                        ImuCapacity >= 2
                 PROVE  ok'
      BY DEF EvenRatesSustained
    <2>1. config' = config /\ cadence' = cadence
      <3>1. CASE Publish
        BY <3>1, PublishParts
      <3>2. CASE Navigate
        BY <3>2, NavStepFrame DEF Navigate
      <3>3. CASE CallNavigator \/ LogCorrection \/ UNCHANGED swilVars
        BY <3>3 DEF CallNavigator, LogCorrection, swilVars, navVars
      <3> QED  BY <3>1, <3>2, <3>3 DEF SwilNext
    <2>2. ok /\ (config.coning => cadence.imu <= 2)
      BY <2>1 DEF EvenRatesSustained
    <2>3. CASE Publish
      BY <2>1, <2>3, PublishSustained
    <2>4. CASE Navigate
      <3>1. stage = "navigating" /\ NavStep
        BY <2>4 DEF Navigate, SwilInv, FailedEarly
      <3>2. CASE ImuPair
        <4>1. config.coning => ~(cadence.imu > 2)
          <5>1. cadence.imu \in Nat
            BY CadenceType DEF SwilInv
          <5> QED  BY <2>2, <5>1
        <4> QED  BY <2>2, <3>1, <3>2, <4>1, PairIntegratedOrFirst
      <3>3. CASE ImuSingle
        BY <2>2, <3>3 DEF ImuSingle
      <3>4. CASE ~ImuPair /\ ~ImuSingle
        BY <2>2, <3>1, <3>4, NavStepAfterStrapdown
      <3> QED  BY <3>2, <3>3, <3>4
    <2>5. CASE CallNavigator \/ LogCorrection \/ UNCHANGED swilVars
      BY <2>2, <2>5 DEF CallNavigator, LogCorrection, swilVars, navVars
    <2> QED  BY <2>3, <2>4, <2>5 DEF SwilNext
  <1> QED  BY <1>1, <1>2, SwilInvariant, PTL DEF SwilSpec

\* Every measurement is judged within an IMU period of its time, and with an
\* observation context no further from it.
THEOREM MeasurementsJudgedNearTheirTime == SwilSpec => JudgedNearItsTime
  <1>1. SwilInv /\ [SwilNext]_swilVars =>
          [\A s \in SensorNames :
            Len(queue'[s]) < Len(queue[s]) =>
                LET t == Head(queue[s])
                IN  /\ t - navT <= cadence.imu /\ navT - t <= cadence.imu
                    /\ context[s] - t <= cadence.imu]_swilVars
    <2> SUFFICES ASSUME SwilInv, SwilNext, NEW s \in SensorNames, Len(queue'[s]) < Len(queue[s])
                 PROVE  /\ Head(queue[s]) - navT <= cadence.imu /\ navT - Head(queue[s]) <= cadence.imu
                        /\ context[s] - Head(queue[s]) <= cadence.imu
      OBVIOUS
    <2> DEFINE c == cadence.imu
               t == Head(queue[s])
    <2>1. /\ NavInv /\ NavTypeOK /\ Controlled /\ Scheduled
          /\ epoch \in Nat /\ c \in Nat \ {0} /\ navT \in Nat /\ context[s] \in Nat
          /\ queue[s] \in Seq(Nat) /\ Len(queue[s]) \in Nat
      BY CadenceType, LenProperties DEF SwilInv, NavInv, NavTypeOK, TimeTypeOK, QueueTypeOK
    <2>2. ~(queue'[s] = queue[s]) /\ ~Publish
      <3>1. ~(queue'[s] = queue[s])
        BY <2>1
      <3>2. ASSUME Publish PROVE FALSE
        <4>1. Len(queue'[s]) = Len(queue[s]) + 1
          BY <2>1, <3>1, <3>2, PublishQueues
        <4> QED  BY <2>1, <4>1
      <3> QED  BY <3>1, <3>2
    <2>3. stage = "navigating" /\ Judge(s)
      <3>1. Navigate
        BY <2>2 DEF SwilNext, CallNavigator, LogCorrection, navVars
      <3>2. PICK r \in SensorNames : Judge(r)
        BY <2>2, <3>1 DEF Navigate, NavStep, ImuPair, ImuSingle, StrapdownDone, PropagateCovariance,
           StartMeasurements, SensorUpdate, FilterUpdate
      <3>3. stage = "navigating"
        BY <3>1 DEF Navigate
      <3>4. r = s
        BY <2>2, <3>2 DEF Judge, NavTypeOK, QueueTypeOK
      <3> QED  BY <3>2, <3>3, <3>4
    <2>4. /\ t \in Nat /\ t <= epoch /\ epoch <= t + c /\ context[s] <= epoch
      <3>1. queue[s] # <<>>
        BY <2>3 DEF Judge
      <3>2. t = queue[s][1] /\ t \in Nat
        BY <2>1, <3>1, HeadTailProperties
      <3>3. 1 \in DOMAIN queue[s]
        <4>1. DOMAIN queue[s] = 1..Len(queue[s]) /\ Len(queue[s]) # 0
          BY <2>1, <3>1, LenProperties, EmptyIffLengthZero
        <4> QED  BY <2>1, <4>1
      <3> QED  BY <2>3, <3>2, <3>3 DEF SwilInv, Waiting
    <2>5. epoch <= navT + c /\ navT <= epoch
      <3>1. CASE ok
        <4>1. imu = <<>> /\ navT = sampled
          <5>1. pc \in Measuring
            BY <2>3 DEF Judge, Measuring, SensorNames
          <5>2. imu = <<>>
            BY <2>1, <3>1, <5>1 DEF NavInv, Flushed
          <5> QED  BY <2>1, <3>1, <5>2 DEF NavInv, ImuTimeConserved
        <4>2. /\ epoch > 0 => sampled <= epoch /\ epoch < sampled + c
              /\ epoch <= 0 => sampled = 0
          <5>1. Published = epoch
            BY <2>3 DEF Published
          <5> QED  BY <2>1, <5>1, SampledRecently
        <4> QED  BY <2>1, <4>1, <4>2
      <3>2. CASE ~ok
        <4>1. navT = 0 /\ epoch <= c
          BY <2>3, <3>2 DEF SwilInv, FailedEarly
        <4> QED  BY <2>1, <4>1
      <3> QED  BY <3>1, <3>2
    <2> HIDE DEF t, c
    <2>6. t - navT <= c /\ navT - t <= c /\ context[s] - t <= c
      BY <2>1, <2>4, <2>5
    <2> QED  BY <2>6 DEF t, c
  <1> QED  BY <1>1, SwilInvariant, PTL DEF SwilSpec, JudgedNearItsTime

\* With a log at the application rate every applied correction is logged before
\* the next processing of measurements discards it.
THEOREM CorrectionsAreLogged == SwilSpec => NoCorrectionLost
  <1>1. SwilInv /\ [SwilNext]_swilVars =>
          [correction # {} /\ correction' = {} /\ cadence.log = 1
            => \E i \in DOMAIN logged : logged[i].correction = correction]_swilVars
    <2> SUFFICES ASSUME SwilInv, SwilNext, correction # {}, correction' = {}, cadence.log = 1
                 PROVE  \E i \in DOMAIN logged : logged[i].correction = correction
      OBVIOUS
    <2>1. StartMeasurements
      <3>1. ~Publish
        BY PublishParts
      <3>2. Navigate
        BY <3>1 DEF SwilNext, CallNavigator, LogCorrection, navVars
      <3> QED
        BY <3>2 DEF Navigate, NavStep, ImuPair, ImuSingle, StrapdownDone, PropagateCovariance,
           Judge, SensorUpdate, FilterUpdate, Inject
    <2>2. pc = "measurements"
      BY <2>1 DEF StartMeasurements
    <2> QED  BY <2>2 DEF SwilInv, Logged
  <1> QED  BY <1>1, SwilInvariant, PTL DEF SwilSpec, NoCorrectionLost

-----------------------------------------------------------------------------
(* The observation contexts. *)

\* Measurements that are further apart than increments, where increments pair.
Apart == config.coning => cadence.gnss > cadence.imu

\* Then at most one measurement of a sensor waits, and the context is its own.
OwnContext == Apart => \A s \in SensorNames : queue[s] = <<>> \/ queue[s] = <<context[s]>>

\* No measurement waits when the next one is due.
LEMMA NoneWaitsWhenDue ==
    ASSUME SwilInv, Apart, stage = "publish", Due("gnss"), NEW s \in SensorNames
    PROVE  queue[s] = <<>>
  <1> SUFFICES ASSUME queue[s] # <<>> PROVE FALSE
    OBVIOUS
  <1> DEFINE c == cadence.imu
             g == cadence.gnss
             h == Head(queue[s])
             n == Len(queue[s])
             d == due["gnss"]
  <1>1. /\ NavInv /\ NavTypeOK /\ Controlled /\ Scheduled /\ ok /\ pc = "idle"
        /\ epoch \in Nat /\ c \in Nat \ {0} /\ g \in Nat \ {0}
    BY CadenceType DEF SwilInv, NavInv, Controlled
  <1>2. imu # <<>> /\ Len(imu) = 1 /\ config.coning
    <2>1. imu # <<>>
      BY <1>1 DEF SwilInv, Waiting
    <2>2. Len(imu) \in Nat /\ Len(imu) # 0
      BY <1>1, <2>1, EmptyIffLengthZero DEF NavTypeOK, ImuTypeOK
    <2>3. Len(imu) <= 1
      BY <1>1 DEF SwilInv, Paired
    <2>4. Len(imu) = 1
      <3>1. \A k \in Nat : k <= 1 /\ k # 0 => k = 1
        OBVIOUS
      <3> QED  BY <2>2, <2>3, <3>1, Zenon
    <2>5. config.coning
      BY <1>1, <2>4 DEF SwilInv, Paired
    <2> QED  BY <2>1, <2>4, <2>5, Zenon
  <1>3. queue[s] \in Seq(Nat) /\ h \in Nat /\ h = queue[s][1] /\ n \in Nat \ {0} /\ 1 \in DOMAIN queue[s]
    <2>1. queue[s] \in Seq(Nat) /\ n \in Nat /\ n # 0 /\ DOMAIN queue[s] = 1..n
      BY <1>1, EmptyIffLengthZero, LenProperties DEF NavTypeOK, QueueTypeOK
    <2>2. 1 \in DOMAIN queue[s] /\ n \in Nat \ {0}
      BY <2>1
    <2>3. Head(queue[s]) \in Nat /\ Head(queue[s]) = queue[s][1]
      BY <2>1, HeadTailProperties
    <2> QED  BY <2>1, <2>2, <2>3
  <1>4. sampled <= h /\ sampled \in Nat
    BY <1>1, <1>2, <1>3 DEF SwilInv, Waiting, NavTypeOK, TimeTypeOK
  <1>5. epoch <= sampled + c
    <2>1. /\ Published > 0 => Published < sampled + c
          /\ Published \in Int /\ Published = epoch - 1
      BY <1>1, SampledRecently DEF Published
    <2> QED  BY <1>1, <1>4, <2>1
  <1>6. h + g * n <= d /\ d <= epoch /\ d \in Nat
    BY <1>1, SampledRecently DEF SwilInv, Spaced, SensorNames, Due
  <1>7. g > c
    BY <1>2 DEF Apart
  <1> HIDE DEF c, g, h, n, d
  <1>8. n - 1 \in Nat /\ g * n = g * (n - 1) + g /\ g * (n - 1) \in Nat
    BY <1>1, <1>3
  <1>9. g * n \in Nat /\ g * n >= g
    BY <1>1, <1>8
  <1> DEFINE w == g * n
  <1>10. w \in Nat /\ w >= g /\ h + w <= epoch /\ g \in Nat /\ c \in Nat /\ h \in Nat
    BY <1>1, <1>3, <1>6, <1>9
  <1> HIDE DEF w
  <1> QED  BY <1>1, <1>4, <1>5, <1>7, <1>10

\* A publication that finds the queues empty leaves one measurement with its context.
LEMMA PublishKeepsContext == ASSUME SwilInv, OwnContext, Publish PROVE OwnContext'
  <1> SUFFICES ASSUME Apart', NEW s \in SensorNames
               PROVE  queue'[s] = <<>> \/ queue'[s] = <<context'[s]>>
    BY DEF OwnContext
  <1>1. Apart /\ stage = "publish" /\ (queue[s] = <<>> \/ queue[s] = <<context[s]>>)
    BY PublishParts DEF Apart, OwnContext
  <1>2. CASE UNCHANGED <<queue, context>>
    BY <1>1, <1>2
  <1>3. CASE \E measured \in SUBSET SensorNames :
                /\ measured # {} => Due("gnss")
                /\ PushMeasurements(measured, epoch)
    <2>1. PICK measured \in SUBSET SensorNames :
                /\ measured # {} => Due("gnss")
                /\ PushMeasurements(measured, epoch)
      BY <1>3
    <2>2. CASE measured = {}
      <3>1. queue'[s] = queue[s] /\ context'[s] = context[s]
        BY <2>1, <2>2 DEF PushMeasurements
      <3> QED  BY <1>1, <3>1
    <2>3. CASE measured # {}
      <3>1. \A r \in SensorNames : queue[r] = <<>> /\ ~Full(r)
        <4>1. \A r \in SensorNames : queue[r] = <<>>
          BY <1>1, <2>1, <2>3, NoneWaitsWhenDue
        <4>2. Len(<<>>) # SensorCapacity
          BY CapacityAssumption
        <4> QED  BY <4>1, <4>2 DEF Full
      <3>2. /\ context'[s] = IF s \in measured THEN epoch ELSE context[s]
            /\ queue'[s] = IF s \in measured THEN Append(<<>>, epoch) ELSE <<>>
        BY <2>1, <3>1 DEF PushMeasurements, SensorNames
      <3>3. Append(<<>>, epoch) = <<epoch>>
        OBVIOUS
      <3> QED  BY <3>2, <3>3
    <2> QED  BY <2>2, <2>3
  <1> QED  BY <1>2, <1>3, PublishParts

\* Judging takes the only measurement.
LEMMA NavigateKeepsContext == ASSUME SwilInv, OwnContext, Navigate PROVE OwnContext'
  <1>1. NavStep /\ UNCHANGED <<config, context, cadence>>
    BY NavStepFrame DEF Navigate
  <1> SUFFICES ASSUME Apart, NEW s \in SensorNames
               PROVE  queue'[s] = <<>> \/ queue'[s] = <<context[s]>>
    BY <1>1 DEF OwnContext, Apart
  <1>2. queue[s] = <<>> \/ queue[s] = <<context[s]>>
    BY DEF OwnContext
  <1>3. CASE queue' = queue
    BY <1>2, <1>3
  <1>4. ASSUME NEW r \in SensorNames, Judge(r)
        PROVE  queue'[s] = <<>> \/ queue'[s] = <<context[s]>>
    <2>1. queue' = [queue EXCEPT ![r] = Tail(@)] /\ queue[r] # <<>> /\ queue \in [SensorNames -> Seq(Nat)]
      BY <1>4 DEF Judge, SwilInv, NavInv, NavTypeOK, QueueTypeOK
    <2>2. CASE r = s
      <3>1. queue'[s] = Tail(<<context[s]>>)
        BY <1>2, <2>1, <2>2
      <3> QED  BY <3>1
    <2>3. CASE r # s
      BY <1>2, <2>1, <2>3
    <2> QED  BY <2>2, <2>3
  <1> QED
    BY <1>1, <1>3, <1>4 DEF NavStep, ImuPair, ImuSingle, StrapdownDone, PropagateCovariance,
       StartMeasurements, SensorUpdate, FilterUpdate

\* Without compensation, or with measurements further apart than increments, each is judged
\* with the observation context that was taken for it.
THEOREM ContextsAreOwn == SwilSpec => OwnContextJudged
  <1>1. SwilInit => OwnContext
    BY DEF SwilInit, NavInit, OwnContext
  <1>2. SwilInv /\ OwnContext /\ [SwilNext]_swilVars => OwnContext'
    <2>1. CASE CallNavigator \/ LogCorrection \/ UNCHANGED swilVars
      <3>1. UNCHANGED <<config, cadence, queue, context>>
        BY <2>1 DEF CallNavigator, LogCorrection, swilVars, navVars
      <3> QED  BY <3>1 DEF OwnContext, Apart
    <2> QED  BY <2>1, PublishKeepsContext, NavigateKeepsContext DEF SwilNext
  <1>3. SwilInv /\ OwnContext /\ [SwilNext]_swilVars =>
          [\A s \in SensorNames :
            Len(queue'[s]) < Len(queue[s]) /\ (config.coning => cadence.gnss > cadence.imu)
            => context[s] = Head(queue[s])]_swilVars
    <2> SUFFICES ASSUME SwilInv, OwnContext, SwilNext, NEW s \in SensorNames,
                        Len(queue'[s]) < Len(queue[s]), Apart
                 PROVE  context[s] = Head(queue[s])
      BY DEF Apart
    <2>1. queue[s] = <<>> \/ queue[s] = <<context[s]>>
      BY DEF OwnContext
    <2>2. queue[s] # <<>>
      <3> SUFFICES ASSUME queue[s] = <<>> PROVE FALSE
        OBVIOUS
      <3>1. CASE Publish
        <4>1. NavTypeOK /\ Controlled
          BY DEF SwilInv, NavInv
        <4>2. queue'[s] = queue[s] \/ Len(queue'[s]) = Len(queue[s]) + 1
          BY <3>1, <4>1, PublishQueues
        <4>3. Len(queue[s]) = 0
          OBVIOUS
        <4> QED  BY <4>2, <4>3
      <3>2. CASE ~Publish
        <4>1. queue'[s] = queue[s] \/ \E r \in SensorNames : Judge(r)
          BY <3>2 DEF SwilNext, CallNavigator, LogCorrection, navVars, Navigate, NavStep, ImuPair,
             ImuSingle, StrapdownDone, PropagateCovariance, StartMeasurements, SensorUpdate, FilterUpdate
        <4>2. ASSUME NEW r \in SensorNames, Judge(r) PROVE queue'[s] = queue[s]
          <5>1. queue' = [queue EXCEPT ![r] = Tail(@)] /\ queue[r] # <<>>
            BY <4>2 DEF Judge
          <5> QED  BY <5>1 DEF SwilInv, NavInv, NavTypeOK, QueueTypeOK
        <4>3. Len(queue[s]) = 0
          OBVIOUS
        <4> QED  BY <4>1, <4>2, <4>3
      <3> QED  BY <3>1, <3>2
    <2>3. Head(<<context[s]>>) = context[s]
      OBVIOUS
    <2> QED  BY <2>1, <2>2, <2>3
  <1> QED  BY <1>1, <1>2, <1>3, SwilInvariant, PTL DEF SwilSpec, OwnContextJudged
=============================================================================
