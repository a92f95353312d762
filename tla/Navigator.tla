------------------------------- MODULE Navigator -------------------------------
(***************************************************************************)
(* The Navigator: its IMU buffer, strapdown integration and covariance      *)
(* propagation, the measurement queues of the two GNSS sensors, and the     *)
(* filter's correction from acceptance over injection to the value that is  *)
(* reported.  update() and finalize() run to their end on the caller's      *)
(* thread; each action here is one step of that call and pc names the next. *)
(*                                                                         *)
(* Navigation states, covariances and matrices are reduced to the time they *)
(* stand for, a correction to the set of measurements it is composed of and *)
(* the verdict on a measurement to a choice.  Times are ticks since the     *)
(* start; time 0 of a measurement is the start itself.                      *)
(***************************************************************************)
EXTENDS Integers, Sequences

CONSTANTS
    NavConfigs,      \* the builds considered: [coning, afterEach, covPeriod]
    ImuCapacity,     \* Propagation::imu_buffer_capacity
    SensorCapacity,  \* the buffer size of each sensor
    MaxDt,           \* the longest increment the environment pushes
    Horizon          \* bound on the time it samples

SensorNames == {"position", "velocity"}

\* coning: two-sample coning/sculling compensation; afterEach: the update policy
\* UpdateAfterEachSensor, otherwise UpdatePostFilter; covPeriod: ticks between
\* covariance predictions.
NavConfig == [coning : BOOLEAN, afterEach : BOOLEAN, covPeriod : Nat]

ASSUME NavConfigAssumption == NavConfigs \subseteq NavConfig
ASSUME CapacityAssumption ==
    /\ ImuCapacity \in Nat \ {0}
    /\ SensorCapacity \in Nat \ {0}
    /\ MaxDt \in Nat \ {0}
    /\ Horizon \in Nat

VARIABLES
    config,      \* the build, never changed
    pc,          \* the next step of update() or finalize(), "idle" between calls
    final,       \* whether the call is finalize()
    ok,          \* what the last call returned; the host stops at FALSE
    imu,         \* m_imu_buffer, oldest first
    sampled,     \* the end of the last increment that was pushed
    navT,        \* the time of the filter's nominal state
    covT,        \* the time of the filter's covariance
    pending,     \* duration of m_pending_covariance_step, 0 for none
    queue,       \* the measurement buffer of each sensor, oldest first
    context,     \* the time of each sensor's observation context
    dx,          \* the accepted measurements in the filter's pending m_dx
    correction   \* those in m_last_applied_correction, {} when it is not valid

navVars ==
    <<config, pc, final, ok, imu, sampled, navT, covT, pending, queue, context, dx, correction>>

Increment == [t : Nat, dt : Nat \ {0}]
MeasurementId == SensorNames \X Nat
Steps == {"idle", "strapdown", "covariance", "measurements", "position", "velocity", "filter"}

-----------------------------------------------------------------------------
(* What callers push between two calls. *)

\* A push_imu() that takes an increment into a full buffer.
PushImuUnbounded(dt) ==
    /\ sampled' = sampled + dt
    /\ imu' = Append(imu, [t |-> sampled + dt, dt |-> dt])

\* push_imu(): a full buffer rejects the increment.
PushImu(dt) ==
    /\ sampled' = sampled + dt
    /\ imu' = IF Len(imu) < ImuCapacity THEN Append(imu, [t |-> sampled + dt, dt |-> dt]) ELSE imu

ImuOverflows == Len(imu) = ImuCapacity

\* A buffer that keeps one of its places free.
FullEarly(s) == Len(queue[s]) + 1 >= SensorCapacity

Full(s) == Len(queue[s]) = SensorCapacity

\* A publication that renews the context of every sensor, measured or not.
PushMeasurementsRefreshing(sensors, t) ==
    LET reached == IF "position" \in sensors /\ Full("position") THEN {"position"} ELSE sensors
    IN  /\ context' = [s \in SensorNames |-> t]
        /\ queue' = [s \in SensorNames |->
                IF s \in reached /\ ~Full(s) THEN Append(queue[s], t) ELSE queue[s]]

\* EmulatorRuntime::publish() for the sensors that have a measurement: each sets
\* its context, then pushes; the velocity's turn comes if the position's push
\* was accepted.
PushMeasurements(sensors, t) ==
    LET reached == IF "position" \in sensors /\ Full("position") THEN {"position"} ELSE sensors
    IN  /\ context' = [s \in SensorNames |-> IF s \in reached THEN t ELSE context[s]]
        /\ queue' = [s \in SensorNames |->
                IF s \in reached /\ ~Full(s) THEN Append(queue[s], t) ELSE queue[s]]

PushOverflows(sensors) == \E s \in sensors : Full(s)

Call(finalize) == pc = "idle" /\ ok /\ pc' = "strapdown" /\ final' = finalize

-----------------------------------------------------------------------------
(* process_strapdown_integration(). *)

\* The pair is compensated as one interval only if it is contiguous and evenly
\* spaced; without compensation the two are integrated one after the other.
PairIntegrates(first, second) ==
    config.coning => first.dt = second.dt /\ second.t - first.t = second.dt

\* The nominal state and the pending covariance step advance by the interval.
Integrate(dt) == navT' = navT + dt /\ pending' = pending + dt

\* A pair of which only the second increment is integrated.
ImuPairHalf ==
    /\ pc = "strapdown" /\ Len(imu) >= 2
    /\ imu' = Tail(Tail(imu))
    /\ IF PairIntegrates(imu[1], imu[2])
       THEN Integrate(imu[2].dt) /\ UNCHANGED <<pc, ok>>
       ELSE ok' = FALSE /\ pc' = "covariance" /\ UNCHANGED <<navT, pending>>
    /\ UNCHANGED <<config, final, sampled, covT, queue, context, dx, correction>>

\* The increments are popped before they are integrated: a failure loses them,
\* leaves the loop and still runs the covariance and the measurements.
ImuPair ==
    /\ pc = "strapdown" /\ Len(imu) >= 2
    /\ imu' = Tail(Tail(imu))
    /\ IF PairIntegrates(imu[1], imu[2])
       THEN Integrate(imu[1].dt + imu[2].dt) /\ UNCHANGED <<pc, ok>>
       ELSE ok' = FALSE /\ pc' = "covariance" /\ UNCHANGED <<navT, pending>>
    /\ UNCHANGED <<config, final, sampled, covT, queue, context, dx, correction>>

\* With compensation an unmatched increment waits for its partner until the
\* call is finalize().
ImuSingle ==
    /\ pc = "strapdown" /\ Len(imu) = 1
    /\ final \/ ~config.coning
    /\ imu' = <<>>
    /\ Integrate(imu[1].dt)
    /\ pc' = "covariance"
    /\ UNCHANGED <<config, final, ok, sampled, covT, queue, context, dx, correction>>

StrapdownDone ==
    /\ pc = "strapdown"
    /\ imu = <<>> \/ (Len(imu) = 1 /\ config.coning /\ ~final)
    /\ pc' = "covariance"
    /\ UNCHANGED <<config, final, ok, imu, sampled, navT, covT, pending, queue, context, dx, correction>>

-----------------------------------------------------------------------------
(* propagate_covariance() and the decision of update() that follows it. *)

AwaitingImuPair == config.coning /\ imu # <<>>

CovarianceReady == pending > 0 /\ (final \/ pending >= config.covPeriod)

\* A finalize() that keeps a partial covariance interval back like update().
CovarianceNotForced ==
    /\ pc = "covariance"
    /\ IF pending > 0 /\ pending >= config.covPeriod
       THEN covT' = covT + pending /\ pending' = 0
       ELSE UNCHANGED <<covT, pending>>
    /\ pc' = IF AwaitingImuPair /\ ~final THEN "idle" ELSE "measurements"
    /\ UNCHANGED <<config, final, ok, imu, sampled, navT, queue, context, dx, correction>>

\* An update() that processes measurements while an increment waits.
MeasureWhileAwaiting ==
    /\ pc = "covariance"
    /\ IF CovarianceReady
       THEN covT' = covT + pending /\ pending' = 0
       ELSE UNCHANGED <<covT, pending>>
    /\ pc' = "measurements"
    /\ UNCHANGED <<config, final, ok, imu, sampled, navT, queue, context, dx, correction>>

\* A finalize() that leaves the measurements behind as update() may.
FinalizeAwaits ==
    /\ pc = "covariance"
    /\ IF CovarianceReady
       THEN covT' = covT + pending /\ pending' = 0
       ELSE UNCHANGED <<covT, pending>>
    /\ pc' = IF AwaitingImuPair THEN "idle" ELSE "measurements"
    /\ UNCHANGED <<config, final, ok, imu, sampled, navT, queue, context, dx, correction>>

\* An update() leaves the measurements for later while an increment waits.
PropagateCovariance ==
    /\ pc = "covariance"
    /\ IF CovarianceReady
       THEN covT' = covT + pending /\ pending' = 0
       ELSE UNCHANGED <<covT, pending>>
    /\ pc' = IF AwaitingImuPair /\ ~final THEN "idle" ELSE "measurements"
    /\ UNCHANGED <<config, final, ok, imu, sampled, navT, queue, context, dx, correction>>

-----------------------------------------------------------------------------
(* process_measurements(): the sensors in the order of the tuple. *)

StartMeasurements ==
    /\ pc = "measurements"
    /\ correction' = {}
    /\ pc' = "position"
    /\ UNCHANGED <<config, final, ok, imu, sampled, navT, covT, pending, queue, context, dx>>

\* One iteration of KalmanFilter::process_sensor(): the update is accepted by a
\* healthy innovation covariance and the gate, or nothing is added to m_dx.
Judge(s) ==
    /\ pc = s /\ queue[s] # <<>>
    /\ queue' = [queue EXCEPT ![s] = Tail(@)]
    /\ dx' \in {dx, dx \cup {<<s, Head(queue[s])>>}}
    /\ UNCHANGED <<config, pc, final, ok, imu, sampled, navT, covT, pending, context, correction>>

\* inject(), reset() and the composition with what was applied before.
Inject == correction' = correction \cup dx /\ dx' = {}

\* UpdateAfterEachSensor::sensor_update() without the reset().
SensorUpdateWithoutReset(s) ==
    /\ pc = s /\ queue[s] = <<>>
    /\ IF config.afterEach THEN correction' = correction \cup dx ELSE UNCHANGED correction
    /\ pc' = IF s = "position" THEN "velocity" ELSE "filter"
    /\ UNCHANGED <<config, final, ok, imu, sampled, navT, covT, pending, queue, context, dx>>

\* sensor_update(): UpdateAfterEachSensor injects what is pending.
SensorUpdate(s) ==
    /\ pc = s /\ queue[s] = <<>>
    /\ IF config.afterEach THEN Inject ELSE UNCHANGED <<dx, correction>>
    /\ pc' = IF s = "position" THEN "velocity" ELSE "filter"
    /\ UNCHANGED <<config, final, ok, imu, sampled, navT, covT, pending, queue, context>>

\* filter_update(): UpdatePostFilter injects once for all sensors.
FilterUpdate ==
    /\ pc = "filter"
    /\ IF config.afterEach THEN UNCHANGED <<dx, correction>> ELSE Inject
    /\ pc' = "idle"
    /\ UNCHANGED <<config, final, ok, imu, sampled, navT, covT, pending, queue, context>>

\* The body of update() and finalize().
NavStep ==
    \/ ImuPair \/ ImuSingle \/ StrapdownDone
    \/ PropagateCovariance
    \/ StartMeasurements
    \/ \E s \in SensorNames : Judge(s) \/ SensorUpdate(s)
    \/ FilterUpdate

NavInit ==
    /\ config \in NavConfigs
    /\ pc = "idle" /\ final = FALSE /\ ok = TRUE
    /\ imu = <<>> /\ sampled = 0 /\ navT = 0 /\ covT = 0 /\ pending = 0
    /\ queue = [s \in SensorNames |-> <<>>]
    /\ context = [s \in SensorNames |-> 0]
    /\ dx = {} /\ correction = {}

-----------------------------------------------------------------------------
(* A caller that pushes and calls in any order until it has finalized or a  *)
(* call has failed.  Increments continue one another, as ImuSimulator makes *)
(* them.                                                                    *)

CallerPushesImu ==
    /\ pc = "idle" /\ ok /\ ~final
    /\ \E dt \in 1..MaxDt : sampled + dt <= Horizon /\ PushImu(dt)
    /\ ok' = ~ImuOverflows
    /\ UNCHANGED <<config, pc, final, navT, covT, pending, queue, context, dx, correction>>

CallerPushesMeasurements ==
    /\ pc = "idle" /\ ok /\ ~final
    /\ \E sensors \in SUBSET SensorNames \ {{}} :
        /\ \A s \in sensors : context[s] < sampled
        /\ PushMeasurements(sensors, sampled)
        /\ ok' = ~PushOverflows(sensors)
    /\ UNCHANGED <<config, pc, final, imu, sampled, navT, covT, pending, dx, correction>>

CallerUpdates ==
    /\ ~final
    /\ \E finalize \in BOOLEAN : Call(finalize)
    /\ UNCHANGED <<config, ok, imu, sampled, navT, covT, pending, queue, context, dx, correction>>

NavNext == NavStep \/ CallerPushesImu \/ CallerPushesMeasurements \/ CallerUpdates

\* A call that was made runs to its end: the caller waits for it on one thread.
NavSpec == NavInit /\ [][NavNext]_navVars /\ WF_navVars(NavStep)

-----------------------------------------------------------------------------
(* Properties. *)

ControlTypeOK ==
    config \in NavConfigs /\ pc \in Steps /\ final \in BOOLEAN /\ ok \in BOOLEAN
ImuTypeOK == imu \in Seq(Increment) /\ Len(imu) <= ImuCapacity
TimeTypeOK == sampled \in Nat /\ navT \in Nat /\ covT \in Nat /\ pending \in Nat
QueueTypeOK ==
    /\ queue \in [SensorNames -> Seq(Nat)] /\ \A s \in SensorNames : Len(queue[s]) <= SensorCapacity
    /\ context \in [SensorNames -> Nat]
CorrectionTypeOK == dx \subseteq MeasurementId /\ correction \subseteq MeasurementId

\* Every variable has its type, and no buffer holds more than its capacity.
NavTypeOK == ControlTypeOK /\ ImuTypeOK /\ TimeTypeOK /\ QueueTypeOK /\ CorrectionTypeOK

\* While no call has failed, the nominal state and the buffered increments
\* together cover the sampled time without gap or overlap.
ImuTimeConserved ==
    ok => /\ \A i \in DOMAIN imu :
                imu[i].t - imu[i].dt = IF i = 1 THEN navT ELSE imu[i - 1].t
          /\ sampled = IF imu = <<>> THEN navT ELSE imu[Len(imu)].t

\* The covariance trails the nominal state by exactly the pending interval, and
\* between two calls by less than a covariance period; after finalize() by none.
CovarianceFollowsState ==
    /\ covT + pending = navT
    /\ pc = "idle" => pending = 0 \/ pending < config.covPeriod
    /\ pc = "idle" /\ final => pending = 0

\* A measurement is judged against a state that no sampled increment precedes:
\* with compensation too, nothing waits in the buffer when aiding is processed.
JudgedAtLatestState == ok /\ pc \in SensorNames \cup {"filter"} => imu = <<>> /\ navT = sampled

\* Between two calls no accepted measurement is left uninjected, and one that
\* was injected is not pending as well.
CorrectionsApplied ==
    /\ pc = "idle" => dx = {}
    /\ dx \cap correction = {}

\* Once finalize() was called, every measurement still queued is processed, also
\* when the strapdown integration fails and leaves increments behind.
FinalizeProcessesAll == final ~> (pc = "idle" /\ \A s \in SensorNames : queue[s] = <<>>)
=============================================================================
