----------------------------- MODULE SensorPipeline -----------------------------
(***************************************************************************)
(* From the truth to the Navigator's buffers: at each epoch of the application *)
(* time line the IMU runtime and the two GNSS emulators are asked for what is   *)
(* due, then publish it into ring buffers that the Navigator empties.          *)
(*                                                                         *)
(* Times are nanoseconds rounded as the code rounds them.  A measurement is    *)
(* its time and an increment the interval it covers: truth, errors and noise    *)
(* are left out.                                                           *)
(***************************************************************************)
EXTENDS RationalTime, RingBuffer

CONSTANTS
    Setups,           \* the configurations offered
    ImuCapacity,      \* Propagation::imu_buffer_capacity
    SensorCapacity,   \* the buffer size of each sensor
    HistoryCapacity,  \* Propagation::covariance_history_capacity
    PairTolerance     \* timing_tolerance_s

Sensors == {"position", "velocity"}
Buffers == Sensors \cup {"imu", "history"}
Capacity == [b \in Buffers |->
    CASE b = "imu" -> ImuCapacity [] b = "history" -> HistoryCapacity [] OTHER -> SensorCapacity]
Policy == [b \in Buffers |-> IF b = "history" THEN "overwriteOldest" ELSE "reject"]

ASSUME PipelineAssumption ==
    /\ \A b \in Buffers : Capacity[b] \in Nat \ {0}
    /\ PairTolerance \in Nat

VARIABLES
    setup,      \* the configuration: its rates, windows, first and last time
    stage,      \* what comes next
    index,      \* m_next_sample_index of the application time line
    now,        \* the epoch's time
    imuNext,    \* the IMU schedule's next index
    previous,   \* m_previous.t of the IMU simulator
    gnss,       \* each GNSS simulator's schedule: its start, -1 before the first call, and next index
    prepared,   \* what prepare_before_deadline() generated
    ring,       \* the buffers
    rate,       \* the end of the increment of m_latest_omega_ib_b_meas_radps, -1 before the first
    pending,    \* duration of the pending covariance step
    imuLog,     \* the increments that were published, in order
    gnssLog     \* the measurements that were published, with the rate in their context

sourceVars == <<setup, index, now, imuNext, previous, gnss, prepared>>
pipelineVars == <<sourceVars, stage, ring, rate, pending, imuLog, gnssLog>>

Blank == [t |-> 0, dt |-> 0]  \* a value-initialized element

-----------------------------------------------------------------------------
(* Configuration. *)

\* validate_gnss_active_windows(): windows are sorted and do not overlap.
WindowsAccepted(windows) ==
    /\ \A i \in DOMAIN windows : windows[i].start >= 0 /\ windows[i].end > windows[i].start
    /\ \A i \in 2..Len(windows) : windows[i].start >= windows[i - 1].end

AppRate(c) == RateFromRuntime(c.app)
ImuRate(c) == RateFromRuntime(c.imu)
GnssRate(c) == RateFromRuntime(c.gnss)

\* validate_swil_runtime_config(): the application rate is a multiple of each sensor's.
SetupAccepted(c) ==
    /\ IsIntegerMultiple(AppRate(c), ImuRate(c))
    /\ IsIntegerMultiple(AppRate(c), GnssRate(c))
    /\ WindowsAccepted(c.windows)

\* Configurations have values of their types, and end within what a timestamp represents.
ASSUME SetupsAssumption ==
    \A c \in Setups :
        /\ {c.app, c.imu, c.gnss} \subseteq ConfiguredRate
        /\ c.start \in Nat /\ c.end \in c.start..(NoTime - 1)

\* Far inside the ranges of the integers: a rate's denominator is at most a million
\* (rational_value_from_positive_scalar()), so that no product within a cycle overflows;
\* a sample is a nanosecond or more from the next; the first IMU samples are
\* timestamps; and the bound MaxIndex lies beyond the end.
ASSUME RangeAssumption ==
    \A c \in Setups : SetupAccepted(c) =>
        /\ \A r \in {AppRate(c), ImuRate(c), GnssRate(c)} :
              /\ (r.samples - 1) * r.s <= MaxSeconds
              /\ r.samples <= r.s * NsPerSecond
              /\ c.end < TimestampAt(c.start, r, MaxIndex)
        /\ TimestampAt(c.start, ImuRate(c), 2) # NoTime

-----------------------------------------------------------------------------
(* Preparation. *)

Nothing == [imu |-> Blank, sensors |-> {}]
HasIncrement(p) == p.imu # Blank

\* ImuRuntime::prepare(): an increment from the last sample to this one if the
\* schedule is due; no interval, no increment.
ImuDue(t) == Due(setup.start, ImuRate(setup), imuNext, t)

ImuFails(t) == ImuDue(t) /\ t <= previous

\* A simulator whose previous sample is that of every epoch.
PrepareImuEveryEpoch(t) ==
    /\ imuNext' = NextDue(setup.start, ImuRate(setup), imuNext, t)
    /\ previous' = t

\* ImuSimulator::interval_from_truth_ecef(): from the previous sample to t.
Interval(t) == [t |-> t, dt |-> t - previous]

PrepareImu(t) ==
    /\ imuNext' = NextDue(setup.start, ImuRate(setup), imuNext, t)
    /\ previous' = IF ImuDue(t) THEN t ELSE previous

\* availability_active(): the windows are half open and count from the schedule's start.
Available(start, t) ==
    \/ setup.windows = <<>>
    \/ \E i \in DOMAIN setup.windows :
          t - start >= setup.windows[i].start /\ t - start < setup.windows[i].end

\* should_generate(): the first call starts the schedule at the truth's time.
Started(s, t) == IF gnss[s].start < 0 THEN [start |-> t, next |-> 0] ELSE gnss[s]

\* A schedule that is only asked while the receiver is available.
ConsumedWhenAvailable(s, t) ==
    LET g == Started(s, t)
    IN  IF Available(g.start, t) THEN [g EXCEPT !.next = NextDue(g.start, GnssRate(setup), @, t)] ELSE g

\* The due index is consumed whether or not the receiver is available.
Consumed(s, t) ==
    LET g == Started(s, t) IN [g EXCEPT !.next = NextDue(g.start, GnssRate(setup), @, t)]

Generates(s, t) ==
    LET g == Started(s, t)
    IN  Due(g.start, GnssRate(setup), g.next, t) /\ Available(g.start, t)

\* EmulatorRuntime::prepare().
Measured(t) == {s \in Sensors : Generates(s, t)}

\* The time of the epoch: the time line's next one, clamped to the source's end.
Requested == TimestampAt(setup.start, AppRate(setup), index)
EpochTime == IF Requested > setup.end THEN setup.end ELSE Requested

\* prepare_before_deadline(): the initial epoch leaves the IMU alone.
Prepare ==
    /\ stage = "prepare"
    /\ LET t == EpochTime
       IN  IF Requested = NoTime \/ (index > 0 /\ ImuFails(t))
           THEN stage' = "failed" /\ UNCHANGED sourceVars
           ELSE /\ stage' = "publish" /\ now' = t /\ index' = index + 1
                /\ IF index > 0 THEN PrepareImu(t) ELSE UNCHANGED <<imuNext, previous>>
                /\ gnss' = [s \in Sensors |-> Consumed(s, t)]
                /\ prepared' = [imu |-> IF index > 0 /\ ImuDue(t)
                                        THEN Interval(t) ELSE Blank,
                                sensors |-> Measured(t)]
                /\ UNCHANGED setup
    /\ UNCHANGED <<ring, rate, pending, imuLog, gnssLog>>

-----------------------------------------------------------------------------
(* Publication. *)

Accepts(b) == ~RingFull(Capacity[b], ring[b])
Pushed(b, v) == Push(Capacity[b], Policy[b], ring[b], v)

\* The sensors that EmulatorRuntime::publish() comes to: the velocity's turn comes
\* if the position's push was accepted.
Reached ==
    IF HasIncrement(prepared) /\ ~Accepts("imu") THEN {}
    ELSE IF "position" \in prepared.sensors /\ ~Accepts("position") THEN {"position"}
    ELSE prepared.sensors

PublicationOk ==
    /\ HasIncrement(prepared) => Accepts("imu")
    /\ \A s \in prepared.sensors : Accepts(s)

\* A context that is set from the rate before the epoch's increment is published.
RateInContextEarly == rate

\* The rate update_sensor_context() finds: publish_at_deadline() pushes the increment
\* before the measurements.
RateInContext == rate'

\* A position measurement is corrected for the lever arm by the attitude alone, a
\* velocity measurement by the angular rate as well.
PositionMeasurement == [t |-> now, rate |-> -1]
VelocityMeasurement == [t |-> now, rate |-> RateInContext]

\* The log of each sensor reached takes the measurement before its buffer does.
PublishMeasurements ==
    gnssLog' = [position |-> IF "position" \in Reached
                    THEN Append(gnssLog.position, PositionMeasurement) ELSE gnssLog.position,
                velocity |-> IF "velocity" \in Reached
                    THEN Append(gnssLog.velocity, VelocityMeasurement) ELSE gnssLog.velocity]

Publish ==
    /\ stage = "publish"
    /\ LET pushesImu == HasIncrement(prepared) /\ Accepts("imu")
       IN  /\ rate' = IF pushesImu THEN now ELSE rate
           /\ imuLog' = IF pushesImu THEN Append(imuLog, prepared.imu) ELSE imuLog
           /\ ring' = [b \in Buffers |->
                  IF b = "imu" /\ pushesImu THEN Pushed(b, prepared.imu)
                  ELSE IF b \in Reached THEN Pushed(b, [t |-> now, dt |-> 0]) ELSE ring[b]]
    /\ PublishMeasurements
    /\ stage' = IF PublicationOk THEN "integrate" ELSE "failed"
    /\ UNCHANGED <<sourceVars, pending>>

-----------------------------------------------------------------------------
(* The Navigator empties the buffers. *)

Terminal == now = setup.end
Abs(x) == IF x < 0 THEN -x ELSE x

\* corrected_interval_from_pair().
PairCompensates(first, second) ==
    /\ first.dt > 0 /\ second.dt > 0 /\ first.t <= second.t
    /\ Abs(first.dt - second.dt) <= PairTolerance
    /\ Abs((second.t - first.t) - second.dt) <= PairTolerance

\* process_strapdown_integration(): pairs first; a failure loses the pair.
IntegratePair ==
    /\ stage = "integrate" /\ ring["imu"].count >= 2
    /\ LET first  == Front(ring["imu"])
           rest   == Pop(ImuCapacity, ring["imu"])
           second == Front(rest)
       IN  /\ ring' = [ring EXCEPT !["imu"] = Pop(ImuCapacity, rest)]
           /\ IF setup.coning => PairCompensates(first, second)
              THEN pending' = pending + first.dt + second.dt /\ UNCHANGED stage
              ELSE stage' = "failed" /\ UNCHANGED pending
    /\ UNCHANGED <<sourceVars, rate, imuLog, gnssLog>>

IntegrateSingle ==
    /\ stage = "integrate" /\ ring["imu"].count = 1
    /\ Terminal \/ ~setup.coning
    /\ ring' = [ring EXCEPT !["imu"] = Pop(ImuCapacity, @)]
    /\ pending' = pending + Front(ring["imu"]).dt
    /\ UNCHANGED <<sourceVars, stage, rate, imuLog, gnssLog>>

CovarianceReady == pending > 0 /\ (Terminal \/ pending >= setup.covPeriod)

\* propagate_covariance() remembers the step; process_measurements() empties the
\* sensors unless an increment waits for its partner.
UpdateNavigator ==
    /\ stage = "integrate"
    /\ ring["imu"].count = 0 \/ (ring["imu"].count = 1 /\ setup.coning /\ ~Terminal)
    /\ LET measures == Terminal \/ ~(setup.coning /\ ring["imu"].count > 0)
       IN  ring' = [b \in Buffers |->
              IF b = "history" /\ CovarianceReady THEN Pushed(b, [t |-> now, dt |-> pending])
              ELSE IF b \in Sensors /\ measures
              THEN [ring[b] EXCEPT !.tail = (@ + ring[b].count) % SensorCapacity, !.count = 0]
              ELSE ring[b]]
    /\ pending' = IF CovarianceReady THEN 0 ELSE pending
    /\ stage' = IF Terminal THEN "finished" ELSE "prepare"
    /\ UNCHANGED <<sourceVars, rate, imuLog, gnssLog>>

-----------------------------------------------------------------------------

PipelineInit ==
    /\ setup \in {c \in Setups : SetupAccepted(c)}
    /\ stage = "prepare" /\ index = 0 /\ now = setup.start
    /\ imuNext = 0 /\ previous = setup.start
    /\ gnss = [s \in Sensors |-> [start |-> -1, next |-> 0]]
    /\ prepared = Nothing
    /\ ring = [b \in Buffers |-> EmptyRing(Capacity[b], Blank)]
    /\ rate = -1 /\ pending = 0
    /\ imuLog = <<>> /\ gnssLog = [s \in Sensors |-> <<>>]

PipelineNext == Prepare \/ Publish \/ IntegratePair \/ IntegrateSingle \/ UpdateNavigator

PipelineSpec == PipelineInit /\ [][PipelineNext]_pipelineVars

-----------------------------------------------------------------------------
(* Properties. *)

Element == [t : Nat, dt : Nat]

\* Every variable has its type; head, tail and count of every buffer agree.
PipelineTypeOK ==
    /\ setup \in Setups
    /\ stage \in {"prepare", "publish", "integrate", "finished", "failed"}
    /\ index \in Nat /\ now \in Nat /\ imuNext \in Nat /\ previous \in Nat /\ pending \in Nat
    /\ gnss \in [Sensors -> [start : Nat \cup {-1}, next : Nat]]
    /\ prepared \in [imu : Element, sensors : SUBSET Sensors]
    /\ DOMAIN ring = Buffers /\ \A b \in Buffers : IsRing(Capacity[b], Element, ring[b])
    /\ rate \in Nat \cup {-1}
    /\ imuLog \in Seq(Element) /\ gnssLog \in [Sensors -> Seq([t : Nat, rate : Nat \cup {-1}])]

\* The buffers are bounded queues: what is pushed comes out in order and once, also
\* after head and tail have wrapped around, and only the covariance history gives
\* up its oldest value (RingBuffer::push(), pop()).
Queued == INSTANCE BoundedQueues WITH
    Queues <- Buffers, Size <- Capacity, Overwriting <- {"history"},
    queue <- [b \in Buffers |-> Contents(Capacity[b], ring[b])]
BuffersAreQueues == Queued!QueuesSpec

\* The times of a rate's samples up to t, for as long as the next one is a timestamp.
GridUpTo(r, t) ==
    {TimestampAt(setup.start, r, k) : k \in {k \in 0..(MaxIndex - 1) :
        /\ TimestampAt(setup.start, r, k) <= t
        /\ TimestampAt(setup.start, r, k + 1) # NoTime}}

\* The first epoch after the initial one, at which index 0 of the IMU's schedule is
\* still due.
FirstEpoch ==
    LET t == TimestampAt(setup.start, AppRate(setup), 1) IN IF t > setup.end THEN setup.end ELSE t

\* The increments end at the first epoch and then at the times of the IMU's own grid,
\* each begins where the one before it ended, none is missing, and past that start
\* two neighbours differ by no more than one nanosecond, so that a pair is
\* compensated (ImuRuntime::prepare(), corrected_interval_from_pair()).
IncrementsTile ==
    LET Start(i) == IF i = 1 THEN setup.start ELSE imuLog[i - 1].t
        sameRate == IsIntegerMultiple(ImuRate(setup), AppRate(setup))
    IN  /\ \A i \in DOMAIN imuLog : imuLog[i].dt = imuLog[i].t - Start(i)
        /\ \A i \in (IF sameRate THEN 2 ELSE 4)..Len(imuLog) :
              Abs(imuLog[i].dt - imuLog[i - 1].dt) <= 1
        /\ stage \in {"integrate", "finished"} /\ index > 1 =>
              {imuLog[i].t : i \in DOMAIN imuLog} =
                 (GridUpTo(ImuRate(setup), now) \ {setup.start}) \cup {FirstEpoch}

\* A measurement of each sensor is taken at exactly the grid times within the
\* active windows: an outage neither moves the grid nor lets a missed sample catch
\* up (GnssSimulator::should_generate()).
MeasurementsKeepGrid ==
    stage \in {"integrate", "finished"} =>
        \A s \in Sensors :
            /\ \A i \in 2..Len(gnssLog[s]) : gnssLog[s][i - 1].t < gnssLog[s][i].t
            /\ {gnssLog[s][i].t : i \in DOMAIN gnssLog[s]} =
                 {t \in GridUpTo(GnssRate(setup), now) : Available(setup.start, t)}

\* The angular rate that corrects a velocity measurement for the antenna's lever arm
\* is that of the last increment that ended by then, also if it ended in the same
\* epoch (GnssVelocityEmulator::update_sensor_context()).
RateOfNewestIncrement ==
    \A i \in DOMAIN gnssLog["velocity"] : \A j \in DOMAIN imuLog :
        LET m == gnssLog["velocity"][i]
        IN  imuLog[j].t <= m.t => imuLog[j].t <= m.rate
=============================================================================
