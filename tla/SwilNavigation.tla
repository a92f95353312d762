---------------------------- MODULE SwilNavigation ----------------------------
(***************************************************************************)
(* The Navigator inside the epochs of a SWIL mission: the schedules of the  *)
(* IMU runtime, of the GNSS emulators and of the correction log, what an    *)
(* epoch publishes, the update or the final call that follows, and what is  *)
(* logged after it.                                                         *)
(*                                                                         *)
(* One tick is one application period, which every producer's period is a   *)
(* multiple of.  Simulated values and noise are left out; a GNSS outage     *)
(* window is a choice at each of its epochs.                                *)
(***************************************************************************)
EXTENDS Navigator

CONSTANTS Cadences  \* the configured periods and the last epoch

Cadence == [imu : Nat \ {0}, gnss : Nat \ {0}, log : Nat \ {0}, end : Nat]
ASSUME CadenceAssumption == Cadences \subseteq Cadence

VARIABLES
    cadence,  \* the configuration, never changed
    epoch,    \* the current epoch
    stage,    \* what comes next in it, "finished" after the last
    due,      \* the timestamp of each schedule's next sample index
    logged    \* the filter-correction log, oldest first

swilVars == <<navVars, cadence, epoch, stage, due, logged>>

Producers == {"imu", "gnss", "log"}

\* RationalSchedule::due(): index 0 is due at the epoch, and a call consumes every
\* index that is due.
Due(p) == due[p] <= epoch

\* A schedule that counts its period from the call instead of its own epoch.
ConsumedFromCall(p) == epoch + cadence[p]

Consumed(p) == cadence[p] * ((epoch \div cadence[p]) + 1)

\* prepare_before_deadline() and publish_at_deadline().  The initial epoch
\* leaves the IMU and its schedule alone; an increment reaches from the last
\* sample to this epoch.  A rejected increment keeps the emulators from
\* publishing.
Publish ==
    /\ stage = "publish"
    /\ LET sampling == epoch > 0 /\ Due("imu")
       IN  /\ IF sampling THEN PushImu(epoch - sampled) ELSE UNCHANGED <<imu, sampled>>
           /\ \E measured \in {{}, IF Due("gnss") THEN SensorNames ELSE {}} :
                IF sampling /\ ImuOverflows
                THEN ok' = FALSE /\ UNCHANGED <<queue, context>>
                ELSE ok' = ~PushOverflows(measured) /\ PushMeasurements(measured, epoch)
           /\ due' = [p \in Producers |->
                IF (p = "imu" /\ sampling) \/ (p = "gnss" /\ Due("gnss")) THEN Consumed(p) ELSE due[p]]
    /\ stage' = IF ok' THEN "call" ELSE "failed"
    /\ UNCHANGED <<config, pc, final, navT, covT, pending, dx, correction, cadence, epoch, logged>>

\* The terminal epoch finalizes the Navigator, any other epoch updates it.
CallNavigator ==
    /\ stage = "call"
    /\ Call(epoch = cadence.end)
    /\ stage' = "navigating"
    /\ UNCHANGED <<config, ok, imu, sampled, navT, covT, pending, queue, context, dx, correction,
                   cadence, epoch, due, logged>>

Navigate ==
    /\ stage = "navigating"
    /\ NavStep
    /\ UNCHANGED <<cadence, epoch, stage, due, logged>>

\* A correction log that leaves out the initial epoch, as the IMU log does.
LogsAfterInitialEpoch == epoch > 0 /\ correction # {} /\ Due("log")

\* The correction is logged if it is valid and its schedule due; the schedule is
\* not asked otherwise.
LogsCorrection == correction # {} /\ Due("log")

\* after_navigation_update() ends the epoch.
LogCorrection ==
    /\ stage = "navigating" /\ pc = "idle"
    /\ IF ~ok THEN stage' = "failed" /\ UNCHANGED <<epoch, due, logged>>
       ELSE /\ IF LogsCorrection
               THEN /\ logged' = Append(logged, [t |-> epoch, correction |-> correction])
                    /\ due' = [due EXCEPT !["log"] = Consumed("log")]
               ELSE UNCHANGED <<due, logged>>
            /\ IF final THEN stage' = "finished" /\ UNCHANGED epoch
               ELSE stage' = "publish" /\ epoch' = epoch + 1
    /\ UNCHANGED <<navVars, cadence>>

SwilInit ==
    /\ NavInit
    /\ cadence \in Cadences
    /\ epoch = 0 /\ stage = "publish"
    /\ due = [p \in Producers |-> 0]
    /\ logged = <<>>

SwilNext == Publish \/ CallNavigator \/ Navigate \/ LogCorrection

SwilSpec == SwilInit /\ [][SwilNext]_swilVars

-----------------------------------------------------------------------------
(* Properties. *)

\* Every variable has its type, and every schedule stays on its grid.
SwilTypeOK ==
    /\ NavTypeOK
    /\ cadence \in Cadences
    /\ epoch \in 0..cadence.end
    /\ stage \in {"publish", "call", "navigating", "finished", "failed"}
    /\ due \in [Producers -> Nat] /\ \A p \in Producers : due[p] % cadence[p] = 0
    /\ logged \in Seq([t : Nat, correction : SUBSET MeasurementId])

\* A measurement is judged against a nominal state, and with an observation
\* context, whose time is at most one IMU period from its own, whatever it had
\* to wait for (update() holding aiding back, GnssEmulator::update_sensor_context).
JudgedNearItsTime ==
    [][\A s \in SensorNames :
        Len(queue'[s]) < Len(queue[s]) =>
            LET t == Head(queue[s])
            IN  /\ t - navT <= cadence.imu /\ navT - t <= cadence.imu
                /\ context[s] - t <= cadence.imu]_swilVars

\* A measurement is judged with the observation context that was taken for it, and
\* with none of a later one, if increments do not wait for a partner or measurements
\* are further apart than increments (GnssEmulator::update_sensor_context() overwrites
\* the context, update() holds aiding back).
OwnContextJudged ==
    [][\A s \in SensorNames :
        Len(queue'[s]) < Len(queue[s]) /\ (config.coning => cadence.gnss > cadence.imu)
        => context[s] = Head(queue[s])]_swilVars

\* As far as increments pair evenly, rates that divide the application rate never
\* fail a mission: a sensor buffer needs one place more than the measurements of
\* an IMU period, and the IMU buffer two.
EvenRatesSustained ==
    /\ config.coning => cadence.imu <= 2
    /\ SensorCapacity > cadence.imu \div cadence.gnss
    /\ ImuCapacity >= 2
    => ok

\* With a correction log at the application rate, no applied correction is
\* discarded before it was logged.
NoCorrectionLost ==
    [][correction # {} /\ correction' = {} /\ cadence.log = 1
        => \E i \in DOMAIN logged : logged[i].correction = correction]_swilVars

\* A finished mission has integrated every increment and predicted the covariance
\* up to it, short of the end by less than an IMU period, and has processed
\* every measurement.
FinishedMissionIsComplete ==
    stage = "finished" =>
        /\ imu = <<>> /\ navT = sampled /\ covT = navT
        /\ navT <= cadence.end /\ cadence.end < navT + cadence.imu
        /\ \A s \in SensorNames : queue[s] = <<>>

\* As the log's own description says, it holds one event for each correction.
CorrectionLoggedOnce ==
    \A i, j \in DOMAIN logged : logged[i].correction = logged[j].correction => i = j

\* As the configuration document says, an application rate that is a common
\* multiple of the producers' rates serves them.
MultipleRatesSustained ==
    SensorCapacity > cadence.imu \div cadence.gnss /\ ImuCapacity >= 2 => ok
=============================================================================
