----------------------------- MODULE GuidedMission -----------------------------
(***************************************************************************)
(* A mission flown by a generated trajectory: SwilMissionAdapter's epochs    *)
(* around the native steps of the source, the IMU observations it feeds to   *)
(* the autopilot, the mission phase the runtime follows, and the control      *)
(* state that returns after each Navigation update.                          *)
(*                                                                         *)
(* The Navigator's own work, the aiding sensors and the logs are those of     *)
(* SwilNavigation and MissionApp.                                            *)
(***************************************************************************)
EXTENDS GeneratedSource

VARIABLES
    stage,     \* what comes next in the epoch
    epoch,     \* the epoch last prepared, None before the first
    target,    \* the timestamp the source is advanced to
    terminal,  \* m_prepared_is_terminal
    reported,  \* the state in the adapter's diagnostics
    phase,     \* the MissionRuntime's active phase
    imuDue,    \* the timestamp of the IMU schedule's next index
    imuTimes   \* the end times of the increments published so far

adapterVars == <<stage, epoch, target, terminal, reported, phase, imuDue, imuTimes>>
guidedVars == <<sourceVars, adapterVars>>

Fail == stage' = "failed"

\* The source is made and initialized, and the adapter initialized with it.
Initialize ==
    /\ stage = "initialize"
    /\ InitializeSource
    /\ reported' = command'.state /\ phase' = definition.initial
    /\ stage' = "prepare"
    /\ UNCHANGED <<epoch, target, terminal, imuDue, imuTimes>>

\* prepare_before_deadline() up to advance_to(): the requested epoch is cut off at
\* the end of the source, and the start needs no advance.
Prepare ==
    /\ stage = "prepare"
    /\ target' = IF epoch = None THEN 0 ELSE Min({epoch + rates.app, tEnd})
    /\ stage' = IF target' = 0 THEN "query" ELSE "advance"
    /\ UNCHANGED <<sourceVars, epoch, terminal, reported, phase, imuDue, imuTimes>>

\* The loop of advance_to(), left at the ground impact.
Advance ==
    /\ stage = "advance" /\ plantT < target
    /\ NativeStep
    /\ stage' = IF complete' /\ ~complete THEN "impact" ELSE "advance"
    /\ UNCHANGED <<epoch, target, terminal, reported, phase, imuDue, imuTimes>>

\* A block, a frame conversion or the integration fails, or the next native sample
\* lies past the end: the mission is given up.
AdvanceFails ==
    /\ stage = "advance" /\ plantT < target
    /\ Fail
    /\ UNCHANGED <<sourceVars, epoch, target, terminal, reported, phase, imuDue, imuTimes>>

\* advance_to() returns: at the target, or at an impact that may lie past it.
Arrive ==
    /\ stage = "impact" \/ (stage = "advance" /\ plantT >= target)
    /\ available' = IF stage = "impact" THEN tEnd ELSE target
    /\ complete' = (stage = "impact" \/ target = tEnd)
    /\ stage' = "query"
    /\ UNCHANGED <<guidanceVars, plantVars, pilotVars, tEnd, departed, epoch, target, terminal,
                   reported, phase, imuDue, imuTimes>>

\* An adapter that takes a complete source for one that stands at its end.
TerminalWhenComplete(t) == complete

\* An adapter that knows the configured end only.
TerminalAtConfiguredEnd(t) == complete /\ t = EndOfProfile(rates)

\* The prepared epoch is the mission's last if it is the end of a complete source.
Terminal(t) == complete /\ t = tEnd

\* query() and query_diagnostics() answer up to the time advanced to.
Queryable(t) == t <= available /\ Recorded(t)

\* The rest of prepare_before_deadline(): an impact before the requested epoch is
\* published instead of it.
Query ==
    /\ stage = "query"
    /\ LET t == IF complete /\ tEnd < target THEN tEnd ELSE target
       IN  /\ Queryable(t)
           /\ epoch' = t
           /\ reported' = PhaseAt(t)
           /\ terminal' = Terminal(t)
    /\ stage' = "synchronize"
    /\ UNCHANGED <<sourceVars, target, phase, imuDue, imuTimes>>

\* MissionRuntime::synchronize() with the reported phase.
Synchronize ==
    /\ stage = "synchronize"
    /\ IF reported = phase \/ reported \in Targets(definition, phase)
       THEN phase' = reported /\ stage' = "publish"
       ELSE stage' = "phase_rejected" /\ UNCHANGED phase
    /\ UNCHANGED <<sourceVars, epoch, target, terminal, reported, imuDue, imuTimes>>

\* publish_at_deadline(): past the initial epoch, an increment the IMU schedule
\* calls for goes to the Navigator and then to the autopilot.
Publish ==
    /\ stage = "publish"
    /\ IF epoch > 0 /\ imuDue <= epoch
       THEN /\ ObserveImu(epoch)
            /\ imuTimes' = Append(imuTimes, epoch)
            /\ imuDue' = rates.imu * ((epoch \div rates.imu) + 1)
       ELSE UNCHANGED <<pilotVars, imuTimes, imuDue>>
    /\ stage' = "feed_back"
    /\ UNCHANGED <<guidanceVars, plantVars, endVars, epoch, target, terminal, reported, phase>>

\* The epoch of the inertial frame the adapter states the control state in.
ControlFrame == epoch

\* after_navigation_update(): the control state of the epoch goes to the source.
FeedBack ==
    /\ stage = "feed_back"
    /\ SetControlState(epoch, ControlFrame)
    /\ stage' = IF terminal THEN "finished" ELSE "prepare"
    /\ UNCHANGED <<epoch, target, terminal, reported, phase, imuDue, imuTimes>>

\* The estimate is not finite, or the control models do not start from it.
FeedBackFails ==
    /\ stage = "feed_back"
    /\ Fail
    /\ UNCHANGED <<sourceVars, epoch, target, terminal, reported, phase, imuDue, imuTimes>>

GuidedInit ==
    /\ SourceInit
    /\ stage = "initialize" /\ epoch = None /\ target = 0 /\ terminal = FALSE
    /\ reported = definition.initial /\ phase = definition.initial
    /\ imuDue = 0 /\ imuTimes = <<>>

GuidedNext ==
    \/ Initialize \/ Prepare \/ Advance \/ AdvanceFails \/ Arrive \/ Query
    \/ Synchronize \/ Publish \/ FeedBack \/ FeedBackFails

\* One thread runs the mission to its end.
GuidedSpec == GuidedInit /\ [][GuidedNext]_guidedVars /\ WF_guidedVars(GuidedNext)

-----------------------------------------------------------------------------
(* Properties. *)

\* Every variable has its type.
GuidedTypeOK ==
    /\ GuidanceTypeOK
    /\ rates \in Rates /\ RatesAccepted(rates)
    /\ {plantT, guidanceT, autopilotT, response, available, tEnd} \subseteq Nat
    /\ wasPad \in BOOLEAN /\ departed \in BOOLEAN /\ complete \in BOOLEAN /\ terminal \in BOOLEAN
    /\ truth \in Seq([t : Nat, state : DOMAIN definition.states, pad : BOOLEAN, held : BOOLEAN, response : Nat])
    /\ control # None => control \in [t : Nat, epoch : Nat]
    /\ launchQ \in {None, "configured", "estimated"}
    /\ latchedQ \in {None, "configured", "estimated", "current", "tracked"}
    /\ gyro \in Seq(Nat) /\ imuTimes \in Seq(Nat) /\ imuDue \in Nat /\ target \in Nat
    /\ stage \in {"initialize", "prepare", "advance", "impact", "query", "synchronize", "publish",
                  "feed_back", "finished", "failed", "phase_rejected"}
    /\ epoch # None => epoch \in Nat
    /\ {reported, phase} \subseteq DOMAIN definition.states

\* The phases reported at successive epochs are equal or joined by one transition,
\* so that MissionRuntime::synchronize() rejects none of them, however epochs and
\* native steps interleave.
PhaseNeverSkipped == stage # "phase_rejected"

\* Past the start, guidance runs on the control state of its own instant: the one
\* Navigation produced at the epoch the native step starts from
\* (selected_control_state(), the nesting of the rates).  The altitude it holds is
\* from the same source: nothing is left of the initialization with the truth.
GuidanceConsumesFreshNavigation ==
    [][guidanceT' # guidanceT =>
        /\ control # None /\ control.t = guidanceT'
        /\ captured = IF rates.estimated THEN "estimated" ELSE "configured"]_guidedVars

\* A state that is not terminal is left at the first guidance step at which a
\* threshold has passed, and at no earlier one (evaluate_transitions()).
TransitionsOnTime ==
    [][entered' # entered =>
        \E tr \in ToSet(State(active).transitions) :
            /\ tr.to = active'
            /\ tr.after <= entered' - entered /\ entered' - entered < tr.after + rates.guidance
            /\ \A other \in ToSet(State(active).transitions) :
                /\ entered' - entered < other.after + rates.guidance
                /\ entered' - entered >= other.after => tr.priority <= other.priority]_guidedVars

\* A transition that fell due at a guidance time the plant has moved past has been
\* taken, also in the state a mission ends in: only one that falls due after the last
\* guidance step is never evaluated (advance_native(), evaluate_transitions()).
DueTransitionsTaken ==
    \A tr \in ToSet(State(active).transitions), t \in entered..(plantT - 1) :
        t % rates.guidance = 0 => t - entered < tr.after

\* The filter uses the active state's constants: its entry constants for the entry
\* duration from the entry on, and for less than a guidance period longer
\* (GuidanceCommandFilter::advance()).
EntryConstantsWindow ==
    stage # "initialize" =>
        LET inState == guidanceT - entered
            window  == State(active).onEntry
        IN  /\ applied.of = active
            /\ inState < window => applied.entry
            /\ applied.entry => inState < window + rates.guidance

\* The plant leaves the pad one native step after guidance does, with a vehicle
\* response that was advanced once meanwhile: actuator build-up without the
\* support force (advance_native(), release_overlap).
OneStepOverlap ==
    \A i \in 1..(Len(truth) - 1) :
        truth[i].held /\ ~truth[i + 1].held =>
            /\ i > 1 => truth[i - 1].pad /\ ~truth[i].pad /\ truth[i].response = truth[i - 1].response + 1
            /\ truth[i + 1].response = truth[i].response + 1

\* On the pad an inactive autopilot commands the configured launch attitude, also
\* after the first control feedback has started the control models over from an
\* estimate (FirstOrderAutopilotModel::initialize()).
PadHoldsLaunchAttitude ==
    stage # "initialize" /\ command.pad /\ ~command.autopilot => latchedQ = "configured"

\* The gyro average holds the latest increments published, as many as the window
\* takes and the flight has had, so that at each autopilot step past the start its
\* newest is younger than an IMU period (observe_imu_increment()).
GyroAverageFresh ==
    /\ gyro = SubSeq(imuTimes, Len(imuTimes) - Min({Len(imuTimes), rates.window}) + 1, Len(imuTimes))
    /\ stage \in {"advance", "impact"} /\ autopilotT > 0 =>
        gyro # <<>> /\ autopilotT - Last(gyro) < rates.imu

\* A finished mission has published its source's last sample and nothing after it,
\* also when the impact is found beyond the epoch that was asked for
\* (prepare_before_deadline()).
EndsAtLastSample ==
    stage = "finished" => epoch = tEnd /\ Last(truth).t = epoch /\ reported = Last(truth).state

\* Every mission finishes or fails.
MissionEnds == <>(stage \in {"finished", "failed", "phase_rejected"})

\* As the frames document says, the inertial axes are aligned with the earth at the
\* start of the trajectory.
ControlStateInPlantFrame == control # None => control.epoch = 0
=============================================================================
