---------------------------- MODULE GeneratedSource ----------------------------
(***************************************************************************)
(* GeneratedTrajectorySource: guidance, command filter, autopilot, vehicle   *)
(* response and plant advanced on one native time line, at nested rational    *)
(* rates, with the control state that the mission feeds back.                *)
(*                                                                         *)
(* One action is one native step.  An attitude is known by where it comes    *)
(* from, the vehicle response by how often it was advanced; position only     *)
(* matters for the ground impact, which is a choice at each sample.           *)
(***************************************************************************)
EXTENDS Guidance

CONSTANT
    Rates  \* the configured periods, durations and modes offered

RateConfig ==
    [app : Nat \ {0}, dynamics : Nat \ {0}, autopilot : Nat \ {0}, guidance : Nat \ {0},
     imu : Nat \ {0}, window : Nat \ {0}, duration : Nat \ {0},
     ground : BOOLEAN, estimated : BOOLEAN]

ASSUME RatesAssumption == Rates \subseteq RateConfig

VARIABLES
    rates,       \* the configuration, never changed
    plantT,      \* m_state.t
    guidanceT,   \* m_last_guidance_t
    autopilotT,  \* m_last_autopilot_t
    wasPad,      \* m_pad_constraint_was_active
    response,    \* how often the vehicle response was advanced
    truth,       \* m_truth: the native samples and the diagnostics beside them
    control,     \* m_external_control_state, None before the first
    launchQ,     \* m_launch_q_command_b2i, by its origin, None before initialize()
    latchedQ,    \* m_latched_q_command_b2i, by its origin
    gyro,        \* m_gyro_average: the end times of its increments, oldest first
    available,   \* m_t_available
    tEnd,        \* m_t_end
    departed,    \* m_departed_ground
    complete     \* m_complete

plantVars == <<rates, plantT, guidanceT, autopilotT, wasPad, response, truth, control>>
pilotVars == <<launchQ, latchedQ, gyro>>
endVars == <<available, tEnd, departed, complete>>
sourceVars == <<guidanceVars, plantVars, pilotVars, endVars>>

\* A validator that asks nothing of the application rate, as for a recorded source.
RatesAcceptedAlone(r) ==
    r.autopilot % r.dynamics = 0 /\ r.guidance % r.autopilot = 0 /\ r.imu % r.app = 0

\* The rates validate_swil_runtime_config() accepts.
RatesAccepted(r) ==
    /\ r.dynamics % r.app = 0 /\ r.autopilot % r.dynamics = 0 /\ r.guidance % r.autopilot = 0
    /\ r.imu % r.app = 0

\* timestamp_and_elapsed(): a native sample within the configured duration.
InProfile(r, t) == t % r.dynamics = 0 /\ t <= r.duration

\* end_timestamp(): the last of them.
EndOfProfile(r) == Max({t \in 0..r.duration : InProfile(r, t)})

\* No source is made of a profile that ends before its first native step.
ProfileStarts(r) == EndOfProfile(r) > 0

-----------------------------------------------------------------------------
(* Autopilot. *)

\* FirstOrderAutopilotModel::initialize(): the launch attitude is that of the
\* first initialization.
LaunchAttitude(origin) == IF launchQ = None THEN origin ELSE launchQ

\* FirstOrderAutopilotModel::advance(): an inactive autopilot latches the launch
\* attitude on the pad and the current one elsewhere, an active one tracks.
Latched(e, launch) ==
    IF e.autopilot THEN "tracked" ELSE IF e.pad THEN launch ELSE "current"

\* An average that gives up its newest increment for the next one.
PushNewest(window, t) ==
    Append(IF Len(window) = rates.window THEN SubSeq(window, 1, Len(window) - 1) ELSE window, t)

\* ImuIncrementMovingAverage::push().
PushIncrement(window, t) ==
    Append(IF Len(window) = rates.window THEN Tail(window) ELSE window, t)

\* observe_imu_increment() of the increment that ends at t.
ObserveImu(t) ==
    /\ gyro' = PushIncrement(gyro, t)
    /\ UNCHANGED <<launchQ, latchedQ>>

-----------------------------------------------------------------------------
(* Initialization. *)

\* advance_guidance_filter(): the filter takes constants and entry from the execution.
AdvanceGuidanceFilter(e, dt) == AdvanceFilter(e, dt)

\* initialize_control_models(): guidance, filter and autopilot start from a control
\* state of the given origin and run once at the start of the trajectory.
InitializeControlModels(origin) ==
    /\ StartMachine(0, origin)
    /\ AdvanceGuidanceFilter(Execution(definition.initial, TRUE), rates.dynamics)
    /\ launchQ' = LaunchAttitude(origin)
    /\ latchedQ' = Latched(Execution(definition.initial, TRUE), LaunchAttitude(origin))
    /\ gyro' = <<>>

Sample(t, e, held) == [t |-> t, state |-> e.state, pad |-> e.pad, held |-> held, response |-> response']

\* GeneratedTrajectorySource::initialize(): the pad constraint was active if it is
\* in the initial state, and the initial sample is the first native one.
InitializeSource ==
    /\ InitializeControlModels("configured")
    /\ UNCHANGED <<definition, rates, plantT, guidanceT, autopilotT, response, control, endVars>>
    /\ wasPad' = command'.pad
    /\ truth' = <<Sample(0, command', command'.pad)>>

-----------------------------------------------------------------------------
(* Native steps. *)

\* Guidance that is left out in the last native step.
GuidanceDueBeforeLast ==
    plantT > guidanceT /\ plantT % rates.guidance = 0 /\ plantT + rates.dynamics < tEnd

\* RationalSchedule::due() at the native times, index 0 consumed at the start.
GuidanceDue == plantT > guidanceT /\ plantT % rates.guidance = 0
AutopilotDue == plantT > autopilotT /\ plantT % rates.autopilot = 0

\* selected_control_state(): the external state unless it is later than the plant.
ControlTime == IF control # None /\ control.t <= plantT THEN control.t ELSE plantT

\* FirstOrderVehicleResponseModel::advance(), which the pad suspends.
AdvanceResponse(e) == response' = IF e.pad THEN response ELSE response + 1

\* TruthTrajectory::append().
Record(sample) == truth' = Append(truth, sample)

\* A plant that is released in the step in which guidance leaves the pad.
HeldWithoutOverlap(e) == e.pad

\* The plant stays on the pad while guidance says so and for one step after.
Held(e) == e.pad \/ wasPad

\* A free plant may leave the ground, and one that left it may come back.
GroundContact(held, t) ==
    \/ departed' = departed /\ tEnd' = tEnd /\ complete' = complete
    \/ ~held /\ rates.ground /\ ~departed
       /\ departed' = TRUE /\ tEnd' = tEnd /\ complete' = complete
    \/ rates.ground /\ departed
       /\ departed' = TRUE /\ tEnd' = t /\ complete' = TRUE

\* advance_native(): guidance and filter if due, autopilot if due, the vehicle
\* response unless on the pad, the plant, the sample, and the end at the ground.
NativeStep ==
    /\ plantT + rates.dynamics <= tEnd
    /\ IF GuidanceDue
       THEN /\ AdvanceMachine(ControlTime)
            /\ AdvanceGuidanceFilter(command', plantT - guidanceT)
            /\ guidanceT' = plantT
       ELSE UNCHANGED <<active, entered, progress, captured, command, remaining, constants, applied,
                       guidanceT>>
    /\ IF AutopilotDue
       THEN autopilotT' = plantT /\ latchedQ' = Latched(command', launchQ)
       ELSE UNCHANGED <<autopilotT, latchedQ>>
    /\ AdvanceResponse(command')
    /\ plantT' = plantT + rates.dynamics
    /\ Record(Sample(plantT', command', Held(command')))
    /\ GroundContact(Held(command'), plantT')
    /\ wasPad' = command'.pad
    /\ UNCHANGED <<definition, rates, control, launchQ, gyro, available>>

\* TruthTrajectory::sample_at() finds or interpolates a sample.
Recorded(t) == truth # <<>> /\ truth[1].t <= t /\ t <= Last(truth).t

\* TruthTrajectory::diagnostics_at(): the discrete diagnostics of the last sample
\* not after the queried time.
PhaseAt(t) ==
    truth[CHOOSE i \in DOMAIN truth : truth[i].t <= t /\ \A j \in (i + 1)..Len(truth) : truth[j].t > t].state

-----------------------------------------------------------------------------
(* Control feedback. *)

\* replace_initial_control_state(): the control models start over, and the
\* diagnostics of the initial sample are replaced.
ReplaceInitialControlState ==
    /\ InitializeControlModels(IF rates.estimated THEN "estimated" ELSE "configured")
    /\ UNCHANGED response
    /\ truth' = <<Sample(0, command', truth[1].held)>>

\* set_control_state(): a state for the start of an unadvanced plant replaces the
\* one that initialize() worked with.
SetControlState(t, epoch) ==
    /\ t <= tEnd
    /\ control' = [t |-> t, epoch |-> epoch]
    /\ IF t = 0 /\ plantT = 0 /\ Len(truth) = 1
       THEN ReplaceInitialControlState
       ELSE UNCHANGED <<active, entered, progress, captured, command, remaining, constants, applied,
                        launchQ, latchedQ, gyro, response, truth>>
    /\ UNCHANGED <<definition, rates, plantT, guidanceT, autopilotT, wasPad, endVars>>

\* A constructed source, before initialize().
SourceInit ==
    /\ definition \in {d \in Definitions : DefinitionAccepted(d)}
    /\ rates \in {r \in Rates : RatesAccepted(r) /\ ProfileStarts(r)}
    /\ active = definition.initial /\ entered = 0
    /\ progress = [i \in DOMAIN definition.states |-> 0]
    /\ command = Execution(definition.initial, FALSE)
    /\ remaining = 0 /\ captured = None
    /\ constants = [of |-> definition.initial, entry |-> FALSE] /\ applied = constants
    /\ plantT = 0 /\ guidanceT = 0 /\ autopilotT = 0 /\ wasPad = FALSE /\ response = 0
    /\ truth = <<>> /\ control = None
    /\ launchQ = None /\ latchedQ = None /\ gyro = <<>>
    /\ available = 0 /\ tEnd = EndOfProfile(rates) /\ departed = FALSE /\ complete = FALSE
=============================================================================
