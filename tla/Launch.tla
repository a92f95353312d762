--------------------------------- MODULE Launch ---------------------------------
(***************************************************************************)
(* The start of navkit_swil, from the named file to the first mission phase:  *)
(* loading, three validators, the mission runtime, the adapter with its        *)
(* trajectory source, the initialization of Navigation, and the phase the       *)
(* host activates.  Every object is built from the configuration again, by       *)
(* code of its own: the mission graph exists twice, once in the host and once    *)
(* as the guidance machine of the source, and what initial_truth holds beside     *)
(* the truth can replace the source and its machine.                              *)
(*                                                                         *)
(* An exception ends the program with 1, a refused first phase with 4; an         *)
(* output that cannot be written belongs to the host and is not considered.     *)
(***************************************************************************)
EXTENDS RunConfig

CONSTANT Setups   \* the configurations considered

\* The names that select a source, an initialization and a cycle policy are known
\* ones, and phases and gates have the members of their kind.
ASSUME SetupsAssumption ==
    \A s \in Setups :
        /\ s.source \in {"csv", "stationary", "generated"}
        /\ s.pva \in {"pva_random_error", "pva_error", "pva_direct"}
        /\ s.initial \in Phases /\ s.policy \in {"reject", "allow"}
        /\ s.baseline \in [Sensors -> GateControls]
        /\ s.phases \in Seq(PhaseConfig) /\ s.truth.phases \in Seq(PhaseConfig)

VARIABLES
    setup,     \* the configuration of this run
    stage,     \* the step that is next, or that refused the run
    exit,      \* the exit code, 0 as long as nothing refused the run
    phaseIds,  \* m_mission_phase_ids of the adapter
    machine    \* the guidance state machine of the source, None without one

launchVars == <<setup, stage, exit, phaseIds, machine, mission, active, gate, ok>>

-----------------------------------------------------------------------------
(* The source's copy of the mission graph. *)

IndexOf(order, id) ==
    IF id \in ToSet(order) THEN CHOOSE k \in DOMAIN order : order[k] = id ELSE 0

\* guidance_state_from_json(): the state of phase p of a list g, its targets resolved
\* by ID among the states in their order.
StateOf(g, order, p) ==
    [guided       |-> p.guided,
     autopilot    |-> p.autopilot,
     pad          |-> g.behavior[p.id] = "hold_initial_ecef",
     terminal     |-> "terminal" \in p.exits,
     sound        |-> TRUE,
     reference    |-> CASE p.reference = "current_state" -> "current"
                        [] p.reference = "local_flight_path" -> "kinematic"
                        [] p.reference = "waypoint_path" -> "waypoint",
     modifiers    |-> IF p.reference = "local_flight_path" THEN p.sines ELSE 0,
     acceleration |-> [k \in DOMAIN p.acceleration |->
                          IF p.acceleration[k] \in Direct THEN "direct" ELSE "additive"],
     bank         |-> TRUE,
     onEntry      |-> p.onEntry,
     transitions  |-> [k \in DOMAIN p.transitions |->
                          [p.transitions[k] EXCEPT !.to = IndexOf(order, @)]]]

MachineInOrder(g, order) ==
    [initial |-> IndexOf(order, g.initial),
     cycles  |-> g.policy,
     states  |-> [k \in DOMAIN order |-> StateOf(g, order, PhaseOf(g, order[k]))]]

\* The IDs in the order of the list.
PhaseOrder(g) == [k \in DOMAIN g.phases |-> g.phases[k].id]

\* The machine compiled from a list of phases, in their order.
CompiledMachine(g) == MachineInOrder(g, PhaseOrder(g))

\* The machine that the trajectory configures.
SourceMachine(s) == CompiledMachine(TrajectoryMachine(s))

-----------------------------------------------------------------------------
(* What constructing the source finds wrong in a configuration that validated. *)

\* position_e_m_from_json(), velocity_e_mps_from_json(), trajectory_attitude_b2e_from_json()
\* and angular_rate_ib_b_from_json(): a latitude that converts, and local axes only
\* where there are any.
TruthConvertible(s) ==
    LET keys == s.keys.initial_truth
    IN  /\ "p_lla_deg_m" \in keys => "latitude" \notin s.unfit
        /\ "central" \in s.unfit =>
            keys \cap {"v_n_mps", "b2n", "n2b", "w_nb_b_degps"} = {}

Follows(g, reference) == \E p \in ToSet(g.phases) : p.reference = reference

\* trajectory_profile_config_from_compiled_json() and guidance_state_machine_from_json().
SourceParsable(s) ==
    /\ TruthConvertible(s)
    /\ s.unfit \cap {"tolerance", "window"} = {}
    /\ Follows(TrajectoryMachine(s), "waypoint_path") => "waypoint" \notin s.unfit
    /\ DefinitionAccepted(SourceMachine(s))

\* profile_is_valid(): nested cadences, and a position to start from.
ProfileValid(s) ==
    /\ "central" \notin s.unfit
    /\ IsIntegerMultiple(TrajectoryRate(s, "dynamics"), TrajectoryRate(s, "autopilot"))
    /\ IsIntegerMultiple(TrajectoryRate(s, "autopilot"), TrajectoryRate(s, "guidance"))

\* state_machine_trajectory_source(): a profile with a velocity, and a machine.
SourceMade(s) ==
    /\ ProfileValid(s) /\ s.keys.initial_truth \cap Velocities # {}
    /\ DefinitionAccepted(SourceMachine(s))

\* end_timestamp() and the source's initialize(): at least one native step before the
\* end, and an initial velocity along the body axis.
SourceStarts(s) ==
    /\ SourceMade(s)
    /\ TimestampAt(0, TrajectoryRate(s, "dynamics"), 1) <= TrajectoryDuration(s)
    /\ "misaligned" \notin s.unfit

\* truth_trajectory_from_csv(): a readable table with its columns, in time order.
CsvReadable(s) == "csv" \notin s.unfit

\* swil_runtime_from_json().
SourceBuildable(s) ==
    \/ TrajectoryType(s) = "csv" /\ CsvReadable(s)
    \/ TrajectoryType(s) = "stationary" /\ TruthConvertible(s)
    \/ TrajectoryType(s) = "state_machine" /\ SourceParsable(s) /\ SourceStarts(s)

\* pva_error_covariance_from_json(): a pva_error beside a random error, which no
\* validator looked at, is read.
CovarianceConvertible(s) ==
    PvaErrorCovAccepted(s) /\ ("pva_error" \in s.keys.pva_initialization => PvaErrorAccepted(s))

\* sample_pva_error(): no covariance is decomposed before an error is drawn from it.
CovarianceSampled(s) == "pva" \notin s.unfit

\* PvaRandomInitializationProvider::initialize().
RandomErrorUsable(s) == CovarianceConvertible(s) /\ CovarianceSampled(s)

\* PvaRuntimeInitializationProvider::initialize().
PvaUsable(s) ==
    CASE s.pva = "pva_random_error" -> RandomErrorUsable(s)
      [] s.pva = "pva_error"  -> TRUE
      [] s.pva = "pva_direct" -> "pva" \notin s.unfit

\* apply_runtime_initial_estimate_error().
EstimateErrorUsable(s) ==
    FilterGives(s, "initial_estimate_error") /\ "covariance" \in s.keys.initial_estimate_error
        => "estimate" \notin s.unfit

-----------------------------------------------------------------------------
(* The steps. *)

LaunchInit ==
    /\ setup \in Setups
    /\ stage = "load" /\ exit = 0
    /\ phaseIds = <<>> /\ machine = None
    /\ mission = None /\ active = None /\ gate = FreshGates /\ ok = TRUE

\* A step that goes on to the next one, or throws.
Check(this, accepted, next) ==
    /\ stage = this /\ exit = 0
    /\ IF accepted THEN stage' = next /\ exit' = 0 ELSE stage' = stage /\ exit' = 1
    /\ UNCHANGED setup

\* load_json_file().
LoadFiles ==
    Check("load", FilesLoad(setup), "target") /\ UNCHANGED <<phaseIds, machine, runtimeVars>>

\* execution_target_settings_from_json(), require_execution_target_type().
CheckTarget ==
    Check("target", TargetAccepted(setup), "common") /\ UNCHANGED <<phaseIds, machine, runtimeVars>>

\* validate_common_mission_runtime_config().
ValidateCommon ==
    Check("common", CommonAccepted(setup), "swil") /\ UNCHANGED <<phaseIds, machine, runtimeVars>>

\* SwilMissionAdapterFactory::validate_runtime_config().
ValidateSwil ==
    Check("swil", SwilAccepted(setup), "settings") /\ UNCHANGED <<phaseIds, machine, runtimeVars>>

\* run_settings_from_json() and mission_runtime_from_json().
ResolveMission ==
    LET loads == LoggingAccepted(setup) /\ MissionLoads(setup)
    IN  /\ Check("settings", loads, "build")
        /\ mission' = IF loads THEN MissionOf(setup) ELSE mission
        /\ UNCHANGED <<phaseIds, machine, active, gate, ok>>

\* The construction of SwilMissionAdapter: the source first, then the phase IDs.
CreateAdapter ==
    LET built == CompileAccepted(setup) /\ SourceBuildable(setup)
    IN  /\ Check("build", built, "initialize")
        /\ phaseIds' = IF built THEN PhaseOrder(setup) ELSE phaseIds
        /\ machine' = IF built /\ TrajectoryType(setup) = "state_machine"
                      THEN SourceMachine(setup) ELSE machine
        /\ UNCHANGED runtimeVars

\* SwilMissionAdapter::initialize(): the Navigator's initial state, then the
\* innovation gates of the baseline.
InitializeAdapter ==
    LET usable == PvaUsable(setup) /\ EstimateErrorUsable(setup)
    IN  /\ Check("initialize", usable /\ BaselineConfigurable(mission), "phase")
        /\ gate' = IF usable /\ BaselineConfigurable(mission) THEN BaselineGates(mission) ELSE gate
        /\ UNCHANGED <<phaseIds, machine, mission, active, ok>>

\* active_mission_phase_id(): a source without a machine reports index 0.
FirstIndex == IF TrajectoryType(setup) = "state_machine" THEN machine.initial ELSE 1

\* MissionRuntime::initialize() with the phase that the adapter reports, if its list
\* has one of that index.
FirstPhase ==
    /\ stage = "phase" /\ exit = 0
    /\ IF FirstIndex \in DOMAIN phaseIds THEN Initialize(phaseIds[FirstIndex])
       ELSE ok' = FALSE /\ UNCHANGED <<mission, active, gate>>
    /\ IF ok' THEN stage' = "launched" /\ exit' = 0 ELSE stage' = stage /\ exit' = 4
    /\ UNCHANGED <<setup, phaseIds, machine>>

LaunchNext ==
    \/ LoadFiles \/ CheckTarget \/ ValidateCommon \/ ValidateSwil \/ ResolveMission
    \/ CreateAdapter \/ InitializeAdapter \/ FirstPhase

LaunchSpec == LaunchInit /\ [][LaunchNext]_launchVars

-----------------------------------------------------------------------------
(* Properties. *)

\* A state index of the source names the phase that the host has for it, with the
\* same successors, the same end and the constraint configured for that ID.
MachineIsMission ==
    /\ Len(machine.states) = Len(phaseIds) /\ ToSet(phaseIds) = mission.phases
    /\ phaseIds[machine.initial] = mission.initial
    /\ \A i \in DOMAIN machine.states :
        /\ {phaseIds[j] : j \in Targets(machine, i)} = mission.to[phaseIds[i]]
        /\ machine.states[i].terminal = (phaseIds[i] \in mission.terminal)
        /\ machine.states[i].pad = (setup.behavior[phaseIds[i]] = "hold_initial_ecef")

\* The guidance machine of a generated source and the mission graph of the host, built
\* by different code, are the same graph under the adapter's list of phase IDs, whatever
\* initial_truth has copied before the machine is compiled.  A stationary source that a
\* copied type turns into a state machine flies a machine of its own.
PhasesAgree == machine # None /\ Generated(setup) => MachineIsMission

\* The source is of another type than simulation.source configures.
Redirected(s) == TrajectoryType(s) # ConfiguredType(s)

StartIndex(s) == IF TrajectoryType(s) = "state_machine" THEN SourceMachine(s).initial ELSE 1

\* What no validator determines of a machine and the cadence it runs at.
MachineUndetected(s, g) ==
    \/ \E p \in ToSet(g.phases) :
        p.guided /\ ToSet(p.acceleration) \cap Direct # {} /\ p.reference # "current_state"
    \/ \A p \in ToSet(g.phases) : "terminal" \notin p.exits
    \/ ~(TimestampAt(0, TrajectoryRate(s, "dynamics"), 1) <= TrajectoryDuration(s))

\* What no validator determines: data that must be computed with, an active
\* guidance whose blocks do not fit, a mission that may repeat for ever, a native
\* step longer than the duration, a copied type whose source starts elsewhere than the
\* mission, a stray pva_error and probabilities without a quantile.
Undetected(s) ==
    \/ s.unfit # {}
    \/ TrajectoryType(s) = "state_machine" /\ MachineUndetected(s, TrajectoryMachine(s))
    \/ Redirected(s) /\ StartIndex(s) # IndexOf(PhaseOrder(s), s.initial)
    \/ s.pva = "pva_random_error" /\ "pva_error" \in s.keys.pva_initialization
    \/ \E x \in Sensors :
        \/ s.baseline[x].probability \notin Solvable \cup {None}
        \/ \E p \in ToSet(s.phases) : p.navigation[x].probability \notin Solvable \cup {None}

\* What the three validators accept can be built, initialized and started, apart
\* from what they do not determine: the members, forms, rates and graphs that the
\* constructors demand of the compiled trajectory are those the validators checked.
ValidatedIsBuildable ==
    exit # 0 /\ stage \in {"settings", "build", "initialize", "phase"} => Undetected(setup)
=============================================================================
