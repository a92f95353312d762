------------------------------- MODULE RunConfig -------------------------------
(***************************************************************************)
(* The run configuration of navkit_swil and what its validators accept: the  *)
(* reference graph of its files, the members every object must and may have,  *)
(* the alternative forms, the rates and the phases.  JSON types, ranges and    *)
(* texts are abstracted: `bad' names the objects in which a member that is read *)
(* has a wrong type or range.                                                  *)
(*                                                                         *)
(* A setup is a record                                                     *)
(*   files    what each file refers to, [exists, sound, refers]                *)
(*   target, source, imu, pva   the configured types                          *)
(*   keys     the members of every object; truth_dynamics, truth_guidance and  *)
(*            truth_autopilot are the rates that initial_truth gives by name,  *)
(*            such as dynamics_dt_s                                            *)
(*   bad      the objects with a malformed member                             *)
(*   unfit    the data that are well formed and still unusable                  *)
(*   rates    the number of every configured rate, [num, den]                  *)
(*   duration, logged, initial, policy, baseline                             *)
(*   phases   mission.phases in their order                                   *)
(*   behavior simulation.phase_behavior: a plant constraint by phase ID          *)
(*   truth    what a type, a duration_s and a state_machine in initial_truth hold, *)
(*            [type, duration, initial, policy, phases, behavior]                  *)
(*                                                                         *)
(* The objects termination, autopilot_model, command_filter and vehicle_response   *)
(* are those of the trajectory that is compiled, wherever it has them from.         *)
(***************************************************************************)
EXTENDS MissionRuntime, GuidanceDefinition, RationalTime

CONSTANTS
    Files,   \* the configuration files there may be
    Root     \* the one named on the command line

ASSUME FilesAssumption == Root \in Files

\* A member of mission.phases, its names of blocks and references not yet validated.
PhaseConfig ==
    [id : Phases, navigation : [Sensors -> GateControls], guided : BOOLEAN, autopilot : BOOLEAN,
     reference : STRING, sines : Nat, acceleration : Seq(STRING), onEntry : Nat,
     exits : SUBSET {"terminal", "transitions"},
     transitions : Seq([to : Phases, after : Int, priority : Int])]

-----------------------------------------------------------------------------
(* JsonInput: references between files are resolved first. *)

\* The files that f refers to, directly or through others.
Referenced(s, f) ==
    {g \in Files : \A S \in SUBSET Files :
        (s.files[f].refers \subseteq S /\ \A h \in S : s.files[h].refers \subseteq S) => g \in S}

\* load_json_file(): every file on the way exists, parses, and is not on the stack
\* of files that are being loaded; a file may be used twice.
FilesLoad(s) ==
    \A f \in {Root} \cup Referenced(s, Root) :
        s.files[f].exists /\ s.files[f].sound /\ f \notin Referenced(s, f)

-----------------------------------------------------------------------------
(* Objects: require_object(), require_string(), reject_unknown_top_level_keys(). *)

Has(s, o, members) == members \subseteq s.keys[o] /\ o \notin s.bad
Only(s, o, members) == s.keys[o] \subseteq members
OneOf(s, o, members) == Cardinality(s.keys[o] \cap members) = 1

RateKeys == {"rate_hz", "dt_s"}

\* validate_runtime_rate(), with a rate required.
RateGiven(s, o) == OneOf(s, o, RateKeys) /\ s.rates[o].num > 0

RateOf(s, o) ==
    RateFromRuntime([key |-> CHOOSE k \in s.keys[o] \cap RateKeys : TRUE,
                     num |-> s.rates[o].num, den |-> s.rates[o].den])

\* execution_target_settings_from_json() and require_execution_target_type().
TargetAccepted(s) ==
    /\ Has(s, "execution_target", {"type", "clock"})
    /\ Only(s, "execution_target", {"type", "clock"} \cup RateKeys)
    /\ RateGiven(s, "execution_target")
    /\ s.target = "swil"

-----------------------------------------------------------------------------
(* The part common to every execution target. *)

\* validate_logging_runtime_config(); `log' stands for each product's object, and
\* an enabled product needs a rate.
LoggingAccepted(s) ==
    /\ Has(s, "logging", {"console", "truth", "measurement_statistics", "imu", "imu_debug",
                          "filter_correction", "nav_estimate"})
    /\ Only(s, "logging", {"console", "truth", "measurement_statistics", "imu", "imu_debug",
                           "filter_correction", "nav_estimate", "trajectory_kinematics",
                           "trajectory_guidance", "trajectory_autopilot_vehicle"})
    /\ Has(s, "log", {"enabled", "covariance"})
    /\ ~(RateKeys \subseteq s.keys.log)
    /\ s.logged => RateGiven(s, "log")

Ids(s) == {s.phases[k].id : k \in DOMAIN s.phases}
PhaseOf(s, id) == s.phases[CHOOSE k \in DOMAIN s.phases : s.phases[k].id = id]

Successors(s) ==
    [p \in Phases |-> IF p \in Ids(s) THEN {tr.to : tr \in ToSet(PhaseOf(s, p).transitions)} ELSE {}]

\* The mission that the phases describe.
MissionOf(s) ==
    [phases     |-> Ids(s),
     initial    |-> s.initial,
     policy     |-> s.policy,
     to         |-> Successors(s),
     terminal   |-> {p \in Ids(s) : "terminal" \in PhaseOf(s, p).exits},
     navigation |-> [p \in Phases |-> IF p \in Ids(s) THEN PhaseOf(s, p).navigation
                        ELSE [x \in Sensors |-> [probability |-> None, enabled |-> FALSE]]],
     baseline   |-> s.baseline]

\* mission_runtime_from_json().
MissionLoads(s) ==
    /\ Has(s, "mission", {"initial_phase_id", "cycle_policy", "phases"})
    /\ s.phases # <<>> /\ Cardinality(Ids(s)) = Len(s.phases)
    /\ \A k \in DOMAIN s.phases : Cardinality(s.phases[k].exits) = 1
    /\ Loadable(MissionOf(s))

FilterGives(s, o) == "filter_initialization" \in s.keys.root /\ o \in s.keys.filter_initialization

PvaForm == {"pva_diag", "pva_frame", "remaining_error_state_diag"}

\* The PVA form of a covariance in place of the forms that stand alone.
CovarianceFormAccepted(s, o, alone) ==
    /\ o \notin s.bad
    /\ \/ OneOf(s, o, alone) /\ s.keys[o] \cap PvaForm = {}
       \/ s.keys[o] \cap alone = {} /\ PvaForm \subseteq s.keys[o]

EstimateErrorAccepted(s) ==
    /\ ~FilterGives(s, "nominal_state")
    /\ "initial_estimate_error" \notin s.bad
    /\ \/ s.keys.initial_estimate_error = {"type", "values"}
       \/ s.keys.initial_estimate_error = {"type", "covariance", "seed"} /\ OneOf(s, "estimate_cov", {"diag", "full"})

\* The floor has a diagonal or a PVA form, and no full one.
FloorAccepted(s) ==
    CovarianceFormAccepted(s, "covariance_floor", {"diag"}) /\ "full" \notin s.keys.covariance_floor

NominalStateAccepted(s) ==
    Has(s, "nominal_state", {}) /\ Only(s, "nominal_state", {"non_pva_values"})

FilterAccepted(s) ==
    /\ "filter_initialization" \in s.keys.root =>
        Only(s, "filter_initialization",
             {"initial_covariance", "covariance_floor", "nominal_state", "initial_estimate_error"})
    /\ FilterGives(s, "initial_covariance") =>
        CovarianceFormAccepted(s, "initial_covariance", {"diag", "full"})
    /\ FilterGives(s, "covariance_floor") => FloorAccepted(s)
    /\ FilterGives(s, "nominal_state") => NominalStateAccepted(s)
    /\ FilterGives(s, "initial_estimate_error") => EstimateErrorAccepted(s)

ProcessNoise == {"gyro_white_noise_psd_rad2ps", "accel_white_noise_psd_m2ps3",
                 "gyro_bias_drive_psd_rad2ps3", "accel_bias_drive_psd_m2ps5"}
BiasDynamics == {"gyro_bias_correlation_rate_1ps", "accel_bias_correlation_rate_1ps"}

PropagationAccepted(s) ==
    "propagation" \in s.keys.root =>
        /\ Only(s, "propagation", {"process_noise", "imu_bias_dynamics"})
        /\ "process_noise" \in s.keys.propagation =>
            Has(s, "process_noise", ProcessNoise) /\ Only(s, "process_noise", ProcessNoise)
        /\ "imu_bias_dynamics" \in s.keys.propagation =>
            Has(s, "imu_bias_dynamics", BiasDynamics) /\ Only(s, "imu_bias_dynamics", BiasDynamics)

\* validate_common_mission_runtime_config().
CommonAccepted(s) ==
    /\ Has(s, "root", {"run_name", "output_dir", "logging"}) /\ LoggingAccepted(s)
    /\ {"mission", "gnss"} \subseteq s.keys.root /\ MissionLoads(s)
    /\ FilterAccepted(s)
    /\ PropagationAccepted(s)

-----------------------------------------------------------------------------
(* The trajectory source: compiling mission and simulation, then validating. *)

Generated(s) == s.source = "generated"

\* swil_trajectory_config_from_json(): the members it takes from the objects, and
\* one plant behavior for every phase.
CompileAccepted(s) ==
    /\ MissionLoads(s)
    /\ Only(s, "mission", {"duration_s", "termination", "gnc", "initial_phase_id", "cycle_policy", "phases"})
    /\ Has(s, "simulation", {"source", "phase_behavior"})
    /\ Only(s, "simulation", {"source", "dynamics", "initial_truth", "vehicle_response",
                              "phase_behavior", "control_state_source"})
    /\ Has(s, "source", {"type"}) /\ Only(s, "source", {"type", "csv_path"})
    /\ DOMAIN s.behavior = Ids(s)
    /\ ~Generated(s) => Len(s.phases) = 1
    /\ s.source = "csv" => Has(s, "source", {"csv_path"})
    /\ s.source # "csv" =>
        /\ Has(s, "mission", {"duration_s"}) /\ s.duration > 0
        /\ Has(s, "simulation", {"dynamics", "initial_truth"})
        /\ Only(s, "dynamics", RateKeys \cup {"translational_integration"})
    /\ Generated(s) =>
        /\ Has(s, "mission", {"gnc", "termination"}) /\ Has(s, "simulation", {"vehicle_response"})
        /\ Has(s, "gnc", {"guidance", "autopilot"}) /\ Only(s, "gnc", {"guidance", "autopilot"})
        /\ Has(s, "guidance", {"maximum_bank_angle_deg", "command_filter"})
        /\ Only(s, "guidance", RateKeys \cup {"maximum_bank_angle_deg", "command_filter"})
        /\ Has(s, "autopilot", {"model"}) /\ Only(s, "autopilot", RateKeys \cup {"model"})
        /\ Has(s, "dynamics", {"translational_integration"})

\* The members of initial_truth, every one of which is copied into the trajectory:
\* over its type, its duration and the rate of its dynamics.
Copied(s) == IF s.source = "csv" THEN {} ELSE s.keys.initial_truth

ConfiguredType(s) == IF Generated(s) THEN "state_machine" ELSE s.source
TrajectoryType(s) == IF "type" \in Copied(s) THEN s.truth.type ELSE ConfiguredType(s)
TrajectoryDuration(s) == IF "duration_s" \in Copied(s) THEN s.truth.duration ELSE s.duration

\* What a generated source has besides: written after the copy, and over it.
GeneratedMembers == {"translational_integration", "termination", "autopilot", "maximum_bank_angle_deg",
                     "guidance_command_filter", "vehicle_response", "state_machine"}

\* A compiler that copies initial_truth last of all.
TrajectoryMachineCopiedLast(s) == IF "state_machine" \in Copied(s) THEN s.truth ELSE s

\* Where the trajectory's state machine comes from: mission.phases in a generated
\* source, the initial truth in any other.
TrajectoryMachine(s) == IF Generated(s) THEN s ELSE s.truth

CopiedRates ==
    [dynamics |-> "truth_dynamics", guidance |-> "truth_guidance", autopilot |-> "truth_autopilot"]

\* The keys of a cadence in the trajectory; those of gnc come from a generated source.
ConfiguredRateKeys(s, o) == IF o = "dynamics" \/ Generated(s) THEN s.keys[o] \cap RateKeys ELSE {}
TrajectoryRateKeys(s, o) == ConfiguredRateKeys(s, o) \cup s.keys[CopiedRates[o]]

\* Whose value is left under the only key: a rate of gnc is written after the copy,
\* that of the dynamics before it.
RateOwner(s, o) ==
    IF s.keys[CopiedRates[o]] = {} \/ (o # "dynamics" /\ ConfiguredRateKeys(s, o) # {})
    THEN o ELSE CopiedRates[o]

\* rational_rate_from_required_named_runtime_rate().
TrajectoryRateGiven(s, o) ==
    Cardinality(TrajectoryRateKeys(s, o)) = 1 /\ s.rates[RateOwner(s, o)].num > 0

TrajectoryRate(s, o) ==
    RateFromRuntime([key |-> CHOOSE k \in TrajectoryRateKeys(s, o) : TRUE,
                     num |-> s.rates[RateOwner(s, o)].num, den |-> s.rates[RateOwner(s, o)].den])

Positions  == {"p_e_m", "p_lla_deg_m"}
Velocities == {"v_e_mps", "v_n_mps"}
\* A quaternion, a matrix or angles between the body and one of three frames.
Attitudes  == {"b2e", "e2b", "b2i", "i2b", "b2n", "n2b"}
BodyRates  == {"w_ib_b_degps", "w_eb_b_degps", "w_nb_b_degps"}

\* validate_generated_trajectory_common(): one convention of each kind.
TruthAccepted(s) ==
    LET keys == s.keys.initial_truth
    IN  /\ Has(s, "initial_truth", {}) /\ Has(s, "dynamics", {})
        /\ TrajectoryDuration(s) > 0 /\ Cardinality(TrajectoryRateKeys(s, "dynamics")) = 1
        /\ Cardinality(keys \cap Positions) = 1 /\ Cardinality(keys \cap Attitudes) = 1
        /\ Cardinality(keys \cap Velocities) <= 1
        /\ Cardinality(keys \cap BodyRates) <= IF TrajectoryType(s) = "stationary" THEN 1 ELSE 0

AutopilotModel == {"type", "controller_rate_time_constant_pqr_s", "attitude_error_gain_pqr_per_s",
    "angular_rate_feedback_gain_pqr", "velocity_alignment_speed_threshold_mps",
    "initial_velocity_alignment_tolerance_deg", "gyro_moving_average_window_samples"}
CommandFilter == {"specific_force_time_constant_b_s", "bank_time_constant_s"}
VehicleResponse == {"type", "vehicle_rate_time_constant_pqr_s",
    "specific_force_command_time_constant_b_s", "specific_force_response_time_constant_b_s"}

\* validate_trajectory_dynamics_config().
DynamicsAccepted(s) ==
    /\ Generated(s) \/ GeneratedMembers \subseteq Copied(s)
    /\ TrajectoryRateGiven(s, "guidance") /\ TrajectoryRateGiven(s, "autopilot")
    /\ Has(s, "command_filter", CommandFilter) /\ Only(s, "command_filter", CommandFilter)
    /\ Has(s, "autopilot_model", AutopilotModel)
    /\ Only(s, "autopilot_model", AutopilotModel \cup {"attitude_command_time_constant_s"})
    /\ Has(s, "vehicle_response", VehicleResponse)
    /\ Only(s, "vehicle_response",
            VehicleResponse \cup {"angular_rate_limit_pqr_degps", "specific_force_limit_b_mps2"})

Direct == {"body_specific_force", "free_fall"}
Additive == {"path_feedforward", "velocity_hold", "altitude_hold_pd"}

\* validate_guidance_acceleration().
AccelerationAccepted(parts) ==
    /\ parts # <<>> /\ ToSet(parts) \subseteq Direct \cup Additive
    /\ ToSet(parts) \cap Direct # {} => Len(parts) = 1
    /\ \A k, l \in DOMAIN parts : parts[k] = "path_feedforward" /\ parts[l] = "path_feedforward" => k = l

\* validate_guidance_reference().
ReferenceAccepted(reference) == reference \in {"current_state", "local_flight_path", "waypoint_path"}

\* validate_guidance_state(), of a state machine g: whether its guidance is enabled
\* makes no difference.
PhaseAccepted(g, p) ==
    /\ g.behavior[p.id] \in {"none", "hold_initial_ecef"}
    /\ ReferenceAccepted(p.reference)
    /\ AccelerationAccepted(p.acceleration)
    /\ Cardinality(p.exits) = 1 /\ ("terminal" \in p.exits) = (p.transitions = <<>>)
    /\ \A tr \in ToSet(p.transitions) : tr.after > 0
    /\ \A k, l \in DOMAIN p.transitions : p.transitions[k].priority = p.transitions[l].priority => k = l

PhaseGraph(g) == [phases |-> Ids(g), initial |-> g.initial, policy |-> g.policy, to |-> Successors(g)]

\* Its unique IDs, resolved targets, reachable states and cycle policy; no dead end
\* is looked for.
GraphAccepted(g) ==
    LET m == PhaseGraph(g)
    IN  /\ g.phases # <<>> /\ Cardinality(m.phases) = Len(g.phases)
        /\ m.initial \in m.phases /\ \A p \in m.phases : m.to[p] \subseteq m.phases
        /\ \A p \in m.phases : p = m.initial \/ p \in After(m, m.initial)
        /\ m.policy = "reject" => ~HasCycle(m)

\* validate_guidance_state_machine().
MachineAccepted(s) ==
    LET g == TrajectoryMachine(s)
    IN  /\ Only(s, "initial_truth", Positions \cup Velocities \cup Attitudes \cup BodyRates
                                    \cup {"type", "duration_s"} \cup GeneratedMembers)
        /\ Has(s, "termination", {"type"}) /\ Only(s, "termination", {"type"})
        /\ \A k \in DOMAIN g.phases : PhaseAccepted(g, g.phases[k])
        /\ GraphAccepted(g)
        /\ "phases" \notin s.bad

\* Validators that nest guidance in the dynamics instead of the autopilot.
RatesAcceptedAround(s) ==
    /\ TrajectoryRateGiven(s, "dynamics")
    /\ IsIntegerMultiple(RateOf(s, "execution_target"), TrajectoryRate(s, "dynamics"))
    /\ TrajectoryType(s) # "stationary" =>
        /\ IsIntegerMultiple(TrajectoryRate(s, "dynamics"), TrajectoryRate(s, "autopilot"))
        /\ IsIntegerMultiple(TrajectoryRate(s, "dynamics"), TrajectoryRate(s, "guidance"))

\* The cadences of a simulated source nest into one another.
RatesAccepted(s) ==
    /\ TrajectoryRateGiven(s, "dynamics")
    /\ IsIntegerMultiple(RateOf(s, "execution_target"), TrajectoryRate(s, "dynamics"))
    /\ TrajectoryType(s) # "stationary" =>
        /\ IsIntegerMultiple(TrajectoryRate(s, "dynamics"), TrajectoryRate(s, "autopilot"))
        /\ IsIntegerMultiple(TrajectoryRate(s, "autopilot"), TrajectoryRate(s, "guidance"))

\* The trajectory is validated by the type it has after the copy.
SourceAccepted(s) ==
    /\ CompileAccepted(s)
    /\ \/ TrajectoryType(s) = "csv" /\ (s.source = "csv" \/ Has(s, "initial_truth", {"csv_path"}))
       \/ TrajectoryType(s) = "stationary" /\ TruthAccepted(s) /\ RatesAccepted(s)
       \/ /\ TrajectoryType(s) = "state_machine" /\ TruthAccepted(s)
          /\ DynamicsAccepted(s) /\ MachineAccepted(s) /\ s.keys.initial_truth \cap Velocities # {}
          /\ RatesAccepted(s)

-----------------------------------------------------------------------------
(* Sensors and initialization. *)

\* validate_gnss_runtime_config(), which rejects no unknown member.
GnssAccepted(s) ==
    /\ Has(s, "gnss", {"position_cov", "velocity_cov", "chi_square_acceptance", "seed", "noise_enabled"})
    /\ RateGiven(s, "gnss")
    /\ \A o \in {"position_cov", "velocity_cov"} : Has(s, o, {"frame"}) /\ OneOf(s, o, {"diag", "full"})
    /\ \A x \in Sensors : ControlsValid(s.baseline[x])

\* The terms of an IMU triad that are given directly, by variance or by covariance.
TriadTerms == {<<"bias", "bias_var", "bias_cov">>, <<"scale", "scale_var", "scale_cov">>}
TriadOthers == {"inrun_psd", "random_walk_psd", "quantization", "limit"}

TriadAccepted(s, o) ==
    /\ Has(s, o, {}) /\ Only(s, o, TriadOthers \cup UNION {ToSet(term) : term \in TriadTerms})
    /\ \A term \in TriadTerms : Cardinality(s.keys[o] \cap ToSet(term)) <= 1

\* validate_imu_runtime_config().
ImuAccepted(s) ==
    /\ Has(s, "imu", {"type", "seed"}) /\ RateGiven(s, "imu")
    /\ Only(s, "imu", {"type", "seed", "gyro", "accel"} \cup RateKeys)
    /\ s.imu = "ideal" => s.keys.imu \cap {"gyro", "accel"} = {}
    /\ s.imu = "error_model" =>
        Has(s, "imu", {"gyro", "accel"}) /\ TriadAccepted(s, "gyro") /\ TriadAccepted(s, "accel")

\* validate_pva_error_shape(): one convention for each part of the error.
PvaErrorAccepted(s) ==
    /\ Has(s, "pva_initialization", {"pva_error"}) /\ "pva_error" \notin s.bad
    /\ OneOf(s, "pva_error", {"p_e_m", "p_n_m"}) /\ OneOf(s, "pva_error", Velocities)
    /\ OneOf(s, "pva_error", {"rotvec_b2e_deg", "rotvec_b2n_deg"})

\* validate_pva_error_covariance_shape().
PvaErrorCovAccepted(s) == Has(s, "pva_error_cov", {}) /\ OneOf(s, "pva_error_cov", {"diag", "full"})

\* validate_pva_direct_shape().
PvaDirectAccepted(s) ==
    /\ Has(s, "pva_initialization", {"pva"})
    /\ Has(s, "pva", {"p_e_m", "v_e_mps", "rpy_b2e_deg"})

\* PvaRuntimeInitializationProvider::validate_runtime_config(); members of another
\* type are neither read nor rejected.
PvaAccepted(s) ==
    /\ Has(s, "pva_initialization", {"type"})
    /\ s.pva = "pva_random_error" =>
        /\ Has(s, "pva_initialization", {"pva_error_cov", "pva_error_frame", "seed"})
        /\ PvaErrorCovAccepted(s)
    /\ s.pva = "pva_error" => PvaErrorAccepted(s)
    /\ s.pva = "pva_direct" => PvaDirectAccepted(s)

\* validate_swil_runtime_config().
SwilAccepted(s) ==
    /\ TargetAccepted(s)
    /\ Has(s, "root", {"execution_target", "mission", "simulation", "imu", "gnss", "pva_initialization"})
    /\ Only(s, "root", {"run_name", "output_dir", "logging", "execution_target", "mission", "simulation",
                        "imu", "gnss", "pva_initialization", "filter_initialization", "propagation"})
    /\ Has(s, "simulation", {"control_state_source"})
    /\ SourceAccepted(s)
    /\ GnssAccepted(s) /\ ImuAccepted(s)
    /\ IsIntegerMultiple(RateOf(s, "execution_target"), RateOf(s, "imu"))
    /\ IsIntegerMultiple(RateOf(s, "execution_target"), RateOf(s, "gnss"))
    /\ PvaAccepted(s)
=============================================================================
