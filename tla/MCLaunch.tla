-------------------------------- MODULE MCLaunch --------------------------------
(* TLC instance: three complete configurations, one of each source, and every    *)
(* configuration that differs from one of them in one member of one object, one   *)
(* malformed object, one alternative form, the rates, the graph or one phase, or   *)
(* in what initial_truth copies over the trajectory; and a stationary source that   *)
(* initial_truth turns into a state machine, with machines of its own.              *)
EXTENDS Launch

CONSTANTS pad, boost, coast, none, typical, extreme, main, gnc, shared, missing

MCPhases == {pad, boost, coast}
MCFiles == {main, gnc, shared, missing}

\* No phase of these missions refers to one that does not exist in the system, so
\* every one of them has the shape of a mission.
Gated == [probability |-> typical, enabled |-> TRUE]
Open == [probability |-> none, enabled |-> FALSE]
Both(c) == [x \in Sensors |-> c]

-----------------------------------------------------------------------------
(* Phases. *)

Transition(to, priority) == [to |-> to, after |-> 2, priority |-> priority]

Phase(id, exits, transitions) ==
    [id |-> id, navigation |-> Both([probability |-> none, enabled |-> TRUE]),
     guided |-> TRUE, autopilot |-> TRUE, reference |-> "local_flight_path", sines |-> 1,
     acceleration |-> <<"velocity_hold", "path_feedforward">>, onEntry |-> 0,
     exits |-> exits, transitions |-> transitions]

Going(id, to) == Phase(id, {"transitions"}, <<Transition(to, 1)>>)
Ending(id) == Phase(id, {"terminal"}, <<>>)

\* The order of the phases is not the one in which their IDs are sorted.
Chain == <<Going(pad, coast), Going(coast, boost), Ending(boost)>>

-----------------------------------------------------------------------------
(* Members. *)

FullKeys ==
    [root |-> {"run_name", "output_dir", "logging", "execution_target", "mission", "simulation",
               "imu", "gnss", "pva_initialization", "filter_initialization", "propagation"},
     execution_target |-> {"type", "clock", "rate_hz"},
     logging |-> {"console", "truth", "measurement_statistics", "imu", "imu_debug",
                  "filter_correction", "nav_estimate"},
     log |-> {"enabled", "covariance", "rate_hz"},
     mission |-> {"duration_s", "termination", "gnc", "initial_phase_id", "cycle_policy", "phases"},
     filter_initialization |-> {"initial_covariance", "covariance_floor", "initial_estimate_error"},
     initial_covariance |-> {"diag"},
     covariance_floor |-> PvaForm,
     nominal_state |-> {"non_pva_values"},
     initial_estimate_error |-> {"type", "covariance", "seed"},
     estimate_cov |-> {"full"},
     propagation |-> {"process_noise", "imu_bias_dynamics"},
     process_noise |-> ProcessNoise,
     imu_bias_dynamics |-> BiasDynamics,
     simulation |-> {"source", "dynamics", "initial_truth", "vehicle_response", "phase_behavior",
                     "control_state_source"},
     source |-> {"type"},
     dynamics |-> {"rate_hz", "translational_integration"},
     gnc |-> {"guidance", "autopilot"},
     guidance |-> {"rate_hz", "maximum_bank_angle_deg", "command_filter"},
     autopilot |-> {"rate_hz", "model"},
     autopilot_model |-> AutopilotModel,
     command_filter |-> CommandFilter,
     vehicle_response |-> VehicleResponse,
     termination |-> {"type"},
     initial_truth |-> {"p_lla_deg_m", "v_n_mps", "b2n"},
     truth_dynamics |-> {}, truth_guidance |-> {}, truth_autopilot |-> {},
     gnss |-> {"position_cov", "velocity_cov", "chi_square_acceptance", "seed", "noise_enabled", "rate_hz"},
     position_cov |-> {"frame", "diag"},
     velocity_cov |-> {"frame", "full"},
     imu |-> {"type", "seed", "gyro", "accel", "rate_hz"},
     gyro |-> {"bias", "scale_var", "limit"},
     accel |-> {"bias_cov", "scale", "quantization"},
     pva_initialization |-> {"type", "pva_error_cov", "pva_error_frame", "seed"},
     pva_error |-> {"p_n_m", "v_n_mps", "rotvec_b2n_deg"},
     pva_error_cov |-> {"diag"},
     pva |-> {"p_e_m", "v_e_mps", "rpy_b2e_deg"}]

Hz(n) == [num |-> n, den |-> 1]

Base ==
    [files |-> [f \in MCFiles |->
        [exists |-> f # missing, sound |-> TRUE,
         refers |-> CASE f = main -> {gnc, shared} [] f = gnc -> {shared} [] OTHER -> {}]],
     target |-> "swil", source |-> "generated", imu |-> "error_model", pva |-> "pva_random_error",
     keys |-> FullKeys, bad |-> {}, unfit |-> {},
     rates |-> [execution_target |-> Hz(8), dynamics |-> Hz(4), guidance |-> Hz(1), autopilot |-> Hz(2),
                imu |-> Hz(8), gnss |-> Hz(1), log |-> Hz(3),
                truth_dynamics |-> Hz(2), truth_guidance |-> Hz(2), truth_autopilot |-> Hz(4)],
     duration |-> 6 * NsPerSecond, logged |-> TRUE, initial |-> pad, policy |-> "reject",
     baseline |-> Both(Gated), phases |-> Chain,
     behavior |-> [p \in MCPhases |-> IF p = pad THEN "hold_initial_ecef" ELSE "none"],
     truth |-> [type |-> "state_machine", duration |-> 4 * NsPerSecond, initial |-> pad,
                policy |-> "reject", phases |-> <<Going(pad, boost), Ending(boost)>>,
                behavior |-> [p \in MCPhases |-> "none"]]]

Stationary ==
    [Base EXCEPT !.source = "stationary", !.imu = "ideal", !.pva = "pva_error",
        !.keys.imu = {"type", "seed", "rate_hz"},
        !.keys.initial_truth = {"p_e_m", "e2b", "w_nb_b_degps"},
        !.keys.pva_initialization = {"type", "pva_error"},
        !.phases = <<Ending(boost)>>, !.initial = boost, !.behavior = [p \in {boost} |-> "none"]]

Csv ==
    [Stationary EXCEPT !.source = "csv", !.pva = "pva_direct",
        !.keys.source = {"type", "csv_path"}, !.keys.pva_initialization = {"type", "pva"}]

Bases == {Base, Stationary, Csv}

-----------------------------------------------------------------------------
(* Variations. *)

TruthRates == {"truth_dynamics", "truth_guidance", "truth_autopilot"}
Given(b) == DOMAIN b.keys \ TruthRates

\* One member less or more, one object that is malformed.
Objects(b) ==
    UNION {{[b EXCEPT !.keys[o] = @ \ {k}] : k \in b.keys[o]} : o \in Given(b)}
        \cup {[b EXCEPT !.keys[o] = @ \cup {"typo"}] : o \in Given(b)}
        \cup {[b EXCEPT !.bad = {o}] : o \in Given(b) \cup {"phases"}}

Rated == {"execution_target", "dynamics", "guidance", "autopilot", "imu", "gnss", "log"}

\* Periods, ambiguous and zero rates, and triples that nest, nest only around one
\* another, or do not nest; 3/2 Hz divides neither 4 nor 2.
Cadences(b) ==
    {[b EXCEPT !.keys[o] = (@ \ RateKeys) \cup ks] : o \in Rated, ks \in {{"dt_s"}, RateKeys}}
        \cup {[b EXCEPT !.rates[o] = r] : o \in Rated, r \in {Hz(0), Hz(3), Hz(16), [num |-> 3, den |-> 2]}}
        \cup {[b EXCEPT !.rates = [@ EXCEPT !.execution_target = Hz(12), !.imu = Hz(12), !.dynamics = d,
                                            !.autopilot = a, !.guidance = g]] :
                d \in {Hz(4), Hz(6), Hz(12)}, a \in {Hz(2), Hz(3), Hz(4)},
                g \in {Hz(1), Hz(2), Hz(3), [num |-> 3, den |-> 2]}}
        \cup {[b EXCEPT !.duration = d] : d \in {0, 1, NsPerSecond \div 4}}

\* Every graph over the three phases, in that order.
Leaving(id, to) ==
    IF to = {} THEN Ending(id)
    ELSE Phase(id, {"transitions"},
               [k \in 1..Cardinality(to) |-> Transition(SetToSeq(to)[k], k)])

Graphs ==
    {[Base EXCEPT !.phases = <<Leaving(coast, a), Leaving(boost, b), Leaving(pad, c)>>, !.policy = policy] :
        a \in SUBSET MCPhases, b \in SUBSET MCPhases, c \in SUBSET MCPhases, policy \in {"reject", "allow"}}

\* Exits that contradict each other, repeated priorities and IDs, targets and
\* behaviors without a phase, phases without a behavior.
Lists ==
    {[Base EXCEPT !.phases[k].exits = e] : k \in 1..3, e \in {{}, {"transitions"}, {"transitions", "terminal"}}}
        \cup {[Base EXCEPT !.phases = <<Going(pad, to), Ending(to)>>, !.behavior = [p \in dom |-> "none"]] :
                to \in {coast, boost}, dom \in {{pad, coast}, {pad, boost}, MCPhases}}
        \cup {[Base EXCEPT !.phases = <<Phase(pad, {"transitions"}, <<Transition(boost, 1), Transition(coast, k)>>),
                                        Ending(boost), Ending(id)>>] : k \in {1, 2}, id \in {boost, coast}}
        \cup {[Base EXCEPT !.phases = <<Going(pad, coast), Ending(boost)>>],
              [Base EXCEPT !.initial = boost], [Base EXCEPT !.phases = <<>>],
              [Base EXCEPT !.phases[1].transitions[1].after = 0],
              [Base EXCEPT !.behavior = [p \in MCPhases |-> "other"]]}

\* The blocks of the second phase.
Blocks ==
    {[Base EXCEPT !.phases[2] = [@ EXCEPT !.guided = g, !.reference = r, !.acceleration = a, !.sines = n]] :
        g \in BOOLEAN, r \in {"current_state", "local_flight_path", "waypoint_path", "other"}, n \in {0, 2},
        a \in {<<>>, <<"free_fall">>, <<"body_specific_force", "velocity_hold">>, <<"altitude_hold_pd">>,
               <<"path_feedforward", "path_feedforward">>}}

Unfit == {"csv", "latitude", "waypoint", "central", "tolerance", "window", "misaligned", "estimate", "pva"}

\* The conventions of the initial truth, sound, central or with a bad latitude.
Truths(b) ==
    {[b EXCEPT !.keys.initial_truth = p \cup v \cup a \cup w, !.unfit = u] :
        p \in {{}, {"p_e_m"}, {"p_lla_deg_m"}, Positions}, v \in {{}, {"v_e_mps"}, {"v_n_mps"}, Velocities},
        a \in {{"e2b"}, {"b2n"}, {"b2i", "n2b"}}, w \in {{}, {"w_ib_b_degps"}, {"w_nb_b_degps"}},
        u \in {{}, {"central"}, {"latitude"}}}

Covariances == {{"diag"}, {"full"}, {"diag", "full"}, PvaForm, PvaForm \cup {"diag"}, PvaForm \cup {"full"}}

Forms ==
    {[Base EXCEPT !.keys.initial_covariance = c, !.keys.covariance_floor = d] : c \in Covariances, d \in Covariances}
        \cup {[Base EXCEPT !.keys.filter_initialization = k, !.keys.initial_estimate_error = e, !.unfit = u] :
                k \in SUBSET {"nominal_state", "initial_estimate_error"},
                e \in {{"type", "values"}, {"type", "covariance", "seed"}}, u \in {{}, {"estimate"}}}
        \cup {[b EXCEPT !.pva = t, !.keys.pva_initialization = k, !.keys.pva_error = e, !.unfit = u] :
                b \in Bases, t \in {"pva_random_error", "pva_error", "pva_direct"}, u \in {{}, {"pva"}},
                k \in {{"type", "pva_error_cov", "pva_error_frame", "seed", "pva_error"}, {"type", "pva"}},
                e \in {{"p_e_m", "v_n_mps", "rotvec_b2e_deg"}, {"p_e_m", "p_n_m", "v_n_mps"}}}
        \cup {[Base EXCEPT !.keys.gyro = k] :
                k \in {{"bias", "bias_var"}, {"scale", "scale_var"}, {"scale_cov", "random_walk_psd"}}}

Gates ==
    {[b EXCEPT !.baseline = Both([probability |-> p, enabled |-> e]),
               !.phases[1].navigation = Both([probability |-> q, enabled |-> f])] :
        b \in Bases, p \in {none, typical, extreme}, q \in {none, typical, extreme}, e \in BOOLEAN, f \in BOOLEAN}

Loads == UNION {
    {[Base EXCEPT !.files[shared].refers = {f}] : f \in MCFiles},
    {[Base EXCEPT !.files[f].sound = FALSE] : f \in MCFiles}}

\* Members of initial_truth that are copied over the type, the duration, the machine
\* and the rates of the trajectory.
Copies(b) ==
    {[b EXCEPT !.keys.initial_truth = @ \cup m, !.truth.type = t, !.truth.duration = d] :
        m \in SUBSET {"type", "duration_s", "csv_path", "state_machine"},
        t \in {"csv", "stationary", "state_machine", "other"}, d \in {0, 1, 4 * NsPerSecond}}
        \cup {[b EXCEPT !.keys[CopiedRates[o]] = ks, !.keys[o] = (@ \ RateKeys) \cup ls,
                        !.rates[CopiedRates[o]] = r] :
                o \in DOMAIN CopiedRates, ks \in SUBSET RateKeys, ls \in SUBSET RateKeys,
                r \in {Hz(0), Hz(2), Hz(4), Hz(3)}}

\* A source configured as stationary that initial_truth turns into a state machine, and
\* the graphs and phases it may bring.
SelfSteered ==
    [Stationary EXCEPT !.keys.initial_truth = {"p_e_m", "v_e_mps", "e2b", "type"} \cup GeneratedMembers,
        !.keys.truth_guidance = {"rate_hz"}, !.keys.truth_autopilot = {"rate_hz"},
        !.rates.truth_guidance = Hz(1), !.rates.truth_autopilot = Hz(2)]

OwnGraphs(b) ==
    {[b EXCEPT !.truth.phases = <<Leaving(pad, t), Leaving(boost, u)>>, !.truth.policy = policy,
               !.truth.initial = i] :
        t \in SUBSET {pad, boost}, u \in SUBSET {pad, boost}, policy \in {"reject", "allow"}, i \in {pad, boost}}
        \cup {[b EXCEPT !.truth.phases = <<Ending(p)>>, !.truth.initial = i, !.truth.behavior = [q \in MCPhases |-> h]] :
                p \in {pad, boost}, i \in {pad, boost}, h \in {"none", "hold_initial_ecef", "other"}}
        \cup {[b EXCEPT !.truth.phases[2] = [@ EXCEPT !.reference = r, !.acceleration = a]] :
                r \in {"current_state", "waypoint_path", "other"}, a \in {<<"free_fall">>, <<"altitude_hold_pd">>}}

MCSetups ==
    UNION {Objects(b) \cup Cadences(b) : b \in Bases} \cup Graphs \cup Lists \cup Blocks
        \cup UNION {Truths(b) : b \in {Base, Stationary}} \cup Forms \cup Gates \cup Loads
        \cup {[b EXCEPT !.unfit = {u}, !.logged = l] : b \in Bases, u \in Unfit, l \in BOOLEAN}
        \cup UNION {Copies(b) : b \in Bases} \cup Objects(SelfSteered) \cup OwnGraphs(SelfSteered)
        \cup {[SelfSteered EXCEPT !.rates.truth_guidance = r] : r \in {Hz(2), Hz(3), Hz(4)}}
        \cup {[Base EXCEPT !.initial = i, !.keys.initial_truth = @ \cup {"type"}, !.truth.type = "stationary"] :
                i \in {pad, coast}}
        \cup {[Base EXCEPT !.target = "hil"], [Base EXCEPT !.imu = "ideal"]}

MCMissions == {MissionOf(s) : s \in MCSetups}
=============================================================================
