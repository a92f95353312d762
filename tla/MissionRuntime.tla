---------------------------- MODULE MissionRuntime ----------------------------
(***************************************************************************)
(* The owner of the mission phase: MissionRuntime, the loader that resolves *)
(* it from JSON, and the transaction that applies a phase's Navigation      *)
(* controls to the innovation gates of the two primary GNSS sensors.        *)
(*                                                                         *)
(* The mission configuration is a variable that never changes, so that one  *)
(* run covers every phase graph the loader accepts.  JSON syntax, error     *)
(* texts and numeric probabilities are abstracted: a probability is one of  *)
(* a set of values in (0,1), and Solvable are those for which the           *)
(* chi-square quantile iteration converges.                                 *)
(***************************************************************************)
EXTENDS FiniteSets

CONSTANTS
    Phases,         \* stable phase IDs; a mission configures some of them
    Probabilities,  \* the gate probabilities in use, all strictly inside (0,1)
    Solvable,       \* those whose chi-square quantile can be computed
    None,           \* std::nullopt, and the absent JSON member
    Missions        \* the configurations offered to the loader

Sensors == {"position", "velocity"}
MaybeProbability == Probabilities \cup {None}

\* Innovation-gate controls as configured (a phase's or the GNSS baseline's).
GateControls == [probability : MaybeProbability, enabled : BOOLEAN]

\* The members of the mission JSON, of the shape the loader demands of each.
RawMission ==
    [phases     : SUBSET Phases,
     initial    : Phases,
     policy     : {"reject", "allow"},
     to         : [Phases -> SUBSET Phases],
     terminal   : SUBSET Phases,
     navigation : [Phases -> [Sensors -> GateControls]],
     baseline   : [Sensors -> GateControls]]

ASSUME PhaseAssumption == IsFiniteSet(Phases) /\ None \notin Phases
ASSUME ProbabilityAssumption == Solvable \subseteq Probabilities /\ None \notin Probabilities
ASSUME MissionAssumption == Missions \subseteq RawMission

VARIABLES
    mission,  \* the resolved configuration, constant after loading
    active,   \* m_active_phase_index, None before initialize()
    gate,     \* the InnovationGate of each primary GNSS sensor
    ok        \* what the last call returned

runtimeVars == <<mission, active, gate, ok>>

InnovationGates ==
    [Sensors -> [probability : MaybeProbability, configured : BOOLEAN, enabled : BOOLEAN]]

\* An InnovationGate as constructed: no probability, infinite threshold.
FreshGates ==
    [s \in Sensors |-> [probability |-> None, configured |-> FALSE, enabled |-> FALSE]]

-----------------------------------------------------------------------------
(* The phase graph. *)

\* The phases a mission can still enter from p: the least set that holds p's
\* successors and is closed under the transitions.
After(m, p) ==
    {q \in Phases : \A S \in SUBSET Phases :
        (m.to[p] \subseteq S /\ \A r \in S : m.to[r] \subseteq S) => q \in S}

HasCycle(m) == \E p \in m.phases : p \in After(m, p)

\* A phase selection resolved against the GNSS baseline: the phase's own
\* probability, otherwise the baseline's, otherwise none.
Navigation(m, p) ==
    [s \in Sensors |->
        [m.navigation[p][s] EXCEPT !.probability =
            IF @ = None THEN m.baseline[s].probability ELSE @]]

ControlsValid(c) == c.enabled => c.probability # None

\* A loader that keeps no track of the phases on its current path.
LoadableIgnoringCycles(m) ==
    /\ m.initial \in m.phases
    /\ \A p \in m.phases : m.to[p] \subseteq m.phases /\ (p \in m.terminal) = (m.to[p] = {})
    /\ \A p \in m.phases : p = m.initial \/ p \in After(m, m.initial)
    /\ \A p \in m.phases, s \in Sensors : ControlsValid(Navigation(m, p)[s])

\* What mission_runtime_from_json accepts; every other configuration is thrown
\* out before the mission exists.
Loadable(m) ==
    /\ m.initial \in m.phases
    /\ \A p \in m.phases : m.to[p] \subseteq m.phases /\ (p \in m.terminal) = (m.to[p] = {})
    /\ \A p \in m.phases : p = m.initial \/ p \in After(m, m.initial)
    /\ m.policy = "reject" => ~HasCycle(m)
    /\ \A p \in m.phases, s \in Sensors : ControlsValid(Navigation(m, p)[s])

-----------------------------------------------------------------------------
(* Applying a Navigation phase: four steps, each skipped once one failed. *)

ConfigureProbability(r, s, p) ==
    IF ~r.ok \/ p = None THEN r
    ELSE IF p \notin Solvable THEN [r EXCEPT !.ok = FALSE]
    ELSE [r EXCEPT !.gate[s] = [probability |-> p, configured |-> TRUE, enabled |-> TRUE]]

SetEnabled(r, s, e) ==
    IF ~r.ok THEN r
    ELSE IF e /\ ~r.gate[s].configured THEN [r EXCEPT !.ok = FALSE]
    ELSE [r EXCEPT !.gate[s].enabled = e]

\* The enabled states are selected before the probabilities, whose configuration
\* turns the gate on again.
ApplyEnabledFirst(g, nav) ==
    LET valid    == [ok |-> \A s \in Sensors : ControlsValid(nav[s]), gate |-> g]
        position == SetEnabled(valid, "position", nav["position"].enabled)
        velocity == SetEnabled(position, "velocity", nav["velocity"].enabled)
        selected == ConfigureProbability(velocity, "position", nav["position"].probability)
    IN  ConfigureProbability(selected, "velocity", nav["velocity"].probability)

\* apply_navigation_phase().
ApplyNavigationPhase(g, nav) ==
    LET valid    == [ok |-> \A s \in Sensors : ControlsValid(nav[s]), gate |-> g]
        position == ConfigureProbability(valid, "position", nav["position"].probability)
        velocity == ConfigureProbability(position, "velocity", nav["velocity"].probability)
        selected == SetEnabled(velocity, "position", nav["position"].enabled)
    IN  SetEnabled(selected, "velocity", nav["velocity"].enabled)

\* configure_gnss_innovation_gate, run for both sensors by the adapter's
\* initialize(); a baseline probability that cannot be solved throws.
BaselineConfigurable(m) ==
    \A s \in Sensors : m.baseline[s].probability \in Solvable \cup {None}

BaselineGates(m) ==
    [s \in Sensors |->
        LET p == m.baseline[s].probability
        IN  [probability |-> p,
             configured  |-> p # None,
             enabled     |-> p # None /\ m.baseline[s].enabled]]

-----------------------------------------------------------------------------
(* The calls of the host. *)

\* Applies phase id and commits it as the active phase if that succeeded.
Commit(id) ==
    LET applied == ApplyNavigationPhase(gate, Navigation(mission, id))
    IN  /\ gate' = applied.gate
        /\ ok' = applied.ok
        /\ active' = IF applied.ok THEN id ELSE active

Reject == ok' = FALSE /\ UNCHANGED <<active, gate>>

\* An initialize() that commits the reported phase before it resolves the ID.
InitializeUnresolved(id) ==
    /\ IF active = None /\ id = mission.initial THEN Commit(id)
       ELSE ok' = FALSE /\ active' = id /\ UNCHANGED gate
    /\ UNCHANGED mission

\* initialize(): only the configured initial phase, and only once.
Initialize(id) ==
    /\ IF id \in mission.phases /\ active = None /\ id = mission.initial THEN Commit(id) ELSE Reject
    /\ UNCHANGED mission

\* A synchronize() that accepts every configured phase.
SynchronizeAnyPhase(id) ==
    /\ IF id = active /\ active # None THEN ok' = TRUE /\ UNCHANGED <<active, gate>>
       ELSE IF id \in mission.phases /\ active # None THEN Commit(id) ELSE Reject
    /\ UNCHANGED mission

TransitionAllowed(id) ==
    /\ id \in mission.phases
    /\ active # None
    /\ active \notin mission.terminal
    /\ id \in mission.to[active]

\* synchronize(): the active phase is a no-op, another one must be a declared
\* transition of the active, nonterminal phase.
Synchronize(id) ==
    /\ IF id = active /\ active # None THEN ok' = TRUE /\ UNCHANGED <<active, gate>>
       ELSE IF TransitionAllowed(id) THEN Commit(id) ELSE Reject
    /\ UNCHANGED mission

RuntimeInit ==
    /\ mission \in {m \in Missions : Loadable(m) /\ BaselineConfigurable(m)}
    /\ active = None
    /\ gate = BaselineGates(mission)
    /\ ok = TRUE

\* The host ends the mission at the first call that returns false.
RuntimeNext ==
    /\ ok
    /\ \E id \in Phases :
        \/ active = None /\ Initialize(id)
        \/ active # None /\ Synchronize(id)

RuntimeSpec == RuntimeInit /\ [][RuntimeNext]_runtimeVars

-----------------------------------------------------------------------------
(* Properties. *)

\* Every variable has its type.
RuntimeTypeOK ==
    /\ mission \in RawMission
    /\ active \in mission.phases \cup {None}
    /\ gate \in InnovationGates
    /\ ok \in BOOLEAN

\* While the calls succeed, both sensors gate exactly as the active phase says:
\* enabled as selected, with the phase's resolved probability where it has one,
\* and never enabled without a configured threshold (apply_navigation_phase).
GatesFollowPhase ==
    ok /\ active # None =>
        \A s \in Sensors :
            LET nav == Navigation(mission, active)[s]
            IN  /\ gate[s].enabled = nav.enabled
                /\ nav.probability # None => gate[s].probability = nav.probability
                /\ gate[s].enabled => gate[s].configured /\ gate[s].probability # None

\* A mission whose graph must be acyclic never enters a phase it has left: a
\* phase that is left can no longer be reached (the loader's cycle check
\* together with synchronize()'s transition check).
NoReturn ==
    [][active # None /\ active' # active /\ mission.policy = "reject"
        => active \notin After(mission, active')]_runtimeVars

\* In such a mission a terminal phase can still be reached from whatever phase
\* is active: no legal sequence of transitions ends in a dead end.
MissionCanFinish ==
    active # None /\ mission.policy = "reject" =>
        \E t \in mission.terminal : t = active \/ t \in After(mission, active)

\* As the description of the phase transaction says, a failed application
\* leaves the gates as they were ("fail-before-mutation").
PhaseApplicationIsAtomic == [][~ok' => gate' = gate]_runtimeVars
=============================================================================
