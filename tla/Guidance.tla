------------------------------- MODULE Guidance -------------------------------
(***************************************************************************)
(* The guidance state machine of a generated trajectory, its waypoint       *)
(* route, and the command filter behind it: entering a state, the elapsed-   *)
(* time transitions, and the filter constants a state selects on entry.      *)
(*                                                                         *)
(* Time is in application ticks.  A guidance block is known by its role; its *)
(* kinematics are left out, except for the progress along a route, and a     *)
(* vector that leaves the finite numbers is a failing evaluation.            *)
(***************************************************************************)
EXTENDS GuidanceDefinition

CONSTANTS
    Definitions,  \* the state-machine definitions offered to a source
    Waypoints,    \* how many waypoints a route has
    None          \* nothing yet

ASSUME WaypointsAssumption == Waypoints \in Nat \ {0}

ASSUME DefinitionsAssumption ==
    Definitions \subseteq [initial : Nat, cycles : {"reject", "allow"}, states : Seq(StateDefinition)]

\* None is neither a time, nor the origin of an attitude or a control state.
ASSUME NoneAssumption ==
    None \notin Nat /\ None \notin {"configured", "estimated"} /\ None \notin [t : Nat, epoch : Nat]

VARIABLES
    definition,   \* m_definition, never changed
    active,       \* m_active_state_index
    entered,      \* m_state_entry_time
    progress,     \* the waypoints each state's route has accepted, complete at Waypoints
    captured,     \* where the altitude holds took m_target_altitude_m from
    command,      \* m_guidance_output.execution, and how its acceleration was formed
    remaining,    \* the command filter's m_state_entry_time_remaining_s
    constants,    \* its m_active_config: the state it belongs to, and entry or nominal
    applied       \* the constants of the last filter step

guidanceVars ==
    <<definition, active, entered, progress, captured, command, remaining, constants, applied>>

-----------------------------------------------------------------------------
(* The state machine. *)

State(i) == definition.states[i]

\* A threshold that counts as passed one tick early.
PassedEarly(tr, elapsed) == elapsed + 1 >= tr.after

Passed(tr, elapsed) == elapsed >= tr.after

Elapsed(i, t) == {tr \in ToSet(State(i).transitions) : Passed(tr, t - entered)}

\* The elapsed transition of the lowest priority number.
MostUrgent(trs) == CHOOSE tr \in trs : \A other \in trs : tr.priority <= other.priority

\* Transitions taken one after the other on the time spent in the first state.
SuccessorInLoop(t) ==
    LET next == MostUrgent(Elapsed(active, t)).to
    IN  IF Elapsed(next, t) # {} THEN MostUrgent(Elapsed(next, t)).to ELSE next

\* The state a guidance step at t enters: it takes one transition at most.
Successor(t) == MostUrgent(Elapsed(active, t)).to

HasRoute(i) == State(i).guided /\ State(i).reference = "waypoint"

\* A waypoint inside the acceptance radius is skipped, any number at once; the
\* index stays at the last one, the route is complete for good, and entering the
\* state again does not start it over.
AdvanceRoute(i) ==
    IF HasRoute(i)
    THEN \E reached \in progress[i]..Waypoints : progress' = [progress EXCEPT ![i] = reached]
    ELSE UNCHANGED progress

\* evaluate_active_state(): the blocks the active pipeline cannot do without, and
\* how the acceleration command is formed, decided by the front block.
BlockMissing(i) == State(i).guided /\ (State(i).reference = "none" \/ ~State(i).bank)

Formation(i) ==
    IF ~State(i).guided THEN "none"
    ELSE IF State(i).acceleration # <<>> /\ Head(State(i).acceleration) = "direct" THEN "direct"
    ELSE "summed"

Execution(i, moved) ==
    [state |-> i, entered |-> moved, guided |-> State(i).guided,
     autopilot |-> State(i).autopilot, pad |-> State(i).pad, formed |-> Formation(i)]

\* AltitudeHoldPdGuidanceAcceleration::initialize(): the altitude held in any state is
\* the one at the start of the machine, not the one at the state's entry.
CaptureAltitude(origin) == captured' = origin

\* GuidanceStateMachine::initialize() at time t on a control state of the given origin,
\* with the first advance, which follows it at once: no threshold has passed, and the
\* state counts as entered.
StartMachine(t, origin) ==
    /\ CaptureAltitude(origin)
    /\ active' = definition.initial
    /\ entered' = t
    /\ \E reached \in 0..Waypoints :
        /\ HasRoute(definition.initial) \/ reached = 0
        /\ progress' = [i \in DOMAIN definition.states |-> IF i = definition.initial THEN reached ELSE 0]
    /\ command' = Execution(definition.initial, TRUE)

\* GuidanceStateMachine::advance() at control time t.
AdvanceMachine(t) ==
    LET moved == Elapsed(active, t) # {}
        next  == IF moved THEN Successor(t) ELSE active
    IN  /\ active' = next /\ UNCHANGED captured
        /\ entered' = IF moved THEN t ELSE entered
        /\ AdvanceRoute(next)
        /\ command' = Execution(next, moved)

-----------------------------------------------------------------------------
(* The command filter. *)

\* An entry without constants of its own that leaves the previous window open.
SelectConstantsKeepingWindow(e) ==
    IF e.entered /\ State(e.state).onEntry > 0
    THEN [of |-> e.state, entry |-> TRUE, left |-> State(e.state).onEntry]
    ELSE IF remaining <= 0
    THEN [of |-> e.state, entry |-> FALSE, left |-> 0]
    ELSE [of |-> constants.of, entry |-> constants.entry, left |-> remaining]

\* The constants of a filter step: a state's entry constants from its entry on,
\* its nominal ones otherwise, and the entry window's own while it lasts.
SelectConstants(e) ==
    IF e.entered /\ State(e.state).onEntry > 0
    THEN [of |-> e.state, entry |-> TRUE, left |-> State(e.state).onEntry]
    ELSE IF e.entered \/ remaining <= 0
    THEN [of |-> e.state, entry |-> FALSE, left |-> 0]
    ELSE [of |-> constants.of, entry |-> constants.entry, left |-> remaining]

\* A window whose countdown is not held at zero.
LeftAfterUnheld(left, dt) == left - dt

LeftAfter(left, dt) == Max({0, left - dt})

\* GuidanceCommandFilter::advance() over dt with the execution e: the window is
\* counted down after the step, and closes at zero.
AdvanceFilter(e, dt) ==
    LET used == SelectConstants(e)
        left == LeftAfter(used.left, dt)
    IN  /\ applied' = [of |-> used.of, entry |-> used.entry]
        /\ remaining' = left
        /\ constants' = [of |-> IF left = 0 THEN e.state ELSE used.of, entry |-> used.entry /\ left > 0]

-----------------------------------------------------------------------------
(* Types. *)

GuidanceTypeOK ==
    /\ definition \in Definitions /\ DefinitionAccepted(definition)
    /\ active \in DOMAIN definition.states
    /\ entered \in Nat
    /\ progress \in [DOMAIN definition.states -> 0..Waypoints]
    /\ captured \in {None, "configured", "estimated"}
    /\ \E i \in DOMAIN definition.states, e \in BOOLEAN : command = Execution(i, e)
    /\ remaining \in Nat
    /\ {constants, applied} \subseteq [of : DOMAIN definition.states, entry : BOOLEAN]
=============================================================================
