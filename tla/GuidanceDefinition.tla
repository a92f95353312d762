-------------------------- MODULE GuidanceDefinition --------------------------
(***************************************************************************)
(* A guidance state-machine definition and what makes one acceptable: the    *)
(* blocks of every state, the transitions and the graph they span.           *)
(***************************************************************************)
EXTENDS Integers, FiniteSetsExt, SequencesExt

References == {"none", "current", "kinematic", "waypoint"}

\* A state: `sound' tells whether every block present has a valid configuration,
\* `onEntry' is the duration of its entry filter, 0 when there is none.
StateDefinition ==
    [guided : BOOLEAN, autopilot : BOOLEAN, pad : BOOLEAN, terminal : BOOLEAN,
     sound : BOOLEAN, reference : References, modifiers : Nat,
     acceleration : Seq({"additive", "direct"}), bank : BOOLEAN, onEntry : Nat,
     transitions : Seq([to : Nat, after : Int, priority : Int])]

\* state_pipeline_is_valid(): body specific force is a state's sole translation
\* block, and every active state has a primary reference and a bank policy.
PipelineAccepted(s) ==
    /\ s.sound
    /\ s.guided =>
        /\ s.bank /\ s.reference # "none"
        /\ "direct" \in ToSet(s.acceleration) =>
            Len(s.acceleration) = 1 /\ s.reference = "current" /\ s.modifiers = 0

Targets(d, i) == {tr.to : tr \in ToSet(d.states[i].transitions)}

\* The states that can be entered from i: the least set that holds i's targets
\* and their own.
Enterable(d, i) ==
    {j \in DOMAIN d.states : \A S \in SUBSET DOMAIN d.states :
        (Targets(d, i) \subseteq S /\ \A k \in S : Targets(d, k) \subseteq S) => j \in S}

TransitionsAccepted(d, i) ==
    LET trs == d.states[i].transitions
    IN  /\ d.states[i].terminal = (trs = <<>>)
        /\ \A k \in DOMAIN trs : trs[k].after > 0 /\ trs[k].to \in DOMAIN d.states
        /\ \A k, l \in DOMAIN trs : trs[k].priority = trs[l].priority => k = l

\* guidance_state_machine_definition_is_valid().
DefinitionAccepted(d) ==
    /\ d.initial \in DOMAIN d.states
    /\ \A i \in DOMAIN d.states : PipelineAccepted(d.states[i]) /\ TransitionsAccepted(d, i)
    /\ \A i \in DOMAIN d.states : i = d.initial \/ i \in Enterable(d, d.initial)
    /\ \E i \in DOMAIN d.states : d.states[i].terminal
    /\ d.cycles = "reject" => \A i \in DOMAIN d.states : i \notin Enterable(d, i)
=============================================================================
