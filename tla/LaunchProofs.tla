----------------------------- MODULE LaunchProofs -----------------------------
(***************************************************************************)
(* That the guidance machine of a generated source and the host's mission     *)
(* graph are the same graph, and that what the validators accept can be built  *)
(* and started, for every configuration of the shape SetupsAssumption gives.   *)
(* A list of phases g is that of mission.phases or that of a state machine in    *)
(* initial_truth, whose validators are not the same.                              *)
(***************************************************************************)
EXTENDS Launch, MissionRuntimeProofs

-----------------------------------------------------------------------------
(* The list of phases. *)

\* A list has as many IDs as members, so an ID names one member, and the
\* index of an ID leads back to it.
LEMMA PhaseList ==
    ASSUME NEW g, g.phases \in Seq(PhaseConfig), Cardinality(Ids(g)) = Len(g.phases)
    PROVE  /\ Len(g.phases) \in Nat /\ DOMAIN g.phases = 1..Len(g.phases)
           /\ PhaseOrder(g) = [k \in 1..Len(g.phases) |-> g.phases[k].id]
           /\ PhaseOrder(g) \in Seq(Phases) /\ Len(PhaseOrder(g)) = Len(g.phases)
           /\ ToSet(PhaseOrder(g)) = Ids(g) /\ Ids(g) \subseteq Phases
           /\ \A k, l \in 1..Len(g.phases) : g.phases[k].id = g.phases[l].id => k = l
           /\ \A k \in 1..Len(g.phases) :
                 g.phases[k] \in PhaseConfig /\ PhaseOf(g, g.phases[k].id) = g.phases[k]
           /\ \A id \in Ids(g) :
                 /\ IndexOf(PhaseOrder(g), id) \in 1..Len(g.phases)
                 /\ g.phases[IndexOf(PhaseOrder(g), id)].id = id
  <1> DEFINE n == Len(g.phases)
             order == PhaseOrder(g)
  <1>1. g.phases \in Seq(PhaseConfig)
    OBVIOUS
  <1>2. n \in Nat /\ DOMAIN g.phases = 1..n /\ \A k \in 1..n : g.phases[k] \in PhaseConfig
    BY <1>1
  <1>3. \A k \in 1..n : g.phases[k].id \in Phases
    BY <1>2 DEF PhaseConfig
  <1>4. order = [k \in 1..n |-> g.phases[k].id]
    BY <1>2 DEF PhaseOrder
  <1> HIDE DEF n, order
  <1>5. order \in Seq(Phases) /\ Len(order) = n
    <2>1. order \in [1..n -> Phases]
      BY <1>3, <1>4
    <2> QED  BY <1>2, <2>1
  <1>6. ToSet(order) = Ids(g) /\ Ids(g) \subseteq Phases
    BY <1>2, <1>3, <1>4 DEF ToSet, Ids
  <1>7. \A k, l \in 1..n : g.phases[k].id = g.phases[l].id => k = l
    <2>1. IsFiniteSet(1..n) /\ Cardinality(1..n) = n
      BY <1>2, FS_Interval
    <2>2. Cardinality(Ids(g)) = n
      BY DEF n
    <2>3. order \in Surjection(1..n, Ids(g))
      BY <1>2, <1>4 DEF Surjection, Ids
    <2>4. order \in Injection(1..n, Ids(g))
      BY <2>1, <2>2, <2>3, FS_SurjSameCardinalityImpliesInj
    <2>5. DOMAIN order = 1..n /\ \A k \in 1..n : order[k] = g.phases[k].id
      BY <1>4
    <2> QED  BY <2>4, <2>5 DEF Injection, IsInjective
  <1>8. \A k \in 1..n : PhaseOf(g, g.phases[k].id) = g.phases[k]
    BY <1>2, <1>7 DEF PhaseOf
  <1>9. ASSUME NEW id \in Ids(g)
        PROVE  IndexOf(order, id) \in 1..n /\ g.phases[IndexOf(order, id)].id = id
    <2>1. \E k \in 1..n : order[k] = id
      BY <1>2, <1>4 DEF Ids
    <2>2. DOMAIN order = 1..n
      BY <1>4
    <2>3. IndexOf(order, id) \in 1..n /\ order[IndexOf(order, id)] = id
      BY <1>6, <2>1, <2>2 DEF IndexOf
    <2> QED  BY <1>4, <2>3
  <1> QED  BY <1>2, <1>4, <1>5, <1>6, <1>7, <1>8, <1>9 DEF n, order

\* The configuration that the loader reads from the phases.
LEMMA MissionShape ==
    ASSUME NEW s \in Setups, MissionLoads(s)
    PROVE  /\ MissionOf(s) \in RawMission /\ Loadable(MissionOf(s))
           /\ \A k \in 1..Len(s.phases) :
                 LET id == s.phases[k].id
                 IN  /\ id \in Ids(s)
                     /\ MissionOf(s).to[id] = {tr.to : tr \in ToSet(s.phases[k].transitions)}
                     /\ id \in MissionOf(s).terminal <=> "terminal" \in s.phases[k].exits
                     /\ MissionOf(s).navigation[id] = s.phases[k].navigation
  <1>1. /\ DOMAIN s.phases = 1..Len(s.phases) /\ Ids(s) \subseteq Phases
        /\ \A k \in 1..Len(s.phases) :
              s.phases[k] \in PhaseConfig /\ PhaseOf(s, s.phases[k].id) = s.phases[k]
    BY PhaseList, SetupsAssumption DEF MissionLoads
  <1>2. \A k \in 1..Len(s.phases) : s.phases[k].id \in Ids(s)
    BY <1>1 DEF Ids
  <1>3. \A p \in Ids(s) : PhaseOf(s, p) \in PhaseConfig
    BY <1>1 DEF Ids
  <1>4. \A p \in Ids(s) : /\ {tr.to : tr \in ToSet(PhaseOf(s, p).transitions)} \subseteq Phases
                          /\ PhaseOf(s, p).navigation \in [Sensors -> GateControls]
    <2>1. ASSUME NEW p \in PhaseConfig
          PROVE  {tr.to : tr \in ToSet(p.transitions)} \subseteq Phases
      <3>1. p.transitions \in Seq([to : Phases, after : Int, priority : Int])
        BY DEF PhaseConfig
      <3>2. \A i \in DOMAIN p.transitions : p.transitions[i] \in [to : Phases, after : Int, priority : Int]
        <4>1. ASSUME NEW S, NEW q \in Seq(S) PROVE \A i \in DOMAIN q : q[i] \in S
          OBVIOUS
        <4> QED  BY <3>1, <4>1, Zenon
      <3>3. \A tr \in [to : Phases, after : Int, priority : Int] : tr.to \in Phases
        OBVIOUS
      <3> QED  BY <3>2, <3>3 DEF ToSet
    <2>2. \A p \in PhaseConfig : p.navigation \in [Sensors -> GateControls]
      BY DEF PhaseConfig
    <2> QED  BY <1>3, <2>1, <2>2
  <1>5. MissionOf(s) \in RawMission
    <2>1. [x \in Sensors |-> [probability |-> None, enabled |-> FALSE]] \in [Sensors -> GateControls]
      BY DEF GateControls, MaybeProbability
    <2>2. /\ MissionOf(s).to \in [Phases -> SUBSET Phases]
          /\ MissionOf(s).navigation \in [Phases -> [Sensors -> GateControls]]
      BY <1>4, <2>1 DEF MissionOf, Successors
    <2>3. /\ s.initial \in Phases /\ s.policy \in {"reject", "allow"}
          /\ s.baseline \in [Sensors -> GateControls]
      BY SetupsAssumption
    <2>4. MissionOf(s).terminal \in SUBSET Phases
      BY <1>1 DEF MissionOf
    <2> QED  BY <1>1, <2>2, <2>3, <2>4 DEF MissionOf, RawMission
  <1>6. Loadable(MissionOf(s))
    BY DEF MissionLoads
  <1>7. ASSUME NEW k \in 1..Len(s.phases)
        PROVE  LET id == s.phases[k].id
               IN  /\ MissionOf(s).to[id] = {tr.to : tr \in ToSet(s.phases[k].transitions)}
                   /\ id \in MissionOf(s).terminal <=> "terminal" \in s.phases[k].exits
                   /\ MissionOf(s).navigation[id] = s.phases[k].navigation
    <2>1. s.phases[k].id \in Ids(s) /\ s.phases[k].id \in Phases
          /\ PhaseOf(s, s.phases[k].id) = s.phases[k]
      BY <1>1, <1>2
    <2> QED  BY <2>1 DEF MissionOf, Successors
  <1> QED  BY <1>2, <1>5, <1>6, <1>7

\* What the loader accepts of mission.phases, the validator of machines would: it asks
\* for less.
LEMMA MissionGraph ==
    ASSUME NEW s \in Setups, MissionLoads(s)
    PROVE  s.phases \in Seq(PhaseConfig) /\ GraphAccepted(s) /\ MissionOf(s).to = Successors(s)
  <1> DEFINE m == MissionOf(s)
             h == PhaseGraph(s)
  <1>1. /\ s.phases \in Seq(PhaseConfig) /\ s.phases # <<>> /\ Cardinality(Ids(s)) = Len(s.phases)
        /\ Loadable(m)
    BY SetupsAssumption DEF MissionLoads
  <1>2. /\ m.to = Successors(s) /\ m.phases = Ids(s) /\ m.initial = s.initial /\ m.policy = s.policy
        /\ h.to = Successors(s) /\ h.phases = Ids(s) /\ h.initial = s.initial /\ h.policy = s.policy
    BY DEF MissionOf, PhaseGraph
  <1> HIDE DEF m, h
  <1>3. \A q : After(m, q) = After(h, q)
    BY <1>2 DEF After
  <1>4. HasCycle(m) <=> HasCycle(h)
    BY <1>2, <1>3 DEF HasCycle
  <1>5. /\ h.initial \in h.phases /\ \A p \in h.phases : h.to[p] \subseteq h.phases
        /\ \A p \in h.phases : p = h.initial \/ p \in After(h, h.initial)
        /\ h.policy = "reject" => ~HasCycle(h)
    BY <1>1, <1>2, <1>3, <1>4 DEF Loadable
  <1> QED  BY <1>1, <1>2, <1>5 DEF GraphAccepted, m, h

-----------------------------------------------------------------------------
(* The machine compiled from the list. *)

\* A state of the machine is its phase, its targets are the phases the list can
\* go on to, by their indices.
LEMMA MachineShape ==
    ASSUME NEW g, g.phases \in Seq(PhaseConfig), GraphAccepted(g)
    PROVE  LET d == CompiledMachine(g)
               n == Len(g.phases)
               m == PhaseGraph(g)
           IN  /\ DOMAIN d.states = 1..n /\ Len(d.states) = n
               /\ d.initial \in 1..n /\ g.phases[d.initial].id = g.initial
               /\ \A k \in 1..n :
                     /\ d.states[k] = StateOf(g, PhaseOrder(g), g.phases[k])
                     /\ Targets(d, k) \subseteq 1..n
                     /\ {g.phases[j].id : j \in Targets(d, k)} = m.to[g.phases[k].id]
  <1> DEFINE d == CompiledMachine(g)
             n == Len(g.phases)
             m == PhaseGraph(g)
             order == PhaseOrder(g)
  <1>1. /\ n \in Nat /\ DOMAIN g.phases = 1..n
        /\ order = [k \in 1..n |-> g.phases[k].id] /\ Len(order) = n
        /\ \A k \in 1..n : PhaseOf(g, g.phases[k].id) = g.phases[k] /\ g.phases[k] \in PhaseConfig
        /\ \A id \in Ids(g) : IndexOf(order, id) \in 1..n /\ g.phases[IndexOf(order, id)].id = id
    BY PhaseList DEF GraphAccepted, PhaseGraph
  <1>2. d.states = [k \in 1..n |-> StateOf(g, order, g.phases[k])] /\ d.initial = IndexOf(order, g.initial)
    BY <1>1 DEF CompiledMachine, MachineInOrder
  <1>3. g.initial \in Ids(g) /\ \A p \in Ids(g) : m.to[p] \subseteq Ids(g)
    BY DEF GraphAccepted, PhaseGraph
  <1>9. \A k \in 1..n : m.to[g.phases[k].id] = {tr.to : tr \in ToSet(g.phases[k].transitions)}
    <2>1. \A k \in 1..n : g.phases[k].id \in Ids(g) /\ g.phases[k].id \in Phases
      BY <1>1 DEF Ids, PhaseConfig
    <2> QED  BY <1>1, <2>1 DEF PhaseGraph, Successors
  <1> HIDE DEF d, m, order, n
  <1>4. ASSUME NEW k \in 1..n
        PROVE  Targets(d, k) \subseteq 1..n /\ {g.phases[j].id : j \in Targets(d, k)} = m.to[g.phases[k].id]
    <2> DEFINE trs == g.phases[k].transitions
               to(t) == IndexOf(order, t.to)
    <2>1. m.to[g.phases[k].id] = {tr.to : tr \in ToSet(trs)} /\ m.to[g.phases[k].id] \subseteq Ids(g)
      <3>1. g.phases[k].id \in Ids(g)
        BY <1>1 DEF Ids
      <3> QED  BY <1>3, <1>9, <3>1
    <2>2. d.states[k].transitions = [i \in DOMAIN trs |-> [trs[i] EXCEPT !.to = IndexOf(order, @)]]
      <3>1. d.states[k] = StateOf(g, order, g.phases[k])
        BY <1>2
      <3>2. StateOf(g, order, g.phases[k]).transitions
              = [i \in DOMAIN trs |-> [trs[i] EXCEPT !.to = IndexOf(order, @)]]
        BY DEF StateOf
      <3> QED  BY <3>1, <3>2
    <2>3. trs \in Seq([to : Phases, after : Int, priority : Int])
      BY <1>1 DEF PhaseConfig
    <2>4. \A i \in DOMAIN trs : d.states[k].transitions[i].to = IndexOf(order, trs[i].to)
      BY <2>2, <2>3
    <2>5. Targets(d, k) = {IndexOf(order, tr.to) : tr \in ToSet(trs)}
      <3>1. DOMAIN d.states[k].transitions = DOMAIN trs
        BY <2>2
      <3> QED  BY <2>4, <3>1 DEF Targets, ToSet
    <2>6. \A tr \in ToSet(trs) : /\ tr.to \in Ids(g)
                                 /\ IndexOf(order, tr.to) \in 1..n
                                 /\ g.phases[IndexOf(order, tr.to)].id = tr.to
      BY <1>1, <2>1
    <2> QED  BY <2>1, <2>5, <2>6
  <1>5. Len(d.states) = n
    BY <1>1, <1>2
  <1> QED  BY <1>1, <1>2, <1>3, <1>4, <1>5 DEF d, m, order, n

\* The state that can be entered from another is the phase that can follow the other.
LEMMA EnterableIsAfter ==
    ASSUME NEW g, g.phases \in Seq(PhaseConfig), GraphAccepted(g),
           NEW i \in 1..Len(g.phases), NEW j \in 1..Len(g.phases)
    PROVE  j \in Enterable(CompiledMachine(g), i) <=>
              g.phases[j].id \in After(PhaseGraph(g), g.phases[i].id)
  <1> DEFINE d == CompiledMachine(g)
             n == Len(g.phases)
             m == PhaseGraph(g)
             id(k) == g.phases[k].id
  <1>1. /\ DOMAIN d.states = 1..n
        /\ \A k \in 1..n : Targets(d, k) \subseteq 1..n /\ {id(l) : l \in Targets(d, k)} = m.to[id(k)]
    BY MachineShape
  <1>2. \A k, l \in 1..n : id(k) = id(l) => k = l
    BY PhaseList DEF GraphAccepted, PhaseGraph
  <1>3. \A k \in 1..n : id(k) \in Phases
    BY PhaseList DEF PhaseConfig, GraphAccepted, PhaseGraph
  <1> HIDE DEF d, m, n
  <1>4. ASSUME id(j) \in After(m, id(i)) PROVE j \in Enterable(d, i)
    <2>1. SUFFICES ASSUME NEW S \in SUBSET (1..n), Targets(d, i) \subseteq S,
                          \A k \in S : Targets(d, k) \subseteq S
                   PROVE  j \in S
      BY <1>1 DEF Enterable, n
    <2> DEFINE T == {id(k) : k \in S}
    <2>2. T \in SUBSET Phases
      BY <1>3
    <2>3. m.to[id(i)] \subseteq T
      BY <1>1, <2>1 DEF n
    <2>4. \A r \in T : m.to[r] \subseteq T
      BY <1>1, <2>1
    <2>5. id(j) \in T
      BY <1>4, <2>2, <2>3, <2>4 DEF After
    <2> QED  BY <1>2, <2>5 DEF n
  <1>5. ASSUME j \in Enterable(d, i) PROVE id(j) \in After(m, id(i))
    <2>1. SUFFICES ASSUME NEW T \in SUBSET Phases, m.to[id(i)] \subseteq T,
                          \A r \in T : m.to[r] \subseteq T
                   PROVE  id(j) \in T
      BY <1>3 DEF After, n
    <2> DEFINE S == {k \in 1..n : id(k) \in T}
    <2>2. S \in SUBSET DOMAIN d.states
      BY <1>1
    <2>3. Targets(d, i) \subseteq S
      BY <1>1, <2>1 DEF n
    <2>4. \A k \in S : Targets(d, k) \subseteq S
      BY <1>1, <2>1
    <2>5. j \in S
      BY <1>5, <2>2, <2>3, <2>4 DEF Enterable
    <2> QED  BY <2>5
  <1> QED  BY <1>4, <1>5 DEF d, m

\* What guidance_state_from_json() makes of a phase.
LEMMA StateMembers ==
    ASSUME NEW g, NEW order, NEW p \in PhaseConfig
    PROVE  LET q == StateOf(g, order, p)
           IN  /\ q.guided = p.guided /\ q.sound /\ q.bank
               /\ q.terminal \in BOOLEAN /\ (q.terminal <=> "terminal" \in p.exits)
               /\ q.pad = (g.behavior[p.id] = "hold_initial_ecef")
               /\ Len(q.acceleration) = Len(p.acceleration)
               /\ "direct" \in ToSet(q.acceleration) => ToSet(p.acceleration) \cap Direct # {}
               /\ q.modifiers = IF p.reference = "local_flight_path" THEN p.sines ELSE 0
               /\ p.reference = "current_state" => q.reference = "current"
               /\ p.reference = "local_flight_path" => q.reference = "kinematic"
               /\ p.reference = "waypoint_path" => q.reference = "waypoint"
               /\ DOMAIN q.transitions = DOMAIN p.transitions
               /\ q.transitions = <<>> <=> p.transitions = <<>>
               /\ \A k \in DOMAIN p.transitions :
                     /\ q.transitions[k].after = p.transitions[k].after
                     /\ q.transitions[k].priority = p.transitions[k].priority
  <1> DEFINE q == StateOf(g, order, p)
             parts == p.acceleration
             trs == p.transitions
  <1>1. q.guided = p.guided /\ q.sound = TRUE /\ q.bank = TRUE
    BY DEF StateOf
  <1>2. q.terminal = ("terminal" \in p.exits) /\ q.pad = (g.behavior[p.id] = "hold_initial_ecef")
    BY Zenon DEF StateOf
  <1>3. q.acceleration = [k \in DOMAIN parts |-> IF parts[k] \in Direct THEN "direct" ELSE "additive"]
    BY DEF StateOf
  <1>4. q.modifiers = IF p.reference = "local_flight_path" THEN p.sines ELSE 0
    BY DEF StateOf
  <1>5. q.reference = CASE p.reference = "current_state" -> "current"
                        [] p.reference = "local_flight_path" -> "kinematic"
                        [] p.reference = "waypoint_path" -> "waypoint"
    BY DEF StateOf
  <1>6. q.transitions = [k \in DOMAIN trs |-> [trs[k] EXCEPT !.to = IndexOf(order, @)]]
    BY DEF StateOf
  <1>7. parts \in Seq(STRING) /\ trs \in Seq([to : Phases, after : Int, priority : Int])
    BY DEF PhaseConfig
  <1> HIDE DEF q
  <1>8. /\ p.reference = "current_state" => q.reference = "current"
        /\ p.reference = "local_flight_path" => q.reference = "kinematic"
        /\ p.reference = "waypoint_path" => q.reference = "waypoint"
    BY <1>5
  <1>9. q.terminal \in BOOLEAN /\ (q.terminal <=> "terminal" \in p.exits)
    <2>1. ("terminal" \in p.exits) \in BOOLEAN
      OBVIOUS
    <2> QED  BY <1>2, <2>1, Zenon
  <1>10. Len(q.acceleration) = Len(parts)
    BY <1>3, <1>7
  <1>11. ASSUME "direct" \in ToSet(q.acceleration) PROVE ToSet(parts) \cap Direct # {}
    <2>1. PICK k \in DOMAIN parts : q.acceleration[k] = "direct"
      BY <1>3, <1>11 DEF ToSet
    <2>2. parts[k] \in Direct
      BY <1>3, <2>1
    <2> QED  BY <2>2 DEF ToSet
  <1>12. \A k \in DOMAIN trs : trs[k] \in [to : Phases, after : Int, priority : Int]
    <2>1. ASSUME NEW S, NEW x \in Seq(S) PROVE \A i \in DOMAIN x : x[i] \in S
      OBVIOUS
    <2> QED  BY <1>7, <2>1, Zenon
  <1>13. /\ DOMAIN q.transitions = DOMAIN trs
         /\ \A k \in DOMAIN trs : /\ q.transitions[k].after = trs[k].after
                                 /\ q.transitions[k].priority = trs[k].priority
    BY <1>6, <1>12
  <1>14. q.transitions = <<>> <=> trs = <<>>
    <2>1. ASSUME NEW S, NEW x \in Seq(S), DOMAIN x = {} PROVE x = <<>>
      BY <2>1
    <2>2. DOMAIN trs = {} => trs = <<>>
      BY <1>7, <2>1, Zenon
    <2>3. trs = <<>> => q.transitions = <<>>
      BY <1>6
    <2>4. q.transitions = <<>> => DOMAIN trs = {}
      BY <1>13
    <2> QED  BY <2>2, <2>3, <2>4
  <1> QED
    BY <1>1, <1>2, <1>4, <1>8, <1>9, <1>10, <1>11, <1>13, <1>14 DEF q

\* The blocks and transitions of a validated phase are those of an acceptable state,
\* unless its guidance combines blocks that only the constructor compares.
LEMMA StateAcceptable ==
    ASSUME NEW s, NEW g, g.phases \in Seq(PhaseConfig), GraphAccepted(g), ~MachineUndetected(s, g),
           NEW k \in 1..Len(g.phases), PhaseAccepted(g, g.phases[k])
    PROVE  LET d == CompiledMachine(g)
           IN  PipelineAccepted(d.states[k]) /\ TransitionsAccepted(d, k)
  <1> DEFINE d == CompiledMachine(g)
             n == Len(g.phases)
             p == g.phases[k]
             trs == p.transitions
  <1>1. /\ DOMAIN d.states = 1..n /\ d.states[k] = StateOf(g, PhaseOrder(g), p)
        /\ Targets(d, k) \subseteq 1..n /\ DOMAIN g.phases = 1..n /\ p \in PhaseConfig
    BY MachineShape, PhaseList DEF GraphAccepted, PhaseGraph
  <1>2. PhaseAccepted(g, p)
    OBVIOUS
  <1>3. trs \in Seq([to : Phases, after : Int, priority : Int]) /\ p.acceleration \in Seq(STRING)
    BY <1>1 DEF PhaseConfig
  <1>4. p \in ToSet(g.phases)
    BY <1>1 DEF ToSet
  <1> HIDE DEF d, n, p
  <1>5. PipelineAccepted(d.states[k])
    <2> DEFINE q == d.states[k]
               parts == p.acceleration
    <2>1. /\ q.sound /\ q.bank /\ q.guided = p.guided
          /\ Len(q.acceleration) = Len(parts)
          /\ "direct" \in ToSet(q.acceleration) => ToSet(parts) \cap Direct # {}
          /\ q.modifiers = IF p.reference = "local_flight_path" THEN p.sines ELSE 0
          /\ p.reference = "current_state" => q.reference = "current"
          /\ p.reference = "local_flight_path" => q.reference = "kinematic"
          /\ p.reference = "waypoint_path" => q.reference = "waypoint"
      BY <1>1, StateMembers
    <2>2. p.reference \in {"current_state", "local_flight_path", "waypoint_path"}
      BY <1>2 DEF PhaseAccepted, ReferenceAccepted
    <2>3. q.reference # "none"
      BY <2>1, <2>2
    <2>4. ASSUME p.guided, "direct" \in ToSet(q.acceleration)
          PROVE  Len(q.acceleration) = 1 /\ q.reference = "current" /\ q.modifiers = 0
      <3>1. ToSet(parts) \cap Direct # {}
        BY <2>1, <2>4
      <3>2. Len(parts) = 1
        BY <1>2, <3>1 DEF PhaseAccepted, AccelerationAccepted
      <3>3. p.reference = "current_state"
        BY <1>4, <2>4, <3>1 DEF MachineUndetected
      <3> QED  BY <2>1, <3>2, <3>3
    <2> QED  BY <2>1, <2>3, <2>4 DEF PipelineAccepted
  <1>6. TransitionsAccepted(d, k)
    <2> DEFINE ts == d.states[k].transitions
    <2>1. /\ d.states[k].terminal \in BOOLEAN /\ (d.states[k].terminal <=> "terminal" \in p.exits)
          /\ DOMAIN ts = DOMAIN trs /\ (ts = <<>> <=> trs = <<>>)
          /\ \A i \in DOMAIN trs : ts[i].after = trs[i].after /\ ts[i].priority = trs[i].priority
      BY <1>1, StateMembers
    <2>5. \A i \in DOMAIN ts : ts[i].to \in Targets(d, k)
      BY DEF Targets, ToSet
    <2>6. \A i \in DOMAIN ts : ts[i].to \in DOMAIN d.states
      BY <1>1, <2>5
    <2>7. \A i \in DOMAIN ts : ts[i].after > 0
      BY <1>2, <2>1 DEF PhaseAccepted, ToSet
    <2>8. \A i, l \in DOMAIN ts : ts[i].priority = ts[l].priority => i = l
      BY <1>2, <2>1 DEF PhaseAccepted
    <2>9. "terminal" \in p.exits <=> trs = <<>>
      BY <1>2 DEF PhaseAccepted
    <2>10. d.states[k].terminal = (ts = <<>>)
      BY <2>1, <2>9, Zenon
    <2> QED  BY <2>6, <2>7, <2>8, <2>10 DEF TransitionsAccepted
  <1> QED  BY <1>5, <1>6 DEF d

\* A validated list compiles to a machine that its constructor accepts.
LEMMA MachineAcceptable ==
    ASSUME NEW s, NEW g, g.phases \in Seq(PhaseConfig), GraphAccepted(g), ~MachineUndetected(s, g),
           \A k \in DOMAIN g.phases : PhaseAccepted(g, g.phases[k])
    PROVE  DefinitionAccepted(CompiledMachine(g))
  <1> DEFINE d == CompiledMachine(g)
             n == Len(g.phases)
             m == PhaseGraph(g)
  <1>1. /\ DOMAIN d.states = 1..n /\ d.initial \in 1..n /\ g.phases[d.initial].id = g.initial
        /\ \A k \in 1..n : d.states[k] = StateOf(g, PhaseOrder(g), g.phases[k])
    BY MachineShape
  <1>2. /\ DOMAIN g.phases = 1..n /\ \A k \in 1..n : g.phases[k] \in PhaseConfig
        /\ \A k, l \in 1..n : g.phases[k].id = g.phases[l].id => k = l
    BY PhaseList DEF GraphAccepted, PhaseGraph
  <1>3. /\ m.initial = g.initial /\ m.policy = g.policy
        /\ \A p \in m.phases : p = m.initial \/ p \in After(m, m.initial)
        /\ m.policy = "reject" => ~HasCycle(m)
        /\ \A k \in 1..n : g.phases[k].id \in m.phases
    BY <1>2 DEF GraphAccepted, PhaseGraph, Ids
  <1>4. d.cycles = g.policy
    BY DEF CompiledMachine, MachineInOrder
  <1>5. \A k \in 1..n : PipelineAccepted(d.states[k]) /\ TransitionsAccepted(d, k)
    BY <1>2, StateAcceptable
  <1> HIDE DEF d, m, n
  <1>6. \A k \in 1..n : k = d.initial \/ k \in Enterable(d, d.initial)
    BY <1>1, <1>2, <1>3, EnterableIsAfter DEF d, m, n
  <1>7. \E k \in 1..n : d.states[k].terminal
    <2>1. PICK p \in ToSet(g.phases) : "terminal" \in p.exits
      BY DEF MachineUndetected
    <2>2. PICK k \in 1..n : g.phases[k] = p
      BY <1>2, <2>1 DEF ToSet
    <2> QED  BY <1>1, <1>2, <2>1, <2>2, StateMembers
  <1>8. d.cycles = "reject" => \A k \in 1..n : k \notin Enterable(d, k)
    BY <1>3, <1>4, EnterableIsAfter DEF HasCycle, d, m, n
  <1> QED  BY <1>1, <1>5, <1>6, <1>7, <1>8 DEF DefinitionAccepted, d

-----------------------------------------------------------------------------
(* The launch: what each step that was passed has established. *)

Built == {"initialize", "phase", "launched"}
Resolved == {"build"} \cup Built
Validated == {"settings"} \cup Resolved

LaunchInv ==
    /\ setup \in Setups
    /\ stage \in {"load", "target", "common", "swil"} \cup Validated
    /\ stage \in {"swil"} \cup Validated => CommonAccepted(setup)
    /\ stage \in Validated => SwilAccepted(setup)
    /\ stage \in Resolved => MissionLoads(setup) /\ mission = MissionOf(setup)
    /\ stage \in Built =>
          /\ CompileAccepted(setup)
          /\ phaseIds = PhaseOrder(setup)
          /\ machine = IF TrajectoryType(setup) = "state_machine" THEN SourceMachine(setup) ELSE None
    /\ stage \notin Built => machine = None
    /\ stage # "launched" /\ exit = 0 => active = None
    /\ stage = "phase" /\ exit = 0 => gate \in InnovationGates
    /\ ValidatedIsBuildable

\* Validated data can be constructed from, unless they are unusable in a way that no
\* validator looks for.
LEMMA SourceOfValidated ==
    ASSUME NEW s \in Setups, SwilAccepted(s), ~Undetected(s)
    PROVE  CompileAccepted(s) /\ SourceBuildable(s)
  <1>1. SourceAccepted(s) /\ CompileAccepted(s) /\ s.unfit = {}
    BY DEF SwilAccepted, SourceAccepted, Undetected
  <1>2. TruthConvertible(s)
    BY <1>1 DEF TruthConvertible
  <1>3. CASE TrajectoryType(s) = "csv"
    BY <1>1, <1>3 DEF SourceBuildable, CsvReadable
  <1>4. CASE TrajectoryType(s) = "stationary"
    BY <1>1, <1>2, <1>4 DEF SourceBuildable
  <1>5. CASE TrajectoryType(s) = "state_machine"
    <2> DEFINE g == TrajectoryMachine(s)
    <2>1. MachineAccepted(s) /\ RatesAccepted(s) /\ s.keys.initial_truth \cap Velocities # {}
      BY <1>1, <1>5 DEF SourceAccepted
    <2>2. /\ g.phases \in Seq(PhaseConfig) /\ GraphAccepted(g)
          /\ \A k \in DOMAIN g.phases : PhaseAccepted(g, g.phases[k])
      BY <2>1, SetupsAssumption DEF MachineAccepted, TrajectoryMachine
    <2>3. ~MachineUndetected(s, g)
      BY <1>5 DEF Undetected
    <2> HIDE DEF g
    <2>4. DefinitionAccepted(SourceMachine(s))
      BY <2>2, <2>3, MachineAcceptable DEF SourceMachine, g
    <2>5. SourceParsable(s)
      BY <1>1, <1>2, <2>4 DEF SourceParsable
    <2>6. /\ IsIntegerMultiple(TrajectoryRate(s, "dynamics"), TrajectoryRate(s, "autopilot"))
          /\ IsIntegerMultiple(TrajectoryRate(s, "autopilot"), TrajectoryRate(s, "guidance"))
      BY <1>5, <2>1 DEF RatesAccepted
    <2>7. TimestampAt(0, TrajectoryRate(s, "dynamics"), 1) <= TrajectoryDuration(s)
      BY <2>3 DEF MachineUndetected
    <2>8. SourceMade(s)
      BY <1>1, <2>1, <2>4, <2>6 DEF SourceMade, ProfileValid
    <2>9. SourceStarts(s)
      BY <1>1, <2>7, <2>8 DEF SourceStarts
    <2> QED  BY <1>1, <1>5, <2>5, <2>9 DEF SourceBuildable
  <1> QED  BY <1>1, <1>3, <1>4, <1>5 DEF SourceAccepted

\* So can the initial state of Navigation and its gates.
LEMMA StateOfValidated ==
    ASSUME NEW s \in Setups, SwilAccepted(s), ~Undetected(s)
    PROVE  PvaUsable(s) /\ EstimateErrorUsable(s) /\ BaselineConfigurable(MissionOf(s))
  <1>1. PvaAccepted(s) /\ s.unfit = {}
    BY DEF SwilAccepted, Undetected
  <1>2. EstimateErrorUsable(s)
    BY <1>1 DEF EstimateErrorUsable
  <1>3. \A x \in Sensors : s.baseline[x].probability \in Solvable \cup {None}
    BY DEF Undetected
  <1>4. BaselineConfigurable(MissionOf(s))
    BY <1>3 DEF BaselineConfigurable, MissionOf
  <1>5. s.pva = "pva_random_error" => RandomErrorUsable(s)
    BY <1>1 DEF PvaAccepted, RandomErrorUsable, CovarianceConvertible, CovarianceSampled, Undetected
  <1>6. PvaUsable(s)
    <2>1. CASE s.pva = "pva_random_error"
      BY <1>5, <2>1 DEF PvaUsable
    <2>2. CASE s.pva = "pva_error"
      BY <2>2 DEF PvaUsable
    <2>3. CASE s.pva = "pva_direct"
      BY <1>1, <2>3 DEF PvaUsable
    <2> QED  BY <2>1, <2>2, <2>3, SetupsAssumption
  <1> QED  BY <1>2, <1>4, <1>6

\* The application of a phase whose controls are valid, with probabilities that have a
\* quantile, cannot fail.
LEMMA ApplySucceeds ==
    ASSUME NEW g \in InnovationGates, NEW nav \in [Sensors -> GateControls],
           \A x \in Sensors : ControlsValid(nav[x]) /\ nav[x].probability \in Solvable \cup {None}
    PROVE  ApplyNavigationPhase(g, nav).ok
  <1> DEFINE valid    == [ok |-> \A s \in Sensors : ControlsValid(nav[s]), gate |-> g]
             position == ConfigureProbability(valid, "position", nav["position"].probability)
             velocity == ConfigureProbability(position, "velocity", nav["velocity"].probability)
             selected == SetEnabled(velocity, "position", nav["position"].enabled)
             applied  == SetEnabled(selected, "velocity", nav["velocity"].enabled)
  <1>1. /\ "position" \in Sensors /\ "velocity" \in Sensors
        /\ "velocity" \in Sensors \ {"position"} /\ "position" \in Sensors \ {"velocity"}
    BY DEF Sensors
  <1>2. /\ nav["position"].probability \in MaybeProbability /\ nav["position"].enabled \in BOOLEAN
        /\ nav["velocity"].probability \in MaybeProbability /\ nav["velocity"].enabled \in BOOLEAN
        /\ nav["position"].probability \in Solvable \cup {None}
        /\ nav["velocity"].probability \in Solvable \cup {None}
        /\ nav["position"].enabled => nav["position"].probability # None
        /\ nav["velocity"].enabled => nav["velocity"].probability # None
    BY <1>1 DEF GateControls, ControlsValid
  <1>3. valid \in Applications /\ valid.ok
    BY DEF Applications
  <1>4. ApplyNavigationPhase(g, nav) = applied
    BY DEF ApplyNavigationPhase
  <1> HIDE DEF valid
  <1>5. /\ position \in Applications /\ position.ok
        /\ nav["position"].probability # None => position.gate["position"].configured
    <2>1. LET p == nav["position"].probability
          IN  /\ position \in Applications
              /\ position.ok /\ p # None =>
                    position.gate["position"] = [probability |-> p, configured |-> TRUE, enabled |-> TRUE]
      BY <1>1, <1>2, <1>3, ConfigureEffect
    <2>2. position.ok
      BY <1>2, <1>3 DEF ConfigureProbability
    <2> QED  BY <2>1, <2>2
  <1> HIDE DEF position
  <1>6. /\ velocity \in Applications /\ velocity.ok
        /\ nav["velocity"].probability # None => velocity.gate["velocity"].configured
        /\ velocity.gate["position"] = position.gate["position"]
    <2>1. LET p == nav["velocity"].probability
          IN  /\ velocity \in Applications
              /\ velocity.ok /\ p # None =>
                    velocity.gate["velocity"] = [probability |-> p, configured |-> TRUE, enabled |-> TRUE]
              /\ velocity.gate["position"] = position.gate["position"]
      BY <1>1, <1>2, <1>5, ConfigureEffect
    <2>2. velocity.ok
      BY <1>2, <1>5 DEF ConfigureProbability
    <2> QED  BY <2>1, <2>2
  <1> HIDE DEF velocity
  <1>7. /\ selected \in Applications /\ selected.ok
        /\ selected.gate["velocity"] = velocity.gate["velocity"]
    <2>1. selected.ok
      BY <1>2, <1>5, <1>6 DEF SetEnabled
    <2> QED  BY <1>1, <1>2, <1>6, <2>1, SetEnabledEffect
  <1> HIDE DEF selected
  <1>8. applied.ok
    BY <1>2, <1>6, <1>7 DEF SetEnabled
  <1> QED  BY <1>4, <1>8

\* The phase that the adapter reports is the one the mission starts in, and its
\* controls can be applied.
LEMMA FirstPhaseOfValidated ==
    ASSUME LaunchInv, stage = "phase", exit = 0, ~Undetected(setup)
    PROVE  /\ FirstIndex \in DOMAIN phaseIds
           /\ phaseIds[FirstIndex] \in mission.phases /\ phaseIds[FirstIndex] = mission.initial
           /\ ApplyNavigationPhase(gate, Navigation(mission, mission.initial)).ok
  <1> DEFINE s == setup
             n == Len(s.phases)
             m == MissionOf(s)
  <1>1. /\ s \in Setups /\ MissionLoads(s) /\ mission = m /\ CompileAccepted(s)
        /\ phaseIds = PhaseOrder(s) /\ gate \in InnovationGates
        /\ machine = IF TrajectoryType(s) = "state_machine" THEN SourceMachine(s) ELSE None
    BY DEF LaunchInv, Built, Resolved, Validated
  <1>2. /\ n \in Nat /\ DOMAIN s.phases = 1..n
        /\ phaseIds = [k \in 1..n |-> s.phases[k].id]
        /\ \A id \in Ids(s) : /\ IndexOf(PhaseOrder(s), id) \in 1..n
                             /\ s.phases[IndexOf(PhaseOrder(s), id)].id = id
    BY <1>1, PhaseList, SetupsAssumption DEF MissionLoads
  <1>3. /\ m.initial = s.initial /\ m.phases = Ids(s) /\ m \in RawMission /\ Loadable(m)
        /\ s.initial \in Ids(s)
    BY <1>1, MissionShape DEF MissionOf, Loadable
  <1>4. FirstIndex \in 1..n /\ s.phases[FirstIndex].id = s.initial
    <2>1. FirstIndex = StartIndex(s)
      BY <1>1 DEF FirstIndex, StartIndex
    <2>2. CASE Redirected(s)
      <3>1. StartIndex(s) = IndexOf(PhaseOrder(s), s.initial)
        BY <2>2 DEF Undetected
      <3> QED  BY <1>2, <1>3, <2>1, <3>1
    <2>3. CASE ~Redirected(s) /\ Generated(s)
      <3>1. StartIndex(s) = CompiledMachine(s).initial
        BY <2>3 DEF StartIndex, Redirected, ConfiguredType, SourceMachine, TrajectoryMachine
      <3>2. CompiledMachine(s).initial \in 1..n /\ s.phases[CompiledMachine(s).initial].id = s.initial
        BY <1>1, MissionGraph, MachineShape
      <3> QED  BY <2>1, <3>1, <3>2
    <2>4. CASE ~Redirected(s) /\ ~Generated(s)
      <3>1. n = 1
        BY <1>1, <2>4 DEF CompileAccepted
      <3>2. s.phases[1].id = s.initial
        BY <1>2, <1>3, <3>1 DEF Ids
      <3>3. StartIndex(s) = 1
        BY <1>1, <2>4, SetupsAssumption DEF StartIndex, Redirected, ConfiguredType, Generated
      <3> QED  BY <2>1, <3>1, <3>2, <3>3
    <2> QED  BY <2>2, <2>3, <2>4
  <1>5. PICK k \in 1..n : s.phases[k].id = s.initial
    BY <1>2, <1>3 DEF Ids
  <1>6. \A x \in Sensors : /\ ControlsValid(Navigation(m, s.initial)[x])
                           /\ Navigation(m, s.initial)[x].probability \in Solvable \cup {None}
    <2>1. ASSUME NEW x \in Sensors
          PROVE  Navigation(m, s.initial)[x].probability \in Solvable \cup {None}
      <3>1. m.navigation[s.initial] = s.phases[k].navigation /\ m.baseline = s.baseline
        BY <1>1, <1>5, MissionShape DEF MissionOf
      <3>2. /\ s.baseline[x].probability \in Solvable \cup {None}
            /\ s.phases[k].navigation[x].probability \in Solvable \cup {None}
        BY <1>2 DEF Undetected, ToSet
      <3>3. m.navigation[s.initial][x] \in GateControls
        BY <1>3 DEF RawMission
      <3> QED  BY <3>1, <3>2, <3>3 DEF Navigation, GateControls
    <2> QED  BY <1>3, <2>1 DEF Loadable
  <1>7. Navigation(m, s.initial) \in [Sensors -> GateControls]
    BY <1>3, NavigationType DEF RawMission
  <1>8. FirstIndex \in DOMAIN phaseIds /\ phaseIds[FirstIndex] = s.initial
    BY <1>2, <1>4
  <1> QED  BY <1>1, <1>3, <1>6, <1>7, <1>8, ApplySucceeds

\* main() starts with nothing loaded, validated or made: every conjunct that asks for a step holds.
LEMMA LaunchInit_Inv == LaunchInit => LaunchInv
  BY DEF LaunchInit, LaunchInv, ValidatedIsBuildable, Built, Resolved, Validated

\* A step before the construction of the adapter changes nothing but the stage.
LEMMA ValidationPreserves ==
    ASSUME LaunchInv, LoadFiles \/ CheckTarget \/ ValidateCommon \/ ValidateSwil
    PROVE  LaunchInv'
  <1>1. /\ setup' = setup /\ UNCHANGED <<phaseIds, machine, runtimeVars>> /\ exit = 0
        /\ stage \in {"load", "target", "common", "swil"}
        /\ \/ stage' = stage /\ exit' = 1
           \/ /\ exit' = 0
              /\ \/ stage' \in {"target", "common"}
                 \/ stage = "common" /\ stage' = "swil" /\ CommonAccepted(setup)
                 \/ stage = "swil" /\ stage' = "settings" /\ SwilAccepted(setup)
    BY DEF Check, LoadFiles, CheckTarget, ValidateCommon, ValidateSwil
  <1>2. UNCHANGED <<mission, active, gate, ok>>
    BY <1>1 DEF runtimeVars
  <1> QED  BY <1>1, <1>2 DEF LaunchInv, ValidatedIsBuildable, Built, Resolved, Validated

\* run_settings_from_json(): the phase order taken from the mission agrees with the file that was validated.
LEMMA ResolvePreserves == ASSUME LaunchInv, ResolveMission PROVE LaunchInv'
  <1>1. stage = "settings" /\ exit = 0 /\ UNCHANGED <<setup, phaseIds, machine, active, gate, ok>>
    BY DEF Check, ResolveMission
  <1>2. /\ setup \in Setups /\ CommonAccepted(setup) /\ SwilAccepted(setup) /\ machine = None
        /\ active = None
    BY <1>1 DEF LaunchInv, Built, Resolved, Validated
  <1>3. LoggingAccepted(setup) /\ MissionLoads(setup)
    BY <1>2 DEF CommonAccepted
  <1>4. stage' = "build" /\ exit' = 0 /\ mission' = MissionOf(setup)
    BY <1>1, <1>3 DEF Check, ResolveMission
  <1> QED  BY <1>1, <1>2, <1>3, <1>4 DEF LaunchInv, ValidatedIsBuildable, Built, Resolved, Validated

\* SwilMissionAdapter's constructor: the source, with its compiled machine, is made of the same configuration.
LEMMA CreatePreserves == ASSUME LaunchInv, CreateAdapter PROVE LaunchInv'
  <1>1. stage = "build" /\ exit = 0 /\ UNCHANGED <<setup, mission, active, gate, ok>>
    BY DEF Check, CreateAdapter, runtimeVars
  <1>2. /\ setup \in Setups /\ CommonAccepted(setup) /\ SwilAccepted(setup) /\ MissionLoads(setup)
        /\ machine = None /\ active = None /\ mission = MissionOf(setup)
    BY <1>1 DEF LaunchInv, Built, Resolved, Validated
  <1>3. CASE CompileAccepted(setup) /\ SourceBuildable(setup)
    <2>1. /\ stage' = "initialize" /\ exit' = 0 /\ phaseIds' = PhaseOrder(setup)
          /\ machine' = IF TrajectoryType(setup) = "state_machine" THEN SourceMachine(setup) ELSE None
      BY <1>1, <1>2, <1>3 DEF Check, CreateAdapter
    <2> QED  BY <1>1, <1>2, <1>3, <2>1 DEF LaunchInv, ValidatedIsBuildable, Built, Resolved, Validated
  <1>4. CASE ~(CompileAccepted(setup) /\ SourceBuildable(setup))
    <2>1. stage' = "build" /\ exit' = 1 /\ machine' = None
      BY <1>1, <1>2, <1>4 DEF Check, CreateAdapter
    <2>2. Undetected(setup)
      BY <1>2, <1>4, SourceOfValidated
    <2> QED  BY <1>1, <1>2, <2>1, <2>2 DEF LaunchInv, ValidatedIsBuildable, Built, Resolved, Validated
  <1> QED  BY <1>3, <1>4

\* SwilMissionAdapter::initialize() keeps what validation and construction established.
LEMMA InitializePreserves == ASSUME LaunchInv, InitializeAdapter PROVE LaunchInv'
  <1>1. stage = "initialize" /\ exit = 0 /\ UNCHANGED <<setup, phaseIds, machine, mission, active, ok>>
    BY DEF Check, InitializeAdapter
  <1>2. /\ setup \in Setups /\ CommonAccepted(setup) /\ SwilAccepted(setup) /\ MissionLoads(setup)
        /\ active = None /\ mission = MissionOf(setup) /\ CompileAccepted(setup)
        /\ phaseIds = PhaseOrder(setup)
        /\ machine = IF TrajectoryType(setup) = "state_machine" THEN SourceMachine(setup) ELSE None
    BY <1>1 DEF LaunchInv, Built, Resolved, Validated
  <1> DEFINE usable == PvaUsable(setup) /\ EstimateErrorUsable(setup) /\ BaselineConfigurable(mission)
  <1>3. CASE usable
    <2>1. stage' = "phase" /\ exit' = 0 /\ gate' = BaselineGates(mission)
      BY <1>1, <1>3 DEF Check, InitializeAdapter
    <2>2. gate' \in InnovationGates
      BY <1>2, <2>1, MissionShape, BaselineType
    <2> QED  BY <1>1, <1>2, <2>1, <2>2 DEF LaunchInv, ValidatedIsBuildable, Built, Resolved, Validated
  <1>4. CASE ~usable
    <2>1. stage' = "initialize" /\ exit' = 1
      BY <1>1, <1>4 DEF Check, InitializeAdapter
    <2>2. Undetected(setup)
      BY <1>2, <1>4, StateOfValidated
    <2> QED  BY <1>1, <1>2, <2>1, <2>2 DEF LaunchInv, ValidatedIsBuildable, Built, Resolved, Validated
  <1> QED  BY <1>3, <1>4

\* The first phase the source reports is one the mission knows by the same position.
LEMMA FirstPhasePreserves == ASSUME LaunchInv, FirstPhase PROVE LaunchInv'
  <1>1. /\ stage = "phase" /\ exit = 0 /\ UNCHANGED <<setup, phaseIds, machine>>
        /\ IF FirstIndex \in DOMAIN phaseIds THEN Initialize(phaseIds[FirstIndex])
           ELSE ok' = FALSE /\ UNCHANGED <<mission, active, gate>>
        /\ IF ok' THEN stage' = "launched" /\ exit' = 0 ELSE stage' = "phase" /\ exit' = 4
    BY DEF FirstPhase
  <1>2. /\ setup \in Setups /\ CommonAccepted(setup) /\ SwilAccepted(setup) /\ MissionLoads(setup)
        /\ active = None /\ mission = MissionOf(setup) /\ CompileAccepted(setup)
        /\ phaseIds = PhaseOrder(setup)
        /\ machine = IF TrajectoryType(setup) = "state_machine" THEN SourceMachine(setup) ELSE None
    BY <1>1 DEF LaunchInv, Built, Resolved, Validated
  <1>3. mission' = mission
    BY <1>1 DEF Initialize
  <1>4. ~Undetected(setup) => ok'
    <2> SUFFICES ASSUME ~Undetected(setup) PROVE ok'
      OBVIOUS
    <2>1. /\ FirstIndex \in DOMAIN phaseIds
          /\ phaseIds[FirstIndex] \in mission.phases /\ phaseIds[FirstIndex] = mission.initial
          /\ ApplyNavigationPhase(gate, Navigation(mission, mission.initial)).ok
      BY <1>1, FirstPhaseOfValidated
    <2> QED  BY <1>1, <1>2, <2>1 DEF Initialize, Commit
  <1>5. CASE ok'
    BY <1>1, <1>2, <1>3, <1>5 DEF LaunchInv, ValidatedIsBuildable, Built, Resolved, Validated
  <1>6. CASE ~ok'
    <2>1. Undetected(setup)
      BY <1>4, <1>6
    <2> QED
      BY <1>1, <1>2, <1>3, <1>6, <2>1 DEF LaunchInv, ValidatedIsBuildable, Built, Resolved, Validated
  <1> QED  BY <1>5, <1>6

\* Every step of the start keeps the invariant.
LEMMA LaunchStep_Inv == LaunchInv /\ [LaunchNext]_launchVars => LaunchInv'
  <1>1. ASSUME LaunchInv, UNCHANGED launchVars PROVE LaunchInv'
    BY <1>1 DEF LaunchInv, ValidatedIsBuildable, launchVars
  <1> QED
    BY <1>1, ValidationPreserves, ResolvePreserves, CreatePreserves, InitializePreserves,
       FirstPhasePreserves
    DEF LaunchNext

\* What the steps that were passed have established, and whom the failures are due to.
THEOREM LaunchInvariant == LaunchSpec => []LaunchInv
  BY LaunchInit_Inv, LaunchStep_Inv, PTL DEF LaunchSpec

-----------------------------------------------------------------------------
(* What the invariant gives. *)

\* The state machine that steers a generated source and the graph in the host agree on
\* every phase, its successors, its end and its plant constraint, although each is built
\* from JSON by code of its own and initial_truth may have copied another machine first.
THEOREM MachineAndMissionAgree == LaunchSpec => []PhasesAgree
  <1>1. ASSUME LaunchInv, machine # None, Generated(setup)
        PROVE  /\ Len(machine.states) = Len(phaseIds) /\ ToSet(phaseIds) = mission.phases
               /\ phaseIds[machine.initial] = mission.initial
               /\ \A i \in DOMAIN machine.states :
                     /\ {phaseIds[j] : j \in Targets(machine, i)} = mission.to[phaseIds[i]]
                     /\ machine.states[i].terminal = (phaseIds[i] \in mission.terminal)
                     /\ machine.states[i].pad = (setup.behavior[phaseIds[i]] = "hold_initial_ecef")
    <2> DEFINE s == setup
               d == CompiledMachine(s)
               n == Len(s.phases)
    <2>1. /\ s \in Setups /\ MissionLoads(s) /\ mission = MissionOf(s) /\ phaseIds = PhaseOrder(s)
          /\ machine = d
      BY <1>1 DEF LaunchInv, Built, Resolved, Validated, SourceMachine, TrajectoryMachine
    <2>2. /\ phaseIds = [k \in 1..n |-> s.phases[k].id] /\ Len(phaseIds) = n
          /\ ToSet(phaseIds) = Ids(s) /\ \A k \in 1..n : s.phases[k] \in PhaseConfig
      BY <2>1, PhaseList, SetupsAssumption DEF MissionLoads
    <2>3. /\ DOMAIN d.states = 1..n /\ Len(d.states) = n
          /\ d.initial \in 1..n /\ s.phases[d.initial].id = s.initial
          /\ \A k \in 1..n :
                /\ d.states[k] = StateOf(s, phaseIds, s.phases[k])
                /\ Targets(d, k) \subseteq 1..n
                /\ {s.phases[j].id : j \in Targets(d, k)} = mission.to[s.phases[k].id]
      <3>1. s.phases \in Seq(PhaseConfig) /\ GraphAccepted(s) /\ mission.to = PhaseGraph(s).to
        BY <2>1, MissionGraph DEF PhaseGraph
      <3>2. /\ DOMAIN d.states = 1..n /\ Len(d.states) = n
            /\ d.initial \in 1..n /\ s.phases[d.initial].id = s.initial
            /\ \A k \in 1..n :
                  /\ d.states[k] = StateOf(s, PhaseOrder(s), s.phases[k])
                  /\ Targets(d, k) \subseteq 1..n
                  /\ {s.phases[j].id : j \in Targets(d, k)} = PhaseGraph(s).to[s.phases[k].id]
        BY <3>1, MachineShape
      <3> HIDE DEF d, n, s
      <3> QED  BY <2>1, <3>1, <3>2
    <2>4. mission.phases = Ids(s) /\ mission.initial = s.initial
      BY <2>1 DEF MissionOf
    <2> HIDE DEF d, n, s
    <2>5. ASSUME NEW i \in 1..n
          PROVE  /\ {phaseIds[j] : j \in Targets(d, i)} = mission.to[phaseIds[i]]
                 /\ d.states[i].terminal = (phaseIds[i] \in mission.terminal)
                 /\ d.states[i].pad = (s.behavior[phaseIds[i]] = "hold_initial_ecef")
      <3>1. {phaseIds[j] : j \in Targets(d, i)} = mission.to[phaseIds[i]]
        <4>1. \A j \in 1..n : phaseIds[j] = s.phases[j].id
          BY <2>2
        <4>2. /\ Targets(d, i) \subseteq 1..n
              /\ {s.phases[j].id : j \in Targets(d, i)} = mission.to[s.phases[i].id]
          BY <2>3
        <4>3. {phaseIds[j] : j \in Targets(d, i)} = {s.phases[j].id : j \in Targets(d, i)}
          BY <4>1, <4>2
        <4> QED  BY <4>1, <4>2, <4>3
      <3>2. /\ d.states[i].terminal \in BOOLEAN
            /\ d.states[i].terminal <=> "terminal" \in s.phases[i].exits
            /\ d.states[i].pad = (s.behavior[s.phases[i].id] = "hold_initial_ecef")
        BY <2>2, <2>3, StateMembers
      <3>3. phaseIds[i] \in mission.terminal <=> "terminal" \in s.phases[i].exits
        BY <2>1, <2>2, MissionShape DEF n
      <3>4. (phaseIds[i] \in mission.terminal) \in BOOLEAN
        OBVIOUS
      <3>5. d.states[i].terminal = (phaseIds[i] \in mission.terminal)
        BY <3>2, <3>3, <3>4, Zenon
      <3>6. phaseIds[i] = s.phases[i].id
        BY <2>2
      <3> QED  BY <3>1, <3>2, <3>5, <3>6, Zenon
    <2> QED  BY <2>1, <2>2, <2>3, <2>4, <2>5 DEF s
  <1>2. LaunchInv => PhasesAgree
    BY <1>1 DEF PhasesAgree, MachineIsMission
  <1> QED  BY <1>2, LaunchInvariant, PTL

\* A configuration that the three validators accept fails later only for a reason that
\* Undetected lists: otherwise the source can be built, Navigation initialized and the
\* first phase activated.
THEOREM ValidatedStarts == LaunchSpec => []ValidatedIsBuildable
  <1>1. LaunchInv => ValidatedIsBuildable
    BY DEF LaunchInv
  <1> QED  BY <1>1, LaunchInvariant, PTL
=============================================================================
