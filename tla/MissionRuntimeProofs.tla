------------------------- MODULE MissionRuntimeProofs -------------------------
(***************************************************************************)
(* Type correctness of MissionRuntime, that the gates follow the active      *)
(* phase, and that an acyclic mission never enters a phase twice and can     *)
(* always still reach a terminal one, for every mission configuration the    *)
(* loader accepts.                                                           *)
(***************************************************************************)
EXTENDS MissionRuntime, FiniteSetTheorems, WellFoundedInduction, TLAPS

\* An application in progress: whether it still succeeds, and the gates.
Applications == [ok : BOOLEAN, gate : InnovationGates]

-----------------------------------------------------------------------------
(* The phase graph. *)

\* What follows a successor of p follows p.
LEMMA AfterSuccessor ==
    ASSUME NEW m, NEW p, NEW q \in m.to[p]
    PROVE  After(m, q) \subseteq After(m, p) /\ (q \in Phases => q \in After(m, p))
  BY DEF After

\* The successors of what follows p follow p too, and so does all that follows them.
LEMMA AfterClosed ==
    ASSUME NEW m \in RawMission, NEW p \in Phases, NEW q \in After(m, p)
    PROVE  q \in Phases /\ m.to[q] \subseteq After(m, p) /\ After(m, q) \subseteq After(m, p)
  <1>1. q \in Phases /\ m.to[q] \subseteq Phases
    BY DEF After, RawMission
  <1>2. ASSUME NEW S \in SUBSET Phases, m.to[p] \subseteq S, \A r \in S : m.to[r] \subseteq S
        PROVE  m.to[q] \subseteq S
    BY <1>2 DEF After
  <1>3. m.to[q] \subseteq After(m, p)
    BY <1>1, <1>2 DEF After
  <1>4. ASSUME NEW x \in After(m, q) PROVE x \in After(m, p)
    BY <1>2 DEF After
  <1> QED  BY <1>1, <1>3, <1>4

\* An accepted mission stays among its configured phases.
LEMMA AfterConfigured ==
    ASSUME NEW m \in RawMission, Loadable(m), NEW p \in m.phases
    PROVE  After(m, p) \subseteq m.phases
  <1>1. m.phases \in SUBSET Phases /\ \A r \in m.phases : m.to[r] \subseteq m.phases
    BY DEF RawMission, Loadable
  <1> QED  BY <1>1 DEF After

\* From a phase of an accepted acyclic mission a terminal phase can be reached.
\* Of the phases that can still be entered, take one after which the fewest
\* follow: were it not terminal, its successors would be followed by fewer.
LEMMA TerminalReachable ==
    ASSUME NEW m \in RawMission, Loadable(m), ~HasCycle(m), NEW p \in m.phases
    PROVE  \E t \in m.terminal : t = p \/ t \in After(m, p)
  <1> DEFINE Ahead == {p} \cup After(m, p)
             Futures == {After(m, q) : q \in Ahead}
  <1>1. p \in Phases /\ Ahead \subseteq m.phases /\ Ahead \subseteq Phases
    BY AfterConfigured DEF RawMission
  <1>2. Futures \subseteq FiniteSubsetsOf(Phases) /\ Futures # {}
    <2>1. \A T \in SUBSET Phases : IsFiniteSet(T)
      BY PhaseAssumption, FS_Subset
    <2>2. \A q : After(m, q) \in SUBSET Phases
      BY DEF After
    <2> QED  BY <2>1, <2>2 DEF FiniteSubsetsOf
  <1>3. PICK F \in Futures : \A G \in Futures : ~(<<G, F>> \in StrictSubsetOrdering(Phases))
    BY <1>2, FS_StrictSubsetOrderingWellFounded, WFMin
  <1>4. PICK t \in Ahead : F = After(m, t)
    OBVIOUS
  <1>5. t \in Phases /\ t \in m.phases
    BY <1>1
  <1>6. ASSUME t \notin m.terminal PROVE FALSE
    <2>1. PICK q : q \in m.to[t]
      BY <1>5, <1>6 DEF Loadable
    <2>2. q \in Phases
      BY <1>5, <2>1 DEF RawMission
    <2>3. q \in After(m, t) /\ After(m, q) \subseteq After(m, t)
      BY <2>1, <2>2, AfterSuccessor
    <2>4. q \in Ahead
      BY <1>1, <2>1, <2>2, <2>3, AfterClosed
    <2>5. q \notin After(m, q)
      BY <1>1, <2>4 DEF HasCycle
    <2>6. <<After(m, q), F>> \in StrictSubsetOrdering(Phases)
      BY <1>4, <2>3, <2>5 DEF StrictSubsetOrdering, After
    <2> QED  BY <1>3, <2>4, <2>6
  <1> QED  BY <1>6

-----------------------------------------------------------------------------
(* The two gate operations: what a successful one does to its own gate, and *)
(* that it leaves the other gate alone.                                     *)

\* configure(): a solvable probability sets a threshold, every other call leaves the gate alone.
LEMMA ConfigureEffect ==
    ASSUME NEW r \in Applications, NEW s \in Sensors, NEW p \in MaybeProbability
    PROVE  LET c == ConfigureProbability(r, s, p)
           IN  /\ c \in Applications
               /\ c.ok => r.ok
               /\ c.ok /\ p # None =>
                    c.gate[s] = [probability |-> p, configured |-> TRUE, enabled |-> TRUE]
               /\ p = None => c.gate[s] = r.gate[s]
               /\ \A o \in Sensors \ {s} : c.gate[o] = r.gate[o]
  <1> DEFINE c == ConfigureProbability(r, s, p)
             configured == [probability |-> p, configured |-> TRUE, enabled |-> TRUE]
  <1>1. CASE ~r.ok \/ p = None
    BY <1>1 DEF ConfigureProbability, Applications
  <1>2. CASE r.ok /\ p # None /\ p \notin Solvable
    BY <1>2 DEF ConfigureProbability, Applications
  <1>3. CASE r.ok /\ p # None /\ p \in Solvable
    <2>1. c = [ok |-> TRUE, gate |-> [r.gate EXCEPT ![s] = configured]]
      BY <1>3 DEF ConfigureProbability, Applications
    <2>2. [r.gate EXCEPT ![s] = configured] \in InnovationGates
      BY DEF Applications, InnovationGates
    <2>3. r.gate \in [Sensors -> [probability : MaybeProbability, configured : BOOLEAN,
                                  enabled : BOOLEAN]]
      BY DEF Applications, InnovationGates
    <2> QED  BY <1>3, <2>1, <2>2, <2>3 DEF Applications
  <1> QED  BY <1>1, <1>2, <1>3

\* set_enabled(): a gate without a threshold cannot be enabled.
LEMMA SetEnabledEffect ==
    ASSUME NEW r \in Applications, NEW s \in Sensors, NEW e \in BOOLEAN
    PROVE  LET c == SetEnabled(r, s, e)
           IN  /\ c \in Applications
               /\ c.ok => r.ok
               /\ c.ok => /\ c.gate[s].enabled = e
                          /\ e => c.gate[s].configured
                          /\ c.gate[s].probability = r.gate[s].probability
               /\ \A o \in Sensors \ {s} : c.gate[o] = r.gate[o]
  <1> DEFINE c == SetEnabled(r, s, e)
  <1>1. CASE ~r.ok
    BY <1>1 DEF SetEnabled, Applications
  <1>2. CASE r.ok /\ e /\ ~r.gate[s].configured
    BY <1>2 DEF SetEnabled, Applications
  <1>3. CASE r.ok /\ ~(e /\ ~r.gate[s].configured)
    <2>1. c = [ok |-> TRUE, gate |-> [r.gate EXCEPT ![s] = [r.gate[s] EXCEPT !.enabled = e]]]
      BY <1>3 DEF SetEnabled, Applications
    <2>2. r.gate \in [Sensors -> [probability : MaybeProbability, configured : BOOLEAN,
                                  enabled : BOOLEAN]]
      BY DEF Applications, InnovationGates
    <2>3. /\ [r.gate[s] EXCEPT !.enabled = e] \in
                 [probability : MaybeProbability, configured : BOOLEAN, enabled : BOOLEAN]
          /\ [r.gate[s] EXCEPT !.enabled = e].enabled = e
          /\ [r.gate[s] EXCEPT !.enabled = e].configured = r.gate[s].configured
          /\ [r.gate[s] EXCEPT !.enabled = e].probability = r.gate[s].probability
      BY <2>2
    <2>4. [r.gate EXCEPT ![s] = [r.gate[s] EXCEPT !.enabled = e]] \in InnovationGates
      BY <2>2, <2>3 DEF InnovationGates
    <2> QED  BY <1>3, <2>1, <2>2, <2>3, <2>4 DEF Applications
  <1> QED  BY <1>1, <1>2, <1>3

\* The gates of a phase once its controls are in force.
InForce(g, nav) ==
    \A s \in Sensors :
        /\ g[s].enabled = nav[s].enabled
        /\ nav[s].probability # None => g[s].probability = nav[s].probability
        /\ g[s].enabled => g[s].configured /\ g[s].probability # None

\* The application of a phase keeps the gates well typed whatever it returns,
\* and puts the phase's controls in force when it succeeds.
LEMMA ApplyEffect ==
    ASSUME NEW g \in InnovationGates, NEW nav \in [Sensors -> GateControls]
    PROVE  LET a == ApplyNavigationPhase(g, nav)
           IN  a \in Applications /\ (a.ok => InForce(a.gate, nav))
  <1> DEFINE valid    == [ok |-> \A s \in Sensors : ControlsValid(nav[s]), gate |-> g]
             position == ConfigureProbability(valid, "position", nav["position"].probability)
             velocity == ConfigureProbability(position, "velocity", nav["velocity"].probability)
             selected == SetEnabled(velocity, "position", nav["position"].enabled)
             applied  == SetEnabled(selected, "velocity", nav["velocity"].enabled)
  <1>1. /\ "position" \in Sensors /\ "velocity" \in Sensors
        /\ "velocity" \in Sensors \ {"position"} /\ "position" \in Sensors \ {"velocity"}
    BY DEF Sensors
  <1>2. /\ \A s \in Sensors : nav[s].probability \in MaybeProbability /\ nav[s].enabled \in BOOLEAN
        /\ nav["position"].probability \in MaybeProbability
        /\ nav["velocity"].probability \in MaybeProbability
    BY <1>1 DEF GateControls
  <1>3. valid \in Applications
    BY DEF Applications
  <1>4. valid.ok => \A s \in Sensors : nav[s].enabled => nav[s].probability # None
    BY DEF ControlsValid
  <1>5. ApplyNavigationPhase(g, nav) = applied
    BY DEF ApplyNavigationPhase
  <1> HIDE DEF valid
  <1>6. /\ position \in Applications
        /\ position.ok => valid.ok
        /\ position.ok /\ nav["position"].probability # None =>
              position.gate["position"].probability = nav["position"].probability
    <2>1. LET p == nav["position"].probability
          IN  /\ position \in Applications
              /\ position.ok => valid.ok
              /\ position.ok /\ p # None =>
                    position.gate["position"] =
                        [probability |-> p, configured |-> TRUE, enabled |-> TRUE]
      BY <1>1, <1>2, <1>3, ConfigureEffect
    <2> QED  BY <2>1
  <1> HIDE DEF position
  <1>7. /\ velocity \in Applications
        /\ velocity.ok => position.ok
        /\ velocity.ok /\ nav["velocity"].probability # None =>
              velocity.gate["velocity"].probability = nav["velocity"].probability
        /\ velocity.gate["position"] = position.gate["position"]
    <2>1. LET p == nav["velocity"].probability
          IN  /\ velocity \in Applications
              /\ velocity.ok => position.ok
              /\ velocity.ok /\ p # None =>
                    velocity.gate["velocity"] =
                        [probability |-> p, configured |-> TRUE, enabled |-> TRUE]
              /\ velocity.gate["position"] = position.gate["position"]
      BY <1>1, <1>2, <1>6, ConfigureEffect
    <2> QED  BY <2>1
  <1> HIDE DEF velocity
  <1>8. /\ selected \in Applications
        /\ selected.ok => velocity.ok
        /\ selected.ok =>
              /\ selected.gate["position"].enabled = nav["position"].enabled
              /\ nav["position"].enabled => selected.gate["position"].configured
              /\ selected.gate["position"].probability = velocity.gate["position"].probability
        /\ selected.gate["velocity"] = velocity.gate["velocity"]
    BY <1>1, <1>2, <1>7, SetEnabledEffect
  <1> HIDE DEF selected
  <1>9. /\ applied \in Applications
        /\ applied.ok => selected.ok
        /\ applied.ok =>
              /\ applied.gate["velocity"].enabled = nav["velocity"].enabled
              /\ nav["velocity"].enabled => applied.gate["velocity"].configured
              /\ applied.gate["velocity"].probability = selected.gate["velocity"].probability
        /\ applied.gate["position"] = selected.gate["position"]
    BY <1>1, <1>2, <1>8, SetEnabledEffect
  <1> HIDE DEF applied
  <1>10. ASSUME applied.ok PROVE InForce(applied.gate, nav)
    <2>1. /\ valid.ok
          /\ \A s \in Sensors : applied.gate[s].enabled = nav[s].enabled
          /\ \A s \in Sensors : nav[s].enabled => applied.gate[s].configured
          /\ \A s \in Sensors : nav[s].probability # None =>
                applied.gate[s].probability = nav[s].probability
      BY <1>6, <1>7, <1>8, <1>9, <1>10 DEF Sensors
    <2> QED  BY <1>4, <2>1 DEF InForce
  <1> QED  BY <1>5, <1>9, <1>10

-----------------------------------------------------------------------------
(* The invariant: the configuration is one the loader accepted, and a phase *)
(* that was committed is in force.                                          *)

RuntimeInv ==
    /\ RuntimeTypeOK
    /\ Loadable(mission)
    /\ GatesFollowPhase

\* What a loadable mission configures of a phase's gates has its type.
LEMMA NavigationType ==
    ASSUME NEW m \in RawMission, NEW p \in Phases
    PROVE  Navigation(m, p) \in [Sensors -> GateControls]
  <1>1. ASSUME NEW s \in Sensors
        PROVE  Navigation(m, p)[s] \in GateControls
    <2>1. m.navigation[p][s] \in GateControls /\ m.baseline[s] \in GateControls
      BY DEF RawMission
    <2> QED  BY <2>1 DEF Navigation, GateControls
  <1> QED  BY <1>1 DEF Navigation

\* A baseline that the adapter configured.
LEMMA BaselineType == ASSUME NEW m \in RawMission PROVE BaselineGates(m) \in InnovationGates
  <1>1. ASSUME NEW s \in Sensors
        PROVE  m.baseline[s].probability \in MaybeProbability /\ m.baseline[s].enabled \in BOOLEAN
    BY DEF RawMission, GateControls
  <1> QED  BY <1>1 DEF BaselineGates, InnovationGates

\* A committed phase is in force; one that fails leaves the active phase alone.
LEMMA CommitEffect ==
    ASSUME RuntimeTypeOK, NEW id \in mission.phases, Commit(id), mission' = mission
    PROVE  RuntimeTypeOK' /\ GatesFollowPhase' /\ active' \in {active, id}
  <1> DEFINE nav == Navigation(mission, id)
             applied == ApplyNavigationPhase(gate, nav)
  <1>1. mission \in RawMission /\ gate \in InnovationGates /\ id \in Phases
    BY DEF RuntimeTypeOK, RawMission
  <1>2. nav \in [Sensors -> GateControls]
    BY <1>1, NavigationType
  <1>3. applied \in Applications /\ (applied.ok => InForce(applied.gate, nav))
    BY <1>1, <1>2, ApplyEffect
  <1>4. gate' = applied.gate /\ ok' = applied.ok /\ active' = IF applied.ok THEN id ELSE active
    BY DEF Commit
  <1> HIDE DEF applied
  <1>5. RuntimeTypeOK'
    BY <1>1, <1>3, <1>4 DEF RuntimeTypeOK, Applications
  <1>6. ASSUME ok' PROVE GatesFollowPhase'
    BY <1>3, <1>4, <1>6 DEF GatesFollowPhase, InForce
  <1>7. GatesFollowPhase'
    BY <1>6 DEF GatesFollowPhase
  <1> QED  BY <1>4, <1>5, <1>7

\* A rejected report changes neither phase nor gates.
LEMMA RejectEffect ==
    ASSUME RuntimeTypeOK, Reject, mission' = mission
    PROVE  RuntimeTypeOK' /\ GatesFollowPhase' /\ active' = active
  BY DEF RuntimeTypeOK, Reject, GatesFollowPhase

\* initialize() puts the first phase and its gates in force, or changes nothing.
LEMMA InitializeEffect ==
    ASSUME RuntimeTypeOK, NEW id \in Phases, Initialize(id)
    PROVE  RuntimeTypeOK' /\ GatesFollowPhase' /\ mission' = mission
  <1>1. mission' = mission
    BY DEF Initialize
  <1>2. CASE id \in mission.phases /\ active = None /\ id = mission.initial
    BY <1>1, <1>2, CommitEffect DEF Initialize
  <1>3. CASE ~(id \in mission.phases /\ active = None /\ id = mission.initial)
    BY <1>1, <1>3, RejectEffect DEF Initialize
  <1> QED  BY <1>1, <1>2, <1>3

\* synchronize() keeps the active phase or takes one of its transitions.
LEMMA SynchronizeEffect ==
    ASSUME RuntimeTypeOK, GatesFollowPhase, ok, NEW id \in Phases, Synchronize(id)
    PROVE  /\ RuntimeTypeOK' /\ GatesFollowPhase' /\ mission' = mission
           /\ active' # active => active \in mission.phases /\ active' \in mission.to[active]
  <1>1. mission' = mission
    BY DEF Synchronize
  <1>2. CASE id = active /\ active # None
    BY <1>1, <1>2 DEF Synchronize, RuntimeTypeOK, GatesFollowPhase
  <1>3. CASE ~(id = active /\ active # None) /\ TransitionAllowed(id)
    <2>1. id \in mission.phases /\ active \in mission.phases /\ id \in mission.to[active]
      BY <1>3 DEF TransitionAllowed, RuntimeTypeOK
    <2>2. Commit(id)
      BY <1>3 DEF Synchronize
    <2> QED  BY <1>1, <2>1, <2>2, CommitEffect
  <1>4. CASE ~(id = active /\ active # None) /\ ~TransitionAllowed(id)
    <2>1. Reject
      BY <1>4 DEF Synchronize
    <2> QED  BY <1>1, <2>1, RejectEffect
  <1> QED  BY <1>1, <1>2, <1>3, <1>4

\* Before initialize() no phase is active.
LEMMA RuntimeInit_Inv == RuntimeInit => RuntimeInv
  <1> SUFFICES ASSUME RuntimeInit PROVE RuntimeInv
    OBVIOUS
  <1>1. mission \in RawMission /\ Loadable(mission) /\ active = None /\ ok = TRUE
    BY MissionAssumption DEF RuntimeInit
  <1>2. gate \in InnovationGates
    BY <1>1, BaselineType DEF RuntimeInit
  <1> QED  BY <1>1, <1>2 DEF RuntimeInv, RuntimeTypeOK, GatesFollowPhase

\* initialize() and synchronize() keep the invariant.
LEMMA RuntimeStep_Inv == RuntimeInv /\ [RuntimeNext]_runtimeVars => RuntimeInv'
  <1> SUFFICES ASSUME RuntimeInv, [RuntimeNext]_runtimeVars PROVE RuntimeInv'
    OBVIOUS
  <1>1. ASSUME ok, NEW id \in Phases, Initialize(id) PROVE RuntimeInv'
    BY <1>1, InitializeEffect DEF RuntimeInv
  <1>2. ASSUME ok, NEW id \in Phases, Synchronize(id) PROVE RuntimeInv'
    BY <1>2, SynchronizeEffect DEF RuntimeInv
  <1>3. CASE UNCHANGED runtimeVars
    BY <1>3 DEF RuntimeInv, RuntimeTypeOK, GatesFollowPhase, runtimeVars
  <1> QED  BY <1>1, <1>2, <1>3 DEF RuntimeNext

-----------------------------------------------------------------------------
(* What the invariant gives. *)

\* For every loadable mission and every report of phases the owner's state is consistent.
THEOREM RuntimeInvariant == RuntimeSpec => []RuntimeInv
  BY RuntimeInit_Inv, RuntimeStep_Inv, PTL DEF RuntimeSpec

\* The configuration, the active phase and the gates keep their types; the
\* active phase is always one that is configured.
THEOREM RuntimeTypeCorrect == RuntimeSpec => []RuntimeTypeOK
  <1>1. RuntimeInv => RuntimeTypeOK
    BY DEF RuntimeInv
  <1> QED  BY <1>1, RuntimeInvariant, PTL

\* Whatever phases were active before, successful calls leave both sensors
\* gating as the active phase says.
THEOREM GatesAlwaysFollow == RuntimeSpec => []GatesFollowPhase
  <1>1. RuntimeInv => GatesFollowPhase
    BY DEF RuntimeInv
  <1> QED  BY <1>1, RuntimeInvariant, PTL

\* A mission that rejects cycles never enters a phase that it has left.
THEOREM NeverReturns == RuntimeSpec => NoReturn
  <1> DEFINE Left == active # None /\ active' # active /\ mission.policy = "reject"
                        => active \notin After(mission, active')
  <1>1. RuntimeInv /\ [RuntimeNext]_runtimeVars => [Left]_runtimeVars
    <2> SUFFICES ASSUME RuntimeInv, RuntimeNext,
                        active # None, active' # active, mission.policy = "reject"
                 PROVE  active \notin After(mission, active')
      BY DEF RuntimeNext
    <2>1. PICK id \in Phases : Synchronize(id)
      BY DEF RuntimeNext
    <2>2. active \in mission.phases /\ active' \in mission.to[active]
      BY <2>1, SynchronizeEffect DEF RuntimeInv, RuntimeNext
    <2>3. active \notin After(mission, active)
      BY <2>2 DEF RuntimeInv, Loadable, HasCycle
    <2> QED  BY <2>2, <2>3, AfterSuccessor
  <1> QED  BY <1>1, RuntimeInvariant, PTL DEF RuntimeSpec, NoReturn

\* However far an acyclic mission has come, the transitions that are left can
\* still take it to a terminal phase.
THEOREM MissionsCanFinish == RuntimeSpec => []MissionCanFinish
  <1>1. ASSUME RuntimeInv, active # None, mission.policy = "reject"
        PROVE  \E t \in mission.terminal : t = active \/ t \in After(mission, active)
    <2>1. mission \in RawMission /\ Loadable(mission) /\ active \in mission.phases
      BY <1>1 DEF RuntimeInv, RuntimeTypeOK
    <2>2. ~HasCycle(mission)
      BY <1>1, <2>1 DEF Loadable
    <2> QED  BY <2>1, <2>2, TerminalReachable
  <1>2. RuntimeInv => MissionCanFinish
    BY <1>1 DEF MissionCanFinish
  <1> QED  BY <1>2, RuntimeInvariant, PTL
=============================================================================
