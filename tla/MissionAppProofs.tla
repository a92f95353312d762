--------------------------- MODULE MissionAppProofs ---------------------------
(***************************************************************************)
(* That the mission host keeps the adapter's lifecycle and implements the    *)
(* contract of MissionAdapter, finalizes what it must exactly once, and      *)
(* returns 0 for complete missions only: for every mission, source, period   *)
(* and pattern of failures.                                                  *)
(***************************************************************************)
EXTENDS MissionApp, MissionRuntimeProofs

\* Calls before the first epoch, in an epoch once it is prepared, and after one.
Startup == {"initialize", "firstPhase", "clock"}
Prepared == {"wait", "sync", "publish", "navigate", "after"}
Published == {"navigate", "after"}
Ending == {"finalizeAdapter", "close"}

-----------------------------------------------------------------------------
(* The inductive invariant. *)

\* What the mission runtime's own invariant says, and success so far.
PhaseInv ==
    /\ Loadable(mission) /\ GatesFollowPhase
    /\ pc \in Calls => ok
    /\ pc = "initialize" => active = None
    /\ pc = "publish" => active = source.phase

\* The adapter's flags at each call of the host.
FlagsInv ==
    /\ pc \in Calls => (adapter.initialized <=> pc # "initialize")
    /\ pc \in Calls \ {"initialize"} => adapter.diagnostics
    /\ pc \in Calls => (adapter.prepared <=> pc \in Prepared)
    /\ pc \in Calls => (adapter.published <=> pc \in Published)
    /\ pc \in Prepared => deadline = adapter.preparedTime
    /\ pc \in Startup => clock = 0 /\ deadline = 0
    /\ pc \in Startup \cup {"prepare", "wait", "sync", "publish"} => ~adapter.completion
    /\ pc \in Ending => adapter.completion

\* What a completed mission has reached.
CompletionInv ==
    /\ adapter.completion => adapter.terminal
    /\ pc \in (Prepared \cup {"loop"} \cup Ending) /\ adapter.terminal =>
          source.complete /\ deadline = source.tEnd
    /\ pc \in ((Prepared \ {"wait"}) \cup {"loop"} \cup Ending) => clock = deadline
    /\ pc \in {"after", "loop"} \cup Ending /\ adapter.completion => active \in mission.terminal

\* Who has been finalized.
FinalizationInv ==
    /\ calls.adapter = IF host.finalizationAttempted THEN 1 ELSE 0
    /\ adapter.finalized => host.finalizationAttempted
    /\ pc \in Calls => (host.finalizationAttempted <=> pc = "close")
    /\ pc = "close" => adapter.finalized
    /\ calls.navigator <= 1
    /\ pc \in Startup \cup {"prepare", "wait", "sync", "publish", "navigate"} => calls.navigator = 0
    /\ pc \in {"after", "loop"} =>
          /\ host.navigatorFinalized = adapter.completion
          /\ calls.navigator = IF adapter.completion THEN 1 ELSE 0
    /\ pc \in Ending => calls.navigator = 1
    /\ pc = "cleanup" => code \notin {0, 1}
    /\ pc = "exited" /\ code # 1 => host.finalizationAttempted

AppInv ==
    /\ AppTypeOK /\ PhaseInv /\ FlagsInv /\ CompletionInv /\ FinalizationInv /\ CleanExit

-----------------------------------------------------------------------------
(* Each call of the host preserves it. *)

\* Calls that leave the mission runtime alone keep its invariant.
LEMMA RuntimeUnchanged ==
    ASSUME RuntimeTypeOK, GatesFollowPhase, Loadable(mission), UNCHANGED runtimeVars
    PROVE  RuntimeTypeOK' /\ GatesFollowPhase' /\ Loadable(mission)'
  BY DEF RuntimeTypeOK, GatesFollowPhase, runtimeVars

\* The counters of finalization stay within their types through a call of finalize().
LEMMA FinalizeTypes ==
    ASSUME adapter \in AdapterState, calls \in [navigator : Nat, adapter : Nat],
           AdapterFinalize \/ UNCHANGED <<adapter, calls>>
    PROVE  adapter' \in AdapterState /\ calls' \in [navigator : Nat, adapter : Nat]
  <1>1. CASE AdapterFinalize
    <2>1. calls' \in [navigator : Nat, adapter : Nat]
      BY <1>1 DEF AdapterFinalize
    <2>2. adapter' \in AdapterState
      BY <1>1 DEF AdapterFinalize, AdapterState
    <2> QED  BY <2>1, <2>2
  <1> QED  BY <1>1

\* An exception leaves the host where no further call is made.
LEMMA ThrowPreserves == ASSUME AppInv, Throw PROVE AppInv'
  <1>1. RuntimeTypeOK' /\ GatesFollowPhase' /\ Loadable(mission)' /\ UNCHANGED runtimeVars
    BY RuntimeUnchanged DEF AppInv, AppTypeOK, PhaseInv, Throw
  <1>2. AppTypeOK'
    BY <1>1 DEF AppInv, AppTypeOK, Throw, Calls, EpochCalls, Startup, Prepared, Published,
       Ending
  <1>3. PhaseInv'
    BY <1>1 DEF AppInv, PhaseInv, runtimeVars, Throw, Calls, EpochCalls, Startup, Prepared,
       Published, Ending
  <1>4. FlagsInv'
    BY DEF AppInv, AppTypeOK, AdapterState, HostState, FlagsInv, Throw, Calls, EpochCalls,
       Startup, Prepared, Published, Ending
  <1>5. CompletionInv'
    BY <1>1 DEF AppInv, AppTypeOK, AdapterState, HostState, FlagsInv, CompletionInv,
       runtimeVars, Throw, Calls, EpochCalls, Startup, Prepared, Published, Ending
  <1>6. FinalizationInv'
    BY DEF AppInv, AppTypeOK, AdapterState, HostState, FlagsInv, FinalizationInv, Throw,
       Calls, EpochCalls, Startup, Prepared, Published, Ending
  <1>7. CleanExit'
    BY <1>1 DEF AppInv, AppTypeOK, AdapterState, HostState, FlagsInv, CompletionInv,
       FinalizationInv, CleanExit, runtimeVars, Throw, Calls, EpochCalls, Startup, Prepared,
       Published, Ending
  <1> QED  BY <1>2, <1>3, <1>4, <1>5, <1>6, <1>7 DEF AppInv

\* The cleanup after an error return finalizes the adapter unless that was attempted.
LEMMA CleanupPreserves == ASSUME AppInv, Cleanup PROVE AppInv'
  <1>1. RuntimeTypeOK' /\ GatesFollowPhase' /\ Loadable(mission)' /\ UNCHANGED runtimeVars
    BY RuntimeUnchanged DEF AppInv, AppTypeOK, PhaseInv, Cleanup
  <1>2. AppTypeOK'
    <2>1. adapter' \in AdapterState /\ calls' \in [navigator : Nat, adapter : Nat]
      BY FinalizeTypes DEF AppInv, AppTypeOK, Cleanup
    <2>2. host' \in HostState
      BY DEF AppInv, AppTypeOK, HostState, Cleanup
    <2> QED  BY <1>1, <2>1, <2>2 DEF AppInv, AppTypeOK, Cleanup, Error, Calls, EpochCalls
  <1>3. PhaseInv'
    BY <1>1 DEF AppInv, PhaseInv, runtimeVars, Cleanup, AdapterFinalize, FinalizeLegal,
       Calls, EpochCalls, Startup, Prepared, Published, Ending
  <1>4. FlagsInv'
    BY DEF AppInv, AppTypeOK, AdapterState, HostState, FlagsInv, Cleanup, AdapterFinalize,
       FinalizeLegal, Calls, EpochCalls, Startup, Prepared, Published, Ending
  <1>5. CompletionInv'
    <2>1. adapter'.completion = adapter.completion /\ adapter'.terminal = adapter.terminal
      BY DEF AppInv, AppTypeOK, AdapterState, Cleanup, AdapterFinalize
    <2> QED
      BY <2>1 DEF AppInv, CompletionInv, Cleanup, Calls, EpochCalls, Prepared, Ending
  <1>6. FinalizationInv'
    BY DEF AppInv, AppTypeOK, AdapterState, HostState, FlagsInv, FinalizationInv, Cleanup,
       AdapterFinalize, FinalizeLegal, Calls, EpochCalls, Startup, Prepared, Published,
       Ending
  <1>7. CleanExit'
    BY <1>1 DEF AppInv, AppTypeOK, AdapterState, HostState, FlagsInv, CompletionInv,
       FinalizationInv, CleanExit, runtimeVars, Cleanup, AdapterFinalize, FinalizeLegal,
       Calls, EpochCalls, Startup, Prepared, Published, Ending
  <1> QED  BY <1>2, <1>3, <1>4, <1>5, <1>6, <1>7 DEF AppInv

\* start() of the clock precedes the loop and touches neither adapter nor phase.
LEMMA StartClockPreserves == ASSUME AppInv, StartClock PROVE AppInv'
  <1>1. RuntimeTypeOK' /\ GatesFollowPhase' /\ Loadable(mission)' /\ UNCHANGED runtimeVars
    BY RuntimeUnchanged DEF AppInv, AppTypeOK, PhaseInv, StartClock
  <1>2. AppTypeOK'
    BY <1>1 DEF AppInv, AppTypeOK, StartClock, Error, Calls, EpochCalls, Startup, Prepared,
       Published, Ending
  <1>3. PhaseInv'
    BY <1>1 DEF AppInv, PhaseInv, runtimeVars, StartClock, Error, Calls, EpochCalls, Startup,
       Prepared, Published, Ending
  <1>4. FlagsInv'
    BY DEF AppInv, AppTypeOK, AdapterState, HostState, FlagsInv, StartClock, Error, Calls,
       EpochCalls, Startup, Prepared, Published, Ending
  <1>5. CompletionInv'
    BY <1>1 DEF AppInv, AppTypeOK, AdapterState, HostState, FlagsInv, CompletionInv,
       runtimeVars, StartClock, Error, Calls, EpochCalls, Startup, Prepared, Published,
       Ending
  <1>6. FinalizationInv'
    BY DEF AppInv, AppTypeOK, AdapterState, HostState, FlagsInv, FinalizationInv, StartClock,
       Error, Calls, EpochCalls, Startup, Prepared, Published, Ending
  <1>7. CleanExit'
    BY <1>1 DEF AppInv, AppTypeOK, AdapterState, HostState, FlagsInv, CompletionInv,
       FinalizationInv, CleanExit, runtimeVars, StartClock, Error, Calls, EpochCalls,
       Startup, Prepared, Published, Ending
  <1> QED  BY <1>2, <1>3, <1>4, <1>5, <1>6, <1>7 DEF AppInv

\* wait_until() moves the clock only: what was prepared stays prepared.
LEMMA WaitPreserves == ASSUME AppInv, Wait PROVE AppInv'
  <1>1. RuntimeTypeOK' /\ GatesFollowPhase' /\ Loadable(mission)' /\ UNCHANGED runtimeVars
    BY RuntimeUnchanged DEF AppInv, AppTypeOK, PhaseInv, Wait
  <1>2. AppTypeOK'
    BY <1>1 DEF AppInv, AppTypeOK, Wait, Error, Calls, EpochCalls, Startup, Prepared,
       Published, Ending
  <1>3. PhaseInv'
    BY <1>1 DEF AppInv, PhaseInv, runtimeVars, Wait, Error, Calls, EpochCalls, Startup,
       Prepared, Published, Ending
  <1>4. FlagsInv'
    BY DEF AppInv, AppTypeOK, AdapterState, HostState, FlagsInv, Wait, Error, Calls,
       EpochCalls, Startup, Prepared, Published, Ending
  <1>5. CompletionInv'
    BY <1>1 DEF AppInv, AppTypeOK, AdapterState, HostState, FlagsInv, CompletionInv,
       runtimeVars, Wait, Error, Calls, EpochCalls, Startup, Prepared, Published, Ending
  <1>6. FinalizationInv'
    BY DEF AppInv, AppTypeOK, AdapterState, HostState, FlagsInv, FinalizationInv, Wait,
       Error, Calls, EpochCalls, Startup, Prepared, Published, Ending
  <1>7. CleanExit'
    BY <1>1 DEF AppInv, AppTypeOK, AdapterState, HostState, FlagsInv, CompletionInv,
       FinalizationInv, CleanExit, runtimeVars, Wait, Error, Calls, EpochCalls, Startup,
       Prepared, Published, Ending
  <1> QED  BY <1>2, <1>3, <1>4, <1>5, <1>6, <1>7 DEF AppInv

\* publish_epoch() meets the phase and the deadline its preparation reported.
LEMMA PublishPreserves == ASSUME AppInv, Publish PROVE AppInv'
  <1>1. RuntimeTypeOK' /\ GatesFollowPhase' /\ Loadable(mission)' /\ UNCHANGED runtimeVars
    BY RuntimeUnchanged DEF AppInv, AppTypeOK, PhaseInv, Publish
  <1>2. AppTypeOK'
    <2>1. adapter' \in AdapterState
      BY DEF AppInv, AppTypeOK, AdapterState, HostState, Publish
    <2> QED  BY <1>1, <2>1 DEF AppInv, AppTypeOK, Publish, Error, Calls, EpochCalls
  <1>3. PhaseInv'
    BY <1>1 DEF AppInv, PhaseInv, runtimeVars, Publish, Error, PublishLegal, Calls,
       EpochCalls, Startup, Prepared, Published, Ending
  <1>4. FlagsInv'
    BY DEF AppInv, AppTypeOK, AdapterState, HostState, FlagsInv, Publish, Error,
       PublishLegal, Calls, EpochCalls, Startup, Prepared, Published, Ending
  <1>5. CompletionInv'
    BY <1>1 DEF AppInv, AppTypeOK, AdapterState, HostState, FlagsInv, CompletionInv,
       runtimeVars, Publish, Error, PublishLegal, Calls, EpochCalls, Startup, Prepared,
       Published, Ending
  <1>6. FinalizationInv'
    <2>1. UNCHANGED <<host, calls>>
      BY DEF Publish
    <2>2. CASE Error(4)
      BY <2>1, <2>2 DEF AppInv, FinalizationInv, Publish, Error, Calls, EpochCalls, Startup,
         Prepared, Published, Ending
    <2>3. CASE pc' = "navigate" /\ UNCHANGED code
      BY <2>1, <2>3 DEF AppInv, AppTypeOK, AdapterState, HostState, FlagsInv,
         FinalizationInv, Publish, Calls, EpochCalls, Startup, Prepared, Published, Ending
    <2> QED  BY <2>2, <2>3 DEF Publish
  <1>7. CleanExit'
    BY <1>1 DEF AppInv, AppTypeOK, AdapterState, HostState, FlagsInv, CompletionInv,
       FinalizationInv, CleanExit, runtimeVars, Publish, Error, PublishLegal, Calls,
       EpochCalls, Startup, Prepared, Published, Ending
  <1> QED  BY <1>2, <1>3, <1>4, <1>5, <1>6, <1>7 DEF AppInv

\* update() of the Navigator follows a publication.
LEMMA NavigatePreserves == ASSUME AppInv, Navigate PROVE AppInv'
  <1>1. RuntimeTypeOK' /\ GatesFollowPhase' /\ Loadable(mission)' /\ UNCHANGED runtimeVars
    BY RuntimeUnchanged DEF AppInv, AppTypeOK, PhaseInv, Navigate
  <1>2. AppTypeOK'
    <2>1. host' \in HostState /\ calls' \in [navigator : Nat, adapter : Nat]
      BY DEF AppInv, AppTypeOK, AdapterState, HostState, Navigate
    <2> QED  BY <1>1, <2>1 DEF AppInv, AppTypeOK, Navigate, Error, Calls, EpochCalls
  <1>3. PhaseInv'
    BY <1>1 DEF AppInv, PhaseInv, runtimeVars, Navigate, Error, Calls, EpochCalls, Startup,
       Prepared, Published, Ending
  <1>4. FlagsInv'
    BY DEF AppInv, AppTypeOK, AdapterState, HostState, FlagsInv, Navigate, Error, Calls,
       EpochCalls, Startup, Prepared, Published, Ending
  <1>5. CompletionInv'
    BY <1>1 DEF AppInv, AppTypeOK, AdapterState, HostState, FlagsInv, CompletionInv,
       runtimeVars, Navigate, Error, Calls, EpochCalls, Startup, Prepared, Published, Ending
  <1>6. FinalizationInv'
    BY DEF AppInv, AppTypeOK, AdapterState, HostState, FlagsInv, FinalizationInv, Navigate,
       Error, Calls, EpochCalls, Startup, Prepared, Published, Ending
  <1>7. CleanExit'
    BY <1>1 DEF AppInv, AppTypeOK, AdapterState, HostState, FlagsInv, CompletionInv,
       FinalizationInv, CleanExit, runtimeVars, Navigate, Error, Calls, EpochCalls, Startup,
       Prepared, Published, Ending
  <1> QED  BY <1>2, <1>3, <1>4, <1>5, <1>6, <1>7 DEF AppInv

\* on_navigation_updated(), or the end of an epoch without it.
LEMMA AfterNavigationPreserves == ASSUME AppInv, AfterNavigation PROVE AppInv'
  <1>1. RuntimeTypeOK' /\ GatesFollowPhase' /\ Loadable(mission)' /\ UNCHANGED runtimeVars
    BY RuntimeUnchanged DEF AppInv, AppTypeOK, PhaseInv, AfterNavigation
  <1>2. AppTypeOK'
    <2>1. adapter' \in AdapterState
      BY DEF AppInv, AppTypeOK, AdapterState, HostState, AfterNavigation
    <2> QED  BY <1>1, <2>1 DEF AppInv, AppTypeOK, AfterNavigation, Error, Calls, EpochCalls
  <1>3. PhaseInv'
    BY <1>1 DEF AppInv, PhaseInv, runtimeVars, AfterNavigation, Error, AfterLegal, Calls,
       EpochCalls, Startup, Prepared, Published, Ending
  <1>4. FlagsInv'
    BY DEF AppInv, AppTypeOK, AdapterState, HostState, FlagsInv, AfterNavigation, Error,
       AfterLegal, Calls, EpochCalls, Startup, Prepared, Published, Ending
  <1>5. CompletionInv'
    BY <1>1 DEF AppInv, AppTypeOK, AdapterState, HostState, FlagsInv, CompletionInv,
       runtimeVars, AfterNavigation, Error, AfterLegal, Calls, EpochCalls, Startup, Prepared,
       Published, Ending
  <1>6. FinalizationInv'
    <2>1. UNCHANGED <<host, calls>>
      BY DEF AfterNavigation
    <2>2. CASE Error(4)
      BY <2>1, <2>2 DEF AppInv, FinalizationInv, AfterNavigation, Error, Calls, EpochCalls,
         Startup, Prepared, Published, Ending
    <2>3. CASE pc' = "loop" /\ UNCHANGED code
      BY <2>1, <2>3 DEF AppInv, AppTypeOK, AdapterState, HostState, FlagsInv,
         FinalizationInv, AfterNavigation, Calls, EpochCalls, Startup, Prepared, Published,
         Ending
    <2> QED  BY <2>2, <2>3 DEF AfterNavigation
  <1>7. CleanExit'
    BY <1>1 DEF AppInv, AppTypeOK, AdapterState, HostState, FlagsInv, CompletionInv,
       FinalizationInv, CleanExit, runtimeVars, AfterNavigation, Error, AfterLegal, Calls,
       EpochCalls, Startup, Prepared, Published, Ending
  <1> QED  BY <1>2, <1>3, <1>4, <1>5, <1>6, <1>7 DEF AppInv

\* The loop condition: an incomplete adapter is prepared again, a complete one finalized.
LEMMA LoopPreserves == ASSUME AppInv, Loop PROVE AppInv'
  <1>1. RuntimeTypeOK' /\ GatesFollowPhase' /\ Loadable(mission)' /\ UNCHANGED runtimeVars
    BY RuntimeUnchanged DEF AppInv, AppTypeOK, PhaseInv, Loop
  <1>2. AppTypeOK'
    <2>1. calls' \in [navigator : Nat, adapter : Nat]
      BY DEF AppInv, AppTypeOK, Loop
    <2>2. planned' \in Nat
      BY TimeAssumption DEF AppInv, AppTypeOK, Loop
    <2> QED  BY <1>1, <2>1, <2>2 DEF AppInv, AppTypeOK, Loop, Error, Calls, EpochCalls
  <1>3. PhaseInv'
    BY <1>1 DEF AppInv, PhaseInv, runtimeVars, Loop, Error, Calls, EpochCalls, Startup,
       Prepared, Published, Ending
  <1>4. FlagsInv'
    BY DEF AppInv, AppTypeOK, AdapterState, HostState, FlagsInv, Loop, Error, Calls,
       EpochCalls, Startup, Prepared, Published, Ending
  <1>5. CompletionInv'
    BY <1>1 DEF AppInv, AppTypeOK, AdapterState, HostState, FlagsInv, CompletionInv,
       runtimeVars, Loop, Error, Calls, EpochCalls, Startup, Prepared, Published, Ending
  <1>6. FinalizationInv'
    BY DEF AppInv, AppTypeOK, AdapterState, HostState, FlagsInv, FinalizationInv, Loop,
       Error, Calls, EpochCalls, Startup, Prepared, Published, Ending
  <1>7. CleanExit'
    BY <1>1 DEF AppInv, AppTypeOK, AdapterState, HostState, FlagsInv, CompletionInv,
       FinalizationInv, CleanExit, runtimeVars, Loop, Error, Calls, EpochCalls, Startup,
       Prepared, Published, Ending
  <1> QED  BY <1>2, <1>3, <1>4, <1>5, <1>6, <1>7 DEF AppInv

\* The adapter is finalized after the Navigator, once.
LEMMA FinalizeAdapterPreserves == ASSUME AppInv, FinalizeAdapter PROVE AppInv'
  <1>1. RuntimeTypeOK' /\ GatesFollowPhase' /\ Loadable(mission)' /\ UNCHANGED runtimeVars
    BY RuntimeUnchanged DEF AppInv, AppTypeOK, PhaseInv, FinalizeAdapter
  <1>2. AppTypeOK'
    <2>1. adapter' \in AdapterState /\ calls' \in [navigator : Nat, adapter : Nat]
      BY FinalizeTypes DEF AppInv, AppTypeOK, FinalizeAdapter
    <2>2. host' \in HostState
      BY DEF AppInv, AppTypeOK, HostState, FinalizeAdapter
    <2> QED  BY <1>1, <2>1, <2>2 DEF AppInv, AppTypeOK, FinalizeAdapter, Error, Calls, EpochCalls
  <1>3. PhaseInv'
    BY <1>1 DEF AppInv, PhaseInv, runtimeVars, FinalizeAdapter, Error, AdapterFinalize,
       FinalizeLegal, Calls, EpochCalls, Startup, Prepared, Published, Ending
  <1>4. FlagsInv'
    BY DEF AppInv, AppTypeOK, AdapterState, HostState, FlagsInv, FinalizeAdapter, Error,
       AdapterFinalize, FinalizeLegal, Calls, EpochCalls, Startup, Prepared, Published,
       Ending
  <1>5. CompletionInv'
    BY <1>1 DEF AppInv, AppTypeOK, AdapterState, HostState, FlagsInv, CompletionInv,
       runtimeVars, FinalizeAdapter, Error, AdapterFinalize, FinalizeLegal, Calls,
       EpochCalls, Startup, Prepared, Published, Ending
  <1>6. FinalizationInv'
    BY DEF AppInv, AppTypeOK, AdapterState, HostState, FlagsInv, FinalizationInv,
       FinalizeAdapter, Error, AdapterFinalize, FinalizeLegal, Calls, EpochCalls, Startup,
       Prepared, Published, Ending
  <1>7. CleanExit'
    BY <1>1 DEF AppInv, AppTypeOK, AdapterState, HostState, FlagsInv, CompletionInv,
       FinalizationInv, CleanExit, runtimeVars, FinalizeAdapter, Error, AdapterFinalize,
       FinalizeLegal, Calls, EpochCalls, Startup, Prepared, Published, Ending
  <1> QED  BY <1>2, <1>3, <1>4, <1>5, <1>6, <1>7 DEF AppInv

\* The logger is closed last, and only then is 0 returned.
LEMMA CloseLoggerPreserves == ASSUME AppInv, CloseLogger PROVE AppInv'
  <1>1. RuntimeTypeOK' /\ GatesFollowPhase' /\ Loadable(mission)' /\ UNCHANGED runtimeVars
    BY RuntimeUnchanged DEF AppInv, AppTypeOK, PhaseInv, CloseLogger
  <1>2. AppTypeOK'
    <2>1. host' \in HostState
      BY DEF AppInv, AppTypeOK, AdapterState, HostState, CloseLogger
    <2> QED  BY <1>1, <2>1 DEF AppInv, AppTypeOK, CloseLogger, Calls, EpochCalls
  <1>3. PhaseInv'
    BY <1>1 DEF AppInv, PhaseInv, runtimeVars, CloseLogger, Calls, EpochCalls, Startup,
       Prepared, Published, Ending
  <1>4. FlagsInv'
    BY DEF AppInv, AppTypeOK, AdapterState, HostState, FlagsInv, CloseLogger, Calls,
       EpochCalls, Startup, Prepared, Published, Ending
  <1>5. CompletionInv'
    BY <1>1 DEF AppInv, AppTypeOK, AdapterState, HostState, FlagsInv, CompletionInv,
       runtimeVars, CloseLogger, Calls, EpochCalls, Startup, Prepared, Published, Ending
  <1>6. FinalizationInv'
    BY DEF AppInv, AppTypeOK, AdapterState, HostState, FlagsInv, FinalizationInv,
       CloseLogger, Calls, EpochCalls, Startup, Prepared, Published, Ending
  <1>7. CleanExit'
    BY <1>1 DEF AppInv, AppTypeOK, AdapterState, HostState, FlagsInv, CompletionInv,
       FinalizationInv, CleanExit, runtimeVars, CloseLogger, Calls, EpochCalls, Startup,
       Prepared, Published, Ending
  <1> QED  BY <1>2, <1>3, <1>4, <1>5, <1>6, <1>7 DEF AppInv
-----------------------------------------------------------------------------
(* The calls that change the source or the phase. *)

\* Advancing a source and reading its phase keep its type.
LEMMA SourceTypes ==
    ASSUME NEW s \in SourceState, NEW t \in Nat
    PROVE  Advanced(s, t) \subseteq SourceState /\ Reporting(s) \subseteq SourceState
  <1>1. ASSUME NEW d \in Nat \ {0} PROVE CeilTo(t, d) \in Nat
    BY <1>1 DEF CeilTo
  <1>2. CeilTo(t, Dynamics) \in Nat
    BY <1>1, TimeAssumption
  <1>3. ASSUME NEW y \in Advanced(s, t) PROVE y \in SourceState
    <2> DEFINE last == IF s.config.kind = "generated" /\ s.last < t
                       THEN CeilTo(t, Dynamics) ELSE s.last
    <2>1. last \in Nat /\ s.last \in Nat /\ CompleteAt(s, t) \in BOOLEAN
      <3>1. last \in Nat /\ s.last \in Nat
        BY <1>2 DEF SourceState
      <3>2. CompleteAt(s, t) \in BOOLEAN
        <4>1. (t = s.tEnd) \in BOOLEAN
          OBVIOUS
        <4>2. \A a, b \in Int : (a >= b) \in BOOLEAN
          BY SMT
        <4>3. t * Fine \in Int /\ s.config.duration \in Int
          BY TimeAssumption DEF SourceState, SourceConfig
        <4> QED  BY <4>1, <4>2, <4>3, Zenon DEF CompleteAt
      <3> QED  BY <3>1, <3>2
    <2>2. \/ y = [s EXCEPT !.available = t, !.last = last, !.complete = CompleteAt(s, t)]
          \/ \E x \in (s.last + 1)..last :
                y = [s EXCEPT !.available = x, !.last = x, !.tEnd = x, !.complete = TRUE]
      BY <1>3 DEF Advanced
    <2> HIDE DEF last
    <2>3. \A x \in (s.last + 1)..last : x \in Nat
      BY <2>1
    <2> QED  BY <2>1, <2>2, <2>3 DEF SourceState
  <1>4. Reporting(s) \subseteq SourceState
    BY DEF Reporting, SourceState
  <1> QED  BY <1>3, <1>4

\* What the source reports of phase and completion has its type.
LEMMA ReportedTypes ==
    ASSUME NEW s \in SourceState, NEW t \in Nat
    PROVE  UNION {Reporting(x) : x \in Advanced(s, t)} \subseteq SourceState
  <1>1. ASSUME NEW x \in Advanced(s, t) PROVE Reporting(x) \subseteq SourceState
    BY <1>1, SourceTypes
  <1> QED  BY <1>1

\* initialize() of the adapter, with all its early returns.
LEMMA InitializeAdapterPreserves == ASSUME AppInv, InitializeAdapter PROVE AppInv'
  <1>1. RuntimeTypeOK' /\ GatesFollowPhase' /\ Loadable(mission)' /\ UNCHANGED <<mission, active, ok>>
    <2>1. /\ mission \in RawMission /\ Loadable(mission) /\ active = None /\ RuntimeTypeOK
          /\ UNCHANGED <<mission, active, ok>>
      BY DEF AppInv, AppTypeOK, RuntimeTypeOK, PhaseInv, InitializeAdapter
    <2>2. gate' = gate \/ gate' = BaselineGates(mission)
      BY DEF InitializeAdapter
    <2>3. RuntimeTypeOK'
      BY <2>1, <2>2, BaselineType DEF RuntimeTypeOK
    <2> QED  BY <2>1, <2>3 DEF GatesFollowPhase
  <1>2. AppTypeOK'
    <2>1. source' \in SourceState
      BY ReportedTypes, SourceTypes DEF AppInv, AppTypeOK, InitializeAdapter
    <2>2. adapter' \in AdapterState
      BY DEF AppInv, AppTypeOK, AdapterState, InitializeAdapter
    <2> QED  BY <1>1, <2>1, <2>2 DEF AppInv, AppTypeOK, InitializeAdapter, Error, Calls, EpochCalls
  <1>3. PhaseInv'
    BY <1>1 DEF AppInv, PhaseInv, InitializeAdapter, Error, Calls, EpochCalls, Startup,
       Prepared, Published, Ending
  <1>4. FlagsInv'
    BY DEF AppInv, AppTypeOK, SourceState, AdapterState, FlagsInv, InitializeAdapter, Error,
       Calls, EpochCalls, Startup, Prepared, Published, Ending
  <1>5. CompletionInv'
    BY <1>1 DEF AppInv, AppTypeOK, SourceState, AdapterState, FlagsInv, CompletionInv,
       InitializeAdapter, Error, Calls, EpochCalls, Startup, Prepared, Published, Ending
  <1>6. FinalizationInv'
    <2>1. UNCHANGED <<host, calls>> /\ adapter'.finalized = adapter.finalized
      BY DEF AppInv, AppTypeOK, AdapterState, InitializeAdapter
    <2>2. \/ pc' = "firstPhase" /\ code' = code
          \/ pc' = "cleanup" /\ code' \in {2, 3}
      BY DEF InitializeAdapter, Error
    <2>3. pc \in {"initialize", "prepare"}
      BY DEF InitializeAdapter
    <2> QED  BY <2>1, <2>2, <2>3 DEF AppInv, AppTypeOK, HostState, FinalizationInv, Calls,
                                     EpochCalls, Startup, Prepared, Published, Ending
  <1>7. CleanExit'
    BY <1>1 DEF AppInv, AppTypeOK, CleanExit, InitializeAdapter, Error, Calls, EpochCalls,
       Startup, Prepared, Published, Ending
  <1> QED  BY <1>2, <1>3, <1>4, <1>5, <1>6, <1>7 DEF AppInv

\* The first phase and its gates are applied before the first epoch.
LEMMA InitialPhasePreserves == ASSUME AppInv, InitialPhase PROVE AppInv'
  <1>1. RuntimeTypeOK' /\ GatesFollowPhase' /\ Loadable(mission)' /\ mission' = mission
    <2>1. adapter.diagnostics /\ source.phase \in Phases /\ RuntimeTypeOK /\ Loadable(mission)
      BY DEF AppInv, AppTypeOK, SourceState, FlagsInv, PhaseInv, InitialPhase, Calls
    <2> QED  BY <2>1, InitializeEffect DEF InitialPhase
  <1>2. AppTypeOK'
    BY <1>1 DEF AppInv, AppTypeOK, InitialPhase, Error, Calls, EpochCalls
  <1>3. PhaseInv'
    BY <1>1 DEF AppInv, PhaseInv, InitialPhase, Error, Calls, EpochCalls, Startup, Prepared,
       Published, Ending
  <1>4. FlagsInv'
    BY DEF AppInv, AppTypeOK, SourceState, AdapterState, FlagsInv, InitialPhase, Error,
       Calls, EpochCalls, Startup, Prepared, Published, Ending
  <1>5. CompletionInv'
    BY <1>1 DEF AppInv, AppTypeOK, SourceState, AdapterState, FlagsInv, CompletionInv,
       InitialPhase, Error, Calls, EpochCalls, Startup, Prepared, Published, Ending
  <1>6. FinalizationInv'
    BY DEF AppInv, AppTypeOK, AdapterState, HostState, FlagsInv, FinalizationInv,
       InitialPhase, Error, Calls, EpochCalls, Startup, Prepared, Published, Ending
  <1>7. CleanExit'
    BY <1>1 DEF AppInv, AppTypeOK, CleanExit, InitialPhase, Error, Calls, EpochCalls,
       Startup, Prepared, Published, Ending
  <1> QED  BY <1>2, <1>3, <1>4, <1>5, <1>6, <1>7 DEF AppInv

\* prepare_epoch(): the clipped deadline, the source's advance and its report.
LEMMA PreparePreserves == ASSUME AppInv, Prepare PROVE AppInv'
  <1>1. RuntimeTypeOK' /\ GatesFollowPhase' /\ Loadable(mission)' /\ UNCHANGED runtimeVars
    BY RuntimeUnchanged DEF AppInv, AppTypeOK, PhaseInv, Prepare
  <1>2. AppTypeOK'
    <2>1. Lesser(planned, source.tEnd) \in Nat
      BY DEF AppInv, AppTypeOK, SourceState, Lesser
    <2>2. Ready(Lesser(planned, source.tEnd)) \subseteq SourceState
      BY <2>1, ReportedTypes DEF AppInv, AppTypeOK, Ready
    <2>3. source' \in SourceState
      BY <2>2 DEF AppInv, AppTypeOK, Prepare
    <2>4. deadline' \in Nat
      BY <2>1, <2>3 DEF AppInv, AppTypeOK, SourceState, Prepare, Lesser
    <2>5. adapter' \in AdapterState
      <3> DEFINE terminal == source'.complete /\ deadline' = source'.tEnd
      <3>1. terminal \in BOOLEAN
        OBVIOUS
      <3>2. \/ adapter' = adapter
            \/ adapter' = [adapter EXCEPT !.prepared = TRUE, !.preparedTime = deadline',
                                          !.terminal = terminal]
        BY DEF Prepare
      <3> HIDE DEF terminal
      <3> QED  BY <2>4, <3>1, <3>2 DEF AppInv, AppTypeOK, AdapterState
    <2> QED  BY <1>1, <2>3, <2>4, <2>5 DEF AppInv, AppTypeOK, Prepare, Error, Calls, EpochCalls
  <1>3. PhaseInv'
    BY <1>1 DEF AppInv, PhaseInv, runtimeVars, Prepare, Error, Calls, EpochCalls, Startup,
       Prepared, Published, Ending
  <1>4. FlagsInv'
    BY DEF AppInv, AppTypeOK, SourceState, AdapterState, FlagsInv, Prepare, Error,
       PrepareLegal, runtimeVars, Calls, EpochCalls, Startup, Prepared, Published, Ending
  <1>5. CompletionInv'
    BY <1>1 DEF AppInv, AppTypeOK, SourceState, AdapterState, FlagsInv, CompletionInv,
       Prepare, Error, PrepareLegal, runtimeVars, Calls, EpochCalls, Startup, Prepared,
       Published, Ending
  <1>6. FinalizationInv'
    <2>1. UNCHANGED <<host, calls>> /\ adapter'.finalized = adapter.finalized
      BY DEF AppInv, AppTypeOK, AdapterState, Prepare
    <2>2. \/ pc' = "wait" /\ code' = code
          \/ pc' = "cleanup" /\ code' \in {2, 3}
      BY DEF Prepare, Error
    <2>3. pc \in {"initialize", "prepare"}
      BY DEF Prepare
    <2> QED  BY <2>1, <2>2, <2>3 DEF AppInv, AppTypeOK, HostState, FinalizationInv, Calls,
                                     EpochCalls, Startup, Prepared, Published, Ending
  <1>7. CleanExit'
    BY <1>1 DEF AppInv, AppTypeOK, CleanExit, Prepare, Error, PrepareLegal, runtimeVars,
       Calls, EpochCalls, Startup, Prepared, Published, Ending
  <1> QED  BY <1>2, <1>3, <1>4, <1>5, <1>6, <1>7 DEF AppInv

\* synchronize() puts the reported phase and its gates in force, or ends the run.
LEMMA SyncPreserves == ASSUME AppInv, Sync PROVE AppInv'
  <1>1. /\ RuntimeTypeOK' /\ GatesFollowPhase' /\ Loadable(mission)' /\ mission' = mission
        /\ ok' => active' = source.phase
    <2>1. /\ adapter.diagnostics /\ source.phase \in Phases /\ ok
          /\ RuntimeTypeOK /\ GatesFollowPhase /\ Loadable(mission)
      BY DEF AppInv, AppTypeOK, SourceState, FlagsInv, PhaseInv, Sync, Calls, EpochCalls
    <2>2. Synchronize(source.phase)
      BY <2>1 DEF Sync
    <2>3. ok' => active' = source.phase
      BY <2>2 DEF Synchronize, Commit, Reject
    <2> QED  BY <2>1, <2>2, <2>3, SynchronizeEffect
  <1>2. AppTypeOK'
    BY <1>1 DEF AppInv, AppTypeOK, Sync, Error, Calls, EpochCalls
  <1>3. PhaseInv'
    BY <1>1 DEF AppInv, PhaseInv, Sync, Error, Calls, EpochCalls, Startup, Prepared,
       Published, Ending
  <1>4. FlagsInv'
    BY DEF AppInv, AppTypeOK, SourceState, AdapterState, FlagsInv, Sync, Error, Calls,
       EpochCalls, Startup, Prepared, Published, Ending
  <1>5. CompletionInv'
    BY <1>1 DEF AppInv, AppTypeOK, SourceState, AdapterState, FlagsInv, CompletionInv, Sync,
       Error, Calls, EpochCalls, Startup, Prepared, Published, Ending
  <1>6. FinalizationInv'
    BY DEF AppInv, AppTypeOK, AdapterState, HostState, FlagsInv, FinalizationInv, Sync,
       Error, Calls, EpochCalls, Startup, Prepared, Published, Ending
  <1>7. CleanExit'
    BY <1>1 DEF AppInv, AppTypeOK, CleanExit, Sync, Error, Calls, EpochCalls, Startup,
       Prepared, Published, Ending
  <1> QED  BY <1>2, <1>3, <1>4, <1>5, <1>6, <1>7 DEF AppInv

-----------------------------------------------------------------------------
(* The invariant holds throughout. *)

\* The host starts with nothing initialized.
LEMMA AppInit_Inv == AppInit => AppInv
  <1> SUFFICES ASSUME AppInit PROVE AppInv
    OBVIOUS
  <1>1. mission \in RawMission /\ Loadable(mission) /\ active = None /\ ok = TRUE
    BY MissionAssumption DEF AppInit
  <1>2. RuntimeTypeOK
    BY <1>1 DEF AppInit, FreshGates, RuntimeTypeOK, InnovationGates, MaybeProbability
  <1>3. source \in SourceState
    <2>1. PICK c \in Sources, p \in Phases : source = NewSource(c, p)
      BY DEF AppInit
    <2>2. c \in SourceConfig /\ c.duration \in Nat
      BY SourceAssumption DEF SourceConfig
    <2>3. EndOf(c) \in Nat
      BY <2>2, TimeAssumption DEF EndOf
    <2> QED  BY <2>1, <2>2, <2>3 DEF NewSource, SourceState
  <1>4. AppTypeOK
    BY <1>2, <1>3 DEF AppInit, AppTypeOK, AdapterState, HostState, NewAdapter, Calls
  <1>5. PhaseInv
    BY <1>1 DEF AppInit, PhaseInv, GatesFollowPhase
  <1>6. FlagsInv /\ CompletionInv
    BY DEF AppInit, NewAdapter, FlagsInv, CompletionInv, Calls, EpochCalls, Startup,
       Prepared, Published, Ending
  <1>7. FinalizationInv /\ CleanExit
    BY DEF AppInit, NewAdapter, FinalizationInv, CleanExit, Calls, EpochCalls, Startup,
       Prepared, Published, Ending
  <1> QED  BY <1>4, <1>5, <1>6, <1>7 DEF AppInv

\* The invariant is about the mission's variables only.
LEMMA AppStutter_Inv == ASSUME AppInv, UNCHANGED missionVars PROVE AppInv'
  <1>1. UNCHANGED runtimeVars /\ UNCHANGED appVars
    BY DEF missionVars
  <1>2. RuntimeTypeOK' /\ GatesFollowPhase' /\ Loadable(mission)'
    BY <1>1, RuntimeUnchanged DEF AppInv, AppTypeOK, PhaseInv
  <1> QED
    BY <1>1, <1>2 DEF AppInv, AppTypeOK, PhaseInv, FlagsInv, CompletionInv, FinalizationInv,
                      CleanExit, runtimeVars, appVars

\* Every call of the host keeps the invariant.
LEMMA AppStep_Inv == AppInv /\ [AppNext]_missionVars => AppInv'
  BY InitializeAdapterPreserves, InitialPhasePreserves, StartClockPreserves, PreparePreserves,
     WaitPreserves, SyncPreserves, PublishPreserves, NavigatePreserves, AfterNavigationPreserves,
     LoopPreserves, FinalizeAdapterPreserves, CloseLoggerPreserves, CleanupPreserves,
     ThrowPreserves, AppStutter_Inv
  DEF AppNext

\* Whatever fails or throws, run() finds its flags, phase and completion as its next call expects.
THEOREM AppInvariant == AppSpec => []AppInv
  BY AppInit_Inv, AppStep_Inv, PTL DEF AppSpec

-----------------------------------------------------------------------------
(* What the invariant gives. *)

\* The variables of the host, the adapter, the source and the phase owner keep
\* their types.
THEOREM AppTypeCorrect == AppSpec => []AppTypeOK
  <1>1. AppInv => AppTypeOK
    BY DEF AppInv
  <1> QED  BY <1>1, AppInvariant, PTL

\* Whatever epochs, early ends and failures came before, the host makes no call
\* that SwilMissionAdapter's lifecycle guards reject.
THEOREM HostRespectsLifecycle == AppSpec => []LifecycleRespected
  <1>1. AppInv => LifecycleRespected
    BY DEF AppInv, FlagsInv, FinalizationInv, LifecycleRespected, PrepareLegal, PublishLegal,
           AfterLegal, FinalizeLegal, Calls, EpochCalls, Startup, Prepared, Published, Ending
  <1> QED  BY <1>1, AppInvariant, PTL

\* The Navigator and the adapter are finalized at most once on every path
\* through run(), the adapter exactly once unless an exception left it.
THEOREM NothingFinalizedTwice == AppSpec => []FinalizedOnce
  <1>1. AppInv => FinalizedOnce
    BY DEF AppInv, FinalizationInv, FinalizedOnce
  <1> QED  BY <1>1, AppInvariant, PTL

\* run() returns 0 only after the terminal epoch was published at the source's
\* end in a terminal phase and everything was finalized and closed.
THEOREM ExitZeroIsComplete == AppSpec => []CleanExit
  <1>1. AppInv => CleanExit
    BY DEF AppInv
  <1> QED  BY <1>1, AppInvariant, PTL

\* Nothing is published before the prepared epoch's phase is in force.
THEOREM PhasePrecedesPublication == AppSpec => []PublishedInItsPhase
  <1>1. AppInv => PublishedInItsPhase
    BY DEF AppInv, PhaseInv, PublishedInItsPhase
  <1> QED  BY <1>1, AppInvariant, PTL

-----------------------------------------------------------------------------
(* The host implements the contract of MissionAdapter. *)

\* Where the adapter stands, read off the host's next call.
LEMMA StageOfCall ==
    ASSUME AppInv
    PROVE  /\ pc = "initialize" => Stage = "created"
           /\ pc \in {"firstPhase", "clock", "prepare", "loop", "finalizeAdapter"} => Stage = "ready"
           /\ pc \in {"wait", "sync", "publish"} => Stage = "prepared"
           /\ pc \in {"navigate", "after"} => Stage = "published"
           /\ pc = "close" => Stage = "finalized"
           /\ pc \in {"cleanup", "exited"} =>
                 Stage = IF host.finalizationAttempted THEN "finalized" ELSE "abandoned"
  BY DEF AppInv, FlagsInv, FinalizationInv, Stage, Calls, EpochCalls, Startup, Prepared,
     Published, Ending

\* Where the host stands after a call, for the refinement's case distinction.
LEMMA StageAfterCall ==
    ASSUME AppInv'
    PROVE  /\ pc' = "initialize" => Stage' = "created"
           /\ pc' \in {"firstPhase", "clock", "prepare", "loop", "finalizeAdapter"} => Stage' = "ready"
           /\ pc' \in {"wait", "sync", "publish"} => Stage' = "prepared"
           /\ pc' \in {"navigate", "after"} => Stage' = "published"
           /\ pc' = "close" => Stage' = "finalized"
           /\ pc' \in {"cleanup", "exited"} =>
                 Stage' = IF host'.finalizationAttempted THEN "finalized" ELSE "abandoned"
  BY DEF AppInv, FlagsInv, FinalizationInv, Stage, Calls, EpochCalls, Startup, Prepared,
     Published, Ending

\* A call that fails or throws gives the adapter up.
LEMMA ErrorGivesUp ==
    ASSUME AppInv, AppInv', pc \in Calls \ {"close"}, pc' \in {"cleanup", "exited"},
           host' = host, UNCHANGED <<deadline, clock>>
    PROVE  Contract!GiveUp
  <1>1. Stage \notin {"abandoned", "finalized"}
    BY StageOfCall DEF Calls, EpochCalls
  <1>2. ~host.finalizationAttempted
    BY DEF AppInv, FinalizationInv
  <1>3. Stage' = "abandoned"
    BY <1>2 DEF Stage
  <1> QED  BY <1>1, <1>3 DEF Contract!GiveUp

\* Every call of the host is a step of the contract or none.
LEMMA CallIsContractStep ==
    ASSUME AppInv, AppInv', AppNext
    PROVE  Contract!ContractNext \/ UNCHANGED Contract!contractVars
  <1>1. CASE InitializeAdapter
    <2>1. CASE pc' = "firstPhase"
      <3>1. Stage = "created" /\ Stage' = "ready"
        BY <1>1, <2>1, StageOfCall, StageAfterCall DEF InitializeAdapter
      <3>2. UNCHANGED <<deadline, clock>>
        BY <1>1, <2>1 DEF InitializeAdapter, Error
      <3> QED  BY <3>1, <3>2 DEF Contract!ContractNext, Contract!InitializeOnce
    <2>2. CASE pc' # "firstPhase"
      BY <1>1, <2>2, ErrorGivesUp DEF InitializeAdapter, Error, Contract!ContractNext, Calls,
         EpochCalls
    <2> QED  BY <2>1, <2>2
  <1>2. CASE InitialPhase
    <2>1. CASE pc' = "clock"
      <3>1. Stage = "ready" /\ Stage' = "ready"
        BY <1>2, <2>1, StageOfCall, StageAfterCall DEF InitialPhase
      <3>2. UNCHANGED <<deadline, clock>>
        BY <1>2, <2>1 DEF InitialPhase, Error
      <3> QED  BY <3>1, <3>2 DEF Contract!contractVars
    <2>2. CASE pc' # "clock"
      BY <1>2, <2>2, ErrorGivesUp DEF InitialPhase, Error, Contract!ContractNext, Calls,
         EpochCalls
    <2> QED  BY <2>1, <2>2
  <1>3. CASE StartClock
    <2>1. CASE pc' = "prepare"
      <3>1. Stage = "ready" /\ Stage' = "ready"
        BY <1>3, <2>1, StageOfCall, StageAfterCall DEF StartClock
      <3>2. UNCHANGED <<deadline, clock>>
        BY <1>3, <2>1 DEF StartClock, Error, AppInv, FlagsInv, Startup
      <3> QED  BY <3>1, <3>2 DEF Contract!contractVars
    <2>2. CASE pc' # "prepare"
      BY <1>3, <2>2, ErrorGivesUp DEF StartClock, Error, Contract!ContractNext, Calls,
         EpochCalls
    <2> QED  BY <2>1, <2>2
  <1>4. CASE Prepare
    <2>1. CASE pc' = "wait"
      <3>1. Stage = "ready" /\ Stage' = "prepared"
        BY <1>4, <2>1, StageOfCall, StageAfterCall DEF Prepare
      <3>2. deadline' \in Nat /\ UNCHANGED clock
        BY <1>4, <2>1 DEF Prepare, Error, AppInv, AppTypeOK
      <3> QED  BY <3>1, <3>2 DEF Contract!ContractNext, Contract!PrepareEpoch
    <2>2. CASE pc' # "wait"
      BY <1>4, <2>2, ErrorGivesUp DEF Prepare, Error, Contract!ContractNext, Calls, EpochCalls
    <2> QED  BY <2>1, <2>2
  <1>5. CASE Wait
    <2>1. CASE pc' = "sync"
      <3>1. Stage = "prepared" /\ Stage' = "prepared"
        BY <1>5, <2>1, StageOfCall, StageAfterCall DEF Wait
      <3>2. clock <= clock' /\ clock' = deadline /\ UNCHANGED deadline
        BY <1>5, <2>1 DEF Wait, Error, AppInv, AppTypeOK
      <3> QED  BY <3>1, <3>2 DEF Contract!ContractNext, Contract!ReachDeadline
    <2>2. CASE pc' # "sync"
      BY <1>5, <2>2, ErrorGivesUp DEF Wait, Error, Contract!ContractNext, Calls, EpochCalls
    <2> QED  BY <2>1, <2>2
  <1>6. CASE Sync
    <2>1. CASE pc' = "publish"
      <3>1. Stage = "prepared" /\ Stage' = "prepared"
        BY <1>6, <2>1, StageOfCall, StageAfterCall DEF Sync
      <3>2. UNCHANGED <<deadline, clock>>
        BY <1>6, <2>1 DEF Sync, Error
      <3> QED  BY <3>1, <3>2 DEF Contract!contractVars
    <2>2. CASE pc' # "publish"
      BY <1>6, <2>2, ErrorGivesUp DEF Sync, Error, Contract!ContractNext, Calls, EpochCalls
    <2> QED  BY <2>1, <2>2
  <1>7. CASE Publish
    <2>1. CASE pc' = "navigate"
      <3>1. Stage = "prepared" /\ Stage' = "published"
        BY <1>7, <2>1, StageOfCall, StageAfterCall DEF Publish
      <3>2. clock = deadline /\ UNCHANGED <<deadline, clock>>
        BY <1>7, <2>1 DEF Publish, Error, AppInv, CompletionInv, Prepared
      <3> QED  BY <3>1, <3>2 DEF Contract!ContractNext, Contract!PublishEpoch
    <2>2. CASE pc' # "navigate"
      BY <1>7, <2>2, ErrorGivesUp DEF Publish, Error, Contract!ContractNext, Calls, EpochCalls
    <2> QED  BY <2>1, <2>2
  <1>8. CASE Navigate
    <2>1. CASE pc' = "after"
      <3>1. Stage = "published" /\ Stage' = "published"
        BY <1>8, <2>1, StageOfCall, StageAfterCall DEF Navigate
      <3>2. UNCHANGED <<deadline, clock>>
        BY <1>8, <2>1 DEF Navigate, Error
      <3> QED  BY <3>1, <3>2 DEF Contract!contractVars
    <2>2. CASE pc' # "after"
      BY <1>8, <2>2, ErrorGivesUp DEF Navigate, Error, Contract!ContractNext, Calls, EpochCalls
    <2> QED  BY <2>1, <2>2
  <1>9. CASE AfterNavigation
    <2>1. CASE pc' = "loop"
      <3>1. Stage = "published" /\ Stage' = "ready"
        BY <1>9, <2>1, StageOfCall, StageAfterCall DEF AfterNavigation
      <3>2. UNCHANGED <<deadline, clock>>
        BY <1>9, <2>1 DEF AfterNavigation, Error
      <3> QED  BY <3>1, <3>2 DEF Contract!ContractNext, Contract!FeedBack
    <2>2. CASE pc' # "loop"
      BY <1>9, <2>2, ErrorGivesUp DEF AfterNavigation, Error, Contract!ContractNext, Calls,
         EpochCalls
    <2> QED  BY <2>1, <2>2
  <1>10. CASE Loop
    <2>1. CASE pc' \in {"prepare", "finalizeAdapter"}
      <3>1. Stage = "ready" /\ Stage' = "ready" /\ UNCHANGED <<deadline, clock>>
        BY <1>10, <2>1, StageOfCall, StageAfterCall DEF Loop
      <3> QED  BY <3>1 DEF Contract!contractVars
    <2>2. CASE pc' \notin {"prepare", "finalizeAdapter"}
      BY <1>10, <2>2, ErrorGivesUp DEF Loop, Error, Contract!ContractNext, Calls
    <2> QED  BY <2>1, <2>2
  <1>11. CASE FinalizeAdapter
    <2>1. Stage = "ready" /\ UNCHANGED <<deadline, clock>>
      BY <1>11, StageOfCall DEF FinalizeAdapter
    <2>2. Stage' = "finalized"
      BY <1>11 DEF FinalizeAdapter, Stage, AppInv, AppTypeOK, HostState
    <2> QED  BY <2>1, <2>2 DEF Contract!ContractNext, Contract!FinalizeOnce
  <1>12. CASE CloseLogger
    <2>1. Stage = "finalized" /\ UNCHANGED <<deadline, clock>>
      BY <1>12, StageOfCall DEF CloseLogger
    <2>2. Stage' = "finalized"
      BY <1>12 DEF CloseLogger, Stage, AppInv, AppTypeOK, HostState, FinalizationInv, Calls
    <2> QED  BY <2>1, <2>2 DEF Contract!contractVars
  <1>13. CASE Cleanup
    <2>1. Stage' = "finalized" /\ UNCHANGED <<deadline, clock>>
      BY <1>13 DEF Cleanup, Stage, AppInv, AppTypeOK, HostState
    <2> QED  BY <2>1 DEF Contract!ContractNext, Contract!FinalizeOnce, Contract!contractVars
  <1>14. CASE Throw
    <2>1. CASE pc = "close"
      <3>1. Stage = "finalized" /\ Stage' = "finalized" /\ UNCHANGED <<deadline, clock>>
        BY <1>14, <2>1, StageOfCall DEF Throw, Stage, AppInv, FinalizationInv, Calls
      <3> QED  BY <3>1 DEF Contract!contractVars
    <2>2. CASE pc # "close"
      BY <1>14, <2>2, ErrorGivesUp DEF Throw, Contract!ContractNext
    <2> QED  BY <2>1, <2>2
  <1> QED
    BY <1>1, <1>2, <1>3, <1>4, <1>5, <1>6, <1>7, <1>8, <1>9, <1>10, <1>11, <1>12, <1>13, <1>14
    DEF AppNext

\* MissionApp::run() calls every adapter in the order, and at the times, that
\* MissionAdapter promises to its implementations.
THEOREM HostKeepsContract == AppSpec => AdapterContractKept
  <1>1. AppInit => Contract!ContractInit
    BY DEF AppInit, NewAdapter, Contract!ContractInit, Stage
  <1>2. AppInv /\ AppInv' /\ [AppNext]_missionVars => [Contract!ContractNext]_(Contract!contractVars)
    <2>1. ASSUME UNCHANGED missionVars PROVE UNCHANGED Contract!contractVars
      BY <2>1 DEF missionVars, appVars, Contract!contractVars, Stage
    <2> QED  BY <2>1, CallIsContractStep
  <1> QED  BY <1>1, <1>2, AppInvariant, PTL DEF AppSpec, AdapterContractKept, Contract!ContractSpec

-----------------------------------------------------------------------------
(* Every epoch is later than the one before, provided that a source which   *)
(* reaches its last timestamp is complete: a stationary source whose         *)
(* duration was rounded down to that timestamp never is.                     *)

EndsReached == \A c \in Sources : c.kind = "stationary" => EndOf(c) * Fine >= c.duration

\* The source's configuration and end are those of the mission, its samples reach
\* the prepared time, and its end is not reached unnoticed.
SourceInv ==
    /\ source.config \in Sources
    /\ source.config.kind = "stationary" => source.tEnd = EndOf(source.config)
    /\ source.config.kind = "generated" => adapter.preparedTime <= source.last
    /\ pc = "initialize" => source.last = 0
    /\ SourceCompleteAtEnd

\* Where the prepared time stands against the timeline and the end.
PaceInv ==
    /\ pc \in Startup => planned = 0 /\ adapter.preparedTime = 0
    /\ pc \in {"firstPhase", "clock"} => adapter.initialEpoch
    /\ pc \in {"firstPhase", "clock", "prepare"} /\ adapter.initialEpoch =>
          source.available = 0 /\ adapter.preparedTime = 0
    /\ pc = "prepare" /\ ~adapter.initialEpoch =>
          adapter.preparedTime < planned /\ adapter.preparedTime < source.tEnd
    /\ pc \in Prepared \cup {"loop"} =>
          /\ adapter.preparedTime <= planned /\ adapter.preparedTime <= source.tEnd
          /\ adapter.preparedTime = source.tEnd => adapter.terminal
    /\ pc \in {"navigate", "after", "loop"} => adapter.completion = adapter.terminal
    /\ pc = "loop" => ~adapter.initialEpoch

\* Rounding up to a multiple never goes back.
LEMMA CeilToReaches == ASSUME NEW t \in Nat, NEW d \in Nat \ {0} PROVE CeilTo(t, d) \in Nat /\ t <= CeilTo(t, d)
  <1> DEFINE n == t + d - 1
             q == n \div d
  <1>1. n \in Nat /\ q \in Nat /\ n % d \in 0..(d - 1) /\ n = d * q + (n % d)
    OBVIOUS
  <1>2. CeilTo(t, d) = q * d
    BY DEF CeilTo
  <1> HIDE DEF q
  <1>3. q * d = d * q /\ d * q \in Nat
    BY <1>1
  <1>4. t + d - 1 <= d * q + (d - 1)
    BY <1>1
  <1> QED  BY <1>2, <1>3, <1>4

\* What a successful advance_to(t) leaves behind: either the source reached t, or
\* it ended early, at a later time than its last sample.
LEMMA AdvanceEffect ==
    ASSUME NEW s \in SourceState, NEW t \in Nat, NEW y \in Advanced(s, t), NEW z \in Reporting(y)
    PROVE  /\ z.config = s.config
           /\ \/ /\ z.available = t /\ t <= s.tEnd /\ z.tEnd = s.tEnd
                 /\ z.complete = CompleteAt(s, t)
                 /\ s.last <= z.last
                 /\ s.config.kind # "generated" => z.last = s.last
                 /\ s.config.kind = "generated" => t <= z.last
              \/ /\ s.config.kind = "generated" /\ s.last < t
                 /\ z.available = z.tEnd /\ z.last = z.tEnd /\ z.complete
                 /\ s.last < z.tEnd
  <1> DEFINE last == IF s.config.kind = "generated" /\ s.last < t THEN CeilTo(t, Dynamics) ELSE s.last
  <1>1. s.last \in Nat /\ CeilTo(t, Dynamics) \in Nat /\ t <= CeilTo(t, Dynamics)
    BY CeilToReaches, TimeAssumption DEF SourceState
  <1>2. \/ t <= s.tEnd /\ y = [s EXCEPT !.available = t, !.last = last, !.complete = CompleteAt(s, t)]
        \/ \E x \in (s.last + 1)..last :
              y = [s EXCEPT !.available = x, !.last = x, !.tEnd = x, !.complete = TRUE]
    BY DEF Advanced
  <1>3. /\ last \in Nat /\ s.last <= last
        /\ s.config.kind # "generated" => last = s.last
        /\ s.config.kind = "generated" => t <= last
        /\ s.last < last => s.config.kind = "generated" /\ s.last < t
    BY <1>1
  <1> HIDE DEF last
  <1>4. z = y \/ \E p \in Phases : z = [y EXCEPT !.phase = p]
    BY DEF Reporting
  <1>5. CASE t <= s.tEnd /\ y = [s EXCEPT !.available = t, !.last = last, !.complete = CompleteAt(s, t)]
    <2>1. /\ z.config = s.config /\ z.available = t /\ z.tEnd = s.tEnd /\ z.last = last
          /\ z.complete = CompleteAt(s, t)
      BY <1>4, <1>5 DEF SourceState
    <2> QED  BY <1>3, <1>5, <2>1
  <1>6. CASE \E x \in (s.last + 1)..last :
                y = [s EXCEPT !.available = x, !.last = x, !.tEnd = x, !.complete = TRUE]
    <2>1. PICK x \in (s.last + 1)..last :
             y = [s EXCEPT !.available = x, !.last = x, !.tEnd = x, !.complete = TRUE]
      BY <1>6
    <2>2. z.config = s.config /\ z.available = x /\ z.tEnd = x /\ z.last = x /\ z.complete
      BY <1>4, <2>1 DEF SourceState
    <2>3. x \in Int /\ s.last < x /\ x <= last
      BY <1>1, <1>3, <2>1
    <2>4. s.last < last
      BY <1>1, <1>3, <2>3
    <2> QED  BY <1>3, <2>2, <2>3, <2>4
  <1> QED  BY <1>2, <1>5, <1>6

\* A source that reaches its last timestamp is complete.
LEMMA CompleteAtEnd ==
    ASSUME EndsReached, AppInv, SourceInv, NEW t, t = source.tEnd
    PROVE  CompleteAt(source, t)
  BY DEF EndsReached, SourceInv, CompleteAt

\* Advancing to a time t within the end keeps the source's part of the invariant,
\* and every time prepared from it lies beyond what has been prepared before.
LEMMA AdvanceKeepsSource ==
    ASSUME EndsReached, AppInv, SourceInv, NEW t \in Nat,
           NEW y \in Advanced(source, t), NEW z \in Reporting(y)
    PROVE  /\ z.config \in Sources
           /\ z.config.kind = "stationary" => z.tEnd = EndOf(z.config)
           /\ z.config.kind = "generated" =>
                 adapter.preparedTime <= z.last /\ (t <= z.last \/ z.tEnd <= z.last)
           /\ z.available = z.tEnd => z.complete
           /\ \/ z.tEnd = source.tEnd /\ t <= z.tEnd /\ (t = z.tEnd => z.complete)
              \/ adapter.preparedTime < z.tEnd /\ z.complete
  <1>1. /\ source \in SourceState /\ source.last \in Nat /\ source.tEnd \in Nat
        /\ adapter.preparedTime \in Nat
    BY DEF AppInv, AppTypeOK, SourceState, AdapterState
  <1>2. z \in SourceState /\ z.last \in Nat /\ z.tEnd \in Nat
    <2>1. y \in SourceState
      BY <1>1, SourceTypes
    <2>2. z \in SourceState
      BY <2>1, SourceTypes
    <2> QED  BY <2>2 DEF SourceState
  <1>3. z.config = source.config /\ z.config \in Sources
    BY <1>1, AdvanceEffect DEF SourceInv
  <1>4. CASE /\ z.available = t /\ t <= source.tEnd /\ z.tEnd = source.tEnd
             /\ z.complete = CompleteAt(source, t)
             /\ source.last <= z.last
             /\ source.config.kind = "generated" => t <= z.last
    <2>1. t = source.tEnd => z.complete
      BY <1>4, CompleteAtEnd
    <2> QED  BY <1>1, <1>2, <1>3, <1>4, <2>1 DEF SourceInv
  <1>5. CASE /\ source.config.kind = "generated" /\ source.last < t
             /\ z.available = z.tEnd /\ z.last = z.tEnd /\ z.complete
             /\ source.last < z.tEnd
    BY <1>1, <1>2, <1>3, <1>5 DEF SourceInv
  <1> QED  BY <1>1, <1>4, <1>5, AdvanceEffect

\* initialize() starts the timeline and the source at the same epoch.
LEMMA InitializeAdapterKeepsPace ==
    ASSUME EndsReached, AppInv, SourceInv, PaceInv, InitializeAdapter PROVE SourceInv' /\ PaceInv'
  <1>1. pc = "initialize" /\ source \in SourceState /\ adapter \in AdapterState /\ planned' = planned
    BY DEF InitializeAdapter, AppInv, AppTypeOK
  <1>2. /\ adapter.preparedTime = 0 /\ planned = 0 /\ source.last = 0
    BY <1>1 DEF PaceInv, SourceInv, Startup
  <1>3. /\ adapter'.preparedTime = 0 /\ ~adapter.initialized
        /\ pc' = "firstPhase" => adapter'.initialEpoch
        /\ pc' = "cleanup" => ~adapter'.initialized
        /\ pc' \in {"firstPhase", "cleanup"}
    BY <1>1, <1>2 DEF InitializeAdapter, AdapterState, Error, AppInv, FlagsInv, Calls
  <1>4. source' = source \/ \E y \in Advanced(source, 0) : source' \in Reporting(y)
    BY DEF InitializeAdapter
  <1>5. pc' = "firstPhase" => \E y \in Advanced(source, 0) : source' \in Reporting(y)
    BY DEF InitializeAdapter, Error
  <1>6. ASSUME NEW y \in Advanced(source, 0), source' \in Reporting(y)
        PROVE  SourceInv' /\ source'.available = 0
    <2>1. source'.available = 0
      BY <1>1, <1>2, <1>6, AdvanceEffect
    <2>2. /\ source'.config \in Sources
          /\ source'.config.kind = "stationary" => source'.tEnd = EndOf(source'.config)
          /\ source'.config.kind = "generated" => adapter.preparedTime <= source'.last
          /\ source'.available = source'.tEnd => source'.complete
      BY <1>6, AdvanceKeepsSource
    <2> QED  BY <1>2, <1>3, <2>1, <2>2 DEF SourceInv, SourceCompleteAtEnd
  <1>7. ASSUME source' = source, pc' = "cleanup" PROVE SourceInv'
    BY <1>2, <1>3, <1>7 DEF SourceInv, SourceCompleteAtEnd
  <1>8. SourceInv'
    BY <1>3, <1>4, <1>5, <1>6, <1>7
  <1>9. PaceInv'
    BY <1>1, <1>2, <1>3, <1>5, <1>6 DEF PaceInv, Startup, Prepared
  <1> QED  BY <1>8, <1>9

\* The heart of the matter: what is prepared after the first epoch is later.
LEMMA PrepareKeepsPace ==
    ASSUME EndsReached, AppInv, SourceInv, PaceInv, Prepare
    PROVE  /\ SourceInv' /\ PaceInv'
           /\ pc' = "wait" /\ ~adapter.initialEpoch => adapter.preparedTime < adapter'.preparedTime
  <1> DEFINE t == Lesser(planned, source.tEnd)
  <1>1. /\ source \in SourceState /\ adapter \in AdapterState /\ planned \in Nat /\ source.tEnd \in Nat
        /\ adapter.preparedTime \in Nat /\ adapter.initialized /\ pc = "prepare"
        /\ source' \in SourceState /\ source'.tEnd \in Nat /\ planned' = planned
    <2>1. source' \in SourceState
      BY PreparePreserves DEF AppInv, AppTypeOK
    <2> QED  BY <2>1 DEF AppInv, AppTypeOK, FlagsInv, Prepare, SourceState, AdapterState, Calls, EpochCalls
  <1>2. t \in Nat /\ t <= planned /\ t <= source.tEnd /\ (t = planned \/ t = source.tEnd)
    BY <1>1 DEF Lesser
  <1>3. /\ source' \in {source} \cup Ready(t)
        /\ pc' = "wait" =>
              /\ source' \in Ready(t)
              /\ deadline' = IF source'.complete THEN Lesser(t, source'.tEnd) ELSE t
              /\ adapter'.preparedTime = deadline'
              /\ adapter'.terminal = (source'.complete /\ deadline' = source'.tEnd)
              /\ adapter'.initialEpoch = adapter.initialEpoch
        /\ pc' # "wait" => pc' = "cleanup" /\ adapter' = adapter
    BY <1>1 DEF Prepare, Error, AdapterState
  <1>4. /\ adapter.initialEpoch => adapter.preparedTime = 0 /\ source.available = 0
        /\ ~adapter.initialEpoch => adapter.preparedTime < planned /\ adapter.preparedTime < source.tEnd
    BY <1>1 DEF PaceInv
  <1> HIDE DEF t
  <1>5. /\ source'.config \in Sources
        /\ source'.config.kind = "stationary" => source'.tEnd = EndOf(source'.config)
        /\ source'.config.kind = "generated" => adapter.preparedTime <= source'.last
        /\ source'.available = source'.tEnd => source'.complete
    <2>1. CASE source' = source
      BY <1>1, <2>1 DEF SourceInv, SourceCompleteAtEnd
    <2>2. CASE \E y \in Advanced(source, t) : source' \in Reporting(y)
      BY <1>2, <2>2, AdvanceKeepsSource
    <2> QED  BY <1>3, <2>1, <2>2 DEF Ready
  <1>6. ASSUME pc' = "wait"
        PROVE  /\ deadline' \in Nat /\ deadline' <= t /\ deadline' <= source'.tEnd
               /\ deadline' = source'.tEnd => source'.complete
               /\ source'.config.kind = "generated" => deadline' <= source'.last
               /\ ~adapter.initialEpoch => adapter.preparedTime < deadline'
    <2>1. CASE t = 0
      <3>1. source' = source /\ adapter.initialEpoch
        BY <1>1, <1>2, <1>3, <1>4, <1>6, <2>1 DEF Ready
      <3>2. deadline' = 0
        BY <1>1, <1>3, <1>6, <2>1, <3>1 DEF Lesser
      <3>3. source.tEnd = 0 => source.complete
        BY <1>1, <1>4, <3>1 DEF SourceInv, SourceCompleteAtEnd
      <3>4. source.config.kind = "generated" => 0 <= source.last
        BY <1>1 DEF SourceState
      <3> QED  BY <1>1, <1>2, <2>1, <3>1, <3>2, <3>3, <3>4
    <2>2. CASE t # 0
      <3>1. PICK y \in Advanced(source, t) : source' \in Reporting(y)
        BY <1>3, <1>6, <2>2 DEF Ready
      <3>2. /\ source'.config.kind = "generated" => t <= source'.last \/ source'.tEnd <= source'.last
            /\ \/ source'.tEnd = source.tEnd /\ t <= source'.tEnd /\ (t = source'.tEnd => source'.complete)
               \/ adapter.preparedTime < source'.tEnd /\ source'.complete
        BY <1>2, <3>1, AdvanceKeepsSource
      <3>3. source'.last \in Nat
        BY <1>1 DEF SourceState
      <3>4. /\ deadline' \in Nat /\ deadline' <= t /\ deadline' <= source'.tEnd
            /\ deadline' \in {t, source'.tEnd}
            /\ deadline' = source'.tEnd => source'.complete
        BY <1>1, <1>2, <1>3, <1>6, <3>2 DEF Lesser
      <3>5. source'.config.kind = "generated" => deadline' <= source'.last
        BY <1>1, <1>2, <3>2, <3>3, <3>4
      <3>6. ASSUME ~adapter.initialEpoch PROVE adapter.preparedTime < deadline'
        <4>1. adapter.preparedTime < t
          BY <1>1, <1>2, <1>4, <3>6
        <4>2. adapter.preparedTime < source'.tEnd
          BY <1>1, <1>4, <3>2, <3>6
        <4> QED  BY <3>4, <4>1, <4>2
      <3> QED  BY <3>4, <3>5, <3>6
    <2> QED  BY <2>1, <2>2
  <1>7. SourceInv'
    <2>1. source'.config.kind = "generated" => adapter'.preparedTime <= source'.last
      BY <1>3, <1>5, <1>6
    <2>2. pc' # "initialize"
      BY <1>3
    <2> QED  BY <1>5, <2>1, <2>2 DEF SourceInv, SourceCompleteAtEnd
  <1>8. PaceInv'
    <2>1. CASE pc' = "wait"
      <3>1. /\ adapter'.preparedTime <= planned' /\ adapter'.preparedTime <= source'.tEnd
            /\ adapter'.preparedTime = source'.tEnd => adapter'.terminal
        <4>1. adapter'.preparedTime <= planned' /\ adapter'.preparedTime <= source'.tEnd
          BY <1>1, <1>2, <1>3, <1>6, <2>1
        <4>2. deadline' = source'.tEnd => adapter'.terminal
          BY <1>3, <1>6, <2>1
        <4> QED  BY <1>3, <2>1, <4>1, <4>2
      <3> QED  BY <2>1, <3>1 DEF PaceInv, Startup, Prepared
    <2>2. CASE pc' # "wait"
      BY <1>3, <2>2 DEF PaceInv, Startup, Prepared
    <2> QED  BY <2>1, <2>2
  <1> QED  BY <1>3, <1>6, <1>7, <1>8

\* The calls that leave the source and the prepared time alone.
LEMMA OthersKeepPace ==
    ASSUME AppInv, SourceInv, PaceInv, AppNext, ~InitializeAdapter, ~Prepare
    PROVE  SourceInv' /\ PaceInv' /\ (adapter'.prepared => adapter.prepared)
  <1>1. adapter \in AdapterState /\ source' = source /\ planned \in Nat /\ adapter.preparedTime \in Nat
    BY DEF AppInv, AppTypeOK, AdapterState, AppNext, InitialPhase, StartClock, Wait, Sync, Publish,
           Navigate, AfterNavigation, Loop, FinalizeAdapter, CloseLogger, Cleanup, Throw
  <1>2. /\ adapter'.preparedTime = adapter.preparedTime /\ adapter'.initialized = adapter.initialized
        /\ adapter'.prepared => adapter.prepared
        /\ adapter'.terminal = adapter.terminal
        /\ pc' # "loop" => adapter'.initialEpoch = adapter.initialEpoch
        /\ pc' \notin {"navigate", "cleanup", "exited"} => adapter'.completion = adapter.completion
    BY <1>1 DEF AdapterState, AppNext, InitialPhase, StartClock, Wait, Sync, Publish, Navigate,
                AfterNavigation, Loop, FinalizeAdapter, CloseLogger, Cleanup, Throw,
                AdapterFinalize, Error
  <1>3. SourceInv'
    <2>1. pc' # "initialize"
      BY DEF AppNext, InitialPhase, StartClock, Wait, Sync, Publish, Navigate, AfterNavigation,
             Loop, FinalizeAdapter, CloseLogger, Cleanup, Throw, Error
    <2> QED  BY <1>1, <1>2, <2>1 DEF SourceInv, SourceCompleteAtEnd
  <1>4. PaceInv'
    <2>1. CASE InitialPhase
      BY <1>1, <1>2, <2>1 DEF PaceInv, InitialPhase, Error, Startup, Prepared
    <2>2. CASE StartClock
      BY <1>1, <1>2, <2>2 DEF PaceInv, StartClock, Error, Startup, Prepared
    <2>3. CASE Wait \/ Sync
      BY <1>1, <1>2, <2>3 DEF PaceInv, Wait, Sync, Error, Startup, Prepared
    <2>4. CASE Publish
      <3>1. pc' = "navigate" => adapter'.completion = adapter.terminal
        BY <1>1, <2>4 DEF Publish, Error, AdapterState
      <3> QED  BY <1>1, <1>2, <2>4, <3>1 DEF PaceInv, Publish, Error, Startup, Prepared
    <2>5. CASE Navigate
      BY <1>1, <1>2, <2>5 DEF PaceInv, Navigate, Error, Startup, Prepared
    <2>6. CASE AfterNavigation
      <3>1. pc' = "loop" => ~adapter'.initialEpoch
        BY <1>1, <2>6 DEF AfterNavigation, Error, AdapterState
      <3> QED  BY <1>1, <1>2, <2>6, <3>1 DEF PaceInv, AfterNavigation, Error, Startup, Prepared
    <2>7. CASE Loop
      <3>1. CASE pc' = "prepare"
        <4>1. planned' = planned + Period /\ ~adapter.completion /\ ~adapter.terminal /\ pc = "loop"
              /\ ~adapter.initialEpoch
          BY <2>7, <3>1 DEF Loop, Error, PaceInv
        <4>2. adapter.preparedTime < planned' /\ adapter.preparedTime < source.tEnd
          <5>1. source.tEnd \in Nat
            BY DEF AppInv, AppTypeOK, SourceState
          <5> QED  BY <1>1, <4>1, <5>1, TimeAssumption DEF PaceInv
        <4> QED  BY <1>1, <1>2, <3>1, <4>1, <4>2 DEF PaceInv, Startup, Prepared
      <3>2. CASE pc' # "prepare"
        BY <2>7, <3>2 DEF PaceInv, Loop, Error, Startup, Prepared
      <3> QED  BY <3>1, <3>2
    <2>8. CASE FinalizeAdapter \/ CloseLogger \/ Cleanup \/ Throw
      BY <2>8 DEF PaceInv, FinalizeAdapter, CloseLogger, Cleanup, Throw, Error, Startup, Prepared
    <2> QED  BY <2>1, <2>2, <2>3, <2>4, <2>5, <2>6, <2>7, <2>8 DEF AppNext
  <1> QED  BY <1>2, <1>3, <1>4

\* Before initialize() neither timeline nor source has moved.
LEMMA PaceInit == AppInit => SourceInv /\ PaceInv
  <1> SUFFICES ASSUME AppInit PROVE SourceInv /\ PaceInv
    OBVIOUS
  <1>1. PICK c \in Sources, p \in Phases : source = NewSource(c, p)
    BY DEF AppInit
  <1>2. /\ source.config = c /\ source.tEnd = EndOf(c) /\ source.last = 0
        /\ pc = "initialize" /\ planned = 0 /\ adapter.preparedTime = 0 /\ ~adapter.initialized
    BY <1>1 DEF AppInit, NewSource, NewAdapter
  <1> QED  BY <1>2 DEF SourceInv, SourceCompleteAtEnd, PaceInv, Startup, Prepared

\* Every call of the host keeps source and timeline in pace.
LEMMA PaceStep ==
    ASSUME EndsReached, AppInv, SourceInv, PaceInv, AppNext
    PROVE  /\ SourceInv' /\ PaceInv'
           /\ adapter'.prepared /\ ~adapter.prepared /\ ~adapter.initialEpoch =>
                 adapter.preparedTime < adapter'.preparedTime
  <1>1. CASE InitializeAdapter
    <2>1. adapter'.prepared = adapter.prepared
      BY <1>1 DEF InitializeAdapter, AppInv, AppTypeOK, AdapterState
    <2> QED  BY <1>1, <2>1, InitializeAdapterKeepsPace
  <1>2. CASE Prepare
    <2>1. adapter'.prepared /\ ~adapter.prepared => pc' = "wait"
      BY <1>2 DEF Prepare, Error
    <2> QED  BY <1>2, <2>1, PrepareKeepsPace
  <1>3. CASE ~InitializeAdapter /\ ~Prepare
    BY <1>3, OthersKeepPace
  <1> QED  BY <1>1, <1>2, <1>3

\* Each epoch is prepared for a later time than the one before, whatever early
\* ends clip it and whatever the rates are: MissionApp's loop and
\* prepare_before_deadline() never repeat a time, the source's end included.
THEOREM EpochsAlwaysAdvance ==
    ASSUME EndsReached PROVE AppSpec => EpochsAdvance
  <1>1. AppInv /\ SourceInv /\ PaceInv /\ [AppNext]_missionVars => SourceInv' /\ PaceInv'
    <2>1. ASSUME SourceInv, PaceInv, UNCHANGED missionVars PROVE SourceInv' /\ PaceInv'
      BY <2>1 DEF SourceInv, SourceCompleteAtEnd, PaceInv, missionVars, appVars
    <2> QED  BY <2>1, PaceStep
  <1>2. AppInv /\ SourceInv /\ PaceInv /\ [AppNext]_missionVars =>
           [adapter'.prepared /\ ~adapter.prepared /\ ~adapter.initialEpoch =>
                 adapter.preparedTime < adapter'.preparedTime]_missionVars
    BY PaceStep
  <1> QED  BY <1>1, <1>2, PaceInit, AppInvariant, PTL DEF AppSpec, EpochsAdvance
=============================================================================
