------------------------------ MODULE MissionApp ------------------------------
(***************************************************************************)
(* The mission host (MissionApp::run and execute_epoch), the SWIL adapter   *)
(* it drives, the mission clock and the application timeline, composed with *)
(* the phase owner of MissionRuntime.  The program is one thread: each      *)
(* action is one call of the host with everything the callee changes, and   *)
(* pc is the call that comes next.                                          *)
(*                                                                         *)
(* The trajectory source is kept to what its lifecycle shows: the truth it  *)
(* has made available, its end, whether it is complete and the phase it     *)
(* reports.  Emulators, Navigator and run logger appear by their results.   *)
(* Time counts timestamp ticks (nanoseconds) from the mission start; the    *)
(* duration of a stationary source is a double and has Fine parts per tick. *)
(***************************************************************************)
EXTENDS MissionRuntime, Integers

CONSTANTS
    Period,     \* ticks between two application epochs
    Dynamics,   \* ticks between two native steps of a generated source
    MaxTime,    \* the last tick a timestamp can hold
    Fine,       \* parts of a tick in a configured duration
    Sources     \* the configured sources: [kind, duration, impact]

ASSUME TimeAssumption ==
    /\ Period \in Nat \ {0}
    /\ Dynamics \in Nat \ {0}
    /\ Dynamics % Period = 0
    /\ MaxTime \in Nat
    /\ Fine \in Nat \ {0}

SourceKinds == {"stationary", "tabulated", "generated"}

\* What simulation settings select: a kind, a duration in parts of a tick and,
\* for a generated source, whether ground impact may end it early.
SourceConfig == [kind : SourceKinds, duration : Nat, impact : BOOLEAN]

ASSUME SourceAssumption == Sources \subseteq SourceConfig

VARIABLES
    pc,         \* the host's next call, "cleanup" or "exited"
    code,       \* the exit code; 1 is main()'s code for an exception
    planned,    \* the timeline's current timestamp
    deadline,   \* prepared_t of the current epoch
    clock,      \* Clock::now()
    source,     \* the trajectory source
    adapter,    \* the lifecycle members of SwilMissionAdapter
    host,       \* MissionApp::run's bookkeeping of finalization
    calls       \* finalize() calls made: on the Navigator and on the adapter

appVars == <<pc, code, planned, deadline, clock, source, adapter, host, calls>>
missionVars == <<runtimeVars, appVars>>

EpochCalls == {"prepare", "wait", "sync", "publish", "navigate", "after"}
Calls == EpochCalls \cup
    {"initialize", "firstPhase", "clock", "loop", "finalizeAdapter", "close"}

Lesser(a, b) == IF b < a THEN b ELSE a
CeilTo(t, d) == ((t + d - 1) \div d) * d

-----------------------------------------------------------------------------
(* The trajectory source. *)

\* t_end(): StationaryTrajectorySource rounds its duration to a timestamp; the
\* other sources end at a timestamp to begin with.
EndOf(c) == (2 * c.duration + Fine) \div (2 * Fine)

\* A source of configuration c, before initialize(); p is the first phase of the
\* mission's order, which the diagnostics name until something sets another.
NewSource(c, p) ==
    [config |-> c, tEnd |-> EndOf(c), available |-> 0, last |-> 0,
     complete |-> FALSE, phase |-> p]

\* A stationary source compares the elapsed time with its own duration, the
\* other sources compare timestamps.
CompleteAt(s, t) ==
    IF s.config.kind = "stationary" THEN t * Fine >= s.config.duration ELSE t = s.tEnd

\* The states in which advance_to(t) can leave source s when it succeeds.  A
\* generated source integrates whole dynamics steps until its last sample is
\* at t or later, refuses a step beyond its end, and stops early at an impact.
Advanced(s, t) ==
    LET last == IF s.config.kind = "generated" /\ s.last < t THEN CeilTo(t, Dynamics) ELSE s.last
        reached == {[s EXCEPT !.available = t, !.last = last, !.complete = CompleteAt(s, t)]}
        impacts == {x \in (s.last + 1)..last : x % Dynamics = 0 /\ x <= s.tEnd}
        ended   == {[s EXCEPT !.available = x, !.last = x, !.tEnd = x, !.complete = TRUE] :
                        x \in impacts}
    IN  (IF t <= s.tEnd /\ last <= s.tEnd THEN reached ELSE {})
        \cup (IF t <= s.tEnd /\ s.config.impact THEN ended ELSE {})

\* The phase its diagnostics report: only a generated source changes phase.
Reporting(s) ==
    IF s.config.kind = "generated" THEN {[s EXCEPT !.phase = p] : p \in Phases} ELSE {s}

-----------------------------------------------------------------------------
(* How the host leaves. *)

\* return error_result(c): cleanup() comes first.
Error(c) == pc' = "cleanup" /\ code' = c

\* An exception leaves run() at any call; main() turns it into exit code 1 and
\* neither the adapter nor the Navigator is finalized.
Throw ==
    /\ pc \in Calls
    /\ pc' = "exited" /\ code' = 1
    /\ UNCHANGED <<runtimeVars, planned, deadline, clock, source, adapter, host, calls>>

\* SwilMissionAdapter::finalize(): accepted once, after initialize().
FinalizeLegal == adapter.initialized /\ ~adapter.finalized
AdapterFinalize ==
    /\ calls' = [calls EXCEPT !.adapter = @ + 1]
    /\ adapter' = IF FinalizeLegal
                  THEN [adapter EXCEPT !.prepared = FALSE, !.published = FALSE, !.finalized = TRUE]
                  ELSE adapter

\* cleanup(): finalizes the adapter unless that was attempted, closes the
\* logger unless it is closed, and ignores the failure of either.
Cleanup ==
    /\ pc = "cleanup"
    /\ IF host.finalizationAttempted THEN UNCHANGED <<adapter, calls>> ELSE AdapterFinalize
    /\ \E closed \in {TRUE, host.closed} :
        host' = [host EXCEPT !.finalizationAttempted = TRUE, !.closed = closed]
    /\ pc' = "exited"
    /\ UNCHANGED <<runtimeVars, code, planned, deadline, clock, source>>

-----------------------------------------------------------------------------
(* Startup. *)

\* SwilMissionAdapter::initialize(): the source's first epoch, the IMU and the
\* Navigator, the baseline gates, the run logger.  A failure leaves the adapter
\* uninitialized, whatever was done before; an unsolvable baseline throws.
InitializeAdapter ==
    /\ pc = "initialize"
    /\ \/ /\ ~adapter.initialized
          /\ BaselineConfigurable(mission)
          /\ \E s \in Advanced(source, 0) : source' \in Reporting(s)
          /\ gate' = BaselineGates(mission)
          /\ adapter' = [adapter EXCEPT !.initialized = TRUE, !.initialEpoch = TRUE,
                                        !.diagnostics = TRUE]
          /\ pc' = "firstPhase" /\ UNCHANGED code
       \/ /\ Error(3)
          /\ source' \in {source} \cup UNION {Reporting(s) : s \in Advanced(source, 0)}
          /\ gate' = gate \/ (BaselineConfigurable(mission) /\ gate' = BaselineGates(mission))
          /\ \E d \in BOOLEAN : adapter' = [adapter EXCEPT !.diagnostics = d]
    /\ UNCHANGED <<mission, active, ok, planned, deadline, clock, host, calls>>

\* MissionRuntime::initialize() with the phase the adapter reports.
InitialPhase ==
    /\ pc = "firstPhase"
    /\ IF adapter.diagnostics THEN Initialize(source.phase) ELSE Reject /\ UNCHANGED mission
    /\ IF ok' THEN pc' = "clock" /\ UNCHANGED code ELSE Error(4)
    /\ UNCHANGED <<planned, deadline, clock, source, adapter, host, calls>>

\* The clock and the timeline start at t_start().
StartClock ==
    /\ pc = "clock"
    /\ \/ clock' = 0 /\ planned' = 0 /\ pc' = "prepare" /\ UNCHANGED code
       \/ Error(5) /\ UNCHANGED <<clock, planned>>
    /\ UNCHANGED <<runtimeVars, deadline, source, adapter, host, calls>>

-----------------------------------------------------------------------------
(* One epoch: execute_epoch(). *)

PrepareLegal ==
    adapter.initialized /\ ~adapter.prepared /\ ~adapter.published /\ ~adapter.completion

\* The source states of a preparation for tick t; the start is already there.
Ready(t) ==
    IF t = 0 THEN {source}
    ELSE UNION {Reporting(s) : s \in Advanced(source, t)}

\* A preparation that never learns of an early end.
PrepareUnclipped ==
    /\ pc = "prepare"
    /\ LET t == Lesser(planned, source.tEnd)
       IN  \/ /\ PrepareLegal
              /\ source' \in Ready(t)
              /\ deadline' = t
              /\ adapter' = [adapter EXCEPT
                    !.prepared = TRUE, !.preparedTime = t,
                    !.terminal = source'.complete]
              /\ pc' = "wait" /\ UNCHANGED code
           \/ /\ Error(2)
              /\ source' \in {source} \cup Ready(t)
              /\ UNCHANGED <<deadline, adapter>>
    /\ UNCHANGED <<runtimeVars, planned, clock, host, calls>>

\* prepare_before_deadline(): the planned time clipped to the source's end, and
\* clipped again when advancing discovered an earlier end.  The failure may
\* come before the source advances or after it (query, IMU, emulators).
Prepare ==
    /\ pc = "prepare"
    /\ LET t == Lesser(planned, source.tEnd)
       IN  \/ /\ PrepareLegal
              /\ source' \in Ready(t)
              /\ deadline' = IF source'.complete THEN Lesser(t, source'.tEnd) ELSE t
              /\ adapter' = [adapter EXCEPT
                    !.prepared = TRUE, !.preparedTime = deadline',
                    !.terminal = source'.complete /\ deadline' = source'.tEnd]
              /\ pc' = "wait" /\ UNCHANGED code
           \/ /\ Error(2)
              /\ source' \in {source} \cup Ready(t)
              /\ UNCHANGED <<deadline, adapter>>
    /\ UNCHANGED <<runtimeVars, planned, clock, host, calls>>

\* A clock that waits for the planned time, not for the prepared one.
WaitForPlanned ==
    /\ pc = "wait"
    /\ clock' = planned /\ pc' = "sync" /\ UNCHANGED code
    /\ UNCHANGED <<runtimeVars, planned, deadline, source, adapter, host, calls>>

\* Clock::wait_until(): refuses to go back.
Wait ==
    /\ pc = "wait"
    /\ IF deadline < clock
       THEN Error(4) /\ UNCHANGED clock
       ELSE clock' = deadline /\ pc' = "sync" /\ UNCHANGED code
    /\ UNCHANGED <<runtimeVars, planned, deadline, source, adapter, host, calls>>

\* A host that synchronizes the phase only after the Navigator has run.
SyncIgnored ==
    /\ pc = "sync"
    /\ pc' = "publish"
    /\ UNCHANGED <<runtimeVars, code, planned, deadline, clock, source, adapter, host, calls>>

\* MissionRuntime::synchronize() with the phase of the prepared epoch.
Sync ==
    /\ pc = "sync"
    /\ IF adapter.diagnostics THEN Synchronize(source.phase) ELSE Reject /\ UNCHANGED mission
    /\ IF ok' THEN pc' = "publish" /\ UNCHANGED code ELSE Error(4)
    /\ UNCHANGED <<planned, deadline, clock, source, adapter, host, calls>>

PublishLegal == adapter.prepared /\ ~adapter.published /\ deadline = adapter.preparedTime

\* A publication that does not notice the terminal epoch.
PublishNeverCompletes ==
    /\ pc = "publish"
    /\ \/ /\ PublishLegal
          /\ adapter' = [adapter EXCEPT !.published = TRUE]
          /\ pc' = "navigate" /\ UNCHANGED code
       \/ Error(4) /\ UNCHANGED adapter
    /\ UNCHANGED <<runtimeVars, planned, deadline, clock, source, host, calls>>

\* publish_at_deadline(): a failure of the IMU, the source's observation or an
\* emulator leaves the epoch unpublished.
Publish ==
    /\ pc = "publish"
    /\ \/ /\ PublishLegal
          /\ adapter' = [adapter EXCEPT !.published = TRUE, !.completion = adapter.terminal]
          /\ pc' = "navigate" /\ UNCHANGED code
       \/ Error(4) /\ UNCHANGED adapter
    /\ UNCHANGED <<runtimeVars, planned, deadline, clock, source, host, calls>>

\* A host that does not remember that the last epoch finalized the Navigator.
NavigateForgetsFinalize ==
    /\ pc = "navigate"
    /\ IF adapter.completion /\ active \notin mission.terminal
       THEN Error(4) /\ UNCHANGED <<host, calls>>
       ELSE /\ calls' = IF adapter.completion THEN [calls EXCEPT !.navigator = @ + 1] ELSE calls
            /\ UNCHANGED host
            /\ (pc' = "after" /\ UNCHANGED code) \/ Error(4)
    /\ UNCHANGED <<runtimeVars, planned, deadline, clock, source, adapter>>

\* A completed mission must be in a terminal phase and finalizes the Navigator;
\* any other epoch updates it.
Navigate ==
    /\ pc = "navigate"
    /\ IF adapter.completion /\ active \notin mission.terminal
       THEN Error(4) /\ UNCHANGED <<host, calls>>
       ELSE /\ calls' = IF adapter.completion THEN [calls EXCEPT !.navigator = @ + 1] ELSE calls
            /\ \/ /\ host' = [host EXCEPT !.navigatorFinalized = adapter.completion]
                  /\ pc' = "after" /\ UNCHANGED code
               \/ Error(4) /\ UNCHANGED host
    /\ UNCHANGED <<runtimeVars, planned, deadline, clock, source, adapter>>

AfterLegal == adapter.prepared /\ adapter.published /\ deadline = adapter.preparedTime

\* after_navigation_update() that leaves the epoch marked as published.
AfterNavigationKeepsPublished ==
    /\ pc = "after"
    /\ \/ /\ AfterLegal
          /\ adapter' = [adapter EXCEPT !.initialEpoch = FALSE, !.prepared = FALSE]
          /\ pc' = "loop" /\ UNCHANGED code
       \/ Error(4) /\ UNCHANGED adapter
    /\ UNCHANGED <<runtimeVars, planned, deadline, clock, source, host, calls>>

\* after_navigation_update(): control-state feedback and the logs, after which
\* the adapter accepts another epoch.
AfterNavigation ==
    /\ pc = "after"
    /\ \/ /\ AfterLegal
          /\ adapter' = [adapter EXCEPT !.initialEpoch = FALSE, !.prepared = FALSE,
                                        !.published = FALSE]
          /\ pc' = "loop" /\ UNCHANGED code
       \/ Error(4) /\ UNCHANGED adapter
    /\ UNCHANGED <<runtimeVars, planned, deadline, clock, source, host, calls>>

-----------------------------------------------------------------------------
(* The loop and the regular end of run(). *)

\* The condition of the while loop: another epoch until the adapter has
\* published the terminal one; the timeline may overflow first.  After it the
\* Navigator is finalized unless the last epoch did so.
Loop ==
    /\ pc = "loop"
    /\ IF ~adapter.completion
       THEN /\ IF planned + Period > MaxTime
               THEN Error(7) /\ UNCHANGED planned
               ELSE planned' = planned + Period /\ pc' = "prepare" /\ UNCHANGED code
            /\ UNCHANGED calls
       ELSE /\ calls' = IF host.navigatorFinalized THEN calls ELSE [calls EXCEPT !.navigator = @ + 1]
            /\ \/ pc' = "finalizeAdapter" /\ UNCHANGED code
               \/ ~host.navigatorFinalized /\ Error(4)
            /\ UNCHANGED planned
    /\ UNCHANGED <<runtimeVars, deadline, clock, source, adapter, host>>

FinalizeAdapter ==
    /\ pc = "finalizeAdapter"
    /\ AdapterFinalize
    /\ host' = [host EXCEPT !.finalizationAttempted = TRUE]
    /\ IF FinalizeLegal THEN pc' = "close" /\ UNCHANGED code ELSE Error(4)
    /\ UNCHANGED <<runtimeVars, planned, deadline, clock, source>>

CloseLogger ==
    /\ pc = "close"
    /\ host' = [host EXCEPT !.closed = TRUE]
    /\ pc' = "exited" /\ code' = 0
    /\ UNCHANGED <<runtimeVars, planned, deadline, clock, source, adapter, calls>>

-----------------------------------------------------------------------------
(* The specification. *)

NewAdapter ==
    [initialized |-> FALSE, initialEpoch |-> FALSE, diagnostics |-> FALSE, prepared |-> FALSE,
     preparedTime |-> 0, terminal |-> FALSE, published |-> FALSE, completion |-> FALSE,
     finalized |-> FALSE]

AppInit ==
    /\ mission \in {m \in Missions : Loadable(m)}
    /\ active = None
    /\ gate = FreshGates
    /\ ok = TRUE
    /\ pc = "initialize"
    /\ code = 0
    /\ planned = 0
    /\ deadline = 0
    /\ clock = 0
    /\ \E c \in Sources, p \in Phases : source = NewSource(c, p)
    /\ adapter = NewAdapter
    /\ host = [navigatorFinalized |-> FALSE, finalizationAttempted |-> FALSE, closed |-> FALSE]
    /\ calls = [navigator |-> 0, adapter |-> 0]

AppNext ==
    \/ InitializeAdapter \/ InitialPhase \/ StartClock
    \/ Prepare \/ Wait \/ Sync \/ Publish \/ Navigate \/ AfterNavigation
    \/ Loop \/ FinalizeAdapter \/ CloseLogger
    \/ Cleanup \/ Throw

AppSpec == AppInit /\ [][AppNext]_missionVars

-----------------------------------------------------------------------------
(* Properties. *)

SourceState ==
    [config : SourceConfig, tEnd : Nat, available : Nat, last : Nat, complete : BOOLEAN,
     phase : Phases]
AdapterState ==
    [initialized : BOOLEAN, initialEpoch : BOOLEAN, diagnostics : BOOLEAN, prepared : BOOLEAN,
     preparedTime : Nat, terminal : BOOLEAN, published : BOOLEAN, completion : BOOLEAN,
     finalized : BOOLEAN]
HostState == [navigatorFinalized : BOOLEAN, finalizationAttempted : BOOLEAN, closed : BOOLEAN]

\* Every variable has its type.
AppTypeOK ==
    /\ RuntimeTypeOK
    /\ pc \in Calls \cup {"cleanup", "exited"}
    /\ code \in {0, 1, 2, 3, 4, 5, 7}
    /\ planned \in Nat /\ deadline \in Nat /\ clock \in Nat
    /\ source \in SourceState
    /\ adapter \in AdapterState
    /\ host \in HostState
    /\ calls \in [navigator : Nat, adapter : Nat]

\* The host never makes a call that the adapter's own lifecycle guards reject,
\* whatever epochs, early ends and failures came before.
LifecycleRespected ==
    /\ pc = "initialize" => ~adapter.initialized
    /\ pc = "prepare" => PrepareLegal
    /\ pc = "publish" => PublishLegal
    /\ pc = "after" => AfterLegal
    /\ pc = "finalizeAdapter" => FinalizeLegal

\* Exit code 0 means a whole mission: the terminal epoch was published and its
\* time reached, the active phase is terminal, the Navigator was finalized, and
\* the adapter and the logger are closed.
CleanExit ==
    pc = "exited" /\ code = 0 =>
        /\ adapter.completion /\ adapter.finalized /\ host.closed
        /\ active \in mission.terminal
        /\ calls = [navigator |-> 1, adapter |-> 1]
        /\ source.complete /\ clock = source.tEnd

\* The adapter and the Navigator are finalized at most once, and the adapter
\* exactly once unless an exception took the program down.
FinalizedOnce ==
    /\ calls.navigator <= 1 /\ calls.adapter <= 1
    /\ pc = "exited" /\ code # 1 => calls.adapter = 1

\* Data is published only after the prepared epoch's phase is active and its
\* gates are in force.
PublishedInItsPhase ==
    pc = "publish" => active = source.phase /\ GatesFollowPhase

\* Every epoch is prepared for a later time than the one before, in particular
\* the source's end is prepared once.
EpochsAdvance ==
    [][adapter'.prepared /\ ~adapter.prepared /\ ~adapter.initialEpoch
        => adapter.preparedTime < adapter'.preparedTime]_missionVars

\* The host keeps the lifecycle MissionAdapter promises to its implementations:
\* the stage is read off the adapter's flags and the host's progress.
Stage ==
    IF host.finalizationAttempted THEN "finalized"
    ELSE IF pc \in {"cleanup", "exited"} THEN "abandoned"
    ELSE IF adapter.published THEN "published"
    ELSE IF adapter.prepared THEN "prepared"
    ELSE IF adapter.initialized THEN "ready"
    ELSE "created"

Contract == INSTANCE AdapterContract WITH stage <- Stage, at <- deadline, now <- clock

AdapterContractKept == Contract!ContractSpec

\* As TrajectorySource says of is_complete(), it tells whether advance_to() has
\* reached the source's end.
SourceCompleteAtEnd ==
    adapter.initialized /\ source.available = source.tEnd => source.complete
=============================================================================
