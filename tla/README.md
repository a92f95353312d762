# NavKit mission runtime: TLA+ specifications

TLA+ modules, TLC runs and TLAPS proofs about the part of NavKit that decides *when* things happen
in a mission: the host loop, the mission phases, the guidance that flies a generated trajectory, the
Navigator's buffering, the schedules that feed it, and the configuration all of them are built from.
The mathematics of navigation (mechanization, filter matrices, guidance laws) is left out; what
remains is control, order, time and bookkeeping.

## 1. Inventory

| Component | State it keeps | Operations | Interacts with |
|---|---|---|---|
| Mission host (`app_support/MissionApp.hpp`, `apps/navkit_swil`) | exit code, finalization flags | `run`, `execute_epoch`, cleanup | every other part, by direct calls in a fixed order |
| Mission adapter (`execution/MissionAdapter.hpp`, `swil/SwilMissionAdapter.hpp`) | lifecycle flags, prepared epoch, last truth and diagnostics | initialize, prepare, publish, feedback, finalize | trajectory source, IMU runtime, emulators, Navigator, run logger |
| Mission runtime (`mission/MissionRuntime.hpp`, `MissionRuntimeJson.hpp`) | phase graph, active phase | load, initialize, synchronize | innovation gates of the GNSS sensors |
| Navigation phase (`navigation/NavigationPhase.hpp`, `core/estimation/sensor/InnovationGate.hpp`) | threshold, probability, enabled flag of each gate | apply phase, configure, enable | Kalman filter, which asks the gates |
| Navigator (`core/estimation/navigator`) | IMU buffer, pending covariance step, last applied correction | push, update, finalize | filter, propagation, sensors |
| Kalman filter (`core/estimation/filter`) | state, covariance, pending correction, statistics | process sensor, inject, reset | sensors, gates, update policy |
| Sensors and `RingBuffer` | measurement queue, observation context | push, pop | emulators push, filter pops |
| Rational time (`core/time`) | next sample index | due, next | all schedules |
| IMU runtime and simulator, GNSS emulators | schedule, last sample, prepared update | prepare, publish | source, Navigator, logger |
| Trajectory sources (`sim/trajectory`) | available time, completion, guidance and vehicle state | advance, query, control feedback | adapter |
| Guidance, autopilot, vehicle (`sim/guidance`, `sim/autopilot`) | active phase, command filters, response states | advance | generated source |
| Run logger and log products (`app_support/logging`, `io`) | schedules, writers | log if due | adapter |
| Configuration, initialization, validation | none after start | pure functions | loader |
| Python tooling (`tools`, `python/navkit_analysis`) | campaign directories, caches | run, analyse, compare | the executable's outputs |

The executable is one thread. What is hard is therefore not interleaving but order: data prepared
before a wait and published after it, measurements held back until an IMU increment finds its
partner, corrections that live across calls, phases that change under prepared data, early ends,
failures in the middle of an operation, and schedules of different rates that meet at boundaries.
`PROJECT.json` lists each of these at the line where it bites.

What makes each part correct: the host keeps the adapter's lifecycle and returns 0 for complete
missions only; the gates are those of the active phase before anything is published; IMU time is
neither lost nor integrated twice; aiding meets the newest state; a correction is applied once;
schedules stay on their grid and buffers suffice; guidance works with the control state of its own
instant and reports every phase it passes; what validation accepts can be flown, and for a generated
source the two copies of the mission graph, the host's and the source's, are the same graph.

## 2. Modules

| Module | Models |
|---|---|
| `MissionRuntime` | the loader's acceptance of a phase graph, `initialize`, `synchronize`, `apply_navigation_phase` |
| `AdapterContract` | abstract: the lifecycle `MissionAdapter` documents |
| `MissionApp` | `MissionApp::run` and `execute_epoch` with the SWIL adapter, clock, timeline and source; EXTENDS `MissionRuntime`, refines `AdapterContract` |
| `Navigator` | `push_imu`, `update`, `finalize`, both update policies, sensor queues |
| `SwilNavigation` | the Navigator in the epochs of a SWIL mission: IMU, GNSS and log schedules; EXTENDS `Navigator` |
| `GuidanceDefinition` | which guidance state machines are acceptable |
| `Guidance` | the guidance state machine's `initialize` and `advance`, and the command filter; EXTENDS `GuidanceDefinition` |
| `GeneratedSource` | `GeneratedTrajectorySource`: native steps of guidance, autopilot, vehicle response and plant, and control feedback; EXTENDS `Guidance` |
| `GuidedMission` | the SWIL adapter's epochs around a generated source; EXTENDS `GeneratedSource` |
| `RationalTime` | rates, integer multiples, timestamps of samples, schedules |
| `RingBuffer` | `RingBuffer<T, N, Policy>` with its slots, head, tail and count |
| `BoundedQueues` | abstract: bounded first-in first-out queues, some of which overwrite |
| `SensorPipeline` | IMU runtime, GNSS emulators and their simulators, publication into ring buffers, and how the Navigator empties them; EXTENDS `RationalTime` and `RingBuffer`, refines `BoundedQueues` |
| `RunConfig` | what the validators accept of a run configuration; EXTENDS `MissionRuntime`, `GuidanceDefinition`, `RationalTime` |
| `Launch` | the start of `navkit_swil`, from the file to the first mission phase; EXTENDS `RunConfig` |
| `MissionRuntimeProofs`, `MissionAppProofs`, `NavigatorProofs`, `SwilNavigationProofs`, `GuidedMissionProofs`, `LaunchProofs`, `RingBufferProofs`, `SensorPipelineProofs` | theorems, each module about the one it is named after |
| `MC*` | TLC instances |

### MissionRuntime
`mission` is the resolved configuration, constant and chosen among those `Loadable` accepts, so one
run covers all phase graphs. `active` is `m_active_phase_index`, `gate` the two `InnovationGate`
objects. `ApplyNavigationPhase` is the four calls of `apply_navigation_phase` in their order, each
skipped after a failure: configuring a probability turns the gate on, the enabled flags are selected
last. A probability is a value of a small set; `Solvable` holds those for which the chi-square
quantile iteration converges. A failed call of `initialize` or `synchronize` ends the mission.

### MissionApp
`pc` names the host's next call and each action is that call with all its effects: `Prepare` clips
the planned time to the source's end before and after advancing, `Publish` sets the completion flag,
`Loop` is the loop condition, the timeline and the last `navigator.finalize()`. Every call that can
fail may fail, at the points where the state differs; `Throw` is an exception that reaches `main()`
past the cleanup. The trajectory source keeps its end, its available time, completion and reported
phase; a generated source steps on a dynamics grid, may end early on ground impact and may report any
phase. `EndOf` and `CompleteAt` keep the two different roundings of the stationary source.

### Navigator
One action per step of `update()` or `finalize()`. State and covariance are the times they stand for
(`navT`, `covT`), the pending covariance step its duration, a correction the set of measurements
composed into it. The verdict of innovation test and gate is a choice. `config` selects the build:
compensation, update policy, covariance period.

### SwilNavigation
One tick is an application period. `due` holds the next sample time of each `RationalSchedule`;
`Publish` is the data part of `prepare_before_deadline` and `publish_at_deadline` (IMU first, then
position, then velocity), `LogCorrection` the correction log of `after_navigation_update`. The
initial epoch leaves the IMU schedule alone, as the code does. An outage of GNSS is a choice.

### GuidanceDefinition, Guidance, GeneratedSource, GuidedMission
A definition is a sequence of states, each with its blocks by role, its flags and its elapsed-time
transitions; `DefinitionAccepted` is `guidance_state_machine_definition_is_valid()`. `active`,
`entered` and `command` are the machine's members of those meanings; `AdvanceMachine` is `advance()`:
at most one transition, of the lowest priority number, then the evaluation of the state that is
entered. The command filter is `remaining`, `constants` and `applied`: which constants it uses and
how long its entry window stays open. Kinematics are left out. A waypoint may be reached at any
evaluation, an attitude is known by where it comes from (`configured`, `estimated`, `current`,
`tracked`), and the vehicle response by how often it was advanced.

`GeneratedSource` has one action for a whole `advance_native()`: guidance and filter when due, then
the autopilot when due, the vehicle response unless on the pad, the plant, the recorded sample, and
the end at the ground, which a free plant may touch at any step. `SetControlState` is the feedback,
which at the start of an unadvanced plant starts guidance, filter and autopilot over. `GuidedMission`
puts the adapter around it, one action per part of an epoch: `Prepare`, the loop of `advance_to()`
(`Advance`, `AdvanceFails`, `Arrive`), `Query`, `Synchronize`, `Publish`, `FeedBack`.

### RationalTime, RingBuffer, BoundedQueues, SensorPipeline
`RationalTime` translates the integer arithmetic of rates and timestamps; the number of nanoseconds in
a second and the last representable second are constants, and `NoTime` stands for overflow.
`RingBuffer` has an operator for each member function that changes the buffer.

In `SensorPipeline` an epoch is `Prepare` (what `prepare_before_deadline` generates: the IMU
increment and the measurements that are due), `Publish` (`publish_at_deadline`: the increment, the
context of the velocity sensor, then position and velocity, each skipped after a refused push) and the
Navigator's `IntegratePair`, `IntegrateSingle` and `UpdateNavigator`. A measurement is its time and,
for a velocity, the time of the angular rate in its context; truth, errors and noise are left out.
`imuLog` and `gnssLog` record what was published.

### RunConfig, Launch
A configuration is the set of members each of its objects has, the alternatives chosen, the rates, the
phases and their plant constraints, and the references between files. What is only a number or a text
is reduced to the classes the checks tell apart: `bad` names the objects with a member of a wrong type
or range, `unfit` the data that are well formed and still cannot be used, such as a covariance that
cannot be factored. `RunConfig` has one predicate per validator. `Launch` runs `main()` up to the
first phase, one action per step that can refuse the run: `LoadFiles`, `CheckTarget`, the validators,
`ResolveMission`, `CreateAdapter` (the source and its copy of the mission graph, `CompiledMachine`),
`InitializeAdapter` and `FirstPhase`. Each step checks what *its* code checks again.

The validators of the source and its constructors do not work on the configured objects but on one
flattened trajectory, into which the code copies every member of `simulation.initial_truth` after the
type, the duration and the dynamics rate. A copied member replaces those three (`TrajectoryType`,
`TrajectoryDuration`, `TrajectoryRate`); members of a generated source are written after the copy and
win. `TrajectoryMachine` therefore is `mission.phases` for a generated source, and for any other the
machine that `initial_truth` brings: a source configured as stationary is validated, built and flown
as a state machine when a copied `type` says so. `Undetected` names what validation lets through and
a later step may refuse: data that must be computed with, direct acceleration without
`current_state`, a machine without a terminal phase, a native step longer than the copied or the
configured duration, a copied type whose source starts in another phase than the mission, a stray
`pva_error`, and probabilities without a quantile.

## 3. Runs

| Run | What it shows |
|---|---|
| `mission_runtime` | every accepted graph over three phases with every report of phases: gates follow the phase, no return, no dead end |
| `mission_app` | whole missions with failures anywhere: lifecycle, finalization, meaning of exit code 0, refinement of `AdapterContract` |
| `navigator` | free callers: conservation of IMU time, covariance lag, aiding at the newest state, corrections applied once; `finalize()` processes everything |
| `swil_navigation` | Navigator under mission schedules: sufficient buffers, bounded age of aiding, measurements judged with the context taken for them, complete missions, no correction lost |
| `guided_mission` | missions flown by a generated source: no phase skipped, transitions on time and none that was due left behind at the end, guidance on fresh control states, entry filter, pad release, gyro average, the last sample; every mission ends |
| `sensor_pipeline` | rational rates, outages and ring buffers: increments tile, measurements keep their grid, a velocity is corrected by the newest angular rate; refinement of `BoundedQueues` |
| `launch` | configurations with one or two deviations: what validation accepts can be built and started apart from `Undetected`, and a generated source's machine agrees with the mission graph |
| `stationary_end` | violation: a duration below its rounded end never completes |
| `gate_atomicity` | violation: a failed phase application has changed the position gate |
| `correction_log` | violation: a correction is logged twice |
| `slow_imu` | violation: an IMU at a third of the application rate fails the mission |
| `frame_epoch` | violation: the control state fed back is stated in an inertial frame of the current epoch, not of the start |

Bounds. Three phases give every shape of graph that matters here: self-loop, cycle, branch, chain,
unreachable phase, and transitions to an unconfigured one. In `mission_app` the application period is
2 ticks, the dynamics step 4 and the last timestamp 9: sources end on and off both grids, at the start,
and beyond the last timestamp. In `navigator` increments are of 1 or 2 ticks up to 4 ticks,
so that pairs are even or uneven and buffers of 3 and 2 overflow; covariance periods of 1 and 3
are reached exactly, passed and missed. `swil_navigation` runs one, six or seven epochs with IMU periods
1 to 3, GNSS periods 1 to 3 and log periods 1 and 2: all combinations of waiting increments, held-back aiding and
logging occur before the end.

`guided_mission` flies chains and a cyclic patrol of three states, with entry filters shorter and
longer than a state, thresholds on and between guidance steps, one or two native
steps between guidance steps and one to three epochs to a native step, for 8 to 13 ticks: long enough
to pass every state, to close every entry window and to wrap the gyro average; rates that do not nest
are offered and must be refused. In `sensor_pipeline` a second has 100 nanoseconds, so that
thirds, sixths and sevenths are rounded up and down within three and a half seconds; buffers of 3, 3
and 2 wrap around several times and the history overwrites; missions start at 0 and shortly before a
full second. `launch` takes three complete configurations, one of each kind of source, and a
stationary one with a machine of its own, and varies them: a member missing, added or malformed,
another form, rate, graph, phase or reference, and every subset of type, duration, table and machine
copied from `initial_truth`. Of these 4,458 configurations 1,403 reach the host's first phase. Most
deviate in one or two places; a third one in another object is checked by the same predicates
independently, so that two, which cover the dependences between objects, are enough.

Deadlock checking is off in all runs: a mission ends and stays ended.

Fairness. `NavSpec` states weak fairness of `NavStep`: a call of `update()` or `finalize()` runs on
the caller's thread and contains no wait, so a step that is enabled is taken; the callers themselves
are under no fairness. `GuidedSpec` states weak fairness of `GuidedNext`: a mission is one thread that
calls one operation after the other, and none of them waits for anything but a deadline that comes.
Failing and flying on are both steps, and no choice between them is assumed. The other specifications
state no fairness and their runs check safety only.

## 4. Proofs

`NavigatorProofs` proves for every capacity, covariance period and configuration that `NavTypeOK`,
`ImuTimeConserved`, `CovarianceFollowsState`, `JudgedAtLatestState` and `CorrectionsApplied` are
invariants of `NavSpec`. They are not inductive by themselves. `NavInv` adds what a step of a call
knows of the steps before it: after the strapdown loop at most an increment that waits for its
partner is left, and none once measurements are processed (`Flushed`); past `PropagateCovariance` no
covariance step is pending that was due (`CovarianceSettled`, of which `CovarianceFollowsState` is
the part seen between calls); and `PendingBySensor` says for each update policy whose measurements
may be pending and whose applied while a sensor has its turn, which is why no measurement is ever in
both sets. Each action preserves each conjunct it can disturb; lemmas on `Append`, `Tail` and the
contiguity of increments carry the data part.

`MissionRuntimeProofs` proves `RuntimeTypeOK`, `GatesFollowPhase` and `NoReturn` for every set of
phases, probabilities and missions. `RuntimeInv` adds that the mission is a loadable one, so that
every phase that is enabled has a probability and the last steps of `ApplyNavigationPhase` find a
configured gate. `NoReturn` follows from the definition of `After`
as a least closed set: what is reachable from a successor is reachable from the phase, so a return
would be a cycle through the phase the loader has rejected.

`MissionsCanFinish` proves `MissionCanFinish`. The set of phases is finite and the loader leaves no
cycle, so what follows a phase is strictly less than what follows its predecessor. Of the phases still
ahead, one after which the fewest follow therefore has no successor and, by `Loadable`, is terminal
(`TerminalReachable`, from the well-foundedness of the strict subsets of a finite set).

`MissionAppProofs` proves for every mission, application period, final timestamp and source that
`AppTypeOK`, `LifecycleRespected`, `FinalizedOnce`, `CleanExit` and `PublishedInItsPhase` hold, and
that `AppSpec` implements `AdapterContract` (`AdapterContractKept`). The invariant `AppInv` ties
what the host will call next to what has happened: `PhaseInv` (the gates are those of the active
phase, there is none before `initialize`, and at `publish` it is the phase the source reported),
`FlagsInv` (the adapter's flags at each call), `CompletionInv` (completion and a terminal preparation
mean that the source is complete and the prepared deadline its end), `FinalizationInv` (who has been
finalized, and how often, before each call) and `CleanExit`.
Each of the host's calls has a lemma that it preserves `AppInv`; the refinement then maps each
call to a step of the contract or a stutter, an exception to the contract's giving up. The lemmas of
`MissionRuntimeProofs` on `Initialize` and `Synchronize` serve both proofs.

`EpochsAlwaysAdvance` proves `EpochsAdvance` with an invariant of its own: `SourceInv` says of
each kind of source how its last sample, its end and its completion relate, `PaceInv` that whatever
is planned lies beyond what has been prepared. It has one hypothesis, `EndsReached`: the rounded end
of a stationary source is not before its configured duration. The run `stationary_end` shows the
code does not guarantee it, and that without it a mission does not complete.

`SwilNavigationProofs` proves every property of `SwilNavigation` for all periods, capacities and
mission lengths. `SwilInv` joins `NavInv`, whose preservation is taken over from `NavigatorProofs`
step by step (`NavStepPreserves`), with what relates the Navigator to the schedules: `Scheduled`
places each schedule's next index just beyond the last publication; `Paired` lists the increments a
call can find, of which only the first pair of a mission can be uneven; `Waiting` and `Spaced` bound
the age of held-back measurements and, through their distance, their number, which is what makes
the capacities of `EvenRatesSustained` sufficient; `Drained` says what a call leaves behind, and
`Logged` which correction is in the log at each point of an epoch. `OwnContextJudged` needs one
invariant more, `OwnContext`: where no increment waits for a partner, or measurements are further
apart than increments (`Apart`), a sensor has at most one measurement waiting and its context is that
measurement's, because none waits when the next one is due (`NoneWaitsWhenDue`).

`GuidedMissionProofs` proves every property of `GuidedMission` but the liveness of `MissionEnds`, for
every acceptable state machine and every set of rates `RatesAccepted` lets through; and, without a
run of its own, that the pad holds the launch attitude (`PadHoldsLaunchAttitude`). `GuidedInv` has the nesting of the rates as facts
about remainders: where plant, autopilot and guidance stand relative to each other (`TimeLine`) and
to the epoch (`Ahead`), so that a native step past the start begins only at an epoch whose control
state has been fed back (`FedBack`). On this rest the latched attitude (`Piloted`), the command
and the thresholds not yet passed (`Commanded`), the entry window's countdown (`Filtered`), the last
two samples (`Sampled`), the reported phase (`Followed`) and the IMU's schedule (`Observed`).
`DueTransitionsTaken` follows from `Commanded` and `TimeLine`: entry and guidance steps lie on
multiples of the guidance period, so that what is due at one has been evaluated by the next.

`LaunchProofs` proves `PhasesAgree` and `ValidatedIsBuildable` for every configuration of the shape
`SetupsAssumption` names, whatever `initial_truth` copies. Its lemmas are stated about a list of
phases, which is `mission.phases` or the list of a machine in `initial_truth`: `PhaseList` shows that
an accepted list has distinct IDs, so that a position and an ID determine each other; `MissionShape`,
`MissionGraph` and `MachineShape` then describe the host's graph and a compiled machine phase by
phase. For `ValidatedIsBuildable` each check of a constructor is derived from a validator's of the
same flattened trajectory (`MachineAcceptable`, `SourceOfValidated`, `ApplySucceeds`,
`FirstPhaseOfValidated`) or is one of those `Undetected` lists; `LaunchInv` carries this from step to
step. `PhasesAgree` speaks of generated sources only: although `SwilRuntimeConfig.hpp:66` calls
`mission.phases` the sole phase graph, a stationary source that a copied type turns into a state
machine flies the graph in its `initial_truth`, which no validator compares with the mission's.

`RingBufferProofs` shows what each operation of a ring buffer does to the sequence of its contents, for
every size: the remainder that wraps an index is a case distinction (`Wrapped`), so that the slot of
the i-th oldest value keeps its place when the head moves and shifts by one when the tail does.
`SensorPipelineProofs` uses it to prove for every capacity and every configuration that head, tail
and count of each buffer agree (`RingsWellFormed`) and that the pipeline implements `BoundedQueues`
(`BuffersImplementQueues`): a push is an entry, a refusal or a replacement, a pop, two pops and the
emptying of a sensor are each a departure of the oldest values. Both theorems rest on one lemma,
`EveryStepMovesQueues`, with a lemma for each action below it. Times need no type for this: a buffer
is well formed for the values it holds.

The rest of `SensorPipelineProofs` proves the properties about times, for every number of
nanoseconds in a second. A timestamp is the nearest value to its sample's exact time
(`ElapsedNearest`), and nearest values are ordered as what they are nearest to, whatever the
denominators (`NearestOrder`). So the samples of a rate that the application's is a multiple of are
samples of the application's, to the nanosecond, although each is computed from its own rate
(`CommonSamples`, from `MultipleMeans`: cancelling against greatest common divisors accepts multiples
only); hence no sample lies between two epochs (`EpochMeetsSample`), and a schedule consumes at most
one index at an epoch (`DueStep`). `Timed` and `Scheduled` say where epochs and schedules stand,
`Covered` that the increments, with the one that waits for its publication, tile the time and which
index of the grid each ends at. The last index is the subtle one: a sample that is followed by no
timestamp is consumed without an increment (`NextAfter`), and the first increment takes index 1 with it
if the first epoch is its time (`Shift`). `Received` relates the measurements to the grid before the
schedule's next index, `RateFollows` the angular rate to the increments. Together they are
`SourceInv`, which implies `IncrementsTile`, `MeasurementsKeepGrid` and `RateOfNewestIncrement`;
`Stored` adds the types of what is in the buffers, for `PipelineTypeOK`. That neighbouring increments
are even to a nanosecond follows from the rounding alone (`EvenPeriods`).

Assumptions are the named ASSUMEs of the modules: a finite set of phases and probabilities without
the absent value, missions of the loader's shape, positive capacities and periods, state machines
whose parts have their types, waypoints, and configurations whose names of sources, models and
policies are known ones (the parser refuses the others before anything else). TLC evaluates them in
every run.

`SensorPipeline` has two assumptions more. `SetupsAssumption` gives configurations their types, with
rates and periods that are positive (`validate_runtime_rate`) and an end that is a timestamp.
`RangeAssumption` says what the code does not check and no sensible configuration comes near: that
the seconds of a cycle do not overflow, that a rate has no more than one sample in a nanosecond, and
that the IMU's first two samples are timestamps; and that `MaxIndex`, which is the model's, lies
beyond the end. Without the second, two samples of a rate have the same timestamp.

Only model-checked: `FinalizeProcessesAll` and `MissionEnds`, because they are liveness; and the
violations, which need a behaviour and not a proof.

## 5. Not modelled, and the plan

Left out because TLC cannot compute with them: floating-point mathematics (mechanization, filter
matrices, the guidance, autopilot and vehicle laws, error models and noise, interpolation, the
chi-square quantile, frames and earth models). What such a computation decides is a choice: an
innovation is accepted or not, a waypoint reached or not, the ground touched or not, an evaluation
finite or failed.

Left out because nothing in a mission depends on them: log and CSV formats, profiling, plots and
analysis, build and quality tools. Wall-clock pacing of the realtime clock is left out: a clock only
moves forward to its deadline. JSON syntax and error texts are abstracted. In `SwilNavigation` a
mission ends on an epoch; ends between epochs are in `MissionApp`, `GuidedMission` and
`SensorPipeline`. An exception that passes the cleanup leaves the adapter unfinalized; `FinalizedOnce`
then says no more than that nothing is finalized twice, and nothing in the repository promises more.
That a second measurement of a batch is linearized without the first one's
correction concerns values no module has.

Planned next, in this order:

1. A composition of mission phases and `SwilNavigation`: which gate judges a held-back measurement.
2. The Monte Carlo and qualification runners: worker pool, retries, evidence of interrupted campaigns.
