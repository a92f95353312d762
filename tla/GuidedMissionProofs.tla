-------------------------- MODULE GuidedMissionProofs --------------------------
(***************************************************************************)
(* The guided mission for every set of acceptable state-machine definitions   *)
(* and rates: which native step an epoch stands on, what guidance, filter,     *)
(* autopilot and plant know of each other, and what the mission reports.       *)
(***************************************************************************)
EXTENDS GuidedMission, SequenceTheorems, WellFoundedInduction, TLAPS

-----------------------------------------------------------------------------
(* The inductive invariant. *)

\* Where a control state that Navigation fed back comes from.
ControlOrigin == IF rates.estimated THEN "estimated" ELSE "configured"

\* The source before initialize() and the adapter before its first epoch.
BeforeStart ==
    stage = "initialize" =>
        /\ plantT = 0 /\ truth = <<>> /\ epoch = None /\ launchQ = None /\ control = None
        /\ imuTimes = <<>> /\ gyro = <<>> /\ imuDue = 0

\* The plant stands on its own grid, at most a guidance period past the last guidance
\* step, and past both controllers once it has moved.
TimeLine ==
    /\ tEnd % rates.dynamics = 0 /\ 0 < tEnd /\ plantT <= tEnd
    /\ plantT % rates.dynamics = 0
    /\ guidanceT % rates.guidance = 0 /\ guidanceT <= plantT /\ plantT <= guidanceT + rates.guidance
    /\ autopilotT <= plantT
    /\ plantT > 0 => guidanceT < plantT /\ autopilotT < plantT
    /\ complete => plantT = tEnd

\* The plant stands less than a native step past the epoch, and a native step starts
\* only from an epoch that the plant stands at exactly.
Ahead ==
    /\ IF epoch = None THEN plantT = 0 ELSE epoch % rates.app = 0 /\ epoch <= plantT
    /\ stage = "prepare" /\ epoch # None => epoch < tEnd /\ plantT < epoch + rates.dynamics
    /\ stage \in {"advance", "impact"} => epoch # None
    /\ stage \in {"advance", "impact", "query"} =>
        /\ target = (IF epoch = None THEN 0 ELSE epoch + rates.app)
        /\ target <= tEnd /\ plantT < target + rates.dynamics
    /\ stage = "advance" /\ plantT < target => plantT = epoch
    /\ stage = "impact" => plantT = tEnd
    /\ stage = "query" => target <= plantT /\ (target = tEnd => complete)
    /\ stage \in {"synchronize", "publish", "feed_back"} =>
        /\ epoch # None /\ epoch <= tEnd /\ plantT < epoch + rates.dynamics
        /\ terminal = (epoch = tEnd)
    /\ stage = "finished" => epoch = tEnd

\* The source holds the control state of the epoch when it is advanced.
FedBack ==
    /\ stage \in {"prepare", "advance", "impact", "query"} /\ epoch # None =>
        control # None /\ control.t = epoch /\ captured = ControlOrigin
    /\ stage \in {"synchronize", "publish", "feed_back"} /\ epoch > 0 => captured = ControlOrigin
    /\ stage # "initialize" /\ epoch # None => autopilotT <= epoch

\* The attitude latched is the one the last command calls for.
Piloted ==
    stage # "initialize" => launchQ = "configured" /\ latchedQ = Latched(command, "configured")

\* The command is the active state's, and no threshold has passed at the last guidance step.
Commanded ==
    /\ entered <= guidanceT
    /\ plantT = 0 => active = definition.initial
    /\ \E e \in BOOLEAN : command = Execution(active, e)
    /\ \A tr \in ToSet(State(active).transitions) : guidanceT - entered < tr.after

\* What the first filter step of a state counts down: a native step at the start of
\* the trajectory, a guidance period elsewhere.
FirstCountdown == IF entered = 0 THEN rates.dynamics ELSE rates.guidance

\* What is left of the entry window.
Filtered ==
    stage # "initialize" =>
        /\ constants.of = active /\ constants.entry = (remaining > 0)
        /\ remaining = LeftAfter(State(active).onEntry, (guidanceT - entered) + FirstCountdown)

\* The last sample is of the plant's instant, and what it has to do with the one before it.
Sampled ==
    stage # "initialize" =>
        LET n == Len(truth)
        IN  /\ n >= 1 /\ (n = 1 <=> plantT = 0)
            /\ truth[n].t = plantT /\ truth[n].state = active
            /\ truth[n].pad = State(active).pad /\ truth[n].response = response
            /\ wasPad = State(active).pad
            /\ n = 1 => truth[n].held = truth[n].pad
            /\ n > 1 =>
                /\ truth[n - 1].t = plantT - rates.dynamics
                /\ truth[n].held = (truth[n].pad \/ truth[n - 1].pad)
                /\ truth[n].response =
                      (IF truth[n].pad THEN truth[n - 1].response ELSE truth[n - 1].response + 1)
                /\ \/ truth[n].state = truth[n - 1].state
                   \/ truth[n].state \in Targets(definition, truth[n - 1].state)

\* The state of the sample that covers the epoch.
Shown == truth[IF epoch # None /\ plantT > epoch THEN Len(truth) - 1 ELSE Len(truth)].state

\* The adapter reports that state, and the runtime has followed it.
Followed ==
    /\ stage \notin {"initialize", "failed"} => reported = Shown
    /\ stage \notin {"initialize", "failed", "synchronize"} => phase = reported
    /\ stage = "synchronize" => reported = phase \/ reported \in Targets(definition, phase)
    /\ stage # "phase_rejected"

\* The epoch published last, 0 if the initial one was the last.
Published ==
    IF epoch = None THEN 0
    ELSE IF stage \in {"synchronize", "publish"} /\ epoch > 0 THEN epoch - rates.app ELSE epoch

\* The IMU's schedule stands past the epoch published, and no more than a period past
\* its last increment.
Observed ==
    /\ gyro = SubSeq(imuTimes, Len(imuTimes) - Min({Len(imuTimes), rates.window}) + 1, Len(imuTimes))
    /\ stage # "initialize" =>
        IF Published = 0 THEN imuTimes = <<>> /\ imuDue = 0
        ELSE imuTimes # <<>> /\ Published < imuDue /\ imuDue <= imuTimes[Len(imuTimes)] + rates.imu

GuidedInv ==
    /\ GuidedTypeOK /\ BeforeStart /\ TimeLine /\ Ahead /\ FedBack /\ Piloted /\ Commanded
    /\ Filtered /\ EntryConstantsWindow /\ Sampled /\ OneStepOverlap /\ Followed /\ Observed

-----------------------------------------------------------------------------
(* Arithmetic. *)

\* The smaller of two numbers.
LEMMA MinOfTwo ==
    ASSUME NEW a \in Int, NEW b \in Int PROVE Min({a, b}) = IF a <= b THEN a ELSE b
  <1>1. \A x \in {a, b} : (\A y \in {a, b} : x <= y) <=> x = (IF a <= b THEN a ELSE b)
    OBVIOUS
  <1>2. (IF a <= b THEN a ELSE b) \in {a, b}
    OBVIOUS
  <1> QED  BY <1>1, <1>2 DEF Min

\* The larger of two numbers.
LEMMA MaxOfTwo ==
    ASSUME NEW a \in Int, NEW b \in Int PROVE Max({a, b}) = IF a >= b THEN a ELSE b
  <1>1. \A x \in {a, b} : (\A y \in {a, b} : x >= y) <=> x = (IF a >= b THEN a ELSE b)
    OBVIOUS
  <1>2. (IF a >= b THEN a ELSE b) \in {a, b}
    OBVIOUS
  <1> QED  BY <1>1, <1>2 DEF Max

\* What the quotient and the remainder are.
LEMMA Division ==
    ASSUME NEW c \in Nat \ {0}, NEW e \in Nat
    PROVE  e \div c \in Nat /\ e % c \in 0..(c - 1) /\ e = c * (e \div c) + (e % c)
  OBVIOUS

\* A multiple has no remainder.
LEMMA MultipleHasNoRemainder == ASSUME NEW c \in Nat \ {0}, NEW q \in Nat PROVE (c * q) % c = 0
  OBVIOUS

\* Two different multiples are a step apart.
LEMMA MultiplesApart ==
    ASSUME NEW c \in Nat \ {0}, NEW m \in Nat, NEW n \in Nat, m % c = 0, n % c = 0, m < n
    PROVE  m + c <= n
  <1> DEFINE p == m \div c
             q == n \div c
  <1>1. p \in Nat /\ q \in Nat /\ m = c * p /\ n = c * q
    BY Division
  <1> HIDE DEF p, q
  <1>2. p < q
    BY <1>1
  <1>3. q = p + 1 + (q - p - 1) /\ q - p - 1 \in Nat
    BY <1>1, <1>2
  <1>4. c * q = c * p + c + c * (q - p - 1) /\ c * (q - p - 1) \in Nat
    BY <1>1, <1>3
  <1> QED  BY <1>1, <1>4

\* The sum of multiples is one.
LEMMA SumOfMultiples ==
    ASSUME NEW c \in Nat \ {0}, NEW m \in Nat, NEW n \in Nat, m % c = 0, n % c = 0
    PROVE  (m + n) % c = 0
  <1> DEFINE p == m \div c
             q == n \div c
  <1>1. p \in Nat /\ q \in Nat /\ m = c * p /\ n = c * q
    BY Division
  <1> HIDE DEF p, q
  <1>2. m + n = c * (p + q) /\ p + q \in Nat
    BY <1>1
  <1> QED  BY <1>2, MultipleHasNoRemainder

\* So is a multiple of a multiple.
LEMMA MultipleOfMultiple ==
    ASSUME NEW c \in Nat \ {0}, NEW m \in Nat \ {0}, NEW n \in Nat, m % c = 0, n % m = 0
    PROVE  n % c = 0
  <1> DEFINE q == m \div c
             r == n \div m
  <1>1. q \in Nat /\ r \in Nat /\ m = c * q /\ n = m * r
    BY Division
  <1> HIDE DEF q, r
  <1>2. n = c * (q * r) /\ q * r \in Nat
    BY <1>1
  <1> QED  BY <1>2, MultipleHasNoRemainder

\* A number and itself, and the smallest multiple.
LEMMA OwnMultiple == ASSUME NEW c \in Nat \ {0} PROVE c % c = 0 /\ 0 % c = 0
  OBVIOUS

\* A positive multiple is not less than what it is a multiple of.
LEMMA MultipleIsLarger ==
    ASSUME NEW c \in Nat \ {0}, NEW m \in Nat \ {0}, m % c = 0 PROVE c <= m
  OBVIOUS

\* The first multiple past a number.
LEMMA FirstMultipleAfter ==
    ASSUME NEW c \in Nat \ {0}, NEW e \in Nat
    PROVE  /\ c * ((e \div c) + 1) \in Nat
           /\ e < c * ((e \div c) + 1) /\ c * ((e \div c) + 1) <= e + c
  <1> DEFINE q == e \div c
             r == e % c
  <1>1. q \in Nat /\ r \in 0..(c - 1) /\ e = c * q + r
    BY Division
  <1> HIDE DEF q, r
  <1>2. c * (q + 1) = c * q + c /\ c * q \in Nat
    BY <1>1
  <1>3. c * (q + 1) \in Nat /\ e < c * (q + 1) /\ c * (q + 1) <= e + c
    BY <1>1, <1>2
  <1> QED  BY <1>3 DEF q

\* A set of numbers that is not empty has a least one.
LEMMA LeastNumber == ASSUME NEW S \in SUBSET Nat, S # {} PROVE \E m \in S : m = 0 \/ m - 1 \notin S
  <1>1. PICK m \in S : \A k \in S : ~(<<k, m>> \in OpToRel(<, Nat))
    BY WFMin, NatLessThanWellFounded
  <1>2. \A k \in S : ~(k < m)
    BY <1>1 DEF OpToRel
  <1> QED  BY <1>2

-----------------------------------------------------------------------------
(* The configuration. *)

\* What the accepted rates say of the periods.
LEMMA Periods ==
    ASSUME GuidedTypeOK
    PROVE  /\ rates.app \in Nat \ {0} /\ rates.dynamics \in Nat \ {0} /\ rates.guidance \in Nat \ {0}
           /\ rates.imu \in Nat \ {0} /\ rates.window \in Nat \ {0} /\ rates.autopilot \in Nat \ {0}
           /\ rates.dynamics % rates.app = 0 /\ rates.guidance % rates.dynamics = 0
           /\ rates.guidance % rates.autopilot = 0
           /\ rates.app <= rates.dynamics /\ rates.dynamics <= rates.guidance
  <1>1. rates \in RateConfig /\ RatesAccepted(rates)
    BY RatesAssumption DEF GuidedTypeOK
  <1>2. /\ rates.app \in Nat \ {0} /\ rates.dynamics \in Nat \ {0} /\ rates.guidance \in Nat \ {0}
        /\ rates.imu \in Nat \ {0} /\ rates.window \in Nat \ {0} /\ rates.autopilot \in Nat \ {0}
    BY <1>1 DEF RateConfig
  <1>3. /\ rates.dynamics % rates.app = 0 /\ rates.autopilot % rates.dynamics = 0
        /\ rates.guidance % rates.autopilot = 0
    BY <1>1 DEF RatesAccepted
  <1>4. rates.guidance % rates.dynamics = 0
    BY <1>2, <1>3, MultipleOfMultiple
  <1>5. rates.app <= rates.dynamics /\ rates.dynamics <= rates.guidance
    BY <1>2, <1>3, <1>4, MultipleIsLarger
  <1> QED  BY <1>2, <1>3, <1>4, <1>5

\* The end of a profile is one of its native samples.
LEMMA EndIsSample ==
    ASSUME NEW r \in RateConfig
    PROVE  EndOfProfile(r) \in Nat /\ EndOfProfile(r) % r.dynamics = 0
  <1> DEFINE d == r.dynamics
             n == r.duration
             S == {t \in 0..n : t % d = 0 /\ t <= n}
             top == d * (n \div d)
  <1>1. d \in Nat \ {0} /\ n \in Nat
    BY DEF RateConfig
  <1>2. EndOfProfile(r) = CHOOSE x \in S : \A y \in S : x >= y
    BY DEF EndOfProfile, InProfile, Max
  <1>3. top \in S /\ \A y \in S : top >= y
    <2> DEFINE q == n \div d
               e == n % d
    <2>1. q \in Nat /\ e \in 0..(d - 1) /\ n = d * q + e
      BY <1>1, Division
    <2> HIDE DEF q, e
    <2>2. d * q \in 0..n /\ (d * q) % d = 0
      BY <1>1, <2>1, MultipleHasNoRemainder
    <2>3. ASSUME NEW y \in S
          PROVE  d * q >= y
      <3>1. y \in Nat /\ y <= n /\ y % d = 0 /\ d * q \in Nat
        BY <1>1, <2>2
      <3>2. d * q < y => d * q + d <= y
        BY <1>1, <2>2, <3>1, MultiplesApart
      <3> HIDE DEF d, n
      <3> QED  BY <1>1, <2>1, <3>1, <3>2
    <2> QED  BY <1>1, <2>2, <2>3 DEF q
  <1> HIDE DEF S, top
  <1>4. EndOfProfile(r) \in S
    BY <1>2, <1>3
  <1> QED  BY <1>1, <1>4 DEF S

\* What an acceptable definition says of its states and transitions.
LEMMA DefinitionFacts ==
    ASSUME GuidanceTypeOK
    PROVE  /\ definition.initial \in DOMAIN definition.states /\ DOMAIN definition.states \subseteq Nat
           /\ \A i \in DOMAIN definition.states :
                /\ State(i) \in StateDefinition
                /\ \A tr \in ToSet(State(i).transitions) :
                    /\ tr.to \in DOMAIN definition.states /\ tr.to \in Targets(definition, i)
                    /\ tr.after \in Nat \ {0} /\ tr.priority \in Int
  <1>1. /\ definition \in [initial : Nat, cycles : {"reject", "allow"}, states : Seq(StateDefinition)]
        /\ DefinitionAccepted(definition)
    BY DefinitionsAssumption DEF GuidanceTypeOK
  <1>2. definition.initial \in DOMAIN definition.states
    BY <1>1 DEF DefinitionAccepted
  <1>3. definition.states \in Seq(StateDefinition)
    BY <1>1
  <1>4. DOMAIN definition.states \subseteq Nat
    BY <1>3, LenProperties
  <1>5. ASSUME NEW i \in DOMAIN definition.states
        PROVE  /\ State(i) \in StateDefinition
               /\ \A tr \in ToSet(State(i).transitions) :
                    /\ tr.to \in DOMAIN definition.states /\ tr.to \in Targets(definition, i)
                    /\ tr.after \in Nat \ {0} /\ tr.priority \in Int
    <2>1. State(i) \in StateDefinition
      BY <1>3, ElementOfSeq, LenProperties DEF State
    <2>2. State(i).transitions \in Seq([to : Nat, after : Int, priority : Int])
      BY <2>1 DEF StateDefinition
    <2>3. ASSUME NEW tr \in ToSet(State(i).transitions)
          PROVE  /\ tr.to \in DOMAIN definition.states /\ tr.to \in Targets(definition, i)
                 /\ tr.after \in Nat \ {0} /\ tr.priority \in Int
      <3>1. PICK k \in DOMAIN State(i).transitions : tr = State(i).transitions[k]
        BY DEF ToSet
      <3>2. tr \in [to : Nat, after : Int, priority : Int]
        BY <2>2, <3>1, ElementOfSeq, LenProperties
      <3>3. tr.after > 0 /\ tr.to \in DOMAIN definition.states
        BY <1>1, <3>1 DEF DefinitionAccepted, TransitionsAccepted, State
      <3>4. tr.to \in Targets(definition, i)
        BY DEF Targets, State
      <3> QED  BY <3>2, <3>3, <3>4
    <2> QED  BY <2>1, <2>3
  <1> QED  BY <1>2, <1>4, <1>5

\* Of finitely many numbers one is the least.
LEMMA LeastOfMany ==
    ASSUME NEW n \in Nat, NEW f \in [1..n -> Int], NEW I \in SUBSET (1..n), I # {}
    PROVE  \E i \in I : \A j \in I : f[i] <= f[j]
  <1> DEFINE Least(i, k) == \A j \in I : j <= k => f[i] <= f[j]
             Bad == {k \in 0..n : /\ \E i \in I : i <= k
                                  /\ \A i \in I : i <= k => ~Least(i, k)}
  <1>1. \A i \in I : i \in Int /\ 1 <= i /\ i <= n /\ f[i] \in Int
    OBVIOUS
  <1>2. Bad \in SUBSET Nat
    OBVIOUS
  <1> HIDE DEF Least
  <1>3. \A k : k \in Bad <=> /\ k \in 0..n /\ \E i \in I : i <= k
                            /\ \A i \in I : i <= k => ~Least(i, k)
    OBVIOUS
  <1> HIDE DEF Bad
  <1>4. Bad = {}
    <2> SUFFICES ASSUME Bad # {} PROVE FALSE
      OBVIOUS
    <2>1. PICK m \in Bad : m = 0 \/ m - 1 \notin Bad
      BY <1>2, LeastNumber
    <2>2. m \in 0..n /\ (\E i \in I : i <= m) /\ \A i \in I : i <= m => ~Least(i, m)
      BY <1>3
    <2>3. m - 1 \in 0..n /\ m - 1 \notin Bad
      BY <1>1, <2>1, <2>2
    <2>4. \A i \in I : i <= m => i = m \/ i <= m - 1
      <3>1. m \in Int
        BY <2>2
      <3>2. \A i \in Int : i <= m => i = m \/ i <= m - 1
        BY <3>1
      <3> QED  BY <1>1, <3>2
    <2>5. CASE \E i \in I : i <= m - 1
      <3>1. PICK i \in I : i <= m - 1 /\ Least(i, m - 1)
        BY <1>3, <2>3, <2>5
      <3>2. i <= m
        BY <1>1, <2>2, <3>1
      <3>3. CASE m \in I /\ f[m] < f[i]
        <4>1. Least(m, m)
          BY <1>1, <2>4, <3>1, <3>3 DEF Least
        <4> QED  BY <2>2, <3>3, <4>1
      <3>4. CASE m \in I => f[i] <= f[m]
        <4>1. Least(i, m)
          BY <1>1, <2>4, <3>1, <3>4 DEF Least
        <4> QED  BY <2>2, <3>2, <4>1
      <3>5. m \in I => f[m] < f[i] \/ f[i] <= f[m]
        BY <1>1, <3>1
      <3> QED  BY <3>3, <3>4, <3>5
    <2>6. CASE ~\E i \in I : i <= m - 1
      <3>1. m \in I
        BY <2>2, <2>4, <2>6
      <3>2. Least(m, m)
        BY <1>1, <2>4, <2>6, <3>1 DEF Least
      <3> QED  BY <2>2, <3>1, <3>2
    <2> QED  BY <2>5, <2>6
  <1>5. (\E i \in I : i <= n) /\ n \in 0..n
    <2>1. \E i \in I : TRUE
      OBVIOUS
    <2> QED  BY <1>1, <2>1
  <1>6. PICK i \in I : Least(i, n)
    BY <1>3, <1>4, <1>5
  <1> QED  BY <1>1, <1>6 DEF Least

\* So of a state's transitions one is the most urgent.
LEMMA MostUrgentExists ==
    ASSUME NEW s \in Seq([to : Nat, after : Int, priority : Int]), NEW T \in SUBSET ToSet(s), T # {}
    PROVE  MostUrgent(T) \in T /\ \A other \in T : MostUrgent(T).priority <= other.priority
  <1> DEFINE n == Len(s)
             f == [i \in 1..n |-> s[i].priority]
             I == {i \in 1..n : s[i] \in T}
  <1>1. n \in Nat /\ DOMAIN s = 1..n
    BY LenProperties
  <1>2. \A i \in 1..n : s[i] \in [to : Nat, after : Int, priority : Int]
    BY ElementOfSeq
  <1>3. f \in [1..n -> Int]
    BY <1>2
  <1>4. \A tr \in T : \E i \in 1..n : tr = s[i]
    BY <1>1 DEF ToSet
  <1>5. I \in SUBSET (1..n) /\ I # {}
    BY <1>4
  <1>6. \A i \in 1..n : f[i] = s[i].priority
    OBVIOUS
  <1> HIDE DEF n, f
  <1>7. PICK i \in I : \A j \in I : f[i] <= f[j]
    BY <1>1, <1>3, <1>5, LeastOfMany
  <1>8. ASSUME NEW other \in T
        PROVE  s[i].priority <= other.priority
    <2>1. PICK j \in 1..n : other = s[j]
      BY <1>4
    <2>2. i \in 1..n /\ j \in I
      BY <2>1
    <2>3. f[i] <= f[j]
      BY <1>7, <2>2
    <2> QED  BY <1>6, <2>1, <2>2, <2>3
  <1> QED  BY <1>8 DEF MostUrgent

-----------------------------------------------------------------------------
(* The guidance of a native step. *)

\* A native step starts from the epoch the control state is of; if guidance is due, its
\* last step was a period ago.
LEMMA StepsFromEpoch ==
    ASSUME GuidedInv, Advance
    PROVE  /\ plantT = epoch /\ epoch \in Nat /\ epoch # None /\ ControlTime = plantT
           /\ captured = ControlOrigin /\ control # None /\ control.t = plantT
           /\ GuidanceDue => plantT = guidanceT + rates.guidance
           /\ ~GuidanceDue => plantT < guidanceT + rates.guidance
  <1>1. stage = "advance" /\ plantT < target
    BY DEF Advance
  <1>2. /\ epoch # None /\ plantT = epoch /\ control # None /\ control.t = epoch
        /\ captured = ControlOrigin
    BY <1>1 DEF GuidedInv, Ahead, FedBack
  <1>3. plantT \in Nat /\ guidanceT \in Nat
    BY DEF GuidedInv, GuidedTypeOK
  <1>4. ControlTime = plantT
    BY <1>2, <1>3 DEF ControlTime
  <1> DEFINE g == rates.guidance
  <1>5. /\ g \in Nat \ {0} /\ guidanceT % g = 0 /\ guidanceT <= plantT /\ plantT <= guidanceT + g
    BY Periods DEF GuidedInv, TimeLine
  <1>6. GuidanceDue <=> plantT > guidanceT /\ plantT % g = 0
    BY DEF GuidanceDue
  <1> HIDE DEF g
  <1>7. CASE GuidanceDue
    <2>1. guidanceT + g <= plantT
      BY <1>3, <1>5, <1>6, <1>7, MultiplesApart
    <2>2. plantT = guidanceT + g
      BY <1>3, <1>5, <2>1
    <2> QED  BY <1>2, <1>3, <1>4, <1>7, <2>2 DEF g
  <1>8. CASE ~GuidanceDue
    <2>1. plantT # guidanceT + g
      <3>1. (guidanceT + g) % g = 0
        BY <1>3, <1>5, OwnMultiple, SumOfMultiples
      <3>2. guidanceT + g > guidanceT
        BY <1>3, <1>5
      <3> QED  BY <1>6, <1>8, <3>1, <3>2
    <2>2. plantT < guidanceT + g
      BY <1>3, <1>5, <2>1
    <2> QED  BY <1>2, <1>3, <1>4, <1>8, <2>2 DEF g
  <1> QED  BY <1>7, <1>8

\* What a guidance step does.
LEMMA GuidanceTurn ==
    ASSUME GuidedInv, Advance, GuidanceDue
    PROVE  /\ guidanceT' = plantT /\ UNCHANGED <<captured, definition, rates>>
           /\ \E moved \in BOOLEAN :
                /\ moved <=> Elapsed(active, plantT) # {}
                /\ active' = (IF moved THEN Successor(plantT) ELSE active)
                /\ entered' = (IF moved THEN plantT ELSE entered)
                /\ AdvanceRoute(active')
                /\ command' = Execution(active', moved)
                /\ AdvanceFilter(Execution(active', moved), rates.guidance)
  <1>1. ControlTime = plantT /\ plantT = guidanceT + rates.guidance
    BY StepsFromEpoch
  <1>2. /\ AdvanceMachine(plantT) /\ AdvanceFilter(command', plantT - guidanceT) /\ guidanceT' = plantT
        /\ UNCHANGED <<definition, rates>>
    BY <1>1 DEF Advance, NativeStep, AdvanceGuidanceFilter
  <1>3. plantT - guidanceT = rates.guidance
    <2>1. guidanceT \in Nat /\ rates.guidance \in Nat
      BY Periods DEF GuidedInv, GuidedTypeOK
    <2> QED  BY <1>1, <2>1
  <1>4. PICK moved, next :
          /\ moved = (Elapsed(active, plantT) # {})
          /\ next = (IF moved THEN Successor(plantT) ELSE active)
          /\ active' = next /\ UNCHANGED captured
          /\ entered' = (IF moved THEN plantT ELSE entered)
          /\ AdvanceRoute(next)
          /\ command' = Execution(next, moved)
    BY <1>2, Zenon DEF AdvanceMachine
  <1>5. moved \in BOOLEAN
    BY <1>4
  <1>6. AdvanceFilter(Execution(active', moved), rates.guidance)
    BY <1>2, <1>3, <1>4
  <1> QED  BY <1>2, <1>4, <1>5, <1>6

\* Any other native step leaves guidance and filter alone.
LEMMA NoGuidanceTurn ==
    ASSUME Advance, ~GuidanceDue
    PROVE  UNCHANGED <<guidanceVars, guidanceT, rates>>
  BY DEF Advance, NativeStep, guidanceVars

\* The transition a guidance step takes.
LEMMA SuccessorFacts ==
    ASSUME GuidanceTypeOK, NEW t, Elapsed(active, t) # {}
    PROVE  /\ MostUrgent(Elapsed(active, t)) \in Elapsed(active, t)
           /\ \A other \in Elapsed(active, t) :
                MostUrgent(Elapsed(active, t)).priority <= other.priority
           /\ Successor(t) \in DOMAIN definition.states
           /\ Successor(t) \in Targets(definition, active)
  <1>1. active \in DOMAIN definition.states
    BY DEF GuidanceTypeOK
  <1>2. State(active).transitions \in Seq([to : Nat, after : Int, priority : Int])
    BY <1>1, DefinitionFacts DEF StateDefinition
  <1>3. Elapsed(active, t) \in SUBSET ToSet(State(active).transitions)
    BY DEF Elapsed
  <1>4. /\ MostUrgent(Elapsed(active, t)) \in Elapsed(active, t)
        /\ \A other \in Elapsed(active, t) :
                MostUrgent(Elapsed(active, t)).priority <= other.priority
    BY <1>2, <1>3, MostUrgentExists
  <1>5. MostUrgent(Elapsed(active, t)) \in ToSet(State(active).transitions)
    BY <1>3, <1>4
  <1> QED  BY <1>1, <1>4, <1>5, DefinitionFacts DEF Successor

\* A countdown stops at zero.
LEMMA Countdown ==
    ASSUME NEW left \in Nat, NEW dt \in Nat
    PROVE  /\ LeftAfter(left, dt) = IF left > dt THEN left - dt ELSE 0
           /\ LeftAfter(left, dt) \in Nat
  <1>1. LeftAfter(left, dt) = IF 0 >= left - dt THEN 0 ELSE left - dt
    BY MaxOfTwo DEF LeftAfter
  <1> QED  BY <1>1

\* A filter step uses a state's entry constants while the window that began with the
\* state is open.
LEMMA FilterStep ==
    ASSUME GuidanceTypeOK, NEW i \in DOMAIN definition.states, NEW moved \in BOOLEAN, NEW dt \in Nat,
           AdvanceFilter(Execution(i, moved), dt),
           ~moved => constants.of = i /\ constants.entry = (remaining > 0)
    PROVE  /\ applied' = [of |-> i, entry |-> IF moved THEN State(i).onEntry > 0 ELSE remaining > 0]
           /\ remaining' = LeftAfter(IF moved THEN State(i).onEntry ELSE remaining, dt)
           /\ constants' = [of |-> i, entry |-> remaining' > 0]
           /\ remaining' \in Nat /\ State(i).onEntry \in Nat
  <1> DEFINE w == State(i).onEntry
             e == Execution(i, moved)
             used == SelectConstants(e)
  <1>1. w \in Nat /\ remaining \in Nat
    BY DefinitionFacts DEF StateDefinition, GuidanceTypeOK
  <1>2. e.state = i /\ e.entered = moved
    BY DEF Execution
  <1>3. /\ applied' = [of |-> used.of, entry |-> used.entry]
        /\ remaining' = LeftAfter(used.left, dt)
        /\ constants' = [of |-> IF remaining' = 0 THEN e.state ELSE used.of,
                         entry |-> used.entry /\ remaining' > 0]
    BY Zenon DEF AdvanceFilter
  <1>4. used = IF moved /\ w > 0 THEN [of |-> i, entry |-> TRUE, left |-> w]
               ELSE IF moved \/ remaining <= 0 THEN [of |-> i, entry |-> FALSE, left |-> 0]
               ELSE [of |-> constants.of, entry |-> constants.entry, left |-> remaining]
    BY <1>2 DEF SelectConstants
  <1> HIDE DEF e, used
  <1>5. /\ used.of = i
        /\ used.left = IF moved THEN w ELSE remaining
        /\ used.entry = IF moved THEN w > 0 ELSE remaining > 0
    <2>1. CASE moved /\ w > 0
      <3>1. used = [of |-> i, entry |-> TRUE, left |-> w]
        BY <1>4, <2>1
      <3> QED  BY <2>1, <3>1
    <2>2. CASE moved /\ ~(w > 0)
      <3>1. used = [of |-> i, entry |-> FALSE, left |-> 0] /\ w = 0
        BY <1>1, <1>4, <2>2
      <3>2. used.of = i /\ used.left = (IF moved THEN w ELSE remaining) /\ used.entry = FALSE
        BY <2>2, <3>1
      <3>3. (IF moved THEN w > 0 ELSE remaining > 0) = FALSE
        BY <2>2
      <3> QED  BY <3>2, <3>3
    <2>3. CASE ~moved /\ ~(remaining > 0)
      <3>1. used = [of |-> i, entry |-> FALSE, left |-> 0] /\ remaining = 0
        BY <1>1, <1>4, <2>3
      <3>2. used.of = i /\ used.left = (IF moved THEN w ELSE remaining) /\ used.entry = FALSE
        BY <2>3, <3>1
      <3>3. (IF moved THEN w > 0 ELSE remaining > 0) = FALSE
        BY <2>3
      <3> QED  BY <3>2, <3>3
    <2>4. CASE ~moved /\ remaining > 0
      <3>1. used = [of |-> constants.of, entry |-> constants.entry, left |-> remaining]
        BY <1>1, <1>4, <2>4
      <3> QED  BY <2>4, <3>1
    <2> QED  BY <2>1, <2>2, <2>3, <2>4
  <1>6. remaining' \in Nat /\ (remaining' > 0 => used.left > 0)
    <2>1. used.left \in Nat
      BY <1>1, <1>5
    <2>2. remaining' = IF used.left > dt THEN used.left - dt ELSE 0
      BY <1>3, <2>1, Countdown
    <2> QED  BY <2>1, <2>2
  <1>7. (used.entry /\ remaining' > 0) = (remaining' > 0)
    <2>1. remaining' > 0 => used.entry
      BY <1>1, <1>5, <1>6
    <2> QED  BY <2>1
  <1>8. constants' = [of |-> i, entry |-> remaining' > 0]
    BY <1>2, <1>3, <1>5, <1>7
  <1> QED  BY <1>1, <1>3, <1>5, <1>6, <1>8

-----------------------------------------------------------------------------
(* A native step. *)

\* What every native step does, whatever is due.
LEMMA NativeStepParts ==
    ASSUME GuidedInv, Advance
    PROVE  /\ stage = "advance" /\ plantT < target /\ plantT + rates.dynamics <= tEnd
           /\ stage' = (IF complete' /\ ~complete THEN "impact" ELSE "advance")
           /\ plantT' = plantT + rates.dynamics
           /\ IF AutopilotDue
              THEN autopilotT' = plantT /\ latchedQ' = Latched(command', launchQ)
              ELSE UNCHANGED <<autopilotT, latchedQ>>
           /\ response' = (IF command'.pad THEN response ELSE response + 1)
           /\ wasPad' = command'.pad
           /\ truth' = Append(truth, [t |-> plantT', state |-> command'.state, pad |-> command'.pad,
                                      held |-> command'.pad \/ wasPad, response |-> response'])
           /\ departed' \in BOOLEAN
           /\ \/ tEnd' = tEnd /\ complete' = complete
              \/ tEnd' = plantT' /\ complete' = TRUE
           /\ UNCHANGED <<definition, rates, control, launchQ, gyro, available, epoch, target,
                          terminal, reported, phase, imuDue, imuTimes>>
  <1>1. /\ stage = "advance" /\ plantT < target
        /\ stage' = (IF complete' /\ ~complete THEN "impact" ELSE "advance")
        /\ UNCHANGED <<epoch, target, terminal, reported, phase, imuDue, imuTimes>>
        /\ NativeStep
    BY DEF Advance
  <1>2. /\ plantT + rates.dynamics <= tEnd /\ plantT' = plantT + rates.dynamics
        /\ IF AutopilotDue
           THEN autopilotT' = plantT /\ latchedQ' = Latched(command', launchQ)
           ELSE UNCHANGED <<autopilotT, latchedQ>>
        /\ AdvanceResponse(command') /\ Record(Sample(plantT', command', Held(command')))
        /\ GroundContact(Held(command'), plantT') /\ wasPad' = command'.pad
        /\ UNCHANGED <<definition, rates, control, launchQ, gyro, available>>
    BY <1>1, Zenon DEF NativeStep
  <1>3. /\ departed' \in BOOLEAN
        /\ \/ tEnd' = tEnd /\ complete' = complete
           \/ tEnd' = plantT' /\ complete' = TRUE
    <2>1. departed \in BOOLEAN
      BY DEF GuidedInv, GuidedTypeOK
    <2>2. \/ departed' = departed /\ tEnd' = tEnd /\ complete' = complete
          \/ departed' = TRUE /\ tEnd' = tEnd /\ complete' = complete
          \/ departed' = TRUE /\ tEnd' = plantT' /\ complete' = TRUE
      BY <1>2, Zenon DEF GroundContact
    <2> QED  BY <2>1, <2>2
  <1>4. response' = (IF command'.pad THEN response ELSE response + 1)
    BY <1>2, Zenon DEF AdvanceResponse
  <1>5. truth' = Append(truth, [t |-> plantT', state |-> command'.state, pad |-> command'.pad,
                                held |-> command'.pad \/ wasPad, response |-> response'])
    BY <1>2, Zenon DEF Record, Sample, Held
  <1> QED  BY <1>1, <1>2, <1>3, <1>4, <1>5, Zenon

\* The command of a step is the active state's, which is the one before it or a target of
\* that one.
LEMMA CommandOfStep ==
    ASSUME GuidedInv, Advance
    PROVE  /\ active' \in DOMAIN definition.states
           /\ \E e \in BOOLEAN : command' = Execution(active', e)
           /\ command'.state = active' /\ command'.pad = State(active').pad
           /\ active' = active \/ active' \in Targets(definition, active)
           /\ ~GuidanceDue => active' = active /\ command' = command
  <1>1. GuidanceTypeOK /\ active \in DOMAIN definition.states
    BY DEF GuidedInv, GuidedTypeOK, GuidanceTypeOK
  <1>2. CASE GuidanceDue
    <2>1. PICK moved \in BOOLEAN :
            /\ moved <=> Elapsed(active, plantT) # {}
            /\ active' = (IF moved THEN Successor(plantT) ELSE active)
            /\ command' = Execution(active', moved)
      BY <1>2, GuidanceTurn
    <2>2. /\ active' \in DOMAIN definition.states
          /\ active' = active \/ active' \in Targets(definition, active)
      BY <1>1, <2>1, SuccessorFacts
    <2>3. command'.state = active' /\ command'.pad = State(active').pad
      BY <2>1 DEF Execution
    <2> QED  BY <1>2, <2>1, <2>2, <2>3
  <1>3. CASE ~GuidanceDue
    <2>1. active' = active /\ command' = command
      BY <1>3, NoGuidanceTurn DEF guidanceVars
    <2>2. PICK e \in BOOLEAN : command = Execution(active, e)
      BY DEF GuidedInv, Commanded
    <2>3. command'.state = active' /\ command'.pad = State(active').pad
      BY <2>1, <2>2 DEF Execution
    <2> QED  BY <1>1, <2>1, <2>2, <2>3
  <1> QED  BY <1>2, <1>3

\* A guidance step counts a filter step of a guidance period, and enters a state with its
\* window whole.
LEMMA FilterOfStep ==
    ASSUME GuidedInv, Advance, GuidanceDue
    PROVE  \E moved \in BOOLEAN :
              /\ moved <=> Elapsed(active, plantT) # {}
              /\ active' = (IF moved THEN Successor(plantT) ELSE active)
              /\ entered' = (IF moved THEN plantT ELSE entered)
              /\ applied' = [of |-> active',
                             entry |-> IF moved THEN State(active').onEntry > 0 ELSE remaining > 0]
              /\ remaining' = LeftAfter(IF moved THEN State(active').onEntry ELSE remaining,
                                        rates.guidance)
              /\ constants' = [of |-> active', entry |-> remaining' > 0]
              /\ remaining' \in Nat /\ State(active').onEntry \in Nat
  <1>1. PICK moved \in BOOLEAN :
            /\ moved <=> Elapsed(active, plantT) # {}
            /\ active' = (IF moved THEN Successor(plantT) ELSE active)
            /\ entered' = (IF moved THEN plantT ELSE entered)
            /\ AdvanceFilter(Execution(active', moved), rates.guidance)
    BY GuidanceTurn
  <1>2. GuidanceTypeOK /\ rates.guidance \in Nat /\ active' \in DOMAIN definition.states
    BY Periods, CommandOfStep DEF GuidedInv, GuidedTypeOK
  <1>3. ~moved => constants.of = active' /\ constants.entry = (remaining > 0)
    <2>1. stage # "initialize"
      BY NativeStepParts
    <2> QED  BY <1>1, <2>1 DEF GuidedInv, Filtered
  <1>4. /\ applied' = [of |-> active',
                       entry |-> IF moved THEN State(active').onEntry > 0 ELSE remaining > 0]
        /\ remaining' = LeftAfter(IF moved THEN State(active').onEntry ELSE remaining, rates.guidance)
        /\ constants' = [of |-> active', entry |-> remaining' > 0]
        /\ remaining' \in Nat /\ State(active').onEntry \in Nat
    BY <1>1, <1>2, <1>3, FilterStep
  <1> QED  BY <1>1, <1>4

\* A native step keeps the types of guidance.
LEMMA StepKeepsGuidanceTypes == ASSUME GuidedInv, Advance PROVE GuidanceTypeOK'
  <1>1. GuidanceTypeOK /\ plantT \in Nat
    BY DEF GuidedInv, GuidedTypeOK
  <1>2. CASE GuidanceDue
    <2>1. definition' = definition /\ captured' = captured
      BY <1>2, GuidanceTurn
    <2>2. entered' \in Nat /\ AdvanceRoute(active')
      BY <1>1, <1>2, GuidanceTurn DEF GuidanceTypeOK
    <2>3. active' \in DOMAIN definition.states /\ \E e \in BOOLEAN : command' = Execution(active', e)
      BY CommandOfStep
    <2>4. progress' \in [DOMAIN definition.states -> 0..Waypoints]
      <3>1. progress \in [DOMAIN definition.states -> 0..Waypoints] /\ Waypoints \in Nat
        BY <1>1, WaypointsAssumption DEF GuidanceTypeOK
      <3>2. CASE ~HasRoute(active')
        BY <2>2, <3>1, <3>2 DEF AdvanceRoute
      <3>3. CASE HasRoute(active')
        <4>1. PICK reached \in progress[active']..Waypoints :
                progress' = [progress EXCEPT ![active'] = reached]
          BY <2>2, <3>3 DEF AdvanceRoute
        <4>2. reached \in 0..Waypoints
          BY <2>3, <3>1
        <4> QED  BY <3>1, <4>1, <4>2
      <3> QED  BY <3>2, <3>3
    <2>5. remaining' \in Nat
      BY <1>2, FilterOfStep
    <2>6. {constants', applied'} \subseteq [of : DOMAIN definition.states, entry : BOOLEAN]
      <3>1. PICK moved \in BOOLEAN :
              /\ applied' = [of |-> active',
                             entry |-> IF moved THEN State(active').onEntry > 0 ELSE remaining > 0]
              /\ constants' = [of |-> active', entry |-> remaining' > 0]
              /\ remaining' \in Nat /\ State(active').onEntry \in Nat
        BY <1>2, FilterOfStep
      <3>2. \A x \in Nat : (x > 0) \in BOOLEAN
        OBVIOUS
      <3>3. remaining \in Nat
        BY <1>1 DEF GuidanceTypeOK
      <3>4. /\ (IF moved THEN State(active').onEntry > 0 ELSE remaining > 0) \in BOOLEAN
            /\ (remaining' > 0) \in BOOLEAN
        BY <3>1, <3>2, <3>3
      <3> QED  BY <2>3, <3>1, <3>4
    <2>7. \E i \in DOMAIN definition.states, e \in BOOLEAN : command' = Execution(i, e)'
      BY <2>1, <2>3 DEF Execution, State, Formation
    <2> QED  BY <1>1, <2>1, <2>2, <2>3, <2>4, <2>5, <2>6, <2>7 DEF GuidanceTypeOK
  <1>3. CASE ~GuidanceDue
    <2>1. UNCHANGED guidanceVars
      BY <1>3, NoGuidanceTurn
    <2> QED  BY <1>1, <2>1 DEF GuidanceTypeOK, guidanceVars, Execution, State, Formation
  <1> QED  BY <1>2, <1>3

\* The types of the times before a native step.
LEMMA TimesOfStep ==
    ASSUME GuidedTypeOK
    PROVE  /\ plantT \in Nat /\ guidanceT \in Nat /\ autopilotT \in Nat /\ entered \in Nat
           /\ tEnd \in Nat /\ response \in Nat /\ target \in Nat /\ remaining \in Nat
           /\ imuDue \in Nat /\ available \in Nat /\ (epoch # None => epoch \in Nat)
           /\ active \in DOMAIN definition.states /\ State(active).onEntry \in Nat
           /\ State(active).pad \in BOOLEAN
           /\ truth \in Seq([t : Nat, state : DOMAIN definition.states, pad : BOOLEAN,
                             held : BOOLEAN, response : Nat])
           /\ gyro \in Seq(Nat) /\ imuTimes \in Seq(Nat)
  <1>1. GuidanceTypeOK
    BY DEF GuidedTypeOK
  <1>2. active \in DOMAIN definition.states
    BY <1>1 DEF GuidanceTypeOK
  <1>3. State(active).onEntry \in Nat /\ State(active).pad \in BOOLEAN
    BY <1>1, <1>2, DefinitionFacts DEF StateDefinition
  <1> QED  BY <1>1, <1>2, <1>3 DEF GuidedTypeOK, GuidanceTypeOK

\* The plant reaches the next point of its grid, still within a guidance period of the
\* last guidance step.
LEMMA StepKeepsTimeLine == ASSUME GuidedInv, Advance PROVE TimeLine'
  <1> DEFINE d == rates.dynamics
             g == rates.guidance
  <1>1. /\ plantT \in Nat /\ guidanceT \in Nat /\ autopilotT \in Nat /\ tEnd \in Nat
        /\ d \in Nat \ {0} /\ g \in Nat \ {0} /\ d <= g /\ g % d = 0
    BY TimesOfStep, Periods DEF GuidedInv
  <1>2. /\ tEnd % d = 0 /\ 0 < tEnd /\ plantT <= tEnd /\ plantT % d = 0
        /\ guidanceT % g = 0 /\ guidanceT <= plantT /\ plantT <= guidanceT + g
        /\ autopilotT <= plantT /\ (complete => plantT = tEnd)
    BY DEF GuidedInv, TimeLine
  <1>3. /\ plantT + d <= tEnd /\ plantT' = plantT + d /\ rates' = rates
        /\ \/ tEnd' = tEnd /\ complete' = complete
           \/ tEnd' = plantT' /\ complete' = TRUE
        /\ (autopilotT' = plantT \/ autopilotT' = autopilotT)
        /\ guidanceT' = IF GuidanceDue THEN plantT ELSE guidanceT
    BY NativeStepParts, GuidanceTurn, NoGuidanceTurn
  <1>4. GuidanceDue => plantT = guidanceT + g
    BY StepsFromEpoch
  <1>5. ~GuidanceDue => plantT < guidanceT + g
    BY StepsFromEpoch
  <1> HIDE DEF d, g
  <1>6. (plantT + d) % d = 0
    BY <1>1, <1>2, OwnMultiple, SumOfMultiples
  <1>7. tEnd' % d = 0 /\ 0 < tEnd' /\ plantT' <= tEnd'
    BY <1>1, <1>2, <1>3, <1>6
  <1>8. guidanceT' % g = 0
    <2>1. (guidanceT + g) % g = 0
      BY <1>1, <1>2, OwnMultiple, SumOfMultiples
    <2> QED  BY <1>2, <1>3, <1>4, <2>1
  <1>9. guidanceT' <= plantT' /\ plantT' <= guidanceT' + g
    <2>1. CASE GuidanceDue
      BY <1>1, <1>3, <2>1
    <2>2. CASE ~GuidanceDue
      <3>1. (guidanceT + g) % d = 0
        <4>1. guidanceT % d = 0
          BY <1>1, <1>2, MultipleOfMultiple
        <4> QED  BY <1>1, <4>1, SumOfMultiples
      <3>2. plantT + d <= guidanceT + g
        <4>1. plantT < guidanceT + g /\ guidanceT + g \in Nat
          BY <1>1, <1>5, <2>2
        <4> QED  BY <1>1, <1>2, <3>1, <4>1, MultiplesApart
      <3> QED  BY <1>1, <1>2, <1>3, <2>2, <3>2
    <2> QED  BY <2>1, <2>2
  <1>10. guidanceT' < plantT' /\ autopilotT' < plantT'
    <2>1. guidanceT' <= plantT
      BY <1>1, <1>2, <1>3
    <2> QED  BY <1>1, <1>2, <1>3, <2>1
  <1>11. ASSUME complete' PROVE plantT' = tEnd'
    <2>1. plantT # tEnd
      BY <1>1, <1>3
    <2>2. ~(complete' = complete)
      BY <1>2, <1>11, <2>1
    <2> QED  BY <1>3, <2>2
  <1>12. autopilotT' <= plantT'
    BY <1>1, <1>2, <1>3
  <1> QED  BY <1>3, <1>6, <1>7, <1>8, <1>9, <1>10, <1>11, <1>12 DEF TimeLine, d, g

\* The epoch stays less than a native step behind.
LEMMA StepKeepsAhead == ASSUME GuidedInv, Advance PROVE Ahead'
  <1> DEFINE d == rates.dynamics
             a == rates.app
  <1>1. /\ plantT \in Nat /\ tEnd \in Nat /\ epoch \in Nat /\ epoch # None /\ plantT = epoch
        /\ d \in Nat \ {0} /\ a \in Nat \ {0} /\ a <= d
    BY TimesOfStep, Periods, StepsFromEpoch DEF GuidedInv
  <1>2. target = epoch + a /\ target <= tEnd /\ epoch % a = 0
    BY <1>1, NativeStepParts DEF GuidedInv, Ahead
  <1>3. /\ plantT' = plantT + d /\ UNCHANGED <<rates, epoch, target, terminal>>
        /\ \/ tEnd' = tEnd /\ complete' = complete
           \/ tEnd' = plantT' /\ complete' = TRUE
        /\ stage' = (IF complete' /\ ~complete THEN "impact" ELSE "advance")
    BY NativeStepParts
  <1>4. stage' = "impact" => tEnd' = plantT'
    <2>1. complete' = complete => ~(complete' /\ ~complete)
      BY Zenon
    <2> QED  BY <1>3, <2>1
  <1>5. stage' \in {"advance", "impact"}
    BY <1>3
  <1> HIDE DEF d, a
  <1>6. target <= tEnd' /\ epoch <= plantT' /\ plantT' < target + d /\ ~(plantT' < target)
    BY <1>1, <1>2, <1>3
  <1> QED  BY <1>1, <1>2, <1>3, <1>4, <1>5, <1>6 DEF Ahead, d, a

\* The control state of the epoch stays the one that is used.
LEMMA StepKeepsFedBack == ASSUME GuidedInv, Advance PROVE FedBack'
  <1>1. /\ stage = "advance" /\ epoch # None /\ control # None /\ control.t = epoch
        /\ captured = ControlOrigin /\ autopilotT <= epoch /\ plantT = epoch /\ epoch \in Nat
    BY StepsFromEpoch, NativeStepParts DEF GuidedInv, FedBack
  <1>2. /\ UNCHANGED <<rates, control, epoch>> /\ (autopilotT' = plantT \/ autopilotT' = autopilotT)
        /\ stage' \in {"advance", "impact"}
    BY NativeStepParts
  <1>3. captured' = captured
    BY GuidanceTurn, NoGuidanceTurn DEF guidanceVars
  <1> QED  BY <1>1, <1>2, <1>3 DEF FedBack, ControlOrigin

\* The autopilot is due whenever guidance is, so that it follows every command.
LEMMA AutopilotFollows == ASSUME GuidedInv, Advance, GuidanceDue PROVE AutopilotDue
  <1>1. /\ plantT \in Nat /\ guidanceT \in Nat /\ rates.autopilot \in Nat \ {0}
        /\ rates.guidance \in Nat \ {0} /\ rates.guidance % rates.autopilot = 0
    BY TimesOfStep, Periods DEF GuidedInv
  <1>2. plantT > guidanceT /\ plantT % rates.guidance = 0
    BY DEF GuidanceDue
  <1>3. plantT % rates.autopilot = 0
    BY <1>1, <1>2, MultipleOfMultiple
  <1>4. plantT > 0
    BY <1>1, <1>2
  <1>5. plantT > autopilotT
    BY <1>1, <1>4, TimesOfStep DEF GuidedInv, TimeLine
  <1> QED  BY <1>3, <1>5 DEF AutopilotDue

\* An autopilot step latches the attitude the new command calls for, and any other native
\* step keeps command and attitude.
LEMMA StepKeepsPiloted == ASSUME GuidedInv, Advance PROVE Piloted'
  <1>1. launchQ = "configured" /\ latchedQ = Latched(command, "configured")
    BY NativeStepParts DEF GuidedInv, Piloted
  <1>2. launchQ' = launchQ
    BY NativeStepParts
  <1>3. CASE AutopilotDue
    BY <1>1, <1>2, <1>3, NativeStepParts DEF Piloted, Latched
  <1>4. CASE ~AutopilotDue
    <2>1. command' = command
      BY <1>4, AutopilotFollows, CommandOfStep
    <2>2. latchedQ' = latchedQ
      BY <1>4, NativeStepParts
    <2> QED  BY <1>1, <1>2, <2>1, <2>2 DEF Piloted, Latched
  <1> QED  BY <1>3, <1>4

\* No threshold has passed at the guidance step that is now the last.
LEMMA StepKeepsCommanded == ASSUME GuidedInv, Advance PROVE Commanded'
  <1>1. /\ plantT \in Nat /\ guidanceT \in Nat /\ entered \in Nat /\ rates.dynamics \in Nat \ {0}
        /\ GuidanceTypeOK
    BY TimesOfStep, Periods DEF GuidedInv, GuidedTypeOK
  <1>2. /\ entered <= guidanceT /\ guidanceT <= plantT
        /\ \A tr \in ToSet(State(active).transitions) : guidanceT - entered < tr.after
    BY DEF GuidedInv, Commanded, TimeLine
  <1>3. definition' = definition /\ plantT' > 0
    BY <1>1, NativeStepParts
  <1>4. /\ active' \in DOMAIN definition.states
        /\ \E e \in BOOLEAN : command' = Execution(active', e)
    BY CommandOfStep
  <1>5. entered' <= guidanceT' /\ \A tr \in ToSet(State(active').transitions) :
                                     guidanceT' - entered' < tr.after
    <2>1. CASE GuidanceDue
      <3>1. PICK moved \in BOOLEAN :
              /\ moved <=> Elapsed(active, plantT) # {}
              /\ active' = (IF moved THEN Successor(plantT) ELSE active)
              /\ entered' = (IF moved THEN plantT ELSE entered)
        BY <2>1, GuidanceTurn
      <3>2. guidanceT' = plantT
        BY <2>1, GuidanceTurn
      <3>3. CASE moved
        <4>1. entered' = plantT /\ guidanceT' - entered' = 0
          BY <1>1, <3>1, <3>2, <3>3
        <4>2. \A tr \in ToSet(State(active').transitions) : tr.after \in Nat \ {0}
          BY <1>1, <1>4, DefinitionFacts
        <4> QED  BY <1>1, <3>2, <4>1, <4>2
      <3>4. CASE ~moved
        <4>1. active' = active /\ entered' = entered /\ Elapsed(active, plantT) = {}
          BY <3>1, <3>4
        <4>2. \A tr \in ToSet(State(active).transitions) : ~(plantT - entered >= tr.after)
          BY <4>1 DEF Elapsed, Passed
        <4>3. \A tr \in ToSet(State(active).transitions) : tr.after \in Nat \ {0}
          BY <1>1, DefinitionFacts DEF GuidanceTypeOK
        <4> QED  BY <1>1, <1>2, <3>2, <4>1, <4>2, <4>3
      <3> QED  BY <3>3, <3>4
    <2>2. CASE ~GuidanceDue
      BY <1>2, <2>2, NoGuidanceTurn DEF guidanceVars
    <2> QED  BY <2>1, <2>2
  <1>6. (\E e \in BOOLEAN : command = Execution(active, e))'
    BY <1>3, <1>4 DEF Execution, State, Formation
  <1> QED  BY <1>3, <1>5, <1>6 DEF Commanded, State

\* The entry window is counted down by guidance periods.
LEMMA StepKeepsWindow == ASSUME GuidedInv, Advance PROVE Filtered' /\ EntryConstantsWindow'
  <1> DEFINE g == rates.guidance
             h == FirstCountdown
             w == State(active).onEntry
  <1>1. /\ plantT \in Nat /\ guidanceT \in Nat /\ entered \in Nat /\ remaining \in Nat /\ w \in Nat
        /\ g \in Nat \ {0} /\ h \in Nat \ {0} /\ h <= g
    <2>1. rates.dynamics \in Nat \ {0} /\ g \in Nat \ {0} /\ rates.dynamics <= g
      BY Periods DEF GuidedInv
    <2>2. h \in Nat \ {0} /\ h <= g
      BY <2>1 DEF FirstCountdown
    <2> QED  BY <2>1, <2>2, TimesOfStep DEF GuidedInv
  <1>2. stage # "initialize" /\ entered <= guidanceT
    BY NativeStepParts DEF GuidedInv, Commanded
  <1>3. /\ constants.of = active /\ constants.entry = (remaining > 0)
        /\ remaining = LeftAfter(w, (guidanceT - entered) + h)
    BY <1>2 DEF GuidedInv, Filtered
  <1>4. definition' = definition /\ rates' = rates
    BY NativeStepParts
  <1>5. CASE ~GuidanceDue
    <2>1. UNCHANGED <<guidanceVars, guidanceT>>
      BY <1>5, NoGuidanceTurn
    <2>2. Filtered'
      BY <1>3, <1>4, <2>1 DEF Filtered, guidanceVars, State, FirstCountdown, LeftAfter
    <2>3. EntryConstantsWindow'
      BY <1>2, <1>4, <2>1 DEF GuidedInv, EntryConstantsWindow, guidanceVars, State
    <2> QED  BY <2>2, <2>3
  <1>6. CASE GuidanceDue
    <2>1. guidanceT' = plantT /\ plantT = guidanceT + g
      BY <1>6, GuidanceTurn, StepsFromEpoch
    <2>2. PICK moved \in BOOLEAN :
            /\ active' = (IF moved THEN Successor(plantT) ELSE active)
            /\ entered' = (IF moved THEN plantT ELSE entered)
            /\ applied' = [of |-> active',
                           entry |-> IF moved THEN State(active').onEntry > 0 ELSE remaining > 0]
            /\ remaining' = LeftAfter(IF moved THEN State(active').onEntry ELSE remaining, g)
            /\ constants' = [of |-> active', entry |-> remaining' > 0]
            /\ State(active').onEntry \in Nat
      BY <1>6, FilterOfStep
    <2> DEFINE w1 == State(active').onEntry
               s1 == guidanceT' - entered'
               h1 == IF entered' = 0 THEN rates.dynamics ELSE g
    <2>3. /\ constants'.of = active' /\ constants'.entry = (remaining' > 0)
          /\ applied'.of = active'
          /\ applied'.entry = (IF moved THEN w1 > 0 ELSE remaining > 0)
      BY <2>2
    <2>4. CASE moved
      <3>1. s1 = 0 /\ h1 = g /\ remaining' = LeftAfter(w1, g)
        BY <1>1, <2>1, <2>2, <2>4
      <3>2. applied'.entry = (w1 > 0) /\ w1 \in Nat
        BY <2>2, <2>3, <2>4
      <3> HIDE DEF w1, s1, h1
      <3>3. remaining' = LeftAfter(w1, s1 + h1)
        BY <1>1, <3>1
      <3>4. (s1 < w1 => w1 > 0) /\ (w1 > 0 => s1 < w1 + g)
        BY <1>1, <3>1, <3>2
      <3>5. (s1 < w1 => applied'.entry) /\ (applied'.entry => s1 < w1 + g)
        BY <3>2, <3>4, Zenon
      <3> QED  BY <1>4, <2>3, <3>3, <3>5
               DEF Filtered, EntryConstantsWindow, State, FirstCountdown, w1, s1, h1
    <2>5. CASE ~moved
      <3>1. w1 = w /\ h1 = h /\ s1 = guidanceT - entered + g /\ remaining' = LeftAfter(remaining, g)
        BY <1>1, <2>1, <2>2, <2>5 DEF FirstCountdown
      <3>2. applied'.entry = (remaining > 0)
        BY <2>3, <2>5
      <3>3. /\ s1 \in Nat /\ guidanceT - entered \in Nat /\ w1 \in Nat /\ h1 \in Nat
            /\ (guidanceT - entered) + h1 \in Nat /\ s1 + h1 \in Nat
        BY <1>1, <1>2, <3>1
      <3> HIDE DEF w1, s1, h1, w, h, g
      <3>4. remaining = IF w1 > (guidanceT - entered) + h1 THEN w1 - ((guidanceT - entered) + h1) ELSE 0
        BY <1>1, <1>3, <3>1, <3>3, Countdown
      <3>5. remaining' = IF remaining > g THEN remaining - g ELSE 0
        BY <1>1, <3>1, Countdown
      <3>6. LeftAfter(w1, s1 + h1) = IF w1 > s1 + h1 THEN w1 - (s1 + h1) ELSE 0
        BY <3>3, Countdown
      <3>7. remaining' = LeftAfter(w1, s1 + h1)
        BY <1>1, <3>1, <3>3, <3>4, <3>5, <3>6
      <3>8. (s1 < w1 => remaining > 0) /\ (remaining > 0 => s1 < w1 + g)
        BY <1>1, <3>1, <3>3, <3>4
      <3>9. (s1 < w1 => applied'.entry) /\ (applied'.entry => s1 < w1 + g)
        BY <3>2, <3>8, Zenon
      <3> QED  BY <1>4, <2>3, <3>7, <3>9
               DEF Filtered, EntryConstantsWindow, State, FirstCountdown, w1, s1, h1, g
    <2> QED  BY <2>4, <2>5
  <1> QED  BY <1>5, <1>6

\* The sample of a native step: the command and the release, at the plant's new instant.
LEMMA SampleOfStep ==
    ASSUME GuidedInv, Advance
    PROVE  LET n == Len(truth)
               held == State(active').pad \/ State(active).pad
           IN  /\ n \in Nat /\ n >= 1 /\ Len(truth') = n + 1
               /\ \A i \in 1..n : truth'[i] = truth[i]
               /\ truth'[n + 1] = [t |-> plantT', state |-> active', pad |-> State(active').pad,
                                   held |-> held, response |-> response']
               /\ truth' \in Seq([t : Nat, state : DOMAIN definition.states, pad : BOOLEAN,
                                  held : BOOLEAN, response : Nat])
               /\ response' = (IF State(active').pad THEN response ELSE response + 1)
               /\ response' \in Nat /\ wasPad' = State(active').pad /\ State(active').pad \in BOOLEAN
               /\ plantT' = plantT + rates.dynamics /\ plantT' \in Nat
  <1> DEFINE S == [t : Nat, state : DOMAIN definition.states, pad : BOOLEAN, held : BOOLEAN,
                   response : Nat]
             held == State(active').pad \/ State(active).pad
             new == [t |-> plantT', state |-> active', pad |-> State(active').pad, held |-> held,
                     response |-> response']
  <1>1. /\ truth \in Seq(S) /\ plantT \in Nat /\ response \in Nat /\ rates.dynamics \in Nat
        /\ GuidanceTypeOK
    BY TimesOfStep, Periods DEF GuidedInv, GuidedTypeOK
  <1>2. Len(truth) >= 1 /\ wasPad = State(active).pad
    BY NativeStepParts DEF GuidedInv, Sampled
  <1>3. /\ active' \in DOMAIN definition.states /\ command'.state = active'
        /\ command'.pad = State(active').pad
    BY CommandOfStep
  <1>4. State(active').pad \in BOOLEAN
    BY <1>1, <1>3, DefinitionFacts DEF StateDefinition
  <1>5. /\ response' = (IF State(active').pad THEN response ELSE response + 1)
        /\ wasPad' = State(active').pad /\ plantT' = plantT + rates.dynamics
        /\ truth' = Append(truth, new)
    BY <1>2, <1>3, NativeStepParts, Zenon
  <1>6. response' \in Nat /\ plantT' \in Nat
    BY <1>1, <1>5
  <1>7. held \in BOOLEAN
    OBVIOUS
  <1> HIDE DEF held
  <1>8. new \in S
    BY <1>3, <1>4, <1>6, <1>7
  <1> HIDE DEF new, S
  <1>9. /\ Len(truth') = Len(truth) + 1 /\ truth'[Len(truth) + 1] = new /\ truth' \in Seq(S)
        /\ \A i \in 1..Len(truth) : truth'[i] = truth[i]
    BY <1>1, <1>5, <1>8, AppendProperties
  <1>10. Len(truth) \in Nat
    BY <1>1, LenProperties
  <1> QED  BY <1>2, <1>4, <1>5, <1>6, <1>9, <1>10 DEF held, new, S

\* The new sample follows from the last one and the command.
LEMMA StepKeepsSampled == ASSUME GuidedInv, Advance PROVE Sampled'
  <1> DEFINE n == Len(truth)
  <1>1. /\ n \in Nat /\ n >= 1 /\ Len(truth') = n + 1
        /\ \A i \in 1..n : truth'[i] = truth[i]
        /\ truth'[n + 1] = [t |-> plantT', state |-> active', pad |-> State(active').pad,
                            held |-> State(active').pad \/ State(active).pad, response |-> response']
        /\ response' = (IF State(active').pad THEN response ELSE response + 1)
        /\ wasPad' = State(active').pad /\ plantT' = plantT + rates.dynamics
    BY SampleOfStep
  <1>2. /\ truth[n].t = plantT /\ truth[n].state = active /\ truth[n].pad = State(active).pad
        /\ truth[n].response = response
    BY NativeStepParts DEF GuidedInv, Sampled
  <1>3. plantT \in Nat /\ rates.dynamics \in Nat \ {0} /\ UNCHANGED <<definition, rates>>
    BY TimesOfStep, Periods, NativeStepParts DEF GuidedInv
  <1>4. active' = active \/ active' \in Targets(definition, active)
    BY CommandOfStep
  <1> HIDE DEF n
  <1>5. truth'[n] = truth[n] /\ n + 1 > 1 /\ n + 1 # 1 /\ n + 1 - 1 = n /\ plantT' # 0
        /\ plantT = plantT' - rates.dynamics
    BY <1>1, <1>3
  <1>6. /\ truth'[n + 1].t = plantT' /\ truth'[n + 1].state = active'
        /\ truth'[n + 1].pad = State(active').pad /\ truth'[n + 1].response = response'
        /\ truth'[n + 1].held = (State(active').pad \/ State(active).pad)
    BY <1>1
  <1>7. truth'[n + 1].held = (truth'[n + 1].pad \/ truth'[n].pad)
    BY <1>2, <1>5, <1>6
  <1>8. truth'[n + 1].response =
            (IF truth'[n + 1].pad THEN truth'[n].response ELSE truth'[n].response + 1)
    BY <1>1, <1>2, <1>5, <1>6
  <1>9. \/ truth'[n + 1].state = truth'[n].state
        \/ truth'[n + 1].state \in Targets(definition, truth'[n].state)
    BY <1>2, <1>4, <1>5, <1>6
  <1> QED  BY <1>1, <1>2, <1>3, <1>5, <1>6, <1>7, <1>8, <1>9 DEF Sampled, State, Targets, n

\* The plant's release lags guidance by one step.
LEMMA StepKeepsOverlap == ASSUME GuidedInv, Advance PROVE OneStepOverlap'
  <1> DEFINE n == Len(truth)
  <1>1. /\ n \in Nat /\ n >= 1 /\ Len(truth') = n + 1
        /\ \A i \in 1..n : truth'[i] = truth[i]
        /\ truth'[n + 1] = [t |-> plantT', state |-> active', pad |-> State(active').pad,
                            held |-> State(active').pad \/ State(active).pad, response |-> response']
        /\ response' = (IF State(active').pad THEN response ELSE response + 1)
    BY SampleOfStep
  <1>2. /\ truth[n].pad = State(active).pad /\ truth[n].response = response
        /\ n = 1 => truth[n].held = truth[n].pad
        /\ n > 1 => /\ truth[n].held = (truth[n].pad \/ truth[n - 1].pad)
                    /\ truth[n].response =
                        (IF truth[n].pad THEN truth[n - 1].response ELSE truth[n - 1].response + 1)
    BY NativeStepParts DEF GuidedInv, Sampled
  <1>3. \A i \in 1..(n - 1) :
            truth[i].held /\ ~truth[i + 1].held =>
                /\ i > 1 => /\ truth[i - 1].pad /\ ~truth[i].pad
                            /\ truth[i].response = truth[i - 1].response + 1
                /\ truth[i + 1].response = truth[i].response + 1
    BY DEF GuidedInv, OneStepOverlap
  <1> HIDE DEF n
  <1>4. ASSUME NEW i \in 1..(Len(truth') - 1), truth'[i].held, ~truth'[i + 1].held
        PROVE  /\ i > 1 => /\ truth'[i - 1].pad /\ ~truth'[i].pad
                           /\ truth'[i].response = truth'[i - 1].response + 1
               /\ truth'[i + 1].response = truth'[i].response + 1
    <2>1. CASE i = n
      <3>1. truth'[i] = truth[n] /\ (n > 1 => truth'[i - 1] = truth[n - 1])
        BY <1>1, <2>1
      <3>2. ~State(active').pad /\ ~State(active).pad
        <4>1. truth'[n + 1].held = (State(active').pad \/ State(active).pad)
          BY <1>1
        <4>2. ~truth'[n + 1].held
          BY <1>4, <2>1
        <4> QED  BY <4>1, <4>2, Zenon
      <3>3. ~truth[n].pad /\ truth[n].held
        BY <1>2, <1>4, <3>1, <3>2
      <3>4. n > 1
        <4>1. n # 1
          BY <1>2, <3>3, Zenon
        <4> QED  BY <1>1, <4>1
      <3>5. truth[n - 1].pad /\ truth[n].response = truth[n - 1].response + 1
        BY <1>2, <3>3, <3>4
      <3>6. truth'[i + 1].response = response + 1
        BY <1>1, <2>1, <3>2
      <3> QED  BY <1>2, <2>1, <3>1, <3>3, <3>4, <3>5, <3>6
    <2>2. CASE i # n
      <3>1. i \in 1..(n - 1) /\ i \in 1..n /\ i + 1 \in 1..n /\ (i > 1 => i - 1 \in 1..n)
        BY <1>1, <2>2
      <3> QED  BY <1>1, <1>3, <1>4, <3>1
    <2> QED  BY <2>1, <2>2
  <1> QED  BY <1>4 DEF OneStepOverlap

\* The epoch's sample stays where it is: it is the last but one now.
LEMMA StepKeepsFollowed == ASSUME GuidedInv, Advance PROVE Followed'
  <1> DEFINE n == Len(truth)
  <1>1. /\ n \in Nat /\ n >= 1 /\ Len(truth') = n + 1 /\ truth'[n] = truth[n]
        /\ plantT' = plantT + rates.dynamics
    BY SampleOfStep
  <1>2. /\ plantT = epoch /\ epoch # None /\ epoch \in Nat /\ rates.dynamics \in Nat \ {0}
        /\ stage = "advance" /\ stage' \in {"advance", "impact"}
        /\ UNCHANGED <<epoch, reported, phase>>
    BY StepsFromEpoch, NativeStepParts, Periods DEF GuidedInv
  <1>3. reported = truth[n].state /\ phase = reported
    <2>1. reported = Shown /\ phase = reported
      BY <1>2 DEF GuidedInv, Followed
    <2>2. ~(plantT > epoch)
      BY <1>2
    <2> QED  BY <2>1, <2>2 DEF Shown
  <1> HIDE DEF n
  <1>4. plantT' > epoch' /\ Len(truth') - 1 = n
    BY <1>1, <1>2
  <1>5. Shown' = truth[n].state
    BY <1>1, <1>2, <1>4 DEF Shown
  <1> QED  BY <1>2, <1>3, <1>5 DEF Followed

\* A native step pushes no increment.
LEMMA StepKeepsObserved == ASSUME GuidedInv, Advance PROVE Observed'
  <1>1. /\ stage = "advance" /\ stage' \in {"advance", "impact"}
        /\ UNCHANGED <<epoch, rates, gyro, imuTimes, imuDue>>
    BY NativeStepParts
  <1> QED  BY <1>1 DEF GuidedInv, Observed, Published

\* A native step keeps the types, and with them the whole invariant.
LEMMA StepKeepsTypes == ASSUME GuidedInv, Advance PROVE GuidedTypeOK'
  <1>1. GuidanceTypeOK'
    BY StepKeepsGuidanceTypes
  <1>2. /\ plantT \in Nat /\ guidanceT \in Nat /\ autopilotT \in Nat /\ tEnd \in Nat
        /\ available \in Nat
    BY TimesOfStep DEF GuidedInv
  <1>3. /\ plantT' \in Nat /\ response' \in Nat /\ wasPad' \in BOOLEAN
        /\ truth' \in Seq([t : Nat, state : DOMAIN definition.states, pad : BOOLEAN,
                           held : BOOLEAN, response : Nat])
    BY SampleOfStep
  <1>4. guidanceT' \in Nat /\ autopilotT' \in Nat /\ tEnd' \in Nat
    <2>1. guidanceT' \in Nat
      BY <1>2, GuidanceTurn, NoGuidanceTurn
    <2>2. autopilotT' \in Nat /\ tEnd' \in Nat
      BY <1>2, <1>3, NativeStepParts
    <2> QED  BY <2>1, <2>2
  <1>5. /\ departed' \in BOOLEAN /\ stage' \in {"advance", "impact"}
        /\ UNCHANGED <<definition, rates, control, launchQ, gyro, available, epoch, target,
                       terminal, reported, phase, imuDue, imuTimes>>
    BY NativeStepParts
  <1>6. complete' \in BOOLEAN
    <2>1. complete \in BOOLEAN /\ (complete' = complete \/ complete' = TRUE)
      BY NativeStepParts DEF GuidedInv, GuidedTypeOK
    <2> QED  BY <2>1
  <1>7. latchedQ' \in {None, "configured", "estimated", "current", "tracked"}
    <2>1. latchedQ' = latchedQ \/ latchedQ' = Latched(command', launchQ)
      BY NativeStepParts
    <2>2. launchQ = "configured" /\ latchedQ \in {None, "configured", "estimated", "current", "tracked"}
      BY NativeStepParts DEF GuidedInv, GuidedTypeOK, Piloted
    <2> QED  BY <2>1, <2>2 DEF Latched
  <1> QED  BY <1>1, <1>2, <1>3, <1>4, <1>5, <1>6, <1>7 DEF GuidedInv, GuidedTypeOK

\* A native step keeps the invariant.
LEMMA AdvancePreserves == ASSUME GuidedInv, Advance PROVE GuidedInv'
  <1>1. BeforeStart'
    BY NativeStepParts DEF BeforeStart
  <1> QED  BY <1>1, StepKeepsTypes, StepKeepsTimeLine, StepKeepsAhead, StepKeepsFedBack,
              StepKeepsPiloted, StepKeepsCommanded, StepKeepsWindow, StepKeepsSampled,
              StepKeepsOverlap, StepKeepsFollowed, StepKeepsObserved DEF GuidedInv

-----------------------------------------------------------------------------
(* The steps that leave the plant where it is. *)

\* What holds of the source when nothing of it moves.
LEMMA SourceStays ==
    ASSUME GuidedInv, stage # "initialize", stage' # "initialize", complete' => plantT = tEnd,
           UNCHANGED <<guidanceVars, rates, plantT, guidanceT, autopilotT, wasPad, response, truth,
                       launchQ, latchedQ, tEnd>>
    PROVE  /\ GuidanceTypeOK' /\ BeforeStart' /\ TimeLine' /\ Piloted' /\ Commanded'
           /\ Filtered' /\ EntryConstantsWindow' /\ Sampled' /\ OneStepOverlap'
  <1>1. GuidanceTypeOK'
    BY DEF GuidedInv, GuidedTypeOK, GuidanceTypeOK, guidanceVars, Execution, State, Formation
  <1>2. BeforeStart' /\ TimeLine'
    BY DEF GuidedInv, BeforeStart, TimeLine
  <1>3. Piloted'
    BY DEF GuidedInv, Piloted, Latched, guidanceVars
  <1>4. Commanded'
    BY DEF GuidedInv, Commanded, guidanceVars, Execution, State, Formation
  <1>5. Filtered' /\ EntryConstantsWindow'
    BY DEF GuidedInv, Filtered, EntryConstantsWindow, guidanceVars, State, LeftAfter, FirstCountdown
  <1>6. Sampled'
    BY DEF GuidedInv, Sampled, guidanceVars, State, Targets
  <1>7. OneStepOverlap'
    BY DEF GuidedInv, OneStepOverlap
  <1> QED  BY <1>1, <1>2, <1>3, <1>4, <1>5, <1>6, <1>7

\* The control models started over: guidance, filter and autopilot stand at the start.
LEMMA ControlModelsStart ==
    ASSUME GuidedTypeOK, NEW origin \in {"configured", "estimated"}, InitializeControlModels(origin),
           plantT = 0, guidanceT = 0, UNCHANGED <<definition, rates, plantT, guidanceT>>,
           \/ launchQ = None /\ origin = "configured"
           \/ launchQ = "configured"
    PROVE  /\ GuidanceTypeOK' /\ Piloted' /\ Commanded' /\ Filtered' /\ EntryConstantsWindow'
           /\ active' = definition.initial /\ entered' = 0 /\ captured' = origin
           /\ command' = Execution(definition.initial, TRUE) /\ gyro' = <<>>
           /\ launchQ' = "configured" /\ latchedQ' \in {"configured", "current", "tracked"}
  <1> DEFINE i == definition.initial
             d == rates.dynamics
             w == State(i).onEntry
  <1>1. GuidanceTypeOK /\ i \in DOMAIN definition.states /\ d \in Nat \ {0} /\ d <= rates.guidance
        /\ rates.guidance \in Nat
    BY Periods, DefinitionFacts DEF GuidedTypeOK
  <1>2. /\ StartMachine(0, origin) /\ AdvanceFilter(Execution(i, TRUE), d)
        /\ launchQ' = LaunchAttitude(origin)
        /\ latchedQ' = Latched(Execution(i, TRUE), LaunchAttitude(origin)) /\ gyro' = <<>>
    BY DEF InitializeControlModels, AdvanceGuidanceFilter
  <1>3. /\ captured' = origin /\ active' = i /\ entered' = 0 /\ command' = Execution(i, TRUE)
        /\ \E reached \in 0..Waypoints :
              progress' = [k \in DOMAIN definition.states |-> IF k = i THEN reached ELSE 0]
    BY <1>2, Zenon DEF StartMachine, CaptureAltitude
  <1>4. /\ applied' = [of |-> i, entry |-> w > 0] /\ remaining' = LeftAfter(w, d)
        /\ constants' = [of |-> i, entry |-> remaining' > 0]
        /\ remaining' \in Nat /\ w \in Nat
    BY <1>1, <1>2, FilterStep
  <1>5. LaunchAttitude(origin) = "configured"
    BY NoneAssumption DEF LaunchAttitude
  <1>6. launchQ' = "configured" /\ latchedQ' = Latched(Execution(i, TRUE), "configured")
    BY <1>2, <1>5
  <1>7. latchedQ' \in {"configured", "current", "tracked"}
    BY <1>6 DEF Latched
  <1>8. GuidanceTypeOK'
    <2>1. progress' \in [DOMAIN definition.states -> 0..Waypoints]
      BY <1>3, WaypointsAssumption
    <2>2. {constants', applied'} \subseteq [of : DOMAIN definition.states, entry : BOOLEAN]
      <3>1. (w > 0) \in BOOLEAN /\ (remaining' > 0) \in BOOLEAN
        BY <1>4
      <3> QED  BY <1>1, <1>4, <3>1
    <2>3. \E k \in DOMAIN definition.states, e \in BOOLEAN : command' = Execution(k, e)'
      BY <1>1, <1>3 DEF Execution, State, Formation
    <2> QED  BY <1>1, <1>3, <1>4, <2>1, <2>2, <2>3 DEF GuidanceTypeOK
  <1>9. Piloted'
    BY <1>3, <1>6 DEF Piloted, Latched
  <1>10. Commanded'
    <2>1. (\E e \in BOOLEAN : command = Execution(active, e))'
      BY <1>3 DEF Execution, State, Formation
    <2>2. \A tr \in ToSet(State(i).transitions) : guidanceT' - entered' < tr.after
      <3>1. \A tr \in ToSet(State(i).transitions) : tr.after \in Nat \ {0}
        BY <1>1, DefinitionFacts
      <3> QED  BY <1>3, <3>1
    <2>3. entered' <= guidanceT'
      BY <1>3
    <2>4. active' = definition'.initial /\ State(active)' = State(i)
      BY <1>3 DEF State
    <2> QED  BY <2>1, <2>2, <2>3, <2>4 DEF Commanded
  <1>11. Filtered' /\ EntryConstantsWindow'
    <2>1. /\ guidanceT' - entered' = 0 /\ (guidanceT' - entered') + d = d
          /\ FirstCountdown' = d
      BY <1>1, <1>3 DEF FirstCountdown
    <2>2. Filtered'
      BY <1>3, <1>4, <2>1 DEF Filtered, State
    <2>3. applied'.entry = (w > 0) /\ applied'.of = i
      BY <1>4
    <2>4. (0 < w => w > 0) /\ (w > 0 => 0 < w + rates.guidance)
      BY <1>1, <1>4
    <2>5. (0 < w => applied'.entry) /\ (applied'.entry => 0 < w + rates.guidance)
      BY <2>3, <2>4, Zenon
    <2> QED  BY <1>3, <2>1, <2>2, <2>3, <2>5 DEF EntryConstantsWindow, State
  <1> QED  BY <1>3, <1>2, <1>6, <1>7, <1>8, <1>9, <1>10, <1>11

\* The truth holds the initial sample alone.
LEMMA InitialSample ==
    ASSUME GuidedTypeOK, UNCHANGED <<definition, plantT, response>>, plantT = 0,
           active' = definition.initial,
           NEW held, held = State(definition.initial).pad,
           wasPad' = State(definition.initial).pad,
           truth' = <<[t |-> 0, state |-> definition.initial, pad |-> State(definition.initial).pad,
                       held |-> held, response |-> response']>>
    PROVE  /\ Sampled' /\ OneStepOverlap' /\ wasPad' \in BOOLEAN
           /\ Len(truth') = 1 /\ truth'[1].state = definition.initial
           /\ truth' \in Seq([t : Nat, state : DOMAIN definition.states, pad : BOOLEAN,
                              held : BOOLEAN, response : Nat])
  <1> DEFINE i == definition.initial
             new == [t |-> 0, state |-> i, pad |-> State(i).pad, held |-> held, response |-> response']
             S == [t : Nat, state : DOMAIN definition.states, pad : BOOLEAN, held : BOOLEAN,
                   response : Nat]
  <1>1. i \in DOMAIN definition.states /\ State(i).pad \in BOOLEAN /\ response \in Nat
    BY DefinitionFacts DEF GuidedTypeOK, StateDefinition
  <1>2. new \in S
    BY <1>1
  <1> HIDE DEF S
  <1>3. truth' \in Seq(S) /\ Len(truth') = 1 /\ truth'[1] = new
    BY <1>2
  <1>4. Sampled'
    BY <1>3 DEF Sampled, State
  <1>5. OneStepOverlap'
    BY <1>3 DEF OneStepOverlap
  <1> QED  BY <1>1, <1>3, <1>4, <1>5 DEF S

\* An average of no increments is empty.
LEMMA EmptyAverage ==
    ASSUME NEW w \in Nat \ {0}
    PROVE  SubSeq(<<>>, Len(<<>>) - Min({Len(<<>>), w}) + 1, Len(<<>>)) = <<>>
  <1>1. Min({0, w}) = 0
    BY MinOfTwo
  <1>2. SubSeq(<<>>, 1, 0) = <<>>
    BY SubSeqEmpty
  <1>3. Len(<<>>) = 0 /\ 0 - 0 + 1 = 1
    OBVIOUS
  <1> QED  BY <1>1, <1>2, <1>3

\* The source and the adapter are initialized.
LEMMA InitializePreserves == ASSUME GuidedInv, Initialize PROVE GuidedInv'
  <1>1. /\ stage = "initialize" /\ InitializeSource /\ reported' = command'.state
        /\ phase' = definition.initial /\ stage' = "prepare"
        /\ UNCHANGED <<epoch, target, terminal, imuDue, imuTimes>>
    BY DEF Initialize
  <1>2. /\ InitializeControlModels("configured")
        /\ UNCHANGED <<definition, rates, plantT, guidanceT, autopilotT, response, control, available,
                       tEnd, departed, complete>>
        /\ wasPad' = command'.pad
        /\ truth' = <<[t |-> 0, state |-> command'.state, pad |-> command'.pad, held |-> command'.pad,
                       response |-> response']>>
    BY <1>1 DEF InitializeSource, Sample, endVars
  <1>3. /\ GuidedTypeOK /\ plantT = 0 /\ epoch = None /\ launchQ = None /\ imuTimes = <<>>
        /\ gyro = <<>> /\ imuDue = 0 /\ control = None
    BY <1>1 DEF GuidedInv, BeforeStart
  <1>4. guidanceT = 0
    BY <1>3, TimesOfStep DEF GuidedInv, TimeLine
  <1>5. /\ GuidanceTypeOK' /\ Piloted' /\ Commanded' /\ Filtered' /\ EntryConstantsWindow'
        /\ active' = definition.initial /\ command' = Execution(definition.initial, TRUE)
        /\ gyro' = <<>> /\ launchQ' = "configured" /\ latchedQ' \in {"configured", "current", "tracked"}
    BY <1>2, <1>3, <1>4, ControlModelsStart
  <1>6. command'.state = definition.initial /\ command'.pad = State(definition.initial).pad
    BY <1>5 DEF Execution
  <1>7. /\ Sampled' /\ OneStepOverlap' /\ wasPad' \in BOOLEAN /\ Len(truth') = 1
        /\ truth'[1].state = definition.initial
        /\ truth' \in Seq([t : Nat, state : DOMAIN definition.states, pad : BOOLEAN,
                           held : BOOLEAN, response : Nat])
    BY <1>2, <1>3, <1>5, <1>6, InitialSample
  <1>8. GuidedTypeOK'
    <2>1. {reported', phase'} \subseteq DOMAIN definition.states
      BY <1>1, <1>3, <1>6, DefinitionFacts DEF GuidedTypeOK
    <2> QED  BY <1>1, <1>2, <1>3, <1>5, <1>7, <2>1 DEF GuidedTypeOK
  <1>9. BeforeStart' /\ TimeLine'
    BY <1>1, <1>2 DEF GuidedInv, BeforeStart, TimeLine
  <1>10. Ahead' /\ FedBack'
    BY <1>1, <1>2, <1>3 DEF Ahead, FedBack
  <1>11. Followed'
    BY <1>1, <1>3, <1>6, <1>7 DEF Followed, Shown
  <1>12. Observed'
    <2>1. imuTimes' = <<>> /\ gyro' = <<>> /\ Published' = 0 /\ imuDue' = 0 /\ rates' = rates
      BY <1>1, <1>2, <1>3, <1>5 DEF Published
    <2>2. rates.window \in Nat \ {0}
      BY <1>3, Periods
    <2> QED  BY <2>1, <2>2, EmptyAverage DEF Observed
  <1> QED  BY <1>5, <1>7, <1>8, <1>9, <1>10, <1>11, <1>12 DEF GuidedInv

\* The next epoch is an application period on, which is never cut off at the end.
LEMMA PreparePreserves == ASSUME GuidedInv, Prepare PROVE GuidedInv'
  <1> DEFINE a == rates.app
             d == rates.dynamics
  <1>1. /\ stage = "prepare" /\ target' = (IF epoch = None THEN 0 ELSE Min({epoch + a, tEnd}))
        /\ stage' = (IF target' = 0 THEN "query" ELSE "advance")
        /\ UNCHANGED <<sourceVars, epoch, terminal, reported, phase, imuDue, imuTimes>>
    BY DEF Prepare
  <1>2. UNCHANGED <<guidanceVars, rates, plantT, guidanceT, autopilotT, wasPad, response, truth,
                    launchQ, latchedQ, tEnd, complete, control, gyro, available, departed>>
    BY <1>1 DEF sourceVars, plantVars, pilotVars, endVars
  <1>3. /\ plantT \in Nat /\ tEnd \in Nat /\ (epoch # None => epoch \in Nat)
        /\ a \in Nat \ {0} /\ d \in Nat \ {0} /\ a <= d /\ d % a = 0
    BY TimesOfStep, Periods DEF GuidedInv
  <1>4. tEnd % d = 0 /\ 0 < tEnd /\ (complete => plantT = tEnd)
    BY DEF GuidedInv, TimeLine
  <1>5. /\ epoch = None => plantT = 0
        /\ epoch # None => /\ epoch % a = 0 /\ epoch <= plantT /\ epoch < tEnd /\ plantT < epoch + d
                           /\ control # None /\ control.t = epoch /\ captured = ControlOrigin
                           /\ autopilotT <= epoch
    BY <1>1 DEF GuidedInv, Ahead, FedBack
  <1> HIDE DEF a, d
  <1>6. epoch # None => epoch + a <= tEnd
    <2>1. tEnd % a = 0
      BY <1>3, <1>4, MultipleOfMultiple
    <2> QED  BY <1>3, <1>5, <2>1, MultiplesApart
  <1>7. epoch # None => target' = epoch + a /\ stage' = "advance"
    <2>1. epoch # None => Min({epoch + a, tEnd}) = epoch + a
      BY <1>3, <1>6, MinOfTwo
    <2> QED  BY <1>1, <1>3, <2>1
  <1>8. epoch = None => target' = 0 /\ stage' = "query"
    BY <1>1
  <1>9. stage' \in {"query", "advance"} /\ target' \in Nat
    BY <1>3, <1>7, <1>8
  <1>10. /\ GuidanceTypeOK' /\ BeforeStart' /\ TimeLine' /\ Piloted' /\ Commanded'
         /\ Filtered' /\ EntryConstantsWindow' /\ Sampled' /\ OneStepOverlap'
    BY <1>1, <1>2, <1>4, <1>9, SourceStays
  <1>11. GuidedTypeOK'
    BY <1>1, <1>2, <1>9, <1>10 DEF GuidedInv, GuidedTypeOK, guidanceVars
  <1>12. Ahead'
    <2>1. CASE epoch = None
      BY <1>1, <1>2, <1>3, <1>4, <1>5, <1>8, <2>1 DEF Ahead, d
    <2>2. CASE epoch # None
      <3>1. target' <= tEnd /\ plantT < target' + d /\ (plantT < target' => plantT = epoch)
        <4>1. plantT < epoch + a => plantT = epoch
          <5>1. plantT % a = 0
            <6>1. plantT % d = 0
              BY DEF GuidedInv, TimeLine, d
            <6> QED  BY <1>3, <6>1, MultipleOfMultiple
          <5>2. epoch < plantT => epoch + a <= plantT
            BY <1>3, <1>5, <2>2, <5>1, MultiplesApart
          <5> QED  BY <1>3, <1>5, <2>2, <5>2
        <4> QED  BY <1>3, <1>5, <1>6, <1>7, <2>2, <4>1
      <3> QED  BY <1>1, <1>2, <1>5, <1>7, <2>2, <3>1 DEF Ahead, a, d
    <2> QED  BY <2>1, <2>2
  <1>13. FedBack'
    BY <1>1, <1>2, <1>5, <1>9 DEF FedBack, ControlOrigin, guidanceVars
  <1>14. Followed'
    BY <1>1, <1>2, <1>9 DEF GuidedInv, Followed, Shown
  <1>15. Observed'
    BY <1>1, <1>2, <1>9 DEF GuidedInv, Observed, Published
  <1> QED  BY <1>10, <1>11, <1>12, <1>13, <1>14, <1>15 DEF GuidedInv

\* A mission that is given up keeps what it had.
LEMMA GivingUpPreserves ==
    ASSUME GuidedInv, stage \in {"advance", "feed_back"}, stage' = "failed",
           UNCHANGED <<sourceVars, epoch, target, terminal, reported, phase, imuDue, imuTimes>>
    PROVE  GuidedInv'
  <1>1. UNCHANGED <<guidanceVars, rates, plantT, guidanceT, autopilotT, wasPad, response, truth,
                    launchQ, latchedQ, tEnd, complete, control, gyro, available, departed>>
    BY DEF sourceVars, plantVars, pilotVars, endVars
  <1>2. complete' => plantT = tEnd
    BY <1>1 DEF GuidedInv, TimeLine
  <1>3. /\ GuidanceTypeOK' /\ BeforeStart' /\ TimeLine' /\ Piloted' /\ Commanded'
        /\ Filtered' /\ EntryConstantsWindow' /\ Sampled' /\ OneStepOverlap'
    BY <1>1, <1>2, SourceStays
  <1>4. GuidedTypeOK'
    BY <1>1, <1>3 DEF GuidedInv, GuidedTypeOK, guidanceVars
  <1>5. Ahead'
    BY <1>1 DEF GuidedInv, Ahead
  <1>6. FedBack'
    BY <1>1 DEF GuidedInv, FedBack, ControlOrigin, guidanceVars
  <1>7. Followed'
    BY DEF GuidedInv, Followed
  <1>8. Observed'
    BY <1>1 DEF GuidedInv, Observed, Published
  <1> QED  BY <1>3, <1>4, <1>5, <1>6, <1>7, <1>8 DEF GuidedInv

\* So does one that fails.
LEMMA AdvanceFailsPreserves == ASSUME GuidedInv, AdvanceFails PROVE GuidedInv'
  BY GivingUpPreserves DEF AdvanceFails, Fail

\* And a control feedback that fails.
LEMMA FeedBackFailsPreserves == ASSUME GuidedInv, FeedBackFails PROVE GuidedInv'
  BY GivingUpPreserves DEF FeedBackFails, Fail

\* The source arrives at the target, complete if that is its end.
LEMMA ArrivePreserves == ASSUME GuidedInv, Arrive PROVE GuidedInv'
  <1>1. /\ stage = "impact" \/ (stage = "advance" /\ plantT >= target)
        /\ available' = (IF stage = "impact" THEN tEnd ELSE target)
        /\ complete' = (stage = "impact" \/ target = tEnd) /\ stage' = "query"
        /\ UNCHANGED <<guidanceVars, plantVars, pilotVars, tEnd, departed, epoch, target, terminal,
                       reported, phase, imuDue, imuTimes>>
    BY DEF Arrive
  <1>2. UNCHANGED <<guidanceVars, rates, plantT, guidanceT, autopilotT, wasPad, response, truth,
                    launchQ, latchedQ, tEnd, control, gyro, departed>>
    BY <1>1 DEF plantVars, pilotVars
  <1>3. /\ plantT \in Nat /\ tEnd \in Nat /\ target \in Nat
    BY TimesOfStep DEF GuidedInv
  <1>4. /\ target <= tEnd /\ plantT < target + rates.dynamics /\ epoch # None
        /\ target = epoch + rates.app /\ (stage = "impact" => plantT = tEnd)
    BY <1>1 DEF GuidedInv, Ahead
  <1>5. plantT <= tEnd
    BY DEF GuidedInv, TimeLine
  <1>6. target <= plantT /\ (complete' => plantT = tEnd)
    <2>1. CASE stage = "impact"
      BY <1>3, <1>4, <2>1
    <2>2. CASE stage # "impact"
      <3>1. plantT >= target /\ complete' = (target = tEnd)
        BY <1>1, <2>2
      <3>2. target = tEnd => plantT = tEnd
        BY <1>3, <1>5, <3>1
      <3> QED  BY <1>3, <3>1, <3>2
    <2> QED  BY <2>1, <2>2
  <1>7. /\ GuidanceTypeOK' /\ BeforeStart' /\ TimeLine' /\ Piloted' /\ Commanded'
        /\ Filtered' /\ EntryConstantsWindow' /\ Sampled' /\ OneStepOverlap'
    BY <1>1, <1>2, <1>6, SourceStays
  <1>8. GuidedTypeOK'
    <2>1. available' \in Nat /\ complete' \in BOOLEAN
      BY <1>1, <1>3
    <2> QED  BY <1>1, <1>2, <1>7, <2>1 DEF GuidedInv, GuidedTypeOK, guidanceVars
  <1>9. Ahead'
    BY <1>1, <1>2, <1>4, <1>6 DEF GuidedInv, Ahead
  <1>10. FedBack'
    BY <1>1, <1>2 DEF GuidedInv, FedBack, ControlOrigin, guidanceVars
  <1>11. Followed'
    BY <1>1, <1>2 DEF GuidedInv, Followed, Shown
  <1>12. Observed'
    BY <1>1, <1>2 DEF GuidedInv, Observed, Published
  <1> QED  BY <1>7, <1>8, <1>9, <1>10, <1>11, <1>12 DEF GuidedInv

\* The diagnostics of a time that the plant stands at, or less than a native step past.
LEMMA PhaseAtCovered ==
    ASSUME GuidedInv, stage # "initialize", NEW t \in Nat, t <= plantT, plantT < t + rates.dynamics
    PROVE  PhaseAt(t) = truth[IF plantT > t THEN Len(truth) - 1 ELSE Len(truth)].state
  <1> DEFINE n == Len(truth)
             k == IF plantT > t THEN n - 1 ELSE n
             Covers(i) == truth[i].t <= t /\ \A j \in (i + 1)..n : truth[j].t > t
  <1>0. \A i \in 1..n : truth[i].t \in Nat
    <2> DEFINE S == [t : Nat, state : DOMAIN definition.states, pad : BOOLEAN, held : BOOLEAN,
                     response : Nat]
    <2>1. truth \in Seq(S)
      BY TimesOfStep DEF GuidedInv
    <2>2. \A x \in S : x.t \in Nat
      OBVIOUS
    <2> HIDE DEF S
    <2>3. \A i \in 1..n : truth[i] \in S
      BY <2>1, ElementOfSeq
    <2> QED  BY <2>2, <2>3
  <1>1. /\ n \in Nat /\ n >= 1 /\ DOMAIN truth = 1..n /\ plantT \in Nat /\ rates.dynamics \in Nat
        /\ truth[n].t = plantT /\ (n = 1 <=> plantT = 0)
        /\ n > 1 => truth[n - 1].t = plantT - rates.dynamics
    BY TimesOfStep, LenProperties, Periods DEF GuidedInv, Sampled
  <1> HIDE DEF n
  <1>2. k \in 1..n /\ Covers(k)
    <2>1. CASE plantT > t
      <3>1. n > 1 /\ k = n - 1
        BY <1>1, <2>1
      <3>2. \A j \in (k + 1)..n : j = n
        BY <1>1, <3>1
      <3>3. truth[k].t <= t /\ k \in 1..n
        BY <1>1, <3>1
      <3>4. truth[n].t > t
        BY <1>1, <2>1
      <3> QED  BY <3>2, <3>3, <3>4
    <2>2. CASE ~(plantT > t)
      <3>1. k = n /\ (n + 1)..n = {} /\ truth[n].t <= t /\ n \in 1..n
        BY <1>1, <2>2
      <3> QED  BY <3>1
    <2> QED  BY <2>1, <2>2
  <1>3. ASSUME NEW i \in 1..n, Covers(i) PROVE i = k
    <2>1. CASE i < k
      <3>1. k \in (i + 1)..n
        BY <1>1, <1>2, <2>1
      <3>2. truth[k].t > t /\ truth[k].t <= t
        BY <1>2, <1>3, <3>1
      <3>3. truth[k].t \in Nat
        BY <1>0, <1>2
      <3> QED  BY <3>2, <3>3
    <2>2. CASE k < i
      <3>1. i \in (k + 1)..n
        BY <1>1, <1>2, <2>2
      <3>2. truth[i].t > t /\ truth[i].t <= t
        BY <1>2, <1>3, <3>1
      <3>3. truth[i].t \in Nat
        BY <1>0
      <3> QED  BY <3>2, <3>3
    <2> QED  BY <1>1, <1>2, <2>1, <2>2
  <1> HIDE DEF k
  <1>4. (CHOOSE i \in 1..n : Covers(i)) = k
    BY <1>2, <1>3
  <1> QED  BY <1>1, <1>4 DEF PhaseAt, n, k

\* The requested epoch is published as it is, and its phase is the one the runtime follows
\* or the next one.
LEMMA QueryPreserves == ASSUME GuidedInv, Query PROVE GuidedInv'
  <1>1. /\ stage = "query" /\ stage' = "synchronize"
        /\ UNCHANGED <<sourceVars, target, phase, imuDue, imuTimes>>
    BY DEF Query
  <1>2. UNCHANGED <<guidanceVars, rates, plantT, guidanceT, autopilotT, wasPad, response, truth,
                    launchQ, latchedQ, tEnd, complete, control, gyro, available, departed>>
    BY <1>1 DEF sourceVars, plantVars, pilotVars, endVars
  <1>3. /\ plantT \in Nat /\ tEnd \in Nat /\ target \in Nat /\ (epoch # None => epoch \in Nat)
        /\ rates.app \in Nat \ {0} /\ rates.dynamics \in Nat \ {0} /\ autopilotT \in Nat
        /\ GuidanceTypeOK
    BY TimesOfStep, Periods DEF GuidedInv, GuidedTypeOK
  <1>4. /\ target <= tEnd /\ plantT < target + rates.dynamics /\ target <= plantT
        /\ target = (IF epoch = None THEN 0 ELSE epoch + rates.app) /\ (target = tEnd => complete)
        /\ IF epoch = None THEN plantT = 0 ELSE epoch % rates.app = 0 /\ epoch <= plantT
    BY <1>1 DEF GuidedInv, Ahead
  <1>5. epoch' = target /\ reported' = PhaseAt(target) /\ terminal' = Terminal(target)
    <2>1. (IF complete /\ tEnd < target THEN tEnd ELSE target) = target
      BY <1>3, <1>4
    <2> QED  BY <2>1 DEF Query
  <1>6. target # None
    BY <1>3, NoneAssumption
  <1>7. terminal' = (target = tEnd)
    BY <1>4, <1>5, Zenon DEF Terminal
  <1>8. reported' = Shown'
    <2>1. reported' = truth[IF plantT > target THEN Len(truth) - 1 ELSE Len(truth)].state
      BY <1>1, <1>3, <1>4, <1>5, PhaseAtCovered
    <2>2. epoch' # None /\ epoch' = target
      BY <1>5, <1>6
    <2> QED  BY <1>2, <2>1, <2>2 DEF Shown
  <1>9. /\ Len(truth) \in Nat /\ Len(truth) >= 1 /\ (Len(truth) = 1 <=> plantT = 0)
        /\ Len(truth) > 1 =>
            \/ truth[Len(truth)].state = truth[Len(truth) - 1].state
            \/ truth[Len(truth)].state \in Targets(definition, truth[Len(truth) - 1].state)
    BY <1>1, TimesOfStep, LenProperties DEF GuidedInv, Sampled
  <1>10. reported' = phase \/ reported' \in Targets(definition, phase)
    <2>1. phase = Shown
      BY <1>1 DEF GuidedInv, Followed
    <2>2. CASE epoch = None
      <3>1. ~(plantT > target)
        BY <1>3, <1>4, <2>2
      <3> QED  BY <1>2, <1>5, <1>8, <2>1, <2>2, <3>1 DEF Shown
    <2>3. CASE epoch # None
      <3>1. plantT > epoch /\ Len(truth) > 1
        <4>1. target = epoch + rates.app /\ epoch \in Nat
          BY <1>3, <1>4, <2>3
        <4>2. plantT > epoch /\ plantT # 0
          BY <1>3, <1>4, <4>1
        <4>3. Len(truth) # 1
          BY <1>9, <4>2
        <4>4. Len(truth) \in Nat /\ Len(truth) >= 1
          BY <1>9
        <4>5. \A k \in Nat : k >= 1 /\ k # 1 => k > 1
          OBVIOUS
        <4> QED  BY <4>2, <4>3, <4>4, <4>5, Zenon
      <3>2. phase = truth[Len(truth) - 1].state
        BY <2>1, <2>3, <3>1 DEF Shown
      <3>3. reported' \in {truth[Len(truth) - 1].state, truth[Len(truth)].state}
        BY <1>2, <1>8 DEF Shown
      <3> QED  BY <1>9, <3>1, <3>2, <3>3
    <2> QED  BY <2>2, <2>3
  <1>11. reported' \in DOMAIN definition.states
    <2>1. phase \in DOMAIN definition.states
      BY DEF GuidedInv, GuidedTypeOK
    <2>2. \A j \in Targets(definition, phase) : j \in DOMAIN definition.states
      <3>1. \A tr \in ToSet(State(phase).transitions) : tr.to \in DOMAIN definition.states
        BY <1>3, <2>1, DefinitionFacts
      <3> QED  BY <3>1 DEF Targets, State
    <2> QED  BY <1>10, <2>1, <2>2
  <1>12. complete' => plantT = tEnd
    BY <1>2 DEF GuidedInv, TimeLine
  <1>13. /\ GuidanceTypeOK' /\ BeforeStart' /\ TimeLine' /\ Piloted' /\ Commanded'
         /\ Filtered' /\ EntryConstantsWindow' /\ Sampled' /\ OneStepOverlap'
    BY <1>1, <1>2, <1>12, SourceStays
  <1>14. GuidedTypeOK'
    <2>1. terminal' \in BOOLEAN
      BY <1>7
    <2> QED  BY <1>1, <1>2, <1>3, <1>5, <1>11, <1>13, <2>1 DEF GuidedInv, GuidedTypeOK, guidanceVars
  <1>15. Ahead'
    <2>1. target % rates.app = 0
      BY <1>3, <1>4, OwnMultiple, SumOfMultiples
    <2> QED  BY <1>1, <1>2, <1>4, <1>5, <1>6, <1>7, <2>1 DEF Ahead
  <1>16. FedBack'
    <2>1. target > 0 => captured = ControlOrigin
      <3>1. target > 0 => epoch # None
        BY <1>4
      <3> QED  BY <1>1, <3>1 DEF GuidedInv, FedBack
    <2>2. autopilotT <= target
      <3>1. CASE epoch = None
        BY <1>3, <1>4, <3>1 DEF GuidedInv, TimeLine
      <3>2. CASE epoch # None
        <4>1. autopilotT <= epoch
          BY <1>1, <3>2 DEF GuidedInv, FedBack
        <4> QED  BY <1>3, <1>4, <3>2, <4>1
      <3> QED  BY <3>1, <3>2
    <2> QED  BY <1>1, <1>2, <1>5, <1>6, <2>1, <2>2 DEF FedBack, ControlOrigin, guidanceVars
  <1>17. Followed'
    BY <1>1, <1>2, <1>8, <1>10 DEF Followed, guidanceVars
  <1>18. Observed'
    <2>1. Published' = Published
      <3>1. CASE epoch = None
        BY <1>1, <1>2, <1>4, <1>5, <1>6, <3>1 DEF Published
      <3>2. CASE epoch # None
        <4>1. target > 0 /\ target - rates.app = epoch
          BY <1>3, <1>4, <3>2
        <4> QED  BY <1>1, <1>2, <1>5, <1>6, <3>2, <4>1 DEF Published
      <3> QED  BY <3>1, <3>2
    <2> QED  BY <1>1, <1>2, <2>1 DEF GuidedInv, Observed
  <1> QED  BY <1>13, <1>14, <1>15, <1>16, <1>17, <1>18 DEF GuidedInv

\* The runtime follows the phase reported.
LEMMA SynchronizePreserves == ASSUME GuidedInv, Synchronize PROVE GuidedInv'
  <1>1. /\ stage = "synchronize" /\ phase' = reported /\ stage' = "publish"
        /\ UNCHANGED <<sourceVars, epoch, target, terminal, reported, imuDue, imuTimes>>
    <2>1. stage = "synchronize" /\ (reported = phase \/ reported \in Targets(definition, phase))
      BY DEF Synchronize, GuidedInv, Followed
    <2> QED  BY <2>1 DEF Synchronize
  <1>2. UNCHANGED <<guidanceVars, rates, plantT, guidanceT, autopilotT, wasPad, response, truth,
                    launchQ, latchedQ, tEnd, complete, control, gyro, available, departed>>
    BY <1>1 DEF sourceVars, plantVars, pilotVars, endVars
  <1>3. complete' => plantT = tEnd
    BY <1>2 DEF GuidedInv, TimeLine
  <1>4. /\ GuidanceTypeOK' /\ BeforeStart' /\ TimeLine' /\ Piloted' /\ Commanded'
        /\ Filtered' /\ EntryConstantsWindow' /\ Sampled' /\ OneStepOverlap'
    BY <1>1, <1>2, <1>3, SourceStays
  <1>5. GuidedTypeOK'
    BY <1>1, <1>2, <1>4 DEF GuidedInv, GuidedTypeOK, guidanceVars
  <1>6. Ahead'
    BY <1>1, <1>2 DEF GuidedInv, Ahead
  <1>7. FedBack'
    BY <1>1, <1>2 DEF GuidedInv, FedBack, ControlOrigin, guidanceVars
  <1>8. Followed'
    BY <1>1, <1>2 DEF GuidedInv, Followed, Shown
  <1>9. Observed'
    BY <1>1, <1>2 DEF GuidedInv, Observed, Published
  <1> QED  BY <1>4, <1>5, <1>6, <1>7, <1>8, <1>9 DEF GuidedInv

-----------------------------------------------------------------------------
(* The gyro average. *)

\* Extending a part of a sequence that reaches its end extends that part.
LEMMA AppendToSubSeq ==
    ASSUME NEW s \in Seq(Nat), NEW t \in Nat, NEW m \in 1..(Len(s) + 1)
    PROVE  Append(SubSeq(s, m, Len(s)), t) = SubSeq(Append(s, t), m, Len(s) + 1)
  <1> DEFINE n == Len(s)
             part == SubSeq(s, m, n)
             whole == Append(s, t)
  <1>1. n \in Nat /\ m \in Nat /\ m >= 1 /\ m <= n + 1
    BY LenProperties
  <1>2. \A i \in m..n : s[i] \in Nat
    BY <1>1, ElementOfSeq
  <1>3. /\ part \in Seq(Nat) /\ Len(part) = (IF m <= n THEN n - m + 1 ELSE 0)
        /\ \A i \in 1..(n - m + 1) : part[i] = s[m + i - 1]
    BY <1>1, <1>2, SubSeqProperties
  <1>4. /\ whole \in Seq(Nat) /\ Len(whole) = n + 1 /\ whole[n + 1] = t
        /\ \A i \in 1..n : whole[i] = s[i]
    BY AppendProperties
  <1> HIDE DEF n, part, whole
  <1>5. Len(part) = n - m + 1
    BY <1>1, <1>3
  <1>6. /\ Append(part, t) \in Seq(Nat) /\ Len(Append(part, t)) = n - m + 2
        /\ Append(part, t)[n - m + 2] = t
        /\ \A i \in 1..(n - m + 1) : Append(part, t)[i] = part[i]
    <2>1. n - m + 1 \in Nat /\ (n - m + 1) + 1 = n - m + 2
      BY <1>1
    <2> QED  BY <1>3, <1>5, <2>1, AppendProperties
  <1>7. \A i \in m..(n + 1) : whole[i] \in Nat
    <2>1. \A i \in 1..Len(whole) : whole[i] \in Nat
      BY <1>4, ElementOfSeq
    <2>2. m..(n + 1) \subseteq 1..Len(whole)
      BY <1>1, <1>4
    <2> QED  BY <2>1, <2>2
  <1>8. /\ SubSeq(whole, m, n + 1) \in Seq(Nat) /\ Len(SubSeq(whole, m, n + 1)) = n - m + 2
        /\ \A i \in 1..(n - m + 2) : SubSeq(whole, m, n + 1)[i] = whole[m + i - 1]
    <2>1. n + 1 \in Int /\ (n + 1) - m + 1 = n - m + 2 /\ m <= n + 1
      BY <1>1
    <2> QED  BY <1>1, <1>7, <2>1, SubSeqProperties
  <1>9. \A i \in 1..(n - m + 2) : Append(part, t)[i] = SubSeq(whole, m, n + 1)[i]
    <2> TAKE i \in 1..(n - m + 2)
    <2>1. CASE i = n - m + 2
      <3>1. m + i - 1 = n + 1
        BY <1>1, <2>1
      <3> QED  BY <1>4, <1>6, <1>8, <2>1, <3>1
    <2>2. CASE i # n - m + 2
      <3>1. i \in 1..(n - m + 1) /\ m + i - 1 \in 1..n
        BY <1>1, <2>2
      <3> QED  BY <1>3, <1>4, <1>6, <1>8, <3>1
    <2> QED  BY <2>1, <2>2
  <1>10. Append(part, t) = SubSeq(whole, m, n + 1)
    BY <1>6, <1>8, <1>9, SeqEqual
  <1> QED  BY <1>10 DEF part, whole, n

\* Where the latest w elements of n begin, and of n + 1.
LEMMA LatestStart ==
    ASSUME NEW n \in Nat, NEW w \in Nat \ {0}
    PROVE  /\ n - Min({n, w}) + 1 = (IF n <= w THEN 1 ELSE n - w + 1)
           /\ (n + 1) - Min({n + 1, w}) + 1 = (IF n < w THEN 1 ELSE n - w + 2)
  <1>1. /\ Min({n, w}) = (IF n <= w THEN n ELSE w)
        /\ Min({n + 1, w}) = (IF n + 1 <= w THEN n + 1 ELSE w)
    <2>1. n \in Int /\ n + 1 \in Int /\ w \in Int
      OBVIOUS
    <2> QED  BY <2>1, MinOfTwo
  <1> QED  BY <1>1

\* A full average gives up its oldest increment for the next one.
LEMMA PushKeepsLatest ==
    ASSUME NEW s \in Seq(Nat), NEW t \in Nat, rates.window \in Nat \ {0}
    PROVE  LET all == Append(s, t)
           IN  PushIncrement(SubSeq(s, Len(s) - Min({Len(s), rates.window}) + 1, Len(s)), t)
                 = SubSeq(all, Len(all) - Min({Len(all), rates.window}) + 1, Len(all))
  <1> DEFINE n == Len(s)
             w == rates.window
             m == IF n <= w THEN 1 ELSE n - w + 1
             window == SubSeq(s, m, n)
  <1>1. n \in Nat /\ w \in Nat \ {0}
    BY LenProperties
  <1>2. Len(Append(s, t)) = n + 1
    BY AppendProperties
  <1>3. /\ n - Min({n, w}) + 1 = m
        /\ (n + 1) - Min({n + 1, w}) + 1 = (IF n < w THEN 1 ELSE n - w + 2)
    BY <1>1, LatestStart
  <1> SUFFICES PushIncrement(window, t) = SubSeq(Append(s, t), IF n < w THEN 1 ELSE n - w + 2, n + 1)
    BY <1>2, <1>3
  <1>4. Len(window) = (IF n <= w THEN n ELSE w) /\ m \in 1..(n + 1)
    <2>1. m \in 1..(n + 1)
      BY <1>1
    <2>2. \A i \in m..n : s[i] \in Nat
      BY <1>1, <2>1, ElementOfSeq
    <2>3. Len(window) = (IF m <= n THEN n - m + 1 ELSE 0)
      BY <1>1, <2>1, <2>2, SubSeqProperties
    <2>4. m = (IF n <= w THEN 1 ELSE n - w + 1)
      OBVIOUS
    <2> HIDE DEF m, n, w, window
    <2> QED  BY <1>1, <2>1, <2>3, <2>4
  <1>5. CASE n < w
    <2>1. Len(window) # w /\ m = 1
      BY <1>1, <1>4, <1>5
    <2>2. PushIncrement(window, t) = Append(SubSeq(s, m, n), t)
      BY <2>1 DEF PushIncrement
    <2>3. PushIncrement(window, t) = SubSeq(Append(s, t), m, n + 1)
      BY <1>4, <2>2, AppendToSubSeq
    <2> QED  BY <1>5, <2>1, <2>3
  <1>6. CASE ~(n < w)
    <2>1. m = n - w + 1 /\ m + 1 = n - w + 2 /\ m + 1 \in 1..(n + 1) /\ m \in 1..n /\ Len(window) = w
      <3>1. m = (IF n <= w THEN 1 ELSE n - w + 1)
        OBVIOUS
      <3> HIDE DEF m, n, w, window
      <3> QED  BY <1>1, <1>4, <1>6, <3>1
    <2>2. Tail(window) = SubSeq(s, m + 1, n)
      <3>1. m \in 1..Len(s) /\ n \in m..Len(s)
        BY <1>1, <2>1
      <3> QED  BY <3>1, HeadTailOfSubSeq
    <2>3. PushIncrement(window, t) = Append(SubSeq(s, m + 1, n), t)
      BY <2>1, <2>2 DEF PushIncrement
    <2>4. PushIncrement(window, t) = SubSeq(Append(s, t), m + 1, n + 1)
      BY <2>1, <2>3, AppendToSubSeq
    <2> QED  BY <1>6, <2>1, <2>4
  <1> QED  BY <1>5, <1>6

\* An increment that is due is pushed, and the schedule goes on past the epoch.
LEMMA PublishPreserves == ASSUME GuidedInv, Publish PROVE GuidedInv'
  <1> DEFINE c == rates.imu
             a == rates.app
             pushed == epoch > 0 /\ imuDue <= epoch
  <1>1. /\ stage = "publish" /\ stage' = "feed_back"
        /\ UNCHANGED <<guidanceVars, plantVars, endVars, epoch, target, terminal, reported, phase>>
        /\ pushed => /\ gyro' = PushIncrement(gyro, epoch) /\ UNCHANGED <<launchQ, latchedQ>>
                     /\ imuTimes' = Append(imuTimes, epoch)
                     /\ imuDue' = c * ((epoch \div c) + 1)
        /\ ~pushed => UNCHANGED <<pilotVars, imuTimes, imuDue>>
    BY DEF Publish, ObserveImu
  <1>2. UNCHANGED <<guidanceVars, rates, plantT, guidanceT, autopilotT, wasPad, response, truth,
                    launchQ, latchedQ, tEnd, complete, control, available, departed>>
    BY <1>1 DEF plantVars, pilotVars, endVars
  <1>3. epoch \in Nat /\ epoch # None /\ imuDue \in Nat /\ imuTimes \in Seq(Nat) /\ gyro \in Seq(Nat)
        /\ c \in Nat \ {0} /\ a \in Nat \ {0} /\ rates.window \in Nat \ {0} /\ epoch % a = 0
    BY <1>1, TimesOfStep, Periods DEF GuidedInv, Ahead
  <1>4. complete' => plantT = tEnd
    BY <1>2 DEF GuidedInv, TimeLine
  <1>5. /\ GuidanceTypeOK' /\ BeforeStart' /\ TimeLine' /\ Piloted' /\ Commanded'
        /\ Filtered' /\ EntryConstantsWindow' /\ Sampled' /\ OneStepOverlap'
    BY <1>1, <1>2, <1>4, SourceStays
  <1>6. /\ gyro = SubSeq(imuTimes, Len(imuTimes) - Min({Len(imuTimes), rates.window}) + 1, Len(imuTimes))
        /\ IF Published = 0 THEN imuTimes = <<>> /\ imuDue = 0
           ELSE imuTimes # <<>> /\ Published < imuDue /\ imuDue <= imuTimes[Len(imuTimes)] + c
    BY <1>1 DEF GuidedInv, Observed
  <1>7. Published = (IF epoch > 0 THEN epoch - a ELSE epoch) /\ Published' = epoch
    BY <1>1, <1>2, <1>3 DEF Published
  <1>8. Ahead' /\ FedBack' /\ Followed'
    <2>1. Ahead'
      BY <1>1, <1>2 DEF GuidedInv, Ahead
    <2>2. FedBack'
      BY <1>1, <1>2 DEF GuidedInv, FedBack, ControlOrigin, guidanceVars
    <2>3. Followed'
      BY <1>1, <1>2 DEF GuidedInv, Followed, Shown
    <2> QED  BY <2>1, <2>2, <2>3
  <1> HIDE DEF a, c
  <1>9. CASE pushed
    <2>1. /\ imuTimes' = Append(imuTimes, epoch) /\ imuTimes' \in Seq(Nat)
          /\ Len(imuTimes') = Len(imuTimes) + 1 /\ imuTimes'[Len(imuTimes) + 1] = epoch
      <3>1. imuTimes' = Append(imuTimes, epoch)
        BY <1>1, <1>9
      <3> QED  BY <1>3, <3>1, AppendProperties
    <2>2. imuTimes' # <<>> /\ imuTimes'[Len(imuTimes')] = epoch
      <3>1. Len(imuTimes) \in Nat
        BY <1>3, LenProperties
      <3> QED  BY <2>1, <3>1
    <2>3. imuDue' \in Nat /\ epoch < imuDue' /\ imuDue' <= epoch + c
      BY <1>1, <1>3, <1>9, FirstMultipleAfter
    <2>4. gyro' = SubSeq(imuTimes', Len(imuTimes') - Min({Len(imuTimes'), rates.window}) + 1, Len(imuTimes'))
      <3>1. gyro' = PushIncrement(gyro, epoch)
        BY <1>1, <1>9
      <3> QED  BY <1>3, <1>6, <2>1, <3>1, PushKeepsLatest
    <2>5. gyro' \in Seq(Nat)
      <3>1. PushIncrement(gyro, epoch) \in Seq(Nat)
        <4>1. CASE Len(gyro) = rates.window
          <5>1. gyro # <<>>
            BY <1>3, <4>1
          <5> QED  BY <1>3, <4>1, <5>1, HeadTailProperties, AppendProperties DEF PushIncrement
        <4>2. CASE Len(gyro) # rates.window
          BY <1>3, <4>2, AppendProperties DEF PushIncrement
        <4> QED  BY <4>1, <4>2
      <3> QED  BY <1>1, <1>9, <3>1
    <2>6. epoch # 0
      BY <1>3, <1>9
    <2>7. Observed'
      BY <1>2, <1>7, <2>2, <2>3, <2>4, <2>6 DEF Observed, c
    <2>8. GuidedTypeOK'
      BY <1>1, <1>2, <1>5, <2>1, <2>3, <2>5 DEF GuidedInv, GuidedTypeOK, guidanceVars
    <2> QED  BY <1>5, <2>7, <2>8, <1>8 DEF GuidedInv
  <1>10. CASE ~pushed
    <2>1. UNCHANGED <<gyro, imuTimes, imuDue>>
      BY <1>1, <1>10 DEF pilotVars
    <2>2. IF epoch = 0 THEN imuTimes = <<>> /\ imuDue = 0
          ELSE imuTimes # <<>> /\ epoch < imuDue /\ imuDue <= imuTimes[Len(imuTimes)] + c
      <3>1. CASE epoch = 0
        BY <1>6, <1>7, <3>1
      <3>2. CASE epoch # 0
        <4>1. epoch < imuDue /\ epoch > 0
          BY <1>3, <1>10, <3>2
        <4>2. Published # 0
          BY <1>3, <1>6, <4>1
        <4> QED  BY <1>6, <3>2, <4>1, <4>2
      <3> QED  BY <3>1, <3>2
    <2>3. Observed'
      BY <1>2, <1>6, <1>7, <2>1, <2>2 DEF Observed, c
    <2>4. GuidedTypeOK'
      BY <1>1, <1>2, <1>5, <2>1 DEF GuidedInv, GuidedTypeOK, guidanceVars
    <2> QED  BY <1>5, <2>3, <2>4, <1>8 DEF GuidedInv
  <1> QED  BY <1>9, <1>10

\* The control state of the epoch goes to the source; that of the start also starts the
\* control models over.
LEMMA FeedBackPreserves == ASSUME GuidedInv, FeedBack PROVE GuidedInv'
  <1> DEFINE d == rates.dynamics
             restart == epoch = 0 /\ plantT = 0 /\ Len(truth) = 1
  <1>1. /\ stage = "feed_back" /\ stage' = (IF terminal THEN "finished" ELSE "prepare")
        /\ control' = [t |-> epoch, epoch |-> epoch]
        /\ restart => ReplaceInitialControlState
        /\ ~restart => UNCHANGED <<active, entered, progress, captured, command, remaining, constants,
                                   applied, launchQ, latchedQ, gyro, response, truth>>
        /\ UNCHANGED <<definition, rates, plantT, guidanceT, autopilotT, wasPad, available, tEnd,
                       departed, complete, epoch, target, terminal, reported, phase, imuDue, imuTimes>>
    BY DEF FeedBack, SetControlState, ControlFrame, endVars
  <1>2. /\ plantT \in Nat /\ epoch \in Nat /\ epoch # None /\ tEnd \in Nat /\ d \in Nat \ {0}
        /\ autopilotT \in Nat /\ GuidedTypeOK /\ rates.window \in Nat \ {0}
    BY <1>1, TimesOfStep, Periods DEF GuidedInv, Ahead
  <1>3. /\ epoch <= plantT /\ epoch <= tEnd /\ plantT < epoch + d /\ terminal = (epoch = tEnd)
        /\ epoch % rates.app = 0 /\ (epoch > 0 => captured = ControlOrigin) /\ autopilotT <= epoch
    BY <1>1, <1>2 DEF GuidedInv, Ahead, FedBack
  <1>4. epoch = 0 => restart
    <2>1. plantT % d = 0
      BY DEF GuidedInv, TimeLine
    <2>2. 0 < plantT => 0 + d <= plantT
      BY <1>2, <2>1, OwnMultiple, MultiplesApart
    <2>3. epoch = 0 => plantT = 0
      BY <1>2, <1>3, <2>2
    <2>4. plantT = 0 => Len(truth) = 1
      BY <1>1 DEF GuidedInv, Sampled
    <2> QED  BY <2>3, <2>4
  <1>5. control' # None /\ control'.t = epoch /\ control' \in [t : Nat, epoch : Nat]
    <2>1. control' \in [t : Nat, epoch : Nat]
      BY <1>1, <1>2
    <2> QED  BY <1>1, <2>1, NoneAssumption
  <1>6. /\ stage' \in {"prepare", "finished"}
        /\ stage' = "prepare" => epoch < tEnd
        /\ stage' = "finished" => epoch = tEnd
    <2>1. CASE epoch = tEnd
      BY <1>1, <1>3, <2>1
    <2>2. CASE epoch # tEnd
      <3>1. ~terminal
        BY <1>3, <2>2
      <3>2. stage' = "prepare"
        BY <1>1, <3>1
      <3>3. epoch < tEnd
        BY <1>2, <1>3, <2>2
      <3> QED  BY <3>2, <3>3
    <2> QED  BY <2>1, <2>2
  <1>7. Ahead'
    BY <1>1, <1>2, <1>3, <1>6 DEF Ahead
  <1>8. captured' = ControlOrigin => FedBack'
    BY <1>1, <1>3, <1>5, <1>6 DEF FedBack, ControlOrigin
  <1>9. reported = Shown /\ phase = reported
    BY <1>1 DEF GuidedInv, Followed
  <1>10. Published' = Published
    BY <1>1, <1>2, <1>6 DEF Published
  <1>11. CASE restart
    <2>1. /\ InitializeControlModels(ControlOrigin) /\ response' = response
          /\ truth' = <<Sample(0, command', truth[1].held)>>
      BY <1>1, <1>11 DEF ReplaceInitialControlState, ControlOrigin
    <2>2. guidanceT = 0 /\ launchQ = "configured" /\ active = definition.initial
      BY <1>1, <1>11, TimesOfStep DEF GuidedInv, TimeLine, Piloted, Commanded
    <2>3. ControlOrigin \in {"configured", "estimated"}
      BY DEF ControlOrigin
    <2>4. /\ GuidanceTypeOK' /\ Piloted' /\ Commanded' /\ Filtered' /\ EntryConstantsWindow'
          /\ active' = definition.initial /\ captured' = ControlOrigin
          /\ command' = Execution(definition.initial, TRUE) /\ gyro' = <<>>
          /\ launchQ' = "configured" /\ latchedQ' \in {"configured", "current", "tracked"}
      BY <1>1, <1>2, <1>11, <2>1, <2>2, <2>3, ControlModelsStart
    <2>5. command'.state = definition.initial /\ command'.pad = State(definition.initial).pad
      BY <2>4 DEF Execution
    <2>6. /\ truth[1].held = State(definition.initial).pad /\ wasPad = State(definition.initial).pad
          /\ truth[1].state = definition.initial
      BY <1>1, <1>11, <2>2 DEF GuidedInv, Sampled
    <2>7. truth' = <<[t |-> 0, state |-> definition.initial, pad |-> State(definition.initial).pad,
                      held |-> truth[1].held, response |-> response']>>
      BY <2>1, <2>5 DEF Sample
    <2>8. /\ Sampled' /\ OneStepOverlap' /\ wasPad' \in BOOLEAN /\ Len(truth') = 1
          /\ truth'[1].state = definition.initial
          /\ truth' \in Seq([t : Nat, state : DOMAIN definition.states, pad : BOOLEAN,
                             held : BOOLEAN, response : Nat])
      BY <1>1, <1>2, <1>11, <2>1, <2>4, <2>6, <2>7, InitialSample
    <2>9. GuidedTypeOK'
      <3>1. UNCHANGED <<definition, rates, plantT, guidanceT, autopilotT, available, tEnd, response,
                        departed, complete, epoch, target, terminal, reported, phase, imuDue, imuTimes>>
        BY <1>1, <2>1
      <3>2. /\ rates \in Rates /\ RatesAccepted(rates)
            /\ {plantT, guidanceT, autopilotT, response, available, tEnd} \subseteq Nat
            /\ departed \in BOOLEAN /\ complete \in BOOLEAN /\ terminal \in BOOLEAN
            /\ imuTimes \in Seq(Nat) /\ imuDue \in Nat /\ target \in Nat
            /\ {reported, phase} \subseteq DOMAIN definition.states
        BY <1>2 DEF GuidedTypeOK
      <3>3. gyro' \in Seq(Nat)
        BY <2>4
      <3> QED  BY <1>2, <1>5, <1>6, <2>4, <2>8, <3>1, <3>2, <3>3 DEF GuidedTypeOK
    <2>10. BeforeStart' /\ TimeLine'
      BY <1>1, <1>6 DEF GuidedInv, BeforeStart, TimeLine
    <2>11. Followed'
      <3>1. Shown = definition.initial /\ Shown' = definition.initial
        BY <1>1, <1>2, <1>11, <2>6, <2>8 DEF Shown
      <3> QED  BY <1>1, <1>6, <1>9, <3>1 DEF Followed
    <2>12. Observed'
      <3>1. Published = 0
        BY <1>1, <1>2, <1>11 DEF Published
      <3>2. imuTimes = <<>> /\ imuDue = 0
        BY <1>1, <3>1 DEF GuidedInv, Observed
      <3>3. gyro' = SubSeq(imuTimes', Len(imuTimes') - Min({Len(imuTimes'), rates.window}) + 1, Len(imuTimes'))
        BY <1>1, <1>2, <2>4, <3>2, EmptyAverage
      <3> QED  BY <1>1, <1>10, <3>1, <3>2, <3>3 DEF Observed
    <2> QED  BY <1>7, <1>8, <2>4, <2>8, <2>9, <2>10, <2>11, <2>12 DEF GuidedInv
  <1>12. CASE ~restart
    <2>1. UNCHANGED <<guidanceVars, rates, plantT, guidanceT, autopilotT, wasPad, response, truth,
                      launchQ, latchedQ, tEnd, complete, gyro, available, departed>>
      BY <1>1, <1>12 DEF guidanceVars
    <2>2. complete' => plantT = tEnd
      BY <2>1 DEF GuidedInv, TimeLine
    <2>3. /\ GuidanceTypeOK' /\ BeforeStart' /\ TimeLine' /\ Piloted' /\ Commanded'
          /\ Filtered' /\ EntryConstantsWindow' /\ Sampled' /\ OneStepOverlap'
      BY <1>1, <1>6, <2>1, <2>2, SourceStays
    <2>4. GuidedTypeOK'
      BY <1>1, <1>2, <1>5, <1>6, <2>1, <2>3 DEF GuidedTypeOK, guidanceVars
    <2>5. captured' = ControlOrigin
      <3>1. epoch > 0
        BY <1>2, <1>4, <1>12
      <3> QED  BY <1>3, <2>1, <3>1 DEF guidanceVars
    <2>6. Followed'
      BY <1>1, <1>6, <1>9, <2>1 DEF Followed, Shown
    <2>7. Observed'
      BY <1>1, <1>6, <1>10, <2>1 DEF GuidedInv, Observed
    <2> QED  BY <1>7, <1>8, <2>3, <2>4, <2>5, <2>6, <2>7 DEF GuidedInv
  <1> QED  BY <1>11, <1>12

-----------------------------------------------------------------------------
(* The invariant. *)

\* The invariant holds initially.
LEMMA GuidedInit_Inv == GuidedInit => GuidedInv
  <1> SUFFICES ASSUME GuidedInit PROVE GuidedInv
    OBVIOUS
  <1>1. /\ definition \in Definitions /\ DefinitionAccepted(definition)
        /\ rates \in Rates /\ RatesAccepted(rates) /\ EndOfProfile(rates) > 0
        /\ active = definition.initial /\ entered = 0
        /\ progress = [i \in DOMAIN definition.states |-> 0]
        /\ command = Execution(definition.initial, FALSE)
        /\ remaining = 0 /\ captured = None
        /\ constants = [of |-> definition.initial, entry |-> FALSE] /\ applied = constants
        /\ plantT = 0 /\ guidanceT = 0 /\ autopilotT = 0 /\ wasPad = FALSE /\ response = 0
        /\ truth = <<>> /\ control = None /\ launchQ = None /\ latchedQ = None /\ gyro = <<>>
        /\ available = 0 /\ tEnd = EndOfProfile(rates) /\ departed = FALSE /\ complete = FALSE
        /\ stage = "initialize" /\ epoch = None /\ target = 0 /\ terminal = FALSE
        /\ reported = definition.initial /\ phase = definition.initial
        /\ imuDue = 0 /\ imuTimes = <<>>
    BY DEF GuidedInit, SourceInit, ProfileStarts
  <1>2. definition.initial \in DOMAIN definition.states
    BY <1>1 DEF DefinitionAccepted
  <1>3. GuidanceTypeOK
    <2>1. progress \in [DOMAIN definition.states -> 0..Waypoints]
      BY <1>1, WaypointsAssumption
    <2>2. {constants, applied} \subseteq [of : DOMAIN definition.states, entry : BOOLEAN]
      BY <1>1, <1>2
    <2>3. \E i \in DOMAIN definition.states, e \in BOOLEAN : command = Execution(i, e)
      BY <1>1, <1>2
    <2> QED  BY <1>1, <1>2, <2>1, <2>2, <2>3 DEF GuidanceTypeOK
  <1>4. tEnd \in Nat /\ tEnd % rates.dynamics = 0
    <2>1. rates \in RateConfig
      BY <1>1, RatesAssumption
    <2> QED  BY <1>1, <2>1, EndIsSample
  <1>5. GuidedTypeOK
    <2>1. truth \in Seq([t : Nat, state : DOMAIN definition.states, pad : BOOLEAN, held : BOOLEAN,
                         response : Nat])
      BY <1>1
    <2>2. gyro \in Seq(Nat) /\ imuTimes \in Seq(Nat)
      BY <1>1
    <2>3. {reported, phase} \subseteq DOMAIN definition.states
      BY <1>1, <1>2
    <2>4. {plantT, guidanceT, autopilotT, response, available, tEnd} \subseteq Nat
      BY <1>1, <1>4
    <2>5. /\ wasPad \in BOOLEAN /\ departed \in BOOLEAN /\ complete \in BOOLEAN /\ terminal \in BOOLEAN
          /\ imuDue \in Nat /\ target \in Nat
      BY <1>1
    <2> QED  BY <1>1, <1>3, <2>1, <2>2, <2>3, <2>4, <2>5 DEF GuidedTypeOK
  <1>6. /\ rates.dynamics \in Nat \ {0} /\ rates.guidance \in Nat \ {0} /\ rates.window \in Nat \ {0}
    BY <1>5, Periods
  <1>7. BeforeStart
    BY <1>1 DEF BeforeStart
  <1>8. TimeLine
    <2>1. 0 % rates.dynamics = 0 /\ 0 % rates.guidance = 0
      BY <1>6, OwnMultiple
    <2> QED  BY <1>1, <1>4, <1>6, <2>1 DEF TimeLine
  <1>9. Ahead /\ FedBack
    BY <1>1 DEF Ahead, FedBack
  <1>10. Piloted /\ Filtered /\ EntryConstantsWindow /\ Sampled
    BY <1>1 DEF Piloted, Filtered, EntryConstantsWindow, Sampled
  <1>11. Commanded
    <2>1. \A tr \in ToSet(State(active).transitions) : tr.after \in Nat \ {0}
      BY <1>1, <1>2, <1>3, DefinitionFacts
    <2>2. \E e \in BOOLEAN : command = Execution(active, e)
      BY <1>1
    <2>3. guidanceT - entered = 0 /\ entered <= guidanceT
      BY <1>1
    <2>4. \A tr \in ToSet(State(active).transitions) : guidanceT - entered < tr.after
      BY <2>1, <2>3
    <2> QED  BY <1>1, <2>2, <2>3, <2>4 DEF Commanded
  <1>12. OneStepOverlap
    <2>1. Len(truth) = 0
      BY <1>1
    <2> QED  BY <2>1 DEF OneStepOverlap
  <1>13. Followed
    BY <1>1 DEF Followed
  <1>14. Observed
    BY <1>1, <1>6, EmptyAverage DEF Observed
  <1> QED  BY <1>5, <1>7, <1>8, <1>9, <1>10, <1>11, <1>12, <1>13, <1>14 DEF GuidedInv

\* Every step keeps it.
LEMMA GuidedStep_Inv == GuidedInv /\ [GuidedNext]_guidedVars => GuidedInv'
  <1> SUFFICES ASSUME GuidedInv, [GuidedNext]_guidedVars PROVE GuidedInv'
    OBVIOUS
  <1>1. CASE Initialize
    BY <1>1, InitializePreserves
  <1>2. CASE Prepare
    BY <1>2, PreparePreserves
  <1>3. CASE Advance
    BY <1>3, AdvancePreserves
  <1>4. CASE AdvanceFails
    BY <1>4, AdvanceFailsPreserves
  <1>5. CASE Arrive
    BY <1>5, ArrivePreserves
  <1>6. CASE Query
    BY <1>6, QueryPreserves
  <1>7. CASE Synchronize
    BY <1>7, SynchronizePreserves
  <1>8. CASE Publish
    BY <1>8, PublishPreserves
  <1>9. CASE FeedBack
    BY <1>9, FeedBackPreserves
  <1>10. CASE FeedBackFails
    BY <1>10, FeedBackFailsPreserves
  <1>11. CASE UNCHANGED guidedVars
    <2>1. UNCHANGED <<sourceVars, stage, epoch, target, terminal, reported, phase, imuDue, imuTimes>>
      BY <1>11 DEF guidedVars, adapterVars
    <2>2. UNCHANGED <<guidanceVars, rates, plantT, guidanceT, autopilotT, wasPad, response, truth,
                      launchQ, latchedQ, tEnd, complete, control, gyro, available, departed>>
      BY <2>1 DEF sourceVars, plantVars, pilotVars, endVars
    <2>3. /\ GuidanceTypeOK' /\ Commanded'
      BY <2>1, <2>2 DEF GuidedInv, GuidedTypeOK, GuidanceTypeOK, Commanded, guidanceVars, Execution,
                        State, Formation
    <2>4. GuidedTypeOK'
      BY <2>1, <2>2, <2>3 DEF GuidedInv, GuidedTypeOK, guidanceVars
    <2>5. BeforeStart' /\ TimeLine' /\ Ahead'
      BY <2>1, <2>2 DEF GuidedInv, BeforeStart, TimeLine, Ahead
    <2>6. FedBack' /\ Piloted'
      BY <2>1, <2>2 DEF GuidedInv, FedBack, Piloted, ControlOrigin, Latched, guidanceVars
    <2>7. Filtered' /\ EntryConstantsWindow'
      BY <2>1, <2>2 DEF GuidedInv, Filtered, EntryConstantsWindow, guidanceVars, State, LeftAfter,
                        FirstCountdown
    <2>8. Sampled' /\ OneStepOverlap'
      BY <2>1, <2>2 DEF GuidedInv, Sampled, OneStepOverlap, guidanceVars, State, Targets
    <2>9. Followed' /\ Observed'
      BY <2>1, <2>2 DEF GuidedInv, Followed, Shown, Observed, Published, guidanceVars, Targets
    <2> QED  BY <2>3, <2>4, <2>5, <2>6, <2>7, <2>8, <2>9 DEF GuidedInv
  <1> QED  BY <1>1, <1>2, <1>3, <1>4, <1>5, <1>6, <1>7, <1>8, <1>9, <1>10, <1>11 DEF GuidedNext

\* The inductive invariant holds in every mission.
THEOREM GuidedInvariant == GuidedSpec => []GuidedInv
  BY GuidedInit_Inv, GuidedStep_Inv, PTL DEF GuidedSpec

-----------------------------------------------------------------------------
(* What the runs check, for every definition and every set of rates. *)

\* Every variable keeps its type (GuidedTypeOK).
THEOREM GuidedTypeCorrect == GuidedSpec => []GuidedTypeOK
  <1>1. GuidedInv => GuidedTypeOK
    BY DEF GuidedInv
  <1> QED  BY <1>1, GuidedInvariant, PTL

\* MissionRuntime::synchronize() accepts every phase that a generated trajectory reports,
\* for an epoch never covers more than one transition.
THEOREM PhasesAreFollowed == GuidedSpec => []PhaseNeverSkipped
  <1>1. GuidedInv => PhaseNeverSkipped
    BY DEF GuidedInv, Followed, PhaseNeverSkipped
  <1> QED  BY <1>1, GuidedInvariant, PTL

\* GuidanceCommandFilter::advance() uses the constants of the active state, its entry
\* constants for the entry duration, and for less than a guidance period longer.
THEOREM EntryConstantsAreUsed == GuidedSpec => []EntryConstantsWindow
  <1>1. GuidedInv => EntryConstantsWindow
    BY DEF GuidedInv
  <1> QED  BY <1>1, GuidedInvariant, PTL

\* The plant is held for one native step after guidance has left the pad, and its vehicle
\* response advances meanwhile.
THEOREM ReleaseOverlaps == GuidedSpec => []OneStepOverlap
  <1>1. GuidedInv => OneStepOverlap
    BY DEF GuidedInv
  <1> QED  BY <1>1, GuidedInvariant, PTL

\* FirstOrderAutopilotModel keeps the configured launch attitude on the pad, also after the
\* models started over from an estimate.
THEOREM LaunchAttitudeIsHeld == GuidedSpec => []PadHoldsLaunchAttitude
  <1>1. GuidedInv => PadHoldsLaunchAttitude
    BY DEF GuidedInv, Piloted, PadHoldsLaunchAttitude, Latched
  <1> QED  BY <1>1, GuidedInvariant, PTL

\* The gyro average holds the latest increments, and at an autopilot step past the start the
\* newest is younger than an IMU period.
THEOREM GyroAverageIsFresh == GuidedSpec => []GyroAverageFresh
  <1>1. ASSUME GuidedInv, stage \in {"advance", "impact"}, autopilotT > 0
        PROVE  gyro # <<>> /\ autopilotT - Last(gyro) < rates.imu
    <2> DEFINE n == Len(imuTimes)
               w == rates.window
               m == n - Min({n, w}) + 1
    <2>1. /\ epoch \in Nat /\ autopilotT \in Nat /\ autopilotT <= epoch /\ imuTimes \in Seq(Nat)
          /\ epoch # None /\ imuDue \in Nat /\ w \in Nat \ {0} /\ rates.imu \in Nat \ {0}
      BY <1>1, TimesOfStep, Periods DEF GuidedInv, Ahead, FedBack
    <2>2. epoch > 0
      BY <1>1, <2>1
    <2>3. Published = epoch
      BY <1>1, <2>1 DEF Published
    <2>4. /\ gyro = SubSeq(imuTimes, m, n) /\ imuTimes # <<>> /\ epoch < imuDue
          /\ imuDue <= imuTimes[n] + rates.imu
      BY <1>1, <2>2, <2>3 DEF GuidedInv, Observed
    <2>5. n \in Nat /\ n >= 1 /\ \A i \in 1..n : imuTimes[i] \in Nat
      BY <2>1, <2>4, LenProperties, EmptySeq, ElementOfSeq
    <2>6. m \in 1..n
      <3>1. m = (IF n <= w THEN 1 ELSE n - w + 1)
        BY <2>1, <2>5, LatestStart
      <3> HIDE DEF m, n, w
      <3> QED  BY <2>1, <2>5, <3>1
    <2> HIDE DEF m, n
    <2>7. /\ gyro \in Seq(Nat) /\ Len(gyro) = n - m + 1
          /\ \A i \in 1..(n - m + 1) : gyro[i] = imuTimes[m + i - 1]
      <3>1. \A i \in m..n : imuTimes[i] \in Nat
        BY <2>5, <2>6
      <3> QED  BY <2>4, <2>5, <2>6, <3>1, SubSeqProperties
    <2>8. Last(gyro) = imuTimes[n] /\ gyro # <<>>
      <3>1. n - m + 1 \in 1..(n - m + 1) /\ m + (n - m + 1) - 1 = n /\ n - m + 1 # 0
        BY <2>5, <2>6
      <3>2. gyro[Len(gyro)] = imuTimes[n]
        BY <2>7, <3>1
      <3> QED  BY <2>7, <3>1, <3>2 DEF Last
    <2>9. imuTimes[n] \in Nat
      BY <2>5
    <2>10. autopilotT - imuTimes[n] < rates.imu
      BY <2>1, <2>4, <2>9
    <2> QED  BY <2>8, <2>10
  <1>2. GuidedInv => GyroAverageFresh
    BY <1>1 DEF GuidedInv, Observed, GyroAverageFresh
  <1> QED  BY <1>2, GuidedInvariant, PTL

\* A finished mission has published the last sample of its source, whether the profile or
\* the ground ends it, and the phase of that sample.
THEOREM EndIsPublished == GuidedSpec => []EndsAtLastSample
  <1>1. ASSUME GuidedInv, stage = "finished"
        PROVE  epoch = tEnd /\ Last(truth).t = epoch /\ reported = Last(truth).state
    <2>1. /\ epoch = tEnd /\ plantT <= tEnd /\ plantT \in Nat /\ tEnd \in Nat /\ 0 < tEnd
      BY <1>1, TimesOfStep DEF GuidedInv, Ahead, TimeLine
    <2>2. epoch # None /\ epoch <= plantT
      BY <1>1, <2>1, NoneAssumption DEF GuidedInv, Ahead
    <2>3. plantT = epoch
      BY <2>1, <2>2
    <2>4. truth[Len(truth)].t = plantT /\ reported = truth[Len(truth)].state
      BY <1>1, <2>1, <2>3 DEF GuidedInv, Sampled, Followed, Shown
    <2> QED  BY <2>1, <2>3, <2>4 DEF Last
  <1>2. GuidedInv => EndsAtLastSample
    BY <1>1 DEF EndsAtLastSample
  <1> QED  BY <1>2, GuidedInvariant, PTL

\* What a step other than a native one does to the guidance and entry times.
LEMMA OtherSteps ==
    ASSUME GuidedInv, [GuidedNext]_guidedVars, ~Advance
    PROVE  guidanceT' = guidanceT /\ entered' = entered
  <1>1. CASE Initialize
    <2>1. entered' = 0 /\ guidanceT' = guidanceT
      BY <1>1 DEF Initialize, InitializeSource, InitializeControlModels, StartMachine
    <2>2. entered \in Nat /\ entered <= guidanceT /\ guidanceT <= plantT /\ plantT = 0 /\ guidanceT \in Nat
      BY <1>1, TimesOfStep DEF Initialize, GuidedInv, BeforeStart, TimeLine, Commanded
    <2> QED  BY <2>1, <2>2
  <1>2. CASE FeedBack
    <2>1. CASE epoch = 0 /\ plantT = 0 /\ Len(truth) = 1
      <3>1. entered' = 0 /\ guidanceT' = guidanceT
        BY <1>2, <2>1 DEF FeedBack, SetControlState, ReplaceInitialControlState,
                          InitializeControlModels, StartMachine
      <3>2. entered \in Nat /\ entered <= guidanceT /\ guidanceT <= plantT /\ guidanceT \in Nat
        BY TimesOfStep DEF GuidedInv, TimeLine, Commanded
      <3> QED  BY <2>1, <3>1, <3>2
    <2>2. CASE ~(epoch = 0 /\ plantT = 0 /\ Len(truth) = 1)
      BY <1>2, <2>2 DEF FeedBack, SetControlState
    <2> QED  BY <2>1, <2>2
  <1>3. CASE Prepare \/ AdvanceFails \/ Query \/ Synchronize \/ FeedBackFails
    BY <1>3 DEF Prepare, AdvanceFails, Query, Synchronize, FeedBackFails, sourceVars, guidanceVars,
                plantVars
  <1>4. CASE Arrive \/ Publish
    BY <1>4 DEF Arrive, Publish, guidanceVars, plantVars
  <1>5. CASE UNCHANGED guidedVars
    BY <1>5 DEF guidedVars, sourceVars, guidanceVars, plantVars
  <1> QED  BY <1>1, <1>2, <1>3, <1>4, <1>5 DEF GuidedNext

\* Past the start, each guidance step runs on the control state that Navigation produced
\* for its own instant, and holds the altitude of that source.
THEOREM GuidanceFollowsNavigation == GuidedSpec => GuidanceConsumesFreshNavigation
  <1>1. ASSUME GuidedInv, [GuidedNext]_guidedVars, guidanceT' # guidanceT
        PROVE  /\ control # None /\ control.t = guidanceT'
               /\ captured = IF rates.estimated THEN "estimated" ELSE "configured"
    <2>1. Advance
      BY <1>1, OtherSteps
    <2>2. guidanceT' = plantT
      BY <1>1, <2>1, GuidanceTurn, NoGuidanceTurn
    <2> QED  BY <1>1, <2>1, <2>2, StepsFromEpoch DEF ControlOrigin
  <1>2. GuidedInv /\ [GuidedNext]_guidedVars
        => [guidanceT' # guidanceT =>
              /\ control # None /\ control.t = guidanceT'
              /\ captured = IF rates.estimated THEN "estimated" ELSE "configured"]_guidedVars
    BY <1>1
  <1> QED  BY <1>2, GuidedInvariant, PTL DEF GuidedSpec, GuidanceConsumesFreshNavigation

\* A state is left at the first guidance step at which a threshold has passed, through the
\* most urgent of the transitions that have.
THEOREM TransitionsAreOnTime == GuidedSpec => TransitionsOnTime
  <1>1. ASSUME GuidedInv, [GuidedNext]_guidedVars, entered' # entered
        PROVE  \E tr \in ToSet(State(active).transitions) :
                  /\ tr.to = active'
                  /\ tr.after <= entered' - entered /\ entered' - entered < tr.after + rates.guidance
                  /\ \A other \in ToSet(State(active).transitions) :
                      /\ entered' - entered < other.after + rates.guidance
                      /\ entered' - entered >= other.after => tr.priority <= other.priority
    <2> DEFINE taken == MostUrgent(Elapsed(active, plantT))
               g == rates.guidance
    <2>1. Advance
      BY <1>1, OtherSteps
    <2>2. GuidanceDue
      BY <1>1, <2>1, NoGuidanceTurn DEF guidanceVars
    <2>3. entered' = plantT /\ active' = Successor(plantT) /\ Elapsed(active, plantT) # {}
      BY <1>1, <2>1, <2>2, GuidanceTurn
    <2>4. /\ plantT \in Nat /\ guidanceT \in Nat /\ entered \in Nat /\ g \in Nat
          /\ plantT = guidanceT + g
      BY <1>1, <2>1, <2>2, TimesOfStep, Periods, StepsFromEpoch DEF GuidedInv
    <2>5. /\ taken \in Elapsed(active, plantT) /\ active' = taken.to
          /\ \A other \in Elapsed(active, plantT) : taken.priority <= other.priority
      BY <1>1, <2>3, SuccessorFacts DEF GuidedInv, GuidedTypeOK, Successor
    <2>6. \A tr \in ToSet(State(active).transitions) : guidanceT - entered < tr.after /\ tr.after \in Nat
      BY <1>1, DefinitionFacts DEF GuidedInv, GuidedTypeOK, GuidanceTypeOK, Commanded
    <2> HIDE DEF taken, g
    <2>7. \A tr \in ToSet(State(active).transitions) : entered' - entered < tr.after + g
      BY <2>3, <2>4, <2>6
    <2>8. \A tr \in ToSet(State(active).transitions) :
              tr \in Elapsed(active, plantT) <=> entered' - entered >= tr.after
      BY <2>3 DEF Elapsed, Passed
    <2>9. taken \in ToSet(State(active).transitions)
      BY <2>5 DEF Elapsed
    <2>10. taken.after <= entered' - entered
      BY <2>3, <2>4, <2>5, <2>6, <2>8, <2>9
    <2> QED  BY <2>5, <2>7, <2>8, <2>9, <2>10 DEF g
  <1>2. GuidedInv /\ [GuidedNext]_guidedVars
        => [entered' # entered =>
              \E tr \in ToSet(State(active).transitions) :
                /\ tr.to = active'
                /\ tr.after <= entered' - entered /\ entered' - entered < tr.after + rates.guidance
                /\ \A other \in ToSet(State(active).transitions) :
                    /\ entered' - entered < other.after + rates.guidance
                    /\ entered' - entered >= other.after => tr.priority <= other.priority]_guidedVars
    BY <1>1
  <1> QED  BY <1>2, GuidedInvariant, PTL DEF GuidedSpec, TransitionsOnTime

\* A transition that fell due at a guidance time is taken there, and none is left behind at
\* the end of the mission but those that fell due after the last guidance step.
THEOREM DueTransitionsAreTaken == GuidedSpec => []DueTransitionsTaken
  <1>1. GuidedInv => DueTransitionsTaken
    <2> SUFFICES ASSUME GuidedInv,
                        NEW tr \in ToSet(State(active).transitions), NEW t \in entered..(plantT - 1),
                        t % rates.guidance = 0
                 PROVE  t - entered < tr.after
      BY DEF DueTransitionsTaken
    <2> DEFINE g == rates.guidance
    <2>1. g \in Nat \ {0}
      BY Periods DEF GuidedInv
    <2>2. plantT \in Nat /\ guidanceT \in Nat /\ entered \in Nat
      BY DEF GuidedInv, GuidedTypeOK, GuidanceTypeOK
    <2>3. guidanceT % g = 0 /\ plantT <= guidanceT + g
      BY DEF GuidedInv, TimeLine
    <2>4. guidanceT - entered < tr.after /\ tr.after \in Nat
      BY DefinitionFacts DEF GuidedInv, GuidedTypeOK, GuidanceTypeOK, Commanded
    <2>5. t \in Nat /\ t < plantT
      BY <2>2
    <2> HIDE DEF g
    <2>6. guidanceT < t => guidanceT + g <= t
      BY <2>1, <2>2, <2>3, <2>5, MultiplesApart DEF g
    <2> QED  BY <2>1, <2>2, <2>3, <2>4, <2>5, <2>6
  <1> QED  BY <1>1, GuidedInvariant, PTL
=============================================================================
