------------------------------ MODULE RationalTime ------------------------------
(***************************************************************************)
(* Rational rates and the timestamps of their samples.  A timestamp is the  *)
(* number of nanoseconds since time zero; a rate is so many samples in so     *)
(* many seconds.  The samples of a rate that does not divide a second evenly   *)
(* are rounded to the nanosecond, and a schedule is asked for the samples due. *)
(***************************************************************************)
EXTENDS Integers, Sequences

CONSTANTS
    NsPerSecond,  \* nanoseconds_per_second
    MaxSeconds,   \* numeric_limits<Seconds>::max()
    MaxIndex      \* bound on the sample indices considered

ASSUME TimeAssumption ==
    NsPerSecond \in Nat \ {0} /\ MaxSeconds \in Nat /\ MaxIndex \in Nat \ {0}

Rate == [samples : Nat, s : Nat]

RateIsValid(rate) == rate.samples > 0 /\ rate.s > 0

\* The first instant that no timestamp represents, which stands for a failure.
NoTime == (MaxSeconds + 1) * NsPerSecond

-----------------------------------------------------------------------------
(* RuntimeRate: the rate of a configured frequency or period. *)

\* What a configuration gives of a rate: rate_hz or dt_s, and its value.
ConfiguredRate == [key : {"rate_hz", "dt_s"}, num : Nat \ {0}, den : Nat \ {0}]

Gcd(a, b) == CHOOSE d \in 1..(a + b) :
    /\ a % d = 0 /\ b % d = 0
    /\ \A e \in (d + 1)..(a + b) : ~(a % e = 0 /\ b % e = 0)

\* rational_value_from_positive_scalar() for a value that has a small denominator:
\* the continued fraction ends at its lowest terms.
LowestTerms(value) ==
    [num |-> value.num \div Gcd(value.num, value.den), den |-> value.den \div Gcd(value.num, value.den)]

\* rational_rate_from_required_runtime_rate(): rate_hz is samples per second, dt_s
\* seconds per sample.
RateFromRuntime(configured) ==
    LET value == LowestTerms(configured)
    IN  IF configured.key = "rate_hz" THEN [samples |-> value.num, s |-> value.den]
        ELSE [samples |-> value.den, s |-> value.num]

-----------------------------------------------------------------------------
(* RationalRate. *)

\* rational_rate_is_integer_multiple(): the factors of the denominators cancel
\* against those of the numerators, one after the other.
IsIntegerMultiple(faster, slower) ==
    /\ RateIsValid(faster) /\ RateIsValid(slower)
    /\ LET g1 == Gcd(faster.samples, faster.s)
           g2 == Gcd(slower.s, faster.s \div g1)
           n1 == faster.samples \div g1
           n2 == slower.s \div g2
           g3 == Gcd(n1, slower.samples)
           g4 == Gcd(n2, slower.samples \div g3)
       IN  faster.s \div g1 = g2 /\ slower.samples \div g3 = g4

\* timestamp_at_sample_index(): whole cycles of the rate, then the rest rounded half
\* up to the nanosecond.
TimestampAt(start, rate, index) ==
    LET cycles == (index \div rate.samples) * rate.s
        rest == (index % rate.samples) * rate.s
        ns == ((rest % rate.samples) * NsPerSecond + rate.samples \div 2) \div rate.samples
        t == start + (cycles + rest \div rate.samples) * NsPerSecond + ns
    IN  IF rest > MaxSeconds \/ t >= NoTime THEN NoTime ELSE t

-----------------------------------------------------------------------------
(* RationalSchedule: a start, a rate and the next index that is due. *)

\* The first index from the schedule's next that is later than t.
IndexAfter(start, rate, next, t) ==
    CHOOSE k \in next..MaxIndex :
        /\ TimestampAt(start, rate, k) > t
        /\ \A j \in next..(k - 1) : TimestampAt(start, rate, j) <= t

\* due(): whether an index is due, which a following index that no timestamp
\* represents hides.
Due(start, rate, next, t) ==
    /\ start <= t
    /\ TimestampAt(start, rate, next) <= t
    /\ TimestampAt(start, rate, IndexAfter(start, rate, next, t)) # NoTime

\* due() consumes every index that is due.
NextDue(start, rate, next, t) ==
    IF start <= t THEN IndexAfter(start, rate, next, t) ELSE next
=============================================================================
