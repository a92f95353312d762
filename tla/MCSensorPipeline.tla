---------------------------- MODULE MCSensorPipeline ----------------------------
(* TLC instance: rates whose samples fall between nanoseconds, pairs of rates    *)
(* that are no multiples, outages, and starts at zero and before a whole second.   *)
EXTENDS SensorPipeline

Hz(num, den) == [key |-> "rate_hz", num |-> num, den |-> den]
Period(num, den) == [key |-> "dt_s", num |-> num, den |-> den]
Window(a, b) == [start |-> a, end |-> b]

\* A hundred nanoseconds to the second, so that a third, a sixth and a seventh of a second
\* are rounded up and down.  The pairs that are no multiples are refused.
MCRates == {
    <<Hz(6, 1), Hz(6, 1), Hz(3, 1)>>, <<Hz(6, 1), Hz(3, 1), Hz(2, 1)>>, <<Hz(7, 1), Period(2, 14), Hz(7, 2)>>,
    <<Period(1, 3), Hz(3, 2), Hz(3, 1)>>, <<Hz(4, 1), Hz(4, 3), Period(1, 4)>>, <<Hz(3, 1), Hz(2, 1), Hz(1, 1)>>,
    <<Hz(6, 1), Hz(4, 1), Hz(5, 1)>> }

MCSetups ==
    {[app |-> r[1], imu |-> r[2], gnss |-> r[3], windows |-> w, start |-> s, end |-> s + d,
      coning |-> c, covPeriod |-> p] :
        r \in MCRates, s \in {0, 940}, d \in {0, 220, 340}, c \in BOOLEAN, p \in {30, 80},
        w \in {<<>>, <<Window(40, 90), Window(130, 200)>>, <<Window(0, 90), Window(50, 120)>>}}
=============================================================================
