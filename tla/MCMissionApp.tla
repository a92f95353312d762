----------------------------- MODULE MCMissionApp -----------------------------
(* TLC instance: sources of every kind whose end lies on and off the epoch and  *)
(* dynamics grids, under a two-phase mission and one with a coasting phase.     *)
EXTENDS MissionApp

CONSTANTS p1, p2, p3, none, typical, extreme

MCPhases == {p1, p2, p3}

Gated(p) == [probability |-> p, enabled |-> TRUE]
Open(p)  == [probability |-> p, enabled |-> FALSE]
Both(c)  == [s \in Sensors |-> c]

Mission(phases, to, baseline, last) ==
    [phases |-> phases, initial |-> p1, policy |-> "reject", to |-> to,
     terminal |-> {p \in phases : to[p] = {}},
     navigation |-> [p \in MCPhases |->
        IF p = p1 THEN Both(Gated(none)) ELSE IF p = p2 THEN Both(Open(none)) ELSE Both(last)],
     baseline |-> Both(baseline)]

Single == [p \in MCPhases |-> {}]
Chain  == [p \in MCPhases |-> IF p = p1 THEN {p2} ELSE IF p = p2 THEN {p3} ELSE {}]
Branch == [p \in MCPhases |-> IF p = p1 THEN {p2, p3} ELSE {}]

MCMissions ==
    {Mission({p1}, Single, Gated(typical), Open(none)),
     Mission(MCPhases, Chain, Gated(typical), Gated(typical)),
     Mission(MCPhases, Branch, Gated(typical), Gated(extreme)),
     Mission(MCPhases, Branch, Gated(extreme), Open(none))}

\* A duration in whole ticks.
Ticks(n) == n * Fine

MCSources ==
    [kind : {"stationary"}, duration : {Ticks(0), Ticks(4), Ticks(5) - 1}, impact : {FALSE}]
    \cup [kind : {"tabulated"}, duration : {Ticks(6), Ticks(7), Ticks(9)}, impact : {FALSE}]
    \cup [kind : {"generated"}, duration : {Ticks(6), Ticks(8)}, impact : BOOLEAN]

\* A stationary source whose duration is rounded down to its last timestamp.
MCFractionalSources == [kind : {"stationary"}, duration : {Ticks(4) + 1}, impact : {FALSE}]
=============================================================================
