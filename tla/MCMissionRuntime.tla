--------------------------- MODULE MCMissionRuntime ---------------------------
(* TLC instance: every phase graph over three phases, with Navigation controls *)
(* that override, inherit and omit the baseline's gate probability.            *)
EXTENDS MissionRuntime

CONSTANTS p1, p2, p3, none, typical, tight, extreme

MCPhases == {p1, p2, p3}
MCProbabilities == {typical, tight, extreme}
MCSolvable == {typical, tight}

Gated(p) == [probability |-> p, enabled |-> TRUE]
Open(p)  == [probability |-> p, enabled |-> FALSE]
Both(c)  == [s \in Sensors |-> c]
Pair(c, d) == [s \in Sensors |-> IF s = "position" THEN c ELSE d]

\* The Navigation controls of the initial phase and of the other two.
NavigationChoices ==
    {[p \in MCPhases |-> IF p = p1 THEN first ELSE IF p = p2 THEN second ELSE third] :
        first  \in {Both(Gated(typical)), Both(Open(none))},
        second \in {Pair(Gated(none), Open(none)), Pair(Gated(tight), Gated(extreme))},
        third  \in {Both(Open(none)), Both(Gated(none)), Both(Open(tight))}}

\* Every graph over the configured phases ph; some transitions lead to a phase
\* that is not configured, and some graphs mark the wrong phases terminal.
MissionsOver(ph) ==
    [phases     : {ph},
     initial    : {p1},
     policy     : {"reject", "allow"},
     to         : {to \in [MCPhases -> SUBSET MCPhases] : \A p \in MCPhases \ ph : to[p] = {}},
     terminal   : {{p1}, {p2}, {p3}, {p2, p3}, {}},
     navigation : NavigationChoices,
     baseline   : {Both(Gated(typical)), Both(Open(none)), Pair(Open(tight), Gated(typical)),
                   Both(Gated(extreme))}]

MCMissions == MissionsOver({p1}) \cup MissionsOver({p1, p2}) \cup MissionsOver(MCPhases)
=============================================================================
