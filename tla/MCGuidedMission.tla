---------------------------- MODULE MCGuidedMission ----------------------------
(* TLC instance: launches from a pad with entry filters and early or late        *)
(* thresholds, a patrol that may return to its first state, a route, and          *)
(* definitions a source has to refuse; nested rates with one or two native steps   *)
(* between guidance steps and one to three epochs to a native step, and rates       *)
(* that do not nest.                                                              *)
EXTENDS GuidedMission

Plain ==
    [guided |-> TRUE, autopilot |-> TRUE, pad |-> FALSE, terminal |-> FALSE, sound |-> TRUE,
     reference |-> "kinematic", modifiers |-> 0, acceleration |-> <<"additive">>, bank |-> TRUE,
     onEntry |-> 0, transitions |-> <<>>]

To(i, t, p) == [to |-> i, after |-> t, priority |-> p]
Pad(t) == [Plain EXCEPT !.guided = FALSE, !.autopilot = FALSE, !.pad = TRUE,
                        !.reference = "none", !.bank = FALSE, !.transitions = <<To(2, t, 1)>>]
Boost(f, a, t) == [Plain EXCEPT !.reference = "current", !.acceleration = a, !.onEntry = f,
                                !.transitions = <<To(3, t, 1)>>]
Coast(f) == [Plain EXCEPT !.guided = FALSE, !.autopilot = FALSE, !.terminal = TRUE, !.onEntry = f]
Cruise(f) == [Plain EXCEPT !.terminal = TRUE, !.onEntry = f]

Launches ==
    {[initial |-> 1, cycles |-> "reject", states |-> <<Pad(p), Boost(f, a, 2), last>>] :
        p \in {1, 2}, f \in {0, 3, 5}, a \in {<<"direct">>, <<"additive", "direct">>},
        last \in {Coast(0), Cruise(3)}}

\* Two states that alternate until the more urgent way out is open, with a route in
\* the first, and a return to the pad.
Patrols ==
    {[initial |-> 1, cycles |-> c,
      states |-> <<[Plain EXCEPT !.reference = r, !.onEntry = 2, !.pad = (r = "kinematic"),
                                 !.transitions = <<To(2, 2, 2), To(3, 5, 1)>>],
                   [Plain EXCEPT !.transitions = <<To(1, 3, 2)>> \o more],
                   Cruise(0)>>] :
        c \in {"reject", "allow"}, r \in {"waypoint", "kinematic"},
        more \in {<<>>, <<To(3, 3, 1)>>, <<To(3, 4, 2)>>}}

MCDefinitions == Launches \cup Patrols

Config(p, d, a, g, i, w, t, ground, estimated) ==
    [app |-> p, dynamics |-> d, autopilot |-> a, guidance |-> g, imu |-> i, window |-> w,
     duration |-> t, ground |-> ground, estimated |-> estimated]

MCRates ==
    {Config(1, 1, 1, 1, 1, 2, 8, FALSE, TRUE), Config(1, 1, 2, 2, 2, 2, 10, FALSE, TRUE),
     Config(1, 2, 2, 4, 3, 1, 13, TRUE, TRUE), Config(1, 3, 3, 3, 2, 3, 12, TRUE, FALSE),
     Config(2, 2, 2, 2, 2, 2, 10, TRUE, TRUE),
     \* not accepted: an application slower than the dynamics or out of step with it, and
     \* a profile shorter than a native step
     Config(4, 1, 1, 1, 4, 2, 8, FALSE, TRUE), Config(2, 3, 3, 3, 2, 2, 12, FALSE, TRUE),
     Config(1, 4, 4, 4, 1, 2, 3, FALSE, TRUE)}
=============================================================================
