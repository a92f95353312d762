---------------------------- MODULE AdapterContract ----------------------------
(***************************************************************************)
(* The lifecycle that MissionAdapter promises to every implementation of    *)
(* it: initialization comes first and once, a prepared epoch is published    *)
(* at its own time and fed back before another one is prepared, nothing is   *)
(* called on an adapter that was given up except finalization, and           *)
(* finalization comes at most once.                                          *)
(***************************************************************************)
EXTENDS Naturals

VARIABLES
    stage,  \* where the adapter stands in its lifecycle
    at,     \* the timestamp last prepared
    now     \* the time the mission clock has reached

contractVars == <<stage, at, now>>

Stages == {"created", "ready", "prepared", "published", "abandoned", "finalized"}

ContractInit == stage = "created" /\ at = 0 /\ now = 0

InitializeOnce == stage = "created" /\ stage' = "ready" /\ UNCHANGED <<at, now>>

PrepareEpoch == stage = "ready" /\ stage' = "prepared" /\ at' \in Nat /\ UNCHANGED now

ReachDeadline == stage = "prepared" /\ now <= now' /\ now' = at /\ UNCHANGED <<stage, at>>

PublishEpoch == stage = "prepared" /\ now = at /\ stage' = "published" /\ UNCHANGED <<at, now>>

FeedBack == stage = "published" /\ stage' = "ready" /\ UNCHANGED <<at, now>>

\* Some call failed, of the adapter or of another part of the mission.
GiveUp == stage \notin {"abandoned", "finalized"} /\ stage' = "abandoned" /\ UNCHANGED <<at, now>>

FinalizeOnce == stage # "finalized" /\ stage' = "finalized" /\ UNCHANGED <<at, now>>

ContractNext ==
    \/ InitializeOnce \/ PrepareEpoch \/ ReachDeadline \/ PublishEpoch \/ FeedBack
    \/ GiveUp \/ FinalizeOnce

ContractSpec == ContractInit /\ [][ContractNext]_contractVars
=============================================================================
