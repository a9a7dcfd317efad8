----------------------------- MODULE LocationMC -----------------------------
(***************************************************************************)
(* Instances of Geofences and of Batching, whose adapters share a thread   *)
(* and nothing else: in a behaviour one of them is used, the other idle.   *)
(* Two geofences and a modem with two numbers for them; two sessions.      *)
(***************************************************************************)
EXTENDS Geofences, TLC

CONSTANTS i1, i2, m1, m2

CONSTANTS SessionIds, Scenarios, Intervals, Distances, MaxDeaths, MaxOdometer, Width

VARIABLES scenario, issued, attached, dictionary, waitingRequests, batchingCb, adapter,
          toAdapter, toLocApi, device, deaths, odometer, began, early, muddled, refusals

B == INSTANCE Batching

batchingVars == <<scenario, issued, attached, dictionary, waitingRequests, batchingCb, adapter,
                  toAdapter, toLocApi, device, deaths, odometer, began, early, muddled, refusals>>

MCIds == {i1, i2}
MCMasks == {m1, m2}
MCSymmetry == Permutations(MCIds) \cup Permutations(MCMasks)

MCInterfaces == <<"gnss", "geofence">>

\* A modem that refuses, or that dies twice; a framework that waits for the
\* answer about one geofence only; a client destroyed meanwhile.
MCUses ==
    {{}, Kinds \cup {"refuse"}, Kinds \cup {"each"},
     {"add", "remove", "pause", "resume", "die"}, {"add", "modify", "pause", "die"},
     {"add", "remove", "pause", "each", "destroy"}, {"add", "pause", "destroy", "refuse"},
     {"add", "destroy", "refuse", "die"}}

Behaviour(calling, has) == [has |-> has, calls |-> calling]

\* Sessions whose answers the client waits for, over a modem that refuses, or
\* comes up late and dies; sessions of a client that does not wait; trips that
\* are stopped, updated, interrupted by the modem's death or by the client's.
MCScenarios ==
    {Behaviour(0, {}),
     Behaviour(4, {"start", "stop", "get", "full", "none", "each", "refuse"}),
     Behaviour(4, {"start", "stop", "update", "full", "none", "each"}),
     Behaviour(3, {"start", "stop", "full", "none", "each", "die", "boot"}),
     Behaviour(3, {"start", "stop", "full", "none", "die"}),
     Behaviour(3, {"start", "stop", "trip", "each"}),
     Behaviour(2, {"start", "trip", "each", "die"}),
     Behaviour(2, {"start", "stop", "update", "trip", "full", "each"}),
     Behaviour(2, {"start", "trip", "full", "destroy", "each"})}

MCInit == Init /\ B!Init /\ (use = {} \/ scenario.calls = 0)

MCNext == (Next /\ UNCHANGED batchingVars) \/ (B!Next /\ UNCHANGED vars)

MCSpec == MCInit /\ [][MCNext]_<<vars, batchingVars>>

\* Both records of geofences lead back to each other, and both of sessions.
\* (Geofences!TypeOK, Batching!TypeOK)
TypesOK == TypeOK /\ B!TypeOK

\* Batching!SessionsServed: the modem, BatchingAdapter and the client agree on
\* the sessions when nothing is under way.
SessionsServed == B!SessionsServed

\* Batching!TripsKept: the modem's trip serves all of the adapter's, and none
\* is said to be complete too early.
TripsKept == B!TripsKept
=============================================================================
