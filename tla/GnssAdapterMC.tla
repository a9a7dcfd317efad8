----------------------------- MODULE GnssAdapterMC -----------------------------
(***************************************************************************)
(* Instances of GnssAdapter: two intervals, two power modes that cross     *)
(* them, and a distance.                                                   *)
(***************************************************************************)
EXTENDS GnssAdapter

MCOptions(minInterval, minDistance, powerMode, tbm) ==
    [size |-> 1, minInterval |-> minInterval, minDistance |-> minDistance,
     powerMode |-> powerMode, tbm |-> tbm]

\* The first is below the smallest interval and its power mode is too slow.
MCOptionSet == {MCOptions(0, 0, 4, 3), MCOptions(2, 0, 1, 0), MCOptions(2, 1, 1, 0)}

MCConfigSet ==
    {"GPS_LOCK" :> {NI}, "GPS_LOCK" :> {} @@ "SUPL_VERSION" :> 2,
     "BLACKLISTED_SV_IDS" :> {"sv"} @@ "ASSISTANCE_DATA" :> "C2K", "MIN_SV_ELEVATION" :> 1}

\* Sessions, when the modem is late, refuses or dies; clients that come, go and
\* do not wait; the control client; sessions under a change of configuration.
MCUses ==
    {{"start", "update", "stop"} \cup w : w \in {{"boot"}, {"refuse"}, {"die"}}}
    \cup {{"start", "stop", "remove", "add", "hurry", "die"}}
    \cup {{"enable", "disable", "config"} \cup w : w \in {{"boot"}, {"refuse"}, {"die"}}}
    \cup {{"start", "stop", "hurry", "config", "die"}}

MCMaxCalls == [u \in MCUses |-> IF u \cap {"refuse", "enable"} = {} THEN 3 ELSE 4]

\* Clients that do not wait, and a modem that neither refuses nor dies.
MCHurried == {{"start", "update", "stop", "hurry"}}
MCHurriedCalls == [u \in MCHurried |-> 3]
=============================================================================
