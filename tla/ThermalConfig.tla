---------------------------- MODULE ThermalConfig ----------------------------
(***************************************************************************)
(* The configuration of the thermal HAL (thermal/utils/config_parser.cpp): *)
(* which documents ParseSensorInfo, ParseCoolingDevice and                 *)
(* ParsePowerRailInfo accept, and what they make of them.                  *)
(*                                                                         *)
(* A document is [Sensors, CoolingDevices, PowerRails], each a sequence of *)
(* records with the names of the JSON keys; Absent stands for a key that   *)
(* is not there.  A number is an integer or NaN, an array a function on    *)
(* the severities (of another size: on another domain), a name a value of  *)
(* its own, Absent when it is empty.  Reading the file, the paths, the     *)
(* types of sensors that select nothing, and offsets are left out.         *)
(***************************************************************************)
EXTENDS Integers, Sequences, FiniteSets

CONSTANTS NaN, Absent,
          MaxSeverity,       \* SHUTDOWN: kThrottlingSeverityCount - 1
          IntMax,            \* numeric_limits<int>::max()
          Forever,           \* milliseconds::max()
          kMinPollIntervalMs,
          kUeventPollTimeoutMs

NONE == 0
Severities == NONE..MaxSeverity

Filled(v) == [k \in Severities |-> v]
OrDefault(v, default) == IF v = Absent THEN default ELSE v

\* values.size() is that of a severity array.
HasSize(v) == v # Absent /\ DOMAIN v = Severities
Numbers(v) == {k \in DOMAIN v : v[k] # NaN}
Increasing(v) == \A j, k \in Numbers(v) : j < k => v[j] <= v[k]
Decreasing(v) == \A j, k \in Numbers(v) : j < k => v[j] >= v[k]

-----------------------------------------------------------------------------
(* What ParseSensorInfo refuses.  One refused sensor refuses them all.       *)

\* Hot thresholds are positive (they are compared with the smallest positive
\* float) and do not decrease; cold ones do not increase, but an array of
\* another size counts as none.  A hysteresis is a number.
ThresholdsOk(d) ==
    /\ HasSize(d.HotThreshold)
    /\ \A k \in Numbers(d.HotThreshold) : d.HotThreshold[k] > 0
    /\ Increasing(d.HotThreshold)
    /\ HasSize(d.ColdThreshold) => Decreasing(d.ColdThreshold)
    /\ \A h \in {d.HotHysteresis, d.ColdHysteresis} :
          HasSize(h) => Numbers(h) = Severities

Formulas == {"COUNT_THRESHOLD", "WEIGHTED_AVG", "MAXIMUM", "MINIMUM"}

\* A virtual sensor or a virtual rail combines as many values as it has
\* coefficients.
CombinationOk(v) ==
    /\ Len(v.Combination) > 0
    /\ Len(v.Combination) = Len(v.Coefficient)
    /\ v.Formula \in Formulas

\* Every array of PIDInfo is there, the powers do not increase with the
\* severity, and every severity with a sustainable power has a number in
\* every array; at least one has.
PIDInfoOk(pid) ==
    /\ \A f \in DOMAIN pid : HasSize(pid[f])
    /\ \A f \in {"MaxAllocPower", "MinAllocPower", "S_Power"} : Decreasing(pid[f])
    /\ Numbers(pid.S_Power) # {}
    /\ \A k \in Numbers(pid.S_Power), f \in DOMAIN pid : pid[f][k] # NaN

ReleaseLogics == {"INCREASE", "DECREASE", "STEPWISE", "RELEASE_TO_FLOOR"}

\* A floor of a wrong size is refused only beside a power threshold.
BindedCdevOk(b, support_pid) ==
    /\ support_pid => \A v \in {b.CdevWeightForPID, b.CdevCeiling} :
                          v # Absent => HasSize(v)
    /\ b.LimitInfo # Absent => HasSize(b.LimitInfo)
    /\ b.PowerThreshold # Absent =>
          /\ HasSize(b.PowerThreshold)
          /\ b.ReleaseLogic \in ReleaseLogics
          /\ b.CdevFloorWithPowerLink # Absent => HasSize(b.CdevFloorWithPowerLink)

SensorOk(d) ==
    /\ d.Name # Absent /\ d.Type # Absent
    /\ ThresholdsOk(d)
    /\ d.VirtualSensor # Absent => CombinationOk(d.VirtualSensor)
    /\ d.PIDInfo # Absent => PIDInfoOk(d.PIDInfo)
    /\ \A j \in DOMAIN d.BindedCdevInfo :
          BindedCdevOk(d.BindedCdevInfo[j], d.PIDInfo # Absent)

-----------------------------------------------------------------------------
(* What they are parsed to.                                                  *)

SizedOr(v, default) == IF HasSize(v) THEN v ELSE default

ParseBindedCdev(b, support_pid) ==
    [limit_info         |-> SizedOr(b.LimitInfo, Filled(0)),
     power_thresholds   |-> SizedOr(b.PowerThreshold, Filled(NaN)),
     release_logic      |-> IF b.PowerThreshold = Absent THEN "NONE" ELSE b.ReleaseLogic,
     high_power_check   |-> b.HighPowerCheck,
     throttling_with_power_link |-> b.ThrottlingWithPowerLink,
     cdev_weight_for_pid |-> IF support_pid
                             THEN SizedOr(b.CdevWeightForPID, Filled(NaN))
                             ELSE Filled(NaN),
     cdev_ceiling       |-> IF support_pid
                            THEN SizedOr(b.CdevCeiling, Filled(IntMax))
                            ELSE Filled(IntMax),
     cdev_floor         |-> SizedOr(b.CdevFloorWithPowerLink, Filled(0)),
     power_rail         |-> b.BindedPowerRail]

\* The last one of several with the same CdevRequest counts.
BindedCdevInfoMap(d) ==
    LET bs == d.BindedCdevInfo
        LastOf(c) == CHOOSE j \in DOMAIN bs :
                        /\ bs[j].CdevRequest = c
                        /\ \A k \in DOMAIN bs : bs[k].CdevRequest = c => k <= j
    IN  [c \in {bs[j].CdevRequest : j \in DOMAIN bs} |->
            ParseBindedCdev(bs[LastOf(c)], d.PIDInfo # Absent)]

ParseSensor(d) ==
    [type            |-> d.Type,
     hot_thresholds  |-> d.HotThreshold,
     cold_thresholds |-> SizedOr(d.ColdThreshold, Filled(NaN)),
     hot_hysteresis  |-> SizedOr(d.HotHysteresis, Filled(0)),
     cold_hysteresis |-> SizedOr(d.ColdHysteresis, Filled(0)),
     polling_delay   |-> OrDefault(d.PollingDelay, kUeventPollTimeoutMs),
     passive_delay   |-> OrDefault(d.PassiveDelay, kMinPollIntervalMs),
     send_cb         |-> d.Monitor,
     send_powerhint  |-> d.SendPowerHint,
     is_monitor      |-> \/ d.Monitor \/ d.SendPowerHint
                         \/ d.PIDInfo # Absent
                         \/ \E j \in DOMAIN d.BindedCdevInfo :
                                d.BindedCdevInfo[j].LimitInfo # Absent,
     virtual_sensor_info |-> d.VirtualSensor,
     pid             |-> d.PIDInfo,
     binded          |-> BindedCdevInfoMap(d)]

DistinctNames(s) ==
    \A i, j \in DOMAIN s : s[i].Name # Absent /\ (s[i].Name = s[j].Name => i = j)

\* The map of the entries of s, which is empty as soon as one is refused.
ParseAll(s, Ok(_), Parse(_)) ==
    IF DistinctNames(s) /\ \A i \in DOMAIN s : Ok(s[i])
    THEN [n \in {s[i].Name : i \in DOMAIN s} |->
             Parse(s[CHOOSE i \in DOMAIN s : s[i].Name = n])]
    ELSE [n \in {} |-> Absent]

ParseSensorInfo(doc) == ParseAll(doc.Sensors, SensorOk, ParseSensor)

ParseCoolingDevice(doc) ==
    LET Ok(d) == d.Type # Absent
        Parse(d) == [state2power |-> d.State2Power, max_state |-> d.max_state]
    IN  ParseAll(doc.CoolingDevices, Ok, Parse)

ParsePowerRailInfo(doc) ==
    LET Ok(d) == d.VirtualRails # Absent => CombinationOk(d.VirtualRails)
        Parse(d) == [power_sample_count |-> d.PowerSampleCount,
                     power_sample_delay |-> OrDefault(d.PowerSampleDelay, Forever),
                     virtual_power_rail_info |-> d.VirtualRails]
    IN  ParseAll(doc.PowerRails, Ok, Parse)
=============================================================================
