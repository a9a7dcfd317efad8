--------------------------- MODULE ThermalHelperMC ---------------------------
(***************************************************************************)
(* Instances of ThermalHelper: severities up to 2, delays of one and two   *)
(* ticks, and three configurations.                                        *)
(***************************************************************************)
EXTENDS ThermalHelper

Severity3(a, b, c) == [k \in Severities |-> <<a, b, c>>[k + 1]]
No == Severity3(NaN, NaN, NaN)

MCSensor ==
    [Name |-> "skin", Type |-> "SKIN", Monitor |-> FALSE, SendPowerHint |-> FALSE,
     HotThreshold |-> No, HotHysteresis |-> Absent,
     ColdThreshold |-> Absent, ColdHysteresis |-> Absent, VirtualSensor |-> Absent,
     PollingDelay |-> 2, PassiveDelay |-> 1, PIDInfo |-> Absent, BindedCdevInfo |-> <<>>]

MCBinded ==
    [CdevRequest |-> "cpu", CdevWeightForPID |-> Absent, CdevCeiling |-> Absent,
     LimitInfo |-> Absent, BindedPowerRail |-> Absent, HighPowerCheck |-> FALSE,
     ThrottlingWithPowerLink |-> FALSE, CdevFloorWithPowerLink |-> Absent,
     PowerThreshold |-> Absent, ReleaseLogic |-> Absent]

MCCdev == [Name |-> "cpu", Type |-> "CPU", State2Power |-> <<6, 3, 1>>, max_state |-> 2]

MCVirtual == [Combination |-> <<"skin">>, Coefficient |-> <<1>>, TriggerSensor |-> "skin",
              Formula |-> "MAXIMUM"]

\* A skin sensor with a power budget, and a virtual sensor it triggers that
\* limits the same device.
PidDoc ==
    [Sensors |->
       << [MCSensor EXCEPT !.HotThreshold = Severity3(NaN, 2, 4),
                           !.HotHysteresis = Severity3(0, 1, 1),
                           !.PIDInfo = [K_Po |-> Severity3(NaN, 1, 1),
                                        K_Pu |-> Severity3(NaN, 1, 1),
                                        K_I |-> Severity3(NaN, 1, 1), K_D |-> Severity3(NaN, 0, 0),
                                        I_Max |-> Severity3(NaN, 2, 2),
                                        MaxAllocPower |-> Severity3(NaN, 6, 6),
                                        MinAllocPower |-> Severity3(NaN, 1, 1),
                                        S_Power |-> Severity3(NaN, 4, 2),
                                        I_Cutoff |-> Severity3(NaN, 2, 2)],
                           !.BindedCdevInfo = << [MCBinded EXCEPT
                               !.CdevWeightForPID = Severity3(NaN, 1, 1)] >>],
          [MCSensor EXCEPT !.Name = "virtual",
                           !.HotThreshold = Severity3(NaN, 4, NaN),
                           !.VirtualSensor = MCVirtual,
                           !.BindedCdevInfo = << [MCBinded EXCEPT
                               !.LimitInfo = Severity3(0, 1, 2)] >>] >>,
     CoolingDevices |-> <<MCCdev>>, PowerRails |-> <<>>]

\* A battery with cold thresholds, whose limit is released by the
\* power of a rail.
RailDoc ==
    [Sensors |->
       << [MCSensor EXCEPT !.Name = "battery",
                           !.HotThreshold = Severity3(NaN, NaN, 4),
                           !.ColdThreshold = Severity3(NaN, 0, NaN),
                           !.HotHysteresis = Severity3(0, 1, 1),
                           !.PollingDelay = 1,
                           !.BindedCdevInfo = << [MCBinded EXCEPT
                               !.LimitInfo = Severity3(0, 1, 3),
                               !.BindedPowerRail = "rail",
                               !.PowerThreshold = Severity3(NaN, 1, 1),
                               !.ReleaseLogic = "INCREASE"] >>] >>,
     CoolingDevices |-> <<MCCdev>>,
     PowerRails |-> << [Name |-> "rail", VirtualRails |-> Absent, PowerSampleCount |-> 1,
                        PowerSampleDelay |-> 1] >>]

\* Two sensors of two types, of which the framework is told.
CallbackDoc ==
    [Sensors |->
       << [MCSensor EXCEPT !.HotThreshold = Severity3(NaN, 2, 4), !.Monitor = TRUE,
                           !.PollingDelay = 0, !.PassiveDelay = 0],
          [MCSensor EXCEPT !.Name = "virtual", !.Type = "VIRTUAL", !.Monitor = TRUE,
                           !.PollingDelay = 0, !.PassiveDelay = 0,
                           !.HotThreshold = Severity3(NaN, 4, NaN),
                           !.VirtualSensor = MCVirtual] >>,
     CoolingDevices |-> <<>>, PowerRails |-> <<>>]

\* A sensor of which the power HAL is told.
HintDoc ==
    [Sensors |->
       << [MCSensor EXCEPT !.HotThreshold = Severity3(NaN, 2, 4), !.SendPowerHint = TRUE] >>,
     CoolingDevices |-> <<>>, PowerRails |-> <<>>]

\* A row of PIDInfo that lacks a number: every sensor is refused.
RefusedDoc == [PidDoc EXCEPT !.Sensors[1].PIDInfo.K_I = Severity3(NaN, 1, NaN)]

MCDocs == {PidDoc, RailDoc, CallbackDoc, HintDoc, RefusedDoc}
MCTemps == {0, 2, 4}
MCPowers == {0, 2}
MCSupportedModes == {<<"skin", 1>>, <<"skin", 2>>}
MCTripKinds == {"events", "noEvents"}

\* Clients and the death of the power HAL are explored with the sensors that
\* tell of them.
Focused ==
    /\ callbacks # {} => \E s \in Sensors : Info(s).send_cb
    /\ ~hal.alive => \E s \in Sensors : Info(s).send_powerhint
=============================================================================
