---------------------------- MODULE ThermalHelper ----------------------------
(***************************************************************************)
(* The thermal HAL: ThermalHelper (thermal/thermal-helper.cpp), the thread *)
(* of ThermalWatcher that calls it (thermal/utils/thermal_watcher.cpp),    *)
(* the power data that releases cooling devices (utils/power_files.cpp),   *)
(* the callbacks of the framework (Thermal.cpp) and the hints to the power *)
(* HAL.                                                                    *)
(*                                                                         *)
(* The watcher's thread sleeps until the earliest sensor is due or an      *)
(* event of the kernel names one, reads the sensors that are due, derives  *)
(* each one's severity (with hysteresis), the state it asks of each        *)
(* cooling device bound to it and when it must be read again; it then      *)
(* writes the devices whose request changed and tells the framework and    *)
(* the power HAL of the severities that changed.  Only the last two leave  *)
(* the thread, a binder call each, so they are steps of their own; the     *)
(* main thread is meanwhile asking the power HAL which hints it knows.     *)
(*                                                                         *)
(* Time is relative and in ticks: the age of a reading, what is left of a  *)
(* sleep.  It passes while the watcher polls: its thread has the highest   *)
(* priority and its work is short against the delays.  Floating point is   *)
(* integer arithmetic, rounded down.  A sensor gives any temperature, a    *)
(* power rail any outcome.                                                 *)
(***************************************************************************)
EXTENDS ThermalConfig, SequencesExt, FiniteSetsExt

CONSTANTS Docs,            \* configuration documents the HAL may find
          Temps,           \* temperatures
          Powers,          \* average powers of a rail
          NoEnergy, Invalid, \* no energy values; two samples that give no average
          TripKinds,       \* what the kernel's zones support
          Clients,         \* callbacks of the framework
          SupportedModes,  \* <<sensor, severity>> of the hints of the power HAL
          MaxAge           \* ages and elapsed times are counted up to here

Never == -1
Unread == NaN               \* a sensor that cannot be read
Unknown == Absent           \* what a client has not been told

VARIABLES conf,        \* the parsed configuration and the maps' order
          st,          \* sensor_status_map_
          request,     \* cdev_status_map_
          release,     \* throttling_release_map_ and power_status_map_
          written,     \* the states in sysfs
          unsynced,    \* devices not written yet, or whose last write failed
          failed,      \* sensors whose last reading failed
          watcher,     \* ThermalWatcher: [pc, sleep, elapsed, left, sensors]
          temps,       \* the changes the callback has still to tell
          hal,         \* PowerHalService and the power HAL: [exist, alive, modes]
          supported,   \* supported_powerhint_map_, a sensor at a time
          early,       \* sensors whose last hint was sent before it was filled
          callbacks,   \* callbacks_, in no order
          told         \* the severity each client was last told of each sensor

sensing == <<st, request, release, written, unsynced, failed>>
telling == <<temps, hal, early>>
framework == <<callbacks, told>>
vars == <<conf, sensing, watcher, telling, supported, framework>>

Sensors == DOMAIN conf.sensor
Cdevs == DOMAIN conf.cdev
Info(s) == conf.sensor[s]
Bound(s) == conf.bound[s]
Severity(s) == st[s].severity
IsVirtual(s) == Info(s).virtual_sensor_info # Absent

-----------------------------------------------------------------------------
(* Severity.                                                                 *)

Highest(S) == IF S = {} THEN NONE ELSE Max(S)

\* getSeverityFromThresholds: what the value says, unless it says less than
\* before: then what it says with the hysteresis.
HotSeverity(i, prev, value) ==
    LET T == i.hot_thresholds
        ret_hot == Highest({k \in Numbers(T) \ {NONE} : T[k] <= value})
        ret_hot_hysteresis ==
            Highest({k \in Numbers(T) \ {NONE} : T[k] - i.hot_hysteresis[k] < value})
    IN  IF ret_hot < prev THEN ret_hot_hysteresis ELSE ret_hot

ColdSeverity(i, prev, value) ==
    LET T == i.cold_thresholds
        ret_cold == Highest({k \in Numbers(T) \ {NONE} : T[k] >= value})
        ret_cold_hysteresis ==
            Highest({k \in Numbers(T) \ {NONE} : T[k] + i.cold_hysteresis[k] > value})
    IN  IF ret_cold < prev THEN ret_cold_hysteresis ELSE ret_cold

\* checkVirtualSensor.  A linked sensor that cannot be read is left out; only
\* the first one starts a maximum or minimum, which is 0 without it.
checkVirtualSensor(v, reading) ==
    LET Links == {j \in DOMAIN v.Combination : reading[v.Combination[j]] # Unread}
        Value(j) == reading[v.Combination[j]] * v.Coefficient[j]
        Counted(j) == LET c == v.Coefficient[j]
                          r == reading[v.Combination[j]]
                      IN  IF c < 0 THEN r < -c ELSE r >= c
        Start == IF 1 \in Links THEN {} ELSE {0}
        Extremes == {Value(j) : j \in Links} \cup Start
    IN  IF \E j \in Links : v.Coefficient[j] = NaN THEN Unread
        ELSE IF v.Formula = "COUNT_THRESHOLD" THEN Cardinality({j \in Links : Counted(j)})
        ELSE IF v.Formula = "WEIGHTED_AVG" THEN MapThenSumSet(Value, Links)
        ELSE IF v.Formula = "MAXIMUM" THEN Max(Extremes)
        ELSE Min(Extremes)

readTemperature(s, reading) ==
    IF IsVirtual(s) THEN checkVirtualSensor(Info(s).virtual_sensor_info, reading)
    ELSE reading[s]

-----------------------------------------------------------------------------
(* The states a sensor asks of its cooling devices.                          *)

\* The severity above the present one that has a sustainable power, or the
\* last that has.
getTargetStateOfPID(i, severity) ==
    LET P == Numbers(i.pid.S_Power)
        above == {k \in P : k > severity}
    IN  IF above # {} THEN Min(above) ELSE Highest(P)

Clamp(v, low, high) ==
    LET raised == IF v < low THEN low ELSE v
    IN  IF raised > high THEN high ELSE raised

Abs(v) == IF v < 0 THEN -v ELSE v

\* pidPowerCalculator: the power budget and what it leaves for the next one.
pidPowerCalculator(i, x, value, elapsed, target) ==
    LET pid == i.pid
        err == i.hot_thresholds[target] - value
        p == err * (IF err < 0 THEN pid.K_Po[target] ELSE pid.K_Pu[target])
        i_now == x.err_integral * pid.K_I[target]
        i_next == i_now + err * pid.K_I[target]
        counts == err < pid.I_Cutoff[target] /\ Abs(i_next) < pid.I_Max[target]
        d == IF x.prev_err # NaN /\ elapsed # 0
             THEN (pid.K_D[target] * (err - x.prev_err)) \div elapsed
             ELSE 0
    IN  IF target = NONE \/ x.severity = NONE
        THEN [budget |-> IntMax, err_integral |-> 0, prev_err |-> NaN]
        ELSE [budget |-> Clamp(pid.S_Power[target] + p + (IF counts THEN i_next ELSE i_now) + d,
                               pid.MinAllocPower[target], pid.MaxAllocPower[target]),
              err_integral |-> IF counts THEN x.err_integral + err ELSE x.err_integral,
              prev_err |-> err]

Weight(b, c, k) == b[c].cdev_weight_for_pid[k]
Weighted(b, k) == {c \in DOMAIN b : Weight(b, c, k) # NaN}
TotalWeight(b, k) == MapThenSumSet(LAMBDA c : Weight(b, c, k), Weighted(b, k))

\* requestCdevByPower: each device gets its share by weight, and the first
\* state that needs less; without any weight nothing changes.
requestCdevByPower(s, old, budget, target) ==
    LET total == TotalWeight(Bound(s), target)
        State(c) == LET power == conf.cdev[c].state2power
                        fits == {j \in 1..(Len(power) - 1) :
                                     budget * Weight(Bound(s), c, target) > power[j] * total}
                    IN  IF fits = {} THEN Len(power) - 1 ELSE Min(fits) - 1
    IN  IF total = 0 THEN old
        ELSE [c \in DOMAIN old |-> IF c \in Weighted(Bound(s), target) THEN State(c) ELSE old[c]]

\* The constructor's maps: the devices a sensor asks by power, those it
\* limits by severity.
PidCdevs(b) == {c \in DOMAIN b : Numbers(b[c].cdev_weight_for_pid) # {}}
LimitCdevs(b) == {c \in DOMAIN b : \E k \in Severities : b[c].limit_info[k] > 0}

\* computeCoolingDevicesRequest, for one device.
RequestState(s, c, x, step) ==
    LET b == Bound(s)[c]
        asked == Max({0} \cup (IF c \in DOMAIN x.pid THEN {x.pid[c]} ELSE {})
                         \cup (IF c \in DOMAIN x.hard THEN {x.hard[c]} ELSE {}))
        released == IF step >= asked THEN 0 ELSE asked - step
        floored == IF released < b.cdev_floor[x.severity]
                   THEN b.cdev_floor[x.severity] ELSE released
        ceiling == Min({b.cdev_ceiling[x.severity], conf.cdev[c].max_state})
    IN  Min({ceiling, IF step # 0 THEN floored ELSE asked})

-----------------------------------------------------------------------------
(* The release of throttling by the power of a rail (PowerFiles).            *)

\* Mutant: the step falls without end.
EndlessStep(b, max_step, step, over) ==
    IF b.release_logic \in {"INCREASE", "STEPWISE"} /\ ~over THEN step - 1
    ELSE IF over THEN 0 ELSE max_step

\* By release_logic, from the step so far.
NextStep(b, max_step, step, over) ==
    LET less == IF Abs(step) < max_step THEN step - 1 ELSE step
        more == IF step < max_step THEN step + 1 ELSE step
    IN  CASE b.release_logic = "INCREASE"  -> IF over THEN 0 ELSE less
          [] b.release_logic = "DECREASE"  -> IF over THEN 0 ELSE more
          [] b.release_logic = "STEPWISE"  -> IF over THEN less ELSE more
          [] b.release_logic = "RELEASE_TO_FLOOR" -> IF over THEN 0 ELSE max_step
          [] b.release_logic = "NONE"      -> step

OverBudget(b, severity, power) ==
    LET limit == b.power_thresholds[severity]
    IN  limit = NaN \/ ~(IF b.high_power_check THEN power > limit ELSE power < limit)

\* throttlingReleaseUpdate of device c for sensor s: from its step and the
\* rail's power = [remaining, avg]; first: the rail was not updated yet in this
\* callback.  outcome is what getAveragePower or computeAveragePower give: NaN
\* while there is no earlier sample.  updated is the value returned.
throttlingReleaseUpdate(s, c, step, power, severity, elapsed, first, changed, outcome) ==
    LET b == Bound(s)[c]
        max_step == conf.cdev[c].max_state
        delay == conf.rail[b.power_rail].power_sample_delay
        expired == first /\ elapsed > power.remaining
        remaining == IF ~first THEN power.remaining
                     ELSE IF expired THEN delay ELSE power.remaining - elapsed
        waits == first /\ ~expired /\ ~changed
        skips == ~first /\ ~changed /\ power.remaining # delay
        avg == IF ~expired /\ power.avg # NaN THEN power.avg ELSE outcome
        Result(n, a, updated) ==
            [step |-> n, power |-> [remaining |-> remaining, avg |-> a],
             updated |-> updated]
    IN  IF waits \/ skips THEN Result(step, power.avg, waits)
        ELSE IF outcome = NoEnergy THEN Result(0, power.avg, FALSE)
        ELSE IF avg = Invalid
        THEN Result(IF b.throttling_with_power_link THEN max_step ELSE 0, power.avg, FALSE)
        ELSE IF avg = NaN
        THEN Result(IF b.throttling_with_power_link THEN max_step ELSE step, NaN, TRUE)
        ELSE Result(NextStep(b, max_step, step, OverBudget(b, severity, avg)), avg, TRUE)

\* Mutant: the steps outlive the throttling.
KeepPowerData(r) == [r EXCEPT !.power = [q \in DOMAIN @ |-> [@[q] EXCEPT !.avg = NaN]]]

setPowerDataToDefault(r) ==
    [r EXCEPT !.step = [c \in DOMAIN @ |-> 0],
              !.power = [q \in DOMAIN @ |-> [@[q] EXCEPT !.avg = NaN]]]

\* One device after another: x = [step, power, rails] is what came of those
\* before.
ReleaseDevice(x, s, c, severity, elapsed, changed, outcome) ==
    LET q == Bound(s)[c].power_rail
        u == throttlingReleaseUpdate(s, c, x.step[c], x.power[q], severity, elapsed,
                 q \notin x.rails, changed, outcome[q])
    IN  [step |-> [x.step EXCEPT ![c] = u.step],
         power |-> [x.power EXCEPT ![q] = u.power],
         rails |-> IF u.updated THEN x.rails \cup {q} ELSE x.rails]

\* The devices of s with a registered rail, in turn.
ReleaseUpdate(x, s, severity, elapsed, changed, outcome) ==
    LET cdevs == SetToSeq(DOMAIN x.step)
        After[n \in 0..Len(cdevs)] ==
            IF n = 0 THEN x
            ELSE ReleaseDevice(After[n - 1], s, cdevs[n], severity, elapsed, changed, outcome)
    IN  After[Len(cdevs)]

-----------------------------------------------------------------------------
(* thermalWatcherCallbackFunc: one sensor.  a is the callback so far: st,    *)
(* request, release, the devices whose request changed, the rails updated,   *)
(* the changes to tell, the sensors that failed and the sleep voted for.     *)

SleepMs(i, severity) == IF severity # NONE THEN i.passive_delay ELSE i.polling_delay

TriggerOf(s) == IF IsVirtual(s) THEN Info(s).virtual_sensor_info.TriggerSensor ELSE s

\* Must s be read now?  A virtual sensor is also due while its trigger
\* throttles.
ForceUpdate(x, s, uevent_sensors) ==
    \/ x[s].age = Never
    \/ x[s].age > SleepMs(Info(s), x[s].severity)
    \/ TriggerOf(s) \in uevent_sensors
    \/ IsVirtual(s) /\ x[TriggerOf(s)].severity # NONE

\* computeCoolingDevicesRequest for s, whose status is x.
ComputeRequests(a, s, x) ==
    LET Step(c) == IF c \in DOMAIN a.release[s].step THEN a.release[s].step[c] ELSE 0
        asks == [c \in DOMAIN x.pid \cup DOMAIN x.hard |-> RequestState(s, c, x, Step(c))]
        changed == {c \in DOMAIN asks : a.request[c][s] # asks[c]}
    IN  [a EXCEPT !.request = [c \in DOMAIN @ |->
                                  IF c \in changed THEN [@[c] EXCEPT ![s] = asks[c]] ELSE @[c]],
                  !.cdevs = @ \cup changed]

SinceRead(x) == IF x.age = Never THEN 0 ELSE x.age

\* The status of s, which was old, after the reading value: the severity and
\* what it asks of the devices.
StatusAfter(s, old, value) ==
    LET i == Info(s)
        hot == HotSeverity(i, old.prev_hot, value)
        cold == ColdSeverity(i, old.prev_cold, value)
        severity == IF hot > cold THEN hot ELSE cold
        x == [old EXCEPT !.prev_hot = hot, !.prev_cold = cold, !.severity = severity,
                         !.age = 0]
        target == getTargetStateOfPID(i, severity)
        power == pidPowerCalculator(i, x, value, SinceRead(old), target)
        y == IF DOMAIN old.pid = {} THEN x
             ELSE [x EXCEPT !.pid = requestCdevByPower(s, @, power.budget, target),
                            !.err_integral = power.err_integral,
                            !.prev_err = power.prev_err]
    IN  [y EXCEPT !.hard = [c \in DOMAIN @ |-> Bound(s)[c].limit_info[severity]]]

\* The reading value of s: severity, requests, release, vote.
Update(a, s, value, outcome) ==
    LET old == a.st[s]
        x == StatusAfter(s, old, value)
        changed == x.severity # old.severity
        told_of == [a EXCEPT !.st[s] = x,
                             !.failed = @ \ {s},
                             !.sleep = Min({@, SleepMs(Info(s), x.severity)}),
                             !.temps = IF changed
                                       THEN Append(@, [name |-> s, severity |-> x.severity])
                                       ELSE @]
        power_data == [step |-> a.release[s].step, power |-> a.release[s].power,
                       rails |-> a.rails]
        next == IF x.severity = NONE THEN setPowerDataToDefault(power_data)
                ELSE ReleaseUpdate(power_data, s, x.severity, SinceRead(old), changed, outcome)
        released == [told_of EXCEPT !.release[s] = [step |-> next.step, power |-> next.power],
                                    !.rails = next.rails]
    IN  IF DOMAIN x.pid \cup DOMAIN x.hard = {} THEN told_of
        ELSE ComputeRequests(released, s, x)

Visit(a, s, uevent_sensors, reading, outcome) ==
    LET x == a.st[s]
        value == readTemperature(s, reading)
    IN  IF ~Info(s).is_monitor THEN a
        ELSE IF ~ForceUpdate(a.st, s, uevent_sensors)
        THEN [a EXCEPT !.sleep = Min({@, SleepMs(Info(s), x.severity) - x.age})]
        ELSE IF value = Unread THEN [a EXCEPT !.failed = @ \cup {s}]
        ELSE Update(a, s, value, outcome)

-----------------------------------------------------------------------------
(* The constructor.                                                          *)

\* What of the parsed sensors stays: the trigger of a monitored virtual sensor
\* is monitored too, and (initializeTrip) a zone that cannot send events or
\* take its trip point is polled at the shortest interval.
SensorInfoMap(parsed, trip) ==
    [s \in DOMAIN parsed |->
        LET i == parsed[s]
            triggers == {v \in DOMAIN parsed :
                           /\ parsed[v].virtual_sensor_info # Absent
                           /\ parsed[v].is_monitor
                           /\ parsed[v].virtual_sensor_info.TriggerSensor = s}
            monitor == i.is_monitor \/ triggers # {}
            slow == i.virtual_sensor_info # Absent \/ ~monitor \/ trip[s] = "events"
        IN  [i EXCEPT !.is_monitor = monitor,
                      !.polling_delay = IF slow THEN @ ELSE kMinPollIntervalMs,
                      !.passive_delay = IF slow THEN @ ELSE kMinPollIntervalMs]]

\* The zones whose events the watcher looks for.
MonitoredSensors(sensors, trip) ==
    {s \in DOMAIN sensors : /\ sensors[s].is_monitor
                            /\ sensors[s].virtual_sensor_info = Absent
                            /\ trip[s] # "noEvents"}

\* The devices of a sensor whose rail can be read; a rail that is configured
\* and cannot be found takes all the sensor's devices away.
Linked(b, rails) == {c \in DOMAIN b : b[c].power_rail \in DOMAIN rails
                                       /\ rails[b[c].power_rail].power_sample_count > 0}

BoundCdevs(parsed, rails, energy) ==
    [s \in DOMAIN parsed |->
        LET b == parsed[s].binded
        IN  IF energy = "noRail" /\ Linked(b, rails) # {} THEN [c \in {} |-> Absent] ELSE b]

InitialStatus(b) ==
    [severity |-> NONE, prev_hot |-> NONE, prev_cold |-> NONE, prev_hint |-> NONE,
     age |-> Never, err_integral |-> 0, prev_err |-> NaN,
     pid |-> [c \in PidCdevs(b) |-> 0], hard |-> [c \in LimitCdevs(b) |-> 0]]

InitialRelease(b, rails, energy) ==
    LET L == IF energy = "found" THEN Linked(b, rails) ELSE {}
    IN  [step  |-> [c \in L |-> 0],
         power |-> [q \in {b[c].power_rail : c \in L} |->
                       [remaining |-> rails[q].power_sample_delay, avg |-> NaN]]]

\* What the HAL does with an accepted document also needs this: a severity with
\* a sustainable power has a threshold, a sensor that limits one device by
\* severity limits all of its devices, devices know their power states, and
\* links are between physical sensors.
Usable(doc) ==
    LET sensors == ParseSensorInfo(doc)
        cdevs == ParseCoolingDevice(doc)
    IN  \A s \in DOMAIN sensors :
          LET i == sensors[s]
          IN  /\ i.pid # Absent => Numbers(i.pid.S_Power) \subseteq Numbers(i.hot_thresholds)
              /\ LimitCdevs(i.binded) \in {{}, DOMAIN i.binded}
              /\ \A c \in DOMAIN i.binded : c \in DOMAIN cdevs /\ Len(cdevs[c].state2power) > 0
              /\ i.virtual_sensor_info # Absent =>
                    ToSet(i.virtual_sensor_info.Combination)
                       \cup {i.virtual_sensor_info.TriggerSensor} \subseteq
                    {p \in DOMAIN sensors : sensors[p].virtual_sensor_info = Absent}

\* The numbers of a document have the types of the code, its delays, limits,
\* weights and states are not negative, its lists are sequences and it has an end.
Typed(doc) ==
    LET sensors == ParseSensorInfo(doc)
        cdevs == ParseCoolingDevice(doc)
    IN  /\ \A j \in DOMAIN doc.Sensors :
              LET bs == doc.Sensors[j].BindedCdevInfo
              IN  Len(bs) \in Nat /\ DOMAIN bs = 1..Len(bs)
        /\ IsFiniteSet(DOMAIN sensors)
        /\ \A s \in DOMAIN sensors :
              LET i == sensors[s]
              IN  /\ {i.polling_delay, i.passive_delay} \subseteq Nat
                  /\ IsFiniteSet(DOMAIN i.binded)
                  /\ \A c \in DOMAIN i.binded, k \in Severities :
                        LET b == i.binded[c]
                        IN  /\ {b.limit_info[k], b.cdev_floor[k], b.cdev_ceiling[k]} \subseteq Nat
                            /\ Weight(i.binded, c, k) # NaN => Weight(i.binded, c, k) \in Nat
        /\ \A c \in DOMAIN cdevs : {cdevs[c].max_state, Len(cdevs[c].state2power)} \subseteq Nat

\* INT_MAX, the budget of a sensor that is cool, is enough for the first state
\* of every device that has a weight.
Budgeted(doc) ==
    LET sensors == ParseSensorInfo(doc)
        cdevs == ParseCoolingDevice(doc)
    IN  \A s \in DOMAIN sensors : sensors[s].pid # Absent =>
          \A k \in Numbers(sensors[s].pid.S_Power), c \in DOMAIN sensors[s].binded :
            LET weight == Weight(sensors[s].binded, c, k)
                total == TotalWeight(sensors[s].binded, k)
                power == cdevs[c].state2power
            IN  weight # NaN /\ weight > 0 =>
                  total # 0 /\ (Len(power) > 1 => IntMax * weight > power[1] * total)

ASSUME DocsAssumption == \A doc \in Docs : Usable(doc) /\ Typed(doc) /\ Budgeted(doc)
ASSUME TimesAssumption == /\ kMinPollIntervalMs \in Nat \ {0}
                          /\ kUeventPollTimeoutMs \in Nat
                          /\ MaxAge \in Nat /\ Forever \in Nat /\ MaxAge < Forever
ASSUME SeveritiesAssumption == MaxSeverity \in Nat

PhysicalSensors(doc) ==
    LET parsed == ParseSensorInfo(doc)
    IN  {s \in DOMAIN parsed : parsed[s].virtual_sensor_info = Absent}

\* The constructor, for the document found, what became of its power rails, what
\* the kernel's zones support, the order of the maps and the states of the
\* devices before.
Constructed(doc, energy, trip, order, left_over) ==
    LET parsed == ParseSensorInfo(doc)
        rails == ParsePowerRailInfo(doc)
        cdevs == ParseCoolingDevice(doc)
        bound == BoundCdevs(parsed, rails, energy)
        sensors == SensorInfoMap(parsed, trip)
    IN  /\ \A s \in DOMAIN parsed : energy # "found" => Linked(parsed[s].binded, rails) # {}
        /\ conf = [sensor |-> sensors, cdev |-> cdevs, rail |-> rails, bound |-> bound,
                   monitored |-> MonitoredSensors(sensors, trip), order |-> order]
        /\ st = [s \in DOMAIN parsed |-> InitialStatus(bound[s])]
        /\ request = [c \in DOMAIN cdevs |->
                        [s \in {s \in DOMAIN parsed :
                                  c \in PidCdevs(bound[s]) \cup LimitCdevs(bound[s])} |-> 0]]
        /\ release = [s \in DOMAIN parsed |-> InitialRelease(bound[s], rails, energy)]
        /\ written = [c \in DOMAIN cdevs |-> left_over]
        /\ unsynced = DOMAIN cdevs
        /\ failed = {}
        /\ watcher = [pc |-> "loop", sleep |-> 0, elapsed |-> 0, left |-> 0, sensors |-> {}]
        /\ temps = <<>>
        /\ hal = [exist |-> TRUE, alive |-> TRUE, modes |-> {}]
        /\ supported = [s \in {} |-> Filled(NONE)]
        /\ early = {}
        /\ callbacks = {}
        /\ told = [k \in Clients |-> [s \in DOMAIN parsed |-> Unknown]]

Init ==
    \E doc \in Docs, energy \in {"found", "noSource", "noRail"} :
        \E trip \in [PhysicalSensors(doc) -> TripKinds],
           order \in SetToSeqs(DOMAIN ParseSensorInfo(doc)), left_over \in {NONE, 1} :
            Constructed(doc, energy, trip, order, left_over)

-----------------------------------------------------------------------------
(* The watcher's thread.                                                     *)

\* Mutant: the sleep starts anew, whatever has passed of it.
SleepAnew ==
    /\ watcher.pc = "loop"
    /\ watcher' = [watcher EXCEPT !.pc = "poll", !.left = watcher.sleep]
    /\ UNCHANGED <<conf, sensing, telling, supported, framework>>

\* threadLoop: poll if the sleep has not passed yet.  The poll is for the whole
\* sleep; milliseconds::max() is -1 as an int and has no end.
ThreadLoop ==
    /\ watcher.pc = "loop"
    /\ watcher' = IF watcher.elapsed < watcher.sleep
                  THEN [watcher EXCEPT !.pc = "poll", !.left = watcher.sleep]
                  ELSE [watcher EXCEPT !.pc = "callback", !.sensors = {}]
    /\ UNCHANGED <<conf, sensing, telling, supported, framework>>

PollTimeout ==
    /\ watcher.pc = "poll" /\ watcher.left = 0
    /\ watcher' = [watcher EXCEPT !.pc = "callback", !.sensors = {}]
    /\ UNCHANGED <<conf, sensing, telling, supported, framework>>

\* Events of the kernel (parseUevent, parseGenlink) for the zones S of those
\* monitored; for others only, S is empty and the loop starts again.
PollEvent ==
    /\ watcher.pc = "poll"
    /\ \E S \in SUBSET conf.monitored :
          watcher' = IF S = {} THEN [watcher EXCEPT !.pc = "loop"]
                     ELSE [watcher EXCEPT !.pc = "callback", !.sensors = S]
    /\ UNCHANGED <<conf, sensing, telling, supported, framework>>

\* Mutant: a device gets the lowest request, when any sensor has one.
LowestRequest(req, c) == IF DOMAIN req[c] = {} THEN 0 ELSE Min({req[c][s] : s \in DOMAIN req[c]})

\* updateCoolingDevices: the highest request of a device.
MaxState(req, c) == Max({0} \cup {req[c][s] : s \in DOMAIN req[c]})

\* The callback at its start, and after the sensors in the order of the map.
Visiting == [st |-> st, request |-> request, release |-> release, cdevs |-> {}, rails |-> {},
             temps |-> <<>>, failed |-> failed, sleep |-> Forever]

VisitAll(uevent_sensors, reading, outcome) ==
    LET After[n \in 0..Len(conf.order)] ==
            IF n = 0 THEN Visiting
            ELSE Visit(After[n - 1], conf.order[n], uevent_sensors, reading, outcome)
    IN  After[Len(conf.order)]

\* thermalWatcherCallbackFunc up to what it tells others.  Each file is read
\* once; a device may refuse what is written.
Callback ==
    /\ watcher.pc = "callback"
    /\ \E reading \in [{s \in Sensors : ~IsVirtual(s)} -> Temps \cup {Unread}],
          outcome \in [DOMAIN conf.rail -> Powers \cup {NaN, Invalid}]
                         \cup {[q \in DOMAIN conf.rail |-> NoEnergy]} :
       \E a \in {VisitAll(watcher.sensors, reading, outcome)} :
          \E refused \in SUBSET a.cdevs :
             /\ st' = a.st /\ request' = a.request /\ release' = a.release
             /\ failed' = a.failed
             /\ written' = [c \in Cdevs |-> IF c \in a.cdevs \ refused
                                            THEN MaxState(a.request, c) ELSE written[c]]
             /\ unsynced' = (unsynced \ a.cdevs) \cup refused
             /\ temps' = a.temps
             /\ watcher' = [watcher EXCEPT !.pc = "tell", !.elapsed = 0, !.sensors = {},
                                           !.sleep = Max({a.sleep, kMinPollIntervalMs})]
    /\ UNCHANGED <<conf, hal, early, supported, framework>>

-----------------------------------------------------------------------------
(* What the callback tells.                                                  *)

Listens(c, t) == c.type = Absent \/ c.type = Info(t.name).type

\* Mutant: forgets the clients a change is not for, as the log message says.
KeptListening(t) == {c \in callbacks : Listens(c, t) /\ c.alive}

\* sendThermalChangedCallback for the change t: the clients it is for are told;
\* one that is dead is forgotten.  alive: the clients that are.
Kept(t) == {c \in callbacks : ~Listens(c, t) \/ c.alive}
Notified(t) == {c.client : c \in {d \in callbacks : Listens(d, t) /\ d.alive}}

\* setMode, to end and to start modes: a call to a power HAL that has died ends
\* the connection for good.
SetModes(h, calls) ==
    IF ~h.exist \/ calls.end \cup calls.start = {} THEN h
    ELSE IF ~h.alive THEN [h EXCEPT !.exist = FALSE]
    ELSE [h EXCEPT !.modes = (@ \ calls.end) \cup calls.start]

SupportedHint(t) == IF t.name \in DOMAIN supported THEN supported[t.name][t.severity] ELSE NONE

Mode(t, hint) == IF hint = NONE THEN {} ELSE {<<t.name, hint>>}

\* Mutant: the hint before is not ended.
OnlyTheNextHint(t, prev, next) == [end |-> {}, start |-> Mode(t, next)]

\* sendPowerExtHint: end the hint before, start the next one.
HintCalls(t, prev, next) == [end |-> Mode(t, prev), start |-> Mode(t, next)]

\* The next change: cb_ and the power hint, if the sensor's configuration has
\* them.  While the main thread has not filled its row, the map says NONE.
Tell ==
    /\ watcher.pc = "tell" /\ temps # <<>>
    /\ LET t == Head(temps)
           prev == st[t.name].prev_hint
           next == SupportedHint(t)
           hints == Info(t.name).send_powerhint /\ hal.exist
       IN  /\ IF Info(t.name).send_cb
              THEN /\ callbacks' = Kept(t)
                   /\ told' = [k \in Clients |-> IF k \in Notified(t)
                                                 THEN [told[k] EXCEPT ![t.name] = t.severity]
                                                 ELSE told[k]]
              ELSE UNCHANGED framework
           /\ hal' = IF hints /\ prev # next THEN SetModes(hal, HintCalls(t, prev, next)) ELSE hal
           /\ st' = IF hints THEN [st EXCEPT ![t.name].prev_hint = next] ELSE st
           /\ early' = IF ~hints THEN early
                       ELSE IF t.name \in DOMAIN supported THEN early \ {t.name}
                       ELSE early \cup {t.name}
    /\ temps' = Tail(temps)
    /\ UNCHANGED <<conf, request, release, written, unsynced, failed, watcher, supported>>

CallbackDone ==
    /\ watcher.pc = "tell" /\ temps = <<>>
    /\ watcher' = [watcher EXCEPT !.pc = "loop"]
    /\ UNCHANGED <<conf, sensing, telling, supported, framework>>

-----------------------------------------------------------------------------
(* The other threads.                                                        *)

\* updateSupportedPowerHints, for one sensor: a severity without a hint of its
\* own has that of the one below.  A dead power HAL knows none.
UpdateSupportedPowerHints ==
    \E s \in {r \in Sensors : Info(r).send_powerhint} \ DOMAIN supported :
        LET known == IF hal.exist /\ hal.alive
                     THEN {k \in Severities : <<s, k>> \in SupportedModes} ELSE {}
        IN  /\ supported' = [r \in DOMAIN supported \cup {s} |->
                                IF r = s
                                THEN [k \in Severities |-> Highest({j \in known : j <= k})]
                                ELSE supported[r]]
            /\ hal' = [hal EXCEPT !.exist = @ /\ hal.alive]
            /\ UNCHANGED <<conf, sensing, watcher, temps, early, framework>>

\* The power HAL dies, and its hints with it.
PowerHalDies ==
    /\ hal.alive
    /\ hal' = [hal EXCEPT !.alive = FALSE, !.modes = {}]
    /\ UNCHANGED <<conf, sensing, watcher, temps, early, supported, framework>>

Registered == {c.client : c \in callbacks}

\* registerThermalChangedCallback, with or without a type to filter by.
registerThermalChangedCallback ==
    \E k \in Clients \ Registered, type \in {Absent} \cup {Info(s).type : s \in Sensors} :
        /\ callbacks' = callbacks \cup {[client |-> k, type |-> type, alive |-> TRUE]}
        /\ told' = [told EXCEPT ![k] = [s \in Sensors |-> Unknown]]
        /\ UNCHANGED <<conf, sensing, watcher, telling, supported>>

unregisterThermalChangedCallback ==
    \E k \in Registered :
        /\ callbacks' = {c \in callbacks : c.client # k}
        /\ told' = [told EXCEPT ![k] = [s \in Sensors |-> Unknown]]
        /\ UNCHANGED <<conf, sensing, watcher, telling, supported>>

ClientDies ==
    \E c \in callbacks :
        /\ c.alive
        /\ callbacks' = (callbacks \ {c}) \cup {[c EXCEPT !.alive = FALSE]}
        /\ told' = [told EXCEPT ![c.client] = [s \in Sensors |-> Unknown]]
        /\ UNCHANGED <<conf, sensing, watcher, telling, supported>>

Older(age) == IF age \in {Never, MaxAge} THEN age ELSE age + 1

Tick ==
    /\ watcher.pc = "poll" /\ watcher.left # 0
    /\ st' = [s \in Sensors |-> [st[s] EXCEPT !.age = Older(@)]]
    /\ watcher' = [watcher EXCEPT !.elapsed = Older(@),
                                  !.left = IF @ = Forever THEN @ ELSE @ - 1]
    /\ UNCHANGED <<conf, request, release, written, unsynced, failed, telling, supported,
                   framework>>

Next ==
    \/ ThreadLoop \/ PollTimeout \/ PollEvent \/ Callback \/ Tell \/ CallbackDone
    \/ UpdateSupportedPowerHints \/ PowerHalDies
    \/ registerThermalChangedCallback \/ unregisterThermalChangedCallback \/ ClientDies
    \/ Tick

Spec == Init /\ [][Next]_vars

-----------------------------------------------------------------------------
(* Correctness.                                                              *)

\* The values of the maps: severities, requests and states a device has,
\* release steps (throttlingReleaseUpdate, power_files.cpp:314) no larger than
\* the device's highest state, and the phases of the watcher's thread.
TypeOK ==
    /\ \A s \in Sensors :
          /\ {st[s].severity, st[s].prev_hot, st[s].prev_cold, st[s].prev_hint} \subseteq Severities
          /\ st[s].age \in Never..MaxAge
          /\ \A c \in DOMAIN release[s].step :
                release[s].step[c] \in -conf.cdev[c].max_state..conf.cdev[c].max_state
    /\ \A c \in Cdevs : \A s \in DOMAIN request[c] : request[c][s] \in 0..conf.cdev[c].max_state
    /\ unsynced \subseteq Cdevs /\ failed \subseteq Sensors /\ early \subseteq Sensors
    /\ watcher.pc \in {"loop", "poll", "callback", "tell"}
    /\ watcher.sensors \subseteq conf.monitored
    /\ hal.modes \subseteq SupportedModes
    /\ told \in [Clients -> [Sensors -> Severities \cup {Unknown}]]

\* Sensor s asks nothing of c by configuration while it is cool: the severity
\* NONE limits nothing, and c has a positive weight wherever there is a budget.
AsksNothingCool(s, c) ==
    LET b == Bound(s)[c]
    IN  /\ b.limit_info[NONE] = 0
        /\ c \in PidCdevs(Bound(s)) =>
              \A k \in Numbers(Info(s).pid.S_Power) :
                  b.cdev_weight_for_pid[k] # NaN /\ b.cdev_weight_for_pid[k] > 0

\* A device whose last write was taken stands at the highest state any of its
\* sensors asks of it: computeCoolingDevicesRequest puts on the list of devices
\* to write every one that needs it, whichever sensor moved, and
\* updateCoolingDevices forgets no sensor (thermal-helper.cpp:681-758).  And
\* when every sensor that throttles it has cooled down it is released, whatever
\* the power releases (throttlingReleaseUpdate, setPowerDataToDefault) and the
\* budgets of the throttling left behind.
CdevsAgree ==
    \A c \in Cdevs \ unsynced :
        /\ written[c] \in {0} \cup {request[c][s] : s \in DOMAIN request[c]}
        /\ \A s \in DOMAIN request[c] : written[c] >= request[c][s]
        /\ DOMAIN request[c] # {}
           /\ (\A s \in DOMAIN request[c] : Severity(s) = NONE /\ AsksNothingCool(s, c))
           => written[c] = 0

\* A monitored sensor that could be read is read again within twice its delay
\* and the shortest sleep: the sleep another sensor or an event of the kernel
\* starts anew (ThermalWatcher::threadLoop) ends in time for every sensor.
ReadInTime ==
    \A s \in Sensors \ failed :
        Info(s).is_monitor =>
            st[s].age <= 2 * (SleepMs(Info(s), Severity(s)) + kMinPollIntervalMs)

Pending(s) == \E j \in DOMAIN temps : temps[j].name = s

\* As long as the power HAL lives, it holds exactly the hint the helper believes
\* it sent for a sensor (sendPowerExtHint); and that is the one supported for
\* the sensor's severity, unless it was sent before updateSupportedPowerHints
\* had filled the sensor's row.
HintsAgree ==
    hal.alive /\ hal.exist =>
        \A s \in Sensors :
            LET x == st[s]
            IN  /\ {k \in Severities : <<s, k>> \in hal.modes} = {x.prev_hint} \ {NONE}
                /\ (/\ Info(s).send_powerhint /\ s \in DOMAIN supported
                    /\ s \notin early /\ ~Pending(s) /\ Severity(s) # NONE)
                   => x.prev_hint = supported[s][Severity(s)]

\* A client that was told of a sensor is told of every later change of it: what
\* it knows, between two callbacks of the watcher, is the sensor's severity,
\* although it registers, unregisters and dies in between
\* (sendThermalChangedCallback, Thermal.cpp:236-256).
ClientsTold ==
    \A k \in Clients, s \in Sensors :
        ~Pending(s) => told[k][s] \in {Unknown, Severity(s)}

\* Whoever listens, the power HAL and the clients of the thermal HAL, was told
\* what the helper believes it told them.  (sendPowerExtHint,
\* sendThermalChangedCallback)
ListenersTold == HintsAgree /\ ClientsTold
=============================================================================
