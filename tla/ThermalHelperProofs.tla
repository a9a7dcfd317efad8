------------------------- MODULE ThermalHelperProofs -------------------------
(***************************************************************************)
(* Proofs about ThermalHelper: the invariants of its run hold for every    *)
(* configuration the HAL accepts, every number of sensors, devices, rails  *)
(* and clients, and every delay.                                           *)
(*                                                                         *)
(* The loops over sensors and over devices are recursive functions; what   *)
(* holds through them is proved by induction on the natural numbers, which *)
(* Induction derives from their being well founded.                        *)
(***************************************************************************)
EXTENDS ThermalHelper, TLAPS, FiniteSetTheorems, NaturalsInduction

\* The fields of SensorStatus.
StatusFields ==
    {"severity", "prev_hot", "prev_cold", "prev_hint", "age", "err_integral", "prev_err",
     "pid", "hard"}

\* The devices sensor s asks a state of.
Asked(s) == PidCdevs(Bound(s)) \cup LimitCdevs(Bound(s))

\* The sensors are finitely many and the map has an order; each has a threshold
\* or NaN for every severity, delays, and a power where it asks by power.
SensorsOK ==
    /\ IsFiniteSet(Sensors)
    /\ conf.order \in [1..Cardinality(Sensors) -> Sensors]
    /\ \A j, k \in 1..Cardinality(Sensors) : conf.order[j] = conf.order[k] => j = k
    /\ \A s \in Sensors :
          /\ DOMAIN Info(s).hot_thresholds = Severities
          /\ DOMAIN Info(s).cold_thresholds = Severities
          /\ Info(s).polling_delay \in Nat
          /\ Info(s).passive_delay \in Nat
          /\ PidCdevs(Bound(s)) # {} =>
                /\ Numbers(Info(s).pid.S_Power) \subseteq Severities
                /\ Numbers(Info(s).pid.S_Power) # {}

\* What binds a sensor to a device: a state of the device can be derived from it,
\* and all the power there is is enough for the first state.
BoundOK ==
    \A s \in Sensors :
      /\ IsFiniteSet(DOMAIN Bound(s))
      /\ \A c \in DOMAIN Bound(s) :
          /\ c \in Cdevs
          /\ conf.cdev[c].max_state \in Nat
          /\ Len(conf.cdev[c].state2power) \in Nat \ {0}
          /\ Bound(s)[c].release_logic \in ReleaseLogics \cup {"NONE"}
          /\ \A k \in Severities :
               /\ Bound(s)[c].limit_info[k] \in Nat
               /\ Bound(s)[c].cdev_floor[k] \in Nat
               /\ Bound(s)[c].cdev_ceiling[k] \in Nat
          /\ PidCdevs(Bound(s)) # {} =>
             \A k \in Numbers(Info(s).pid.S_Power) :
               Weight(Bound(s), c, k) # NaN /\ Weight(Bound(s), c, k) > 0 =>
                  /\ TotalWeight(Bound(s), k) # 0
                  /\ Len(conf.cdev[c].state2power) > 1 =>
                       IntMax * Weight(Bound(s), c, k)
                         > conf.cdev[c].state2power[1] * TotalWeight(Bound(s), k)

ConfOK == SensorsOK /\ BoundOK

\* A status has the types of SensorStatus, and a request for each device of s.
StatusOK(x, s) ==
    /\ DOMAIN x = StatusFields
    /\ x.severity \in Severities /\ x.prev_hot \in Severities /\ x.prev_cold \in Severities
    /\ x.prev_hint \in Severities
    /\ x.age \in Never..MaxAge
    /\ DOMAIN x.pid = PidCdevs(Bound(s)) /\ \A c \in DOMAIN x.pid : x.pid[c] \in Nat
    /\ DOMAIN x.hard = LimitCdevs(Bound(s)) /\ \A c \in DOMAIN x.hard : x.hard[c] \in Nat

\* The release steps are no larger than the device's highest state.
StepsOK(step, s) ==
    /\ DOMAIN step \subseteq DOMAIN Bound(s)
    /\ \A c \in DOMAIN step : step[c] \in -conf.cdev[c].max_state..conf.cdev[c].max_state

\* cdev_status_map_ has a row for each sensor that asks, and states in it.
RequestsOK(req) ==
    /\ DOMAIN req = Cdevs
    /\ \A c \in Cdevs : DOMAIN req[c] = {s \in Sensors : c \in Asked(s)}
    /\ \A s \in Sensors : \A c \in Asked(s) : req[c][s] \in 0..conf.cdev[c].max_state

\* What was asked of a device in vain is taken back once the sensor is cool.
CoolOK(x, req) ==
    \A s \in Sensors : \A c \in Asked(s) :
      x[s].severity = NONE /\ AsksNothingCool(s, c) => req[c][s] = 0

\* The maps agree with the configuration; devices written stand at the highest
\* request, and what a sensor that is cool asked is taken back.
SensingOK ==
    /\ DOMAIN st = Sensors /\ \A s \in Sensors : StatusOK(st[s], s)
    /\ DOMAIN release = Sensors
    /\ \A s \in Sensors : DOMAIN release[s] = {"step", "power"} /\ StepsOK(release[s].step, s)
    /\ RequestsOK(request)
    /\ CoolOK(st, request)
    /\ unsynced \subseteq Cdevs /\ failed \subseteq Sensors
    /\ \A c \in Cdevs \ unsynced : written[c] = MaxState(request, c)

\* The sleep is extended by at most itself: an event starts it anew only while it
\* has not passed.
WatcherOK ==
    /\ DOMAIN watcher = {"pc", "sleep", "elapsed", "left", "sensors"}
    /\ watcher.pc \in {"loop", "poll", "callback", "tell"}
    /\ watcher.sleep \in Nat /\ watcher.left \in Nat
    /\ watcher.elapsed \in 0..MaxAge
    /\ watcher.sensors \subseteq conf.monitored
    /\ watcher.elapsed <= 2 * watcher.sleep
    /\ watcher.pc = "tell" => watcher.elapsed = 0
    /\ watcher.pc = "poll" =>
         /\ watcher.left <= watcher.sleep
         /\ watcher.elapsed + watcher.left <= 2 * watcher.sleep

\* How old the reading of s may get.
Delay(s) == SleepMs(Info(s), st[s].severity)

\* A sensor that could be read was read before the sleep began, and the sleep ends
\* before the reading is too old; only at the start there is no reading.
AgesOK ==
    \A s \in Sensors \ failed : Info(s).is_monitor =>
      IF st[s].age = Never
      THEN watcher.pc \in {"loop", "callback"} /\ watcher.sleep = 0
      ELSE /\ watcher.elapsed <= st[s].age
           /\ st[s].age + watcher.sleep <= Delay(s) + kMinPollIntervalMs + watcher.elapsed

\* What the callback tells.
Changes == [name : Sensors, severity : Severities]

\* The changes t are of different sensors, and to the severity each has.
ChangesOK(t, x) ==
    /\ t \in Seq(Changes)
    /\ \A j, k \in DOMAIN t : t[j].name = t[k].name => j = k
    /\ \A j \in DOMAIN t : t[j].severity = x[t[j].name].severity

\* Changes are pending only while they are told.
TempsOK == ChangesOK(temps, st) /\ (temps # <<>> => watcher.pc = "tell")

\* Client k is told of the changes of s.
Hears(k, s) == \E c \in callbacks : c.client = k /\ c.alive /\ Listens(c, [name |-> s])

\* The fields of CallbackSetting.
CallbackFields == {"client", "type", "alive"}

\* Only those are told who registered for the sensor and live.
ToldOK ==
    /\ \A c \in callbacks : DOMAIN c = CallbackFields /\ c.client \in Clients
    /\ told \in [Clients -> [Sensors -> Severities \cup {Unknown}]]
    /\ \A k \in Clients, s \in Sensors :
         told[k][s] # Unknown => Info(s).send_cb /\ Hears(k, s)
    /\ ClientsTold

\* The hints sent are supported ones, and nothing was sent of a sensor whose row is
\* not filled, or it is counted as early.
HintsOK ==
    /\ DOMAIN hal = {"exist", "alive", "modes"}
    /\ hal.exist \in BOOLEAN /\ hal.alive \in BOOLEAN
    /\ hal.modes \subseteq SupportedModes
    /\ early \subseteq Sensors
    /\ DOMAIN supported \subseteq Sensors
    /\ \A s \in DOMAIN supported, k \in Severities :
         /\ supported[s][k] \in Severities
         /\ supported[s][k] # NONE => <<s, supported[s][k]>> \in SupportedModes
    /\ HintsAgree
    /\ hal.alive /\ hal.exist =>
         \A s \in Sensors \ (DOMAIN supported \cup early) :
           Info(s).send_powerhint /\ ~Pending(s) => Severity(s) = NONE

\* The inductive invariant.
IInv == ConfOK /\ SensingOK /\ WatcherOK /\ AgesOK /\ TempsOK /\ ToldOK /\ HintsOK

-----------------------------------------------------------------------------
(* Natural numbers, finite sets and the operators on them.                   *)

\* What holds of 0 and is kept by adding 1 holds of every natural number.
LEMMA Induction ==
    ASSUME NEW S, 0 \in S, \A n \in Nat : n \in S => n + 1 \in S
    PROVE  Nat \subseteq S
<1> DEFINE T == Nat \ S
<1>1. SUFFICES ASSUME T # {} PROVE FALSE
  OBVIOUS
<1>2. IsWellFoundedOn(OpToRel(<, Nat), Nat)
  BY NatLessThanWellFounded
<1>3. PICK x \in T : \A y \in T : ~ (<<y, x>> \in OpToRel(<, Nat))
  BY <1>1, <1>2, WFMin
<1>4. x # 0 /\ x - 1 \in Nat /\ (x - 1) + 1 = x
  OBVIOUS
<1>5. x - 1 \in T
  BY <1>4
<1>6. <<x - 1, x>> \in OpToRel(<, Nat)
  BY <1>4 DEF OpToRel
<1> QED BY <1>3, <1>5, <1>6

\* A set of natural numbers that is not empty has a least one.
LEMMA Least ==
    ASSUME NEW S, S \subseteq Nat, S # {}
    PROVE  Min(S) \in S /\ \A y \in S : Min(S) <= y
<1>1. IsWellFoundedOn(OpToRel(<, Nat), Nat)
  BY NatLessThanWellFounded
<1>2. PICK x \in S : \A y \in S : ~ (<<y, x>> \in OpToRel(<, Nat))
  BY <1>1, WFMin
<1>3. \A y \in S : x <= y
  <2> SUFFICES ASSUME NEW y \in S, y < x PROVE FALSE
    OBVIOUS
  <2>1. <<y, x>> \in OpToRel(<, Nat)
    BY DEF OpToRel
  <2> QED BY <1>2, <2>1
<1> QED BY <1>2, <1>3 DEF Min

\* A set of natural numbers that is not empty and has a bound has a greatest one.
LEMMA Greatest ==
    ASSUME NEW S, S \subseteq Nat, S # {}, NEW n \in Nat, \A y \in S : y <= n
    PROVE  Max(S) \in S /\ \A y \in S : Max(S) >= y
<1> DEFINE R == {n - y : y \in S}
<1>1. R \subseteq Nat /\ R # {}
  OBVIOUS
<1>2. Min(R) \in R /\ \A r \in R : Min(R) <= r
  BY <1>1, Least
<1>3. PICK x \in S : Min(R) = n - x
  BY <1>2
<1>4. \A y \in S : x >= y
  BY <1>2, <1>3
<1> QED BY <1>4 DEF Max

\* The least and the greatest of two numbers.
LEMMA OfTwo ==
    ASSUME NEW m \in Nat, NEW n \in Nat
    PROVE  /\ Min({m, n}) \in {m, n} /\ Min({m, n}) <= m /\ Min({m, n}) <= n
           /\ Max({m, n}) \in {m, n} /\ Max({m, n}) >= m /\ Max({m, n}) >= n
<1> DEFINE S == {m, n}
<1>1. S \subseteq Nat /\ S # {} /\ m \in S /\ n \in S /\ m + n \in Nat
      /\ \A y \in S : y <= m + n
  OBVIOUS
<1> HIDE DEF S
<1>2. Min(S) \in S /\ Min(S) <= m /\ Min(S) <= n
  BY <1>1, Least
<1>3. Max(S) \in S /\ Max(S) >= m /\ Max(S) >= n
  BY <1>1, Greatest
<1> QED BY <1>2, <1>3 DEF S

\* A finite set is listed once by what SetToSeq makes of it.
LEMMA Listed ==
    ASSUME NEW S, IsFiniteSet(S)
    PROVE  SetToSeq(S) \in [1..Cardinality(S) -> S] /\ Cardinality(S) \in Nat
<1>1. Cardinality(S) \in Nat /\ ExistsBijection(1..Cardinality(S), S)
  BY FS_CardinalityType
<1>2. \E f \in [1..Cardinality(S) -> S] : IsInjective(f)
  BY <1>1 DEF ExistsBijection, Bijection, Injection
<1> QED BY <1>1, <1>2 DEF SetToSeq

\* The order of the map leads to every sensor.
LEMMA InOrder ==
    ASSUME SensorsOK, NEW s \in Sensors
    PROVE  \E j \in 1..Cardinality(Sensors) : conf.order[j] = s
<1> DEFINE N == Cardinality(Sensors)
           f == conf.order
<1>1. N \in Nat
  BY FS_CardinalityType DEF SensorsOK
<1>2. f \in Injection(1..N, Sensors)
  BY DEF SensorsOK, Injection, IsInjective
<1>3. Cardinality(1..N) = N
  BY <1>1, FS_Interval
<1>4. f \in Surjection(1..N, Sensors)
  BY <1>2, <1>3, FS_Injection DEF SensorsOK
<1> QED BY <1>4 DEF Surjection

\* The highest of severities is one, or NONE.
LEMMA HighestOfSeverities ==
    ASSUME NEW S \in SUBSET Severities
    PROVE  /\ Highest(S) \in Severities
           /\ S # {} => Highest(S) \in S
<1>1. CASE S = {}
  BY <1>1, SeveritiesAssumption DEF Highest, Severities, NONE
<1>2. CASE S # {}
  <2>1. S \subseteq Nat /\ \A y \in S : y <= MaxSeverity
    BY SeveritiesAssumption DEF Severities, NONE
  <2>2. Max(S) \in S
    BY <1>2, <2>1, Greatest, SeveritiesAssumption
  <2> QED BY <1>2, <2>2 DEF Highest
<1> QED BY <1>1, <1>2

-----------------------------------------------------------------------------
(* Severities, budgets and requests.                                         *)

\* Whatever the value, a severity comes of it.
LEMMA SeverityType ==
    ASSUME SensorsOK, NEW s \in Sensors, NEW prev, NEW value
    PROVE  /\ HotSeverity(Info(s), prev, value) \in Severities
           /\ ColdSeverity(Info(s), prev, value) \in Severities
<1> DEFINE H == Info(s).hot_thresholds
           C == Info(s).cold_thresholds
           H1 == {k \in Numbers(H) \ {NONE} : H[k] <= value}
           H2 == {k \in Numbers(H) \ {NONE} : H[k] - Info(s).hot_hysteresis[k] < value}
           C1 == {k \in Numbers(C) \ {NONE} : C[k] >= value}
           C2 == {k \in Numbers(C) \ {NONE} : C[k] + Info(s).cold_hysteresis[k] > value}
<1>1. Numbers(H) \subseteq Severities /\ Numbers(C) \subseteq Severities
  BY DEF SensorsOK, Numbers
<1>2. /\ H1 \in SUBSET Severities /\ H2 \in SUBSET Severities
      /\ C1 \in SUBSET Severities /\ C2 \in SUBSET Severities
  BY <1>1
<1>3. /\ Highest(H1) \in Severities /\ Highest(H2) \in Severities
      /\ Highest(C1) \in Severities /\ Highest(C2) \in Severities
  <2> HIDE DEF H1, H2, C1, C2
  <2> QED BY <1>2, HighestOfSeverities
<1>4. HotSeverity(Info(s), prev, value) \in {Highest(H1), Highest(H2)}
  BY DEF HotSeverity
<1>5. ColdSeverity(Info(s), prev, value) \in {Highest(C1), Highest(C2)}
  BY DEF ColdSeverity
<1> QED BY <1>3, <1>4, <1>5

\* A budget is always computed for a severity that has a sustainable power.
LEMMA TargetHasPower ==
    ASSUME SensorsOK, NEW s \in Sensors, PidCdevs(Bound(s)) # {}, NEW severity \in Severities
    PROVE  getTargetStateOfPID(Info(s), severity) \in Numbers(Info(s).pid.S_Power)
<1> DEFINE P == Numbers(Info(s).pid.S_Power)
           above == {k \in P : k > severity}
<1>1. P \in SUBSET Severities /\ P # {}
  BY DEF SensorsOK, Numbers
<1>2. Highest(P) \in P
  <2> HIDE DEF P
  <2> QED BY <1>1, HighestOfSeverities
<1>3. CASE above = {}
  BY <1>2, <1>3 DEF getTargetStateOfPID
<1>4. CASE above # {}
  <2>1. above \subseteq Nat
    BY <1>1 DEF Severities, NONE
  <2>2. Min(above) \in above
    <3> HIDE DEF above
    <3> QED BY <1>4, <2>1, Least
  <2> QED BY <1>4, <2>2 DEF getTargetStateOfPID
<1> QED BY <1>3, <1>4

\* A sensor that is cool has all the power there is.
LEMMA CoolBudget ==
    ASSUME NEW i, NEW x, NEW value, NEW elapsed, NEW target, x.severity = NONE
    PROVE  pidPowerCalculator(i, x, value, elapsed, target).budget = IntMax
BY DEF pidPowerCalculator

\* The states asked by power are states, and with all the power there is a
\* device that has a weight is asked for its first one.
LEMMA PowerStates ==
    ASSUME BoundOK, NEW s \in Sensors, NEW old, DOMAIN old \subseteq DOMAIN Bound(s),
           \A c \in DOMAIN old : old[c] \in Nat,
           NEW budget, NEW target
    PROVE  LET new == requestCdevByPower(s, old, budget, target)
           IN  /\ DOMAIN new = DOMAIN old
               /\ \A c \in DOMAIN old : new[c] \in Nat
               /\ \A c \in DOMAIN old :
                    /\ budget = IntMax
                    /\ PidCdevs(Bound(s)) # {}
                    /\ target \in Numbers(Info(s).pid.S_Power)
                    /\ Weight(Bound(s), c, target) # NaN /\ Weight(Bound(s), c, target) > 0
                    => new[c] = 0
<1> DEFINE total == TotalWeight(Bound(s), target)
           power(c) == conf.cdev[c].state2power
           fits(c) == {j \in 1..(Len(power(c)) - 1) :
                         budget * Weight(Bound(s), c, target) > power(c)[j] * total}
           State(c) == IF fits(c) = {} THEN Len(power(c)) - 1 ELSE Min(fits(c)) - 1
           new == requestCdevByPower(s, old, budget, target)
<1>1. new = IF total = 0 THEN old
            ELSE [c \in DOMAIN old |->
                    IF c \in Weighted(Bound(s), target) THEN State(c) ELSE old[c]]
  BY DEF requestCdevByPower
<1>2. ASSUME NEW c \in DOMAIN old
      PROVE  /\ State(c) \in Nat
             /\ 1 \in fits(c) => State(c) = 0
             /\ Len(power(c)) = 1 => State(c) = 0
  <2>1. Len(power(c)) \in Nat \ {0}
    BY DEF BoundOK
  <2>2. fits(c) \subseteq Nat \ {0}
    BY <2>1
  <2>3. fits(c) # {} => Min(fits(c)) \in fits(c) /\ \A y \in fits(c) : Min(fits(c)) <= y
    <3> HIDE DEF fits
    <3> QED BY <2>2, Least
  <2>4. Len(power(c)) = 1 => fits(c) = {}
    OBVIOUS
  <2> HIDE DEF fits
  <2> QED BY <2>1, <2>2, <2>3, <2>4
<1>3. ASSUME NEW c \in DOMAIN old,
             budget = IntMax, PidCdevs(Bound(s)) # {},
             target \in Numbers(Info(s).pid.S_Power),
             Weight(Bound(s), c, target) # NaN, Weight(Bound(s), c, target) > 0
      PROVE  total # 0 /\ c \in Weighted(Bound(s), target) /\ State(c) = 0
  <2>1. /\ total # 0
        /\ Len(power(c)) \in Nat \ {0}
        /\ Len(power(c)) > 1 => IntMax * Weight(Bound(s), c, target) > power(c)[1] * total
    BY <1>3 DEF BoundOK
  <2>2. c \in Weighted(Bound(s), target)
    BY <1>3 DEF Weighted
  <2>3. Len(power(c)) > 1 => 1 \in fits(c)
    BY <1>3, <2>1
  <2>4. Len(power(c)) = 1 \/ Len(power(c)) > 1
    <3> DEFINE n == Len(power(c))
    <3>1. n \in Nat \ {0}
      BY <2>1
    <3> HIDE DEF n
    <3>2. n = 1 \/ n > 1
      BY <3>1
    <3> QED BY <3>2 DEF n
  <2>5. State(c) = 0
    <3> HIDE DEF fits, State, power
    <3> QED BY <1>2, <2>3, <2>4
  <2> QED BY <2>1, <2>2, <2>5
<1> HIDE DEF State, total, new
<1>4. DOMAIN new = DOMAIN old
  BY <1>1
<1>5. \A c \in DOMAIN old : new[c] \in Nat
  BY <1>1, <1>2
<1>6. ASSUME NEW c \in DOMAIN old,
             budget = IntMax, PidCdevs(Bound(s)) # {},
             target \in Numbers(Info(s).pid.S_Power),
             Weight(Bound(s), c, target) # NaN, Weight(Bound(s), c, target) > 0
      PROVE  new[c] = 0
  BY <1>1, <1>3, <1>6
<1> QED BY <1>4, <1>5, <1>6 DEF new

\* A device is never asked for a state it does not have, and for none when
\* nothing asks and nothing is released.
LEMMA RequestedState ==
    ASSUME BoundOK, NEW s \in Sensors, NEW c \in DOMAIN Bound(s), NEW x, NEW step \in Int,
           x.severity \in Severities,
           c \in DOMAIN x.pid => x.pid[c] \in Nat,
           c \in DOMAIN x.hard => x.hard[c] \in Nat
    PROVE  /\ RequestState(s, c, x, step) \in 0..conf.cdev[c].max_state
           /\ /\ step = 0
              /\ c \in DOMAIN x.pid => x.pid[c] = 0
              /\ c \in DOMAIN x.hard => x.hard[c] = 0
              => RequestState(s, c, x, step) = 0
<1> DEFINE b == Bound(s)[c]
           max_state == conf.cdev[c].max_state
           A == {0} \cup (IF c \in DOMAIN x.pid THEN {x.pid[c]} ELSE {})
                    \cup (IF c \in DOMAIN x.hard THEN {x.hard[c]} ELSE {})
           asked == Max(A)
           released == IF step >= asked THEN 0 ELSE asked - step
           floored == IF released < b.cdev_floor[x.severity]
                      THEN b.cdev_floor[x.severity] ELSE released
           ceiling == Min({b.cdev_ceiling[x.severity], max_state})
           wanted == IF step # 0 THEN floored ELSE asked
<1>1. /\ max_state \in Nat
      /\ b.cdev_floor[x.severity] \in Nat
      /\ b.cdev_ceiling[x.severity] \in Nat
  BY DEF BoundOK
<1>2. asked \in Nat
  <2> DEFINE p == IF c \in DOMAIN x.pid THEN x.pid[c] ELSE 0
             h == IF c \in DOMAIN x.hard THEN x.hard[c] ELSE 0
  <2>1. A \subseteq Nat /\ A # {} /\ p + h \in Nat /\ \A y \in A : y <= p + h
    OBVIOUS
  <2> HIDE DEF A, p, h
  <2> QED BY <2>1, Greatest
<1>3. (c \in DOMAIN x.pid => x.pid[c] = 0) /\ (c \in DOMAIN x.hard => x.hard[c] = 0)
      => asked = 0
  <2> SUFFICES ASSUME A = {0} PROVE asked = 0
    OBVIOUS
  <2> HIDE DEF A
  <2>1. Max(A) \in A
    BY Greatest
  <2> QED BY <2>1
<1>4. wanted \in Nat
  <2> HIDE DEF asked
  <2> QED BY <1>1, <1>2
<1>5. ceiling \in 0..max_state
  <2> DEFINE m == b.cdev_ceiling[x.severity]
             n == max_state
  <2>1. m \in Nat /\ n \in Nat
    BY <1>1
  <2> HIDE DEF m, n
  <2>2. Min({m, n}) \in 0..n
    BY <2>1, OfTwo
  <2> QED BY <2>2 DEF m, n
<1>6. RequestState(s, c, x, step) = Min({ceiling, wanted})
  BY DEF RequestState
<1> HIDE DEF ceiling, wanted
<1>7. Min({ceiling, wanted}) \in {ceiling, wanted} /\ Min({ceiling, wanted}) <= ceiling
      /\ Min({ceiling, wanted}) <= wanted
  <2>1. ceiling \in Nat
    BY <1>1, <1>5
  <2> QED BY <1>4, <2>1, OfTwo
<1>8. RequestState(s, c, x, step) \in 0..max_state
  BY <1>1, <1>4, <1>5, <1>6, <1>7
<1>9. step = 0 => wanted = asked
  BY DEF wanted
<1> QED BY <1>1, <1>3, <1>4, <1>5, <1>6, <1>7, <1>8, <1>9

-----------------------------------------------------------------------------
(* The release of throttling.                                                *)

\* throttlingReleaseUpdate keeps the step of a device within its states, whatever
\* the release logic and the powers (power_files.cpp:393).
LEMMA ReleasedSteps ==
    ASSUME BoundOK, NEW s \in Sensors, NEW c \in DOMAIN Bound(s), NEW power, NEW severity,
           NEW elapsed, NEW first, NEW changed, NEW outcome,
           NEW step \in -conf.cdev[c].max_state..conf.cdev[c].max_state
    PROVE  throttlingReleaseUpdate(s, c, step, power, severity, elapsed, first, changed,
               outcome).step \in -conf.cdev[c].max_state..conf.cdev[c].max_state
<1> DEFINE b == Bound(s)[c]
           max_step == conf.cdev[c].max_state
           result == throttlingReleaseUpdate(s, c, step, power, severity, elapsed, first,
                         changed, outcome)
<1>1. max_step \in Nat /\ b.release_logic \in ReleaseLogics \cup {"NONE"}
  BY DEF BoundOK
<1>2. ASSUME NEW over PROVE NextStep(b, max_step, step, over) \in -max_step..max_step
  <2> HIDE DEF max_step, b
  <2>1. step \in Int /\ -max_step <= step /\ step <= max_step
    BY <1>1 DEF max_step
  <2> DEFINE less == IF Abs(step) < max_step THEN step - 1 ELSE step
             more == IF step < max_step THEN step + 1 ELSE step
  <2>2. less \in -max_step..max_step /\ more \in -max_step..max_step
    BY <1>1, <2>1 DEF Abs
  <2>3. step \in -max_step..max_step /\ 0 \in -max_step..max_step
        /\ max_step \in -max_step..max_step
    BY <1>1, <2>1
  <2>4. NextStep(b, max_step, step, over) \in {less, more, step, 0, max_step}
    BY <1>1 DEF NextStep, ReleaseLogics
  <2> HIDE DEF less, more
  <2> QED BY <2>2, <2>3, <2>4
<1>3. \/ result.step \in {step, 0, max_step}
      \/ \E over : result.step = NextStep(b, max_step, step, over)
  BY DEF throttlingReleaseUpdate
<1>4. {step, 0, max_step} \subseteq -max_step..max_step
  BY <1>1
<1> HIDE DEF result, max_step, b
<1>5. result.step \in -max_step..max_step
  BY <1>2, <1>3, <1>4
<1> QED BY <1>5 DEF result, max_step

\* The release of one device keeps the steps of all devices of the sensor.
LEMMA ReleasedDevice ==
    ASSUME BoundOK, NEW s \in Sensors, NEW x, StepsOK(x.step, s), NEW c \in DOMAIN x.step,
           NEW severity, NEW elapsed, NEW changed, NEW outcome
    PROVE  LET y == ReleaseDevice(x, s, c, severity, elapsed, changed, outcome)
           IN  StepsOK(y.step, s) /\ DOMAIN y.step = DOMAIN x.step
<1> DEFINE q == Bound(s)[c].power_rail
           u == throttlingReleaseUpdate(s, c, x.step[c], x.power[q], severity, elapsed,
                    q \notin x.rails, changed, outcome[q])
           y == ReleaseDevice(x, s, c, severity, elapsed, changed, outcome)
<1>1. u.step \in -conf.cdev[c].max_state..conf.cdev[c].max_state
  BY ReleasedSteps DEF StepsOK
<1>2. y.step = [x.step EXCEPT ![c] = u.step]
  BY DEF ReleaseDevice
<1> HIDE DEF y, u
<1> QED BY <1>1, <1>2 DEF StepsOK, y

\* The release of all devices of a sensor does, by induction over them.
LEMMA ReleasedUpdate ==
    ASSUME BoundOK, NEW s \in Sensors, NEW x, StepsOK(x.step, s),
           NEW severity, NEW elapsed, NEW changed, NEW outcome
    PROVE  LET y == ReleaseUpdate(x, s, severity, elapsed, changed, outcome)
           IN  StepsOK(y.step, s) /\ DOMAIN y.step = DOMAIN x.step
<1> DEFINE D == DOMAIN x.step
           cdevs == SetToSeq(D)
           L == Len(cdevs)
           Op(y, n) == ReleaseDevice(y, s, cdevs[n], severity, elapsed, changed, outcome)
           UpTo(n, g) == [i \in 0..n |-> IF i = 0 THEN x ELSE Op(g[i - 1], i)]
           After == CHOOSE f : f = UpTo(L, f)
<1>1. ReleaseUpdate(x, s, severity, elapsed, changed, outcome) = After[L]
  BY DEF ReleaseUpdate
<1>2. L \in Nat /\ \A n \in 1..L : cdevs[n] \in D
  <2>1. IsFiniteSet(D)
    BY FS_Subset DEF BoundOK, StepsOK
  <2>2. cdevs \in [1..Cardinality(D) -> D] /\ Cardinality(D) \in Nat
    BY <2>1, Listed
  <2> HIDE DEF cdevs, D
  <2>3. L = Cardinality(D)
    BY <2>2
  <2> QED BY <2>2, <2>3
<1> HIDE DEF L, cdevs, Op
<1>3. \A n \in Nat : \E g : g = UpTo(n, g)
  <2> DEFINE S == {n \in Nat : \E g : g = UpTo(n, g)}
  <2>1. 0 \in S
    <3>1. [i \in 0..0 |-> x] = UpTo(0, [i \in 0..0 |-> x])
      OBVIOUS
    <3> QED BY <3>1
  <2>2. ASSUME NEW n \in Nat, n \in S PROVE n + 1 \in S
    <3>1. PICK g : g = UpTo(n, g)
      BY <2>2
    <3> DEFINE h == [i \in 0..(n + 1) |-> IF i = n + 1 THEN Op(g[n], n + 1) ELSE g[i]]
    <3>2. ASSUME NEW i \in 0..(n + 1)
          PROVE  h[i] = IF i = 0 THEN x ELSE Op(h[i - 1], i)
      BY <3>1
    <3>3. h = [i \in 0..(n + 1) |-> h[i]]
      OBVIOUS
    <3> HIDE DEF h
    <3>4. h = UpTo(n + 1, h)
      BY <3>2, <3>3
    <3> QED BY <3>4
  <2> HIDE DEF S
  <2>3. Nat \subseteq S
    BY <2>1, <2>2, Induction
  <2> QED BY <2>3 DEF S
<1>4. After = UpTo(L, After)
  BY <1>2, <1>3
<1> HIDE DEF After
<1>5. \A n \in 0..L : After[n] = IF n = 0 THEN x ELSE Op(After[n - 1], n)
  BY <1>4
<1> DEFINE Good(y) == StepsOK(y.step, s) /\ DOMAIN y.step = D
           T == {n \in Nat : n <= L => Good(After[n])}
<1>6. 0 \in T
  BY <1>2, <1>5
<1>7. ASSUME NEW n \in Nat, n \in T PROVE n + 1 \in T
  <2> SUFFICES ASSUME n + 1 <= L PROVE Good(After[n + 1])
    OBVIOUS
  <2>1. Good(After[n]) /\ cdevs[n + 1] \in D /\ After[n + 1] = Op(After[n], n + 1)
    BY <1>2, <1>5, <1>7
  <2> QED BY <2>1, ReleasedDevice DEF Op
<1> HIDE DEF T
<1>8. L \in T
  BY <1>2, <1>6, <1>7, Induction
<1> QED BY <1>1, <1>2, <1>8 DEF T

-----------------------------------------------------------------------------
(* One sensor of the callback.                                               *)

\* A reading gives a status; a sensor that is cool asks for nothing afterwards
\* (getSeverityFromThresholds to requestCdevBySeverity).
LEMMA StatusRead ==
    ASSUME ConfOK, NEW s \in Sensors, NEW old, StatusOK(old, s), NEW value
    PROVE  LET x == StatusAfter(s, old, value)
           IN  /\ StatusOK(x, s)
               /\ x.age = 0 /\ x.prev_hint = old.prev_hint
               /\ x.severity = NONE =>
                    \A c \in Asked(s) : AsksNothingCool(s, c) =>
                      /\ c \in DOMAIN x.pid => x.pid[c] = 0
                      /\ c \in DOMAIN x.hard => x.hard[c] = 0
<1> DEFINE i == Info(s)
           hot == HotSeverity(i, old.prev_hot, value)
           cold == ColdSeverity(i, old.prev_cold, value)
           severity == IF hot > cold THEN hot ELSE cold
           x == [old EXCEPT !.prev_hot = hot, !.prev_cold = cold, !.severity = severity,
                            !.age = 0]
           target == getTargetStateOfPID(i, severity)
           power == pidPowerCalculator(i, x, value, SinceRead(old), target)
           pid == requestCdevByPower(s, old.pid, power.budget, target)
           y == IF DOMAIN old.pid = {} THEN x
                ELSE [x EXCEPT !.pid = pid, !.err_integral = power.err_integral,
                               !.prev_err = power.prev_err]
           z == [y EXCEPT !.hard = [c \in DOMAIN y.hard |-> Bound(s)[c].limit_info[severity]]]
<1>1. DOMAIN old = StatusFields /\ DOMAIN old.pid = PidCdevs(Bound(s))
      /\ DOMAIN old.hard = LimitCdevs(Bound(s)) /\ old.prev_hint \in Severities
      /\ \A c \in DOMAIN old.pid : old.pid[c] \in Nat
  BY DEF StatusOK
<1>2. hot \in Severities /\ cold \in Severities /\ severity \in Severities
  <2>1. hot \in Severities /\ cold \in Severities
    BY SeverityType DEF ConfOK
  <2> HIDE DEF hot, cold
  <2> QED BY <2>1
<1> HIDE DEF hot, cold, severity
<1>3. /\ DOMAIN x = StatusFields /\ x.severity = severity /\ x.prev_hot = hot
      /\ x.prev_cold = cold /\ x.age = 0 /\ x.prev_hint = old.prev_hint
      /\ x.pid = old.pid /\ x.hard = old.hard
  BY <1>1 DEF StatusFields
<1>4. /\ DOMAIN pid = DOMAIN old.pid
      /\ \A c \in DOMAIN pid : pid[c] \in Nat
      /\ severity = NONE /\ DOMAIN old.pid # {} =>
           \A c \in DOMAIN pid : AsksNothingCool(s, c) => pid[c] = 0
  <2>1. DOMAIN old.pid \subseteq DOMAIN Bound(s)
    BY <1>1 DEF PidCdevs
  <2>2. /\ DOMAIN pid = DOMAIN old.pid
        /\ \A c \in DOMAIN old.pid : pid[c] \in Nat
        /\ \A c \in DOMAIN old.pid :
             /\ power.budget = IntMax
             /\ PidCdevs(Bound(s)) # {}
             /\ target \in Numbers(Info(s).pid.S_Power)
             /\ Weight(Bound(s), c, target) # NaN /\ Weight(Bound(s), c, target) > 0
             => pid[c] = 0
    <3> HIDE DEF power, target
    <3> QED BY <1>1, <2>1, PowerStates DEF ConfOK
  <2>3. ASSUME severity = NONE, NEW c \in DOMAIN old.pid, AsksNothingCool(s, c)
        PROVE  pid[c] = 0
    <3>1. PidCdevs(Bound(s)) # {} /\ c \in PidCdevs(Bound(s))
      BY <1>1, <2>3
    <3>2. target \in Numbers(Info(s).pid.S_Power)
      BY <1>2, <3>1, TargetHasPower DEF ConfOK
    <3>3. power.budget = IntMax
      <4> HIDE DEF x, target
      <4> QED BY <1>3, <2>3, CoolBudget
    <3>4. Weight(Bound(s), c, target) # NaN /\ Weight(Bound(s), c, target) > 0
      <4> HIDE DEF target
      <4> QED BY <2>3, <3>1, <3>2 DEF AsksNothingCool, Weight
    <3> HIDE DEF pid, power, target
    <3> QED BY <2>2, <2>3, <3>1, <3>2, <3>3, <3>4
  <2> HIDE DEF pid, power, target
  <2> QED BY <2>2, <2>3
<1> HIDE DEF x, pid, power
<1>5. /\ DOMAIN y = StatusFields /\ y.severity = severity /\ y.prev_hot = hot
      /\ y.prev_cold = cold /\ y.age = 0 /\ y.prev_hint = old.prev_hint
      /\ y.hard = old.hard
      /\ y.pid = IF DOMAIN old.pid = {} THEN old.pid ELSE pid
  BY <1>1, <1>3 DEF StatusFields
<1> HIDE DEF y
<1>6. /\ DOMAIN z = StatusFields /\ z.severity = severity /\ z.prev_hot = hot
      /\ z.prev_cold = cold /\ z.age = 0 /\ z.prev_hint = old.prev_hint
      /\ z.hard = [c \in DOMAIN old.hard |-> Bound(s)[c].limit_info[severity]]
      /\ z.pid = IF DOMAIN old.pid = {} THEN old.pid ELSE pid
  BY <1>5 DEF StatusFields
<1>7. z = StatusAfter(s, old, value)
  BY DEF StatusAfter, hot, cold, severity, x, target, power, pid, y
<1> HIDE DEF z
<1>8. \A c \in LimitCdevs(Bound(s)) : Bound(s)[c].limit_info[severity] \in Nat
  BY <1>2 DEF ConfOK, BoundOK, LimitCdevs
<1>9. TimesAssumption /\ 0 \in Never..MaxAge
  BY TimesAssumption DEF Never
<1>10. StatusOK(z, s)
  BY <1>1, <1>2, <1>4, <1>6, <1>8, <1>9 DEF StatusOK
<1>11. ASSUME z.severity = NONE, NEW c \in Asked(s), AsksNothingCool(s, c)
       PROVE  /\ c \in DOMAIN z.pid => z.pid[c] = 0
              /\ c \in DOMAIN z.hard => z.hard[c] = 0
  <2>1. c \in DOMAIN z.hard => z.hard[c] = 0
    BY <1>6, <1>11 DEF AsksNothingCool
  <2>2. c \in DOMAIN z.pid => z.pid[c] = 0
    BY <1>4, <1>6, <1>11
  <2> QED BY <2>1, <2>2
<1> QED BY <1>6, <1>7, <1>10, <1>11

\* The fields of the callback so far.
VisitFields ==
    {"st", "request", "release", "cdevs", "rails", "temps", "failed", "sleep"}

\* The callback so far is in order, whatever sensors are left.
VisitOK(a) ==
    /\ DOMAIN a = VisitFields
    /\ DOMAIN a.st = Sensors
    /\ \A s \in Sensors : StatusOK(a.st[s], s) /\ a.st[s].prev_hint = st[s].prev_hint
    /\ DOMAIN a.release = Sensors
    /\ \A s \in Sensors :
          DOMAIN a.release[s] = {"step", "power"} /\ StepsOK(a.release[s].step, s)
    /\ RequestsOK(a.request)
    /\ CoolOK(a.st, a.request)
    /\ a.cdevs \subseteq Cdevs /\ a.failed \subseteq Sensors
    /\ \A c \in Cdevs \ a.cdevs : a.request[c] = request[c]
    /\ a.sleep \in Nat

\* The sleep voted for so far ends before s is due.
InTime(a, s) ==
    /\ a.st[s].age \in Nat
    /\ a.st[s].age + a.sleep <= SleepMs(Info(s), a.st[s].severity)

\* What a visit of s makes of the callback.
Visited(a, b, s) ==
    /\ VisitOK(b)
    /\ \A r \in Sensors \ {s} : b.st[r] = a.st[r]
    /\ a.failed \ {s} \subseteq b.failed
    /\ b.sleep <= a.sleep
    /\ Info(s).is_monitor /\ s \notin b.failed => InTime(b, s)
    /\ \/ b.temps = a.temps /\ b.st[s].severity = a.st[s].severity
       \/ b.temps = Append(a.temps, [name |-> s, severity |-> b.st[s].severity])

\* computeCoolingDevicesRequest for sensor s changes what s asks, to states the
\* devices have, and lists every device it changes.
LEMMA RequestsComputed ==
    ASSUME ConfOK, NEW s \in Sensors, NEW a, NEW x, StatusOK(x, s), DOMAIN a = VisitFields,
           RequestsOK(a.request), StepsOK(a.release[s].step, s)
    PROVE  LET b == ComputeRequests(a, s, x)
           IN  /\ DOMAIN b = VisitFields
               /\ \A f \in VisitFields \ {"request", "cdevs"} : b[f] = a[f]
               /\ RequestsOK(b.request)
               /\ a.cdevs \subseteq b.cdevs /\ b.cdevs \subseteq a.cdevs \cup Cdevs
               /\ \A c \in Cdevs \ b.cdevs : b.request[c] = a.request[c]
               /\ \A r \in Sensors \ {s} : \A c \in Asked(r) : b.request[c][r] = a.request[c][r]
               /\ \A c \in Asked(s) :
                    /\ c \in DOMAIN a.release[s].step => a.release[s].step[c] = 0
                    /\ c \in DOMAIN x.pid => x.pid[c] = 0
                    /\ c \in DOMAIN x.hard => x.hard[c] = 0
                    => b.request[c][s] = 0
<1> DEFINE Step(c) == IF c \in DOMAIN a.release[s].step THEN a.release[s].step[c] ELSE 0
           asks == [c \in DOMAIN x.pid \cup DOMAIN x.hard |-> RequestState(s, c, x, Step(c))]
           changed == {c \in DOMAIN asks : a.request[c][s] # asks[c]}
           requested == [c \in DOMAIN a.request |->
                           IF c \in changed THEN [a.request[c] EXCEPT ![s] = asks[c]]
                           ELSE a.request[c]]
           b == ComputeRequests(a, s, x)
<1>1. /\ DOMAIN b = VisitFields
      /\ \A f \in VisitFields \ {"request", "cdevs"} : b[f] = a[f]
      /\ b.request = requested /\ b.cdevs = a.cdevs \cup changed
  BY DEF ComputeRequests, VisitFields
<1>2. DOMAIN asks = Asked(s) /\ Asked(s) \subseteq DOMAIN Bound(s) /\ Asked(s) \subseteq Cdevs
  BY DEF StatusOK, Asked, ConfOK, BoundOK, PidCdevs, LimitCdevs
<1>3. ASSUME NEW c \in Asked(s)
      PROVE  /\ asks[c] \in 0..conf.cdev[c].max_state
             /\ /\ c \in DOMAIN a.release[s].step => a.release[s].step[c] = 0
                /\ c \in DOMAIN x.pid => x.pid[c] = 0
                /\ c \in DOMAIN x.hard => x.hard[c] = 0
                => asks[c] = 0
  <2>1. Step(c) \in Int
    BY <1>2 DEF StepsOK, ConfOK, BoundOK
  <2>2. asks[c] = RequestState(s, c, x, Step(c))
    BY <1>2
  <2>3. /\ c \in DOMAIN a.release[s].step => a.release[s].step[c] = 0
        => Step(c) = 0
    OBVIOUS
  <2>4. /\ x.severity \in Severities
        /\ c \in DOMAIN x.pid => x.pid[c] \in Nat
        /\ c \in DOMAIN x.hard => x.hard[c] \in Nat
    BY DEF StatusOK
  <2> HIDE DEF Step
  <2>5. /\ RequestState(s, c, x, Step(c)) \in 0..conf.cdev[c].max_state
        /\ /\ Step(c) = 0
           /\ c \in DOMAIN x.pid => x.pid[c] = 0
           /\ c \in DOMAIN x.hard => x.hard[c] = 0
           => RequestState(s, c, x, Step(c)) = 0
    BY <1>2, <2>1, <2>4, RequestedState DEF ConfOK
  <2> QED BY <2>2, <2>3, <2>5
<1> HIDE DEF asks, b
<1>4. changed \subseteq Asked(s)
  BY <1>2
<1>5. ASSUME NEW c \in Cdevs
      PROVE  /\ DOMAIN requested[c] = DOMAIN a.request[c]
             /\ \A r \in DOMAIN a.request[c] : r # s => requested[c][r] = a.request[c][r]
             /\ c \in Asked(s) => requested[c][s] = asks[c]
             /\ c \notin changed => requested[c] = a.request[c]
  BY <1>2 DEF RequestsOK
<1> HIDE DEF changed
<1>6. DOMAIN requested = Cdevs
  BY DEF RequestsOK
<1> HIDE DEF requested
<1>7. \A r \in Sensors : \A c \in Asked(r) : c \in Cdevs /\ r \in DOMAIN a.request[c]
  BY DEF RequestsOK, Asked, ConfOK, BoundOK, PidCdevs, LimitCdevs
<1>8. RequestsOK(b.request)
  <2>1. \A c \in Cdevs : DOMAIN requested[c] = {r \in Sensors : c \in Asked(r)}
    BY <1>5 DEF RequestsOK
  <2>2. ASSUME NEW r \in Sensors, NEW c \in Asked(r)
        PROVE  requested[c][r] \in 0..conf.cdev[c].max_state
    <3>1. CASE r = s
      BY <1>2, <1>3, <1>5, <3>1
    <3>2. CASE r # s
      BY <1>5, <1>7, <3>2 DEF RequestsOK
    <3> QED BY <3>1, <3>2
  <2> QED BY <1>1, <1>6, <2>1, <2>2 DEF RequestsOK
<1>9. \A r \in Sensors \ {s} : \A c \in Asked(r) : b.request[c][r] = a.request[c][r]
  BY <1>1, <1>5, <1>7
<1>10. \A c \in Cdevs \ b.cdevs : b.request[c] = a.request[c]
  BY <1>1, <1>5
<1>11. a.cdevs \subseteq b.cdevs /\ b.cdevs \subseteq a.cdevs \cup Cdevs
  BY <1>1, <1>2, <1>4
<1>12. \A c \in Asked(s) : b.request[c][s] = asks[c]
  BY <1>1, <1>2, <1>5
<1> QED BY <1>1, <1>3, <1>8, <1>9, <1>10, <1>11, <1>12 DEF b

\* A delay is a number.
LEMMA SleepType ==
    ASSUME SensorsOK, NEW s \in Sensors, NEW severity
    PROVE  SleepMs(Info(s), severity) \in Nat
BY DEF SensorsOK, SleepMs

\* A sensor that is read leaves the callback in order, with its vote on the sleep.
LEMMA SensorUpdated ==
    ASSUME ConfOK, NEW s \in Sensors, NEW a, VisitOK(a), NEW value, NEW outcome
    PROVE  Visited(a, Update(a, s, value, outcome), s)
<1> DEFINE old == a.st[s]
           x == StatusAfter(s, old, value)
           changed == x.severity # old.severity
           told_of == [a EXCEPT !.st[s] = x,
                                !.failed = @ \ {s},
                                !.sleep = Min({@, SleepMs(Info(s), x.severity)}),
                                !.temps = IF changed
                                          THEN Append(@, [name |-> s, severity |-> x.severity])
                                          ELSE @]
           power_data == [step |-> a.release[s].step, power |-> a.release[s].power,
                          rails |-> a.rails]
           next == IF x.severity = NONE THEN setPowerDataToDefault(power_data)
                   ELSE ReleaseUpdate(power_data, s, x.severity, SinceRead(old), changed, outcome)
           released == [told_of EXCEPT !.release[s] = [step |-> next.step, power |-> next.power],
                                       !.rails = next.rails]
           b == Update(a, s, value, outcome)
<1>1. b = IF DOMAIN x.pid \cup DOMAIN x.hard = {} THEN told_of
          ELSE ComputeRequests(released, s, x)
  BY DEF Update
<1>2. /\ StatusOK(x, s) /\ x.age = 0 /\ x.prev_hint = st[s].prev_hint
      /\ x.severity = NONE =>
           \A c \in Asked(s) : AsksNothingCool(s, c) =>
             /\ c \in DOMAIN x.pid => x.pid[c] = 0
             /\ c \in DOMAIN x.hard => x.hard[c] = 0
  <2>1. StatusOK(old, s) /\ old.prev_hint = st[s].prev_hint
    BY DEF VisitOK
  <2> HIDE DEF old
  <2> QED BY <2>1, StatusRead
<1> HIDE DEF x
<1>3. /\ SleepMs(Info(s), x.severity) \in Nat
      /\ Min({a.sleep, SleepMs(Info(s), x.severity)}) \in Nat
      /\ Min({a.sleep, SleepMs(Info(s), x.severity)}) <= a.sleep
      /\ Min({a.sleep, SleepMs(Info(s), x.severity)}) <= SleepMs(Info(s), x.severity)
  <2> DEFINE n == SleepMs(Info(s), x.severity)
  <2>1. n \in Nat /\ a.sleep \in Nat
    BY SleepType DEF VisitOK, ConfOK
  <2> HIDE DEF n
  <2> QED BY <2>1, OfTwo DEF n
<1>4. /\ DOMAIN told_of = VisitFields
      /\ told_of.st = [a.st EXCEPT ![s] = x]
      /\ told_of.failed = a.failed \ {s}
      /\ told_of.sleep = Min({a.sleep, SleepMs(Info(s), x.severity)})
      /\ told_of.temps = IF changed THEN Append(a.temps, [name |-> s, severity |-> x.severity])
                         ELSE a.temps
      /\ told_of.release = a.release /\ told_of.request = a.request
      /\ told_of.cdevs = a.cdevs
  BY DEF VisitOK, VisitFields
<1> HIDE DEF told_of
<1>5. /\ DOMAIN released = VisitFields
      /\ released.st = told_of.st /\ released.failed = told_of.failed
      /\ released.sleep = told_of.sleep /\ released.temps = told_of.temps
      /\ released.request = a.request /\ released.cdevs = a.cdevs
      /\ released.release = [a.release EXCEPT ![s] = [step |-> next.step, power |-> next.power]]
  BY <1>4 DEF VisitFields
<1> HIDE DEF released
<1>6. /\ StepsOK(next.step, s)
      /\ x.severity = NONE => \A c \in DOMAIN next.step : next.step[c] = 0
  <2>1. StepsOK(power_data.step, s)
    BY DEF VisitOK
  <2>2. CASE x.severity = NONE
    <3>1. next.step = [c \in DOMAIN power_data.step |-> 0]
      BY <2>2 DEF setPowerDataToDefault
    <3>2. \A c \in DOMAIN power_data.step : 0 \in -conf.cdev[c].max_state..conf.cdev[c].max_state
      BY <2>1 DEF ConfOK, BoundOK, StepsOK
    <3> HIDE DEF next, power_data
    <3> QED BY <2>1, <3>1, <3>2 DEF StepsOK
  <2>3. CASE x.severity # NONE
    <3>1. next = ReleaseUpdate(power_data, s, x.severity, SinceRead(old), changed, outcome)
      BY <2>3
    <3> HIDE DEF next, power_data, old, changed
    <3> QED BY <2>1, <2>3, <3>1, ReleasedUpdate DEF ConfOK
  <2> QED BY <2>2, <2>3
<1> HIDE DEF next
<1>7. /\ DOMAIN released.release = Sensors
      /\ \A r \in Sensors : DOMAIN released.release[r] = {"step", "power"}
                            /\ StepsOK(released.release[r].step, r)
      /\ released.release[s].step = next.step
  <2>1. \A r \in Sensors :
          released.release[r] = IF r = s THEN [step |-> next.step, power |-> next.power]
                                ELSE a.release[r]
    BY <1>5 DEF VisitOK
  <2> QED BY <1>5, <1>6, <2>1 DEF VisitOK
<1> DEFINE d == ComputeRequests(released, s, x)
<1>8. /\ DOMAIN d = VisitFields
      /\ \A f \in VisitFields \ {"request", "cdevs"} : d[f] = released[f]
      /\ RequestsOK(d.request)
      /\ a.cdevs \subseteq d.cdevs /\ d.cdevs \subseteq a.cdevs \cup Cdevs
      /\ \A c \in Cdevs \ d.cdevs : d.request[c] = a.request[c]
      /\ \A r \in Sensors \ {s} : \A c \in Asked(r) : d.request[c][r] = a.request[c][r]
      /\ \A c \in Asked(s) :
           /\ c \in DOMAIN next.step => next.step[c] = 0
           /\ c \in DOMAIN x.pid => x.pid[c] = 0
           /\ c \in DOMAIN x.hard => x.hard[c] = 0
           => d.request[c][s] = 0
  <2>1. RequestsOK(released.request) /\ StepsOK(released.release[s].step, s)
    BY <1>5, <1>7 DEF VisitOK
  <2> HIDE DEF d
  <2> QED BY <1>2, <1>5, <1>7, <2>1, RequestsComputed DEF d
<1> HIDE DEF d
<1>9. /\ DOMAIN b = VisitFields
      /\ b.st = [a.st EXCEPT ![s] = x]
      /\ b.failed = a.failed \ {s}
      /\ b.sleep = Min({a.sleep, SleepMs(Info(s), x.severity)})
      /\ b.temps = IF changed THEN Append(a.temps, [name |-> s, severity |-> x.severity])
                   ELSE a.temps
  <2>1. CASE b = told_of
    BY <1>4, <2>1
  <2>2. CASE b = d
    BY <1>4, <1>5, <1>8, <2>2 DEF VisitFields
  <2> QED BY <1>1, <2>1, <2>2 DEF d
<1>10. /\ DOMAIN b.release = Sensors
       /\ \A r \in Sensors : DOMAIN b.release[r] = {"step", "power"}
                             /\ StepsOK(b.release[r].step, r)
  <2>1. CASE b = told_of
    BY <1>4, <2>1 DEF VisitOK
  <2>2. CASE b = d
    BY <1>7, <1>8, <2>2 DEF VisitFields
  <2> QED BY <1>1, <2>1, <2>2 DEF d
<1>11. /\ RequestsOK(b.request)
       /\ a.cdevs \subseteq b.cdevs /\ b.cdevs \subseteq Cdevs
       /\ \A c \in Cdevs \ b.cdevs : b.request[c] = request[c]
       /\ \A r \in Sensors \ {s} : \A c \in Asked(r) : b.request[c][r] = a.request[c][r]
  <2>1. CASE b = told_of
    BY <1>4, <2>1 DEF VisitOK
  <2>2. CASE b = d
    BY <1>8, <2>2 DEF VisitOK
  <2> QED BY <1>1, <2>1, <2>2 DEF d
<1> HIDE DEF b
<1>12. /\ DOMAIN b.st = Sensors /\ b.st[s] = x /\ \A r \in Sensors \ {s} : b.st[r] = a.st[r]
  BY <1>9 DEF VisitOK
<1>13. CoolOK(b.st, b.request)
  <2> SUFFICES ASSUME NEW r \in Sensors, NEW c \in Asked(r),
                      b.st[r].severity = NONE, AsksNothingCool(r, c)
               PROVE  b.request[c][r] = 0
    BY DEF CoolOK
  <2>1. CASE r # s
    BY <1>11, <1>12, <2>1 DEF VisitOK, CoolOK
  <2>2. CASE r = s
    <3>1. DOMAIN x.pid \cup DOMAIN x.hard = Asked(s)
      BY <1>2 DEF StatusOK, Asked
    <3>2. b = d
      BY <1>1, <2>2, <3>1 DEF b, d
    <3> QED BY <1>2, <1>6, <1>8, <1>12, <2>2, <3>2
  <2> QED BY <2>1, <2>2
<1>14. VisitOK(b)
  <2>1. \A r \in Sensors : StatusOK(b.st[r], r) /\ b.st[r].prev_hint = st[r].prev_hint
    BY <1>2, <1>12 DEF VisitOK
  <2>2. b.failed \subseteq Sensors /\ b.sleep \in Nat
    BY <1>3, <1>9 DEF VisitOK
  <2> QED BY <1>9, <1>10, <1>11, <1>12, <1>13, <2>1, <2>2 DEF VisitOK
<1>15. InTime(b, s)
  BY <1>2, <1>3, <1>9, <1>12 DEF InTime
<1>16. \/ b.temps = a.temps /\ b.st[s].severity = a.st[s].severity
       \/ b.temps = Append(a.temps, [name |-> s, severity |-> b.st[s].severity])
  BY <1>9, <1>12
<1>17. b.sleep <= a.sleep /\ a.failed \ {s} \subseteq b.failed
  BY <1>3, <1>9
<1> QED BY <1>12, <1>14, <1>15, <1>16, <1>17 DEF Visited, b

\* So does every sensor, read or not (thermalWatcherCallbackFunc, the loop's body).
LEMMA SensorVisited ==
    ASSUME ConfOK, NEW s \in Sensors, NEW a, VisitOK(a),
           NEW uevent_sensors, NEW reading, NEW outcome
    PROVE  Visited(a, Visit(a, s, uevent_sensors, reading, outcome), s)
<1> DEFINE x == a.st[s]
           value == readTemperature(s, reading)
           left == SleepMs(Info(s), x.severity) - x.age
           slept == [a EXCEPT !.sleep = Min({@, left})]
           unread == [a EXCEPT !.failed = @ \cup {s}]
           b == Visit(a, s, uevent_sensors, reading, outcome)
<1>1. a.sleep \in Nat /\ DOMAIN a = VisitFields /\ StatusOK(x, s) /\ a.failed \subseteq Sensors
  BY DEF VisitOK
<1>2. CASE ~Info(s).is_monitor
  <2>1. b = a
    BY <1>2 DEF Visit
  <2> HIDE DEF b
  <2> QED BY <1>1, <1>2, <2>1 DEF Visited, b
<1>3. CASE Info(s).is_monitor /\ ~ForceUpdate(a.st, s, uevent_sensors)
  <2>1. b = slept
    BY <1>3 DEF Visit
  <2>2. x.age # Never /\ ~(x.age > SleepMs(Info(s), x.severity)) /\ x.age \in Never..MaxAge
    BY <1>1, <1>3 DEF ForceUpdate, StatusOK
  <2>3. x.age \in Nat /\ left \in Nat
    <3>1. SleepMs(Info(s), x.severity) \in Nat
      BY SleepType DEF ConfOK
    <3> HIDE DEF x
    <3> QED BY <2>2, <3>1, TimesAssumption DEF Never
  <2>4. Min({a.sleep, left}) \in Nat /\ Min({a.sleep, left}) <= left
        /\ Min({a.sleep, left}) <= a.sleep
    <3> HIDE DEF left
    <3> QED BY <1>1, <2>3, OfTwo
  <2>5. /\ DOMAIN slept = VisitFields /\ slept.sleep = Min({a.sleep, left})
        /\ \A f \in VisitFields \ {"sleep"} : slept[f] = a[f]
    BY <1>1 DEF VisitFields
  <2> HIDE DEF b, slept
  <2>6. VisitOK(b)
    BY <2>1, <2>4, <2>5 DEF VisitOK, VisitFields
  <2>7. b.st = a.st /\ b.failed = a.failed /\ b.temps = a.temps /\ b.sleep = Min({a.sleep, left})
    BY <2>1, <2>5 DEF VisitFields
  <2>8. InTime(b, s)
    <3>1. SleepMs(Info(s), x.severity) \in Nat
      BY SleepType DEF ConfOK
    <3> QED BY <2>3, <2>4, <2>7, <3>1 DEF InTime
  <2> QED BY <2>4, <2>6, <2>7, <2>8 DEF Visited, b
<1>4. CASE Info(s).is_monitor /\ ForceUpdate(a.st, s, uevent_sensors) /\ value = Unread
  <2>1. b = unread
    BY <1>4 DEF Visit
  <2>2. /\ DOMAIN unread = VisitFields /\ unread.failed = a.failed \cup {s}
        /\ \A f \in VisitFields \ {"failed"} : unread[f] = a[f]
    BY <1>1 DEF VisitFields
  <2> HIDE DEF b, unread
  <2>3. VisitOK(b)
    BY <1>1, <2>1, <2>2 DEF VisitOK, VisitFields
  <2>4. b.st = a.st /\ b.failed = a.failed \cup {s} /\ b.temps = a.temps /\ b.sleep = a.sleep
    BY <2>1, <2>2 DEF VisitFields
  <2> QED BY <1>1, <2>3, <2>4 DEF Visited, b
<1>5. CASE Info(s).is_monitor /\ ForceUpdate(a.st, s, uevent_sensors) /\ value # Unread
  <2>1. b = Update(a, s, value, outcome)
    BY <1>5 DEF Visit
  <2> HIDE DEF b
  <2> QED BY <2>1, SensorUpdated DEF b
<1> QED BY <1>2, <1>3, <1>4, <1>5

-----------------------------------------------------------------------------
(* All sensors of the callback.                                              *)

\* The first n sensors are visited.
Through(a, n) ==
    /\ VisitOK(a)
    /\ \A j \in (n + 1)..Cardinality(Sensors) : a.st[conf.order[j]] = st[conf.order[j]]
    /\ \A j \in 1..n : Info(conf.order[j]).is_monitor /\ conf.order[j] \notin a.failed
                       => InTime(a, conf.order[j])
    /\ ChangesOK(a.temps, a.st)
    /\ \A i \in DOMAIN a.temps : \E j \in 1..n : conf.order[j] = a.temps[i].name
    /\ \A s \in Sensors : a.st[s].severity # st[s].severity
                          => \E i \in DOMAIN a.temps : a.temps[i].name = s

\* A change told in addition is the last one.
LEMMA ChangeAppended ==
    ASSUME NEW t \in Seq(Changes), NEW e \in Changes
    PROVE  LET u == Append(t, e)
           IN  /\ u \in Seq(Changes)
               /\ DOMAIN t = 1..Len(t) /\ Len(t) \in Nat /\ DOMAIN u = 1..(Len(t) + 1)
               /\ \A j \in DOMAIN t : j \in DOMAIN u /\ j # Len(t) + 1 /\ u[j] = t[j]
               /\ u[Len(t) + 1] = e
               /\ \A j \in DOMAIN u : j \in DOMAIN t \/ j = Len(t) + 1
OBVIOUS

\* After one sensor more, the first n + 1 are visited: each has its vote, and each
\* change is told once.
LEMMA OneMore ==
    ASSUME ConfOK, NEW n \in Nat, n + 1 <= Cardinality(Sensors), NEW a, Through(a, n),
           NEW b, Visited(a, b, conf.order[n + 1])
    PROVE  Through(b, n + 1)
<1> DEFINE N == Cardinality(Sensors)
           s == conf.order[n + 1]
           e == [name |-> s, severity |-> b.st[s].severity]
           t == a.temps
           u == Append(t, e)
<1>1. N \in Nat /\ n + 1 \in 1..N
  BY FS_CardinalityType DEF ConfOK, SensorsOK
<1>2. s \in Sensors /\ \A j \in 1..N : conf.order[j] \in Sensors /\ (j # n + 1 => conf.order[j] # s)
  BY <1>1 DEF ConfOK, SensorsOK
<1> HIDE DEF N, s
<1>3. /\ VisitOK(b)
      /\ \A r \in Sensors \ {s} : b.st[r] = a.st[r]
      /\ a.failed \ {s} \subseteq b.failed
      /\ b.sleep <= a.sleep
      /\ Info(s).is_monitor /\ s \notin b.failed => InTime(b, s)
      /\ \/ b.temps = a.temps /\ b.st[s].severity = a.st[s].severity
         \/ b.temps = Append(a.temps, e)
  BY DEF Visited, s
<1>4. \A j \in (n + 2)..N : b.st[conf.order[j]] = st[conf.order[j]]
  BY <1>1, <1>2, <1>3 DEF Through, N
<1>5. ASSUME NEW j \in 1..(n + 1), Info(conf.order[j]).is_monitor, conf.order[j] \notin b.failed
      PROVE  InTime(b, conf.order[j])
  <2>1. CASE j = n + 1
    BY <1>3, <1>5, <2>1 DEF s
  <2>2. CASE j # n + 1
    <3> DEFINE r == conf.order[j]
    <3>1. j \in 1..n /\ r \in Sensors /\ r # s
      BY <1>1, <1>2, <2>2
    <3>2. r \notin a.failed
      BY <1>3, <1>5, <3>1
    <3>3. InTime(a, r)
      BY <1>5, <3>1, <3>2 DEF Through
    <3>4. SleepMs(Info(r), a.st[r].severity) \in Nat /\ a.sleep \in Nat /\ b.sleep \in Nat
      BY <1>3, <3>1, SleepType DEF Through, VisitOK, ConfOK
    <3>5. b.st[r] = a.st[r]
      BY <1>3, <3>1
    <3> HIDE DEF r
    <3>6. InTime(b, r)
      BY <1>3, <3>3, <3>4, <3>5 DEF InTime
    <3> QED BY <3>6 DEF r
  <2> QED BY <2>1, <2>2
<1>6. e \in Changes
  BY <1>2, <1>3 DEF Changes, VisitOK, StatusOK
<1>7. /\ t \in Seq(Changes)
      /\ \A j, k \in DOMAIN t : t[j].name = t[k].name => j = k
      /\ \A j \in DOMAIN t : t[j].severity = a.st[t[j].name].severity
      /\ \A j \in DOMAIN t : t[j].name # s /\ t[j].name \in Sensors
  <2>1. \A j \in 1..n : conf.order[j] # s
    BY <1>1, <1>2
  <2>2. \A j \in DOMAIN t : t[j] \in Changes
    BY DEF Through, ChangesOK
  <2> QED BY <2>1, <2>2 DEF Through, ChangesOK, Changes
<1>8. st[s].severity = a.st[s].severity
  BY <1>1 DEF Through, N, s
<1>9. CASE b.temps = t /\ b.st[s].severity = a.st[s].severity
  <2>1. ChangesOK(b.temps, b.st)
    BY <1>3, <1>7, <1>9 DEF ChangesOK
  <2>2. \A i \in DOMAIN b.temps : \E j \in 1..(n + 1) : conf.order[j] = b.temps[i].name
    BY <1>9 DEF Through
  <2>3. \A r \in Sensors : b.st[r].severity # st[r].severity
                           => \E i \in DOMAIN b.temps : b.temps[i].name = r
    BY <1>3, <1>8, <1>9 DEF Through
  <2> QED BY <1>3, <1>4, <1>5, <2>1, <2>2, <2>3 DEF Through, N
<1>10. CASE b.temps = u
  <2>1. /\ u \in Seq(Changes)
        /\ \A j \in DOMAIN t : j \in DOMAIN u /\ j # Len(t) + 1 /\ u[j] = t[j]
        /\ u[Len(t) + 1] = e /\ Len(t) + 1 \in DOMAIN u
        /\ \A j \in DOMAIN u : j \in DOMAIN t \/ j = Len(t) + 1
    BY <1>6, <1>7, ChangeAppended
  <2> HIDE DEF t, u
  <2>2. e.name = s /\ e.severity = b.st[s].severity
    OBVIOUS
  <2> HIDE DEF e
  <2>3. \A j, k \in DOMAIN u : u[j].name = u[k].name => j = k
    BY <1>7, <2>1, <2>2
  <2>4. \A j \in DOMAIN u : u[j].severity = b.st[u[j].name].severity
    BY <1>3, <1>7, <2>1, <2>2
  <2>5. ChangesOK(b.temps, b.st)
    BY <1>10, <2>1, <2>3, <2>4 DEF ChangesOK
  <2>6. ASSUME NEW i \in DOMAIN b.temps
        PROVE  \E j \in 1..(n + 1) : conf.order[j] = b.temps[i].name
    <3>1. CASE i \in DOMAIN t
      BY <1>10, <2>1, <3>1 DEF Through, t
    <3>2. CASE i = Len(t) + 1
      BY <1>10, <2>1, <2>2, <3>2 DEF s
    <3> QED BY <1>10, <2>1, <3>1, <3>2
  <2>7. ASSUME NEW r \in Sensors, b.st[r].severity # st[r].severity
        PROVE  \E i \in DOMAIN b.temps : b.temps[i].name = r
    <3>1. CASE r = s
      BY <1>10, <2>1, <2>2, <3>1
    <3>2. CASE r # s
      <4>1. PICK i \in DOMAIN t : t[i].name = r
        BY <1>3, <2>7, <3>2 DEF Through, t
      <4> QED BY <1>10, <2>1, <4>1
    <3> QED BY <3>1, <3>2
  <2> QED BY <1>3, <1>4, <1>5, <2>5, <2>6, <2>7 DEF Through, N
<1> QED BY <1>3, <1>9, <1>10

\* The loop visits every sensor, by induction over the order of the map.
LEMMA AllVisited ==
    ASSUME ConfOK, Through(Visiting, 0), NEW uevent_sensors, NEW reading, NEW outcome
    PROVE  Through(VisitAll(uevent_sensors, reading, outcome), Cardinality(Sensors))
<1> DEFINE L == Len(conf.order)
           Op(y, n) == Visit(y, conf.order[n], uevent_sensors, reading, outcome)
           UpTo(n, g) == [i \in 0..n |-> IF i = 0 THEN Visiting ELSE Op(g[i - 1], i)]
           After == CHOOSE f : f = UpTo(L, f)
<1>1. VisitAll(uevent_sensors, reading, outcome) = After[L]
  BY DEF VisitAll
<1>2. L \in Nat /\ L = Cardinality(Sensors) /\ \A n \in 1..L : conf.order[n] \in Sensors
  <2>1. Cardinality(Sensors) \in Nat /\ conf.order \in [1..Cardinality(Sensors) -> Sensors]
    BY FS_CardinalityType DEF ConfOK, SensorsOK
  <2> QED BY <2>1
<1> HIDE DEF L, Op
<1>3. \A n \in Nat : \E g : g = UpTo(n, g)
  <2> DEFINE S == {n \in Nat : \E g : g = UpTo(n, g)}
  <2>1. 0 \in S
    <3>1. [i \in 0..0 |-> Visiting] = UpTo(0, [i \in 0..0 |-> Visiting])
      OBVIOUS
    <3> QED BY <3>1
  <2>2. ASSUME NEW n \in Nat, n \in S PROVE n + 1 \in S
    <3>1. PICK g : g = UpTo(n, g)
      BY <2>2
    <3> DEFINE h == [i \in 0..(n + 1) |-> IF i = n + 1 THEN Op(g[n], n + 1) ELSE g[i]]
    <3>2. ASSUME NEW i \in 0..(n + 1)
          PROVE  h[i] = IF i = 0 THEN Visiting ELSE Op(h[i - 1], i)
      BY <3>1
    <3>3. h = [i \in 0..(n + 1) |-> h[i]]
      OBVIOUS
    <3> HIDE DEF h
    <3>4. h = UpTo(n + 1, h)
      BY <3>2, <3>3
    <3> QED BY <3>4
  <2> HIDE DEF S
  <2>3. Nat \subseteq S
    BY <2>1, <2>2, Induction
  <2> QED BY <2>3 DEF S
<1>4. After = UpTo(L, After)
  BY <1>2, <1>3
<1> HIDE DEF After
<1>5. \A n \in 0..L : After[n] = IF n = 0 THEN Visiting ELSE Op(After[n - 1], n)
  BY <1>4
<1> DEFINE T == {n \in Nat : n <= L => Through(After[n], n)}
<1>6. 0 \in T
  BY <1>2, <1>5
<1>7. ASSUME NEW n \in Nat, n \in T PROVE n + 1 \in T
  <2> SUFFICES ASSUME n + 1 <= L PROVE Through(After[n + 1], n + 1)
    OBVIOUS
  <2>1. Through(After[n], n) /\ conf.order[n + 1] \in Sensors
        /\ After[n + 1] = Op(After[n], n + 1)
    BY <1>2, <1>5, <1>7
  <2>2. VisitOK(After[n])
    BY <2>1 DEF Through
  <2>3. Visited(After[n], After[n + 1], conf.order[n + 1])
    BY <2>1, <2>2, SensorVisited DEF Op
  <2> QED BY <1>2, <2>1, <2>3, OneMore
<1> HIDE DEF T
<1>8. L \in T
  BY <1>2, <1>6, <1>7, Induction
<1> QED BY <1>1, <1>2, <1>8 DEF T

-----------------------------------------------------------------------------
(* The configuration.                                                        *)

\* A sensor of the map comes from an entry of the document that was accepted.
LEMMA ParsedSensor ==
    ASSUME NEW doc \in Docs, NEW s \in DOMAIN ParseSensorInfo(doc)
    PROVE  \E j \in DOMAIN doc.Sensors :
             /\ SensorOk(doc.Sensors[j])
             /\ ParseSensorInfo(doc)[s] = ParseSensor(doc.Sensors[j])
<1> DEFINE ds == doc.Sensors
           Accepted == DistinctNames(ds) /\ \A i \in DOMAIN ds : SensorOk(ds[i])
           j == CHOOSE i \in DOMAIN ds : ds[i].Name = s
<1>1. ParseSensorInfo(doc) = IF Accepted
                             THEN [n \in {ds[i].Name : i \in DOMAIN ds} |->
                                     ParseSensor(ds[CHOOSE i \in DOMAIN ds : ds[i].Name = n])]
                             ELSE [n \in {} |-> Absent]
  BY DEF ParseSensorInfo, ParseAll
<1> HIDE DEF ds
<1>2. Accepted /\ s \in {ds[i].Name : i \in DOMAIN ds}
  BY <1>1
<1>3. j \in DOMAIN ds /\ ParseSensorInfo(doc)[s] = ParseSensor(ds[j])
  BY <1>1, <1>2
<1> QED BY <1>2, <1>3 DEF ds

\* A binding that was accepted has a release logic if it has a power threshold, and
\* no weights if the sensor has no PIDInfo.
LEMMA ParsedBinded ==
    ASSUME NEW doc \in Docs, NEW s \in DOMAIN ParseSensorInfo(doc),
           NEW c \in DOMAIN ParseSensorInfo(doc)[s].binded
    PROVE  LET i == ParseSensorInfo(doc)[s]
           IN  /\ i.binded[c].release_logic \in ReleaseLogics \cup {"NONE"}
               /\ i.pid = Absent => Numbers(i.binded[c].cdev_weight_for_pid) = {}
<1>1. PICK n \in DOMAIN doc.Sensors :
             /\ SensorOk(doc.Sensors[n])
             /\ ParseSensorInfo(doc)[s] = ParseSensor(doc.Sensors[n])
  BY ParsedSensor
<1> DEFINE d == doc.Sensors[n]
           bs == d.BindedCdevInfo
           Same == {j \in DOMAIN bs : bs[j].CdevRequest = c}
           last == CHOOSE j \in DOMAIN bs :
                      /\ bs[j].CdevRequest = c
                      /\ \A k \in DOMAIN bs : bs[k].CdevRequest = c => k <= j
<1>2. Len(bs) \in Nat /\ DOMAIN bs = 1..Len(bs)
  BY DocsAssumption DEF Typed
<1>3. /\ c \in {bs[j].CdevRequest : j \in DOMAIN bs}
      /\ ParseSensorInfo(doc)[s].binded[c] = ParseBindedCdev(bs[last], d.PIDInfo # Absent)
      /\ ParseSensorInfo(doc)[s].pid = d.PIDInfo
  BY <1>1 DEF ParseSensor, BindedCdevInfoMap
<1> HIDE DEF d
<1>4. last \in DOMAIN bs
  <2>1. Same \subseteq Nat /\ Same # {} /\ \A y \in Same : y <= Len(bs)
    BY <1>2, <1>3
  <2> HIDE DEF Same
  <2>2. Max(Same) \in Same /\ \A y \in Same : Max(Same) >= y
    BY <1>2, <2>1, Greatest
  <2>3. \A y \in Same : y <= Max(Same)
    BY <2>1, <2>2
  <2> QED BY <2>2, <2>3 DEF Same
<1> HIDE DEF last
<1>5. BindedCdevOk(bs[last], d.PIDInfo # Absent)
  BY <1>1, <1>4 DEF SensorOk, d
<1>6. ParseSensorInfo(doc)[s].binded[c].release_logic \in ReleaseLogics \cup {"NONE"}
  BY <1>3, <1>5 DEF ParseBindedCdev, BindedCdevOk
<1>7. d.PIDInfo = Absent =>
        Numbers(ParseSensorInfo(doc)[s].binded[c].cdev_weight_for_pid) = {}
  BY <1>3 DEF ParseBindedCdev, Numbers, Filled
<1> QED BY <1>3, <1>6, <1>7

\* The constructor's maps are in order, for every document the code accepts.
LEMMA Configured ==
    ASSUME NEW doc \in Docs, NEW rails, NEW energy, NEW trip,
           NEW order \in SetToSeqs(DOMAIN ParseSensorInfo(doc)), NEW monitored,
           conf = [sensor |-> SensorInfoMap(ParseSensorInfo(doc), trip),
                   cdev |-> ParseCoolingDevice(doc), rail |-> rails,
                   bound |-> BoundCdevs(ParseSensorInfo(doc), rails, energy),
                   monitored |-> monitored, order |-> order]
    PROVE  ConfOK
<1> DEFINE parsed == ParseSensorInfo(doc)
           cdevs == ParseCoolingDevice(doc)
<1>1. /\ Usable(doc) /\ Typed(doc) /\ Budgeted(doc)
  BY DocsAssumption
<1>2. Sensors = DOMAIN parsed /\ Cdevs = DOMAIN cdevs /\ conf.order = order
      /\ conf.cdev = cdevs
  BY DEF Sensors, Cdevs, SensorInfoMap
<1>3. ASSUME NEW s \in Sensors
      PROVE  /\ Info(s).hot_thresholds = parsed[s].hot_thresholds
             /\ Info(s).cold_thresholds = parsed[s].cold_thresholds
             /\ Info(s).pid = parsed[s].pid
             /\ Info(s).polling_delay \in {parsed[s].polling_delay, kMinPollIntervalMs}
             /\ Info(s).passive_delay \in {parsed[s].passive_delay, kMinPollIntervalMs}
             /\ DOMAIN parsed[s].hot_thresholds = Severities
             /\ DOMAIN parsed[s].cold_thresholds = Severities
  <2>1. PICK n \in DOMAIN doc.Sensors :
             /\ SensorOk(doc.Sensors[n])
             /\ parsed[s] = ParseSensor(doc.Sensors[n])
    BY <1>2, ParsedSensor
  <2> DEFINE d == doc.Sensors[n]
  <2>2. DOMAIN parsed[s].hot_thresholds = Severities
    BY <2>1 DEF ParseSensor, SensorOk, ThresholdsOk, HasSize
  <2>3. DOMAIN parsed[s].cold_thresholds = Severities
    BY <2>1 DEF ParseSensor, SizedOr, HasSize, Filled
  <2>4. {"hot_thresholds", "cold_thresholds", "pid", "polling_delay", "passive_delay",
         "is_monitor"} \subseteq DOMAIN parsed[s]
    BY <2>1 DEF ParseSensor
  <2>5. \E m, slow :
          Info(s) = [parsed[s] EXCEPT !.is_monitor = m,
                       !.polling_delay = IF slow THEN @ ELSE kMinPollIntervalMs,
                       !.passive_delay = IF slow THEN @ ELSE kMinPollIntervalMs]
    BY <1>2 DEF Info, SensorInfoMap
  <2> HIDE DEF parsed
  <2> QED BY <2>2, <2>3, <2>4, <2>5
<1>4. ASSUME NEW s \in Sensors
      PROVE  Bound(s) = parsed[s].binded \/ DOMAIN Bound(s) = {}
  BY <1>2 DEF Bound, BoundCdevs
<1>5. ASSUME NEW s \in Sensors, PidCdevs(Bound(s)) # {}
      PROVE  parsed[s].pid # Absent /\ Bound(s) = parsed[s].binded
  <2>1. PICK c \in DOMAIN Bound(s) : Numbers(Bound(s)[c].cdev_weight_for_pid) # {}
    BY <1>5 DEF PidCdevs
  <2>2. Bound(s) = parsed[s].binded
    BY <1>4, <2>1
  <2> QED BY <1>2, <2>1, <2>2, ParsedBinded
<1> HIDE DEF parsed
<1>6. SensorsOK
  <2>1. IsFiniteSet(Sensors)
    BY <1>1, <1>2 DEF Typed, parsed
  <2>2. /\ conf.order \in [1..Cardinality(Sensors) -> Sensors]
        /\ \A j, k \in 1..Cardinality(Sensors) : conf.order[j] = conf.order[k] => j = k
    BY <1>2 DEF SetToSeqs, parsed
  <2>3. ASSUME NEW s \in Sensors
        PROVE  Info(s).polling_delay \in Nat /\ Info(s).passive_delay \in Nat
    <3>1. {parsed[s].polling_delay, parsed[s].passive_delay} \subseteq Nat
      BY <1>1, <1>2 DEF Typed, parsed
    <3> QED BY <1>3, <3>1, TimesAssumption
  <2>4. ASSUME NEW s \in Sensors, PidCdevs(Bound(s)) # {}
        PROVE  /\ Numbers(Info(s).pid.S_Power) \subseteq Severities
               /\ Numbers(Info(s).pid.S_Power) # {}
    <3>1. parsed[s].pid # Absent
      BY <1>5, <2>4
    <3>2. Numbers(parsed[s].pid.S_Power) \subseteq Numbers(parsed[s].hot_thresholds)
      BY <1>1, <1>2, <3>1 DEF Usable, parsed
    <3>3. PICK n \in DOMAIN doc.Sensors :
             /\ SensorOk(doc.Sensors[n])
             /\ parsed[s] = ParseSensor(doc.Sensors[n])
      BY <1>2, ParsedSensor DEF parsed
    <3>4. PIDInfoOk(parsed[s].pid)
      BY <3>1, <3>3 DEF ParseSensor, SensorOk
    <3> QED BY <1>3, <3>2, <3>4 DEF Numbers, PIDInfoOk
  <2> QED BY <1>3, <2>1, <2>2, <2>3, <2>4 DEF SensorsOK
<1>7. ASSUME NEW s \in Sensors, NEW c \in DOMAIN Bound(s)
      PROVE  /\ Bound(s) = parsed[s].binded
             /\ c \in Cdevs
             /\ conf.cdev[c].max_state \in Nat
             /\ Len(conf.cdev[c].state2power) \in Nat \ {0}
             /\ Bound(s)[c].release_logic \in ReleaseLogics \cup {"NONE"}
  <2>1. Bound(s) = parsed[s].binded
    BY <1>4
  <2>2. c \in DOMAIN cdevs /\ Len(cdevs[c].state2power) > 0
    BY <1>1, <1>2, <2>1 DEF Usable, parsed
  <2>3. cdevs[c].max_state \in Nat /\ Len(cdevs[c].state2power) \in Nat
    BY <1>1, <2>2 DEF Typed
  <2>4. Len(cdevs[c].state2power) \in Nat \ {0}
    BY <2>2, <2>3
  <2>5. Bound(s)[c].release_logic \in ReleaseLogics \cup {"NONE"}
    BY <1>2, <2>1, ParsedBinded DEF parsed
  <2> QED BY <1>2, <2>1, <2>2, <2>3, <2>4, <2>5
<1>8. ASSUME NEW s \in Sensors, NEW c \in DOMAIN Bound(s), NEW k \in Severities
      PROVE  /\ Bound(s)[c].limit_info[k] \in Nat
             /\ Bound(s)[c].cdev_floor[k] \in Nat
             /\ Bound(s)[c].cdev_ceiling[k] \in Nat
  BY <1>1, <1>2, <1>7 DEF Typed, parsed
<1>9. ASSUME NEW s \in Sensors, NEW c \in DOMAIN Bound(s), PidCdevs(Bound(s)) # {},
             NEW k \in Numbers(Info(s).pid.S_Power),
             Weight(Bound(s), c, k) # NaN, Weight(Bound(s), c, k) > 0
      PROVE  /\ TotalWeight(Bound(s), k) # 0
             /\ Len(conf.cdev[c].state2power) > 1 =>
                  IntMax * Weight(Bound(s), c, k)
                    > conf.cdev[c].state2power[1] * TotalWeight(Bound(s), k)
  <2>1. parsed[s].pid # Absent /\ Bound(s) = parsed[s].binded /\ Info(s).pid = parsed[s].pid
    BY <1>3, <1>5, <1>9
  <2> QED BY <1>1, <1>2, <1>9, <2>1 DEF Budgeted, parsed
<1>10. ASSUME NEW s \in Sensors PROVE IsFiniteSet(DOMAIN Bound(s))
  <2>1. CASE Bound(s) = parsed[s].binded
    BY <1>1, <1>2, <2>1 DEF Typed, parsed
  <2>2. CASE DOMAIN Bound(s) = {}
    BY <2>2, FS_EmptySet
  <2> QED BY <1>4, <2>1, <2>2
<1>11. BoundOK
  BY <1>7, <1>8, <1>9, <1>10 DEF BoundOK
<1> QED BY <1>6, <1>11 DEF ConfOK

-----------------------------------------------------------------------------
(* The invariant holds initially.                                            *)

\* The invariant holds after the constructor.
LEMMA Initially == Init => IInv
<1> SUFFICES ASSUME Init PROVE IInv
  OBVIOUS
<1>0. PICK doc \in Docs, energy \in {"found", "noSource", "noRail"} :
        \E trip \in [PhysicalSensors(doc) -> TripKinds],
           order \in SetToSeqs(DOMAIN ParseSensorInfo(doc)), left_over \in {NONE, 1} :
            Constructed(doc, energy, trip, order, left_over)
  BY DEF Init
<1>1. PICK trip \in [PhysicalSensors(doc) -> TripKinds],
           order \in SetToSeqs(DOMAIN ParseSensorInfo(doc)), left_over \in {NONE, 1} :
             Constructed(doc, energy, trip, order, left_over)
  BY <1>0
<1> DEFINE parsed == ParseSensorInfo(doc)
           rails == ParsePowerRailInfo(doc)
           cdevs == ParseCoolingDevice(doc)
           bound == BoundCdevs(parsed, rails, energy)
           sensors == SensorInfoMap(parsed, trip)
           monitored == MonitoredSensors(sensors, trip)
<1>2. ConfOK
  <2>1. conf = [sensor |-> sensors, cdev |-> cdevs, rail |-> rails, bound |-> bound,
                monitored |-> monitored, order |-> order]
    BY <1>1 DEF Constructed
  <2> HIDE DEF monitored, rails
  <2> QED BY <2>1, Configured
<1>3. /\ Sensors = DOMAIN parsed /\ Cdevs = DOMAIN cdevs
      /\ \A s \in Sensors : Bound(s) = bound[s]
      /\ conf.cdev = cdevs
  <2>1. conf = [sensor |-> sensors, cdev |-> cdevs, rail |-> rails, bound |-> bound,
                monitored |-> monitored, order |-> order]
    BY <1>1 DEF Constructed
  <2>2. DOMAIN sensors = DOMAIN parsed
    BY DEF SensorInfoMap
  <2> HIDE DEF monitored, sensors, rails, bound, cdevs, parsed
  <2> QED BY <2>1, <2>2 DEF Sensors, Cdevs, Bound
<1> HIDE DEF parsed, rails, cdevs, bound, sensors, monitored
<1>4. /\ st = [s \in Sensors |-> InitialStatus(Bound(s))]
      /\ request = [c \in Cdevs |-> [s \in {s \in Sensors : c \in Asked(s)} |-> 0]]
      /\ release = [s \in Sensors |-> InitialRelease(Bound(s), rails, energy)]
      /\ unsynced = Cdevs /\ failed = {}
  BY <1>1, <1>3 DEF Constructed, Asked, parsed, rails, cdevs, bound
<1>5. /\ watcher = [pc |-> "loop", sleep |-> 0, elapsed |-> 0, left |-> 0, sensors |-> {}]
      /\ temps = <<>>
      /\ hal = [exist |-> TRUE, alive |-> TRUE, modes |-> {}]
      /\ supported = [s \in {} |-> Filled(NONE)]
      /\ early = {}
      /\ callbacks = {}
      /\ told = [k \in Clients |-> [s \in Sensors |-> Unknown]]
  BY <1>1, <1>3 DEF Constructed, parsed
<1>6. ASSUME NEW s \in Sensors
      PROVE  /\ StatusOK(st[s], s) /\ st[s].severity = NONE /\ st[s].prev_hint = NONE
             /\ st[s].age = Never
  BY <1>4, SeveritiesAssumption, TimesAssumption
  DEF InitialStatus, StatusOK, StatusFields, Severities, NONE, Never
<1>7. ASSUME NEW s \in Sensors
      PROVE  DOMAIN release[s] = {"step", "power"} /\ StepsOK(release[s].step, s)
  <2>1. release[s] = InitialRelease(Bound(s), rails, energy)
    BY <1>4
  <2>2. \A c \in DOMAIN Bound(s) : 0 \in -conf.cdev[c].max_state..conf.cdev[c].max_state
    BY <1>2 DEF ConfOK, BoundOK
  <2> DEFINE L == IF energy = "found" THEN Linked(Bound(s), rails) ELSE {}
  <2>3. L \subseteq DOMAIN Bound(s) /\ release[s].step = [c \in L |-> 0]
    BY <2>1 DEF InitialRelease, Linked
  <2>4. DOMAIN release[s] = {"step", "power"}
    BY <2>1 DEF InitialRelease
  <2> HIDE DEF L
  <2> QED BY <2>2, <2>3, <2>4 DEF StepsOK
<1>8. RequestsOK(request) /\ CoolOK(st, request)
  <2>1. \A s \in Sensors : \A c \in Asked(s) : c \in Cdevs /\ conf.cdev[c].max_state \in Nat
    BY <1>2 DEF ConfOK, BoundOK, Asked, PidCdevs, LimitCdevs
  <2> QED BY <1>4, <2>1 DEF RequestsOK, CoolOK
<1>9. SensingOK
  BY <1>4, <1>6, <1>7, <1>8 DEF SensingOK
<1>10. WatcherOK /\ AgesOK
  BY <1>5, <1>6, TimesAssumption DEF WatcherOK, AgesOK
<1>11. TempsOK
  BY <1>5 DEF TempsOK, ChangesOK
<1>12. ToldOK
  BY <1>5 DEF ToldOK, ClientsTold
<1>13. HintsOK
  <2>1. \A s \in Sensors : {k \in Severities : <<s, k>> \in hal.modes} = {st[s].prev_hint} \ {NONE}
    BY <1>5, <1>6
  <2>2. DOMAIN supported = {}
    BY <1>5
  <2>3. HintsAgree
    BY <2>1, <2>2 DEF HintsAgree
  <2> QED BY <1>5, <1>6, <2>2, <2>3 DEF HintsOK, Severity
<1> QED BY <1>2, <1>9, <1>10, <1>11, <1>12, <1>13 DEF IInv

-----------------------------------------------------------------------------
(* Every step keeps it.                                                      *)

\* What depends on the configuration only stays as it is: nothing changes it.
LEMMA ConfKept ==
    ASSUME UNCHANGED conf
    PROVE  /\ Sensors' = Sensors /\ Cdevs' = Cdevs
           /\ \A s : Info(s)' = Info(s) /\ Bound(s)' = Bound(s) /\ Asked(s)' = Asked(s)
           /\ ConfOK => ConfOK'
           /\ \A s, c : AsksNothingCool(s, c)' = AsksNothingCool(s, c)
<1>1. /\ Sensors' = Sensors /\ Cdevs' = Cdevs
      /\ \A s : Info(s)' = Info(s) /\ Bound(s)' = Bound(s) /\ Asked(s)' = Asked(s)
  BY DEF Sensors, Cdevs, Info, Bound, Asked
<1>2. SensorsOK => SensorsOK'
  BY DEF SensorsOK, Sensors, Info, Bound
<1>3. ASSUME BoundOK PROVE BoundOK'
  <2>1. ASSUME NEW s \in Sensors, NEW c \in DOMAIN Bound(s)
        PROVE  (/\ c \in Cdevs
                /\ conf.cdev[c].max_state \in Nat
                /\ Len(conf.cdev[c].state2power) \in Nat \ {0}
                /\ Bound(s)[c].release_logic \in ReleaseLogics \cup {"NONE"}
                /\ \A k \in Severities :
                     /\ Bound(s)[c].limit_info[k] \in Nat
                     /\ Bound(s)[c].cdev_floor[k] \in Nat
                     /\ Bound(s)[c].cdev_ceiling[k] \in Nat)'
    BY <1>3 DEF BoundOK, Cdevs, Bound
  <2>2. ASSUME NEW s \in Sensors, NEW c \in DOMAIN Bound(s), PidCdevs(Bound(s)) # {},
               NEW k \in Numbers(Info(s).pid.S_Power),
               Weight(Bound(s), c, k) # NaN /\ Weight(Bound(s), c, k) > 0
        PROVE  (/\ TotalWeight(Bound(s), k) # 0
                /\ Len(conf.cdev[c].state2power) > 1 =>
                     IntMax * Weight(Bound(s), c, k)
                       > conf.cdev[c].state2power[1] * TotalWeight(Bound(s), k))'
    BY <1>3, <2>2 DEF BoundOK, Bound
  <2>3. \A s \in Sensors : IsFiniteSet(DOMAIN Bound(s)')
    BY <1>1, <1>3 DEF BoundOK
  <2> QED BY <1>1, <2>1, <2>2, <2>3 DEF BoundOK
<1>4. \A s, c : AsksNothingCool(s, c)' = AsksNothingCool(s, c)
  BY DEF AsksNothingCool, Info, Bound
<1> QED BY <1>1, <1>2, <1>3, <1>4 DEF ConfOK

\* What a part of the invariant says is kept when its variables are.
LEMMA SensingKept ==
    ASSUME SensingOK, UNCHANGED <<conf, sensing>>
    PROVE  SensingOK'
BY DEF SensingOK, sensing, StatusOK, StepsOK, RequestsOK, CoolOK, MaxState, Asked,
       Sensors, Cdevs, Info, Bound, AsksNothingCool

\* The clients know what they knew while no severity changes.
LEMMA ToldKept ==
    ASSUME ToldOK, UNCHANGED <<conf, temps, framework>>,
           \A s \in Sensors : st'[s].severity = st[s].severity
    PROVE  ToldOK'
BY DEF ToldOK, framework, ClientsTold, Hears, Listens, Pending, Severity, Sensors, Info

\* The hints are what they were while no severity and no hint changes.
LEMMA HintsKept ==
    ASSUME HintsOK, UNCHANGED <<conf, telling, supported>>,
           \A s \in Sensors : st'[s].severity = st[s].severity /\ st'[s].prev_hint = st[s].prev_hint
    PROVE  HintsOK'
BY DEF HintsOK, telling, HintsAgree, Pending, Severity, Sensors, Info

\* The pending changes are what they were while no severity changes.
LEMMA TempsKept ==
    ASSUME TempsOK, UNCHANGED <<conf, temps>>, temps # <<>> => watcher'.pc = "tell",
           \A s \in Sensors : st'[s].severity = st[s].severity
    PROVE  TempsOK'
<1>1. \A j \in DOMAIN temps : temps[j] \in Changes
  BY DEF TempsOK, ChangesOK
<1>2. \A j \in DOMAIN temps : temps[j].name \in Sensors
  BY <1>1 DEF Changes
<1>3. Changes' = Changes
  BY DEF Changes, Sensors
<1> QED BY <1>2, <1>3 DEF TempsOK, ChangesOK

\* A step of the watcher's thread alone has to keep its sleep in time.
LEMMA WatcherStep ==
    ASSUME IInv, UNCHANGED <<conf, sensing, telling, supported, framework>>,
           WatcherOK', AgesOK', temps # <<>> => watcher'.pc = "tell"
    PROVE  IInv'
<1>1. UNCHANGED <<conf, st, temps, telling, sensing, framework, supported>>
  BY DEF sensing, telling
<1>2. ConfOK'
  BY <1>1, ConfKept DEF IInv
<1>3. SensingOK'
  BY <1>1, SensingKept DEF IInv
<1>4. TempsOK'
  BY <1>1, TempsKept DEF IInv
<1>5. ToldOK'
  BY <1>1, ToldKept DEF IInv
<1>6. HintsOK'
  BY <1>1, HintsKept DEF IInv
<1> QED BY <1>2, <1>3, <1>4, <1>5, <1>6 DEF IInv

\* A step of the others leaves the sensors and the watcher alone.
LEMMA OtherStep ==
    ASSUME IInv, UNCHANGED <<conf, sensing, watcher, temps>>, ToldOK', HintsOK'
    PROVE  IInv'
<1>1. UNCHANGED <<conf, st, temps, failed, sensing, watcher>>
  BY DEF sensing
<1>2. ConfOK'
  BY <1>1, ConfKept DEF IInv
<1>3. SensingOK'
  BY <1>1, SensingKept DEF IInv
<1>4. TempsOK'
  BY <1>1, TempsKept DEF IInv, TempsOK
<1>5. WatcherOK' /\ AgesOK'
  BY <1>1 DEF IInv, WatcherOK, AgesOK, Delay, Sensors, Info
<1> QED BY <1>2, <1>3, <1>4, <1>5 DEF IInv

\* threadLoop polls for the whole sleep while some of it is left.
LEMMA ThreadLoopKeeps == IInv /\ ThreadLoop => IInv'
<1> SUFFICES ASSUME IInv, ThreadLoop PROVE IInv'
  OBVIOUS
<1>1. /\ watcher.pc = "loop"
      /\ watcher' = IF watcher.elapsed < watcher.sleep
                    THEN [watcher EXCEPT !.pc = "poll", !.left = watcher.sleep]
                    ELSE [watcher EXCEPT !.pc = "callback", !.sensors = {}]
      /\ UNCHANGED <<conf, sensing, telling, supported, framework>>
  BY DEF ThreadLoop
<1>2. WatcherOK /\ AgesOK /\ TempsOK
  BY DEF IInv
<1>3. WatcherOK'
  BY <1>1, <1>2 DEF WatcherOK
<1>4. watcher'.sleep = watcher.sleep /\ watcher'.elapsed = watcher.elapsed
      /\ (watcher.sleep = 0 => watcher'.pc = "callback")
  BY <1>1, <1>2 DEF WatcherOK
<1>5. AgesOK'
  BY <1>1, <1>2, <1>4 DEF AgesOK, Delay, Sensors, Info, sensing
<1> QED BY <1>1, <1>2, <1>3, <1>5, WatcherStep DEF TempsOK

\* Events and the timeout end the poll; the sleep is what it was.
LEMMA PollKeeps == IInv /\ (PollTimeout \/ PollEvent) => IInv'
<1> SUFFICES ASSUME IInv, PollTimeout \/ PollEvent PROVE IInv'
  OBVIOUS
<1>1. /\ watcher.pc = "poll"
      /\ \E S \in SUBSET conf.monitored :
           watcher' \in {[watcher EXCEPT !.pc = "loop"],
                         [watcher EXCEPT !.pc = "callback", !.sensors = S]}
      /\ UNCHANGED <<conf, sensing, telling, supported, framework>>
  BY DEF PollTimeout, PollEvent
<1>2. WatcherOK /\ AgesOK /\ TempsOK
  BY DEF IInv
<1>3. WatcherOK'
  BY <1>1, <1>2 DEF WatcherOK
<1>4. watcher'.sleep = watcher.sleep /\ watcher'.elapsed = watcher.elapsed
  BY <1>1, <1>2 DEF WatcherOK
<1>5. AgesOK'
  BY <1>1, <1>2, <1>4 DEF AgesOK, Delay, Sensors, Info, sensing
<1> QED BY <1>1, <1>2, <1>3, <1>5, WatcherStep DEF TempsOK

\* The callback returns when everything is told.
LEMMA CallbackDoneKeeps == IInv /\ CallbackDone => IInv'
<1> SUFFICES ASSUME IInv, CallbackDone PROVE IInv'
  OBVIOUS
<1>1. /\ watcher.pc = "tell" /\ temps = <<>>
      /\ watcher' = [watcher EXCEPT !.pc = "loop"]
      /\ UNCHANGED <<conf, sensing, telling, supported, framework>>
  BY DEF CallbackDone
<1>2. WatcherOK /\ AgesOK
  BY DEF IInv
<1>3. WatcherOK'
  BY <1>1, <1>2 DEF WatcherOK
<1>4. watcher'.sleep = watcher.sleep /\ watcher'.elapsed = watcher.elapsed
  BY <1>1, <1>2 DEF WatcherOK
<1>5. AgesOK'
  BY <1>1, <1>2, <1>4 DEF AgesOK, Delay, Sensors, Info, sensing
<1> QED BY <1>1, <1>3, <1>5, WatcherStep

\* Time passes for the readings and the sleep alike.
LEMMA TickKeeps == IInv /\ Tick => IInv'
<1> SUFFICES ASSUME IInv, Tick PROVE IInv'
  OBVIOUS
<1>1. /\ watcher.pc = "poll" /\ watcher.left # 0
      /\ st' = [s \in Sensors |-> [st[s] EXCEPT !.age = Older(@)]]
      /\ watcher' = [watcher EXCEPT !.elapsed = Older(@),
                                    !.left = IF @ = Forever THEN @ ELSE @ - 1]
      /\ UNCHANGED <<conf, request, release, written, unsynced, failed, telling, supported,
                     framework>>
  BY DEF Tick
<1>2. ConfOK /\ SensingOK /\ WatcherOK /\ AgesOK /\ TempsOK /\ ToldOK /\ HintsOK
  BY DEF IInv
<1>3. Sensors' = Sensors /\ UNCHANGED <<conf, temps, telling, framework, supported>>
  BY <1>1 DEF Sensors, telling
<1>4. ASSUME NEW s \in Sensors
      PROVE  /\ st'[s].severity = st[s].severity /\ st'[s].prev_hint = st[s].prev_hint
             /\ st'[s].age = Older(st[s].age)
             /\ StatusOK(st'[s], s)
  <2>1. StatusOK(st[s], s)
    BY <1>2 DEF SensingOK
  <2>2. Older(st[s].age) \in Never..MaxAge
    BY <2>1, TimesAssumption DEF StatusOK, Older, Never
  <2>3. st'[s] = [st[s] EXCEPT !.age = Older(@)]
    BY <1>1
  <2> QED BY <2>1, <2>2, <2>3 DEF StatusOK, StatusFields
<1>5. ConfOK'
  BY <1>2, <1>3, ConfKept
<1>6. SensingOK'
  <2>1. DOMAIN st' = Sensors /\ \A s \in Sensors : StatusOK(st[s], s)'
    BY <1>1, <1>3, <1>4 DEF StatusOK, Bound
  <2>2. RequestsOK(request)'
    BY <1>1, <1>2, <1>3 DEF SensingOK, RequestsOK, Asked, Bound, Cdevs
  <2>3. CoolOK(st, request)'
    <3>1. \A s : Asked(s)' = Asked(s) /\ \A c : AsksNothingCool(s, c)' = AsksNothingCool(s, c)
      BY <1>3, ConfKept
    <3>2. UNCHANGED request
      BY <1>1
    <3> QED BY <1>2, <1>3, <1>4, <3>1, <3>2 DEF SensingOK, CoolOK
  <2> QED BY <1>1, <1>2, <1>3, <2>1, <2>2, <2>3 DEF SensingOK, StepsOK, Cdevs, Bound, MaxState
<1>7. /\ watcher'.pc = "poll" /\ watcher'.sleep = watcher.sleep
      /\ watcher'.sensors = watcher.sensors /\ DOMAIN watcher' = DOMAIN watcher
      /\ watcher'.elapsed = Older(watcher.elapsed)
      /\ watcher'.left = IF watcher.left = Forever THEN watcher.left ELSE watcher.left - 1
  BY <1>1, <1>2 DEF WatcherOK
<1>8. /\ watcher.elapsed \in 0..MaxAge
      /\ Older(watcher.elapsed) \in 0..MaxAge
      /\ Older(watcher.elapsed) \in {watcher.elapsed, watcher.elapsed + 1}
  BY <1>2, TimesAssumption DEF WatcherOK, Older, Never
<1>9. WatcherOK'
  BY <1>1, <1>2, <1>7, <1>8, TimesAssumption DEF WatcherOK
<1>10. AgesOK'
  <2> SUFFICES ASSUME NEW s \in Sensors \ failed, Info(s).is_monitor
               PROVE  /\ st'[s].age # Never
                      /\ watcher'.elapsed <= st'[s].age
                      /\ st'[s].age + watcher'.sleep
                           <= SleepMs(Info(s), st[s].severity) + kMinPollIntervalMs
                                + watcher'.elapsed
    BY <1>1, <1>3, <1>4 DEF AgesOK, Delay, Info
  <2> DEFINE d == SleepMs(Info(s), st[s].severity)
             age == st[s].age
             w == watcher.elapsed
             k == kMinPollIntervalMs
             n == watcher.sleep
  <2>1. /\ age # Never /\ w <= age /\ age + n <= d + k + w
        /\ age \in Never..MaxAge /\ d \in Nat /\ n \in Nat
    BY <1>1, <1>2, SleepType DEF AgesOK, Delay, SensingOK, StatusOK, WatcherOK, ConfOK
  <2>2. st'[s].age = Older(age) /\ watcher'.elapsed = Older(w) /\ watcher'.sleep = n
    BY <1>4, <1>7
  <2> HIDE DEF d, age, w, n, k
  <2>3. w \in 0..MaxAge /\ k \in Nat
    BY <1>8, TimesAssumption DEF w, k
  <2>4. Older(age) # Never /\ Older(w) <= Older(age) /\ Older(age) + n <= d + k + Older(w)
    BY <2>1, <2>3, TimesAssumption DEF Older, Never
  <2> QED BY <2>2, <2>4 DEF d, k
<1>11. TempsOK'
  <2>1. temps = <<>>
    BY <1>1, <1>2 DEF TempsOK
  <2> QED BY <1>2, <1>3, <1>4, <2>1, TempsKept
<1>12. ToldOK'
  BY <1>2, <1>3, <1>4, ToldKept
<1>13. HintsOK'
  BY <1>2, <1>3, <1>4, HintsKept
<1> QED BY <1>5, <1>6, <1>9, <1>10, <1>11, <1>12, <1>13 DEF IInv

\* A dead power HAL holds no hints.
LEMMA PowerHalDiesKeeps == IInv /\ PowerHalDies => IInv'
<1> SUFFICES ASSUME IInv, PowerHalDies PROVE IInv'
  OBVIOUS
<1>1. /\ hal' = [hal EXCEPT !.alive = FALSE, !.modes = {}]
      /\ UNCHANGED <<conf, sensing, watcher, temps, early, supported, framework>>
  BY DEF PowerHalDies
<1>2. UNCHANGED <<conf, sensing, watcher, temps, framework, st>>
  BY <1>1 DEF sensing
<1>3. ToldOK'
  BY <1>2, ToldKept DEF IInv
<1>4. HintsOK'
  <2>1. HintsOK
    BY DEF IInv
  <2>2. /\ DOMAIN hal' = {"exist", "alive", "modes"} /\ hal'.exist = hal.exist
        /\ hal'.alive = FALSE /\ hal'.modes = {}
    BY <1>1, <2>1 DEF HintsOK
  <2> QED BY <1>1, <2>1, <2>2 DEF HintsOK, HintsAgree, Sensors
<1> QED BY <1>2, <1>3, <1>4, OtherStep

\* A row is filled with supported hints, for a sensor that was never told of or is
\* counted as early.
LEMMA UpdateSupportedPowerHintsKeeps == IInv /\ UpdateSupportedPowerHints => IInv'
<1> SUFFICES ASSUME IInv, UpdateSupportedPowerHints PROVE IInv'
  OBVIOUS
<1>1. PICK s \in {r \in Sensors : Info(r).send_powerhint} \ DOMAIN supported :
        LET known == IF hal.exist /\ hal.alive
                     THEN {k \in Severities : <<s, k>> \in SupportedModes} ELSE {}
        IN  /\ supported' = [r \in DOMAIN supported \cup {s} |->
                                IF r = s
                                THEN [k \in Severities |-> Highest({j \in known : j <= k})]
                                ELSE supported[r]]
            /\ hal' = [hal EXCEPT !.exist = @ /\ hal.alive]
            /\ UNCHANGED <<conf, sensing, watcher, temps, early, framework>>
  BY DEF UpdateSupportedPowerHints
<1> DEFINE known == IF hal.exist /\ hal.alive
                    THEN {k \in Severities : <<s, k>> \in SupportedModes} ELSE {}
           row == [k \in Severities |-> Highest({j \in known : j <= k})]
<1>2. UNCHANGED <<conf, sensing, watcher, temps, framework, st, early>>
  BY <1>1 DEF sensing
<1>3. HintsOK
  BY DEF IInv
<1>4. ASSUME NEW k \in Severities
      PROVE  row[k] \in Severities /\ (row[k] # NONE => <<s, row[k]>> \in SupportedModes)
  <2> DEFINE S == {j \in known : j <= k}
  <2>1. S \in SUBSET Severities /\ \A j \in S : <<s, j>> \in SupportedModes
    OBVIOUS
  <2>2. row[k] = Highest(S)
    OBVIOUS
  <2> HIDE DEF S, row
  <2>3. Highest(S) \in Severities /\ (S # {} => Highest(S) \in S)
    BY <2>1, HighestOfSeverities
  <2>4. S = {} => Highest(S) = NONE
    BY DEF Highest
  <2> QED BY <2>1, <2>2, <2>3, <2>4
<1>5. /\ DOMAIN supported' = DOMAIN supported \cup {s}
      /\ \A r \in DOMAIN supported \cup {s} : supported'[r] = IF r = s THEN row ELSE supported[r]
  BY <1>1
<1> HIDE DEF row
<1>6. /\ DOMAIN hal' = {"exist", "alive", "modes"} /\ hal'.exist = (hal.exist /\ hal.alive)
      /\ hal'.alive = hal.alive /\ hal'.modes = hal.modes
  BY <1>1, <1>3 DEF HintsOK
<1>7. ToldOK'
  BY <1>2, ToldKept DEF IInv
<1>8. HintsAgree'
  <2> SUFFICES ASSUME hal.alive, hal.exist, NEW r \in Sensors
               PROVE  /\ {k \in Severities : <<r, k>> \in hal.modes} = {st[r].prev_hint} \ {NONE}
                      /\ (/\ Info(r).send_powerhint /\ r \in DOMAIN supported'
                          /\ r \notin early /\ ~Pending(r) /\ Severity(r) # NONE)
                         => st[r].prev_hint = supported'[r][Severity(r)]
    BY <1>2, <1>6 DEF HintsAgree, Sensors, Info, Pending, Severity
  <2>1. r # s => (r \in DOMAIN supported' => r \in DOMAIN supported /\ supported'[r] = supported[r])
    BY <1>5
  <2>2. CASE r # s
    BY <1>3, <2>1, <2>2 DEF HintsOK, HintsAgree
  <2>3. CASE r = s
    BY <1>1, <1>3, <2>3 DEF HintsOK, HintsAgree
  <2> QED BY <2>2, <2>3
<1>9. HintsOK'
  <2>1. DOMAIN supported' \subseteq Sensors
    BY <1>3, <1>5 DEF HintsOK
  <2>2. \A r \in DOMAIN supported', k \in Severities :
           /\ supported'[r][k] \in Severities
           /\ supported'[r][k] # NONE => <<r, supported'[r][k]>> \in SupportedModes
    BY <1>3, <1>4, <1>5 DEF HintsOK
  <2>3. hal.alive /\ hal.exist =>
          \A r \in Sensors \ (DOMAIN supported' \cup early) :
             Info(r).send_powerhint /\ ~Pending(r) => Severity(r) = NONE
    BY <1>3, <1>5 DEF HintsOK
  <2>4. hal'.exist \in BOOLEAN /\ hal'.alive \in BOOLEAN
    BY <1>3, <1>6 DEF HintsOK
  <2> QED BY <1>2, <1>3, <1>6, <1>8, <2>1, <2>2, <2>3, <2>4
      DEF HintsOK, Sensors, Info, Pending, Severity
<1> QED BY <1>2, <1>7, <1>9, OtherStep

\* Clients that register, unregister or die leave the others as they were.
LEMMA ClientsKeep ==
    IInv /\ (\/ registerThermalChangedCallback \/ unregisterThermalChangedCallback
             \/ ClientDies) => IInv'
<1> SUFFICES ASSUME IInv,
                    \/ registerThermalChangedCallback \/ unregisterThermalChangedCallback
                    \/ ClientDies
             PROVE  IInv'
  OBVIOUS
<1>1. UNCHANGED <<conf, sensing, watcher, telling, supported>>
  BY DEF registerThermalChangedCallback, unregisterThermalChangedCallback, ClientDies
<1>2. UNCHANGED <<conf, sensing, watcher, temps, st, telling, supported>>
  BY <1>1 DEF sensing, telling
<1>3. HintsOK'
  BY <1>2, HintsKept DEF IInv
<1>4. ToldOK
  BY DEF IInv
<1>5. SUFFICES ToldOK'
  BY <1>2, <1>3, OtherStep
<1>6. SUFFICES
        /\ \A c \in callbacks' : DOMAIN c = CallbackFields /\ c.client \in Clients
        /\ \E k \in Clients :
             /\ told' = [told EXCEPT ![k] = [s \in Sensors |-> Unknown]]
             /\ \A c \in callbacks : c.client # k /\ c.alive => c \in callbacks'
  <2> SUFFICES ASSUME \A c \in callbacks' : DOMAIN c = CallbackFields /\ c.client \in Clients,
                      NEW n \in Clients,
                      told' = [told EXCEPT ![n] = [s \in Sensors |-> Unknown]],
                      \A c \in callbacks : c.client # n /\ c.alive => c \in callbacks'
               PROVE  ToldOK'
    OBVIOUS
  <2>1. told' \in [Clients -> [Sensors -> Severities \cup {Unknown}]]
    BY <1>4 DEF ToldOK
  <2>2. \A k \in Clients, s \in Sensors :
          told'[k][s] = IF k = n THEN Unknown ELSE told[k][s]
    BY <1>4 DEF ToldOK
  <2>3. \A k \in Clients, s \in Sensors : k # n /\ Hears(k, s) => Hears(k, s)'
    BY <1>2 DEF Hears, Listens, Info
  <2>4. \A k \in Clients, s \in Sensors :
          told'[k][s] # Unknown => Info(s).send_cb /\ Hears(k, s)'
    BY <1>4, <2>2, <2>3 DEF ToldOK
  <2>5. \A k \in Clients, s \in Sensors :
          ~Pending(s) => told'[k][s] \in {Unknown, Severity(s)}
    BY <1>4, <2>2 DEF ToldOK, ClientsTold
  <2> QED BY <1>2, <2>1, <2>4, <2>5 DEF ToldOK, ClientsTold, Sensors, Info, Pending, Severity
<1>7. CASE registerThermalChangedCallback
  <2>1. PICK k \in Clients, type \in {Absent} \cup {Info(s).type : s \in Sensors} :
          /\ callbacks' = callbacks \cup {[client |-> k, type |-> type, alive |-> TRUE]}
          /\ told' = [told EXCEPT ![k] = [s \in Sensors |-> Unknown]]
    BY <1>7 DEF registerThermalChangedCallback
  <2> DEFINE new == [client |-> k, type |-> type, alive |-> TRUE]
  <2>2. DOMAIN new = CallbackFields /\ new.client = k
    BY DEF CallbackFields
  <2> HIDE DEF new
  <2>3. callbacks' = callbacks \cup {new}
    BY <2>1 DEF new
  <2>4. \A c \in callbacks' : DOMAIN c = CallbackFields /\ c.client \in Clients
    BY <1>4, <2>2, <2>3 DEF ToldOK
  <2> QED BY <2>1, <2>3, <2>4
<1>8. CASE unregisterThermalChangedCallback
  BY <1>4, <1>8 DEF unregisterThermalChangedCallback, Registered, ToldOK
<1>9. CASE ClientDies
  <2>1. PICK c \in callbacks :
          /\ callbacks' = (callbacks \ {c}) \cup {[c EXCEPT !.alive = FALSE]}
          /\ told' = [told EXCEPT ![c.client] = [s \in Sensors |-> Unknown]]
    BY <1>9 DEF ClientDies
  <2>2. DOMAIN c = CallbackFields /\ c.client \in Clients
    BY <1>4 DEF ToldOK
  <2>3. DOMAIN [c EXCEPT !.alive = FALSE] = CallbackFields
        /\ [c EXCEPT !.alive = FALSE].client = c.client
    BY <2>2 DEF CallbackFields
  <2> QED BY <1>4, <2>1, <2>2, <2>3 DEF ToldOK
<1> QED BY <1>7, <1>8, <1>9

\* The callback keeps it: thermalWatcherCallbackFunc with updateCoolingDevices.
LEMMA CallbackKeeps == IInv /\ Callback => IInv'
<1> SUFFICES ASSUME IInv, Callback PROVE IInv'
  OBVIOUS
<1>0. PICK reading \in [{s \in Sensors : ~IsVirtual(s)} -> Temps \cup {Unread}],
           outcome \in [DOMAIN conf.rail -> Powers \cup {NaN, Invalid}]
                          \cup {[q \in DOMAIN conf.rail |-> NoEnergy]} :
        \E a \in {VisitAll(watcher.sensors, reading, outcome)} :
          \E refused \in SUBSET a.cdevs :
             /\ st' = a.st /\ request' = a.request /\ release' = a.release
             /\ failed' = a.failed
             /\ written' = [c \in Cdevs |-> IF c \in a.cdevs \ refused
                                            THEN MaxState(a.request, c) ELSE written[c]]
             /\ unsynced' = (unsynced \ a.cdevs) \cup refused
             /\ temps' = a.temps
             /\ watcher' = [watcher EXCEPT !.pc = "tell", !.elapsed = 0, !.sensors = {},
                                           !.sleep = Max({a.sleep, kMinPollIntervalMs})]
  BY DEF Callback
<1>1. PICK a \in {VisitAll(watcher.sensors, reading, outcome)} :
          \E refused \in SUBSET a.cdevs :
             /\ st' = a.st /\ request' = a.request /\ release' = a.release
             /\ failed' = a.failed
             /\ written' = [c \in Cdevs |-> IF c \in a.cdevs \ refused
                                            THEN MaxState(a.request, c) ELSE written[c]]
             /\ unsynced' = (unsynced \ a.cdevs) \cup refused
             /\ temps' = a.temps
             /\ watcher' = [watcher EXCEPT !.pc = "tell", !.elapsed = 0, !.sensors = {},
                                           !.sleep = Max({a.sleep, kMinPollIntervalMs})]
  BY <1>0
<1>2. PICK refused \in SUBSET a.cdevs :
             /\ st' = a.st /\ request' = a.request /\ release' = a.release
             /\ failed' = a.failed
             /\ written' = [c \in Cdevs |-> IF c \in a.cdevs \ refused
                                            THEN MaxState(a.request, c) ELSE written[c]]
             /\ unsynced' = (unsynced \ a.cdevs) \cup refused
             /\ temps' = a.temps
             /\ watcher' = [watcher EXCEPT !.pc = "tell", !.elapsed = 0, !.sensors = {},
                                           !.sleep = Max({a.sleep, kMinPollIntervalMs})]
  BY <1>1
<1>3. watcher.pc = "callback" /\ UNCHANGED <<conf, hal, early, supported, framework>>
  BY DEF Callback
<1>4. ConfOK /\ SensingOK /\ WatcherOK /\ AgesOK /\ TempsOK /\ ToldOK /\ HintsOK
  BY DEF IInv
<1>5. temps = <<>> /\ \A s : ~Pending(s)
  BY <1>3, <1>4 DEF TempsOK, Pending
<1>6. Through(Visiting, 0)
  <2>1. VisitOK(Visiting)
    BY <1>4, TimesAssumption DEF SensingOK, VisitOK, Visiting, VisitFields
  <2>2. ChangesOK(<<>>, st)
    BY DEF ChangesOK
  <2> QED BY <2>1, <2>2 DEF Through, Visiting
<1>7. Through(a, Cardinality(Sensors))
  BY <1>1, <1>4, <1>6, AllVisited
<1>8. VisitOK(a) /\ ChangesOK(a.temps, a.st)
      /\ \A s \in Sensors : a.st[s].severity # st[s].severity
                            => \E i \in DOMAIN a.temps : a.temps[i].name = s
  BY <1>7 DEF Through
<1>9. ConfOK' /\ Sensors' = Sensors /\ Cdevs' = Cdevs
      /\ \A s : Asked(s)' = Asked(s) /\ Bound(s)' = Bound(s) /\ Info(s)' = Info(s)
      /\ \A r, c : AsksNothingCool(r, c)' = AsksNothingCool(r, c)
  BY <1>3, <1>4, ConfKept
<1>10. SensingOK'
  <2>1. DOMAIN st' = Sensors /\ \A s \in Sensors : StatusOK(st[s], s)'
    BY <1>2, <1>8, <1>9 DEF VisitOK, StatusOK
  <2>2. DOMAIN release' = Sensors
        /\ \A s \in Sensors :
              (DOMAIN release[s] = {"step", "power"} /\ StepsOK(release[s].step, s))'
    BY <1>2, <1>3, <1>8, <1>9 DEF VisitOK, StepsOK
  <2>3. RequestsOK(request)'
    BY <1>2, <1>3, <1>8, <1>9 DEF VisitOK, RequestsOK
  <2>4. CoolOK(st, request)'
    BY <1>2, <1>8, <1>9 DEF VisitOK, CoolOK
  <2>5. unsynced' \subseteq Cdevs /\ failed' \subseteq Sensors
    BY <1>2, <1>4, <1>8 DEF VisitOK, SensingOK
  <2>6. ASSUME NEW c \in Cdevs \ unsynced' PROVE written'[c] = MaxState(a.request, c)
    <3>1. CASE c \in a.cdevs
      BY <1>2, <2>6, <3>1
    <3>2. CASE c \notin a.cdevs
      <4>1. c \notin unsynced /\ written'[c] = written[c] /\ a.request[c] = request[c]
        BY <1>2, <1>8, <2>6, <3>2 DEF VisitOK
      <4> QED BY <1>4, <4>1 DEF SensingOK, MaxState
    <3> QED BY <3>1, <3>2
  <2>7. \A c \in Cdevs \ unsynced' : written'[c] = MaxState(request, c)'
    BY <1>2, <2>6 DEF MaxState
  <2> QED BY <1>9, <2>1, <2>2, <2>3, <2>4, <2>5, <2>7 DEF SensingOK
<1>11. /\ a.sleep \in Nat
       /\ Max({a.sleep, kMinPollIntervalMs}) \in {a.sleep, kMinPollIntervalMs}
       /\ Max({a.sleep, kMinPollIntervalMs}) \in Nat
  <2>1. a.sleep \in Nat /\ kMinPollIntervalMs \in Nat
    BY <1>8, TimesAssumption DEF VisitOK
  <2> QED BY <2>1, OfTwo
<1>12. /\ DOMAIN watcher' = DOMAIN watcher /\ watcher'.pc = "tell" /\ watcher'.elapsed = 0
       /\ watcher'.sleep = Max({a.sleep, kMinPollIntervalMs}) /\ watcher'.left = watcher.left
       /\ watcher'.sensors = {}
  BY <1>2, <1>4 DEF WatcherOK
<1>13. WatcherOK'
  BY <1>4, <1>11, <1>12, TimesAssumption DEF WatcherOK
<1>14. AgesOK'
  <2> SUFFICES ASSUME NEW s \in Sensors \ failed', Info(s).is_monitor
               PROVE  /\ st'[s].age # Never
                      /\ 0 <= st'[s].age
                      /\ st'[s].age + watcher'.sleep
                           <= SleepMs(Info(s), st'[s].severity) + kMinPollIntervalMs + 0
    BY <1>9, <1>12 DEF AgesOK, Delay
  <2>1. PICK j \in 1..Cardinality(Sensors) : conf.order[j] = s
    BY <1>4, InOrder DEF ConfOK
  <2>2. InTime(a, s)
    BY <1>2, <1>7, <2>1 DEF Through
  <2> DEFINE d == SleepMs(Info(s), a.st[s].severity)
  <2>3. d \in Nat
    BY <1>4, SleepType DEF ConfOK
  <2>4. a.st[s].age \in Nat /\ a.st[s].age + a.sleep <= d
    BY <2>2 DEF InTime
  <2> HIDE DEF d
  <2>5. a.st[s].age + watcher'.sleep <= d + kMinPollIntervalMs
    BY <1>11, <1>12, <2>3, <2>4, TimesAssumption
  <2> QED BY <1>2, <2>3, <2>4, <2>5, TimesAssumption DEF d, Never
<1>15. TempsOK'
  <2>1. Changes' = Changes
    BY <1>9 DEF Changes
  <2> QED BY <1>2, <1>8, <1>12, <2>1 DEF TempsOK, ChangesOK
<1>16. \A s \in Sensors : ~Pending(s)' => st'[s].severity = st[s].severity
  BY <1>2, <1>8 DEF Pending
<1>17. ToldOK'
  <2>1. \A k \in Clients, s \in Sensors : Hears(k, s)' <=> Hears(k, s)
    BY <1>3, <1>9 DEF Hears, Listens, framework
  <2>2. UNCHANGED <<callbacks, told>>
    BY <1>3 DEF framework
  <2>3. \A k \in Clients, s \in Sensors : ~Pending(s)' => told[k][s] \in {Unknown, Severity(s)'}
    BY <1>4, <1>5, <1>16 DEF ToldOK, ClientsTold, Severity
  <2> QED BY <1>4, <1>9, <2>1, <2>2, <2>3 DEF ToldOK, ClientsTold
<1>18. HintsOK'
  <2>1. \A s \in Sensors : st'[s].prev_hint = st[s].prev_hint
    BY <1>2, <1>8 DEF VisitOK
  <2>2. HintsAgree'
    <3> SUFFICES ASSUME hal.alive, hal.exist, NEW s \in Sensors
                 PROVE  /\ {k \in Severities : <<s, k>> \in hal.modes} = {st'[s].prev_hint} \ {NONE}
                        /\ (/\ Info(s).send_powerhint /\ s \in DOMAIN supported
                            /\ s \notin early /\ ~Pending(s)' /\ Severity(s)' # NONE)
                           => st'[s].prev_hint = supported[s][Severity(s)']
      BY <1>3, <1>9 DEF HintsAgree
    <3> QED BY <1>4, <1>5, <1>16, <2>1 DEF HintsOK, HintsAgree, Severity
  <2>3. hal.alive /\ hal.exist =>
         \A s \in Sensors \ (DOMAIN supported \cup early) :
           Info(s).send_powerhint /\ ~Pending(s)' => Severity(s)' = NONE
    BY <1>4, <1>5, <1>16 DEF HintsOK, Severity
  <2> QED BY <1>3, <1>4, <1>9, <2>2, <2>3 DEF HintsOK
<1> QED BY <1>9, <1>10, <1>13, <1>14, <1>15, <1>17, <1>18 DEF IInv

\* The changes without the first one.
LEMMA HeadAndTail ==
    ASSUME NEW t \in Seq(Changes), t # <<>>
    PROVE  /\ Head(t) \in Changes /\ Head(t) = t[1] /\ 1 \in DOMAIN t
           /\ Tail(t) \in Seq(Changes)
           /\ \A j \in DOMAIN Tail(t) : j + 1 \in DOMAIN t /\ Tail(t)[j] = t[j + 1]
                                        /\ j + 1 # 1 /\ j \in Nat
           /\ \A j \in DOMAIN t : j # 1 => j - 1 \in DOMAIN Tail(t) /\ Tail(t)[j - 1] = t[j]
OBVIOUS

\* The change told is no longer pending, the others still are.
LEMMA StillPending ==
    ASSUME ChangesOK(temps, st), temps # <<>>, temps' = Tail(temps)
    PROVE  /\ Head(temps) \in Changes
           /\ Head(temps).severity = st[Head(temps).name].severity
           /\ \A s : IF s = Head(temps).name THEN ~Pending(s)' ELSE Pending(s)' <=> Pending(s)
           /\ temps' \in Seq(Changes)
           /\ \A j, k \in DOMAIN temps' : temps'[j].name = temps'[k].name => j = k
           /\ \A j \in DOMAIN temps' : temps'[j] \in Changes
                                       /\ temps'[j].severity = st[temps'[j].name].severity
<1> DEFINE t == temps
           u == Tail(temps)
<1>1. /\ t \in Seq(Changes)
      /\ \A j, k \in DOMAIN t : t[j].name = t[k].name => j = k
      /\ \A j \in DOMAIN t : t[j].severity = st[t[j].name].severity
  BY DEF ChangesOK
<1>2. /\ Head(t) \in Changes /\ Head(t) = t[1] /\ 1 \in DOMAIN t
      /\ u \in Seq(Changes)
      /\ \A j \in DOMAIN u : j + 1 \in DOMAIN t /\ u[j] = t[j + 1] /\ j + 1 # 1 /\ j \in Nat
      /\ \A j \in DOMAIN t : j # 1 => j - 1 \in DOMAIN u /\ u[j - 1] = t[j]
  BY <1>1, HeadAndTail
<1>3. \A j \in DOMAIN t : t[j] \in Changes
  BY <1>1
<1> HIDE DEF u
<1>4. temps' = u
  BY DEF u
<1>5. \A j, k \in DOMAIN u : u[j].name = u[k].name => j = k
  <2> SUFFICES ASSUME NEW j \in DOMAIN u, NEW k \in DOMAIN u, u[j].name = u[k].name
               PROVE  j = k
    OBVIOUS
  <2>1. /\ j + 1 \in DOMAIN t /\ k + 1 \in DOMAIN t
        /\ t[j + 1].name = t[k + 1].name
        /\ j \in Nat /\ k \in Nat
    BY <1>2
  <2> HIDE DEF t
  <2>2. j + 1 = k + 1
    BY <1>1, <2>1
  <2> QED BY <2>1, <2>2
<1>6. ASSUME NEW s, s = Head(temps).name PROVE ~Pending(s)'
  <2> SUFFICES ASSUME NEW j \in DOMAIN u, u[j].name = t[1].name PROVE FALSE
    BY <1>2, <1>4, <1>6 DEF Pending
  <2>1. j + 1 \in DOMAIN t /\ t[j + 1].name = t[1].name /\ 1 \in DOMAIN t /\ j + 1 # 1
    BY <1>2
  <2> HIDE DEF t
  <2> QED BY <1>1, <2>1
<1>7. ASSUME NEW s, s # Head(temps).name PROVE Pending(s)' <=> Pending(s)
  BY <1>2, <1>4, <1>7 DEF Pending
<1>8. \A j \in DOMAIN u : u[j] \in Changes /\ u[j].severity = st[u[j].name].severity
  BY <1>1, <1>2, <1>3
<1> QED BY <1>1, <1>2, <1>4, <1>5, <1>6, <1>7, <1>8 DEF Pending

\* Telling a change keeps it: sendThermalChangedCallback and sendPowerExtHint.
LEMMA TellKeeps == IInv /\ Tell => IInv'
<1> SUFFICES ASSUME IInv, Tell PROVE IInv'
  OBVIOUS
<1> DEFINE t == Head(temps)
           n == t.name
           prev == st[n].prev_hint
           next == SupportedHint(t)
           hints == Info(n).send_powerhint /\ hal.exist
<1>1. /\ watcher.pc = "tell" /\ temps # <<>>
      /\ IF Info(n).send_cb
         THEN /\ callbacks' = Kept(t)
              /\ told' = [k \in Clients |-> IF k \in Notified(t)
                                            THEN [told[k] EXCEPT ![n] = t.severity]
                                            ELSE told[k]]
         ELSE UNCHANGED <<callbacks, told>>
      /\ hal' = IF hints /\ prev # next THEN SetModes(hal, HintCalls(t, prev, next)) ELSE hal
      /\ st' = IF hints THEN [st EXCEPT ![n].prev_hint = next] ELSE st
      /\ early' = IF ~hints THEN early
                  ELSE IF n \in DOMAIN supported THEN early \ {n}
                  ELSE early \cup {n}
      /\ temps' = Tail(temps)
      /\ UNCHANGED <<conf, request, release, written, unsynced, failed, watcher, supported>>
  BY DEF Tell, framework
<1>2. ConfOK /\ SensingOK /\ WatcherOK /\ AgesOK /\ TempsOK /\ ToldOK /\ HintsOK
  BY DEF IInv
<1>3. /\ t \in Changes
      /\ t.severity = st[n].severity
      /\ \A s : IF s = n THEN ~Pending(s)' ELSE Pending(s)' <=> Pending(s)
      /\ temps' \in Seq(Changes)
      /\ \A j, k \in DOMAIN temps' : temps'[j].name = temps'[k].name => j = k
      /\ \A j \in DOMAIN temps' : temps'[j] \in Changes
                                  /\ temps'[j].severity = st[temps'[j].name].severity
  BY <1>1, <1>2, StillPending DEF TempsOK
<1> HIDE DEF t
<1>4. n \in Sensors /\ t.severity \in Severities
  BY <1>3 DEF Changes
<1>5. next \in Severities /\ (next # NONE => <<n, next>> \in SupportedModes)
      /\ (n \in DOMAIN supported => next = supported[n][st[n].severity])
  BY <1>2, <1>3, <1>4, SeveritiesAssumption DEF HintsOK, SupportedHint, Severities, NONE
<1> HIDE DEF n, next, prev, hints
<1>6. ConfOK' /\ Sensors' = Sensors /\ Cdevs' = Cdevs
      /\ \A s : Asked(s)' = Asked(s) /\ Bound(s)' = Bound(s) /\ Info(s)' = Info(s)
      /\ \A r, c : AsksNothingCool(r, c)' = AsksNothingCool(r, c)
  BY <1>1, <1>2, ConfKept
<1>7. /\ DOMAIN st' = Sensors
      /\ \A s \in Sensors :
           /\ st'[s].severity = st[s].severity /\ st'[s].age = st[s].age
           /\ StatusOK(st'[s], s)
           /\ st'[s].prev_hint = IF hints /\ s = n THEN next ELSE st[s].prev_hint
  <2>1. DOMAIN st = Sensors /\ \A s \in Sensors : StatusOK(st[s], s)
    BY <1>2 DEF SensingOK
  <2>2. \A s \in Sensors :
          st'[s] = IF hints /\ s = n THEN [st[s] EXCEPT !.prev_hint = next] ELSE st[s]
    BY <1>1, <2>1
  <2>3. DOMAIN st' = Sensors
    BY <1>1, <2>1
  <2> QED BY <1>5, <2>1, <2>2, <2>3 DEF StatusOK, StatusFields
<1>8. SensingOK'
  <2>1. \A s \in Sensors : StatusOK(st[s], s)'
    BY <1>6, <1>7 DEF StatusOK
  <2>2. RequestsOK(request)'
    BY <1>1, <1>2, <1>6 DEF SensingOK, RequestsOK
  <2>3. CoolOK(st, request)'
    BY <1>1, <1>2, <1>6, <1>7 DEF SensingOK, CoolOK
  <2> QED BY <1>1, <1>2, <1>6, <1>7, <2>1, <2>2, <2>3 DEF SensingOK, StepsOK, MaxState
<1>9. WatcherOK' /\ AgesOK'
  BY <1>1, <1>2, <1>6, <1>7 DEF WatcherOK, AgesOK, Delay
<1>10. TempsOK'
  <2>1. Changes' = Changes
    BY <1>6 DEF Changes
  <2>2. \A j \in DOMAIN temps' : temps'[j].name \in Sensors
    BY <1>3 DEF Changes
  <2> QED BY <1>1, <1>3, <1>7, <2>1, <2>2 DEF TempsOK, ChangesOK
<1>11. ToldOK'
  <2>1. /\ callbacks' \subseteq callbacks
        /\ \A c \in callbacks : c.alive => c \in callbacks'
    BY <1>1 DEF Kept
  <2>2. \A k \in Clients, s \in Sensors : Hears(k, s) => Hears(k, s)'
    BY <1>6, <2>1 DEF Hears, Listens
  <2>3. \A k \in Clients : k \in Notified(t) <=> Hears(k, n)
    BY DEF Notified, Hears, Listens, n
  <2>4. \A k \in Clients, s \in Sensors :
          told'[k][s] = IF Info(n).send_cb /\ s = n /\ Hears(k, n) THEN st[n].severity
                        ELSE told[k][s]
    BY <1>1, <1>2, <1>3, <2>3 DEF ToldOK
  <2>5. told' \in [Clients -> [Sensors -> Severities \cup {Unknown}]]
    BY <1>1, <1>2, <1>4 DEF ToldOK
  <2>6. \A k \in Clients, s \in Sensors :
          told'[k][s] # Unknown => Info(s).send_cb /\ Hears(k, s)'
    BY <1>2, <1>4, <2>2, <2>4 DEF ToldOK
  <2>7. ASSUME NEW k \in Clients, NEW s \in Sensors, ~Pending(s)'
        PROVE  told'[k][s] \in {Unknown, Severity(s)'}
    <3>1. CASE s = n
      BY <1>2, <1>4, <1>7, <2>4, <3>1 DEF ToldOK, Severity
    <3>2. CASE s # n
      BY <1>2, <1>3, <1>7, <2>4, <2>7, <3>2 DEF ToldOK, ClientsTold, Severity
    <3> QED BY <3>1, <3>2
  <2> QED BY <1>2, <1>6, <2>1, <2>5, <2>6, <2>7 DEF ToldOK, ClientsTold
<1>12. DOMAIN hal = {"exist", "alive", "modes"} /\ hal.exist \in BOOLEAN /\ hal.alive \in BOOLEAN
       /\ hal.modes \subseteq SupportedModes
  BY <1>2 DEF HintsOK
<1>13. /\ DOMAIN hal' = {"exist", "alive", "modes"} /\ hal'.exist \in BOOLEAN
       /\ hal'.alive \in BOOLEAN /\ hal'.modes \subseteq SupportedModes
       /\ hal'.exist /\ hal'.alive =>
            /\ hal.exist /\ hal.alive
            /\ hal'.modes = IF hints /\ prev # next
                            THEN (hal.modes \ Mode(t, prev)) \cup Mode(t, next)
                            ELSE hal.modes
  <2>1. CASE ~(hints /\ prev # next)
    BY <1>1, <1>12, <2>1
  <2>2. CASE hints /\ prev # next
    <3> DEFINE calls == HintCalls(t, prev, next)
    <3>1. calls.end = Mode(t, prev) /\ calls.start = Mode(t, next)
      BY DEF HintCalls
    <3>2. hal' = SetModes(hal, calls)
      BY <1>1, <2>2
    <3>3. Mode(t, next) \subseteq SupportedModes
      BY <1>5 DEF Mode, n
    <3>4. hal' \in {hal, [hal EXCEPT !.exist = FALSE],
                    [hal EXCEPT !.modes = (@ \ calls.end) \cup calls.start]}
      BY <3>2 DEF SetModes
    <3>5. hal'.exist /\ hal'.alive =>
            /\ hal.exist /\ hal.alive
            /\ hal'.modes = (hal.modes \ calls.end) \cup calls.start
      BY <1>12, <3>2 DEF SetModes
    <3> DEFINE all == (hal.modes \ calls.end) \cup calls.start
    <3>6. all \subseteq SupportedModes
      BY <1>12, <3>1, <3>3
    <3> HIDE DEF calls, all
    <3>7. hal' \in {hal, [hal EXCEPT !.exist = FALSE], [hal EXCEPT !.modes = all]}
      BY <3>4 DEF all
    <3>8. /\ DOMAIN hal' = {"exist", "alive", "modes"} /\ hal'.exist \in BOOLEAN
          /\ hal'.alive \in BOOLEAN /\ hal'.modes \subseteq SupportedModes
      BY <1>12, <3>6, <3>7
    <3> QED BY <2>2, <3>1, <3>5, <3>8
  <2> QED BY <2>1, <2>2
<1>14. early' \subseteq Sensors
  BY <1>1, <1>2, <1>4 DEF HintsOK
<1>15. ASSUME hal'.alive, hal'.exist, NEW s \in Sensors
       PROVE  /\ {k \in Severities : <<s, k>> \in hal'.modes} = {st'[s].prev_hint} \ {NONE}
              /\ (/\ Info(s).send_powerhint /\ s \in DOMAIN supported
                  /\ s \notin early' /\ ~Pending(s)' /\ Severity(s)' # NONE)
                 => st'[s].prev_hint = supported[s][Severity(s)']
              /\ s \notin DOMAIN supported \cup early' /\ Info(s).send_powerhint /\ ~Pending(s)'
                 => Severity(s)' = NONE
  <2>1. hal.exist /\ hal.alive
        /\ hal'.modes = IF hints /\ prev # next
                        THEN (hal.modes \ Mode(t, prev)) \cup Mode(t, next)
                        ELSE hal.modes
    BY <1>13, <1>15
  <2>2. /\ {k \in Severities : <<s, k>> \in hal.modes} = {st[s].prev_hint} \ {NONE}
        /\ (/\ Info(s).send_powerhint /\ s \in DOMAIN supported
            /\ s \notin early /\ ~Pending(s) /\ Severity(s) # NONE)
           => st[s].prev_hint = supported[s][Severity(s)]
        /\ s \notin DOMAIN supported \cup early /\ Info(s).send_powerhint /\ ~Pending(s)
           => Severity(s) = NONE
    BY <1>2, <2>1 DEF HintsOK, HintsAgree
  <2>3. Severity(s)' = Severity(s)
    BY <1>7 DEF Severity
  <2>4. Mode(t, prev) = (IF prev = NONE THEN {} ELSE {<<n, prev>>})
        /\ Mode(t, next) = (IF next = NONE THEN {} ELSE {<<n, next>>})
    BY DEF Mode, n
  <2>5. CASE s # n
    <3>1. \A k : <<s, k>> \in hal'.modes <=> <<s, k>> \in hal.modes
      BY <2>1, <2>4, <2>5
    <3>2. st'[s].prev_hint = st[s].prev_hint /\ (Pending(s)' <=> Pending(s))
          /\ (s \in early' <=> s \in early)
      BY <1>1, <1>3, <1>7, <2>5
    <3> QED BY <2>2, <2>3, <3>1, <3>2
  <2>6. CASE s = n /\ ~hints
    <3>1. ~Info(s).send_powerhint
      BY <2>1, <2>6 DEF hints
    <3>2. st'[s].prev_hint = st[s].prev_hint /\ hal'.modes = hal.modes
      BY <1>7, <2>1, <2>6
    <3> QED BY <2>2, <3>1, <3>2
  <2>7. CASE s = n /\ hints
    <3>1. st'[s].prev_hint = next /\ prev = st[s].prev_hint
      BY <1>7, <2>7 DEF prev
    <3>2. {k \in Severities : <<s, k>> \in hal'.modes} = {next} \ {NONE}
      <4>1. \A k \in Severities : <<s, k>> \in hal.modes <=> k = prev /\ prev # NONE
        BY <2>2, <3>1
      <4>2. \A k \in Severities : <<s, k>> \in hal'.modes <=> k = next /\ next # NONE
        BY <2>1, <2>4, <2>7, <4>1
      <4> QED BY <1>5, <4>2
    <3>3. s \in DOMAIN supported => next = supported[s][Severity(s)]
      BY <1>5, <2>7 DEF Severity
    <3>4. s \notin DOMAIN supported => s \in early'
      BY <1>1, <2>7
    <3> QED BY <2>3, <3>1, <3>2, <3>3, <3>4
  <2> QED BY <2>5, <2>6, <2>7
<1>16. HintsAgree'
  BY <1>1, <1>6, <1>15 DEF HintsAgree
<1>17. HintsOK'
  <2>1. hal'.alive /\ hal'.exist =>
          \A s \in Sensors \ (DOMAIN supported \cup early') :
             Info(s).send_powerhint /\ ~Pending(s)' => Severity(s)' = NONE
    BY <1>15
  <2> QED BY <1>1, <1>2, <1>6, <1>13, <1>14, <1>16, <2>1 DEF HintsOK
<1> QED BY <1>6, <1>8, <1>9, <1>10, <1>11, <1>17 DEF IInv

-----------------------------------------------------------------------------
(* What follows.                                                             *)

\* The invariant holds in every behaviour.
LEMMA Inductive == Spec => []IInv
<1>1. IInv /\ [Next]_vars => IInv'
  <2> SUFFICES ASSUME IInv, [Next]_vars PROVE IInv'
    OBVIOUS
  <2>1. CASE ThreadLoop
    BY <2>1, ThreadLoopKeeps
  <2>2. CASE PollTimeout \/ PollEvent
    BY <2>2, PollKeeps
  <2>3. CASE Callback
    BY <2>3, CallbackKeeps
  <2>4. CASE Tell
    BY <2>4, TellKeeps
  <2>5. CASE CallbackDone
    BY <2>5, CallbackDoneKeeps
  <2>6. CASE UpdateSupportedPowerHints
    BY <2>6, UpdateSupportedPowerHintsKeeps
  <2>7. CASE PowerHalDies
    BY <2>7, PowerHalDiesKeeps
  <2>8. CASE \/ registerThermalChangedCallback \/ unregisterThermalChangedCallback
             \/ ClientDies
    BY <2>8, ClientsKeep
  <2>9. CASE Tick
    BY <2>9, TickKeeps
  <2>10. CASE UNCHANGED vars
    <3>1. UNCHANGED <<conf, sensing, watcher, temps, st, telling, supported, framework>>
      BY <2>10 DEF vars, sensing, telling
    <3>2. ToldOK' /\ HintsOK'
      BY <3>1, ToldKept, HintsKept DEF IInv
    <3> QED BY <3>1, <3>2, OtherStep
  <2> QED BY <2>1, <2>2, <2>3, <2>4, <2>5, <2>6, <2>7, <2>8, <2>9, <2>10 DEF Next
<1> QED BY Initially, <1>1, PTL DEF Spec

\* The greatest request of a device is the greatest.
LEMMA MaxStateType ==
    ASSUME ConfOK, RequestsOK(request), NEW c \in Cdevs
    PROVE  /\ MaxState(request, c) \in {0} \cup {request[c][s] : s \in DOMAIN request[c]}
           /\ \A s \in DOMAIN request[c] :
                request[c][s] \in Nat /\ MaxState(request, c) >= request[c][s]
<1> DEFINE S == {0} \cup {request[c][s] : s \in DOMAIN request[c]}
           m == conf.cdev[c].max_state
<1>1. \A s \in DOMAIN request[c] : s \in Sensors /\ c \in Asked(s) /\ request[c][s] \in 0..m
                                    /\ m \in Nat
  BY DEF RequestsOK, ConfOK, BoundOK, Asked, PidCdevs, LimitCdevs
<1>2. \E n \in Nat : S \subseteq 0..n
  <2>1. CASE DOMAIN request[c] = {}
    <3>1. S \subseteq 0..0
      BY <2>1
    <3> QED BY <3>1
  <2>2. CASE DOMAIN request[c] # {}
    <3>1. m \in Nat /\ S \subseteq 0..m
      BY <1>1, <2>2
    <3> QED BY <3>1
  <2> QED BY <2>1, <2>2
<1>3. \A s \in DOMAIN request[c] : request[c][s] \in S
  OBVIOUS
<1>4. S # {} /\ MaxState(request, c) = Max(S)
  BY DEF MaxState
<1> HIDE DEF S
<1>5. PICK n \in Nat : S \subseteq 0..n
  BY <1>2
<1>6. S \subseteq Nat /\ \A y \in S : y <= n
  BY <1>5
<1>7. Max(S) \in S /\ \A y \in S : Max(S) >= y
  BY <1>4, <1>6, Greatest
<1>8. MaxState(request, c) \in S
  BY <1>4, <1>7
<1>9. \A s \in DOMAIN request[c] : request[c][s] \in Nat /\ MaxState(request, c) >= request[c][s]
  BY <1>1, <1>3, <1>4, <1>7
<1> QED BY <1>8, <1>9 DEF S

\* Every map has the values of its type, and no release step exceeds the device's
\* highest state (throttlingReleaseUpdate).
THEOREM Typing == Spec => []TypeOK
<1>1. IInv => TypeOK
  <2> SUFFICES ASSUME IInv PROVE TypeOK
    OBVIOUS
  <2>1. SensingOK /\ WatcherOK /\ ToldOK /\ HintsOK /\ ConfOK
    BY DEF IInv
  <2>2. \A s \in Sensors :
          /\ {st[s].severity, st[s].prev_hot, st[s].prev_cold, st[s].prev_hint} \subseteq Severities
          /\ st[s].age \in Never..MaxAge
          /\ \A c \in DOMAIN release[s].step :
                release[s].step[c] \in -conf.cdev[c].max_state..conf.cdev[c].max_state
    BY <2>1 DEF SensingOK, StatusOK, StepsOK
  <2>3. \A c \in Cdevs : \A s \in DOMAIN request[c] :
          request[c][s] \in 0..conf.cdev[c].max_state
    BY <2>1 DEF SensingOK, RequestsOK
  <2> QED BY <2>1, <2>2, <2>3 DEF TypeOK, SensingOK, WatcherOK, ToldOK, HintsOK
<1> QED BY Inductive, <1>1, PTL

\* A device stands at the highest state asked of it, and at none when every sensor
\* that throttles it is cool (computeCoolingDevicesRequest, updateCoolingDevices).
THEOREM DevicesAgree == Spec => []CdevsAgree
<1>1. IInv => CdevsAgree
  <2> SUFFICES ASSUME IInv, NEW c \in Cdevs \ unsynced
               PROVE  /\ written[c] \in {0} \cup {request[c][s] : s \in DOMAIN request[c]}
                      /\ \A s \in DOMAIN request[c] : written[c] >= request[c][s]
                      /\ DOMAIN request[c] # {}
                         /\ (\A s \in DOMAIN request[c] :
                               Severity(s) = NONE /\ AsksNothingCool(s, c))
                         => written[c] = 0
    BY DEF CdevsAgree
  <2>1. ConfOK /\ RequestsOK(request) /\ CoolOK(st, request) /\ written[c] = MaxState(request, c)
    BY DEF IInv, SensingOK
  <2>2. /\ written[c] \in {0} \cup {request[c][s] : s \in DOMAIN request[c]}
        /\ \A s \in DOMAIN request[c] : written[c] >= request[c][s]
    BY <2>1, MaxStateType
  <2>3. ASSUME \A s \in DOMAIN request[c] : Severity(s) = NONE /\ AsksNothingCool(s, c)
        PROVE  written[c] = 0
    <3>1. \A s \in DOMAIN request[c] : request[c][s] = 0
      BY <2>1, <2>3 DEF RequestsOK, CoolOK, Severity
    <3> QED BY <2>2, <3>1
  <2> QED BY <2>2, <2>3
<1> QED BY Inductive, <1>1, PTL

\* A sensor that can be read is read within twice its delay and the shortest sleep,
\* whatever events start the sleep anew (ThermalWatcher::threadLoop).
THEOREM InTimeRead == Spec => []ReadInTime
<1>1. IInv => ReadInTime
  <2> SUFFICES ASSUME IInv, NEW s \in Sensors \ failed, Info(s).is_monitor
               PROVE  st[s].age <= 2 * (SleepMs(Info(s), Severity(s)) + kMinPollIntervalMs)
    BY DEF ReadInTime
  <2> DEFINE d == SleepMs(Info(s), st[s].severity)
             age == st[s].age
             k == kMinPollIntervalMs
  <2>1. d \in Nat /\ k \in Nat /\ age \in Never..MaxAge
    BY SleepType, TimesAssumption DEF IInv, ConfOK, SensingOK, StatusOK
  <2>2. watcher.sleep \in Nat /\ watcher.elapsed \in Nat /\ watcher.elapsed <= 2 * watcher.sleep
    BY TimesAssumption DEF IInv, WatcherOK
  <2>3. age # Never => watcher.elapsed <= age /\ age + watcher.sleep <= d + k + watcher.elapsed
    BY DEF IInv, AgesOK, Delay
  <2> HIDE DEF d, age, k
  <2>4. age <= 2 * (d + k)
    BY <2>1, <2>2, <2>3, TimesAssumption DEF Never
  <2> QED BY <2>4 DEF d, age, k, Severity
<1> QED BY Inductive, <1>1, PTL

\* The power HAL and the clients know what the helper believes it told them
\* (sendPowerExtHint, sendThermalChangedCallback).
THEOREM EveryoneTold == Spec => []ListenersTold
<1>1. IInv => ListenersTold
  BY DEF IInv, ToldOK, HintsOK, ListenersTold
<1> QED BY Inductive, <1>1, PTL
=============================================================================
