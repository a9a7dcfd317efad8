# The services of device_xiaomi_cepheus in TLA+

The repository is the device tree of a phone (Xiaomi Mi 9, *cepheus*): beside
configuration, overlays and policies it holds the native services that run on
the phone.  This directory models those services, checks the models with TLC
and proves theorems about them with TLAPS.  Paths are relative to the
repository; `libperfmgr` is short for `src/power-libperfmgr/libperfmgr`.

1. [The system](#1-the-system)
2. [Modules and code](#2-modules-and-code)
3. [The runs](#3-the-runs)
4. [Bounds, fairness, assumptions](#4-bounds-fairness-assumptions)
5. [What is proved](#5-what-is-proved)
6. [Where code and comments disagree](#6-where-code-and-comments-disagree)
7. [What is not modelled](#7-what-is-not-modelled)
8. [Plan](#8-plan)

## 1. The system

Six services keep state worth a model; they are separate processes and meet
only through Binder/HIDL calls and sysfs files.

| service | size | processes and threads | talks to |
| --- | --- | --- | --- |
| power (`power-libperfmgr`) | 5 k lines | one binder thread; `NodeLooperThread`; `DispIdle` of InteractionHandler; `PowerHintMonitor` (a Looper) | framework (modes, boosts, ADPF sessions); sysfs nodes and properties; thermal calls its extension |
| thermal (`thermal`) | 5 k | binder threads; the watcher's poll thread | sysfs, thermal netlink, uevents; clients' callbacks; the power service |
| GNSS (`gps`) | 47 k | one `MsgTask` thread per context, timers' poll and message threads, the QMI thread, binder threads | framework (GNSS HIDL), modem (QMI, external), XTRA daemon |
| power stats (`powerstats`) | 5 k | binder threads | sysfs and debugfs |
| fingerprint (`fingerprint`) | 1 k | binder threads, a detached poll thread, the vendor library's thread | vendor library, touch and display sysfs files |
| lights, sensors, settings application | 2.5 k | one lock or one thread each | sysfs, framework |

### Power service

**NodeLooperThread, nodes, request groups** (`libperfmgr/NodeLooperThread.cc`,
`Node.cc`, `FileNode.cc`, `PropertyNode.cc`, `RequestGroup.cc`).  *State*: for
every node and value the requests of hints with their end times; the value
believed in force; whether the node was ever written; the open descriptor.
*Operations*: `Request`, `Cancel` (any thread, under `lock_`), two update
passes and a timed wait (the looper), `Start`, `Stop`.  *Hard*: the sleep is
computed from times read at different moments; writes are refused; the exit
flag is tested without the lock.  *Correct when*: no expiry is slept through,
no request ends before its time, a held descriptor keeps its value, refused
writes are repeated until nodes settle, `Stop` returns.

**HintManager** (`libperfmgr/HintManager.cc`).  *State*: per hint an enabled
flag and statistics (start, end, count, duration) under a mutex each.
*Operations*: `DoHint` with or without a timeout, `EndHint`, and the actions
of a hint, which do, end or mask other hints recursively.  *Hard*: a call is
several critical sections, and there is no lock over them.  *Correct when*:
masks and statistics agree with the calls once these return.

**InteractionHandler** (`disp-power/InteractionHandler.cpp`).  *State*: a state
under `mLock`, a duration that is also read without it, an event descriptor,
the time of the last extension.  *Operations*: `Init`, `Exit`, `Acquire`
(touches); the `DispIdle` thread waits, polls twice, and releases.  *Hard*: a
touch may come between any two of these steps; wake-ups may be left over;
signed and unsigned arithmetic meet.  *Correct when*: it is a lease
(`InteractionLease`): never shortened, given back early only for an idle
display, and always given back in the end.

**Hint sessions** (`aidl/PowerHintSession.cpp`, `PowerSessionManager.cpp`).
*State*: per session its activity, boost, last update, stale timer; globally
the threads' reference counts and whether the top-app boost is disabled.
*Operations*: create, pause, resume, close, report (binder thread); stale
messages and recounts (monitor thread).  *Hard*: the decision of the timer and
a report cross; two comparisons of the same age differ at the boundary; the
manager is told by messages.  *Correct when*: one timer per session, every
reported boost is watched, counts name only living sessions, stale sessions
end up without boost.

**The configuration** (`libperfmgr/HintManager.cc`, `ParseNodes` and
`ParseActions`) is read once, from `powerhint.json`.  *Hard*: any key may be
missing or wrong, and what is accepted is then used unchecked.  *Correct when*:
every action of an accepted document is about a node and a value there is.

**Power, PowerExt, service** (`aidl/`).  *State*: whether sustained performance
was heard of; in system properties, three modes that outlive the process.
*Operations*: start and restoration, `setMode`, `setBoost` of two interfaces.
*Hard*: the properties are written by the looper, as a mode's hint asks, and
read by the next process; init forgets them when the framework dies.
*Correct when*: a mode the framework has on is on again after a restart.

### GNSS service

*Utilities*: a blocking message queue (`msg_q`), tasks over it (`MsgTask`,
`LocThread`), timers (`LocTimer` over `LocHeap`), IPC, configuration.
*Core*: `LocApiBase` passes the modem's events to the adapters whose mask asks
for them and announces its restarts; `LocContext` shares one task.
*Adapters*: `GnssAdapter` (sessions of many clients on one modem session,
configuration, reports, AGPS), `BatchingAdapter`, `GeofenceAdapter`.
*Clients*: `LocationAPI` and the HIDL HAL.  Everything an adapter does is a
message in its task's queue, so its state needs no lock, as long as nobody
calls past the queue; answers come back later, and in between clients stop,
update and die, and the modem restarts.

**Tracking sessions and configuration** (`gnss/GnssAdapter.cpp`).  *State*:
time-based and distance-based sessions by client and id, commands that wait for
the modem's capabilities, who controls the GNSS, its lock and configuration.
*Operations*: start, update and stop of a session, clients that come and go,
enable, disable, configure; the modem's answers and restarts.  *Hard*: one fix
is multiplexed over all time-based sessions, an answer carries on what its
request began when the state has moved on, an update is a stop and a start.
*Correct when*: once nothing is under way the modem runs what the sessions
need and is configured as recorded, and each command is answered once.

**Geofences** (`geofence/GeofenceAdapter.cpp`, with `LocationAPI.cpp`,
`LocationAPIClientBase.cpp` and the HIDL client above it).  *State*: the
framework's dictionary of ids and sessions and its queue of open requests; the
adapter's two maps, of sessions to the modem's numbers and back.
*Operations*: add, remove, pause, resume, modify; restarts; destruction of the
client.  *Hard*: three numberings of one fence; answers without an id; the maps
are emptied and refilled at a restart while calls look numbers up.  *Correct
when*: once nothing is under way the modem watches what the framework was told
it watches, and every call is answered once.

**Batching** (`batching/BatchingAdapter.cpp`, with the same client classes).
*State*: the client's dictionary and open requests; the adapter's sessions, its
trips, distance and interval of the one trip the modem keeps for all of them.
*Operations*: start, stop, update and query of a session, the modem's report
of a distance travelled, restarts, the client's end.  *Hard*: records change
before the modem answers and are undone when it refuses; several trips share
one; distances are pieced together over restarts of it.  *Correct when*: once
nothing is under way modem, adapter and client know the same sessions, and no
trip is said to be complete before it is.

**Timers** (`utils/LocTimer.cpp`, `LocHeap.cpp`).  *State*: a heap of what
timers run, a descriptor of the kernel that is set for the soonest, the
clients' timers.  *Operations*: start, stop, delete (any thread); push, remove,
expire (the task); the poll thread.  *Hard*: the descriptor is set by one
thread and cleared by another, in two system calls each; delegates are
referred to from three places.  *Correct when*: the descriptor is set for the
soonest timer, nothing refers to a delegate that is gone, every timer ends.

**Data items** (`core/SystemStatus.cpp`, `SystemStatusOsObserver.cpp`).
*State*: the latest report of each item, who subscribed to what in two maps, what
the framework was asked for.  *Operations*: subscribe, request, update,
unsubscribe; the framework's notifications; networks that come and go.  *Hard*:
items and subscriptions arrive in any order, one report stands for many
networks.  *Correct when*: maps and framework agree, each subscriber knows what
is recorded, and what is recorded is there.

**XTRA observer** (`gnss/XtraSystemStatusObserver.cpp`, NTRIP handlers of
`GnssAdapter.cpp`).  *State*: what it has to tell a daemon of another process,
the source of corrections it had it start, the adapter's flags.  *Operations*:
updates, requests of the daemon; enable, disable, sessions, positions.  *Hard*:
the daemon dies and returns, a datagram to it is sent once.  *Correct when*: a
daemon that is up knows what the observer knows and runs the source wanted.

**AGPS** (`gnss/Agps.cpp`, with its callers in `GnssAdapter.cpp` and
`android/2.1/AGnss.cpp`).  *State*: a machine (released, pending, acquired)
and its list of subscribers.  *Operations*: the modem's requests and releases,
the framework's answers.  *Hard*: requests and answers cross, carry no
identity, and the modem may restart.  *Correct when*: list and state agree,
what the modem takes for open is held, the machine agrees with the connection
when nothing is under way, the modem gets its answers, an unused connection is
released.

**Network initiated requests** (`gnss/GnssAdapter.cpp`).  *State*: two records
(`NiData`), one of emergency requests, with the request that is open, its id,
the response and a flag.  *Operations*: the network's request, the user's
response, the wait of a thread for each, the answer it posts.  *Hard*: the
adapter tests two members without the lock and the thread resets two without
it; the response, the time and another emergency race.  *Correct when*: each
request shown to the user is answered once, with what the user said of it.

**Positions on demand** (`requestOdcpi`, same file).  *State*: whether a request
is active, the last one, a timer.  *Operations*: start and stop by the modem,
expiry, registration, restart.  *Hard*: the expiry is a message that may cross
a restart of the timer.  *Correct when*: an active request is repeated and the
framework not asked twice within the delay.

### Thermal service

**ThermalHelper** (`thermal/thermal-helper.cpp`) reads sensors, derives a
severity with hysteresis, computes requests to cooling devices by severity, PID
power and hard limits, lets the power of a rail release them, and announces
changes to callbacks and, as modes, to the power service.  *State*: what each
sensor showed last and when, PID terms, each device's requests, release steps,
which hints the power HAL knows.  **ThermalWatcher** decides when: on events of
monitored sensors or after the sleep the helper returned.  **Thermal** keeps
the list of callbacks; **config_parser** accepts or refuses configurations.
*Hard*: sensors that cannot be read, votes on the sleep, hysteresis across
steps, writes that fail, hints whose sending fails, clients that die while they
are told.  *Correct when*: devices follow the highest request and are released
when everything is cool, every readable sensor is read in time, power HAL and
clients know the severities.

### The rest

Power stats answers requests from files.  The fingerprint HAL writes two sysfs
files from three threads around a vendor library.  Lights chooses which of
three sources shows on one LED.  The settings application, init code, scripts
and shims are sequential.  `PROJECT.json` lists every part with its status.

## 2. Modules and code

| module | models | state | actions |
| --- | --- | --- | --- |
| `NodeLooper` | NodeLooperThread and the classes it owns | time left of each request, value indices, what the kernel applies, where the looper is | `CheckExit`, `FirstPass`, `SecondPass`, `WaitRelative`, `WaitTimeout`; `CallBegin`, `CallCommit`; `Start`, `StopBegin`, `StopJoin`; `Tick` |
| `NodeLooperMC` | instances shaped like `powerhint.json` | | |
| `NodeLooperProofs` | | | theorems |
| `InteractionHandler` | class of that name | `mState`, event counter, duration, what is left of the polls and of the hint | `HandlerInit`, `Acquire`, `ExitBegin/Notify/Join`; `RoutineLock`, `ReadDuration`, the polls, `Release`; `Tick` |
| `InteractionLease` | what it promises its callers (abstract) | held, time left, display seen idle | `Acquire`, `Observe`, `Release`, `Abandon`, `Tick` |
| `InteractionHandlerMC`, `InteractionHandlerProofs` | | | instance; theorems |
| `HintConfig` | which hint documents are accepted, what they are parsed to | | operators |
| `HintManager` | DoHint, EndHint and hint actions | the parsed document, enabled flags, statistics, each thread's stack of steps still to take | one per critical section |
| `Power`, `PowerMC` | Power, PowerExt, main and init's rules, over `HintManager` | the process's life, `mSustainedPerfModeOn`, the property nodes, the properties | `main`, `Restore`, `Serve`, `StartLooper`; `PowerCall`, `OtherCall`; `Update`; `Crash`, `FrameworkDies`, `Kill` |
| `PowerProofs` | | | theorems about the three |
| `PowerHintSession`, `PowerHintSessionMC` | sessions, StaleHandler, PowerSessionManager | per session activity, boost, age, timer; counts; what each thread is at | calls, their later steps, messages, `Tick` |
| `PowerHintSessionProofs` | | | theorems |
| `Agps` | AgpsStateMachine, AgpsManager, their messages | machine, list, queue; framework's connection and modem's handles (external) | one per message; framework and modem |
| `NiRequests` | the adapter's part for network initiated requests and their threads | `niData`, `niThread` (where each thread is), the queue, what is shown and informed | `ReportNiNotify`, `GnssNiResponse`, `InformNiResponse`, `Record`; `niThreadProc` in six steps; network, user, client, `NiTick` |
| `Odcpi` | its part for positions on demand | request, timer, queue | one per message; `timeOutCallback`, `OdcpiTick`; modem |
| `RequestProofs` | | | theorems about the three, and about `DataItems` and `Xtra` |
| `AgpsMC` | `Agps`, `NiRequests` and `Odcpi` together, one used, the others idle | | |
| `GnssAdapter`, `GnssAdapterMC` | tracking sessions, GNSS control, configuration | sessions, pending commands, control and lock, both queues, the modem (external) | one per message of the adapter; LocApi's thread; the modem; one per command of a client |
| `GnssAdapterProofs`, `GnssModemProofs` | | | theorems: types and answers; the modem's agreement |
| `Geofences` | GeofenceAdapter, LocationAPI's destruction, LocationAPIClientBase's and the HIDL client's part for geofences | `dict`, `requests`; `mGeofences`, `mGeofenceIds`; client's life; queues, modem | one per call, message, answer; destruction in its steps; restart |
| `Batching` | BatchingAdapter and the same classes' part for sessions of batching | `dictionary`, `waitingRequests`; `adapter` (its members); `toAdapter`, `toLocApi`; the modem (external) | one per call; `HandleMsg` (a handler by its message), `LocApiStep`; `Travel`, `ReportTrip`, `ModemDies`, `ModemRises` |
| `LocationMC` | instances of both adapters, one used, the other idle | | |
| `LocHeap` | the heap of that name, by values | | recursive operators |
| `LocTimer`, `LocTimerMC` | timers, container, poll task | heap, descriptor, delegates, where each thread is | one per lock region or system call |
| `DataItems` | the record of networks, SystemStatusOsObserver | `dataItemToClients`, `clientToDataItems`, `cache`, the framework's subscriptions, the queue; networks (external) | one per call and per message; networks come and go |
| `Xtra` | XtraSystemStatusObserver over `DataItems`, the adapter's NTRIP handlers | its members, `mDgnssState`, parameters, number of sessions; the daemon (external) | one per handler; `DaemonStarts`, `DaemonDies` |
| `ThermalConfig` | which configurations are accepted, what they say | | operators |
| `ThermalHelper`, `ThermalHelperMC` | helper, watcher, callbacks, hints, rails | what the names above say | `ThreadLoop` (wait, read, vote, write), `Tell`s one binder call each, clients, kernel events, `Tick` |
| `ThermalHelperProofs` | | | theorems |

Conventions:

* *Locks.* What happens under one lock is one action.  Where the code leaves a
  lock, or touches an atomic or a field without one, an action ends, and every
  other thread may step in.
* *Time.* A time point is kept as what is left until it (or since it, capped
  where it no longer matters); `Tick` is one unit of the clock.  The state
  space is then finite without a bound on how long the system runs.  Only
  `HintManager`, whose statistics add up spans, has an absolute clock.
* *Names* are those of the source where TLA+ allows it.  A definition ending
  in `Mutant` stands before the one it mutates: a plausible mistake in the
  code, which a property is known to notice.
* *Refusals.* A write the kernel refuses is a choice of the action
  (`failed \in SUBSET Nodes`), counted against a bound.
* *Undefined behaviour* that the build can only show in one way (a data race on
  an aligned word) is a read of the old or the new value; none is given
  meaning beyond that.

Correspondence worth knowing:

* In `NodeLooper`, `Update` is FileNode's and PropertyNode's `Update` at once:
  erase what has ended, choose the highest value that is asked for, write it if
  it differs or was never written, remember what was attempted.  The second
  pass may see a later clock than the first, and the wait a later one still
  (`pass_ms`), because every `GetExpireTime` reads it anew.
* In `InteractionHandler`, `promised` is a history variable: what the callers
  were granted and may still count on.  It is what the lease is about; no
  guard reads it.  `ReadDuration` is the read of `mDurationMs` outside the
  lock (`InteractionHandler.cpp:275`).
* In `HintManager`, a thread's `stack` is the rest of its recursive calls, so
  that two calls interleave at every lock.  It has no specification of its own:
  `Power` starts its calls.
* In `Power`, only the nodes that set properties have a value the looper keeps
  (`current_val_index_`), which a new process takes for the default; `asked`
  and `written` are history.  A refused `SetProperty` is an `Update` that does
  not come.  Both threads that call
  `INTERACTION` hold InteractionHandler's `mLock` (`InteractionLocked`).
* In `GnssAdapter`, a handler of a message is an operator on a record of the
  sessions, the requests it posted and the answers it gave; `Commit` makes it a
  step.  `use`, chosen once, is what a behaviour has (which commands, whether
  the modem boots late, refuses or dies, whether clients wait for answers):
  each is a smaller state space, together they are the run.
* In `NiRequests`, what a handler records (`working`) it records in steps, each
  under `tLock`; opening a request is one step although it takes no lock, since
  a thread's two resets before or after it are all they can amount to, but for
  the id the framework is shown (section 6).  `late` and `disturbed` are history:
  a response recorded in a session that was over, a request whose session took
  what belonged to another.  `owed`, `raised` and `hasty` are that of `Odcpi`.
* In `Geofences`, `dict` is `mGeofenceBiDict`, `requests` the queue of the
  client's open requests, which every answer pops; `registered`, `mGeofences`
  and `mGeofenceIds` are the adapter's.  `failed` records that the modem
  refused what no caller is told of (a restoration, an erasure).
* In `Batching`, a handler is a function from a step to a step: the members it
  changes (`at`), what it asks of LocApi (`asks`), what it answers (`tells`).
  `then` is what the lambda of a request captured.  `garbage` stands for what
  is read of a trip that is not in the map.  `scenario` is what `use` is in
  `GnssAdapter`; `began`, `early`, `muddled` and `refusals` are history.  The
  HAL's client uses one id and no trips; client base and adapter serve any.
* In `LocTimer`, two system calls that change the descriptor are two actions,
  as are the read of a delegate's client and the call to it.
* In `ThermalHelper`, the thread's pass is one action up to the calls it makes:
  its maps belong to it alone, and only its calls leave it.  `callbacks` is a
  set: the C++ list refuses duplicates, and nothing depends on its order.
  `VisitAll` is the loop over the sensors, a recursive function over their order
  in the map; `Update` is what it does to one of them.
* In `PowerHintSession`, the two comparisons with the stale time are kept apart
  (`isStale` with >=, `Outdated` with >).  `mSessionClosed` stops a second
  `close` only, so a closed session may still be paused, resumed and reported
  on (`Alive`).  The loops of `addPowerSession` and `removePowerSession` over a
  session's threads are given by what they leave in the map.
* In `Agps`, only `requestATL` makes subscribers, always with
  `mWaitForCloseComplete = false`; hence no subscriber is ever inactive, the
  state RELEASING is never entered, and its branches are left out.  That this
  is so is part of `TypeOK`, and proved.

## 3. The runs

| run | module, cfg | checks | shows |
| --- | --- | --- | --- |
| `looper` | NodeLooperMC, NodeLooper | `TypeOK`, `NoMissedExpiry`, `HeldUnlessRefused`, `KeptUntilEnd`, `FileNodesSettle` | a FileNode reset on init, one that holds its descriptor and a property, overlapping hints of every length (overflow included), cancels, refusals, slow passes; when clients leave it alone, every FileNode gets and keeps the value its remaining requests ask for |
| `looper_stop` | NodeLooperMC, NodeLooperStop | `StopReturns` (violated) | section 6 |
| `interaction` | InteractionHandlerMC, InteractionHandler | `TypeOK`, `NoStaleAbort`, `HintMatchesState`, `IsLease`, `NobodyWaits` | the handler implements its lease for every value of a small signed integer; the hint and the thread are always given back |
| `power` | PowerMC, Power | `TypeOK`, `HintsHold`, `ModesSurvive` | four configurations (hints that mask, do and end each other; boosts with a caller's timeout; two with recorded modes) and seven that are refused; modes and boosts in any order against another thread; process and framework die, before and after the looper wrote |
| `session` | PowerHintSessionMC, PowerHintSession | `TypeOK`, `OneTimer`, `BoostIsWatched`, `RefCountsHeld`, `Settles` | two sessions of one thread against the monitor |
| `agps` | AgpsMC, AgpsMC | `TypeOK`, `SubscribersHeld`, `AgreesWhenQuiet`, `NiAnswered`, `OdcpiKept`, `ModemServed` | data calls: two handles, crossing requests and answers, refused and lost calls, a modem that restarts; consent: each kind of request under each configuration, two and three requests with responses that are late, double or missing, a client that leaves; positions: four starts, stops, registrations and restarts in any order around the timer |
| `agps_bad_apn` | Agps, AgpsBadApn | `RequestAnswered` (violated) | section 6 |
| `thermal` | ThermalHelperMC, ThermalHelper | `TypeOK`, `CdevsAgree`, `ReadInTime`, `ListenersTold` | four configurations and one that is refused, any temperatures, unreadable sensors, refused writes, kernel events, a client and a power HAL that die |
| `gnss` | GnssAdapterMC, GnssAdapter | `TypeOK`, `ModemAgrees`, `AnsweredOnce` | sessions of two clients that share a fix, updates from one kind to the other, refusals, restarts, clients that leave, control and configuration |
| `gnss_stopped` | GnssAdapterMC, GnssAdapterStopped | `StoppedStaysStopped` (violated) | section 6 |
| `timer` | LocTimerMC, LocTimer | `TypesOK`, `ArmedWhenQuiet`, `StatusTold`, `EveryTimerEnds` | two timers, three starts with two delays, stops and deletions at any moment; or three networks and a table as long, a hub that subscribes, requests, updates and leaves next to the XTRA observer, a daemon that dies and returns while networks, items, the lock or the corrections change |
| `location` | LocationMC, Location | `TypesOK`, `FencesAsTold`, `AnsweredOnce`, `SessionsServed`, `TripsKept` | two fences, a modem that refuses or restarts twice, a framework that waits for all answers or for those about one fence, a client destroyed meanwhile; or two batching sessions, own ones or trips, started, stopped, updated and queried over a modem that refuses, comes up late or dies |

Why these properties.  `NoMissedExpiry` relates the sleep a thread computed
to what clients and the clock did since.  `IsLease` is a refinement: every
step of the handler is a step of the lease or none.  `NoStaleAbort`,
`OneTimer` and `BoostIsWatched` say that a wake-up, a timer and a boost
belong to what they were made for, across two threads.
`SubscribersHeld` and `AgreesWhenQuiet` relate three parties that only
exchange messages.  `ModemAgrees`, `FencesAsTold` and `SessionsServed` say that two sides agree once nothing is under way, after any interleaving of calls,
answers and restarts; they are the contract of a system that only ever
exchanges messages.  `ArmedWhenQuiet`, `CdevsAgree` and `ListenersTold` are the
same for a descriptor, a device, and a remote service and its clients.
`HintsHold`, `ListenersTold`, `ModemAgrees`, `NobodyWaits` and `ModemServed` are
conjunctions (`MaskHolds`, `StatusHolds`; `HintsAgree`, `ClientsTold`;
`ModemServes`, `ModemConfigured`; `HintEnds`, `ExitReturns`; `ModemAnswered`,
`NiEnds`, `OdcpiEnds`), so that one run of the state space serves all.
`TypesOK` and `StatusTold` are conjunctions too (`TypeOK`, `NothingDangles`;
`SubscriptionsAgree`, `SubscribersTold`, `NetworksRecorded`, `DaemonKnows`,
`SourceIsWanted`): the last four relate four copies of one fact, in the framework,
`SystemStatus`, its client and a process that may die.
`NiAnswered` relates what the modem is told to what the user said, across the
adapter's thread and those of the sessions; `OdcpiKept` the adapter's record to
a timer and a message.
`TripsKept` relates what the adapter pieces together from several counts of the
modem to what was really travelled.  The liveness
properties state that what is taken is given back and what was started ends.

`CHECK_DEADLOCK FALSE` stands where the system may rest or the model's bounds
end it: in `Power` a document that is refused is fatal, and calls and the clock
are bounded; `LocTimer` at the end of
its starts; in `Agps`, `NiRequests`, `Odcpi`, `GnssAdapter`, `Geofences` and `Batching` nobody need ask for
anything.

## 4. Bounds, fairness, assumptions

**Bounds.**

| constant | where | value | why it is enough |
| --- | --- | --- | --- |
| `MaxTimeout`, `Timeouts` | NodeLooper | 2; {0, 1, 2, 4} | shorter, equal, longer and overflowing requests, and forever, in every order |
| `MaxFailures` | NodeLooper | 1 | a refused write, which `retry` repeats; a refused repetition is the same state again |
| `MaxPassMs` | NodeLooper | 1 | the clock moves, or not, between a node's times and the wait |
| `Nodes`, `Hints`, `Callers` | NodeLooper | 3, 2, 1 | nodes only meet in the minimum of their times; each call is atomic under `lock_`, so a second caller adds no interleaving but Stop's, which has its own thread |
| `UintModulus`, durations | InteractionHandler | 16; 1 to 5 | every integer of the type is an input; minimum, maximum, offset and overflow all differ |
| `MaxNow`, `MaxCount` | Power | 3, 2 | a hint done, ended and done again, with a longer and a shorter timeout; where no hint has a timeout the clock stands (`Timed`) |
| `MaxCrashes` | Power | 2 (0 where nothing is recorded) | what the second process records meets a third |
| `Modes`, `Boosts`, `ExtNames` | Power | 5, 2, 2 | a call about a hint the document lacks does nothing and is left out |
| `StaleMs` | PowerHintSession | 1 | before, at and after the stale time are distinct ages |
| `MaxMessages` | PowerHintSession | 1 | a call waits for the monitor's queue to be empty; a second message only repeats the count |
| `Sessions`, `Tids` | PowerHintSession | 2, 2 | shared and separate threads |
| `MaxQueue` | Agps | 4 (3 in `agps_bad_apn`) | to withdraw a request and ask again before the first answer needs 3, a second handle that crosses it one more; it bounds what the modem adds, not the answers |
| `MaxRestarts` | Agps | 1 | requests of the modem before a restart meet those after it |
| `Cases`, `MaxNotes`, `answers` | NiRequests | 3 notes, 2 responses | a request waits behind one session, takes it over as its thread leaves, or a third does; a response and a second one |
| `Patience` | NiRequests | 1 | a response before, at and after the end of the wait |
| `Delay`, `MaxEvents` | Odcpi | 2, 4 | a stop, a start and an emergency within the delay, after it, and as it ends |
| `MaxCalls` | GnssAdapter | 3 or 4, by `use` | start, update and stop of one session, or two that share a fix and a change of one; a refusal or an enable leaves room for one more |
| `MaxQueue`, `MaxRestarts` | GnssAdapter | 2, 1 | it bounds the commands clients add, not the answers: two commands ahead of an answer; a restart between any two of them |
| `OptionSet` | GnssAdapter | 3 | the faster session has the weaker power mode, so that interval and mode are merged from different ones; one goes by distance; the first is raised and made normal |
| `Ids`, `HwIds`, `MaxCalls` | Geofences | 2, 2, 4 | fences swap the modem's numbers at a restart; four calls pause, remove and add a fence again |
| `MaxRestarts` | Geofences | 2 | a restart undoes what the one before restored, or comes into the middle of it; after a third, a command may find another fence under the modem's number it has looked up, and what the modem watches is stated up to two (`FencesAsTold`) |
| `SessionIds`, calls of `Scenarios` | Batching | 2; 2 to 4 | a session that ends while another lives, and is started again; where trips are, whose queries take several messages each, a start, a second and the end of one |
| `Intervals`, `Distances`, `MaxOdometer` | Batching | {1, 2}, {1, 2}, 2 | the trip that joins is shorter or longer, faster or slower than the one under way, which is not begun, half way or complete |
| `MaxDeaths`, `Width` | Batching | 1; 16 | a restart at any moment; a difference below 0 is a distance no trip has, as with 2^32 |
| `Delays`, `MaxStarts`, `MaxNow` | LocTimer | {1, 2}, 3, 2 | an earlier timer before and after a later one, and a third when one of them is being expired |
| `Networks`, `MAX_NETWORK_HANDLES` | DataItems | 3 of two types, 3 (10 in the code) | a table that is empty, in part filled and full; two handles of a type |
| `DataUses` | DataItems, Xtra | 3 to 7 calls, by behaviour | five changes of networks; a subscription before and after a report, a framework that is set late; seven steps of the corrections, six with a daemon that dies and returns |
| `MaxDataQueue` | DataItems | 2 | it bounds the calls ahead of the task, not what its handlers add |
| `Streams`, `MaxSessions` | Xtra | 3, 2 | parameters that differ in the server, or only in asking for the location; a session ends while another goes on |
| `MaxSeverity`, `Temps` | ThermalHelper | 2, {0, 2, 4} | below, at and above each threshold and its hysteresis |
| `MaxAge` | ThermalHelper | 7 | past every delay and the latest a sensor may be read |
| `Docs`, `Focused` | ThermalHelper | 5 | a PID sensor that triggers a virtual one on the same device, a rail, cold thresholds, callbacks, hints, a refused one; clients and the power HAL's death are explored only with the sensors that tell of them |

**Fairness** is weak and given to what the code schedules by itself: the
service's own threads (those of network initiated requests too), the looper's
due messages, the timers' poll thread and task, and the clock.  No fairness
on callers, on the display becoming idle, on writes succeeding (their bound
does that) or on the modem asking.  Two external parties are assumed to
answer: the framework takes each AGPS request and comes to an answer
(`agnssStatusCb`, `Answered`), as its data-call timeout makes it.

**Assumptions** that are named in the modules:
`ConstantsAssumption` (NodeLooper, InteractionHandler, HintManager,
PowerHintSession, GnssAdapter; in GnssAdapter also that options have their size set,
as their constructors do, and that a configured lock is of mobile originated or network
initiated sessions; in HintManager also that the arrays of a document end and that
its durations and default indices, where they are numbers the parser takes, are
integers, no duration beyond the clock's bound), `PowerAssumption` (the hints the
constructor restores are names, what the framework calls with are among those the
binder thread may end), `ModesRecorded` (Power: a property node records one mode,
by the hint of that mode alone and without duration, is empty by default, and no
hint action is about such a hint, all as in `powerhint.json`; a hint that ended by
itself would leave its property to the looper) and `OneCaller` (Power: these modes are
neither boosts nor extensions, and no other thread does or ends their hints),
`WritersAssumption` (Power: "there should not be multiple writers",
`HintManager.h:71`, which the code asks for and does not enforce: in each document a
hint has one that masks it, which does not lead back to itself; a hint that masks or
is ended is led to by one thread's calls; hint actions end only what callers end, and
`INTERACTION`, which InteractionHandler and the binder thread both name, has and is
the target of none.  The shipped `powerhint.json` has no hint actions; its hints that
end are the binder thread's, and `INTERACTION`, which InteractionHandler's lock keeps
to one call at a time),
`BoundsAssumption` (Agps),
`CasesAssumption` (NiRequests) and `DelayAssumption` (Odcpi), which only say that
bounds are numbers and requests sequences,
`DataAssumption` (DataItems: a handle is that of one network, the table has a place,
observers are finite in number, and "nothing was reported" is no report) and
`XtraAssumption` (the XTRA observer is one of them), and, in ThermalHelper, `TimesAssumption`,
`SeveritiesAssumption` (numbers again) and `DocsAssumption`, evaluated by TLC in every
run.  `DocsAssumption` says of each document that the helper can compute with
it: a sustainable power goes with a threshold, devices know their power states,
links lead to physical sensors (`Usable`); lists end, and delays, limits,
weights and states are not negative (`Typed`); the largest integer, the budget of a
cool sensor, is enough for the first state of each device that has a weight
(`Budgeted`).  The parser asks for none of these, so a document that breaks them
is accepted and misread; the ones shipped keep them.
`ReportIsShort` (PowerHintSession): a report ends before its own session
goes stale, 20 frames later: without it a report that is suspended between
two locks leaves a boost nobody watches.  `MaySend` (GnssAdapter, but for
`hurry`), the framework's patience (Geofences) and `"each"` (Batching): a client waits for the answer
to its last command of a session or fence; section 6 says what happens otherwise.
`Patient`, the hypothesis of `AgreementSafe`, is the weaker part of it that the proof
needs: a client may start, stop and leave in a hurry, but not change its sessions.
`GnssAdapter` further assumes that no engine hub library is installed and that
the modem supports tracking by distance.

## 5. What is proved

TLAPS checks, for every value of the constants that satisfies the assumptions:

| theorem | says |
| --- | --- |
| `NodeLooperProofs!TypeCorrect` | `Spec => []TypeOK` |
| `NodeLooperProofs!NothingSleptThrough` | `Spec => []NoMissedExpiry` |
| `NodeLooperProofs!RequestsKept` | `Spec => KeptUntilEnd` |
| `NodeLooperProofs!HeldTillRefused` | `Spec => []HeldUnlessRefused` |
| `InteractionHandlerProofs!TypeCorrect` | `Spec => []TypeOK` |
| `InteractionHandlerProofs!NothingStale` | `Spec => []NoStaleAbort` |
| `InteractionHandlerProofs!HintFollowsState` | `Spec => []HintMatchesState` |
| `InteractionHandlerProofs!ImplementsLease` | `Spec => IsLease` |
| `PowerProofs!TypeCorrect` | `Spec => []TypeOK` |
| `PowerProofs!ModesKept` | `Spec => []ModesSurvive` |
| `PowerProofs!HintsKept` | `Spec => []HintsHold` |
| `PowerHintSessionProofs!TypeCorrect` | `Spec => []TypeOK` |
| `PowerHintSessionProofs!OneTimerEach` | `Spec => []OneTimer` |
| `PowerHintSessionProofs!BoostsWatched` | `Spec => []BoostIsWatched` |
| `PowerHintSessionProofs!CountsHeld` | `Spec => []RefCountsHeld` |
| `RequestProofs!TypeCorrect` | `Spec => []TypeOK` |
| `RequestProofs!SubscribersAreHeld` | `Spec => []SubscribersHeld` |
| `RequestProofs!Agrees` | `Spec => []AgreesWhenQuiet` |
| `RequestProofs!RequestsKept` | `OdcpiSpec => []OdcpiKept` |
| `RequestProofs!ConsentKept` | `NiSpec => []NiAnswered` |
| `RequestProofs!StatusSafe` | `XtraSpec => []StatusTold` |
| `GnssAdapterProofs!TypesSafe` | `Spec => []TypeOK` |
| `GnssAdapterProofs!BooksKept` | `Spec => [](Types /\ Books)` |
| `GnssAdapterProofs!AnsweredSafe` | `Spec => []AnsweredOnce` |
| `GnssModemProofs!AgreementSafe` | `Spec /\ Patient => []ModemAgrees` |
| `GnssModemProofs!ConfigurationSafe` | `Spec => []ModemConfigured` |
| `ThermalHelperProofs!Typing` | `Spec => []TypeOK` |
| `ThermalHelperProofs!DevicesAgree` | `Spec => []CdevsAgree` |
| `ThermalHelperProofs!InTimeRead` | `Spec => []ReadInTime` |
| `ThermalHelperProofs!EveryoneTold` | `Spec => []ListenersTold` |

**NodeLooper.**  `IInv == TypeOK /\ PassInv`.  `NoMissedExpiry` speaks of the
sleeping looper only and says nothing of how it got there.  `PassInv` says what
a pass leaves behind until the next: each node is *fresh* (no higher value is
asked for, and the looper wakes before the request that justifies the present
value ends) or its write was refused and a repetition is due.  The clock keeps
it because all times shrink alike (`TickFresh`); a second pass establishes it
because the sleep is at most each node's vote (`SecondPassFresh`); a call
ends the sleep.  That a node always has exactly one target value
(`TargetExists`, `TargetUnique`) rests on the least element of a set of
naturals (`LeastNat`), proved from the library's well-founded order.
`HeldUnlessRefused` speaks of the waiting looper only; `HeldInv` drops that
condition and is kept by every action, because only a pass touches a node's
value, and one whose write is not refused sets the node to its target and opens
its descriptor, or leaves both as they are.

**InteractionHandler.**  `IInv` joins to the two invariants where the thread can
be in each state and what the descriptor's counter can be there (`EventInv`),
that the wait in progress covers the last grant (`TimeInv`), and what a handler
without its thread holds (`OwnerInv`).  `FinalDurationGranted` shows that every
integer, overflow included, is granted something between minimum and maximum.
The refinement adds `PromiseInv`: the history variable equals what the handler's
own state says is left of the last grant; then each step maps to a step of the
lease or to a stutter.

**Power, HintManager, HintConfig.**  `TypeOK` is more than types.  That an accepted
document makes sense (`ActionsLand`) follows from what the parser checks
(`NodesParsed`, `NodeActionParsed`, `HintsParsed`): names and values are distinct, so
what a node action finds is what it named, and a second action on a node is refused.
That the unsigned `duration_ms` stays a natural number needs `SpansOK`, a hint
starts neither after it ends nor in the future, kept although `EndHint` leaves
`start_time` behind and another thread may do the hint between the steps of a call.
`StepsOK` types the stacks: the later steps of a call are about hints there are, since
the first one looked (`Fit`), however deep hint actions nest (`ActionsFit`).  A
property names a recorded mode or nothing, through any number of deaths
(`ValueFits`).  Each step of the service is one of HintManager's, or none
(`ServiceCalls`), so the two parts are proved apart.

`ModesSurvive` speaks of the moments between two calls of a service that is up; `KInv`
says what holds of the steps until then.  `CallsOK` says what a thread may still have to do
(`Allowed`): only the binder thread acts on a recorded mode's hint, asks for all of it
and without end, never masks it, and ends none that the framework has on; so its
request is none or for ever.  A mode is `Coming` when it is on or a step of the call
that asks for it is yet to come: `AskedOK` says this of each mode the framework has on
whose property this process has looked at, which is every one once it serves.
`LooperOK` says that a property is as the looper last set it, until init forgets
it, and that a node this process never set is taken for its default.  That the
looper writes the right thing needs that the value it finds is asked for by that
mode's hint (`AskedValue`), which is where `ModesRecorded` is used.

`HintsHold` speaks of the moments when no call is under way; `WInv` adds to that
invariant what the stacks owe until then.  `RightOK` says which steps a
thread may still have to take, by what its calls lead to (`Led`, the least set closed
under hint actions), and `LockOK` that two threads are never about `INTERACTION` at
once; with `WritersAssumption` this gives each hint that masks or ends its one writer.
`PairsOK` (each request is followed by its status, each cancellation as well) carries
`StatusOK`: the statistics of a hint cover its request or the `doStatus` that will is on a
stack, and a hint that nobody ends has not counted more than the time before its
present start.  `MasksOK` is the heart: in every stack, a step that marks the hint
that masks as done or ended is followed by the step that moves the flag, with
nothing that concerns the two in between (`Held`), and a flag that does not agree with
the mark yet is owed by some thread (`Owed`).  A call replaces its first step by
several (`New`), which deep in a nesting of hint actions must not come between a mark
and its flag: that holds since what a hint leads to does not lead back to it
(`NewElsewhere`, `OwnFits`, `HeldAfter`); that no other thread comes in between is
`OneMasker`'s, the single writer.

**PowerHintSession.**  `TimerInv` adds to `OneTimer` that a handler has taken its
message, that an open session said to be monitored is, and that a handler about
to unclamp keeps seeing an outdated session, since nobody reports against its
lock.  `ReportInv` says that a boost that was reported is one said to be
monitored, and that a report is not yet stale between its two steps
(`ReportIsShort`); together they give `BoostIsWatched`.  `RefCountsHeld` is
inductive once a session is counted before it is in the set, and once only
(`SessionsInv`, `BinderInv`); the counting is done on finite sets of pairs of a
session and a place in its list (`Named`), so that a list may name a thread twice.

**Agps.**  `TypeOK` and the two halves of `SubscribersHeld` (the list is empty
exactly in RELEASED; what the modem takes for open is in the list of an acquired
machine) are inductive only together: that no handle stays open when the list is
dropped needs that all open ones were in it, and that nobody is open in RELEASED
or PENDING.  The lemma `NotifyEffect` states what telling a set of handles does;
there is one lemma for each event of the machine.

`AgreesWhenQuiet` speaks of empty queues; `AgreeInv` says what the queues hold
until then: a call that is held is open or the message of its loss is there
(behind the one that said it was open, hence `LostIsTold`, about the order of
the two), one that is waited for is asked for, being opened or answered, and
the last thing the framework is asked is what the machine wants now.

**Odcpi.**  The framework is not asked twice within the delay because the timer's
time and the time since the last request add up to the delay (`TimerAccounts`),
and, until an emergency restarts the timer, the message of its expiry is there
at most once and only after it has stopped (`ExpiresOnce`).  Both positions of a
queue matter there: that the message is the only one is kept when another is taken.

**NiRequests.**  `NiIInv` keeps account of each request (`NoteKept`: its session is
occupied by it exactly while its thread waits; the modem is informed at most
once, of what the thread took), of each message (`MsgKept`: an answer on its way
is that of a thread which is done) and of each session (`SessionKept`: the
response it holds, or the handler is about to record, was given to the request
that occupies it, or the request is `disturbed`).  `Evolves` says that nothing
that was asked or said is forgotten, which makes each account stable
(`NoteFrame`).

**DataItems, Xtra.**  `StatusTold` speaks mostly of an empty queue; `IStatus` says what the
queue owes until then, one part for each copy of what was reported.  `Delivered`: an
observer that has an item in its map knows what the record has of it, or the last message
that brings it the item brings that (`Unheard`: of an item never reported, no message
tells).  It is kept since a subscription
and a report each send what is recorded then, and the queue is handled in order.
`Accounted`, as long as the order or the number of the networks has not `muddled` the
table: the recorded report is that of the networks at some earlier time, and the
events in the queue lead from those to the ones there are now.  The proof names that path of
lists (`Path`) and shows that one more event prolongs it, and that the one
handled makes the record the report of the next list; for that the table is the list
itself, the newest in the first free slot, and the network that goes was in the last
slot taken, in a full table too.
`Heard`: a daemon that is up is `Informed`, or its request for the status
waits, or it waits for the timer that tells it of the HAL; a daemon that dies forgets,
hence is not informed, and asks as it returns.  `Sourced` keeps account of the
source: the daemon runs the one remembered, or none while its request waits, and the
one remembered is that of the parameters while the flag says it was started.

**GnssAdapter.**  A handler is an operator that goes through others, each with
branches of its own.  One lemma for each (`StartMakes`, `UpdateMakes`, ...) says what it
makes, whatever branch is taken: which sessions, which requests, which answers;
the removal of a client and the multiplexing of a fix, which go through maps in the order of their
keys, are recursive functions whose steps `Induction` gives.  With these `TypeOK` is
inductive once it is said of what is in the two queues (`Types`).

`AnsweredOnce` speaks of an adapter and a modem with nothing to do.  Until then a command is
under way as a message, as a message put off, as what a request captured, or as the response
that will take it up; `About` counts these, and `Owed` says that what is under way about a session is
never more than the answers its client expects, and exactly that while nothing failed
and the client is there.  Each handler is thus balanced: what it takes, it
passes on or answers (`Balance`, `OwedTo`).  The rest is what keeps an answer from being
lost: a client is registered before its commands and until its removal (`Comings`), nothing
is restarted, and no session kept by the modem, before the capabilities are known
(`Boots`), and a modem that failed nothing answers with success (`Succeeded`).

`ModemAgrees` (in `GnssModemProofs`) speaks of the same moments.  Until then the last request in
LocApi's queue about a thing says what the modem will be (`FixTo`, `DistanceTo`, `LockTo`, ...),
and each handler keeps these equal to what it records.  For the configuration that is the whole
argument (`ConfAgrees`, hence `ConfigurationSafe`), and nearly so for the shared fix
(`FixAgrees`), once a restart's message has been handled (`Fresh`).  A session with a
distance is recorded, erased or recorded again by responses, long after the request; what is under
way about it is therefore counted by kind (`Under`), and `Accounts` says which amounts go
with which records: a session whose start waits has nothing else, one that is time-based has
nothing under way of its distance, one to be erased for good is of a client that was
removed.  Every message makes one of a dozen changes of one session (`Row`), or removes a
client's; each handler is shown to make one of them, and each of them to keep the accounts.  A
response that records a session again needs that the modem has it, or that it is
erased after it (`RestartsInApi`, `RestartsInQueue`); and no command is overtaken by
its client's removal, but those that waited for the capabilities (`Overtaken`).
`Patient` says that clients in a hurry change no session: `gnss_stopped` shows one
that does, and leaves a session recorded for nobody, which the modem does not serve
before its next restart.

**ThermalHelper.**  `IInv` joins seven parts, one for each thing the four properties
relate.  `ConfOK` is what an accepted document gives (from `DocsAssumption`), and
`SensingOK` types the maps and says that a device written stands at its highest
request and that what a cool sensor asked was taken back.  A step of the thread
is proved from the inside out: what one device's release does (`ReleasedUpdate`),
what one sensor's visit keeps (`StatusRead`, `SensorVisited`), what all visits keep
(`AllVisited`, by induction over their order), and then the action.  `ReadInTime` is not
inductive, as it says nothing of the sleep: `AgesOK` adds that a sensor was read before the
sleep began (`elapsed <= age`) and that the sleep ends before the reading is too
old (`age + sleep <= delay + minimum + elapsed`), and `WatcherOK` that an event
extends a sleep by at most itself (`elapsed <= 2 * sleep`); twice the sleep is the
sum of the two.  `HintsOK` adds to `HintsAgree` that only supported hints are held and
that nothing was sent for a sensor whose row is not filled, or it counts as
`early`; `ToldOK` adds to `ClientsTold` that only those are told who registered.

**Induction.**  The library's induction theorems take an operator as a parameter,
which the provers cannot instantiate.  `Induction` states it for a set of naturals
instead, from their being well founded; with it the loops written as recursive
functions, and the least and the greatest of a finite set (`Least`, `Greatest`), are
within reach.

**Model-checked only.**  Liveness (outside TLAPS's reach), and all of `LocTimer`
(whose heap is recursive, out of the provers' reach), `Geofences` and `Batching`.
`FencesAsTold` holds under what the instance says of its caller (a framework that
waits): to prove it, that must first become an assumption on the constants.

## 6. Where code and comments disagree

Shown by runs:

* `looper_stop`: `Stop` signals the looper and sets the exit flag under `lock_`,
  but the flag is tested outside it (`Thread::_threadLoop`).  Signalled between
  that test and the wait, the looper sleeps on without a limit and `Stop` never
  returns from `join`; the header promises a wait of at most 60 s.
* `agps_bad_apn`: an APN that is refused is reported as a close, which a machine
  that waits for the connection ignores; the modem is never answered.
* `gnss_stopped`: the answer to an update that failed saves the session's old
  options again, also when the session was stopped meanwhile; it stays in the map
  and is restarted with the modem.

Met while modelling, without a run of their own:

*Power service.*  `setMode(SUSTAINED_PERFORMANCE, false)` ends nothing and marks
the mode as on (`Power.cpp:98`), so the hint stays, and from then on every boost of
`Power` and `LAUNCH`, its end included, is ignored until the process dies.  A mode
that is restored and ended before the looper's first pass leaves its property:
the looper takes the node for reset already, and the next process turns the mode
on again (`ModesSurvive` is about modes that are on).  Between init's `setprop`
and its `restart` the looper may write a property once more.  The parser accepts
hint actions about hints that do not exist and cycles of them (a cycle recurses
without end), refuses the type `"Node"` although it is the default, and reads
`Value` and `Node` where `config_schema.json` asks for `ValueIndex`.  No hint of
`powerhint.json` is called `ADPF_DISABLE_TA_BOOST`, the one PowerSessionManager does
unless a property names another.
`DoHint` and `EndHint` of one hint in two threads may leave it requested with
statistics that say it is over; the service's own callers do not meet so.
`EndHintStatus` records the span since the start and the next
`DoHintStatus` records it again; `StatusHolds` states the part that holds.  A
thread whose task profile could not be set has no entry in the map, and closing
its session runs into what the code calls an unexpected error; `RefCountsHeld`
is the part that holds.  A report after `close` may find `mIsMonitoringStale`
still set, its message removed, and arm no timer: that boost stays.  A refused write of a `hold_fd` node has already closed
the descriptor of the value in force (`FileNode.cc:65` against the comment at
line 78); `HeldUnlessRefused` excludes it.

*AGPS.*  The refusal of a withdrawn request is taken for the answer to the next
one, whose grant is then ignored; the connection is kept without a subscriber.
`AgpsManager::handleModemSSR` (`Agps.h`: "Drop all subscribers, in case of Modem
SSR") has no caller: `Agps!restart` leaves the list alone.

*Thermal.*  An event of a zone nobody monitors starts the whole sleep again
(`ReadInTime` allows for it).  A device that refused a state is not written
again before a request changes (`CdevsAgree`, `unsynced`).  Hints sent before the
table of supported ones is filled are lost, and a power HAL that died ends the
connection for good (`HintsAgree`, `early`).  When no sensor votes, the sleep is
`milliseconds::max()`, which becomes an endless poll.  A virtual sensor without
readable links reads 0.  A zero PID weight asks for the device's highest state.
The warning "a Thermal callback is dead" is logged for any death.

*GnssAdapter.*  A start that is refused erases its session although a later
update of it, already in LocApi's queue, succeeds.  `EngineUp` reads
`mBlacklistedSvIds` while a configuration that changes it is in LocApi's queue,
which then sets it on its own thread.  A start without callbacks or with options
of size 0 is never answered (lines 2873 to 2917), nor is an update from distance
to distance whose stop is refused (line 3141).  A distance session that is being
stopped while the modem restarts is started again (`ModemServes` says "subset").
The merged power mode may be weaker than a session's own.

*Network initiated requests.*  The wait ends with "Reset the user response flag
for the next session" (`GnssAdapter.cpp:4336`), but a response that was
checked against an open session before (line 3382) and is recorded after (line
3402) sets it again: the next request is answered at once, by the user's response
to the last one or as ignored.  `respTimeLeft` and `reqID` are reset after the
lock was given back (line 4358) and may be the next request's, which then times
out at once, or whose response is of an unknown id; the framework might even be
shown the id 0, which the model leaves out.  `NiAnswered` excludes these
requests (`disturbed`).  A request that is no emergency is never answered when no
client has a callback or an emergency is open, nor is any whose own session is
taken, nor one that an accepted emergency made ignored.  A restart of the modem leaves the sessions:
`loc_eng_ni_reset_on_engine_restart`, which the comment at line 4338 counts on,
does not exist.

*Positions on demand.*  An emergency restarts the timer when the message of its
expiry may be on its way: the message then asks the framework again, early,
"to avoid spamming" notwithstanding (`raised`).  A request that is no emergency
replaces the emergency kept for repetition while that is active.

*Timers.*  The message of an expiry pops the first timer without comparing its
time (`LocTimer.cpp:370` against the comments at lines 356 and 368): if the due
one is stopped while the message is on its way, a later one is called early.
Removing the last timer does not disarm the descriptor.  `expire` reads the
delegate's client without the lock: a stop and start in between calls the new
timer early, a deletion calls an object that is gone (`misused`).

*Data items.*  `LocUnorderedSetMap::update` promises the values "in effect removed"
and returns those the client keeps: `updateSubscription` takes the client off
the items it keeps, and leaves it on those it gave up.  Nothing in the repository
calls it; `SubscriptionsAgree` and `SubscribersTold` except its callers
(`updaters`).  `removeAndReturnInterset` goes on from an iterator it has erased,
and `trimOrRemove` reads the key of an entry it has erased
(`LocUnorderedSetMap.h:145`): memory just freed by the same thread, with nothing
allocated in between, which the model takes to hold what it held.  A request
for an item makes its client the item's subscriber, but never subscribes it at the
framework, nor does a later subscription of it (`everRequested`).  `collate`
fills the place of a handle that goes from the first free slot unless the table is
full, which leaves a hole that hides what follows; it forgets every other type
when another handle of the type is left, and records the first event as a
connection even if it is a loss; `equals` compares only handles, so a change of types
is not passed on.  `NetworksRecorded` is about the orders it is made for
(`muddled`).

*XTRA and corrections.*  `handleEnablePPENtrip` compares
`params.requiresNmeaLocation` with itself (`GnssAdapter.cpp:6454`): a client that
changes only that is ignored.  It also forgets that a source runs before the next
has started; if that one waits for a location, nothing stops the first
(`superseded`).  The end of any one tracking session stops the source, although others go on
(`eraseTrackingSession`), until the next session or location.  The answer to the
daemon's request leaves out the throttle, which a daemon that returns does not
learn.  `AGnssRil::updateNetworkState` passes 0 as the type and the type as `roaming`.

*Geofences.*  Answers pop the oldest request (`LocationAPIClientBase.cpp:931`)
while `LocationAPI.h:131` lets clients "match command with response": a framework
that does not wait, as one that pauses right after adding, is given one call's
answer as another's.  A refused resume is never answered
(`GeofenceAdapter.cpp:507`), a refused modification told as success.  Refused
additions stay in the dictionary; adding an id twice leaks the first fence.  What
the modem refuses to restore is lost from the adapter too; the adapter then
records every restored fence as running, so a second restart resumes those that
were paused.  A removal or an addition under way when the client is removed, or
the modem restarting then, leaves fences nobody can remove.  A command keeps the modem's
number it has looked up: after enough restarts in between, that is another fence's
(`FencesAsTold` is stated up to two).  `resume` changes
the client's filter of breaches, never the modem's.
`locAPIRemoveAllGeofences` passes sessions where ids are expected, and
`locAPIModifyGeofences` the whole array where one that skips unknown ids is
meant.  `LocationAPI::destroy` and the last adapter's completion may race over
the object (`misused`).

*Batching.*  A refused stop restores the options meant for the next start instead
of the session's own, against "Assume stop will be OK, restore session if not"
(`BatchingAdapter.cpp:507` to 514): a session without automatic reports gets
some.  A trip that joins another never enters `mBatchingSessions`, so its stop
and its update are neither done nor answered; the first trip stays there when
it is complete, and is counted twice before and once after, so the mask of full
batches stays.  A stop of it then goes to the modem as that of a session, is
refused, and records a session nobody has.  `restartSessions` means to
"reset the accumulatedDistanceOngoingBatch for each session" but resets a copy
of each (`for (auto tripSession : ...)`), so the next report is below what the
trip started from, the unsigned difference is huge and the trip is said to be
complete (`muddled` excludes it).  `reportCompletedTrips` reads the trip it has
erased, `stopTripBatchingMultiplexCommon` one it did not find.  The flags that a
trip was dropped are never reset.  A start while the last trip is being stopped
is never served; a restart under way then leaves the modem a trip nobody has.
A trip is answered as started although it was not added, when the query failed
and no restart was needed.  An update is answered twice, and one from batching
to batching passes neither interval nor distance.

## 7. What is not modelled

*Within the modelled parts*: dumps and getters; the syntax of JSON; the modes
of `Power` that no hint depends on (tap to wake, refresh rate), DisplayLowPower's
socket, whose command has no caller; the arithmetic of the PID controller of sessions (a report may ask for any boost),
changes of a session's target duration, the session's destructor; APN, bearer and type of a data call; the second AGPS machine
(`mInternetNif`), an instance of the same class that the HAL's callbacks never
answer; CPU usages, the window of power samples and virtual rails (the average
of a rail is any), the netlink handshake; reports, aiding
data and the engine hub in `GnssAdapter`; breach and status
reports, capability requests and commands on several fences at once in
`Geofences`; the sentences `SystemStatus` parses, `turnOn`, `turnOff`, the backhaul
and the loading of items' classes in `DataItems`; the throttle and the sentences sent to a running
source in `Xtra`; reports of locations, sizes, accuracy and timeouts, calls refused
for their parameters, further clients and sessions switched between tracking and
batching in `Batching`; the destruction of tasks under timers.

*Other parts*: everything `PROJECT.json` lists as `not_modelled`, with the
reason there: planned (below), pure I/O, formatting and parsing, straight-line
boot code, user interface, data.

## 8. Plan

Done: the power service, AGPS, thermal, tracking sessions, timers,
geofences, batching, network initiated requests, positions on demand, data items
and the XTRA observer.  What remains, by what it would add:

| modules | about | properties |
| --- | --- | --- |
| `MsgTask` (queue, task, destroy), abstract FIFO `MsgChannel` | refinement | messages handled once, in order, or dropped by destroy |
| `LocApi` dispatch and masks, reports of `GnssAdapter` | | masks are the union of adapters' |
| `PowerHintPid` | the controller's integer arithmetic | clamps |
| `FodStatus`, lights, ids of power stats | | as room allows |

Proofs to add: `FencesAsTold` and `AnsweredOnce` of `Geofences`, with what its caller waits
for as an assumption, `SessionsServed` and `TripsKept`.
