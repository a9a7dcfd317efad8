------------------------------ MODULE GnssAdapter ------------------------------
(***************************************************************************)
(* Tracking sessions and control of the GNSS HAL: GnssAdapter              *)
(* (gps/gnss/GnssAdapter.cpp) over LocAdapterBase (gps/core) and the modem *)
(* behind LocApiBase, whose implementation is a vendor library.            *)
(*                                                                         *)
(* Three parties exchange messages.  Clients post commands to the          *)
(* adapter's queue.  The adapter's thread handles one message at a time    *)
(* and posts requests to the queue of LocApi, whose thread performs them,  *)
(* in order, on the modem and posts each one's response, a continuation    *)
(* (LocApiResponse), back to the adapter.  The modem may refuse a request, *)
(* and may die and come back empty, which the adapter is told of by        *)
(* handleEngineUpEvent; it then restores everything it has recorded.       *)
(*                                                                         *)
(* The modem runs one time-based fix for all the sessions: the adapter     *)
(* multiplexes them.  A session's key is <<client, id>>, a client's number *)
(* its place in the order of their addresses.  No engine hub library is    *)
(* installed (mNHzNeeded stays false, mEngHubProxy does nothing), and the  *)
(* modem supports distance-based tracking.                                 *)
(***************************************************************************)
EXTENDS Integers, SequencesExt, FiniteSetsExt, Functions

CONSTANTS NumClients,
          OptionSet,       \* what clients ask for
          Uses,            \* what a behaviour has: commands, "boot", "hurry", "refuse", "die"
          MIN_TRACKING_INTERVAL,
          TRACKING_TBM_THRESHOLD_MILLIS,
          ConfigSet,       \* configurations the control client asks for
          MaxCalls,        \* commands of a behaviour, for each of Uses
          MaxRestarts,     \* deaths of the modem
          MaxQueue         \* commands in the adapter's queue

Clients == 1..NumClients
Ids == UNION {1..MaxCalls[u] : u \in Uses}
Keys == Clients \X Ids
M2 == 2
M4 == 4
MO == "MO"
NI == "NI"

\* TrackingOptions; its constructor sets the size.
Options == [size : {0, 1}, minInterval : Nat, minDistance : Nat, powerMode : 0..5, tbm : Nat]
NoOptions == [size |-> 0, minInterval |-> 0, minDistance |-> 0, powerMode |-> 0, tbm |-> 0]
NoFix == [minInterval |-> 0, powerMode |-> 0]

ASSUME ConstantsAssumption ==
    /\ NumClients \in Nat /\ MaxRestarts \in Nat
    /\ MaxCalls \in [Uses -> Nat]
    /\ MIN_TRACKING_INTERVAL \in Nat \ {0}
    /\ \A o \in OptionSet : o \in Options /\ o.size = 1
    /\ \A config \in ConfigSet :
         "GPS_LOCK" \in DOMAIN config => config["GPS_LOCK"] \subseteq {MO, NI}

VARIABLES use,         \* what this behaviour has
          calls,       \* the commands they sent
          live,        \* clients that have not been destroyed
          started,     \* sessions their clients started and did not stop
          queue,       \* the adapter's MsgTask
          api,         \* LocApi's MsgTask
          modem,       \* [up, fix, distance, lock, version, blacklist]
          restarts,
          timeBased,   \* mTimeBasedTrackingSessions
          distanceBased, \* mDistanceBasedTrackingSessions
          mPendingMsgs,
          known,       \* isEngineCapabilitiesKnown
          mClientData, \* whether the callbacks of each client let it track
          mAfwControlId,
          mSupportNfwControl,
          mGps_conf,   \* [GPS_LOCK, SUPL_VER]
          mBlacklistedSvIds,
          unanswered,  \* commands of each session, less their responses
          failed       \* a request failed, and not all was quiet when the modem restarted

clientVars == <<use, calls, live, started>>
sessions == <<timeBased, distanceBased, mPendingMsgs, known, mClientData>>
configuration == <<mAfwControlId, mSupportNfwControl, mGps_conf>>
vars == <<clientVars, queue, api, modem, restarts, sessions, configuration,
          mBlacklistedSvIds, unanswered, failed>>

-----------------------------------------------------------------------------
(* What the adapter does while it handles a message: the sessions, the       *)
(* requests to LocApi and the responses to clients so far.                   *)

Handling == [time |-> timeBased, distance |-> distanceBased, requests |-> <<>>,
             answers |-> <<>>]

Request(h, r) == [h EXCEPT !.requests = Append(@, r)]
reportResponse(h, key) == [h EXCEPT !.answers = Append(@, key)]
Drop(f, key) == Restrict(f, DOMAIN f \ {key})
With(f, key, o) == [k \in DOMAIN f \cup {key} |-> IF k = key THEN o ELSE f[k]]

\* Mutant: every session is saved as time-based.
saveAllTimeBased(h, key, o) == [h EXCEPT !.time = With(@, key, o)]

saveTrackingSession(h, key, o) ==
    IF o.minDistance > 0 THEN [h EXCEPT !.distance = With(@, key, o)]
    ELSE [h EXCEPT !.time = With(@, key, o)]

eraseTrackingSession(h, key) ==
    IF key \in DOMAIN h.time THEN [h EXCEPT !.time = Drop(@, key)]
    ELSE [h EXCEPT !.distance = Drop(@, key)]

\* Sessions in the order of their map.
KeyBefore(k, l) == k[2] < l[2] \/ (k[2] = l[2] /\ k[1] < l[1])
First(S) == CHOOSE k \in S : \A l \in S \ {k} : KeyBefore(k, l)
InOrder(S) ==
    CHOOSE s \in [1..Cardinality(S) -> S] : \A i, j \in DOMAIN s : i < j => KeyBefore(s[i], s[j])
OptionsInOrder(f) == [j \in 1..Cardinality(DOMAIN f) |-> f[InOrder(DOMAIN f)[j]]]

\* "find the smallest interval and powerMode": the first of the smallest.
SmallestInterval(f) ==
    LET smallest == {k \in DOMAIN f : \A l \in DOMAIN f : f[k].minInterval <= f[l].minInterval}
    IN  IF f = <<>> THEN NoOptions ELSE f[First(smallest)]
SmallestPowerMode(f) ==
    FoldLeft(LAMBDA p, o : IF p = 0 \/ o.powerMode < p THEN o.powerMode ELSE p,
             0, OptionsInOrder(f))

\* Of the options, the modem's fix has the interval and the power mode.
startTimeBased(o, then) ==
    [do |-> "startFix", fix |-> [minInterval |-> o.minInterval, powerMode |-> o.powerMode],
     then |-> then]
Then(cont, key, o) == [cont |-> cont, key |-> key, options |-> o]
NoThen == [cont |-> "none"]

startTimeBasedTracking(h, key, o) ==
    Request(h, startTimeBased(o, Then("started", key, NoOptions)))

\* Mutant: answers at once though it restarted the fix.
startAndReport(h, key, o) ==
    LET m == SmallestInterval(h.time)
    IN  IF o.minInterval < m.minInterval \/ h.time = <<>>
        THEN <<startTimeBasedTracking(h, key, o), TRUE>> ELSE <<h, TRUE>>

\* The session being started is not yet recorded.  Each returns what it did and
\* whether to answer the client at once.
startTimeBasedTrackingMultiplex(h, key, o) ==
    LET m == SmallestInterval(h.time)
        faster == o.minInterval < m.minInterval
        stronger == o.powerMode < SmallestPowerMode(h.time)
        merged == [m EXCEPT !.minInterval = IF faster THEN o.minInterval ELSE @,
                            !.powerMode = IF stronger THEN o.powerMode ELSE @]
    IN  IF h.time = <<>> THEN <<startTimeBasedTracking(h, key, o), FALSE>>
        ELSE IF faster \/ stronger THEN <<startTimeBasedTracking(h, key, merged), FALSE>>
        ELSE <<h, TRUE>>

updateTrackingMultiplex(h, key, o) ==
    LET old == h.time[key]
        others == Drop(h.time, key)
        m == SmallestInterval(others)
        faster == o.minInterval < m.minInterval
        stronger == o.powerMode < SmallestPowerMode(others)
        merged == IF others = <<>> THEN o
                  ELSE [m EXCEPT !.minInterval = IF faster THEN o.minInterval ELSE @,
                                 !.powerMode = IF stronger THEN o.powerMode ELSE @]
        changed == old.minInterval # o.minInterval \/ old.powerMode # o.powerMode
    IN  IF changed /\ (faster \/ stronger \/ others = <<>>)
        THEN <<Request(h, startTimeBased(merged, Then("updated", key, old))), FALSE>>
        ELSE <<h, TRUE>>

stopTracking(h, key) == Request(h, [do |-> "stopFix", then |-> Then("answer", key, NoOptions)])

stopTimeBasedTrackingMultiplex(h, key) ==
    LET others == Drop(h.time, key)
        m == SmallestInterval(others)
        mode == SmallestPowerMode(others)
        leads == h.time[key].minInterval < m.minInterval \/ h.time[key].powerMode < mode
    IN  IF others = <<>> THEN <<stopTracking(h, key), FALSE>>
        ELSE IF leads
        THEN <<startTimeBasedTracking(h, key, [m EXCEPT !.powerMode = mode]), FALSE>>
        ELSE <<h, TRUE>>

\* Save the session, or erase it, then answer if nothing was asked of the modem.
Answered(h, atOnce, key) == IF atOnce THEN reportResponse(h, key) ELSE h

stopTimeBased(h, key) ==
    LET stopped == stopTimeBasedTrackingMultiplex(h, key)
    IN  Answered(eraseTrackingSession(stopped[1], key), stopped[2], key)

beginTimeBased(h, key, o) ==
    LET begun == startTimeBasedTrackingMultiplex(h, key, o)
    IN  Answered(saveTrackingSession(begun[1], key, o), begun[2], key)

startDistance(key, o, then) ==
    [do |-> "startDistance", key |-> key, options |-> o, then |-> then]
stopDistance(key, then) == [do |-> "stopDistance", key |-> key, then |-> then]

-----------------------------------------------------------------------------
(* Handlers of the commands of tracking.                                     *)

\* Intervals that are too short, and background modes that are too slow.
Raised(o) == [o EXCEPT !.minInterval = Max({@, MIN_TRACKING_INTERVAL})]
Normal(o) == [Raised(o) EXCEPT !.powerMode =
                 IF @ = M4 /\ o.tbm > TRACKING_TBM_THRESHOLD_MILLIS THEN M2 ELSE @]

hasCallbacksToStartTracking(c) == c \in DOMAIN mClientData /\ mClientData[c]

\* MsgStartTracking: errors found here are not reported.
StartTracking(h, key, o) ==
    IF ~hasCallbacksToStartTracking(key[1]) \/ o.size = 0 THEN h
    ELSE IF o.minDistance > 0
    THEN Request(saveTrackingSession(h, key, Raised(o)),
                 startDistance(key, Raised(o), Then("started", key, NoOptions)))
    ELSE beginTimeBased(h, key, Normal(o))

\* MsgUpdateTracking: the kind of session may change.
UpdateTracking(h, key, options) ==
    LET o == Normal(options)
    IN  IF key \notin DOMAIN h.time \cup DOMAIN h.distance \/ options.size = 0
        THEN reportResponse(h, key)
        ELSE IF key \in DOMAIN h.time /\ o.minDistance > 0
        THEN Request(saveTrackingSession(stopTimeBased(h, key), key, o),
                     startDistance(key, o, NoThen))
        ELSE IF key \in DOMAIN h.time
        THEN LET updated == updateTrackingMultiplex(h, key, o)
             IN  Answered(saveTrackingSession(updated[1], key, o), updated[2], key)
        ELSE IF o.minDistance = 0
        THEN Request(eraseTrackingSession(h, key), stopDistance(key, Then("switch", key, o)))
        ELSE Request(h, stopDistance(key, Then("restart", key, o)))

StopTracking(h, key) ==
    IF key \in DOMAIN h.time THEN stopTimeBased(h, key)
    ELSE IF key \in DOMAIN h.distance
    THEN Request(h, stopDistance(key, Then("stopped", key, NoOptions)))
    ELSE reportResponse(h, key)

\* The time-based sessions one by one, as the client were stopping them, but
\* that it is only told of what the modem answers.
stopClientSessions(h, c) ==
    LET Mine(f) == {key \in DOMAIN f : key[1] = c}
        Stopped(g, key) == eraseTrackingSession(stopTimeBasedTrackingMultiplex(g, key)[1], key)
        after[n \in 0..Cardinality(Mine(h.time))] ==
            IF n = 0 THEN h ELSE Stopped(after[n - 1], First(Mine(after[n - 1].time)))
        distance == InOrder(Mine(h.distance))
        Stop(key) == stopDistance(key, Then("erase", key, NoOptions))
    IN  [after[Cardinality(Mine(h.time))] EXCEPT
            !.requests = @ \o [j \in DOMAIN distance |-> Stop(distance[j])]]

suspendSessions(h) ==
    IF h.time = <<>> THEN h ELSE Request(h, [do |-> "stopFix", then |-> NoThen])

\* checkAndRestartTimeBasedSession: the smallest interval, and the options of
\* the session with the strongest power mode.
StrongestPowerMode(f) ==
    FoldLeft(LAMBDA m, o :
                IF m.size = 0 \/ (o.powerMode # 0 /\ o.powerMode < m.powerMode) THEN o ELSE m,
             NoOptions, OptionsInOrder(f))
checkAndRestartTimeBasedSession(h) ==
    IF h.time = <<>> THEN h
    ELSE Request(h, startTimeBased([minInterval |-> SmallestInterval(h.time).minInterval,
                                    powerMode |-> StrongestPowerMode(h.time).powerMode], NoThen))

\* Mutant: the distance-based sessions are forgotten.
restartTimeBasedOnly(h) == checkAndRestartTimeBasedSession(h)

restartSessions(h) ==
    LET distance == InOrder(DOMAIN h.distance)
        Start(key) == startDistance(key, h.distance[key], NoThen)
    IN  [checkAndRestartTimeBasedSession(h) EXCEPT
            !.requests = @ \o [j \in DOMAIN distance |-> Start(distance[j])]]

\* What a response of the modem continues with.
Continue(h, then, ok) ==
    CASE then.cont = "started" ->
             reportResponse(IF ok THEN h ELSE eraseTrackingSession(h, then.key), then.key)
      [] then.cont = "updated" ->
             reportResponse(IF ok THEN h ELSE saveTrackingSession(h, then.key, then.options),
                            then.key)
      [] then.cont = "answer" -> reportResponse(h, then.key)
      [] then.cont = "stopped" ->
             reportResponse(IF ok THEN eraseTrackingSession(h, then.key) ELSE h, then.key)
      [] then.cont = "erase" -> IF ok THEN eraseTrackingSession(h, then.key) ELSE h
      [] then.cont = "switch" -> beginTimeBased(h, then.key, then.options)
      [] then.cont = "restart" ->
             IF ok THEN Request(h, startDistance(then.key, then.options,
                                                 Then("restarted", then.key, then.options)))
             ELSE h
      [] then.cont = "restarted" ->
             reportResponse(IF ok THEN saveTrackingSession(h, then.key, then.options) ELSE h,
                            then.key)

-----------------------------------------------------------------------------
(* Steps of the adapter's thread.                                            *)

\* Answers only reach a client that is still registered.
Told(h, key) ==
    IF key[1] \in DOMAIN mClientData THEN Cardinality({j \in DOMAIN h.answers : h.answers[j] = key})
    ELSE 0

Commit(h) ==
    /\ timeBased' = h.time
    /\ distanceBased' = h.distance
    /\ api' = api \o h.requests
    /\ unanswered' = [key \in Keys |-> unanswered[key] - Told(h, key)]

Pend(m) ==
    /\ mPendingMsgs' = Append(mPendingMsgs, m)
    /\ UNCHANGED <<timeBased, distanceBased, known, mClientData, configuration, api, unanswered>>

\* A command of tracking; "distance based tracking will need to know engine
\* capabilities before it can start".
Track(m) ==
    /\ m.op \in {"start", "update", "stop"}
    /\ IF m.op # "stop" /\ ~known /\ m.options.minDistance > 0 THEN Pend(m)
       ELSE /\ Commit(CASE m.op = "start" -> StartTracking(Handling, m.key, m.options)
                        [] m.op = "update" -> UpdateTracking(Handling, m.key, m.options)
                        [] m.op = "stop" -> StopTracking(Handling, m.key))
            /\ UNCHANGED <<mPendingMsgs, known, mClientData, configuration>>
    /\ UNCHANGED failed

\* MsgRemoveClient: the sessions are stopped, then the client is forgotten.
RemoveClient(m) ==
    /\ m.op = "remove"
    /\ Commit(stopClientSessions(Handling, m.client))
    /\ mClientData' = Drop(mClientData, m.client)
    /\ UNCHANGED <<mPendingMsgs, known, configuration, failed>>

\* MsgAddClient, of createInstance and of updateCallbacks.
AddClient(m) ==
    /\ m.op = "add"
    /\ mClientData' = With(mClientData, m.client, m.tracks)
    /\ UNCHANGED <<timeBased, distanceBased, mPendingMsgs, known, configuration, api,
                   unanswered, failed>>

\* LocApiResponse: the continuation, with the modem's error.
Respond(m) ==
    /\ m.op = "response"
    /\ Commit(Continue(Handling, m.then, m.ok))
    /\ UNCHANGED <<mPendingMsgs, known, mClientData, configuration, failed>>

lockRequest(lock) == [do |-> "lock", lock |-> lock, then |-> NoThen]

\* MsgEnableGnss; the key is its session's.
Enable(m) ==
    /\ m.op = "enable"
    /\ LET opened == IF mSupportNfwControl THEN mGps_conf.GPS_LOCK \cap {NI} ELSE {}
       IN  IF mAfwControlId > 0
           THEN UNCHANGED <<api, configuration>>
           ELSE /\ api' = Append(api, lockRequest(opened))
                /\ mAfwControlId' = m.id
                /\ mGps_conf' = [mGps_conf EXCEPT !.GPS_LOCK =
                                    IF mSupportNfwControl THEN opened ELSE @]
                /\ UNCHANGED mSupportNfwControl
    /\ UNCHANGED <<sessions, unanswered, failed>>

\* MsgDisableGnss.
Disable(m) ==
    /\ m.op = "disable"
    /\ LET lock == mGps_conf.GPS_LOCK \cup (IF mSupportNfwControl THEN {MO} ELSE {})
       IN  IF mAfwControlId # m.id
           THEN UNCHANGED <<api, configuration>>
           ELSE /\ api' = Append(api, lockRequest(lock))
                /\ mAfwControlId' = 0
                /\ mGps_conf' = [mGps_conf EXCEPT !.GPS_LOCK = lock]
                /\ UNCHANGED mSupportNfwControl
    /\ UNCHANGED <<sessions, unanswered, failed>>

configRequest(requested, need) ==
    [do |-> "config", requested |-> requested, need |-> need, then |-> NoThen]

\* The lock MsgGnssUpdateConfig asks of the modem, the first time 'P' behaviour
\* is asked for while location is enabled, and otherwise; whether it must be set.
NewLock(lock) == IF mAfwControlId # 0 /\ mSupportNfwControl THEN {} ELSE lock \cup {MO}
LockIsSet == mAfwControlId # 0 /\ ~mSupportNfwControl

\* MsgGnssUpdateConfig.
UpdateConfig(m) ==
    /\ m.op = "config"
    /\ LET config == m.config
           flags == DOMAIN config
           locks == "GPS_LOCK" \in flags
           suspends == "MIN_SV_ELEVATION" \in flags
           requested == IF locks THEN [config EXCEPT !["GPS_LOCK"] = NewLock(@)] ELSE config
           need == {f \in flags : /\ f = "GPS_LOCK" => ~LockIsSet
                                  /\ f = "ASSISTANCE_DATA" => config[f] = "SUPL"}
           request == configRequest(requested, need)
           before == IF suspends THEN suspendSessions(Handling) ELSE Handling
           after == Request(before, request)
       IN  IF ~known THEN Pend(m)
           ELSE /\ Commit(IF suspends THEN restartSessions(after) ELSE after)
                /\ mGps_conf' =
                      [GPS_LOCK |-> IF locks THEN config["GPS_LOCK"] \cup {MO} ELSE mGps_conf.GPS_LOCK,
                       SUPL_VER |-> IF "SUPL_VERSION" \in flags THEN config["SUPL_VERSION"]
                                    ELSE mGps_conf.SUPL_VER]
                /\ mSupportNfwControl' = (mSupportNfwControl /\ ~locks)
                /\ UNCHANGED <<mAfwControlId, mPendingMsgs, known, mClientData>>
    /\ UNCHANGED failed

\* Mutant: the lock of a control session is forgotten.
setRecordedConfig ==
    LET all == [GPS_LOCK |-> mGps_conf.GPS_LOCK, SUPL_VERSION |-> mGps_conf.SUPL_VER,
                BLACKLISTED_SV_IDS |-> mBlacklistedSvIds]
    IN  configRequest(all, DOMAIN all)

\* What setConfig injects after a restart of the modem.
setConfig ==
    LET lock == IF mSupportNfwControl \/ mAfwControlId = 0 THEN mGps_conf.GPS_LOCK ELSE {}
        all == [GPS_LOCK |-> lock, SUPL_VERSION |-> mGps_conf.SUPL_VER,
                BLACKLISTED_SV_IDS |-> mBlacklistedSvIds]
    IN  configRequest(all, DOMAIN all)

\* MsgHandleEngineUpEvent: everything recorded is restored, and what waited
\* for the capabilities is handled after what is already queued.
EngineUp(m) ==
    /\ m.op = "engineUp"
    /\ known' = TRUE
    /\ Commit(restartSessions([Handling EXCEPT !.requests =
                 <<setConfig, [do |-> "blacklist", ids |-> mBlacklistedSvIds, then |-> NoThen]>>]))
    /\ mPendingMsgs' = <<>>
    /\ UNCHANGED <<mClientData, configuration, failed>>

Resent(m) == IF m.op = "engineUp" THEN mPendingMsgs ELSE <<>>

\* The adapter's thread.
HandleMsg ==
    /\ queue # <<>>
    /\ LET m == Head(queue)
       IN  /\ queue' = Tail(queue) \o Resent(m)
           /\ Track(m) \/ RemoveClient(m) \/ AddClient(m) \/ Respond(m)
              \/ Enable(m) \/ Disable(m) \/ UpdateConfig(m) \/ EngineUp(m)
    /\ UNCHANGED <<clientVars, modem, restarts, mBlacklistedSvIds>>

-----------------------------------------------------------------------------
(* LocApi's thread and the modem: external, but for gnssUpdateConfig, which  *)
(* runs on that thread.                                                      *)

Silent == [up |-> FALSE, fix |-> NoFix, distance |-> {}, lock |-> {}, version |-> 0,
           blacklist |-> {}]

\* What the modem is after it performed the request.
Performed(r) ==
    CASE r.do = "startFix" -> [modem EXCEPT !.fix = r.fix]
      [] r.do = "stopFix" -> [modem EXCEPT !.fix = NoFix]
      [] r.do = "startDistance" -> [modem EXCEPT !.distance = @ \cup {r.key}]
      [] r.do = "stopDistance" -> [modem EXCEPT !.distance = @ \ {r.key}]
      [] r.do = "lock" -> [modem EXCEPT !.lock = r.lock]
      [] r.do = "blacklist" -> [modem EXCEPT !.blacklist = r.ids]

\* gnssUpdateConfig: each flag asked for and needed is set by a call of its own.
\* The list of satellites is set whether needed or not.
gnssUpdateConfig(r, taken) ==
    [modem EXCEPT !.lock = IF "GPS_LOCK" \in taken THEN r.requested["GPS_LOCK"] ELSE @,
                  !.version = IF "SUPL_VERSION" \in taken THEN r.requested["SUPL_VERSION"] ELSE @,
                  !.blacklist = IF "BLACKLISTED_SV_IDS" \in taken
                                THEN r.requested["BLACKLISTED_SV_IDS"] ELSE @]

\* The list is recorded whatever the modem says of it.
gnssSvIdConfigUpdate(r) ==
    IF r.do = "config" /\ "BLACKLISTED_SV_IDS" \in DOMAIN r.requested
    THEN r.requested["BLACKLISTED_SV_IDS"] ELSE mBlacklistedSvIds

Parts(r) == IF r.do = "config" THEN r.need ELSE {"all"}

\* The request, any part of which a modem that is up may refuse.
LocApiStep ==
    /\ api # <<>>
    /\ LET r == Head(api)
       IN  \E taken \in SUBSET Parts(r) :
             LET ok == taken = Parts(r)
             IN  /\ taken # {} => modem.up
                 /\ modem.up /\ ~ok => "refuse" \in use
                 /\ modem' = IF r.do = "config" THEN gnssUpdateConfig(r, taken)
                             ELSE IF ok THEN Performed(r) ELSE modem
                 /\ mBlacklistedSvIds' = gnssSvIdConfigUpdate(r)
                 /\ failed' = (failed \/ ~ok)
                 /\ queue' = IF r.then = NoThen THEN queue
                             ELSE Append(queue, [op |-> "response", then |-> r.then, ok |-> ok])
    /\ api' = Tail(api)
    /\ UNCHANGED <<clientVars, restarts, sessions, configuration, unanswered>>

\* The modem loses everything.
ModemDies ==
    /\ modem.up
    /\ "die" \in use
    /\ restarts < MaxRestarts
    /\ restarts' = restarts + 1
    /\ modem' = Silent
    /\ UNCHANGED <<clientVars, queue, api, sessions, configuration, mBlacklistedSvIds,
                   unanswered, failed>>

\* It is up: handleEngineUpEvent.
ModemRises ==
    /\ ~modem.up
    /\ modem' = [modem EXCEPT !.up = TRUE]
    /\ queue' = Append(queue, [op |-> "engineUp"])
    /\ failed' = (failed /\ (api # <<>> \/ queue # <<>>))
    /\ UNCHANGED <<clientVars, api, restarts, sessions, configuration, mBlacklistedSvIds,
                   unanswered>>

-----------------------------------------------------------------------------
(* The clients: LocationAPI and the control client post commands.            *)

Id == calls + 1              \* generateSessionId

Post(op, m) ==
    /\ op \in use
    /\ calls < MaxCalls[use]
    /\ Len(queue) < MaxQueue
    /\ calls' = Id
    /\ queue' = Append(queue, m)
    /\ UNCHANGED <<use, api, modem, restarts, sessions, configuration, mBlacklistedSvIds,
                   failed>>

\* A client in a hurry does not wait for the answer to its last command of a
\* session, which nothing makes it do.
MaySend(key) == "hurry" \in use \/ unanswered[key] = 0
Expect(key) == unanswered' = [unanswered EXCEPT ![key] = @ + 1]

startTrackingCommand ==
    \E c \in live, o \in OptionSet :
      /\ Post("start", [op |-> "start", key |-> <<c, Id>>, options |-> o])
      /\ started' = started \cup {<<c, Id>>}
      /\ Expect(<<c, Id>>)
      /\ UNCHANGED live

updateTrackingOptionsCommand ==
    \E key \in started, o \in OptionSet :
      /\ MaySend(key)
      /\ Post("update", [op |-> "update", key |-> key, options |-> o])
      /\ Expect(key)
      /\ UNCHANGED <<live, started>>

stopTrackingCommand ==
    \E key \in started :
      /\ MaySend(key)
      /\ Post("stop", [op |-> "stop", key |-> key])
      /\ started' = started \ {key}
      /\ Expect(key)
      /\ UNCHANGED live

\* A client is removed when it is destroyed; it is added when it is created,
\* before anything here, and again with each change of its callbacks.
removeClientCommand ==
    \E c \in live :
      /\ Post("remove", [op |-> "remove", client |-> c])
      /\ live' = live \ {c}
      /\ started' = {key \in started : key[1] # c}
      /\ UNCHANGED unanswered

addClientCommand ==
    \E c \in live, tracks \in BOOLEAN :
      /\ Post("add", [op |-> "add", client |-> c, tracks |-> tracks])
      /\ UNCHANGED <<live, started, unanswered>>

enableCommand ==
    /\ Post("enable", [op |-> "enable", id |-> Id])
    /\ UNCHANGED <<live, started, unanswered>>

disableCommand ==
    \E id \in 1..calls :
      /\ Post("disable", [op |-> "disable", id |-> id])
      /\ UNCHANGED <<live, started, unanswered>>

gnssUpdateConfigCommand ==
    \E config \in ConfigSet :
      /\ Post("config", [op |-> "config", config |-> config])
      /\ UNCHANGED <<live, started, unanswered>>

Command ==
    \/ startTrackingCommand \/ updateTrackingOptionsCommand \/ stopTrackingCommand
    \/ removeClientCommand \/ addClientCommand
    \/ enableCommand \/ disableCommand \/ gnssUpdateConfigCommand

\* Before the modem is up for the first time, or after that was handled.
Boot ==
    IF "boot" \in use THEN modem = Silent /\ known = FALSE
    ELSE modem = [Silent EXCEPT !.up = TRUE, !.lock = {MO, NI}, !.version = 1] /\ known = TRUE

Init ==
    /\ use \in Uses
    /\ Boot
    /\ calls = 0
    /\ live = Clients
    /\ started = {}
    /\ queue = <<>>
    /\ api = <<>>
    /\ restarts = 0
    /\ timeBased = <<>>
    /\ distanceBased = <<>>
    /\ mPendingMsgs = <<>>
    /\ mClientData = [c \in Clients |-> TRUE]
    /\ mAfwControlId = 0
    /\ mSupportNfwControl = TRUE
    /\ mGps_conf = [GPS_LOCK |-> {MO, NI}, SUPL_VER |-> 1]
    /\ mBlacklistedSvIds = {}
    /\ unanswered = [key \in Keys |-> 0]
    /\ failed = FALSE

Next == Command \/ HandleMsg \/ LocApiStep \/ ModemDies \/ ModemRises

Spec == Init /\ [][Next]_vars

-----------------------------------------------------------------------------
(* Properties.                                                               *)

TypeOK ==
    /\ use \in Uses /\ calls \in 0..MaxCalls[use] /\ live \subseteq Clients /\ started \subseteq Keys
    /\ DOMAIN timeBased \cup DOMAIN distanceBased \subseteq Keys
    /\ \A key \in DOMAIN timeBased : timeBased[key] \in Options /\ timeBased[key].minDistance = 0
    /\ \A key \in DOMAIN distanceBased :
         distanceBased[key] \in Options /\ distanceBased[key].minDistance > 0
    /\ known \in BOOLEAN /\ failed \in BOOLEAN /\ mSupportNfwControl \in BOOLEAN
    /\ mPendingMsgs # <<>> => ~known
    /\ mAfwControlId \in 0..calls
    /\ mGps_conf.GPS_LOCK \subseteq {MO, NI}
    /\ ~mSupportNfwControl => MO \in mGps_conf.GPS_LOCK
    /\ restarts \in 0..MaxRestarts

Quiet == queue = <<>> /\ api = <<>> /\ modem.up

\* When nothing is under way, the modem runs exactly when there is a time-based
\* session, at least as often as the most frequent of them, and every
\* distance-based session, in whatever order sessions were started, changed and
\* stopped, the modem answered and the modem restarted, provided that it failed
\* at nothing, or that all was quiet when it restarted.  (MsgStartTracking,
\* MsgUpdateTracking, MsgStopTracking, restartSessions)
ModemServes ==
    Quiet /\ ~failed =>
      /\ (modem.fix = NoFix) = (timeBased = <<>>)
      /\ \A key \in DOMAIN timeBased : modem.fix.minInterval <= timeBased[key].minInterval
      /\ DOMAIN distanceBased \subseteq modem.distance

\* No command of a session is answered twice, and if the modem neither failed
\* at anything nor restarted, every one is answered once all is quiet, but those
\* of clients that were removed or had no callbacks.  (reportResponse and its callers)
AnsweredOnce ==
    \A key \in Keys :
      /\ unanswered[key] >= 0
      /\ Quiet /\ ~failed /\ restarts = 0 /\ key[1] \in live /\ "add" \notin use
         => unanswered[key] = 0

\* When nothing is under way, the modem has mobile originated sessions locked
\* exactly while location is disabled, whatever came in between: an enable
\* before the modem was up, a second one, a disable of another session, a
\* change of the lock's configuration, restarts.  It has the version of SUPL
\* and the list of satellites that are recorded.  (MsgEnableGnss,
\* MsgDisableGnss, MsgGnssUpdateConfig, setConfig)
ModemConfigured ==
    Quiet /\ ~failed =>
      /\ MO \in modem.lock <=> mAfwControlId = 0
      /\ ~mSupportNfwControl /\ mAfwControlId # 0 => modem.lock = {}
      /\ modem.version = mGps_conf.SUPL_VER
      /\ modem.blacklist = mBlacklistedSvIds

\* Once all is quiet, the modem does what the adapter has recorded: it serves
\* the sessions and has the configuration.  (GnssAdapter, all its commands)
ModemAgrees == ModemServes /\ ModemConfigured

\* "stopTracking stops a tracking session associated with id parameter"
\* (LocationAPI.h:75): nothing is left of a session its client stopped once all
\* is quiet, when the modem failed nothing.
StoppedStaysStopped ==
    Quiet /\ ~failed /\ restarts = 0 => DOMAIN timeBased \cup DOMAIN distanceBased \subseteq started
=============================================================================
