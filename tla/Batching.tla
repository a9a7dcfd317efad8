------------------------------- MODULE Batching -------------------------------
(***************************************************************************)
(* Batching of the GNSS HAL, from its calls to the modem: GnssBatching and *)
(* BatchingAPIClient (gps/android/2.1/), which call LocationAPIClientBase  *)
(* and LocationAPI (gps/location/), BatchingAdapter (gps/batching/),       *)
(* LocApi's queue and the modem.                                           *)
(*                                                                         *)
(* Sessions of mode "full" (ROUTINE) report when the modem's batch is      *)
(* full, those of mode "none" (NO_AUTO_REPORT) when they are asked; the    *)
(* modem keeps each of them.  It keeps one outdoor trip only, which the    *)
(* adapter shares among the sessions of mode "trip": it asks for the       *)
(* shortest interval, and for the distance after which the next one of     *)
(* them has travelled its own.  Whoever starts, stops or completes a trip  *)
(* makes the adapter ask how far the modem's has come, and start that      *)
(* again when a session needs another distance or interval.                *)
(*                                                                         *)
(* The adapter's messages are handled by LocContext's MsgTask, what it     *)
(* asks of the modem by LocApi's, and the answers come back as messages.   *)
(* The HAL's own client uses one id and no trips; the client base and the  *)
(* adapter serve any number of both.                                       *)
(* Locations, sizes of batches, accuracy and timeouts are left out.        *)
(***************************************************************************)
EXTENDS Integers, SequencesExt, FiniteSetsExt, Functions

CONSTANTS SessionIds,      \* ids by which the client knows its sessions
          Scenarios,       \* of behaviours: [has : modes, calls and events, calls : how many]
          Intervals,       \* minInterval of a start
          Distances,       \* minDistance of a start
          MaxDeaths,       \* bound: deaths of the modem
          MaxOdometer,     \* bound: distance travelled
          Width            \* uint32_t: distances are counted modulo 2^32

VARIABLES scenario,        \* what this behaviour has
          issued,          \* calls so far, and the last session's number
          attached,        \* the client has its LocationAPI
          dictionary,      \* mSessionBiDict: id -> [session, mode]
          waitingRequests, \* mRequestQueues[REQUEST_SESSION]: kinds
          batchingCb,      \* the client is in the adapter's mClientData
          adapter,         \* BatchingAdapter's members, see AdapterAtStart
          toAdapter,       \* MsgTask's queue
          toLocApi,        \* LocApi's queue
          device,          \* the modem: [up, sessions, trip, travelled, told]
          deaths,
          odometer,        \* distance travelled since the start
          began,           \* session -> the odometer when it was asked for
          early,           \* a trip was said to be complete before it was
          muddled,         \* the trip changed while a change of it was under way
          refusals         \* the modem refused something

clientVars == <<issued, attached, dictionary, waitingRequests>>
ghostVars == <<began, early, muddled, refusals>>
vars == <<scenario, clientVars, batchingCb, adapter, toAdapter, toLocApi, device, deaths,
          odometer, ghostVars>>

Modes == {"full", "none", "trip"}
Options(mode, interval, distance) ==
    [mode |-> mode, interval |-> interval, distance |-> distance]
\* BatchingOptions(), and one of which only the mode was filled in.
ModeOnly(mode) == Options(mode, 0, 0)

Without(f, x) == Restrict(f, DOMAIN f \ {x})
minus(a, b) == (a - b) % Width
plus(a, b) == (a + b) % Width

-----------------------------------------------------------------------------
(* The client's calls, each under LocationAPIClientBase's mutex.             *)

\* A client that waits for each answer, or one that waits for none.
MayCall ==
    /\ attached /\ issued < scenario.calls
    /\ "each" \in scenario.has => waitingRequests = <<>>

Call(kind, session, options) ==
    /\ kind \in scenario.has /\ MayCall
    /\ issued' = issued + 1
    /\ waitingRequests' = Append(waitingRequests, kind)
    /\ toAdapter' = Append(toAdapter, [op |-> kind, session |-> session, options |-> options])
    /\ UNCHANGED <<scenario, attached, batchingCb, adapter, toLocApi, device, deaths, odometer,
                   early, muddled, refusals>>

\* Only a trip has a distance: the HAL's sessions have none, and the modem's
\* own use of it is not modelled.
locAPIStartSession ==
    \E id \in SessionIds \ DOMAIN dictionary, mode \in Modes \cap scenario.has,
       interval \in Intervals, distance \in Distances :
      LET session == issued + 1     \* generateSessionId
      IN  /\ mode # "trip" => distance = Min(Distances)
          /\ Call("start", session, Options(mode, interval, distance))
          /\ dictionary' = id :> [session |-> session, mode |-> mode] @@ dictionary
          /\ began' = session :> odometer @@ began

locAPIStopSession ==
    \E id \in DOMAIN dictionary :
      /\ Call("stop", dictionary[id].session, ModeOnly("full"))
      /\ UNCHANGED <<dictionary, began>>

\* From batching to batching, the new interval and distance are not passed on.
locAPIUpdateSessionOptions ==
    \E id \in DOMAIN dictionary, mode \in Modes \cap scenario.has :
      LET session == dictionary[id].session
      IN  /\ Call("update", session, ModeOnly(mode))
          /\ dictionary' = [dictionary EXCEPT ![id].mode = mode]
          /\ UNCHANGED began

locAPIGetBatchedLocations ==
    \E id \in DOMAIN dictionary :
      /\ Call("get", dictionary[id].session, ModeOnly("full"))
      /\ UNCHANGED <<dictionary, began>>

\* LocationAPIClientBase::destroy and LocationAPI::destroy, as far as the
\* adapter of batching is concerned.
destroy ==
    /\ "destroy" \in scenario.has /\ attached
    /\ attached' = FALSE
    /\ waitingRequests' = <<>>
    /\ toAdapter' = Append(toAdapter, [op |-> "removeClient"])
    /\ UNCHANGED <<scenario, issued, dictionary, batchingCb, adapter, toLocApi, device, deaths,
                   odometer, ghostVars>>

-----------------------------------------------------------------------------
(* The adapter.  A handler is a function from a step to a step: the members  *)
(* (at), what it asks of LocApi (asks), and what it answers the client       *)
(* (tells, at most one answer).                                              *)

NoTrips == [s \in {} |-> 0]
AdapterAtStart(known) ==
    [mIsEngineCapabilitiesKnown |-> known, mPendingMsgs |-> <<>>,
     mBatchingSessions |-> NoTrips,    \* session -> options
     mTripSessions |-> NoTrips,        \* session -> TripSessionStatus
     mOngoingTripDistance |-> 0, mOngoingTripTBFInterval |-> 0,
     mTripWithOngoingTBFDropped |-> FALSE, mTripWithOngoingTripDistanceDropped |-> FALSE,
     batchFull |-> FALSE]              \* LOC_API_ADAPTER_BIT_BATCH_FULL is in mEvtMask

Ask(step, request) == [step EXCEPT !.asks = Append(@, request)]
reportResponse(step, session, ok) ==
    [step EXCEPT !.tells = Append(@, [session |-> session, ok |-> ok])]
saveBatchingSession(step, session, options) ==
    [step EXCEPT !.at.mBatchingSessions = session :> options @@ @]
eraseBatchingSession(step, session) ==
    [step EXCEPT !.at.mBatchingSessions = Without(@, session)]
updateEvtMask(step, on) == [step EXCEPT !.at.batchFull = on]

isBatchingSession(at, session) == session \in DOMAIN at.mBatchingSessions
isTripSession(at, session) == session \in DOMAIN at.mTripSessions

\* A trip that was the first of its kind counts twice, and once still when it
\* is over.
autoReportBatchingSessionsCount(at) ==
    Cardinality({s \in DOMAIN at.mBatchingSessions : at.mBatchingSessions[s].mode # "none"})
      + Cardinality(DOMAIN at.mTripSessions)

EnableIfFirst(step) ==
    IF autoReportBatchingSessionsCount(step.at) = 0 THEN updateEvtMask(step, TRUE) ELSE step
DisableIfCount(step, count) ==
    IF autoReportBatchingSessionsCount(step.at) = count THEN updateEvtMask(step, FALSE) ELSE step

startBatching(step, session, options) ==
    LET registered == IF options.mode = "none" THEN step ELSE EnableIfFirst(step)
    IN  Ask(saveBatchingSession(registered, session, options),
            [op |-> "startBatching", session |-> session, options |-> options,
             then |-> [fn |-> "started", session |-> session, options |-> options]])

stopBatching(step, session, restart, options) ==
    LET old == step.at.mBatchingSessions[session]
    IN  Ask(eraseBatchingSession(step, session),
            [op |-> "stopBatching", session |-> session,
             then |-> [fn |-> "stopped", session |-> session, old |-> old,
                       restart |-> restart, options |-> options]])

startOutdoorTrip(op, distance, interval, then) ==
    [op |-> op, distance |-> distance, interval |-> interval, then |-> then]

startTripBatchingMultiplex(step, session, options) ==
    IF step.at.mTripSessions = NoTrips
    THEN LET saved == saveBatchingSession(EnableIfFirst(step), session, options)
         IN  Ask([saved EXCEPT !.at.mTripSessions =
                     session :> [batch |-> 0, trip |-> 0, restart |-> 0,
                                 distance |-> options.distance, interval |-> options.interval]],
                 startOutdoorTrip("startTrip", options.distance, options.interval,
                     [fn |-> "tripStarted", session |-> session, options |-> options]))
    ELSE Ask(step, [op |-> "query",
                    then |-> [fn |-> "tripQueried", session |-> session, options |-> options]])

\* Minimum over the sessions in the order of the map; 0 counts as not yet known.
LeastOf(values) ==
    FoldLeft(LAMBDA least, s : IF least = 0 \/ least > values[s] THEN values[s] ELSE least,
             0, SetToSortSeq(DOMAIN values, <))
Remaining(trips) == [s \in DOMAIN trips |-> minus(trips[s].distance, trips[s].trip)]
IntervalsOf(trips) == [s \in DOMAIN trips |-> trips[s].interval]

restartTripBatching(step, queried, distance) ==
    IF step.at.mTripSessions = NoTrips
    THEN DisableIfCount(
           [Ask(step, [op |-> "stopTrip", then |-> [fn |-> "none"]])
              EXCEPT !.at.mOngoingTripDistance = 0, !.at.mOngoingTripTBFInterval = 0], 0)
    ELSE Ask(step,
             [op |-> "query",
              then |-> [fn |-> "restartQueried", queried |-> queried, accumulated |-> distance,
                        remaining |-> LeastOf(Remaining(step.at.mTripSessions)),
                        interval |-> LeastOf(IntervalsOf(step.at.mTripSessions))]])

\* garbage is what is read of a trip that is not, or no longer, in the map.
DropOngoing(step, tbf, distance) ==
    [step EXCEPT !.at.mTripWithOngoingTBFDropped = @ \/ tbf,
                 !.at.mTripWithOngoingTripDistanceDropped = @ \/ distance]

Start(step, session, options) ==
    IF options.mode = "trip" THEN startTripBatchingMultiplex(step, session, options)
    ELSE startBatching(step, session, options)

stopTripBatchingMultiplexCommon(step, ok, session, restart, options, garbage) ==
    LET at == step.at
        trip == at.mTripSessions[session]
        dropped == IF isTripSession(at, session)
                   THEN DropOngoing(step, trip.interval = at.mOngoingTripTBFInterval,
                                    trip.distance = at.mOngoingTripDistance)
                   ELSE DropOngoing(step, garbage.tbf, garbage.distance)
        erased == [dropped EXCEPT !.at.mTripSessions = Without(@, session)]
        rest == IF erased.at.mTripSessions = NoTrips
                THEN [erased EXCEPT !.at.mOngoingTripDistance = 0,
                                    !.at.mOngoingTripTBFInterval = 0]
                ELSE restartTripBatching(erased, TRUE, 0)
    IN  reportResponse(
          IF restart THEN Start(eraseBatchingSession(rest, session), session, options) ELSE rest,
          session, ok)

stopTripBatchingMultiplex(step, session, restart, options, garbage) ==
    IF Cardinality(DOMAIN step.at.mTripSessions) = 1
    THEN Ask(step, [op |-> "stopTrip",
                    then |-> [fn |-> "tripStopped", session |-> session, restart |-> restart,
                              options |-> options]])
    ELSE stopTripBatchingMultiplexCommon(step, TRUE, session, restart, options, garbage)

-----------------------------------------------------------------------------
(* Commands and events.                                                      *)

\* Before the engine's capabilities are known, commands are put aside.
Commands == {"start", "stop", "update", "get"}
Defer(step, m) == [step EXCEPT !.at.mPendingMsgs = Append(@, m)]

\* A start without a callback is not answered, nor is the stop or update of a
\* session that is not known, as a trip that is not the first.
Command(step, m, garbage) ==
    CASE ~step.at.mIsEngineCapabilitiesKnown -> Defer(step, m)
      [] m.op = "start" -> IF batchingCb THEN Start(step, m.session, m.options) ELSE step
      [] m.op = "get" ->
           IF isBatchingSession(step.at, m.session)
           THEN Ask(step, [op |-> "get", then |-> [fn |-> "answer", session |-> m.session]])
           ELSE reportResponse(step, m.session, FALSE)
      [] ~isBatchingSession(step.at, m.session) -> step
      [] isTripSession(step.at, m.session) ->
           stopTripBatchingMultiplex(step, m.session, m.op = "update", m.options, garbage)
      [] OTHER -> stopBatching(step, m.session, m.op = "update", m.options)

\* MsgRemoveClient: stopClientSessions, eraseClient, updateClientsEventMask.
\* What has the mode of a trip is stopped as one, over or not.
stopClientSessions(step, garbage) ==
    FoldLeft(LAMBDA st, s :
               IF step.at.mBatchingSessions[s].mode = "trip"
               THEN stopTripBatchingMultiplex(st, s, FALSE, ModeOnly("full"), garbage)
               ELSE stopBatching(st, s, FALSE, ModeOnly("full")),
             step, SetToSortSeq(DOMAIN step.at.mBatchingSessions, <))
updateClientsEventMask(step) ==
    updateEvtMask(step, autoReportBatchingSessionsCount(step.at) > 0)
removeClient(step, garbage) == updateClientsEventMask(stopClientSessions(step, garbage))

\* The modem is up, and empty.  That the trips count from there is noted in a
\* copy of each only.
restartSessions(step) ==
    LET at == step.at
        own == {s \in DOMAIN at.mBatchingSessions : at.mBatchingSessions[s].mode # "trip"}
        enabled == IF autoReportBatchingSessionsCount(at) > 0 THEN updateEvtMask(step, TRUE)
                   ELSE step
        restarted == FoldLeft(LAMBDA st, s :
                                Ask(st, [op |-> "startBatching", session |-> s,
                                         options |-> at.mBatchingSessions[s],
                                         then |-> [fn |-> "none"]]),
                              enabled, SetToSortSeq(own, <))
        distance == LeastOf(Remaining(at.mTripSessions))
        interval == LeastOf(IntervalsOf(at.mTripSessions))
    IN  IF at.mTripSessions = NoTrips THEN restarted
        ELSE Ask([restarted EXCEPT !.at.mOngoingTripDistance = distance,
                                   !.at.mOngoingTripTBFInterval = interval],
                 startOutdoorTrip("startTrip", distance, interval, [fn |-> "tripsRestarted"]))

\* MsgSSREvent; the commands put aside are posted again by HandleMsg.
engineUp(step) ==
    [restartSessions([step EXCEPT !.at.mIsEngineCapabilitiesKnown = TRUE])
       EXCEPT !.at.mPendingMsgs = <<>>]

\* Mutant: what the modem had travelled before the session joined counts too.
TravelledByAll(trip, accumulated) == plus(trip.restart, accumulated)

\* accumulatedDistanceThisTrip when the modem has travelled accumulated.
Travelled(trip, accumulated) == plus(trip.restart, minus(accumulated, trip.batch))

Count(trip, accumulated) == [trip EXCEPT !.trip = Travelled(trip, accumulated)]

\* MsgReportCompletedTrips.  The erased trips are read once more.
Completed(at, accumulated) ==
    {s \in DOMAIN at.mTripSessions :
       at.mTripSessions[s].distance <= Travelled(at.mTripSessions[s], accumulated)}
reportCompletedTrips(step, accumulated, garbage) ==
    LET done == Completed(step.at, accumulated)
        counted == [step EXCEPT !.at.mTripSessions =
                      [s \in DOMAIN @ \ done |-> Count(@[s], accumulated)]]
    IN  IF done = {} THEN counted
        ELSE restartTripBatching(DropOngoing(counted, garbage.tbf, garbage.distance),
                                 FALSE, accumulated)

-----------------------------------------------------------------------------
(* LocApi's answers.                                                         *)

started(step, then, ok) ==
    LET erased == eraseBatchingSession(step, then.session)
    IN  reportResponse(
          IF ok THEN step
          ELSE IF then.options.mode = "none" THEN erased ELSE DisableIfCount(erased, 0),
          then.session, ok)

\* What is restored after a stop that failed is not what it was, but the
\* options meant for its start.
stopped(step, then, ok) ==
    LET disabled == IF then.old.mode = "none" THEN step ELSE DisableIfCount(step, 0)
    IN  reportResponse(
          IF ~ok THEN saveBatchingSession(step, then.session, then.options)
          ELSE IF then.restart THEN Start(disabled, then.session, then.options)
          ELSE disabled,
          then.session, ok)

tripStarted(step, then, ok) ==
    LET erased == [eraseBatchingSession(step, then.session)
                     EXCEPT !.at.mTripSessions = Without(@, then.session)]
    IN  reportResponse(
          IF ok THEN [step EXCEPT !.at.mOngoingTripDistance = then.options.distance,
                                  !.at.mOngoingTripTBFInterval = then.options.interval]
          ELSE DisableIfCount(erased, 0),
          then.session, ok)

tripStopped(step, then, ok, garbage) ==
    stopTripBatchingMultiplexCommon(IF ok THEN DisableIfCount(step, 1) ELSE step, ok,
        then.session, then.restart, then.options, garbage)

\* The trips' new start of counting: the modem counts from 0 again.
CountAgain(trips) == [s \in DOMAIN trips |->
                        [trips[s] EXCEPT !.batch = 0, !.restart = trips[s].trip]]

\* A further session joins the trip.  If the distance could not be queried, it
\* is not added.
tripQueried(step, then, ok, accumulated) ==
    LET at == step.at
        options == then.options
        faster == at.mOngoingTripTBFInterval > options.interval
        left == IF ok THEN minus(at.mOngoingTripDistance, accumulated)
                ELSE at.mOngoingTripDistance
        nearer == options.distance < left
        distance == IF nearer THEN options.distance
                    ELSE IF ok THEN left ELSE at.mOngoingTripDistance
        interval == IF faster THEN options.interval ELSE at.mOngoingTripTBFInterval
        joined == IF ok THEN then.session :> [batch |-> accumulated, trip |-> 0, restart |-> 0,
                                 distance |-> options.distance, interval |-> options.interval]
                               @@ at.mTripSessions
                  ELSE at.mTripSessions
    IN  IF faster \/ nearer
        THEN Ask([step EXCEPT !.at.mOngoingTripDistance = distance,
                              !.at.mOngoingTripTBFInterval = interval,
                              !.at.mTripSessions = CountAgain(joined)],
                 startOutdoorTrip("restartTrip", distance, interval,
                                  [fn |-> "answer", session |-> then.session]))
        ELSE reportResponse([step EXCEPT !.at.mTripSessions = joined], then.session, TRUE)

\* Whether the query failed is not looked at.
restartQueried(step, then, queried) ==
    LET at == step.at
        accumulated == IF then.queried THEN queried ELSE then.accumulated
        left == minus(at.mOngoingTripDistance, accumulated)
        goesOn == ~at.mTripWithOngoingTripDistanceDropped /\ left # 0
        distance == IF goesOn
                    THEN IF then.remaining < left THEN then.remaining ELSE at.mOngoingTripDistance
                    ELSE IF then.remaining # 0 THEN then.remaining ELSE at.mOngoingTripDistance
        newDistance == IF goesOn THEN then.remaining < left ELSE then.remaining # 0
        newInterval == \/ then.interval < at.mOngoingTripTBFInterval
                       \/ /\ then.interval # at.mOngoingTripTBFInterval
                          /\ at.mTripWithOngoingTBFDropped
        interval == IF newInterval THEN then.interval ELSE at.mOngoingTripTBFInterval
    IN  IF newDistance \/ newInterval
        THEN Ask(step, startOutdoorTrip("restartTrip", distance, interval,
                           [fn |-> "restarted", accumulated |-> accumulated,
                            distance |-> distance, interval |-> interval]))
        ELSE step

restarted(step, then, ok) ==
    IF ~ok THEN step
    ELSE [step EXCEPT
            !.at.mTripSessions =
               CountAgain([s \in DOMAIN @ |-> Count(@[s], then.accumulated)]),
            !.at.mOngoingTripDistance = then.distance,
            !.at.mOngoingTripTBFInterval = then.interval]

Answered(step, m, garbage) ==
    LET then == m.then
    IN  CASE then.fn = "started" -> started(step, then, m.ok)
          [] then.fn = "stopped" -> stopped(step, then, m.ok)
          [] then.fn = "tripStarted" -> tripStarted(step, then, m.ok)
          [] then.fn = "tripStopped" -> tripStopped(step, then, m.ok, garbage)
          [] then.fn = "tripQueried" -> tripQueried(step, then, m.ok, m.accumulated)
          [] then.fn = "restartQueried" -> restartQueried(step, then, m.accumulated)
          [] then.fn = "restarted" -> restarted(step, then, m.ok)
          [] then.fn = "tripsRestarted" ->
               IF m.ok THEN step ELSE [step EXCEPT !.at.mOngoingTripDistance = 0,
                                                   !.at.mOngoingTripTBFInterval = 0]
          [] then.fn = "answer" -> reportResponse(step, then.session, m.ok)
          [] OTHER -> step

Handled(m, garbage) ==
    LET step == [at |-> adapter, asks |-> <<>>, tells |-> <<>>]
    IN  CASE m.op \in Commands -> Command(step, m, garbage)
          [] m.op = "removeClient" -> removeClient(step, garbage)
          [] m.op = "engineUp" -> engineUp(step)
          [] m.op = "tripReport" -> reportCompletedTrips(step, m.accumulated, garbage)
          [] m.op = "response" -> Answered(step, m, garbage)

-----------------------------------------------------------------------------
(* What the client makes of an answer.                                       *)

idsOf(session) == {id \in DOMAIN dictionary : dictionary[id].session = session}
removeSession(session) == Restrict(dictionary, DOMAIN dictionary \ idsOf(session))

\* Mutant: a session that could not be started stays in the dictionary.
KeepRefused(kind, ok) == kind = "stop" /\ ok

\* The onResponse of the request that is answered.
Forgets(kind, ok) == (kind = "start" /\ ~ok) \/ (kind = "stop" /\ ok)

\* onResponseCb, getRequestBySession: the oldest request takes an answer about
\* a session that is known.  beforeBatchingStatusCb: complete trips are
\* forgotten.
Told(tells, done) ==
    IF ~attached \/ ~batchingCb THEN UNCHANGED <<waitingRequests, dictionary>>
    ELSE IF tells # <<>> /\ idsOf(tells[1].session) # {} /\ waitingRequests # <<>>
    THEN /\ waitingRequests' = Tail(waitingRequests)
         /\ dictionary' = IF Forgets(Head(waitingRequests), tells[1].ok)
                          THEN removeSession(tells[1].session) ELSE dictionary
    ELSE /\ UNCHANGED waitingRequests
         /\ dictionary' = Restrict(dictionary,
                            {id \in DOMAIN dictionary :
                               ~(dictionary[id].session \in done /\ dictionary[id].mode = "trip")})

\* A request about the trip, or its answer, is on its way.
AboutTrip(op) == op \in {"startTrip", "stopTrip", "restartTrip", "query"}
TripBusy ==
    \/ \E j \in DOMAIN toLocApi : AboutTrip(toLocApi[j].op)
    \/ \E j \in 2..Len(toAdapter) : toAdapter[j].op = "response" /\ AboutTrip(toAdapter[j].to)

\* What may be read of a trip that is not in the map, by those who read trips.
Garbage(m) ==
    IF m.op \in {"removeClient", "tripReport"} \/ (m.op = "response" /\ m.to = "stopTrip")
    THEN [tbf : BOOLEAN, distance : BOOLEAN] ELSE [tbf : {FALSE}, distance : {FALSE}]

HandleMsg ==
    /\ toAdapter # <<>>
    /\ \E garbage \in Garbage(Head(toAdapter)) :
         LET m == Head(toAdapter)
             step == Handled(m, garbage)
             done == IF m.op = "tripReport" THEN Completed(adapter, m.accumulated) ELSE {}
         IN  /\ adapter' = step.at
             /\ toLocApi' = toLocApi \o step.asks
             /\ toAdapter' = Tail(toAdapter)
                               \o (IF m.op = "engineUp" THEN adapter.mPendingMsgs ELSE <<>>)
             /\ batchingCb' = (batchingCb /\ m.op # "removeClient")
             /\ Told(step.tells, done)
             /\ early' = (early \/ \E s \in done :
                                     odometer - began[s] < adapter.mTripSessions[s].distance)
             /\ muddled' =
                  \/ muddled
                  \/ /\ TripBusy
                     /\ \/ m.op = "tripReport"
                        \/ DOMAIN step.at.mTripSessions # DOMAIN adapter.mTripSessions
                        \/ \E j \in DOMAIN step.asks : AboutTrip(step.asks[j].op)
                  \/ /\ m.op = "engineUp"
                     /\ \E s \in DOMAIN adapter.mTripSessions : adapter.mTripSessions[s].batch # 0
    /\ UNCHANGED <<scenario, issued, attached, device, deaths, odometer, began, refusals>>

-----------------------------------------------------------------------------
(* LocApi's thread and the modem: external.                                  *)

NoTrip == ModeOnly("none")
NoDevice(up) == [up |-> up, sessions |-> NoTrips, trip |-> NoTrip, travelled |-> 0, told |-> 0]

Respond(r, ok, accumulated) ==
    toAdapter' = IF r.then.fn = "none" THEN toAdapter
                 ELSE Append(toAdapter, [op |-> "response", to |-> r.op, then |-> r.then,
                                         ok |-> ok, accumulated |-> accumulated])

Possible(r) ==
    CASE r.op = "stopBatching" -> r.session \in DOMAIN device.sessions
      [] r.op \in {"stopTrip", "query"} -> device.trip # NoTrip
      [] OTHER -> TRUE

Perform(r) ==
    /\ device.up /\ Possible(r)
    /\ device' =
         CASE r.op = "startBatching" ->
                [device EXCEPT !.sessions = r.session :> r.options @@ @]
           [] r.op = "stopBatching" -> [device EXCEPT !.sessions = Without(@, r.session)]
           [] r.op \in {"startTrip", "restartTrip"} ->
                [device EXCEPT !.trip = Options("trip", r.interval, r.distance),
                               !.travelled = 0, !.told = 0]
           [] r.op = "stopTrip" -> [device EXCEPT !.trip = NoTrip, !.travelled = 0, !.told = 0]
           [] OTHER -> device
    /\ Respond(r, TRUE, device.travelled)
    /\ UNCHANGED refusals

Refuse(r) ==
    /\ "refuse" \in scenario.has \/ ~device.up \/ ~Possible(r)
    /\ Respond(r, FALSE, 0)
    /\ refusals' = TRUE
    /\ UNCHANGED device

LocApiStep ==
    /\ toLocApi # <<>>
    /\ toLocApi' = Tail(toLocApi)
    /\ Perform(Head(toLocApi)) \/ Refuse(Head(toLocApi))
    /\ UNCHANGED <<scenario, clientVars, batchingCb, adapter, deaths, odometer,
                   began, early, muddled>>

\* The modem counts while it has a trip, and reports when its distance is
\* travelled, and again when it goes on.
Travel ==
    /\ "trip" \in scenario.has
    /\ odometer < MaxOdometer
    /\ odometer' = odometer + 1
    /\ device' = IF device.trip = NoTrip THEN device ELSE [device EXCEPT !.travelled = @ + 1]
    /\ UNCHANGED <<scenario, clientVars, batchingCb, adapter, toAdapter, toLocApi, deaths,
                   ghostVars>>

ReportTrip ==
    /\ device.trip # NoTrip
    /\ device.travelled >= device.trip.distance
    /\ device.travelled > device.told
    /\ device' = [device EXCEPT !.told = device.travelled]
    /\ toAdapter' = Append(toAdapter, [op |-> "tripReport", accumulated |-> device.travelled])
    /\ UNCHANGED <<scenario, clientVars, batchingCb, adapter, toLocApi, deaths, odometer,
                   ghostVars>>

ModemDies ==
    /\ "die" \in scenario.has /\ device.up
    /\ deaths < MaxDeaths
    /\ deaths' = deaths + 1
    /\ device' = NoDevice(FALSE)
    /\ UNCHANGED <<scenario, clientVars, batchingCb, adapter, toAdapter, toLocApi, odometer,
                   ghostVars>>

ModemRises ==
    /\ ~device.up
    /\ device' = [device EXCEPT !.up = TRUE]
    /\ toAdapter' = Append(toAdapter, [op |-> "engineUp"])
    /\ UNCHANGED <<scenario, clientVars, batchingCb, adapter, toLocApi, deaths, odometer,
                   ghostVars>>

-----------------------------------------------------------------------------
ClientCall ==
    \/ locAPIStartSession \/ locAPIStopSession \/ locAPIUpdateSessionOptions
    \/ locAPIGetBatchedLocations \/ destroy

\* The client has set its callbacks; at boot the modem is still to come up.
Init ==
    /\ scenario \in Scenarios
    /\ issued = 0 /\ attached = TRUE /\ dictionary = NoTrips /\ waitingRequests = <<>>
    /\ batchingCb = TRUE
    /\ adapter = AdapterAtStart("boot" \notin scenario.has)
    /\ toAdapter = <<>> /\ toLocApi = <<>>
    /\ device = NoDevice("boot" \notin scenario.has)
    /\ deaths = 0 /\ odometer = 0
    /\ began = NoTrips /\ early = FALSE /\ muddled = FALSE /\ refusals = FALSE

Next ==
    \/ ClientCall \/ HandleMsg \/ LocApiStep \/ Travel \/ ReportTrip \/ ModemDies \/ ModemRises

Spec == Init /\ [][Next]_vars

-----------------------------------------------------------------------------
(* Properties.                                                               *)

\* The state has its types, two ids never name one session, the adapter records
\* sessions the client has asked for, and distances stay within Width.
TypeOK ==
    /\ scenario \in Scenarios /\ issued \in 0..scenario.calls
    /\ \A id, other \in DOMAIN dictionary :
         dictionary[id].session = dictionary[other].session => id = other
    /\ DOMAIN adapter.mBatchingSessions \cup DOMAIN adapter.mTripSessions \subseteq 1..issued
    /\ \A s \in DOMAIN adapter.mTripSessions :
         adapter.mTripSessions[s] \in [{"batch", "trip", "restart", "distance", "interval"}
                                         -> 0..Width-1]

Quiet == toAdapter = <<>> /\ toLocApi = <<>> /\ device.up

Own == {s \in DOMAIN adapter.mBatchingSessions : adapter.mBatchingSessions[s].mode # "trip"}
Known == {dictionary[id].session : id \in DOMAIN dictionary}

\* When nothing is under way and nothing failed, the modem has exactly the
\* sessions the adapter records, trips apart, with their options, and reports
\* full batches if somebody wants them.  For a client that waits for each
\* answer, refused or not, the adapter has exactly the sessions the client
\* knows, and every request was answered but those about trips; a session that
\* is updated is answered twice.  (saveBatchingSession, eraseBatchingSession,
\* restartSessions, updateEvtMask, onResponseCb, beforeBatchingStatusCb)
SessionsServed ==
    Quiet =>
      /\ ~refusals => device.sessions = Restrict(adapter.mBatchingSessions, Own)
      /\ ~refusals /\ ~muddled =>
           adapter.batchFull = (autoReportBatchingSessionsCount(adapter) > 0)
      /\ attached /\ "each" \in scenario.has /\ scenario.has \cap {"update", "die"} = {} =>
           IF "trip" \in scenario.has
           THEN refusals \/ Known = Own \cup DOMAIN adapter.mTripSessions
           ELSE Known = Own /\ Known = DOMAIN device.sessions /\ waitingRequests = <<>>

\* Unless the trip is changed or completed while a change of it is under way,
\* or something fails: the modem has a trip when nothing is under way exactly
\* if the adapter has one, the interval is short enough for all of them, and no
\* trip is said to be complete before its distance was travelled.
\* (startTripBatchingMultiplex, restartTripBatching, reportCompletedTrips)
TripsKept ==
    ~muddled /\ ~refusals =>
      /\ ~early
      /\ Quiet =>
           /\ (device.trip # NoTrip) = (adapter.mTripSessions # NoTrips)
           /\ device.trip # NoTrip =>
                /\ device.trip = Options("trip", adapter.mOngoingTripTBFInterval,
                                         adapter.mOngoingTripDistance)
                /\ \A s \in DOMAIN adapter.mTripSessions :
                     device.trip.interval <= adapter.mTripSessions[s].interval

=============================================================================
