------------------------------- MODULE Geofences -------------------------------
(***************************************************************************)
(* Geofences of the GNSS HAL, from the framework's calls to the modem:     *)
(* GnssGeofencing and GeofenceAPIClient (gps/android/2.1/), which call     *)
(* LocationAPIClientBase and LocationAPI (gps/location/), GeofenceAdapter  *)
(* (gps/geofence/), LocApi's queue and the modem.                          *)
(*                                                                         *)
(* A geofence has three names: the framework's id, the session LocationAPI *)
(* gives it, and the number the modem gives it, another one after each     *)
(* restart.  LocationAPIClientBase keeps the first pair (mGeofenceBiDict), *)
(* GeofenceAdapter the second (mGeofences, mGeofenceIds).  Every call      *)
(* crosses the adapter's thread and LocApi's twice before it is answered,  *)
(* and an answer goes to the oldest request that waits for one.            *)
(*                                                                         *)
(* The adapters of gnss and of geofences share one thread (LocContext's    *)
(* MsgTask), so destroying the client takes a message to each and deletes  *)
(* it after the last.  A call is about one geofence, as all of the HAL's   *)
(* are.  Breaches, and the transitions they are filtered by, are left out. *)
(***************************************************************************)
EXTENDS Integers, SequencesExt, FiniteSetsExt, Functions

CONSTANTS Ids,             \* the framework's
          Masks,           \* options of a geofence, as far as they tell it apart
          Interfaces,      \* sequence of the adapters that are loaded, "geofence" last
          Uses,            \* what a behaviour has: Kinds, "each", "destroy", "refuse", "die"
          HwIds,           \* the modem's
          MaxCalls,        \* calls of a behaviour
          MaxRestarts      \* deaths of the modem

Kinds == {"add", "remove", "modify", "pause", "resume"}
Sessions == 1..MaxCalls
NoId == 0
NoMask == 0

VARIABLES use,          \* what this behaviour has
          calls,
          client,       \* "live", "destroying", "waits" or "deleted"
          waiting,      \* waitAdapterMask
          dict,         \* mGeofenceBiDict: [forward : id -> session, backward : session -> id]
          requests,     \* mRequestQueues[REQUEST_GEOFENCE]: [kind, removed]
          registered,   \* the client is in the adapter's mClientData
          mGeofences,   \* modem's number -> [session, mask, paused]
          mGeofenceIds, \* session -> modem's number
          queue,        \* the adapters' MsgTask
          api,          \* LocApi's MsgTask
          modem,        \* [up, fences : number -> [session, mask, paused]]
          restarts,
          granted,      \* session -> paused: what the framework was told
          unanswered,   \* calls of each kind and id, less their answers
          failed,       \* the modem refused to restore or to erase, or an addition
                        \* was under way when the client was removed
          misused       \* the client was deleted while destroy was using it

frameworkVars == <<use, calls>>
clientVars == <<client, waiting, dict, requests>>
adapterVars == <<registered, mGeofences, mGeofenceIds>>
modemVars == <<modem, restarts>>
ghostVars == <<granted, unanswered, failed, misused>>
vars == <<frameworkVars, clientVars, adapterVars, queue, api, modemVars, ghostVars>>

Drop(f, x) == Restrict(f, DOMAIN f \ {x})
Fence(session, mask) == [session |-> session, mask |-> mask, paused |-> FALSE]

-----------------------------------------------------------------------------
(* The framework's calls, each under LocationAPIClientBase's mutex.  The     *)
(* command is posted and the request queued before an answer can be handled. *)

getId(session) == IF session \in DOMAIN dict.backward THEN dict.backward[session] ELSE NoId
set(id, session) == [forward |-> id :> session @@ dict.forward,
                     backward |-> session :> id @@ dict.backward]

\* Mutant: the pair is forgotten one way only.
rmBackward(session) == [dict EXCEPT !.backward = Drop(@, session)]

rmBySession(session) == [forward |-> Drop(dict.forward, dict.backward[session]),
                         backward |-> Drop(dict.backward, session)]

\* The framework waits for the answer about this id ("each"), or for all: one
\* that does not gets answers to other calls than its own.
Outstanding(id) == \E k \in Kinds : unanswered[<<k, id>>] > 0
MaySend(id) == ("each" \in use /\ ~Outstanding(id)) \/ requests = <<>>

Send(kind, id, session, mask, removed) ==
    /\ kind \in use
    /\ client = "live" /\ MaySend(id)
    /\ calls < MaxCalls
    /\ calls' = calls + 1
    /\ requests' = Append(requests, [kind |-> kind, removed |-> removed])
    /\ queue' = Append(queue, [op |-> "command", kind |-> kind, fence |-> Fence(session, mask)])
    /\ unanswered' = [unanswered EXCEPT ![<<kind, id>>] = @ + 1]
    /\ UNCHANGED <<use, client, waiting, adapterVars, api, modemVars, granted, failed, misused>>

\* The framework adds a geofence it does not have; it may have been refused it.
Has(id) == \E s \in DOMAIN granted : getId(s) = id

locAPIAddGeofences ==
    \E id \in Ids, mask \in Masks :
      LET session == calls + 1      \* generateSessionId
      IN  /\ ~Has(id)
          /\ Send("add", id, session, mask, <<>>)
          /\ dict' = set(id, session)

\* The other calls do nothing for an id that is not known.
locAPIRemoveGeofences ==
    \E id \in DOMAIN dict.forward :
      LET session == dict.forward[id]
      IN  /\ Send("remove", id, session, NoMask, session :> id)
          /\ dict' = rmBySession(session)

locAPIModifyGeofences ==
    \E id \in DOMAIN dict.forward, mask \in Masks :
      /\ Send("modify", id, dict.forward[id], mask, <<>>)
      /\ dict' = set(id, dict.forward[id])

locAPIPauseGeofences ==
    \E id \in DOMAIN dict.forward :
      Send("pause", id, dict.forward[id], NoMask, <<>>) /\ UNCHANGED dict

locAPIResumeGeofences ==
    \E id \in DOMAIN dict.forward :
      /\ Send("resume", id, dict.forward[id], NoMask, <<>>)
      /\ dict' = set(id, dict.forward[id])

\* LocationAPI::destroy, called by LocationAPIClientBase::destroy with its
\* mutex held: a message to each adapter.
destroyBegin ==
    /\ "destroy" \in use /\ client = "live"
    /\ client' = "destroying"
    /\ waiting' = Range(Interfaces)
    /\ queue' = queue \o [j \in DOMAIN Interfaces |->
                             [op |-> "removeClient", interface |-> Interfaces[j]]]
    /\ UNCHANGED <<frameworkVars, dict, requests, adapterVars, api, modemVars, ghostVars>>

\* The rest of destroy.
destroyEnd ==
    /\ client = "destroying"
    /\ client' = "waits"
    /\ requests' = <<>>
    /\ UNCHANGED <<frameworkVars, waiting, dict, adapterVars, queue, api, modemVars, ghostVars>>

-----------------------------------------------------------------------------
(* The adapters' thread.                                                     *)

\* What is asked of LocApi, for a fence, and what its response is handled by.
Request(kind, fence, hw, then) == [kind |-> kind, fence |-> fence, hw |-> hw, then |-> then]
NoHw == 0

\* onCollectiveResponseCb: the oldest request is answered, with the id its
\* session has by now.  It takes the mutex that destroy holds.
reportResponse(session, ok) ==
    /\ client # "destroying"
    /\ IF ~registered \/ requests = <<>>
       THEN UNCHANGED <<requests, unanswered, granted>>
       ELSE LET r == Head(requests)
                id == IF r.kind # "remove" THEN getId(session)
                      ELSE IF session \in DOMAIN r.removed THEN r.removed[session] ELSE NoId
            IN  /\ requests' = Tail(requests)
                /\ unanswered' = [unanswered EXCEPT ![<<r.kind, id>>] = @ - 1]
                /\ granted' = IF ~ok \/ r.kind = "modify" THEN granted
                              ELSE IF r.kind = "remove" THEN Drop(granted, session)
                              ELSE session :> (r.kind = "pause") @@ granted

NoReport == UNCHANGED <<requests, unanswered, granted>>
SameItems == UNCHANGED <<mGeofences, mGeofenceIds>>

\* Msg...Geofences: first a call that does nothing but keep the order.
Command(m) ==
    /\ m.op = "command"
    /\ api' = Append(api, Request(m.kind, m.fence, NoHw, "called"))
    /\ NoReport
    /\ UNCHANGED <<client, waiting, adapterVars, failed, misused>>

\* Mutant: an unknown geofence is not reported.
CalledQuietly(m) ==
    /\ m.op = "called"
    /\ api' = IF m.kind = "add" \/ m.fence.session \in DOMAIN mGeofenceIds
              THEN Append(api, Request(m.kind, m.fence,
                       IF m.kind = "add" THEN NoHw ELSE mGeofenceIds[m.fence.session], "done"))
              ELSE api
    /\ NoReport
    /\ UNCHANGED <<client, waiting, adapterVars, failed, misused>>

\* Its turn has come: the modem's number is looked up (getHwIdFromClient).
Called(m) ==
    /\ m.op = "called"
    /\ IF m.kind = "add"
       THEN api' = Append(api, Request("add", m.fence, NoHw, "done")) /\ NoReport
       ELSE IF m.fence.session \in DOMAIN mGeofenceIds
       THEN /\ api' = Append(api, Request(m.kind, m.fence, mGeofenceIds[m.fence.session], "done"))
            /\ NoReport
       ELSE reportResponse(m.fence.session, FALSE) /\ UNCHANGED api
    /\ UNCHANGED <<client, waiting, adapterVars, failed, misused>>

saveGeofenceItem(fence, hw) ==
    /\ mGeofences' = hw :> Fence(fence.session, fence.mask) @@ mGeofences
    /\ mGeofenceIds' = fence.session :> hw @@ mGeofenceIds

removeGeofenceItem(hw) ==
    LET key == mGeofences[hw].session
    IN  IF hw \in DOMAIN mGeofences /\ key \in DOMAIN mGeofenceIds
        THEN mGeofences' = Drop(mGeofences, hw) /\ mGeofenceIds' = Drop(mGeofenceIds, key)
        ELSE SameItems

\* pauseGeofenceItem, resumeGeofenceItem, modifyGeofenceItem; the modem's own
\* record changes likewise.
Changed(kind, old, mask) ==
    CASE kind = "pause" -> [old EXCEPT !.paused = TRUE]
      [] kind = "resume" -> [old EXCEPT !.paused = FALSE]
      [] kind = "modify" -> [old EXCEPT !.mask = mask]
changeItem(m) ==
    /\ mGeofences' = [hw \in DOMAIN mGeofences |->
                         IF hw = m.hw THEN Changed(m.kind, mGeofences[hw], m.fence.mask)
                         ELSE mGeofences[hw]]
    /\ UNCHANGED mGeofenceIds

\* The modem has done what was asked of it, or not.
Done(m, kind) == m.op = "done" /\ m.kind = kind
Answered(m) == reportResponse(m.fence.session, m.ok)

Added(m) ==
    Done(m, "add") /\ (IF m.ok THEN saveGeofenceItem(m.fence, m.hw) ELSE SameItems) /\ Answered(m)
Removed(m) ==
    Done(m, "remove") /\ (IF m.ok THEN removeGeofenceItem(m.hw) ELSE SameItems) /\ Answered(m)
Paused(m) ==
    Done(m, "pause") /\ (IF m.ok THEN changeItem(m) ELSE SameItems) /\ Answered(m)

\* A resume that failed is not answered.
Resumed(m) ==
    /\ Done(m, "resume")
    /\ IF m.ok THEN changeItem(m) /\ Answered(m) ELSE SameItems /\ NoReport

\* A change that failed is answered as if it had not: the error is not kept.
Modified(m) ==
    /\ Done(m, "modify")
    /\ IF m.ok THEN changeItem(m) ELSE SameItems
    /\ reportResponse(m.fence.session, TRUE)

HandleDone(m) ==
    /\ Added(m) \/ Removed(m) \/ Paused(m) \/ Resumed(m) \/ Modified(m)
    /\ UNCHANGED <<client, waiting, registered, api, failed, misused>>

\* MsgSSREvent and restartGeofences: the modem is up, and empty.
EngineUp(m) ==
    /\ m.op = "engineUp"
    /\ api' = api \o [j \in 1..Cardinality(DOMAIN mGeofences) |->
                         Request("add", mGeofences[SetToSortSeq(DOMAIN mGeofences, <)[j]],
                                 NoHw, "restored")]
    /\ mGeofences' = <<>>
    /\ mGeofenceIds' = IF mGeofences = <<>> THEN mGeofenceIds ELSE <<>>
    /\ NoReport
    /\ UNCHANGED <<client, waiting, registered, failed, misused>>

\* Mutant: what was paused is not paused again.
RestoredActive(m) ==
    /\ m.op = "restored"
    /\ IF m.ok THEN saveGeofenceItem(m.fence, m.hw) ELSE SameItems
    /\ NoReport
    /\ UNCHANGED <<client, waiting, registered, api, failed, misused>>

Restored(m) ==
    /\ m.op = "restored"
    /\ IF m.ok
       THEN /\ saveGeofenceItem(m.fence, m.hw)
            /\ api' = IF m.fence.paused THEN Append(api, Request("pause", m.fence, m.hw, "none"))
                      ELSE api
       ELSE SameItems /\ UNCHANGED api
    /\ NoReport
    /\ UNCHANGED <<client, waiting, registered, failed, misused>>

\* Additions that have not been recorded yet.
Adding ==
    \/ \E j \in DOMAIN queue : /\ queue[j].op \in {"command", "called", "done", "restored"}
                               /\ queue[j].kind = "add"
    \/ \E j \in DOMAIN api : api[j].kind = "add"

\* stopClientSessions, of the adapter of geofences: all are this client's.
stopClientSessions ==
    LET mine == SetToSortSeq(DOMAIN mGeofenceIds, <)
    IN  /\ api' = api \o [j \in DOMAIN mine |->
                             Request("remove", Fence(mine[j], NoMask), mGeofenceIds[mine[j]],
                                     "erased")]
        /\ mGeofenceIds' = <<>>

Erased(m) ==
    /\ m.op = "erased"
    /\ mGeofences' = IF m.ok THEN Drop(mGeofences, m.hw) ELSE mGeofences
    /\ NoReport
    /\ UNCHANGED <<client, waiting, registered, mGeofenceIds, api, failed, misused>>

\* MsgRemoveClient, then onRemoveClientCompleteCb: the last adapter deletes the
\* client, with no regard to its mutex.
RemoveClient(m) ==
    /\ m.op = "removeClient"
    /\ IF m.interface = "geofence"
       THEN /\ stopClientSessions
            /\ registered' = FALSE
            /\ granted' = <<>>
            /\ failed' = (failed \/ Adding)
       ELSE UNCHANGED <<mGeofenceIds, api, registered, granted, failed>>
    /\ waiting' = waiting \ {m.interface}
    /\ client' = IF waiting' = {} THEN "deleted" ELSE client
    /\ misused' = (waiting' = {} /\ client = "destroying")
    /\ UNCHANGED <<requests, unanswered, mGeofences>>

HandleMsg ==
    /\ queue # <<>>
    /\ queue' = Tail(queue)
    /\ LET m == Head(queue)
       IN  \/ Command(m) \/ Called(m) \/ HandleDone(m) \/ EngineUp(m) \/ Restored(m)
           \/ Erased(m) \/ RemoveClient(m)
    /\ UNCHANGED <<frameworkVars, dict, modemVars>>

-----------------------------------------------------------------------------
(* LocApi's thread and the modem: external.                                  *)

Respond(r, hw, ok) ==
    queue' = IF r.then = "none" THEN queue
             ELSE Append(queue, [op |-> r.then, kind |-> r.kind, fence |-> r.fence,
                                 hw |-> hw, ok |-> ok])

\* The modem does what it is asked of a geofence it has, and gives a new one a
\* number that is free.
Perform(r) ==
    /\ modem.up
    /\ \E hw \in IF r.kind = "add" THEN HwIds \ DOMAIN modem.fences
                 ELSE {r.hw} \cap DOMAIN modem.fences :
         /\ modem' = [modem EXCEPT !.fences =
                         IF r.kind = "add" THEN hw :> Fence(r.fence.session, r.fence.mask) @@ @
                         ELSE IF r.kind = "remove" THEN Drop(@, hw)
                         ELSE [@ EXCEPT ![hw] = Changed(r.kind, @, r.fence.mask)]]
         /\ Respond(r, hw, TRUE)
    /\ UNCHANGED failed

\* It must refuse while it is down, what is about a geofence it has lost, and
\* one more than it has room for.
Refuse(r) ==
    /\ \/ "refuse" \in use \/ ~modem.up
       \/ IF r.kind = "add" THEN HwIds = DOMAIN modem.fences
          ELSE r.hw \notin DOMAIN modem.fences
    /\ Respond(r, r.hw, FALSE)
    /\ failed' = (failed \/ r.then \in {"restored", "erased", "none"})
    /\ UNCHANGED modem

LocApiStep ==
    /\ api # <<>>
    /\ api' = Tail(api)
    /\ LET r == Head(api)
       IN  IF r.then = "called" THEN Respond(r, r.hw, TRUE) /\ UNCHANGED <<modem, failed>>
           ELSE Perform(r) \/ Refuse(r)
    /\ UNCHANGED <<frameworkVars, clientVars, adapterVars, restarts, granted, unanswered, misused>>

ModemDies ==
    /\ modem.up /\ "die" \in use
    /\ restarts < MaxRestarts
    /\ restarts' = restarts + 1
    /\ modem' = [up |-> FALSE, fences |-> <<>>]
    /\ UNCHANGED <<frameworkVars, clientVars, adapterVars, queue, api, ghostVars>>

ModemRises ==
    /\ ~modem.up
    /\ modem' = [modem EXCEPT !.up = TRUE]
    /\ queue' = Append(queue, [op |-> "engineUp"])
    /\ UNCHANGED <<frameworkVars, clientVars, adapterVars, api, restarts, ghostVars>>

-----------------------------------------------------------------------------
Call ==
    \/ locAPIAddGeofences \/ locAPIRemoveGeofences \/ locAPIModifyGeofences
    \/ locAPIPauseGeofences \/ locAPIResumeGeofences

\* The client has set its callbacks, the modem has come up.
Init ==
    /\ use \in Uses /\ calls = 0
    /\ client = "live" /\ waiting = {} /\ requests = <<>>
    /\ dict = [forward |-> <<>>, backward |-> <<>>]
    /\ registered = TRUE /\ mGeofences = <<>> /\ mGeofenceIds = <<>>
    /\ queue = <<>> /\ api = <<>>
    /\ modem = [up |-> TRUE, fences |-> <<>>] /\ restarts = 0
    /\ granted = <<>>
    /\ unanswered = [c \in Kinds \X (Ids \cup {NoId}) |-> 0]
    /\ failed = FALSE /\ misused = FALSE

\* The behaviour is undefined once the client was used after its deletion.
Next ==
    /\ ~misused
    /\ \/ Call \/ destroyBegin \/ destroyEnd
       \/ HandleMsg \/ LocApiStep \/ ModemDies \/ ModemRises

Spec == Init /\ [][Next]_vars

-----------------------------------------------------------------------------
(* Properties.                                                               *)

FenceSet == [session : Sessions, mask : Masks, paused : BOOLEAN]

\* The state has its types, the modem's numbers fit, and every id of the
\* framework leads to a session that leads back to it.  (BiDict)
TypeOK ==
    /\ use \in Uses /\ calls \in 0..MaxCalls /\ restarts \in 0..MaxRestarts
    /\ client \in {"live", "destroying", "waits", "deleted"}
    /\ waiting \subseteq Range(Interfaces)
    /\ DOMAIN dict.forward \subseteq Ids
    /\ \A id \in DOMAIN dict.forward : getId(dict.forward[id]) = id
    /\ \A f \in {mGeofences, modem.fences} :
         DOMAIN f \subseteq HwIds /\ \A hw \in DOMAIN f : f[hw] \in FenceSet
    /\ DOMAIN mGeofenceIds \cup DOMAIN granted \subseteq Sessions

Quiet == queue = <<>> /\ api = <<>> /\ modem.up /\ ~misused

\* GeofenceAdapter's record of the modem is true when nothing is under way,
\* whatever was refused and however often the modem restarted; once the client
\* is removed, if nothing failed.  (restartGeofences, the items' updates)
RecordIsTrue ==
    /\ registered \/ ~failed => DOMAIN mGeofences = DOMAIN modem.fences
    /\ \A hw \in DOMAIN mGeofences \cap DOMAIN modem.fences :
         /\ mGeofences[hw].session = modem.fences[hw].session
         /\ mGeofences[hw].mask = modem.fences[hw].mask
         /\ registered => mGeofenceIds[mGeofences[hw].session] = hw

Watched == {modem.fences[hw].session : hw \in DOMAIN modem.fences}
PausedAsTold ==
    \A hw \in DOMAIN modem.fences : modem.fences[hw].paused = granted[modem.fences[hw].session]

\* When nothing is under way, the record is true.  If nothing was refused of
\* what restores and erases, the modem watches exactly the geofences the
\* framework was told it has, and none once the client is removed: up to two
\* restarts, as after a third a command may find another geofence under the
\* modem's number it has looked up.  Up to one restart the modem has those
\* paused that the framework was told are.
\* (restartGeofences, stopClientSessions, the items' updates)
FencesAsTold ==
    Quiet =>
      /\ RecordIsTrue
      /\ ~failed /\ (registered => restarts < 3) => Watched = DOMAIN granted
      /\ ~failed /\ registered /\ restarts < 2 => PausedAsTold

\* No call is answered twice, and when nothing is under way, every call of a
\* client that lives was answered, but for resumes the modem refused; a client
\* that is being destroyed is told so once, at the end.  (reportResponse,
\* onCollectiveResponseCb, onRemoveClientCompleteCb)
AnsweredOnce ==
    /\ \A c \in DOMAIN unanswered : unanswered[c] >= 0
    /\ Quiet /\ client = "live" =>
         \A c \in DOMAIN unanswered :
           unanswered[c] > 0 => c[1] = "resume" /\ (restarts > 0 \/ "refuse" \in use)
    /\ Quiet => client # "waits"
    /\ registered => client # "deleted"

=============================================================================
