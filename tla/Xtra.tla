--------------------------------- MODULE Xtra ---------------------------------
(***************************************************************************)
(* XtraSystemStatusObserver (gps/gnss/XtraSystemStatusObserver.cpp): the   *)
(* client of DataItems that keeps the XTRA daemon informed, and the        *)
(* corrections (DGNSS over NTRIP) GnssAdapter has it start and stop.       *)
(*                                                                         *)
(* The daemon is another process, reached by datagrams.  It asks for the   *)
(* status when it starts and when it hears halinit; what is sent while it  *)
(* is down is lost.  It may die and come back at any moment.               *)
(*                                                                         *)
(* The handlers of GnssAdapter and of the data items run on one MsgTask,   *)
(* a message at a time.  Only the items' messages are queued here: those   *)
(* of the adapter meet no other state.  The XTRA throttle, which           *)
(* respondStatus leaves out, and the text of NMEA sentences are left out.  *)
(***************************************************************************)
EXTENDS DataItems

CONSTANTS XTRA,                 \* the observer, one of the clients
          Locks,                \* of updateLockStatus
          Streams,              \* [server, requiresNmeaLocation]
          MaxSessions           \* tracking sessions at a time

ASSUME XtraAssumption == XTRA \in Observers /\ NONE \notin Streams

VARIABLES mGpsLock,
          mReqStatusReceived,
          mNtripParamsString,   \* the source to start again, or NONE
          halinit,              \* whether the timer of the constructor has sent it
          daemon,               \* [up, lock, items, source]: what it was told
          mDgnssState,          \* the flags set
          ntripParams,          \* mStartDgnssNtripParams
          mSendNmeaConsent,
          sessions,             \* tracking sessions
          superseded            \* a source was replaced by one that waits for a location

dgnssVars == <<mNtripParamsString, mDgnssState, ntripParams, mSendNmeaConsent, sessions, superseded>>
xtraVars == <<mGpsLock, mReqStatusReceived, halinit, daemon, dgnssVars>>

Ignorant == [lock |-> NONE, items |-> [i \in Items |-> NONE], source |-> NONE]
Daemon(up, told) == [up |-> up, lock |-> told.lock, items |-> told.items, source |-> told.source]

\* A datagram to the daemon: lost when it is down.
Sent(change) == IF daemon.up THEN change ELSE daemon

-----------------------------------------------------------------------------
(* The daemon, and what it asks.                                             *)

AskStatus(updated) == dataQueue' = Post(dataQueue, [op |-> "requestStatus", updated |-> updated])

DaemonStarts ==
    /\ ~daemon.up /\ Calls("daemon")
    /\ daemon' = Daemon(TRUE, Ignorant)
    /\ AskStatus(FALSE)
    /\ UNCHANGED <<mGpsLock, mReqStatusReceived, halinit, dgnssVars>>
    /\ UNCHANGED <<maps, cache, framework, known, networks, dataGhosts>>

DaemonDies ==
    /\ daemon.up /\ Calls("daemon")
    /\ daemon' = Daemon(FALSE, Ignorant)
    /\ UNCHANGED <<mGpsLock, mReqStatusReceived, halinit, dgnssVars>>
    /\ UNCHANGED <<dataQueue, maps, cache, framework, known, networks, dataGhosts>>

\* DelayLocTimer: a daemon that was up before the HAL asks again.
DelayExpires ==
    /\ ~halinit
    /\ halinit' = TRUE
    /\ IF daemon.up THEN AskStatus(daemon.lock # NONE) ELSE UNCHANGED dataQueue
    /\ UNCHANGED <<mGpsLock, mReqStatusReceived, daemon, dgnssVars>>
    /\ UNCHANGED <<dataUse, maps, cache, framework, known, networks, dataGhosts>>

\* onStatusRequested, then restartDgnssSource.
HandleStatusRequestMsg ==
    /\ Message("requestStatus")
    /\ mReqStatusReceived' = TRUE
    /\ LET responded == IF Head(dataQueue).updated THEN daemon
                        ELSE [daemon EXCEPT !.lock = mGpsLock, !.items = known[XTRA]]
       IN  daemon' = Sent(IF mNtripParamsString = NONE THEN responded
                          ELSE [responded EXCEPT !.source = mNtripParamsString])
    /\ dataQueue' = Tail(dataQueue)
    /\ UNCHANGED <<mGpsLock, halinit, dgnssVars>>
    /\ UNCHANGED <<dataUse, maps, cache, framework, known, networks, dataGhosts>>

\* updateConnections, updateTac and updateMccMnc: recorded (HandleUpdate), and
\* sent on to a daemon that has asked.
HandleOsObserverUpdateMsg ==
    /\ HandleUpdate
    /\ daemon' = IF mReqStatusReceived /\ Head(dataQueue).client = XTRA
                 THEN Sent([daemon EXCEPT !.items =
                              [i \in Items |-> IF i \in DOMAIN Head(dataQueue).content
                                               THEN known'[XTRA][i] ELSE @[i]]])
                 ELSE daemon
    /\ UNCHANGED <<mGpsLock, mReqStatusReceived, halinit, dgnssVars>>

updateLockStatus ==
    \E lock \in Locks :
      /\ Calls("lock")
      /\ mGpsLock' = lock
      /\ daemon' = IF mReqStatusReceived THEN Sent([daemon EXCEPT !.lock = lock]) ELSE daemon
      /\ UNCHANGED <<mReqStatusReceived, halinit, dgnssVars>>
      /\ UNCHANGED <<dataQueue, maps, cache, framework, known, networks, dataGhosts>>

-----------------------------------------------------------------------------
(* The corrections: GnssAdapter's handlers.                                  *)

isDgnssNmeaRequired(params) ==
    mSendNmeaConsent /\ params # NONE /\ params.requiresNmeaLocation

\* requiresNmeaLocation is compared with itself.
SameParams(params) == ntripParams # NONE /\ params.server = ntripParams.server

\* checkUpdateDgnssNtrip, after the other changes to the flags, the parameters
\* and the sessions.
checkUpdateDgnssNtrip(flags, params, inSession) ==
    IF inSession /\ flags = {"ENABLE_NTRIP_COMMAND", "NO_NMEA_PENDING"}
    THEN /\ mDgnssState' = flags \cup {"NTRIP_SESSION_STARTED"}
         /\ mNtripParamsString' = params
         /\ daemon' = Sent([daemon EXCEPT !.source = params])
         /\ superseded' = FALSE
    ELSE /\ mDgnssState' = flags
         /\ UNCHANGED <<mNtripParamsString, daemon, superseded>>

\* Mutant: the source is stopped, but not forgotten for the daemon's return.
stopDgnssRemembered(flags) ==
    /\ mDgnssState' = flags \ {"NTRIP_SESSION_STARTED"}
    /\ UNCHANGED mNtripParamsString
    /\ IF "NTRIP_SESSION_STARTED" \in flags
       THEN /\ daemon' = Sent([daemon EXCEPT !.source = NONE])
            /\ superseded' = FALSE
       ELSE UNCHANGED <<daemon, superseded>>

stopDgnssNtrip(flags) ==
    /\ mDgnssState' = flags \ {"NTRIP_SESSION_STARTED"}
    /\ IF "NTRIP_SESSION_STARTED" \in flags
       THEN /\ mNtripParamsString' = NONE
            /\ daemon' = Sent([daemon EXCEPT !.source = NONE])
            /\ superseded' = FALSE
       ELSE UNCHANGED <<mNtripParamsString, daemon, superseded>>

ntrip == Calls("ntrip") /\ UNCHANGED <<mGpsLock, mReqStatusReceived, halinit>>
             /\ UNCHANGED <<dataQueue, maps, cache, framework, known, networks, dataGhosts>>

\* The same parameters as before change nothing.
handleEnablePPENtrip ==
    \E params \in Streams :
      /\ ntrip
      /\ IF SameParams(params)
         THEN UNCHANGED <<ntripParams, mDgnssState, mNtripParamsString, daemon, superseded>>
         ELSE LET flags == (mDgnssState \cup {"ENABLE_NTRIP_COMMAND", "NO_NMEA_PENDING"})
                             \ {"NTRIP_SESSION_STARTED"}
              IN  /\ ntripParams' = params
                  /\ IF isDgnssNmeaRequired(params)
                     THEN /\ mDgnssState' = flags \ {"NO_NMEA_PENDING"}
                          /\ superseded' = (superseded \/ "NTRIP_SESSION_STARTED" \in mDgnssState)
                          /\ UNCHANGED <<mNtripParamsString, daemon>>
                     ELSE checkUpdateDgnssNtrip(flags, params, sessions > 0)
      /\ UNCHANGED <<mSendNmeaConsent, sessions>>

handleDisablePPENtrip ==
    /\ ntrip
    /\ ntripParams' = NONE
    /\ stopDgnssNtrip((mDgnssState \ {"ENABLE_NTRIP_COMMAND"}) \cup {"NO_NMEA_PENDING"})
    /\ UNCHANGED <<mSendNmeaConsent, sessions>>

saveTrackingSession ==
    /\ ntrip /\ sessions < MaxSessions
    /\ sessions' = sessions + 1
    /\ checkUpdateDgnssNtrip(mDgnssState, ntripParams, TRUE)
    /\ UNCHANGED <<ntripParams, mSendNmeaConsent>>

\* The source stops with any of the sessions.
eraseTrackingSession ==
    /\ ntrip /\ sessions > 0
    /\ sessions' = sessions - 1
    /\ stopDgnssNtrip(mDgnssState \ IF isDgnssNmeaRequired(ntripParams) THEN {"NO_NMEA_PENDING"}
                                    ELSE {})
    /\ UNCHANGED <<ntripParams, mSendNmeaConsent>>

\* A GGA sentence with a fix, of the modem's or of a position's.
reportGGAToNtrip ==
    /\ ntrip /\ isDgnssNmeaRequired(ntripParams)
    /\ checkUpdateDgnssNtrip(mDgnssState \cup {"NO_NMEA_PENDING"}, ntripParams, sessions > 0)
    /\ UNCHANGED <<ntripParams, mSendNmeaConsent, sessions>>

\* Set by the caller's thread.
updateNTRIPGGAConsentCommand ==
    \E consent \in BOOLEAN :
      /\ ntrip /\ consent # mSendNmeaConsent
      /\ mSendNmeaConsent' = consent
      /\ UNCHANGED <<ntripParams, sessions, mDgnssState, mNtripParamsString, daemon, superseded>>

-----------------------------------------------------------------------------

XtraInit ==
    /\ DataInit
    /\ mGpsLock = NONE /\ mReqStatusReceived = FALSE /\ halinit = FALSE
    /\ daemon \in {Daemon(up, Ignorant) : up \in BOOLEAN}
    /\ mNtripParamsString = NONE /\ mDgnssState = {} /\ ntripParams = NONE
    /\ mSendNmeaConsent = FALSE /\ sessions = 0 /\ superseded = FALSE

Corrections ==
    \/ handleEnablePPENtrip \/ handleDisablePPENtrip \/ saveTrackingSession
    \/ eraseTrackingSession \/ reportGGAToNtrip \/ updateNTRIPGGAConsentCommand

XtraNext ==
    \/ (Calling \/ Handling) /\ UNCHANGED xtraVars
    \/ HandleOsObserverUpdateMsg \/ HandleStatusRequestMsg
    \/ DaemonStarts \/ DaemonDies \/ DelayExpires \/ updateLockStatus
    \/ Corrections

XtraSpec == XtraInit /\ [][XtraNext]_<<dataVars, xtraVars>>

-----------------------------------------------------------------------------
(* Properties.                                                               *)

\* Once the HAL has announced itself and no message is under way, a daemon that
\* is up knows the lock and the items the observer knows, also if it died and
\* came back between any two of them.
\* (mReqStatusReceived, and onStatusRequested that repeats everything)
DaemonKnows ==
    dataQueue = <<>> /\ halinit /\ daemon.up =>
      daemon.lock = mGpsLock /\ daemon.items = known[XTRA]

\* The daemon then has the source the adapter believes started, and it is that
\* of the parameters in force; there is one only in a session, and only while
\* the client has it enabled.  A source that was replaced by one that waits for
\* a location goes on, and is not counted.
\* (stopDgnssNtrip, and restartDgnssSource for a daemon that comes back)
SourceIsWanted ==
    dataQueue = <<>> /\ halinit /\ daemon.up /\ ~superseded =>
      /\ daemon.source = (IF "NTRIP_SESSION_STARTED" \in mDgnssState THEN ntripParams ELSE NONE)
      /\ "NTRIP_SESSION_STARTED" \in mDgnssState =>
           sessions > 0 /\ "ENABLE_NTRIP_COMMAND" \in mDgnssState

\* The maps of subscriptions lead to each other, and each observer, and the XTRA
\* daemon behind one of them, knows what was reported when no message is under
\* way; the daemon then runs the source that is wanted.
\* (SystemStatusOsObserver, SystemStatusNetworkInfo::collate, XtraSystemStatusObserver)
StatusTold ==
    /\ SubscriptionsAgree /\ SubscribersTold /\ NetworksRecorded
    /\ DaemonKnows /\ SourceIsWanted
=============================================================================
