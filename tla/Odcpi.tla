--------------------------------- MODULE Odcpi ---------------------------------
(***************************************************************************)
(* Positions on demand: the part of GnssAdapter (gps/gnss/GnssAdapter.cpp) *)
(* that passes the modem's requests for a position by wifi or cell on to   *)
(* the framework.                                                          *)
(*                                                                         *)
(* The modem starts and stops asking in quick succession.  The adapter     *)
(* asks the framework at once, and then at most every ten seconds, as long *)
(* as the request is active when OdcpiTimer expires.  An emergency does    *)
(* not wait.  The timer's thread posts a message when it expires, which    *)
(* may arrive after the timer was restarted.                               *)
(***************************************************************************)
EXTENDS Integers, Sequences

CONSTANTS Delay,         \* ODCPI_EXPECTED_INJECTION_TIME_MS
          MaxEvents      \* bound: requests, initializations and restarts of the modem

ASSUME DelayAssumption == Delay \in Nat /\ MaxEvents \in Nat

VARIABLES odcpiMsgs,             \* the adapter's queue
          mOdcpiRequestCb,       \* priority of who registered it, None if nobody has
          mOdcpiRequestActive,
          mOdcpiTimer,           \* [mActive, left]: left is None when it does not run
          mOdcpiRequest,         \* isEmergencyMode of the request kept
          events,
          sinceAsked,            \* time since the framework was asked, at most Delay
          owed,                  \* a request of the modem was put off
          raised,                \* an emergency has restarted the timer
          hasty                  \* the framework was asked again within Delay

adapterVars == <<mOdcpiRequestCb, mOdcpiRequestActive, mOdcpiTimer, mOdcpiRequest>>
askVars == <<sinceAsked, owed, raised, hasty>>
odcpiVars == <<odcpiMsgs, adapterVars, events, askVars>>

None == -1
Low == 0
High == 1

Stopped == [mActive |-> FALSE, left |-> None]
Started == [mActive |-> TRUE, left |-> Delay]

\* The framework is asked for a position.
Ask ==
    /\ sinceAsked' = 0
    /\ hasty' = (hasty \/ sinceAsked < Delay)
    /\ owed' = FALSE

\* Mutant: a request that comes while the timer runs is asked again.
PutOffMutant ==
    /\ mOdcpiRequestActive' = TRUE
    /\ Ask
    /\ UNCHANGED <<mOdcpiTimer, raised>>

\* The timer runs: the request is asked for when it expires, if it is still
\* active, or was already.
PutOff ==
    /\ mOdcpiRequestActive' = TRUE
    /\ owed' = TRUE
    /\ UNCHANGED <<mOdcpiTimer, sinceAsked, raised, hasty>>

Raise ==
    /\ mOdcpiRequestActive' = TRUE
    /\ mOdcpiTimer' = Started
    /\ Ask
    /\ raised' = (raised \/ mOdcpiTimer.mActive)

StartRequest(emergency) ==
    /\ mOdcpiRequest' = emergency
    /\ IF (~mOdcpiRequestActive /\ ~mOdcpiTimer.mActive) \/ (~mOdcpiRequest /\ emergency)
       THEN Raise
       ELSE PutOff

StopRequest ==
    /\ mOdcpiRequestActive' = FALSE
    /\ owed' = FALSE
    /\ UNCHANGED <<mOdcpiTimer, mOdcpiRequest, sinceAsked, raised, hasty>>

-----------------------------------------------------------------------------
(* The adapter's messages.                                                   *)

Take(op) ==
    /\ odcpiMsgs # <<>> /\ Head(odcpiMsgs).op = op
    /\ odcpiMsgs' = Tail(odcpiMsgs)
    /\ UNCHANGED events

requestOdcpi ==
    /\ Take("request")
    /\ IF mOdcpiRequestCb = None
       THEN UNCHANGED <<mOdcpiRequestActive, mOdcpiTimer, mOdcpiRequest, askVars>>
       ELSE IF Head(odcpiMsgs).start THEN StartRequest(Head(odcpiMsgs).emergency)
       ELSE StopRequest
    /\ UNCHANGED mOdcpiRequestCb

AskAgain == Ask /\ mOdcpiTimer' = Started

odcpiTimerExpire ==
    /\ Take("expire")
    /\ IF mOdcpiRequestActive THEN AskAgain
       ELSE mOdcpiTimer' = Stopped /\ UNCHANGED <<sinceAsked, owed, hasty>>
    /\ UNCHANGED <<mOdcpiRequestCb, mOdcpiRequestActive, mOdcpiRequest, raised>>

initOdcpi ==
    /\ Take("init")
    /\ mOdcpiRequestCb' = IF Head(odcpiMsgs).priority >= mOdcpiRequestCb
                          THEN Head(odcpiMsgs).priority ELSE mOdcpiRequestCb
    /\ UNCHANGED <<mOdcpiRequestActive, mOdcpiTimer, mOdcpiRequest, askVars>>

\* restartSessions, as far as it concerns the request: the timer runs on.
engineUp ==
    /\ Take("engineUp")
    /\ mOdcpiRequestActive' = FALSE
    /\ owed' = FALSE
    /\ UNCHANGED <<mOdcpiRequestCb, mOdcpiTimer, mOdcpiRequest, sinceAsked, raised, hasty>>

OdcpiAdapter == requestOdcpi \/ odcpiTimerExpire \/ initOdcpi \/ engineUp

-----------------------------------------------------------------------------
(* The timer, the modem and those who serve it.                              *)

timeOutCallback ==
    /\ mOdcpiTimer.left = 0
    /\ mOdcpiTimer' = [mOdcpiTimer EXCEPT !.left = None]
    /\ odcpiMsgs' = Append(odcpiMsgs, [op |-> "expire"])
    /\ UNCHANGED <<mOdcpiRequestCb, mOdcpiRequestActive, mOdcpiRequest, events, askVars>>

OdcpiTick ==
    /\ mOdcpiTimer.left > 0 \/ (mOdcpiTimer.left = None /\ sinceAsked < Delay)
    /\ mOdcpiTimer' = [mOdcpiTimer EXCEPT !.left = IF @ > 0 THEN @ - 1 ELSE @]
    /\ sinceAsked' = IF sinceAsked < Delay THEN sinceAsked + 1 ELSE sinceAsked
    /\ UNCHANGED <<odcpiMsgs, mOdcpiRequestCb, mOdcpiRequestActive, mOdcpiRequest, events, owed,
                   raised, hasty>>

Event(msg) ==
    /\ events < MaxEvents
    /\ events' = events + 1
    /\ odcpiMsgs' = Append(odcpiMsgs, msg)
    /\ UNCHANGED <<adapterVars, askVars>>

requestOdcpiEvent ==
    \E start, emergency \in BOOLEAN :
        Event([op |-> "request", start |-> start, emergency |-> emergency])
odcpiInit == \E priority \in {Low, High} : Event([op |-> "init", priority |-> priority])
handleEngineUpEvent == Event([op |-> "engineUp"])

OdcpiInit ==
    /\ odcpiMsgs = <<>>
    /\ mOdcpiRequestCb = None /\ mOdcpiRequestActive = FALSE
    /\ mOdcpiTimer = Stopped /\ mOdcpiRequest = FALSE
    /\ events = 0
    /\ sinceAsked = Delay /\ owed = FALSE /\ raised = FALSE /\ hasty = FALSE

OdcpiNext ==
    \/ OdcpiAdapter \/ timeOutCallback \/ OdcpiTick
    \/ requestOdcpiEvent \/ odcpiInit \/ handleEngineUpEvent

\* The adapter's thread, the timer's and the clock.
OdcpiFairness ==
    WF_odcpiVars(OdcpiAdapter) /\ WF_odcpiVars(timeOutCallback) /\ WF_odcpiVars(OdcpiTick)

OdcpiSpec == OdcpiInit /\ [][OdcpiNext]_odcpiVars

-----------------------------------------------------------------------------
(* Properties.                                                               *)

\* A request that is active is asked for again, since the timer runs or its
\* message is on its way, and a timer said to run does so too; and unless an
\* emergency has restarted it, whose message may still be on its way, the
\* framework is not asked twice within the delay ("to avoid spamming the
\* framework").  (requestOdcpi, odcpiTimerExpire)
OdcpiKept ==
    /\ mOdcpiRequestActive => mOdcpiTimer.mActive
    /\ mOdcpiTimer.mActive =>
         mOdcpiTimer.left # None \/ \E i \in DOMAIN odcpiMsgs : odcpiMsgs[i].op = "expire"
    /\ ~raised => ~hasty

\* What was put off is asked for, stopped, or forgotten with the modem.
OdcpiEnds == owed ~> ~owed
=============================================================================
