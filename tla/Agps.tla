-------------------------------- MODULE Agps --------------------------------
(***************************************************************************)
(* The AGPS data connection of the GNSS HAL (gps/gnss/Agps.cpp).           *)
(*                                                                         *)
(* The modem asks for a data call under a connection handle and gives it   *)
(* back (requestATL, releaseATL).  AgpsStateMachine keeps one call to the  *)
(* framework for all handles: it requests it for the first subscriber and  *)
(* releases it after the last.  Requests of the modem and answers of the   *)
(* framework reach it as messages in the one queue of GnssAdapter, so what *)
(* the framework answers may concern a request that was withdrawn and made *)
(* again in between.                                                       *)
(*                                                                         *)
(* One state machine is modelled, that of the SUPL types (mAgnssNif).      *)
(* requestATL is the only place that makes subscribers and gives all of    *)
(* them mWaitForCloseComplete = false, so mIsInactive is never set and the *)
(* state RELEASING is never entered: subscribers are plain handles here.   *)
(* The APN, the bearer and the type of the call are passed through and not *)
(* modelled.  The modem and the framework are external.                    *)
(***************************************************************************)
EXTENDS Naturals, Sequences

CONSTANTS Handles,      \* the connection handles of the modem
          MaxQueue,     \* the modem sends only while less is on its way
          MaxRestarts   \* how often the modem may restart

ASSUME BoundsAssumption == MaxQueue \in Nat /\ MaxRestarts \in Nat

VARIABLES mAgnssNif,        \* has the state machine been created?
          mState,           \* its state
          mSubscriberList,  \* the handles in its list
          msgs,             \* the message queue of GnssAdapter
          requests,         \* requestOrReleaseDataConn calls on their way
          conn,             \* the framework's data connection
          modem,            \* what the modem knows of each handle
          restarts          \* the modem's restarts so far

smVars == <<mAgnssNif, mState, mSubscriberList>>
vars == <<mAgnssNif, mState, mSubscriberList, msgs, requests, conn, modem,
          restarts>>

AgpsState == {"RELEASED", "PENDING", "ACQUIRED"}
Answer == {"open", "failed", "closed"}
LocMsg == [type : {"requestATL", "releaseATL"}, handle : Handles]
            \cup [type : Answer \cup {"init"}]

ModemState == {"idle", "requesting", "open", "closing"}
ConnState == {"closed", "opening", "open", "unusable"}

TypeOK ==
    /\ mAgnssNif \in BOOLEAN
    /\ mState \in AgpsState
    /\ mSubscriberList \subseteq Handles
    /\ msgs \in Seq(LocMsg)
    /\ requests \in Seq({"REQUEST", "RELEASE"})
    /\ conn \in ConnState
    /\ modem \in [Handles -> ModemState]
    /\ restarts \in 0..MaxRestarts

Init ==
    /\ mAgnssNif = FALSE
    /\ mState = "RELEASED"
    /\ mSubscriberList = {}
    /\ msgs = <<>>
    /\ requests = <<>>
    /\ conn = "closed"
    /\ modem = [h \in Handles |-> "idle"]
    /\ restarts = 0

-----------------------------------------------------------------------------
(* notifyEventToSubscriber, notifyAllSubscribers: the open and close status  *)
(* of the handles hs.  The modem takes a status as the answer to what it     *)
(* last asked: one that answers nothing it waits for is dropped.             *)

Answers ==
    [GRANTED  |-> {"requesting"},
     DENIED   |-> {"requesting", "closing"},
     RELEASED |-> {"open", "closing"}]

Told(event, s) ==
    IF s \in Answers[event]
    THEN IF event = "GRANTED" THEN "open" ELSE "idle"
    ELSE s

Notify(event, hs) ==
    modem' = [h \in Handles |->
                 IF h \in hs THEN Told(event, modem[h]) ELSE modem[h]]

(* requestOrReleaseDataConn *)
requestOrReleaseDataConn(r) == requests' = Append(requests, r)

-----------------------------------------------------------------------------
(* Mutant: a subscriber of an acquired call is told, and not entered. *)
SubscribeMutant(h) ==
    /\ mSubscriberList' =
           IF mState = "ACQUIRED" THEN mSubscriberList
                                  ELSE mSubscriberList \cup {h}
    /\ \/ /\ mState = "RELEASED"
          /\ requestOrReleaseDataConn("REQUEST")
          /\ mState' = "PENDING"
          /\ UNCHANGED modem
       \/ /\ mState = "PENDING"
          /\ UNCHANGED <<mState, requests, modem>>
       \/ /\ mState = "ACQUIRED"
          /\ Notify("GRANTED", {h})
          /\ UNCHANGED <<mState, requests>>

(* processAgpsEventSubscribe *)

Subscribe(h) ==
    /\ mSubscriberList' = mSubscriberList \cup {h}
    /\ \/ /\ mState = "RELEASED"
          /\ requestOrReleaseDataConn("REQUEST")
          /\ mState' = "PENDING"
          /\ UNCHANGED modem
       \/ /\ mState = "PENDING"
          /\ UNCHANGED <<mState, requests, modem>>
       \/ /\ mState = "ACQUIRED"
          /\ Notify("GRANTED", {h})
          /\ UNCHANGED <<mState, requests>>

(* Mutant: the call is kept when its last subscriber leaves while the       *)
(* request is still pending.                                                *)
UnsubscribeMutant(h) ==
    /\ Notify("RELEASED", {h})
    /\ mSubscriberList' = mSubscriberList \ {h}
    /\ IF mSubscriberList' = {} /\ mState = "ACQUIRED"
       THEN mState' = "RELEASED" /\ requestOrReleaseDataConn("RELEASE")
       ELSE UNCHANGED <<mState, requests>>

(* Mutant: the machine waits for the close in a state no event leaves.       *)
UnsubscribeReleasingMutant(h) ==
    /\ Notify("RELEASED", {h})
    /\ mSubscriberList' = mSubscriberList \ {h}
    /\ IF mSubscriberList' = {}
       THEN mState' = "RELEASING" /\ requestOrReleaseDataConn("RELEASE")
       ELSE UNCHANGED <<mState, requests>>

(* Mutant: the subscriber is deleted before it is told. *)
UnsubscribeUntoldMutant(h) ==
    /\ mSubscriberList' = mSubscriberList \ {h}
    /\ Notify("RELEASED", mSubscriberList')
    /\ IF mSubscriberList' = {}
       THEN mState' = "RELEASED" /\ requestOrReleaseDataConn("RELEASE")
       ELSE UNCHANGED <<mState, requests>>

(* processAgpsEventUnsubscribe, for a handle releaseATL found in the list:   *)
(* the subscriber is told and deleted, and the last one releases the call.   *)
Unsubscribe(h) ==
    /\ Notify("RELEASED", {h})
    /\ mSubscriberList' = mSubscriberList \ {h}
    /\ IF mSubscriberList' = {}
       THEN mState' = "RELEASED" /\ requestOrReleaseDataConn("RELEASE")
       ELSE UNCHANGED <<mState, requests>>

(* processAgpsEventGranted: ignored, with an error in the log, unless the    *)
(* machine waits for it.                                                     *)
Granted ==
    IF mState = "PENDING"
    THEN /\ mState' = "ACQUIRED"
         /\ Notify("GRANTED", mSubscriberList)
         /\ UNCHANGED mSubscriberList
    ELSE UNCHANGED <<mState, mSubscriberList, modem>>

(* A call that was refused, or lost: every subscriber is told and deleted.   *)
DropSubscribers(event) ==
    /\ mState' = "RELEASED"
    /\ Notify(event, mSubscriberList)
    /\ mSubscriberList' = {}

(* processAgpsEventDenied *)
Denied ==
    IF mState = "PENDING"
    THEN DropSubscribers("DENIED")
    ELSE UNCHANGED <<mState, mSubscriberList, modem>>

(* Mutant: only a release that was asked for is handled. *)
ReleasedMutant == UNCHANGED <<mState, mSubscriberList, modem>>

(* processAgpsEventReleased: a forced release in ACQUIRED, nothing in        *)
(* PENDING.                                                                  *)
Released ==
    IF mState = "ACQUIRED"
    THEN DropSubscribers("RELEASED")
    ELSE UNCHANGED <<mState, mSubscriberList, modem>>

-----------------------------------------------------------------------------
(* The thread of GnssAdapter takes the messages in the order they were sent. *)

Receive(type) == msgs # <<>> /\ Head(msgs).type = type /\ msgs' = Tail(msgs)

Send(msg) == msgs' = Append(msgs, msg)

(* initAgps, createAgpsStateMachines *)
initAgps ==
    /\ Receive("init")
    /\ mAgnssNif' = TRUE
    /\ UNCHANGED <<mState, mSubscriberList, requests, conn, modem, restarts>>

(* AgpsManager::requestATL: denied at once when there is no machine.         *)
requestATL ==
    /\ Receive("requestATL")
    /\ LET h == Head(msgs).handle IN
       IF mAgnssNif
       THEN Subscribe(h)
       ELSE /\ Notify("DENIED", {h})
            /\ UNCHANGED <<mState, mSubscriberList, requests>>
    /\ UNCHANGED <<mAgnssNif, conn, restarts>>

(* AgpsManager::releaseATL: a handle that is not in the list is left alone.  *)
releaseATL ==
    /\ Receive("releaseATL")
    /\ LET h == Head(msgs).handle IN
       IF h \in mSubscriberList
       THEN Unsubscribe(h)
       ELSE UNCHANGED <<mState, mSubscriberList, requests, modem>>
    /\ UNCHANGED <<mAgnssNif, conn, restarts>>

reportAtlOpenSuccess ==
    /\ Receive("open")
    /\ Granted
    /\ UNCHANGED <<mAgnssNif, requests, conn, restarts>>

reportAtlOpenFailed ==
    /\ Receive("failed")
    /\ Denied
    /\ UNCHANGED <<mAgnssNif, requests, conn, restarts>>

reportAtlClosed ==
    /\ Receive("closed")
    /\ Released
    /\ UNCHANGED <<mAgnssNif, requests, conn, restarts>>

Adapter ==
    \/ initAgps \/ requestATL \/ releaseATL
    \/ reportAtlOpenSuccess \/ reportAtlOpenFailed \/ reportAtlClosed

-----------------------------------------------------------------------------
(* The framework, external: it sets its callback (AGnss::setCallback), takes *)
(* what the machine requests in order, and answers through dataConnOpen,     *)
(* dataConnFailed and dataConnClosed.  Every request it is passed is         *)
(* answered, at once when the connection is open already; a connection it    *)
(* has opened may be lost.                                                   *)

setCallback ==
    /\ ~mAgnssNif /\ \A i \in DOMAIN msgs : msgs[i].type # "init"
    /\ Send([type |-> "init"])
    /\ UNCHANGED <<smVars, requests, conn, modem, restarts>>

agnssStatusCb ==
    /\ requests # <<>>
    /\ requests' = Tail(requests)
    /\ \/ /\ Head(requests) = "REQUEST" /\ conn # "open"
          /\ conn' = "opening"
          /\ UNCHANGED msgs
       \/ /\ Head(requests) = "REQUEST" /\ conn = "open"
          /\ Send([type |-> "open"])
          /\ UNCHANGED conn
       \/ /\ Head(requests) = "RELEASE" /\ conn # "closed"
          /\ conn' = "closed"
          /\ Send([type |-> "closed"])
       \/ /\ Head(requests) = "RELEASE" /\ conn = "closed"
          /\ UNCHANGED <<conn, msgs>>
    /\ UNCHANGED <<smVars, modem, restarts>>

dataConnOpen ==
    /\ conn = "opening"
    /\ conn' = "open"
    /\ Send([type |-> "open"])
    /\ UNCHANGED <<smVars, requests, modem, restarts>>

(* dataConnOpenCommand with an APN that is too long, or holds a NUL: the     *)
(* answer is reported as a close, in the calling thread, past the queue.     *)
dataConnOpenBadApn ==
    /\ conn = "opening"
    /\ conn' = "unusable"
    /\ Released
    /\ UNCHANGED <<mAgnssNif, msgs, requests, restarts>>

dataConnFailed ==
    /\ conn = "opening"
    /\ conn' = "closed"
    /\ Send([type |-> "failed"])
    /\ UNCHANGED <<smVars, requests, modem, restarts>>

dataConnClosed ==
    /\ conn = "open"
    /\ conn' = "closed"
    /\ Send([type |-> "closed"])
    /\ UNCHANGED <<smVars, requests, modem, restarts>>

Answered == dataConnOpen \/ dataConnOpenBadApn \/ dataConnFailed

Framework == setCallback \/ agnssStatusCb \/ Answered \/ dataConnClosed

-----------------------------------------------------------------------------
(* The modem, external: its requests arrive in the QMI thread, which posts   *)
(* them to the adapter.  A restart forgets every handle; the adapter hears   *)
(* of it (handleEngineUpEvent) and leaves the AGPS machine as it is.         *)

(* The bound on what may be on its way when the modem adds to it.            *)
Room == Len(msgs) + Len(requests) < MaxQueue

ask(h) ==
    /\ modem[h] = "idle" /\ Room
    /\ modem' = [modem EXCEPT ![h] = "requesting"]
    /\ Send([type |-> "requestATL", handle |-> h])
    /\ UNCHANGED <<smVars, requests, conn, restarts>>

giveBack(h) ==
    /\ modem[h] \in {"requesting", "open"} /\ Room
    /\ modem' = [modem EXCEPT ![h] = "closing"]
    /\ Send([type |-> "releaseATL", handle |-> h])
    /\ UNCHANGED <<smVars, requests, conn, restarts>>

restart ==
    /\ restarts < MaxRestarts
    /\ restarts' = restarts + 1
    /\ modem' = [h \in Handles |-> "idle"]
    /\ UNCHANGED <<smVars, msgs, requests, conn>>

Modem == restart \/ \E h \in Handles : ask(h) \/ giveBack(h)

Next == Adapter \/ Framework \/ Modem

Spec == Init /\ [][Next]_vars

(* The adapter's thread runs, and the framework takes what it is passed and  *)
(* comes to an answer.  Nothing makes the modem ask, or the framework set    *)
(* its callback or lose a connection.                                        *)
FairSpec ==
    Spec /\ WF_vars(Adapter) /\ WF_vars(agnssStatusCb) /\ WF_vars(Answered)

-----------------------------------------------------------------------------
(* Nothing is on its way between the machine and the framework. *)
Quiet ==
    requests = <<>> /\ \A i \in DOMAIN msgs : msgs[i].type \notin Answer

(* What the modem believes it holds, the machine holds for it: an open       *)
(* handle is a subscriber of an acquired call, through every crossing of     *)
(* requests, withdrawals, restarts and answers.  And the list is empty       *)
(* exactly in RELEASED (the comment in processAgpsEventReleased says the one *)
(* direction): nobody waits in a list no event will look at, and no call is  *)
(* kept for nobody.                                                          *)
SubscribersHeld ==
    /\ mSubscriberList = {} <=> mState = "RELEASED"
    /\ \A h \in Handles :
          modem[h] = "open" => h \in mSubscriberList /\ mState = "ACQUIRED"

(* Late answers may make the machine believe, for a while, what is no longer *)
(* so; once nothing is on its way, a call it takes for acquired is open and  *)
(* one it waits for is still to be answered, unless its APN was refused.     *)
AgreesWhenQuiet ==
    Quiet => /\ mState = "ACQUIRED" => conn = "open"
             /\ mState = "PENDING" => conn \in {"opening", "unusable"}

(* The modem's requests are answered, unless the APN was refused, and what   *)
(* it gives back is confirmed.                                               *)
ModemAnswered ==
    \A h \in Handles :
        /\ modem[h] = "requesting"
               ~> (modem[h] # "requesting" \/ conn = "unusable")
        /\ modem[h] = "closing" ~> modem[h] # "closing"

(* Every request is answered, a refused APN included: dataConnOpenCommand    *)
(* reports it "in case of failure".                                          *)
RequestAnswered ==
    \A h \in Handles : modem[h] = "requesting" ~> modem[h] # "requesting"
=============================================================================
