----------------------------- MODULE RequestProofs -----------------------------
(***************************************************************************)
(* Proofs about what the network and the modem ask of GnssAdapter, and     *)
(* what the framework reports to its clients: the user's consent           *)
(* (NiRequests), for any configurations, requests and responses, positions *)
(* (Odcpi), for any delay and number of requests, data calls (Agps), for   *)
(* any set of handles and any bounds, and the data items with the XTRA     *)
(* observer (DataItems, Xtra), for any observers, items, networks, size of *)
(* the table of networks, sources and bounds.                              *)
(*                                                                         *)
(* That the framework is not asked for a position twice within the delay   *)
(* needs the timer's account: its time and the time since the last request *)
(* add up to the delay, and while no emergency has restarted it, the       *)
(* message of its expiry is unique, and there only when it has stopped.    *)
(*                                                                         *)
(* That an open handle is a subscriber of an acquired call survives the    *)
(* emptying of the list only because the list is empty in RELEASED alone,  *)
(* and the grant of a call reaches the list, so nobody outside it becomes  *)
(* open.                                                                   *)
(*                                                                         *)
(* What an observer, the report of the networks and the daemon know once   *)
(* no message is under way is, while messages are, the end of the queue:   *)
(* the last message that brings an item brings what is cached, the events  *)
(* lead from the networks of the report to those there are, and a daemon   *)
(* that is not informed has a request in the queue.                        *)
(***************************************************************************)
EXTENDS Agps, NiRequests, Odcpi, Xtra, FiniteSetTheorems, SequenceTheorems, TLAPS

OdcpiMsg == [op : {"request"}, start : BOOLEAN, emergency : BOOLEAN]
              \cup [op : {"init"}, priority : {Low, High}]
              \cup [op : {"engineUp", "expire"}]

OdcpiTypeOK ==
    /\ odcpiMsgs \in Seq(OdcpiMsg)
    /\ mOdcpiRequestCb \in {None, Low, High}
    /\ mOdcpiRequestActive \in BOOLEAN
    /\ mOdcpiTimer \in [mActive : BOOLEAN, left : {None} \cup 0..Delay]
    /\ mOdcpiRequest \in BOOLEAN
    /\ events \in 0..MaxEvents
    /\ sinceAsked \in 0..Delay
    /\ owed \in BOOLEAN /\ raised \in BOOLEAN /\ hasty \in BOOLEAN

Expiry(i) == i \in DOMAIN odcpiMsgs /\ odcpiMsgs[i].op = "expire"

(* An active request has a timer, which runs or has just expired.            *)
RequestTimed ==
    /\ mOdcpiRequestActive => mOdcpiTimer.mActive
    /\ mOdcpiTimer.mActive => mOdcpiTimer.left # None \/ \E i \in Nat : Expiry(i)

(* The timer was started when the framework was asked.                       *)
TimerAccounts ==
    mOdcpiTimer.left # None =>
        mOdcpiTimer.mActive /\ sinceAsked + mOdcpiTimer.left = Delay

(* Unless an emergency restarted the timer, it expires once: its message is  *)
(* there only when it does not run, and then the delay is over.              *)
ExpiresOnce ==
    ~raised =>
        /\ \A i \in Nat : Expiry(i) => mOdcpiTimer.mActive /\ mOdcpiTimer.left = None
        /\ \A i, j \in Nat : Expiry(i) /\ Expiry(j) => i = j
        /\ mOdcpiTimer.left = None => sinceAsked = Delay
        /\ ~hasty

OdcpiIInv == OdcpiTypeOK /\ RequestTimed /\ TimerAccounts /\ ExpiresOnce

-----------------------------------------------------------------------------
(* A message that is taken was the first; the others keep their order.       *)
LEMMA OdcpiTaken ==
    ASSUME NEW op, odcpiMsgs \in Seq(OdcpiMsg), Take(op)
    PROVE  /\ odcpiMsgs' \in Seq(OdcpiMsg)
           /\ Head(odcpiMsgs) \in OdcpiMsg /\ Head(odcpiMsgs).op = op
           /\ \A i \in Nat : Expiry(i)' => i # 0 /\ Expiry(i + 1)
           /\ \A i \in Nat : Expiry(i) /\ op # "expire" => i - 1 \in Nat /\ Expiry(i - 1)'
           /\ op = "expire" => Expiry(1)
<1>1. odcpiMsgs # <<>> /\ Head(odcpiMsgs).op = op /\ odcpiMsgs' = Tail(odcpiMsgs)
  BY DEF Take
<1>2. /\ Len(odcpiMsgs) \in Nat \ {0}
      /\ DOMAIN odcpiMsgs = 1..Len(odcpiMsgs)
      /\ DOMAIN odcpiMsgs' = 1..(Len(odcpiMsgs) - 1)
      /\ \A i \in 1..(Len(odcpiMsgs) - 1) : odcpiMsgs'[i] = odcpiMsgs[i + 1]
      /\ Head(odcpiMsgs) = odcpiMsgs[1]
  BY <1>1
<1>3. \A i \in Nat : Expiry(i)' => i # 0 /\ Expiry(i + 1)
  BY <1>2 DEF Expiry
<1>4. ASSUME NEW i \in Nat, Expiry(i), op # "expire"
      PROVE  i - 1 \in Nat /\ Expiry(i - 1)'
  <2>1. i # 1 /\ i \in 1..Len(odcpiMsgs)
    BY <1>1, <1>2, <1>4 DEF Expiry
  <2>2. i - 1 \in Nat /\ i - 1 \in 1..(Len(odcpiMsgs) - 1) /\ (i - 1) + 1 = i
    BY <1>2, <2>1
  <2>3. odcpiMsgs'[i - 1] = odcpiMsgs[i]
    BY <1>2, <2>2
  <2> QED
    BY <1>2, <1>4, <2>2, <2>3 DEF Expiry
<1>5. op = "expire" => Expiry(1)
  BY <1>1, <1>2 DEF Expiry
<1>6. odcpiMsgs' \in Seq(OdcpiMsg) /\ Head(odcpiMsgs) \in OdcpiMsg
  BY <1>1
<1> QED
  BY <1>1, <1>3, <1>4, <1>5, <1>6

(* A message that is sent comes last.                                        *)
LEMMA OdcpiSent ==
    ASSUME NEW msg \in OdcpiMsg, odcpiMsgs \in Seq(OdcpiMsg),
           odcpiMsgs' = Append(odcpiMsgs, msg)
    PROVE  /\ odcpiMsgs' \in Seq(OdcpiMsg)
           /\ Len(odcpiMsgs) + 1 \in Nat /\ ~Expiry(Len(odcpiMsgs) + 1)
           /\ \A i \in Nat : Expiry(i)' <=>
                 Expiry(i) \/ (i = Len(odcpiMsgs) + 1 /\ msg.op = "expire")
BY DEF Expiry

(* What the modem and the client post are messages.                          *)
LEMMA EventMsgs ==
    /\ \A start, emergency \in BOOLEAN :
          [op |-> "request", start |-> start, emergency |-> emergency] \in OdcpiMsg
    /\ \A priority \in {Low, High} : [op |-> "init", priority |-> priority] \in OdcpiMsg
    /\ [op |-> "engineUp"] \in OdcpiMsg /\ [op |-> "expire"] \in OdcpiMsg
BY DEF OdcpiMsg

(* Asking keeps the types.                                                   *)
LEMMA AskType ==
    ASSUME OdcpiTypeOK, Ask
    PROVE  sinceAsked' \in 0..Delay /\ owed' \in BOOLEAN /\ hasty' \in BOOLEAN
<1>1. hasty' \in BOOLEAN
  BY DEF Ask
<1>2. sinceAsked' \in 0..Delay
  BY DelayAssumption DEF DelayAssumption, Ask
<1> QED
  BY <1>1, <1>2 DEF Ask

(* The framework is asked, and the timer started: as long as no emergency    *)
(* does it, that is when the timer does not run and the delay is over.       *)
LEMMA AskedKeeps ==
    ASSUME OdcpiIInv, OdcpiTypeOK', Ask, mOdcpiTimer' = Started,
           ~raised' => /\ ~raised
                       /\ mOdcpiTimer.left = None
                       /\ \A i \in Nat : ~Expiry(i)'
    PROVE  OdcpiIInv'
<1> USE DelayAssumption DEF DelayAssumption, OdcpiIInv, OdcpiTypeOK, Started, Ask, None
<1>1. RequestTimed' /\ TimerAccounts'
  BY DEF RequestTimed, TimerAccounts
<1>2. ExpiresOnce'
  BY DEF ExpiresOnce
<1> QED
  BY <1>1, <1>2

(* What leaves the timer and the time alone: a request put off or stopped,   *)
(* and messages sent that are no expiry.                                     *)
LEMMA TimerKept ==
    ASSUME OdcpiIInv, OdcpiTypeOK', UNCHANGED <<mOdcpiTimer, sinceAsked, raised, hasty>>,
           mOdcpiRequestActive' => mOdcpiTimer.mActive,
           \/ \E op \in {"request", "init", "engineUp"} : Take(op)
           \/ \E msg \in OdcpiMsg : odcpiMsgs' = Append(odcpiMsgs, msg) /\ msg.op # "expire"
           \/ odcpiMsgs' = odcpiMsgs
    PROVE  OdcpiIInv'
<1> USE DEF OdcpiIInv
<1>1. /\ \A i \in Nat : Expiry(i)' => Expiry(i) \/ Expiry(i + 1)
      /\ \A i, j \in Nat : Expiry(i)' /\ Expiry(j)' =>
            (Expiry(i) /\ Expiry(j)) \/ (Expiry(i + 1) /\ Expiry(j + 1))
      /\ (\E i \in Nat : Expiry(i)) => \E i \in Nat : Expiry(i)'
  <2>1. CASE \E op \in {"request", "init", "engineUp"} : Take(op)
    BY <2>1, OdcpiTaken DEF OdcpiTypeOK
  <2>2. CASE \E msg \in OdcpiMsg : odcpiMsgs' = Append(odcpiMsgs, msg) /\ msg.op # "expire"
    BY <2>2, OdcpiSent DEF OdcpiTypeOK
  <2>3. CASE odcpiMsgs' = odcpiMsgs
    BY <2>3 DEF Expiry
  <2> QED
    BY <2>1, <2>2, <2>3
<1>2. RequestTimed' /\ TimerAccounts'
  BY <1>1 DEF RequestTimed, TimerAccounts
<1>3. ExpiresOnce'
  BY <1>1 DEF ExpiresOnce
<1> QED
  BY <1>2, <1>3

(* Every step keeps the types.                                               *)
LEMMA OdcpiTypes == OdcpiTypeOK /\ [OdcpiNext]_odcpiVars => OdcpiTypeOK'
<1> SUFFICES ASSUME OdcpiTypeOK, [OdcpiNext]_odcpiVars
             PROVE  OdcpiTypeOK'
  OBVIOUS
<1> USE DelayAssumption DEF DelayAssumption, OdcpiTypeOK, Started, Stopped, None, Low, High
<1>1. CASE UNCHANGED odcpiVars
  BY <1>1 DEF odcpiVars, adapterVars, askVars
<1>2. CASE OdcpiAdapter
  <2>1. PICK op \in {"request", "expire", "init", "engineUp"} :
            Take(op) /\ (op = "request" => requestOdcpi) /\ (op = "expire" => odcpiTimerExpire)
                     /\ (op = "init" => initOdcpi) /\ (op = "engineUp" => engineUp)
    BY <1>2 DEF OdcpiAdapter, requestOdcpi, odcpiTimerExpire, initOdcpi, engineUp
  <2>2. /\ odcpiMsgs' \in Seq(OdcpiMsg) /\ events' = events
        /\ Head(odcpiMsgs) \in OdcpiMsg /\ Head(odcpiMsgs).op = op
    BY <2>1, OdcpiTaken DEF Take
  <2>3. CASE op = "request"
    <3>1. Head(odcpiMsgs).start \in BOOLEAN /\ Head(odcpiMsgs).emergency \in BOOLEAN
      BY <2>2, <2>3 DEF OdcpiMsg
    <3>2. /\ mOdcpiRequestCb' = mOdcpiRequestCb
          /\ \/ UNCHANGED <<mOdcpiRequestActive, mOdcpiTimer, mOdcpiRequest, askVars>>
             \/ StartRequest(Head(odcpiMsgs).emergency)
             \/ StopRequest
      BY <2>1, <2>3 DEF requestOdcpi
    <3>3. CASE Raise /\ mOdcpiRequest' = Head(odcpiMsgs).emergency
      <4>1. sinceAsked' \in 0..Delay /\ owed' \in BOOLEAN /\ hasty' \in BOOLEAN
        BY <3>3, AskType DEF Raise
      <4>2. raised' \in BOOLEAN
        BY <3>3 DEF Raise
      <4>3. mOdcpiTimer' = Started /\ mOdcpiRequestActive' = TRUE
        BY <3>3 DEF Raise
      <4> QED
        BY <2>2, <3>1, <3>2, <3>3, <4>1, <4>2, <4>3
    <3>4. CASE PutOff /\ mOdcpiRequest' = Head(odcpiMsgs).emergency
      BY <2>2, <3>1, <3>2, <3>4 DEF PutOff
    <3> QED
      BY <2>2, <3>2, <3>3, <3>4 DEF StartRequest, StopRequest, askVars
  <2>4. CASE op = "expire"
    <3>1. sinceAsked' \in 0..Delay /\ owed' \in BOOLEAN /\ hasty' \in BOOLEAN
      BY <2>1, <2>4, AskType DEF odcpiTimerExpire, AskAgain
    <3>2. mOdcpiTimer' \in {Started, Stopped}
      BY <2>1, <2>4 DEF odcpiTimerExpire, AskAgain
    <3>3. mOdcpiTimer' \in [mActive : BOOLEAN, left : {None} \cup 0..Delay]
      <4>1. Started \in [mActive : BOOLEAN, left : {None} \cup 0..Delay]
        OBVIOUS
      <4>2. Stopped \in [mActive : BOOLEAN, left : {None} \cup 0..Delay]
        OBVIOUS
      <4> QED
        BY <3>2, <4>1, <4>2
    <3>4. UNCHANGED <<mOdcpiRequestCb, mOdcpiRequestActive, mOdcpiRequest, raised>>
      BY <2>1, <2>4 DEF odcpiTimerExpire
    <3> QED
      BY <2>2, <3>1, <3>3, <3>4
  <2>5. CASE op = "init"
    <3>1. Head(odcpiMsgs).priority \in {Low, High}
      BY <2>2, <2>5 DEF OdcpiMsg
    <3> QED
      BY <2>1, <2>2, <2>5, <3>1 DEF initOdcpi, askVars
  <2>6. CASE op = "engineUp"
    BY <2>1, <2>2, <2>6 DEF engineUp
  <2> QED
    BY <2>1, <2>3, <2>4, <2>5, <2>6
<1>3. CASE timeOutCallback
  <2>1. [op |-> "expire"] \in OdcpiMsg
    BY DEF OdcpiMsg
  <2>2. odcpiMsgs' \in Seq(OdcpiMsg)
    BY <1>3, <2>1, OdcpiSent DEF timeOutCallback
  <2> QED
    BY <1>3, <2>2 DEF timeOutCallback, askVars
<1>4. CASE OdcpiTick
  <2>1. mOdcpiTimer' \in [mActive : BOOLEAN, left : {None} \cup 0..Delay]
    BY <1>4 DEF OdcpiTick
  <2>2. sinceAsked' \in 0..Delay
    BY <1>4 DEF OdcpiTick
  <2> QED
    BY <1>4, <2>1, <2>2 DEF OdcpiTick
<1>5. CASE requestOdcpiEvent \/ odcpiInit \/ handleEngineUpEvent
  <2>1. PICK msg \in OdcpiMsg : Event(msg)
    BY <1>5, EventMsgs DEF requestOdcpiEvent, odcpiInit, handleEngineUpEvent
  <2>2. odcpiMsgs' \in Seq(OdcpiMsg)
    BY <2>1, OdcpiSent DEF Event
  <2> QED
    BY <2>1, <2>2 DEF Event, adapterVars, askVars
<1> QED
  BY <1>1, <1>2, <1>3, <1>4, <1>5 DEF OdcpiNext

(* Every step keeps the invariant.                                           *)
LEMMA OdcpiStep == OdcpiIInv /\ [OdcpiNext]_odcpiVars => OdcpiIInv'
<1> SUFFICES ASSUME OdcpiIInv, [OdcpiNext]_odcpiVars
             PROVE  OdcpiIInv'
  OBVIOUS
<1> USE DelayAssumption DEF DelayAssumption, OdcpiIInv
<1>0. OdcpiTypeOK'
  BY OdcpiTypes
<1>1. CASE UNCHANGED odcpiVars
  BY <1>0, <1>1, TimerKept DEF odcpiVars, adapterVars, askVars, RequestTimed
<1>2. CASE requestOdcpi
  <2>1. Take("request")
    BY <1>2 DEF requestOdcpi
  <2>2. CASE UNCHANGED <<mOdcpiRequestActive, mOdcpiTimer, askVars>> \/ StopRequest
    BY <1>0, <2>1, <2>2, TimerKept DEF StopRequest, askVars, RequestTimed
  <2>3. CASE mOdcpiTimer.mActive /\ PutOff
    BY <1>0, <2>1, <2>3, TimerKept DEF PutOff
  <2>4. CASE Raise
    <3>1. ~raised' => ~raised /\ ~mOdcpiTimer.mActive
      BY <2>4 DEF Raise, OdcpiTypeOK
    <3>2. ~raised' => mOdcpiTimer.left = None /\ \A i \in Nat : ~Expiry(i)
      BY <3>1 DEF TimerAccounts, ExpiresOnce
    <3>3. \A i \in Nat : Expiry(i)' => Expiry(i + 1)
      BY <2>1, OdcpiTaken DEF OdcpiTypeOK
    <3> QED
      BY <1>0, <2>4, <3>1, <3>2, <3>3, AskedKeeps DEF Raise
  <2> QED
    BY <1>2, <2>2, <2>3, <2>4 DEF requestOdcpi, StartRequest, RequestTimed, PutOff
<1>3. CASE odcpiTimerExpire
  <2>1. Expiry(1) /\ \A i \in Nat : Expiry(i)' => i # 0 /\ Expiry(i + 1)
    BY <1>3, OdcpiTaken DEF odcpiTimerExpire, OdcpiTypeOK
  <2>2. ~raised => mOdcpiTimer.left = None /\ \A i \in Nat : ~Expiry(i)'
    <3>1. ASSUME ~raised, NEW i \in Nat, Expiry(i)'
          PROVE  FALSE
      <4>1. Expiry(1) /\ Expiry(i + 1) /\ i # 0
        BY <2>1, <3>1
      <4>2. i + 1 = 1
        BY <3>1, <4>1 DEF ExpiresOnce
      <4> QED
        BY <4>1, <4>2
    <3> QED
      BY <2>1, <3>1 DEF ExpiresOnce
  <2>3. CASE mOdcpiRequestActive
    BY <1>0, <1>3, <2>2, <2>3, AskedKeeps DEF odcpiTimerExpire, AskAgain
  <2>4. CASE ~mOdcpiRequestActive
    <3>1. /\ mOdcpiTimer' = Stopped /\ ~mOdcpiRequestActive'
          /\ UNCHANGED <<sinceAsked, hasty, raised>>
      BY <1>3, <2>4 DEF odcpiTimerExpire
    <3> QED
      BY <1>0, <2>2, <3>1 DEF Stopped, RequestTimed, TimerAccounts, ExpiresOnce
  <2> QED
    BY <2>3, <2>4
<1>4. CASE initOdcpi \/ engineUp
  <2>1. /\ \E op \in {"request", "init", "engineUp"} : Take(op)
        /\ UNCHANGED <<mOdcpiTimer, sinceAsked, raised, hasty>>
        /\ mOdcpiRequestActive' => mOdcpiTimer.mActive
    BY <1>4 DEF initOdcpi, engineUp, askVars, RequestTimed
  <2> QED
    BY <1>0, <2>1, TimerKept
<1>5. CASE timeOutCallback
  <2>1. [op |-> "expire"] \in OdcpiMsg
    BY DEF OdcpiMsg
  <2>2. /\ mOdcpiTimer.left = 0 /\ mOdcpiTimer' = [mOdcpiTimer EXCEPT !.left = None]
        /\ odcpiMsgs' = Append(odcpiMsgs, [op |-> "expire"])
        /\ UNCHANGED <<mOdcpiRequestActive, sinceAsked, raised, hasty>>
    BY <1>5 DEF timeOutCallback, askVars
  <2>3. /\ \E i \in Nat : Expiry(i)'
        /\ \A i \in Nat : Expiry(i)' => Expiry(i) \/ i = Len(odcpiMsgs) + 1
    BY <2>1, <2>2, OdcpiSent DEF OdcpiTypeOK
  <2>4. mOdcpiTimer.mActive /\ sinceAsked = Delay /\ mOdcpiTimer.left # None
    BY <2>2 DEF TimerAccounts, OdcpiTypeOK, None
  <2>5. mOdcpiTimer'.mActive = mOdcpiTimer.mActive /\ mOdcpiTimer'.left = None
    BY <2>2 DEF OdcpiTypeOK
  <2>6. RequestTimed' /\ TimerAccounts'
    BY <2>2, <2>3, <2>5 DEF RequestTimed, TimerAccounts
  <2>7. ExpiresOnce'
    BY <2>2, <2>3, <2>4, <2>5 DEF ExpiresOnce
  <2> QED
    BY <1>0, <2>6, <2>7
<1>6. CASE OdcpiTick
  <2>1. /\ odcpiMsgs' = odcpiMsgs
        /\ UNCHANGED <<mOdcpiRequestActive, raised, hasty>>
        /\ mOdcpiTimer'.mActive = mOdcpiTimer.mActive
    BY <1>6 DEF OdcpiTick, OdcpiTypeOK
  <2>2. \A i \in Nat : Expiry(i)' <=> Expiry(i)
    BY <2>1 DEF Expiry
  <2>3. CASE mOdcpiTimer.left > 0
    <3>1. mOdcpiTimer'.left = mOdcpiTimer.left - 1 /\ mOdcpiTimer'.left # None
      BY <1>6, <2>3 DEF OdcpiTick, OdcpiTypeOK, None
    <3>2. sinceAsked' = sinceAsked + 1 /\ sinceAsked + mOdcpiTimer.left = Delay
      BY <1>6, <2>3 DEF OdcpiTick, OdcpiTypeOK, None, TimerAccounts
    <3>3. TimerAccounts'
      BY <2>1, <2>3, <3>1, <3>2 DEF TimerAccounts, OdcpiTypeOK, None
    <3> QED
      BY <1>0, <2>1, <2>2, <2>3, <3>1, <3>3 DEF RequestTimed, ExpiresOnce, None
  <2>4. CASE mOdcpiTimer.left = None /\ sinceAsked < Delay
    <3>1. raised
      BY <2>4 DEF ExpiresOnce, OdcpiTypeOK
    <3>2. mOdcpiTimer'.left = None
      BY <1>6, <2>4 DEF OdcpiTick, OdcpiTypeOK, None
    <3> QED
      BY <1>0, <2>1, <2>2, <2>4, <3>1, <3>2 DEF RequestTimed, TimerAccounts, ExpiresOnce
  <2> QED
    BY <1>6, <2>3, <2>4 DEF OdcpiTick
<1>7. CASE requestOdcpiEvent \/ odcpiInit \/ handleEngineUpEvent
  <2>1. PICK msg \in OdcpiMsg : Event(msg) /\ msg.op # "expire"
    BY <1>7, EventMsgs DEF requestOdcpiEvent, odcpiInit, handleEngineUpEvent
  <2> QED
    BY <1>0, <2>1, TimerKept DEF Event, adapterVars, askVars, RequestTimed
<1> QED
  BY <1>1, <1>2, <1>3, <1>4, <1>5, <1>6, <1>7 DEF OdcpiNext, OdcpiAdapter

(* The inductive invariant holds in every reachable state.                   *)
THEOREM OdcpiInvariant == OdcpiSpec => []OdcpiIInv
<1>1. OdcpiInit => OdcpiIInv
  <2> SUFFICES ASSUME OdcpiInit
               PROVE  OdcpiIInv
    OBVIOUS
  <2> USE DelayAssumption DEF DelayAssumption, OdcpiInit, Stopped, None
  <2>1. OdcpiTypeOK
    <3>1. odcpiMsgs \in Seq(OdcpiMsg)
      <4>1. odcpiMsgs = <<>>
        OBVIOUS
      <4> QED
        BY <4>1
    <3>2. mOdcpiTimer \in [mActive : BOOLEAN, left : {None} \cup 0..Delay]
      OBVIOUS
    <3>3. /\ mOdcpiRequestCb = None /\ events \in 0..MaxEvents
          /\ sinceAsked \in 0..Delay
      OBVIOUS
    <3>4. /\ mOdcpiRequestActive \in BOOLEAN /\ mOdcpiRequest \in BOOLEAN
          /\ owed \in BOOLEAN /\ raised \in BOOLEAN /\ hasty \in BOOLEAN
      OBVIOUS
    <3> QED
      BY <3>1, <3>2, <3>3, <3>4 DEF OdcpiTypeOK
  <2>2. RequestTimed /\ TimerAccounts /\ ExpiresOnce
    BY DEF RequestTimed, TimerAccounts, ExpiresOnce, Expiry
  <2> QED
    BY <2>1, <2>2 DEF OdcpiIInv
<1> QED
  BY <1>1, OdcpiStep, PTL DEF OdcpiSpec

(* An active request is asked for again, a timer said to run runs or has     *)
(* just expired, and unless an emergency restarted it, the framework is not  *)
(* asked twice within the delay (requestOdcpi, odcpiTimerExpire).            *)
THEOREM RequestsKept == OdcpiSpec => []OdcpiKept
<1>1. OdcpiIInv => OdcpiKept
  BY DEF OdcpiIInv, RequestTimed, ExpiresOnce, Expiry, OdcpiKept
<1> QED
  BY <1>1, OdcpiInvariant, PTL
-----------------------------------------------------------------------------
(* The user's consent.                                                       *)

Places == {"none", "start", "waiting", "reset", "resetId", "post", "done"}

NiMsg == [op : {"notify"}, note : 1..MaxNotes]
           \cup [op : {"response"}, id : Nat, resp : Responses]
           \cup [op : {"inform"}, note : 1..MaxNotes, resp : Responses]
           \cup [op : {"removeClient"}]

NiSession(N, C) == [rawRequest : 0..N, reqID : 0..C, resp : Responses, respRecvd : BOOLEAN,
                    respTimeLeft : 0..Patience]

NiRecord == [session : Sessions, resp : Responses]

NiThread == [at : Places, left : 0..Patience, resp : Responses]

NiTypes ==
    /\ case \in Cases
    /\ arrived \in 0..Len(case.notes)
    /\ niMsgs \in Seq(NiMsg)
    /\ working \in Seq(NiRecord)
    /\ niCb \in BOOLEAN
    /\ niData \in [Sessions -> NiSession(Len(case.notes), reqIDCounter)]
    /\ reqIDCounter = Len(shown)
    /\ shown \in Seq(Notes)
    /\ responses \in Seq([id : DOMAIN shown, resp : Responses])
    /\ niThread \in [1..MaxNotes -> NiThread]
    /\ informed \in [1..MaxNotes -> Seq(Responses)]
    /\ late \subseteq Sessions
    /\ disturbed \subseteq Notes

(* A request that has not been handled has no thread and no answer; an       *)
(* answer on its way is that of a thread that is done, and not informed yet; *)
(* a response on its way is one the framework gave.                          *)
MsgKept(m) ==
    /\ m.op = "notify" =>
         m.note \in 1..arrived /\ At(m.note, "none") /\ informed[m.note] = <<>>
    /\ m.op = "inform" =>
         /\ m.note \in Notes /\ At(m.note, "done") /\ informed[m.note] = <<>>
         /\ m.resp = niThread[m.note].resp /\ m.resp # "ignore"
    /\ m.op = "response" =>
         \E j \in DOMAIN responses : responses[j].id = m.id /\ responses[j].resp = m.resp

MsgsKept == \A i \in DOMAIN niMsgs : MsgKept(niMsgs[i])

(* Nothing is posted twice for a request.                                    *)
PostedOnce ==
    \A i, j \in DOMAIN niMsgs :
        /\ niMsgs[i].op \in {"notify", "inform"} /\ niMsgs[i].op = niMsgs[j].op
        /\ niMsgs[i].note = niMsgs[j].note
        => i = j

(* A request: who waits for it, under which id, and what its thread took.    *)
NoteKept(n) ==
    /\ (niData[SessionOf(n)].rawRequest = n) = (At(n, "start") \/ At(n, "waiting"))
    /\ n > arrived => At(n, "none") /\ informed[n] = <<>>
    /\ Len(informed[n]) <= 1
    /\ ~At(n, "none") /\ ~At(n, "done") => informed[n] = <<>>
    /\ Asked(n) /\ informed[n] # <<>> =>
         Head(informed[n]) = niThread[n].resp /\ niThread[n].resp # "ignore"
    /\ n \notin disturbed /\ niData[SessionOf(n)].rawRequest = n =>
         /\ niData[SessionOf(n)].reqID \in DOMAIN shown
         /\ shown[niData[SessionOf(n)].reqID] = n
    /\ n \notin disturbed /\ Asked(n) /\ ~At(n, "start") /\ ~At(n, "waiting") =>
         niThread[n].resp \in Said(n) \cup {"noResponse", "ignore"}

NotesKept == \A n \in Notes : NoteKept(n)

(* A session: the response it holds, or is about to hold, is of the request  *)
(* that occupies it; one that a free session holds was recorded too late.    *)
SessionKept(k) ==
    LET n == niData[k].rawRequest
    IN  /\ n # 0 => SessionOf(n) = k
        /\ n = 0 /\ niData[k].respRecvd => k \in late
        /\ n # 0 /\ n \notin disturbed =>
             /\ niData[k].respRecvd => niData[k].resp \in Said(n) \cup {"ignore"}
             /\ \A i \in DOMAIN working :
                  working[i].session = k => working[i].resp \in Said(n) \cup {"ignore"}

SessionsKept == \A k \in Sessions : SessionKept(k)

NiIInv == NiTypes /\ MsgsKept /\ PostedOnce /\ NotesKept /\ SessionsKept

(* A step forgets nothing of what was asked and said.                        *)
Evolves ==
    /\ case' = case /\ arrived <= arrived' /\ disturbed \subseteq disturbed'
    /\ \A i \in DOMAIN shown : i \in DOMAIN shown' /\ shown'[i] = shown[i]
    /\ \A j \in DOMAIN responses : j \in DOMAIN responses' /\ responses'[j] = responses[j]

(* The requests of a case, and the sessions they are for.                    *)
LEMMA NoteTypes ==
    ASSUME NiTypes
    PROVE  /\ case.notes \in Seq(Note) /\ Notes = 1..Len(case.notes)
           /\ Len(case.notes) \in Nat /\ MaxNotes \in Nat /\ Patience \in Nat
           /\ Notes \subseteq 1..MaxNotes /\ Notes \subseteq Nat \ {0}
           /\ \A n \in Notes : case.notes[n] \in Note /\ SessionOf(n) \in Sessions
           /\ Sessions = {"session", "sessionEs"}
<1>1. /\ case.notes \in Seq(Note) /\ Len(case.notes) <= MaxNotes
      /\ MaxNotes \in Nat /\ Patience \in Nat
  BY CasesAssumption DEF CasesAssumption, NiTypes
<1>2. Len(case.notes) \in Nat /\ Notes = 1..Len(case.notes)
  BY <1>1 DEF Notes
<1>3. \A n \in Notes : case.notes[n] \in Note /\ SessionOf(n) \in Sessions
  BY <1>1, <1>2 DEF SessionOf, Sessions
<1> QED
  BY <1>1, <1>2, <1>3 DEF Sessions

(* A message that is taken was the first; the others keep their order.       *)
LEMMA NiTaken ==
    ASSUME NiTypes, NEW op, Handle(op)
    PROVE  /\ niMsgs' \in Seq(NiMsg) /\ working = <<>>
           /\ 1 \in DOMAIN niMsgs /\ Head(niMsgs) = niMsgs[1]
           /\ Head(niMsgs) \in NiMsg /\ Head(niMsgs).op = op
           /\ \A i \in DOMAIN niMsgs' :
                 /\ i \in Nat /\ i + 1 \in DOMAIN niMsgs /\ i + 1 # 1
                 /\ niMsgs'[i] = niMsgs[i + 1]
<1>1. niMsgs \in Seq(NiMsg) /\ niMsgs # <<>> /\ niMsgs' = Tail(niMsgs)
  BY DEF NiTypes, Handle
<1>2. /\ Len(niMsgs) \in Nat \ {0} /\ DOMAIN niMsgs = 1..Len(niMsgs)
      /\ DOMAIN niMsgs' = 1..(Len(niMsgs) - 1)
      /\ \A i \in 1..(Len(niMsgs) - 1) : niMsgs'[i] = niMsgs[i + 1]
      /\ Head(niMsgs) = niMsgs[1]
  BY <1>1
<1>3. \A i \in DOMAIN niMsgs' :
          /\ i \in Nat /\ i + 1 \in DOMAIN niMsgs /\ i + 1 # 1
          /\ niMsgs'[i] = niMsgs[i + 1]
  BY <1>2
<1>4. niMsgs' \in Seq(NiMsg) /\ Head(niMsgs) \in NiMsg
  BY <1>1
<1> QED
  BY <1>2, <1>3, <1>4 DEF Handle

(* A message that is sent comes last.                                        *)
LEMMA NiSent ==
    ASSUME NiTypes, NEW msg \in NiMsg, niMsgs' = Append(niMsgs, msg)
    PROVE  /\ niMsgs' \in Seq(NiMsg)
           /\ \A i \in DOMAIN niMsgs' :
                 (i \in DOMAIN niMsgs /\ niMsgs'[i] = niMsgs[i])
                   \/ (i = Len(niMsgs) + 1 /\ niMsgs'[i] = msg)
BY DEF NiTypes

(* What has been said of a request stays said.                               *)
LEMMA SaidGrows ==
    ASSUME NiTypes, Evolves, NEW n
    PROVE  Said(n) \subseteq Said(n)'
<1>1. responses \in Seq([id : DOMAIN shown, resp : Responses])
  BY DEF NiTypes
<1>2. ASSUME NEW j \in DOMAIN responses
      PROVE  responses[j].id \in DOMAIN shown
  <2> DEFINE S == [id : DOMAIN shown, resp : Responses]
  <2> HIDE DEF S
  <2>1. responses \in Seq(S)
    BY <1>1 DEF S
  <2>2. responses[j] \in S
    BY <2>1
  <2> QED
    BY <2>2 DEF S
<1> QED
  BY <1>2 DEF Said, Evolves

(* Every step evolves.                                                       *)
LEMMA NiEvolves == NiTypes /\ [NiNext]_niVars => Evolves
<1> SUFFICES ASSUME NiTypes, [NiNext]_niVars
             PROVE  Evolves
  OBVIOUS
<1>0. arrived \in Nat /\ shown \in Seq(Notes)
      /\ responses \in Seq([id : DOMAIN shown, resp : Responses])
  BY NoteTypes DEF NiTypes
<1>1. CASE UNCHANGED <<case, arrived, shown, responses, disturbed>>
  BY <1>0, <1>1 DEF Evolves
<1>2. CASE \E n, k : Open(n, k) /\ UNCHANGED <<case, arrived, responses>>
  <2>1. \E n : shown' = Append(shown, n)
    BY <1>2 DEF Open
  <2>2. disturbed \subseteq disturbed'
    BY <1>2 DEF Open
  <2> QED
    BY <1>0, <1>2, <2>1, <2>2 DEF Evolves
<1>3. CASE \E n \in Notes : Disturb(n) /\ UNCHANGED <<case, arrived, shown, responses>>
  <2>1. disturbed \subseteq disturbed'
    BY <1>3 DEF Disturb
  <2> QED
    BY <1>0, <1>3, <2>1 DEF Evolves
<1>4. CASE requestNiNotifyEvent
  BY <1>0, <1>4 DEF requestNiNotifyEvent, Evolves
<1>5. CASE gnssNiRespond
  <2>1. \E x : responses' = Append(responses, x)
    BY <1>5 DEF gnssNiRespond
  <2>2. UNCHANGED <<case, arrived, shown, disturbed>>
    BY <1>5 DEF gnssNiRespond
  <2> QED
    BY <1>0, <2>1, <2>2 DEF Evolves
<1>6. CASE ReportNiNotify
  BY <1>1, <1>2, <1>6 DEF ReportNiNotify, requestNiNotify, Handle
<1>7. CASE \E n \in Notes : niThreadProc(n)
  BY <1>1, <1>3, <1>7
     DEF niThreadProc, StartWait, Signalled, TimedOut, ResetTimeLeft, ResetReqID,
         gnssNiResponseCommand, handlerVars
<1>8. CASE Record \/ GnssNiResponse \/ InformNiResponse \/ eraseClient \/ NiTick \/ clientLeaves
           \/ UNCHANGED niVars
  BY <1>1, <1>8 DEF Record, GnssNiResponse, InformNiResponse, eraseClient, NiTick, clientLeaves,
                    Handle, handlerVars, niVars
<1> QED
  BY <1>4, <1>5, <1>6, <1>7, <1>8 DEF NiNext, NiAdapter

(* A request keeps its account as long as its thread, its answer and its     *)
(* session's hold on it stay as they are.                                    *)
LEMMA NoteFrame ==
    ASSUME NiTypes, Evolves, NEW n \in Notes, NoteKept(n), arrived' \in Nat,
           niThread'[n].at = niThread[n].at, niThread'[n].resp = niThread[n].resp,
           informed'[n] = informed[n],
           \/ niData'[SessionOf(n)].rawRequest = niData[SessionOf(n)].rawRequest
           \/ niData'[SessionOf(n)].rawRequest # n /\ niData[SessionOf(n)].rawRequest # n,
           \/ n \in disturbed'
           \/ niData'[SessionOf(n)].rawRequest # n
           \/ niData'[SessionOf(n)].reqID = niData[SessionOf(n)].reqID
    PROVE  NoteKept(n)'
<1>1. SessionOf(n)' = SessionOf(n) /\ arrived <= arrived' /\ arrived \in Nat /\ n \in Nat
  BY NoteTypes DEF Evolves, SessionOf, NiTypes
<1>2. \A place : At(n, place)' <=> At(n, place)
  BY DEF At
<1>3. Said(n) \subseteq Said(n)' /\ (n \in disturbed => n \in disturbed')
  BY SaidGrows DEF Evolves
<1>4. \A i \in DOMAIN shown : i \in DOMAIN shown' /\ shown'[i] = shown[i]
  BY DEF Evolves
<1>5. n > arrived' => n > arrived
  BY <1>1
<1> QED
  BY <1>1, <1>2, <1>3, <1>4, <1>5 DEF NoteKept, Asked

(* A session keeps its account as long as what it holds stays as it is, and  *)
(* what a handler has to record for it is what its request was told.         *)
LEMMA SessionFrame ==
    ASSUME NiTypes, Evolves, NEW k \in Sessions, SessionKept(k),
           niData'[k].rawRequest = niData[k].rawRequest,
           niData'[k].resp = niData[k].resp, niData'[k].respRecvd = niData[k].respRecvd,
           k \in late => k \in late',
           niData[k].rawRequest # 0 /\ niData[k].rawRequest \notin disturbed =>
               \A i \in DOMAIN working' :
                   working'[i].session = k =>
                       working'[i].resp \in Said(niData[k].rawRequest) \cup {"ignore"}
    PROVE  SessionKept(k)'
<1> DEFINE n == niData[k].rawRequest
<1>1. SessionOf(n)' = SessionOf(n)
  BY DEF Evolves, SessionOf
<1>2. Said(n) \subseteq Said(n)' /\ (n \in disturbed => n \in disturbed')
  BY SaidGrows DEF Evolves
<1> QED
  BY <1>1, <1>2 DEF SessionKept

(* The account of a session, of the request n that occupies it next.         *)
LEMMA SessionIntro ==
    ASSUME NEW k, NEW n, niData'[k].rawRequest = n,
           n # 0 => SessionOf(n)' = k,
           n = 0 /\ niData'[k].respRecvd => k \in late',
           n # 0 /\ n \notin disturbed' =>
               /\ niData'[k].respRecvd => niData'[k].resp \in Said(n)' \cup {"ignore"}
               /\ \A i \in DOMAIN working' :
                     working'[i].session = k => working'[i].resp \in Said(n)' \cup {"ignore"}
    PROVE  SessionKept(k)'
BY DEF SessionKept, SessionOf, Said

(* A message keeps its account as long as its request's thread and answer    *)
(* stay as they are.                                                         *)
LEMMA MsgFrame ==
    ASSUME NiTypes, Evolves, NEW m, MsgKept(m), arrived' \in Nat,
           m.op \in {"notify", "inform"} =>
               /\ niThread'[m.note].at = niThread[m.note].at
               /\ niThread'[m.note].resp = niThread[m.note].resp
               /\ informed'[m.note] = informed[m.note]
    PROVE  MsgKept(m)'
<1>1. arrived <= arrived' /\ arrived \in Nat /\ Notes' = Notes
  BY NoteTypes DEF Evolves, NiTypes, Notes
<1>2. \A j \in DOMAIN responses : j \in DOMAIN responses' /\ responses'[j] = responses[j]
  BY DEF Evolves
<1>3. m.op = "notify" => m.note \in 1..arrived'
  BY <1>1 DEF MsgKept
<1> QED
  BY <1>1, <1>2, <1>3 DEF MsgKept, At

(* The members of a session and of a thread may be assigned their types.     *)
LEMMA SessionUpdates ==
    ASSUME NEW N, NEW C, NEW r \in NiSession(N, C)
    PROVE  /\ \A x \in 0..N : [r EXCEPT !.rawRequest = x] \in NiSession(N, C)
           /\ \A x \in 0..C : [r EXCEPT !.reqID = x] \in NiSession(N, C)
           /\ \A x \in Responses : [r EXCEPT !.resp = x] \in NiSession(N, C)
           /\ \A x \in BOOLEAN : [r EXCEPT !.respRecvd = x] \in NiSession(N, C)
           /\ \A x \in 0..Patience : [r EXCEPT !.respTimeLeft = x] \in NiSession(N, C)
BY DEF NiSession

LEMMA SessionAssigned ==
    ASSUME NEW N \in Nat, NEW C, NEW r \in NiSession(N, C)
    PROVE  /\ \A x \in Responses, y \in BOOLEAN :
                 [r EXCEPT !.resp = x, !.respRecvd = y] \in NiSession(N, C)
           /\ \A x \in Responses, y \in BOOLEAN, z \in 0..N :
                 [r EXCEPT !.respRecvd = y, !.resp = x, !.rawRequest = z] \in NiSession(N, C)
           /\ \A x \in 0..N, y \in 0..C, z \in 0..Patience :
                 [r EXCEPT !.rawRequest = x, !.reqID = y, !.respTimeLeft = z] \in NiSession(N, C)
<1> DEFINE T == NiSession(N, C)
<1>1. /\ \A q \in T, x \in 0..N : [q EXCEPT !.rawRequest = x] \in T
      /\ \A q \in T, x \in 0..C : [q EXCEPT !.reqID = x] \in T
      /\ \A q \in T, x \in Responses : [q EXCEPT !.resp = x] \in T
      /\ \A q \in T, x \in BOOLEAN : [q EXCEPT !.respRecvd = x] \in T
      /\ \A q \in T, x \in 0..Patience : [q EXCEPT !.respTimeLeft = x] \in T
  BY SessionUpdates
<1> HIDE DEF T
<1>2. r \in T
  BY DEF T
<1>3. ASSUME NEW x \in Responses, NEW y \in BOOLEAN
      PROVE  /\ [r EXCEPT !.resp = x, !.respRecvd = y] \in T
             /\ \A z \in 0..N :
                   [r EXCEPT !.respRecvd = y, !.resp = x, !.rawRequest = z] \in T
  BY <1>1, <1>2
<1>4. ASSUME NEW x \in 0..N, NEW y \in 0..C, NEW z \in 0..Patience
      PROVE  [r EXCEPT !.rawRequest = x, !.reqID = y, !.respTimeLeft = z] \in T
  BY <1>1, <1>2
<1> QED
  BY <1>3, <1>4 DEF T

LEMMA ThreadUpdates ==
    ASSUME NEW r \in NiThread
    PROVE  /\ \A x \in Places : [r EXCEPT !.at = x] \in NiThread
           /\ \A x \in 0..Patience : [r EXCEPT !.left = x] \in NiThread
BY DEF NiThread

(* The end of a wait keeps the types, if what was taken is a response.       *)
LEMMA FinishTypes ==
    ASSUME NiTypes, NEW n \in Notes, NEW resp \in Responses, Finish(n, resp),
           UNCHANGED <<case, arrived, handlerVars, informed, disturbed>>
    PROVE  NiTypes'
<1> USE DEF NiTypes, handlerVars
<1>1. n \in 1..MaxNotes /\ SessionOf(n) \in Sessions /\ Patience \in Nat
      /\ 0 \in 0..Len(case.notes) /\ Notes' = Notes
  BY NoteTypes DEF Notes
<1>2. niData' \in [Sessions -> NiSession(Len(case.notes), reqIDCounter)]
  <2> DEFINE k == SessionOf(n)
             T == NiSession(Len(case.notes), reqIDCounter)
  <2>1. [niData[k] EXCEPT !.respRecvd = FALSE, !.resp = resp, !.rawRequest = 0] \in T
    <3>1. niData[k] \in T /\ Len(case.notes) \in Nat
      BY <1>1, NoteTypes
    <3> QED
      BY <1>1, <3>1, SessionAssigned
  <2> HIDE DEF T
  <2> QED
    BY <1>1, <2>1 DEF Finish, T
<1>3. niThread' \in [1..MaxNotes -> NiThread]
  BY <1>1 DEF Finish, Places, NiThread
<1>4. late' \subseteq Sessions
  BY DEF Finish
<1> QED
  BY <1>1, <1>2, <1>3, <1>4

(* A request that is opened keeps the types.                                 *)
LEMMA OpenTypes ==
    ASSUME NiTypes, NEW n \in Notes, NEW k \in Sessions, Open(n, k),
           niMsgs' \in Seq(NiMsg), working' = working, niCb' = niCb,
           UNCHANGED <<case, arrived, responses, late, informed>>
    PROVE  NiTypes'
<1> USE DEF NiTypes
<1>1. n \in 1..MaxNotes /\ Patience \in Nat /\ n \in 0..Len(case.notes) /\ Notes' = Notes
  BY NoteTypes DEF Notes
<1>2. shown' \in Seq(Notes) /\ Len(shown) \in Nat /\ Len(shown') = Len(shown) + 1
      /\ DOMAIN shown \subseteq DOMAIN shown' /\ reqIDCounter' = Len(shown) + 1
  BY DEF Open
<1>3. responses' \in Seq([id : DOMAIN shown', resp : Responses])
  <2> DEFINE S == [id : DOMAIN shown, resp : Responses]
             T == [id : DOMAIN shown', resp : Responses]
  <2>1. S \subseteq T
    BY <1>2
  <2> HIDE DEF S, T
  <2>2. responses \in Seq(S)
    BY DEF S
  <2>3. responses \in Seq(T)
    BY <2>1, <2>2
  <2> QED
    BY <2>3 DEF T
<1>4. niData' \in [Sessions -> NiSession(Len(case.notes), Len(shown) + 1)]
  <2> DEFINE T == NiSession(Len(case.notes), Len(shown) + 1)
  <2>1. NiSession(Len(case.notes), reqIDCounter) \subseteq T
    BY <1>2 DEF NiSession
  <2>2. [niData[k] EXCEPT !.rawRequest = n, !.reqID = Len(shown) + 1, !.respTimeLeft = Patience]
           \in T
    <3>1. niData[k] \in T /\ Len(case.notes) \in Nat /\ Patience \in 0..Patience
          /\ Len(shown) + 1 \in 0..(Len(shown) + 1)
      BY <1>1, <1>2, <2>1, NoteTypes
    <3> QED
      BY <1>1, <3>1, SessionAssigned
  <2> HIDE DEF T
  <2>3. niData \in [Sessions -> T]
    BY <2>1
  <2> QED
    BY <1>2, <2>2, <2>3 DEF Open, T
<1>5. niThread' \in [1..MaxNotes -> NiThread]
  BY <1>1, ThreadUpdates DEF Open, Places
<1>6. disturbed' \subseteq Notes
  BY DEF Open
<1> QED
  BY <1>1, <1>2, <1>3, <1>4, <1>5, <1>6

(* A member of a thread's record is assigned.                                *)
LEMMA PlaceTypes ==
    ASSUME NiTypes, NEW n \in Notes, NEW place \in Places, Goes(n, place)
    PROVE  niThread' \in [1..MaxNotes -> NiThread]
<1>1. n \in 1..MaxNotes /\ niThread \in [1..MaxNotes -> NiThread]
  BY NoteTypes DEF NiTypes
<1>2. [niThread[n] EXCEPT !.at = place] \in NiThread
  BY <1>1, ThreadUpdates
<1> QED
  BY <1>1, <1>2 DEF Goes

(* The reset of a session's members, outside the lock.                       *)
LEMMA ResetTypes ==
    ASSUME NiTypes, NEW n \in Notes
    PROVE  LET k == SessionOf(n)
           IN  /\ [niData EXCEPT ![k].respTimeLeft = 0]
                     \in [Sessions -> NiSession(Len(case.notes), reqIDCounter)]
               /\ [niData EXCEPT ![k].reqID = 0]
                     \in [Sessions -> NiSession(Len(case.notes), reqIDCounter)]
<1> DEFINE k == SessionOf(n)
           T == NiSession(Len(case.notes), reqIDCounter)
<1>1. /\ k \in Sessions /\ 0 \in 0..Patience /\ 0 \in 0..reqIDCounter
      /\ niData \in [Sessions -> T]
  BY NoteTypes DEF NiTypes
<1>2. [niData[k] EXCEPT !.respTimeLeft = 0] \in T /\ [niData[k] EXCEPT !.reqID = 0] \in T
  BY <1>1, SessionUpdates
<1> HIDE DEF T
<1> QED
  BY <1>1, <1>2 DEF T

(* Informing the modem.                                                      *)
LEMMA InformTypes ==
    ASSUME NiTypes, NEW n \in 1..MaxNotes, NEW resp \in Responses, informNiResponse(n, resp)
    PROVE  informed' \in [1..MaxNotes -> Seq(Responses)]
<1>1. informed \in [1..MaxNotes -> Seq(Responses)]
  BY DEF NiTypes
<1>2. Append(informed[n], resp) \in Seq(Responses)
  BY <1>1
<1> QED
  BY <1>1, <1>2 DEF informNiResponse

(* What a handler has to record when another session is to be ignored.       *)
LEMMA IgnoreTypes == IgnoreOther \in Seq(NiRecord)
<1>1. [session |-> "session", resp |-> "ignore"] \in NiRecord
  BY DEF NiRecord, Sessions, Responses
<1> QED
  BY <1>1 DEF IgnoreOther

(* A request that arrives is one of the case.                                *)
LEMMA Arrives ==
    ASSUME NiTypes, MsgsKept, Handle("notify")
    PROVE  LET n == Head(niMsgs).note
           IN  n \in Notes /\ n \in 1..arrived /\ At(n, "none") /\ informed[n] = <<>>
<1>1. MsgKept(Head(niMsgs)) /\ Head(niMsgs).op = "notify"
  BY NiTaken DEF MsgsKept
<1>2. 1..arrived \subseteq Notes
  BY NoteTypes DEF NiTypes
<1> QED
  BY <1>1, <1>2 DEF MsgKept

(* The adapter's steps keep the types.                                       *)
LEMMA NiAdapterTypes == NiTypes /\ MsgsKept /\ NiAdapter => NiTypes'
<1> SUFFICES ASSUME NiTypes, MsgsKept, NiAdapter
             PROVE  NiTypes'
  OBVIOUS
<1>1. CASE Record
  <2>1. working # <<>> /\ Head(working) \in NiRecord
        /\ working' \in Seq(NiRecord)
    BY <1>1 DEF Record, NiTypes
  <2> DEFINE k == Head(working).session
             T == NiSession(Len(case.notes), reqIDCounter)
  <2>2. k \in Sessions /\ Head(working).resp \in Responses /\ Len(case.notes) \in Nat
        /\ niData \in [Sessions -> T]
    BY <2>1, NoteTypes DEF NiTypes, NiRecord
  <2>3. [niData[k] EXCEPT !.resp = Head(working).resp, !.respRecvd = TRUE] \in T
    <3>1. niData[k] \in T
      BY <2>2
    <3> HIDE DEF k
    <3> QED
      BY <2>2, <3>1, SessionAssigned
  <2>4. niData' = [niData EXCEPT ![k].resp = Head(working).resp, ![k].respRecvd = TRUE]
        /\ late' \subseteq Sessions
    BY <1>1, <2>2 DEF Record, NiTypes
  <2>5. niData' \in [Sessions -> T]
    <3> HIDE DEF T
    <3> QED
      BY <2>2, <2>3, <2>4
  <2> QED
    BY <1>1, <2>1, <2>4, <2>5 DEF Record, NiTypes, Notes
<1>2. CASE ReportNiNotify
  <2> DEFINE n == Head(niMsgs).note
  <2>1. niMsgs' \in Seq(NiMsg) /\ working = <<>> /\ Head(niMsgs) \in NiMsg
        /\ Head(niMsgs).op = "notify" /\ UNCHANGED <<case, arrived, responses, late, niCb>>
    BY <1>2, NiTaken DEF ReportNiNotify, Handle
  <2>2. n \in 1..MaxNotes
    BY <2>1 DEF NiMsg
  <2>3. CASE UNCHANGED <<informed, working, niData, reqIDCounter, niThread, shown, disturbed>>
    BY <2>1, <2>3 DEF NiTypes, Notes
  <2>4. CASE Open(n, SessionOf(n)) /\ UNCHANGED <<informed, working>>
    <3>1. n \in Notes /\ SessionOf(n) \in Sessions
      BY <1>2, Arrives, NoteTypes DEF ReportNiNotify
    <3> QED
      BY <2>1, <2>4, <3>1, OpenTypes
  <2>5. CASE /\ \E resp \in Responses : informNiResponse(n, resp)
             /\ working' = IgnoreOther \/ working' = working
             /\ UNCHANGED <<niData, reqIDCounter, niThread, shown, disturbed>>
    <3>1. informed' \in [1..MaxNotes -> Seq(Responses)]
      BY <2>2, <2>5, InformTypes
    <3>2. working' \in Seq(NiRecord)
      BY <2>5, IgnoreTypes DEF NiTypes
    <3> QED
      BY <2>1, <2>5, <3>1, <3>2 DEF NiTypes, Notes
  <2>6. /\ "accept" \in Responses /\ "deny" \in Responses
        /\ \A note : Decision(note) \in {"accept", "deny", "ask"}
    BY DEF Responses, Decision
  <2> QED
    BY <1>2, <2>1, <2>3, <2>4, <2>5, <2>6 DEF ReportNiNotify, requestNiNotify
<1>3. CASE GnssNiResponse
  <2> DEFINE m == Head(niMsgs)
             to(k) == <<[session |-> k, resp |-> m.resp]>>
  <2>1. niMsgs' \in Seq(NiMsg) /\ m \in NiMsg /\ m.op = "response"
    BY <1>3, NiTaken DEF GnssNiResponse
  <2>2. m.resp \in Responses
    BY <2>1 DEF NiMsg
  <2>3. \A k \in Sessions : to(k) \in Seq(NiRecord)
    BY <2>2 DEF NiRecord
  <2>4. \/ working' = <<>>
        \/ \E s \in {<<>>, IgnoreOther} : working' = s \o to("sessionEs")
        \/ working' = to("session")
    <3> DEFINE s == IF m.resp = "accept" THEN IgnoreOther ELSE <<>>
    <3>1. s \in {<<>>, IgnoreOther}
      OBVIOUS
    <3>2. working' = IF niCb /\ Matches("sessionEs", m.id) THEN s \o to("sessionEs")
                     ELSE IF niCb /\ Matches("session", m.id) THEN to("session")
                     ELSE <<>>
      BY <1>3 DEF GnssNiResponse
    <3> HIDE DEF s, to
    <3> QED
      BY <3>1, <3>2
  <2>5. working' \in Seq(NiRecord)
    <3> HIDE DEF to
    <3>1. to("session") \in Seq(NiRecord) /\ to("sessionEs") \in Seq(NiRecord)
      BY <2>3 DEF Sessions
    <3>2. \A s \in Seq(NiRecord), t \in Seq(NiRecord) : s \o t \in Seq(NiRecord)
      OBVIOUS
    <3>3. <<>> \in Seq(NiRecord)
      OBVIOUS
    <3> QED
      BY <2>4, <3>1, <3>2, <3>3, IgnoreTypes
  <2> QED
    BY <1>3, <2>1, <2>5 DEF GnssNiResponse, Handle, NiTypes, Notes
<1>4. CASE InformNiResponse
  <2>1. niMsgs' \in Seq(NiMsg) /\ Head(niMsgs) \in NiMsg /\ Head(niMsgs).op = "inform"
    BY <1>4, NiTaken DEF InformNiResponse
  <2>2. Head(niMsgs).note \in 1..MaxNotes /\ Head(niMsgs).resp \in Responses
    BY <2>1 DEF NiMsg
  <2>3. informed' \in [1..MaxNotes -> Seq(Responses)]
    BY <1>4, <2>2, InformTypes DEF InformNiResponse
  <2> QED
    BY <1>4, <2>1, <2>3 DEF InformNiResponse, Handle, NiTypes, Notes
<1>5. CASE eraseClient
  <2>1. niMsgs' \in Seq(NiMsg)
    BY <1>5, NiTaken DEF eraseClient
  <2> QED
    BY <1>5, <2>1 DEF eraseClient, Handle, NiTypes, Notes
<1> QED
  BY <1>1, <1>2, <1>3, <1>4, <1>5 DEF NiAdapter

(* The steps of a session's thread keep the types.                           *)
LEMMA NiThreadTypes ==
    ASSUME NiTypes, NEW n \in Notes, niThreadProc(n)
    PROVE  NiTypes'
<1>0. n \in 1..MaxNotes /\ SessionOf(n) \in Sessions
      /\ niData[SessionOf(n)].resp \in Responses
      /\ niData[SessionOf(n)].respTimeLeft \in 0..Patience
      /\ niData[SessionOf(n)].rawRequest \in 0..Len(case.notes)
      /\ niThread[n] \in NiThread
  BY NoteTypes DEF NiTypes, NiSession
<1>1. CASE \E resp \in Responses :
               Finish(n, resp) /\ UNCHANGED <<case, arrived, handlerVars, informed, disturbed>>
  BY <1>1, FinishTypes
<1>2. CASE StartWait(n) /\ ~niData[SessionOf(n)].respRecvd
  <2>1. [niThread[n] EXCEPT !.at = "waiting", !.left = niData[SessionOf(n)].respTimeLeft]
            \in NiThread
    BY <1>0, ThreadUpdates DEF Places
  <2>2. niThread' \in [1..MaxNotes -> NiThread]
    BY <1>0, <1>2, <2>1 DEF StartWait, NiTypes
  <2> QED
    BY <1>2, <2>2 DEF StartWait, NiTypes, Notes, handlerVars
<1>3. CASE ResetTimeLeft(n) \/ ResetReqID(n)
  <2>1. niData' \in [Sessions -> NiSession(Len(case.notes), reqIDCounter)]
    BY <1>3, ResetTypes DEF ResetTimeLeft, ResetReqID
  <2>2. niThread' \in [1..MaxNotes -> NiThread]
    BY <1>3, PlaceTypes DEF ResetTimeLeft, ResetReqID, Places
  <2>3. niData[SessionOf(n)].rawRequest = 0 \/ niData[SessionOf(n)].rawRequest \in Notes
    BY <1>0, NoteTypes
  <2>4. disturbed' \subseteq Notes
    BY <1>3, <2>3 DEF ResetTimeLeft, ResetReqID, Disturb, NiTypes
  <2> QED
    BY <1>3, <2>1, <2>2, <2>4 DEF ResetTimeLeft, ResetReqID, NiTypes, Notes, handlerVars
<1>4. CASE gnssNiResponseCommand(n)
  <2>1. [op |-> "inform", note |-> n, resp |-> niThread[n].resp] \in NiMsg
    BY <1>0 DEF NiMsg, NiThread
  <2>2. niMsgs' \in Seq(NiMsg)
    BY <1>4, <2>1, NiSent DEF gnssNiResponseCommand, NiTypes
  <2>3. niThread' \in [1..MaxNotes -> NiThread]
    BY <1>4, PlaceTypes DEF gnssNiResponseCommand, Places
  <2> QED
    BY <1>4, <2>2, <2>3 DEF gnssNiResponseCommand, NiTypes, Notes
<1> QED
  BY <1>0, <1>1, <1>2, <1>3, <1>4
     DEF niThreadProc, StartWait, Signalled, TimedOut, Responses

(* Every step keeps the types.                                               *)
LEMMA NiTypesStep == NiTypes /\ MsgsKept /\ [NiNext]_niVars => NiTypes'
<1> SUFFICES ASSUME NiTypes, MsgsKept, [NiNext]_niVars
             PROVE  NiTypes'
  OBVIOUS
<1>1. CASE UNCHANGED niVars
  BY <1>1 DEF niVars, handlerVars, NiTypes, Notes
<1>2. CASE NiTick
  <2>1. ASSUME NEW n \in 1..MaxNotes
        PROVE  /\ niThread[n] \in NiThread
               /\ niThread[n].left > 0 =>
                     [niThread[n] EXCEPT !.left = niThread[n].left - 1] \in NiThread
    <3>1. niThread[n] \in NiThread /\ niThread[n].left \in 0..Patience /\ Patience \in Nat
      BY NoteTypes DEF NiTypes, NiThread
    <3>2. niThread[n].left > 0 => niThread[n].left - 1 \in 0..Patience
      BY <3>1
    <3> QED
      BY <3>1, <3>2, ThreadUpdates
  <2>2. niThread' \in [1..MaxNotes -> NiThread]
    BY <1>2, <2>1 DEF NiTick
  <2> QED
    BY <1>2, <2>2 DEF NiTick, NiTypes, Notes, handlerVars
<1>3. CASE requestNiNotifyEvent
  <2>1. arrived \in Nat /\ arrived' = arrived + 1 /\ arrived' \in 1..Len(case.notes)
    BY <1>3, NoteTypes DEF requestNiNotifyEvent, NiTypes
  <2>2. [op |-> "notify", note |-> arrived + 1] \in NiMsg
    BY <2>1, NoteTypes DEF NiMsg
  <2>3. niMsgs' \in Seq(NiMsg)
    BY <1>3, <2>2, NiSent DEF requestNiNotifyEvent
  <2> QED
    BY <1>3, <2>1, <2>3 DEF requestNiNotifyEvent, NiTypes, Notes
<1>4. CASE gnssNiRespond
  <2>1. PICK id \in DOMAIN shown, resp \in {"accept", "deny"} :
          /\ responses' = Append(responses, [id |-> id, resp |-> resp])
          /\ niMsgs' = Append(niMsgs, [op |-> "response", id |-> id, resp |-> resp])
    BY <1>4 DEF gnssNiRespond
  <2>2. id \in Nat /\ resp \in Responses
    BY DEF NiTypes, Responses
  <2>3. [op |-> "response", id |-> id, resp |-> resp] \in NiMsg
    BY <2>2 DEF NiMsg
  <2>4. niMsgs' \in Seq(NiMsg)
    BY <2>1, <2>3, NiSent
  <2>5. responses' \in Seq([id : DOMAIN shown, resp : Responses])
    <3> DEFINE S == [id : DOMAIN shown, resp : Responses]
    <3>1. [id |-> id, resp |-> resp] \in S /\ responses \in Seq(S)
      BY <2>2 DEF NiTypes
    <3> HIDE DEF S
    <3>2. responses' \in Seq(S)
      BY <2>1, <3>1
    <3> QED
      BY <3>2 DEF S
  <2> QED
    BY <1>4, <2>4, <2>5 DEF gnssNiRespond, NiTypes, Notes
<1>5. CASE clientLeaves
  <2>1. [op |-> "removeClient"] \in NiMsg
    BY DEF NiMsg
  <2>2. niMsgs' \in Seq(NiMsg)
    BY <1>5, <2>1, NiSent DEF clientLeaves
  <2> QED
    BY <1>5, <2>2 DEF clientLeaves, NiTypes, Notes
<1> QED
  BY <1>1, <1>2, <1>3, <1>4, <1>5, NiAdapterTypes, NiThreadTypes DEF NiNext

(* Every message of the queue keeps its account.                             *)
LEMMA MsgsFrame ==
    ASSUME NiTypes, Evolves, arrived' \in Nat,
           \A i \in DOMAIN niMsgs' :
               \/ MsgKept(niMsgs'[i])
                  /\ (niMsgs'[i].op \in {"notify", "inform"} =>
                        /\ niThread'[niMsgs'[i].note].at = niThread[niMsgs'[i].note].at
                        /\ niThread'[niMsgs'[i].note].resp = niThread[niMsgs'[i].note].resp
                        /\ informed'[niMsgs'[i].note] = informed[niMsgs'[i].note])
               \/ MsgKept(niMsgs[i])'
    PROVE  MsgsKept'
<1> SUFFICES ASSUME NEW i \in DOMAIN niMsgs'
             PROVE  MsgKept(niMsgs[i])'
  BY DEF MsgsKept
<1>1. CASE ~MsgKept(niMsgs[i])'
  <2>1. PICK m : m = niMsgs'[i]
    OBVIOUS
  <2>2. MsgKept(m)'
    BY <1>1, <2>1, MsgFrame
  <2> QED
    BY <2>1, <2>2 DEF MsgKept, At, Notes
<1> QED
  BY <1>1

(* Taking a message leaves the others kept, and nothing posted twice; those  *)
(* that remain are not of the request whose message was taken.               *)
LEMMA TakenKept ==
    ASSUME NiTypes, MsgsKept, PostedOnce, NEW op, Handle(op)
    PROVE  /\ \A i \in DOMAIN niMsgs' :
                 /\ MsgKept(niMsgs'[i])
                 /\ op \in {"notify", "inform"} /\ niMsgs'[i].op \in {"notify", "inform"} =>
                       niMsgs'[i].note # Head(niMsgs).note
           /\ PostedOnce'
<1>1. /\ 1 \in DOMAIN niMsgs /\ Head(niMsgs) = niMsgs[1] /\ niMsgs[1].op = op
      /\ \A i \in DOMAIN niMsgs' :
            /\ i \in Nat /\ i + 1 \in DOMAIN niMsgs /\ i + 1 # 1
            /\ niMsgs'[i] = niMsgs[i + 1]
  BY NiTaken
<1>2. ASSUME NEW i \in DOMAIN niMsgs'
      PROVE  MsgKept(niMsgs'[i])
  BY <1>1 DEF MsgsKept
<1>3. ASSUME NEW i \in DOMAIN niMsgs', op \in {"notify", "inform"},
             niMsgs'[i].op \in {"notify", "inform"}, niMsgs'[i].note = Head(niMsgs).note
      PROVE  FALSE
  <2>1. CASE niMsgs'[i].op = op
    BY <1>1, <1>3, <2>1 DEF PostedOnce
  <2>2. CASE niMsgs'[i].op # op
    <3>1. MsgKept(niMsgs[1]) /\ MsgKept(niMsgs'[i])
      BY <1>1, <1>2 DEF MsgsKept
    <3>2. At(niMsgs[1].note, "none") /\ At(niMsgs[1].note, "done")
      BY <1>1, <1>3, <2>2, <3>1 DEF MsgKept
    <3> QED
      BY <3>2 DEF At
  <2> QED
    BY <2>1, <2>2
<1>4. PostedOnce'
  BY <1>1 DEF PostedOnce
<1> QED
  BY <1>2, <1>3, <1>4

(* Posting for a request for which nothing of the kind is on its way.        *)
LEMMA PostedKept ==
    ASSUME NiTypes, PostedOnce, NEW msg \in NiMsg, niMsgs' = Append(niMsgs, msg),
           msg.op \in {"notify", "inform"} =>
               \A i \in DOMAIN niMsgs : niMsgs[i].op = msg.op => niMsgs[i].note # msg.note
    PROVE  PostedOnce'
<1>1. \A i \in DOMAIN niMsgs' :
          (i \in DOMAIN niMsgs /\ niMsgs'[i] = niMsgs[i])
            \/ (i = Len(niMsgs) + 1 /\ niMsgs'[i] = msg)
  BY NiSent
<1> QED
  BY <1>1 DEF PostedOnce

(* A message on its way is not of a request whose thread is at work.         *)
LEMMA NotAtWork ==
    ASSUME NEW m, MsgKept(m), NEW n, ~At(n, "none"), ~At(n, "done"),
           m.op \in {"notify", "inform"}
    PROVE  m.note # n
BY DEF MsgKept, At

(* Record keeps the accounts: what is recorded is of the request that        *)
(* occupies the session, or the session is free and it is recorded late.     *)
LEMMA RecordKept ==
    ASSUME NiIInv, Evolves, Record
    PROVE  MsgsKept' /\ PostedOnce' /\ NotesKept' /\ SessionsKept'
<1> DEFINE k == Head(working).session
<1>1. /\ working \in Seq(NiRecord) /\ working # <<>> /\ working' = Tail(working)
      /\ Head(working) = working[1] /\ 1 \in DOMAIN working
      /\ \A i \in DOMAIN working' : i + 1 \in DOMAIN working /\ working'[i] = working[i + 1]
  <2>1. working \in Seq(NiRecord) /\ working # <<>> /\ working' = Tail(working)
    BY DEF Record, NiIInv, NiTypes
  <2> QED
    BY <2>1
<1>2. /\ NiTypes /\ k \in Sessions
      /\ niData \in [Sessions -> NiSession(Len(case.notes), reqIDCounter)]
  <2>1. Head(working) \in NiRecord
    BY <1>1
  <2> QED
    BY <2>1 DEF NiIInv, NiTypes, NiRecord
<1>3. /\ niData' = [niData EXCEPT ![k].resp = Head(working).resp, ![k].respRecvd = TRUE]
      /\ late' = IF niData[k].rawRequest = 0 THEN late \cup {k} ELSE late
      /\ UNCHANGED <<case, arrived, niMsgs, shown, responses, niThread, informed, disturbed>>
  BY DEF Record
<1>4. /\ \A h \in Sessions : h # k => niData'[h] = niData[h]
      /\ niData'[k].resp = Head(working).resp /\ niData'[k].respRecvd = TRUE
      /\ \A h \in Sessions : /\ niData'[h].rawRequest = niData[h].rawRequest
                             /\ niData'[h].reqID = niData[h].reqID
  BY <1>2, <1>3 DEF NiSession
<1>5. arrived' \in Nat
  BY <1>2, <1>3, NoteTypes DEF NiTypes
<1>6. MsgsKept' /\ PostedOnce'
  BY <1>2, <1>3, <1>5, MsgsFrame DEF NiIInv, MsgsKept, PostedOnce
<1>7. ASSUME NEW n \in Notes
      PROVE  NoteKept(n)'
  <2>1. SessionOf(n) \in Sessions /\ NoteKept(n)
    BY <1>2, NoteTypes DEF NiIInv, NotesKept
  <2> QED
    BY <1>2, <1>3, <1>4, <1>5, <2>1, NoteFrame
<1>8. ASSUME NEW h \in Sessions
      PROVE  SessionKept(h)'
  <2>1. SessionKept(h)
    BY DEF NiIInv, SessionsKept
  <2>2. PICK n : n = niData[h].rawRequest /\ n = niData'[h].rawRequest
    BY <1>4
  <2>3. n # 0 /\ n \notin disturbed =>
            \A i \in DOMAIN working :
                working[i].session = h => working[i].resp \in Said(n) \cup {"ignore"}
    BY <2>1, <2>2 DEF SessionKept
  <2>4. n # 0 /\ n \notin disturbed =>
            \A i \in DOMAIN working' :
                working'[i].session = h => working'[i].resp \in Said(n) \cup {"ignore"}
    BY <1>1, <2>3
  <2>5. CASE h # k
    <3>1. niData'[h] = niData[h] /\ (h \in late => h \in late')
      BY <1>3, <1>4, <2>5
    <3> QED
      BY <1>2, <2>1, <2>2, <2>4, <3>1, SessionFrame
  <2>6. CASE h = k
    <3>1. SessionOf(n)' = SessionOf(n) /\ Said(n)' = Said(n)
      BY <1>3 DEF SessionOf, Said
    <3>2. n # 0 => SessionOf(n) = h
      BY <2>1, <2>2 DEF SessionKept
    <3>3. n = 0 => h \in late'
      BY <1>3, <2>2, <2>6
    <3>4. n # 0 /\ n \notin disturbed => niData'[h].resp \in Said(n) \cup {"ignore"}
      BY <1>1, <1>4, <2>3, <2>6
    <3> QED
      BY <1>3, <2>2, <2>4, <3>1, <3>2, <3>3, <3>4, SessionIntro
  <2> QED
    BY <2>5, <2>6
<1> QED
  BY <1>3, <1>6, <1>7, <1>8 DEF NotesKept, SessionsKept, Notes

(* A handler that leaves the threads and what the modem was informed as they *)
(* are, and has recorded for a session only what its request was told.       *)
LEMMA HandlerKept ==
    ASSUME NiIInv, Evolves, NEW op, Handle(op),
           UNCHANGED <<niData, niThread, informed>>,
           \A k \in Sessions :
               niData[k].rawRequest # 0 /\ niData[k].rawRequest \notin disturbed =>
                   \A i \in DOMAIN working' :
                       working'[i].session = k =>
                           working'[i].resp \in Said(niData[k].rawRequest) \cup {"ignore"}
    PROVE  MsgsKept' /\ PostedOnce' /\ NotesKept' /\ SessionsKept'
<1>1. NiTypes /\ UNCHANGED <<case, arrived, responses, late>>
  BY DEF NiIInv, Handle
<1>2. arrived' \in Nat
  BY <1>1, NoteTypes DEF NiTypes
<1>3. MsgsKept' /\ PostedOnce'
  BY <1>1, <1>2, TakenKept, MsgsFrame DEF NiIInv
<1>4. ASSUME NEW n \in Notes
      PROVE  NoteKept(n)'
  BY <1>1, <1>2, NoteFrame DEF NiIInv, NotesKept
<1>5. ASSUME NEW k \in Sessions
      PROVE  SessionKept(k)'
  BY <1>1, SessionFrame DEF NiIInv, SessionsKept
<1> QED
  BY <1>1, <1>3, <1>4, <1>5 DEF NotesKept, SessionsKept, Notes

(* What a handler records when the other session is to be ignored.           *)
LEMMA IgnoreOnly ==
    /\ \A i \in DOMAIN IgnoreOther : IgnoreOther[i].resp = "ignore"
    /\ \A t : \A i \in DOMAIN (IgnoreOther \o <<t>>) :
          (IgnoreOther \o <<t>>)[i] = t \/ (IgnoreOther \o <<t>>)[i].resp = "ignore"
BY DEF IgnoreOther

(* The user's response is recorded for the session whose id it names, so it  *)
(* is of the request that occupies it.                                       *)
LEMMA ResponseKept ==
    ASSUME NiIInv, Evolves, GnssNiResponse
    PROVE  MsgsKept' /\ PostedOnce' /\ NotesKept' /\ SessionsKept'
<1> DEFINE m == Head(niMsgs)
           to(k) == [session |-> k, resp |-> m.resp]
<1>1. NiTypes /\ Handle("response") /\ UNCHANGED <<niData, niThread, informed>>
  BY DEF NiIInv, GnssNiResponse
<1>2. \E j \in DOMAIN responses : responses[j].id = m.id /\ responses[j].resp = m.resp
  <2>1. MsgKept(m) /\ m.op = "response"
    BY <1>1, NiTaken DEF NiIInv, MsgsKept
  <2> QED
    BY <2>1 DEF MsgKept
<1>3. ASSUME NEW k \in Sessions, Matches(k, m.id), niData[k].rawRequest \notin disturbed
      PROVE  m.resp \in Said(niData[k].rawRequest)
  <2>1. PICK n : n = niData[k].rawRequest
    OBVIOUS
  <2>2. n # 0 /\ niData[k].reqID = m.id
    BY <1>3, <2>1 DEF Matches
  <2>3. n \in Notes /\ SessionOf(n) = k
    BY <1>1, <2>1, <2>2, NoteTypes DEF NiIInv, NiTypes, NiSession, SessionsKept, SessionKept
  <2>4. shown[m.id] = n
    BY <1>3, <2>1, <2>2, <2>3 DEF NiIInv, NotesKept, NoteKept
  <2> QED
    BY <1>2, <2>1, <2>4 DEF Said
<1>4. \A i \in DOMAIN working' :
          \/ working'[i].resp = "ignore"
          \/ \E k \in Sessions : Matches(k, m.id) /\ working'[i] = to(k)
  <2>1. CASE working' = <<>>
    BY <2>1
  <2>2. CASE niCb /\ Matches("sessionEs", m.id)
    <3>1. \/ working' = IgnoreOther \o <<to("sessionEs")>>
          \/ working' = <<>> \o <<to("sessionEs")>>
      <4> DEFINE s == IF m.resp = "accept" THEN IgnoreOther ELSE <<>>
      <4>1. working' = s \o <<to("sessionEs")>>
        BY <2>2 DEF GnssNiResponse
      <4> QED
        BY <4>1
    <3>2. CASE working' = <<>> \o <<to("sessionEs")>>
      BY <2>2, <3>2 DEF Sessions
    <3>3. CASE working' = IgnoreOther \o <<to("sessionEs")>>
      BY <2>2, <3>3, IgnoreOnly DEF Sessions
    <3> QED
      BY <3>1, <3>2, <3>3
  <2>3. CASE working' = <<to("session")>> /\ Matches("session", m.id)
    BY <2>3 DEF Sessions
  <2> QED
    BY <2>1, <2>2, <2>3 DEF GnssNiResponse
<1>5. ASSUME NEW k \in Sessions, niData[k].rawRequest # 0,
             niData[k].rawRequest \notin disturbed,
             NEW i \in DOMAIN working', working'[i].session = k
      PROVE  working'[i].resp \in Said(niData[k].rawRequest) \cup {"ignore"}
  <2>1. CASE working'[i].resp = "ignore"
    BY <2>1
  <2>2. CASE \E h \in Sessions : Matches(h, m.id) /\ working'[i] = to(h)
    BY <1>3, <1>5, <2>2
  <2> QED
    BY <1>4, <2>1, <2>2
<1> QED
  BY <1>1, <1>5, HandlerKept

(* A message that is of a request is of one of the case.                     *)
LEMMA MsgNote ==
    ASSUME NiTypes, NEW m, MsgKept(m), m.op \in {"notify", "inform"}
    PROVE  m.note \in Notes /\ m.note \in 1..MaxNotes
<1>1. 1..arrived \subseteq Notes /\ Notes \subseteq 1..MaxNotes
  BY NoteTypes DEF NiTypes
<1> QED
  BY <1>1 DEF MsgKept

(* A request is opened in a free session: what that still holds was recorded *)
(* too late, and belongs to another.                                         *)
LEMMA OpenKept ==
    ASSUME NiIInv, Evolves, Handle("notify"), NEW n, n = Head(niMsgs).note,
           NEW k, k = SessionOf(n), Free(k), Open(n, k), UNCHANGED <<informed, working>>
    PROVE  MsgsKept' /\ PostedOnce' /\ NotesKept' /\ SessionsKept'
<1>1. /\ NiTypes /\ working = <<>> /\ UNCHANGED <<case, arrived, responses, late>>
      /\ n \in Notes /\ n \in 1..arrived /\ At(n, "none") /\ informed[n] = <<>>
      /\ k \in Sessions /\ niData[k].rawRequest = 0 /\ n \in Nat \ {0} /\ arrived \in Nat
  <2>1. NiTypes /\ MsgsKept /\ arrived \in Nat
    BY NoteTypes DEF NiIInv, NiTypes
  <2>2. working = <<>> /\ UNCHANGED <<case, arrived, responses, late>>
        /\ niData[k].rawRequest = 0
    BY DEF Handle, Free
  <2>3. n \in Notes /\ n \in 1..arrived /\ At(n, "none") /\ informed[n] = <<>>
    BY <2>1, Arrives
  <2>4. k \in Sessions /\ n \in Nat \ {0}
    BY <2>1, <2>3, NoteTypes
  <2> QED
    BY <2>1, <2>2, <2>3, <2>4
<1>2. /\ niData \in [Sessions -> NiSession(Len(case.notes), reqIDCounter)]
      /\ niThread \in [1..MaxNotes -> NiThread] /\ n \in 1..MaxNotes
      /\ shown \in Seq(Notes) /\ reqIDCounter = Len(shown)
  BY <1>1, NoteTypes DEF NiTypes
<1>3. /\ niData'[k].rawRequest = n /\ niData'[k].reqID = reqIDCounter + 1
      /\ niData'[k].respRecvd = niData[k].respRecvd
      /\ \A h \in Sessions : h # k => niData'[h] = niData[h]
  BY <1>1, <1>2 DEF Open, NiSession
<1>4. /\ niThread'[n].at = "start"
      /\ \A x \in 1..MaxNotes : x # n => niThread'[x] = niThread[x]
  BY <1>2 DEF Open, NiThread
<1>5. Len(shown) + 1 \in DOMAIN shown' /\ shown'[Len(shown) + 1] = n
  BY <1>2 DEF Open
<1>6. n \notin disturbed' => ~niData[k].respRecvd
  <2>1. SessionKept(k)
    BY <1>1 DEF NiIInv, SessionsKept
  <2> QED
    BY <1>1, <2>1 DEF Open, SessionKept
<1>7. MsgsKept' /\ PostedOnce'
  <2>1. \A i \in DOMAIN niMsgs' :
            /\ MsgKept(niMsgs'[i])
            /\ niMsgs'[i].op \in {"notify", "inform"} =>
                  niMsgs'[i].note \in 1..MaxNotes /\ niMsgs'[i].note # n
    BY <1>1, MsgNote, TakenKept DEF NiIInv
  <2>2. MsgsKept'
    BY <1>1, <1>4, <2>1, MsgsFrame
  <2> QED
    BY <1>1, <2>2, TakenKept DEF NiIInv
<1>8. ASSUME NEW x \in Notes
      PROVE  NoteKept(x)'
  <2>1. NoteKept(x) /\ SessionOf(x) \in Sessions /\ x \in 1..MaxNotes
    BY <1>1, NoteTypes DEF NiIInv, NotesKept
  <2>2. CASE x # n
    <3>1. niThread'[x] = niThread[x] /\ informed'[x] = informed[x]
      BY <1>4, <2>1, <2>2
    <3>2. \/ niData'[SessionOf(x)] = niData[SessionOf(x)]
          \/ niData'[SessionOf(x)].rawRequest # x /\ niData[SessionOf(x)].rawRequest # x
      BY <1>1, <1>3, <2>1, <2>2, NoteTypes
    <3> QED
      BY <1>1, <2>1, <3>1, <3>2, NoteFrame
  <2>3. CASE x = n
    <3>1. SessionOf(n)' = k
      BY <1>1 DEF SessionOf
    <3>2. informed'[n] = <<>> /\ ~(n > arrived') /\ Len(<<>>) <= 1
      BY <1>1
    <3> QED
      BY <1>1, <1>2, <1>3, <1>4, <1>5, <2>3, <3>1, <3>2 DEF NoteKept, At, Asked
  <2> QED
    BY <2>2, <2>3
<1>9. ASSUME NEW h \in Sessions
      PROVE  SessionKept(h)'
  <2>1. CASE h # k
    BY <1>1, <1>3, <2>1, SessionFrame DEF NiIInv, SessionsKept
  <2>2. CASE h = k
    <3>1. SessionOf(n)' = k /\ n # 0 /\ working' = <<>>
      BY <1>1 DEF SessionOf
    <3> QED
      BY <1>3, <1>6, <2>2, <3>1, SessionIntro
  <2> QED
    BY <2>1, <2>2
<1> QED
  BY <1>1, <1>7, <1>8, <1>9 DEF NotesKept, SessionsKept, Notes

(* The modem is informed of a request: of one that is not shown, or of what  *)
(* its thread has posted.                                                    *)
LEMMA InformKept ==
    ASSUME NiIInv, Evolves, NEW op \in {"notify", "inform"}, Handle(op),
           NEW n \in Notes, n = Head(niMsgs).note, NEW resp \in Responses,
           informNiResponse(n, resp), informed[n] = <<>>,
           \/ At(n, "none") /\ n \in 1..arrived
           \/ At(n, "done") /\ resp = niThread[n].resp /\ resp # "ignore",
           UNCHANGED <<niData, niThread, shown, disturbed>>,
           \A i \in DOMAIN working' : working'[i].resp = "ignore"
    PROVE  MsgsKept' /\ PostedOnce' /\ NotesKept' /\ SessionsKept'
<1>1. /\ NiTypes /\ UNCHANGED <<case, arrived, responses, late>> /\ arrived \in Nat
      /\ n \in 1..MaxNotes /\ informed \in [1..MaxNotes -> Seq(Responses)]
  <2>1. NiTypes /\ n \in 1..MaxNotes
    BY NoteTypes DEF NiIInv
  <2>2. arrived \in Nat /\ informed \in [1..MaxNotes -> Seq(Responses)]
    BY <2>1, NoteTypes DEF NiTypes
  <2> QED
    BY <2>1, <2>2 DEF Handle
<1>2. /\ informed'[n] = <<resp>>
      /\ \A x \in 1..MaxNotes : x # n => informed'[x] = informed[x]
  BY <1>1 DEF informNiResponse
<1>3. MsgsKept' /\ PostedOnce'
  <2>1. \A i \in DOMAIN niMsgs' :
            /\ MsgKept(niMsgs'[i])
            /\ niMsgs'[i].op \in {"notify", "inform"} =>
                  niMsgs'[i].note \in 1..MaxNotes /\ niMsgs'[i].note # n
    BY <1>1, MsgNote, TakenKept DEF NiIInv
  <2>2. MsgsKept'
    BY <1>1, <1>2, <2>1, MsgsFrame
  <2> QED
    BY <1>1, <2>2, TakenKept DEF NiIInv
<1>4. ASSUME NEW x \in Notes
      PROVE  NoteKept(x)'
  <2>1. NoteKept(x) /\ x \in 1..MaxNotes
    BY <1>1, NoteTypes DEF NiIInv, NotesKept
  <2>2. CASE x # n
    BY <1>1, <1>2, <2>1, <2>2, NoteFrame
  <2>3. CASE x = n
    <3>1. SessionOf(n)' = SessionOf(n) /\ Said(n)' = Said(n) /\ Asked(n)' = Asked(n)
      BY <1>1 DEF SessionOf, Said, Asked, At
    <3>2. informed'[n] # <<>> /\ Len(informed'[n]) <= 1 /\ Head(informed'[n]) = resp
      BY <1>2
    <3>3. ~(n > arrived)
      BY <1>1, <2>1, <2>3 DEF NoteKept, At
    <3> QED
      BY <1>1, <2>1, <2>3, <3>1, <3>2, <3>3 DEF NoteKept, At, Asked
  <2> QED
    BY <2>2, <2>3
<1>5. ASSUME NEW k \in Sessions
      PROVE  SessionKept(k)'
  BY <1>1, SessionFrame DEF NiIInv, SessionsKept
<1> QED
  BY <1>1, <1>3, <1>4, <1>5 DEF NotesKept, SessionsKept, Notes

(* The adapter's steps keep the accounts.                                    *)
LEMMA AdapterKept ==
    ASSUME NiIInv, Evolves, NiAdapter
    PROVE  MsgsKept' /\ PostedOnce' /\ NotesKept' /\ SessionsKept'
<1>0. NiTypes /\ MsgsKept
  BY DEF NiIInv
<1>1. CASE ReportNiNotify
  <2>1. PICK n : n = Head(niMsgs).note
    OBVIOUS
  <2>2. /\ Handle("notify") /\ working = <<>>
        /\ n \in Notes /\ n \in 1..arrived /\ At(n, "none") /\ informed[n] = <<>>
    BY <1>0, <1>1, <2>1, Arrives DEF ReportNiNotify, Handle
  <2>3. CASE UNCHANGED <<informed, working, niData, reqIDCounter, niThread, shown, disturbed>>
    BY <2>2, <2>3, HandlerKept
  <2>4. CASE /\ Free(SessionOf(n)) /\ Open(n, SessionOf(n)) /\ UNCHANGED <<informed, working>>
    BY <2>1, <2>2, <2>4, OpenKept
  <2>5. CASE /\ \E resp \in {"accept", "deny"} : informNiResponse(n, resp)
             /\ working' = IgnoreOther \/ working' = working
             /\ UNCHANGED <<niData, reqIDCounter, niThread, shown, disturbed>>
    <3>1. \A i \in DOMAIN working' : working'[i].resp = "ignore"
      BY <2>2, <2>5, IgnoreOnly
    <3> QED
      BY <2>1, <2>2, <2>5, <3>1, InformKept DEF Responses
  <2>6. \A note : Decision(note) \in {"accept", "deny", "ask"}
    BY DEF Decision
  <2> QED
    BY <1>1, <2>1, <2>3, <2>4, <2>5, <2>6 DEF ReportNiNotify, requestNiNotify
<1>2. CASE InformNiResponse
  <2>1. PICK n, resp : n = Head(niMsgs).note /\ resp = Head(niMsgs).resp
    OBVIOUS
  <2>2. MsgKept(Head(niMsgs)) /\ Head(niMsgs).op = "inform" /\ Head(niMsgs) \in NiMsg
        /\ working = <<>>
    BY <1>0, <1>2, NiTaken DEF InformNiResponse, MsgsKept
  <2>3. /\ n \in Notes /\ At(n, "done") /\ informed[n] = <<>>
        /\ resp = niThread[n].resp /\ resp # "ignore" /\ resp \in Responses
    BY <2>1, <2>2 DEF MsgKept, NiMsg
  <2> QED
    BY <1>2, <2>1, <2>2, <2>3, InformKept DEF InformNiResponse
<1>3. CASE eraseClient
  <2>1. working' = <<>>
    BY <1>0, <1>3, NiTaken DEF eraseClient
  <2> QED
    BY <1>3, <2>1, HandlerKept DEF eraseClient
<1> QED
  BY <1>1, <1>2, <1>3, RecordKept, ResponseKept DEF NiAdapter

(* The end of a wait gives the session back, with what was said of its       *)
(* request or with nothing.                                                  *)
LEMMA FinishKept ==
    ASSUME NiIInv, Evolves, NEW n \in Notes, NEW resp, Finish(n, resp),
           At(n, "start") \/ At(n, "waiting"),
           \/ resp = "noResponse"
           \/ resp = niData[SessionOf(n)].resp /\ niData[SessionOf(n)].respRecvd,
           UNCHANGED <<case, arrived, handlerVars, informed, disturbed>>
    PROVE  MsgsKept' /\ PostedOnce' /\ NotesKept' /\ SessionsKept'
<1>1. PICK k : k = SessionOf(n)
  OBVIOUS
<1>2. /\ NiTypes /\ UNCHANGED <<case, arrived, niMsgs, working, shown, responses, informed>>
      /\ disturbed' = disturbed /\ k \in Sessions /\ n \in 1..MaxNotes /\ n \in Nat \ {0}
      /\ arrived' \in Nat
  <2>1. NiTypes
    BY DEF NiIInv
  <2>2. arrived \in Nat
    BY <2>1, NoteTypes DEF NiTypes
  <2> QED
    BY <1>1, <2>1, <2>2, NoteTypes DEF handlerVars
<1>3. /\ niData \in [Sessions -> NiSession(Len(case.notes), reqIDCounter)]
      /\ niThread \in [1..MaxNotes -> NiThread]
  BY <1>2 DEF NiTypes
<1>4. /\ niData'[k].rawRequest = 0 /\ niData'[k].respRecvd = FALSE
      /\ \A h \in Sessions : h # k => niData'[h] = niData[h]
      /\ niThread'[n] = [at |-> "reset", left |-> 0, resp |-> resp]
      /\ \A x \in 1..MaxNotes : x # n => niThread'[x] = niThread[x]
      /\ \A h \in Sessions : h # k /\ h \in late => h \in late'
  BY <1>1, <1>2, <1>3 DEF Finish, NiSession
<1>5. NoteKept(n) /\ niData[k].rawRequest = n /\ informed[n] = <<>>
  BY <1>1 DEF NiIInv, NotesKept, NoteKept, At
<1>6. MsgsKept' /\ PostedOnce'
  <2>1. \A i \in DOMAIN niMsgs : MsgKept(niMsgs[i])
    BY DEF NiIInv, MsgsKept
  <2>2. ~At(n, "none") /\ ~At(n, "done")
    BY DEF At
  <2>3. \A i \in DOMAIN niMsgs :
            niMsgs[i].op \in {"notify", "inform"} =>
                niMsgs[i].note \in 1..MaxNotes /\ niMsgs[i].note # n
    BY <1>2, <2>1, <2>2, MsgNote, NotAtWork
  <2>4. MsgsKept'
    BY <1>2, <1>4, <2>1, <2>3, MsgsFrame
  <2> QED
    BY <1>2, <2>4 DEF NiIInv, PostedOnce
<1>7. ASSUME NEW x \in Notes
      PROVE  NoteKept(x)'
  <2>1. NoteKept(x) /\ SessionOf(x) \in Sessions /\ x \in 1..MaxNotes
    BY <1>2, NoteTypes DEF NiIInv, NotesKept
  <2>2. CASE x # n
    <3>1. niThread'[x] = niThread[x] /\ informed'[x] = informed[x]
      BY <1>2, <1>4, <2>1, <2>2
    <3>2. \/ niData'[SessionOf(x)] = niData[SessionOf(x)]
          \/ niData'[SessionOf(x)].rawRequest # x /\ niData[SessionOf(x)].rawRequest # x
      BY <1>2, <1>4, <1>5, <2>1, <2>2, NoteTypes
    <3> QED
      BY <1>2, <2>1, <3>1, <3>2, NoteFrame
  <2>3. CASE x = n
    <3>1. SessionOf(n)' = k /\ Said(n)' = Said(n)
      BY <1>1, <1>2 DEF SessionOf, Said
    <3>2. SessionKept(k)
      BY <1>2 DEF NiIInv, SessionsKept
    <3>3. n \notin disturbed => resp \in Said(n) \cup {"noResponse", "ignore"}
      BY <1>1, <1>2, <1>5, <3>2 DEF SessionKept
    <3>4. ~(n > arrived)
      BY <1>5 DEF NoteKept, At
    <3>5. niThread'[n].at = "reset" /\ niThread'[n].resp = resp /\ Len(<<>>) <= 1
      BY <1>4
    <3> QED
      BY <1>2, <1>4, <1>5, <2>3, <3>1, <3>3, <3>4, <3>5 DEF NoteKept, At, Asked
  <2> QED
    BY <2>2, <2>3
<1>8. ASSUME NEW h \in Sessions
      PROVE  SessionKept(h)'
  <2>1. SessionKept(h)
    BY DEF NiIInv, SessionsKept
  <2>2. CASE h # k
    <3>1. niData[h].rawRequest # 0 /\ niData[h].rawRequest \notin disturbed =>
              \A i \in DOMAIN working' :
                  working'[i].session = h =>
                      working'[i].resp \in Said(niData[h].rawRequest) \cup {"ignore"}
      BY <1>2, <2>1 DEF SessionKept
    <3> QED
      BY <1>2, <1>4, <2>1, <2>2, <3>1, SessionFrame
  <2>3. CASE h = k
    BY <1>4, <2>3, SessionIntro
  <2> QED
    BY <2>2, <2>3
<1> QED
  BY <1>2, <1>6, <1>7, <1>8 DEF NotesKept, SessionsKept, Notes

(* A step that leaves threads, sessions and answers alone, but for the time  *)
(* left, and may post a message.                                             *)
LEMMA StillKept ==
    ASSUME NiIInv, Evolves, arrived' \in Nat, UNCHANGED <<working, niData, informed, late>>,
           \A x \in 1..MaxNotes : /\ niThread'[x].at = niThread[x].at
                                  /\ niThread'[x].resp = niThread[x].resp,
           \/ niMsgs' = niMsgs
           \/ \E msg \in NiMsg :
                 /\ niMsgs' = Append(niMsgs, msg) /\ MsgKept(msg)'
                 /\ msg.op \in {"notify", "inform"} =>
                       \A i \in DOMAIN niMsgs : niMsgs[i].op = msg.op => niMsgs[i].note # msg.note
    PROVE  MsgsKept' /\ PostedOnce' /\ NotesKept' /\ SessionsKept'
<1>1. NiTypes /\ case' = case
  BY DEF NiIInv, Evolves
<1>2. \A i \in DOMAIN niMsgs :
          /\ MsgKept(niMsgs[i])
          /\ niMsgs[i].op \in {"notify", "inform"} => niMsgs[i].note \in 1..MaxNotes
  BY <1>1, MsgNote DEF NiIInv, MsgsKept
<1>3. MsgsKept' /\ PostedOnce'
  <2>1. CASE niMsgs' = niMsgs
    <3>1. MsgsKept'
      BY <1>1, <1>2, <2>1, MsgsFrame
    <3> QED
      BY <2>1, <3>1 DEF NiIInv, PostedOnce
  <2>2. CASE \E msg \in NiMsg :
                 /\ niMsgs' = Append(niMsgs, msg) /\ MsgKept(msg)'
                 /\ msg.op \in {"notify", "inform"} =>
                       \A i \in DOMAIN niMsgs : niMsgs[i].op = msg.op => niMsgs[i].note # msg.note
    <3>1. PICK msg \in NiMsg :
                 /\ niMsgs' = Append(niMsgs, msg) /\ MsgKept(msg)'
                 /\ msg.op \in {"notify", "inform"} =>
                       \A i \in DOMAIN niMsgs : niMsgs[i].op = msg.op => niMsgs[i].note # msg.note
      BY <2>2
    <3>2. \A i \in DOMAIN niMsgs' :
              (i \in DOMAIN niMsgs /\ niMsgs'[i] = niMsgs[i]) \/ niMsgs'[i] = msg
      BY <1>1, <3>1, NiSent
    <3>3. \A i \in DOMAIN niMsgs' : niMsgs'[i] = msg => MsgKept(niMsgs[i])'
      BY <3>1 DEF MsgKept, At, Notes
    <3>4. MsgsKept'
      BY <1>1, <1>2, <3>2, <3>3, MsgsFrame
    <3> QED
      BY <1>1, <3>1, <3>4, PostedKept DEF NiIInv
  <2> QED
    BY <2>1, <2>2
<1>4. ASSUME NEW x \in Notes
      PROVE  NoteKept(x)'
  <2>1. NoteKept(x) /\ x \in 1..MaxNotes
    BY <1>1, NoteTypes DEF NiIInv, NotesKept
  <2> QED
    BY <1>1, <2>1, NoteFrame
<1>5. ASSUME NEW k \in Sessions
      PROVE  SessionKept(k)'
  <2>1. SessionKept(k)
    BY DEF NiIInv, SessionsKept
  <2>2. niData[k].rawRequest # 0 /\ niData[k].rawRequest \notin disturbed =>
            \A i \in DOMAIN working' :
                working'[i].session = k =>
                    working'[i].resp \in Said(niData[k].rawRequest) \cup {"ignore"}
    BY <2>1 DEF SessionKept
  <2> QED
    BY <1>1, <2>1, <2>2, SessionFrame
<1> QED
  BY <1>1, <1>3, <1>4, <1>5 DEF NotesKept, SessionsKept, Notes

(* A thread goes on: in its wait, or after it, when it resets what may be    *)
(* another's and posts what it took.                                         *)
LEMMA MoveKept ==
    ASSUME NiIInv, Evolves, NEW n \in Notes, NEW place,
           UNCHANGED <<arrived, working, informed, late>>,
           ~At(n, "none") /\ ~At(n, "done"), place # "none",
           (At(n, "start") \/ At(n, "waiting")) = (place \in {"start", "waiting"}),
           niThread'[n].at = place, niThread'[n].resp = niThread[n].resp,
           \A x \in 1..MaxNotes : x # n => niThread'[x] = niThread[x],
           \A h \in Sessions : /\ niData'[h].rawRequest = niData[h].rawRequest
                               /\ niData'[h].resp = niData[h].resp
                               /\ niData'[h].respRecvd = niData[h].respRecvd
                               /\ \/ niData'[h].reqID = niData[h].reqID
                                  \/ niData[h].rawRequest \in disturbed' \cup {0},
           \/ niMsgs' = niMsgs
           \/ /\ place = "done" /\ niThread[n].resp # "ignore"
              /\ niMsgs' = Append(niMsgs, [op |-> "inform", note |-> n, resp |-> niThread[n].resp])
    PROVE  MsgsKept' /\ PostedOnce' /\ NotesKept' /\ SessionsKept'
<1>1. /\ NiTypes /\ case' = case /\ NoteKept(n) /\ informed[n] = <<>> /\ n \in 1..MaxNotes
      /\ n \in Nat \ {0} /\ niThread[n].resp \in Responses
  <2>1. NiTypes /\ NoteKept(n) /\ case' = case
    BY DEF NiIInv, NotesKept, Evolves
  <2>2. n \in 1..MaxNotes /\ n \in Nat \ {0}
    BY <2>1, NoteTypes
  <2>3. niThread[n].resp \in Responses
    BY <2>1, <2>2 DEF NiTypes, NiThread
  <2> QED
    BY <2>1, <2>2, <2>3 DEF NoteKept
<1>2. arrived \in Nat /\ arrived' \in Nat
  BY <1>1, NoteTypes DEF NiTypes
<1>3. \A i \in DOMAIN niMsgs :
          /\ MsgKept(niMsgs[i])
          /\ niMsgs[i].op \in {"notify", "inform"} =>
                niMsgs[i].note \in 1..MaxNotes /\ niMsgs[i].note # n
  BY <1>1, MsgNote, NotAtWork DEF NiIInv, MsgsKept
<1>4. MsgsKept' /\ PostedOnce'
  <2>1. CASE niMsgs' = niMsgs
    <3>1. MsgsKept'
      BY <1>1, <1>2, <1>3, <2>1, MsgsFrame
    <3> QED
      BY <2>1, <3>1 DEF NiIInv, PostedOnce
  <2>2. CASE /\ place = "done" /\ niThread[n].resp # "ignore"
             /\ niMsgs' = Append(niMsgs, [op |-> "inform", note |-> n, resp |-> niThread[n].resp])
    <3>1. PICK msg : msg = [op |-> "inform", note |-> n, resp |-> niThread[n].resp]
      OBVIOUS
    <3>2. msg \in NiMsg /\ msg.op = "inform" /\ msg.note = n /\ msg.resp = niThread[n].resp
      BY <1>1, <3>1 DEF NiMsg
    <3>3. \A i \in DOMAIN niMsgs' :
              (i \in DOMAIN niMsgs /\ niMsgs'[i] = niMsgs[i]) \/ niMsgs'[i] = msg
      BY <1>1, <2>2, <3>1, <3>2, NiSent
    <3>4. \A i \in DOMAIN niMsgs' : niMsgs'[i] = msg => MsgKept(niMsgs[i])'
      BY <1>1, <2>2, <3>2 DEF MsgKept, At, Notes
    <3>5. MsgsKept'
      BY <1>1, <1>2, <1>3, <3>3, <3>4, MsgsFrame
    <3>6. PostedOnce'
      BY <1>1, <1>3, <2>2, <3>1, <3>2, PostedKept DEF NiIInv
    <3> QED
      BY <3>5, <3>6
  <2> QED
    BY <2>1, <2>2
<1>5. ASSUME NEW x \in Notes
      PROVE  NoteKept(x)'
  <2>1. NoteKept(x) /\ SessionOf(x) \in Sessions /\ x \in 1..MaxNotes /\ x \in Nat \ {0}
    BY <1>1, NoteTypes DEF NiIInv, NotesKept
  <2>2. \/ x \in disturbed' \/ niData'[SessionOf(x)].rawRequest # x
        \/ niData'[SessionOf(x)].reqID = niData[SessionOf(x)].reqID
    BY <2>1
  <2>3. CASE x # n
    BY <1>1, <1>2, <2>1, <2>2, <2>3, NoteFrame
  <2>4. CASE x = n
    <3>1. SessionOf(n)' = SessionOf(n) /\ Said(n) \subseteq Said(n)'
          /\ (n \in disturbed => n \in disturbed')
          /\ \A i \in DOMAIN shown : i \in DOMAIN shown' /\ shown'[i] = shown[i]
      BY <1>1, SaidGrows DEF SessionOf, Evolves
    <3>2. \A p : At(n, p)' <=> p = place
      BY DEF At
    <3>3. informed'[n] = <<>> /\ Len(<<>>) <= 1 /\ arrived' = arrived
      BY <1>1
    <3> QED
      BY <1>1, <2>1, <2>2, <2>4, <3>1, <3>2, <3>3 DEF NoteKept, Asked
  <2> QED
    BY <2>3, <2>4
<1>6. ASSUME NEW k \in Sessions
      PROVE  SessionKept(k)'
  <2>1. SessionKept(k)
    BY DEF NiIInv, SessionsKept
  <2>2. niData[k].rawRequest # 0 /\ niData[k].rawRequest \notin disturbed =>
            \A i \in DOMAIN working' :
                working'[i].session = k =>
                    working'[i].resp \in Said(niData[k].rawRequest) \cup {"ignore"}
    BY <2>1 DEF SessionKept
  <2> QED
    BY <1>1, <2>1, <2>2, SessionFrame
<1> QED
  BY <1>1, <1>4, <1>5, <1>6 DEF NotesKept, SessionsKept, Notes

(* The steps of a session's thread keep the accounts.                        *)
LEMMA ThreadKept ==
    ASSUME NiIInv, Evolves, NEW n \in Notes, niThreadProc(n)
    PROVE  MsgsKept' /\ PostedOnce' /\ NotesKept' /\ SessionsKept'
<1>1. /\ n \in 1..MaxNotes /\ SessionOf(n) \in Sessions
      /\ niThread \in [1..MaxNotes -> NiThread]
      /\ niData \in [Sessions -> NiSession(Len(case.notes), reqIDCounter)]
  BY NoteTypes DEF NiIInv, NiTypes
<1>2. ASSUME NEW place, Goes(n, place)
      PROVE  /\ niThread'[n].at = place /\ niThread'[n].resp = niThread[n].resp
             /\ \A x \in 1..MaxNotes : x # n => niThread'[x] = niThread[x]
  BY <1>1, <1>2 DEF Goes, NiThread
<1>3. CASE Signalled(n) \/ TimedOut(n) \/ (StartWait(n) /\ niData[SessionOf(n)].respRecvd)
  <2>1. \E resp : /\ Finish(n, resp)
                  /\ At(n, "start") \/ At(n, "waiting")
                  /\ \/ resp = "noResponse"
                     \/ resp = niData[SessionOf(n)].resp /\ niData[SessionOf(n)].respRecvd
                  /\ UNCHANGED <<case, arrived, handlerVars, informed, disturbed>>
    BY <1>3 DEF Signalled, TimedOut, StartWait
  <2> QED
    BY <2>1, FinishKept
<1>4. CASE StartWait(n) /\ ~niData[SessionOf(n)].respRecvd
  <2>1. /\ niThread' = [niThread EXCEPT ![n].at = "waiting",
                                        ![n].left = niData[SessionOf(n)].respTimeLeft]
        /\ At(n, "start")
        /\ UNCHANGED <<niData, late, arrived, working, informed, niMsgs>>
    BY <1>4 DEF StartWait, handlerVars
  <2>2. /\ niThread'[n].at = "waiting" /\ niThread'[n].resp = niThread[n].resp
        /\ \A x \in 1..MaxNotes : x # n => niThread'[x] = niThread[x]
    BY <1>1, <2>1 DEF NiThread
  <2> QED
    BY <2>1, <2>2, MoveKept DEF At
<1>5. CASE ResetTimeLeft(n)
  <2>1. At(n, "reset") /\ Goes(n, "resetId")
        /\ UNCHANGED <<late, arrived, working, informed, niMsgs>>
    BY <1>5 DEF ResetTimeLeft, handlerVars
  <2>2. \A h \in Sessions : /\ niData'[h].rawRequest = niData[h].rawRequest
                            /\ niData'[h].resp = niData[h].resp
                            /\ niData'[h].respRecvd = niData[h].respRecvd
                            /\ niData'[h].reqID = niData[h].reqID
    BY <1>1, <1>5 DEF ResetTimeLeft, NiSession
  <2> QED
    BY <1>2, <2>1, <2>2, MoveKept DEF At
<1>6. CASE ResetReqID(n)
  <2>1. At(n, "resetId") /\ Goes(n, "post")
        /\ UNCHANGED <<late, arrived, working, informed, niMsgs>>
    BY <1>6 DEF ResetReqID, handlerVars
  <2>2. \A h \in Sessions : /\ niData'[h].rawRequest = niData[h].rawRequest
                            /\ niData'[h].resp = niData[h].resp
                            /\ niData'[h].respRecvd = niData[h].respRecvd
                            /\ h # SessionOf(n) => niData'[h].reqID = niData[h].reqID
    BY <1>1, <1>6 DEF ResetReqID, NiSession
  <2>3. niData[SessionOf(n)].rawRequest \in disturbed' \cup {0}
    BY <1>6 DEF ResetReqID, Disturb
  <2> QED
    BY <1>2, <2>1, <2>2, <2>3, MoveKept DEF At
<1>7. CASE gnssNiResponseCommand(n)
  <2>1. /\ At(n, "post") /\ Goes(n, "done")
        /\ UNCHANGED <<late, arrived, working, informed, niData>>
        /\ niMsgs' = IF niThread[n].resp = "ignore" THEN niMsgs
                     ELSE Append(niMsgs,
                                 [op |-> "inform", note |-> n, resp |-> niThread[n].resp])
    BY <1>7 DEF gnssNiResponseCommand
  <2> QED
    BY <1>2, <2>1, MoveKept DEF At
<1> QED
  BY <1>3, <1>4, <1>5, <1>6, <1>7 DEF niThreadProc

(* Every step keeps the invariant.                                           *)
LEMMA NiStep == NiIInv /\ [NiNext]_niVars => NiIInv'
<1> SUFFICES ASSUME NiIInv, [NiNext]_niVars
             PROVE  NiIInv'
  OBVIOUS
<1>1. NiTypes /\ NiTypes' /\ Evolves
  BY NiTypesStep, NiEvolves DEF NiIInv
<1>2. arrived \in Nat /\ arrived' \in Nat /\ \A m : At(m, "none") <=> niThread[m].at = "none"
  BY <1>1, NoteTypes DEF NiTypes, Evolves, At
<1>3. CASE UNCHANGED niVars
  BY <1>1, <1>2, <1>3, StillKept DEF niVars, handlerVars, NiIInv
<1>4. CASE NiTick
  <2>1. ASSUME NEW x \in 1..MaxNotes
        PROVE  niThread'[x].at = niThread[x].at /\ niThread'[x].resp = niThread[x].resp
    <3>1. niThread[x] \in NiThread
      BY <1>1 DEF NiTypes
    <3> QED
      BY <1>4, <3>1 DEF NiTick, NiThread
  <2> QED
    BY <1>1, <1>2, <1>4, <2>1, StillKept DEF NiTick, handlerVars, NiIInv
<1>5. CASE requestNiNotifyEvent
  <2>1. PICK msg : msg = [op |-> "notify", note |-> arrived + 1]
    OBVIOUS
  <2>2. /\ niMsgs' = Append(niMsgs, msg) /\ arrived' = arrived + 1 /\ arrived < Len(case.notes)
        /\ UNCHANGED <<case, working, niData, informed, late, niThread, responses>>
    BY <1>5, <2>1 DEF requestNiNotifyEvent
  <2>3. arrived + 1 \in Notes /\ arrived + 1 \in 1..MaxNotes
    BY <1>1, <1>2, <2>2, NoteTypes
  <2>4. msg \in NiMsg /\ msg.op = "notify" /\ msg.note = arrived + 1
    BY <2>1, <2>3 DEF NiMsg
  <2>5. niThread[arrived + 1].at = "none" /\ informed[arrived + 1] = <<>>
    BY <1>2, <2>3 DEF NiIInv, NotesKept, NoteKept, At
  <2>6. MsgKept(msg)'
    BY <1>2, <2>2, <2>4, <2>5 DEF MsgKept, At
  <2>7. \A i \in DOMAIN niMsgs : niMsgs[i].op = "notify" => niMsgs[i].note # arrived + 1
    BY <1>2 DEF NiIInv, MsgsKept, MsgKept
  <2> QED
    BY <1>1, <1>2, <2>2, <2>4, <2>6, <2>7, StillKept DEF NiIInv
<1>6. CASE gnssNiRespond
  <2>1. PICK id \in DOMAIN shown, resp \in {"accept", "deny"} :
          /\ responses' = Append(responses, [id |-> id, resp |-> resp])
          /\ niMsgs' = Append(niMsgs, [op |-> "response", id |-> id, resp |-> resp])
          /\ UNCHANGED <<arrived, working, niData, informed, late, niThread>>
    BY <1>6 DEF gnssNiRespond
  <2>2. PICK msg : msg = [op |-> "response", id |-> id, resp |-> resp]
    OBVIOUS
  <2>3. msg \in NiMsg /\ msg.op = "response" /\ msg.id = id /\ msg.resp = resp
    BY <1>1, <2>2 DEF NiMsg, NiTypes, Responses
  <2>4. \E j \in DOMAIN responses' : responses'[j].id = id /\ responses'[j].resp = resp
    <3>1. /\ Len(responses) \in Nat /\ Len(responses) + 1 \in DOMAIN responses'
          /\ responses'[Len(responses) + 1] = [id |-> id, resp |-> resp]
      BY <1>1, <2>1 DEF NiTypes
    <3> QED
      BY <3>1
  <2>5. MsgKept(msg)'
    BY <2>3, <2>4 DEF MsgKept
  <2> QED
    BY <1>1, <1>2, <2>1, <2>2, <2>3, <2>5, StillKept DEF NiIInv
<1>7. CASE clientLeaves
  <2>1. PICK msg : msg = [op |-> "removeClient"]
    OBVIOUS
  <2>2. msg \in NiMsg /\ msg.op = "removeClient"
    BY <2>1 DEF NiMsg
  <2>3. MsgKept(msg)'
    BY <2>2 DEF MsgKept
  <2> QED
    BY <1>1, <1>2, <1>7, <2>1, <2>2, <2>3, StillKept DEF NiIInv, clientLeaves
<1> QED
  BY <1>1, <1>3, <1>4, <1>5, <1>6, <1>7, AdapterKept, ThreadKept DEF NiIInv, NiNext

(* The initial state.                                                        *)
LEMMA NiInitInv == NiInit => NiIInv
<1> SUFFICES ASSUME NiInit
             PROVE  NiIInv
  OBVIOUS
<1>1. /\ case.notes \in Seq(Note) /\ Len(case.notes) \in Nat /\ Len(case.notes) <= MaxNotes
      /\ MaxNotes \in Nat /\ Patience \in Nat /\ Notes = 1..Len(case.notes)
  BY CasesAssumption DEF CasesAssumption, NiInit, Notes
<1>2. /\ niMsgs = <<>> /\ working = <<>> /\ shown = <<>> /\ responses = <<>>
      /\ arrived = 0 /\ reqIDCounter = 0
      /\ \A n \in 1..MaxNotes : niThread[n] = Idle /\ informed[n] = <<>>
      /\ \A k \in Sessions : niData[k].rawRequest = 0 /\ niData[k].respRecvd = FALSE
  BY DEF NiInit
<1>3. NiTypes
  <2>1. /\ <<>> \in Seq(NiMsg) /\ <<>> \in Seq(NiRecord) /\ <<>> \in Seq(Notes)
        /\ <<>> \in Seq([id : DOMAIN shown, resp : Responses]) /\ <<>> \in Seq(Responses)
        /\ Len(shown) = 0
    BY <1>2
  <2>2. Idle \in NiThread
    BY <1>1 DEF Idle, NiThread, Places, Responses
  <2>3. [rawRequest |-> 0, reqID |-> 0, resp |-> "ignore", respRecvd |-> FALSE,
         respTimeLeft |-> 0] \in NiSession(Len(case.notes), reqIDCounter)
    BY <1>1, <1>2 DEF NiSession, Responses
  <2>4. /\ niThread \in [1..MaxNotes -> NiThread] /\ informed \in [1..MaxNotes -> Seq(Responses)]
        /\ niData \in [Sessions -> NiSession(Len(case.notes), reqIDCounter)]
    BY <2>1, <2>2, <2>3 DEF NiInit
  <2> QED
    BY <1>1, <1>2, <2>1, <2>4 DEF NiInit, NiTypes
<1>4. MsgsKept /\ PostedOnce
  BY <1>2 DEF MsgsKept, PostedOnce
<1>5. ASSUME NEW n \in Notes
      PROVE  NoteKept(n)
  <2>1. n \in 1..MaxNotes /\ n # 0 /\ SessionOf(n) \in Sessions /\ Len(<<>>) <= 1
    BY <1>1 DEF SessionOf, Sessions
  <2>2. niThread[n].at = "none" /\ informed[n] = <<>> /\ niData[SessionOf(n)].rawRequest = 0
    BY <1>2, <2>1 DEF Idle
  <2> QED
    BY <2>1, <2>2 DEF NoteKept, At, Asked
<1>6. SessionsKept
  BY <1>2 DEF SessionsKept, SessionKept
<1> QED
  BY <1>3, <1>4, <1>5, <1>6 DEF NiIInv, NotesKept

(* The inductive invariant holds in every reachable state.                   *)
THEOREM NiInvariant == NiSpec => []NiIInv
  BY NiInitInv, NiStep, PTL DEF NiSpec

(* A session is occupied by exactly the request its thread waits for; the    *)
(* modem is informed at most once of each; and of a request whose session    *)
(* did not take what belonged to another, of what the user said of it, if    *)
(* not that he said nothing in time (requestNiNotify, niThreadProc,          *)
(* gnssNiResponseCommand).                                                   *)
THEOREM ConsentKept == NiSpec => []NiAnswered
<1>1. NiIInv => NiAnswered
  <2> SUFFICES ASSUME NiIInv
               PROVE  NiAnswered
    OBVIOUS
  <2>1. NiTypeOK
    BY DEF NiIInv, NiTypes, NiSession, NiTypeOK
  <2>2. ASSUME NEW n \in Notes
        PROVE  /\ (niData[SessionOf(n)].rawRequest = n) = (At(n, "start") \/ At(n, "waiting"))
               /\ Len(informed[n]) <= 1
               /\ Asked(n) /\ n \notin disturbed =>
                    /\ niData[SessionOf(n)].rawRequest = n =>
                          shown[niData[SessionOf(n)].reqID] = n
                    /\ informed[n] # <<>> => Head(informed[n]) \in Said(n) \cup {"noResponse"}
    BY <2>2 DEF NiIInv, NotesKept, NoteKept, Asked, At
  <2> QED
    BY <2>1, <2>2 DEF NiAnswered
<1> QED
  BY <1>1, NiInvariant, PTL

-----------------------------------------------------------------------------
(* Data calls.                                                               *)

AgpsIInv == TypeOK /\ SubscribersHeld

(* What the modem makes of a status is a state of a handle. *)
LEMMA ToldType ==
    ASSUME NEW event \in {"GRANTED", "DENIED", "RELEASED"}, NEW s \in ModemState
    PROVE  Told(event, s) \in ModemState
BY DEF Told, Answers, ModemState

(* Notify: only a grant opens handles, and only those it is sent to; a       *)
(* release leaves none of those it is sent to open.                          *)
LEMMA NotifyEffect ==
    ASSUME NEW event \in {"GRANTED", "DENIED", "RELEASED"},
           NEW hs, modem \in [Handles -> ModemState], Notify(event, hs)
    PROVE  /\ modem' \in [Handles -> ModemState]
           /\ \A h \in Handles : modem'[h] = "open" =>
                 \/ modem[h] = "open"
                 \/ event = "GRANTED" /\ h \in hs
           /\ event = "RELEASED" =>
                 \A h \in Handles : h \in hs => modem'[h] # "open"
<1>1. modem' = [h \in Handles |->
                   IF h \in hs THEN Told(event, modem[h]) ELSE modem[h]]
  BY DEF Notify
<1>2. \A h \in Handles : Told(event, modem[h]) \in ModemState
  BY ToldType
<1>3. modem' \in [Handles -> ModemState]
  BY <1>1, <1>2
<1>4. ASSUME NEW h \in Handles, modem'[h] = "open"
      PROVE  /\ modem[h] = "open" \/ (event = "GRANTED" /\ h \in hs)
             /\ event = "RELEASED" => h \notin hs
  <2>1. CASE h \in hs
    <3>1. Told(event, modem[h]) = "open"
      BY <1>1, <1>4, <2>1
    <3>2. modem[h] \in ModemState
      OBVIOUS
    <3> QED
      BY <2>1, <3>1, <3>2 DEF Told, Answers, ModemState
  <2>2. CASE h \notin hs
    BY <1>1, <1>4, <2>2
  <2> QED
    BY <2>1, <2>2
<1> QED
  BY <1>3, <1>4

(* The messages the actors send are messages. *)
LEMMA Messages ==
    /\ \A a \in Answer \cup {"init"} : [type |-> a] \in LocMsg
    /\ \A h \in Handles :
          /\ [type |-> "requestATL", handle |-> h] \in LocMsg
          /\ [type |-> "releaseATL", handle |-> h] \in LocMsg
BY DEF LocMsg

(* Sending adds a message to a queue of messages. *)
LEMMA SendType ==
    ASSUME NEW msg \in LocMsg, msgs \in Seq(LocMsg), Send(msg)
    PROVE  msgs' \in Seq(LocMsg)
BY DEF Send

(* Taking a message off the queue leaves a queue of messages. *)
LEMMA ReceiveType ==
    ASSUME NEW type, msgs \in Seq(LocMsg), Receive(type)
    PROVE  /\ msgs' \in Seq(LocMsg)
           /\ type \in {"requestATL", "releaseATL"} =>
                 Head(msgs).handle \in Handles
<1>1. msgs # <<>> /\ Head(msgs).type = type /\ msgs' = Tail(msgs)
  BY DEF Receive
<1>2. Head(msgs) \in LocMsg
  BY <1>1
<1>3. msgs' \in Seq(LocMsg)
  BY <1>1
<1>4. type \in {"requestATL", "releaseATL"} => Head(msgs).handle \in Handles
  BY <1>1, <1>2 DEF LocMsg, Answer
<1> QED
  BY <1>3, <1>4

(* The initial state. *)
LEMMA InitInv == Init => AgpsIInv
<1> SUFFICES ASSUME Init
             PROVE  AgpsIInv
  OBVIOUS
<1>1. msgs \in Seq(LocMsg) /\ requests \in Seq({"REQUEST", "RELEASE"})
  <2>1. msgs = <<>> /\ requests = <<>>
    BY DEF Init
  <2> QED
    BY <2>1
<1>2. restarts \in 0..MaxRestarts
  BY BoundsAssumption DEF BoundsAssumption, Init
<1>3. \A h \in Handles : modem[h] = "idle"
  BY DEF Init
<1>4. modem \in [Handles -> ModemState]
  BY DEF Init, ModemState
<1>5. /\ mAgnssNif \in BOOLEAN /\ mState = "RELEASED"
      /\ mSubscriberList = {} /\ conn \in ConnState
  BY DEF Init, ConnState
<1> QED
  BY <1>1, <1>2, <1>3, <1>4, <1>5
     DEF AgpsIInv, TypeOK, SubscribersHeld, AgpsState

(* Subscribe keeps the invariant: a handle opened is entered. *)
LEMMA SubscribeInv ==
    ASSUME AgpsIInv, NEW h \in Handles, Subscribe(h)
    PROVE  /\ mState' \in AgpsState /\ mSubscriberList' \subseteq Handles
           /\ requests' \in Seq({"REQUEST", "RELEASE"})
           /\ modem' \in [Handles -> ModemState]
           /\ SubscribersHeld'
<1> USE DEF AgpsIInv, TypeOK
<1>1. mSubscriberList' = mSubscriberList \cup {h}
  BY DEF Subscribe
<1>2. CASE mState = "RELEASED"
  <2>1. /\ requests' = Append(requests, "REQUEST")
        /\ mState' = "PENDING" /\ modem' = modem
    BY <1>2 DEF Subscribe, requestOrReleaseDataConn
  <2>2. \A k \in Handles : modem[k] # "open"
    BY <1>2 DEF SubscribersHeld
  <2> QED
    BY <1>1, <2>1, <2>2 DEF SubscribersHeld, AgpsState
<1>3. CASE mState = "PENDING"
  <2>1. mState' = mState /\ requests' = requests /\ modem' = modem
    BY <1>3 DEF Subscribe
  <2> QED
    BY <1>1, <1>3, <2>1 DEF SubscribersHeld
<1>4. CASE mState = "ACQUIRED"
  <2>1. mState' = mState /\ requests' = requests /\ Notify("GRANTED", {h})
    BY <1>4 DEF Subscribe
  <2>2. /\ modem' \in [Handles -> ModemState]
        /\ \A k \in Handles :
              modem'[k] = "open" => modem[k] = "open" \/ k = h
    BY <2>1, NotifyEffect
  <2> QED
    BY <1>1, <1>4, <2>1, <2>2 DEF SubscribersHeld
<1> QED
  BY <1>2, <1>3, <1>4 DEF AgpsState

(* Unsubscribe keeps the invariant: the handle that leaves is not open any   *)
(* more, and the last one that leaves takes the machine to RELEASED.         *)
LEMMA UnsubscribeInv ==
    ASSUME AgpsIInv, NEW h \in mSubscriberList, Unsubscribe(h)
    PROVE  /\ mState' \in AgpsState /\ mSubscriberList' \subseteq Handles
           /\ requests' \in Seq({"REQUEST", "RELEASE"})
           /\ modem' \in [Handles -> ModemState]
           /\ SubscribersHeld'
<1> USE DEF AgpsIInv, TypeOK
<1>1. mSubscriberList' = mSubscriberList \ {h} /\ Notify("RELEASED", {h})
  BY DEF Unsubscribe
<1>2. /\ modem' \in [Handles -> ModemState]
      /\ \A k \in Handles :
            modem'[k] = "open" => modem[k] = "open" /\ k # h
  BY <1>1, NotifyEffect
<1>3. CASE mSubscriberList' = {}
  <2>1. mState' = "RELEASED" /\ requests' = Append(requests, "RELEASE")
    BY <1>3 DEF Unsubscribe, requestOrReleaseDataConn
  <2> QED
    BY <1>1, <1>2, <1>3, <2>1 DEF SubscribersHeld, AgpsState
<1>4. CASE mSubscriberList' # {}
  <2>1. mState' = mState /\ requests' = requests
    BY <1>4 DEF Unsubscribe
  <2> QED
    BY <1>1, <1>2, <1>4, <2>1 DEF SubscribersHeld
<1> QED
  BY <1>3, <1>4

(* The answers of the framework keep the invariant, in whatever state and    *)
(* from whatever thread they reach the machine.                              *)
LEMMA AnswerInv ==
    ASSUME AgpsIInv, Granted \/ Denied \/ Released
    PROVE  /\ mState' \in AgpsState /\ mSubscriberList' \subseteq Handles
           /\ modem' \in [Handles -> ModemState]
           /\ SubscribersHeld'
<1> USE DEF AgpsIInv, TypeOK
<1>1. CASE UNCHANGED <<mState, mSubscriberList, modem>>
  BY <1>1 DEF SubscribersHeld
<1>2. CASE Granted /\ mState = "PENDING"
  <2>1. /\ mState' = "ACQUIRED" /\ mSubscriberList' = mSubscriberList
        /\ Notify("GRANTED", mSubscriberList)
    BY <1>2 DEF Granted
  <2>2. /\ modem' \in [Handles -> ModemState]
        /\ \A k \in Handles :
              modem'[k] = "open" => modem[k] = "open" \/ k \in mSubscriberList
    BY <2>1, NotifyEffect
  <2> QED
    BY <1>2, <2>1, <2>2 DEF SubscribersHeld, AgpsState
<1>3. CASE Denied /\ mState = "PENDING"
  <2>1. /\ mState' = "RELEASED" /\ mSubscriberList' = {}
        /\ Notify("DENIED", mSubscriberList)
    BY <1>3 DEF Denied, DropSubscribers
  <2>2. /\ modem' \in [Handles -> ModemState]
        /\ \A k \in Handles : modem'[k] = "open" => modem[k] = "open"
    BY <2>1, NotifyEffect
  <2> QED
    BY <1>3, <2>1, <2>2 DEF SubscribersHeld, AgpsState
<1>4. CASE Released /\ mState = "ACQUIRED"
  <2>1. /\ mState' = "RELEASED" /\ mSubscriberList' = {}
        /\ Notify("RELEASED", mSubscriberList)
    BY <1>4 DEF Released, DropSubscribers
  <2>2. /\ modem' \in [Handles -> ModemState]
        /\ \A k \in Handles :
              modem'[k] = "open" => modem[k] = "open" /\ k \notin mSubscriberList
    BY <2>1, NotifyEffect
  <2> QED
    BY <1>4, <2>1, <2>2 DEF SubscribersHeld, AgpsState
<1> QED
  BY <1>1, <1>2, <1>3, <1>4 DEF Granted, Denied, Released

(* Every step of the adapter, the framework and the modem keeps the          *)
(* invariant.                                                                *)
LEMMA StepInv == AgpsIInv /\ [Next]_vars => AgpsIInv'
<1> SUFFICES ASSUME AgpsIInv, [Next]_vars
             PROVE  AgpsIInv'
  OBVIOUS
<1> USE DEF AgpsIInv, TypeOK, smVars
<1>1. CASE UNCHANGED vars
  BY <1>1 DEF vars, SubscribersHeld
<1>2. CASE initAgps
  <2>1. msgs' \in Seq(LocMsg)
    BY <1>2, ReceiveType DEF initAgps
  <2> QED
    BY <1>2, <2>1 DEF initAgps, SubscribersHeld
<1>3. CASE requestATL
  <2>1. msgs' \in Seq(LocMsg) /\ Head(msgs).handle \in Handles
    BY <1>3, ReceiveType DEF requestATL
  <2>2. CASE mAgnssNif
    <3>1. Subscribe(Head(msgs).handle)
      BY <1>3, <2>2 DEF requestATL
    <3>2. UNCHANGED <<mAgnssNif, conn, restarts>>
      BY <1>3 DEF requestATL
    <3> QED
      BY <2>1, <3>1, <3>2, SubscribeInv
  <2>3. CASE ~mAgnssNif
    <3>1. /\ Notify("DENIED", {Head(msgs).handle})
          /\ UNCHANGED <<mState, mSubscriberList, requests, mAgnssNif, conn,
                         restarts>>
      BY <1>3, <2>3 DEF requestATL
    <3>2. /\ modem' \in [Handles -> ModemState]
          /\ \A k \in Handles : modem'[k] = "open" => modem[k] = "open"
      BY <3>1, NotifyEffect
    <3> QED
      BY <2>1, <3>1, <3>2 DEF SubscribersHeld
  <2> QED
    BY <2>2, <2>3
<1>4. CASE releaseATL
  <2>1. msgs' \in Seq(LocMsg)
    BY <1>4, ReceiveType DEF releaseATL
  <2>2. UNCHANGED <<mAgnssNif, conn, restarts>>
    BY <1>4 DEF releaseATL
  <2>3. CASE Head(msgs).handle \in mSubscriberList
    <3>1. Unsubscribe(Head(msgs).handle)
      BY <1>4, <2>3 DEF releaseATL
    <3> QED
      BY <2>1, <2>2, <2>3, <3>1, UnsubscribeInv
  <2>4. CASE Head(msgs).handle \notin mSubscriberList
    <3>1. UNCHANGED <<mState, mSubscriberList, requests, modem>>
      BY <1>4, <2>4 DEF releaseATL
    <3> QED
      BY <2>1, <2>2, <3>1 DEF SubscribersHeld
  <2> QED
    BY <2>3, <2>4
<1>5. CASE reportAtlOpenSuccess \/ reportAtlOpenFailed \/ reportAtlClosed
  <2>1. msgs' \in Seq(LocMsg)
    BY <1>5, ReceiveType
       DEF reportAtlOpenSuccess, reportAtlOpenFailed, reportAtlClosed
  <2>2. /\ Granted \/ Denied \/ Released
        /\ UNCHANGED <<mAgnssNif, requests, conn, restarts>>
    BY <1>5 DEF reportAtlOpenSuccess, reportAtlOpenFailed, reportAtlClosed
  <2> QED
    BY <2>1, <2>2, AnswerInv
<1>6. CASE dataConnOpenBadApn
  <2>1. Released /\ UNCHANGED <<mAgnssNif, msgs, requests, restarts>>
    BY <1>6 DEF dataConnOpenBadApn
  <2>2. conn' \in ConnState
    BY <1>6 DEF dataConnOpenBadApn, ConnState
  <2> QED
    BY <2>1, <2>2, AnswerInv
<1>7. CASE setCallback \/ dataConnOpen \/ dataConnFailed \/ dataConnClosed
  <2>1. /\ UNCHANGED <<mAgnssNif, mState, mSubscriberList, requests, modem,
                       restarts>>
        /\ \E a \in Answer \cup {"init"} : Send([type |-> a])
        /\ conn' \in ConnState
    BY <1>7 DEF setCallback, dataConnOpen, dataConnFailed, dataConnClosed,
                Answer, ConnState
  <2>2. msgs' \in Seq(LocMsg)
    <3>1. PICK a \in Answer \cup {"init"} : Send([type |-> a])
      BY <2>1
    <3>2. [type |-> a] \in LocMsg
      BY Messages
    <3> QED
      BY <3>1, <3>2, SendType
  <2> QED
    BY <2>1, <2>2 DEF SubscribersHeld
<1>8. CASE agnssStatusCb
  <2>1. /\ UNCHANGED <<mAgnssNif, mState, mSubscriberList, modem, restarts>>
        /\ requests # <<>> /\ requests' = Tail(requests)
        /\ \/ msgs' = msgs
           \/ \E a \in Answer : Send([type |-> a])
        /\ conn' \in ConnState
    BY <1>8 DEF agnssStatusCb, Answer, ConnState
  <2>2. msgs' \in Seq(LocMsg)
    <3>1. CASE msgs' = msgs
      BY <3>1
    <3>2. CASE \E a \in Answer : Send([type |-> a])
      <4>1. PICK a \in Answer : Send([type |-> a])
        BY <3>2
      <4>2. [type |-> a] \in LocMsg
        BY Messages
      <4> QED
        BY <4>1, <4>2, SendType
    <3> QED
      BY <2>1, <3>1, <3>2
  <2>3. requests' \in Seq({"REQUEST", "RELEASE"})
    BY <2>1
  <2> QED
    BY <2>1, <2>2, <2>3 DEF SubscribersHeld
<1>9. CASE \E h \in Handles : ask(h) \/ giveBack(h)
  <2>1. PICK h \in Handles : ask(h) \/ giveBack(h)
    BY <1>9
  <2>2. /\ UNCHANGED <<mAgnssNif, mState, mSubscriberList, requests, conn,
                       restarts>>
        /\ \E s \in ModemState \ {"open"} : modem' = [modem EXCEPT ![h] = s]
        /\ \/ Send([type |-> "requestATL", handle |-> h])
           \/ Send([type |-> "releaseATL", handle |-> h])
    BY <2>1 DEF ask, giveBack, ModemState
  <2>3. msgs' \in Seq(LocMsg)
    BY <2>2, Messages, SendType
  <2> QED
    BY <2>2, <2>3 DEF SubscribersHeld
<1>10. CASE restart
  <2>1. restarts' \in 0..MaxRestarts
    BY <1>10, BoundsAssumption DEF restart, BoundsAssumption
  <2> QED
    BY <1>10, <2>1
       DEF restart, SubscribersHeld, ModemState
<1> QED
  BY <1>1, <1>2, <1>3, <1>4, <1>5, <1>6, <1>7, <1>8, <1>9, <1>10
     DEF Next, Adapter, Framework, Answered, Modem

(* The inductive invariant holds in every reachable state. *)
THEOREM AgpsInvariant == Spec => []AgpsIInv
<1>1. Init => AgpsIInv
  BY InitInv
<1>2. AgpsIInv /\ [Next]_vars => AgpsIInv'
  BY StepInv
<1> QED
  BY <1>1, <1>2, PTL DEF Spec

(* The machine, its list, the queues and the modem's handles keep their      *)
(* types; in particular the state RELEASING of Agps.h is never entered.      *)
THEOREM TypeCorrect == Spec => []TypeOK
<1>1. AgpsIInv => TypeOK
  BY DEF AgpsIInv
<1> QED
  BY <1>1, AgpsInvariant, PTL

(* The subscriber list is empty exactly in RELEASED, and a handle the modem  *)
(* takes for open is a subscriber of an acquired call.                       *)
THEOREM SubscribersAreHeld == Spec => []SubscribersHeld
<1>1. AgpsIInv => SubscribersHeld
  BY DEF AgpsIInv
<1> QED
  BY <1>1, AgpsInvariant, PTL
-----------------------------------------------------------------------------
(* Agreement.  While anything is on its way, what the machine believes is    *)
(* made good by a message that is still to come.                             *)

(* What was opened is open, or the message that it was lost follows.         *)
LostIsTold ==
    \A i \in DOMAIN msgs :
        msgs[i].type = "open" =>
            \/ conn = "open"
            \/ \E j \in DOMAIN msgs : j > i /\ msgs[j].type = "closed"

(* A call that is held is open, or the message that it was lost will come.   *)
HeldIsOpen ==
    mState = "ACQUIRED" =>
        conn = "open" \/ \E j \in DOMAIN msgs : msgs[j].type = "closed"

(* A call that is waited for is asked for, being opened, or answered.        *)
PendingIsAsked ==
    mState = "PENDING" =>
        \/ requests # <<>>
        \/ conn \in {"opening", "unusable"}
        \/ \E j \in DOMAIN msgs : msgs[j].type \in {"open", "failed"}

(* The framework hears last of what the machine wants now.                   *)
LastIsRequest ==
    mState # "RELEASED" /\ requests # <<>> =>
        requests[Len(requests)] = "REQUEST"

AgreeInv == LostIsTold /\ HeldIsOpen /\ PendingIsAsked /\ LastIsRequest

(* A message that is sent comes after those that are there.                  *)
LEMMA SentAfter ==
    ASSUME NEW msg \in LocMsg, msgs \in Seq(LocMsg), Send(msg)
    PROVE  /\ DOMAIN msgs \subseteq DOMAIN msgs'
           /\ DOMAIN msgs' = DOMAIN msgs \cup {Len(msgs) + 1}
           /\ \A i \in DOMAIN msgs : i < Len(msgs) + 1 /\ msgs'[i] = msgs[i]
           /\ msgs'[Len(msgs) + 1] = msg
BY DEF Send

(* A message that is taken leaves the others in their order.                 *)
LEMMA Taken ==
    ASSUME NEW type, msgs \in Seq(LocMsg), Receive(type)
    PROVE  /\ \A i \in DOMAIN msgs' :
                 i \in Nat /\ i + 1 \in DOMAIN msgs /\ msgs'[i] = msgs[i + 1]
           /\ \A i \in DOMAIN msgs :
                 msgs[i].type = type \/ (i \in Nat /\ i - 1 \in DOMAIN msgs')
           /\ \A i \in DOMAIN msgs :
                 i > 1 => i \in Nat /\ i - 1 \in DOMAIN msgs' /\ msgs'[i - 1] = msgs[i]
           /\ 1 \in DOMAIN msgs /\ msgs[1].type = type
<1>1. msgs # <<>> /\ Head(msgs).type = type /\ msgs' = Tail(msgs)
  BY DEF Receive
<1>2. /\ Len(msgs) \in Nat /\ Len(msgs) > 0
      /\ DOMAIN msgs = 1..Len(msgs) /\ DOMAIN msgs' = 1..(Len(msgs) - 1)
      /\ \A i \in 1..(Len(msgs) - 1) : msgs'[i] = msgs[i + 1]
      /\ Head(msgs) = msgs[1]
  BY <1>1
<1> QED
  BY <1>1, <1>2

(* Taking a message keeps the news that is still to come.                    *)
LEMMA TakeKeeps ==
    ASSUME NEW type, msgs \in Seq(LocMsg), Receive(type), conn' = conn, LostIsTold
    PROVE  /\ LostIsTold'
           /\ \A T : type \notin T /\ (\E j \in DOMAIN msgs : msgs[j].type \in T) =>
                        \E j \in DOMAIN msgs' : msgs'[j].type \in T
<1>1. ASSUME NEW i \in DOMAIN msgs', msgs'[i].type = "open", conn' # "open"
      PROVE  \E j \in DOMAIN msgs' : j > i /\ msgs'[j].type = "closed"
  <2>1. i \in Nat /\ i + 1 \in DOMAIN msgs /\ msgs[i + 1].type = "open"
    BY <1>1, Taken
  <2>2. PICK j \in DOMAIN msgs : j > i + 1 /\ msgs[j].type = "closed"
    BY <1>1, <2>1 DEF LostIsTold
  <2>3. j \in Nat /\ j - 1 \in DOMAIN msgs' /\ msgs'[j - 1] = msgs[j]
    <3>1. j \in Nat
      BY Len(msgs) \in Nat
    <3> QED
      BY <2>1, <2>2, <3>1, Taken
  <2>4. j - 1 > i
    BY <2>1, <2>2, <2>3
  <2> QED
    BY <2>2, <2>3, <2>4
<1>2. ASSUME NEW T, type \notin T, NEW j \in DOMAIN msgs, msgs[j].type \in T
      PROVE  \E k \in DOMAIN msgs' : msgs'[k].type \in T
  <2>1. j \in Nat /\ j > 1
    <3>1. j \in Nat /\ j >= 1
      BY Len(msgs) \in Nat
    <3>2. j # 1
      BY <1>2, Taken
    <3> QED
      BY <3>1, <3>2
  <2> QED
    BY <1>2, <2>1, Taken
<1> QED
  BY <1>1, <1>2 DEF LostIsTold

(* Sending one keeps it too, if the connection is lost with that message     *)
(* only, and open with one that says so.                                     *)
LEMMA SendKeeps ==
    ASSUME NEW msg \in LocMsg, msgs \in Seq(LocMsg), Send(msg), LostIsTold,
           msg.type = "open" => conn' = "open",
           conn = "open" => conn' = "open" \/ msg.type = "closed"
    PROVE  /\ LostIsTold'
           /\ \A T : (\E j \in DOMAIN msgs : msgs[j].type \in T) \/ msg.type \in T =>
                        \E j \in DOMAIN msgs' : msgs'[j].type \in T
<1> DEFINE last == Len(msgs) + 1
<1>1. ASSUME NEW i \in DOMAIN msgs', msgs'[i].type = "open", conn' # "open"
      PROVE  \E j \in DOMAIN msgs' : j > i /\ msgs'[j].type = "closed"
  <2>1. i \in DOMAIN msgs /\ msgs[i].type = "open"
    BY <1>1, SentAfter
  <2>2. CASE conn = "open"
    <3>1. last \in DOMAIN msgs' /\ last > i /\ msgs'[last].type = "closed"
      BY <1>1, <2>1, <2>2, SentAfter, Len(msgs) \in Nat
    <3> QED
      BY <3>1
  <2>3. CASE conn # "open"
    <3>1. PICK j \in DOMAIN msgs : j > i /\ msgs[j].type = "closed"
      BY <2>1, <2>3 DEF LostIsTold
    <3> QED
      BY <3>1, SentAfter
  <2> QED
    BY <2>2, <2>3
<1>2. ASSUME NEW T, (\E j \in DOMAIN msgs : msgs[j].type \in T) \/ msg.type \in T
      PROVE  \E j \in DOMAIN msgs' : msgs'[j].type \in T
  BY <1>2, SentAfter
<1> QED
  BY <1>1, <1>2 DEF LostIsTold

(* Taking a message that leaves the machine and the framework as they are.   *)
LEMMA TakeOnly ==
    ASSUME NEW type, msgs \in Seq(LocMsg), Receive(type), AgreeInv,
           UNCHANGED <<requests, conn>>,
           \/ mState' = "RELEASED"
           \/ mState' = "PENDING" /\ mState' = mState /\ type \notin {"open", "failed"}
           \/ mState' = "ACQUIRED" /\ mState' = mState /\ type # "closed"
    PROVE  AgreeInv'
<1> USE DEF AgreeInv
<1>1. LostIsTold'
  BY TakeKeeps
<1>2. HeldIsOpen'
  <2>1. type # "closed" /\ (\E j \in DOMAIN msgs : msgs[j].type \in {"closed"}) =>
            \E j \in DOMAIN msgs' : msgs'[j].type \in {"closed"}
    BY TakeKeeps
  <2> QED
    BY <2>1 DEF HeldIsOpen
<1>3. PendingIsAsked'
  <2>1. /\ type \notin {"open", "failed"}
        /\ \E j \in DOMAIN msgs : msgs[j].type \in {"open", "failed"}
        => \E j \in DOMAIN msgs' : msgs'[j].type \in {"open", "failed"}
    BY TakeKeeps
  <2> QED
    BY <2>1 DEF PendingIsAsked
<1>4. LastIsRequest'
  BY DEF LastIsRequest
<1> QED
  BY <1>1, <1>2, <1>3, <1>4

(* The framework's answer, and what becomes of its connection.               *)
LEMMA AnswerAgrees ==
    ASSUME AgpsIInv, NEW msg \in LocMsg, Send(msg), AgreeInv, mState' = mState,
           requests' = requests,
           \/ conn' = conn /\ msg.type # "open"
           \/ conn = "opening" /\ conn' = "open" /\ msg.type = "open"
           \/ conn = "opening" /\ conn' = "closed" /\ msg.type = "failed"
           \/ conn = "open" /\ conn' = "closed" /\ msg.type = "closed"
    PROVE  AgreeInv'
<1> USE DEF AgreeInv, AgpsIInv, TypeOK
<1>1. /\ msg.type = "open" => conn' = "open"
      /\ conn = "open" => conn' = "open" \/ msg.type = "closed"
  OBVIOUS
<1>2. LostIsTold'
  BY <1>1, SendKeeps
<1>3. HeldIsOpen'
  <2>1. (\E j \in DOMAIN msgs : msgs[j].type \in {"closed"}) \/ msg.type \in {"closed"} =>
            \E j \in DOMAIN msgs' : msgs'[j].type \in {"closed"}
    BY <1>1, SendKeeps
  <2> QED
    BY <1>1, <2>1 DEF HeldIsOpen
<1>4. PendingIsAsked'
  <2>1. \/ \E j \in DOMAIN msgs : msgs[j].type \in {"open", "failed"}
        \/ msg.type \in {"open", "failed"}
        => \E j \in DOMAIN msgs' : msgs'[j].type \in {"open", "failed"}
    BY <1>1, SendKeeps
  <2> QED
    BY <2>1 DEF PendingIsAsked
<1>5. LastIsRequest'
  BY DEF LastIsRequest
<1> QED
  BY <1>2, <1>3, <1>4, <1>5

(* The framework takes a request: a connection that is open is confirmed, or *)
(* lost with a message; the last request is one to open it, if anyone waits. *)
LEMMA CallbackAgrees ==
    ASSUME AgpsIInv, AgreeInv, agnssStatusCb
    PROVE  AgreeInv'
<1> USE DEF AgreeInv, AgpsIInv, TypeOK
<1>1. /\ mState' = mState
      /\ requests # <<>> /\ requests' = Tail(requests)
      /\ Head(requests) = requests[1]
  BY DEF agnssStatusCb, smVars
<1>2. LastIsRequest'
  BY <1>1 DEF LastIsRequest
<1>3. ASSUME mState = "PENDING", requests' = <<>>
      PROVE  Head(requests) = "REQUEST"
  <2>1. requests \in Seq({"REQUEST", "RELEASE"}) /\ Len(requests') = 0
    BY <1>3
  <2>2. Len(Tail(requests)) = Len(requests) - 1
    BY <1>1, <2>1
  <2>3. Len(requests) = 1
    BY <1>1, <2>1, <2>2
  <2> QED
    BY <1>1, <1>3, <2>3 DEF LastIsRequest
<1>4. CASE Head(requests) = "REQUEST" /\ conn # "open" /\ conn' = "opening" /\ msgs' = msgs
  BY <1>1, <1>2, <1>4 DEF LostIsTold, HeldIsOpen, PendingIsAsked
<1>5. CASE conn = "open" /\ conn' = conn /\ Send([type |-> "open"])
  <2>1. [type |-> "open"] \in LocMsg
    BY Messages DEF Answer
  <2>2. LostIsTold'
    BY <1>5, <2>1, SendKeeps
  <2>3. \E j \in DOMAIN msgs' : msgs'[j].type = "open"
    BY <1>5, <2>1, SentAfter
  <2> QED
    BY <1>2, <1>5, <2>2, <2>3 DEF HeldIsOpen, PendingIsAsked
<1>6. CASE Head(requests) = "RELEASE" /\ conn' = "closed" /\ Send([type |-> "closed"])
  <2>1. [type |-> "closed"] \in LocMsg
    BY Messages DEF Answer
  <2>2. LostIsTold'
    BY <1>6, <2>1, SendKeeps
  <2>3. \E j \in DOMAIN msgs' : msgs'[j].type = "closed"
    BY <1>6, <2>1, SentAfter
  <2>4. PendingIsAsked'
    BY <1>1, <1>3, <1>6 DEF PendingIsAsked
  <2> QED
    BY <1>2, <2>2, <2>3, <2>4 DEF HeldIsOpen
<1>7. CASE Head(requests) = "RELEASE" /\ UNCHANGED <<conn, msgs>>
  <2>1. PendingIsAsked'
    BY <1>1, <1>3, <1>7 DEF PendingIsAsked
  <2> QED
    BY <1>1, <1>2, <1>7, <2>1 DEF LostIsTold, HeldIsOpen
<1> QED
  BY <1>4, <1>5, <1>6, <1>7 DEF agnssStatusCb

(* Every step keeps the agreement.                                           *)
LEMMA StepAgrees == AgpsIInv /\ AgreeInv /\ [Next]_vars => AgreeInv'
<1> SUFFICES ASSUME AgpsIInv, AgreeInv, [Next]_vars
             PROVE  AgreeInv'
  OBVIOUS
<1>0. msgs \in Seq(LocMsg) /\ requests \in Seq({"REQUEST", "RELEASE"}) /\ mState \in AgpsState
  BY DEF AgpsIInv, TypeOK
<1>1. CASE UNCHANGED vars
  BY <1>1 DEF vars, smVars, AgreeInv, LostIsTold, HeldIsOpen, PendingIsAsked, LastIsRequest
<1>2. CASE initAgps
  BY <1>0, <1>2, TakeOnly DEF initAgps, AgpsState
<1>3. CASE requestATL
  <2>1. Receive("requestATL") /\ conn' = conn
    BY <1>3 DEF requestATL
  <2>2. CASE UNCHANGED <<mState, requests>>
    BY <1>0, <2>1, <2>2, TakeOnly DEF AgpsState
  <2>3. CASE mState = "RELEASED" /\ mState' = "PENDING" /\ requests' = Append(requests, "REQUEST")
    <3>1. LostIsTold'
      BY <1>0, <2>1, TakeKeeps DEF AgreeInv
    <3>2. requests' # <<>> /\ requests'[Len(requests')] = "REQUEST"
      BY <1>0, <2>3
    <3> QED
      BY <2>3, <3>1, <3>2 DEF AgreeInv, HeldIsOpen, PendingIsAsked, LastIsRequest
  <2> QED
    BY <1>3, <2>2, <2>3 DEF requestATL, Subscribe, requestOrReleaseDataConn
<1>4. CASE releaseATL
  <2>1. Receive("releaseATL") /\ conn' = conn
    BY <1>4 DEF releaseATL
  <2>2. CASE UNCHANGED <<mState, requests>>
    BY <1>0, <2>1, <2>2, TakeOnly DEF AgpsState
  <2>3. CASE mState' = "RELEASED"
    <3>1. LostIsTold'
      BY <1>0, <2>1, TakeKeeps DEF AgreeInv
    <3> QED
      BY <2>3, <3>1 DEF AgreeInv, HeldIsOpen, PendingIsAsked, LastIsRequest
  <2> QED
    BY <1>4, <2>2, <2>3 DEF releaseATL, Unsubscribe
<1>5. CASE reportAtlOpenSuccess
  <2>1. Receive("open") /\ Granted /\ UNCHANGED <<requests, conn>>
    BY <1>5 DEF reportAtlOpenSuccess
  <2>2. CASE mState = "PENDING"
    <3>1. mState' = "ACQUIRED"
      BY <2>1, <2>2 DEF Granted
    <3>2. LostIsTold'
      BY <1>0, <2>1, TakeKeeps DEF AgreeInv
    <3>3. 1 \in DOMAIN msgs /\ msgs[1].type = "open"
      BY <1>0, <2>1, Taken
    <3>4. conn = "open" \/ \E j \in DOMAIN msgs : msgs[j].type \in {"closed"}
      BY <3>3 DEF AgreeInv, LostIsTold
    <3>5. conn' = "open" \/ \E j \in DOMAIN msgs' : msgs'[j].type \in {"closed"}
      <4>1. "open" \notin {"closed"} /\ conn' = conn /\ LostIsTold
        BY <2>1 DEF AgreeInv
      <4> QED
        BY <1>0, <2>1, <3>4, <4>1, TakeKeeps
    <3> QED
      BY <2>1, <2>2, <3>1, <3>2, <3>5
         DEF AgreeInv, HeldIsOpen, PendingIsAsked, LastIsRequest
  <2>3. CASE mState # "PENDING"
    BY <1>0, <2>1, <2>3, TakeOnly DEF Granted, AgpsState
  <2> QED
    BY <2>2, <2>3
<1>6. CASE reportAtlOpenFailed
  <2>1. /\ Receive("failed") /\ UNCHANGED <<requests, conn>>
        /\ mState' = "RELEASED" \/ (mState # "PENDING" /\ mState' = mState)
    BY <1>6 DEF reportAtlOpenFailed, Denied, DropSubscribers
  <2> QED
    BY <1>0, <2>1, TakeOnly DEF AgpsState
<1>7. CASE reportAtlClosed
  <2>1. /\ Receive("closed") /\ UNCHANGED <<requests, conn>>
        /\ mState' = "RELEASED" \/ (mState # "ACQUIRED" /\ mState' = mState)
    BY <1>7 DEF reportAtlClosed, Released, DropSubscribers
  <2> QED
    BY <1>0, <2>1, TakeOnly DEF AgpsState
<1>8. CASE setCallback
  BY <1>8, AnswerAgrees, Messages DEF setCallback, smVars, Answer
<1>9. CASE dataConnOpen \/ dataConnFailed \/ dataConnClosed
  BY <1>9, AnswerAgrees, Messages DEF dataConnOpen, dataConnFailed, dataConnClosed, smVars, Answer
<1>10. CASE dataConnOpenBadApn
  <2>1. /\ conn = "opening" /\ conn' = "unusable" /\ UNCHANGED <<msgs, requests>>
        /\ mState' = "RELEASED" \/ (mState # "ACQUIRED" /\ mState' = mState)
    BY <1>10 DEF dataConnOpenBadApn, Released, DropSubscribers
  <2> QED
    BY <1>0, <2>1 DEF AgreeInv, LostIsTold, HeldIsOpen, PendingIsAsked, LastIsRequest, AgpsState
<1>11. CASE agnssStatusCb
  BY <1>11, CallbackAgrees
<1>12. CASE \E h \in Handles : ask(h) \/ giveBack(h)
  BY <1>12, AnswerAgrees, Messages DEF ask, giveBack, smVars
<1>13. CASE restart
  BY <1>13 DEF restart, smVars, AgreeInv, LostIsTold, HeldIsOpen, PendingIsAsked, LastIsRequest
<1> QED
  BY <1>1, <1>2, <1>3, <1>4, <1>5, <1>6, <1>7, <1>8, <1>9, <1>10, <1>11, <1>12, <1>13
     DEF Next, Adapter, Framework, Answered, Modem

(* Once nothing is on its way, a call that is held is open, and one that is  *)
(* waited for is being opened, or its APN was refused.                       *)
THEOREM Agrees == Spec => []AgreesWhenQuiet
<1>1. Init => AgreeInv
  BY DEF Init, AgreeInv, LostIsTold, HeldIsOpen, PendingIsAsked, LastIsRequest
<1>2. AgpsIInv /\ AgreeInv /\ [Next]_vars => AgreeInv'
  BY StepAgrees
<1>3. AgreeInv => AgreesWhenQuiet
  BY DEF AgreeInv, HeldIsOpen, PendingIsAsked, AgreesWhenQuiet, Quiet, Answer
<1> QED
  BY <1>1, <1>2, <1>3, AgpsInvariant, PTL DEF Spec

-----------------------------------------------------------------------------
(* DataItems and Xtra.                                                       *)

(* Sequences, whatever they hold.                                            *)

\* A sequence: a function over the numbers from 1 to its length.
Sq(q) == q \in Seq(Range(q))

\* What is known of a sequence.
LEMMA SqOf ==
    ASSUME NEW q, Sq(q)
    PROVE  Len(q) \in Nat /\ DOMAIN q = 1..Len(q) /\ (q = <<>> <=> Len(q) = 0)
BY DEF Sq

\* A function over the first numbers is a sequence.
LEMMA SqIs ==
    ASSUME NEW n \in Nat, NEW S, NEW q \in [1..n -> S]
    PROVE  Sq(q) /\ Len(q) = n
<1>1. q \in [1..n -> Range(q)]
  BY DEF Range
<1> QED BY <1>1 DEF Sq

\* The empty sequence.
LEMMA SqEmpty == Sq(<<>>) /\ Len(<<>>) = 0 /\ DOMAIN <<>> = {}
<1>1. <<>> \in Seq(Range(<<>>))
  OBVIOUS
<1> QED BY <1>1 DEF Sq

\* One more element.
LEMMA SqAppend ==
    ASSUME NEW q, Sq(q), NEW e
    PROVE  /\ Sq(Append(q, e)) /\ Len(Append(q, e)) = Len(q) + 1
           /\ DOMAIN Append(q, e) = 1..(Len(q) + 1)
           /\ \A j \in 1..Len(q) : Append(q, e)[j] = q[j]
           /\ Append(q, e)[Len(q) + 1] = e
<1> DEFINE S == Range(q) \cup {e}
           a == Append(q, e)
<1>1. q \in Seq(S) /\ e \in S
  BY DEF Sq
<1>2. a \in Seq(S) /\ Len(a) = Len(q) + 1 /\ DOMAIN a = 1..(Len(q) + 1)
      /\ (\A j \in 1..Len(q) : a[j] = q[j]) /\ a[Len(q) + 1] = e
  BY <1>1
<1> HIDE DEF a
<1>3. Len(q) + 1 \in Nat /\ a \in [1..(Len(q) + 1) -> S]
  BY <1>1, <1>2
<1>4. Sq(a)
  BY <1>3, SqIs
<1> QED BY <1>2, <1>4 DEF a

\* One element less.
LEMMA SqTail ==
    ASSUME NEW q, Sq(q), q # <<>>
    PROVE  /\ Sq(Tail(q)) /\ Len(q) \in Nat \ {0} /\ Len(Tail(q)) = Len(q) - 1
           /\ DOMAIN Tail(q) = 1..(Len(q) - 1)
           /\ \A j \in 1..(Len(q) - 1) : Tail(q)[j] = q[j + 1]
           /\ Head(q) = q[1]
<1> DEFINE a == Tail(q)
<1>1. Len(q) \in Nat \ {0} /\ Head(q) = q[1]
  BY DEF Sq
<1>2. a \in Seq(Range(q)) /\ Len(a) = Len(q) - 1 /\ DOMAIN a = 1..(Len(q) - 1)
      /\ (\A j \in 1..(Len(q) - 1) : a[j] = q[j + 1])
  BY DEF Sq
<1> HIDE DEF a
<1>3. Len(q) - 1 \in Nat /\ a \in [1..(Len(q) - 1) -> Range(q)]
  BY <1>1, <1>2
<1>4. Sq(a)
  BY <1>3, SqIs
<1> QED BY <1>1, <1>2, <1>4 DEF a

\* Two sequences, one after the other.
LEMMA SqConcat ==
    ASSUME NEW q, Sq(q), NEW r, Sq(r)
    PROVE  /\ Sq(q \o r) /\ Len(q \o r) = Len(q) + Len(r)
           /\ DOMAIN (q \o r) = 1..(Len(q) + Len(r))
           /\ \A j \in 1..Len(q) : (q \o r)[j] = q[j]
           /\ \A j \in 1..Len(r) : (q \o r)[Len(q) + j] = r[j]
<1> DEFINE S == Range(q) \cup Range(r)
           a == q \o r
<1>1. q \in Seq(S) /\ r \in Seq(S)
  BY DEF Sq
<1>2. a \in Seq(S) /\ Len(a) = Len(q) + Len(r) /\ DOMAIN a = 1..(Len(q) + Len(r))
      /\ (\A j \in 1..Len(q) : a[j] = q[j]) /\ (\A j \in 1..Len(r) : a[Len(q) + j] = r[j])
  BY <1>1
<1> HIDE DEF a
<1>3. Len(q) + Len(r) \in Nat /\ a \in [1..(Len(q) + Len(r)) -> S]
  BY <1>1, <1>2
<1>4. Sq(a)
  BY <1>3, SqIs
<1> QED BY <1>2, <1>4 DEF a

-----------------------------------------------------------------------------
(* What becomes of the queue.                                                *)

\* From q to q2: the first message is taken or not (d = 1 or 0), and those of e
\* are added.
Moves(q, q2, d, e) ==
    /\ Sq(q) /\ Sq(q2) /\ Sq(e) /\ d \in {0, 1} /\ d <= Len(q)
    /\ Len(q2) = Len(q) - d + Len(e)
    /\ \A j \in 1..(Len(q) - d) : q2[j] = q[j + d]
    /\ \A j \in 1..Len(e) : q2[Len(q) - d + j] = e[j]

\* Nothing, one message or several are added to what is left.
LEMMA MovesStill == ASSUME NEW q, Sq(q) PROVE Moves(q, q, 0, <<>>)
<1>1. Sq(<<>>) /\ Len(<<>>) = 0 /\ Len(q) \in Nat
  BY SqEmpty, SqOf
<1> QED BY <1>1 DEF Moves

\* One message is added.
LEMMA MovesPost == ASSUME NEW q, Sq(q), NEW m PROVE Moves(q, Append(q, m), 0, <<m>>)
<1>1. Sq(<<m>>) /\ Len(<<m>>) = 1 /\ <<m>>[1] = m
  <2>1. <<m>> = Append(<<>>, m)
    OBVIOUS
  <2>2. /\ Sq(Append(<<>>, m)) /\ Len(Append(<<>>, m)) = Len(<<>>) + 1
        /\ Append(<<>>, m)[Len(<<>>) + 1] = m
    BY SqEmpty, SqAppend
  <2>3. Len(<<>>) + 1 = 1
    BY SqEmpty
  <2> QED BY <2>1, <2>2, <2>3
<1>2. Len(q) \in Nat
  BY SqOf
<1>3. /\ Sq(Append(q, m)) /\ Len(Append(q, m)) = Len(q) + 1
      /\ \A j \in 1..Len(q) : Append(q, m)[j] = q[j]
      /\ Append(q, m)[Len(q) + 1] = m
  BY SqAppend
<1> QED BY <1>1, <1>2, <1>3 DEF Moves

\* The first is taken, and several are added.
LEMMA MovesMore ==
    ASSUME NEW q, Sq(q), q # <<>>, NEW e, Sq(e)
    PROVE  Moves(q, Tail(q) \o e, 1, e)
<1> DEFINE t == Tail(q)
<1>1. /\ Sq(t) /\ Len(q) \in Nat \ {0} /\ Len(t) = Len(q) - 1
      /\ \A j \in 1..(Len(q) - 1) : t[j] = q[j + 1]
  BY SqTail
<1>2. Len(e) \in Nat
  BY SqOf
<1> HIDE DEF t
<1>3. /\ Sq(t \o e) /\ Len(t \o e) = Len(t) + Len(e)
      /\ \A j \in 1..Len(t) : (t \o e)[j] = t[j]
      /\ \A j \in 1..Len(e) : (t \o e)[Len(t) + j] = e[j]
  <2>1. \A r : Sq(r) =>
          /\ Sq(r \o e) /\ Len(r \o e) = Len(r) + Len(e)
          /\ \A j \in 1..Len(r) : (r \o e)[j] = r[j]
          /\ \A j \in 1..Len(e) : (r \o e)[Len(r) + j] = e[j]
    BY SqConcat
  <2> QED BY <1>1, <2>1
<1>4. Moves(q, t \o e, 1, e)
  BY <1>1, <1>2, <1>3 DEF Moves
<1> QED BY <1>4 DEF t

\* The first is taken.
LEMMA MovesTaken == ASSUME NEW q, Sq(q), q # <<>> PROVE Moves(q, Tail(q), 1, <<>>)
<1>1. Tail(q) \o <<>> = Tail(q)
  <2>1. Tail(q) \in Seq(Range(Tail(q)))
    BY SqTail DEF Sq
  <2> HIDE DEF Sq
  <2> QED BY <2>1
<1>2. Moves(q, Tail(q) \o <<>>, 1, <<>>)
  BY MovesMore, SqEmpty
<1> QED BY <1>1, <1>2

\* Where the messages are, then.
LEMMA MovesPlaces ==
    ASSUME NEW q, NEW q2, NEW d, NEW e, Moves(q, q2, d, e)
    PROVE  /\ Len(q) \in Nat /\ Len(q2) \in Nat /\ Len(e) \in Nat /\ d \in {0, 1}
           /\ Len(q2) = Len(q) - d + Len(e) /\ Len(q) - d \in Nat
           /\ \A n \in 1..Len(q2) :
                \/ n \in 1..(Len(q) - d) /\ n + d \in 1..Len(q) /\ q2[n] = q[n + d]
                \/ n - (Len(q) - d) \in 1..Len(e) /\ q2[n] = e[n - (Len(q) - d)]
           /\ \A n \in 1..Len(q) :
                n > d => n - d \in 1..Len(q2) /\ q2[n - d] = q[n]
           /\ \A n \in 1..Len(e) :
                n + (Len(q) - d) \in 1..Len(q2) /\ q2[n + (Len(q) - d)] = e[n]
<1> DEFINE L == Len(q) - d
<1>1. Len(q) \in Nat /\ Len(q2) \in Nat /\ Len(e) \in Nat /\ d \in {0, 1} /\ d <= Len(q)
  BY SqOf DEF Moves
<1>2. Len(q2) = L + Len(e) /\ L \in Nat
  BY <1>1 DEF Moves
<1>3. (\A j \in 1..L : q2[j] = q[j + d]) /\ (\A j \in 1..Len(e) : q2[L + j] = e[j])
  BY DEF Moves
<1>4. ASSUME NEW n \in 1..Len(q2)
      PROVE  \/ n \in 1..L /\ n + d \in 1..Len(q) /\ q2[n] = q[n + d]
             \/ n - L \in 1..Len(e) /\ q2[n] = e[n - L]
  <2>1. CASE n <= L
    BY <2>1, <1>1, <1>2, <1>3
  <2>2. CASE n > L
    <3>1. n - L \in 1..Len(e) /\ L + (n - L) = n
      BY <2>2, <1>1, <1>2
    <3> QED BY <3>1, <1>3
  <2> QED BY <2>1, <2>2, <1>1, <1>2
<1>5. ASSUME NEW n \in 1..Len(q), n > d PROVE n - d \in 1..Len(q2) /\ q2[n - d] = q[n]
  <2>1. n - d \in 1..L /\ (n - d) + d = n /\ n - d \in 1..Len(q2)
    BY <1>5, <1>1, <1>2
  <2> QED BY <2>1, <1>3
<1>6. ASSUME NEW n \in 1..Len(e) PROVE n + L \in 1..Len(q2) /\ q2[n + L] = e[n]
  <2>1. n + L = L + n /\ n + L \in 1..Len(q2)
    BY <1>1, <1>2
  <2> QED BY <2>1, <1>3
<1> QED BY <1>1, <1>2, <1>4, <1>5, <1>6

\* One order of a finite set is a sequence of its elements, each of them there.
LEMMA Orders ==
    ASSUME NEW S, IsFiniteSet(S), NEW order \in SetToSeqs(S)
    PROVE  /\ Cardinality(S) \in Nat /\ order \in [1..Cardinality(S) -> S]
           /\ \A c \in S : \E n \in 1..Cardinality(S) : order[n] = c
<1> DEFINE D == 1..Cardinality(S)
<1>1. Cardinality(S) \in Nat
  BY FS_CardinalityType
<1>2. order \in [D -> S] /\ \A i, j \in D : i # j => order[i] # order[j]
  BY DEF SetToSeqs
<1>3. IsFiniteSet(D) /\ Cardinality(D) = Cardinality(S)
  BY <1>1, FS_Interval
<1>4. order \in Injection(D, S)
  BY <1>2 DEF Injection, IsInjective
<1>5. order \in Surjection(D, S)
  BY <1>3, <1>4, FS_Injection
<1> QED BY <1>1, <1>2, <1>5 DEF Surjection

-----------------------------------------------------------------------------
(* Types.                                                                    *)

Contents == Values \cup Reports
Parts == UNION {[S -> Contents] : S \in SUBSET Items}

Subscriptions == [op : {"subscribe"}, client : Observers, items : SUBSET Items, request : BOOLEAN]
Changes == [op : {"unsubscribe", "updateSubscription"}, client : Observers, items : SUBSET Items]
Leavings == [op : {"unsubscribeAll"}, client : Observers]
Settings == [op : {"setSubscriptionObj"}]
ItemNews == [op : {"notify"}, item : Items \ {NETWORKINFO}, content : Values]
NetworkNews == [op : {"notify"}, item : {NETWORKINFO}, content : Reports]
Updates == [op : {"update"}, client : Observers, content : Parts]
Requests == [op : {"requestStatus"}, updated : BOOLEAN]
TaskMessages == Subscriptions \cup Changes \cup Leavings \cup Settings \cup ItemNews
              \cup NetworkNews \cup Updates \cup Requests

Flags == {"ENABLE_NTRIP_COMMAND", "NO_NMEA_PENDING", "NTRIP_SESSION_STARTED"}
Sources == Streams \cup {NONE}
Knowledge == [Items -> Contents \cup {NONE}]

QueueTyped == Sq(dataQueue) /\ \A n \in 1..Len(dataQueue) : dataQueue[n] \in TaskMessages
DataTyped ==
    /\ dataItemToClients \in [Items -> SUBSET Observers]
    /\ clientToDataItems \in [Observers -> SUBSET Items]
    /\ cache \in Knowledge /\ cache[NETWORKINFO] \in Reports \cup {NONE}
    /\ known \in [Observers -> Knowledge]
    /\ subscriptionObj \in BOOLEAN /\ subscribed \subseteq Items /\ requested \subseteq Items
    /\ networks \in Seq(Networks) /\ muddled \in BOOLEAN
DaemonTyped ==
    /\ daemon \in [up : BOOLEAN, lock : Locks \cup {NONE}, items : Knowledge, source : Sources]
    /\ mGpsLock \in Locks \cup {NONE} /\ mReqStatusReceived \in BOOLEAN /\ halinit \in BOOLEAN
SourceTyped ==
    /\ mNtripParamsString \in Sources /\ ntripParams \in Sources
    /\ mDgnssState \subseteq Flags /\ sessions \in Nat
    /\ superseded \in BOOLEAN /\ mSendNmeaConsent \in BOOLEAN
StatusTypes == QueueTyped /\ DataTyped /\ DaemonTyped /\ SourceTyped

-----------------------------------------------------------------------------
(* Subscriptions.                                                            *)

Subscribed == SubscriptionsAgree /\ (~subscriptionObj => subscribed = {})

-----------------------------------------------------------------------------
(* What the subscribers know.                                                *)

Brings(m, c, i) == m.op = "update" /\ m.client = c /\ i \in DOMAIN m.content

\* From some message on, all about an item bring what is cached; without one,
\* it is known.
CurrentIn(q, c, i, value, then) ==
    \/ \E n \in 1..Len(q) :
         /\ Brings(q[n], c, i) /\ q[n].content[i] = value
         /\ \A k \in 1..Len(q) : k > n /\ Brings(q[k], c, i) => q[k].content[i] = value
    \/ then = value /\ \A n \in 1..Len(q) : ~Brings(q[n], c, i)

\* Nobody was told of an item that was never reported.
Unheard(i) ==
    cache[i] = NONE =>
      \A c \in Observers :
        /\ known[c][i] = NONE
        /\ \A n \in 1..Len(dataQueue) : ~Brings(dataQueue[n], c, i)

Delivered ==
    /\ \A c \in Observers \ updaters : \A i \in clientToDataItems[c] :
         CurrentIn(dataQueue, c, i, cache[i], known[c][i])
    /\ \A i \in Items : Unheard(i)

-----------------------------------------------------------------------------
(* The networks.                                                             *)

Once(l) == \A j, k \in 1..Len(l) : l[j] = l[k] => j = k
Table(l) == [n \in Slots |-> IF n <= Len(l) THEN l[n] ELSE Unknown]
Shown(l, report) ==
    IF report = NONE THEN l = <<>>
    ELSE report.mAllNetworkHandles = Table(l) /\ report.mAllTypes = TypesOf(l)

OfNetworks(m) == m.op = "notify" /\ m.item = NETWORKINFO

\* A network that comes has a place in the table; one that goes was the last.
Comes(l, m, l2) ==
    \E a \in Networks :
      /\ m.content = NetworkInfo(TRUE, a)
      /\ l2 = IF a \in Range(l) THEN l ELSE Append(l, a)
Departs(l, m, l2) ==
    /\ l # <<>> /\ m.content = NetworkInfo(FALSE, l[Len(l)])
    /\ l2 = SubSeq(l, 1, Len(l) - 1)
    /\ l[Len(l)].type \in TypesOf(l2) => Cardinality(TypesOf(l2)) = 1
Follows(l, m, l2) == IF OfNetworks(m) THEN Comes(l, m, l2) \/ Departs(l, m, l2) ELSE l2 = l

\* A list of networks that has a place in the table.
Fits(l) == l \in Seq(Networks) /\ Once(l) /\ Len(l) <= MAX_NETWORK_HANDLES

\* The networks before each message of the queue, from those of the report to
\* the last ones.
Path(h, q, last, report) ==
    /\ \A n \in 1..(Len(q) + 1) : Fits(h[n])
    /\ \A n \in 1..Len(q) : Follows(h[n], q[n], h[n + 1])
    /\ h[Len(q) + 1] = last
    /\ Shown(h[1], report)
Accounted == ~muddled => \E h : Path(h, dataQueue, networks, cache[NETWORKINFO])

-----------------------------------------------------------------------------
(* The daemon.                                                               *)

Asks(m) == m.op = "requestStatus" /\ ~m.updated
Reminds(m) == m.op = "requestStatus" /\ m.updated
RequestWaits == \E n \in 1..Len(dataQueue) : Asks(dataQueue[n])
ReminderWaits == \E n \in 1..Len(dataQueue) : Reminds(dataQueue[n])

Informed == mReqStatusReceived /\ daemon.lock = mGpsLock /\ daemon.items = known[XTRA]

\* A daemon that is not informed has asked, or does not know of the HAL yet.
Heard ==
    /\ daemon.up => Informed \/ RequestWaits \/ (~halinit /\ ~mReqStatusReceived /\ daemon.lock = NONE)
    /\ ~halinit => ~ReminderWaits

SourceStarted == "NTRIP_SESSION_STARTED" \in mDgnssState
Sourced ==
    /\ daemon.up => daemon.source = mNtripParamsString \/ (daemon.source = NONE /\ RequestWaits)
    /\ ~superseded => mNtripParamsString = (IF SourceStarted THEN ntripParams ELSE NONE)
    /\ SourceStarted => sessions > 0 /\ "ENABLE_NTRIP_COMMAND" \in mDgnssState
    /\ "ENABLE_NTRIP_COMMAND" \in mDgnssState => ntripParams # NONE

-----------------------------------------------------------------------------
(* The report of the networks.                                               *)

NetworkHandles == {network.handle : network \in Networks}
NetworkTypes == {network.type : network \in Networks}
Tables == [Slots -> [handle : NetworkHandles \cup {NONE}, type : NetworkTypes \cup {NONE}]]

\* What is in a report.
LEMMA ReportIs ==
    Reports = [connected : BOOLEAN, handle : NetworkHandles, type : NetworkTypes,
               mAllTypes : SUBSET NetworkTypes, mAllNetworkHandles : Tables]
BY DEF Reports, NetworkHandles, NetworkTypes, Tables

\* The report of an event is one.
LEMMA NewsIsReport ==
    ASSUME NEW connected \in BOOLEAN, NEW a \in Networks
    PROVE  NetworkInfo(connected, a) \in Reports
<1>1. a = [handle |-> a.handle, type |-> a.type] /\ a.handle \in NetworkHandles /\ a.type \in NetworkTypes
  BY DataAssumption DEF NetworkHandles, NetworkTypes
<1>2. a \in [handle : NetworkHandles \cup {NONE}, type : NetworkTypes \cup {NONE}]
  BY <1>1
<1>3. Unknown \in [handle : NetworkHandles \cup {NONE}, type : NetworkTypes \cup {NONE}]
  BY DEF Unknown
<1>4. [n \in Slots |-> IF n = 1 THEN a ELSE Unknown] \in Tables
  BY <1>2, <1>3 DEF Tables
<1>5. {a.type} \subseteq NetworkTypes
  BY <1>1
<1> QED BY <1>1, <1>4, <1>5, ReportIs DEF NetworkInfo

\* The slots that are looked at are the first ones.
LEMMA ScannedIs ==
    ASSUME NEW table
    PROVE  /\ IsFiniteSet(Scanned(table)) /\ Scanned(table) \subseteq Slots
           /\ Cardinality(Scanned(table)) \in 0..MAX_NETWORK_HANDLES
           /\ Scanned(table) # Slots => Cardinality(Scanned(table)) + 1 \in Slots
<1>1. IsFiniteSet(Slots) /\ Cardinality(Slots) = MAX_NETWORK_HANDLES
  BY DataAssumption, FS_Interval DEF Slots
<1>2. Scanned(table) \in SUBSET Slots
  BY DEF Scanned
<1>3. /\ IsFiniteSet(Scanned(table)) /\ Cardinality(Scanned(table)) <= Cardinality(Slots)
      /\ Cardinality(Slots) = Cardinality(Scanned(table)) => Slots = Scanned(table)
  BY <1>1, <1>2, FS_Subset
<1>4. Cardinality(Scanned(table)) \in Nat
  BY <1>3, FS_CardinalityType
<1> QED BY <1>1, <1>2, <1>3, <1>4, DataAssumption DEF Slots

\* A table with one more handle, and with one less, is one.
LEMMA TableKept ==
    ASSUME NEW table \in Tables, NEW info \in Reports
    PROVE  Added(table, info) \in Tables /\ Removed(table, info) \in Tables
<1> DEFINE row == [handle : NetworkHandles \cup {NONE}, type : NetworkTypes \cup {NONE}]
           m == Cardinality(Scanned(table)) + 1
           last == IF Scanned(table) = Slots THEN MAX_NETWORK_HANDLES ELSE m
           d == CHOOSE n \in OfHandle(table, info.handle) :
                  \A k \in OfHandle(table, info.handle) : k <= n
<1>1. [handle |-> info.handle, type |-> info.type] \in row /\ Unknown \in row
  BY ReportIs DEF Unknown
<1>2. table \in [Slots -> row]
  BY DEF Tables
<1>3. last \in Slots
  BY ScannedIs, DataAssumption DEF Slots
<1> HIDE DEF row, m, last, d
<1>4. table[last] \in row
  BY <1>2, <1>3
<1>5. [table EXCEPT ![m] = [handle |-> info.handle, type |-> info.type]] \in [Slots -> row]
  BY <1>1, <1>2
<1>6. [[table EXCEPT ![d] = table[last]] EXCEPT ![last] = Unknown] \in [Slots -> row]
  BY <1>1, <1>2, <1>4
<1>7. Tables = [Slots -> row]
  BY DEF Tables, row
<1>8. Added(table, info) \in Tables
  BY <1>2, <1>5, <1>7 DEF Added, m
<1>9. Removed(table, info) \in Tables
  BY <1>2, <1>6, <1>7 DEF Removed, d, last, m
<1> QED BY <1>8, <1>9

\* What is recorded is a report, or the item's value.
LEMMA CollateIsReport ==
    ASSUME NEW info \in Reports, NEW current \in Reports
    PROVE  collate(info, current) \in Reports
<1> DEFINE table == current.mAllNetworkHandles
<1>1. /\ info.connected \in BOOLEAN /\ info.handle \in NetworkHandles /\ info.type \in NetworkTypes
      /\ info.mAllTypes \subseteq NetworkTypes /\ current.mAllTypes \subseteq NetworkTypes
      /\ table \in Tables
  BY ReportIs
<1>2. Added(table, info) \in Tables /\ Removed(table, info) \in Tables
  BY <1>1, TableKept
<1> HIDE DEF table
<1>3. \A types, rows : types \subseteq NetworkTypes /\ rows \in Tables =>
        [info EXCEPT !.mAllTypes = types, !.mAllNetworkHandles = rows] \in Reports
  BY ReportIs
<1>4. \A types : types \subseteq NetworkTypes =>
        /\ [info EXCEPT !.mAllTypes = types, !.mAllNetworkHandles = Added(table, info)] \in Reports
        /\ [info EXCEPT !.mAllTypes = types, !.mAllNetworkHandles = Removed(table, info)] \in Reports
  BY <1>2, <1>3
<1>5. info.mAllTypes \cup current.mAllTypes \subseteq NetworkTypes
      /\ (IF NoneOfType(table, info) THEN current.mAllTypes \ info.mAllTypes
          ELSE info.mAllTypes) \subseteq NetworkTypes
  BY <1>1
<1> QED BY <1>4, <1>5 DEF collate, table

\* What is recorded has the item's type.
LEMMA RecordedTyped ==
    ASSUME DataTyped, NEW item \in Items, NEW content,
           IF item = NETWORKINFO THEN content \in Reports ELSE content \in Values
    PROVE  /\ Recorded(item, content) \in Contents /\ Recorded(item, content) # NONE
           /\ item = NETWORKINFO => Recorded(item, content) \in Reports
<1>1. CASE item # NETWORKINFO
  BY <1>1, DataAssumption DEF Recorded, Contents
<1>2. CASE item = NETWORKINFO
  <2>1. content \in Reports /\ cache[item] \in Reports \cup {NONE}
    BY <1>2 DEF DataTyped
  <2>2. CASE cache[item] = NONE
    <3>1. Recorded(item, content) = content
      BY <2>2 DEF Recorded
    <3> QED BY <3>1, <2>1, DataAssumption DEF Contents
  <2>3. CASE cache[item] # NONE
    <3>1. collate(content, cache[item]) \in Reports /\ cache[item] \in Reports
      BY <2>1, <2>3, CollateIsReport
    <3>2. Recorded(item, content) \in {collate(content, cache[item]), cache[item]}
      BY <1>2, <2>3 DEF Recorded
    <3> QED BY <3>1, <3>2, DataAssumption DEF Contents
  <2> QED BY <2>2, <2>3
<1> QED BY <1>1, <1>2

-----------------------------------------------------------------------------
(* The messages.                                                             *)

Typed(q) == Sq(q) /\ \A n \in 1..Len(q) : q[n] \in TaskMessages
AllIn(e, S) == \A n \in 1..Len(e) : e[n] \in S

\* A message has what its kind has.
LEMMA MessageIs ==
    ASSUME NEW m \in TaskMessages
    PROVE  /\ m.op = "subscribe" => m \in Subscriptions
           /\ m.op \in {"unsubscribe", "updateSubscription"} => m \in Changes
           /\ m.op = "unsubscribeAll" => m \in Leavings
           /\ m.op = "setSubscriptionObj" => m \in Settings
           /\ m.op = "notify" => m \in ItemNews \cup NetworkNews
           /\ m.op = "update" => m \in Updates
           /\ m.op = "requestStatus" => m \in Requests
BY DEF TaskMessages, Subscriptions, Changes, Leavings, Settings, ItemNews, NetworkNews, Updates, Requests

\* The first of the queue is one, and there is a first.
LEMMA HeadIs ==
    ASSUME QueueTyped, NEW op, Message(op)
    PROVE  /\ Sq(dataQueue) /\ dataQueue # <<>> /\ Len(dataQueue) \in Nat \ {0}
           /\ Head(dataQueue) = dataQueue[1] /\ Head(dataQueue) \in TaskMessages
           /\ Head(dataQueue).op = op
<1>1. Sq(dataQueue) /\ dataQueue # <<>> /\ Head(dataQueue).op = op
  BY DEF QueueTyped, Message
<1>2. Len(dataQueue) \in Nat \ {0} /\ Head(dataQueue) = dataQueue[1]
  BY <1>1, SqTail
<1>3. dataQueue[1] \in TaskMessages
  BY <1>2 DEF QueueTyped
<1> QED BY <1>1, <1>2, <1>3

\* A queue moves to one of messages.
LEMMA TypedMoves ==
    ASSUME NEW q, NEW q2, NEW d, NEW e, Typed(q), Moves(q, q2, d, e), AllIn(e, TaskMessages)
    PROVE  Typed(q2)
<1>1. Sq(q2)
  BY DEF Moves
<1>2. ASSUME NEW n \in 1..Len(q2) PROVE q2[n] \in TaskMessages
  <2>1. \/ n + d \in 1..Len(q) /\ q2[n] = q[n + d]
        \/ n - (Len(q) - d) \in 1..Len(e) /\ q2[n] = e[n - (Len(q) - d)]
    BY MovesPlaces
  <2> QED BY <2>1 DEF Typed, AllIn
<1> QED BY <1>1, <1>2 DEF Typed

\* The contents of items.
LEMMA PartIs ==
    ASSUME NEW S \in SUBSET Items, NEW f \in [S -> Contents]
    PROVE  f \in Parts /\ DOMAIN f = S
BY DEF Parts

\* Such a content is of some of the items.
LEMMA PartOf ==
    ASSUME NEW f \in Parts
    PROVE  DOMAIN f \subseteq Items /\ \A i \in DOMAIN f : f[i] \in Contents
BY DEF Parts

-----------------------------------------------------------------------------
(* What is sent.                                                             *)

CachedOf(items) == {i \in items : cache[i] # NONE}
Update(c, items) == [op |-> "update", client |-> c, content |-> [i \in CachedOf(items) |-> cache[i]]]
Extra(c, items) == IF CachedOf(items) = {} THEN <<>> ELSE <<Update(c, items)>>

\* The update a subscriber gets of what is cached.
LEMMA SentIs ==
    ASSUME NEW q, Sq(q), q # <<>>, DataTyped, NEW c \in Observers, NEW items \in SUBSET Items
    PROVE  /\ Moves(q, SentTo(Tail(q), c, items, cache), 1, Extra(c, items))
           /\ AllIn(Extra(c, items), Updates)
           /\ Len(Extra(c, items)) = IF CachedOf(items) = {} THEN 0 ELSE 1
           /\ CachedOf(items) # {} => Extra(c, items)[1] = Update(c, items)
<1>1. CASE CachedOf(items) = {}
  <2>1. SentTo(Tail(q), c, items, cache) = Tail(q) /\ Extra(c, items) = <<>>
    BY <1>1 DEF SentTo, Extra, CachedOf
  <2>2. Moves(q, Tail(q), 1, <<>>)
    BY MovesTaken
  <2>3. Len(<<>>) = 0 /\ AllIn(<<>>, Updates)
    BY SqEmpty DEF AllIn
  <2>4. Moves(q, SentTo(Tail(q), c, items, cache), 1, Extra(c, items))
    BY <2>1, <2>2
  <2>5. Len(Extra(c, items)) = 0 /\ AllIn(Extra(c, items), Updates)
    BY <2>1, <2>3
  <2> QED BY <1>1, <2>4, <2>5
<1>2. CASE CachedOf(items) # {}
  <2> DEFINE m == Update(c, items)
  <2>1. Extra(c, items) = <<m>>
    BY <1>2 DEF Extra
  <2>2. SentTo(Tail(q), c, items, cache) = Append(Tail(q), m)
    BY <1>2 DEF SentTo, CachedOf, Update
  <2>3. m \in Updates
    <3>1. [i \in CachedOf(items) |-> cache[i]] \in [CachedOf(items) -> Contents]
      BY DEF DataTyped, Knowledge, CachedOf
    <3>2. CachedOf(items) \in SUBSET Items
      BY DEF CachedOf
    <3>3. [i \in CachedOf(items) |-> cache[i]] \in Parts
      BY <3>1, <3>2, PartIs
    <3> QED BY <3>3 DEF Updates, Update
  <2> HIDE DEF m
  <2>4. Sq(Tail(q)) /\ Sq(<<m>>) /\ Len(<<m>>) = 1 /\ <<m>>[1] = m
    <3>1. Moves(<<>>, Append(<<>>, m), 0, <<m>>)
      BY SqEmpty, MovesPost
    <3>2. Sq(<<m>>)
      BY <3>1 DEF Moves
    <3> QED BY <3>2, SqTail
  <2>5. Append(Tail(q), m) = Tail(q) \o <<m>>
    <3>1. Tail(q) \in Seq(Range(Tail(q)) \cup {m})
      BY <2>4 DEF Sq
    <3> QED BY <3>1
  <2>6. Moves(q, Tail(q) \o <<m>>, 1, <<m>>)
    BY <2>4, MovesMore
  <2>7. AllIn(<<m>>, Updates)
    BY <2>3, <2>4 DEF AllIn
  <2> QED BY <1>2, <2>1, <2>2, <2>4, <2>5, <2>6, <2>7 DEF m
<1> QED BY <1>1, <1>2

News(order, item, content) ==
    [n \in DOMAIN order |-> [op |-> "update", client |-> order[n],
                             content |-> [i \in {item} |-> content]]]

\* The updates of the subscribers of an item that has changed.
LEMMA NewsIs ==
    ASSUME NEW q, Sq(q), q # <<>>, NEW item \in Items, NEW content \in Contents,
           NEW S \in SUBSET Observers, NEW order \in SetToSeqs(S)
    PROVE  LET e == News(order, item, content)
           IN  /\ Moves(q, Tail(q) \o e, 1, e) /\ AllIn(e, Updates)
               /\ \A n \in 1..Len(e) :
                    /\ e[n].op = "update" /\ e[n].client \in S
                    /\ DOMAIN e[n].content = {item} /\ e[n].content[item] = content
               /\ \A c \in S : \E n \in 1..Len(e) : e[n].client = c
<1> DEFINE e == News(order, item, content)
           k == Cardinality(S)
           of(c) == [op |-> "update", client |-> c, content |-> [i \in {item} |-> content]]
<1>1. IsFiniteSet(S)
  BY DataAssumption, FS_Subset
<1>2. k \in Nat /\ order \in [1..k -> S] /\ \A c \in S : \E n \in 1..k : order[n] = c
  BY <1>1, Orders
<1>3. \A c \in S : of(c) \in Updates
  <2>1. [i \in {item} |-> content] \in Parts
    BY PartIs
  <2> QED BY <2>1 DEF Updates
<1> HIDE DEF k
<1>4. e \in [1..k -> Updates] /\ \A n \in 1..k : e[n] = of(order[n])
  BY <1>2, <1>3 DEF News
<1> HIDE DEF e
<1>5. Sq(e) /\ Len(e) = k
  BY <1>2, <1>4, SqIs
<1>6. Moves(q, Tail(q) \o e, 1, e)
  BY <1>5, MovesMore
<1>7. AllIn(e, Updates)
  BY <1>4, <1>5 DEF AllIn
<1>8. ASSUME NEW n \in 1..Len(e)
      PROVE  /\ e[n].op = "update" /\ e[n].client \in S
             /\ DOMAIN e[n].content = {item} /\ e[n].content[item] = content
  <2>1. e[n] = of(order[n]) /\ order[n] \in S
    BY <1>2, <1>4, <1>5
  <2> QED BY <2>1
<1>9. ASSUME NEW c \in S PROVE \E n \in 1..Len(e) : e[n].client = c
  <2>1. PICK n \in 1..k : order[n] = c
    BY <1>2
  <2>2. e[n].client = c
    BY <1>4, <2>1
  <2> QED BY <1>5, <2>2
<1>10. /\ Moves(q, Tail(q) \o e, 1, e) /\ AllIn(e, Updates)
       /\ \A n \in 1..Len(e) :
            /\ e[n].op = "update" /\ e[n].client \in S
            /\ DOMAIN e[n].content = {item} /\ e[n].content[item] = content
       /\ \A c \in S : \E n \in 1..Len(e) : e[n].client = c
  BY <1>6, <1>7, <1>8, <1>9
<1> QED BY <1>10 DEF e

-----------------------------------------------------------------------------
(* What a step does to the queue, and its types.                             *)

Mute(m) == m.op \notin {"update", "requestStatus"}
Others == <<maps, cache, subscriptionObj, subscribed, known, everRequested, updaters>>

\* A list stays one when a network goes.
LEMMA RemoveTyped ==
    ASSUME NEW S, NEW l \in Seq(S), NEW n \in DOMAIN l
    PROVE  RemoveAt(l, n) \in Seq(S)
<1>1. n \in 1..Len(l) /\ Len(l) \in Nat
  OBVIOUS
<1>2. SubSeq(l, 1, n - 1) \in Seq(S)
  BY <1>1
<1>3. SubSeq(l, n + 1, Len(l)) \in Seq(S)
  BY <1>1
<1> QED BY <1>2, <1>3 DEF RemoveAt

\* A call posts a message, and changes nothing else but the networks.
LEMMA CallingIs ==
    ASSUME StatusTypes, Calling
    PROVE  /\ UNCHANGED Others
           /\ \E m \in TaskMessages : Mute(m) /\ dataQueue' = Append(dataQueue, m)
           /\ networks' \in Seq(Networks) /\ muddled' \in BOOLEAN /\ requested' \subseteq Items
<1> USE DataAssumption DEF StatusTypes, DataTyped, Others, Mute
<1>1. ASSUME NEW name, NEW m \in TaskMessages, call(name, m), Mute(m)
      PROVE  /\ UNCHANGED Others
             /\ \E x \in TaskMessages : Mute(x) /\ dataQueue' = Append(dataQueue, x)
             /\ networks' \in Seq(Networks) /\ muddled' \in BOOLEAN /\ requested' \subseteq Items
  BY <1>1 DEF call, Post, maps, framework, dataGhosts
<1>2. CASE subscribe
  <2>1. PICK c \in Callers, items \in Lists, request \in BOOLEAN :
          call("subscribe", [op |-> "subscribe", client |-> c, items |-> items, request |-> request])
    BY <1>2 DEF subscribe
  <2> DEFINE m == [op |-> "subscribe", client |-> c, items |-> items, request |-> request]
  <2>2. m \in TaskMessages /\ m.op = "subscribe"
    BY DEF TaskMessages, Subscriptions
  <2> HIDE DEF m
  <2> QED BY <1>1, <2>1, <2>2 DEF m
<1>3. CASE updateSubscription
  <2>1. PICK c \in Callers, items \in Lists :
          call("update", [op |-> "updateSubscription", client |-> c, items |-> items])
    BY <1>3 DEF updateSubscription
  <2> DEFINE m == [op |-> "updateSubscription", client |-> c, items |-> items]
  <2>2. m \in TaskMessages /\ m.op = "updateSubscription"
    BY DEF TaskMessages, Changes
  <2> HIDE DEF m
  <2> QED BY <1>1, <2>1, <2>2 DEF m
<1>4. CASE unsubscribe
  <2>1. PICK c \in Callers, items \in Lists :
          call("unsubscribe", [op |-> "unsubscribe", client |-> c, items |-> items])
    BY <1>4 DEF unsubscribe
  <2> DEFINE m == [op |-> "unsubscribe", client |-> c, items |-> items]
  <2>2. m \in TaskMessages /\ m.op = "unsubscribe"
    BY DEF TaskMessages, Changes
  <2> HIDE DEF m
  <2> QED BY <1>1, <2>1, <2>2 DEF m
<1>5. CASE unsubscribeAll
  <2>1. PICK c \in Callers : call("unsubscribe", [op |-> "unsubscribeAll", client |-> c])
    BY <1>5 DEF unsubscribeAll
  <2> DEFINE m == [op |-> "unsubscribeAll", client |-> c]
  <2>2. m \in TaskMessages /\ m.op = "unsubscribeAll"
    BY DEF TaskMessages, Leavings
  <2> HIDE DEF m
  <2> QED BY <1>1, <2>1, <2>2 DEF m
<1>6. CASE setSubscriptionObj
  <2> DEFINE m == [op |-> "setSubscriptionObj"]
  <2>1. call("setSubscriptionObj", m)
    BY <1>6 DEF setSubscriptionObj
  <2>2. m \in TaskMessages /\ m.op = "setSubscriptionObj"
    BY DEF TaskMessages, Settings
  <2> HIDE DEF m
  <2> QED BY <1>1, <2>1, <2>2 DEF m
<1>7. CASE notify
  <2>1. PICK i \in (subscribed \cup requested) \ {NETWORKINFO}, v \in Values :
          /\ dataQueue' = Post(dataQueue, [op |-> "notify", item |-> i, content |-> v])
          /\ requested' = requested \ {i}
          /\ UNCHANGED <<maps, cache, subscriptionObj, subscribed, known, networks, dataGhosts>>
    BY <1>7 DEF notify
  <2> DEFINE m == [op |-> "notify", item |-> i, content |-> v]
  <2>2. m \in TaskMessages /\ m.op = "notify"
    BY DEF TaskMessages, ItemNews
  <2> HIDE DEF m
  <2>3. dataQueue' = Append(dataQueue, m)
    BY <2>1 DEF m, Post
  <2> QED BY <2>1, <2>2, <2>3 DEF maps, dataGhosts
<1>8. ASSUME NEW connected \in BOOLEAN, NEW a \in Networks, eventConnectionStatus(connected, a)
      PROVE  /\ UNCHANGED Others
             /\ \E x \in TaskMessages : Mute(x) /\ dataQueue' = Append(dataQueue, x)
             /\ requested' \subseteq Items
  <2> DEFINE m == [op |-> "notify", item |-> NETWORKINFO, content |-> NetworkInfo(connected, a)]
  <2>1. m \in TaskMessages /\ m.op = "notify"
    BY NewsIsReport DEF TaskMessages, NetworkNews
  <2>2. dataQueue' = Append(dataQueue, m) /\ UNCHANGED <<maps, cache, framework, known, everRequested, updaters>>
    BY <1>8 DEF eventConnectionStatus, Post
  <2> HIDE DEF m
  <2> QED BY <2>1, <2>2 DEF maps, framework
<1>9. CASE NetworkAvailable
  <2>1. PICK a \in Networks :
          /\ eventConnectionStatus(TRUE, a)
          /\ networks' = IF a \in Range(networks) THEN networks ELSE Append(networks, a)
          /\ muddled' = (muddled \/ Len(networks') > MAX_NETWORK_HANDLES)
    BY <1>9 DEF NetworkAvailable
  <2>2. networks' \in Seq(Networks) /\ muddled' \in BOOLEAN
    BY <2>1
  <2> QED BY <1>8, <2>1, <2>2
<1>10. CASE NetworkLost
  <2>1. PICK n \in DOMAIN networks :
          /\ eventConnectionStatus(FALSE, networks[n])
          /\ networks' = RemoveAt(networks, n)
          /\ muddled' = (muddled \/ ~Orderly(n))
    BY <1>10 DEF NetworkLost
  <2>2. networks[n] \in Networks
    OBVIOUS
  <2>3. networks' \in Seq(Networks) /\ muddled' \in BOOLEAN
    BY <2>1, RemoveTyped
  <2> QED BY <1>8, <2>1, <2>2, <2>3
<1>11. CASE UnknownNetworkLost
  <2>1. PICK a \in Networks : eventConnectionStatus(FALSE, a) /\ muddled' = TRUE /\ networks' = networks
    BY <1>11 DEF UnknownNetworkLost
  <2> QED BY <1>8, <2>1
<1> QED BY <1>2, <1>3, <1>4, <1>5, <1>6, <1>7, <1>9, <1>10, <1>11 DEF Calling

\* A handler takes the first message, and sends updates.
TakesFirst(op) ==
    /\ Message(op)
    /\ \E e : Moves(dataQueue, dataQueue', 1, e) /\ AllIn(e, Updates)
    /\ UNCHANGED <<known, networks, muddled>>
    /\ dataItemToClients' \in [Items -> SUBSET Observers]
    /\ clientToDataItems' \in [Observers -> SUBSET Items]
    /\ cache' \in Knowledge /\ cache'[NETWORKINFO] \in Reports \cup {NONE}
    /\ subscriptionObj' \in BOOLEAN /\ subscribed' \subseteq Items /\ requested' \subseteq Items

\* The subscribers of the items are.
LEMMA LeftTyped ==
    ASSUME StatusTypes, NEW c, NEW items
    PROVE  Left(c, items) \in [Items -> SUBSET Observers]
BY DEF Left, StatusTypes, DataTyped

\* Each handler of the observer does.
LEMMA HandlingIs ==
    ASSUME StatusTypes, Handling
    PROVE  \E op : op \notin {"update", "requestStatus"} /\ TakesFirst(op)
<1> DEFINE head == Head(dataQueue)
<1> USE DEF StatusTypes, DataTyped
<1>0. ASSUME NEW op, Message(op), dataQueue' = Tail(dataQueue)
      PROVE  \E e : Moves(dataQueue, dataQueue', 1, e) /\ AllIn(e, Updates)
  <2>1. Moves(dataQueue, dataQueue', 1, <<>>)
    BY <1>0, HeadIs, MovesTaken
  <2>2. AllIn(<<>>, Updates)
    BY SqEmpty DEF AllIn
  <2> QED BY <2>1, <2>2
<1>00. ASSUME NEW op, Message(op), NEW c \in Observers, NEW items \in SUBSET Items,
              dataQueue' = SentTo(Tail(dataQueue), c, items, cache)
       PROVE  \E e : Moves(dataQueue, dataQueue', 1, e) /\ AllIn(e, Updates)
  BY <1>00, HeadIs, SentIs
<1>1. CASE HandleSubscribeReq
  <2>1. Message("subscribe") /\ head \in Subscriptions
    BY <1>1, HeadIs, MessageIs DEF HandleSubscribeReq
  <2>2. head.client \in Observers /\ head.items \in SUBSET Items
    BY <2>1 DEF Subscriptions
  <2>3. /\ dataItemToClients' = [i \in Items |-> dataItemToClients[i] \cup
                                    IF i \in head.items THEN {head.client} ELSE {}]
        /\ clientToDataItems' = [clientToDataItems EXCEPT ![head.client] = @ \cup head.items]
        /\ dataQueue' = SentTo(Tail(dataQueue), head.client, head.items, cache)
        /\ subscribed' \in {subscribed, subscribed \cup (head.items \ Nonempty(dataItemToClients))}
        /\ requested' \in {requested, requested \cup head.items}
        /\ UNCHANGED <<cache, subscriptionObj, known, networks, muddled>>
    BY <1>1 DEF HandleSubscribeReq
  <2> HIDE DEF head
  <2>4. \E e : Moves(dataQueue, dataQueue', 1, e) /\ AllIn(e, Updates)
    BY <1>00, <2>1, <2>2, <2>3
  <2>5. dataItemToClients' \in [Items -> SUBSET Observers]
    BY <2>2, <2>3
  <2>6. /\ clientToDataItems' \in [Observers -> SUBSET Items]
        /\ subscribed' \subseteq Items /\ requested' \subseteq Items
    BY <2>2, <2>3
  <2> QED BY <2>1, <2>3, <2>4, <2>5, <2>6 DEF TakesFirst
<1>2. CASE HandleUnsubscribeReq
  <2>1. Message("unsubscribe") /\ head \in Changes
    BY <1>2, HeadIs, MessageIs DEF HandleUnsubscribeReq
  <2>2. head.client \in Observers /\ head.items \in SUBSET Items
    BY <2>1 DEF Changes
  <2>3. /\ clientToDataItems' = [clientToDataItems EXCEPT ![head.client] = @ \ head.items]
        /\ dataItemToClients' = Left(head.client, clientToDataItems[head.client] \cap head.items)
        /\ subscribed' \subseteq subscribed
        /\ dataQueue' = Tail(dataQueue)
        /\ UNCHANGED <<cache, subscriptionObj, requested, known, networks, muddled>>
    BY <1>2 DEF HandleUnsubscribeReq, dataGhosts
  <2> HIDE DEF head
  <2>4. \E e : Moves(dataQueue, dataQueue', 1, e) /\ AllIn(e, Updates)
    BY <1>0, <2>1, <2>3
  <2>5. /\ clientToDataItems' \in [Observers -> SUBSET Items]
        /\ subscribed' \subseteq Items /\ requested' \subseteq Items
    BY <2>2, <2>3
  <2>6. dataItemToClients' \in [Items -> SUBSET Observers]
    BY <2>3, LeftTyped
  <2> QED BY <2>1, <2>3, <2>4, <2>5, <2>6 DEF TakesFirst
<1>3. CASE HandleUnsubscribeAllReq
  <2>1. Message("unsubscribeAll") /\ head \in Leavings
    BY <1>3, HeadIs, MessageIs DEF HandleUnsubscribeAllReq
  <2>2. head.client \in Observers
    BY <2>1 DEF Leavings
  <2>3. /\ clientToDataItems' = [clientToDataItems EXCEPT ![head.client] = {}]
        /\ dataItemToClients' = Left(head.client, clientToDataItems[head.client])
        /\ subscribed' \subseteq subscribed
        /\ dataQueue' = Tail(dataQueue)
        /\ UNCHANGED <<cache, subscriptionObj, requested, known, networks, muddled>>
    BY <1>3 DEF HandleUnsubscribeAllReq, dataGhosts
  <2> HIDE DEF head
  <2>4. \E e : Moves(dataQueue, dataQueue', 1, e) /\ AllIn(e, Updates)
    BY <1>0, <2>1, <2>3
  <2>5. /\ clientToDataItems' \in [Observers -> SUBSET Items]
        /\ subscribed' \subseteq Items /\ requested' \subseteq Items
    BY <2>2, <2>3
  <2>6. dataItemToClients' \in [Items -> SUBSET Observers]
    BY <2>3, LeftTyped
  <2> QED BY <2>1, <2>3, <2>4, <2>5, <2>6 DEF TakesFirst
<1>4. CASE HandleUpdateSubscriptionReq
  <2>1. Message("updateSubscription") /\ head \in Changes
    BY <1>4, HeadIs, MessageIs DEF HandleUpdateSubscriptionReq
  <2> DEFINE common == clientToDataItems[head.client] \cap head.items
             added == head.items \ common
             trimmed == Left(head.client, common)
  <2>2. head.client \in Observers /\ head.items \in SUBSET Items
    BY <2>1 DEF Changes
  <2>3. /\ clientToDataItems' = [clientToDataItems EXCEPT ![head.client] = head.items]
        /\ dataItemToClients' = [i \in Items |-> trimmed[i] \cup
                                    IF i \in added THEN {head.client} ELSE {}]
        /\ dataQueue' = SentTo(Tail(dataQueue), head.client, added, cache)
        /\ subscribed' \subseteq subscribed \cup added
        /\ UNCHANGED <<cache, subscriptionObj, requested, known, networks, muddled>>
    BY <1>4 DEF HandleUpdateSubscriptionReq
  <2> HIDE DEF head
  <2>4. added \in SUBSET Items
    BY <2>2
  <2>5. trimmed \in [Items -> SUBSET Observers]
    BY LeftTyped
  <2> HIDE DEF added, trimmed
  <2>6. \E e : Moves(dataQueue, dataQueue', 1, e) /\ AllIn(e, Updates)
    BY <1>00, <2>1, <2>2, <2>3, <2>4
  <2>7. dataItemToClients' \in [Items -> SUBSET Observers]
    BY <2>2, <2>3, <2>5
  <2>8. /\ clientToDataItems' \in [Observers -> SUBSET Items]
        /\ subscribed' \subseteq Items /\ requested' \subseteq Items
    BY <2>2, <2>3, <2>4
  <2> QED BY <2>1, <2>3, <2>6, <2>7, <2>8 DEF TakesFirst
<1>5. CASE SetSubsObj
  <2>1. /\ Message("setSubscriptionObj") /\ dataQueue' = Tail(dataQueue)
        /\ subscriptionObj' = TRUE /\ subscribed' = Nonempty(dataItemToClients)
        /\ requested' = Nonempty(dataItemToClients)
        /\ UNCHANGED <<maps, cache, known, networks, muddled>>
    BY <1>5 DEF SetSubsObj, dataGhosts
  <2>2. subscribed' \subseteq Items /\ requested' \subseteq Items
    BY <2>1 DEF Nonempty
  <2>3. \E e : Moves(dataQueue, dataQueue', 1, e) /\ AllIn(e, Updates)
    BY <1>0, <2>1
  <2> QED BY <2>1, <2>2, <2>3 DEF TakesFirst, maps
<1>6. CASE HandleNotify
  <2>1. Message("notify") /\ head \in ItemNews \cup NetworkNews
    BY <1>6, HeadIs, MessageIs DEF HandleNotify
  <2> DEFINE item == head.item
             content == Recorded(item, head.content)
             told == {c \in Observers : content # cache[item] /\ Reaches(c, item)}
  <2>2. item \in Items /\ IF item = NETWORKINFO THEN head.content \in Reports ELSE head.content \in Values
    BY <2>1, DataAssumption DEF ItemNews, NetworkNews
  <2>3. /\ cache' = [cache EXCEPT ![item] = content]
        /\ \E order \in SetToSeqs(told) :
             dataQueue' = Tail(dataQueue) \o News(order, item, content)
        /\ UNCHANGED <<maps, framework, known, networks, muddled>>
    BY <1>6 DEF HandleNotify, News, dataGhosts
  <2> HIDE DEF head
  <2>4. content \in Contents /\ content # NONE /\ (item = NETWORKINFO => content \in Reports)
    BY <2>2, RecordedTyped
  <2>5. told \in SUBSET Observers
    OBVIOUS
  <2> HIDE DEF item, content, told
  <2>6. PICK order \in SetToSeqs(told) : dataQueue' = Tail(dataQueue) \o News(order, item, content)
    BY <2>3
  <2>7. Moves(dataQueue, dataQueue', 1, News(order, item, content))
        /\ AllIn(News(order, item, content), Updates)
    BY <2>1, <2>2, <2>4, <2>5, <2>6, NewsIs, HeadIs
  <2>8. cache' \in Knowledge /\ cache'[NETWORKINFO] \in Reports \cup {NONE}
    BY <2>2, <2>3, <2>4 DEF Knowledge
  <2> QED BY <2>1, <2>3, <2>7, <2>8 DEF TakesFirst, maps, framework
<1> QED BY <1>1, <1>2, <1>3, <1>4, <1>5, <1>6 DEF Handling, TakesFirst

-----------------------------------------------------------------------------
(* The types are kept.                                                       *)

\* What the adapter's and the observer's handlers leave alone.
DataLeft == <<dataQueue, maps, cache, framework, known, networks, dataGhosts>>

\* A queue that moves to messages is one.
LEMMA QueueKept ==
    ASSUME QueueTyped, NEW d, NEW e, Moves(dataQueue, dataQueue', d, e), AllIn(e, TaskMessages)
    PROVE  QueueTyped'
<1>1. Typed(dataQueue')
  BY TypedMoves DEF QueueTyped, Typed
<1> QED BY <1>1 DEF QueueTyped, Typed

\* So does one that a message is posted to.
LEMMA QueuePosted ==
    ASSUME QueueTyped, NEW m \in TaskMessages, dataQueue' = Append(dataQueue, m)
    PROVE  QueueTyped'
<1>1. Moves(dataQueue, dataQueue', 0, <<m>>)
  BY MovesPost DEF QueueTyped
<1>2. Moves(<<>>, Append(<<>>, m), 0, <<m>>)
  BY SqEmpty, MovesPost
<1>3. AllIn(<<m>>, TaskMessages)
  <2>1. Len(<<m>>) = 1 /\ <<m>>[1] = m
    OBVIOUS
  <2> QED BY <2>1 DEF AllIn
<1> QED BY <1>1, <1>3, QueueKept

\* So does one whose first is taken.
LEMMA QueueTaken ==
    ASSUME QueueTyped, NEW op, Message(op), dataQueue' = Tail(dataQueue)
    PROVE  QueueTyped' /\ Moves(dataQueue, dataQueue', 1, <<>>)
<1>1. Moves(dataQueue, dataQueue', 1, <<>>)
  BY HeadIs, MovesTaken
<1>2. AllIn(<<>>, TaskMessages)
  BY SqEmpty DEF AllIn
<1> QED BY <1>1, <1>2, QueueKept

\* The client knows its items, old and new.
LEMMA UpdateIs ==
    ASSUME StatusTypes, HandleUpdate
    PROVE  LET head == Head(dataQueue)
           IN  /\ Message("update") /\ head \in Updates /\ head.op = "update"
               /\ head.client \in Observers /\ DOMAIN head.content \subseteq Items
               /\ \A i \in DOMAIN head.content : head.content[i] \in Contents
               /\ dataQueue' = Tail(dataQueue)
               /\ known' \in [Observers -> Knowledge]
               /\ \A c \in Observers, i \in Items :
                    known'[c][i] = IF Brings(head, c, i) THEN head.content[i] ELSE known[c][i]
<1> DEFINE head == Head(dataQueue)
           new == [i \in Items |-> IF i \in DOMAIN head.content THEN head.content[i]
                                   ELSE known[head.client][i]]
<1>1. Message("update") /\ dataQueue' = Tail(dataQueue) /\ known' = [known EXCEPT ![head.client] = new]
  BY DEF HandleUpdate
<1>2. head \in Updates /\ head.op = "update"
  BY <1>1, HeadIs, MessageIs DEF StatusTypes
<1>3. head.client \in Observers /\ head.content \in Parts
  BY <1>2 DEF Updates
<1>4. DOMAIN head.content \subseteq Items /\ \A i \in DOMAIN head.content : head.content[i] \in Contents
  BY <1>3, PartOf
<1>5. known \in [Observers -> Knowledge]
  BY DEF StatusTypes, DataTyped
<1> HIDE DEF head
<1>6. new \in Knowledge
  BY <1>3, <1>4, <1>5 DEF Knowledge
<1>7. known' \in [Observers -> Knowledge]
  BY <1>1, <1>5, <1>6
<1>8. ASSUME NEW c \in Observers, NEW i \in Items
      PROVE  known'[c][i] = IF Brings(head, c, i) THEN head.content[i] ELSE known[c][i]
  <2>1. CASE c = head.client
    <3>1. known'[c] = new
      BY <1>1, <1>5, <2>1
    <3> QED BY <1>2, <2>1, <3>1 DEF Brings
  <2>2. CASE c # head.client
    BY <1>1, <1>5, <2>2 DEF Brings
  <2> QED BY <2>1, <2>2
<1> QED BY <1>1, <1>2, <1>3, <1>4, <1>7, <1>8 DEF head

\* The source of corrections, after its handlers.
LEMMA CheckTyped ==
    ASSUME DaemonTyped, SourceTyped, NEW flags \in SUBSET Flags, NEW params \in Sources,
           NEW inSession, checkUpdateDgnssNtrip(flags, params, inSession)
    PROVE  /\ daemon' \in [up : BOOLEAN, lock : Locks \cup {NONE}, items : Knowledge, source : Sources]
           /\ mNtripParamsString' \in Sources /\ mDgnssState' \subseteq Flags /\ superseded' \in BOOLEAN
<1>1. [daemon EXCEPT !.source = params]
        \in [up : BOOLEAN, lock : Locks \cup {NONE}, items : Knowledge, source : Sources]
  BY DEF DaemonTyped
<1>2. Sent([daemon EXCEPT !.source = params])
        \in [up : BOOLEAN, lock : Locks \cup {NONE}, items : Knowledge, source : Sources]
  BY <1>1 DEF Sent, DaemonTyped
<1> QED BY <1>2 DEF checkUpdateDgnssNtrip, DaemonTyped, SourceTyped, Flags

\* The same when they stop it.
LEMMA StopTyped ==
    ASSUME DaemonTyped, SourceTyped, NEW flags \in SUBSET Flags, stopDgnssNtrip(flags)
    PROVE  /\ daemon' \in [up : BOOLEAN, lock : Locks \cup {NONE}, items : Knowledge, source : Sources]
           /\ mNtripParamsString' \in Sources /\ mDgnssState' \subseteq Flags /\ superseded' \in BOOLEAN
<1>1. [daemon EXCEPT !.source = NONE]
        \in [up : BOOLEAN, lock : Locks \cup {NONE}, items : Knowledge, source : Sources]
  BY DEF DaemonTyped, Sources
<1>2. Sent([daemon EXCEPT !.source = NONE])
        \in [up : BOOLEAN, lock : Locks \cup {NONE}, items : Knowledge, source : Sources]
  BY <1>1 DEF Sent, DaemonTyped
<1>3. NONE \in Sources
  BY DEF Sources
<1> QED BY <1>2, <1>3 DEF stopDgnssNtrip, DaemonTyped, SourceTyped

\* The handlers of the corrections keep the types.
LEMMA CorrectionsTyped ==
    ASSUME StatusTypes, Corrections
    PROVE  /\ UNCHANGED DataLeft /\ UNCHANGED <<mGpsLock, mReqStatusReceived, halinit>>
           /\ DaemonTyped' /\ SourceTyped'
<1> USE DEF StatusTypes
<1>0. UNCHANGED DataLeft /\ UNCHANGED <<mGpsLock, mReqStatusReceived, halinit>>
  <2>1. CASE handleEnablePPENtrip
    BY <2>1 DEF handleEnablePPENtrip, ntrip, DataLeft
  <2>2. CASE ~handleEnablePPENtrip
    <3>1. ntrip
      BY <2>2 DEF Corrections, handleDisablePPENtrip, saveTrackingSession,
           eraseTrackingSession, reportGGAToNtrip, updateNTRIPGGAConsentCommand
    <3> QED BY <3>1 DEF ntrip, DataLeft
  <2> QED BY <2>1, <2>2
<1>2. /\ ntripParams \in Sources /\ sessions \in Nat /\ mSendNmeaConsent \in BOOLEAN
      /\ mDgnssState \in SUBSET Flags /\ NONE \in Sources /\ Streams \subseteq Sources
      /\ mNtripParamsString \in Sources /\ superseded \in BOOLEAN
      /\ daemon \in [up : BOOLEAN, lock : Locks \cup {NONE}, items : Knowledge, source : Sources]
  BY DEF SourceTyped, Sources, DaemonTyped
<1>3. CASE handleEnablePPENtrip
  <2>1. PICK params \in Streams :
          /\ IF SameParams(params)
             THEN UNCHANGED <<ntripParams, mDgnssState, mNtripParamsString, daemon, superseded>>
             ELSE LET flags == (mDgnssState \cup {"ENABLE_NTRIP_COMMAND", "NO_NMEA_PENDING"})
                                 \ {"NTRIP_SESSION_STARTED"}
                  IN  /\ ntripParams' = params
                      /\ IF isDgnssNmeaRequired(params)
                         THEN /\ mDgnssState' = flags \ {"NO_NMEA_PENDING"}
                              /\ superseded' = (superseded \/ "NTRIP_SESSION_STARTED" \in mDgnssState)
                              /\ UNCHANGED <<mNtripParamsString, daemon>>
                         ELSE checkUpdateDgnssNtrip(flags, params, sessions > 0)
          /\ UNCHANGED <<mSendNmeaConsent, sessions>>
    BY <1>3 DEF handleEnablePPENtrip
  <2> DEFINE flags == (mDgnssState \cup {"ENABLE_NTRIP_COMMAND", "NO_NMEA_PENDING"})
                        \ {"NTRIP_SESSION_STARTED"}
  <2>2. flags \in SUBSET Flags /\ flags \ {"NO_NMEA_PENDING"} \in SUBSET Flags /\ params \in Sources
    BY <1>2 DEF Flags
  <2>3. CASE SameParams(params)
    BY <1>0, <1>2, <2>1, <2>3 DEF DaemonTyped, SourceTyped
  <2>4. CASE ~SameParams(params) /\ isDgnssNmeaRequired(params)
    <3>1. /\ ntripParams' = params /\ mDgnssState' = flags \ {"NO_NMEA_PENDING"}
          /\ superseded' \in BOOLEAN /\ UNCHANGED <<mNtripParamsString, daemon>>
      BY <1>2, <2>1, <2>4
    <3> QED BY <1>0, <1>2, <2>1, <2>2, <3>1 DEF DaemonTyped, SourceTyped
  <2>5. CASE ~SameParams(params) /\ ~isDgnssNmeaRequired(params)
    <3>1. ntripParams' = params /\ checkUpdateDgnssNtrip(flags, params, sessions > 0)
      BY <2>1, <2>5
    <3> HIDE DEF flags
    <3>2. /\ daemon' \in [up : BOOLEAN, lock : Locks \cup {NONE}, items : Knowledge, source : Sources]
          /\ mNtripParamsString' \in Sources /\ mDgnssState' \subseteq Flags /\ superseded' \in BOOLEAN
      BY <2>2, <3>1, CheckTyped
    <3> QED BY <1>0, <1>2, <2>1, <2>2, <3>1, <3>2 DEF DaemonTyped, SourceTyped
  <2> QED BY <2>3, <2>4, <2>5
<1>4. CASE handleDisablePPENtrip
  <2> DEFINE flags == (mDgnssState \ {"ENABLE_NTRIP_COMMAND"}) \cup {"NO_NMEA_PENDING"}
  <2>1. flags \in SUBSET Flags
    BY <1>2 DEF Flags
  <2>2. ntripParams' = NONE /\ stopDgnssNtrip(flags) /\ UNCHANGED <<mSendNmeaConsent, sessions>>
    BY <1>4 DEF handleDisablePPENtrip
  <2> HIDE DEF flags
  <2>3. /\ daemon' \in [up : BOOLEAN, lock : Locks \cup {NONE}, items : Knowledge, source : Sources]
        /\ mNtripParamsString' \in Sources /\ mDgnssState' \subseteq Flags /\ superseded' \in BOOLEAN
    BY <2>1, <2>2, StopTyped
  <2> QED BY <1>0, <1>2, <2>2, <2>3 DEF DaemonTyped, SourceTyped
<1>5. CASE saveTrackingSession
  <2>1. /\ sessions' = sessions + 1 /\ checkUpdateDgnssNtrip(mDgnssState, ntripParams, TRUE)
        /\ UNCHANGED <<ntripParams, mSendNmeaConsent>>
    BY <1>5 DEF saveTrackingSession
  <2>2. /\ daemon' \in [up : BOOLEAN, lock : Locks \cup {NONE}, items : Knowledge, source : Sources]
        /\ mNtripParamsString' \in Sources /\ mDgnssState' \subseteq Flags /\ superseded' \in BOOLEAN
    BY <1>2, <2>1, CheckTyped
  <2> QED BY <1>0, <1>2, <2>1, <2>2 DEF DaemonTyped, SourceTyped
<1>6. CASE eraseTrackingSession
  <2> DEFINE flags == mDgnssState \ IF isDgnssNmeaRequired(ntripParams) THEN {"NO_NMEA_PENDING"} ELSE {}
  <2>1. /\ sessions > 0 /\ sessions' = sessions - 1 /\ stopDgnssNtrip(flags)
        /\ UNCHANGED <<ntripParams, mSendNmeaConsent>>
    BY <1>6 DEF eraseTrackingSession
  <2>2. flags \in SUBSET Flags
    BY <1>2
  <2> HIDE DEF flags
  <2>3. /\ daemon' \in [up : BOOLEAN, lock : Locks \cup {NONE}, items : Knowledge, source : Sources]
        /\ mNtripParamsString' \in Sources /\ mDgnssState' \subseteq Flags /\ superseded' \in BOOLEAN
    BY <2>1, <2>2, StopTyped
  <2> QED BY <1>0, <1>2, <2>1, <2>3 DEF DaemonTyped, SourceTyped
<1>7. CASE reportGGAToNtrip
  <2> DEFINE flags == mDgnssState \cup {"NO_NMEA_PENDING"}
  <2>1. /\ checkUpdateDgnssNtrip(flags, ntripParams, sessions > 0)
        /\ UNCHANGED <<ntripParams, mSendNmeaConsent, sessions>>
    BY <1>7 DEF reportGGAToNtrip
  <2>2. flags \in SUBSET Flags
    BY <1>2 DEF Flags
  <2> HIDE DEF flags
  <2>3. /\ daemon' \in [up : BOOLEAN, lock : Locks \cup {NONE}, items : Knowledge, source : Sources]
        /\ mNtripParamsString' \in Sources /\ mDgnssState' \subseteq Flags /\ superseded' \in BOOLEAN
    BY <1>2, <2>1, <2>2, CheckTyped
  <2> QED BY <1>0, <1>2, <2>1, <2>3 DEF DaemonTyped, SourceTyped
<1>8. CASE updateNTRIPGGAConsentCommand
  BY <1>0, <1>2, <1>8 DEF updateNTRIPGGAConsentCommand, DaemonTyped, SourceTyped
<1> QED BY <1>0, <1>3, <1>4, <1>5, <1>6, <1>7, <1>8 DEF Corrections

-----------------------------------------------------------------------------
(* Every step keeps the types.                                               *)

\* The types hold at the start.
LEMMA TypesInit == XtraInit => StatusTypes
<1>1. SUFFICES ASSUME XtraInit PROVE StatusTypes
  OBVIOUS
<1> USE DEF XtraInit, DataInit
<1>2. QueueTyped
  <2> DEFINE R == [client : Observers, items : SUBSET Items, request : BOOLEAN]
  <2>1. Listening \in Seq(R)
    BY DataAssumption
  <2> HIDE DEF R
  <2>2. Len(Listening) \in Nat /\ DOMAIN Listening = 1..Len(Listening)
        /\ \A n \in 1..Len(Listening) :
             Listening[n] \in R
    BY <2>1
  <2>3. dataQueue = [n \in 1..Len(Listening) |->
                       [op |-> "subscribe", client |-> Listening[n].client,
                        items |-> Listening[n].items, request |-> Listening[n].request]]
    BY <1>1, <2>2
  <2>4. dataQueue \in [1..Len(Listening) -> TaskMessages]
    BY <2>2, <2>3 DEF TaskMessages, Subscriptions, R
  <2>5. Sq(dataQueue) /\ Len(dataQueue) = Len(Listening)
    BY <2>2, <2>4, SqIs
  <2> QED BY <2>4, <2>5 DEF QueueTyped
<1>3. DataTyped
  <2>1. cache \in Knowledge /\ cache[NETWORKINFO] = NONE /\ known \in [Observers -> Knowledge]
    BY <1>1, DataAssumption DEF Knowledge
  <2>2. <<>> \in Seq(Networks)
    OBVIOUS
  <2> QED BY <1>1, <2>1, <2>2 DEF DataTyped
<1>4. DaemonTyped /\ SourceTyped
  <2>1. Ignorant.items \in Knowledge /\ Ignorant.lock = NONE /\ Ignorant.source = NONE
    BY DEF Ignorant, Knowledge
  <2>2. \A up \in BOOLEAN : Daemon(up, Ignorant)
          \in [up : BOOLEAN, lock : Locks \cup {NONE}, items : Knowledge, source : Sources]
    BY <2>1 DEF Daemon, Sources
  <2> QED BY <1>1, <2>2 DEF DaemonTyped, SourceTyped, Sources
<1> QED BY <1>2, <1>3, <1>4 DEF StatusTypes

\* Each step keeps the types.
LEMMA TypesNext ==
    ASSUME StatusTypes, [XtraNext]_<<dataVars, xtraVars>>
    PROVE  StatusTypes'
<1> USE DEF StatusTypes
<1>0. DOMAIN daemon = {"up", "lock", "items", "source"} /\ NONE \in Sources
      /\ daemon \in [up : BOOLEAN, lock : Locks \cup {NONE}, items : Knowledge, source : Sources]
  BY DEF DaemonTyped, Sources
<1>1. CASE UNCHANGED <<dataVars, xtraVars>>
  <2>1. UNCHANGED <<dataQueue, maps, cache, framework, known, networks, dataGhosts>>
        /\ UNCHANGED xtraVars
    BY <1>1 DEF dataVars
  <2> QED BY <2>1 DEF QueueTyped, DataTyped, DaemonTyped, SourceTyped, maps, framework, dataGhosts,
             xtraVars, dgnssVars
<1>2. ASSUME UNCHANGED <<maps, cache, framework, known, networks, dataGhosts>> PROVE DataTyped'
  BY <1>2 DEF DataTyped, maps, framework, dataGhosts
<1>3. ASSUME UNCHANGED dgnssVars PROVE SourceTyped'
  BY <1>3 DEF SourceTyped, dgnssVars
<1>4. ASSUME UNCHANGED xtraVars PROVE DaemonTyped' /\ SourceTyped'
  BY <1>4 DEF DaemonTyped, SourceTyped, xtraVars, dgnssVars
<1>5. CASE Calling /\ UNCHANGED xtraVars
  <2>1. /\ UNCHANGED Others /\ networks' \in Seq(Networks) /\ muddled' \in BOOLEAN
        /\ requested' \subseteq Items
    BY <1>5, CallingIs
  <2>2. \E m \in TaskMessages : Mute(m) /\ dataQueue' = Append(dataQueue, m)
    BY <1>5, CallingIs
  <2>3. QueueTyped'
    BY <2>2, QueuePosted
  <2>4. DataTyped'
    BY <2>1 DEF DataTyped, Others, maps
  <2> QED BY <1>4, <1>5, <2>3, <2>4
<1>6. CASE Handling /\ UNCHANGED xtraVars
  <2>1. PICK op : op \notin {"update", "requestStatus"} /\ TakesFirst(op)
    BY <1>6, HandlingIs
  <2>2. PICK e : Moves(dataQueue, dataQueue', 1, e) /\ AllIn(e, Updates)
    BY <2>1 DEF TakesFirst
  <2>3. AllIn(e, TaskMessages)
    BY <2>2 DEF AllIn, TaskMessages
  <2>4. QueueTyped'
    BY <2>2, <2>3, QueueKept
  <2>5. DataTyped'
    BY <2>1 DEF DataTyped, TakesFirst
  <2> QED BY <1>4, <1>6, <2>4, <2>5
<1>7. CASE HandleOsObserverUpdateMsg
  <2>1. /\ HandleUpdate
        /\ daemon' = IF mReqStatusReceived /\ Head(dataQueue).client = XTRA
                     THEN Sent([daemon EXCEPT !.items =
                                  [i \in Items |-> IF i \in DOMAIN Head(dataQueue).content
                                                   THEN known'[XTRA][i] ELSE @[i]]])
                     ELSE daemon
        /\ UNCHANGED <<mGpsLock, mReqStatusReceived, halinit, dgnssVars>>
    BY <1>7 DEF HandleOsObserverUpdateMsg
  <2>2. Message("update") /\ dataQueue' = Tail(dataQueue) /\ known' \in [Observers -> Knowledge]
    BY <2>1, UpdateIs
  <2>3. UNCHANGED <<dataUse, maps, cache, framework, networks, dataGhosts>>
    BY <2>1 DEF HandleUpdate
  <2>4. QueueTyped'
    BY <2>2, QueueTaken
  <2>5. DataTyped'
    BY <2>2, <2>3 DEF DataTyped, maps, framework, dataGhosts
  <2>6. [i \in Items |-> IF i \in DOMAIN Head(dataQueue).content
                         THEN known'[XTRA][i] ELSE daemon.items[i]] \in Knowledge
    BY <2>2, <1>0, XtraAssumption DEF Knowledge
  <2>7. DaemonTyped'
    BY <2>1, <2>6, <1>0 DEF DaemonTyped, Sent
  <2> QED BY <1>3, <2>1, <2>4, <2>5, <2>7
<1>8. CASE HandleStatusRequestMsg
  <2> DEFINE responded == IF Head(dataQueue).updated THEN daemon
                          ELSE [daemon EXCEPT !.lock = mGpsLock, !.items = known[XTRA]]
  <2>1. /\ Message("requestStatus") /\ dataQueue' = Tail(dataQueue)
        /\ mReqStatusReceived' = TRUE
        /\ daemon' = Sent(IF mNtripParamsString = NONE THEN responded
                          ELSE [responded EXCEPT !.source = mNtripParamsString])
        /\ UNCHANGED <<mGpsLock, halinit, dgnssVars>>
        /\ UNCHANGED <<maps, cache, framework, known, networks, dataGhosts>>
    BY <1>8 DEF HandleStatusRequestMsg
  <2>2. known[XTRA] \in Knowledge /\ mGpsLock \in Locks \cup {NONE} /\ mNtripParamsString \in Sources
    BY XtraAssumption DEF DataTyped, DaemonTyped, SourceTyped
  <2>3. responded \in [up : BOOLEAN, lock : Locks \cup {NONE}, items : Knowledge, source : Sources]
    BY <2>2, <1>0
  <2> HIDE DEF responded
  <2>4. DaemonTyped'
    BY <2>1, <2>2, <2>3, <1>0 DEF DaemonTyped, Sent
  <2>5. QueueTyped'
    BY <2>1, QueueTaken
  <2> QED BY <1>2, <1>3, <2>1, <2>4, <2>5
<1>9. ASSUME NEW updated \in BOOLEAN, AskStatus(updated) PROVE QueueTyped'
  <2> DEFINE m == [op |-> "requestStatus", updated |-> updated]
  <2>1. m \in TaskMessages
    BY DEF TaskMessages, Requests
  <2>2. dataQueue' = Append(dataQueue, m)
    BY <1>9 DEF AskStatus, Post
  <2> QED BY <2>1, <2>2, QueuePosted
<1>10. \A up \in BOOLEAN : Daemon(up, Ignorant)
         \in [up : BOOLEAN, lock : Locks \cup {NONE}, items : Knowledge, source : Sources]
  <2>1. Ignorant.items \in Knowledge /\ Ignorant.lock = NONE /\ Ignorant.source = NONE
    BY DEF Ignorant, Knowledge
  <2> QED BY <2>1 DEF Daemon, Sources
<1>11. CASE DaemonStarts
  <2>1. /\ daemon' = Daemon(TRUE, Ignorant) /\ AskStatus(FALSE)
        /\ UNCHANGED <<mGpsLock, mReqStatusReceived, halinit, dgnssVars>>
        /\ UNCHANGED <<maps, cache, framework, known, networks, dataGhosts>>
    BY <1>11 DEF DaemonStarts
  <2>2. DaemonTyped'
    BY <1>10, <2>1 DEF DaemonTyped
  <2> QED BY <1>2, <1>3, <1>9, <2>1, <2>2
<1>12. CASE DaemonDies
  <2>1. /\ daemon' = Daemon(FALSE, Ignorant)
        /\ UNCHANGED <<mGpsLock, mReqStatusReceived, halinit, dgnssVars>>
        /\ UNCHANGED dataQueue /\ UNCHANGED <<maps, cache, framework, known, networks, dataGhosts>>
    BY <1>12 DEF DaemonDies
  <2>2. DaemonTyped'
    BY <1>10, <2>1 DEF DaemonTyped
  <2>3. QueueTyped'
    BY <2>1 DEF QueueTyped
  <2> QED BY <1>2, <1>3, <2>1, <2>2, <2>3
<1>13. CASE DelayExpires
  <2>1. /\ halinit' = TRUE
        /\ IF daemon.up THEN AskStatus(daemon.lock # NONE) ELSE UNCHANGED dataQueue
        /\ UNCHANGED <<mGpsLock, mReqStatusReceived, daemon, dgnssVars>>
        /\ UNCHANGED <<maps, cache, framework, known, networks, dataGhosts>>
    BY <1>13 DEF DelayExpires
  <2>2. (daemon.lock # NONE) \in BOOLEAN
    OBVIOUS
  <2>3. AskStatus(daemon.lock # NONE) => QueueTyped'
    BY <2>2, <1>9
  <2>4. QueueTyped'
    <3>1. UNCHANGED dataQueue => QueueTyped'
      BY DEF QueueTyped
    <3> QED BY <2>1, <2>3, <3>1
  <2>5. DaemonTyped'
    BY <2>1 DEF DaemonTyped
  <2> QED BY <1>2, <1>3, <2>1, <2>4, <2>5
<1>14. CASE updateLockStatus
  <2>1. PICK lock \in Locks :
          /\ mGpsLock' = lock
          /\ daemon' = IF mReqStatusReceived THEN Sent([daemon EXCEPT !.lock = lock]) ELSE daemon
          /\ UNCHANGED <<mReqStatusReceived, halinit, dgnssVars>>
          /\ UNCHANGED dataQueue /\ UNCHANGED <<maps, cache, framework, known, networks, dataGhosts>>
    BY <1>14 DEF updateLockStatus
  <2>2. DaemonTyped'
    BY <2>1, <1>0 DEF DaemonTyped, Sent
  <2>3. QueueTyped'
    BY <2>1 DEF QueueTyped
  <2> QED BY <1>2, <1>3, <2>1, <2>2, <2>3
<1>15. CASE Corrections
  <2>1. UNCHANGED DataLeft /\ DaemonTyped' /\ SourceTyped'
    BY <1>15, CorrectionsTyped
  <2>2. UNCHANGED dataQueue /\ UNCHANGED <<maps, cache, framework, known, networks, dataGhosts>>
    BY <2>1 DEF DataLeft
  <2>3. QueueTyped'
    BY <2>2 DEF QueueTyped
  <2> QED BY <1>2, <2>1, <2>2, <2>3
<1> QED BY <1>1, <1>5, <1>6, <1>7, <1>8, <1>11, <1>12, <1>13, <1>14, <1>15 DEF XtraNext

-----------------------------------------------------------------------------
(* The maps of subscriptions.                                                *)

\* Other steps change none of them.
LEMMA SubscriptionsLeft ==
    ASSUME StatusTypes, [XtraNext]_<<dataVars, xtraVars>>, ~Handling
    PROVE  UNCHANGED <<maps, subscriptionObj, subscribed, everRequested, updaters>>
<1>1. CASE Calling
  BY <1>1, CallingIs DEF Others
<1>2. CASE UNCHANGED <<dataVars, xtraVars>>
  BY <1>2 DEF dataVars, framework, dataGhosts
<1>3. CASE HandleOsObserverUpdateMsg
  BY <1>3 DEF HandleOsObserverUpdateMsg, HandleUpdate, framework, dataGhosts
<1>4. CASE HandleStatusRequestMsg \/ DaemonStarts \/ DaemonDies \/ DelayExpires \/ updateLockStatus
  <2>1. UNCHANGED <<maps, cache, framework, known, networks, dataGhosts>>
    BY <1>4 DEF HandleStatusRequestMsg, DaemonStarts, DaemonDies, DelayExpires, updateLockStatus
  <2> QED BY <2>1 DEF framework, dataGhosts
<1>5. CASE Corrections
  BY <1>5, CorrectionsTyped DEF DataLeft, framework, dataGhosts
<1> QED BY <1>1, <1>2, <1>3, <1>4, <1>5 DEF XtraNext

\* The maps agree at the start.
LEMMA SubscribedInit == XtraInit => Subscribed
BY DEF XtraInit, DataInit, Subscribed, SubscriptionsAgree, Nonempty

\* Who has left, and who has not.
LEMMA LeftIs ==
    ASSUME DataTyped, NEW x, NEW items, NEW i \in Items
    PROVE  /\ \A c : c \in Left(x, items)[i] <=>
                       c \in dataItemToClients[i] /\ ~(c = x /\ i \in items)
           /\ i \notin items => Left(x, items)[i] = dataItemToClients[i]
           /\ i \in Nonempty(Left(x, items)) <=> Left(x, items)[i] # {}
           /\ i \in Nonempty(dataItemToClients) <=> dataItemToClients[i] # {}
           /\ Left(x, items)[i] \subseteq dataItemToClients[i]
BY DEF Left, Nonempty

\* Each step keeps the two maps and the framework's items together.
LEMMA SubscribedNext ==
    ASSUME StatusTypes, Subscribed, [XtraNext]_<<dataVars, xtraVars>>
    PROVE  Subscribed'
<1> DEFINE head == Head(dataQueue)
           c == head.client
<1>0. DataTyped
  BY DEF StatusTypes
<1>1. CASE ~Handling
  BY <1>1, SubscriptionsLeft DEF Subscribed, SubscriptionsAgree, Nonempty, maps
<1>2. /\ dataItemToClients \in [Items -> SUBSET Observers]
      /\ clientToDataItems \in [Observers -> SUBSET Items] /\ subscribed \subseteq Items
      /\ \A i \in Items : i \in Nonempty(dataItemToClients) <=> dataItemToClients[i] # {}
  BY <1>0 DEF DataTyped, Nonempty
<1>3. /\ \A i \in Items, x \in Observers \ updaters :
           x \in dataItemToClients[i] <=> i \in clientToDataItems[x]
      /\ subscribed \subseteq Nonempty(dataItemToClients)
      /\ subscriptionObj => Nonempty(dataItemToClients) \subseteq subscribed \cup everRequested
      /\ ~subscriptionObj => subscribed = {}
  BY DEF Subscribed, SubscriptionsAgree
<1>4. CASE HandleSubscribeReq
  <2>1. Message("subscribe") /\ head \in Subscriptions
    BY <1>4, HeadIs, MessageIs DEF HandleSubscribeReq, StatusTypes
  <2>2. c \in Observers /\ head.items \in SUBSET Items /\ head.request \in BOOLEAN
    BY <2>1 DEF Subscriptions
  <2>3. /\ dataItemToClients' = [i \in Items |-> dataItemToClients[i] \cup
                                    IF i \in head.items THEN {c} ELSE {}]
        /\ clientToDataItems' = [clientToDataItems EXCEPT ![c] = @ \cup head.items]
        /\ IF subscriptionObj /\ head.request THEN subscribed' = subscribed
           ELSE IF subscriptionObj
           THEN subscribed' = subscribed \cup (head.items \ Nonempty(dataItemToClients))
           ELSE subscribed' = subscribed
        /\ everRequested' = everRequested \cup IF head.request THEN head.items ELSE {}
        /\ UNCHANGED <<subscriptionObj, updaters>>
    BY <1>4 DEF HandleSubscribeReq
  <2> HIDE DEF head, c
  <2>4. \A i \in Items, x \in Observers \ updaters' :
          x \in dataItemToClients'[i] <=> i \in clientToDataItems'[x]
    BY <1>2, <1>3, <2>2, <2>3
  <2>5. \A i \in Items : i \in Nonempty(dataItemToClients)' <=>
                           i \in Nonempty(dataItemToClients) \/ i \in head.items
    BY <1>2, <2>2, <2>3 DEF Nonempty
  <2>6. subscribed' \subseteq Nonempty(dataItemToClients)'
    BY <1>2, <1>3, <2>2, <2>3, <2>5
  <2>7. Nonempty(dataItemToClients)' \subseteq Items
    BY DEF Nonempty
  <2>8. subscriptionObj' => Nonempty(dataItemToClients)' \subseteq subscribed' \cup everRequested'
    BY <1>2, <1>3, <2>2, <2>3, <2>5, <2>7
  <2> QED BY <1>3, <2>3, <2>4, <2>6, <2>8 DEF Subscribed, SubscriptionsAgree
<1>5. ASSUME NEW items \in SUBSET Items, NEW common, c \in Observers,
             \A i \in Items : i \in common <=> i \in items /\ i \in clientToDataItems[c],
             clientToDataItems' = [clientToDataItems EXCEPT ![c] = @ \ items],
             dataItemToClients' = Left(c, common),
             subscribed' = subscribed \ Unsubscribed(dataItemToClients, dataItemToClients'),
             UNCHANGED <<subscriptionObj, everRequested, updaters>>
      PROVE  Subscribed'
  <2> HIDE DEF head, c
  <2>1. \A i \in Items :
          /\ \A x : x \in dataItemToClients'[i] <=> x \in dataItemToClients[i] /\ ~(x = c /\ i \in common)
          /\ i \in Nonempty(dataItemToClients') <=> dataItemToClients'[i] # {}
          /\ dataItemToClients'[i] \subseteq dataItemToClients[i]
    BY <1>0, <1>5, LeftIs
  <2>2. \A i \in Items, x \in Observers \ updaters' :
          x \in dataItemToClients'[i] <=> i \in clientToDataItems'[x]
    <3>1. ASSUME NEW i \in Items, NEW x \in Observers \ updaters'
          PROVE  x \in dataItemToClients'[i] <=> i \in clientToDataItems'[x]
      <4>1. x \in dataItemToClients[i] <=> i \in clientToDataItems[x]
        BY <1>3, <1>5, <3>1
      <4>2. x \in dataItemToClients'[i] <=> x \in dataItemToClients[i] /\ ~(x = c /\ i \in common)
        BY <2>1
      <4>3. i \in clientToDataItems'[x] <=> i \in clientToDataItems[x] /\ ~(x = c /\ i \in items)
        BY <1>2, <1>5
      <4> QED BY <1>5, <4>1, <4>2, <4>3
    <3> QED BY <3>1
  <2>3. subscriptionObj => subscribed' = subscribed \ (Nonempty(dataItemToClients) \ Nonempty(dataItemToClients'))
    BY <1>5 DEF Unsubscribed
  <2>4. ~subscriptionObj => subscribed' = {}
    BY <1>3, <1>5
  <2>5. subscribed' \subseteq Nonempty(dataItemToClients')
    BY <1>3, <2>3, <2>4
  <2>6. Nonempty(dataItemToClients') \subseteq Nonempty(dataItemToClients)
    BY <1>2, <2>1 DEF Nonempty
  <2>7. subscriptionObj' => Nonempty(dataItemToClients') \subseteq subscribed' \cup everRequested'
    BY <1>3, <1>5, <2>3, <2>6
  <2> QED BY <1>5, <2>2, <2>4, <2>5, <2>7 DEF Subscribed, SubscriptionsAgree, Nonempty
<1>6. CASE HandleUnsubscribeReq
  <2>1. Message("unsubscribe") /\ head \in Changes
    BY <1>6, HeadIs, MessageIs DEF HandleUnsubscribeReq, StatusTypes
  <2>2. c \in Observers /\ head.items \in SUBSET Items
    BY <2>1 DEF Changes
  <2>3. /\ clientToDataItems' = [clientToDataItems EXCEPT ![c] = @ \ head.items]
        /\ dataItemToClients' = Left(c, clientToDataItems[c] \cap head.items)
        /\ subscribed' = subscribed \ Unsubscribed(dataItemToClients, dataItemToClients')
        /\ UNCHANGED <<subscriptionObj, everRequested, updaters>>
    BY <1>6 DEF HandleUnsubscribeReq, dataGhosts
  <2>4. \A i \in Items : i \in clientToDataItems[c] \cap head.items <=>
                           i \in head.items /\ i \in clientToDataItems[c]
    OBVIOUS
  <2> QED BY <1>5, <2>2, <2>3, <2>4
<1>7. CASE HandleUnsubscribeAllReq
  <2>1. Message("unsubscribeAll") /\ head \in Leavings
    BY <1>7, HeadIs, MessageIs DEF HandleUnsubscribeAllReq, StatusTypes
  <2>2. c \in Observers
    BY <2>1 DEF Leavings
  <2>3. /\ clientToDataItems' = [clientToDataItems EXCEPT ![c] = {}]
        /\ dataItemToClients' = Left(c, clientToDataItems[c])
        /\ subscribed' = subscribed \ Unsubscribed(dataItemToClients, dataItemToClients')
        /\ UNCHANGED <<subscriptionObj, everRequested, updaters>>
    BY <1>7 DEF HandleUnsubscribeAllReq, dataGhosts
  <2> HIDE DEF head, c
  <2>4. clientToDataItems[c] \ Items = {}
    BY <1>2, <2>2
  <2>5. clientToDataItems' = [clientToDataItems EXCEPT ![c] = @ \ Items]
    BY <2>3, <2>4
  <2>6. \A i \in Items : i \in clientToDataItems[c] <=> i \in Items /\ i \in clientToDataItems[c]
    OBVIOUS
  <2> QED BY <1>5, <2>2, <2>3, <2>5, <2>6
<1>8. CASE HandleUpdateSubscriptionReq
  <2>1. Message("updateSubscription") /\ head \in Changes
    BY <1>8, HeadIs, MessageIs DEF HandleUpdateSubscriptionReq, StatusTypes
  <2> DEFINE common == clientToDataItems[c] \cap head.items
             added == head.items \ common
             trimmed == Left(c, common)
  <2>2. c \in Observers /\ head.items \in SUBSET Items
    BY <2>1 DEF Changes
  <2>3. /\ clientToDataItems' = [clientToDataItems EXCEPT ![c] = head.items]
        /\ dataItemToClients' = [i \in Items |-> trimmed[i] \cup IF i \in added THEN {c} ELSE {}]
        /\ subscribed' = IF subscriptionObj
                         THEN (subscribed \cup (added \ Nonempty(trimmed)))
                                \ Unsubscribed(dataItemToClients, trimmed)
                         ELSE subscribed
        /\ updaters' = updaters \cup {c}
        /\ UNCHANGED <<subscriptionObj, everRequested>>
    BY <1>8 DEF HandleUpdateSubscriptionReq
  <2> HIDE DEF head, c
  <2>4. \A i \in Items :
          /\ \A x : x \in trimmed[i] <=> x \in dataItemToClients[i] /\ ~(x = c /\ i \in common)
          /\ i \notin common => trimmed[i] = dataItemToClients[i]
          /\ i \in Nonempty(trimmed) <=> trimmed[i] # {}
          /\ trimmed[i] \subseteq dataItemToClients[i]
    BY <1>0, LeftIs
  <2>5. added \subseteq Items /\ \A i \in added : i \notin common
    BY <2>2
  <2>6. Nonempty(trimmed) \subseteq Items
    BY DEF Nonempty
  <2> HIDE DEF trimmed, added
  <2>7. \A i \in Items, x \in Observers \ updaters' :
          x \in dataItemToClients'[i] <=> i \in clientToDataItems'[x]
    <3>1. ASSUME NEW i \in Items, NEW x \in Observers \ updaters'
          PROVE  x \in dataItemToClients'[i] <=> i \in clientToDataItems'[x]
      <4>1. x # c /\ x \in Observers \ updaters
        BY <2>3, <3>1
      <4>2. x \in dataItemToClients'[i] <=> x \in dataItemToClients[i]
        BY <2>3, <2>4, <4>1
      <4>3. clientToDataItems'[x] = clientToDataItems[x]
        BY <1>2, <2>3, <4>1
      <4> QED BY <1>3, <4>1, <4>2, <4>3
    <3> QED BY <3>1
  <2>8. \A i \in Items : i \in Nonempty(dataItemToClients') <=> i \in Nonempty(trimmed) \/ i \in added
    BY <2>3, <2>4 DEF Nonempty
  <2>9. subscriptionObj => Unsubscribed(dataItemToClients, trimmed) = Nonempty(dataItemToClients) \ Nonempty(trimmed)
    BY DEF Unsubscribed
  <2>10. \A i \in added : i \in Nonempty(dataItemToClients) => i \in Nonempty(trimmed)
    BY <1>2, <2>4, <2>5
  <2>11. subscribed' \subseteq Nonempty(dataItemToClients')
    BY <1>2, <1>3, <2>3, <2>5, <2>8, <2>9
  <2>12. Nonempty(trimmed) \subseteq Nonempty(dataItemToClients) /\ Nonempty(dataItemToClients') \subseteq Items
    BY <1>2, <2>4, <2>6 DEF Nonempty
  <2>13. subscriptionObj' => Nonempty(dataItemToClients') \subseteq subscribed' \cup everRequested'
    BY <1>3, <2>3, <2>5, <2>8, <2>9, <2>10, <2>12
  <2>14. ~subscriptionObj' => subscribed' = {}
    BY <1>3, <2>3
  <2> QED BY <2>7, <2>11, <2>13, <2>14 DEF Subscribed, SubscriptionsAgree, Nonempty
<1>9. CASE SetSubsObj
  BY <1>3, <1>9 DEF SetSubsObj, dataGhosts, maps, Subscribed, SubscriptionsAgree, Nonempty
<1>10. CASE HandleNotify
  BY <1>3, <1>10 DEF HandleNotify, dataGhosts, maps, framework, Subscribed, SubscriptionsAgree, Nonempty
<1> QED BY <1>1, <1>4, <1>6, <1>7, <1>8, <1>9, <1>10 DEF Handling

-----------------------------------------------------------------------------
(* What is delivered.                                                        *)

Silent(e, c, i) == \A n \in 1..Len(e) : ~Brings(e[n], c, i)

\* Messages about something else are taken and posted.
LEMMA CurrentKept ==
    ASSUME NEW q, NEW q2, NEW d, NEW e, Moves(q, q2, d, e), NEW c, NEW i, NEW value, NEW then,
           CurrentIn(q, c, i, value, then), Silent(e, c, i),
           d = 1 => ~Brings(q[1], c, i)
    PROVE  CurrentIn(q2, c, i, value, then)
<1> DEFINE L == Len(q) - d
<1>1. /\ Len(q) \in Nat /\ Len(q2) \in Nat /\ d \in {0, 1} /\ L \in Nat
      /\ \A n \in 1..Len(q2) :
           \/ n \in 1..L /\ n + d \in 1..Len(q) /\ q2[n] = q[n + d]
           \/ n - L \in 1..Len(e) /\ q2[n] = e[n - L]
      /\ \A n \in 1..Len(q) : n > d => n - d \in 1..Len(q2) /\ q2[n - d] = q[n]
  BY MovesPlaces
<1>2. ASSUME NEW k \in 1..Len(q2), Brings(q2[k], c, i)
      PROVE  k + d \in 1..Len(q) /\ q2[k] = q[k + d]
  BY <1>1, <1>2 DEF Silent
<1> HIDE DEF L
<1>3. CASE then = value /\ \A n \in 1..Len(q) : ~Brings(q[n], c, i)
  <2>1. \A n \in 1..Len(q2) : ~Brings(q2[n], c, i)
    BY <1>2, <1>3
  <2> QED BY <1>3, <2>1 DEF CurrentIn
<1>4. ASSUME NEW n \in 1..Len(q), Brings(q[n], c, i), q[n].content[i] = value,
             \A k \in 1..Len(q) : k > n /\ Brings(q[k], c, i) => q[k].content[i] = value
      PROVE  CurrentIn(q2, c, i, value, then)
  <2>1. n > d
    BY <1>1, <1>4
  <2>2. n - d \in 1..Len(q2) /\ q2[n - d] = q[n]
    BY <1>1, <2>1
  <2>3. ASSUME NEW k \in 1..Len(q2), k > n - d, Brings(q2[k], c, i) PROVE q2[k].content[i] = value
    <3>1. k + d \in 1..Len(q) /\ q2[k] = q[k + d]
      BY <1>2, <2>3
    <3>2. k + d > n
      BY <1>1, <2>3
    <3> QED BY <1>4, <2>3, <3>1, <3>2
  <2> QED BY <1>4, <2>2, <2>3 DEF CurrentIn
<1> QED BY <1>3, <1>4 DEF CurrentIn

\* What is posted brings it.
LEMMA CurrentPosted ==
    ASSUME NEW q, NEW q2, NEW d, NEW e, Moves(q, q2, d, e), NEW c, NEW i, NEW value, NEW then,
           \E n \in 1..Len(e) : Brings(e[n], c, i),
           \A n \in 1..Len(e) : Brings(e[n], c, i) => e[n].content[i] = value
    PROVE  CurrentIn(q2, c, i, value, then)
<1> DEFINE L == Len(q) - d
<1>1. /\ Len(q) \in Nat /\ Len(q2) \in Nat /\ L \in Nat
      /\ \A n \in 1..Len(q2) :
           \/ n \in 1..L
           \/ n - L \in 1..Len(e) /\ q2[n] = e[n - L]
      /\ \A n \in 1..Len(e) : n + L \in 1..Len(q2) /\ q2[n + L] = e[n]
  BY MovesPlaces
<1> HIDE DEF L
<1>2. PICK n \in 1..Len(e) : Brings(e[n], c, i)
  OBVIOUS
<1>3. n + L \in 1..Len(q2) /\ q2[n + L] = e[n] /\ e[n].content[i] = value
  BY <1>1, <1>2
<1>4. ASSUME NEW k \in 1..Len(q2), k > n + L, Brings(q2[k], c, i) PROVE q2[k].content[i] = value
  <2>1. k - L \in 1..Len(e) /\ q2[k] = e[k - L]
    BY <1>1, <1>4
  <2> QED BY <1>4, <2>1
<1> QED BY <1>2, <1>3, <1>4 DEF CurrentIn

\* The first message is taken, and its content known.
LEMMA CurrentTaken ==
    ASSUME NEW q, NEW q2, Moves(q, q2, 1, <<>>), NEW c, NEW i, NEW value, NEW then,
           CurrentIn(q, c, i, value, then), Brings(q[1], c, i)
    PROVE  CurrentIn(q2, c, i, value, q[1].content[i])
<1>0. Len(<<>>) = 0
  BY SqEmpty
<1>1. /\ Len(q) \in Nat /\ Len(q) - 1 \in Nat /\ Len(q2) = Len(q) - 1
      /\ \A n \in 1..Len(q2) : n + 1 \in 1..Len(q) /\ q2[n] = q[n + 1]
      /\ \A n \in 1..Len(q) : n > 1 => n - 1 \in 1..Len(q2) /\ q2[n - 1] = q[n]
  <2>1. /\ Len(q) \in Nat /\ Len(q2) \in Nat /\ Len(q2) = Len(q) - 1 + Len(<<>>)
        /\ \A n \in 1..Len(q) : n > 1 => n - 1 \in 1..Len(q2) /\ q2[n - 1] = q[n]
        /\ \A j \in 1..(Len(q) - 1) : q2[j] = q[j + 1]
    BY MovesPlaces DEF Moves
  <2>2. Len(q2) = Len(q) - 1
    BY <1>0, <2>1
  <2>3. ASSUME NEW n \in 1..Len(q2) PROVE n + 1 \in 1..Len(q) /\ q2[n] = q[n + 1]
    BY <2>1, <2>2
  <2> QED BY <2>1, <2>2, <2>3
<1>2. PICK n \in 1..Len(q) :
        /\ Brings(q[n], c, i) /\ q[n].content[i] = value
        /\ \A k \in 1..Len(q) : k > n /\ Brings(q[k], c, i) => q[k].content[i] = value
  BY <1>1 DEF CurrentIn
<1>3. ASSUME NEW k \in 1..Len(q2), k + 1 >= n, Brings(q2[k], c, i) PROVE q2[k].content[i] = value
  <2>1. k + 1 \in 1..Len(q) /\ q2[k] = q[k + 1] /\ (k + 1 = n \/ k + 1 > n)
    BY <1>1, <1>3
  <2> QED BY <1>2, <1>3, <2>1
<1>4. CASE n > 1
  <2>1. n - 1 \in 1..Len(q2) /\ q2[n - 1] = q[n]
    BY <1>1, <1>4
  <2>2. \A k \in 1..Len(q2) : k > n - 1 => k + 1 >= n
    OBVIOUS
  <2> QED BY <1>2, <1>3, <2>1, <2>2 DEF CurrentIn
<1>5. CASE n = 1 /\ \A k \in 1..Len(q2) : ~Brings(q2[k], c, i)
  BY <1>2, <1>5 DEF CurrentIn
<1>6. CASE n = 1 /\ \E k \in 1..Len(q2) : Brings(q2[k], c, i)
  <2>1. PICK k \in 1..Len(q2) : Brings(q2[k], c, i)
    BY <1>6
  <2>2. \A j \in 1..Len(q2) : j + 1 >= n
    BY <1>6
  <2> QED BY <1>3, <2>1, <2>2 DEF CurrentIn
<1> QED BY <1>4, <1>5, <1>6

\* Nobody is told, then, either.
LEMMA SilentKept ==
    ASSUME NEW q, NEW q2, NEW d, NEW e, Moves(q, q2, d, e), NEW c, NEW i, Silent(q, c, i), Silent(e, c, i)
    PROVE  Silent(q2, c, i)
<1>1. ASSUME NEW n \in 1..Len(q2) PROVE ~Brings(q2[n], c, i)
  <2>1. \/ n + d \in 1..Len(q) /\ q2[n] = q[n + d]
        \/ n - (Len(q) - d) \in 1..Len(e) /\ q2[n] = e[n - (Len(q) - d)]
    BY MovesPlaces
  <2> QED BY <2>1 DEF Silent
<1> QED BY <1>1 DEF Silent

-----------------------------------------------------------------------------
(* A step that changes no item and no subscription, and takes or posts no    *)
(* message about them.                                                       *)

Kept == UNCHANGED <<cache, known, updaters>>

\* Such a step delivers as before.
LEMMA DeliveredKept ==
    ASSUME DataTyped, Delivered, DataTyped', NEW d, NEW e, Moves(dataQueue, dataQueue', d, e), Kept,
           \A c \in Observers : clientToDataItems'[c] \subseteq clientToDataItems[c],
           \A c, i : Silent(e, c, i),
           d = 1 => \A c, i : ~Brings(dataQueue[1], c, i)
    PROVE  Delivered'
<1>1. ASSUME NEW c \in Observers \ updaters', NEW i \in clientToDataItems'[c]
      PROVE  CurrentIn(dataQueue', c, i, cache'[i], known'[c][i])
  <2>1. c \in Observers \ updaters /\ i \in clientToDataItems[c]
    BY <1>1 DEF Kept
  <2>2. CurrentIn(dataQueue, c, i, cache[i], known[c][i])
    BY <2>1 DEF Delivered
  <2>3. CurrentIn(dataQueue', c, i, cache[i], known[c][i])
    BY <2>2, CurrentKept
  <2> QED BY <2>3 DEF Kept
<1>2. ASSUME NEW i \in Items, cache'[i] = NONE, NEW c \in Observers
      PROVE  known'[c][i] = NONE /\ Silent(dataQueue', c, i)
  <2>1. known[c][i] = NONE /\ Silent(dataQueue, c, i)
    BY <1>2 DEF Delivered, Unheard, Silent, Kept
  <2>2. Silent(dataQueue', c, i)
    BY <2>1, SilentKept
  <2> QED BY <2>1, <2>2 DEF Kept
<1> QED BY <1>1, <1>2 DEF Delivered, Unheard, Silent

\* A message that is no update is about no item.
LEMMA SilentOne ==
    ASSUME NEW m, m.op # "update"
    PROVE  \A c, i : Silent(<<m>>, c, i) /\ ~Brings(m, c, i)
<1>1. Len(<<m>>) = 1 /\ <<m>>[1] = m
  OBVIOUS
<1> QED BY <1>1 DEF Silent, Brings

\* Nothing is about no item.
LEMMA SilentNone == \A c, i : Silent(<<>>, c, i)
<1>1. Len(<<>>) = 0
  BY SqEmpty
<1> QED BY <1>1 DEF Silent

\* Nothing was delivered at the start, and nothing was due.
LEMMA DeliveredInit == XtraInit => Delivered
<1>1. SUFFICES ASSUME XtraInit PROVE Delivered
  OBVIOUS
<1>2. QueueTyped
  BY <1>1, TypesInit DEF StatusTypes
<1>3. ASSUME NEW n \in 1..Len(dataQueue) PROVE dataQueue[n].op = "subscribe"
  <2>1. dataQueue = [k \in DOMAIN Listening |->
                      [op |-> "subscribe", client |-> Listening[k].client,
                       items |-> Listening[k].items, request |-> Listening[k].request]]
    BY <1>1 DEF XtraInit, DataInit
  <2>2. n \in DOMAIN dataQueue
    BY <1>2, SqOf DEF QueueTyped
  <2>3. n \in DOMAIN Listening
    BY <2>1, <2>2
  <2> QED BY <2>1, <2>3
<1>4. \A c, i : \A n \in 1..Len(dataQueue) : ~Brings(dataQueue[n], c, i)
  BY <1>3 DEF Brings
<1>5. \A c \in Observers : clientToDataItems[c] = {} /\ \A i \in Items : known[c][i] = NONE
  BY <1>1 DEF XtraInit, DataInit
<1> QED BY <1>4, <1>5 DEF Delivered, Unheard

-----------------------------------------------------------------------------
(* Each step delivers.                                                       *)

\* A subscriber gets what is cached of the items: who is told nothing of them
\* knows that nothing is.
LEMMA DeliveredSent ==
    ASSUME StatusTypes, StatusTypes', Delivered, NEW x \in Observers, NEW items \in SUBSET Items,
           NEW op, op # "update", Message(op), dataQueue' = SentTo(Tail(dataQueue), x, items, cache),
           UNCHANGED <<cache, known>>, updaters \subseteq updaters',
           \A c \in Observers \ updaters' : clientToDataItems'[c]
             \subseteq clientToDataItems[c] \cup IF c = x THEN items ELSE {}
    PROVE  Delivered'
<1> DEFINE e == Extra(x, items)
<1>1. /\ Moves(dataQueue, dataQueue', 1, e)
      /\ Len(e) = IF CachedOf(items) = {} THEN 0 ELSE 1
      /\ CachedOf(items) # {} => e[1] = Update(x, items)
  BY HeadIs, SentIs DEF StatusTypes
<1>2. \A c, i : ~Brings(dataQueue[1], c, i)
  BY HeadIs DEF Brings, StatusTypes
<1> HIDE DEF e
<1>3. ASSUME NEW c, NEW i, NEW n \in 1..Len(e), Brings(e[n], c, i)
      PROVE  c = x /\ i \in CachedOf(items) /\ e[n].content[i] = cache[i]
  <2>1. CachedOf(items) # {} /\ n = 1
    BY <1>1, <1>3
  <2>2. e[n] = Update(x, items)
    BY <1>1, <2>1
  <2> QED BY <1>3, <2>2 DEF Brings, Update
<1>4. ASSUME NEW i \in CachedOf(items)
      PROVE  \E n \in 1..Len(e) : Brings(e[n], x, i)
  <2>1. Len(e) = 1 /\ e[1] = Update(x, items)
    BY <1>1, <1>4
  <2>2. Brings(e[1], x, i)
    BY <1>4, <2>1 DEF Brings, Update
  <2> QED BY <2>1, <2>2
<1>5. ASSUME NEW i \in Items, cache[i] = NONE, NEW c \in Observers
      PROVE  known[c][i] = NONE /\ Silent(dataQueue', c, i)
  <2>1. known[c][i] = NONE /\ Silent(dataQueue, c, i)
    BY <1>5 DEF Delivered, Unheard, Silent
  <2>2. Silent(e, c, i)
    BY <1>3, <1>5 DEF Silent, CachedOf
  <2> QED BY <1>1, <2>1, <2>2, SilentKept
<1>6. ASSUME NEW c \in Observers \ updaters', NEW i \in clientToDataItems'[c]
      PROVE  CurrentIn(dataQueue', c, i, cache[i], known[c][i])
  <2>0. i \in Items
    BY <1>6 DEF StatusTypes, DataTyped
  <2>1. CASE c = x /\ i \in CachedOf(items)
    <3>1. \E n \in 1..Len(e) : Brings(e[n], c, i)
      BY <1>4, <2>1
    <3>2. \A n \in 1..Len(e) : Brings(e[n], c, i) => e[n].content[i] = cache[i]
      BY <1>3
    <3> QED BY <1>1, <3>1, <3>2, CurrentPosted
  <2>2. CASE c = x /\ i \in items /\ i \notin CachedOf(items)
    <3>1. cache[i] = NONE
      BY <2>2 DEF CachedOf
    <3>2. known[c][i] = NONE /\ Silent(dataQueue', c, i)
      BY <1>5, <2>0, <3>1
    <3> QED BY <3>1, <3>2 DEF CurrentIn, Silent
  <2>3. CASE ~(c = x /\ i \in items)
    <3>1. i \in clientToDataItems[c] /\ c \in Observers \ updaters
      BY <1>6, <2>3
    <3>2. CurrentIn(dataQueue, c, i, cache[i], known[c][i])
      BY <3>1 DEF Delivered
    <3>3. Silent(e, c, i)
      BY <1>3, <2>3 DEF Silent, CachedOf
    <3> QED BY <1>1, <1>2, <3>2, <3>3, CurrentKept
  <2> QED BY <2>1, <2>2, <2>3
<1> QED BY <1>5, <1>6 DEF Delivered, Unheard, Silent

\* The subscribers of an item that has changed are told.
LEMMA DeliveredNotify ==
    ASSUME StatusTypes, StatusTypes', Delivered, Subscribed, HandleNotify
    PROVE  Delivered'
<1> DEFINE head == Head(dataQueue)
           item == head.item
           content == Recorded(item, head.content)
           told == {c \in Observers : content # cache[item] /\ Reaches(c, item)}
<1>1. Message("notify") /\ head \in ItemNews \cup NetworkNews
  BY HeadIs, MessageIs DEF HandleNotify, StatusTypes
<1>2. item \in Items /\ IF item = NETWORKINFO THEN head.content \in Reports ELSE head.content \in Values
  BY <1>1, DataAssumption DEF ItemNews, NetworkNews
<1>3. /\ cache' = [cache EXCEPT ![item] = content]
      /\ \E order \in SetToSeqs(told) :
           dataQueue' = Tail(dataQueue) \o News(order, item, content)
      /\ UNCHANGED <<maps, known, updaters>>
  BY DEF HandleNotify, News, dataGhosts
<1> HIDE DEF head
<1>4. content \in Contents /\ content # NONE
  BY <1>2, RecordedTyped DEF StatusTypes
<1>5. told \in SUBSET Observers /\ \A c : c \in told <=> c \in Observers /\ content # cache[item] /\ Reaches(c, item)
  OBVIOUS
<1> HIDE DEF item, content, told
<1>6. PICK order \in SetToSeqs(told) : dataQueue' = Tail(dataQueue) \o News(order, item, content)
  BY <1>3
<1> DEFINE e == News(order, item, content)
<1>7. /\ Moves(dataQueue, dataQueue', 1, e)
      /\ \A n \in 1..Len(e) :
           /\ e[n].op = "update" /\ e[n].client \in told
           /\ DOMAIN e[n].content = {item} /\ e[n].content[item] = content
      /\ \A c \in told : \E n \in 1..Len(e) : e[n].client = c
  BY <1>1, <1>2, <1>4, <1>5, <1>6, NewsIs, HeadIs DEF StatusTypes
<1> HIDE DEF e
<1>8. \A c, i : ~Brings(dataQueue[1], c, i)
  BY <1>1, HeadIs DEF Brings, StatusTypes
<1>9. \A i \in Items : cache'[i] = IF i = item THEN content ELSE cache[i]
  BY <1>2, <1>3 DEF StatusTypes, DataTyped, Knowledge
<1>10. \A c, i : i # item => Silent(e, c, i)
  BY <1>7 DEF Silent, Brings
<1>11. ASSUME NEW i \in Items, cache'[i] = NONE, NEW c \in Observers
       PROVE  known'[c][i] = NONE /\ Silent(dataQueue', c, i)
  <2>1. i # item /\ cache[i] = NONE
    BY <1>4, <1>9, <1>11
  <2>2. known[c][i] = NONE /\ Silent(dataQueue, c, i)
    BY <2>1 DEF Delivered, Unheard, Silent
  <2>3. Silent(dataQueue', c, i)
    BY <1>7, <1>10, <2>1, <2>2, SilentKept
  <2> QED BY <1>3, <2>2, <2>3
<1>12. ASSUME NEW c \in Observers \ updaters', NEW i \in clientToDataItems'[c]
       PROVE  CurrentIn(dataQueue', c, i, cache'[i], known'[c][i])
  <2>1. c \in Observers \ updaters /\ i \in clientToDataItems[c] /\ i \in Items
    BY <1>3, <1>12 DEF maps, StatusTypes, DataTyped
  <2>2. CurrentIn(dataQueue, c, i, cache[i], known[c][i])
    BY <2>1 DEF Delivered
  <2>3. CASE c \in told /\ i = item
    <3>1. \E n \in 1..Len(e) : Brings(e[n], c, i)
      BY <1>7, <2>3 DEF Brings
    <3>2. \A n \in 1..Len(e) : Brings(e[n], c, i) => e[n].content[i] = content
      BY <1>7, <2>3
    <3>3. CurrentIn(dataQueue', c, i, content, known[c][i])
      BY <1>7, <3>1, <3>2, CurrentPosted
    <3> QED BY <1>3, <1>9, <2>1, <2>3, <3>3
  <2>4. CASE ~(c \in told /\ i = item)
    <3>1. cache'[i] = cache[i]
      <4>1. CASE i # item
        BY <1>9, <2>1, <4>1
      <4>2. CASE i = item
        <5>1. c \in dataItemToClients[i]
          BY <2>1 DEF Subscribed, SubscriptionsAgree
        <5>2. Reaches(c, item) /\ c \notin told
          BY <2>1, <2>4, <4>2, <5>1 DEF Reaches
        <5>3. content = cache[item]
          BY <1>5, <2>1, <5>2
        <5> QED BY <1>9, <2>1, <4>2, <5>3
      <4> QED BY <4>1, <4>2
    <3>2. Silent(e, c, i)
      BY <1>7, <2>4 DEF Silent, Brings
    <3>3. CurrentIn(dataQueue', c, i, cache[i], known[c][i])
      BY <1>7, <1>8, <2>2, <3>2, CurrentKept
    <3> QED BY <1>3, <3>1, <3>3
  <2> QED BY <2>3, <2>4
<1> QED BY <1>11, <1>12 DEF Delivered, Unheard, Silent

\* What is taken is known.
LEMMA DeliveredUpdate ==
    ASSUME StatusTypes, StatusTypes', Delivered, HandleUpdate
    PROVE  Delivered'
<1> DEFINE head == Head(dataQueue)
<1>1. /\ Message("update") /\ dataQueue' = Tail(dataQueue)
      /\ \A i \in DOMAIN head.content : head.content[i] \in Contents
      /\ \A c \in Observers, i \in Items :
           known'[c][i] = IF Brings(head, c, i) THEN head.content[i] ELSE known[c][i]
  BY UpdateIs
<1>2. UNCHANGED <<maps, cache, updaters>>
  BY DEF HandleUpdate, dataGhosts
<1>3. Moves(dataQueue, dataQueue', 1, <<>>) /\ head = dataQueue[1] /\ 1 \in 1..Len(dataQueue)
  BY <1>1, QueueTaken, HeadIs DEF StatusTypes
<1> HIDE DEF head
<1>4. ASSUME NEW c \in Observers \ updaters', NEW i \in clientToDataItems'[c]
      PROVE  CurrentIn(dataQueue', c, i, cache'[i], known'[c][i])
  <2>1. c \in Observers \ updaters /\ i \in clientToDataItems[c] /\ i \in Items
    BY <1>2, <1>4 DEF maps, StatusTypes, DataTyped
  <2>2. CurrentIn(dataQueue, c, i, cache[i], known[c][i])
    BY <2>1 DEF Delivered
  <2>3. CASE Brings(head, c, i)
    <3>1. CurrentIn(dataQueue', c, i, cache[i], dataQueue[1].content[i])
      BY <1>3, <2>2, <2>3, CurrentTaken
    <3> QED BY <1>1, <1>2, <1>3, <2>1, <2>3, <3>1
  <2>4. CASE ~Brings(head, c, i)
    <3>1. CurrentIn(dataQueue', c, i, cache[i], known[c][i])
      BY <1>3, <2>2, <2>4, CurrentKept, SilentNone
    <3> QED BY <1>1, <1>2, <2>1, <2>4, <3>1
  <2> QED BY <2>3, <2>4
<1>5. ASSUME NEW i \in Items, cache'[i] = NONE, NEW c \in Observers
      PROVE  known'[c][i] = NONE /\ Silent(dataQueue', c, i)
  <2>1. known[c][i] = NONE /\ Silent(dataQueue, c, i)
    BY <1>2, <1>5 DEF Delivered, Unheard, Silent
  <2>2. Silent(dataQueue', c, i)
    BY <1>3, <2>1, SilentKept, SilentNone
  <2>3. ~Brings(head, c, i)
    BY <1>3, <2>1 DEF Silent
  <2> QED BY <1>1, <2>1, <2>2, <2>3
<1> QED BY <1>4, <1>5 DEF Delivered, Unheard, Silent

\* Each step keeps what is delivered, or to be.
LEMMA DeliveredNext ==
    ASSUME StatusTypes, Subscribed, Delivered, [XtraNext]_<<dataVars, xtraVars>>
    PROVE  Delivered'
<1> DEFINE head == Head(dataQueue)
<1>0. StatusTypes' /\ DataTyped /\ DataTyped' /\ QueueTyped /\ Sq(dataQueue)
  BY TypesNext DEF StatusTypes, QueueTyped
<1>1. ASSUME UNCHANGED <<maps, cache, known, updaters>>, NEW m, m.op # "update",
             dataQueue' = Append(dataQueue, m)
      PROVE  Delivered'
  <2>1. Moves(dataQueue, dataQueue', 0, <<m>>)
    BY <1>0, <1>1, MovesPost
  <2>2. \A c, i : Silent(<<m>>, c, i)
    BY <1>1, SilentOne
  <2> QED BY <1>0, <1>1, <2>1, <2>2, DeliveredKept DEF Kept, maps
<1>2. ASSUME UNCHANGED <<cache, known, updaters>>, NEW op, op # "update", Message(op),
             dataQueue' = Tail(dataQueue),
             \A c \in Observers : clientToDataItems'[c] \subseteq clientToDataItems[c]
      PROVE  Delivered'
  <2>1. Moves(dataQueue, dataQueue', 1, <<>>)
    BY <1>0, <1>2, QueueTaken
  <2>2. \A c, i : ~Brings(dataQueue[1], c, i)
    BY <1>0, <1>2, HeadIs DEF Brings
  <2> QED BY <1>0, <1>2, <2>1, <2>2, SilentNone, DeliveredKept DEF Kept
<1>3. ASSUME UNCHANGED <<dataQueue, maps, cache, known, updaters>> PROVE Delivered'
  <2>1. Moves(dataQueue, dataQueue', 0, <<>>)
    BY <1>0, <1>3, MovesStill
  <2> QED BY <1>0, <1>3, <2>1, SilentNone, DeliveredKept DEF Kept, maps
<1>4. CASE UNCHANGED <<dataVars, xtraVars>>
  BY <1>3, <1>4 DEF dataVars, dataGhosts
<1>5. CASE Calling
  <2>1. UNCHANGED Others /\ \E m \in TaskMessages : Mute(m) /\ dataQueue' = Append(dataQueue, m)
    BY <1>5, CallingIs
  <2> QED BY <1>1, <2>1 DEF Others, Mute
<1>6. CASE HandleSubscribeReq
  <2>1. Message("subscribe") /\ head \in Subscriptions
    BY <1>0, <1>6, HeadIs, MessageIs DEF HandleSubscribeReq
  <2>2. head.client \in Observers /\ head.items \in SUBSET Items
    BY <2>1 DEF Subscriptions
  <2>3. /\ clientToDataItems' = [clientToDataItems EXCEPT ![head.client] = @ \cup head.items]
        /\ dataQueue' = SentTo(Tail(dataQueue), head.client, head.items, cache)
        /\ UNCHANGED <<cache, known, updaters>>
    BY <1>6 DEF HandleSubscribeReq
  <2> HIDE DEF head
  <2>4. \A c \in Observers \ updaters' : clientToDataItems'[c]
          \subseteq clientToDataItems[c] \cup IF c = head.client THEN head.items ELSE {}
    BY <1>0, <2>2, <2>3 DEF DataTyped
  <2> QED BY <1>0, <2>1, <2>2, <2>3, <2>4, DeliveredSent
<1>7. CASE HandleUnsubscribeReq
  <2>1. /\ Message("unsubscribe") /\ dataQueue' = Tail(dataQueue)
        /\ clientToDataItems' = [clientToDataItems EXCEPT ![head.client] = @ \ head.items]
        /\ UNCHANGED <<cache, known, updaters>>
    BY <1>7 DEF HandleUnsubscribeReq, dataGhosts
  <2>2. \A c \in Observers : clientToDataItems'[c] \subseteq clientToDataItems[c]
    BY <1>0, <2>1 DEF DataTyped
  <2> QED BY <1>2, <2>1, <2>2
<1>8. CASE HandleUnsubscribeAllReq
  <2>1. /\ Message("unsubscribeAll") /\ dataQueue' = Tail(dataQueue)
        /\ clientToDataItems' = [clientToDataItems EXCEPT ![head.client] = {}]
        /\ UNCHANGED <<cache, known, updaters>>
    BY <1>8 DEF HandleUnsubscribeAllReq, dataGhosts
  <2>2. \A c \in Observers : clientToDataItems'[c] \subseteq clientToDataItems[c]
    BY <1>0, <2>1 DEF DataTyped
  <2> QED BY <1>2, <2>1, <2>2
<1>9. CASE HandleUpdateSubscriptionReq
  <2>1. Message("updateSubscription") /\ head \in Changes
    BY <1>0, <1>9, HeadIs, MessageIs DEF HandleUpdateSubscriptionReq
  <2> DEFINE added == head.items \ (clientToDataItems[head.client] \cap head.items)
  <2>2. head.client \in Observers /\ head.items \in SUBSET Items
    BY <2>1 DEF Changes
  <2>3. /\ clientToDataItems' = [clientToDataItems EXCEPT ![head.client] = head.items]
        /\ dataQueue' = SentTo(Tail(dataQueue), head.client, added, cache)
        /\ updaters' = updaters \cup {head.client}
        /\ UNCHANGED <<cache, known>>
    BY <1>9 DEF HandleUpdateSubscriptionReq
  <2> HIDE DEF head
  <2>4. added \in SUBSET Items
    BY <2>2
  <2> HIDE DEF added
  <2>5. \A c \in Observers \ updaters' : clientToDataItems'[c]
          \subseteq clientToDataItems[c] \cup IF c = head.client THEN added ELSE {}
    BY <1>0, <2>2, <2>3 DEF DataTyped
  <2>6. updaters \subseteq updaters'
    BY <2>3
  <2> QED BY <1>0, <2>1, <2>2, <2>3, <2>4, <2>5, <2>6, DeliveredSent
<1>10. CASE SetSubsObj
  BY <1>2, <1>10 DEF SetSubsObj, dataGhosts, maps
<1>11. CASE HandleNotify
  BY <1>0, <1>11, DeliveredNotify
<1>12. CASE HandleOsObserverUpdateMsg
  <2>1. HandleUpdate
    BY <1>12 DEF HandleOsObserverUpdateMsg
  <2> QED BY <1>0, <2>1, DeliveredUpdate
<1>13. CASE HandleStatusRequestMsg
  BY <1>2, <1>13 DEF HandleStatusRequestMsg, dataGhosts, maps
<1>14. ASSUME NEW updated, AskStatus(updated), UNCHANGED <<maps, cache, known, updaters>> PROVE Delivered'
  <2> DEFINE m == [op |-> "requestStatus", updated |-> updated]
  <2>1. m.op # "update" /\ dataQueue' = Append(dataQueue, m)
    BY <1>14 DEF AskStatus, Post
  <2> HIDE DEF m
  <2> QED BY <1>1, <1>14, <2>1
<1>15. CASE DaemonStarts
  BY <1>14, <1>15 DEF DaemonStarts, dataGhosts
<1>16. CASE DaemonDies
  BY <1>3, <1>16 DEF DaemonDies, dataGhosts
<1>17. CASE DelayExpires
  <2>1. /\ IF daemon.up THEN AskStatus(daemon.lock # NONE) ELSE UNCHANGED dataQueue
        /\ UNCHANGED <<maps, cache, known, updaters>>
    BY <1>17 DEF DelayExpires, dataGhosts
  <2> QED BY <1>3, <1>14, <2>1
<1>18. CASE updateLockStatus
  BY <1>3, <1>18 DEF updateLockStatus, dataGhosts
<1>19. CASE Corrections
  BY <1>3, <1>19, CorrectionsTyped DEF DataLeft, dataGhosts
<1> QED BY <1>4, <1>5, <1>6, <1>7, <1>8, <1>9, <1>10, <1>11, <1>12, <1>13, <1>15, <1>16, <1>17,
           <1>18, <1>19 DEF XtraNext, Handling

-----------------------------------------------------------------------------
(* What the daemon was told.                                                 *)

\* A message that is in the queue stays there until it is the first.
LEMMA StaysIn ==
    ASSUME NEW d, NEW e, Moves(dataQueue, dataQueue', d, e), d = 1 => ~Asks(dataQueue[1]), RequestWaits
    PROVE  RequestWaits'
<1>1. PICK n \in 1..Len(dataQueue) : Asks(dataQueue[n])
  BY DEF RequestWaits
<1>2. d \in {0, 1} /\ (n > d => n - d \in 1..Len(dataQueue') /\ dataQueue'[n - d] = dataQueue[n])
      /\ Len(dataQueue) \in Nat
  BY MovesPlaces
<1>3. n > d
  BY <1>1, <1>2
<1> QED BY <1>1, <1>2, <1>3 DEF RequestWaits, Asks

\* No reminder is in the queue unless one was posted.
LEMMA NoReminderWaits ==
    ASSUME NEW d, NEW e, Moves(dataQueue, dataQueue', d, e), ~ReminderWaits,
           \A n \in 1..Len(e) : ~Reminds(e[n])
    PROVE  ~ReminderWaits'
<1>1. ASSUME NEW n \in 1..Len(dataQueue') PROVE ~Reminds(dataQueue'[n])
  <2>1. \/ n + d \in 1..Len(dataQueue) /\ dataQueue'[n] = dataQueue[n + d]
        \/ n - (Len(dataQueue) - d) \in 1..Len(e) /\ dataQueue'[n] = e[n - (Len(dataQueue) - d)]
    BY MovesPlaces
  <2> QED BY <2>1 DEF ReminderWaits
<1> QED BY <1>1 DEF ReminderWaits, Reminds

\* A request that was posted is in the queue.
LEMMA RequestPosted ==
    ASSUME NEW m, Asks(m), Sq(dataQueue), dataQueue' = Append(dataQueue, m)
    PROVE  RequestWaits'
<1>1. Len(dataQueue') = Len(dataQueue) + 1 /\ dataQueue'[Len(dataQueue) + 1] = m /\ Len(dataQueue) \in Nat
  BY SqAppend, SqOf
<1>2. Len(dataQueue) + 1 \in 1..Len(dataQueue')
  BY <1>1
<1> QED BY <1>1, <1>2 DEF RequestWaits, Asks

DaemonLeft == UNCHANGED <<daemon, mReqStatusReceived, halinit, mNtripParamsString, mDgnssState,
                          ntripParams, sessions, superseded>>

\* A step that takes and posts no request, and tells the observer and the daemon
\* nothing.
LEMMA HeardKept ==
    ASSUME StatusTypes, Heard, NEW d, NEW e, Moves(dataQueue, dataQueue', d, e),
           \A n \in 1..Len(e) : e[n].op # "requestStatus",
           d = 1 => dataQueue[1].op # "requestStatus",
           UNCHANGED <<daemon, mReqStatusReceived, halinit, mGpsLock, known>>
    PROVE  Heard' /\ (RequestWaits => RequestWaits')
<1>1. RequestWaits => RequestWaits'
  BY StaysIn DEF Asks
<1>2. ~ReminderWaits => ~ReminderWaits'
  BY NoReminderWaits DEF Reminds
<1> QED BY <1>1, <1>2 DEF Heard, Informed

\* At the start nobody was told anything.
LEMMA HeardInit == XtraInit => Heard /\ Sourced
<1>1. SUFFICES ASSUME XtraInit PROVE Heard /\ Sourced
  OBVIOUS
<1>2. QueueTyped
  BY <1>1, TypesInit DEF StatusTypes
<1>3. ASSUME NEW n \in 1..Len(dataQueue) PROVE dataQueue[n].op = "subscribe"
  <2>1. dataQueue = [k \in DOMAIN Listening |->
                      [op |-> "subscribe", client |-> Listening[k].client,
                       items |-> Listening[k].items, request |-> Listening[k].request]]
    BY <1>1 DEF XtraInit, DataInit
  <2>2. n \in DOMAIN dataQueue
    BY <1>2, SqOf DEF QueueTyped
  <2>3. n \in DOMAIN Listening
    BY <2>1, <2>2
  <2> QED BY <2>1, <2>3
<1>4. ~ReminderWaits
  BY <1>3 DEF ReminderWaits, Reminds
<1>5. daemon.lock = NONE /\ daemon.source = NONE
  BY <1>1 DEF XtraInit, Daemon, Ignorant
<1> QED BY <1>1, <1>4, <1>5 DEF XtraInit, Heard, Sourced, SourceStarted

\* A step of the data items.
LEMMA DataHeard ==
    ASSUME StatusTypes, Heard, (Calling \/ Handling) /\ UNCHANGED xtraVars
    PROVE  Heard' /\ (RequestWaits => RequestWaits')
<1>1. UNCHANGED <<daemon, mReqStatusReceived, halinit, mGpsLock>>
  BY DEF xtraVars
<1>2. CASE Calling
  <2>1. UNCHANGED Others
    BY <1>2, CallingIs
  <2>2. PICK m \in TaskMessages : Mute(m) /\ dataQueue' = Append(dataQueue, m)
    BY <1>2, CallingIs
  <2>3. Moves(dataQueue, dataQueue', 0, <<m>>)
    BY <2>2, MovesPost DEF StatusTypes, QueueTyped
  <2>4. \A n \in 1..Len(<<m>>) : <<m>>[n].op # "requestStatus"
    <3>1. Len(<<m>>) = 1 /\ <<m>>[1] = m
      OBVIOUS
    <3> QED BY <2>2, <3>1 DEF Mute
  <2> QED BY <1>1, <2>1, <2>3, <2>4, HeardKept DEF Others
<1>3. CASE Handling
  <2>1. PICK op : op \notin {"update", "requestStatus"} /\ TakesFirst(op)
    BY <1>3, HandlingIs
  <2>2. PICK e : Moves(dataQueue, dataQueue', 1, e) /\ AllIn(e, Updates)
    BY <2>1 DEF TakesFirst
  <2>3. \A n \in 1..Len(e) : e[n].op # "requestStatus"
    BY <2>2 DEF AllIn, Updates
  <2>4. dataQueue[1].op # "requestStatus" /\ UNCHANGED known
    BY <2>1, HeadIs DEF StatusTypes, TakesFirst
  <2> QED BY <1>1, <2>2, <2>3, <2>4, HeardKept
<1> QED BY <1>2, <1>3

\* Which source is started, and which the daemon has, after a handler of the
\* corrections that starts one or stops it.
LEMMA CheckSourced ==
    ASSUME StatusTypes, StatusTypes', Sourced, NEW flags \in SUBSET Flags, NEW inSession \in BOOLEAN,
           checkUpdateDgnssNtrip(flags, ntripParams', inSession),
           UNCHANGED dataQueue, inSession => sessions' > 0,
           "ENABLE_NTRIP_COMMAND" \in flags => ntripParams' # NONE,
           "NTRIP_SESSION_STARTED" \in flags =>
             SourceStarted /\ ntripParams' = ntripParams /\ sessions' > 0
               /\ "ENABLE_NTRIP_COMMAND" \in flags,
           SourceStarted /\ "NTRIP_SESSION_STARTED" \notin flags =>
             inSession /\ flags = {"ENABLE_NTRIP_COMMAND", "NO_NMEA_PENDING"}
    PROVE  Sourced'
<1>1. RequestWaits => RequestWaits'
  BY DEF RequestWaits, Asks
<1>2. daemon \in [up : BOOLEAN, lock : Locks \cup {NONE}, items : Knowledge, source : Sources]
  BY DEF StatusTypes, DaemonTyped
<1>3. CASE inSession /\ flags = {"ENABLE_NTRIP_COMMAND", "NO_NMEA_PENDING"}
  <2>1. /\ mDgnssState' = flags \cup {"NTRIP_SESSION_STARTED"} /\ mNtripParamsString' = ntripParams'
        /\ daemon' = Sent([daemon EXCEPT !.source = ntripParams']) /\ superseded' = FALSE
    BY <1>3 DEF checkUpdateDgnssNtrip
  <2>2. daemon'.up => daemon'.source = ntripParams'
    BY <1>2, <2>1 DEF Sent
  <2>3. sessions' > 0 /\ ntripParams' # NONE
    BY <1>3
  <2> QED BY <1>3, <2>1, <2>2, <2>3 DEF Sourced, SourceStarted
<1>4. CASE ~(inSession /\ flags = {"ENABLE_NTRIP_COMMAND", "NO_NMEA_PENDING"})
  <2>1. mDgnssState' = flags /\ UNCHANGED <<mNtripParamsString, daemon, superseded>>
    BY <1>4 DEF checkUpdateDgnssNtrip
  <2>2. "NTRIP_SESSION_STARTED" \notin flags => ~SourceStarted
    BY <1>4 DEF Flags
  <2> QED BY <1>1, <2>1, <2>2 DEF Sourced, SourceStarted
<1> QED BY <1>3, <1>4

\* The same after a handler that stops it.
LEMMA StopSourced ==
    ASSUME StatusTypes, StatusTypes', Sourced, NEW flags \in SUBSET Flags,
           stopDgnssNtrip(flags), UNCHANGED dataQueue,
           "NTRIP_SESSION_STARTED" \in flags <=> SourceStarted,
           "ENABLE_NTRIP_COMMAND" \in flags => ntripParams' # NONE
    PROVE  Sourced'
<1>1. RequestWaits => RequestWaits'
  BY DEF RequestWaits, Asks
<1>2. daemon \in [up : BOOLEAN, lock : Locks \cup {NONE}, items : Knowledge, source : Sources]
  BY DEF StatusTypes, DaemonTyped
<1>3. mDgnssState' = flags \ {"NTRIP_SESSION_STARTED"}
  BY DEF stopDgnssNtrip
<1>4. CASE SourceStarted
  <2>1. /\ mNtripParamsString' = NONE /\ daemon' = Sent([daemon EXCEPT !.source = NONE])
        /\ superseded' = FALSE
    BY <1>4 DEF stopDgnssNtrip
  <2>2. daemon'.up => daemon'.source = NONE
    BY <1>2, <2>1 DEF Sent
  <2> QED BY <1>3, <2>1, <2>2 DEF Sourced, SourceStarted
<1>5. CASE ~SourceStarted
  <2>1. UNCHANGED <<mNtripParamsString, daemon, superseded>>
    BY <1>5 DEF stopDgnssNtrip
  <2> QED BY <1>1, <1>3, <1>5, <2>1 DEF Sourced, SourceStarted
<1> QED BY <1>4, <1>5

\* The corrections touch the daemon's source alone.
LEMMA CorrectionsHeard ==
    ASSUME StatusTypes, Heard, Corrections
    PROVE  Heard'
<1>1. /\ UNCHANGED DataLeft /\ UNCHANGED <<mGpsLock, mReqStatusReceived, halinit>>
      /\ daemon \in [up : BOOLEAN, lock : Locks \cup {NONE}, items : Knowledge, source : Sources]
  BY CorrectionsTyped DEF StatusTypes, DaemonTyped
<1>2. \A flags, params, inSession : checkUpdateDgnssNtrip(flags, params, inSession)
        => daemon' \in {daemon, [daemon EXCEPT !.source = params]}
  BY DEF checkUpdateDgnssNtrip, Sent
<1>3. \A flags : stopDgnssNtrip(flags) => daemon' \in {daemon, [daemon EXCEPT !.source = NONE]}
  BY DEF stopDgnssNtrip, Sent
<1>4. daemon' = daemon \/ \E s : daemon' = [daemon EXCEPT !.source = s]
  <2>1. CASE handleEnablePPENtrip
    BY <1>2, <2>1 DEF handleEnablePPENtrip
  <2>2. CASE handleDisablePPENtrip
    BY <1>3, <2>2 DEF handleDisablePPENtrip
  <2>3. CASE saveTrackingSession
    BY <1>2, <2>3 DEF saveTrackingSession
  <2>4. CASE eraseTrackingSession
    BY <1>3, <2>4 DEF eraseTrackingSession
  <2>5. CASE reportGGAToNtrip
    BY <1>2, <2>5 DEF reportGGAToNtrip
  <2>6. CASE updateNTRIPGGAConsentCommand
    BY <2>6 DEF updateNTRIPGGAConsentCommand
  <2> QED BY <2>1, <2>2, <2>3, <2>4, <2>5, <2>6 DEF Corrections
<1>5. daemon'.up = daemon.up /\ daemon'.lock = daemon.lock /\ daemon'.items = daemon.items
  BY <1>1, <1>4
<1>6. UNCHANGED <<dataQueue, known>>
  BY <1>1 DEF DataLeft
<1>7. (RequestWaits <=> RequestWaits') /\ (ReminderWaits <=> ReminderWaits')
  BY <1>6 DEF RequestWaits, ReminderWaits, Asks, Reminds
<1> QED BY <1>1, <1>5, <1>6, <1>7 DEF Heard, Informed

-----------------------------------------------------------------------------
(* Every step of the adapter and of the daemon.                              *)

\* Each handler of the corrections keeps the source's account.
LEMMA CorrectionsSourced ==
    ASSUME StatusTypes, Sourced, Corrections
    PROVE  Sourced'
<1>1. UNCHANGED DataLeft /\ DaemonTyped' /\ SourceTyped'
  BY CorrectionsTyped
<1>2. UNCHANGED dataQueue
  BY <1>1 DEF DataLeft
<1>3. StatusTypes'
  <2>1. UNCHANGED <<dataVars, xtraVars>> \/ XtraNext
    BY DEF XtraNext
  <2> QED BY <2>1, TypesNext
<1>4. /\ mDgnssState \in SUBSET Flags /\ sessions \in Nat /\ superseded \in BOOLEAN
      /\ RequestWaits => RequestWaits'
  BY <1>2 DEF StatusTypes, SourceTyped, RequestWaits, Asks
<1>5. CASE handleEnablePPENtrip
  <2> DEFINE flags == (mDgnssState \cup {"ENABLE_NTRIP_COMMAND", "NO_NMEA_PENDING"})
                        \ {"NTRIP_SESSION_STARTED"}
  <2>1. PICK params \in Streams :
          /\ IF SameParams(params)
             THEN UNCHANGED <<ntripParams, mDgnssState, mNtripParamsString, daemon, superseded>>
             ELSE /\ ntripParams' = params
                  /\ IF isDgnssNmeaRequired(params)
                     THEN /\ mDgnssState' = flags \ {"NO_NMEA_PENDING"}
                          /\ superseded' = (superseded \/ "NTRIP_SESSION_STARTED" \in mDgnssState)
                          /\ UNCHANGED <<mNtripParamsString, daemon>>
                     ELSE checkUpdateDgnssNtrip(flags, params, sessions > 0)
          /\ UNCHANGED <<mSendNmeaConsent, sessions>>
    BY <1>5 DEF handleEnablePPENtrip
  <2>2. params # NONE /\ flags \in SUBSET Flags
    BY <1>4, XtraAssumption DEF Flags
  <2>3. CASE SameParams(params)
    BY <1>4, <2>1, <2>3 DEF Sourced, SourceStarted
  <2>4. CASE ~SameParams(params) /\ isDgnssNmeaRequired(params)
    <3>1. /\ ntripParams' = params /\ mDgnssState' = flags \ {"NO_NMEA_PENDING"}
          /\ superseded' = (superseded \/ SourceStarted)
          /\ UNCHANGED <<mNtripParamsString, daemon>>
      BY <2>1, <2>4 DEF SourceStarted
    <3>2. ~SourceStarted'
      BY <3>1 DEF SourceStarted
    <3>3. ~superseded' => mNtripParamsString' = NONE
      BY <3>1 DEF Sourced
    <3> QED BY <1>4, <2>2, <3>1, <3>2, <3>3 DEF Sourced, SourceStarted
  <2>5. CASE ~SameParams(params) /\ ~isDgnssNmeaRequired(params)
    <3>1. ntripParams' = params /\ checkUpdateDgnssNtrip(flags, ntripParams', sessions > 0)
          /\ sessions' = sessions
      BY <2>1, <2>5
    <3>2. "NTRIP_SESSION_STARTED" \notin flags /\ flags = {"ENABLE_NTRIP_COMMAND", "NO_NMEA_PENDING"}
      BY <2>2 DEF Flags
    <3>3. SourceStarted => sessions > 0
      BY DEF Sourced
    <3> DEFINE inSession == sessions > 0
    <3>4. inSession \in BOOLEAN /\ (inSession => sessions' > 0) /\ (SourceStarted => inSession)
      BY <3>1, <3>3
    <3>5. checkUpdateDgnssNtrip(flags, ntripParams', inSession)
      BY <3>1
    <3> HIDE DEF inSession
    <3> QED BY <1>2, <1>3, <2>2, <3>1, <3>2, <3>4, <3>5, CheckSourced
  <2> QED BY <2>3, <2>4, <2>5
<1>6. CASE handleDisablePPENtrip
  <2> DEFINE flags == (mDgnssState \ {"ENABLE_NTRIP_COMMAND"}) \cup {"NO_NMEA_PENDING"}
  <2>1. flags \in SUBSET Flags /\ stopDgnssNtrip(flags)
    BY <1>4, <1>6 DEF handleDisablePPENtrip, Flags
  <2>2. ("NTRIP_SESSION_STARTED" \in flags <=> SourceStarted) /\ "ENABLE_NTRIP_COMMAND" \notin flags
    BY DEF SourceStarted
  <2> HIDE DEF flags
  <2> QED BY <1>2, <1>3, <2>1, <2>2, StopSourced
<1>7. CASE saveTrackingSession
  <2>1. /\ sessions' = sessions + 1 /\ checkUpdateDgnssNtrip(mDgnssState, ntripParams', TRUE)
        /\ ntripParams' = ntripParams
    BY <1>7 DEF saveTrackingSession
  <2>2. sessions' > 0 /\ ("ENABLE_NTRIP_COMMAND" \in mDgnssState => ntripParams' # NONE)
    BY <1>4, <2>1 DEF Sourced
  <2>3. "NTRIP_SESSION_STARTED" \in mDgnssState <=> SourceStarted
    BY DEF SourceStarted
  <2>4. SourceStarted => "ENABLE_NTRIP_COMMAND" \in mDgnssState
    BY DEF Sourced
  <2> QED BY <1>2, <1>3, <1>4, <2>1, <2>2, <2>3, <2>4, CheckSourced
<1>8. CASE eraseTrackingSession
  <2> DEFINE flags == mDgnssState \ IF isDgnssNmeaRequired(ntripParams) THEN {"NO_NMEA_PENDING"} ELSE {}
  <2>1. flags \in SUBSET Flags /\ stopDgnssNtrip(flags) /\ ntripParams' = ntripParams
    BY <1>4, <1>8 DEF eraseTrackingSession
  <2>2. ("NTRIP_SESSION_STARTED" \in flags <=> SourceStarted)
        /\ ("ENABLE_NTRIP_COMMAND" \in flags => ntripParams # NONE)
    BY DEF SourceStarted, Sourced
  <2> HIDE DEF flags
  <2> QED BY <1>2, <1>3, <2>1, <2>2, StopSourced
<1>9. CASE reportGGAToNtrip
  <2> DEFINE flags == mDgnssState \cup {"NO_NMEA_PENDING"}
             inSession == sessions > 0
  <2>1. /\ checkUpdateDgnssNtrip(flags, ntripParams', inSession) /\ flags \in SUBSET Flags
        /\ ntripParams' = ntripParams /\ sessions' = sessions
    BY <1>4, <1>9 DEF reportGGAToNtrip, Flags
  <2>2. inSession \in BOOLEAN /\ (inSession => sessions' > 0)
    BY <2>1
  <2>3. /\ "NTRIP_SESSION_STARTED" \in flags <=> SourceStarted
        /\ "ENABLE_NTRIP_COMMAND" \in flags => ntripParams' # NONE
        /\ SourceStarted => sessions' > 0 /\ "ENABLE_NTRIP_COMMAND" \in flags
    BY <2>1 DEF Sourced, SourceStarted
  <2> HIDE DEF flags, inSession
  <2> QED BY <1>2, <1>3, <2>1, <2>2, <2>3, CheckSourced
<1>10. CASE updateNTRIPGGAConsentCommand
  <2>1. UNCHANGED <<ntripParams, sessions, mDgnssState, mNtripParamsString, daemon, superseded>>
    BY <1>10 DEF updateNTRIPGGAConsentCommand
  <2> QED BY <1>4, <2>1 DEF Sourced, SourceStarted
<1> QED BY <1>5, <1>6, <1>7, <1>8, <1>9, <1>10 DEF Corrections

\* The daemon is told, or has asked, or was not there.
LEMMA DaemonNext ==
    ASSUME StatusTypes, Heard, Sourced, [XtraNext]_<<dataVars, xtraVars>>
    PROVE  Heard' /\ Sourced'
<1>0. /\ QueueTyped /\ Sq(dataQueue) /\ XTRA \in Observers
      /\ daemon \in [up : BOOLEAN, lock : Locks \cup {NONE}, items : Knowledge, source : Sources]
  BY XtraAssumption DEF StatusTypes, QueueTyped, DaemonTyped
<1>1. ASSUME Heard', RequestWaits => RequestWaits', UNCHANGED <<daemon, dgnssVars>> PROVE Sourced'
  BY <1>1 DEF Sourced, SourceStarted, dgnssVars
<1>2. CASE UNCHANGED <<dataVars, xtraVars>>
  <2>1. UNCHANGED <<dataQueue, known>> /\ UNCHANGED xtraVars
    BY <1>2 DEF dataVars
  <2>2. (RequestWaits <=> RequestWaits') /\ (ReminderWaits <=> ReminderWaits')
    BY <2>1 DEF RequestWaits, ReminderWaits, Asks, Reminds
  <2>3. Heard'
    BY <2>1, <2>2 DEF Heard, Informed, xtraVars
  <2> QED BY <1>1, <2>1, <2>2, <2>3 DEF xtraVars
<1>3. CASE (Calling \/ Handling) /\ UNCHANGED xtraVars
  BY <1>1, <1>3, DataHeard DEF xtraVars
<1>4. CASE HandleOsObserverUpdateMsg
  <2> DEFINE head == Head(dataQueue)
             items == [i \in Items |-> IF i \in DOMAIN head.content THEN known'[XTRA][i]
                                       ELSE daemon.items[i]]
  <2>1. /\ HandleUpdate
        /\ daemon' = IF mReqStatusReceived /\ head.client = XTRA
                     THEN Sent([daemon EXCEPT !.items = items]) ELSE daemon
        /\ UNCHANGED <<mGpsLock, mReqStatusReceived, halinit, dgnssVars>>
    BY <1>4 DEF HandleOsObserverUpdateMsg
  <2>2. /\ Message("update") /\ dataQueue' = Tail(dataQueue) /\ known' \in [Observers -> Knowledge]
        /\ head.op = "update"
        /\ \A c \in Observers, i \in Items :
             known'[c][i] = IF Brings(head, c, i) THEN head.content[i] ELSE known[c][i]
    BY <2>1, UpdateIs
  <2>3. Moves(dataQueue, dataQueue', 1, <<>>) /\ dataQueue[1] = head
    BY <1>0, <2>2, QueueTaken, HeadIs
  <2>4. \A n \in 1..Len(<<>>) : ~Reminds(<<>>[n])
    BY SqEmpty
  <2>5. (RequestWaits => RequestWaits') /\ (~ReminderWaits => ~ReminderWaits')
    BY <2>2, <2>3, <2>4, StaysIn, NoReminderWaits DEF Asks
  <2> HIDE DEF head
  <2>6. daemon'.up = daemon.up /\ daemon'.lock = daemon.lock /\ daemon'.source = daemon.source
    BY <1>0, <2>1 DEF Sent
  <2>7. ASSUME daemon.up, Informed PROVE Informed'
    <3>1. daemon.items = known[XTRA] /\ mReqStatusReceived /\ known[XTRA] \in Knowledge /\ known'[XTRA] \in Knowledge
      BY <1>0, <2>2, <2>7 DEF Informed, StatusTypes, DataTyped
    <3>2. CASE head.client = XTRA
      <4>1. daemon'.items = items
        BY <1>0, <2>1, <2>7, <3>1, <3>2 DEF Sent
      <4>2. \A i \in Items : items[i] = known'[XTRA][i]
        BY <1>0, <2>2, <3>1, <3>2 DEF Brings
      <4>3. items = known'[XTRA]
        BY <3>1, <4>2 DEF Knowledge
      <4> QED BY <2>1, <2>6, <2>7, <4>1, <4>3 DEF Informed
    <3>3. CASE head.client # XTRA
      <4>1. \A i \in Items : known'[XTRA][i] = known[XTRA][i]
        BY <1>0, <2>2, <3>3 DEF Brings
      <4>2. known'[XTRA] = known[XTRA]
        BY <3>1, <4>1 DEF Knowledge
      <4>3. daemon' = daemon
        BY <2>1, <3>3
      <4> QED BY <2>1, <2>7, <3>1, <4>2, <4>3 DEF Informed
    <3> QED BY <3>2, <3>3
  <2>8. Heard'
    BY <2>1, <2>5, <2>6, <2>7 DEF Heard
  <2>9. Sourced'
    BY <2>1, <2>5, <2>6 DEF Sourced, SourceStarted, dgnssVars
  <2> QED BY <2>8, <2>9
<1>5. CASE HandleStatusRequestMsg
  <2> DEFINE head == Head(dataQueue)
             responded == IF head.updated THEN daemon
                          ELSE [daemon EXCEPT !.lock = mGpsLock, !.items = known[XTRA]]
  <2>1. /\ Message("requestStatus") /\ dataQueue' = Tail(dataQueue)
        /\ mReqStatusReceived' = TRUE
        /\ daemon' = Sent(IF mNtripParamsString = NONE THEN responded
                          ELSE [responded EXCEPT !.source = mNtripParamsString])
        /\ UNCHANGED <<mGpsLock, halinit, dgnssVars, known>>
    BY <1>5 DEF HandleStatusRequestMsg
  <2>2. Moves(dataQueue, dataQueue', 1, <<>>) /\ dataQueue[1] = head /\ 1 \in 1..Len(dataQueue)
        /\ head.op = "requestStatus" /\ head.updated \in BOOLEAN
    <3>1. head \in Requests /\ head.op = "requestStatus"
      BY <1>0, <2>1, HeadIs, MessageIs
    <3> QED BY <1>0, <2>1, <3>1, QueueTaken, HeadIs DEF Requests
  <2>3. \A n \in 1..Len(<<>>) : ~Reminds(<<>>[n])
    BY SqEmpty
  <2>4. ~ReminderWaits => ~ReminderWaits'
    BY <2>2, <2>3, NoReminderWaits
  <2>5. head.updated /\ RequestWaits => RequestWaits'
    BY <2>2, StaysIn DEF Asks
  <2> HIDE DEF head
  <2>6. /\ responded.up = daemon.up /\ responded.source = daemon.source
        /\ responded.lock = (IF head.updated THEN daemon.lock ELSE mGpsLock)
        /\ responded.items = (IF head.updated THEN daemon.items ELSE known[XTRA])
        /\ responded \in [up : BOOLEAN, lock : Locks \cup {NONE}, items : Knowledge, source : Sources]
    BY <1>0 DEF StatusTypes, DataTyped, DaemonTyped
  <2> HIDE DEF responded
  <2>7. /\ daemon'.up = daemon.up
        /\ daemon.up => /\ daemon'.lock = responded.lock /\ daemon'.items = responded.items
                        /\ daemon'.source = (IF mNtripParamsString = NONE THEN daemon.source
                                             ELSE mNtripParamsString)
    BY <1>0, <2>1, <2>6 DEF Sent
  <2>8. Heard'
    <3>1. CASE ~head.updated
      <4>1. daemon'.up => Informed'
        BY <2>1, <2>6, <2>7, <3>1 DEF Informed
      <4> QED BY <2>1, <2>4, <4>1 DEF Heard
    <3>2. CASE head.updated
      <4>1. ReminderWaits /\ halinit
        BY <2>2, <3>2 DEF ReminderWaits, Reminds, Heard
      <4>2. daemon.up => Informed \/ RequestWaits
        BY <4>1 DEF Heard
      <4>3. daemon'.up /\ Informed => Informed'
        BY <2>1, <2>6, <2>7, <3>2 DEF Informed
      <4> QED BY <2>1, <2>4, <2>5, <2>7, <3>2, <4>1, <4>2, <4>3 DEF Heard
    <3> QED BY <3>1, <3>2
  <2>9. daemon'.up => daemon'.source = mNtripParamsString'
    BY <2>1, <2>7 DEF Sourced, dgnssVars
  <2>10. Sourced'
    BY <2>1, <2>9 DEF Sourced, SourceStarted, dgnssVars
  <2> QED BY <2>8, <2>10
<1>6. CASE DaemonStarts
  <2> DEFINE m == [op |-> "requestStatus", updated |-> FALSE]
  <2>1. /\ daemon' = Daemon(TRUE, Ignorant) /\ dataQueue' = Append(dataQueue, m)
        /\ UNCHANGED <<mGpsLock, mReqStatusReceived, halinit, dgnssVars, known>>
    BY <1>6 DEF DaemonStarts, AskStatus, Post
  <2>2. Asks(m) /\ ~Reminds(m)
    BY DEF Asks, Reminds
  <2> HIDE DEF m
  <2>3. RequestWaits'
    BY <1>0, <2>1, <2>2, RequestPosted
  <2>4. Moves(dataQueue, dataQueue', 0, <<m>>)
    BY <1>0, <2>1, MovesPost
  <2>5. \A n \in 1..Len(<<m>>) : ~Reminds(<<m>>[n])
    <3>1. Len(<<m>>) = 1 /\ <<m>>[1] = m
      OBVIOUS
    <3> QED BY <2>2, <3>1
  <2>6. ~ReminderWaits => ~ReminderWaits'
    BY <2>4, <2>5, NoReminderWaits
  <2>7. daemon'.source = NONE
    BY <2>1 DEF Daemon, Ignorant
  <2>8. Heard'
    BY <2>1, <2>3, <2>6 DEF Heard
  <2>9. Sourced'
    BY <2>1, <2>3, <2>7 DEF Sourced, SourceStarted, dgnssVars
  <2> QED BY <2>8, <2>9
<1>7. CASE DaemonDies
  <2>1. /\ daemon' = Daemon(FALSE, Ignorant)
        /\ UNCHANGED <<mGpsLock, mReqStatusReceived, halinit, dgnssVars, known, dataQueue>>
    BY <1>7 DEF DaemonDies
  <2>2. ~daemon'.up
    BY <2>1 DEF Daemon
  <2>3. ~ReminderWaits => ~ReminderWaits'
    BY <2>1 DEF ReminderWaits, Reminds
  <2> QED BY <2>1, <2>2, <2>3 DEF Heard, Sourced, SourceStarted, dgnssVars
<1>8. CASE DelayExpires
  <2>1. /\ halinit' = TRUE /\ ~halinit
        /\ IF daemon.up THEN AskStatus(daemon.lock # NONE) ELSE UNCHANGED dataQueue
        /\ UNCHANGED <<mGpsLock, mReqStatusReceived, daemon, dgnssVars, known>>
    BY <1>8 DEF DelayExpires
  <2>2. CASE ~daemon.up
    BY <2>1, <2>2 DEF Heard, Sourced, SourceStarted, dgnssVars
  <2>3. CASE daemon.up
    <3> DEFINE m == [op |-> "requestStatus", updated |-> (daemon.lock # NONE)]
    <3>1. dataQueue' = Append(dataQueue, m)
      BY <2>1, <2>3 DEF AskStatus, Post
    <3>2. m.op = "requestStatus" /\ (m.updated <=> daemon.lock # NONE)
      OBVIOUS
    <3> HIDE DEF m
    <3>3. Moves(dataQueue, dataQueue', 0, <<m>>)
      BY <1>0, <3>1, MovesPost
    <3>4. RequestWaits => RequestWaits'
      BY <3>3, StaysIn
    <3>5. daemon.lock = NONE => RequestWaits'
      BY <1>0, <3>1, <3>2, RequestPosted DEF Asks
    <3>6. Informed => Informed'
      BY <2>1 DEF Informed
    <3>7. Heard'
      BY <2>1, <3>4, <3>5, <3>6 DEF Heard
    <3> QED BY <1>1, <2>1, <3>4, <3>7
  <2> QED BY <2>2, <2>3
<1>9. CASE updateLockStatus
  <2>1. PICK lock \in Locks :
          /\ mGpsLock' = lock
          /\ daemon' = IF mReqStatusReceived THEN Sent([daemon EXCEPT !.lock = lock]) ELSE daemon
          /\ UNCHANGED <<mReqStatusReceived, halinit, dgnssVars, known, dataQueue>>
    BY <1>9 DEF updateLockStatus
  <2>2. (RequestWaits <=> RequestWaits') /\ (ReminderWaits <=> ReminderWaits')
    BY <2>1 DEF RequestWaits, ReminderWaits, Asks, Reminds
  <2>3. /\ daemon'.up = daemon.up /\ daemon'.items = daemon.items /\ daemon'.source = daemon.source
        /\ mReqStatusReceived /\ daemon.up => daemon'.lock = lock
        /\ ~mReqStatusReceived => daemon'.lock = daemon.lock
    BY <1>0, <2>1 DEF Sent
  <2>4. daemon.up /\ Informed => Informed'
    BY <2>1, <2>3 DEF Informed
  <2>5. Heard'
    BY <2>1, <2>2, <2>3, <2>4 DEF Heard
  <2>6. Sourced'
    BY <2>1, <2>2, <2>3 DEF Sourced, SourceStarted, dgnssVars
  <2> QED BY <2>5, <2>6
<1>10. CASE Corrections
  BY <1>10, CorrectionsHeard, CorrectionsSourced
<1> QED BY <1>2, <1>3, <1>4, <1>5, <1>6, <1>7, <1>8, <1>9, <1>10 DEF XtraNext

-----------------------------------------------------------------------------
(* The report of the networks is the table of their list.                    *)

\* The slots of the list are those that are looked at.
LEMMA ScannedTable ==
    ASSUME NEW l, Fits(l)
    PROVE  /\ Scanned(Table(l)) = 1..Len(l) /\ Cardinality(Scanned(Table(l))) = Len(l)
           /\ Len(l) \in Nat /\ MAX_NETWORK_HANDLES \in Nat \ {0} /\ 1..Len(l) \subseteq Slots
           /\ \A n \in 1..Len(l) : Table(l)[n] = l[n] /\ l[n] \in Networks /\ l[n].handle # NONE
           /\ \A n \in Slots : n > Len(l) => Table(l)[n] = Unknown
<1>1. /\ Len(l) \in Nat /\ Len(l) <= MAX_NETWORK_HANDLES /\ MAX_NETWORK_HANDLES \in Nat \ {0}
      /\ \A n \in 1..Len(l) : l[n] \in Networks
  BY DataAssumption DEF Fits
<1>2. 1..Len(l) \subseteq Slots
  BY <1>1 DEF Slots
<1>3. \A n \in 1..Len(l) : Table(l)[n] = l[n] /\ l[n] \in Networks /\ l[n].handle # NONE
  BY <1>1, <1>2, DataAssumption DEF Table
<1>4. \A n \in Slots : n > Len(l) => Table(l)[n] = Unknown
  BY <1>1 DEF Table, Slots
<1>5. ASSUME NEW n \in Scanned(Table(l)) PROVE n \in 1..Len(l)
  <2>1. n \in Slots /\ Table(l)[n].handle # NONE
    BY <1>5, <1>1 DEF Scanned, Slots
  <2> QED BY <2>1, <1>1, <1>4 DEF Unknown, Slots
<1>6. ASSUME NEW n \in 1..Len(l) PROVE n \in Scanned(Table(l))
  <2>1. \A k \in 1..n : k \in 1..Len(l)
    BY <1>1
  <2> QED BY <2>1, <1>2, <1>3 DEF Scanned
<1>7. Scanned(Table(l)) = 1..Len(l)
  BY <1>5, <1>6
<1>8. Cardinality(1..Len(l)) = Len(l)
  <2>1. \A k \in Nat : Cardinality(1..k) = k
    BY FS_Interval
  <2> QED BY <1>1, <2>1
<1> QED BY <1>1, <1>2, <1>3, <1>4, <1>7, <1>8

\* The networks of the list, and what is in a longer one.
LEMMA ListIs ==
    ASSUME NEW l \in Seq(Networks)
    PROVE  /\ Range(l) = {l[n] : n \in 1..Len(l)} /\ Range(l) \subseteq Networks
           /\ TypesOf(l) = {l[n].type : n \in 1..Len(l)}
<1>1. DOMAIN l = 1..Len(l)
  OBVIOUS
<1>2. Range(l) = {l[n] : n \in 1..Len(l)}
  BY <1>1 DEF Range
<1> QED BY <1>2 DEF TypesOf

\* One more network at the end.
LEMMA AppendIs ==
    ASSUME NEW l \in Seq(Networks), NEW a \in Networks
    PROVE  /\ Append(l, a) \in Seq(Networks) /\ Len(Append(l, a)) = Len(l) + 1 /\ Len(l) \in Nat
           /\ \A n \in 1..Len(l) : Append(l, a)[n] = l[n]
           /\ Append(l, a)[Len(l) + 1] = a
           /\ TypesOf(Append(l, a)) = TypesOf(l) \cup {a.type}
<1> DEFINE l2 == Append(l, a)
<1>1. /\ l2 \in Seq(Networks) /\ Len(l2) = Len(l) + 1 /\ Len(l) \in Nat
      /\ \A n \in 1..Len(l) : l2[n] = l[n]
      /\ l2[Len(l) + 1] = a
  OBVIOUS
<1> HIDE DEF l2
<1>2. TypesOf(l2) = {l2[n].type : n \in 1..(Len(l) + 1)}
  BY <1>1, ListIs
<1>3. TypesOf(l) = {l[n].type : n \in 1..Len(l)}
  BY ListIs
<1>4. 1..(Len(l) + 1) = 1..Len(l) \cup {Len(l) + 1}
  BY <1>1
<1>5. ASSUME NEW t PROVE t \in TypesOf(l2) <=> t \in TypesOf(l) \/ t = a.type
  BY <1>1, <1>2, <1>3, <1>4
<1>6. TypesOf(l2) = TypesOf(l) \cup {a.type}
  BY <1>5
<1> QED BY <1>1, <1>6 DEF l2

\* One less.
LEMMA FrontIs ==
    ASSUME NEW l \in Seq(Networks), l # <<>>
    PROVE  /\ Len(l) \in Nat \ {0} /\ Front(l) \in Seq(Networks) /\ Len(Front(l)) = Len(l) - 1
           /\ \A n \in 1..(Len(l) - 1) : Front(l)[n] = l[n]
           /\ l[Len(l)] \in Networks
           /\ TypesOf(l) = TypesOf(Front(l)) \cup {l[Len(l)].type}
<1> DEFINE l2 == Front(l)
<1>1. Len(l) \in Nat \ {0} /\ l[Len(l)] \in Networks
  OBVIOUS
<1>2. /\ l2 \in Seq(Networks) /\ Len(l2) = Len(l) - 1
      /\ \A n \in 1..(Len(l) - 1) : l2[n] = l[n]
  <2>1. l2 = SubSeq(l, 1, Len(l) - 1)
    BY Zenon DEF Front
  <2>2. PICK k \in Nat : k = Len(l) - 1 /\ \A n \in 1..k : l[n] \in Networks
    BY <1>1
  <2>3. /\ SubSeq(l, 1, k) \in Seq(Networks)
        /\ Len(SubSeq(l, 1, k)) = IF 1 <= k THEN k - 1 + 1 ELSE 0
        /\ \A n \in 1..(k - 1 + 1) : SubSeq(l, 1, k)[n] = l[1 + n - 1]
    BY <2>2, SubSeqProperties
  <2>4. k - 1 + 1 = k /\ (1 <= k \/ k = 0) /\ \A n \in 1..k : 1 + n - 1 = n
    OBVIOUS
  <2>5. Len(SubSeq(l, 1, k)) = k /\ \A n \in 1..k : SubSeq(l, 1, k)[n] = l[n]
    BY <2>3, <2>4
  <2> QED BY <2>1, <2>2, <2>3, <2>5
<1> HIDE DEF l2
<1>3. TypesOf(l2) = {l2[n].type : n \in 1..(Len(l) - 1)}
  BY <1>2, ListIs
<1>4. TypesOf(l) = {l[n].type : n \in 1..Len(l)}
  BY ListIs
<1>5. 1..Len(l) = 1..(Len(l) - 1) \cup {Len(l)}
  BY <1>1
<1>6. ASSUME NEW t PROVE t \in TypesOf(l) <=> t \in TypesOf(l2) \/ t = l[Len(l)].type
  BY <1>2, <1>3, <1>4, <1>5
<1>7. TypesOf(l) = TypesOf(l2) \cup {l[Len(l)].type}
  BY <1>6
<1> QED BY <1>1, <1>2, <1>7 DEF l2

\* Two tables are the same slot by slot.
LEMMA SlotBySlot ==
    ASSUME NEW f, NEW g, DOMAIN f = Slots, NEW S, f \in [Slots -> S], NEW T, g \in [Slots -> T],
           \A n \in Slots : f[n] = g[n]
    PROVE  f = g
OBVIOUS

\* A network that has a place keeps it; a new one takes the next.
LEMMA TableComes ==
    ASSUME NEW l, Fits(l), NEW a \in Networks, NEW info, info.handle = a.handle, info.type = a.type
    PROVE  /\ a \in Range(l) => Added(Table(l), info) = Table(l)
           /\ a \notin Range(l) /\ Len(l) < MAX_NETWORK_HANDLES =>
                /\ Added(Table(l), info) = Table(Append(l, a))
                /\ Table(Append(l, a)) # Table(l)
<1>1. /\ Scanned(Table(l)) = 1..Len(l) /\ Cardinality(Scanned(Table(l))) = Len(l)
      /\ Len(l) \in Nat /\ MAX_NETWORK_HANDLES \in Nat \ {0}
      /\ \A n \in 1..Len(l) : Table(l)[n] = l[n] /\ l[n] \in Networks
      /\ \A n \in Slots : n > Len(l) => Table(l)[n] = Unknown
  BY ScannedTable
<1>2. Range(l) = {l[n] : n \in 1..Len(l)} /\ l \in Seq(Networks)
  BY ListIs DEF Fits
<1>3. ASSUME a \in Range(l) PROVE Added(Table(l), info) = Table(l)
  <2>1. PICK n \in 1..Len(l) : l[n] = a
    BY <1>2, <1>3
  <2>2. Table(l)[n].handle = info.handle
    BY <1>1, <2>1
  <2> QED BY <1>1, <2>2 DEF Added
<1>4. ASSUME a \notin Range(l), Len(l) < MAX_NETWORK_HANDLES
      PROVE  Added(Table(l), info) = Table(Append(l, a)) /\ Table(Append(l, a)) # Table(l)
  <2> DEFINE m == Len(l) + 1
             l2 == Append(l, a)
  <2>1. \A n \in 1..Len(l) : Table(l)[n].handle # info.handle
    BY <1>1, <1>2, <1>4, DataAssumption
  <2>2. a = [handle |-> info.handle, type |-> info.type] /\ a.handle # NONE
    BY DataAssumption
  <2>3. Added(Table(l), info) = [Table(l) EXCEPT ![m] = a]
    <3>1. Cardinality(Scanned(Table(l))) + 1 = m /\ ~(m > MAX_NETWORK_HANDLES)
          /\ ~\E k \in Scanned(Table(l)) : Table(l)[k].handle = info.handle
      BY <1>1, <1>4, <2>1
    <3>2. Added(Table(l), info) = [Table(l) EXCEPT ![m] = [handle |-> info.handle, type |-> info.type]]
      BY <3>1 DEF Added
    <3> QED BY <2>2, <3>2
  <2>4. m \in Slots /\ m \in Nat /\ 1..Len(l) \subseteq Slots
    BY <1>1, <1>4 DEF Slots
  <2>5. Len(l2) = m /\ (\A n \in 1..Len(l) : l2[n] = l[n]) /\ l2[m] = a
    BY <1>2, AppendIs
  <2> HIDE DEF l2
  <2>6. ASSUME NEW n \in Slots
        PROVE  Table(l2)[n] = IF n = m THEN a ELSE Table(l)[n]
    <3>1. CASE n = m
      BY <2>4, <2>5, <3>1 DEF Table
    <3>2. CASE n < m
      <4>1. n \in 1..Len(l) /\ n <= Len(l2)
        BY <1>1, <2>4, <2>5, <3>2 DEF Slots
      <4> QED BY <1>1, <2>4, <2>5, <3>2, <4>1 DEF Table
    <3>3. CASE n > m
      <4>1. ~(n <= Len(l2)) /\ n > Len(l)
        BY <1>1, <2>4, <2>5, <3>3 DEF Slots
      <4>2. Table(l2)[n] = Unknown
        BY <4>1 DEF Table
      <4>3. Table(l)[n] = Unknown
        BY <1>1, <4>1
      <4> QED BY <2>4, <3>3, <4>2, <4>3
    <3> QED BY <2>4, <3>1, <3>2, <3>3 DEF Slots
  <2>7. DOMAIN Table(l) = Slots /\ Table(l2) = [n \in Slots |-> Table(l2)[n]]
    BY DEF Table
  <2>8. [Table(l) EXCEPT ![m] = a] = [n \in Slots |-> IF n = m THEN a ELSE Table(l)[n]]
    BY <2>7
  <2>9. Table(l2) = [n \in Slots |-> IF n = m THEN a ELSE Table(l)[n]]
    BY <2>6, <2>7
  <2>10. Table(l2)[m].handle # NONE /\ Table(l)[m].handle = NONE
    <3>1. Table(l2)[m] = a /\ Table(l)[m] = Unknown
      BY <1>1, <2>4, <2>6
    <3> QED BY <2>2, <3>1 DEF Unknown
  <2>11. Table(l2) # Table(l)
    BY <2>10
  <2> QED BY <2>3, <2>8, <2>9, <2>11 DEF l2
<1> QED BY <1>3, <1>4

\* The last network leaves its slot unknown.
LEMMA TableGoes ==
    ASSUME NEW l, Fits(l), l # <<>>, NEW info, info.handle = l[Len(l)].handle
    PROVE  /\ OfHandle(Table(l), info.handle) = {Len(l)}
           /\ Removed(Table(l), info) = Table(Front(l))
           /\ Table(Front(l)) # Table(l)
<1> DEFINE m == Len(l)
           l2 == Front(l)
           found == OfHandle(Table(l), info.handle)
<1>1. /\ Scanned(Table(l)) = 1..m /\ Cardinality(Scanned(Table(l))) = m
      /\ m \in Nat /\ MAX_NETWORK_HANDLES \in Nat \ {0} /\ 1..m \subseteq Slots
      /\ \A n \in 1..m : Table(l)[n] = l[n] /\ l[n] \in Networks /\ l[n].handle # NONE
      /\ \A n \in Slots : n > m => Table(l)[n] = Unknown
  BY ScannedTable
<1>2. m \in 1..m /\ m \in Slots /\ m <= MAX_NETWORK_HANDLES
      /\ Len(l2) = m - 1 /\ \A n \in 1..(m - 1) : l2[n] = l[n]
  BY <1>1, FrontIs DEF Fits
<1> HIDE DEF l2
<1>3. ASSUME NEW n \in 1..m, l[n].handle = info.handle PROVE n = m
  <2>1. l[n] = l[m]
    BY <1>1, <1>2, <1>3, DataAssumption
  <2> QED BY <1>2, <2>1 DEF Fits, Once
<1>4. found = {m}
  BY <1>1, <1>2, <1>3 DEF OfHandle
<1>5. (CHOOSE n \in {m} : \A k \in {m} : k <= n) = m
  BY <1>1
<1> DEFINE full == Scanned(Table(l)) = Slots
           last == IF full THEN MAX_NETWORK_HANDLES ELSE Cardinality(Scanned(Table(l))) + 1
<1>6. last \in Slots /\ last >= m /\ last \in {m, m + 1}
  <2>1. CASE full
    <3>1. MAX_NETWORK_HANDLES \in 1..m
      BY <1>1, <2>1 DEF Slots
    <3> QED BY <1>1, <1>2, <2>1, <3>1
  <2>2. CASE ~full
    <3>1. m # MAX_NETWORK_HANDLES
      BY <1>1, <2>2 DEF Slots
    <3> QED BY <1>1, <1>2, <2>2, <3>1 DEF Slots
  <2> QED BY <2>1, <2>2
<1>7. Removed(Table(l), info) = [[Table(l) EXCEPT ![m] = Table(l)[last]] EXCEPT ![last] = Unknown]
  BY <1>4, <1>5 DEF Removed
<1> HIDE DEF last, found, m
<1>8. last # m => Table(l)[last] = Unknown
  BY <1>1, <1>6 DEF m
<1>9. DOMAIN Table(l) = Slots /\ Table(l2) = [n \in Slots |-> Table(l2)[n]]
  BY DEF Table
<1>10. ASSUME NEW n \in Slots
       PROVE  [[Table(l) EXCEPT ![m] = Table(l)[last]] EXCEPT ![last] = Unknown][n]
                = IF n = m THEN Unknown ELSE Table(l)[n]
  <2>1. CASE n = last
    BY <1>1, <1>6, <1>8, <1>9, <2>1
  <2>2. CASE n # last
    BY <1>2, <1>8, <1>9, <2>2
  <2> QED BY <2>1, <2>2
<1>11. [[Table(l) EXCEPT ![m] = Table(l)[last]] EXCEPT ![last] = Unknown]
         = [n \in Slots |-> IF n = m THEN Unknown ELSE Table(l)[n]]
  BY <1>9, <1>10
<1>12. ASSUME NEW n \in Slots PROVE Table(l2)[n] = IF n = m THEN Unknown ELSE Table(l)[n]
  <2>1. CASE n < m
    <3>1. n \in 1..(m - 1) /\ n \in 1..m /\ n <= Len(l2)
      BY <1>1, <1>2, <2>1 DEF Slots
    <3> QED BY <1>1, <1>2, <2>1, <3>1 DEF Table
  <2>2. CASE n >= m
    <3>1. ~(n <= Len(l2)) /\ n \in Nat /\ m \in Nat /\ (n = m \/ n > m)
      BY <1>1, <1>2, <2>2 DEF Slots
    <3>2. Table(l2)[n] = Unknown
      BY <3>1 DEF Table
    <3> QED BY <1>1, <3>1, <3>2
  <2> QED BY <1>1, <2>1, <2>2 DEF Slots
<1>13. Table(l2) = [n \in Slots |-> IF n = m THEN Unknown ELSE Table(l)[n]]
  BY <1>9, <1>12
<1>14. Table(l2)[m].handle = NONE /\ Table(l)[m].handle # NONE
  BY <1>1, <1>2, <1>12 DEF Unknown
<1>15. Table(l2) # Table(l)
  BY <1>14
<1> QED BY <1>4, <1>7, <1>11, <1>13, <1>15 DEF l2, m, found

-----------------------------------------------------------------------------
(* What is recorded of an event.                                             *)

\* The types left are those of the networks that are.
LEMMA TypesLeft ==
    ASSUME NEW l, Fits(l), l # <<>>, NEW info,
           info.handle = l[Len(l)].handle, info.type = l[Len(l)].type,
           info.type \in TypesOf(Front(l)) => Cardinality(TypesOf(Front(l))) = 1
    PROVE  (IF NoneOfType(Table(l), info) THEN TypesOf(l) \ {info.type} ELSE {info.type})
             = TypesOf(Front(l))
<1> DEFINE m == Len(l)
           l2 == Front(l)
           t == info.type
           of == OfType(Table(l), t)
<1>1. /\ Scanned(Table(l)) = 1..m /\ m \in Nat \ {0}
      /\ \A n \in 1..m : Table(l)[n] = l[n]
      /\ l2 \in Seq(Networks) /\ Len(l2) = m - 1 /\ \A n \in 1..(m - 1) : l2[n] = l[n]
      /\ TypesOf(l) = TypesOf(l2) \cup {t}
  BY ScannedTable, FrontIs DEF Fits
<1>2. Cardinality(OfHandle(Table(l), info.handle)) = 1
  <2>1. OfHandle(Table(l), info.handle) = {m}
    BY TableGoes
  <2> QED BY <2>1, FS_Singleton
<1>3. NoneOfType(Table(l), info) <=> Cardinality(of) = 1
  BY <1>2 DEF NoneOfType
<1>4. \A n : n \in of <=> n \in 1..m /\ l[n].type = t
  BY <1>1 DEF OfType
<1>5. m \in of
  BY <1>1, <1>4
<1>6. TypesOf(l2) = {l2[n].type : n \in 1..(m - 1)}
  BY <1>1, ListIs
<1>7. IsFiniteSet(of)
  <2>1. IsFiniteSet(1..m)
    BY <1>1, FS_Interval
  <2> QED BY <1>4, <2>1, FS_Subset
<1> HIDE DEF of, l2, m, t
<1>8. CASE t \in TypesOf(l2)
  <2>1. PICK j \in 1..(m - 1) : l2[j].type = t
    BY <1>6, <1>8
  <2>2. j \in of /\ j # m
    BY <1>1, <1>4, <2>1
  <2>3. Cardinality(of) # 1
    BY <1>5, <1>7, <2>2, FS_Singleton
  <2>4. Cardinality(TypesOf(l2)) = 1
    BY <1>8 DEF l2, t
  <2>5. TypesOf(l2) = {t}
    <3> DEFINE f == [n \in 1..(m - 1) |-> l2[n].type]
    <3>1. f \in Surjection(1..(m - 1), TypesOf(l2))
      BY <1>6 DEF Surjection
    <3>2. IsFiniteSet(TypesOf(l2))
      <4>1. m - 1 \in Int /\ IsFiniteSet(1..(m - 1))
        BY <1>1, FS_Interval
      <4> QED BY <3>1, <4>1, FS_Surjection
    <3>3. PICK x : TypesOf(l2) = {x}
      BY <2>4, <3>2, FS_Singleton
    <3> QED BY <1>8, <3>3
  <2> QED BY <1>3, <2>3, <2>5 DEF t, l2
<1>9. CASE t \notin TypesOf(l2)
  <2>1. ASSUME NEW n \in of PROVE n = m
    <3>1. n \in 1..m /\ l[n].type = t
      BY <1>4
    <3>2. CASE n # m
      <4>1. n \in 1..(m - 1) /\ l2[n].type = t
        BY <1>1, <3>1, <3>2
      <4> QED BY <1>6, <1>9, <4>1
    <3> QED BY <3>2
  <2>2. of = {m}
    BY <1>5, <2>1
  <2>3. Cardinality(of) = 1
    BY <2>2, FS_Singleton
  <2>4. TypesOf(l) \ {t} = TypesOf(l2)
    BY <1>1, <1>9
  <2> QED BY <1>3, <2>3, <2>4 DEF t, l2
<1> QED BY <1>8, <1>9

\* A network that comes is recorded.
LEMMA ShownComes ==
    ASSUME DataTyped, NEW l, NEW l2, Fits(l), Fits(l2), Shown(l, cache[NETWORKINFO]),
           NEW m, Comes(l, m, l2)
    PROVE  Shown(l2, Recorded(NETWORKINFO, m.content))
<1> DEFINE current == cache[NETWORKINFO]
           table == current.mAllNetworkHandles
<1>1. PICK a \in Networks :
        /\ m.content = NetworkInfo(TRUE, a)
        /\ l2 = IF a \in Range(l) THEN l ELSE Append(l, a)
  BY DEF Comes
<1> DEFINE info == NetworkInfo(TRUE, a)
<1>2. /\ info.connected = TRUE /\ info.handle = a.handle /\ info.type = a.type
      /\ info.mAllTypes = {a.type}
      /\ info.mAllNetworkHandles = [n \in Slots |-> IF n = 1 THEN a ELSE Unknown]
      /\ \A types, rows :
           LET new == [info EXCEPT !.mAllTypes = types, !.mAllNetworkHandles = rows]
           IN  new.mAllTypes = types /\ new.mAllNetworkHandles = rows
  BY DEF NetworkInfo
<1>3. info # NONE /\ current \in Reports \cup {NONE} /\ NONE \notin Reports
  BY NewsIsReport, DataAssumption DEF DataTyped
<1> HIDE DEF info
<1>4. l \in Seq(Networks) /\ Len(l) \in Nat /\ l2 \in Seq(Networks)
  BY DEF Fits
<1>5. CASE current = NONE
  <2>1. Recorded(NETWORKINFO, info) = info
    BY <1>5 DEF Recorded
  <2>2. l = <<>>
    BY <1>5 DEF Shown
  <2>3. Range(l) = {} /\ TypesOf(l) = {} /\ Len(l) = 0
    <3>1. Len(l) = 0
      BY <2>2, SqEmpty
    <3>2. 1..Len(l) = {}
      BY <3>1
    <3>3. Range(l) = {l[n] : n \in 1..Len(l)} /\ TypesOf(l) = {l[n].type : n \in 1..Len(l)}
      BY <1>4, ListIs
    <3> QED BY <3>1, <3>2, <3>3
  <2>4. l2 = Append(l, a)
    BY <1>1, <2>3
  <2>5. /\ Len(l2) = 1 /\ l2[1] = a /\ TypesOf(l2) = {a.type}
    <3>1. /\ Len(Append(l, a)) = Len(l) + 1 /\ Append(l, a)[Len(l) + 1] = a
          /\ TypesOf(Append(l, a)) = TypesOf(l) \cup {a.type}
      BY <1>4, AppendIs
    <3>2. Len(l) + 1 = 1 /\ TypesOf(l) \cup {a.type} = {a.type}
      BY <2>3
    <3> QED BY <2>4, <3>1, <3>2
  <2>6. Table(l2) = [n \in Slots |-> IF n = 1 THEN a ELSE Unknown]
    <3>1. \A n \in Slots : (n <= 1 <=> n = 1)
      BY DEF Slots
    <3> QED BY <2>5, <3>1 DEF Table
  <2> QED BY <1>1, <1>2, <1>3, <2>1, <2>5, <2>6 DEF Shown, info
<1>6. CASE current # NONE
  <2>1. table = Table(l) /\ current.mAllTypes = TypesOf(l)
    BY <1>6 DEF Shown
  <2> DEFINE types == info.mAllTypes \cup current.mAllTypes
             rows == Added(table, info)
             new == [info EXCEPT !.mAllTypes = types, !.mAllNetworkHandles = rows]
  <2>2. collate(info, current) = new
    BY <1>2 DEF collate
  <2>3. new.mAllTypes = types /\ new.mAllNetworkHandles = rows
    BY <1>2
  <2>4. Recorded(NETWORKINFO, info) = IF rows = table THEN current ELSE new
    BY <1>6, <2>2, <2>3 DEF Recorded
  <2>5. Recorded(NETWORKINFO, info) # NONE
    <3>1. collate(info, current) \in Reports
      BY <1>3, <1>6, NewsIsReport, CollateIsReport DEF info
    <3> QED BY <1>3, <1>6, <2>2, <2>4, <3>1
  <2> HIDE DEF new, rows, types
  <2>6. CASE a \in Range(l)
    <3>1. rows = table
      BY <1>2, <2>1, <2>6, TableComes DEF rows
    <3> QED BY <1>1, <1>6, <2>1, <2>4, <2>6, <3>1 DEF Shown, info
  <2>7. CASE a \notin Range(l)
    <3>1. l2 = Append(l, a) /\ Len(l2) = Len(l) + 1 /\ TypesOf(l2) = TypesOf(l) \cup {a.type}
      BY <1>1, <1>4, <2>7, AppendIs
    <3>2. Len(l) < MAX_NETWORK_HANDLES
      BY <1>4, <3>1, DataAssumption DEF Fits
    <3>3. rows = Table(l2) /\ rows # table
      BY <1>2, <2>1, <2>7, <3>1, <3>2, TableComes DEF rows
    <3>4. types = TypesOf(l2)
      BY <1>2, <2>1, <3>1 DEF types
    <3> QED BY <1>1, <2>3, <2>4, <2>5, <3>3, <3>4 DEF Shown, info
  <2> QED BY <2>6, <2>7
<1> QED BY <1>5, <1>6

\* The last that goes is, too.
LEMMA ShownGoes ==
    ASSUME DataTyped, NEW l, NEW l2, Fits(l), Shown(l, cache[NETWORKINFO]), NEW m, Departs(l, m, l2)
    PROVE  Shown(l2, Recorded(NETWORKINFO, m.content))
<1> DEFINE current == cache[NETWORKINFO]
           table == current.mAllNetworkHandles
           a == l[Len(l)]
           info == NetworkInfo(FALSE, a)
<1>1. /\ l # <<>> /\ m.content = info /\ l2 = Front(l)
      /\ a.type \in TypesOf(l2) => Cardinality(TypesOf(l2)) = 1
  BY DEF Departs, Front
<1>2. l \in Seq(Networks) /\ a \in Networks
  BY <1>1, FrontIs DEF Fits
<1>3. info \in Reports
  BY <1>2, NewsIsReport
<1>4. /\ info.connected = FALSE /\ info.handle = a.handle /\ info.type = a.type
      /\ info.mAllTypes = {a.type}
      /\ \A types, rows :
           LET new == [info EXCEPT !.mAllTypes = types, !.mAllNetworkHandles = rows]
           IN  new.mAllTypes = types /\ new.mAllNetworkHandles = rows
  BY DEF NetworkInfo
<1> HIDE DEF info
<1>5. current # NONE /\ current \in Reports /\ NONE \notin Reports
      /\ table = Table(l) /\ current.mAllTypes = TypesOf(l)
  BY <1>1, DataAssumption DEF Shown, DataTyped
<1> DEFINE types == IF NoneOfType(table, info) THEN current.mAllTypes \ info.mAllTypes ELSE info.mAllTypes
           rows == Removed(table, info)
           new == [info EXCEPT !.mAllTypes = types, !.mAllNetworkHandles = rows]
<1>6. collate(info, current) = new
  BY <1>4 DEF collate
<1>7. new.mAllTypes = types /\ new.mAllNetworkHandles = rows
  BY <1>4
<1>8. Recorded(NETWORKINFO, info) = IF rows = table THEN current ELSE new
  BY <1>5, <1>6, <1>7 DEF Recorded
<1>9. new # NONE
  BY <1>3, <1>5, <1>6, CollateIsReport
<1>10. types = TypesOf(l2)
  BY <1>1, <1>4, <1>5, TypesLeft
<1> HIDE DEF types, new
<1>11. rows = Table(l2) /\ rows # table
  BY <1>1, <1>4, <1>5, TableGoes
<1> QED BY <1>1, <1>7, <1>8, <1>9, <1>10, <1>11 DEF Shown

-----------------------------------------------------------------------------
(* The events under way account for the networks.                            *)

\* Messages about something else are taken and posted; of one about a network
\* that is taken, the report shows the networks that follow.
LEMMA PathMoves ==
    ASSUME NEW q, NEW q2, NEW d, NEW e, Moves(q, q2, d, e), NEW h, NEW last, NEW report, NEW report2,
           Path(h, q, last, report), \A n \in 1..Len(e) : ~OfNetworks(e[n]),
           IF d = 0 THEN report2 = report ELSE Shown(h[2], report2)
    PROVE  \E h2 : Path(h2, q2, last, report2)
<1> DEFINE L == Len(q) - d
           D == 1..(Len(q2) + 1)
           h2 == [n \in D |-> IF n <= L + 1 THEN h[n + d] ELSE last]
<1>1. /\ Len(q) \in Nat /\ Len(q2) \in Nat /\ Len(e) \in Nat /\ d \in {0, 1}
      /\ Len(q2) = L + Len(e) /\ L \in Nat
      /\ \A n \in 1..Len(q2) :
           \/ n \in 1..L /\ n + d \in 1..Len(q) /\ q2[n] = q[n + d]
           \/ n - L \in 1..Len(e) /\ q2[n] = e[n - L]
  BY MovesPlaces
<1>2. /\ \A n \in 1..(Len(q) + 1) : Fits(h[n])
      /\ \A n \in 1..Len(q) : Follows(h[n], q[n], h[n + 1])
      /\ h[Len(q) + 1] = last
      /\ Shown(h[1], report)
  BY DEF Path
<1>3. Len(q) = L + d /\ Len(q2) + 1 \in D /\ 1 \in D
  BY <1>1
<1> HIDE DEF L
<1>4. \A n \in D : h2[n] = IF n <= L + 1 THEN h[n + d] ELSE last
  OBVIOUS
<1> HIDE DEF h2
<1>5. ASSUME NEW n \in D PROVE Fits(h2[n])
  <2>1. CASE n <= L + 1
    <3>1. n + d \in 1..(Len(q) + 1)
      BY <1>1, <1>3, <2>1
    <3> QED BY <1>2, <1>4, <2>1, <3>1
  <2>2. CASE ~(n <= L + 1)
    <3>1. Len(q) + 1 \in 1..(Len(q) + 1)
      BY <1>1
    <3> QED BY <1>2, <1>4, <2>2, <3>1
  <2> QED BY <2>1, <2>2
<1>6. ASSUME NEW n \in 1..Len(q2) PROVE Follows(h2[n], q2[n], h2[n + 1])
  <2>0. n \in D /\ n + 1 \in D
    BY <1>1
  <2>1. CASE n \in 1..L /\ n + d \in 1..Len(q) /\ q2[n] = q[n + d]
    <3>1. n <= L + 1 /\ n + 1 <= L + 1 /\ (n + 1) + d = (n + d) + 1
      BY <1>1, <2>1
    <3>2. h2[n] = h[n + d] /\ h2[n + 1] = h[(n + d) + 1]
      BY <1>4, <2>0, <3>1
    <3> QED BY <1>2, <2>1, <3>2
  <2>2. CASE n - L \in 1..Len(e) /\ q2[n] = e[n - L]
    <3>1. ~(n + 1 <= L + 1)
      BY <1>1, <2>2
    <3>2. h2[n + 1] = last
      BY <1>4, <2>0, <3>1
    <3>3. h2[n] = last
      <4>1. CASE n <= L + 1
        <5>1. n + d = Len(q) + 1
          BY <1>1, <1>3, <2>2, <4>1
        <5> QED BY <1>2, <1>4, <2>0, <4>1, <5>1
      <4>2. CASE ~(n <= L + 1)
        BY <1>4, <2>0, <4>2
      <4> QED BY <4>1, <4>2
    <3> QED BY <2>2, <3>2, <3>3 DEF Follows
  <2> QED BY <1>1, <2>1, <2>2
<1>7. h2[Len(q2) + 1] = last
  <2>1. CASE Len(q2) + 1 <= L + 1
    <3>1. (Len(q2) + 1) + d = Len(q) + 1
      BY <1>1, <1>3, <2>1
    <3> QED BY <1>2, <1>3, <1>4, <2>1, <3>1
  <2>2. CASE ~(Len(q2) + 1 <= L + 1)
    BY <1>3, <1>4, <2>2
  <2> QED BY <2>1, <2>2
<1>8. Shown(h2[1], report2)
  <2>1. h2[1] = h[1 + d]
    BY <1>1, <1>3, <1>4
  <2>2. CASE d = 0
    BY <1>2, <2>1, <2>2
  <2>3. CASE d = 1
    BY <2>1, <2>3
  <2> QED BY <1>1, <2>2, <2>3
<1> QED BY <1>5, <1>6, <1>7, <1>8 DEF Path

\* An event is posted.
LEMMA PathPosts ==
    ASSUME NEW q, Sq(q), NEW m, NEW h, NEW last, NEW last2, NEW report,
           Path(h, q, last, report), Fits(last2), Follows(last, m, last2)
    PROVE  \E h2 : Path(h2, Append(q, m), last2, report)
<1> DEFINE L == Len(q)
           q2 == Append(q, m)
           h2 == [n \in 1..(L + 2) |-> IF n <= L + 1 THEN h[n] ELSE last2]
<1>1. L \in Nat /\ Len(q2) = L + 1 /\ (\A n \in 1..L : q2[n] = q[n]) /\ q2[L + 1] = m
  BY SqOf, SqAppend
<1>2. /\ \A n \in 1..(L + 1) : Fits(h[n])
      /\ \A n \in 1..L : Follows(h[n], q[n], h[n + 1])
      /\ h[L + 1] = last
      /\ Shown(h[1], report)
  BY DEF Path
<1>3. \A n \in 1..(L + 2) : h2[n] = IF n <= L + 1 THEN h[n] ELSE last2
  OBVIOUS
<1> HIDE DEF L, q2, h2
<1>4. ASSUME NEW n \in 1..(L + 2) PROVE Fits(h2[n])
  BY <1>1, <1>2, <1>3
<1>5. h2[L + 2] = last2 /\ h2[L + 1] = last /\ h2[1] = h[1]
  BY <1>1, <1>2, <1>3
<1>6. ASSUME NEW n \in 1..(L + 1) PROVE Follows(h2[n], q2[n], h2[n + 1])
  <2>1. CASE n <= L
    <3>1. n \in 1..L /\ n \in 1..(L + 2) /\ n + 1 \in 1..(L + 2) /\ n <= L + 1 /\ n + 1 <= L + 1
      BY <1>1, <2>1
    <3>2. h2[n] = h[n] /\ h2[n + 1] = h[n + 1] /\ q2[n] = q[n]
      BY <1>1, <1>3, <3>1
    <3> QED BY <1>2, <3>1, <3>2
  <2>2. CASE n = L + 1
    <3>1. n + 1 = L + 2
      BY <1>1, <2>2
    <3> QED BY <1>1, <1>5, <2>2, <3>1
  <2> QED BY <1>1, <2>1, <2>2
<1>7. Len(q2) + 1 = L + 2
  BY <1>1
<1> QED BY <1>1, <1>2, <1>4, <1>5, <1>6, <1>7 DEF Path, q2

\* The list goes on as a list.
LEMMA FitsComes ==
    ASSUME NEW l, Fits(l), NEW a \in Networks,
           Len(IF a \in Range(l) THEN l ELSE Append(l, a)) <= MAX_NETWORK_HANDLES
    PROVE  Fits(IF a \in Range(l) THEN l ELSE Append(l, a))
<1>1. CASE a \in Range(l)
  BY <1>1
<1>2. CASE a \notin Range(l)
  <2> DEFINE l2 == Append(l, a)
  <2>1. /\ l2 \in Seq(Networks) /\ Len(l2) = Len(l) + 1 /\ Len(l) \in Nat
        /\ \A n \in 1..Len(l) : l2[n] = l[n]
        /\ l2[Len(l) + 1] = a
    BY AppendIs DEF Fits
  <2>2. \A n \in 1..Len(l) : l[n] # a
    BY <1>2, ListIs DEF Fits
  <2> HIDE DEF l2
  <2>3. ASSUME NEW j \in 1..Len(l2), NEW k \in 1..Len(l2), l2[j] = l2[k] PROVE j = k
    <3>1. (j \in 1..Len(l) \/ j = Len(l) + 1) /\ (k \in 1..Len(l) \/ k = Len(l) + 1)
      BY <2>1
    <3>2. CASE j \in 1..Len(l) /\ k \in 1..Len(l)
      BY <2>1, <2>3, <3>2 DEF Fits, Once
    <3> QED BY <2>1, <2>2, <2>3, <3>1, <3>2
  <2>4. Once(l2)
    BY <2>3 DEF Once
  <2> QED BY <1>2, <2>1, <2>4 DEF Fits, l2
<1> QED BY <1>1, <1>2

\* The same without the last.
LEMMA FitsGoes ==
    ASSUME NEW l, Fits(l), l # <<>>
    PROVE  Fits(Front(l)) /\ RemoveAt(l, Len(l)) = Front(l)
<1>1. /\ Len(l) \in Nat \ {0} /\ Front(l) \in Seq(Networks) /\ Len(Front(l)) = Len(l) - 1
      /\ \A n \in 1..(Len(l) - 1) : Front(l)[n] = l[n]
  BY FrontIs DEF Fits
<1>2. Fits(Front(l))
  <2>1. \A n \in 1..(Len(l) - 1) : n \in 1..Len(l)
    BY <1>1
  <2>2. Once(Front(l))
    BY <1>1, <2>1 DEF Fits, Once
  <2>3. Len(Front(l)) <= MAX_NETWORK_HANDLES
    BY <1>1, DataAssumption DEF Fits
  <2> QED BY <1>1, <2>2, <2>3 DEF Fits
<1>3. SubSeq(l, Len(l) + 1, Len(l)) = <<>>
  <2>1. \A k \in Nat : SubSeq(l, k + 1, k) = <<>>
    BY SubSeqEmpty
  <2> QED BY <1>1, <2>1
<1>4. RemoveAt(l, Len(l)) = Front(l) \o <<>>
  BY <1>3, Zenon DEF RemoveAt, Front
<1>5. Front(l) \o <<>> = Front(l)
  <2>1. \A s \in Seq(Networks) : s \o <<>> = s
    OBVIOUS
  <2> QED BY <1>1, <2>1
<1> QED BY <1>2, <1>4, <1>5

\* There are no networks at the start, and no events.
LEMMA AccountedInit == XtraInit => Accounted
<1>1. SUFFICES ASSUME XtraInit PROVE Accounted
  OBVIOUS
<1>2. QueueTyped
  BY <1>1, TypesInit DEF StatusTypes
<1>3. ASSUME NEW n \in 1..Len(dataQueue) PROVE ~OfNetworks(dataQueue[n])
  <2>1. dataQueue = [k \in DOMAIN Listening |->
                      [op |-> "subscribe", client |-> Listening[k].client,
                       items |-> Listening[k].items, request |-> Listening[k].request]]
    BY <1>1 DEF XtraInit, DataInit
  <2>2. n \in DOMAIN dataQueue
    BY <1>2, SqOf DEF QueueTyped
  <2>3. n \in DOMAIN Listening
    BY <2>1, <2>2
  <2> QED BY <2>1, <2>3 DEF OfNetworks
<1>4. networks = <<>> /\ cache[NETWORKINFO] = NONE
  BY <1>1, DataAssumption DEF XtraInit, DataInit
<1>5. Fits(<<>>)
  <2>1. <<>> \in Seq(Networks) /\ Len(<<>>) = 0
    OBVIOUS
  <2> QED BY <2>1, DataAssumption DEF Fits, Once
<1>6. Len(dataQueue) \in Nat
  BY <1>2, SqOf DEF QueueTyped
<1> DEFINE h == [n \in 1..(Len(dataQueue) + 1) |-> <<>>]
<1>7. \A n \in 1..(Len(dataQueue) + 1) : h[n] = <<>>
  OBVIOUS
<1>8. \A n \in 1..Len(dataQueue) : h[n] = <<>> /\ h[n + 1] = <<>>
  BY <1>6
<1>9. h[Len(dataQueue) + 1] = <<>> /\ h[1] = <<>>
  BY <1>6
<1> HIDE DEF h
<1>10. Path(h, dataQueue, networks, cache[NETWORKINFO])
  BY <1>3, <1>4, <1>5, <1>7, <1>8, <1>9 DEF Path, Follows, Shown
<1> QED BY <1>10 DEF Accounted

\* The queue moves, with no message about a network but the one that is taken
\* and recorded.
LEMMA AccountedMoves ==
    ASSUME StatusTypes, Accounted, UNCHANGED <<networks, muddled>>,
           NEW d, NEW e, Moves(dataQueue, dataQueue', d, e), \A n \in 1..Len(e) : ~OfNetworks(e[n]),
           \/ cache'[NETWORKINFO] = cache[NETWORKINFO] /\ (d = 1 => ~OfNetworks(dataQueue[1]))
           \/ /\ d = 1 /\ OfNetworks(dataQueue[1])
              /\ cache'[NETWORKINFO] = Recorded(NETWORKINFO, dataQueue[1].content)
    PROVE  Accounted'
<1>1. SUFFICES ASSUME ~muddled PROVE \E h : Path(h, dataQueue', networks, cache'[NETWORKINFO])
  BY DEF Accounted
<1>2. PICK h : Path(h, dataQueue, networks, cache[NETWORKINFO])
  BY <1>1 DEF Accounted
<1>3. d \in {0, 1} /\ d <= Len(dataQueue) /\ Len(dataQueue) \in Nat
  BY MovesPlaces
<1>4. CASE d = 0
  <2>1. cache'[NETWORKINFO] = cache[NETWORKINFO]
    BY <1>4
  <2> QED BY <1>2, <1>4, <2>1, PathMoves
<1>5. CASE d = 1
  <2>1. /\ 1 \in 1..Len(dataQueue) /\ 1 + 1 = 2 /\ 1 \in 1..(Len(dataQueue) + 1)
        /\ 2 \in 1..(Len(dataQueue) + 1)
    BY <1>3, <1>5
  <2>2. /\ Fits(h[1]) /\ Fits(h[2]) /\ Shown(h[1], cache[NETWORKINFO])
        /\ Follows(h[1], dataQueue[1], h[2])
    BY <1>2, <2>1 DEF Path
  <2>3. Shown(h[2], cache'[NETWORKINFO])
    <3>1. CASE ~OfNetworks(dataQueue[1])
      <4>1. h[2] = h[1] /\ cache'[NETWORKINFO] = cache[NETWORKINFO]
        BY <2>2, <3>1 DEF Follows
      <4> QED BY <2>2, <4>1
    <3>2. CASE OfNetworks(dataQueue[1])
      <4>1. cache'[NETWORKINFO] = Recorded(NETWORKINFO, dataQueue[1].content)
        BY <1>5, <3>2
      <4>2. Comes(h[1], dataQueue[1], h[2]) \/ Departs(h[1], dataQueue[1], h[2])
        BY <2>2, <3>2 DEF Follows
      <4>3. Shown(h[2], Recorded(NETWORKINFO, dataQueue[1].content))
        BY <2>2, <4>2, ShownComes, ShownGoes DEF StatusTypes
      <4> QED BY <4>1, <4>3
    <3> QED BY <3>1, <3>2
  <2>4. IF d = 0 THEN cache'[NETWORKINFO] = cache[NETWORKINFO] ELSE Shown(h[2], cache'[NETWORKINFO])
    BY <1>5, <2>3
  <2> QED BY <1>2, <2>4, PathMoves
<1> QED BY <1>3, <1>4, <1>5

\* An event is posted, as the networks change.
LEMMA AccountedPosts ==
    ASSUME StatusTypes, Accounted, cache' = cache, muddled \in BOOLEAN, ~muddled' => ~muddled,
           NEW m, dataQueue' = Append(dataQueue, m),
           Fits(networks) /\ ~muddled' => Fits(networks') /\ Follows(networks, m, networks')
    PROVE  Accounted'
<1>1. SUFFICES ASSUME ~muddled' PROVE \E h : Path(h, dataQueue', networks', cache[NETWORKINFO])
  BY DEF Accounted
<1>2. PICK h : Path(h, dataQueue, networks, cache[NETWORKINFO])
  BY <1>1 DEF Accounted
<1>3. Sq(dataQueue) /\ Len(dataQueue) \in Nat
  BY SqOf DEF StatusTypes, QueueTyped
<1>4. Fits(networks)
  <2>1. Len(dataQueue) + 1 \in 1..(Len(dataQueue) + 1)
    BY <1>3
  <2> QED BY <1>2, <2>1 DEF Path
<1>5. Fits(networks') /\ Follows(networks, m, networks')
  BY <1>1, <1>4
<1> QED BY <1>2, <1>3, <1>5, PathPosts

\* Each call accounts for what it changes.
LEMMA CallingAccounted ==
    ASSUME StatusTypes, Accounted, Calling
    PROVE  Accounted'
<1> USE DEF OfNetworks
<1>0. muddled \in BOOLEAN /\ networks \in Seq(Networks)
  BY DEF StatusTypes, DataTyped
<1>1. ASSUME UNCHANGED <<cache, networks, muddled>>, NEW m, ~OfNetworks(m),
             dataQueue' = Append(dataQueue, m)
      PROVE  Accounted'
  <2>1. Follows(networks, m, networks')
    BY <1>1 DEF Follows
  <2>2. Fits(networks) => Fits(networks')
    BY <1>1
  <2> QED BY <1>0, <1>1, <2>1, <2>2, AccountedPosts
<1>2. ASSUME NEW name, NEW m, call(name, m), m.op # "notify" PROVE Accounted'
  BY <1>1, <1>2 DEF call, Post, dataGhosts
<1>3. CASE subscribe
  BY <1>2, <1>3 DEF subscribe
<1>4. CASE updateSubscription
  BY <1>2, <1>4 DEF updateSubscription
<1>5. CASE unsubscribe
  BY <1>2, <1>5 DEF unsubscribe
<1>6. CASE unsubscribeAll
  BY <1>2, <1>6 DEF unsubscribeAll
<1>7. CASE setSubscriptionObj
  BY <1>2, <1>7 DEF setSubscriptionObj
<1>8. CASE notify
  <2>1. PICK i \in (subscribed \cup requested) \ {NETWORKINFO}, v \in Values :
          /\ dataQueue' = Append(dataQueue, [op |-> "notify", item |-> i, content |-> v])
          /\ UNCHANGED <<cache, networks, muddled>>
    BY <1>8 DEF notify, Post, dataGhosts
  <2>2. [op |-> "notify", item |-> i, content |-> v].item # NETWORKINFO
    OBVIOUS
  <2> QED BY <1>1, <2>1, <2>2
<1>9. ASSUME NEW connected, NEW a, eventConnectionStatus(connected, a)
      PROVE  /\ cache' = cache
             /\ \E m : /\ OfNetworks(m) /\ m.content = NetworkInfo(connected, a)
                       /\ dataQueue' = Append(dataQueue, m)
  <2> DEFINE m == [op |-> "notify", item |-> NETWORKINFO, content |-> NetworkInfo(connected, a)]
  <2>1. OfNetworks(m) /\ m.content = NetworkInfo(connected, a)
    OBVIOUS
  <2>2. dataQueue' = Append(dataQueue, m) /\ cache' = cache
    BY <1>9 DEF eventConnectionStatus, Post
  <2> QED BY <2>1, <2>2
<1>10. CASE NetworkAvailable
  <2>1. PICK a \in Networks :
          /\ eventConnectionStatus(TRUE, a)
          /\ networks' = IF a \in Range(networks) THEN networks ELSE Append(networks, a)
          /\ muddled' = (muddled \/ Len(networks') > MAX_NETWORK_HANDLES)
    BY <1>10 DEF NetworkAvailable
  <2>2. PICK m : /\ OfNetworks(m) /\ m.content = NetworkInfo(TRUE, a)
                 /\ dataQueue' = Append(dataQueue, m)
    BY <1>9, <2>1
  <2>3. Follows(networks, m, networks')
    BY <2>1, <2>2 DEF Follows, Comes
  <2>4. Fits(networks) /\ ~muddled' => Fits(networks')
    <3>1. SUFFICES ASSUME Fits(networks), ~muddled' PROVE Fits(networks')
      OBVIOUS
    <3>2. Len(networks') <= MAX_NETWORK_HANDLES
      <4>1. networks' \in Seq(Networks)
        BY <1>0, <2>1
      <4>2. Len(networks') \in Nat /\ MAX_NETWORK_HANDLES \in Nat
        BY <4>1, DataAssumption
      <4>3. ~(Len(networks') > MAX_NETWORK_HANDLES)
        BY <2>1, <3>1, Zenon
      <4> QED BY <4>2, <4>3
    <3> QED BY <2>1, <3>1, <3>2, FitsComes
  <2> QED BY <1>0, <1>9, <2>1, <2>2, <2>3, <2>4, AccountedPosts
<1>11. CASE NetworkLost
  <2>1. PICK n \in DOMAIN networks :
          /\ eventConnectionStatus(FALSE, networks[n])
          /\ networks' = RemoveAt(networks, n)
          /\ muddled' = (muddled \/ ~Orderly(n))
    BY <1>11 DEF NetworkLost
  <2>2. PICK m : /\ OfNetworks(m) /\ m.content = NetworkInfo(FALSE, networks[n])
                 /\ dataQueue' = Append(dataQueue, m)
    BY <1>9, <2>1
  <2>3. Fits(networks) /\ ~muddled' => Fits(networks') /\ Follows(networks, m, networks')
    <3>1. SUFFICES ASSUME Fits(networks), ~muddled'
                   PROVE  Fits(networks') /\ Follows(networks, m, networks')
      OBVIOUS
    <3>2. Orderly(n)
      BY <2>1, <3>1, Zenon
    <3>3. networks # <<>>
      BY <1>0, <2>1
    <3>4. /\ n = Len(networks)
          /\ networks[n].type \in TypesOf(SubSeq(networks, 1, n - 1)) =>
               Cardinality(TypesOf(SubSeq(networks, 1, n - 1))) = 1
      BY <3>2 DEF Orderly
    <3>5. Fits(Front(networks)) /\ networks' = Front(networks)
      BY <2>1, <3>1, <3>3, <3>4, FitsGoes
    <3>6. Front(networks) = SubSeq(networks, 1, Len(networks) - 1)
      BY Zenon DEF Front
    <3>7. Departs(networks, m, networks')
      BY <2>2, <3>3, <3>4, <3>5, <3>6 DEF Departs
    <3> QED BY <2>2, <3>5, <3>7 DEF Follows
  <2> QED BY <1>0, <1>9, <2>1, <2>2, <2>3, AccountedPosts
<1>12. CASE UnknownNetworkLost
  <2>1. muddled' = TRUE
    BY <1>12 DEF UnknownNetworkLost
  <2> QED BY <2>1 DEF Accounted
<1> QED BY <1>3, <1>4, <1>5, <1>6, <1>7, <1>8, <1>10, <1>11, <1>12 DEF Calling

\* Each handler, and the daemon.
LEMMA AccountedNext ==
    ASSUME StatusTypes, Accounted, [XtraNext]_<<dataVars, xtraVars>>
    PROVE  Accounted'
<1> DEFINE head == Head(dataQueue)
<1>0. QueueTyped /\ DataTyped /\ Sq(dataQueue) /\ NETWORKINFO \in Items
  BY DataAssumption DEF StatusTypes, QueueTyped
<1>1. ASSUME UNCHANGED <<cache, networks, muddled>>, NEW m, m.op # "notify",
             dataQueue' = Append(dataQueue, m)
      PROVE  Accounted'
  <2>1. Moves(dataQueue, dataQueue', 0, <<m>>)
    BY <1>0, <1>1, MovesPost
  <2>2. \A n \in 1..Len(<<m>>) : ~OfNetworks(<<m>>[n])
    <3>1. Len(<<m>>) = 1 /\ <<m>>[1] = m
      OBVIOUS
    <3> QED BY <1>1, <3>1 DEF OfNetworks
  <2> QED BY <1>1, <2>1, <2>2, AccountedMoves
<1>2. ASSUME UNCHANGED <<cache, networks, muddled>>, NEW op, op # "notify", Message(op),
             NEW e, Moves(dataQueue, dataQueue', 1, e), AllIn(e, Updates)
      PROVE  Accounted'
  <2>1. \A n \in 1..Len(e) : ~OfNetworks(e[n])
    BY <1>2 DEF AllIn, Updates, OfNetworks
  <2>2. ~OfNetworks(dataQueue[1])
    BY <1>0, <1>2, HeadIs DEF OfNetworks
  <2> QED BY <1>2, <2>1, <2>2, AccountedMoves
<1>3. ASSUME UNCHANGED <<dataQueue, cache, networks, muddled>> PROVE Accounted'
  BY <1>3 DEF Accounted
<1>4. CASE UNCHANGED <<dataVars, xtraVars>>
  BY <1>3, <1>4 DEF dataVars, dataGhosts
<1>5. CASE Calling
  BY <1>5, CallingAccounted
<1>6. CASE Handling /\ ~HandleNotify
  <2>1. /\ cache' = cache
        /\ \E op : op # "notify" /\ Message(op)
    BY <1>6 DEF Handling, HandleSubscribeReq, HandleUnsubscribeReq, HandleUnsubscribeAllReq,
         HandleUpdateSubscriptionReq, SetSubsObj
  <2>2. PICK op : TakesFirst(op)
    BY <1>6, HandlingIs
  <2>3. PICK e : Moves(dataQueue, dataQueue', 1, e) /\ AllIn(e, Updates)
    BY <2>2 DEF TakesFirst
  <2>4. UNCHANGED <<networks, muddled>>
    BY <2>2 DEF TakesFirst
  <2> QED BY <1>2, <2>1, <2>3, <2>4
<1>7. CASE HandleNotify
  <2>1. PICK op : TakesFirst(op)
    BY <1>7, HandlingIs DEF Handling
  <2>2. PICK e : Moves(dataQueue, dataQueue', 1, e) /\ AllIn(e, Updates)
    BY <2>1 DEF TakesFirst
  <2>3. UNCHANGED <<networks, muddled>>
    BY <2>1 DEF TakesFirst
  <2>4. \A n \in 1..Len(e) : ~OfNetworks(e[n])
    BY <2>2 DEF AllIn, Updates, OfNetworks
  <2>5. /\ Message("notify") /\ cache' = [cache EXCEPT ![head.item] = Recorded(head.item, head.content)]
    BY <1>7 DEF HandleNotify
  <2>6. head = dataQueue[1] /\ head.op = "notify"
    BY <1>0, <2>5, HeadIs
  <2>7. cache'[NETWORKINFO] = IF head.item = NETWORKINFO THEN Recorded(NETWORKINFO, head.content)
                              ELSE cache[NETWORKINFO]
    BY <1>0, <2>5 DEF DataTyped, Knowledge
  <2>8. OfNetworks(dataQueue[1]) <=> head.item = NETWORKINFO
    BY <2>6 DEF OfNetworks
  <2> HIDE DEF head
  <2> QED BY <2>2, <2>3, <2>4, <2>6, <2>7, <2>8, AccountedMoves
<1>8. CASE HandleOsObserverUpdateMsg \/ HandleStatusRequestMsg
  <2>1. /\ dataQueue' = Tail(dataQueue) /\ UNCHANGED <<cache, networks, muddled>>
        /\ \E op : op # "notify" /\ Message(op)
    BY <1>8 DEF HandleOsObserverUpdateMsg, HandleUpdate, HandleStatusRequestMsg, dataGhosts
  <2>2. Moves(dataQueue, dataQueue', 1, <<>>)
    BY <1>0, <2>1, QueueTaken
  <2>3. AllIn(<<>>, Updates)
    BY SqEmpty DEF AllIn
  <2> QED BY <1>2, <2>1, <2>2, <2>3
<1>9. ASSUME NEW updated, AskStatus(updated), UNCHANGED <<cache, networks, muddled>> PROVE Accounted'
  <2> DEFINE m == [op |-> "requestStatus", updated |-> updated]
  <2>1. m.op # "notify" /\ dataQueue' = Append(dataQueue, m)
    BY <1>9 DEF AskStatus, Post
  <2> HIDE DEF m
  <2> QED BY <1>1, <1>9, <2>1
<1>10. CASE DaemonStarts
  BY <1>9, <1>10 DEF DaemonStarts, dataGhosts
<1>11. CASE DaemonDies
  BY <1>3, <1>11 DEF DaemonDies, dataGhosts
<1>12. CASE DelayExpires
  <2>1. /\ IF daemon.up THEN AskStatus(daemon.lock # NONE) ELSE UNCHANGED dataQueue
        /\ UNCHANGED <<cache, networks, muddled>>
    BY <1>12 DEF DelayExpires, dataGhosts
  <2> QED BY <1>3, <1>9, <2>1
<1>13. CASE updateLockStatus
  BY <1>3, <1>13 DEF updateLockStatus, dataGhosts
<1>14. CASE Corrections
  BY <1>3, <1>14, CorrectionsTyped DEF DataLeft, dataGhosts
<1> QED BY <1>4, <1>5, <1>6, <1>7, <1>8, <1>10, <1>11, <1>12, <1>13, <1>14 DEF XtraNext

-----------------------------------------------------------------------------

IStatus == StatusTypes /\ Subscribed /\ Delivered /\ Accounted /\ Heard /\ Sourced

\* At the start.
LEMMA StatusInit == XtraInit => IStatus
BY TypesInit, SubscribedInit, DeliveredInit, AccountedInit, HeardInit DEF IStatus

\* Each step.
LEMMA StatusNext == IStatus /\ [XtraNext]_<<dataVars, xtraVars>> => IStatus'
<1>1. SUFFICES ASSUME IStatus, [XtraNext]_<<dataVars, xtraVars>> PROVE IStatus'
  OBVIOUS
<1>2. StatusTypes /\ Subscribed /\ Delivered /\ Accounted /\ Heard /\ Sourced
  BY <1>1 DEF IStatus
<1>3. StatusTypes'
  BY <1>1, <1>2, TypesNext
<1>4. Subscribed'
  BY <1>1, <1>2, SubscribedNext
<1>5. Delivered'
  BY <1>1, <1>2, <1>3, DeliveredNext
<1>6. Accounted'
  BY <1>1, <1>2, AccountedNext
<1>7. Heard' /\ Sourced'
  BY <1>1, <1>2, DaemonNext
<1> QED BY <1>3, <1>4, <1>5, <1>6, <1>7 DEF IStatus

\* With no message under way the report is that of the networks.
LEMMA ReportTold == StatusTypes /\ Accounted => NetworksRecorded
<1>1. SUFFICES ASSUME StatusTypes, Accounted, dataQueue = <<>>, ~muddled, cache[NETWORKINFO] # NONE
               PROVE  LET report == cache[NETWORKINFO]
                          listed == {report.mAllNetworkHandles[n] : n \in Slots} \ {Unknown}
                      IN  listed = Range(networks) /\ report.mAllTypes = TypesOf(networks)
  BY DEF NetworksRecorded
<1> DEFINE report == cache[NETWORKINFO]
<1>2. PICK h : Path(h, dataQueue, networks, report)
  BY <1>1 DEF Accounted
<1>3. Len(dataQueue) = 0
  BY <1>1, SqEmpty
<1>4. 1 \in 1..(Len(dataQueue) + 1) /\ Len(dataQueue) + 1 = 1
  BY <1>3
<1>5. Fits(networks) /\ Shown(networks, report)
  BY <1>2, <1>4 DEF Path
<1> HIDE DEF report
<1>6. report.mAllNetworkHandles = Table(networks) /\ report.mAllTypes = TypesOf(networks)
  BY <1>1, <1>5 DEF Shown, report
<1>7. /\ Len(networks) \in Nat /\ 1..Len(networks) \subseteq Slots
      /\ \A n \in 1..Len(networks) :
           Table(networks)[n] = networks[n] /\ networks[n].handle # NONE
      /\ \A n \in Slots : n > Len(networks) => Table(networks)[n] = Unknown
  BY <1>5, ScannedTable
<1>8. Range(networks) = {networks[n] : n \in 1..Len(networks)}
  BY <1>5, ListIs DEF Fits
<1> DEFINE listed == {report.mAllNetworkHandles[n] : n \in Slots} \ {Unknown}
<1>9. ASSUME NEW a \in listed PROVE a \in Range(networks)
  <2>1. PICK n \in Slots : a = Table(networks)[n]
    BY <1>6
  <2>2. n \in 1..Len(networks)
    BY <1>7, <2>1 DEF Slots
  <2> QED BY <1>7, <1>8, <2>1, <2>2
<1>10. ASSUME NEW a \in Range(networks) PROVE a \in listed
  <2>1. PICK n \in 1..Len(networks) : a = networks[n]
    BY <1>8
  <2>2. n \in Slots /\ a = report.mAllNetworkHandles[n] /\ a.handle # NONE
    BY <1>6, <1>7, <2>1
  <2>3. a # Unknown
    BY <2>2 DEF Unknown
  <2> QED BY <2>2, <2>3
<1>11. listed = Range(networks)
  BY <1>9, <1>10
<1> QED BY <1>6, <1>11 DEF report

\* With no message under way everybody knows.
LEMMA ToldAll == IStatus => StatusTold
<1>1. SUFFICES ASSUME IStatus PROVE StatusTold
  OBVIOUS
<1>2. StatusTypes /\ Subscribed /\ Delivered /\ Accounted /\ Heard /\ Sourced
  BY <1>1 DEF IStatus
<1>3. SubscriptionsAgree
  BY <1>2 DEF Subscribed
<1>4. SubscribersTold
  <2>1. SUFFICES ASSUME dataQueue = <<>>, NEW c \in Observers \ updaters, NEW i \in clientToDataItems[c]
                 PROVE  known[c][i] = cache[i]
    BY DEF SubscribersTold
  <2>2. CurrentIn(dataQueue, c, i, cache[i], known[c][i])
    BY <1>2, <2>1 DEF Delivered
  <2>3. Len(dataQueue) = 0
    BY <2>1, SqEmpty
  <2> QED BY <2>2, <2>3 DEF CurrentIn
<1>5. NetworksRecorded
  BY <1>2, ReportTold
<1>6. dataQueue = <<>> => ~RequestWaits
  BY SqEmpty DEF RequestWaits
<1>7. DaemonKnows
  BY <1>2, <1>6 DEF Heard, Informed, DaemonKnows
<1>8. SourceIsWanted
  <2>1. SUFFICES ASSUME dataQueue = <<>>, halinit, daemon.up, ~superseded
                 PROVE  /\ daemon.source = (IF SourceStarted THEN ntripParams ELSE NONE)
                        /\ SourceStarted => sessions > 0 /\ "ENABLE_NTRIP_COMMAND" \in mDgnssState
    BY DEF SourceIsWanted, SourceStarted
  <2> QED BY <1>2, <1>6, <2>1 DEF Sourced
<1> QED BY <1>3, <1>4, <1>5, <1>7, <1>8 DEF StatusTold

\* The maps of subscriptions agree; when no message is under way each observer,
\* and the XTRA daemon behind one of them, knows what was reported, the report
\* of the networks is that of those there are, and the daemon runs the source
\* that is wanted, however the calls, the events and the daemon's deaths are
\* ordered.
\* (SystemStatusOsObserver, SystemStatusNetworkInfo::collate, XtraSystemStatusObserver)
THEOREM StatusSafe == XtraSpec => []StatusTold
<1>1. XtraSpec => []IStatus
  BY StatusInit, StatusNext, PTL DEF XtraSpec
<1> QED BY <1>1, ToldAll, PTL
================================================================================
