------------------------------ MODULE NiRequests ------------------------------
(***************************************************************************)
(* Network initiated requests of the GNSS HAL (gps/gnss/GnssAdapter.cpp).  *)
(*                                                                         *)
(* The network asks, through the modem, whether the phone may be located.  *)
(* The adapter decides some requests by itself and shows the others to the *)
(* framework, under a new id: one of emergency SUPL (sessionEs) and one    *)
(* other (session) at a time.  For each it starts a thread, niThreadProc,  *)
(* that waits for the user's response or for the time to run out, and then *)
(* posts the answer to the adapter, which informs the modem.               *)
(*                                                                         *)
(* The adapter's thread (MsgTask) and the sessions' threads share the two  *)
(* records of NiData.  tLock is held for the response and its flag; the    *)
(* adapter tests rawRequest and reqID without it, and the threads reset    *)
(* respTimeLeft and reqID after they gave it back.                         *)
(***************************************************************************)
EXTENDS Integers, Sequences

CONSTANTS Cases,         \* [locked, suplEsNo, cpMtlrEs, leaves : BOOLEAN, notes : Seq(Note),
                         \*  answers : bound on the framework's responses]
          MaxNotes,      \* bound: notes of a case
          Patience       \* respTimeLeft of a session

Types == {"supl", "es", "cp"}
Note == [type : Types, emergency : BOOLEAN, override : BOOLEAN]
Sessions == {"session", "sessionEs"}
Responses == {"accept", "deny", "noResponse", "ignore"}

ASSUME CasesAssumption ==
    /\ MaxNotes \in Nat /\ Patience \in Nat
    /\ \A c \in Cases : c.notes \in Seq(Note) /\ Len(c.notes) <= MaxNotes

VARIABLES case,          \* configuration, whether the client leaves, what the network asks
          arrived,       \* how many of the case's notes have arrived
          niMsgs,        \* the adapter's queue
          working,       \* what its handler still has to record: <<[session, resp]>>
          niCb,          \* a client with a gnssNiCb is registered
          niData,        \* session -> members of NiSession; rawRequest 0 is NULL
          reqIDCounter,
          shown,         \* id -> the note the framework was shown under it
          responses,     \* responses the framework gave: sequence of [id, resp]
          niThread,      \* note -> where its niThreadProc is, time left, what it took
          informed,      \* note -> what the modem was informed
          late,          \* sessions with a response recorded when it was over
          disturbed      \* notes whose session took what belonged to another

handlerVars == <<niMsgs, working, niCb, reqIDCounter, shown, responses>>
niVars == <<case, arrived, handlerVars, niData, niThread, informed, late, disturbed>>

Notes == DOMAIN case.notes
SessionOf(n) == IF case.notes[n].type = "es" THEN "sessionEs" ELSE "session"

Idle == [at |-> "none", left |-> 0, resp |-> "ignore"]

-----------------------------------------------------------------------------
(* The adapter's thread.                                                     *)

informNiResponse(n, resp) == informed' = [informed EXCEPT ![n] = Append(@, resp)]

\* What a handler records is recorded under tLock, step by step.
Record ==
    /\ working # <<>>
    /\ LET k == Head(working).session
       IN  /\ niData' = [niData EXCEPT ![k].resp = Head(working).resp, ![k].respRecvd = TRUE]
           /\ late' = IF niData[k].rawRequest = 0 THEN late \cup {k} ELSE late
    /\ working' = Tail(working)
    /\ UNCHANGED <<case, arrived, niMsgs, niCb, reqIDCounter, shown, responses, niThread,
                   informed, disturbed>>

LockedOut(note) ==
    case.locked /\ note.type \in {"supl", "es"} /\ ~note.emergency /\ ~note.override

\* MsgReportNiNotify's decision; otherwise the framework is asked.
Decision(note) ==
    CASE LockedOut(note) -> "deny"
      [] note.type = "es" /\ ~note.emergency /\ ~case.suplEsNo -> "deny"
      [] note.type = "cp" /\ note.emergency /\ case.cpMtlrEs -> "accept"
      [] OTHER -> "ask"

Free(k) == niData[k].rawRequest = 0 /\ (k = "session" => niData["sessionEs"].rawRequest = 0)

\* The request is saved, its thread created, and the framework told.
Open(n, k) ==
    /\ niData' = [niData EXCEPT ![k].rawRequest = n, ![k].reqID = reqIDCounter + 1,
                                ![k].respTimeLeft = Patience]
    /\ reqIDCounter' = reqIDCounter + 1
    /\ niThread' = [niThread EXCEPT ![n].at = "start"]
    /\ shown' = Append(shown, n)
    /\ disturbed' = IF k \in late THEN disturbed \cup {n} ELSE disturbed

IgnoreOther ==
    IF niData["session"].rawRequest = 0 THEN <<>>
    ELSE <<[session |-> "session", resp |-> "ignore"]>>

\* Without a client an emergency is accepted, and any other request forgotten;
\* as is one that comes while another is open.
requestNiNotify(n) ==
    \/ /\ ~niCb
       /\ IF case.notes[n].type = "es"
          THEN informNiResponse(n, "accept") /\ working' = IgnoreOther
          ELSE UNCHANGED <<informed, working>>
       /\ UNCHANGED <<niData, reqIDCounter, niThread, shown, disturbed>>
    \/ /\ niCb
       /\ IF Free(SessionOf(n)) THEN Open(n, SessionOf(n))
          ELSE UNCHANGED <<niData, reqIDCounter, niThread, shown, disturbed>>
       /\ UNCHANGED <<informed, working>>

Handle(op) ==
    /\ working = <<>> /\ niMsgs # <<>> /\ Head(niMsgs).op = op
    /\ niMsgs' = Tail(niMsgs)
    /\ UNCHANGED <<case, arrived, responses, late>>

ReportNiNotify ==
    /\ Handle("notify")
    /\ LET n == Head(niMsgs).note
       IN  IF Decision(case.notes[n]) = "ask" THEN requestNiNotify(n)
           ELSE /\ informNiResponse(n, Decision(case.notes[n]))
                /\ UNCHANGED <<working, niData, reqIDCounter, niThread, shown, disturbed>>
    /\ UNCHANGED niCb

Matches(k, id) == niData[k].reqID = id /\ niData[k].rawRequest # 0

\* The user's response.  One that accepts an emergency ends the other session.
GnssNiResponse ==
    /\ Handle("response")
    /\ LET m == Head(niMsgs)
           to(k) == <<[session |-> k, resp |-> m.resp]>>
       IN  working' = IF niCb /\ Matches("sessionEs", m.id)
                      THEN (IF m.resp = "accept" THEN IgnoreOther ELSE <<>>) \o to("sessionEs")
                      ELSE IF niCb /\ Matches("session", m.id) THEN to("session")
                      ELSE <<>>
    /\ UNCHANGED <<niCb, niData, reqIDCounter, niThread, shown, informed, disturbed>>

\* The answer a session's thread has posted.
InformNiResponse ==
    /\ Handle("inform")
    /\ informNiResponse(Head(niMsgs).note, Head(niMsgs).resp)
    /\ UNCHANGED <<working, niCb, niData, reqIDCounter, niThread, shown, disturbed>>

eraseClient ==
    /\ Handle("removeClient")
    /\ niCb' = FALSE
    /\ UNCHANGED <<working, niData, reqIDCounter, niThread, shown, informed, disturbed>>

NiAdapter == Record \/ ReportNiNotify \/ GnssNiResponse \/ InformNiResponse \/ eraseClient

-----------------------------------------------------------------------------
(* niThreadProc.                                                             *)

At(n, place) == niThread[n].at = place
Goes(n, place) == niThread' = [niThread EXCEPT ![n].at = place]

\* Mutant: the flag of the response is not reset for the next session.
FinishUnreset(n, resp) ==
    LET k == SessionOf(n)
    IN  /\ niData' = [niData EXCEPT ![k].resp = resp, ![k].rawRequest = 0]
        /\ niThread' = [niThread EXCEPT ![n] = [at |-> "reset", left |-> 0, resp |-> resp]]
        /\ late' = late \ {k}

\* The end of the wait, still under tLock.
Finish(n, resp) ==
    LET k == SessionOf(n)
    IN  /\ niData' = [niData EXCEPT ![k].respRecvd = FALSE, ![k].resp = resp,
                                    ![k].rawRequest = 0]
        /\ niThread' = [niThread EXCEPT ![n] = [at |-> "reset", left |-> 0, resp |-> resp]]
        /\ late' = late \ {k}

\* The wait begins, unless a response is there already.
StartWait(n) ==
    /\ At(n, "start")
    /\ IF niData[SessionOf(n)].respRecvd THEN Finish(n, niData[SessionOf(n)].resp)
       ELSE /\ niThread' = [niThread EXCEPT ![n].at = "waiting",
                                            ![n].left = niData[SessionOf(n)].respTimeLeft]
            /\ UNCHANGED <<niData, late>>
    /\ UNCHANGED <<case, arrived, handlerVars, informed, disturbed>>

Signalled(n) ==
    /\ At(n, "waiting") /\ niData[SessionOf(n)].respRecvd
    /\ Finish(n, niData[SessionOf(n)].resp)
    /\ UNCHANGED <<case, arrived, handlerVars, informed, disturbed>>

\* Mutant: the loop goes on when the time is up.
TimedOutMutant(n) == FALSE /\ UNCHANGED niVars

\* The time may be up while the response is recorded: it is overwritten.
TimedOut(n) ==
    /\ At(n, "waiting") /\ niThread[n].left = 0
    /\ Finish(n, "noResponse")
    /\ UNCHANGED <<case, arrived, handlerVars, informed, disturbed>>

\* Without the lock: by now the session may be the next request's.
Disturb(n) ==
    disturbed' = IF niData[SessionOf(n)].rawRequest = 0 THEN disturbed
                 ELSE disturbed \cup {niData[SessionOf(n)].rawRequest}

ResetTimeLeft(n) ==
    /\ At(n, "reset")
    /\ niData' = [niData EXCEPT ![SessionOf(n)].respTimeLeft = 0]
    /\ Goes(n, "resetId") /\ Disturb(n)
    /\ UNCHANGED <<case, arrived, handlerVars, informed, late>>

ResetReqID(n) ==
    /\ At(n, "resetId")
    /\ niData' = [niData EXCEPT ![SessionOf(n)].reqID = 0]
    /\ Goes(n, "post") /\ Disturb(n)
    /\ UNCHANGED <<case, arrived, handlerVars, informed, late>>

gnssNiResponseCommand(n) ==
    /\ At(n, "post")
    /\ niMsgs' = IF niThread[n].resp = "ignore" THEN niMsgs
                 ELSE Append(niMsgs, [op |-> "inform", note |-> n, resp |-> niThread[n].resp])
    /\ Goes(n, "done")
    /\ UNCHANGED <<case, arrived, working, niCb, reqIDCounter, shown, responses, niData, informed,
                   late, disturbed>>

niThreadProc(n) ==
    \/ StartWait(n) \/ Signalled(n) \/ TimedOut(n)
    \/ ResetTimeLeft(n) \/ ResetReqID(n) \/ gnssNiResponseCommand(n)

NiTick ==
    /\ \E n \in Notes : At(n, "waiting") /\ niThread[n].left > 0
    /\ niThread' = [n \in 1..MaxNotes |->
                      IF At(n, "waiting") /\ niThread[n].left > 0
                      THEN [niThread[n] EXCEPT !.left = @ - 1] ELSE niThread[n]]
    /\ UNCHANGED <<case, arrived, handlerVars, niData, informed, late, disturbed>>

-----------------------------------------------------------------------------
(* The modem and the framework: external.                                    *)

requestNiNotifyEvent ==
    /\ arrived < Len(case.notes)
    /\ arrived' = arrived + 1
    /\ niMsgs' = Append(niMsgs, [op |-> "notify", note |-> arrived + 1])
    /\ UNCHANGED <<case, working, niCb, reqIDCounter, shown, responses, niData, niThread,
                   informed, late, disturbed>>

\* A user may answer late, and twice.
gnssNiRespond ==
    /\ Len(responses) < case.answers
    /\ \E id \in DOMAIN shown, resp \in {"accept", "deny"} :
         /\ responses' = Append(responses, [id |-> id, resp |-> resp])
         /\ niMsgs' = Append(niMsgs, [op |-> "response", id |-> id, resp |-> resp])
    /\ UNCHANGED <<case, arrived, working, niCb, reqIDCounter, shown, niData, niThread, informed,
                   late, disturbed>>

clientLeaves ==
    /\ case.leaves /\ niCb /\ \A i \in DOMAIN niMsgs : niMsgs[i].op # "removeClient"
    /\ niMsgs' = Append(niMsgs, [op |-> "removeClient"])
    /\ UNCHANGED <<case, arrived, working, niCb, reqIDCounter, shown, responses, niData, niThread,
                   informed, late, disturbed>>

-----------------------------------------------------------------------------
NiInit ==
    /\ case \in Cases
    /\ arrived = 0 /\ niMsgs = <<>> /\ working = <<>> /\ niCb = TRUE
    /\ niData = [k \in Sessions |-> [rawRequest |-> 0, reqID |-> 0, resp |-> "ignore",
                                     respRecvd |-> FALSE, respTimeLeft |-> 0]]
    /\ reqIDCounter = 0 /\ shown = <<>> /\ responses = <<>>
    /\ niThread = [n \in 1..MaxNotes |-> Idle]
    /\ informed = [n \in 1..MaxNotes |-> <<>>]
    /\ late = {} /\ disturbed = {}

NiNext ==
    \/ NiAdapter
    \/ \E n \in Notes : niThreadProc(n)
    \/ NiTick
    \/ requestNiNotifyEvent \/ gnssNiRespond \/ clientLeaves

\* The adapter's thread and those of the sessions run, and the clock.
NiFairness ==
    /\ WF_niVars(NiAdapter) /\ WF_niVars(NiTick)
    /\ \A n \in 1..MaxNotes : WF_niVars(niThreadProc(n))

NiSpec == NiInit /\ [][NiNext]_niVars

-----------------------------------------------------------------------------
(* Properties.                                                               *)

NiTypeOK ==
    /\ niData \in [Sessions -> [rawRequest : 0..Len(case.notes), reqID : 0..reqIDCounter,
                                resp : Responses, respRecvd : BOOLEAN,
                                respTimeLeft : 0..Patience]]
    /\ reqIDCounter = Len(shown)

\* What the user said of note n.
Said(n) == {responses[i].resp : i \in {j \in DOMAIN responses : shown[responses[j].id] = n}}

Asked(n) == ~At(n, "none")

\* A request that occupies a session is waited for by exactly its own thread,
\* so that the session is given back; the modem is informed at most once of
\* each; and unless the session took what belonged to another, under the id the
\* framework knows, and of what the user said of this request, if not that he
\* said nothing in time.  (requestNiNotify, niThreadProc, gnssNiResponseCommand)
NiAnswered ==
    /\ NiTypeOK
    /\ \A n \in Notes :
         /\ (niData[SessionOf(n)].rawRequest = n) = (At(n, "start") \/ At(n, "waiting"))
         /\ Len(informed[n]) <= 1
         /\ Asked(n) /\ n \notin disturbed =>
              /\ niData[SessionOf(n)].rawRequest = n => shown[niData[SessionOf(n)].reqID] = n
              /\ informed[n] # <<>> => Head(informed[n]) \in Said(n) \cup {"noResponse"}

\* Every request that is shown to the framework is answered to the modem in the
\* end, whether the user responds, the client leaves or another emergency comes
\* first, unless an accepted emergency made it ignored.
NiEnds ==
    \A n \in 1..MaxNotes :
        Asked(n) ~> (informed[n] # <<>> \/ (At(n, "done") /\ niThread[n].resp = "ignore"))
=============================================================================
