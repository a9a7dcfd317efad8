-------------------------- MODULE PowerHintSession --------------------------
(***************************************************************************)
(* ADPF hint sessions: PowerHintSession, its StaleHandler, and the         *)
(* PowerSessionManager that counts the threads of all sessions and turns   *)
(* the top-app boost off while a session is active.                        *)
(*                                                                         *)
(* The binder thread, the only one of the service, carries out the calls;  *)
(* PowerHintMonitor's looper handles the messages they leave.  A step is   *)
(* what happens under one lock or one access to an atomic.  The uclamp     *)
(* value is kept as boosted or not: what reportActualWorkDuration computes *)
(* it to be is left open.                                                  *)
(***************************************************************************)
EXTENDS Integers, Sequences, FiniteSets, FiniteSetsExt

CONSTANTS
  Sessions,
  Tids,
  TidsOf,       \* session -> its threadIds
  StaleMs,      \* kAdpfRate * sStaleTimeFactor
  MaxMessages   \* bound: messages to the manager before another call

ASSUME ConstantsAssumption ==
  /\ IsFiniteSet(Sessions)
  /\ TidsOf \in [Sessions -> Seq(Tids)]
  /\ StaleMs \in Nat \ {0}
  /\ MaxMessages \in Nat \ {0}

\* The delay of a message that is not in the looper.
NoTimer == -1

VARIABLES
  phase,              \* session -> not created yet, open or closed
  is_active,          \* session -> AppHintDesc::is_active
  boosted,            \* session -> current_min is above 0
  age,                \* session -> time since mLastUpdatedTime, while it matters
  mIsMonitoringStale, \* session -> StaleHandler::mIsMonitoringStale
  timer,              \* session -> what is left of its StaleHandler's message
  messages,           \* messages to the manager in the looper
  mTidRefCountMap,    \* thread -> sessions counted, for the threads in the map
  mSessions,
  mActive,
  hintDisabled,       \* the hint that disables the top-app boost was done
  binder,             \* the call in progress on the binder thread
  monitor,            \* what PowerHintMonitor's thread is at
  reported            \* history: open sessions that reported since they were boosted

sessionVars == <<phase, is_active, boosted, age, reported>>
staleVars == <<mIsMonitoringStale, timer>>
managerVars == <<mTidRefCountMap, mSessions, mActive, hintDisabled>>
vars == <<sessionVars, staleVars, messages, managerVars, binder, monitor>>

Ops == {"create", "pause", "resume", "close", "report"}

Idle == [op |-> "idle"]

\* Types, with no more than one message of each StaleHandler in the looper.
\* (PowerHintSession, PowerSessionManager)
TypeOK ==
  /\ phase \in [Sessions -> {"none", "open", "closed"}]
  /\ is_active \in [Sessions -> BOOLEAN]
  /\ boosted \in [Sessions -> BOOLEAN]
  /\ age \in [Sessions -> 0 .. StaleMs + 1]
  /\ mIsMonitoringStale \in [Sessions -> BOOLEAN]
  /\ timer \in [Sessions -> {NoTimer} \cup 0 .. StaleMs]
  /\ messages \in Nat
  /\ DOMAIN mTidRefCountMap \subseteq Tids
  /\ \A t \in DOMAIN mTidRefCountMap : mTidRefCountMap[t] \in Int
  /\ mSessions \subseteq Sessions
  /\ mActive \in BOOLEAN
  /\ hintDisabled \in BOOLEAN
  /\ binder \in {Idle} \cup [op : Ops, session : Sessions, step : 2 .. 4]
  /\ monitor \in {Idle}
       \cup [op : {"repost"}, session : Sessions, delay : 0 .. StaleMs]
       \cup [op : {"unclamp", "tell"}, session : Sessions]
       \cup [op : {"scan"}, left : SUBSET Sessions]
       \cup [op : {"apply"}]
  /\ reported \in [Sessions -> BOOLEAN]

Init ==
  /\ phase = [s \in Sessions |-> "none"]
  /\ is_active = [s \in Sessions |-> TRUE]
  /\ boosted = [s \in Sessions |-> FALSE]
  /\ age = [s \in Sessions |-> 0]
  /\ mIsMonitoringStale = [s \in Sessions |-> FALSE]
  /\ timer = [s \in Sessions |-> NoTimer]
  /\ messages = 0
  /\ mTidRefCountMap = <<>>
  /\ mSessions = {}
  /\ mActive = FALSE
  /\ hintDisabled = FALSE
  /\ binder = Idle
  /\ monitor = Idle
  /\ reported = [s \in Sessions |-> FALSE]

-----------------------------------------------------------------------------
(* Staleness: the manager and the StaleHandler do not compare alike *)

isStale(s) == age[s] >= StaleMs

\* Mutant: off by one.
OutdatedMutant(s) == age[s] > StaleMs + 1

Outdated(s) == age[s] > StaleMs

-----------------------------------------------------------------------------
(* Calls on the binder thread *)

At(op, step) == binder # Idle /\ binder.op = op /\ binder.step = step

Proceed == binder' = [binder EXCEPT !.step = @ + 1]
Finish == binder' = Idle

\* The manager's lock is taken while the monitor looks at the sessions.
LockFree == monitor.op # "scan"

\* updateUniveralBoostMode: a message to the manager.
updateUniveralBoostMode == messages' = messages + 1

setUclamp(s, min) == boosted' = [boosted EXCEPT ![s] = min]

\* The binder thread is free for op, whose first step is the one that calls.
Begin(op, s) ==
  /\ binder = Idle
  /\ messages < MaxMessages
  /\ binder' = [op |-> op, session |-> s, step |-> 2]

\* Nothing but close itself looks at mSessionClosed.
Alive(s) == phase[s] \in {"open", "closed"}

Counted == DOMAIN mTidRefCountMap

Occurrences(s, t) == {i \in DOMAIN TidsOf[s] : TidsOf[s][i] = t}

\* The occurrences of t that addPowerSession counts: from the first on that finds
\* t in the map or enters it there, as outcomes[i], SetTaskProfiles, says.
CountedAdds(s, t, outcomes) ==
  {i \in Occurrences(s, t) :
     t \in Counted \/ \E j \in Occurrences(s, t) : j <= i /\ outcomes[j]}

\* The map after addPowerSession; "Unexpected zero/negative RefCount" leaves the
\* count alone.
AfterAdds(s, outcomes) ==
  [t \in Counted \cup {t \in Tids : CountedAdds(s, t, outcomes) # {}} |->
     IF t \notin Counted THEN Cardinality(CountedAdds(s, t, outcomes))
     ELSE IF mTidRefCountMap[t] <= 0 THEN mTidRefCountMap[t]
     ELSE mTidRefCountMap[t] + Cardinality(CountedAdds(s, t, outcomes))]

\* Mutant: an entry that counts nobody is kept.
StillHeldMutant(s, t) ==
  Occurrences(s, t) = {} \/ mTidRefCountMap[t] >= Cardinality(Occurrences(s, t))

\* An entry of the map outlives removePowerSession.
StillHeld(s, t) ==
  Occurrences(s, t) = {} \/ mTidRefCountMap[t] > Cardinality(Occurrences(s, t))

AfterRemoves(s) ==
  [t \in {t \in Counted : StillHeld(s, t)} |->
     mTidRefCountMap[t] - Cardinality(Occurrences(s, t))]

\* The constructor, up to addPowerSession.
create(s) ==
  /\ phase[s] = "none"
  /\ LockFree
  /\ Begin("create", s)
  /\ phase' = [phase EXCEPT ![s] = "open"]
  /\ age' = [age EXCEPT ![s] = 0]
  /\ \E outcomes \in [DOMAIN TidsOf[s] -> BOOLEAN] : mTidRefCountMap' = AfterAdds(s, outcomes)
  /\ mSessions' = mSessions \cup {s}
  /\ UNCHANGED <<is_active, boosted, reported, staleVars, messages, mActive, hintDisabled, monitor>>

\* The boost of a session that is created or resumed.
initBoost ==
  /\ At("create", 2) \/ At("resume", 2)
  /\ LET s == binder.session
     IN  /\ setUclamp(s, TRUE)
         /\ reported' = [reported EXCEPT ![s] = FALSE]
  /\ IF binder.op = "create" THEN Finish ELSE Proceed
  /\ UNCHANGED <<phase, is_active, age, staleVars, messages, managerVars, monitor>>

pause(s) ==
  /\ Alive(s)
  /\ is_active[s]
  /\ Begin("pause", s)
  /\ setUclamp(s, FALSE)
  /\ UNCHANGED <<phase, is_active, age, reported, staleVars, messages, managerVars, monitor>>

setInactive ==
  /\ At("pause", 2)
  /\ is_active' = [is_active EXCEPT ![binder.session] = FALSE]
  /\ Proceed
  /\ UNCHANGED <<phase, boosted, age, reported, staleVars, messages, managerVars, monitor>>

resume(s) ==
  /\ Alive(s)
  /\ ~is_active[s]
  /\ Begin("resume", s)
  /\ is_active' = [is_active EXCEPT ![s] = TRUE]
  /\ UNCHANGED <<phase, boosted, age, reported, staleVars, messages, managerVars, monitor>>

\* close, up to removeMessages.
close(s) ==
  /\ phase[s] = "open"
  /\ Begin("close", s)
  /\ phase' = [phase EXCEPT ![s] = "closed"]
  /\ timer' = [timer EXCEPT ![s] = NoTimer]
  /\ reported' = [reported EXCEPT ![s] = FALSE]
  /\ UNCHANGED <<is_active, boosted, age, mIsMonitoringStale, messages, managerVars, monitor>>

closeBoost ==
  /\ At("close", 2)
  /\ setUclamp(binder.session, FALSE)
  /\ Proceed
  /\ UNCHANGED <<phase, is_active, age, reported, staleVars, messages, managerVars, monitor>>

removePowerSession ==
  /\ At("close", 3)
  /\ LockFree
  /\ mTidRefCountMap' = AfterRemoves(binder.session)
  /\ mSessions' = mSessions \ {binder.session}
  /\ Proceed
  /\ UNCHANGED <<sessionVars, staleVars, messages, mActive, hintDisabled, monitor>>

tellManager ==
  /\ At("pause", 3) \/ At("resume", 3) \/ At("close", 4)
  /\ updateUniveralBoostMode
  /\ Finish
  /\ UNCHANGED <<sessionVars, staleVars, managerVars, monitor>>

\* StaleHandler::handleMessage has mStaleLock.
StaleLockFree(s) ==
  monitor.op \in {"repost", "unclamp", "tell"} => monitor.session # s

\* Mutant: the timer is not armed again for a session that has been stale.
reportActualWorkDurationMutant(s) ==
  /\ Alive(s)
  /\ is_active[s]
  /\ StaleLockFree(s)
  /\ Begin("report", s)
  /\ age' = [age EXCEPT ![s] = 0]
  /\ messages' = IF Outdated(s) THEN messages + 1 ELSE messages
  /\ timer' = [timer EXCEPT ![s] = IF mIsMonitoringStale[s] \/ Outdated(s) THEN @ ELSE StaleMs]
  /\ mIsMonitoringStale' = [mIsMonitoringStale EXCEPT ![s] = TRUE]
  /\ reported' = [reported EXCEPT ![s] = phase[s] = "open"]
  /\ UNCHANGED <<phase, is_active, boosted, managerVars, monitor>>

\* reportActualWorkDuration, up to updateStaleTimer.
reportActualWorkDuration(s) ==
  /\ Alive(s)
  /\ is_active[s]
  /\ StaleLockFree(s)
  /\ Begin("report", s)
  /\ age' = [age EXCEPT ![s] = 0]
  /\ messages' = IF Outdated(s) THEN messages + 1 ELSE messages
  /\ timer' = [timer EXCEPT ![s] = IF mIsMonitoringStale[s] THEN @ ELSE StaleMs]
  /\ mIsMonitoringStale' = [mIsMonitoringStale EXCEPT ![s] = TRUE]
  /\ reported' = [reported EXCEPT ![s] = phase[s] = "open"]
  /\ UNCHANGED <<phase, is_active, boosted, managerVars, monitor>>

\* The PID controller asks for any value, or for a change too small to matter.
reportUclamp ==
  /\ At("report", 2)
  /\ \E min \in BOOLEAN : setUclamp(binder.session, min)
  /\ Finish
  /\ UNCHANGED <<phase, is_active, age, reported, staleVars, messages, managerVars, monitor>>

BinderStep ==
  \/ initBoost \/ setInactive \/ closeBoost \/ removePowerSession
  \/ tellManager \/ reportUclamp

-----------------------------------------------------------------------------
(* Messages on PowerHintMonitor's thread *)

\* StaleHandler::handleMessage takes mStaleLock and reads the clock.
StaleMessage(s) ==
  /\ monitor = Idle
  /\ timer[s] = 0
  /\ timer' = [timer EXCEPT ![s] = NoTimer]
  /\ monitor' = IF Outdated(s) THEN [op |-> "unclamp", session |-> s]
                ELSE [op |-> "repost", session |-> s, delay |-> StaleMs - age[s]]
  /\ UNCHANGED <<sessionVars, mIsMonitoringStale, messages, managerVars, binder>>

Repost ==
  /\ monitor.op = "repost"
  /\ timer' = [timer EXCEPT ![monitor.session] = monitor.delay]
  /\ monitor' = Idle
  /\ UNCHANGED <<sessionVars, mIsMonitoringStale, messages, managerVars, binder>>

\* Mutant: the handler says that it is not monitoring before it is through.
UnclampMutant ==
  /\ monitor.op = "unclamp"
  /\ setUclamp(monitor.session, FALSE)
  /\ mIsMonitoringStale' = [mIsMonitoringStale EXCEPT ![monitor.session] = FALSE]
  /\ monitor' = [op |-> "tell", session |-> monitor.session]
  /\ UNCHANGED <<phase, is_active, age, reported, timer, messages, managerVars, binder>>

\* setStale: the boost goes first, then the manager is told.
Unclamp ==
  /\ monitor.op = "unclamp"
  /\ setUclamp(monitor.session, FALSE)
  /\ monitor' = [op |-> "tell", session |-> monitor.session]
  /\ UNCHANGED <<phase, is_active, age, reported, staleVars, messages, managerVars, binder>>

\* Mutant: the manager is not told that the session is stale.
TellStaleMutant ==
  /\ monitor.op = "tell"
  /\ mIsMonitoringStale' = [mIsMonitoringStale EXCEPT ![monitor.session] = FALSE]
  /\ monitor' = Idle
  /\ UNCHANGED <<sessionVars, timer, messages, managerVars, binder>>

TellStale ==
  /\ monitor.op = "tell"
  /\ updateUniveralBoostMode
  /\ mIsMonitoringStale' = [mIsMonitoringStale EXCEPT ![monitor.session] = FALSE]
  /\ monitor' = Idle
  /\ UNCHANGED <<sessionVars, timer, managerVars, binder>>

\* PowerSessionManager::handleMessage takes mLock.
ManagerMessage ==
  /\ monitor = Idle
  /\ messages > 0
  /\ messages' = messages - 1
  /\ monitor' = [op |-> "scan", left |-> mSessions]
  /\ UNCHANGED <<sessionVars, staleVars, managerVars, binder>>

\* isAnySessionActive is through with the sessions.
Scanned(active) ==
  /\ mActive' = active
  /\ monitor' = IF active = mActive THEN Idle ELSE [op |-> "apply"]

\* One more session, in the order of an unordered_set; those that are active
\* may become inactive, or stale, behind its back.
Scan ==
  /\ monitor.op = "scan"
  /\ \/ monitor.left = {} /\ Scanned(FALSE)
     \/ \E s \in monitor.left :
          IF is_active[s] /\ ~isStale(s)
            THEN Scanned(TRUE)
            ELSE /\ monitor' = [monitor EXCEPT !.left = @ \ {s}]
                 /\ mActive' = mActive
  /\ UNCHANGED <<sessionVars, staleVars, messages, mTidRefCountMap, mSessions,
                 hintDisabled, binder>>

\* disableSystemTopAppBoost or enableSystemTopAppBoost
Apply ==
  /\ monitor.op = "apply"
  /\ hintDisabled' = mActive
  /\ monitor' = Idle
  /\ UNCHANGED <<sessionVars, staleVars, messages, mTidRefCountMap, mSessions, mActive, binder>>

MonitorStep == Repost \/ Unclamp \/ TellStale \/ Scan \/ Apply

-----------------------------------------------------------------------------

\* Assumed of the scheduler: a report is over before its session is stale.
ReportIsShort == At("report", 2) => age[binder.session] < StaleMs

\* One millisecond of steady_clock, and of the looper.
Tick ==
  /\ ReportIsShort
  /\ age' = [s \in Sessions |->
       IF phase[s] # "none" /\ age[s] <= StaleMs THEN age[s] + 1 ELSE age[s]]
  /\ timer' = [s \in Sessions |-> IF timer[s] > 0 THEN timer[s] - 1 ELSE timer[s]]
  /\ UNCHANGED <<phase, is_active, boosted, reported, mIsMonitoringStale, messages,
                 managerVars, binder, monitor>>

Next ==
  \/ \E s \in Sessions :
       \/ create(s)
       \/ pause(s)
       \/ resume(s)
       \/ close(s)
       \/ reportActualWorkDuration(s)
       \/ StaleMessage(s)
  \/ BinderStep
  \/ MonitorStep
  \/ ManagerMessage
  \/ Tick

Spec == Init /\ [][Next]_vars

\* Both threads run, the looper handles what is due in turn, the clock
\* advances.  Nobody has to call.
Fairness ==
  /\ WF_vars(BinderStep)
  /\ WF_vars(MonitorStep)
  /\ WF_vars(ManagerMessage)
  /\ \A s \in Sessions : WF_vars(StaleMessage(s))
  /\ WF_vars(Tick)

FairSpec == Spec /\ Fairness

-----------------------------------------------------------------------------
(* Properties *)

HandlerAt(s) == monitor.op \in {"repost", "unclamp", "tell"} /\ monitor.session = s

\* A StaleHandler that says it is not monitoring has no message in the looper
\* and is not handling one: no session ever has two timers.
\* (updateStaleTimer, StaleHandler::handleMessage)
OneTimer ==
  \A s \in Sessions :
    ~mIsMonitoringStale[s] => timer[s] = NoTimer /\ ~HandlerAt(s)

\* A boost that a report has asked for is watched: its session's timer is in
\* the looper, or its handler is about to decide, until the session is closed.
\* (reportActualWorkDuration, StaleHandler::handleMessage)
BoostIsWatched ==
  \A s \in Sessions :
    reported[s] /\ boosted[s] =>
      timer[s] # NoTimer \/ HandlerAt(s)

\* How often sessions of the set name t.
Named(t) == UNION {{s} \X Occurrences(s, t) : s \in mSessions}
Holders(t) == Cardinality(Named(t))

\* The entry of a thread is positive and counts no session that is gone, even
\* when its profile could not be set for some.  (addPowerSession,
\* removePowerSession; "Error! Unexpected zero/negative RefCount")
RefCountsHeld ==
  \A t \in Counted : 1 <= mTidRefCountMap[t] /\ mTidRefCountMap[t] <= Holders(t)

NoMoreCalls == <>[][binder # Idle \/ binder' = Idle]_vars

\* Once nobody calls any more, sessions that have reported lose their boost,
\* and when those were all that is active, the top-app boost is on again.
\* (setStale, isAnySessionActive)
Settles ==
  NoMoreCalls =>
    <>[](/\ \A s \in Sessions : reported[s] => ~boosted[s]
         /\ (\A s \in Sessions : phase[s] = "open" /\ is_active[s] => reported[s])
              => ~hintDisabled)

=============================================================================
