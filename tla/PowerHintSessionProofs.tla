----------------------- MODULE PowerHintSessionProofs -----------------------
(***************************************************************************)
(* Proofs about PowerHintSession for any sessions, threads and stale time: *)
(* types, one timer for each session, every boost a report asked for       *)
(* watched, and the manager's count of each thread.                        *)
(***************************************************************************)
EXTENDS PowerHintSession, FiniteSetTheorems, TLAPS

\* A session that is being monitored has its timer or is being decided about,
\* not both, and is monitored from its first report on; one that is found
\* stale stays so until the handler is through.
TimerInv ==
  /\ OneTimer
  /\ \A s \in Sessions :
       /\ HandlerAt(s) => timer[s] = NoTimer
       /\ phase[s] = "none" => ~mIsMonitoringStale[s]
       /\ phase[s] = "open" /\ mIsMonitoringStale[s] => timer[s] # NoTimer \/ HandlerAt(s)
       /\ HandlerAt(s) /\ monitor.op # "repost" => Outdated(s)

\* A boost that was reported is monitored; a report under way is not yet stale.
ReportInv ==
  /\ \A s \in Sessions :
       /\ reported[s] => phase[s] = "open"
       /\ reported[s] /\ boosted[s] => mIsMonitoringStale[s]
       /\ HandlerAt(s) /\ monitor.op = "tell" => ~(reported[s] /\ boosted[s])
  /\ At("report", 2) =>
       age[binder.session] <= StaleMs /\ mIsMonitoringStale[binder.session]

\* The manager has no session before it is created.
SessionsInv == \A s \in Sessions : phase[s] = "none" => s \notin mSessions

\* A call is at one of its steps.
BinderInv ==
  binder # Idle =>
    /\ binder.op \in {"create", "report"} => binder.step = 2
    /\ binder.op \in {"pause", "resume"} => binder.step \in {2, 3}

IInv == TypeOK /\ TimerInv /\ ReportInv /\ SessionsInv /\ BinderInv

-----------------------------------------------------------------------------
(* The map of threads *)

\* What the maps are made of is finite.
LEMMA OccurrencesFinite ==
  ASSUME NEW s \in Sessions, NEW t
  PROVE  IsFiniteSet(Occurrences(s, t)) /\ Cardinality(Occurrences(s, t)) \in Nat
<1>1. PICK n \in Nat : DOMAIN TidsOf[s] = 1 .. n
  BY ConstantsAssumption
<1>2. IsFiniteSet(1 .. n)
  BY FS_Interval
<1>3. Occurrences(s, t) \in SUBSET (1 .. n)
  BY <1>1 DEF Occurrences
<1> QED
  BY <1>2, <1>3, FS_Subset, FS_CardinalityType

LEMMA AddsFinite ==
  ASSUME NEW s \in Sessions, NEW t, NEW outcomes
  PROVE  /\ IsFiniteSet(CountedAdds(s, t, outcomes))
         /\ Cardinality(CountedAdds(s, t, outcomes)) \in Nat
         /\ Cardinality(CountedAdds(s, t, outcomes)) <= Cardinality(Occurrences(s, t))
<1>1. CountedAdds(s, t, outcomes) \in SUBSET Occurrences(s, t)
  BY DEF CountedAdds
<1> QED
  BY <1>1, OccurrencesFinite, FS_Subset, FS_CardinalityType

LEMMA NamedFinite ==
  ASSUME TypeOK, NEW t
  PROVE  IsFiniteSet(Named(t)) /\ Holders(t) \in Nat
<1> DEFINE f == [s \in mSessions |-> {s} \X Occurrences(s, t)]
           pairs == {{s} \X Occurrences(s, t) : s \in mSessions}
<1>1. IsFiniteSet(mSessions) /\ mSessions \subseteq Sessions
  BY ConstantsAssumption, FS_Subset DEF TypeOK
<1>2. f \in Surjection(mSessions, pairs)
  BY DEF Surjection
<1>3. IsFiniteSet(pairs)
  BY <1>1, <1>2, FS_Surjection
<1>4. ASSUME NEW s \in mSessions
      PROVE  IsFiniteSet({s} \X Occurrences(s, t))
  BY <1>1, OccurrencesFinite, FS_Singleton, FS_Product
<1>5. \A T \in pairs : IsFiniteSet(T)
  BY <1>4
<1>6. IsFiniteSet(UNION pairs)
  BY <1>3, <1>5, FS_UNION
<1> QED
  BY <1>6, FS_CardinalityType DEF Named, Holders

\* A session that is new adds its own occurrences to the holders of a thread.
LEMMA HoldersOfCreated ==
  ASSUME TypeOK, TypeOK', NEW s \in Sessions, s \notin mSessions,
         mSessions' = mSessions \cup {s}, NEW t
  PROVE  Holders(t)' = Holders(t) + Cardinality(Occurrences(s, t))
<1> DEFINE own == {s} \X Occurrences(s, t)
<1>1. Named(t)' = Named(t) \cup own
  BY DEF Named, Occurrences
<1>2. Named(t) \cap own = {}
  BY DEF Named
<1>3. IsFiniteSet(own) /\ Cardinality(own) = Cardinality(Occurrences(s, t))
  <2>1. /\ IsFiniteSet(own)
        /\ Cardinality(own) = Cardinality({s}) * Cardinality(Occurrences(s, t))
    BY OccurrencesFinite, FS_Singleton, FS_Product
  <2>2. Cardinality({s}) = 1
    BY FS_Singleton
  <2> QED
    BY <2>1, <2>2, OccurrencesFinite
<1>4. IsFiniteSet(Named(t)) /\ Cardinality(Named(t)) \in Nat
  BY NamedFinite DEF Holders
<1>5. Cardinality(Named(t) \cup own)
        = Cardinality(Named(t)) + Cardinality(own) - Cardinality(Named(t) \cap own)
  BY <1>3, <1>4, FS_Union
<1>6. Cardinality(Named(t) \cap own) = 0
  BY <1>2, FS_EmptySet
<1> QED
  BY <1>1, <1>3, <1>4, <1>5, <1>6, OccurrencesFinite DEF Holders

\* One that goes takes away no more than its own.
LEMMA HoldersOfClosed ==
  ASSUME TypeOK, TypeOK', NEW s \in Sessions, mSessions' = mSessions \ {s}, NEW t
  PROVE  Holders(t)' \in Nat /\ Holders(t)' >= Holders(t) - Cardinality(Occurrences(s, t))
<1> DEFINE own == {s} \X Occurrences(s, t)
           rest == UNION {{r} \X Occurrences(r, t) : r \in mSessions \ {s}}
<1>1. Holders(t)' = Cardinality(rest)
  BY DEF Holders, Named, Occurrences
<1>2. Named(t) \subseteq rest \cup own
  BY DEF Named
<1>3. rest \in SUBSET Named(t)
  BY DEF Named
<1>4. IsFiniteSet(Named(t)) /\ IsFiniteSet(rest) /\ Cardinality(rest) \in Nat
  BY <1>3, NamedFinite, FS_Subset, FS_CardinalityType
<1>5. IsFiniteSet(own) /\ Cardinality(own) = Cardinality(Occurrences(s, t))
  <2>1. /\ IsFiniteSet(own)
        /\ Cardinality(own) = Cardinality({s}) * Cardinality(Occurrences(s, t))
    BY OccurrencesFinite, FS_Singleton, FS_Product
  <2>2. Cardinality({s}) = 1
    BY FS_Singleton
  <2> QED
    BY <2>1, <2>2, OccurrencesFinite
<1>6. /\ IsFiniteSet(rest \cup own)
      /\ Cardinality(rest \cup own)
           = Cardinality(rest) + Cardinality(own) - Cardinality(rest \cap own)
  BY <1>4, <1>5, FS_Union
<1>7. Cardinality(rest \cap own) \in Nat
  BY <1>4, FS_Intersection, FS_CardinalityType
<1>8. Cardinality(Named(t)) <= Cardinality(rest \cup own)
  BY <1>2, <1>6, FS_Subset
<1>9. Cardinality(Named(t)) \in Nat
  BY <1>4, FS_CardinalityType
<1> HIDE DEF rest, own
<1> QED
  BY <1>1, <1>4, <1>5, <1>6, <1>7, <1>8, <1>9, OccurrencesFinite DEF Holders

-----------------------------------------------------------------------------
(* Steps *)

\* What a call of op at step n is about.
LEMMA AtSession ==
  ASSUME TypeOK, NEW op \in Ops, NEW n \in 2 .. 4, At(op, n)
  PROVE  /\ binder.session \in Sessions
         /\ binder = [op |-> op, session |-> binder.session, step |-> n]
BY DEF TypeOK, At, Idle, Ops

\* The calls keep the types.
LEMMA CallTypes ==
  ASSUME TypeOK, BinderInv, NEW s \in Sessions,
         create(s) \/ pause(s) \/ resume(s) \/ close(s) \/ reportActualWorkDuration(s)
  PROVE  TypeOK' /\ BinderInv'
<1>1. CASE create(s)
  <2>1. PICK outcomes \in [DOMAIN TidsOf[s] -> BOOLEAN] :
          mTidRefCountMap' = AfterAdds(s, outcomes)
    BY <1>1 DEF create
  <2>2. \A t : Cardinality(CountedAdds(s, t, outcomes)) \in Nat
    BY AddsFinite
  <2>3. /\ DOMAIN mTidRefCountMap' \subseteq Tids
        /\ \A t \in DOMAIN mTidRefCountMap' : mTidRefCountMap'[t] \in Int
    BY <2>1, <2>2 DEF AfterAdds, TypeOK, Counted
  <2> QED
    BY <1>1, <2>3, ConstantsAssumption DEF create, Begin, TypeOK, BinderInv, Idle, staleVars, Ops
<1>2. CASE pause(s)
  BY <1>2 DEF pause, Begin, setUclamp, TypeOK, BinderInv, Idle, staleVars, managerVars, Ops
<1>3. CASE resume(s)
  BY <1>3 DEF resume, Begin, TypeOK, BinderInv, Idle, staleVars, managerVars, Ops
<1>4. CASE close(s)
  BY <1>4 DEF close, Begin, TypeOK, BinderInv, Idle, managerVars, Ops, NoTimer
<1>5. CASE reportActualWorkDuration(s)
  BY <1>5, ConstantsAssumption
  DEF reportActualWorkDuration, Begin, TypeOK, BinderInv, Idle, managerVars, Ops
<1> QED
  BY <1>1, <1>2, <1>3, <1>4, <1>5

\* Their later steps keep the types.
LEMMA BinderTypes ==
  ASSUME TypeOK, BinderInv, BinderStep
  PROVE  TypeOK' /\ BinderInv'
<1> DEFINE s == binder.session
<1>1. CASE initBoost
  <2>1. s \in Sessions /\ (binder.op = "resume" => Proceed) /\ (binder.op = "create" => Finish)
    BY <1>1, AtSession DEF initBoost, Ops, At
  <2> QED
    BY <1>1, <2>1
    DEF initBoost, At, setUclamp, Proceed, Finish, TypeOK, BinderInv, Idle, staleVars, managerVars, Ops
<1>2. CASE setInactive
  BY <1>2, AtSession
  DEF setInactive, At, Proceed, TypeOK, BinderInv, Idle, staleVars, managerVars, Ops
<1>3. CASE closeBoost
  BY <1>3, AtSession
  DEF closeBoost, At, setUclamp, Proceed, TypeOK, BinderInv, Idle, staleVars, managerVars, Ops
<1>4. CASE removePowerSession
  <2>1. s \in Sessions
    BY <1>4, AtSession DEF removePowerSession, Ops
  <2>2. \A t : Cardinality(Occurrences(s, t)) \in Nat
    BY <2>1, OccurrencesFinite
  <2>3. /\ DOMAIN mTidRefCountMap' \subseteq Tids
        /\ \A t \in DOMAIN mTidRefCountMap' : mTidRefCountMap'[t] \in Int
    BY <1>4, <2>2 DEF removePowerSession, AfterRemoves, TypeOK, Counted
  <2> QED
    BY <1>4, <2>1, <2>3
    DEF removePowerSession, At, Proceed, TypeOK, BinderInv, Idle, sessionVars, staleVars, Ops
<1>5. CASE tellManager
  BY <1>5
  DEF tellManager, updateUniveralBoostMode, Finish, TypeOK, BinderInv, Idle, sessionVars,
      staleVars, managerVars
<1>6. CASE reportUclamp
  BY <1>6, AtSession
  DEF reportUclamp, setUclamp, Finish, TypeOK, BinderInv, Idle, staleVars, managerVars, Ops
<1> QED
  BY <1>1, <1>2, <1>3, <1>4, <1>5, <1>6 DEF BinderStep

\* The messages and the clock keep the types.
LEMMA MonitorTypes ==
  ASSUME TypeOK, BinderInv,
         \/ \E s \in Sessions : StaleMessage(s)
         \/ MonitorStep \/ ManagerMessage \/ Tick
  PROVE  TypeOK' /\ BinderInv'
<1> USE ConstantsAssumption
<1>1. ASSUME NEW s \in Sessions, StaleMessage(s)
      PROVE  TypeOK' /\ BinderInv'
  <2>1. ~Outdated(s) => StaleMs - age[s] \in 0 .. StaleMs
    BY DEF Outdated, TypeOK
  <2> QED
    BY <1>1, <2>1 DEF StaleMessage, TypeOK, BinderInv, sessionVars, managerVars, NoTimer, Idle
<1>2. CASE Repost
  <2>1. monitor.session \in Sessions /\ monitor.delay \in 0 .. StaleMs
    BY <1>2 DEF Repost, TypeOK, Idle
  <2> QED
    BY <1>2, <2>1 DEF Repost, TypeOK, BinderInv, sessionVars, managerVars, Idle
<1>3. CASE Unclamp
  <2>1. monitor.session \in Sessions
    BY <1>3 DEF Unclamp, TypeOK, Idle
  <2> QED
    BY <1>3, <2>1 DEF Unclamp, setUclamp, TypeOK, BinderInv, staleVars, managerVars, Idle
<1>4. CASE TellStale
  <2>1. monitor.session \in Sessions
    BY <1>4 DEF TellStale, TypeOK, Idle
  <2> QED
    BY <1>4, <2>1
    DEF TellStale, updateUniveralBoostMode, TypeOK, BinderInv, sessionVars, managerVars, Idle
<1>5. CASE Scan
  <2>1. monitor \in [op : {"scan"}, left : SUBSET Sessions]
    BY <1>5 DEF Scan, TypeOK, Idle
  <2>2. ASSUME NEW s \in monitor.left, monitor' = [monitor EXCEPT !.left = @ \ {s}]
        PROVE  monitor' \in [op : {"scan"}, left : SUBSET Sessions]
    BY <2>1, <2>2
  <2>3. \/ monitor' = Idle
        \/ monitor' = [op |-> "apply"]
        \/ monitor' \in [op : {"scan"}, left : SUBSET Sessions]
    BY <1>5, <2>2 DEF Scan, Scanned
  <2>4. mActive' \in BOOLEAN
    BY <1>5 DEF Scan, Scanned, TypeOK
  <2> QED
    BY <1>5, <2>3, <2>4 DEF Scan, TypeOK, BinderInv, sessionVars, staleVars
<1>6. CASE Apply
  BY <1>6 DEF Apply, TypeOK, BinderInv, sessionVars, staleVars, Idle
<1>7. CASE ManagerMessage
  BY <1>7 DEF ManagerMessage, TypeOK, BinderInv, sessionVars, staleVars, managerVars, Idle
<1>8. CASE Tick
  BY <1>8 DEF Tick, TypeOK, BinderInv, managerVars, Idle, NoTimer
<1> QED
  BY <1>1, <1>2, <1>3, <1>4, <1>5, <1>6, <1>7, <1>8 DEF MonitorStep

\* A call keeps what is said of timers, boosts and sessions.
LEMMA CallInv ==
  ASSUME IInv, TypeOK', NEW s \in Sessions,
         create(s) \/ pause(s) \/ resume(s) \/ close(s) \/ reportActualWorkDuration(s)
  PROVE  TimerInv' /\ ReportInv' /\ SessionsInv'
<1> USE DEF IInv, TimerInv, ReportInv, SessionsInv, OneTimer, HandlerAt, At, Outdated, Idle
<1>1. CASE create(s)
  BY <1>1 DEF create, Begin, staleVars, TypeOK
<1>2. CASE pause(s)
  BY <1>2 DEF pause, Begin, setUclamp, staleVars, managerVars, TypeOK
<1>3. CASE resume(s)
  BY <1>3 DEF resume, Begin, staleVars, managerVars, TypeOK
<1>4. CASE close(s)
  BY <1>4 DEF close, Begin, managerVars, TypeOK
<1>5. CASE reportActualWorkDuration(s)
  BY <1>5, ConstantsAssumption
  DEF reportActualWorkDuration, Begin, Alive, StaleLockFree, managerVars, NoTimer, TypeOK
<1> QED
  BY <1>1, <1>2, <1>3, <1>4, <1>5

\* So do its later steps.
LEMMA BinderStepInv ==
  ASSUME IInv, TypeOK', BinderStep
  PROVE  TimerInv' /\ ReportInv' /\ SessionsInv'
<1> USE DEF IInv, TimerInv, ReportInv, SessionsInv, OneTimer, HandlerAt, At, Outdated, Idle
<1>1. CASE initBoost
  BY <1>1 DEF initBoost, setUclamp, Proceed, Finish, staleVars, managerVars, TypeOK
<1>2. CASE setInactive
  BY <1>2 DEF setInactive, Proceed, staleVars, managerVars, TypeOK
<1>3. CASE closeBoost
  BY <1>3 DEF closeBoost, setUclamp, Proceed, staleVars, managerVars, TypeOK
<1>4. CASE removePowerSession
  BY <1>4 DEF removePowerSession, Proceed, sessionVars, staleVars, TypeOK
<1>5. CASE tellManager
  BY <1>5 DEF tellManager, Finish, sessionVars, staleVars, managerVars, TypeOK
<1>6. CASE reportUclamp
  <2> DEFINE s == binder.session
  <2>1. /\ s \in Sessions
        /\ age[s] <= StaleMs /\ mIsMonitoringStale[s]
        /\ ~(HandlerAt(s) /\ monitor.op # "repost")
    BY <1>6, AtSession, ConstantsAssumption DEF reportUclamp, Ops, TypeOK
  <2>2. \A r \in Sessions : r # s => boosted'[r] = boosted[r]
    BY <1>6, <2>1 DEF reportUclamp, setUclamp, TypeOK
  <2>3. TimerInv' /\ SessionsInv'
    BY <1>6 DEF reportUclamp, staleVars, managerVars
  <2>4. ReportInv'
    BY <1>6, <2>1, <2>2 DEF reportUclamp, Finish, staleVars
  <2> QED
    BY <2>3, <2>4
<1> QED
  BY <1>1, <1>2, <1>3, <1>4, <1>5, <1>6 DEF BinderStep

\* And the messages and the clock: a handler that finds a session stale finds no
\* report of it under way, and none comes before it has let the lock go.
LEMMA MonitorStepInv ==
  ASSUME IInv, TypeOK',
         \/ \E s \in Sessions : StaleMessage(s)
         \/ MonitorStep \/ ManagerMessage \/ Tick
  PROVE  TimerInv' /\ ReportInv' /\ SessionsInv'
<1> USE ConstantsAssumption
    DEF IInv, TimerInv, ReportInv, SessionsInv, OneTimer, HandlerAt, At, Outdated, Idle
<1>1. ASSUME NEW s \in Sessions, StaleMessage(s)
      PROVE  TimerInv' /\ ReportInv' /\ SessionsInv'
  BY <1>1 DEF StaleMessage, sessionVars, managerVars, NoTimer, TypeOK
<1>2. CASE Repost
  BY <1>2 DEF Repost, sessionVars, managerVars, NoTimer, TypeOK
<1>3. CASE Unclamp
  BY <1>3 DEF Unclamp, setUclamp, staleVars, managerVars, TypeOK
<1>4. CASE TellStale
  BY <1>4 DEF TellStale, sessionVars, managerVars, TypeOK
<1>5. CASE Scan
  <2>1. monitor'.op \in {"idle", "apply", "scan"}
    BY <1>5 DEF Scan, Scanned, TypeOK
  <2> QED
    BY <1>5, <2>1 DEF Scan, sessionVars, staleVars, TypeOK
<1>6. CASE Apply
  BY <1>6 DEF Apply, sessionVars, staleVars, TypeOK
<1>7. CASE ManagerMessage
  BY <1>7 DEF ManagerMessage, sessionVars, staleVars, managerVars, TypeOK
<1>8. CASE Tick
  BY <1>8 DEF Tick, ReportIsShort, managerVars, NoTimer, TypeOK
<1> QED
  BY <1>1, <1>2, <1>3, <1>4, <1>5, <1>6, <1>7, <1>8 DEF MonitorStep

-----------------------------------------------------------------------------
(* The counts *)

\* Only create and close touch the map, and RefCountsHeld with it.
LEMMA CreateCounts ==
  ASSUME IInv, TypeOK', RefCountsHeld, NEW s \in Sessions, create(s)
  PROVE  RefCountsHeld'
<1>1. PICK outcomes : mTidRefCountMap' = AfterAdds(s, outcomes)
  BY DEF create
<1>2. s \notin mSessions /\ mSessions' = mSessions \cup {s}
  BY DEF create, IInv, SessionsInv
<1> SUFFICES ASSUME NEW t \in Counted'
             PROVE  1 <= mTidRefCountMap'[t] /\ mTidRefCountMap'[t] <= Holders(t)'
  BY DEF RefCountsHeld
<1> DEFINE own == Cardinality(Occurrences(s, t))
           added == Cardinality(CountedAdds(s, t, outcomes))
<1>3. own \in Nat /\ added \in Nat /\ added <= own
  BY AddsFinite, OccurrencesFinite
<1>4. Holders(t)' = Holders(t) + own /\ Holders(t) \in Nat
  BY <1>2, HoldersOfCreated, NamedFinite DEF IInv
<1>5. t \in Counted \/ CountedAdds(s, t, outcomes) # {}
  BY <1>1 DEF AfterAdds, Counted
<1>6. CASE t \in Counted
  <2>1. mTidRefCountMap'[t] = mTidRefCountMap[t] + added
    BY <1>1, <1>6 DEF AfterAdds, RefCountsHeld, IInv, TypeOK, Counted
  <2> QED
    BY <1>3, <1>4, <1>6, <2>1 DEF RefCountsHeld, IInv, TypeOK, Counted
<1>7. CASE t \notin Counted
  <2>1. mTidRefCountMap'[t] = added
    BY <1>1, <1>7 DEF AfterAdds, Counted
  <2>2. added # 0
    BY <1>5, <1>7, AddsFinite, FS_EmptySet
  <2> QED
    BY <1>3, <1>4, <2>1, <2>2
<1> QED
  BY <1>6, <1>7

LEMMA CloseCounts ==
  ASSUME IInv, TypeOK', RefCountsHeld, removePowerSession
  PROVE  RefCountsHeld'
<1> DEFINE s == binder.session
<1>1. s \in Sessions /\ mTidRefCountMap' = AfterRemoves(s) /\ mSessions' = mSessions \ {s}
  BY AtSession DEF removePowerSession, Ops, IInv
<1> HIDE DEF s
<1> SUFFICES ASSUME NEW t \in Counted'
             PROVE  1 <= mTidRefCountMap'[t] /\ mTidRefCountMap'[t] <= Holders(t)'
  BY DEF RefCountsHeld
<1> DEFINE own == Cardinality(Occurrences(s, t))
<1>2. own \in Nat /\ (Occurrences(s, t) = {} => own = 0)
  BY <1>1, OccurrencesFinite, FS_EmptySet
<1>3. Holders(t)' >= Holders(t) - own /\ Holders(t)' \in Nat /\ Holders(t) \in Nat
  BY <1>1, HoldersOfClosed, NamedFinite DEF IInv
<1>4. t \in Counted /\ StillHeld(s, t) /\ mTidRefCountMap'[t] = mTidRefCountMap[t] - own
  BY <1>1 DEF AfterRemoves, Counted
<1>5. mTidRefCountMap[t] \in Int /\ 1 <= mTidRefCountMap[t] /\ mTidRefCountMap[t] <= Holders(t)
  BY <1>4 DEF RefCountsHeld, IInv, TypeOK, Counted
<1> QED
  BY <1>2, <1>3, <1>4, <1>5 DEF StillHeld

\* Everything else leaves the counts as they are.
LEMMA OtherCounts ==
  ASSUME RefCountsHeld, UNCHANGED <<mTidRefCountMap, mSessions>>
  PROVE  RefCountsHeld'
BY DEF RefCountsHeld, Counted, Holders, Named, Occurrences

-----------------------------------------------------------------------------
(* The theorems *)

Inv == IInv /\ RefCountsHeld

\* Before the first call all of it holds.
LEMMA InitInv == Init => Inv
<1> SUFFICES ASSUME Init
             PROVE  Inv
  OBVIOUS
<1>0. DOMAIN mTidRefCountMap = {}
  BY DEF Init
<1>1. TypeOK
  <2>1. age \in [Sessions -> 0 .. StaleMs + 1] /\ timer \in [Sessions -> {NoTimer} \cup 0 .. StaleMs]
    BY ConstantsAssumption DEF Init
  <2>2. DOMAIN mTidRefCountMap \subseteq Tids /\ \A t \in DOMAIN mTidRefCountMap : mTidRefCountMap[t] \in Int
    BY <1>0
  <2> QED
    BY <2>1, <2>2 DEF Init, TypeOK
<1>2. TimerInv /\ ReportInv /\ SessionsInv /\ BinderInv
  BY DEF Init, TimerInv, OneTimer, HandlerAt, ReportInv, At, SessionsInv, BinderInv, Idle
<1>3. RefCountsHeld
  BY <1>0 DEF RefCountsHeld, Counted
<1> QED
  BY <1>1, <1>2, <1>3 DEF Inv, IInv

\* Every step keeps it.
LEMMA NextInv == Inv /\ [Next]_vars => Inv'
<1> SUFFICES ASSUME Inv, [Next]_vars
             PROVE  Inv'
  OBVIOUS
<1> USE DEF Inv
<1>1. ASSUME NEW s \in Sessions,
             create(s) \/ pause(s) \/ resume(s) \/ close(s) \/ reportActualWorkDuration(s)
      PROVE  Inv'
  <2>1. IInv'
    BY <1>1, CallTypes, CallInv DEF IInv
  <2>2. create(s) \/ UNCHANGED <<mTidRefCountMap, mSessions>>
    BY <1>1 DEF pause, resume, close, reportActualWorkDuration, managerVars
  <2> QED
    BY <2>1, <2>2, CreateCounts, OtherCounts DEF IInv
<1>2. CASE BinderStep
  <2>1. IInv'
    BY <1>2, BinderTypes, BinderStepInv DEF IInv
  <2>2. removePowerSession \/ UNCHANGED <<mTidRefCountMap, mSessions>>
    BY <1>2
    DEF BinderStep, initBoost, setInactive, closeBoost, tellManager, reportUclamp, managerVars
  <2> QED
    BY <2>1, <2>2, CloseCounts, OtherCounts DEF IInv
<1>3. CASE (\E s \in Sessions : StaleMessage(s)) \/ MonitorStep \/ ManagerMessage \/ Tick
  <2>1. IInv'
    BY <1>3, MonitorTypes, MonitorStepInv DEF IInv
  <2>2. UNCHANGED <<mTidRefCountMap, mSessions>>
    BY <1>3
    DEF StaleMessage, MonitorStep, Repost, Unclamp, TellStale, Scan, Apply, ManagerMessage,
        Tick, managerVars
  <2> QED
    BY <2>1, <2>2, OtherCounts
<1>4. CASE UNCHANGED vars
  <2>1. IInv'
    BY <1>4
    DEF IInv, TypeOK, TimerInv, OneTimer, HandlerAt, Outdated, ReportInv, At, SessionsInv,
        BinderInv, vars, sessionVars, staleVars, managerVars
  <2> QED
    BY <1>4, <2>1, OtherCounts DEF vars, managerVars
<1> QED
  BY <1>1, <1>2, <1>3, <1>4 DEF Next

\* The conjunction of what follows, inductive.
THEOREM Invariant == Spec => []Inv
BY InitInv, NextInv, PTL DEF Spec

\* The types, for any sessions and threads.
THEOREM TypeCorrect == Spec => []TypeOK
<1>1. Inv => TypeOK
  BY DEF Inv, IInv
<1> QED
  BY <1>1, Invariant, PTL

\* No StaleHandler has two timers, nor one it does not know of.
\* (updateStaleTimer, handleMessage)
THEOREM OneTimerEach == Spec => []OneTimer
<1>1. Inv => OneTimer
  BY DEF Inv, IInv, TimerInv
<1> QED
  BY <1>1, Invariant, PTL

\* A boost that a report asked for is taken back by somebody: its session's
\* timer is running, or its handler is deciding.  (handleMessage)
THEOREM BoostsWatched == Spec => []BoostIsWatched
<1>1. Inv => BoostIsWatched
  BY DEF Inv, IInv, TimerInv, ReportInv, BoostIsWatched
<1> QED
  BY <1>1, Invariant, PTL

\* A thread's count is positive and counts only sessions that are there.
\* (addPowerSession, removePowerSession)
THEOREM CountsHeld == Spec => []RefCountsHeld
<1>1. Inv => RefCountsHeld
  BY DEF Inv
<1> QED
  BY <1>1, Invariant, PTL
=============================================================================
