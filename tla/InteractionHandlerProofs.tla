---------------------- MODULE InteractionHandlerProofs ----------------------
(***************************************************************************)
(* Proofs about InteractionHandler for all durations and all integers a    *)
(* caller can pass: types, the state of the wake-up descriptor, the hint,  *)
(* and that the handler implements InteractionLease.                       *)
(***************************************************************************)
EXTENDS InteractionHandler, TLAPS

\* Where DispIdle is between taking a wait and giving it back.
Waiting == {"read", "poll", "pread", "pollIdle", "release"}

\* The wake-up descriptor is empty when a wait begins and holds at most the
\* one abort that ended it; Exit adds its own.
EventInv ==
  /\ mState = "IDLE" => routine \in {"lock", "blocked"}
  /\ mState = "WAITING" => routine \in Waiting
  /\ mState \in {"IDLE", "WAITING"} => mEventFd = 0
  /\ mState = "INTERACTION" => mEventFd <= 1
  /\ mState = "INTERACTION" /\ routine \in {"lock", "blocked"} => mEventFd = 0
  /\ routine = "release" => outcome # "none"
  /\ routine = "release" /\ mState = "WAITING" => outcome # "aborted"

\* The wait in progress lasts at least as long as what was granted last.
TimeInv ==
  mState = "WAITING" =>
    /\ routine \in {"poll", "pread", "pollIdle"} => timeout_ms = mDurationMs
    /\ routine = "pollIdle" => elapsed + wait_ms >= mDurationMs
    /\ routine = "release" /\ outcome = "timeout" => elapsed >= mDurationMs

\* Without a DispIdle thread the hint is only requested with a timeout.
OwnerInv ==
  /\ mState # "UNINITIALIZED" => owner = "serving"
  /\ mState = "UNINITIALIZED" /\ owner \in {"constructing", "serving"} =>
       /\ hint # Forever
       /\ routine = "none"
       /\ mEventFd = 0
  /\ owner = "constructing" => mState = "UNINITIALIZED" /\ hint = 0

IInv ==
  /\ TypeOK
  /\ EventInv
  /\ TimeInv
  /\ OwnerInv
  /\ HintMatchesState

-----------------------------------------------------------------------------

\* Whatever is asked, what is granted is between the minimum and the maximum,
\* overflow of the sum included.
LEMMA FinalDurationGranted ==
  ASSUME NEW duration \in Int
  PROVE  FinalDuration(duration) \in Granted
<1> DEFINE input == (duration + kDurationOffsetMs) % UintModulus
<1>1. input \in Nat
  BY ConstantsAssumption
<1> HIDE DEF input
<1>2. /\ input > kMaxDurationMs => kMaxDurationMs \in Granted
      /\ input > kMinDurationMs /\ input <= kMaxDurationMs => input \in Granted
      /\ kMinDurationMs \in Granted
  BY <1>1, ConstantsAssumption DEF Granted
<1> QED
  BY <1>1, <1>2, ConstantsAssumption DEF FinalDuration, input

\* The durations are naturals, and Forever is none of them.
LEMMA GrantedNat ==
  /\ Granted \subseteq Nat \ {0}
  /\ \A d \in Granted : d <= kMaxDurationMs /\ d < Forever
  /\ kMaxDurationMs \in Nat
  /\ Forever = kMaxDurationMs + 1
BY ConstantsAssumption DEF Granted, Forever

\* The steps of the owner keep the invariant.
LEMMA OwnerIInv ==
  ASSUME IInv,
         \/ HandlerInit
         \/ \E duration \in Inputs : Acquire(duration)
         \/ ExitBegin \/ ExitNotify \/ ExitJoin
  PROVE  IInv'
<1> USE GrantedNat
<1>1. CASE HandlerInit
  BY <1>1 DEF HandlerInit, waitVars, IInv, TypeOK, EventInv, TimeInv, OwnerInv,
              HintMatchesState, RoutineStates, Waiting, Forever
<1>2. ASSUME NEW duration \in Inputs, Acquire(duration)
      PROVE  IInv'
  <2> DEFINE d == FinalDuration(duration)
  <2>1. d \in Granted
    BY FinalDurationGranted, ConstantsAssumption
  <2> HIDE DEF d
  <2>2. /\ owner = "serving"
        /\ AcquireFallback(d) \/ AcquireCovered(d) \/ AcquireHint(d)
        /\ UNCHANGED <<waitVars, owner>>
        /\ promised' = IF mState = "UNINITIALIZED" THEN promised ELSE Longer(promised, d)
    BY <1>2 DEF Acquire, d
  <2>3. CASE AcquireFallback(d)
    BY <2>1, <2>2, <2>3
    DEF AcquireFallback, Longer, waitVars, IInv, TypeOK, EventInv, TimeInv, OwnerInv,
        HintMatchesState
  <2>4. CASE AcquireCovered(d)
    BY <2>1, <2>2, <2>4
    DEF AcquireCovered, Longer, waitVars, IInv, TypeOK, EventInv, TimeInv, OwnerInv,
        HintMatchesState
  <2>5. CASE AcquireHint(d)
    <3>1. TypeOK'
      BY <2>1, <2>2, <2>5
      DEF AcquireHint, Notify, Longer, waitVars, IInv, TypeOK, EventInv, RoutineStates
    <3>2. EventInv' /\ TimeInv' /\ OwnerInv' /\ HintMatchesState'
      BY <2>2, <2>5
      DEF AcquireHint, Notify, waitVars, IInv, TypeOK, EventInv, TimeInv, OwnerInv,
          HintMatchesState, Waiting
    <3> QED
      BY <3>1, <3>2 DEF IInv
  <2> QED
    BY <2>2, <2>3, <2>4, <2>5
<1>3. CASE ExitBegin
  BY <1>3 DEF ExitBegin, waitVars, IInv, TypeOK, EventInv, TimeInv, OwnerInv,
              HintMatchesState
<1>4. CASE ExitNotify
  BY <1>4 DEF ExitNotify, Notify, waitVars, IInv, TypeOK, EventInv, TimeInv,
              OwnerInv, HintMatchesState, RoutineStates
<1>5. CASE ExitJoin
  BY <1>5 DEF ExitJoin, waitVars, IInv, TypeOK, EventInv, TimeInv, OwnerInv,
              HintMatchesState
<1> QED
  BY <1>1, <1>2, <1>3, <1>4, <1>5

\* The steps of DispIdle and of the clock keep it.
LEMMA RoutineIInv ==
  ASSUME IInv, RoutineStep \/ PollError \/ PollIdle \/ Tick
  PROVE  IInv'
<1> USE GrantedNat DEF IInv, TypeOK, EventInv, TimeInv, OwnerInv, HintMatchesState,
                       RoutineStates, Waiting
<1>1. CASE RoutineLock
  BY <1>1 DEF RoutineLock, waitVars
<1>2. CASE ReadDuration
  BY <1>2, ConstantsAssumption DEF ReadDuration
<1>3. CASE PollAborted
  BY <1>3 DEF PollAborted, Return
<1>4. CASE PollTimeout
  BY <1>4 DEF PollTimeout, waitVars
<1>5. CASE ReadIdle
  BY <1>5 DEF ReadIdle, Return
<1>6. CASE ReadActive
  BY <1>6 DEF ReadActive
<1>7. CASE PollIdleTimeout
  BY <1>7 DEF PollIdleTimeout, Return
<1>8. CASE Release
  BY <1>8 DEF Release, waitVars, Forever
<1>9. CASE PollError
  BY <1>9 DEF PollError, Return
<1>10. CASE PollIdle
  BY <1>10 DEF PollIdle, Return
<1>11. CASE Tick
  BY <1>11 DEF Tick, Forever
<1> QED
  BY <1>1, <1>2, <1>3, <1>4, <1>5, <1>6, <1>7, <1>8, <1>9, <1>10, <1>11
  DEF RoutineStep

\* The handler as it is constructed satisfies it.
LEMMA InitIInv == Init => IInv
BY GrantedNat
DEF Init, IInv, TypeOK, EventInv, TimeInv, OwnerInv, HintMatchesState, RoutineStates,
    Forever

\* Every step keeps it.
LEMMA NextIInv == IInv /\ [Next]_vars => IInv'
<1> SUFFICES ASSUME IInv, [Next]_vars
             PROVE  IInv'
  OBVIOUS
<1>1. CASE Next
  BY <1>1, OwnerIInv, RoutineIInv DEF Next
<1>2. CASE UNCHANGED vars
  BY <1>2 DEF vars, IInv, TypeOK, EventInv, TimeInv, OwnerInv, HintMatchesState
<1> QED
  BY <1>1, <1>2

\* The conjunction of what follows, inductive.
THEOREM Invariant == Spec => []IInv
BY InitIInv, NextIInv, PTL DEF Spec

\* The types, for every integer a caller passes as a duration.
THEOREM TypeCorrect == Spec => []TypeOK
<1>1. IInv => TypeOK
  BY DEF IInv
<1> QED
  BY <1>1, Invariant, PTL

\* No wait is cut short by a wake-up meant for an earlier one: Release clears
\* the descriptor whenever the wait it ends was aborted.
THEOREM NothingStale == Spec => []NoStaleAbort
<1>1. IInv => NoStaleAbort
  BY DEF IInv, EventInv, NoStaleAbort
<1> QED
  BY <1>1, Invariant, PTL

\* The hint is in force exactly in the states that say so.
THEOREM HintFollowsState == Spec => []HintMatchesState
<1>1. IInv => HintMatchesState
  BY DEF IInv
<1> QED
  BY <1>1, Invariant, PTL

-----------------------------------------------------------------------------
(* The handler implements the lease *)

\* The variables of the lease.
held == hint = Forever
left == IF hint = Forever /\ elapsed < mDurationMs THEN mDurationMs - elapsed ELSE 0
idle == /\ mState = "WAITING"
        /\ routine = "release"
        /\ outcome \in {"idle", "error"}

\* What was promised is what the duration granted last leaves: it is the
\* promise, not that duration, the lease is about.
PromiseInv == promised = left

\* A step keeps that, and is a step of the lease.
LeaseStep == PromiseInv' /\ (Lease!Next \/ UNCHANGED Lease!vars)

\* Any step that leaves the four alone stutters.
LEMMA Stutter ==
  ASSUME PromiseInv, held' = held, left' = left, promised' = promised, idle' = idle
  PROVE  LeaseStep
BY DEF held, idle, Lease!vars, LeaseStep, PromiseInv

\* An acquire takes or extends the lease, or finds that it is long enough.
LEMMA AcquireRefines ==
  ASSUME IInv, PromiseInv, NEW duration \in Inputs, Acquire(duration)
  PROVE  LeaseStep
<1> USE GrantedNat
<1> DEFINE d == FinalDuration(duration)
<1>1. d \in Granted
  BY FinalDurationGranted, ConstantsAssumption
<1> HIDE DEF d
<1>2. /\ owner = "serving"
      /\ AcquireFallback(d) \/ AcquireCovered(d) \/ AcquireHint(d)
      /\ UNCHANGED <<waitVars, owner>>
      /\ promised' = IF mState = "UNINITIALIZED" THEN promised ELSE Longer(promised, d)
  BY DEF Acquire, d
<1>3. elapsed \in Nat /\ mDurationMs \in Nat
  BY DEF IInv, TypeOK
<1>4. CASE AcquireFallback(d)
  <2>1. hint # Forever /\ hint' # Forever
    <3>1. hint # Forever
      BY <1>2, <1>4 DEF AcquireFallback, IInv, OwnerInv
    <3>2. d # Forever
      BY <1>1
    <3> QED
      BY <1>4, <3>1, <3>2 DEF AcquireFallback, Longer
  <2>2. idle' = idle
    BY <1>4 DEF AcquireFallback, idle
  <2>3. promised' = promised
    BY <1>2, <1>4 DEF AcquireFallback
  <2> QED
    BY <2>1, <2>2, <2>3, Stutter DEF held, left
<1>5. CASE AcquireCovered(d)
  <2>1. hint = Forever
    BY <1>5 DEF AcquireCovered, Covered, IInv, TypeOK, HintMatchesState
  <2>2. d <= left
    BY <1>1, <1>3, <1>5, <2>1 DEF AcquireCovered, Covered, left
  <2>3. left \in Nat
    BY <1>3 DEF left
  <2>4. promised' = promised
    BY <1>1, <1>2, <1>5, <2>2, <2>3 DEF AcquireCovered, Longer, PromiseInv
  <2> QED
    BY <1>2, <1>5, <2>4, Stutter DEF AcquireCovered, waitVars, held, left, idle
<1>6. CASE AcquireHint(d)
  <2>1. mState' = "INTERACTION" /\ mDurationMs' = d /\ elapsed' = 0
    BY <1>6 DEF AcquireHint
  <2>2. hint' = Forever
    BY <1>6 DEF AcquireHint, IInv, TypeOK, HintMatchesState
  <2>3. held => left < d
    BY <1>1, <1>3, <1>6
    DEF AcquireHint, Covered, IInv, TypeOK, HintMatchesState, held, left, Forever
  <2>4. held' /\ left' = d /\ ~idle'
    BY <1>1, <2>1, <2>2 DEF held, left, idle
  <2>5. promised' = d
    <3>1. left < d
      BY <1>1, <2>3 DEF held, left
    <3>2. promised' = Longer(promised, d)
      BY <1>2, <1>6 DEF AcquireHint
    <3> QED
      BY <3>1, <3>2 DEF Longer, PromiseInv
  <2>6. Lease!Acquire(d)
    BY <2>3, <2>4, <2>5 DEF Lease!Acquire, held, idle, PromiseInv
  <2> QED
    BY <1>1, <2>4, <2>5, <2>6 DEF Lease!Next, LeaseStep, PromiseInv
<1> QED
  BY <1>2, <1>4, <1>5, <1>6

\* A return of WaitForIdle for any reason but an abort or the time is an
\* observation of the display.
LEMMA ReturnRefines ==
  ASSUME IInv, PromiseInv, NEW why \in {"idle", "error"}, routine # "release", Return(why)
  PROVE  LeaseStep
<1>1. UNCHANGED <<mState, hint, elapsed, mDurationMs, promised>>
  BY DEF Return
<1>2. ~idle /\ (idle' <=> mState = "WAITING")
  BY DEF Return, idle
<1>3. CASE mState = "WAITING"
  <2>1. held
    BY <1>3 DEF IInv, HintMatchesState, held
  <2>2. Lease!Observe
    BY <1>1, <1>2, <1>3, <2>1 DEF Lease!Observe, held, idle
  <2> QED
    BY <1>1, <2>2 DEF Lease!Next, LeaseStep, PromiseInv, left
<1>4. CASE mState # "WAITING"
  BY <1>1, <1>2, <1>4, Stutter DEF held, left, idle
<1> QED
  BY <1>3, <1>4

\* The hint is given back only when its time is over or the display was seen
\* idle.
LEMMA ReleaseRefines ==
  ASSUME IInv, PromiseInv, Release
  PROVE  LeaseStep
<1> USE GrantedNat
<1>1. CASE mState = "WAITING"
  <2>1. hint' = 0 /\ mState' = "IDLE" /\ hint' # Forever /\ promised' = 0
    BY <1>1 DEF Release
  <2>2. held
    BY <1>1 DEF IInv, HintMatchesState, held
  <2>3. outcome \in {"idle", "error", "timeout"}
    BY <1>1 DEF Release, IInv, TypeOK, EventInv
  <2>4. outcome = "timeout" => left = 0
    BY <1>1 DEF Release, IInv, TypeOK, TimeInv, left
  <2>5. left = 0 \/ idle
    BY <1>1, <2>3, <2>4 DEF Release, idle
  <2>6. ~held' /\ left' = 0 /\ ~idle'
    BY <2>1 DEF held, left, idle
  <2>7. Lease!Release
    BY <2>1, <2>2, <2>5, <2>6 DEF Lease!Release, held, idle, PromiseInv
  <2> QED
    BY <2>1, <2>6, <2>7 DEF Lease!Next, LeaseStep, PromiseInv
<1>2. CASE mState # "WAITING"
  BY <1>2, Stutter DEF Release, held, left, idle
<1> QED
  BY <1>1, <1>2

\* The clock runs down both.
LEMMA TickRefines ==
  ASSUME IInv, PromiseInv, Tick
  PROVE  LeaseStep
<1> USE GrantedNat
<1>1. elapsed \in 0 .. kMaxDurationMs + 1 /\ mDurationMs \in 0 .. kMaxDurationMs
  BY DEF IInv, TypeOK
<1>2. hint \in 0 .. Forever
  BY DEF IInv, TypeOK
<1>3. held' = held
  BY <1>2 DEF Tick, held
<1>4. left' = IF left > 0 THEN left - 1 ELSE left
  <2>1. CASE hint = Forever
    BY <1>1, <1>3, <2>1 DEF Tick, left, held
  <2>2. CASE hint # Forever
    BY <1>3, <2>2 DEF left, held
  <2> QED
    BY <2>1, <2>2
<1>5. idle' = idle
  BY DEF Tick, idle
<1>6. promised' = left'
  BY <1>4 DEF Tick, PromiseInv
<1>7. Lease!Tick
  BY <1>3, <1>5 DEF Lease!Tick, Tick, held, idle
<1> QED
  BY <1>6, <1>7 DEF Lease!Next, LeaseStep, PromiseInv

\* Every step of the handler is a step of the lease, or none.
LEMMA NextRefines ==
  ASSUME IInv, PromiseInv, [Next]_vars
  PROVE  LeaseStep
<1> USE DEF held, left, idle
<1>1. CASE HandlerInit
  BY <1>1, Stutter DEF HandlerInit, waitVars, IInv, OwnerInv
<1>2. ASSUME NEW duration \in Inputs, Acquire(duration)
      PROVE  LeaseStep
  BY <1>2, AcquireRefines
<1>3. CASE ExitBegin
  <2>1. UNCHANGED <<hint, elapsed, mDurationMs, promised>>
    BY <1>3 DEF ExitBegin
  <2>2. ~idle'
    BY <1>3 DEF ExitBegin
  <2>3. CASE idle
    <3>1. held
      BY <2>3 DEF IInv, HintMatchesState
    <3>2. Lease!Abandon
      BY <2>1, <2>2, <3>1 DEF Lease!Abandon
    <3> QED
      BY <2>1, <3>2 DEF Lease!Next, LeaseStep, PromiseInv
  <2>4. CASE ~idle
    BY <2>1, <2>2, <2>4, Stutter
  <2> QED
    BY <2>3, <2>4
<1>4. CASE ExitNotify
  BY <1>4, Stutter DEF ExitNotify, Notify, waitVars
<1>5. CASE ExitJoin
  BY <1>5, Stutter DEF ExitJoin, waitVars
<1>6. CASE RoutineLock
  BY <1>6, Stutter DEF RoutineLock, waitVars
<1>7. CASE ReadDuration
  BY <1>7, Stutter DEF ReadDuration
<1>8. CASE PollAborted
  BY <1>8, Stutter DEF PollAborted, Return
<1>9. CASE PollTimeout
  BY <1>9, Stutter DEF PollTimeout, waitVars
<1>10. CASE ReadIdle
  BY <1>10, ReturnRefines DEF ReadIdle
<1>11. CASE ReadActive
  BY <1>11, Stutter DEF ReadActive
<1>12. CASE PollIdleTimeout
  BY <1>12, Stutter DEF PollIdleTimeout, Return
<1>13. CASE Release
  BY <1>13, ReleaseRefines
<1>14. CASE PollError
  BY <1>14, ReturnRefines DEF PollError
<1>15. CASE PollIdle
  BY <1>15, ReturnRefines DEF PollIdle
<1>16. CASE Tick
  BY <1>16, TickRefines
<1>17. CASE UNCHANGED vars
  BY <1>17, Stutter DEF vars
<1> QED
  BY <1>1, <1>2, <1>3, <1>4, <1>5, <1>6, <1>7, <1>8, <1>9, <1>10, <1>11, <1>12,
     <1>13, <1>14, <1>15, <1>16, <1>17 DEF Next, RoutineStep

\* No lease is held at first.
LEMMA InitRefines == Init => Lease!Init /\ PromiseInv
BY GrantedNat DEF Init, Lease!Init, PromiseInv, left

\* The handler implements the lease: no Acquire shortens an earlier one, and
\* DispIdle gives the hint back only when its time is over or the display was
\* seen idle since it was last extended, however its unlocked read, its polls
\* and the callers interleave.
THEOREM ImplementsLease == Spec => IsLease
<1>1. IInv /\ PromiseInv /\ [Next]_vars => PromiseInv' /\ [Lease!Next]_Lease!vars
  BY NextRefines DEF LeaseStep
<1> QED
  BY <1>1, InitRefines, Invariant, PTL DEF Spec, IsLease, Lease!Spec
=============================================================================
