------------------------- MODULE InteractionHandler -------------------------
(***************************************************************************)
(* disp-power's InteractionHandler: the binder thread that acquires the    *)
(* INTERACTION hint for a touch, and the DispIdle thread that waits for    *)
(* the display to become idle, or for the time to pass, and gives the      *)
(* hint back.                                                              *)
(*                                                                         *)
(* Every region under mLock is one action.  DispIdle reads mDurationMs     *)
(* without mLock between two of them.  Times are milliseconds; elapsed is  *)
(* the time since mLastTimespec.                                           *)
(***************************************************************************)
EXTENDS Integers

CONSTANTS
  Inputs,             \* durations passed to setBoost
  UintModulus,        \* 2^32: one more than UINT32_MAX
  kWaitMs,            \* vendor.powerhal.disp.idle_wait
  kMinDurationMs,     \* vendor.powerhal.interaction.min
  kMaxDurationMs,     \* vendor.powerhal.interaction.max
  kDurationOffsetMs   \* vendor.powerhal.interaction.offset

ASSUME ConstantsAssumption ==
  /\ Inputs \subseteq Int
  /\ UintModulus \in Nat \ {0}
  /\ kWaitMs \in Nat
  /\ kMinDurationMs \in Nat \ {0}
  /\ kMaxDurationMs \in Nat
  /\ kMinDurationMs <= kMaxDurationMs
  /\ kDurationOffsetMs \in Nat

Granted == kMinDurationMs .. kMaxDurationMs

\* The INTERACTION hint: 0 when it is not requested, what is left of a
\* request with a timeout, or Forever.
Forever == kMaxDurationMs + 1

VARIABLES
  mState,       \* InteractionState
  mEventFd,     \* counter of the event descriptor
  mDurationMs,  \* duration granted last
  elapsed,      \* milliseconds since mLastTimespec, no further than matters
  hint,         \* the request HintManager holds for INTERACTION
  routine,      \* where the DispIdle thread is
  timeout_ms,   \* WaitForIdle's second argument
  wait_ms,      \* what is left of the poll in progress
  outcome,      \* why WaitForIdle returned
  owner,        \* where the thread that owns the handler is
  promised      \* history: time the hint has still been promised for

vars == <<mState, mEventFd, mDurationMs, elapsed, hint, routine, timeout_ms,
          wait_ms, outcome, owner, promised>>

RoutineStates ==
  {"none",      \* no thread
   "lock",      \* about to take mLock and test the predicate
   "blocked",   \* in mCond.wait
   "read",      \* mLock released, about to read mDurationMs
   "poll",      \* waiting kWaitMs for an abort
   "pread",     \* about to read the idle state
   "pollIdle",  \* waiting for an abort, the display or the timeout
   "release",   \* WaitForIdle has returned
   "returned"}

\* Every variable keeps its type: a duration granted is between the minimum
\* and the maximum whatever was asked, and no more than two wake-ups are ever
\* pending in the event descriptor.  (Acquire, AbortWaitLocked)
TypeOK ==
  /\ mState \in {"UNINITIALIZED", "IDLE", "INTERACTION", "WAITING"}
  /\ mEventFd \in 0 .. 2
  /\ mDurationMs \in {0} \cup Granted
  /\ elapsed \in 0 .. kMaxDurationMs + 1
  /\ hint \in 0 .. Forever
  /\ routine \in RoutineStates
  /\ timeout_ms \in {0} \cup Granted
  /\ wait_ms \in Nat
  /\ outcome \in {"none", "aborted", "idle", "error", "timeout"}
  /\ owner \in {"constructing", "serving", "notifying", "joining", "done"}
  /\ promised \in Nat

Init ==
  /\ mState = "UNINITIALIZED"
  /\ mEventFd = 0
  /\ mDurationMs = 0
  /\ elapsed = 0
  /\ hint = 0
  /\ routine = "none"
  /\ timeout_ms = 0
  /\ wait_ms = 0
  /\ outcome = "none"
  /\ owner = "constructing"
  /\ promised = 0

waitVars == <<timeout_ms, wait_ms, outcome>>

-----------------------------------------------------------------------------
(* The owner: the constructor of Power, binder calls, the destructor *)

\* Init fails when there is no idle state to watch or no event descriptor.
HandlerInit ==
  /\ owner = "constructing"
  /\ owner' = "serving"
  /\ \/ mState' = "IDLE" /\ routine' = "lock"
     \/ UNCHANGED <<mState, routine>>
  /\ UNCHANGED <<mEventFd, mDurationMs, elapsed, hint, waitVars, promised>>

\* Mutant: the sum is not limited to the maximum.
FinalDurationMutant(duration) ==
  LET inputDuration == (duration + kDurationOffsetMs) % UintModulus
  IN  IF inputDuration > kMinDurationMs THEN inputDuration ELSE kMinDurationMs

\* The sum and its comparisons are unsigned.
FinalDuration(duration) ==
  LET inputDuration == (duration + kDurationOffsetMs) % UintModulus
  IN  CASE inputDuration > kMaxDurationMs -> kMaxDurationMs
        [] inputDuration > kMinDurationMs /\ inputDuration <= kMaxDurationMs -> inputDuration
        [] OTHER -> kMinDurationMs

\* Mutant: the time since the previous hint is not taken into account.
CoveredMutant(finalDuration) ==
  mState # "IDLE" /\ finalDuration <= mDurationMs

\* The previous hint's duration covers this one's.
Covered(finalDuration) ==
  /\ mState # "IDLE"
  /\ finalDuration <= mDurationMs
  /\ elapsed <= mDurationMs - finalDuration

Longer(old, new) == IF old < new THEN new ELSE old

\* Mutant: the waiting thread is not notified.
NotifyMutant == routine' = routine

Notify == routine' = IF routine = "blocked" THEN "lock" ELSE routine

\* Not initialized: the hint is requested for finalDuration and ends by itself.
AcquireFallback(finalDuration) ==
  /\ mState = "UNINITIALIZED"
  /\ hint' = Longer(hint, finalDuration)
  /\ UNCHANGED <<mState, mEventFd, mDurationMs, elapsed, routine>>

AcquireCovered(finalDuration) ==
  /\ mState # "UNINITIALIZED"
  /\ Covered(finalDuration)
  /\ UNCHANGED <<mState, mEventFd, mDurationMs, elapsed, hint, routine>>

\* Aborts the wait in progress, or requests the hint.
AcquireHint(finalDuration) ==
  /\ mState # "UNINITIALIZED"
  /\ ~Covered(finalDuration)
  /\ mDurationMs' = finalDuration
  /\ elapsed' = 0
  /\ mEventFd' = IF mState = "WAITING" THEN mEventFd + 1 ELSE mEventFd
  /\ hint' = IF mState = "IDLE" THEN Forever ELSE hint
  /\ mState' = "INTERACTION"
  /\ Notify

Acquire(duration) ==
  /\ owner = "serving"
  /\ LET finalDuration == FinalDuration(duration)
     IN  \/ AcquireFallback(finalDuration)
         \/ AcquireCovered(finalDuration)
         \/ AcquireHint(finalDuration)
  /\ promised' = IF mState = "UNINITIALIZED" THEN promised
                  ELSE Longer(promised, FinalDuration(duration))
  /\ UNCHANGED <<waitVars, owner>>

\* Exit, up to the point where it releases mLock.
ExitBegin ==
  /\ owner = "serving"
  /\ IF mState = "UNINITIALIZED"
       THEN /\ owner' = "done"
            /\ UNCHANGED <<mState, mEventFd>>
       ELSE /\ owner' = "notifying"
            /\ mEventFd' = mEventFd + 1
            /\ mState' = "UNINITIALIZED"
  /\ UNCHANGED <<mDurationMs, elapsed, hint, routine, waitVars, promised>>

\* Mutant: notify_all is forgotten.
ExitNotifyMutant ==
  /\ owner = "notifying"
  /\ owner' = "joining"
  /\ UNCHANGED <<mState, mEventFd, mDurationMs, elapsed, hint, routine, waitVars, promised>>

ExitNotify ==
  /\ owner = "notifying"
  /\ Notify
  /\ owner' = "joining"
  /\ UNCHANGED <<mState, mEventFd, mDurationMs, elapsed, hint, waitVars, promised>>

ExitJoin ==
  /\ owner = "joining"
  /\ routine = "returned"
  /\ owner' = "done"
  /\ UNCHANGED <<mState, mEventFd, mDurationMs, elapsed, hint, routine, waitVars, promised>>

-----------------------------------------------------------------------------
(* The DispIdle thread: Routine, WaitForIdle, Release *)

RoutineLock ==
  /\ routine = "lock"
  /\ CASE mState = "IDLE" -> routine' = "blocked" /\ mState' = mState
       [] mState = "UNINITIALIZED" -> routine' = "returned" /\ mState' = mState
       [] OTHER -> routine' = "read" /\ mState' = "WAITING"
  /\ UNCHANGED <<mEventFd, mDurationMs, elapsed, hint, waitVars, owner, promised>>

ReadDuration ==
  /\ routine = "read"
  /\ timeout_ms' = mDurationMs
  /\ wait_ms' = kWaitMs
  /\ routine' = "poll"
  /\ UNCHANGED <<mState, mEventFd, mDurationMs, elapsed, hint, outcome, owner, promised>>

\* WaitForIdle returns because of why.
Return(why) ==
  /\ routine' = "release"
  /\ outcome' = why
  /\ UNCHANGED <<mState, mEventFd, mDurationMs, elapsed, hint, timeout_ms, wait_ms, owner, promised>>

PollAborted ==
  /\ routine \in {"poll", "pollIdle"}
  /\ mEventFd > 0
  /\ Return("aborted")

\* poll fails.
PollError ==
  /\ routine \in {"poll", "pollIdle"}
  /\ Return("error")

PollTimeout ==
  /\ routine = "poll"
  /\ wait_ms = 0
  /\ mEventFd = 0
  /\ routine' = "pread"
  /\ UNCHANGED <<mState, mEventFd, mDurationMs, elapsed, hint, waitVars, owner, promised>>

\* The display is idle already, or the file is empty.  When pread fails the
\* buffer compared was never written, and either branch may be taken.
ReadIdle ==
  /\ routine = "pread"
  /\ Return("idle")

ReadActive ==
  /\ routine = "pread"
  /\ wait_ms' = timeout_ms
  /\ routine' = "pollIdle"
  /\ UNCHANGED <<mState, mEventFd, mDurationMs, elapsed, hint, timeout_ms, outcome, owner, promised>>

PollIdle ==
  /\ routine = "pollIdle"
  /\ Return("idle")

PollIdleTimeout ==
  /\ routine = "pollIdle"
  /\ wait_ms = 0
  /\ mEventFd = 0
  /\ Return("timeout")

\* Mutant: the abort that was meant for the previous wait is left pending.
ReleaseMutant ==
  /\ routine = "release"
  /\ IF mState = "WAITING"
       THEN hint' = 0 /\ mState' = "IDLE" /\ promised' = 0
       ELSE UNCHANGED <<hint, mState, promised>>
  /\ routine' = "lock"
  /\ UNCHANGED <<mEventFd, mDurationMs, elapsed, waitVars, owner>>

\* Mutant: the hint is given back although a new Acquire wants it.
ReleaseAlwaysMutant ==
  /\ routine = "release"
  /\ hint' = 0
  /\ IF mState = "WAITING"
       THEN mState' = "IDLE" /\ mEventFd' = mEventFd /\ promised' = 0
       ELSE mEventFd' = 0 /\ UNCHANGED <<mState, promised>>
  /\ routine' = "lock"
  /\ UNCHANGED <<mDurationMs, elapsed, waitVars, owner>>

Release ==
  /\ routine = "release"
  /\ IF mState = "WAITING"
       THEN hint' = 0 /\ mState' = "IDLE" /\ mEventFd' = mEventFd /\ promised' = 0
       ELSE mEventFd' = 0 /\ UNCHANGED <<hint, mState, promised>>
  /\ routine' = "lock"
  /\ UNCHANGED <<mDurationMs, elapsed, waitVars, owner>>

-----------------------------------------------------------------------------

\* One millisecond of CLOCK_MONOTONIC.
Tick ==
  /\ elapsed' = IF elapsed <= kMaxDurationMs THEN elapsed + 1 ELSE elapsed
  /\ wait_ms' = IF wait_ms > 0 THEN wait_ms - 1 ELSE wait_ms
  /\ hint' = IF hint \in 1 .. kMaxDurationMs THEN hint - 1 ELSE hint
  /\ promised' = IF promised > 0 THEN promised - 1 ELSE promised
  /\ UNCHANGED <<mState, mEventFd, mDurationMs, routine, timeout_ms, outcome, owner>>

RoutineStep ==
  \/ RoutineLock
  \/ ReadDuration
  \/ PollAborted
  \/ PollTimeout
  \/ ReadIdle
  \/ ReadActive
  \/ PollIdleTimeout
  \/ Release

Next ==
  \/ HandlerInit
  \/ \E duration \in Inputs : Acquire(duration)
  \/ ExitBegin
  \/ ExitNotify
  \/ ExitJoin
  \/ RoutineStep
  \/ PollError
  \/ PollIdle
  \/ Tick

Spec == Init /\ [][Next]_vars

\* The threads run and the clock advances.  Nobody has to acquire or to exit,
\* polls need not fail and the display need not become idle.
Fairness ==
  /\ WF_vars(RoutineStep)
  /\ WF_vars(Tick)
  /\ WF_vars(ExitNotify)
  /\ WF_vars(ExitJoin)

FairSpec == Spec /\ Fairness

-----------------------------------------------------------------------------
(* Properties *)

\* A wait only ends early for a caller that wants more than the wait was
\* going to give: no wake-up is left over from an earlier one.
\* (AbortWaitLocked, Release)
NoStaleAbort ==
  mState = "WAITING" =>
    mEventFd = 0 /\ ~(routine = "release" /\ outcome = "aborted")

\* The handler holds the hint exactly while its state says so; a handler that
\* was shut down holds on to what it had.  (PerfLock, PerfRel, Exit)
HintMatchesState ==
  /\ mState \in {"INTERACTION", "WAITING"} => hint = Forever
  /\ mState = "IDLE" => hint = 0

\* The lease the callers are promised: Acquire never shortens it and Release
\* never comes before its time, unless the display was seen idle since it was
\* last extended.  (Acquire, WaitForIdle, Release)
Lease == INSTANCE InteractionLease WITH
  Durations <- Granted,
  held <- hint = Forever,
  left <- promised,
  idle <- /\ mState = "WAITING"
          /\ routine = "release"
          /\ outcome \in {"idle", "error"}

IsLease == Lease!Spec

\* Once nobody acquires any more the hint is given back, whatever the display
\* does, unless the handler is shut down.  (Routine)
NoMoreCalls == <>[][\A duration \in Inputs : ~Acquire(duration)]_vars

HintEnds == NoMoreCalls => <>[](hint = 0 \/ mState = "UNINITIALIZED")

\* Exit always gets its thread back.  (Exit)
ExitReturns == owner = "notifying" ~> owner = "done"

\* No wake-up is lost: neither the hint nor the owner waits for DispIdle
\* forever.  (Routine, Exit)
NobodyWaits == HintEnds /\ ExitReturns

=============================================================================
