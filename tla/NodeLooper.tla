----------------------------- MODULE NodeLooper -----------------------------
(***************************************************************************)
(* libperfmgr's NodeLooperThread: the thread that owns the sysfs and       *)
(* property nodes, the requests placed on them by power hints, and the     *)
(* choice of the value each node is given.                                 *)
(*                                                                         *)
(* A node has values 0 .. NumValues-1 in priority order and, for every     *)
(* value, a RequestGroup: a map from hint to the end time of its request.  *)
(* Times are kept as the milliseconds left, so the steady clock is the     *)
(* action Tick; NoRequest stands for a hint that is not in the map, 0 for  *)
(* an entry that has ended and was not erased yet, and Forever for         *)
(* ReqTime::max().                                                         *)
(*                                                                         *)
(* lock_ is held by the looper from the first update pass until            *)
(* waitRelative gives it up; everything a client does under lock_ is one   *)
(* action.                                                                 *)
(***************************************************************************)
EXTENDS Integers, FiniteSets

CONSTANTS
  Nodes,          \* nodes_
  HoldFdNodes,    \* FileNodes created with hold_fd_
  PropertyNodes,  \* PropertyNodes; the others are FileNodes
  NumValues,      \* size of req_sorted_ of every node
  DefaultIndex,   \* default_val_index_ of every node
  ResetOnInit,    \* the nodes whose reset_on_init_ starts TRUE
  Hints,          \* hint types
  HintValue,      \* value index a hint asks of a node, or NoAction
  Timeouts,       \* what a client passes as timeout_ms, 0 for forever
  MaxTimeout,     \* longest timeout that does not overflow ReqTime
  RetryMs,        \* the 500 ms of FileNode::Update
  Callers,        \* threads that call Request and Cancel
  MaxFailures,    \* bound: writes the kernel refuses in one behaviour
  MaxPassMs       \* bound: ticks that go by while one pass holds lock_

Values == 0 .. NumValues - 1
NoAction == -1
NoRequest == -1
Forever == MaxTimeout + 1
Remaining == NoRequest .. Forever
FileNodes == Nodes \ PropertyNodes

ASSUME ConstantsAssumption ==
  /\ IsFiniteSet(Nodes)
  /\ HoldFdNodes \subseteq Nodes
  /\ PropertyNodes \subseteq Nodes
  /\ HoldFdNodes \cap PropertyNodes = {}
  /\ NumValues \in Nat \ {0}
  /\ DefaultIndex \in [Nodes -> Values]
  /\ ResetOnInit \subseteq Nodes
  /\ HintValue \in [Hints -> [Nodes -> Values \cup {NoAction}]]
  /\ Timeouts \subseteq Nat
  /\ MaxTimeout \in Nat \ {0}
  /\ RetryMs \in Nat \ {0}
  /\ RetryMs <= MaxTimeout
  /\ MaxFailures \in Nat
  /\ MaxPassMs \in Nat

\* Kernel's own setting of a node: nothing written yet, or the held file
\* descriptor that carried the value has been closed.
Unset == -1

Idle == [op |-> "none"]
Calls == [op : {"Request"}, hint : Hints, timeout_ms : Timeouts]
           \cup [op : {"Cancel"}, hint : Hints]

VARIABLES
  req_sorted,         \* node -> value -> hint -> milliseconds left
  current_val_index,  \* node -> value libperfmgr believes is in force
  reset_on_init,      \* nodes still to be written for the first time
  in_force,           \* node -> value the kernel applies, or Unset
  looper,             \* where the looper thread is
  sleep_ms,           \* timeout of the pass, then what is left of the wait
  pass_ms,            \* ticks since the second pass of this iteration began
  failures,           \* writes refused so far
  exit_pending,       \* Thread::mExitPending
  stopper,            \* the thread in Stop(): "idle", "joining" or "done"
  caller              \* caller -> Idle, or the call it is about to commit

vars == <<req_sorted, current_val_index, reset_on_init, in_force, looper,
          sleep_ms, pass_ms, failures, exit_pending, stopper, caller>>

nodeVars == <<req_sorted, current_val_index, reset_on_init, in_force>>

LooperStates ==
  {"unstarted",   \* constructed, run() not called
   "check",       \* in Thread::_threadLoop, about to test mExitPending
   "ready",       \* test passed, about to take lock_
   "firstPass",   \* Update(false) done on every node, lock_ held
   "secondPass",  \* Update(true) done on every node, lock_ held
   "waiting",     \* in wake_cond_.waitRelative, lock_ released
   "exited"}

LockHeld == looper \in {"firstPass", "secondPass"}

\* Every variable keeps its type: an entry never has less than no time left,
\* an index always names a value of its node.  (Node, NodeLooperThread)
TypeOK ==
  /\ req_sorted \in [Nodes -> [Values -> [Hints -> Remaining]]]
  /\ current_val_index \in [Nodes -> Values]
  /\ reset_on_init \subseteq Nodes
  /\ in_force \in [Nodes -> Values \cup {Unset}]
  /\ looper \in LooperStates
  /\ sleep_ms \in 0 .. Forever
  /\ pass_ms \in 0 .. MaxPassMs
  /\ failures \in 0 .. MaxFailures
  /\ exit_pending \in BOOLEAN
  /\ stopper \in {"idle", "joining", "done"}
  /\ caller \in [Callers -> Calls \cup {Idle}]

Init ==
  /\ req_sorted = [n \in Nodes |-> [v \in Values |-> [h \in Hints |-> NoRequest]]]
  /\ current_val_index = DefaultIndex
  /\ reset_on_init = ResetOnInit
  /\ in_force = [n \in Nodes |-> Unset]
  /\ looper = "unstarted"
  /\ sleep_ms = 0
  /\ pass_ms = 0
  /\ failures = 0
  /\ exit_pending = FALSE
  /\ stopper = "idle"
  /\ caller = [c \in Callers |-> Idle]

-----------------------------------------------------------------------------
(* RequestGroup and Node *)

\* Mutant: now + timeout_ms is not guarded against overflow.
EndTimeMutant(timeout_ms) == IF timeout_ms = 0 THEN Forever ELSE timeout_ms

\* End time of a request placed now; 0 is forever, and so is a timeout that
\* would overflow the time point.
EndTime(timeout_ms) ==
  IF timeout_ms = 0 \/ timeout_ms > MaxTimeout THEN Forever ELSE timeout_ms

\* Mutant: the last request wins.
LongerMutant(old, end) == end

Longer(old, end) == IF old < end THEN end ELSE old

\* RequestGroup::AddRequest never brings the end of a request forward.
AddRequest(h, timeout_ms) ==
  [n \in Nodes |-> [v \in Values |->
     IF HintValue[h][n] = v
       THEN [req_sorted[n][v] EXCEPT ![h] = Longer(@, EndTime(timeout_ms))]
       ELSE req_sorted[n][v]]]

\* Node::RemoveRequest drops the hint from every value of the nodes it names.
RemoveRequest(h) ==
  [n \in Nodes |-> IF HintValue[h][n] = NoAction THEN req_sorted[n]
     ELSE [v \in Values |-> [req_sorted[n][v] EXCEPT ![h] = NoRequest]]]

Active(n, v) == \E h \in Hints : req_sorted[n][v][h] > 0

\* The value Update chooses: the first group with a request that has not
\* ended, else the default.
IsTarget(n, v) ==
  \/ Active(n, v) /\ \A w \in Values : w < v => ~Active(n, w)
  \/ v = DefaultIndex[n] /\ \A w \in Values : ~Active(n, w)

Target(n) == CHOOSE v \in Values : IsTarget(n, v)

\* GetExpireTime erases what has ended in the groups it visits, and Update
\* visits no group after the first active one.
Erase(n) ==
  [v \in Values |->
     IF \E w \in Values : w < v /\ Active(n, w) THEN req_sorted[n][v]
     ELSE [h \in Hints |-> IF req_sorted[n][v][h] = 0 THEN NoRequest
                           ELSE req_sorted[n][v][h]]]

Attempted == {n \in Nodes : Target(n) # current_val_index[n] \/ n \in reset_on_init}

\* Mutant: a refused write is not retried.
ExpireTimesMutant(failed) ==
  {Forever}
    \cup {r \in 1 .. Forever : \E n \in Nodes, v \in Values, h \in Hints :
                                IsTarget(n, v) /\ r = req_sorted[n][v][h]}

\* What threadLoop takes the minimum of: every request of the chosen groups,
\* and RetryMs for a FileNode whose write failed.
ExpireTimes(failed) ==
  {Forever} \cup {RetryMs : n \in failed \cap FileNodes}
    \cup {r \in 1 .. Forever : \E n \in Nodes, v \in Values, h \in Hints :
                                IsTarget(n, v) /\ r = req_sorted[n][v][h]}

IsLeast(t, S) == t \in S /\ \A u \in S : t <= u

\* Mutant: the descriptor is released after every write.
EffectMutant(n, ok) ==
  CASE n \in HoldFdNodes -> Unset
    [] OTHER -> IF ok THEN Target(n) ELSE in_force[n]

\* What a write leaves in force: on a node that must keep its descriptor open
\* the previous descriptor, and with it the previous value, goes away as soon
\* as the file is opened again, and the default value is written and released.
Effect(n, ok) ==
  CASE n \in HoldFdNodes ->
         IF ok /\ Target(n) # DefaultIndex[n] THEN Target(n) ELSE Unset
    [] OTHER -> IF ok THEN Target(n) ELSE in_force[n]

\* FileNode::Update and PropertyNode::Update of every node, with the writes to
\* the nodes of failed refused.
Update(failed) ==
  /\ failed \subseteq Attempted
  /\ failures + Cardinality(failed) <= MaxFailures
  /\ failures' = failures + Cardinality(failed)
  /\ req_sorted' = [n \in Nodes |-> Erase(n)]
  /\ current_val_index' =
       [n \in Nodes |-> IF n \in Attempted \ failed THEN Target(n)
                        ELSE current_val_index[n]]
  /\ reset_on_init' = reset_on_init \ (Attempted \ failed)
  /\ in_force' = [n \in Nodes |-> IF n \in Attempted THEN Effect(n, n \notin failed)
                                  ELSE in_force[n]]

-----------------------------------------------------------------------------
(* The looper thread: Thread::_threadLoop and NodeLooperThread::threadLoop *)

Start ==
  /\ looper = "unstarted"
  /\ looper' = "check"
  /\ UNCHANGED <<nodeVars, sleep_ms, pass_ms, failures, exit_pending, stopper, caller>>

\* The base class tests mExitPending between two iterations, without lock_.
CheckExit ==
  /\ looper = "check"
  /\ looper' = IF exit_pending THEN "exited" ELSE "ready"
  /\ UNCHANGED <<nodeVars, sleep_ms, pass_ms, failures, exit_pending, stopper, caller>>

FirstPass(failed) ==
  /\ looper = "ready"
  /\ Update(failed)
  /\ looper' = "firstPass"
  /\ pass_ms' = 0
  /\ UNCHANGED <<sleep_ms, exit_pending, stopper, caller>>

SecondPass(failed) ==
  /\ looper = "firstPass"
  /\ Update(failed)
  /\ sleep_ms' \in {t \in ExpireTimes(failed) : IsLeast(t, ExpireTimes(failed))}
  /\ looper' = "secondPass"
  /\ pass_ms' = 0
  /\ UNCHANGED <<exit_pending, stopper, caller>>

WaitRelative ==
  /\ looper = "secondPass"
  /\ looper' = "waiting"
  /\ UNCHANGED <<nodeVars, sleep_ms, pass_ms, failures, exit_pending, stopper, caller>>

WaitTimeout ==
  /\ looper = "waiting"
  /\ sleep_ms = 0
  /\ looper' = "check"
  /\ UNCHANGED <<nodeVars, sleep_ms, pass_ms, failures, exit_pending, stopper, caller>>

\* Mutant: the client forgets to wake the looper.
SignalMutant == looper' = looper

Signal == looper' = IF looper = "waiting" THEN "check" ELSE looper

-----------------------------------------------------------------------------
(* Clients: Request, Cancel, Stop *)

\* Both calls return early, and change nothing, once exitPending().
CallBegin(c, call) ==
  /\ caller[c] = Idle
  /\ ~exit_pending
  /\ caller' = [caller EXCEPT ![c] = call]
  /\ UNCHANGED <<nodeVars, looper, sleep_ms, pass_ms, failures, exit_pending, stopper>>

CallCommit(c) ==
  /\ caller[c] # Idle
  /\ ~LockHeld
  /\ req_sorted' = IF caller[c].op = "Request"
                     THEN AddRequest(caller[c].hint, caller[c].timeout_ms)
                     ELSE RemoveRequest(caller[c].hint)
  /\ Signal
  /\ caller' = [caller EXCEPT ![c] = Idle]
  /\ UNCHANGED <<current_val_index, reset_on_init, in_force, sleep_ms, pass_ms,
                 failures, exit_pending, stopper>>

StopBegin ==
  /\ stopper = "idle"
  /\ looper \notin {"unstarted", "exited"}
  /\ ~LockHeld
  /\ Signal
  /\ exit_pending' = TRUE
  /\ stopper' = "joining"
  /\ UNCHANGED <<nodeVars, sleep_ms, pass_ms, failures, caller>>

StopJoin ==
  /\ stopper = "joining"
  /\ looper = "exited"
  /\ stopper' = "done"
  /\ UNCHANGED <<nodeVars, looper, sleep_ms, pass_ms, failures, exit_pending, caller>>

\* One millisecond of the steady clock.
Elapse(r) == IF r \in 1 .. MaxTimeout THEN r - 1 ELSE r

Tick ==
  /\ LockHeld => pass_ms < MaxPassMs
  /\ pass_ms' = IF LockHeld THEN pass_ms + 1 ELSE pass_ms
  /\ req_sorted' = [n \in Nodes |-> [v \in Values |-> [h \in Hints |->
                      Elapse(req_sorted[n][v][h])]]]
  /\ sleep_ms' = IF looper = "waiting" THEN Elapse(sleep_ms) ELSE sleep_ms
  /\ UNCHANGED <<current_val_index, reset_on_init, in_force, looper, failures,
                 exit_pending, stopper, caller>>

LooperStep ==
  \/ CheckExit
  \/ \E failed \in SUBSET Nodes : FirstPass(failed) \/ SecondPass(failed)
  \/ WaitRelative
  \/ WaitTimeout

Next ==
  \/ Start
  \/ LooperStep
  \/ \E c \in Callers, call \in Calls : CallBegin(c, call)
  \/ \E c \in Callers : CallCommit(c)
  \/ StopBegin
  \/ StopJoin
  \/ Tick

Spec == Init /\ [][Next]_vars

\* The threads are scheduled and the clock advances; nobody has to call.
Fairness ==
  /\ WF_vars(LooperStep)
  /\ WF_vars(Tick)
  /\ WF_vars(StopJoin)
  /\ \A c \in Callers : WF_vars(CallCommit(c))

FairSpec == Spec /\ Fairness

-----------------------------------------------------------------------------
(* Properties *)

Settled(n) == IsTarget(n, current_val_index[n]) /\ n \notin reset_on_init

\* While the looper sleeps, and is not yet due to wake (but for the time its
\* own pass took after it computed the timeout), every node already has the
\* value of its highest request that has not ended: no expiry, request or
\* cancellation is slept through.  The only exceptions are a FileNode whose
\* write failed, for which the looper wakes within RetryMs, and a
\* PropertyNode whose write failed.  (threadLoop, Update, GetExpireTime)
NoMissedExpiry ==
  looper = "waiting" /\ sleep_ms > pass_ms =>
    /\ \A n \in FileNodes : Settled(n) \/ (failures > 0 /\ sleep_ms <= RetryMs)
    /\ \A n \in PropertyNodes : Settled(n) \/ failures > 0

\* A request that has not ended only ever loses time to the clock, or goes
\* away in a Cancel of its own hint: no pass of the looper erases it, and no
\* later, shorter Request brings its end forward.  (AddRequest,
\* GetExpireTime, RemoveRequest)
CancelledBy(h) ==
  \E c \in Callers : /\ caller[c] = [op |-> "Cancel", hint |-> h]
                     /\ caller'[c] = Idle

KeptUntilEnd ==
  [][\A n \in Nodes, v \in Values, h \in Hints :
       LET old == req_sorted[n][v][h]
           new == req_sorted'[n][v][h]
       IN  old > 0 /\ new < old =>
             CancelledBy(h) \/ (caller' = caller /\ new = old - 1)]_vars

\* A hold_fd_ node keeps its file open for as long as a value other than the
\* default is requested: whenever the looper sleeps on a node that it takes to
\* have such a value, the kernel does apply that value.  It need not, once a write
\* was refused: the file is opened again before it.  (FileNode::Update)
HeldWhileRequested ==
  \A n \in HoldFdNodes :
    /\ looper = "waiting"
    /\ Settled(n)
    /\ current_val_index[n] # DefaultIndex[n]
    => in_force[n] = current_val_index[n]

\* The part of it that holds: it takes a refused write to lose the value.
HeldUnlessRefused == failures = 0 => HeldWhileRequested

\* Once the clients leave the looper alone every FileNode ends up, and stays,
\* at the value its remaining requests ask for: expired and cancelled hints
\* are undone, failed writes are repeated.  A PropertyNode has no such promise:
\* Update does not repeat a failed SetProperty.  (threadLoop, FileNode::Update)
Quiet ==
  /\ \A c \in Callers : caller[c] = Idle
  /\ stopper = "idle"
  /\ looper # "unstarted"

FileNodesSettle == <>[]Quiet => <>[](\A n \in FileNodes : Settled(n))

\* Stop() joins the looper thread.  (NodeLooperThread::Stop)
StopReturns == stopper = "joining" ~> stopper = "done"

=============================================================================
