-------------------------- MODULE NodeLooperProofs --------------------------
(***************************************************************************)
(* Proofs about NodeLooper for every number of nodes, values, hints and    *)
(* callers.                                                                *)
(***************************************************************************)
EXTENDS NodeLooper, FiniteSetTheorems, WellFoundedInduction, TLAPS

\* Every non-empty set of naturals has a least element: the initial segments
\* of its members are ordered by strict inclusion, which is well-founded on
\* finite sets.
LEMMA LeastNat ==
  ASSUME NEW S \in SUBSET Nat, S # {}
  PROVE  \E m \in S : \A k \in S : m <= k
<1> DEFINE F == {0 .. k : k \in S}
           R == StrictSubsetOrdering(Nat)
<1>1. F \subseteq FiniteSubsetsOf(Nat)
  <2>1. ASSUME NEW k \in Nat
        PROVE  0 .. k \in SUBSET Nat /\ IsFiniteSet(0 .. k)
    <3>1. IsFiniteSet(0 .. k)
      BY FS_Interval
    <3> QED
      BY <3>1
  <2> QED
    BY <2>1 DEF FiniteSubsetsOf
<1>2. IsWellFoundedOn(R, FiniteSubsetsOf(Nat))
  BY FS_StrictSubsetOrderingWellFounded
<1>3. F # {}
  OBVIOUS
<1>4. PICK T \in F : \A U \in F : <<U, T>> \notin R
  <2> HIDE DEF F, R
  <2> QED
    BY <1>1, <1>2, <1>3, WFMin
<1>5. PICK m \in S : T = 0 .. m
  BY <1>4
<1>6. ASSUME NEW k \in S, ~(m <= k)
      PROVE  FALSE
  <2>1. 0 .. k \subseteq 0 .. m
    BY <1>6
  <2>2. 0 .. k # 0 .. m
    <3>1. m \in 0 .. m /\ m \notin 0 .. k
      BY <1>6
    <3> QED
      BY <3>1
  <2>3. <<0 .. k, 0 .. m>> \in R
    BY <2>1, <2>2 DEF StrictSubsetOrdering
  <2>4. 0 .. k \in F
    OBVIOUS
  <2> QED
    BY <2>3, <2>4, <1>4, <1>5
<1> QED
  BY <1>6

-----------------------------------------------------------------------------
(* The value a node is given *)

\* Every node has a value to be given: the default stands in when no request
\* is left.
LEMMA TargetExists ==
  ASSUME NEW n \in Nodes
  PROVE  \E v \in Values : IsTarget(n, v)
<1> DEFINE S == {v \in Values : Active(n, v)}
<1>1. CASE S = {}
  <2>1. DefaultIndex[n] \in Values
    BY ConstantsAssumption
  <2> QED
    BY <1>1, <2>1 DEF IsTarget
<1>2. CASE S # {}
  <2>1. S \in SUBSET Nat
    BY ConstantsAssumption DEF Values
  <2>2. PICK m \in S : \A k \in S : m <= k
    <3> HIDE DEF S
    <3> QED
      BY <1>2, <2>1, LeastNat
  <2>3. \A w \in Values : w < m => ~Active(n, w)
    BY <2>1, <2>2
  <2> QED
    BY <2>2, <2>3 DEF IsTarget
<1> QED
  BY <1>1, <1>2

\* Target(n) is what Update chooses, and it is a value of the node.
LEMMA TargetIsTarget ==
  ASSUME NEW n \in Nodes
  PROVE  Target(n) \in Values /\ IsTarget(n, Target(n))
BY TargetExists DEF Target

\* A pass looks at no value that would contradict another: there is only one.
LEMMA TargetUnique ==
  ASSUME NEW n \in Nodes, NEW v \in Values, NEW w \in Values,
         IsTarget(n, v), IsTarget(n, w)
  PROVE  v = w
<1>1. Values \subseteq Int
  BY ConstantsAssumption DEF Values
<1> QED
  BY <1>1 DEF IsTarget

-----------------------------------------------------------------------------
(* Types *)

\* What the assumptions on the constants say of times: they are integers in
\* range, a tick keeps them so, and a new request has some time left.
LEMMA ConstantTypes ==
  /\ Values \subseteq Nat
  /\ MaxTimeout \in Nat /\ Forever \in Nat /\ Forever = MaxTimeout + 1
  /\ Forever > 1
  /\ NoRequest = -1 /\ 0 \in Remaining /\ NoRequest \in Remaining
  /\ Remaining \subseteq Int
  /\ \A r \in Remaining : Elapse(r) \in Remaining
  /\ \A t \in Timeouts : EndTime(t) \in 1 .. Forever
BY ConstantsAssumption
DEF Values, Forever, Remaining, NoRequest, Elapse, EndTime

\* A pass over the nodes (Node::Update of each) keeps their types, and counts
\* the writes that were refused.
LEMMA UpdateType ==
  ASSUME TypeOK, NEW failed, Update(failed)
  PROVE  /\ req_sorted' \in [Nodes -> [Values -> [Hints -> Remaining]]]
         /\ current_val_index' \in [Nodes -> Values]
         /\ reset_on_init' \subseteq Nodes
         /\ in_force' \in [Nodes -> Values \cup {Unset}]
         /\ failures' \in 0 .. MaxFailures
         /\ failures' >= failures
         /\ failed # {} => failures' > 0
<1>1. req_sorted' \in [Nodes -> [Values -> [Hints -> Remaining]]]
  <2>1. ASSUME NEW n \in Nodes
        PROVE  Erase(n) \in [Values -> [Hints -> Remaining]]
    BY ConstantTypes DEF TypeOK, Erase
  <2> QED
    BY <2>1 DEF Update
<1>2. current_val_index' \in [Nodes -> Values]
  BY TargetIsTarget DEF TypeOK, Update
<1>3. reset_on_init' \subseteq Nodes
  BY DEF TypeOK, Update
<1>4. in_force' \in [Nodes -> Values \cup {Unset}]
  <2>1. ASSUME NEW n \in Nodes, NEW ok \in BOOLEAN
        PROVE  Effect(n, ok) \in Values \cup {Unset}
    <3>1. in_force[n] \in Values \cup {Unset}
      BY DEF TypeOK
    <3> QED
      BY <3>1, TargetIsTarget DEF Effect
  <2> QED
    BY <2>1 DEF TypeOK, Update
<1>5. /\ Cardinality(failed) \in Nat
      /\ failed # {} => Cardinality(failed) # 0
  <2>1. failed \in SUBSET Nodes
    BY DEF Update, Attempted
  <2>2. IsFiniteSet(failed)
    BY <2>1, FS_Subset, ConstantsAssumption
  <2> QED
    BY <2>2, FS_CardinalityType, FS_EmptySet
<1>6. failures \in Nat
  BY ConstantsAssumption DEF TypeOK
<1>7. /\ failures' \in 0 .. MaxFailures
      /\ failures' >= failures
      /\ failed # {} => failures' > 0
  BY <1>5, <1>6, ConstantsAssumption DEF Update
<1> QED
  BY <1>1, <1>2, <1>3, <1>4, <1>7

\* A Request or a Cancel keeps the types.
LEMMA CallType ==
  ASSUME TypeOK, NEW c \in Callers, CallCommit(c)
  PROVE  /\ req_sorted' \in [Nodes -> [Values -> [Hints -> Remaining]]]
         /\ looper' \in LooperStates
         /\ caller' \in [Callers -> Calls \cup {Idle}]
<1>1. caller[c] \in Calls
  BY DEF TypeOK, CallCommit
<1>2. caller[c].hint \in Hints
  BY <1>1 DEF Calls
<1>3. CASE caller[c].op = "Request"
  <2>1. caller[c].timeout_ms \in Timeouts
    BY <1>1, <1>3 DEF Calls
  <2>2. EndTime(caller[c].timeout_ms) \in Remaining
    BY <2>1, ConstantTypes DEF Remaining
  <2>3. \A old \in Remaining :
          Longer(old, EndTime(caller[c].timeout_ms)) \in Remaining
    BY <2>2 DEF Longer
  <2>4. AddRequest(caller[c].hint, caller[c].timeout_ms)
          \in [Nodes -> [Values -> [Hints -> Remaining]]]
    BY <1>2, <2>3 DEF TypeOK, AddRequest
  <2> QED
    BY <1>3, <2>4 DEF TypeOK, CallCommit, Signal, LooperStates
<1>4. CASE caller[c].op # "Request"
  <2>1. RemoveRequest(caller[c].hint)
          \in [Nodes -> [Values -> [Hints -> Remaining]]]
    BY <1>2, ConstantTypes DEF TypeOK, RemoveRequest
  <2> QED
    BY <1>4, <2>1 DEF TypeOK, CallCommit, Signal, LooperStates
<1> QED
  BY <1>3, <1>4

\* The constructed, not yet started looper has the right types.
LEMMA InitTypeOK == Init => TypeOK
<1> SUFFICES ASSUME Init
             PROVE  TypeOK
  OBVIOUS
<1>1. req_sorted \in [Nodes -> [Values -> [Hints -> Remaining]]]
  BY ConstantTypes DEF Init
<1>2. /\ current_val_index \in [Nodes -> Values]
      /\ reset_on_init \subseteq Nodes
  BY ConstantsAssumption DEF Init
<1>3. /\ sleep_ms \in 0 .. Forever
      /\ pass_ms \in 0 .. MaxPassMs
      /\ failures \in 0 .. MaxFailures
  BY ConstantTypes, ConstantsAssumption DEF Init
<1> QED
  BY <1>1, <1>2, <1>3 DEF Init, TypeOK, LooperStates

\* Every step keeps the types.
LEMMA NextTypeOK == TypeOK /\ [Next]_vars => TypeOK'
<1> SUFFICES ASSUME TypeOK, [Next]_vars
             PROVE  TypeOK'
  OBVIOUS
<1>1. CASE Start
  BY <1>1 DEF TypeOK, Start, nodeVars, LooperStates
<1>2. CASE CheckExit
  BY <1>2 DEF TypeOK, CheckExit, nodeVars, LooperStates
<1>3. ASSUME NEW failed \in SUBSET Nodes, FirstPass(failed)
      PROVE  TypeOK'
  <2>1. Update(failed)
    BY <1>3 DEF FirstPass
  <2> QED
    BY <1>3, <2>1, UpdateType, ConstantsAssumption
    DEF TypeOK, FirstPass, LooperStates
<1>4. ASSUME NEW failed \in SUBSET Nodes, SecondPass(failed)
      PROVE  TypeOK'
  <2>1. Update(failed)
    BY <1>4 DEF SecondPass
  <2>2. ExpireTimes(failed) \subseteq 0 .. Forever
    BY ConstantTypes, ConstantsAssumption DEF ExpireTimes
  <2> QED
    BY <1>4, <2>1, <2>2, UpdateType, ConstantsAssumption
    DEF TypeOK, SecondPass, LooperStates
<1>5. CASE WaitRelative
  BY <1>5 DEF TypeOK, WaitRelative, nodeVars, LooperStates
<1>6. CASE WaitTimeout
  BY <1>6 DEF TypeOK, WaitTimeout, nodeVars, LooperStates
<1>7. ASSUME NEW c \in Callers, NEW call \in Calls, CallBegin(c, call)
      PROVE  TypeOK'
  BY <1>7 DEF TypeOK, CallBegin, nodeVars
<1>8. ASSUME NEW c \in Callers, CallCommit(c)
      PROVE  TypeOK'
  <2>1. caller' \in [Callers -> Calls \cup {Idle}]
    BY <1>8 DEF TypeOK, CallCommit
  <2> QED
    BY <1>8, <2>1, CallType DEF TypeOK, CallCommit
<1>9. CASE StopBegin
  BY <1>9 DEF TypeOK, StopBegin, Signal, nodeVars, LooperStates
<1>10. CASE StopJoin
  BY <1>10 DEF TypeOK, StopJoin, nodeVars
<1>11. CASE Tick
  <2>1. req_sorted' \in [Nodes -> [Values -> [Hints -> Remaining]]]
    <3>1. ASSUME NEW n \in Nodes, NEW v \in Values, NEW h \in Hints
          PROVE  Elapse(req_sorted[n][v][h]) \in Remaining
      <4>1. req_sorted[n][v][h] \in Remaining
        BY DEF TypeOK
      <4> QED
        BY <4>1, ConstantTypes
    <3> QED
      BY <1>11, <3>1 DEF Tick
  <2>2. pass_ms' \in 0 .. MaxPassMs
    BY <1>11, ConstantsAssumption DEF TypeOK, Tick
  <2>3. sleep_ms' \in 0 .. Forever
    BY <1>11, ConstantTypes DEF TypeOK, Tick, Elapse
  <2> QED
    BY <1>11, <2>1, <2>2, <2>3 DEF TypeOK, Tick
<1>12. CASE UNCHANGED vars
  BY <1>12 DEF TypeOK, vars
<1> QED
  BY <1>1, <1>2, <1>3, <1>4, <1>5, <1>6, <1>7, <1>8, <1>9, <1>10, <1>11, <1>12
  DEF Next, LooperStep

\* Every variable of the looper, its nodes and its clients keeps its type,
\* whatever requests, cancellations, refused writes and delays happen.
THEOREM TypeCorrect == Spec => []TypeOK
BY InitTypeOK, NextTypeOK, PTL DEF Spec

-----------------------------------------------------------------------------
(* No expiry is slept through *)

\* What a completed second pass leaves true of a node whose write was not
\* refused, until a client changes the requests: the value in force is that
\* of a group with nothing active above it, and the sleep ends no later than
\* any request of that group, but for the time the pass took.
NothingAbove(n) ==
  \A w \in Values : w < current_val_index[n] => ~Active(n, w)

WakesInTime(n) ==
  \A h \in Hints :
    LET r == req_sorted[n][current_val_index[n]][h]
    IN  r # NoRequest =>
          sleep_ms <= r \/ (sleep_ms # Forever /\ sleep_ms <= r + pass_ms)

Justified(n) ==
  \/ \E h \in Hints : req_sorted[n][current_val_index[n]][h] # NoRequest
  \/ /\ current_val_index[n] = DefaultIndex[n]
     /\ \A w \in Values : ~Active(n, w)

Fresh(n) ==
  /\ NothingAbove(n)
  /\ WakesInTime(n)
  /\ Justified(n)
  /\ n \notin reset_on_init

Refused(n) ==
  /\ failures > 0
  /\ n \in FileNodes => sleep_ms <= RetryMs

PassInv ==
  looper \in {"secondPass", "waiting"} => \A n \in Nodes : Fresh(n) \/ Refused(n)

IInv == TypeOK /\ PassInv

\* The second pass makes every node fresh, but those whose write is refused.
LEMMA SecondPassFresh ==
  ASSUME TypeOK, NEW failed, SecondPass(failed), NEW n \in Nodes
  PROVE  Fresh(n)' \/ Refused(n)'
<1> USE DEF NoRequest
<1>1. Update(failed)
  BY DEF SecondPass
<1>2. \A t \in ExpireTimes(failed) : sleep_ms' <= t
  BY DEF SecondPass, IsLeast
<1>3. CASE n \in failed
  <2>1. failures' > 0
    BY <1>1, <1>3, UpdateType
  <2>2. n \in FileNodes => RetryMs \in ExpireTimes(failed)
    BY <1>3 DEF ExpireTimes
  <2> QED
    BY <1>2, <2>1, <2>2 DEF Refused
<1>4. CASE n \notin failed
  <2> DEFINE T == Target(n)
  <2>1. T \in Values /\ IsTarget(n, T)
    BY TargetIsTarget
  <2>2. current_val_index'[n] = T /\ n \notin reset_on_init'
    BY <1>1, <1>4 DEF Update, Attempted, TypeOK
  <2>3. /\ req_sorted'[n] = Erase(n)
        /\ req_sorted[n] \in [Values -> [Hints -> Remaining]]
    BY <1>1 DEF Update, TypeOK
  <2> HIDE DEF T
  <2>4. \A w \in Values : w < T => ~Active(n, w)
    <3>1. T \in Int /\ Values \subseteq Int
      BY <2>1, ConstantTypes
    <3> QED
      BY <2>1, <3>1 DEF IsTarget
  <2>5. \A w \in Values : Active(n, w)' => Active(n, w)
    BY <2>3 DEF Active, Erase
  <2>6. \A h \in Hints : req_sorted'[n][T][h] =
          IF req_sorted[n][T][h] = 0 THEN NoRequest ELSE req_sorted[n][T][h]
    BY <2>1, <2>3, <2>4 DEF Erase
  <2>7. NothingAbove(n)'
    BY <2>2, <2>4, <2>5 DEF NothingAbove
  <2>8. WakesInTime(n)'
    <3> SUFFICES ASSUME NEW h \in Hints, req_sorted'[n][T][h] # NoRequest
                 PROVE  sleep_ms' <= req_sorted'[n][T][h]
      BY <2>2 DEF WakesInTime
    <3>1. /\ req_sorted'[n][T][h] = req_sorted[n][T][h]
          /\ req_sorted[n][T][h] # 0
      BY <2>6
    <3>2. req_sorted[n][T][h] \in Remaining
      BY <2>1, <2>3
    <3>3. req_sorted[n][T][h] \in 1 .. Forever
      BY <3>1, <3>2, ConstantTypes DEF Remaining
    <3>4. req_sorted[n][T][h] \in ExpireTimes(failed)
      BY <2>1, <3>3 DEF ExpireTimes
    <3> QED
      BY <1>2, <3>1, <3>4
  <2>9. Justified(n)'
    <3>1. CASE Active(n, T)
      <4>1. PICK h \in Hints : req_sorted[n][T][h] > 0
        BY <3>1 DEF Active
      <4>2. req_sorted[n][T][h] \in Int
        BY <2>1, <2>3, ConstantTypes
      <4>3. req_sorted'[n][T][h] # NoRequest
        BY <2>6, <4>1, <4>2
      <4> QED
        BY <2>2, <4>3 DEF Justified
    <3>2. CASE ~Active(n, T)
      <4>1. T = DefaultIndex[n] /\ \A w \in Values : ~Active(n, w)
        BY <2>1, <3>2 DEF IsTarget
      <4> QED
        BY <2>2, <2>5, <4>1 DEF Justified
    <3> QED
      BY <3>1, <3>2
  <2> QED
    BY <2>2, <2>7, <2>8, <2>9 DEF Fresh
<1> QED
  BY <1>3, <1>4

\* The clock keeps them so: the requests and the sleep run down together, and
\* only the time of the pass itself comes between them.
LEMMA TickFresh ==
  ASSUME TypeOK, Tick, looper \in {"secondPass", "waiting"}, NEW n \in Nodes,
         Fresh(n) \/ Refused(n)
  PROVE  Fresh(n)' \/ Refused(n)'
<1>1. /\ current_val_index' = current_val_index
      /\ reset_on_init' = reset_on_init
      /\ failures' = failures
      /\ looper' = looper
  BY DEF Tick
<1>2. \A v \in Values, h \in Hints :
        req_sorted'[n][v][h] = Elapse(req_sorted[n][v][h])
  BY DEF Tick
<1>3. \A v \in Values, h \in Hints : req_sorted[n][v][h] \in Remaining
  BY DEF TypeOK
<1>4. current_val_index[n] \in Values
  BY DEF TypeOK
<1>5. /\ sleep_ms \in 0 .. Forever
      /\ pass_ms \in Nat /\ pass_ms' \in Nat
      /\ \/ sleep_ms' = sleep_ms /\ pass_ms' = pass_ms + 1
         \/ sleep_ms' = Elapse(sleep_ms) /\ pass_ms' = pass_ms
  BY ConstantsAssumption DEF TypeOK, Tick, LockHeld
<1>6. CASE Refused(n)
  <2>1. sleep_ms' <= sleep_ms
    BY <1>5, ConstantTypes DEF Elapse
  <2>2. sleep_ms' \in Int /\ RetryMs \in Int
    BY <1>5, ConstantTypes, ConstantsAssumption DEF Elapse
  <2> QED
    BY <1>1, <1>5, <1>6, <2>1, <2>2, ConstantTypes DEF Refused
<1>7. CASE Fresh(n)
  <2>1. \A w \in Values : Active(n, w)' => Active(n, w)
    <3>1. \A r \in Remaining : Elapse(r) > 0 => r > 0
      BY ConstantTypes DEF Elapse, Remaining
    <3> QED
      BY <1>2, <1>3, <3>1 DEF Active
  <2>2. \A r \in Remaining : Elapse(r) = NoRequest <=> r = NoRequest
    BY ConstantTypes DEF Elapse, Remaining
  <2>3. NothingAbove(n)'
    BY <1>1, <1>7, <2>1 DEF Fresh, NothingAbove
  <2>4. Justified(n)'
    BY <1>1, <1>2, <1>3, <1>4, <1>7, <2>1, <2>2 DEF Fresh, Justified
  <2>5. WakesInTime(n)'
    <3> DEFINE c == current_val_index[n]
    <3> SUFFICES ASSUME NEW h \in Hints, req_sorted'[n][c][h] # NoRequest
                 PROVE  \/ sleep_ms' <= req_sorted'[n][c][h]
                        \/ /\ sleep_ms' # Forever
                           /\ sleep_ms' <= req_sorted'[n][c][h] + pass_ms'
      BY <1>1 DEF WakesInTime
    <3> DEFINE r == req_sorted[n][c][h]
    <3>1. r \in Remaining /\ req_sorted'[n][c][h] = Elapse(r)
      BY <1>2, <1>3, <1>4
    <3>2. r # NoRequest
      BY <2>2, <3>1
    <3>3. sleep_ms <= r \/ (sleep_ms # Forever /\ sleep_ms <= r + pass_ms)
      BY <1>7, <3>2 DEF Fresh, WakesInTime
    <3>4. r \in 0 .. Forever
      BY <3>1, <3>2, ConstantTypes DEF Remaining
    <3> HIDE DEF r
    <3> QED
      BY <1>5, <3>1, <3>3, <3>4, ConstantTypes DEF Elapse
  <2> QED
    BY <1>1, <1>7, <2>3, <2>4, <2>5 DEF Fresh
<1> QED
  BY <1>6, <1>7

\* No pass has been made yet.
LEMMA InitPassInv == Init => PassInv
BY DEF Init, PassInv

\* The steps that change neither a node nor the sleep, and do not move the
\* looper into its sleep, keep what the pass established.
LEMMA StillPassInv ==
  ASSUME PassInv, UNCHANGED <<nodeVars, sleep_ms, pass_ms, failures>>,
         looper' \in {"secondPass", "waiting"} => looper \in {"secondPass", "waiting"}
  PROVE  PassInv'
BY DEF PassInv, Fresh, Refused, NothingAbove, WakesInTime, Justified, Active, nodeVars

\* Every step keeps what the last pass established, or ends the sleep.
LEMMA NextPassInv == IInv /\ [Next]_vars => PassInv'
<1> SUFFICES ASSUME TypeOK, PassInv, [Next]_vars
             PROVE  PassInv'
  BY DEF IInv
<1>1. CASE Start
  BY <1>1, StillPassInv DEF Start
<1>2. CASE CheckExit
  BY <1>2, StillPassInv DEF CheckExit
<1>3. ASSUME NEW failed \in SUBSET Nodes, FirstPass(failed)
      PROVE  PassInv'
  BY <1>3 DEF FirstPass, PassInv
<1>4. ASSUME NEW failed \in SUBSET Nodes, SecondPass(failed)
      PROVE  PassInv'
  <2>1. \A n \in Nodes : Fresh(n)' \/ Refused(n)'
    BY <1>4, SecondPassFresh
  <2> QED
    BY <2>1 DEF PassInv
<1>5. CASE WaitRelative
  BY <1>5, StillPassInv DEF WaitRelative
<1>6. CASE WaitTimeout
  BY <1>6, StillPassInv DEF WaitTimeout
<1>7. ASSUME NEW c \in Callers, NEW call \in Calls, CallBegin(c, call)
      PROVE  PassInv'
  BY <1>7, StillPassInv DEF CallBegin
<1>8. ASSUME NEW c \in Callers, CallCommit(c)
      PROVE  PassInv'
  <2>1. looper' \notin {"secondPass", "waiting"}
    BY <1>8 DEF CallCommit, Signal, LockHeld
  <2> QED
    BY <2>1 DEF PassInv
<1>9. CASE StopBegin
  <2>1. looper' \notin {"secondPass", "waiting"}
    BY <1>9 DEF StopBegin, Signal, LockHeld
  <2> QED
    BY <2>1 DEF PassInv
<1>10. CASE StopJoin
  BY <1>10, StillPassInv DEF StopJoin
<1>11. CASE Tick
  <2>1. looper' = looper
    BY <1>11 DEF Tick
  <2>2. ASSUME looper \in {"secondPass", "waiting"}
        PROVE  \A n \in Nodes : Fresh(n)' \/ Refused(n)'
    BY <1>11, <2>2, TickFresh DEF PassInv
  <2> QED
    BY <2>1, <2>2 DEF PassInv
<1>12. CASE UNCHANGED vars
  BY <1>12, StillPassInv DEF vars, nodeVars
<1> QED
  BY <1>1, <1>2, <1>3, <1>4, <1>5, <1>6, <1>7, <1>8, <1>9, <1>10, <1>11, <1>12
  DEF Next, LooperStep

\* A sleep that is not yet due finds every fresh node settled.
LEMMA FreshSettled ==
  ASSUME TypeOK, NEW n \in Nodes, Fresh(n), sleep_ms > pass_ms
  PROVE  Settled(n)
<1> DEFINE c == current_val_index[n]
<1>1. c \in Values
  BY DEF TypeOK
<1>2. /\ sleep_ms \in Int
      /\ pass_ms \in Nat
  BY ConstantTypes, ConstantsAssumption DEF TypeOK
<1>3. n \notin reset_on_init
  BY DEF Fresh
<1>4. CASE \E h \in Hints : req_sorted[n][c][h] # NoRequest
  <2>1. PICK h \in Hints : req_sorted[n][c][h] # NoRequest
    BY <1>4
  <2>2. req_sorted[n][c][h] \in Int
    <3>1. req_sorted[n][c][h] \in Remaining
      BY <1>1 DEF TypeOK
    <3> QED
      BY <3>1, ConstantTypes
  <2>3. req_sorted[n][c][h] > 0
    BY <1>2, <2>1, <2>2 DEF Fresh, WakesInTime
  <2>4. Active(n, c)
    BY <2>3 DEF Active
  <2> QED
    BY <1>1, <1>3, <2>4 DEF Settled, IsTarget, Fresh, NothingAbove
<1>5. CASE ~ \E h \in Hints : req_sorted[n][c][h] # NoRequest
  BY <1>3, <1>5 DEF Settled, IsTarget, Fresh, Justified
<1> QED
  BY <1>4, <1>5

\* The inductive invariant is strong enough.
LEMMA IInvNoMissedExpiry == IInv => NoMissedExpiry
<1> SUFFICES ASSUME IInv, looper = "waiting", sleep_ms > pass_ms,
                    NEW n \in Nodes
             PROVE  \/ Settled(n)
                    \/ failures > 0 /\ (n \in FileNodes => sleep_ms <= RetryMs)
  BY ConstantsAssumption DEF NoMissedExpiry, FileNodes
<1>1. Fresh(n) \/ Refused(n)
  BY DEF IInv, PassInv
<1> QED
  BY <1>1, FreshSettled DEF IInv, Refused

\* While the looper sleeps and is not due, every node whose write was not
\* refused has the value of its highest request that has not ended.
THEOREM NothingSleptThrough == Spec => []NoMissedExpiry
<1>1. Init => IInv
  BY InitTypeOK, InitPassInv DEF IInv
<1>2. IInv /\ [Next]_vars => IInv'
  BY NextTypeOK, NextPassInv DEF IInv
<1> QED
  BY <1>1, <1>2, IInvNoMissedExpiry, PTL DEF Spec

-----------------------------------------------------------------------------
(* Requests are kept until they end *)

\* The step that takes time from a request is the clock's, or a Cancel of its
\* hint (GetExpireTime erases only what has ended, AddRequest only extends).
LEMMA NextKept ==
  ASSUME TypeOK, Next, NEW n \in Nodes, NEW v \in Values, NEW h \in Hints,
         req_sorted[n][v][h] > 0, req_sorted'[n][v][h] < req_sorted[n][v][h]
  PROVE  \/ CancelledBy(h)
         \/ caller' = caller /\ req_sorted'[n][v][h] = req_sorted[n][v][h] - 1
<1> DEFINE old == req_sorted[n][v][h]
<1>1. old \in Remaining /\ old \in Int
  <2>1. old \in Remaining
    BY DEF TypeOK
  <2> QED
    BY <2>1, ConstantTypes
<1>2. req_sorted' # req_sorted
  BY <1>1
<1>3. ASSUME NEW failed, Update(failed)
      PROVE  FALSE
  <2>1. req_sorted'[n][v][h] = old
    BY <1>3 DEF Update, Erase, TypeOK
  <2> QED
    BY <1>1, <2>1
<1>4. ASSUME NEW c \in Callers, CallCommit(c)
      PROVE  CancelledBy(h)
  <2>1. /\ caller[c] \in Calls
        /\ caller'[c] = Idle
    BY <1>4 DEF TypeOK, CallCommit
  <2>2. CASE caller[c].op = "Request"
    <3>1. req_sorted'[n][v] =
            IF HintValue[caller[c].hint][n] = v
              THEN [req_sorted[n][v] EXCEPT ![caller[c].hint] =
                      Longer(@, EndTime(caller[c].timeout_ms))]
              ELSE req_sorted[n][v]
      BY <1>4, <2>2 DEF CallCommit, AddRequest
    <3>2. caller[c].timeout_ms \in Timeouts
      BY <2>1, <2>2 DEF Calls
    <3>3. EndTime(caller[c].timeout_ms) \in Int
      BY <3>2, ConstantTypes
    <3>4. /\ Longer(old, EndTime(caller[c].timeout_ms)) >= old
          /\ req_sorted[n][v] \in [Hints -> Remaining]
      <4>1. req_sorted[n][v] \in [Hints -> Remaining]
        BY DEF TypeOK
      <4> HIDE DEF old
      <4> QED
        BY <1>1, <3>3, <4>1 DEF Longer
    <3>5. \/ req_sorted'[n][v][h] = old
          \/ req_sorted'[n][v][h] = Longer(old, EndTime(caller[c].timeout_ms))
      BY <3>1, <3>4
    <3>6. Longer(old, EndTime(caller[c].timeout_ms)) \in Int
      BY <1>1, <3>3 DEF Longer
    <3> QED
      BY <1>1, <3>4, <3>5, <3>6
  <2>3. CASE caller[c].op # "Request"
    <3>1. /\ caller[c] = [op |-> "Cancel", hint |-> caller[c].hint]
          /\ caller[c].hint \in Hints
      BY <2>1, <2>3 DEF Calls
    <3>2. req_sorted' = RemoveRequest(caller[c].hint)
      BY <1>4, <2>3 DEF CallCommit
    <3>3. caller[c].hint # h => req_sorted'[n][v][h] = old
      BY <3>2 DEF RemoveRequest, TypeOK
    <3>4. caller[c].hint = h
      BY <1>1, <3>3
    <3> QED
      BY <2>1, <3>1, <3>4 DEF CancelledBy
  <2> QED
    BY <2>2, <2>3
<1>5. CASE Tick
  <2>1. req_sorted'[n][v][h] = Elapse(old)
    BY <1>5 DEF Tick
  <2> QED
    BY <1>1, <1>5, <2>1 DEF Tick, Elapse
<1> QED
  BY <1>2, <1>3, <1>4, <1>5
  DEF Next, LooperStep, Start, CheckExit, FirstPass, SecondPass, WaitRelative,
      WaitTimeout, CallBegin, StopBegin, StopJoin, nodeVars

\* A request that has not ended only loses time to the clock, or goes away in
\* a Cancel of its own hint.
THEOREM RequestsKept == Spec => KeptUntilEnd
<1> DEFINE A == \A n \in Nodes, v \in Values, h \in Hints :
                  LET old == req_sorted[n][v][h]
                      new == req_sorted'[n][v][h]
                  IN  old > 0 /\ new < old =>
                        CancelledBy(h) \/ (caller' = caller /\ new = old - 1)
<1>1. TypeOK /\ [Next]_vars => [A]_vars
  <2> SUFFICES ASSUME TypeOK, Next
               PROVE  A
    OBVIOUS
  <2> QED
    BY NextKept
<1>2. KeptUntilEnd <=> [][A]_vars
  BY DEF KeptUntilEnd
<1> QED
  BY <1>1, <1>2, TypeCorrect, PTL DEF Spec

-----------------------------------------------------------------------------
(* Held descriptors *)

\* HeldUnlessRefused without its conditions on the looper, which no step
\* needs: until a write is refused, what libperfmgr believes of a node that
\* holds its descriptor is what the kernel applies, the default excepted.
HeldInv ==
  failures = 0 =>
    \A n \in HoldFdNodes :
      current_val_index[n] # DefaultIndex[n] => in_force[n] = current_val_index[n]

\* A pass in which no write is refused gives a node that holds its descriptor
\* the target and keeps it open, or releases it with the default; a pass that
\* is refused one ends the promise.  (FileNode::Update)
LEMMA UpdateHeld ==
  ASSUME TypeOK, HeldInv, NEW failed, Update(failed)
  PROVE  HeldInv'
<1> SUFFICES ASSUME failures' = 0,
                    NEW n \in HoldFdNodes,
                    current_val_index'[n] # DefaultIndex[n]
             PROVE  in_force'[n] = current_val_index'[n]
  BY DEF HeldInv
<1>1. n \in Nodes
  BY ConstantsAssumption
<1>2. failed = {} /\ failures = 0
  BY UpdateType, ConstantsAssumption DEF TypeOK
<1>3. CASE n \in Attempted
  <2>1. current_val_index'[n] = Target(n)
    BY <1>1, <1>2, <1>3 DEF Update
  <2>2. in_force'[n] = Effect(n, TRUE)
    BY <1>1, <1>2, <1>3 DEF Update
  <2> QED
    BY <2>1, <2>2 DEF Effect
<1>4. CASE n \notin Attempted
  <2>1. /\ current_val_index'[n] = current_val_index[n]
        /\ in_force'[n] = in_force[n]
    BY <1>1, <1>4 DEF Update
  <2> QED
    BY <1>2, <2>1 DEF HeldInv
<1> QED
  BY <1>3, <1>4

\* Only a pass over the nodes touches the descriptors.
LEMMA NextHeld == TypeOK /\ HeldInv /\ [Next]_vars => HeldInv'
<1> SUFFICES ASSUME TypeOK, HeldInv, [Next]_vars
             PROVE  HeldInv'
  OBVIOUS
<1>1. ASSUME NEW failed \in SUBSET Nodes, FirstPass(failed) \/ SecondPass(failed)
      PROVE  HeldInv'
  <2>1. Update(failed)
    BY <1>1 DEF FirstPass, SecondPass
  <2> QED
    BY <2>1, UpdateHeld
<1>2. CASE UNCHANGED <<current_val_index, in_force, failures>>
  BY <1>2 DEF HeldInv
<1> QED
  BY <1>1, <1>2
  DEF Next, LooperStep, Start, CheckExit, WaitRelative, WaitTimeout, CallBegin,
      CallCommit, StopBegin, StopJoin, Tick, nodeVars, vars

\* Whatever value other than its default a node that holds its descriptor is
\* asked for, the kernel applies it while the looper sleeps, as long as no
\* write was ever refused.  (FileNode::Update)
THEOREM HeldTillRefused == Spec => []HeldUnlessRefused
<1>1. Init => HeldInv
  BY ConstantsAssumption DEF Init, HeldInv
<1>2. HeldInv => HeldUnlessRefused
  BY DEF HeldInv, HeldUnlessRefused, HeldWhileRequested
<1> QED
  BY <1>1, <1>2, TypeCorrect, NextHeld, PTL DEF Spec
=============================================================================
