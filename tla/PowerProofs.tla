----------------------------- MODULE PowerProofs -----------------------------
(***************************************************************************)
(* Proofs about Power, HintManager and HintConfig, for every document,     *)
(* number of threads, and calls they make.                                 *)
(*                                                                         *)
(* An accepted document makes sense (ActionsLand) because of what the      *)
(* parser checks. No span of negative length is ever added to a hint's     *)
(* duration because a hint never starts after it ends, nor in the future.  *)
(*                                                                         *)
(* The second half is about HintManager's flags and statistics when the    *)
(* service calls it: hints are masked while what masks them is done, and   *)
(* the statistics cover the requests (HintsHold).                          *)
(***************************************************************************)
EXTENDS Power, TLAPS, WellFoundedInduction

(* The nodes parsed have names and distinct values, one of them by default.  *)
NodesOK ==
  \A n \in DOMAIN nodes_ :
    /\ IsList(nodes_[n].values)
    /\ AllDistinct(nodes_[n].values)
    /\ nodes_[n].default_val_index_ \in DOMAIN nodes_[n].values
    /\ \A m \in DOMAIN nodes_ : nodes_[n].name = nodes_[m].name => n = m

(* A hint action is about a name, and of a type.                             *)
HintActions == [type : Types, value : Names]

(* The hints parsed have a name, timeouts and hint actions.                  *)
HintsOK ==
  \A h \in Hints :
    /\ h \in Names /\ h # ""
    /\ Timeouts(actions_[h].node_actions) \subseteq 0 .. MaxNow
    /\ actions_[h].max_timeout \in 0 .. MaxNow
    /\ actions_[h].hint_actions \in Seq(HintActions)

(* Past its first step, a call is about a hint there is.                     *)
Fit == {x \in Steps : x.op \in {"request", "doStatus", "cancel", "endStatus"} => x.hint \in Hints}

StepsOK == stack \in [Threads -> Seq(Fit)]

(* A hint started before it ends, and not in the future.                     *)
SpansOK == \A h \in Hints : start_time[h] <= end_time[h] /\ start_time[h] <= now

(* The document stays, and what it was parsed to.                            *)
Parsed == doc \in Docs /\ nodes_ = ParseNodes(doc) /\ actions_ = HintsOf(doc)

(* HintManager's part of the invariant.                                      *)
HintInv == HintTypes /\ Parsed /\ StepsOK /\ SpansOK

(* A call of HintManager's by one of the threads, or none.                   *)
Made == UNCHANGED hintVars \/ \E t \in Threads, step \in Fit : Calls(t, step)

(* What the service's steps are to HintManager.                              *)
HintNext == (\E t \in Threads : Step(t)) \/ Tick \/ Made \/ Lost

IInv == HintInv /\ TypeOK

(* What a call of a recorded mode's hint still has to do: the binder thread  *)
(* makes it, for good, and ends what was not asked for.                      *)
KeptFit(x) ==
  /\ x.op \notin {"mask", "unmask"}
  /\ x.op = "do" => x.overrides = {}
  /\ x.op = "request" => x.timeouts = Timeouts(actions_[x.hint].node_actions)
  /\ x.op \in {"end", "cancel"} => x.hint \notin asked
  /\ x.hint = "SUSTAINED_PERFORMANCE" /\ x.op \in {"do", "request"} => mSustainedPerfModeOn

Allowed(t) == {x \in Fit : x.hint \in KeptModes => t = binder /\ KeptFit(x)}

(* Recorded modes are done and ended as a whole, and by one thread.          *)
CallsOK ==
  /\ \A t \in Threads : stack[t] \in Seq(Allowed(t))
  /\ \A h \in Hints \cap KeptModes : enabled[h]
  /\ \A h \in Hints \cap Recorded \cap KeptModes : request[h] \in {NoRequest, Forever}
  /\ "SUSTAINED_PERFORMANCE" \in Hints /\ request["SUSTAINED_PERFORMANCE"] = Forever
       => mSustainedPerfModeOn

(* Mode m is on, or the call that turns it on has still to ask for it.       *)
Coming(m) ==
  \/ request[m] = Forever
  \/ \E i \in DOMAIN stack[binder] :
       stack[binder][i].hint = m /\ stack[binder][i].op \in {"do", "request"}

(* A property that this process has looked at names what is on.              *)
AskedOK ==
  /\ asked \subseteq Hints \cap KeptModes
  /\ life = "down" => restoring = 1
  /\ life = "up" => restoring = Len(Restored) + 1
  /\ \A p \in Properties : property[p] \in {"", ModeOf[p]}
  /\ life # "down" =>
       \A i \in 1 .. restoring - 1 :
         property[Restored[i].property] \in asked => Coming(property[Restored[i].property])

(* A property is as the looper last set it, until init forgets it.           *)
LooperOK ==
  \A n \in PropertyNodes :
    /\ n \in written /\ ~killing =>
         property[nodes_[n].path] = nodes_[n].values[current_val_index_[n]]
    /\ n \notin written => current_val_index_[n] = DefaultOf[n]

KeptInv == CallsOK /\ AskedOK /\ LooperOK

KInv == IInv /\ KeptInv

-----------------------------------------------------------------------------
(* Numbers and sequences.                                                    *)

(* What holds of 0 and is kept by adding 1 holds of every natural number.    *)
LEMMA Induction ==
  ASSUME NEW S, 0 \in S, \A n \in Nat : n \in S => n + 1 \in S
  PROVE  Nat \subseteq S
<1> DEFINE T == Nat \ S
<1>1. SUFFICES ASSUME T # {} PROVE FALSE
  OBVIOUS
<1>2. IsWellFoundedOn(OpToRel(<, Nat), Nat)
  BY NatLessThanWellFounded
<1>3. PICK x \in T : \A y \in T : ~ (<<y, x>> \in OpToRel(<, Nat))
  BY <1>1, <1>2, WFMin
<1>4. x # 0 /\ x - 1 \in Nat /\ (x - 1) + 1 = x
  OBVIOUS
<1>5. x - 1 \in T
  BY <1>4
<1>6. <<x - 1, x>> \in OpToRel(<, Nat)
  BY <1>4 DEF OpToRel
<1> QED
  BY <1>3, <1>5, <1>6

(* A set of natural numbers that is not empty has a least one.               *)
LEMMA Least ==
  ASSUME NEW S, S \subseteq Nat, S # {}
  PROVE  Min(S) \in S /\ \A y \in S : Min(S) <= y
<1>1. IsWellFoundedOn(OpToRel(<, Nat), Nat)
  BY NatLessThanWellFounded
<1>2. PICK x \in S : \A y \in S : ~ (<<y, x>> \in OpToRel(<, Nat))
  BY <1>1, WFMin
<1>3. \A y \in S : x <= y
  <2> SUFFICES ASSUME NEW y \in S, y < x
               PROVE  FALSE
    OBVIOUS
  <2>1. <<y, x>> \in OpToRel(<, Nat)
    BY DEF OpToRel
  <2> QED
    BY <1>2, <2>1
<1> QED
  BY <1>2, <1>3 DEF Min

(* A set of integers of a range that is not empty has a greatest one.        *)
LEMMA Greatest ==
  ASSUME NEW m \in Int, NEW n \in Int, NEW S, S \subseteq m .. n, S # {}
  PROVE  Max(S) \in S /\ \A y \in S : Max(S) >= y
<1> DEFINE R == {n - y : y \in S}
<1>0. \A y \in S : y \in Int /\ n - y \in Nat
  <2>1. \A y \in m .. n : y \in Int /\ n - y \in Nat
    OBVIOUS
  <2> QED
    BY <2>1
<1>1. R \subseteq Nat /\ R # {}
  BY <1>0
<1>2. Min(R) \in R /\ \A r \in R : Min(R) <= r
  BY <1>1, Least
<1>3. PICK x \in S : Min(R) = n - x
  BY <1>2
<1>4. \A y \in S : n - y \in R
  OBVIOUS
<1> HIDE DEF R
<1>5. \A y \in S : x >= y
  BY <1>0, <1>2, <1>3, <1>4
<1> QED
  BY <1>5 DEF Max

(* A list is numbered from 1.                                                *)
LEMMA ListProperties ==
  ASSUME NEW s, IsList(s)
  PROVE  /\ Len(s) \in Nat /\ DOMAIN s = 1 .. Len(s) /\ DOMAIN s \subseteq Nat
         /\ s # <<>> => Len(s) # 0
BY DEF IsList

(* To take elements out of a list is to look at one after the other.         *)
LEMMA Taking ==
  ASSUME NEW s, IsList(s), NEW I
  PROVE  \E taken : /\ ElementsAt(s, I) = taken[Len(s)] /\ taken[0] = <<>>
                    /\ \A n \in 1 .. Len(s) :
                         taken[n] = IF n \in I THEN Append(taken[n - 1], s[n]) ELSE taken[n - 1]
<1> DEFINE L == Len(s)
           Op(y, n) == IF n \in I THEN Append(y, s[n]) ELSE y
           UpTo(n, g) == [i \in 0 .. n |-> IF i = 0 THEN <<>> ELSE Op(g[i - 1], i)]
           After == CHOOSE f : f = UpTo(L, f)
<1>1. ElementsAt(s, I) = After[L]
  BY DEF ElementsAt
<1>2. L \in Nat
  BY DEF IsList
<1>3. \A y, n : Op(y, n) = IF n \in I THEN Append(y, s[n]) ELSE y
  OBVIOUS
<1> HIDE DEF L, Op
<1>4. \A n \in Nat : \E g : g = UpTo(n, g)
  <2> DEFINE T == {n \in Nat : \E g : g = UpTo(n, g)}
  <2>1. 0 \in T
    <3>1. [i \in 0 .. 0 |-> <<>>] = UpTo(0, [i \in 0 .. 0 |-> <<>>])
      OBVIOUS
    <3> QED
      BY <3>1
  <2>2. ASSUME NEW n \in Nat, n \in T
        PROVE  n + 1 \in T
    <3>1. PICK g : g = UpTo(n, g)
      BY <2>2
    <3> DEFINE h == [i \in 0 .. n + 1 |-> IF i = n + 1 THEN Op(g[n], n + 1) ELSE g[i]]
    <3>2. ASSUME NEW i \in 0 .. n + 1
          PROVE  h[i] = IF i = 0 THEN <<>> ELSE Op(h[i - 1], i)
      BY <3>1
    <3>3. h = [i \in 0 .. n + 1 |-> h[i]]
      OBVIOUS
    <3> HIDE DEF h
    <3>4. h = UpTo(n + 1, h)
      BY <3>2, <3>3
    <3> QED
      BY <3>4
  <2> HIDE DEF T
  <2>3. Nat \subseteq T
    BY <2>1, <2>2, Induction
  <2> QED
    BY <2>3 DEF T
<1>5. After = UpTo(L, After)
  BY <1>2, <1>4
<1> HIDE DEF After
<1>6. \A n \in 0 .. L : After[n] = IF n = 0 THEN <<>> ELSE Op(After[n - 1], n)
  BY <1>5
<1>7. After[0] = <<>> /\ \A n \in 1 .. L : After[n] = Op(After[n - 1], n)
  <2>1. 0 \in 0 .. L /\ \A n \in 1 .. L : n \in 0 .. L /\ n # 0
    BY <1>2
  <2> QED
    BY <1>6, <2>1
<1>8. \A n \in 1 .. L : After[n] = IF n \in I THEN Append(After[n - 1], s[n]) ELSE After[n - 1]
  BY <1>3, <1>7
<1> QED
  BY <1>1, <1>7, <1>8 DEF L

(* What is taken out of a list are elements of it, and all that there are.   *)
LEMMA Taken ==
  ASSUME NEW s, IsList(s), NEW I, NEW S, \A i \in I \cap DOMAIN s : s[i] \in S
  PROVE  /\ ElementsAt(s, I) \in Seq(S)
         /\ \A i \in I \cap DOMAIN s :
              \E j \in DOMAIN ElementsAt(s, I) : ElementsAt(s, I)[j] = s[i]
         /\ I \cap DOMAIN s # {} => ElementsAt(s, I) # <<>>
<1> DEFINE L == Len(s)
           Right(y, n) ==
             y \in Seq(S) /\ \A i \in I \cap 1 .. n : \E j \in DOMAIN y : y[j] = s[i]
<1>1. PICK taken : /\ ElementsAt(s, I) = taken[L] /\ taken[0] = <<>>
                   /\ \A n \in 1 .. L :
                        taken[n] = IF n \in I THEN Append(taken[n - 1], s[n]) ELSE taken[n - 1]
  BY Taking
<1>2. L \in Nat /\ DOMAIN s = 1 .. L
  BY DEF IsList
<1>3. ASSUME NEW n \in Nat, n + 1 \in 1 .. L, NEW y, Right(y, n)
      PROVE  Right(IF n + 1 \in I THEN Append(y, s[n + 1]) ELSE y, n + 1)
  <2>1. CASE n + 1 \in I
    <3> DEFINE z == Append(y, s[n + 1])
    <3>1. s[n + 1] \in S /\ y \in Seq(S)
      BY <1>2, <1>3, <2>1
    <3>2. /\ z \in Seq(S) /\ Len(y) + 1 \in DOMAIN z /\ z[Len(y) + 1] = s[n + 1]
          /\ \A j \in DOMAIN y : j \in DOMAIN z /\ z[j] = y[j]
      BY <3>1
    <3>3. \A i \in I \cap 1 .. n + 1 : i = n + 1 \/ i \in I \cap 1 .. n
      BY <1>3
    <3> HIDE DEF z
    <3>4. Right(z, n + 1)
      BY <1>3, <3>2, <3>3
    <3> QED
      BY <2>1, <3>4 DEF z
  <2>2. CASE n + 1 \notin I
    <3>1. I \cap 1 .. n + 1 = I \cap 1 .. n
      BY <1>3, <2>2
    <3> QED
      BY <1>3, <2>2, <3>1
  <2> QED
    BY <2>1, <2>2
<1>4. Right(<<>>, 0)
  OBVIOUS
<1> HIDE DEF L, Right
<1> DEFINE T == {n \in Nat : n <= L => Right(taken[n], n)}
<1>5. 0 \in T
  BY <1>1, <1>4
<1>6. ASSUME NEW n \in Nat, n \in T
      PROVE  n + 1 \in T
  <2> SUFFICES ASSUME n + 1 <= L
               PROVE  Right(taken[n + 1], n + 1)
    OBVIOUS
  <2>1. Right(taken[n], n) /\ n + 1 \in 1 .. L /\ (n + 1) - 1 = n
    BY <1>2, <1>6
  <2>2. taken[n + 1] = IF n + 1 \in I THEN Append(taken[n], s[n + 1]) ELSE taken[n]
    BY <1>1, <2>1
  <2> QED
    BY <1>3, <2>1, <2>2
<1> HIDE DEF T
<1>7. L \in T
  BY <1>2, <1>5, <1>6, Induction
<1>8. Right(ElementsAt(s, I), L)
  BY <1>1, <1>2, <1>7 DEF T
<1>9. ASSUME NEW i \in I \cap DOMAIN s
      PROVE  \E j \in DOMAIN ElementsAt(s, I) : ElementsAt(s, I)[j] = s[i]
  BY <1>2, <1>8 DEF Right
<1> QED
  BY <1>8, <1>9 DEF Right

-----------------------------------------------------------------------------
(* Documents.                                                                *)

(* The clock's bound is a number.                                            *)
LEMMA ClockBound == MaxNow \in Nat /\ MaxNow \in Int /\ 0 \in Int
<1>1. MaxNow \in Nat
  BY ConstantsAssumption DEF ConstantsAssumption
<1> QED
  BY <1>1

(* The nodes of an accepted document are fit to use.                         *)
LEMMA NodesParsed ==
  ASSUME Parsed
  PROVE  NodesOK
<1> DEFINE ns == doc.Nodes
<1>1. CASE nodes_ = <<>>
  BY <1>1 DEF NodesOK
<1>2. CASE nodes_ # <<>>
  <2>1. /\ \A i, j \in DOMAIN ns : ns[i].Name = ns[j].Name => i = j
        /\ \A i \in DOMAIN ns : NodeOk(ns[i])
        /\ nodes_ = [i \in DOMAIN ns |-> ParsedNode(ns[i])]
    <3> DEFINE names == [i \in DOMAIN ns |-> ns[i].Name]
    <3>1. /\ AllDistinct(names)
          /\ \A i \in DOMAIN ns : NodeOk(ns[i])
          /\ nodes_ = [i \in DOMAIN ns |-> ParsedNode(ns[i])]
      BY <1>2 DEF Parsed, ParseNodes
    <3>2. \A i, j \in DOMAIN ns : names[i] = names[j] => i = j
      BY <3>1 DEF AllDistinct
    <3> QED
      BY <3>1, <3>2
  <2>2. ASSUME NEW n \in DOMAIN ns
        PROVE  /\ IsList(ns[n].Values) /\ AllDistinct(ns[n].Values)
               /\ DefaultIndex(ns[n]) \in DOMAIN ns[n].Values
    <3>1. /\ IsList(ns[n].Values)
          /\ IsUInt64(ns[n].DefaultIndex) => ns[n].DefaultIndex \in Nat
      BY ConstantsAssumption DEF ConstantsAssumption, Parsed
    <3>2. NodeOk(ns[n])
      BY <2>1
    <3> DEFINE L == Len(ns[n].Values)
    <3>3. L \in Nat \ {0} /\ DOMAIN ns[n].Values = 1 .. L
      BY <3>1, <3>2, ListProperties DEF NodeOk
    <3> HIDE DEF L
    <3>4. DefaultIndex(ns[n]) \in 1 .. L
      <4>1. DefaultIndex(ns[n]) <= L
        BY <3>2 DEF NodeOk, L
      <4>2. DefaultIndex(ns[n]) \in Nat \ {0}
        <5>1. CASE IsUInt64(ns[n].DefaultIndex)
          BY <3>1, <5>1 DEF DefaultIndex
        <5>2. CASE ~IsUInt64(ns[n].DefaultIndex)
          BY <3>3, <5>2 DEF DefaultIndex, L
        <5> QED
          BY <5>1, <5>2
      <4> QED
        BY <3>3, <4>1, <4>2
    <3> QED
      BY <3>1, <3>2, <3>3, <3>4 DEF NodeOk
  <2> QED
    BY <2>1, <2>2 DEF NodesOK, ParsedNode
<1> QED
  BY <1>1, <1>2

(* A node action that is accepted names a node and a value of it.            *)
LEMMA NodeActionParsed ==
  ASSUME NodesOK, NEW a, NodeActionOk(a, nodes_)
  PROVE  LET p == ParsedNodeAction(a, nodes_)
         IN  /\ p.node_index \in DOMAIN nodes_
             /\ nodes_[p.node_index].name = a.Node
             /\ p.value_index \in DOMAIN nodes_[p.node_index].values
             /\ p.timeout_ms = a.Duration
<1> DEFINE k == CHOOSE i \in NodeIndex(a, nodes_) : TRUE
           V == ValueIndex(a, nodes_[k])
<1>1. PICK i \in NodeIndex(a, nodes_) : ValueIndex(a, nodes_[i]) # {}
  BY DEF NodeActionOk
<1>2. k \in NodeIndex(a, nodes_) /\ k = i
  BY <1>1 DEF NodeIndex, NodesOK
<1>3. k \in DOMAIN nodes_ /\ nodes_[k].name = a.Node /\ V # {}
  BY <1>1, <1>2 DEF NodeIndex
<1>4. V \subseteq DOMAIN nodes_[k].values /\ V \subseteq Nat
  BY <1>3, ListProperties DEF ValueIndex, NodesOK
<1>5. Min(V) \in V
  BY <1>3, <1>4, Least
<1> QED
  BY <1>3, <1>4, <1>5 DEF ParsedNodeAction

(* The hints of an accepted document can be carried out.                     *)
LEMMA HintsParsed ==
  ASSUME Parsed
  PROVE  HintsOK /\ ActionsLand
<1> DEFINE as == doc.Actions
<1> SUFFICES ASSUME Hints # {}
             PROVE  HintsOK /\ ActionsLand
  BY DEF HintsOK, ActionsLand
<1>0. NodesOK
  BY NodesParsed
<1>1. /\ OneActionPerNode(as) /\ \A i \in DOMAIN as : ActionOk(as[i], nodes_)
      /\ actions_ = [h \in {as[i].PowerHint : i \in DOMAIN as} |-> ParsedHint(h, as, nodes_)]
  BY DEF Parsed, HintsOf, ParseActions, Hints, NoHints
<1>2. /\ IsList(as)
      /\ \A i \in DOMAIN as :
           /\ as[i].PowerHint \in Names \cup {""}
           /\ ~IsNodeAction(as[i]) => as[i].Value \in Names \cup {""}
           /\ IsUInt64(as[i].Duration) => as[i].Duration \in 0 .. MaxNow
  BY ConstantsAssumption DEF ConstantsAssumption, Parsed
<1>3. ASSUME NEW h \in Hints
      PROVE  /\ h \in Names
             /\ Timeouts(actions_[h].node_actions) \subseteq 0 .. MaxNow
             /\ actions_[h].max_timeout \in 0 .. MaxNow
             /\ actions_[h].hint_actions \in Seq(HintActions)
             /\ actions_[h].node_actions # {} \/ actions_[h].hint_actions # <<>>
             /\ \A a \in actions_[h].node_actions :
                  /\ a.node_index \in DOMAIN nodes_
                  /\ a.value_index \in DOMAIN nodes_[a.node_index].values
                  /\ \A b \in actions_[h].node_actions : a.node_index = b.node_index => a = b
  <2> DEFINE own == {i \in DOMAIN as : as[i].PowerHint = h}
             N == {i \in own : IsNodeAction(as[i])}
             H == {i \in own : ~IsNodeAction(as[i])}
             p(i) == ParsedNodeAction(as[i], nodes_)
             na == {p(i) : i \in N}
             hs == ElementsAt(as, H)
             ha == [i \in DOMAIN hs |-> [type |-> hs[i].Type, value |-> hs[i].Value]]
             Given == {as[i] : i \in H}
  <2>1. /\ actions_[h].node_actions = na /\ actions_[h].hint_actions = ha
        /\ actions_[h].max_timeout = MaxTimeout(Timeouts(na))
    BY <1>1 DEF ParsedHint, Hints
  <2>2. PICK j \in own : TRUE
    BY <1>1 DEF Hints
  <2>3. h \in Names
    BY <1>1, <1>2, <2>2 DEF ActionOk
  <2>4. ASSUME NEW i \in N
        PROVE  /\ p(i).node_index \in DOMAIN nodes_
               /\ nodes_[p(i).node_index].name = as[i].Node
               /\ p(i).value_index \in DOMAIN nodes_[p(i).node_index].values
               /\ p(i).timeout_ms = as[i].Duration
               /\ as[i].Duration \in 0 .. MaxNow
    <3>1. NodeActionOk(as[i], nodes_)
      BY <1>1 DEF ActionOk
    <3> QED
      BY <1>0, <1>2, <3>1, NodeActionParsed DEF NodeActionOk
  <2>5. \A i, k \in N : p(i).node_index = p(k).node_index => i = k
    BY <1>1, <2>4 DEF OneActionPerNode
  <2>6. \A i \in H : as[i].Type \in Types /\ as[i].Value \in Names
    BY <1>1, <1>2 DEF ActionOk, Types
  <2> HIDE DEF p
  <2>7. Timeouts(na) \subseteq 0 .. MaxNow
    BY <2>4 DEF Timeouts
  <2>8. MaxTimeout(Timeouts(na)) \in 0 .. MaxNow
    <3> DEFINE T == Timeouts(na)
    <3>1. T \subseteq 0 .. MaxNow
      BY <2>7
    <3> HIDE DEF T
    <3>2. MaxNow \in Nat /\ MaxNow \in Int /\ 0 \in Int
      BY ClockBound
    <3>3. T # {} => Max(T) \in T
      BY <3>1, <3>2, Greatest
    <3>4. MaxTimeout(T) \in 0 .. MaxNow
      <4>1. CASE T = {} \/ 0 \in T
        BY <3>2, <4>1 DEF MaxTimeout
      <4>2. CASE ~(T = {} \/ 0 \in T)
        BY <3>1, <3>3, <4>2 DEF MaxTimeout
      <4> QED
        BY <4>1, <4>2
    <3> QED
      BY <3>4 DEF T
  <2>9. hs \in Seq(Given) /\ (H # {} => hs # <<>>)
    <3>1. \A i \in H \cap DOMAIN as : as[i] \in Given
      OBVIOUS
    <3>2. H \cap DOMAIN as = H
      OBVIOUS
    <3> HIDE DEF H, Given
    <3> QED
      BY <1>2, <3>1, <3>2, Taken
  <2>10. \A a \in Given : [type |-> a.Type, value |-> a.Value] \in HintActions
    BY <2>6 DEF HintActions
  <2> HIDE DEF hs, Given
  <2>11. ha \in Seq(HintActions) /\ (hs # <<>> => ha # <<>>)
    <3>1. \A i \in DOMAIN hs : hs[i] \in Given
      BY <2>9
    <3>2. DOMAIN hs = 1 .. Len(hs) /\ Len(hs) \in Nat
      BY <2>9
    <3> QED
      BY <2>9, <2>10, <3>1, <3>2
  <2>12. na # {} \/ ha # <<>>
    BY <2>2, <2>9, <2>11
  <2> QED
    BY <2>1, <2>3, <2>4, <2>5, <2>7, <2>8, <2>11, <2>12
<1>4. \A n \in DOMAIN nodes_ : nodes_[n].default_val_index_ \in DOMAIN nodes_[n].values
  BY <1>0 DEF NodesOK
<1>5. \A h \in Hints : h # ""
  BY <1>1 DEF ActionOk, Hints
<1> QED
  BY <1>3, <1>4, <1>5 DEF HintsOK, ActionsLand

-----------------------------------------------------------------------------
(* Calls and their steps.                                                    *)

(* What the steps of a call are made of.                                     *)
LEMMA StepFields ==
  ASSUME NEW x \in Steps
  PROVE  /\ x.hint \in Names
         /\ x.op = "do" => x.overrides \subseteq 0 .. MaxNow
         /\ x.op = "request" => x.timeouts \subseteq 0 .. MaxNow
         /\ x.op = "doStatus" => x.timeout_ms \in 0 .. MaxNow
BY DEF Steps

(* Calls can be made of any name.                                            *)
LEMMA FirstSteps ==
  ASSUME NEW h \in Names
  PROVE  /\ DoStep(h) \in Fit /\ EndStep(h) \in Fit
         /\ \A m \in 0 .. MaxNow : DoOverrideStep(h, m) \in Fit
         /\ [op |-> "mask", hint |-> h] \in Fit /\ [op |-> "unmask", hint |-> h] \in Fit
<1>1. DoStep(h) \in Steps /\ EndStep(h) \in Steps
  BY DEF DoStep, EndStep, Steps
<1>2. \A m \in 0 .. MaxNow : DoOverrideStep(h, m) \in Steps
  BY DEF DoOverrideStep, Steps
<1>3. [op |-> "mask", hint |-> h] \in Steps /\ [op |-> "unmask", hint |-> h] \in Steps
  BY DEF Steps
<1> QED
  BY <1>1, <1>2, <1>3 DEF Fit, DoStep, EndStep, DoOverrideStep

(* The step a thread takes is one of those there are.                        *)
LEMMA TopFits ==
  ASSUME StepsOK, NEW t \in Threads, stack[t] # <<>>
  PROVE  Top(t) \in Fit /\ Top(t) \in Steps /\ Tail(stack[t]) \in Seq(Fit)
<1>1. stack[t] \in Seq(Fit)
  BY DEF StepsOK
<1>2. Head(stack[t]) \in Fit /\ Tail(stack[t]) \in Seq(Fit)
  BY <1>1
<1> QED
  BY <1>2 DEF Top, Fit

(* Steps put in its place are taken in turn.                                 *)
LEMMA StepsPut ==
  ASSUME StepsOK, NEW t \in Threads, stack[t] # <<>>, UNCHANGED configVars,
         NEW steps \in Seq(Fit), Puts(t, steps)
  PROVE  StepsOK' /\ stack' \in [Threads -> Seq(Steps)]
<1>1. Fit' = Fit
  BY DEF configVars, Fit, Steps, Hints
<1>2. steps \o Tail(stack[t]) \in Seq(Fit)
  BY TopFits
<1>3. stack' \in [Threads -> Seq(Fit)]
  BY <1>2 DEF Puts, StepsOK
<1>4. \A x \in Seq(Fit) : x \in Seq(Steps)
  BY DEF Fit
<1> QED
  BY <1>1, <1>3, <1>4 DEF StepsOK

(* A call starts with its first step.                                        *)
LEMMA Called ==
  ASSUME StepsOK, NEW t \in Threads, NEW step \in Fit, Calls(t, step)
  PROVE  StepsOK' /\ stack' \in [Threads -> Seq(Steps)]
<1>1. Fit' = Fit
  BY DEF Calls, configVars, Fit, Steps, Hints
<1>2. <<step>> \in Seq(Fit)
  OBVIOUS
<1>3. stack' \in [Threads -> Seq(Fit)]
  BY <1>2 DEF Calls, StepsOK
<1>4. \A x \in Seq(Fit) : x \in Seq(Steps)
  BY DEF Fit
<1> QED
  BY <1>1, <1>3, <1>4 DEF StepsOK

(* What is asked for ends later, or never.                                   *)
LEMMA EndsLater ==
  ASSUME now \in 0 .. MaxNow, NEW m \in 0 .. MaxNow
  PROVE  EndsAt(m) \in Times /\ now <= EndsAt(m)
BY ClockBound DEF EndsAt, Times, TimeMin, Forever

(* The hint actions of a hint, as steps.                                     *)
LEMMA ActionsFit ==
  ASSUME HintsOK, NEW h \in Hints
  PROVE  DoHintAction(h) \in Seq(Fit) /\ EndHintAction(h) \in Seq(Fit)
<1> DEFINE as == actions_[h].hint_actions
           M == {i \in DOMAIN as : as[i].type = "MaskHint"}
           masks == ElementsAt(as, M)
<1>1. as \in Seq(HintActions)
  BY DEF HintsOK
<1>2. \A a \in HintActions : a.value \in Names /\ a.type \in Types
  BY DEF HintActions
<1>3. \A a \in HintActions : ActionStep(a) \in Fit
  BY <1>2, FirstSteps DEF ActionStep
<1>4. IsList(as)
  <2>1. \A i \in DOMAIN as : as[i] \in Range(as)
    BY DEF Range
  <2> QED
    BY <1>1, <2>1 DEF IsList
<1>5. masks \in Seq(HintActions)
  <2>1. \A i \in M \cap DOMAIN as : as[i] \in HintActions
    BY <1>1
  <2> HIDE DEF M, as
  <2> QED
    BY <1>4, <2>1, Taken
<1> HIDE DEF masks, M
<1>6. [i \in DOMAIN as |-> ActionStep(as[i])] \in Seq(Fit)
  <2>1. ASSUME NEW s \in Seq(HintActions)
        PROVE  [i \in DOMAIN s |-> ActionStep(s[i])] \in Seq(Fit)
    <3>1. Len(s) \in Nat /\ DOMAIN s = 1 .. Len(s)
      OBVIOUS
    <3>2. \A i \in 1 .. Len(s) : ActionStep(s[i]) \in Fit
      BY <1>3
    <3> QED
      BY <3>1, <3>2
  <2> QED
    BY <1>1, <2>1
<1>7. [i \in DOMAIN masks |-> [op |-> "unmask", hint |-> masks[i].value]] \in Seq(Fit)
  <2>1. Len(masks) \in Nat /\ DOMAIN masks = 1 .. Len(masks)
        /\ \A i \in 1 .. Len(masks) : masks[i] \in HintActions
    BY <1>5
  <2>2. \A a \in HintActions : [op |-> "unmask", hint |-> a.value] \in Fit
    BY <1>2, FirstSteps
  <2> QED
    BY <2>1, <2>2
<1> QED
  BY <1>6, <1>7 DEF DoHintAction, EndHintAction, masks, M

-----------------------------------------------------------------------------
(* HintManager.                                                              *)

(* What leaves the configuration and the statistics alone.                   *)
LEMMA StatisticsKept ==
  ASSUME HintInv, UNCHANGED <<configVars, now, statusVars, done>>,
         stack' \in [Threads -> Seq(Steps)], StepsOK',
         enabled' \in [Hints -> BOOLEAN], request' \in [Hints -> Times]
  PROVE  HintInv'
BY DEF HintInv, HintTypes, Parsed, SpansOK, configVars, statusVars, Hints, Times

(* What the first step of DoHint puts before the hint actions.               *)
Requested(t) ==
  LET h == Top(t).hint
      timeouts == Timeouts(actions_[h].node_actions)
  IN  [op |-> "request", hint |-> h,
       timeouts |-> IF Top(t).overrides = {} \/ timeouts = {} THEN timeouts
                    ELSE Top(t).overrides]

Counted(t) ==
  [op |-> "doStatus", hint |-> Top(t).hint,
   timeout_ms |-> IF Top(t).overrides = {} THEN actions_[Top(t).hint].max_timeout
                  ELSE Min(Top(t).overrides)]

(* They are steps of a hint there is.                                        *)
LEMMA RequestFits ==
  ASSUME HintInv, NEW t \in Threads, stack[t] # <<>>, Top(t).op = "do", Top(t).hint \in Hints
  PROVE  Requested(t) \in Fit /\ Counted(t) \in Fit
<1> DEFINE h == Top(t).hint
           timeouts == Timeouts(actions_[h].node_actions)
           overridden == IF Top(t).overrides = {} \/ timeouts = {} THEN timeouts
                         ELSE Top(t).overrides
           timeout_ms == IF Top(t).overrides = {} THEN actions_[h].max_timeout
                         ELSE Min(Top(t).overrides)
<1>1. Top(t) \in Steps
  BY TopFits DEF HintInv
<1>2. h \in Names /\ Top(t).overrides \subseteq 0 .. MaxNow
  BY <1>1, StepFields
<1>3. timeouts \subseteq 0 .. MaxNow /\ actions_[h].max_timeout \in 0 .. MaxNow
  BY HintsParsed DEF HintInv, HintsOK
<1>4. overridden \subseteq 0 .. MaxNow
  BY <1>2, <1>3
<1>5. timeout_ms \in 0 .. MaxNow
  <2>1. Top(t).overrides \subseteq Nat
    BY <1>2
  <2>2. Top(t).overrides # {} => Min(Top(t).overrides) \in Top(t).overrides
    BY <2>1, Least
  <2> QED
    BY <1>2, <1>3, <2>2
<1>6. Requested(t) = [op |-> "request", hint |-> h, timeouts |-> overridden]
  BY DEF Requested
<1>7. Counted(t) = [op |-> "doStatus", hint |-> h, timeout_ms |-> timeout_ms]
  BY DEF Counted
<1>8. h \in Hints
  OBVIOUS
<1> HIDE DEF overridden, timeout_ms, h
<1> QED
  BY <1>2, <1>4, <1>5, <1>6, <1>7, <1>8 DEF Fit, Steps

(* DoHint puts them and the hint actions, or nothing.                        *)
LEMMA DoHintPuts ==
  ASSUME NEW t \in Threads, DoHint(t)
  PROVE  /\ stack[t] # <<>> /\ Top(t).op = "do"
         /\ UNCHANGED <<configVars, now, enabled, request, statusVars, done>>
         /\ Top(t).hint \in Hints /\ enabled[Top(t).hint] =>
              Puts(t, <<Requested(t), Counted(t)>> \o DoHintAction(Top(t).hint))
         /\ ~(Top(t).hint \in Hints /\ enabled[Top(t).hint]) => Puts(t, <<>>)
BY DEF DoHint, Takes, Requested, Counted

(* Up to its request, DoHint only adds steps.                                *)
LEMMA DoHintKeeps ==
  ASSUME HintInv, NEW t \in Threads, DoHint(t)
  PROVE  HintInv'
<1> DEFINE h == Top(t).hint
<1>1. /\ stack[t] # <<>> /\ Top(t).op = "do"
      /\ UNCHANGED <<configVars, now, enabled, request, statusVars, done>>
  BY DoHintPuts
<1>2. PICK steps \in Seq(Fit) : Puts(t, steps)
  <2>1. CASE h \in Hints /\ enabled[h]
    <3>1. DoHintAction(h) \in Seq(Fit) /\ Requested(t) \in Fit /\ Counted(t) \in Fit
      BY <1>1, <2>1, HintsParsed, ActionsFit, RequestFits DEF HintInv
    <3>2. <<Requested(t), Counted(t)>> \o DoHintAction(h) \in Seq(Fit)
      BY <3>1
    <3> QED
      BY <2>1, <3>2, DoHintPuts
  <2>2. CASE ~(h \in Hints /\ enabled[h])
    <3>1. <<>> \in Seq(Fit)
      OBVIOUS
    <3> QED
      BY <2>2, <3>1, DoHintPuts
  <2> QED
    BY <2>1, <2>2
<1>3. StepsOK' /\ stack' \in [Threads -> Seq(Steps)]
  BY <1>1, <1>2, StepsPut DEF HintInv
<1> QED
  BY <1>1, <1>3, StatisticsKept DEF HintInv, HintTypes

(* Nor does EndHint do more at first.                                        *)
LEMMA EndHintKeeps ==
  ASSUME HintInv, NEW t \in Threads, EndHint(t)
  PROVE  HintInv'
<1> DEFINE h == Top(t).hint
           first == [op |-> "cancel", hint |-> h]
           second == [op |-> "endStatus", hint |-> h]
           steps == IF h \in Hints THEN <<first, second>> \o EndHintAction(h) ELSE <<>>
<1>1. /\ stack[t] # <<>> /\ Top(t).op = "end"
      /\ Puts(t, steps)
      /\ UNCHANGED <<configVars, now, enabled, request, statusVars, done>>
  BY DEF EndHint, Takes
<1>2. StepsOK /\ HintsOK
  BY HintsParsed DEF HintInv
<1>3. h \in Names
  BY <1>1, <1>2, TopFits, StepFields
<1>4. steps \in Seq(Fit)
  <2> SUFFICES ASSUME h \in Hints
               PROVE  <<first, second>> \o EndHintAction(h) \in Seq(Fit)
    OBVIOUS
  <2> HIDE DEF h
  <2>1. first \in Fit /\ second \in Fit
    BY <1>3 DEF Fit, Steps
  <2>2. EndHintAction(h) \in Seq(Fit)
    BY <1>2, ActionsFit
  <2> HIDE DEF first, second
  <2> QED
    BY <2>1, <2>2
<1> HIDE DEF steps
<1>5. StepsOK' /\ stack' \in [Threads -> Seq(Steps)]
  BY <1>1, <1>2, <1>4, StepsPut
<1> QED
  BY <1>1, <1>5, StatisticsKept DEF HintInv, HintTypes

(* Requests, cancellations and masks keep their types.                       *)
LEMMA RequestKeeps ==
  ASSUME HintInv, NEW t \in Threads, Request(t) \/ Cancel(t) \/ Mask(t) \/ Unmasked(t)
  PROVE  HintInv'
<1> DEFINE h == Top(t).hint
<1>1. /\ stack[t] # <<>> /\ Puts(t, <<>>)
      /\ UNCHANGED <<configVars, now, statusVars, done>>
      /\ Request(t) => Top(t).op = "request"
      /\ Cancel(t) => Top(t).op = "cancel"
  BY DEF Request, Cancel, Mask, Unmasked, Takes, statusVars
<1>2. StepsOK /\ now \in 0 .. MaxNow
      /\ request \in [Hints -> Times] /\ enabled \in [Hints -> BOOLEAN]
  BY DEF HintInv, HintTypes
<1>3. Top(t) \in Steps /\ Top(t) \in Fit
  BY <1>1, <1>2, TopFits
<1>4. StepsOK' /\ stack' \in [Threads -> Seq(Steps)]
  <2>1. <<>> \in Seq(Fit) /\ UNCHANGED configVars
    BY <1>1
  <2> QED
    BY <1>1, <1>2, <2>1, StepsPut
<1>5. request' \in [Hints -> Times] /\ enabled' \in [Hints -> BOOLEAN]
  <2>1. CASE Request(t)
    <3> DEFINE ends == {request[h]} \cup {EndsAt(m) : m \in Top(t).timeouts}
    <3>1. h \in Hints /\ Top(t).timeouts \subseteq 0 .. MaxNow
      BY <1>1, <1>3, <2>1, StepFields DEF Fit
    <3>2. \A m \in Top(t).timeouts : EndsAt(m) \in Times
      BY <1>2, <3>1, EndsLater
    <3>3. ends \subseteq TimeMin .. Forever /\ ends # {}
      BY <1>2, <3>1, <3>2 DEF Times
    <3>4. request' = [request EXCEPT ![h] = Max(ends)]
      BY <2>1, <1>2, <3>1 DEF Request
    <3>5. TimeMin \in Int /\ Forever \in Int
      BY ClockBound DEF TimeMin, Forever
    <3> HIDE DEF ends
    <3>6. Max(ends) \in ends
      BY <3>3, <3>5, Greatest
    <3>7. Max(ends) \in Times
      BY <3>3, <3>6 DEF Times
    <3>8. enabled' = enabled
      BY <2>1 DEF Request
    <3> QED
      BY <1>2, <3>4, <3>7, <3>8
  <2>2. CASE Cancel(t)
    <3>1. NoRequest \in Times
      BY ClockBound DEF NoRequest, Times, TimeMin, Forever
    <3> QED
      BY <1>2, <2>2, <3>1 DEF Cancel
  <2>3. CASE Mask(t) \/ Unmasked(t)
    <3>1. enabled' \in [Hints -> BOOLEAN]
      BY <1>2, <2>3 DEF Mask, Unmasked
    <3>2. request' = request
      BY <2>3 DEF Mask, Unmasked
    <3> QED
      BY <1>2, <3>1, <3>2
  <2> QED
    BY <2>1, <2>2, <2>3
<1> QED
  BY <1>1, <1>4, <1>5, StatisticsKept

(* A span that is recorded ends after it starts.                             *)
LEMMA StatusKeeps ==
  ASSUME HintInv, NEW t \in Threads, DoHintStatus(t) \/ EndHintStatus(t)
  PROVE  HintInv'
<1> DEFINE h == Top(t).hint
<1>1. /\ stack[t] # <<>> /\ Puts(t, <<>>)
      /\ UNCHANGED <<configVars, now, enabled, request>>
      /\ Top(t).op \in {"doStatus", "endStatus"}
      /\ DoHintStatus(t) => Top(t).op = "doStatus"
  BY DEF DoHintStatus, EndHintStatus, Takes
<1>2. /\ StepsOK /\ now \in 0 .. MaxNow /\ SpansOK
      /\ start_time \in [Hints -> TimeMin .. MaxNow] /\ end_time \in [Hints -> Times]
      /\ count \in [Hints -> Nat] /\ duration_ms \in [Hints -> Nat]
      /\ done \in [Hints -> BOOLEAN]
  BY DEF HintInv, HintTypes
<1>3. Top(t) \in Steps /\ Top(t) \in Fit
  BY <1>1, <1>2, TopFits
<1>4. StepsOK' /\ stack' \in [Threads -> Seq(Steps)]
  <2>1. <<>> \in Seq(Fit) /\ UNCHANGED configVars
    BY <1>1
  <2> QED
    BY <1>1, <1>2, <2>1, StepsPut
<1>5. h \in Hints
  BY <1>1, <1>3 DEF Fit
<1>6. /\ start_time[h] \in Int /\ end_time[h] \in Int /\ duration_ms[h] \in Nat
      /\ count[h] \in Nat /\ now \in Nat /\ now <= MaxNow
      /\ start_time[h] <= end_time[h] /\ start_time[h] <= now
  BY <1>2, <1>5, ClockBound DEF SpansOK, Times, TimeMin, Forever
<1>7. now \in TimeMin .. MaxNow /\ now \in Times
  BY <1>6, ClockBound DEF Times, TimeMin, Forever
<1>8. /\ start_time' \in [Hints -> TimeMin .. MaxNow] /\ end_time' \in [Hints -> Times]
      /\ count' \in [Hints -> Nat] /\ duration_ms' \in [Hints -> Nat]
      /\ done' \in [Hints -> BOOLEAN] /\ start_time'[h] <= end_time'[h] /\ start_time'[h] <= now
      /\ \A k \in Hints \ {h} : start_time'[k] = start_time[k] /\ end_time'[k] = end_time[k]
  <2>1. CASE DoHintStatus(t)
    <3> DEFINE d == IF Over(h) THEN duration_ms[h] + Span(h) ELSE duration_ms[h]
               e == EndsAt(Top(t).timeout_ms)
    <3>1. /\ count' = [count EXCEPT ![h] = count[h] + 1]
          /\ duration_ms' = [duration_ms EXCEPT ![h] = d]
          /\ start_time' = [start_time EXCEPT ![h] = Start(h)]
          /\ end_time' = [end_time EXCEPT ![h] = e]
          /\ done' = [done EXCEPT ![h] = TRUE]
      BY <1>2, <1>5, <2>1 DEF DoHintStatus
    <3>2. e \in Times /\ now <= e /\ e \in Int
      BY <1>1, <1>2, <1>3, <2>1, StepFields, EndsLater, ClockBound DEF Times, TimeMin, Forever
    <3>3. d \in Nat
      BY <1>6 DEF Span
    <3>4. Start(h) \in TimeMin .. MaxNow /\ Start(h) <= now /\ Start(h) <= e
      BY <1>2, <1>5, <1>6, <1>7, <3>2 DEF Start, TimeMin
    <3> HIDE DEF d, e
    <3> QED
      BY <1>2, <1>5, <1>6, <3>1, <3>2, <3>3, <3>4
  <2>2. CASE EndHintStatus(t)
    <3> DEFINE early == now < end_time[h]
               d == IF early THEN duration_ms[h] + (now - start_time[h]) ELSE duration_ms[h]
               e == IF early THEN now ELSE end_time[h]
    <3>1. /\ count' = count /\ start_time' = start_time
          /\ duration_ms' = [duration_ms EXCEPT ![h] = d]
          /\ end_time' = [end_time EXCEPT ![h] = e]
          /\ done' = [done EXCEPT ![h] = FALSE]
      BY <1>2, <1>5, <2>2 DEF EndHintStatus
    <3>2. d \in Nat
      BY <1>6
    <3>3. e \in Times /\ start_time[h] <= e
      BY <1>2, <1>5, <1>6, <1>7
    <3> HIDE DEF d, e
    <3> QED
      BY <1>2, <1>5, <1>6, <3>1, <3>2, <3>3
  <2> QED
    BY <2>1, <2>2
<1>9. SpansOK'
  BY <1>1, <1>2, <1>8 DEF SpansOK, configVars, Hints
<1> QED
  BY <1>1, <1>2, <1>4, <1>8, <1>9 DEF HintInv, HintTypes, Parsed, configVars, Hints, Times

(* A process that is gone leaves a HintManager as at first.                  *)
LEMMA LostKeeps ==
  ASSUME HintInv, Lost
  PROVE  HintInv'
<1>1. Hints' = Hints /\ UNCHANGED <<doc, nodes_, actions_, now>>
  BY DEF Lost, configVars, Hints
<1>2. TimeMin \in TimeMin .. MaxNow /\ TimeMin \in Times /\ TimeMin <= 0
  BY ClockBound DEF TimeMin, Times, Forever
<1>3. StepsOK' /\ stack' \in [Threads -> Seq(Steps)]
  BY DEF Lost, StepsOK
<1>4. SpansOK'
  BY <1>1, <1>2, ClockBound DEF Lost, SpansOK, HintInv, HintTypes, Everywhere, TimeMin
<1> QED
  BY <1>1, <1>2, <1>3, <1>4 DEF Lost, HintInv, HintTypes, Parsed, Everywhere, NoRequest, Times

(* Every step of HintManager's keeps its part.                               *)
LEMMA HintManagerKeeps ==
  ASSUME HintInv, HintNext
  PROVE  HintInv'
<1>1. ASSUME NEW t \in Threads, Step(t)
      PROVE  HintInv'
  BY <1>1, DoHintKeeps, EndHintKeeps, RequestKeeps, StatusKeeps DEF Step
<1>2. CASE Tick
  <2>1. /\ UNCHANGED <<configVars, enabled, request, statusVars, stack, done>>
        /\ now' \in 0 .. MaxNow /\ now \in Nat /\ now' = now + 1
    BY <1>2, ClockBound DEF Tick, HintInv, HintTypes
  <2>2. \A h \in Hints : start_time[h] \in Int /\ start_time[h] <= now
    BY ClockBound DEF HintInv, HintTypes, SpansOK, TimeMin
  <2>3. SpansOK'
    BY <2>1, <2>2 DEF HintInv, SpansOK, configVars, statusVars, Hints
  <2> QED
    BY <2>1, <2>3 DEF HintInv, HintTypes, Parsed, StepsOK, Fit, configVars, statusVars, Hints
<1>3. ASSUME NEW t \in Threads, NEW step \in Fit, Calls(t, step)
      PROVE  HintInv'
  <2>1. StepsOK' /\ stack' \in [Threads -> Seq(Steps)]
    BY <1>3, Called DEF HintInv
  <2>2. UNCHANGED <<configVars, now, enabled, request, statusVars, done>>
    BY <1>3 DEF Calls
  <2> QED
    BY <2>1, <2>2, StatisticsKept DEF HintInv, HintTypes
<1>4. CASE UNCHANGED hintVars
  BY <1>4 DEF hintVars, configVars, HintInv, HintTypes, Parsed, SpansOK, StepsOK, Fit, Hints
<1> QED
  BY <1>1, <1>2, <1>3, <1>4, LostKeeps DEF HintNext, Made

(* No step changes the configuration.                                        *)
LEMMA ConfigStays ==
  ASSUME HintNext
  PROVE  UNCHANGED configVars
<1>1. ASSUME NEW t \in Threads, Step(t)
      PROVE  UNCHANGED configVars
  BY <1>1 DEF Step, DoHint, Request, DoHintStatus, Mask, EndHint, Cancel, EndHintStatus, Unmasked
<1> QED
  BY <1>1 DEF HintNext, Made, Tick, Calls, Lost, hintVars

-----------------------------------------------------------------------------
(* The service.                                                              *)

(* What is derived from the configuration stays with it.                     *)
LEMMA NodesStay ==
  ASSUME UNCHANGED configVars
  PROVE  /\ doc' = doc /\ nodes_' = nodes_ /\ Hints' = Hints /\ ActionsLand' = ActionsLand
         /\ PropertyNodes' = PropertyNodes /\ DefaultOf' = DefaultOf /\ Recorded' = Recorded
<1>1. doc' = doc /\ nodes_' = nodes_ /\ actions_' = actions_
  BY DEF configVars
<1> QED
  BY <1>1 DEF Hints, ActionsLand, PropertyNodes, DefaultOf, Recorded

(* A property node is set to one of its values.                              *)
LEMMA ValueFits ==
  ASSUME NodesOK, NEW n \in PropertyNodes
  PROVE  /\ DefaultOf[n] \in DOMAIN nodes_[n].values
         /\ ValueFor(n) \in DOMAIN nodes_[n].values
         /\ nodes_[n].values[ValueFor(n)] \in Recorded
<1> DEFINE vs == {v \in DOMAIN nodes_[n].values :
                    \E h \in Hints : request[h] > now /\ Asks(h, n, v)}
<1>1. n \in DOMAIN nodes_ /\ DefaultOf[n] = nodes_[n].default_val_index_
  BY DEF PropertyNodes, DefaultOf
<1>2. DefaultOf[n] \in DOMAIN nodes_[n].values
  BY <1>1 DEF NodesOK
<1>3. ValueFor(n) = IF vs = {} THEN DefaultOf[n] ELSE Min(vs)
  BY DEF ValueFor
<1>4. vs \subseteq DOMAIN nodes_[n].values /\ vs \subseteq Nat
  BY <1>1, ListProperties DEF NodesOK
<1> HIDE DEF vs
<1>5. ValueFor(n) \in DOMAIN nodes_[n].values
  BY <1>2, <1>3, <1>4, Least
<1>6. Range(nodes_[n].values) \subseteq Recorded
  BY DEF Recorded
<1>7. nodes_[n].values[ValueFor(n)] \in Range(nodes_[n].values)
  BY <1>5 DEF Range
<1> QED
  BY <1>2, <1>5, <1>6, <1>7

(* Every call that the service makes is one of a hint by its name.           *)
LEMMA CallsMade ==
  ASSUME NEW t \in Threads, NEW h \in Names
  PROVE  /\ Calls(t, DoStep(h)) => Made
         /\ Calls(t, EndStep(h)) => Made
         /\ \A m \in 0 .. MaxNow : Calls(t, DoOverrideStep(h, m)) => Made
BY FirstSteps DEF Made

(* So is every one that a request of the framework leads to.                 *)
LEMMA RequestsMade ==
  ASSUME NEW name \in Names
  PROVE  /\ \A on \in BOOLEAN : DoOrEnd(name, on) => Made
         /\ Boost(name) => Made
         /\ name = "INTERACTION" /\ Acquire => Made
         /\ setBoost(name) => Made
         /\ \A on \in BOOLEAN :
              setMode(name, on) => Made /\ mSustainedPerfModeOn' \in {TRUE, mSustainedPerfModeOn}
<1>1. binder \in Threads
  BY PowerAssumption DEF PowerAssumption
<1>2. \A on \in BOOLEAN : DoOrEnd(name, on) => Made
  BY <1>1, CallsMade DEF DoOrEnd
<1>3. Boost(name) => Made
  <2>1. Overrides[name] \subseteq 0 .. MaxNow
    BY ConstantsAssumption DEF ConstantsAssumption
  <2> QED
    BY <1>1, <1>2, <2>1, CallsMade DEF Boost
<1>4. Ignored => Made
  BY DEF Ignored, Made
<1>5. name = "INTERACTION" /\ Acquire => Made
  BY <1>1, <1>4, CallsMade DEF Acquire
<1>6. setBoost(name) => Made
  BY <1>3, <1>4, <1>5 DEF setBoost
<1>7. ASSUME NEW on \in BOOLEAN, setMode(name, on)
      PROVE  Made /\ mSustainedPerfModeOn' \in {TRUE, mSustainedPerfModeOn}
  <2>1. CASE name = "SUSTAINED_PERFORMANCE"
    <3>1. /\ IF on THEN Calls(binder, DoStep(name)) ELSE Ignored
          /\ mSustainedPerfModeOn' = TRUE
      BY <1>7, <2>1 DEF setMode
    <3> QED
      BY <1>1, <1>4, <3>1, CallsMade
  <2>2. CASE name = "LAUNCH" /\ mSustainedPerfModeOn
    BY <1>4, <1>7, <2>2 DEF setMode
  <2>3. CASE name # "SUSTAINED_PERFORMANCE" /\ ~(name = "LAUNCH" /\ mSustainedPerfModeOn)
    BY <1>2, <1>7, <2>3 DEF setMode
  <2> QED
    BY <2>1, <2>2, <2>3
<1> QED
  BY <1>2, <1>3, <1>5, <1>6, <1>7

(* To HintManager, every step of the service's is one of its own.            *)
LEMMA ServiceCalls ==
  ASSUME IInv, Next
  PROVE  HintNext
<1>1. Hints \subseteq Names
  BY HintsParsed DEF IInv, HintInv, HintsOK
<1>2. UNCHANGED hintVars => HintNext
  BY DEF HintNext, Made
<1>3. CASE main \/ Serve \/ StartLooper \/ FrameworkDies \/ \E n \in PropertyNodes : Update(n)
  BY <1>2, <1>3 DEF main, Serve, StartLooper, FrameworkDies, Update
<1>4. CASE Restore
  <2>1. Restored[restoring].mode \in Names /\ binder \in Threads
    <3>1. restoring \in DOMAIN Restored
      BY <1>4 DEF Restore
    <3> QED
      BY <3>1, PowerAssumption DEF PowerAssumption
  <2>2. UNCHANGED hintVars \/ Calls(binder, DoStep(Restored[restoring].mode))
    BY <1>4 DEF Restore
  <2> QED
    BY <1>2, <2>1, <2>2, CallsMade DEF HintNext
<1>5. CASE Crash \/ Kill
  BY <1>5 DEF Crash, Kill, Dies, HintNext
<1>6. CASE PowerCall
  <2>1. \/ \E type \in Hints, on \in BOOLEAN : setMode(type, on)
        \/ \E type \in Hints : setBoost(type)
        \/ \E name \in Hints : Boost(name)
    BY <1>6 DEF PowerCall
  <2>2. Made
    BY <1>1, <2>1, RequestsMade
  <2> QED
    BY <2>2 DEF HintNext
<1>7. CASE OtherCall
  <2>1. PICK t \in Threads : CallDo(t) \/ CallEnd(t)
    BY <1>7 DEF OtherCall
  <2>2. Does[t] \subseteq Names /\ Ends[t] \subseteq Names
    BY ConstantsAssumption DEF ConstantsAssumption
  <2>3. Made
    BY <2>1, <2>2, CallsMade DEF CallDo, CallEnd
  <2> QED
    BY <2>3 DEF HintNext
<1>8. CASE HintStep
  BY <1>8 DEF HintStep, HintNext
<1> QED
  BY <1>3, <1>4, <1>5, <1>6, <1>7, <1>8 DEF Next

(* An empty property is one that may be.                                     *)
LEMMA EmptyProperties == [p \in Properties |-> ""] \in [Properties -> {""} \cup Recorded]
OBVIOUS

(* At first nothing was asked for.                                           *)
LEMMA InitOK == PowerInit => IInv
<1> SUFFICES ASSUME PowerInit
             PROVE  IInv
  OBVIOUS
<1>1. Parsed
  BY DEF PowerInit, Init, Parsed
<1>2. NodesOK /\ ActionsLand
  BY <1>1, NodesParsed, HintsParsed
<1>3. TimeMin \in TimeMin .. MaxNow /\ TimeMin \in Times /\ TimeMin <= 0 /\ 0 \in 0 .. MaxNow
  BY ClockBound DEF TimeMin, Times, Forever
<1>4. StepsOK /\ stack \in [Threads -> Seq(Steps)]
  <2>1. <<>> \in Seq(Fit) /\ <<>> \in Seq(Steps)
    OBVIOUS
  <2>2. stack = [t \in Threads |-> <<>>]
    BY DEF PowerInit, Init
  <2> QED
    BY <2>1, <2>2 DEF StepsOK
<1>5. HintTypes
  BY <1>3, <1>4 DEF PowerInit, Init, HintTypes, Everywhere, NoRequest
<1>6. SpansOK
  <2>1. now = 0 /\ start_time = Everywhere(TimeMin) /\ end_time = Everywhere(TimeMin)
    BY DEF PowerInit, Init
  <2>2. TimeMin <= TimeMin /\ TimeMin <= 0
    BY DEF TimeMin
  <2> QED
    BY <2>1, <2>2 DEF SpansOK, Everywhere
<1>7. \A n \in PropertyNodes : DefaultOf[n] \in DOMAIN nodes_[n].values
  BY <1>2, ValueFits
<1>8. 0 \in 0 .. MaxCrashes[doc]
  <2>1. MaxCrashes[doc] \in Nat
    BY <1>1, PowerAssumption DEF PowerAssumption, Parsed
  <2> QED
    BY <2>1
<1>9. 1 \in 1 .. Len(Restored) + 1
  BY DEF Restored
<1>10. TypeOK
  BY <1>2, <1>5, <1>7, <1>8, <1>9, EmptyProperties DEF PowerInit, TypeOK, DefaultOf
<1> QED
  BY <1>1, <1>4, <1>5, <1>6, <1>10 DEF IInv, HintInv

(* The variables of the process keep their types.                            *)
LEMMA ProcessKept ==
  ASSUME IInv, Next
  PROVE  /\ life' \in {"down", "starting", "up"}
         /\ restoring' \in 1 .. Len(Restored) + 1
         /\ mSustainedPerfModeOn' \in BOOLEAN
         /\ started' \in BOOLEAN
<1>1. /\ life \in {"down", "starting", "up"} /\ restoring \in 1 .. Len(Restored) + 1
      /\ mSustainedPerfModeOn \in BOOLEAN /\ started \in BOOLEAN
  BY DEF IInv, TypeOK
<1>2. CASE main \/ Serve \/ StartLooper \/ FrameworkDies \/ OtherCall \/ HintStep
           \/ \E n \in PropertyNodes : Update(n)
  BY <1>1, <1>2
  DEF main, Serve, StartLooper, FrameworkDies, OtherCall, HintStep, Update, processVars
<1>3. CASE Restore
  <2>1. /\ restoring \in DOMAIN Restored /\ restoring' = restoring + 1
        /\ life' = life /\ started' = started
    BY <1>3 DEF Restore
  <2>2. mSustainedPerfModeOn' \in BOOLEAN
    BY <1>1, <1>3 DEF Restore
  <2>3. DOMAIN Restored = 1 .. Len(Restored) /\ Len(Restored) = 3
    BY DEF Restored
  <2> QED
    BY <1>1, <2>1, <2>2, <2>3
<1>4. CASE Crash \/ Kill
  <2>1. 1 \in 1 .. Len(Restored) + 1
    BY DEF Restored
  <2> QED
    BY <1>4, <2>1 DEF Crash, Kill, Dies
<1>5. CASE PowerCall
  <2>1. UNCHANGED <<life, restoring, started>>
    BY <1>5 DEF PowerCall
  <2>2. mSustainedPerfModeOn' \in {TRUE, mSustainedPerfModeOn}
    <3>1. Hints \subseteq Names
      BY HintsParsed DEF IInv, HintInv, HintsOK
    <3>2. \/ \E type \in Hints, on \in BOOLEAN : setMode(type, on)
          \/ UNCHANGED mSustainedPerfModeOn
      BY <1>5 DEF PowerCall
    <3> QED
      BY <3>1, <3>2, RequestsMade
  <2> QED
    BY <1>1, <2>1, <2>2
<1> QED
  BY <1>2, <1>3, <1>4, <1>5 DEF Next

(* So do those of the looper's property nodes, and what is around it.        *)
LEMMA WorldKept ==
  ASSUME IInv, Next
  PROVE  /\ DOMAIN current_val_index_' = PropertyNodes
         /\ \A n \in PropertyNodes : current_val_index_'[n] \in DOMAIN nodes_[n].values
         /\ property' \in [Properties -> {""} \cup Recorded]
         /\ killing' \in BOOLEAN
         /\ crashes' \in 0 .. MaxCrashes[doc]
         /\ asked' \subseteq Recorded
         /\ written' \subseteq PropertyNodes
<1>1. /\ DOMAIN current_val_index_ = PropertyNodes
      /\ \A n \in PropertyNodes : current_val_index_[n] \in DOMAIN nodes_[n].values
      /\ property \in [Properties -> {""} \cup Recorded]
      /\ killing \in BOOLEAN /\ crashes \in 0 .. MaxCrashes[doc]
      /\ asked \subseteq Recorded /\ written \subseteq PropertyNodes
  BY DEF IInv, TypeOK
<1>2. NodesOK
  BY NodesParsed DEF IInv, HintInv
<1>3. crashes < MaxCrashes[doc] => crashes + 1 \in 0 .. MaxCrashes[doc]
  <2>1. MaxCrashes[doc] \in Nat
    BY PowerAssumption DEF PowerAssumption, IInv, HintInv, Parsed
  <2>2. \A m \in Nat : \A n \in 0 .. m : n < m => n + 1 \in 0 .. m
    OBVIOUS
  <2> QED
    BY <1>1, <2>1, <2>2
<1>4. CASE main \/ Restore \/ Serve \/ StartLooper \/ OtherCall \/ HintStep
  BY <1>1, <1>4
  DEF main, Restore, Serve, StartLooper, OtherCall, HintStep, processVars, worldVars
<1>5. CASE Crash \/ Kill
  <2>1. current_val_index_' = DefaultOf /\ DOMAIN DefaultOf = PropertyNodes
    BY <1>5 DEF Crash, Kill, Dies, DefaultOf
  <2>2. \A n \in PropertyNodes : DefaultOf[n] \in DOMAIN nodes_[n].values
    BY <1>2, ValueFits
  <2>3. /\ property' = property /\ asked' = asked /\ written' = {}
        /\ killing' \in BOOLEAN /\ crashes' \in 0 .. MaxCrashes[doc]
    BY <1>1, <1>3, <1>5 DEF Crash, Kill, Dies
  <2> QED
    BY <1>1, <2>1, <2>2, <2>3
<1>6. CASE FrameworkDies
  <2>1. UNCHANGED <<current_val_index_, written>> /\ asked' = {}
        /\ killing' \in BOOLEAN /\ crashes' \in 0 .. MaxCrashes[doc]
    BY <1>1, <1>3, <1>6 DEF FrameworkDies, processVars
  <2>2. property' \in [Properties -> {""} \cup Recorded]
    BY <1>1, <1>6, EmptyProperties DEF FrameworkDies
  <2> QED
    BY <1>1, <2>1, <2>2
<1>7. CASE PowerCall
  <2>1. UNCHANGED <<current_val_index_, written, property, killing, crashes>>
    BY <1>7 DEF PowerCall
  <2>2. asked' \subseteq Recorded
    BY <1>1, <1>7 DEF PowerCall
  <2> QED
    BY <1>1, <2>1, <2>2
<1>8. ASSUME NEW n \in PropertyNodes, Update(n)
      PROVE  /\ DOMAIN current_val_index_' = PropertyNodes
             /\ \A k \in PropertyNodes : current_val_index_'[k] \in DOMAIN nodes_[k].values
             /\ property' \in [Properties -> {""} \cup Recorded]
             /\ UNCHANGED <<killing, crashes, asked>>
             /\ written' \subseteq PropertyNodes
  <2>1. /\ ValueFor(n) \in DOMAIN nodes_[n].values
        /\ nodes_[n].values[ValueFor(n)] \in Recorded
    BY <1>2, ValueFits
  <2>2. /\ current_val_index_' = [current_val_index_ EXCEPT ![n] = ValueFor(n)]
        /\ property' = [property EXCEPT ![nodes_[n].path] = nodes_[n].values[ValueFor(n)]]
        /\ written' = written \cup {n}
        /\ UNCHANGED <<killing, crashes, asked>>
    BY <1>8 DEF Update
  <2>3. property' \in [Properties -> {""} \cup Recorded]
    BY <1>1, <2>1, <2>2
  <2>4. \A k \in PropertyNodes : current_val_index_'[k] \in DOMAIN nodes_[k].values
    BY <1>1, <2>1, <2>2
  <2> QED
    BY <1>1, <2>2, <2>3, <2>4
<1> QED
  BY <1>1, <1>4, <1>5, <1>6, <1>7, <1>8 DEF Next

(* A step keeps the invariant.                                               *)
LEMMA StepOK == IInv /\ [Next]_vars => IInv'
<1> SUFFICES ASSUME IInv, [Next]_vars
             PROVE  IInv'
  OBVIOUS
<1>1. CASE Next
  <2>1. HintNext
    BY <1>1, ServiceCalls
  <2>2. HintInv' /\ HintTypes'
    BY <2>1, HintManagerKeeps DEF IInv, HintInv
  <2>3. /\ doc' = doc /\ nodes_' = nodes_ /\ ActionsLand' /\ PropertyNodes' = PropertyNodes
        /\ Recorded' = Recorded
    BY <2>1, ConfigStays, NodesStay DEF IInv, TypeOK
  <2>4. TypeOK'
    BY <1>1, <2>2, <2>3, ProcessKept, WorldKept DEF TypeOK
  <2> QED
    BY <2>2, <2>4 DEF IInv
<1>2. CASE UNCHANGED vars
  <2>1. UNCHANGED hintVars
    BY <1>2 DEF vars
  <2>2. HintInv' /\ HintTypes'
    BY <2>1, HintManagerKeeps DEF IInv, HintInv, HintNext, Made
  <2>3. /\ doc' = doc /\ nodes_' = nodes_ /\ ActionsLand' /\ PropertyNodes' = PropertyNodes
        /\ Recorded' = Recorded
    BY <2>1, NodesStay DEF IInv, TypeOK, hintVars
  <2>4. TypeOK'
    BY <1>2, <2>2, <2>3 DEF IInv, TypeOK, vars, processVars, worldVars
  <2> QED
    BY <2>2, <2>4 DEF IInv
<1> QED
  BY <1>1, <1>2

(* Whatever the configuration and its callers do, every variable keeps its   *)
(* type: no span of negative length is ever added to the unsigned duration,  *)
(* every hint acts on nodes and values there are, no node twice, and a       *)
(* property names nothing but a recorded mode, process deaths included.      *)
(* (HintManager.h, HintManager.cpp, Power.cpp)                               *)
THEOREM TypeCorrect == Spec => []TypeOK
<1>1. IInv => TypeOK
  BY DEF IInv
<1> QED
  BY <1>1, InitOK, StepOK, PTL DEF Spec

-----------------------------------------------------------------------------
(* Recorded modes.                                                           *)

(* Each property node records the mode of a property of its own.             *)
LEMMA ModesParsed ==
  ASSUME Parsed, NEW n \in PropertyNodes
  PROVE  /\ RecordsMode(n, nodes_, actions_)
         /\ \A m \in PropertyNodes : nodes_[m].path = nodes_[n].path => m = n
         /\ nodes_[n].values[DefaultOf[n]] = ""
<1> DEFINE ns == doc.Nodes
<1>1. doc \in Docs /\ nodes_ = ParseNodes(doc) /\ actions_ = HintsOf(doc)
  BY DEF Parsed
<1>2. n \in DOMAIN nodes_ /\ ~nodes_[n].is_file /\ DefaultOf[n] = nodes_[n].default_val_index_
  BY DEF PropertyNodes, DefaultOf
<1>3. \A m \in PropertyNodes : nodes_[m].path = nodes_[n].path => m = n
  <2>1. nodes_ # <<>>
    BY <1>2
  <2> DEFINE paths == [i \in DOMAIN ns |-> ns[i].Path]
  <2>2. /\ AllDistinct(paths)
        /\ nodes_ = [i \in DOMAIN ns |-> ParsedNode(ns[i])]
    BY <1>1, <2>1 DEF ParseNodes
  <2>3. \A i, j \in DOMAIN ns : paths[i] = paths[j] => i = j
    BY <2>2 DEF AllDistinct
  <2>4. \A i \in DOMAIN ns : nodes_[i].path = paths[i]
    BY <2>2 DEF ParsedNode
  <2>5. DOMAIN nodes_ = DOMAIN ns /\ PropertyNodes \subseteq DOMAIN nodes_
    BY <2>2 DEF PropertyNodes
  <2> HIDE DEF paths
  <2> QED
    BY <2>3, <2>4, <2>5
<1>4. RecordsMode(n, nodes_, actions_)
  BY <1>1, <1>2, ModesRecorded DEF ModesRecorded
<1>5. nodes_[n].values[DefaultOf[n]] = ""
  BY <1>2, <1>4 DEF RecordsMode
<1> QED
  BY <1>3, <1>4, <1>5

(* What is recorded has a name, and is asked for without end.                *)
LEMMA ModesLast ==
  ASSUME Parsed, NEW m \in Recorded, m # ""
  PROVE  m \in KeptModes /\ (m \in Hints => 0 \in Timeouts(actions_[m].node_actions))
<1>1. PICK n \in PropertyNodes : m \in Range(nodes_[n].values)
  BY DEF Recorded
<1>2. RecordsMode(n, nodes_, actions_)
  BY ModesParsed
<1>3. m = ModeOf[nodes_[n].path] /\ m \in KeptModes
  BY <1>1, <1>2 DEF RecordsMode, KeptModes
<1>4. ASSUME m \in Hints
      PROVE  0 \in Timeouts(actions_[m].node_actions)
  <2>1. PICK a \in actions_[m].node_actions : a.node_index = n
    BY <1>2, <1>3, <1>4 DEF RecordsMode, Hints
  <2>2. a.timeout_ms = 0
    BY <1>2, <1>4, <2>1 DEF RecordsMode, Hints
  <2> QED
    BY <2>1, <2>2 DEF Timeouts
<1> QED
  BY <1>3, <1>4

(* A recorded mode has a name that is not empty, and there are three.        *)
LEMMA ThreeModes ==
  /\ KeptModes = {"SUSTAINED_PERFORMANCE", "AUDIO_STREAMING_LOW_LATENCY", "EXPENSIVE_RENDERING"}
  /\ "" \notin KeptModes /\ "LAUNCH" \notin KeptModes
  /\ "INTERACTION" \notin KeptModes
  /\ DOMAIN Restored = 1 .. 3 /\ Len(Restored) = 3
  /\ \A i \in 1 .. 3 : /\ Restored[i].property \in Properties
                       /\ Restored[i].mode = ModeOf[Restored[i].property]
                       /\ Restored[i].mode = "SUSTAINED_PERFORMANCE"
                            <=> Restored[i].property = StateProp
  /\ \A p \in Properties : \E i \in 1 .. 3 : Restored[i].property = p
<1>1. /\ ModeOf[StateProp] = "SUSTAINED_PERFORMANCE"
      /\ ModeOf[AudioProp] = "AUDIO_STREAMING_LOW_LATENCY"
      /\ ModeOf[RenderingProp] = "EXPENSIVE_RENDERING"
  BY DEF ModeOf, Properties, StateProp, AudioProp, RenderingProp
<1>2. Properties = {StateProp, AudioProp, RenderingProp}
  BY DEF Properties
<1>3. KeptModes = {ModeOf[StateProp], ModeOf[AudioProp], ModeOf[RenderingProp]}
  BY <1>2 DEF KeptModes
<1>4. /\ DOMAIN Restored = 1 .. 3 /\ Len(Restored) = 3
      /\ Restored[1].property = StateProp /\ Restored[1].mode = "SUSTAINED_PERFORMANCE"
      /\ Restored[2].property = AudioProp /\ Restored[2].mode = "AUDIO_STREAMING_LOW_LATENCY"
      /\ Restored[3].property = RenderingProp /\ Restored[3].mode = "EXPENSIVE_RENDERING"
  BY DEF Restored
<1>5. StateProp # AudioProp /\ StateProp # RenderingProp
  BY DEF StateProp, AudioProp, RenderingProp
<1>6. 1 .. 3 = {1, 2, 3}
  OBVIOUS
<1> QED
  BY <1>1, <1>2, <1>3, <1>4, <1>5, <1>6

(* Steps about other hints may be taken by any thread.                       *)
Elsewhere == {x \in Fit : x.hint \notin KeptModes}

(* So may the hint actions of every hint.                                    *)
LEMMA ActionsAllowed ==
  ASSUME Parsed, NEW h \in Hints
  PROVE  DoHintAction(h) \in Seq(Elsewhere) /\ EndHintAction(h) \in Seq(Elsewhere)
<1> DEFINE as == actions_[h].hint_actions
           M == {i \in DOMAIN as : as[i].type = "MaskHint"}
           masks == ElementsAt(as, M)
           Given == {a \in HintActions : a.value \notin KeptModes}
<1>1. as \in Seq(HintActions)
  BY HintsParsed DEF HintsOK
<1>2. \A i \in DOMAIN as : as[i].value \notin KeptModes
  BY ModesRecorded DEF ModesRecorded, Parsed, Hints, ActsOnOthers
<1>3. as \in Seq(Given)
  <2>1. ASSUME NEW s \in Seq(HintActions), \A i \in DOMAIN s : s[i].value \notin KeptModes
        PROVE  s \in Seq(Given)
    <3>1. \A i \in 1 .. Len(s) : s[i] \in Given
      BY <2>1
    <3> HIDE DEF Given
    <3> QED
      BY <3>1
  <2> HIDE DEF as, Given
  <2> QED
    BY <1>1, <1>2, <2>1
<1>4. IsList(as)
  <2>1. \A i \in DOMAIN as : as[i] \in Range(as)
    BY DEF Range
  <2> QED
    BY <1>1, <2>1 DEF IsList
<1>5. masks \in Seq(Given)
  <2>1. \A i \in M \cap DOMAIN as : as[i] \in Given
    BY <1>3
  <2> HIDE DEF M, as, Given
  <2> QED
    BY <1>4, <2>1, Taken
<1>6. \A a \in Given : a.value \in Names /\ a.value \notin KeptModes
  BY DEF HintActions
<1>7. \A a \in Given : ActionStep(a) \in Elsewhere
  <2> SUFFICES ASSUME NEW a \in Given
               PROVE  ActionStep(a) \in Elsewhere
    OBVIOUS
  <2>1. ActionStep(a) \in Fit
    BY <1>6, FirstSteps DEF ActionStep
  <2>2. ActionStep(a).hint = a.value
    BY DEF ActionStep, DoStep, EndStep
  <2> QED
    BY <1>6, <2>1, <2>2 DEF Elsewhere
<1>8. \A a \in Given : [op |-> "unmask", hint |-> a.value] \in Elsewhere
  BY <1>6, FirstSteps DEF Elsewhere
<1> HIDE DEF masks, M, Given
<1>9. ASSUME NEW s \in Seq(Given)
      PROVE  /\ [i \in DOMAIN s |-> ActionStep(s[i])] \in Seq(Elsewhere)
             /\ [i \in DOMAIN s |-> [op |-> "unmask", hint |-> s[i].value]] \in Seq(Elsewhere)
  <2>1. Len(s) \in Nat /\ DOMAIN s = 1 .. Len(s)
    OBVIOUS
  <2>2. \A i \in 1 .. Len(s) : ActionStep(s[i]) \in Elsewhere
    BY <1>7
  <2>3. [i \in DOMAIN s |-> ActionStep(s[i])] \in Seq(Elsewhere)
    BY <2>1, <2>2
  <2>4. [i \in DOMAIN s |-> [op |-> "unmask", hint |-> s[i].value]] \in Seq(Elsewhere)
    <3>1. \A i \in 1 .. Len(s) : s[i] \in Given
      OBVIOUS
    <3> QED
      BY <1>8, <2>1, <3>1
  <2> QED
    BY <2>3, <2>4
<1> QED
  BY <1>3, <1>5, <1>9 DEF DoHintAction, EndHintAction, masks, M

(* Every thread may take such steps.                                         *)
LEMMA ElsewhereAllowed ==
  ASSUME NEW t \in Threads
  PROVE  /\ Elsewhere \subseteq Allowed(t)
         /\ \A s \in Seq(Elsewhere) : s \in Seq(Allowed(t))
<1>1. Elsewhere \subseteq Allowed(t)
  BY DEF Elsewhere, Allowed
<1> QED
  BY <1>1

(* What a thread may do stays, as long as the calls do.                      *)
LEMMA AllowedStays ==
  ASSUME UNCHANGED configVars
  PROVE  /\ Elsewhere' = Elsewhere
         /\ \A t \in Threads \ {binder} : Allowed(t)' = Elsewhere /\ Allowed(t) = Elsewhere
         /\ \A t \in Threads : UNCHANGED <<asked, mSustainedPerfModeOn>> => Allowed(t)' = Allowed(t)
<1>1. Fit' = Fit
  BY DEF configVars, Fit, Steps, Hints
<1>2. actions_' = actions_
  BY DEF configVars
<1>3. \A t \in Threads \ {binder} : Allowed(t)' = Elsewhere /\ Allowed(t) = Elsewhere
  BY <1>1 DEF Allowed, Elsewhere
<1>4. ASSUME NEW t \in Threads, UNCHANGED <<asked, mSustainedPerfModeOn>>
      PROVE  Allowed(t)' = Allowed(t)
  BY <1>1, <1>2, <1>4 DEF Allowed, KeptFit
<1>5. Elsewhere' = Elsewhere
  BY <1>1 DEF Elsewhere
<1> QED
  BY <1>3, <1>4, <1>5

(* The step on top is allowed, as are those that replace it.                 *)
LEMMA PutAllowed ==
  ASSUME StepsOK, \A u \in Threads : stack[u] \in Seq(Allowed(u)),
         NEW t \in Threads, stack[t] # <<>>
  PROVE  /\ Top(t) \in Allowed(t)
         /\ \A steps \in Seq(Allowed(t)) :
              Puts(t, steps) => \A u \in Threads : stack'[u] \in Seq(Allowed(u))
<1>1. Head(stack[t]) \in Allowed(t) /\ Tail(stack[t]) \in Seq(Allowed(t))
  <2>1. stack[t] \in Seq(Allowed(t))
    OBVIOUS
  <2> QED
    BY <2>1
<1>2. ASSUME NEW steps \in Seq(Allowed(t)), Puts(t, steps)
      PROVE  \A u \in Threads : stack'[u] \in Seq(Allowed(u))
  <2>1. steps \o Tail(stack[t]) \in Seq(Allowed(t))
    BY <1>1
  <2> QED
    BY <1>2, <2>1 DEF Puts, StepsOK
<1> QED
  BY <1>1, <1>2 DEF Top

(* Steps that are not on top stay, and a new top comes first.                *)
LEMMA StepsStay ==
  ASSUME StepsOK, NEW t \in Threads, stack[t] # <<>>, NEW steps \in Seq(Fit), Puts(t, steps),
         NEW u \in Threads
  PROVE  /\ \A i \in DOMAIN stack[u] :
              u # t \/ i # 1 => \E j \in DOMAIN stack'[u] : stack'[u][j] = stack[u][i]
         /\ \A i \in DOMAIN steps : \E j \in DOMAIN stack'[t] : stack'[t][j] = steps[i]
         /\ stack[t][1] = Top(t)
<1> DEFINE Joined(q, s) == q = steps \o Tail(s)
<1>1. /\ Joined(stack'[t], stack[t])
      /\ \A v \in Threads \ {t} : stack'[v] = stack[v]
  BY DEF Puts, StepsOK
<1>2. stack[t] \in Seq(Fit)
  BY DEF StepsOK
<1>3. ASSUME NEW s \in Seq(Fit), s # <<>>, NEW q, Joined(q, s)
      PROVE  /\ \A i \in DOMAIN s : i # 1 => \E j \in DOMAIN q : q[j] = s[i]
             /\ \A i \in DOMAIN steps : \E j \in DOMAIN q : q[j] = steps[i]
  <2> DEFINE L == Len(steps)
  <2>1. /\ L \in Nat /\ Len(s) \in Nat \ {0} /\ DOMAIN q = 1 .. L + Len(s) - 1
        /\ DOMAIN steps = 1 .. L /\ DOMAIN s = 1 .. Len(s)
    BY <1>3
  <2>2. ASSUME NEW i \in 2 .. Len(s)
        PROVE  L + i - 1 \in DOMAIN q /\ q[L + i - 1] = s[i]
    BY <1>3, <2>1
  <2>3. \A i \in 1 .. L : i \in DOMAIN q /\ q[i] = steps[i]
    BY <1>3, <2>1
  <2>4. \A i \in 1 .. Len(s) : i # 1 => i \in 2 .. Len(s)
    BY <2>1
  <2> HIDE DEF L
  <2> QED
    BY <2>1, <2>2, <2>3, <2>4
<1> HIDE DEF Joined
<1>4. stack[t][1] = Top(t)
  BY <1>2 DEF Top
<1>5. CASE u = t
  <2>1. /\ \A i \in DOMAIN stack[t] :
              i # 1 => \E j \in DOMAIN stack'[t] : stack'[t][j] = stack[t][i]
        /\ \A i \in DOMAIN steps : \E j \in DOMAIN stack'[t] : stack'[t][j] = steps[i]
    BY <1>1, <1>2, <1>3
  <2> QED
    BY <1>4, <1>5, <2>1
<1>6. CASE u # t
  <2>1. stack'[u] = stack[u]
    BY <1>1, <1>6
  <2>2. \A i \in DOMAIN steps : \E j \in DOMAIN stack'[t] : stack'[t][j] = steps[i]
    BY <1>1, <1>2, <1>3
  <2> QED
    BY <1>4, <2>1, <2>2
<1> QED
  BY <1>5, <1>6

(* The steps of a call about a recorded mode are allowed ones in turn, and   *)
(* to do its hint leads to a request.                                        *)
LEMMA StepPuts ==
  ASSUME HintInv, CallsOK, NEW t \in Threads, Step(t)
  PROVE  /\ stack[t] # <<>> /\ Top(t) \in Allowed(t) /\ Top(t) \in Fit
         /\ \E steps \in Seq(Allowed(t)) :
              /\ Puts(t, steps)
              /\ Top(t).op = "do" /\ Top(t).hint \in Hints \cap KeptModes =>
                   1 \in DOMAIN steps /\ steps[1].op = "request" /\ steps[1].hint = Top(t).hint
<1> DEFINE h == Top(t).hint
<1>1. stack[t] # <<>>
  BY DEF Step, DoHint, Request, DoHintStatus, Mask, EndHint, Cancel, EndHintStatus, Unmasked,
         Takes
<1>2. StepsOK /\ HintsOK /\ Parsed
  BY HintsParsed DEF HintInv
<1>3. Top(t) \in Allowed(t) /\ Top(t) \in Fit
  BY <1>1, <1>2, PutAllowed DEF CallsOK, Allowed
<1>4. h \in KeptModes => t = binder /\ KeptFit(Top(t))
  BY <1>3 DEF Allowed
<1>5. <<>> \in Seq(Allowed(t))
  OBVIOUS
<1>6. CASE DoHint(t)
  <2>1. Top(t).op = "do"
    BY <1>6, DoHintPuts
  <2>2. CASE h \in Hints /\ enabled[h]
    <3>1. DoHintAction(h) \in Seq(Allowed(t))
      BY <1>2, <2>2, ActionsAllowed, ElsewhereAllowed
    <3>2. Requested(t) \in Fit /\ Counted(t) \in Fit
      BY <1>1, <2>1, <2>2, RequestFits
    <3>3. Requested(t).hint = h /\ Requested(t).op = "request"
          /\ Counted(t).hint = h /\ Counted(t).op = "doStatus"
      BY DEF Requested, Counted
    <3>4. Top(t).overrides = {} => Requested(t).timeouts = Timeouts(actions_[h].node_actions)
      BY DEF Requested
    <3>5. Requested(t) \in Allowed(t) /\ Counted(t) \in Allowed(t)
      BY <1>4, <2>1, <3>2, <3>3, <3>4 DEF Allowed, KeptFit
    <3> DEFINE steps == <<Requested(t), Counted(t)>> \o DoHintAction(h)
    <3>6. steps \in Seq(Allowed(t)) /\ 1 \in DOMAIN steps /\ steps[1] = Requested(t)
      BY <3>1, <3>5
    <3>7. Puts(t, steps)
      BY <1>6, <2>2, DoHintPuts
    <3> HIDE DEF steps
    <3> QED
      BY <1>1, <1>3, <3>3, <3>6, <3>7
  <2>3. CASE ~(h \in Hints /\ enabled[h])
    <3>1. Puts(t, <<>>)
      BY <1>6, <2>3, DoHintPuts
    <3>2. h \notin Hints \cap KeptModes
      BY <2>3 DEF CallsOK
    <3> QED
      BY <1>1, <1>3, <1>5, <3>1, <3>2
  <2> QED
    BY <2>2, <2>3
<1>7. CASE EndHint(t)
  <2> DEFINE first == [op |-> "cancel", hint |-> h]
             second == [op |-> "endStatus", hint |-> h]
  <2>1. /\ Top(t).op = "end"
        /\ h \in Hints => Puts(t, <<first, second>> \o EndHintAction(h))
        /\ h \notin Hints => Puts(t, <<>>)
    BY <1>7 DEF EndHint, Takes
  <2>2. CASE h \in Hints
    <3>1. EndHintAction(h) \in Seq(Allowed(t))
      BY <1>2, <2>2, ActionsAllowed, ElsewhereAllowed
    <3>2. first \in Fit /\ second \in Fit
      <4>1. h \in Names
        BY <1>2, <2>2 DEF HintsOK
      <4> HIDE DEF h
      <4> QED
        BY <2>2, <4>1 DEF Fit, Steps
    <3>3. first \in Allowed(t) /\ second \in Allowed(t)
      BY <1>4, <2>1, <3>2 DEF Allowed, KeptFit
    <3> HIDE DEF first, second
    <3>4. <<first, second>> \o EndHintAction(h) \in Seq(Allowed(t))
      BY <3>1, <3>3
    <3> QED
      BY <1>1, <1>3, <2>1, <2>2, <3>4
  <2>3. CASE h \notin Hints
    BY <1>1, <1>3, <1>5, <2>1, <2>3
  <2> QED
    BY <2>2, <2>3
<1>8. CASE ~DoHint(t) /\ ~EndHint(t)
  <2>1. Puts(t, <<>>) /\ Top(t).op # "do"
    BY <1>8 DEF Step, Request, DoHintStatus, Mask, Cancel, EndHintStatus, Unmasked, Takes
  <2> QED
    BY <1>1, <1>3, <1>5, <2>1
<1> QED
  BY <1>6, <1>7, <1>8

(* The latest of some times.                                                 *)
LEMMA LatestTime ==
  ASSUME NEW S, S \subseteq Times, S # {}
  PROVE  Max(S) \in S /\ \A x \in S : x <= Max(S)
<1>1. TimeMin \in Int /\ Forever \in Int
  BY ClockBound DEF TimeMin, Forever
<1> QED
  BY <1>1, Greatest DEF Times

(* A request of a recorded mode is one without end.                          *)
LEMMA RequestLasts ==
  ASSUME HintInv, CallsOK, NEW t \in Threads, Request(t)
  PROVE  LET h == Top(t).hint
         IN  /\ Top(t).op = "request" /\ h \in Hints
             /\ request' \in [Hints -> Times]
             /\ \A k \in Hints : request'[k] # request[k] => k = h
             /\ request[h] = Forever => request'[h] = Forever
             /\ h \in Recorded \cap KeptModes => request'[h] = Forever
<1> DEFINE h == Top(t).hint
           ends == {request[h]} \cup {EndsAt(m) : m \in Top(t).timeouts}
<1>1. /\ stack[t] # <<>> /\ Top(t).op = "request"
      /\ request' = [request EXCEPT ![h] = Max({@} \cup {EndsAt(m) : m \in Top(t).timeouts})]
  BY DEF Request, Takes
<1>2. /\ now \in 0 .. MaxNow /\ request \in [Hints -> Times]
      /\ Top(t) \in Fit /\ Top(t) \in Steps /\ Top(t) \in Allowed(t)
  BY StepPuts, TopFits DEF HintInv, HintTypes, Step
<1>3. h \in Hints /\ Top(t).timeouts \subseteq 0 .. MaxNow
  BY <1>1, <1>2, StepFields DEF Fit
<1>4. \A m \in Top(t).timeouts : EndsAt(m) \in Times
  BY <1>2, <1>3, EndsLater
<1>5. ends \subseteq Times /\ ends # {} /\ request[h] \in ends
  BY <1>2, <1>3, <1>4
<1>6. request' = [request EXCEPT ![h] = Max(ends)]
  BY <1>1, <1>2, <1>3
<1>7. h \in Recorded \cap KeptModes => Forever \in ends
  <2> SUFFICES ASSUME h \in Recorded, h \in KeptModes
               PROVE  Forever \in ends
    OBVIOUS
  <2>1. Top(t).timeouts = Timeouts(actions_[h].node_actions)
    BY <1>1, <1>2 DEF Allowed, KeptFit
  <2>2. 0 \in Timeouts(actions_[h].node_actions)
    BY <1>3, ModesLast, ThreeModes DEF HintInv
  <2>3. EndsAt(0) = Forever
    BY DEF EndsAt
  <2> QED
    BY <2>1, <2>2, <2>3
<1> HIDE DEF ends
<1>8. Max(ends) \in Times /\ \A x \in ends : x <= Max(ends)
  BY <1>5, LatestTime
<1>9. Forever \in ends => Max(ends) = Forever
  <2>1. \A x \in Times : Forever <= x => x = Forever
    BY ClockBound DEF Times, Forever, TimeMin
  <2> QED
    BY <1>8, <2>1
<1>10. request' \in [Hints -> Times] /\ request'[h] = Max(ends)
       /\ \A k \in Hints : request'[k] # request[k] => k = h
  BY <1>2, <1>3, <1>6, <1>8
<1> QED
  BY <1>1, <1>3, <1>5, <1>7, <1>9, <1>10

(* What a step of a call does to the requests and masks of recorded modes.   *)
LEMMA StepRequests ==
  ASSUME HintInv, CallsOK, NEW t \in Threads, Step(t)
  PROVE  /\ \A h \in Hints \cap KeptModes : enabled'[h]
         /\ \A h \in Hints \cap Recorded \cap KeptModes : request'[h] \in {NoRequest, Forever}
         /\ \A h \in Hints :
              request[h] = Forever /\ request'[h] # Forever =>
                Top(t).op = "cancel" /\ Top(t).hint = h
         /\ \A h \in Hints :
              request[h] # Forever /\ request'[h] = Forever =>
                Top(t).op = "request" /\ Top(t).hint = h
         /\ \A h \in Hints \cap Recorded \cap KeptModes :
              Top(t).op = "request" /\ Top(t).hint = h => request'[h] = Forever
<1> DEFINE h == Top(t).hint
<1>1. /\ \A k \in Hints \cap KeptModes : enabled[k]
      /\ \A k \in Hints \cap Recorded \cap KeptModes : request[k] \in {NoRequest, Forever}
      /\ request \in [Hints -> Times] /\ enabled \in [Hints -> BOOLEAN]
  BY DEF CallsOK, HintInv, HintTypes
<1>2. Top(t) \in Allowed(t)
  BY StepPuts
<1>3. CASE Request(t)
  <2>1. enabled' = enabled
    BY <1>3 DEF Request
  <2> QED
    BY <1>1, <1>3, <2>1, RequestLasts
<1>4. CASE Cancel(t)
  <2>1. enabled' = enabled /\ Top(t).op = "cancel"
        /\ request' = [request EXCEPT ![h] = NoRequest]
    BY <1>4 DEF Cancel, Takes
  <2>2. NoRequest # Forever
    BY ClockBound DEF NoRequest, Forever, TimeMin
  <2> QED
    BY <1>1, <2>1, <2>2
<1>5. CASE Mask(t) \/ Unmasked(t)
  <2>1. request' = request /\ Top(t).op \in {"mask", "unmask"}
    BY <1>5 DEF Mask, Unmasked, Takes
  <2>2. h \notin KeptModes
    BY <1>2, <2>1 DEF Allowed, KeptFit
  <2>3. \A k \in Hints \cap KeptModes : enabled'[k]
    BY <1>1, <1>5, <2>2 DEF Mask, Unmasked
  <2> QED
    BY <1>1, <2>1, <2>3
<1>6. CASE DoHint(t) \/ DoHintStatus(t) \/ EndHint(t) \/ EndHintStatus(t)
  <2>1. request' = request /\ enabled' = enabled /\ Top(t).op # "request"
    BY <1>6 DEF DoHint, DoHintStatus, EndHint, EndHintStatus, Takes
  <2> QED
    BY <1>1, <2>1
<1> QED
  BY <1>3, <1>4, <1>5, <1>6 DEF Step

(* A step of a call keeps what is said of calls, and what is to come.        *)
LEMMA StepKept ==
  ASSUME HintInv, CallsOK, asked \subseteq Hints \cap KeptModes, asked \subseteq Recorded,
         NEW t \in Threads, Step(t), UNCHANGED <<asked, mSustainedPerfModeOn>>
  PROVE  CallsOK' /\ \A m \in asked : Coming(m) => Coming(m)'
<1> DEFINE h == Top(t).hint
<1>1. UNCHANGED configVars /\ Hints' = Hints /\ Recorded' = Recorded
  BY ConfigStays, NodesStay DEF HintNext
<1>2. PICK steps \in Seq(Allowed(t)) :
        /\ Puts(t, steps)
        /\ Top(t).op = "do" /\ h \in Hints \cap KeptModes =>
             1 \in DOMAIN steps /\ steps[1].op = "request" /\ steps[1].hint = h
  BY StepPuts
<1>3. /\ stack[t] # <<>> /\ Top(t) \in Allowed(t) /\ StepsOK
      /\ \A u \in Threads : stack[u] \in Seq(Allowed(u))
  BY StepPuts DEF HintInv, CallsOK
<1>4. h \in KeptModes => t = binder /\ KeptFit(Top(t))
  BY <1>3 DEF Allowed
<1>5. \A u \in Threads : stack'[u] \in Seq(Allowed(u)')
  <2>1. \A u \in Threads : stack'[u] \in Seq(Allowed(u))
    BY <1>2, <1>3, PutAllowed
  <2>2. \A u \in Threads : Allowed(u)' = Allowed(u)
    BY <1>1, AllowedStays
  <2> QED
    BY <2>1, <2>2
<1>6. "SUSTAINED_PERFORMANCE" \in Hints /\ request'["SUSTAINED_PERFORMANCE"] = Forever
        => mSustainedPerfModeOn
  <2> DEFINE s == "SUSTAINED_PERFORMANCE"
  <2>1. CASE request[s] = Forever
    BY <2>1 DEF CallsOK
  <2>2. CASE request[s] # Forever
    <3> SUFFICES ASSUME s \in Hints, request'[s] = Forever
                 PROVE  mSustainedPerfModeOn
      OBVIOUS
    <3>1. Top(t).op = "request" /\ h = s
      BY <2>2, StepRequests
    <3>2. s \in KeptModes
      BY ThreeModes
    <3> QED
      BY <1>4, <3>1, <3>2 DEF KeptFit
  <2> QED
    BY <2>1, <2>2
<1>7. CallsOK'
  BY <1>1, <1>5, <1>6, StepRequests DEF CallsOK
<1>8. ASSUME NEW m \in asked, Coming(m)
      PROVE  Coming(m)'
  <2>1. m \in Hints /\ m \in KeptModes /\ m \in Recorded
    OBVIOUS
  <2>2. CASE request[m] = Forever
    <3>1. request'[m] = Forever
      <4> SUFFICES ASSUME request'[m] # Forever
                   PROVE  FALSE
        OBVIOUS
      <4>1. Top(t).op = "cancel" /\ h = m
        BY <2>1, <2>2, StepRequests
      <4> QED
        BY <1>4, <2>1, <4>1 DEF KeptFit
    <3> QED
      BY <3>1 DEF Coming
  <2>3. CASE request[m] # Forever
    <3>1. PICK i \in DOMAIN stack[binder] :
            stack[binder][i].hint = m /\ stack[binder][i].op \in {"do", "request"}
      BY <1>8, <2>3 DEF Coming
    <3>2. binder \in Threads
      BY PowerAssumption DEF PowerAssumption
    <3>3. steps \in Seq(Fit)
      BY DEF Allowed
    <3>4. CASE t # binder \/ i # 1
      <4>1. \E j \in DOMAIN stack'[binder] : stack'[binder][j] = stack[binder][i]
        BY <1>2, <1>3, <3>2, <3>3, <3>4, StepsStay
      <4> QED
        BY <3>1, <4>1 DEF Coming
    <3>5. CASE t = binder /\ i = 1
      <4>1. Top(t).hint = m /\ Top(t).op \in {"do", "request"}
        BY <1>2, <1>3, <3>1, <3>2, <3>3, <3>5, StepsStay
      <4>2. CASE Top(t).op = "request"
        <5>1. request'[m] = Forever
          BY <2>1, <4>1, <4>2, StepRequests
        <5> QED
          BY <5>1 DEF Coming
      <4>3. CASE Top(t).op = "do"
        <5>1. 1 \in DOMAIN steps /\ steps[1].op = "request" /\ steps[1].hint = m
          BY <1>2, <2>1, <4>1, <4>3
        <5>2. \E j \in DOMAIN stack'[binder] : stack'[binder][j] = steps[1]
          BY <1>2, <1>3, <3>2, <3>3, <3>5, <5>1, StepsStay
        <5> QED
          BY <5>1, <5>2 DEF Coming
      <4> QED
        BY <4>1, <4>2, <4>3
    <3> QED
      BY <3>4, <3>5
  <2> QED
    BY <2>2, <2>3
<1> QED
  BY <1>7, <1>8

(* A call that the binder thread makes keeps both, if its step is allowed.   *)
LEMMA BinderCalls ==
  ASSUME HintInv, CallsOK, NEW step \in Fit, Calls(binder, step),
         step.hint \in KeptModes => KeptFit(step)',
         mSustainedPerfModeOn => mSustainedPerfModeOn'
  PROVE  /\ CallsOK' /\ \A m : Coming(m) => Coming(m)'
         /\ step.op = "do" => Coming(step.hint)'
<1>1. /\ stack[binder] = <<>> /\ stack' = [stack EXCEPT ![binder] = <<step>>]
      /\ UNCHANGED <<configVars, request, enabled>>
  BY DEF Calls
<1>2. binder \in Threads
  BY PowerAssumption DEF PowerAssumption
<1>3. Hints' = Hints /\ Recorded' = Recorded /\ Fit' = Fit
  BY <1>1, NodesStay DEF Fit, Steps
<1>4. stack'[binder] = <<step>> /\ \A u \in Threads \ {binder} : stack'[u] = stack[u]
  BY <1>1, <1>2 DEF HintInv, StepsOK
<1>5. \A u \in Threads : stack'[u] \in Seq(Allowed(u)')
  <2>1. step \in Allowed(binder)'
    BY <1>3 DEF Allowed
  <2>2. stack'[binder] \in Seq(Allowed(binder)')
    BY <1>4, <2>1
  <2>3. \A u \in Threads \ {binder} : Allowed(u)' = Elsewhere /\ Allowed(u) = Elsewhere
    BY <1>1, AllowedStays
  <2>4. \A u \in Threads \ {binder} : stack'[u] \in Seq(Allowed(u)')
    BY <1>4, <2>3 DEF CallsOK
  <2> QED
    BY <2>2, <2>4
<1>6. CallsOK'
  BY <1>1, <1>3, <1>5 DEF CallsOK
<1>7. \A m : Coming(m) => Coming(m)'
  BY <1>1 DEF Coming
<1>8. step.op = "do" => Coming(step.hint)'
  <2>1. 1 \in DOMAIN stack'[binder] /\ stack'[binder][1] = step
    BY <1>4
  <2> QED
    BY <2>1 DEF Coming
<1> QED
  BY <1>6, <1>7, <1>8

(* So does leaving HintManager alone, if the binder thread is idle.          *)
LEMMA BinderIdle ==
  ASSUME HintInv, CallsOK, UNCHANGED hintVars, stack[binder] = <<>>,
         mSustainedPerfModeOn => mSustainedPerfModeOn'
  PROVE  CallsOK' /\ \A m : Coming(m) => Coming(m)'
<1>1. UNCHANGED <<configVars, request, enabled, stack>>
  BY DEF hintVars
<1>2. Hints' = Hints /\ Recorded' = Recorded
  BY <1>1, NodesStay
<1>3. \A u \in Threads : stack'[u] \in Seq(Allowed(u)')
  <2>1. \A u \in Threads \ {binder} : Allowed(u)' = Elsewhere /\ Allowed(u) = Elsewhere
    BY <1>1, AllowedStays
  <2>2. \A u \in Threads \ {binder} : stack'[u] \in Seq(Allowed(u)')
    BY <1>1, <2>1 DEF CallsOK
  <2>3. stack'[binder] \in Seq(Allowed(binder)')
    <3>1. \A S : <<>> \in Seq(S)
      OBVIOUS
    <3> QED
      BY <1>1, <3>1
  <2> QED
    BY <2>2, <2>3
<1>4. CallsOK'
  BY <1>1, <1>2, <1>3 DEF CallsOK
<1> QED
  BY <1>1, <1>4 DEF Coming

(* Calls about other hints always do.                                        *)
LEMMA OthersCalled ==
  ASSUME HintInv, CallsOK, NEW name \in Names \ KeptModes, stack[binder] = <<>>,
         UNCHANGED mSustainedPerfModeOn,
         \/ \E on \in BOOLEAN : DoOrEnd(name, on)
         \/ Boost(name)
         \/ setBoost(name)
  PROVE  CallsOK' /\ \A m : Coming(m) => Coming(m)'
<1>1. CASE Ignored
  BY <1>1, BinderIdle DEF Ignored
<1>2. ASSUME NEW step \in Fit, step.hint \notin KeptModes, Calls(binder, step)
      PROVE  CallsOK' /\ \A m : Coming(m) => Coming(m)'
  BY <1>2, BinderCalls
<1>3. ASSUME NEW h \in Names \ KeptModes
      PROVE  /\ DoStep(h) \in Fit /\ DoStep(h).hint = h
             /\ EndStep(h) \in Fit /\ EndStep(h).hint = h
             /\ \A m \in 0 .. MaxNow : DoOverrideStep(h, m) \in Fit /\ DoOverrideStep(h, m).hint = h
  BY FirstSteps DEF DoStep, EndStep, DoOverrideStep
<1>4. CASE \E on \in BOOLEAN : DoOrEnd(name, on)
  BY <1>2, <1>3, <1>4 DEF DoOrEnd
<1>5. CASE Boost(name)
  <2>1. Overrides[name] \subseteq 0 .. MaxNow
    BY ConstantsAssumption DEF ConstantsAssumption
  <2>2. \/ \E on \in BOOLEAN : DoOrEnd(name, on)
        \/ \E m \in 0 .. MaxNow : Calls(binder, DoOverrideStep(name, m))
    BY <1>5, <2>1 DEF Boost
  <2> QED
    BY <1>2, <1>3, <1>4, <2>2
<1>6. CASE setBoost(name)
  <2>1. \/ Ignored
        \/ Calls(binder, DoStep("INTERACTION")) /\ name = "INTERACTION"
        \/ Boost(name)
    BY <1>6 DEF setBoost, Acquire
  <2> QED
    BY <1>1, <1>2, <1>3, <1>5, <2>1
<1> QED
  BY <1>4, <1>5, <1>6

(* And so does setMode: a recorded mode that is asked for is coming.         *)
LEMMA ModeCalled ==
  ASSUME HintInv, CallsOK, NEW type \in Names, NEW on \in BOOLEAN, stack[binder] = <<>>,
         setMode(type, on), ~on => type \notin asked'
  PROVE  /\ CallsOK' /\ \A m : Coming(m) => Coming(m)'
         /\ on /\ type \in KeptModes => Coming(type)'
<1>1. DoStep(type) \in Fit /\ EndStep(type) \in Fit
  BY FirstSteps
<1>2. /\ DoStep(type).hint = type /\ DoStep(type).op = "do" /\ DoStep(type).overrides = {}
      /\ EndStep(type).hint = type /\ EndStep(type).op = "end"
  BY DEF DoStep, EndStep
<1>3. CASE type = "SUSTAINED_PERFORMANCE"
  <2>1. /\ on => Calls(binder, DoStep(type))
        /\ ~on => Ignored
        /\ mSustainedPerfModeOn' = TRUE
    BY <1>3 DEF setMode
  <2>2. KeptFit(DoStep(type))'
    BY <1>2, <2>1 DEF KeptFit
  <2> QED
    BY <1>1, <1>2, <2>1, <2>2, BinderCalls, BinderIdle DEF Ignored
<1>4. CASE type = "LAUNCH" /\ mSustainedPerfModeOn
  <2>1. Ignored /\ mSustainedPerfModeOn' = mSustainedPerfModeOn
    BY <1>4 DEF setMode
  <2> QED
    BY <1>4, <2>1, BinderIdle, ThreeModes DEF Ignored
<1>5. CASE type # "SUSTAINED_PERFORMANCE" /\ ~(type = "LAUNCH" /\ mSustainedPerfModeOn)
  <2>1. /\ on => Calls(binder, DoStep(type))
        /\ ~on => Calls(binder, EndStep(type))
        /\ mSustainedPerfModeOn' = mSustainedPerfModeOn
    BY <1>5 DEF setMode, DoOrEnd
  <2>2. /\ KeptFit(DoStep(type))'
        /\ ~on => KeptFit(EndStep(type))'
    BY <1>2, <1>5 DEF KeptFit
  <2> QED
    BY <1>1, <1>2, <2>1, <2>2, BinderCalls
<1> QED
  BY <1>3, <1>4, <1>5

(* The value the looper finds for a mode that is asked for means it is on.   *)
LEMMA AskedValue ==
  ASSUME IInv, KeptInv, NEW n \in PropertyNodes, nodes_[n].values[ValueFor(n)] \in asked
  PROVE  request[nodes_[n].values[ValueFor(n)]] = Forever
<1> DEFINE mode == nodes_[n].values[ValueFor(n)]
           vs == {v \in DOMAIN nodes_[n].values :
                    \E h \in Hints : request[h] > now /\ Asks(h, n, v)}
<1>1. Parsed /\ NodesOK /\ HintTypes
  BY NodesParsed DEF IInv, HintInv
<1>2. RecordsMode(n, nodes_, actions_) /\ nodes_[n].values[DefaultOf[n]] = ""
  BY <1>1, ModesParsed
<1>3. mode \in Hints \cap KeptModes /\ mode # ""
  BY ThreeModes DEF KeptInv, AskedOK
<1>4. ValueFor(n) = IF vs = {} THEN DefaultOf[n] ELSE Min(vs)
  BY DEF ValueFor
<1>5. vs # {}
  BY <1>2, <1>3, <1>4
<1>6. ValueFor(n) \in vs
  <2>1. vs \subseteq Nat
    BY <1>1, ListProperties DEF NodesOK, PropertyNodes
  <2> HIDE DEF vs
  <2> QED
    BY <1>4, <1>5, <2>1, Least
<1>7. PICK h \in Hints : request[h] > now /\ Asks(h, n, ValueFor(n))
  BY <1>6
<1>8. h = mode
  <2>1. PICK a \in actions_[h].node_actions : a.node_index = n /\ a.value_index = ValueFor(n)
    BY <1>7 DEF Asks
  <2> QED
    BY <1>2, <2>1 DEF RecordsMode, Hints
<1>9. mode \in Recorded
  BY <1>1, ValueFits
<1>10. request[mode] \in {NoRequest, Forever}
  BY <1>3, <1>9 DEF KeptInv, CallsOK
<1>11. now \in Nat /\ ~(NoRequest > now)
  <2>1. now \in Nat
    BY <1>1, ClockBound DEF HintTypes
  <2> QED
    BY <2>1 DEF NoRequest, TimeMin
<1> QED
  BY <1>7, <1>8, <1>10, <1>11

(* Where HintManager and the flag stay, so does what is said of calls.       *)
LEMMA CallsStay ==
  ASSUME CallsOK, UNCHANGED <<configVars, enabled, request, stack, mSustainedPerfModeOn>>,
         asked' \subseteq asked
  PROVE  CallsOK' /\ \A m : Coming(m) => Coming(m)'
<1>1. Hints' = Hints /\ Recorded' = Recorded /\ Fit' = Fit /\ actions_' = actions_
  BY NodesStay DEF Fit, Steps, configVars
<1>2. \A u \in Threads : stack'[u] \in Seq(Allowed(u)')
  <2>1. \A u \in Threads : Allowed(u) \subseteq Allowed(u)'
    BY <1>1 DEF Allowed, KeptFit
  <2>2. \A S, T : S \subseteq T => \A s \in Seq(S) : s \in Seq(T)
    OBVIOUS
  <2> QED
    BY <2>1, <2>2 DEF CallsOK
<1>3. CallsOK'
  BY <1>1, <1>2 DEF CallsOK
<1> QED
  BY <1>3 DEF Coming

(* What is said of the properties then stays with them.                      *)
LEMMA AskedStays ==
  ASSUME AskedOK, UNCHANGED <<configVars, property, life, restoring>>, asked' \subseteq asked,
         \A m : Coming(m) => Coming(m)'
  PROVE  AskedOK'
<1>1. Hints' = Hints
  BY NodesStay
<1> QED
  BY <1>1 DEF AskedOK

(* The other threads' calls are about other hints.                           *)
LEMMA OtherCallKept ==
  ASSUME HintInv, CallsOK, OtherCall
  PROVE  CallsOK' /\ \A m : Coming(m) => Coming(m)'
<1>1. PICK t \in Threads \ {binder} : CallDo(t) \/ CallEnd(t)
  BY DEF OtherCall
<1>2. /\ Does[t] \subseteq Names /\ Ends[t] \subseteq Names
      /\ (Does[t] \cup Ends[t]) \cap KeptModes = {}
  BY ConstantsAssumption, OneCaller DEF ConstantsAssumption, OneCaller
<1>3. PICK step \in Elsewhere : Calls(t, step)
  <2>1. \A h \in Names \ KeptModes : DoStep(h) \in Elsewhere /\ EndStep(h) \in Elsewhere
    BY FirstSteps DEF Elsewhere, DoStep, EndStep
  <2> QED
    BY <1>1, <1>2, <2>1 DEF CallDo, CallEnd
<1>4. /\ stack' = [stack EXCEPT ![t] = <<step>>]
      /\ UNCHANGED <<configVars, request, enabled, asked, mSustainedPerfModeOn>>
  BY <1>3 DEF Calls, OtherCall, processVars, worldVars
<1>5. Hints' = Hints /\ Recorded' = Recorded
  BY <1>4, NodesStay
<1>6. stack'[t] = <<step>> /\ \A u \in Threads \ {t} : stack'[u] = stack[u]
  BY <1>4 DEF HintInv, StepsOK
<1>7. \A u \in Threads : stack'[u] \in Seq(Allowed(u)')
  <2>1. \A u \in Threads : Allowed(u)' = Allowed(u)
    BY <1>4, AllowedStays
  <2>2. step \in Allowed(t)
    BY <1>3, ElsewhereAllowed
  <2>3. stack'[t] \in Seq(Allowed(t))
    BY <1>6, <2>2
  <2> QED
    BY <1>6, <2>1, <2>3 DEF CallsOK
<1>8. CallsOK'
  BY <1>4, <1>5, <1>7 DEF CallsOK
<1>9. stack'[binder] = stack[binder] /\ request' = request
  BY <1>1, <1>4, <1>6, PowerAssumption DEF PowerAssumption
<1> QED
  BY <1>8, <1>9 DEF Coming

(* A process that is gone has nothing on.                                    *)
LEMMA DeathKept ==
  ASSUME HintInv, AskedOK, Lost, life' = "down", restoring' = 1, UNCHANGED <<property, asked>>
  PROVE  CallsOK' /\ AskedOK'
<1>1. UNCHANGED configVars
  BY DEF Lost
<1>2. Hints' = Hints /\ Recorded' = Recorded
  BY <1>1, NodesStay
<1>3. NoRequest # Forever
  BY ClockBound DEF NoRequest, Forever, TimeMin
<1>4. /\ \A h \in Hints : enabled'[h] /\ request'[h] = NoRequest
      /\ \A u \in Threads : stack'[u] = <<>>
  BY DEF Lost, Everywhere
<1>5. \A S : <<>> \in Seq(S)
  OBVIOUS
<1>6. CallsOK'
  BY <1>2, <1>3, <1>4, <1>5 DEF CallsOK
<1>7. AskedOK'
  BY <1>2 DEF AskedOK
<1> QED
  BY <1>6, <1>7

(* The constructor turns on what the properties say.                         *)
LEMMA RestoreKept ==
  ASSUME KInv, Restore
  PROVE  CallsOK' /\ AskedOK'
<1> DEFINE r == Restored[restoring]
           on == property[r.property] = r.mode
<1>1. /\ life = "starting" /\ restoring \in DOMAIN Restored /\ restoring' = restoring + 1
      /\ UNCHANGED <<life, property, asked>>
      /\ stack[binder] = <<>>
      /\ on => /\ Calls(binder, DoStep(r.mode))
               /\ mSustainedPerfModeOn' = (mSustainedPerfModeOn \/ r.property = StateProp)
      /\ ~on => UNCHANGED <<hintVars, mSustainedPerfModeOn>>
  BY DEF Restore, Calls, worldVars
<1>2. /\ HintInv /\ CallsOK /\ AskedOK
  BY DEF KInv, KeptInv, IInv
<1>3. /\ restoring \in 1 .. 3 /\ r.property \in Properties /\ r.mode = ModeOf[r.property]
      /\ r.mode = "SUSTAINED_PERFORMANCE" <=> r.property = StateProp
  BY <1>1, ThreeModes
<1>4. r.mode \in Names
  BY <1>1, PowerAssumption DEF PowerAssumption
<1>5. CASE on
  <2>1. DoStep(r.mode) \in Fit
    BY <1>4, FirstSteps
  <2>2. DoStep(r.mode).hint = r.mode /\ DoStep(r.mode).op = "do" /\ DoStep(r.mode).overrides = {}
    BY DEF DoStep
  <2>3. mSustainedPerfModeOn' = (mSustainedPerfModeOn \/ r.property = StateProp)
    BY <1>1, <1>5
  <2>4. PICK step \in Fit : /\ step = DoStep(r.mode) /\ step.hint = r.mode /\ step.op = "do"
                            /\ step.overrides = {}
    BY <2>1, <2>2
  <2>5. KeptFit(step)'
    BY <1>3, <2>3, <2>4 DEF KeptFit
  <2>6. /\ CallsOK' /\ \A m : Coming(m) => Coming(m)'
        /\ Coming(step.hint)'
    BY <1>1, <1>2, <1>5, <2>3, <2>4, <2>5, BinderCalls
  <2>7. UNCHANGED configVars
    BY <1>1, <1>5 DEF Calls
  <2>8. Hints' = Hints
    BY <2>7, NodesStay
  <2>9. \A i \in 1 .. restoring' - 1 :
          property[Restored[i].property] \in asked => Coming(property[Restored[i].property])'
    <3> SUFFICES ASSUME NEW i \in 1 .. restoring' - 1, property[Restored[i].property] \in asked
                 PROVE  Coming(property[Restored[i].property])'
      OBVIOUS
    <3> DEFINE p == property[Restored[i].property]
    <3>1. CASE i = restoring
      <4>1. property'[Restored[i].property] = step.hint
        BY <1>1, <1>5, <2>4, <3>1
      <4> QED
        BY <2>6, <4>1 DEF Coming
    <3>2. CASE i # restoring
      <4>1. i \in 1 .. restoring - 1
        BY <1>1, <1>3, <3>2
      <4>2. Coming(p)
        BY <1>1, <1>2, <4>1 DEF AskedOK
      <4> QED
        BY <2>6, <4>2, <1>1 DEF Coming
    <3> QED
      BY <3>1, <3>2
  <2>10. AskedOK'
    BY <1>1, <1>2, <2>8, <2>9 DEF AskedOK
  <2> QED
    BY <2>6, <2>10
<1>6. CASE ~on
  <2>1. CallsOK' /\ \A m : Coming(m) => Coming(m)'
    BY <1>1, <1>2, <1>6, BinderIdle
  <2>2. Hints' = Hints /\ UNCHANGED <<request, stack>>
    BY <1>1, <1>6, NodesStay DEF hintVars
  <2>3. property[r.property] \notin asked
    BY <1>2, <1>3, <1>6, ThreeModes DEF AskedOK
  <2>4. \A i \in 1 .. restoring' - 1 :
          property[Restored[i].property] \in asked => Coming(property[Restored[i].property])
    <3>1. \A i \in 1 .. restoring' - 1 : i = restoring \/ i \in 1 .. restoring - 1
      BY <1>1, <1>3
    <3> QED
      BY <1>1, <1>2, <2>3, <3>1 DEF AskedOK
  <2>5. AskedOK'
    BY <1>1, <1>2, <2>2, <2>4 DEF AskedOK, Coming
  <2> QED
    BY <2>1, <2>5
<1> QED
  BY <1>5, <1>6

(* A request of the framework leaves every mode that is on, or coming.       *)
LEMMA PowerCallKept ==
  ASSUME KInv, PowerCall
  PROVE  CallsOK' /\ AskedOK'
<1>1. /\ HintInv /\ CallsOK /\ AskedOK /\ asked \subseteq Recorded
      /\ life = "up" /\ stack[binder] = <<>>
      /\ UNCHANGED <<life, restoring, property>>
  BY DEF KInv, KeptInv, IInv, TypeOK, PowerCall, Free
<1>2. Hints \subseteq Names /\ "" \notin Hints
  BY HintsParsed DEF HintInv, HintsOK, KInv, IInv
<1>3. Hints' = Hints
  <2>1. HintNext
    BY ServiceCalls DEF KInv, Next
  <2> QED
    BY <2>1, ConfigStays, NodesStay
<1>4. /\ CallsOK' /\ \A m : Coming(m) => Coming(m)'
      /\ asked' \subseteq Hints \cap KeptModes
      /\ \A m \in asked' \ asked : Coming(m)'
  <2>1. CASE \E type \in Modes \cap Hints, on \in BOOLEAN :
               /\ setMode(type, on)
               /\ asked' = IF on THEN asked \cup ({type} \cap Recorded) ELSE asked \ {type}
    <3>1. PICK type \in Modes \cap Hints, on \in BOOLEAN :
            /\ setMode(type, on)
            /\ asked' = IF on THEN asked \cup ({type} \cap Recorded) ELSE asked \ {type}
      BY <2>1
    <3>2. /\ CallsOK' /\ \A m : Coming(m) => Coming(m)'
          /\ on /\ type \in KeptModes => Coming(type)'
      BY <1>1, <1>2, <3>1, ModeCalled
    <3>3. type \in Recorded => type \in KeptModes
      BY <1>1, <1>2, <3>1, ModesLast DEF HintInv
    <3>4. asked' \subseteq Hints \cap KeptModes
      BY <1>1, <3>1, <3>3 DEF AskedOK
    <3>5. \A m \in asked' \ asked : m = type /\ on /\ type \in KeptModes
      BY <3>1, <3>3
    <3> QED
      BY <3>2, <3>4, <3>5
  <2>2. CASE /\ UNCHANGED <<mSustainedPerfModeOn, asked>>
             /\ \/ \E type \in Boosts \cap Hints : setBoost(type)
                \/ \E name \in ExtNames \cap Hints : Boost(name)
    <3>1. (Boosts \cup ExtNames) \cap KeptModes = {}
      BY OneCaller DEF OneCaller
    <3>2. CallsOK' /\ \A m : Coming(m) => Coming(m)'
      BY <1>1, <1>2, <2>2, <3>1, OthersCalled
    <3> QED
      BY <1>1, <2>2, <3>2 DEF AskedOK
  <2> QED
    BY <2>1, <2>2 DEF PowerCall
<1>5. \A m \in asked' : (m \in asked => Coming(m)) => Coming(m)'
  BY <1>4
<1>6. \A i \in 1 .. restoring - 1 :
        property[Restored[i].property] \in asked' => Coming(property[Restored[i].property])'
  <2> SUFFICES ASSUME NEW i \in 1 .. restoring - 1, property[Restored[i].property] \in asked'
               PROVE  Coming(property[Restored[i].property])'
    OBVIOUS
  <2> DEFINE m == property[Restored[i].property]
  <2>1. m' = m
    BY <1>1
  <2>2. m \in asked => Coming(m)
    BY <1>1 DEF AskedOK
  <2>3. m \in asked'
    OBVIOUS
  <2> HIDE DEF m
  <2>4. \A k \in asked' : k = m => Coming(k)'
    BY <1>5, <2>2
  <2>5. PICK k \in asked' : k = m
    BY <2>3
  <2>6. Coming(k)'
    BY <2>4, <2>5
  <2>7. Coming(k)' => Coming(property[Restored[i].property])'
    BY <2>5, <2>1 DEF m, Coming
  <2> QED
    BY <2>6, <2>7
<1> QED
  BY <1>1, <1>3, <1>4, <1>6 DEF AskedOK, Coming

(* The looper records only what is on.                                       *)
LEMMA UpdateKept ==
  ASSUME KInv, NEW n \in PropertyNodes, Update(n)
  PROVE  CallsOK' /\ AskedOK'
<1> DEFINE path == nodes_[n].path
           mode == nodes_[n].values[ValueFor(n)]
<1>1. /\ IInv /\ KeptInv /\ CallsOK /\ AskedOK /\ Parsed /\ NodesOK
      /\ property \in [Properties -> {""} \cup Recorded]
  BY NodesParsed DEF KInv, KeptInv, IInv, HintInv, TypeOK
<1>2. /\ UNCHANGED <<hintVars, life, restoring, mSustainedPerfModeOn, asked>>
      /\ property' = [property EXCEPT ![path] = mode]
  BY DEF Update
<1>3. UNCHANGED <<configVars, enabled, request, stack>> /\ Hints' = Hints
  BY <1>2, NodesStay DEF hintVars
<1>4. CallsOK'
  BY <1>1, <1>2, <1>3, CallsStay
<1>5. /\ \A p \in Properties : property'[p] = IF p = path THEN mode ELSE property[p]
      /\ mode \in {"", ModeOf[path]}
  <2>1. RecordsMode(n, nodes_, actions_)
    BY <1>1, ModesParsed
  <2>2. mode \in Range(nodes_[n].values)
    <3>1. ValueFor(n) \in DOMAIN nodes_[n].values
      BY <1>1, ValueFits
    <3> QED
      BY <3>1 DEF Range
  <2> QED
    BY <1>1, <1>2, <2>1, <2>2 DEF RecordsMode
<1>6. mode \in asked => Coming(mode)
  BY <1>1, AskedValue DEF Coming
<1>7. restoring \in 1 .. 4
  <2>1. restoring \in 1 .. Len(Restored) + 1
    BY DEF KInv, IInv, TypeOK
  <2> QED
    BY <2>1, ThreeModes
<1>8. \A i \in 1 .. restoring - 1 : Restored[i].property \in Properties
  <2>1. \A i \in 1 .. restoring - 1 : i \in 1 .. 3
    BY <1>7
  <2> QED
    BY <2>1, ThreeModes
<1> HIDE DEF path, mode
<1>9. /\ \A p \in Properties : property'[p] \in {"", ModeOf[p]}
      /\ life # "down" =>
           \A i \in 1 .. restoring - 1 :
             property'[Restored[i].property] \in asked => Coming(property'[Restored[i].property])
  BY <1>1, <1>5, <1>6, <1>8 DEF AskedOK
<1>10. AskedOK'
  BY <1>1, <1>2, <1>3, <1>9 DEF AskedOK, Coming
<1> QED
  BY <1>4, <1>10

(* So every step keeps what is said of calls and properties.                 *)
LEMMA KeptStep ==
  ASSUME KInv, Next
  PROVE  CallsOK' /\ AskedOK'
<1>1. /\ HintInv /\ CallsOK /\ AskedOK /\ asked \subseteq Recorded
      /\ asked \subseteq Hints \cap KeptModes
  BY DEF KInv, KeptInv, IInv, TypeOK, AskedOK
<1>2. UNCHANGED configVars /\ Hints' = Hints
  <2>1. HintNext
    BY ServiceCalls DEF KInv
  <2> QED
    BY <2>1, ConfigStays, NodesStay
<1>3. ASSUME UNCHANGED <<hintVars, mSustainedPerfModeOn>>, asked' \subseteq asked
      PROVE  CallsOK' /\ UNCHANGED <<request, stack>> /\ \A m : Coming(m) => Coming(m)'
  BY <1>1, <1>3, CallsStay DEF hintVars
<1>4. CASE main \/ Serve
  <2>1. /\ UNCHANGED <<hintVars, mSustainedPerfModeOn, asked, property, restoring>>
        /\ life' # "down"
        /\ main => restoring = 1 /\ life' = "starting"
        /\ Serve => life = "starting" /\ restoring \notin DOMAIN Restored
    BY <1>1, <1>4 DEF main, Serve, AskedOK, worldVars
  <2>2. Serve => restoring = Len(Restored) + 1
    <3>1. restoring \in 1 .. Len(Restored) + 1
      BY DEF KInv, IInv, TypeOK
    <3>2. Len(Restored) = 3 /\ DOMAIN Restored = 1 .. 3
      BY ThreeModes
    <3>3. restoring \in 1 .. 4
      BY <3>1, <3>2
    <3> QED
      BY <2>1, <3>2, <3>3
  <2>3. \A i \in 1 .. restoring - 1 :
          property[Restored[i].property] \in asked => Coming(property[Restored[i].property])
    <3>1. CASE main
      BY <2>1, <3>1
    <3>2. CASE Serve
      BY <1>1, <2>1, <3>2 DEF AskedOK
    <3> QED
      BY <1>4, <3>1, <3>2
  <2>4. CallsOK' /\ UNCHANGED <<request, stack>>
    BY <1>3, <2>1
  <2>5. AskedOK'
    BY <1>1, <1>2, <1>4, <2>1, <2>2, <2>3, <2>4 DEF AskedOK, Coming
  <2> QED
    BY <2>4, <2>5
<1>5. CASE StartLooper
  <2>1. UNCHANGED <<hintVars, mSustainedPerfModeOn, asked, property, life, restoring>>
    BY <1>5 DEF StartLooper, worldVars
  <2> QED
    BY <1>1, <1>2, <1>3, <2>1, AskedStays
<1>6. CASE FrameworkDies
  <2>1. /\ UNCHANGED <<hintVars, mSustainedPerfModeOn, life, restoring>> /\ asked' = {}
        /\ property' = [p \in Properties |-> ""] \/ property' = property
    BY <1>6 DEF FrameworkDies, processVars
  <2>2. CallsOK'
    BY <1>3, <2>1
  <2>3. AskedOK'
    BY <1>1, <1>2, <2>1 DEF AskedOK
  <2> QED
    BY <2>2, <2>3
<1>7. CASE Crash \/ Kill
  <2>1. Lost /\ life' = "down" /\ restoring' = 1 /\ UNCHANGED <<property, asked>>
    BY <1>7 DEF Crash, Kill, Dies
  <2> QED
    BY <1>1, <2>1, DeathKept
<1>8. CASE OtherCall
  <2>1. UNCHANGED <<property, life, restoring, asked>>
    BY <1>8 DEF OtherCall, processVars, worldVars
  <2> QED
    BY <1>1, <1>2, <1>8, <2>1, OtherCallKept, AskedStays
<1>9. CASE HintStep
  <2>1. UNCHANGED <<property, life, restoring, asked, mSustainedPerfModeOn>>
    BY <1>9 DEF HintStep, processVars, worldVars
  <2>2. CASE \E t \in Threads : Step(t)
    <3>1. CallsOK' /\ \A m \in asked : Coming(m) => Coming(m)'
      BY <1>1, <2>1, <2>2, StepKept
    <3>2. AskedOK'
      BY <1>1, <1>2, <2>1, <3>1 DEF AskedOK
    <3> QED
      BY <3>1, <3>2
  <2>3. CASE Tick
    <3>1. CallsOK' /\ \A m : Coming(m) => Coming(m)'
      BY <1>1, <2>1, <2>3, CallsStay DEF Tick
    <3> QED
      BY <1>1, <1>2, <2>1, <3>1, AskedStays
  <2> QED
    BY <1>9, <2>2, <2>3 DEF HintStep
<1> QED
  BY <1>4, <1>5, <1>6, <1>7, <1>8, <1>9, RestoreKept, PowerCallKept, UpdateKept DEF Next

(* And what the looper takes for set is set.                                 *)
LEMMA LooperKept ==
  ASSUME KInv, Next
  PROVE  LooperOK'
<1>1. /\ LooperOK /\ Parsed /\ NodesOK
      /\ DOMAIN current_val_index_ = PropertyNodes
      /\ property \in [Properties -> {""} \cup Recorded]
  BY NodesParsed DEF KInv, KeptInv, IInv, HintInv, TypeOK
<1>2. /\ UNCHANGED configVars /\ PropertyNodes' = PropertyNodes /\ DefaultOf' = DefaultOf
      /\ nodes_' = nodes_
  <2>1. HintNext
    BY ServiceCalls DEF KInv
  <2> QED
    BY <2>1, ConfigStays, NodesStay
<1>3. ASSUME UNCHANGED <<written, killing, property, current_val_index_>>
      PROVE  LooperOK'
  BY <1>1, <1>2, <1>3 DEF LooperOK
<1>4. CASE main \/ Restore \/ Serve \/ StartLooper \/ PowerCall \/ OtherCall \/ HintStep
  <2>1. UNCHANGED <<written, killing, property, current_val_index_>>
    BY <1>4
    DEF main, Restore, Serve, StartLooper, PowerCall, OtherCall, HintStep, processVars, worldVars
  <2> QED
    BY <1>3, <2>1
<1>5. CASE Crash \/ Kill
  <2>1. written' = {} /\ current_val_index_' = DefaultOf
    BY <1>5 DEF Crash, Kill, Dies
  <2> QED
    BY <1>2, <2>1 DEF LooperOK
<1>6. CASE FrameworkDies
  <2>1. /\ UNCHANGED <<written, current_val_index_>>
        /\ killing' \/ UNCHANGED <<property, killing>>
    BY <1>6 DEF FrameworkDies, processVars
  <2>2. CASE UNCHANGED <<property, killing>>
    BY <1>3, <2>1, <2>2
  <2>3. CASE killing'
    BY <1>1, <1>2, <2>1, <2>3 DEF LooperOK
  <2> QED
    BY <2>1, <2>2, <2>3
<1>7. ASSUME NEW n \in PropertyNodes, Update(n)
      PROVE  LooperOK'
  <2> DEFINE value == nodes_[n].values[ValueFor(n)]
  <2>1. /\ current_val_index_' = [current_val_index_ EXCEPT ![n] = ValueFor(n)]
        /\ property' = [property EXCEPT ![nodes_[n].path] = value]
        /\ written' = written \cup {n} /\ killing' = killing
    BY <1>7 DEF Update
  <2>2. /\ nodes_[n].path \in Properties
        /\ \A m \in PropertyNodes : nodes_[m].path = nodes_[n].path => m = n
    BY <1>1, ModesParsed DEF RecordsMode
  <2>3. /\ current_val_index_'[n] = ValueFor(n) /\ property'[nodes_[n].path] = value
        /\ \A m \in PropertyNodes \ {n} :
             /\ current_val_index_'[m] = current_val_index_[m]
             /\ m \in written' <=> m \in written
    BY <1>1, <2>1, <2>2
  <2>4. \A m \in PropertyNodes \ {n} : property'[nodes_[m].path] = property[nodes_[m].path]
    <3>1. \A m \in PropertyNodes : nodes_[m].path \in Properties
      BY <1>1, ModesParsed DEF RecordsMode
    <3> QED
      BY <1>1, <2>1, <2>2, <3>1
  <2>5. n \in written'
    BY <2>1
  <2> SUFFICES ASSUME NEW m \in PropertyNodes
               PROVE  /\ m \in written' /\ ~killing =>
                           property'[nodes_[m].path]
                             = nodes_[m].values[current_val_index_'[m]]
                      /\ m \notin written' => current_val_index_'[m] = DefaultOf[m]
    BY <1>2, <2>1 DEF LooperOK
  <2>6. CASE m = n
    BY <2>3, <2>5, <2>6
  <2>7. CASE m # n
    <3>1. /\ m \in written /\ ~killing =>
              property[nodes_[m].path] = nodes_[m].values[current_val_index_[m]]
          /\ m \notin written => current_val_index_[m] = DefaultOf[m]
      BY <1>1 DEF LooperOK
    <3>2. /\ current_val_index_'[m] = current_val_index_[m]
          /\ m \in written' <=> m \in written
          /\ property'[nodes_[m].path] = property[nodes_[m].path]
      BY <2>3, <2>4, <2>7
    <3> QED
      BY <3>1, <3>2
  <2> QED
    BY <2>6, <2>7
<1> QED
  BY <1>4, <1>5, <1>6, <1>7 DEF Next

(* At first nothing is on.                                                   *)
LEMMA KeptInit == PowerInit => KInv
<1> SUFFICES ASSUME PowerInit
             PROVE  KInv
  OBVIOUS
<1>1. IInv
  BY InitOK
<1>2. NoRequest # Forever
  BY ClockBound DEF NoRequest, Forever, TimeMin
<1>3. /\ \A h \in Hints : enabled[h] /\ request[h] = NoRequest
      /\ \A u \in Threads : stack[u] = <<>>
  BY DEF PowerInit, Init, Everywhere
<1>4. \A S : <<>> \in Seq(S)
  OBVIOUS
<1>5. CallsOK
  BY <1>2, <1>3, <1>4 DEF CallsOK
<1>6. AskedOK
  BY DEF PowerInit, AskedOK
<1>7. LooperOK
  BY DEF PowerInit, LooperOK
<1> QED
  BY <1>1, <1>5, <1>6, <1>7 DEF KInv, KeptInv

(* The invariant says what becomes of the modes.                             *)
LEMMA KeptSays == KInv => ModesSurvive
<1> SUFFICES ASSUME KInv, Free, ~killing
             PROVE  ModesSurvive
  BY DEF ModesSurvive
<1>1. CallsOK /\ AskedOK /\ LooperOK
  BY DEF KInv, KeptInv
<1>2. life = "up" /\ stack[binder] = <<>>
  BY DEF Free
<1>3. ASSUME NEW p \in Properties, property[p] \in asked
      PROVE  request[property[p]] = Forever
  <2>1. PICK i \in 1 .. 3 : Restored[i].property = p
    BY ThreeModes
  <2>2. i \in 1 .. restoring - 1
    <3>1. restoring = Len(Restored) + 1
      BY <1>1, <1>2 DEF AskedOK
    <3>2. restoring = 4
      BY <3>1, ThreeModes
    <3> QED
      BY <3>2
  <2>3. Coming(property[p])
    BY <1>1, <1>2, <1>3, <2>1, <2>2 DEF AskedOK
  <2> QED
    BY <1>2, <2>3 DEF Coming
<1>4. ASSUME NEW n \in PropertyNodes, current_val_index_[n] = ValueFor(n)
      PROVE  \/ property[nodes_[n].path] = nodes_[n].values[ValueFor(n)]
             \/ n \notin written /\ ValueFor(n) = DefaultOf[n]
  BY <1>1, <1>4 DEF LooperOK
<1>5. "SUSTAINED_PERFORMANCE" \in Hints /\ request["SUSTAINED_PERFORMANCE"] = Forever
        => mSustainedPerfModeOn
  BY <1>1 DEF CallsOK
<1> QED
  BY <1>3, <1>4, <1>5 DEF ModesSurvive

(* A mode that the framework has on and that a property names is on whenever *)
(* the service is up and between two calls, through any number of deaths of  *)
(* the process and the framework, at any moment; a property is as the looper *)
(* believes it to be; boosts stay out while sustained performance is on.     *)
(* (Power::Power, PropertyNode::Update)                                      *)
THEOREM ModesKept == Spec => []ModesSurvive
<1>1. KInv /\ [Next]_vars => KInv'
  <2> SUFFICES ASSUME KInv, [Next]_vars
               PROVE  KInv'
    OBVIOUS
  <2>1. IInv'
    BY StepOK DEF KInv
  <2>2. CASE Next
    BY <2>1, <2>2, KeptStep, LooperKept DEF KInv, KeptInv
  <2>3. CASE UNCHANGED vars
    <3>1. UNCHANGED <<hintVars, mSustainedPerfModeOn, asked, property, life, restoring, written,
                      killing, current_val_index_>>
      BY <2>3 DEF vars, processVars, worldVars
    <3>2. UNCHANGED <<configVars, enabled, request, stack>>
      BY <3>1 DEF hintVars
    <3>3. CallsOK' /\ AskedOK'
      BY <3>1, <3>2, CallsStay, AskedStays DEF KInv, KeptInv
    <3>4. LooperOK'
      BY <3>1, <3>2, NodesStay DEF LooperOK, KInv, KeptInv
    <3> QED
      BY <2>1, <3>3, <3>4 DEF KInv, KeptInv
  <2> QED
    BY <2>2, <2>3
<1> QED
  BY <1>1, KeptInit, KeptSays, PTL DEF Spec

-----------------------------------------------------------------------------
(* Flags and statistics.                                                     *)


(* What thread t may still have to do: with what its calls lead to; to mask  *)
(* what these mask; to end what is ended by somebody; and, where callers do  *)
(* not override a hint's timeout, to ask for its own.                        *)
Right(t) ==
  LET led == Led(CalledBy(t), actions_)
  IN  {x \in Fit :
         /\ IF x.op \in {"mask", "unmask"}
            THEN \E m \in Hints \cap led : Masks(m, x.hint)
            ELSE x.hint \in led
         /\ x.op \in {"end", "cancel", "endStatus"} => x.hint \in Ended
         /\ x.op = "do" => x.overrides \subseteq Overrides[x.hint]
         /\ x.op = "request" /\ Overrides[x.hint] = {} =>
              x.timeouts = Timeouts(actions_[x.hint].node_actions)
         /\ x.op = "doStatus" /\ Overrides[x.hint] = {} =>
              x.timeout_ms = actions_[x.hint].max_timeout}

(* Threads keep to it.                                                       *)
RightOK == \A t \in Threads : stack[t] \in Seq(Right(t))

(* A step about hint h, not about its flag.                                  *)
On(x, h) == x.hint = h /\ x.op \notin {"mask", "unmask"}

(* A step about m or the flag of h, which m masks.                           *)
Concerns(x, m, h) == On(x, m) \/ (x.hint = h /\ x.op \in {"mask", "unmask"})

(* What InteractionHandler's lock keeps apart.                               *)
LockOK ==
  \A t, u \in Threads : \A i \in DOMAIN stack[t], j \in DOMAIN stack[u] :
    On(stack[t][i], "INTERACTION") /\ On(stack[u][j], "INTERACTION") => t = u

(* A request is followed by its status, a cancellation as well.              *)
PairsOK ==
  \A t \in Threads : \A i \in DOMAIN stack[t] :
    /\ stack[t][i].op = "request" =>
         /\ i + 1 \in DOMAIN stack[t]
         /\ stack[t][i + 1].op = "doStatus" /\ stack[t][i + 1].hint = stack[t][i].hint
    /\ stack[t][i].op = "endStatus" =>
         IF i = 1 THEN request[stack[t][i].hint] = NoRequest
         ELSE stack[t][i - 1].op = "cancel" /\ stack[t][i - 1].hint = stack[t][i].hint

(* The statistics of hint h cover its request, or soon will; and no span of  *)
(* a hint that is not ended is counted twice.                                *)
CoveredOK(h) ==
  Overrides[h] = {} =>
    /\ request[h] <= EndsAt(actions_[h].max_timeout)
    /\ \/ request[h] <= end_time[h]
       \/ \E t \in Threads : \E i \in DOMAIN stack[t] :
            stack[t][i].op = "doStatus" /\ stack[t][i].hint = h
CountedOK(h) ==
  h \notin Ended =>
    \/ start_time[h] = TimeMin /\ end_time[h] = TimeMin /\ duration_ms[h] = 0
    \/ start_time[h] \in Nat /\ duration_ms[h] <= start_time[h]
StatusOK == \A h \in Hints : CoveredOK(h) /\ CountedOK(h)

(* Of a list s of steps, and whether m is done (d): at i m becomes done (b)  *)
(* or ended (~b), and is so at 0; at j the flag of h follows; nothing        *)
(* between them concerns the two.                                            *)
Marks(s, i, d, m, b) ==
  IF i = 0 THEN d = b
  ELSE s[i].hint = m /\ s[i].op = IF b THEN "doStatus" ELSE "endStatus"
Settles(s, j, h, b) == s[j].hint = h /\ s[j].op = IF b THEN "mask" ELSE "unmask"
Calm(x, m, h, b) ==
  /\ x.op \in {"do", "end"} => m \notin Led({x.hint}, actions_)
  /\ x.op \in {"doStatus", "endStatus"} => x.hint # m
  /\ x.hint = h => x.op # IF b THEN "unmask" ELSE "mask"
Between(s, i, j, m, h, b) == \A k \in i + 1 .. j - 1 : Calm(s[k], m, h, b)

(* The flag of h is never set but after m, and always after it.              *)
Held(s, d, m, h) ==
  \A b \in BOOLEAN :
    /\ \A j \in DOMAIN s : Settles(s, j, h, b) =>
         \E i \in 0 .. j - 1 : Marks(s, i, d, m, b) /\ Between(s, i, j, m, h, b)
    /\ \A i \in DOMAIN s : Marks(s, i, d, m, b) =>
         \E j \in DOMAIN s : i < j /\ Settles(s, j, h, b) /\ Between(s, i, j, m, h, b)

(* The flag of h has still to be set, as m is done or ended.                 *)
Owed(s, d, m, h) == \E j \in DOMAIN s : Settles(s, j, h, d) /\ Between(s, 0, j, m, h, d)

(* The flag of h is clear while m, which masks it, is done, or will be.      *)
MaskOK(m, h) ==
  /\ \A t \in Threads : Held(stack[t], done[m], m, h)
  /\ enabled[h] = done[m] => \E t \in Threads : Owed(stack[t], done[m], m, h)
MasksOK ==
  \A h \in Hints :
    /\ enabled[h] \/ \E m \in Hints : Masks(m, h)
    /\ \A m \in Hints : Masks(m, h) => MaskOK(m, h)

(* The inductive invariant, beside PowerProofs'.                             *)
WriteInv == RightOK /\ LockOK /\ PairsOK /\ StatusOK /\ MasksOK

WInv == IInv /\ WriteInv

-----------------------------------------------------------------------------
(* What calls lead to.                                                       *)

(* Calls lead to what they name, and on to the targets of what they lead to. *)
LEMMA LedHas ==
  ASSUME NEW S, NEW hints
  PROVE  /\ S \cap Names \subseteq Led(S, hints) /\ Led(S, hints) \subseteq Names
         /\ \A h \in Led(S, hints) \cap DOMAIN hints :
              Targets(hints[h]) \cap Names \subseteq Led(S, hints)
BY DEF Led

(* Calls of what others lead to lead no further.                             *)
LEMMA LedOn ==
  ASSUME NEW S, NEW hints, NEW R, R \subseteq Led(S, hints)
  PROVE  Led(R, hints) \subseteq Led(S, hints)
<1> SUFFICES ASSUME NEW x \in Led(R, hints), NEW T \in SUBSET Names, S \subseteq T,
                    \A h \in T \cap DOMAIN hints : Targets(hints[h]) \subseteq T
             PROVE  x \in T
  BY DEF Led
<1>1. R \subseteq T
  BY DEF Led
<1> QED
  BY <1>1 DEF Led

(* What the writers of flags and statistics keep to.                         *)
LEMMA Writers ==
  ASSUME Parsed
  PROVE  OneWriter(actions_)
BY WritersAssumption DEF WritersAssumption, Parsed

(* A hint masks what one of its actions does.                                *)
LEMMA MasksMasked ==
  ASSUME Parsed, NEW m \in Hints, NEW h
  PROVE  Masks(m, h) <=> h \in Masked(actions_[m])
<1> DEFINE as == actions_[m].hint_actions
<1>1. as \in Seq(HintActions)
  BY HintsParsed DEF HintsOK
<1>2. \A i \in DOMAIN as : as[i] = [type |-> "MaskHint", value |-> h]
                             <=> as[i].type \in {"MaskHint"} /\ as[i].value = h
  <2>1. \A a \in HintActions : a = [type |-> "MaskHint", value |-> h]
                                 <=> a.type \in {"MaskHint"} /\ a.value = h
    BY DEF HintActions
  <2> QED
    BY <1>1, <2>1
<1> QED
  BY <1>2 DEF Masks, Masked, ValuesOf

(* One hint masks another, and does not come back to itself.                 *)
LEMMA OneMasker ==
  ASSUME Parsed, NEW m \in Hints, NEW h, Masks(m, h)
  PROVE  /\ \A k \in Hints : Masks(k, h) => k = m
         /\ m \notin Led(Targets(actions_[m]), actions_)
         /\ m # "INTERACTION"
         /\ \A t, u \in Threads :
              m \in Led(CalledBy(t), actions_) \cap Led(CalledBy(u), actions_) => t = u
<1>1. OneWriter(actions_) /\ h \in Masked(actions_[m]) /\ m \in DOMAIN actions_
  BY Writers, MasksMasked DEF Hints
<1>2. \A k \in Hints : Masks(k, h) => k = m
  BY <1>1, MasksMasked DEF OneWriter, Hints
<1>3. m # "INTERACTION"
  <2>1. actions_[m].hint_actions # <<>>
    BY DEF Masks
  <2> QED
    BY <1>1, <2>1 DEF OneWriter
<1>4. m \notin Led(Targets(actions_[m]), actions_)
  BY <1>1 DEF OneWriter
<1>5. \A t, u \in Threads :
        m \in Led(CalledBy(t), actions_) \cap Led(CalledBy(u), actions_) => t = u
  BY <1>1 DEF OneWriter
<1> QED
  BY <1>2, <1>3, <1>4, <1>5

(* What is ended by somebody is called by one thread, but for INTERACTION.   *)
LEMMA OneEnder ==
  ASSUME Parsed, NEW h \in Hints \cap Ended, h # "INTERACTION",
         NEW t \in Threads, NEW u \in Threads,
         h \in Led(CalledBy(t), actions_) \cap Led(CalledBy(u), actions_)
  PROVE  t = u
BY Writers DEF OneWriter, Hints

-----------------------------------------------------------------------------
(* What a step puts on the stack.                                            *)

(* The steps that take the place of the one on top.                          *)
New(t) ==
  LET h == Top(t).hint
  IN  IF Top(t).op = "do" /\ h \in Hints /\ enabled[h]
      THEN <<Requested(t), Counted(t)>> \o DoHintAction(h)
      ELSE IF Top(t).op = "end" /\ h \in Hints
      THEN <<[op |-> "cancel", hint |-> h], [op |-> "endStatus", hint |-> h]>> \o EndHintAction(h)
      ELSE <<>>

(* Each step is the one on top, and puts these.                              *)
LEMMA NewPut ==
  ASSUME NEW t \in Threads, Step(t)
  PROVE  /\ stack[t] # <<>> /\ Puts(t, New(t))
         /\ DoHint(t) <=> Top(t).op = "do"
         /\ Request(t) <=> Top(t).op = "request"
         /\ DoHintStatus(t) <=> Top(t).op = "doStatus"
         /\ Mask(t) <=> Top(t).op = "mask"
         /\ EndHint(t) <=> Top(t).op = "end"
         /\ Cancel(t) <=> Top(t).op = "cancel"
         /\ EndHintStatus(t) <=> Top(t).op = "endStatus"
         /\ Unmasked(t) <=> Top(t).op = "unmask"
<1>1. /\ stack[t] # <<>>
      /\ DoHint(t) => Top(t).op = "do"
      /\ Request(t) => Top(t).op = "request"
      /\ DoHintStatus(t) => Top(t).op = "doStatus"
      /\ Mask(t) => Top(t).op = "mask"
      /\ EndHint(t) => Top(t).op = "end"
      /\ Cancel(t) => Top(t).op = "cancel"
      /\ EndHintStatus(t) => Top(t).op = "endStatus"
      /\ Unmasked(t) => Top(t).op = "unmask"
  BY DEF Step, DoHint, Request, DoHintStatus, Mask, EndHint, Cancel, EndHintStatus, Unmasked,
         Takes
<1>2. DoHint(t) => Puts(t, New(t))
  BY <1>1, DoHintPuts DEF New
<1>3. EndHint(t) => Puts(t, New(t))
  BY <1>1 DEF EndHint, New
<1>4. ASSUME ~DoHint(t) /\ ~EndHint(t)
      PROVE  Puts(t, New(t))
  <2>1. Puts(t, <<>>)
    BY <1>4 DEF Step, Request, DoHintStatus, Mask, Cancel, EndHintStatus, Unmasked
  <2>2. Top(t).op \in {"request", "doStatus", "mask", "cancel", "endStatus", "unmask"}
    BY <1>1, <1>4 DEF Step
  <2>3. Top(t).op # "do" /\ Top(t).op # "end"
    BY <2>2
  <2>4. New(t) = <<>>
    BY <2>3 DEF New
  <2> QED
    BY <2>1, <2>4
<1>5. Puts(t, New(t))
  BY <1>2, <1>3, <1>4
<1> QED
  BY <1>1, <1>5 DEF Step

(* Hint actions do, end and mask what the document says.                     *)
LEMMA ActionsAre ==
  ASSUME Parsed, NEW h \in Hints
  PROVE  /\ DoHintAction(h) \in Seq(Fit) /\ EndHintAction(h) \in Seq(Fit)
         /\ \A i \in DOMAIN DoHintAction(h) :
              LET x == DoHintAction(h)[i]
              IN  \/ /\ x.op = "do" /\ x.overrides = {}
                     /\ x.hint \in Targets(actions_[h]) \cap Names
                  \/ x.op = "end" /\ x.hint \in Targets(actions_[h]) \cap Names \cap Ended
                  \/ x.op = "mask" /\ Masks(h, x.hint)
         /\ \A i \in DOMAIN EndHintAction(h) :
              EndHintAction(h)[i].op = "unmask" /\ Masks(h, EndHintAction(h)[i].hint)
         /\ \A k : Masks(h, k) =>
              /\ \E i \in DOMAIN DoHintAction(h) :
                   DoHintAction(h)[i].op = "mask" /\ DoHintAction(h)[i].hint = k
              /\ \E i \in DOMAIN EndHintAction(h) :
                   EndHintAction(h)[i].op = "unmask" /\ EndHintAction(h)[i].hint = k
<1> DEFINE as == actions_[h].hint_actions
           M == {i \in DOMAIN as : as[i].type = "MaskHint"}
           masks == ElementsAt(as, M)
           Given == {a \in HintActions : a.type = "MaskHint" /\ Masks(h, a.value)}
<1>1. as \in Seq(HintActions) /\ HintsOK
  BY HintsParsed DEF HintsOK
<1>2. ASSUME NEW i \in DOMAIN as
      PROVE  /\ as[i] \in HintActions /\ as[i].value \in Names /\ as[i].type \in Types
             /\ as[i].type \in {"DoHint", "EndHint"} => as[i].value \in Targets(actions_[h])
             /\ as[i].type = "EndHint" => as[i].value \in Ended
             /\ as[i].type = "MaskHint" => Masks(h, as[i].value)
  <2>1. as[i] \in HintActions /\ as[i].value \in Names /\ as[i].type \in Types
    <3>1. \A a \in HintActions : a.value \in Names /\ a.type \in Types
      BY DEF HintActions
    <3> QED
      BY <1>1, <3>1
  <2>2. as[i].type \in {"DoHint", "EndHint"} => as[i].value \in Targets(actions_[h])
    BY DEF Targets, ValuesOf
  <2>3. as[i].type = "EndHint" => as[i].value \in Ended
    <3>1. ValuesOf(actions_[h], {"EndHint"}) \subseteq Ended
      BY Writers DEF OneWriter, Hints
    <3> QED
      BY <3>1 DEF ValuesOf
  <2>4. as[i].type = "MaskHint" => Masks(h, as[i].value)
    <3>1. as[i].type = "MaskHint" => as[i].value \in Masked(actions_[h])
      BY DEF Masked, ValuesOf
    <3> QED
      BY <3>1, MasksMasked
  <2> QED
    BY <2>1, <2>2, <2>3, <2>4
<1>3. IsList(as)
  <2>1. \A i \in DOMAIN as : as[i] \in Range(as)
    BY DEF Range
  <2> QED
    BY <1>1, <2>1 DEF IsList
<1>4. /\ masks \in Seq(Given)
      /\ \A i \in M : \E j \in DOMAIN masks : masks[j] = as[i]
  <2>1. \A i \in M \cap DOMAIN as : as[i] \in Given
    BY <1>2
  <2>2. M \cap DOMAIN as = M
    OBVIOUS
  <2> HIDE DEF M, as, Given
  <2> QED
    BY <1>3, <2>1, <2>2, Taken
<1>5. ASSUME NEW k, Masks(h, k)
      PROVE  \E i \in M : as[i].value = k
  BY <1>5 DEF Masks
<1>6. \A i \in DOMAIN DoHintAction(h) : i \in DOMAIN as /\ DoHintAction(h)[i] = ActionStep(as[i])
  BY DEF DoHintAction
<1>7. \A i \in DOMAIN as : i \in DOMAIN DoHintAction(h)
  BY DEF DoHintAction
<1>8. \A i \in DOMAIN EndHintAction(h) :
        i \in DOMAIN masks /\ EndHintAction(h)[i] = [op |-> "unmask", hint |-> masks[i].value]
  BY DEF EndHintAction
<1>9. \A i \in DOMAIN masks : i \in DOMAIN EndHintAction(h)
  BY DEF EndHintAction
<1>10. \A a : /\ a.type = "DoHint" => ActionStep(a) = DoStep(a.value)
              /\ a.type = "EndHint" => ActionStep(a) = EndStep(a.value)
              /\ a.type = "MaskHint" => ActionStep(a) = [op |-> "mask", hint |-> a.value]
  BY DEF ActionStep
<1>11. \A i \in DOMAIN masks : masks[i].type = "MaskHint" /\ Masks(h, masks[i].value)
  <2>1. \A a \in Given : a.type = "MaskHint" /\ Masks(h, a.value)
    OBVIOUS
  <2> HIDE DEF Given, masks
  <2> QED
    BY <1>4, <2>1
<1>12. DoHintAction(h) \in Seq(Fit) /\ EndHintAction(h) \in Seq(Fit)
  BY <1>1, ActionsFit
<1>13. ASSUME NEW i \in DOMAIN DoHintAction(h)
       PROVE  LET x == DoHintAction(h)[i]
              IN  \/ /\ x.op = "do" /\ x.overrides = {}
                     /\ x.hint \in Targets(actions_[h]) \cap Names
                  \/ x.op = "end" /\ x.hint \in Targets(actions_[h]) \cap Names \cap Ended
                  \/ x.op = "mask" /\ Masks(h, x.hint)
  <2> DEFINE a == as[i]
             x == DoHintAction(h)[i]
  <2>1. /\ a.type \in {"DoHint", "EndHint", "MaskHint"} /\ a.value \in Names
        /\ a.type \in {"DoHint", "EndHint"} => a.value \in Targets(actions_[h])
        /\ a.type = "EndHint" => a.value \in Ended
        /\ a.type = "MaskHint" => Masks(h, a.value)
        /\ x = ActionStep(a)
    BY <1>2, <1>6 DEF Types
  <2> HIDE DEF a, x
  <2>2. CASE a.type = "DoHint"
    <3>1. x = DoStep(a.value)
      BY <1>10, <2>1, <2>2
    <3>2. x.op = "do" /\ x.overrides = {} /\ x.hint = a.value
      BY <3>1 DEF DoStep
    <3> QED
      BY <2>1, <2>2, <3>2 DEF x
  <2>3. CASE a.type = "EndHint"
    <3>1. x = EndStep(a.value)
      BY <1>10, <2>1, <2>3
    <3>2. x.op = "end" /\ x.hint = a.value
      BY <3>1 DEF EndStep
    <3> QED
      BY <2>1, <2>3, <3>2 DEF x
  <2>4. CASE a.type = "MaskHint"
    <3>1. x = [op |-> "mask", hint |-> a.value]
      BY <1>10, <2>1, <2>4
    <3>2. x.op = "mask" /\ x.hint = a.value
      BY <3>1
    <3> QED
      BY <2>1, <2>4, <3>2 DEF x
  <2> QED
    BY <2>1, <2>2, <2>3, <2>4
<1>14. ASSUME NEW k, Masks(h, k)
       PROVE  /\ \E i \in DOMAIN DoHintAction(h) :
                   DoHintAction(h)[i].op = "mask" /\ DoHintAction(h)[i].hint = k
              /\ \E i \in DOMAIN EndHintAction(h) :
                   EndHintAction(h)[i].op = "unmask" /\ EndHintAction(h)[i].hint = k
  <2>1. PICK i \in M : as[i].value = k
    BY <1>5, <1>14
  <2>2. PICK j \in DOMAIN masks : masks[j] = as[i]
    BY <1>4
  <2>3. i \in DOMAIN as /\ as[i].type = "MaskHint"
    OBVIOUS
  <2> HIDE DEF as, masks, M
  <2>4. i \in DOMAIN DoHintAction(h) /\ DoHintAction(h)[i] = ActionStep(as[i])
    BY <1>6, <1>7, <2>3
  <2>5. ActionStep(as[i]) = [op |-> "mask", hint |-> k]
    BY <1>10, <2>1, <2>3
  <2>6. DoHintAction(h)[i].op = "mask" /\ DoHintAction(h)[i].hint = k
    BY <2>4, <2>5
  <2>7. j \in DOMAIN EndHintAction(h)
        /\ EndHintAction(h)[j] = [op |-> "unmask", hint |-> masks[j].value]
    BY <1>8, <1>9, <2>2
  <2>8. EndHintAction(h)[j].op = "unmask" /\ EndHintAction(h)[j].hint = k
    BY <2>1, <2>2, <2>7
  <2> QED
    BY <2>4, <2>6, <2>7, <2>8
<1> HIDE DEF masks, as, M
<1>15. \A i \in DOMAIN EndHintAction(h) :
         EndHintAction(h)[i].op = "unmask" /\ Masks(h, EndHintAction(h)[i].hint)
  BY <1>8, <1>11
<1> QED
  BY <1>12, <1>13, <1>14, <1>15

(* Two steps, and others after them.                                         *)
LEMMA TwoFirst ==
  ASSUME NEW S, NEW a \in S, NEW b \in S, NEW s \in Seq(S)
  PROVE  LET q == <<a, b>> \o s
         IN  /\ q \in Seq(S) /\ Len(q) = Len(s) + 2
             /\ 1 \in DOMAIN q /\ 2 \in DOMAIN q /\ q[1] = a /\ q[2] = b
             /\ \A i \in DOMAIN q : i \notin {1, 2} => /\ i > 2 /\ i - 2 \in DOMAIN s
                                                       /\ q[i] = s[i - 2]
             /\ \A j \in DOMAIN s : j + 2 \in DOMAIN q /\ q[j + 2] = s[j]
<1> DEFINE q == <<a, b>> \o s
<1>1. /\ q \in Seq(S) /\ Len(q) = Len(s) + 2 /\ Len(s) \in Nat
      /\ DOMAIN q = 1 .. Len(s) + 2 /\ DOMAIN s = 1 .. Len(s) /\ q[1] = a /\ q[2] = b
  OBVIOUS
<1>2. \A i \in 3 .. Len(s) + 2 : q[i] = s[i - 2]
  OBVIOUS
<1> HIDE DEF q
<1>3. ASSUME NEW i \in DOMAIN q, i \notin {1, 2}
      PROVE  i \in 3 .. Len(s) + 2 /\ i - 2 \in 1 .. Len(s) /\ i > 2
  <2>1. i \in 1 .. Len(s) + 2 /\ i # 1 /\ i # 2
    BY <1>1, <1>3
  <2> HIDE <1>3
  <2> QED
    BY <1>1, <2>1
<1>4. \A j \in DOMAIN s : j + 2 \in 3 .. Len(s) + 2 /\ (j + 2) - 2 = j
  BY <1>1
<1>5. \A j \in DOMAIN s : j + 2 \in DOMAIN q /\ q[j + 2] = s[j]
  BY <1>1, <1>2, <1>4
<1>6. \A i \in DOMAIN q : i \notin {1, 2} => i > 2 /\ i - 2 \in DOMAIN s /\ q[i] = s[i - 2]
  BY <1>1, <1>2, <1>3
<1> QED
  BY <1>1, <1>5, <1>6 DEF q

(* The steps of DoHint: request, status and hint actions.                    *)
LEMMA NewDo ==
  ASSUME HintInv, NEW t \in Threads, stack[t] # <<>>, Top(t).op = "do", New(t) # <<>>
  PROVE  LET acts == DoHintAction(Top(t).hint)
         IN  /\ Top(t).hint \in Hints
             /\ New(t) \in Seq(Fit) /\ Len(New(t)) = Len(acts) + 2
             /\ 1 \in DOMAIN New(t) /\ 2 \in DOMAIN New(t)
             /\ New(t)[1] = Requested(t) /\ New(t)[2] = Counted(t)
             /\ \A i \in DOMAIN New(t) :
                  i \notin {1, 2} => /\ i > 2 /\ i - 2 \in DOMAIN acts
                                     /\ New(t)[i] = acts[i - 2]
             /\ \A j \in DOMAIN acts : j + 2 \in DOMAIN New(t) /\ New(t)[j + 2] = acts[j]
<1> DEFINE acts == DoHintAction(Top(t).hint)
<1>1. Top(t).hint \in Hints /\ New(t) = <<Requested(t), Counted(t)>> \o acts
  BY DEF New
<1>2. acts \in Seq(Fit) /\ Requested(t) \in Fit /\ Counted(t) \in Fit
  BY <1>1, ActionsAre, RequestFits DEF HintInv
<1> HIDE DEF acts
<1> QED
  BY <1>1, <1>2, TwoFirst DEF acts

(* The steps of EndHint: cancellation, status and the flags set again.       *)
LEMMA NewEnd ==
  ASSUME HintInv, NEW t \in Threads, stack[t] # <<>>, Top(t).op = "end", New(t) # <<>>
  PROVE  LET acts == EndHintAction(Top(t).hint)
         IN  /\ Top(t).hint \in Hints
             /\ New(t) \in Seq(Fit) /\ Len(New(t)) = Len(acts) + 2
             /\ 1 \in DOMAIN New(t) /\ 2 \in DOMAIN New(t)
             /\ New(t)[1] = [op |-> "cancel", hint |-> Top(t).hint]
             /\ New(t)[2] = [op |-> "endStatus", hint |-> Top(t).hint]
             /\ \A i \in DOMAIN New(t) :
                  i \notin {1, 2} => /\ i > 2 /\ i - 2 \in DOMAIN acts
                                     /\ New(t)[i] = acts[i - 2]
             /\ \A j \in DOMAIN acts : j + 2 \in DOMAIN New(t) /\ New(t)[j + 2] = acts[j]
<1> DEFINE h == Top(t).hint
           acts == EndHintAction(h)
           first == [op |-> "cancel", hint |-> h]
           second == [op |-> "endStatus", hint |-> h]
<1>1. h \in Hints /\ New(t) = <<first, second>> \o acts
  BY DEF New
<1>2. acts \in Seq(Fit)
  BY <1>1, ActionsAre DEF HintInv
<1>3. first \in Fit /\ second \in Fit
  <2>1. h \in Names
    BY <1>1, HintsParsed DEF HintsOK, HintInv
  <2> HIDE DEF h
  <2> QED
    BY <1>1, <2>1 DEF Fit, Steps
<1> HIDE DEF acts, first, second
<1> QED
  BY <1>1, <1>2, <1>3, TwoFirst DEF acts, first, second

(* Other steps leave none.                                                   *)
LEMMA NewFits ==
  ASSUME HintInv, NEW t \in Threads, stack[t] # <<>>
  PROVE  /\ New(t) \in Seq(Fit)
         /\ New(t) # <<>> => Top(t).op \in {"do", "end"} /\ Top(t).hint \in Hints
         /\ \A i \in DOMAIN New(t) : New(t) # <<>>
<1>1. New(t) # <<>> => Top(t).op \in {"do", "end"} /\ Top(t).hint \in Hints
  BY DEF New
<1>2. New(t) \in Seq(Fit)
  <2>1. CASE New(t) = <<>>
    <3>1. <<>> \in Seq(Fit)
      OBVIOUS
    <3> QED
      BY <2>1, <3>1
  <2>2. CASE New(t) # <<>>
    BY <1>1, <2>2, NewDo, NewEnd
  <2> QED
    BY <2>1, <2>2
<1>3. \A i \in DOMAIN New(t) : New(t) # <<>>
  <2>1. \A s \in Seq(Fit) : \A i \in DOMAIN s : s # <<>>
    OBVIOUS
  <2> QED
    BY <1>2, <2>1
<1> QED
  BY <1>1, <1>2, <1>3

(* What is left of a list of steps when new ones replace the first.          *)
LEMMA Replaced ==
  ASSUME NEW S, NEW s \in Seq(S), s # <<>>, NEW new \in Seq(S)
  PROVE  LET q == new \o Tail(s)
             L == Len(new)
         IN  /\ q \in Seq(S) /\ L \in Nat /\ Head(s) = s[1]
             /\ DOMAIN s = 1 .. Len(s) /\ DOMAIN new = 1 .. L /\ DOMAIN q = 1 .. L + Len(s) - 1
             /\ Len(s) \in Nat \ {0}
             /\ \A i \in 1 .. L : q[i] = new[i]
             /\ \A i \in 2 .. Len(s) : q[L + i - 1] = s[i]
             /\ \A i \in DOMAIN q :
                  i \notin 1 .. L => /\ i > L /\ i - L + 1 \in 2 .. Len(s)
                                     /\ q[i] = s[i - L + 1]
<1> DEFINE q == new \o Tail(s)
           L == Len(new)
<1>1. /\ q \in Seq(S) /\ L \in Nat /\ Head(s) = s[1] /\ Len(s) \in Nat \ {0}
      /\ DOMAIN s = 1 .. Len(s) /\ DOMAIN new = 1 .. L /\ DOMAIN q = 1 .. L + Len(s) - 1
  OBVIOUS
<1>2. \A i \in 1 .. L : q[i] = new[i]
  OBVIOUS
<1>3. \A i \in 2 .. Len(s) : q[L + i - 1] = s[i]
  OBVIOUS
<1> HIDE DEF q, L
<1>4. \A i \in 1 .. L + Len(s) - 1 :
        i \notin 1 .. L => /\ i > L /\ i - L + 1 \in 2 .. Len(s)
                           /\ L + (i - L + 1) - 1 = i
  BY <1>1
<1>5. \A i \in DOMAIN q :
        i \notin 1 .. L => i > L /\ i - L + 1 \in 2 .. Len(s) /\ q[i] = s[i - L + 1]
  BY <1>1, <1>3, <1>4
<1> QED
  BY <1>1, <1>2, <1>3, <1>5 DEF q, L

(* The stacks after a step.                                                  *)
LEMMA StacksAfter ==
  ASSUME HintInv, NEW t \in Threads, Step(t)
  PROVE  /\ stack[t] \in Seq(Fit) /\ stack[t] # <<>> /\ New(t) \in Seq(Fit)
         /\ stack'[t] = New(t) \o Tail(stack[t]) /\ stack[t][1] = Top(t)
         /\ \A u \in Threads \ {t} : stack'[u] = stack[u]
         /\ Top(t) \in Fit /\ UNCHANGED configVars
<1>1. stack[t] # <<>> /\ Puts(t, New(t)) /\ UNCHANGED configVars
  BY NewPut, ConfigStays DEF HintNext
<1>2. stack \in [Threads -> Seq(Fit)]
  BY DEF HintInv, StepsOK
<1>3. stack'[t] = New(t) \o Tail(stack[t]) /\ \A u \in Threads \ {t} : stack'[u] = stack[u]
  BY <1>1, <1>2 DEF Puts
<1>4. Top(t) \in Fit /\ stack[t][1] = Top(t)
  <2>1. stack[t] \in Seq(Fit)
    BY <1>2
  <2> QED
    BY <1>1, <2>1 DEF Top
<1> QED
  BY <1>1, <1>2, <1>3, <1>4, NewFits

-----------------------------------------------------------------------------
(* Threads keep to what their calls lead to.                                 *)

(* What a thread may do stays, as the document does.                         *)
LEMMA RightStays ==
  ASSUME UNCHANGED configVars
  PROVE  /\ \A t : Right(t)' = Right(t)
         /\ \A m, h : Masks(m, h)' = Masks(m, h)
         /\ \A x, m, h, b : Calm(x, m, h, b)' = Calm(x, m, h, b)
<1>1. Fit' = Fit /\ Hints' = Hints /\ actions_' = actions_
  BY DEF configVars, Fit, Steps, Hints
<1>2. \A m, h : Masks(m, h)' = Masks(m, h)
  BY <1>1 DEF Masks
<1> QED
  BY <1>1, <1>2 DEF Right, Calm

(* Each step that is new is one the thread may take.                         *)
LEMMA NewRight ==
  ASSUME HintInv, NEW t \in Threads, stack[t] # <<>>, Top(t) \in Right(t),
         NEW i \in DOMAIN New(t)
  PROVE  New(t)[i] \in Right(t)
<1> DEFINE led == Led(CalledBy(t), actions_)
           h == Top(t).hint
           x == New(t)[i]
<1>1. New(t) \in Seq(Fit) /\ Top(t).op \in {"do", "end"} /\ h \in Hints /\ Parsed
      /\ New(t) # <<>>
  BY NewFits DEF HintInv
<1>2. x \in Fit
  BY <1>1
<1>3. h \in led
  BY <1>1 DEF Right
<1>4. Targets(actions_[h]) \cap Names \subseteq led
  BY <1>1, <1>3, LedHas DEF Hints
<1>5. SUFFICES
        /\ IF x.op \in {"mask", "unmask"} THEN Masks(h, x.hint) ELSE x.hint \in led
        /\ x.op \in {"end", "cancel", "endStatus"} => x.hint \in Ended
        /\ x.op = "do" => x.overrides \subseteq Overrides[x.hint]
        /\ x.op = "request" /\ Overrides[x.hint] = {} =>
             x.timeouts = Timeouts(actions_[x.hint].node_actions)
        /\ x.op = "doStatus" /\ Overrides[x.hint] = {} =>
             x.timeout_ms = actions_[x.hint].max_timeout
  BY <1>1, <1>2, <1>3 DEF Right
<1>6. CASE Top(t).op = "do"
  <2>1. Overrides[h] = {} => Top(t).overrides = {}
    BY <1>6 DEF Right
  <2> DEFINE acts == DoHintAction(h)
  <2>2. /\ New(t)[1] = Requested(t) /\ New(t)[2] = Counted(t)
        /\ i \notin {1, 2} => i - 2 \in DOMAIN acts /\ New(t)[i] = acts[i - 2]
    BY <1>1, <1>6, NewDo
  <2>3. CASE i = 1
    <3>1. x = Requested(t)
      BY <2>2, <2>3
    <3> HIDE DEF x
    <3>2. /\ x.op = "request" /\ x.hint = h
          /\ Top(t).overrides = {} => x.timeouts = Timeouts(actions_[h].node_actions)
      BY <3>1 DEF Requested
    <3> QED
      BY <1>3, <2>1, <3>2
  <2>4. CASE i = 2
    <3>1. x = Counted(t)
      BY <2>2, <2>4
    <3> HIDE DEF x
    <3>2. /\ x.op = "doStatus" /\ x.hint = h
          /\ Top(t).overrides = {} => x.timeout_ms = actions_[h].max_timeout
      BY <3>1 DEF Counted
    <3> QED
      BY <1>3, <2>1, <3>2
  <2>5. CASE i \notin {1, 2}
    <3>1. \/ /\ x.op = "do" /\ x.overrides = {}
             /\ x.hint \in Targets(actions_[h]) \cap Names
          \/ x.op = "end" /\ x.hint \in Targets(actions_[h]) \cap Names \cap Ended
          \/ x.op = "mask" /\ Masks(h, x.hint)
      <4>1. i - 2 \in DOMAIN acts /\ x = acts[i - 2]
        BY <2>2, <2>5
      <4> HIDE DEF x
      <4> QED
        BY <1>1, <4>1, ActionsAre
    <3> QED
      BY <1>4, <3>1
  <2> QED
    BY <2>3, <2>4, <2>5
<1>7. CASE Top(t).op = "end"
  <2>1. h \in Ended
    BY <1>7 DEF Right
  <2> DEFINE acts == EndHintAction(h)
  <2>2. /\ New(t)[1] = [op |-> "cancel", hint |-> h]
        /\ New(t)[2] = [op |-> "endStatus", hint |-> h]
        /\ i \notin {1, 2} => i - 2 \in DOMAIN acts /\ New(t)[i] = acts[i - 2]
    BY <1>1, <1>7, NewEnd
  <2>3. CASE i \in {1, 2}
    <3>1. x.hint = h /\ x.op \in {"cancel", "endStatus"}
      BY <2>2, <2>3
    <3> HIDE DEF x
    <3> QED
      BY <1>3, <2>1, <3>1
  <2>4. CASE i \notin {1, 2}
    <3>1. i - 2 \in DOMAIN acts /\ x = acts[i - 2]
      BY <2>2, <2>4
    <3> HIDE DEF x
    <3>2. x.op = "unmask" /\ Masks(h, x.hint)
      BY <1>1, <3>1, ActionsAre
    <3> QED
      BY <3>2
  <2> QED
    BY <2>3, <2>4
<1> QED
  BY <1>1, <1>6, <1>7

(* So they keep to it.                                                       *)
LEMMA StepRight ==
  ASSUME HintInv, RightOK, NEW t \in Threads, Step(t)
  PROVE  RightOK' /\ Top(t) \in Right(t)
<1>1. /\ stack[t] # <<>> /\ New(t) \in Seq(Fit) /\ UNCHANGED configVars
      /\ stack'[t] = New(t) \o Tail(stack[t])
      /\ \A u \in Threads \ {t} : stack'[u] = stack[u]
  BY StacksAfter
<1>2. stack[t] \in Seq(Right(t))
  BY DEF RightOK
<1>3. Top(t) \in Right(t) /\ Tail(stack[t]) \in Seq(Right(t))
  BY <1>1, <1>2 DEF Top
<1>4. New(t) \in Seq(Right(t))
  <2>1. \A i \in DOMAIN New(t) : New(t)[i] \in Right(t)
    BY <1>1, <1>3, NewRight
  <2>2. \A S : \A s \in Seq(Fit) : (\A i \in DOMAIN s : s[i] \in S) => s \in Seq(S)
    OBVIOUS
  <2> QED
    BY <1>1, <2>1, <2>2
<1>5. stack'[t] \in Seq(Right(t))
  BY <1>1, <1>3, <1>4
<1>6. \A u \in Threads : stack'[u] \in Seq(Right(u))
  BY <1>1, <1>5 DEF RightOK
<1> QED
  BY <1>1, <1>3, <1>6, RightStays DEF RightOK

(* Steps about hint h, which masks others or is ended, are of one thread.    *)
LEMMA OneAtATime ==
  ASSUME Parsed, RightOK, LockOK, NEW t \in Threads, NEW u \in Threads,
         NEW i \in DOMAIN stack[t], NEW j \in DOMAIN stack[u]
  PROVE  /\ \A h \in Hints \cap Ended : On(stack[t][i], h) /\ On(stack[u][j], h) => t = u
         /\ \A m \in Hints : \A h :
              Masks(m, h) /\ Concerns(stack[t][i], m, h) /\ Concerns(stack[u][j], m, h) => t = u
<1> DEFINE x == stack[t][i]
           y == stack[u][j]
<1>1. x \in Right(t) /\ y \in Right(u)
  <2>1. stack[t] \in Seq(Right(t)) /\ stack[u] \in Seq(Right(u))
    BY DEF RightOK
  <2> QED
    BY <2>1
<1>2. ASSUME NEW h \in Hints \cap Ended, On(x, h), On(y, h)
      PROVE  t = u
  <2>1. CASE h = "INTERACTION"
    BY <1>2, <2>1 DEF LockOK
  <2>2. CASE h # "INTERACTION"
    <3>1. h \in Led(CalledBy(t), actions_) \cap Led(CalledBy(u), actions_)
      BY <1>1, <1>2 DEF On, Right
    <3> QED
      BY <2>2, <3>1, OneEnder
  <2> QED
    BY <2>1, <2>2
<1> HIDE DEF x, y
<1>3. ASSUME NEW m \in Hints, NEW h, Masks(m, h), Concerns(x, m, h), Concerns(y, m, h)
      PROVE  t = u
  <2>1. ASSUME NEW v \in Threads, NEW z \in Right(v),
               Concerns(z, m, h)
        PROVE  m \in Led(CalledBy(v), actions_)
    <3>1. CASE On(z, m)
      BY <3>1 DEF On, Right
    <3>2. CASE z.hint = h /\ z.op \in {"mask", "unmask"}
      <4>1. PICK k \in Hints \cap Led(CalledBy(v), actions_) : Masks(k, z.hint)
        BY <3>2 DEF Right
      <4> QED
        BY <1>3, <3>2, <4>1, OneMasker
    <3> QED
      BY <2>1, <3>1, <3>2 DEF Concerns
  <2>2. m \in Led(CalledBy(t), actions_) /\ m \in Led(CalledBy(u), actions_)
    BY <1>1, <1>3, <2>1
  <2> QED
    BY <1>3, <2>2, OneMasker
<1>4. \A m \in Hints : \A h : Masks(m, h) /\ Concerns(x, m, h) /\ Concerns(y, m, h) => t = u
  BY <1>3
<1> QED
  BY <1>2, <1>4 DEF x, y

(* The lock keeps INTERACTION to one thread.                                 *)
LEMMA StepLock ==
  ASSUME HintInv, LockOK, NEW t \in Threads, Step(t)
  PROVE  LockOK'
<1> DEFINE L == Len(New(t))
<1>1. /\ stack[t] \in Seq(Fit) /\ stack[t] # <<>> /\ New(t) \in Seq(Fit)
      /\ stack'[t] = New(t) \o Tail(stack[t]) /\ stack[t][1] = Top(t)
      /\ \A u \in Threads \ {t} : stack'[u] = stack[u]
  BY StacksAfter
<1>2. /\ DOMAIN stack[t] = 1 .. Len(stack[t]) /\ DOMAIN New(t) = 1 .. L /\ L \in Nat
      /\ Len(stack[t]) \in Nat \ {0}
      /\ \A i \in 1 .. L : stack'[t][i] = New(t)[i]
      /\ \A i \in DOMAIN stack'[t] :
           i \notin 1 .. L => /\ i - L + 1 \in 2 .. Len(stack[t])
                              /\ stack'[t][i] = stack[t][i - L + 1]
  BY <1>1, Replaced
<1> HIDE DEF L
<1>3. ASSUME NEW i \in DOMAIN New(t), On(New(t)[i], "INTERACTION")
      PROVE  On(stack[t][1], "INTERACTION")
  <2> DEFINE h == Top(t).hint
             x == New(t)[i]
  <2>1. Top(t).op \in {"do", "end"} /\ h \in Hints /\ Parsed /\ New(t) # <<>>
    BY <1>1, NewFits DEF HintInv
  <2>2. "INTERACTION" \notin Targets(actions_[h])
    BY <2>1, Writers DEF OneWriter, Hints
  <2>3. h = "INTERACTION"
    <3>1. CASE Top(t).op = "do"
      <4> DEFINE acts == DoHintAction(h)
      <4>1. /\ i = 1 => x = Requested(t)
            /\ i = 2 => x = Counted(t)
            /\ i \notin {1, 2} => i - 2 \in DOMAIN acts /\ x = acts[i - 2]
        BY <1>1, <2>1, <3>1, NewDo
      <4>2. Requested(t).hint = h /\ Counted(t).hint = h
        BY DEF Requested, Counted
      <4>3. ASSUME NEW j \in DOMAIN acts
            PROVE  ~On(acts[j], "INTERACTION")
        BY <2>1, <2>2, ActionsAre DEF On
      <4> HIDE DEF h, x, acts
      <4>4. CASE i \in {1, 2}
        BY <1>3, <4>1, <4>2, <4>4 DEF On, x
      <4>5. CASE i \notin {1, 2}
        BY <1>3, <4>1, <4>3, <4>5 DEF x
      <4> QED
        BY <4>4, <4>5
    <3>2. CASE Top(t).op = "end"
      <4> DEFINE acts == EndHintAction(h)
      <4>0. /\ New(t)[1] = [op |-> "cancel", hint |-> h]
            /\ New(t)[2] = [op |-> "endStatus", hint |-> h]
            /\ i \notin {1, 2} => i - 2 \in DOMAIN acts /\ x = acts[i - 2]
        BY <1>1, <2>1, <3>2, NewEnd
      <4>1. /\ i \in {1, 2} => x.hint = h
            /\ i \notin {1, 2} => i - 2 \in DOMAIN acts /\ x = acts[i - 2]
        BY <4>0
      <4>2. \A j \in DOMAIN acts : acts[j].op = "unmask"
        BY <2>1, ActionsAre
      <4> HIDE DEF h, acts
      <4> QED
        BY <1>3, <4>1, <4>2 DEF On
    <3> QED
      BY <2>1, <3>1, <3>2
  <2> QED
    BY <1>1, <2>1, <2>3 DEF On
<1>4. ASSUME NEW u \in Threads, NEW i \in DOMAIN stack'[u], On(stack'[u][i], "INTERACTION")
      PROVE  \E k \in DOMAIN stack[u] : On(stack[u][k], "INTERACTION")
  <2>1. CASE u # t
    BY <1>1, <1>4, <2>1
  <2>2. CASE u = t /\ i \in 1 .. L
    <3>1. i \in DOMAIN New(t) /\ On(New(t)[i], "INTERACTION") /\ 1 \in DOMAIN stack[t]
      BY <1>2, <1>4, <2>2
    <3> QED
      BY <1>3, <2>2, <3>1
  <2>3. CASE u = t /\ i \notin 1 .. L
    <3>1. i - L + 1 \in 2 .. Len(stack[t]) /\ stack'[t][i] = stack[t][i - L + 1]
      BY <1>2, <2>3
    <3>2. i - L + 1 \in DOMAIN stack[t]
      BY <1>2, <3>1
    <3> QED
      BY <1>4, <2>3, <3>1, <3>2
  <2> QED
    BY <2>1, <2>2, <2>3
<1>5. \A x : On(x, "INTERACTION")' = On(x, "INTERACTION")
  BY DEF On
<1>6. ASSUME NEW u \in Threads, NEW v \in Threads,
             NEW i \in DOMAIN stack'[u], NEW j \in DOMAIN stack'[v],
             On(stack'[u][i], "INTERACTION"), On(stack'[v][j], "INTERACTION")
      PROVE  u = v
  BY <1>4, <1>6 DEF LockOK
<1> QED
  BY <1>6 DEF LockOK, On

(* What a step does to the requests.                                         *)
LEMMA StepRequest ==
  ASSUME HintInv, NEW t \in Threads, Step(t)
  PROVE  /\ \A h \in Hints : \/ Top(t).op = "request" /\ Top(t).hint = h
                             \/ request'[h] = request[h]
                             \/ request'[h] = NoRequest
         /\ Top(t).op = "cancel" => request'[Top(t).hint] = NoRequest
<1>1. request \in [Hints -> Times]
  BY DEF HintInv, HintTypes
<1>2. CASE Request(t)
  <2>1. Top(t).op = "request"
        /\ \E v : request' = [request EXCEPT ![Top(t).hint] = v]
    BY <1>2 DEF Request, Takes
  <2> QED
    BY <1>1, <2>1
<1>3. CASE Cancel(t)
  <2>1. Top(t).op = "cancel" /\ request' = [request EXCEPT ![Top(t).hint] = NoRequest]
    BY <1>3 DEF Cancel, Takes
  <2>2. Top(t).hint \in Hints
    <3>1. Top(t) \in Fit
      BY StacksAfter
    <3> QED
      BY <2>1, <3>1 DEF Fit
  <2> QED
    BY <1>1, <2>1, <2>2
<1>4. CASE ~Request(t) /\ ~Cancel(t)
  <2>1. request' = request /\ Top(t).op # "cancel"
    BY <1>4 DEF Step, DoHint, DoHintStatus, Mask, EndHint, EndHintStatus, Unmasked, Takes
  <2> QED
    BY <2>1
<1> QED
  BY <1>2, <1>3, <1>4

(* Requests and cancellations stay with their status.                        *)
LEMMA StepPairs ==
  ASSUME HintInv, RightOK, LockOK, PairsOK, NEW t \in Threads, Step(t)
  PROVE  PairsOK'
<1> DEFINE L == Len(New(t))
           s == stack[t]
           q == stack'[t]
           N == Len(s)
<1>1. /\ s \in Seq(Fit) /\ s # <<>> /\ New(t) \in Seq(Fit)
      /\ q = New(t) \o Tail(s) /\ s[1] = Top(t)
      /\ \A u \in Threads \ {t} : stack'[u] = stack[u]
      /\ Top(t) \in Fit /\ Parsed
  BY StacksAfter DEF HintInv
<1>2. /\ DOMAIN s = 1 .. N /\ DOMAIN New(t) = 1 .. L /\ L \in Nat
      /\ DOMAIN q = 1 .. L + N - 1 /\ N \in Nat \ {0}
      /\ \A i \in 1 .. L : q[i] = New(t)[i]
      /\ \A i \in 2 .. N : q[L + i - 1] = s[i]
      /\ \A i \in DOMAIN q :
           i \notin 1 .. L => i > L /\ i - L + 1 \in 2 .. N /\ q[i] = s[i - L + 1]
  BY <1>1, Replaced
<1>3. /\ \A h \in Hints : \/ Top(t).op = "request" /\ Top(t).hint = h
                          \/ request'[h] = request[h]
                          \/ request'[h] = NoRequest
      /\ Top(t).op = "cancel" => request'[Top(t).hint] = NoRequest
  BY StepRequest
<1>4. \A u \in Threads : \A i \in DOMAIN stack[u] :
        /\ stack[u][i].op = "request" =>
             /\ i + 1 \in DOMAIN stack[u]
             /\ stack[u][i + 1].op = "doStatus" /\ stack[u][i + 1].hint = stack[u][i].hint
        /\ stack[u][i].op = "endStatus" =>
             IF i = 1 THEN request[stack[u][i].hint] = NoRequest
             ELSE stack[u][i - 1].op = "cancel" /\ stack[u][i - 1].hint = stack[u][i].hint
  BY DEF PairsOK
<1> HIDE DEF L, s, q, N
<1>5. ASSUME NEW u \in Threads \ {t}, NEW i \in DOMAIN stack[u]
      PROVE  /\ stack[u][i].op = "request" =>
                  /\ i + 1 \in DOMAIN stack[u]
                  /\ stack[u][i + 1].op = "doStatus" /\ stack[u][i + 1].hint = stack[u][i].hint
             /\ stack[u][i].op = "endStatus" =>
                  IF i = 1 THEN request'[stack[u][i].hint] = NoRequest
                  ELSE stack[u][i - 1].op = "cancel" /\ stack[u][i - 1].hint = stack[u][i].hint
  <2> DEFINE h == stack[u][i].hint
  <2> SUFFICES ASSUME stack[u][i].op = "endStatus", i = 1
               PROVE  request'[h] = NoRequest
    BY <1>4
  <2>1. request[h] = NoRequest
    BY <1>4
  <2>2. h \in Hints /\ h \in Ended /\ On(stack[u][i], h)
    <3>1. stack[u] \in Seq(Right(u))
      BY DEF RightOK
    <3>2. stack[u][i] \in Right(u)
      BY <3>1
    <3> QED
      BY <3>2 DEF Right, Fit, On
  <2>3. ~(Top(t).op = "request" /\ Top(t).hint = h)
    <3> SUFFICES ASSUME Top(t).op = "request", Top(t).hint = h
                 PROVE  FALSE
      OBVIOUS
    <3> HIDE DEF h
    <3>1. On(stack[t][1], h)
      BY <1>1 DEF On, s
    <3>2. 1 \in DOMAIN stack[t]
      BY <1>2 DEF s
    <3> QED
      BY <1>1, <2>2, <3>1, <3>2, OneAtATime
  <2> QED
    BY <1>3, <2>1, <2>2, <2>3
<1>6. ASSUME NEW i \in DOMAIN q
      PROVE  /\ q[i].op = "request" =>
                  i + 1 \in DOMAIN q /\ q[i + 1].op = "doStatus" /\ q[i + 1].hint = q[i].hint
             /\ q[i].op = "endStatus" =>
                  IF i = 1 THEN request'[q[i].hint] = NoRequest
                  ELSE q[i - 1].op = "cancel" /\ q[i - 1].hint = q[i].hint
  <2>1. CASE i \in 1 .. L
    <3>1. i \in DOMAIN New(t) /\ q[i] = New(t)[i]
      BY <1>2, <2>1
    <3>2. Top(t).op \in {"do", "end"} /\ Top(t).hint \in Hints /\ New(t) # <<>> /\ s = stack[t]
      BY <1>1, <3>1, NewFits DEF s
    <3>3. CASE Top(t).op = "do"
      <4> DEFINE acts == DoHintAction(Top(t).hint)
      <4>1. /\ 1 \in DOMAIN New(t) /\ 2 \in DOMAIN New(t)
            /\ New(t)[1] = Requested(t) /\ New(t)[2] = Counted(t)
            /\ i \notin {1, 2} => i - 2 \in DOMAIN acts /\ New(t)[i] = acts[i - 2]
        BY <1>1, <3>1, <3>2, <3>3, NewDo
      <4>2. /\ Requested(t).op = "request" /\ Requested(t).hint = Top(t).hint
            /\ Counted(t).op = "doStatus" /\ Counted(t).hint = Top(t).hint
        BY DEF Requested, Counted
      <4>3. \A j \in DOMAIN acts : acts[j].op \in {"do", "end", "mask"}
        BY <1>1, <3>2, ActionsAre
      <4> HIDE DEF acts
      <4>4. CASE i = 1
        <5>1. 2 \in 1 .. L /\ 2 \in DOMAIN q /\ q[2] = Counted(t) /\ q[1] = Requested(t)
          BY <1>2, <3>1, <4>1, <4>4
        <5> QED
          BY <4>2, <4>4, <5>1
      <4>5. CASE i = 2
        BY <3>1, <4>1, <4>2, <4>5
      <4>6. CASE i \notin {1, 2}
        BY <3>1, <4>1, <4>3, <4>6
      <4> QED
        BY <4>4, <4>5, <4>6
    <3>4. CASE Top(t).op = "end"
      <4> DEFINE acts == EndHintAction(Top(t).hint)
      <4>0. /\ 1 \in DOMAIN New(t) /\ 2 \in DOMAIN New(t)
            /\ New(t)[1] = [op |-> "cancel", hint |-> Top(t).hint]
            /\ New(t)[2] = [op |-> "endStatus", hint |-> Top(t).hint]
            /\ i \notin {1, 2} => i - 2 \in DOMAIN acts /\ New(t)[i] = acts[i - 2]
        BY <1>1, <3>1, <3>2, <3>4, NewEnd
      <4>1. /\ 1 \in DOMAIN New(t) /\ 2 \in DOMAIN New(t)
            /\ New(t)[1].op = "cancel" /\ New(t)[1].hint = Top(t).hint
            /\ New(t)[2].op = "endStatus" /\ New(t)[2].hint = Top(t).hint
            /\ i \notin {1, 2} => i - 2 \in DOMAIN acts /\ New(t)[i] = acts[i - 2]
        BY <4>0
      <4>2. \A j \in DOMAIN acts : acts[j].op = "unmask"
        BY <1>1, <3>2, ActionsAre
      <4> HIDE DEF acts
      <4>3. CASE i = 1
        BY <3>1, <4>1, <4>3
      <4>4. CASE i = 2
        <5>1. 1 \in 1 .. L /\ q[1] = New(t)[1]
          BY <1>2, <4>1
        <5> QED
          BY <3>1, <4>1, <4>4, <5>1
      <4>5. CASE i \notin {1, 2}
        BY <3>1, <4>1, <4>2, <4>5
      <4> QED
        BY <4>3, <4>4, <4>5
    <3> QED
      BY <3>2, <3>3, <3>4
  <2>2. CASE i \notin 1 .. L
    <3> DEFINE k == i - L + 1
    <3>1. /\ i > L /\ k \in 2 .. N /\ q[i] = s[k] /\ i \in 1 .. L + N - 1
          /\ k \in Nat /\ k \in DOMAIN s /\ i = L + k - 1
      BY <1>2, <2>2
    <3>2. /\ s[k].op = "request" =>
               k + 1 \in DOMAIN s /\ s[k + 1].op = "doStatus" /\ s[k + 1].hint = s[k].hint
          /\ s[k].op = "endStatus" => s[k - 1].op = "cancel" /\ s[k - 1].hint = s[k].hint
      BY <1>4, <3>1 DEF s
    <3> HIDE DEF k
    <3>3. ASSUME s[k].op = "request"
          PROVE  i + 1 \in DOMAIN q /\ q[i + 1].op = "doStatus" /\ q[i + 1].hint = q[i].hint
      <4>1. k + 1 \in 2 .. N /\ L + (k + 1) - 1 = i + 1 /\ i + 1 \in 1 .. L + N - 1
        BY <1>2, <3>1, <3>2, <3>3
      <4>2. q[i + 1] = s[k + 1]
        BY <1>2, <4>1
      <4> QED
        BY <1>2, <3>1, <3>2, <3>3, <4>1, <4>2
    <3>4. ASSUME s[k].op = "endStatus"
          PROVE  IF i = 1 THEN request'[q[i].hint] = NoRequest
                 ELSE q[i - 1].op = "cancel" /\ q[i - 1].hint = q[i].hint
      <4>1. CASE k = 2
        <5>1. Top(t).op = "cancel" /\ Top(t).hint = q[i].hint
          BY <1>1, <3>1, <3>2, <3>4, <4>1
        <5>2. New(t) = <<>>
          BY <5>1 DEF New
        <5>3. L = 0
          BY <5>2 DEF L
        <5>4. i = 1
          BY <3>1, <4>1, <5>3
        <5> QED
          BY <1>3, <5>1, <5>4
      <4>2. CASE k # 2
        <5>1. k - 1 \in 2 .. N /\ L + (k - 1) - 1 = i - 1 /\ i # 1
          BY <1>2, <3>1, <4>2
        <5>2. q[i - 1] = s[k - 1]
          BY <1>2, <5>1
        <5> QED
          BY <3>1, <3>2, <3>4, <5>1, <5>2
      <4> QED
        BY <4>1, <4>2
    <3> QED
      BY <3>1, <3>3, <3>4
  <2> QED
    BY <2>1, <2>2
<1>7. ASSUME NEW u \in Threads, NEW i \in DOMAIN stack'[u]
      PROVE  /\ stack'[u][i].op = "request" =>
                  /\ i + 1 \in DOMAIN stack'[u]
                  /\ stack'[u][i + 1].op = "doStatus"
                  /\ stack'[u][i + 1].hint = stack'[u][i].hint
             /\ stack'[u][i].op = "endStatus" =>
                  IF i = 1 THEN request'[stack'[u][i].hint] = NoRequest
                  ELSE /\ stack'[u][i - 1].op = "cancel"
                       /\ stack'[u][i - 1].hint = stack'[u][i].hint
  <2>1. CASE u = t
    BY <1>6, <1>7, <2>1 DEF q
  <2>2. CASE u # t
    <3>1. stack'[u] = stack[u] /\ u \in Threads \ {t}
      BY <1>1, <2>2
    <3> QED
      BY <1>5, <1>7, <3>1
  <2> QED
    BY <2>1, <2>2
<1> QED
  BY <1>7 DEF PairsOK

-----------------------------------------------------------------------------
(* The statistics cover the requests.                                        *)

(* A hint's timeout is the longest of its node actions.                      *)
LEMMA Longest ==
  ASSUME HintInv, NEW h \in Hints
  PROVE  /\ actions_[h].max_timeout \in 0 .. MaxNow
         /\ \A m \in Timeouts(actions_[h].node_actions) :
              m \in 0 .. MaxNow /\ EndsAt(m) <= EndsAt(actions_[h].max_timeout)
<1> DEFINE T == Timeouts(actions_[h].node_actions)
           longest == actions_[h].max_timeout
<1>1. T \subseteq 0 .. MaxNow /\ longest \in 0 .. MaxNow
  BY HintsParsed DEF HintInv, HintsOK
<1>2. longest = MaxTimeout(T)
  BY DEF HintInv, Parsed, HintsOf, ParseActions, ParsedHint, Hints, NoHints
<1> HIDE DEF T, longest
<1>3. ASSUME NEW m \in T
      PROVE  longest = 0 \/ (m # 0 /\ m <= longest)
  <2>1. CASE 0 \in T
    BY <1>2, <2>1 DEF MaxTimeout
  <2>2. CASE 0 \notin T
    <3>1. longest = Max(T)
      BY <1>2, <2>2, <1>3 DEF MaxTimeout
    <3>2. T \subseteq 0 .. MaxNow /\ T # {} /\ 0 \in Int /\ MaxNow \in Int
      BY <1>1, <1>3, ClockBound
    <3>3. \A y \in T : Max(T) >= y
      BY <3>2, Greatest
    <3>4. m \in 0 .. MaxNow /\ Max(T) >= m /\ m # 0
      BY <1>1, <1>3, <2>2, <3>3
    <3> QED
      BY <1>1, <3>1, <3>4
  <2> QED
    BY <2>1, <2>2
<1>4. now \in 0 .. MaxNow /\ MaxNow \in Nat
  BY ClockBound DEF HintInv, HintTypes
<1>5. ASSUME NEW m \in T
      PROVE  m \in 0 .. MaxNow /\ EndsAt(m) <= EndsAt(longest)
  <2>1. longest = 0 \/ (m # 0 /\ m <= longest)
    BY <1>3
  <2>2. m \in 0 .. MaxNow
    BY <1>1
  <2> QED
    BY <1>1, <1>4, <2>1, <2>2 DEF EndsAt, Forever
<1> QED
  BY <1>1, <1>5 DEF T, longest

(* What the steps change of requests and statistics.                         *)
LEMMA Effects ==
  ASSUME HintInv, NEW t \in Threads, Step(t)
  PROVE  LET h == Top(t).hint
         IN  /\ now' = now /\ actions_' = actions_
             /\ Top(t).op \notin {"doStatus", "endStatus"} =>
                  UNCHANGED <<start_time, end_time, duration_ms, done>>
             /\ Top(t).op \in {"doStatus", "endStatus"} =>
                  /\ request' = request /\ h \in Hints
                  /\ done'[h] = (Top(t).op = "doStatus")
                  /\ \A k \in Hints \ {h} :
                       /\ start_time'[k] = start_time[k] /\ end_time'[k] = end_time[k]
                       /\ duration_ms'[k] = duration_ms[k] /\ done'[k] = done[k]
             /\ Top(t).op = "doStatus" =>
                  /\ end_time'[h] = EndsAt(Top(t).timeout_ms) /\ start_time'[h] = Start(h)
                  /\ duration_ms'[h] = IF Over(h) THEN duration_ms[h] + Span(h)
                                       ELSE duration_ms[h]
<1> DEFINE h == Top(t).hint
<1>1. /\ start_time \in [Hints -> TimeMin .. MaxNow] /\ end_time \in [Hints -> Times]
      /\ duration_ms \in [Hints -> Nat] /\ done \in [Hints -> BOOLEAN]
  BY DEF HintInv, HintTypes
<1>2. now' = now /\ actions_' = actions_
  BY DEF Step, DoHint, Request, DoHintStatus, Mask, EndHint, Cancel, EndHintStatus, Unmasked,
         configVars
<1>3. CASE DoHintStatus(t)
  <2>1. /\ Top(t).op = "doStatus" /\ request' = request
        /\ duration_ms' = [duration_ms EXCEPT ![h] = IF Over(h) THEN @ + Span(h) ELSE @]
        /\ start_time' = [start_time EXCEPT ![h] = Start(h)]
        /\ end_time' = [end_time EXCEPT ![h] = EndsAt(Top(t).timeout_ms)]
        /\ done' = [done EXCEPT ![h] = TRUE]
    BY <1>3 DEF DoHintStatus, Takes
  <2>2. h \in Hints
    BY <2>1, StacksAfter DEF Fit
  <2> HIDE DEF h
  <2>3. /\ done'[h] = TRUE /\ end_time'[h] = EndsAt(Top(t).timeout_ms)
        /\ start_time'[h] = Start(h)
        /\ duration_ms'[h] = IF Over(h) THEN duration_ms[h] + Span(h) ELSE duration_ms[h]
    BY <1>1, <2>1, <2>2
  <2>4. \A k \in Hints \ {h} :
          /\ start_time'[k] = start_time[k] /\ end_time'[k] = end_time[k]
          /\ duration_ms'[k] = duration_ms[k] /\ done'[k] = done[k]
    BY <1>1, <2>1
  <2> QED
    BY <1>2, <2>1, <2>2, <2>3, <2>4 DEF h
<1>4. CASE EndHintStatus(t)
  <2>1. /\ Top(t).op = "endStatus" /\ request' = request /\ start_time' = start_time
        /\ \E d, e : /\ duration_ms' = [duration_ms EXCEPT ![h] = d]
                     /\ end_time' = [end_time EXCEPT ![h] = e]
        /\ done' = [done EXCEPT ![h] = FALSE]
    BY <1>4 DEF EndHintStatus, Takes
  <2>2. h \in Hints
    BY <2>1, StacksAfter DEF Fit
  <2> HIDE DEF h
  <2>3. /\ done'[h] = FALSE
        /\ \A k \in Hints \ {h} :
             /\ start_time'[k] = start_time[k] /\ end_time'[k] = end_time[k]
             /\ duration_ms'[k] = duration_ms[k] /\ done'[k] = done[k]
    BY <1>1, <2>1, <2>2
  <2> QED
    BY <1>2, <2>1, <2>2, <2>3 DEF h
<1>5. CASE ~DoHintStatus(t) /\ ~EndHintStatus(t)
  <2>1. UNCHANGED <<start_time, end_time, duration_ms, done>>
    BY <1>5 DEF Step, DoHint, Request, Mask, EndHint, Cancel, Unmasked, statusVars
  <2>2. Top(t).op \notin {"doStatus", "endStatus"}
    BY <1>5, NewPut
  <2> QED
    BY <1>2, <2>1, <2>2
<1> QED
  BY <1>3, <1>4, <1>5

(* A request ends when the longest of its node actions does.                 *)
LEMMA RequestEnds ==
  ASSUME HintInv, NEW t \in Threads, Step(t), Top(t).op = "request",
         Top(t) \in Right(t), Overrides[Top(t).hint] = {},
         request[Top(t).hint] <= EndsAt(actions_[Top(t).hint].max_timeout)
  PROVE  request'[Top(t).hint] <= EndsAt(actions_[Top(t).hint].max_timeout)
<1> DEFINE h == Top(t).hint
           ends == {request[h]} \cup {EndsAt(m) : m \in Top(t).timeouts}
<1>1. h \in Hints /\ request \in [Hints -> Times] /\ now \in 0 .. MaxNow
  BY StacksAfter DEF Fit, HintInv, HintTypes
<1>2. Top(t).timeouts = Timeouts(actions_[h].node_actions)
  BY DEF Right
<1>3. \A m \in Top(t).timeouts :
        m \in 0 .. MaxNow /\ EndsAt(m) <= EndsAt(actions_[h].max_timeout)
  BY <1>1, <1>2, Longest
<1>4. ends \subseteq Times /\ ends # {}
  <2>1. \A m \in Top(t).timeouts : EndsAt(m) \in Times
    BY <1>1, <1>3, EndsLater
  <2> QED
    BY <1>1, <2>1
<1>5. \A e \in ends : e <= EndsAt(actions_[h].max_timeout)
  BY <1>3
<1>6. request' = [request EXCEPT ![h] = Max(ends)]
  <2>1. Request(t)
    BY NewPut
  <2>2. request' = [request EXCEPT ![h] = Max({@} \cup {EndsAt(m) : m \in Top(t).timeouts})]
    BY <2>1 DEF Request
  <2> QED
    BY <1>1, <2>2
<1> HIDE DEF ends, h
<1>7. Max(ends) \in ends
  BY <1>4, LatestTime
<1> QED
  BY <1>1, <1>5, <1>6, <1>7 DEF h

(* A request is covered until it is cancelled.                               *)
LEMMA StepCovered ==
  ASSUME HintInv, HintInv', RightOK, PairsOK, NEW t \in Threads, Step(t),
         NEW h \in Hints, CoveredOK(h)
  PROVE  CoveredOK(h)'
<1> DEFINE longest == EndsAt(actions_[h].max_timeout)
           Due == \E u \in Threads : \E i \in DOMAIN stack[u] :
                    stack[u][i].op = "doStatus" /\ stack[u][i].hint = h
<1> SUFFICES ASSUME Overrides[h] = {}
             PROVE  /\ request'[h] <= longest
                    /\ request'[h] <= end_time'[h] \/ Due'
  BY Effects DEF CoveredOK, EndsAt
<1>1. request[h] <= longest /\ (request[h] <= end_time[h] \/ Due)
  BY DEF CoveredOK
<1>2. /\ stack[t] \in Seq(Fit) /\ stack[t] # <<>> /\ stack[t][1] = Top(t)
      /\ 1 \in DOMAIN stack[t] /\ Top(t) \in Right(t) /\ StepsOK
  <2>1. \A s \in Seq(Fit) : s # <<>> => 1 \in DOMAIN s
    OBVIOUS
  <2> QED
    BY <2>1, StacksAfter, StepRight DEF HintInv
<1>3. ASSUME NEW u \in Threads, NEW i \in DOMAIN stack[u], u # t \/ i # 1
      PROVE  \E j \in DOMAIN stack'[u] : stack'[u][j] = stack[u][i]
  <2>1. Puts(t, New(t)) /\ New(t) \in Seq(Fit)
    BY NewPut, StacksAfter
  <2> QED
    BY <1>2, <1>3, <2>1, StepsStay
<1>4. ASSUME Due, ~Due'
      PROVE  Top(t).op = "doStatus" /\ Top(t).hint = h
  <2>1. PICK u \in Threads : \E i \in DOMAIN stack[u] :
          stack[u][i].op = "doStatus" /\ stack[u][i].hint = h
    BY <1>4
  <2>2. PICK i \in DOMAIN stack[u] : stack[u][i].op = "doStatus" /\ stack[u][i].hint = h
    BY <2>1
  <2>3. u = t /\ i = 1
    <3> SUFFICES ASSUME u # t \/ i # 1
                 PROVE  FALSE
      OBVIOUS
    <3>1. PICK j \in DOMAIN stack'[u] : stack'[u][j] = stack[u][i]
      BY <1>3
    <3> QED
      BY <1>4, <2>2, <3>1
  <2> QED
    BY <1>2, <2>2, <2>3
<1>5. request'[h] \in Times /\ end_time'[h] \in Times /\ longest \in Times
      /\ request[h] \in Times /\ end_time[h] \in Times
      /\ \A x \in Times : NoRequest <= x /\ x \in Int
  <2>1. request \in [Hints -> Times] /\ end_time \in [Hints -> Times] /\ now \in 0 .. MaxNow
    BY DEF HintInv, HintTypes
  <2>2. request' \in [Hints -> Times] /\ end_time' \in [Hints -> Times]
    <3>1. Hints' = Hints
      BY Effects DEF Hints
    <3> QED
      BY <3>1 DEF HintInv, HintTypes, Times, Forever
  <2>3. longest \in Times
    BY <2>1, Longest, EndsLater
  <2> QED
    BY <2>1, <2>2, <2>3, ClockBound DEF NoRequest, Times, TimeMin, Forever
<1>6. request'[h] <= longest
  <2>1. CASE Top(t).op = "request" /\ Top(t).hint = h
    BY <1>1, <1>2, <2>1, RequestEnds
  <2>2. CASE ~(Top(t).op = "request" /\ Top(t).hint = h)
    <3>1. request'[h] = request[h] \/ request'[h] = NoRequest
      BY <2>2, StepRequest
    <3> QED
      BY <1>1, <1>5, <3>1
  <2> QED
    BY <2>1, <2>2
<1> HIDE DEF longest
<1>7. request'[h] <= end_time'[h] \/ Due'
  <2>1. CASE Top(t).op = "request" /\ Top(t).hint = h
    <3>1. /\ 2 \in DOMAIN stack[t]
          /\ stack[t][2].op = "doStatus" /\ stack[t][2].hint = h
      BY <1>2, <2>1 DEF PairsOK
    <3>2. PICK j \in DOMAIN stack'[t] : stack'[t][j] = stack[t][2]
      BY <1>3, <3>1
    <3> QED
      BY <3>1, <3>2
  <2>2. CASE Top(t).op = "doStatus" /\ Top(t).hint = h
    <3>1. end_time'[h] = EndsAt(Top(t).timeout_ms) /\ Top(t).timeout_ms = actions_[h].max_timeout
      BY <1>2, <2>2, Effects DEF Right
    <3> QED
      BY <1>6, <3>1 DEF longest
  <2>3. CASE Top(t).op = "endStatus" /\ Top(t).hint = h
    <3>1. request[h] = NoRequest /\ request'[h] = request[h]
      BY <1>2, <2>3, Effects DEF PairsOK
    <3> QED
      BY <1>5, <3>1
  <2>4. CASE ~(Top(t).op \in {"request", "doStatus", "endStatus"} /\ Top(t).hint = h)
    <3>1. end_time'[h] = end_time[h]
      BY <2>4, Effects
    <3>2. request'[h] = request[h] \/ request'[h] = NoRequest
      BY <2>4, StepRequest
    <3>3. Due => Due'
      BY <1>4, <2>4
    <3> HIDE DEF Due
    <3> QED
      BY <1>1, <1>5, <3>1, <3>2, <3>3
  <2> QED
    BY <2>1, <2>2, <2>3, <2>4
<1> QED
  BY <1>6, <1>7

(* What a hint that is not ended was recorded for is over.                   *)
LEMMA StepCounted ==
  ASSUME HintInv, RightOK, NEW t \in Threads, Step(t), NEW h \in Hints, CountedOK(h)
  PROVE  CountedOK(h)'
<1> SUFFICES ASSUME h \notin Ended
             PROVE  \/ start_time'[h] = TimeMin /\ end_time'[h] = TimeMin /\ duration_ms'[h] = 0
                    \/ start_time'[h] \in Nat /\ duration_ms'[h] <= start_time'[h]
  BY DEF CountedOK
<1>1. \/ start_time[h] = TimeMin /\ end_time[h] = TimeMin /\ duration_ms[h] = 0
      \/ start_time[h] \in Nat /\ duration_ms[h] <= start_time[h]
  BY DEF CountedOK
<1>2. CASE Top(t).op = "doStatus" /\ Top(t).hint = h
  <2>1. /\ start_time'[h] = Start(h)
        /\ duration_ms'[h] = IF Over(h) THEN duration_ms[h] + Span(h) ELSE duration_ms[h]
    BY <1>2, Effects
  <2>2. /\ start_time[h] \in Int /\ duration_ms[h] \in Nat
        /\ now \in Nat /\ end_time[h] \in Int
    BY ClockBound DEF HintInv, HintTypes, Times, TimeMin, Forever
  <2>3. CASE Over(h)
    <3>1. /\ start_time'[h] = now /\ now > end_time[h]
          /\ duration_ms'[h] = duration_ms[h] + (end_time[h] - start_time[h])
      BY <2>1, <2>3 DEF Start, Span, Over
    <3> QED
      BY <1>1, <2>2, <3>1 DEF TimeMin
  <2>4. CASE ~Over(h)
    <3>1. start_time'[h] = start_time[h] /\ duration_ms'[h] = duration_ms[h]
      BY <2>1, <2>4 DEF Start
    <3>2. end_time[h] # TimeMin
      BY <2>2, <2>4 DEF Over, TimeMin
    <3> QED
      BY <1>1, <3>1, <3>2
  <2> QED
    BY <2>3, <2>4
<1>3. CASE ~(Top(t).op = "doStatus" /\ Top(t).hint = h)
  <2>1. ~(Top(t).op = "endStatus" /\ Top(t).hint = h)
    BY StepRight DEF Right
  <2>2. /\ start_time'[h] = start_time[h] /\ end_time'[h] = end_time[h]
        /\ duration_ms'[h] = duration_ms[h]
    BY <1>3, <2>1, Effects
  <2> QED
    BY <1>1, <2>2
<1> QED
  BY <1>2, <1>3

-----------------------------------------------------------------------------
(* Flags follow what masks them.                                             *)

(* What is said of threads and flags is so of those after the step.          *)
LEMMA MaskStays ==
  ASSUME UNCHANGED configVars, NEW m \in Hints, NEW h,
         \A t \in Threads : Held(stack'[t], done'[m], m, h),
         enabled'[h] = done'[m] => \E t \in Threads : Owed(stack'[t], done'[m], m, h)
  PROVE  MaskOK(m, h)'
<1>1. actions_' = actions_
  BY DEF configVars
<1>2. ASSUME NEW t \in Threads
      PROVE  Held(stack[t], done[m], m, h)'
  <2>1. Held(stack'[t], done'[m], m, h)
    OBVIOUS
  <2>2. \A i, j, b : Between(stack[t], i, j, m, h, b)' <=> Between(stack'[t], i, j, m, h, b)
    BY <1>1 DEF Between, Calm
  <2> QED
    BY <1>1, <2>1, <2>2 DEF Held, Marks, Settles
<1>3. (enabled[h] = done[m] => \E t \in Threads : Owed(stack[t], done[m], m, h))'
  BY <1>1 DEF Owed, Settles, Between, Calm
<1>4. \A t \in Threads : Held(stack[t], done[m], m, h)'
  BY <1>2
<1> QED
  BY <1>3, <1>4 DEF MaskOK

(* List q is list s with new steps in the place of the first.                *)
Follows(q, s, new) == q = new \o Tail(s)

(* The steps that stay are numbered anew.                                    *)
LEMMA Numbered ==
  ASSUME NEW s \in Seq(Fit), s # <<>>, NEW new \in Seq(Fit), NEW q, Follows(q, s, new)
  PROVE  LET L == Len(new)
             N == Len(s)
         IN  /\ L \in Nat /\ N \in Nat \ {0} /\ DOMAIN s = 1 .. N
             /\ DOMAIN q = 1 .. L + N - 1 /\ DOMAIN new = 1 .. L
             /\ L = 0 <=> new = <<>>
             /\ \A i \in 1 .. L : q[i] = new[i]
             /\ \A i \in 2 .. N : q[L + i - 1] = s[i]
             /\ \A i \in DOMAIN q :
                  i \notin 1 .. L => i > L /\ i - L + 1 \in 2 .. N /\ q[i] = s[i - L + 1]
<1>1. Len(new) = 0 <=> new = <<>>
  <2>1. \A S : \A x \in Seq(S) : Len(x) = 0 <=> x = <<>>
    OBVIOUS
  <2> QED
    BY <2>1
<1> QED
  BY <1>1, Replaced DEF Follows

(* They mark and settle as before.                                           *)
LEMMA MarksStay ==
  ASSUME NEW s \in Seq(Fit), s # <<>>, NEW new \in Seq(Fit), NEW q, Follows(q, s, new),
         NEW k \in 2 .. Len(s)
  PROVE  /\ Len(new) + k - 1 \in DOMAIN q /\ Len(new) + k - 1 > Len(new)
         /\ \A m, b, d, e : Marks(s, k, d, m, b) <=> Marks(q, Len(new) + k - 1, e, m, b)
         /\ \A h, b : Settles(s, k, h, b) <=> Settles(q, Len(new) + k - 1, h, b)
<1> DEFINE L == Len(new)
<1>1. /\ L + k - 1 \in DOMAIN q /\ L + k - 1 > L /\ L + k - 1 # 0 /\ k # 0
      /\ q[L + k - 1] = s[k]
  BY Numbered
<1> QED
  BY <1>1 DEF Marks, Settles

(* What is between them is so still.                                         *)
LEMMA BetweenStays ==
  ASSUME NEW s \in Seq(Fit), s # <<>>, NEW new \in Seq(Fit), NEW q, Follows(q, s, new),
         NEW i \in 1 .. Len(s), NEW j \in 1 .. Len(s), i < j,
         NEW m, NEW h, NEW b, Between(s, i, j, m, h, b)
  PROVE  Between(q, Len(new) + i - 1, Len(new) + j - 1, m, h, b)
<1> DEFINE L == Len(new)
           N == Len(s)
<1>1. /\ L \in Nat /\ N \in Nat /\ DOMAIN q = 1 .. L + N - 1
      /\ \A k \in 2 .. N : q[L + k - 1] = s[k]
  BY Numbered
<1> HIDE DEF L, N
<1> SUFFICES ASSUME NEW k \in (L + i - 1) + 1 .. (L + j - 1) - 1
             PROVE  Calm(q[k], m, h, b)
  BY DEF Between, L
<1>2. i \in 1 .. N /\ j \in 1 .. N
  BY DEF N
<1>3. k - L + 1 \in 2 .. N /\ L + (k - L + 1) - 1 = k /\ k - L + 1 \in i + 1 .. j - 1
  BY <1>1, <1>2
<1>4. q[k] = s[k - L + 1]
  BY <1>1, <1>3
<1> QED
  BY <1>3, <1>4 DEF Between

(* And so is what is before them, if what is new is calm.                    *)
LEMMA BeforeStays ==
  ASSUME NEW s \in Seq(Fit), s # <<>>, NEW new \in Seq(Fit), NEW q, Follows(q, s, new),
         NEW j \in 2 .. Len(s), NEW m, NEW h, NEW b, Between(s, 0, j, m, h, b)
  PROVE  /\ Calm(s[1], m, h, b)
         /\ (\A i \in DOMAIN new : Calm(new[i], m, h, b)) =>
              Between(q, 0, Len(new) + j - 1, m, h, b)
<1> DEFINE L == Len(new)
           N == Len(s)
<1>1. /\ L \in Nat /\ N \in Nat /\ DOMAIN q = 1 .. L + N - 1 /\ DOMAIN new = 1 .. L
      /\ \A i \in 1 .. L : q[i] = new[i]
      /\ \A i \in 2 .. N : q[L + i - 1] = s[i]
  BY Numbered
<1> HIDE DEF L, N
<1>2. Calm(s[1], m, h, b)
  <2>1. 1 \in 0 + 1 .. j - 1
    OBVIOUS
  <2> QED
    BY <2>1 DEF Between
<1>3. ASSUME \A i \in DOMAIN new : Calm(new[i], m, h, b)
      PROVE  Between(q, 0, L + j - 1, m, h, b)
  <2> SUFFICES ASSUME NEW k \in 0 + 1 .. (L + j - 1) - 1
               PROVE  Calm(q[k], m, h, b)
    BY DEF Between
  <2>1. CASE k \in 1 .. L
    BY <1>1, <1>3, <2>1
  <2>2. CASE k \notin 1 .. L
    <3>1. j \in 2 .. N
      BY DEF N
    <3>2. k - L + 1 \in 2 .. N /\ L + (k - L + 1) - 1 = k /\ k - L + 1 \in 0 + 1 .. j - 1
      BY <1>1, <2>2, <3>1
    <3>3. q[k] = s[k - L + 1]
      BY <1>1, <3>2
    <3> QED
      BY <3>2, <3>3 DEF Between
  <2> QED
    BY <2>1, <2>2
<1> QED
  BY <1>2, <1>3 DEF L

(* The new steps are by themselves as is said of all of them, and the old    *)
(* ones do not rest on the first.                                            *)
Fitting(s, new, d, e, m, h) ==
  \A b \in BOOLEAN :
    /\ \A j \in DOMAIN new : Settles(new, j, h, b) =>
         \E i \in 1 .. j - 1 : Marks(new, i, d, m, b) /\ Between(new, i, j, m, h, b)
    /\ \A i \in DOMAIN new : Marks(new, i, d, m, b) =>
         \E j \in DOMAIN new :
           i < j /\ Settles(new, j, h, b) /\ Between(new, i, j, m, h, b)
    /\ Marks(s, 1, d, m, b) => new = <<>> /\ e = b
    /\ Calm(s[1], m, h, b) => /\ e = d
                              /\ \A i \in DOMAIN new : Calm(new[i], m, h, b)

(* The first of some steps leaves the others: what is said of all of them is *)
(* so afterwards, if it is of the new ones, and if the old ones did not rest *)
(* on the first.                                                             *)
LEMMA HeldAfter ==
  ASSUME NEW s \in Seq(Fit), s # <<>>, NEW new \in Seq(Fit), NEW m, NEW h, NEW d, NEW e,
         Held(s, d, m, h), NEW q, Follows(q, s, new),
         Fitting(s, new, d, e, m, h)
  PROVE  Held(q, e, m, h)
<1> DEFINE L == Len(new)
           N == Len(s)
<1> SUFFICES ASSUME NEW b \in BOOLEAN
             PROVE  /\ \A j \in DOMAIN q : Settles(q, j, h, b) =>
                         \E i \in 0 .. j - 1 : Marks(q, i, e, m, b) /\ Between(q, i, j, m, h, b)
                    /\ \A i \in DOMAIN q : Marks(q, i, e, m, b) =>
                         \E j \in DOMAIN q :
                           i < j /\ Settles(q, j, h, b) /\ Between(q, i, j, m, h, b)
  BY DEF Held
<1>1. /\ L \in Nat /\ N \in Nat \ {0} /\ DOMAIN s = 1 .. N
      /\ DOMAIN q = 1 .. L + N - 1 /\ DOMAIN new = 1 .. L
      /\ L = 0 <=> new = <<>>
      /\ \A i \in 1 .. L : q[i] = new[i]
      /\ \A i \in DOMAIN q : i \notin 1 .. L => i > L /\ i - L + 1 \in 2 .. N
  BY Numbered
<1>2. ASSUME NEW k \in 2 .. N
      PROVE  /\ L + k - 1 \in DOMAIN q /\ L + k - 1 > L
             /\ Marks(s, k, d, m, b) <=> Marks(q, L + k - 1, e, m, b)
             /\ Settles(s, k, h, b) <=> Settles(q, L + k - 1, h, b)
  BY MarksStay
<1>3. ASSUME NEW i \in 1 .. N, NEW j \in 1 .. N, i < j, Between(s, i, j, m, h, b)
      PROVE  Between(q, L + i - 1, L + j - 1, m, h, b)
  BY <1>3, BetweenStays
<1>4. ASSUME NEW j \in 2 .. N, Between(s, 0, j, m, h, b)
      PROVE  /\ Calm(s[1], m, h, b)
             /\ (\A i \in DOMAIN new : Calm(new[i], m, h, b)) =>
                  Between(q, 0, L + j - 1, m, h, b)
  BY <1>4, BeforeStays
<1>5. /\ \A j \in DOMAIN s : Settles(s, j, h, b) =>
           \E i \in 0 .. j - 1 : Marks(s, i, d, m, b) /\ Between(s, i, j, m, h, b)
      /\ \A i \in DOMAIN s : Marks(s, i, d, m, b) =>
           \E j \in DOMAIN s : i < j /\ Settles(s, j, h, b) /\ Between(s, i, j, m, h, b)
  BY DEF Held
<1>6. /\ \A j \in DOMAIN new : Settles(new, j, h, b) =>
           \E i \in 1 .. j - 1 : Marks(new, i, d, m, b) /\ Between(new, i, j, m, h, b)
      /\ \A i \in DOMAIN new : Marks(new, i, d, m, b) =>
           \E j \in DOMAIN new : i < j /\ Settles(new, j, h, b) /\ Between(new, i, j, m, h, b)
      /\ Marks(s, 1, d, m, b) => new = <<>> /\ e = b
      /\ Calm(s[1], m, h, b) => e = d /\ \A i \in DOMAIN new : Calm(new[i], m, h, b)
  BY DEF Fitting
<1>7. \A i, j \in 1 .. L : /\ Between(new, i, j, m, h, b) => Between(q, i, j, m, h, b)
                           /\ Marks(new, i, d, m, b) <=> Marks(q, i, e, m, b)
                           /\ Settles(new, i, h, b) <=> Settles(q, i, h, b)
  <2> SUFFICES ASSUME NEW i \in 1 .. L, NEW j \in 1 .. L
               PROVE  /\ Between(new, i, j, m, h, b) => Between(q, i, j, m, h, b)
                      /\ Marks(new, i, d, m, b) <=> Marks(q, i, e, m, b)
                      /\ Settles(new, i, h, b) <=> Settles(q, i, h, b)
    OBVIOUS
  <2>1. i # 0 /\ q[i] = new[i] /\ \A k \in i + 1 .. j - 1 : k \in 1 .. L
    BY <1>1
  <2> QED
    BY <1>1, <2>1 DEF Between, Marks, Settles
<1> HIDE DEF L, N
<1>8. ASSUME NEW j \in DOMAIN q, Settles(q, j, h, b)
      PROVE  \E i \in 0 .. j - 1 : Marks(q, i, e, m, b) /\ Between(q, i, j, m, h, b)
  <2>1. CASE j \in 1 .. L
    <3>1. PICK i \in 1 .. j - 1 : Marks(new, i, d, m, b) /\ Between(new, i, j, m, h, b)
      BY <1>1, <1>7, <1>8, <1>6, <2>1
    <3>2. i \in 1 .. L /\ i \in 0 .. j - 1
      BY <1>1, <2>1
    <3> QED
      BY <1>7, <2>1, <3>1, <3>2
  <2>2. CASE j \notin 1 .. L
    <3> DEFINE k == j - L + 1
    <3>1. k \in 2 .. N /\ k \in 1 .. N /\ L + k - 1 = j
      BY <1>1, <2>2
    <3> HIDE DEF k
    <3>2. k \in DOMAIN s /\ Settles(s, k, h, b)
      BY <1>1, <1>2, <1>8, <3>1
    <3>3. PICK i \in 0 .. k - 1 : Marks(s, i, d, m, b) /\ Between(s, i, k, m, h, b)
      BY <1>5, <3>2
    <3>4. CASE i = 0
      <4>1. e = d /\ \A x \in DOMAIN new : Calm(new[x], m, h, b)
        BY <1>4, <1>6, <3>1, <3>3, <3>4
      <4>2. Between(q, 0, j, m, h, b)
        BY <1>1, <1>2, <1>3, <1>4, <3>1, <3>3, <3>4, <4>1
      <4>3. Marks(q, 0, e, m, b)
        BY <3>3, <3>4, <4>1 DEF Marks
      <4>4. 0 \in 0 .. j - 1
        BY <1>1, <3>1
      <4> QED
        BY <4>2, <4>3, <4>4
    <3>5. CASE i = 1
      <4>1. L = 0 /\ e = b
        BY <1>1, <1>6, <3>3, <3>5
      <4>2. Between(q, L + i - 1, L + k - 1, m, h, b)
        <5>1. i \in 1 .. N /\ i < k
          BY <1>1, <3>1, <3>5
        <5> QED
          BY <1>2, <1>3, <3>1, <3>3, <5>1
      <4>3. L + i - 1 = 0 /\ 0 \in 0 .. j - 1
        BY <1>1, <3>1, <3>5, <4>1
      <4>4. Marks(q, 0, e, m, b)
        BY <4>1 DEF Marks
      <4> QED
        BY <3>1, <4>2, <4>3, <4>4
    <3>6. CASE i # 0 /\ i # 1
      <4>1. i \in 2 .. N /\ i \in 1 .. N /\ i < k /\ L + i - 1 \in 0 .. j - 1
        BY <1>1, <3>1, <3>6
      <4>2. Marks(q, L + i - 1, e, m, b) /\ Between(q, L + i - 1, j, m, h, b)
        BY <1>2, <1>3, <3>1, <3>3, <4>1
      <4> QED
        BY <4>1, <4>2
    <3> QED
      BY <3>4, <3>5, <3>6
  <2> QED
    BY <2>1, <2>2
<1>9. ASSUME NEW i \in DOMAIN q, Marks(q, i, e, m, b)
      PROVE  \E j \in DOMAIN q : i < j /\ Settles(q, j, h, b) /\ Between(q, i, j, m, h, b)
  <2>1. CASE i \in 1 .. L
    <3>1. PICK j \in DOMAIN new : i < j /\ Settles(new, j, h, b) /\ Between(new, i, j, m, h, b)
      BY <1>1, <1>7, <1>9, <1>6, <2>1
    <3>2. j \in 1 .. L /\ j \in DOMAIN q
      <4>1. N # 0
        BY <1>1, <1>9
      <4> QED
        BY <1>1, <2>1, <4>1
    <3> QED
      BY <1>7, <2>1, <3>1, <3>2
  <2>2. CASE i \notin 1 .. L
    <3> DEFINE k == i - L + 1
    <3>1. k \in 2 .. N /\ k \in 1 .. N /\ L + k - 1 = i
      BY <1>1, <2>2
    <3> HIDE DEF k
    <3>2. k \in DOMAIN s /\ Marks(s, k, d, m, b)
      BY <1>1, <1>2, <1>9, <3>1
    <3>3. PICK j \in DOMAIN s : k < j /\ Settles(s, j, h, b) /\ Between(s, k, j, m, h, b)
      BY <1>5, <3>2
    <3>4. j \in 2 .. N /\ j \in 1 .. N /\ i < L + j - 1
      BY <1>1, <3>1, <3>3
    <3>5. /\ L + j - 1 \in DOMAIN q /\ Settles(q, L + j - 1, h, b)
          /\ Between(q, i, L + j - 1, m, h, b)
      BY <1>2, <1>3, <1>4, <3>1, <3>3, <3>4
    <3> QED
      BY <3>4, <3>5
  <2> QED
    BY <2>1, <2>2
<1> QED
  BY <1>8, <1>9

(* What is owed stays so, if the first step does not settle it.              *)
LEMMA OwedAfter ==
  ASSUME NEW s \in Seq(Fit), s # <<>>, NEW new \in Seq(Fit), NEW q, Follows(q, s, new),
         NEW m, NEW h, NEW d, Owed(s, d, m, h), ~Settles(s, 1, h, d)
  PROVE  /\ Calm(s[1], m, h, d)
         /\ (\A i \in DOMAIN new : Calm(new[i], m, h, d)) => Owed(q, d, m, h)
<1>1. PICK j \in DOMAIN s : Settles(s, j, h, d) /\ Between(s, 0, j, m, h, d)
  BY DEF Owed
<1>2. j \in 2 .. Len(s)
  <2>1. DOMAIN s = 1 .. Len(s) /\ j # 1
    BY <1>1, Numbered
  <2> QED
    BY <2>1
<1>3. /\ Calm(s[1], m, h, d)
      /\ (\A i \in DOMAIN new : Calm(new[i], m, h, d)) =>
           Between(q, 0, Len(new) + j - 1, m, h, d)
  BY <1>1, <1>2, BeforeStays
<1>4. Len(new) + j - 1 \in DOMAIN q /\ Settles(q, Len(new) + j - 1, h, d)
  BY <1>1, <1>2, MarksStay
<1> QED
  BY <1>3, <1>4 DEF Owed

(* As m becomes done or ended, the flag of h is owed.                        *)
LEMMA OwedMarked ==
  ASSUME NEW s \in Seq(Fit), s # <<>>, NEW q, Follows(q, s, <<>>),
         NEW m, NEW h, NEW d, Held(s, d, m, h), NEW b \in BOOLEAN, Marks(s, 1, d, m, b)
  PROVE  Owed(q, b, m, h)
<1>1. <<>> \in Seq(Fit) /\ Len(<<>>) = 0
  OBVIOUS
<1>2. DOMAIN s = 1 .. Len(s) /\ Len(s) \in Nat \ {0} /\ 1 \in DOMAIN s
  <2>1. DOMAIN s = 1 .. Len(s) /\ Len(s) \in Nat \ {0}
    BY <1>1, Numbered
  <2> QED
    BY <2>1
<1>3. PICK j \in DOMAIN s : 1 < j /\ Settles(s, j, h, b) /\ Between(s, 1, j, m, h, b)
  BY <1>2 DEF Held
<1>4. j \in 2 .. Len(s) /\ j \in 1 .. Len(s) /\ 1 \in 1 .. Len(s)
  BY <1>2, <1>3
<1>5. Len(<<>>) + j - 1 \in DOMAIN q /\ Settles(q, Len(<<>>) + j - 1, h, b)
  BY <1>1, <1>3, <1>4, MarksStay
<1>6. Between(q, Len(<<>>) + 1 - 1, Len(<<>>) + j - 1, m, h, b)
  BY <1>1, <1>3, <1>4, BetweenStays
<1>7. Len(<<>>) + 1 - 1 = 0
  BY <1>1
<1> QED
  BY <1>5, <1>6, <1>7 DEF Owed

(* Other steps lead to none about m and the flag of h.                       *)
LEMMA NewElsewhere ==
  ASSUME HintInv, NEW t \in Threads, stack[t] # <<>>, NEW m \in Hints, NEW h, Masks(m, h),
         ~(Top(t).op \in {"do", "end"} /\ Top(t).hint = m), NEW i \in DOMAIN New(t)
  PROVE  /\ ~(New(t)[i].op \in {"doStatus", "endStatus"} /\ New(t)[i].hint = m)
         /\ ~(New(t)[i].op \in {"mask", "unmask"} /\ New(t)[i].hint = h)
         /\ \A b : Calm(Top(t), m, h, b) => Calm(New(t)[i], m, h, b)
<1> DEFINE k == Top(t).hint
           x == New(t)[i]
<1>1. New(t) # <<>> /\ Top(t).op \in {"do", "end"} /\ k \in Hints /\ k # m /\ Parsed
  BY NewFits DEF HintInv
<1>2. \A z : Masks(k, z) => z # h
  BY <1>1, OneMasker
<1>3. \/ x.op \in {"request", "doStatus", "cancel", "endStatus"} /\ x.hint = k
      \/ x.op \in {"do", "end"} /\ x.hint \in Targets(actions_[k]) \cap Names
      \/ x.op \in {"mask", "unmask"} /\ Masks(k, x.hint)
  <2>1. CASE Top(t).op = "do"
    <3> DEFINE acts == DoHintAction(k)
    <3>1. /\ i = 1 => x = Requested(t)
          /\ i = 2 => x = Counted(t)
          /\ i \notin {1, 2} => i - 2 \in DOMAIN acts /\ x = acts[i - 2]
      BY <1>1, <2>1, NewDo
    <3>2. /\ Requested(t).op = "request" /\ Requested(t).hint = k
          /\ Counted(t).op = "doStatus" /\ Counted(t).hint = k
      BY DEF Requested, Counted
    <3>3. \A j \in DOMAIN acts :
            \/ acts[j].op \in {"do", "end"} /\ acts[j].hint \in Targets(actions_[k]) \cap Names
            \/ acts[j].op = "mask" /\ Masks(k, acts[j].hint)
      BY <1>1, ActionsAre
    <3> HIDE DEF acts, x, k
    <3> QED
      BY <3>1, <3>2, <3>3
  <2>2. CASE Top(t).op = "end"
    <3> DEFINE acts == EndHintAction(k)
    <3>1. /\ i = 1 => x = [op |-> "cancel", hint |-> k]
          /\ i = 2 => x = [op |-> "endStatus", hint |-> k]
          /\ i \notin {1, 2} => i - 2 \in DOMAIN acts /\ x = acts[i - 2]
      BY <1>1, <2>2, NewEnd
    <3>2. \A j \in DOMAIN acts : acts[j].op = "unmask" /\ Masks(k, acts[j].hint)
      BY <1>1, ActionsAre
    <3> HIDE DEF acts, x, k
    <3> QED
      BY <3>1, <3>2
  <2> QED
    BY <1>1, <2>1, <2>2
<1>4. ASSUME NEW b, Calm(Top(t), m, h, b)
      PROVE  Calm(x, m, h, b)
  <2>1. m \notin Led({k}, actions_)
    BY <1>1, <1>4 DEF Calm
  <2>2. ASSUME x.hint \in Targets(actions_[k]) \cap Names
        PROVE  m \notin Led({x.hint}, actions_)
    <3>1. k \in Names
      BY <1>1, HintsParsed DEF HintsOK
    <3>2. x.hint \in Led({k}, actions_)
      BY <1>1, <2>2, <3>1, LedHas DEF Hints
    <3>3. {x.hint} \subseteq Led({k}, actions_)
      BY <3>2
    <3>4. Led({x.hint}, actions_) \subseteq Led({k}, actions_)
      BY <3>3, LedOn
    <3> QED
      BY <2>1, <3>4
  <2> HIDE DEF x, k
  <2> QED
    BY <1>1, <1>2, <1>3, <2>2 DEF Calm
<1> HIDE DEF x, k
<1>5. /\ ~(x.op \in {"doStatus", "endStatus"} /\ x.hint = m)
      /\ ~(x.op \in {"mask", "unmask"} /\ x.hint = h)
  BY <1>1, <1>2, <1>3
<1> QED
  BY <1>4, <1>5 DEF x

(* What m leads to does not touch m, and sets the flag of h after m.         *)
LEMMA NewOwn ==
  ASSUME HintInv, NEW t \in Threads, stack[t] # <<>>, NEW m \in Hints, NEW h, Masks(m, h),
         Top(t).op \in {"do", "end"}, Top(t).hint = m, New(t) # <<>>
  PROVE  LET b == Top(t).op = "do"
             s == New(t)
         IN  /\ 2 \in DOMAIN s /\ s[2].hint = m /\ s[2].op = IF b THEN "doStatus" ELSE "endStatus"
             /\ s[1].op \in {"request", "cancel"}
             /\ \E j \in DOMAIN s : j > 2 /\ Settles(s, j, h, b)
             /\ \A j \in DOMAIN s : j \notin {1, 2} =>
                  /\ j > 2 /\ Calm(s[j], m, h, b) /\ ~Settles(s, j, h, ~b)
                  /\ s[j].op \notin {"doStatus", "endStatus"}
<1> DEFINE s == New(t)
<1>1. Parsed /\ m \in Names /\ m \notin Led(Targets(actions_[m]), actions_)
  <2>1. Parsed
    BY DEF HintInv
  <2> QED
    BY <2>1, HintsParsed, OneMasker DEF HintsOK
<1>2. ASSUME NEW z \in Targets(actions_[m]) \cap Names
      PROVE  m \notin Led({z}, actions_)
  <2>1. {z} \subseteq Led(Targets(actions_[m]), actions_)
    BY LedHas
  <2>2. Led({z}, actions_) \subseteq Led(Targets(actions_[m]), actions_)
    BY <2>1, LedOn
  <2> QED
    BY <1>1, <2>2
<1>3. CASE Top(t).op = "do"
  <2> DEFINE acts == DoHintAction(m)
  <2>1. /\ 1 \in DOMAIN s /\ 2 \in DOMAIN s
        /\ s[1] = Requested(t) /\ s[2] = Counted(t)
        /\ \A j \in DOMAIN s :
             j \notin {1, 2} => j > 2 /\ j - 2 \in DOMAIN acts /\ s[j] = acts[j - 2]
        /\ \A j \in DOMAIN acts : j + 2 \in DOMAIN s /\ s[j + 2] = acts[j]
    BY <1>3, NewDo
  <2>2. /\ Requested(t).op = "request"
        /\ Counted(t).op = "doStatus" /\ Counted(t).hint = m
    BY DEF Requested, Counted
  <2>3. /\ \A j \in DOMAIN acts :
             \/ acts[j].op \in {"do", "end"} /\ acts[j].hint \in Targets(actions_[m]) \cap Names
             \/ acts[j].op = "mask"
        /\ \E j \in DOMAIN acts : acts[j].op = "mask" /\ acts[j].hint = h
        /\ acts \in Seq(Fit)
    BY <1>1, ActionsAre
  <2> HIDE DEF acts, s
  <2>4. \E j \in DOMAIN s : j > 2 /\ Settles(s, j, h, TRUE)
    <3>1. PICK j \in DOMAIN acts : acts[j].op = "mask" /\ acts[j].hint = h
      BY <2>3
    <3>2. j + 2 > 2
      <4>1. \A x \in Seq(Fit) : \A y \in DOMAIN x : y + 2 > 2
        OBVIOUS
      <4> QED
        BY <2>3, <4>1
    <3> QED
      BY <2>1, <3>1, <3>2 DEF Settles
  <2>5. ASSUME NEW j \in DOMAIN s, j \notin {1, 2}
        PROVE  /\ j > 2 /\ Calm(s[j], m, h, TRUE) /\ ~Settles(s, j, h, FALSE)
               /\ s[j].op \notin {"doStatus", "endStatus"}
    <3>1. /\ j > 2
          /\ \/ s[j].op \in {"do", "end"} /\ s[j].hint \in Targets(actions_[m]) \cap Names
             \/ s[j].op = "mask"
      BY <2>1, <2>3, <2>5
    <3>2. s[j].op \in {"do", "end"} => m \notin Led({s[j].hint}, actions_)
      BY <1>2, <3>1
    <3> QED
      BY <3>1, <3>2 DEF Calm, Settles
  <2> QED
    BY <1>3, <2>1, <2>2, <2>4, <2>5 DEF s
<1>4. CASE Top(t).op = "end"
  <2> DEFINE acts == EndHintAction(m)
  <2>1. /\ 1 \in DOMAIN s /\ 2 \in DOMAIN s
        /\ s[1] = [op |-> "cancel", hint |-> m] /\ s[2] = [op |-> "endStatus", hint |-> m]
        /\ \A j \in DOMAIN s :
             j \notin {1, 2} => j > 2 /\ j - 2 \in DOMAIN acts /\ s[j] = acts[j - 2]
        /\ \A j \in DOMAIN acts : j + 2 \in DOMAIN s /\ s[j + 2] = acts[j]
    BY <1>4, NewEnd
  <2>2. /\ \A j \in DOMAIN acts : acts[j].op = "unmask"
        /\ \E j \in DOMAIN acts : acts[j].op = "unmask" /\ acts[j].hint = h
        /\ acts \in Seq(Fit)
    <3>1. \A j \in DOMAIN acts : acts[j].op = "unmask"
      BY <1>1, ActionsAre
    <3>2. \E j \in DOMAIN acts : acts[j].op = "unmask" /\ acts[j].hint = h
      BY <1>1, ActionsAre
    <3>3. acts \in Seq(Fit)
      BY <1>1, ActionsAre
    <3> QED
      BY <3>1, <3>2, <3>3
  <2> HIDE DEF acts, s
  <2>3. \E j \in DOMAIN s : j > 2 /\ Settles(s, j, h, FALSE)
    <3>1. PICK j \in DOMAIN acts : acts[j].op = "unmask" /\ acts[j].hint = h
      BY <2>2
    <3>2. j + 2 > 2
      <4>1. \A x \in Seq(Fit) : \A y \in DOMAIN x : y + 2 > 2
        OBVIOUS
      <4> QED
        BY <2>2, <4>1
    <3> QED
      BY <2>1, <3>1, <3>2 DEF Settles
  <2>4. ASSUME NEW j \in DOMAIN s, j \notin {1, 2}
        PROVE  /\ j > 2 /\ Calm(s[j], m, h, FALSE) /\ ~Settles(s, j, h, TRUE)
               /\ s[j].op \notin {"doStatus", "endStatus"}
    <3>1. j > 2 /\ s[j].op = "unmask"
      BY <2>1, <2>2, <2>4
    <3> QED
      BY <3>1 DEF Calm, Settles
  <2>5. s[1].op = "cancel" /\ s[2].hint = m /\ s[2].op = "endStatus"
    BY <2>1
  <2> QED
    BY <1>4, <2>1, <2>3, <2>4, <2>5 DEF s
<1> QED
  BY <1>3, <1>4

(* So to start or end m fits what is said of m and h.                        *)
LEMMA OwnFits ==
  ASSUME HintInv, NEW t \in Threads, stack[t] # <<>>, NEW m \in Hints, NEW h, Masks(m, h),
         Top(t).op \in {"do", "end"}, Top(t).hint = m, NEW d
  PROVE  Fitting(stack[t], New(t), d, d, m, h)
<1> DEFINE s == New(t)
           b0 == Top(t).op = "do"
<1>1. /\ s \in Seq(Fit) /\ \A i \in DOMAIN s : s # <<>>
      /\ stack[t][1] = Top(t) /\ m \in Names
  <2>1. stack[t] \in Seq(Fit)
    BY DEF HintInv, StepsOK
  <2>2. stack[t][1] = Top(t)
    BY <2>1 DEF Top
  <2> QED
    BY <2>2, NewFits, HintsParsed DEF HintInv, HintsOK
<1>2. ~Calm(stack[t][1], m, h, TRUE) /\ ~Calm(stack[t][1], m, h, FALSE)
  <2>1. m \in Led({m}, actions_)
    BY <1>1, LedHas
  <2> QED
    BY <1>1, <2>1 DEF Calm
<1>3. \A b : ~Marks(stack[t], 1, d, m, b)
  BY <1>1 DEF Marks
<1>4. ASSUME s # <<>>, NEW b \in BOOLEAN
      PROVE  /\ \A j \in DOMAIN s : Settles(s, j, h, b) =>
                  \E i \in 1 .. j - 1 : Marks(s, i, d, m, b) /\ Between(s, i, j, m, h, b)
             /\ \A i \in DOMAIN s : Marks(s, i, d, m, b) =>
                  \E j \in DOMAIN s : i < j /\ Settles(s, j, h, b) /\ Between(s, i, j, m, h, b)
  <2>1. /\ b0 \in BOOLEAN
        /\ 2 \in DOMAIN s /\ s[2].hint = m /\ s[2].op = IF b0 THEN "doStatus" ELSE "endStatus"
        /\ s[1].op \in {"request", "cancel"}
        /\ \E j \in DOMAIN s : j > 2 /\ Settles(s, j, h, b0)
        /\ \A j \in DOMAIN s : j \notin {1, 2} =>
             /\ j > 2 /\ Calm(s[j], m, h, b0) /\ ~Settles(s, j, h, ~b0)
             /\ s[j].op \notin {"doStatus", "endStatus"}
    BY <1>4, NewOwn
  <2> HIDE DEF b0, s
  <2>2. Marks(s, 2, d, m, b0) /\ \A c \in BOOLEAN : Marks(s, 2, d, m, c) => c = b0
    BY <2>1 DEF Marks
  <2>3. DOMAIN s = 1 .. Len(s) /\ Len(s) \in Nat
    BY <1>1
  <2>4. ASSUME NEW j \in DOMAIN s, j > 2
        PROVE  Between(s, 2, j, m, h, b0)
    <3> SUFFICES ASSUME NEW k \in 2 + 1 .. j - 1
                 PROVE  Calm(s[k], m, h, b0)
      BY DEF Between
    <3>1. k \in DOMAIN s /\ k \notin {1, 2}
      BY <2>3, <2>4
    <3> QED
      BY <2>1, <3>1
  <2>5. ASSUME NEW j \in DOMAIN s, Settles(s, j, h, b)
        PROVE  \E i \in 1 .. j - 1 : Marks(s, i, d, m, b) /\ Between(s, i, j, m, h, b)
    <3>1. j \notin {1, 2}
      BY <2>1, <2>5 DEF Settles
    <3>2. j > 2 /\ b = b0
      BY <2>1, <2>5, <3>1
    <3>3. 2 \in 1 .. j - 1
      BY <2>3, <3>2
    <3> QED
      BY <2>2, <2>4, <3>2, <3>3
  <2>6. ASSUME NEW i \in DOMAIN s, Marks(s, i, d, m, b)
        PROVE  \E j \in DOMAIN s : i < j /\ Settles(s, j, h, b) /\ Between(s, i, j, m, h, b)
    <3>1. i = 2
      <4>1. s[i].op \in {"doStatus", "endStatus"}
        <5>1. i # 0
          BY <2>3
        <5> QED
          BY <2>6, <5>1 DEF Marks
      <4> QED
        BY <2>1, <4>1
    <3>2. b = b0
      BY <2>2, <2>6, <3>1
    <3>3. PICK j \in DOMAIN s : j > 2 /\ Settles(s, j, h, b0)
      BY <2>1
    <3>4. 2 < j
      BY <2>3, <3>3
    <3> QED
      BY <2>4, <3>1, <3>2, <3>3, <3>4
  <2> QED
    BY <2>5, <2>6
<1> HIDE DEF s
<1>5. \A b \in BOOLEAN : ~Calm(stack[t][1], m, h, b)
  BY <1>2
<1> QED
  BY <1>1, <1>3, <1>4, <1>5 DEF Fitting, s

(* A thread that neither marks m nor sets the flag of h owes nothing.        *)
LEMMA Idle ==
  ASSUME NEW s \in Seq(Fit), NEW m, NEW h,
         \A i \in DOMAIN s : Concerns(s[i], m, h) => s[i].op \in {"do", "end"}
  PROVE  \A d : Held(s, d, m, h) /\ ~Owed(s, d, m, h)
<1>1. \A i \in DOMAIN s : i # 0
  OBVIOUS
<1>2. ASSUME NEW i \in DOMAIN s, NEW d, NEW b \in BOOLEAN
      PROVE  ~Marks(s, i, d, m, b) /\ ~Settles(s, i, h, b)
  BY <1>1 DEF Marks, Settles, Concerns, On
<1>3. ASSUME NEW i \in DOMAIN s, NEW d
      PROVE  ~Settles(s, i, h, d)
  BY DEF Settles, Concerns
<1> QED
  BY <1>2, <1>3 DEF Held, Owed

(* What the steps change of the flags.                                       *)
LEMMA FlagsAfter ==
  ASSUME HintInv, NEW t \in Threads, Step(t), NEW h \in Hints
  PROVE  /\ Top(t).op = "mask" /\ Top(t).hint = h => enabled'[h] = FALSE
         /\ Top(t).op = "unmask" /\ Top(t).hint = h => enabled'[h] = TRUE
         /\ ~(Top(t).op \in {"mask", "unmask"} /\ Top(t).hint = h) => enabled'[h] = enabled[h]
<1>1. enabled \in [Hints -> BOOLEAN]
  BY DEF HintInv, HintTypes
<1>2. CASE Mask(t)
  <2>1. Top(t).op = "mask" /\ enabled' = [k \in Hints |-> enabled[k] /\ k # Top(t).hint]
    BY <1>2 DEF Mask, Takes
  <2> QED
    BY <1>1, <2>1
<1>3. CASE Unmasked(t)
  <2>1. Top(t).op = "unmask" /\ enabled' = [k \in Hints |-> enabled[k] \/ k = Top(t).hint]
    BY <1>3 DEF Unmasked, Takes
  <2> QED
    BY <1>1, <2>1
<1>4. CASE ~Mask(t) /\ ~Unmasked(t)
  <2>1. enabled' = enabled
    BY <1>4 DEF Step, DoHint, Request, DoHintStatus, EndHint, Cancel, EndHintStatus
  <2>2. Top(t).op \notin {"mask", "unmask"}
    BY <1>4, NewPut
  <2> QED
    BY <2>1, <2>2
<1> QED
  BY <1>2, <1>3, <1>4

(* So a flag is still as what masks it is done, once nothing is owed.        *)
LEMMA StepMask ==
  ASSUME HintInv, RightOK, LockOK, NEW t \in Threads, Step(t),
         NEW m \in Hints, NEW h \in Hints, Masks(m, h), MaskOK(m, h)
  PROVE  MaskOK(m, h)'
<1> DEFINE s == stack[t]
           q == stack'[t]
           d == done[m]
           e == done'[m]
           x == Top(t)
           Due(u) == Owed(stack[u], d, m, h)
           DueNext(u) == Owed(stack'[u], e, m, h)
<1>1. /\ s \in Seq(Fit) /\ s # <<>> /\ New(t) \in Seq(Fit) /\ s[1] = x
      /\ Follows(q, s, New(t))
      /\ \A u \in Threads \ {t} : stack'[u] = stack[u]
      /\ UNCHANGED configVars /\ Parsed
  BY StacksAfter DEF Follows, HintInv
<1>2. /\ \A u \in Threads : Held(stack[u], d, m, h)
      /\ enabled[h] = d => \E u \in Threads : Due(u)
      /\ d \in BOOLEAN /\ enabled[h] \in BOOLEAN
  <2>1. done \in [Hints -> BOOLEAN] /\ enabled \in [Hints -> BOOLEAN]
    BY DEF HintInv, HintTypes
  <2> QED
    BY <2>1 DEF MaskOK
<1>3. ASSUME Concerns(x, m, h), NEW u \in Threads \ {t}
      PROVE  \A c : Held(stack[u], c, m, h) /\ ~Owed(stack[u], c, m, h)
  <2>1. \A i \in DOMAIN stack[u] : ~Concerns(stack[u][i], m, h)
    <3> SUFFICES ASSUME NEW i \in DOMAIN stack[u], Concerns(stack[u][i], m, h)
                 PROVE  FALSE
      OBVIOUS
    <3>1. 1 \in DOMAIN stack[t] /\ Concerns(stack[t][1], m, h)
      <4>1. \A z \in Seq(Fit) : z # <<>> => 1 \in DOMAIN z
        OBVIOUS
      <4> QED
        BY <1>1, <1>3, <4>1
    <3> QED
      BY <1>1, <3>1, OneAtATime
  <2>2. stack[u] \in Seq(Fit)
    BY DEF HintInv, StepsOK
  <2> QED
    BY <2>1, <2>2, Idle
<1>4. /\ x.op \notin {"do", "end"} => New(t) = <<>>
      /\ \A S : \A i \in DOMAIN <<>> : i \in S
  BY DEF New
<1>5. ASSUME x.op \notin {"doStatus", "endStatus"} \/ x.hint # m
      PROVE  e = d
  BY <1>5, Effects
<1>6. SUFFICES /\ \A u \in Threads : Held(stack'[u], e, m, h)
               /\ enabled'[h] = e => \E u \in Threads : DueNext(u)
  BY <1>1, MaskStays
<1> HIDE DEF s, q, d, e, x, Due, DueNext
<1>7. CASE x.op \in {"do", "end"} /\ x.hint = m
  <2>1. Fitting(s, New(t), d, d, m, h)
    BY <1>1, <1>7, OwnFits DEF s, x
  <2>2. Held(q, d, m, h)
    BY <1>1, <1>2, <2>1, HeldAfter DEF s
  <2>3. e = d /\ enabled'[h] = enabled[h]
    BY <1>5, <1>7, FlagsAfter DEF x
  <2>4. Concerns(x, m, h)
    BY <1>7 DEF Concerns, On
  <2>5. ASSUME enabled[h] = d
        PROVE  FALSE
    <3>1. Due(t)
      BY <1>2, <1>3, <2>4, <2>5 DEF Due
    <3>2. ~Settles(s, 1, h, d)
      BY <1>1, <1>7 DEF Settles
    <3>3. Calm(x, m, h, d)
      BY <1>1, <3>1, <3>2, OwedAfter DEF Due, s
    <3>4. m \in Led({m}, actions_)
      BY <1>1, LedHas, HintsParsed DEF HintsOK
    <3> QED
      BY <1>7, <3>3, <3>4 DEF Calm
  <2> QED
    BY <1>1, <1>2, <2>2, <2>3, <2>5 DEF q
<1>8. CASE /\ ~(x.op \in {"do", "end", "doStatus", "endStatus"} /\ x.hint = m)
           /\ ~(x.op \in {"mask", "unmask"} /\ x.hint = h)
  <2>1. e = d /\ enabled'[h] = enabled[h]
    BY <1>5, <1>8, FlagsAfter DEF x
  <2>2. \A i \in DOMAIN New(t) :
          /\ ~(New(t)[i].op \in {"doStatus", "endStatus"} /\ New(t)[i].hint = m)
          /\ ~(New(t)[i].op \in {"mask", "unmask"} /\ New(t)[i].hint = h)
          /\ \A b : Calm(x, m, h, b) => Calm(New(t)[i], m, h, b)
    BY <1>1, <1>8, NewElsewhere DEF s, x
  <2>3. \A i \in DOMAIN New(t) : \A b :
          ~Marks(New(t), i, d, m, b) /\ ~Settles(New(t), i, h, b)
    <3>1. \A i \in DOMAIN New(t) : i # 0
      BY <1>1
    <3> QED
      BY <2>2, <3>1 DEF Marks, Settles
  <2>4. \A b : ~Marks(s, 1, d, m, b) /\ ~Settles(s, 1, h, b)
    BY <1>1, <1>8 DEF Marks, Settles
  <2>5. Fitting(s, New(t), d, d, m, h)
    BY <1>1, <2>2, <2>3, <2>4 DEF Fitting
  <2>6. Held(q, d, m, h)
    BY <1>1, <1>2, <2>5, HeldAfter DEF s
  <2>7. ASSUME NEW u \in Threads, Due(u)
        PROVE  DueNext(u)
    <3>1. CASE u = t
      <4>1. Owed(q, d, m, h)
        BY <1>1, <2>2, <2>4, <2>7, <3>1, OwedAfter DEF Due, s
      <4> QED
        BY <2>1, <3>1, <4>1 DEF DueNext, q
    <3>2. CASE u # t
      BY <1>1, <2>1, <2>7, <3>2 DEF Due, DueNext
    <3> QED
      BY <3>1, <3>2
  <2> QED
    BY <1>1, <1>2, <2>1, <2>6, <2>7 DEF q
<1>9. CASE x.op \in {"doStatus", "endStatus"} /\ x.hint = m
  <2> DEFINE b0 == x.op = "doStatus"
  <2>1. e = b0 /\ New(t) = <<>> /\ Concerns(x, m, h)
    BY <1>4, <1>9, Effects DEF e, x, Concerns, On
  <2>2. b0 \in BOOLEAN /\ \A b \in BOOLEAN : Marks(s, 1, d, m, b) <=> b = b0
    BY <1>1, <1>9 DEF Marks
  <2>3. \A b : ~Calm(s[1], m, h, b)
    BY <1>1, <1>9 DEF Calm
  <2> HIDE DEF b0
  <2>4. Fitting(s, <<>>, d, b0, m, h)
    BY <2>2, <2>3 DEF Fitting
  <2>5. Held(q, b0, m, h) /\ Owed(q, b0, m, h)
    <3>1. Held(q, b0, m, h)
      BY <1>1, <1>2, <2>1, <2>4, HeldAfter DEF s
    <3>2. Owed(q, b0, m, h)
      BY <1>1, <1>2, <2>1, <2>2, OwedMarked DEF s
    <3> QED
      BY <3>1, <3>2
  <2>6. ASSUME NEW u \in Threads \ {t}
        PROVE  Held(stack'[u], e, m, h)
    BY <1>1, <1>3, <2>1
  <2> QED
    BY <2>1, <2>5, <2>6 DEF q, DueNext
<1>10. CASE x.op \in {"mask", "unmask"} /\ x.hint = h
  <2> DEFINE b0 == x.op = "mask"
  <2>1. e = d /\ New(t) = <<>> /\ enabled'[h] = ~b0
    BY <1>4, <1>5, <1>10, FlagsAfter DEF x
  <2>2. b0 \in BOOLEAN /\ Settles(s, 1, h, b0)
    BY <1>1, <1>10 DEF Settles
  <2>3. \A b : ~Marks(s, 1, d, m, b)
    BY <1>1, <1>10 DEF Marks
  <2> HIDE DEF b0
  <2>4. d = b0
    <3>1. 1 \in DOMAIN s /\ Held(s, d, m, h)
      <4>1. \A z \in Seq(Fit) : z # <<>> => 1 \in DOMAIN z
        OBVIOUS
      <4> QED
        BY <1>1, <1>2, <4>1 DEF s
    <3>2. PICK i \in 0 .. 1 - 1 : Marks(s, i, d, m, b0)
      BY <2>2, <3>1 DEF Held
    <3>3. i = 0
      OBVIOUS
    <3> QED
      BY <3>2, <3>3 DEF Marks
  <2>5. Fitting(s, <<>>, d, d, m, h)
    BY <2>3 DEF Fitting
  <2>6. Held(q, d, m, h)
    BY <1>1, <1>2, <2>1, <2>5, HeldAfter DEF s
  <2>7. \A u \in Threads : Held(stack'[u], e, m, h)
    BY <1>1, <1>2, <2>1, <2>6 DEF q
  <2> QED
    BY <2>1, <2>2, <2>4, <2>7
<1> QED
  BY <1>7, <1>8, <1>9, <1>10

(* A step keeps what is said of flags and statistics.                        *)
LEMMA StepWrites ==
  ASSUME HintInv, WriteInv, NEW t \in Threads, Step(t)
  PROVE  WriteInv'
<1>1. RightOK /\ LockOK /\ PairsOK /\ StatusOK /\ MasksOK
  BY DEF WriteInv
<1>2. HintInv' /\ Hints' = Hints /\ \A m, h : Masks(m, h)' = Masks(m, h)
  <2>1. HintNext
    BY DEF HintNext
  <2> QED
    BY <2>1, HintManagerKeeps, StacksAfter, NodesStay, RightStays
<1>3. StatusOK'
  <2>1. \A h \in Hints : CoveredOK(h)' /\ CountedOK(h)'
    BY <1>1, <1>2, StepCovered, StepCounted DEF StatusOK
  <2> QED
    BY <1>2, <2>1 DEF StatusOK
<1>4. ASSUME NEW h \in Hints
      PROVE  enabled'[h] \/ \E m \in Hints : Masks(m, h)
  <2>1. enabled[h] \/ \E m \in Hints : Masks(m, h)
    BY <1>1 DEF MasksOK
  <2>2. Top(t).op = "mask" /\ Top(t).hint = h => \E m \in Hints : Masks(m, h)
    BY <1>1, StepRight DEF Right
  <2> QED
    BY <2>1, <2>2, FlagsAfter
<1>5. \A h, m \in Hints : Masks(m, h) => MaskOK(m, h)'
  BY <1>1, StepMask DEF MasksOK
<1>6. MasksOK'
  BY <1>2, <1>4, <1>5 DEF MasksOK
<1> QED
  BY <1>1, <1>3, <1>6, StepRight, StepLock, StepPairs DEF WriteInv

-----------------------------------------------------------------------------
(* The other steps of the service.                                           *)

(* A HintManager that no thread is in.                                       *)
Fresh ==
  /\ \A t \in Threads : stack[t] = <<>>
  /\ \A h \in Hints : /\ enabled[h] = TRUE /\ done[h] = FALSE /\ request[h] = NoRequest
                      /\ start_time[h] = TimeMin /\ end_time[h] = TimeMin
                      /\ duration_ms[h] = 0

(* Nothing is owed in it, and nothing is recorded.                           *)
LEMMA FreshOK == HintInv /\ Fresh => WriteInv
<1> SUFFICES ASSUME HintInv, Fresh
             PROVE  WriteInv
  OBVIOUS
<1>1. \A t \in Threads :
        /\ \A S : stack[t] \in Seq(S)
        /\ \A i : i \notin DOMAIN stack[t]
  <2>1. (\A S : <<>> \in Seq(S)) /\ \A i : i \notin DOMAIN <<>>
    OBVIOUS
  <2> QED
    BY <2>1 DEF Fresh
<1>2. RightOK /\ LockOK /\ PairsOK
  <2>1. RightOK
    BY <1>1 DEF RightOK
  <2>2. LockOK
    BY <1>1 DEF LockOK
  <2>3. PairsOK
    BY <1>1 DEF PairsOK
  <2> QED
    BY <2>1, <2>2, <2>3
<1>3. ASSUME NEW h \in Hints
      PROVE  CoveredOK(h) /\ CountedOK(h)
  <2>1. TimeMin <= EndsAt(actions_[h].max_timeout) /\ TimeMin <= TimeMin
    <3>1. now \in 0 .. MaxNow /\ actions_[h].max_timeout \in 0 .. MaxNow
      BY Longest DEF HintInv, HintTypes
    <3>2. EndsAt(actions_[h].max_timeout) \in Times
      BY <3>1, EndsLater
    <3> QED
      BY <3>2, ClockBound DEF Times, TimeMin, Forever
  <2> QED
    BY <2>1 DEF Fresh, CoveredOK, CountedOK, NoRequest
<1>4. ASSUME NEW m \in Hints, NEW h \in Hints
      PROVE  MaskOK(m, h)
  <2>1. \A t \in Threads : Held(stack[t], done[m], m, h)
    BY <1>1, Idle
  <2> QED
    BY <2>1 DEF Fresh, MaskOK
<1>5. StatusOK /\ MasksOK
  BY <1>3, <1>4 DEF Fresh, StatusOK, MasksOK
<1> QED
  BY <1>2, <1>5 DEF WriteInv

(* Time passes, or nothing does.                                             *)
LEMMA WritesStay ==
  ASSUME HintInv, WriteInv, Tick \/ UNCHANGED hintVars
  PROVE  WriteInv'
<1>1. RightOK /\ LockOK /\ PairsOK /\ StatusOK /\ MasksOK
  BY DEF WriteInv
<1>2. /\ UNCHANGED <<configVars, enabled, request, start_time, end_time, duration_ms, stack, done>>
      /\ now' = now \/ now' = now + 1
  BY DEF Tick, hintVars, statusVars
<1>3. Hints' = Hints /\ actions_' = actions_
  BY <1>2, NodesStay DEF configVars
<1>4. RightOK' /\ LockOK' /\ PairsOK'
  BY <1>1, <1>2, RightStays DEF RightOK, LockOK, PairsOK, On
<1>5. ASSUME NEW h \in Hints
      PROVE  CoveredOK(h)' /\ CountedOK(h)'
  <2>1. CoveredOK(h) /\ CountedOK(h)
    BY <1>1 DEF StatusOK
  <2>2. ASSUME request[h] <= EndsAt(actions_[h].max_timeout)
        PROVE  request[h] <= EndsAt(actions_[h].max_timeout)'
    <3> DEFINE k == actions_[h].max_timeout
    <3>1. /\ now \in 0 .. MaxNow /\ k \in 0 .. MaxNow /\ request[h] \in Times
          /\ EndsAt(k) \in Times
      BY Longest, EndsLater DEF HintInv, HintTypes
    <3>2. k' = k
      BY <1>3
    <3> HIDE DEF k
    <3>3. request[h] \in Int
      BY <3>1, ClockBound DEF Times, TimeMin, Forever
    <3>4. EndsAt(k)' = IF k = 0 \/ now' + k > MaxNow THEN Forever ELSE now' + k
      BY <3>2 DEF EndsAt, Forever
    <3>5. request[h] <= EndsAt(k)
      BY <2>2 DEF k
    <3>6. request[h] <= IF k = 0 \/ now' + k > MaxNow THEN Forever ELSE now' + k
      BY <1>2, <3>1, <3>3, <3>5, ClockBound DEF EndsAt, Forever
    <3> QED
      BY <3>4, <3>6 DEF k
  <2>3. CoveredOK(h)'
    BY <1>2, <2>1, <2>2 DEF CoveredOK
  <2>4. CountedOK(h)'
    BY <1>2, <2>1 DEF CountedOK
  <2> QED
    BY <2>3, <2>4
<1>6. ASSUME NEW m \in Hints, NEW h \in Hints, Masks(m, h)
      PROVE  MaskOK(m, h)'
  <2>1. MaskOK(m, h)
    BY <1>1, <1>6 DEF MasksOK
  <2>2. /\ \A t \in Threads : Held(stack'[t], done'[m], m, h)
        /\ enabled'[h] = done'[m] => \E t \in Threads : Owed(stack'[t], done'[m], m, h)
    BY <1>2, <2>1 DEF MaskOK
  <2> QED
    BY <1>2, <2>2, MaskStays
<1>7. StatusOK' /\ MasksOK'
  BY <1>1, <1>2, <1>3, <1>5, <1>6, RightStays DEF StatusOK, MasksOK
<1> QED
  BY <1>4, <1>7 DEF WriteInv

(* A call of the service's: by a thread that may, and if it is of            *)
(* INTERACTION while no other is.                                            *)
Entered(t, step) ==
  /\ Calls(t, step) /\ step \in Right(t) /\ step.op \in {"do", "end"}
  /\ step.hint = "INTERACTION" => ~InteractionLocked

(* It keeps what is said of flags and statistics.                            *)
LEMMA CallWrites ==
  ASSUME HintInv, WriteInv, NEW t \in Threads, NEW step, Entered(t, step)
  PROVE  WriteInv'
<1>1. RightOK /\ LockOK /\ PairsOK /\ StatusOK /\ MasksOK
  BY DEF WriteInv
<1>2. /\ UNCHANGED <<configVars, now, enabled, request, start_time, end_time, duration_ms, done>>
      /\ stack[t] = <<>> /\ stack' = [stack EXCEPT ![t] = <<step>>]
      /\ step \in Right(t) /\ step \in Fit /\ step.op \in {"do", "end"}
  BY DEF Entered, Calls, statusVars, Right
<1>3. stack'[t] = <<step>> /\ \A u \in Threads \ {t} : stack'[u] = stack[u]
  BY <1>2 DEF HintInv, StepsOK
<1>4. /\ DOMAIN <<step>> = {1} /\ \A S : step \in S => <<step>> \in Seq(S)
      /\ <<step>>[1] = step /\ \A i : i \notin DOMAIN <<>>
  OBVIOUS
<1>5. DOMAIN stack'[t] = {1} /\ stack'[t][1] = step /\ \A i : i \notin DOMAIN stack[t]
  BY <1>2, <1>3, <1>4
<1>6. Hints' = Hints /\ actions_' = actions_ /\ \A k : EndsAt(k)' = EndsAt(k)
  <2>1. Hints' = Hints /\ actions_' = actions_
    BY <1>2, NodesStay DEF configVars
  <2> QED
    BY <1>2, <2>1 DEF EndsAt, Forever
<1>7. RightOK'
  <2>1. \A u \in Threads : stack'[u] \in Seq(Right(u))
    BY <1>1, <1>2, <1>3, <1>4 DEF RightOK
  <2> QED
    BY <1>2, <2>1, RightStays DEF RightOK
<1>8. LockOK'
  <2> SUFFICES ASSUME NEW u \in Threads, NEW v \in Threads,
                      NEW i \in DOMAIN stack'[u], NEW j \in DOMAIN stack'[v],
                      On(stack'[u][i], "INTERACTION"), On(stack'[v][j], "INTERACTION")
               PROVE  u = v
    BY DEF LockOK, On
  <2>1. \A w \in Threads \ {t} : \A k \in DOMAIN stack[w] :
          step.hint = "INTERACTION" => stack[w][k].hint # "INTERACTION"
    BY DEF Entered, InteractionLocked
  <2>2. CASE u # t /\ v # t
    BY <1>1, <1>3, <2>2 DEF LockOK
  <2>3. CASE u = t /\ v # t
    BY <1>3, <1>5, <2>1, <2>3 DEF On
  <2>4. CASE u # t /\ v = t
    BY <1>3, <1>5, <2>1, <2>4 DEF On
  <2> QED
    BY <2>2, <2>3, <2>4
<1>9. PairsOK'
  <2> SUFFICES ASSUME NEW u \in Threads, NEW i \in DOMAIN stack'[u]
               PROVE  /\ stack'[u][i].op = "request" =>
                           /\ i + 1 \in DOMAIN stack'[u]
                           /\ stack'[u][i + 1].op = "doStatus"
                           /\ stack'[u][i + 1].hint = stack'[u][i].hint
                      /\ stack'[u][i].op = "endStatus" =>
                           IF i = 1 THEN request'[stack'[u][i].hint] = NoRequest
                           ELSE /\ stack'[u][i - 1].op = "cancel"
                                /\ stack'[u][i - 1].hint = stack'[u][i].hint
    BY DEF PairsOK
  <2>1. CASE u = t
    BY <1>2, <1>5, <2>1
  <2>2. CASE u # t
    <3>1. stack'[u] = stack[u] /\ request' = request
      BY <1>2, <1>3, <2>2
    <3> QED
      BY <1>1, <3>1 DEF PairsOK
  <2> QED
    BY <2>1, <2>2
<1>10. ASSUME NEW h \in Hints
       PROVE  CoveredOK(h)' /\ CountedOK(h)'
  <2>1. CoveredOK(h) /\ CountedOK(h)
    BY <1>1 DEF StatusOK
  <2>2. ASSUME NEW u \in Threads, NEW i \in DOMAIN stack[u]
        PROVE  i \in DOMAIN stack'[u] /\ stack'[u][i] = stack[u][i]
    BY <1>3, <1>5
  <2>3. CoveredOK(h)'
    BY <1>2, <1>6, <2>1, <2>2 DEF CoveredOK
  <2>4. CountedOK(h)'
    BY <1>2, <2>1 DEF CountedOK
  <2> QED
    BY <2>3, <2>4
<1>11. ASSUME NEW m \in Hints, NEW h \in Hints, Masks(m, h)
       PROVE  MaskOK(m, h)'
  <2>1. /\ \A u \in Threads : Held(stack[u], done[m], m, h)
        /\ enabled[h] = done[m] => \E u \in Threads : Owed(stack[u], done[m], m, h)
    BY <1>1, <1>11 DEF MasksOK, MaskOK
  <2>2. Held(stack'[t], done[m], m, h)
    <3>1. <<step>> \in Seq(Fit) /\ \A i \in DOMAIN <<step>> : <<step>>[i].op \in {"do", "end"}
      BY <1>2, <1>4
    <3> QED
      BY <1>3, <3>1, Idle
  <2>3. ~Owed(stack[t], done[m], m, h)
    BY <1>5 DEF Owed
  <2>4. done'[m] = done[m] /\ enabled'[h] = enabled[h]
    BY <1>2
  <2>5. \A u \in Threads : Held(stack'[u], done'[m], m, h)
    BY <1>3, <2>1, <2>2, <2>4
  <2>6. enabled'[h] = done'[m] => \E u \in Threads : Owed(stack'[u], done'[m], m, h)
    BY <1>3, <2>1, <2>3, <2>4
  <2> QED
    BY <1>2, <2>5, <2>6, MaskStays
<1>12. StatusOK' /\ MasksOK'
  BY <1>1, <1>2, <1>6, <1>10, <1>11, RightStays DEF StatusOK, MasksOK
<1> QED
  BY <1>7, <1>8, <1>9, <1>12 DEF WriteInv

(* What threads may call with.                                               *)
LEMMA MayCall ==
  ASSUME HintInv, NEW t \in Threads, NEW h \in CalledBy(t) \cap Names
  PROVE  /\ DoStep(h) \in Right(t) /\ DoStep(h).op = "do" /\ DoStep(h).hint = h
         /\ h \in Ended => EndStep(h) \in Right(t)
         /\ EndStep(h).op = "end" /\ EndStep(h).hint = h
         /\ \A k \in Overrides[h] : /\ DoOverrideStep(h, k) \in Right(t)
                                    /\ DoOverrideStep(h, k).op = "do"
                                    /\ DoOverrideStep(h, k).hint = h
<1>1. h \in Led(CalledBy(t), actions_)
  BY LedHas
<1>2. Overrides[h] \subseteq 0 .. MaxNow
  BY ConstantsAssumption DEF ConstantsAssumption
<1>3. /\ DoStep(h) \in Fit /\ EndStep(h) \in Fit
      /\ \A k \in Overrides[h] : DoOverrideStep(h, k) \in Fit
  BY <1>2, FirstSteps
<1>4. /\ DoStep(h).op = "do" /\ DoStep(h).hint = h /\ DoStep(h).overrides = {}
      /\ EndStep(h).op = "end" /\ EndStep(h).hint = h
      /\ \A k : /\ DoOverrideStep(h, k).op = "do" /\ DoOverrideStep(h, k).hint = h
                /\ DoOverrideStep(h, k).overrides = {k}
  BY DEF DoStep, EndStep, DoOverrideStep
<1> QED
  BY <1>1, <1>3, <1>4 DEF Right

(* The framework's requests call as they may.                                *)
LEMMA RequestsEntered ==
  ASSUME HintInv, PowerCall
  PROVE  UNCHANGED hintVars \/ \E step : Entered(binder, step)
<1>1. /\ binder \in Threads /\ Modes \cup Boosts \cup ExtNames \subseteq Ends[binder]
      /\ "INTERACTION" \notin Modes \cup ExtNames /\ Ends[binder] \subseteq Names
  <2>1. binder \in Threads /\ Modes \cup Boosts \cup ExtNames \subseteq Ends[binder]
    BY PowerAssumption DEF PowerAssumption
  <2>2. Ends[binder] \subseteq Names
    BY <2>1, ConstantsAssumption DEF ConstantsAssumption
  <2> QED
    BY <2>1, <2>2, WritersAssumption DEF WritersAssumption
<1>2. ASSUME NEW name \in Modes \cup Boosts \cup ExtNames
      PROVE  /\ name \in CalledBy(binder) \cap Names /\ name \in Ended
             /\ DoStep(name) \in Right(binder) /\ DoStep(name).op = "do"
             /\ DoStep(name).hint = name
             /\ EndStep(name) \in Right(binder) /\ EndStep(name).op = "end"
             /\ EndStep(name).hint = name
             /\ \A k \in Overrides[name] : /\ DoOverrideStep(name, k) \in Right(binder)
                                           /\ DoOverrideStep(name, k).op = "do"
                                           /\ DoOverrideStep(name, k).hint = name
  <2>1. name \in CalledBy(binder) \cap Names /\ name \in Ended
    BY <1>1 DEF CalledBy, Ended
  <2> QED
    BY <1>1, <2>1, MayCall
<1>3. ASSUME NEW name \in Modes \cup Boosts \cup ExtNames, name # "INTERACTION",
             \/ Calls(binder, DoStep(name)) \/ Calls(binder, EndStep(name))
             \/ \E k \in Overrides[name] : Calls(binder, DoOverrideStep(name, k))
      PROVE  \E step : Entered(binder, step)
  BY <1>2, <1>3 DEF Entered
<1>4. ASSUME NEW name \in Modes \cup Boosts \cup ExtNames, name # "INTERACTION", Boost(name)
      PROVE  \E step : Entered(binder, step)
  BY <1>3, <1>4 DEF Boost, DoOrEnd
<1>5. CASE \E type \in Modes \cap Hints, on \in BOOLEAN : setMode(type, on)
  <2>1. PICK type \in Modes \cap Hints, on \in BOOLEAN : setMode(type, on)
    BY <1>5
  <2>2. type \in Modes \cup Boosts \cup ExtNames /\ type # "INTERACTION"
    BY <1>1
  <2>3. \/ Calls(binder, DoStep(type)) \/ Calls(binder, EndStep(type))
        \/ UNCHANGED hintVars
    BY <2>1 DEF setMode, DoOrEnd, Ignored
  <2> QED
    BY <1>3, <2>2, <2>3
<1>6. CASE \E type \in Boosts \cap Hints : setBoost(type)
  <2>1. PICK type \in Boosts \cap Hints : setBoost(type)
    BY <1>6
  <2>2. type \in Modes \cup Boosts \cup ExtNames
    OBVIOUS
  <2>3. CASE type # "INTERACTION"
    BY <1>4, <2>1, <2>2, <2>3 DEF setBoost, Ignored
  <2>4. CASE type = "INTERACTION"
    <3>1. \/ UNCHANGED hintVars
          \/ ~InteractionLocked /\ Calls(binder, DoStep("INTERACTION"))
      BY <2>1, <2>4 DEF setBoost, Acquire, Ignored
    <3> QED
      BY <1>2, <2>2, <2>4, <3>1 DEF Entered
  <2> QED
    BY <2>3, <2>4
<1>7. CASE \E name \in ExtNames \cap Hints : Boost(name)
  BY <1>1, <1>4, <1>7
<1> QED
  BY <1>5, <1>6, <1>7 DEF PowerCall

(* So does every step of the service's.                                      *)
LEMMA ServiceEnters ==
  ASSUME HintInv, Next
  PROVE  \/ \E t \in Threads : Step(t) \/ \E step : Entered(t, step)
         \/ Tick \/ Lost \/ UNCHANGED hintVars
<1>1. CASE main \/ Serve \/ StartLooper \/ FrameworkDies \/ \E n \in PropertyNodes : Update(n)
  BY <1>1 DEF main, Serve, StartLooper, FrameworkDies, Update
<1>2. CASE Crash \/ Kill
  BY <1>2 DEF Crash, Kill, Dies
<1>3. CASE HintStep
  BY <1>3 DEF HintStep
<1>4. CASE PowerCall
  <2>1. binder \in Threads
    BY PowerAssumption DEF PowerAssumption
  <2> QED
    BY <1>4, <2>1, RequestsEntered
<1>5. CASE Restore
  <2> DEFINE mode == Restored[restoring].mode
  <2>1. /\ binder \in Threads /\ restoring \in DOMAIN Restored
        /\ UNCHANGED hintVars \/ Calls(binder, DoStep(mode))
    BY <1>5, PowerAssumption DEF Restore, PowerAssumption
  <2>2. mode # "INTERACTION"
    <3>1. mode \in KeptModes
      BY <2>1, ThreeModes DEF KeptModes
    <3> QED
      BY <3>1, ThreeModes
  <2>3. mode \in CalledBy(binder) \cap Names
    BY <2>1, PowerAssumption DEF CalledBy, PowerAssumption
  <2> HIDE DEF mode
  <2>4. DoStep(mode) \in Right(binder) /\ DoStep(mode).op = "do" /\ DoStep(mode).hint = mode
    BY <2>1, <2>3, MayCall
  <2> QED
    BY <2>1, <2>2, <2>4 DEF Entered
<1>6. CASE OtherCall
  <2>1. PICK t \in Threads \ {binder} :
          /\ CallDo(t) \/ CallEnd(t)
          /\ stack'[t][1].hint = "INTERACTION" => ~InteractionLocked
    BY <1>6 DEF OtherCall
  <2>2. Does[t] \subseteq Names /\ Ends[t] \subseteq Names
    BY ConstantsAssumption DEF ConstantsAssumption
  <2>3. ASSUME NEW step, Calls(t, step)
        PROVE  step.hint = "INTERACTION" => ~InteractionLocked
    <3>1. stack'[t] = <<step>>
      BY <2>3 DEF Calls, HintInv, StepsOK
    <3>2. <<step>>[1] = step
      OBVIOUS
    <3> QED
      BY <2>1, <3>1, <3>2
  <2>4. CASE CallDo(t)
    <3>1. PICK h \in Does[t] : Calls(t, DoStep(h))
      BY <2>4 DEF CallDo
    <3>2. h \in CalledBy(t) \cap Names
      BY <2>2 DEF CalledBy
    <3>3. DoStep(h) \in Right(t) /\ DoStep(h).op = "do"
      BY <3>2, MayCall
    <3> QED
      BY <2>3, <3>1, <3>3 DEF Entered
  <2>5. CASE CallEnd(t)
    <3>1. PICK h \in Ends[t] : Calls(t, EndStep(h))
      BY <2>5 DEF CallEnd
    <3>2. h \in CalledBy(t) \cap Names /\ h \in Ended
      BY <2>2 DEF CalledBy, Ended
    <3>3. EndStep(h) \in Right(t) /\ EndStep(h).op = "end"
      BY <3>2, MayCall
    <3> QED
      BY <2>3, <3>1, <3>3 DEF Entered
  <2> QED
    BY <2>1, <2>4, <2>5
<1> QED
  BY <1>1, <1>2, <1>3, <1>4, <1>5, <1>6 DEF Next

-----------------------------------------------------------------------------

(* At first, and once the process is gone, no thread is in HintManager.      *)
LEMMA FirstFresh ==
  /\ PowerInit => Fresh
  /\ HintInv /\ Lost => Fresh'
<1>1. PowerInit => Fresh
  BY DEF PowerInit, Init, Fresh, Everywhere
<1>2. HintInv /\ Lost => Fresh'
  <2> SUFFICES ASSUME Lost
               PROVE  Fresh'
    OBVIOUS
  <2>1. Hints' = Hints
    BY NodesStay DEF Lost
  <2> QED
    BY <2>1 DEF Lost, Fresh, Everywhere
<1> QED
  BY <1>1, <1>2

(* What is said of flags and statistics is what they are to be.              *)
LEMMA WritesSay == WInv => HintsHold
<1> SUFFICES ASSUME WInv
             PROVE  HintsHold
  OBVIOUS
<1>1. HintInv /\ StatusOK /\ MasksOK
  BY DEF WInv, IInv, WriteInv
<1>2. /\ enabled \in [Hints -> BOOLEAN] /\ done \in [Hints -> BOOLEAN]
      /\ now \in 0 .. MaxNow /\ start_time \in [Hints -> TimeMin .. MaxNow]
      /\ duration_ms \in [Hints -> Nat]
      /\ \A h \in Hints : start_time[h] <= now
  BY <1>1 DEF HintInv, HintTypes, SpansOK
<1>3. Quiet => \A u \in Threads : \A i : i \notin DOMAIN stack[u]
  <2>1. \A i : i \notin DOMAIN <<>>
    OBVIOUS
  <2> QED
    BY <2>1 DEF Quiet
<1>4. MaskHolds
  <2> SUFFICES ASSUME Quiet, NEW h \in Hints
               PROVE  enabled[h] <=> ~ \E m \in Hints : Masks(m, h) /\ done[m]
    BY DEF MaskHolds
  <2>1. ASSUME NEW m \in Hints, Masks(m, h)
        PROVE  enabled[h] # done[m]
    <3>1. MaskOK(m, h)
      BY <1>1, <2>1 DEF MasksOK
    <3>2. \A u \in Threads : ~Owed(stack[u], done[m], m, h)
      BY <1>3 DEF Owed
    <3> QED
      BY <3>1, <3>2 DEF MaskOK
  <2>2. enabled[h] \/ \E m \in Hints : Masks(m, h)
    BY <1>1 DEF MasksOK
  <2>3. enabled[h] \in BOOLEAN /\ \A m \in Hints : done[m] \in BOOLEAN
    BY <1>2
  <2> QED
    BY <2>1, <2>2, <2>3
<1>5. StatusHolds
  <2> SUFFICES ASSUME NEW h \in Hints
               PROVE  /\ Quiet /\ Overrides[h] = {} => request[h] <= end_time[h]
                      /\ (\A t \in Threads : h \notin Ends[t]) => duration_ms[h] <= now
    BY DEF StatusHolds
  <2>1. CoveredOK(h) /\ CountedOK(h)
    BY <1>1 DEF StatusOK
  <2>2. Quiet /\ Overrides[h] = {} => request[h] <= end_time[h]
    BY <1>3, <2>1 DEF CoveredOK
  <2>3. ASSUME \A t \in Threads : h \notin Ends[t]
        PROVE  duration_ms[h] <= now
    <3>1. h \notin Ended
      BY <2>3 DEF Ended
    <3>2. duration_ms[h] = 0 \/ (start_time[h] \in Nat /\ duration_ms[h] <= start_time[h])
      BY <2>1, <3>1 DEF CountedOK
    <3>3. duration_ms[h] \in Nat /\ start_time[h] <= now /\ now \in Nat
      BY <1>2
    <3> QED
      BY <3>2, <3>3
  <2> QED
    BY <2>2, <2>3
<1> QED
  BY <1>4, <1>5 DEF HintsHold

(* Whatever the threads that call HintManager do in between, and whenever    *)
(* the process dies: once every call has returned, a hint is disabled        *)
(* exactly when what masks it was done and not ended since, the statistics   *)
(* cover every request that NodeLooper still has, and no span of a hint that *)
(* nobody ends was counted twice. (DoHintAction, EndHintAction, HintStatus)  *)
THEOREM HintsKept == Spec => []HintsHold
<1>1. PowerInit => WInv
  BY InitOK, FirstFresh, FreshOK DEF WInv, IInv
<1>2. HintInv' /\ Fresh' => WriteInv'
  BY FreshOK, PTL
<1>3. WInv /\ [Next]_vars => WInv'
  <2> SUFFICES ASSUME WInv, [Next]_vars
               PROVE  WInv'
    OBVIOUS
  <2>1. HintInv /\ WriteInv
    BY DEF WInv, IInv
  <2>2. IInv' /\ HintInv'
    BY StepOK DEF WInv, IInv
  <2>3. \/ \E t \in Threads : Step(t) \/ \E step : Entered(t, step)
        \/ Tick \/ Lost \/ UNCHANGED hintVars
    <3>1. CASE Next
      BY <2>1, <3>1, ServiceEnters
    <3>2. CASE UNCHANGED vars
      BY <3>2 DEF vars
    <3> QED
      BY <3>1, <3>2
  <2>4. WriteInv'
    <3>1. CASE \E t \in Threads : Step(t)
      BY <2>1, <3>1, StepWrites
    <3>2. CASE \E t \in Threads : \E step : Entered(t, step)
      BY <2>1, <3>2, CallWrites
    <3>3. CASE Tick \/ UNCHANGED hintVars
      BY <2>1, <3>3, WritesStay
    <3>4. CASE Lost
      BY <1>2, <2>1, <2>2, <3>4, FirstFresh
    <3> QED
      BY <2>3, <3>1, <3>2, <3>3, <3>4
  <2> QED
    BY <2>2, <2>4 DEF WInv
<1> QED
  BY <1>1, <1>3, WritesSay, PTL DEF Spec
=============================================================================
