--------------------------- MODULE GnssAdapterProofs ---------------------------
(***************************************************************************)
(* Proofs about GnssAdapter, for any number of clients, options,           *)
(* configurations, commands and restarts of the modem.                     *)
(*                                                                         *)
(* What a handler does is first brought to a form without its branches:    *)
(* the sessions, the requests and the answers it makes (StartMakes,        *)
(* UpdateMakes ... RemoveMakes).  Types are kept by each (TypeOK).  What   *)
(* is under way about a session, as commands, requests and responses, is   *)
(* counted, and is never more than the answers its client expects          *)
(* (Books, AnsweredOnce).                                                  *)
(***************************************************************************)
EXTENDS GnssAdapter, FiniteSetTheorems, NaturalsInduction, WellFoundedInduction, TLAPS

-----------------------------------------------------------------------------
(* Natural numbers.                                                          *)

\* What holds of 0 and is kept by adding 1 holds of every natural number.
LEMMA Induction ==
    ASSUME NEW S, 0 \in S, \A n \in Nat : n \in S => n + 1 \in S
    PROVE  Nat \subseteq S
<1> DEFINE T == Nat \ S
<1>1. SUFFICES ASSUME T # {} PROVE FALSE
  OBVIOUS
<1>2. IsWellFoundedOn(OpToRel(<, Nat), Nat)
  BY NatLessThanWellFounded
<1>3. PICK x \in T : \A y \in T : ~ (<<y, x>> \in OpToRel(<, Nat))
  BY <1>1, <1>2, WFMin
<1>4. x # 0 /\ x - 1 \in Nat /\ (x - 1) + 1 = x
  OBVIOUS
<1>5. x - 1 \in T
  BY <1>4
<1>6. <<x - 1, x>> \in OpToRel(<, Nat)
  BY <1>4 DEF OpToRel
<1> QED BY <1>3, <1>5, <1>6

\* A set of natural numbers that is not empty has a least one.
LEMMA Least ==
    ASSUME NEW S, S \subseteq Nat, S # {}
    PROVE  Min(S) \in S /\ \A y \in S : Min(S) <= y
<1>1. IsWellFoundedOn(OpToRel(<, Nat), Nat)
  BY NatLessThanWellFounded
<1>2. PICK x \in S : \A y \in S : ~ (<<y, x>> \in OpToRel(<, Nat))
  BY <1>1, WFMin
<1>3. \A y \in S : x <= y
  <2> SUFFICES ASSUME NEW y \in S, y < x PROVE FALSE
    OBVIOUS
  <2>1. <<y, x>> \in OpToRel(<, Nat)
    BY DEF OpToRel
  <2> QED BY <1>2, <2>1
<1> QED BY <1>2, <1>3 DEF Min

\* A set of natural numbers that is not empty and has a bound has a greatest one.
LEMMA Greatest ==
    ASSUME NEW S, S \subseteq Nat, S # {}, NEW n \in Nat, \A y \in S : y <= n
    PROVE  Max(S) \in S /\ \A y \in S : Max(S) >= y
<1> DEFINE R == {n - y : y \in S}
<1>0. \A y \in S : n - y \in Nat
  OBVIOUS
<1>1. R \subseteq Nat /\ R # {}
  BY <1>0
<1>2. Min(R) \in R /\ \A r \in R : Min(R) <= r
  BY <1>1, Least
<1>3. PICK x \in S : Min(R) = n - x
  BY <1>2
<1>4. \A y \in S : x >= y
  BY <1>2, <1>3
<1> QED BY <1>4 DEF Max

-----------------------------------------------------------------------------
(* Sequences, whatever they hold.                                            *)

\* A sequence: a function over the numbers from 1 to its length.
Sq(q) == q \in Seq(Range(q))

\* What is known of a sequence.
LEMMA SqOf ==
    ASSUME NEW q, Sq(q)
    PROVE  Len(q) \in Nat /\ DOMAIN q = 1..Len(q) /\ (q = <<>> <=> Len(q) = 0)
BY DEF Sq

\* A function over the first numbers is a sequence.
LEMMA SqIs ==
    ASSUME NEW n \in Nat, NEW S, NEW q \in [1..n -> S]
    PROVE  Sq(q) /\ Len(q) = n
<1>1. q \in [1..n -> Range(q)]
  BY DEF Range
<1> QED BY <1>1 DEF Sq

\* The empty sequence.
LEMMA SqEmpty == Sq(<<>>) /\ Len(<<>>) = 0 /\ DOMAIN <<>> = {}
<1>1. <<>> \in Seq(Range(<<>>))
  OBVIOUS
<1> QED BY <1>1 DEF Sq

\* One more element.
LEMMA SqAppend ==
    ASSUME NEW q, Sq(q), NEW e
    PROVE  /\ Sq(Append(q, e)) /\ Len(Append(q, e)) = Len(q) + 1
           /\ DOMAIN Append(q, e) = 1..(Len(q) + 1)
           /\ \A j \in 1..Len(q) : Append(q, e)[j] = q[j]
           /\ Append(q, e)[Len(q) + 1] = e
<1> DEFINE S == Range(q) \cup {e}
           a == Append(q, e)
<1>1. q \in Seq(S) /\ e \in S
  BY DEF Sq
<1>2. a \in Seq(S) /\ Len(a) = Len(q) + 1 /\ DOMAIN a = 1..(Len(q) + 1)
      /\ (\A j \in 1..Len(q) : a[j] = q[j]) /\ a[Len(q) + 1] = e
  BY <1>1
<1> HIDE DEF a
<1>3. Len(q) + 1 \in Nat /\ a \in [1..(Len(q) + 1) -> S]
  BY <1>1, <1>2
<1>4. Sq(a)
  BY <1>3, SqIs
<1> QED BY <1>2, <1>4 DEF a

\* One element less.
LEMMA SqTail ==
    ASSUME NEW q, Sq(q), q # <<>>
    PROVE  /\ Sq(Tail(q)) /\ Len(q) \in Nat \ {0} /\ Len(Tail(q)) = Len(q) - 1
           /\ DOMAIN Tail(q) = 1..(Len(q) - 1)
           /\ \A j \in 1..(Len(q) - 1) : Tail(q)[j] = q[j + 1]
           /\ Head(q) = q[1]
<1> DEFINE a == Tail(q)
<1>1. Len(q) \in Nat \ {0} /\ Head(q) = q[1]
  BY DEF Sq
<1>2. a \in Seq(Range(q)) /\ Len(a) = Len(q) - 1 /\ DOMAIN a = 1..(Len(q) - 1)
      /\ (\A j \in 1..(Len(q) - 1) : a[j] = q[j + 1])
  BY DEF Sq
<1> HIDE DEF a
<1>3. Len(q) - 1 \in Nat /\ a \in [1..(Len(q) - 1) -> Range(q)]
  BY <1>1, <1>2
<1>4. Sq(a)
  BY <1>3, SqIs
<1> QED BY <1>1, <1>2, <1>4 DEF a

\* Two sequences, one after the other.
LEMMA SqConcat ==
    ASSUME NEW q, Sq(q), NEW r, Sq(r)
    PROVE  /\ Sq(q \o r) /\ Len(q \o r) = Len(q) + Len(r)
           /\ DOMAIN (q \o r) = 1..(Len(q) + Len(r))
           /\ \A j \in 1..Len(q) : (q \o r)[j] = q[j]
           /\ \A j \in 1..Len(r) : (q \o r)[Len(q) + j] = r[j]
<1> DEFINE S == Range(q) \cup Range(r)
           a == q \o r
<1>1. q \in Seq(S) /\ r \in Seq(S)
  BY DEF Sq
<1>2. a \in Seq(S) /\ Len(a) = Len(q) + Len(r) /\ DOMAIN a = 1..(Len(q) + Len(r))
      /\ (\A j \in 1..Len(q) : a[j] = q[j]) /\ (\A j \in 1..Len(r) : a[Len(q) + j] = r[j])
  BY <1>1
<1> HIDE DEF a
<1>3. Len(q) + Len(r) \in Nat /\ a \in [1..(Len(q) + Len(r)) -> S]
  BY <1>1, <1>2
<1>4. Sq(a)
  BY <1>3, SqIs
<1> QED BY <1>2, <1>4 DEF a

-----------------------------------------------------------------------------
(* How often a sequence has an element of a set.                             *)

N(t, S) == Cardinality({j \in DOMAIN t : t[j] \in S})

\* A count is a natural number, and 0 when there is no such element.
LEMMA CountIs ==
    ASSUME NEW t, Sq(t), NEW S
    PROVE  /\ N(t, S) \in Nat /\ IsFiniteSet({j \in DOMAIN t : t[j] \in S})
           /\ (N(t, S) = 0 <=> \A j \in DOMAIN t : t[j] \notin S)
<1> DEFINE J == {j \in DOMAIN t : t[j] \in S}
<1>1. IsFiniteSet(1..Len(t)) /\ J \subseteq 1..Len(t)
  <2>1. Len(t) \in Nat /\ DOMAIN t = 1..Len(t)
    BY SqOf
  <2>2. IsFiniteSet(1..Len(t))
    BY <2>1, FS_Interval
  <2> QED BY <2>1, <2>2
<1>2. IsFiniteSet(J)
  BY <1>1, FS_Subset
<1>3. Cardinality(J) \in Nat /\ (Cardinality(J) = 0 <=> J = {})
  BY <1>2, FS_CardinalityType, FS_EmptySet
<1> QED BY <1>2, <1>3 DEF N

\* Of nothing, nothing is counted.
LEMMA CountEmpty == ASSUME NEW S PROVE N(<<>>, S) = 0
<1>1. {j \in DOMAIN <<>> : <<>>[j] \in S} = {}
  BY SqEmpty
<1> QED BY <1>1, FS_EmptySet DEF N

\* The elements of the second come after those of the first.
LEMMA CountConcat ==
    ASSUME NEW q, Sq(q), NEW r, Sq(r), NEW S
    PROVE  N(q \o r, S) = N(q, S) + N(r, S)
<1> DEFINE J == {j \in DOMAIN q : q[j] \in S}
           K == {j \in DOMAIN r : r[j] \in S}
           n == Len(q)
           L == {n + j : j \in K}
           A == {j \in DOMAIN (q \o r) : (q \o r)[j] \in S}
<1>1. n \in Nat /\ Len(r) \in Nat /\ DOMAIN q = 1..n /\ DOMAIN r = 1..Len(r)
  BY SqOf
<1>2. /\ DOMAIN (q \o r) = 1..(n + Len(r)) /\ \A j \in 1..n : (q \o r)[j] = q[j]
      /\ \A j \in 1..Len(r) : (q \o r)[n + j] = r[j]
  BY SqConcat
<1>3. A = J \cup L
  <2>1. A \subseteq J \cup L
    <3> SUFFICES ASSUME NEW a \in A PROVE a \in J \cup L
      OBVIOUS
    <3>1. a \in 1..(n + Len(r)) /\ (q \o r)[a] \in S
      BY <1>2
    <3>2. CASE a <= n
      BY <1>1, <1>2, <3>1, <3>2
    <3>3. CASE a > n
      <4>1. a - n \in 1..Len(r) /\ n + (a - n) = a
        BY <1>1, <3>1, <3>3
      <4> QED BY <1>1, <1>2, <3>1, <4>1
    <3> QED BY <1>1, <3>1, <3>2, <3>3
  <2>2. J \subseteq A
    BY <1>1, <1>2
  <2>3. L \subseteq A
    BY <1>1, <1>2
  <2> QED BY <2>1, <2>2, <2>3
<1>4. J \cap L = {}
  BY <1>1
<1>5. IsFiniteSet(J) /\ IsFiniteSet(K) /\ Cardinality(J) = N(q, S) /\ Cardinality(K) = N(r, S)
      /\ N(q, S) \in Nat /\ N(r, S) \in Nat
  BY CountIs DEF N
<1>6. IsFiniteSet(L) /\ Cardinality(L) = Cardinality(K)
  <2> DEFINE f == [j \in K |-> n + j]
  <2>1. f \in [K -> L] /\ \A x \in L : \E j \in K : f[j] = x
    OBVIOUS
  <2>2. \A i, j \in K : f[i] = f[j] => i = j
    BY <1>1
  <2> HIDE DEF f, K, L
  <2>3. f \in Bijection(K, L)
    <3>1. DOMAIN f = K /\ IsInjective(f)
      BY <2>1, <2>2 DEF IsInjective
    <3>2. f \in Injection(K, L) /\ f \in Surjection(K, L)
      BY <2>1, <3>1 DEF Injection, Surjection
    <3> QED BY <3>2 DEF Bijection
  <2>4. ExistsBijection(K, L) /\ IsFiniteSet(K)
    BY <1>5, <2>3 DEF ExistsBijection, K
  <2> QED BY <2>4, FS_Bijection
<1>7. Cardinality(A) = Cardinality(J) + Cardinality(L) - Cardinality(J \cap L)
  BY <1>3, <1>5, <1>6, FS_Union
<1>8. Cardinality(J \cap L) = 0
  BY <1>4, FS_EmptySet
<1>9. N(q \o r, S) = Cardinality(A)
  BY DEF N
<1> HIDE DEF A, J, K, L
<1> QED BY <1>5, <1>6, <1>7, <1>8, <1>9

\* A sequence of one.
LEMMA CountOne ==
    ASSUME NEW e, NEW S
    PROVE  Sq(<<e>>) /\ N(<<e>>, S) = IF e \in S THEN 1 ELSE 0
<1>1. Sq(<<e>>) /\ Len(<<e>>) = 1 /\ DOMAIN <<e>> = 1..1 /\ <<e>>[1] = e
  <2>1. <<e>> \in Seq({e}) /\ Len(<<e>>) = 1 /\ <<e>>[1] = e /\ DOMAIN <<e>> = 1..1
    OBVIOUS
  <2>2. <<e>> \in [1..1 -> {e}]
    BY <2>1
  <2> HIDE DEF Sq
  <2>3. Sq(<<e>>)
    BY <2>2, SqIs
  <2> QED BY <2>1, <2>3
<1>2. CASE e \in S
  <2>1. {j \in DOMAIN <<e>> : <<e>>[j] \in S} = {1}
    BY <1>1, <1>2
  <2> QED BY <1>1, <1>2, <2>1, FS_Singleton DEF N
<1>3. CASE e \notin S
  <2>1. {j \in DOMAIN <<e>> : <<e>>[j] \in S} = {}
    BY <1>1, <1>3
  <2> QED BY <1>1, <1>3, <2>1, FS_EmptySet DEF N
<1> QED BY <1>2, <1>3

\* One more, and one less.
LEMMA CountAppend ==
    ASSUME NEW q, Sq(q), NEW e, NEW S
    PROVE  N(Append(q, e), S) = N(q, S) + IF e \in S THEN 1 ELSE 0
<1>1. Append(q, e) = q \o <<e>>
  <2>1. q \in Seq(Range(q) \cup {e})
    BY DEF Sq
  <2> QED BY <2>1
<1> QED BY <1>1, CountOne, CountConcat

\* One less is counted, or none.
LEMMA CountTail ==
    ASSUME NEW q, Sq(q), q # <<>>, NEW S
    PROVE  N(Tail(q), S) = N(q, S) - IF Head(q) \in S THEN 1 ELSE 0
<1>1. q = <<Head(q)>> \o Tail(q)
  BY DEF Sq
<1>2. Sq(<<Head(q)>>) /\ Sq(Tail(q))
  BY CountOne, SqTail
<1>3. N(q, S) = N(<<Head(q)>>, S) + N(Tail(q), S)
  <2>1. \A r, t : Sq(r) /\ Sq(t) => N(r \o t, S) = N(r, S) + N(t, S)
    BY CountConcat
  <2>2. N(<<Head(q)>> \o Tail(q), S) = N(<<Head(q)>>, S) + N(Tail(q), S)
    BY <1>2, <2>1
  <2> QED BY <1>1, <2>2
<1>4. N(Tail(q), S) \in Nat
  BY <1>2, CountIs
<1>5. \A e : N(<<e>>, S) = IF e \in S THEN 1 ELSE 0
  BY CountOne
<1>6. N(<<Head(q)>>, S) = IF Head(q) \in S THEN 1 ELSE 0
  BY <1>5
<1> QED BY <1>3, <1>4, <1>6

-----------------------------------------------------------------------------
(* What is under way about a session: the commands about it and the          *)
(* continuations of requests, of which the adapter has not handled the       *)
(* response.                                                                 *)

Commands == {"start", "update", "stop"}
Conts == {"started", "answer", "updated", "stopped", "erase", "switch", "restart", "restarted"}

\* Whom a message or a request is about, and what it is.
MTag(m) == IF m.op \in Commands THEN <<m.key, m.op>>
           ELSE IF m.op = "response" THEN <<m.then.key, m.then.cont>> ELSE <<"none", "none">>
RTag(r) == IF r.then = NoThen THEN <<"none", "none">> ELSE <<r.then.key, r.then.cont>>
MTags(q) == [j \in DOMAIN q |-> MTag(q[j])]
RTags(q) == [j \in DOMAIN q |-> RTag(q[j])]

Way(queue_, pending_, api_, S) == N(MTags(queue_), S) + N(MTags(pending_), S) + N(RTags(api_), S)
UnderWay(S) == Way(queue, mPendingMsgs, api, S)

\* Tags of a sequence are a sequence.
LEMMA TagsAre ==
    ASSUME NEW q, Sq(q)
    PROVE  /\ Sq(MTags(q)) /\ Len(MTags(q)) = Len(q) /\ DOMAIN MTags(q) = DOMAIN q
           /\ \A j \in DOMAIN q : MTags(q)[j] = MTag(q[j])
           /\ Sq(RTags(q)) /\ Len(RTags(q)) = Len(q) /\ DOMAIN RTags(q) = DOMAIN q
           /\ \A j \in DOMAIN q : RTags(q)[j] = RTag(q[j])
<1>1. Len(q) \in Nat /\ DOMAIN q = 1..Len(q)
  BY SqOf
<1>2. MTags(q) \in [1..Len(q) -> Range(MTags(q))] /\ RTags(q) \in [1..Len(q) -> Range(RTags(q))]
  BY <1>1 DEF MTags, RTags, Range
<1>3. Sq(MTags(q)) /\ Len(MTags(q)) = Len(q) /\ Sq(RTags(q)) /\ Len(RTags(q)) = Len(q)
  BY <1>1, <1>2, SqIs
<1> QED BY <1>3 DEF MTags, RTags

\* Sequences that have the same elements are the same.
LEMMA SameSq ==
    ASSUME NEW q, NEW r, Sq(q), Sq(r), Len(q) = Len(r), \A j \in 1..Len(q) : q[j] = r[j]
    PROVE  q = r
<1>1. q = [j \in 1..Len(q) |-> q[j]] /\ r = [j \in 1..Len(r) |-> r[j]]
  BY DEF Sq
<1> QED BY <1>1

\* A sequence whose parts are two sequences.
Parts2(t, u, w) ==
    /\ Sq(t) /\ Sq(u) /\ Sq(w) /\ Len(w) = Len(t) + Len(u)
    /\ \A j \in 1..Len(t) : w[j] = t[j]
    /\ \A j \in 1..Len(u) : w[Len(t) + j] = u[j]

\* Such a sequence is the two, one after the other.
LEMMA SqParts == ASSUME NEW t, NEW u, NEW w, Parts2(t, u, w) PROVE w = t \o u
<1>0. /\ Sq(t) /\ Sq(u) /\ Sq(w) /\ Len(w) = Len(t) + Len(u)
      /\ \A j \in 1..Len(t) : w[j] = t[j]
      /\ \A j \in 1..Len(u) : w[Len(t) + j] = u[j]
  BY DEF Parts2
<1>1. Sq(t \o u) /\ Len(t \o u) = Len(t) + Len(u)
      /\ \A j \in 1..Len(t) : (t \o u)[j] = t[j]
  BY <1>0, SqConcat
<1>2. \A j \in 1..Len(u) : (t \o u)[Len(t) + j] = u[j]
  BY <1>0, SqConcat
<1>3. Len(t) \in Nat /\ Len(u) \in Nat
  BY <1>0, SqOf
<1>4. ASSUME NEW j \in 1..Len(w) PROVE w[j] = (t \o u)[j]
  <2>1. CASE j \in 1..Len(t)
    BY <1>0, <1>1, <2>1
  <2>2. CASE j \notin 1..Len(t)
    <3>1. j - Len(t) \in 1..Len(u) /\ j = Len(t) + (j - Len(t))
      BY <1>0, <1>3, <2>2
    <3> QED BY <1>0, <1>2, <3>1
  <2> QED BY <2>1, <2>2
<1> QED BY <1>0, <1>1, <1>4, SameSq

\* Tags of two sequences, one after the other.
LEMMA TagsConcat ==
    ASSUME NEW q, NEW r, Sq(q), Sq(r)
    PROVE  MTags(q \o r) = MTags(q) \o MTags(r) /\ RTags(q \o r) = RTags(q) \o RTags(r)
<1>1. Sq(q \o r) /\ Len(q) \in Nat /\ Len(r) \in Nat /\ DOMAIN q = 1..Len(q)
      /\ DOMAIN r = 1..Len(r) /\ Len(q \o r) = Len(q) + Len(r)
      /\ DOMAIN (q \o r) = 1..(Len(q) + Len(r))
  BY SqConcat, SqOf
<1>2. /\ \A j \in 1..Len(q) : (q \o r)[j] = q[j]
      /\ \A j \in 1..Len(r) : (q \o r)[Len(q) + j] = r[j] /\ Len(q) + j \in 1..(Len(q) + Len(r))
  BY <1>1, SqConcat
<1>3. MTags(q \o r) = MTags(q) \o MTags(r)
  <2>1. Sq(MTags(q)) /\ Sq(MTags(r)) /\ Sq(MTags(q \o r)) /\ Len(MTags(q)) = Len(q)
        /\ Len(MTags(r)) = Len(r) /\ Len(MTags(q \o r)) = Len(q) + Len(r)
    BY <1>1, TagsAre
  <2>2. /\ \A j \in 1..Len(q) : MTags(q \o r)[j] = MTags(q)[j]
        /\ \A j \in 1..Len(r) : MTags(q \o r)[Len(q) + j] = MTags(r)[j]
    BY <1>1, <1>2 DEF MTags
  <2>3. Parts2(MTags(q), MTags(r), MTags(q \o r))
    BY <2>1, <2>2 DEF Parts2
  <2> QED BY <2>3, SqParts
<1>4. RTags(q \o r) = RTags(q) \o RTags(r)
  <2>1. Sq(RTags(q)) /\ Sq(RTags(r)) /\ Sq(RTags(q \o r)) /\ Len(RTags(q)) = Len(q)
        /\ Len(RTags(r)) = Len(r) /\ Len(RTags(q \o r)) = Len(q) + Len(r)
    BY <1>1, TagsAre
  <2>2. /\ \A j \in 1..Len(q) : RTags(q \o r)[j] = RTags(q)[j]
        /\ \A j \in 1..Len(r) : RTags(q \o r)[Len(q) + j] = RTags(r)[j]
    BY <1>1, <1>2 DEF RTags
  <2>3. Parts2(RTags(q), RTags(r), RTags(q \o r))
    BY <2>1, <2>2 DEF Parts2
  <2> QED BY <2>3, SqParts
<1> QED BY <1>3, <1>4

\* What is counted in a sequence that grows or shrinks.
Count(tag, S) == IF tag \in S THEN 1 ELSE 0

\* Tags of a sequence of one.
LEMMA TagsOne ==
    ASSUME NEW e, NEW S
    PROVE  N(MTags(<<e>>), S) = Count(MTag(e), S) /\ N(RTags(<<e>>), S) = Count(RTag(e), S)
<1>1. <<e>> \in [1..1 -> {e}] /\ <<e>>[1] = e
  OBVIOUS
<1>2. MTags(<<e>>) = <<MTag(e)>> /\ RTags(<<e>>) = <<RTag(e)>>
  <2>1. Sq(<<e>>) /\ Sq(<<MTag(e)>>) /\ Sq(<<RTag(e)>>)
    BY CountOne
  <2>2. Len(<<e>>) = 1 /\ Len(<<MTag(e)>>) = 1 /\ Len(<<RTag(e)>>) = 1
        /\ <<MTag(e)>>[1] = MTag(e) /\ <<RTag(e)>>[1] = RTag(e)
    OBVIOUS
  <2>3. Sq(MTags(<<e>>)) /\ Len(MTags(<<e>>)) = 1 /\ Sq(RTags(<<e>>)) /\ Len(RTags(<<e>>)) = 1
        /\ MTags(<<e>>)[1] = MTag(e) /\ RTags(<<e>>)[1] = RTag(e)
    BY <1>1, <2>1, <2>2, TagsAre
  <2>4. \A j \in 1..1 : j = 1
    OBVIOUS
  <2> QED BY <2>1, <2>2, <2>3, <2>4, SameSq
<1> QED BY <1>2, CountOne DEF Count

\* How the count of tags changes with a sequence.
LEMMA TagsCount ==
    ASSUME NEW q, Sq(q), NEW S
    PROVE  /\ N(MTags(q), S) \in Nat /\ N(RTags(q), S) \in Nat
           /\ (N(MTags(q), S) = 0 <=> \A j \in DOMAIN q : MTag(q[j]) \notin S)
           /\ (N(RTags(q), S) = 0 <=> \A j \in DOMAIN q : RTag(q[j]) \notin S)
           /\ N(MTags(<<>>), S) = 0 /\ N(RTags(<<>>), S) = 0
           /\ \A r : Sq(r) => /\ N(MTags(q \o r), S) = N(MTags(q), S) + N(MTags(r), S)
                              /\ N(RTags(q \o r), S) = N(RTags(q), S) + N(RTags(r), S)
           /\ \A e : /\ N(MTags(Append(q, e)), S) = N(MTags(q), S) + Count(MTag(e), S)
                     /\ N(RTags(Append(q, e)), S) = N(RTags(q), S) + Count(RTag(e), S)
           /\ q # <<>> => /\ N(MTags(Tail(q)), S) = N(MTags(q), S) - Count(MTag(Head(q)), S)
                          /\ N(RTags(Tail(q)), S) = N(RTags(q), S) - Count(RTag(Head(q)), S)
<1>1. /\ N(MTags(q), S) \in Nat /\ N(RTags(q), S) \in Nat
      /\ (N(MTags(q), S) = 0 <=> \A j \in DOMAIN q : MTag(q[j]) \notin S)
      /\ (N(RTags(q), S) = 0 <=> \A j \in DOMAIN q : RTag(q[j]) \notin S)
  <2>1. Sq(MTags(q)) /\ Sq(RTags(q))
    BY TagsAre
  <2>2. /\ N(MTags(q), S) \in Nat /\ N(RTags(q), S) \in Nat
        /\ (N(MTags(q), S) = 0 <=> \A j \in DOMAIN MTags(q) : MTags(q)[j] \notin S)
        /\ (N(RTags(q), S) = 0 <=> \A j \in DOMAIN RTags(q) : RTags(q)[j] \notin S)
    BY <2>1, CountIs
  <2> QED BY <2>2 DEF MTags, RTags
<1>2. N(MTags(<<>>), S) = 0 /\ N(RTags(<<>>), S) = 0
  <2>1. MTags(<<>>) = <<>> /\ RTags(<<>>) = <<>>
    BY SqEmpty DEF MTags, RTags
  <2> QED BY <2>1, CountEmpty
<1>3. ASSUME NEW r, Sq(r)
      PROVE  /\ N(MTags(q \o r), S) = N(MTags(q), S) + N(MTags(r), S)
             /\ N(RTags(q \o r), S) = N(RTags(q), S) + N(RTags(r), S)
  <2>1. Sq(MTags(q)) /\ Sq(RTags(q)) /\ Sq(MTags(r)) /\ Sq(RTags(r))
    BY <1>3, TagsAre
  <2>2. MTags(q \o r) = MTags(q) \o MTags(r) /\ RTags(q \o r) = RTags(q) \o RTags(r)
    BY <1>3, TagsConcat
  <2> QED BY <2>1, <2>2, CountConcat
<1>4. ASSUME NEW e
      PROVE  /\ N(MTags(Append(q, e)), S) = N(MTags(q), S) + Count(MTag(e), S)
             /\ N(RTags(Append(q, e)), S) = N(RTags(q), S) + Count(RTag(e), S)
  <2>1. Append(q, e) = q \o <<e>>
    <3>1. q \in Seq(Range(q) \cup {e})
      BY DEF Sq
    <3> QED BY <3>1
  <2> QED BY <1>3, <2>1, CountOne, TagsOne
<1>5. ASSUME q # <<>>
      PROVE  /\ N(MTags(Tail(q)), S) = N(MTags(q), S) - Count(MTag(Head(q)), S)
             /\ N(RTags(Tail(q)), S) = N(RTags(q), S) - Count(RTag(Head(q)), S)
  <2>1. q = <<Head(q)>> \o Tail(q)
    BY <1>5 DEF Sq
  <2>2. Sq(<<Head(q)>>) /\ Sq(Tail(q))
    BY <1>5, CountOne, SqTail
  <2> DEFINE h == <<Head(q)>>
             t == Tail(q)
  <2> HIDE DEF h, t
  <2>5. Sq(MTags(h)) /\ Sq(RTags(h)) /\ Sq(MTags(t)) /\ Sq(RTags(t))
    BY <2>2, TagsAre DEF h, t
  <2>6. MTags(q) = MTags(h) \o MTags(t) /\ RTags(q) = RTags(h) \o RTags(t)
    <3>1. q = h \o t /\ Sq(h) /\ Sq(t)
      BY <2>1, <2>2 DEF h, t
    <3> QED BY <3>1, TagsConcat
  <2>3. /\ N(MTags(q), S) = N(MTags(<<Head(q)>>), S) + N(MTags(Tail(q)), S)
        /\ N(RTags(q), S) = N(RTags(<<Head(q)>>), S) + N(RTags(Tail(q)), S)
    BY <2>5, <2>6, CountConcat DEF h, t
  <2>4. N(MTags(Tail(q)), S) \in Nat /\ N(RTags(Tail(q)), S) \in Nat
    BY <2>5, CountIs DEF t
  <2> QED BY <2>3, <2>4, TagsOne DEF Count
<1> QED BY <1>1, <1>2, <1>3, <1>4, <1>5

-----------------------------------------------------------------------------
(* What the modem and the recorded list will be once LocApi has performed    *)
(* its requests.                                                             *)

\* What a request sets one thing to: a set of one value, or an empty one.
Only(is, value) == IF is THEN {value} ELSE {}
Sets(r, flag) == r.do = "config" /\ flag \in r.need

View(r, x) ==
    CASE x[1] = "fix" -> Only(r.do = "startFix", r.fix) \cup Only(r.do = "stopFix", NoFix)
      [] x[1] = "distance" -> Only(r.do = "startDistance" /\ r.key = x[2], TRUE)
                              \cup Only(r.do = "stopDistance" /\ r.key = x[2], FALSE)
      [] x[1] = "lock" -> Only(r.do = "lock", r.lock)
                          \cup Only(Sets(r, "GPS_LOCK"), r.requested["GPS_LOCK"])
      [] x[1] = "version" -> Only(Sets(r, "SUPL_VERSION"), r.requested["SUPL_VERSION"])
      [] x[1] = "blacklist" -> Only(r.do = "blacklist", r.ids) \cup
              Only(Sets(r, "BLACKLISTED_SV_IDS"), r.requested["BLACKLISTED_SV_IDS"])
      [] x[1] = "recorded" ->
              Only(r.do = "config" /\ "BLACKLISTED_SV_IDS" \in DOMAIN r.requested,
                   r.requested["BLACKLISTED_SV_IDS"])

Setting(q, x) == {j \in DOMAIN q : View(q[j], x) # {}}

\* The last of them decides, and v when there is none.
Final(q, x, v) ==
    IF Setting(q, x) = {} THEN v ELSE CHOOSE w : w \in View(q[Max(Setting(q, x))], x)

\* The last request that sets a thing.
Lasts(q, x, j) == j \in DOMAIN q /\ View(q[j], x) # {}
                  /\ \A i \in DOMAIN q : i > j => View(q[i], x) = {}

\* Nothing is set.
LEMMA FinalNone ==
    ASSUME NEW q, NEW x, NEW v, \A j \in DOMAIN q : View(q[j], x) = {}
    PROVE  Final(q, x, v) = v
BY DEF Final, Setting

\* The last request that sets a thing decides what it is.
LEMMA FinalAt ==
    ASSUME NEW q, Sq(q), NEW x, NEW v, NEW j, Lasts(q, x, j)
    PROVE  Final(q, x, v) = CHOOSE w : w \in View(q[j], x)
<1> DEFINE S == Setting(q, x)
<1>1. Len(q) \in Nat /\ DOMAIN q = 1..Len(q)
  BY SqOf
<1>2. j \in S /\ S \subseteq Nat /\ \A y \in S : y <= j
  BY <1>1 DEF Lasts, Setting
<1> HIDE DEF S
<1>5. j \in Nat /\ S # {}
  BY <1>2
<1>3. Max(S) \in S /\ Max(S) >= j
  BY <1>2, <1>5, Greatest
<1>4. Max(S) = j
  <2>1. Max(S) \in Nat /\ Max(S) <= j
    BY <1>2, <1>3
  <2> QED BY <1>3, <1>5, <2>1
<1> QED BY <1>2, <1>4 DEF Final, S

\* There is a last one, if there is one.
LEMMA FinalLast ==
    ASSUME NEW q, Sq(q), NEW x, Setting(q, x) # {}
    PROVE  \E j \in DOMAIN q : Lasts(q, x, j)
<1> DEFINE S == Setting(q, x)
<1>1. Len(q) \in Nat /\ DOMAIN q = 1..Len(q)
  BY SqOf
<1>2. S \subseteq Nat /\ S # {} /\ S \subseteq DOMAIN q /\ \A y \in S : y <= Len(q)
  BY <1>1 DEF Setting
<1>3. Max(S) \in S /\ \A y \in S : Max(S) >= y
  BY <1>1, <1>2, Greatest
<1>4. \A i \in DOMAIN q : i > Max(S) => i \notin S
  BY <1>1, <1>2, <1>3
<1>5. Lasts(q, x, Max(S))
  BY <1>2, <1>3, <1>4 DEF Lasts, Setting
<1> QED BY <1>2, <1>3, <1>5

\* One sequence of requests after another.
LEMMA FinalConcat ==
    ASSUME NEW q, Sq(q), NEW r, Sq(r), NEW x, NEW v
    PROVE  Final(q \o r, x, v) = Final(r, x, Final(q, x, v))
<1>1. Len(q) \in Nat /\ Len(r) \in Nat /\ DOMAIN q = 1..Len(q) /\ DOMAIN r = 1..Len(r)
  BY SqOf
<1>2. /\ Sq(q \o r) /\ DOMAIN (q \o r) = 1..(Len(q) + Len(r))
      /\ \A j \in 1..Len(q) : (q \o r)[j] = q[j]
      /\ \A j \in 1..Len(r) : (q \o r)[Len(q) + j] = r[j]
  BY SqConcat
<1>3. CASE Setting(r, x) # {}
  <2>1. PICK j \in DOMAIN r : Lasts(r, x, j)
    BY <1>3, FinalLast
  <2>2. Lasts(q \o r, x, Len(q) + j)
    <3>1. (q \o r)[Len(q) + j] = r[j] /\ Len(q) + j \in DOMAIN (q \o r)
      BY <1>1, <1>2
    <3>2. ASSUME NEW i \in DOMAIN (q \o r), i > Len(q) + j
          PROVE  View((q \o r)[i], x) = {}
      <4>1. i - Len(q) \in DOMAIN r /\ i - Len(q) > j /\ i = Len(q) + (i - Len(q))
        BY <1>1, <1>2, <3>2
      <4>2. (q \o r)[i] = r[i - Len(q)]
        BY <1>1, <1>2, <4>1
      <4> QED BY <2>1, <4>1, <4>2 DEF Lasts
    <3> QED BY <2>1, <3>1, <3>2 DEF Lasts
  <2>3. Final(q \o r, x, v) = CHOOSE w : w \in View((q \o r)[Len(q) + j], x)
    BY <1>2, <2>2, FinalAt
  <2>4. Final(r, x, Final(q, x, v)) = CHOOSE w : w \in View(r[j], x)
    BY <2>1, FinalAt
  <2> QED BY <1>1, <1>2, <2>3, <2>4
<1>4. CASE Setting(r, x) = {}
  <2>1. \A j \in DOMAIN r : View(r[j], x) = {}
    BY <1>4 DEF Setting
  <2>2. Final(r, x, Final(q, x, v)) = Final(q, x, v)
    BY <2>1, FinalNone
  <2>3. ASSUME NEW i \in DOMAIN (q \o r), i > Len(q) PROVE View((q \o r)[i], x) = {}
    <3>1. i - Len(q) \in DOMAIN r /\ i = Len(q) + (i - Len(q))
      BY <1>1, <1>2, <2>3
    <3> QED BY <1>1, <1>2, <2>1, <3>1
  <2>4. CASE Setting(q, x) # {}
    <3>1. PICK j \in DOMAIN q : Lasts(q, x, j)
      BY <2>4, FinalLast
    <3>2. Lasts(q \o r, x, j)
      <4>1. j \in DOMAIN (q \o r) /\ (q \o r)[j] = q[j]
        BY <1>1, <1>2
      <4>2. ASSUME NEW i \in DOMAIN (q \o r), i > j PROVE View((q \o r)[i], x) = {}
        <5>1. CASE i <= Len(q)
          <6>1. i \in DOMAIN q /\ (q \o r)[i] = q[i]
            BY <1>1, <1>2, <4>2, <5>1
          <6> QED BY <3>1, <4>2, <6>1 DEF Lasts
        <5>2. CASE i > Len(q)
          BY <2>3, <5>2
        <5>3. i \in Nat
          BY <1>1, <1>2
        <5> QED BY <1>1, <5>1, <5>2, <5>3
      <4> QED BY <3>1, <4>1, <4>2 DEF Lasts
    <3>3. Final(q \o r, x, v) = CHOOSE w : w \in View((q \o r)[j], x)
      BY <1>2, <3>2, FinalAt
    <3>4. Final(q, x, v) = CHOOSE w : w \in View(q[j], x)
      BY <3>1, FinalAt
    <3> QED BY <1>1, <1>2, <2>2, <3>3, <3>4
  <2>5. CASE Setting(q, x) = {}
    <3>1. \A i \in DOMAIN (q \o r) : View((q \o r)[i], x) = {}
      <4> SUFFICES ASSUME NEW i \in DOMAIN (q \o r) PROVE View((q \o r)[i], x) = {}
        OBVIOUS
      <4>1. CASE i <= Len(q)
        <5>1. i \in DOMAIN q /\ (q \o r)[i] = q[i]
          BY <1>1, <1>2, <4>1
        <5> QED BY <2>5, <5>1 DEF Setting
      <4>2. CASE i > Len(q)
        BY <2>3, <4>2
      <4>3. i \in Nat
        BY <1>1, <1>2
      <4> QED BY <1>1, <4>1, <4>2, <4>3
    <3>2. Final(q \o r, x, v) = v
      BY <3>1, FinalNone
    <3>3. Final(q, x, v) = v
      BY <2>5 DEF Final
    <3> QED BY <2>2, <3>2, <3>3
  <2> QED BY <2>4, <2>5
<1> QED BY <1>3, <1>4

\* One request.
Set(r, x, v) == IF View(r, x) = {} THEN v ELSE CHOOSE w : w \in View(r, x)

\* What one request makes of a thing.
LEMMA FinalOne ==
    ASSUME NEW r, NEW x, NEW v
    PROVE  Final(<<r>>, x, v) = Set(r, x, v) /\ Final(<<>>, x, v) = v
<1>1. Sq(<<r>>) /\ DOMAIN <<r>> = {1} /\ <<r>>[1] = r
  BY CountOne
<1>2. Final(<<>>, x, v) = v
  BY SqEmpty, FinalNone
<1>3. CASE View(r, x) = {}
  <2>1. \A j \in DOMAIN <<r>> : View(<<r>>[j], x) = {}
    BY <1>1, <1>3
  <2> QED BY <1>2, <1>3, <2>1, FinalNone DEF Set
<1>4. CASE View(r, x) # {}
  <2>1. Lasts(<<r>>, x, 1)
    BY <1>1, <1>4 DEF Lasts
  <2> QED BY <1>1, <1>2, <1>4, <2>1, FinalAt DEF Set
<1> QED BY <1>3, <1>4

\* One more request.
LEMMA FinalAppend ==
    ASSUME NEW q, Sq(q), NEW r, NEW x, NEW v
    PROVE  Final(Append(q, r), x, v) = Set(r, x, Final(q, x, v))
<1>1. Append(q, r) = q \o <<r>>
  <2>1. q \in Seq(Range(q) \cup {r})
    BY DEF Sq
  <2> QED BY <2>1
<1>2. Final(q \o <<r>>, x, v) = Final(<<r>>, x, Final(q, x, v))
  BY CountOne, FinalConcat
<1> QED BY <1>1, <1>2, FinalOne

\* The first request performed, and then the others.
LEMMA FinalTail ==
    ASSUME NEW q, Sq(q), q # <<>>, NEW x, NEW v
    PROVE  Final(q, x, v) = Final(Tail(q), x, Set(Head(q), x, v))
<1>1. q = <<Head(q)>> \o Tail(q)
  BY DEF Sq
<1>2. Sq(<<Head(q)>>) /\ Sq(Tail(q))
  BY CountOne, SqTail
<1>3. Final(<<Head(q)>> \o Tail(q), x, v) = Final(Tail(q), x, Final(<<Head(q)>>, x, v))
  BY <1>2, FinalConcat
<1>4. Final(<<Head(q)>>, x, v) = Set(Head(q), x, v)
  BY FinalOne
<1>5. Final(<<Head(q)>> \o Tail(q), x, v) = Final(q, x, v)
  BY <1>1
<1> QED BY <1>3, <1>4, <1>5

-----------------------------------------------------------------------------
(* Sessions and their order.                                                 *)

\* A session's key.
LEMMA KeysAre ==
    ASSUME NEW k \in Keys
    PROVE  /\ k[1] \in Clients /\ k[2] \in Ids /\ k[1] \in Nat /\ k[2] \in Nat
           /\ k = <<k[1], k[2]>>
           /\ \A l \in Keys : k[1] = l[1] /\ k[2] = l[2] => k = l
<1>1. NumClients \in Nat /\ \A u \in Uses : MaxCalls[u] \in Nat
  BY ConstantsAssumption
<1>2. Clients \subseteq Nat /\ Ids \subseteq Nat
  BY <1>1 DEF Clients, Ids
<1>3. \A l \in Keys : l[1] \in Clients /\ l[2] \in Ids /\ l = <<l[1], l[2]>>
  BY DEF Keys
<1> QED BY <1>2, <1>3

\* The first session of some.
LEMMA FirstIs ==
    ASSUME NEW S, S \subseteq Keys, S # {}
    PROVE  First(S) \in S /\ \A l \in S \ {First(S)} : KeyBefore(First(S), l)
<1> DEFINE I == {k[2] : k \in S}
           C == {k[1] : k \in {l \in S : l[2] = Min(I)}}
<1>1. \A k \in S : k[1] \in Nat /\ k[2] \in Nat /\ \A l \in S : k[1] = l[1] /\ k[2] = l[2] => k = l
  BY KeysAre
<1>2. I \subseteq Nat /\ I # {}
  BY <1>1
<1>3. Min(I) \in I /\ \A y \in I : Min(I) <= y
  <2> HIDE DEF I
  <2> QED BY <1>2, Least
<1>4. C \subseteq Nat /\ C # {}
  <2>1. PICK k \in S : k[2] = Min(I)
    BY <1>3
  <2>2. k[1] \in C
    BY <2>1
  <2>3. C \subseteq Nat
    <3> HIDE DEF I
    <3> QED BY <1>1
  <2> QED BY <2>2, <2>3
<1>5. Min(C) \in C /\ \A y \in C : Min(C) <= y
  <2> HIDE DEF C
  <2> QED BY <1>4, Least
<1>6. PICK k \in S : k[2] = Min(I) /\ k[1] = Min(C)
  BY <1>5
<1>7. ASSUME NEW l \in S \ {k} PROVE KeyBefore(k, l)
  <2>1. k[2] <= l[2] /\ k[2] \in Nat /\ l[2] \in Nat /\ k[1] \in Nat /\ l[1] \in Nat
    BY <1>1, <1>3, <1>6
  <2>2. CASE k[2] = l[2]
    <3>1. l[1] \in C
      BY <1>6, <2>2
    <3>2. k[1] <= l[1] /\ k[1] # l[1]
      BY <1>1, <1>5, <1>6, <1>7, <2>2, <3>1
    <3> QED BY <2>1, <2>2, <3>2 DEF KeyBefore
  <2>3. CASE k[2] # l[2]
    BY <2>1, <2>3 DEF KeyBefore
  <2> QED BY <2>2, <2>3
<1>8. \E k_1 \in S : \A l \in S \ {k_1} : KeyBefore(k_1, l)
  BY <1>7
<1> QED BY <1>8 DEF First

\* The order is one: nothing is before itself, and it can be followed.
LEMMA OrderIs ==
    ASSUME NEW k \in Keys, NEW l \in Keys
    PROVE  KeyBefore(k, l) => k # l
<1>1. k[1] \in Nat /\ k[2] \in Nat
  BY KeysAre
<1> QED BY <1>1 DEF KeyBefore

Sorted(s, S, n) ==
    /\ s \in [1..n -> S]
    /\ \A i, j \in 1..n : i < j => KeyBefore(s[i], s[j])

\* Finitely many sessions can be put in order.
LEMMA SortedExists ==
    ASSUME NEW S, S \subseteq Keys, IsFiniteSet(S)
    PROVE  \E s : Sorted(s, S, Cardinality(S))
<1> DEFINE P == {n \in Nat : \A T \in SUBSET Keys : IsFiniteSet(T) /\ Cardinality(T) = n
                               => \E s : Sorted(s, T, n)}
<1>1. 0 \in P
  <2> SUFFICES ASSUME NEW T \in SUBSET Keys, IsFiniteSet(T), Cardinality(T) = 0
               PROVE  \E s : Sorted(s, T, 0)
    OBVIOUS
  <2>1. [j \in 1..0 |-> First(T)] \in [1..0 -> T]
    OBVIOUS
  <2>2. Sorted([j \in 1..0 |-> First(T)], T, 0)
    BY <2>1 DEF Sorted
  <2> QED BY <2>2
<1>2. ASSUME NEW n \in Nat, n \in P PROVE n + 1 \in P
  <2> SUFFICES ASSUME NEW T \in SUBSET Keys, IsFiniteSet(T), Cardinality(T) = n + 1
               PROVE  \E s : Sorted(s, T, n + 1)
    OBVIOUS
  <2> DEFINE f == First(T)
             R == T \ {f}
  <2>1. T # {}
    BY FS_EmptySet
  <2>2. f \in T /\ \A l \in R : KeyBefore(f, l)
    BY <2>1, FirstIs
  <2>3. IsFiniteSet(R) /\ Cardinality(R) = n
    <3> HIDE DEF f
    <3>1. IsFiniteSet(T \ {f}) /\ Cardinality(T \ {f}) = Cardinality(T) - 1
      BY <2>2, FS_RemoveElement
    <3> QED BY <3>1
  <2>4. PICK s : Sorted(s, R, n)
    BY <1>2, <2>3
  <2> HIDE DEF f
  <2> DEFINE t == [j \in 1..(n + 1) |-> IF j = 1 THEN f ELSE s[j - 1]]
  <2>5. \A j \in 1..(n + 1) : j # 1 => j - 1 \in 1..n
    OBVIOUS
  <2>6. t \in [1..(n + 1) -> T]
    BY <2>2, <2>4, <2>5 DEF Sorted
  <2>7. ASSUME NEW i \in 1..(n + 1), NEW j \in 1..(n + 1), i < j
        PROVE  KeyBefore(t[i], t[j])
    <3>1. j - 1 \in 1..n /\ t[j] = s[j - 1]
      BY <2>5, <2>7
    <3>2. CASE i = 1
      BY <2>2, <2>4, <3>1, <3>2 DEF Sorted
    <3>3. CASE i # 1
      <4>1. i - 1 \in 1..n /\ t[i] = s[i - 1] /\ i - 1 < j - 1
        BY <2>5, <2>7, <3>3
      <4> QED BY <2>4, <3>1, <4>1 DEF Sorted
    <3> QED BY <3>2, <3>3
  <2> HIDE DEF t
  <2>8. Sorted(t, T, n + 1)
    BY <2>6, <2>7 DEF Sorted
  <2> QED BY <2>8
<1>3. Cardinality(S) \in Nat
  BY FS_CardinalityType
<1> HIDE DEF P
<1>4. Cardinality(S) \in P
  BY <1>1, <1>2, <1>3, Induction
<1> QED BY <1>4 DEF P

\* Each session is listed.
LEMMA InOrderIs ==
    ASSUME NEW S, S \subseteq Keys, IsFiniteSet(S)
    PROVE  /\ Sq(InOrder(S)) /\ DOMAIN InOrder(S) = 1..Cardinality(S)
           /\ Cardinality(S) \in Nat /\ Len(InOrder(S)) = Cardinality(S)
           /\ \A j \in DOMAIN InOrder(S) : InOrder(S)[j] \in S
           /\ \A k \in S : \E j \in DOMAIN InOrder(S) : InOrder(S)[j] = k
<1> DEFINE n == Cardinality(S)
           o == InOrder(S)
<1>1. n \in Nat
  BY FS_CardinalityType
<1>2. \E s \in [1..n -> S] : \A i, j \in DOMAIN s : i < j => KeyBefore(s[i], s[j])
  <2>1. PICK s : Sorted(s, S, n)
    BY SortedExists
  <2>2. s \in [1..n -> S] /\ DOMAIN s = 1..n
    BY <2>1 DEF Sorted
  <2> QED BY <2>1, <2>2 DEF Sorted
<1>3. o \in [1..n -> S] /\ \A i, j \in DOMAIN o : i < j => KeyBefore(o[i], o[j])
  BY <1>2 DEF InOrder
<1> HIDE DEF o, n
<1>4. DOMAIN o = 1..n /\ \A j \in 1..n : o[j] \in S
  BY <1>3
<1>5. Sq(o) /\ Len(o) = n
  BY <1>1, <1>3, SqIs
<1>6. \A i, j \in 1..n : o[i] = o[j] => i = j
  <2> SUFFICES ASSUME NEW i \in 1..n, NEW j \in 1..n, o[i] = o[j], i # j PROVE FALSE
    OBVIOUS
  <2>1. o[i] \in Keys /\ o[j] \in Keys
    BY <1>4
  <2>2. ~KeyBefore(o[i], o[j]) /\ ~KeyBefore(o[j], o[i])
    BY <2>1, OrderIs
  <2>3. i < j \/ j < i
    BY <1>1
  <2> QED BY <1>3, <1>4, <2>2, <2>3
<1> DEFINE R == Range(o)
<1>7. R \subseteq S
  BY <1>4 DEF Range
<1>8. o \in Bijection(1..n, R)
  <2>1. o \in [1..n -> R] /\ \A x \in R : \E j \in 1..n : o[j] = x
    BY <1>3, <1>4 DEF Range
  <2> HIDE DEF R
  <2>2. IsInjective(o)
    BY <1>4, <1>6 DEF IsInjective
  <2>3. o \in Injection(1..n, R) /\ o \in Surjection(1..n, R)
    BY <2>1, <2>2 DEF Injection, Surjection
  <2> QED BY <2>3 DEF Bijection
<1>9. Cardinality(R) = n
  <2>1. ExistsBijection(1..n, R)
    BY <1>8 DEF ExistsBijection
  <2>2. IsFiniteSet(1..n) /\ Cardinality(1..n) = n
    BY <1>1, FS_Interval
  <2> QED BY <2>1, <2>2, FS_Bijection
<1>10. R = S
  BY <1>7, <1>9, FS_Subset DEF n
<1>11. \A k \in S : \E j \in 1..n : o[j] = k
  BY <1>4, <1>10 DEF Range
<1> QED BY <1>1, <1>4, <1>5, <1>11 DEF o, n

-----------------------------------------------------------------------------
(* What handlers do to the sessions and ask of the modem.                    *)

TimeOptions == {o \in Options : o.minDistance = 0 /\ o.minInterval >= MIN_TRACKING_INTERVAL}
DistanceOptions == {o \in Options : o.minDistance > 0}

TimeOK(T) == DOMAIN T \subseteq Keys /\ T \in [DOMAIN T -> TimeOptions] /\ IsFiniteSet(DOMAIN T)
DistanceOK(D) ==
    DOMAIN D \subseteq Keys /\ D \in [DOMAIN D -> DistanceOptions] /\ IsFiniteSet(DOMAIN D)

ThenOK(t) ==
    \/ t = NoThen
    \/ /\ t.cont \in Conts /\ t.key \in Keys
       /\ t.cont \in {"updated", "switch"} => t.options \in TimeOptions
       /\ t.cont \in {"restart", "restarted"} => t.options \in DistanceOptions

RequestOK(r) ==
    /\ ThenOK(r.then)
    /\ r.do \in {"startFix", "stopFix", "startDistance", "stopDistance", "lock", "blacklist",
                 "config"}
    /\ r.do = "startFix" => r.fix.minInterval \in Nat \ {0}

RequestsOK(q) == Sq(q) /\ \A j \in DOMAIN q : RequestOK(q[j])

Rec(h) == h = [time |-> h.time, distance |-> h.distance, requests |-> h.requests,
               answers |-> h.answers]

HandlingOK(h) ==
    /\ Rec(h) /\ TimeOK(h.time) /\ DistanceOK(h.distance)
    /\ RequestsOK(h.requests) /\ Sq(h.answers)

\* An interval short enough for some sessions.
Short(n, T) == n \in Nat \ {0} /\ \A l \in DOMAIN T : n <= T[l].minInterval

\* A request for the fix that serves these sessions.
FixRequest(r, T) ==
    \/ r.do = "startFix" /\ T # <<>> /\ Short(r.fix.minInterval, T)
    \/ r.do = "stopFix" /\ T = <<>>

\* What is short enough for some sessions is for others.
Covers(T, T2) == \A n : Short(n, T) => Short(n, T2)

\* A request for what the sessions will be, or none where it needs none.
Multiplexed(h, s, key, conts, T2) ==
    \/ \E r : /\ s = <<Request(h, r), FALSE>> /\ RequestOK(r)
              /\ r.then.cont \in conts /\ r.then.key = key /\ FixRequest(r, T2)
    \/ s = <<h, TRUE>> /\ h.time # <<>> /\ T2 # <<>> /\ Covers(h.time, T2)

TimeStep(h, g, key, conts, T2) ==
    /\ Rec(g) /\ g.time = T2 /\ g.distance = h.distance
    /\ \/ \E r : /\ g.requests = Append(h.requests, r) /\ g.answers = h.answers
                 /\ RequestOK(r) /\ r.then.cont \in conts /\ r.then.key = key
                 /\ FixRequest(r, T2)
       \/ /\ g.requests = h.requests /\ g.answers = Append(h.answers, key)
          /\ h.time # <<>> /\ T2 # <<>> /\ Covers(h.time, T2)

\* An interval is longer than none, and not raised below its own.
LEMMA OptionsAre ==
    /\ MIN_TRACKING_INTERVAL \in Nat /\ MIN_TRACKING_INTERVAL > 0
    /\ \A o \in Options : o.minInterval \in Nat /\ o.minDistance \in Nat /\ o.powerMode \in 0..5
    /\ \A o \in TimeOptions : o \in Options /\ o.minInterval \in Nat \ {0} /\ o.minDistance = 0
    /\ \A o \in DistanceOptions : o \in Options /\ o.minDistance \in Nat \ {0}
    /\ NoOptions \in Options
<1>1. MIN_TRACKING_INTERVAL \in Nat /\ MIN_TRACKING_INTERVAL > 0
  BY ConstantsAssumption
<1> QED BY <1>1 DEF TimeOptions, DistanceOptions, Options, NoOptions

\* The greater of two numbers.
LEMMA MaxOfTwo ==
    ASSUME NEW m \in Nat, NEW n \in Nat
    PROVE  Max({m, n}) \in Nat /\ Max({m, n}) >= m /\ Max({m, n}) >= n
<1> DEFINE S == {m, n}
<1>1. S \subseteq Nat /\ S # {} /\ m \in S /\ n \in S /\ m + n \in Nat
      /\ \A y \in S : y <= m + n
  OBVIOUS
<1> HIDE DEF S
<1>2. Max(S) \in S /\ \A y \in S : Max(S) >= y
  BY <1>1, Greatest
<1> QED BY <1>1, <1>2 DEF S

\* What a client asks for, as it is recorded.
LEMMA NormalIs ==
    ASSUME NEW o \in Options
    PROVE  /\ Raised(o) \in Options /\ Normal(o) \in Options
           /\ Raised(o).minDistance = o.minDistance /\ Normal(o).minDistance = o.minDistance
           /\ o.minDistance = 0 => Normal(o) \in TimeOptions
           /\ o.minDistance > 0 => Raised(o) \in DistanceOptions /\ Normal(o) \in DistanceOptions
<1>1. o.minInterval \in Nat /\ o.minDistance \in Nat
  BY OptionsAre
<1> DEFINE i == Max({o.minInterval, MIN_TRACKING_INTERVAL})
<1>2. i \in Nat /\ i >= MIN_TRACKING_INTERVAL
  BY <1>1, OptionsAre, MaxOfTwo
<1> HIDE DEF i
<1>3. Raised(o) = [o EXCEPT !.minInterval = i]
  BY DEF Raised, i, Options
<1>4. Raised(o) \in Options /\ Raised(o).minDistance = o.minDistance /\ Raised(o).minInterval = i
  BY <1>2, <1>3 DEF Options
<1>5. Normal(o) \in Options /\ Normal(o).minDistance = o.minDistance /\ Normal(o).minInterval = i
  BY <1>4 DEF Normal, Options, M2, M4
<1> QED BY <1>2, <1>4, <1>5 DEF TimeOptions, DistanceOptions

\* A map with a session more, or less.
LEMMA DropIs ==
    ASSUME NEW f, NEW key
    PROVE  /\ DOMAIN Drop(f, key) = DOMAIN f \ {key}
           /\ \A l \in DOMAIN Drop(f, key) : Drop(f, key)[l] = f[l]
<1>1. Drop(f, key) = [l \in DOMAIN f \ {key} |-> f[l]]
  BY DEF Drop, Restrict
<1> QED BY <1>1

\* A map that only had the session has none left.
LEMMA DropEmpty ==
    ASSUME NEW f, NEW key
    PROVE  Drop(f, key) = <<>> <=> DOMAIN f \subseteq {key}
<1>1. Drop(f, key) = [l \in DOMAIN f \ {key} |-> f[l]]
  BY DEF Drop, Restrict
<1>2. DOMAIN <<>> = {}
  OBVIOUS
<1>3. CASE DOMAIN f \ {key} = {}
  BY <1>1, <1>3
<1>4. CASE DOMAIN f \ {key} # {}
  BY <1>1, <1>2, <1>4
<1> QED BY <1>3, <1>4

\* The sessions of a map with one more.
LEMMA WithDomain ==
    ASSUME NEW f, NEW key, NEW o
    PROVE  DOMAIN With(f, key, o) = DOMAIN f \cup {key}
BY DEF With

\* What they are.
LEMMA WithIs ==
    ASSUME NEW f, NEW key, NEW o
    PROVE  /\ With(f, key, o)[key] = o
           /\ \A l \in DOMAIN f \ {key} : With(f, key, o)[l] = f[l]
BY DEF With

\* A map with one more session is not empty.
LEMMA WithSome == ASSUME NEW f, NEW key, NEW o PROVE With(f, key, o) # <<>>
BY DEF With

\* Maps of sessions stay so.
LEMMA MapsOK ==
    ASSUME NEW f, NEW key \in Keys
    PROVE  /\ TimeOK(f) => TimeOK(Drop(f, key)) /\ \A o \in TimeOptions : TimeOK(With(f, key, o))
           /\ DistanceOK(f) => /\ DistanceOK(Drop(f, key))
                               /\ \A o \in DistanceOptions : DistanceOK(With(f, key, o))
<1>1. IsFiniteSet(DOMAIN f) => IsFiniteSet(DOMAIN f \ {key}) /\ IsFiniteSet(DOMAIN f \cup {key})
  BY FS_AddElement, FS_RemoveElement
<1>2. Drop(f, key) = [l \in DOMAIN f \ {key} |-> f[l]]
  BY DEF Drop, Restrict
<1> QED BY <1>1, <1>2 DEF TimeOK, DistanceOK, With

\* The smallest interval of the sessions.
LEMMA Smallest ==
    ASSUME NEW T, TimeOK(T), T # <<>>
    PROVE  /\ SmallestInterval(T) \in TimeOptions
           /\ \A l \in DOMAIN T : SmallestInterval(T).minInterval <= T[l].minInterval
           /\ \E l \in DOMAIN T : T[l] = SmallestInterval(T)
<1> DEFINE I == {T[k].minInterval : k \in DOMAIN T}
           S == {k \in DOMAIN T : \A l \in DOMAIN T : T[k].minInterval <= T[l].minInterval}
<1>0. DOMAIN T # {}
  <2>1. T = [l \in DOMAIN T |-> T[l]]
    BY DEF TimeOK
  <2> QED BY <2>1
<1>1. DOMAIN T # {} /\ DOMAIN T \subseteq Keys /\ \A k \in DOMAIN T : T[k] \in TimeOptions
  BY <1>0 DEF TimeOK
<1>2. I \subseteq Nat /\ I # {}
  BY <1>1, OptionsAre
<1>3. Min(I) \in I /\ \A y \in I : Min(I) <= y
  <2> HIDE DEF I
  <2> QED BY <1>2, Least
<1>4. S # {} /\ S \subseteq Keys
  <2>1. PICK k \in DOMAIN T : T[k].minInterval = Min(I)
    BY <1>3
  <2>2. k \in S
    BY <1>3, <2>1
  <2> QED BY <1>1, <2>2
<1>5. First(S) \in S
  <2> HIDE DEF S
  <2> QED BY <1>4, FirstIs
<1>6. SmallestInterval(T) = T[First(S)]
  BY DEF SmallestInterval
<1> QED BY <1>1, <1>5, <1>6

\* The options of a fix, of which the interval or the power mode is another's.
LEMMA MergedIs ==
    ASSUME NEW m \in Options, NEW a, NEW b
    PROVE  /\ [m EXCEPT !.minInterval = a, !.powerMode = b].minInterval = a
           /\ [m EXCEPT !.powerMode = b].minInterval = m.minInterval
BY DEF Options

\* Starting a fix for some sessions.
LEMMA FixStarted ==
    ASSUME NEW o, NEW t, ThenOK(t), NEW T, T # <<>>, Short(o.minInterval, T)
    PROVE  /\ RequestOK(startTimeBased(o, t)) /\ startTimeBased(o, t).then = t
           /\ FixRequest(startTimeBased(o, t), T)
<1>1. o.minInterval \in Nat \ {0}
  BY DEF Short
<1> QED BY <1>1 DEF startTimeBased, RequestOK, FixRequest

\* A request for the fix is one that multiplexing makes.
LEMMA FixAsked ==
    ASSUME NEW h, NEW s, NEW key \in Keys, NEW p, NEW t, ThenOK(t), t.key = key, NEW T2, T2 # <<>>,
           s = <<Request(h, startTimeBased(p, t)), FALSE>>, Short(p.minInterval, T2)
    PROVE  Multiplexed(h, s, key, {t.cont}, T2)
<1>1. /\ RequestOK(startTimeBased(p, t)) /\ startTimeBased(p, t).then = t
      /\ FixRequest(startTimeBased(p, t), T2)
  BY FixStarted
<1> QED BY <1>1 DEF Multiplexed

\* The options merged of a session's and of the smallest of the others.
LEMMA MergedShort ==
    ASSUME NEW T, TimeOK(T), T # <<>>, NEW o \in TimeOptions, NEW b
    PROVE  LET m == SmallestInterval(T)
               a == IF o.minInterval < m.minInterval THEN o.minInterval ELSE m.minInterval
           IN  /\ a \in Nat \ {0} /\ a <= o.minInterval /\ Short(a, T)
               /\ Short([m EXCEPT !.minInterval = a, !.powerMode = b].minInterval, T)
               /\ [m EXCEPT !.minInterval = a, !.powerMode = b].minInterval = a
               /\ Short([m EXCEPT !.powerMode = b].minInterval, T)
<1> DEFINE m == SmallestInterval(T)
           a == IF o.minInterval < m.minInterval THEN o.minInterval ELSE m.minInterval
<1>1. m \in TimeOptions /\ \A l \in DOMAIN T : m.minInterval <= T[l].minInterval
  BY Smallest
<1>2. m \in Options /\ m.minInterval \in Nat \ {0} /\ o.minInterval \in Nat \ {0}
  BY <1>1, OptionsAre
<1>3. \A l \in DOMAIN T : T[l].minInterval \in Nat
  BY OptionsAre DEF TimeOK
<1> HIDE DEF m
<1>4. a \in Nat \ {0} /\ a <= o.minInterval /\ a <= m.minInterval
  BY <1>2
<1> HIDE DEF a
<1>5. Short(a, T) /\ Short(m.minInterval, T)
  BY <1>1, <1>2, <1>3, <1>4 DEF Short
<1>6. /\ [m EXCEPT !.minInterval = a, !.powerMode = b].minInterval = a
      /\ [m EXCEPT !.powerMode = b].minInterval = m.minInterval
  BY <1>2, MergedIs
<1> QED BY <1>4, <1>5, <1>6 DEF m, a

\* Short enough for a session and for the others is for all.
LEMMA ShortWith ==
    ASSUME NEW T, NEW key, NEW o, NEW n, Short(n, Drop(T, key)), n <= o.minInterval
    PROVE  Short(n, With(T, key, o))
<1>1. /\ With(T, key, o)[key] = o
      /\ \A l \in DOMAIN T \ {key} : With(T, key, o)[l] = T[l]
  BY WithIs
<1>3. DOMAIN With(T, key, o) = DOMAIN T \cup {key}
  BY WithDomain
<1>2. /\ DOMAIN Drop(T, key) = DOMAIN T \ {key}
      /\ \A l \in DOMAIN Drop(T, key) : Drop(T, key)[l] = T[l]
  BY DropIs
<1> QED BY <1>1, <1>2, <1>3 DEF Short

\* Short enough for some sessions is for fewer.
LEMMA ShortDrop ==
    ASSUME NEW T, NEW key, NEW n, Short(n, T)
    PROVE  Short(n, Drop(T, key))
<1>1. /\ DOMAIN Drop(T, key) = DOMAIN T \ {key}
      /\ \A l \in DOMAIN Drop(T, key) : Drop(T, key)[l] = T[l]
  BY DropIs
<1> QED BY <1>1 DEF Short

\* startTimeBasedTrackingMultiplex asks for a fix that serves all sessions, or one does.
LEMMA BeginMultiplexed ==
    ASSUME NEW h, TimeOK(h.time), NEW key \in Keys, NEW o \in TimeOptions
    PROVE  Multiplexed(h, startTimeBasedTrackingMultiplex(h, key, o), key, {"started"},
                       With(h.time, key, o))
<1> SUFFICES ASSUME NEW T, T = h.time, NEW T2, T2 = With(T, key, o),
                    NEW s, s = startTimeBasedTrackingMultiplex(h, key, o),
                    NEW t, t = Then("started", key, NoOptions)
             PROVE  Multiplexed(h, s, key, {"started"}, T2)
  OBVIOUS
<1>1. ThenOK(t) /\ t.cont = "started" /\ t.key = key
  BY DEF ThenOK, Then, Conts
<1>2. T2 # <<>>
  BY WithSome
<1>3. o \in Options /\ o.minInterval \in Nat \ {0}
  BY OptionsAre
<1>4. \A p : startTimeBasedTracking(h, key, p) = Request(h, startTimeBased(p, t))
  BY DEF startTimeBasedTracking
<1>5. CASE T = <<>>
  <2>1. s = <<Request(h, startTimeBased(o, t)), FALSE>>
    BY <1>4, <1>5 DEF startTimeBasedTrackingMultiplex
  <2>2. DOMAIN T = {}
    BY <1>5
  <2>3. Short(o.minInterval, Drop(T, key))
    <3>1. DOMAIN Drop(T, key) = DOMAIN T \ {key}
      BY DropIs
    <3> QED BY <1>3, <2>2, <3>1 DEF Short
  <2>4. Short(o.minInterval, T2)
    BY <1>3, <2>3, ShortWith
  <2> QED BY <1>1, <1>2, <2>1, <2>4, FixAsked
<1>6. CASE T # <<>>
  <2> DEFINE m == SmallestInterval(T)
             stronger == o.powerMode < SmallestPowerMode(T)
             a == IF o.minInterval < m.minInterval THEN o.minInterval ELSE m.minInterval
             b == IF stronger THEN o.powerMode ELSE m.powerMode
             p == [m EXCEPT !.minInterval = a, !.powerMode = b]
  <2>1. s = IF o.minInterval < m.minInterval \/ stronger
            THEN <<Request(h, startTimeBased(p, t)), FALSE>> ELSE <<h, TRUE>>
    BY <1>4, <1>6 DEF startTimeBasedTrackingMultiplex
  <2>2. p.minInterval = a /\ Short(a, T) /\ a <= o.minInterval
    BY <1>6, MergedShort
  <2>3. Short(a, T2)
    BY <2>2, ShortDrop, ShortWith
  <2>4. CASE o.minInterval < m.minInterval \/ stronger
    <3>1. s = <<Request(h, startTimeBased(p, t)), FALSE>> /\ Short(p.minInterval, T2)
      BY <2>1, <2>2, <2>3, <2>4
    <3> HIDE DEF p
    <3> QED BY <1>1, <1>2, <3>1, FixAsked
  <2>5. CASE ~(o.minInterval < m.minInterval \/ stronger)
    <3>1. s = <<h, TRUE>>
      BY <2>1, <2>5
    <3>2. ASSUME NEW n, Short(n, T) PROVE Short(n, T2)
      <4>1. PICK l \in DOMAIN T : T[l] = m
        BY <1>6, Smallest
      <4>2. n \in Nat /\ n <= m.minInterval
        BY <3>2, <4>1 DEF Short
      <4>3. m \in TimeOptions
        BY <1>6, Smallest
      <4>4. m.minInterval \in Nat
        BY <4>3, OptionsAre
      <4>5. n <= o.minInterval
        <5> HIDE DEF m
        <5> QED BY <1>3, <2>5, <4>2, <4>4
      <4> QED BY <3>2, <4>5, ShortDrop, ShortWith
    <3>3. Covers(T, T2)
      BY <3>2 DEF Covers
    <3> QED BY <1>2, <1>6, <3>1, <3>3 DEF Multiplexed
  <2> QED BY <2>4, <2>5
<1> QED BY <1>5, <1>6

\* So does updateTrackingMultiplex.
LEMMA UpdateMultiplexed ==
    ASSUME NEW h, TimeOK(h.time), NEW key \in DOMAIN h.time, NEW o \in TimeOptions
    PROVE  Multiplexed(h, updateTrackingMultiplex(h, key, o), key, {"updated"},
                       With(h.time, key, o))
<1> SUFFICES ASSUME NEW T, T = h.time, NEW T2, T2 = With(T, key, o),
                    NEW s, s = updateTrackingMultiplex(h, key, o),
                    NEW old, old = T[key], NEW t, t = Then("updated", key, old)
             PROVE  Multiplexed(h, s, key, {"updated"}, T2)
  OBVIOUS
<1>1. key \in Keys /\ old \in TimeOptions /\ old.minInterval \in Nat
  BY OptionsAre DEF TimeOK
<1>2. ThenOK(t) /\ t.cont = "updated" /\ t.key = key
  BY <1>1 DEF ThenOK, Then, Conts
<1>3. T2 # <<>>
  BY WithSome
<1>4. T # <<>>
  <2>1. DOMAIN T # {}
    OBVIOUS
  <2> QED BY <2>1
<1>5. o.minInterval \in Nat \ {0}
  BY OptionsAre
<1> DEFINE R == Drop(T, key)
           m == SmallestInterval(R)
           stronger == o.powerMode < SmallestPowerMode(R)
           a == IF o.minInterval < m.minInterval THEN o.minInterval ELSE m.minInterval
           b == IF stronger THEN o.powerMode ELSE m.powerMode
           merged == IF R = <<>> THEN o ELSE [m EXCEPT !.minInterval = a, !.powerMode = b]
           changed == old.minInterval # o.minInterval \/ old.powerMode # o.powerMode
           asks == changed /\ (o.minInterval < m.minInterval \/ stronger \/ R = <<>>)
<1>6. s = IF asks THEN <<Request(h, startTimeBased(merged, t)), FALSE>> ELSE <<h, TRUE>>
  BY DEF updateTrackingMultiplex
<1>7. TimeOK(R)
  BY <1>1, MapsOK
<1> HIDE DEF R
<1>8. CASE asks
  <2>1. s = <<Request(h, startTimeBased(merged, t)), FALSE>>
    BY <1>6, <1>8
  <2>2. Short(merged.minInterval, T2)
    <3>1. CASE R = <<>>
      <4>1. Short(o.minInterval, R)
        BY <1>5, <3>1 DEF Short
      <4>2. Short(o.minInterval, T2)
        BY <1>5, <4>1, ShortWith DEF R
      <4> QED BY <3>1, <4>2
    <3>2. CASE R # <<>>
      <4>1. merged.minInterval = a /\ Short(a, R) /\ a <= o.minInterval
        BY <1>7, <3>2, MergedShort
      <4>2. Short(a, T2)
        <5> HIDE DEF a
        <5> QED BY <4>1, ShortWith DEF R
      <4> QED BY <4>1, <4>2
    <3> QED BY <3>1, <3>2
  <2> HIDE DEF merged
  <2> QED BY <1>1, <1>2, <1>3, <2>1, <2>2, FixAsked
<1>9. CASE ~asks
  <2>1. s = <<h, TRUE>>
    BY <1>6, <1>9
  <2>2. ASSUME NEW n, Short(n, T) PROVE Short(n, T2)
    <3>1. n \in Nat /\ n <= old.minInterval
      BY <2>2 DEF Short
    <3>2. n <= o.minInterval
      <4>1. CASE ~changed
        BY <3>1, <4>1
      <4>2. CASE changed
        <5>1. R # <<>> /\ ~(o.minInterval < m.minInterval)
          BY <1>9, <4>2
        <5>2. m \in TimeOptions /\ \E l \in DOMAIN R : R[l] = m
          BY <1>7, <5>1, Smallest
        <5>3. Short(n, R)
          BY <2>2, ShortDrop DEF R
        <5>4. n <= m.minInterval /\ m.minInterval \in Nat
          BY <5>2, <5>3, OptionsAre DEF Short
        <5> HIDE DEF m
        <5> QED BY <1>5, <3>1, <5>1, <5>4
      <4> QED BY <4>1, <4>2
    <3> QED BY <2>2, <3>2, ShortDrop, ShortWith
  <2>3. Covers(T, T2)
    BY <2>2 DEF Covers
  <2> QED BY <1>3, <1>4, <2>1, <2>3 DEF Multiplexed
<1> QED BY <1>8, <1>9

\* So does stopTimeBasedTrackingMultiplex, and it stops the fix with the last session.
LEMMA StopMultiplexed ==
    ASSUME NEW h, TimeOK(h.time), NEW key \in DOMAIN h.time
    PROVE  Multiplexed(h, stopTimeBasedTrackingMultiplex(h, key), key, {"started", "answer"},
                       Drop(h.time, key))
<1> SUFFICES ASSUME NEW T, T = h.time, NEW T2, T2 = Drop(T, key),
                    NEW s, s = stopTimeBasedTrackingMultiplex(h, key),
                    NEW t, t = Then("started", key, NoOptions)
             PROVE  Multiplexed(h, s, key, {"started", "answer"}, T2)
  OBVIOUS
<1>1. key \in Keys
  BY DEF TimeOK
<1>2. ThenOK(t) /\ t.cont = "started" /\ t.key = key
  BY <1>1 DEF ThenOK, Then, Conts
<1>3. T # <<>>
  <2>1. DOMAIN T # {}
    OBVIOUS
  <2> QED BY <2>1
<1>4. TimeOK(T2)
  BY <1>1, MapsOK
<1> DEFINE m == SmallestInterval(T2)
           mode == SmallestPowerMode(T2)
           p == [m EXCEPT !.powerMode = mode]
           leads == T[key].minInterval < m.minInterval \/ T[key].powerMode < mode
<1>5. s = IF T2 = <<>> THEN <<stopTracking(h, key), FALSE>>
          ELSE IF leads THEN <<Request(h, startTimeBased(p, t)), FALSE>> ELSE <<h, TRUE>>
  BY DEF stopTimeBasedTrackingMultiplex, startTimeBasedTracking
<1>6. CASE T2 = <<>>
  <2> DEFINE r == [do |-> "stopFix", then |-> Then("answer", key, NoOptions)]
  <2>1. s = <<Request(h, r), FALSE>>
    BY <1>5, <1>6 DEF stopTracking
  <2>2. RequestOK(r) /\ r.then.cont = "answer" /\ r.then.key = key /\ FixRequest(r, T2)
    BY <1>1, <1>6 DEF RequestOK, ThenOK, Then, Conts, FixRequest
  <2> HIDE DEF r
  <2> QED BY <2>1, <2>2 DEF Multiplexed
<1>7. CASE T2 # <<>> /\ leads
  <2>1. s = <<Request(h, startTimeBased(p, t)), FALSE>>
    BY <1>5, <1>7
  <2>2. PICK l \in DOMAIN T2 : T2[l] = m
    BY <1>4, <1>7, Smallest
  <2>3. m \in TimeOptions
    BY <1>4, <1>7, Smallest
  <2>4. Short(p.minInterval, T2)
    BY <1>4, <1>7, <2>3, MergedShort
  <2> HIDE DEF p
  <2>5. Multiplexed(h, s, key, {"started"}, T2)
    BY <1>1, <1>2, <1>7, <2>1, <2>4, FixAsked
  <2> QED BY <2>5 DEF Multiplexed
<1>8. CASE T2 # <<>> /\ ~leads
  <2>1. s = <<h, TRUE>>
    BY <1>5, <1>8
  <2>2. Covers(T, T2)
    BY ShortDrop DEF Covers
  <2> QED BY <1>3, <1>8, <2>1, <2>2 DEF Multiplexed
<1> QED BY <1>6, <1>7, <1>8

\* What one more request, or answer, makes of a handling, and other sessions.
LEMMA HandledIs ==
    ASSUME NEW h, Rec(h)
    PROVE  /\ \A r : Request(h, r) = [time |-> h.time, distance |-> h.distance,
                                     requests |-> Append(h.requests, r), answers |-> h.answers]
           /\ \A k : reportResponse(h, k) = [time |-> h.time, distance |-> h.distance,
                                            requests |-> h.requests,
                                            answers |-> Append(h.answers, k)]
           /\ \A T : [h EXCEPT !.time = T] = [time |-> T, distance |-> h.distance,
                                             requests |-> h.requests, answers |-> h.answers]
           /\ \A D : [h EXCEPT !.distance = D] = [time |-> h.time, distance |-> D,
                                             requests |-> h.requests, answers |-> h.answers]
<1> SUFFICES ASSUME NEW T1, NEW D1, NEW q1, NEW a1,
                    h = [time |-> T1, distance |-> D1, requests |-> q1, answers |-> a1]
             PROVE  /\ \A r : Request(h, r) = [time |-> T1, distance |-> D1,
                                              requests |-> Append(q1, r), answers |-> a1]
                    /\ \A k : reportResponse(h, k) = [time |-> T1, distance |-> D1,
                                                     requests |-> q1, answers |-> Append(a1, k)]
                    /\ \A T : [h EXCEPT !.time = T] = [time |-> T, distance |-> D1,
                                                      requests |-> q1, answers |-> a1]
                    /\ \A D : [h EXCEPT !.distance = D] = [time |-> T1, distance |-> D,
                                                      requests |-> q1, answers |-> a1]
  BY DEF Rec
<1>1. \A r : Request(h, r) = [time |-> T1, distance |-> D1, requests |-> Append(q1, r),
                             answers |-> a1]
  BY DEF Request
<1>2. \A k : reportResponse(h, k) = [time |-> T1, distance |-> D1, requests |-> q1,
                                    answers |-> Append(a1, k)]
  BY DEF reportResponse
<1>3. \A T : [h EXCEPT !.time = T] = [time |-> T, distance |-> D1, requests |-> q1,
                                     answers |-> a1]
  OBVIOUS
<1>4. \A D : [h EXCEPT !.distance = D] = [time |-> T1, distance |-> D, requests |-> q1,
                                         answers |-> a1]
  OBVIOUS
<1> QED BY <1>1, <1>2, <1>3, <1>4

\* The parts of a handling.
LEMMA RecIs ==
    ASSUME NEW T, NEW D, NEW q, NEW a, NEW h,
           h = [time |-> T, distance |-> D, requests |-> q, answers |-> a]
    PROVE  Rec(h) /\ h.time = T /\ h.distance = D /\ h.requests = q /\ h.answers = a
BY DEF Rec

\* Once the sessions are saved or erased and the client answered.
LEMMA MultiplexedStep ==
    ASSUME NEW h, Rec(h), NEW s, NEW key, NEW conts, NEW T2, Multiplexed(h, s, key, conts, T2),
           NEW g, g = Answered([s[1] EXCEPT !.time = T2], s[2], key)
    PROVE  TimeStep(h, g, key, conts, T2) /\ s[1].time = h.time
<1>1. CASE \E r : /\ s = <<Request(h, r), FALSE>> /\ RequestOK(r)
                  /\ r.then.cont \in conts /\ r.then.key = key /\ FixRequest(r, T2)
  <2>1. PICK r : /\ s = <<Request(h, r), FALSE>> /\ RequestOK(r)
                 /\ r.then.cont \in conts /\ r.then.key = key /\ FixRequest(r, T2)
    BY <1>1
  <2> DEFINE p == [time |-> h.time, distance |-> h.distance,
                   requests |-> Append(h.requests, r), answers |-> h.answers]
  <2>2. s[1] = p /\ s[2] = FALSE
    BY <2>1, HandledIs
  <2>3. Rec(p) /\ p.time = h.time /\ p.distance = h.distance
        /\ p.requests = Append(h.requests, r) /\ p.answers = h.answers
    BY RecIs
  <2> HIDE DEF p
  <2>4. g = [p EXCEPT !.time = T2]
    BY <2>2 DEF Answered
  <2>5. g = [time |-> T2, distance |-> h.distance, requests |-> Append(h.requests, r),
             answers |-> h.answers]
    BY <2>3, <2>4, HandledIs
  <2>6. Rec(g) /\ g.time = T2 /\ g.distance = h.distance
        /\ g.requests = Append(h.requests, r) /\ g.answers = h.answers
    BY <2>5, RecIs
  <2> QED BY <2>1, <2>2, <2>3, <2>6 DEF TimeStep
<1>2. CASE s = <<h, TRUE>> /\ h.time # <<>> /\ T2 # <<>> /\ Covers(h.time, T2)
  <2> DEFINE p == [time |-> T2, distance |-> h.distance, requests |-> h.requests,
                   answers |-> h.answers]
  <2>1. s[1] = h /\ s[2] = TRUE /\ [h EXCEPT !.time = T2] = p
    BY <1>2, HandledIs
  <2>2. Rec(p) /\ p.time = T2 /\ p.distance = h.distance /\ p.requests = h.requests
        /\ p.answers = h.answers
    BY RecIs
  <2> HIDE DEF p
  <2>3. g = reportResponse(p, key)
    BY <2>1 DEF Answered
  <2>4. g = [time |-> T2, distance |-> h.distance, requests |-> h.requests,
             answers |-> Append(h.answers, key)]
    <3>1. \A k : reportResponse(p, k) = [time |-> p.time, distance |-> p.distance,
                                        requests |-> p.requests, answers |-> Append(p.answers, k)]
      BY <2>2, HandledIs
    <3> QED BY <2>2, <2>3, <3>1
  <2>5. Rec(g) /\ g.time = T2 /\ g.distance = h.distance
        /\ g.requests = h.requests /\ g.answers = Append(h.answers, key)
    BY <2>4, RecIs
  <2> QED BY <1>2, <2>1, <2>5 DEF TimeStep
<1> QED BY <1>1, <1>2 DEF Multiplexed

\* A time-based session begins.
LEMMA BeginStep ==
    ASSUME NEW h, HandlingOK(h), NEW key \in Keys, NEW o \in TimeOptions
    PROVE  TimeStep(h, beginTimeBased(h, key, o), key, {"started"}, With(h.time, key, o))
<1> DEFINE s == startTimeBasedTrackingMultiplex(h, key, o)
           T2 == With(h.time, key, o)
<1>1. Multiplexed(h, s, key, {"started"}, T2)
  BY BeginMultiplexed DEF HandlingOK
<1>2. ~(o.minDistance > 0)
  BY OptionsAre
<1>3. beginTimeBased(h, key, o) = Answered([s[1] EXCEPT !.time = With(s[1].time, key, o)], s[2], key)
  <2>1. \A p : [p EXCEPT !.time = With(@, key, o)] = [p EXCEPT !.time = With(p.time, key, o)]
    OBVIOUS
  <2> QED BY <1>2, <2>1 DEF beginTimeBased, saveTrackingSession
<1> HIDE DEF s, T2
<1>4. s[1].time = h.time
  BY <1>1, MultiplexedStep DEF HandlingOK
<1> QED BY <1>1, <1>3, <1>4, MultiplexedStep DEF HandlingOK, T2

\* A time-based session is changed.
LEMMA UpdateStep ==
    ASSUME NEW h, HandlingOK(h), NEW key \in DOMAIN h.time, NEW o \in TimeOptions,
           NEW s, s = updateTrackingMultiplex(h, key, o)
    PROVE  TimeStep(h, Answered(saveTrackingSession(s[1], key, o), s[2], key), key, {"updated"},
                    With(h.time, key, o))
<1> DEFINE T2 == With(h.time, key, o)
<1>1. Multiplexed(h, s, key, {"updated"}, T2)
  BY UpdateMultiplexed DEF HandlingOK
<1>2. ~(o.minDistance > 0)
  BY OptionsAre
<1>3. saveTrackingSession(s[1], key, o) = [s[1] EXCEPT !.time = With(s[1].time, key, o)]
  BY <1>2 DEF saveTrackingSession
<1> HIDE DEF T2
<1>4. s[1].time = h.time
  BY <1>1, MultiplexedStep DEF HandlingOK
<1> QED BY <1>1, <1>3, <1>4, MultiplexedStep DEF HandlingOK, T2

\* A time-based session is stopped.
LEMMA StopStep ==
    ASSUME NEW h, HandlingOK(h), NEW key \in DOMAIN h.time
    PROVE  TimeStep(h, stopTimeBased(h, key), key, {"started", "answer"}, Drop(h.time, key))
<1> DEFINE s == stopTimeBasedTrackingMultiplex(h, key)
           T2 == Drop(h.time, key)
<1>1. Multiplexed(h, s, key, {"started", "answer"}, T2)
  BY StopMultiplexed DEF HandlingOK
<1> HIDE DEF s, T2
<1>2. s[1].time = h.time
  BY <1>1, MultiplexedStep DEF HandlingOK
<1>3. eraseTrackingSession(s[1], key) = [s[1] EXCEPT !.time = T2]
  <2>1. \A p : [p EXCEPT !.time = Drop(@, key)] = [p EXCEPT !.time = Drop(p.time, key)]
    OBVIOUS
  <2> QED BY <1>2, <2>1 DEF eraseTrackingSession, T2
<1>4. stopTimeBased(h, key) = Answered([s[1] EXCEPT !.time = T2], s[2], key)
  BY <1>3 DEF stopTimeBased, s
<1> QED BY <1>1, <1>4, MultiplexedStep DEF HandlingOK, T2

-----------------------------------------------------------------------------
(* What each message makes of the sessions.                                  *)

Makes(g, T, D, q, a) ==
    Rec(g) /\ g.time = T /\ g.distance = D /\ g.requests = q /\ g.answers = a

Started(key) == Then("started", key, NoOptions)

StartMakes(g, key, o) ==
    \/ ~hasCallbacksToStartTracking(key[1]) /\ Makes(g, timeBased, distanceBased, <<>>, <<>>)
    \/ /\ o.minDistance > 0
       /\ Makes(g, timeBased, With(distanceBased, key, Raised(o)),
                <<startDistance(key, Raised(o), Started(key))>>, <<>>)
    \/ /\ o.minDistance = 0
       /\ TimeStep(Handling, g, key, {"started"}, With(timeBased, key, Normal(o)))

UpdateMakes(g, key, o) ==
    \/ /\ key \notin DOMAIN timeBased \cup DOMAIN distanceBased
       /\ Makes(g, timeBased, distanceBased, <<>>, <<key>>)
    \/ /\ key \in DOMAIN timeBased /\ o.minDistance > 0
       /\ \E p : /\ TimeStep(Handling, p, key, {"started", "answer"}, Drop(timeBased, key))
                 /\ Makes(g, Drop(timeBased, key), With(distanceBased, key, Normal(o)),
                          Append(p.requests, startDistance(key, Normal(o), NoThen)), p.answers)
    \/ /\ key \in DOMAIN timeBased /\ o.minDistance = 0
       /\ TimeStep(Handling, g, key, {"updated"}, With(timeBased, key, Normal(o)))
    \/ /\ key \in DOMAIN distanceBased \ DOMAIN timeBased /\ o.minDistance = 0
       /\ Makes(g, timeBased, Drop(distanceBased, key),
                <<stopDistance(key, Then("switch", key, Normal(o)))>>, <<>>)
    \/ /\ key \in DOMAIN distanceBased \ DOMAIN timeBased /\ o.minDistance > 0
       /\ Makes(g, timeBased, distanceBased,
                <<stopDistance(key, Then("restart", key, Normal(o)))>>, <<>>)

StopMakes(g, key) ==
    \/ /\ key \in DOMAIN timeBased
       /\ TimeStep(Handling, g, key, {"started", "answer"}, Drop(timeBased, key))
    \/ /\ key \in DOMAIN distanceBased \ DOMAIN timeBased
       /\ Makes(g, timeBased, distanceBased,
                <<stopDistance(key, Then("stopped", key, NoOptions))>>, <<>>)
    \/ /\ key \notin DOMAIN timeBased \cup DOMAIN distanceBased
       /\ Makes(g, timeBased, distanceBased, <<>>, <<key>>)

\* The session erased, whichever it is.
Erased(g, key, answers) ==
    \/ key \in DOMAIN timeBased /\ Makes(g, Drop(timeBased, key), distanceBased, <<>>, answers)
    \/ key \notin DOMAIN timeBased /\ Makes(g, timeBased, Drop(distanceBased, key), <<>>, answers)

Kept(g, answers) == Makes(g, timeBased, distanceBased, <<>>, answers)

ContinueMakes(g, then, ok) ==
    \/ then.cont = "started" /\ ok /\ Kept(g, <<then.key>>)
    \/ then.cont = "started" /\ ~ok /\ Erased(g, then.key, <<then.key>>)
    \/ then.cont = "updated" /\ ok /\ Kept(g, <<then.key>>)
    \/ /\ then.cont = "updated" /\ ~ok
       /\ Makes(g, With(timeBased, then.key, then.options), distanceBased, <<>>, <<then.key>>)
    \/ then.cont = "answer" /\ Kept(g, <<then.key>>)
    \/ then.cont = "stopped" /\ ok /\ Erased(g, then.key, <<then.key>>)
    \/ then.cont = "stopped" /\ ~ok /\ Kept(g, <<then.key>>)
    \/ then.cont = "erase" /\ ok /\ Erased(g, then.key, <<>>)
    \/ then.cont = "erase" /\ ~ok /\ Kept(g, <<>>)
    \/ /\ then.cont = "switch"
       /\ TimeStep(Handling, g, then.key, {"started"}, With(timeBased, then.key, then.options))
    \/ /\ then.cont = "restart" /\ ok
       /\ Makes(g, timeBased, distanceBased,
                <<startDistance(then.key, then.options, Then("restarted", then.key, then.options))>>,
                <<>>)
    \/ then.cont = "restart" /\ ~ok /\ Kept(g, <<>>)
    \/ /\ then.cont = "restarted" /\ ok
       /\ Makes(g, timeBased, With(distanceBased, then.key, then.options), <<>>, <<then.key>>)
    \/ then.cont = "restarted" /\ ~ok /\ Kept(g, <<then.key>>)

\* A message's handling begins with the sessions.
LEMMA HandlingIs ==
    ASSUME TimeOK(timeBased), DistanceOK(distanceBased)
    PROVE  /\ HandlingOK(Handling) /\ Makes(Handling, timeBased, distanceBased, <<>>, <<>>)
           /\ Handling.time = timeBased /\ Handling.distance = distanceBased
           /\ Handling.requests = <<>> /\ Handling.answers = <<>>
<1>1. Makes(Handling, timeBased, distanceBased, <<>>, <<>>)
  BY RecIs DEF Makes, Handling
<1>2. RequestsOK(<<>>) /\ Sq(<<>>)
  BY SqEmpty DEF RequestsOK
<1> QED BY <1>1, <1>2 DEF HandlingOK, Makes

\* The operations on a handling.
LEMMA MakesMore ==
    ASSUME NEW g, NEW T, NEW D, NEW q, NEW a, Makes(g, T, D, q, a)
    PROVE  /\ \A r : Makes(Request(g, r), T, D, Append(q, r), a)
           /\ \A k : Makes(reportResponse(g, k), T, D, q, Append(a, k))
           /\ \A k, o : o.minDistance > 0
                          => Makes(saveTrackingSession(g, k, o), T, With(D, k, o), q, a)
           /\ \A k, o : ~(o.minDistance > 0)
                          => Makes(saveTrackingSession(g, k, o), With(T, k, o), D, q, a)
           /\ \A k : k \in DOMAIN T => Makes(eraseTrackingSession(g, k), Drop(T, k), D, q, a)
           /\ \A k : k \notin DOMAIN T => Makes(eraseTrackingSession(g, k), T, Drop(D, k), q, a)
<1>1. /\ \A r : Request(g, r) = [time |-> T, distance |-> D, requests |-> Append(q, r),
                                 answers |-> a]
      /\ \A k : reportResponse(g, k) = [time |-> T, distance |-> D, requests |-> q,
                                        answers |-> Append(a, k)]
      /\ \A T2 : [g EXCEPT !.time = T2] = [time |-> T2, distance |-> D, requests |-> q,
                                           answers |-> a]
      /\ \A D2 : [g EXCEPT !.distance = D2] = [time |-> T, distance |-> D2, requests |-> q,
                                               answers |-> a]
  BY HandledIs DEF Makes
<1>2. g.time = T /\ g.distance = D
  BY DEF Makes
<1>3. /\ \A k, o : ~(o.minDistance > 0)
                     => saveTrackingSession(g, k, o) = [g EXCEPT !.time = With(T, k, o)]
      /\ \A k, o : o.minDistance > 0
                     => saveTrackingSession(g, k, o) = [g EXCEPT !.distance = With(D, k, o)]
      /\ \A k : k \in DOMAIN T => eraseTrackingSession(g, k) = [g EXCEPT !.time = Drop(T, k)]
      /\ \A k : k \notin DOMAIN T
                  => eraseTrackingSession(g, k) = [g EXCEPT !.distance = Drop(D, k)]
  BY <1>2 DEF saveTrackingSession, eraseTrackingSession
<1>4. \A p, T2, D2, q2, a2 :
        p = [time |-> T2, distance |-> D2, requests |-> q2, answers |-> a2]
        => Makes(p, T2, D2, q2, a2)
  BY RecIs DEF Makes
<1>5. ASSUME NEW r PROVE Makes(Request(g, r), T, D, Append(q, r), a)
  BY <1>1, <1>4
<1>6. ASSUME NEW k PROVE Makes(reportResponse(g, k), T, D, q, Append(a, k))
  BY <1>1, <1>4
<1>7. ASSUME NEW k, NEW o, o.minDistance > 0
      PROVE  Makes(saveTrackingSession(g, k, o), T, With(D, k, o), q, a)
  <2>1. saveTrackingSession(g, k, o) = [g EXCEPT !.distance = With(D, k, o)]
    BY <1>3, <1>7
  <2> QED BY <1>1, <1>4, <2>1
<1>8. ASSUME NEW k, NEW o, ~(o.minDistance > 0)
      PROVE  Makes(saveTrackingSession(g, k, o), With(T, k, o), D, q, a)
  <2>1. saveTrackingSession(g, k, o) = [g EXCEPT !.time = With(T, k, o)]
    BY <1>3, <1>8
  <2> QED BY <1>1, <1>4, <2>1
<1>9. ASSUME NEW k, k \in DOMAIN T PROVE Makes(eraseTrackingSession(g, k), Drop(T, k), D, q, a)
  BY <1>1, <1>3, <1>4, <1>9
<1>10. ASSUME NEW k, k \notin DOMAIN T
       PROVE  Makes(eraseTrackingSession(g, k), T, Drop(D, k), q, a)
  BY <1>1, <1>3, <1>4, <1>10
<1> QED BY <1>5, <1>6, <1>7, <1>8, <1>9, <1>10

\* MsgStartTracking.
LEMMA StartIs ==
    ASSUME TimeOK(timeBased), DistanceOK(distanceBased), NEW key \in Keys, NEW o \in Options,
           o.size = 1
    PROVE  StartMakes(StartTracking(Handling, key, o), key, o)
<1>1. HandlingOK(Handling) /\ Makes(Handling, timeBased, distanceBased, <<>>, <<>>)
      /\ Handling.time = timeBased
  BY HandlingIs
<1>2. o.minDistance \in Nat /\ o.size # 0
  BY OptionsAre
<1>3. CASE ~hasCallbacksToStartTracking(key[1])
  BY <1>1, <1>3 DEF StartTracking, StartMakes
<1>4. CASE hasCallbacksToStartTracking(key[1]) /\ o.minDistance > 0
  <2> DEFINE p == saveTrackingSession(Handling, key, Raised(o))
             r == startDistance(key, Raised(o), Started(key))
  <2>1. StartTracking(Handling, key, o) = Request(p, r)
    BY <1>2, <1>4 DEF StartTracking, Started
  <2>2. Raised(o).minDistance > 0
    BY <1>2, <1>4, NormalIs
  <2>3. Makes(p, timeBased, With(distanceBased, key, Raised(o)), <<>>, <<>>)
    BY <1>1, <2>2, MakesMore
  <2>4. Append(<<>>, r) = <<r>>
    OBVIOUS
  <2> HIDE DEF p, r
  <2>5. Makes(Request(p, r), timeBased, With(distanceBased, key, Raised(o)), Append(<<>>, r), <<>>)
    BY <2>3, MakesMore
  <2> QED BY <1>4, <2>1, <2>4, <2>5 DEF StartMakes, r
<1>5. CASE hasCallbacksToStartTracking(key[1]) /\ ~(o.minDistance > 0)
  <2>1. StartTracking(Handling, key, o) = beginTimeBased(Handling, key, Normal(o))
    BY <1>2, <1>5 DEF StartTracking
  <2>2. o.minDistance = 0
    BY <1>2, <1>5
  <2>3. Normal(o) \in TimeOptions
    BY <2>2, NormalIs
  <2>4. TimeStep(Handling, beginTimeBased(Handling, key, Normal(o)), key, {"started"},
                 With(timeBased, key, Normal(o)))
    BY <1>1, <2>3, BeginStep
  <2> QED BY <2>1, <2>2, <2>4 DEF StartMakes
<1> QED BY <1>3, <1>4, <1>5

\* MsgUpdateTracking.
LEMMA UpdateIs ==
    ASSUME TimeOK(timeBased), DistanceOK(distanceBased), NEW key \in Keys, NEW o \in Options,
           o.size = 1
    PROVE  UpdateMakes(UpdateTracking(Handling, key, o), key, o)
<1> DEFINE n == Normal(o)
           g == UpdateTracking(Handling, key, o)
<1>1. HandlingOK(Handling) /\ Makes(Handling, timeBased, distanceBased, <<>>, <<>>)
      /\ Handling.time = timeBased /\ Handling.distance = distanceBased
      /\ Handling.requests = <<>> /\ Handling.answers = <<>>
  BY HandlingIs
<1>2. o.minDistance \in Nat /\ o.size # 0 /\ n.minDistance = o.minDistance
      /\ (o.minDistance = 0 => n \in TimeOptions)
  BY OptionsAre, NormalIs
<1> HIDE DEF n
<1>3. CASE key \notin DOMAIN timeBased \cup DOMAIN distanceBased
  <2>1. g = reportResponse(Handling, key)
    BY <1>1, <1>3 DEF UpdateTracking
  <2>2. Makes(reportResponse(Handling, key), timeBased, distanceBased, <<>>, Append(<<>>, key))
    BY <1>1, MakesMore
  <2>3. Append(<<>>, key) = <<key>>
    OBVIOUS
  <2> QED BY <1>3, <2>1, <2>2, <2>3 DEF UpdateMakes
<1>4. CASE key \in DOMAIN timeBased /\ n.minDistance > 0
  <2> DEFINE p == stopTimeBased(Handling, key)
             d == saveTrackingSession(p, key, n)
             r == startDistance(key, n, NoThen)
  <2>1. g = Request(d, r)
    BY <1>1, <1>2, <1>4 DEF UpdateTracking, n
  <2>2. TimeStep(Handling, p, key, {"started", "answer"}, Drop(timeBased, key))
    BY <1>1, <1>4, StopStep
  <2> HIDE DEF p
  <2>3. Makes(p, Drop(timeBased, key), distanceBased, p.requests, p.answers)
    BY <1>1, <2>2 DEF TimeStep, Makes
  <2>4. Makes(d, Drop(timeBased, key), With(distanceBased, key, n), p.requests, p.answers)
    BY <1>4, <2>3, MakesMore
  <2> HIDE DEF d, r
  <2>5. Makes(Request(d, r), Drop(timeBased, key), With(distanceBased, key, n),
              Append(p.requests, r), p.answers)
    BY <2>4, MakesMore
  <2> QED BY <1>2, <1>4, <2>1, <2>2, <2>5 DEF UpdateMakes, r, n
<1>5. CASE key \in DOMAIN timeBased /\ ~(n.minDistance > 0)
  <2> DEFINE s == updateTrackingMultiplex(Handling, key, n)
  <2>1. g = Answered(saveTrackingSession(s[1], key, n), s[2], key)
    BY <1>1, <1>2, <1>5 DEF UpdateTracking, n
  <2>2. n \in TimeOptions /\ o.minDistance = 0
    BY <1>2, <1>5
  <2> HIDE DEF s
  <2>3. TimeStep(Handling, Answered(saveTrackingSession(s[1], key, n), s[2], key), key,
                 {"updated"}, With(timeBased, key, n))
    BY <1>1, <1>5, <2>2, UpdateStep DEF s
  <2> QED BY <1>5, <2>1, <2>2, <2>3 DEF UpdateMakes, n
<1>6. CASE key \in DOMAIN distanceBased \ DOMAIN timeBased /\ n.minDistance = 0
  <2> DEFINE p == eraseTrackingSession(Handling, key)
             r == stopDistance(key, Then("switch", key, n))
  <2>1. g = Request(p, r)
    BY <1>1, <1>2, <1>6 DEF UpdateTracking, n
  <2>2. Makes(p, timeBased, Drop(distanceBased, key), <<>>, <<>>)
    BY <1>1, <1>6, MakesMore
  <2>3. Append(<<>>, r) = <<r>>
    OBVIOUS
  <2> HIDE DEF p, r
  <2>4. Makes(Request(p, r), timeBased, Drop(distanceBased, key), Append(<<>>, r), <<>>)
    BY <2>2, MakesMore
  <2> QED BY <1>2, <1>6, <2>1, <2>3, <2>4 DEF UpdateMakes, r, n
<1>7. CASE key \in DOMAIN distanceBased \ DOMAIN timeBased /\ n.minDistance # 0
  <2> DEFINE r == stopDistance(key, Then("restart", key, n))
  <2>1. g = Request(Handling, r)
    BY <1>1, <1>2, <1>7 DEF UpdateTracking, n
  <2>3. Append(<<>>, r) = <<r>>
    OBVIOUS
  <2> HIDE DEF r
  <2>4. Makes(Request(Handling, r), timeBased, distanceBased, Append(<<>>, r), <<>>)
    BY <1>1, MakesMore
  <2> QED BY <1>2, <1>7, <2>1, <2>3, <2>4 DEF UpdateMakes, r, n
<1> QED BY <1>3, <1>4, <1>5, <1>6, <1>7

\* MsgStopTracking.
LEMMA StopIs ==
    ASSUME TimeOK(timeBased), DistanceOK(distanceBased), NEW key \in Keys
    PROVE  StopMakes(StopTracking(Handling, key), key)
<1>1. HandlingOK(Handling) /\ Makes(Handling, timeBased, distanceBased, <<>>, <<>>)
      /\ Handling.time = timeBased /\ Handling.distance = distanceBased
  BY HandlingIs
<1>2. CASE key \in DOMAIN timeBased
  BY <1>1, <1>2, StopStep DEF StopTracking, StopMakes
<1>3. CASE key \in DOMAIN distanceBased \ DOMAIN timeBased
  <2> DEFINE r == stopDistance(key, Then("stopped", key, NoOptions))
  <2>1. StopTracking(Handling, key) = Request(Handling, r)
    BY <1>1, <1>3 DEF StopTracking
  <2>2. Append(<<>>, r) = <<r>>
    OBVIOUS
  <2> HIDE DEF r
  <2>3. Makes(Request(Handling, r), timeBased, distanceBased, Append(<<>>, r), <<>>)
    BY <1>1, MakesMore
  <2> QED BY <1>3, <2>1, <2>2, <2>3 DEF StopMakes, r
<1>4. CASE key \notin DOMAIN timeBased \cup DOMAIN distanceBased
  <2>1. StopTracking(Handling, key) = reportResponse(Handling, key)
    BY <1>1, <1>4 DEF StopTracking
  <2>2. Makes(reportResponse(Handling, key), timeBased, distanceBased, <<>>, Append(<<>>, key))
    BY <1>1, MakesMore
  <2>3. Append(<<>>, key) = <<key>>
    OBVIOUS
  <2> QED BY <1>4, <2>1, <2>2, <2>3 DEF StopMakes
<1> QED BY <1>2, <1>3, <1>4

\* The continuations of responses.
LEMMA ContinueIs ==
    ASSUME TimeOK(timeBased), DistanceOK(distanceBased), NEW then, ThenOK(then), then # NoThen,
           NEW ok \in BOOLEAN
    PROVE  ContinueMakes(Continue(Handling, then, ok), then, ok)
<1> DEFINE g == Continue(Handling, then, ok)
           key == then.key
           cont == then.cont
<1>1. HandlingOK(Handling) /\ Makes(Handling, timeBased, distanceBased, <<>>, <<>>)
  BY HandlingIs
<1>2. cont \in Conts /\ key \in Keys
      /\ (cont \in {"updated", "switch"} => then.options \in TimeOptions)
      /\ (cont \in {"restart", "restarted"} => then.options \in DistanceOptions)
  BY DEF ThenOK
<1>3. Append(<<>>, key) = <<key>>
  OBVIOUS
<1>4. \A p, T, D : Makes(p, T, D, <<>>, <<>>) => Makes(reportResponse(p, key), T, D, <<>>, <<key>>)
  <2> SUFFICES ASSUME NEW p, NEW T, NEW D, Makes(p, T, D, <<>>, <<>>)
               PROVE  Makes(reportResponse(p, key), T, D, <<>>, <<key>>)
    OBVIOUS
  <2>1. Makes(reportResponse(p, key), T, D, <<>>, Append(<<>>, key))
    BY MakesMore
  <2> QED BY <1>3, <2>1
<1>5. Kept(Handling, <<>>) /\ Kept(reportResponse(Handling, key), <<key>>)
  BY <1>1, <1>4 DEF Kept
<1>6. Erased(eraseTrackingSession(Handling, key), key, <<>>)
  BY <1>1, MakesMore DEF Erased
<1>7. Erased(reportResponse(eraseTrackingSession(Handling, key), key), key, <<key>>)
  BY <1>4, <1>6 DEF Erased
<1>8. CASE cont = "started"
  <2>1. g = reportResponse(IF ok THEN Handling ELSE eraseTrackingSession(Handling, key), key)
    BY <1>8 DEF Continue
  <2> QED BY <1>5, <1>7, <1>8, <2>1 DEF ContinueMakes
<1>9. CASE cont = "updated"
  <2>1. g = reportResponse(IF ok THEN Handling
                           ELSE saveTrackingSession(Handling, key, then.options), key)
    BY <1>9 DEF Continue
  <2>2. then.options \in TimeOptions
    BY <1>2, <1>9
  <2>3. ~(then.options.minDistance > 0)
    BY <2>2, OptionsAre
  <2>4. Makes(saveTrackingSession(Handling, key, then.options),
              With(timeBased, key, then.options), distanceBased, <<>>, <<>>)
    BY <1>1, <2>3, MakesMore
  <2>5. Makes(reportResponse(saveTrackingSession(Handling, key, then.options), key),
              With(timeBased, key, then.options), distanceBased, <<>>, <<key>>)
    BY <1>4, <2>4
  <2> QED BY <1>5, <1>9, <2>1, <2>5 DEF ContinueMakes
<1>10. CASE cont = "answer"
  <2>1. g = reportResponse(Handling, key)
    BY <1>10 DEF Continue
  <2> QED BY <1>5, <1>10, <2>1 DEF ContinueMakes
<1>11. CASE cont = "stopped"
  <2>1. g = reportResponse(IF ok THEN eraseTrackingSession(Handling, key) ELSE Handling, key)
    BY <1>11 DEF Continue
  <2> QED BY <1>5, <1>7, <1>11, <2>1 DEF ContinueMakes
<1>12. CASE cont = "erase"
  <2>1. g = IF ok THEN eraseTrackingSession(Handling, key) ELSE Handling
    BY <1>12 DEF Continue
  <2> QED BY <1>5, <1>6, <1>12, <2>1 DEF ContinueMakes
<1>13. CASE cont = "switch"
  <2>1. g = beginTimeBased(Handling, key, then.options)
    BY <1>13 DEF Continue
  <2>2. then.options \in TimeOptions
    BY <1>2, <1>13
  <2>3. TimeStep(Handling, g, key, {"started"}, With(timeBased, key, then.options))
    BY <1>1, <1>2, <2>1, <2>2, BeginStep, HandlingIs
  <2> QED BY <1>13, <2>3 DEF ContinueMakes
<1>14. CASE cont = "restart"
  <2> DEFINE r == startDistance(key, then.options, Then("restarted", key, then.options))
  <2>1. g = IF ok THEN Request(Handling, r) ELSE Handling
    BY <1>14 DEF Continue
  <2>2. Append(<<>>, r) = <<r>>
    OBVIOUS
  <2> HIDE DEF r
  <2>3. Makes(Request(Handling, r), timeBased, distanceBased, Append(<<>>, r), <<>>)
    BY <1>1, MakesMore
  <2> QED BY <1>5, <1>14, <2>1, <2>2, <2>3 DEF ContinueMakes, r
<1>15. CASE cont = "restarted"
  <2>1. g = reportResponse(IF ok THEN saveTrackingSession(Handling, key, then.options)
                           ELSE Handling, key)
    BY <1>15 DEF Continue
  <2>2. then.options \in DistanceOptions
    BY <1>2, <1>15
  <2>3. then.options.minDistance > 0
    BY <2>2, OptionsAre
  <2>4. Makes(saveTrackingSession(Handling, key, then.options), timeBased,
              With(distanceBased, key, then.options), <<>>, <<>>)
    BY <1>1, <2>3, MakesMore
  <2>5. Makes(reportResponse(saveTrackingSession(Handling, key, then.options), key), timeBased,
              With(distanceBased, key, then.options), <<>>, <<key>>)
    BY <1>4, <2>4
  <2> QED BY <1>5, <1>15, <2>1, <2>5 DEF ContinueMakes
<1> QED BY <1>2, <1>8, <1>9, <1>10, <1>11, <1>12, <1>13, <1>14, <1>15 DEF Conts

-----------------------------------------------------------------------------
(* What is made is well formed.                                              *)

\* One request.
LEMMA OneRequest ==
    ASSUME NEW r, RequestOK(r)
    PROVE  RequestsOK(<<r>>) /\ \A q : RequestsOK(q) => RequestsOK(Append(q, r))
<1>1. Sq(<<r>>) /\ DOMAIN <<r>> = {1} /\ <<r>>[1] = r
  BY CountOne
<1>2. ASSUME NEW q, RequestsOK(q) PROVE RequestsOK(Append(q, r))
  <2>1. Sq(q)
    BY <1>2 DEF RequestsOK
  <2>2. /\ Sq(Append(q, r)) /\ DOMAIN Append(q, r) = 1..(Len(q) + 1) /\ Len(q) \in Nat
        /\ DOMAIN q = 1..Len(q)
        /\ \A j \in 1..Len(q) : Append(q, r)[j] = q[j]
        /\ Append(q, r)[Len(q) + 1] = r
    BY <2>1, SqAppend, SqOf
  <2>3. ASSUME NEW j \in 1..(Len(q) + 1) PROVE RequestOK(Append(q, r)[j])
    <3>1. CASE j \in 1..Len(q)
      BY <1>2, <2>2, <3>1 DEF RequestsOK
    <3>2. CASE j = Len(q) + 1
      BY <2>2, <3>2
    <3> QED BY <2>2, <3>1, <3>2
  <2> QED BY <2>2, <2>3 DEF RequestsOK
<1>3. RequestsOK(<<r>>)
  BY <1>1 DEF RequestsOK
<1> QED BY <1>2, <1>3

\* Requests after requests.
LEMMA MoreRequests ==
    ASSUME NEW q, RequestsOK(q), NEW r, RequestsOK(r)
    PROVE  RequestsOK(q \o r)
<1>1. Sq(q) /\ Sq(r)
  BY DEF RequestsOK
<1>2. /\ Sq(q \o r) /\ DOMAIN (q \o r) = 1..(Len(q) + Len(r)) /\ Len(q) \in Nat /\ Len(r) \in Nat
      /\ DOMAIN q = 1..Len(q) /\ DOMAIN r = 1..Len(r)
      /\ \A j \in 1..Len(q) : (q \o r)[j] = q[j]
  BY <1>1, SqConcat, SqOf
<1>3. \A j \in 1..Len(r) : (q \o r)[Len(q) + j] = r[j]
  BY <1>1, SqConcat
<1>4. ASSUME NEW j \in 1..(Len(q) + Len(r)) PROVE RequestOK((q \o r)[j])
  <2>1. CASE j \in 1..Len(q)
    BY <1>2, <2>1 DEF RequestsOK
  <2>2. CASE j \notin 1..Len(q)
    <3>1. j - Len(q) \in 1..Len(r) /\ j = Len(q) + (j - Len(q))
      BY <1>2, <2>2
    <3> QED BY <1>2, <1>3, <3>1 DEF RequestsOK
  <2> QED BY <2>1, <2>2
<1> QED BY <1>2, <1>4 DEF RequestsOK

\* The requests for the sessions that follow a distance.
LEMMA DistanceRequests ==
    ASSUME NEW key \in Keys
    PROVE  /\ \A o : /\ RequestOK(startDistance(key, o, NoThen))
                     /\ RequestOK(startDistance(key, o, Started(key)))
                     /\ RequestOK(stopDistance(key, Then("stopped", key, o)))
                     /\ RequestOK(stopDistance(key, Then("erase", key, o)))
           /\ \A o \in TimeOptions : RequestOK(stopDistance(key, Then("switch", key, o)))
           /\ \A o \in DistanceOptions :
                /\ RequestOK(stopDistance(key, Then("restart", key, o)))
                /\ \A p : RequestOK(startDistance(key, p, Then("restarted", key, o)))
BY DEF RequestOK, startDistance, stopDistance, Started, Then, ThenOK, Conts, NoThen

\* What is well formed stays so.
LEMMA MakesOK ==
    ASSUME NEW g, NEW T, NEW D, NEW q, NEW a, Makes(g, T, D, q, a), TimeOK(T), DistanceOK(D),
           RequestsOK(q), Sq(a)
    PROVE  HandlingOK(g)
BY DEF Makes, HandlingOK

\* So does what a time-based session does.
LEMMA TimeStepOK ==
    ASSUME NEW h, HandlingOK(h), NEW g, NEW key, NEW conts, NEW T2,
           TimeStep(h, g, key, conts, T2), TimeOK(T2)
    PROVE  HandlingOK(g)
<1>1. Rec(g) /\ g.time = T2 /\ g.distance = h.distance
  BY DEF TimeStep
<1>2. RequestsOK(g.requests)
  <2>1. CASE g.requests = h.requests
    BY <2>1 DEF HandlingOK
  <2>2. CASE \E r : g.requests = Append(h.requests, r) /\ RequestOK(r)
    BY <2>2, OneRequest DEF HandlingOK
  <2> QED BY <2>1, <2>2 DEF TimeStep
<1>3. Sq(g.answers)
  <2>1. CASE g.answers = h.answers
    BY <2>1 DEF HandlingOK
  <2>2. CASE g.answers = Append(h.answers, key)
    BY <2>2, SqAppend DEF HandlingOK
  <2> QED BY <2>1, <2>2 DEF TimeStep
<1> QED BY <1>1, <1>2, <1>3 DEF HandlingOK

\* Each message's handling.
LEMMA StartOK ==
    ASSUME TimeOK(timeBased), DistanceOK(distanceBased), NEW key \in Keys, NEW o \in Options,
           NEW g, StartMakes(g, key, o)
    PROVE  HandlingOK(g)
<1>1. RequestsOK(<<>>) /\ HandlingOK(Handling) /\ Sq(<<>>) /\ \A k : Sq(<<k>>)
  BY HandlingIs, CountOne, SqEmpty DEF HandlingOK
<1>2. CASE Makes(g, timeBased, distanceBased, <<>>, <<>>)
  BY <1>1, <1>2, MakesOK
<1>3. CASE /\ o.minDistance > 0
           /\ Makes(g, timeBased, With(distanceBased, key, Raised(o)),
                    <<startDistance(key, Raised(o), Started(key))>>, <<>>)
  <2>1. RequestsOK(<<startDistance(key, Raised(o), Started(key))>>)
    BY DistanceRequests, OneRequest
  <2>2. DistanceOK(With(distanceBased, key, Raised(o)))
    BY <1>3, NormalIs, MapsOK
  <2> QED BY <1>1, <1>3, <2>1, <2>2, MakesOK
<1>4. CASE /\ o.minDistance = 0
           /\ TimeStep(Handling, g, key, {"started"}, With(timeBased, key, Normal(o)))
  <2>1. TimeOK(With(timeBased, key, Normal(o)))
    BY <1>4, NormalIs, MapsOK
  <2> QED BY <1>1, <1>4, <2>1, TimeStepOK
<1> QED BY <1>2, <1>3, <1>4 DEF StartMakes

\* MsgUpdateTracking.
LEMMA UpdateOK ==
    ASSUME TimeOK(timeBased), DistanceOK(distanceBased), NEW key \in Keys, NEW o \in Options,
           NEW g, UpdateMakes(g, key, o)
    PROVE  HandlingOK(g)
<1>1. RequestsOK(<<>>) /\ HandlingOK(Handling) /\ Sq(<<>>) /\ \A k : Sq(<<k>>)
  BY HandlingIs, CountOne, SqEmpty DEF HandlingOK
<1>2. CASE Makes(g, timeBased, distanceBased, <<>>, <<key>>)
  BY <1>1, <1>2, MakesOK
<1>3. CASE /\ o.minDistance > 0
           /\ \E p : /\ TimeStep(Handling, p, key, {"started", "answer"}, Drop(timeBased, key))
                     /\ Makes(g, Drop(timeBased, key), With(distanceBased, key, Normal(o)),
                              Append(p.requests, startDistance(key, Normal(o), NoThen)), p.answers)
  <2>1. PICK p : /\ TimeStep(Handling, p, key, {"started", "answer"}, Drop(timeBased, key))
                 /\ Makes(g, Drop(timeBased, key), With(distanceBased, key, Normal(o)),
                          Append(p.requests, startDistance(key, Normal(o), NoThen)), p.answers)
    BY <1>3
  <2>2. TimeOK(Drop(timeBased, key)) /\ DistanceOK(With(distanceBased, key, Normal(o)))
    BY <1>3, NormalIs, MapsOK
  <2>3. HandlingOK(p)
    BY <1>1, <2>1, <2>2, TimeStepOK
  <2>4. RequestsOK(Append(p.requests, startDistance(key, Normal(o), NoThen)))
    BY <2>3, DistanceRequests, OneRequest DEF HandlingOK
  <2>5. Sq(p.answers)
    BY <2>3 DEF HandlingOK
  <2> QED BY <2>1, <2>2, <2>4, <2>5, MakesOK
<1>4. CASE /\ o.minDistance = 0
           /\ TimeStep(Handling, g, key, {"updated"}, With(timeBased, key, Normal(o)))
  <2>1. TimeOK(With(timeBased, key, Normal(o)))
    BY <1>4, NormalIs, MapsOK
  <2> QED BY <1>1, <1>4, <2>1, TimeStepOK
<1>5. CASE /\ o.minDistance = 0
           /\ Makes(g, timeBased, Drop(distanceBased, key),
                    <<stopDistance(key, Then("switch", key, Normal(o)))>>, <<>>)
  <2>1. RequestsOK(<<stopDistance(key, Then("switch", key, Normal(o)))>>)
    BY <1>5, NormalIs, DistanceRequests, OneRequest
  <2> QED BY <1>1, <1>5, <2>1, MapsOK, MakesOK
<1>6. CASE /\ o.minDistance > 0
           /\ Makes(g, timeBased, distanceBased,
                    <<stopDistance(key, Then("restart", key, Normal(o)))>>, <<>>)
  <2>1. RequestsOK(<<stopDistance(key, Then("restart", key, Normal(o)))>>)
    BY <1>6, NormalIs, DistanceRequests, OneRequest
  <2> QED BY <1>1, <1>6, <2>1, MakesOK
<1> QED BY <1>2, <1>3, <1>4, <1>5, <1>6 DEF UpdateMakes

\* MsgStopTracking.
LEMMA StopOK ==
    ASSUME TimeOK(timeBased), DistanceOK(distanceBased), NEW key \in Keys,
           NEW g, StopMakes(g, key)
    PROVE  HandlingOK(g)
<1>1. RequestsOK(<<>>) /\ HandlingOK(Handling) /\ Sq(<<>>) /\ \A k : Sq(<<k>>)
  BY HandlingIs, CountOne, SqEmpty DEF HandlingOK
<1>2. CASE TimeStep(Handling, g, key, {"started", "answer"}, Drop(timeBased, key))
  BY <1>1, <1>2, MapsOK, TimeStepOK
<1>3. CASE Makes(g, timeBased, distanceBased,
                 <<stopDistance(key, Then("stopped", key, NoOptions))>>, <<>>)
  <2>1. RequestsOK(<<stopDistance(key, Then("stopped", key, NoOptions))>>)
    BY DistanceRequests, OneRequest
  <2> QED BY <1>1, <1>3, <2>1, MakesOK
<1>4. CASE Makes(g, timeBased, distanceBased, <<>>, <<key>>)
  BY <1>1, <1>4, MakesOK
<1> QED BY <1>2, <1>3, <1>4 DEF StopMakes

\* A response.
LEMMA ContinueOK ==
    ASSUME TimeOK(timeBased), DistanceOK(distanceBased), NEW then, ThenOK(then), then # NoThen,
           NEW ok \in BOOLEAN, NEW g, ContinueMakes(g, then, ok)
    PROVE  HandlingOK(g)
<1>1. RequestsOK(<<>>) /\ HandlingOK(Handling) /\ Sq(<<>>) /\ \A k : Sq(<<k>>)
  BY HandlingIs, CountOne, SqEmpty DEF HandlingOK
<1>2. then.key \in Keys
      /\ (then.cont \in {"updated", "switch"} => then.options \in TimeOptions)
      /\ (then.cont \in {"restart", "restarted"} => then.options \in DistanceOptions)
  BY DEF ThenOK
<1>3. \A a : Sq(a) /\ (Kept(g, a) \/ Erased(g, then.key, a)) => HandlingOK(g)
  BY <1>1, <1>2, MapsOK, MakesOK DEF Kept, Erased
<1>4. CASE /\ then.cont = "updated"
           /\ Makes(g, With(timeBased, then.key, then.options), distanceBased, <<>>, <<then.key>>)
  <2>1. TimeOK(With(timeBased, then.key, then.options))
    BY <1>2, <1>4, MapsOK
  <2> QED BY <1>1, <1>4, <2>1, MakesOK
<1>5. CASE /\ then.cont = "switch"
           /\ TimeStep(Handling, g, then.key, {"started"},
                       With(timeBased, then.key, then.options))
  <2>1. TimeOK(With(timeBased, then.key, then.options))
    BY <1>2, <1>5, MapsOK
  <2> QED BY <1>1, <1>5, <2>1, TimeStepOK
<1>6. CASE /\ then.cont = "restart"
           /\ Makes(g, timeBased, distanceBased,
                    <<startDistance(then.key, then.options,
                                    Then("restarted", then.key, then.options))>>, <<>>)
  <2>1. RequestOK(startDistance(then.key, then.options,
                                Then("restarted", then.key, then.options)))
    BY <1>2, <1>6, DistanceRequests
  <2> QED BY <1>1, <1>6, <2>1, OneRequest, MakesOK
<1>7. CASE /\ then.cont = "restarted"
           /\ Makes(g, timeBased, With(distanceBased, then.key, then.options), <<>>, <<then.key>>)
  <2> DEFINE D2 == With(distanceBased, then.key, then.options)
             a == <<then.key>>
  <2>1. DistanceOK(D2)
    BY <1>2, <1>7, MapsOK
  <2>2. Sq(a) /\ Makes(g, timeBased, D2, <<>>, a)
    BY <1>1, <1>7
  <2> HIDE DEF D2, a
  <2> QED BY <1>1, <2>1, <2>2, MakesOK
<1>8. /\ \A k : Sq(<<k>>)
      /\ Kept(g, <<>>) \/ Erased(g, then.key, <<>>) => HandlingOK(g)
      /\ Kept(g, <<then.key>>) \/ Erased(g, then.key, <<then.key>>) => HandlingOK(g)
  BY <1>1, <1>3
<1> QED BY <1>4, <1>5, <1>6, <1>7, <1>8 DEF ContinueMakes

-----------------------------------------------------------------------------
(* Starting every session again.                                             *)

\* Requests to start each of some sessions that follow a distance.
Starts(s, D) ==
    /\ Sq(s)
    /\ \A j \in DOMAIN s : \E key \in DOMAIN D : s[j] = startDistance(key, D[key], NoThen)
    /\ \A key \in DOMAIN D : \E j \in DOMAIN s : s[j] = startDistance(key, D[key], NoThen)

\* A request for the fix of all the sessions there are, if there are any.
Refix(q, p, T) ==
    \/ T = <<>> /\ p = q
    \/ \E r : T # <<>> /\ p = Append(q, r) /\ RequestOK(r) /\ FixRequest(r, T) /\ r.then = NoThen

Restarts(g, T, D, q, a) == \E p, s : Refix(q, p, T) /\ Starts(s, D) /\ Makes(g, T, D, p \o s, a)

\* restartSessions starts every session, and fixes for the time-based ones.
LEMMA RestartIs ==
    ASSUME NEW h, NEW T, NEW D, NEW q, NEW a, Makes(h, T, D, q, a), TimeOK(T), DistanceOK(D)
    PROVE  Restarts(restartSessions(h), T, D, q, a)
<1> DEFINE p == checkAndRestartTimeBasedSession(h)
           o == [minInterval |-> SmallestInterval(T).minInterval,
                 powerMode |-> StrongestPowerMode(T).powerMode]
           r == startTimeBased(o, NoThen)
           order == InOrder(DOMAIN D)
           s == [j \in DOMAIN order |-> startDistance(order[j], D[order[j]], NoThen)]
<1>1. h.time = T /\ h.distance = D /\ h.requests = q
  BY DEF Makes
<1>2. p = IF T = <<>> THEN h ELSE Request(h, r)
  BY <1>1 DEF checkAndRestartTimeBasedSession
<1>3. \E w : Refix(q, w, T) /\ Makes(p, T, D, w, a)
  <2>1. CASE T = <<>>
    BY <1>2, <2>1 DEF Refix
  <2>2. CASE T # <<>>
    <3>1. Short(SmallestInterval(T).minInterval, T)
      <4>1. SmallestInterval(T) \in TimeOptions
            /\ \A l \in DOMAIN T : SmallestInterval(T).minInterval <= T[l].minInterval
        BY <2>2, Smallest
      <4>2. SmallestInterval(T).minInterval \in Nat \ {0}
        BY <4>1, OptionsAre
      <4> QED BY <4>1, <4>2 DEF Short
    <3>2. Short(o.minInterval, T)
      BY <3>1
    <3>3. ThenOK(NoThen)
      BY DEF ThenOK
    <3> HIDE DEF o
    <3>4. RequestOK(r) /\ r.then = NoThen /\ FixRequest(r, T)
      BY <2>2, <3>2, <3>3, FixStarted
    <3> HIDE DEF r
    <3>5. Makes(Request(h, r), T, D, Append(q, r), a)
      BY MakesMore
    <3> QED BY <1>2, <2>2, <3>4, <3>5 DEF Refix
  <2> QED BY <2>1, <2>2
<1> HIDE DEF p, o, r
<1>4. PICK w : Refix(q, w, T) /\ Makes(p, T, D, w, a)
  BY <1>3
<1>5. restartSessions(h) = [p EXCEPT !.requests = @ \o s]
  BY <1>1 DEF restartSessions, p
<1>6. /\ Sq(order) /\ \A j \in DOMAIN order : order[j] \in DOMAIN D
      /\ \A k \in DOMAIN D : \E j \in DOMAIN order : order[j] = k
      /\ DOMAIN order = 1..Len(order) /\ Len(order) \in Nat
  BY InOrderIs, SqOf DEF DistanceOK
<1> HIDE DEF order
<1>7. Sq(s)
  <2>1. s \in [1..Len(order) -> Range(s)]
    BY <1>6 DEF Range
  <2> HIDE DEF s
  <2> QED BY <1>6, <2>1, SqIs
<1>8. Starts(s, D)
  BY <1>6, <1>7 DEF Starts
<1> HIDE DEF s
<1>9. [p EXCEPT !.requests = @ \o s] = [time |-> T, distance |-> D, requests |-> w \o s,
                                        answers |-> a]
  <2>1. p = [time |-> T, distance |-> D, requests |-> w, answers |-> a]
    BY <1>4 DEF Makes, Rec
  <2>2. \A b : [p EXCEPT !.requests = b] = [time |-> T, distance |-> D, requests |-> b,
                                           answers |-> a]
    BY <2>1
  <2>3. p.requests = w
    BY <1>4 DEF Makes
  <2> QED BY <2>2, <2>3
<1>10. Makes(restartSessions(h), T, D, w \o s, a)
  <2>1. \A g : g = [time |-> T, distance |-> D, requests |-> w \o s, answers |-> a]
               => Makes(g, T, D, w \o s, a)
    BY RecIs DEF Makes
  <2> QED BY <1>5, <1>9, <2>1
<1> QED BY <1>4, <1>8, <1>10 DEF Restarts

\* Its requests are well formed.
LEMMA RestartOK ==
    ASSUME NEW g, NEW T, NEW D, NEW q, NEW a, Restarts(g, T, D, q, a), TimeOK(T), DistanceOK(D),
           RequestsOK(q), Sq(a)
    PROVE  HandlingOK(g)
<1>1. PICK p, s : Refix(q, p, T) /\ Starts(s, D) /\ Makes(g, T, D, p \o s, a)
  BY DEF Restarts
<1>2. RequestsOK(p)
  BY <1>1, OneRequest DEF Refix
<1>3. RequestsOK(s)
  <2>1. ASSUME NEW j \in DOMAIN s PROVE RequestOK(s[j])
    <3>1. PICK key \in DOMAIN D : s[j] = startDistance(key, D[key], NoThen)
      BY <1>1 DEF Starts
    <3>2. key \in Keys
      BY DEF DistanceOK
    <3> QED BY <3>1, <3>2, DistanceRequests
  <2> QED BY <1>1, <2>1 DEF Starts, RequestsOK
<1>4. Sq(<<>>)
  BY SqEmpty
<1> QED BY <1>1, <1>2, <1>3, <1>4, MoreRequests, MakesOK

-----------------------------------------------------------------------------
(* The fix the modem will have.                                              *)

Fix == <<"fix">>

\* A fix that serves some sessions, and that is none when there are none.
Idle(v, T) == T = <<>> => v = NoFix
Served(v, T) == Idle(v, T) /\ (T # <<>> => Short(v.minInterval, T))

\* Whatever the fix was, it serves the sessions after as it did before.
FixKept(q, T, q2, T2) ==
    \A v : /\ Idle(Final(q, Fix, v), T) => Idle(Final(q2, Fix, v), T2)
           /\ Served(Final(q, Fix, v), T) => Served(Final(q2, Fix, v), T2)

\* What a request for the fix makes of it.
LEMMA FixSet ==
    ASSUME NEW r, NEW T, FixRequest(r, T), NEW v
    PROVE  Served(Set(r, Fix, v), T)
<1> DEFINE V == View(r, Fix)
<1>1. V = Only(r.do = "startFix", r.fix) \cup Only(r.do = "stopFix", NoFix)
  BY DEF View, Fix
<1>2. CASE r.do = "startFix" /\ T # <<>> /\ Short(r.fix.minInterval, T)
  <2>1. V = {r.fix}
    BY <1>1, <1>2 DEF Only
  <2>2. Set(r, Fix, v) = r.fix
    BY <2>1 DEF Set
  <2> QED BY <1>2, <2>2 DEF Served, Idle
<1>3. CASE r.do = "stopFix" /\ T = <<>>
  <2>1. V = {NoFix}
    BY <1>1, <1>3 DEF Only
  <2>2. Set(r, Fix, v) = NoFix
    BY <2>1 DEF Set
  <2> QED BY <1>3, <2>2 DEF Served, Idle
<1> QED BY <1>2, <1>3 DEF FixRequest

\* The fix is asked to serve the sessions, or does already.
LEMMA FixAppended ==
    ASSUME NEW q, Sq(q), NEW r, NEW T, NEW T2, FixRequest(r, T2)
    PROVE  FixKept(q, T, Append(q, r), T2)
<1> SUFFICES ASSUME NEW v PROVE Served(Final(Append(q, r), Fix, v), T2)
  BY DEF FixKept, Served
<1>1. Final(Append(q, r), Fix, v) = Set(r, Fix, Final(q, Fix, v))
  BY FinalAppend
<1> QED BY <1>1, FixSet

\* A fix that served the sessions serves those that ask for no more.
LEMMA FixCovered ==
    ASSUME NEW q, NEW T, NEW T2, T # <<>>, T2 # <<>>, Covers(T, T2)
    PROVE  FixKept(q, T, q, T2)
BY DEF FixKept, Served, Idle, Covers

\* One change after another.
LEMMA FixThen ==
    ASSUME NEW q, NEW T, NEW q2, NEW T2, NEW q3, NEW T3, FixKept(q, T, q2, T2),
           FixKept(q2, T2, q3, T3)
    PROVE  FixKept(q, T, q3, T3)
BY DEF FixKept

\* Each step of a time-based session leaves the fix what serves the sessions.
LEMMA FixStep ==
    ASSUME NEW h, HandlingOK(h), NEW g, NEW key, NEW conts, NEW T2,
           TimeStep(h, g, key, conts, T2)
    PROVE  FixKept(h.requests, h.time, g.requests, g.time)
<1>1. Sq(h.requests) /\ g.time = T2
  BY DEF HandlingOK, RequestsOK, TimeStep
<1>2. CASE \E r : g.requests = Append(h.requests, r) /\ FixRequest(r, T2)
  BY <1>1, <1>2, FixAppended
<1>3. CASE g.requests = h.requests /\ h.time # <<>> /\ T2 # <<>> /\ Covers(h.time, T2)
  BY <1>1, <1>3, FixCovered
<1> QED BY <1>2, <1>3 DEF TimeStep

-----------------------------------------------------------------------------
(* A client's sessions, stopped when it is removed.                          *)

Mine(f, c) == {key \in DOMAIN f : key[1] = c}

\* A time-based session of it is stopped and erased, and not answered.
StoppedFor(g, key) == eraseTrackingSession(stopTimeBasedTrackingMultiplex(g, key)[1], key)

\* The requests about its time-based sessions.
StopsTime(q, c) ==
    \A j \in DOMAIN q : /\ q[j].do \in {"startFix", "stopFix"}
                        /\ q[j].then.cont \in {"started", "answer"}
                        /\ q[j].then.key \in Mine(timeBased, c)

\* A number of sessions is left.
Stopping(g, c, n) ==
    /\ HandlingOK(g)
    /\ g.distance = distanceBased /\ g.answers = <<>>
    /\ DOMAIN g.time \subseteq DOMAIN timeBased
    /\ \A l \in DOMAIN g.time : g.time[l] = timeBased[l]
    /\ \A l \in DOMAIN timeBased : l[1] # c => l \in DOMAIN g.time
    /\ Cardinality(Mine(g.time, c)) = n
    /\ StopsTime(g.requests, c)
    /\ FixKept(<<>>, timeBased, g.requests, g.time)

\* One session less.
LEMMA StopOne ==
    ASSUME NEW g, HandlingOK(g), NEW key \in DOMAIN g.time
    PROVE  LET p == StoppedFor(g, key)
           IN  /\ Rec(p) /\ p.time = Drop(g.time, key) /\ p.distance = g.distance
               /\ p.answers = g.answers /\ HandlingOK(p)
               /\ \/ p.requests = g.requests
                  \/ \E r : /\ p.requests = Append(g.requests, r) /\ RequestOK(r)
                            /\ r.then.cont \in {"started", "answer"} /\ r.then.key = key
                            /\ r.do \in {"startFix", "stopFix"}
               /\ FixKept(g.requests, g.time, p.requests, p.time)
<1> DEFINE s == stopTimeBasedTrackingMultiplex(g, key)
           T2 == Drop(g.time, key)
           p == StoppedFor(g, key)
<1>1. Multiplexed(g, s, key, {"started", "answer"}, T2)
  BY StopMultiplexed DEF HandlingOK
<1>2. Makes(g, g.time, g.distance, g.requests, g.answers) /\ Sq(g.requests)
      /\ TimeOK(T2) /\ DistanceOK(g.distance) /\ RequestsOK(g.requests) /\ Sq(g.answers)
  BY MapsOK DEF HandlingOK, Makes, RequestsOK, TimeOK
<1> HIDE DEF T2
<1>3. CASE \E r : /\ s = <<Request(g, r), FALSE>> /\ RequestOK(r)
                  /\ r.then.cont \in {"started", "answer"} /\ r.then.key = key
                  /\ FixRequest(r, T2)
  <2>1. PICK r : /\ s = <<Request(g, r), FALSE>> /\ RequestOK(r)
                 /\ r.then.cont \in {"started", "answer"} /\ r.then.key = key
                 /\ FixRequest(r, T2)
    BY <1>3
  <2>2. Makes(Request(g, r), g.time, g.distance, Append(g.requests, r), g.answers)
    BY <1>2, MakesMore
  <2>3. p = eraseTrackingSession(Request(g, r), key)
    BY <2>1 DEF StoppedFor
  <2>4. Makes(p, T2, g.distance, Append(g.requests, r), g.answers)
    BY <2>2, <2>3, MakesMore DEF T2
  <2> HIDE DEF p, s
  <2>5. FixKept(g.requests, g.time, Append(g.requests, r), T2)
    BY <1>2, <2>1, FixAppended
  <2>6. RequestsOK(Append(g.requests, r))
    BY <1>2, <2>1, OneRequest
  <2>7. HandlingOK(p)
    BY <1>2, <2>4, <2>6, MakesOK
  <2>8. r.do \in {"startFix", "stopFix"}
    BY <2>1 DEF FixRequest
  <2> QED BY <2>1, <2>4, <2>5, <2>7, <2>8 DEF Makes, T2, p
<1>4. CASE s = <<g, TRUE>> /\ g.time # <<>> /\ T2 # <<>> /\ Covers(g.time, T2)
  <2>1. p = eraseTrackingSession(g, key)
    BY <1>4 DEF StoppedFor
  <2>2. Makes(p, T2, g.distance, g.requests, g.answers)
    BY <1>2, <2>1, MakesMore DEF T2
  <2> HIDE DEF p, s
  <2>3. FixKept(g.requests, g.time, g.requests, T2)
    BY <1>4, FixCovered
  <2>4. HandlingOK(p)
    BY <1>2, <2>2, MakesOK
  <2> QED BY <2>2, <2>3, <2>4 DEF Makes, T2, p
<1> QED BY <1>1, <1>3, <1>4 DEF Multiplexed

\* A session of the client is stopped, the first of those that are left.
LEMMA StoppingOne ==
    ASSUME NEW g, NEW c, NEW n \in Nat, n # 0, Stopping(g, c, n)
    PROVE  Stopping(StoppedFor(g, First(Mine(g.time, c))), c, n - 1)
<1> DEFINE M == Mine(g.time, c)
           key == First(M)
           p == StoppedFor(g, key)
<1>1. TimeOK(g.time) /\ M \subseteq DOMAIN g.time /\ M \subseteq Keys /\ IsFiniteSet(M)
  <2>1. TimeOK(g.time)
    BY DEF Stopping, HandlingOK
  <2>2. M \subseteq DOMAIN g.time
    BY DEF Mine
  <2> QED BY <2>1, <2>2, FS_Subset DEF TimeOK
<1>2. Cardinality(M) = n
  BY DEF Stopping
<1>3. M # {}
  BY <1>2, FS_EmptySet
<1>4. key \in M
  BY <1>1, <1>3, FirstIs
<1>5. key \in DOMAIN g.time /\ key[1] = c /\ key \in DOMAIN timeBased /\ HandlingOK(g)
  BY <1>4 DEF Mine, Stopping
<1> HIDE DEF key
<1>6. /\ p.time = Drop(g.time, key) /\ p.distance = g.distance
      /\ p.answers = g.answers /\ HandlingOK(p)
      /\ \/ p.requests = g.requests
         \/ \E r : /\ p.requests = Append(g.requests, r) /\ RequestOK(r)
                   /\ r.then.cont \in {"started", "answer"} /\ r.then.key = key
                   /\ r.do \in {"startFix", "stopFix"}
      /\ FixKept(g.requests, g.time, p.requests, p.time)
  BY <1>5, StopOne
<1> HIDE DEF p
<1>7. DOMAIN p.time = DOMAIN g.time \ {key} /\ \A l \in DOMAIN p.time : p.time[l] = g.time[l]
  <2> DEFINE d == Drop(g.time, key)
  <2>1. DOMAIN d = DOMAIN g.time \ {key} /\ \A l \in DOMAIN d : d[l] = g.time[l]
    BY DropIs
  <2> HIDE DEF d
  <2>2. p.time = d
    BY <1>6 DEF d
  <2> QED BY <2>1, <2>2
<1>8. Cardinality(Mine(p.time, c)) = n - 1
  <2>1. Mine(p.time, c) = M \ {key}
    BY <1>7 DEF Mine
  <2> HIDE DEF M
  <2>2. Cardinality(M \ {key}) = Cardinality(M) - 1
    BY <1>1, <1>4, FS_RemoveElement
  <2> QED BY <1>2, <2>1, <2>2
<1>9. StopsTime(p.requests, c)
  <2>1. CASE p.requests = g.requests
    BY <2>1 DEF Stopping
  <2>2. CASE \E r : /\ p.requests = Append(g.requests, r)
                    /\ r.then.cont \in {"started", "answer"} /\ r.then.key = key
                    /\ r.do \in {"startFix", "stopFix"}
    <3>1. PICK r : /\ p.requests = Append(g.requests, r)
                   /\ r.then.cont \in {"started", "answer"} /\ r.then.key = key
                   /\ r.do \in {"startFix", "stopFix"}
      BY <2>2
    <3>2. Sq(g.requests)
      BY <1>5 DEF HandlingOK, RequestsOK
    <3>3. /\ DOMAIN p.requests = 1..(Len(g.requests) + 1) /\ Len(g.requests) \in Nat
          /\ DOMAIN g.requests = 1..Len(g.requests)
          /\ \A j \in 1..Len(g.requests) : p.requests[j] = g.requests[j]
          /\ p.requests[Len(g.requests) + 1] = r
      BY <3>1, <3>2, SqAppend, SqOf
    <3>4. key \in Mine(timeBased, c)
      BY <1>5 DEF Mine
    <3>5. ASSUME NEW j \in 1..(Len(g.requests) + 1)
          PROVE  /\ p.requests[j].do \in {"startFix", "stopFix"}
                 /\ p.requests[j].then.cont \in {"started", "answer"}
                 /\ p.requests[j].then.key \in Mine(timeBased, c)
      <4>1. CASE j \in 1..Len(g.requests)
        BY <3>3, <4>1 DEF Stopping, StopsTime
      <4>2. CASE j = Len(g.requests) + 1
        BY <3>1, <3>3, <3>4, <4>2
      <4> QED BY <3>3, <4>1, <4>2
    <3> QED BY <3>3, <3>5 DEF StopsTime
  <2> QED BY <1>6, <2>1, <2>2
<1>10. FixKept(<<>>, timeBased, p.requests, p.time)
  BY <1>6, FixThen DEF Stopping
<1>11. /\ DOMAIN p.time \subseteq DOMAIN timeBased
       /\ \A l \in DOMAIN p.time : p.time[l] = timeBased[l]
       /\ \A l \in DOMAIN timeBased : l[1] # c => l \in DOMAIN p.time
  BY <1>5, <1>7 DEF Stopping
<1>12. p.distance = distanceBased /\ p.answers = <<>>
  BY <1>6 DEF Stopping
<1>13. HandlingOK(p)
  BY <1>6
<1>14. Stopping(p, c, n - 1)
  BY <1>8, <1>9, <1>10, <1>11, <1>12, <1>13 DEF Stopping
<1> QED BY <1>14 DEF p, key, M

\* What is left of the sessions when a client is removed.
Without(T, c) == [l \in {k \in DOMAIN T : k[1] # c} |-> T[l]]

\* Requests to stop its sessions that follow a distance, which are to be erased.
Erases(s, c) ==
    /\ Sq(s)
    /\ \A j \in DOMAIN s : \E key \in Mine(distanceBased, c) :
         s[j] = stopDistance(key, Then("erase", key, NoOptions))
    /\ \A key \in Mine(distanceBased, c) : \E j \in DOMAIN s :
         s[j] = stopDistance(key, Then("erase", key, NoOptions))

RemoveMakes(g, c) ==
    \E p, s : /\ Makes(g, Without(timeBased, c), distanceBased, p \o s, <<>>)
              /\ RequestsOK(p) /\ StopsTime(p, c) /\ Erases(s, c)
              /\ FixKept(<<>>, timeBased, p, Without(timeBased, c))

\* MsgRemoveClient, by induction over the client's time-based sessions.
LEMMA RemoveIs ==
    ASSUME TimeOK(timeBased), DistanceOK(distanceBased), NEW c
    PROVE  RemoveMakes(stopClientSessions(Handling, c), c)
<1> DEFINE L == Cardinality(Mine(timeBased, c))
           Op(g) == StoppedFor(g, First(Mine(g.time, c)))
           UpTo(n, f) == [i \in 0..n |-> IF i = 0 THEN Handling ELSE Op(f[i - 1])]
           After == CHOOSE f : f = UpTo(L, f)
           order == InOrder(Mine(distanceBased, c))
           s == [j \in DOMAIN order |-> stopDistance(order[j], Then("erase", order[j], NoOptions))]
           g == stopClientSessions(Handling, c)
<1>1. /\ HandlingOK(Handling) /\ Handling.time = timeBased /\ Handling.distance = distanceBased
      /\ Handling.requests = <<>> /\ Handling.answers = <<>>
  BY HandlingIs
<1>2. g = [After[L] EXCEPT !.requests = @ \o s]
  BY <1>1 DEF stopClientSessions, Mine, StoppedFor
<1>3. L \in Nat
  <2>1. IsFiniteSet(DOMAIN timeBased) /\ Mine(timeBased, c) \subseteq DOMAIN timeBased
    BY DEF TimeOK, Mine
  <2> QED BY <2>1, FS_Subset, FS_CardinalityType
<1> HIDE DEF Op, L
<1>4. \A n \in Nat : \E f : f = UpTo(n, f)
  <2> DEFINE S == {n \in Nat : \E f : f = UpTo(n, f)}
  <2>1. 0 \in S
    <3>1. [i \in 0..0 |-> Handling] = UpTo(0, [i \in 0..0 |-> Handling])
      OBVIOUS
    <3> QED BY <3>1
  <2>2. ASSUME NEW n \in Nat, n \in S PROVE n + 1 \in S
    <3>1. PICK f : f = UpTo(n, f)
      BY <2>2
    <3> DEFINE h == [i \in 0..(n + 1) |-> IF i = n + 1 THEN Op(f[n]) ELSE f[i]]
    <3>2. ASSUME NEW i \in 0..(n + 1)
          PROVE  h[i] = IF i = 0 THEN Handling ELSE Op(h[i - 1])
      BY <3>1
    <3>3. h = [i \in 0..(n + 1) |-> h[i]]
      OBVIOUS
    <3> HIDE DEF h
    <3>4. h = UpTo(n + 1, h)
      BY <3>2, <3>3
    <3> QED BY <3>4
  <2> HIDE DEF S
  <2>3. Nat \subseteq S
    BY <2>1, <2>2, Induction
  <2> QED BY <2>3 DEF S
<1>5. After = UpTo(L, After)
  BY <1>3, <1>4
<1> HIDE DEF After
<1>6. \A n \in 0..L : After[n] = IF n = 0 THEN Handling ELSE Op(After[n - 1])
  BY <1>5
<1>7. Stopping(Handling, c, L)
  <2>1. StopsTime(<<>>, c) /\ FixKept(<<>>, timeBased, <<>>, timeBased)
    BY SqEmpty DEF StopsTime, FixKept
  <2> QED BY <1>1, <2>1 DEF Stopping, L
<1> DEFINE P == {n \in Nat : n <= L => Stopping(After[n], c, L - n)}
<1>8. 0 \in P
  BY <1>3, <1>6, <1>7
<1>9. ASSUME NEW n \in Nat, n \in P PROVE n + 1 \in P
  <2> SUFFICES ASSUME n + 1 <= L PROVE Stopping(After[n + 1], c, L - (n + 1))
    OBVIOUS
  <2>1. Stopping(After[n], c, L - n) /\ After[n + 1] = Op(After[n])
    BY <1>3, <1>6, <1>9
  <2>2. L - n \in Nat /\ L - n # 0 /\ (L - n) - 1 = L - (n + 1)
    BY <1>3
  <2>3. Stopping(Op(After[n]), c, (L - n) - 1)
    BY <2>1, <2>2, StoppingOne DEF Op
  <2> QED BY <2>1, <2>2, <2>3
<1> HIDE DEF P
<1>10. Stopping(After[L], c, L - L)
  <2>1. Nat \subseteq P
    BY <1>8, <1>9, Induction
  <2>2. L \in P
    BY <1>3, <2>1
  <2> QED BY <1>3, <2>2 DEF P
<1> DEFINE p == After[L]
<1> HIDE DEF p
<1>11. Stopping(p, c, 0)
  BY <1>3, <1>10 DEF p
<1>12. p.time = Without(timeBased, c)
  <2>1. TimeOK(p.time)
    BY <1>11 DEF Stopping, HandlingOK
  <2>2. Mine(p.time, c) = {}
    <3>1. IsFiniteSet(DOMAIN p.time) /\ Mine(p.time, c) \subseteq DOMAIN p.time
      BY <2>1 DEF TimeOK, Mine
    <3>2. IsFiniteSet(Mine(p.time, c))
      BY <3>1, FS_Subset
    <3> QED BY <1>11, <3>2, FS_EmptySet DEF Stopping
  <2>3. DOMAIN p.time = {k \in DOMAIN timeBased : k[1] # c}
    BY <1>11, <2>2 DEF Stopping, Mine
  <2>4. \A l \in DOMAIN p.time : p.time[l] = timeBased[l]
    BY <1>11 DEF Stopping
  <2>5. p.time = [l \in DOMAIN p.time |-> p.time[l]]
    BY <2>1 DEF TimeOK
  <2> QED BY <2>3, <2>4, <2>5 DEF Without
<1>13. Erases(s, c)
  <2>1. IsFiniteSet(DOMAIN distanceBased) /\ Mine(distanceBased, c) \subseteq DOMAIN distanceBased
        /\ DOMAIN distanceBased \subseteq Keys
    BY DEF DistanceOK, Mine
  <2>2. IsFiniteSet(Mine(distanceBased, c)) /\ Mine(distanceBased, c) \subseteq Keys
    BY <2>1, FS_Subset
  <2>3. /\ Sq(order) /\ \A j \in DOMAIN order : order[j] \in Mine(distanceBased, c)
        /\ \A k \in Mine(distanceBased, c) : \E j \in DOMAIN order : order[j] = k
        /\ DOMAIN order = 1..Len(order) /\ Len(order) \in Nat
    <3> HIDE DEF order
    <3>1. /\ Sq(order) /\ \A j \in DOMAIN order : order[j] \in Mine(distanceBased, c)
          /\ \A k \in Mine(distanceBased, c) : \E j \in DOMAIN order : order[j] = k
      BY <2>2, InOrderIs DEF order
    <3> QED BY <3>1, SqOf
  <2> HIDE DEF order
  <2>4. Sq(s)
    <3>1. s \in [1..Len(order) -> Range(s)]
      BY <2>3 DEF Range
    <3> HIDE DEF s
    <3> QED BY <2>3, <3>1, SqIs
  <2> QED BY <2>3, <2>4 DEF Erases
<1> HIDE DEF s
<1>14. Makes(g, Without(timeBased, c), distanceBased, p.requests \o s, <<>>)
  <2>1. p = [time |-> Without(timeBased, c), distance |-> distanceBased,
             requests |-> p.requests, answers |-> <<>>]
    BY <1>11, <1>12 DEF Stopping, HandlingOK, Rec
  <2>2. \A b : [p EXCEPT !.requests = b] = [time |-> Without(timeBased, c),
                  distance |-> distanceBased, requests |-> b, answers |-> <<>>]
    BY <2>1
  <2>3. g = [time |-> Without(timeBased, c), distance |-> distanceBased,
             requests |-> p.requests \o s, answers |-> <<>>]
    BY <1>2, <2>2 DEF p
  <2> HIDE DEF g
  <2> QED BY <2>3, RecIs DEF Makes
<1>15. RequestsOK(p.requests) /\ StopsTime(p.requests, c)
       /\ FixKept(<<>>, timeBased, p.requests, Without(timeBased, c))
  BY <1>11, <1>12 DEF Stopping, HandlingOK
<1> QED BY <1>13, <1>14, <1>15 DEF RemoveMakes

\* Its requests are well formed.
LEMMA RemoveOK ==
    ASSUME TimeOK(timeBased), DistanceOK(distanceBased), NEW c, NEW g, RemoveMakes(g, c)
    PROVE  HandlingOK(g)
<1>1. PICK p, s : /\ Makes(g, Without(timeBased, c), distanceBased, p \o s, <<>>)
                  /\ RequestsOK(p) /\ Erases(s, c)
  BY DEF RemoveMakes
<1>2. RequestsOK(s)
  <2>1. ASSUME NEW j \in DOMAIN s PROVE RequestOK(s[j])
    <3>1. PICK key \in Mine(distanceBased, c) :
             s[j] = stopDistance(key, Then("erase", key, NoOptions))
      BY <1>1 DEF Erases
    <3>2. key \in Keys
      BY DEF DistanceOK, Mine
    <3> QED BY <3>1, <3>2, DistanceRequests
  <2> QED BY <1>1, <2>1 DEF Erases, RequestsOK
<1>3. TimeOK(Without(timeBased, c))
  <2>1. {k \in DOMAIN timeBased : k[1] # c} \subseteq DOMAIN timeBased
    OBVIOUS
  <2>2. IsFiniteSet({k \in DOMAIN timeBased : k[1] # c})
    BY <2>1, FS_Subset DEF TimeOK
  <2> QED BY <2>2 DEF TimeOK, Without
<1>4. Sq(<<>>)
  BY SqEmpty
<1> QED BY <1>1, <1>2, <1>3, <1>4, MoreRequests, MakesOK

-----------------------------------------------------------------------------
(* Types: the sessions, the messages and the requests that are under way.    *)

\* What a sequence holds.
LEMMA RangeIs ==
    ASSUME NEW q, Sq(q)
    PROVE  /\ \A e : Range(Append(q, e)) = Range(q) \cup {e}
           /\ \A r : Sq(r) => Range(q \o r) = Range(q) \cup Range(r)
           /\ q # <<>> => Head(q) \in Range(q) /\ Range(Tail(q)) \subseteq Range(q)
<1>1. DOMAIN q = 1..Len(q) /\ Len(q) \in Nat
  BY SqOf
<1>2. ASSUME NEW e PROVE Range(Append(q, e)) = Range(q) \cup {e}
  <2> DEFINE a == Append(q, e)
  <2>1. /\ DOMAIN a = 1..(Len(q) + 1) /\ \A j \in 1..Len(q) : a[j] = q[j]
        /\ a[Len(q) + 1] = e
    BY SqAppend
  <2> HIDE DEF a
  <2>2. Range(a) \subseteq Range(q) \cup {e}
    <3> SUFFICES ASSUME NEW j \in DOMAIN a PROVE a[j] \in Range(q) \cup {e}
      BY DEF Range
    <3>1. j \in 1..Len(q) \/ j = Len(q) + 1
      BY <1>1, <2>1
    <3> QED BY <1>1, <2>1, <3>1 DEF Range
  <2>3. Range(q) \cup {e} \subseteq Range(a)
    <3>1. \A j \in DOMAIN q : j \in DOMAIN a /\ a[j] = q[j]
      BY <1>1, <2>1
    <3>2. Len(q) + 1 \in DOMAIN a
      BY <1>1, <2>1
    <3> QED BY <2>1, <3>1, <3>2 DEF Range
  <2> QED BY <2>2, <2>3 DEF a
<1>3. ASSUME NEW r, Sq(r) PROVE Range(q \o r) = Range(q) \cup Range(r)
  <2> DEFINE a == q \o r
  <2>1. /\ DOMAIN a = 1..(Len(q) + Len(r)) /\ \A j \in 1..Len(q) : a[j] = q[j]
        /\ \A j \in 1..Len(r) : a[Len(q) + j] = r[j]
    BY <1>3, SqConcat
  <2>2. DOMAIN r = 1..Len(r) /\ Len(r) \in Nat
    BY <1>3, SqOf
  <2> HIDE DEF a
  <2>3. Range(a) \subseteq Range(q) \cup Range(r)
    <3> SUFFICES ASSUME NEW j \in DOMAIN a PROVE a[j] \in Range(q) \cup Range(r)
      BY DEF Range
    <3>1. CASE j \in 1..Len(q)
      BY <1>1, <2>1, <3>1 DEF Range
    <3>2. CASE j \notin 1..Len(q)
      <4>1. j - Len(q) \in 1..Len(r) /\ j = Len(q) + (j - Len(q))
        BY <1>1, <2>1, <2>2, <3>2
      <4>2. a[j] = r[j - Len(q)]
        BY <2>1, <4>1
      <4> QED BY <2>2, <4>1, <4>2 DEF Range
    <3> QED BY <3>1, <3>2
  <2>4. Range(q) \cup Range(r) \subseteq Range(a)
    <3>1. \A j \in DOMAIN q : j \in DOMAIN a /\ a[j] = q[j]
      BY <1>1, <2>1, <2>2
    <3>2. \A j \in DOMAIN r : Len(q) + j \in DOMAIN a /\ a[Len(q) + j] = r[j]
      BY <1>1, <2>1, <2>2
    <3> QED BY <3>1, <3>2 DEF Range
  <2> QED BY <2>3, <2>4 DEF a
<1>4. ASSUME q # <<>> PROVE Head(q) \in Range(q) /\ Range(Tail(q)) \subseteq Range(q)
  <2>1. /\ Len(q) \in Nat \ {0} /\ DOMAIN Tail(q) = 1..(Len(q) - 1)
        /\ \A j \in 1..(Len(q) - 1) : Tail(q)[j] = q[j + 1]
        /\ Head(q) = q[1]
    BY <1>4, SqTail
  <2>2. 1 \in DOMAIN q /\ \A j \in 1..(Len(q) - 1) : j + 1 \in DOMAIN q
    BY <1>1, <2>1
  <2> QED BY <2>1, <2>2 DEF Range
<1> QED BY <1>2, <1>3, <1>4

MessageOK(m, n) ==
    \/ m.op \in {"start", "update"} /\ m.key \in Keys /\ m.options \in OptionSet
    \/ m.op = "stop" /\ m.key \in Keys
    \/ m.op = "remove"
    \/ m.op = "add" /\ m.tracks \in BOOLEAN
    \/ m.op = "response" /\ ThenOK(m.then) /\ m.then # NoThen /\ m.ok \in BOOLEAN
    \/ m.op \in {"enable", "disable"} /\ m.id \in 1..n
    \/ m.op = "config" /\ m.config \in ConfigSet
    \/ m.op = "engineUp"

\* What waits for the capabilities of the engine.
PendingOK(m) ==
    \/ /\ m.op \in {"start", "update"} /\ m.key \in Keys /\ m.options \in OptionSet
       /\ m.options.minDistance > 0
    \/ m.op = "config" /\ m.config \in ConfigSet

SessionTypes == TimeOK(timeBased) /\ DistanceOK(distanceBased)
QueueTypes == Sq(queue) /\ \A m \in Range(queue) : MessageOK(m, calls)
PendingTypes == Sq(mPendingMsgs) /\ \A m \in Range(mPendingMsgs) : PendingOK(m)
ConfTypes ==
    /\ mGps_conf = [GPS_LOCK |-> mGps_conf.GPS_LOCK, SUPL_VER |-> mGps_conf.SUPL_VER]
    /\ mGps_conf.GPS_LOCK \subseteq {MO, NI}
    /\ mSupportNfwControl \in BOOLEAN /\ mAfwControlId \in 0..calls
    /\ ~mSupportNfwControl => MO \in mGps_conf.GPS_LOCK
ClientTypes ==
    /\ use \in Uses /\ calls \in 0..MaxCalls[use] /\ live \subseteq Clients
    /\ started \subseteq live \X (1..calls) /\ restarts \in 0..MaxRestarts
FlagTypes ==
    /\ known \in BOOLEAN /\ failed \in BOOLEAN
    /\ mPendingMsgs # <<>> => ~known
    /\ mClientData \in [DOMAIN mClientData -> BOOLEAN]
ModemTypes ==
    /\ modem = [up |-> modem.up, fix |-> modem.fix, distance |-> modem.distance,
                lock |-> modem.lock, version |-> modem.version, blacklist |-> modem.blacklist]
    /\ modem.up \in BOOLEAN /\ (~modem.up => modem = Silent)
AnswerTypes == unanswered \in [Keys -> Int]

Types ==
    /\ SessionTypes /\ QueueTypes /\ PendingTypes /\ RequestsOK(api) /\ ConfTypes /\ ClientTypes
    /\ FlagTypes /\ ModemTypes /\ AnswerTypes

\* The invariant gives the module's.
LEMMA TypesGive == Types => TypeOK
<1> SUFFICES ASSUME Types PROVE TypeOK
  OBVIOUS
<1>1. use \in Uses /\ calls \in 0..MaxCalls[use] /\ live \subseteq Clients
      /\ restarts \in 0..MaxRestarts /\ started \subseteq live \X (1..calls)
  BY DEF Types, ClientTypes
<1>2. started \subseteq Keys
  <2>1. MaxCalls[use] \in Nat
    BY <1>1, ConstantsAssumption
  <2>2. 1..calls \subseteq 1..MaxCalls[use]
    BY <1>1, <2>1
  <2>3. 1..MaxCalls[use] \subseteq Ids
    BY <1>1 DEF Ids
  <2> QED BY <1>1, <2>2, <2>3 DEF Keys
<1>3. /\ DOMAIN timeBased \cup DOMAIN distanceBased \subseteq Keys
      /\ \A key \in DOMAIN timeBased : timeBased[key] \in Options /\ timeBased[key].minDistance = 0
      /\ \A key \in DOMAIN distanceBased :
           distanceBased[key] \in Options /\ distanceBased[key].minDistance > 0
  BY OptionsAre DEF Types, SessionTypes, TimeOK, DistanceOK
<1>4. known \in BOOLEAN /\ failed \in BOOLEAN /\ (mPendingMsgs # <<>> => ~known)
  BY DEF Types, FlagTypes
<1>5. /\ mSupportNfwControl \in BOOLEAN /\ mAfwControlId \in 0..calls
      /\ mGps_conf.GPS_LOCK \subseteq {MO, NI}
      /\ ~mSupportNfwControl => MO \in mGps_conf.GPS_LOCK
  BY DEF Types, ConfTypes
<1> QED BY <1>1, <1>2, <1>3, <1>4, <1>5 DEF TypeOK

\* Types hold at first.
LEMMA TypesInit == Init => Types
<1> SUFFICES ASSUME Init PROVE Types
  OBVIOUS
<1>1. Sq(<<>>) /\ DOMAIN <<>> = {} /\ Range(<<>>) = {}
  BY SqEmpty DEF Range
<1>2. SessionTypes
  <2>1. TimeOK(<<>>) /\ DistanceOK(<<>>)
    BY FS_EmptySet DEF TimeOK, DistanceOK
  <2> QED BY <2>1 DEF Init, SessionTypes
<1>3. QueueTypes /\ PendingTypes /\ RequestsOK(api)
  BY <1>1 DEF Init, QueueTypes, PendingTypes, RequestsOK
<1>4. ConfTypes
  BY DEF Init, ConfTypes
<1>5. ClientTypes
  BY ConstantsAssumption DEF Init, ClientTypes
<1>6. FlagTypes
  BY DEF Init, FlagTypes, Boot
<1>7. ModemTypes
  <2>1. CASE modem = Silent
    BY <2>1 DEF ModemTypes, Silent
  <2>2. CASE modem = [Silent EXCEPT !.up = TRUE, !.lock = {MO, NI}, !.version = 1]
    <3>1. modem = [up |-> TRUE, fix |-> NoFix, distance |-> {}, lock |-> {MO, NI}, version |-> 1,
                   blacklist |-> {}]
      BY <2>2 DEF Silent
    <3> QED BY <3>1 DEF ModemTypes
  <2> QED BY <2>1, <2>2 DEF Init, Boot
<1>8. AnswerTypes
  BY DEF Init, AnswerTypes
<1> QED BY <1>2, <1>3, <1>4, <1>5, <1>6, <1>7, <1>8 DEF Types

\* What a message's handling commits.
LEMMA CommitTypes ==
    ASSUME Types, NEW g, HandlingOK(g), Commit(g)
    PROVE  SessionTypes' /\ RequestsOK(api') /\ AnswerTypes' /\ Sq(g.requests)
<1>1. timeBased' = g.time /\ distanceBased' = g.distance /\ api' = api \o g.requests
  BY DEF Commit
<1>2. RequestsOK(api')
  BY <1>1, MoreRequests DEF HandlingOK, Types
<1>3. SessionTypes'
  BY <1>1 DEF HandlingOK, SessionTypes
<1>4. AnswerTypes'
  <2>1. \A key \in Keys : unanswered[key] \in Int
    BY DEF Types, AnswerTypes
  <2>2. \A key \in Keys : Told(g, key) \in Nat
    <3> SUFFICES ASSUME NEW key \in Keys PROVE Told(g, key) \in Nat
      OBVIOUS
    <3>1. {j \in DOMAIN g.answers : g.answers[j] = key}
          = {j \in DOMAIN g.answers : g.answers[j] \in {key}}
      OBVIOUS
    <3>2. N(g.answers, {key}) \in Nat
      BY CountIs DEF HandlingOK
    <3> QED BY <3>1, <3>2 DEF Told, N
  <2>3. \A key \in Keys : unanswered[key] - Told(g, key) \in Int
    BY <2>1, <2>2
  <2>4. unanswered' = [key \in Keys |-> unanswered[key] - Told(g, key)]
    BY DEF Commit
  <2> QED BY <2>3, <2>4 DEF AnswerTypes
<1>5. Sq(g.requests)
  BY DEF HandlingOK, RequestsOK
<1> QED BY <1>2, <1>3, <1>4, <1>5

\* The message the adapter handles, and those that stay.
LEMMA HeadOK ==
    ASSUME Types, queue # <<>>
    PROVE  /\ MessageOK(Head(queue), calls) /\ Sq(Tail(queue))
           /\ \A m \in Range(Tail(queue)) : MessageOK(m, calls)
           /\ Sq(Resent(Head(queue)))
           /\ \A m \in Range(Resent(Head(queue))) : PendingOK(m)
<1>1. Sq(queue) /\ \A m \in Range(queue) : MessageOK(m, calls)
  BY DEF Types, QueueTypes
<1>2. Head(queue) \in Range(queue) /\ Range(Tail(queue)) \subseteq Range(queue) /\ Sq(Tail(queue))
  BY <1>1, RangeIs, SqTail
<1>3. Sq(<<>>) /\ Range(<<>>) = {}
  BY SqEmpty DEF Range
<1>4. Sq(Resent(Head(queue))) /\ \A m \in Range(Resent(Head(queue))) : PendingOK(m)
  BY <1>3 DEF Resent, Types, PendingTypes
<1> QED BY <1>1, <1>2, <1>4

-----------------------------------------------------------------------------
(* Each message.                                                             *)

TrackMakes(g, m) ==
    \/ /\ m.op = "start" /\ (known \/ ~(m.options.minDistance > 0))
       /\ StartMakes(g, m.key, m.options)
    \/ /\ m.op = "update" /\ (known \/ ~(m.options.minDistance > 0))
       /\ UpdateMakes(g, m.key, m.options)
    \/ m.op = "stop" /\ StopMakes(g, m.key)

Waits(m) ==
    /\ m.op \in {"start", "update"} /\ ~known /\ m.options.minDistance > 0
    /\ Pend(m) /\ UNCHANGED failed

\* A command of tracking waits or is handled.
LEMMA TrackIs ==
    ASSUME Types, NEW m, MessageOK(m, calls), Track(m)
    PROVE  \/ Waits(m) /\ PendingOK(m)
           \/ \E g : /\ HandlingOK(g) /\ Commit(g) /\ TrackMakes(g, m) /\ m.key \in Keys
                     /\ UNCHANGED <<mPendingMsgs, known, mClientData, configuration, failed>>
<1>0. TimeOK(timeBased) /\ DistanceOK(distanceBased)
  BY DEF Types, SessionTypes
<1>1. /\ m.op \in {"start", "update", "stop"} /\ m.key \in Keys
      /\ m.op # "stop" => m.options \in OptionSet
  BY DEF Track, MessageOK
<1>2. m.op # "stop" => m.options \in Options /\ m.options.size = 1
  BY <1>1, ConstantsAssumption
<1>3. CASE m.op # "stop" /\ ~known /\ m.options.minDistance > 0
  BY <1>1, <1>3 DEF Track, Waits, PendingOK
<1>4. CASE m.op = "start" /\ ~(~known /\ m.options.minDistance > 0)
  <2> DEFINE g == StartTracking(Handling, m.key, m.options)
  <2>1. Commit(g) /\ UNCHANGED <<mPendingMsgs, known, mClientData, configuration, failed>>
    BY <1>4 DEF Track
  <2>2. StartMakes(g, m.key, m.options)
    BY <1>0, <1>1, <1>2, <1>4, StartIs
  <2> HIDE DEF g
  <2>3. HandlingOK(g)
    BY <1>0, <1>1, <1>2, <1>4, <2>2, StartOK
  <2> QED BY <1>1, <1>4, <2>1, <2>2, <2>3 DEF TrackMakes
<1>5. CASE m.op = "update" /\ ~(~known /\ m.options.minDistance > 0)
  <2> DEFINE g == UpdateTracking(Handling, m.key, m.options)
  <2>1. Commit(g) /\ UNCHANGED <<mPendingMsgs, known, mClientData, configuration, failed>>
    BY <1>5 DEF Track
  <2>2. UpdateMakes(g, m.key, m.options)
    BY <1>0, <1>1, <1>2, <1>5, UpdateIs
  <2> HIDE DEF g
  <2>3. HandlingOK(g)
    BY <1>0, <1>1, <1>2, <1>5, <2>2, UpdateOK
  <2> QED BY <1>1, <1>5, <2>1, <2>2, <2>3 DEF TrackMakes
<1>6. CASE m.op = "stop"
  <2> DEFINE g == StopTracking(Handling, m.key)
  <2>1. Commit(g) /\ UNCHANGED <<mPendingMsgs, known, mClientData, configuration, failed>>
    BY <1>6 DEF Track
  <2>2. StopMakes(g, m.key)
    BY <1>0, <1>1, StopIs
  <2> HIDE DEF g
  <2>3. HandlingOK(g)
    BY <1>0, <1>1, <2>2, StopOK
  <2> QED BY <1>1, <1>6, <2>1, <2>2, <2>3 DEF TrackMakes
<1> QED BY <1>1, <1>3, <1>4, <1>5, <1>6

\* A client's removal, and a response.
LEMMA RemoveClientIs ==
    ASSUME Types, NEW m, RemoveClient(m)
    PROVE  \E g : /\ HandlingOK(g) /\ Commit(g) /\ RemoveMakes(g, m.client)
                  /\ mClientData' = Drop(mClientData, m.client)
                  /\ UNCHANGED <<mPendingMsgs, known, configuration, failed>>
<1>0. TimeOK(timeBased) /\ DistanceOK(distanceBased)
  BY DEF Types, SessionTypes
<1> DEFINE g == stopClientSessions(Handling, m.client)
<1>1. /\ Commit(g) /\ mClientData' = Drop(mClientData, m.client)
      /\ UNCHANGED <<mPendingMsgs, known, configuration, failed>>
  BY DEF RemoveClient
<1>2. RemoveMakes(g, m.client)
  BY <1>0, RemoveIs
<1> HIDE DEF g
<1>3. HandlingOK(g)
  BY <1>0, <1>2, RemoveOK
<1> QED BY <1>1, <1>2, <1>3

\* A response is handled.
LEMMA RespondIs ==
    ASSUME Types, NEW m, MessageOK(m, calls), Respond(m)
    PROVE  \E g : /\ HandlingOK(g) /\ Commit(g) /\ ContinueMakes(g, m.then, m.ok)
                  /\ ThenOK(m.then) /\ m.then # NoThen /\ m.ok \in BOOLEAN
                  /\ UNCHANGED <<mPendingMsgs, known, mClientData, configuration, failed>>
<1>0. TimeOK(timeBased) /\ DistanceOK(distanceBased)
  BY DEF Types, SessionTypes
<1> DEFINE g == Continue(Handling, m.then, m.ok)
<1>1. /\ Commit(g) /\ UNCHANGED <<mPendingMsgs, known, mClientData, configuration, failed>>
  BY DEF Respond
<1>2. ThenOK(m.then) /\ m.then # NoThen /\ m.ok \in BOOLEAN
  BY DEF MessageOK, Respond
<1>3. ContinueMakes(g, m.then, m.ok)
  BY <1>0, <1>2, ContinueIs
<1> HIDE DEF g
<1>4. HandlingOK(g)
  BY <1>0, <1>2, <1>3, ContinueOK
<1> QED BY <1>1, <1>2, <1>3, <1>4

\* A sequence of one element, and of two.
LEMMA Appends ==
    ASSUME NEW a, NEW b
    PROVE  Append(<<>>, a) = <<a>> /\ Append(<<a>>, b) = <<a, b>>
<1>1. Append(<<>>, a) = <<a>>
  OBVIOUS
<1>2. Append(<<a>>, b) = <<a, b>>
  <2> DEFINE s == <<a>>
             p == Append(s, b)
             t == <<a, b>>
  <2>1. Sq(s) /\ Len(s) = 1 /\ s[1] = a
    BY CountOne
  <2> HIDE DEF s
  <2>2. Sq(p) /\ Len(p) = 2 /\ p[1] = a /\ p[2] = b
    BY <2>1, SqAppend
  <2>3. t \in Seq({a, b}) /\ Len(t) = 2 /\ t[1] = a /\ t[2] = b
    OBVIOUS
  <2>4. t \in [1..2 -> {a, b}]
    BY <2>3
  <2>5. \A j \in 1..2 : j = 1 \/ j = 2
    OBVIOUS
  <2> HIDE DEF p, t
  <2>6. Sq(t)
    BY <2>4, SqIs
  <2>7. \A j \in 1..Len(p) : p[j] = t[j]
    BY <2>2, <2>3, <2>5
  <2>8. p = t
    BY <2>2, <2>3, <2>6, <2>7, SameSq
  <2> QED BY <2>8 DEF p, t, s
<1> QED BY <1>1, <1>2

\* What MsgGnssUpdateConfig asks of the modem.
Asked(m) ==
    LET config == m.config
        requested == IF "GPS_LOCK" \in DOMAIN config
                     THEN [config EXCEPT !["GPS_LOCK"] = NewLock(@)] ELSE config
        need == {f \in DOMAIN config : /\ f = "GPS_LOCK" => ~LockIsSet
                                       /\ f = "ASSISTANCE_DATA" => config[f] = "SUPL"}
    IN  configRequest(requested, need)

StopFix == [do |-> "stopFix", then |-> NoThen]

ConfigMakes(g, m) ==
    \/ Makes(g, timeBased, distanceBased, <<Asked(m)>>, <<>>)
    \/ \E q : /\ q = <<Asked(m)>> \/ q = <<StopFix, Asked(m)>>
              /\ Restarts(g, timeBased, distanceBased, q, <<>>)

ConfTo(m) ==
    /\ mGps_conf' = [GPS_LOCK |-> IF "GPS_LOCK" \in DOMAIN m.config
                                  THEN m.config["GPS_LOCK"] \cup {MO} ELSE mGps_conf.GPS_LOCK,
                     SUPL_VER |-> IF "SUPL_VERSION" \in DOMAIN m.config
                                  THEN m.config["SUPL_VERSION"] ELSE mGps_conf.SUPL_VER]
    /\ mSupportNfwControl' = (mSupportNfwControl /\ ~("GPS_LOCK" \in DOMAIN m.config))
    /\ UNCHANGED <<mAfwControlId, mPendingMsgs, known, mClientData, failed>>

\* MsgGnssUpdateConfig waits, or is handled.
LEMMA UpdateConfigIs ==
    ASSUME Types, NEW m, MessageOK(m, calls), UpdateConfig(m)
    PROVE  \/ m.op = "config" /\ ~known /\ Pend(m) /\ UNCHANGED failed /\ PendingOK(m)
           \/ \E g : HandlingOK(g) /\ Commit(g) /\ ConfigMakes(g, m) /\ ConfTo(m) /\ known
                     /\ m.config \in ConfigSet
<1>0. TimeOK(timeBased) /\ DistanceOK(distanceBased)
  BY DEF Types, SessionTypes
<1>1. m.op = "config" /\ m.config \in ConfigSet
  BY DEF UpdateConfig, MessageOK
<1>2. CASE ~known
  BY <1>1, <1>2 DEF UpdateConfig, PendingOK
<1>3. CASE known
  <2> DEFINE before == IF "MIN_SV_ELEVATION" \in DOMAIN m.config THEN suspendSessions(Handling)
                       ELSE Handling
             after == Request(before, Asked(m))
             g == IF "MIN_SV_ELEVATION" \in DOMAIN m.config THEN restartSessions(after) ELSE after
  <2>1. Commit(g) /\ ConfTo(m)
    BY <1>3 DEF UpdateConfig, ConfTo, Asked
  <2>2. Makes(Handling, timeBased, distanceBased, <<>>, <<>>) /\ Handling.time = timeBased
    BY <1>0, HandlingIs
  <2>3. RequestOK(Asked(m)) /\ RequestOK(StopFix)
    BY DEF Asked, configRequest, RequestOK, ThenOK, StopFix
  <2> DEFINE r == Asked(m)
  <2>4. Append(<<>>, r) = <<r>> /\ Append(<<StopFix>>, r) = <<StopFix, r>>
        /\ Append(<<>>, StopFix) = <<StopFix>>
    BY Appends
  <2>5. RequestsOK(<<>>) /\ Sq(<<>>)
    BY SqEmpty DEF RequestsOK
  <2>6. RequestsOK(<<r>>) /\ RequestsOK(<<StopFix, r>>)
    <3>1. RequestsOK(<<r>>) /\ RequestsOK(<<StopFix>>)
      BY <2>3, OneRequest
    <3>2. RequestsOK(Append(<<StopFix>>, r))
      BY <2>3, <3>1, OneRequest
    <3> QED BY <2>4, <3>1, <3>2
  <2>7. Request(Handling, r) = after \/ Request(Request(Handling, StopFix), r) = after
    BY <2>2 DEF suspendSessions, StopFix
  <2> HIDE DEF r
  <2>8. Makes(Request(Handling, r), timeBased, distanceBased, Append(<<>>, r), <<>>)
    BY <2>2, MakesMore
  <2>9. Makes(Request(Handling, StopFix), timeBased, distanceBased, Append(<<>>, StopFix), <<>>)
    BY <2>2, MakesMore
  <2>10. Makes(Request(Request(Handling, StopFix), r), timeBased, distanceBased,
               Append(Append(<<>>, StopFix), r), <<>>)
    BY <2>9, MakesMore
  <2>11. PICK q : /\ q = <<r>> \/ q = <<StopFix, r>>
                  /\ Makes(after, timeBased, distanceBased, q, <<>>)
    <3> HIDE DEF after
    <3> QED BY <2>4, <2>7, <2>8, <2>10
  <2>12. CASE "MIN_SV_ELEVATION" \in DOMAIN m.config
    <3>1. g = restartSessions(after)
      BY <2>12
    <3> HIDE DEF g, after
    <3>2. Restarts(g, timeBased, distanceBased, q, <<>>)
      BY <1>0, <2>11, <3>1, RestartIs
    <3>3. HandlingOK(g)
      BY <1>0, <2>5, <2>6, <2>11, <3>2, RestartOK
    <3> QED BY <1>1, <1>3, <2>1, <2>11, <3>2, <3>3 DEF ConfigMakes, r
  <2>13. CASE "MIN_SV_ELEVATION" \notin DOMAIN m.config
    <3>1. g = Request(Handling, r)
      BY <2>13 DEF r
    <3> HIDE DEF g, after
    <3>2. Makes(g, timeBased, distanceBased, <<r>>, <<>>)
      BY <2>4, <2>8, <3>1
    <3>3. HandlingOK(g)
      BY <1>0, <2>5, <2>6, <3>2, MakesOK
    <3> QED BY <1>1, <1>3, <2>1, <3>2, <3>3 DEF ConfigMakes, r
  <2> QED BY <2>12, <2>13
<1>4. known \in BOOLEAN
  BY DEF Types, FlagTypes
<1> QED BY <1>2, <1>3, <1>4

\* What a restart of the modem asks of it.
Lists == [do |-> "blacklist", ids |-> mBlacklistedSvIds, then |-> NoThen]

\* MsgHandleEngineUpEvent is handled.
LEMMA EngineUpIs ==
    ASSUME Types, NEW m, EngineUp(m)
    PROVE  \E g : /\ HandlingOK(g) /\ Commit(g)
                  /\ Restarts(g, timeBased, distanceBased, <<setConfig, Lists>>, <<>>)
                  /\ known' = TRUE /\ mPendingMsgs' = <<>>
                  /\ UNCHANGED <<mClientData, configuration, failed>>
<1>0. TimeOK(timeBased) /\ DistanceOK(distanceBased)
  BY DEF Types, SessionTypes
<1> DEFINE q == <<setConfig, Lists>>
           h == [Handling EXCEPT !.requests = q]
           g == restartSessions(h)
<1>1. /\ Commit(g) /\ known' = TRUE /\ mPendingMsgs' = <<>>
      /\ UNCHANGED <<mClientData, configuration, failed>>
  BY DEF EngineUp, Lists
<1>2. RequestOK(setConfig) /\ RequestOK(Lists)
  BY DEF setConfig, configRequest, RequestOK, ThenOK, Lists
<1>3. RequestsOK(q) /\ Sq(<<>>)
  <2>1. RequestsOK(<<setConfig>>)
    BY <1>2, OneRequest
  <2>2. RequestsOK(Append(<<setConfig>>, Lists))
    BY <1>2, <2>1, OneRequest
  <2>3. q = Append(<<setConfig>>, Lists)
    OBVIOUS
  <2> QED BY <2>2, <2>3, SqEmpty
<1> HIDE DEF q
<1>4. Makes(h, timeBased, distanceBased, q, <<>>)
  <2>1. h = [time |-> timeBased, distance |-> distanceBased, requests |-> q, answers |-> <<>>]
    BY DEF Handling
  <2> HIDE DEF h
  <2> QED BY <2>1, RecIs DEF Makes
<1> HIDE DEF h
<1>5. Restarts(g, timeBased, distanceBased, q, <<>>)
  BY <1>0, <1>4, RestartIs
<1> HIDE DEF g
<1>6. HandlingOK(g)
  BY <1>0, <1>3, <1>5, RestartOK
<1> QED BY <1>1, <1>5, <1>6 DEF q

-----------------------------------------------------------------------------
(* Types are kept.                                                           *)

\* More commands do not undo a message.
LEMMA MessageStays ==
    ASSUME NEW m, NEW n \in Nat, NEW k \in Nat, n <= k, MessageOK(m, n)
    PROVE  MessageOK(m, k)
<1>1. 1..n \subseteq 1..k
  OBVIOUS
<1> QED BY <1>1 DEF MessageOK

\* What waited is a message.
LEMMA PendingStays == ASSUME NEW m, NEW n, PendingOK(m) PROVE MessageOK(m, n)
BY DEF PendingOK, MessageOK

\* One more message.
LEMMA Enqueued ==
    ASSUME QueueTypes, calls \in Nat, calls' \in Nat, calls <= calls', NEW m,
           MessageOK(m, calls'), queue' = Append(queue, m)
    PROVE  QueueTypes'
<1>1. Sq(queue) /\ \A e \in Range(queue) : MessageOK(e, calls')
  BY MessageStays DEF QueueTypes
<1>2. Sq(queue') /\ Range(queue') = Range(queue) \cup {m}
  BY <1>1, SqAppend, RangeIs
<1> QED BY <1>1, <1>2 DEF QueueTypes

\* Commands are counted.
LEMMA CallsAre == ASSUME Types PROVE calls \in Nat /\ MaxCalls[use] \in Nat /\ use \in Uses
BY ConstantsAssumption DEF Types, ClientTypes

\* A handled message.
LEMMA Dequeued ==
    ASSUME Types, queue # <<>>, queue' = Tail(queue) \o Resent(Head(queue)), calls' = calls
    PROVE  QueueTypes'
<1> DEFINE t == Tail(queue)
           r == Resent(Head(queue))
<1>1. Sq(t) /\ Sq(r) /\ (\A m \in Range(t) : MessageOK(m, calls))
      /\ (\A m \in Range(r) : MessageOK(m, calls))
  BY HeadOK, PendingStays
<1> HIDE DEF t, r
<1>2. queue' = t \o r
  BY DEF t, r
<1>3. Sq(queue') /\ Range(queue') = Range(t) \cup Range(r)
  BY <1>1, <1>2, SqConcat, RangeIs
<1> QED BY <1>1, <1>3 DEF QueueTypes

\* One more message waits.
LEMMA PendTypes ==
    ASSUME Types, NEW m, PendingOK(m), Pend(m), ~known, UNCHANGED <<clientVars, modem, restarts, failed>>
    PROVE  /\ SessionTypes' /\ PendingTypes' /\ RequestsOK(api') /\ ConfTypes' /\ FlagTypes'
           /\ AnswerTypes'
<1>1. /\ mPendingMsgs' = Append(mPendingMsgs, m)
      /\ UNCHANGED <<timeBased, distanceBased, known, mClientData, configuration, api, unanswered>>
  BY DEF Pend
<1>2. PendingTypes'
  <2>1. Sq(mPendingMsgs) /\ \A e \in Range(mPendingMsgs) : PendingOK(e)
    BY DEF Types, PendingTypes
  <2>2. Sq(mPendingMsgs') /\ Range(mPendingMsgs') = Range(mPendingMsgs) \cup {m}
    BY <1>1, <2>1, SqAppend, RangeIs
  <2> QED BY <2>1, <2>2 DEF PendingTypes
<1>3. SessionTypes' /\ RequestsOK(api') /\ AnswerTypes'
  BY <1>1 DEF Types, SessionTypes, AnswerTypes
<1>4. ConfTypes'
  BY <1>1 DEF Types, ConfTypes, configuration, clientVars
<1>5. FlagTypes'
  BY <1>1 DEF Types, FlagTypes
<1> QED BY <1>2, <1>3, <1>4, <1>5

\* What is not of the handled message.
LEMMA SameTypes ==
    ASSUME Types
    PROVE  /\ UNCHANGED mPendingMsgs => PendingTypes'
           /\ UNCHANGED <<configuration, calls>> => ConfTypes'
           /\ UNCHANGED <<mPendingMsgs, known, mClientData, failed>> => FlagTypes'
           /\ UNCHANGED <<clientVars, restarts>> => ClientTypes'
           /\ UNCHANGED modem => ModemTypes'
           /\ UNCHANGED sessions => SessionTypes'
           /\ UNCHANGED unanswered => AnswerTypes'
           /\ UNCHANGED api => RequestsOK(api')
           /\ UNCHANGED <<queue, calls>> => QueueTypes'
<1>1. UNCHANGED mPendingMsgs => PendingTypes'
  BY DEF Types, PendingTypes
<1>2. UNCHANGED <<configuration, calls>> => ConfTypes'
  BY DEF Types, ConfTypes, configuration
<1>3. UNCHANGED <<mPendingMsgs, known, mClientData, failed>> => FlagTypes'
  BY DEF Types, FlagTypes
<1>4. UNCHANGED <<clientVars, restarts>> => ClientTypes'
  BY DEF Types, ClientTypes, clientVars
<1>5. UNCHANGED modem => ModemTypes'
  BY DEF Types, ModemTypes
<1>6. UNCHANGED sessions => SessionTypes'
  BY DEF Types, SessionTypes, sessions
<1>7. UNCHANGED unanswered => AnswerTypes'
  BY DEF Types, AnswerTypes
<1>8. UNCHANGED api => RequestsOK(api')
  BY DEF Types
<1>9. UNCHANGED <<queue, calls>> => QueueTypes'
  BY DEF Types, QueueTypes
<1> QED BY <1>1, <1>2, <1>3, <1>4, <1>5, <1>6, <1>7, <1>8, <1>9

\* The adapter handles a message.
LEMMA HandleMsgTypes ==
    ASSUME Types, HandleMsg
    PROVE  Types'
<1> DEFINE m == Head(queue)
<1>1. /\ queue # <<>> /\ queue' = Tail(queue) \o Resent(m)
      /\ UNCHANGED <<clientVars, modem, restarts, mBlacklistedSvIds>>
  BY DEF HandleMsg
<1>2. QueueTypes' /\ ClientTypes' /\ ModemTypes'
  BY <1>1, Dequeued, SameTypes DEF clientVars
<1>3. MessageOK(m, calls)
  BY <1>1, HeadOK
<1>4. SessionTypes' /\ PendingTypes' /\ RequestsOK(api') /\ ConfTypes' /\ FlagTypes' /\ AnswerTypes'
      => Types'
  BY <1>2 DEF Types
<1> HIDE DEF m
<1>c. UNCHANGED calls
  BY <1>1 DEF clientVars
<1>5. CASE Track(m)
  <2>1. CASE Waits(m) /\ PendingOK(m)
    BY <1>1, <1>4, <2>1, PendTypes DEF Waits
  <2>2. CASE \E g : /\ HandlingOK(g) /\ Commit(g)
                    /\ UNCHANGED <<mPendingMsgs, known, mClientData, configuration, failed>>
    <3>1. SessionTypes' /\ RequestsOK(api') /\ AnswerTypes'
      BY <2>2, CommitTypes
    <3>2. PendingTypes' /\ ConfTypes' /\ FlagTypes'
      BY <1>c, <2>2, SameTypes
    <3> QED BY <1>4, <3>1, <3>2
  <2> QED BY <1>3, <1>5, <2>1, <2>2, TrackIs
<1>6. CASE RemoveClient(m)
  <2>1. PICK g : /\ HandlingOK(g) /\ Commit(g)
                 /\ mClientData' = Drop(mClientData, m.client)
                 /\ UNCHANGED <<mPendingMsgs, known, configuration, failed>>
    BY <1>6, RemoveClientIs
  <2>2. SessionTypes' /\ RequestsOK(api') /\ AnswerTypes'
    BY <2>1, CommitTypes
  <2>3. PendingTypes' /\ ConfTypes'
    BY <1>c, <2>1, SameTypes
  <2>4. FlagTypes'
    <3>1. mClientData' = [l \in DOMAIN mClientData \ {m.client} |-> mClientData[l]]
      BY <2>1 DEF Drop, Restrict
    <3> QED BY <2>1, <3>1 DEF Types, FlagTypes
  <2> QED BY <1>4, <2>2, <2>3, <2>4
<1>7. CASE AddClient(m)
  <2>1. /\ m.tracks \in BOOLEAN /\ mClientData' = With(mClientData, m.client, m.tracks)
        /\ UNCHANGED <<timeBased, distanceBased, mPendingMsgs, known, configuration, api,
                       unanswered, failed>>
    BY <1>3, <1>7 DEF AddClient, MessageOK
  <2>2. PendingTypes' /\ ConfTypes' /\ AnswerTypes' /\ RequestsOK(api')
    BY <1>c, <2>1, SameTypes
  <2>3. FlagTypes'
    BY <2>1 DEF Types, FlagTypes, With
  <2>4. SessionTypes'
    BY <2>1 DEF Types, SessionTypes
  <2> QED BY <1>4, <2>2, <2>3, <2>4
<1>8. CASE Respond(m)
  <2>1. PICK g : /\ HandlingOK(g) /\ Commit(g)
                 /\ UNCHANGED <<mPendingMsgs, known, mClientData, configuration, failed>>
    BY <1>3, <1>8, RespondIs
  <2>2. SessionTypes' /\ RequestsOK(api') /\ AnswerTypes'
    BY <2>1, CommitTypes
  <2>3. PendingTypes' /\ ConfTypes' /\ FlagTypes'
    BY <1>c, <2>1, SameTypes
  <2> QED BY <1>4, <2>2, <2>3
<1>9. CASE Enable(m)
  <2>1. UNCHANGED <<sessions, unanswered, failed>>
    BY <1>9 DEF Enable
  <2>2. SessionTypes' /\ PendingTypes' /\ FlagTypes' /\ AnswerTypes'
    BY <2>1, SameTypes DEF sessions
  <2> DEFINE opened == IF mSupportNfwControl THEN mGps_conf.GPS_LOCK \cap {NI} ELSE {}
  <2>3. CASE mAfwControlId > 0
    <3>1. UNCHANGED <<api, configuration>>
      BY <1>9, <2>3 DEF Enable
    <3> QED BY <1>4, <1>c, <2>2, <3>1, SameTypes
  <2>4. CASE ~(mAfwControlId > 0)
    <3>1. /\ api' = Append(api, lockRequest(opened)) /\ mAfwControlId' = m.id
          /\ mGps_conf' = [mGps_conf EXCEPT !.GPS_LOCK =
                              IF mSupportNfwControl THEN opened ELSE @]
          /\ UNCHANGED mSupportNfwControl /\ m.id \in 1..calls
      BY <1>3, <1>9, <2>4 DEF Enable, MessageOK
    <3>2. RequestOK(lockRequest(opened))
      BY DEF lockRequest, RequestOK, ThenOK
    <3>3. RequestsOK(api')
      BY <3>1, <3>2, OneRequest DEF Types
    <3>4. ConfTypes
      BY DEF Types
    <3>5. mGps_conf' = [GPS_LOCK |-> IF mSupportNfwControl THEN opened ELSE mGps_conf.GPS_LOCK,
                        SUPL_VER |-> mGps_conf.SUPL_VER]
      BY <3>1, <3>4 DEF ConfTypes
    <3>6. mGps_conf'.GPS_LOCK = (IF mSupportNfwControl THEN opened ELSE mGps_conf.GPS_LOCK)
          /\ mGps_conf'.SUPL_VER = mGps_conf.SUPL_VER
      BY <3>5
    <3>7. mGps_conf'.GPS_LOCK \subseteq {MO, NI}
          /\ (~mSupportNfwControl => MO \in mGps_conf'.GPS_LOCK)
      BY <3>4, <3>6 DEF ConfTypes
    <3>8. mGps_conf' = [GPS_LOCK |-> mGps_conf'.GPS_LOCK, SUPL_VER |-> mGps_conf'.SUPL_VER]
      BY <3>5, <3>6
    <3>9. mSupportNfwControl' \in BOOLEAN /\ mAfwControlId' \in 0..calls
          /\ (~mSupportNfwControl' => ~mSupportNfwControl)
      BY <3>1, <3>4 DEF ConfTypes
    <3>10. ConfTypes'
      BY <1>c, <3>7, <3>8, <3>9 DEF ConfTypes
    <3> QED BY <1>4, <2>2, <3>3, <3>10
  <2> QED BY <2>3, <2>4
<1>10. CASE Disable(m)
  <2>1. UNCHANGED <<sessions, unanswered, failed>>
    BY <1>10 DEF Disable
  <2>2. SessionTypes' /\ PendingTypes' /\ FlagTypes' /\ AnswerTypes'
    BY <2>1, SameTypes DEF sessions
  <2> DEFINE lock == mGps_conf.GPS_LOCK \cup (IF mSupportNfwControl THEN {MO} ELSE {})
  <2>3. CASE mAfwControlId # m.id
    <3>1. UNCHANGED <<api, configuration>>
      BY <1>10, <2>3 DEF Disable
    <3> QED BY <1>4, <1>c, <2>2, <3>1, SameTypes
  <2>4. CASE ~(mAfwControlId # m.id)
    <3>1. /\ api' = Append(api, lockRequest(lock)) /\ mAfwControlId' = 0
          /\ mGps_conf' = [mGps_conf EXCEPT !.GPS_LOCK = lock]
          /\ UNCHANGED mSupportNfwControl
      BY <1>10, <2>4 DEF Disable
    <3>2. RequestOK(lockRequest(lock))
      BY DEF lockRequest, RequestOK, ThenOK
    <3>3. RequestsOK(api')
      BY <3>1, <3>2, OneRequest DEF Types
    <3>4. ConfTypes /\ calls \in Nat
      BY CallsAre DEF Types
    <3>5. mGps_conf' = [GPS_LOCK |-> lock, SUPL_VER |-> mGps_conf.SUPL_VER]
      BY <3>1, <3>4 DEF ConfTypes
    <3>6. mGps_conf'.GPS_LOCK = lock /\ mGps_conf'.SUPL_VER = mGps_conf.SUPL_VER
      BY <3>5
    <3>7. mGps_conf'.GPS_LOCK \subseteq {MO, NI}
          /\ (~mSupportNfwControl => MO \in mGps_conf'.GPS_LOCK)
      BY <3>4, <3>6 DEF ConfTypes
    <3>8. mGps_conf' = [GPS_LOCK |-> mGps_conf'.GPS_LOCK, SUPL_VER |-> mGps_conf'.SUPL_VER]
      BY <3>5, <3>6
    <3>9. mSupportNfwControl' \in BOOLEAN /\ mAfwControlId' \in 0..calls
          /\ (~mSupportNfwControl' => ~mSupportNfwControl)
      BY <3>1, <3>4 DEF ConfTypes
    <3>10. ConfTypes'
      BY <1>c, <3>7, <3>8, <3>9 DEF ConfTypes
    <3> QED BY <1>4, <2>2, <3>3, <3>10
  <2> QED BY <2>3, <2>4
<1>11. CASE UpdateConfig(m)
  <2>1. CASE ~known /\ Pend(m) /\ UNCHANGED failed /\ PendingOK(m)
    BY <1>1, <1>4, <2>1, PendTypes
  <2>2. CASE \E g : HandlingOK(g) /\ Commit(g) /\ ConfTo(m) /\ m.config \in ConfigSet
    <3>1. SessionTypes' /\ RequestsOK(api') /\ AnswerTypes'
      BY <2>2, CommitTypes
    <3>2. ConfTo(m) /\ m.config \in ConfigSet
      BY <2>2
    <3>3. PendingTypes' /\ FlagTypes'
      BY <3>2, SameTypes DEF ConfTo
    <3>4. "GPS_LOCK" \in DOMAIN m.config => m.config["GPS_LOCK"] \subseteq {MO, NI}
      BY <3>2, ConstantsAssumption
    <3>5. ConfTypes
      BY DEF Types
    <3>6. ConfTypes'
      BY <1>c, <3>2, <3>4, <3>5 DEF ConfTypes, ConfTo
    <3> QED BY <1>4, <3>1, <3>3, <3>6
  <2> QED BY <1>3, <1>11, <2>1, <2>2, UpdateConfigIs
<1>12. CASE EngineUp(m)
  <2>1. PICK g : /\ HandlingOK(g) /\ Commit(g) /\ known' = TRUE /\ mPendingMsgs' = <<>>
                 /\ UNCHANGED <<mClientData, configuration, failed>>
    BY <1>12, EngineUpIs
  <2>2. SessionTypes' /\ RequestsOK(api') /\ AnswerTypes'
    BY <2>1, CommitTypes
  <2>3. ConfTypes'
    BY <1>c, <2>1, SameTypes
  <2>4. PendingTypes'
    <3>1. Sq(<<>>) /\ Range(<<>>) = {}
      BY SqEmpty DEF Range
    <3> QED BY <2>1, <3>1 DEF PendingTypes
  <2>5. FlagTypes'
    BY <2>1 DEF Types, FlagTypes
  <2> QED BY <1>4, <2>2, <2>3, <2>4, <2>5
<1> QED BY <1>5, <1>6, <1>7, <1>8, <1>9, <1>10, <1>11, <1>12 DEF HandleMsg, m

\* LocApi performs a request.
LEMMA LocApiTypes ==
    ASSUME Types, LocApiStep
    PROVE  Types'
<1> DEFINE r == Head(api)
<1>1. /\ api # <<>> /\ api' = Tail(api)
      /\ UNCHANGED <<clientVars, restarts, sessions, configuration, unanswered>>
  BY DEF LocApiStep
<1>2. PICK taken \in SUBSET Parts(r) :
        LET ok == taken = Parts(r)
        IN  /\ taken # {} => modem.up
            /\ modem' = IF r.do = "config" THEN gnssUpdateConfig(r, taken)
                        ELSE IF ok THEN Performed(r) ELSE modem
            /\ failed' = (failed \/ ~ok)
            /\ queue' = IF r.then = NoThen THEN queue
                        ELSE Append(queue, [op |-> "response", then |-> r.then, ok |-> ok])
  BY DEF LocApiStep
<1>3. RequestsOK(api')
  <2>1. RequestsOK(api) /\ Sq(api)
    BY DEF Types, RequestsOK
  <2>2. Sq(api') /\ Len(api) \in Nat \ {0} /\ DOMAIN api' = 1..(Len(api) - 1)
        /\ DOMAIN api = 1..Len(api)
        /\ \A j \in 1..(Len(api) - 1) : api'[j] = api[j + 1]
    BY <1>1, <2>1, SqTail, SqOf
  <2>3. \A j \in 1..(Len(api) - 1) : j + 1 \in DOMAIN api
    BY <2>2
  <2> QED BY <2>1, <2>2, <2>3 DEF RequestsOK
<1>4. RequestOK(r)
  <2>1. Sq(api)
    BY DEF Types, RequestsOK
  <2>2. Len(api) \in Nat \ {0} /\ Head(api) = api[1] /\ DOMAIN api = 1..Len(api)
    BY <1>1, <2>1, SqTail, SqOf
  <2>3. 1 \in DOMAIN api
    BY <2>2
  <2> QED BY <2>2, <2>3 DEF Types, RequestsOK
<1> HIDE DEF r
<1>5. QueueTypes'
  <2>1. CASE r.then = NoThen
    BY <1>1, <1>2, <2>1, SameTypes DEF clientVars
  <2>2. CASE r.then # NoThen
    <3> DEFINE m == [op |-> "response", then |-> r.then, ok |-> taken = Parts(r)]
    <3>1. queue' = Append(queue, m)
      BY <1>2, <2>2
    <3>2. MessageOK(m, calls)
      BY <1>4, <2>2 DEF RequestOK, MessageOK
    <3> HIDE DEF m
    <3>3. QueueTypes /\ calls \in Nat /\ calls' = calls
      BY <1>1, CallsAre DEF Types, clientVars
    <3> QED BY <3>1, <3>2, <3>3, Enqueued
  <2> QED BY <2>1, <2>2
<1>6. ModemTypes'
  <2>0. ModemTypes
    BY DEF Types
  <2> DEFINE M(v) == v = [up |-> modem.up, fix |-> v.fix, distance |-> v.distance,
                          lock |-> v.lock, version |-> v.version, blacklist |-> v.blacklist]
  <2>1. M(modem')
    <3>1. CASE r.do = "config"
      <4>1. modem' = [modem EXCEPT
                !.lock = IF "GPS_LOCK" \in taken THEN r.requested["GPS_LOCK"] ELSE @,
                !.version = IF "SUPL_VERSION" \in taken THEN r.requested["SUPL_VERSION"] ELSE @,
                !.blacklist = IF "BLACKLISTED_SV_IDS" \in taken
                              THEN r.requested["BLACKLISTED_SV_IDS"] ELSE @]
        BY <1>2, <3>1 DEF gnssUpdateConfig
      <4> QED BY <2>0, <4>1 DEF ModemTypes
    <3>2. CASE modem' = Performed(r) /\ r.do # "config"
      <4>1. \/ modem' = [modem EXCEPT !.fix = r.fix]
            \/ modem' = [modem EXCEPT !.fix = NoFix]
            \/ modem' = [modem EXCEPT !.distance = @ \cup {r.key}]
            \/ modem' = [modem EXCEPT !.distance = @ \ {r.key}]
            \/ modem' = [modem EXCEPT !.lock = r.lock]
            \/ modem' = [modem EXCEPT !.blacklist = r.ids]
        BY <1>4, <3>2 DEF Performed, RequestOK
      <4> QED BY <2>0, <4>1 DEF ModemTypes
    <3>3. CASE modem' = modem
      BY <2>0, <3>3 DEF ModemTypes
    <3> QED BY <1>2, <3>1, <3>2, <3>3
  <2>2. CASE modem.up
    <3>1. modem'.up = TRUE
      BY <2>1, <2>2
    <3> QED BY <2>1, <2>2, <3>1 DEF ModemTypes
  <2>3. CASE ~modem.up
    <3>1. taken = {}
      BY <1>2, <2>3
    <3>2. modem' = modem
      <4>1. CASE r.do = "config"
        <5>1. modem' = [modem EXCEPT !.lock = @, !.version = @, !.blacklist = @]
          BY <1>2, <3>1, <4>1 DEF gnssUpdateConfig
        <5> QED BY <2>0, <5>1 DEF ModemTypes
      <4>2. CASE r.do # "config"
        BY <1>2, <3>1, <4>2 DEF Parts
      <4> QED BY <4>1, <4>2
    <3> QED BY <2>0, <3>2 DEF ModemTypes
  <2> QED BY <2>0, <2>2, <2>3 DEF ModemTypes
<1>7. failed' \in BOOLEAN
  BY <1>2 DEF Types, FlagTypes
<1>8. FlagTypes'
  BY <1>1, <1>7 DEF Types, FlagTypes, sessions
<1>9. SessionTypes' /\ PendingTypes' /\ ConfTypes' /\ ClientTypes' /\ AnswerTypes'
  BY <1>1, SameTypes DEF sessions, clientVars
<1> QED BY <1>3, <1>5, <1>6, <1>8, <1>9 DEF Types

\* The modem dies, and comes back.
LEMMA ModemTypesKept ==
    ASSUME Types, ModemDies \/ ModemRises
    PROVE  Types'
<1>1. UNCHANGED <<clientVars, api, sessions, configuration, unanswered>>
  BY DEF ModemDies, ModemRises
<1>2. SessionTypes' /\ PendingTypes' /\ ConfTypes' /\ AnswerTypes' /\ RequestsOK(api')
  BY <1>1, SameTypes DEF sessions, clientVars
<1>3. CASE ModemDies
  <2>1. restarts < MaxRestarts /\ restarts' = restarts + 1 /\ modem' = Silent
        /\ UNCHANGED <<queue, failed, calls, use, live, started>>
    BY <1>3 DEF ModemDies, clientVars
  <2>2. ModemTypes'
    BY <2>1 DEF ModemTypes, Silent
  <2>3. ClientTypes'
    BY <2>1, ConstantsAssumption DEF Types, ClientTypes
  <2>4. FlagTypes' /\ QueueTypes'
    BY <1>1, <2>1, SameTypes DEF sessions
  <2> QED BY <1>2, <2>2, <2>3, <2>4 DEF Types
<1>4. CASE ModemRises
  <2>1. /\ ~modem.up /\ modem' = [modem EXCEPT !.up = TRUE]
        /\ queue' = Append(queue, [op |-> "engineUp"])
        /\ failed' = (failed /\ (api # <<>> \/ queue # <<>>)) /\ restarts' = restarts
    BY <1>4 DEF ModemRises
  <2>2. ModemTypes'
    <3>1. modem = [up |-> modem.up, fix |-> modem.fix, distance |-> modem.distance,
                   lock |-> modem.lock, version |-> modem.version, blacklist |-> modem.blacklist]
      BY DEF Types, ModemTypes
    <3>2. modem' = [up |-> TRUE, fix |-> modem.fix, distance |-> modem.distance,
                    lock |-> modem.lock, version |-> modem.version, blacklist |-> modem.blacklist]
      BY <2>1, <3>1
    <3> QED BY <3>2 DEF ModemTypes
  <2>3. ClientTypes'
    BY <1>1, <2>1, SameTypes
  <2>4. FlagTypes'
    <3>1. failed' \in BOOLEAN
      BY <2>1 DEF Types, FlagTypes
    <3> QED BY <1>1, <3>1 DEF Types, FlagTypes, sessions
  <2>5. QueueTypes'
    <3>1. MessageOK([op |-> "engineUp"], calls)
      BY DEF MessageOK
    <3>2. QueueTypes /\ calls \in Nat /\ calls' = calls
      BY <1>1, CallsAre DEF Types, clientVars
    <3> QED BY <2>1, <3>1, <3>2, Enqueued
  <2> QED BY <1>2, <2>2, <2>3, <2>4, <2>5 DEF Types
<1> QED BY <1>3, <1>4

\* A command is posted.
LEMMA PostTypes ==
    ASSUME Types, NEW op, NEW m, Post(op, m), MessageOK(m, calls + 1)
    PROVE  /\ SessionTypes' /\ QueueTypes' /\ PendingTypes' /\ RequestsOK(api') /\ ConfTypes'
           /\ FlagTypes' /\ ModemTypes' /\ use' = use /\ restarts' = restarts
           /\ calls' = calls + 1 /\ calls \in Nat /\ calls' \in 0..MaxCalls[use]
           /\ calls' \in Ids
<1>1. /\ calls < MaxCalls[use] /\ calls' = calls + 1 /\ queue' = Append(queue, m)
      /\ UNCHANGED <<use, api, modem, restarts, sessions, configuration, mBlacklistedSvIds,
                     failed>>
  BY DEF Post, Id
<1>2. calls \in Nat /\ MaxCalls[use] \in Nat /\ use \in Uses
  BY CallsAre
<1>3. QueueTypes'
  BY <1>1, <1>2, Enqueued DEF Types
<1>4. ConfTypes'
  <2>1. 0..calls \subseteq 0..calls'
    BY <1>1, <1>2
  <2> QED BY <1>1, <2>1 DEF Types, ConfTypes, configuration
<1>5. SessionTypes' /\ PendingTypes' /\ RequestsOK(api') /\ FlagTypes' /\ ModemTypes'
  BY <1>1, SameTypes DEF sessions
<1>6. calls' \in 1..MaxCalls[use]
  BY <1>1, <1>2
<1>7. calls' \in Ids
  BY <1>2, <1>6 DEF Ids
<1>8. calls' \in 0..MaxCalls[use]
  BY <1>1, <1>2
<1> QED BY <1>1, <1>2, <1>3, <1>4, <1>5, <1>7, <1>8

\* A command of a session is expected to be answered.
LEMMA ExpectTypes ==
    ASSUME Types, NEW key \in Keys, Expect(key)
    PROVE  AnswerTypes' /\ unanswered' = [unanswered EXCEPT ![key] = unanswered[key] + 1]
BY DEF Types, AnswerTypes, Expect

\* The clients post a command.
LEMMA CommandTypes ==
    ASSUME Types, Command
    PROVE  Types'
<1>0. /\ calls \in Nat /\ live \subseteq Clients /\ started \subseteq live \X (1..calls)
      /\ started \subseteq Keys
  <2>1. TypeOK
    BY TypesGive
  <2> QED BY <2>1, CallsAre DEF Types, ClientTypes, TypeOK
<1>1. ASSUME NEW op, NEW m, Post(op, m), MessageOK(m, calls + 1), live' \subseteq live,
             started' \subseteq live' \X (1..(calls + 1)), AnswerTypes'
      PROVE  Types'
  <2>1. ClientTypes'
    BY <1>1, PostTypes DEF Types, ClientTypes
  <2> QED BY <1>1, <2>1, PostTypes DEF Types
<1>2. UNCHANGED unanswered => AnswerTypes'
  BY SameTypes
<1>3. started \subseteq live \X (1..(calls + 1))
  <2>1. 1..calls \subseteq 1..(calls + 1)
    BY <1>0
  <2> QED BY <1>0, <2>1
<1>5. CASE startTrackingCommand
  <2>1. PICK c \in live, o \in OptionSet :
          /\ Post("start", [op |-> "start", key |-> <<c, Id>>, options |-> o])
          /\ started' = started \cup {<<c, Id>>} /\ Expect(<<c, Id>>) /\ UNCHANGED live
    BY <1>5 DEF startTrackingCommand
  <2> DEFINE key == <<c, Id>>
             m == [op |-> "start", key |-> key, options |-> o]
  <2>2. key \in Keys
    <3>1. Id \in Ids
      <4>1. calls < MaxCalls[use] /\ MaxCalls[use] \in Nat /\ use \in Uses
        BY <2>1, CallsAre DEF Post
      <4>2. Id \in 1..MaxCalls[use]
        BY <1>0, <4>1 DEF Id
      <4> QED BY <4>1, <4>2 DEF Ids
    <3> QED BY <1>0, <3>1 DEF Keys
  <2>3. MessageOK(m, calls + 1)
    BY <2>2 DEF MessageOK
  <2>4. started' \subseteq live' \X (1..(calls + 1))
    <3>1. <<c, Id>> \in live \X (1..(calls + 1))
      BY <1>0 DEF Id
    <3> QED BY <1>3, <2>1, <3>1
  <2>5. AnswerTypes'
    BY <2>1, <2>2, ExpectTypes
  <2> QED BY <1>1, <2>1, <2>3, <2>4, <2>5
<1>6. CASE updateTrackingOptionsCommand
  <2>1. PICK key \in started, o \in OptionSet :
          /\ Post("update", [op |-> "update", key |-> key, options |-> o])
          /\ Expect(key) /\ UNCHANGED <<live, started>>
    BY <1>6 DEF updateTrackingOptionsCommand
  <2>2. MessageOK([op |-> "update", key |-> key, options |-> o], calls + 1)
    BY <1>0 DEF MessageOK
  <2>3. AnswerTypes'
    BY <1>0, <2>1, ExpectTypes
  <2> QED BY <1>1, <1>3, <2>1, <2>2, <2>3
<1>7. CASE stopTrackingCommand
  <2>1. PICK key \in started :
          /\ Post("stop", [op |-> "stop", key |-> key])
          /\ started' = started \ {key} /\ Expect(key) /\ UNCHANGED live
    BY <1>7 DEF stopTrackingCommand
  <2>2. MessageOK([op |-> "stop", key |-> key], calls + 1)
    BY <1>0 DEF MessageOK
  <2>3. AnswerTypes'
    BY <1>0, <2>1, ExpectTypes
  <2> QED BY <1>1, <1>3, <2>1, <2>2, <2>3
<1>8. CASE removeClientCommand
  <2>1. PICK c \in live :
          /\ Post("remove", [op |-> "remove", client |-> c])
          /\ live' = live \ {c} /\ started' = {key \in started : key[1] # c}
          /\ UNCHANGED unanswered
    BY <1>8 DEF removeClientCommand
  <2>2. MessageOK([op |-> "remove", client |-> c], calls + 1)
    BY DEF MessageOK
  <2>3. started' \subseteq live' \X (1..(calls + 1))
    BY <1>3, <2>1
  <2> QED BY <1>1, <1>2, <2>1, <2>2, <2>3
<1>9. CASE addClientCommand
  <2>1. PICK c \in live, tracks \in BOOLEAN :
          /\ Post("add", [op |-> "add", client |-> c, tracks |-> tracks])
          /\ UNCHANGED <<live, started, unanswered>>
    BY <1>9 DEF addClientCommand
  <2>2. MessageOK([op |-> "add", client |-> c, tracks |-> tracks], calls + 1)
    BY DEF MessageOK
  <2> QED BY <1>1, <1>2, <1>3, <2>1, <2>2
<1>10. CASE enableCommand
  <2>1. /\ Post("enable", [op |-> "enable", id |-> Id])
        /\ UNCHANGED <<live, started, unanswered>>
    BY <1>10 DEF enableCommand
  <2>2. MessageOK([op |-> "enable", id |-> Id], calls + 1)
    BY <1>0 DEF MessageOK, Id
  <2> QED BY <1>1, <1>2, <1>3, <2>1, <2>2
<1>11. CASE disableCommand
  <2>1. PICK id \in 1..calls :
          /\ Post("disable", [op |-> "disable", id |-> id])
          /\ UNCHANGED <<live, started, unanswered>>
    BY <1>11 DEF disableCommand
  <2>2. MessageOK([op |-> "disable", id |-> id], calls + 1)
    BY <1>0 DEF MessageOK
  <2> QED BY <1>1, <1>2, <1>3, <2>1, <2>2
<1>12. CASE gnssUpdateConfigCommand
  <2>1. PICK config \in ConfigSet :
          /\ Post("config", [op |-> "config", config |-> config])
          /\ UNCHANGED <<live, started, unanswered>>
    BY <1>12 DEF gnssUpdateConfigCommand
  <2>2. MessageOK([op |-> "config", config |-> config], calls + 1)
    BY DEF MessageOK
  <2> QED BY <1>1, <1>2, <1>3, <2>1, <2>2
<1> QED BY <1>5, <1>6, <1>7, <1>8, <1>9, <1>10, <1>11, <1>12 DEF Command

\* Types are an invariant.
LEMMA TypesNext == ASSUME Types, [Next]_vars PROVE Types'
<1>1. CASE UNCHANGED vars
  BY <1>1 DEF vars, clientVars, sessions, configuration, Types, SessionTypes, QueueTypes,
              PendingTypes, ConfTypes, ClientTypes, FlagTypes, ModemTypes, AnswerTypes
<1> QED BY <1>1, HandleMsgTypes, LocApiTypes, ModemTypesKept, CommandTypes DEF Next

\* Types are an invariant of the specification.
THEOREM AllTypes == Spec => []Types
<1>1. Types /\ [Next]_vars => Types'
  BY TypesNext
<1> QED BY <1>1, TypesInit, PTL DEF Spec

\* Types and their bounds (TypeOK): whatever the clients ask for and however often the modem
\* restarts, every session is recorded with options of its kind, and a session that has
\* a distance is only pending while the capabilities are not known.
THEOREM TypesSafe == Spec => []TypeOK
BY AllTypes, TypesGive, PTL

-----------------------------------------------------------------------------
(* Answers: what is under way about a session, and what its client expects.  *)

Waited == Commands \cup (Conts \ {"erase"})

\* How many messages and requests are about a session, of some kinds.
About(l, kinds) == UnderWay({l} \X kinds)

Registered(c) == c \in DOMAIN mClientData

\* Clients come before they go.
Comings ==
    /\ \A c \in live : Registered(c)
    /\ \A m \in Range(queue) : m.op = "remove" => m.client \notin live
    /\ \A i, j \in DOMAIN queue : i < j /\ queue[i].op = "remove" /\ queue[j].op = "add"
                                    => queue[i].client # queue[j].client
    /\ \A m \in Range(queue) : m.op = "add" => Registered(m.client)
    /\ "add" \notin use => /\ \A m \in Range(queue) : m.op # "add"
                           /\ \A c \in DOMAIN mClientData : mClientData[c] = TRUE

\* Before the engine's capabilities are known.
Boots ==
    /\ ~known => /\ DOMAIN distanceBased = {}
                 /\ \A l \in Keys : About(l, {"restart", "restarted"}) = 0
                 /\ ~modem.up \/ \E m \in Range(queue) : m.op = "engineUp"
    /\ restarts = 0 /\ (known \/ \E m \in Range(queue) : m.op = "engineUp") => modem.up

\* No response of a modem that failed nothing is a failure.
Succeeded == ~failed => \A m \in Range(queue) : m.op = "response" => m.ok = TRUE

Owed ==
    /\ \A l \in Keys : unanswered[l] >= 0
    /\ \A l \in Keys : Registered(l[1]) => About(l, Waited) <= unanswered[l]
    /\ \A l \in Keys :
         restarts = 0 /\ "add" \notin use /\ l[1] \in live /\ (~failed \/ ~known)
         => About(l, Waited) = unanswered[l]

Books == Comings /\ Boots /\ Succeeded /\ Owed

\* A sequence is its head and its tail.
LEMMA HeadTail ==
    ASSUME NEW q, Sq(q), q # <<>>
    PROVE  Range(q) = Range(Tail(q)) \cup {Head(q)}
<1>1. /\ Len(q) \in Nat \ {0} /\ DOMAIN Tail(q) = 1..(Len(q) - 1)
      /\ \A j \in 1..(Len(q) - 1) : Tail(q)[j] = q[j + 1]
      /\ Head(q) = q[1] /\ DOMAIN q = 1..Len(q)
  BY SqTail, SqOf
<1>2. Range(q) \subseteq Range(Tail(q)) \cup {Head(q)}
  <2> SUFFICES ASSUME NEW j \in DOMAIN q, j # 1 PROVE q[j] \in Range(Tail(q))
    BY <1>1 DEF Range
  <2>1. j - 1 \in DOMAIN Tail(q) /\ Tail(q)[j - 1] = q[j]
    BY <1>1
  <2> QED BY <2>1 DEF Range
<1> QED BY <1>2, RangeIs

\* Which requests are about a session.
LEMMA RTagIs ==
    ASSUME NEW r
    PROVE  /\ r.then.cont \in Conts => RTag(r) = <<r.then.key, r.then.cont>>
           /\ r.then = NoThen => RTag(r) = <<"none", "none">>
<1>1. NoThen.cont = "none" /\ "none" \notin Conts
  BY DEF NoThen, Conts
<1> QED BY <1>1 DEF RTag

\* Whether a tag is of a session and a kind.
LEMMA CountIn ==
    ASSUME NEW l, NEW K, K \subseteq Commands \cup Conts
    PROVE  /\ Count(<<"none", "none">>, {l} \X K) = 0
           /\ \A k, c : Count(<<k, c>>, {l} \X K) = IF k = l /\ c \in K THEN 1 ELSE 0
<1>1. "none" \notin K
  BY DEF Commands, Conts
<1>2. \A k, c : <<k, c>> \in {l} \X K <=> k = l /\ c \in K
  OBVIOUS
<1> QED BY <1>1, <1>2 DEF Count

\* What is under way is a number.
LEMMA WayIs ==
    ASSUME Types, NEW S
    PROVE  /\ UnderWay(S) \in Nat /\ N(MTags(queue), S) \in Nat
           /\ N(MTags(mPendingMsgs), S) \in Nat /\ N(RTags(api), S) \in Nat
           /\ UnderWay(S) = N(MTags(queue), S) + N(MTags(mPendingMsgs), S) + N(RTags(api), S)
<1>1. Sq(queue) /\ Sq(mPendingMsgs) /\ Sq(api)
  BY DEF Types, QueueTypes, PendingTypes, RequestsOK
<1>2. /\ N(MTags(queue), S) \in Nat /\ N(MTags(mPendingMsgs), S) \in Nat
      /\ N(RTags(api), S) \in Nat
  BY <1>1, TagsCount
<1> QED BY <1>2 DEF UnderWay, Way

-----------------------------------------------------------------------------
(* How what is under way changes.                                            *)

\* A message that waits for nothing is handled: it goes, and its requests come.
LEMMA HandledFlow ==
    ASSUME Types, queue # <<>>, NEW q, Sq(q), NEW S,
           Head(queue).op # "engineUp", queue' = Tail(queue) \o Resent(Head(queue)),
           api' = api \o q, UNCHANGED mPendingMsgs
    PROVE  UnderWay(S)' = UnderWay(S) - Count(MTag(Head(queue)), S) + N(RTags(q), S)
<1> DEFINE c == Count(MTag(Head(queue)), S)
           t == Tail(queue)
           e == Resent(Head(queue))
<1>1. Sq(queue) /\ Sq(mPendingMsgs) /\ Sq(api) /\ Sq(t) /\ Sq(e)
  BY SqTail, HeadOK DEF Types, QueueTypes, PendingTypes, RequestsOK
<1>2. queue' = t \o e
  BY DEF Resent
<1>3. /\ N(MTags(t), S) = N(MTags(queue), S) - c
      /\ N(MTags(queue), S) \in Nat /\ N(MTags(t), S) \in Nat
  BY <1>1, TagsCount
<1>4. N(MTags(t \o e), S) = N(MTags(t), S) + N(MTags(e), S) /\ N(MTags(e), S) = 0
  BY <1>1, TagsCount DEF Resent
<1>5. N(RTags(api \o q), S) = N(RTags(api), S) + N(RTags(q), S)
      /\ N(RTags(api), S) \in Nat /\ N(RTags(q), S) \in Nat
  BY <1>1, TagsCount
<1>6. N(MTags(mPendingMsgs), S) \in Nat /\ c \in Nat
  BY <1>1, TagsCount DEF Count
<1> HIDE DEF c, t, e
<1>7. UnderWay(S)' = N(MTags(queue'), S) + N(MTags(mPendingMsgs'), S) + N(RTags(api'), S)
  BY DEF UnderWay, Way
<1>8. N(MTags(queue'), S) = N(MTags(t \o e), S)
  BY <1>2
<1>12. N(MTags(t \o e), S) = N(MTags(queue), S) - c
  BY <1>3, <1>4
<1>9. N(RTags(api'), S) = N(RTags(api), S) + N(RTags(q), S)
  BY <1>5
<1>10. UnderWay(S) = N(MTags(queue), S) + N(MTags(mPendingMsgs), S) + N(RTags(api), S)
  BY DEF UnderWay, Way
<1>11. UnderWay(S)' = UnderWay(S) - c + N(RTags(q), S)
  BY <1>3, <1>5, <1>6, <1>7, <1>8, <1>9, <1>10, <1>12
<1> QED BY <1>11 DEF c

\* The capabilities are known: what waited is in the queue.
LEMMA EngineUpFlow ==
    ASSUME Types, queue # <<>>, NEW q, Sq(q), NEW S,
           Head(queue).op = "engineUp", queue' = Tail(queue) \o Resent(Head(queue)),
           api' = api \o q, mPendingMsgs' = <<>>
    PROVE  UnderWay(S)' = UnderWay(S) - Count(MTag(Head(queue)), S) + N(RTags(q), S)
<1> DEFINE c == Count(MTag(Head(queue)), S)
           t == Tail(queue)
<1>1. Sq(queue) /\ Sq(mPendingMsgs) /\ Sq(api) /\ Sq(t)
  BY SqTail DEF Types, QueueTypes, PendingTypes, RequestsOK
<1>2. queue' = t \o mPendingMsgs
  BY DEF Resent
<1>3. /\ N(MTags(t), S) = N(MTags(queue), S) - c
      /\ N(MTags(queue), S) \in Nat /\ N(MTags(t), S) \in Nat
  BY <1>1, TagsCount
<1>4. N(MTags(t \o mPendingMsgs), S) = N(MTags(t), S) + N(MTags(mPendingMsgs), S)
      /\ N(MTags(<<>>), S) = 0
  BY <1>1, TagsCount
<1>5. N(RTags(api \o q), S) = N(RTags(api), S) + N(RTags(q), S)
      /\ N(RTags(api), S) \in Nat /\ N(RTags(q), S) \in Nat
  BY <1>1, TagsCount
<1>6. N(MTags(mPendingMsgs), S) \in Nat /\ c \in Nat
  BY <1>1, TagsCount DEF Count
<1> HIDE DEF c, t
<1>7. UnderWay(S)' = N(MTags(queue'), S) + N(MTags(mPendingMsgs'), S) + N(RTags(api'), S)
  BY DEF UnderWay, Way
<1>8. N(MTags(queue'), S) = N(MTags(queue), S) - c + N(MTags(mPendingMsgs), S)
      /\ N(MTags(mPendingMsgs'), S) = 0
  BY <1>2, <1>3, <1>4
<1>9. N(RTags(api'), S) = N(RTags(api), S) + N(RTags(q), S)
  BY <1>5
<1>10. UnderWay(S) = N(MTags(queue), S) + N(MTags(mPendingMsgs), S) + N(RTags(api), S)
  BY DEF UnderWay, Way
<1>11. UnderWay(S)' = UnderWay(S) - c + N(RTags(q), S)
  BY <1>3, <1>5, <1>6, <1>7, <1>8, <1>9, <1>10
<1> QED BY <1>11 DEF c

\* A command waits for the capabilities.
LEMMA PendFlow ==
    ASSUME Types, queue # <<>>, NEW S, Head(queue).op # "engineUp",
           queue' = Tail(queue) \o Resent(Head(queue)), Pend(Head(queue))
    PROVE  UnderWay(S)' = UnderWay(S)
<1> DEFINE c == Count(MTag(Head(queue)), S)
           t == Tail(queue)
           e == Resent(Head(queue))
           p == Append(mPendingMsgs, Head(queue))
<1>1. Sq(queue) /\ Sq(mPendingMsgs) /\ Sq(api) /\ Sq(t) /\ Sq(e)
  BY SqTail, HeadOK DEF Types, QueueTypes, PendingTypes, RequestsOK
<1>2. queue' = t \o e /\ mPendingMsgs' = p /\ api' = api
  BY DEF Resent, Pend
<1>3. /\ N(MTags(t), S) = N(MTags(queue), S) - c
      /\ N(MTags(queue), S) \in Nat /\ N(MTags(t), S) \in Nat
  BY <1>1, TagsCount
<1>4. N(MTags(t \o e), S) = N(MTags(t), S) + N(MTags(e), S) /\ N(MTags(e), S) = 0
  BY <1>1, TagsCount DEF Resent
<1>5. N(MTags(p), S) = N(MTags(mPendingMsgs), S) + c
  BY <1>1, TagsCount
<1>6. N(MTags(mPendingMsgs), S) \in Nat /\ c \in Nat /\ N(RTags(api), S) \in Nat
  BY <1>1, TagsCount DEF Count
<1> HIDE DEF c, t, e, p
<1>7. UnderWay(S)' = N(MTags(queue'), S) + N(MTags(mPendingMsgs'), S) + N(RTags(api'), S)
  BY DEF UnderWay, Way
<1>8. N(MTags(queue'), S) = N(MTags(t \o e), S) /\ N(MTags(mPendingMsgs'), S) = N(MTags(p), S)
      /\ N(RTags(api'), S) = N(RTags(api), S)
  BY <1>2
<1>9. N(MTags(t \o e), S) = N(MTags(queue), S) - c
  BY <1>3, <1>4
<1>10. UnderWay(S) = N(MTags(queue), S) + N(MTags(mPendingMsgs), S) + N(RTags(api), S)
  BY DEF UnderWay, Way
<1> QED BY <1>3, <1>5, <1>6, <1>7, <1>8, <1>9, <1>10

\* A message is posted.
LEMMA PostFlow ==
    ASSUME Types, NEW m, NEW S, queue' = Append(queue, m), UNCHANGED <<api, mPendingMsgs>>
    PROVE  UnderWay(S)' = UnderWay(S) + Count(MTag(m), S)
<1> DEFINE c == Count(MTag(m), S)
<1>1. Sq(queue)
  BY DEF Types, QueueTypes
<1>2. N(MTags(Append(queue, m)), S) = N(MTags(queue), S) + c /\ c \in Nat
  BY <1>1, TagsCount DEF Count
<1> HIDE DEF c
<1>3. UnderWay(S)' = N(MTags(queue'), S) + N(MTags(mPendingMsgs'), S) + N(RTags(api'), S)
  BY DEF UnderWay, Way
<1>4. N(MTags(queue'), S) = N(MTags(queue), S) + c
      /\ N(MTags(mPendingMsgs'), S) = N(MTags(mPendingMsgs), S)
      /\ N(RTags(api'), S) = N(RTags(api), S)
  BY <1>2
<1>5. UnderWay(S)' = UnderWay(S) + c
  BY <1>2, <1>3, <1>4, WayIs
<1> QED BY <1>5 DEF c

\* A request is performed: its response is under way in its place.
LEMMA LocApiFlow ==
    ASSUME Types, LocApiStep, NEW l, NEW K, K \subseteq Commands \cup Conts
    PROVE  About(l, K)' = About(l, K)
<1> DEFINE S == {l} \X K
           r == Head(api)
           c == Count(RTag(r), S)
<1>1. Sq(queue) /\ Sq(mPendingMsgs) /\ Sq(api)
  BY DEF Types, QueueTypes, PendingTypes, RequestsOK
<1>2. api # <<>> /\ api' = Tail(api) /\ mPendingMsgs' = mPendingMsgs
  BY DEF LocApiStep, sessions
<1>3. \/ r.then = NoThen /\ queue' = queue
      \/ r.then # NoThen /\ \E ok : queue' = Append(queue, [op |-> "response", then |-> r.then, ok |-> ok])
  BY DEF LocApiStep
<1>4. N(RTags(Tail(api)), S) = N(RTags(api), S) - c /\ c \in Nat
  BY <1>1, <1>2, TagsCount DEF Count
<1>5. N(MTags(queue'), S) = N(MTags(queue), S) + c
  <2>1. CASE r.then = NoThen /\ queue' = queue
    <3>1. RTag(r) = <<"none", "none">>
      BY <2>1, RTagIs
    <3>2. c = Count(<<"none", "none">>, {l} \X K)
      BY <3>1
    <3>3. c = 0
      BY <3>2, CountIn
    <3> QED BY <2>1, <3>3, WayIs
  <2>2. ASSUME NEW ok, r.then # NoThen,
               queue' = Append(queue, [op |-> "response", then |-> r.then, ok |-> ok])
        PROVE  N(MTags(queue'), S) = N(MTags(queue), S) + c
    <3> DEFINE m == [op |-> "response", then |-> r.then, ok |-> ok]
    <3>1. m.op = "response" /\ m.then = r.then /\ m.op \notin Commands
      BY DEF Commands
    <3>2. queue' = Append(queue, m)
      BY <2>2
    <3> HIDE DEF m
    <3>3. MTag(m) = RTag(r)
      BY <2>2, <3>1 DEF MTag, RTag
    <3>4. N(MTags(Append(queue, m)), S) = N(MTags(queue), S) + Count(MTag(m), S)
      BY <1>1, TagsCount
    <3> QED BY <3>2, <3>3, <3>4
  <2> QED BY <1>3, <2>1, <2>2
<1> HIDE DEF c, r, S
<1>6. UnderWay(S)' = N(MTags(queue'), S) + N(MTags(mPendingMsgs'), S) + N(RTags(api'), S)
  BY DEF UnderWay, Way, S
<1>7. N(RTags(api'), S) = N(RTags(api), S) - c /\ N(MTags(mPendingMsgs'), S) = N(MTags(mPendingMsgs), S)
  BY <1>2, <1>4
<1>8. UnderWay(S)' = UnderWay(S)
  BY <1>4, <1>5, <1>6, <1>7, WayIs
<1> QED BY <1>8 DEF About, S

-----------------------------------------------------------------------------
(* What a handler asks of the modem, or answers, of each session.            *)

\* The requests about a session that will be answered, and its answers.
Balance(g, l) == N(RTags(g.requests), {l} \X Waited) + N(g.answers, {l})
One(is) == IF is THEN 1 ELSE 0

\* Nothing, one request or one answer.
LEMMA Balances ==
    ASSUME NEW g, NEW T, NEW D, NEW q, NEW a, Makes(g, T, D, q, a), NEW l
    PROVE  /\ q = <<>> /\ a = <<>> => Balance(g, l) = 0
           /\ \A k : q = <<>> /\ a = <<k>> => Balance(g, l) = One(k = l)
           /\ \A r : q = <<r>> /\ a = <<>> /\ r.then.cont \in Conts
                     => Balance(g, l) = One(r.then.key = l /\ r.then.cont # "erase")
<1> DEFINE S == {l} \X Waited
<1>1. g.requests = q /\ g.answers = a
  BY DEF Makes
<1>2. N(RTags(<<>>), S) = 0 /\ N(<<>>, {l}) = 0
  BY SqEmpty, TagsCount, CountEmpty
<1>3. \A k : N(<<k>>, {l}) = One(k = l)
  <2> TAKE k
  <2>1. N(<<k>>, {l}) = IF k \in {l} THEN 1 ELSE 0
    BY CountOne
  <2> QED BY <2>1 DEF One
<1>4. ASSUME NEW r, r.then.cont \in Conts
      PROVE  N(RTags(<<r>>), S) = One(r.then.key = l /\ r.then.cont # "erase")
  <2>1. N(RTags(<<r>>), S) = Count(RTag(r), S)
    BY TagsOne
  <2>2. RTag(r) = <<r.then.key, r.then.cont>>
    BY <1>4, RTagIs
  <2>3. Waited \subseteq Commands \cup Conts /\ (r.then.cont \in Waited <=> r.then.cont # "erase")
    BY <1>4 DEF Waited, Commands, Conts
  <2>4. \A k, c : Count(<<k, c>>, {l} \X Waited) = IF k = l /\ c \in Waited THEN 1 ELSE 0
    BY <2>3, CountIn
  <2>6. Count(RTag(r), S) = Count(<<r.then.key, r.then.cont>>, {l} \X Waited)
    BY <2>2
  <2>5. Count(<<r.then.key, r.then.cont>>, {l} \X Waited)
          = IF r.then.key = l /\ r.then.cont \in Waited THEN 1 ELSE 0
    BY <2>4
  <2> QED BY <2>1, <2>3, <2>5, <2>6 DEF One
<1> HIDE DEF S
<1>5. Balance(g, l) = N(RTags(q), S) + N(a, {l})
  BY <1>1 DEF Balance, S
<1>6. q = <<>> /\ a = <<>> => Balance(g, l) = 0
  BY <1>2, <1>5
<1>7. ASSUME NEW k, q = <<>>, a = <<k>> PROVE Balance(g, l) = One(k = l)
  BY <1>2, <1>3, <1>5, <1>7 DEF One
<1>8. ASSUME NEW r, q = <<r>>, a = <<>>, r.then.cont \in Conts
      PROVE  Balance(g, l) = One(r.then.key = l /\ r.then.cont # "erase")
  <2>1. N(RTags(<<r>>), S) = One(r.then.key = l /\ r.then.cont # "erase")
    BY <1>4, <1>8
  <2>2. Balance(g, l) = N(RTags(<<r>>), S) + N(<<>>, {l})
    BY <1>5, <1>8
  <2> QED BY <1>2, <2>1, <2>2 DEF One
<1> QED BY <1>6, <1>7, <1>8

\* Starting, changing or stopping a time-based session: it is answered, or will be.
LEMMA StepBalance ==
    ASSUME TimeOK(timeBased), DistanceOK(distanceBased), NEW g, NEW key, NEW conts, NEW T2,
           TimeStep(Handling, g, key, conts, T2), conts \subseteq Conts \ {"erase"}, NEW l
    PROVE  Balance(g, l) = One(key = l)
<1>1. Handling.requests = <<>> /\ Handling.answers = <<>>
  BY HandlingIs
<1>2. CASE \E r : /\ g.requests = Append(<<>>, r) /\ g.answers = <<>>
                  /\ r.then.cont \in conts /\ r.then.key = key
  <2>1. PICK r : /\ g.requests = Append(<<>>, r) /\ g.answers = <<>>
                 /\ r.then.cont \in conts /\ r.then.key = key
    BY <1>2
  <2>2. Append(<<>>, r) = <<r>>
    BY Appends
  <2>3. Makes(g, g.time, g.distance, <<r>>, <<>>)
    BY <2>1, <2>2 DEF Makes, TimeStep
  <2>4. r.then.cont \in Conts /\ r.then.cont # "erase"
    BY <2>1
  <2>5. \A q, a : Makes(g, g.time, g.distance, q, a)
          => \A rr : q = <<rr>> /\ a = <<>> /\ rr.then.cont \in Conts
                     => Balance(g, l) = One(rr.then.key = l /\ rr.then.cont # "erase")
    BY Balances
  <2>6. Balance(g, l) = One(r.then.key = l /\ r.then.cont # "erase")
    BY <2>3, <2>4, <2>5
  <2> QED BY <2>1, <2>4, <2>6 DEF One
<1>3. CASE g.requests = <<>> /\ g.answers = Append(<<>>, key)
  <2>2. Append(<<>>, key) = <<key>>
    BY Appends
  <2>3. Makes(g, g.time, g.distance, <<>>, <<key>>)
    BY <1>3, <2>2 DEF Makes, TimeStep
  <2>5. \A q, a : Makes(g, g.time, g.distance, q, a)
          => \A k : q = <<>> /\ a = <<k>> => Balance(g, l) = One(k = l)
    BY Balances
  <2> QED BY <2>3, <2>5
<1> QED BY <1>1, <1>2, <1>3 DEF TimeStep

\* What a handler asks for and answers, when that is one thing at most.
LEMMA MadeBalance ==
    ASSUME NEW g, NEW l, NEW T, NEW D
    PROVE  /\ Makes(g, T, D, <<>>, <<>>) => Balance(g, l) = 0
           /\ \A k : Makes(g, T, D, <<>>, <<k>>) => Balance(g, l) = One(k = l)
           /\ \A r : Makes(g, T, D, <<r>>, <<>>) /\ r.then.cont \in Conts
                     => Balance(g, l) = One(r.then.key = l /\ r.then.cont # "erase")
<1>1. \A q, a : Makes(g, T, D, q, a)
        => /\ q = <<>> /\ a = <<>> => Balance(g, l) = 0
           /\ \A k : q = <<>> /\ a = <<k>> => Balance(g, l) = One(k = l)
           /\ \A r : q = <<r>> /\ a = <<>> /\ r.then.cont \in Conts
                     => Balance(g, l) = One(r.then.key = l /\ r.then.cont # "erase")
  BY Balances
<1>2. Makes(g, T, D, <<>>, <<>>) => Balance(g, l) = 0
  BY <1>1
<1>3. ASSUME NEW k, Makes(g, T, D, <<>>, <<k>>) PROVE Balance(g, l) = One(k = l)
  BY <1>1, <1>3
<1>4. ASSUME NEW r, Makes(g, T, D, <<r>>, <<>>), r.then.cont \in Conts
      PROVE  Balance(g, l) = One(r.then.key = l /\ r.then.cont # "erase")
  BY <1>1, <1>4
<1> QED BY <1>2, <1>3, <1>4

\* What is asked and answered for a request that is of a kind.
LEMMA AskedBalance ==
    ASSUME NEW g, NEW l, NEW T, NEW D, NEW r, Makes(g, T, D, <<r>>, <<>>), NEW key, NEW cont, NEW o,
           r.then = Then(cont, key, o), cont \in Conts \ {"erase"}
    PROVE  Balance(g, l) = One(key = l)
<1>1. r.then.cont = cont /\ r.then.key = key
  BY DEF Then
<1>2. Balance(g, l) = One(r.then.key = l /\ r.then.cont # "erase")
  BY <1>1, MadeBalance
<1> QED BY <1>1, <1>2 DEF One

\* The requests of distance-based sessions.
LEMMA DistanceThen ==
    ASSUME NEW key, NEW o, NEW t
    PROVE  /\ startDistance(key, o, t).then = t /\ stopDistance(key, t).then = t
           /\ startDistance(key, o, t).do = "startDistance" /\ startDistance(key, o, t).key = key
           /\ stopDistance(key, t).do = "stopDistance" /\ stopDistance(key, t).key = key
BY DEF startDistance, stopDistance

\* A request without a continuation changes nothing of it.
LEMMA SilentBalance ==
    ASSUME NEW g, NEW p, NEW r, r.then = NoThen, Sq(p.requests),
           g.requests = Append(p.requests, r), g.answers = p.answers, NEW l
    PROVE  Balance(g, l) = Balance(p, l)
<1> DEFINE S == {l} \X Waited
<1>1. Waited \subseteq Commands \cup Conts
  BY DEF Waited
<1>2. RTag(r) = <<"none", "none">>
  BY RTagIs
<1>3. Count(<<"none", "none">>, {l} \X Waited) = 0
  BY <1>1, CountIn
<1>4. N(RTags(Append(p.requests, r)), S) = N(RTags(p.requests), S) + Count(RTag(r), S)
      /\ N(RTags(p.requests), S) \in Nat
  BY TagsCount
<1>5. N(RTags(g.requests), S) = N(RTags(p.requests), S)
  BY <1>2, <1>3, <1>4
<1> QED BY <1>5 DEF Balance

\* A command is answered, or will be, but for the start of a client without callbacks.
LEMMA TrackBalance ==
    ASSUME Types, NEW m, MessageOK(m, calls), m.key \in Keys, NEW g, TrackMakes(g, m), NEW l
    PROVE  \/ Balance(g, l) = One(m.key = l)
           \/ /\ m.op = "start" /\ ~hasCallbacksToStartTracking(m.key[1])
              /\ Balance(g, l) = 0
<1> DEFINE key == m.key
           o == m.options
<1>1. TimeOK(timeBased) /\ DistanceOK(distanceBased)
  BY DEF Types, SessionTypes
<1>2. HandlingOK(Handling)
  BY <1>1, HandlingIs
<1>3. {"started"} \subseteq Conts \ {"erase"} /\ {"updated"} \subseteq Conts \ {"erase"}
      /\ {"started", "answer"} \subseteq Conts \ {"erase"}
      /\ "switch" \in Conts \ {"erase"} /\ "restart" \in Conts \ {"erase"}
      /\ "stopped" \in Conts \ {"erase"} /\ "started" \in Conts \ {"erase"}
  BY DEF Conts
<1>4. CASE m.op = "start" /\ StartMakes(g, key, o)
  <2>1. CASE ~hasCallbacksToStartTracking(key[1]) /\ Makes(g, timeBased, distanceBased, <<>>, <<>>)
    BY <1>4, <2>1, MadeBalance
  <2>2. CASE Makes(g, timeBased, With(distanceBased, key, Raised(o)),
                   <<startDistance(key, Raised(o), Started(key))>>, <<>>)
    <3>1. startDistance(key, Raised(o), Started(key)).then = Then("started", key, NoOptions)
      BY DistanceThen DEF Started
    <3> QED BY <1>3, <2>2, <3>1, AskedBalance
  <2>3. CASE TimeStep(Handling, g, key, {"started"}, With(timeBased, key, Normal(o)))
    BY <1>1, <1>3, <2>3, StepBalance
  <2> QED BY <1>4, <2>1, <2>2, <2>3 DEF StartMakes
<1>5. CASE UpdateMakes(g, key, o)
  <2>1. CASE Makes(g, timeBased, distanceBased, <<>>, <<key>>)
    BY <2>1, MadeBalance
  <2>2. ASSUME NEW p, TimeStep(Handling, p, key, {"started", "answer"}, Drop(timeBased, key)),
               Makes(g, Drop(timeBased, key), With(distanceBased, key, Normal(o)),
                     Append(p.requests, startDistance(key, Normal(o), NoThen)), p.answers),
               key \in DOMAIN timeBased
        PROVE  Balance(g, l) = One(m.key = l)
    <3> DEFINE r == startDistance(key, Normal(o), NoThen)
    <3>1. Balance(p, l) = One(key = l)
      BY <1>1, <1>3, <2>2, StepBalance
    <3>2. r.then = NoThen
      BY DistanceThen
    <3>3. Sq(p.requests)
      <4>1. TimeOK(Drop(timeBased, key))
        BY <1>1, MapsOK
      <4>2. HandlingOK(p)
        BY <1>2, <2>2, <4>1, TimeStepOK
      <4> QED BY <4>2 DEF HandlingOK, RequestsOK
    <3>4. g.requests = Append(p.requests, r) /\ g.answers = p.answers
      BY <2>2 DEF Makes
    <3> HIDE DEF r
    <3> QED BY <3>1, <3>2, <3>3, <3>4, SilentBalance
  <2>3. CASE TimeStep(Handling, g, key, {"updated"}, With(timeBased, key, Normal(o)))
    BY <1>1, <1>3, <2>3, StepBalance
  <2>4. CASE Makes(g, timeBased, Drop(distanceBased, key),
                   <<stopDistance(key, Then("switch", key, Normal(o)))>>, <<>>)
    <3>1. stopDistance(key, Then("switch", key, Normal(o))).then = Then("switch", key, Normal(o))
      BY DistanceThen
    <3> QED BY <1>3, <2>4, <3>1, AskedBalance
  <2>5. CASE Makes(g, timeBased, distanceBased,
                   <<stopDistance(key, Then("restart", key, Normal(o)))>>, <<>>)
    <3>1. stopDistance(key, Then("restart", key, Normal(o))).then = Then("restart", key, Normal(o))
      BY DistanceThen
    <3> QED BY <1>3, <2>5, <3>1, AskedBalance
  <2> QED BY <1>5, <2>1, <2>2, <2>3, <2>4, <2>5 DEF UpdateMakes
<1>6. CASE StopMakes(g, key)
  <2>1. CASE TimeStep(Handling, g, key, {"started", "answer"}, Drop(timeBased, key))
    BY <1>1, <1>3, <2>1, StepBalance
  <2>2. CASE Makes(g, timeBased, distanceBased,
                   <<stopDistance(key, Then("stopped", key, NoOptions))>>, <<>>)
    <3>1. stopDistance(key, Then("stopped", key, NoOptions)).then = Then("stopped", key, NoOptions)
      BY DistanceThen
    <3> QED BY <1>3, <2>2, <3>1, AskedBalance
  <2>3. CASE Makes(g, timeBased, distanceBased, <<>>, <<key>>)
    BY <2>3, MadeBalance
  <2> QED BY <1>6, <2>1, <2>2, <2>3 DEF StopMakes
<1> QED BY <1>4, <1>5, <1>6 DEF TrackMakes

\* A response is answered, or will be, but for a restart that failed; that a session is
\* to be erased is no client's affair.
LEMMA RespondBalance ==
    ASSUME Types, NEW then, ThenOK(then), then # NoThen, NEW ok \in BOOLEAN, NEW g,
           ContinueMakes(g, then, ok), NEW l
    PROVE  \/ Balance(g, l) = One(then.key = l /\ then.cont # "erase")
           \/ then.cont = "restart" /\ ~ok /\ Balance(g, l) = 0
<1> DEFINE key == then.key
           o == then.options
<1>1. TimeOK(timeBased) /\ DistanceOK(distanceBased)
  BY DEF Types, SessionTypes
<1>2. {"started"} \subseteq Conts \ {"erase"} /\ "restarted" \in Conts \ {"erase"}
  BY DEF Conts
<1>3. CASE then.cont # "erase" /\ \E T, D : Makes(g, T, D, <<>>, <<key>>)
  BY <1>3, MadeBalance DEF One
<1>4. CASE then.cont = "erase" /\ \E T, D : Makes(g, T, D, <<>>, <<>>)
  BY <1>4, MadeBalance DEF One
<1>5. CASE then.cont = "switch" /\ TimeStep(Handling, g, key, {"started"}, With(timeBased, key, o))
  <2>1. Balance(g, l) = One(key = l)
    BY <1>1, <1>2, <1>5, StepBalance
  <2> QED BY <1>5, <2>1 DEF One
<1>6. CASE /\ then.cont = "restart" /\ ok
           /\ Makes(g, timeBased, distanceBased,
                    <<startDistance(key, o, Then("restarted", key, o))>>, <<>>)
  <2>1. startDistance(key, o, Then("restarted", key, o)).then = Then("restarted", key, o)
    BY DistanceThen
  <2>2. Balance(g, l) = One(key = l)
    BY <1>2, <1>6, <2>1, AskedBalance
  <2> QED BY <1>6, <2>2 DEF One
<1>7. CASE then.cont = "restart" /\ ~ok /\ Kept(g, <<>>)
  BY <1>7, MadeBalance DEF Kept
<1>8. \/ then.cont # "erase" /\ \E T, D : Makes(g, T, D, <<>>, <<key>>)
      \/ then.cont = "erase" /\ \E T, D : Makes(g, T, D, <<>>, <<>>)
      \/ then.cont = "switch" /\ TimeStep(Handling, g, key, {"started"}, With(timeBased, key, o))
      \/ /\ then.cont = "restart" /\ ok
         /\ Makes(g, timeBased, distanceBased,
                  <<startDistance(key, o, Then("restarted", key, o))>>, <<>>)
      \/ then.cont = "restart" /\ ~ok /\ Kept(g, <<>>)
  <2>1. \A a : Kept(g, a) \/ Erased(g, key, a) => \E T, D : Makes(g, T, D, <<>>, a)
    BY DEF Kept, Erased
  <2>2. Makes(g, With(timeBased, key, o), distanceBased, <<>>, <<key>>)
          => \E T, D : Makes(g, T, D, <<>>, <<key>>)
    OBVIOUS
  <2>3. Makes(g, timeBased, With(distanceBased, key, o), <<>>, <<key>>)
          => \E T, D : Makes(g, T, D, <<>>, <<key>>)
    OBVIOUS
  <2> QED BY <2>1, <2>2, <2>3 DEF ContinueMakes
<1> QED BY <1>3, <1>4, <1>5, <1>6, <1>7, <1>8

\* Requests without continuations, or without some, are about no session.
Without2(q, K) ==
    \A j \in DOMAIN q : q[j].then = NoThen \/ q[j].then.cont \in Conts \ K

\* They are not counted.
LEMMA NotAsked ==
    ASSUME NEW q, Sq(q), NEW K, K \subseteq Commands \cup Conts, Without2(q, K), NEW l
    PROVE  N(RTags(q), {l} \X K) = 0
<1> DEFINE S == {l} \X K
<1>1. "none" \notin K
  BY DEF Commands, Conts
<1>2. ASSUME NEW j \in DOMAIN q PROVE RTag(q[j]) \notin S
  <2> DEFINE r == q[j]
  <2>1. r.then = NoThen \/ r.then.cont \in Conts \ K
    BY <1>2 DEF Without2
  <2>2. CASE r.then = NoThen
    <3>1. RTag(r) = <<"none", "none">>
      BY <2>2, RTagIs
    <3> QED BY <1>1, <3>1
  <2>3. CASE r.then.cont \in Conts \ K
    <3>1. RTag(r) = <<r.then.key, r.then.cont>>
      BY <2>3, RTagIs
    <3> QED BY <2>3, <3>1
  <2> QED BY <2>1, <2>2, <2>3
<1> HIDE DEF S
<1>3. N(RTags(q), S) = 0 <=> \A j \in DOMAIN q : RTag(q[j]) \notin S
  BY TagsCount
<1>4. N(RTags(q), S) = 0
  BY <1>2, <1>3
<1> QED BY <1>4 DEF S

\* Starting every session again asks for nothing that is answered.
LEMMA RestartsAsk ==
    ASSUME NEW g, NEW T, NEW D, NEW q, Restarts(g, T, D, q, <<>>), Sq(q),
           \A j \in DOMAIN q : q[j].then = NoThen
    PROVE  /\ \A j \in DOMAIN g.requests : g.requests[j].then = NoThen
           /\ g.answers = <<>> /\ g.time = T /\ g.distance = D
<1>1. PICK p, s : Refix(q, p, T) /\ Starts(s, D) /\ Makes(g, T, D, p \o s, <<>>)
  BY DEF Restarts
<1>2. Sq(p) /\ \A j \in DOMAIN p : p[j].then = NoThen
  <2>1. CASE p = q
    BY <2>1
  <2>2. ASSUME NEW r, p = Append(q, r), r.then = NoThen
        PROVE  Sq(p) /\ \A j \in DOMAIN p : p[j].then = NoThen
    <3>1. /\ Sq(p) /\ DOMAIN p = 1..(Len(q) + 1) /\ Len(q) \in Nat /\ DOMAIN q = 1..Len(q)
          /\ \A j \in 1..Len(q) : p[j] = q[j]
          /\ p[Len(q) + 1] = r
      BY <2>2, SqAppend, SqOf
    <3>2. ASSUME NEW j \in DOMAIN p PROVE p[j].then = NoThen
      <4>1. j \in 1..Len(q) \/ j = Len(q) + 1
        BY <3>1
      <4> QED BY <2>2, <3>1, <4>1
    <3> QED BY <3>1, <3>2
  <2> QED BY <1>1, <2>1, <2>2 DEF Refix
<1>3. Sq(s) /\ \A j \in DOMAIN s : s[j].then = NoThen
  <2>1. Sq(s) /\ \A j \in DOMAIN s : \E key \in DOMAIN D : s[j] = startDistance(key, D[key], NoThen)
    BY <1>1 DEF Starts
  <2> QED BY <2>1, DistanceThen
<1>4. /\ Len(p) \in Nat /\ Len(s) \in Nat /\ DOMAIN p = 1..Len(p) /\ DOMAIN s = 1..Len(s)
      /\ DOMAIN (p \o s) = 1..(Len(p) + Len(s))
      /\ \A j \in 1..Len(p) : (p \o s)[j] = p[j]
      /\ \A j \in 1..Len(s) : (p \o s)[Len(p) + j] = s[j]
  BY <1>2, <1>3, SqConcat, SqOf
<1>5. ASSUME NEW j \in DOMAIN (p \o s) PROVE (p \o s)[j].then = NoThen
  <2>1. j \in 1..Len(p) \/ (j - Len(p) \in 1..Len(s) /\ j = Len(p) + (j - Len(p)))
    BY <1>4
  <2>2. CASE j \in 1..Len(p)
    BY <1>2, <1>4, <2>2
  <2>3. ASSUME NEW i \in 1..Len(s), j = Len(p) + i PROVE (p \o s)[j].then = NoThen
    BY <1>3, <1>4, <2>3
  <2> QED BY <2>1, <2>2, <2>3
<1>6. g.requests = p \o s /\ g.answers = <<>> /\ g.time = T /\ g.distance = D
  BY <1>1 DEF Makes
<1> QED BY <1>5, <1>6

\* Nor does what is silent.
LEMMA SilentIs ==
    ASSUME NEW g, Sq(g.requests), \A j \in DOMAIN g.requests : g.requests[j].then = NoThen,
           g.answers = <<>>, NEW l
    PROVE  /\ Balance(g, l) = 0
           /\ \A K : K \subseteq Commands \cup Conts => N(RTags(g.requests), {l} \X K) = 0
<1>1. ASSUME NEW K, K \subseteq Commands \cup Conts PROVE N(RTags(g.requests), {l} \X K) = 0
  BY <1>1, NotAsked DEF Without2
<1>2. Waited \subseteq Commands \cup Conts
  BY DEF Waited
<1>3. N(RTags(g.requests), {l} \X Waited) = 0
  BY <1>1, <1>2
<1>4. N(<<>>, {l}) = 0
  BY CountEmpty
<1>5. Balance(g, l) = 0
  BY <1>3, <1>4 DEF Balance
<1> QED BY <1>1, <1>5

\* A configuration, and what a restart of the modem is told.
LEMMA ConfigSilent ==
    ASSUME Types, NEW g, HandlingOK(g), NEW m,
           ConfigMakes(g, m) \/ Restarts(g, timeBased, distanceBased, <<setConfig, Lists>>, <<>>)
    PROVE  /\ Sq(g.requests) /\ \A j \in DOMAIN g.requests : g.requests[j].then = NoThen
           /\ g.answers = <<>> /\ g.time = timeBased /\ g.distance = distanceBased
<1>1. /\ Asked(m).then = NoThen /\ StopFix.then = NoThen /\ setConfig.then = NoThen
      /\ Lists.then = NoThen
  BY DEF Asked, StopFix, setConfig, Lists, configRequest
<1>2. \A a : a.then = NoThen
        => Sq(<<a>>) /\ \A j \in DOMAIN <<a>> : <<a>>[j].then = NoThen
  <2> SUFFICES ASSUME NEW a, a.then = NoThen
               PROVE  Sq(<<a>>) /\ \A j \in DOMAIN <<a>> : <<a>>[j].then = NoThen
    OBVIOUS
  <2>1. Sq(<<a>>)
    BY CountOne
  <2> QED BY <2>1
<1>3. \A a, b : a.then = NoThen /\ b.then = NoThen
        => Sq(<<a, b>>) /\ \A j \in DOMAIN <<a, b>> : <<a, b>>[j].then = NoThen
  <2> SUFFICES ASSUME NEW a, NEW b, a.then = NoThen, b.then = NoThen
               PROVE  Sq(<<a, b>>) /\ \A j \in DOMAIN <<a, b>> : <<a, b>>[j].then = NoThen
    OBVIOUS
  <2>1. Append(<<a>>, b) = <<a, b>> /\ Sq(<<a>>)
    BY Appends, CountOne
  <2>3. Sq(Append(<<a>>, b))
    BY <2>1, SqAppend
  <2>2. Sq(<<a, b>>)
    BY <2>1, <2>3
  <2> QED BY <2>2
<1>4. \A q : /\ Restarts(g, timeBased, distanceBased, q, <<>>) /\ Sq(q)
             /\ \A j \in DOMAIN q : q[j].then = NoThen
        => /\ \A j \in DOMAIN g.requests : g.requests[j].then = NoThen
           /\ g.answers = <<>> /\ g.time = timeBased /\ g.distance = distanceBased
  BY RestartsAsk
<1>5. Sq(g.requests)
  BY DEF HandlingOK, RequestsOK
<1>6. CASE Restarts(g, timeBased, distanceBased, <<setConfig, Lists>>, <<>>)
  BY <1>1, <1>3, <1>4, <1>5, <1>6
<1>7. CASE Makes(g, timeBased, distanceBased, <<Asked(m)>>, <<>>)
  <2>1. /\ g.requests = <<Asked(m)>> /\ g.answers = <<>> /\ g.time = timeBased
        /\ g.distance = distanceBased
    BY <1>7 DEF Makes
  <2> QED BY <1>1, <1>2, <1>5, <2>1
<1>8. ASSUME NEW q, q = <<Asked(m)>> \/ q = <<StopFix, Asked(m)>>,
             Restarts(g, timeBased, distanceBased, q, <<>>)
      PROVE  /\ \A j \in DOMAIN g.requests : g.requests[j].then = NoThen
             /\ g.answers = <<>> /\ g.time = timeBased /\ g.distance = distanceBased
  <2>1. Sq(q) /\ \A j \in DOMAIN q : q[j].then = NoThen
    BY <1>1, <1>2, <1>3, <1>8
  <2> QED BY <1>4, <1>8, <2>1
<1> QED BY <1>5, <1>6, <1>7, <1>8 DEF ConfigMakes

\* A client's removal asks about its own sessions only, and answers nothing.
LEMMA RemoveAsks ==
    ASSUME Types, NEW c, NEW g, HandlingOK(g), RemoveMakes(g, c), NEW l, l[1] # c
    PROVE  Balance(g, l) = 0
<1>1. PICK p, s : /\ Makes(g, Without(timeBased, c), distanceBased, p \o s, <<>>)
                  /\ RequestsOK(p) /\ StopsTime(p, c) /\ Erases(s, c)
  BY DEF RemoveMakes
<1> DEFINE S == {l} \X Waited
<1>2. g.requests = p \o s /\ g.answers = <<>> /\ Sq(p) /\ Sq(s)
  BY <1>1 DEF Makes, RequestsOK, Erases
<1>3. ASSUME NEW j \in DOMAIN p PROVE RTag(p[j]) \notin S
  <2> DEFINE r == p[j]
  <2>1. r.then.cont \in Conts /\ r.then.key[1] = c
    BY <1>1, <1>3 DEF StopsTime, Mine, Conts
  <2>2. RTag(r) = <<r.then.key, r.then.cont>>
    BY <2>1, RTagIs
  <2>3. r.then.key # l
    BY <2>1
  <2> QED BY <2>2, <2>3
<1>4. ASSUME NEW j \in DOMAIN s PROVE RTag(s[j]) \notin S
  <2>1. PICK key \in Mine(distanceBased, c) :
              s[j] = stopDistance(key, Then("erase", key, NoOptions))
    BY <1>1, <1>4 DEF Erases
  <2>2. s[j].then = Then("erase", key, NoOptions)
    BY <2>1, DistanceThen
  <2>3. s[j].then.cont = "erase" /\ s[j].then.key = key /\ "erase" \in Conts
    BY <2>2 DEF Then, Conts
  <2>4. RTag(s[j]) = <<key, "erase">>
    BY <2>3, RTagIs
  <2>5. "erase" \notin Waited
    BY DEF Waited, Commands
  <2> QED BY <2>4, <2>5
<1> HIDE DEF S
<1>5. N(RTags(p), S) = 0 /\ N(RTags(s), S) = 0
  BY <1>2, <1>3, <1>4, TagsCount
<1>6. N(RTags(p \o s), S) = N(RTags(p), S) + N(RTags(s), S)
  BY <1>2, TagsCount
<1>7. N(<<>>, {l}) = 0
  BY CountEmpty
<1>8. Balance(g, l) = N(RTags(p \o s), S) + N(<<>>, {l})
  BY <1>2 DEF Balance, S
<1> QED BY <1>5, <1>6, <1>7, <1>8

-----------------------------------------------------------------------------
(* Each kind of message, with what it makes of the sessions.                 *)

TrackHandled(m) ==
    /\ m.op \in Commands /\ m.key \in Keys
    /\ \E g : /\ HandlingOK(g) /\ Commit(g) /\ TrackMakes(g, m)
              /\ UNCHANGED <<mPendingMsgs, known, mClientData, configuration, failed>>

RemoveHandled(m) ==
    /\ m.op = "remove"
    /\ \E g : /\ HandlingOK(g) /\ Commit(g) /\ RemoveMakes(g, m.client)
              /\ mClientData' = Drop(mClientData, m.client)
              /\ UNCHANGED <<mPendingMsgs, known, configuration, failed>>

ResponseHandled(m) ==
    /\ m.op = "response" /\ ThenOK(m.then) /\ m.then # NoThen /\ m.ok \in BOOLEAN
    /\ \E g : /\ HandlingOK(g) /\ Commit(g) /\ ContinueMakes(g, m.then, m.ok)
              /\ UNCHANGED <<mPendingMsgs, known, mClientData, configuration, failed>>

ConfigHandled(m) ==
    /\ m.op = "config" /\ known /\ m.config \in ConfigSet
    /\ \E g : HandlingOK(g) /\ Commit(g) /\ ConfigMakes(g, m) /\ ConfTo(m)

EngineUpHandled(m) ==
    /\ m.op = "engineUp" /\ known' = TRUE /\ mPendingMsgs' = <<>>
    /\ UNCHANGED <<mClientData, configuration, failed>>
    /\ \E g : /\ HandlingOK(g) /\ Commit(g)
              /\ Restarts(g, timeBased, distanceBased, <<setConfig, Lists>>, <<>>)

\* A command that waits for the capabilities.
Waiting(m) == m.op # "engineUp" /\ PendingOK(m) /\ ~known /\ Pend(m) /\ UNCHANGED failed

Handler(m) ==
    \/ Waiting(m) \/ TrackHandled(m) \/ RemoveHandled(m) \/ AddClient(m) \/ ResponseHandled(m)
    \/ Enable(m) \/ Disable(m) \/ ConfigHandled(m) \/ EngineUpHandled(m)

\* Each message is handled in one of these ways.
LEMMA HandlerIs ==
    ASSUME Types, HandleMsg
    PROVE  /\ queue # <<>> /\ queue' = Tail(queue) \o Resent(Head(queue))
           /\ MessageOK(Head(queue), calls) /\ Handler(Head(queue))
           /\ UNCHANGED <<use, calls, live, started, modem, restarts, mBlacklistedSvIds>>
<1> DEFINE m == Head(queue)
<1>1. queue # <<>> /\ queue' = Tail(queue) \o Resent(m)
      /\ UNCHANGED <<use, calls, live, started, modem, restarts, mBlacklistedSvIds>>
  BY DEF HandleMsg, clientVars
<1>2. MessageOK(m, calls)
  BY <1>1, HeadOK
<1>3. \/ Track(m) \/ RemoveClient(m) \/ AddClient(m) \/ Respond(m)
      \/ Enable(m) \/ Disable(m) \/ UpdateConfig(m) \/ EngineUp(m)
  BY DEF HandleMsg
<1> HIDE DEF m
<1>4. ASSUME Track(m) PROVE Handler(m)
  <2>1. m.op \in Commands
    BY <1>4 DEF Track, Commands
  <2>2. CASE Waits(m) /\ PendingOK(m)
    BY <2>2 DEF Waits, Waiting, Handler
  <2>3. ASSUME NEW g, HandlingOK(g) /\ Commit(g) /\ TrackMakes(g, m) /\ m.key \in Keys
                      /\ UNCHANGED <<mPendingMsgs, known, mClientData, configuration, failed>>
        PROVE  TrackHandled(m)
    BY <2>1, <2>3 DEF TrackHandled
  <2>4. \/ Waits(m) /\ PendingOK(m)
        \/ \E g : /\ HandlingOK(g) /\ Commit(g) /\ TrackMakes(g, m) /\ m.key \in Keys
                  /\ UNCHANGED <<mPendingMsgs, known, mClientData, configuration, failed>>
    BY <1>2, <1>4, TrackIs
  <2> QED BY <2>2, <2>3, <2>4 DEF Handler
<1>5. ASSUME RemoveClient(m) PROVE Handler(m)
  <2>1. m.op = "remove"
    BY <1>5 DEF RemoveClient
  <2>2. RemoveHandled(m)
    BY <1>5, <2>1, RemoveClientIs DEF RemoveHandled
  <2> QED BY <2>2 DEF Handler
<1>6. ASSUME Respond(m) PROVE Handler(m)
  <2>1. m.op = "response"
    BY <1>6 DEF Respond
  <2>2. PICK g : /\ HandlingOK(g) /\ Commit(g) /\ ContinueMakes(g, m.then, m.ok)
                 /\ ThenOK(m.then) /\ m.then # NoThen /\ m.ok \in BOOLEAN
                 /\ UNCHANGED <<mPendingMsgs, known, mClientData, configuration, failed>>
    BY <1>2, <1>6, RespondIs
  <2>3. ResponseHandled(m)
    BY <2>1, <2>2 DEF ResponseHandled
  <2> QED BY <2>3 DEF Handler
<1>7. ASSUME UpdateConfig(m) PROVE Handler(m)
  <2>1. m.op = "config"
    BY <1>7 DEF UpdateConfig
  <2>2. CASE m.op = "config" /\ ~known /\ Pend(m) /\ UNCHANGED failed /\ PendingOK(m)
    BY <2>2 DEF Waiting, Handler
  <2>3. ASSUME NEW g, HandlingOK(g) /\ Commit(g) /\ ConfigMakes(g, m) /\ ConfTo(m) /\ known
                      /\ m.config \in ConfigSet
        PROVE  ConfigHandled(m)
    BY <2>1, <2>3 DEF ConfigHandled
  <2>4. \/ m.op = "config" /\ ~known /\ Pend(m) /\ UNCHANGED failed /\ PendingOK(m)
        \/ \E g : HandlingOK(g) /\ Commit(g) /\ ConfigMakes(g, m) /\ ConfTo(m) /\ known
                  /\ m.config \in ConfigSet
    BY <1>2, <1>7, UpdateConfigIs
  <2> QED BY <2>2, <2>3, <2>4 DEF Handler
<1>8. ASSUME EngineUp(m) PROVE Handler(m)
  <2>1. m.op = "engineUp"
    BY <1>8 DEF EngineUp
  <2>2. PICK g : /\ HandlingOK(g) /\ Commit(g)
                 /\ Restarts(g, timeBased, distanceBased, <<setConfig, Lists>>, <<>>)
                 /\ known' = TRUE /\ mPendingMsgs' = <<>>
                 /\ UNCHANGED <<mClientData, configuration, failed>>
    BY <1>8, EngineUpIs
  <2>3. EngineUpHandled(m)
    BY <2>1, <2>2 DEF EngineUpHandled
  <2> QED BY <2>3 DEF Handler
<1>9. Handler(m)
  BY <1>3, <1>4, <1>5, <1>6, <1>7, <1>8 DEF Handler
<1> QED BY <1>1, <1>2, <1>9 DEF m

\* The messages there are once one was handled.
LEMMA Remaining ==
    ASSUME Types, queue # <<>>, queue' = Tail(queue) \o Resent(Head(queue))
    PROVE  /\ Range(queue) = Range(Tail(queue)) \cup {Head(queue)}
           /\ \A m \in Range(queue') : m \in Range(Tail(queue)) \/ PendingOK(m)
           /\ Range(Tail(queue)) \subseteq Range(queue')
           /\ \A i, j \in DOMAIN queue' : i < j =>
                \/ PendingOK(queue'[j])
                \/ \E k, n \in DOMAIN queue : k < n /\ queue'[i] = queue[k] /\ queue'[j] = queue[n]
<1> DEFINE t == Tail(queue)
           r == Resent(Head(queue))
<1>1. Sq(t) /\ Sq(r) /\ (\A m \in Range(r) : PendingOK(m)) /\ Sq(queue)
  BY HeadOK DEF Types, QueueTypes
<1>2. /\ Len(queue) \in Nat \ {0} /\ DOMAIN t = 1..(Len(queue) - 1) /\ Len(t) = Len(queue) - 1
      /\ \A j \in 1..(Len(queue) - 1) : t[j] = queue[j + 1]
      /\ DOMAIN queue = 1..Len(queue)
  BY <1>1, SqTail, SqOf
<1>3. Range(queue) = Range(t) \cup {Head(queue)}
  BY <1>1, HeadTail
<1> HIDE DEF t, r
<1>4. queue' = t \o r
  BY DEF t, r
<1>5. Range(queue') = Range(t) \cup Range(r)
  BY <1>1, <1>4, RangeIs
<1>6. /\ Len(t) \in Nat /\ Len(r) \in Nat /\ DOMAIN r = 1..Len(r)
      /\ DOMAIN (t \o r) = 1..(Len(t) + Len(r))
      /\ \A j \in 1..Len(t) : (t \o r)[j] = t[j]
      /\ \A j \in 1..Len(r) : (t \o r)[Len(t) + j] = r[j]
  BY <1>1, SqConcat, SqOf
<1>7. ASSUME NEW i \in DOMAIN queue', NEW j \in DOMAIN queue', i < j
      PROVE  \/ PendingOK(queue'[j])
             \/ \E k, n \in DOMAIN queue : k < n /\ queue'[i] = queue[k] /\ queue'[j] = queue[n]
  <2>1. i \in 1..(Len(t) + Len(r)) /\ j \in 1..(Len(t) + Len(r))
    BY <1>4, <1>6, <1>7
  <2>2. CASE j <= Len(t)
    <3>1. i \in 1..Len(t) /\ j \in 1..Len(t)
      BY <1>6, <1>7, <2>1, <2>2
    <3>2. queue'[i] = t[i] /\ queue'[j] = t[j]
      BY <1>4, <1>6, <3>1
    <3>3. queue'[i] = queue[i + 1] /\ queue'[j] = queue[j + 1]
      BY <1>2, <3>1, <3>2
    <3>4. i + 1 \in DOMAIN queue /\ j + 1 \in DOMAIN queue /\ i + 1 < j + 1
      BY <1>2, <1>7, <3>1
    <3> QED BY <3>3, <3>4
  <2>3. CASE j > Len(t)
    <3>1. j - Len(t) \in 1..Len(r) /\ j = Len(t) + (j - Len(t))
      BY <1>6, <2>1, <2>3
    <3>2. \E n \in 1..Len(r) : (t \o r)[j] = r[n]
      BY <1>6, <3>1
    <3>3. (t \o r)[j] \in Range(r)
      BY <1>6, <3>2 DEF Range
    <3> QED BY <1>1, <1>4, <3>3
  <2> QED BY <1>6, <2>1, <2>2, <2>3
<1>8. \A m \in Range(queue') : m \in Range(t) \/ PendingOK(m)
  BY <1>1, <1>5
<1> QED BY <1>3, <1>5, <1>7, <1>8 DEF t

\* Whether clients are registered only changes as they are added and removed.
LEMMA ClientsAre ==
    ASSUME NEW m, Handler(m)
    PROVE  \/ m.op = "remove" /\ mClientData' = Drop(mClientData, m.client)
           \/ m.op = "add" /\ mClientData' = With(mClientData, m.client, m.tracks)
           \/ UNCHANGED mClientData
<1>1. CASE Waiting(m)
  BY <1>1 DEF Waiting, Pend
<1>2. CASE AddClient(m)
  BY <1>2 DEF AddClient
<1>3. CASE Enable(m) \/ Disable(m)
  BY <1>3 DEF Enable, Disable, sessions
<1>4. ASSUME ConfTo(m) PROVE UNCHANGED mClientData
  BY <1>4 DEF ConfTo
<1> QED BY <1>1, <1>2, <1>3, <1>4
     DEF Handler, TrackHandled, RemoveHandled, ResponseHandled, ConfigHandled, EngineUpHandled

\* What waits is a command of tracking or a configuration.
LEMMA PendingIs ==
    ASSUME NEW m, PendingOK(m)
    PROVE  m.op \in {"start", "update", "config"}
BY DEF PendingOK

\* Clients come and go in their order.
LEMMA HandledComings ==
    ASSUME Types, Comings, HandleMsg
    PROVE  Comings'
<1> DEFINE m == Head(queue)
<1>1. /\ queue # <<>> /\ queue' = Tail(queue) \o Resent(m) /\ Handler(m)
      /\ UNCHANGED <<use, live>>
  BY HandlerIs
<1>2. /\ Range(queue) = Range(Tail(queue)) \cup {m}
      /\ \A n \in Range(queue') : n \in Range(Tail(queue)) \/ PendingOK(n)
      /\ \A i, j \in DOMAIN queue' : i < j =>
                \/ PendingOK(queue'[j])
                \/ \E k, n \in DOMAIN queue : k < n /\ queue'[i] = queue[k] /\ queue'[j] = queue[n]
  BY <1>1, Remaining
<1>3. \/ m.op = "remove" /\ mClientData' = Drop(mClientData, m.client)
      \/ m.op = "add" /\ mClientData' = With(mClientData, m.client, m.tracks)
      \/ UNCHANGED mClientData
  BY <1>1, ClientsAre
<1>4. /\ \A c \in live : Registered(c)
      /\ \A n \in Range(queue) : n.op = "remove" => n.client \notin live
      /\ \A i, j \in DOMAIN queue : i < j /\ queue[i].op = "remove" /\ queue[j].op = "add"
                                    => queue[i].client # queue[j].client
      /\ \A n \in Range(queue) : n.op = "add" => Registered(n.client)
      /\ "add" \notin use => /\ \A n \in Range(queue) : n.op # "add"
                             /\ \A c \in DOMAIN mClientData : mClientData[c] = TRUE
  BY DEF Comings
<1>5. \A n \in Range(queue') : n.op \in {"remove", "add"} => n \in Range(Tail(queue))
  BY <1>2, PendingIs
<1>6. \A n \in Range(Tail(queue)) : n \in Range(queue)
  BY <1>2
<1>7. m \in Range(queue)
  BY <1>2
<1>8. \A n \in Range(Tail(queue)) : n.op = "add" /\ m.op = "remove" => m.client # n.client
  <2> SUFFICES ASSUME NEW n \in Range(Tail(queue)), n.op = "add", m.op = "remove"
               PROVE  m.client # n.client
    OBVIOUS
  <2>1. /\ Sq(queue) /\ Len(queue) \in Nat \ {0} /\ DOMAIN Tail(queue) = 1..(Len(queue) - 1)
        /\ \A j \in 1..(Len(queue) - 1) : Tail(queue)[j] = queue[j + 1]
        /\ m = queue[1] /\ DOMAIN queue = 1..Len(queue)
    BY <1>1, SqTail, SqOf DEF Types, QueueTypes
  <2>2. PICK j \in 1..(Len(queue) - 1) : n = queue[j + 1]
    BY <2>1 DEF Range
  <2>3. 1 \in DOMAIN queue /\ j + 1 \in DOMAIN queue /\ 1 < j + 1
    BY <2>1, <2>2
  <2> QED BY <1>4, <2>1, <2>2, <2>3
<1> HIDE DEF m
<1>9. \A n \in Range(queue') : n.op = "remove" => n.client \notin live'
  BY <1>1, <1>4, <1>5, <1>6
<1>10. \A i, j \in DOMAIN queue' : i < j /\ queue'[i].op = "remove" /\ queue'[j].op = "add"
                                     => queue'[i].client # queue'[j].client
  <2> SUFFICES ASSUME NEW i \in DOMAIN queue', NEW j \in DOMAIN queue', i < j,
                      queue'[i].op = "remove", queue'[j].op = "add"
               PROVE  queue'[i].client # queue'[j].client
    OBVIOUS
  <2>1. ~PendingOK(queue'[j])
    BY PendingIs
  <2> QED BY <1>2, <1>4, <2>1
<1>11. (\A c \in live' : Registered(c)') /\ (\A n \in Range(queue') : n.op = "add" => Registered(n.client)')
  <2>1. CASE m.op = "remove" /\ mClientData' = Drop(mClientData, m.client)
    <3>1. DOMAIN mClientData' = DOMAIN mClientData \ {m.client}
      BY <2>1, DropIs
    <3> QED BY <1>1, <1>4, <1>5, <1>6, <1>7, <1>8, <2>1, <3>1 DEF Registered
  <2>2. CASE mClientData' = With(mClientData, m.client, m.tracks)
    <3>1. DOMAIN mClientData' = DOMAIN mClientData \cup {m.client}
      BY <2>2, WithDomain
    <3> QED BY <1>1, <1>4, <1>5, <1>6, <3>1 DEF Registered
  <2>3. CASE UNCHANGED mClientData
    BY <1>1, <1>4, <1>5, <1>6, <2>3 DEF Registered
  <2> QED BY <1>3, <2>1, <2>2, <2>3
<1>12. "add" \notin use' => /\ \A n \in Range(queue') : n.op # "add"
                            /\ \A c \in DOMAIN mClientData' : mClientData'[c] = TRUE
  <2> SUFFICES ASSUME "add" \notin use
               PROVE  /\ \A n \in Range(queue') : n.op # "add"
                      /\ \A c \in DOMAIN mClientData' : mClientData'[c] = TRUE
    BY <1>1
  <2>1. \A n \in Range(queue') : n.op # "add"
    BY <1>4, <1>5, <1>6
  <2>2. m.op # "add"
    BY <1>4, <1>7
  <2>3. CASE mClientData' = Drop(mClientData, m.client)
    <3>1. /\ DOMAIN mClientData' = DOMAIN mClientData \ {m.client}
          /\ \A c \in DOMAIN mClientData' : mClientData'[c] = mClientData[c]
      BY <2>3, DropIs
    <3> QED BY <1>4, <2>1, <3>1
  <2>4. CASE UNCHANGED mClientData
    BY <1>4, <2>1, <2>4
  <2> QED BY <1>3, <2>2, <2>3, <2>4
<1> QED BY <1>9, <1>10, <1>11, <1>12 DEF Comings

-----------------------------------------------------------------------------
(* The parts of the invariant, as a message is handled.                      *)

\* One request after others.
LEMMA AppendIs ==
    ASSUME NEW q, Sq(q), NEW r
    PROVE  Append(q, r) = q \o <<r>> /\ Sq(<<r>>)
<1> DEFINE u == <<r>>
           w == Append(q, r)
<1>1. Sq(u) /\ Len(u) = 1 /\ u[1] = r
  BY CountOne
<1>2. /\ Sq(w) /\ Len(w) = Len(q) + 1 /\ Len(q) \in Nat
      /\ \A j \in 1..Len(q) : w[j] = q[j]
      /\ w[Len(q) + 1] = r
  BY SqAppend, SqOf
<1> HIDE DEF u, w
<1>3. \A j \in 1..Len(u) : w[Len(q) + j] = u[j]
  BY <1>1, <1>2
<1>4. Parts2(q, u, w)
  BY <1>1, <1>2, <1>3 DEF Parts2
<1>5. w = q \o u
  BY <1>4, SqParts
<1> QED BY <1>1, <1>5 DEF u, w

\* What changes no session asks for nothing that is answered.
LEMMA PassedIs ==
    ASSUME Types, NEW m, AddClient(m) \/ Enable(m) \/ Disable(m)
    PROVE  /\ m.op \in {"add", "enable", "disable"}
           /\ UNCHANGED <<timeBased, distanceBased, mPendingMsgs, known, unanswered, failed>>
           /\ \E q : /\ Sq(q) /\ api' = api \o q
                     /\ \A j \in DOMAIN q : q[j].then = NoThen
<1>1. Sq(api)
  BY DEF Types, RequestsOK
<1>2. ASSUME UNCHANGED api
      PROVE  \E q : Sq(q) /\ api' = api \o q /\ \A j \in DOMAIN q : q[j].then = NoThen
  <2>1. Sq(<<>>) /\ Len(<<>>) = 0 /\ DOMAIN <<>> = {}
    BY SqEmpty
  <2>2. Parts2(api, <<>>, api)
    BY <1>1, <2>1, SqOf DEF Parts2
  <2>3. api = api \o <<>>
    BY <2>2, SqParts
  <2> QED BY <1>2, <2>1, <2>3
<1>3. ASSUME NEW lock, api' = Append(api, lockRequest(lock))
      PROVE  \E q : Sq(q) /\ api' = api \o q /\ \A j \in DOMAIN q : q[j].then = NoThen
  <2> DEFINE r == lockRequest(lock)
  <2>1. r.then = NoThen
    BY DEF lockRequest
  <2>2. api' = Append(api, r)
    BY <1>3
  <2> HIDE DEF r
  <2>3. api' = api \o <<r>> /\ Sq(<<r>>)
    BY <1>1, <2>2, AppendIs
  <2>4. \A j \in DOMAIN <<r>> : <<r>>[j].then = NoThen
    BY <2>1
  <2> QED BY <2>3, <2>4
<1>4. CASE AddClient(m)
  BY <1>2, <1>4 DEF AddClient
<1>5. CASE Enable(m)
  <2>1. UNCHANGED api \/ \E lock : api' = Append(api, lockRequest(lock))
    BY <1>5 DEF Enable
  <2> QED BY <1>2, <1>3, <1>5, <2>1 DEF Enable, sessions
<1>6. CASE Disable(m)
  <2>1. UNCHANGED api \/ \E lock : api' = Append(api, lockRequest(lock))
    BY <1>6 DEF Disable
  <2> QED BY <1>2, <1>3, <1>6, <2>1 DEF Disable, sessions
<1> QED BY <1>4, <1>5, <1>6

\* A message that is handled was under way.
LEMMA HeadCounted ==
    ASSUME Types, queue # <<>>, NEW S
    PROVE  Count(MTag(Head(queue)), S) \in 0..UnderWay(S)
<1> DEFINE c == Count(MTag(Head(queue)), S)
<1>1. Sq(queue) /\ Sq(Tail(queue))
  BY SqTail DEF Types, QueueTypes
<1>2. N(MTags(Tail(queue)), S) = N(MTags(queue), S) - c /\ c \in {0, 1}
  BY <1>1, TagsCount DEF Count
<1>3. N(MTags(Tail(queue)), S) \in Nat
  BY <1>1, TagsCount
<1> HIDE DEF c
<1>4. c \in 0..UnderWay(S)
  BY <1>2, <1>3, WayIs
<1> QED BY <1>4 DEF c

Restarting == {"restart", "restarted"}

\* While the capabilities are not known, there is no session that follows a distance, and
\* none is about to be.
LEMMA StepCalm ==
    ASSUME Types, NEW g, NEW key, NEW conts, NEW T2, TimeStep(Handling, g, key, conts, T2),
           conts \subseteq Conts \ Restarting
    PROVE  g.distance = distanceBased /\ Without2(g.requests, Restarting)
<1>1. Handling.requests = <<>> /\ Handling.answers = <<>> /\ Handling.distance = distanceBased
  BY HandlingIs DEF Types, SessionTypes
<1>2. g.distance = distanceBased
  BY <1>1 DEF TimeStep
<1>3. CASE g.requests = <<>>
  BY <1>2, <1>3 DEF Without2
<1>4. ASSUME NEW r, g.requests = Append(<<>>, r), r.then.cont \in conts
      PROVE  Without2(g.requests, Restarting)
  <2>1. g.requests = <<r>>
    BY <1>4, Appends
  <2> QED BY <1>4, <2>1 DEF Without2
<1> QED BY <1>1, <1>2, <1>3, <1>4 DEF TimeStep

Calm(g) == DOMAIN g.distance = {} /\ Without2(g.requests, Restarting)

\* A command of tracking, before the capabilities are known.
LEMMA TrackCalm ==
    ASSUME Types, DOMAIN distanceBased = {}, ~known, NEW m, NEW g, TrackMakes(g, m),
           MessageOK(m, calls), m.op \in Commands
    PROVE  Calm(g)
<1> DEFINE key == m.key
           o == m.options
<1>1. {"started"} \subseteq Conts \ Restarting /\ {"updated"} \subseteq Conts \ Restarting
      /\ {"started", "answer"} \subseteq Conts \ Restarting
      /\ "stopped" \in Conts \ Restarting
  BY DEF Conts, Restarting
<1>2. \A T, a : Makes(g, T, distanceBased, <<>>, a) => Calm(g)
  BY DEF Makes, Calm, Without2
<1>3. \A conts, T2 : TimeStep(Handling, g, key, conts, T2) /\ conts \subseteq Conts \ Restarting
                     => Calm(g)
  BY StepCalm DEF Calm
<1>4. m.op # "stop" => ~(o.minDistance > 0)
  BY DEF TrackMakes
<1>5. CASE m.op = "start" /\ StartMakes(g, key, o)
  BY <1>1, <1>2, <1>3, <1>4, <1>5 DEF StartMakes
<1>6. CASE m.op = "update" /\ UpdateMakes(g, key, o)
  BY <1>1, <1>2, <1>3, <1>4, <1>6 DEF UpdateMakes
<1>7. CASE m.op = "stop" /\ StopMakes(g, key)
  BY <1>1, <1>2, <1>3, <1>7 DEF StopMakes
<1> QED BY <1>5, <1>6, <1>7 DEF TrackMakes

\* A response, before they are known.
LEMMA RespondCalm ==
    ASSUME Types, DOMAIN distanceBased = {}, NEW then, NEW ok \in BOOLEAN, NEW g,
           ContinueMakes(g, then, ok), then.cont \notin Restarting
    PROVE  Calm(g)
<1> DEFINE key == then.key
           o == then.options
<1>1. {"started"} \subseteq Conts \ Restarting
  BY DEF Conts, Restarting
<1>2. \A T, D, a : Makes(g, T, D, <<>>, a) /\ DOMAIN D = {} => Calm(g)
  BY DEF Makes, Calm, Without2
<1>3. DOMAIN Drop(distanceBased, key) = {}
  <2>1. DOMAIN Drop(distanceBased, key) = DOMAIN distanceBased \ {key}
    BY DropIs
  <2> QED BY <2>1
<1>4. \A a : Kept(g, a) \/ Erased(g, key, a) => Calm(g)
  BY <1>2, <1>3 DEF Kept, Erased
<1>5. TimeStep(Handling, g, key, {"started"}, With(timeBased, key, o)) => Calm(g)
  BY <1>1, StepCalm DEF Calm
<1>6. Makes(g, With(timeBased, key, o), distanceBased, <<>>, <<key>>) => Calm(g)
  BY <1>2
<1> QED BY <1>4, <1>5, <1>6 DEF ContinueMakes, Restarting

\* Before the capabilities are known.
LEMMA HandledBoots ==
    ASSUME Types, Boots, HandleMsg
    PROVE  Boots'
<1> DEFINE m == Head(queue)
<1>1. /\ queue # <<>> /\ queue' = Tail(queue) \o Resent(m) /\ Handler(m) /\ MessageOK(m, calls)
      /\ UNCHANGED <<restarts, modem>>
  BY HandlerIs
<1>2. /\ Range(queue) = Range(Tail(queue)) \cup {m}
      /\ \A n \in Range(queue') : n \in Range(Tail(queue)) \/ PendingOK(n)
      /\ Range(Tail(queue)) \subseteq Range(queue')
  BY <1>1, Remaining
<1>3. /\ \A l \in Keys : Count(MTag(m), {l} \X Restarting) \in 0..About(l, Restarting)
      /\ Restarting \subseteq Commands \cup Conts
  BY <1>1, HeadCounted DEF About, Restarting, Conts
<1>4. \A l : m.op # "engineUp" /\ Pend(m)
               => About(l, Restarting)' = About(l, Restarting)
  <2> SUFFICES ASSUME NEW l, m.op # "engineUp", Pend(m)
               PROVE  About(l, Restarting)' = About(l, Restarting)
    OBVIOUS
  <2>1. UnderWay({l} \X Restarting)' = UnderWay({l} \X Restarting)
    BY <1>1, PendFlow
  <2> QED BY <2>1 DEF About
<1>5. \A l, q : m.op # "engineUp" /\ Sq(q) /\ api' = api \o q /\ UNCHANGED mPendingMsgs
        => About(l, Restarting)' = About(l, Restarting) - Count(MTag(m), {l} \X Restarting)
                                    + N(RTags(q), {l} \X Restarting)
  <2> SUFFICES ASSUME NEW l, NEW q, m.op # "engineUp", Sq(q), api' = api \o q,
                      UNCHANGED mPendingMsgs
               PROVE  About(l, Restarting)' = About(l, Restarting)
                         - Count(MTag(m), {l} \X Restarting) + N(RTags(q), {l} \X Restarting)
    OBVIOUS
  <2>1. UnderWay({l} \X Restarting)' = UnderWay({l} \X Restarting)
           - Count(MTag(m), {l} \X Restarting) + N(RTags(q), {l} \X Restarting)
    BY <1>1, HandledFlow
  <2> QED BY <2>1 DEF About
<1> HIDE DEF m
<1>6. known' => known \/ m.op = "engineUp"
  BY <1>1 DEF Handler, Waiting, Pend, TrackHandled, RemoveHandled, AddClient, ResponseHandled,
          Enable, Disable, sessions, ConfigHandled, ConfTo, EngineUpHandled
<1>7. restarts' = 0 /\ (known' \/ \E n \in Range(queue') : n.op = "engineUp") => modem'.up
  BY <1>1, <1>2, <1>6, PendingIs DEF Boots
<1>8. ASSUME ~known'
      PROVE  /\ DOMAIN distanceBased' = {}
             /\ \A l \in Keys : About(l, Restarting)' = 0
             /\ ~modem'.up \/ \E n \in Range(queue') : n.op = "engineUp"
  <2>1. ~known /\ m.op # "engineUp"
    BY <1>1, <1>8
       DEF Handler, Waiting, Pend, TrackHandled, RemoveHandled, AddClient, ResponseHandled, PendingOK,
           Commands, Enable, Disable, sessions, ConfigHandled, ConfTo, EngineUpHandled
  <2>2. /\ DOMAIN distanceBased = {}
        /\ \A l \in Keys : About(l, Restarting) = 0
        /\ ~modem.up \/ \E n \in Range(queue) : n.op = "engineUp"
    BY <2>1 DEF Boots, Restarting
  <2>3. ~modem'.up \/ \E n \in Range(queue') : n.op = "engineUp"
    BY <1>1, <1>2, <2>1, <2>2
  <2>4. \A l \in Keys : Count(MTag(m), {l} \X Restarting) = 0
    BY <1>3, <2>2
  <2>5. \A q : /\ Sq(q) /\ api' = api \o q /\ UNCHANGED mPendingMsgs
               /\ Without2(q, Restarting)
               => \A l \in Keys : About(l, Restarting)' = 0
    <3> SUFFICES ASSUME NEW q, Sq(q), api' = api \o q, UNCHANGED mPendingMsgs,
                        Without2(q, Restarting), NEW l \in Keys
                 PROVE  About(l, Restarting)' = 0
      OBVIOUS
    <3>1. N(RTags(q), {l} \X Restarting) = 0
      BY <1>3, NotAsked
    <3>2. About(l, Restarting)' = About(l, Restarting) - Count(MTag(m), {l} \X Restarting)
                                    + N(RTags(q), {l} \X Restarting)
      BY <1>5, <2>1
    <3> QED BY <2>2, <2>4, <3>1, <3>2
  <2>6. ASSUME NEW g, HandlingOK(g), Commit(g), Calm(g), UNCHANGED mPendingMsgs
        PROVE  DOMAIN distanceBased' = {} /\ \A l \in Keys : About(l, Restarting)' = 0
    <3>1. /\ Sq(g.requests) /\ api' = api \o g.requests /\ distanceBased' = g.distance
      BY <2>6 DEF HandlingOK, RequestsOK, Commit
    <3> QED BY <2>5, <2>6, <3>1 DEF Calm
  <2>7. CASE Waiting(m)
    <3>1. Pend(m) /\ distanceBased' = distanceBased
      BY <2>7 DEF Waiting, Pend
    <3> QED BY <1>4, <2>1, <2>2, <2>3, <3>1
  <2>8. CASE TrackHandled(m)
    BY <1>1, <2>1, <2>2, <2>3, <2>6, <2>8, TrackCalm DEF TrackHandled
  <2>9. CASE RemoveHandled(m)
    <3>1. PICK g : /\ HandlingOK(g) /\ Commit(g) /\ RemoveMakes(g, m.client)
                   /\ UNCHANGED mPendingMsgs
      BY <2>9 DEF RemoveHandled
    <3>2. Calm(g)
      <4>1. PICK p, s : /\ Makes(g, Without(timeBased, m.client), distanceBased, p \o s, <<>>)
                        /\ RequestsOK(p) /\ StopsTime(p, m.client) /\ Erases(s, m.client)
        BY <3>1 DEF RemoveMakes
      <4>2. Mine(distanceBased, m.client) = {}
        BY <2>2 DEF Mine
      <4>3. Sq(s) /\ DOMAIN s = {} /\ Sq(p)
        BY <4>1, <4>2 DEF Erases, RequestsOK
      <4>4. /\ g.requests = p \o s /\ g.distance = distanceBased
            /\ DOMAIN (p \o s) = 1..(Len(p) + Len(s)) /\ \A j \in 1..Len(p) : (p \o s)[j] = p[j]
            /\ Len(s) = 0 /\ Len(p) \in Nat /\ DOMAIN p = 1..Len(p)
        <5>1. g.requests = p \o s /\ g.distance = distanceBased
          BY <4>1 DEF Makes
        <5>2. s = <<>> /\ Len(s) = 0
          BY <4>3, SqOf
        <5>3. /\ DOMAIN (p \o s) = 1..(Len(p) + Len(s)) /\ Len(p) \in Nat /\ DOMAIN p = 1..Len(p)
              /\ \A j \in 1..Len(p) : (p \o s)[j] = p[j]
          BY <4>3, SqConcat, SqOf
        <5> QED BY <5>1, <5>2, <5>3
      <4>5. \A j \in DOMAIN g.requests : g.requests[j].then.cont \in Conts \ Restarting
        <5>1. \A j \in DOMAIN p : p[j].then.cont \in Conts \ Restarting
          BY <4>1 DEF StopsTime, Conts, Restarting
        <5> QED BY <4>4, <5>1
      <4> QED BY <2>2, <4>4, <4>5 DEF Calm, Without2
    <3> QED BY <2>3, <2>6, <3>1, <3>2
  <2>10. CASE AddClient(m) \/ Enable(m) \/ Disable(m)
    <3>1. PICK q : /\ Sq(q) /\ api' = api \o q /\ \A j \in DOMAIN q : q[j].then = NoThen
      BY <2>10, PassedIs
    <3>2. UNCHANGED <<distanceBased, mPendingMsgs>> /\ Without2(q, Restarting)
      BY <2>10, <3>1, PassedIs DEF Without2
    <3> QED BY <2>2, <2>3, <2>5, <3>1, <3>2
  <2>11. CASE ResponseHandled(m)
    <3>1. PICK g : /\ HandlingOK(g) /\ Commit(g) /\ ContinueMakes(g, m.then, m.ok)
                   /\ UNCHANGED mPendingMsgs
      BY <2>11 DEF ResponseHandled
    <3>2. m.op = "response" /\ ThenOK(m.then) /\ m.then # NoThen /\ m.ok \in BOOLEAN
      BY <2>11 DEF ResponseHandled
    <3>3. m.then.cont \notin Restarting
      <4>1. m.then.key \in Keys /\ MTag(m) = <<m.then.key, m.then.cont>>
        BY <3>2 DEF ThenOK, MTag, Commands
      <4> DEFINE k == m.then.key
                 c == m.then.cont
      <4>2. Count(MTag(m), {k} \X Restarting) = 0
        BY <2>4, <4>1
      <4>3. \A kk, cc : Count(<<kk, cc>>, {k} \X Restarting) = IF kk = k /\ cc \in Restarting THEN 1 ELSE 0
        BY <1>3, CountIn
      <4>4. Count(<<k, c>>, {k} \X Restarting) = 0
        BY <4>1, <4>2
      <4> HIDE DEF k, c
      <4>5. c \notin Restarting
        BY <4>3, <4>4
      <4> QED BY <4>5 DEF c
    <3>4. Calm(g)
      BY <2>2, <3>1, <3>2, <3>3, RespondCalm
    <3> QED BY <2>3, <2>6, <3>1, <3>4
  <2>12. CASE ConfigHandled(m)
    BY <2>1, <2>12 DEF ConfigHandled
  <2>13. CASE EngineUpHandled(m)
    BY <2>1, <2>13 DEF EngineUpHandled
  <2> QED BY <1>1, <2>7, <2>8, <2>9, <2>10, <2>11, <2>12, <2>13 DEF Handler
<1> QED BY <1>7, <1>8 DEF Boots, Restarting

\* Responses, as messages are handled.
LEMMA HandledSucceeded ==
    ASSUME Types, Succeeded, HandleMsg
    PROVE  Succeeded'
<1> DEFINE m == Head(queue)
<1>1. /\ queue # <<>> /\ queue' = Tail(queue) \o Resent(m) /\ Handler(m)
  BY HandlerIs
<1>2. /\ Range(queue) = Range(Tail(queue)) \cup {m}
      /\ \A n \in Range(queue') : n \in Range(Tail(queue)) \/ PendingOK(n)
  BY <1>1, Remaining
<1> HIDE DEF m
<1>3. failed' = failed
  BY <1>1 DEF Handler, Waiting, Pend, TrackHandled, RemoveHandled, AddClient, ResponseHandled,
          Enable, Disable, ConfigHandled, ConfTo, EngineUpHandled
<1> QED BY <1>2, <1>3, PendingIs DEF Succeeded

\* What a session is owed once a message was handled.
LEMMA OwedTo ==
    ASSUME Types, queue # <<>>, queue' = Tail(queue) \o Resent(Head(queue)), NEW g, HandlingOK(g),
           Commit(g), NEW l \in Keys,
           \/ Head(queue).op # "engineUp" /\ UNCHANGED mPendingMsgs
           \/ Head(queue).op = "engineUp" /\ mPendingMsgs' = <<>>
    PROVE  /\ ~Registered(l[1]) => unanswered'[l] = unanswered[l]
           /\ Registered(l[1])
                => About(l, Waited)' - unanswered'[l]
                     = About(l, Waited) - unanswered[l] - Count(MTag(Head(queue)), {l} \X Waited)
                          + Balance(g, l)
<1> DEFINE S == {l} \X Waited
           c == Count(MTag(Head(queue)), S)
           a == N(g.answers, {l})
<1>1. Sq(g.requests) /\ Sq(g.answers)
  BY DEF HandlingOK, RequestsOK
<1>2. api' = api \o g.requests /\ unanswered' = [key \in Keys |-> unanswered[key] - Told(g, key)]
  BY DEF Commit
<1>3. UnderWay(S)' = UnderWay(S) - c + N(RTags(g.requests), S)
  BY <1>1, <1>2, HandledFlow, EngineUpFlow
<1>4. unanswered'[l] = unanswered[l] - Told(g, l) /\ unanswered[l] \in Int
  BY <1>2 DEF Types, AnswerTypes
<1>5. Told(g, l) = IF Registered(l[1]) THEN a ELSE 0
  <2>1. {j \in DOMAIN g.answers : g.answers[j] = l} = {j \in DOMAIN g.answers : g.answers[j] \in {l}}
    OBVIOUS
  <2> QED BY <2>1 DEF Told, Registered, N
<1>6. a \in Nat /\ N(RTags(g.requests), S) \in Nat /\ c \in Nat /\ UnderWay(S) \in Nat
  BY <1>1, CountIs, TagsCount, WayIs DEF Count
<1> HIDE DEF c, a, S
<1>7. Balance(g, l) = N(RTags(g.requests), S) + a
  BY DEF Balance, S, a
<1>8. About(l, Waited)' = UnderWay(S)' /\ About(l, Waited) = UnderWay(S)
  BY DEF About, S
<1>9. ~Registered(l[1]) => unanswered'[l] = unanswered[l]
  BY <1>4, <1>5
<1>10. Registered(l[1]) => About(l, Waited)' - unanswered'[l]
                             = About(l, Waited) - unanswered[l] - c + Balance(g, l)
  BY <1>3, <1>4, <1>5, <1>6, <1>7, <1>8
<1> QED BY <1>9, <1>10 DEF c, S

\* The sessions' tags are of commands and responses.
LEMMA TagCount ==
    ASSUME NEW m, NEW l
    PROVE  /\ m.op \in Commands => Count(MTag(m), {l} \X Waited) = One(m.key = l)
           /\ m.op = "response" /\ m.then.cont \in Conts
              => Count(MTag(m), {l} \X Waited) = One(m.then.key = l /\ m.then.cont # "erase")
           /\ m.op \notin Commands \cup {"response"} => Count(MTag(m), {l} \X Waited) = 0
<1>1. /\ Waited \subseteq Commands \cup Conts /\ Commands \subseteq Waited
      /\ \A c \in Conts : c \in Waited <=> c # "erase"
  BY DEF Waited, Commands, Conts
<1>2. /\ Count(<<"none", "none">>, {l} \X Waited) = 0
      /\ \A k, c : Count(<<k, c>>, {l} \X Waited) = IF k = l /\ c \in Waited THEN 1 ELSE 0
  BY <1>1, CountIn
<1>3. ASSUME m.op \in Commands PROVE Count(MTag(m), {l} \X Waited) = One(m.key = l)
  <2>1. MTag(m) = <<m.key, m.op>>
    BY <1>3 DEF MTag
  <2>2. Count(MTag(m), {l} \X Waited) = Count(<<m.key, m.op>>, {l} \X Waited)
    BY <2>1
  <2>3. Count(<<m.key, m.op>>, {l} \X Waited) = IF m.key = l /\ m.op \in Waited THEN 1 ELSE 0
    BY <1>2
  <2> QED BY <1>1, <1>3, <2>2, <2>3 DEF One
<1>4. ASSUME m.op = "response", m.then.cont \in Conts
      PROVE  Count(MTag(m), {l} \X Waited) = One(m.then.key = l /\ m.then.cont # "erase")
  <2>1. MTag(m) = <<m.then.key, m.then.cont>>
    BY <1>4 DEF MTag, Commands
  <2>2. Count(MTag(m), {l} \X Waited) = Count(<<m.then.key, m.then.cont>>, {l} \X Waited)
    BY <2>1
  <2>3. Count(<<m.then.key, m.then.cont>>, {l} \X Waited)
          = IF m.then.key = l /\ m.then.cont \in Waited THEN 1 ELSE 0
    BY <1>2
  <2> QED BY <1>1, <1>4, <2>2, <2>3 DEF One
<1>5. ASSUME m.op \notin Commands \cup {"response"} PROVE Count(MTag(m), {l} \X Waited) = 0
  <2>1. MTag(m) = <<"none", "none">>
    BY <1>5 DEF MTag
  <2> QED BY <1>2, <2>1
<1> QED BY <1>3, <1>4, <1>5

\* What is about a session is a number.
LEMMA AboutNat ==
    ASSUME Types', NEW l, NEW K
    PROVE  About(l, K)' \in Nat
<1>1. Sq(queue') /\ Sq(mPendingMsgs') /\ Sq(api')
  BY DEF Types, QueueTypes, PendingTypes, RequestsOK
<1>2. \A S : N(MTags(queue'), S) \in Nat /\ N(MTags(mPendingMsgs'), S) \in Nat
             /\ N(RTags(api'), S) \in Nat
  BY <1>1, TagsCount
<1>3. Way(queue', mPendingMsgs', api', {l} \X K) \in Nat
  BY <1>2 DEF Way
<1> QED BY <1>3 DEF About, UnderWay

\* When every command of a session is answered: its client has not gone, changed no
\* callbacks, and the modem did not restart.
Answering(l) ==
    restarts = 0 /\ "add" \notin use /\ l[1] \in live /\ (~failed \/ ~known)

Lessens(l) ==
    \/ /\ ~Registered(l[1]) \/ (Head(queue).op = "remove" /\ l[1] = Head(queue).client)
       /\ unanswered'[l] = unanswered[l]
    \/ /\ Registered(l[1])
       /\ About(l, Waited)' - unanswered'[l] <= About(l, Waited) - unanswered[l]
       /\ Answering(l)
          => About(l, Waited)' - unanswered'[l] = About(l, Waited) - unanswered[l]

\* What is about a session, less what it is owed, does not grow as a message is handled, and
\* stays what it is if it is answered.
LEMMA HandledAbout ==
    ASSUME Types, Comings, Boots, Succeeded, HandleMsg, NEW l \in Keys
    PROVE  Lessens(l)
<1> DEFINE m == Head(queue)
           A == About(l, Waited)
           B == About(l, Waited)'
           u == unanswered[l]
           v == unanswered'[l]
           c == Count(MTag(m), {l} \X Waited)
<1>1. /\ queue # <<>> /\ queue' = Tail(queue) \o Resent(m) /\ Handler(m) /\ MessageOK(m, calls)
  BY HandlerIs
<1>2. /\ m.op \in Commands => c = One(m.key = l)
      /\ m.op = "response" /\ m.then.cont \in Conts => c = One(m.then.key = l /\ m.then.cont # "erase")
      /\ m.op \notin Commands \cup {"response"} => c = 0
  BY TagCount
<1>3. \A g : /\ HandlingOK(g) /\ Commit(g)
             /\ \/ m.op # "engineUp" /\ UNCHANGED mPendingMsgs
                \/ m.op = "engineUp" /\ mPendingMsgs' = <<>>
             => /\ ~Registered(l[1]) => v = u
                /\ Registered(l[1]) => B - v = A - u - c + Balance(g, l)
  BY <1>1, OwedTo
<1>4. \A q : /\ Sq(q) /\ api' = api \o q /\ \A j \in DOMAIN q : q[j].then = NoThen
             /\ m.op # "engineUp" /\ UNCHANGED mPendingMsgs
             => B = A - c
  <2> SUFFICES ASSUME NEW q, Sq(q), api' = api \o q, \A j \in DOMAIN q : q[j].then = NoThen,
                      m.op # "engineUp", UNCHANGED mPendingMsgs
               PROVE  B = A - c
    OBVIOUS
  <2>1. Waited \subseteq Commands \cup Conts
    BY DEF Waited
  <2>2. N(RTags(q), {l} \X Waited) = 0
    BY <2>1, NotAsked DEF Without2
  <2>3. UnderWay({l} \X Waited)' = UnderWay({l} \X Waited) - c + N(RTags(q), {l} \X Waited)
    BY <1>1, HandledFlow
  <2>4. UnderWay({l} \X Waited) \in Nat /\ c \in Nat
    BY WayIs DEF Count
  <2> QED BY <2>2, <2>3, <2>4 DEF About
<1>5. m.op # "engineUp" /\ Pend(m) => B = A
  <2> SUFFICES ASSUME m.op # "engineUp", Pend(m) PROVE B = A
    OBVIOUS
  <2>1. UnderWay({l} \X Waited)' = UnderWay({l} \X Waited)
    BY <1>1, PendFlow
  <2> QED BY <2>1 DEF About
<1>6. A \in Nat /\ u \in Int /\ c \in Nat
  BY WayIs DEF About, Types, AnswerTypes, Count
<1>7. m \in Range(queue)
  BY <1>1, RangeIs DEF Types, QueueTypes
<1>8. Count(MTag(m), {l} \X Restarting) \in 0..About(l, Restarting)
  BY <1>1, HeadCounted DEF About
<1> DEFINE Goal ==
       \/ (~Registered(l[1]) \/ (m.op = "remove" /\ l[1] = m.client)) /\ v = u
       \/ Registered(l[1]) /\ B - v <= A - u /\ (Answering(l) => B - v = A - u)
<1>17. Goal => Lessens(l)
  BY DEF Lessens
<1> HIDE DEF m, A, B, u, v, c
<1>9. \A g : /\ HandlingOK(g) /\ Commit(g)
             /\ \/ m.op # "engineUp" /\ UNCHANGED mPendingMsgs
                \/ m.op = "engineUp" /\ mPendingMsgs' = <<>>
             /\ Balance(g, l) = c \/ (Balance(g, l) = 0 /\ (Registered(l[1]) /\ Answering(l) => c = 0))
             => Goal
  <2> SUFFICES ASSUME NEW g, HandlingOK(g), Commit(g),
                      \/ m.op # "engineUp" /\ UNCHANGED mPendingMsgs
                      \/ m.op = "engineUp" /\ mPendingMsgs' = <<>>,
                      Balance(g, l) = c \/ (Balance(g, l) = 0 /\ (Registered(l[1]) /\ Answering(l) => c = 0))
               PROVE  Goal
    OBVIOUS
  <2>3. /\ ~Registered(l[1]) => v = u
        /\ Registered(l[1]) => B - v = A - u - c + Balance(g, l)
    BY <1>3
  <2>1. CASE ~Registered(l[1])
    BY <2>1, <2>3
  <2>2. CASE Registered(l[1])
    <3>1. B - v = A - u - c + Balance(g, l)
      BY <2>2, <2>3
    <3> QED BY <1>6, <2>2, <3>1
  <2> QED BY <2>1, <2>2
<1>10. CASE Waiting(m)
  <2>1. B = A /\ v = u
    BY <1>5, <1>10 DEF Waiting, Pend, u, v
  <2>2. Goal
    BY <1>6, <2>1
  <2> QED BY <1>17, <2>2
<1>11. CASE TrackHandled(m)
  <2>1. PICK g : /\ HandlingOK(g) /\ Commit(g) /\ TrackMakes(g, m) /\ UNCHANGED mPendingMsgs
    BY <1>11 DEF TrackHandled
  <2>2. m.op \in Commands /\ m.key \in Keys /\ m.op # "engineUp"
    BY <1>11 DEF TrackHandled, Commands
  <2>3. \/ Balance(g, l) = One(m.key = l)
        \/ /\ m.op = "start" /\ ~hasCallbacksToStartTracking(m.key[1])
           /\ Balance(g, l) = 0
    BY <1>1, <2>1, <2>2, TrackBalance
  <2>4. ASSUME ~hasCallbacksToStartTracking(m.key[1]), Answering(l) PROVE c = 0
    <3>1. m.key[1] # l[1]
      BY <2>4 DEF hasCallbacksToStartTracking, Answering, Comings, Registered
    <3>2. m.key # l
      BY <3>1
    <3> QED BY <1>2, <2>2, <3>2 DEF One
  <2>5. Balance(g, l) = c \/ (Balance(g, l) = 0 /\ (Registered(l[1]) /\ Answering(l) => c = 0))
    BY <1>2, <2>2, <2>3, <2>4
  <2>6. Goal
    BY <1>9, <2>1, <2>2, <2>5
  <2> QED BY <1>17, <2>6
<1>12. CASE RemoveHandled(m)
  <2>1. PICK g : /\ HandlingOK(g) /\ Commit(g) /\ RemoveMakes(g, m.client) /\ UNCHANGED mPendingMsgs
    BY <1>12 DEF RemoveHandled
  <2>2. m.op = "remove"
    BY <1>12 DEF RemoveHandled
  <2>3. CASE l[1] = m.client
    <3>1. g.answers = <<>>
      BY <2>1 DEF RemoveMakes, Makes
    <3>2. Told(g, l) = 0
      <4>1. {j \in DOMAIN g.answers : g.answers[j] = l} = {}
        BY <3>1
      <4> QED BY <4>1, FS_EmptySet DEF Told
    <3>3. v = u - Told(g, l)
      BY <2>1 DEF Commit, u, v
    <3>4. v = u
      BY <1>6, <3>2, <3>3
    <3>5. Goal
      BY <2>2, <2>3, <3>4
    <3> QED BY <1>17, <3>5
  <2>4. CASE l[1] # m.client
    <3>1. Balance(g, l) = 0
      BY <2>1, <2>4, RemoveAsks
    <3>2. c = 0
      BY <1>2, <2>2 DEF Commands
    <3>3. Goal
      BY <1>9, <2>1, <2>2, <3>1, <3>2
    <3> QED BY <1>17, <3>3
  <2> QED BY <2>3, <2>4
<1>13. CASE AddClient(m) \/ Enable(m) \/ Disable(m)
  <2>1. /\ m.op \in {"add", "enable", "disable"} /\ UNCHANGED <<mPendingMsgs, unanswered>>
        /\ \E q : /\ Sq(q) /\ api' = api \o q
                  /\ \A j \in DOMAIN q : q[j].then = NoThen
    BY <1>13, PassedIs
  <2>2. B = A - c /\ c = 0 /\ v = u
    BY <1>2, <1>4, <2>1 DEF Commands, u, v
  <2>3. Goal
    BY <1>6, <2>2
  <2> QED BY <1>17, <2>3
<1>14. CASE ResponseHandled(m)
  <2>1. PICK g : /\ HandlingOK(g) /\ Commit(g) /\ ContinueMakes(g, m.then, m.ok)
                 /\ UNCHANGED mPendingMsgs
    BY <1>14 DEF ResponseHandled
  <2>2. m.op = "response" /\ ThenOK(m.then) /\ m.then # NoThen /\ m.ok \in BOOLEAN
    BY <1>14 DEF ResponseHandled
  <2>3. m.then.cont \in Conts
    BY <2>2 DEF ThenOK
  <2>4. \/ Balance(g, l) = One(m.then.key = l /\ m.then.cont # "erase")
        \/ m.then.cont = "restart" /\ ~m.ok /\ Balance(g, l) = 0
    BY <2>1, <2>2, RespondBalance
  <2>5. ASSUME m.then.cont = "restart", ~m.ok, Answering(l) PROVE c = 0
    <3>1. failed
      BY <1>7, <2>2, <2>5 DEF Succeeded
    <3>2. ~known
      BY <2>5, <3>1 DEF Answering
    <3>3. About(l, Restarting) = 0
      BY <3>2 DEF Boots, Restarting
    <3>4. Count(MTag(m), {l} \X Restarting) = 0
      BY <1>8, <3>3
    <3>5. MTag(m) = <<m.then.key, "restart">> /\ "restart" \in Restarting
      BY <2>2, <2>5 DEF MTag, Commands, Restarting
    <3>6. <<m.then.key, "restart">> \notin {l} \X Restarting
      BY <3>4, <3>5 DEF Count
    <3>7. m.then.key # l
      BY <3>5, <3>6
    <3> QED BY <1>2, <2>2, <2>3, <3>7 DEF One
  <2>6. Balance(g, l) = c \/ (Balance(g, l) = 0 /\ (Registered(l[1]) /\ Answering(l) => c = 0))
    BY <1>2, <2>2, <2>3, <2>4, <2>5
  <2>7. Goal
    BY <1>9, <2>1, <2>2, <2>6
  <2> QED BY <1>17, <2>7
<1>15. CASE ConfigHandled(m)
  <2>1. PICK g : HandlingOK(g) /\ Commit(g) /\ ConfigMakes(g, m) /\ UNCHANGED mPendingMsgs
    BY <1>15 DEF ConfigHandled, ConfTo
  <2>2. m.op = "config"
    BY <1>15 DEF ConfigHandled
  <2>3. Balance(g, l) = 0
    BY <2>1, ConfigSilent, SilentIs
  <2>4. c = 0
    BY <1>2, <2>2 DEF Commands
  <2>5. Goal
    BY <1>9, <2>1, <2>2, <2>3, <2>4
  <2> QED BY <1>17, <2>5
<1>16. CASE EngineUpHandled(m)
  <2>1. PICK g : /\ HandlingOK(g) /\ Commit(g)
                 /\ Restarts(g, timeBased, distanceBased, <<setConfig, Lists>>, <<>>)
    BY <1>16 DEF EngineUpHandled
  <2>2. m.op = "engineUp" /\ mPendingMsgs' = <<>>
    BY <1>16 DEF EngineUpHandled
  <2>3. Balance(g, l) = 0
    BY <2>1, ConfigSilent, SilentIs
  <2>4. c = 0
    BY <1>2, <2>2 DEF Commands
  <2>5. Goal
    BY <1>9, <2>1, <2>2, <2>3, <2>4
  <2> QED BY <1>17, <2>5
<1> QED BY <1>1, <1>10, <1>11, <1>12, <1>13, <1>14, <1>15, <1>16 DEF Handler

\* What sessions are owed, as a message is handled.
LEMMA HandledOwed ==
    ASSUME Types, Types', Comings, Comings', Boots, Succeeded, Owed, HandleMsg
    PROVE  Owed'
<1>1. /\ queue # <<>> /\ Handler(Head(queue)) /\ UNCHANGED <<use, live, restarts>>
  BY HandlerIs
<1>2. failed' = failed /\ (~known' => ~known)
  BY <1>1 DEF Handler, Waiting, Pend, TrackHandled, RemoveHandled, AddClient, ResponseHandled,
          Enable, Disable, sessions, ConfigHandled, ConfTo, EngineUpHandled
<1>3. Head(queue).op = "remove" => Head(queue).client \notin DOMAIN mClientData'
  <2>1. SUFFICES ASSUME Head(queue).op = "remove"
                 PROVE  Head(queue).client \notin DOMAIN mClientData'
    OBVIOUS
  <2>2. mClientData' = Drop(mClientData, Head(queue).client)
    BY <1>1, <2>1 DEF Handler, Waiting, PendingOK, TrackHandled, Commands, RemoveHandled, AddClient,
          ResponseHandled, Enable, Disable, ConfigHandled, EngineUpHandled
  <2>3. DOMAIN mClientData' = DOMAIN mClientData \ {Head(queue).client}
    BY <2>2, DropIs
  <2> QED BY <2>3
<1>4. ASSUME NEW l \in Keys, Registered(l[1])' PROVE Registered(l[1])
  <2>1. CASE Head(queue).op = "add" /\ mClientData' = With(mClientData, Head(queue).client, Head(queue).tracks)
    <3>1. DOMAIN mClientData' = DOMAIN mClientData \cup {Head(queue).client}
      BY <2>1, WithDomain
    <3>2. Head(queue) \in Range(queue)
      BY <1>1, RangeIs DEF Types, QueueTypes
    <3>3. Registered(Head(queue).client)
      BY <2>1, <3>2 DEF Comings
    <3> QED BY <1>4, <3>1, <3>3 DEF Registered
  <2>2. CASE mClientData' = Drop(mClientData, Head(queue).client)
    <3>1. DOMAIN mClientData' = DOMAIN mClientData \ {Head(queue).client}
      BY <2>2, DropIs
    <3> QED BY <1>4, <3>1 DEF Registered
  <2>3. CASE UNCHANGED mClientData
    BY <1>4, <2>3 DEF Registered
  <2> QED BY <1>1, <2>1, <2>2, <2>3, ClientsAre
<1>5. ASSUME NEW l \in Keys
      PROVE  /\ unanswered'[l] >= 0
             /\ Registered(l[1])' => About(l, Waited)' <= unanswered'[l]
             /\ Answering(l)' => About(l, Waited)' = unanswered'[l]
  <2>1. About(l, Waited)' \in Nat /\ unanswered'[l] \in Int
    BY AboutNat DEF Types, AnswerTypes
  <2>2. About(l, Waited) \in Nat /\ unanswered[l] \in Int
    BY WayIs DEF About, Types, AnswerTypes
  <2>3. /\ unanswered[l] >= 0
        /\ Registered(l[1]) => About(l, Waited) <= unanswered[l]
        /\ Answering(l) => About(l, Waited) = unanswered[l]
    BY DEF Owed, Answering
  <2>4. Answering(l)' => Answering(l)
    BY <1>1, <1>2 DEF Answering
  <2>5. Answering(l)' => Registered(l[1])'
    BY DEF Answering, Comings
  <2>6. CASE /\ ~Registered(l[1]) \/ (Head(queue).op = "remove" /\ l[1] = Head(queue).client)
             /\ unanswered'[l] = unanswered[l]
    <3>1. ~Registered(l[1])'
      BY <1>3, <1>4, <2>6 DEF Registered
    <3> QED BY <2>3, <2>5, <2>6, <3>1
  <2>7. CASE /\ Registered(l[1])
             /\ About(l, Waited)' - unanswered'[l] <= About(l, Waited) - unanswered[l]
             /\ Answering(l) => About(l, Waited)' - unanswered'[l] = About(l, Waited) - unanswered[l]
    <3>1. About(l, Waited)' <= unanswered'[l]
      BY <2>1, <2>2, <2>3, <2>7
    <3>2. Answering(l)' => About(l, Waited)' = unanswered'[l]
      BY <2>1, <2>2, <2>3, <2>4, <2>7
    <3> QED BY <2>1, <3>1, <3>2
  <2>9. Lessens(l)
    BY HandledAbout
  <2> QED BY <2>6, <2>7, <2>9 DEF Lessens
<1> QED BY <1>5 DEF Owed, Answering

-----------------------------------------------------------------------------
(* The parts of the invariant, as LocApi, the modem and the clients step.    *)

\* A command, and whom it is about.
Commanded(op, m) ==
    /\ Post(op, m) /\ m.op = op
    /\ \/ /\ op = "start" /\ m.key = <<m.key[1], calls + 1>> /\ m.key[1] \in live
          /\ m.key \in Keys /\ m.options \in OptionSet
          /\ Expect(m.key) /\ started' = started \cup {m.key} /\ UNCHANGED live
       \/ /\ op = "update" /\ m.key \in started /\ m.key \in Keys /\ m.options \in OptionSet
          /\ MaySend(m.key) /\ Expect(m.key) /\ UNCHANGED <<live, started>>
       \/ /\ op = "stop" /\ m.key \in started /\ m.key \in Keys
          /\ MaySend(m.key) /\ Expect(m.key) /\ started' = started \ {m.key} /\ UNCHANGED live
       \/ /\ op = "remove" /\ m.client \in live /\ live' = live \ {m.client}
          /\ started' = {key \in started : key[1] # m.client} /\ UNCHANGED unanswered
       \/ op = "add" /\ m.client \in live /\ UNCHANGED <<live, started, unanswered>>
       \/ op \in {"enable", "disable", "config"} /\ UNCHANGED <<live, started, unanswered>>

\* Each command of the clients is one of these.
LEMMA CommandIs ==
    ASSUME Types, Command
    PROVE  \E op, m : Commanded(op, m)
<1>0. /\ calls \in Nat /\ live \subseteq Clients /\ started \subseteq Keys
  <2>1. TypeOK
    BY TypesGive
  <2> QED BY <2>1, CallsAre DEF Types, ClientTypes, TypeOK
<1>1. CASE startTrackingCommand
  <2>1. PICK c \in live, o \in OptionSet :
          /\ Post("start", [op |-> "start", key |-> <<c, Id>>, options |-> o])
          /\ started' = started \cup {<<c, Id>>} /\ Expect(<<c, Id>>) /\ UNCHANGED live
    BY <1>1 DEF startTrackingCommand
  <2> DEFINE key == <<c, Id>>
             m == [op |-> "start", key |-> key, options |-> o]
  <2>2. key \in Keys
    <3>1. Id \in Ids
      <4>1. calls < MaxCalls[use] /\ MaxCalls[use] \in Nat /\ use \in Uses
        BY <2>1, CallsAre DEF Post
      <4>2. Id \in 1..MaxCalls[use]
        BY <1>0, <4>1 DEF Id
      <4> QED BY <4>1, <4>2 DEF Ids
    <3> QED BY <1>0, <3>1 DEF Keys
  <2>3. m.op = "start" /\ m.key = key /\ m.options = o /\ key[1] = c /\ key = <<c, calls + 1>>
    BY DEF Id
  <2>4. Post("start", m) /\ started' = started \cup {key} /\ Expect(key) /\ UNCHANGED live
    BY <2>1
  <2> HIDE DEF key, m
  <2>5. Commanded("start", m)
    BY <2>2, <2>3, <2>4 DEF Commanded
  <2> QED BY <2>5
<1>2. CASE updateTrackingOptionsCommand
  <2>1. PICK key \in started, o \in OptionSet :
          /\ MaySend(key)
          /\ Post("update", [op |-> "update", key |-> key, options |-> o])
          /\ Expect(key) /\ UNCHANGED <<live, started>>
    BY <1>2 DEF updateTrackingOptionsCommand
  <2> DEFINE m == [op |-> "update", key |-> key, options |-> o]
  <2>2. m.op = "update" /\ m.key = key /\ m.options = o /\ key \in Keys
    BY <1>0
  <2>3. Post("update", m)
    BY <2>1
  <2> HIDE DEF m
  <2>4. Commanded("update", m)
    BY <2>1, <2>2, <2>3 DEF Commanded
  <2> QED BY <2>4
<1>3. CASE stopTrackingCommand
  <2>1. PICK key \in started :
          /\ MaySend(key)
          /\ Post("stop", [op |-> "stop", key |-> key])
          /\ started' = started \ {key} /\ Expect(key) /\ UNCHANGED live
    BY <1>3 DEF stopTrackingCommand
  <2> DEFINE m == [op |-> "stop", key |-> key]
  <2>2. m.op = "stop" /\ m.key = key /\ key \in Keys
    BY <1>0
  <2>3. Post("stop", m)
    BY <2>1
  <2> HIDE DEF m
  <2>4. Commanded("stop", m)
    BY <2>1, <2>2, <2>3 DEF Commanded
  <2> QED BY <2>4
<1>4. CASE removeClientCommand
  <2>1. PICK c \in live :
          /\ Post("remove", [op |-> "remove", client |-> c])
          /\ live' = live \ {c} /\ started' = {key \in started : key[1] # c}
          /\ UNCHANGED unanswered
    BY <1>4 DEF removeClientCommand
  <2> DEFINE m == [op |-> "remove", client |-> c]
  <2>2. m.op = "remove" /\ m.client = c
    OBVIOUS
  <2>3. Post("remove", m)
    BY <2>1
  <2> HIDE DEF m
  <2>4. Commanded("remove", m)
    BY <2>1, <2>2, <2>3 DEF Commanded
  <2> QED BY <2>4
<1>5. CASE addClientCommand
  <2>1. PICK c \in live, tracks \in BOOLEAN :
          /\ Post("add", [op |-> "add", client |-> c, tracks |-> tracks])
          /\ UNCHANGED <<live, started, unanswered>>
    BY <1>5 DEF addClientCommand
  <2> DEFINE m == [op |-> "add", client |-> c, tracks |-> tracks]
  <2>2. m.op = "add" /\ m.client = c
    OBVIOUS
  <2>3. Post("add", m)
    BY <2>1
  <2> HIDE DEF m
  <2>4. Commanded("add", m)
    BY <2>1, <2>2, <2>3 DEF Commanded
  <2> QED BY <2>4
<1>6. CASE enableCommand \/ disableCommand \/ gnssUpdateConfigCommand
  <2>1. \E op, m : /\ op \in {"enable", "disable", "config"} /\ m.op = op /\ Post(op, m)
                   /\ UNCHANGED <<live, started, unanswered>>
    <3>1. CASE enableCommand
      <4> DEFINE m == [op |-> "enable", id |-> Id]
      <4>1. m.op = "enable" /\ Post("enable", m) /\ UNCHANGED <<live, started, unanswered>>
        BY <3>1 DEF enableCommand
      <4> QED BY <4>1
    <3>2. CASE disableCommand
      <4>1. PICK id \in 1..calls : /\ Post("disable", [op |-> "disable", id |-> id])
                                   /\ UNCHANGED <<live, started, unanswered>>
        BY <3>2 DEF disableCommand
      <4> DEFINE m == [op |-> "disable", id |-> id]
      <4>2. m.op = "disable" /\ Post("disable", m)
        BY <4>1
      <4> QED BY <4>1, <4>2
    <3>3. CASE gnssUpdateConfigCommand
      <4>1. PICK config \in ConfigSet : /\ Post("config", [op |-> "config", config |-> config])
                                        /\ UNCHANGED <<live, started, unanswered>>
        BY <3>3 DEF gnssUpdateConfigCommand
      <4> DEFINE m == [op |-> "config", config |-> config]
      <4>2. m.op = "config" /\ Post("config", m)
        BY <4>1
      <4> QED BY <4>1, <4>2
    <3> QED BY <1>6, <3>1, <3>2, <3>3
  <2>2. PICK op, m : /\ op \in {"enable", "disable", "config"} /\ m.op = op /\ Post(op, m)
                     /\ UNCHANGED <<live, started, unanswered>>
    BY <2>1
  <2>3. Commanded(op, m)
    BY <2>2 DEF Commanded
  <2> QED BY <2>3
<1> QED BY <1>1, <1>2, <1>3, <1>4, <1>5, <1>6 DEF Command

\* One more command.
LEMMA CommandBooks ==
    ASSUME Types, Books, Command
    PROVE  Books'
<1>1. PICK op, m : Commanded(op, m)
  BY CommandIs
<1>2. /\ op \in use /\ queue' = Append(queue, m) /\ m.op = op
      /\ UNCHANGED <<use, api, modem, restarts, timeBased, distanceBased, mPendingMsgs, known,
                     mClientData, failed>>
  BY <1>1 DEF Commanded, Post, sessions
<1>3. op \in {"start", "update", "stop", "remove", "add", "enable", "disable", "config"}
  BY <1>1 DEF Commanded
<1>4. /\ op = "add" => m.client \in live /\ live' = live
      /\ op = "remove" => m.client \in live /\ live' = live \ {m.client}
      /\ live' \subseteq live
  BY <1>1 DEF Commanded
<1>5. Sq(queue) /\ Range(queue') = Range(queue) \cup {m}
  BY <1>2, RangeIs DEF Types, QueueTypes
<1>6. Comings'
  <2>1. \A c \in live' : Registered(c)'
    BY <1>2, <1>4 DEF Books, Comings, Registered
  <2>2. \A n \in Range(queue') : n.op = "remove" => n.client \notin live'
    BY <1>2, <1>4, <1>5 DEF Books, Comings
  <2>3. \A n \in Range(queue') : n.op = "add" => Registered(n.client)'
    BY <1>2, <1>4, <1>5 DEF Books, Comings, Registered
  <2>4. "add" \notin use' => /\ \A n \in Range(queue') : n.op # "add"
                             /\ \A c \in DOMAIN mClientData' : mClientData'[c] = TRUE
    BY <1>2, <1>5 DEF Books, Comings
  <2>5. \A i, j \in DOMAIN queue' : i < j /\ queue'[i].op = "remove" /\ queue'[j].op = "add"
                                    => queue'[i].client # queue'[j].client
    <3> SUFFICES ASSUME NEW i \in DOMAIN queue', NEW j \in DOMAIN queue', i < j,
                        queue'[i].op = "remove", queue'[j].op = "add"
                 PROVE  queue'[i].client # queue'[j].client
      OBVIOUS
    <3>1. /\ Len(queue) \in Nat /\ DOMAIN queue = 1..Len(queue)
          /\ DOMAIN queue' = 1..(Len(queue) + 1)
          /\ \A k \in 1..Len(queue) : queue'[k] = queue[k]
          /\ queue'[Len(queue) + 1] = m
      BY <1>2, <1>5, SqAppend, SqOf
    <3>2. i \in 1..Len(queue) /\ (j \in 1..Len(queue) \/ j = Len(queue) + 1)
      BY <3>1
    <3>3. CASE j \in 1..Len(queue)
      BY <3>1, <3>2, <3>3 DEF Books, Comings
    <3>4. CASE j = Len(queue) + 1
      <4>1. m.client \in live /\ queue'[j] = m
        BY <1>2, <1>4, <3>1, <3>4
      <4>2. queue'[i] \in Range(queue)
        BY <3>1, <3>2 DEF Range
      <4> QED BY <4>1, <4>2 DEF Books, Comings
    <3> QED BY <3>2, <3>3, <3>4
  <2> QED BY <2>1, <2>2, <2>3, <2>4, <2>5 DEF Comings
<1>7. /\ Restarting \subseteq Commands \cup Conts /\ Waited \subseteq Commands \cup Conts
  BY DEF Restarting, Waited, Conts
<1>8. \A l, K : About(l, K)' = About(l, K) + Count(MTag(m), {l} \X K)
  <2> TAKE l, K
  <2>1. UnderWay({l} \X K)' = UnderWay({l} \X K) + Count(MTag(m), {l} \X K)
    BY <1>2, PostFlow
  <2> QED BY <2>1 DEF About
<1>9. \A l : Count(MTag(m), {l} \X Restarting) = 0
  <2> TAKE l
  <2>1. m.op # "response" /\ (m.op \in Commands => m.op \notin Restarting)
    BY <1>2, <1>3 DEF Commands, Restarting
  <2>2. (MTag(m) = <<m.key, m.op>> /\ m.op \in Commands) \/ MTag(m) = <<"none", "none">>
    BY <2>1 DEF MTag
  <2>3. "none" \notin Restarting
    BY DEF Restarting
  <2> QED BY <2>1, <2>2, <2>3 DEF Count
<1>10. Boots'
  <2>1. \A l \in Keys : ~known => About(l, Restarting)' = 0
    <3> TAKE l \in Keys
    <3>1. ~known => About(l, Restarting) = 0
      BY DEF Books, Boots, Restarting
    <3>2. About(l, Restarting)' = About(l, Restarting) + Count(MTag(m), {l} \X Restarting)
      BY <1>8
    <3> QED BY <1>9, <3>1, <3>2
  <2> QED BY <1>2, <1>3, <1>5, <2>1 DEF Books, Boots, Restarting
<1>11. Succeeded'
  BY <1>2, <1>3, <1>5 DEF Books, Succeeded
<1>12. ASSUME NEW l \in Keys
       PROVE  /\ unanswered'[l] >= 0
              /\ Registered(l[1])' => About(l, Waited)' <= unanswered'[l]
              /\ Answering(l)' => About(l, Waited)' = unanswered'[l]
  <2> DEFINE c == Count(MTag(m), {l} \X Waited)
             A == About(l, Waited)
             B == About(l, Waited)'
             u == unanswered[l]
             v == unanswered'[l]
  <2>1. B = A + c
    BY <1>8
  <2>2. A \in Nat /\ u \in Int
    BY WayIs DEF About, Types, AnswerTypes
  <2>3. /\ u >= 0
        /\ Registered(l[1]) => A <= u
        /\ Answering(l) => A = u
    BY DEF Books, Owed, Answering
  <2>4. (Registered(l[1])' => Registered(l[1])) /\ (Answering(l)' => Answering(l))
    BY <1>2, <1>4 DEF Registered, Answering
  <2>5. v = u + c /\ c \in Nat
    <3>1. c \in Nat
      BY DEF Count
    <3>5. \A n, k : /\ n.op \in Commands => Count(MTag(n), {k} \X Waited) = One(n.key = k)
                    /\ n.op \notin Commands \cup {"response"}
                       => Count(MTag(n), {k} \X Waited) = 0
      <4> HIDE DEF c, A, B, u, v
      <4> TAKE n, k
      <4>1. n.op \in Commands => Count(MTag(n), {k} \X Waited) = One(n.key = k)
        BY TagCount
      <4>2. n.op \notin Commands \cup {"response"} => Count(MTag(n), {k} \X Waited) = 0
        BY TagCount
      <4> QED BY <4>1, <4>2
    <3>4. /\ m.op \in Commands => c = One(m.key = l)
          /\ m.op \notin Commands \cup {"response"} => c = 0
      BY <3>5
    <3>2. CASE op \in Commands
      <4>1. m.key \in Keys /\ Expect(m.key)
        BY <1>1, <3>2 DEF Commanded, Commands
      <4>2. unanswered' = [unanswered EXCEPT ![m.key] = unanswered[m.key] + 1]
        BY <4>1, ExpectTypes
      <4>3. c = One(m.key = l)
        BY <1>2, <3>2, <3>4
      <4>4. v = IF l = m.key THEN u + 1 ELSE u
        BY <4>1, <4>2 DEF Types, AnswerTypes
      <4> QED BY <2>2, <3>1, <4>3, <4>4 DEF One
    <3>3. CASE op \notin Commands
      <4>1. v = u
        BY <1>1, <3>3 DEF Commanded, Commands
      <4>2. c = 0
        BY <1>2, <1>3, <3>3, <3>4
      <4> QED BY <2>2, <4>1, <4>2
    <3> QED BY <3>2, <3>3
  <2> HIDE DEF A, B, c, u, v
  <2>6. v >= 0 /\ (Registered(l[1])' => B <= v) /\ (Answering(l)' => B = v)
    BY <2>1, <2>2, <2>3, <2>4, <2>5
  <2> QED BY <2>6 DEF B, v
<1>13. Owed'
  BY <1>12 DEF Owed, Answering
<1> QED BY <1>6, <1>10, <1>11, <1>13 DEF Books

\* What LocApi's step does: its request taken, wholly or not, and answered.
LEMMA LocApiIs ==
    ASSUME Types, LocApiStep
    PROVE  /\ api # <<>> /\ api' = Tail(api) /\ modem'.up = modem.up
           /\ UNCHANGED <<use, calls, live, started, restarts, timeBased, distanceBased,
                          mPendingMsgs, known, mClientData, configuration, unanswered>>
           /\ \E ok \in BOOLEAN :
                /\ failed' = (failed \/ ~ok)
                /\ ok => modem.up \/ (Head(api).do = "config" /\ Head(api).need = {})
                /\ ok => modem' = IF Head(api).do = "config"
                                  THEN gnssUpdateConfig(Head(api), Head(api).need)
                                  ELSE Performed(Head(api))
                /\ queue' = IF Head(api).then = NoThen THEN queue
                            ELSE Append(queue, [op |-> "response", then |-> Head(api).then, ok |-> ok])
<1> DEFINE r == Head(api)
<1>1. /\ api # <<>> /\ api' = Tail(api)
      /\ UNCHANGED <<use, calls, live, started, restarts, timeBased, distanceBased,
                     mPendingMsgs, known, mClientData, configuration, unanswered>>
  BY DEF LocApiStep, clientVars, sessions
<1>2. PICK taken \in SUBSET Parts(r) :
        LET ok == taken = Parts(r)
        IN  /\ taken # {} => modem.up
            /\ modem' = IF r.do = "config" THEN gnssUpdateConfig(r, taken)
                        ELSE IF ok THEN Performed(r) ELSE modem
            /\ failed' = (failed \/ ~ok)
            /\ queue' = IF r.then = NoThen THEN queue
                        ELSE Append(queue, [op |-> "response", then |-> r.then, ok |-> ok])
  BY DEF LocApiStep
<1>3. RequestOK(r)
  <2>1. Sq(api)
    BY DEF Types, RequestsOK
  <2>2. Len(api) \in Nat \ {0} /\ Head(api) = api[1] /\ DOMAIN api = 1..Len(api)
    BY <1>1, <2>1, SqTail, SqOf
  <2>3. 1 \in DOMAIN api
    BY <2>2
  <2> QED BY <2>2, <2>3 DEF Types, RequestsOK
<1> HIDE DEF r
<1>4. modem = [up |-> modem.up, fix |-> modem.fix, distance |-> modem.distance,
               lock |-> modem.lock, version |-> modem.version, blacklist |-> modem.blacklist]
  BY DEF Types, ModemTypes
<1>5. modem'.up = modem.up
  <2>1. CASE r.do = "config"
    <3>1. modem' = gnssUpdateConfig(r, taken)
      BY <1>2, <2>1
    <3>2. gnssUpdateConfig(r, taken).up = modem.up
      BY <1>4 DEF gnssUpdateConfig
    <3> QED BY <3>1, <3>2
  <2>2. CASE r.do # "config"
    <3>1. modem' = Performed(r) \/ modem' = modem
      BY <1>2, <2>2
    <3>2. r.do \in {"startFix", "stopFix", "startDistance", "stopDistance", "lock", "blacklist"}
      BY <1>3, <2>2 DEF RequestOK
    <3>3. Performed(r).up = modem.up
      BY <1>4, <3>2 DEF Performed
    <3> QED BY <3>1, <3>3
  <2> QED BY <2>1, <2>2
<1>6. \E ok \in BOOLEAN :
                /\ failed' = (failed \/ ~ok)
                /\ ok => modem.up \/ (r.do = "config" /\ r.need = {})
                /\ ok => modem' = IF r.do = "config" THEN gnssUpdateConfig(r, r.need)
                                  ELSE Performed(r)
                /\ queue' = IF r.then = NoThen THEN queue
                            ELSE Append(queue, [op |-> "response", then |-> r.then, ok |-> ok])
  <2> DEFINE ok == taken = Parts(r)
  <2>1. ok \in BOOLEAN
    OBVIOUS
  <2>2. ok => modem.up \/ (r.do = "config" /\ r.need = {})
    BY <1>2 DEF Parts
  <2>3. ok => modem' = IF r.do = "config" THEN gnssUpdateConfig(r, r.need) ELSE Performed(r)
    BY <1>2 DEF Parts
  <2>4. failed' = (failed \/ ~ok)
    BY <1>2
  <2>5. queue' = IF r.then = NoThen THEN queue
                 ELSE Append(queue, [op |-> "response", then |-> r.then, ok |-> ok])
    BY <1>2
  <2> HIDE DEF ok
  <2> QED BY <2>1, <2>2, <2>3, <2>4, <2>5
<1> QED BY <1>1, <1>5, <1>6 DEF r

\* A request is performed.
LEMMA LocApiBooks ==
    ASSUME Types, Books, LocApiStep
    PROVE  Books'
<1> DEFINE r == Head(api)
<1>1. /\ modem'.up = modem.up
      /\ UNCHANGED <<use, calls, live, started, restarts, timeBased, distanceBased,
                     mPendingMsgs, known, mClientData, configuration, unanswered>>
  BY LocApiIs
<1>2. PICK ok \in BOOLEAN :
        /\ failed' = (failed \/ ~ok)
        /\ queue' = IF r.then = NoThen THEN queue
                    ELSE Append(queue, [op |-> "response", then |-> r.then, ok |-> ok])
  BY LocApiIs
<1> HIDE DEF r
<1>3. Sq(queue)
  BY DEF Types, QueueTypes
<1>4. /\ \A n \in Range(queue') : n \in Range(queue) \/ (n.op = "response" /\ n.ok = ok)
      /\ Range(queue) \subseteq Range(queue')
      /\ \A i, j \in DOMAIN queue' : i < j /\ queue'[j].op # "response"
           => /\ i \in DOMAIN queue /\ j \in DOMAIN queue
              /\ queue'[i] = queue[i] /\ queue'[j] = queue[j]
  <2>1. CASE queue' = queue
    BY <2>1
  <2>2. ASSUME NEW m, m.op = "response", m.ok = ok, queue' = Append(queue, m)
        PROVE  /\ \A n \in Range(queue') : n \in Range(queue) \/ (n.op = "response" /\ n.ok = ok)
               /\ Range(queue) \subseteq Range(queue')
               /\ \A i, j \in DOMAIN queue' : i < j /\ queue'[j].op # "response"
                    => /\ i \in DOMAIN queue /\ j \in DOMAIN queue
                       /\ queue'[i] = queue[i] /\ queue'[j] = queue[j]
    <3>1. Range(queue') = Range(queue) \cup {m}
      BY <1>3, <2>2, RangeIs
    <3>2. /\ Len(queue) \in Nat /\ DOMAIN queue = 1..Len(queue)
          /\ DOMAIN queue' = 1..(Len(queue) + 1)
          /\ \A k \in 1..Len(queue) : queue'[k] = queue[k]
          /\ queue'[Len(queue) + 1] = m
      BY <1>3, <2>2, SqAppend, SqOf
    <3>3. ASSUME NEW i \in DOMAIN queue', NEW j \in DOMAIN queue', i < j, queue'[j].op # "response"
          PROVE  /\ i \in DOMAIN queue /\ j \in DOMAIN queue
                 /\ queue'[i] = queue[i] /\ queue'[j] = queue[j]
      <4>1. j # Len(queue) + 1
        BY <2>2, <3>2, <3>3
      <4>2. i \in 1..Len(queue) /\ j \in 1..Len(queue)
        BY <3>2, <3>3, <4>1
      <4> QED BY <3>2, <4>2
    <3> QED BY <2>2, <3>1, <3>3
  <2>3. CASE queue' = Append(queue, [op |-> "response", then |-> r.then, ok |-> ok])
    <3> DEFINE m == [op |-> "response", then |-> r.then, ok |-> ok]
    <3>1. m.op = "response" /\ m.ok = ok /\ queue' = Append(queue, m)
      BY <2>3
    <3> HIDE DEF m
    <3> QED BY <2>2, <3>1
  <2> QED BY <1>2, <2>1, <2>3
<1>5. Comings'
  <2>1. \A i, j \in DOMAIN queue' : i < j /\ queue'[i].op = "remove" /\ queue'[j].op = "add"
                                    => queue'[i].client # queue'[j].client
    BY <1>4 DEF Books, Comings
  <2> QED BY <1>1, <1>4, <2>1 DEF Books, Comings, Registered
<1>6. Restarting \subseteq Commands \cup Conts /\ Waited \subseteq Commands \cup Conts
  BY DEF Restarting, Waited, Conts
<1>7. \A l : About(l, Restarting)' = About(l, Restarting) /\ About(l, Waited)' = About(l, Waited)
  BY <1>6, LocApiFlow
<1>8. Boots'
  BY <1>1, <1>4, <1>7 DEF Books, Boots, Restarting
<1>9. Succeeded'
  <2> SUFFICES ASSUME ~failed', NEW m \in Range(queue'), m.op = "response" PROVE m.ok = TRUE
    BY DEF Succeeded
  <2>1. ~failed /\ ok = TRUE
    BY <1>2
  <2> QED BY <1>4, <2>1 DEF Books, Succeeded
<1>10. Owed'
  <2>1. ~failed' => ~failed
    BY <1>2
  <2> QED BY <1>1, <1>7, <2>1 DEF Books, Owed, Registered
<1> QED BY <1>5, <1>8, <1>9, <1>10 DEF Books

\* The modem dies, or rises.
LEMMA ModemBooks ==
    ASSUME Types, Books, ModemDies \/ ModemRises
    PROVE  Books'
<1>1. CASE ModemDies
  <2>1. /\ restarts' = restarts + 1 /\ modem' = Silent
        /\ UNCHANGED <<use, calls, live, started, queue, api, timeBased, distanceBased,
                       mPendingMsgs, known, mClientData, configuration, unanswered, failed>>
    BY <1>1 DEF ModemDies, clientVars, sessions
  <2>2. restarts \in Nat /\ restarts' # 0
    <3>1. restarts \in 0..MaxRestarts /\ MaxRestarts \in Nat
      BY ConstantsAssumption DEF Types, ClientTypes
    <3> QED BY <2>1, <3>1
  <2>3. \A l, K : About(l, K)' = About(l, K)
    BY <2>1 DEF About, UnderWay
  <2>4. Comings'
    BY <2>1 DEF Books, Comings, Registered
  <2>5. Boots'
    BY <2>1, <2>2, <2>3 DEF Books, Boots, Silent
  <2>6. Succeeded'
    BY <2>1 DEF Books, Succeeded
  <2>7. Owed'
    BY <2>1, <2>2, <2>3 DEF Books, Owed, Registered
  <2> QED BY <2>4, <2>5, <2>6, <2>7 DEF Books
<1>2. CASE ModemRises
  <2> DEFINE m == [op |-> "engineUp"]
  <2>1. /\ ~modem.up /\ modem' = [modem EXCEPT !.up = TRUE] /\ queue' = Append(queue, m)
        /\ failed' = (failed /\ (api # <<>> \/ queue # <<>>))
        /\ UNCHANGED <<use, calls, live, started, restarts, api, timeBased, distanceBased,
                       mPendingMsgs, known, mClientData, configuration, unanswered>>
    BY <1>2 DEF ModemRises, clientVars, sessions
  <2>2. m.op = "engineUp" /\ modem'.up
    BY <2>1 DEF Types, ModemTypes
  <2> HIDE DEF m
  <2>3. Sq(queue) /\ Range(queue') = Range(queue) \cup {m}
    BY <2>1, RangeIs DEF Types, QueueTypes
  <2>4. /\ Len(queue) \in Nat /\ DOMAIN queue = 1..Len(queue)
        /\ DOMAIN queue' = 1..(Len(queue) + 1)
        /\ \A k \in 1..Len(queue) : queue'[k] = queue[k]
        /\ queue'[Len(queue) + 1] = m
    BY <2>1, <2>3, SqAppend, SqOf
  <2>5. Comings'
    <3>1. \A i, j \in DOMAIN queue' : i < j /\ queue'[i].op = "remove" /\ queue'[j].op = "add"
                                      => queue'[i].client # queue'[j].client
      <4> SUFFICES ASSUME NEW i \in DOMAIN queue', NEW j \in DOMAIN queue', i < j,
                          queue'[i].op = "remove", queue'[j].op = "add"
                   PROVE  queue'[i].client # queue'[j].client
        OBVIOUS
      <4>1. j # Len(queue) + 1
        BY <2>2, <2>4
      <4>2. i \in DOMAIN queue /\ j \in DOMAIN queue /\ queue'[i] = queue[i] /\ queue'[j] = queue[j]
        BY <2>4, <4>1
      <4> QED BY <4>2 DEF Books, Comings
    <3> QED BY <2>1, <2>2, <2>3, <3>1 DEF Books, Comings, Registered
  <2>6. \A l, K : K \subseteq Commands \cup Conts => About(l, K)' = About(l, K)
    <3> SUFFICES ASSUME NEW l, NEW K, K \subseteq Commands \cup Conts
                 PROVE  About(l, K)' = About(l, K)
      OBVIOUS
    <3>1. UnderWay({l} \X K)' = UnderWay({l} \X K) + Count(MTag(m), {l} \X K)
      BY <2>1, PostFlow
    <3>2. MTag(m) = <<"none", "none">>
      BY <2>2 DEF MTag, Commands
    <3>3. Count(<<"none", "none">>, {l} \X K) = 0
      BY CountIn
    <3>4. UnderWay({l} \X K) \in Nat
      BY WayIs
    <3> QED BY <3>1, <3>2, <3>3, <3>4 DEF About
  <2>7. Restarting \subseteq Commands \cup Conts /\ Waited \subseteq Commands \cup Conts
    BY DEF Restarting, Waited, Conts
  <2>8. \A l : About(l, Restarting)' = About(l, Restarting) /\ About(l, Waited)' = About(l, Waited)
    BY <2>6, <2>7
  <2>9. Boots'
    BY <2>1, <2>2, <2>3, <2>8 DEF Books, Boots, Restarting
  <2>10. Succeeded'
    <3> SUFFICES ASSUME ~failed', NEW n \in Range(queue'), n.op = "response" PROVE n.ok = TRUE
      BY DEF Succeeded
    <3>1. n \in Range(queue)
      BY <2>2, <2>3
    <3>2. queue # <<>>
      BY <3>1, SqEmpty DEF Range
    <3> QED BY <2>1, <3>1, <3>2 DEF Books, Succeeded
  <2>11. Owed'
    <3>1. restarts = 0 => ~known
      BY <2>1 DEF Books, Boots
    <3>2. \A l \in Keys : Answering(l)' => Answering(l)
      BY <2>1, <3>1 DEF Answering
    <3> QED BY <2>1, <2>8, <3>2 DEF Books, Owed, Registered, Answering
  <2> QED BY <2>5, <2>9, <2>10, <2>11 DEF Books
<1> QED BY <1>1, <1>2

\* The books are kept by every step.
LEMMA BooksNext == ASSUME Types, Types', Books, [Next]_vars PROVE Books'
<1>1. CASE Command
  BY <1>1, CommandBooks
<1>2. CASE HandleMsg
  <2>1. Comings'
    BY <1>2, HandledComings DEF Books
  <2>2. Boots' /\ Succeeded'
    BY <1>2, HandledBoots, HandledSucceeded DEF Books
  <2>3. Owed'
    BY <1>2, <2>1, HandledOwed DEF Books
  <2> QED BY <2>1, <2>2, <2>3 DEF Books
<1>3. CASE LocApiStep
  BY <1>3, LocApiBooks
<1>4. CASE ModemDies \/ ModemRises
  BY <1>4, ModemBooks
<1>5. CASE UNCHANGED vars
  <2>1. UNCHANGED <<use, live, queue, api, modem, restarts, distanceBased, mPendingMsgs, known,
                    mClientData, unanswered, failed>>
    BY <1>5 DEF vars, clientVars, sessions
  <2>2. \A l, K : About(l, K)' = About(l, K)
    BY <2>1 DEF About, UnderWay
  <2>3. Comings' /\ Boots' /\ Succeeded'
    BY <2>1, <2>2 DEF Books, Comings, Boots, Succeeded, Registered
  <2>4. Owed'
    BY <2>1, <2>2 DEF Books, Owed, Registered
  <2> QED BY <2>3, <2>4 DEF Books
<1> QED BY <1>1, <1>2, <1>3, <1>4, <1>5 DEF Next

\* The books at first.
LEMMA BooksInit == Init => Books
<1> SUFFICES ASSUME Init PROVE Books
  OBVIOUS
<1>1. /\ queue = <<>> /\ api = <<>> /\ mPendingMsgs = <<>> /\ distanceBased = <<>>
      /\ live = Clients /\ mClientData = [c \in Clients |-> TRUE] /\ restarts = 0 /\ failed = FALSE
      /\ unanswered = [key \in Keys |-> 0]
  BY DEF Init
<1>2. Range(queue) = {} /\ DOMAIN queue = {} /\ DOMAIN distanceBased = {}
  BY <1>1, SqEmpty DEF Range
<1>3. \A l, K : About(l, K) = 0
  <2> TAKE l, K
  <2>1. N(MTags(<<>>), {l} \X K) = 0 /\ N(RTags(<<>>), {l} \X K) = 0
    BY SqEmpty, TagsCount
  <2> QED BY <1>1, <2>1 DEF About, UnderWay, Way
<1>4. Comings
  BY <1>1, <1>2 DEF Comings, Registered
<1>5. Boots
  <2>1. CASE "boot" \in use
    <3>1. known = FALSE /\ modem.up = FALSE
      BY <2>1 DEF Init, Boot, Silent
    <3> QED BY <1>2, <1>3, <3>1 DEF Boots
  <2>2. CASE "boot" \notin use
    <3>1. known = TRUE /\ modem = [Silent EXCEPT !.up = TRUE, !.lock = {MO, NI}, !.version = 1]
      BY <2>2 DEF Init, Boot
    <3>2. modem.up = TRUE
      BY <3>1 DEF Silent
    <3> QED BY <1>2, <1>3, <3>1, <3>2 DEF Boots
  <2> QED BY <2>1, <2>2
<1>6. Succeeded
  BY <1>2 DEF Succeeded
<1>7. Owed
  BY <1>1, <1>3 DEF Owed
<1> QED BY <1>4, <1>5, <1>6, <1>7 DEF Books

\* The books say what AnsweredOnce does.
LEMMA BooksGive == Types /\ Books => AnsweredOnce
<1> SUFFICES ASSUME Types, Books, NEW key \in Keys
             PROVE  /\ unanswered[key] >= 0
                    /\ Quiet /\ ~failed /\ restarts = 0 /\ key[1] \in live /\ "add" \notin use
                       => unanswered[key] = 0
  BY DEF AnsweredOnce
<1>1. unanswered[key] >= 0
  BY DEF Books, Owed
<1>2. ASSUME Quiet, ~failed, restarts = 0, key[1] \in live, "add" \notin use
      PROVE  unanswered[key] = 0
  <2>1. queue = <<>> /\ api = <<>> /\ modem.up
    BY <1>2 DEF Quiet
  <2>2. known
    <3>1. Range(queue) = {}
      BY <2>1, SqEmpty DEF Range
    <3> QED BY <2>1, <3>1 DEF Books, Boots
  <2>3. mPendingMsgs = <<>>
    BY <2>2 DEF Types, FlagTypes
  <2>4. About(key, Waited) = 0
    <3>1. N(MTags(<<>>), {key} \X Waited) = 0 /\ N(RTags(<<>>), {key} \X Waited) = 0
      BY SqEmpty, TagsCount
    <3> QED BY <2>1, <2>3, <3>1 DEF About, UnderWay, Way
  <2> QED BY <1>2, <2>4 DEF Books, Owed
<1> QED BY <1>1, <1>2

\* The books are an invariant of the specification.
THEOREM BooksKept == Spec => [](Types /\ Books)
<1>1. Init => Types /\ Books
  BY TypesInit, BooksInit
<1>2. Types /\ Books /\ [Next]_vars => (Types /\ Books)'
  BY TypesNext, BooksNext
<1> QED BY <1>1, <1>2, PTL DEF Spec

\* Every command is answered once (AnsweredOnce): no more often than it was given, whatever the
\* modem refuses and however often it restarts; and, while it does not, no command of a client
\* that is there and has its callbacks is left unanswered once all is quiet.
THEOREM AnsweredSafe == Spec => []AnsweredOnce
BY BooksKept, BooksGive, PTL
================================================================================
