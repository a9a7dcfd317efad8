---------------------------- MODULE GnssModemProofs ----------------------------
(***************************************************************************)
(* Proofs that the modem does, once all is quiet, what GnssAdapter has     *)
(* recorded (ModemAgrees).                                                 *)
(*                                                                         *)
(* Of the requests that LocApi has not performed, the last one about a     *)
(* thing decides what it will be (FixTo, DistanceTo, LockTo ...).  That    *)
(* the modem will do what is recorded is kept by every handler, but not by *)
(* itself: a session that follows a distance may be stopped, erased or     *)
(* started again by responses that are still to come.  What is under way   *)
(* about each session is therefore counted by its kind (Under), and        *)
(* related to what is recorded of it (Accounts); every message makes one   *)
(* of a few changes of a session (Row).  A response that records a session *)
(* again must find that the modem has it (RestartsInApi, RestartsInQueue); *)
(* a command of a session is not overtaken by its client's removal         *)
(* (Overtaken).                                                            *)
(***************************************************************************)
EXTENDS GnssAdapterProofs

-----------------------------------------------------------------------------
(* What may be under way about a session while it is recorded.               *)

\* Clients in a hurry change no session.
Patient == "hurry" \in use => "update" \notin use

Kinds == Commands \cup Conts

\* How many of each kind there are about a session, and how many of some kinds.
Under(l) == [k \in Kinds |-> About(l, {k})]
Serious(c) == c["start"] + c["update"] + c["stop"] + c["updated"] + c["stopped"] + c["switch"]
              + c["restart"] + c["restarted"]
Updating(c) == c["update"] + c["updated"] + c["switch"] + c["restart"] + c["restarted"]
Distant(c) == c["stopped"] + c["erase"] + c["switch"] + c["restart"] + c["restarted"]

\* In a map of sessions, or not: 1 or 0.
In(l, f) == One(l \in DOMAIN f)

\* A session whose start was not handled yet.
Unstarted(c, t, d) == c["start"] > 0 => /\ c["start"] = 1 /\ t = 0 /\ d = 0
                                        /\ Distant(c) + c["updated"] = 0

\* A client that waits has one command of a session under way, and without updates there are
\* none of their requests.
Single(c) == "hurry" \notin use => Serious(c) <= 1
Unchanging(c) == "update" \notin use => Updating(c) = 0

\* A session is recorded once; what is under way about one that follows a distance, or did, is not
\* about a time-based one.
Placed(c, t, d) == /\ t = 1 => d = 0 /\ Distant(c) = 0
                   /\ c["switch"] + c["updated"] > 0 => d = 0

\* A session to be erased is of a client that was removed, and none of its commands is left.
Left(c) == c["start"] + c["update"] + c["stop"] + c["switch"] + c["updated"]
Forgotten(c, r) == c["erase"] > 0 => ~r /\ Left(c) = 0

AccountOf(c, t, d) == Unstarted(c, t, d) /\ Single(c) /\ Unchanging(c) /\ Placed(c, t, d)

\* A client that waits expects one answer, and no more is under way; a session that was not
\* started yet has nothing.
Expected(l) ==
    "hurry" \notin use => unanswered[l] <= 1 /\ Serious(Under(l)) <= unanswered[l]
Unused(l) == l[2] > calls => /\ \A k \in Kinds : Under(l)[k] = 0
                             /\ unanswered[l] = 0 /\ In(l, timeBased) = 0 /\ In(l, distanceBased) = 0

Account(l) ==
    /\ AccountOf(Under(l), In(l, timeBased), In(l, distanceBased))
    /\ Forgotten(Under(l), Registered(l[1]))
    /\ Expected(l) /\ Unused(l)
Accounts == \A l \in Keys : Account(l)

\* A command that is behind its client's removal waited for the capabilities.
Overtaken ==
    \A i, j \in DOMAIN queue :
      /\ i < j /\ queue[i].op = "remove" /\ queue[j].op \in Commands
      /\ queue[j].key[1] = queue[i].client
      => queue[j].op # "stop" /\ queue[j].key \notin DOMAIN distanceBased

-----------------------------------------------------------------------------
(* What the modem will be.                                                   *)

Distance(l) == <<"distance", l>>
FixTo == Final(api, Fix, modem.fix)
DistanceTo(l) == Final(api, Distance(l), l \in modem.distance)
LockTo == Final(api, <<"lock">>, modem.lock)
VersionTo == Final(api, <<"version">>, modem.version)
BlacklistTo == Final(api, <<"blacklist">>, modem.blacklist)
RecordedTo == Final(api, <<"recorded">>, mBlacklistedSvIds)

\* Nothing has to be restored.
Fresh == modem.up /\ \A m \in Range(queue) : m.op # "engineUp"

FixAgrees ==
    /\ ~failed => Idle(FixTo, timeBased)
    /\ ~failed /\ Fresh => Served(FixTo, timeBased)

DistanceAgrees ==
    ~failed /\ Fresh =>
      \A l \in DOMAIN distanceBased :
        DistanceTo(l) = TRUE \/ Under(l)["stopped"] + Under(l)["erase"] + Under(l)["restart"] > 0

Linked == \A j \in DOMAIN api : api[j].then.cont = "restarted" =>
             api[j].do = "startDistance" /\ api[j].key = api[j].then.key

\* Each of one kind is followed by one of another.
Follows(t, l, a, b) ==
    \A i \in DOMAIN t : t[i] \in {l} \X {a} => \E j \in DOMAIN t : i < j /\ t[j] \in {l} \X {b}

RestartsInApi ==
    ~failed =>
    \A l \in Keys :
      \/ N(RTags(api), {l} \X {"restarted"}) = 0
      \/ DistanceTo(l) = TRUE
      \/ Follows(RTags(api), l, "restarted", "erase")

RestartsInQueue ==
    ~failed /\ modem.up =>
      \A i \in DOMAIN queue :
        queue[i].op = "response" /\ queue[i].then.cont = "restarted"
        => LET l == queue[i].then.key
           IN  \/ \E j \in DOMAIN queue : j > i /\ queue[j].op = "engineUp"
               \/ DistanceTo(l) = TRUE
               \/ \E j \in DOMAIN queue : j > i /\ MTag(queue[j]) \in {l} \X {"erase"}
               \/ N(RTags(api), {l} \X {"erase"}) > 0

\* The configuration asked for is what is recorded of it.
ConfHeld ==
    /\ MO \in LockTo <=> mAfwControlId = 0
    /\ ~mSupportNfwControl /\ mAfwControlId # 0 => LockTo = {}
    /\ VersionTo = mGps_conf.SUPL_VER
    /\ BlacklistTo = RecordedTo
LockHeld == mSupportNfwControl => (MO \in mGps_conf.GPS_LOCK <=> mAfwControlId = 0)
ConfAgrees == LockHeld /\ (~failed /\ Fresh => ConfHeld)

\* What a request sets each thing to, which was v.
FixSetBy(r, v) ==
    IF r.do = "startFix" THEN r.fix ELSE IF r.do = "stopFix" THEN NoFix ELSE v
DistanceSetBy(r, l, v) ==
    IF r.do = "startDistance" /\ r.key = l THEN TRUE
    ELSE IF r.do = "stopDistance" /\ r.key = l THEN FALSE ELSE v
LockSetBy(r, v) ==
    IF r.do = "lock" THEN r.lock
    ELSE IF Sets(r, "GPS_LOCK") THEN r.requested["GPS_LOCK"] ELSE v
VersionSetBy(r, v) == IF Sets(r, "SUPL_VERSION") THEN r.requested["SUPL_VERSION"] ELSE v
BlacklistSetBy(r, v) ==
    IF r.do = "blacklist" THEN r.ids
    ELSE IF Sets(r, "BLACKLISTED_SV_IDS") THEN r.requested["BLACKLISTED_SV_IDS"] ELSE v
RecordedSetBy(r, v) ==
    IF r.do = "config" /\ "BLACKLISTED_SV_IDS" \in DOMAIN r.requested
    THEN r.requested["BLACKLISTED_SV_IDS"] ELSE v

\* What a request makes of each thing.
LEMMA SetIs ==
    ASSUME NEW r, NEW v
    PROVE  /\ Set(r, Fix, v) = FixSetBy(r, v)
           /\ \A l : Set(r, Distance(l), v) = DistanceSetBy(r, l, v)
           /\ Set(r, <<"lock">>, v) = LockSetBy(r, v)
           /\ Set(r, <<"version">>, v) = VersionSetBy(r, v)
           /\ Set(r, <<"blacklist">>, v) = BlacklistSetBy(r, v)
           /\ Set(r, <<"recorded">>, v) = RecordedSetBy(r, v)
<1>1. \A w : (CHOOSE u : u \in {w}) = w /\ {w} # {}
  OBVIOUS
<1>2. Set(r, Fix, v) = FixSetBy(r, v)
  <2>1. View(r, Fix) = IF r.do = "startFix" THEN {r.fix}
                       ELSE IF r.do = "stopFix" THEN {NoFix} ELSE {}
    BY DEF View, Fix, Only
  <2> QED BY <1>1, <2>1 DEF Set, FixSetBy
<1>3. \A l : Set(r, Distance(l), v) = DistanceSetBy(r, l, v)
  <2> TAKE l
  <2>1. View(r, Distance(l)) = IF r.do = "startDistance" /\ r.key = l THEN {TRUE}
                       ELSE IF r.do = "stopDistance" /\ r.key = l THEN {FALSE} ELSE {}
    BY DEF View, Distance, Only
  <2> QED BY <1>1, <2>1 DEF Set, DistanceSetBy
<1>4. Set(r, <<"lock">>, v) = LockSetBy(r, v)
  <2>1. View(r, <<"lock">>) = IF r.do = "lock" THEN {r.lock}
                ELSE IF Sets(r, "GPS_LOCK") THEN {r.requested["GPS_LOCK"]} ELSE {}
    BY DEF View, Only, Sets
  <2> QED BY <1>1, <2>1 DEF Set, LockSetBy
<1>5. Set(r, <<"version">>, v) = VersionSetBy(r, v)
  <2>1. View(r, <<"version">>) =
          IF Sets(r, "SUPL_VERSION") THEN {r.requested["SUPL_VERSION"]} ELSE {}
    BY DEF View, Only
  <2> QED BY <1>1, <2>1 DEF Set, VersionSetBy
<1>6. Set(r, <<"blacklist">>, v) = BlacklistSetBy(r, v)
  <2>1. View(r, <<"blacklist">>) = IF r.do = "blacklist" THEN {r.ids}
                ELSE IF Sets(r, "BLACKLISTED_SV_IDS")
                     THEN {r.requested["BLACKLISTED_SV_IDS"]} ELSE {}
    BY DEF View, Only, Sets
  <2> QED BY <1>1, <2>1 DEF Set, BlacklistSetBy
<1>7. Set(r, <<"recorded">>, v) = RecordedSetBy(r, v)
  <2>1. View(r, <<"recorded">>) =
                IF r.do = "config" /\ "BLACKLISTED_SV_IDS" \in DOMAIN r.requested
                THEN {r.requested["BLACKLISTED_SV_IDS"]} ELSE {}
    BY DEF View, Only
  <2> QED BY <1>1, <2>1 DEF Set, RecordedSetBy
<1> QED BY <1>2, <1>3, <1>4, <1>5, <1>6, <1>7

\* What LocApi performed is as it would be, when nothing failed; the list is recorded anyway.
LEMMA LocApiFinal ==
    ASSUME Types, LocApiStep
    PROVE  /\ RecordedTo' = RecordedTo
           /\ ~failed' => /\ FixTo' = FixTo /\ LockTo' = LockTo /\ VersionTo' = VersionTo
                          /\ BlacklistTo' = BlacklistTo /\ \A l : DistanceTo(l)' = DistanceTo(l)
<1> DEFINE r == Head(api)
<1>1. api # <<>> /\ api' = Tail(api) /\ Sq(api)
  BY LocApiIs DEF Types, RequestsOK
<1>2. PICK ok \in BOOLEAN :
                /\ failed' = (failed \/ ~ok)
                /\ ok = TRUE => modem' = IF r.do = "config" THEN gnssUpdateConfig(r, r.need)
                                  ELSE Performed(r)
  BY LocApiIs
<1>3. RequestOK(r)
  <2>1. Len(api) \in Nat \ {0} /\ Head(api) = api[1] /\ DOMAIN api = 1..Len(api)
    BY <1>1, SqTail, SqOf
  <2>2. 1 \in DOMAIN api
    BY <2>1
  <2> QED BY <2>1, <2>2 DEF Types, RequestsOK
<1>4. \A x, v : Final(api, x, v) = Final(api', x, Set(r, x, v))
  BY <1>1, FinalTail
<1>5. modem = [up |-> modem.up, fix |-> modem.fix, distance |-> modem.distance,
               lock |-> modem.lock, version |-> modem.version, blacklist |-> modem.blacklist]
  BY DEF Types, ModemTypes
<1>6. mBlacklistedSvIds' = IF r.do = "config" /\ "BLACKLISTED_SV_IDS" \in DOMAIN r.requested
                THEN r.requested["BLACKLISTED_SV_IDS"] ELSE mBlacklistedSvIds
  BY DEF LocApiStep, gnssSvIdConfigUpdate
<1> HIDE DEF r
<1>7. RecordedTo' = RecordedTo
  <2>1. \A v : Set(r, <<"recorded">>, v) = RecordedSetBy(r, v)
    BY SetIs
  <2>2. mBlacklistedSvIds' = Set(r, <<"recorded">>, mBlacklistedSvIds)
    BY <1>6, <2>1 DEF RecordedSetBy
  <2> QED BY <1>4, <2>2 DEF RecordedTo
<1>8. ASSUME ~failed'
      PROVE  /\ FixTo' = FixTo /\ LockTo' = LockTo /\ VersionTo' = VersionTo
             /\ BlacklistTo' = BlacklistTo /\ \A l : DistanceTo(l)' = DistanceTo(l)
  <2>0. ok = TRUE
    BY <1>2, <1>8
  <2>1. modem' = IF r.do = "config" THEN gnssUpdateConfig(r, r.need) ELSE Performed(r)
    BY <1>2, <2>0
  <2>2. /\ modem'.fix = FixSetBy(r, modem.fix)
        /\ modem'.lock = LockSetBy(r, modem.lock)
        /\ modem'.version = VersionSetBy(r, modem.version)
        /\ modem'.blacklist = BlacklistSetBy(r, modem.blacklist)
        /\ \A l : (l \in modem'.distance) = DistanceSetBy(r, l, l \in modem.distance)
    <3>1. CASE r.do = "config"
      <4>1. /\ modem'.fix = modem.fix /\ modem'.distance = modem.distance
            /\ modem'.lock = IF "GPS_LOCK" \in r.need THEN r.requested["GPS_LOCK"] ELSE modem.lock
            /\ modem'.version = IF "SUPL_VERSION" \in r.need THEN r.requested["SUPL_VERSION"]
                                ELSE modem.version
            /\ modem'.blacklist = IF "BLACKLISTED_SV_IDS" \in r.need
                                  THEN r.requested["BLACKLISTED_SV_IDS"] ELSE modem.blacklist
        BY <1>5, <2>1, <3>1 DEF gnssUpdateConfig
      <4> QED BY <3>1, <4>1 DEF FixSetBy, LockSetBy, VersionSetBy, BlacklistSetBy, DistanceSetBy,
                                Sets
    <3>2. CASE r.do # "config"
      <4>1. /\ modem' = Performed(r)
            /\ r.do \in {"startFix", "stopFix", "startDistance", "stopDistance", "lock", "blacklist"}
        BY <1>3, <2>1, <3>2 DEF RequestOK
      <4>2. /\ modem'.fix = IF r.do = "startFix" THEN r.fix
                            ELSE IF r.do = "stopFix" THEN NoFix ELSE modem.fix
            /\ modem'.lock = IF r.do = "lock" THEN r.lock ELSE modem.lock
            /\ modem'.version = modem.version
            /\ modem'.blacklist = IF r.do = "blacklist" THEN r.ids ELSE modem.blacklist
            /\ modem'.distance = IF r.do = "startDistance" THEN modem.distance \cup {r.key}
                                 ELSE IF r.do = "stopDistance" THEN modem.distance \ {r.key}
                                 ELSE modem.distance
        BY <1>5, <4>1 DEF Performed
      <4>3. \A l : (l \in modem'.distance) = DistanceSetBy(r, l, l \in modem.distance)
        <5> TAKE l
        <5>1. CASE r.do = "startDistance" /\ r.key = l
          <6>1. l \in modem'.distance
            BY <4>2, <5>1
          <6>2. DistanceSetBy(r, l, l \in modem.distance) = TRUE
            BY <5>1 DEF DistanceSetBy
          <6> QED BY <6>1, <6>2
        <5>2. CASE r.do = "stopDistance" /\ r.key = l
          <6>1. (l \in modem'.distance) = FALSE
            BY <4>2, <5>2
          <6>2. DistanceSetBy(r, l, l \in modem.distance) = FALSE
            <7>1. r.do # "startDistance"
              BY <5>2
            <7> QED BY <5>2, <7>1 DEF DistanceSetBy
          <6> QED BY <6>1, <6>2
        <5>3. CASE ~(r.do \in {"startDistance", "stopDistance"} /\ r.key = l)
          <6>1. l \in modem'.distance <=> l \in modem.distance
            <7>1. CASE r.do = "startDistance"
              BY <4>2, <5>3, <7>1
            <7>2. CASE r.do = "stopDistance"
              BY <4>2, <5>3, <7>2
            <7>3. CASE r.do \notin {"startDistance", "stopDistance"}
              BY <4>2, <7>3
            <7> QED BY <7>1, <7>2, <7>3
          <6>2. DistanceSetBy(r, l, l \in modem.distance) = (l \in modem.distance)
            BY <5>3 DEF DistanceSetBy
          <6> QED BY <6>1, <6>2
        <5> QED BY <5>1, <5>2, <5>3
      <4> QED BY <3>2, <4>2, <4>3 DEF FixSetBy, LockSetBy, VersionSetBy, BlacklistSetBy, Sets
    <3> QED BY <3>1, <3>2
  <2>3. FixTo' = FixTo
    <3>1. \A v : Set(r, Fix, v) = FixSetBy(r, v)
      BY SetIs
    <3> QED BY <1>4, <2>2, <3>1 DEF FixTo
  <2>4. LockTo' = LockTo
    <3>1. \A v : Set(r, <<"lock">>, v) = LockSetBy(r, v)
      BY SetIs
    <3> QED BY <1>4, <2>2, <3>1 DEF LockTo
  <2>5. VersionTo' = VersionTo
    <3>1. \A v : Set(r, <<"version">>, v) = VersionSetBy(r, v)
      BY SetIs
    <3> QED BY <1>4, <2>2, <3>1 DEF VersionTo
  <2>6. BlacklistTo' = BlacklistTo
    <3>1. \A v : Set(r, <<"blacklist">>, v) = BlacklistSetBy(r, v)
      BY SetIs
    <3> QED BY <1>4, <2>2, <3>1 DEF BlacklistTo
  <2>7. \A l : DistanceTo(l)' = DistanceTo(l)
    <3> TAKE l
    <3>1. \A v : Set(r, Distance(l), v) = DistanceSetBy(r, l, v)
      BY SetIs
    <3>2. (l \in modem'.distance) = DistanceSetBy(r, l, l \in modem.distance)
      BY <2>2
    <3>3. Final(api, Distance(l), l \in modem.distance)
            = Final(api', Distance(l), Set(r, Distance(l), l \in modem.distance))
      BY <1>4
    <3> QED BY <3>1, <3>2, <3>3 DEF DistanceTo
  <2> QED BY <2>3, <2>4, <2>5, <2>6, <2>7
<1> QED BY <1>7, <1>8

\* Requests about sessions, which leave the configuration what it is.
OfSessions(r) == r.do \in {"startFix", "stopFix", "startDistance", "stopDistance"}
Tracking(q) == \A j \in DOMAIN q : OfSessions(q[j])
ConfThings == {<<"lock">>, <<"version">>, <<"blacklist">>, <<"recorded">>}

\* Sequences of them.
LEMMA TrackingIs ==
    /\ Tracking(<<>>)
    /\ \A r : OfSessions(r) => Tracking(<<r>>)
    /\ \A q, r : Sq(q) /\ Tracking(q) /\ OfSessions(r) => Tracking(Append(q, r))
    /\ \A q, s : Sq(q) /\ Sq(s) /\ Tracking(q) /\ Tracking(s) => Tracking(q \o s)
<1>1. Tracking(<<>>)
  BY SqEmpty DEF Tracking
<1>2. ASSUME NEW r, OfSessions(r) PROVE Tracking(<<r>>)
  <2>1. DOMAIN <<r>> = {1} /\ <<r>>[1] = r
    OBVIOUS
  <2> QED BY <1>2, <2>1 DEF Tracking
<1>3. ASSUME NEW q, NEW r, Sq(q), Tracking(q), OfSessions(r) PROVE Tracking(Append(q, r))
  <2>1. /\ DOMAIN q = 1..Len(q) /\ Len(q) \in Nat
        /\ DOMAIN Append(q, r) = 1..(Len(q) + 1)
        /\ \A j \in 1..Len(q) : Append(q, r)[j] = q[j]
        /\ Append(q, r)[Len(q) + 1] = r
    BY <1>3, SqAppend, SqOf
  <2> QED BY <1>3, <2>1 DEF Tracking
<1>4. ASSUME NEW q, NEW s, Sq(q), Sq(s), Tracking(q), Tracking(s) PROVE Tracking(q \o s)
  <2>1. /\ Len(q) \in Nat /\ Len(s) \in Nat /\ DOMAIN q = 1..Len(q) /\ DOMAIN s = 1..Len(s)
        /\ DOMAIN (q \o s) = 1..(Len(q) + Len(s))
        /\ \A j \in 1..Len(q) : (q \o s)[j] = q[j]
        /\ \A j \in 1..Len(s) : (q \o s)[Len(q) + j] = s[j]
    BY <1>4, SqConcat, SqOf
  <2> SUFFICES ASSUME NEW j \in 1..(Len(q) + Len(s)) PROVE OfSessions((q \o s)[j])
    BY <2>1 DEF Tracking
  <2>2. CASE j \in 1..Len(q)
    BY <1>4, <2>1, <2>2 DEF Tracking
  <2>3. CASE j \notin 1..Len(q)
    <3>1. j - Len(q) \in 1..Len(s) /\ Len(q) + (j - Len(q)) = j
      BY <2>1, <2>3
    <3>2. (q \o s)[j] = s[j - Len(q)]
      BY <2>1, <3>1
    <3> QED BY <1>4, <2>1, <3>1, <3>2 DEF Tracking
  <2> QED BY <2>2, <2>3
<1> QED BY <1>1, <1>2, <1>3, <1>4

\* They set nothing of the configuration.
LEMMA TrackingKeeps ==
    ASSUME NEW q, Tracking(q), NEW x \in ConfThings, NEW v
    PROVE  Final(q, x, v) = v
<1>1. ASSUME NEW r, OfSessions(r) PROVE View(r, x) = {}
  <2>1. r.do \notin {"lock", "blacklist", "config"}
    BY <1>1 DEF OfSessions
  <2>2. x[1] \in {"lock", "version", "blacklist", "recorded"}
    BY DEF ConfThings
  <2>3. CASE x[1] = "lock"
    BY <2>1, <2>3 DEF View, Only, Sets
  <2>4. CASE x[1] = "version"
    BY <2>1, <2>4 DEF View, Only, Sets
  <2>5. CASE x[1] = "blacklist"
    BY <2>1, <2>5 DEF View, Only, Sets
  <2>6. CASE x[1] = "recorded"
    BY <2>1, <2>6 DEF View, Only
  <2> QED BY <2>2, <2>3, <2>4, <2>5, <2>6
<1>2. \A j \in DOMAIN q : View(q[j], x) = {}
  BY <1>1 DEF Tracking
<1> QED BY <1>2, FinalNone

\* What a time-based session asks for is about the fix.
LEMMA StepTracking ==
    ASSUME Types, NEW g, NEW key, NEW conts, NEW T2, TimeStep(Handling, g, key, conts, T2)
    PROVE  Tracking(g.requests) /\ Sq(g.requests)
<1>1. Handling.requests = <<>>
  BY HandlingIs DEF Types, SessionTypes
<1>2. CASE g.requests = <<>>
  BY <1>2, TrackingIs, SqEmpty
<1>3. CASE g.requests # <<>>
  <2>1. PICK r : g.requests = Append(<<>>, r) /\ FixRequest(r, T2)
    BY <1>1, <1>3 DEF TimeStep
  <2>2. g.requests = <<r>>
    BY <2>1, Appends
  <2>3. OfSessions(r)
    BY <2>1 DEF FixRequest, OfSessions
  <2>4. Sq(<<r>>)
    BY CountOne
  <2> QED BY <2>2, <2>3, <2>4, TrackingIs
<1> QED BY <1>2, <1>3

\* The requests of commands of tracking.
LEMMA TrackTracking ==
    ASSUME Types, NEW g, NEW m, TrackMakes(g, m)
    PROVE  Tracking(g.requests)
<1>1. \A k, o, t : OfSessions(startDistance(k, o, t)) /\ OfSessions(stopDistance(k, t))
  BY DistanceThen DEF OfSessions
<1>2. /\ \A k, o, t : Tracking(<<startDistance(k, o, t)>>)
      /\ \A k, t : Tracking(<<stopDistance(k, t)>>)
      /\ Tracking(<<>>)
  BY <1>1, TrackingIs
<1>3. \A h, key, conts, T2 : TimeStep(Handling, h, key, conts, T2)
                               => Tracking(h.requests) /\ Sq(h.requests)
  BY StepTracking
<1>4. CASE StartMakes(g, m.key, m.options)
  BY <1>2, <1>3, <1>4 DEF StartMakes, Makes
<1>5. CASE UpdateMakes(g, m.key, m.options)
  <2>1. CASE /\ m.key \in DOMAIN timeBased /\ m.options.minDistance > 0
             /\ \E p : /\ TimeStep(Handling, p, m.key, {"started", "answer"}, Drop(timeBased, m.key))
                       /\ Makes(g, Drop(timeBased, m.key),
                                With(distanceBased, m.key, Normal(m.options)),
                                Append(p.requests,
                                       startDistance(m.key, Normal(m.options), NoThen)), p.answers)
    <3>1. PICK p : /\ TimeStep(Handling, p, m.key, {"started", "answer"}, Drop(timeBased, m.key))
                   /\ g.requests = Append(p.requests,
                                          startDistance(m.key, Normal(m.options), NoThen))
      BY <2>1 DEF Makes
    <3>2. Tracking(p.requests) /\ Sq(p.requests)
      BY <1>3, <3>1
    <3>3. OfSessions(startDistance(m.key, Normal(m.options), NoThen))
      BY <1>1
    <3> QED BY <3>1, <3>2, <3>3, TrackingIs
  <2>2. CASE TimeStep(Handling, g, m.key, {"updated"}, With(timeBased, m.key, Normal(m.options)))
    BY <1>3, <2>2
  <2>3. CASE \/ g.requests = <<>>
             \/ g.requests = <<stopDistance(m.key, Then("switch", m.key, Normal(m.options)))>>
             \/ g.requests = <<stopDistance(m.key, Then("restart", m.key, Normal(m.options)))>>
    BY <1>2, <2>3
  <2> QED BY <1>5, <2>1, <2>2, <2>3 DEF UpdateMakes, Makes
<1>6. CASE StopMakes(g, m.key)
  <2>1. CASE TimeStep(Handling, g, m.key, {"started", "answer"}, Drop(timeBased, m.key))
    BY <1>3, <2>1
  <2>2. CASE \/ g.requests = <<>>
             \/ g.requests = <<stopDistance(m.key, Then("stopped", m.key, NoOptions))>>
    BY <1>2, <2>2
  <2> QED BY <1>6, <2>1, <2>2 DEF StopMakes, Makes
<1> QED BY <1>4, <1>5, <1>6 DEF TrackMakes

\* The requests of responses.
LEMMA RespondTracking ==
    ASSUME Types, NEW g, NEW then, NEW ok \in BOOLEAN, ContinueMakes(g, then, ok)
    PROVE  Tracking(g.requests)
<1>1. Tracking(<<>>)
  BY TrackingIs
<1>2. CASE TimeStep(Handling, g, then.key, {"started"}, With(timeBased, then.key, then.options))
  BY <1>2, StepTracking
<1>3. CASE g.requests = <<startDistance(then.key, then.options,
                                        Then("restarted", then.key, then.options))>>
  <2> DEFINE r == startDistance(then.key, then.options, Then("restarted", then.key, then.options))
  <2>1. OfSessions(r)
    BY DistanceThen DEF OfSessions
  <2> HIDE DEF r
  <2>2. Tracking(<<r>>)
    BY <2>1, TrackingIs
  <2> QED BY <1>3, <2>2 DEF r
<1>4. CASE g.requests = <<>>
  BY <1>1, <1>4
<1> QED BY <1>2, <1>3, <1>4 DEF ContinueMakes, Makes, Kept, Erased

\* The requests of a client's removal.
LEMMA RemoveTracking ==
    ASSUME Types, NEW g, NEW c, RemoveMakes(g, c)
    PROVE  Tracking(g.requests)
<1>1. PICK p, s : g.requests = p \o s /\ RequestsOK(p) /\ StopsTime(p, c) /\ Erases(s, c)
  BY DEF RemoveMakes, Makes
<1>2. Tracking(p) /\ Sq(p)
  BY <1>1 DEF Tracking, StopsTime, OfSessions, RequestsOK
<1>3. Tracking(s) /\ Sq(s)
  <2>1. Sq(s)
    BY <1>1 DEF Erases
  <2>2. ASSUME NEW j \in DOMAIN s PROVE OfSessions(s[j])
    <3>1. PICK key : s[j] = stopDistance(key, Then("erase", key, NoOptions))
      BY <1>1 DEF Erases
    <3> QED BY <3>1, DistanceThen DEF OfSessions
  <2> QED BY <2>1, <2>2 DEF Tracking
<1> QED BY <1>1, <1>2, <1>3, TrackingIs

\* Starting every session again leaves the configuration what was asked before.
LEMMA RestartsKeep ==
    ASSUME NEW g, NEW T, NEW D, NEW q, NEW a, Restarts(g, T, D, q, a), Sq(q)
    PROVE  \A x \in ConfThings : \A v : Final(g.requests, x, v) = Final(q, x, v)
<1>1. PICK p, s : Refix(q, p, T) /\ Starts(s, D) /\ g.requests = p \o s
  BY DEF Restarts, Makes
<1>2. Tracking(s) /\ Sq(s)
  <2>1. Sq(s)
    BY <1>1 DEF Starts
  <2>2. ASSUME NEW j \in DOMAIN s PROVE OfSessions(s[j])
    <3>1. PICK key : s[j] = startDistance(key, D[key], NoThen)
      BY <1>1 DEF Starts
    <3> QED BY <3>1, DistanceThen DEF OfSessions
  <2> QED BY <2>1, <2>2 DEF Tracking
<1>3. ASSUME NEW x \in ConfThings, NEW v PROVE Final(p, x, v) = Final(q, x, v) /\ Sq(p)
  <2>1. CASE p = q
    BY <2>1
  <2>2. CASE p # q
    <3>1. PICK r : p = Append(q, r) /\ FixRequest(r, T)
      BY <1>1, <2>2 DEF Refix
    <3>2. OfSessions(r)
      BY <3>1 DEF FixRequest, OfSessions
    <3>3. Tracking(<<r>>)
      BY <3>2, TrackingIs
    <3>4. p = q \o <<r>> /\ Sq(<<r>>)
      BY <3>1, AppendIs
    <3>5. Final(p, x, v) = Final(<<r>>, x, Final(q, x, v))
      BY <3>4, FinalConcat
    <3>6. Sq(p)
      BY <3>1, SqAppend
    <3> QED BY <3>3, <3>5, <3>6, TrackingKeeps
  <2> QED BY <2>1, <2>2
<1>4. ASSUME NEW x \in ConfThings, NEW v PROVE Final(g.requests, x, v) = Final(q, x, v)
  <2>1. Final(p \o s, x, v) = Final(s, x, Final(p, x, v))
    BY <1>2, <1>3, FinalConcat
  <2> QED BY <1>1, <1>2, <1>3, <2>1, TrackingKeeps
<1> QED BY <1>4

\* What the configuration will be, after what was asked of the modem and what is asked now.
ConfAsked(q) ==
    /\ LockTo' = Final(q, <<"lock">>, LockTo)
    /\ VersionTo' = Final(q, <<"version">>, VersionTo)
    /\ BlacklistTo' = Final(q, <<"blacklist">>, BlacklistTo)
    /\ RecordedTo' = Final(q, <<"recorded">>, RecordedTo)

\* More is asked of the modem.
LEMMA AskedIs ==
    ASSUME Types, NEW q, Sq(q), api' = api \o q, UNCHANGED <<modem, mBlacklistedSvIds>>
    PROVE  ConfAsked(q)
<1>1. \A x, v : Final(api \o q, x, v) = Final(q, x, Final(api, x, v))
  BY FinalConcat DEF Types, RequestsOK
<1> QED BY <1>1 DEF ConfAsked, LockTo, VersionTo, BlacklistTo, RecordedTo

\* What is asked about sessions leaves it.
LEMMA AskedNothing ==
    ASSUME NEW q, Tracking(q), ConfAsked(q)
    PROVE  LockTo' = LockTo /\ VersionTo' = VersionTo /\ BlacklistTo' = BlacklistTo
           /\ RecordedTo' = RecordedTo
<1>1. \A x \in ConfThings : \A v : Final(q, x, v) = v
  BY TrackingKeeps
<1>2. <<"lock">> \in ConfThings /\ <<"version">> \in ConfThings /\ <<"blacklist">> \in ConfThings
      /\ <<"recorded">> \in ConfThings
  BY DEF ConfThings
<1> QED BY <1>1, <1>2 DEF ConfAsked

\* One request.
LEMMA AskedOne ==
    ASSUME NEW q, NEW r, ConfAsked(q), \A x \in ConfThings : \A v : Final(q, x, v) = Final(<<r>>, x, v)
    PROVE  /\ LockTo' = LockSetBy(r, LockTo) /\ VersionTo' = VersionSetBy(r, VersionTo)
           /\ BlacklistTo' = BlacklistSetBy(r, BlacklistTo)
           /\ RecordedTo' = RecordedSetBy(r, RecordedTo)
<1>1. \A x, v : Final(<<r>>, x, v) = Set(r, x, v)
  BY FinalOne
<1>2. <<"lock">> \in ConfThings /\ <<"version">> \in ConfThings /\ <<"blacklist">> \in ConfThings
      /\ <<"recorded">> \in ConfThings
  BY DEF ConfThings
<1>3. /\ LockTo' = Set(r, <<"lock">>, LockTo) /\ VersionTo' = Set(r, <<"version">>, VersionTo)
      /\ BlacklistTo' = Set(r, <<"blacklist">>, BlacklistTo)
      /\ RecordedTo' = Set(r, <<"recorded">>, RecordedTo)
  BY <1>1, <1>2 DEF ConfAsked
<1>4. \A v : /\ Set(r, <<"lock">>, v) = LockSetBy(r, v)
             /\ Set(r, <<"version">>, v) = VersionSetBy(r, v)
             /\ Set(r, <<"blacklist">>, v) = BlacklistSetBy(r, v)
             /\ Set(r, <<"recorded">>, v) = RecordedSetBy(r, v)
  <2> TAKE v
  <2>1. Set(r, <<"lock">>, v) = LockSetBy(r, v)
    BY SetIs
  <2>2. Set(r, <<"version">>, v) = VersionSetBy(r, v)
    BY SetIs
  <2>3. Set(r, <<"blacklist">>, v) = BlacklistSetBy(r, v)
    BY SetIs
  <2>4. Set(r, <<"recorded">>, v) = RecordedSetBy(r, v)
    BY SetIs
  <2> QED BY <2>1, <2>2, <2>3, <2>4
<1> QED BY <1>3, <1>4

\* What is asked of the lock, and no more.
LEMMA AskedLock ==
    ASSUME Types, NEW lock, api' = Append(api, lockRequest(lock)),
           UNCHANGED <<modem, mBlacklistedSvIds>>
    PROVE  /\ LockTo' = lock /\ VersionTo' = VersionTo /\ BlacklistTo' = BlacklistTo
           /\ RecordedTo' = RecordedTo
<1> DEFINE r == lockRequest(lock)
<1>1. r.do = "lock" /\ r.lock = lock
  BY DEF lockRequest
<1>2. api' = api \o <<r>> /\ Sq(<<r>>)
  BY AppendIs DEF Types, RequestsOK
<1> HIDE DEF r
<1>3. ConfAsked(<<r>>)
  BY <1>2, AskedIs
<1>4. /\ LockTo' = LockSetBy(r, LockTo) /\ VersionTo' = VersionSetBy(r, VersionTo)
      /\ BlacklistTo' = BlacklistSetBy(r, BlacklistTo)
      /\ RecordedTo' = RecordedSetBy(r, RecordedTo)
  BY <1>3, AskedOne
<1> QED BY <1>1, <1>4 DEF LockSetBy, VersionSetBy, BlacklistSetBy, RecordedSetBy, Sets

\* What a restart of the modem asks of it.
LEMMA AskedRecorded ==
    ASSUME NEW q, ConfAsked(q),
           \A x \in ConfThings : \A v : Final(q, x, v) = Final(<<setConfig, Lists>>, x, v)
    PROVE  /\ LockTo' = IF mSupportNfwControl \/ mAfwControlId = 0 THEN mGps_conf.GPS_LOCK ELSE {}
           /\ VersionTo' = mGps_conf.SUPL_VER
           /\ BlacklistTo' = RecordedTo'
<1> DEFINE lock == IF mSupportNfwControl \/ mAfwControlId = 0 THEN mGps_conf.GPS_LOCK ELSE {}
           all == [GPS_LOCK |-> lock, SUPL_VERSION |-> mGps_conf.SUPL_VER,
                   BLACKLISTED_SV_IDS |-> mBlacklistedSvIds]
           r == setConfig
           b == Lists
<1>1. /\ DOMAIN all = {"GPS_LOCK", "SUPL_VERSION", "BLACKLISTED_SV_IDS"}
      /\ all["GPS_LOCK"] = lock /\ all["SUPL_VERSION"] = mGps_conf.SUPL_VER
      /\ all["BLACKLISTED_SV_IDS"] = mBlacklistedSvIds
  OBVIOUS
<1>2. r = [do |-> "config", requested |-> all, need |-> DOMAIN all, then |-> NoThen]
  BY DEF setConfig, configRequest
<1>3. r.do = "config" /\ r.requested = all /\ r.need = DOMAIN all
  BY <1>2
<1>4. b.do = "blacklist" /\ b.ids = mBlacklistedSvIds
  BY DEF Lists
<1>5. <<r, b>> = <<r>> \o <<b>> /\ Sq(<<r>>) /\ Sq(<<b>>)
  <2> HIDE DEF r, b
  <2>1. Sq(<<r>>) /\ Sq(<<b>>)
    BY CountOne
  <2>2. Append(<<r>>, b) = <<r>> \o <<b>>
    <3>1. \A t, e : Sq(t) => Append(t, e) = t \o <<e>>
      BY AppendIs
    <3> QED BY <2>1, <3>1
  <2>3. Append(<<r>>, b) = <<r, b>>
    BY Appends
  <2> QED BY <2>1, <2>2, <2>3
<1> HIDE DEF r, b, all, lock
<1>6. \A x, v : Final(<<r, b>>, x, v) = Set(b, x, Set(r, x, v))
  <2> TAKE x, v
  <2>1. Final(<<r>> \o <<b>>, x, v) = Final(<<b>>, x, Final(<<r>>, x, v))
    <3>1. \A t, s : Sq(t) /\ Sq(s) => Final(t \o s, x, v) = Final(s, x, Final(t, x, v))
      BY FinalConcat
    <3> QED BY <1>5, <3>1
  <2>2. \A e, w : Final(<<e>>, x, w) = Set(e, x, w)
    BY FinalOne
  <2> QED BY <1>5, <2>1, <2>2
<1>7. \A x \in ConfThings : \A v : Final(q, x, v) = Set(b, x, Set(r, x, v))
  BY <1>6 DEF r, b
<1>8. <<"lock">> \in ConfThings /\ <<"version">> \in ConfThings /\ <<"blacklist">> \in ConfThings
      /\ <<"recorded">> \in ConfThings
  BY DEF ConfThings
<1>9. \A c, v : /\ Set(c, <<"lock">>, v) = LockSetBy(c, v)
                /\ Set(c, <<"version">>, v) = VersionSetBy(c, v)
                /\ Set(c, <<"blacklist">>, v) = BlacklistSetBy(c, v)
                /\ Set(c, <<"recorded">>, v) = RecordedSetBy(c, v)
  <2> TAKE c, v
  <2>1. Set(c, <<"lock">>, v) = LockSetBy(c, v)
    BY SetIs
  <2>2. Set(c, <<"version">>, v) = VersionSetBy(c, v)
    BY SetIs
  <2>3. Set(c, <<"blacklist">>, v) = BlacklistSetBy(c, v)
    BY SetIs
  <2>4. Set(c, <<"recorded">>, v) = RecordedSetBy(c, v)
    BY SetIs
  <2> QED BY <2>1, <2>2, <2>3, <2>4
<1>10. \A v : LockSetBy(b, LockSetBy(r, v)) = lock
  BY <1>1, <1>3, <1>4 DEF LockSetBy, Sets
<1>11. \A v : VersionSetBy(b, VersionSetBy(r, v)) = mGps_conf.SUPL_VER
  BY <1>1, <1>3, <1>4 DEF VersionSetBy, Sets
<1>12. \A v : BlacklistSetBy(b, v) = mBlacklistedSvIds
  BY <1>4 DEF BlacklistSetBy
<1>13. \A v : RecordedSetBy(b, RecordedSetBy(r, v)) = mBlacklistedSvIds
  BY <1>1, <1>3, <1>4 DEF RecordedSetBy
<1>14. LockTo' = lock
  BY <1>7, <1>8, <1>9, <1>10 DEF ConfAsked
<1>15. VersionTo' = mGps_conf.SUPL_VER
  BY <1>7, <1>8, <1>9, <1>11 DEF ConfAsked
<1>16. BlacklistTo' = mBlacklistedSvIds
  BY <1>7, <1>8, <1>9, <1>12 DEF ConfAsked
<1>17. RecordedTo' = mBlacklistedSvIds
  BY <1>7, <1>8, <1>9, <1>13 DEF ConfAsked
<1> QED BY <1>14, <1>15, <1>16, <1>17 DEF lock

\* A change of the configuration.
LEMMA ConfigConf ==
    ASSUME Types, NEW m, m.config \in ConfigSet, NEW g, ConfigMakes(g, m), ConfTo(m),
           api' = api \o g.requests, Sq(g.requests), UNCHANGED <<modem, mBlacklistedSvIds>>
    PROVE  /\ LockHeld => LockHeld'
           /\ ConfHeld => ConfHeld'
<1> DEFINE config == m.config
           locks == "GPS_LOCK" \in DOMAIN config
           versions == "SUPL_VERSION" \in DOMAIN config
           lists == "BLACKLISTED_SV_IDS" \in DOMAIN config
           r == Asked(m)
<1>1. \A x \in ConfThings : \A v : Final(g.requests, x, v) = Final(<<r>>, x, v)
  <2>1. CASE g.requests = <<r>>
    BY <2>1
  <2>2. ASSUME NEW q, q = <<r>> \/ q = <<StopFix, r>>, Restarts(g, timeBased, distanceBased, q, <<>>)
        PROVE  \A x \in ConfThings : \A v : Final(g.requests, x, v) = Final(<<r>>, x, v)
    <3> HIDE DEF r
    <3>1. Sq(<<r>>) /\ Sq(<<StopFix>>)
      BY CountOne
    <3>2. <<StopFix, r>> = <<StopFix>> \o <<r>>
      <4>1. \A t, e : Sq(t) => Append(t, e) = t \o <<e>>
        BY AppendIs
      <4>2. Append(<<StopFix>>, r) = <<StopFix, r>>
        BY Appends
      <4> QED BY <3>1, <4>1, <4>2
    <3>3. Sq(q)
      <4>1. Sq(<<StopFix>> \o <<r>>)
        BY <3>1, SqConcat
      <4> QED BY <2>2, <3>1, <3>2, <4>1
    <3>4. \A x \in ConfThings : \A v : Final(g.requests, x, v) = Final(q, x, v)
      BY <2>2, <3>3, RestartsKeep
    <3>5. \A x \in ConfThings : \A v : Final(<<StopFix, r>>, x, v) = Final(<<r>>, x, v)
      <4> TAKE x \in ConfThings
      <4> TAKE v
      <4>1. Final(<<StopFix>> \o <<r>>, x, v) = Final(<<r>>, x, Final(<<StopFix>>, x, v))
        BY <3>1, FinalConcat
      <4>2. Final(<<StopFix>>, x, v) = v
        <5>1. OfSessions(StopFix)
          BY DEF OfSessions, StopFix
        <5>2. Tracking(<<StopFix>>)
          BY <5>1, TrackingIs
        <5> QED BY <5>2, TrackingKeeps
      <4> QED BY <3>2, <4>1, <4>2
    <3> QED BY <2>2, <3>4, <3>5
  <2>3. g.requests = <<r>> \/ \E q : /\ q = <<r>> \/ q = <<StopFix, r>>
                                     /\ Restarts(g, timeBased, distanceBased, q, <<>>)
    BY DEF ConfigMakes, Makes
  <2> QED BY <2>1, <2>2, <2>3
<1>2. /\ r.do = "config"
      /\ r.requested = IF locks THEN [config EXCEPT !["GPS_LOCK"] = NewLock(@)] ELSE config
      /\ r.need = {f \in DOMAIN config : /\ f = "GPS_LOCK" => ~LockIsSet
                                         /\ f = "ASSISTANCE_DATA" => config[f] = "SUPL"}
  BY DEF Asked, configRequest
<1>3. DOMAIN r.requested = DOMAIN config
  BY <1>2
<1>4. /\ Sets(r, "GPS_LOCK") <=> locks /\ ~LockIsSet
      /\ Sets(r, "SUPL_VERSION") <=> versions
      /\ Sets(r, "BLACKLISTED_SV_IDS") <=> lists
  BY <1>2 DEF Sets
<1>5. /\ locks => r.requested["GPS_LOCK"] = NewLock(config["GPS_LOCK"])
      /\ versions => r.requested["SUPL_VERSION"] = config["SUPL_VERSION"]
  BY <1>2
<1>6. ConfAsked(g.requests)
  BY AskedIs
<1> HIDE DEF r
<1>7. /\ LockTo' = LockSetBy(r, LockTo) /\ VersionTo' = VersionSetBy(r, VersionTo)
      /\ BlacklistTo' = BlacklistSetBy(r, BlacklistTo)
      /\ RecordedTo' = RecordedSetBy(r, RecordedTo)
  BY <1>1, <1>6, AskedOne
<1>8. /\ mAfwControlId' = mAfwControlId
      /\ mSupportNfwControl' = (mSupportNfwControl /\ ~locks)
      /\ mGps_conf'.GPS_LOCK = IF locks THEN config["GPS_LOCK"] \cup {MO} ELSE mGps_conf.GPS_LOCK
      /\ mGps_conf'.SUPL_VER = IF versions THEN config["SUPL_VERSION"] ELSE mGps_conf.SUPL_VER
  BY DEF ConfTo
<1>9. mSupportNfwControl \in BOOLEAN
  BY DEF Types, ConfTypes
<1>10. LockTo' = IF locks /\ ~LockIsSet THEN NewLock(config["GPS_LOCK"]) ELSE LockTo
  BY <1>2, <1>4, <1>5, <1>7 DEF LockSetBy
<1>11. VersionTo' = IF versions THEN config["SUPL_VERSION"] ELSE VersionTo
  BY <1>4, <1>5, <1>7 DEF VersionSetBy
<1>12. BlacklistTo = RecordedTo => BlacklistTo' = RecordedTo'
  BY <1>2, <1>3, <1>4, <1>7 DEF BlacklistSetBy, RecordedSetBy
<1> HIDE DEF config, locks, versions, lists
<1>13. LockHeld => LockHeld'
  <2>1. mSupportNfwControl' => mSupportNfwControl /\ ~locks
    BY <1>8
  <2> QED BY <1>8, <2>1 DEF LockHeld
<1>14. ConfHeld => ConfHeld'
  <2> SUFFICES ASSUME ConfHeld PROVE ConfHeld'
    OBVIOUS
  <2>1. MO \in LockTo' <=> mAfwControlId' = 0
    BY <1>8, <1>9, <1>10 DEF ConfHeld, LockIsSet, NewLock
  <2>2. ~mSupportNfwControl' /\ mAfwControlId' # 0 => LockTo' = {}
    <3> SUFFICES ASSUME ~mSupportNfwControl', mAfwControlId # 0 PROVE LockTo' = {}
      BY <1>8
    <3>1. CASE locks /\ mSupportNfwControl
      BY <1>10, <3>1 DEF LockIsSet, NewLock
    <3>2. CASE ~mSupportNfwControl
      BY <1>10, <3>2 DEF LockIsSet, ConfHeld
    <3>3. ~mSupportNfwControl \/ locks
      BY <1>8
    <3> QED BY <3>1, <3>2, <3>3
  <2>3. VersionTo' = mGps_conf'.SUPL_VER
    BY <1>8, <1>11 DEF ConfHeld
  <2>4. BlacklistTo' = RecordedTo'
    BY <1>12 DEF ConfHeld
  <2> QED BY <2>1, <2>2, <2>3, <2>4 DEF ConfHeld
<1> QED BY <1>13, <1>14

\* Enabling and disabling location.
LEMMA EnableConf ==
    ASSUME Types, NEW m, MessageOK(m, calls), Enable(m) \/ Disable(m),
           UNCHANGED <<modem, mBlacklistedSvIds>>
    PROVE  /\ LockHeld => LockHeld'
           /\ LockHeld /\ ConfHeld => ConfHeld'
<1>0. /\ mSupportNfwControl \in BOOLEAN /\ mAfwControlId \in Nat
      /\ ~mSupportNfwControl => MO \in mGps_conf.GPS_LOCK
      /\ mGps_conf = [GPS_LOCK |-> mGps_conf.GPS_LOCK, SUPL_VER |-> mGps_conf.SUPL_VER]
  BY CallsAre DEF Types, ConfTypes
<1>1. ASSUME UNCHANGED <<api, configuration>>
      PROVE  (LockHeld => LockHeld') /\ (ConfHeld => ConfHeld')
  <2>1. UNCHANGED <<mAfwControlId, mSupportNfwControl, mGps_conf, api>>
    BY <1>1 DEF configuration
  <2>2. UNCHANGED <<LockTo, VersionTo, BlacklistTo, RecordedTo>>
    BY <2>1 DEF LockTo, VersionTo, BlacklistTo, RecordedTo
  <2> QED BY <2>1, <2>2 DEF LockHeld, ConfHeld
<1>2. CASE Enable(m) /\ ~(mAfwControlId > 0)
  <2> DEFINE opened == IF mSupportNfwControl THEN mGps_conf.GPS_LOCK \cap {NI} ELSE {}
  <2>1. /\ api' = Append(api, lockRequest(opened)) /\ mAfwControlId' = m.id
        /\ mGps_conf' = [mGps_conf EXCEPT !.GPS_LOCK = IF mSupportNfwControl THEN opened ELSE @]
        /\ mSupportNfwControl' = mSupportNfwControl /\ m.op = "enable"
    BY <1>2 DEF Enable
  <2>2. m.id \in 1..calls /\ m.id # 0
    BY <2>1, CallsAre DEF MessageOK
  <2>3. /\ LockTo' = opened /\ VersionTo' = VersionTo /\ BlacklistTo' = BlacklistTo
        /\ RecordedTo' = RecordedTo
    BY <2>1, AskedLock
  <2>4. /\ mGps_conf'.GPS_LOCK = IF mSupportNfwControl THEN opened ELSE mGps_conf.GPS_LOCK
        /\ mGps_conf'.SUPL_VER = mGps_conf.SUPL_VER
    BY <1>0, <2>1
  <2>5. MO \notin opened /\ (~mSupportNfwControl => opened = {})
    BY DEF MO, NI
  <2> HIDE DEF opened
  <2>6. LockHeld'
    BY <2>1, <2>2, <2>4, <2>5 DEF LockHeld
  <2>7. ConfHeld => ConfHeld'
    BY <2>1, <2>2, <2>3, <2>4, <2>5 DEF ConfHeld
  <2> QED BY <2>6, <2>7
<1>3. CASE Disable(m) /\ mAfwControlId = m.id
  <2> DEFINE lock == mGps_conf.GPS_LOCK \cup (IF mSupportNfwControl THEN {MO} ELSE {})
  <2>1. /\ api' = Append(api, lockRequest(lock)) /\ mAfwControlId' = 0
        /\ mGps_conf' = [mGps_conf EXCEPT !.GPS_LOCK = lock]
        /\ mSupportNfwControl' = mSupportNfwControl
    BY <1>3 DEF Disable
  <2>3. /\ LockTo' = lock /\ VersionTo' = VersionTo /\ BlacklistTo' = BlacklistTo
        /\ RecordedTo' = RecordedTo
    BY <2>1, AskedLock
  <2>4. mGps_conf'.GPS_LOCK = lock /\ mGps_conf'.SUPL_VER = mGps_conf.SUPL_VER
    BY <1>0, <2>1
  <2>5. MO \in lock
    BY <1>0
  <2> HIDE DEF lock
  <2>6. LockHeld'
    BY <2>1, <2>4, <2>5 DEF LockHeld
  <2>7. ConfHeld => ConfHeld'
    BY <2>1, <2>3, <2>4, <2>5 DEF ConfHeld
  <2> QED BY <2>6, <2>7
<1>4. CASE Enable(m) /\ mAfwControlId > 0
  <2>1. UNCHANGED <<api, configuration>>
    BY <1>4 DEF Enable
  <2> QED BY <1>1, <2>1
<1>5. CASE Disable(m) /\ mAfwControlId # m.id
  <2>1. UNCHANGED <<api, configuration>>
    BY <1>5 DEF Disable
  <2> QED BY <1>1, <2>1
<1> QED BY <1>2, <1>3, <1>4, <1>5

\* Nothing has to be restored once a message was handled: then nothing had to be, or the message
\* was that of the restart.
LEMMA FreshHandled ==
    ASSUME Types, HandleMsg, Fresh'
    PROVE  Head(queue).op = "engineUp" \/ Fresh
<1>1. queue # <<>> /\ queue' = Tail(queue) \o Resent(Head(queue)) /\ modem' = modem
  BY HandlerIs
<1>2. Range(queue) = Range(Tail(queue)) \cup {Head(queue)} /\ Range(Tail(queue)) \subseteq Range(queue')
  BY <1>1, Remaining
<1> QED BY <1>1, <1>2 DEF Fresh

\* The configuration, as a message is handled.
LEMMA HandledConf ==
    ASSUME Types, ConfAgrees, HandleMsg
    PROVE  ConfAgrees'
<1> DEFINE m == Head(queue)
<1>1. /\ MessageOK(m, calls) /\ Handler(m) /\ UNCHANGED <<modem, mBlacklistedSvIds>>
  BY HandlerIs
<1>2. Fresh' => m.op = "engineUp" \/ Fresh
  BY FreshHandled
<1> HIDE DEF m
<1>3. LockHeld /\ (~failed /\ Fresh => ConfHeld)
  BY DEF ConfAgrees
<1>4. ASSUME UNCHANGED <<configuration, failed>>, m.op # "engineUp",
             NEW q, Sq(q), Tracking(q), api' = api \o q
      PROVE  ConfAgrees'
  <2>1. ConfAsked(q)
    BY <1>1, <1>4, AskedIs
  <2>2. LockTo' = LockTo /\ VersionTo' = VersionTo /\ BlacklistTo' = BlacklistTo
        /\ RecordedTo' = RecordedTo
    BY <1>4, <2>1, AskedNothing
  <2>3. UNCHANGED <<mAfwControlId, mSupportNfwControl, mGps_conf>> /\ failed' = failed
    BY <1>4 DEF configuration
  <2>4. (ConfHeld => ConfHeld') /\ LockHeld'
    BY <1>3, <2>2, <2>3 DEF ConfHeld, LockHeld
  <2> QED BY <1>2, <1>3, <1>4, <2>3, <2>4 DEF ConfAgrees
<1>5. \A q : api' = api => api' = api \o <<>>
  BY DEF Types, RequestsOK, Sq
<1>6. ASSUME UNCHANGED <<configuration, failed, api>>, m.op # "engineUp" PROVE ConfAgrees'
  <2>1. api' = api \o <<>> /\ Sq(<<>>) /\ Tracking(<<>>)
    BY <1>5, <1>6, SqEmpty, TrackingIs
  <2> QED BY <1>4, <1>6, <2>1
<1>7. CASE Waiting(m)
  BY <1>6, <1>7 DEF Waiting, Pend
<1>8. CASE TrackHandled(m)
  <2>1. PICK g : HandlingOK(g) /\ Commit(g) /\ TrackMakes(g, m) /\ UNCHANGED <<configuration, failed>>
    BY <1>8 DEF TrackHandled
  <2>2. Sq(g.requests) /\ Tracking(g.requests) /\ api' = api \o g.requests
    BY <2>1, TrackTracking DEF HandlingOK, RequestsOK, Commit
  <2>3. m.op # "engineUp"
    BY <1>8 DEF TrackHandled, Commands
  <2> QED BY <1>4, <2>1, <2>2, <2>3
<1>9. CASE RemoveHandled(m)
  <2>1. PICK g : HandlingOK(g) /\ Commit(g) /\ RemoveMakes(g, m.client)
                 /\ UNCHANGED <<configuration, failed>>
    BY <1>9 DEF RemoveHandled
  <2>2. Sq(g.requests) /\ Tracking(g.requests) /\ api' = api \o g.requests
    BY <2>1, RemoveTracking DEF HandlingOK, RequestsOK, Commit
  <2>3. m.op # "engineUp"
    BY <1>9 DEF RemoveHandled
  <2> QED BY <1>4, <2>1, <2>2, <2>3
<1>10. CASE AddClient(m)
  BY <1>6, <1>10 DEF AddClient
<1>11. CASE ResponseHandled(m)
  <2>1. PICK g : HandlingOK(g) /\ Commit(g) /\ ContinueMakes(g, m.then, m.ok)
                 /\ UNCHANGED <<configuration, failed>>
    BY <1>11 DEF ResponseHandled
  <2>2. Sq(g.requests) /\ Tracking(g.requests) /\ api' = api \o g.requests
    BY <1>11, <2>1, RespondTracking DEF HandlingOK, RequestsOK, Commit, ResponseHandled
  <2>3. m.op # "engineUp"
    BY <1>11 DEF ResponseHandled
  <2> QED BY <1>4, <2>1, <2>2, <2>3
<1>12. CASE Enable(m) \/ Disable(m)
  <2>1. (LockHeld => LockHeld') /\ (LockHeld /\ ConfHeld => ConfHeld')
    BY <1>1, <1>12, EnableConf
  <2>2. m.op # "engineUp" /\ failed' = failed
    BY <1>12 DEF Enable, Disable
  <2> QED BY <1>2, <1>3, <2>1, <2>2 DEF ConfAgrees
<1>13. CASE ConfigHandled(m)
  <2>1. PICK g : HandlingOK(g) /\ Commit(g) /\ ConfigMakes(g, m) /\ ConfTo(m)
    BY <1>13 DEF ConfigHandled
  <2>2. Sq(g.requests) /\ api' = api \o g.requests /\ m.config \in ConfigSet /\ m.op # "engineUp"
    BY <1>13, <2>1 DEF HandlingOK, RequestsOK, Commit, ConfigHandled
  <2>3. (LockHeld => LockHeld') /\ (ConfHeld => ConfHeld')
    BY <1>1, <2>1, <2>2, ConfigConf
  <2>4. failed' = failed
    BY <2>1 DEF ConfTo
  <2> QED BY <1>2, <1>3, <2>2, <2>3, <2>4 DEF ConfAgrees
<1>14. CASE EngineUpHandled(m)
  <2>1. PICK g : /\ HandlingOK(g) /\ Commit(g)
                 /\ Restarts(g, timeBased, distanceBased, <<setConfig, Lists>>, <<>>)
                 /\ UNCHANGED configuration
    BY <1>14 DEF EngineUpHandled
  <2>2. Sq(g.requests) /\ api' = api \o g.requests
    BY <2>1 DEF HandlingOK, RequestsOK, Commit
  <2>3. ConfAsked(g.requests)
    BY <1>1, <2>2, AskedIs
  <2>4. Sq(<<setConfig, Lists>>)
    <3>1. Append(<<setConfig>>, Lists) = <<setConfig, Lists>>
      BY Appends
    <3>2. Sq(<<setConfig>>)
      BY CountOne
    <3>3. Sq(Append(<<setConfig>>, Lists))
      BY <3>2, SqAppend
    <3> QED BY <3>1, <3>3
  <2>5. \A x \in ConfThings : \A v : Final(g.requests, x, v) = Final(<<setConfig, Lists>>, x, v)
    BY <2>1, <2>4, RestartsKeep
  <2>6. /\ LockTo' = IF mSupportNfwControl \/ mAfwControlId = 0 THEN mGps_conf.GPS_LOCK ELSE {}
        /\ VersionTo' = mGps_conf.SUPL_VER /\ BlacklistTo' = RecordedTo'
    BY <2>3, <2>5, AskedRecorded
  <2>7. UNCHANGED <<mAfwControlId, mSupportNfwControl, mGps_conf>>
    BY <2>1 DEF configuration
  <2>8. ~mSupportNfwControl => MO \in mGps_conf.GPS_LOCK
    BY DEF Types, ConfTypes
  <2>9. LockHeld'
    BY <1>3, <2>7 DEF LockHeld
  <2>10. ConfHeld'
    BY <1>3, <2>6, <2>7, <2>8 DEF ConfHeld, LockHeld
  <2> QED BY <2>9, <2>10 DEF ConfAgrees
<1> QED BY <1>1, <1>7, <1>8, <1>9, <1>10, <1>11, <1>12, <1>13, <1>14 DEF Handler

\* The configuration, at each step.
LEMMA ConfNext ==
    ASSUME Types, ConfAgrees, [Next]_vars
    PROVE  ConfAgrees'
<1>1. LockHeld /\ (~failed /\ Fresh => ConfHeld)
  BY DEF ConfAgrees
<1>2. ASSUME UNCHANGED <<api, modem, mBlacklistedSvIds, configuration, failed>>, Fresh' => Fresh
      PROVE  ConfAgrees'
  <2>1. UNCHANGED <<mAfwControlId, mSupportNfwControl, mGps_conf>>
    BY <1>2 DEF configuration
  <2>2. UNCHANGED <<LockTo, VersionTo, BlacklistTo, RecordedTo>>
    BY <1>2 DEF LockTo, VersionTo, BlacklistTo, RecordedTo
  <2>3. LockHeld' /\ (ConfHeld => ConfHeld')
    BY <1>1, <2>1, <2>2 DEF LockHeld, ConfHeld
  <2> QED BY <1>1, <1>2, <2>3 DEF ConfAgrees
<1>3. \A q, e : Sq(q) => Range(Append(q, e)) = Range(q) \cup {e}
  BY RangeIs
<1>4. Sq(queue)
  BY DEF Types, QueueTypes
<1>5. CASE Command
  <2>1. PICK op, m : Post(op, m)
    BY <1>5, CommandIs DEF Commanded
  <2>2. /\ queue' = Append(queue, m)
        /\ UNCHANGED <<api, modem, mBlacklistedSvIds, configuration, failed>>
    BY <2>1 DEF Post
  <2>3. Range(queue) \subseteq Range(queue')
    BY <1>3, <1>4, <2>2
  <2>4. Fresh' => Fresh
    BY <2>2, <2>3 DEF Fresh
  <2> QED BY <1>2, <2>2, <2>4
<1>6. CASE HandleMsg
  BY <1>6, HandledConf
<1>7. CASE LocApiStep
  <2>1. /\ modem'.up = modem.up /\ UNCHANGED configuration
        /\ \E ok \in BOOLEAN :
             /\ failed' = (failed \/ ~ok)
             /\ queue' = IF Head(api).then = NoThen THEN queue
                         ELSE Append(queue, [op |-> "response", then |-> Head(api).then, ok |-> ok])
    BY <1>7, LocApiIs
  <2>2. Range(queue) \subseteq Range(queue')
    BY <1>3, <1>4, <2>1
  <2>3. (Fresh' => Fresh) /\ (~failed' => ~failed)
    BY <2>1, <2>2 DEF Fresh
  <2>4. /\ RecordedTo' = RecordedTo
        /\ ~failed' => LockTo' = LockTo /\ VersionTo' = VersionTo /\ BlacklistTo' = BlacklistTo
    BY <1>7, LocApiFinal
  <2>5. UNCHANGED <<mAfwControlId, mSupportNfwControl, mGps_conf>>
    BY <2>1 DEF configuration
  <2>6. LockHeld' /\ (~failed' /\ ConfHeld => ConfHeld')
    BY <1>1, <2>4, <2>5 DEF LockHeld, ConfHeld
  <2> QED BY <1>1, <2>3, <2>6 DEF ConfAgrees
<1>8. CASE ModemDies
  <2>1. modem'.up = FALSE /\ UNCHANGED configuration
    BY <1>8 DEF ModemDies, Silent
  <2>2. LockHeld' /\ ~Fresh'
    BY <1>1, <2>1 DEF LockHeld, Fresh, configuration
  <2> QED BY <2>2 DEF ConfAgrees
<1>9. CASE ModemRises
  <2>1. queue' = Append(queue, [op |-> "engineUp"]) /\ UNCHANGED configuration
    BY <1>9 DEF ModemRises
  <2>2. [op |-> "engineUp"] \in Range(queue') /\ [op |-> "engineUp"].op = "engineUp"
    BY <1>3, <1>4, <2>1
  <2>3. LockHeld' /\ ~Fresh'
    BY <1>1, <2>1, <2>2 DEF LockHeld, Fresh, configuration
  <2> QED BY <2>3 DEF ConfAgrees
<1>10. CASE UNCHANGED vars
  <2>1. UNCHANGED <<api, modem, mBlacklistedSvIds, configuration, failed, queue>>
    BY <1>10 DEF vars
  <2>2. Fresh' => Fresh
    BY <2>1 DEF Fresh
  <2> QED BY <1>2, <2>1, <2>2
<1> QED BY <1>5, <1>6, <1>7, <1>8, <1>9, <1>10 DEF Next

\* The configuration at first.
LEMMA ConfInit == Init => ConfAgrees
<1> SUFFICES ASSUME Init PROVE ConfAgrees
  OBVIOUS
<1>1. /\ mAfwControlId = 0 /\ mSupportNfwControl = TRUE /\ api = <<>> /\ mBlacklistedSvIds = {}
      /\ mGps_conf = [GPS_LOCK |-> {MO, NI}, SUPL_VER |-> 1]
      /\ mGps_conf.GPS_LOCK = {MO, NI} /\ mGps_conf.SUPL_VER = 1
  BY DEF Init
<1>2. LockHeld
  BY <1>1 DEF LockHeld
<1>3. modem.up => modem.lock = {MO, NI} /\ modem.version = 1 /\ modem.blacklist = {}
  <2>1. modem = Silent \/ modem = [Silent EXCEPT !.up = TRUE, !.lock = {MO, NI}, !.version = 1]
    BY DEF Init, Boot
  <2>2. CASE modem = Silent
    BY <2>2 DEF Silent
  <2>3. CASE modem = [Silent EXCEPT !.up = TRUE, !.lock = {MO, NI}, !.version = 1]
    <3>1. modem = [up |-> TRUE, fix |-> NoFix, distance |-> {}, lock |-> {MO, NI}, version |-> 1,
                   blacklist |-> {}]
      BY <2>3 DEF Silent
    <3> QED BY <3>1
  <2> QED BY <2>1, <2>2, <2>3
<1>4. /\ LockTo = modem.lock /\ VersionTo = modem.version /\ BlacklistTo = modem.blacklist
      /\ RecordedTo = {}
  <2>1. \A x, v : Final(<<>>, x, v) = v
    BY FinalOne
  <2> QED BY <1>1, <2>1 DEF LockTo, VersionTo, BlacklistTo, RecordedTo
<1>5. Fresh => ConfHeld
  BY <1>1, <1>3, <1>4 DEF Fresh, ConfHeld
<1> QED BY <1>2, <1>5 DEF ConfAgrees

\* When all is quiet, the modem has what is asked of the configuration.
LEMMA ConfGives == Types /\ ConfAgrees => ModemConfigured
<1> SUFFICES ASSUME Types, ConfAgrees, Quiet, ~failed
             PROVE  /\ MO \in modem.lock <=> mAfwControlId = 0
                    /\ ~mSupportNfwControl /\ mAfwControlId # 0 => modem.lock = {}
                    /\ modem.version = mGps_conf.SUPL_VER
                    /\ modem.blacklist = mBlacklistedSvIds
  BY DEF ModemConfigured
<1>1. Fresh
  <2>1. Range(queue) = {}
    BY SqEmpty DEF Quiet, Range
  <2> QED BY <2>1 DEF Fresh, Quiet
<1>2. /\ LockTo = modem.lock /\ VersionTo = modem.version /\ BlacklistTo = modem.blacklist
      /\ RecordedTo = mBlacklistedSvIds
  <2>1. \A x, v : Final(<<>>, x, v) = v
    BY FinalOne
  <2> QED BY <2>1 DEF LockTo, VersionTo, BlacklistTo, RecordedTo, Quiet
<1> QED BY <1>1, <1>2 DEF ConfAgrees, ConfHeld

\* Once all is quiet, the modem has the lock, the version of SUPL and the list of satellites that
\* are recorded (ModemConfigured), whatever location was enabled, disabled and configured before,
\* in whatever order, and however often the modem restarted.
THEOREM ConfigurationSafe == Spec => []ModemConfigured
<1>1. Init => Types /\ ConfAgrees
  BY TypesInit, ConfInit
<1>2. Types /\ ConfAgrees /\ [Next]_vars => Types' /\ ConfAgrees'
  BY TypesNext, ConfNext
<1>3. Types /\ ConfAgrees => ModemConfigured
  BY ConfGives
<1> QED BY <1>1, <1>2, <1>3, PTL DEF Spec

-----------------------------------------------------------------------------
(* What a message changes about a session: what it is recorded as, what is   *)
(* asked about it, and what that makes of its distance.                      *)

\* The session is recorded as it was, or erased.
Same(t, d, t2, d2) == t2 = t /\ d2 = d
Gone(t, d, t2, d2) == (t = 1 /\ t2 = 0 /\ d2 = d) \/ (t = 0 /\ t2 = 0 /\ d2 = 0)

\* Before, the session is time-based (t), or follows a distance (d); then it is t2 and d2.  Of
\* what is asked, one request at most continues: as b.
StartRow(t, d, b, t2, d2, e) ==
    \/ b = "none" /\ Same(t, d, t2, d2) /\ e = "keep"
    \/ b = "started" /\ t2 = t /\ d2 = 1 /\ e = "start"
    \/ b \in {"none", "started"} /\ t2 = 1 /\ d2 = d /\ e = "keep"
UpdateRow(t, d, b, t2, d2, e) ==
    \/ t = 0 /\ d = 0 /\ b = "none" /\ Same(t, d, t2, d2) /\ e = "keep"
    \/ t = 1 /\ b \in {"none", "started", "answer"} /\ t2 = 0 /\ d2 = 1 /\ e = "start"
    \/ t = 1 /\ b \in {"none", "updated"} /\ Same(t, d, t2, d2) /\ e = "keep"
    \/ t = 0 /\ d = 1 /\ b = "switch" /\ t2 = 0 /\ d2 = 0 /\ e = "any"
    \/ t = 0 /\ d = 1 /\ b = "restart" /\ Same(t, d, t2, d2) /\ e = "any"
StopRow(t, d, b, t2, d2, e) ==
    \/ t = 1 /\ b \in {"none", "started", "answer"} /\ t2 = 0 /\ d2 = d /\ e = "keep"
    \/ t = 0 /\ d = 1 /\ b = "stopped" /\ Same(t, d, t2, d2) /\ e = "any"
    \/ t = 0 /\ d = 0 /\ b = "none" /\ Same(t, d, t2, d2) /\ e = "keep"
ContRow(a, ok, t, d, b, t2, d2, e) ==
    \/ a \in {"started", "updated", "answer"} /\ b = "none" /\ Same(t, d, t2, d2) /\ e = "keep"
    \/ a = "started" /\ ok = FALSE /\ b = "none" /\ Gone(t, d, t2, d2) /\ e = "keep"
    \/ a = "updated" /\ ok = FALSE /\ b = "none" /\ t2 = 1 /\ d2 = d /\ e = "keep"
    \/ a \in {"stopped", "erase"} /\ ok = TRUE /\ b = "none" /\ Gone(t, d, t2, d2) /\ e = "keep"
    \/ /\ a \in {"stopped", "erase", "restart", "restarted"} /\ ok = FALSE
       /\ b = "none" /\ Same(t, d, t2, d2) /\ e = "keep"
    \/ a = "switch" /\ b \in {"none", "started"} /\ t2 = 1 /\ d2 = d /\ e = "keep"
    \/ a = "restart" /\ ok = TRUE /\ b = "restarted" /\ Same(t, d, t2, d2) /\ e = "start"
    \/ a = "restarted" /\ ok = TRUE /\ b = "none" /\ t2 = t /\ d2 = 1 /\ e = "keep"
Row(a, ok, t, d, b, t2, d2, e) ==
    \/ a = "none" /\ b = "none" /\ Same(t, d, t2, d2) /\ e = "keep"
    \/ a = "start" /\ StartRow(t, d, b, t2, d2, e)
    \/ a = "update" /\ UpdateRow(t, d, b, t2, d2, e)
    \/ a = "stop" /\ StopRow(t, d, b, t2, d2, e)
    \/ a \in Conts /\ ContRow(a, ok, t, d, b, t2, d2, e)

\* Of these requests, the one about a session, if any.
Tagged(q, l, b) == \A k \in Kinds : N(RTags(q), {l} \X {k}) = One(k = b)
Asks(q, key, b) == \A l \in Keys : Tagged(q, l, IF l = key THEN b ELSE "none")

\* What they make of a session's distance: they start it, or leave it if it was, or may stop it.
EffectIs(q, l, e) ==
    /\ e = "start" => \A v : Final(q, Distance(l), v) = TRUE
    /\ e = "keep" => \A v : Final(q, Distance(l), v) \in {v, TRUE}

\* A message about one session changes no other.
Changes(g, key, a, ok) ==
    /\ \A l \in Keys \ {key} :
         EffectIs(g.requests, l, "keep") /\ In(l, g.time) = In(l, timeBased)
         /\ In(l, g.distance) = In(l, distanceBased)
    /\ \E b, e :
         /\ Asks(g.requests, key, b) /\ EffectIs(g.requests, key, e)
         /\ Row(a, ok, In(key, timeBased), In(key, distanceBased), b,
                In(key, g.time), In(key, g.distance), e)

\* Tags of requests, by kind.
LEMMA AsksIs ==
    ASSUME NEW key
    PROVE  /\ Asks(<<>>, key, "none")
           /\ \A r : r.then = NoThen => Asks(<<r>>, key, "none")
           /\ \A r : r.then.cont \in Conts /\ r.then.key = key => Asks(<<r>>, key, r.then.cont)
           /\ \A q, r, b : Sq(q) /\ Asks(q, key, b) /\ r.then = NoThen
                           => Asks(Append(q, r), key, b)
<1>1. Kinds = Commands \cup Conts /\ \A k \in Kinds : {k} \subseteq Commands \cup Conts /\ k # "none"
  BY DEF Kinds, Commands, Conts
<1>2. ASSUME NEW l, NEW k \in Kinds
      PROVE  /\ Count(<<"none", "none">>, {l} \X {k}) = 0
             /\ \A i, c : Count(<<i, c>>, {l} \X {k}) = IF i = l /\ c = k THEN 1 ELSE 0
  <2>1. {k} \subseteq Commands \cup Conts
    BY <1>1
  <2>2. \A K : K \subseteq Commands \cup Conts =>
               /\ Count(<<"none", "none">>, {l} \X K) = 0
               /\ \A i, c : Count(<<i, c>>, {l} \X K) = IF i = l /\ c \in K THEN 1 ELSE 0
    BY CountIn
  <2>3. /\ Count(<<"none", "none">>, {l} \X {k}) = 0
        /\ \A i, c : Count(<<i, c>>, {l} \X {k}) = IF i = l /\ c \in {k} THEN 1 ELSE 0
    BY <2>1, <2>2
  <2> QED BY <2>3
<1>3. ASSUME NEW r, NEW l, NEW k \in Kinds
      PROVE  /\ r.then = NoThen => Count(RTag(r), {l} \X {k}) = 0
             /\ r.then.cont \in Conts =>
                  Count(RTag(r), {l} \X {k}) = IF r.then.key = l /\ r.then.cont = k THEN 1 ELSE 0
  <2>1. r.then = NoThen => RTag(r) = <<"none", "none">>
    BY RTagIs
  <2>2. r.then.cont \in Conts => RTag(r) = <<r.then.key, r.then.cont>>
    BY RTagIs
  <2>3. Count(<<"none", "none">>, {l} \X {k}) = 0
    BY <1>2
  <2>4. \A i, c : Count(<<i, c>>, {l} \X {k}) = IF i = l /\ c = k THEN 1 ELSE 0
    BY <1>2
  <2>5. Count(<<r.then.key, r.then.cont>>, {l} \X {k})
          = IF r.then.key = l /\ r.then.cont = k THEN 1 ELSE 0
    BY <2>4
  <2> QED BY <2>1, <2>2, <2>3, <2>5
<1>4. Asks(<<>>, key, "none")
  <2>1. \A S : N(RTags(<<>>), S) = 0
    BY TagsCount, SqEmpty
  <2> QED BY <1>1, <2>1 DEF Asks, Tagged, One
<1>5. ASSUME NEW r, r.then = NoThen PROVE Asks(<<r>>, key, "none")
  <2>1. \A S : N(RTags(<<r>>), S) = Count(RTag(r), S)
    BY TagsOne
  <2>2. ASSUME NEW l \in Keys, NEW k \in Kinds PROVE N(RTags(<<r>>), {l} \X {k}) = 0
    <3>1. Count(RTag(r), {l} \X {k}) = 0
      BY <1>3, <1>5
    <3> QED BY <2>1, <3>1
  <2> QED BY <1>1, <2>2 DEF Asks, Tagged, One
<1>6. ASSUME NEW r, r.then.cont \in Conts, r.then.key = key PROVE Asks(<<r>>, key, r.then.cont)
  <2>1. \A S : N(RTags(<<r>>), S) = Count(RTag(r), S)
    BY TagsOne
  <2> SUFFICES ASSUME NEW l \in Keys, NEW k \in Kinds
               PROVE  N(RTags(<<r>>), {l} \X {k}) = One(k = IF l = key THEN r.then.cont ELSE "none")
    BY DEF Asks, Tagged
  <2>2. N(RTags(<<r>>), {l} \X {k}) = IF key = l /\ r.then.cont = k THEN 1 ELSE 0
    <3>1. Count(RTag(r), {l} \X {k}) = IF r.then.key = l /\ r.then.cont = k THEN 1 ELSE 0
      BY <1>3, <1>6
    <3> QED BY <1>6, <2>1, <3>1
  <2>3. k # "none"
    BY <1>1
  <2> QED BY <2>2, <2>3 DEF One
<1>7. ASSUME NEW q, NEW r, NEW b, Sq(q), Asks(q, key, b), r.then = NoThen
      PROVE  Asks(Append(q, r), key, b)
  <2> SUFFICES ASSUME NEW l \in Keys, NEW k \in Kinds
               PROVE  N(RTags(Append(q, r)), {l} \X {k}) = One(k = IF l = key THEN b ELSE "none")
    BY DEF Asks, Tagged
  <2>1. N(RTags(Append(q, r)), {l} \X {k})
          = N(RTags(q), {l} \X {k}) + Count(RTag(r), {l} \X {k})
    BY <1>7, TagsCount
  <2>2. Count(RTag(r), {l} \X {k}) = 0
    BY <1>3, <1>7
  <2>3. N(RTags(q), {l} \X {k}) = One(k = IF l = key THEN b ELSE "none")
    BY <1>7 DEF Asks, Tagged
  <2> QED BY <2>1, <2>2, <2>3 DEF One
<1> QED BY <1>4, <1>5, <1>6, <1>7

\* A request for the fix leaves the sessions' distances.
LEMMA EffectFix ==
    ASSUME NEW l, NEW r, r.do \in {"startFix", "stopFix"}
    PROVE  EffectIs(<<r>>, l, "keep")
<1> SUFFICES ASSUME NEW v PROVE Final(<<r>>, Distance(l), v) = v
  BY DEF EffectIs
<1>1. Final(<<r>>, Distance(l), v) = Set(r, Distance(l), v)
  BY FinalOne
<1>2. Set(r, Distance(l), v) = DistanceSetBy(r, l, v)
  BY SetIs
<1>3. DistanceSetBy(r, l, v) = v
  BY DEF DistanceSetBy
<1> QED BY <1>1, <1>2, <1>3

\* What starting and stopping make of the sessions' distances.
LEMMA EffectOf ==
    ASSUME NEW l
    PROVE  /\ EffectIs(<<>>, l, "keep")
           /\ \A key, o, t : EffectIs(<<startDistance(key, o, t)>>, l,
                                      IF key = l THEN "start" ELSE "keep")
           /\ \A key, t : EffectIs(<<stopDistance(key, t)>>, l, IF key = l THEN "any" ELSE "keep")
           /\ \A q, key, o, t :
                Sq(q) /\ EffectIs(q, l, "keep")
                => EffectIs(Append(q, startDistance(key, o, t)), l,
                            IF key = l THEN "start" ELSE "keep")
<1>1. \A r, v : Final(<<r>>, Distance(l), v) = DistanceSetBy(r, l, v)
  <2> TAKE r, v
  <2>1. Final(<<r>>, Distance(l), v) = Set(r, Distance(l), v)
    BY FinalOne
  <2>2. Set(r, Distance(l), v) = DistanceSetBy(r, l, v)
    BY SetIs
  <2> QED BY <2>1, <2>2
<1>2. \A x, v : Final(<<>>, x, v) = v
  BY FinalOne
<1>3. EffectIs(<<>>, l, "keep")
  BY <1>2 DEF EffectIs
<1>4. ASSUME NEW key, NEW o, NEW t
      PROVE  EffectIs(<<startDistance(key, o, t)>>, l, IF key = l THEN "start" ELSE "keep")
  <2>1. startDistance(key, o, t).do = "startDistance" /\ startDistance(key, o, t).key = key
    BY DistanceThen
  <2>2. \A v : DistanceSetBy(startDistance(key, o, t), l, v) = IF key = l THEN TRUE ELSE v
    BY <2>1 DEF DistanceSetBy
  <2>3. \A v : Final(<<startDistance(key, o, t)>>, Distance(l), v) = IF key = l THEN TRUE ELSE v
    BY <1>1, <2>2
  <2> QED BY <2>3 DEF EffectIs
<1>5. ASSUME NEW key, NEW t
      PROVE  EffectIs(<<stopDistance(key, t)>>, l, IF key = l THEN "any" ELSE "keep")
  <2>1. stopDistance(key, t).do = "stopDistance" /\ stopDistance(key, t).key = key
    BY DistanceThen
  <2>2. key # l => \A v : DistanceSetBy(stopDistance(key, t), l, v) = v
    BY <2>1 DEF DistanceSetBy
  <2>3. key # l => \A v : Final(<<stopDistance(key, t)>>, Distance(l), v) = v
    BY <1>1, <2>2
  <2> QED BY <2>3 DEF EffectIs
<1>7. ASSUME NEW q, NEW key, NEW o, NEW t, Sq(q), EffectIs(q, l, "keep")
      PROVE  EffectIs(Append(q, startDistance(key, o, t)), l, IF key = l THEN "start" ELSE "keep")
  <2> DEFINE r == startDistance(key, o, t)
  <2>1. r.do = "startDistance" /\ r.key = key
    BY DistanceThen
  <2>2. \A v : Set(r, Distance(l), v) = IF key = l THEN TRUE ELSE v
    <3> HIDE DEF r
    <3> TAKE v
    <3>1. Set(r, Distance(l), v) = DistanceSetBy(r, l, v)
      BY SetIs
    <3>2. DistanceSetBy(r, l, v) = IF key = l THEN TRUE ELSE v
      BY <2>1 DEF DistanceSetBy
    <3> QED BY <3>1, <3>2
  <2> HIDE DEF r
  <2>3. \A v : Final(Append(q, r), Distance(l), v) = Set(r, Distance(l), Final(q, Distance(l), v))
    BY <1>7, FinalAppend
  <2>4. \A v : Final(Append(q, r), Distance(l), v) = IF key = l THEN TRUE ELSE Final(q, Distance(l), v)
    BY <2>2, <2>3
  <2>5. EffectIs(Append(q, r), l, IF key = l THEN "start" ELSE "keep")
    BY <1>7, <2>4 DEF EffectIs
  <2> QED BY <2>5 DEF r
<1> QED BY <1>3, <1>4, <1>5, <1>7

\* A session that is recorded, or erased.
LEMMA InIs ==
    ASSUME NEW l, NEW f
    PROVE  /\ In(l, f) \in {0, 1} /\ (In(l, f) = 1 <=> l \in DOMAIN f)
           /\ \A key, o : In(l, With(f, key, o)) = IF l = key THEN 1 ELSE In(l, f)
           /\ \A key : In(l, Drop(f, key)) = IF l = key THEN 0 ELSE In(l, f)
<1>1. \A key, o : DOMAIN With(f, key, o) = DOMAIN f \cup {key}
  BY WithDomain
<1>2. \A key : DOMAIN Drop(f, key) = DOMAIN f \ {key}
  BY DropIs
<1>3. In(l, f) \in {0, 1} /\ (In(l, f) = 1 <=> l \in DOMAIN f)
  BY DEF In, One
<1>4. ASSUME NEW key, NEW o PROVE In(l, With(f, key, o)) = IF l = key THEN 1 ELSE In(l, f)
  <2>1. DOMAIN With(f, key, o) = DOMAIN f \cup {key}
    BY <1>1
  <2> QED BY <2>1 DEF In, One
<1>5. ASSUME NEW key PROVE In(l, Drop(f, key)) = IF l = key THEN 0 ELSE In(l, f)
  <2>1. DOMAIN Drop(f, key) = DOMAIN f \ {key}
    BY <1>2
  <2> QED BY <2>1 DEF In, One
<1> QED BY <1>3, <1>4, <1>5

\* Only time-based sessions are in the one map, and only the others in the other.
LEMMA StepChanges ==
    ASSUME Types, NEW key \in Keys, NEW g, NEW conts, conts \subseteq Conts, NEW T2,
           TimeStep(Handling, g, key, conts, T2)
    PROVE  /\ g.time = T2 /\ g.distance = distanceBased /\ Sq(g.requests)
           /\ \E b \in conts \cup {"none"} : Asks(g.requests, key, b)
           /\ \A l : EffectIs(g.requests, l, "keep")
<1>1. Handling.requests = <<>> /\ Handling.distance = distanceBased
  BY HandlingIs DEF Types, SessionTypes
<1>2. g.time = T2 /\ g.distance = distanceBased
  BY <1>1 DEF TimeStep
<1>3. CASE g.requests = <<>>
  <2>1. Asks(<<>>, key, "none") /\ \A l : EffectIs(<<>>, l, "keep")
    BY AsksIs, EffectOf
  <2> QED BY <1>2, <1>3, <2>1, SqEmpty
<1>4. CASE g.requests # <<>>
  <2>1. PICK r : /\ g.requests = Append(<<>>, r) /\ r.then.cont \in conts /\ r.then.key = key
                 /\ FixRequest(r, T2)
    BY <1>1, <1>4 DEF TimeStep
  <2>2. g.requests = <<r>>
    BY <2>1, Appends
  <2>3. r.do \in {"startFix", "stopFix"}
    BY <2>1 DEF FixRequest
  <2>4. \A p : p.then.cont \in Conts /\ p.then.key = key => Asks(<<p>>, key, p.then.cont)
    BY AsksIs
  <2>5. Asks(<<r>>, key, r.then.cont)
    <3>1. r.then.cont \in Conts /\ r.then.key = key
      BY <2>1
    <3> QED BY <2>4, <3>1
  <2>6. \A l : EffectIs(<<r>>, l, "keep")
    BY <2>3, EffectFix
  <2>7. Sq(<<r>>)
    BY CountOne
  <2> QED BY <1>2, <2>1, <2>2, <2>5, <2>6, <2>7
<1> QED BY <1>3, <1>4

\* A session's change, of one of these.
LEMMA ChangesBy ==
    ASSUME NEW g, NEW key \in Keys, NEW a, NEW ok, NEW b, NEW e,
           Asks(g.requests, key, b),
           \A l \in Keys : EffectIs(g.requests, l, IF l = key THEN e ELSE "keep"),
           \A l \in Keys \ {key} : In(l, g.time) = In(l, timeBased)
                                   /\ In(l, g.distance) = In(l, distanceBased),
           Row(a, ok, In(key, timeBased), In(key, distanceBased), b,
               In(key, g.time), In(key, g.distance), e)
    PROVE  Changes(g, key, a, ok)
<1>1. EffectIs(g.requests, key, e)
  OBVIOUS
<1>2. \A l \in Keys \ {key} : EffectIs(g.requests, l, "keep")
  OBVIOUS
<1> QED BY <1>1, <1>2 DEF Changes

\* A session that stays time-based, or becomes so, or is erased.
LEMMA StepRow ==
    ASSUME Types, NEW key \in Keys, NEW g, NEW conts, conts \subseteq Conts, NEW T2,
           TimeStep(Handling, g, key, conts, T2), NEW a, NEW ok,
           \A l \in Keys \ {key} : In(l, T2) = In(l, timeBased),
           \A b \in conts \cup {"none"} :
             Row(a, ok, In(key, timeBased), In(key, distanceBased), b,
                 In(key, T2), In(key, distanceBased), "keep")
    PROVE  Changes(g, key, a, ok)
<1>1. /\ g.time = T2 /\ g.distance = distanceBased
      /\ \A l : EffectIs(g.requests, l, "keep")
  BY StepChanges
<1>2. PICK b \in conts \cup {"none"} : Asks(g.requests, key, b)
  BY StepChanges
<1>3. Row(a, ok, In(key, timeBased), In(key, distanceBased), b, In(key, T2),
          In(key, distanceBased), "keep")
  OBVIOUS
<1>4. \A l \in Keys : EffectIs(g.requests, l, IF l = key THEN "keep" ELSE "keep")
  BY <1>1
<1> HIDE DEF Row
<1> QED BY <1>1, <1>2, <1>3, <1>4, ChangesBy

\* No request.
LEMMA SilentRow ==
    ASSUME NEW key \in Keys, NEW g, NEW T, NEW D, NEW k, Makes(g, T, D, <<>>, k), NEW a, NEW ok,
           \A l \in Keys \ {key} : In(l, T) = In(l, timeBased) /\ In(l, D) = In(l, distanceBased),
           Row(a, ok, In(key, timeBased), In(key, distanceBased), "none",
               In(key, T), In(key, D), "keep")
    PROVE  Changes(g, key, a, ok)
<1>1. g.time = T /\ g.distance = D /\ g.requests = <<>>
  BY DEF Makes
<1>2. Asks(<<>>, key, "none") /\ \A l : EffectIs(<<>>, l, "keep")
  BY AsksIs, EffectOf
<1>3. \A l \in Keys : EffectIs(g.requests, l, IF l = key THEN "keep" ELSE "keep")
  BY <1>1, <1>2
<1> HIDE DEF Row
<1> QED BY <1>1, <1>2, <1>3, ChangesBy

\* What starting a session's distance makes of it and of the others'.
LEMMA StartAsked ==
    ASSUME NEW key, NEW o, NEW t, NEW r, r = startDistance(key, o, t)
    PROVE  r.then = t /\ \A l : EffectIs(<<r>>, l, IF l = key THEN "start" ELSE "keep")
<1>1. r.then = t
  BY DistanceThen
<1>2. ASSUME NEW l PROVE EffectIs(<<r>>, l, IF l = key THEN "start" ELSE "keep")
  <2>1. EffectIs(<<startDistance(key, o, t)>>, l, IF key = l THEN "start" ELSE "keep")
    BY EffectOf
  <2> QED BY <2>1
<1> QED BY <1>1, <1>2

\* What stopping it does.
LEMMA StopAsked ==
    ASSUME NEW key, NEW t, NEW r, r = stopDistance(key, t)
    PROVE  r.then = t /\ \A l : EffectIs(<<r>>, l, IF l = key THEN "any" ELSE "keep")
<1>1. r.then = t
  BY DistanceThen
<1>2. ASSUME NEW l PROVE EffectIs(<<r>>, l, IF l = key THEN "any" ELSE "keep")
  <2>1. EffectIs(<<stopDistance(key, t)>>, l, IF key = l THEN "any" ELSE "keep")
    BY EffectOf
  <2> QED BY <2>1
<1> QED BY <1>1, <1>2

\* One request, to start or to stop a session that follows a distance.
LEMMA DistanceRow ==
    ASSUME NEW key \in Keys, NEW g, NEW T, NEW D, NEW k, NEW r, Makes(g, T, D, <<r>>, k), NEW a,
           NEW ok, NEW b, NEW e,
           \A l \in Keys : EffectIs(<<r>>, l, IF l = key THEN e ELSE "keep"),
           r.then.cont \in Conts, r.then.key = key, b = r.then.cont,
           \A l \in Keys \ {key} : In(l, T) = In(l, timeBased) /\ In(l, D) = In(l, distanceBased),
           Row(a, ok, In(key, timeBased), In(key, distanceBased), b,
               In(key, T), In(key, D), e)
    PROVE  Changes(g, key, a, ok)
<1>1. g.time = T /\ g.distance = D /\ g.requests = <<r>>
  BY DEF Makes
<1>3. Asks(<<r>>, key, b)
  BY AsksIs
<1> HIDE DEF Row
<1> QED BY <1>1, <1>3, ChangesBy

\* What a continuation is.
LEMMA ThenIs ==
    ASSUME NEW cont, NEW key, NEW o
    PROVE  /\ Then(cont, key, o).cont = cont /\ Then(cont, key, o).key = key
           /\ Then(cont, key, o).options = o
  BY DEF Then

\* The start of a session.
LEMMA StartChanges ==
    ASSUME Types, NEW key \in Keys, NEW o, NEW g, StartMakes(g, key, o), NEW ok
    PROVE  Changes(g, key, "start", ok)
<1> DEFINE t == In(key, timeBased)
           d == In(key, distanceBased)
<1>1. CASE Makes(g, timeBased, distanceBased, <<>>, <<>>)
  <2>1. Row("start", ok, t, d, "none", t, d, "keep")
    BY DEF Row, StartRow, Same
  <2> QED BY <1>1, <2>1, SilentRow
<1>2. CASE Makes(g, timeBased, With(distanceBased, key, Raised(o)),
                 <<startDistance(key, Raised(o), Started(key))>>, <<>>)
  <2> DEFINE D == With(distanceBased, key, Raised(o))
             c == Started(key)
             r == startDistance(key, Raised(o), c)
  <2>1. \A l : In(l, D) = IF l = key THEN 1 ELSE In(l, distanceBased)
    BY InIs
  <2>2. c.cont = "started" /\ c.key = key /\ "started" \in Conts
    BY ThenIs DEF Started, Conts
  <2>3. /\ r.then = c
        /\ \A l : EffectIs(<<r>>, l, IF l = key THEN "start" ELSE "keep")
    BY StartAsked
  <2> HIDE DEF D, c, r
  <2>4. Row("start", ok, t, d, "started", t, In(key, D), "start")
    BY <2>1 DEF Row, StartRow
  <2>5. Makes(g, timeBased, D, <<r>>, <<>>)
    BY <1>2 DEF D, c, r
  <2>6. \A l \in Keys \ {key} : In(l, timeBased) = In(l, timeBased)
                               /\ In(l, D) = In(l, distanceBased)
    BY <2>1
  <2> HIDE DEF Row, t, d
  <2> QED BY <2>2, <2>3, <2>4, <2>5, <2>6, DistanceRow DEF t, d
<1>3. CASE TimeStep(Handling, g, key, {"started"}, With(timeBased, key, Normal(o)))
  <2> DEFINE T == With(timeBased, key, Normal(o))
  <2>1. \A l : In(l, T) = IF l = key THEN 1 ELSE In(l, timeBased)
    BY InIs
  <2> HIDE DEF T
  <2>2. \A b \in {"started", "none"} : Row("start", ok, t, d, b, In(key, T), d, "keep")
    BY <2>1 DEF Row, StartRow
  <2>3. \A b \in {"started"} \cup {"none"} : Row("start", ok, t, d, b, In(key, T), d, "keep")
    BY <2>2
  <2>4. TimeStep(Handling, g, key, {"started"}, T) /\ {"started"} \subseteq Conts
    BY <1>3 DEF T, Conts
  <2> HIDE DEF Row
  <2> QED BY <2>1, <2>3, <2>4, StepRow
<1> QED BY <1>1, <1>2, <1>3 DEF StartMakes

\* The stop of a session.
LEMMA StopChanges ==
    ASSUME Types, NEW key \in Keys, NEW g, StopMakes(g, key), NEW ok
    PROVE  Changes(g, key, "stop", ok)
<1> DEFINE t == In(key, timeBased)
           d == In(key, distanceBased)
<1>0. /\ t \in {0, 1} /\ (t = 1 <=> key \in DOMAIN timeBased)
      /\ d \in {0, 1} /\ (d = 1 <=> key \in DOMAIN distanceBased)
  BY InIs
<1>1. CASE /\ key \in DOMAIN timeBased
           /\ TimeStep(Handling, g, key, {"started", "answer"}, Drop(timeBased, key))
  <2> DEFINE T == Drop(timeBased, key)
  <2>1. \A l : In(l, T) = IF l = key THEN 0 ELSE In(l, timeBased)
    BY InIs
  <2>4. TimeStep(Handling, g, key, {"started", "answer"}, T) /\ {"started", "answer"} \subseteq Conts
    BY <1>1 DEF Conts
  <2> HIDE DEF T
  <2>2. \A b \in {"started", "answer"} \cup {"none"} : Row("stop", ok, t, d, b, In(key, T), d, "keep")
    BY <1>0, <1>1, <2>1 DEF Row, StopRow
  <2> HIDE DEF Row
  <2> QED BY <2>1, <2>2, <2>4, StepRow
<1>2. CASE /\ key \in DOMAIN distanceBased \ DOMAIN timeBased
           /\ Makes(g, timeBased, distanceBased,
                    <<stopDistance(key, Then("stopped", key, NoOptions))>>, <<>>)
  <2> DEFINE c == Then("stopped", key, NoOptions)
             r == stopDistance(key, c)
  <2>1. c.cont = "stopped" /\ c.key = key /\ "stopped" \in Conts
    BY ThenIs DEF Conts
  <2>4. r.then = c /\ \A l : EffectIs(<<r>>, l, IF l = key THEN "any" ELSE "keep")
    BY StopAsked
  <2> HIDE DEF c, r
  <2>2. Row("stop", ok, t, d, "stopped", t, d, "any")
    BY <1>0, <1>2 DEF Row, StopRow, Same
  <2>3. Makes(g, timeBased, distanceBased, <<r>>, <<>>)
    BY <1>2 DEF c, r
  <2> HIDE DEF Row, t, d
  <2> QED BY <2>1, <2>2, <2>3, <2>4, DistanceRow DEF t, d
<1>3. CASE /\ key \notin DOMAIN timeBased \cup DOMAIN distanceBased
           /\ Makes(g, timeBased, distanceBased, <<>>, <<key>>)
  <2>1. Row("stop", ok, t, d, "none", t, d, "keep")
    BY <1>0, <1>3 DEF Row, StopRow, Same
  <2> QED BY <1>3, <2>1, SilentRow
<1> QED BY <1>1, <1>2, <1>3 DEF StopMakes

\* The change of a session.
LEMMA UpdateChanges ==
    ASSUME Types, NEW key \in Keys, NEW o, NEW g, UpdateMakes(g, key, o), NEW ok
    PROVE  Changes(g, key, "update", ok)
<1> DEFINE t == In(key, timeBased)
           d == In(key, distanceBased)
<1>0. /\ t \in {0, 1} /\ (t = 1 <=> key \in DOMAIN timeBased)
      /\ d \in {0, 1} /\ (d = 1 <=> key \in DOMAIN distanceBased)
  BY InIs
<1>1. CASE /\ key \notin DOMAIN timeBased \cup DOMAIN distanceBased
           /\ Makes(g, timeBased, distanceBased, <<>>, <<key>>)
  <2>1. Row("update", ok, t, d, "none", t, d, "keep")
    BY <1>0, <1>1 DEF Row, UpdateRow, Same
  <2> QED BY <1>1, <2>1, SilentRow
<1>2. ASSUME key \in DOMAIN timeBased, NEW p,
             TimeStep(Handling, p, key, {"started", "answer"}, Drop(timeBased, key)),
             Makes(g, Drop(timeBased, key), With(distanceBased, key, Normal(o)),
                   Append(p.requests, startDistance(key, Normal(o), NoThen)), p.answers)
      PROVE  Changes(g, key, "update", ok)
  <2> DEFINE T == Drop(timeBased, key)
             D == With(distanceBased, key, Normal(o))
             r == startDistance(key, Normal(o), NoThen)
  <2>1. \A l : In(l, T) = IF l = key THEN 0 ELSE In(l, timeBased)
    BY InIs
  <2>2. \A l : In(l, D) = IF l = key THEN 1 ELSE In(l, distanceBased)
    BY InIs
  <2>3. /\ Sq(p.requests)
        /\ \E b \in {"started", "answer"} \cup {"none"} : Asks(p.requests, key, b)
        /\ \A l : EffectIs(p.requests, l, "keep")
    BY <1>2, StepChanges DEF Conts
  <2>4. PICK b \in {"started", "answer", "none"} : Asks(p.requests, key, b)
    BY <2>3
  <2>5. g.time = T /\ g.distance = D /\ g.requests = Append(p.requests, r)
    BY <1>2 DEF Makes
  <2>6. r.then = NoThen
    BY DistanceThen
  <2>7. \A q, s, c : Sq(q) /\ Asks(q, key, c) /\ s.then = NoThen => Asks(Append(q, s), key, c)
    BY AsksIs
  <2>8. ASSUME NEW l \in Keys
        PROVE  EffectIs(Append(p.requests, r), l, IF l = key THEN "start" ELSE "keep")
    <3>1. EffectIs(p.requests, l, "keep")
      BY <2>3
    <3>2. \A q, k, n, c :
            Sq(q) /\ EffectIs(q, l, "keep")
            => EffectIs(Append(q, startDistance(k, n, c)), l, IF k = l THEN "start" ELSE "keep")
      BY EffectOf
    <3>3. EffectIs(Append(p.requests, startDistance(key, Normal(o), NoThen)), l,
                   IF key = l THEN "start" ELSE "keep")
      BY <2>3, <3>1, <3>2
    <3> QED BY <3>3
  <2> HIDE DEF T, D, r
  <2>9. Asks(g.requests, key, b)
    BY <2>3, <2>4, <2>5, <2>6, <2>7
  <2>10. Row("update", ok, t, d, b, In(key, T), In(key, D), "start")
    BY <1>0, <1>2, <2>1, <2>2, <2>4 DEF Row, UpdateRow
  <2> HIDE DEF Row
  <2> QED BY <2>1, <2>2, <2>5, <2>8, <2>9, <2>10, ChangesBy
<1>3. CASE /\ key \in DOMAIN timeBased
           /\ TimeStep(Handling, g, key, {"updated"}, With(timeBased, key, Normal(o)))
  <2> DEFINE T == With(timeBased, key, Normal(o))
  <2>1. \A l : In(l, T) = IF l = key THEN 1 ELSE In(l, timeBased)
    BY InIs
  <2>4. TimeStep(Handling, g, key, {"updated"}, T) /\ {"updated"} \subseteq Conts
    BY <1>3 DEF Conts
  <2> HIDE DEF T
  <2>2. \A b \in {"updated"} \cup {"none"} : Row("update", ok, t, d, b, In(key, T), d, "keep")
    BY <1>0, <1>3, <2>1 DEF Row, UpdateRow, Same
  <2> HIDE DEF Row
  <2> QED BY <2>1, <2>2, <2>4, StepRow
<1>4. CASE /\ key \in DOMAIN distanceBased \ DOMAIN timeBased
           /\ Makes(g, timeBased, Drop(distanceBased, key),
                    <<stopDistance(key, Then("switch", key, Normal(o)))>>, <<>>)
  <2> DEFINE c == Then("switch", key, Normal(o))
             r == stopDistance(key, c)
             D == Drop(distanceBased, key)
  <2>1. c.cont = "switch" /\ c.key = key /\ "switch" \in Conts
    BY ThenIs DEF Conts
  <2>2. \A l : In(l, D) = IF l = key THEN 0 ELSE In(l, distanceBased)
    BY InIs
  <2>3. Makes(g, timeBased, D, <<r>>, <<>>)
    BY <1>4
  <2>6. r.then = c /\ \A l : EffectIs(<<r>>, l, IF l = key THEN "any" ELSE "keep")
    BY StopAsked
  <2> HIDE DEF c, D, r
  <2>4. Row("update", ok, t, d, "switch", t, In(key, D), "any")
    BY <1>0, <1>4, <2>2 DEF Row, UpdateRow
  <2>5. \A l \in Keys \ {key} : In(l, timeBased) = In(l, timeBased)
                               /\ In(l, D) = In(l, distanceBased)
    BY <2>2
  <2> HIDE DEF Row, t, d
  <2> QED BY <2>1, <2>3, <2>4, <2>5, <2>6, DistanceRow, SMTT(60) DEF t, d
<1>5. CASE /\ key \in DOMAIN distanceBased \ DOMAIN timeBased
           /\ Makes(g, timeBased, distanceBased,
                    <<stopDistance(key, Then("restart", key, Normal(o)))>>, <<>>)
  <2> DEFINE c == Then("restart", key, Normal(o))
             r == stopDistance(key, c)
  <2>1. c.cont = "restart" /\ c.key = key /\ "restart" \in Conts
    BY ThenIs DEF Conts
  <2>3. Makes(g, timeBased, distanceBased, <<r>>, <<>>)
    BY <1>5
  <2>6. r.then = c /\ \A l : EffectIs(<<r>>, l, IF l = key THEN "any" ELSE "keep")
    BY StopAsked
  <2> HIDE DEF c, r
  <2>4. Row("update", ok, t, d, "restart", t, d, "any")
    BY <1>0, <1>5 DEF Row, UpdateRow, Same
  <2> HIDE DEF Row, t, d
  <2> QED BY <2>1, <2>3, <2>4, <2>6, DistanceRow DEF t, d
<1> QED BY <1>1, <1>2, <1>3, <1>4, <1>5 DEF UpdateMakes

\* What is left when a session is erased.
LEMMA GoneIs ==
    ASSUME NEW key \in Keys, NEW g, NEW k, Erased(g, key, k), NEW a, NEW ok,
           \A t2, d2 : Gone(In(key, timeBased), In(key, distanceBased), t2, d2)
                       => Row(a, ok, In(key, timeBased), In(key, distanceBased), "none", t2, d2, "keep")
    PROVE  Changes(g, key, a, ok)
<1> DEFINE t == In(key, timeBased)
           d == In(key, distanceBased)
<1>0. /\ t \in {0, 1} /\ (t = 1 <=> key \in DOMAIN timeBased)
      /\ d \in {0, 1} /\ (d = 1 <=> key \in DOMAIN distanceBased)
  BY InIs
<1>1. CASE /\ key \in DOMAIN timeBased
           /\ Makes(g, Drop(timeBased, key), distanceBased, <<>>, k)
  <2> DEFINE T == Drop(timeBased, key)
  <2>1. \A l : In(l, T) = IF l = key THEN 0 ELSE In(l, timeBased)
    BY InIs
  <2>2. Makes(g, T, distanceBased, <<>>, k)
    BY <1>1
  <2> HIDE DEF T
  <2>3. Gone(t, d, In(key, T), d)
    BY <1>0, <1>1, <2>1 DEF Gone
  <2>4. Row(a, ok, t, d, "none", In(key, T), d, "keep")
    BY <2>3
  <2> HIDE DEF Row, Gone
  <2> QED BY <2>1, <2>2, <2>4, SilentRow
<1>2. CASE /\ key \notin DOMAIN timeBased
           /\ Makes(g, timeBased, Drop(distanceBased, key), <<>>, k)
  <2> DEFINE D == Drop(distanceBased, key)
  <2>1. \A l : In(l, D) = IF l = key THEN 0 ELSE In(l, distanceBased)
    BY InIs
  <2>2. Makes(g, timeBased, D, <<>>, k)
    BY <1>2
  <2> HIDE DEF D
  <2>3. Gone(t, d, t, In(key, D))
    BY <1>0, <1>2, <2>1 DEF Gone
  <2>4. Row(a, ok, t, d, "none", t, In(key, D), "keep")
    BY <2>3
  <2> HIDE DEF Row, Gone
  <2> QED BY <2>1, <2>2, <2>4, SilentRow
<1> QED BY <1>1, <1>2 DEF Erased

\* A session that stays what it is.
LEMMA KeptIs ==
    ASSUME NEW key \in Keys, NEW g, NEW k, Kept(g, k), NEW a, NEW ok,
           Row(a, ok, In(key, timeBased), In(key, distanceBased), "none",
               In(key, timeBased), In(key, distanceBased), "keep")
    PROVE  Changes(g, key, a, ok)
<1>1. Makes(g, timeBased, distanceBased, <<>>, k)
  BY DEF Kept
<1> HIDE DEF Row
<1> QED BY <1>1, SilentRow

\* What a response changes, of each kind.
LEMMA RespondForms ==
    ASSUME Types, NEW key \in Keys, NEW a \in Conts, NEW o, NEW ok, NEW g, NEW k
    PROVE  /\ /\ Kept(g, k)
              /\ \/ a \in {"started", "updated", "answer"}
                 \/ a \in {"stopped", "erase", "restart", "restarted"} /\ ok = FALSE
              => Changes(g, key, a, ok)
           /\ /\ Erased(g, key, k)
              /\ (a = "started" /\ ok = FALSE) \/ (a \in {"stopped", "erase"} /\ ok = TRUE)
              => Changes(g, key, a, ok)
           /\ /\ a = "updated" /\ ok = FALSE
              /\ Makes(g, With(timeBased, key, o), distanceBased, <<>>, k)
              => Changes(g, key, a, ok)
           /\ /\ a = "switch"
              /\ TimeStep(Handling, g, key, {"started"}, With(timeBased, key, o))
              => Changes(g, key, a, ok)
           /\ /\ a = "restart" /\ ok = TRUE
              /\ Makes(g, timeBased, distanceBased,
                       <<startDistance(key, o, Then("restarted", key, o))>>, k)
              => Changes(g, key, a, ok)
           /\ /\ a = "restarted" /\ ok = TRUE
              /\ Makes(g, timeBased, With(distanceBased, key, o), <<>>, k)
              => Changes(g, key, a, ok)
<1> DEFINE t == In(key, timeBased)
           d == In(key, distanceBased)
<1>0. \A l : /\ In(l, With(timeBased, key, o)) = IF l = key THEN 1 ELSE In(l, timeBased)
            /\ In(l, With(distanceBased, key, o)) = IF l = key THEN 1 ELSE In(l, distanceBased)
  <2> TAKE l
  <2>1. In(l, With(timeBased, key, o)) = IF l = key THEN 1 ELSE In(l, timeBased)
    BY InIs
  <2>2. In(l, With(distanceBased, key, o)) = IF l = key THEN 1 ELSE In(l, distanceBased)
    BY InIs
  <2> QED BY <2>1, <2>2
<1>1. ASSUME Kept(g, k),
             \/ a \in {"started", "updated", "answer"}
             \/ a \in {"stopped", "erase", "restart", "restarted"} /\ ok = FALSE
      PROVE  Changes(g, key, a, ok)
  <2>1. Row(a, ok, t, d, "none", t, d, "keep")
    BY <1>1 DEF Row, ContRow, Same
  <2> HIDE DEF Row
  <2> QED BY <1>0, <1>1, <2>1, KeptIs
<1>2. ASSUME Erased(g, key, k),
             (a = "started" /\ ok = FALSE) \/ (a \in {"stopped", "erase"} /\ ok = TRUE)
      PROVE  Changes(g, key, a, ok)
  <2>1. \A t2, d2 : Gone(t, d, t2, d2) => Row(a, ok, t, d, "none", t2, d2, "keep")
    BY <1>0, <1>2 DEF Row, ContRow
  <2> HIDE DEF Row
  <2> QED BY <1>0, <1>2, <2>1, GoneIs
<1>3. ASSUME a = "updated", ok = FALSE,
             Makes(g, With(timeBased, key, o), distanceBased, <<>>, k)
      PROVE  Changes(g, key, a, ok)
  <2> DEFINE T == With(timeBased, key, o)
  <2>1. \A l : In(l, T) = IF l = key THEN 1 ELSE In(l, timeBased)
    BY <1>0
  <2>2. Makes(g, T, distanceBased, <<>>, k)
    BY <1>3
  <2> HIDE DEF T
  <2>4. Row(a, ok, t, d, "none", In(key, T), d, "keep")
    BY <1>0, <1>3, <2>1 DEF Row, ContRow
  <2> HIDE DEF Row
  <2> QED BY <1>0, <2>1, <2>2, <2>4, SilentRow
<1>4. ASSUME a = "switch",
             TimeStep(Handling, g, key, {"started"}, With(timeBased, key, o))
      PROVE  Changes(g, key, a, ok)
  <2> DEFINE T == With(timeBased, key, o)
  <2>1. \A l : In(l, T) = IF l = key THEN 1 ELSE In(l, timeBased)
    BY <1>0
  <2>2. TimeStep(Handling, g, key, {"started"}, T) /\ {"started"} \subseteq Conts
    BY <1>4 DEF Conts
  <2> HIDE DEF T
  <2>3. \A b \in {"started"} \cup {"none"} : Row(a, ok, t, d, b, In(key, T), d, "keep")
    BY <1>0, <1>4, <2>1 DEF Row, ContRow
  <2> HIDE DEF Row
  <2> QED BY <1>0, <2>1, <2>2, <2>3, StepRow
<1>5. ASSUME a = "restart", ok = TRUE, NEW r,
             r = startDistance(key, o, Then("restarted", key, o)),
             Makes(g, timeBased, distanceBased, <<r>>, k)
      PROVE  Changes(g, key, a, ok)
  <2> DEFINE c == Then("restarted", key, o)
  <2>1. c.cont = "restarted" /\ c.key = key /\ "restarted" \in Conts
    BY ThenIs DEF Conts
  <2>2. r = startDistance(key, o, c)
    BY <1>5
  <2> HIDE DEF c
  <2>3. r.then = c /\ \A l : EffectIs(<<r>>, l, IF l = key THEN "start" ELSE "keep")
    BY <2>2, StartAsked
  <2>4. Row(a, ok, t, d, "restarted", t, d, "start")
    BY <1>0, <1>5 DEF Row, ContRow, Same
  <2>5. r.then.cont \in Conts /\ r.then.key = key /\ "restarted" = r.then.cont
    BY <2>1, <2>3
  <2> HIDE DEF Row, t, d
  <2>6. Makes(g, timeBased, distanceBased, <<r>>, k)
    BY <1>5
  <2>7. \A l \in Keys : EffectIs(<<r>>, l, IF l = key THEN "start" ELSE "keep")
    BY <2>3
  <2>8. Row(a, ok, In(key, timeBased), In(key, distanceBased), "restarted",
            In(key, timeBased), In(key, distanceBased), "start")
    BY <2>4 DEF t, d
  <2> QED BY <2>5, <2>6, <2>7, <2>8, DistanceRow
<1>6. ASSUME a = "restarted", ok = TRUE,
             Makes(g, timeBased, With(distanceBased, key, o), <<>>, k)
      PROVE  Changes(g, key, a, ok)
  <2> DEFINE D == With(distanceBased, key, o)
  <2>1. \A l : In(l, D) = IF l = key THEN 1 ELSE In(l, distanceBased)
    BY <1>0
  <2>2. Makes(g, timeBased, D, <<>>, k)
    BY <1>6
  <2> HIDE DEF D
  <2>4. Row(a, ok, t, d, "none", t, In(key, D), "keep")
    BY <1>0, <1>6, <2>1 DEF Row, ContRow
  <2> HIDE DEF Row
  <2> QED BY <1>0, <2>1, <2>2, <2>4, SilentRow
<1> HIDE DEF t, d
<1> QED BY <1>1, <1>2, <1>3, <1>4, <1>5, <1>6

\* A response.
LEMMA RespondChanges ==
    ASSUME Types, NEW then, ThenOK(then), then # NoThen, NEW ok \in BOOLEAN, NEW g,
           ContinueMakes(g, then, ok)
    PROVE  Changes(g, then.key, then.cont, ok)
<1>0. then.key \in Keys /\ then.cont \in Conts
  BY DEF ThenOK
<1> SUFFICES ASSUME NEW key \in Keys, key = then.key, NEW a \in Conts, a = then.cont,
                    NEW o, o = then.options
             PROVE  Changes(g, key, a, ok)
  BY <1>0
<1>7. ok = TRUE \/ ok = FALSE
  OBVIOUS
<1>8. CASE \/ Kept(g, <<>>) /\ a \in {"erase", "restart"} /\ ok = FALSE
           \/ Kept(g, <<key>>) /\ a \in {"started", "updated", "answer"}
           \/ Kept(g, <<key>>) /\ a \in {"stopped", "restarted"} /\ ok = FALSE
  BY <1>8, RespondForms
<1>9. CASE \/ Erased(g, key, <<>>) /\ a = "erase" /\ ok = TRUE
           \/ Erased(g, key, <<key>>) /\ a = "started" /\ ok = FALSE
           \/ Erased(g, key, <<key>>) /\ a = "stopped" /\ ok = TRUE
  BY <1>9, RespondForms
<1>10. CASE /\ a = "updated" /\ ok = FALSE
            /\ Makes(g, With(timeBased, key, o), distanceBased, <<>>, <<key>>)
  BY <1>10, RespondForms
<1>11. CASE a = "switch" /\ TimeStep(Handling, g, key, {"started"}, With(timeBased, key, o))
  BY <1>11, RespondForms
<1>12. CASE /\ a = "restart" /\ ok = TRUE
            /\ Makes(g, timeBased, distanceBased,
                     <<startDistance(key, o, Then("restarted", key, o))>>, <<>>)
  BY <1>12, RespondForms
<1>13. CASE /\ a = "restarted" /\ ok = TRUE
            /\ Makes(g, timeBased, With(distanceBased, key, o), <<>>, <<key>>)
  BY <1>13, RespondForms
<1> QED BY <1>7, <1>8, <1>9, <1>10, <1>11, <1>12, <1>13 DEF ContinueMakes

\* A command of tracking.
LEMMA TrackChanges ==
    ASSUME Types, NEW m, m.key \in Keys, NEW g, TrackMakes(g, m), NEW ok
    PROVE  Changes(g, m.key, m.op, ok)
<1>1. CASE m.op = "start" /\ StartMakes(g, m.key, m.options)
  <2>1. Changes(g, m.key, "start", ok)
    BY <1>1, StartChanges
  <2> QED BY <1>1, <2>1
<1>2. CASE m.op = "update" /\ UpdateMakes(g, m.key, m.options)
  <2>1. Changes(g, m.key, "update", ok)
    BY <1>2, UpdateChanges
  <2> QED BY <1>2, <2>1
<1>3. CASE m.op = "stop" /\ StopMakes(g, m.key)
  <2>1. Changes(g, m.key, "stop", ok)
    BY <1>3, StopChanges
  <2> QED BY <1>3, <2>1
<1> QED BY <1>1, <1>2, <1>3 DEF TrackMakes

\* Requests that stop no session that follows a distance.
NoStops(q) == \A r \in Range(q) : r.do # "stopDistance"

\* They leave a distance that is started, and may start it.
LEMMA NoStopsKeep ==
    ASSUME NEW q, Sq(q), NoStops(q), NEW l
    PROVE  EffectIs(q, l, "keep")
<1> SUFFICES ASSUME NEW v PROVE Final(q, Distance(l), v) \in {v, TRUE}
  BY DEF EffectIs
<1>1. CASE Setting(q, Distance(l)) = {}
  BY <1>1 DEF Final
<1>2. CASE Setting(q, Distance(l)) # {}
  <2>1. PICK j \in DOMAIN q : Lasts(q, Distance(l), j)
    BY <1>2, FinalLast
  <2>2. Final(q, Distance(l), v) = CHOOSE w : w \in View(q[j], Distance(l))
    BY <2>1, FinalAt
  <2>3. q[j].do # "stopDistance" /\ View(q[j], Distance(l)) # {}
    BY <2>1 DEF NoStops, Range, Lasts
  <2>4. View(q[j], Distance(l)) = {TRUE}
    BY <2>3 DEF View, Distance, Only
  <2> QED BY <2>2, <2>4
<1> QED BY <1>1, <1>2

\* Requests that continue as nothing are about no session.
LEMMA SilentTagged ==
    ASSUME NEW q, Sq(q), \A j \in DOMAIN q : q[j].then = NoThen, NEW l
    PROVE  Tagged(q, l, "none")
<1>1. ASSUME NEW k \in Kinds PROVE N(RTags(q), {l} \X {k}) = 0 /\ k # "none"
  <2>1. {k} \subseteq Commands \cup Conts /\ k # "none"
    BY DEF Kinds, Commands, Conts
  <2>2. Without2(q, {k})
    BY DEF Without2
  <2> QED BY <2>1, <2>2, NotAsked
<1> QED BY <1>1 DEF Tagged, One

\* Starting every session again stops none.
LEMMA RestartsStart ==
    ASSUME NEW g, NEW T, NEW D, NEW q, Restarts(g, T, D, q, <<>>), Sq(q), NoStops(q)
    PROVE  NoStops(g.requests)
<1>1. PICK p, s : Refix(q, p, T) /\ Starts(s, D) /\ g.requests = p \o s
  BY DEF Restarts, Makes
<1>2. Sq(p) /\ NoStops(p)
  <2>1. CASE p = q
    BY <2>1
  <2>2. CASE p # q
    <3>1. PICK r : p = Append(q, r) /\ FixRequest(r, T)
      BY <1>1, <2>2 DEF Refix
    <3>2. r.do # "stopDistance"
      BY <3>1 DEF FixRequest
    <3>3. Range(p) = Range(q) \cup {r} /\ Sq(p)
      BY <3>1, RangeIs, SqAppend
    <3> QED BY <3>2, <3>3 DEF NoStops
  <2> QED BY <2>1, <2>2
<1>3. Sq(s) /\ NoStops(s)
  <2>1. Sq(s)
    BY <1>1 DEF Starts
  <2>2. ASSUME NEW j \in DOMAIN s PROVE s[j].do # "stopDistance"
    <3>1. PICK key : s[j] = startDistance(key, D[key], NoThen)
      BY <1>1 DEF Starts
    <3> QED BY <3>1, DistanceThen
  <2> QED BY <2>1, <2>2 DEF NoStops, Range
<1>4. Range(p \o s) = Range(p) \cup Range(s)
  BY <1>2, <1>3, RangeIs
<1> QED BY <1>1, <1>2, <1>3, <1>4 DEF NoStops

\* Neither does a change of the configuration, or what a restart of the modem is told.
LEMMA ConfigStarts ==
    ASSUME Types, NEW g, HandlingOK(g), NEW m,
           ConfigMakes(g, m) \/ Restarts(g, timeBased, distanceBased, <<setConfig, Lists>>, <<>>)
    PROVE  NoStops(g.requests)
<1>1. /\ Asked(m).do = "config" /\ StopFix.do = "stopFix" /\ setConfig.do = "config"
      /\ Lists.do = "blacklist"
  BY DEF Asked, StopFix, setConfig, Lists, configRequest
<1>2. \A r : r.do # "stopDistance" => NoStops(<<r>>) /\ Sq(<<r>>)
  <2> TAKE r
  <2>1. Range(<<r>>) = {r}
    BY DEF Range
  <2> QED BY <2>1, CountOne DEF NoStops
<1>3. \A r, n : r.do # "stopDistance" /\ n.do # "stopDistance"
                => NoStops(<<r, n>>) /\ Sq(<<r, n>>)
  <2> TAKE r, n
  <2>1. Range(<<r, n>>) = {r, n}
    BY DEF Range
  <2>2. Sq(<<r, n>>)
    BY DEF Sq, Range
  <2> QED BY <2>1, <2>2 DEF NoStops
<1>4. CASE Makes(g, timeBased, distanceBased, <<Asked(m)>>, <<>>)
  BY <1>1, <1>2, <1>4 DEF Makes
<1>5. CASE Restarts(g, timeBased, distanceBased, <<Asked(m)>>, <<>>)
  <2>1. NoStops(<<Asked(m)>>) /\ Sq(<<Asked(m)>>)
    BY <1>1, <1>2
  <2> QED BY <1>5, <2>1, RestartsStart
<1>6. CASE Restarts(g, timeBased, distanceBased, <<StopFix, Asked(m)>>, <<>>)
  <2>1. NoStops(<<StopFix, Asked(m)>>) /\ Sq(<<StopFix, Asked(m)>>)
    BY <1>1, <1>3
  <2> QED BY <1>6, <2>1, RestartsStart
<1>7. CASE Restarts(g, timeBased, distanceBased, <<setConfig, Lists>>, <<>>)
  <2>1. NoStops(<<setConfig, Lists>>) /\ Sq(<<setConfig, Lists>>)
    BY <1>1, <1>3
  <2> QED BY <1>7, <2>1, RestartsStart
<1> QED BY <1>4, <1>5, <1>6, <1>7 DEF ConfigMakes

\* How many of the requests are about a session, of a kind.
Asking(q, l, k) == N(RTags(q), {l} \X {k})

\* What a client's removal asks about one of its sessions, which is left as t2 and d2.
RemoveRow(q, l, t, d, t2, d2) ==
    /\ t2 = 0 /\ d2 = d
    /\ \A k \in Kinds : /\ Asking(q, l, k) \in Nat
                        /\ k \notin {"started", "answer", "erase"} => Asking(q, l, k) = 0
    /\ t = 0 => Asking(q, l, "started") = 0 /\ Asking(q, l, "answer") = 0
    /\ d = 0 => Asking(q, l, "erase") = 0 /\ EffectIs(q, l, "keep")
    /\ d = 1 => Asking(q, l, "erase") > 0

\* Its requests about the fix.
LEMMA StopsTimeAsk ==
    ASSUME NEW p, RequestsOK(p), NEW c, StopsTime(p, c), NEW l \in Keys
    PROVE  /\ \A k \in Kinds : Asking(p, l, k) \in Nat
           /\ \A k \in Kinds : k \notin {"started", "answer"} \/ l \notin Mine(timeBased, c)
                               => Asking(p, l, k) = 0
           /\ \A v : Final(p, Distance(l), v) = v
<1>0. Sq(p)
  BY DEF RequestsOK
<1>1. ASSUME NEW k \in Kinds PROVE Asking(p, l, k) \in Nat
  BY <1>0, TagsCount DEF Asking
<1>2. ASSUME NEW j \in DOMAIN p
      PROVE  /\ RTag(p[j]) = <<p[j].then.key, p[j].then.cont>>
             /\ p[j].then.cont \in {"started", "answer"} /\ p[j].then.key \in Mine(timeBased, c)
             /\ p[j].do \in {"startFix", "stopFix"}
  <2>1. /\ p[j].then.cont \in {"started", "answer"} /\ p[j].then.key \in Mine(timeBased, c)
        /\ p[j].do \in {"startFix", "stopFix"}
    BY DEF StopsTime
  <2>2. p[j].then.cont \in Conts
    BY <2>1 DEF Conts
  <2>3. RTag(p[j]) = <<p[j].then.key, p[j].then.cont>>
    BY <2>2, RTagIs
  <2> QED BY <2>1, <2>3
<1>3. ASSUME NEW k \in Kinds, k \notin {"started", "answer"} \/ l \notin Mine(timeBased, c)
      PROVE  Asking(p, l, k) = 0
  <2>1. \A j \in DOMAIN p : RTag(p[j]) \notin {l} \X {k}
    BY <1>2, <1>3
  <2> QED BY <1>0, <2>1, TagsCount DEF Asking
<1>4. ASSUME NEW v PROVE Final(p, Distance(l), v) = v
  <2>1. \A j \in DOMAIN p : View(p[j], Distance(l)) = {}
    BY <1>2 DEF View, Distance, Only
  <2> QED BY <2>1, FinalNone
<1> QED BY <1>1, <1>3, <1>4

\* Its requests about distances.
LEMMA ErasesAsk ==
    ASSUME NEW s, NEW c, Erases(s, c), NEW l \in Keys
    PROVE  /\ \A k \in Kinds : Asking(s, l, k) \in Nat
           /\ \A k \in Kinds : k # "erase" \/ l \notin Mine(distanceBased, c)
                               => Asking(s, l, k) = 0
           /\ l \in Mine(distanceBased, c) => Asking(s, l, "erase") > 0
           /\ l \notin Mine(distanceBased, c) => \A v : Final(s, Distance(l), v) = v
<1>0. Sq(s)
  BY DEF Erases
<1>1. \A k : Asking(s, l, k) \in Nat
  BY <1>0, TagsCount DEF Asking
<1>2. \A key : LET r == stopDistance(key, Then("erase", key, NoOptions))
               IN  RTag(r) = <<key, "erase">> /\ r.do = "stopDistance" /\ r.key = key
  <2> TAKE key
  <2> DEFINE t == Then("erase", key, NoOptions)
             r == stopDistance(key, t)
  <2>1. t.cont = "erase" /\ t.key = key /\ "erase" \in Conts
    BY ThenIs DEF Conts
  <2>2. r.then = t /\ r.do = "stopDistance" /\ r.key = key
    BY DistanceThen
  <2>3. RTag(r) = <<r.then.key, r.then.cont>>
    BY <2>1, <2>2, RTagIs
  <2> QED BY <2>1, <2>2, <2>3
<1>3. ASSUME NEW j \in DOMAIN s
      PROVE  \E key \in Mine(distanceBased, c) :
               RTag(s[j]) = <<key, "erase">> /\ s[j].do = "stopDistance" /\ s[j].key = key
  <2>1. PICK key \in Mine(distanceBased, c) :
          s[j] = stopDistance(key, Then("erase", key, NoOptions))
    BY DEF Erases
  <2> QED BY <1>2, <2>1
<1>4. ASSUME NEW k \in Kinds, k # "erase" \/ l \notin Mine(distanceBased, c)
      PROVE  Asking(s, l, k) = 0
  <2>1. \A j \in DOMAIN s : RTag(s[j]) \notin {l} \X {k}
    BY <1>3, <1>4
  <2> QED BY <1>0, <2>1, TagsCount DEF Asking
<1>5. ASSUME l \in Mine(distanceBased, c) PROVE Asking(s, l, "erase") > 0
  <2>1. PICK j \in DOMAIN s : s[j] = stopDistance(l, Then("erase", l, NoOptions))
    BY <1>5 DEF Erases
  <2>2. RTag(s[j]) = <<l, "erase">>
    BY <1>2, <2>1
  <2>3. Asking(s, l, "erase") # 0
    <3>1. RTag(s[j]) \in {l} \X {"erase"}
      BY <2>2
    <3> QED BY <1>0, <3>1, TagsCount DEF Asking
  <2> QED BY <1>1, <2>3
<1>6. ASSUME l \notin Mine(distanceBased, c), NEW v PROVE Final(s, Distance(l), v) = v
  <2>1. ASSUME NEW j \in DOMAIN s PROVE View(s[j], Distance(l)) = {}
    <3>1. PICK key \in Mine(distanceBased, c) : s[j].do = "stopDistance" /\ s[j].key = key
      BY <1>3
    <3>2. key # l
      BY <1>6
    <3> QED BY <3>1, <3>2 DEF View, Distance, Only
  <2> QED BY <2>1, FinalNone
<1> QED BY <1>1, <1>4, <1>5, <1>6

\* A client's removal.
LEMMA RemoveChanges ==
    ASSUME Types, NEW c, NEW g, RemoveMakes(g, c), NEW l \in Keys
    PROVE  /\ l[1] = c => RemoveRow(g.requests, l, In(l, timeBased), In(l, distanceBased),
                                    In(l, g.time), In(l, g.distance))
           /\ l[1] # c => /\ Tagged(g.requests, l, "none") /\ EffectIs(g.requests, l, "keep")
                          /\ In(l, g.time) = In(l, timeBased)
                          /\ In(l, g.distance) = In(l, distanceBased)
<1>1. PICK p, s : /\ g.time = Without(timeBased, c) /\ g.distance = distanceBased
                  /\ g.requests = p \o s
                  /\ RequestsOK(p) /\ StopsTime(p, c) /\ Erases(s, c)
  BY DEF RemoveMakes, Makes
<1>2. Sq(p) /\ Sq(s)
  BY <1>1 DEF RequestsOK, Erases
<1>3. \A k : Asking(p \o s, l, k) = Asking(p, l, k) + Asking(s, l, k)
  BY <1>2, TagsCount DEF Asking
<1>4. /\ \A k \in Kinds : Asking(p, l, k) \in Nat
      /\ \A k \in Kinds : k \notin {"started", "answer"} \/ l \notin Mine(timeBased, c)
                               => Asking(p, l, k) = 0
      /\ \A v : Final(p, Distance(l), v) = v
  BY <1>1, StopsTimeAsk
<1>5. /\ \A k \in Kinds : Asking(s, l, k) \in Nat
      /\ \A k \in Kinds : k # "erase" \/ l \notin Mine(distanceBased, c) => Asking(s, l, k) = 0
      /\ l \in Mine(distanceBased, c) => Asking(s, l, "erase") > 0
      /\ l \notin Mine(distanceBased, c) => \A v : Final(s, Distance(l), v) = v
  BY <1>1, ErasesAsk
<1>6. l \notin Mine(distanceBased, c) => EffectIs(p \o s, l, "keep")
  <2> SUFFICES ASSUME l \notin Mine(distanceBased, c), NEW v
               PROVE  Final(p \o s, Distance(l), v) = v
    BY DEF EffectIs
  <2>1. Final(p \o s, Distance(l), v) = Final(s, Distance(l), Final(p, Distance(l), v))
    BY <1>2, FinalConcat
  <2> QED BY <1>4, <1>5, <2>1
<1>7. /\ DOMAIN Without(timeBased, c) = {k \in DOMAIN timeBased : k[1] # c}
      /\ l \in Mine(timeBased, c) <=> l \in DOMAIN timeBased /\ l[1] = c
      /\ l \in Mine(distanceBased, c) <=> l \in DOMAIN distanceBased /\ l[1] = c
  BY DEF Without, Mine
<1>8. {"started", "answer", "erase"} \subseteq Kinds /\ \A k \in Kinds : k # "none"
  BY DEF Kinds, Commands, Conts
<1>9. ASSUME l[1] = c
      PROVE  RemoveRow(p \o s, l, In(l, timeBased), In(l, distanceBased),
                       In(l, Without(timeBased, c)), In(l, distanceBased))
  <2>1. In(l, Without(timeBased, c)) = 0
    BY <1>7, <1>9 DEF In, One
  <2>2. In(l, timeBased) = 0 => l \notin Mine(timeBased, c)
    BY <1>7 DEF In, One
  <2>3. /\ In(l, distanceBased) = 0 => l \notin Mine(distanceBased, c)
        /\ In(l, distanceBased) = 1 => l \in Mine(distanceBased, c)
    BY <1>7, <1>9 DEF In, One
  <2>4. ASSUME NEW k \in Kinds
        PROVE  /\ Asking(p \o s, l, k) \in Nat
               /\ k \notin {"started", "answer", "erase"} => Asking(p \o s, l, k) = 0
    BY <1>3, <1>4, <1>5
  <2>5. In(l, timeBased) = 0 => Asking(p \o s, l, "started") = 0 /\ Asking(p \o s, l, "answer") = 0
    BY <1>3, <1>4, <1>5, <1>8, <2>2
  <2>6. In(l, distanceBased) = 0 => Asking(p \o s, l, "erase") = 0
    BY <1>3, <1>4, <1>5, <1>8, <2>3
  <2>7. In(l, distanceBased) = 1 => Asking(p \o s, l, "erase") > 0
    BY <1>3, <1>4, <1>5, <1>8, <2>3
  <2> QED BY <1>6, <2>1, <2>3, <2>4, <2>5, <2>6, <2>7 DEF RemoveRow
<1>10. ASSUME l[1] # c
       PROVE  /\ Tagged(p \o s, l, "none") /\ EffectIs(p \o s, l, "keep")
              /\ In(l, Without(timeBased, c)) = In(l, timeBased)
  <2>1. l \notin Mine(timeBased, c) /\ l \notin Mine(distanceBased, c)
    BY <1>7, <1>10
  <2>2. \A k \in Kinds : Asking(p \o s, l, k) = 0 /\ k # "none"
    BY <1>3, <1>4, <1>5, <1>8, <2>1
  <2>3. Tagged(p \o s, l, "none")
    BY <2>2 DEF Tagged, Asking, One
  <2>4. In(l, Without(timeBased, c)) = In(l, timeBased)
    BY <1>7, <1>10 DEF In, One
  <2> QED BY <1>6, <2>1, <2>3, <2>4
<1> QED BY <1>1, <1>9, <1>10

\* Of the message that is handled, what it is about a session.
Kind(m, l) == IF m.op \in Commands /\ m.key = l THEN m.op
              ELSE IF m.op = "response" /\ m.then.key = l THEN m.then.cont ELSE "none"

\* What a message makes of a session: it was a, a request continues as b.
Steps(l, q, a, b, e) ==
    /\ a \in {"none", Kind(Head(queue), l)}
    /\ Tagged(q, l, b) /\ EffectIs(q, l, e)
    /\ Row(a, Head(queue).ok, In(l, timeBased), In(l, distanceBased), b,
           In(l, timeBased'), In(l, distanceBased'), e)
    /\ \A k \in Kinds : Under(l)'[k] = Under(l)[k] - One(k = a) + One(k = b)
Removes(l, q) ==
    /\ Head(queue).op = "remove" /\ Head(queue).client = l[1]
    /\ RemoveRow(q, l, In(l, timeBased), In(l, distanceBased),
                 In(l, timeBased'), In(l, distanceBased'))
    /\ \A k \in Kinds : Under(l)'[k] = Under(l)[k] + Asking(q, l, k)
Handled(l, q) == (\E a, b, e : Steps(l, q, a, b, e)) \/ Removes(l, q)

\* Kinds, and how many of one are under way.
LEMMA KindsAre ==
    ASSUME NEW k \in Kinds
    PROVE  k # "none" /\ {k} \subseteq Commands \cup Conts
  BY DEF Kinds, Commands, Conts

\* A message is counted as what it is.
LEMMA HeadKind ==
    ASSUME Types, NEW m, MessageOK(m, calls), NEW l \in Keys, NEW k \in Kinds
    PROVE  Count(MTag(m), {l} \X {k}) = One(k = Kind(m, l))
<1>0. /\ k # "none" /\ {k} \subseteq Commands \cup Conts
  BY KindsAre
<1>1. \A K : K \subseteq Commands \cup Conts =>
        /\ Count(<<"none", "none">>, {l} \X K) = 0
        /\ \A i, c : Count(<<i, c>>, {l} \X K) = IF i = l /\ c \in K THEN 1 ELSE 0
  BY CountIn
<1>2. /\ Count(<<"none", "none">>, {l} \X {k}) = 0
      /\ \A i, c : Count(<<i, c>>, {l} \X {k}) = IF i = l /\ c \in {k} THEN 1 ELSE 0
  BY <1>0, <1>1
<1>3. CASE m.op \in Commands
  <2>1. MTag(m) = <<m.key, m.op>> /\ m.op # "response"
    BY <1>3 DEF MTag, Commands
  <2>2. Count(MTag(m), {l} \X {k}) = IF m.key = l /\ m.op \in {k} THEN 1 ELSE 0
    BY <1>2, <2>1
  <2>3. Kind(m, l) = IF m.key = l THEN m.op ELSE "none"
    BY <1>3, <2>1 DEF Kind
  <2> QED BY <1>0, <2>2, <2>3 DEF One
<1>4. CASE m.op = "response"
  <2>1. MTag(m) = <<m.then.key, m.then.cont>> /\ m.op \notin Commands
    BY <1>4 DEF MTag, Commands
  <2>2. Count(MTag(m), {l} \X {k}) = IF m.then.key = l /\ m.then.cont \in {k} THEN 1 ELSE 0
    BY <1>2, <2>1
  <2>3. Kind(m, l) = IF m.then.key = l THEN m.then.cont ELSE "none"
    BY <1>4, <2>1 DEF Kind
  <2> QED BY <1>0, <2>2, <2>3 DEF One
<1>5. CASE m.op \notin Commands /\ m.op # "response"
  <2>1. MTag(m) = <<"none", "none">> /\ Kind(m, l) = "none"
    BY <1>5 DEF MTag, Kind
  <2> QED BY <1>0, <1>2, <2>1 DEF One
<1> QED BY <1>3, <1>4, <1>5

\* How what is under way about a session changes, of each kind.
LEMMA UnderHandled ==
    ASSUME Types, queue # <<>>, queue' = Tail(queue) \o Resent(Head(queue)), NEW q, Sq(q),
           api' = api \o q, MessageOK(Head(queue), calls), NEW l \in Keys,
           \/ Head(queue).op # "engineUp" /\ UNCHANGED mPendingMsgs
           \/ Head(queue).op = "engineUp" /\ mPendingMsgs' = <<>>
    PROVE  \A k \in Kinds :
             Under(l)'[k] = Under(l)[k] - One(k = Kind(Head(queue), l)) + Asking(q, l, k)
<1> TAKE k \in Kinds
<1>1. Under(l)[k] = UnderWay({l} \X {k}) /\ Under(l)'[k] = UnderWay({l} \X {k})'
  BY DEF Under, About
<1>2. UnderWay({l} \X {k})' = UnderWay({l} \X {k}) - Count(MTag(Head(queue)), {l} \X {k})
                                + N(RTags(q), {l} \X {k})
  <2>1. CASE Head(queue).op # "engineUp" /\ UNCHANGED mPendingMsgs
    BY <2>1, HandledFlow
  <2>2. CASE Head(queue).op = "engineUp" /\ mPendingMsgs' = <<>>
    BY <2>2, EngineUpFlow
  <2> QED BY <2>1, <2>2
<1>3. Count(MTag(Head(queue)), {l} \X {k}) = One(k = Kind(Head(queue), l))
  BY HeadKind
<1> QED BY <1>1, <1>2, <1>3 DEF Asking

\* What is handled of one session's commands and responses.
LEMMA ChangesHandled ==
    ASSUME Types, queue # <<>>, queue' = Tail(queue) \o Resent(Head(queue)), NEW g, HandlingOK(g),
           Commit(g), MessageOK(Head(queue), calls), Head(queue).op # "engineUp",
           UNCHANGED mPendingMsgs, NEW key \in Keys, NEW a, Kind(Head(queue), key) = a,
           \A l \in Keys \ {key} : Kind(Head(queue), l) = "none",
           Changes(g, key, a, Head(queue).ok), NEW l \in Keys
    PROVE  Handled(l, g.requests)
<1>1. /\ timeBased' = g.time /\ distanceBased' = g.distance /\ api' = api \o g.requests
      /\ Sq(g.requests)
  BY DEF Commit, HandlingOK, RequestsOK
<1>2. \A k \in Kinds : Under(l)'[k] = Under(l)[k] - One(k = Kind(Head(queue), l))
                                        + Asking(g.requests, l, k)
  BY <1>1, UnderHandled
<1>3. PICK b, e : /\ Asks(g.requests, key, b) /\ EffectIs(g.requests, key, e)
                  /\ Row(a, Head(queue).ok, In(key, timeBased), In(key, distanceBased), b,
                         In(key, g.time), In(key, g.distance), e)
  BY DEF Changes
<1>4. CASE l = key
  <2>1. Tagged(g.requests, l, b)
    BY <1>3, <1>4 DEF Asks
  <2>2. \A k \in Kinds : Under(l)'[k] = Under(l)[k] - One(k = a) + One(k = b)
    BY <1>2, <1>4, <2>1 DEF Tagged, Asking
  <2>3. Row(a, Head(queue).ok, In(l, timeBased), In(l, distanceBased), b,
            In(l, timeBased'), In(l, distanceBased'), e)
    BY <1>1, <1>3, <1>4
  <2>4. Steps(l, g.requests, a, b, e)
    BY <1>3, <1>4, <2>1, <2>2, <2>3 DEF Steps
  <2> QED BY <2>4 DEF Handled
<1>5. CASE l # key
  <2>1. Tagged(g.requests, l, "none")
    BY <1>3, <1>5 DEF Asks
  <2>2. Kind(Head(queue), l) = "none"
    BY <1>5
  <2>3. \A k \in Kinds : Under(l)'[k] = Under(l)[k] - One(k = "none") + One(k = "none")
    BY <1>2, <2>1, <2>2 DEF Tagged, Asking
  <2>4. /\ EffectIs(g.requests, l, "keep") /\ In(l, timeBased') = In(l, timeBased)
        /\ In(l, distanceBased') = In(l, distanceBased)
    BY <1>1, <1>5 DEF Changes
  <2>5. Row("none", Head(queue).ok, In(l, timeBased), In(l, distanceBased), "none",
            In(l, timeBased'), In(l, distanceBased'), "keep")
    BY <2>4 DEF Row, Same
  <2>6. Steps(l, g.requests, "none", "none", "keep")
    BY <2>1, <2>3, <2>4, <2>5 DEF Steps
  <2> QED BY <2>6 DEF Handled
<1> QED BY <1>4, <1>5

\* What changes no session.
LEMMA PassedHandled ==
    ASSUME Types, queue # <<>>, queue' = Tail(queue) \o Resent(Head(queue)), NEW q, Sq(q),
           api' = api \o q, MessageOK(Head(queue), calls), NEW l \in Keys,
           \/ Head(queue).op # "engineUp" /\ UNCHANGED mPendingMsgs
           \/ Head(queue).op = "engineUp" /\ mPendingMsgs' = <<>>,
           Kind(Head(queue), l) = "none", Tagged(q, l, "none"), EffectIs(q, l, "keep"),
           In(l, timeBased') = In(l, timeBased), In(l, distanceBased') = In(l, distanceBased)
    PROVE  Handled(l, q)
<1>1. \A k \in Kinds : Under(l)'[k] = Under(l)[k] - One(k = Kind(Head(queue), l))
                                        + Asking(q, l, k)
  BY UnderHandled
<1>2. \A k \in Kinds : Under(l)'[k] = Under(l)[k] - One(k = "none") + One(k = "none")
  BY <1>1 DEF Tagged, Asking
<1>3. Row("none", Head(queue).ok, In(l, timeBased), In(l, distanceBased), "none",
          In(l, timeBased'), In(l, distanceBased'), "keep")
  BY DEF Row, Same
<1>4. Steps(l, q, "none", "none", "keep")
  BY <1>2, <1>3 DEF Steps
<1> QED BY <1>4 DEF Handled

\* A message that is neither about a session nor a client's removal.
LEMMA SilentHandled ==
    ASSUME Types, queue # <<>>, queue' = Tail(queue) \o Resent(Head(queue)), NEW q, Sq(q),
           api' = api \o q, MessageOK(Head(queue), calls),
           \A j \in DOMAIN q : q[j].then = NoThen, NoStops(q),
           Head(queue).op \notin Commands \cup {"response"},
           \/ Head(queue).op # "engineUp" /\ UNCHANGED mPendingMsgs
           \/ Head(queue).op = "engineUp" /\ mPendingMsgs' = <<>>,
           UNCHANGED <<timeBased, distanceBased>>, NEW l \in Keys
    PROVE  Handled(l, q)
<1>1. Kind(Head(queue), l) = "none"
  BY DEF Kind
<1>2. Tagged(q, l, "none") /\ EffectIs(q, l, "keep")
  BY SilentTagged, NoStopsKeep
<1> QED BY <1>1, <1>2, PassedHandled

\* What is asked as a client is added, or location enabled or disabled.
LEMMA PassedStarts ==
    ASSUME Types, NEW m, AddClient(m) \/ Enable(m) \/ Disable(m)
    PROVE  \E q : /\ Sq(q) /\ api' = api \o q /\ NoStops(q)
                  /\ \A j \in DOMAIN q : q[j].then = NoThen
<1>0. Sq(api)
  BY DEF Types, RequestsOK
<1>1. CASE UNCHANGED api
  <2>1. Sq(<<>>) /\ api \o <<>> = api /\ DOMAIN <<>> = {}
    BY <1>0, SqEmpty DEF Sq
  <2>2. NoStops(<<>>)
    BY <2>1 DEF NoStops, Range
  <2> QED BY <1>1, <2>1, <2>2
<1>2. ASSUME NEW lock, api' = Append(api, lockRequest(lock))
      PROVE  \E q : /\ Sq(q) /\ api' = api \o q /\ NoStops(q)
                    /\ \A j \in DOMAIN q : q[j].then = NoThen
  <2> DEFINE r == lockRequest(lock)
  <2>1. r.do # "stopDistance" /\ r.then = NoThen
    BY DEF lockRequest
  <2> HIDE DEF r
  <2>2. Append(api, r) = api \o <<r>> /\ Sq(<<r>>)
    BY <1>0, AppendIs
  <2>3. Range(<<r>>) = {r} /\ \A j \in DOMAIN <<r>> : <<r>>[j] = r
    BY DEF Range
  <2>4. NoStops(<<r>>) /\ \A j \in DOMAIN <<r>> : <<r>>[j].then = NoThen
    BY <2>1, <2>3 DEF NoStops
  <2>5. api' = api \o <<r>>
    BY <1>2, <2>2 DEF r
  <2> QED BY <2>2, <2>4, <2>5
<1>3. UNCHANGED api \/ \E lock : api' = Append(api, lockRequest(lock))
  BY DEF AddClient, Enable, Disable
<1> QED BY <1>1, <1>2, <1>3

\* The requests that are made as a message is handled, and what the message and they are to each
\* session.
LEMMA AllHandled ==
    ASSUME Types, HandleMsg
    PROVE  \E q : Sq(q) /\ api' = api \o q /\ \A l \in Keys : Handled(l, q)
<1> DEFINE m == Head(queue)
<1>0. /\ queue # <<>> /\ queue' = Tail(queue) \o Resent(m) /\ MessageOK(m, calls) /\ Handler(m)
  BY HandlerIs
<1>1. CASE Waiting(m)
  <2>1. /\ Pend(m) /\ m.op # "engineUp" /\ UNCHANGED <<timeBased, distanceBased, api>>
    BY <1>1 DEF Waiting, Pend
  <2>2. Sq(<<>>) /\ api \o <<>> = api
    BY SqEmpty DEF Types, RequestsOK, Sq
  <2>3. ASSUME NEW l \in Keys PROVE Handled(l, <<>>)
    <3>1. \A k \in Kinds : Under(l)'[k] = Under(l)[k] /\ Under(l)[k] \in Nat
      <4> TAKE k \in Kinds
      <4>1. UnderWay({l} \X {k})' = UnderWay({l} \X {k})
        BY <1>0, <2>1, PendFlow
      <4>2. UnderWay({l} \X {k}) \in Nat
        BY WayIs
      <4> QED BY <4>1, <4>2 DEF Under, About
    <3>2. \A k \in Kinds : Under(l)'[k] = Under(l)[k] - One(k = "none") + One(k = "none")
      BY <3>1 DEF One
    <3>3. Tagged(<<>>, l, "none") /\ EffectIs(<<>>, l, "keep")
      <4>1. NoStops(<<>>)
        BY SqEmpty DEF NoStops, Range
      <4> QED BY <2>2, <4>1, SqEmpty, SilentTagged, NoStopsKeep
    <3>4. Row("none", m.ok, In(l, timeBased), In(l, distanceBased), "none",
              In(l, timeBased'), In(l, distanceBased'), "keep")
      BY <2>1 DEF Row, Same
    <3>5. Steps(l, <<>>, "none", "none", "keep")
      BY <3>2, <3>3, <3>4 DEF Steps
    <3> QED BY <3>5 DEF Handled
  <2> QED BY <2>1, <2>2, <2>3
<1>2. CASE TrackHandled(m)
  <2>1. PICK g : HandlingOK(g) /\ Commit(g) /\ TrackMakes(g, m) /\ UNCHANGED mPendingMsgs
    BY <1>2 DEF TrackHandled
  <2>2. m.op \in Commands /\ m.key \in Keys /\ m.op # "engineUp"
    BY <1>2 DEF TrackHandled, Commands
  <2>3. Changes(g, m.key, m.op, m.ok)
    BY <2>1, <2>2, TrackChanges
  <2>4. Kind(m, m.key) = m.op /\ \A l \in Keys \ {m.key} : Kind(m, l) = "none"
    BY <2>2 DEF Kind, Commands
  <2> HIDE DEF m
  <2>5. \A l \in Keys : Handled(l, g.requests)
    BY <1>0, <2>1, <2>2, <2>3, <2>4, ChangesHandled DEF m
  <2> QED BY <2>1, <2>5 DEF Commit, HandlingOK, RequestsOK
<1>3. CASE ResponseHandled(m)
  <2>1. PICK g : HandlingOK(g) /\ Commit(g) /\ ContinueMakes(g, m.then, m.ok) /\ UNCHANGED mPendingMsgs
    BY <1>3 DEF ResponseHandled
  <2>2. m.op = "response" /\ ThenOK(m.then) /\ m.then # NoThen /\ m.ok \in BOOLEAN
    BY <1>3 DEF ResponseHandled
  <2>3. Changes(g, m.then.key, m.then.cont, m.ok) /\ m.then.key \in Keys
    BY <2>1, <2>2, RespondChanges DEF ThenOK
  <2>4. /\ Kind(m, m.then.key) = m.then.cont /\ \A l \in Keys \ {m.then.key} : Kind(m, l) = "none"
        /\ m.op # "engineUp"
    BY <2>2 DEF Kind, Commands
  <2> HIDE DEF m
  <2>5. \A l \in Keys : Handled(l, g.requests)
    BY <1>0, <2>1, <2>3, <2>4, ChangesHandled DEF m
  <2> QED BY <2>1, <2>5 DEF Commit, HandlingOK, RequestsOK
<1>4. CASE RemoveHandled(m)
  <2>1. PICK g : HandlingOK(g) /\ Commit(g) /\ RemoveMakes(g, m.client) /\ UNCHANGED mPendingMsgs
    BY <1>4 DEF RemoveHandled
  <2>2. /\ timeBased' = g.time /\ distanceBased' = g.distance /\ api' = api \o g.requests
        /\ Sq(g.requests)
    BY <2>1 DEF Commit, HandlingOK, RequestsOK
  <2>3. m.op = "remove"
    BY <1>4 DEF RemoveHandled
  <2>4. ASSUME NEW l \in Keys PROVE Handled(l, g.requests)
    <3>1. Kind(m, l) = "none" /\ m.op # "engineUp"
      BY <2>3 DEF Kind, Commands
    <3>2. /\ l[1] = m.client
             => RemoveRow(g.requests, l, In(l, timeBased), In(l, distanceBased),
                          In(l, g.time), In(l, g.distance))
          /\ l[1] # m.client => /\ Tagged(g.requests, l, "none") /\ EffectIs(g.requests, l, "keep")
                                /\ In(l, g.time) = In(l, timeBased)
                                /\ In(l, g.distance) = In(l, distanceBased)
      BY <2>1, RemoveChanges
    <3>3. CASE l[1] # m.client
      BY <1>0, <2>1, <2>2, <3>1, <3>2, <3>3, PassedHandled
    <3>4. CASE l[1] = m.client
      <4>1. \A k \in Kinds : Under(l)'[k] = Under(l)[k] - One(k = Kind(m, l)) + Asking(g.requests, l, k)
        BY <1>0, <2>1, <2>2, <3>1, UnderHandled
      <4>2. \A k \in Kinds : Under(l)'[k] = Under(l)[k] + Asking(g.requests, l, k)
        <5> TAKE k \in Kinds
        <5>1. One(k = "none") = 0
          BY KindsAre DEF One
        <5>2. Under(l)[k] \in Nat
          BY WayIs DEF Under, About
        <5>3. Asking(g.requests, l, k) \in Nat
          BY <2>2, TagsCount DEF Asking
        <5> QED BY <3>1, <4>1, <5>1, <5>2, <5>3
      <4>3. Removes(l, g.requests)
        BY <2>2, <2>3, <3>2, <3>4, <4>2 DEF Removes
      <4> QED BY <4>3 DEF Handled
    <3> QED BY <3>3, <3>4
  <2> QED BY <2>2, <2>4
<1>5. CASE AddClient(m) \/ Enable(m) \/ Disable(m)
  <2>1. PICK q : /\ Sq(q) /\ api' = api \o q /\ NoStops(q)
                 /\ \A j \in DOMAIN q : q[j].then = NoThen
    BY <1>5, PassedStarts
  <2>2. /\ m.op \in {"add", "enable", "disable"}
        /\ UNCHANGED <<timeBased, distanceBased, mPendingMsgs>>
    BY <1>5, PassedIs
  <2>3. m.op \notin Commands \cup {"response"} /\ m.op # "engineUp"
    BY <2>2 DEF Commands
  <2>4. \A l \in Keys : Handled(l, q)
    BY <1>0, <2>1, <2>2, <2>3, SilentHandled
  <2> QED BY <2>1, <2>4
<1>6. CASE ConfigHandled(m) \/ EngineUpHandled(m)
  <2>1. PICK g : /\ HandlingOK(g) /\ Commit(g)
                 /\ \/ ConfigMakes(g, m)
                    \/ Restarts(g, timeBased, distanceBased, <<setConfig, Lists>>, <<>>)
    BY <1>6 DEF ConfigHandled, EngineUpHandled
  <2>2. \/ m.op = "config" /\ UNCHANGED mPendingMsgs
        \/ m.op = "engineUp" /\ mPendingMsgs' = <<>>
    BY <1>6 DEF ConfigHandled, ConfTo, EngineUpHandled
  <2>3. /\ Sq(g.requests) /\ \A j \in DOMAIN g.requests : g.requests[j].then = NoThen
        /\ g.time = timeBased /\ g.distance = distanceBased
    BY <2>1, ConfigSilent
  <2>4. NoStops(g.requests)
    BY <2>1, ConfigStarts
  <2>5. /\ UNCHANGED <<timeBased, distanceBased>> /\ api' = api \o g.requests
    BY <2>1, <2>3 DEF Commit
  <2>6. m.op \notin Commands \cup {"response"}
    BY <2>2 DEF Commands
  <2>7. \A l \in Keys : Handled(l, g.requests)
    BY <1>0, <2>2, <2>3, <2>4, <2>5, <2>6, SilentHandled
  <2> QED BY <2>3, <2>5, <2>7
<1> QED BY <1>0, <1>1, <1>2, <1>3, <1>4, <1>5, <1>6 DEF Handler

-----------------------------------------------------------------------------
(* The accounts, as messages are handled.                                    *)

Amounts == [Kinds -> Nat]
AccountIs(c, t, d, r) == AccountOf(c, t, d) /\ Forgotten(c, r)
\* One message or request less of a kind, and one more of another.
Moved(c, a, b, c2) == \A k \in Kinds : c2[k] = c[k] - One(k = a) + One(k = b)

\* The kinds.
LEMMA KindsIs ==
    Kinds = {"start", "update", "stop", "started", "answer", "updated", "stopped", "erase", "switch",
             "restart", "restarted"}
  BY DEF Kinds, Commands, Conts

\* Each kind's amount.
LEMMA MovedIs ==
    ASSUME NEW c \in Amounts, NEW c2 \in Amounts, NEW a, NEW b, Moved(c, a, b, c2)
    PROVE  \A k \in Kinds : /\ c[k] \in Nat /\ c2[k] \in Nat
                            /\ k = a /\ k # b => c2[k] = c[k] - 1
                            /\ k = b /\ k # a => c2[k] = c[k] + 1
                            /\ (k = a <=> k = b) => c2[k] = c[k]
  BY DEF Moved, Amounts, One

\* Nothing changes.
LEMMA AccountSame ==
    ASSUME NEW c \in Amounts, NEW c2 \in Amounts, \A k \in Kinds : c2[k] = c[k], NEW t, NEW d, NEW r,
           AccountIs(c, t, d, r)
    PROVE  AccountIs(c2, t, d, r) /\ Serious(c2) = Serious(c)
<1>1. c2 = c
  BY DEF Amounts
<1> QED BY <1>1

\* A start is handled.
LEMMA AccountStart ==
    ASSUME NEW c \in Amounts, NEW c2 \in Amounts, NEW t \in {0, 1}, NEW d \in {0, 1}, NEW r \in BOOLEAN,
           NEW b, NEW t2, NEW d2, NEW e, StartRow(t, d, b, t2, d2, e), Moved(c, "start", b, c2),
           c["start"] >= 1, AccountIs(c, t, d, r)
    PROVE  AccountIs(c2, t2, d2, r) /\ Serious(c2) <= Serious(c)
<1>1. \A k \in Kinds : /\ c[k] \in Nat /\ c2[k] \in Nat
                       /\ k = "start" /\ k # b => c2[k] = c[k] - 1
                       /\ k = b /\ k # "start" => c2[k] = c[k] + 1
                       /\ (k = "start" <=> k = b) => c2[k] = c[k]
  BY MovedIs
<1>2. b \in {"none", "started"}
  BY DEF StartRow
<1>3. /\ \A k \in Kinds \ {"start", "started"} : c2[k] = c[k] /\ c[k] \in Nat
      /\ c2["start"] = c["start"] - 1 /\ c["start"] \in Nat
  BY <1>1, <1>2, KindsIs
<1>4. c["start"] = 1 /\ t = 0 /\ d = 0 /\ Distant(c) + c["updated"] = 0
  BY <1>3 DEF AccountIs, AccountOf, Unstarted
<1>5. /\ c2["start"] = 0
      /\ Distant(c2) = Distant(c) /\ c2["updated"] = c["updated"] /\ c2["switch"] = c["switch"]
      /\ Updating(c2) = Updating(c) /\ Serious(c2) = Serious(c) - 1 /\ c2["erase"] = c["erase"]
      /\ Left(c2) = Left(c) - 1 /\ Distant(c) \in Nat /\ c["updated"] \in Nat
      /\ c["switch"] \in Nat /\ Serious(c) \in Nat /\ Left(c2) \in Nat
      /\ Distant(c) >= c["switch"]
  BY <1>3, <1>4, KindsIs DEF Distant, Updating, Serious, Left
<1>6. (t2 = 0 \/ t2 = 1) /\ (d2 = 0 \/ d2 = 1) /\ (t2 = 1 => d2 = 0)
  BY <1>4 DEF StartRow, Same
<1>7. AccountOf(c2, t2, d2)
  <2>1. Unstarted(c2, t2, d2)
    BY <1>5 DEF Unstarted
  <2>2. Single(c2)
    BY <1>5 DEF Single, AccountIs, AccountOf
  <2>3. Unchanging(c2)
    BY <1>5 DEF Unchanging, AccountIs, AccountOf
  <2>4. Placed(c2, t2, d2)
    BY <1>4, <1>5, <1>6 DEF Placed
  <2> QED BY <2>1, <2>2, <2>3, <2>4 DEF AccountOf
<1>8. Forgotten(c2, r)
  BY <1>3, <1>5 DEF Forgotten, AccountIs, Left
<1> QED BY <1>5, <1>7, <1>8 DEF AccountIs

\* Of a client that waits, one command at most is under way, and is not to be forgotten.
LEMMA AccountOne ==
    ASSUME NEW c \in Amounts, NEW t, NEW d, NEW r, AccountIs(c, t, d, r), NEW a \in Kinds, c[a] >= 1
    PROVE  /\ Patient /\ a \in {"update", "updated", "switch", "restart", "restarted"}
              => Serious(c) = 1 /\ "update" \in use /\ "hurry" \notin use
           /\ a \in {"start", "update", "stop", "switch", "updated"} => c["erase"] = 0
<1>1. \A k \in Kinds : c[k] \in Nat
  BY DEF Amounts
<1>2. ASSUME Patient, a \in {"update", "updated", "switch", "restart", "restarted"}
      PROVE  Serious(c) = 1 /\ "update" \in use /\ "hurry" \notin use
  <2>5. \A u, v, w, x, y \in Nat : u >= 1 \/ v >= 1 \/ w >= 1 \/ x >= 1 \/ y >= 1
                                   => u + v + w + x + y # 0
    OBVIOUS
  <2>6. \A s, u, p, v, q, w, x, y \in Nat : s + u + p + v + q + w + x + y \in Nat
    OBVIOUS
  <2>9. \A s, u, p, v, q, w, x, y \in Nat :
          u >= 1 \/ v >= 1 \/ w >= 1 \/ x >= 1 \/ y >= 1 => s + u + p + v + q + w + x + y >= 1
    OBVIOUS
  <2>7. /\ c["start"] \in Nat /\ c["update"] \in Nat /\ c["stop"] \in Nat /\ c["updated"] \in Nat
        /\ c["stopped"] \in Nat /\ c["switch"] \in Nat /\ c["restart"] \in Nat
        /\ c["restarted"] \in Nat
    BY <1>1, KindsIs
  <2>8. \/ c["update"] >= 1 \/ c["updated"] >= 1 \/ c["switch"] >= 1 \/ c["restart"] >= 1
        \/ c["restarted"] >= 1
    BY <1>2
  <2>1. Updating(c) # 0
    BY <2>5, <2>7, <2>8, ZenonT(60) DEF Updating
  <2>2. "update" \in use /\ "hurry" \notin use
    BY <1>2, <2>1 DEF AccountIs, AccountOf, Unchanging, Patient
  <2>3. Serious(c) <= 1
    BY <2>2 DEF AccountIs, AccountOf, Single
  <2>4. Serious(c) \in Nat /\ Serious(c) >= 1
    <3>1. Serious(c) \in Nat
      BY <2>6, <2>7, ZenonT(60) DEF Serious
    <3>2. Serious(c) >= 1
      BY <2>7, <2>8, <2>9, ZenonT(60) DEF Serious
    <3> QED BY <3>1, <3>2
  <2> QED BY <2>2, <2>3, <2>4
<1>3. ASSUME a \in {"start", "update", "stop", "switch", "updated"}
      PROVE  c["erase"] = 0
  <2>0. /\ c["start"] \in Nat /\ c["update"] \in Nat /\ c["stop"] \in Nat /\ c["switch"] \in Nat
        /\ c["updated"] \in Nat
    BY <1>1, KindsIs
  <2>1. Left(c) # 0
    BY <1>3, <2>0, SMTT(60) DEF Left
  <2>2. ~(c["erase"] > 0)
    BY <2>1 DEF AccountIs, Forgotten
  <2> QED BY <1>1, <2>2, KindsIs
<1> QED BY <1>2, <1>3

\* An update is handled.
LEMMA AccountUpdate ==
    ASSUME NEW c \in Amounts, NEW c2 \in Amounts, NEW t \in {0, 1}, NEW d \in {0, 1}, NEW r \in BOOLEAN,
           NEW b, NEW t2, NEW d2, NEW e, UpdateRow(t, d, b, t2, d2, e), Moved(c, "update", b, c2),
           c["update"] >= 1, AccountIs(c, t, d, r), Patient
    PROVE  AccountIs(c2, t2, d2, r) /\ Serious(c2) <= Serious(c)
<1>1. \A k \in Kinds : /\ c[k] \in Nat /\ c2[k] \in Nat
                       /\ k = "update" /\ k # b => c2[k] = c[k] - 1
                       /\ k = b /\ k # "update" => c2[k] = c[k] + 1
                       /\ (k = "update" <=> k = b) => c2[k] = c[k]
  BY MovedIs
<1>2. Serious(c) = 1 /\ "update" \in use /\ "hurry" \notin use /\ c["erase"] = 0
  BY AccountOne, KindsIs
<1>0. /\ c["start"] \in Nat /\ c["update"] \in Nat /\ c["stop"] \in Nat /\ c["switch"] \in Nat
      /\ c["updated"] \in Nat /\ c["stopped"] \in Nat /\ c["restart"] \in Nat
      /\ c["restarted"] \in Nat
  BY <1>1, KindsIs
<1>3. /\ c["update"] = 1 /\ c["start"] = 0 /\ c["stop"] = 0 /\ c["updated"] = 0 /\ c["stopped"] = 0
      /\ c["switch"] = 0 /\ c["restart"] = 0 /\ c["restarted"] = 0
  BY <1>0, <1>2, SMTT(60) DEF Serious
<1>4. b \in {"none", "started", "answer", "updated", "switch", "restart"} /\ b # "update"
  BY DEF UpdateRow
<1>5. /\ c2["update"] = 0 /\ c2["start"] = 0 /\ c2["stop"] = 0 /\ c2["stopped"] = 0
      /\ c2["restarted"] = 0 /\ c2["erase"] = 0
      /\ c2["updated"] = One(b = "updated") /\ c2["switch"] = One(b = "switch")
      /\ c2["restart"] = One(b = "restart")
  BY <1>1, <1>2, <1>3, <1>4, KindsIs DEF One
<1>6. Serious(c2) <= 1 /\ Distant(c2) = One(b = "switch") + One(b = "restart")
  BY <1>4, <1>5 DEF Serious, Distant, One
<1>7. /\ t = 1 => d = 0
      /\ t2 = 1 => d2 = 0 /\ b \in {"none", "updated"}
      /\ b \in {"switch", "updated"} => d2 = 0
  <2>1. t = 1 => d = 0
    BY DEF AccountIs, AccountOf, Placed
  <2> QED BY <2>1 DEF UpdateRow, Same
<1>8. AccountOf(c2, t2, d2)
  <2>1. Unstarted(c2, t2, d2)
    BY <1>5 DEF Unstarted
  <2>2. Single(c2)
    BY <1>6 DEF Single
  <2>3. Unchanging(c2)
    BY <1>2 DEF Unchanging
  <2>4. Placed(c2, t2, d2)
    <3>1. t2 = 1 => d2 = 0 /\ Distant(c2) = 0
      BY <1>6, <1>7 DEF One
    <3>2. c2["switch"] + c2["updated"] > 0 => d2 = 0
      BY <1>5, <1>7 DEF One
    <3> QED BY <3>1, <3>2 DEF Placed
  <2> QED BY <2>1, <2>2, <2>3, <2>4 DEF AccountOf
<1>9. Forgotten(c2, r)
  BY <1>5 DEF Forgotten
<1> QED BY <1>2, <1>6, <1>8, <1>9 DEF AccountIs

\* A stop is handled.
LEMMA AccountStop ==
    ASSUME NEW c \in Amounts, NEW c2 \in Amounts, NEW t \in {0, 1}, NEW d \in {0, 1}, NEW r \in BOOLEAN,
           NEW b, NEW t2, NEW d2, NEW e, StopRow(t, d, b, t2, d2, e), Moved(c, "stop", b, c2),
           c["stop"] >= 1, AccountIs(c, t, d, r)
    PROVE  AccountIs(c2, t2, d2, r) /\ Serious(c2) <= Serious(c)
<1>1. \A k \in Kinds : /\ c[k] \in Nat /\ c2[k] \in Nat
                       /\ k = "stop" /\ k # b => c2[k] = c[k] - 1
                       /\ k = b /\ k # "stop" => c2[k] = c[k] + 1
                       /\ (k = "stop" <=> k = b) => c2[k] = c[k]
  BY MovedIs
<1>2. c["erase"] = 0
  BY AccountOne, KindsIs
<1>3. b \in {"none", "started", "answer", "stopped"} /\ (b = "stopped" => t = 0 /\ d = 1)
  BY DEF StopRow
<1>4. /\ c2["start"] = c["start"] /\ c2["update"] = c["update"] /\ c2["stop"] = c["stop"] - 1
      /\ c2["updated"] = c["updated"] /\ c2["stopped"] = c["stopped"] + One(b = "stopped")
      /\ c2["erase"] = c["erase"] /\ c2["switch"] = c["switch"]
      /\ c2["restart"] = c["restart"] /\ c2["restarted"] = c["restarted"]
  BY <1>1, <1>3, KindsIs DEF One
<1>5. /\ Serious(c2) <= Serious(c) /\ Updating(c2) = Updating(c)
      /\ Distant(c2) = Distant(c) + One(b = "stopped") /\ Serious(c) \in Nat /\ Serious(c2) \in Nat
      /\ c["start"] \in Nat /\ c["switch"] \in Nat /\ c["updated"] \in Nat /\ Distant(c) \in Nat
  BY <1>1, <1>3, <1>4, KindsIs DEF Serious, Updating, Distant, One
<1>6. (t = 0 => t2 = 0) /\ d2 = d /\ (t2 = 1 => t = 1 /\ b # "stopped")
  BY DEF StopRow, Same
<1>7. AccountOf(c2, t2, d2)
  <2>1. Unstarted(c2, t2, d2)
    <3> SUFFICES ASSUME c2["start"] > 0
                 PROVE  c2["start"] = 1 /\ t2 = 0 /\ d2 = 0 /\ Distant(c2) + c2["updated"] = 0
      BY DEF Unstarted
    <3>1. c["start"] = 1 /\ t = 0 /\ d = 0 /\ Distant(c) + c["updated"] = 0
      BY <1>4 DEF AccountIs, AccountOf, Unstarted
    <3> QED BY <1>3, <1>4, <1>5, <1>6, <3>1 DEF One
  <2>2. Single(c2)
    BY <1>5 DEF Single, AccountIs, AccountOf
  <2>3. Unchanging(c2)
    BY <1>5 DEF Unchanging, AccountIs, AccountOf
  <2>4. Placed(c2, t2, d2)
    BY <1>4, <1>5, <1>6 DEF Placed, AccountIs, AccountOf, One
  <2> QED BY <2>1, <2>2, <2>3, <2>4 DEF AccountOf
<1>8. Forgotten(c2, r)
  BY <1>2, <1>4 DEF Forgotten
<1> QED BY <1>5, <1>7, <1>8 DEF AccountIs

\* A response of which nothing comes but that the session may be erased.
LEMMA AccountLess ==
    ASSUME NEW c \in Amounts, NEW c2 \in Amounts, NEW t \in {0, 1}, NEW d \in {0, 1}, NEW r \in BOOLEAN,
           NEW a \in Conts, Moved(c, a, "none", c2), c[a] >= 1,
           NEW t2 \in {0, 1}, t2 = 1 => t = 1, NEW d2 \in {0, 1}, d2 = 1 => d = 1,
           AccountIs(c, t, d, r)
    PROVE  AccountIs(c2, t2, d2, r) /\ Serious(c2) <= Serious(c)
<1>1. \A k \in Kinds : c[k] \in Nat /\ c2[k] \in Nat /\ c2[k] <= c[k]
  BY MovedIs, KindsAre
<1>2. c2["start"] = c["start"]
  <2>1. "start" # a /\ "start" # "none" /\ "start" \in Kinds
    BY KindsIs DEF Conts
  <2> QED BY <2>1, MovedIs
<1>3. /\ c["start"] \in Nat /\ c["update"] \in Nat /\ c["stop"] \in Nat /\ c["switch"] \in Nat
      /\ c["updated"] \in Nat /\ c["stopped"] \in Nat /\ c["restart"] \in Nat
      /\ c["restarted"] \in Nat /\ c["erase"] \in Nat
      /\ c2["start"] \in Nat /\ c2["update"] \in Nat /\ c2["stop"] \in Nat /\ c2["switch"] \in Nat
      /\ c2["updated"] \in Nat /\ c2["stopped"] \in Nat /\ c2["restart"] \in Nat
      /\ c2["restarted"] \in Nat /\ c2["erase"] \in Nat
      /\ c2["start"] <= c["start"] /\ c2["update"] <= c["update"] /\ c2["stop"] <= c["stop"]
      /\ c2["switch"] <= c["switch"] /\ c2["updated"] <= c["updated"]
      /\ c2["stopped"] <= c["stopped"] /\ c2["restart"] <= c["restart"]
      /\ c2["restarted"] <= c["restarted"] /\ c2["erase"] <= c["erase"]
  BY <1>1, KindsIs
<1>4. /\ Serious(c2) <= Serious(c) /\ Updating(c2) <= Updating(c) /\ Distant(c2) <= Distant(c)
      /\ Left(c2) <= Left(c)
      /\ Serious(c) \in Nat /\ Serious(c2) \in Nat /\ Updating(c) \in Nat /\ Updating(c2) \in Nat
      /\ Distant(c) \in Nat /\ Distant(c2) \in Nat /\ Left(c) \in Nat /\ Left(c2) \in Nat
  BY <1>3 DEF Serious, Updating, Distant, Left
<1>5. AccountOf(c2, t2, d2)
  <2>1. Unstarted(c2, t2, d2)
    BY <1>2, <1>3, <1>4 DEF Unstarted, AccountIs, AccountOf
  <2>2. Single(c2)
    BY <1>4 DEF Single, AccountIs, AccountOf
  <2>3. Unchanging(c2)
    BY <1>4 DEF Unchanging, AccountIs, AccountOf
  <2>4. Placed(c2, t2, d2)
    BY <1>3, <1>4 DEF Placed, AccountIs, AccountOf
  <2> QED BY <2>1, <2>2, <2>3, <2>4 DEF AccountOf
<1>6. Forgotten(c2, r)
  BY <1>3, <1>4 DEF Forgotten, AccountIs
<1> QED BY <1>4, <1>5, <1>6 DEF AccountIs

\* Of eight numbers that make one, that which is not 0 is 1.
LEMMA OneOfEight ==
    ASSUME NEW s \in Nat, NEW u \in Nat, NEW p \in Nat, NEW v \in Nat, NEW q \in Nat, NEW w \in Nat,
           NEW x \in Nat, NEW y \in Nat, s + u + p + v + q + w + x + y = 1
    PROVE  /\ v >= 1 => s = 0 /\ u = 0 /\ p = 0 /\ v = 1 /\ q = 0 /\ w = 0 /\ x = 0 /\ y = 0
           /\ w >= 1 => s = 0 /\ u = 0 /\ p = 0 /\ v = 0 /\ q = 0 /\ w = 1 /\ x = 0 /\ y = 0
           /\ x >= 1 => s = 0 /\ u = 0 /\ p = 0 /\ v = 0 /\ q = 0 /\ w = 0 /\ x = 1 /\ y = 0
           /\ y >= 1 => s = 0 /\ u = 0 /\ p = 0 /\ v = 0 /\ q = 0 /\ w = 0 /\ x = 0 /\ y = 1
  OBVIOUS

\* The response to an update's request of which something comes.
LEMMA AccountGain ==
    ASSUME NEW c \in Amounts, NEW c2 \in Amounts, NEW t \in {0, 1}, NEW d \in {0, 1}, NEW r \in BOOLEAN,
           NEW a, NEW b, Moved(c, a, b, c2), c[a] >= 1, NEW t2, NEW d2,
           \/ a = "updated" /\ b = "none" /\ t2 = 1 /\ d2 = d
           \/ a = "switch" /\ b \in {"none", "started"} /\ t2 = 1 /\ d2 = d
           \/ a = "restart" /\ b = "restarted" /\ t2 = t /\ d2 = d
           \/ a = "restarted" /\ b = "none" /\ t2 = t /\ d2 = 1,
           AccountIs(c, t, d, r), Patient
    PROVE  AccountIs(c2, t2, d2, r) /\ Serious(c2) <= Serious(c)
<1>0. a \in Kinds /\ a \in {"updated", "switch", "restart", "restarted"}
  BY KindsIs
<1>1. /\ Serious(c) = 1 /\ "update" \in use /\ "hurry" \notin use
      /\ a \in {"updated", "switch"} => c["erase"] = 0
  BY <1>0, AccountOne
<1>2. /\ c["start"] \in Nat /\ c["update"] \in Nat /\ c["stop"] \in Nat /\ c["switch"] \in Nat
      /\ c["updated"] \in Nat /\ c["stopped"] \in Nat /\ c["restart"] \in Nat
      /\ c["restarted"] \in Nat /\ c["erase"] \in Nat
  BY KindsIs DEF Amounts
<1>3. /\ c["start"] = 0 /\ c["update"] = 0 /\ c["stop"] = 0 /\ c["stopped"] = 0
      /\ c["updated"] = One(a = "updated") /\ c["switch"] = One(a = "switch")
      /\ c["restart"] = One(a = "restart") /\ c["restarted"] = One(a = "restarted")
  <2>0. c[a] >= 1
    OBVIOUS
  <2> DEFINE s == c["start"]
             u == c["update"]
             p == c["stop"]
             v == c["updated"]
             q == c["stopped"]
             w == c["switch"]
             x == c["restart"]
             y == c["restarted"]
  <2>1. /\ s \in Nat /\ u \in Nat /\ p \in Nat /\ v \in Nat /\ q \in Nat /\ w \in Nat
        /\ x \in Nat /\ y \in Nat /\ s + u + p + v + q + w + x + y = 1
    BY <1>1, <1>2 DEF Serious
  <2>2. /\ v >= 1 => s = 0 /\ u = 0 /\ p = 0 /\ v = 1 /\ q = 0 /\ w = 0 /\ x = 0 /\ y = 0
        /\ w >= 1 => s = 0 /\ u = 0 /\ p = 0 /\ v = 0 /\ q = 0 /\ w = 1 /\ x = 0 /\ y = 0
        /\ x >= 1 => s = 0 /\ u = 0 /\ p = 0 /\ v = 0 /\ q = 0 /\ w = 0 /\ x = 1 /\ y = 0
        /\ y >= 1 => s = 0 /\ u = 0 /\ p = 0 /\ v = 0 /\ q = 0 /\ w = 0 /\ x = 0 /\ y = 1
    <3> HIDE DEF s, u, p, v, q, w, x, y
    <3> QED BY <2>1, OneOfEight
  <2>3. CASE a = "updated"
    <3>1. v >= 1
      BY <2>0, <2>3
    <3> QED BY <3>1, <2>2, <2>3 DEF One
  <2>4. CASE a = "switch"
    <3>1. w >= 1
      BY <2>0, <2>4
    <3> QED BY <3>1, <2>2, <2>4 DEF One
  <2>5. CASE a = "restart"
    <3>1. x >= 1
      BY <2>0, <2>5
    <3> QED BY <3>1, <2>2, <2>5 DEF One
  <2>6. CASE a = "restarted"
    <3>1. y >= 1
      BY <2>0, <2>6
    <3> QED BY <3>1, <2>2, <2>6 DEF One
  <2> QED BY <1>0, <2>3, <2>4, <2>5, <2>6
<1>4. \A k \in Kinds : /\ k = a /\ k # b => c2[k] = c[k] - 1
                       /\ k = b /\ k # a => c2[k] = c[k] + 1
                       /\ (k = a <=> k = b) => c2[k] = c[k]
  BY MovedIs
<1>5. /\ c2["start"] = 0 /\ c2["update"] = 0 /\ c2["stop"] = 0 /\ c2["stopped"] = 0
      /\ c2["updated"] = 0 /\ c2["switch"] = 0 /\ c2["restart"] = 0
      /\ c2["restarted"] = One(a = "restart") /\ c2["erase"] = c["erase"]
  <2>1. CASE a = "updated"
    BY <1>2, <1>3, <1>4, <2>1, KindsIs DEF One
  <2>2. CASE a = "switch"
    BY <1>2, <1>3, <1>4, <2>2, KindsIs DEF One
  <2>3. CASE a = "restart"
    BY <1>2, <1>3, <1>4, <2>3, KindsIs DEF One
  <2>4. CASE a = "restarted"
    BY <1>2, <1>3, <1>4, <2>4, KindsIs DEF One
  <2> QED BY <1>0, <2>1, <2>2, <2>3, <2>4
<1>6. /\ Serious(c2) = One(a = "restart") /\ Serious(c2) <= 1
      /\ Distant(c2) = c["erase"] + One(a = "restart") /\ Left(c2) = 0
      /\ Distant(c) = c["erase"] + One(a \in {"switch", "restart", "restarted"})
  BY <1>0, <1>2, <1>3, <1>5 DEF Serious, Distant, Left, One
<1>7. AccountOf(c2, t2, d2)
  <2>1. Unstarted(c2, t2, d2)
    BY <1>5 DEF Unstarted
  <2>2. Single(c2)
    BY <1>6 DEF Single
  <2>3. Unchanging(c2)
    BY <1>1 DEF Unchanging
  <2>4. t2 = 1 => d2 = 0 /\ Distant(c2) = 0
    <3>1. /\ t = 1 => d = 0 /\ Distant(c) = 0
          /\ c["switch"] + c["updated"] > 0 => d = 0
      BY DEF AccountIs, AccountOf, Placed
    <3>2. CASE a \in {"updated", "switch"}
      BY <1>1, <1>2, <1>3, <1>6, <3>1, <3>2 DEF One
    <3>3. CASE a \in {"restart", "restarted"}
      BY <1>2, <1>6, <3>1, <3>3 DEF One
    <3> QED BY <1>0, <3>2, <3>3
  <2>5. Placed(c2, t2, d2)
    BY <1>5, <2>4 DEF Placed
  <2> QED BY <2>1, <2>2, <2>3, <2>5 DEF AccountOf
<1>8. Forgotten(c2, r)
  BY <1>5, <1>6 DEF Forgotten, AccountIs
<1> QED BY <1>1, <1>6, <1>7, <1>8 DEF AccountIs

\* A response.
LEMMA AccountCont ==
    ASSUME NEW c \in Amounts, NEW c2 \in Amounts, NEW t \in {0, 1}, NEW d \in {0, 1}, NEW r \in BOOLEAN,
           NEW a \in Conts, NEW ok, NEW b, NEW t2 \in {0, 1}, NEW d2 \in {0, 1}, NEW e,
           ContRow(a, ok, t, d, b, t2, d2, e), Moved(c, a, b, c2),
           c[a] >= 1, AccountIs(c, t, d, r), Patient
    PROVE  AccountIs(c2, t2, d2, r) /\ Serious(c2) <= Serious(c)
<1>1. \/ b = "none" /\ (t2 = 1 => t = 1) /\ (d2 = 1 => d = 1)
      \/ a = "updated" /\ b = "none" /\ t2 = 1 /\ d2 = d
      \/ a = "switch" /\ b \in {"none", "started"} /\ t2 = 1 /\ d2 = d
      \/ a = "restart" /\ b = "restarted" /\ t2 = t /\ d2 = d
      \/ a = "restarted" /\ b = "none" /\ t2 = t /\ d2 = 1
  BY DEF ContRow, Same, Gone
<1>2. CASE b = "none" /\ (t2 = 1 => t = 1) /\ (d2 = 1 => d = 1)
  BY <1>2, AccountLess
<1>3. CASE \/ a = "updated" /\ b = "none" /\ t2 = 1 /\ d2 = d
           \/ a = "switch" /\ b \in {"none", "started"} /\ t2 = 1 /\ d2 = d
           \/ a = "restart" /\ b = "restarted" /\ t2 = t /\ d2 = d
           \/ a = "restarted" /\ b = "none" /\ t2 = t /\ d2 = 1
  BY <1>3, AccountGain
<1> QED BY <1>1, <1>2, <1>3

\* A message about a session.
LEMMA AccountRow ==
    ASSUME NEW c \in Amounts, NEW c2 \in Amounts, NEW t \in {0, 1}, NEW d \in {0, 1}, NEW r \in BOOLEAN,
           NEW a, NEW ok, NEW b, NEW t2 \in {0, 1}, NEW d2 \in {0, 1}, NEW e,
           Row(a, ok, t, d, b, t2, d2, e), Moved(c, a, b, c2), a = "none" \/ c[a] >= 1,
           AccountIs(c, t, d, r), Patient
    PROVE  AccountIs(c2, t2, d2, r) /\ Serious(c2) <= Serious(c)
<1>0. "start" # "none" /\ "update" # "none" /\ "stop" # "none" /\ "none" \notin Conts
  BY DEF Conts
<1>1. CASE a = "none" /\ b = "none" /\ Same(t, d, t2, d2)
  <2>1. \A k \in Kinds : c2[k] = c[k]
    BY <1>1, MovedIs
  <2>2. AccountIs(c2, t, d, r) /\ Serious(c2) = Serious(c)
    BY <2>1, AccountSame
  <2>3. Serious(c) \in Int
    <3>1. /\ c["start"] \in Nat /\ c["update"] \in Nat /\ c["stop"] \in Nat /\ c["switch"] \in Nat
          /\ c["updated"] \in Nat /\ c["stopped"] \in Nat /\ c["restart"] \in Nat
          /\ c["restarted"] \in Nat
      BY KindsIs DEF Amounts
    <3> QED BY <3>1 DEF Serious
  <2> QED BY <1>1, <2>2, <2>3 DEF Same
<1>2. CASE a = "start" /\ StartRow(t, d, b, t2, d2, e)
  BY <1>0, <1>2, AccountStart
<1>3. CASE a = "update" /\ UpdateRow(t, d, b, t2, d2, e)
  BY <1>0, <1>3, AccountUpdate
<1>4. CASE a = "stop" /\ StopRow(t, d, b, t2, d2, e)
  BY <1>0, <1>4, AccountStop
<1>5. CASE a \in Conts /\ ContRow(a, ok, t, d, b, t2, d2, e)
  <2>1. c[a] >= 1
    BY <1>0, <1>5
  <2> QED BY <1>5, <2>1, AccountCont
<1> QED BY <1>1, <1>2, <1>3, <1>4, <1>5 DEF Row

\* What is under way about a session is counted.
LEMMA UnderIs ==
    ASSUME Types, NEW l \in Keys
    PROVE  /\ Under(l) \in Amounts
           /\ \A k \in Kinds : Under(l)[k] = About(l, {k}) /\ Under(l)[k] \in Nat
<1>1. \A k \in Kinds : About(l, {k}) \in Nat
  BY WayIs DEF About
<1> QED BY <1>1 DEF Under, Amounts

\* So is what will be.
LEMMA UnderNext ==
    ASSUME Types', NEW l \in Keys
    PROVE  /\ Under(l)' \in Amounts
           /\ \A k \in Kinds : Under(l)'[k] = About(l, {k})' /\ Under(l)'[k] \in Nat
<1>1. \A k \in Kinds : About(l, {k})' \in Nat
  BY AboutNat
<1> QED BY <1>1 DEF Under, Amounts

\* What is in either of two sets that have nothing in common is counted.
LEMMA CountMore ==
    ASSUME NEW t, Sq(t), NEW S, NEW T, S \cap T = {}
    PROVE  N(t, S \cup T) = N(t, S) + N(t, T)
<1> DEFINE A == {j \in DOMAIN t : t[j] \in S}
           B == {j \in DOMAIN t : t[j] \in T}
           C == {j \in DOMAIN t : t[j] \in S \cup T}
<1>1. IsFiniteSet(A) /\ IsFiniteSet(B)
  BY CountIs
<1>2. C = A \cup B
  OBVIOUS
<1>3. A \cap B = {}
  OBVIOUS
<1>4. Cardinality(A \cup B) = Cardinality(A) + Cardinality(B) - Cardinality(A \cap B)
  <2> HIDE DEF A, B
  <2> QED BY <1>1, FS_Union
<1>5. Cardinality(A \cap B) = 0 /\ Cardinality(A) \in Nat /\ Cardinality(B) \in Nat
  <2> HIDE DEF A, B
  <2> QED BY <1>1, <1>3, FS_EmptySet, FS_CardinalityType
<1>6. Cardinality(C) = Cardinality(A) + Cardinality(B)
  <2> HIDE DEF A, B, C
  <2> QED BY <1>2, <1>4, <1>5
<1> QED BY <1>6 DEF N

\* One kind more is counted in what is under way.
LEMMA AboutMore ==
    ASSUME Types, NEW l, NEW K, NEW k, k \notin K
    PROVE  /\ About(l, K \cup {k}) = About(l, K) + About(l, {k})
           /\ About(l, K) \in Nat /\ About(l, {k}) \in Nat
<1> DEFINE A == {l} \X K
           B == {l} \X {k}
           C == {l} \X (K \cup {k})
<1>1. C = A \cup B /\ A \cap B = {}
  OBVIOUS
<1>2. Sq(MTags(queue)) /\ Sq(MTags(mPendingMsgs)) /\ Sq(RTags(api))
  <2>1. Sq(queue) /\ Sq(mPendingMsgs) /\ Sq(api)
    BY DEF Types, QueueTypes, PendingTypes, RequestsOK
  <2>2. \A q : Sq(q) => Sq(MTags(q)) /\ Sq(RTags(q))
    BY TagsAre
  <2> QED BY <2>1, <2>2
<1>3. /\ About(l, K \cup {k}) = N(MTags(queue), C) + N(MTags(mPendingMsgs), C) + N(RTags(api), C)
      /\ About(l, K) = N(MTags(queue), A) + N(MTags(mPendingMsgs), A) + N(RTags(api), A)
      /\ About(l, {k}) = N(MTags(queue), B) + N(MTags(mPendingMsgs), B) + N(RTags(api), B)
  BY DEF About, UnderWay, Way
<1> HIDE DEF A, B, C
<1>4. /\ N(MTags(queue), C) = N(MTags(queue), A) + N(MTags(queue), B)
      /\ N(MTags(mPendingMsgs), C) = N(MTags(mPendingMsgs), A) + N(MTags(mPendingMsgs), B)
      /\ N(RTags(api), C) = N(RTags(api), A) + N(RTags(api), B)
  BY <1>1, <1>2, CountMore
<1>5. \A S : /\ N(MTags(queue), S) \in Nat /\ N(MTags(mPendingMsgs), S) \in Nat
             /\ N(RTags(api), S) \in Nat
  BY WayIs
<1>6. About(l, K \cup {k}) = About(l, K) + About(l, {k})
  BY <1>3, <1>4, <1>5
<1>7. About(l, K) \in Nat /\ About(l, {k}) \in Nat
  BY WayIs DEF About
<1> QED BY <1>6, <1>7

\* What is waited for counts all that changes a session.
LEMMA SeriousAbout ==
    ASSUME Types, NEW l \in Keys
    PROVE  Serious(Under(l)) \in Nat /\ Serious(Under(l)) <= About(l, Waited)
<1> DEFINE K1 == {"start"}
           K2 == K1 \cup {"update"}
           K3 == K2 \cup {"stop"}
           K4 == K3 \cup {"updated"}
           K5 == K4 \cup {"stopped"}
           K6 == K5 \cup {"switch"}
           K7 == K6 \cup {"restart"}
           K8 == K7 \cup {"restarted"}
           K9 == K8 \cup {"started"}
           K10 == K9 \cup {"answer"}
<1>0. Waited = K10
  BY DEF Waited, Commands, Conts
<1>1. \A K, k : k \notin K => /\ About(l, K \cup {k}) = About(l, K) + About(l, {k})
                              /\ About(l, K) \in Nat /\ About(l, {k}) \in Nat
  BY AboutMore
<1>2. /\ "update" \notin K1 /\ "stop" \notin K2 /\ "updated" \notin K3 /\ "stopped" \notin K4
      /\ "switch" \notin K5 /\ "restart" \notin K6 /\ "restarted" \notin K7 /\ "started" \notin K8
      /\ "answer" \notin K9
  OBVIOUS
<1>3. /\ Under(l)["start"] = About(l, {"start"}) /\ Under(l)["update"] = About(l, {"update"})
      /\ Under(l)["stop"] = About(l, {"stop"}) /\ Under(l)["updated"] = About(l, {"updated"})
      /\ Under(l)["stopped"] = About(l, {"stopped"}) /\ Under(l)["switch"] = About(l, {"switch"})
      /\ Under(l)["restart"] = About(l, {"restart"})
      /\ Under(l)["restarted"] = About(l, {"restarted"})
  BY UnderIs, KindsIs
<1>4. /\ About(l, K2) = About(l, {"start"}) + About(l, {"update"}) /\ About(l, {"update"}) \in Nat
      /\ About(l, {"start"}) \in Nat
  BY <1>1, <1>2
<1>5. About(l, K3) = About(l, K2) + About(l, {"stop"}) /\ About(l, {"stop"}) \in Nat
  <2> HIDE DEF K2
  <2> QED BY <1>1, <1>2
<1>6. About(l, K4) = About(l, K3) + About(l, {"updated"}) /\ About(l, {"updated"}) \in Nat
  <2> HIDE DEF K3
  <2> QED BY <1>1, <1>2
<1>7. About(l, K5) = About(l, K4) + About(l, {"stopped"}) /\ About(l, {"stopped"}) \in Nat
  <2> HIDE DEF K4
  <2> QED BY <1>1, <1>2
<1>8. About(l, K6) = About(l, K5) + About(l, {"switch"}) /\ About(l, {"switch"}) \in Nat
  <2> HIDE DEF K5
  <2> QED BY <1>1, <1>2
<1>9. About(l, K7) = About(l, K6) + About(l, {"restart"}) /\ About(l, {"restart"}) \in Nat
  <2> HIDE DEF K6
  <2> QED BY <1>1, <1>2
<1>10. About(l, K8) = About(l, K7) + About(l, {"restarted"}) /\ About(l, {"restarted"}) \in Nat
  <2> HIDE DEF K7
  <2> QED BY <1>1, <1>2
<1>11. About(l, K9) = About(l, K8) + About(l, {"started"}) /\ About(l, {"started"}) \in Nat
  <2> HIDE DEF K8
  <2> QED BY <1>1, <1>2
<1>12. About(l, K10) = About(l, K9) + About(l, {"answer"}) /\ About(l, {"answer"}) \in Nat
  <2> HIDE DEF K9
  <2> QED BY <1>1, <1>2
<1>13. /\ Serious(Under(l)) \in Nat /\ Serious(Under(l)) <= About(l, K10)
  <2> HIDE DEF K2, K3, K4, K5, K6, K7, K8, K9, K10
  <2> QED BY <1>3, <1>4, <1>5, <1>6, <1>7, <1>8, <1>9, <1>10, <1>11, <1>12 DEF Serious
<1> QED BY <1>0, <1>13

\* What is expected of a session does not grow as a message is handled.
LEMMA LessAnswered ==
    ASSUME Types, HandleMsg, NEW l \in Keys
    PROVE  /\ unanswered[l] \in Int /\ unanswered'[l] \in Int /\ unanswered'[l] <= unanswered[l]
           /\ ~Registered(l[1]) \/ Head(queue).op = "remove" => unanswered'[l] = unanswered[l]
<1>0. unanswered[l] \in Int
  BY DEF Types, AnswerTypes
<1>1. Handler(Head(queue))
  BY HandlerIs
<1>2. ASSUME NEW g, HandlingOK(g), Commit(g)
      PROVE  /\ unanswered'[l] \in Int /\ unanswered'[l] <= unanswered[l]
             /\ ~Registered(l[1]) \/ g.answers = <<>> => unanswered'[l] = unanswered[l]
  <2>1. unanswered'[l] = unanswered[l] - Told(g, l)
    BY <1>2 DEF Commit
  <2>2. {j \in DOMAIN g.answers : g.answers[j] = l} = {j \in DOMAIN g.answers : g.answers[j] \in {l}}
    OBVIOUS
  <2>3. Told(g, l) = IF Registered(l[1]) THEN N(g.answers, {l}) ELSE 0
    BY <2>2 DEF Told, Registered, N
  <2>4. N(g.answers, {l}) \in Nat
    BY <1>2, CountIs DEF HandlingOK
  <2>5. g.answers = <<>> => N(g.answers, {l}) = 0
    BY CountEmpty
  <2> QED BY <1>0, <2>1, <2>3, <2>4, <2>5
<1>3. CASE UNCHANGED unanswered
  BY <1>0, <1>3
<1>4. CASE RemoveHandled(Head(queue))
  <2>1. PICK g : HandlingOK(g) /\ Commit(g) /\ RemoveMakes(g, Head(queue).client)
    BY <1>4 DEF RemoveHandled
  <2>2. g.answers = <<>>
    BY <2>1 DEF RemoveMakes, Makes
  <2> QED BY <1>0, <1>2, <2>1, <2>2
<1>5. CASE Head(queue).op # "remove" /\ \E g : HandlingOK(g) /\ Commit(g)
  BY <1>0, <1>2, <1>5
<1> QED BY <1>1, <1>3, <1>4, <1>5
        DEF Handler, Waiting, Pend, AddClient, Enable, Disable, TrackHandled, ResponseHandled,
            ConfigHandled, EngineUpHandled, Commands

\* No client is registered by a message that it was not before.
LEMMA StillRegistered ==
    ASSUME Types, Comings, HandleMsg, NEW l \in Keys
    PROVE  /\ Registered(l[1])' => Registered(l[1])
           /\ Registered(l[1]) /\ ~Registered(l[1])' => Head(queue).op = "remove"
           /\ Head(queue).op = "remove" /\ Head(queue).client = l[1] => ~Registered(l[1])'
<1>1. queue # <<>> /\ Handler(Head(queue)) /\ Head(queue) \in Range(queue)
  BY HandlerIs, RangeIs DEF Types, QueueTypes
<1>2. \/ Head(queue).op = "remove" /\ mClientData' = Drop(mClientData, Head(queue).client)
      \/ /\ Head(queue).op = "add"
         /\ mClientData' = With(mClientData, Head(queue).client, Head(queue).tracks)
      \/ UNCHANGED mClientData
  BY <1>1, ClientsAre
<1>3. Head(queue).op = "remove" => RemoveHandled(Head(queue)) 
  BY <1>1, PendingIs DEF Handler, Waiting, TrackHandled, AddClient, ResponseHandled, Enable, Disable,
     ConfigHandled, EngineUpHandled, Commands
<1>4. CASE Head(queue).op = "remove"
  <2>1. mClientData' = Drop(mClientData, Head(queue).client)
    BY <1>3, <1>4 DEF RemoveHandled
  <2>2. DOMAIN mClientData' = DOMAIN mClientData \ {Head(queue).client}
    BY <2>1, DropIs
  <2> QED BY <1>4, <2>2 DEF Registered
<1>5. CASE Head(queue).op = "add" /\ mClientData' = With(mClientData, Head(queue).client, Head(queue).tracks)
  <2>1. DOMAIN mClientData' = DOMAIN mClientData \cup {Head(queue).client}
    BY <1>5, WithDomain
  <2>2. Registered(Head(queue).client)
    BY <1>1, <1>5 DEF Comings
  <2> QED BY <1>5, <2>1, <2>2 DEF Registered
<1>6. CASE Head(queue).op # "remove" /\ UNCHANGED mClientData
  BY <1>6 DEF Registered
<1> QED BY <1>2, <1>4, <1>5, <1>6

\* A tag is of a message, or of a request.
LEMMA TagIs ==
    ASSUME NEW l, NEW k \in Kinds
    PROVE  /\ \A m : MTag(m) \in {l} \X {k} =>
                \/ m.op \in Commands /\ m.key = l /\ m.op = k
                \/ m.op = "response" /\ m.then.key = l /\ m.then.cont = k
           /\ \A r : RTag(r) \in {l} \X {k} => r.then # NoThen /\ r.then.key = l /\ r.then.cont = k
<1>1. k # "none"
  BY KindsAre
<1>2. ASSUME NEW m, MTag(m) \in {l} \X {k}
      PROVE  \/ m.op \in Commands /\ m.key = l /\ m.op = k
             \/ m.op = "response" /\ m.then.key = l /\ m.then.cont = k
  <2>1. CASE m.op \in Commands
    BY <1>2, <2>1 DEF MTag
  <2>2. CASE m.op \notin Commands /\ m.op = "response"
    BY <1>2, <2>2 DEF MTag
  <2>3. CASE m.op \notin Commands /\ m.op # "response"
    BY <1>1, <1>2, <2>3 DEF MTag
  <2> QED BY <2>1, <2>2, <2>3
<1>3. ASSUME NEW r, RTag(r) \in {l} \X {k}
      PROVE  r.then # NoThen /\ r.then.key = l /\ r.then.cont = k
  <2>1. CASE r.then = NoThen
    BY <1>1, <1>3, <2>1 DEF RTag
  <2>2. CASE r.then # NoThen
    BY <1>3, <2>2 DEF RTag
  <2> QED BY <2>1, <2>2
<1> QED BY <1>2, <1>3

\* None is under way about a session if no message, no waiting message and no request is.
LEMMA NoneUnder ==
    ASSUME Types, NEW l \in Keys, NEW k \in Kinds,
           \A j \in DOMAIN queue : MTag(queue[j]) \notin {l} \X {k},
           \A j \in DOMAIN mPendingMsgs : MTag(mPendingMsgs[j]) \notin {l} \X {k},
           \A j \in DOMAIN api : RTag(api[j]) \notin {l} \X {k}
    PROVE  Under(l)[k] = 0
<1>1. Sq(queue) /\ Sq(mPendingMsgs) /\ Sq(api)
  BY DEF Types, QueueTypes, PendingTypes, RequestsOK
<1> DEFINE S == {l} \X {k}
<1>2. \A q : Sq(q) => /\ (N(MTags(q), S) = 0 <=> \A j \in DOMAIN q : MTag(q[j]) \notin S)
                      /\ (N(RTags(q), S) = 0 <=> \A j \in DOMAIN q : RTag(q[j]) \notin S)
  <2> HIDE DEF S
  <2> QED BY TagsCount
<1>3. N(MTags(queue), S) = 0 /\ N(MTags(mPendingMsgs), S) = 0 /\ N(RTags(api), S) = 0
  BY <1>1, <1>2
<1>4. UnderWay(S) = 0
  <2> HIDE DEF S
  <2> QED BY <1>3 DEF UnderWay, Way
<1> QED BY <1>4 DEF Under, About

\* When a client is removed whose session follows a distance, no command of the session is left.
LEMMA RemovedAlone ==
    ASSUME Types, Boots, Overtaken, queue # <<>>, Head(queue).op = "remove", NEW l \in Keys,
           Head(queue).client = l[1], l \in DOMAIN distanceBased, NEW k \in Commands
    PROVE  Under(l)[k] = 0
<1>1. Sq(queue) /\ Sq(api) /\ 1 \in DOMAIN queue /\ Head(queue) = queue[1]
      /\ DOMAIN queue = 1..Len(queue) /\ Len(queue) \in Nat
  <2>1. Sq(queue) /\ Sq(api)
    BY DEF Types, QueueTypes, RequestsOK
  <2> QED BY <2>1, SqOf, SqTail
<1>2. k \in Kinds /\ k \notin Conts /\ k # "response" /\ k # "remove"
  BY DEF Kinds, Commands, Conts
<1>3. known
  BY DEF Boots
<1>4. mPendingMsgs = <<>>
  BY <1>3 DEF Types, FlagTypes
<1>5. ASSUME NEW j \in DOMAIN queue
      PROVE  MTag(queue[j]) \notin {l} \X {k}
  <2>1. SUFFICES ASSUME MTag(queue[j]) \in {l} \X {k} PROVE FALSE
    OBVIOUS
  <2>2. MessageOK(queue[j], calls)
    BY <1>1 DEF Types, QueueTypes, Range
  <2>3. \/ queue[j].op \in Commands /\ queue[j].key = l /\ queue[j].op = k
        \/ queue[j].op = "response" /\ queue[j].then.key = l /\ queue[j].then.cont = k
    BY <1>2, <2>1, TagIs
  <2>4. CASE queue[j].op \in Commands /\ queue[j].key = l /\ queue[j].op = k
    <3>1. j # 1
      BY <1>1, <1>2, <2>4
    <3>2. 1 < j
      BY <1>1, <3>1
    <3> QED BY <1>1, <2>4, <3>2 DEF Overtaken
  <2>5. CASE queue[j].op = "response" /\ queue[j].then.cont = k
    <3>1. ThenOK(queue[j].then) /\ queue[j].then # NoThen
      BY <2>2, <2>5 DEF MessageOK
    <3> QED BY <1>2, <2>5, <3>1 DEF ThenOK
  <2> QED BY <2>3, <2>4, <2>5
<1>6. ASSUME NEW j \in DOMAIN api
      PROVE  RTag(api[j]) \notin {l} \X {k}
  <2>1. SUFFICES ASSUME RTag(api[j]) \in {l} \X {k} PROVE FALSE
    OBVIOUS
  <2>2. ThenOK(api[j].then)
    BY DEF Types, RequestsOK, RequestOK
  <2>3. api[j].then # NoThen /\ api[j].then.cont = k
    BY <1>2, <2>1, TagIs
  <2> QED BY <1>2, <2>2, <2>3 DEF ThenOK
<1>7. \A j \in DOMAIN mPendingMsgs : MTag(mPendingMsgs[j]) \notin {l} \X {k}
  BY <1>4, SqEmpty
<1> QED BY <1>2, <1>5, <1>6, <1>7, NoneUnder

\* As a client is removed, its sessions that follow a distance are to be erased, and no command
\* of them is left.
Leaves(c, n, d, c2) ==
    /\ \A k \in Kinds : c2[k] = c[k] + n[k]
    /\ \A k \in Kinds : k \notin {"started", "answer", "erase"} => n[k] = 0
    /\ d = 0 => n["erase"] = 0
    /\ d = 1 => c["start"] = 0 /\ c["update"] = 0 /\ c["stop"] = 0

\* A client is removed.
LEMMA AccountRemoved ==
    ASSUME NEW c \in Amounts, NEW c2 \in Amounts, NEW n \in [Kinds -> Nat], NEW d \in {0, 1},
           NEW t, NEW r, AccountIs(c, t, d, r), Leaves(c, n, d, c2)
    PROVE  AccountIs(c2, 0, d, FALSE) /\ Serious(c2) = Serious(c)
<1>0. /\ \A k \in Kinds : c2[k] = c[k] + n[k]
      /\ \A k \in Kinds : k \notin {"started", "answer", "erase"} => n[k] = 0
      /\ d = 0 => n["erase"] = 0
      /\ d = 1 => c["start"] = 0 /\ c["update"] = 0 /\ c["stop"] = 0
  BY DEF Leaves
<1>1. \A k \in Kinds : /\ c[k] \in Nat /\ c2[k] \in Nat /\ n[k] \in Nat
                       /\ k \notin {"started", "answer", "erase"} => c2[k] = c[k]
  BY <1>0 DEF Amounts
<1>2. /\ c["start"] \in Nat /\ c["update"] \in Nat /\ c["stop"] \in Nat /\ c["switch"] \in Nat
      /\ c["updated"] \in Nat /\ c["stopped"] \in Nat /\ c["restart"] \in Nat
      /\ c["restarted"] \in Nat /\ c["erase"] \in Nat /\ n["erase"] \in Nat
      /\ c2["start"] = c["start"] /\ c2["update"] = c["update"] /\ c2["stop"] = c["stop"]
      /\ c2["switch"] = c["switch"] /\ c2["updated"] = c["updated"]
      /\ c2["stopped"] = c["stopped"] /\ c2["restart"] = c["restart"]
      /\ c2["restarted"] = c["restarted"] /\ c2["erase"] = c["erase"] + n["erase"]
  BY <1>0, <1>1, KindsIs
<1>3. /\ Serious(c2) = Serious(c) /\ Updating(c2) = Updating(c) /\ Left(c2) = Left(c)
      /\ Distant(c2) = Distant(c) + n["erase"]
      /\ Distant(c) \in Nat /\ Serious(c) \in Nat
  BY <1>2 DEF Serious, Updating, Left, Distant
<1>4. Unstarted(c2, 0, d)
  <2>1. c["start"] > 0 => c["start"] = 1 /\ d = 0 /\ Distant(c) + c["updated"] = 0
    BY DEF AccountIs, AccountOf, Unstarted
  <2> QED BY <1>0, <1>2, <1>3, <2>1 DEF Unstarted
<1>5. Single(c2) /\ Unchanging(c2)
  BY <1>3 DEF Single, Unchanging, AccountIs, AccountOf
<1>6. Placed(c2, 0, d)
  BY <1>2 DEF Placed, AccountIs, AccountOf
<1>7. Forgotten(c2, FALSE)
  <2>1. SUFFICES ASSUME c2["erase"] > 0 PROVE Left(c) = 0
    BY <1>3 DEF Forgotten
  <2>2. CASE c["erase"] > 0
    BY <2>2 DEF AccountIs, Forgotten
  <2>3. CASE c["erase"] = 0
    <3>1. d = 1
      BY <1>0, <1>2, <2>1, <2>3
    <3>2. c["switch"] + c["updated"] = 0
      BY <1>2, <3>1 DEF AccountIs, AccountOf, Placed
    <3>3. c["start"] = 0 /\ c["update"] = 0 /\ c["stop"] = 0
      BY <1>0, <3>1
    <3> QED BY <1>2, <3>2, <3>3 DEF Left
  <2> QED BY <1>2, <2>2, <2>3
<1> QED BY <1>3, <1>4, <1>5, <1>6, <1>7 DEF AccountIs, AccountOf

\* A message that is about a session is under way about it.
LEMMA KindUnder ==
    ASSUME Types, queue # <<>>, MessageOK(Head(queue), calls), NEW l \in Keys, NEW a,
           a \in {"none", Kind(Head(queue), l)}
    PROVE  a = "none" \/ (a \in Kinds /\ Under(l)[a] >= 1)
<1>1. CASE a = "none"
  BY <1>1
<1>2. CASE a # "none" /\ a = Kind(Head(queue), l)
  <2>1. a \in Kinds
    BY <1>2 DEF Kind, MessageOK, ThenOK, Kinds
  <2>2. Count(MTag(Head(queue)), {l} \X {a}) = 1
    <3>1. Count(MTag(Head(queue)), {l} \X {a}) = One(a = Kind(Head(queue), l))
      BY <2>1, HeadKind
    <3> QED BY <1>2, <3>1 DEF One
  <2>3. Count(MTag(Head(queue)), {l} \X {a}) \in 0..UnderWay({l} \X {a})
    BY HeadCounted
  <2>4. Under(l)[a] = UnderWay({l} \X {a}) /\ Under(l)[a] \in Nat
    BY <2>1, UnderIs DEF About
  <2> QED BY <2>1, <2>2, <2>3, <2>4
<1> QED BY <1>1, <1>2

\* What a message makes of a session's account: its parts that are of the session.
Passes(l) ==
    /\ AccountIs(Under(l)', In(l, timeBased'), In(l, distanceBased'), Registered(l[1])')
    /\ Serious(Under(l)') <= Serious(Under(l))
    /\ l[2] > calls => /\ \A k \in Kinds : Under(l)'[k] = 0
                       /\ In(l, timeBased') = 0 /\ In(l, distanceBased') = 0

\* A client that is no longer registered is forgotten like one that is.
LEMMA ForgottenLess ==
    ASSUME NEW c, NEW t, NEW d, NEW r, NEW s, s => r, AccountIs(c, t, d, r)
    PROVE  AccountIs(c, t, d, s)
  BY DEF AccountIs, Forgotten

\* A message about a session.
LEMMA StepsPass ==
    ASSUME Types, Types', Comings, Patient, HandleMsg, NEW l \in Keys, Account(l), NEW q, NEW a,
           NEW b, NEW e, Steps(l, q, a, b, e)
    PROVE  Passes(l)
<1> DEFINE c == Under(l)
           c2 == Under(l)'
           t == In(l, timeBased)
           d == In(l, distanceBased)
           t2 == In(l, timeBased')
           d2 == In(l, distanceBased')
           r == Registered(l[1])
           s == Registered(l[1])'
           ok == Head(queue).ok
<1>1. queue # <<>> /\ MessageOK(Head(queue), calls)
  BY HandlerIs
<1>2. a = "none" \/ (a \in Kinds /\ c[a] >= 1)
  BY <1>1, KindUnder DEF Steps
<1>3. c \in Amounts /\ c2 \in Amounts
  BY UnderIs, UnderNext
<1>4. t \in {0, 1} /\ d \in {0, 1} /\ t2 \in {0, 1} /\ d2 \in {0, 1} /\ r \in BOOLEAN /\ s \in BOOLEAN
  BY InIs DEF Registered
<1>5. Row(a, ok, t, d, b, t2, d2, e)
  BY DEF Steps
<1>6. Moved(c, a, b, c2)
  BY DEF Steps, Moved
<1>7. AccountIs(c, t, d, r)
  BY DEF Account, AccountIs
<1>8. s => r
  BY StillRegistered
<1>9. l[2] > calls => a = "none" /\ t = 0 /\ d = 0 /\ \A k \in Kinds : c[k] = 0
  BY <1>2 DEF Account, Unused
<1> HIDE DEF c, c2, t, d, t2, d2, r, s, ok
<1>10. AccountIs(c2, t2, d2, r) /\ Serious(c2) <= Serious(c)
  <2>1. \A u \in BOOLEAN : AccountIs(c, t, d, u) => AccountIs(c2, t2, d2, u) /\ Serious(c2) <= Serious(c)
    <3>1. a = "none" \/ c[a] >= 1
      BY <1>2
    <3>2. c \in Amounts /\ c2 \in Amounts
      BY <1>3
    <3>3. t \in {0, 1} /\ d \in {0, 1}
      BY <1>4
    <3>4. t2 \in {0, 1} /\ d2 \in {0, 1}
      BY <1>4
    <3> QED BY <3>1, <3>2, <3>3, <3>4, <1>5, <1>6, AccountRow
  <2> QED BY <1>4, <1>7, <2>1, Zenon
<1>11. AccountIs(c2, t2, d2, s)
  BY <1>8, <1>10, ForgottenLess
<1>12. a = "none" => b = "none" /\ t2 = t /\ d2 = d
  BY <1>5 DEF Row, Same, Conts
<1>13. l[2] > calls => /\ \A k \in Kinds : c2[k] = 0
                       /\ t2 = 0 /\ d2 = 0
  BY <1>6, <1>9, <1>12, KindsAre DEF Moved, One
<1> QED BY <1>10, <1>11, <1>13 DEF Passes, c, c2, t2, d2, s

\* A client's removal.
LEMMA RemovesPass ==
    ASSUME Types, Types', Comings, Boots, Overtaken, HandleMsg, NEW l \in Keys, Account(l), NEW q,
           Removes(l, q)
    PROVE  Passes(l)
<1> DEFINE c == Under(l)
           c2 == Under(l)'
           t == In(l, timeBased)
           d == In(l, distanceBased)
           t2 == In(l, timeBased')
           d2 == In(l, distanceBased')
           r == Registered(l[1])
           n == [k \in Kinds |-> Asking(q, l, k)]
<1>1. queue # <<>> /\ Head(queue).op = "remove" /\ Head(queue).client = l[1]
  BY HandlerIs DEF Removes
<1>2. c \in Amounts /\ c2 \in Amounts
  BY UnderIs, UnderNext
<1>3. t \in {0, 1} /\ d \in {0, 1} /\ t2 \in {0, 1} /\ d2 \in {0, 1} /\ r \in BOOLEAN
      /\ (d = 1 => l \in DOMAIN distanceBased)
  BY InIs DEF Registered
<1>4. AccountIs(c, t, d, r)
  BY DEF Account, AccountIs
<1>5. ~Registered(l[1])'
  BY <1>1, StillRegistered
<1>6. RemoveRow(q, l, t, d, t2, d2) /\ \A k \in Kinds : c2[k] = c[k] + n[k]
  BY DEF Removes
<1>7. n \in [Kinds -> Nat]
  BY <1>6 DEF RemoveRow
<1>8. /\ \A k \in Kinds : k \notin {"started", "answer", "erase"} => n[k] = 0
      /\ d = 0 => n["erase"] = 0
      /\ t = 0 => n["started"] = 0 /\ n["answer"] = 0
      /\ t2 = 0 /\ d2 = d
  <2>1. "erase" \in Kinds /\ "started" \in Kinds /\ "answer" \in Kinds
    BY KindsIs
  <2> QED BY <1>6, <2>1 DEF RemoveRow
<1>9. d = 1 => c["start"] = 0 /\ c["update"] = 0 /\ c["stop"] = 0
  <2>1. l \in DOMAIN distanceBased => \A k \in Commands : Under(l)[k] = 0
    BY <1>1, RemovedAlone
  <2> QED BY <1>3, <2>1 DEF Commands
<1>10. l[2] > calls => t = 0 /\ d = 0 /\ \A k \in Kinds : c[k] = 0
  BY DEF Account, Unused
<1>11. Registered(l[1])' = FALSE
  BY <1>5 DEF Registered
<1> HIDE DEF c, c2, t, d, t2, d2, r, n
<1>12. AccountIs(c2, 0, d, FALSE) /\ Serious(c2) = Serious(c)
  <2>1. Leaves(c, n, d, c2)
    BY <1>6, <1>8, <1>9 DEF Leaves
  <2>2. \A u : AccountIs(c, t, d, u) => AccountIs(c2, 0, d, FALSE) /\ Serious(c2) = Serious(c)
    BY <1>2, <1>3, <1>7, <2>1, AccountRemoved
  <2> QED BY <1>4, <2>2, Zenon
<1>13. l[2] > calls => \A k \in Kinds : c2[k] = 0
  <2>1. SUFFICES ASSUME l[2] > calls, NEW k \in Kinds PROVE c2[k] = 0
    OBVIOUS
  <2>2. n[k] = 0
    BY <1>8, <1>10, <2>1
  <2> QED BY <1>6, <1>10, <2>1, <2>2
<1>14. Serious(c2) <= Serious(c)
  <2>1. Serious(c) \in Nat
    BY SeriousAbout DEF c
  <2> QED BY <1>12, <2>1
<1> QED BY <1>8, <1>10, <1>11, <1>12, <1>13, <1>14 DEF Passes, c, c2, t2, d2

\* The accounts, as a message is handled.
LEMMA HandledAccounts ==
    ASSUME Types, Types', Books, Books', Patient, Overtaken, Accounts, HandleMsg
    PROVE  Accounts'
<1>1. SUFFICES ASSUME NEW l \in Keys PROVE Account(l)'
  BY DEF Accounts
<1>2. Account(l) /\ Comings /\ Boots /\ Owed'
  BY DEF Accounts, Books
<1>3. PICK q : Sq(q) /\ api' = api \o q /\ \A k \in Keys : Handled(k, q)
  BY AllHandled
<1>4. Passes(l)
  <2>1. CASE \E a, b, e : Steps(l, q, a, b, e)
    BY <1>2, <2>1, StepsPass
  <2>2. CASE Removes(l, q)
    BY <1>2, <2>2, RemovesPass
  <2> QED BY <1>3, <2>1, <2>2 DEF Handled
<1>5. use' = use /\ calls' = calls /\ calls \in Nat /\ l[2] \in Nat
  BY HandlerIs, CallsAre, KeysAre
<1>6. /\ unanswered[l] \in Int /\ unanswered'[l] \in Int /\ unanswered'[l] <= unanswered[l]
      /\ ~Registered(l[1]) \/ Head(queue).op = "remove" => unanswered'[l] = unanswered[l]
  BY LessAnswered
<1>7. Registered(l[1]) /\ ~Registered(l[1])' => Head(queue).op = "remove"
  BY <1>2, StillRegistered
<1>8. unanswered'[l] >= 0 /\ (Registered(l[1])' => About(l, Waited)' <= unanswered'[l])
  BY <1>2 DEF Owed
<1>9. Serious(Under(l)) \in Nat
  BY SeriousAbout
<1>10. Serious(Under(l))' \in Nat /\ Serious(Under(l))' <= About(l, Waited)' /\ About(l, Waited)' \in Nat
  <2>1. (Types => Serious(Under(l)) \in Nat /\ Serious(Under(l)) <= About(l, Waited))'
    <3>1. Types => Serious(Under(l)) \in Nat /\ Serious(Under(l)) <= About(l, Waited)
      BY SeriousAbout
    <3> QED BY SeriousAbout, PTL
  <2> QED BY <2>1, AboutNat
<1>11. Serious(Under(l))' = Serious(Under(l)')
  BY DEF Serious
<1>12. Expected(l)'
  <2>1. SUFFICES ASSUME "hurry" \notin use
                 PROVE  unanswered'[l] <= 1 /\ Serious(Under(l)') <= unanswered'[l]
    BY <1>5, <1>11 DEF Expected
  <2>2. unanswered[l] <= 1 /\ Serious(Under(l)) <= unanswered[l]
    BY <1>2, <2>1 DEF Account, Expected
  <2>3. CASE Registered(l[1])'
    BY <1>6, <1>8, <1>10, <1>11, <2>2, <2>3
  <2>4. CASE ~Registered(l[1])'
    <3>1. unanswered'[l] = unanswered[l]
      BY <1>6, <1>7, <2>4
    <3>2. Serious(Under(l)') <= Serious(Under(l)) /\ Serious(Under(l)') \in Nat
      BY <1>4, <1>10, <1>11 DEF Passes
    <3> QED BY <1>6, <1>9, <2>2, <3>1, <3>2
  <2> QED BY <2>3, <2>4
<1>13. Unused(l)'
  <2>1. SUFFICES ASSUME l[2] > calls
                 PROVE  /\ \A k \in Kinds : Under(l)'[k] = 0
                        /\ unanswered'[l] = 0 /\ In(l, timeBased') = 0 /\ In(l, distanceBased') = 0
    BY <1>5 DEF Unused, In
  <2>2. unanswered[l] = 0
    BY <1>2, <2>1 DEF Account, Unused
  <2>3. unanswered'[l] = 0
    BY <1>6, <1>8, <2>2
  <2> QED BY <1>4, <2>1, <2>3 DEF Passes
<1>14. /\ AccountOf(Under(l), In(l, timeBased), In(l, distanceBased))'
       /\ Forgotten(Under(l), Registered(l[1]))'
  <2>1. AccountIs(Under(l)', In(l, timeBased'), In(l, distanceBased'), Registered(l[1])')
    BY <1>4 DEF Passes
  <2> QED BY <1>5, <2>1 DEF AccountIs, AccountOf, Unstarted, Single, Unchanging, Placed, Forgotten,
                            Distant, Serious, Updating, Left, In
<1> QED BY <1>12, <1>13, <1>14 DEF Account

\* A command of a session is posted.
LEMMA AccountPosted ==
    ASSUME NEW c \in Amounts, NEW c2 \in Amounts, NEW t, NEW d, NEW r, AccountIs(c, t, d, r),
           NEW op \in Commands, Moved(c, "none", op, c2), c["erase"] = 0,
           "hurry" \notin use => Serious(c) = 0,
           op = "update" => "update" \in use /\ "hurry" \notin use,
           op = "start" => t = 0 /\ d = 0 /\ \A k \in Kinds : c[k] = 0
    PROVE  AccountIs(c2, t, d, r) /\ ("hurry" \notin use => Serious(c2) = 1)
<1>1. \A k \in Kinds : c[k] \in Nat /\ c2[k] \in Nat /\ c2[k] = c[k] + One(k = op)
  <2>1. "none" # op /\ op \in Kinds /\ "none" \notin Kinds
    BY DEF Commands, Kinds, Conts
  <2> QED BY <2>1 DEF Moved, Amounts, One
<1>2. /\ c["start"] \in Nat /\ c["update"] \in Nat /\ c["stop"] \in Nat /\ c["switch"] \in Nat
      /\ c["updated"] \in Nat /\ c["stopped"] \in Nat /\ c["restart"] \in Nat
      /\ c["restarted"] \in Nat /\ c["erase"] \in Nat
      /\ c2["start"] = c["start"] + One(op = "start") /\ c2["update"] = c["update"] + One(op = "update")
      /\ c2["stop"] = c["stop"] + One(op = "stop") /\ c2["switch"] = c["switch"]
      /\ c2["updated"] = c["updated"] /\ c2["stopped"] = c["stopped"]
      /\ c2["restart"] = c["restart"] /\ c2["restarted"] = c["restarted"]
      /\ c2["erase"] = c["erase"]
  <2>1. /\ c["start"] \in Nat /\ c["update"] \in Nat /\ c["stop"] \in Nat /\ c["switch"] \in Nat
        /\ c["updated"] \in Nat /\ c["stopped"] \in Nat /\ c["restart"] \in Nat
        /\ c["restarted"] \in Nat /\ c["erase"] \in Nat
        /\ c2["start"] = c["start"] + One("start" = op) /\ c2["update"] = c["update"] + One("update" = op)
        /\ c2["stop"] = c["stop"] + One("stop" = op) /\ c2["switch"] = c["switch"] + One("switch" = op)
        /\ c2["updated"] = c["updated"] + One("updated" = op)
        /\ c2["stopped"] = c["stopped"] + One("stopped" = op)
        /\ c2["restart"] = c["restart"] + One("restart" = op)
        /\ c2["restarted"] = c["restarted"] + One("restarted" = op)
        /\ c2["erase"] = c["erase"] + One("erase" = op)
    BY <1>1, KindsIs
  <2>2. /\ One("switch" = op) = 0 /\ One("updated" = op) = 0 /\ One("stopped" = op) = 0
        /\ One("restart" = op) = 0 /\ One("restarted" = op) = 0 /\ One("erase" = op) = 0
        /\ One("start" = op) = One(op = "start") /\ One("update" = op) = One(op = "update")
        /\ One("stop" = op) = One(op = "stop")
    BY DEF One, Commands
  <2> QED BY <2>1, <2>2
<1>3. One(op = "start") + One(op = "update") + One(op = "stop") = 1
  BY DEF One, Commands
<1>4. /\ Serious(c2) = Serious(c) + 1 /\ Serious(c) \in Nat
      /\ Updating(c2) = Updating(c) + One(op = "update") /\ Updating(c) \in Nat
      /\ Distant(c2) = Distant(c) /\ Distant(c) \in Nat
  <2>1. One(op = "start") \in Nat /\ One(op = "update") \in Nat /\ One(op = "stop") \in Nat
    BY DEF One
  <2> QED BY <1>2, <1>3, <2>1 DEF Serious, Updating, Distant
<1>5. Unstarted(c2, t, d)
  <2>1. CASE op = "start"
    <3>1. \A k \in Kinds : c[k] = 0
      BY <2>1
    <3>2. c["start"] = 0 /\ c["updated"] = 0 /\ Distant(c) = 0
      BY <1>2, <3>1, KindsIs DEF Distant
    <3> QED BY <1>2, <1>4, <2>1, <3>2 DEF Unstarted, One
  <2>2. CASE op # "start"
    <3>1. c2["start"] = c["start"]
      BY <1>2, <2>2 DEF One
    <3> QED BY <1>2, <1>4, <3>1 DEF Unstarted, AccountIs, AccountOf
  <2> QED BY <2>1, <2>2
<1>6. Single(c2)
  BY <1>4 DEF Single
<1>7. Unchanging(c2)
  BY <1>4 DEF Unchanging, One, AccountIs, AccountOf
<1>8. Placed(c2, t, d)
  BY <1>2, <1>4 DEF Placed, AccountIs, AccountOf
<1>9. Forgotten(c2, r)
  BY <1>2 DEF Forgotten
<1> QED BY <1>4, <1>5, <1>6, <1>7, <1>8, <1>9 DEF AccountIs, AccountOf

\* A session of which nothing changes.
LEMMA SameAccount ==
    ASSUME Types, Types', NEW l \in Keys, Account(l), use' = use, calls' >= calls,
           UNCHANGED <<timeBased, distanceBased, mClientData>>,
           \A k \in Kinds : Under(l)'[k] = Under(l)[k], unanswered'[l] = unanswered[l]
    PROVE  Account(l)'
<1> DEFINE c == Under(l)
           c2 == Under(l)'
           t == In(l, timeBased)
           d == In(l, distanceBased)
           r == Registered(l[1])
<1>1. c \in Amounts /\ c2 \in Amounts
  BY UnderIs, UnderNext
<1>2. AccountIs(c, t, d, r) /\ \A k \in Kinds : c2[k] = c[k]
  BY DEF Account, AccountIs
<1>3. In(l, timeBased)' = t /\ In(l, distanceBased)' = d /\ Registered(l[1])' = r
  BY DEF In, Registered
<1>4. calls \in Nat /\ calls' \in Nat /\ l[2] \in Nat
  BY KeysAre DEF Types, ClientTypes, CallsAre
<1> HIDE DEF c, c2, t, d, r
<1>5. AccountIs(c2, t, d, r) /\ Serious(c2) = Serious(c)
  <2>1. \A u : AccountIs(c, t, d, u) => AccountIs(c2, t, d, u) /\ Serious(c2) = Serious(c)
    BY <1>1, <1>2, AccountSame
  <2> QED BY <1>2, <2>1, Zenon
<1>6. AccountOf(c, t, d)' /\ Forgotten(c, r)' 
  BY <1>3, <1>5 DEF AccountIs, AccountOf, Unstarted, Single, Unchanging, Placed, Forgotten,
                    Distant, Serious, Updating, Left, c, c2, t, d, r
<1>7. Expected(l)'
  BY <1>5 DEF Account, Expected, c, c2, Serious
<1>8. Unused(l)'
  BY <1>2, <1>3, <1>4 DEF Account, Unused, c, c2, t, d
<1> QED BY <1>6, <1>7, <1>8 DEF Account, c, t, d, r

\* Nothing changes of any session.
LEMMA SameAccounts ==
    ASSUME Types, Types', Accounts, use' = use, calls' >= calls,
           UNCHANGED <<timeBased, distanceBased, mClientData, unanswered>>,
           \A l \in Keys : \A k \in Kinds : About(l, {k})' = About(l, {k})
    PROVE  Accounts'
<1>1. SUFFICES ASSUME NEW l \in Keys PROVE Account(l)'
  BY DEF Accounts
<1>2. Account(l)
  BY DEF Accounts
<1>3. \A k \in Kinds : Under(l)'[k] = Under(l)[k]
  <2>1. \A k \in Kinds : Under(l)[k] = About(l, {k})
    BY UnderIs
  <2>2. \A k \in Kinds : Under(l)'[k] = About(l, {k})'
    BY UnderNext
  <2> QED BY <2>1, <2>2
<1> QED BY <1>2, <1>3, SameAccount

\* The accounts, as the modem and LocApi step.
LEMMA OthersAccounts ==
    ASSUME Types, Types', Accounts, LocApiStep \/ ModemDies \/ ModemRises \/ UNCHANGED vars
    PROVE  Accounts'
<1>1. calls \in Nat
  BY CallsAre
<1>2. CASE LocApiStep
  <2>1. /\ UNCHANGED <<use, calls, timeBased, distanceBased, mClientData, unanswered>>
    BY <1>2, LocApiIs
  <2>2. \A l \in Keys : \A k \in Kinds : About(l, {k})' = About(l, {k})
    BY <1>2, KindsAre, LocApiFlow
  <2> QED BY <1>1, <2>1, <2>2, SameAccounts
<1>3. CASE ModemDies
  <2>1. UNCHANGED <<use, calls, timeBased, distanceBased, mClientData, unanswered, queue, api,
                    mPendingMsgs>>
    BY <1>3 DEF ModemDies, clientVars, sessions
  <2>2. \A l \in Keys : \A k \in Kinds : About(l, {k})' = About(l, {k})
    BY <2>1 DEF About, UnderWay, Way
  <2> QED BY <1>1, <2>1, <2>2, SameAccounts
<1>4. CASE ModemRises
  <2>1. /\ UNCHANGED <<use, calls, timeBased, distanceBased, mClientData, unanswered, api,
                       mPendingMsgs>>
        /\ queue' = Append(queue, [op |-> "engineUp"])
    BY <1>4 DEF ModemRises, clientVars, sessions
  <2>2. \A l \in Keys : \A k \in Kinds : About(l, {k})' = About(l, {k})
    <3> TAKE l \in Keys
    <3> TAKE k \in Kinds
    <3>1. MessageOK([op |-> "engineUp"], calls)
      BY DEF MessageOK
    <3>2. Kind([op |-> "engineUp"], l) = "none"
      BY DEF Kind, Commands
    <3>3. Count(MTag([op |-> "engineUp"]), {l} \X {k}) = 0
      <4>1. Count(MTag([op |-> "engineUp"]), {l} \X {k}) = One(k = Kind([op |-> "engineUp"], l))
        BY <3>1, HeadKind
      <4> QED BY <3>2, <4>1, KindsAre DEF One
    <3>4. UnderWay({l} \X {k})' = UnderWay({l} \X {k}) + Count(MTag([op |-> "engineUp"]), {l} \X {k})
      BY <2>1, PostFlow
    <3>5. UnderWay({l} \X {k}) \in Nat
      BY WayIs
    <3> QED BY <3>3, <3>4, <3>5 DEF About
  <2> QED BY <1>1, <2>1, <2>2, SameAccounts
<1>5. CASE UNCHANGED vars
  <2>1. UNCHANGED <<use, calls, timeBased, distanceBased, mClientData, unanswered, queue, api,
                    mPendingMsgs>>
    BY <1>5 DEF vars, clientVars, sessions
  <2>2. \A l \in Keys : \A k \in Kinds : About(l, {k})' = About(l, {k})
    BY <2>1 DEF About, UnderWay, Way
  <2> QED BY <1>1, <2>1, <2>2, SameAccounts
<1> QED BY <1>2, <1>3, <1>4, <1>5

\* A command of a session is of a client that is there, and that knows the session.
LEMMA CommandOf ==
    ASSUME Types, NEW op, NEW m, Commanded(op, m)
    PROVE  /\ m.op \in Commands => /\ m.key \in Keys /\ Expect(m.key) /\ m.key[1] \in live
                                   /\ op = "start" => m.key[2] = calls + 1
                                   /\ op # "start" => MaySend(m.key) /\ m.key[2] <= calls
           /\ m.op \notin Commands => UNCHANGED unanswered /\ m.op # "response"
<1>1. m.op = op /\ calls \in Nat
  BY CallsAre DEF Commanded
<1>2. started \subseteq live \X (1..calls)
  BY DEF Types, ClientTypes
<1>3. CASE op = "start"
  <2>1. m.key = <<m.key[1], calls + 1>>
    BY <1>1, <1>3 DEF Commanded
  <2>2. m.key[2] = calls + 1
    BY <2>1
  <2> QED BY <1>1, <1>3, <2>2 DEF Commanded, Commands
<1>4. CASE op \in {"update", "stop"}
  <2>1. m.key \in started /\ m.key \in Keys /\ MaySend(m.key) /\ Expect(m.key)
    BY <1>1, <1>4 DEF Commanded
  <2>2. m.key[1] \in live /\ m.key[2] \in 1..calls
    BY <1>2, <2>1
  <2> QED BY <1>1, <1>4, <2>1, <2>2 DEF Commands
<1>5. CASE op \in {"remove", "add", "enable", "disable", "config"}
  BY <1>1, <1>5 DEF Commanded, Commands
<1> QED BY <1>3, <1>4, <1>5 DEF Commanded

\* The accounts, as a command is posted.
LEMMA CommandAccounts ==
    ASSUME Types, Types', Books, Patient, Accounts, Command
    PROVE  Accounts'
<1>1. PICK op, m : Commanded(op, m)
  BY CommandIs
<1>2. /\ op \in use /\ queue' = Append(queue, m) /\ m.op = op /\ calls' = calls + 1
      /\ UNCHANGED <<use, api, modem, restarts, timeBased, distanceBased, mPendingMsgs, known,
                     mClientData, failed>>
  BY <1>1 DEF Commanded, Post, sessions, Id
<1>3. calls \in Nat /\ calls' \in Nat /\ calls' >= calls
  BY <1>2, CallsAre
<1>4. /\ m.op \in Commands => /\ m.key \in Keys /\ Expect(m.key) /\ m.key[1] \in live
                              /\ op = "start" => m.key[2] = calls + 1
                              /\ op # "start" => MaySend(m.key) /\ m.key[2] <= calls
      /\ m.op \notin Commands => UNCHANGED unanswered /\ m.op # "response"
  BY <1>1, CommandOf
<1>5. \A l \in Keys : \A k \in Kinds :
        Under(l)'[k] = Under(l)[k] + One(m.op \in Commands /\ m.key = l /\ k = m.op)
  <2> TAKE l \in Keys
  <2> TAKE k \in Kinds
  <2>1. UnderWay({l} \X {k})' = UnderWay({l} \X {k}) + Count(MTag(m), {l} \X {k})
    BY <1>2, PostFlow
  <2>2. Count(MTag(m), {l} \X {k}) = One(m.op \in Commands /\ m.key = l /\ k = m.op)
    <3>1. k # "none" /\ {k} \subseteq Commands \cup Conts
      BY KindsAre
    <3>2. \A K : K \subseteq Commands \cup Conts =>
               /\ Count(<<"none", "none">>, {l} \X K) = 0
               /\ \A i, c : Count(<<i, c>>, {l} \X K) = IF i = l /\ c \in K THEN 1 ELSE 0
      BY CountIn
    <3>3. /\ Count(<<"none", "none">>, {l} \X {k}) = 0
          /\ \A i, c : Count(<<i, c>>, {l} \X {k}) = IF i = l /\ c \in {k} THEN 1 ELSE 0
      BY <3>1, <3>2
    <3>4. CASE m.op \in Commands
      <4>1. MTag(m) = <<m.key, m.op>>
        BY <3>4 DEF MTag
      <4>2. Count(MTag(m), {l} \X {k}) = IF m.key = l /\ m.op \in {k} THEN 1 ELSE 0
        BY <3>3, <4>1
      <4> QED BY <3>4, <4>2 DEF One
    <3>5. CASE m.op \notin Commands
      <4>1. MTag(m) = <<"none", "none">>
        BY <1>4, <3>5 DEF MTag
      <4> QED BY <3>3, <3>5, <4>1 DEF One
    <3> QED BY <3>4, <3>5
  <2> QED BY <2>1, <2>2 DEF Under, About
<1>6. SUFFICES ASSUME NEW l \in Keys PROVE Account(l)'
  BY DEF Accounts
<1>7. Account(l) /\ \A k \in Kinds : Under(l)[k] \in Nat
  BY UnderIs DEF Accounts
<1>8. CASE m.op \notin Commands \/ m.key # l
  <2>1. \A k \in Kinds : Under(l)'[k] = Under(l)[k]
    BY <1>5, <1>7, <1>8 DEF One
  <2>2. unanswered'[l] = unanswered[l]
    BY <1>4, <1>8 DEF Expect, Types, AnswerTypes
  <2> QED BY <1>2, <1>3, <1>7, <2>1, <2>2, SameAccount
<1>9. CASE m.op \in Commands /\ m.key = l
  <2> DEFINE c == Under(l)
             c2 == Under(l)'
             t == In(l, timeBased)
             d == In(l, distanceBased)
             r == Registered(l[1])
  <2>1. c \in Amounts /\ c2 \in Amounts
    BY UnderIs, UnderNext
  <2>2. AccountIs(c, t, d, r)
    BY <1>7 DEF Account, AccountIs
  <2>3. unanswered'[l] = unanswered[l] + 1 /\ unanswered[l] \in Int
    BY <1>4, <1>9 DEF Expect, Types, AnswerTypes
  <2>4. Moved(c, "none", op, c2)
    <3>1. "none" \notin Kinds
      BY KindsAre
    <3>2. \A k \in Kinds : One(k = "none") = 0
      BY <3>1 DEF One
    <3>3. \A k \in Kinds : c2[k] = c[k] + One(k = op)
      BY <1>2, <1>5, <1>9 DEF One
    <3> QED BY <1>7, <3>2, <3>3 DEF Moved
  <2>5. Registered(l[1])
    BY <1>4, <1>9 DEF Books, Comings
  <2>6. c["erase"] = 0
    <3>1. ~(c["erase"] > 0)
      BY <2>2, <2>5 DEF AccountIs, Forgotten
    <3> QED BY <1>7, <3>1, KindsIs
  <2>7. op = "start" => l[2] > calls
    BY <1>3, <1>4, <1>9
  <2>8. op = "start" => unanswered[l] = 0 /\ t = 0 /\ d = 0 /\ \A k \in Kinds : c[k] = 0
    BY <1>7, <2>7 DEF Account, Unused
  <2>9. "hurry" \notin use => unanswered[l] = 0 /\ Serious(c) = 0
    <3>1. Serious(c) \in Nat
      BY SeriousAbout
    <3>2. "hurry" \notin use => unanswered[l] = 0
      BY <1>2, <1>4, <1>9, <2>8 DEF MaySend
    <3>3. "hurry" \notin use => Serious(c) <= unanswered[l]
      BY <1>7 DEF Account, Expected
    <3> QED BY <3>1, <3>2, <3>3
  <2>10. op = "update" => "update" \in use /\ "hurry" \notin use
    BY <1>2 DEF Patient
  <2>11. op \in Commands
    BY <1>2, <1>9
  <2>12. In(l, timeBased)' = t /\ In(l, distanceBased)' = d /\ Registered(l[1])' = r
    BY <1>2 DEF In, Registered
  <2>13. ~(l[2] > calls')
    <3>1. l[2] = calls + 1 \/ (l[2] <= calls /\ l[2] \in Nat)
      BY <1>2, <1>4, <1>9, KeysAre
    <3> QED BY <1>2, <1>3, <3>1
  <2> HIDE DEF c, c2, t, d, r
  <2>14. AccountIs(c2, t, d, r) /\ ("hurry" \notin use => Serious(c2) = 1)
    <3>1. \A u : AccountIs(c, t, d, u)
                 => AccountIs(c2, t, d, u) /\ ("hurry" \notin use => Serious(c2) = 1)
      BY <2>1, <2>4, <2>6, <2>8, <2>9, <2>10, <2>11, AccountPosted
    <3> QED BY <2>2, <3>1, Zenon
  <2>15. AccountOf(Under(l), In(l, timeBased), In(l, distanceBased))'
         /\ Forgotten(Under(l), Registered(l[1]))'
    BY <1>2, <2>12, <2>14 DEF AccountIs, AccountOf, Unstarted, Single, Unchanging, Placed, Forgotten,
                    Distant, Serious, Updating, Left, c2, t, d, r
  <2>16. Expected(l)'
    BY <1>2, <2>3, <2>9, <2>14 DEF Expected, c2, Serious
  <2>17. Unused(l)'
    BY <2>13 DEF Unused
  <2> QED BY <2>15, <2>16, <2>17 DEF Account
<1> QED BY <1>8, <1>9

-----------------------------------------------------------------------------
(* Commands behind their client's removal.                                   *)

\* A command in the queue is counted.
LEMMA Counted ==
    ASSUME NEW q, Sq(q), NEW l, NEW k \in Commands, NEW j \in DOMAIN q, q[j].op = k, q[j].key = l
    PROVE  N(MTags(q), {l} \X {k}) >= 1
<1>1. MTag(q[j]) \in {l} \X {k}
  BY DEF MTag
<1> DEFINE S == {l} \X {k}
<1> HIDE DEF S
<1>2. N(MTags(q), S) \in Nat /\ (N(MTags(q), S) = 0 <=> \A i \in DOMAIN q : MTag(q[i]) \notin S)
  BY TagsCount
<1>3. N(MTags(q), S) # 0
  BY <1>1, <1>2 DEF S
<1> QED BY <1>2, <1>3 DEF S

\* What is counted in the queue is under way.
LEMMA QueueUnder ==
    ASSUME Types, NEW l \in Keys, NEW k \in Kinds
    PROVE  Under(l)[k] >= N(MTags(queue), {l} \X {k})
<1>1. Under(l)[k] = UnderWay({l} \X {k})
  BY DEF Under, About
<1> DEFINE S == {l} \X {k}
<1> HIDE DEF S
<1>2. /\ N(MTags(queue), S) \in Nat /\ N(MTags(mPendingMsgs), S) \in Nat /\ N(RTags(api), S) \in Nat
      /\ UnderWay(S) = N(MTags(queue), S) + N(MTags(mPendingMsgs), S) + N(RTags(api), S)
  BY WayIs
<1>3. UnderWay(S) >= N(MTags(queue), S)
  BY <1>2
<1> QED BY <1>1, <1>3 DEF S

\* So will be what will be in the queue.
LEMMA QueueNext ==
    ASSUME Types', NEW l \in Keys, NEW k \in Kinds
    PROVE  Under(l)'[k] >= N(MTags(queue'), {l} \X {k})
<1>1. Under(l)'[k] = Way(queue', mPendingMsgs', api', {l} \X {k})
  BY DEF Under, About, UnderWay
<1>2. Sq(queue') /\ Sq(mPendingMsgs') /\ Sq(api')
  BY DEF Types, QueueTypes, PendingTypes, RequestsOK
<1> DEFINE S == {l} \X {k}
<1> HIDE DEF S
<1>3. /\ N(MTags(queue'), S) \in Nat /\ N(MTags(mPendingMsgs'), S) \in Nat
      /\ N(RTags(api'), S) \in Nat
  BY <1>2, TagsCount
<1>4. Way(queue', mPendingMsgs', api', S) >= N(MTags(queue'), S)
  BY <1>3 DEF Way
<1> QED BY <1>1, <1>4 DEF S

\* What makes a session follow a distance.
LEMMA RowFar ==
    ASSUME NEW a, NEW ok, NEW t, NEW d, NEW b, NEW t2, NEW d2, NEW e,
           Row(a, ok, t, d, b, t2, d2, e), d = 0, d2 = 1
    PROVE  a \in {"start", "update", "restarted"} /\ b # "update"
<1>1. CASE a = "none" /\ Same(t, d, t2, d2)
  BY <1>1 DEF Same
<1>2. CASE a = "start" /\ StartRow(t, d, b, t2, d2, e)
  BY <1>2 DEF StartRow
<1>3. CASE a = "update" /\ UpdateRow(t, d, b, t2, d2, e)
  BY <1>3 DEF UpdateRow, Same
<1>4. CASE a = "stop" /\ StopRow(t, d, b, t2, d2, e)
  BY <1>4 DEF StopRow, Same
<1>5. CASE a \in Conts /\ ContRow(a, ok, t, d, b, t2, d2, e)
  BY <1>5 DEF ContRow, Same, Gone
<1> QED BY <1>1, <1>2, <1>3, <1>4, <1>5 DEF Row

\* A session of which a start or a change is left to be handled is not made to follow a distance.
LEMMA StaysNear ==
    ASSUME Types, Types', Patient, Accounts, Accounts', HandleMsg, NEW l \in Keys,
           l \notin DOMAIN distanceBased, NEW k \in {"start", "update"}, Under(l)'[k] >= 1,
           k = "update" => Under(l)["update"] >= 1, NEW q, Handled(l, q)
    PROVE  l \notin DOMAIN distanceBased'
<1> DEFINE t == In(l, timeBased)
           d == In(l, distanceBased)
           t2 == In(l, timeBased')
           d2 == In(l, distanceBased')
           c == Under(l)
           c2 == Under(l)'
<1>1. d = 0 /\ d2 \in {0, 1} /\ (d2 = 1 <=> l \in DOMAIN distanceBased')
  BY InIs
<1>2. SUFFICES ASSUME d2 = 1 PROVE FALSE
  BY <1>1
<1>3. CASE Removes(l, q)
  BY <1>1, <1>2, <1>3 DEF Removes, RemoveRow
<1>4. CASE \E a, b, e : Steps(l, q, a, b, e)
  <2>1. PICK a, b, e : Steps(l, q, a, b, e)
    BY <1>4
  <2>2. a \in {"start", "update", "restarted"} /\ b # "update"
    <3>1. Row(a, Head(queue).ok, t, d, b, t2, d2, e)
      BY <2>1 DEF Steps
    <3> HIDE DEF t, d, t2, d2
    <3> QED BY <1>1, <1>2, <3>1, RowFar
  <2>3. a \in Kinds /\ c[a] >= 1
    <3>1. queue # <<>> /\ MessageOK(Head(queue), calls)
      BY HandlerIs
    <3>2. a = "none" \/ (a \in Kinds /\ c[a] >= 1)
      BY <2>1, <3>1, KindUnder DEF Steps
    <3> QED BY <2>2, <3>2
  <2>4. \A i \in Kinds : c2[i] = c[i] - One(i = a) + One(i = b)
    BY <2>1 DEF Steps
  <2>5. \A i \in Kinds : c[i] \in Nat
    BY UnderIs
  <2>6. CASE k = "start"
    <3>1. Account(l)'
      BY DEF Accounts
    <3>2. Unstarted(c2, t2, d2)
      BY <3>1 DEF Account, AccountOf, Unstarted, In, Distant
    <3>3. c2["start"] \in Nat /\ c2["start"] >= 1
      <4>1. "start" \in Kinds /\ c2[k] >= 1
        BY KindsIs
      <4> QED BY <2>6, <4>1, UnderNext
    <3> HIDE DEF c2, d2
    <3> QED BY <1>2, <3>2, <3>3 DEF Unstarted
  <2>7. CASE k = "update"
    <3>1. /\ c["start"] \in Nat /\ c["update"] \in Nat /\ c["stop"] \in Nat /\ c["switch"] \in Nat
          /\ c["updated"] \in Nat /\ c["stopped"] \in Nat /\ c["restart"] \in Nat
          /\ c["restarted"] \in Nat
      BY <2>5, KindsIs
    <3>2. c["update"] >= 1 /\ "update" \in Kinds
      BY <2>7, KindsIs
    <3>3. a = "update" => c["update"] >= 2
      <4>1. c2["update"] = c["update"] - One("update" = a) + One("update" = b)
        BY <2>4, <3>2
      <4> QED BY <2>2, <2>7, <3>1, <4>1 DEF One
    <3>4. Serious(c) >= 2
      <4>1. CASE a = "start"
        BY <2>3, <3>1, <3>2, <4>1 DEF Serious
      <4>2. CASE a = "restarted"
        BY <2>3, <3>1, <3>2, <4>2 DEF Serious
      <4>3. CASE a = "update"
        BY <3>1, <3>3, <4>3 DEF Serious
      <4> QED BY <2>2, <4>1, <4>2, <4>3
    <3>5. Updating(c) >= 1
      BY <3>1, <3>2 DEF Updating
    <3>6. Single(c) /\ Unchanging(c)
      BY DEF Accounts, Account, AccountOf
    <3>7. Serious(c) \in Nat /\ Updating(c) \in Nat
      BY <3>1 DEF Serious, Updating
    <3> HIDE DEF c
    <3> QED BY <3>4, <3>5, <3>6, <3>7 DEF Single, Unchanging, Patient
  <2> QED BY <2>6, <2>7
<1> QED BY <1>3, <1>4 DEF Handled

\* The messages behind others, when nothing waited that is sent again.
LEMMA Shifted ==
    ASSUME Types, queue # <<>>, queue' = Tail(queue) \o Resent(Head(queue)), Resent(Head(queue)) = <<>>
    PROVE  /\ Sq(queue') /\ DOMAIN queue' = 1..(Len(queue) - 1)
           /\ \A i \in DOMAIN queue' : i + 1 \in DOMAIN queue /\ queue'[i] = queue[i + 1]
           /\ DOMAIN queue = 1..Len(queue) /\ Len(queue) \in Nat \ {0} /\ Head(queue) = queue[1]
<1>1. /\ Sq(Tail(queue)) /\ Len(queue) \in Nat \ {0} /\ Len(Tail(queue)) = Len(queue) - 1
      /\ DOMAIN Tail(queue) = 1..(Len(queue) - 1)
      /\ \A j \in 1..(Len(queue) - 1) : Tail(queue)[j] = queue[j + 1]
      /\ Head(queue) = queue[1]
  BY SqTail DEF Types, QueueTypes
<1>2. queue' = Tail(queue)
  <2>1. Tail(queue) \in Seq(Range(Tail(queue)))
    BY <1>1 DEF Sq
  <2> QED BY <2>1
<1>3. DOMAIN queue = 1..Len(queue)
  BY SqOf DEF Types, QueueTypes
<1>4. Sq(queue') /\ DOMAIN queue' = 1..(Len(queue) - 1)
  BY <1>1, <1>2
<1>5. ASSUME NEW i \in DOMAIN queue'
      PROVE  i + 1 \in DOMAIN queue /\ queue'[i] = queue[i + 1]
  <2>1. i \in 1..(Len(queue) - 1)
    BY <1>4
  <2>2. i + 1 \in 1..Len(queue)
    BY <1>1, <2>1
  <2>3. queue'[i] = Tail(queue)[i]
    BY <1>2
  <2> QED BY <1>1, <1>3, <2>1, <2>2, <2>3
<1> QED BY <1>1, <1>3, <1>4, <1>5

\* Something that waited is sent again when nothing follows a distance yet.
LEMMA ResentNear ==
    ASSUME Types, Boots, HandleMsg, Resent(Head(queue)) # <<>>
    PROVE  ~known /\ DOMAIN distanceBased' = {} /\ DOMAIN distanceBased = {}
<1>1. Head(queue).op = "engineUp" /\ mPendingMsgs # <<>>
  BY DEF Resent
<1>2. ~known
  BY <1>1 DEF Types, FlagTypes
<1>3. DOMAIN distanceBased = {}
  BY <1>2 DEF Boots
<1>4. Handler(Head(queue))
  BY HandlerIs
<1>5. EngineUpHandled(Head(queue))
  BY <1>1, <1>4, PendingIs DEF Handler, Waiting, TrackHandled, RemoveHandled, AddClient,
     ResponseHandled, Enable, Disable, ConfigHandled, Commands
<1>6. distanceBased' = distanceBased
  <2>1. PICK g : Commit(g) /\ Restarts(g, timeBased, distanceBased, <<setConfig, Lists>>, <<>>)
    BY <1>5 DEF EngineUpHandled
  <2> QED BY <2>1 DEF Commit, Restarts, Makes
<1> QED BY <1>2, <1>3, <1>6

\* Commands behind a removal, as a message is handled.
LEMMA HandledOvertaken ==
    ASSUME Types, Types', Books, Patient, Accounts, Accounts', Overtaken, HandleMsg
    PROVE  Overtaken'
<1>1. SUFFICES ASSUME NEW i \in DOMAIN queue', NEW j \in DOMAIN queue', i < j,
                      queue'[i].op = "remove", queue'[j].op \in Commands,
                      queue'[j].key[1] = queue'[i].client
               PROVE  queue'[j].op # "stop" /\ queue'[j].key \notin DOMAIN distanceBased'
  BY DEF Overtaken
<1>2. queue # <<>> /\ queue' = Tail(queue) \o Resent(Head(queue))
  BY HandlerIs
<1>3. CASE Resent(Head(queue)) # <<>>
  <2>1. DOMAIN distanceBased' = {}
    BY <1>3, ResentNear DEF Books
  <2>2. \/ PendingOK(queue'[j])
        \/ \E k, n \in DOMAIN queue : k < n /\ queue'[i] = queue[k] /\ queue'[j] = queue[n]
    BY <1>1, <1>2, Remaining
  <2>3. CASE PendingOK(queue'[j])
    BY <2>1, <2>3, PendingIs
  <2>4. CASE \E k, n \in DOMAIN queue : k < n /\ queue'[i] = queue[k] /\ queue'[j] = queue[n]
    BY <1>1, <2>1, <2>4 DEF Overtaken
  <2> QED BY <2>2, <2>3, <2>4
<1>4. CASE Resent(Head(queue)) = <<>>
  <2> DEFINE n == j + 1
  <2>1. /\ Sq(queue') /\ DOMAIN queue' = 1..(Len(queue) - 1)
        /\ \A x \in DOMAIN queue' : x + 1 \in DOMAIN queue /\ queue'[x] = queue[x + 1]
        /\ DOMAIN queue = 1..Len(queue) /\ Len(queue) \in Nat \ {0}
    BY <1>2, <1>4, Shifted
  <2>2. i + 1 \in DOMAIN queue /\ n \in DOMAIN queue /\ i + 1 < n
        /\ queue'[i] = queue[i + 1] /\ queue'[j] = queue[n]
    BY <1>1, <2>1
  <2>3. queue[n].op # "stop" /\ queue[n].key \notin DOMAIN distanceBased
    BY <1>1, <2>2 DEF Overtaken
  <2>4. queue[n].op \in {"start", "update"}
    BY <1>1, <2>2, <2>3 DEF Commands
  <2>5. queue[n].key \in Keys
    <3>1. MessageOK(queue[n], calls)
      BY <2>2 DEF Types, QueueTypes, Range
    <3> QED BY <1>1, <2>2, <3>1 DEF MessageOK, Commands
  <2>6. PICK l \in Keys, k \in {"start", "update"} : queue[n].key = l /\ queue[n].op = k
    BY <2>4, <2>5
  <2>7. k \in Commands /\ k \in Kinds
    BY DEF Commands, Kinds
  <2>8. Under(l)'[k] >= 1
    <3>1. N(MTags(queue'), {l} \X {k}) >= 1
      BY <1>1, <2>1, <2>2, <2>6, <2>7, Counted
    <3>2. Under(l)'[k] >= N(MTags(queue'), {l} \X {k})
      BY <2>7, QueueNext
    <3>3. N(MTags(queue'), {l} \X {k}) \in Nat
      BY <2>1, TagsCount
    <3>4. Under(l)'[k] \in Nat
      BY <2>7, UnderNext
    <3> QED BY <3>1, <3>2, <3>3, <3>4
  <2>9. Under(l)[k] >= 1
    <3>0. Sq(queue)
      BY DEF Types, QueueTypes
    <3>1. N(MTags(queue), {l} \X {k}) >= 1
      BY <3>0, <2>2, <2>6, <2>7, Counted
    <3>2. Under(l)[k] >= N(MTags(queue), {l} \X {k})
      BY <2>7, QueueUnder
    <3>3. N(MTags(queue), {l} \X {k}) \in Nat
      BY <3>0, TagsCount
    <3>4. Under(l)[k] \in Nat
      BY <2>7, UnderIs
    <3> QED BY <3>1, <3>2, <3>3, <3>4
  <2>10. PICK q : \A x \in Keys : Handled(x, q)
    BY AllHandled
  <2>11. l \notin DOMAIN distanceBased'
    <3>1. Handled(l, q)
      BY <2>10
    <3>2. k = "update" => Under(l)["update"] >= 1
      BY <2>9
    <3>3. l \notin DOMAIN distanceBased
      BY <2>3, <2>6
    <3> QED BY <2>8, <3>1, <3>2, <3>3, StaysNear
  <2> QED BY <2>2, <2>3, <2>6, <2>11
<1> QED BY <1>3, <1>4

\* A message is posted that is about no removed client.
LEMMA PostedOvertaken ==
    ASSUME Types, Overtaken, NEW m, queue' = Append(queue, m), UNCHANGED distanceBased,
           m.op \in Commands => \A n \in Range(queue) : n.op = "remove" => n.client # m.key[1]
    PROVE  Overtaken'
<1>1. SUFFICES ASSUME NEW i \in DOMAIN queue', NEW j \in DOMAIN queue', i < j,
                      queue'[i].op = "remove", queue'[j].op \in Commands,
                      queue'[j].key[1] = queue'[i].client
               PROVE  queue'[j].op # "stop" /\ queue'[j].key \notin DOMAIN distanceBased
  BY DEF Overtaken
<1>2. /\ Len(queue) \in Nat /\ DOMAIN queue = 1..Len(queue)
      /\ DOMAIN queue' = 1..(Len(queue) + 1)
      /\ \A k \in 1..Len(queue) : queue'[k] = queue[k]
      /\ queue'[Len(queue) + 1] = m
  BY SqAppend, SqOf DEF Types, QueueTypes
<1>3. i \in DOMAIN queue /\ queue'[i] = queue[i] /\ (j \in DOMAIN queue \/ j = Len(queue) + 1)
  BY <1>1, <1>2
<1>4. CASE j \in DOMAIN queue
  BY <1>1, <1>2, <1>3, <1>4 DEF Overtaken
<1>5. CASE j = Len(queue) + 1
  <2>1. queue[i] \in Range(queue) /\ queue'[j] = m
    BY <1>2, <1>3, <1>5 DEF Range
  <2> QED BY <1>1, <1>3, <2>1
<1> QED BY <1>3, <1>4, <1>5

\* Commands behind a removal, at each step.
LEMMA OvertakenNext ==
    ASSUME Types, Types', Books, Patient, Accounts, Accounts', Overtaken, [Next]_vars
    PROVE  Overtaken'
<1>1. CASE Command
  <2>1. PICK op, m : Commanded(op, m)
    BY <1>1, CommandIs
  <2>2. queue' = Append(queue, m) /\ UNCHANGED distanceBased
    BY <2>1 DEF Commanded, Post, sessions
  <2>3. m.op \in Commands => m.key[1] \in live
    BY <2>1, CommandOf
  <2>4. \A n \in Range(queue) : n.op = "remove" => n.client \notin live
    BY DEF Books, Comings
  <2> QED BY <2>2, <2>3, <2>4, PostedOvertaken
<1>2. CASE HandleMsg
  BY <1>2, HandledOvertaken
<1>3. CASE LocApiStep
  <2>1. /\ UNCHANGED distanceBased
        /\ \/ queue' = queue
           \/ \E ok : queue' = Append(queue, [op |-> "response", then |-> Head(api).then, ok |-> ok])
    BY <1>3, LocApiIs
  <2>2. CASE queue' = queue
    BY <2>1, <2>2 DEF Overtaken
  <2>3. CASE \E ok : queue' = Append(queue, [op |-> "response", then |-> Head(api).then, ok |-> ok])
    <3>1. PICK ok : queue' = Append(queue, [op |-> "response", then |-> Head(api).then, ok |-> ok])
      BY <2>3
    <3>2. [op |-> "response", then |-> Head(api).then, ok |-> ok].op \notin Commands
      BY DEF Commands
    <3> DEFINE m == [op |-> "response", then |-> Head(api).then, ok |-> ok]
    <3> HIDE DEF m
    <3> QED BY <2>1, <3>1, <3>2, PostedOvertaken DEF m
  <2> QED BY <2>1, <2>2, <2>3
<1>4. CASE ModemDies
  BY <1>4 DEF ModemDies, sessions, Overtaken
<1>5. CASE ModemRises
  <2>1. queue' = Append(queue, [op |-> "engineUp"]) /\ UNCHANGED distanceBased
    BY <1>5 DEF ModemRises, sessions
  <2>2. [op |-> "engineUp"].op \notin Commands
    BY DEF Commands
  <2> QED BY <2>1, <2>2, PostedOvertaken
<1>6. CASE UNCHANGED vars
  BY <1>6 DEF vars, sessions, Overtaken
<1> QED BY <1>1, <1>2, <1>3, <1>4, <1>5, <1>6 DEF Next

\* The accounts, at each step.
LEMMA AccountsNext ==
    ASSUME Types, Types', Books, Books', Patient, Accounts, Overtaken, [Next]_vars
    PROVE  Accounts'
  BY HandledAccounts, CommandAccounts, OthersAccounts DEF Next

-----------------------------------------------------------------------------
(* The fix, as messages are handled.                                         *)

\* Requests that are not about the fix.
Unfixed(q) == \A j \in DOMAIN q : q[j].do \notin {"startFix", "stopFix"}

\* They leave it.
LEMMA UnfixedKeeps ==
    ASSUME NEW q, Unfixed(q), NEW v
    PROVE  Final(q, Fix, v) = v
<1>1. ASSUME NEW j \in DOMAIN q PROVE View(q[j], Fix) = {}
  <2>1. q[j].do # "startFix" /\ q[j].do # "stopFix"
    BY DEF Unfixed
  <2>2. Fix[1] = "fix"
    BY DEF Fix
  <2>3. View(q[j], Fix) = Only(q[j].do = "startFix", q[j].fix) \cup Only(q[j].do = "stopFix", NoFix)
    BY <2>2 DEF View
  <2>4. Only(q[j].do = "startFix", q[j].fix) = {} /\ Only(q[j].do = "stopFix", NoFix) = {}
    BY <2>1 DEF Only
  <2> QED BY <2>3, <2>4
<1> QED BY <1>1, FinalNone

\* Nor do they disturb what others made of it.
LEMMA UnfixedMore ==
    ASSUME NEW q, NEW T, NEW p, NEW T2, FixKept(q, T, p, T2), Sq(p), NEW s, Sq(s), Unfixed(s)
    PROVE  FixKept(q, T, p \o s, T2)
<1>1. ASSUME NEW v PROVE Final(p \o s, Fix, v) = Final(p, Fix, v)
  <2>1. Final(p \o s, Fix, v) = Final(s, Fix, Final(p, Fix, v))
    BY FinalConcat
  <2> QED BY <2>1, UnfixedKeeps
<1> QED BY <1>1 DEF FixKept

\* The sessions that have a fix are the same.
LEMMA FixSame ==
    ASSUME NEW T, NEW s, Unfixed(s)
    PROVE  FixKept(<<>>, T, s, T)
<1>1. \A v : Final(s, Fix, v) = v /\ Final(<<>>, Fix, v) = v
  BY UnfixedKeeps, FinalOne
<1> QED BY <1>1 DEF FixKept

\* A request of a session that follows a distance, and none.
LEMMA UnfixedIs ==
    /\ Unfixed(<<>>) /\ Sq(<<>>)
    /\ \A r : r.do \notin {"startFix", "stopFix"} => Unfixed(<<r>>) /\ Sq(<<r>>)
    /\ \A key, o, t : Unfixed(<<startDistance(key, o, t)>>) /\ Sq(<<startDistance(key, o, t)>>)
    /\ \A key, t : Unfixed(<<stopDistance(key, t)>>) /\ Sq(<<stopDistance(key, t)>>)
<1>1. Unfixed(<<>>) /\ Sq(<<>>)
  BY SqEmpty DEF Unfixed
<1>2. ASSUME NEW r, r.do \notin {"startFix", "stopFix"} PROVE Unfixed(<<r>>) /\ Sq(<<r>>)
  BY <1>2, CountOne DEF Unfixed
<1>3. ASSUME NEW key, NEW o, NEW t
      PROVE  Unfixed(<<startDistance(key, o, t)>>) /\ Sq(<<startDistance(key, o, t)>>)
  <2> DEFINE r == startDistance(key, o, t)
  <2>1. r.do \notin {"startFix", "stopFix"}
    BY DEF startDistance
  <2> HIDE DEF r
  <2>2. Unfixed(<<r>>) /\ Sq(<<r>>)
    BY <1>2, <2>1
  <2> QED BY <2>2 DEF r
<1>4. ASSUME NEW key, NEW t
      PROVE  Unfixed(<<stopDistance(key, t)>>) /\ Sq(<<stopDistance(key, t)>>)
  <2> DEFINE r == stopDistance(key, t)
  <2>1. r.do \notin {"startFix", "stopFix"}
    BY DEF stopDistance
  <2> HIDE DEF r
  <2>2. Unfixed(<<r>>) /\ Sq(<<r>>)
    BY <1>2, <2>1
  <2> QED BY <2>2 DEF r
<1> QED BY <1>1, <1>2, <1>3, <1>4

\* A step of a time-based session.
LEMMA StepFix ==
    ASSUME Types, NEW g, NEW key, NEW conts, NEW T2, TimeStep(Handling, g, key, conts, T2)
    PROVE  FixKept(<<>>, timeBased, g.requests, g.time) /\ g.time = T2 /\ Sq(g.requests)
<1>1. HandlingOK(Handling) /\ Handling.requests = <<>> /\ Handling.time = timeBased
  BY HandlingIs DEF Types, SessionTypes
<1>2. FixKept(Handling.requests, Handling.time, g.requests, g.time)
  BY <1>1, FixStep
<1>3. Sq(g.requests)
  BY StepTracking
<1> QED BY <1>1, <1>2, <1>3 DEF TimeStep

\* A command of tracking.
LEMMA TrackFix ==
    ASSUME Types, NEW g, NEW m, TrackMakes(g, m)
    PROVE  FixKept(<<>>, timeBased, g.requests, g.time)
<1>1. ASSUME NEW key, NEW conts, NEW T2, TimeStep(Handling, g, key, conts, T2)
      PROVE  FixKept(<<>>, timeBased, g.requests, g.time)
  BY <1>1, StepFix
<1>2. ASSUME NEW D, NEW q, NEW a, Makes(g, timeBased, D, q, a), Unfixed(q)
      PROVE  FixKept(<<>>, timeBased, g.requests, g.time)
  <2>1. g.requests = q /\ g.time = timeBased
    BY <1>2 DEF Makes
  <2> QED BY <1>2, <2>1, FixSame
<1>3. CASE m.op = "start" /\ StartMakes(g, m.key, m.options)
  BY <1>1, <1>2, <1>3, UnfixedIs DEF StartMakes
<1>4. CASE m.op = "stop" /\ StopMakes(g, m.key)
  BY <1>1, <1>2, <1>4, UnfixedIs DEF StopMakes
<1>5. CASE m.op = "update" /\ UpdateMakes(g, m.key, m.options)
  <2> DEFINE key == m.key
             o == Normal(m.options)
             r == startDistance(key, o, NoThen)
  <2>1. ASSUME NEW p, TimeStep(Handling, p, key, {"started", "answer"}, Drop(timeBased, key)),
               Makes(g, Drop(timeBased, key), With(distanceBased, key, o), Append(p.requests, r),
                     p.answers)
        PROVE  FixKept(<<>>, timeBased, g.requests, g.time)
    <3>1. FixKept(<<>>, timeBased, p.requests, p.time) /\ p.time = Drop(timeBased, key)
          /\ Sq(p.requests)
      BY <2>1, StepFix
    <3>2. g.time = p.time /\ g.requests = Append(p.requests, r)
      BY <2>1, <3>1 DEF Makes
    <3>3. Unfixed(<<r>>) /\ Sq(<<r>>)
      BY UnfixedIs
    <3> HIDE DEF r
    <3>4. g.requests = p.requests \o <<r>>
      BY <3>1, <3>2, AppendIs
    <3>5. FixKept(<<>>, timeBased, p.requests \o <<r>>, p.time)
      BY <3>1, <3>3, UnfixedMore
    <3> QED BY <3>2, <3>4, <3>5
  <2> QED BY <1>1, <1>2, <1>5, <2>1, UnfixedIs DEF UpdateMakes
<1> QED BY <1>3, <1>4, <1>5 DEF TrackMakes

\* A response, of a request that did not fail; what is stopped or erased is not time-based.
LEMMA RespondFix ==
    ASSUME Types, NEW g, NEW then, ContinueMakes(g, then, TRUE),
           then.cont \in {"stopped", "erase"} => then.key \notin DOMAIN timeBased
    PROVE  FixKept(<<>>, timeBased, g.requests, g.time)
<1>1. ASSUME NEW key, NEW conts, NEW T2, TimeStep(Handling, g, key, conts, T2)
      PROVE  FixKept(<<>>, timeBased, g.requests, g.time)
  BY <1>1, StepFix
<1>2. ASSUME NEW D, NEW q, NEW a, Makes(g, timeBased, D, q, a), Unfixed(q)
      PROVE  FixKept(<<>>, timeBased, g.requests, g.time)
  <2>1. g.requests = q /\ g.time = timeBased
    BY <1>2 DEF Makes
  <2> QED BY <1>2, <2>1, FixSame
<1>3. ASSUME NEW a, Erased(g, then.key, a), then.key \notin DOMAIN timeBased
      PROVE  FixKept(<<>>, timeBased, g.requests, g.time)
  BY <1>2, <1>3, UnfixedIs DEF Erased
<1>4. ASSUME NEW a, Kept(g, a)
      PROVE  FixKept(<<>>, timeBased, g.requests, g.time)
  BY <1>2, <1>4, UnfixedIs DEF Kept
<1> QED BY <1>1, <1>2, <1>3, <1>4, UnfixedIs DEF ContinueMakes

\* A client's removal.
LEMMA RemoveFix ==
    ASSUME Types, NEW g, NEW c, RemoveMakes(g, c)
    PROVE  FixKept(<<>>, timeBased, g.requests, g.time)
<1>1. PICK p, s : /\ Makes(g, Without(timeBased, c), distanceBased, p \o s, <<>>)
                  /\ RequestsOK(p) /\ Erases(s, c)
                  /\ FixKept(<<>>, timeBased, p, Without(timeBased, c))
  BY DEF RemoveMakes
<1>2. g.requests = p \o s /\ g.time = Without(timeBased, c)
  BY <1>1 DEF Makes
<1>3. Sq(p) /\ Sq(s)
  BY <1>1 DEF RequestsOK, Erases
<1>4. Unfixed(s)
  <2>1. ASSUME NEW j \in DOMAIN s PROVE s[j].do \notin {"startFix", "stopFix"}
    <3>1. PICK key : s[j] = stopDistance(key, Then("erase", key, NoOptions))
      BY <1>1 DEF Erases
    <3> QED BY <3>1 DEF stopDistance
  <2> QED BY <2>1 DEF Unfixed
<1> QED BY <1>1, <1>2, <1>3, <1>4, UnfixedMore

\* Once every session is started again, the fix serves those that have one.
LEMMA RestartsFix ==
    ASSUME NEW g, NEW T, NEW D, NEW q, NEW a, Restarts(g, T, D, q, a), Sq(q), NEW v,
           Idle(Final(q, Fix, v), T)
    PROVE  Served(Final(g.requests, Fix, v), T)
<1>1. PICK p, s : Refix(q, p, T) /\ Starts(s, D) /\ g.requests = p \o s
  BY DEF Restarts, Makes
<1>2. Unfixed(s) /\ Sq(s)
  <2>1. ASSUME NEW j \in DOMAIN s PROVE s[j].do \notin {"startFix", "stopFix"}
    <3>1. PICK key : s[j] = startDistance(key, D[key], NoThen)
      BY <1>1 DEF Starts
    <3> QED BY <3>1 DEF startDistance
  <2> QED BY <1>1, <2>1 DEF Unfixed, Starts
<1>3. Served(Final(p, Fix, v), T) /\ Sq(p)
  <2>1. CASE T = <<>> /\ p = q
    BY <2>1 DEF Served
  <2>2. CASE \E r : T # <<>> /\ p = Append(q, r) /\ RequestOK(r) /\ FixRequest(r, T) /\ r.then = NoThen
    <3>1. PICK r : p = Append(q, r) /\ FixRequest(r, T)
      BY <2>2
    <3>2. Final(p, Fix, v) = Set(r, Fix, Final(q, Fix, v))
      BY <3>1, FinalAppend
    <3>3. Sq(p)
      BY <3>1, SqAppend
    <3> QED BY <3>1, <3>2, <3>3, FixSet
  <2> QED BY <1>1, <2>1, <2>2 DEF Refix
<1>4. Final(g.requests, Fix, v) = Final(p, Fix, v)
  <2>1. Final(p \o s, Fix, v) = Final(s, Fix, Final(p, Fix, v))
    BY <1>2, <1>3, FinalConcat
  <2> QED BY <1>1, <1>2, <2>1, UnfixedKeeps
<1> QED BY <1>3, <1>4

\* What the handler that is handed a message makes of the fix, if it keeps it.
LEMMA KeptFix ==
    ASSUME Types, FixAgrees, HandleMsg, UNCHANGED failed, Head(queue).op # "engineUp", NEW q, Sq(q),
           api' = api \o q, ~failed => FixKept(<<>>, timeBased, q, timeBased')
    PROVE  FixAgrees'
<1>1. modem' = modem
  BY HandlerIs
<1>2. Fresh' => Fresh
  BY FreshHandled
<1>3. FixTo' = Final(q, Fix, FixTo)
  <2>1. Final(api \o q, Fix, modem.fix) = Final(q, Fix, Final(api, Fix, modem.fix))
    BY FinalConcat DEF Types, RequestsOK
  <2> QED BY <1>1, <2>1 DEF FixTo
<1>4. Final(<<>>, Fix, FixTo) = FixTo
  BY FinalOne
<1>5. ASSUME ~failed
      PROVE  /\ Idle(FixTo, timeBased) => Idle(FixTo', timeBased')
             /\ Served(FixTo, timeBased) => Served(FixTo', timeBased')
  <2>1. \A v : /\ Idle(Final(<<>>, Fix, v), timeBased) => Idle(Final(q, Fix, v), timeBased')
               /\ Served(Final(<<>>, Fix, v), timeBased) => Served(Final(q, Fix, v), timeBased')
    BY <1>5 DEF FixKept
  <2> QED BY <1>3, <1>4, <2>1
<1> QED BY <1>2, <1>5 DEF FixAgrees

\* A response that erases a session is not about a time-based one.
LEMMA ErasedFar ==
    ASSUME Types, Accounts, queue # <<>>, Head(queue).op = "response", ThenOK(Head(queue).then),
           Head(queue).then # NoThen, MessageOK(Head(queue), calls),
           Head(queue).then.cont \in {"stopped", "erase"}
    PROVE  Head(queue).then.key \notin DOMAIN timeBased
<1> DEFINE l == Head(queue).then.key
           a == Head(queue).then.cont
<1>1. l \in Keys /\ a \in {"stopped", "erase"}
  BY DEF ThenOK
<1>2. Kind(Head(queue), l) = a
  BY DEF Kind, Commands
<1>3. Under(l)[a] >= 1
  <2>1. a = "none" \/ (a \in Kinds /\ Under(l)[a] >= 1)
    BY <1>1, <1>2, KindUnder
  <2> QED BY <1>1, <2>1
<1> HIDE DEF l, a
<1>4. \A k \in Kinds : Under(l)[k] \in Nat
  BY <1>1, UnderIs
<1>5. Placed(Under(l), In(l, timeBased), In(l, distanceBased))
  BY <1>1 DEF Accounts, Account, AccountOf
<1>6. In(l, timeBased) # 1
  <2> SUFFICES ASSUME In(l, timeBased) = 1 PROVE FALSE
    OBVIOUS
  <2>1. Distant(Under(l)) = 0
    BY <1>5 DEF Placed
  <2>2. /\ Under(l)["stopped"] \in Nat /\ Under(l)["erase"] \in Nat /\ Under(l)["switch"] \in Nat
        /\ Under(l)["restart"] \in Nat /\ Under(l)["restarted"] \in Nat
    BY <1>4, KindsIs
  <2>3. Under(l)["stopped"] = 0 /\ Under(l)["erase"] = 0
    <3> DEFINE c == Under(l)
    <3>1. c["stopped"] + c["erase"] + c["switch"] + c["restart"] + c["restarted"] = 0
      BY <2>1 DEF Distant
    <3>0. /\ c["stopped"] \in Nat /\ c["erase"] \in Nat /\ c["switch"] \in Nat
          /\ c["restart"] \in Nat /\ c["restarted"] \in Nat
      BY <2>2
    <3> HIDE DEF c
    <3>2. c["stopped"] = 0 /\ c["erase"] = 0
      <4>1. \A p, q, r, s, u \in Nat : p + q + r + s + u = 0 => p = 0 /\ q = 0
        OBVIOUS
      <4> QED BY <3>0, <3>1, <4>1
    <3> QED BY <3>2 DEF c
  <2>4. CASE a = "stopped"
    BY <1>3, <2>3, <2>4
  <2>5. CASE a = "erase"
    BY <1>3, <2>3, <2>5
  <2> QED BY <1>1, <2>4, <2>5
<1>7. l \notin DOMAIN timeBased
  BY <1>6, InIs
<1> QED BY <1>7 DEF l

\* The fix, as a message is handled.
LEMMA HandledFix ==
    ASSUME Types, Books, Accounts, FixAgrees, HandleMsg
    PROVE  FixAgrees'
<1> DEFINE m == Head(queue)
<1>1. /\ MessageOK(m, calls) /\ Handler(m) /\ modem' = modem /\ queue # <<>>
  BY HandlerIs
<1>2. \A g : HandlingOK(g) /\ Commit(g)
             => /\ Sq(g.requests) /\ api' = api \o g.requests /\ timeBased' = g.time
  BY DEF HandlingOK, RequestsOK, Commit
<1>3. ASSUME NEW g, HandlingOK(g), Commit(g), UNCHANGED failed, m.op # "engineUp",
             ~failed => FixKept(<<>>, timeBased, g.requests, g.time)
      PROVE  FixAgrees'
  BY <1>2, <1>3, KeptFix
<1>4. Sq(api)
  BY DEF Types, RequestsOK
<1>5. ASSUME NEW q, Sq(q), Unfixed(q), api' = api \o q, UNCHANGED <<timeBased, failed>>,
             m.op # "engineUp"
      PROVE  FixAgrees'
  <2>1. FixKept(<<>>, timeBased, q, timeBased')
    BY <1>5, FixSame
  <2> QED BY <1>5, <2>1, KeptFix
<1>6. ASSUME UNCHANGED <<timeBased, failed, api>>, m.op # "engineUp" PROVE FixAgrees'
  <2>1. api' = api \o <<>>
    BY <1>4, <1>6 DEF Sq
  <2> QED BY <1>5, <1>6, <2>1, UnfixedIs
<1>7. ASSUME NEW lock, api' = Append(api, lockRequest(lock)), UNCHANGED <<timeBased, failed>>,
             m.op # "engineUp"
      PROVE  FixAgrees'
  <2> DEFINE r == lockRequest(lock)
  <2>1. r.do \notin {"startFix", "stopFix"}
    BY DEF lockRequest
  <2> HIDE DEF r
  <2>2. Unfixed(<<r>>) /\ Sq(<<r>>)
    BY <2>1, UnfixedIs
  <2>3. api' = api \o <<r>>
    BY <1>4, <1>7, AppendIs DEF r
  <2> QED BY <1>5, <1>7, <2>2, <2>3
<1>8. ~failed /\ m.op = "response" => m.ok = TRUE
  <2>1. m \in Range(queue)
    BY <1>1, RangeIs DEF Types, QueueTypes
  <2> QED BY <2>1 DEF Books, Succeeded
<1>9. m.op = "response" /\ ThenOK(m.then) /\ m.then # NoThen /\ m.then.cont \in {"stopped", "erase"}
      => m.then.key \notin DOMAIN timeBased
  BY <1>1, ErasedFar
<1> HIDE DEF m
<1>10. CASE Waiting(m)
  BY <1>6, <1>10 DEF Waiting, Pend
<1>11. CASE TrackHandled(m)
  <2>1. PICK g : HandlingOK(g) /\ Commit(g) /\ TrackMakes(g, m) /\ UNCHANGED failed
    BY <1>11 DEF TrackHandled
  <2>2. m.op # "engineUp"
    BY <1>11 DEF TrackHandled, Commands
  <2> QED BY <1>3, <2>1, <2>2, TrackFix
<1>12. CASE RemoveHandled(m)
  <2>1. PICK g : HandlingOK(g) /\ Commit(g) /\ RemoveMakes(g, m.client) /\ UNCHANGED failed
    BY <1>12 DEF RemoveHandled
  <2>2. m.op # "engineUp"
    BY <1>12 DEF RemoveHandled
  <2> QED BY <1>3, <2>1, <2>2, RemoveFix
<1>13. CASE AddClient(m)
  BY <1>6, <1>13 DEF AddClient
<1>14. CASE ResponseHandled(m)
  <2>1. PICK g : HandlingOK(g) /\ Commit(g) /\ ContinueMakes(g, m.then, m.ok) /\ UNCHANGED failed
    BY <1>14 DEF ResponseHandled
  <2>2. m.op = "response" /\ ThenOK(m.then) /\ m.then # NoThen
    BY <1>14 DEF ResponseHandled
  <2>3. ASSUME ~failed PROVE FixKept(<<>>, timeBased, g.requests, g.time)
    <3>1. m.ok = TRUE
      BY <1>8, <2>2, <2>3
    <3>2. ContinueMakes(g, m.then, TRUE)
      BY <2>1, <3>1
    <3> QED BY <1>9, <2>2, <3>2, RespondFix
  <2> QED BY <1>3, <2>1, <2>2, <2>3
<1>15. CASE Enable(m)
  <2>1. UNCHANGED <<timeBased, failed>> /\ m.op # "engineUp"
        /\ (UNCHANGED api \/ \E lock : api' = Append(api, lockRequest(lock)))
    BY <1>15 DEF Enable, sessions
  <2> QED BY <1>6, <1>7, <2>1
<1>16. CASE Disable(m)
  <2>1. UNCHANGED <<timeBased, failed>> /\ m.op # "engineUp"
        /\ (UNCHANGED api \/ \E lock : api' = Append(api, lockRequest(lock)))
    BY <1>16 DEF Disable, sessions
  <2> QED BY <1>6, <1>7, <2>1
<1>17. CASE ConfigHandled(m)
  <2>1. PICK g : HandlingOK(g) /\ Commit(g) /\ ConfigMakes(g, m) /\ ConfTo(m)
    BY <1>17 DEF ConfigHandled
  <2>2. m.op # "engineUp" /\ failed' = failed
    BY <1>17, <2>1 DEF ConfigHandled, ConfTo
  <2> DEFINE r == Asked(m)
  <2>3. r.do \notin {"startFix", "stopFix"}
    BY DEF Asked, configRequest
  <2> HIDE DEF r
  <2>4. Unfixed(<<r>>) /\ Sq(<<r>>)
    BY <2>3, UnfixedIs
  <2>5. CASE Makes(g, timeBased, distanceBased, <<r>>, <<>>)
    <3>1. g.requests = <<r>> /\ g.time = timeBased
      BY <2>5 DEF Makes
    <3>2. FixKept(<<>>, timeBased, g.requests, g.time)
      BY <2>4, <3>1, FixSame
    <3> QED BY <1>3, <2>1, <2>2, <3>2
  <2>6. ASSUME NEW q, q = <<r>> \/ q = <<StopFix, r>>,
               Restarts(g, timeBased, distanceBased, q, <<>>)
        PROVE  FixAgrees'
    <3>1. Sq(q) /\ \A v : Final(q, Fix, v) = v \/ Final(q, Fix, v) = NoFix
      <4>1. CASE q = <<r>>
        BY <2>4, <4>1, UnfixedKeeps
      <4>2. CASE q = <<StopFix, r>>
        <5>1. q = <<StopFix>> \o <<r>> /\ Sq(<<StopFix>>)
          BY <4>2, Appends, AppendIs, CountOne
        <5>2. Sq(q)
          BY <2>4, <5>1, SqConcat
        <5>3. ASSUME NEW v PROVE Final(q, Fix, v) = NoFix
          <6>1. Final(<<StopFix>> \o <<r>>, Fix, v) = Final(<<r>>, Fix, Final(<<StopFix>>, Fix, v))
            BY <2>4, <5>1, FinalConcat
          <6>2. Final(<<r>>, Fix, Final(<<StopFix>>, Fix, v)) = Final(<<StopFix>>, Fix, v)
            BY <2>4, UnfixedKeeps
          <6>3. Final(<<StopFix>>, Fix, v) = FixSetBy(StopFix, v)
            BY FinalOne, SetIs
          <6>4. FixSetBy(StopFix, v) = NoFix
            BY DEF FixSetBy, StopFix
          <6> QED BY <5>1, <6>1, <6>2, <6>3, <6>4
        <5> QED BY <5>2, <5>3
      <4> QED BY <2>6, <4>1, <4>2
    <3>2. ASSUME NEW v, Idle(v, timeBased) PROVE Served(Final(g.requests, Fix, v), timeBased)
      <4>1. Idle(Final(q, Fix, v), timeBased)
        BY <3>1, <3>2 DEF Idle
      <4> QED BY <2>6, <3>1, <4>1, RestartsFix
    <3>3. g.time = timeBased
      BY <2>6 DEF Restarts, Makes
    <3>4. FixKept(<<>>, timeBased, g.requests, g.time)
      <4>1. \A v : Final(<<>>, Fix, v) = v
        BY FinalOne
      <4> QED BY <3>2, <3>3, <4>1 DEF FixKept, Served
    <3> QED BY <1>3, <2>1, <2>2, <3>4
  <2> QED BY <2>1, <2>5, <2>6 DEF ConfigMakes, r
<1>18. CASE EngineUpHandled(m)
  <2>1. PICK g : /\ HandlingOK(g) /\ Commit(g)
                 /\ Restarts(g, timeBased, distanceBased, <<setConfig, Lists>>, <<>>)
                 /\ UNCHANGED failed
    BY <1>18 DEF EngineUpHandled
  <2> DEFINE r1 == setConfig
             r2 == Lists
  <2>2. r1.do \notin {"startFix", "stopFix"} /\ r2.do \notin {"startFix", "stopFix"}
    BY DEF setConfig, Lists, configRequest
  <2>3. Restarts(g, timeBased, distanceBased, <<r1, r2>>, <<>>)
    BY <2>1
  <2> HIDE DEF r1, r2
  <2>4. Unfixed(<<r1>>) /\ Sq(<<r1>>) /\ Unfixed(<<r2>>) /\ Sq(<<r2>>)
    BY <2>2, UnfixedIs
  <2>5. <<r1, r2>> = <<r1>> \o <<r2>>
    BY <2>4, Appends, AppendIs
  <2>6. Sq(<<r1, r2>>)
    BY <2>4, <2>5, SqConcat
  <2>7. Final(<<r1, r2>>, Fix, FixTo) = FixTo
    <3>1. Final(<<r1>> \o <<r2>>, Fix, FixTo) = Final(<<r2>>, Fix, Final(<<r1>>, Fix, FixTo))
      BY <2>4, FinalConcat
    <3> QED BY <2>4, <2>5, <3>1, UnfixedKeeps
  <2>8. FixTo' = Final(g.requests, Fix, FixTo)
    <3>1. Final(api \o g.requests, Fix, modem.fix) = Final(g.requests, Fix, Final(api, Fix, modem.fix))
      BY <1>2, <1>4, <2>1, FinalConcat
    <3> QED BY <1>1, <1>2, <2>1, <3>1 DEF FixTo
  <2>9. timeBased' = timeBased
    BY <1>2, <2>1 DEF Restarts, Makes
  <2>10. ASSUME ~failed PROVE Served(FixTo', timeBased')
    <3>1. Idle(Final(<<r1, r2>>, Fix, FixTo), timeBased)
      BY <2>7, <2>10 DEF FixAgrees
    <3> QED BY <2>3, <2>6, <2>8, <2>9, <3>1, RestartsFix
  <2> QED BY <2>1, <2>10 DEF FixAgrees, Served
<1> QED BY <1>1, <1>10, <1>11, <1>12, <1>13, <1>14, <1>15, <1>16, <1>17, <1>18 DEF Handler

\* The fix, at each step.
LEMMA FixNext ==
    ASSUME Types, Books, Accounts, FixAgrees, [Next]_vars
    PROVE  FixAgrees'
<1>1. (~failed => Idle(FixTo, timeBased)) /\ (~failed /\ Fresh => Served(FixTo, timeBased))
  BY DEF FixAgrees
<1>2. ASSUME UNCHANGED <<api, modem, timeBased, failed>>, Fresh' => Fresh
      PROVE  FixAgrees'
  <2>1. FixTo' = FixTo
    BY <1>2 DEF FixTo
  <2> QED BY <1>1, <1>2, <2>1 DEF FixAgrees
<1>3. \A q, e : Sq(q) => Range(Append(q, e)) = Range(q) \cup {e}
  BY RangeIs
<1>4. Sq(queue)
  BY DEF Types, QueueTypes
<1>5. CASE Command
  <2>1. PICK op, m : Post(op, m)
    BY <1>5, CommandIs DEF Commanded
  <2>2. queue' = Append(queue, m) /\ UNCHANGED <<api, modem, timeBased, failed>>
    BY <2>1 DEF Post, sessions
  <2>3. Range(queue) \subseteq Range(queue')
    BY <1>3, <1>4, <2>2
  <2>4. Fresh' => Fresh
    BY <2>2, <2>3 DEF Fresh
  <2> QED BY <1>2, <2>2, <2>4
<1>6. CASE HandleMsg
  BY <1>6, HandledFix
<1>7. CASE LocApiStep
  <2>1. /\ modem'.up = modem.up /\ UNCHANGED timeBased
        /\ \E ok \in BOOLEAN :
             /\ failed' = (failed \/ ~ok)
             /\ queue' = IF Head(api).then = NoThen THEN queue
                         ELSE Append(queue, [op |-> "response", then |-> Head(api).then, ok |-> ok])
    BY <1>7, LocApiIs
  <2>2. Range(queue) \subseteq Range(queue')
    BY <1>3, <1>4, <2>1
  <2>3. (Fresh' => Fresh) /\ (~failed' => ~failed)
    BY <2>1, <2>2 DEF Fresh
  <2>4. ~failed' => FixTo' = FixTo
    BY <1>7, LocApiFinal
  <2> QED BY <1>1, <2>1, <2>3, <2>4 DEF FixAgrees
<1>8. CASE ModemDies
  <2>1. modem' = Silent /\ UNCHANGED <<api, timeBased, failed>>
    BY <1>8 DEF ModemDies, sessions
  <2>2. modem'.up = FALSE /\ modem'.fix = NoFix
    BY <2>1 DEF Silent
  <2>3. FixTo' = NoFix \/ FixTo' = FixTo
    <3>1. Final(api, Fix, NoFix) = NoFix \/ Final(api, Fix, NoFix) = Final(api, Fix, modem.fix)
      BY DEF Final
    <3> QED BY <2>1, <2>2, <3>1 DEF FixTo
  <2>4. ~Fresh'
    BY <2>2 DEF Fresh
  <2> QED BY <1>1, <2>1, <2>3, <2>4 DEF FixAgrees, Idle
<1>9. CASE ModemRises
  <2>1. /\ ~modem.up /\ queue' = Append(queue, [op |-> "engineUp"])
        /\ modem' = [modem EXCEPT !.up = TRUE] /\ UNCHANGED <<api, timeBased>>
        /\ failed' = (failed /\ (api # <<>> \/ queue # <<>>))
    BY <1>9 DEF ModemRises, sessions
  <2>2. [op |-> "engineUp"] \in Range(queue') /\ [op |-> "engineUp"].op = "engineUp"
    BY <1>3, <1>4, <2>1
  <2>3. ~Fresh'
    BY <2>2 DEF Fresh
  <2>4. modem = Silent /\ modem.fix = NoFix
    BY <2>1 DEF Types, ModemTypes, Silent
  <2>5. modem'.fix = modem.fix
    BY <2>1, <2>4 DEF Silent
  <2>6. FixTo' = FixTo
    BY <2>1, <2>5 DEF FixTo
  <2>7. api = <<>> => FixTo = NoFix
    BY <2>4, FinalOne DEF FixTo
  <2>8. ~failed' => ~failed \/ api = <<>>
    BY <2>1
  <2> QED BY <1>1, <2>1, <2>3, <2>6, <2>7, <2>8 DEF FixAgrees, Idle
<1>10. CASE UNCHANGED vars
  <2>1. UNCHANGED <<api, modem, timeBased, failed, queue>>
    BY <1>10 DEF vars, sessions
  <2>2. Fresh' => Fresh
    BY <2>1 DEF Fresh
  <2> QED BY <1>2, <2>1, <2>2
<1> QED BY <1>5, <1>6, <1>7, <1>8, <1>9, <1>10 DEF Next

\* The fix at first.
LEMMA FixInit == Init => FixAgrees
<1> SUFFICES ASSUME Init PROVE FixAgrees
  OBVIOUS
<1>1. api = <<>> /\ timeBased = <<>> /\ modem.fix = NoFix
  <2>1. modem = Silent \/ modem = [Silent EXCEPT !.up = TRUE, !.lock = {MO, NI}, !.version = 1]
    BY DEF Init, Boot
  <2>2. CASE modem = Silent
    BY <2>2 DEF Silent, Init
  <2>3. CASE modem = [Silent EXCEPT !.up = TRUE, !.lock = {MO, NI}, !.version = 1]
    <3>1. modem = [up |-> TRUE, fix |-> NoFix, distance |-> {}, lock |-> {MO, NI}, version |-> 1,
                   blacklist |-> {}]
      BY <2>3 DEF Silent
    <3> QED BY <3>1 DEF Init
  <2> QED BY <2>1, <2>2, <2>3
<1>2. FixTo = NoFix
  BY <1>1, FinalOne DEF FixTo
<1> QED BY <1>1, <1>2 DEF FixAgrees, Idle, Served

\* Init counts and overtakes nothing.
LEMMA AccountsInit == Init => Accounts /\ Overtaken
<1> SUFFICES ASSUME Init PROVE Accounts /\ Overtaken
  OBVIOUS
<1>1. /\ queue = <<>> /\ api = <<>> /\ mPendingMsgs = <<>> /\ timeBased = <<>> /\ distanceBased = <<>>
      /\ unanswered = [key \in Keys |-> 0] /\ calls = 0
  BY DEF Init
<1>2. DOMAIN queue = {} /\ DOMAIN timeBased = {} /\ DOMAIN distanceBased = {} /\ Types
  BY <1>1, SqEmpty, TypesInit
<1>3. Overtaken
  BY <1>2 DEF Overtaken
<1>4. ASSUME NEW l \in Keys PROVE Account(l)
  <2> DEFINE c == Under(l)
  <2>1. c \in Amounts /\ \A k \in Kinds : c[k] = 0
    <3>1. ASSUME NEW k \in Kinds PROVE c[k] = 0
      <4>1. /\ \A j \in DOMAIN queue : MTag(queue[j]) \notin {l} \X {k}
            /\ \A j \in DOMAIN mPendingMsgs : MTag(mPendingMsgs[j]) \notin {l} \X {k}
            /\ \A j \in DOMAIN api : RTag(api[j]) \notin {l} \X {k}
        BY <1>1, SqEmpty
      <4> QED BY <1>2, <4>1, NoneUnder
    <3> QED BY <1>2, <3>1, UnderIs
  <2> HIDE DEF c
  <2>2. In(l, timeBased) = 0 /\ In(l, distanceBased) = 0
    BY <1>2 DEF In, One
  <2>3. unanswered[l] = 0
    BY <1>1
  <2>4. /\ c["start"] = 0 /\ c["update"] = 0 /\ c["stop"] = 0 /\ c["updated"] = 0
        /\ c["stopped"] = 0 /\ c["switch"] = 0 /\ c["restart"] = 0 /\ c["restarted"] = 0
        /\ c["erase"] = 0
    BY <2>1, KindsIs
  <2>5. Serious(c) = 0 /\ Updating(c) = 0
    BY <2>4 DEF Serious, Updating
  <2>6. AccountOf(c, 0, 0)
    BY <2>4, <2>5 DEF AccountOf, Unstarted, Single, Unchanging, Placed
  <2>7. Forgotten(c, Registered(l[1]))
    BY <2>4 DEF Forgotten
  <2>8. Expected(l) /\ Unused(l)
    BY <2>1, <2>2, <2>3, <2>5 DEF Expected, Unused, c
  <2> QED BY <2>2, <2>6, <2>7, <2>8 DEF Account, c
<1> QED BY <1>3, <1>4 DEF Accounts

-----------------------------------------------------------------------------
(* The sessions that follow a distance, as messages are handled.             *)

\* A client that waits changes or stops no session of which a change is under way.
LEMMA Busy ==
    ASSUME Types, Patient, NEW l \in Keys, Account(l), NEW a \in {"update", "stop"},
           Under(l)[a] >= 1
    PROVE  Under(l)["restarted"] = 0
<1> DEFINE c == Under(l)
<1>1. /\ c["start"] \in Nat /\ c["update"] \in Nat /\ c["stop"] \in Nat /\ c["updated"] \in Nat
      /\ c["stopped"] \in Nat /\ c["switch"] \in Nat /\ c["restart"] \in Nat /\ c["restarted"] \in Nat
  BY UnderIs, KindsIs
<1>2. Single(c) /\ Unchanging(c)
  BY DEF Account, AccountOf
<1>3. c["update"] >= 1 \/ c["stop"] >= 1
  OBVIOUS
<1> HIDE DEF c
<1>4. SUFFICES ASSUME c["restarted"] # 0 PROVE FALSE
  BY DEF c
<1>5. \A u, v, w, x, y \in Nat : u + v + w + x + y = 0 => y = 0
  OBVIOUS
<1>6. Updating(c) # 0
  <2>1. Updating(c) = c["update"] + c["updated"] + c["switch"] + c["restart"] + c["restarted"]
    BY DEF Updating
  <2> QED BY <1>1, <1>4, <1>5, <2>1
<1>7. "hurry" \notin use
  BY <1>2, <1>6 DEF Unchanging, Patient
<1>8. Serious(c) <= 1
  BY <1>2, <1>7 DEF Single
<1>9. c["update"] = 0 /\ c["stop"] = 0
  <2>1. c["start"] + c["update"] + c["stop"] + c["updated"] + c["stopped"] + c["switch"]
        + c["restart"] + c["restarted"] <= 1
    BY <1>8 DEF Serious
  <2> DEFINE s == c["start"]  u == c["update"]  p == c["stop"]  v == c["updated"]
             q == c["stopped"]  w == c["switch"]  x == c["restart"]  y == c["restarted"]
  <2>2. /\ s \in Nat /\ u \in Nat /\ p \in Nat /\ v \in Nat /\ q \in Nat /\ w \in Nat
        /\ x \in Nat /\ y \in Nat /\ y # 0 /\ s + u + p + v + q + w + x + y <= 1
    BY <1>1, <1>4, <2>1
  <2> HIDE DEF s, u, p, v, q, w, x, y
  <2>3. u = 0 /\ p = 0
    BY <2>2
  <2> QED BY <2>3 DEF u, p
<1> QED BY <1>3, <1>9

\* What a handler does not change.
LEMMA HandledSame ==
    ASSUME Types, HandleMsg
    PROVE  failed' = failed /\ modem' = modem
<1>1. Handler(Head(queue)) /\ modem' = modem
  BY HandlerIs
<1> QED BY <1>1 DEF Handler, Waiting, TrackHandled, RemoveHandled, AddClient, ResponseHandled,
                    Enable, Disable, ConfigHandled, ConfTo, EngineUpHandled

\* What becomes of a session's distance.
LEMMA RowEffect ==
    ASSUME NEW a, NEW ok, NEW t, NEW d, NEW b, NEW t2, NEW d2, NEW e,
           Row(a, ok, t, d, b, t2, d2, e)
    PROVE  /\ e \in {"start", "keep"} \/ (e = "any" /\ a \in {"update", "stop"})
           /\ b = "restarted" => e = "start"
<1>1. CASE a = "start"
  BY <1>1 DEF Row, StartRow, Conts
<1>2. CASE a = "update"
  BY <1>2 DEF Row, UpdateRow, Conts
<1>3. CASE a = "stop"
  BY <1>3 DEF Row, StopRow, Conts
<1>4. CASE a = "none"
  BY <1>4 DEF Row, Conts
<1>5. CASE a \in Conts
  BY <1>5 DEF Row, ContRow, Conts
<1> QED BY <1>1, <1>2, <1>3, <1>4, <1>5 DEF Row

\* Its distance, once requests were added.
LEMMA DistanceHandled ==
    ASSUME Types, NEW q, Sq(q), api' = api \o q, modem' = modem, NEW l
    PROVE  /\ DistanceTo(l)' = Final(q, Distance(l), DistanceTo(l))
           /\ EffectIs(q, l, "start") => DistanceTo(l)' = TRUE
           /\ EffectIs(q, l, "keep") => DistanceTo(l)' \in {DistanceTo(l), TRUE}
<1>1. DistanceTo(l)' = Final(q, Distance(l), DistanceTo(l))
  <2> DEFINE v == l \in modem.distance
  <2>1. Final(api \o q, Distance(l), v) = Final(q, Distance(l), Final(api, Distance(l), v))
    BY FinalConcat DEF Types, RequestsOK
  <2> QED BY <2>1 DEF DistanceTo
<1>2. ASSUME EffectIs(q, l, "start") PROVE DistanceTo(l)' = TRUE
  <2>1. \A v : Final(q, Distance(l), v) = TRUE
    BY <1>2 DEF EffectIs
  <2> QED BY <1>1, <2>1, Zenon
<1>3. ASSUME EffectIs(q, l, "keep") PROVE DistanceTo(l)' \in {DistanceTo(l), TRUE}
  <2>1. \A v : Final(q, Distance(l), v) \in {v, TRUE}
    BY <1>3 DEF EffectIs
  <2> QED BY <1>1, <2>1, Zenon
<1> QED BY <1>1, <1>2, <1>3

\* A session that a change is about stays started, or is about to be erased.
LEMMA StaysTrue ==
    ASSUME Types, Patient, HandleMsg, NEW l \in Keys, Account(l), NEW q, Sq(q), api' = api \o q,
           Handled(l, q), DistanceTo(l) = TRUE, Under(l)["restarted"] # 0
    PROVE  DistanceTo(l)' = TRUE \/ Asking(q, l, "erase") > 0
<1>1. modem' = modem /\ queue # <<>> /\ MessageOK(Head(queue), calls)
  BY HandlerIs
<1>2. /\ EffectIs(q, l, "start") => DistanceTo(l)' = TRUE
      /\ EffectIs(q, l, "keep") => DistanceTo(l)' \in {DistanceTo(l), TRUE}
  BY <1>1, DistanceHandled
<1>3. CASE Removes(l, q)
  <2>1. In(l, distanceBased) = 0 \/ In(l, distanceBased) = 1
    BY InIs
  <2>2. CASE In(l, distanceBased) = 0
    BY <1>2, <1>3, <2>2 DEF Removes, RemoveRow
  <2>3. CASE In(l, distanceBased) = 1
    BY <1>3, <2>3 DEF Removes, RemoveRow
  <2> QED BY <2>1, <2>2, <2>3
<1>4. ASSUME NEW a, NEW b, NEW e, Steps(l, q, a, b, e) PROVE DistanceTo(l)' = TRUE
  <2>1. e \in {"start", "keep"} \/ (e = "any" /\ a \in {"update", "stop"})
    BY <1>4, RowEffect DEF Steps
  <2>2. EffectIs(q, l, e)
    BY <1>4 DEF Steps
  <2>3. a \notin {"update", "stop"}
    <3> SUFFICES ASSUME a \in {"update", "stop"} PROVE FALSE
      OBVIOUS
    <3>1. Under(l)[a] >= 1
      <4>1. a \in {"none", Kind(Head(queue), l)}
        BY <1>4 DEF Steps
      <4>2. a = "none" \/ (a \in Kinds /\ Under(l)[a] >= 1)
        BY <1>1, <4>1, KindUnder
      <4> QED BY <4>2
    <3> QED BY <3>1, Busy
  <2> QED BY <1>2, <2>1, <2>2, <2>3
<1> QED BY <1>3, <1>4 DEF Handled

\* One of which a change is asked is started.
LEMMA NewRestart ==
    ASSUME Types, HandleMsg, NEW l \in Keys, NEW q, Sq(q), api' = api \o q, Handled(l, q)
    PROVE  Asking(q, l, "restarted") = 0 \/ DistanceTo(l)' = TRUE
<1>1. modem' = modem
  BY HandlerIs
<1>2. EffectIs(q, l, "start") => DistanceTo(l)' = TRUE
  BY <1>1, DistanceHandled
<1>3. CASE Removes(l, q)
  BY <1>3, KindsIs DEF Removes, RemoveRow
<1>4. ASSUME NEW a, NEW b, NEW e, Steps(l, q, a, b, e)
      PROVE  Asking(q, l, "restarted") = 0 \/ DistanceTo(l)' = TRUE
  <2>1. b = "restarted" => e = "start"
    BY <1>4, RowEffect DEF Steps
  <2>2. EffectIs(q, l, e) /\ Tagged(q, l, b)
    BY <1>4 DEF Steps
  <2>3. b # "restarted" => Asking(q, l, "restarted") = 0
    BY <2>2, KindsIs DEF Tagged, Asking, One
  <2> QED BY <1>2, <2>1, <2>2, <2>3
<1> QED BY <1>3, <1>4 DEF Handled

\* Requests that stop no session, one of which starts it, leave it started.
LEMMA NoStopsTrue ==
    ASSUME NEW q, Sq(q), NoStops(q), NEW l, NEW i \in DOMAIN q, q[i].do = "startDistance",
           q[i].key = l, NEW v
    PROVE  Final(q, Distance(l), v) = TRUE
<1> DEFINE x == Distance(l)
<1>1. \A j \in DOMAIN q : View(q[j], x) = {} \/ View(q[j], x) = {TRUE}
  <2> TAKE j \in DOMAIN q
  <2>1. q[j].do # "stopDistance"
    BY DEF NoStops, Range
  <2>2. x[1] = "distance" /\ x[2] = l
    BY DEF Distance
  <2>3. View(q[j], x) = Only(q[j].do = "startDistance" /\ q[j].key = l, TRUE)
                        \cup Only(q[j].do = "stopDistance" /\ q[j].key = l, FALSE)
    BY <2>2 DEF View
  <2> QED BY <2>1, <2>3 DEF Only
<1>2. View(q[i], x) # {}
  <2>1. x[1] = "distance" /\ x[2] = l
    BY DEF Distance
  <2>2. View(q[i], x) = Only(q[i].do = "startDistance" /\ q[i].key = l, TRUE)
                        \cup Only(q[i].do = "stopDistance" /\ q[i].key = l, FALSE)
    BY <2>1 DEF View
  <2> QED BY <2>2 DEF Only
<1> HIDE DEF x
<1>3. Setting(q, x) # {}
  BY <1>2 DEF Setting
<1>4. PICK j \in DOMAIN q : Lasts(q, x, j)
  BY <1>3, FinalLast
<1>5. Final(q, x, v) = CHOOSE w : w \in View(q[j], x)
  BY <1>4, FinalAt
<1>6. View(q[j], x) = {TRUE}
  BY <1>1, <1>4 DEF Lasts
<1>7. (CHOOSE w : w \in {TRUE}) = TRUE
  OBVIOUS
<1> QED BY <1>5, <1>6, <1>7, Zenon DEF x

\* Once every session is started again, those that follow a distance are started.
LEMMA RestartsTrue ==
    ASSUME NEW g, NEW T, NEW D, NEW q, NEW a, Restarts(g, T, D, q, a), Sq(q), Sq(g.requests),
           NoStops(g.requests), NEW l \in DOMAIN D, NEW v
    PROVE  Final(g.requests, Distance(l), v) = TRUE
<1>1. PICK p, s : Refix(q, p, T) /\ Starts(s, D) /\ g.requests = p \o s
  BY DEF Restarts, Makes
<1>2. PICK j \in DOMAIN s : s[j] = startDistance(l, D[l], NoThen)
  BY <1>1 DEF Starts
<1>3. Sq(p) /\ Sq(s)
  <2>1. \A r : p = Append(q, r) => Sq(p)
    BY SqAppend
  <2> QED BY <1>1, <2>1 DEF Refix, Starts
<1>4. /\ Len(p) \in Nat /\ DOMAIN s = 1..Len(s) /\ Len(s) \in Nat
      /\ DOMAIN (p \o s) = 1..(Len(p) + Len(s)) /\ (p \o s)[Len(p) + j] = s[j]
  <2>1. Len(p) \in Nat /\ DOMAIN s = 1..Len(s) /\ Len(s) \in Nat
    BY <1>3, SqOf
  <2>2. DOMAIN (p \o s) = 1..(Len(p) + Len(s)) /\ \A k \in 1..Len(s) : (p \o s)[Len(p) + k] = s[k]
    BY <1>3, SqConcat
  <2> QED BY <1>2, <2>1, <2>2
<1>5. Len(p) + j \in DOMAIN g.requests /\ g.requests[Len(p) + j] = s[j]
  BY <1>1, <1>2, <1>4
<1>6. s[j].do = "startDistance" /\ s[j].key = l
  BY <1>2, DistanceThen
<1> DEFINE i == Len(p) + j
           r == g.requests
<1>7. i \in DOMAIN r /\ r[i].do = "startDistance" /\ r[i].key = l /\ Sq(r) /\ NoStops(r)
  BY <1>5, <1>6
<1> HIDE DEF i, r
<1>8. Final(r, Distance(l), v) = TRUE
  BY <1>7, NoStopsTrue
<1> QED BY <1>8 DEF r

\* Requests whose response is the start of a session again start that session.
Links(r) == r.then.cont = "restarted" => r.do = "startDistance" /\ r.key = r.then.key
LinkedIn(q) == \A j \in DOMAIN q : Links(q[j])

\* Sequences of them.
LEMMA LinkedMore ==
    /\ LinkedIn(<<>>)
    /\ \A r : Links(r) => LinkedIn(<<r>>)
    /\ \A q, s : Sq(q) /\ Sq(s) /\ LinkedIn(q) /\ LinkedIn(s) => LinkedIn(q \o s)
<1>1. LinkedIn(<<>>)
  BY SqEmpty DEF LinkedIn
<1>2. ASSUME NEW r, Links(r) PROVE LinkedIn(<<r>>)
  <2>1. DOMAIN <<r>> = {1} /\ <<r>>[1] = r
    OBVIOUS
  <2> QED BY <1>2, <2>1 DEF LinkedIn
<1>3. ASSUME NEW q, NEW s, Sq(q), Sq(s), LinkedIn(q), LinkedIn(s) PROVE LinkedIn(q \o s)
  <2>1. /\ Len(q) \in Nat /\ Len(s) \in Nat /\ DOMAIN q = 1..Len(q) /\ DOMAIN s = 1..Len(s)
        /\ DOMAIN (q \o s) = 1..(Len(q) + Len(s))
        /\ \A j \in 1..Len(q) : (q \o s)[j] = q[j]
        /\ \A j \in 1..Len(s) : (q \o s)[Len(q) + j] = s[j]
    BY <1>3, SqConcat, SqOf
  <2> SUFFICES ASSUME NEW j \in 1..(Len(q) + Len(s)) PROVE Links((q \o s)[j])
    BY <2>1 DEF LinkedIn
  <2>2. CASE j \in 1..Len(q)
    BY <1>3, <2>1, <2>2 DEF LinkedIn
  <2>3. CASE j \notin 1..Len(q)
    <3>1. j - Len(q) \in 1..Len(s) /\ Len(q) + (j - Len(q)) = j
      BY <2>1, <2>3
    <3>2. (q \o s)[j] = s[j - Len(q)]
      BY <2>1, <3>1
    <3> QED BY <1>3, <2>1, <3>1, <3>2 DEF LinkedIn
  <2> QED BY <2>2, <2>3
<1> QED BY <1>1, <1>2, <1>3

\* What does not continue so.
LEMMA LinksIs ==
    /\ \A r : r.then = NoThen => Links(r)
    /\ \A r : r.then.cont # "restarted" => Links(r)
    /\ \A key, o, cont : Links(startDistance(key, o, Then(cont, key, o)))
    /\ \A key, o : LinkedIn(<<startDistance(key, o, Started(key))>>)
    /\ \A key, o, cont : cont # "restarted" => LinkedIn(<<stopDistance(key, Then(cont, key, o))>>)
<1>1. ASSUME NEW r, r.then = NoThen PROVE Links(r)
  BY <1>1 DEF Links, NoThen
<1>2. ASSUME NEW r, r.then.cont # "restarted" PROVE Links(r)
  BY <1>2 DEF Links
<1>3. ASSUME NEW key, NEW o, NEW cont PROVE Links(startDistance(key, o, Then(cont, key, o)))
  <2> DEFINE t == Then(cont, key, o)
             r == startDistance(key, o, t)
  <2>1. r.do = "startDistance" /\ r.key = key /\ r.then = t
    BY DistanceThen
  <2>2. t.key = key
    BY ThenIs
  <2> HIDE DEF r, t
  <2>3. Links(r)
    BY <2>1, <2>2 DEF Links
  <2> QED BY <2>3 DEF r, t
<1>4. ASSUME NEW key, NEW o PROVE LinkedIn(<<startDistance(key, o, Started(key))>>)
  <2> DEFINE r == startDistance(key, o, Started(key))
  <2>1. r.then = Started(key) /\ Started(key).cont = "started"
    BY DistanceThen, ThenIs DEF Started
  <2> HIDE DEF r
  <2>2. Links(r)
    BY <1>2, <2>1
  <2>3. LinkedIn(<<r>>)
    BY <2>2, LinkedMore
  <2> QED BY <2>3 DEF r
<1>5. ASSUME NEW key, NEW o, NEW cont, cont # "restarted"
      PROVE  LinkedIn(<<stopDistance(key, Then(cont, key, o))>>)
  <2> DEFINE r == stopDistance(key, Then(cont, key, o))
  <2>1. r.then = Then(cont, key, o) /\ Then(cont, key, o).cont = cont
    BY DistanceThen, ThenIs
  <2> HIDE DEF r
  <2>2. Links(r)
    BY <1>2, <1>5, <2>1
  <2>3. LinkedIn(<<r>>)
    BY <2>2, LinkedMore
  <2> QED BY <2>3 DEF r
<1> QED BY <1>1, <1>2, <1>3, <1>4, <1>5

\* A time-based session.
LEMMA StepLinked ==
    ASSUME Types, NEW g, NEW key, NEW conts, NEW T2, TimeStep(Handling, g, key, conts, T2),
           "restarted" \notin conts
    PROVE  LinkedIn(g.requests) /\ Sq(g.requests)
<1>1. Handling.requests = <<>>
  BY HandlingIs DEF Types, SessionTypes
<1>2. CASE g.requests = <<>>
  BY <1>2, LinkedMore, SqEmpty
<1>3. CASE g.requests # <<>>
  <2>1. PICK r : g.requests = Append(<<>>, r) /\ r.then.cont \in conts
    BY <1>1, <1>3 DEF TimeStep
  <2>2. g.requests = <<r>>
    BY <2>1, Appends
  <2>3. Links(r)
    BY <2>1, LinksIs
  <2>4. Sq(<<r>>)
    BY CountOne
  <2> QED BY <2>2, <2>3, <2>4, LinkedMore
<1> QED BY <1>2, <1>3

\* A command of tracking.
LEMMA TrackLinked ==
    ASSUME Types, NEW g, NEW m, TrackMakes(g, m)
    PROVE  LinkedIn(g.requests)
<1>1. ASSUME NEW h, NEW key, NEW T2, NEW conts \in {{"started"}, {"updated"}, {"started", "answer"}},
             TimeStep(Handling, h, key, conts, T2)
      PROVE  LinkedIn(h.requests) /\ Sq(h.requests)
  BY <1>1, StepLinked
<1>2. ASSUME NEW T, NEW D, NEW q, NEW a, Makes(g, T, D, q, a), LinkedIn(q)
      PROVE  LinkedIn(g.requests)
  BY <1>2 DEF Makes
<1>3. CASE m.op = "start" /\ StartMakes(g, m.key, m.options)
  BY <1>1, <1>2, <1>3, LinkedMore, LinksIs DEF StartMakes
<1>4. CASE m.op = "stop" /\ StopMakes(g, m.key)
  BY <1>1, <1>2, <1>4, LinkedMore, LinksIs DEF StopMakes
<1>5. CASE m.op = "update" /\ UpdateMakes(g, m.key, m.options)
  <2> DEFINE key == m.key
             o == Normal(m.options)
             r == startDistance(key, o, NoThen)
  <2>1. ASSUME NEW p, TimeStep(Handling, p, key, {"started", "answer"}, Drop(timeBased, key)),
               Makes(g, Drop(timeBased, key), With(distanceBased, key, o), Append(p.requests, r),
                     p.answers)
        PROVE  LinkedIn(g.requests)
    <3>1. LinkedIn(p.requests) /\ Sq(p.requests)
      BY <1>1, <2>1
    <3>2. g.requests = Append(p.requests, r)
      BY <2>1 DEF Makes
    <3>3. r.then = NoThen
      BY DistanceThen
    <3> HIDE DEF r
    <3>4. g.requests = p.requests \o <<r>> /\ Sq(<<r>>)
      BY <3>1, <3>2, AppendIs
    <3>5. LinkedIn(<<r>>)
      BY <3>3, LinksIs, LinkedMore
    <3> QED BY <3>1, <3>4, <3>5, LinkedMore
  <2> QED BY <1>1, <1>2, <1>5, <2>1, LinkedMore, LinksIs DEF UpdateMakes
<1> QED BY <1>3, <1>4, <1>5 DEF TrackMakes

\* A response.
LEMMA RespondLinked ==
    ASSUME Types, NEW g, NEW then, NEW ok \in BOOLEAN, ContinueMakes(g, then, ok)
    PROVE  LinkedIn(g.requests)
<1>1. CASE TimeStep(Handling, g, then.key, {"started"}, With(timeBased, then.key, then.options))
  BY <1>1, StepLinked
<1>2. CASE g.requests = <<startDistance(then.key, then.options,
                                        Then("restarted", then.key, then.options))>>
  <2> DEFINE r == startDistance(then.key, then.options, Then("restarted", then.key, then.options))
  <2>1. Links(r)
    BY LinksIs
  <2> HIDE DEF r
  <2>2. LinkedIn(<<r>>)
    BY <2>1, LinkedMore
  <2> QED BY <1>2, <2>2 DEF r
<1>3. CASE g.requests = <<>>
  BY <1>3, LinkedMore
<1> QED BY <1>1, <1>2, <1>3 DEF ContinueMakes, Makes, Kept, Erased

\* A client's removal.
LEMMA RemoveLinked ==
    ASSUME Types, NEW g, NEW c, RemoveMakes(g, c)
    PROVE  LinkedIn(g.requests)
<1>1. PICK p, s : g.requests = p \o s /\ RequestsOK(p) /\ StopsTime(p, c) /\ Erases(s, c)
  BY DEF RemoveMakes, Makes
<1>2. Sq(p) /\ LinkedIn(p)
  <2>1. ASSUME NEW j \in DOMAIN p PROVE Links(p[j])
    <3>1. p[j].then.cont # "restarted"
      BY <1>1 DEF StopsTime
    <3> QED BY <3>1, LinksIs
  <2> QED BY <1>1, <2>1 DEF LinkedIn, RequestsOK
<1>3. Sq(s) /\ LinkedIn(s)
  <2>1. ASSUME NEW j \in DOMAIN s PROVE Links(s[j])
    <3>1. PICK key : s[j] = stopDistance(key, Then("erase", key, NoOptions))
      BY <1>1 DEF Erases
    <3>2. s[j].then.cont = "erase"
      BY <3>1, DistanceThen, ThenIs
    <3> QED BY <3>2, LinksIs
  <2> QED BY <1>1, <2>1 DEF LinkedIn, Erases
<1> QED BY <1>1, <1>2, <1>3, LinkedMore

\* The links, as a message is handled.
LEMMA HandledLinked ==
    ASSUME Types, Linked, HandleMsg
    PROVE  Linked'
<1> DEFINE m == Head(queue)
<1>1. Handler(m)
  BY HandlerIs
<1> HIDE DEF m
<1>2. Sq(api) /\ LinkedIn(api)
  BY DEF Types, RequestsOK, Linked, LinkedIn, Links
<1>3. ASSUME NEW q, Sq(q), LinkedIn(q), api' = api \o q PROVE Linked'
  <2>1. LinkedIn(api \o q)
    BY <1>2, <1>3, LinkedMore
  <2> QED BY <1>3, <2>1 DEF Linked, LinkedIn, Links
<1>4. CASE UNCHANGED api
  BY <1>4 DEF Linked
<1>5. ASSUME NEW g, HandlingOK(g), Commit(g), LinkedIn(g.requests) PROVE Linked'
  BY <1>3, <1>5 DEF Commit, HandlingOK, RequestsOK
<1>6. ASSUME NEW q, Sq(q), api' = api \o q, \A j \in DOMAIN q : q[j].then = NoThen PROVE Linked'
  <2>1. LinkedIn(q)
    BY <1>6, LinksIs DEF LinkedIn
  <2> QED BY <1>3, <1>6, <2>1
<1>7. CASE Waiting(m)
  BY <1>4, <1>7 DEF Waiting, Pend
<1>8. CASE TrackHandled(m)
  BY <1>5, <1>8, TrackLinked DEF TrackHandled
<1>9. CASE RemoveHandled(m)
  BY <1>5, <1>9, RemoveLinked DEF RemoveHandled
<1>10. CASE ResponseHandled(m)
  BY <1>5, <1>10, RespondLinked DEF ResponseHandled
<1>11. CASE AddClient(m) \/ Enable(m) \/ Disable(m)
  BY <1>6, <1>11, PassedStarts
<1>12. CASE ConfigHandled(m) \/ EngineUpHandled(m)
  <2>1. PICK g : /\ HandlingOK(g) /\ Commit(g)
                 /\ \/ ConfigMakes(g, m)
                    \/ Restarts(g, timeBased, distanceBased, <<setConfig, Lists>>, <<>>)
    BY <1>12 DEF ConfigHandled, EngineUpHandled
  <2>2. Sq(g.requests) /\ \A j \in DOMAIN g.requests : g.requests[j].then = NoThen
    BY <2>1, ConfigSilent
  <2>3. api' = api \o g.requests
    BY <2>1 DEF Commit
  <2> QED BY <1>6, <2>2, <2>3
<1> QED BY <1>1, <1>7, <1>8, <1>9, <1>10, <1>11, <1>12 DEF Handler

\* The links, at each step.
LEMMA LinkedNext == ASSUME Types, Linked, [Next]_vars PROVE Linked'
<1>1. CASE HandleMsg
  BY <1>1, HandledLinked
<1>2. CASE LocApiStep
  <2>1. api # <<>> /\ api' = Tail(api)
    BY <1>2, LocApiIs
  <2>2. /\ Len(api) \in Nat /\ DOMAIN api = 1..Len(api) /\ DOMAIN Tail(api) = 1..(Len(api) - 1)
        /\ \A j \in 1..(Len(api) - 1) : Tail(api)[j] = api[j + 1]
    BY <2>1, SqTail, SqOf DEF Types, RequestsOK
  <2>3. ASSUME NEW j \in DOMAIN api' PROVE j + 1 \in DOMAIN api /\ api'[j] = api[j + 1]
    BY <2>1, <2>2, <2>3
  <2> QED BY <2>3 DEF Linked
<1>3. CASE UNCHANGED api
  BY <1>3 DEF Linked
<1>4. CASE Command
  <2>1. PICK op, m : Post(op, m)
    BY <1>4, CommandIs DEF Commanded
  <2> QED BY <1>3, <2>1 DEF Post
<1> QED BY <1>1, <1>2, <1>3, <1>4 DEF Next, ModemDies, ModemRises, vars

\* Requests to start a session again, each followed by one to erase it, with more requests.
LEMMA FollowsMore ==
    ASSUME NEW q, Sq(q), NEW r, Sq(r), NEW l, Asking(r, l, "restarted") = 0,
           Follows(RTags(q), l, "restarted", "erase") \/ Asking(r, l, "erase") # 0
    PROVE  Follows(RTags(q \o r), l, "restarted", "erase")
<1> DEFINE t == RTags(q)
           u == RTags(r)
           w == RTags(q \o r)
<1>1. /\ Len(q) \in Nat /\ Len(r) \in Nat /\ DOMAIN t = 1..Len(q) /\ DOMAIN u = 1..Len(r)
      /\ DOMAIN w = 1..(Len(q) + Len(r))
  BY SqOf, TagsAre, SqConcat
<1>2. /\ \A j \in 1..Len(q) : w[j] = t[j]
      /\ \A j \in 1..Len(r) : w[Len(q) + j] = u[j]
  <2>1. w = t \o u /\ Sq(t) /\ Sq(u) /\ Len(t) = Len(q) /\ Len(u) = Len(r)
    BY TagsConcat, TagsAre
  <2> HIDE DEF t, u, w
  <2>2. /\ \A j \in 1..Len(t) : (t \o u)[j] = t[j]
        /\ \A j \in 1..Len(u) : (t \o u)[Len(t) + j] = u[j]
    BY <2>1, SqConcat
  <2> QED BY <2>1, <2>2
<1>0. \A S : N(u, S) = 0 <=> \A j \in 1..Len(r) : u[j] \notin S
  <2>1. Sq(u)
    BY TagsAre
  <2> HIDE DEF u
  <2>2. \A S : N(u, S) = 0 <=> \A j \in DOMAIN u : u[j] \notin S
    BY <2>1, CountIs
  <2> QED BY <1>1, <2>2
<1>3. \A j \in 1..Len(r) : u[j] \notin {l} \X {"restarted"}
  BY <1>0 DEF Asking
<1>4. Follows(t, l, "restarted", "erase") \/ \E j \in 1..Len(r) : u[j] \in {l} \X {"erase"}
  BY <1>0 DEF Asking
<1> HIDE DEF t, u, w
<1>5. SUFFICES ASSUME NEW i \in 1..(Len(q) + Len(r)), w[i] \in {l} \X {"restarted"}
               PROVE  \E j \in 1..(Len(q) + Len(r)) : i < j /\ w[j] \in {l} \X {"erase"}
  BY <1>1 DEF Follows, w
<1>6. i \in 1..Len(q)
  <2> SUFFICES ASSUME i \notin 1..Len(q) PROVE FALSE
    OBVIOUS
  <2>1. i - Len(q) \in 1..Len(r) /\ Len(q) + (i - Len(q)) = i
    BY <1>1, <1>5
  <2>2. w[i] = u[i - Len(q)]
    BY <1>2, <2>1
  <2> QED BY <1>3, <1>5, <2>1, <2>2
<1>7. CASE Follows(t, l, "restarted", "erase")
  <2>1. PICK j \in 1..Len(q) : i < j /\ t[j] \in {l} \X {"erase"}
    <3>1. t[i] \in {l} \X {"restarted"}
      BY <1>2, <1>5, <1>6
    <3> QED BY <1>1, <1>6, <1>7, <3>1 DEF Follows
  <2>2. w[j] = t[j] /\ j \in 1..(Len(q) + Len(r))
    BY <1>1, <1>2
  <2> QED BY <2>1, <2>2
<1>8. CASE \E j \in 1..Len(r) : u[j] \in {l} \X {"erase"}
  <2>1. PICK j \in 1..Len(r) : u[j] \in {l} \X {"erase"}
    BY <1>8
  <2>2. w[Len(q) + j] = u[j] /\ Len(q) + j \in 1..(Len(q) + Len(r)) /\ i < Len(q) + j
    BY <1>1, <1>2, <1>6
  <2> QED BY <2>1, <2>2
<1> QED BY <1>4, <1>7, <1>8

\* And with the first of them performed.
LEMMA FollowsTail ==
    ASSUME NEW q, Sq(q), q # <<>>, NEW l, Follows(RTags(q), l, "restarted", "erase")
    PROVE  /\ Follows(RTags(Tail(q)), l, "restarted", "erase")
           /\ RTag(Head(q)) \in {l} \X {"restarted"} => N(RTags(Tail(q)), {l} \X {"erase"}) # 0
<1> DEFINE t == RTags(q)
           u == RTags(Tail(q))
<1>1. /\ Len(q) \in Nat \ {0} /\ DOMAIN t = 1..Len(q) /\ DOMAIN u = 1..(Len(q) - 1)
      /\ \A j \in 1..(Len(q) - 1) : u[j] = t[j + 1]
      /\ t[1] = RTag(Head(q)) /\ Sq(Tail(q)) /\ DOMAIN Tail(q) = 1..(Len(q) - 1)
      /\ \A j \in 1..(Len(q) - 1) : u[j] = RTag(Tail(q)[j])
  <2>1. /\ Len(q) \in Nat \ {0} /\ Sq(Tail(q)) /\ DOMAIN Tail(q) = 1..(Len(q) - 1)
        /\ \A j \in 1..(Len(q) - 1) : Tail(q)[j] = q[j + 1]
        /\ Head(q) = q[1] /\ DOMAIN q = 1..Len(q)
    BY SqTail, SqOf
  <2>2. DOMAIN t = DOMAIN q /\ \A j \in DOMAIN q : t[j] = RTag(q[j])
    BY TagsAre
  <2>3. DOMAIN u = DOMAIN Tail(q) /\ \A j \in DOMAIN Tail(q) : u[j] = RTag(Tail(q)[j])
    BY <2>1, TagsAre
  <2> HIDE DEF t, u
  <2> QED BY <2>1, <2>2, <2>3
<1>2. \A i \in 1..Len(q) : t[i] \in {l} \X {"restarted"}
        => \E j \in 1..Len(q) : i < j /\ t[j] \in {l} \X {"erase"}
  BY <1>1 DEF Follows
<1> HIDE DEF t, u
<1>3. ASSUME NEW i \in 1..Len(q), t[i] \in {l} \X {"restarted"}
      PROVE  \E j \in 1..(Len(q) - 1) : i < j + 1 /\ u[j] \in {l} \X {"erase"}
  <2>1. PICK j \in 1..Len(q) : i < j /\ t[j] \in {l} \X {"erase"}
    BY <1>2, <1>3
  <2>2. j - 1 \in 1..(Len(q) - 1) /\ (j - 1) + 1 = j
    BY <1>1, <2>1
  <2>3. u[j - 1] = t[j]
    BY <1>1, <2>2
  <2> QED BY <2>1, <2>2, <2>3
<1>4. Follows(u, l, "restarted", "erase")
  <2> SUFFICES ASSUME NEW i \in 1..(Len(q) - 1), u[i] \in {l} \X {"restarted"}
               PROVE  \E j \in 1..(Len(q) - 1) : i < j /\ u[j] \in {l} \X {"erase"}
    BY <1>1 DEF Follows
  <2>1. i + 1 \in 1..Len(q) /\ t[i + 1] = u[i]
    BY <1>1
  <2>2. PICK j \in 1..(Len(q) - 1) : i + 1 < j + 1 /\ u[j] \in {l} \X {"erase"}
    BY <1>3, <2>1
  <2> QED BY <1>1, <2>2
<1>5. ASSUME RTag(Head(q)) \in {l} \X {"restarted"} PROVE N(RTags(Tail(q)), {l} \X {"erase"}) # 0
  <2>1. 1 \in 1..Len(q) /\ t[1] \in {l} \X {"restarted"}
    BY <1>1, <1>5
  <2>2. PICK j \in 1..(Len(q) - 1) : u[j] \in {l} \X {"erase"}
    BY <1>3, <2>1
  <2>3. j \in DOMAIN Tail(q) /\ RTag(Tail(q)[j]) \in {l} \X {"erase"}
    BY <1>1, <2>2
  <2> QED BY <1>1, <2>3, TagsCount
<1> QED BY <1>4, <1>5 DEF u

\* What is asked, with more asked.
LEMMA MoreAsked ==
    ASSUME Types, NEW q, Sq(q), api' = api \o q, NEW l, NEW k
    PROVE  /\ N(RTags(api'), {l} \X {k}) = N(RTags(api), {l} \X {k}) + Asking(q, l, k)
           /\ N(RTags(api), {l} \X {k}) \in Nat /\ Asking(q, l, k) \in Nat
<1>1. Sq(api)
  BY DEF Types, RequestsOK
<1>2. N(RTags(api \o q), {l} \X {k}) = N(RTags(api), {l} \X {k}) + N(RTags(q), {l} \X {k})
  BY <1>1, TagsCount
<1> QED BY <1>1, <1>2, TagsCount DEF Asking

\* What is asked is under way.
LEMMA ApiUnder ==
    ASSUME Types, NEW l \in Keys, NEW k \in Kinds
    PROVE  /\ Under(l)[k] >= N(RTags(api), {l} \X {k})
           /\ N(RTags(api), {l} \X {k}) \in Nat /\ Under(l)[k] \in Nat
<1> DEFINE S == {l} \X {k}
<1>1. Sq(queue) /\ Sq(mPendingMsgs) /\ Sq(api)
  BY DEF Types, QueueTypes, PendingTypes, RequestsOK
<1>2. N(MTags(queue), S) \in Nat /\ N(MTags(mPendingMsgs), S) \in Nat /\ N(RTags(api), S) \in Nat
  BY <1>1, TagsCount
<1>3. Under(l)[k] = N(MTags(queue), S) + N(MTags(mPendingMsgs), S) + N(RTags(api), S)
  BY DEF Under, About, UnderWay, Way
<1> QED BY <1>2, <1>3

\* The restarts that are asked, as a message is handled.
LEMMA HandledRestarts ==
    ASSUME Types, Patient, Accounts, RestartsInApi, HandleMsg
    PROVE  RestartsInApi'
<1>1. PICK q : Sq(q) /\ api' = api \o q /\ \A l \in Keys : Handled(l, q)
  BY AllHandled
<1>2. failed' = failed /\ modem' = modem
  BY HandledSame
<1>3. Sq(api)
  BY DEF Types, RequestsOK
<1>4. ASSUME ~failed, NEW l \in Keys
      PROVE  \/ N(RTags(api'), {l} \X {"restarted"}) = 0
             \/ DistanceTo(l)' = TRUE
             \/ Follows(RTags(api'), l, "restarted", "erase")
  <2>1. \/ N(RTags(api), {l} \X {"restarted"}) = 0
        \/ DistanceTo(l) = TRUE
        \/ Follows(RTags(api), l, "restarted", "erase")
    BY <1>4 DEF RestartsInApi
  <2>2. /\ N(RTags(api'), {l} \X {"restarted"})
             = N(RTags(api), {l} \X {"restarted"}) + Asking(q, l, "restarted")
        /\ N(RTags(api), {l} \X {"restarted"}) \in Nat /\ Asking(q, l, "restarted") \in Nat
        /\ Asking(q, l, "erase") \in Nat
    BY <1>1, MoreAsked
  <2>3. Asking(q, l, "restarted") = 0 \/ DistanceTo(l)' = TRUE
    BY <1>1, NewRestart
  <2>4. ASSUME Asking(q, l, "restarted") = 0, N(RTags(api), {l} \X {"restarted"}) # 0,
               DistanceTo(l) = TRUE
        PROVE  DistanceTo(l)' = TRUE \/ Asking(q, l, "erase") # 0
    <3>1. Under(l)["restarted"] # 0
      <4>1. "restarted" \in Kinds
        BY KindsIs
      <4>2. /\ Under(l)["restarted"] >= N(RTags(api), {l} \X {"restarted"})
            /\ N(RTags(api), {l} \X {"restarted"}) \in Nat /\ Under(l)["restarted"] \in Nat
        BY <4>1, ApiUnder
      <4> QED BY <2>4, <4>2
    <3>2. Account(l) /\ Handled(l, q)
      BY <1>1 DEF Accounts
    <3>3. DistanceTo(l)' = TRUE \/ Asking(q, l, "erase") > 0
      BY <1>1, <2>4, <3>1, <3>2, StaysTrue
    <3> QED BY <2>2, <3>3
  <2>5. Asking(q, l, "restarted") = 0 /\ (Follows(RTags(api), l, "restarted", "erase")
                                          \/ Asking(q, l, "erase") # 0)
        => Follows(RTags(api'), l, "restarted", "erase")
    BY <1>1, <1>3, FollowsMore
  <2>6. CASE Asking(q, l, "restarted") # 0
    BY <2>3, <2>6
  <2>7. CASE Asking(q, l, "restarted") = 0 /\ N(RTags(api), {l} \X {"restarted"}) = 0
    BY <2>2, <2>7
  <2>8. CASE Asking(q, l, "restarted") = 0 /\ N(RTags(api), {l} \X {"restarted"}) # 0
    BY <2>1, <2>4, <2>5, <2>8
  <2> QED BY <2>6, <2>7, <2>8
<1>5. ASSUME ~failed', NEW l \in Keys
      PROVE  \/ N(RTags(api'), {l} \X {"restarted"}) = 0
             \/ DistanceTo(l)' = TRUE
             \/ Follows(RTags(api'), l, "restarted", "erase")
  BY <1>2, <1>4, <1>5
<1> QED BY <1>5 DEF RestartsInApi

\* A request to start a session again that is pending decides of its distance.
LEMMA RestartDecides ==
    ASSUME Types, Linked, NEW l \in Keys, N(RTags(api), {l} \X {"restarted"}) # 0, NEW v, NEW w
    PROVE  Final(api, Distance(l), v) = Final(api, Distance(l), w)
<1>1. Sq(api)
  BY DEF Types, RequestsOK
<1>2. PICK j \in DOMAIN api : RTag(api[j]) \in {l} \X {"restarted"}
  BY <1>1, TagsCount
<1> DEFINE r == api[j]
<1>3. r.then.key = l /\ r.then.cont = "restarted"
  <2>1. "restarted" \in Kinds
    BY KindsIs
  <2> HIDE DEF r
  <2>2. RTag(r) \in {l} \X {"restarted"}
    BY <1>2 DEF r
  <2> QED BY <2>1, <2>2, TagIs
<1>4. r.do = "startDistance" /\ r.key = l
  BY <1>3 DEF Linked
<1> HIDE DEF r
<1>5. View(r, Distance(l)) # {}
  <2>1. Distance(l)[1] = "distance" /\ Distance(l)[2] = l
    BY DEF Distance
  <2>2. View(r, Distance(l)) = Only(r.do = "startDistance" /\ r.key = l, TRUE)
                        \cup Only(r.do = "stopDistance" /\ r.key = l, FALSE)
    BY <2>1 DEF View
  <2> QED BY <1>4, <2>2 DEF Only
<1>6. Setting(api, Distance(l)) # {}
  BY <1>5 DEF Setting, r
<1> QED BY <1>6 DEF Final

\* The restarts that are asked, at each step.
LEMMA RestartsNext ==
    ASSUME Types, Patient, Accounts, Linked, RestartsInApi, [Next]_vars
    PROVE  RestartsInApi'
<1> DEFINE R(l) == {l} \X {"restarted"}
<1>1. Sq(api)
  BY DEF Types, RequestsOK
<1>2. ~failed => \A l \in Keys : \/ N(RTags(api), R(l)) = 0
                                 \/ DistanceTo(l) = TRUE
                                 \/ Follows(RTags(api), l, "restarted", "erase")
  BY DEF RestartsInApi
<1>3. ASSUME UNCHANGED <<api, modem, failed>> PROVE RestartsInApi'
  <2>1. \A l : DistanceTo(l)' = DistanceTo(l)
    BY <1>3 DEF DistanceTo
  <2> QED BY <1>2, <1>3, <2>1 DEF RestartsInApi
<1>4. CASE Command
  <2>1. PICK op, m : Post(op, m)
    BY <1>4, CommandIs DEF Commanded
  <2> QED BY <1>3, <2>1 DEF Post
<1>5. CASE HandleMsg
  BY <1>5, HandledRestarts
<1>6. CASE LocApiStep
  <2>1. /\ api # <<>> /\ api' = Tail(api) /\ \E ok \in BOOLEAN : failed' = (failed \/ ~ok)
        /\ ~failed' => \A l : DistanceTo(l)' = DistanceTo(l)
    BY <1>6, LocApiIs, LocApiFinal
  <2>2. ASSUME ~failed', NEW l \in Keys
        PROVE  \/ N(RTags(api'), R(l)) = 0
               \/ DistanceTo(l)' = TRUE
               \/ Follows(RTags(api'), l, "restarted", "erase")
    <3>1. ~failed
      BY <2>1, <2>2
    <3>2. \/ N(RTags(api), R(l)) = 0
          \/ DistanceTo(l) = TRUE
          \/ Follows(RTags(api), l, "restarted", "erase")
      BY <1>2, <3>1
    <3>3. N(RTags(api), R(l)) = 0 => N(RTags(api'), R(l)) = 0
      <4>1. /\ N(RTags(Tail(api)), R(l)) = N(RTags(api), R(l)) - Count(RTag(Head(api)), R(l))
            /\ N(RTags(api), R(l)) \in Nat
        BY <1>1, <2>1, TagsCount
      <4>2. N(RTags(Tail(api)), R(l)) \in Nat
        BY <1>1, <2>1, SqTail, TagsCount
      <4>3. Count(RTag(Head(api)), R(l)) \in {0, 1}
        BY DEF Count
      <4> QED BY <2>1, <4>1, <4>2, <4>3
    <3>4. Follows(RTags(api), l, "restarted", "erase") => Follows(RTags(api'), l, "restarted", "erase")
      BY <1>1, <2>1, FollowsTail
    <3>5. DistanceTo(l)' = DistanceTo(l)
      BY <2>1, <2>2
    <3> QED BY <3>2, <3>3, <3>4, <3>5
  <2> QED BY <2>2 DEF RestartsInApi
<1>7. CASE ModemDies
  <2>1. UNCHANGED <<api, failed>>
    BY <1>7 DEF ModemDies
  <2>2. ASSUME ~failed, NEW l \in Keys, N(RTags(api), R(l)) # 0
        PROVE  DistanceTo(l)' = DistanceTo(l)
    <3> DEFINE v == l \in modem.distance
               w == l \in modem'.distance
    <3>1. Final(api, Distance(l), v) = Final(api, Distance(l), w)
      BY <2>2, RestartDecides
    <3> QED BY <2>1, <3>1 DEF DistanceTo
  <2> QED BY <1>2, <2>1, <2>2 DEF RestartsInApi
<1>8. CASE ModemRises
  <2>1. /\ ~modem.up /\ modem' = [modem EXCEPT !.up = TRUE] /\ UNCHANGED api
        /\ failed' = (failed /\ (api # <<>> \/ queue # <<>>))
    BY <1>8 DEF ModemRises
  <2>2. modem'.distance = modem.distance
    BY <2>1 DEF Types, ModemTypes
  <2>3. \A l : DistanceTo(l)' = DistanceTo(l)
    BY <2>1, <2>2 DEF DistanceTo
  <2>4. ASSUME ~failed', NEW l \in Keys
        PROVE  \/ N(RTags(api'), R(l)) = 0
               \/ DistanceTo(l)' = TRUE
               \/ Follows(RTags(api'), l, "restarted", "erase")
    <3>1. CASE ~failed
      BY <1>2, <2>1, <2>3, <3>1
    <3>2. CASE failed
      <4>1. api = <<>>
        BY <2>1, <2>4, <3>2
      <4>2. N(RTags(<<>>), R(l)) = 0
        BY SqEmpty, TagsCount
      <4> QED BY <2>1, <4>1, <4>2
    <3> QED BY <3>1, <3>2
  <2> QED BY <2>4 DEF RestartsInApi
<1>9. CASE UNCHANGED vars
  BY <1>3, <1>9 DEF vars
<1> QED BY <1>4, <1>5, <1>6, <1>7, <1>8, <1>9 DEF Next

\* A session whose start again is answered, by the i-th message, is started, or will be, or is
\* to be erased.
Again(m, l) == m.op = "response" /\ m.then.cont = "restarted" /\ m.then.key = l
CoveredAt(l, i) ==
    \/ \E j \in DOMAIN queue : j > i /\ queue[j].op = "engineUp"
    \/ DistanceTo(l) = TRUE
    \/ \E j \in DOMAIN queue : j > i /\ MTag(queue[j]) \in {l} \X {"erase"}
    \/ N(RTags(api), {l} \X {"erase"}) # 0

\* That is what the invariant says.
LEMMA CoveredIs ==
    ASSUME Types
    PROVE  /\ RestartsInQueue => (~failed /\ modem.up => \A i \in DOMAIN queue, l \in Keys :
                                    Again(queue[i], l) => CoveredAt(l, i))
           /\ \A i \in DOMAIN queue, l \in Keys : Again(queue[i], l) => Under(l)["restarted"] # 0
<1>1. ASSUME RestartsInQueue, ~failed, modem.up, NEW i \in DOMAIN queue, NEW l \in Keys,
             Again(queue[i], l)
      PROVE  CoveredAt(l, i)
  <2>1. queue[i].op = "response" /\ queue[i].then.cont = "restarted" /\ queue[i].then.key = l
    BY <1>1 DEF Again
  <2>2. \/ \E j \in DOMAIN queue : j > i /\ queue[j].op = "engineUp"
        \/ DistanceTo(l) = TRUE
        \/ \E j \in DOMAIN queue : j > i /\ MTag(queue[j]) \in {l} \X {"erase"}
        \/ N(RTags(api), {l} \X {"erase"}) > 0
    BY <1>1, <2>1 DEF RestartsInQueue
  <2> QED BY <2>2 DEF CoveredAt
<1>2. ASSUME NEW i \in DOMAIN queue, NEW l \in Keys, Again(queue[i], l)
      PROVE  Under(l)["restarted"] # 0
  <2>1. MTag(queue[i]) \in {l} \X {"restarted"}
    <3>1. queue[i].op = "response" /\ queue[i].then.cont = "restarted" /\ queue[i].then.key = l
      BY <1>2 DEF Again
    <3> QED BY <3>1 DEF MTag, Commands
  <2>2. N(MTags(queue), {l} \X {"restarted"}) # 0 /\ N(MTags(queue), {l} \X {"restarted"}) \in Nat
    BY <2>1, TagsCount DEF Types, QueueTypes
  <2>3. "restarted" \in Kinds
    BY KindsIs
  <2>4. Under(l)["restarted"] >= N(MTags(queue), {l} \X {"restarted"}) /\ Under(l)["restarted"] \in Nat
    BY <2>3, QueueUnder, UnderIs
  <2> QED BY <2>2, <2>4
<1> QED BY <1>1, <1>2

\* It is what has to be shown of a step.
LEMMA CoveredNext ==
    ASSUME Types',
           ~failed' /\ modem'.up => \A i \in DOMAIN queue', l \in Keys :
                                      Again(queue'[i], l) => CoveredAt(l, i)'
    PROVE  RestartsInQueue'
<1> SUFFICES ASSUME ~failed', modem'.up, NEW i \in DOMAIN queue', queue'[i].op = "response",
                    queue'[i].then.cont = "restarted", NEW l, l = queue'[i].then.key
             PROVE  \/ \E j \in DOMAIN queue' : j > i /\ queue'[j].op = "engineUp"
                    \/ DistanceTo(l)' = TRUE
                    \/ \E j \in DOMAIN queue' : j > i /\ MTag(queue'[j]) \in {l} \X {"erase"}
                    \/ N(RTags(api'), {l} \X {"erase"}) > 0
  BY DEF RestartsInQueue
<1>1. l \in Keys
  <2>1. queue'[i] \in Range(queue')
    BY DEF Range
  <2>2. MessageOK(queue'[i], calls')
    BY <2>1 DEF Types, QueueTypes
  <2> QED BY <2>2 DEF MessageOK, ThenOK
<1>2. CoveredAt(l, i)'
  BY <1>1 DEF Again
<1>3. N(RTags(api'), {l} \X {"erase"}) \in Nat
  BY TagsCount DEF Types, RequestsOK
<1> QED BY <1>2, <1>3 DEF CoveredAt

\* The restarts that are answered, as a message is handled.
LEMMA HandledCovered ==
    ASSUME Types, Types', Patient, Accounts, RestartsInQueue, HandleMsg
    PROVE  RestartsInQueue'
<1>1. PICK q : Sq(q) /\ api' = api \o q /\ \A l \in Keys : Handled(l, q)
  BY AllHandled
<1>2. failed' = failed /\ modem' = modem
  BY HandledSame
<1>3. /\ queue # <<>> /\ queue' = Tail(queue) \o Resent(Head(queue))
  BY HandlerIs
<1>4. /\ Sq(Tail(queue)) /\ Sq(Resent(Head(queue)))
      /\ \A m \in Range(Resent(Head(queue))) : PendingOK(m)
  BY <1>3, HeadOK
<1> DEFINE t == Tail(queue)
           r == Resent(Head(queue))
           n == Len(queue) - 1
<1>5. /\ Len(queue) \in Nat \ {0} /\ DOMAIN queue = 1..Len(queue) /\ Len(t) = n
      /\ \A j \in 1..n : t[j] = queue[j + 1]
  BY <1>3, SqTail, SqOf DEF Types, QueueTypes
<1>6. n \in Nat /\ DOMAIN queue = 1..(n + 1)
  BY <1>5
<1> HIDE DEF n, t, r
<1>7. /\ Len(r) \in Nat /\ DOMAIN r = 1..Len(r)
      /\ DOMAIN queue' = 1..(n + Len(r))
      /\ \A j \in 1..n : queue'[j] = queue[j + 1]
      /\ \A j \in 1..Len(r) : queue'[n + j] = r[j]
  <2>1. queue' = t \o r /\ Sq(t) /\ Sq(r) /\ Len(t) = n
    BY <1>3, <1>4, <1>5 DEF t, r
  <2>2. /\ DOMAIN (t \o r) = 1..(Len(t) + Len(r))
        /\ \A j \in 1..Len(t) : (t \o r)[j] = t[j]
        /\ \A j \in 1..Len(r) : (t \o r)[Len(t) + j] = r[j]
    BY <2>1, SqConcat
  <2>3. Len(r) \in Nat /\ DOMAIN r = 1..Len(r)
    BY <2>1, SqOf
  <2> QED BY <1>5, <2>1, <2>2, <2>3
<1>8. ASSUME NEW i \in DOMAIN queue', NEW l \in Keys, Again(queue'[i], l)
      PROVE  i \in 1..n /\ queue'[i] = queue[i + 1]
  <2>1. i \in 1..n
    <3> SUFFICES ASSUME i \notin 1..n PROVE FALSE
      OBVIOUS
    <3>1. i - n \in 1..Len(r) /\ n + (i - n) = i
      BY <1>6, <1>7
    <3>2. queue'[i] = r[i - n]
      BY <1>7, <3>1
    <3>3. PendingOK(queue'[i])
      BY <1>4, <1>7, <3>1, <3>2 DEF Range, r
    <3> QED BY <1>8, <3>3 DEF PendingOK, Again
  <2> QED BY <1>7, <2>1
<1>9. ASSUME ~failed', modem'.up, NEW i \in DOMAIN queue', NEW l \in Keys, Again(queue'[i], l)
      PROVE  CoveredAt(l, i)'
  <2>1. i \in 1..n /\ Again(queue[i + 1], l) /\ i + 1 \in DOMAIN queue
    BY <1>6, <1>8, <1>9
  <2>2. CoveredAt(l, i + 1) /\ Under(l)["restarted"] # 0
    BY <1>2, <1>9, <2>1, CoveredIs
  <2>3. ASSUME NEW j \in DOMAIN queue, j > i + 1
        PROVE  j - 1 \in DOMAIN queue' /\ j - 1 > i /\ queue'[j - 1] = queue[j]
    <3>1. j - 1 \in 1..n /\ (j - 1) + 1 = j
      BY <1>6, <2>1, <2>3
    <3> QED BY <1>6, <1>7, <2>1, <2>3, <3>1
  <2>4. CASE \E j \in DOMAIN queue : j > i + 1 /\ queue[j].op = "engineUp"
    <3>1. \E j \in DOMAIN queue' : j > i /\ queue'[j].op = "engineUp"
      BY <2>3, <2>4
    <3> QED BY <3>1 DEF CoveredAt
  <2>5. CASE \E j \in DOMAIN queue : j > i + 1 /\ MTag(queue[j]) \in {l} \X {"erase"}
    <3>1. \E j \in DOMAIN queue' : j > i /\ MTag(queue'[j]) \in {l} \X {"erase"}
      BY <2>3, <2>5
    <3> QED BY <3>1 DEF CoveredAt
  <2>6. /\ N(RTags(api'), {l} \X {"erase"}) = N(RTags(api), {l} \X {"erase"}) + Asking(q, l, "erase")
        /\ N(RTags(api), {l} \X {"erase"}) \in Nat /\ Asking(q, l, "erase") \in Nat
    BY <1>1, MoreAsked
  <2>7. CASE N(RTags(api), {l} \X {"erase"}) # 0 \/ Asking(q, l, "erase") # 0
    <3>1. N(RTags(api'), {l} \X {"erase"}) # 0
      BY <2>6, <2>7
    <3> QED BY <3>1 DEF CoveredAt
  <2>8. CASE DistanceTo(l) = TRUE
    <3>1. DistanceTo(l)' = TRUE \/ Asking(q, l, "erase") > 0
      BY <1>1, <2>2, <2>8, StaysTrue DEF Accounts
    <3>2. DistanceTo(l)' = TRUE => CoveredAt(l, i)'
      BY DEF CoveredAt
    <3> QED BY <2>6, <2>7, <3>1, <3>2
  <2> QED BY <2>2, <2>4, <2>5, <2>7, <2>8 DEF CoveredAt
<1> QED BY <1>9, CoveredNext

\* The restarts that are answered, as the queue grows.
LEMMA CoveredGrows ==
    ASSUME Types, RestartsInQueue, ~failed, modem.up, NEW m, queue' = Append(queue, m),
           \A l : DistanceTo(l)' = DistanceTo(l),
           NEW i \in DOMAIN queue, NEW l \in Keys, Again(queue[i], l),
           N(RTags(api), {l} \X {"erase"}) # 0
             => N(RTags(api'), {l} \X {"erase"}) # 0 \/ MTag(m) \in {l} \X {"erase"}
    PROVE  CoveredAt(l, i)'
<1>1. /\ DOMAIN queue = 1..Len(queue) /\ Len(queue) \in Nat
      /\ DOMAIN queue' = 1..(Len(queue) + 1)
      /\ \A j \in 1..Len(queue) : queue'[j] = queue[j]
      /\ queue'[Len(queue) + 1] = m
  BY SqAppend, SqOf DEF Types, QueueTypes
<1>2. CoveredAt(l, i)
  BY CoveredIs
<1>3. \A j \in DOMAIN queue : j \in DOMAIN queue' /\ queue'[j] = queue[j]
  BY <1>1
<1>4. CASE \E j \in DOMAIN queue : j > i /\ queue[j].op = "engineUp"
  <2>1. \E j \in DOMAIN queue' : j > i /\ queue'[j].op = "engineUp"
    BY <1>3, <1>4
  <2> QED BY <2>1 DEF CoveredAt
<1>5. CASE \E j \in DOMAIN queue : j > i /\ MTag(queue[j]) \in {l} \X {"erase"}
  <2>1. \E j \in DOMAIN queue' : j > i /\ MTag(queue'[j]) \in {l} \X {"erase"}
    BY <1>3, <1>5
  <2> QED BY <2>1 DEF CoveredAt
<1>6. CASE DistanceTo(l) = TRUE
  <2>1. DistanceTo(l)' = TRUE
    BY <1>6
  <2> QED BY <2>1 DEF CoveredAt
<1>7. CASE N(RTags(api'), {l} \X {"erase"}) # 0
  BY <1>7 DEF CoveredAt
<1>8. CASE MTag(m) \in {l} \X {"erase"}
  <2>1. Len(queue) + 1 \in DOMAIN queue' /\ Len(queue) + 1 > i
        /\ MTag(queue'[Len(queue) + 1]) \in {l} \X {"erase"}
    BY <1>1, <1>8
  <2> QED BY <2>1 DEF CoveredAt
<1> QED BY <1>2, <1>4, <1>5, <1>6, <1>7, <1>8 DEF CoveredAt

\* A message that is posted is no such answer.
LEMMA CoveredPosted ==
    ASSUME Types, Types', RestartsInQueue, NEW m, queue' = Append(queue, m), m.op # "response",
           UNCHANGED <<api, modem, failed>>
    PROVE  RestartsInQueue'
<1>1. /\ DOMAIN queue = 1..Len(queue) /\ Len(queue) \in Nat
      /\ DOMAIN queue' = 1..(Len(queue) + 1)
      /\ \A j \in 1..Len(queue) : queue'[j] = queue[j]
      /\ queue'[Len(queue) + 1] = m
  BY SqAppend, SqOf DEF Types, QueueTypes
<1>2. \A l : DistanceTo(l)' = DistanceTo(l)
  BY DEF DistanceTo
<1>3. ASSUME ~failed', modem'.up, NEW i \in DOMAIN queue', NEW l \in Keys, Again(queue'[i], l)
      PROVE  CoveredAt(l, i)'
  <2>1. i \in DOMAIN queue /\ queue'[i] = queue[i]
    <3>1. i # Len(queue) + 1
      BY <1>1, <1>3 DEF Again
    <3> QED BY <1>1, <1>3, <3>1
  <2>2. ~failed /\ modem.up
    BY <1>3
  <2> QED BY <1>2, <1>3, <2>1, <2>2, CoveredGrows
<1> QED BY <1>3, CoveredNext

\* A request is performed and answered.
LEMMA CoveredLocApi ==
    ASSUME Types, Types', RestartsInApi, RestartsInQueue, LocApiStep
    PROVE  RestartsInQueue'
<1> DEFINE r == Head(api)
           S(l) == {l} \X {"erase"}
<1>1. PICK ok \in BOOLEAN :
        /\ failed' = (failed \/ ~ok)
        /\ queue' = IF r.then = NoThen THEN queue
                    ELSE Append(queue, [op |-> "response", then |-> r.then, ok |-> ok])
  BY LocApiIs
<1>2. /\ modem'.up = modem.up /\ api # <<>> /\ api' = Tail(api)
      /\ ~failed' => \A l : DistanceTo(l)' = DistanceTo(l)
  BY LocApiIs, LocApiFinal
<1>3. Sq(api) /\ ThenOK(r.then)
  <2>1. Len(api) \in Nat \ {0} /\ Head(api) = api[1] /\ DOMAIN api = 1..Len(api)
    BY <1>2, SqTail, SqOf DEF Types, RequestsOK
  <2>2. 1 \in DOMAIN api
    BY <2>1
  <2> QED BY <2>1, <2>2 DEF Types, RequestsOK, RequestOK
<1>4. \A l : /\ N(RTags(Tail(api)), S(l)) = N(RTags(api), S(l)) - Count(RTag(r), S(l))
             /\ N(RTags(api), S(l)) \in Nat
  BY <1>2, <1>3, TagsCount
<1> DEFINE m == [op |-> "response", then |-> r.then, ok |-> ok]
<1>5. m.op = "response" /\ m.then = r.then /\ MTag(m) = <<r.then.key, r.then.cont>>
  BY DEF MTag, Commands
<1> HIDE DEF r, m, S
<1>6. \A l : N(RTags(api), S(l)) # 0 => N(RTags(api'), S(l)) # 0 \/ RTag(r) \in S(l)
  BY <1>2, <1>4 DEF Count
<1>7. ASSUME NEW l, RTag(r) \in S(l) PROVE r.then # NoThen /\ MTag(m) \in S(l)
  <2>1. "erase" \in Kinds
    BY KindsIs
  <2>2. r.then # NoThen
    BY <1>7, <2>1, TagIs DEF S
  <2> QED BY <1>5, <1>7, <2>2 DEF RTag
<1>8. /\ DOMAIN queue = 1..Len(queue) /\ Len(queue) \in Nat /\ Sq(queue)
      /\ DOMAIN Append(queue, m) = 1..(Len(queue) + 1)
      /\ \A j \in 1..Len(queue) : Append(queue, m)[j] = queue[j]
      /\ Append(queue, m)[Len(queue) + 1] = m
  BY SqAppend, SqOf DEF Types, QueueTypes
<1>9. CASE r.then = NoThen
  <2>1. queue' = queue
    BY <1>1, <1>9 DEF r
  <2>2. ASSUME ~failed', modem'.up, NEW i \in DOMAIN queue', NEW l \in Keys, Again(queue'[i], l)
        PROVE  CoveredAt(l, i)'
    <3>1. ~failed /\ modem.up /\ DistanceTo(l)' = DistanceTo(l)
      BY <1>1, <1>2, <2>2
    <3>2. CoveredAt(l, i)
      BY <2>1, <2>2, <3>1, CoveredIs
    <3>3. N(RTags(api), S(l)) # 0 => N(RTags(api'), S(l)) # 0
      BY <1>6, <1>7, <1>9
    <3> QED BY <2>1, <3>1, <3>2, <3>3 DEF CoveredAt, S
  <2> QED BY <2>2, CoveredNext
<1>10. CASE r.then # NoThen
  <2>1. queue' = Append(queue, m)
    BY <1>1, <1>10 DEF r, m
  <2>2. ASSUME ~failed', modem'.up, NEW i \in DOMAIN queue', NEW l \in Keys, Again(queue'[i], l)
        PROVE  CoveredAt(l, i)'
    <3>1. ~failed /\ modem.up /\ \A k : DistanceTo(k)' = DistanceTo(k)
      BY <1>1, <1>2, <2>2
    <3>2. CASE i \in 1..Len(queue)
      <4>1. i \in DOMAIN queue /\ Again(queue[i], l)
        BY <1>8, <2>1, <2>2, <3>2
      <4>2. N(RTags(api), S(l)) # 0 => N(RTags(api'), S(l)) # 0 \/ MTag(m) \in S(l)
        BY <1>6, <1>7
      <4> QED BY <2>1, <3>1, <4>1, <4>2, CoveredGrows DEF S
    <3>3. CASE i \notin 1..Len(queue)
      <4>1. queue'[i] = m
        BY <1>8, <2>1, <2>2, <3>3
      <4>2. r.then.cont = "restarted" /\ r.then.key = l
        BY <1>5, <2>2, <4>1 DEF Again
      <4>3. RTag(r) \in {l} \X {"restarted"}
        BY <1>10, <4>2 DEF RTag
      <4>4. N(RTags(api), {l} \X {"restarted"}) # 0
        <5>1. N(RTags(Tail(api)), {l} \X {"restarted"})
                = N(RTags(api), {l} \X {"restarted"}) - Count(RTag(r), {l} \X {"restarted"})
          BY <1>2, <1>3, TagsCount DEF r
        <5>2. N(RTags(Tail(api)), {l} \X {"restarted"}) \in Nat
          BY <1>2, <1>3, SqTail, TagsCount
        <5>3. N(RTags(api), {l} \X {"restarted"}) \in Nat
          BY <1>3, TagsCount
        <5>4. Count(RTag(r), {l} \X {"restarted"}) = 1
          BY <4>3 DEF Count
        <5> QED BY <5>1, <5>2, <5>3, <5>4
      <4>5. DistanceTo(l) = TRUE \/ Follows(RTags(api), l, "restarted", "erase")
        BY <3>1, <4>4 DEF RestartsInApi
      <4>6. CASE DistanceTo(l) = TRUE
        <5>1. DistanceTo(l)' = TRUE
          BY <3>1, <4>6
        <5> QED BY <5>1 DEF CoveredAt
      <4>7. CASE Follows(RTags(api), l, "restarted", "erase")
        <5>1. N(RTags(Tail(api)), {l} \X {"erase"}) # 0
          BY <1>2, <1>3, <4>3, <4>7, FollowsTail DEF r
        <5> QED BY <1>2, <5>1 DEF CoveredAt
      <4> QED BY <4>5, <4>6, <4>7
    <3> QED BY <3>2, <3>3
  <2> QED BY <2>2, CoveredNext
<1> QED BY <1>9, <1>10

\* The restarts that are answered, at each step.
LEMMA CoveredStep ==
    ASSUME Types, Types', Patient, Accounts, RestartsInApi, RestartsInQueue, [Next]_vars
    PROVE  RestartsInQueue'
<1>1. CASE Command
  <2>1. PICK op, m : Commanded(op, m)
    BY <1>1, CommandIs
  <2>2. queue' = Append(queue, m) /\ UNCHANGED <<api, modem, failed>>
    BY <2>1 DEF Commanded, Post
  <2>3. m.op # "response"
    BY <2>1, CommandOf DEF Commands
  <2> QED BY <2>2, <2>3, CoveredPosted
<1>2. CASE HandleMsg
  BY <1>2, HandledCovered
<1>3. CASE LocApiStep
  BY <1>3, CoveredLocApi
<1>4. CASE ModemDies
  <2>1. modem'.up = FALSE
    BY <1>4 DEF ModemDies, Silent
  <2> QED BY <2>1 DEF RestartsInQueue
<1>5. CASE ModemRises
  <2> DEFINE m == [op |-> "engineUp"]
  <2>1. queue' = Append(queue, m) /\ m.op = "engineUp"
    BY <1>5 DEF ModemRises
  <2> HIDE DEF m
  <2>2. /\ DOMAIN queue = 1..Len(queue) /\ Len(queue) \in Nat
        /\ DOMAIN queue' = 1..(Len(queue) + 1)
        /\ queue'[Len(queue) + 1] = m
    BY <2>1, SqAppend, SqOf DEF Types, QueueTypes
  <2>3. ASSUME NEW i \in DOMAIN queue', NEW l \in Keys, Again(queue'[i], l) PROVE CoveredAt(l, i)'
    <3>1. i # Len(queue) + 1
      BY <2>1, <2>2, <2>3 DEF Again
    <3>2. Len(queue) + 1 \in DOMAIN queue' /\ Len(queue) + 1 > i
          /\ queue'[Len(queue) + 1].op = "engineUp"
      BY <2>1, <2>2, <2>3, <3>1
    <3> QED BY <3>2 DEF CoveredAt
  <2> QED BY <2>3, CoveredNext
<1>6. CASE UNCHANGED vars
  <2>1. UNCHANGED <<queue, api, modem, failed>>
    BY <1>6 DEF vars
  <2>2. ASSUME ~failed', modem'.up, NEW i \in DOMAIN queue', NEW l \in Keys, Again(queue'[i], l)
        PROVE  CoveredAt(l, i)'
    <3>1. CoveredAt(l, i)
      BY <2>1, <2>2, CoveredIs
    <3>2. DistanceTo(l)' = DistanceTo(l)
      BY <2>1 DEF DistanceTo
    <3> QED BY <2>1, <3>1, <3>2 DEF CoveredAt
  <2> QED BY <2>2, CoveredNext
<1> QED BY <1>1, <1>2, <1>3, <1>4, <1>5, <1>6 DEF Next

\* What is to remove a session that follows a distance, or to start it again.
Removal(c) == c["stopped"] + c["erase"] + c["restart"]

\* A response is of a request that succeeded.
Succeeds(a, ok) == a \in Conts => ok = TRUE

\* A session that follows a distance after a message did before, or it is started.
LEMMA RowDistance ==
    ASSUME NEW c \in Amounts, NEW c2 \in Amounts, NEW t \in {0, 1}, NEW d \in {0, 1}, NEW r,
           NEW a, NEW ok, NEW b, NEW t2, NEW d2, NEW e,
           Row(a, ok, t, d, b, t2, d2, e), Moved(c, a, b, c2), AccountIs(c, t, d, r),
           Succeeds(a, ok), d2 = 1
    PROVE  \/ e = "start"
           \/ Removal(c2) > 0
           \/ e = "keep" /\ d = 1 /\ Removal(c2) = Removal(c)
           \/ e = "keep" /\ a = "restarted" /\ c2["erase"] = c["erase"]
<1>1. \A k \in Kinds : /\ c[k] \in Nat /\ c2[k] \in Nat
                       /\ k = a /\ k # b => c2[k] = c[k] - 1
                       /\ k = b /\ k # a => c2[k] = c[k] + 1
                       /\ (k = a <=> k = b) => c2[k] = c[k]
  BY MovedIs
<1>2. /\ c["stopped"] \in Nat /\ c["erase"] \in Nat /\ c["restart"] \in Nat
      /\ c2["stopped"] \in Nat /\ c2["erase"] \in Nat /\ c2["restart"] \in Nat
  BY <1>1, KindsIs
<1>3. t = 1 => d = 0
  BY DEF AccountIs, AccountOf, Placed
<1>4. \A k \in {"stopped", "erase", "restart"} :
        /\ k # a /\ k # b => c2[k] = c[k]
        /\ k = b /\ k # a => c2[k] > 0
  BY <1>1, KindsIs
<1>5. ASSUME a \notin {"stopped", "erase", "restart"}, b \notin {"stopped", "erase", "restart"}
      PROVE  Removal(c2) = Removal(c)
  BY <1>4, <1>5 DEF Removal
<1>6. ASSUME a \notin {"stopped", "erase", "restart"}, b \in {"stopped", "restart"}
      PROVE  Removal(c2) > 0
  <2>1. CASE b = "stopped"
    BY <1>2, <1>4, <1>6, <2>1 DEF Removal
  <2>2. CASE b = "restart"
    BY <1>2, <1>4, <1>6, <2>2 DEF Removal
  <2> QED BY <1>6, <2>1, <2>2
<1>7. CASE a = "none" /\ b = "none" /\ Same(t, d, t2, d2) /\ e = "keep"
  BY <1>5, <1>7 DEF Same
<1>8. CASE a = "start" /\ StartRow(t, d, b, t2, d2, e)
  BY <1>5, <1>8 DEF StartRow, Same
<1>9. CASE a = "update" /\ UpdateRow(t, d, b, t2, d2, e)
  BY <1>5, <1>6, <1>9 DEF UpdateRow, Same
<1>10. CASE a = "stop" /\ StopRow(t, d, b, t2, d2, e)
  BY <1>5, <1>6, <1>10 DEF StopRow, Same
<1>11. CASE a \in Conts /\ ContRow(a, ok, t, d, b, t2, d2, e)
  <2>1. ok = TRUE
    BY <1>11 DEF Succeeds
  <2>2. CASE a \in {"started", "updated", "answer"} /\ b = "none" /\ Same(t, d, t2, d2) /\ e = "keep"
    BY <1>5, <2>2 DEF Same
  <2>3. ~(a \in {"stopped", "erase"} /\ ok = TRUE /\ b = "none" /\ Gone(t, d, t2, d2) /\ e = "keep")
    BY <1>3 DEF Gone
  <2>4. CASE a = "switch" /\ b \in {"none", "started"} /\ t2 = 1 /\ d2 = d /\ e = "keep"
    BY <1>5, <2>4
  <2>5. CASE a = "restarted" /\ ok = TRUE /\ b = "none" /\ t2 = t /\ d2 = 1 /\ e = "keep"
    BY <1>4, <2>5
  <2>6. CASE e = "start"
    BY <2>6
  <2> QED BY <1>11, <2>1, <2>2, <2>3, <2>4, <2>5, <2>6 DEF ContRow
<1> QED BY <1>7, <1>8, <1>9, <1>10, <1>11 DEF Row

\* A restart of the modem starts every session that follows a distance.
LEMMA EngineUpDistance ==
    ASSUME Types, HandleMsg, Head(queue).op = "engineUp", NEW l \in DOMAIN distanceBased'
    PROVE  DistanceTo(l)' = TRUE
<1>1. Handler(Head(queue)) /\ modem' = modem /\ MessageOK(Head(queue), calls)
  BY HandlerIs
<1>2. EngineUpHandled(Head(queue))
  BY <1>1 DEF Handler, Waiting, TrackHandled, RemoveHandled, AddClient, ResponseHandled, Enable,
              Disable, ConfigHandled, Commands
<1>3. PICK g : /\ HandlingOK(g) /\ Commit(g)
               /\ Restarts(g, timeBased, distanceBased, <<setConfig, Lists>>, <<>>)
  BY <1>2 DEF EngineUpHandled
<1>4. NoStops(g.requests)
  BY <1>3, ConfigStarts
<1>5. Sq(g.requests) /\ api' = api \o g.requests /\ distanceBased' = distanceBased
  BY <1>3 DEF HandlingOK, RequestsOK, Commit, Restarts, Makes
<1> DEFINE r1 == setConfig
           r2 == Lists
<1>6. Restarts(g, timeBased, distanceBased, <<r1, r2>>, <<>>)
  BY <1>3
<1> HIDE DEF r1, r2
<1>7. Sq(<<r1, r2>>)
  <2>1. Sq(<<r1>>) /\ Sq(<<r2>>)
    BY CountOne
  <2>2. <<r1, r2>> = <<r1>> \o <<r2>>
    BY <2>1, Appends, AppendIs
  <2> QED BY <2>1, <2>2, SqConcat
<1>8. DistanceTo(l)' = Final(g.requests, Distance(l), DistanceTo(l))
  BY <1>1, <1>5, DistanceHandled
<1>9. Final(g.requests, Distance(l), DistanceTo(l)) = TRUE
  <2>1. l \in DOMAIN distanceBased
    BY <1>5
  <2>2. \A v : Final(g.requests, Distance(l), v) = TRUE
    BY <1>4, <1>5, <1>6, <1>7, <2>1, RestartsTrue
  <2> QED BY <2>2
<1> QED BY <1>8, <1>9

\* A session that is to be erased is so once the others moved.
LEMMA ErasureIs ==
    ASSUME Types, NEW l \in Keys, NEW i \in DOMAIN queue, CoveredAt(l, i),
           \A j \in DOMAIN queue : queue[j].op # "engineUp"
    PROVE  DistanceTo(l) = TRUE \/ Under(l)["erase"] > 0
<1>1. "erase" \in Kinds
  BY KindsIs
<1>2. /\ Under(l)["erase"] >= N(MTags(queue), {l} \X {"erase"})
      /\ Under(l)["erase"] >= N(RTags(api), {l} \X {"erase"})
      /\ N(RTags(api), {l} \X {"erase"}) \in Nat /\ Under(l)["erase"] \in Nat
  BY <1>1, QueueUnder, ApiUnder
<1>3. CASE \E j \in DOMAIN queue : MTag(queue[j]) \in {l} \X {"erase"}
  <2>1. N(MTags(queue), {l} \X {"erase"}) # 0 /\ N(MTags(queue), {l} \X {"erase"}) \in Nat
    BY <1>3, TagsCount DEF Types, QueueTypes
  <2> QED BY <1>2, <2>1
<1>4. CASE N(RTags(api), {l} \X {"erase"}) # 0
  BY <1>2, <1>4
<1> QED BY <1>3, <1>4 DEF CoveredAt

\* A session that the modem has, or that is about to be removed or started again.
FarServed(l) == DistanceTo(l) = TRUE \/ Removal(Under(l)) > 0

\* A session that follows a distance, as a message is handled.
LEMMA StepsDistance ==
    ASSUME Types, Types', Books, Accounts, RestartsInQueue, DistanceAgrees, HandleMsg, ~failed,
           Fresh, Head(queue).op # "engineUp", NEW q, Sq(q), api' = api \o q,
           NEW l \in Keys, l \in DOMAIN distanceBased', NEW a, NEW b, NEW e, Steps(l, q, a, b, e)
    PROVE  FarServed(l)'
<1> DEFINE c == Under(l)
           c2 == Under(l)'
           t == In(l, timeBased)
           d == In(l, distanceBased)
           t2 == In(l, timeBased')
           d2 == In(l, distanceBased')
           r == Registered(l[1])
           ok == Head(queue).ok
<1>1. /\ modem' = modem /\ queue # <<>> /\ MessageOK(Head(queue), calls)
  BY HandlerIs
<1>2. /\ a \in {"none", Kind(Head(queue), l)} /\ EffectIs(q, l, e)
      /\ Row(a, ok, t, d, b, t2, d2, e)
      /\ \A k \in Kinds : c2[k] = c[k] - One(k = a) + One(k = b)
  BY DEF Steps
<1>3. c \in Amounts /\ c2 \in Amounts /\ t \in {0, 1} /\ d \in {0, 1} /\ d2 = 1
  BY UnderIs, UnderNext, InIs
<1>4. AccountIs(c, t, d, r)
  BY DEF Accounts, Account, AccountIs
<1>5. Succeeds(a, ok)
  <2>1. Head(queue) \in Range(queue)
    BY <1>1, RangeIs DEF Types, QueueTypes
  <2>2. Head(queue).op = "response" => ok = TRUE
    BY <2>1 DEF Books, Succeeded
  <2>3. a \in Conts => Head(queue).op = "response"
    BY <1>2 DEF Kind, Commands, Conts
  <2> QED BY <2>2, <2>3 DEF Succeeds
<1>6. /\ EffectIs(q, l, "start") => DistanceTo(l)' = TRUE
      /\ EffectIs(q, l, "keep") => DistanceTo(l)' \in {DistanceTo(l), TRUE}
  BY <1>1, DistanceHandled
<1>7. /\ Len(queue) \in Nat \ {0} /\ Head(queue) = queue[1] /\ DOMAIN queue = 1..Len(queue)
  BY <1>1, SqTail, SqOf DEF Types, QueueTypes
<1>8. ASSUME d = 1 PROVE DistanceTo(l) = TRUE \/ Removal(c) > 0
  <2>1. l \in DOMAIN distanceBased
    BY <1>8, InIs
  <2> QED BY <2>1 DEF DistanceAgrees, Removal
<1>9. ASSUME a = "restarted" PROVE DistanceTo(l) = TRUE \/ c["erase"] > 0
  <2>1. Again(Head(queue), l)
    BY <1>2, <1>9 DEF Kind, Commands, Again
  <2>2. 1 \in DOMAIN queue /\ Again(queue[1], l)
    BY <1>7, <2>1
  <2>3. modem.up /\ \A j \in DOMAIN queue : queue[j].op # "engineUp"
    BY DEF Fresh, Range
  <2>4. CoveredAt(l, 1)
    BY <2>2, <2>3, CoveredIs
  <2> QED BY <2>2, <2>3, <2>4, ErasureIs
<1>10. Moved(c, a, b, c2)
  BY <1>2 DEF Moved
<1>11. /\ c2["stopped"] \in Nat /\ c2["erase"] \in Nat /\ c2["restart"] \in Nat
  BY UnderNext, KindsIs
<1> HIDE DEF c, c2, t, d, t2, d2, r, ok
<1>12. \/ e = "start"
       \/ Removal(c2) > 0
       \/ e = "keep" /\ d = 1 /\ Removal(c2) = Removal(c)
       \/ e = "keep" /\ a = "restarted" /\ c2["erase"] = c["erase"]
  <2>1. \A s, o : AccountIs(c, t, d, s) /\ Row(a, o, t, d, b, t2, d2, e) /\ Succeeds(a, o)
               => \/ e = "start"
                  \/ Removal(c2) > 0
                  \/ e = "keep" /\ d = 1 /\ Removal(c2) = Removal(c)
                  \/ e = "keep" /\ a = "restarted" /\ c2["erase"] = c["erase"]
    <3>1. c \in Amounts /\ c2 \in Amounts
      BY <1>3
    <3>2. t \in {0, 1} /\ d \in {0, 1}
      BY <1>3
    <3>3. d2 = 1
      BY <1>3
    <3> QED BY <3>1, <3>2, <3>3, <1>10, RowDistance
  <2> QED BY <1>2, <1>4, <1>5, <2>1, Zenon
<1>13. Removal(Under(l))' = Removal(c2)
  BY DEF Removal, c2
<1>14. DistanceTo(l)' = TRUE \/ Removal(c2) > 0
  <2>1. CASE e = "start"
    BY <1>2, <1>6, <2>1
  <2>2. CASE e = "keep" /\ d = 1 /\ Removal(c2) = Removal(c)
    BY <1>2, <1>6, <1>8, <2>2
  <2>3. CASE e = "keep" /\ a = "restarted" /\ c2["erase"] = c["erase"]
    <3>1. DistanceTo(l)' = TRUE \/ c2["erase"] > 0
      BY <1>2, <1>6, <1>9, <2>3
    <3>2. c2["erase"] > 0 => Removal(c2) > 0
      BY <1>11 DEF Removal
    <3> QED BY <3>1, <3>2
  <2> QED BY <1>12, <2>1, <2>2, <2>3
<1> QED BY <1>13, <1>14 DEF FarServed

\* That is what the invariant says of the sessions.
LEMMA DistanceIs ==
    DistanceAgrees <=> (~failed /\ Fresh => \A l \in DOMAIN distanceBased : FarServed(l))
BY DEF DistanceAgrees, FarServed, Removal

\* A session of a client that is removed is to be erased.
LEMMA RemovesDistance ==
    ASSUME Types, Types', NEW q, NEW l \in Keys, l \in DOMAIN distanceBased', Removes(l, q)
    PROVE  FarServed(l)'
<1>1. In(l, distanceBased) = 1
  <2>1. In(l, distanceBased') = 1
    BY InIs
  <2> QED BY <2>1 DEF Removes, RemoveRow
<1>2. Asking(q, l, "erase") > 0 /\ Asking(q, l, "erase") \in Nat
      /\ Under(l)'["erase"] = Under(l)["erase"] + Asking(q, l, "erase")
  BY <1>1, KindsIs DEF Removes, RemoveRow
<1>3. Under(l)["erase"] \in Nat
  BY UnderIs, KindsIs
<1> DEFINE c2 == Under(l)'
<1>4. /\ c2["stopped"] \in Nat /\ c2["erase"] \in Nat /\ c2["restart"] \in Nat
      /\ c2["erase"] > 0
  <2>1. /\ c2["stopped"] \in Nat /\ c2["erase"] \in Nat /\ c2["restart"] \in Nat
    BY UnderNext, KindsIs
  <2> QED BY <1>2, <1>3, <2>1
<1> HIDE DEF c2
<1>5. Removal(c2) > 0
  BY <1>4 DEF Removal
<1> QED BY <1>5 DEF FarServed, Removal, c2

\* The sessions that follow a distance, as a message is handled.
LEMMA HandledDistance ==
    ASSUME Types, Types', Books, Accounts, RestartsInQueue, DistanceAgrees, HandleMsg
    PROVE  DistanceAgrees'
<1>1. PICK q : Sq(q) /\ api' = api \o q /\ \A l \in Keys : Handled(l, q)
  BY AllHandled
<1>2. failed' = failed /\ modem' = modem
  BY HandledSame
<1>3. Fresh' => Head(queue).op = "engineUp" \/ Fresh
  BY FreshHandled
<1>4. ASSUME ~failed', Fresh', NEW l \in DOMAIN distanceBased' PROVE FarServed(l)'
  <2>1. l \in Keys
    BY <1>4 DEF Types, SessionTypes, DistanceOK
  <2>2. CASE Head(queue).op = "engineUp"
    BY <1>4, <2>2, EngineUpDistance DEF FarServed
  <2>3. CASE Head(queue).op # "engineUp"
    <3>1. Fresh /\ ~failed
      BY <1>2, <1>3, <1>4, <2>3
    <3>2. Handled(l, q)
      BY <1>1, <2>1
    <3>3. CASE Removes(l, q)
      BY <1>4, <2>1, <3>3, RemovesDistance
    <3>4. ASSUME NEW a, NEW b, NEW e, Steps(l, q, a, b, e) PROVE FarServed(l)'
      BY <1>1, <1>4, <2>1, <2>3, <3>1, <3>4, StepsDistance
    <3> QED BY <3>2, <3>3, <3>4 DEF Handled
  <2> QED BY <2>2, <2>3
<1>5. ~failed' /\ Fresh' => \A l \in DOMAIN distanceBased' : FarServed(l)'
  BY <1>4
<1> QED BY <1>5 DEF DistanceAgrees, FarServed, Removal

\* Nothing less is under way about a session.
Remains(l) == \A k \in Kinds : Under(l)'[k] >= Under(l)[k]

\* A session is served as it was.
LEMMA SameDistance ==
    ASSUME Types, Types', DistanceAgrees, ~failed' => ~failed, Fresh' => Fresh,
           UNCHANGED distanceBased, \A l \in Keys : Remains(l),
           ~failed' => \A l \in Keys : DistanceTo(l)' = DistanceTo(l)
    PROVE  DistanceAgrees'
<1>1. ASSUME ~failed', Fresh', NEW l \in DOMAIN distanceBased' PROVE FarServed(l)'
  <2>1. l \in Keys /\ FarServed(l)
    BY <1>1, DistanceIs DEF Types, SessionTypes, DistanceOK
  <2>2. DistanceTo(l)' = DistanceTo(l)
    BY <1>1, <2>1
  <2> DEFINE c == Under(l)
             c2 == Under(l)'
  <2>3. /\ c["stopped"] \in Nat /\ c["erase"] \in Nat /\ c["restart"] \in Nat
        /\ c2["stopped"] \in Nat /\ c2["erase"] \in Nat /\ c2["restart"] \in Nat
    BY <2>1, UnderIs, UnderNext, KindsIs
  <2>4. c2["stopped"] >= c["stopped"] /\ c2["erase"] >= c["erase"] /\ c2["restart"] >= c["restart"]
    BY <2>1, KindsIs DEF Remains
  <2> HIDE DEF c, c2
  <2>5. Removal(c) > 0 => Removal(c2) > 0
    BY <2>3, <2>4 DEF Removal
  <2>6. Removal(Under(l)) > 0 => Removal(Under(l))' > 0
    BY <2>5 DEF c, c2, Removal
  <2> QED BY <2>1, <2>2, <2>6 DEF FarServed
<1>2. ~failed' /\ Fresh' => \A l \in DOMAIN distanceBased' : FarServed(l)'
  BY <1>1
<1> QED BY <1>2 DEF DistanceAgrees, FarServed, Removal

\* The sessions that follow a distance, at each step.
LEMMA DistanceNext ==
    ASSUME Types, Types', Books, Accounts, RestartsInQueue, DistanceAgrees, [Next]_vars
    PROVE  DistanceAgrees'
<1>1. CASE HandleMsg
  BY <1>1, HandledDistance
<1>2. CASE Command
  <2>1. PICK op, m : Commanded(op, m)
    BY <1>2, CommandIs
  <2>2. /\ queue' = Append(queue, m)
        /\ UNCHANGED <<api, modem, distanceBased, mPendingMsgs, failed>>
    BY <2>1 DEF Commanded, Post, sessions
  <2>3. Fresh' => Fresh
    <3>1. Range(queue') = Range(queue) \cup {m}
      BY <2>2, RangeIs DEF Types, QueueTypes
    <3> QED BY <2>2, <3>1 DEF Fresh
  <2>4. \A l : DistanceTo(l)' = DistanceTo(l)
    BY <2>2 DEF DistanceTo
  <2>5. ASSUME NEW l \in Keys PROVE Remains(l)
    <3>1. ASSUME NEW k \in Kinds PROVE Under(l)'[k] >= Under(l)[k]
      <4>1. UnderWay({l} \X {k})' = UnderWay({l} \X {k}) + Count(MTag(m), {l} \X {k})
        BY <2>2, PostFlow
      <4>2. UnderWay({l} \X {k}) \in Nat
        BY WayIs
      <4>3. Count(MTag(m), {l} \X {k}) \in {0, 1}
        BY DEF Count
      <4> QED BY <4>1, <4>2, <4>3 DEF Under, About
    <3> QED BY <3>1 DEF Remains
  <2> QED BY <2>2, <2>3, <2>4, <2>5, SameDistance
<1>3. CASE LocApiStep
  <2>1. /\ UNCHANGED distanceBased /\ modem'.up = modem.up
        /\ ~failed' => ~failed /\ \A l : DistanceTo(l)' = DistanceTo(l)
    BY <1>3, LocApiIs, LocApiFinal
  <2>2. PICK ok :
          queue' = IF Head(api).then = NoThen THEN queue
                   ELSE Append(queue, [op |-> "response", then |-> Head(api).then, ok |-> ok])
    BY <1>3, LocApiIs
  <2>3. Range(queue) \subseteq Range(queue')
    <3>1. \A m : Range(Append(queue, m)) = Range(queue) \cup {m}
      BY RangeIs DEF Types, QueueTypes
    <3> QED BY <2>2, <3>1
  <2>4. Fresh' => Fresh
    BY <2>1, <2>3 DEF Fresh
  <2>5. ASSUME NEW l \in Keys PROVE Remains(l)
    <3>1. \A k \in Kinds : About(l, {k})' = About(l, {k})
      BY <1>3, KindsAre, LocApiFlow
    <3>2. \A k \in Kinds : Under(l)[k] \in Nat
      BY UnderIs
    <3>3. \A k \in Kinds : Under(l)'[k] = Under(l)[k]
      BY <3>1 DEF Under
    <3>4. \A k \in Kinds : Under(l)'[k] >= Under(l)[k]
      BY <3>2, <3>3
    <3> QED BY <3>4 DEF Remains
  <2> QED BY <2>1, <2>4, <2>5, SameDistance
<1>4. CASE ModemDies
  <2>1. modem'.up = FALSE
    BY <1>4 DEF ModemDies, Silent
  <2> QED BY <2>1 DEF DistanceAgrees, Fresh
<1>5. CASE ModemRises
  <2>1. queue' = Append(queue, [op |-> "engineUp"])
    BY <1>5 DEF ModemRises
  <2>2. [op |-> "engineUp"] \in Range(queue')
    BY <2>1, RangeIs DEF Types, QueueTypes
  <2>3. ~Fresh'
    BY <2>2 DEF Fresh
  <2> QED BY <2>3 DEF DistanceAgrees
<1>6. CASE UNCHANGED vars
  <2>1. UNCHANGED <<queue, api, mPendingMsgs, modem, distanceBased, failed>>
    BY <1>6 DEF vars, sessions
  <2>2. \A l : DistanceTo(l)' = DistanceTo(l)
    BY <2>1 DEF DistanceTo
  <2>3. ASSUME NEW l \in Keys PROVE Remains(l)
    <3>1. \A k \in Kinds : About(l, {k})' = About(l, {k})
      BY <2>1 DEF About, UnderWay, Way
    <3>2. \A k \in Kinds : Under(l)[k] \in Nat
      BY UnderIs
    <3>3. \A k \in Kinds : Under(l)'[k] = Under(l)[k]
      BY <3>1 DEF Under
    <3>4. \A k \in Kinds : Under(l)'[k] >= Under(l)[k]
      BY <3>2, <3>3
    <3> QED BY <3>4 DEF Remains
  <2> QED BY <2>1, <2>2, <2>3, SameDistance DEF Fresh
<1> QED BY <1>1, <1>2, <1>3, <1>4, <1>5, <1>6 DEF Next

-----------------------------------------------------------------------------
(* The modem does what is recorded.                                          *)

\* All of what holds of the messages and requests that are under way, while no client changes a
\* session that it has not heard of.
Agreement ==
    /\ Types /\ Books /\ Accounts /\ Overtaken /\ ConfAgrees /\ FixAgrees /\ DistanceAgrees
    /\ Linked /\ RestartsInApi /\ RestartsInQueue

\* At first there is no message, no request and no session.
LEMMA AgreementInit == Init => Agreement
<1> SUFFICES ASSUME Init PROVE Agreement
  OBVIOUS
<1>1. queue = <<>> /\ api = <<>> /\ timeBased = <<>> /\ distanceBased = <<>>
  BY DEF Init
<1>2. DOMAIN queue = {} /\ DOMAIN api = {} /\ DOMAIN distanceBased = {}
  BY <1>1, SqEmpty
<1>3. DistanceAgrees /\ Linked /\ RestartsInQueue
  BY <1>2 DEF DistanceAgrees, Linked, RestartsInQueue
<1>4. RestartsInApi
  <2>1. \A l : N(RTags(<<>>), {l} \X {"restarted"}) = 0
    BY SqEmpty, TagsCount
  <2> QED BY <1>1, <2>1 DEF RestartsInApi
<1> QED BY <1>3, <1>4, TypesInit, BooksInit, AccountsInit, ConfInit, FixInit DEF Agreement

\* It is kept.
LEMMA AgreementNext ==
    ASSUME Agreement, Patient, [Next]_vars
    PROVE  Agreement'
<1>1. Types /\ Books /\ Accounts /\ Overtaken /\ ConfAgrees /\ FixAgrees /\ DistanceAgrees
      /\ Linked /\ RestartsInApi /\ RestartsInQueue
  BY DEF Agreement
<1>2. Types'
  BY <1>1, TypesNext
<1>3. Books'
  BY <1>1, <1>2, BooksNext
<1>4. Accounts'
  BY <1>1, <1>2, <1>3, AccountsNext
<1>5. Overtaken'
  BY <1>1, <1>2, <1>4, OvertakenNext
<1>6. ConfAgrees' /\ FixAgrees'
  BY <1>1, ConfNext, FixNext
<1>7. Linked' /\ RestartsInApi'
  BY <1>1, LinkedNext, RestartsNext
<1>8. RestartsInQueue'
  BY <1>1, <1>2, CoveredStep
<1>9. DistanceAgrees'
  BY <1>1, <1>2, DistanceNext
<1> QED BY <1>2, <1>3, <1>4, <1>5, <1>6, <1>7, <1>8, <1>9 DEF Agreement

\* What the clients do does not change.
LEMMA PatientNext == ASSUME Types, Patient, [Next]_vars PROVE Patient'
<1>1. CASE Command
  <2>1. PICK op, m : Commanded(op, m)
    BY <1>1, CommandIs
  <2>2. use' = use
    BY <2>1 DEF Commanded, Post
  <2> QED BY <2>2 DEF Patient
<1>2. CASE HandleMsg
  BY <1>2, HandlerIs DEF Patient
<1>3. CASE LocApiStep
  BY <1>3, LocApiIs DEF Patient
<1>4. CASE ModemDies \/ ModemRises
  BY <1>4 DEF ModemDies, ModemRises, clientVars, Patient
<1>5. CASE UNCHANGED vars
  BY <1>5 DEF vars, clientVars, Patient
<1> QED BY <1>1, <1>2, <1>3, <1>4, <1>5 DEF Next

\* Once all is quiet, nothing is about to be removed or started again.
LEMMA QuietUnder ==
    ASSUME Types, Quiet, NEW l \in Keys
    PROVE  Removal(Under(l)) = 0
<1>1. DOMAIN queue = {} /\ DOMAIN api = {}
  BY SqEmpty DEF Quiet
<1>2. ASSUME NEW k \in {"stopped", "erase", "restart"} PROVE Under(l)[k] = 0
  <2>1. k \in Kinds
    BY <1>2, KindsIs
  <2>2. ASSUME NEW j \in DOMAIN mPendingMsgs PROVE MTag(mPendingMsgs[j]) \notin {l} \X {k}
    <3> DEFINE m == mPendingMsgs[j]
    <3>1. PendingOK(m)
      BY DEF Types, PendingTypes, Range
    <3> HIDE DEF m
    <3>2. m.op \in {"start", "update", "config"}
      BY <3>1, PendingIs
    <3>3. m.op # "response" /\ m.op # k
      BY <1>2, <3>2
    <3>4. MTag(m) \notin {l} \X {k}
      BY <2>1, <3>3, TagIs
    <3> QED BY <3>4 DEF m
  <2> QED BY <1>1, <2>1, <2>2, NoneUnder
<1> QED BY <1>2 DEF Removal

\* The agreement is, once all is quiet, one of the modem's sessions with the recorded ones.
LEMMA AgreementGives == Agreement => ModemAgrees
<1> SUFFICES ASSUME Agreement PROVE ModemAgrees
  OBVIOUS
<1>1. Types /\ ConfAgrees /\ FixAgrees /\ DistanceAgrees
  BY DEF Agreement
<1>2. ASSUME Quiet, ~failed
      PROVE  /\ (modem.fix = NoFix) = (timeBased = <<>>)
             /\ \A key \in DOMAIN timeBased : modem.fix.minInterval <= timeBased[key].minInterval
             /\ DOMAIN distanceBased \subseteq modem.distance
  <2>1. Fresh
    <3>1. Range(queue) = {}
      BY <1>2, SqEmpty DEF Quiet, Range
    <3> QED BY <1>2, <3>1 DEF Fresh, Quiet
  <2>2. \A x, v : Final(<<>>, x, v) = v
    BY FinalOne
  <2>3. FixTo = modem.fix /\ \A l : DistanceTo(l) = (l \in modem.distance)
    BY <1>2, <2>2 DEF FixTo, DistanceTo, Quiet
  <2>4. Served(modem.fix, timeBased)
    BY <1>1, <1>2, <2>1, <2>3 DEF FixAgrees
  <2>5. NoFix.minInterval = 0
    BY DEF NoFix
  <2>6. DOMAIN distanceBased \subseteq modem.distance
    <3>1. ASSUME NEW l \in DOMAIN distanceBased PROVE l \in modem.distance
      <4>1. l \in Keys
        BY <1>1, <3>1 DEF Types, SessionTypes, DistanceOK
      <4>2. DistanceTo(l) = TRUE \/ Removal(Under(l)) > 0
        BY <1>1, <1>2, <2>1, <3>1, DistanceIs DEF FarServed
      <4>3. Removal(Under(l)) = 0
        BY <1>1, <1>2, <4>1, QuietUnder
      <4>4. DistanceTo(l) = TRUE
        BY <4>2, <4>3
      <4>5. DistanceTo(l) = (l \in modem.distance)
        BY <2>3
      <4> QED BY <4>4, <4>5
    <3> QED BY <3>1
  <2>7. CASE timeBased = <<>>
    <3>1. DOMAIN timeBased = {}
      BY <2>7, SqEmpty
    <3>2. modem.fix = NoFix
      BY <2>4, <2>7 DEF Served, Idle
    <3> QED BY <2>6, <2>7, <3>1, <3>2
  <2>8. CASE timeBased # <<>>
    <3>1. Short(modem.fix.minInterval, timeBased)
      BY <2>4, <2>8 DEF Served
    <3>2. modem.fix # NoFix
      BY <2>5, <3>1 DEF Short
    <3> QED BY <2>6, <2>8, <3>1, <3>2 DEF Short
  <2> QED BY <2>7, <2>8
<1>3. ModemServes
  BY <1>2 DEF ModemServes
<1>4. ModemConfigured
  BY <1>1, ConfGives
<1> QED BY <1>3, <1>4 DEF ModemAgrees

\* Once all is quiet, the modem does what the adapter has recorded (ModemAgrees): it runs a fix
\* exactly while there is a time-based session, as often as the most frequent of them asks; it
\* follows the distance of every session that is recorded with one; and it has the
\* configuration. It does so whatever sessions were started, changed and stopped, whatever
\* clients came and went and however often the modem restarted, provided that clients that do
\* not wait for answers change no session (Patient).
THEOREM AgreementSafe == Spec /\ Patient => []ModemAgrees
<1>1. Init => Agreement
  BY AgreementInit
<1>2. Agreement /\ Patient /\ [Next]_vars => Agreement' /\ Patient'
  <2>1. Agreement => Types
    BY DEF Agreement
  <2> QED BY <2>1, AgreementNext, PatientNext
<1>3. Agreement => ModemAgrees
  BY AgreementGives
<1> QED BY <1>1, <1>2, <1>3, PTL DEF Spec
================================================================================
