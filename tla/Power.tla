------------------------------- MODULE Power -------------------------------
(***************************************************************************)
(* The power service: Power and PowerExt, which map what the framework and *)
(* the thermal service ask for to calls of HintManager, and how the        *)
(* process starts, dies and comes back.                                    *)
(*                                                                         *)
(* Three modes survive the process: the hints of the configuration set a   *)
(* system property through a PropertyNode, which the looper does on its    *)
(* own thread, and Power's constructor reads them. Of the looper only      *)
(* these nodes are modelled here (NodeLooper has them all), of             *)
(* InteractionHandler that it does and ends its hint (InteractionHandler   *)
(* has the rest). One thread carries out all calls, the one that           *)
(* constructed Power.                                                      *)
(***************************************************************************)
EXTENDS HintManager

CONSTANTS
  binder,       \* the main thread, which joins the thread pool
  Modes,        \* what setMode is called with, as far as the document has it
  Boosts,       \* what setBoost is called with, the same
  ExtNames,     \* what PowerExt's setMode and setBoost are called with, the same
  MaxCrashes    \* bound: document -> how often process and framework die

StateProp == "vendor.powerhal.state"
AudioProp == "vendor.powerhal.audio"
RenderingProp == "vendor.powerhal.rendering"

Properties == {StateProp, AudioProp, RenderingProp}

\* Mutant: the audio mode goes by the name that is logged.
RestoredMutant ==
  <<[property |-> StateProp, mode |-> "SUSTAINED_PERFORMANCE"],
    [property |-> AudioProp, mode |-> "AUDIO_LOW_LATENCY"],
    [property |-> RenderingProp, mode |-> "EXPENSIVE_RENDERING"]>>

\* What the constructor looks for, in this order.
Restored ==
  <<[property |-> StateProp, mode |-> "SUSTAINED_PERFORMANCE"],
    [property |-> AudioProp, mode |-> "AUDIO_STREAMING_LOW_LATENCY"],
    [property |-> RenderingProp, mode |-> "EXPENSIVE_RENDERING"]>>

ASSUME PowerAssumption ==
  /\ binder \in Threads
  /\ Modes \cup Boosts \cup ExtNames \subseteq Ends[binder]
  /\ {Restored[i].mode : i \in DOMAIN Restored} \subseteq Names
  /\ MaxCrashes \in [Docs -> Nat]

\* The modes that powerhint.json records, and the properties it does in.
ModeOf ==
  [p \in Properties |->
     CASE p = StateProp -> "SUSTAINED_PERFORMANCE"
       [] p = AudioProp -> "AUDIO_STREAMING_LOW_LATENCY"
       [] p = RenderingProp -> "EXPENSIVE_RENDERING"]
KeptModes == {ModeOf[p] : p \in Properties}

\* As in powerhint.json: a property node records one mode, is empty by default, and
\* is set by the hint of that mode alone, without duration.
RecordsMode(n, nodes, hints) ==
  LET mode == ModeOf[nodes[n].path]
  IN  /\ nodes[n].path \in Properties
      /\ Range(nodes[n].values) = {mode, ""}
      /\ nodes[n].values[nodes[n].default_val_index_] = ""
      /\ \A h \in DOMAIN hints : \A a \in hints[h].node_actions :
           a.node_index = n =>
             h = mode /\ nodes[n].values[a.value_index] = mode /\ a.timeout_ms = 0
      /\ mode \in DOMAIN hints => \E a \in hints[mode].node_actions : a.node_index = n

\* No hint action is about a hint whose mode is recorded.
ActsOnOthers(hint) ==
  \A i \in DOMAIN hint.hint_actions : hint.hint_actions[i].value \notin KeptModes

ASSUME ModesRecorded ==
  \A d \in Docs :
    /\ \A n \in DOMAIN ParseNodes(d) :
         ~ParseNodes(d)[n].is_file => RecordsMode(n, ParseNodes(d), HintsOf(d))
    /\ \A h \in DOMAIN HintsOf(d) : ActsOnOthers(HintsOf(d)[h])

\* Only the framework's setMode is called with these modes.
ASSUME OneCaller ==
  /\ (Boosts \cup ExtNames) \cap KeptModes = {}
  /\ \A t \in Threads \ {binder} : (Does[t] \cup Ends[t]) \cap KeptModes = {}

\* The hints that the DoHint and EndHint actions of a hint are about, and those that
\* it masks.
ValuesOf(hint, types) ==
  {hint.hint_actions[i].value :
     i \in {i \in DOMAIN hint.hint_actions : hint.hint_actions[i].type \in types}}
Targets(hint) == ValuesOf(hint, {"DoHint", "EndHint"})
Masked(hint) == ValuesOf(hint, {"MaskHint"})

\* What calls of the names S lead to, themselves among them.
Led(S, hints) ==
  {x \in Names : \A T \in SUBSET Names :
     S \subseteq T /\ (\A h \in T \cap DOMAIN hints : Targets(hints[h]) \subseteq T) => x \in T}

\* The names that thread t calls with, and those that some thread ends.
CalledBy(t) ==
  Does[t] \cup Ends[t] \cup IF t = binder THEN {Restored[i].mode : i \in DOMAIN Restored} ELSE {}
Ended == UNION {Ends[t] : t \in Threads}

\* "There should not be multiple writers" (HintManager.h:71), of the flag and, for
\* hints that end, of what is kept of them: a hint has one that masks it, which
\* does not lead back to itself; a hint that masks others or is ended is left to
\* one thread. INTERACTION, that two threads call, InteractionHandler's lock keeps apart.
OneWriter(hints) ==
  /\ \A m \in DOMAIN hints :
       /\ Masked(hints[m]) # {} => m \notin Led(Targets(hints[m]), hints)
       /\ \A k \in DOMAIN hints \ {m} : Masked(hints[m]) \cap Masked(hints[k]) = {}
       /\ ValuesOf(hints[m], {"EndHint"}) \subseteq Ended
       /\ "INTERACTION" \notin Targets(hints[m])
       /\ m = "INTERACTION" => hints[m].hint_actions = <<>>
  /\ \A t, u \in Threads :
       t # u => \A m \in Led(CalledBy(t), hints) \cap Led(CalledBy(u), hints) \cap DOMAIN hints :
                  Masked(hints[m]) = {} /\ m \notin Ended \ {"INTERACTION"}

ASSUME WritersAssumption ==
  /\ \A d \in Docs : OneWriter(HintsOf(d))
  /\ "INTERACTION" \notin Modes \cup ExtNames

VARIABLES
  life,                  \* of the process: "down", "starting" or "up"
  restoring,             \* what the constructor looks at next
  mSustainedPerfModeOn,
  started,               \* the looper runs
  current_val_index_,    \* property node -> what the looper last set it to
  property,              \* system property -> its value
  killing,               \* init is about to kill the service
  crashes,
  asked,                 \* history: recorded modes the framework has turned on
  written                \* history: property nodes set by this process

processVars == <<life, restoring, mSustainedPerfModeOn, started, current_val_index_, written>>
worldVars == <<property, killing, crashes, asked>>
vars == <<hintVars, processVars, worldVars>>

PropertyNodes == {n \in DOMAIN nodes_ : ~nodes_[n].is_file}
DefaultOf == [n \in PropertyNodes |-> nodes_[n].default_val_index_]

\* The modes that a property may name.
Recorded == UNION {Range(nodes_[n].values) : n \in PropertyNodes}

\* Types; and what the document is parsed to makes sense.  (ParseNodes,
\* ParseActions, Power)
TypeOK ==
  /\ HintTypes
  /\ ActionsLand
  /\ life \in {"down", "starting", "up"}
  /\ restoring \in 1 .. Len(Restored) + 1
  /\ mSustainedPerfModeOn \in BOOLEAN
  /\ started \in BOOLEAN
  /\ DOMAIN current_val_index_ = PropertyNodes
  /\ \A n \in PropertyNodes : current_val_index_[n] \in DOMAIN nodes_[n].values
  /\ property \in [Properties -> {""} \cup Recorded]
  /\ killing \in BOOLEAN
  /\ crashes \in 0 .. MaxCrashes[doc]
  /\ asked \subseteq Recorded
  /\ written \subseteq PropertyNodes

PowerInit ==
  /\ Init
  /\ life = "down"
  /\ restoring = 1
  /\ mSustainedPerfModeOn = FALSE
  /\ started = FALSE
  /\ current_val_index_ = DefaultOf
  /\ property = [p \in Properties |-> ""]
  /\ killing = FALSE
  /\ crashes = 0
  /\ asked = {}
  /\ written = {}

-----------------------------------------------------------------------------
(* The process *)

\* main: a document that is refused is fatal.
main ==
  /\ life = "down"
  /\ Hints # {}
  /\ life' = "starting"
  /\ UNCHANGED <<hintVars, restoring, mSustainedPerfModeOn, started, current_val_index_,
                 written, worldVars>>

\* Power's constructor, one property at a time.
Restore ==
  /\ life = "starting"
  /\ restoring \in DOMAIN Restored
  /\ restoring' = restoring + 1
  /\ LET r == Restored[restoring]
     IN  IF property[r.property] = r.mode
         THEN /\ Calls(binder, DoStep(r.mode))
              /\ mSustainedPerfModeOn' = (mSustainedPerfModeOn \/ r.property = StateProp)
         ELSE stack[binder] = <<>> /\ UNCHANGED <<hintVars, mSustainedPerfModeOn>>
  /\ UNCHANGED <<life, started, current_val_index_, written, worldVars>>

\* The service is there; a thread waits for the end of the boot.
Serve ==
  /\ life = "starting"
  /\ restoring \notin DOMAIN Restored
  /\ stack[binder] = <<>>
  /\ life' = "up"
  /\ UNCHANGED <<hintVars, restoring, mSustainedPerfModeOn, started, current_val_index_,
                 written, worldVars>>

\* vendor.powerhal.init is set.
StartLooper ==
  /\ life = "up"
  /\ ~started
  /\ started' = TRUE
  /\ UNCHANGED <<hintVars, life, restoring, mSustainedPerfModeOn, current_val_index_,
                 written, worldVars>>

Dies ==
  /\ Lost
  /\ life' = "down"
  /\ restoring' = 1
  /\ mSustainedPerfModeOn' = FALSE
  /\ started' = FALSE
  /\ current_val_index_' = DefaultOf
  /\ written' = {}

Crash ==
  /\ life # "down"
  /\ crashes < MaxCrashes[doc]
  /\ crashes' = crashes + 1
  /\ Dies
  /\ UNCHANGED <<property, killing, asked>>

\* The framework restarts, and init forgets the properties before it restarts
\* the service; whether it does when the first one is empty is left open.
FrameworkDies ==
  /\ crashes < MaxCrashes[doc]
  /\ crashes' = crashes + 1
  /\ asked' = {}
  /\ \/ property' = [p \in Properties |-> ""] /\ killing' = TRUE
     \/ property[StateProp] = "" /\ UNCHANGED <<property, killing>>
  /\ UNCHANGED <<hintVars, processVars>>

Kill ==
  /\ killing
  /\ killing' = FALSE
  /\ Dies
  /\ UNCHANGED <<property, crashes, asked>>

-----------------------------------------------------------------------------
(* Calls *)

\* The call comes to nothing.
Ignored == UNCHANGED hintVars

DoOrEnd(h, enabled_) == Calls(binder, IF enabled_ THEN DoStep(h) ELSE EndStep(h))

\* Mutant: only what is turned on marks the mode as on.
setModeMutant(type, enabled_) ==
  CASE type = "SUSTAINED_PERFORMANCE" ->
         /\ IF enabled_ THEN Calls(binder, DoStep(type)) ELSE Ignored
         /\ mSustainedPerfModeOn' = enabled_
    [] type = "LAUNCH" /\ mSustainedPerfModeOn ->
         Ignored /\ UNCHANGED mSustainedPerfModeOn
    [] OTHER ->
         DoOrEnd(type, enabled_) /\ UNCHANGED mSustainedPerfModeOn

\* Power::setMode.  SUSTAINED_PERFORMANCE, once it was heard of, stays.
setMode(type, enabled_) ==
  CASE type = "SUSTAINED_PERFORMANCE" ->
         /\ IF enabled_ THEN Calls(binder, DoStep(type)) ELSE Ignored
         /\ mSustainedPerfModeOn' = TRUE
    [] type = "LAUNCH" /\ mSustainedPerfModeOn ->
         Ignored /\ UNCHANGED mSustainedPerfModeOn
    [] OTHER ->
         DoOrEnd(type, enabled_) /\ UNCHANGED mSustainedPerfModeOn

\* Of InteractionHandler, which calls with its mLock held.
InteractionLocked ==
  \E t \in Threads : \E i \in DOMAIN stack[t] : stack[t][i].hint = "INTERACTION"

\* InteractionHandler::Acquire does its hint or finds that it is done already.
Acquire ==
  /\ ~InteractionLocked
  /\ Ignored \/ Calls(binder, DoStep("INTERACTION"))

\* A boost that is passed on: with a duration, without one, or to be ended.
Boost(name) ==
  \/ \E enabled_ \in BOOLEAN : DoOrEnd(name, enabled_)
  \/ \E m \in Overrides[name] : Calls(binder, DoOverrideStep(name, m))

\* Power::setBoost
setBoost(type) ==
  IF mSustainedPerfModeOn THEN Ignored
  ELSE IF type = "INTERACTION" THEN Acquire
  ELSE Boost(type)

\* The binder thread is free for a call.
Free == life = "up" /\ stack[binder] = <<>>

PowerCall ==
  /\ Free
  /\ \/ \E type \in Modes \cap Hints, enabled_ \in BOOLEAN :
          /\ setMode(type, enabled_)
          /\ asked' = IF enabled_ THEN asked \cup ({type} \cap Recorded)
                      ELSE asked \ {type}
     \/ \E type \in Boosts \cap Hints : setBoost(type) /\ UNCHANGED <<mSustainedPerfModeOn, asked>>
     \/ \E name \in ExtNames \cap Hints : Boost(name) /\ UNCHANGED <<mSustainedPerfModeOn, asked>>
  /\ UNCHANGED <<life, restoring, started, current_val_index_, written, property, killing,
                 crashes>>

\* DispIdle and PowerHintMonitor call HintManager themselves.
OtherCall ==
  /\ life = "up"
  /\ \E t \in Threads \ {binder} :
       /\ CallDo(t) \/ CallEnd(t)
       /\ stack'[t][1].hint = "INTERACTION" => ~InteractionLocked
  /\ UNCHANGED <<processVars, worldVars>>

-----------------------------------------------------------------------------
(* The looper's property nodes *)

Asks(h, n, v) ==
  \E a \in actions_[h].node_actions : a.node_index = n /\ a.value_index = v

\* The value that PropertyNode::Update finds: the first that a hint asks for.
ValueFor(n) ==
  LET vs == {v \in DOMAIN nodes_[n].values :
               \E h \in Hints : request[h] > now /\ Asks(h, n, v)}
  IN  IF vs = {} THEN DefaultOf[n] ELSE Min(vs)

\* PropertyNode::Update, when it has something to set.
Update(n) ==
  /\ started
  /\ current_val_index_[n] # ValueFor(n)
  /\ current_val_index_' = [current_val_index_ EXCEPT ![n] = ValueFor(n)]
  /\ property' = [property EXCEPT ![nodes_[n].path] = nodes_[n].values[ValueFor(n)]]
  /\ written' = written \cup {n}
  /\ UNCHANGED <<hintVars, life, restoring, mSustainedPerfModeOn, started, killing, crashes,
                 asked>>

-----------------------------------------------------------------------------

HintStep ==
  /\ \/ \E t \in Threads : Step(t)
     \/ Tick
  /\ UNCHANGED <<processVars, worldVars>>

Next ==
  \/ main \/ Restore \/ Serve \/ StartLooper
  \/ Crash \/ FrameworkDies \/ Kill
  \/ PowerCall \/ OtherCall
  \/ HintStep
  \/ \E n \in PropertyNodes : Update(n)

Spec == PowerInit /\ [][Next]_vars

-----------------------------------------------------------------------------
(* Properties *)

\* Once the service is up and between two calls: a mode that the framework has
\* on and that the looper recorded is on, even if the process died since; and
\* while the looper has nothing to do, a property says what is on, unless this
\* process never set it, and boosts stay out while sustained performance is
\* on.  (Power::Power, PropertyNode::Update; "restart powerHAL when framework
\* died", android.hardware.power-service.cepheus-libperfmgr.rc)
ModesSurvive ==
  Free /\ ~killing =>
    /\ \A p \in Properties :
         property[p] \in asked => request[property[p]] = Forever
    /\ \A n \in PropertyNodes :
         started /\ current_val_index_[n] = ValueFor(n) =>
           \/ property[nodes_[n].path] = nodes_[n].values[ValueFor(n)]
           \/ n \notin written /\ ValueFor(n) = DefaultOf[n]
    /\ "SUSTAINED_PERFORMANCE" \in Hints /\ request["SUSTAINED_PERFORMANCE"] = Forever
         => mSustainedPerfModeOn

=============================================================================
