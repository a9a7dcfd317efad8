---------------------------- MODULE HintManager ----------------------------
(***************************************************************************)
(* libperfmgr's HintManager: DoHint and EndHint, the hint actions they     *)
(* carry out in turn, the enabled flag that MaskHint clears, and the       *)
(* statistics kept of every hint.                                          *)
(*                                                                         *)
(* HintManager has no lock of its own.  A call is a sequence of steps, one *)
(* for each lock it takes (NodeLooperThread's, the status mutex) or flag   *)
(* it touches; the steps a thread has still to take are its stack.  Of the *)
(* nodes a hint asks for, only how long it asks for them is kept.          *)
(***************************************************************************)
EXTENDS HintConfig

CONSTANTS
  Docs,           \* configurations
  Names,          \* names of hints that documents and callers know
  Overrides,      \* name -> timeout_ms_override callers pass, 0 for forever
  Threads,
  Does,           \* thread -> the names it calls DoHint with
  Ends,           \* thread -> the names it calls EndHint with
  MaxNow,         \* bound: milliseconds in one behaviour
  MaxCount        \* bound: calls of DoHint stop when a hint was done so often

Types == {"DoHint", "EndHint", "MaskHint"}
Forever == MaxNow + 1
TimeMin == -1
\* ReqTime of a request that is not there
NoRequest == TimeMin

\* JSON arrays are sequences, JSON numbers are integers.
IsList(s) == s \in Seq(Range(s))

ASSUME ConstantsAssumption ==
  /\ \A d \in Docs :
       /\ IsList(d.Actions)
       /\ \A i \in DOMAIN d.Actions :
            /\ d.Actions[i].PowerHint \in Names \cup {""}
            /\ ~IsNodeAction(d.Actions[i]) => d.Actions[i].Value \in Names \cup {""}
            /\ IsUInt64(d.Actions[i].Duration) => d.Actions[i].Duration \in 0 .. MaxNow
       /\ \A n \in DOMAIN d.Nodes :
            /\ IsList(d.Nodes[n].Values)
            /\ IsUInt64(d.Nodes[n].DefaultIndex) => d.Nodes[n].DefaultIndex \in Nat
  /\ Overrides \in [Names -> SUBSET (0 .. MaxNow)]
  /\ Does \in [Threads -> SUBSET Names]
  /\ Ends \in [Threads -> SUBSET Names]
  /\ MaxNow \in Nat
  /\ MaxCount \in Nat

\* timeouts: those of the node actions requested.
Steps ==
  [op : {"do"}, hint : Names, overrides : SUBSET (0 .. MaxNow)]
    \cup [op : {"request"}, hint : Names, timeouts : SUBSET (0 .. MaxNow)]
    \cup [op : {"doStatus"}, hint : Names, timeout_ms : 0 .. MaxNow]
    \cup [op : {"end", "cancel", "endStatus", "mask", "unmask"}, hint : Names]

VARIABLES
  doc,          \* the configuration of this device
  nodes_,       \* the nodes it is parsed to, NodeLooperThread's
  actions_,     \* hint -> its node_actions, hint_actions and max_timeout
  now,          \* steady_clock
  enabled,      \* hint -> Hint::enabled
  request,      \* hint -> when its last request ends, as NodeLooper has it
  start_time,   \* hint -> HintStatus::start_time
  end_time,     \* hint -> HintStatus::end_time
  count,        \* hint -> stats.count
  duration_ms,  \* hint -> stats.duration_ms
  stack,        \* thread -> steps its call has still to take
  done          \* history: hints done and not ended since

configVars == <<doc, nodes_, actions_>>
hintVars ==
  <<configVars, now, enabled, request, start_time, end_time, count, duration_ms, stack, done>>
statusVars == <<start_time, end_time, count, duration_ms>>

Times == TimeMin .. Forever

Hints == DOMAIN actions_

\* Every action of an accepted document is about a node and a value there is,
\* no hint acts on a node twice, and a hint has something to do.
\* (ParseNodes, ParseActions)
ActionsLand ==
  Hints # {} =>
    /\ \A n \in DOMAIN nodes_ : nodes_[n].default_val_index_ \in DOMAIN nodes_[n].values
    /\ \A h \in Hints :
         LET as == actions_[h].node_actions
         IN  /\ as # {} \/ actions_[h].hint_actions # <<>>
             /\ \A a \in as :
                  /\ a.node_index \in DOMAIN nodes_
                  /\ a.value_index \in DOMAIN nodes_[a.node_index].values
                  /\ \A b \in as : a.node_index = b.node_index => a = b

\* Every variable keeps its type: above all no span of negative length is
\* ever added to the unsigned duration.  (HintStatus, HintManager.h)
HintTypes ==
  /\ doc \in Docs
  /\ now \in 0 .. MaxNow
  /\ enabled \in [Hints -> BOOLEAN]
  /\ request \in [Hints -> Times]
  /\ start_time \in [Hints -> TimeMin .. MaxNow]
  /\ end_time \in [Hints -> Times]
  /\ count \in [Hints -> Nat]
  /\ duration_ms \in [Hints -> Nat]
  /\ stack \in [Threads -> Seq(Steps)]
  /\ done \in [Hints -> BOOLEAN]

Everywhere(v) == [h \in Hints |-> v]

\* A HintManager just made from the document.
Init ==
  /\ doc \in Docs
  /\ nodes_ = ParseNodes(doc)
  /\ actions_ = HintsOf(doc)
  /\ now = 0
  /\ enabled = Everywhere(TRUE)
  /\ request = Everywhere(NoRequest)
  /\ start_time = Everywhere(TimeMin)
  /\ end_time = Everywhere(TimeMin)
  /\ count = Everywhere(0)
  /\ duration_ms = Everywhere(0)
  /\ stack = [t \in Threads |-> <<>>]
  /\ done = Everywhere(FALSE)

\* The process is gone, and with it all but the document and the clock.
Lost ==
  /\ enabled' = Everywhere(TRUE)
  /\ request' = Everywhere(NoRequest)
  /\ start_time' = Everywhere(TimeMin)
  /\ end_time' = Everywhere(TimeMin)
  /\ count' = Everywhere(0)
  /\ duration_ms' = Everywhere(0)
  /\ stack' = [t \in Threads |-> <<>>]
  /\ done' = Everywhere(FALSE)
  /\ UNCHANGED <<configVars, now>>

-----------------------------------------------------------------------------

\* When something asked for timeout_ms from now on ends.
EndsAt(timeout_ms) ==
  IF timeout_ms = 0 \/ now + timeout_ms > MaxNow THEN Forever ELSE now + timeout_ms

\* DoHint(h), and DoHint(h, m): every node action is asked for m.
DoStep(h) == [op |-> "do", hint |-> h, overrides |-> {}]
DoOverrideStep(h, m) == [op |-> "do", hint |-> h, overrides |-> {m}]
EndStep(h) == [op |-> "end", hint |-> h]

ActionStep(action) ==
  CASE action.type = "DoHint" -> DoStep(action.value)
    [] action.type = "EndHint" -> EndStep(action.value)
    [] OTHER -> [op |-> "mask", hint |-> action.value]

DoHintAction(h) ==
  LET as == actions_[h].hint_actions IN [i \in DOMAIN as |-> ActionStep(as[i])]

\* Mutant: ending a hint does not unmask what it masked.
EndHintActionMutant(h) == <<>>

EndHintAction(h) ==
  LET as == actions_[h].hint_actions
      masks == ElementsAt(as, {i \in DOMAIN as : as[i].type = "MaskHint"})
  IN  [i \in DOMAIN masks |-> [op |-> "unmask", hint |-> masks[i].value]]

\* Thread t calls: its first step is step.
Calls(t, step) ==
  /\ stack[t] = <<>>
  /\ step.op = "do" => \A h \in Hints : count[h] < MaxCount
  /\ stack' = [stack EXCEPT ![t] = <<step>>]
  /\ UNCHANGED <<configVars, now, enabled, request, statusVars, done>>

CallDo(t) == \E h \in Does[t] : Calls(t, DoStep(h))

CallEnd(t) == \E h \in Ends[t] : Calls(t, EndStep(h))

\* Thread t takes the step on top of its stack and puts steps in its place.
Top(t) == Head(stack[t])

Takes(t, op) == stack[t] # <<>> /\ Top(t).op = op

Puts(t, steps) == stack' = [stack EXCEPT ![t] = steps \o Tail(@)]

\* DoHint up to its Request: a hint that is not there, or not enabled, is not
\* done.
DoHint(t) ==
  /\ Takes(t, "do")
  /\ LET h == Top(t).hint
         timeouts == Timeouts(actions_[h].node_actions)
         overridden == IF Top(t).overrides = {} \/ timeouts = {} THEN timeouts
                       ELSE Top(t).overrides
         timeout_ms == IF Top(t).overrides = {} THEN actions_[h].max_timeout
                       ELSE Min(Top(t).overrides)
     IN  Puts(t, IF h \in Hints /\ enabled[h]
                 THEN <<[op |-> "request", hint |-> h, timeouts |-> overridden],
                        [op |-> "doStatus", hint |-> h, timeout_ms |-> timeout_ms]>>
                      \o DoHintAction(h)
                 ELSE <<>>)
  /\ UNCHANGED <<configVars, now, enabled, request, statusVars, done>>

\* NodeLooperThread::Request: the later end of the old and the new request.
Request(t) ==
  /\ Takes(t, "request")
  /\ request' = [request EXCEPT
       ![Top(t).hint] = Max({@} \cup {EndsAt(m) : m \in Top(t).timeouts})]
  /\ Puts(t, <<>>)
  /\ UNCHANGED <<configVars, now, enabled, statusVars, done>>

\* Mutant: the span in progress is recorded as well.
OverMutant(h) == TRUE

Over(h) == now > end_time[h]

\* Mutant: the operands are swapped.
SpanMutant(h) == start_time[h] - end_time[h]

Span(h) == end_time[h] - start_time[h]

Start(h) == IF Over(h) THEN now ELSE start_time[h]

DoHintStatus(t) ==
  /\ Takes(t, "doStatus")
  /\ LET h == Top(t).hint
     IN  /\ count' = [count EXCEPT ![h] = @ + 1]
         /\ duration_ms' = [duration_ms EXCEPT ![h] = IF Over(h) THEN @ + Span(h) ELSE @]
         /\ start_time' = [start_time EXCEPT ![h] = Start(h)]
         /\ end_time' = [end_time EXCEPT ![h] = EndsAt(Top(t).timeout_ms)]
         /\ done' = [done EXCEPT ![h] = TRUE]
  /\ Puts(t, <<>>)
  /\ UNCHANGED <<configVars, now, enabled, request>>

Mask(t) ==
  /\ Takes(t, "mask")
  /\ enabled' = [h \in Hints |-> enabled[h] /\ h # Top(t).hint]
  /\ Puts(t, <<>>)
  /\ UNCHANGED <<configVars, now, request, statusVars, done>>

\* EndHint does not look at the enabled flag.
EndHint(t) ==
  /\ Takes(t, "end")
  /\ LET h == Top(t).hint
     IN  Puts(t, IF h \in Hints
                 THEN <<[op |-> "cancel", hint |-> h], [op |-> "endStatus", hint |-> h]>>
                      \o EndHintAction(h)
                 ELSE <<>>)
  /\ UNCHANGED <<configVars, now, enabled, request, statusVars, done>>

Cancel(t) ==
  /\ Takes(t, "cancel")
  /\ request' = [request EXCEPT ![Top(t).hint] = NoRequest]
  /\ Puts(t, <<>>)
  /\ UNCHANGED <<configVars, now, enabled, statusVars, done>>

\* start_time stays: the next DoHint adds the span that is added here again.
EndHintStatus(t) ==
  /\ Takes(t, "endStatus")
  /\ LET h == Top(t).hint
         early == now < end_time[h]
     IN  /\ duration_ms' = [duration_ms EXCEPT
              ![h] = IF early THEN @ + (now - start_time[h]) ELSE @]
         /\ end_time' = [end_time EXCEPT ![h] = IF early THEN now ELSE @]
         /\ done' = [done EXCEPT ![h] = FALSE]
  /\ Puts(t, <<>>)
  /\ UNCHANGED <<configVars, now, enabled, request, start_time, count>>

Unmasked(t) ==
  /\ Takes(t, "unmask")
  /\ enabled' = [h \in Hints |-> enabled[h] \/ h = Top(t).hint]
  /\ Puts(t, <<>>)
  /\ UNCHANGED <<configVars, now, request, statusVars, done>>

\* Bound: the clock stands where no hint ends by itself.
Timed == \E h \in Hints : Timeouts(actions_[h].node_actions) \ {0} # {}

Tick ==
  /\ Timed
  /\ now < MaxNow
  /\ now' = now + 1
  /\ UNCHANGED <<configVars, enabled, request, statusVars, stack, done>>

Step(t) ==
  \/ DoHint(t) \/ Request(t) \/ DoHintStatus(t) \/ Mask(t)
  \/ EndHint(t) \/ Cancel(t) \/ EndHintStatus(t) \/ Unmasked(t)

-----------------------------------------------------------------------------

Quiet == \A t \in Threads : stack[t] = <<>>

Masks(m, h) ==
  \E i \in DOMAIN actions_[m].hint_actions :
    actions_[m].hint_actions[i] = [type |-> "MaskHint", value |-> h]

\* Once every call has returned, a hint is disabled exactly when a hint that
\* masks it was done and not ended since, whatever other threads did in
\* between.  It needs what HintManager.h asks for: one writer of enabled.
\* (DoHintAction, EndHintAction)
MaskHolds ==
  Quiet => \A h \in Hints : enabled[h] <=> ~ \E m \in Hints : Masks(m, h) /\ done[m]

\* Once every call has returned, the statistics do not say that a hint is
\* over while NodeLooper still has a request of it, unless callers override
\* its timeout; and a hint that nobody ends was never recorded for longer than
\* the clock has run.  (InitHintStatus, DoHintStatus, EndHintStatus)
StatusHolds ==
  \A h \in Hints :
    /\ Quiet /\ Overrides[h] = {} => request[h] <= end_time[h]
    /\ (\A t \in Threads : h \notin Ends[t]) => duration_ms[h] <= now

\* What the calls did is what they promise: the hints that are disabled, and
\* the statistics of each.  (DoHintAction, EndHintAction, HintStatus)
HintsHold == MaskHolds /\ StatusHolds
=============================================================================
