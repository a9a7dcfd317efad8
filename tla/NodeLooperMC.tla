---------------------------- MODULE NodeLooperMC ----------------------------
(***************************************************************************)
(* Small instances of NodeLooper: a FileNode with three values that is     *)
(* reset on init (as the cpufreq nodes of powerhint.json), a node that     *)
(* holds its descriptor (as PMQoSCpuDmaLatency) and a PropertyNode (as     *)
(* PowerHALMainState).                                                     *)
(***************************************************************************)
EXTENDS NodeLooper

CONSTANTS freq, latency, state, launch, interaction

MCDefaultIndex == [n \in Nodes |-> 2]

\* launch outranks interaction on freq and shares the value of latency; only
\* launch sets the property.
MCHintValue ==
  [h \in Hints |-> [n \in Nodes |->
     CASE n = freq -> IF h = launch THEN 0 ELSE 1
       [] n = latency -> 0
       [] OTHER -> IF h = launch THEN 0 ELSE NoAction]]
=============================================================================
