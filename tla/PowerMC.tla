------------------------------ MODULE PowerMC ------------------------------
(***************************************************************************)
(* Small configurations for Power: one whose hints do, end and mask each   *)
(* other, two cut out of powerhint.json, and some that are refused.        *)
(***************************************************************************)
EXTENDS Power

CONSTANT other

Node(name, path, type, values, default) ==
  [Name |-> name, Path |-> path, Type |-> type, Values |-> values, DefaultIndex |-> default]

Act(hint, node, value, duration) ==
  [PowerHint |-> hint, Type |-> "", Node |-> node, Value |-> value, Duration |-> duration]

HintAct(hint, type, value) ==
  [PowerHint |-> hint, Type |-> type, Node |-> "", Value |-> value, Duration |-> Absent]

CPU == Node("CPU", "/cpu", "", <<"fast", "slow", "idle">>, 2)
GPU == Node("GPU", "/gpu", "File", <<"585", "427">>, 0)
MainState == Node("Main", StateProp, "Property", <<"SUSTAINED_PERFORMANCE", "">>, Absent)
AudioState == Node("Audio", AudioProp, "Property", <<"AUDIO_STREAMING_LOW_LATENCY", "">>, Absent)
RenderingState == Node("Rendering", RenderingProp, "Property", <<"EXPENSIVE_RENDERING", "">>, -1)

Sustained == <<Act("SUSTAINED_PERFORMANCE", "Main", "SUSTAINED_PERFORMANCE", 0),
               Act("SUSTAINED_PERFORMANCE", "CPU", "slow", 0)>>
Audio == <<Act("AUDIO_STREAMING_LOW_LATENCY", "Audio", "AUDIO_STREAMING_LOW_LATENCY", 0)>>
Interaction == <<Act("INTERACTION", "CPU", "fast", 0)>>
Rendering == <<Act("EXPENSIVE_RENDERING", "Rendering", "EXPENSIVE_RENDERING", 0)>>

\* DEVICE_IDLE masks the hint of PowerHintMonitor's thread, FIXED_PERFORMANCE
\* ends the one and does the other.
MaskDoc ==
  [Nodes |-> <<CPU, GPU>>,
   Actions |-> <<Act("DISABLE_TA_BOOST", "CPU", "fast", 1),
                 Act("DISABLE_TA_BOOST", "GPU", "585", 2),
                 Act("DEVICE_IDLE", "CPU", "slow", 0),
                 Act("DEVICE_IDLE", "GPU", "427", 1),
                 HintAct("DEVICE_IDLE", "MaskHint", "DISABLE_TA_BOOST"),
                 HintAct("FIXED_PERFORMANCE", "EndHint", "DEVICE_IDLE"),
                 HintAct("FIXED_PERFORMANCE", "DoHint", "DISABLE_TA_BOOST")>>]

\* ML_ACC has timeouts of its callers; LAUNCH does it, and a hint that is not
\* there; sustained performance stops both.
BoostDoc ==
  [Nodes |-> <<CPU, GPU>>,
   Actions |-> <<Act("ML_ACC", "CPU", "fast", 1), Act("ML_ACC", "GPU", "585", 2),
                 HintAct("LAUNCH", "DoHint", "ML_ACC"),
                 HintAct("LAUNCH", "DoHint", "DEVICE_IDLE"),
                 Act("SUSTAINED_PERFORMANCE", "CPU", "slow", 0)>>]

StateDoc == [Nodes |-> <<CPU, MainState, AudioState>>, Actions |-> Sustained \o Audio]
RenderingDoc ==
  [Nodes |-> <<CPU, AudioState, RenderingState>>, Actions |-> Audio \o Rendering \o Interaction]

RefusedDocs ==
  {[MaskDoc EXCEPT !.Nodes = <<CPU>>],
   [MaskDoc EXCEPT !.Nodes = @ \o <<CPU>>],
   [MaskDoc EXCEPT !.Nodes[2].DefaultIndex = 2],
   [MaskDoc EXCEPT !.Nodes[2].Values = <<>>],
   [MaskDoc EXCEPT !.Actions[5].Type = "Node"],
   [MaskDoc EXCEPT !.Actions[1].Node = "GPU", !.Actions[1].Value = "427"],
   [MaskDoc EXCEPT !.Actions = <<>>]}

MCDocs == {MaskDoc, BoostDoc, StateDoc, RenderingDoc} \cup RefusedDocs

MCNames ==
  {"SUSTAINED_PERFORMANCE", "AUDIO_STREAMING_LOW_LATENCY", "AUDIO_LOW_LATENCY",
   "EXPENSIVE_RENDERING", "DISABLE_TA_BOOST", "INTERACTION", "FIXED_PERFORMANCE", "LAUNCH",
   "DEVICE_IDLE", "ML_ACC"}

MCOverrides == [h \in MCNames |-> IF h = "ML_ACC" THEN {1, 2} ELSE {}]

MCDoes == [t \in {binder, other} |-> IF t = other THEN {"DISABLE_TA_BOOST"} ELSE {}]
MCEnds ==
  [t \in {binder, other} |-> IF t = other THEN {"INTERACTION"} ELSE MCNames \ {"DISABLE_TA_BOOST"}]

MCMaxCrashes == [d \in MCDocs |-> IF d \in {MaskDoc, BoostDoc} THEN 0 ELSE 2]
=============================================================================
