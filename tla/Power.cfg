SPECIFICATION Spec
CONSTANTS
  Absent = Absent
  binder = binder
  other = other
  Docs <- MCDocs
  Names <- MCNames
  Overrides <- MCOverrides
  Threads = {binder, other}
  Does <- MCDoes
  Ends <- MCEnds
  MaxNow = 3
  MaxCount = 2
  Modes = {"SUSTAINED_PERFORMANCE", "AUDIO_STREAMING_LOW_LATENCY", "EXPENSIVE_RENDERING", "DEVICE_IDLE", "LAUNCH"}
  Boosts = {"INTERACTION", "ML_ACC"}
  ExtNames = {"FIXED_PERFORMANCE", "ML_ACC"}
  MaxCrashes <- MCMaxCrashes
INVARIANTS
  TypeOK
  HintsHold
  ModesSurvive
CHECK_DEADLOCK FALSE
