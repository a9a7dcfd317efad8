SPECIFICATION FairSpec
CONSTANTS
  Inputs <- MCInputs
  UintModulus = 16
  kWaitMs = 1
  kMinDurationMs = 2
  kMaxDurationMs = 5
  kDurationOffsetMs = 1
INVARIANTS
  TypeOK
  NoStaleAbort
  HintMatchesState
PROPERTIES
  IsLease
  NobodyWaits
