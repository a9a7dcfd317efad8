SPECIFICATION FairSpec
CONSTANTS
  freq = freq
  latency = latency
  state = state
  launch = launch
  interaction = interaction
  Nodes = {freq, latency, state}
  HoldFdNodes = {latency}
  PropertyNodes = {state}
  NumValues = 3
  DefaultIndex <- MCDefaultIndex
  ResetOnInit = {freq}
  Hints = {launch, interaction}
  HintValue <- MCHintValue
  Timeouts = {0, 1, 2, 4}
  MaxTimeout = 2
  RetryMs = 1
  Callers = {c1}
  MaxFailures = 1
  MaxPassMs = 1
INVARIANTS
  TypeOK
  NoMissedExpiry
  HeldUnlessRefused
PROPERTIES KeptUntilEnd FileNodesSettle
