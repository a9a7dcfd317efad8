SPECIFICATION FairSpec
CONSTANTS
  freq = freq
  latency = latency
  state = state
  launch = launch
  interaction = interaction
  Nodes = {freq}
  HoldFdNodes = {}
  PropertyNodes = {}
  NumValues = 3
  DefaultIndex <- MCDefaultIndex
  ResetOnInit = {freq}
  Hints = {launch, interaction}
  HintValue <- MCHintValue
  Timeouts = {0, 1}
  MaxTimeout = 1
  RetryMs = 1
  Callers = {c1}
  MaxFailures = 0
  MaxPassMs = 1
PROPERTY StopReturns
