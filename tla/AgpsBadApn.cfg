SPECIFICATION FairSpec
CONSTANTS
  Handles = {h1, h2}
  MaxQueue = 3
  MaxRestarts = 1
PROPERTY RequestAnswered
CHECK_DEADLOCK FALSE
