CONSTANTS
    NumClients = 2
    OptionSet <- MCOptionSet
    Uses <- MCHurried
    ConfigSet <- MCConfigSet
    MIN_TRACKING_INTERVAL = 1
    TRACKING_TBM_THRESHOLD_MILLIS = 2
    MaxCalls <- MCHurriedCalls
    MaxRestarts = 1
    MaxQueue = 2
SPECIFICATION Spec
INVARIANTS StoppedStaysStopped
CHECK_DEADLOCK FALSE
