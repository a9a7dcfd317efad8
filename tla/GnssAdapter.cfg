CONSTANTS
    NumClients = 2
    OptionSet <- MCOptionSet
    Uses <- MCUses
    ConfigSet <- MCConfigSet
    MIN_TRACKING_INTERVAL = 1
    TRACKING_TBM_THRESHOLD_MILLIS = 2
    MaxCalls <- MCMaxCalls
    MaxRestarts = 1
    MaxQueue = 2
SPECIFICATION Spec
INVARIANTS TypeOK ModemAgrees AnsweredOnce
CHECK_DEADLOCK FALSE
