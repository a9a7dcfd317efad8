CONSTANTS
    NULL = NULL
    c1 = c1
    c2 = c2
    Clients = {c1, c2}
    Delays = {1, 2}
    MaxNow = 2
    MaxStarts = 3
    XTRA = XTRA
    hub = hub
    Observers = {XTRA, hub}
    NETWORKINFO = NETWORKINFO
    tac = tac
    mccmnc = mccmnc
    Items = {NETWORKINFO, tac, mccmnc}
    Values = {1, 2}
    Networks <- MCNetworks
    MAX_NETWORK_HANDLES = 3
    Listening <- MCListening
    Callers = {hub}
    Lists <- MCLists
    DataUses <- MCDataUses
    MaxDataQueue = 2
    NONE = NONE
    Locks = {0, 1}
    Streams <- MCStreams
    MaxSessions = 2
SPECIFICATION MCSpec
INVARIANTS TypesOK ArmedWhenQuiet StatusTold
PROPERTIES EveryTimerEnds
CHECK_DEADLOCK FALSE
