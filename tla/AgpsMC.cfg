CONSTANTS
    Handles = {h1, h2}
    MaxQueue = 4
    MaxRestarts = 1
    Cases <- MCCases
    MaxNotes = 3
    Patience = 1
    Delay = 2
    MaxEvents = 4
SPECIFICATION MCSpec
INVARIANTS TypeOK SubscribersHeld AgreesWhenQuiet NiAnswered OdcpiKept
PROPERTY ModemServed
CHECK_DEADLOCK FALSE
