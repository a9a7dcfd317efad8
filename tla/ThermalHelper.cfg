CONSTANTS
    NaN = NaN
    Absent = Absent
    MaxSeverity = 2
    IntMax = 1000
    Forever = 1000
    kMinPollIntervalMs = 1
    kUeventPollTimeoutMs = 2
    NoEnergy = NoEnergy
    Invalid = Invalid
    MaxAge = 7
    Clients = {k1}
    Docs <- MCDocs
    Temps <- MCTemps
    Powers <- MCPowers
    SupportedModes <- MCSupportedModes
    TripKinds <- MCTripKinds
SPECIFICATION Spec
INVARIANTS TypeOK CdevsAgree ReadInTime ListenersTold
CONSTRAINT Focused
