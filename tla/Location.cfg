CONSTANTS
    i1 = i1  i2 = i2  m1 = m1  m2 = m2
    Ids <- MCIds
    Masks <- MCMasks
    Interfaces <- MCInterfaces
    Uses <- MCUses
    HwIds = {1, 2}
    MaxCalls = 4
    MaxRestarts = 2
    SessionIds <- MCIds
    Scenarios <- MCScenarios
    Intervals = {1, 2}
    Distances = {1, 2}
    MaxDeaths = 1
    MaxOdometer = 2
    Width = 16
SYMMETRY MCSymmetry
SPECIFICATION MCSpec
INVARIANTS TypesOK FencesAsTold AnsweredOnce SessionsServed TripsKept
CHECK_DEADLOCK FALSE
