\* The daemon's start, requests and end.
SPECIFICATION Spec
CONSTANTS
    MaxInt64 = 3
    MaxUint64 = 5
    Settings <- MCSettings
    Requests <- MCRequests
    MaxRequests = 1
INVARIANTS
    PidFileFollowsProcess
    DisplayRoundTrips
    QueriesAllowed
    QueriesMakeSense
PROPERTIES
    SignalEnds
CHECK_DEADLOCK FALSE
