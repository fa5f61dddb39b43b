SPECIFICATION Spec
CHECK_DEADLOCK FALSE
SYMMETRY Symmetry
CONSTANTS
    q1 = q1
    q2 = q2
    q3 = q3
    hrKey = hrKey
    dbKey = dbKey
    trace1 = trace1
    Req <- MCReq
    Token <- MCToken
    Trace <- MCTrace
    TokenOf <- MCTokenOf
    TraceOf <- MCTraceOf
    Limit = 1
    NoDoc = NoDoc
    MaxSweeps = 1
    MaxCrashes = 1
    MaxExpiries = 1
INVARIANTS
    QuotaHolds
    TriggeredIffLogged
    AcknowledgedUseIsLogged
PROPERTIES
    HistoryKept
    RememberedStaysQuiet
