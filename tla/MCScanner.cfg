\* Safety of the scan engine: two runs, two workers, faults and restarts.
SPECIFICATION Spec
CONSTANTS
    a1 = a1
    a2 = a2
    a3 = a3
    Addr = {a1, a2}
    NoAddr = NoAddr
    Requests <- MCOddRequests
    Gateways = {a1}
    MaxConcurrency = 2
    MaxRuns = 2
    Faults = TRUE
INVARIANTS
    OneActiveRun
    ProgressExact
    AnsweredNotMissed
    RowTellsOwnRun
PROPERTIES
    ImplementsService
\* With MaxRuns scans done the server only waits for requests.
CHECK_DEADLOCK FALSE
