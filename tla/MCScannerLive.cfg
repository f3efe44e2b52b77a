\* Termination of every scan: two runs, two workers, the database healthy.
SPECIFICATION FairSpec
CONSTANTS
    a1 = a1
    a2 = a2
    a3 = a3
    Addr = {a1, a2}
    NoAddr = NoAddr
    Requests <- MCRequests
    Gateways = {}
    MaxConcurrency = 2
    MaxRuns = 2
    Faults = FALSE
PROPERTIES
    RunEnds
    RowSettles
\* With MaxRuns scans done the server only waits for requests.
CHECK_DEADLOCK FALSE
