\* Scans, SNMP polls, edits, crashes and failing statements, interleaved, with
\* the code's own factor and minimum; fair scans for the liveness property.
SPECIFICATION FairSpec
CONSTANTS
    d1 = d1
    Device = {d1}
    Thresholds = {1, 2, 4}
    OccasionalFactor = 4
    OccasionalMin = 12
    Cap = 16
    EventLimit = 1
INVARIANTS
    FailuresExact
    EventsChain
PROPERTIES
    OfflineEarned
    SuspectedFirst
    SilentGoesOffline
