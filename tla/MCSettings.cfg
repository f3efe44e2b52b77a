\* Two requests at a time, failures, restarts and restores.
SPECIFICATION FairSpec
CONSTANTS
    h1 = h1
    h2 = h2
    Handler = {h1, h2}
    Key = {"interval", "other"}
    Interval = "interval"
    Valid <- MCValid
    Blank = Blank
    Env <- MCEnv
    Requests <- MCRequests
    Restores = TRUE
INVARIANTS
    OnlySavedInForce
    CalmMeansInForce
PROPERTIES
    PatchAnswered
    ScansKeepComing
