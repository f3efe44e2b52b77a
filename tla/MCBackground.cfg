\* One device, two overlapping runs, two channels; two requests for a backup,
\* one upload, two seconds.  Of the changes only "offline" is enabled: "online" is
\* treated like it.
SPECIFICATION SpecEither
CONSTANTS
    h1 = h1
    h2 = h2
    Device = {"d"}
    Important = {"d"}
    Senders = 2
    Wanted = {"new", "offline"}
    MaxRuns = 2
    MaxLog = 3
    Handler = {h1, h2}
    Upload = {"up"}
    Keep = 1
    MaxSec = 1
SYMMETRY Symmetry
INVARIANTS
    RepeatedForCause
    TwiceAsLogged
    ServedComplete
    NothingLost
PROPERTIES
    NewestKept
