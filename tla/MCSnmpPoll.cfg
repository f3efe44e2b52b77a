\* A poll after a scan and one by the user, two requests, one restore.
SPECIFICATION Spec
CONSTANTS
    p1 = p1
    p2 = p2
    h1 = h1
    h2 = h2
    Poller = {p1, p2}
    Handler = {h1, h2}
    Limit = 1
    MaxId = 3
    MaxGen = 1
SYMMETRY Symmetry
INVARIANTS
    OnePoll
    SummaryMatchesTargets
    OvershootBounded
