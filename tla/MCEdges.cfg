\* Requests of up to three networks in a block of 8 addresses; messages of up
\* to six bytes; one page, a channel of two places, three scans.
SPECIFICATION FairSpec
CONSTANTS
    Block = 8
    Sizes = {1, 2, 4, 8}
    MaxCount = 4
    MaxNets = 3
    MaxTotal = 5
    MostInt = 99
    Byte = {0, 1, 2, 3, 192}
    MaxLen = 6
    MaxItems = 2
    MaxDepth = 2
    Pointer = 192
    Ptr = 1
    Browser = {"page"}
    Room = 2
    MaxRuns = 3
INVARIANTS
    FedOnce
    ReadsInside
    ShownForCause
PROPERTIES
    FeederEnds
    ReadingEnds
\* A request that is refused or through, and a message that is read, stop.
CHECK_DEADLOCK FALSE
