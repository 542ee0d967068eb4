SPECIFICATION FairSpec
CONSTANTS
    Budget = 3
    Capacity = 6
    BlockSize = 2
    ThreadLimit = 64
    SizeModulus = 2
    PointCounts <- MCPointCounts
INVARIANTS
    TypeOK
    PendingIsExact
    NoRace
    DisjointBlocks
PROPERTIES
    Implements
    RunReturns
    StopReturns
\* After the destructor there is nothing left to do.
CHECK_DEADLOCK FALSE
