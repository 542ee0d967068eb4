SPECIFICATION Spec
CONSTANTS
    Locations <- MCLocations
    Queries <- MCQueries
    Count = 5
    Bounds = {0, 2, 40}
    LeafCapacity = 2
INVARIANTS PassedNoBetter NearestExact IndexWellFormed
\* The function returns once.
CHECK_DEADLOCK FALSE
