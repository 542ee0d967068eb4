SPECIFICATION Spec
CONSTANTS
    Locations <- MCLocations
    Count = 6
    Neighbors = {2, 3}
    LeafCapacity = 2
INVARIANTS StackBounded SameNeighborhood VisitedOnce
\* The kernel returns once.
CHECK_DEADLOCK FALSE
