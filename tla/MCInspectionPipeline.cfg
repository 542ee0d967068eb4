SPECIFICATION Spec
CONSTANTS
    Reference <- MCReference
    Scans <- MCScans
    Boundaries <- MCBoundaries
    EstimatedNormals <- MCEstimatedNormals
    Solutions <- MCSolutions
    Capacity = 5
    MinValidPairs = 4
    MinOverlap = 50
    MaxRmse = 2
    MaxTranslation = 3
    MaxRotation = 3
    MaxSearch2 = 16
    MinCosine = 0
    MinCoverage = 50
    PositiveThreshold = 1
    NegativeThreshold <- MCNegativeThreshold
    ClusterTolerance2 = 3
    MinClusterPoints = 2
INVARIANTS
    PassMeansCovered
    EvidenceUsable
PROPERTIES
    Implements
    CallReturns
