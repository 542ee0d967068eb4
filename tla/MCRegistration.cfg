SPECIFICATION Spec
CONSTANTS
    ReferenceSize = 4
    Capacities = {0, 3, 4}
    ScanSizes = {1, 3, 5}
    GpuMinPoints = 4
    BlockSize = 2
    MaxIterations = 3
    Residuals = {0, 1, 4}
    ResidualEpsilon = 2
    Calls = 2
INVARIANTS SumsFresh ConvergenceMeans
PROPERTIES AlignReturns
\* No call is left once Calls is reached.
CHECK_DEADLOCK FALSE
