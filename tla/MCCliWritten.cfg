SPECIFICATION Spec
CONSTANT Runs = 1
INVARIANT OkMeansWritten
\* No run is left once Runs is reached.
CHECK_DEADLOCK FALSE
