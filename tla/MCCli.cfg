SPECIFICATION Spec
CONSTANT Runs = 3
INVARIANTS ManifestNotAhead ExitCodeTruthful
PROPERTIES RunEnds
\* No run is left once Runs is reached.
CHECK_DEADLOCK FALSE
