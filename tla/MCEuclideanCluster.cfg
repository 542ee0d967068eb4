SPECIFICATION Spec
CONSTANT Count = 5
INVARIANTS ForestShallow LabelsExact
\* The function returns once.
CHECK_DEADLOCK FALSE
