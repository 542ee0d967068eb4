SPECIFICATION Spec
CONSTANTS
    Sessions <- MCSessions
INVARIANTS OperandsAlive NoLeak MembersTruthful ResultCurrent
PROPERTIES CallsReturn
\* No call is left once the session's calls are made.
CHECK_DEADLOCK FALSE
