SPECIFICATION Spec
CONSTANTS
    NonFinite = 1000000
    UInt32Modulus = 2048
    UInt64Modulus = 4096
    Profile <- MCProfile
    RawValues <- MCRawValues
    JsonValues <- MCJsonValues
    Edits = 2
INVARIANTS NoImplicitDefault RoundTripFaithful AcceptedEverywhere
\* A verdict on the configuration is final.
CHECK_DEADLOCK FALSE
