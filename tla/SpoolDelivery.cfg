SPECIFICATION FairSpec
CONSTANTS
    Captures = {"a", "b", "d"}
    Keys <- RetryKeys
    KeyOf <- RetryKeyOf
    FreshOf <- RetryKeyOf
    PayloadOf <- RetryPayloadOf
    ClassOf <- RetryClassOf
    MaxFiles = 1
    Faults = {"busy", "io", "kill"}
INVARIANTS
    SpoolBounded
PROPERTIES
    Delivered
CHECK_DEADLOCK FALSE
