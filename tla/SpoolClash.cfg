SPECIFICATION Spec
CONSTANTS
    Captures = {"a", "b"}
    Keys <- ClashKeys
    KeyOf <- ClashKeyOf
    FreshOf <- ClashKeyOf
    PayloadOf <- ClashPayloadOf
    ClassOf <- ClashClassOf
    MaxFiles = 3
    Faults = {"busy"}
INVARIANTS
    HandedOver
CHECK_DEADLOCK FALSE
