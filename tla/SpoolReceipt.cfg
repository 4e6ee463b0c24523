SPECIFICATION SpecL
CONSTANTS
    Captures = {"m"}
    Keys = {"km"}
    KeyOf <- OneKeyOf
    FreshOf <- OneKeyOf
    PayloadOf <- OnePayloadOf
    ClassOf <- OneClassOf
    MaxFiles = 1
    Faults = {}
    Followed = "m"
INVARIANTS
    AcceptedIsNotMissing
CHECK_DEADLOCK FALSE
