SPECIFICATION Spec
CONSTANTS
    Captures = {"h", "m"}
    Keys <- HookKeys
    KeyOf <- HookKeyOf
    FreshOf <- HookFreshOf
    PayloadOf <- HookPayloadOf
    ClassOf <- HookClassOf
    MaxFiles = 3
    Faults = {}
INVARIANTS
    AckedSurvivesPowerLoss
CHECK_DEADLOCK FALSE
