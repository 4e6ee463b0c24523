SPECIFICATION Spec
CONSTANTS
    Captures = {"h", "m"}
    Keys <- HookKeys
    KeyOf <- HookKeyOf
    FreshOf <- HookFreshOf
    PayloadOf <- HookPayloadOf
    ClassOf <- HookClassOf
    MaxFiles = 2
    Faults = {"timeout", "busy", "io", "kill", "power"}
INVARIANTS
    HandedOver
    OneIdentity
CHECK_DEADLOCK FALSE
