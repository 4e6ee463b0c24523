SPECIFICATION RuntimeSpec
CONSTANTS
    w1 = w1
    w2 = w2
    e1 = e1
    e2 = e2
    c1 = c1
    c2 = c2
    Configs = {"c1", "c2", "c3"}
    LlmOf <- MCLlmOf
    EmbedOf <- MCEmbedOf
    Bad = "bad"
    Off = "off"
    LlmWorkers = {w1, w2}
    EmbedCallers = {e1, e2}
    MaxEdits = 2
    Calls = {c1, c2}
    Lowest = 2
    Capacity <- MCCapacity
    Threshold = 2
    MayStayDown = {1}
    MaxFaults = 2
INVARIANTS RuntimeTypeOK HealthyWhenServed
PROPERTIES CooldownLasts
CHECK_DEADLOCK FALSE
