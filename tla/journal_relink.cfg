SPECIFICATION Spec
CONSTANTS
    s1 = s1
    s2 = s2
    u1 = u1
    u2 = u2
    Strategies = {s1}
    EditDates = {}
    Leds <- MCLeds
    MaxVersionId = 2
    None = None
    Uids = {u1}
    OrderStates <- MCOrderStates
    Faults = {}
PROPERTIES
    LinkFixedAtExecution
