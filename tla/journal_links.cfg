SPECIFICATION Spec
CONSTANTS
    s1 = s1
    s2 = s2
    u1 = u1
    u2 = u2
    Strategies = {s1, s2}
    EditDates = {}
    Leds <- MCLeds
    MaxVersionId = 3
    None = None
    Uids = {u1}
    OrderStates <- NamingAny
    Faults = {"statement", "crash", "prune"}
INVARIANTS
    TypeOK
    ReasonNamesCode
PROPERTIES
    LinkSound
    LinkNeverOlder
    TradesKept
