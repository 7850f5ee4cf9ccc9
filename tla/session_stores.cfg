SPECIFICATION Spec
CONSTANTS
    s1 = s1
    s2 = s2
    u1 = u1
    u2 = u2
    None = None
    Gone = Gone
    OtherSchema = other
    Strategies = {s1}
    Uids = {u1}
    EditDates = {1, 2}
    MaxVersionId = 2
    MaxKnown = 2
    MaxQueue = 1
    Schemas = {}
    SignalTypes = {}
    Leds <- MCLeds
    OrderStates <- MCOrderStates
    Created <- MCCreated
    Progress <- NamingAny
    Edited <- MCEdited
    ModuleSets <- BothModules
    Faults = {"statement", "crash", "snapshot", "prune", "clock", "removal"}
INVARIANTS
    TypeOK
PROPERTIES
    LinkIsLatestWhenWritten
    JournalGoesForward
    ImplementsStrategyStore
    ImplementsOrderStore
