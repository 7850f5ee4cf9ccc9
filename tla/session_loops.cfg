SPECIFICATION Spec
CONSTANTS
    s1 = s1
    s2 = s2
    u1 = u1
    u2 = u2
    None = None
    Gone = Gone
    OtherSchema = other
    Strategies = {s1, s2}
    Uids = {u1, u2}
    EditDates = {1}
    MaxVersionId = 2
    MaxKnown = 2
    MaxQueue = 2
    Schemas = {c1, c2}
    SignalTypes = {}
    Leds <- MCLeds
    OrderStates <- MCOrderStates
    Created <- MCCreated
    Progress <- MCProgress
    Edited <- MCEdited
    ModuleSets <- AnyModules
    Faults = {"statement", "crash", "connect", "runtime", "others"}
SYMMETRY NameSymmetry
INVARIANTS
    StrategiesFollowServer
    JournalFollowsServer
    ParametersFollowSchema
    SyncLinksOrders
PROPERTIES
    ModulesOffWriteNothing
