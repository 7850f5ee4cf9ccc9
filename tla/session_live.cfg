SPECIFICATION FairSpec
CONSTANTS
    s1 = s1
    s2 = s2
    u1 = u1
    u2 = u2
    None = None
    Gone = Gone
    OtherSchema = other
    Strategies = {s1}
    Uids = {u1}
    EditDates = {1, 2}
    MaxVersionId = 2
    MaxKnown = 2
    MaxQueue = 2
    Schemas = {}
    SignalTypes = {}
    Leds <- MCLeds
    OrderStates <- MCOrderStates
    Created <- MCCreated
    Progress <- MCProgress
    Edited <- MCEdited
    ModuleSets <- BothModules
    Faults = {}
CHECK_DEADLOCK FALSE
PROPERTIES
    ExecutedTradesReachJournal
    EditsReachHistory
