SPECIFICATION Spec
CONSTANTS
    None = None
    Servers = {1, 2}
    Listeners <- MCListeners
    OtherModules = {"other"}
    Trades = {t1}
    Faults = {"error", "crash"}
INVARIANTS
    TypeOK
    ScriptsApply
    ReadyWhenServing
PROPERTIES
    AllServersOrNone
    StartKeepsData
    StartEnds
