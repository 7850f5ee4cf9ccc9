SPECIFICATION Spec
CONSTANTS
    Strategies = {s1, s2}
    EditDates = {d1, d2}
    MaxVersionId = 3
    None = None
    SignalTypes = {pump}
    Leds <- CleanLeds
    Faults = {"statement", "crash"}
INVARIANTS
    TypeOK
    OneVersionPerEdit
    LatestIsCurrent
    HistoryInv
PROPERTIES
    ImplementsHistory
