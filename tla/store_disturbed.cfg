SPECIFICATION Spec
CONSTANTS
    Strategies = {s1}
    EditDates = {d1, d2}
    MaxVersionId = 3
    None = None
    SignalTypes = {pump, drop}
    Leds <- PaddedLeds
    Faults = {"statement", "crash", "prune", "clock"}
PROPERTIES
    EditIsLatest
    SignalKept
