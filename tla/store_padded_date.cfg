SPECIFICATION Spec
CONSTANTS
    Strategies = {s1}
    EditDates = {d1}
    MaxVersionId = 2
    None = None
    SignalTypes = {pump}
    Leds <- PaddedLeds
    Faults = {}
INVARIANTS
    OneVersionPerEdit
