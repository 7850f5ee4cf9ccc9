SPECIFICATION FairSpec
CONSTANTS
    a = a
    b = b
    x = x
    y = y
    None = None
    Sessions = {t1, t2, t3}
    Names = {a, b}
    Texts = {x, y}
    Schemas <- MCSchemas
    Curations = {"described"}
    Faults = {"statement", "crash"}
INVARIANTS
    RowsInv
    NoDeadlockInOneOrder
PROPERTIES
    ImplementsTable
    CallsEnd
