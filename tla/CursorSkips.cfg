SPECIFICATION Spec
CONSTANTS
    Devices = {d1, d2}
    Records = {r1, r2}
    Bodies <- BodyValues
    NoBody = NoBody
    NoRev = NoRev
    PageLimit = 2
    TicksPerSecond = 1
    MaxTime = 0
    MaxEdits = 3
    MaxRemovals = 0
INVARIANTS
    CursorCoversReceived
SYMMETRY Symmetry
