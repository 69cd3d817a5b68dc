SPECIFICATION Spec
CONSTANTS
    Devices = {d1, d2}
    Records = {r1}
    Bodies <- BodyValues
    NoBody = NoBody
    NoRev = NoRev
    PageLimit = 2
    TicksPerSecond = 1
    MaxTime = 1
    MaxEdits = 3
    MaxRemovals = 0
PROPERTIES
    EditsAreNotLost
SYMMETRY Symmetry
