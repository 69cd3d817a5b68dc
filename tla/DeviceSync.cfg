SPECIFICATION Spec
CONSTANTS
    Devices = {d1, d2}
    Records = {r1}
    Bodies <- BodyValues
    NoBody = NoBody
    NoRev = NoRev
    PageLimit = 1
    TicksPerSecond = 2
    MaxTime = 2
    MaxEdits = 3
    MaxRemovals = 1
INVARIANTS
    TypeOK
    VersionsComeFromServer
PROPERTIES
    NewestWriteWins
    CursorOnlyAdvances
SYMMETRY Symmetry
