SPECIFICATION Spec
CONSTANTS
    Users = {u1, u2}
    Devices = {d1}
    Tokens = {t1, t2}
    Calls = {c1, c2}
    NoUser = NoUser
    NoDevice = NoDevice
    NoSession = NoSession
    TTL = 5
    MaxLifetime = 6
    TicksPerSecond = 2
    MaxTime = 5
INVARIANTS
    TypeOK
    LifetimeIsCapped
    BoundDevicesAreOwned
    OutStaysOut
PROPERTIES
    EndedSessionsStayEnded
SYMMETRY Symmetry
