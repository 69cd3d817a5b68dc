SPECIFICATION FairSpec
CONSTANTS
    p1 = p1
    p2 = p2
    ana = ana
    bo = bo
    db = db
    Pages = {p1, p2}
    Users = {ana, bo}
    Nobody = Nobody
    Name <- Names
    Devices = {db}
    NoDevice = NoDevice
    Owner <- Owners
    MaxTokens = 3
    MaxInFlight <- InFlight
    Scenarios <- Cases
INVARIANTS
    TypeOK
    SetupIsClosed
    
PROPERTIES
    RevokedInOwnersName
    AdminsGetIn
CHECK_DEADLOCK FALSE
