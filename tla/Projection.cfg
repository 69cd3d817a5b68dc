SPECIFICATION FairSpec
CONSTANTS
    Devices = {d1, d2}
    Nobody = Nobody
    TicksPerSecond = 2
    MaxTime = 2
    MaxEdits = 2
    MaxUpsets = 1
INVARIANTS
    TypeOK
    
PROPERTIES
    AccountsFollowItems
