SPECIFICATION FairSpec
CONSTANTS
    Panels = {p1, p2}
    Passwords = {good, other}
    NoPassword = NoPassword
    MaxMinutes = 2
    DefaultMinutes = 1
    MaxMessages = 4
    MaxWipes = 1
INVARIANTS
    TypeOK
    OptOutIsKept
    ManualLockForgets
    
    
PROPERTIES
    LeftAloneItLocks
