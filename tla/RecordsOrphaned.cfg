SPECIFICATION Spec
CONSTANTS
    Devices = {d1, d2}
    w1 = w1
    w2 = w2
    Passwords = {w1, w2}
    Choices <- SmallChoices
    NoPassword = NoPassword
    Keys = {k1, k2, k3}
    NoKey = NoKey
    MaxSessions = 4
    MaxRecords = 1
    Troubled = {}
    MaxFaults = 0
INVARIANTS
    RecordsUseVaultKey
