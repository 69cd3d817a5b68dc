SPECIFICATION FairSpec
CONSTANTS
    Panels = {p1}
    Passwords = {good}
    NoPassword = NoPassword
    MaxMinutes = 2
    DefaultMinutes = 1
    MaxMessages = 2
    MaxWipes = 0
PROPERTIES
    PanelsLockToo
