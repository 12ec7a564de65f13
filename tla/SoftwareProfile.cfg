SPECIFICATION FairSpec
CONSTANTS
    a = a
    b = b
    c1 = c1
    c2 = c2
    NoDevice = none
    NoProfile = noprofile
    Device <- MCDevice
    Switchable <- MCSwitchable
    Command <- MCCommand
    MaxEvents = 3
INVARIANTS
    TypeOK
    ProfileKept
PROPERTIES
    ChoiceRestored
    GoneIsForgotten
