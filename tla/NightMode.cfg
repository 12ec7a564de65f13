SPECIFICATION FairSpec
CONSTANTS
    a = a
    b = b
    NoDevice = none
    Unnamed = unnamed
    Identity <- MCIdentity
    Device <- MCDevice
    Supports <- MCSupports
    AtFirst <- MCAtFirst
    Filed <- MCFiled
    MaxEvents = 2
    MaxMishaps = 1
INVARIANT TypeOK
PROPERTIES
    KeepsPromise
    DayGivesBack
