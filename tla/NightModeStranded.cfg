SPECIFICATION Spec
CONSTANTS
    a = a
    b = b
    NoDevice = none
    Unnamed = unnamed
    Identity <- MCIdentity
    Device <- MCDevice
    Supports <- MCSupports
    AtFirst <- MCAtFirst
    Filed <- MCFiled
    MaxEvents = 3
    MaxMishaps = 1
INVARIANT NoStrandedLight
