SPECIFICATION MCSpec
SYMMETRY Alike
CONSTANTS
    cable = cable
    receiver = receiver
    unified = unified
    p1 = p1
    p2 = p2
    Device <- MCDevice
    Pass <- MCPass
    Popup <- MCOne
    Tags <- MCTags
    Key <- MCKey
    LegacyKey <- MCLegacyKey
    NoFile = NoFile
    Unreadable = Unreadable
    NoCache = NoCache
    Retention = 3
    MaxSamples = 4
    MaxClears = 1
    MaxBuilds = 1
    MaxMishaps = 1
INVARIANTS
    TypeOK
    GroupsAreDevices
    NothingForgotten
    ClearedStaysCleared
PROPERTIES
    SavedStaysSaved
\* The bounds on samples and clears let the instance come to rest.
CHECK_DEADLOCK FALSE
