SPECIFICATION FairSpec
CONSTANTS
    receiver = receiver
    wired = wired
    Path <- MCReceiver
    Receiver <- MCReceiver
    NoProjection <- MCNone
    MaxChanges = 2
    MaxRequests = 2
INVARIANT FullRequestServed
PROPERTIES
    AwakeMouseShown
    FullReadsStop
