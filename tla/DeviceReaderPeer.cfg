SPECIFICATION Spec
CONSTANTS
    receiver = receiver
    wired = wired
    Path <- MCPath
    Receiver <- MCReceiver
    NoProjection <- MCNoProjection
    MaxChanges = 2
    MaxRequests = 1
INVARIANT FullRequestServed
