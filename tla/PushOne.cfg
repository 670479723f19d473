CONSTANTS
    c1 = c1
    c2 = c2
    Conns = {c1}
    Keys = {1}
    ForeignKinds = {"other", "silent"}
    MaxPendingUpdates = 1
    MaxOverflowUpdates = 1
    MaxDiffEvents = 5
    MaxRounds = 2
    MaxRetries = 4
    MaxEvents = 3
    MaxRequests = 2
    MaxBinds = 1
    MaxDrops = 0
    MaxLosses = 0
SPECIFICATION Spec
INVARIANTS WatermarkIsContiguous NothingLeftBehind
PROPERTIES GenericWaitsForResult DeliverReturns
CHECK_DEADLOCK FALSE
