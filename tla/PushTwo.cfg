CONSTANTS
    c1 = c1
    c2 = c2
    Conns = {c1, c2}
    Keys = {1, 2}
    ForeignKinds = {"other"}
    MaxPendingUpdates = 1
    MaxOverflowUpdates = 1
    MaxDiffEvents = 1
    MaxRounds = 2
    MaxRetries = 1
    MaxEvents = 2
    MaxRequests = 1
    MaxBinds = 2
    MaxDrops = 1
    MaxLosses = 1
SPECIFICATION Spec
SYMMETRY Symmetry
INVARIANTS WatermarkIsContiguous
CHECK_DEADLOCK FALSE
