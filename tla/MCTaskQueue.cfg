CONSTANTS
    Key = {k1, k2, k3}
    MaxJobs = 3
SPECIFICATION Spec
CHECK_DEADLOCK FALSE
INVARIANTS
    MutualExclusion
    MapTracksLast
    ChainInv
PROPERTIES
    RunsInKeyOrder
