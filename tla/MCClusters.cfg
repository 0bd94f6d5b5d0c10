SPECIFICATION Spec
CONSTANTS
    MapCap = 6
    SuperShift = 2
    Lasts <- MC_Lasts
INVARIANT ClusterInv
CHECK_DEADLOCK FALSE
