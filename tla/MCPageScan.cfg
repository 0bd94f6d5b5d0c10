SPECIFICATION ScanSpec
CONSTANTS
    MapCap = 9
    SuperShift = 2
    LastPfns <- MC_LastPfns
    Counts <- MC_Counts
INVARIANT NothingSkipped
CHECK_DEADLOCK FALSE
