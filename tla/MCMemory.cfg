SPECIFICATION Spec
CONSTANTS
    MapCap = 16
    SuperShift = 2
    PageSize = 16
    WordSize = 2
    GuardBytes = 0
    ReuseMemory = TRUE
    MinPages = 8
    Palcode <- MC_Palcode
    Kernel <- MC_Kernel
    Loader <- MC_Loader
    Stub <- MC_Stub
    InitTops = {8, 11}
    ResetTops = {14}
    Junk <- MC_JunkUsed
    Sizes = {3, 8, 24}
    PageCounts = {2, 4}
    MaxHeld = 4
INVARIANTS BlocksApart OneOwner AllocatorInv
CHECK_DEADLOCK FALSE
