SPECIFICATION BootSpec
CONSTANTS
    MapCap = 32
    SuperShift = 2
    PageSize = 16
    WordSize = 2
    GuardBytes = 0
    ReuseMemory = FALSE
    MinPages = 14
    Palcode <- MC_Palcode
    Kernel <- MC_Kernel
    Loader <- MC_Loader
    Stub <- MC_Stub
    InitTops = {23, 28}
    ResetTops = {30}
    Junk <- MC_JunkUsed
    Sizes = {10, 20}
    PageCounts = {1, 2}
    MaxHeld = 20
    MaxKernelSize = 48
    Slack = 4
    IobufSize = 4
    InbufSize = 2
    WindowSize = 13
    FileSizes = {28, 48}
    ExpandedSizes = {28, 48, 60}
    Images <- MC_Images
    Ramdisks = {1, 9, 12, 25}
    PromptHeld = 2
    MaxAttempts = 2
INVARIANTS LinuxKeepsWhatItNeeds TablesHitNothing LoadsStayApart CopyHitsNothing
CHECK_DEADLOCK FALSE
