SPECIFICATION Spec
CONSTANTS
    t1 = t1
    t2 = t2
    t3 = t3
    m1 = m1
    k1 = k1
    Head = Head
    NULL = NULL
    AddTimers <- MC_AddTimers
    ModTimers <- MC_ModTimers
    Tasks <- MC_Tasks
    TVR_SIZE = 2
    TVN_SIZE = 2
    Delays <- MC_Delays
    HandlerDelays <- MC_HandlerDelays
    MaxJiffies = 3
INVARIANT ListIntact
PROPERTIES ImplementsQueue TimersAndTasksRun
