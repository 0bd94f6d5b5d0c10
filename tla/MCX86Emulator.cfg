CONSTANTS
    LongBits = 24
    MemSize = 65536
    MaxSteps = 12
    Jobs <- MCJobs
    Pci <- MCPci
SPECIFICATION Spec
INVARIANTS
    RoundTrips
PROPERTIES
    InstructionsApart
    ArithmeticExact
    BranchesDecide
    StringsExact
    OperandsFound
CHECK_DEADLOCK FALSE
