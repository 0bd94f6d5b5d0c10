SPECIFICATION Spec
CONSTANTS
    d1 = d1
    d2 = d2
    NoDevice = NoDevice
    Devices <- MC_Devices
    Disks <- MC_Disks
    SECTOR = 4
    BLOCK = 8
    Length = 16
    Reads <- MC_FileSystems
INVARIANTS ReadsExact OneRequest BufferHoldsBlock
PROPERTY ReadReturns
