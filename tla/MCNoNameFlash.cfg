SPECIFICATION Spec
CONSTANTS
    FLASH_SIZE = 3
    Bits = {0, 1}
    SignBit = 1
    Image <- MC_Image
    Contents <- MC_Contents
    WriteRetries = 1
    EraseRetries = 3
    MaxWeak = 3
    MaxBroken = 2
    MaxRefused = 1
INVARIANTS FlashHoldsImage
PROPERTIES ErasesOnlyCleared ProgrammingEnds
