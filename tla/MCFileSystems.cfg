SPECIFICATION files_Spec
CONSTANTS
    Disk <- MC_Disk
    Image <- MC_Image
    Truth <- MC_Truth
    MaxFaults = 1
    EXT2_NDIR_BLOCKS = 2
    ptrs_per_blk = 2
    SECTOR_SIZE = 12
    MSDOS_DPS = 2
    MSDOS_FAT12 = 6
    SHRT_MAX = 17
    ISO_BLOCK = 4
    HEADER = 2
    CD_SIZE = 50
    CRUFT_SIZE = 16
    FsNames = {"any", "msdos"}
    MaxBlocks = 7
VIEW MC_View
PROPERTIES LookupsExact CachesHonest FilesExact ListsExact CommandsReturn
