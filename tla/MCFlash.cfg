SPECIFICATION Spec
CONSTANTS
    FLASH_BLOCKS = 6
    Image <- MC_Image
    Layouts <- MC_Layouts
INVARIANT OneEnvironment
PROPERTIES DebugMonitorSafe ForeignSpared
