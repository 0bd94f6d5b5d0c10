SPECIFICATION Spec
CONSTANTS
    None = None
    Lines <- MC_Lines
    Args <- MC_Args
    Envs <- MC_Envs
    Config <- MC_Config
    ConfigCmds <- MC_ConfigCmds
    ConfigDev = "sda"
    ConfigTimeouts <- MC_Timeouts
    Typed <- MC_Typed
    Leftovers <- MC_Leftovers
    Length <- MC_Length
    RebootTimeout = 3
    MaxString = 2
    MaxRestarts = 2
INVARIANTS RebootRepeats MenuBootsChoice
PROPERTY UnattendedBoots
CHECK_DEADLOCK FALSE
