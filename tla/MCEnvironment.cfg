SPECIFICATION Spec
CONSTANTS
    a = a
    b = b
    v1 = v1
    v2 = v2
    None = None
    Torn = Torn
    Vars <- MC_Vars
    Values <- MC_Values
    Initial <- MC_Initial
    NVARS = 3
INVARIANTS OneChunkPerVariable SavedIsCurrent OthersSurvive FlashNeverStale
SYMMETRY MC_Symmetry
