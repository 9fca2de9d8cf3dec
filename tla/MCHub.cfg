SPECIFICATION FairSpec
CONSTANTS
    Signal = {s1, s2}
    Token <- Tokens
    File <- Files
    Faults = {"paths", "start", "stop"}
CHECK_DEADLOCK FALSE
INVARIANTS
    SettingsHeeded
    DependenciesUp
    NothingLeftBehind
    OrphanedOnlyIfStopThrew
PROPERTIES
    BootEnds
    StopEnds
