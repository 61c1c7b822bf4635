CONSTANTS
    NoPath = NoPath
    Levels = {1, 3, 5}
    Configs <- MCConfigs
    KB = 4
    LineSizes = {3, 5}
    Width = 64
    MaxOld = 5
    Paths = {A, B}
    FailAt = {"mkdir", "fopen", "rename", "remove"}
    Uses = {"defaults"}
    MaxLines = 4
SPECIFICATION Spec
INVARIANTS TypeOK OneHandle FullWhenRotated CounterNotAbove
CHECK_DEADLOCK FALSE
