CONSTANTS
    NoPath = NoPath
    Levels = {1, 3, 5}
    Configs <- MCConfigs
    KB = 4
    LineSizes = {3, 5}
    Width = 64
    MaxOld = 5
    Paths = {A}
    FailAt = {}
    Uses = {}
    MaxLines = 8
SPECIFICATION Spec
INVARIANTS OldestLostFirst HistoryKept FileTargetOpen
