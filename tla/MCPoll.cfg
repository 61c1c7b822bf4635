CONSTANTS
    conn0 = c1
    Conns = {c1}
    Fds = {3}
    TEST_COUNT = 2
    Fns <- MCFns
    Modes = {0, 3}
    Runs = {1}
    Codes = {7}
    Counts = {0, 2}
    Numbers = {1}
    AxisIndexes = {1}
    DayLen = 1
    LastDate = 1
    MaxChanges = 1
SPECIFICATION PollFairSpec
INVARIANTS PollTypeOK LossCounted CleanEnd
PROPERTIES Spec ProgramEnds
CHECK_DEADLOCK FALSE
