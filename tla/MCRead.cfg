CONSTANTS
    Conns = {c1}
    Fds = {3}
    Fns <- MCFns
    Modes = {0, 3}
    Runs = {0, 1}
    Codes = {0, 7}
    Counts = {0, 3}
    Numbers = {1, 2}
    AxisIndexes = {2, 8, 9}
    DayLen = 2
    LastDate = 2
    MaxChanges = 2
SPECIFICATION Spec
INVARIANTS ReadTypeOK StatusTrue ClockNeverAhead NothingHalfWritten AxesAligned OutputsRead OkMeansAnswered
PROPERTIES ConnSpec
CHECK_DEADLOCK FALSE
