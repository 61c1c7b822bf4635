CONSTANTS
    Conns = {c1, c2}
    Fds = {0, 3, 4, 5}
SPECIFICATION ConnSpec
INVARIANTS ConnTypeOK OwnDescriptor OnlyOverwrittenLost ErrorTablesAgree
PROPERTIES ConnectCause
CHECK_DEADLOCK FALSE
