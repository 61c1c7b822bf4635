CONSTANTS
    GiopHdr = 2
    ReplyHdr = 2
    Word = 1
    Long = 1
    Pointer = 1
    ErrPack = 2
    DataHdr = 2
    AxesHdr = 3
    StatHdr = 2
    Junk <- MCJunk
    RemainCap = 9
    MaxRequests = 2
    Ops = {"melGetData", "melSetData", "melGetCurrentAlarmMsg", "melFsReadFile"}
    Replies <- Messages
    SplitAt = {"replyHeader", "excLength", "excText", "excPack", "excDrain", "field", "data", "rest", "drain"}
    StallAt = {"header", "replyHeader", "excLength", "excText", "excPack", "excDrain", "field", "data", "rest", "drain"}
    MayClose = TRUE
SPECIFICATION Spec
INVARIANTS TypeOK Framing RemainCoversReply LostCallFails DataWhole
PROPERTIES NoStaleReply LostConnectionUntouched
