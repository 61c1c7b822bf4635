CONSTANTS
    GiopHdr = 2
    ReplyHdr = 2
    Word = 1
    Long = 1
    Pointer = 1
    ErrPack = 2
    DataHdr = 2
    AxesHdr = 3
    StatHdr = 2
    Junk <- MCJunk
    RemainCap = 9
    MaxRequests = 2
    Ops = {"melGetData", "melGetDataAxes", "melSetData", "melGetCurrentAlarmMsg", "melGetCurrentPrgBlock", "melFsOpenFile", "melFsReadFile", "melFsCloseFile", "melFsCreateFile", "melRemoveFile", "melFsWriteFile", "melFSStatFile", "melFsOpenDirectory", "melFsCloseDirectory", "melFsReadDirectory", "CancelModal2"}
    Replies <- Answers
    SplitAt = {"data", "rest"}
    StallAt = {"header"}
    MayClose = FALSE
SPECIFICATION FairSpec
INVARIANTS AnswerReported DataWhole
PROPERTIES ImplementsRpc CallReturns
