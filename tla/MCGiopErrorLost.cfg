CONSTANTS
    GiopHdr = 2
    ReplyHdr = 2
    Word = 1
    Long = 1
    Pointer = 1
    ErrPack = 2
    DataHdr = 2
    AxesHdr = 3
    StatHdr = 2
    Junk <- MCJunk
    RemainCap = 9
    MaxRequests = 2
    Ops = {"melSetData"}
    Replies <- Answers
    SplitAt = {"replyHeader"}
    StallAt = {"header"}
    MayClose = FALSE
SPECIFICATION Spec
INVARIANTS ErrorStatusKept
