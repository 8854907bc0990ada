SPECIFICATION FairSpec
CONSTANTS
    UsizeMax = 99
    Messages <- MCMixed
    Replies <- MCFew
    MaxMsgs = 2
    Window = 1
    OutCap = 1
    RBufCap = 4
    LowCap = 1
    GrowBy = 2
    AllocMax = 40
PROPERTIES
    ReadRequestIsAnswered
    ConnectionEnds
