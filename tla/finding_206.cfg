SPECIFICATION Spec
CONSTANTS
    UsizeMax = 99
    Messages <- MCHonest
    Replies <- MCFew
    MaxMsgs = 1
    Window = 1
    OutCap = 2
    RBufCap = 4
    LowCap = 1
    GrowBy = 2
    AllocMax = 40
INVARIANTS
    AppendedHeadersAreSentAs206
