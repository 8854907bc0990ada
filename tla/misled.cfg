SPECIFICATION Spec
CONSTANTS
    UsizeMax = 99
    Messages <- MCMisled
    Replies <- MCFew
    MaxMsgs = 2
    Window = 2
    OutCap = 2
    RBufCap = 4
    LowCap = 1
    GrowBy = 2
    AllocMax = 40
INVARIANTS
    BufferSafe
    HeadsDecodedInPlace
PROPERTIES
    ClearDropsWholeRequest
    ImplementsExchange
