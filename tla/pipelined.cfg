SPECIFICATION Spec
CONSTANTS
    UsizeMax = 99
    Messages <- MCPipeline
    Replies <- MCFew
    MaxMsgs = 3
    Window = 3
    OutCap = 2
    RBufCap = 4
    LowCap = 1
    GrowBy = 2
    AllocMax = 40
INVARIANTS
    AnswersInOrder
    CloseIsLast
    ServiceSeesOwnRequest
PROPERTIES
    ImplementsExchange
