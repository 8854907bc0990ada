SPECIFICATION Spec
CONSTANTS
    UsizeMax = 99
    Messages <- MCOneByOne
    Replies <- MCReplies
    MaxMsgs = 2
    Window = 1
    OutCap = 2
    RBufCap = 4
    LowCap = 1
    GrowBy = 2
    AllocMax = 40
INVARIANTS
    TypeOK
    AnswersAreFaithful
    HttpHeadFollowsIcapHead
    EncapsulatedOffsetIsHeadLength
    HttpHeadOfOwnRequest
    HeadersOfOwnAnswer
    No206WithoutAllow
    MemoryFollowsRequests
PROPERTIES
    ClearDropsOneAnsweredRequest
    ImplementsExchange
