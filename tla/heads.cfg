SPECIFICATION Spec
CONSTANTS
    Messages <- MCMessages
    MaxHeaders = 2
    Addresses = {100, 200}
    MaxMsgs = 2
INVARIANTS
    TypeOK
    HeadersAreThoseSent
    AppendedHeadIsTheOneSent
    RefusedForAFault
