SPECIFICATION FairSpec
CONSTANTS
    Acceptors = {a1, a2}
    Conns = {c1, c2}
    Workers = {w1}
    IdRange <- MCIdRange
    MaxInput <- MCMaxInput
INVARIANTS
    TypeOK
    IdsAreUnique
    AcceptedIsKept
PROPERTIES
    QueuedIsRun
    BacklogIsServed
