SPECIFICATION Spec
CONSTANTS
    Words <- MCWords
    Number <- MCNumber
    Lower <- MCLower
    Headers <- OneHeader
    MaxHeaders = 1
    UsizeMax = 1000
INVARIANTS
    TypeOK
    AcceptsWhatIsSaid
PROPERTIES
    EveryTurnAdvances
