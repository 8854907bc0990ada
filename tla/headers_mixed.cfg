SPECIFICATION Spec
CONSTANTS
    Words <- MCWords
    Number <- MCNumber
    Lower <- MCLower
    Headers <- MixedHeaders
    MaxHeaders = 3
    UsizeMax = 1000
INVARIANTS
    AcceptsWhatIsSaid
    LeavesWhatIsSaid
