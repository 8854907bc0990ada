SPECIFICATION Spec
CONSTANTS
    Bytes = {"0", "7", "i", "k", "sp", ";", "=", "cr", "lf", "ctl"}
    MaxDigits = 2
    MaxLen = 8
INVARIANTS
    TypeOK
    AcceptsLines
    WaitsOnlyForLines
    RejectsNoLine
