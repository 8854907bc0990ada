SPECIFICATION Spec
CONSTANTS
    Bytes = {"0", "i", "sp", ";", "=", "quote", "backslash", "cr", "lf", "ctl"}
    MaxDigits = 16
    MaxLen = 9
INVARIANTS
    SlicesInBounds
    AcceptsLines
