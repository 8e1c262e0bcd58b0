SPECIFICATION EncodeSpec
CONSTANTS
    Size = 4
    MaxItems = 2
CHECK_DEADLOCK FALSE
INVARIANTS
    VerdictRight
