CONSTANTS
    STAT_UNIT_SIZE = 3
    Names = {1, 2, 3, 4}
    Prefix <- MCPrefix
    MaxBytes = 2
    MaxCount = 2
    MaxLines = 5
SPECIFICATION Spec
CHECK_DEADLOCK FALSE
INVARIANT LargestListed
