\* Two copies of rbuilder; one of the files a project may have is hidden.
SPECIFICATION Spec
CONSTANTS
    Builders = {1, 2}
    Names = {"temp.c", ".conf"}
    TempNames = {"temp.c"}
    HiddenNames = {".conf"}
    MaxRuns = 3
    MaxFaults = 1
CHECK_DEADLOCK FALSE
INVARIANT AllTransferred
