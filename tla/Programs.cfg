\* Every small program in turn; each of them ends.
SPECIFICATION Spec
CONSTANTS
    STAT_UNIT_SIZE = 3
    Urls = {1, 2, 3, 4}
    Prefix <- MCPrefix
    MaxBytes = 2
    MaxCount = 2
    MaxLines = 5
    Requests <- MCRequests
    Sizes <- MCSizes
    Referers <- MCReferers
    STR_MAX = 26
    MaxRead = 2
    MaxFile = 3
    Builders = {1, 2}
    Names = {"temp.c", ".conf"}
    TempNames = {"temp.c"}
    HiddenNames = {".conf"}
    MaxRuns = 3
    MaxFaults = 1
    InBytes = {0, 65, 255}
    Codes <- MCCodes
    UcsCodes <- MCUcsCodes
    MaxInput = 3
    BUFF_LEN = 4
    Pieces <- MCPieces
    MaxPieces = 3
    MaxCut = 3
    Methods <- MCMethods
    Paths <- MCPaths
    Headers <- MCHeaders
    LineMax = 10
    MethodMax = 3
    PathMax = 2
    MaxHeaders = 2
    Ids = {1, 8, 9}
    MaxKeys = 2
    Values <- MCValues
    Null = 100
    Half = 4
    MaxRows = 3
    MaxRecords = 4
    BUF_SIZE = 2
    MaxSize = 9
CHECK_DEADLOCK FALSE
INVARIANT TopIsLargest
INVARIANT RefsCounted
INVARIANT LineParsed
INVARIANT FreshBuild
INVARIANT HostKept
INVARIANT Utf8RoundTrip
 
INVARIANT RequestRead
INVARIANT RightPlace
INVARIANT StatsTrue
INVARIANT FatalLast
INVARIANT Accounted
INVARIANT ReplyMeans
