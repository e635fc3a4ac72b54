CONSTANTS
    Bytes <- MCBytes
    Zero = 0
    Data <- MCData
    kCheapPrepend = 1
    kInitialSize = 2
    kExtraBuf = 2
    MaxSize = 6
    Word = 8
    LongWord = 64
    time_t = 64
    Factor = 2
    MaxTimers = 4
    PolicyMax = 3
    Letters <- MCLetters
    Lower <- MCLower
    MaxTags = 5
    MaxTag = 2
    Widths <- MCWidths
    Heights = {1, 2, 3}
    DWORD = 4
SPECIFICATION Spec
INVARIANTS
    IndicesInOrder
    OnTime
    RestIsLeft
    FilteredByTheList
    FillsRaw
    ReadsTheFormat
    WritesTheFormat
PROPERTIES
    ImplementsByteQueue
    GrowsOnlyWhenFull
    StoppedStaysSilent
    SchedulerReturns
