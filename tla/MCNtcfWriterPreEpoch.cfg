\* Records on both sides of the epoch.
CONSTANTS
    Null = Null
    HalfWord = 4
    NCols = 2
    Indexed <- OnlyColumnTwo
    HeaderLen = 1
    ChunkLen = 2
    IndexLen = 1
    FooterLen = 2
    MaxSegmentRows = 8
    MaxSegments = 8
    MagicVals = {1}
    Records <- RecordsAroundEpoch
    TsCol = 1
    SegmentRows = 2
    DefaultRows = 3
    MaxRecords = 3
    MaxFaults = 0

SPECIFICATION Spec

INVARIANT TimeSpanExact

\* The caller may stop calling, and a crashed process does nothing.
CHECK_DEADLOCK FALSE
