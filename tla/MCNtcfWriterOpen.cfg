\* Opening, without recovery, what a crash leaves.
CONSTANTS
    Null = Null
    HalfWord = 4
    NCols = 2
    Indexed <- OnlyColumnTwo
    HeaderLen = 1
    ChunkLen = 2
    IndexLen = 1
    FooterLen = 2
    MaxSegmentRows = 8
    MaxSegments = 8
    MagicVals = {1}
    Records <- RecordsWithNull
    TsCol = 1
    SegmentRows = 2
    DefaultRows = 3
    MaxRecords = 3
    MaxFaults = 0

SPECIFICATION Spec

INVARIANT CheckpointedFileOpens

\* The caller may stop calling, and a crashed process does nothing.
CHECK_DEADLOCK FALSE
