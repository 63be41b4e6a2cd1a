\* Ranges over times on both sides of the epoch.
CONSTANTS
    Null = Null
    HalfWord = 8
    BloomProbeCap = 2
    InvertedMaxCardinality = 1
    WithInverted = FALSE
    Probes <- ModProbes
    Types <- RecordTypes
    Indexed <- IndexedColumns
    SegmentRows = 2
    Tables <- PreEpochTables
    Exprs <- RangeExprs
    Stmts <- RangeStmts
    Damages <- NoDamage
    DefaultRowLimit = 2
    TextRank <- ByText

SPECIFICATION Spec

INVARIANT AnswerExact

\* A query that answered or failed does nothing more.
CHECK_DEADLOCK FALSE
