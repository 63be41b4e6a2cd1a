\* Statements and searches; inverted indexes where a segment has one value.
CONSTANTS
    Null = Null
    HalfWord = 8
    BloomProbeCap = 2
    InvertedMaxCardinality = 1
    WithInverted = TRUE
    Probes <- ModProbes
    Types <- RecordTypes
    Indexed <- IndexedColumns
    SegmentRows = 2
    Tables <- AllTables
    Exprs <- AllExprs
    Stmts <- AllStmts
    Damages <- SomeDamage
    DefaultRowLimit = 2
    TextRank <- ByText

SPECIFICATION Spec

INVARIANTS
    TypeOK
    AnswerExact
    PrunedHasNoMatch
    OnlyNeededColumns
    SearchFindsAll

\* A query that answered or failed does nothing more.
CHECK_DEADLOCK FALSE
