\* Words of ten bits: the code's numbers scaled down, their order kept.
CONSTANTS
    Width = 10
    Kilo = 4
    MaxSeconds = 16
    FloatExact = 128
    UpperCase <- SomeUpperCase
    Lines <- SomeLines

SPECIFICATION Spec

INVARIANTS
    RecordFitsSchema
    OneColumnPerName
    EpochUnitsAgree
    CountersExact
    WebLineReadBack

\* A line is decoded once.
CHECK_DEADLOCK FALSE
