\* Texts of five characters; queries of twelve tokens, and of twenty with a long WHERE.
CONSTANTS
    Names <- SomeNames
    PlainName = "a"
    Numbers = {"0", "2", "1.5"}
    PlainNumber = "2"
    Atoi <- SomeAtoi
    Strings = {"v"}
    Bounds <- SomeBounds
    MaxText = 5

SPECIFICATION MCSpec

INVARIANTS
    NeverPastEnd
    MeaningOfGrammar
    RefusedOutsideGrammar
    AnyValueQuotable
    TokensKept

\* A query that was parsed or refused is done with.
CHECK_DEADLOCK FALSE
