\* Two records, a line the adapter skips, and one that is too long; a crash and
\* a second process; every kind of source.
CONSTANTS
    NLines = 4
    Decodable = {1, 2}
    Overlong = {4}
    Inputs = {"pipe", "file", "tail", "tail_end"}
    Checkpointing = TRUE
    MaxFaults = 1
    MaxRestarts = 1

SPECIFICATION Spec

INVARIANTS
    TypeOK
    EveryLineOnce
    NilMeansComplete
    StatsAddUp
    TornLineDropped
    DeadlineHonoured

PROPERTIES
    CancelReturns
    EndReturns

\* A run that returned, or was killed, does nothing more.
CHECK_DEADLOCK FALSE
