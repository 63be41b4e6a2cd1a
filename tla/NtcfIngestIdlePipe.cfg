\* Cancelling while a pipe is idle.
CONSTANTS
    NLines = 2
    Decodable = {1}
    Overlong = {}
    Inputs = {"pipe"}
    Checkpointing = FALSE
    MaxFaults = 0
    MaxRestarts = 0

SPECIFICATION Spec

PROPERTY AnyCancelReturns

\* A run that returned, or was killed, does nothing more.
CHECK_DEADLOCK FALSE
