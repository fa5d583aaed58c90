SPECIFICATION Spec
CONSTANTS
    MaxLen = 6
    Streams <- MCStreams
    MAX_BUFF_SIZE = 4
    MAX_ARGS = 0
INVARIANT InBounds
PROPERTIES LinesInOrder LinesAnswered
\* The connection is closed, or the process has crashed.
CHECK_DEADLOCK FALSE
