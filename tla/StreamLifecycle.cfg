SPECIFICATION Spec
CONSTANTS
    DropFirst = 1
    MaxStarts = 2
    MaxStops = 1
INVARIANTS TypeOK DefinedAlone StopHasReason
PROPERTIES StopStops StopEnds FailureStops
\* After the exit, or what is undefined, nothing happens.
CHECK_DEADLOCK FALSE
