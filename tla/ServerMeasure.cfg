SPECIFICATION Spec
CONSTANTS
    a = a
    b = b
    Clients <- MCClients
    Commands <- AllMeasure
    MaxCounts = 2
    Channels = 2
    Terminates = FALSE
    NoOne = NoOne
    Stale = Stale
SYMMETRY ClientSymmetry
INVARIANTS SingleIsFresh CountIsFresh
\* Both clients may have disconnected.
CHECK_DEADLOCK FALSE
