SPECIFICATION Spec
CONSTANTS
    a = a
    b = b
    Clients <- MCClients
    Commands <- OneCounts
    MaxCounts = 2
    Channels = 2
    Terminates = TRUE
    NoOne = NoOne
    Stale = Stale
 
PROPERTY CommandAnswered
\* Both clients may have disconnected.
CHECK_DEADLOCK FALSE
