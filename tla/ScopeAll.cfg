SPECIFICATION Spec
CONSTANTS
    Settings <- MCSettings
    Mode <- MCMode
    Long <- MCLong
    Default = "autoShort"
    AutoResults <- MCAutoResults
    Requests <- All
    MaxRequests = 3
    Parts = 2
    Iterations = 2
INVARIANTS SignalsFromOneSetting SettledAgrees PartsOfOneAcquisition
\* The application may have been unloaded.
CHECK_DEADLOCK FALSE
