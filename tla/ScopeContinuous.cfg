SPECIFICATION Spec
CONSTANTS
    Settings <- MCSettings
    Mode <- MCMode
    Long <- MCLong
    Default = "autoShort"
    AutoResults <- MCAutoResults
    Requests <- Plain
    MaxRequests = 3
    Parts = 2
    Iterations = 1
PROPERTIES ParamsReachFpga QuitEndsWorker
\* The application may have been unloaded.
CHECK_DEADLOCK FALSE
