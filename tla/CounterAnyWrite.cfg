SPECIFICATION Spec
CONSTANTS
    Inputs <- MCInputs
    Counters <- NoCounters
    MaxWord = 2
    MaxBin = 2
    Commands = {"gotoIdle", "reset", "countImmediately", "countTriggered", "countGated", "trigger", "none"}
    Timeouts = {}
    Predelays = {1}
    BinLimits = {0, 1}
    TriggerConfigs <- MCOnHigh
    DefaultTimeout = 1
    WriteGap = 3
INVARIANTS
    CommandTransient
PROPERTIES
    BinAddressFollowsLimit
    BinLeftWhenWritten
