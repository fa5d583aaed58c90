SPECIFICATION OrderlySpec
CONSTANTS
    Inputs <- MCInputs
    Counters <- MCInputs
    MaxWord = 2
    MaxBin = 1
    Commands = {"gotoIdle", "reset", "countImmediately", "countTriggered", "countGated"}
    Timeouts = {0}
    Predelays = {1}
    BinLimits = {}
    TriggerConfigs <- MCOnHigh
    DefaultTimeout = 2
    WriteGap = 3
PROPERTIES
    ImplementsModes
    MeasurementEnds
