SPECIFICATION Spec
CONSTANTS
    Registers = {"timeout"}
    Rams = {"counter", "duration"}
    Bins = {0, 1}
    Values = {0, 1}
    NoValue = NoValue
    ReadWait = 3
    WriteWait = 4
    AckTimeout = 10
    Stores <- OneStore
INVARIANTS AnswersRight WritesLand
PROPERTY AccessEnds
