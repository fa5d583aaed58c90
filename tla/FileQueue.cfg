SPECIFICATION FileSpec
CONSTANTS
    Sizes <- MCSizes
    HeaderSize = 1
    Memory = 3
    FreeSize = 10
    SizeLimit = 9
    MaxBuffers = 5
INVARIANTS FileIsPrefix HeaderTellsSize
PROPERTIES AcceptedIsWritten StopWriteEnds
\* The recording is stopped and all buffers are brought.
CHECK_DEADLOCK FALSE
