SPECIFICATION Spec
CONSTANTS
    Payloads <- MCPayloads
    SOCKET_BUFFER_SIZE = 6
    FIFO_BUFFER_SIZE = 12
    PacksPerBuffer = 3
    MaxPacks = 6
    MaxClients = 2
INVARIANTS StreamIsWhole MisreadsFirstOnly RecordedInOrder
PROPERTIES SentIsRecorded AskIsAnswered
\* The clients have ended and the packs are sent.
CHECK_DEADLOCK FALSE
