\* Messages longer than the buffer.
SPECIFICATION Spec
CONSTANTS
    RecvBufSize = 3
    IntMax = 15
    Garbage <- NoByte
    MaxMessages = 1
    MaxMessage = 5
    MaxFragment = 2
CHECK_DEADLOCK FALSE
PROPERTY OnlyMessages
