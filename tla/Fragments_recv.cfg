\* A buffer of three bytes, messages of up to nine in fragments of up to two,
\* and an int that counts to seven.
SPECIFICATION Spec
CONSTANTS
    RecvBufSize = 3
    IntMax = 7
    Garbage <- NoByte
    MaxMessages = 3
    MaxMessage = 9
    MaxFragment = 2
CHECK_DEADLOCK FALSE
INVARIANTS
    TypeOK
    BufferHoldsMessage
PROPERTIES
    ExactDelivery
    OnlyComplete
    BoundedWrites
