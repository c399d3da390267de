CONSTANTS
    Byte <- MCByte
    Size = 4
    Message <- MCMessage
    QueueSize = 11
    MaxLen = 3
    Topic <- MCTopic
    Data <- MCData
    MaxEntry = 2
    BufferSizes = {2, 11, 20}
    Radix = 3
    NULL = NULL
SPECIFICATION PartsSpec
INVARIANTS TypeOK PointersAgree QueueTypeOK RetainedTypeOK HeapIsOwned
PROPERTIES FifoSpec FifoOfMessages AsStore ReadBackIsSame
