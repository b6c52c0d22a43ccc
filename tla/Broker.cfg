CONSTANTS
    a = a
    b = b
    Byte <- MCByte
    Data <- MCData
    MaxChunkSize = 3
    MaxSeq = 2
    MaxAttempts = 3
SPECIFICATION FairBrokerSpec
INVARIANTS
    BrokerTypeOK
    AppendedReadable
    CleanMeansStored
PROPERTIES
    ImplementsChunkStore
    ImplementsChunkLog
    CallEnds
