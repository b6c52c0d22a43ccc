SPECIFICATION FairSpec
CONSTANTS
    a = a
    w1 = w1
    s1 = s1
    Byte <- MCByte
    Data <- MCData
    MaxChunkSize = 2
    MaxSeq = 1
    Writer = {w1}
    Syncer = {s1}
    MaxExtents = 3
    Modes = {TRUE, FALSE}
    Crashes = {TRUE}
    Signals = {TRUE}
INVARIANTS
    PersistTypeOK
    RemoteConsistent
    AloneUnmountComplete
    SyncedBytesStored
    LocalNeverPartial
    
PROPERTY
    EventuallyPersisted
