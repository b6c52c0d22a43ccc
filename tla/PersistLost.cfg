SPECIFICATION Spec
CONSTANTS
    a = a
    w1 = w1
    s1 = s1
    Byte <- MCByte
    Data <- MCData
    MaxChunkSize = 2
    MaxSeq = 1
    Writer = {w1}
    Syncer = {}
    MaxExtents = 4
    Modes = {FALSE}
    Crashes = {}
    Signals = {FALSE}
INVARIANTS
    UnmountComplete
