CONSTANTS
    a = a
    b = b
    Byte <- MCByte
    Data <- MCData
    MaxChunkSize = 3
    MaxSeq = 1
    Slot = {s1, s2}
    ThresholdNum = 1
    ThresholdDen = 3
    Exclusive = TRUE
    KeepsDir = FALSE
    MaxRuns = 2
SPECIFICATION Spec
INVARIANT CycleSucceeds
CHECK_DEADLOCK FALSE
