\* Writes of one and three bytes, one request at a time.
CONSTANTS
    p1 = p1
    p2 = p2
    f1 = f1
    f2 = f2
    NoProc = NoProc
    Byte <- MCByte
    Data = {}
    File = {f1}
    Proc = {p1}
    MaxChunkSize = 3
    MaxSeq = 2
    MaxFileSize = 4
    MaxWrites = 3
    WriteLens = {1, 3}
    TruncSizes = {}
    ReadRanges = {}
    MaxFSSize = 8
SPECIFICATION Spec
INVARIANTS
    NoLostBytes
