\* Reads racing writes and truncates of two files; no write splits an extent.
CONSTANTS
    p1 = p1
    p2 = p2
    f1 = f1
    f2 = f2
    NoProc = NoProc
    Byte <- MCByte
    Data = {}
    File = {f1, f2}
    Proc = {p1, p2}
    MaxChunkSize = 2
    MaxSeq = 1
    MaxFileSize = 2
    MaxWrites = 2
    WriteLens = {1, 2}
    TruncSizes = {1}
    ReadRanges <- MCReads
    MaxFSSize = 3
SYMMETRY Symmetry
SPECIFICATION Spec
INVARIANTS
    ReadsRegular
    NoLostBytes
