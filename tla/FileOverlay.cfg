\* Writes that split extents, truncates and unlinks; no reads.  A write of
\* four bytes is larger than a chunk and refused.
CONSTANTS
    p1 = p1
    p2 = p2
    f1 = f1
    f2 = f2
    NoProc = NoProc
    Byte <- MCByte
    Data = {}
    File = {f1}
    Proc = {p1, p2}
    MaxChunkSize = 3
    MaxSeq = 2
    MaxFileSize = 4
    MaxWrites = 3
    WriteLens = {1, 3, 4}
    TruncSizes = {1}
    ReadRanges = {}
    MaxFSSize = 8
SYMMETRY Symmetry
SPECIFICATION Spec
INVARIANTS
    TypeOK
    NoStaleExtents
    ExtentsWithinSize
