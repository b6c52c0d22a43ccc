SPECIFICATION Spec
CONSTANTS
    c1 = c1
    p1 = p1
    p2 = p2
    p3 = p3
    Chunk = {c1}
    Size = 2
    Proc = {p1, p2, p3}
INVARIANTS
    FilesWhole
    FetchedOnce
    WaitersServed
    ReadsRight
PROPERTY
    ReadsEnd
