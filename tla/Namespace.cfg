SPECIFICATION Spec
CONSTANTS
    p1 = p1
    p2 = p2
    x = x
    y = y
    u = u
    Name = {x, y}
    Kinds = {"Regular", "Directory", "Symlink"}
    Attr = {u}
    Proc = {p1, p2}
    MaxIno = 3
SYMMETRY Symmetry
INVARIANTS
    NlinkConsistent
    NoDangling
    LookupSound
    SnapshotRoundTrip
    AllReachable
PROPERTY
    RmdirRemovesDir
