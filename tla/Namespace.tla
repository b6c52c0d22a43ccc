------------------------------ MODULE Namespace ------------------------------
(***************************************************************************)
(* Names and inodes: the maps of internal/index/index.go and the handlers  *)
(* of internal/fuse/fs.go that change them.  Each index method runs under  *)
(* idx.mu and is one step; a handler that calls several is several steps.  *)
(*                                                                         *)
(* Requests come from the Linux VFS, which is not part of the repository:  *)
(* it checks what it knows of the names before it sends a request and      *)
(* holds the locks of the inodes named by a request until the answer       *)
(* (i_rwsem).  The behaviours in which it does are the serialised ones; in *)
(* the others only idx.mu orders the callers of the index, to show what    *)
(* the index owes to nobody.  File contents are in FileData; here the      *)
(* extent map is only its set of keys.                                     *)
(***************************************************************************)
EXTENDS Integers, FiniteSets, Functions

CONSTANTS
    Name,        \* names of directory entries
    Kinds,       \* types of inode the requests create
    Attr,        \* names of extended attributes
    Proc,        \* request goroutines
    MaxIno       \* bound: no inode number beyond this is allocated

RootIno == 1
Ino == RootIno..MaxIno
Types == {"Regular", "Directory", "Symlink"}

ASSUME InoAssumption == MaxIno \in Nat /\ MaxIno >= RootIno
ASSUME KindsAssumption == Kinds \subseteq Types

VARIABLES
    inodes,    \* idx.inodes: numbers -> type and nlink
    dirIndex,  \* idx.dirIndex: directories -> names -> numbers
    extents,   \* keys of idx.extents
    symlinks,  \* keys of idx.symlinks
    xattrs,    \* idx.xattrs: numbers -> attribute names
    nextIno,   \* idx.nextIno
    pc,        \* where each request is
    req,       \* its directory, name, inode, the type it saw, the inodes it locks
    serialised,  \* the VFS holds its inode locks across a request; never changes
    orphans      \* history: inodes that had no name when the daemon was killed

index == <<inodes, dirIndex, extents, symlinks, xattrs, nextIno>>
vars == <<index, pc, req, serialised, orphans>>

\* Go's assignment to m[k], and delete(m, k).
Put(m, k, v) == [x \in DOMAIN m \cup {k} |-> IF x = k THEN v ELSE m[x]]
Delete(m, k) == Restrict(m, DOMAIN m \ {k})

Dirs == DOMAIN dirIndex
Entries == UNION {{<<d, n>> : n \in DOMAIN dirIndex[d]} : d \in Dirs}
Child(d, n) == dirIndex[d][n]
IsDir(i) == inodes[i].type = "Directory"

\* The inodes, and directories, a request can be about: the ones with a name.
Named == {RootIno} \cup {Child(e[1], e[2]) : e \in Entries}
Parents == Dirs \cap Named

NoReq == [locks |-> {}]
Request(d, n, i, S) == [dir |-> d, name |-> n, ino |-> i, type |-> inodes[i].type, locks |-> S]

Goto(p, at) == pc' = [pc EXCEPT ![p] = at]
Reply(p) == Goto(p, "idle") /\ req' = [req EXCEPT ![p] = NoReq]

\* A request that begins in p takes these locks, once no other request has them.
Lock(p, S) == serialised => \A q \in Proc \ {p} : req[q].locks \cap S = {}

-----------------------------------------------------------------------------
(* Create, Mkdir and Symlink: CreateInode, AddDirEntry, SetSymlink *)

\* The first step of the three; an inode without an entry comes into being.
CreateInode(p, d, n, t) ==
    /\ pc[p] = "idle"
    /\ d \in Parents /\ n \notin DOMAIN dirIndex[d] /\ Lock(p, {d})
    /\ nextIno <= MaxIno
    /\ inodes' = Put(inodes, nextIno, [type |-> t, nlink |-> IF t = "Directory" THEN 1 ELSE 0])
    /\ extents' = IF t = "Regular" THEN extents \cup {nextIno} ELSE extents
    /\ dirIndex' = IF t = "Directory" THEN Put(dirIndex, nextIno, <<>>) ELSE dirIndex
    /\ nextIno' = nextIno + 1
    /\ req' = [req EXCEPT ![p] = [dir |-> d, name |-> n, ino |-> nextIno, type |-> t, locks |-> {d}]]
    /\ Goto(p, IF t = "Symlink" THEN "addlink" ELSE "add")
    /\ UNCHANGED <<symlinks, xattrs>>

Create(p, d, n) == "Regular" \in Kinds /\ CreateInode(p, d, n, "Regular")
Mkdir(p, d, n) == "Directory" \in Kinds /\ CreateInode(p, d, n, "Directory")
Symlink(p, d, n) == "Symlink" \in Kinds /\ CreateInode(p, d, n, "Symlink")

AddDirEntry(p) ==
    LET d == req[p].dir  n == req[p].name  c == req[p].ino
    IN  /\ pc[p] \in {"add", "addlink"}
        /\ d \in Dirs /\ c \in DOMAIN inodes /\ n \notin DOMAIN dirIndex[d]
        /\ dirIndex' = [dirIndex EXCEPT ![d] = Put(@, n, c)]
        /\ inodes' = [inodes EXCEPT ![c].nlink = @ + 1]
        /\ IF pc[p] = "addlink" THEN Goto(p, "target") /\ UNCHANGED req ELSE Reply(p)
        /\ UNCHANGED <<extents, symlinks, xattrs, nextIno>>

\* AddDirEntry fails: EEXIST, and an inode made for it stays.
AddDirEntryError(p) ==
    /\ pc[p] \in {"add", "addlink"}
    /\ req[p].dir \in Dirs /\ req[p].ino \in DOMAIN inodes => <<req[p].dir, req[p].name>> \in Entries
    /\ Reply(p)
    /\ UNCHANGED index

\* The target comes last; without the inode, EIO.
SetSymlink(p) ==
    /\ pc[p] = "target"
    /\ symlinks' = IF req[p].ino \in DOMAIN inodes THEN symlinks \cup {req[p].ino} ELSE symlinks
    /\ Reply(p)
    /\ UNCHANGED <<inodes, dirIndex, extents, xattrs, nextIno>>

\* Link: the target exists and is no directory.
Link(p, d, n, t) ==
    /\ pc[p] = "idle"
    /\ d \in Parents /\ n \notin DOMAIN dirIndex[d] /\ Lock(p, {d, t})
    /\ t \in DOMAIN inodes \cap Named /\ ~IsDir(t)
    /\ req' = [req EXCEPT ![p] = Request(d, n, t, {d, t})]
    /\ Goto(p, "add")
    /\ UNCHANGED index

-----------------------------------------------------------------------------
(* Unlink, Rmdir and Rename *)

\* Mutant: directories are freed like files.
FreeThresholdZero(i) == 0

\* nlink with no entry left: a directory counts itself.
FreeThreshold(i) == IF IsDir(i) THEN 1 ELSE 0

\* Mutant: a link that is not the last one is not counted down.
DropLinkUncounted(c, dirs) ==
    IF inodes[c].nlink - 1 <= FreeThreshold(c)
    THEN /\ inodes' = Delete(inodes, c)
         /\ dirIndex' = Delete(dirs, c)
         /\ extents' = extents \ {c}
         /\ symlinks' = symlinks \ {c}
         /\ xattrs' = Delete(xattrs, c)
    ELSE dirIndex' = dirs /\ UNCHANGED <<inodes, extents, symlinks, xattrs>>

\* Mutant: the attributes of a freed inode stay.
DropLinkKeepsXattrs(c, dirs) ==
    IF inodes[c].nlink - 1 <= FreeThreshold(c)
    THEN /\ inodes' = Delete(inodes, c)
         /\ dirIndex' = Delete(dirs, c)
         /\ extents' = extents \ {c}
         /\ symlinks' = symlinks \ {c}
         /\ UNCHANGED xattrs
    ELSE /\ inodes' = [inodes EXCEPT ![c].nlink = @ - 1]
         /\ dirIndex' = dirs
         /\ UNCHANGED <<extents, symlinks, xattrs>>

\* One entry to c is gone.  The last one takes the inode and all that is
\* recorded of it along; dirs is the directory map without the entry.
DropLink(c, dirs) ==
    IF inodes[c].nlink - 1 <= FreeThreshold(c)
    THEN /\ inodes' = Delete(inodes, c)
         /\ dirIndex' = Delete(dirs, c)
         /\ extents' = extents \ {c}
         /\ symlinks' = symlinks \ {c}
         /\ xattrs' = Delete(xattrs, c)
    ELSE /\ inodes' = [inodes EXCEPT ![c].nlink = @ - 1]
         /\ dirIndex' = dirs
         /\ UNCHANGED <<extents, symlinks, xattrs>>

Without(d, n) == [dirIndex EXCEPT ![d] = Delete(@, n)]

NotEmpty(i) == IsDir(i) /\ dirIndex[i] # <<>>

\* Mutant: the number of the inode freed last is handed out again.
RemoveDirEntryReuse(d, n) ==
    /\ d \in Dirs /\ n \in DOMAIN dirIndex[d]
    /\ ~NotEmpty(Child(d, n))
    /\ DropLink(Child(d, n), Without(d, n))
    /\ nextIno' = IF nextIno - 1 \in DOMAIN inodes' THEN nextIno ELSE nextIno - 1

RemoveDirEntry(d, n) ==
    /\ d \in Dirs /\ n \in DOMAIN dirIndex[d]
    /\ ~NotEmpty(Child(d, n))
    /\ DropLink(Child(d, n), Without(d, n))
    /\ UNCHANGED nextIno

\* Unlink asks nothing of the entry; that it is no directory is the VFS's check.
Unlink(p, d, n) ==
    /\ pc[p] = "idle"
    /\ d \in Parents /\ n \in DOMAIN dirIndex[d]
    /\ serialised => ~IsDir(Child(d, n))
    /\ Lock(p, {d, Child(d, n)})
    /\ RemoveDirEntry(d, n)
    /\ UNCHANGED <<pc, req>>

\* Mutant: Rmdir takes whatever has the name.
RmdirLookupAny(p, d, n) ==
    /\ pc[p] = "idle"
    /\ d \in Parents /\ n \in DOMAIN dirIndex[d]
    /\ Lock(p, {d, Child(d, n)})
    /\ req' = [req EXCEPT ![p] = Request(d, n, Child(d, n), {d, Child(d, n)})]
    /\ Goto(p, "rmdir")
    /\ UNCHANGED index

\* Rmdir first looks the name up and sees that it is a directory.  Lookup and
\* GetInode lock idx.mu separately; between them the inode can only be freed,
\* which is an early ENOENT.
RmdirLookup(p, d, n) ==
    /\ pc[p] = "idle"
    /\ d \in Parents /\ n \in DOMAIN dirIndex[d] /\ IsDir(Child(d, n))
    /\ Lock(p, {d, Child(d, n)})
    /\ req' = [req EXCEPT ![p] = Request(d, n, Child(d, n), {d, Child(d, n)})]
    /\ Goto(p, "rmdir")
    /\ UNCHANGED index

Rmdir(p) ==
    /\ pc[p] = "rmdir"
    /\ RemoveDirEntry(req[p].dir, req[p].name)
    /\ Reply(p)

\* ENOTEMPTY, or the entry went away: EIO.
RmdirError(p) ==
    /\ pc[p] = "rmdir"
    /\ <<req[p].dir, req[p].name>> \in Entries => NotEmpty(Child(req[p].dir, req[p].name))
    /\ Reply(p)
    /\ UNCHANGED index

\* i is d or one of the directories below d.
Below(d, i) ==
    \A S \in SUBSET Dirs :
        d \in S /\ (\A x \in S, n \in Name : n \in DOMAIN dirIndex[x] /\ Child(x, n) \in Dirs
                        => Child(x, n) \in S)
        => i \in S

\* What the VFS asks of a rename before it sends it: no directory moves below
\* itself, an entry replaces one of its own kind, and never itself.
RenameLegal(d, n, e, m) ==
    LET c == Child(d, n)
    IN  /\ IsDir(c) => ~Below(c, e)
        /\ m \in DOMAIN dirIndex[e] => Child(e, m) # c /\ (IsDir(Child(e, m)) <=> IsDir(c))

RenameLocks(d, n, e, m) ==
    {d, e, Child(d, n)} \cup IF m \in DOMAIN dirIndex[e] THEN {Child(e, m)} ELSE {}

\* Rename: an entry in the way is dropped first; a full directory is EIO.
Rename(p, d, n, e, m) ==
    /\ pc[p] = "idle"
    /\ d \in Parents /\ e \in Parents /\ n \in DOMAIN dirIndex[d]
    /\ RenameLegal(d, n, e, m) /\ Lock(p, RenameLocks(d, n, e, m))
    /\ LET c == Child(d, n)
           moved == [Without(d, n) EXCEPT ![e] = Put(@, m, c)]
       IN  IF m \notin DOMAIN dirIndex[e]
           THEN dirIndex' = moved /\ UNCHANGED <<inodes, extents, symlinks, xattrs>>
           ELSE /\ ~NotEmpty(Child(e, m))
                /\ DropLink(Child(e, m), moved)
    /\ UNCHANGED <<nextIno, pc, req>>

-----------------------------------------------------------------------------
(* Extended attributes, Lookup, restarts *)

SetXattr(p, i, a) ==
    /\ pc[p] = "idle" /\ i \in DOMAIN inodes \cap Named /\ Lock(p, {i})
    /\ xattrs' = Put(xattrs, i, {a} \cup IF i \in DOMAIN xattrs THEN xattrs[i] ELSE {})
    /\ UNCHANGED <<inodes, dirIndex, extents, symlinks, nextIno, pc, req>>

RemoveXattr(p, i, a) ==
    /\ pc[p] = "idle" /\ i \in DOMAIN inodes \cap Named /\ Lock(p, {i})
    /\ i \in DOMAIN xattrs /\ a \in xattrs[i]
    /\ xattrs' = [xattrs EXCEPT ![i] = @ \ {a}]
    /\ UNCHANGED <<inodes, dirIndex, extents, symlinks, nextIno, pc, req>>

\* Lookup revalidates a name without any VFS lock: idx.Lookup, then GetInode.
Lookup(p, d, n) ==
    /\ pc[p] = "idle" /\ d \in Parents /\ n \in DOMAIN dirIndex[d]
    /\ req' = [req EXCEPT ![p] = Request(d, n, Child(d, n), {})]
    /\ Goto(p, "getinode")
    /\ UNCHANGED index

\* The answer: the attributes of the inode, or ENOENT.
LookupGetInode(p) ==
    /\ pc[p] = "getinode"
    /\ Reply(p)
    /\ UNCHANGED index

\* Snapshot lists the entries one by one.
DirEntries == {[parent |-> e[1], name |-> e[2], child |-> Child(e[1], e[2])] : e \in Entries}

\* Mutant: a directory without entries is forgotten.
RebuiltNonEmpty(ents, nodes) ==
    [d \in {e.parent : e \in ents} |->
        [n \in {e.name : e \in {x \in ents : x.parent = d}} |->
            (CHOOSE e \in ents : e.parent = d /\ e.name = n).child]]

\* FromSnapshot rebuilds the directory map from the entries, and gives every
\* directory without entries an empty one.
Rebuilt(ents, nodes) ==
    [d \in {e.parent : e \in ents} \cup {i \in DOMAIN nodes : nodes[i].type = "Directory"} |->
        [n \in {e.name : e \in {x \in ents : x.parent = d}} |->
            (CHOOSE e \in ents : e.parent = d /\ e.name = n).child]]

\* The daemon dies right after a snapshot and a new one starts from it.  What
\* happened between a snapshot and the crash would be lost, so nothing else
\* has to be remembered.
Remount ==
    /\ dirIndex' = Rebuilt(DirEntries, inodes)
    /\ pc' = [p \in Proc |-> "idle"]
    /\ req' = [p \in Proc |-> NoReq]
    /\ orphans' = DOMAIN inodes \ Named
    /\ UNCHANGED <<inodes, extents, symlinks, xattrs, nextIno, serialised>>

Init ==
    /\ inodes = [i \in {RootIno} |-> [type |-> "Directory", nlink |-> 1]]
    /\ dirIndex = [d \in {RootIno} |-> <<>>]
    /\ extents = {} /\ symlinks = {} /\ xattrs = <<>>
    /\ nextIno = RootIno + 1
    /\ pc = [p \in Proc |-> "idle"]
    /\ req = [p \in Proc |-> NoReq]
    /\ serialised \in BOOLEAN /\ orphans = {}

EntryNext(p) ==
    \/ \E d \in Ino, n \in Name : Create(p, d, n) \/ Mkdir(p, d, n) \/ Symlink(p, d, n)
    \/ \E d \in Ino, n \in Name, t \in Ino : Link(p, d, n, t)
    \/ \E d \in Ino, n \in Name : Unlink(p, d, n) \/ RmdirLookup(p, d, n) \/ Lookup(p, d, n)
    \/ \E d, e \in Ino, n, m \in Name : Rename(p, d, n, e, m)
    \/ AddDirEntry(p) \/ AddDirEntryError(p) \/ SetSymlink(p)
    \/ Rmdir(p) \/ RmdirError(p) \/ LookupGetInode(p)

XattrNext(p) == \E i \in Ino, a \in Attr : SetXattr(p, i, a) \/ RemoveXattr(p, i, a)

\* Nothing is asked of the mount.
Quiet ==
    /\ \A p \in Proc : pc[p] = "idle"
    /\ UNCHANGED vars

Next ==
    \/ (\E p \in Proc : EntryNext(p) \/ XattrNext(p)) /\ UNCHANGED <<serialised, orphans>>
    \/ Remount
    \/ Quiet

Spec == Init /\ [][Next]_vars

-----------------------------------------------------------------------------
(* Properties *)

\* nlink is the number of entries of the inode, and one more for a directory
\* (AddDirEntry, RemoveDirEntry, Rename).
NlinkConsistent ==
    \A i \in DOMAIN inodes :
        inodes[i].nlink = Cardinality({e \in Entries : Child(e[1], e[2]) = i})
                              + IF IsDir(i) THEN 1 ELSE 0

\* An inode is freed only when its last entry is gone, and then nothing of it
\* stays: no entry, directory map, extent list, target or attribute refers to
\* a number that is not allocated, and numbers are not handed out twice
\* (the deletes of RemoveDirEntry and Rename).
NoDangling ==
    /\ \A e \in Entries : Child(e[1], e[2]) \in DOMAIN inodes
    /\ Dirs = {i \in DOMAIN inodes : IsDir(i)}
    /\ extents = {i \in DOMAIN inodes : inodes[i].type = "Regular"}
    /\ symlinks \cup DOMAIN xattrs \subseteq DOMAIN inodes
    /\ \A i \in DOMAIN inodes : i < nextIno

\* When no request is being served every inode can be reached from the root:
\* under the locks of the VFS no create, link, rename or unlink leaves an inode
\* behind or a loop of directories cut off.  Only a kill between CreateInode
\* and AddDirEntry does.
AllReachable ==
    serialised /\ (\A p \in Proc : pc[p] = "idle") =>
        \A S \in SUBSET DOMAIN inodes :
            RootIno \in S /\ (\A e \in Entries : e[1] \in S => Child(e[1], e[2]) \in S)
            => DOMAIN inodes \subseteq S \cup orphans

\* The inode whose attributes Lookup returns is the one its name was bound to:
\* a number freed between its two steps is not in use again for another object.
LookupSound ==
    \A p \in Proc : pc[p] = "getinode" /\ req[p].ino \in DOMAIN inodes =>
        inodes[req[p].ino].type = req[p].type

\* Under the locks of the VFS, Rmdir removes nothing but the directory its
\* lookup found (the check and RemoveDirEntry take idx.mu separately).
RmdirStep ==
    \A p \in Proc : serialised /\ pc[p] = "rmdir" /\ pc'[p] = "idle" /\ index' # index =>
        DOMAIN inodes \ DOMAIN inodes' = {req[p].ino} /\ IsDir(req[p].ino)
RmdirRemovesDir == [][RmdirStep]_vars

\* FromSnapshot after Snapshot gives back the same directories, empty ones
\* included.
SnapshotRoundTrip == Rebuilt(DirEntries, inodes) = dirIndex
=============================================================================
