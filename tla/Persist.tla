------------------------------- MODULE Persist -------------------------------
(***************************************************************************)
(* How the index reaches the disk and the object store: Fsync              *)
(* (internal/fuse/fs.go), the function buildPersistFn returns, its periodic *)
(* and its final call (cmd/fusey/main.go), index.Save and Marshal          *)
(* (internal/index/persist.go), and what the next mount loads (loadIndex). *)
(*                                                                         *)
(* The chunk store is the module ChunkStore.  The index is the set of its  *)
(* extents; an extent carries, besides its place, the bytes that were      *)
(* written there, so that what a snapshot promises can be compared with    *)
(* what the store holds.  Every index method takes idx.mu once and is one  *)
(* step, and so is every file-system call and every upload.                *)
(***************************************************************************)
EXTENDS ChunkStore, FiniteSets

CONSTANTS
    Writer,     \* goroutines serving Write
    Syncer,     \* goroutines serving Fsync
    Modes,      \* the values of exclusive that are considered
    Crashes,    \* the values of exclusive with which the daemon may be killed
    Signals,    \* the values of exclusive with which the daemon may be asked to stop
    MaxExtents  \* bound: no write begins when the index has this many extents

ASSUME PersistAssumption == Modes \cup Crashes \cup Signals \subseteq BOOLEAN /\ MaxExtents \in Nat

VARIABLES
    exclusive,    \* one write, fsync or persist at a time: nothing interleaves; never changes
    idx,          \* the index in memory: a set of extents
    dirty,        \* idx.dirty
    remoteDirty,  \* idx.remoteDirty
    tmp,          \* index.cbor.tmp in the directory of this daemon
    local,        \* index.cbor there
    remote,       \* the object IndexKey() names
    fd,           \* the file each saver writes to: the one now called tmp, local, or neither
    pending,      \* the extent a write has appended and not yet recorded
    at,           \* where each saver is
    snap,         \* the snapshot it took
    phase,        \* of the daemon: up, stopping, stopped, or failed: stopped after a failed persist
    here,         \* history: extents recorded by this daemon
    before,       \* history: here when an Fsync began
    synced        \* history: extents that an Fsync has reported durable

flags == <<dirty, remoteDirty>>
files == <<tmp, local, fd>>
saver == <<at, snap>>
history == <<here, before, synced>>
vars == <<csVars, idx, flags, files, remote, pending, saver, phase, history>>

Persister == {"periodic", "final"}
Saver == Syncer \cup Persister

ASSUME SyncerAssumption == Syncer \cap Persister = {}

\* The wire form of an extent has the number of its chunk, not the name.
parseChunkSeq(id) == id[2]
toWire(S) == {[seq |-> parseChunkSeq(e.id), off |-> e.off, data |-> e.data] : e \in S}
fromWire(W) == {[id |-> chunkID(w.seq), off |-> w.off, data |-> w.data] : w \in W}

\* What a file can hold: a snapshot; nothing of that name; no bytes yet; or the
\* bytes of one snapshot over those of a longer one.
Stored(S) == [kind |-> "snapshot", exts |-> toWire(S)]
None == [kind |-> "none", exts |-> {}]
Empty == [kind |-> "empty", exts |-> {}]
Mixed(S) == [kind |-> "mixed", exts |-> S]

\* What a mount makes of a snapshot it reads; no object, no extents.
Loaded(file) == fromWire(file.exts)

Idle == (\A w \in Writer : pending[w] = None) /\ (\A s \in Saver : at[s] = "idle")
Drop(s) == snap' = [snap EXCEPT ![s] = {}]
Goto(s, l) == at' = [at EXCEPT ![s] = l]
MayBegin == exclusive => Idle

-----------------------------------------------------------------------------
(* Write: cs.Append, then idx.WriteExtent *)

CSAppend(w, data) ==
    /\ phase = "up" /\ pending[w] = None /\ MayBegin
    /\ Cardinality(idx) < MaxExtents
    /\ AppendData(data)
    /\ pending' = [pending EXCEPT ![w] = [id |-> activeID', off |-> AppendOffset(data), data |-> data]]
    /\ UNCHANGED <<idx, flags, files, remote, saver, phase, history>>

AppendFails(data) ==
    /\ phase = "up" /\ MayBegin
    /\ AppendError(data)
    /\ UNCHANGED <<idx, flags, files, remote, pending, saver, phase, history>>

WriteExtent(w) ==
    /\ pending[w] # None
    /\ idx' = idx \cup {pending[w]}
    /\ dirty' = TRUE /\ remoteDirty' = TRUE
    /\ pending' = [pending EXCEPT ![w] = None]
    /\ here' = here \cup {pending[w]}
    /\ UNCHANGED <<csVars, files, remote, saver, phase, before, synced>>

\* A read of a file: TouchAtime.
TouchAtime ==
    /\ phase = "up" /\ MayBegin /\ ~dirty
    /\ dirty' = TRUE
    /\ UNCHANGED <<csVars, idx, remoteDirty, files, remote, pending, saver, phase, history>>

-----------------------------------------------------------------------------
(* Where a saver goes when Save, FlushActive or the whole call is done *)

\* A persist ends; the daemon exits after the final one, whatever came of it.
PersistEnd(s, ok) ==
    /\ Goto(s, "idle")
    /\ phase' = IF s # "final" THEN phase ELSE IF ok THEN "stopped" ELSE "failed"
    /\ UNCHANGED history

\* Fsync answers 0 or EIO.
FsyncEnd(s, ok) ==
    /\ Goto(s, "idle")
    /\ synced' = IF ok THEN synced \cup before[s] ELSE synced
    /\ before' = [before EXCEPT ![s] = {}]
    /\ UNCHANGED <<phase, here>>

Return(s, ok) == IF s \in Persister THEN PersistEnd(s, ok) ELSE FsyncEnd(s, ok)

Continue(s, l) == Goto(s, l) /\ UNCHANGED <<phase, history>>

-----------------------------------------------------------------------------
(* index.Save *)

\* Mutant: a clean index is taken to be the remote one.
TakeSnapshotRemote(s) ==
    /\ at[s] = "snapshot"
    /\ snap' = [snap EXCEPT ![s] = IF dirty THEN idx ELSE Loaded(remote)]
    /\ Continue(s, "open")
    /\ UNCHANGED <<csVars, idx, flags, files, remote, pending>>

TakeSnapshot(s) ==
    /\ at[s] = "snapshot"
    /\ snap' = [snap EXCEPT ![s] = idx]
    /\ Continue(s, "open")
    /\ UNCHANGED <<csVars, idx, flags, files, remote, pending>>

\* Mutant: the snapshot is written in place.
OpenLocal(s) ==
    /\ at[s] = "open"
    /\ local' = Empty
    /\ fd' = [fd EXCEPT ![s] = "local"]
    /\ Continue(s, "write")
    /\ UNCHANGED <<csVars, idx, flags, tmp, remote, pending, snap>>

\* os.WriteFile opens and truncates the one temporary file all savers use.
OpenTmp(s) ==
    /\ at[s] = "open"
    /\ tmp' = Empty
    /\ fd' = [fd EXCEPT ![s] = "tmp"]
    /\ Continue(s, "write")
    /\ UNCHANGED <<csVars, idx, flags, local, remote, pending, snap>>

\* The bytes of a snapshot written from offset 0 of a file: what was longer
\* shows behind.  An index only grows here, so what has an extent that S lacks
\* is longer.
Over(file, S) == IF file.exts \subseteq toWire(S) THEN Stored(S) ELSE Mixed(file.exts)

WriteTmp(s) ==
    /\ at[s] = "write"
    /\ tmp' = IF fd[s] = "tmp" THEN Over(tmp, snap[s]) ELSE tmp
    /\ local' = IF fd[s] = "local" THEN Over(local, snap[s]) ELSE local
    /\ fd' = [fd EXCEPT ![s] = "none"]
    /\ Continue(s, "rename") /\ Drop(s)
    /\ UNCHANGED <<csVars, idx, flags, remote, pending>>

\* The rename takes whatever file has the temporary name, the writers in it along.
RenameTmp(s) ==
    /\ at[s] = "rename" /\ tmp # None
    /\ local' = tmp
    /\ tmp' = None
    /\ fd' = [q \in Saver |-> CASE fd[q] = "tmp" -> "local" [] OTHER -> "none"]
    /\ Continue(s, "clean")
    /\ UNCHANGED <<csVars, idx, flags, remote, pending, snap>>

MarkClean(s) ==
    /\ at[s] = "clean"
    /\ dirty' = FALSE
    /\ IF s \in Persister THEN Continue(s, "flush") ELSE Return(s, TRUE)
    /\ UNCHANGED <<csVars, idx, remoteDirty, files, remote, pending, snap>>

\* The file cannot be opened, written or renamed.
SaveError(s) ==
    /\ at[s] \in {"open", "write", "rename"}
    /\ at[s] = "rename" => tmp = None
    /\ fd' = [fd EXCEPT ![s] = "none"]
    /\ Return(s, FALSE) /\ Drop(s)
    /\ UNCHANGED <<csVars, idx, flags, tmp, local, remote, pending>>

-----------------------------------------------------------------------------
(* Fsync: FlushActive, then Save *)

Fsync(s) ==
    /\ phase = "up" /\ s \in Syncer /\ at[s] = "idle" /\ MayBegin
    /\ before' = [before EXCEPT ![s] = here]
    /\ Goto(s, "flush")
    /\ UNCHANGED <<csVars, idx, flags, files, remote, pending, snap, phase, here, synced>>

AfterFlush(s) == IF s \in Syncer THEN "snapshot" ELSE "isRemoteDirty"

\* Mutant: the active chunk is not uploaded.
FlushNever(s) ==
    /\ at[s] = "flush"
    /\ Continue(s, AfterFlush(s))
    /\ UNCHANGED <<csVars, idx, flags, files, remote, pending, snap>>

\* cs.FlushActive, for Fsync and for a persist.
Flush(s) ==
    /\ at[s] = "flush"
    /\ FlushActive \/ (~activeDirty /\ UNCHANGED csVars)
    /\ Continue(s, AfterFlush(s))
    /\ UNCHANGED <<idx, flags, files, remote, pending, snap>>

FlushFails(s) ==
    /\ at[s] = "flush"
    /\ FlushError
    /\ Return(s, FALSE)
    /\ UNCHANGED <<idx, flags, files, remote, pending, snap>>

-----------------------------------------------------------------------------
(* The persist function *)

\* Mutant: the ticker looks at the local flag alone.
TickDirtyOnly ==
    /\ phase = "up" /\ at["periodic"] = "idle" /\ MayBegin
    /\ dirty
    /\ Goto("periodic", "isDirty")
    /\ UNCHANGED <<csVars, idx, flags, files, remote, pending, snap, phase, history>>

\* The ticker fires, with something to persist.
Tick ==
    /\ phase = "up" /\ at["periodic"] = "idle" /\ MayBegin
    /\ dirty \/ remoteDirty
    /\ Goto("periodic", "isDirty")
    /\ UNCHANGED <<csVars, idx, flags, files, remote, pending, snap, phase, history>>

\* Mutant: with a clean local index the active chunk is not looked at either.
IsDirtySkipsFlush(s) ==
    /\ at[s] = "isDirty"
    /\ Continue(s, IF dirty THEN "snapshot" ELSE "isRemoteDirty")
    /\ UNCHANGED <<csVars, idx, flags, files, remote, pending, snap>>

IsDirty(s) ==
    /\ at[s] = "isDirty"
    /\ Continue(s, IF dirty THEN "snapshot" ELSE "flush")
    /\ UNCHANGED <<csVars, idx, flags, files, remote, pending, snap>>

IsRemoteDirty(s) ==
    /\ at[s] = "isRemoteDirty"
    /\ IF remoteDirty THEN Continue(s, "marshal") ELSE Return(s, TRUE)
    /\ UNCHANGED <<csVars, idx, flags, files, remote, pending, snap>>

Marshal(s) ==
    /\ at[s] = "marshal"
    /\ snap' = [snap EXCEPT ![s] = idx]
    /\ Continue(s, "put")
    /\ UNCHANGED <<csVars, idx, flags, files, remote, pending>>

PutRaw(s) ==
    /\ at[s] = "put"
    /\ remote' = Stored(snap[s])
    /\ Continue(s, "remoteClean") /\ Drop(s)
    /\ UNCHANGED <<csVars, idx, flags, files, pending>>

\* Mutant: the error of the upload is logged and not returned.
PutRawErrorSwallowed(s) ==
    /\ at[s] = "put"
    /\ Return(s, TRUE) /\ Drop(s)
    /\ UNCHANGED <<csVars, idx, flags, files, remote, pending>>

\* An upload that reports an error may have happened.
PutRawError(s) ==
    /\ at[s] = "put"
    /\ remote' \in {remote, Stored(snap[s])}
    /\ Return(s, FALSE) /\ Drop(s)
    /\ UNCHANGED <<csVars, idx, flags, files, pending>>

MarkRemoteClean(s) ==
    /\ at[s] = "remoteClean"
    /\ remoteDirty' = FALSE
    /\ Return(s, TRUE)
    /\ UNCHANGED <<csVars, idx, dirty, files, remote, pending, snap>>

-----------------------------------------------------------------------------
(* The life of a daemon *)

\* SIGTERM: once the file system is unmounted no request is left, but a
\* periodic persist may still be running.
Stop ==
    /\ exclusive \in Signals /\ phase = "up" /\ MayBegin
    /\ \A w \in Writer : pending[w] = None
    /\ \A s \in Syncer : at[s] = "idle"
    /\ phase' = "stopping"
    /\ Goto("final", "isDirty")
    /\ UNCHANGED <<csVars, idx, flags, files, remote, pending, snap, history>>

\* The next mount, after a stop or a kill.  It runs in a directory of its own,
\* so there is no local index; with no remote one the file system is new.  The
\* index read is saved locally; if that fails there still is none.
Mount ==
    /\ phase \in {"stopped", "failed"} \/ exclusive \in Crashes
    /\ Restart
    /\ idx' = Loaded(remote)
    /\ local' \in {None, IF remote = None THEN None ELSE Stored(idx')}
    /\ tmp' = None
    /\ fd' = [s \in Saver |-> "none"]
    /\ dirty' = FALSE /\ remoteDirty' = FALSE
    /\ pending' = [w \in Writer |-> None]
    /\ at' = [s \in Saver |-> "idle"]
    /\ snap' = [s \in Saver |-> {}]
    /\ before' = [s \in Syncer |-> {}]
    /\ here' = {}
    /\ phase' = "up"
    /\ UNCHANGED <<remote, synced>>

\* Nothing is asked of the mount.
Quiet == Idle /\ UNCHANGED vars

Init ==
    /\ CSInit
    /\ exclusive \in Modes
    /\ idx = {} /\ dirty = FALSE /\ remoteDirty = FALSE
    /\ tmp = None /\ local = None /\ remote = None
    /\ fd = [s \in Saver |-> "none"]
    /\ pending = [w \in Writer |-> None]
    /\ at = [s \in Saver |-> "idle"]
    /\ snap = [s \in Saver |-> {}]
    /\ phase = "up"
    /\ before = [s \in Syncer |-> {}]
    /\ here = {} /\ synced = {}

WriteNext ==
    \/ \E w \in Writer, data \in Data : CSAppend(w, data)
    \/ \E data \in Data : AppendFails(data)
    \/ \E w \in Writer : WriteExtent(w)
    \/ TouchAtime

SaverNext(s) ==
    \/ TakeSnapshot(s) \/ OpenTmp(s) \/ WriteTmp(s) \/ RenameTmp(s) \/ MarkClean(s) \/ SaveError(s)
    \/ Flush(s) \/ FlushFails(s)
    \/ IsDirty(s) \/ IsRemoteDirty(s) \/ Marshal(s) \/ PutRaw(s) \/ PutRawError(s) \/ MarkRemoteClean(s)

Step ==
    \/ WriteNext
    \/ \E s \in Syncer : Fsync(s)
    \/ \E s \in Saver : SaverNext(s)
    \/ Tick \/ Stop \/ Mount \/ Quiet

Next == Step /\ UNCHANGED exclusive

Spec == Init /\ [][Next]_<<exclusive, vars>>

\* The ticker keeps firing, goroutines keep running, and a file or an upload
\* that is tried again and again works in the end.  No mutex keeps the ticker
\* waiting: where calls do not overlap (exclusive) it fires between two of them.
Fairness ==
    /\ SF_vars(Tick) /\ \A w \in Writer : WF_vars(WriteExtent(w))
    /\ \A s \in Saver : WF_vars(SaverNext(s))
    /\ SF_vars(OpenTmp("periodic")) /\ SF_vars(WriteTmp("periodic"))
    /\ SF_vars(Flush("periodic")) /\ SF_vars(PutRaw("periodic"))

FairSpec == Spec /\ Fairness

-----------------------------------------------------------------------------
(* Properties *)

\* The object an extent points into has the bytes that were written.
Readable(e) ==
    /\ e.id \in DOMAIN store
    /\ e.off + Len(e.data) <= Len(store[e.id])
    /\ \A i \in 1..Len(e.data) : store[e.id][e.off + i] = e.data[i]

Extents == [id : ChunkIDs, off : 0..(MaxChunkSize - 1), data : Data]
Places == {"idle", "isDirty", "snapshot", "open", "write", "rename", "clean", "flush",
           "isRemoteDirty", "marshal", "put", "remoteClean"}

\* Types of the persisted and the volatile state.
PersistTypeOK ==
    /\ CSTypeOK
    /\ idx \subseteq Extents /\ synced \subseteq Extents
    /\ {dirty, remoteDirty} \subseteq BOOLEAN
    /\ \A f \in {tmp, local, remote} : f.kind \in {"snapshot", "none", "empty", "mixed"}
                                      /\ Loaded(f) \subseteq Extents
    /\ \A s \in Saver : at[s] \in Places /\ fd[s] \in {"none", "tmp", "local"}
    /\ phase \in {"up", "stopping", "stopped", "failed"}

\* The bytes of every write that finished before a successful Fsync of the same
\* daemon began are in the object store, and stay there through later writes, failed uploads,
\* kills and remounts (the first half of Fsync's promise).
SyncedBytesStored == \A e \in synced : Readable(e)

\* The remote index is self-consistent at every moment, so that a mount after
\* a kill finds all it refers to: every extent it has exists in the store, with
\* the bytes that were written (the ordering of buildPersistFn).
RemoteConsistent == exclusive => \A e \in Loaded(remote) : Readable(e)

\* When the final persist succeeded, the remote index is the whole index:
\* an unmount loses no acknowledged write.
UnmountComplete == phase = "stopped" => Loaded(remote) = idx

\* Where no write and no periodic persist overlaps another persist, this holds.
AloneUnmountComplete == exclusive => UnmountComplete

\* index.cbor is absent or a whole snapshot, whatever a crash interrupts
\* (Save writes elsewhere and renames).
LocalNeverPartial == exclusive => local.kind \in {"none", "snapshot"}

\* While the daemon that served an Fsync runs, the snapshot in index.cbor has
\* every extent that Fsync covered: a Save never brings back an older index.
SyncedInLocal == exclusive /\ local.kind = "snapshot" => synced \cap here \subseteq Loaded(local)

\* Again and again the remote index catches up with the index, as long as the
\* daemon is up: no write stays out of it for ever (the dirty flags, the ticker
\* and the retry at the next tick).
EventuallyPersisted == exclusive => []<>(idx \subseteq Loaded(remote) \/ phase # "up")
=============================================================================
