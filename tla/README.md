# Fusey in TLA+

Fusey is a FUSE file system that keeps file contents in an object store. This
directory has TLA+ models of its parts, TLC configurations that check them on
small instances, and TLAPS proofs of the central safety properties for every
value of the constants. Paths below are relative to the repository's `src/`.

## 1. The system

File data is appended to one *active chunk* in memory. A full chunk is *sealed*:
uploaded as an object that never changes again. The *index*, in memory, maps names
to inodes and each file to a list of *extents*, the places of its bytes in chunks.
`Fsync`, a ticker and the unmount write the index to the local disk and to the
object store.

| Part | Source | State | Operations | What is hard about it |
|---|---|---|---|---|
| Chunk store | `internal/chunks/chunk_store.go` | active id and buffer, dirty flag, next number, objects | Append, seal, FlushActive, Read, RecoverNextSeq | uploads that fail or lose their answer, kills between uploads, size boundary |
| File data path | `internal/fuse/fs.go`, `internal/index/index.go` | sizes, extent lists | Read, Write, truncate | a request holds no lock between its steps; slices that share an array |
| Namespace | `internal/index/index.go`, `internal/fuse/fs.go` | inodes, directories, targets, attributes | Create, Mkdir, Symlink, Link, Unlink, Rmdir, Rename, Lookup, xattrs, snapshots | handlers that lock the index twice; link counts over long sequences |
| Index persistence | `internal/index/persist.go`, `cmd/fusey/main.go`, `internal/fuse/fs.go` | two dirty flags, `index.cbor`, its temporary file, the remote index | Save, Marshal, Fsync, persist function, loadIndex | writes during a persist, two Saves at once, kills at any step |
| Chunk cache | `internal/chunks/cache.go` | cache files, in-flight fetches | readRange, put | deduplicated fetches, waiters, partial files |
| Compactor | `internal/compaction/compactor.go` | its own copy of the index | Compact | a second process beside a mounted daemon; crash between persist and delete |
| Mount lifecycle | `cmd/fusey/main.go` | PID file, ready pipe, signals | mount, daemon, unmount | start-up racing a stop, PID files left behind |
| Broker store | `internal/chunks/broker.go` | none between calls | presigned Put and Get with retries | an upload that takes effect without its answer, late or twice |
| S3 and local stores | `internal/chunks/s3.go`, `local.go`, `store.go` | objects | Put, GetRange, List, Delete | |
| Configuration | `internal/config/config.go` | none | Load | |
| Reference broker | `broker/main.py` | none | issue URLs | |

How they interact: a write appends to the chunk store and then records its extent
in the index; a read takes the size, then the extents, then each chunk, from memory
while it is active and through the cache once it is sealed. A persist saves the
index locally, uploads the active chunk, and uploads the index. A mount loads the
index and asks the store for the highest chunk number.

The other processes: `fusey mount` starts a daemon and waits for it on a pipe, `fusey
unmount` finds a daemon by its PID file and signals it, and `fusey compact` works on the
object store with an index of its own.

## 2. The models

| Module | Models |
|---|---|
| `ChunkLog` | abstract: what the chunk store promises, a set of append-only byte logs with a durable beginning |
| `ChunkStore` | the chunk store over an object store whose Put is one step that may fail before or after it takes effect |
| `BrokerStore` | extends `ChunkStore`: the same operations with a Put made of retried requests to broker and storage |
| `FileData` | extends `ChunkStore`: the data path of regular files |
| `Persist` | extends `ChunkStore`: the way of the index to disk and store, and the life of daemons |
| `Compaction` | extends `ChunkStore`: a daemon, and compaction cycles as a second process |
| `Namespace` | names, inodes and snapshots |
| `ChunkCache` | the disk cache of sealed chunks |
| `Mount` | the processes around one mountpoint: parents, daemons, unmounts, signals, PID files |
| `ChunkStoreProofs`, `PersistProofs`, `CompactionProofs`, `NamespaceProofs` | the proofs about the module of that name |
| `CacheProofs` | the proofs about `ChunkCache` |
| `RemoteProofs` | the proofs about `BrokerStore` and `Mount` |
| `FileDataInv`, `FileDataProofs` | the proofs about `FileData`: the invariant and the steps that leave the index alone; the other steps and the theorems |
| `MC...` | the small instances |

**Steps.** A method that holds its mutex throughout is one step. A handler that
calls several is cut between the calls, where other goroutines can run.

**ChunkStore.** `activeID`, `activeBuf`, `activeDirty` and `nextSeq` are the fields of
`ChunkStore`; `store` is the bucket. `Append` is three actions (it fits, it seals
first, sealing fails); `Seal` includes the upload and the opening of the next chunk.
`appended` is a history: the bytes acknowledged for each chunk that readers may still
rely on. `Restart` is a kill and a mount: the buffer is gone, the number is recovered
from the listing.

**BrokerStore.** `cs.mu` is held for the whole call, so there is one call at a time: `op` says
whose it is, `attempt` and `phase` where `withRetry` is. Each request is answered, refused
for good, fails in a way a retry may mend, or gets no answer; an upload without an answer
may still arrive (`late`) until its call has returned. `Killed` may come at any request.

**FileData.** Each `Proc` serves one request. `idxLock` stands for `idx.mu` where it is
held over several steps: the loops of `WriteExtent` and `trimExtents`, which advance
one extent per step. The survivors of `WriteExtent` are collected in the array that is
being ranged over, as in the code: an element already overwritten is read in its new
form. A byte carries its file, offset and write number, so a read shows where
its bytes come from. `latest` and `seen` are histories: the last write of each byte, and
the values each byte has had since a read began.

**Namespace.** The five maps of `Index` (the extent map only by its keys) and `nextIno`.
`serialised`, chosen at the start of a behaviour, says whether requests also run under
what the Linux VFS does, which is not part of the repository: it holds the locks of
the inodes a request names until the answer. `Remount` kills the daemon and rebuilds
the index from a snapshot at any moment; `orphans` is a history of the inodes that had
no name then.

**Persist.** The index is a set of extents that carry their bytes. Every saver (an
`Fsync`, the periodic and the final persist) walks through the calls of the code one
by one. All savers share one temporary file: opening truncates it, and a rename takes
along whoever is writing to it (`fd`). Snapshots are kept in wire form, with chunk
numbers for names. `Mount` has no local index because each daemon has its own
directory (`main.go:110`, `main.go:198`). `exclusive`, chosen at the start of a behaviour,
says whether calls overlap; the code lets them.

**ChunkCache.** `readRange` is cut at each look at the disk, each call to the store and
each use of `c.mu`. Fetches fail at any point and objects may be deleted meanwhile.

**Compaction.** The daemon of this module writes *slots*, ranges of files always replaced as
a whole, and persists an index whose chunks are flushed (what happens when they are not is
`Persist`'s subject). The compactor is cut at each request; the order in which Go's maps
yield extents is any order that keeps those of a chunk together. `Encodable` is what
`toWireSnapshot` and `parseChunkSeq` accept. `KeepsDir` says whether `FUSEY_CACHE_DIR` outlives
the process. A request that fails after it took effect is the request followed by `Fail`.

**Mount.** A daemon is named by its directory; `ends` holds who has the write end of its pipe
open, so that `io.ReadAll` returns when it is empty. A signal before `signal.Notify` ends the
process, a later one waits in the channel. `Waits` is the user's side: `fusey unmount` only
sends a signal, so whoever mounts again at once overlaps the daemon that still flushes.
`Faults` lists what goes wrong. A persist is one step here.

## 3. The runs

Passing runs:

| Run | Shows |
|---|---|
| `Broker` | over lost, repeated and late uploads and kills at any request: acknowledged bytes stay readable (`AppendedReadable`), a skipped flush loses nothing (`CleanMeansStored`), chunks and attempts respect their limits (`BrokerTypeOK`), a call gives `cs.mu` back (`CallEnds`); and the refinements `ImplementsChunkStore` and `ImplementsChunkLog`, the second of which has it that objects only grow and that a restart opens no chunk over an old one |
| `FileOverlay` | with two writers, truncates and unlinks, no extent is stale (`NoStaleExtents`) or beyond the size (`ExtentsWithinSize`) |
| `FileReads` | when no write splits an extent in two, racing reads are regular: each byte is one its file had at that offset during the read (`ReadsRegular`); and no written byte loses its extent (`NoLostBytes`) |
| `Namespace` | under `idx.mu` alone and with restarts: link counts, no dangling reference, sound lookups, snapshots that restore every directory; under the kernel's locks also: every inode reachable, Rmdir removes only what it looked up |
| `Persist` | one write, fsync or persist at a time, failing or killed at any step: remote index consistent (`RemoteConsistent`), unmount complete (`AloneUnmountComplete`), `index.cbor` whole (`LocalNeverPartial`) and current (`SyncedInLocal`), and the remote index catches up again and again (`EventuallyPersisted`); also with all calls interleaved, bytes a successful Fsync covered are in the store (`SyncedBytesStored`) |
| `Cache` | right bytes, whole files, one fetch per chunk, waiters find their bytes, every read ends (`ReadsEnd`) |
| `Compaction` | while no daemon is mounted, cycles that fail or are killed anywhere leave every extent readable (`LiveReadable`) and every file its bytes (`FilesKept`); a cycle without failed requests that returns nil leaves nothing above the threshold, leftovers of killed cycles included (`CycleReclaims`); cycles end (`CycleEnds`) |
| `Mount` | a failure `fusey mount` reports is final (`FailedMeansGone`); with `Waits`, no two daemons own the index object (`OneOwner`) and no persisted write is taken back (`NoWriteLost`); `fusey mount` returns (`ParentResolves`), a signalled daemon ends (`StopCompletes`) |

Runs that end in a counterexample, where the code does not do what a comment or one of
its specifications says:

| Run | The statement | What happens |
|---|---|---|
| `FileLostBytes` | `index.go:488-490`: a write orphans the extents "that overlap the written range" | a split writes its tail over the next, unread element; an extent outside the range is lost |
| `PersistLost` | `specs/mount.qnt:298`: the index is flushed before the daemon stops | MarkRemoteClean clears the mark of a later write; a late periodic upload overwrites the final one |
| `CompactMounted` | `specs/compaction.qnt:17`: no live extent is destroyed during compaction | a chunk sealed since the daemon's last persist is wholly orphaned in the compactor's index, and deleted |
| `CompactUnsaved` | `README.md:103-105`: the index with the new places is persisted and the old chunks deleted | extents in `compacted-*` chunks cannot be encoded: every cycle with something to copy returns an error and leaves its copies behind |

So the only cycles that complete are those whose selected chunks hold nothing live;
`Compaction`'s properties are about these and about how the others stop.

What TLC finds in settings that have no run of their own:

- `Persist` with `Modes = {FALSE}`, all calls interleaved. `RemoteConsistent` without its
  `exclusive` fails, although `main.go:393-395` says the remote store "is always
  self-consistent": a write between FlushActive and Marshal (`main.go:414`) is in the index
  and not in the store. So do `LocalNeverPartial`: all Saves write `index.cbor.tmp`
  (`persist.go:167`), and one renames the file another has just truncated; `SyncedInLocal`: two
  Saves rename (`persist.go:172`) in the other order than they took their snapshots
  (`persist.go:156`); and `EventuallyPersisted`: MarkRemoteClean (`main.go:421`) clears the mark of a
  write made during the upload, and no later write sets it.
- The mapping an Fsync saved is not found by the next mount after a kill, which looks in
  another directory (`fs.go:501-502` and `main.go:427` say that the local index serves a restart).
- `FileData`: two writes pass the capacity check (`fs.go:479`) together and exceed it
  (`specs/filesystem.qnt:607`).
- `Compaction` with `KeepsDir = TRUE` violates `FilesKept`: the second cycle starts from the
  `index.cbor` the first one saved and puts it over what a daemon persisted since
  (`main.go:317` says it "loads the index from S3").
- `Mount` with `Waits = FALSE` violates `OneOwner` and `NoWriteLost`; with `"pidfile"` in `Faults`
  `OneOwner`, with `"busy"` `NoWriteLost` (`specs/mount.qnt:292` has the file system inaccessible while
  the daemon flushes; `main.go:255` goes on after an error).

**Bounds.** `MaxSeq`, `MaxFileSize`, `MaxWrites`, `MaxIno`, `MaxExtents` and `MaxRuns` are bounds of
the models and appear as guards. Chunks of two or three bytes with payloads of one to
three reach all branches of Append, refusal included. Three attempts give a first, a
middle and a last one. A file of four bytes
with writes of one and three is the least in which a split is followed by another
extent. Three readers of one chunk give a fetcher, a waiter and a late comer. Three
inodes, two names and two requests let each handler race each other one, and
allow a directory inside a directory. Two requests suffice for the check-then-act
races. Two slots, payloads of one and two bytes in chunks of three and a threshold of a third
give chunks below, at and above the threshold and outputs that rotate; two cycles let one
clean up after another. Three daemons let one start while another stops and a third
has left its PID file. `Persist` has kills and stops only where calls do not overlap: with
both, the interleaved mode is beyond five minutes, and the theorem covers it. Symmetry is
used over requests and over names, in runs without liveness.

**Deadlock.** `Mount` and `Compaction` may stop: the bounded daemons and cycles are used up.

**Fairness.** `Broker`: a call moves on (weak), since a request ends by an answer or by the
client's timeout and a backoff by its timer; that anything succeeds is not assumed.
`Persist`: goroutines that can run do (weak). The tick is strongly fair:
no mutex keeps the ticker waiting, so that where calls are taken one at a time it fires
between two of them. A file operation or an upload tried again at every tick works in
the end (strong). Nothing is assumed about writers beginning, signals or kills.
`Cache`: a goroutine that can run does; that a caller gives up waiting is not assumed.
`Compaction`: the compactor goes on (weak), since every request returns. `Mount`: a daemon's
next step and the parent's read are not put off for ever (weak); nothing is assumed of
clients, signals and kills.

## 4. The proofs

`ChunkStoreProofs`, for every chunk size, payload set and bound: `AppendedReadable`,
`CleanMeansStored`, `ActiveNotAliased`, `CSTypeOK`, and the action property
`StoreAppendOnly`. `AppendedReadable` is not inductive: a new chunk might reuse an id.
The invariant `CSInv` adds that no object and no acknowledged byte lies above the active
chunk (`StoredBelow`), so that the next number is free, and that the object under the
active id is a beginning of the buffer, so that a later Put extends it. The proof has
a lemma per action.

`RemoteProofs`, about `BrokerStore`, for any number of attempts: `BrokerStore` implements `ChunkStore`
(`BrokerImplementsChunkStore`), `ChunkStore` implements `ChunkLog` (`ChunkStoreImplementsLog`), hence
`BrokerStore` implements `ChunkLog`; and what `ChunkStoreProofs` shows carries over
(`RetriedBytesReadable`, `RetriedFlushIsSafe`). The first needs an invariant of the call: while it lasts the buffer
is what it began with, and once the storage has answered the object is the buffer. An upload
that takes effect is then a failed Put that happened, and the success that follows
stores the same bytes again. The second maps a log to what a reader finds; the invariant
is that this is `appended`. `BrokerTypeOK`, with the limits on attempts and chunk size, needs
that a backoff is begun only when an attempt is left (`AttemptInv`).

`FileDataInv` and `FileDataProofs`, for any number of files, requests and writes: `TypeOK`,
`NoStaleExtents`, `ExtentsWithinSize`. The invariant `FileInv` follows an extent from Append into the index: between the two it leads to the bytes of its own write
(`ExtOK`); inside the loop of WriteExtent everything kept is part of a fresh extent and
lies outside the written range (`OverlayOK`), also what the shared array lets the loop
see twice; inside trimExtents it ends at the new size (`TrimOK`). Freshness is stated
over `appended`, which only grows (`AppendedGrows`), and `CSInv` carries it to what a read
finds. `idx.mu` enters as `LockOK`.

`NoLostBytes` is false in general (`FileLostBytes`). `FileDataProofs` shows that a split is the only
cause: in every behaviour in which no write lies strictly inside an extent of its file (`NoSplit`), with
any interleaving, failure, truncate and unlink, `NoLostBytes` and `ReadsRegular` hold. The invariant
`KeepInv` says that what the loop of WriteExtent has kept lies behind the element it is at, so that the
shared array does no harm, that each byte is in what is still to be read, in what is kept, or
overwritten (`OverlayKeeps`, `TrimKeeps`), and that a read copies from the extents of one moment:
there are stamps `lat`, all seen during the read, that every captured extent leads to, and each
byte is already that of `lat` or still to be copied (`ReadAt`). The hypothesis can be met: writes whose
lengths differ by at most a byte never split an extent, since no extent is longer than a write by
more than that (`EvenWritesDoNotSplit`, from `ShortInv`); the lengths of `FileReads` are such.

`PersistProofs`, for any writers, fsyncs, payloads, interleavings and kills:
`SyncedBytesStored`. The invariant `SyncInv` adds to `CSInv` that what this daemon wrote is among
the acknowledged bytes (`WrittenHeld`), so that FlushActive stores it, and that an Fsync past
its FlushActive has all it answers for in the store (`CoveredStored`). The other safety properties,
`PersistTypeOK`, `RemoteConsistent`, `AloneUnmountComplete`, `LocalNeverPartial` and `SyncedInLocal`,
follow from `PersistInv`. Its types hold whatever overlaps; they rest on the wire form giving back
the index it was made from (`WireTrip`). The rest is for calls that do not overlap, as the
properties are, with failures, kills and stops at any step: at most one saver is at work
and then no write is half done (`OneAtATime`), so that a snapshot is still the index when it
is renamed or uploaded (`SaveInv`); what the index refers to is stored before the
index is uploaded, and only an uploaded index is clean (`RemoteInv`); what an Fsync covered is in
`index.cbor` (`SyncedInv`).

`CacheProofs`, for any number of readers, chunks and bytes, with failures and deletions at
any step: `ReadsRight`, `FilesWhole`, `FetchedOnce`, `WaitersServed`. None of them is inductive. The
invariant `CacheInv` says that the entry in `c.inflight` belongs to one goroutine from the
moment it is made until it is deleted (`EntryHeld`), so that one goroutine at a time writes the
temporary file, and what is where at each step of the fetch (`BytesRight`): the data fetched is the whole
chunk, it is in the temporary file before the rename, and the entry says `ok` only when it is in
place.

`NamespaceProofs`, for any requests at once, any names, any number of inodes and remounts at any
moment: `NoDangling`, `NlinkConsistent`, `SnapshotRoundTrip`, `LookupSound` and the action property
`RmdirRemovesDir`. The invariant `NsInv` has three parts. `Books` says that the maps agree
and that `nlink` is the number of entries; it has a third argument, the inodes whose count is
one ahead because an entry of theirs has just been taken away, so that RemoveDirEntry and Rename
are followed call by call (`UnbindBooks`, `BindBooks`, `DropBooks`). `Requests` says what a request relies on
between its two locks: that the inode it is about to name is not an inode number used
again, and that a new directory has no other entry, which is what keeps the count of a directory at
two. `Locks` says what the locks of the VFS add: what Rmdir looked up is still there.
`LinksCounted` needs the theorems on cardinality of the library.

`AllReachable` (`EverythingReachable`) speaks of calls that the VFS serialises, and of moments when none
is at work. What holds at every moment then is `ReachOK`: the inodes that cannot be reached are those
in `Loose`, new ones that AddDirEntry is about to name and those a kill left, and each of them
is bare, without an entry to it or from it; and AddDirEntry finds its directory, its inode and
the name free, so that it cannot fail (`NoAddError`). Being reached is stated without paths: a set of
inodes that has the root and is closed under entries has all but the loose ones (`Reached`). A step
keeps this when every set closed after it gives one closed before it. For Rename (`ReachMove`) the
set that shows the target not to be `Below` what moves is added to it, and no invariant on
loops is needed; when an entry is dropped the inode has another one, by its count, or is freed
(`ReachDrop`). TLC checked `ReachOK` on the constants of the run before it was proved.

`CompactionProofs`, for any threshold, payloads, files and cycles, assuming that no daemon is
mounted meanwhile and that the cache directory does not outlive the process:
`LiveReadable`, `FilesKept` and `CycleReclaims`. `CSInv` does not hold here, since a compactor adds and deletes
objects; the invariant `CompactInv` says what remains of it for the daemon's chunks
(`StoreInv`), that a daemon and a cycle exclude each other, and that the compactor's index is
the index object and spares its chunks, as long as that index can be saved (`CycleInv`).
The last condition is where the refusal that `CompactUnsaved` shows enters: once an extent is
copied, nothing is stored or deleted any more. Were copied extents encodable,
the proof would have to follow the bytes of each through `Packed`. `CycleReclaims`, under the same
assumptions, needs that every object is still to be looked at, selected or below the threshold
unless a request failed, that no object has the compactor's own id, and that a cycle that can be
saved has made no output (`SelectInv`). `CompactionTypeOK` holds without the assumptions: an index
that is stored names chunks of a `ChunkStore`, and no object, buffer or output outgrows a chunk (`SizeInv`).
The outputs are computed by the recursive function `Packed`; that each of them fits is an induction over
the extents packed so far, made by taking the least position at which it would fail (`NatMin`, `UpTo`).

`RemoteProofs`, about `Mount`, for any number of daemons and writes. `FailedMeansGone` under all faults: a
daemon that has not reported holds the pipe open. `OneOwner`, assuming `Waits` and that PID files
can be written: an owner has a waiting parent until it has reported and a PID file
afterwards (`OwnerInv`). `NoWriteLost`, assuming also that Unmount succeeds: what a daemon saved
is in the index object and in every index loaded from it since (`KeptInv`). `MountTypeOK` needs that
only a daemon that runs has its file system mounted or a signal to take (`ReachInv`).

Assumptions on constants: payloads are non-empty sequences of bytes, the bounds are
naturals, write lengths and the number of attempts are positive, `Byte` has the stamped bytes,
fsyncs and persists have different names, slots are finitely many, daemons are named by
integers, there is a chunk to cache, inode numbers reach at least the root's, and the kinds of
inode created are among the types.

Only model-checked:

- The liveness properties (`CallEnds`, `ReadsEnd`, `EventuallyPersisted`, `CycleEnds`, `ParentResolves`,
  `StopCompletes`): fairness and `ENABLED` are beyond the prover.

## 5. Not modelled, and why

- Readdir, Getattr, Statfs, Readlink and reads of attributes: they change nothing.
  Setattr of mode, owner and times: plain assignments.
- Sizes in `Setattr` beyond the capacity: growing is not checked by the code and the
  documents do not say whether it should be.
- An upload that arrives after its call has returned. The storage keeps the last writer, so
  an older state of the active chunk could replace a newer one; nothing in the client or
  the broker bounds how long a request may be under way, and what can be said depends on it.
- GetRange, Size and List through the broker: they retry as Put does and change nothing.
- Reuse of process ids: no state of the program shows it.
- S3 requests, paging, error texts; the local store; configuration, read once; the reference
  broker, which keeps nothing between requests.
- `AppendExtent`: it has no caller.

## 6. What could follow

1. `Persist` over `ChunkCache`: reads after a mount whose index is ahead of the store
   (`cache.go:106` slices without a length check).
2. An abstract file (a function from offsets to bytes) that `FileData` implements when
   extents are not split.
3. Proofs: that a read returns bytes its own file had during it, that no byte loses its
   extent while none is split, and that every inode stays reachable.
