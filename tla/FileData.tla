------------------------------- MODULE FileData -------------------------------
(***************************************************************************)
(* The data path of regular files: FileHandle.Write, FileHandle.Read and   *)
(* Setattr with a size (internal/fuse/fs.go), the extent lists they keep   *)
(* in the index (WriteExtent, trimExtents in internal/index/index.go) and  *)
(* the chunk store below them.                                             *)
(*                                                                         *)
(* Each Proc is a goroutine serving one FUSE request at a time.  A request *)
(* is cut at every point where it holds neither idx.mu nor cs.mu; the two  *)
(* loops over an extent list run under idx.mu (idxLock), one iteration per *)
(* step.  A byte of a write carries the file, offset and number of the     *)
(* write that produced it, so that a read shows where its bytes are from.  *)
(***************************************************************************)
EXTENDS ChunkStore, FiniteSetsExt

CONSTANTS
    File,         \* inode numbers of regular files
    Proc,         \* request goroutines
    NoProc,       \* idx.mu is free
    MaxFileSize,  \* bound: no write or truncate reaches past this offset
    MaxWrites,    \* bound: number of writes
    WriteLens,    \* lengths of writes
    TruncSizes,   \* sizes Setattr is called with
    ReadRanges,   \* <<offset, length>> of reads
    MaxFSSize     \* cfg.MaxFSSize

Offset == 0..(MaxFileSize - 1)
Stamp == 0..MaxWrites              \* 0: never written, reads as zero

ASSUME NoProcAssumption == NoProc \notin Proc
ASSUME FileAssumption == File # {}
ASSUME BoundsAssumption ==
    /\ MaxFileSize \in Nat /\ MaxWrites \in Nat
    /\ WriteLens \subseteq Nat \ {0} /\ TruncSizes \subseteq 0..MaxFileSize
    /\ ReadRanges \subseteq Offset \X (Nat \ {0})
ASSUME ByteAssumption ==
    \A f \in File, o \in Offset, s \in Stamp : [file |-> f, off |-> o, stamp |-> s] \in Byte

VARIABLES
    live,      \* files whose inode is in idx.inodes
    size,      \* Inode.Size
    extents,   \* idx.extents
    idxLock,   \* the holder of idx.mu across steps
    pc,        \* where each request is
    arg,       \* its arguments, and the file size it read
    ext,       \* Write: the extent Append returned
    iter,      \* the index its loop is at
    out,       \* Write: surviving; Setattr: kept; Read: the captured extents
    buf,       \* Read: the result so far
    latest,    \* history: number of the write each byte of a file is from
    writes,    \* history: number of writes begun
    seen       \* history: per read, the values each byte has had since it began

indexVars == <<live, size, extents, idxLock>>
reqVars == <<pc, arg, ext, iter, out, buf>>
histVars == <<latest, writes, seen>>
vars == <<csVars, indexVars, reqVars, histVars>>

Extent == [chunk : ChunkIDs, chunkOff : Nat, len : Nat \ {0}, fileOff : Nat]
NoExtent == [chunk |-> chunkID(0), chunkOff |-> 0, len |-> 1, fileOff |-> 0]
NoArg == [file |-> CHOOSE f \in File : TRUE, off |-> 0, len |-> 0, grow |-> 0, stamp |-> 0]

NoByte == [file |-> NoArg.file, off |-> 0, stamp |-> 0]

End(e) == e.fileOff + e.len
Unread == [o \in Offset |-> 0]
NoBuf == [o \in Offset |-> NoByte]
NotSeen == [o \in Offset |-> {0}]

\* Request p moves to the point named at.
Goto(p, at) == pc' = [pc EXCEPT ![p] = at]

\* Request p answers the kernel, with or without an error; its locals are gone.
Reply(p) ==
    /\ Goto(p, "idle")
    /\ arg' = [arg EXCEPT ![p] = NoArg]
    /\ ext' = [ext EXCEPT ![p] = NoExtent]
    /\ iter' = [iter EXCEPT ![p] = 1]
    /\ out' = [out EXCEPT ![p] = <<>>]
    /\ buf' = [buf EXCEPT ![p] = NoBuf]

-----------------------------------------------------------------------------
(* FileHandle.Write *)

\* GetInode: the size the space check is based on.
WriteStart(p, f, off, len) ==
    /\ pc[p] = "idle" /\ idxLock = NoProc
    /\ f \in live
    /\ off + len <= MaxFileSize /\ writes < MaxWrites
    /\ writes' = writes + 1
    /\ arg' = [arg EXCEPT ![p] = [file |-> f, off |-> off, len |-> len,
                                  grow |-> (off + len) - size[f], stamp |-> writes + 1]]
    /\ Goto(p, IF off + len > size[f] THEN "space" ELSE "append")
    /\ UNCHANGED <<csVars, indexVars, ext, iter, out, buf, latest, seen>>

UsedBytes == MapThenSumSet(LAMBDA f : size[f], live)

\* The ENOSPC check of a write that extends its file.
WriteSpace(p) ==
    /\ pc[p] = "space" /\ idxLock = NoProc
    /\ \/ UsedBytes + arg[p].grow > MaxFSSize /\ Reply(p)
       \/ /\ UsedBytes + arg[p].grow <= MaxFSSize
          /\ Goto(p, "append")
          /\ UNCHANGED <<arg, ext, iter, out, buf>>
    /\ UNCHANGED <<csVars, indexVars, histVars>>

Payload(a) == [i \in 1..a.len |-> [file |-> a.file, off |-> a.off + i - 1, stamp |-> a.stamp]]

WriteAppend(p) ==
    /\ pc[p] = "append"
    /\ AppendData(Payload(arg[p]))
    /\ ext' = [ext EXCEPT ![p] = [chunk |-> activeID', chunkOff |-> AppendOffset(Payload(arg[p])),
                                  len |-> arg[p].len, fileOff |-> arg[p].off]]
    /\ Goto(p, "extent")
    /\ UNCHANGED <<indexVars, arg, iter, out, buf, histVars>>

\* Append refuses a payload larger than a chunk, or could not seal: EIO.
WriteAppendError(p) ==
    /\ pc[p] = "append"
    /\ \/ arg[p].len > MaxChunkSize /\ UNCHANGED csVars
       \/ AppendError(Payload(arg[p]))
    /\ Reply(p)
    /\ UNCHANGED <<indexVars, histVars>>

\* WriteExtent: the inode is gone (EIO), or the loop begins under idx.mu.
WriteExtent(p) ==
    /\ pc[p] = "extent" /\ idxLock = NoProc
    /\ \/ /\ arg[p].file \notin live
          /\ Reply(p)
          /\ UNCHANGED idxLock
       \/ /\ arg[p].file \in live
          /\ idxLock' = p
          /\ Goto(p, "overlay")
          /\ UNCHANGED <<arg, ext, iter, out, buf>>
    /\ UNCHANGED <<csVars, live, size, extents, histVars>>

\* What one iteration keeps of extent e when n is written: e itself, or the
\* head before n and the tail after it.
Head1(e, n) ==
    IF e.fileOff < n.fileOff
    THEN <<[e EXCEPT !.len = n.fileOff - e.fileOff]>> ELSE <<>>

\* MUTANT of Tail1: the tail keeps the chunk offset of the whole extent.
TailUnshifted(e, n) ==
    IF End(e) > End(n)
    THEN <<[e EXCEPT !.len = End(e) - End(n), !.fileOff = End(n)]>> ELSE <<>>

\* MUTANT of Tail1: only the head of a split extent is kept.
TailDropped(e, n) == <<>>

Tail1(e, n) ==
    IF End(e) > End(n)
    THEN <<[e EXCEPT !.chunkOff = e.chunkOff + (End(n) - e.fileOff),
                     !.len = End(e) - End(n), !.fileOff = End(n)]>> ELSE <<>>

Surviving(e, n) ==
    IF End(e) <= n.fileOff \/ e.fileOff >= End(n)
    THEN <<e>> ELSE Head1(e, n) \o Tail1(e, n)

\* surviving is idx.extents[ino][:0]: it shares its array with the list being
\* ranged over, so an element already overwritten is read back from surviving.
RangeElement(p) ==
    IF iter[p] <= Len(out[p]) THEN out[p][iter[p]] ELSE extents[arg[p].file][iter[p]]

OverlayStep(p) ==
    /\ pc[p] = "overlay"
    /\ iter[p] <= Len(extents[arg[p].file])
    /\ out' = [out EXCEPT ![p] = @ \o Surviving(RangeElement(p), ext[p])]
    /\ iter' = [iter EXCEPT ![p] = @ + 1]
    /\ UNCHANGED <<csVars, indexVars, pc, arg, ext, buf, histVars>>

\* A change of the bytes of file f is visible to every read of f in progress.
Observe(f, lat) ==
    /\ latest' = [latest EXCEPT ![f] = lat]
    /\ seen' = [p \in Proc |->
                    IF pc[p] \in {"getextents", "read", "sealed"} /\ arg[p].file = f
                    THEN [o \in Offset |-> seen[p][o] \cup {lat[o]}] ELSE seen[p]]

\* MUTANT of Grown: a write never extends its file.
GrownNever(s, e) == s

\* The size of a file of size s once extent e is written.
Grown(s, e) == IF End(e) > s THEN End(e) ELSE s

WriteCommit(p) ==
    LET f == arg[p].file
    IN  /\ pc[p] = "overlay"
        /\ iter[p] > Len(extents[f])
        /\ extents' = [extents EXCEPT ![f] = Append(out[p], ext[p])]
        /\ size' = [size EXCEPT ![f] = Grown(@, ext[p])]
        /\ idxLock' = NoProc
        /\ Reply(p)
        /\ Observe(f, [o \in Offset |-> IF o \in arg[p].off..(End(ext[p]) - 1)
                                        THEN arg[p].stamp ELSE latest[f][o]])
        /\ UNCHANGED <<csVars, live, writes>>

-----------------------------------------------------------------------------
(* Setattr with a size: SetAttr and trimExtents *)

Truncate(p, f, n) ==
    /\ pc[p] = "idle" /\ idxLock = NoProc
    /\ f \in live /\ n # size[f]
    /\ arg' = [arg EXCEPT ![p] = [file |-> f, off |-> n, len |-> 0, grow |-> 0, stamp |-> 0]]
    /\ idxLock' = p
    /\ Goto(p, "trim")
    /\ UNCHANGED <<csVars, live, size, extents, ext, iter, out, buf, histVars>>

\* MUTANT of Trimmed: an extent beyond the new size is cut, not dropped.
TrimmedNoDrop(e, n) ==
    IF End(e) > n THEN <<[e EXCEPT !.len = n - e.fileOff]>> ELSE <<e>>

\* What trimExtents keeps of extent e.
Trimmed(e, n) ==
    IF e.fileOff >= n THEN <<>>
    ELSE IF End(e) > n THEN <<[e EXCEPT !.len = n - e.fileOff]>> ELSE <<e>>

TrimStep(p) ==
    /\ pc[p] = "trim"
    /\ iter[p] <= Len(extents[arg[p].file])
    /\ out' = [out EXCEPT ![p] = @ \o Trimmed(extents[arg[p].file][iter[p]], arg[p].off)]
    /\ iter' = [iter EXCEPT ![p] = @ + 1]
    /\ UNCHANGED <<csVars, indexVars, pc, arg, ext, buf, histVars>>

TrimCommit(p) ==
    LET f == arg[p].file
    IN  /\ pc[p] = "trim"
        /\ iter[p] > Len(extents[f])
        /\ extents' = [extents EXCEPT ![f] = out[p]]
        /\ size' = [size EXCEPT ![f] = arg[p].off]
        /\ idxLock' = NoProc
        /\ Reply(p)
        /\ Observe(f, [o \in Offset |-> IF o >= arg[p].off THEN 0 ELSE latest[f][o]])
        /\ UNCHANGED <<csVars, live, writes>>

\* The last link of f is removed (RemoveDirEntry, Rename), open handles or not.
Free(f) ==
    /\ idxLock = NoProc
    /\ f \in live
    /\ live' = live \ {f}
    /\ extents' = [extents EXCEPT ![f] = <<>>]
    /\ Observe(f, Unread)
    /\ UNCHANGED <<csVars, size, idxLock, reqVars, writes>>

-----------------------------------------------------------------------------
(* FileHandle.Read *)

\* A read ends.
ReadReply(p) == Reply(p) /\ seen' = [seen EXCEPT ![p] = NotSeen]

\* GetInode: the range is clipped to the size of this moment.
ReadStart(p, f, off, len) ==
    /\ pc[p] = "idle" /\ idxLock = NoProc
    /\ f \in live /\ off < size[f]
    /\ arg' = [arg EXCEPT ![p] = [file |-> f, off |-> off,
                                  len |-> IF off + len > size[f] THEN size[f] - off ELSE len,
                                  grow |-> 0, stamp |-> 0]]
    /\ seen' = [seen EXCEPT ![p] = [o \in Offset |-> {latest[f][o]}]]
    /\ Goto(p, "getextents")
    /\ UNCHANGED <<csVars, indexVars, ext, iter, out, buf, latest, writes>>

\* GetExtents: a copy of the list, and a zeroed result.  The list of an inode
\* freed meanwhile is gone: the read is empty.
GetExtents(p) ==
    /\ pc[p] = "getextents" /\ idxLock = NoProc
    /\ \/ arg[p].file \notin live /\ ReadReply(p)
       \/ /\ arg[p].file \in live
          /\ out' = [out EXCEPT ![p] = extents[arg[p].file]]
          /\ buf' = [buf EXCEPT ![p] = [o \in Offset |->
                            [file |-> arg[p].file, off |-> o, stamp |-> 0]]]
          /\ Goto(p, "read")
          /\ UNCHANGED <<arg, ext, iter, seen>>
    /\ UNCHANGED <<csVars, indexVars, latest, writes>>

\* MUTANT of Wanted: the first byte of the extent is skipped.
WantedNoFirst(e, a) == {o \in a.off..(a.off + a.len - 1) : e.fileOff < o /\ o < End(e)}

\* The offsets request a takes from extent e.
Wanted(e, a) == {o \in a.off..(a.off + a.len - 1) : e.fileOff <= o /\ o < End(e)}

\* Copy what extent e contributes from the bytes of its chunk.
Copy(p, e, bytes) ==
    /\ buf' = [buf EXCEPT ![p] = [o \in Offset |->
                    IF o \in Wanted(e, arg[p]) THEN bytes[e.chunkOff + (o - e.fileOff) + 1]
                    ELSE buf[p][o]]]
    /\ iter' = [iter EXCEPT ![p] = @ + 1]

\* Does the chunk hold every byte that e contributes?
Covers(bytes, e, a) == \A o \in Wanted(e, a) : e.chunkOff + (o - e.fileOff) < Len(bytes)

\* One extent: not wanted, or in the active chunk and copied under cs.mu (out
\* of bounds: EIO), or in a sealed chunk and still to be fetched.
ReadExtent(p) ==
    /\ pc[p] = "read"
    /\ iter[p] <= Len(out[p])
    /\ LET e == out[p][iter[p]]
       IN  \/ /\ Wanted(e, arg[p]) = {}
              /\ iter' = [iter EXCEPT ![p] = @ + 1]
              /\ UNCHANGED <<pc, arg, ext, out, buf, seen>>
           \/ /\ Wanted(e, arg[p]) # {} /\ e.chunk = activeID
              /\ Covers(activeBuf, e, arg[p])
              /\ Copy(p, e, activeBuf)
              /\ UNCHANGED <<pc, arg, ext, out, seen>>
           \/ /\ Wanted(e, arg[p]) # {} /\ e.chunk = activeID
              /\ ~Covers(activeBuf, e, arg[p])
              /\ ReadReply(p)
           \/ /\ Wanted(e, arg[p]) # {} /\ e.chunk # activeID
              /\ Goto(p, "sealed")
              /\ UNCHANGED <<arg, ext, iter, out, buf, seen>>
    /\ UNCHANGED <<csVars, indexVars, latest, writes>>

\* A sealed chunk is fetched without cs.mu.
ReadSealed(p) ==
    /\ pc[p] = "sealed"
    /\ LET e == out[p][iter[p]]
       IN  /\ e.chunk \in DOMAIN store /\ Covers(store[e.chunk], e, arg[p])
           /\ Copy(p, e, store[e.chunk])
    /\ Goto(p, "read")
    /\ UNCHANGED <<csVars, indexVars, arg, ext, out, histVars>>

\* The fetch fails, or the object does not hold the bytes: EIO.
ReadSealedError(p) ==
    /\ pc[p] = "sealed"
    /\ ReadReply(p)
    /\ UNCHANGED <<csVars, indexVars, latest, writes>>

\* TouchAtime, then the result goes to the kernel.
ReadDone(p) ==
    /\ pc[p] = "read" /\ idxLock = NoProc
    /\ iter[p] > Len(out[p])
    /\ Goto(p, "result")
    /\ UNCHANGED <<csVars, indexVars, arg, ext, iter, out, buf, histVars>>

ReadResult(p) ==
    /\ pc[p] = "result"
    /\ ReadReply(p)
    /\ UNCHANGED <<csVars, indexVars, latest, writes>>

-----------------------------------------------------------------------------

\* A persist or an fsync flushes the active chunk.
Flush ==
    /\ FlushActive \/ FlushError
    /\ UNCHANGED <<indexVars, reqVars, histVars>>

\* No request is being served, and none arrives.
Quiet ==
    /\ \A p \in Proc : pc[p] = "idle"
    /\ UNCHANGED vars

Init ==
    /\ CSInit
    /\ live = File
    /\ size = [f \in File |-> 0]
    /\ extents = [f \in File |-> <<>>]
    /\ idxLock = NoProc
    /\ pc = [p \in Proc |-> "idle"]
    /\ arg = [p \in Proc |-> NoArg]
    /\ ext = [p \in Proc |-> NoExtent]
    /\ iter = [p \in Proc |-> 1]
    /\ out = [p \in Proc |-> <<>>]
    /\ buf = [p \in Proc |-> NoBuf]
    /\ latest = [f \in File |-> Unread]
    /\ writes = 0
    /\ seen = [p \in Proc |-> NotSeen]

WriteNext(p) ==
    \/ \E f \in File, off \in Offset, len \in WriteLens : WriteStart(p, f, off, len)
    \/ WriteSpace(p) \/ WriteAppend(p) \/ WriteAppendError(p)
    \/ WriteExtent(p) \/ OverlayStep(p) \/ WriteCommit(p)

SetattrNext(p) ==
    \/ \E f \in File, n \in TruncSizes : Truncate(p, f, n)
    \/ TrimStep(p) \/ TrimCommit(p)

ReadNext(p) ==
    \/ \E f \in File, r \in ReadRanges : ReadStart(p, f, r[1], r[2])
    \/ GetExtents(p) \/ ReadExtent(p) \/ ReadSealed(p) \/ ReadSealedError(p)
    \/ ReadDone(p) \/ ReadResult(p)

Next ==
    \/ \E p \in Proc : WriteNext(p) \/ SetattrNext(p) \/ ReadNext(p)
    \/ \E f \in File : Free(f)
    \/ Flush
    \/ Quiet

Spec == Init /\ [][Next]_vars

-----------------------------------------------------------------------------
(* Properties *)

Request == [file : File, off : 0..MaxFileSize, len : 0..MaxFileSize, grow : Int, stamp : Stamp]
Points == {"idle", "space", "append", "extent", "overlay", "trim",
           "getextents", "read", "sealed", "result"}

FileTypeOK ==
    /\ live \subseteq File
    /\ size \in [File -> 0..MaxFileSize]
    /\ extents \in [File -> Seq(Extent)]
    /\ idxLock \in Proc \cup {NoProc}
    /\ pc \in [Proc -> Points]
    /\ arg \in [Proc -> Request]
    /\ ext \in [Proc -> Extent]
    /\ iter \in [Proc -> Nat \ {0}]
    /\ out \in [Proc -> Seq(Extent)]
    /\ latest \in [File -> [Offset -> Stamp]]
    /\ writes \in Stamp
    /\ seen \in [Proc -> [Offset -> SUBSET Stamp]]

TypeOK == CSTypeOK /\ FileTypeOK

\* Extent e of file f leads to the bytes of the last write to each offset it
\* covers, given the writes in lat.
Fresh(f, e, lat) ==
    /\ e.chunk = activeID \/ e.chunk \in DOMAIN store
    /\ e.chunkOff + e.len <= Len(Contents(e.chunk))
    /\ End(e) <= MaxFileSize
    /\ \A o \in e.fileOff..(End(e) - 1) :
           Contents(e.chunk)[e.chunkOff + (o - e.fileOff) + 1]
               = [file |-> f, off |-> o, stamp |-> lat[o]]

\* No extent leads to overwritten or truncated data, to another offset or to
\* another file, however writes, truncates, unlinks and failed uploads
\* interleave (WriteExtent, trimExtents).  Two extents that overlap therefore
\* agree, and the order in which Read copies them does not matter.
NoStaleExtents ==
    \A f \in live : \A i \in DOMAIN extents[f] : Fresh(f, extents[f][i], latest[f])

\* Each byte a read returns was the byte at that offset of that file at some
\* moment of the read: a zero only where the file had no data
\* (FileHandle.Read, against writes, truncates, seals and unlinks).
ReadsRegular ==
    \A p \in Proc : pc[p] = "result" =>
        \A o \in arg[p].off..(arg[p].off + arg[p].len - 1) :
            /\ buf[p][o].file = arg[p].file /\ buf[p][o].off = o
            /\ buf[p][o].stamp \in seen[p][o]

\* A write takes nothing away but what it overwrites: every byte written and
\* not truncated since is still covered by an extent (WriteExtent's comment:
\* it orphans the extents "that overlap the written range").
NoLostBytes ==
    \A f \in live : \A o \in Offset : latest[f][o] # 0 =>
        \E i \in DOMAIN extents[f] : extents[f][i].fileOff <= o /\ o < End(extents[f][i])

\* The size of a file reaches at least to the end of its extents, so that no
\* stored byte lies beyond the range Read serves, and a later growth of the
\* file shows zeros and not the bytes a truncate cut off.
ExtentsWithinSize ==
    \A f \in live : \A i \in DOMAIN extents[f] : End(extents[f][i]) <= size[f]
=============================================================================
