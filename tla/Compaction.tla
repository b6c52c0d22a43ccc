------------------------------ MODULE Compaction ------------------------------
(***************************************************************************)
(* internal/compaction/compactor.go as `fusey compact` runs it             *)
(* (cmd/fusey/main.go): a process of its own that shares only the object   *)
(* store with the daemons.  It loads an index, selects the chunks with too *)
(* many orphaned bytes, copies what is live in them to new chunks, stores  *)
(* the remapped index and deletes the originals.  It may fail or be killed *)
(* between any two of its requests.                                        *)
(*                                                                         *)
(* One daemon writes, flushes, persists and stops; ChunkStore is its chunk *)
(* store, and a persist finds the chunks flushed (Persist is about the     *)
(* case that it does not).  An index maps slots, ranges of files that are  *)
(* always written as a whole, to extents; an extent carries the bytes it   *)
(* stands for.                                                             *)
(***************************************************************************)
EXTENDS ChunkStore, FiniteSets

CONSTANTS
    Slot,            \* the ranges of files that are written
    ThresholdNum,    \* cfg.CompactionThreshold, as a fraction
    ThresholdDen,
    Exclusive,       \* the daemon is stopped while `fusey compact` runs
    KeepsDir,        \* FUSEY_CACHE_DIR outlives the process: same host, not a fresh pod
    MaxRuns          \* bound: compaction cycles

ASSUME SlotAssumption == IsFiniteSet(Slot)

VARIABLES
    up,       \* a daemon is mounted
    idx,      \* its index in memory
    remote,   \* the index object: <<>> or <<index>>
    base,     \* index.cbor in FUSEY_CACHE_DIR: <<>> or <<index>>
    pc,       \* where Compact is
    own,      \* the active id of the compactor's own chunk store
    mem,      \* the compactor's index
    todo,     \* listed chunks not yet looked at
    targets,  \* selected chunks
    outputs,  \* compacted chunks still to be uploaded, numbers -> bytes
    run,      \* number of the cycle
    faulted,  \* a request of this cycle failed
    result    \* of the last cycle

daemonVars == <<up, idx>>
compactVars == <<pc, own, mem, todo, targets, outputs, run, faulted, result>>
vars == <<csVars, daemonVars, remote, base, compactVars>>

\* The empty map.
Empty == [k \in {} |-> <<>>]

\* The index in a file or object, the empty one if there is none.
Loaded(r) == IF r = <<>> THEN Empty ELSE r[1]

\* LiveExtents
Live(index) == {index[s] : s \in DOMAIN index}

-----------------------------------------------------------------------------
(* The daemon *)

\* FuseyNode.Write: the payload is appended and its extent replaces the old one.
Write(s, data) ==
    /\ up
    /\ AppendData(data)
    /\ idx' = [t \in DOMAIN idx \cup {s} |->
                  IF t = s THEN [id |-> activeID', off |-> AppendOffset(data), data |-> data]
                  ELSE idx[t]]
    /\ UNCHANGED <<up, remote, base, compactVars>>

\* Truncate or unlink: the extent is dropped, its bytes are orphaned.
Drop(s) ==
    /\ up
    /\ idx' = [t \in DOMAIN idx \ {s} |-> idx[t]]
    /\ UNCHANGED <<csVars, up, remote, base, compactVars>>

\* Fsync, or the first half of a persist.
Flush ==
    /\ up
    /\ FlushActive
    /\ UNCHANGED <<daemonVars, remote, base, compactVars>>

\* The second half of a persist.
PersistIndex ==
    /\ up
    /\ ~activeDirty
    /\ remote' = <<idx>>
    /\ UNCHANGED <<csVars, daemonVars, base, compactVars>>

\* The daemon ends, after its final persist or killed, and its memory with it.
Stop ==
    /\ up
    /\ up' = FALSE
    /\ idx' = Empty
    /\ activeID' = chunkID(0)
    /\ nextSeq' = 1
    /\ activeBuf' = <<>>
    /\ activeDirty' = FALSE
    /\ appended' = Empty
    /\ UNCHANGED <<store, remote, base, compactVars>>

\* A new daemon, in a directory of its own, loads the index object.
Mount ==
    /\ ~up
    /\ Exclusive => pc = "idle"
    /\ Restart
    /\ up' = TRUE
    /\ idx' = Loaded(remote)
    /\ UNCHANGED <<remote, base, compactVars>>

-----------------------------------------------------------------------------
(* Compact *)

\* mustBuildStore: the compactor's chunk store takes the next free id as its
\* own active chunk.
Start ==
    /\ pc = "idle"
    /\ Exclusive => ~up
    /\ run < MaxRuns
    /\ \E n \in 0..(MaxSeq + 1) : RecoverNextSeq(n) /\ own' = chunkID(n)
    /\ pc' = "load"
    /\ run' = run + 1
    /\ UNCHANGED <<csVars, daemonVars, remote, base, mem, todo, targets, outputs, faulted, result>>

\* Mutant: the index object is not consulted.
LoadLocal ==
    /\ pc = "load"
    /\ mem' = Loaded(base)
    /\ pc' = "list"
    /\ UNCHANGED <<csVars, daemonVars, remote, base, own, todo, targets, outputs, run, faulted, result>>

\* loadIndex: the local file, else the index object (of which a local copy is
\* saved, if that succeeds), else an empty index.
Load ==
    /\ pc = "load"
    /\ \/ /\ base # <<>>
          /\ mem' = base[1]
          /\ UNCHANGED base
       \/ /\ base = <<>>
          /\ mem' = Loaded(remote)
          /\ base' \in {<<>>, remote}
    /\ pc' = "list"
    /\ UNCHANGED <<csVars, daemonVars, remote, own, todo, targets, outputs, run, faulted, result>>

\* Mutant: only ids in the form of a ChunkStore's are listed.
ListSealedOwn ==
    /\ pc = "list"
    /\ todo' = {id \in DOMAIN store : id[1] = "chunk"} \ {own}
    /\ pc' = "size"
    /\ UNCHANGED <<csVars, daemonVars, remote, base, own, mem, targets, outputs, run, faulted, result>>

\* ListSealed: every object but the compactor's own active chunk.
ListSealed ==
    /\ pc = "list"
    /\ todo' = DOMAIN store \ {own}
    /\ pc' = "size"
    /\ UNCHANGED <<csVars, daemonVars, remote, base, own, mem, targets, outputs, run, faulted, result>>

\* The bytes of a chunk an index refers to.
LiveBytes(index, id) ==
    LET here == {s \in DOMAIN index : index[s].id = id}
        Sum[S \in SUBSET here] ==
            IF S = {} THEN 0
            ELSE LET s == CHOOSE s \in S : TRUE IN Len(index[s].data) + Sum[S \ {s}]
    IN Sum[here]

\* The orphaned fraction has reached the threshold; an empty chunk has no use.
Orphaned(id) ==
    LET total == Len(store[id])
    IN (total - LiveBytes(mem, id)) * ThresholdDen >= ThresholdNum * total

\* SealedSize of one listed chunk, and the decision; an error skips the chunk.
SealedSize(id) ==
    /\ pc = "size"
    /\ id \in todo
    /\ todo' = todo \ {id}
    /\ \/ /\ id \in DOMAIN store
          /\ targets' = IF Orphaned(id) THEN targets \cup {id} ELSE targets
          /\ UNCHANGED faulted
       \/ /\ UNCHANGED targets
          /\ faulted' = TRUE
    /\ UNCHANGED <<csVars, daemonVars, remote, base, pc, own, mem, outputs, run, result>>

\* The process ends, with its memory and, in a pod, its disk; nothing else of
\* the system changes.
Exit(r) ==
    /\ pc' = "idle"
    /\ base' = IF KeepsDir THEN base ELSE <<>>
    /\ own' = chunkID(0)
    /\ mem' = Empty
    /\ todo' = {}
    /\ targets' = {}
    /\ outputs' = Empty
    /\ faulted' = FALSE
    /\ result' = r
    /\ UNCHANGED <<csVars, daemonVars, remote, run>>

\* Mutant: the cycle waits until there is something to do.
NoTargetsPolls ==
    /\ pc = "size" /\ todo = {}
    /\ targets = {}
    /\ pc' = "list"
    /\ UNCHANGED <<csVars, daemonVars, remote, base, own, mem, todo, targets, outputs, run, faulted, result>>

\* No chunk was selected: Compact returns nil.
NoTargets ==
    /\ pc = "size" /\ todo = {}
    /\ targets = {}
    /\ Exit("ok")

-----------------------------------------------------------------------------
(* Copying, remapping and committing *)

compactedID(n) == <<"compacted", run, n>>

\* The store has the bytes of the extent where it says.
Stored(e) ==
    /\ e.id \in DOMAIN store
    /\ e.off + Len(e.data) <= Len(store[e.id])
    /\ \A i \in 1..Len(e.data) : store[e.id][e.off + i] = e.data[i]

\* So does the buffer of the active chunk.
Buffered(e) ==
    /\ e.off + Len(e.data) <= Len(activeBuf)
    /\ \A i \in 1..Len(e.data) : activeBuf[e.off + i] = e.data[i]

\* The slots whose extents are copied, in the order of Go's maps: chunk after
\* chunk, in any order within and between chunks.
CopyOrders ==
    LET slots == {s \in DOMAIN mem : mem[s].id \in targets}
        n == Cardinality(slots)
    IN {o \in [1..n -> slots] :
          /\ {o[i] : i \in 1..n} = slots
          /\ \A i, j, k \in 1..n :
                i < j /\ j < k /\ mem[o[i]].id = mem[o[k]].id => mem[o[j]].id = mem[o[i]].id}

\* Mutant: the outputs are never rotated.
PackedUnbounded(order) ==
    LET P[i \in 0..Len(order)] ==
          IF i = 0 THEN <<<<>>>>
          ELSE [P[i - 1] EXCEPT ![1] = @ \o mem[order[i]].data]
    IN P

\* The outputs after the first i extents: an extent that would overflow the
\* last output opens the next one.
Packed(order) ==
    LET P[i \in 0..Len(order)] ==
          IF i = 0 THEN <<<<>>>>
          ELSE LET outs == P[i - 1]
                   data == mem[order[i]].data
                   last == Len(outs)
               IN IF outs[last] # <<>> /\ Len(outs[last]) + Len(data) > MaxChunkSize
                  THEN Append(outs, data)
                  ELSE [outs EXCEPT ![last] = @ \o data]
    IN P

\* Where the i-th extent goes.
Place(order, i) ==
    LET outs == Packed(order)[i]
        data == mem[order[i]].data
    IN [id |-> compactedID(Len(outs)), off |-> Len(outs[Len(outs)]) - Len(data), data |-> data]

\* The index with the copied extents at their new places.
RemapExtents(order) ==
    [s \in DOMAIN mem |->
        IF \E i \in 1..Len(order) : order[i] = s
        THEN Place(order, CHOOSE i \in 1..Len(order) : order[i] = s)
        ELSE mem[s]]

\* The extents of the targets are read and packed.  Their new places go into
\* the index before anything of it leaves the process.
Copy(order) ==
    /\ pc = "size" /\ todo = {}
    /\ targets # {}
    /\ \A i \in 1..Len(order) : Stored(mem[order[i]])
    /\ LET outs == Packed(order)[Len(order)]
       IN outputs' = [n \in {i \in 1..Len(outs) : outs[i] # <<>>} |-> outs[n]]
    /\ mem' = RemapExtents(order)
    /\ pc' = "put"
    /\ UNCHANGED <<csVars, daemonVars, remote, base, own, todo, targets, run, faulted, result>>

\* PutSealed of the next output.
PutSealed ==
    /\ pc = "put"
    /\ \E n \in DOMAIN outputs :
          /\ \A m \in DOMAIN outputs : n <= m
          /\ Put(compactedID(n), outputs[n])
          /\ outputs' = [m \in DOMAIN outputs \ {n} |-> outputs[m]]
    /\ UNCHANGED <<activeID, activeBuf, activeDirty, nextSeq, appended, daemonVars, remote, base,
                   pc, own, mem, todo, targets, run, faulted, result>>

\* toWire encodes an extent's chunk by its sequence number, which only the
\* chunks of a ChunkStore have (parseChunkSeq).
Encodable(index) == \A e \in Live(index) : e.id[1] = "chunk"

\* persist, first part: Save writes index.cbor.
Save ==
    /\ pc = "put" /\ DOMAIN outputs = {}
    /\ Encodable(mem)
    /\ base' = <<mem>>
    /\ pc' = "index"
    /\ UNCHANGED <<csVars, daemonVars, remote, own, mem, todo, targets, outputs, run, faulted, result>>

\* Save cannot encode the index: Compact returns the error.
SaveRefused ==
    /\ pc = "put" /\ DOMAIN outputs = {}
    /\ ~Encodable(mem)
    /\ Exit("error")

\* persist, second part: the index object is replaced (the compactor's own
\* active chunk is empty, so FlushActive does nothing).
PutIndex ==
    /\ pc = "index"
    /\ remote' = <<mem>>
    /\ pc' = "delete"
    /\ UNCHANGED <<csVars, daemonVars, base, own, mem, todo, targets, outputs, run, faulted, result>>

\* Mutant: the chunks are deleted before the index is stored.
DeleteEarly(id) ==
    /\ pc \in {"put", "index", "delete"}
    /\ id \in targets
    /\ store' = [k \in DOMAIN store \ {id} |-> store[k]]
    /\ targets' = targets \ {id}
    /\ UNCHANGED <<activeID, activeBuf, activeDirty, nextSeq, appended, daemonVars, remote, base,
                   pc, own, mem, todo, outputs, run, faulted, result>>

\* DeleteChunks: one target.
Delete(id) ==
    /\ pc = "delete"
    /\ id \in targets
    /\ store' = [k \in DOMAIN store \ {id} |-> store[k]]
    /\ targets' = targets \ {id}
    /\ UNCHANGED <<activeID, activeBuf, activeDirty, nextSeq, appended, daemonVars, remote, base,
                   pc, own, mem, todo, outputs, run, faulted, result>>

\* All targets are gone: Compact returns nil.
Done ==
    /\ pc = "delete" /\ targets = {}
    /\ Exit("ok")

\* A request fails and Compact returns its error, or the process is killed.  A
\* request that fails after its effect is the request followed by this.
Fail ==
    /\ pc # "idle"
    /\ Exit("fault")

-----------------------------------------------------------------------------

Init ==
    /\ CSInit
    /\ up = FALSE
    /\ idx = Empty
    /\ remote = <<>>
    /\ base = <<>>
    /\ pc = "idle"
    /\ own = chunkID(0)
    /\ mem = Empty
    /\ todo = {}
    /\ targets = {}
    /\ outputs = Empty
    /\ run = 0
    /\ faulted = FALSE
    /\ result = "none"

Daemon ==
    \/ \E s \in Slot, data \in Data : Write(s, data)
    \/ \E s \in Slot : Drop(s)
    \/ Flush
    \/ PersistIndex
    \/ Stop
    \/ Mount

Compact ==
    \/ Load
    \/ ListSealed
    \/ \E id \in todo : SealedSize(id)
    \/ NoTargets
    \/ \E order \in CopyOrders : Copy(order)
    \/ PutSealed
    \/ Save
    \/ SaveRefused
    \/ PutIndex
    \/ \E id \in targets : Delete(id)
    \/ Done
    \/ Fail

Next == Daemon \/ Start \/ Compact

Spec == Init /\ [][Next]_vars

\* Every request of the compactor returns, so a cycle under way goes on.
FairSpec == Spec /\ WF_vars(Compact)

-----------------------------------------------------------------------------
(* Properties *)

Bytes(index) == [s \in DOMAIN index |-> index[s].data]

\* Types; an index that has left its process names only chunks an index can
\* encode, and everything a cycle holds is dropped when it ends.
CompactionTypeOK ==
    /\ pc \in {"idle", "load", "list", "size", "put", "index", "delete"}
    /\ \A r \in {remote, base} : Encodable(Loaded(r))
    /\ \A id \in DOMAIN store : id[1] \in {"chunk", "compacted"} /\ Len(store[id]) <= MaxChunkSize
    /\ todo # {} \/ targets # {} \/ DOMAIN outputs # {} => pc # "idle"

\* No live extent is destroyed or made unreadable: in every state, also when
\* the cycle stops anywhere, the store has the bytes of every extent of the
\* index object, and the daemon finds the bytes of every extent of its index
\* (allLiveExtentsPreserved in compactor.go).
LiveReadable ==
    /\ \A e \in Live(Loaded(remote)) : Stored(e)
    /\ \A e \in Live(idx) : IF e.id = activeID THEN Buffered(e) ELSE Stored(e)

\* Replacing the index object changes where bytes are, never which bytes a
\* file has: the compactor does not undo what a daemon persisted.
KeepsFiles == Bytes(Loaded(remote)) = Bytes(Loaded(remote'))
FilesKept == [][PutIndex => KeepsFiles]_vars

\* A cycle that returns nil and met no failed request leaves no chunk above
\* the threshold, whatever earlier cycles left behind when they were killed
\* ("duplicated data cleaned up on the next run").
Reclaimed == faulted \/ \A id \in DOMAIN store : ~Orphaned(id)
CycleReclaims == [][NoTargets \/ Done => Reclaimed]_vars

\* A cycle ends ("Compaction eventually completes (no deadlock)").
CycleEnds == (pc # "idle") ~> (pc = "idle")

\* A cycle all of whose requests succeed completes.
CycleSucceeds == result # "error"
=============================================================================
