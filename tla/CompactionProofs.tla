--------------------------- MODULE CompactionProofs ---------------------------
(***************************************************************************)
(* Compaction while no daemon is mounted, from a directory that does not   *)
(* outlive the process: whatever the threshold, the payloads and the       *)
(* number of files and cycles, and wherever a cycle stops, the extents of  *)
(* the index object and of a mounted daemon keep their bytes.              *)
(*                                                                         *)
(* The argument: with nobody else at work the compactor's index is the     *)
(* index object until an extent is copied; an index with a copied extent   *)
(* is refused by Save; so what is stored is what was there, and what is    *)
(* deleted held nothing of it.                                             *)
(***************************************************************************)
EXTENDS Compaction, ChunkStoreProofs, FiniteSetTheorems

Ext == [id : ChunkIDs, off : Nat, data : Seq(Byte) \ {<<>>}]

\* An index as it can be stored: slots to extents in chunks of a ChunkStore.
Index(x) == DOMAIN x \subseteq Slot /\ x \in [DOMAIN x -> Ext]

\* The daemon's chunk store.  The objects a compactor makes have other names
\* and are not spoken of.
StoreInv ==
    /\ \A id \in DOMAIN store \cap ChunkIDs : store[id] \in Seq(Byte)
    /\ nextSeq \in 1..(MaxSeq + 1)
    /\ activeID = chunkID(nextSeq - 1)
    /\ activeBuf \in Seq(Byte)
    /\ CleanMeansStored
    /\ ~up => activeBuf = <<>>
    /\ up => ActiveNotAliased
    /\ up => \A s \in 0..MaxSeq : chunkID(s) \in DOMAIN store => s <= nextSeq - 1

\* What the daemon and the object store know of files.
IndexInv ==
    /\ Index(idx) /\ Index(Loaded(remote))
    /\ ~up => idx = Empty
    /\ LiveReadable

\* The index Compact works with is the index object, as long as it can be saved.
SameIndex == mem = Loaded(remote)
Spared == \A e \in Live(Loaded(remote)) : e.id \notin targets

CycleInv ==
    /\ up => pc = "idle"
    /\ pc \in {"idle", "load"} => base = <<>>
    /\ pc \in {"list", "size"} => SameIndex
    /\ pc = "put" /\ Encodable(mem) => SameIndex /\ Spared
    /\ pc \in {"index", "delete"} => SameIndex /\ Spared

\* The inductive invariant.
CompactInv == StoreInv /\ IndexInv /\ CycleInv

-----------------------------------------------------------------------------

\* An empty file system satisfies it.
LEMMA CompactInit == Init => CompactInv
<1>. SUFFICES ASSUME Init PROVE CompactInv
  OBVIOUS
<1>. USE DEF Init, CSInit
<1>1. StoreInv
  BY MaxSeqAssumption DEF StoreInv, CleanMeansStored
<1>2. IndexInv
  BY DEF IndexInv, Index, Loaded, Empty, LiveReadable, Live
<1>3. CycleInv
  BY DEF CycleInv
<1>. QED
  BY <1>1, <1>2, <1>3 DEF CompactInv

\* An extent of a running daemon is in the active chunk or in an earlier one.
LEMMA LiveBelow ==
    ASSUME StoreInv, IndexInv, up, nextSeq <= MaxSeq
    PROVE  \A e \in Live(idx) \cup Live(Loaded(remote)) : e.id # chunkID(nextSeq)
<1>1. chunkID(nextSeq) \notin DOMAIN store /\ activeID # chunkID(nextSeq)
  BY MaxSeqAssumption, ChunkIDInjective DEF StoreInv
<1>. QED
  BY <1>1 DEF IndexInv, LiveReadable, Stored

\* What is stored stays stored when the object of the active chunk is replaced
\* by the buffer, and what is buffered becomes stored.
LEMMA PutKeeps ==
    ASSUME StoreInv, up, Put(activeID, activeBuf)
    PROVE  /\ \A e \in Ext : Stored(e) => Stored(e)'
           /\ \A e \in Ext : e.id = activeID /\ Buffered(e) => Stored(e)'
           /\ DOMAIN store' = DOMAIN store \cup {activeID}
           /\ store'[activeID] = activeBuf
           /\ \A id \in DOMAIN store' \cap ChunkIDs : store'[id] \in Seq(Byte)
<1>1. /\ DOMAIN store' = DOMAIN store \cup {activeID}
      /\ store'[activeID] = activeBuf
      /\ \A k \in DOMAIN store \ {activeID} : store'[k] = store[k]
  BY DEF Put
<1>2. \A id \in DOMAIN store' \cap ChunkIDs : store'[id] \in Seq(Byte)
  BY <1>1 DEF StoreInv
<1>3. ASSUME NEW e \in Ext, Stored(e) PROVE Stored(e)'
  <2>1. CASE e.id # activeID
    BY <1>1, <1>3, <2>1 DEF Stored
  <2>2. CASE e.id = activeID
    <3>1. e.off \in Nat /\ Len(e.data) \in Nat
      BY DEF Ext
    <3>2. store[activeID] \in Seq(Byte) /\ ActiveNotAliased /\ activeID \in DOMAIN store
      BY <1>3, <2>2 DEF StoreInv, Stored, Ext
    <3>3. \A i \in 1..Len(e.data) : e.off + i \in 1..Len(store[activeID])
      BY <1>3, <2>2, <3>1, <3>2 DEF Stored
    <3>4. \A i \in 1..Len(e.data) : activeBuf[e.off + i] = e.data[i]
      BY <1>3, <2>2, <3>2, <3>3 DEF Stored, ActiveNotAliased
    <3>5. e.off + Len(e.data) <= Len(activeBuf)
      BY <1>3, <2>2, <3>1, <3>2 DEF Stored, ActiveNotAliased, StoreInv
    <3>. QED
      BY <1>1, <2>2, <3>4, <3>5 DEF Stored
  <2>. QED
    BY <2>1, <2>2
<1>4. ASSUME NEW e \in Ext, e.id = activeID, Buffered(e) PROVE Stored(e)'
  BY <1>1, <1>4 DEF Buffered, Stored
<1>. QED
  BY <1>1, <1>2, <1>3, <1>4

\* The elements of an index are extents.
LEMMA LiveExt == ASSUME NEW x, Index(x) PROVE Live(x) \subseteq Ext
BY DEF Index, Live

-----------------------------------------------------------------------------
(* The steps of the daemon *)

\* A write: the new extent is where the buffer or the next chunk has its bytes,
\* and a chunk that had to make room is stored before it is left.
LEMMA WriteInv ==
    ASSUME CompactInv, NEW s \in Slot, NEW data \in Data, Write(s, data)
    PROVE  CompactInv'
<1>0. PICK new : new = [id |-> activeID', off |-> AppendOffset(data), data |-> data]
  BY Zenon
<1>1. /\ up /\ up' /\ AppendData(data)
      /\ idx' = [t \in DOMAIN idx \cup {s} |-> IF t = s THEN new ELSE idx[t]]
      /\ UNCHANGED <<remote, base, pc, mem, targets>>
  BY <1>0 DEF Write, compactVars
<1>2. data \in Seq(Byte) /\ data # <<>> /\ Len(data) \in Nat /\ activeBuf \in Seq(Byte)
  BY DataAssumption DEF CompactInv, StoreInv
<1>3. nextSeq \in 1..(MaxSeq + 1) /\ activeID = chunkID(nextSeq - 1) /\ activeID \in ChunkIDs
  BY MaxSeqAssumption, ChunkIDsMember DEF CompactInv, StoreInv
<1>4. AppendOffset(data) \in Nat
  BY <1>2 DEF AppendOffset
<1>5. Live(idx') \subseteq Live(idx) \cup {new}
  BY <1>1, Zenon DEF Live
<1>6. Live(idx) \subseteq Ext /\ Live(Loaded(remote)) \subseteq Ext
  BY LiveExt DEF CompactInv, IndexInv
<1>7. ASSUME activeID' \in ChunkIDs PROVE Index(idx') /\ Index(Loaded(remote)')
  <2>1. new \in Ext
    BY <1>0, <1>2, <1>4, <1>7 DEF Ext
  <2>. QED
    BY <1>1, <2>1 DEF CompactInv, IndexInv, Index, Loaded
<1>8. CycleInv'
  BY <1>1 DEF CompactInv, CycleInv, SameIndex, Spared, Encodable, Live, Loaded
<1>9. CASE AppendActive(data)
  <2>1. /\ activeBuf' = activeBuf \o data /\ activeDirty' = TRUE
        /\ UNCHANGED <<store, activeID, nextSeq>> /\ ~Overflows(data)
    BY <1>9 DEF AppendActive
  <2>2. /\ activeBuf' \in Seq(Byte)
        /\ Len(activeBuf') = Len(activeBuf) + Len(data)
        /\ \A i \in 1..Len(activeBuf) : activeBuf'[i] = activeBuf[i]
        /\ \A i \in 1..Len(data) : activeBuf'[Len(activeBuf) + i] = data[i]
    BY <1>2, <2>1
  <2>3. StoreInv'
    <3>1. ActiveNotAliased'
      BY <1>1, <1>2, <1>3, <2>1, <2>2 DEF CompactInv, StoreInv, ActiveNotAliased
    <3>. QED
      BY <1>1, <2>1, <2>2, <3>1 DEF CompactInv, StoreInv, CleanMeansStored
  <2>4. Buffered(new)'
    <3>1. new.off = Len(activeBuf) /\ new.data = data
      BY <1>0, <2>1 DEF AppendOffset
    <3>. QED
      BY <2>2, <3>1 DEF Buffered
  <2>5. ASSUME NEW e \in Ext, Buffered(e) PROVE Buffered(e)'
    <3>1. e.off \in Nat /\ Len(e.data) \in Nat
      BY DEF Ext
    <3>2. \A i \in 1..Len(e.data) : e.off + i \in 1..Len(activeBuf)
      BY <1>2, <2>5, <3>1 DEF Buffered
    <3>3. e.off + Len(e.data) <= Len(activeBuf')
      BY <1>2, <2>2, <2>5, <3>1 DEF Buffered
    <3>. QED
      BY <2>2, <2>5, <3>2, <3>3 DEF Buffered
  <2>6. LiveReadable'
    <3>1. \A e \in Live(Loaded(remote)') : Stored(e)'
      BY <1>1, <2>1 DEF CompactInv, IndexInv, LiveReadable, Stored, Loaded
    <3>2. ASSUME NEW e \in Live(idx) PROVE IF e.id = activeID' THEN Buffered(e)' ELSE Stored(e)'
      BY <1>6, <2>1, <2>5, <3>2 DEF CompactInv, IndexInv, LiveReadable, Stored
    <3>3. new.id = activeID'
      BY <1>0
    <3>. QED
      BY <1>5, <2>4, <3>1, <3>2, <3>3 DEF LiveReadable
  <2>. QED
    BY <1>1, <1>3, <1>7, <1>8, <2>1, <2>3, <2>6 DEF CompactInv, IndexInv
<1>10. CASE AppendRotate(data)
  <2>1. /\ Put(activeID, activeBuf) /\ nextSeq <= MaxSeq
        /\ activeID' = chunkID(nextSeq) /\ nextSeq' = nextSeq + 1
        /\ activeBuf' = data /\ activeDirty' = TRUE /\ Overflows(data)
    BY <1>10 DEF AppendRotate, OpenNext
  <2>2. nextSeq \in 0..MaxSeq /\ activeID' \in ChunkIDs /\ activeID' # activeID
    BY <1>3, <2>1, MaxSeqAssumption, ChunkIDsMember, ChunkIDInjective
  <2>3. activeID' \notin DOMAIN store'
    BY <1>1, <2>1, <2>2, PutKeeps DEF CompactInv, StoreInv
  <2>4. StoreInv'
    <3>1. nextSeq' \in 1..(MaxSeq + 1) /\ activeID' = chunkID(nextSeq' - 1)
      BY <1>3, <2>1, MaxSeqAssumption
    <3>2. \A t \in 0..MaxSeq : chunkID(t) \in DOMAIN store' => t <= nextSeq' - 1
      <4>1. ASSUME NEW t \in 0..MaxSeq, chunkID(t) = activeID PROVE t = nextSeq - 1
        BY <1>3, <4>1, MaxSeqAssumption, ChunkIDInjective
      <4>. QED
        BY <1>1, <1>3, <2>1, <4>1, PutKeeps, MaxSeqAssumption DEF CompactInv, StoreInv
    <3>3. CleanMeansStored' /\ ActiveNotAliased'
      BY <2>1, <2>3 DEF CleanMeansStored, ActiveNotAliased
    <3>. QED
      BY <1>1, <1>2, <2>1, <3>1, <3>2, <3>3, PutKeeps DEF CompactInv, StoreInv
  <2>5. LiveReadable'
    <3>1. \A e \in Live(Loaded(remote)') : Stored(e)'
      BY <1>1, <1>6, <2>1, PutKeeps DEF CompactInv, IndexInv, LiveReadable, Loaded
    <3>2. ASSUME NEW e \in Live(idx) PROVE e.id # activeID' /\ Stored(e)'
      <4>1. e \in Ext /\ e.id # activeID'
        BY <1>1, <1>6, <2>1, <3>2, LiveBelow, Zenon DEF CompactInv
      <4>2. Stored(e)'
        BY <1>1, <2>1, <3>2, <4>1, PutKeeps DEF CompactInv, IndexInv, LiveReadable
      <4>. QED
        BY <4>1, <4>2
    <3>3. new.id = activeID' /\ Buffered(new)'
      <4>1. new.id = activeID' /\ new.off = 0 /\ new.data = data
        BY <1>0, <2>1 DEF AppendOffset
      <4>. QED
        BY <1>2, <2>1, <4>1 DEF Buffered
    <3>. QED
      BY <1>5, <3>1, <3>2, <3>3 DEF LiveReadable
  <2>. QED
    BY <1>1, <1>7, <1>8, <2>2, <2>4, <2>5 DEF CompactInv, IndexInv
<1>. QED
  BY <1>1, <1>9, <1>10 DEF AppendData

\* A truncate or unlink takes an extent out of the daemon's index only.
LEMMA DropInv ==
    ASSUME CompactInv, NEW s \in Slot, Drop(s)
    PROVE  CompactInv'
<1>1. /\ up /\ idx' = [t \in DOMAIN idx \ {s} |-> idx[t]]
      /\ UNCHANGED <<store, activeID, activeBuf, activeDirty, nextSeq>>
      /\ UNCHANGED <<up, remote, base, pc, mem, targets>>
  BY DEF Drop, csVars, compactVars
<1>2. Index(idx') /\ Live(idx') \subseteq Live(idx)
  BY <1>1 DEF CompactInv, IndexInv, Index, Live
<1>3. LiveReadable'
  BY <1>1, <1>2, Zenon DEF CompactInv, IndexInv, LiveReadable, Stored, Buffered, Loaded
<1>4. StoreInv'
  BY <1>1 DEF CompactInv, StoreInv, CleanMeansStored, ActiveNotAliased
<1>. QED
  BY <1>1, <1>2, <1>3, <1>4
     DEF CompactInv, IndexInv, Index, CycleInv, SameIndex, Spared, Encodable, Live, Loaded

\* FlushActive stores what was buffered.
LEMMA FlushStepInv == ASSUME CompactInv, Flush PROVE CompactInv'
<1>1. /\ up /\ Put(activeID, activeBuf)
      /\ UNCHANGED <<activeID, activeBuf, nextSeq, up, idx, remote, base, pc, mem, targets>>
  BY DEF Flush, FlushActive, daemonVars, compactVars
<1>2. Live(idx) \subseteq Ext /\ Live(Loaded(remote)) \subseteq Ext
  BY LiveExt DEF CompactInv, IndexInv
<1>3. nextSeq \in 1..(MaxSeq + 1) /\ activeID = chunkID(nextSeq - 1)
  BY DEF CompactInv, StoreInv
<1>4. StoreInv'
  <2>1. \A t \in 0..MaxSeq : chunkID(t) \in DOMAIN store' => t <= nextSeq - 1
    <3>1. ASSUME NEW t \in 0..MaxSeq, chunkID(t) = activeID PROVE t = nextSeq - 1
      BY <1>3, <3>1, MaxSeqAssumption, ChunkIDInjective
    <3>. QED
      BY <1>1, <1>3, <3>1, PutKeeps, MaxSeqAssumption DEF CompactInv, StoreInv
  <2>2. CleanMeansStored' /\ ActiveNotAliased'
    BY <1>1, PutKeeps DEF CompactInv, StoreInv, CleanMeansStored, ActiveNotAliased
  <2>. QED
    BY <1>1, <2>1, <2>2, PutKeeps DEF CompactInv, StoreInv
<1>5. LiveReadable'
  <2>1. \A e \in Live(Loaded(remote)') : Stored(e)'
    BY <1>1, <1>2, PutKeeps DEF CompactInv, IndexInv, LiveReadable, Loaded
  <2>2. ASSUME NEW e \in Live(idx) PROVE IF e.id = activeID' THEN Buffered(e)' ELSE Stored(e)'
    BY <1>1, <1>2, <2>2, PutKeeps DEF CompactInv, IndexInv, LiveReadable, Buffered
  <2>. QED
    BY <1>1, <2>1, <2>2 DEF LiveReadable
<1>. QED
  BY <1>1, <1>4, <1>5
     DEF CompactInv, IndexInv, Index, CycleInv, SameIndex, Spared, Encodable, Live, Loaded

\* A persist finds everything stored.
LEMMA PersistIndexInv == ASSUME CompactInv, PersistIndex PROVE CompactInv'
<1>1. /\ up /\ ~activeDirty /\ remote' = <<idx>>
      /\ UNCHANGED <<store, activeID, activeBuf, activeDirty, nextSeq>>
      /\ UNCHANGED <<up, idx, base, pc, mem, targets>>
  BY DEF PersistIndex, csVars, daemonVars, compactVars
<1>2. Loaded(remote)' = idx
  BY <1>1 DEF Loaded
<1>3. ASSUME NEW e \in Live(idx) PROVE Stored(e)
  <2>1. e \in Ext
    BY <1>3, LiveExt DEF CompactInv, IndexInv
  <2>2. CASE e.id = activeID
    <3>1. Buffered(e) /\ e.off \in Nat /\ e.data \in Seq(Byte) /\ e.data # <<>>
      BY <1>3, <2>1, <2>2 DEF CompactInv, IndexInv, LiveReadable, Ext
    <3>2. activeBuf # <<>>
      BY <3>1 DEF Buffered
    <3>. QED
      BY <1>1, <2>2, <3>1, <3>2 DEF CompactInv, StoreInv, CleanMeansStored, Stored, Buffered
  <2>. QED
    BY <1>3, <2>2 DEF CompactInv, IndexInv, LiveReadable
<1>4. StoreInv'
  BY <1>1 DEF CompactInv, StoreInv, CleanMeansStored, ActiveNotAliased
<1>5. LiveReadable'
  BY <1>1, <1>2, <1>3 DEF CompactInv, IndexInv, LiveReadable, Stored, Buffered
<1>6. CycleInv'
  BY <1>1 DEF CompactInv, CycleInv
<1>. QED
  BY <1>1, <1>2, <1>4, <1>5, <1>6 DEF CompactInv, IndexInv, Index

\* The end of a daemon leaves the object store and the index object alone.
LEMMA StopInv == ASSUME CompactInv, Stop PROVE CompactInv'
<1>1. /\ ~up' /\ idx' = Empty /\ activeID' = chunkID(0) /\ nextSeq' = 1 /\ activeBuf' = <<>>
      /\ UNCHANGED <<store, remote, base, pc, mem, targets>>
  BY DEF Stop, compactVars
<1>2. StoreInv'
  BY <1>1, MaxSeqAssumption DEF CompactInv, StoreInv, CleanMeansStored
<1>3. IndexInv'
  BY <1>1 DEF CompactInv, IndexInv, Index, LiveReadable, Live, Empty, Loaded, Stored
<1>. QED
  BY <1>1, <1>2, <1>3 DEF CompactInv, CycleInv, SameIndex, Spared, Encodable, Live, Loaded

\* The next daemon's chunk has a number no stored chunk has.
LEMMA MountInv == ASSUME Exclusive, CompactInv, Mount PROVE CompactInv'
<1>1. PICK n \in 0..MaxSeq :
        /\ RecoverNextSeq(n) /\ activeID' = chunkID(n) /\ nextSeq' = n + 1
        /\ activeBuf' = <<>> /\ UNCHANGED store
  BY DEF Mount, Restart
<1>2. /\ pc = "idle" /\ up' /\ idx' = Loaded(remote) /\ UNCHANGED <<remote, base, pc, mem, targets>>
  BY DEF Mount, compactVars
<1>3. \A s \in 0..MaxSeq : chunkID(s) \in DOMAIN store => s < n
  BY <1>1 DEF RecoverNextSeq, StoredSeqs
<1>4. activeID' \notin DOMAIN store
  BY <1>1, <1>3
<1>5. StoreInv'
  <2>1. nextSeq' \in 1..(MaxSeq + 1) /\ activeID' = chunkID(nextSeq' - 1)
    BY <1>1, MaxSeqAssumption
  <2>2. \A s \in 0..MaxSeq : chunkID(s) \in DOMAIN store' => s <= nextSeq' - 1
    BY <1>1, <1>3, MaxSeqAssumption
  <2>3. ActiveNotAliased' /\ CleanMeansStored'
    BY <1>1, <1>4 DEF ActiveNotAliased, CleanMeansStored
  <2>. QED
    BY <1>1, <2>1, <2>2, <2>3 DEF CompactInv, StoreInv
<1>6. LiveReadable'
  <2>1. \A e \in Live(Loaded(remote)) : Stored(e)' /\ e.id # activeID'
    BY <1>1, <1>4 DEF CompactInv, IndexInv, LiveReadable, Stored
  <2>. QED
    BY <1>2, <2>1 DEF LiveReadable, Loaded
<1>. QED
  BY <1>2, <1>5, <1>6 DEF CompactInv, IndexInv, Index, CycleInv, Loaded

-----------------------------------------------------------------------------
(* The steps of the compactor *)

\* A step that leaves the daemon, the objects and the index object alone keeps
\* what is said of them.
LEMMA WorldKept ==
    ASSUME CompactInv, UNCHANGED <<csVars, daemonVars, remote>>
    PROVE  StoreInv' /\ IndexInv'
<1>1. UNCHANGED <<store, activeID, activeBuf, activeDirty, nextSeq, up, idx, remote>>
  BY DEF csVars, daemonVars
<1>2. StoreInv'
  BY <1>1 DEF CompactInv, StoreInv, CleanMeansStored, ActiveNotAliased
<1>3. IndexInv'
  BY <1>1 DEF CompactInv, IndexInv, Index, LiveReadable, Stored, Buffered, Live, Loaded
<1>. QED
  BY <1>2, <1>3

\* The order of copying goes through the slots in the targets, one by one.
LEMMA OrderFacts ==
    ASSUME Index(mem), NEW order \in CopyOrders
    PROVE  /\ Len(order) \in Nat
           /\ order \in [1..Len(order) -> DOMAIN mem]
           /\ {order[i] : i \in 1..Len(order)} = {s \in DOMAIN mem : mem[s].id \in targets}
<1>. DEFINE slots == {s \in DOMAIN mem : mem[s].id \in targets}
            n == Cardinality(slots)
<1>1. n \in Nat
  <2>1. IsFiniteSet(slots)
    BY SlotAssumption, FS_Subset DEF Index
  <2>. QED
    BY <2>1, FS_CardinalityType
<1>2. order \in [1..n -> slots] /\ {order[i] : i \in 1..n} = slots
  BY DEF CopyOrders
<1>3. Len(order) = n
  BY <1>1, <1>2
<1>. QED
  BY <1>1, <1>2, <1>3

\* Copying something makes an index that cannot be saved; copying nothing
\* leaves the index as it is, and then no target has a live extent.
LEMMA CopyNothing ==
    ASSUME Index(mem), NEW order \in CopyOrders, Copy(order), Encodable(mem)'
    PROVE  /\ mem' = mem /\ Len(order) = 0
           /\ \A e \in Live(mem) : e.id \notin targets
<1>. DEFINE slots == {s \in DOMAIN mem : mem[s].id \in targets}
<1>1. mem' = RemapExtents(order)
  BY DEF Copy
<1>2. Len(order) \in Nat /\ {order[i] : i \in 1..Len(order)} = slots
  BY OrderFacts
<1>3. slots = {}
  <2>. SUFFICES ASSUME NEW s \in slots PROVE FALSE
    OBVIOUS
  <2>1. \E i \in 1..Len(order) : order[i] = s
    BY <1>2
  <2>2. mem'[s] = Place(order, CHOOSE i \in 1..Len(order) : order[i] = s) /\ s \in DOMAIN mem'
    BY <1>1, <2>1 DEF RemapExtents
  <2>3. \A i : Place(order, i).id[1] = "compacted"
    BY DEF Place, compactedID
  <2>. QED
    BY <2>2, <2>3 DEF Encodable, Live
<1>4. \A i \in 1..Len(order) : FALSE
  BY <1>2, <1>3, Zenon
<1>5. Len(order) = 0
  <2>1. Len(order) > 0 => 1 \in 1..Len(order)
    BY <1>2
  <2>. QED
    BY <1>2, <1>4, <2>1
<1>6. mem' = mem
  BY <1>1, <1>4 DEF RemapExtents, Index
<1>. QED
  BY <1>3, <1>5, <1>6 DEF Live

\* So what Save accepts is the index object.
LEMMA CopyInv ==
    ASSUME CompactInv, NEW order \in CopyOrders, Copy(order)
    PROVE  CompactInv'
<1>1. /\ pc = "size" /\ pc' = "put" /\ UNCHANGED targets
      /\ UNCHANGED <<csVars, daemonVars, remote, base>>
  BY DEF Copy
<1>2. mem = Loaded(remote) /\ Index(mem)
  BY <1>1 DEF CompactInv, CycleInv, SameIndex, IndexInv
<1>3. Encodable(mem)' => SameIndex' /\ Spared'
  BY <1>1, <1>2, CopyNothing DEF SameIndex, Spared, Loaded
<1>4. CycleInv'
  BY <1>1, <1>3 DEF CompactInv, CycleInv, daemonVars
<1>. QED
  BY <1>1, <1>4, WorldKept DEF CompactInv

\* An object that is no chunk of a ChunkStore is nobody's.
LEMMA PutSealedInv == ASSUME CompactInv, PutSealed PROVE CompactInv'
<1>1. PICK n : Put(compactedID(n), outputs[n])
  BY DEF PutSealed
<1>2. UNCHANGED <<activeID, activeBuf, activeDirty, nextSeq, up, idx, remote, base, pc, mem, targets>>
  BY DEF PutSealed, daemonVars
<1>3. compactedID(n) \notin ChunkIDs
  BY DEF compactedID, ChunkIDs, chunkID
<1>4. \A id \in ChunkIDs : /\ id \in DOMAIN store' <=> id \in DOMAIN store
                           /\ store'[id] = store[id] \/ id \notin DOMAIN store
  BY <1>1, <1>3 DEF Put
<1>5. activeID \in ChunkIDs
  BY MaxSeqAssumption, ChunkIDsMember DEF CompactInv, StoreInv
<1>6. Live(idx) \subseteq Ext /\ Live(Loaded(remote)) \subseteq Ext
  BY LiveExt DEF CompactInv, IndexInv
<1>7. StoreInv'
  BY <1>2, <1>4, <1>5, ChunkIDsMember DEF CompactInv, StoreInv, CleanMeansStored, ActiveNotAliased
<1>8. \A e \in Ext : Stored(e) => Stored(e)'
  BY <1>4 DEF Stored, Ext
<1>9. LiveReadable'
  BY <1>2, <1>6, <1>8 DEF CompactInv, IndexInv, LiveReadable, Buffered, Loaded
<1>. QED
  BY <1>2, <1>7, <1>9
     DEF CompactInv, IndexInv, Index, CycleInv, SameIndex, Spared, Encodable, Live, Loaded

\* Nothing of the index object is in a chunk that is deleted.
LEMMA DeleteInv ==
    ASSUME CompactInv, NEW id \in targets, Delete(id)
    PROVE  CompactInv'
<1>1. /\ pc = "delete" /\ store' = [k \in DOMAIN store \ {id} |-> store[k]]
      /\ targets' = targets \ {id}
      /\ UNCHANGED <<activeID, activeBuf, activeDirty, nextSeq, up, idx, remote, base, pc, mem>>
  BY DEF Delete, daemonVars
<1>2. ~up /\ Spared /\ SameIndex /\ idx = Empty
  BY <1>1 DEF CompactInv, CycleInv, IndexInv
<1>3. IndexInv'
  <2>1. \A e \in Live(Loaded(remote)) : Stored(e)'
    BY <1>1, <1>2 DEF CompactInv, IndexInv, LiveReadable, Stored, Spared
  <2>. QED
    BY <1>1, <1>2, <2>1, Zenon DEF CompactInv, IndexInv, Index, LiveReadable, Live, Empty, Loaded
<1>4. StoreInv'
  BY <1>1, <1>2 DEF CompactInv, StoreInv, CleanMeansStored
<1>5. CycleInv'
  BY <1>1, <1>2 DEF CycleInv, SameIndex, Spared, Live, Loaded
<1>. QED
  BY <1>3, <1>4, <1>5 DEF CompactInv

\* Every other step of Compact changes only what the compactor knows.
LEMMA PrivateInv ==
    ASSUME Exclusive, ~KeepsDir, CompactInv,
           \/ Start \/ Load \/ ListSealed \/ NoTargets \/ Save \/ SaveRefused \/ Done \/ Fail
           \/ \E id \in todo : SealedSize(id)
    PROVE  CompactInv'
<1>1. UNCHANGED <<csVars, daemonVars, remote>>
  BY DEF Start, Load, ListSealed, NoTargets, Save, SaveRefused, Done, Fail, SealedSize, Exit
<1>. SUFFICES CycleInv'
  BY <1>1, WorldKept DEF CompactInv
<1>. USE DEF CompactInv, CycleInv, daemonVars
<1>2. ASSUME NEW r, Exit(r) PROVE CycleInv'
  BY <1>2 DEF Exit
<1>3. CASE Start
  BY <1>3 DEF Start
<1>4. CASE Load
  BY <1>4 DEF Load, SameIndex, Loaded
<1>5. CASE ListSealed
  BY <1>5 DEF ListSealed, SameIndex, Loaded
<1>6. ASSUME NEW id \in todo, SealedSize(id) PROVE CycleInv'
  BY <1>6 DEF SealedSize, SameIndex, Loaded
<1>7. CASE Save
  BY <1>7 DEF Save, SameIndex, Spared, Live, Loaded
<1>. QED
  BY <1>2, <1>3, <1>4, <1>5, <1>6, <1>7, Zenon DEF NoTargets, SaveRefused, Done, Fail

\* What replaces the index object is the index object.
LEMMA PutIndexInv == ASSUME CompactInv, PutIndex PROVE CompactInv' /\ KeepsFiles
<1>1. /\ pc = "index" /\ pc' = "delete" /\ remote' = <<mem>> /\ SameIndex /\ Spared /\ ~up
      /\ UNCHANGED <<store, activeID, activeBuf, activeDirty, nextSeq, up, idx, base, mem, targets>>
  BY DEF PutIndex, CompactInv, CycleInv, csVars, daemonVars
<1>2. Loaded(remote)' = Loaded(remote)
  BY <1>1 DEF SameIndex, Loaded
<1>3. StoreInv'
  BY <1>1 DEF CompactInv, StoreInv, CleanMeansStored, ActiveNotAliased
<1>4. IndexInv'
  BY <1>1, <1>2 DEF CompactInv, IndexInv, Index, LiveReadable, Stored, Buffered
<1>5. CycleInv'
  BY <1>1, <1>2 DEF CycleInv, SameIndex, Spared
<1>6. KeepsFiles
  BY <1>2 DEF KeepsFiles, Loaded
<1>. QED
  BY <1>3, <1>4, <1>5, <1>6 DEF CompactInv

\* One step of anybody.
LEMMA CompactStep ==
    ASSUME Exclusive, ~KeepsDir
    PROVE  CompactInv /\ [Next]_vars => CompactInv' /\ (PutIndex => KeepsFiles)
<1>. SUFFICES ASSUME CompactInv, [Next]_vars PROVE CompactInv'
  BY PutIndexInv
<1>1. CASE Daemon
  BY <1>1, WriteInv, DropInv, FlushStepInv, PersistIndexInv, StopInv, MountInv DEF Daemon
<1>2. CASE Start \/ Compact
  BY <1>2, PrivateInv, CopyInv, PutSealedInv, PutIndexInv, DeleteInv DEF Compact
<1>3. CASE UNCHANGED vars
  <2>1. UNCHANGED <<csVars, daemonVars, remote, base, pc, mem, targets>>
    BY <1>3 DEF vars, compactVars
  <2>2. CycleInv'
    BY <2>1 DEF CompactInv, CycleInv, SameIndex, Spared, Encodable, Live, Loaded, daemonVars
  <2>. QED
    BY <2>1, <2>2, WorldKept DEF CompactInv
<1>. QED
  BY <1>1, <1>2, <1>3 DEF Next

-----------------------------------------------------------------------------

\* Compaction while no daemon is mounted destroys no live extent, wherever a
\* cycle fails or is killed, for every threshold, payload and number of files:
\* what the index object refers to, and what the next daemon maps, is readable
\* (Compact persists before it deletes).
THEOREM CompactionKeepsExtents ==
    ASSUME Exclusive, ~KeepsDir
    PROVE  Spec => []LiveReadable
<1>1. CompactInv => LiveReadable
  BY DEF CompactInv, IndexInv
<1>. QED
  BY <1>1, CompactInit, CompactStep, PTL DEF Spec

\* Nor does the index it stores change the bytes of a file (runCompact starts
\* from the index object, and nothing else writes it meanwhile).
THEOREM CompactionKeepsFiles ==
    ASSUME Exclusive, ~KeepsDir
    PROVE  Spec => FilesKept
<1>1. CompactInv /\ [Next]_vars => CompactInv' /\ [PutIndex => KeepsFiles]_vars
  BY CompactStep
<1>. QED
  BY <1>1, CompactInit, PTL DEF Spec, FilesKept

-----------------------------------------------------------------------------
(* What a completed cycle leaves *)

\* Every chunk is still to be looked at, selected, or below the threshold,
\* unless a request failed.
Judged == faulted \/ \A id \in DOMAIN store : id \in todo \cup targets \/ ~Orphaned(id)

\* A cycle that can be saved has looked at every chunk, the compactor's own id
\* being no chunk's, and has copied nothing.
SelectInv ==
    /\ \A id \in DOMAIN store : id \in ChunkIDs \/ id[1] = "compacted"
    /\ pc \in {"load", "list"} => own \notin DOMAIN store
    /\ pc \in {"size", "index", "delete"} => Judged
    /\ pc = "put" /\ Encodable(mem) => Judged /\ DOMAIN outputs = {}
    /\ pc \in {"put", "index", "delete"} => todo = {}

\* Packing nothing gives one output, which is empty.
LEMMA PackedNothing == ASSUME NEW order, Len(order) = 0 PROVE Packed(order)[0] = <<<<>>>>
<1>. DEFINE More(P, i) ==
              LET outs == P[i - 1]
                  data == mem[order[i]].data
                  last == Len(outs)
              IN  IF outs[last] # <<>> /\ Len(outs[last]) + Len(data) > MaxChunkSize
                  THEN Append(outs, data)
                  ELSE [outs EXCEPT ![last] = @ \o data]
            Step(P) == [i \in 0..Len(order) |-> IF i = 0 THEN <<<<>>>> ELSE More(P, i)]
<1>1. Packed(order) = CHOOSE P : P = Step(P)
  BY Zenon DEF Packed
<1>. HIDE DEF More
<1>2. [i \in 0..Len(order) |-> <<<<>>>>] = Step([i \in 0..Len(order) |-> <<<<>>>>])
  BY SMT
<1>3. PICK P : P = Step(P) /\ Packed(order) = P
  BY <1>1, <1>2, Zenon
<1>. QED
  BY <1>3

\* The selection depends on the objects, the compactor's index and its lists.
LEMMA JudgedKept ==
    ASSUME Judged, UNCHANGED mem, faulted' = faulted,
           \A id \in DOMAIN store' : id \in DOMAIN store /\ store'[id] = store[id],
           \A id \in DOMAIN store' : id \in todo \cup targets => id \in todo' \cup targets'
    PROVE  Judged'
<1>1. \A id \in DOMAIN store' : Orphaned(id)' <=> Orphaned(id)
  BY DEF Orphaned
<1>. QED
  BY <1>1, Zenon DEF Judged

\* Steps of the daemon: objects get ids of a ChunkStore, and no cycle is under
\* way.
LEMMA DaemonSelect ==
    ASSUME Exclusive, CompactInv, SelectInv, Daemon
    PROVE  SelectInv'
<1>1. activeID \in ChunkIDs
  BY MaxSeqAssumption, ChunkIDsMember DEF CompactInv, StoreInv
<1>2. store' = store \/ Put(activeID, activeBuf)
  BY Zenon DEF Daemon, Write, AppendData, AppendActive, AppendRotate, Drop, Flush, FlushActive,
         PersistIndex, Stop, Mount, Restart, csVars
<1>3. \A id \in DOMAIN store' : id \in ChunkIDs \/ id[1] = "compacted"
  BY <1>1, <1>2 DEF SelectInv, Put
<1>4. up \/ Mount
  BY Zenon DEF Daemon, Write, Drop, Flush, PersistIndex, Stop
<1>5. pc = "idle"
  BY <1>4 DEF CompactInv, CycleInv, Mount
<1>6. pc' = pc
  BY Zenon DEF Daemon, Write, Drop, Flush, PersistIndex, Stop, Mount, compactVars
<1>. QED
  BY <1>3, <1>5, <1>6 DEF SelectInv

\* mustBuildStore gives the compactor an id that no object has.
LEMMA StartSelect == ASSUME CompactInv, SelectInv, Start PROVE SelectInv'
<1>1. PICK n \in 0..(MaxSeq + 1) : RecoverNextSeq(n) /\ own' = chunkID(n)
  BY DEF Start
<1>2. UNCHANGED store /\ pc' = "load"
  BY DEF Start, csVars
<1>3. ASSUME chunkID(n) \in DOMAIN store PROVE FALSE
  <2>1. chunkID(n)[1] = "chunk"
    BY DEF chunkID
  <2>2. chunkID(n) \in ChunkIDs
    BY <1>3, <2>1 DEF SelectInv
  <2>3. n \in 0..MaxSeq
    BY <2>2, MaxSeqAssumption DEF ChunkIDs, chunkID
  <2>4. n \in StoredSeqs
    BY <1>3, <2>3 DEF StoredSeqs
  <2>. QED
    BY <1>1, <2>3, <2>4, MaxSeqAssumption DEF RecoverNextSeq
<1>. QED
  BY <1>1, <1>2, <1>3 DEF SelectInv

\* SealedSize looks at one chunk and selects it, finds it below the threshold,
\* or fails.
LEMMA SizeSelect ==
    ASSUME SelectInv, NEW id \in todo, SealedSize(id)
    PROVE  SelectInv'
<1>1. /\ pc = "size" /\ pc' = "size" /\ todo' = todo \ {id}
      /\ UNCHANGED <<store, mem>>
  BY DEF SealedSize, csVars
<1>2. Judged
  BY <1>1 DEF SelectInv
<1>3. \A k : Orphaned(k)' <=> Orphaned(k)
  BY <1>1 DEF Orphaned
<1>4. Judged'
  <2>1. CASE faulted' = TRUE
    BY <2>1, Zenon DEF Judged
  <2>2. CASE /\ id \in DOMAIN store /\ faulted' = faulted
             /\ targets' = IF Orphaned(id) THEN targets \cup {id} ELSE targets
    <3>1. /\ \A k \in todo \cup targets : k # id => k \in todo' \cup targets'
          /\ Orphaned(id) => id \in todo' \cup targets'
      BY <1>1, <2>2
    <3>2. DOMAIN store' = DOMAIN store /\ faulted' = faulted
      BY <1>1, <2>2
    <3>. QED
      BY <1>2, <1>3, <3>1, <3>2, Zenon DEF Judged
  <2>. QED
    BY <2>1, <2>2, Zenon DEF SealedSize
<1>. QED
  BY <1>1, <1>4 DEF SelectInv

\* A cycle that copies nothing makes no output.
LEMMA CopySelect ==
    ASSUME CompactInv, SelectInv, NEW order \in CopyOrders, Copy(order)
    PROVE  SelectInv'
<1>1. /\ pc = "size" /\ todo = {} /\ pc' = "put" /\ mem' = RemapExtents(order)
      /\ UNCHANGED <<store, remote, todo, targets>> /\ faulted' = faulted
  BY DEF Copy, csVars
<1>. SUFFICES ASSUME Encodable(mem)' PROVE Judged' /\ (DOMAIN outputs = {})'
  BY <1>1 DEF SelectInv
<1>2. mem' = mem /\ Len(order) = 0
  BY <1>1, CopyNothing DEF CompactInv, CycleInv, SameIndex, IndexInv
<1>3. Judged'
  BY <1>1, <1>2, JudgedKept DEF SelectInv
<1>4. Packed(order)[Len(order)] = <<<<>>>>
  BY <1>2, PackedNothing
<1>5. DOMAIN outputs' = {i \in 1..Len(<<<<>>>>) : <<<<>>>>[i] # <<>>}
  BY <1>4 DEF Copy
<1>6. \A i \in 1..Len(<<<<>>>>) : <<<<>>>>[i] = <<>>
  OBVIOUS
<1>. QED
  BY <1>3, <1>5, <1>6

\* The other steps of Compact select nothing; PutSealed has an output.
LEMMA OtherSelect ==
    ASSUME CompactInv, SelectInv,
           \/ Load \/ ListSealed \/ PutSealed \/ Save \/ PutIndex
           \/ \E id \in targets : Delete(id)
           \/ \E r : Exit(r)
    PROVE  SelectInv'
<1>1. CASE Load
  BY <1>1, Zenon DEF Load, SelectInv, csVars
<1>2. CASE ListSealed
  <2>1. Judged'
    BY <1>2, Zenon DEF ListSealed, SelectInv, Judged, csVars
  <2>. QED
    BY <1>2, <2>1, Zenon DEF ListSealed, SelectInv, csVars
<1>3. CASE PutSealed
  <2>1. PICK n \in DOMAIN outputs : Put(compactedID(n), outputs[n])
    BY <1>3 DEF PutSealed
  <2>2. pc = "put" /\ pc' = "put" /\ UNCHANGED <<mem, todo>>
    BY <1>3, Zenon DEF PutSealed
  <2>3. ~Encodable(mem)'
    BY <2>1, <2>2 DEF SelectInv, Encodable, Live
  <2>4. compactedID(n)[1] = "compacted"
    BY DEF compactedID
  <2>. QED
    BY <2>1, <2>2, <2>3, <2>4 DEF SelectInv, Put
<1>4. CASE Save \/ PutIndex
  <2>1. pc \in {"put", "index"} /\ pc' \in {"index", "delete"} /\ Judged /\ todo = {}
    BY <1>4 DEF Save, PutIndex, SelectInv
  <2>2. UNCHANGED <<store, mem, todo, targets>> /\ faulted' = faulted
    BY <1>4 DEF Save, PutIndex, csVars
  <2>3. Judged'
    BY <2>1, <2>2, JudgedKept
  <2>. QED
    BY <2>1, <2>2, <2>3 DEF SelectInv
<1>5. ASSUME NEW id \in targets, Delete(id) PROVE SelectInv'
  <2>1. /\ pc = "delete" /\ pc' = "delete" /\ Judged /\ todo = {}
        /\ UNCHANGED <<mem, todo>> /\ faulted' = faulted
        /\ targets' = targets \ {id} /\ store' = [k \in DOMAIN store \ {id} |-> store[k]]
    BY <1>5 DEF Delete, SelectInv
  <2>2. Judged'
    BY <2>1, JudgedKept
  <2>. QED
    BY <2>1, <2>2, Zenon DEF SelectInv
<1>6. ASSUME NEW r, Exit(r) PROVE SelectInv'
  BY <1>6 DEF Exit, SelectInv, csVars
<1>. QED
  BY <1>1, <1>2, <1>3, <1>4, <1>5, <1>6

\* One step of anybody.
LEMMA SelectStep ==
    ASSUME Exclusive, ~KeepsDir
    PROVE  CompactInv /\ SelectInv /\ [Next]_vars => SelectInv'
<1>. SUFFICES ASSUME CompactInv, SelectInv, [Next]_vars PROVE SelectInv'
  OBVIOUS
<1>1. CASE Start \/ Compact
  BY <1>1, StartSelect, SizeSelect, CopySelect, OtherSelect, Zenon
     DEF Compact, NoTargets, SaveRefused, Done, Fail
<1>2. CASE UNCHANGED vars
  <2>1. UNCHANGED <<store, pc, own, mem, todo, targets, outputs>> /\ faulted' = faulted
    BY <1>2 DEF vars, csVars, compactVars
  <2>2. Judged => Judged'
    BY <2>1, JudgedKept
  <2>. QED
    BY <2>1, <2>2 DEF SelectInv, Encodable, Live
<1>. QED
  BY <1>1, <1>2, DaemonSelect DEF Next

\* A cycle that returns nil and met no failed request leaves no chunk above the
\* threshold, whatever earlier cycles that were killed left behind, for every
\* threshold, payload and number of files (Compact looks at every listed chunk
\* and deletes all it selects before it returns).
THEOREM CompletedCycleReclaims ==
    ASSUME Exclusive, ~KeepsDir
    PROVE  Spec => CycleReclaims
<1>1. Init => SelectInv
  BY DEF Init, CSInit, SelectInv
<1>2. SelectInv /\ (NoTargets \/ Done) => Reclaimed
  <2>. SUFFICES ASSUME SelectInv, NoTargets \/ Done PROVE Reclaimed
    OBVIOUS
  <2>1. Judged /\ todo \cup targets = {}
    BY DEF SelectInv, NoTargets, Done
  <2>. QED
    BY <2>1 DEF Judged, Reclaimed
<1>. QED
  BY <1>1, <1>2, CompactInit, CompactStep, SelectStep, PTL DEF Spec, CycleReclaims

-----------------------------------------------------------------------------
(* The sizes of chunks *)

\* A set of numbers has a least one: an induction is a look at the least
\* counterexample.
LEMMA NatMin ==
    ASSUME NEW S \in SUBSET Nat, S # {}
    PROVE  \E m \in S : \A k \in S : m <= k
<1>. DEFINE T == {0..n : n \in S}
<1>1. T \subseteq FiniteSubsetsOf(Nat) /\ T # {}
  <2>1. \A n \in S : IsFiniteSet(0..n) /\ 0..n \subseteq Nat
    BY FS_Interval
  <2>. QED
    BY <2>1, Zenon DEF FiniteSubsetsOf
<1>2. IsWellFoundedOn(StrictSubsetOrdering(Nat), FiniteSubsetsOf(Nat))
  BY FS_StrictSubsetOrderingWellFounded
<1>3. PICK X \in T : \A Y \in T : ~(<<Y, X>> \in StrictSubsetOrdering(Nat))
  BY <1>1, <1>2, WFMin, Zenon
<1>4. PICK m \in S : X = 0..m
  OBVIOUS
<1>5. ASSUME NEW k \in S, k < m PROVE FALSE
  <2>1. 0..k \in T /\ 0..k \subseteq 0..m /\ 0..k # 0..m
    BY <1>5
  <2>2. <<0..k, X>> \in StrictSubsetOrdering(Nat)
    BY <1>4, <2>1 DEF StrictSubsetOrdering
  <2>. QED
    BY <1>3, <2>1, <2>2, Zenon
<1>. QED
  BY <1>5

\* So a set that has 0 and with a number the next one has all up to L.
LEMMA UpTo ==
    ASSUME NEW L \in Nat, NEW S, 0 \in S, \A n \in 1..L : n - 1 \in S => n \in S
    PROVE  0..L \subseteq S
<1>. DEFINE Missing == (0..L) \ S
<1>1. Missing \subseteq Nat
  OBVIOUS
<1>2. ASSUME Missing # {} PROVE FALSE
  <2>. HIDE DEF Missing
  <2>1. PICK m \in Missing : \A k \in Missing : m <= k
    BY <1>1, <1>2, NatMin
  <2>. USE DEF Missing
  <2>2. m \in 1..L /\ m - 1 \in 0..L /\ ~(m <= m - 1)
    OBVIOUS
  <2>. QED
    BY <2>1, <2>2
<1>. QED
  BY <1>2

\* Bytes that have room in a chunk, and lists of outputs that do.
Fits(data) == data \in Seq(Byte) /\ Len(data) <= MaxChunkSize
OutLists == {outs \in Seq(Seq(Byte)) : outs # <<>> /\ \A k \in 1..Len(outs) : Fits(outs[k])}

\* One more extent in the outputs, as Packed has it.
Packing(outs, data) ==
    LET last == Len(outs)
    IN  IF outs[last] # <<>> /\ Len(outs[last]) + Len(data) > MaxChunkSize
        THEN Append(outs, data)
        ELSE [outs EXCEPT ![last] = @ \o data]

\* An output that would overflow is not extended.
LEMMA PackingFits ==
    ASSUME NEW outs \in OutLists, NEW data, Fits(data)
    PROVE  Packing(outs, data) \in OutLists
<1>. DEFINE last == Len(outs)
<1>1. /\ outs \in Seq(Seq(Byte)) /\ last \in Nat /\ last > 0 /\ last \in 1..last
      /\ \A k \in 1..last : Fits(outs[k])
  BY DEF OutLists
<1>2. /\ data \in Seq(Byte) /\ Len(data) <= MaxChunkSize /\ Len(data) \in Nat
      /\ outs[last] \in Seq(Byte) /\ Len(outs[last]) <= MaxChunkSize /\ Len(outs[last]) \in Nat
  BY <1>1 DEF Fits
<1>3. ASSUME NEW r \in Seq(Seq(Byte)), Len(r) \in {last, last + 1},
             \A k \in 1..Len(r) : Fits(r[k])
      PROVE  r \in OutLists
  BY <1>1, <1>3 DEF OutLists
<1>4. CASE outs[last] # <<>> /\ Len(outs[last]) + Len(data) > MaxChunkSize
  <2>. DEFINE r == Append(outs, data)
  <2>1. Packing(outs, data) = r
    BY <1>4 DEF Packing
  <2>2. /\ r \in Seq(Seq(Byte)) /\ Len(r) = last + 1
        /\ \A k \in 1..Len(r) : r[k] = IF k = last + 1 THEN data ELSE outs[k]
    BY <1>1, <1>2
  <2>. HIDE DEF r
  <2>3. \A k \in 1..Len(r) : k # last + 1 => k \in 1..last
    BY <1>1, <2>2
  <2>4. \A k \in 1..Len(r) : Fits(r[k])
    BY <1>1, <2>2, <2>3, Zenon
  <2>. QED
    BY <1>3, <2>1, <2>2, <2>4
<1>5. CASE ~(outs[last] # <<>> /\ Len(outs[last]) + Len(data) > MaxChunkSize)
  <2>. DEFINE both == outs[last] \o data
              r == [outs EXCEPT ![last] = both]
  <2>1. Packing(outs, data) = r
    BY <1>5 DEF Packing
  <2>2. /\ both \in Seq(Byte) /\ Len(both) = Len(outs[last]) + Len(data)
    BY <1>2
  <2>3. Fits(both)
    <3>1. outs[last] = <<>> => Len(outs[last]) = 0
      OBVIOUS
    <3>2. Len(outs[last]) + Len(data) <= MaxChunkSize
      BY <1>2, <1>5, <3>1, MaxChunkSizeAssumption
    <3>. HIDE DEF both
    <3>. QED
      BY <2>2, <3>2 DEF Fits
  <2>. HIDE DEF both
  <2>4. /\ r \in Seq(Seq(Byte)) /\ Len(r) = last
        /\ \A k \in 1..Len(r) : r[k] = IF k = last THEN both ELSE outs[k]
    BY <1>1, <2>2
  <2>. HIDE DEF r
  <2>5. \A k \in 1..Len(r) : Fits(r[k])
    BY <1>1, <2>3, <2>4
  <2>. QED
    BY <1>3, <2>1, <2>4, <2>5
<1>. QED
  BY <1>4, <1>5

\* What Packed is: the outputs after each extent, none larger than a chunk.
LEMMA PackedFits ==
    ASSUME NEW order, Len(order) \in Nat,
           \A i \in 1..Len(order) : Fits(mem[order[i]].data)
    PROVE  Packed(order)[Len(order)] \in OutLists
<1>. DEFINE L == Len(order)
            D(i) == mem[order[i]].data
            Step(P) == [i \in 0..L |-> IF i = 0 THEN <<<<>>>> ELSE Packing(P[i - 1], D(i))]
            Begins(f, n) == /\ f \in [0..n -> OutLists] /\ f[0] = <<<<>>>>
                            /\ \A i \in 1..n : f[i] = Packing(f[i - 1], D(i))
<1>1. Packed(order) = CHOOSE P : P = Step(P)
  BY Zenon DEF Packed, Packing
<1>2. <<<<>>>> \in OutLists
  <2>1. <<<<>>>> \in Seq(Seq(Byte)) /\ Len(<<<<>>>>) = 1 /\ <<<<>>>> # <<>>
    OBVIOUS
  <2>2. \A k \in 1..Len(<<<<>>>>) : <<<<>>>>[k] = <<>>
    OBVIOUS
  <2>3. Fits(<<>>)
    BY MaxChunkSizeAssumption DEF Fits
  <2>. QED
    BY <2>1, <2>2, <2>3 DEF OutLists
<1>3. \A i \in 1..L : Fits(D(i))
  OBVIOUS
<1>. HIDE DEF D, L
<1>4. L \in Nat
  BY DEF L
<1>5. ASSUME NEW m \in 1..L, NEW f, Begins(f, m - 1)
      PROVE  Begins([i \in 0..m |-> IF i = m THEN Packing(f[m - 1], D(m)) ELSE f[i]], m)
  <2>1. f[m - 1] \in OutLists
    BY <1>4, <1>5
  <2>2. Packing(f[m - 1], D(m)) \in OutLists
    BY <1>3, <2>1, PackingFits
  <2>. QED
    BY <1>4, <1>5, <2>2
<1>6. Begins([i \in 0..0 |-> <<<<>>>>], 0)
  BY <1>2
<1>7. PICK f : Begins(f, L)
  <2>. DEFINE S == {n \in 0..L : \E f : Begins(f, n)}
  <2>. HIDE DEF Begins
  <2>1. 0 \in S
    BY <1>4, <1>6
  <2>2. ASSUME NEW n \in 1..L, n - 1 \in S PROVE n \in S
    <3>1. PICK f : Begins(f, n - 1)
      BY <2>2
    <3>2. \E g : Begins(g, n)
      BY <1>5, <3>1, Zenon
    <3>. QED
      BY <1>4, <3>2
  <2>3. \A n \in 1..L : n - 1 \in S => n \in S
    BY <2>2, Zenon
  <2>. HIDE DEF S
  <2>4. 0..L \subseteq S
    BY <1>4, <2>1, <2>3, UpTo, Zenon
  <2>. QED
    BY <1>4, <2>4 DEF S
<1>8. f = Step(f)
  <2>1. f = [i \in 0..L |-> f[i]]
    BY <1>7
  <2>2. \A i \in 0..L : i # 0 => i \in 1..L
    BY <1>4
  <2>3. \A i \in 0..L : f[i] = IF i = 0 THEN <<<<>>>> ELSE Packing(f[i - 1], D(i))
    BY <1>7, <2>2, Zenon
  <2>. QED
    BY <2>1, <2>3, Zenon
<1>9. PICK P : P = Step(P) /\ Packed(order) = P
  BY <1>1, <1>8, Zenon DEF L
<1>10. P[L] \in OutLists
  <2>. DEFINE S == {n \in 0..L : P[n] \in OutLists}
  <2>1. 0 \in S
    BY <1>2, <1>4, <1>9
  <2>2. \A n \in 1..L : P[n] = Packing(P[n - 1], D(n))
    BY <1>4, <1>9
  <2>3. \A n \in 1..L : n - 1 \in S => n \in S
    BY <1>3, <1>4, <2>2, PackingFits
  <2>. HIDE DEF S
  <2>4. 0..L \subseteq S
    BY <1>4, <2>1, <2>3, UpTo, Zenon
  <2>. QED
    BY <1>4, <2>4 DEF S
<1>. QED
  BY <1>9, <1>10 DEF L

\* Objects with the names and sizes of chunks.
Sized(s) == \A id \in DOMAIN s : id[1] \in {"chunk", "compacted"} /\ Fits(s[id])

\* Where the compactor's index is one that can be stored.
Storable == pc \in {"list", "size", "index", "delete"} \/ (pc = "put" /\ Encodable(mem))

\* The inductive invariant behind the types, which asks nothing of who runs when:
\* every index outside the compactor names chunks of a ChunkStore, and every
\* buffer that becomes an object has room in one.
SizeInv ==
    /\ CompactionTypeOK /\ Sized(store)
    /\ Index(idx) /\ Index(Loaded(remote)) /\ Index(Loaded(base))
    /\ Storable => Index(mem)
    /\ activeID \in ChunkIDs /\ nextSeq \in Nat /\ Fits(activeBuf)
    /\ \A n \in DOMAIN outputs : Fits(outputs[n])

\* An index that can be stored can be encoded.
LEMMA IndexEncodable == ASSUME NEW x, Index(x) PROVE Encodable(x)
BY LiveExt DEF Encodable, Ext, ChunkIDs, chunkID

\* No index is larger than none.
LEMMA EmptyIndex == Index(Empty) /\ Loaded(<<>>) = Empty
BY DEF Index, Empty, Loaded

\* A Put of a chunk keeps names and sizes.
LEMMA PutSized ==
    ASSUME Sized(store), NEW id, id[1] \in {"chunk", "compacted"}, NEW data, Fits(data),
           Put(id, data)
    PROVE  Sized(store')
BY Zenon DEF Sized, Put

\* The daemon's steps.
LEMMA DaemonSize == ASSUME SizeInv, Daemon PROVE SizeInv'
<1>. USE MaxSeqAssumption, ChunkIDsMember
<1>1. Sized(store) /\ activeID[1] = "chunk"
  BY DEF SizeInv, ChunkIDs, chunkID
<1>2. UNCHANGED <<base, pc, mem, todo, targets, outputs>>
  BY Zenon DEF Daemon, Write, Drop, Flush, PersistIndex, Stop, Mount, compactVars
<1>3. ASSUME Sized(store'), Index(idx'), Index(Loaded(remote)'),
             activeID' \in ChunkIDs, nextSeq' \in Nat, Fits(activeBuf')
      PROVE  SizeInv'
  <2>1. Index(Loaded(base)') /\ (Storable' => Index(mem'))
    BY <1>2 DEF SizeInv, Storable, Encodable, Live, Loaded
  <2>2. \A n \in DOMAIN outputs' : Fits(outputs'[n])
    BY <1>2 DEF SizeInv
  <2>3. Encodable(Loaded(remote))' /\ Encodable(Loaded(base))'
    BY <1>3, <2>1, IndexEncodable, Zenon DEF Encodable
  <2>4. CompactionTypeOK'
    BY <1>2, <1>3, <2>3, Zenon DEF SizeInv, CompactionTypeOK, Sized, Fits
  <2>. QED
    BY <1>3, <2>1, <2>2, <2>4, Zenon DEF SizeInv
<1>4. ASSUME NEW s \in Slot, NEW data \in Data, Write(s, data) PROVE SizeInv'
  <2>. DEFINE new == [id |-> activeID', off |-> AppendOffset(data), data |-> data]
  <2>1. /\ AppendData(data) /\ UNCHANGED remote
        /\ idx' = [t \in DOMAIN idx \cup {s} |-> IF t = s THEN new ELSE idx[t]]
    BY <1>4, Zenon DEF Write
  <2>2. /\ data \in Seq(Byte) /\ data # <<>> /\ Len(data) \in Nat
        /\ activeBuf \in Seq(Byte) /\ Len(activeBuf) \in Nat
    BY DataAssumption DEF SizeInv, Fits
  <2>3. Len(data) <= MaxChunkSize
    BY <2>1 DEF AppendData, AppendActive, AppendRotate
  <2>4. activeID' \in ChunkIDs /\ nextSeq' \in Nat
    <3>1. UNCHANGED <<activeID, nextSeq>> \/ OpenNext
      BY <2>1 DEF AppendData, AppendActive, AppendRotate
    <3>2. activeID \in ChunkIDs /\ nextSeq \in Nat
      BY DEF SizeInv
    <3>3. CASE OpenNext
      BY <3>2, <3>3 DEF OpenNext
    <3>. QED
      BY <3>1, <3>2, <3>3, Zenon
  <2>5. Index(idx')
    <3>1. AppendOffset(data) \in Nat
      BY <2>2 DEF AppendOffset
    <3>2. new \in Ext
      BY <2>2, <2>4, <3>1 DEF Ext
    <3>. HIDE DEF new
    <3>. QED
      BY <2>1, <3>2 DEF SizeInv, Index
  <2>6. CASE AppendActive(data)
    <3>1. activeBuf' = activeBuf \o data /\ UNCHANGED store /\ Len(activeBuf) + Len(data) <= MaxChunkSize
      BY <2>2, <2>6, MaxChunkSizeAssumption DEF AppendActive, Overflows
    <3>2. Fits(activeBuf')
      BY <2>2, <3>1 DEF Fits
    <3>. QED
      BY <1>1, <1>3, <2>1, <2>4, <2>5, <3>1, <3>2, Zenon DEF SizeInv, Loaded
  <2>7. CASE AppendRotate(data)
    <3>1. Sized(store')
      BY <1>1, <2>7, PutSized DEF AppendRotate, SizeInv
    <3>2. Fits(activeBuf')
      BY <2>2, <2>3, <2>7 DEF AppendRotate, Fits
    <3>. QED
      BY <1>3, <2>1, <2>4, <2>5, <3>1, <3>2, Zenon DEF SizeInv, Loaded
  <2>. QED
    BY <2>1, <2>6, <2>7 DEF AppendData
<1>5. CASE Flush
  <2>1. Sized(store')
    BY <1>1, <1>5, PutSized DEF Flush, FlushActive, SizeInv
  <2>. QED
    BY <1>3, <1>5, <2>1, Zenon DEF Flush, FlushActive, SizeInv, daemonVars, Loaded
<1>6. ASSUME NEW s \in Slot, Drop(s) PROVE SizeInv'
  <2>1. Index(idx')
    BY <1>6 DEF Drop, SizeInv, Index
  <2>. QED
    BY <1>1, <1>3, <1>6, <2>1, Zenon DEF Drop, SizeInv, csVars, Loaded
<1>7. CASE PersistIndex
  BY <1>1, <1>3, <1>7, Zenon DEF PersistIndex, SizeInv, csVars, daemonVars, Loaded
<1>8. Fits(<<>>)
  BY MaxChunkSizeAssumption DEF Fits
<1>9. CASE Stop
  BY <1>1, <1>3, <1>8, <1>9, EmptyIndex DEF Stop, SizeInv, Loaded
<1>10. CASE Mount
  BY <1>1, <1>3, <1>8, <1>10 DEF Mount, Restart, SizeInv, Loaded
<1>. QED
  BY <1>4, <1>5, <1>6, <1>7, <1>9, <1>10, Zenon DEF Daemon

\* A step of the compactor that keeps what is said of its own variables and of
\* the files it writes.
LEMMA CompactorSize ==
    ASSUME SizeInv, UNCHANGED <<activeID, activeBuf, nextSeq, idx>>, Sized(store'),
           Index(Loaded(remote)'), Index(Loaded(base)'), Storable' => Index(mem'),
           \A n \in DOMAIN outputs' : Fits(outputs'[n]),
           pc' \in {"idle", "load", "list", "size", "put", "index", "delete"},
           todo' # {} \/ targets' # {} \/ DOMAIN outputs' # {} => pc' # "idle"
    PROVE  SizeInv'
<1>1. Encodable(Loaded(remote))' /\ Encodable(Loaded(base))'
  BY IndexEncodable, Zenon DEF Encodable
<1>2. CompactionTypeOK'
  BY <1>1, Zenon DEF CompactionTypeOK, Sized, Fits
<1>. QED
  BY <1>2, Zenon DEF SizeInv

\* Copy: an extent read from an object has room in a chunk, so the outputs do.
LEMMA CopySize ==
    ASSUME SizeInv, NEW order \in CopyOrders, Copy(order)
    PROVE  SizeInv'
<1>1. /\ pc = "size" /\ pc' = "put" /\ UNCHANGED <<csVars, idx, remote, base, todo, targets>>
      /\ \A i \in 1..Len(order) : Stored(mem[order[i]])
  BY Zenon DEF Copy, daemonVars
<1>2. Index(mem)
  BY <1>1, Zenon DEF SizeInv, Storable
<1>3. Len(order) \in Nat /\ order \in [1..Len(order) -> DOMAIN mem]
  BY <1>2, OrderFacts
<1>4. ASSUME NEW i \in 1..Len(order) PROVE Fits(mem[order[i]].data)
  <2>1. mem[order[i]] \in Ext /\ Stored(mem[order[i]])
    BY <1>1, <1>2, <1>3 DEF Index
  <2>2. PICK e \in Ext : e = mem[order[i]] /\ Stored(e)
    BY <2>1
  <2>3. /\ e.off \in Nat /\ e.data \in Seq(Byte)
        /\ e.id \in DOMAIN store /\ e.off + Len(e.data) <= Len(store[e.id])
    BY <2>2 DEF Ext, Stored
  <2>4. store[e.id] \in Seq(Byte) /\ Len(store[e.id]) <= MaxChunkSize
    BY <2>3, Zenon DEF SizeInv, Sized, Fits
  <2>5. Len(e.data) \in Nat /\ Len(store[e.id]) \in Nat
    BY <2>3, <2>4
  <2>6. Len(e.data) <= MaxChunkSize
    BY ONLY <2>3, <2>4, <2>5, MaxChunkSizeAssumption
  <2>. QED
    BY <2>2, <2>3, <2>6, Zenon DEF Fits
<1>5. Packed(order)[Len(order)] \in OutLists
  BY <1>3, <1>4, PackedFits
<1>6. \A n \in DOMAIN outputs' : Fits(outputs'[n])
  <2>. DEFINE outs == Packed(order)[Len(order)]
  <2>1. outputs' = [n \in {i \in 1..Len(outs) : outs[i] # <<>>} |-> outs[n]]
    BY Zenon DEF Copy
  <2>2. \A n \in 1..Len(outs) : Fits(outs[n])
    BY <1>5, Zenon DEF OutLists
  <2>. HIDE DEF outs
  <2>. QED
    BY <2>1, <2>2
<1>7. Storable' => Index(mem')
  <2>1. Storable' => Encodable(mem)'
    BY <1>1, Zenon DEF Storable
  <2>. QED
    BY <1>2, <2>1, CopyNothing
<1>8. Sized(store') /\ Index(Loaded(remote)') /\ Index(Loaded(base)')
  BY <1>1 DEF SizeInv, csVars, Loaded
<1>. QED
  BY <1>1, <1>6, <1>7, <1>8, CompactorSize DEF csVars

\* The other steps of the compactor.
LEMMA OtherSize ==
    ASSUME SizeInv,
           \/ Start \/ Load \/ ListSealed \/ PutSealed \/ Save \/ PutIndex
           \/ \E id \in todo : SealedSize(id)
           \/ \E id \in targets : Delete(id)
           \/ \E r : Exit(r)
    PROVE  SizeInv'
<1>1. Sized(store)
  BY Zenon DEF SizeInv
<1>2. UNCHANGED <<activeID, activeBuf, nextSeq, idx>>
  BY Zenon DEF Start, Load, ListSealed, PutSealed, Save, PutIndex, SealedSize, Delete, Exit,
         csVars, daemonVars
<1>3. Sized(store')
  <2>1. CASE PutSealed
    <3>1. PICK n \in DOMAIN outputs : Put(compactedID(n), outputs[n])
      BY <2>1 DEF PutSealed
    <3>. QED
      BY <1>1, <3>1, PutSized DEF SizeInv, compactedID
  <2>2. ASSUME NEW id \in targets, Delete(id) PROVE Sized(store')
    BY <1>1, <2>2, Zenon DEF Delete, Sized
  <2>3. CASE UNCHANGED store
    BY <1>1, <2>3 DEF Sized
  <2>. QED
    BY <2>1, <2>2, <2>3, Zenon
       DEF Start, Load, ListSealed, Save, PutIndex, SealedSize, Exit, csVars
<1>4. Index(Loaded(remote)')
  <2>1. CASE PutIndex
    <3>1. Loaded(remote)' = mem
      BY <2>1 DEF PutIndex, Loaded
    <3>. QED
      BY <2>1, <3>1 DEF PutIndex, SizeInv, Storable
  <2>2. CASE UNCHANGED remote
    BY <2>2 DEF Loaded, SizeInv
  <2>. QED
    BY <2>1, <2>2, Zenon DEF Start, Load, ListSealed, PutSealed, Save, SealedSize, Delete, Exit
<1>5. Index(Loaded(base)')
  <2>1. CASE Save
    <3>1. Loaded(base)' = mem
      BY <2>1 DEF Save, Loaded
    <3>. QED
      BY <2>1, <3>1 DEF Save, SizeInv, Storable
  <2>2. CASE base' \in {base, <<>>, remote}
    BY <2>2, EmptyIndex DEF Loaded, SizeInv
  <2>. QED
    BY <2>1, <2>2, Zenon DEF Start, Load, ListSealed, PutSealed, PutIndex, SealedSize, Delete, Exit
<1>6. Storable' => Index(mem')
  <2>1. CASE Load
    BY <2>1 DEF Load, SizeInv, Loaded
  <2>2. CASE UNCHANGED mem /\ (Storable' => Storable)
    BY <2>2 DEF SizeInv
  <2>3. CASE pc' \in {"idle", "load"}
    BY <2>3 DEF Storable
  <2>4. UNCHANGED <<pc, mem>> => (Storable' => Storable)
    BY Zenon DEF Storable, Encodable
  <2>5. ListSealed \/ Save \/ PutIndex => UNCHANGED mem /\ (Storable' => Storable)
    BY DEF ListSealed, Save, PutIndex, Storable
  <2>. QED
    BY <2>1, <2>2, <2>3, <2>4, <2>5, Zenon DEF Start, PutSealed, SealedSize, Delete, Exit
<1>7. \A n \in DOMAIN outputs' : Fits(outputs'[n])
  <2>1. CASE PutSealed
    BY <2>1 DEF PutSealed, SizeInv
  <2>2. CASE outputs' \in {outputs, Empty}
    BY <2>2, Zenon DEF SizeInv, Empty
  <2>. QED
    BY <2>1, <2>2, Zenon DEF Start, Load, ListSealed, Save, PutIndex, SealedSize, Delete, Exit
<1>8. /\ pc' \in {"idle", "load", "list", "size", "put", "index", "delete"}
      /\ todo' # {} \/ targets' # {} \/ DOMAIN outputs' # {} => pc' # "idle"
  BY Zenon DEF Start, Load, ListSealed, PutSealed, Save, PutIndex, SealedSize, Delete, Exit,
         SizeInv, CompactionTypeOK, Empty
<1>. QED
  BY <1>2, <1>3, <1>4, <1>5, <1>6, <1>7, <1>8, CompactorSize, Zenon

\* CompactionTypeOK, for every threshold, payload and number of files and
\* cycles, with or without a daemon at work meanwhile: what Compact packs never
\* outgrows a chunk, and an index that has left its process names only
\* chunks that can be encoded.
THEOREM CompactionTyped == Spec => []CompactionTypeOK
<1>1. Init => SizeInv
  <2>. SUFFICES ASSUME Init PROVE SizeInv
    OBVIOUS
  <2>1. /\ pc = "idle" /\ store = Empty /\ todo = {} /\ targets = {} /\ outputs = Empty
        /\ idx = Empty /\ mem = Empty /\ remote = <<>> /\ base = <<>>
        /\ activeID = chunkID(0) /\ nextSeq = 1 /\ activeBuf = <<>>
    BY DEF Init, CSInit, Empty
  <2>2. /\ Index(idx) /\ Index(mem) /\ Index(Loaded(remote)) /\ Index(Loaded(base))
    BY <2>1, EmptyIndex
  <2>3. CompactionTypeOK
    BY <2>1, <2>2, IndexEncodable DEF CompactionTypeOK, Empty
  <2>4. activeID \in ChunkIDs /\ nextSeq \in Nat
    BY <2>1, MaxSeqAssumption, ChunkIDsMember
  <2>5. Fits(activeBuf) /\ \A n \in DOMAIN outputs : Fits(outputs[n])
    BY <2>1, MaxChunkSizeAssumption DEF Fits, Empty
  <2>6. Sized(store)
    BY <2>1 DEF Sized, Empty
  <2>. QED
    BY <2>2, <2>3, <2>4, <2>5, <2>6 DEF SizeInv
<1>2. SizeInv /\ [Next]_vars => SizeInv'
  <2>. SUFFICES ASSUME SizeInv, [Next]_vars PROVE SizeInv'
    OBVIOUS
  <2>1. CASE Start \/ Compact
    BY <2>1, CopySize, OtherSize DEF Compact, NoTargets, SaveRefused, Done, Fail
  <2>2. CASE UNCHANGED vars
    BY <2>2, Zenon DEF vars, csVars, daemonVars, compactVars, SizeInv, CompactionTypeOK, Storable,
                Encodable, Live, Loaded, Index
  <2>. QED
    BY <2>1, <2>2, DaemonSize DEF Next
<1>3. SizeInv => CompactionTypeOK
  BY DEF SizeInv
<1>. QED
  BY <1>1, <1>2, <1>3, PTL DEF Spec
=============================================================================
