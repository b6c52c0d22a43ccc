--------------------------- MODULE ChunkStoreProofs ---------------------------
(***************************************************************************)
(* Safety of the chunk store for every chunk size, payload set and number  *)
(* of chunks.  None of the properties is inductive alone: that acknowledged *)
(* bytes stay readable needs to know that the active id is not in use      *)
(* (ActiveNotAliased), which in turn needs that ids in the store never lie *)
(* above the active one (StoredBelow).                                     *)
(***************************************************************************)
EXTENDS ChunkStore, TLAPS

\* Sessions open chunks in increasing order of sequence number: no object and
\* no appended byte lies above the active chunk.
StoredBelow ==
    /\ \A s \in 0..MaxSeq : chunkID(s) \in DOMAIN store => s <= nextSeq - 1
    /\ \A s \in 0..MaxSeq : chunkID(s) \in DOMAIN appended => s <= nextSeq - 1

\* The history knows the active chunk exactly when bytes were appended to it.
ActiveAppended ==
    activeID \in DOMAIN appended <=> activeBuf # <<>>

\* The inductive invariant.
CSInv ==
    /\ CSTypeOK
    /\ StoredBelow
    /\ ActiveAppended
    /\ AppendedReadable
    /\ CleanMeansStored
    /\ ChunkSizeBound
    /\ ActiveNotAliased

-----------------------------------------------------------------------------
(* The steps *)

\* Different sequence numbers make different names.
LEMMA ChunkIDInjective ==
    ASSUME NEW s \in Nat, NEW t \in Nat, chunkID(s) = chunkID(t)
    PROVE  s = t
BY DEF chunkID

\* Exactly the sequence numbers up to the bound make names.
LEMMA ChunkIDsMember == \A s \in 0..MaxSeq : chunkID(s) \in ChunkIDs
BY DEF ChunkIDs

\* The active chunk has the last sequence number handed out.
LEMMA ActiveSeq ==
    ASSUME CSTypeOK
    PROVE  /\ activeID \in ChunkIDs
           /\ \A s \in 0..MaxSeq : chunkID(s) = activeID => s = nextSeq - 1
<1>. DEFINE n == nextSeq - 1
<1>1. n \in 0..MaxSeq /\ activeID = chunkID(n)
  BY MaxSeqAssumption DEF CSTypeOK
<1>. HIDE DEF n
<1>2. activeID \in ChunkIDs
  BY <1>1, ChunkIDsMember
<1>3. \A s \in 0..MaxSeq : chunkID(s) = activeID => s = n
  BY <1>1, ChunkIDInjective, MaxSeqAssumption
<1>. QED
  BY <1>2, <1>3 DEF n

\* A fresh file system satisfies the invariant.
LEMMA CSInitInv == CSInit => CSInv
<1>. SUFFICES ASSUME CSInit PROVE CSInv
  OBVIOUS
<1>1. DOMAIN store = {} /\ DOMAIN appended = {} /\ activeBuf = <<>>
  BY DEF CSInit
<1>2. CSTypeOK
  <2>1. nextSeq \in 1..(MaxSeq + 1) /\ activeID = chunkID(nextSeq - 1)
    BY MaxSeqAssumption DEF CSInit
  <2>2. store \in [DOMAIN store -> Seq(Byte)] /\ appended \in [DOMAIN appended -> Seq(Byte)]
    BY <1>1 DEF CSInit
  <2>3. activeDirty \in BOOLEAN
    BY Zenon DEF CSInit
  <2>4. activeBuf \in Seq(Byte)
    BY <1>1
  <2>. QED
    BY <1>1, <2>1, <2>2, <2>3, <2>4 DEF CSTypeOK
<1>. QED
  BY <1>1, <1>2, MaxChunkSizeAssumption
     DEF CSInv, StoredBelow, ActiveAppended, AppendedReadable,
         CleanMeansStored, ChunkSizeBound, ActiveNotAliased

\* Replacing the object of the active chunk by the buffer (sealLocked,
\* FlushActive, and their failures that did reach the store) leaves every
\* other object alone.
LEMMA PutActive ==
    ASSUME CSInv, Put(activeID, activeBuf)
    PROVE  /\ DOMAIN store' = DOMAIN store \cup {activeID}
           /\ store'[activeID] = activeBuf
           /\ \A k \in DOMAIN store \ {activeID} : store'[k] = store[k]
           /\ DOMAIN store' \subseteq ChunkIDs
           /\ store' \in [DOMAIN store' -> Seq(Byte)]
           /\ \A id \in DOMAIN store' : Len(store'[id]) <= MaxChunkSize
           /\ \A s \in 0..MaxSeq : chunkID(s) \in DOMAIN store' => s <= nextSeq - 1
           /\ StoreExtends
<1>1. activeID \in ChunkIDs
  BY MaxSeqAssumption, ChunkIDInjective, ChunkIDsMember DEF CSInv, CSTypeOK
<1>2. /\ DOMAIN store' = DOMAIN store \cup {activeID}
      /\ store'[activeID] = activeBuf
      /\ \A k \in DOMAIN store \ {activeID} : store'[k] = store[k]
      /\ store' \in [DOMAIN store' -> Seq(Byte)]
  BY DEF Put, CSInv, CSTypeOK
<1>3. StoreExtends
  <2>. SUFFICES ASSUME NEW id \in DOMAIN store
                PROVE  /\ id \in DOMAIN store' /\ Len(store[id]) <= Len(store'[id])
                       /\ \A i \in 1..Len(store[id]) : store'[id][i] = store[id][i]
    BY DEF StoreExtends
  <2>1. Len(store[id]) \in Nat
    BY DEF CSInv, CSTypeOK
  <2>2. CASE id = activeID
    BY <1>2, <2>2 DEF CSInv, ActiveNotAliased
  <2>3. CASE id # activeID
    BY <1>2, <2>1, <2>3
  <2>. QED
    BY <2>2, <2>3
<1>4. \A s \in 0..MaxSeq : chunkID(s) \in DOMAIN store' => s <= nextSeq - 1
  <2>1. nextSeq - 1 \in Int
    BY DEF CSInv, CSTypeOK
  <2>. QED
    BY <1>2, <2>1, ActiveSeq DEF CSInv, StoredBelow
<1>. QED
  BY <1>1, <1>2, <1>3, <1>4 DEF CSInv, CSTypeOK, ChunkSizeBound

\* A Put that reported an error leaves the invariant intact.
LEMMA FailedPut ==
    ASSUME CSInv, PutError(activeID, activeBuf),
           UNCHANGED <<activeID, activeBuf, activeDirty, nextSeq, appended>>
    PROVE  CSInv' /\ StoreExtends
<1>1. CASE UNCHANGED store
  BY <1>1 DEF CSInv, CSTypeOK, StoredBelow, ActiveAppended, AppendedReadable,
              CleanMeansStored, ChunkSizeBound, ActiveNotAliased, Contents, StoreExtends
<1>2. CASE Put(activeID, activeBuf)
  BY <1>2, PutActive
     DEF CSInv, CSTypeOK, StoredBelow, ActiveAppended, AppendedReadable,
         CleanMeansStored, ChunkSizeBound, ActiveNotAliased, Contents
<1>. QED
  BY <1>1, <1>2 DEF PutError

\* The id after the active one is unused.
LEMMA NextIsFresh ==
    ASSUME CSInv, nextSeq <= MaxSeq
    PROVE  /\ chunkID(nextSeq) \in ChunkIDs
           /\ chunkID(nextSeq) \notin DOMAIN store
           /\ chunkID(nextSeq) \notin DOMAIN appended
           /\ chunkID(nextSeq) # activeID
BY MaxSeqAssumption, ChunkIDInjective, ChunkIDsMember DEF CSInv, CSTypeOK, StoredBelow

\* sealLocked, in its three outcomes.
LEMMA SealInv == ASSUME CSInv, Seal PROVE CSInv' /\ StoreExtends
<1>1. CASE SealError
  BY <1>1, FailedPut DEF SealError
<1>2. CASE SealEmpty
  <2>. USE <1>2 DEF SealEmpty, OpenNext
  <2>1. CSTypeOK' /\ StoredBelow'
    BY NextIsFresh, MaxSeqAssumption, ChunkIDInjective, ChunkIDsMember DEF CSInv, CSTypeOK, StoredBelow
  <2>2. AppendedReadable'
    BY NextIsFresh DEF CSInv, ActiveAppended, AppendedReadable, Contents
  <2>. QED
    BY <2>1, <2>2, NextIsFresh
       DEF CSInv, ActiveAppended, CleanMeansStored, ChunkSizeBound, ActiveNotAliased, StoreExtends, CSTypeOK
<1>3. CASE SealPut
  <2>1. /\ Put(activeID, activeBuf)
        /\ nextSeq <= MaxSeq
        /\ activeID' = chunkID(nextSeq)
        /\ nextSeq' = nextSeq + 1
        /\ activeBuf' = <<>>
        /\ UNCHANGED appended
    BY <1>3 DEF SealPut, OpenNext
  <2>2. activeDirty' \in BOOLEAN /\ activeDirty' = FALSE
    BY <1>3, Zenon DEF SealPut
  <2>3. CSTypeOK'
    <3>1. nextSeq' \in 1..(MaxSeq + 1) /\ nextSeq' - 1 = nextSeq
      BY <2>1, MaxSeqAssumption DEF CSInv, CSTypeOK
    <3>2. activeBuf' \in Seq(Byte)
      BY <2>1
    <3>3. DOMAIN appended' \subseteq ChunkIDs /\ appended' \in [DOMAIN appended' -> Seq(Byte)]
      BY <2>1 DEF CSInv, CSTypeOK
    <3>. QED
      BY <2>1, <2>2, <3>1, <3>2, <3>3, PutActive DEF CSTypeOK
  <2>4. StoredBelow'
    <3>1. \A s \in 0..MaxSeq : s <= nextSeq - 1 => s <= nextSeq' - 1
      BY <2>1, MaxSeqAssumption DEF CSInv, CSTypeOK
    <3>. QED
      BY <2>1, <3>1, PutActive DEF CSInv, StoredBelow
  <2>5. AppendedReadable' /\ ActiveAppended'
    BY <2>1, PutActive, NextIsFresh DEF CSInv, AppendedReadable, ActiveAppended, Contents
  <2>6. ActiveNotAliased' /\ CleanMeansStored'
    BY <2>1, PutActive, NextIsFresh DEF ActiveNotAliased, CleanMeansStored
  <2>7. ChunkSizeBound'
    BY <2>1, PutActive, MaxChunkSizeAssumption DEF ChunkSizeBound
  <2>. QED
    BY <2>1, <2>3, <2>4, <2>5, <2>6, <2>7, PutActive DEF CSInv
<1>. QED
  BY <1>1, <1>2, <1>3 DEF Seal

\* FlushActive, successful or not.
LEMMA FlushInv ==
    ASSUME CSInv, FlushActive \/ FlushError
    PROVE  CSInv' /\ StoreExtends
<1>1. CASE FlushActive
  <2>1. /\ UNCHANGED <<activeID, activeBuf, nextSeq, appended>>
        /\ activeDirty' = FALSE
        /\ Put(activeID, activeBuf)
    BY <1>1 DEF FlushActive
  <2>2. CSTypeOK' /\ StoredBelow' /\ ActiveAppended'
    BY <2>1, PutActive, Zenon DEF CSInv, CSTypeOK, StoredBelow, ActiveAppended
  <2>3. AppendedReadable' /\ CleanMeansStored'
    BY <2>1, PutActive DEF CSInv, AppendedReadable, CleanMeansStored, Contents
  <2>4. ChunkSizeBound' /\ ActiveNotAliased'
    BY <2>1, PutActive DEF CSInv, CSTypeOK, ChunkSizeBound, ActiveNotAliased
  <2>. QED
    BY <2>1, <2>2, <2>3, <2>4, PutActive DEF CSInv
<1>2. CASE FlushError
  BY <1>2, FailedPut DEF FlushError
<1>. QED
  BY <1>1, <1>2

\* Append that fits the active chunk.
LEMMA AppendActiveInv ==
    ASSUME CSInv, NEW data \in Seq(Byte) \ {<<>>}, AppendActive(data)
    PROVE  CSInv' /\ StoreExtends
<1>. USE DEF AppendActive
<1>1. /\ activeBuf' \in Seq(Byte)
      /\ activeBuf' # <<>>
      /\ Len(activeBuf') = Len(activeBuf) + Len(data)
      /\ \A i \in 1..Len(activeBuf) : activeBuf'[i] = activeBuf[i]
  BY DEF CSInv, CSTypeOK
<1>2. /\ DOMAIN appended' = DOMAIN appended \cup {activeID}
      /\ \A k \in DOMAIN appended \ {activeID} : appended'[k] = appended[k]
      /\ appended'[activeID] = activeBuf'
      /\ appended' \in [DOMAIN appended' -> Seq(Byte)]
  <2>1. activeID \notin DOMAIN appended => activeBuf' = data
    BY DEF CSInv, CSTypeOK, ActiveAppended
  <2>2. activeID \in DOMAIN appended => appended[activeID] = activeBuf
    BY DEF CSInv, AppendedReadable, Contents
  <2>. QED
    BY <1>1, <2>1, <2>2, Zenon DEF Record, CSInv, CSTypeOK
<1>3. activeID \in ChunkIDs
  BY ActiveSeq DEF CSInv
<1>4. CSTypeOK'
  BY <1>1, <1>2, <1>3 DEF CSInv, CSTypeOK
<1>5. StoredBelow'
  <2>1. \A s \in 0..MaxSeq : chunkID(s) = activeID => s <= nextSeq - 1
    BY ActiveSeq, MaxSeqAssumption DEF CSInv, CSTypeOK
  <2>. QED
    BY <1>2, <2>1 DEF CSInv, StoredBelow
<1>6. AppendedReadable' /\ ActiveAppended'
  BY <1>1, <1>2, Zenon DEF CSInv, AppendedReadable, ActiveAppended, Contents
<1>7. ChunkSizeBound'
  BY <1>1, MaxChunkSizeAssumption DEF CSInv, CSTypeOK, ChunkSizeBound, Overflows
<1>8. ActiveNotAliased'
  BY <1>1 DEF CSInv, CSTypeOK, ActiveNotAliased
<1>9. CleanMeansStored' /\ StoreExtends
  BY DEF CSInv, CSTypeOK, CleanMeansStored, StoreExtends
<1>. QED
  BY <1>4, <1>5, <1>6, <1>7, <1>8, <1>9 DEF CSInv

\* Append that seals the full chunk first.
LEMMA AppendRotateInv ==
    ASSUME CSInv, NEW data \in Seq(Byte) \ {<<>>}, AppendRotate(data)
    PROVE  CSInv' /\ StoreExtends
<1>. USE DEF AppendRotate, OpenNext
<1>1. /\ DOMAIN appended' = DOMAIN appended \cup {activeID'}
      /\ \A k \in DOMAIN appended : appended'[k] = appended[k]
      /\ appended'[activeID'] = data
      /\ appended' \in [DOMAIN appended' -> Seq(Byte)]
  BY NextIsFresh DEF Record, CSInv, CSTypeOK
<1>2. CSTypeOK'
  BY <1>1, PutActive, NextIsFresh, MaxSeqAssumption DEF CSInv, CSTypeOK
<1>3. StoredBelow'
  <2>1. nextSeq \in Nat /\ nextSeq' = nextSeq + 1 /\ activeID' = chunkID(nextSeq)
    BY DEF CSInv, CSTypeOK
  <2>2. \A s \in 0..MaxSeq : chunkID(s) \in DOMAIN store' => s <= nextSeq' - 1
    BY <2>1, PutActive, MaxSeqAssumption
  <2>3. ASSUME NEW s \in 0..MaxSeq, chunkID(s) \in DOMAIN appended'
        PROVE  s <= nextSeq' - 1
    <3>1. CASE chunkID(s) \in DOMAIN appended
      BY <2>1, <3>1, MaxSeqAssumption DEF CSInv, StoredBelow
    <3>2. CASE chunkID(s) = chunkID(nextSeq)
      <4>1. s = nextSeq
        BY <2>1, <3>2, MaxSeqAssumption, ChunkIDInjective
      <4>. QED
        BY <2>1, <4>1
    <3>. QED
      BY <1>1, <2>1, <2>3, <3>1, <3>2
  <2>. QED
    BY <2>2, <2>3 DEF StoredBelow
<1>4. AppendedReadable' /\ ActiveAppended'
  BY <1>1, PutActive, NextIsFresh, Zenon DEF CSInv, AppendedReadable, ActiveAppended, Contents
<1>5. ChunkSizeBound'
  BY PutActive DEF ChunkSizeBound
<1>6. ActiveNotAliased'
  BY PutActive, NextIsFresh DEF ActiveNotAliased
<1>7. CleanMeansStored'
  BY DEF CleanMeansStored
<1>. QED
  BY <1>2, <1>3, <1>4, <1>5, <1>6, <1>7, PutActive DEF CSInv

\* The bytes an operation has acknowledged are not touched by later ones.
AppendedGrows ==
    \A id \in DOMAIN appended :
        /\ id \in DOMAIN appended'
        /\ Len(appended[id]) <= Len(appended'[id])
        /\ \A i \in 1..Len(appended[id]) : appended'[id][i] = appended[id][i]

\* The extent a successful Append returns leads to the bytes it was given.
LEMMA AppendExtent ==
    ASSUME CSInv, NEW data \in Seq(Byte) \ {<<>>}, AppendData(data)
    PROVE  /\ CSInv' /\ AppendedGrows
           /\ activeID' \in DOMAIN appended'
           /\ AppendOffset(data) \in Nat
           /\ AppendOffset(data) + Len(data) <= Len(appended'[activeID'])
           /\ \A i \in 1..Len(data) :
                  appended'[activeID'][AppendOffset(data) + i] = data[i]
<1>1. CASE AppendActive(data)
  <2>1. CSInv'
    BY <1>1, AppendActiveInv
  <2>2. /\ activeID' = activeID /\ AppendOffset(data) = Len(activeBuf)
        /\ activeBuf' = activeBuf \o data
        /\ Record(activeID, data)
    BY <1>1 DEF AppendActive, AppendOffset
  <2>3. activeBuf \in Seq(Byte) /\ activeBuf' # <<>>
    BY <2>2 DEF CSInv, CSTypeOK
  <2>4. activeID' \in DOMAIN appended' /\ appended'[activeID'] = activeBuf'
    BY <2>1, <2>3 DEF CSInv, ActiveAppended, AppendedReadable, Contents
  <2>5. \A id \in DOMAIN appended : appended[id] \in Seq(Byte)
    BY DEF CSInv, CSTypeOK
  <2>6. AppendedGrows
    BY <2>2, <2>5 DEF AppendedGrows, Record
  <2>. QED
    BY <2>1, <2>2, <2>3, <2>4, <2>6
<1>2. CASE AppendRotate(data)
  <2>1. CSInv'
    BY <1>2, AppendRotateInv
  <2>2. /\ activeBuf' = data
        /\ nextSeq <= MaxSeq /\ activeID' = chunkID(nextSeq)
        /\ Record(chunkID(nextSeq), data)
        /\ AppendOffset(data) = 0
    BY <1>2 DEF AppendRotate, OpenNext, AppendOffset
  <2>3. activeID' \in DOMAIN appended' /\ appended'[activeID'] = data
    BY <2>1, <2>2 DEF CSInv, ActiveAppended, AppendedReadable, Contents
  <2>4. AppendedGrows
    <3>1. \A id \in DOMAIN appended : appended[id] \in Seq(Byte)
      BY DEF CSInv, CSTypeOK
    <3>2. \A id \in DOMAIN appended : id \in DOMAIN appended' /\ appended'[id] = appended[id]
      BY <2>2, NextIsFresh DEF Record
    <3>. QED
      BY <3>1, <3>2 DEF AppendedGrows
  <2>. QED
    BY <2>1, <2>2, <2>3, <2>4
<1>. QED
  BY <1>1, <1>2 DEF AppendData

\* A new session on the store of an old one.
LEMMA RestartInv == ASSUME CSInv, Restart PROVE CSInv' /\ StoreExtends
<1>1. PICK n \in 0..MaxSeq :
        /\ RecoverNextSeq(n)
        /\ activeID' = chunkID(n)
        /\ nextSeq' = n + 1
        /\ activeBuf' = <<>>
        /\ activeDirty' = FALSE
        /\ appended' = store
        /\ UNCHANGED store
  BY DEF Restart
<1>2. \A s \in 0..MaxSeq : chunkID(s) \in DOMAIN store => s < n
  BY <1>1 DEF RecoverNextSeq, StoredSeqs
<1>3. activeID' \notin DOMAIN store
  BY <1>1, <1>2
<1>4. CSTypeOK'
  <2>1. nextSeq' \in 1..(MaxSeq + 1) /\ activeID' = chunkID(nextSeq' - 1)
    BY <1>1, MaxSeqAssumption
  <2>2. activeDirty' \in BOOLEAN
    BY <1>1, Zenon
  <2>3. activeBuf' \in Seq(Byte)
    BY <1>1
  <2>. QED
    BY <1>1, <2>1, <2>2, <2>3 DEF CSInv, CSTypeOK
<1>5. StoredBelow'
  <2>1. \A s \in 0..MaxSeq : s < n => s <= nextSeq' - 1
    BY <1>1, MaxSeqAssumption
  <2>. QED
    BY <1>1, <1>2, <2>1 DEF StoredBelow
<1>. QED
  BY <1>1, <1>3, <1>4, <1>5, MaxChunkSizeAssumption
     DEF CSInv, CSTypeOK, ActiveAppended, AppendedReadable, CleanMeansStored,
         ChunkSizeBound, ActiveNotAliased, Contents, StoreExtends

\* Every step of the chunk store keeps the invariant and only extends objects.
LEMMA CSNextInv == CSInv /\ [CSNext]_csVars => CSInv' /\ [StoreExtends]_csVars
<1>. SUFFICES ASSUME CSInv, [CSNext]_csVars PROVE CSInv' /\ [StoreExtends]_csVars
  OBVIOUS
<1>1. ASSUME NEW data \in Data, AppendData(data) PROVE CSInv' /\ StoreExtends
  BY <1>1, AppendActiveInv, AppendRotateInv, DataAssumption DEF AppendData
<1>2. ASSUME NEW data \in Data, AppendError(data) PROVE CSInv' /\ StoreExtends
  BY <1>2, FailedPut DEF AppendError, SealError
<1>3. CASE UNCHANGED csVars
  BY <1>3 DEF csVars, CSInv, CSTypeOK, StoredBelow, ActiveAppended, AppendedReadable,
              CleanMeansStored, ChunkSizeBound, ActiveNotAliased, Contents
<1>. QED
  BY <1>1, <1>2, <1>3, SealInv, FlushInv, RestartInv DEF CSNext

-----------------------------------------------------------------------------
(* The theorems *)

\* The invariant holds in every reachable state.
THEOREM ChunkStoreInvariant == CSSpec => []CSInv
BY CSInitInv, CSNextInv, PTL DEF CSSpec

\* The variables of the chunk store keep their types.
THEOREM ChunkStoreTyped == CSSpec => []CSTypeOK
<1>1. CSInv => CSTypeOK
  BY DEF CSInv
<1>. QED
  BY <1>1, ChunkStoreInvariant, PTL

\* Acknowledged bytes are readable where ChunkStore.Append said they are.
THEOREM BytesStayReadable == CSSpec => []AppendedReadable
<1>1. CSInv => AppendedReadable
  BY DEF CSInv
<1>. QED
  BY <1>1, ChunkStoreInvariant, PTL

\* FlushActive may skip a clean buffer.
THEOREM SkippedFlushIsSafe == CSSpec => []CleanMeansStored
<1>1. CSInv => CleanMeansStored
  BY DEF CSInv
<1>. QED
  BY <1>1, ChunkStoreInvariant, PTL

\* RecoverNextSeq keeps the id of the active chunk fresh.
THEOREM ActiveChunkIsFresh == CSSpec => []ActiveNotAliased
<1>1. CSInv => ActiveNotAliased
  BY DEF CSInv
<1>. QED
  BY <1>1, ChunkStoreInvariant, PTL

\* Objects only ever grow, whatever fails and whenever the process restarts.
THEOREM ObjectsOnlyGrow == CSSpec => StoreAppendOnly
BY ChunkStoreInvariant, CSNextInv, PTL DEF CSSpec, StoreAppendOnly
=============================================================================
