------------------------------ MODULE ChunkStore ------------------------------
(***************************************************************************)
(* The append-only chunk store of internal/chunks/chunk_store.go.  One     *)
(* chunk is active and lives in memory; it is written to the object store  *)
(* when it overflows (sealLocked) or when a persist asks for it            *)
(* (FlushActive).  cs.mu is held through each operation, the Put included, *)
(* so every operation is one action.  A restart abandons the memory of one *)
(* session and recovers the sequence number from the object store.         *)
(*                                                                         *)
(* Objects are named by chunkID; a byte is an element of Byte.             *)
(***************************************************************************)
EXTENDS Integers, Sequences

CONSTANTS
    Byte,          \* the values a stored byte can have
    Data,          \* the payloads Append is called with
    MaxChunkSize,  \* cfg.ChunkSize
    MaxSeq         \* bound: no chunk beyond this sequence number is opened

\* The kernel sends no zero-byte write.
ASSUME DataAssumption == Data \subseteq Seq(Byte) \ {<<>>}
ASSUME MaxChunkSizeAssumption == MaxChunkSize \in Nat
ASSUME MaxSeqAssumption == MaxSeq \in Nat

VARIABLES
    store,        \* the object store: stored object ids -> bytes
    activeID,     \* id of the active chunk
    activeBuf,    \* its bytes, in memory
    activeDirty,  \* activeBuf holds bytes no Put has confirmed
    nextSeq,      \* sequence number of the next chunk to open
    appended      \* history: the bytes appended to each chunk by a live or
                  \* restarted-from session, ids -> bytes

csVars == <<store, activeID, activeBuf, activeDirty, nextSeq, appended>>

\* The name of the chunk with sequence number seq.
chunkID(seq) == <<"chunk", seq>>

ChunkIDs == {chunkID(s) : s \in 0..MaxSeq}

-----------------------------------------------------------------------------
(* The backing store *)

\* Create or replace one object.
Put(id, data) ==
    store' = [k \in DOMAIN store \cup {id} |-> IF k = id THEN data ELSE store[k]]

\* A Put that reports an error: the upload failed, or only its answer was lost.
PutError(id, data) == UNCHANGED store \/ Put(id, data)

-----------------------------------------------------------------------------
(* Sealing and appending *)

\* Give the next chunk its id and make it the active one.
OpenNext ==
    /\ nextSeq <= MaxSeq
    /\ activeID' = chunkID(nextSeq)
    /\ nextSeq' = nextSeq + 1

\* sealLocked on a non-empty buffer whose Put succeeds.
SealPut ==
    /\ activeBuf # <<>>
    /\ Put(activeID, activeBuf)
    /\ OpenNext
    /\ activeBuf' = <<>>
    /\ activeDirty' = FALSE
    /\ UNCHANGED appended

\* sealLocked on a non-empty buffer whose Put fails: the chunk stays active.
SealError ==
    /\ activeBuf # <<>>
    /\ PutError(activeID, activeBuf)
    /\ UNCHANGED <<activeID, activeBuf, activeDirty, nextSeq, appended>>

\* Seal with nothing to write: only the id is rotated.
SealEmpty ==
    /\ activeBuf = <<>>
    /\ OpenNext
    /\ UNCHANGED <<store, activeBuf, activeDirty, appended>>

Seal == SealEmpty \/ SealPut \/ SealError

Overflows(data) == Len(activeBuf) + Len(data) > MaxChunkSize

\* What Append records: the bytes of one chunk grow by data.
Record(id, data) ==
    appended' = [k \in DOMAIN appended \cup {id} |->
                    IF k # id THEN appended[k]
                    ELSE IF id \in DOMAIN appended THEN appended[id] \o data
                    ELSE data]

\* Append into the active chunk.
AppendActive(data) ==
    /\ Len(data) <= MaxChunkSize
    /\ ~Overflows(data)
    /\ activeBuf' = activeBuf \o data
    /\ activeDirty' = TRUE
    /\ Record(activeID, data)
    /\ UNCHANGED <<store, activeID, nextSeq>>

\* Append that seals the active chunk first and starts the next one.
AppendRotate(data) ==
    /\ Len(data) <= MaxChunkSize
    /\ Overflows(data)
    /\ activeBuf # <<>>
    /\ Put(activeID, activeBuf)
    /\ OpenNext
    /\ activeBuf' = data
    /\ activeDirty' = TRUE
    /\ Record(chunkID(nextSeq), data)

\* A successful Append; its extent starts at AppendOffset(data).
AppendData(data) == AppendActive(data) \/ AppendRotate(data)

\* Append that fails because sealing failed; no byte is added.
AppendError(data) ==
    /\ Len(data) <= MaxChunkSize
    /\ Overflows(data)
    /\ SealError

\* Mutant: the offset is taken before the chunk is rotated.
AppendOffsetEarly(data) == Len(activeBuf)

\* Where a successful Append puts its first byte.
AppendOffset(data) == IF Overflows(data) THEN 0 ELSE Len(activeBuf)

\* FlushActive with something to write, its Put succeeding or failing; a clean
\* buffer is left alone.
FlushActive ==
    /\ activeDirty
    /\ Put(activeID, activeBuf)
    /\ activeDirty' = FALSE
    /\ UNCHANGED <<activeID, activeBuf, nextSeq, appended>>

FlushError ==
    /\ activeDirty
    /\ PutError(activeID, activeBuf)
    /\ UNCHANGED <<activeID, activeBuf, activeDirty, nextSeq, appended>>

\* Mutant: Read prefers the stored object to the active buffer.
ContentsStoredFirst(id) == IF id \in DOMAIN store THEN store[id] ELSE activeBuf

\* What Read returns the bytes of: the buffer for the active chunk, otherwise
\* the object.
Contents(id) == IF id = activeID THEN activeBuf ELSE store[id]

-----------------------------------------------------------------------------
(* Sessions *)

StoredSeqs == {s \in 0..MaxSeq : chunkID(s) \in DOMAIN store}

\* RecoverNextSeq: n is the first sequence number above every stored chunk.
RecoverNextSeq(n) ==
    /\ \A s \in StoredSeqs : s < n
    /\ n = 0 \/ n - 1 \in StoredSeqs

\* Mutant: the new session starts with the old one's buffer.
RestartKeepsBuffer ==
    \E n \in 0..MaxSeq :
        /\ RecoverNextSeq(n)
        /\ activeID' = chunkID(n)
        /\ nextSeq' = n + 1
        /\ activeDirty' = TRUE
        /\ appended' = store
        /\ UNCHANGED <<store, activeBuf>>

\* The process ends, cleanly or not, and a new one opens the same object
\* store: NewChunkStore followed by RecoverNextSeq.  What was only in memory
\* is gone.
Restart ==
    \E n \in 0..MaxSeq :
        /\ RecoverNextSeq(n)
        /\ activeID' = chunkID(n)
        /\ nextSeq' = n + 1
        /\ activeBuf' = <<>>
        /\ activeDirty' = FALSE
        /\ appended' = store
        /\ UNCHANGED store

CSInit ==
    /\ store = [k \in {} |-> <<>>]
    /\ activeID = chunkID(0)
    /\ nextSeq = 1
    /\ activeBuf = <<>>
    /\ activeDirty = FALSE
    /\ appended = [k \in {} |-> <<>>]

CSNext ==
    \/ \E data \in Data : AppendData(data)
    \/ \E data \in Data : AppendError(data)
    \/ Seal
    \/ FlushActive
    \/ FlushError
    \/ Restart

CSSpec == CSInit /\ [][CSNext]_csVars

-----------------------------------------------------------------------------
(* Properties *)

\* Types, and that activeID always is the chunk numbered just below nextSeq.
CSTypeOK ==
    /\ DOMAIN store \subseteq ChunkIDs
    /\ store \in [DOMAIN store -> Seq(Byte)]
    /\ nextSeq \in 1..(MaxSeq + 1)
    /\ activeID = chunkID(nextSeq - 1)
    /\ activeBuf \in Seq(Byte)
    /\ activeDirty \in BOOLEAN
    /\ DOMAIN appended \subseteq ChunkIDs
    /\ appended \in [DOMAIN appended -> Seq(Byte)]

\* Every byte an Append acknowledged can be read back from where its extent
\* says, through seals, flushes and failed uploads, until the process ends;
\* what a session found in the store stays readable in the next one
\* (ChunkStore.Read).
AppendedReadable ==
    \A id \in DOMAIN appended :
        /\ id # activeID => id \in DOMAIN store
        /\ Contents(id) = appended[id]

\* FlushActive returns at once when activeDirty is false: then the store must
\* already hold every byte of the active chunk.
CleanMeansStored ==
    ~activeDirty /\ activeBuf # <<>> =>
        activeID \in DOMAIN store /\ store[activeID] = activeBuf

\* No chunk outgrows cfg.ChunkSize, in memory or in the store.
ChunkSizeBound ==
    /\ Len(activeBuf) <= MaxChunkSize
    /\ \A id \in DOMAIN store : Len(store[id]) <= MaxChunkSize

\* The id of the active chunk is fresh: whatever the store holds under it was
\* put there by this session and is the beginning of the buffer, so that
\* replacing the object loses nothing (the aliasing RecoverNextSeq prevents).
ActiveNotAliased ==
    activeID \in DOMAIN store =>
        /\ Len(store[activeID]) <= Len(activeBuf)
        /\ \A i \in 1..Len(store[activeID]) : store[activeID][i] = activeBuf[i]

\* A step never deletes an object or changes a byte an object already has: a
\* Put may only extend, in this session and after any restart.
StoreExtends ==
    \A id \in DOMAIN store :
        /\ id \in DOMAIN store'
        /\ Len(store[id]) <= Len(store'[id])
        /\ \A i \in 1..Len(store[id]) : store'[id][i] = store[id][i]

StoreAppendOnly == [][StoreExtends]_csVars
=============================================================================
