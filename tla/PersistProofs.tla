---------------------------- MODULE PersistProofs -----------------------------
(***************************************************************************)
(* What Fsync, the persists and a mount can rely on, for any number of     *)
(* writers and fsyncs and any payloads.                                    *)
(*                                                                         *)
(* The bytes, with every interleaving and kills at any moment (SyncInv): a *)
(* write is recorded only after it was appended, FlushActive stores all    *)
(* that was appended, and objects only grow.                               *)
(*                                                                         *)
(* The index, where calls do not overlap (AloneInv): a saver's snapshot is *)
(* the index, what the index refers to is stored before the index is       *)
(* uploaded, and the flag is cleared only when the two agree.              *)
(***************************************************************************)
EXTENDS Persist, ChunkStoreProofs

\* The chunk an extent points into was given its bytes by this daemon or holds
\* them since the mount.
Held(e) ==
    /\ e.id \in DOMAIN appended
    /\ e.off + Len(e.data) <= Len(appended[e.id])
    /\ \A i \in 1..Len(e.data) : appended[e.id][e.off + i] = e.data[i]

SyncTypes ==
    /\ at \in [Saver -> Places]
    /\ pending \in [Writer -> Extents \cup {None}]
    /\ here \subseteq Extents /\ synced \subseteq Extents
    /\ before \in [Syncer -> SUBSET here]

\* What has been appended is held; past its FlushActive an Fsync has all it
\* answers for in the store.
WrittenHeld ==
    /\ \A e \in here : Held(e)
    /\ \A w \in Writer : pending[w] # None => Held(pending[w])

CoveredStored ==
    \A s \in Syncer : at[s] \notin {"idle", "flush"} => \A e \in before[s] : Readable(e)

\* The inductive invariant.
SyncInv == CSInv /\ SyncTypes /\ WrittenHeld /\ CoveredStored /\ SyncedBytesStored

-----------------------------------------------------------------------------
(* The store under the steps of this module *)

\* An extent has a place and at least one byte.
LEMMA ExtentParts ==
    \A e \in Extents : e.off \in Nat /\ e.data \in Seq(Byte) /\ Len(e.data) \in Nat \ {0}
BY DataAssumption, MaxChunkSizeAssumption DEF Extents

\* What every step of a saver has in common: it goes on or returns, it records
\* no write, and it appends nothing to the chunk store.
LEMMA SaverMoves ==
    ASSUME NEW s \in Saver, SaverNext(s)
    PROVE  /\ at[s] # "idle"
           /\ (\E l \in Places : Continue(s, l)) \/ (\E ok \in BOOLEAN : Return(s, ok))
           /\ UNCHANGED <<idx, pending, appended>>
           /\ [CSNext]_csVars
<1>. USE DEF SaverNext, TakeSnapshot, OpenTmp, WriteTmp, RenameTmp, MarkClean, SaveError,
             Flush, FlushFails, IsDirty, IsRemoteDirty, Marshal, PutRaw, PutRawError,
             MarkRemoteClean
<1>1. at[s] # "idle" /\ idx' = idx /\ pending' = pending
  BY Zenon
<1>2. (\E l \in Places : Continue(s, l)) \/ (\E ok \in BOOLEAN : Return(s, ok))
  BY Zenon DEF AfterFlush, Places
<1>3. UNCHANGED csVars \/ FlushActive \/ FlushError
  BY Zenon
<1>. QED
  BY <1>1, <1>2, <1>3, Zenon DEF csVars, CSNext, FlushActive, FlushError

\* No step touches the chunk store but through its operations.
LEMMA StepIsStoreStep == [Next]_<<exclusive, vars>> => [CSNext]_csVars
<1>. SUFFICES ASSUME [Next]_<<exclusive, vars>> PROVE [CSNext]_csVars
  OBVIOUS
<1>1. CASE WriteNext
  BY <1>1 DEF WriteNext, CSAppend, AppendFails, WriteExtent, TouchAtime, CSNext
<1>2. ASSUME NEW s \in Saver, SaverNext(s) PROVE [CSNext]_csVars
  BY <1>2, SaverMoves
<1>3. CASE Mount
  BY <1>3 DEF Mount, CSNext
<1>. QED
  BY <1>1, <1>2, <1>3 DEF Next, Step, Fsync, Tick, Stop, Quiet, vars

\* What is in the store stays there.
LEMMA ReadableKept ==
    ASSUME CSInv, [CSNext]_csVars
    PROVE  CSInv' /\ \A e \in Extents : Readable(e) => Readable(e)'
<1>1. CSInv' /\ [StoreExtends]_csVars
  BY CSNextInv
<1>2. CASE StoreExtends
  <2>. SUFFICES ASSUME NEW e \in Extents, Readable(e) PROVE Readable(e)'
    BY <1>1
  <2>1. e.off \in Nat /\ Len(e.data) \in Nat
    BY ExtentParts
  <2>2. /\ e.id \in DOMAIN store'
        /\ Len(store[e.id]) <= Len(store'[e.id])
        /\ \A i \in 1..Len(store[e.id]) : store'[e.id][i] = store[e.id][i]
    BY <1>2 DEF StoreExtends, Readable
  <2>3. store[e.id] \in Seq(Byte) /\ store'[e.id] \in Seq(Byte)
    BY <1>1, <2>2 DEF CSInv, CSTypeOK, Readable
  <2>4. \A i \in 1..Len(e.data) : e.off + i \in 1..Len(store[e.id])
    BY <2>1, <2>3 DEF Readable
  <2>5. \A i \in 1..Len(e.data) : store'[e.id][e.off + i] = e.data[i]
    BY <2>2, <2>4, Zenon DEF Readable
  <2>6. e.off + Len(e.data) <= Len(store'[e.id])
    BY <2>1, <2>2, <2>3 DEF Readable
  <2>. QED
    BY <2>2, <2>5, <2>6 DEF Readable
<1>3. CASE UNCHANGED csVars
  BY <1>1, <1>3 DEF csVars, Readable
<1>. QED
  BY <1>1, <1>2, <1>3

\* Until the process ends, what was appended stays where it was put.
LEMMA HeldKept ==
    ASSUME CSInv, CSInv', (\E data \in Data : AppendData(data)) \/ UNCHANGED appended
    PROVE  \A e \in Extents : Held(e) => Held(e)'
<1>1. AppendedGrows \/ UNCHANGED appended
  BY AppendExtent, DataAssumption
<1>. SUFFICES ASSUME NEW e \in Extents, Held(e), AppendedGrows PROVE Held(e)'
  BY <1>1 DEF Held
<1>3. e.off \in Nat /\ Len(e.data) \in Nat
  BY ExtentParts
<1>4. /\ e.id \in DOMAIN appended'
      /\ Len(appended[e.id]) <= Len(appended'[e.id])
      /\ \A i \in 1..Len(appended[e.id]) : appended'[e.id][i] = appended[e.id][i]
  BY DEF AppendedGrows, Held
<1>5. appended[e.id] \in Seq(Byte) /\ appended'[e.id] \in Seq(Byte)
  BY <1>4 DEF CSInv, CSTypeOK, Held
<1>6. \A i \in 1..Len(e.data) : e.off + i \in 1..Len(appended[e.id])
  <2>1. \A a, k, m \in Nat : a + k <= m => \A i \in 1..k : a + i \in 1..m
    OBVIOUS
  <2>2. Len(appended[e.id]) \in Nat
    BY ONLY <1>5
  <2>3. e.off + Len(e.data) <= Len(appended[e.id])
    BY Zenon DEF Held
  <2>. QED
    BY ONLY <1>3, <2>1, <2>2, <2>3, Zenon
<1>7. \A i \in 1..Len(e.data) : appended'[e.id][e.off + i] = e.data[i]
  BY <1>4, <1>6 DEF Held
<1>8. e.off + Len(e.data) <= Len(appended'[e.id])
  BY <1>3, <1>4, <1>5 DEF Held
<1>. QED
  BY <1>4, <1>7, <1>8 DEF Held

\* A FlushActive that succeeds leaves nothing in memory alone.
LEMMA FlushStores ==
    ASSUME CSInv, FlushActive \/ (~activeDirty /\ UNCHANGED csVars)
    PROVE  \A e \in Extents : Held(e) => Readable(e)'
<1>1. \A id \in DOMAIN appended : id \in DOMAIN store' /\ store'[id] = appended[id]
  <2>1. CASE FlushActive
    BY <2>1, PutActive DEF FlushActive, CSInv, AppendedReadable, Contents
  <2>2. CASE ~activeDirty /\ UNCHANGED csVars
    BY <2>2 DEF csVars, CSInv, AppendedReadable, Contents, CleanMeansStored, ActiveAppended
  <2>. QED
    BY <2>1, <2>2
<1>. QED
  BY <1>1 DEF Held, Readable

-----------------------------------------------------------------------------
(* The steps of a saver *)

\* A saver goes on: only a successful FlushActive lets an Fsync past it.
LEMMA ContinueSync ==
    ASSUME SyncInv, CSInv', NEW s \in Saver, NEW l \in Places, Continue(s, l),
           UNCHANGED pending,
           \A e \in Extents : Readable(e) => Readable(e)',
           \A e \in Extents : Held(e) => Held(e)',
           \/ at[s] \notin {"idle", "flush"} \/ l \in {"idle", "flush"}
           \/ \A e \in Extents : Held(e) => Readable(e)'
    PROVE  SyncInv'
<1>1. /\ at' = [at EXCEPT ![s] = l]
      /\ UNCHANGED <<here, before, synced>>
  BY DEF Continue, Goto, history
<1>2. SyncTypes'
  BY <1>1 DEF SyncInv, SyncTypes
<1>3. WrittenHeld'
  BY <1>1 DEF SyncInv, SyncTypes, WrittenHeld
<1>4. CoveredStored'
  <2>1. \A q \in Saver : at'[q] = IF q = s THEN l ELSE at[q]
    BY <1>1 DEF SyncInv, SyncTypes
  <2>2. \A q \in Syncer : \A e \in before[q] : e \in Extents /\ Held(e)
    BY DEF SyncInv, SyncTypes, WrittenHeld
  <2>. QED
    BY <1>1, <2>1, <2>2 DEF SyncInv, CoveredStored, Saver
<1>5. SyncedBytesStored'
  BY <1>1 DEF SyncInv, SyncTypes, SyncedBytesStored
<1>. QED
  BY <1>2, <1>3, <1>4, <1>5 DEF SyncInv

\* A saver returns: an Fsync that succeeds has flushed.
LEMMA ReturnSync ==
    ASSUME SyncInv, CSInv', NEW s \in Saver, NEW ok \in BOOLEAN, Return(s, ok),
           UNCHANGED pending,
           \A e \in Extents : Readable(e) => Readable(e)',
           \A e \in Extents : Held(e) => Held(e)',
           ok => at[s] \notin {"idle", "flush"}
    PROVE  SyncInv'
<1>1. at' = [at EXCEPT ![s] = "idle"] /\ UNCHANGED here
  BY DEF Return, PersistEnd, FsyncEnd, Goto, history
<1>2. \/ UNCHANGED <<before, synced>>
      \/ /\ s \in Syncer
         /\ before' = [before EXCEPT ![s] = {}]
         /\ synced' = IF ok THEN synced \cup before[s] ELSE synced
  BY DEF Return, PersistEnd, FsyncEnd, history, Saver
<1>3. \A q \in Saver : at'[q] = IF q = s THEN "idle" ELSE at[q]
  BY <1>1 DEF SyncInv, SyncTypes
<1>4. \A q \in Syncer : before'[q] \subseteq before[q] /\ before[q] \subseteq Extents
  BY <1>2 DEF SyncInv, SyncTypes
<1>5. \A e \in synced' : e \in Extents /\ Readable(e)'
  BY <1>2, <1>4 DEF SyncInv, SyncTypes, CoveredStored, SyncedBytesStored
<1>6. SyncTypes'
  BY <1>1, <1>2, <1>5 DEF SyncInv, SyncTypes, Places
<1>7. WrittenHeld'
  BY <1>1 DEF SyncInv, SyncTypes, WrittenHeld
<1>8. CoveredStored'
  BY <1>3, <1>4 DEF SyncInv, CoveredStored, Saver
<1>. QED
  BY <1>5, <1>6, <1>7, <1>8 DEF SyncInv, SyncedBytesStored

\* Every step of Save, of FlushActive and of the persist function.
LEMMA SaverSync ==
    ASSUME SyncInv, CSInv', NEW s \in Saver, SaverNext(s),
           \A e \in Extents : Readable(e) => Readable(e)',
           \A e \in Extents : Held(e) => Held(e)'
    PROVE  SyncInv'
<1>. USE DEF Places
<1>1. CASE TakeSnapshot(s)
  BY <1>1, ContinueSync DEF TakeSnapshot
<1>2. CASE OpenTmp(s)
  BY <1>2, ContinueSync DEF OpenTmp
<1>3. CASE WriteTmp(s)
  BY <1>3, ContinueSync DEF WriteTmp
<1>4. CASE RenameTmp(s)
  BY <1>4, ContinueSync DEF RenameTmp
<1>5. CASE MarkClean(s)
  BY <1>5, ContinueSync, ReturnSync, Zenon DEF MarkClean
<1>6. CASE SaveError(s)
  BY <1>6, ReturnSync, Zenon DEF SaveError
<1>7. CASE Flush(s)
  <2>1. AfterFlush(s) \in Places
    BY DEF AfterFlush
  <2>2. \A e \in Extents : Held(e) => Readable(e)'
    BY <1>7, FlushStores DEF Flush, SyncInv
  <2>. QED
    BY <1>7, <2>1, <2>2, ContinueSync DEF Flush
<1>8. CASE FlushFails(s)
  BY <1>8, ReturnSync, Zenon DEF FlushFails
<1>9. CASE IsDirty(s)
  BY <1>9, ContinueSync DEF IsDirty
<1>10. CASE IsRemoteDirty(s)
  BY <1>10, ContinueSync, ReturnSync, Zenon DEF IsRemoteDirty
<1>11. CASE Marshal(s)
  BY <1>11, ContinueSync DEF Marshal
<1>12. CASE PutRaw(s)
  BY <1>12, ContinueSync DEF PutRaw
<1>13. CASE PutRawError(s)
  BY <1>13, ReturnSync, Zenon DEF PutRawError
<1>14. CASE MarkRemoteClean(s)
  BY <1>14, ReturnSync, Zenon DEF MarkRemoteClean
<1>. QED
  BY <1>1, <1>2, <1>3, <1>4, <1>5, <1>6, <1>7, <1>8, <1>9, <1>10, <1>11, <1>12, <1>13, <1>14
     DEF SaverNext

-----------------------------------------------------------------------------
(* The other steps *)

\* A write is held from its Append on.
LEMMA AppendSync ==
    ASSUME SyncInv, CSInv', NEW w \in Writer, NEW data \in Data, CSAppend(w, data),
           \A e \in Extents : Readable(e) => Readable(e)',
           \A e \in Extents : Held(e) => Held(e)'
    PROVE  SyncInv'
<1>. DEFINE new == [id |-> activeID', off |-> AppendOffset(data), data |-> data]
<1>1. /\ pending' = [pending EXCEPT ![w] = new]
      /\ UNCHANGED <<at, here, before, synced>>
  BY DEF CSAppend, saver, history
<1>2. /\ activeID' \in DOMAIN appended' /\ AppendOffset(data) \in Nat
      /\ AppendOffset(data) + Len(data) <= Len(appended'[activeID'])
      /\ \A i \in 1..Len(data) : appended'[activeID'][AppendOffset(data) + i] = data[i]
  BY AppendExtent, DataAssumption DEF CSAppend, SyncInv
<1>3. new \in Extents
  <2>1. activeID' \in ChunkIDs /\ appended'[activeID'] \in Seq(Byte)
    BY <1>2 DEF CSInv, CSTypeOK
  <2>2. Len(appended'[activeID']) <= MaxChunkSize
    BY <1>2 DEF CSInv, AppendedReadable, Contents, ChunkSizeBound
  <2>3. Len(data) \in Nat \ {0}
    BY DataAssumption
  <2>. QED
    BY <1>2, <2>1, <2>2, <2>3, MaxChunkSizeAssumption DEF Extents
<1>4. new.id = activeID' /\ new.off = AppendOffset(data) /\ new.data = data
  OBVIOUS
<1>. HIDE DEF new
<1>5. /\ new.id \in DOMAIN appended'
      /\ new.off + Len(new.data) <= Len(appended'[new.id])
      /\ \A i \in 1..Len(new.data) : appended'[new.id][new.off + i] = new.data[i]
  BY <1>2, <1>4
<1>6. SyncTypes'
  BY <1>1, <1>3, Zenon DEF SyncInv, SyncTypes
<1>7. WrittenHeld'
  <2>1. \A q \in Writer : pending'[q] = IF q = w THEN new ELSE pending[q]
    BY <1>1 DEF SyncInv, SyncTypes
  <2>2. \A q \in Writer : pending[q] # None => pending[q] \in Extents
    BY DEF SyncInv, SyncTypes
  <2>3. \A e : e = new => Held(e)'
    BY <1>5 DEF Held
  <2>4. \A e \in here' : Held(e)'
    BY <1>1, Zenon DEF SyncInv, SyncTypes, WrittenHeld
  <2>5. ASSUME NEW q \in Writer, pending'[q] # None PROVE \A e : e = pending'[q] => Held(e)'
    <3>1. CASE q = w
      BY <2>1, <2>3, <3>1, Zenon
    <3>2. CASE q # w
      <4>1. pending'[q] = pending[q] /\ pending[q] \in Extents /\ Held(pending[q])
        BY <2>1, <2>2, <2>5, <3>2, Zenon DEF SyncInv, WrittenHeld
      <4>. QED
        BY <1>1, <4>1, Zenon
    <3>. QED
      BY <3>1, <3>2, Zenon
  <2>. QED
    BY <2>4, <2>5 DEF WrittenHeld, Held
<1>8. CoveredStored' /\ SyncedBytesStored'
  BY <1>1 DEF SyncInv, SyncTypes, CoveredStored, SyncedBytesStored
<1>. QED
  BY <1>6, <1>7, <1>8 DEF SyncInv

\* Every step keeps the invariant; a mount keeps what Fsync has answered for.
LEMMA SyncStep == SyncInv /\ [Next]_<<exclusive, vars>> => SyncInv'
<1>. SUFFICES ASSUME SyncInv, [Next]_<<exclusive, vars>> PROVE SyncInv'
  OBVIOUS
<1>1. [CSNext]_csVars /\ CSInv
  BY StepIsStoreStep DEF SyncInv
<1>2. CSInv' /\ \A e \in Extents : Readable(e) => Readable(e)'
  BY <1>1, ReadableKept
<1>3. CASE Mount
  <2>1. /\ pending' = [w \in Writer |-> None] /\ at' = [s \in Saver |-> "idle"]
        /\ before' = [s \in Syncer |-> {}] /\ here' = {} /\ synced' = synced
    BY <1>3 DEF Mount
  <2>2. SyncTypes' /\ WrittenHeld' /\ CoveredStored'
    BY <2>1 DEF SyncInv, SyncTypes, WrittenHeld, CoveredStored, Saver, Places
  <2>. QED
    BY <1>2, <2>1, <2>2 DEF SyncInv, SyncTypes, SyncedBytesStored
<1>4. ASSUME UNCHANGED <<csVars, at, pending, here, before, synced>> PROVE SyncInv'
  <2>1. \A e \in Extents : Held(e) => Held(e)'
    BY <1>4 DEF csVars, Held
  <2>. QED
    BY <1>2, <1>4, <2>1
       DEF SyncInv, SyncTypes, WrittenHeld, CoveredStored, SyncedBytesStored
<1>5. ASSUME NEW s \in Saver, SaverNext(s) PROVE SyncInv'
  BY <1>1, <1>2, <1>5, SaverMoves, HeldKept, SaverSync
<1>6. ASSUME NEW w \in Writer, NEW data \in Data, CSAppend(w, data) PROVE SyncInv'
  BY <1>1, <1>2, <1>6, HeldKept, AppendSync, Zenon DEF CSAppend
<1>7. ASSUME NEW data \in Data, AppendFails(data) PROVE SyncInv'
  <2>1. UNCHANGED <<appended, at, pending, here, before, synced>>
    BY <1>7 DEF AppendFails, AppendError, SealError, saver, history
  <2>2. \A e \in Extents : Held(e) => Held(e)'
    BY <1>1, <1>2, <2>1, HeldKept
  <2>. QED
    BY <1>2, <2>1, <2>2
       DEF SyncInv, SyncTypes, WrittenHeld, CoveredStored, SyncedBytesStored
<1>8. ASSUME NEW w \in Writer, WriteExtent(w) PROVE SyncInv'
  <2>1. /\ pending[w] # None /\ pending' = [pending EXCEPT ![w] = None]
        /\ here' = here \cup {pending[w]}
        /\ UNCHANGED <<csVars, at, before, synced>>
    BY <1>8 DEF WriteExtent, saver
  <2>2. \A e \in Extents : (Held(e) <=> Held(e)') /\ (Readable(e) <=> Readable(e)')
    BY <2>1 DEF csVars, Held, Readable
  <2>3. SyncTypes'
    BY <2>1 DEF SyncInv, SyncTypes
  <2>4. WrittenHeld'
    BY <2>1, <2>2 DEF SyncInv, SyncTypes, WrittenHeld
  <2>. QED
    BY <1>2, <2>1, <2>2, <2>3, <2>4 DEF SyncInv, SyncTypes, CoveredStored, SyncedBytesStored
<1>9. ASSUME NEW s \in Syncer, Fsync(s) PROVE SyncInv'
  <2>1. /\ before' = [before EXCEPT ![s] = here] /\ at' = [at EXCEPT ![s] = "flush"]
        /\ UNCHANGED <<csVars, pending, here, synced>>
    BY <1>9 DEF Fsync, Goto
  <2>2. \A q \in Syncer : q # s => before'[q] = before[q] /\ at'[q] = at[q]
    BY <2>1 DEF SyncInv, SyncTypes, Saver
  <2>3. at'[s] = "flush"
    BY <2>1 DEF SyncInv, SyncTypes, Saver
  <2>4. \A e \in Extents : (Held(e) <=> Held(e)') /\ (Readable(e) <=> Readable(e)')
    BY <2>1 DEF csVars, Held, Readable
  <2>5. SyncTypes'
    BY <2>1, Zenon DEF SyncInv, SyncTypes, Places
  <2>6. WrittenHeld' /\ CoveredStored'
    BY <2>1, <2>2, <2>3, <2>4 DEF SyncInv, SyncTypes, WrittenHeld, CoveredStored
  <2>. QED
    BY <1>2, <2>1, <2>4, <2>5, <2>6 DEF SyncInv, SyncTypes, SyncedBytesStored
<1>10. CASE Tick \/ Stop
  <2>1. /\ \E p \in Persister : at' = [at EXCEPT ![p] = "isDirty"]
        /\ UNCHANGED <<csVars, pending, here, before, synced>>
    BY <1>10 DEF Tick, Stop, Goto, Persister, history
  <2>2. \A q \in Syncer : at'[q] = at[q]
    BY <2>1, SyncerAssumption DEF SyncInv, SyncTypes, Saver
  <2>3. \A e \in Extents : (Held(e) <=> Held(e)') /\ (Readable(e) <=> Readable(e)')
    BY <2>1 DEF csVars, Held, Readable
  <2>4. SyncTypes'
    BY <2>1, Zenon DEF SyncInv, SyncTypes, Places
  <2>. QED
    BY <1>2, <2>1, <2>2, <2>3, <2>4
       DEF SyncInv, SyncTypes, WrittenHeld, CoveredStored, SyncedBytesStored
<1>. QED
  BY <1>3, <1>4, <1>5, <1>6, <1>7, <1>8, <1>9, <1>10
     DEF Next, Step, WriteNext, TouchAtime, Quiet, vars, saver, history

\* The first mount.
LEMMA SyncInit == Init => SyncInv
<1>. SUFFICES ASSUME Init PROVE SyncInv
  OBVIOUS
<1>1. CSInv
  BY CSInitInv DEF Init
<1>2. SyncTypes /\ WrittenHeld /\ CoveredStored /\ SyncedBytesStored
  BY DEF Init, SyncTypes, WrittenHeld, CoveredStored, SyncedBytesStored, Saver, Places
<1>. QED
  BY <1>1, <1>2 DEF SyncInv

\* SyncedBytesStored, for any writers, fsyncs and payloads, with every
\* interleaving and kills at any moment: the bytes a successful Fsync covered
\* are in the object store for good.
THEOREM FsyncedBytesStored == Spec => []SyncedBytesStored
<1>1. SyncInv => SyncedBytesStored
  BY DEF SyncInv
<1>. QED
  BY <1>1, SyncInit, SyncStep, PTL DEF Spec

-----------------------------------------------------------------------------
(* The index in its three forms: types and the wire format *)

\* What the wire form of an extent can be, and what a file can hold.
Wires == [seq : 0..MaxSeq, off : 0..(MaxChunkSize - 1), data : Data]
Files == [kind : {"snapshot", "none", "empty", "mixed"}, exts : SUBSET Wires]

\* Fsync has no part in what the persist function does remotely.
FsyncPlaces == {"idle", "flush", "snapshot", "open", "write", "rename", "clean"}
\* Types; and this daemon has recorded nothing that is not in its index.
PersistTypes ==
    /\ idx \subseteq Extents /\ here \subseteq idx
    /\ tmp \in Files /\ local \in Files /\ remote \in Files
    /\ fd \in [Saver -> {"none", "tmp", "local"}]
    /\ snap \in [Saver -> SUBSET Extents]
    /\ phase \in {"up", "stopping", "stopped", "failed"}
    /\ dirty \in BOOLEAN /\ remoteDirty \in BOOLEAN
    /\ \A s \in Syncer : at[s] \in FsyncPlaces

\* An index survives the way to the wire form and back: Marshal and Unmarshal.
LEMMA WireTrip ==
    ASSUME NEW S \in SUBSET Extents
    PROVE  Stored(S) \in Files /\ Loaded(Stored(S)) = S
<1>. DEFINE W(e) == [seq |-> parseChunkSeq(e.id), off |-> e.off, data |-> e.data]
            E(w) == [id |-> chunkID(w.seq), off |-> w.off, data |-> w.data]
<1>1. ASSUME NEW e \in Extents PROVE W(e) \in Wires /\ E(W(e)) = e
  <2>1. PICK n \in 0..MaxSeq : e.id = chunkID(n)
    BY DEF Extents, ChunkIDs
  <2>2. parseChunkSeq(e.id) = n
    BY <2>1 DEF parseChunkSeq, chunkID
  <2>3. W(e) \in Wires
    BY <2>2 DEF Wires, Extents
  <2>4. E(W(e)) = [id |-> e.id, off |-> e.off, data |-> e.data]
    BY <2>1, <2>2
  <2>5. e = [id |-> e.id, off |-> e.off, data |-> e.data]
    BY DEF Extents
  <2>. QED
    BY <2>3, <2>4, <2>5
<1>2. toWire(S) = {W(e) : e \in S} /\ fromWire(toWire(S)) = {E(w) : w \in toWire(S)}
  BY DEF toWire, fromWire
<1>. HIDE DEF W, E
<1>3. Loaded(Stored(S)) = fromWire(toWire(S)) /\ Stored(S).exts = toWire(S)
  BY DEF Loaded, Stored
<1>4. toWire(S) \subseteq Wires
  BY <1>1, <1>2
<1>5. fromWire(toWire(S)) = S
  BY <1>1, <1>2
<1>. QED
  BY <1>3, <1>4, <1>5 DEF Stored, Files

\* Whatever a file holds, what a mount makes of it are extents.
LEMMA FilesLoad ==
    /\ None \in Files /\ Empty \in Files
    /\ Loaded(None) = {}
    /\ \A S \in SUBSET Wires : Mixed(S) \in Files
    /\ \A f \in Files : f.exts \in SUBSET Wires /\ Loaded(f) \subseteq Extents
<1>1. ASSUME NEW f \in Files PROVE f.exts \in SUBSET Wires /\ Loaded(f) \subseteq Extents
  <2>1. f.exts \subseteq Wires
    BY DEF Files
  <2>2. \A w \in Wires : [id |-> chunkID(w.seq), off |-> w.off, data |-> w.data] \in Extents
    BY ChunkIDsMember DEF Wires, Extents
  <2>. QED
    BY <2>1, <2>2 DEF Loaded, fromWire
<1>2. None \in Files /\ Empty \in Files /\ \A S \in SUBSET Wires : Mixed(S) \in Files
  BY DEF None, Empty, Mixed, Files
<1>3. Loaded(None) = {}
  BY DEF Loaded, None, fromWire
<1>. QED
  BY <1>1, <1>2, <1>3

\* Writing over a file leaves something a file can hold.
LEMMA OverFile ==
    ASSUME NEW f \in Files, NEW S \in SUBSET Extents
    PROVE  Over(f, S) \in Files
BY WireTrip, FilesLoad DEF Over

\* What a saver that returns does to the phase and to the history.
LEMMA ReturnPhase ==
    ASSUME NEW s \in Saver, NEW ok \in BOOLEAN, Return(s, ok)
    PROVE  /\ at' = [at EXCEPT ![s] = "idle"] /\ here' = here
           /\ phase' = phase \/ (phase' = IF ok THEN "stopped" ELSE "failed")
           /\ synced' = synced \/ (ok /\ s \in Syncer /\ synced' = synced \cup before[s])
BY DEF Return, PersistEnd, FsyncEnd, Goto, history, Saver

\* The steps of a saver keep the types.
LEMMA SaverTypes ==
    ASSUME SyncInv, PersistTypes, NEW s \in Saver, SaverNext(s)
    PROVE  PersistTypes'
<1>1. idx' = idx /\ here' = here /\ phase' \in {"up", "stopping", "stopped", "failed"}
  BY SaverMoves, ReturnPhase DEF Continue, history, PersistTypes
<1>2. dirty' \in BOOLEAN /\ remoteDirty' \in BOOLEAN
  BY Zenon DEF SaverNext, TakeSnapshot, OpenTmp, WriteTmp, RenameTmp, MarkClean, SaveError,
                Flush, FlushFails, IsDirty, IsRemoteDirty, Marshal, PutRaw, PutRawError,
                MarkRemoteClean, PersistTypes, flags
<1>3. snap' \in [Saver -> SUBSET Extents]
  <2>1. snap' = snap \/ snap' = [snap EXCEPT ![s] = idx] \/ snap' = [snap EXCEPT ![s] = {}]
    BY Zenon DEF SaverNext, TakeSnapshot, OpenTmp, WriteTmp, RenameTmp, MarkClean, SaveError,
                Flush, FlushFails, IsDirty, IsRemoteDirty, Marshal, PutRaw, PutRawError,
                MarkRemoteClean, Drop
  <2>. QED
    BY <2>1 DEF PersistTypes
<1>4. remote' \in Files
  <2>1. remote' = remote \/ remote' = Stored(snap[s])
    BY Zenon DEF SaverNext, TakeSnapshot, OpenTmp, WriteTmp, RenameTmp, MarkClean, SaveError,
                Flush, FlushFails, IsDirty, IsRemoteDirty, Marshal, PutRaw, PutRawError,
                MarkRemoteClean
  <2>. QED
    BY <2>1, WireTrip DEF PersistTypes
<1>5. tmp' \in Files /\ local' \in Files /\ fd' \in [Saver -> {"none", "tmp", "local"}]
  <2>1. CASE OpenTmp(s)
    BY <2>1, FilesLoad DEF OpenTmp, PersistTypes
  <2>2. CASE WriteTmp(s)
    BY <2>2, OverFile DEF WriteTmp, PersistTypes
  <2>3. CASE RenameTmp(s)
    BY <2>3, FilesLoad DEF RenameTmp, PersistTypes
  <2>4. CASE SaveError(s)
    BY <2>4 DEF SaveError, PersistTypes
  <2>5. CASE UNCHANGED files
    BY <2>5 DEF files, PersistTypes
  <2>. QED
    BY <2>1, <2>2, <2>3, <2>4, <2>5, Zenon
       DEF SaverNext, TakeSnapshot, MarkClean,
           Flush, FlushFails, IsDirty, IsRemoteDirty, Marshal, PutRaw, PutRawError, MarkRemoteClean
<1>6. \A q \in Syncer : at'[q] \in FsyncPlaces
  <2>1. at \in [Saver -> Places] /\ Syncer \subseteq Saver
    BY DEF SyncInv, SyncTypes, Saver
  <2>3. \A q \in Syncer : at[q] \in FsyncPlaces
    BY DEF PersistTypes
  <2>2. s \in Syncer => s \notin Persister
    BY SyncerAssumption
  <2>4. PICK l \in Places : at' = [at EXCEPT ![s] = l] /\ (s \in Syncer => l \in FsyncPlaces)
    BY <2>2, <2>3, ReturnPhase, Zenon
       DEF SaverNext, TakeSnapshot, OpenTmp, WriteTmp, RenameTmp, MarkClean, SaveError,
           Flush, FlushFails, IsDirty, IsRemoteDirty, Marshal, PutRaw, PutRawError,
           MarkRemoteClean, AfterFlush, FsyncPlaces, Places, Continue, Goto
  <2>5. \A q \in Syncer : at'[q] = IF q = s THEN l ELSE at[q]
    BY <2>1, <2>4
  <2>. QED
    BY <2>3, <2>4, <2>5
<1>. QED
  BY <1>1, <1>2, <1>3, <1>4, <1>5, <1>6 DEF PersistTypes

\* Every step keeps the types, whatever overlaps.
LEMMA TypesStep == SyncInv /\ PersistTypes /\ [Next]_<<exclusive, vars>> => PersistTypes'
<1>. SUFFICES ASSUME SyncInv, PersistTypes, [Next]_<<exclusive, vars>> PROVE PersistTypes'
  OBVIOUS
<1>1. CASE Mount
  <2>1. /\ idx' = Loaded(remote) /\ here' = {} /\ tmp' = None /\ remote' = remote
        /\ fd' = [s \in Saver |-> "none"] /\ snap' = [s \in Saver |-> {}] /\ phase' = "up"
        /\ dirty' = FALSE /\ remoteDirty' = FALSE
        /\ local' \in {None, Stored(idx')}
        /\ \A s \in Syncer : at'[s] \in FsyncPlaces
    BY <1>1 DEF Mount, FsyncPlaces, Saver
  <2>2. idx' \in SUBSET Extents
    BY <2>1, FilesLoad DEF PersistTypes
  <2>3. local' \in Files /\ tmp' \in Files /\ remote' \in Files
    BY <2>1, <2>2, WireTrip, FilesLoad DEF PersistTypes
  <2>. QED
    BY <2>1, <2>2, <2>3, Zenon DEF PersistTypes
<1>2. ASSUME NEW w \in Writer, WriteExtent(w) PROVE PersistTypes'
  <2>1. /\ idx' = idx \cup {pending[w]} /\ here' = here \cup {pending[w]}
        /\ pending[w] \in Extents
        /\ dirty' = TRUE /\ remoteDirty' = TRUE
        /\ UNCHANGED <<tmp, local, remote, fd, snap, phase, at>>
    BY <1>2 DEF WriteExtent, files, saver, SyncInv, SyncTypes
  <2>. QED
    BY <2>1 DEF PersistTypes
<1>3. CASE /\ UNCHANGED <<idx, here, tmp, local, remote, fd, snap, remoteDirty>>
           /\ phase' \in {phase, "stopping"} /\ dirty' \in {dirty, TRUE}
           /\ at' = at \/ \E q \in Saver : \E l \in {"flush", "isDirty"} :
                           at' = [at EXCEPT ![q] = l] /\ (l = "isDirty" => q \in Persister)
  <2>1. at \in [Saver -> Places] /\ Syncer \subseteq Saver
    BY DEF SyncInv, SyncTypes, Saver
  <2>2. \A q \in Syncer : at'[q] \in FsyncPlaces
    <3>1. \A q \in Syncer : at[q] \in FsyncPlaces /\ q \notin Persister
      BY SyncerAssumption DEF PersistTypes
    <3>. QED
      BY <1>3, <2>1, <3>1 DEF FsyncPlaces
  <2>3. dirty' \in BOOLEAN /\ remoteDirty' \in BOOLEAN
    BY <1>3, Zenon DEF PersistTypes
  <2>. QED
    BY <1>3, <2>2, <2>3 DEF PersistTypes
<1>. QED
  BY <1>1, <1>2, <1>3, SaverTypes, Zenon
     DEF Next, Step, WriteNext, CSAppend, AppendFails, TouchAtime, Fsync, Tick, Stop, Quiet,
         vars, flags, files, saver, history, Goto, Saver, Persister

-----------------------------------------------------------------------------
(* Where calls do not overlap *)

\* A saver is at work only when no other is and no write is half done.
OneAtATime ==
    /\ \A s, q \in Saver : at[s] # "idle" /\ at[q] # "idle" => s = q
    /\ \A s \in Saver, w \in Writer : at[s] = "idle" \/ pending[w] = None
    /\ phase # "up" => \A w \in Writer : pending[w] = None
    /\ phase \in {"stopped", "failed"} => \A s \in Saver : at[s] = "idle"

\* Save: the snapshot is the index until it has been renamed to index.cbor.
SaveInv ==
    /\ \A s \in Saver : at[s] \in {"open", "write", "put"} => snap[s] = idx
    /\ \A s \in Saver : fd[s] = IF at[s] = "write" THEN "tmp" ELSE "none"
    /\ \A s \in Saver : at[s] = "write" => tmp = Empty
    /\ \A s \in Saver : at[s] = "rename" => tmp = Stored(idx)
    /\ \A s \in Saver : at[s] = "clean" => local = Stored(idx)
    /\ local.kind \in {"none", "snapshot"}

\* Behind FlushActive, on the way to the remote index.
Flushed == {"isRemoteDirty", "marshal", "put", "remoteClean"}

\* The persist function: what the index refers to is in memory or stored; it is
\* stored before the index is uploaded; and only an uploaded index is clean.
RemoteInv ==
    /\ \A e \in idx : Held(e)
    /\ \A e \in Loaded(remote) : Readable(e)
    /\ \A s \in Saver : at[s] \in Flushed => \A e \in idx : Readable(e)
    /\ \A s \in Saver : at[s] = "remoteClean" => Loaded(remote) = idx
    /\ remoteDirty = FALSE => Loaded(remote) = idx
    /\ phase = "stopped" => Loaded(remote) = idx

\* Fsync: what it covered is in index.cbor; a write still to be recorded was
\* covered by none.
SyncedInv ==
    /\ local.kind = "snapshot" => synced \cap here \subseteq Loaded(local)
    /\ \A w \in Writer : pending[w] # None => pending[w] \notin synced

\* The inductive invariant.
AloneInv == OneAtATime /\ SaveInv /\ RemoteInv /\ SyncedInv
PersistInv == SyncInv /\ PersistTypes /\ (exclusive => AloneInv)

\* Facts common to the steps of a saver.
LEMMA SaverAlone ==
    ASSUME PersistInv, AloneInv, NEW s \in Saver, SaverNext(s)
    PROVE  /\ OneAtATime'
           /\ \A q \in Saver \ {s} : at[q] = "idle" /\ at'[q] = "idle"
           /\ \A w \in Writer : pending[w] = None
           /\ phase # "stopped"
           /\ phase' # "stopped" \/ at'[s] = "idle"
           /\ UNCHANGED <<pending, idx, here>>
<1>1. at[s] # "idle" /\ pending' = pending /\ idx' = idx
  BY SaverMoves
<1>3. /\ at \in [Saver -> Places] /\ here' = here
      /\ \E l \in Places : at' = [at EXCEPT ![s] = l] /\ (l = "idle" \/ phase' = phase)
  BY SaverMoves, ReturnPhase DEF Continue, Goto, history, Places, PersistInv, SyncInv, SyncTypes
<1>4. \A q \in Saver \ {s} : at[q] = "idle" /\ at'[q] = "idle"
  BY <1>1, <1>3 DEF AloneInv, OneAtATime
<1>5. (\A w \in Writer : pending[w] = None) /\ phase \notin {"stopped", "failed"}
  BY <1>1 DEF AloneInv, OneAtATime
<1>6. phase' = phase \/ at'[s] = "idle"
  BY <1>3, Zenon
<1>7. OneAtATime'
  BY <1>1, <1>4, <1>5, <1>6 DEF OneAtATime
<1>. QED
  BY <1>1, <1>3, <1>4, <1>5, <1>6, <1>7

\* Save: written elsewhere, renamed whole.
LEMMA SaverSave ==
    ASSUME PersistInv, AloneInv, NEW s \in Saver, SaverNext(s)
    PROVE  SaveInv'
<1>1. /\ \A q \in Saver \ {s} : at[q] = "idle" /\ at'[q] = "idle"
      /\ idx' = idx
  BY SaverAlone
<1>2. /\ at \in [Saver -> Places] /\ snap \in [Saver -> SUBSET Extents]
      /\ fd \in [Saver -> {"none", "tmp", "local"}]
  BY DEF PersistInv, SyncInv, SyncTypes, PersistTypes
<1>3. SaveInv
  BY DEF AloneInv
<1>4. ASSUME at' = [at EXCEPT ![s] = at'[s]], snap' = [snap EXCEPT ![s] = snap'[s]],
             UNCHANGED files,
             at[s] # "write", at'[s] \notin {"open", "write", "rename", "clean"},
             at'[s] = "put" => snap'[s] = idx
      PROVE  SaveInv'
  BY <1>1, <1>2, <1>3, <1>4 DEF SaveInv, files
<1>5. CASE TakeSnapshot(s)
  BY <1>5, <1>1, <1>2, <1>3 DEF TakeSnapshot, Continue, Goto, files, SaveInv
<1>6. CASE OpenTmp(s)
  BY <1>6, <1>1, <1>2, <1>3 DEF OpenTmp, Continue, Goto, SaveInv
<1>7. CASE WriteTmp(s)
  <2>1. /\ at[s] = "write" /\ fd[s] = "tmp" /\ tmp = Empty /\ snap[s] = idx
    BY <1>7, <1>3 DEF WriteTmp, SaveInv
  <2>2. Over(Empty, idx) = Stored(idx)
    BY DEF Over, Empty
  <2>3. /\ tmp' = Stored(idx) /\ local' = local
        /\ fd' = [fd EXCEPT ![s] = "none"] /\ at' = [at EXCEPT ![s] = "rename"]
    BY <1>7, <2>1, <2>2 DEF WriteTmp, Continue, Goto
  <2>. QED
    BY <1>1, <1>2, <1>3, <2>3 DEF SaveInv
<1>8. CASE RenameTmp(s)
  <2>1. /\ tmp = Stored(idx) /\ \A q \in Saver : fd[q] = "none"
    BY <1>8, <1>1, <1>3 DEF RenameTmp, SaveInv
  <2>2. /\ local' = Stored(idx) /\ at' = [at EXCEPT ![s] = "clean"]
        /\ \A q \in Saver : fd'[q] = "none"
    BY <1>8, <2>1 DEF RenameTmp, Continue, Goto
  <2>3. local'.kind = "snapshot"
    BY <2>2, Zenon DEF Stored
  <2>. QED
    BY <1>1, <1>2, <2>2, <2>3 DEF SaveInv
<1>9. CASE SaveError(s)
  <2>1. at' = [at EXCEPT ![s] = "idle"] /\ fd' = [fd EXCEPT ![s] = "none"]
        /\ UNCHANGED <<tmp, local>>
    BY <1>9, ReturnPhase, Zenon DEF SaveError
  <2>. QED
    BY <1>1, <1>2, <1>3, <2>1 DEF SaveInv
<1>10. CASE \/ MarkClean(s) \/ IsRemoteDirty(s) \/ MarkRemoteClean(s)
            \/ PutRawError(s) \/ FlushFails(s)
  <2>1. /\ \E l \in {"idle", "flush", "marshal"} : at' = [at EXCEPT ![s] = l]
        /\ UNCHANGED files /\ at[s] # "write"
        /\ snap' = snap \/ snap' = [snap EXCEPT ![s] = {}]
    BY <1>10, ReturnPhase, Zenon
       DEF MarkClean, IsRemoteDirty, MarkRemoteClean, PutRawError, FlushFails, Continue, Goto, Drop
  <2>. QED
    BY <2>1, <1>2, <1>4
<1>11. CASE Flush(s) \/ IsDirty(s) \/ Marshal(s) \/ PutRaw(s)
  <2>1. /\ \E l \in Places \ {"open", "write", "rename", "clean"} :
               at' = [at EXCEPT ![s] = l] /\ (l = "put" => snap' = [snap EXCEPT ![s] = idx])
        /\ UNCHANGED files /\ at[s] # "write"
        /\ snap' = snap \/ snap' = [snap EXCEPT ![s] = {}] \/ snap' = [snap EXCEPT ![s] = idx]
    BY <1>11 DEF Flush, IsDirty, Marshal, PutRaw, Continue, Goto, Drop, AfterFlush, Places
  <2>. QED
    BY <2>1, <1>2, <1>4
<1>. QED
  BY <1>5, <1>6, <1>7, <1>8, <1>9, <1>10, <1>11, Zenon DEF SaverNext

\* FlushActive comes before Marshal, Marshal before the upload, and the upload
\* before remoteDirty is cleared.
LEMMA SaverRemote ==
    ASSUME PersistInv, AloneInv, NEW s \in Saver, SaverNext(s),
           \A e \in Extents : Readable(e) => Readable(e)',
           \A e \in Extents : Held(e) => Held(e)'
    PROVE  RemoteInv'
<1>1. /\ \A q \in Saver \ {s} : at[q] = "idle" /\ at'[q] = "idle"
      /\ idx' = idx /\ phase # "stopped" /\ (phase' # "stopped" \/ at'[s] = "idle")
  BY SaverAlone, Zenon
<1>2. /\ at \in [Saver -> Places] /\ snap \in [Saver -> SUBSET Extents]
      /\ idx \subseteq Extents /\ Loaded(remote) \subseteq Extents
  BY FilesLoad, Zenon DEF PersistInv, SyncInv, SyncTypes, PersistTypes
<1>3. RemoteInv /\ SaveInv
  BY DEF AloneInv
<1>4. ASSUME UNCHANGED <<remote, remoteDirty>>, at'[s] # "remoteClean",
             phase' = "stopped" => remoteDirty = FALSE,
             at'[s] \in Flushed => at[s] \in Flushed \/ \A e \in idx : Readable(e)'
      PROVE  RemoteInv'
  BY <1>1, <1>2, <1>3, <1>4 DEF RemoteInv, Flushed
<1>5. CASE TakeSnapshot(s) \/ OpenTmp(s) \/ WriteTmp(s) \/ RenameTmp(s) \/ IsDirty(s)
  <2>1. /\ UNCHANGED <<remote, remoteDirty, phase>>
        /\ \E l \in {"open", "write", "rename", "clean", "snapshot", "flush"} :
               at' = [at EXCEPT ![s] = l]
    BY <1>5 DEF TakeSnapshot, OpenTmp, WriteTmp, RenameTmp, IsDirty, Continue, Goto, flags
  <2>. QED
    BY <2>1, <1>1, <1>2, <1>4, Zenon DEF Flushed
<1>6. CASE SaveError(s) \/ FlushFails(s)
  <2>1. /\ UNCHANGED <<remote, remoteDirty>> /\ phase' # "stopped"
        /\ at' = [at EXCEPT ![s] = "idle"]
    BY <1>1, <1>6, ReturnPhase, Zenon DEF SaveError, FlushFails, flags
  <2>. QED
    BY <2>1, <1>2, <1>4, Zenon DEF Flushed
<1>7. CASE MarkClean(s)
  <2>1. /\ UNCHANGED <<remote, remoteDirty>> /\ phase' = phase
        /\ \E l \in {"idle", "flush"} : at' = [at EXCEPT ![s] = l]
    BY <1>7 DEF MarkClean, Continue, Return, FsyncEnd, Goto
  <2>. QED
    BY <2>1, <1>1, <1>2, <1>4, Zenon DEF Flushed
<1>8. CASE Flush(s)
  <2>1. \A e \in Extents : Held(e) => Readable(e)'
    BY <1>8, FlushStores DEF Flush, PersistInv, SyncInv
  <2>2. \A e \in idx : Readable(e)'
    BY <1>2, <1>3, <2>1 DEF RemoteInv
  <2>3. /\ UNCHANGED <<remote, remoteDirty>> /\ phase' = phase
        /\ at' = [at EXCEPT ![s] = AfterFlush(s)] /\ AfterFlush(s) # "remoteClean"
    BY <1>8 DEF Flush, Continue, Goto, AfterFlush, flags
  <2>. QED
    BY <2>2, <2>3, <1>1, <1>2, <1>4, Zenon
<1>9. CASE IsRemoteDirty(s)
  <2>2. remoteDirty \in BOOLEAN
    BY DEF PersistInv, PersistTypes
  <2>1. /\ UNCHANGED <<remote, remoteDirty>> /\ at[s] \in Flushed
        /\ phase' = "stopped" => remoteDirty = FALSE
        /\ \E l \in {"idle", "marshal"} : at' = [at EXCEPT ![s] = l]
    BY <1>1, <1>9, <2>2, ReturnPhase, Zenon DEF IsRemoteDirty, Continue, Goto, Flushed, flags
  <2>. QED
    BY <2>1, <1>2, <1>4, Zenon
<1>10. CASE Marshal(s)
  <2>1. /\ UNCHANGED <<remote, remoteDirty>> /\ at[s] \in Flushed
        /\ phase' = phase /\ at' = [at EXCEPT ![s] = "put"]
    BY <1>10 DEF Marshal, Continue, Goto, Flushed, flags
  <2>. QED
    BY <2>1, <1>1, <1>2, <1>4, Zenon
<1>11. CASE PutRaw(s) \/ PutRawError(s)
  <2>1. /\ remote' = remote \/ remote' = Stored(idx)
        /\ remoteDirty' = remoteDirty /\ at[s] = "put" /\ phase' # "stopped"
        /\ at' = [at EXCEPT ![s] = "idle"] \/
             (at' = [at EXCEPT ![s] = "remoteClean"] /\ remote' = Stored(idx))
    BY <1>1, <1>3, <1>11, ReturnPhase, Zenon DEF PutRaw, PutRawError, Continue, Goto, flags, SaveInv
  <2>2. Loaded(Stored(idx)) = idx
    BY <1>2, WireTrip
  <2>3. at'[s] = "idle" \/ (at'[s] = "remoteClean" /\ Loaded(remote') = idx)
    BY <1>2, <2>1, <2>2
  <2>4. \A e \in idx : Readable(e)'
    BY <1>2, <1>3, <2>1 DEF RemoteInv, Flushed
  <2>5. (Loaded(remote') = idx \/ remote' = remote)
    BY <2>1, <2>2
  <2>6. /\ \A e \in Loaded(remote') : Readable(e)'
        /\ (remoteDirty = FALSE => Loaded(remote') = idx)
    BY <1>2, <1>3, <2>4, <2>5 DEF RemoteInv
  <2>7. \A e \in idx : Held(e)'
    BY <1>2, <1>3 DEF RemoteInv
  <2>. QED
    BY <1>1, <1>3, <2>1, <2>3, <2>4, <2>6, <2>7 DEF RemoteInv, Flushed
<1>12. CASE MarkRemoteClean(s)
  <2>1. /\ remote' = remote /\ remoteDirty' = FALSE /\ at[s] = "remoteClean"
        /\ at' = [at EXCEPT ![s] = "idle"]
    BY <1>12, ReturnPhase, Zenon DEF MarkRemoteClean
  <2>2. Loaded(remote) = idx /\ at'[s] = "idle"
    BY <1>2, <1>3, <2>1 DEF RemoteInv
  <2>3. (\A e \in idx : Held(e)') /\ \A e \in idx : Readable(e)'
    BY <1>2, <1>3, <2>2 DEF RemoteInv
  <2>. QED
    BY <1>1, <1>3, <2>1, <2>2, <2>3 DEF RemoteInv, Flushed
<1>. QED
  BY <1>5, <1>6, <1>7, <1>8, <1>9, <1>10, <1>11, <1>12 DEF SaverNext

\* When Fsync answers, index.cbor is the index.
LEMMA SaverSynced ==
    ASSUME PersistInv, AloneInv, NEW s \in Saver, SaverNext(s)
    PROVE  SyncedInv'
<1>1. /\ (local' = local /\ synced' = synced) \/ local' = Stored(idx)
  <2>1. CASE RenameTmp(s)
    BY <2>1 DEF RenameTmp, AloneInv, SaveInv
  <2>6. CASE MarkClean(s)
    BY <2>6, Zenon DEF MarkClean, AloneInv, SaveInv, files
  <2>2. CASE WriteTmp(s)
    BY <2>2, Zenon DEF WriteTmp, AloneInv, SaveInv, Continue, history
  <2>3. CASE IsRemoteDirty(s) \/ MarkRemoteClean(s)
    <3>1. s \notin Syncer
      BY <2>3, Zenon DEF IsRemoteDirty, MarkRemoteClean, PersistInv, PersistTypes, FsyncPlaces
    <3>. QED
      BY <2>3, <3>1, ReturnPhase, Zenon DEF IsRemoteDirty, MarkRemoteClean, Continue, history, files
  <2>4. CASE SaveError(s) \/ FlushFails(s) \/ PutRawError(s)
    BY <2>4, ReturnPhase, Zenon DEF SaveError, FlushFails, PutRawError, files
  <2>5. CASE TakeSnapshot(s) \/ OpenTmp(s) \/ Flush(s) \/ IsDirty(s) \/ Marshal(s) \/ PutRaw(s)
    BY <2>5 DEF TakeSnapshot, OpenTmp, Flush, IsDirty, Marshal, PutRaw, Continue, history, files
  <2>. QED
    BY <2>1, <2>2, <2>3, <2>4, <2>5, <2>6 DEF SaverNext
<1>2. (\A w \in Writer : pending[w] = None) /\ UNCHANGED <<pending, here>>
  BY SaverAlone
<1>3. Loaded(Stored(idx)) = idx /\ here \subseteq idx
  BY WireTrip DEF PersistInv, PersistTypes
<1>. QED
  BY <1>1, <1>2, <1>3 DEF AloneInv, SyncedInv

\* A saver that begins, and steps that touch neither index nor files.
LEMMA BeginAlone ==
    ASSUME PersistInv, AloneInv,
           \A e \in Extents : Readable(e) => Readable(e)',
           \A e \in Extents : Held(e) => Held(e)',
           UNCHANGED <<idx, remoteDirty, tmp, local, fd, remote, pending, snap, here, synced>>,
           \/ UNCHANGED <<at, phase>>
           \/ /\ Idle /\ phase = "up" /\ phase' \in {"up", "stopping"}
              /\ \E s \in Saver, l \in {"flush", "isDirty"} : at' = [at EXCEPT ![s] = l]
    PROVE  AloneInv'
<1>1. idx \subseteq Extents /\ Loaded(remote) \subseteq Extents /\ at \in [Saver -> Places]
  BY FilesLoad, Zenon DEF PersistInv, PersistTypes, SyncInv, SyncTypes
<1>2. SyncedInv'
  BY DEF AloneInv, SyncedInv
<1>3. CASE UNCHANGED <<at, phase>>
  <2>1. OneAtATime' /\ SaveInv'
    BY <1>3 DEF AloneInv, OneAtATime, SaveInv
  <2>2. RemoteInv'
    BY <1>1, <1>3 DEF AloneInv, RemoteInv
  <2>. QED
    BY <1>2, <2>1, <2>2, Zenon DEF AloneInv
<1>4. CASE /\ Idle /\ phase = "up" /\ phase' \in {"up", "stopping"}
           /\ \E s \in Saver, l \in {"flush", "isDirty"} : at' = [at EXCEPT ![s] = l]
  <2>1. PICK s \in Saver, l \in {"flush", "isDirty"} : at' = [at EXCEPT ![s] = l]
    BY <1>4, Zenon
  <2>2. \A q \in Saver : at[q] = "idle" /\ at'[q] = IF q = s THEN l ELSE "idle"
    BY <1>1, <1>4, <2>1 DEF Idle
  <2>3. \A w \in Writer : pending[w] = None
    BY <1>4 DEF Idle
  <2>4. OneAtATime'
    BY <1>4, <2>2, <2>3 DEF OneAtATime
  <2>5. SaveInv'
    BY <2>2 DEF AloneInv, SaveInv
  <2>6. RemoteInv'
    BY <1>1, <1>4, <2>2 DEF AloneInv, RemoteInv, Flushed
  <2>. QED
    BY <1>2, <2>4, <2>5, <2>6 DEF AloneInv
<1>. QED
  BY <1>3, <1>4

\* Append hands out a place no Fsync has covered: it lies behind all that is stored.
LEMMA AppendAlone ==
    ASSUME PersistInv, CSInv', AloneInv, exclusive,
           NEW w \in Writer, NEW data \in Data, CSAppend(w, data),
           \A e \in Extents : Readable(e) => Readable(e)',
           \A e \in Extents : Held(e) => Held(e)'
    PROVE  AloneInv'
<1>. DEFINE new == [id |-> activeID', off |-> AppendOffset(data), data |-> data]
<1>1. /\ pending' = [pending EXCEPT ![w] = new] /\ phase = "up" /\ Idle /\ AppendData(data)
      /\ UNCHANGED <<idx, remoteDirty, tmp, local, fd, remote, at, snap, phase, here, synced>>
  BY DEF CSAppend, MayBegin, flags, files, saver, history
<1>2. idx \subseteq Extents /\ Loaded(remote) \subseteq Extents
  BY FilesLoad, Zenon DEF PersistInv, PersistTypes
<1>3. new \notin synced
  <2>. SUFFICES ASSUME Readable(new) PROVE FALSE
    BY DEF PersistInv, SyncInv, SyncedBytesStored
  <2>1. Len(data) \in Nat \ {0}
    BY DataAssumption
  <2>2. activeID' \in DOMAIN store /\ AppendOffset(data) + Len(data) <= Len(store[activeID'])
    BY DEF Readable
  <2>3. CASE AppendActive(data)
    <3>1. activeID' = activeID /\ AppendOffset(data) = Len(activeBuf)
      BY <2>3, Zenon DEF AppendActive, AppendOffset
    <3>2. /\ Len(store[activeID]) <= Len(activeBuf)
          /\ Len(store[activeID]) \in Nat /\ Len(activeBuf) \in Nat
      BY <2>2, <3>1 DEF PersistInv, SyncInv, CSInv, CSTypeOK, ActiveNotAliased
    <3>3. Len(activeBuf) + Len(data) <= Len(store[activeID])
      BY <2>2, <3>1, Zenon
    <3>. QED
      BY <2>1, <3>2, <3>3
  <2>4. CASE AppendRotate(data)
    BY <2>2, <2>4, NextIsFresh, Zenon DEF AppendRotate, OpenNext, PersistInv, SyncInv
  <2>. QED
    BY <1>1, <2>3, <2>4 DEF AppendData
<1>. HIDE DEF new
<1>4. OneAtATime'
  BY <1>1 DEF OneAtATime, Idle
<1>5. SaveInv'
  BY <1>1, Zenon DEF AloneInv, SaveInv
<1>6. RemoteInv'
  BY <1>1, <1>2 DEF AloneInv, RemoteInv
<1>7. SyncedInv'
  BY <1>1, <1>3 DEF AloneInv, SyncedInv, PersistInv, SyncInv, SyncTypes
<1>. QED
  BY <1>4, <1>5, <1>6, <1>7 DEF AloneInv

\* WriteExtent finds no saver at work.
LEMMA WriteAlone ==
    ASSUME PersistInv, AloneInv, NEW w \in Writer, WriteExtent(w)
    PROVE  AloneInv'
<1>1. /\ pending[w] # None /\ pending' = [pending EXCEPT ![w] = None]
      /\ idx' = idx \cup {pending[w]} /\ here' = here \cup {pending[w]}
      /\ remoteDirty' = TRUE
      /\ UNCHANGED <<csVars, tmp, local, fd, remote, at, snap, phase, synced>>
  BY DEF WriteExtent, files, saver
<1>2. phase = "up" /\ \A s \in Saver : at[s] = "idle"
  BY <1>1 DEF AloneInv, OneAtATime, PersistInv, PersistTypes
<1>3. \A e : (Held(e) <=> Held(e)') /\ (Readable(e) <=> Readable(e)')
  BY <1>1, Zenon DEF csVars, Held, Readable
<1>4. \A e \in idx' : Held(e)
  BY <1>1, Zenon DEF AloneInv, RemoteInv, PersistInv, SyncInv, WrittenHeld
<1>5. OneAtATime'
  BY <1>1, <1>2, Zenon DEF OneAtATime
<1>6. SaveInv'
  BY <1>1, <1>2, Zenon DEF AloneInv, SaveInv
<1>7. RemoteInv'
  BY <1>1, <1>2, <1>3, <1>4, Zenon DEF AloneInv, RemoteInv, Flushed
<1>8. SyncedInv'
  BY <1>1, Zenon DEF AloneInv, SyncedInv, PersistInv, SyncInv, SyncTypes
<1>. QED
  BY <1>5, <1>6, <1>7, <1>8 DEF AloneInv

\* A mount takes over the remote index; what that refers to is in the store.
LEMMA MountAlone ==
    ASSUME PersistInv, AloneInv, Mount
    PROVE  AloneInv'
<1>1. /\ idx' = Loaded(remote) /\ here' = {} /\ remote' = remote
      /\ fd' = [s \in Saver |-> "none"] /\ at' = [s \in Saver |-> "idle"] /\ phase' = "up"
      /\ pending' = [v \in Writer |-> None]
      /\ appended' = store /\ store' = store
      /\ local' \in {None, Stored(idx')}
  BY Zenon DEF Mount, Restart
<1>2. local'.kind \in {"none", "snapshot"}
  <2>1. None.kind = "none" /\ \A i : Stored(i).kind = "snapshot"
    BY ONLY TRUE DEF None, Stored
  <2>2. local' = None \/ local' = Stored(idx')
    BY <1>1, Zenon
  <2>. QED
    BY <2>1, <2>2, Zenon
<1>3. \A e \in Loaded(remote) : Held(e)' /\ Readable(e)'
  BY <1>1, Zenon DEF AloneInv, RemoteInv, Held, Readable
<1>4. RemoteInv'
  BY <1>1, <1>3 DEF AloneInv, RemoteInv, Flushed
<1>. QED
  BY <1>1, <1>2, <1>4, Zenon DEF AloneInv, OneAtATime, SaveInv, SyncedInv

\* Every step keeps the invariant.
LEMMA PersistStep == PersistInv /\ [Next]_<<exclusive, vars>> => PersistInv'
<1>. SUFFICES ASSUME PersistInv, [Next]_<<exclusive, vars>> PROVE PersistInv'
  OBVIOUS
<1>1. SyncInv' /\ PersistTypes'
  BY SyncStep, TypesStep DEF PersistInv
<1>2. exclusive' = exclusive
  BY DEF Next
<1>. SUFFICES ASSUME exclusive, AloneInv PROVE AloneInv'
  BY <1>1, <1>2 DEF PersistInv
<1>3. CSInv /\ CSInv' /\ [CSNext]_csVars
  BY <1>1, StepIsStoreStep, Zenon DEF PersistInv, SyncInv
<1>4. \A e \in Extents : Readable(e) => Readable(e)'
  BY <1>3, ReadableKept
<1>5. ((\E data \in Data : AppendData(data)) \/ UNCHANGED appended) =>
         \A e \in Extents : Held(e) => Held(e)'
  BY <1>3, HeldKept
<1>6. ASSUME NEW s \in Saver, SaverNext(s) PROVE AloneInv'
  BY <1>4, <1>5, <1>6, SaverMoves, SaverAlone, SaverSave, SaverRemote, SaverSynced, Zenon
     DEF AloneInv
<1>7. ASSUME NEW w \in Writer, NEW data \in Data, CSAppend(w, data) PROVE AloneInv'
  BY <1>3, <1>4, <1>5, <1>7, AppendAlone, Zenon DEF CSAppend
<1>8. ASSUME NEW data \in Data, AppendFails(data) PROVE AloneInv'
  <2>1. UNCHANGED <<appended, at, phase, idx, remoteDirty, tmp, local, fd, remote, pending,
                    snap, here, synced>>
    BY <1>8 DEF AppendFails, AppendError, SealError, saver, history, flags, files
  <2>. QED
    BY <1>4, <1>5, <2>1, BeginAlone
<1>9. CASE \/ TouchAtime \/ Tick \/ Stop \/ Quiet \/ UNCHANGED <<exclusive, vars>>
           \/ \E s \in Syncer : Fsync(s)
  <2>1. UNCHANGED <<appended, idx, remoteDirty, tmp, local, fd, remote, pending, snap, here,
                    synced>>
    BY <1>9, Zenon
       DEF TouchAtime, Tick, Stop, Quiet, Fsync, vars, csVars, saver, history, flags, files
  <2>2. \/ UNCHANGED <<at, phase>>
        \/ /\ Idle /\ phase = "up" /\ phase' \in {"up", "stopping"}
           /\ \E s \in Saver, l \in {"flush", "isDirty"} : at' = [at EXCEPT ![s] = l]
    BY <1>9, Zenon
       DEF TouchAtime, Tick, Stop, Quiet, Fsync, vars, saver, Goto, Saver, Persister, MayBegin
  <2>. QED
    BY <1>4, <1>5, <2>1, <2>2, BeginAlone
<1>. QED
  BY <1>6, <1>7, <1>8, <1>9, WriteAlone, MountAlone, Zenon DEF Next, Step, WriteNext

\* The first mount of a new file system satisfies the invariant.
LEMMA PersistInit == Init => PersistInv
<1>. SUFFICES ASSUME Init PROVE PersistInv
  OBVIOUS
<1>1. SyncInv
  BY SyncInit
<1>2. PersistTypes
  BY FilesLoad, Zenon DEF Init, PersistTypes, Saver, FsyncPlaces
<1>3. local.kind \in {"none", "snapshot"}
  BY DEF Init, None
<1>4. OneAtATime /\ SaveInv
  BY <1>3, Zenon DEF Init, OneAtATime, SaveInv
<1>5. RemoteInv
  BY FilesLoad DEF Init, RemoteInv, Flushed
<1>6. SyncedInv
  BY DEF Init, SyncedInv
<1>. QED
  BY <1>1, <1>2, <1>4, <1>5, <1>6 DEF PersistInv, AloneInv

-----------------------------------------------------------------------------
(* The theorems *)

\* The invariant holds in every reachable state.
THEOREM PersistInvariant == Spec => []PersistInv
BY PersistInit, PersistStep, PTL DEF Spec

\* The variables keep their types, whatever overlaps.
THEOREM PersistTyped == Spec => []PersistTypeOK
<1>1. PersistInv => PersistTypeOK
  <2>. SUFFICES ASSUME PersistInv PROVE PersistTypeOK
    OBVIOUS
  <2>1. CSTypeOK /\ synced \subseteq Extents /\ idx \subseteq Extents
    BY DEF PersistInv, SyncInv, SyncTypes, CSInv, PersistTypes
  <2>2. {dirty, remoteDirty} \subseteq BOOLEAN
    BY DEF PersistInv, PersistTypes
  <2>3. \A f \in {tmp, local, remote} : f.kind \in {"snapshot", "none", "empty", "mixed"}
                                      /\ Loaded(f) \subseteq Extents
    <3>1. \A f \in Files : f.kind \in {"snapshot", "none", "empty", "mixed"}
      BY DEF Files
    <3>. QED
      BY <3>1, FilesLoad DEF PersistInv, PersistTypes
  <2>4. \A s \in Saver : at[s] \in Places /\ fd[s] \in {"none", "tmp", "local"}
    BY DEF PersistInv, SyncInv, SyncTypes, PersistTypes
  <2>. QED
    BY <2>1, <2>2, <2>3, <2>4 DEF PersistTypeOK, PersistInv, PersistTypes
<1>. QED
  BY <1>1, PersistInvariant, PTL

\* Where calls do not overlap, a mount after a kill at any moment finds in the
\* store all that the remote index refers to, with the bytes that were written
\* (the ordering of buildPersistFn).
THEOREM RemoteIndexConsistent == Spec => []RemoteConsistent
<1>1. PersistInv => RemoteConsistent
  BY DEF PersistInv, AloneInv, RemoteInv, RemoteConsistent
<1>. QED
  BY <1>1, PersistInvariant, PTL

\* Where calls do not overlap, a daemon that ends after a successful final persist
\* leaves its whole index behind (the dirty flags and the final persist).
THEOREM UnmountLosesNothing == Spec => []AloneUnmountComplete
<1>1. PersistInv => AloneUnmountComplete
  BY DEF PersistInv, AloneInv, RemoteInv, AloneUnmountComplete, UnmountComplete
<1>. QED
  BY <1>1, PersistInvariant, PTL

\* Where calls do not overlap, index.cbor is never a part of a snapshot
\* (Save writes to another file and renames it).
THEOREM LocalIndexWhole == Spec => []LocalNeverPartial
<1>1. PersistInv => LocalNeverPartial
  BY DEF PersistInv, AloneInv, SaveInv, LocalNeverPartial
<1>. QED
  BY <1>1, PersistInvariant, PTL

\* Where calls do not overlap, no Save brings back an index without the extents
\* that a successful Fsync of the same daemon covered.
THEOREM FsyncedInLocalIndex == Spec => []SyncedInLocal
<1>1. PersistInv => SyncedInLocal
  BY DEF PersistInv, AloneInv, SyncedInv, SyncedInLocal
<1>. QED
  BY <1>1, PersistInvariant, PTL
=============================================================================
