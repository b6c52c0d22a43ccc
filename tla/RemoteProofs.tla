----------------------------- MODULE RemoteProofs -----------------------------
(***************************************************************************)
(* What reaches the object storage, for every value of the constants.      *)
(*                                                                         *)
(* The chunks: the store whose Puts are loops of requests implements the   *)
(* chunk store, and the chunk store implements the append-only log.        *)
(*                                                                         *)
(* The index object, handed over from daemon to daemon: a daemon that has  *)
(* not reported yet has a waiting parent, one that has reported has a PID  *)
(* file until its final persist is done, and whoever heeds both starts no  *)
(* second one.                                                             *)
(***************************************************************************)
EXTENDS BrokerStore, Mount, ChunkStoreProofs

-----------------------------------------------------------------------------
(* BrokerStore implements ChunkStore *)

\* What the operation that holds cs.mu may rely on until its Put returns:
\* nothing it checked before the call has changed, and once the storage has
\* taken the upload the object is the buffer.
CallInv ==
    /\ CSInv
    /\ phase \in {"url", "sent", "stored", "wait"} <=> op # "none"
    /\ op = "flush" => activeDirty
    /\ op \in {"seal", "append"} => activeBuf # <<>>
    /\ op = "append" => arg \in Data /\ Len(arg) <= MaxChunkSize /\ Overflows(arg)
    /\ op \in {"none", "flush", "seal", "append"}
    /\ late => op # "none"
    /\ phase = "stored" => activeID \in DOMAIN store /\ store[activeID] = activeBuf

\* The variables of the chunk store that an upload leaves alone.
SessionVars == <<activeID, activeBuf, activeDirty, nextSeq, appended>>

\* An upload that arrives is the failed Put of the operation that waits for it.
LEMMA ArrivalIsStep ==
    ASSUME CallInv, op # "none", Put(activeID, activeBuf), UNCHANGED SessionVars
    PROVE  CSNext
<1>. USE DEF SessionVars
<1>1. CASE op = "flush"
  BY <1>1 DEF CallInv, CSNext, FlushError, PutError
<1>2. CASE op = "seal"
  BY <1>2 DEF CallInv, CSNext, Seal, SealError, PutError
<1>3. CASE op = "append"
  BY <1>3 DEF CallInv, CSNext, AppendError, SealError, PutError
<1>. QED
  BY <1>1, <1>2, <1>3 DEF CallInv

\* An upload that is confirmed changes nothing more in the store.
LEMMA StoredIsPut ==
    ASSUME CallInv, phase = "stored", UNCHANGED store
    PROVE  Put(activeID, activeBuf)
BY Zenon DEF CallInv, CSInv, CSTypeOK, Put

\* What is done when the answer arrives is the operation with a successful Put.
LEMMA FinishIsStep ==
    ASSUME CallInv, PutOK
    PROVE  CSNext
<1>1. Put(activeID, activeBuf) /\ Finish
  BY StoredIsPut DEF PutOK
<1>2. CASE op = "flush"
  BY <1>1, <1>2 DEF CallInv, Finish, CSNext, FlushActive
<1>3. CASE op = "seal"
  BY <1>1, <1>3 DEF CallInv, Finish, CSNext, Seal, SealPut
<1>4. CASE op = "append"
  BY <1>1, <1>4 DEF CallInv, Finish, CSNext, AppendData, AppendRotate
<1>. QED
  BY <1>1, <1>2, <1>3, <1>4 DEF Finish

\* Every step of the store with its requests is a step of the chunk store or
\* leaves the chunk store as it is.
LEMMA BrokerStepIsStep ==
    ASSUME CallInv, BrokerNext
    PROVE  CSNext \/ UNCHANGED csVars
<1>1. CASE NoPut
  BY <1>1 DEF NoPut, CSNext, Seal, AppendData
<1>2. CASE StoragePut
  BY <1>2, ArrivalIsStep DEF StoragePut, CallInv, SessionVars
<1>3. CASE LateArrival
  BY <1>3, ArrivalIsStep DEF LateArrival, CallInv, SessionVars
<1>4. CASE PutOK
  BY <1>4, FinishIsStep
<1>5. CASE Killed
  BY <1>5 DEF Killed, CSNext
<1>6. CASE BeginFlush \/ BeginSeal \/ \E data \in Data : BeginAppend(data)
  BY <1>6 DEF BeginFlush, BeginSeal, BeginAppend, Begin
<1>7. CASE URLGranted \/ URLFailed \/ Refused \/ StorageFailed \/ NoAnswer \/ Retry \/ Cancelled
  BY <1>7 DEF URLGranted, URLFailed, Refused, StorageFailed, NoAnswer, Retry, Cancelled
<1>. QED
  BY <1>1, <1>2, <1>3, <1>4, <1>5, <1>6, <1>7 DEF BrokerNext, CallStep

\* A call under way is not disturbed: the facts its operation checked hold
\* until it returns.
LEMMA CallInvStep ==
    ASSUME CallInv, [BrokerNext]_brokerVars
    PROVE  CallInv'
<1>1. CSInv'
  BY BrokerStepIsStep, CSNextInv DEF CallInv, brokerVars, csVars
<1>2. CASE UNCHANGED brokerVars
  BY <1>1, <1>2 DEF brokerVars, csVars, callVars, CallInv, Overflows
<1>3. CASE Return
  BY <1>1, <1>3 DEF Return, CallInv
<1>4. CASE NoPut
  BY <1>1, <1>4 DEF NoPut, Free, callVars, CallInv
<1>5. CASE BeginFlush
  BY <1>1, <1>5 DEF BeginFlush, Begin, Free, csVars, CallInv
<1>6. CASE BeginSeal
  BY <1>1, <1>6 DEF BeginSeal, Begin, Free, csVars, CallInv
<1>7. CASE \E data \in Data : BeginAppend(data)
  BY <1>1, <1>7 DEF BeginAppend, Begin, Free, csVars, CallInv, Overflows
<1>8. CASE URLGranted \/ Retry
  BY <1>1, <1>8 DEF URLGranted, Retry, csVars, CallInv, Overflows
<1>9. CASE URLFailed \/ StorageFailed \/ NoAnswer
  <2>1. UNCHANGED csVars /\ op # "none"
    BY <1>9 DEF URLFailed, StorageFailed, NoAnswer, CallInv
  <2>2. Return \/ (phase' = "wait" /\ UNCHANGED <<op, arg>>)
    BY <1>9 DEF URLFailed, StorageFailed, NoAnswer, Retryable
  <2>. QED
    BY <1>1, <1>3, <2>1, <2>2 DEF csVars, CallInv, Overflows
<1>10. CASE StoragePut \/ LateArrival
  <2>1. /\ UNCHANGED <<op, arg>> /\ UNCHANGED SessionVars
        /\ activeID \in DOMAIN store' /\ store'[activeID] = activeBuf
        /\ op # "none" /\ phase' \in {phase, "stored"}
    BY <1>10 DEF StoragePut, LateArrival, SessionVars, Put, CallInv
  <2>. QED
    BY <1>1, <1>10, <2>1 DEF SessionVars, CallInv, Overflows, StoragePut, LateArrival
<1>11. CASE Refused \/ Cancelled \/ PutOK \/ Killed
  BY <1>3, <1>11 DEF Refused, Cancelled, PutOK, Killed
<1>. QED
  BY <1>2, <1>4, <1>5, <1>6, <1>7, <1>8, <1>9, <1>10, <1>11 DEF BrokerNext, CallStep

\* No operation holds cs.mu when the process starts.
LEMMA CallInvInit == BrokerInit => CallInv
BY CSInitInv DEF BrokerInit, CallInv

\* To its callers, a Put that is retried, repeated and late is the Put of the
\* chunk store.
THEOREM BrokerImplementsChunkStore == BrokerSpec => ImplementsChunkStore
<1>1. BrokerInit => CSInit
  BY DEF BrokerInit
<1>2. BrokerSpec => []CallInv
  BY CallInvInit, CallInvStep, PTL DEF BrokerSpec
<1>3. CallInv /\ [BrokerNext]_brokerVars => [CSNext]_csVars
  BY BrokerStepIsStep DEF brokerVars
<1>. QED
  BY <1>1, <1>2, <1>3, PTL DEF BrokerSpec, ImplementsChunkStore, CSSpec

\* So acknowledged bytes stay readable through every failure and retry of the
\* requests a Put is made of.
THEOREM RetriedBytesReadable == BrokerSpec => []AppendedReadable
BY BrokerImplementsChunkStore, BytesStayReadable, PTL DEF ImplementsChunkStore

\* And activeDirty is false only once the storage has the whole buffer, whatever
\* happened to the requests: a FlushActive that skips its upload loses nothing.
THEOREM RetriedFlushIsSafe == BrokerSpec => []CleanMeansStored
BY BrokerImplementsChunkStore, SkippedFlushIsSafe, PTL DEF ImplementsChunkStore

\* An attempt is under way exactly while cs.mu is held, and a backoff is begun
\* only when another attempt is left.
AttemptInv ==
    /\ BrokerTypeOK
    /\ phase = "wait" => attempt < MaxAttempts

\* withRetry counts its attempts, and whatever ends a call resets all of it.
LEMMA AttemptStep ==
    ASSUME CallInv, AttemptInv, [BrokerNext]_brokerVars
    PROVE  AttemptInv'
<1>. USE MaxAttemptsAssumption DEF Free
<1>1. CSTypeOK' /\ ChunkSizeBound' /\ CallInv'
  BY CallInvStep DEF CallInv, CSInv
<1>2. CASE UNCHANGED callVars
  BY <1>1, <1>2, Zenon DEF callVars, AttemptInv, BrokerTypeOK
<1>3. CASE Return
  BY <1>1, <1>3, Zenon DEF Return, AttemptInv, BrokerTypeOK
<1>4. ASSUME op' \in {"flush", "seal", "append"}, arg' \in IF op' = "append" THEN Data ELSE {<<>>},
             late' \in BOOLEAN, attempt' \in 1..MaxAttempts,
             phase' \in {"url", "sent", "stored", "wait"}, phase' = "wait" => attempt' < MaxAttempts
      PROVE  AttemptInv'
  BY <1>1, <1>4, Zenon DEF AttemptInv, BrokerTypeOK
<1>5. ASSUME NEW o \in {"flush", "seal", "append"}, NEW data, Begin(o, data),
             data \in IF o = "append" THEN Data ELSE {<<>>}
      PROVE  AttemptInv'
  <2>1. late' \in BOOLEAN
    BY <1>5, Zenon DEF Begin
  <2>2. op' = o /\ arg' = data /\ attempt' \in 1..MaxAttempts /\ phase' = "url"
    BY <1>5 DEF Begin
  <2>. QED
    BY <1>4, <1>5, <2>1, <2>2
<1>6. CASE BeginFlush \/ BeginSeal \/ \E data \in Data : BeginAppend(data)
  BY <1>5, <1>6 DEF BeginFlush, BeginSeal, BeginAppend
<1>7. CASE URLGranted \/ URLFailed \/ StoragePut \/ StorageFailed \/ NoAnswer \/ Retry \/ LateArrival
  <2>1. op # "none"
    BY <1>7 DEF URLGranted, URLFailed, StoragePut, StorageFailed, NoAnswer, Retry, LateArrival, CallInv
  <2>2. /\ op \in {"flush", "seal", "append"} /\ arg \in (IF op = "append" THEN Data ELSE {<<>>})
        /\ late \in BOOLEAN /\ attempt \in 1..MaxAttempts
        /\ phase \in {"url", "sent", "stored", "wait"} /\ (phase = "wait" => attempt < MaxAttempts)
    BY <2>1 DEF AttemptInv, BrokerTypeOK
  <2>3. CASE URLGranted \/ Retry \/ StoragePut \/ LateArrival
    <3>1. late' \in BOOLEAN
      BY <2>2, <2>3, Zenon DEF URLGranted, Retry, StoragePut, LateArrival
    <3>2. /\ UNCHANGED <<op, arg>> /\ attempt' \in 1..MaxAttempts
          /\ phase' \in {"url", "sent", "stored", "wait"} /\ (phase' = "wait" => attempt' < MaxAttempts)
      BY <2>2, <2>3 DEF URLGranted, Retry, StoragePut, LateArrival
    <3>. QED
      BY <1>4, <2>2, <3>1, <3>2
  <2>4. CASE URLFailed \/ StorageFailed \/ NoAnswer
    <3>1. PICK w \in BOOLEAN : Retryable(w)
      BY <2>2, <2>4, Zenon DEF URLFailed, StorageFailed, NoAnswer
    <3>. QED
      BY <1>3, <1>4, <2>2, <3>1 DEF Retryable
  <2>. QED
    BY <1>7, <2>3, <2>4
<1>. QED
  BY <1>2, <1>3, <1>6, <1>7
     DEF BrokerNext, CallStep, NoPut, Refused, Cancelled, PutOK, Killed, brokerVars

\* BrokerTypeOK, for every number of attempts: withRetry never begins more
\* than maxAttempts, and no chunk outgrows cfg.ChunkSize.
THEOREM BrokerTyped == BrokerSpec => []BrokerTypeOK
<1>1. BrokerInit => CallInv /\ AttemptInv
  BY CallInvInit, Zenon DEF BrokerInit, AttemptInv, BrokerTypeOK, Free, CallInv, CSInv
<1>2. CallInv /\ AttemptInv /\ [BrokerNext]_brokerVars => (CallInv /\ AttemptInv)'
  BY CallInvStep, AttemptStep
<1>3. AttemptInv => BrokerTypeOK
  BY DEF AttemptInv
<1>. QED
  BY <1>1, <1>2, <1>3, PTL DEF BrokerSpec

-----------------------------------------------------------------------------
(* ChunkStore implements ChunkLog *)

\* The history has every chunk the store has.
StoredAppended == DOMAIN store \subseteq DOMAIN appended

\* Only an Append makes the buffer dirty.
DirtyNotEmpty == activeDirty => activeBuf # <<>>

LogInv == CSInv /\ StoredAppended /\ DirtyNotEmpty

\* What a reader finds is what the history recorded.
LEMMA ReadersSeeAppended == LogInv => [id \in Readable |-> Contents(id)] = appended
<1>. SUFFICES ASSUME LogInv PROVE [id \in Readable |-> Contents(id)] = appended
  OBVIOUS
<1>1. Readable = DOMAIN appended
  BY Zenon DEF LogInv, StoredAppended, CSInv, ActiveAppended, AppendedReadable, Readable
<1>2. \A id \in DOMAIN appended : Contents(id) = appended[id]
  BY DEF LogInv, CSInv, AppendedReadable
<1>. QED
  BY <1>1, <1>2 DEF LogInv, CSInv, CSTypeOK

\* No step stores a chunk nothing was appended to.
LEMMA LogInvStep ==
    ASSUME LogInv, [CSNext]_csVars
    PROVE  LogInv'
<1>1. CSInv'
  BY CSNextInv DEF LogInv
<1>2. Put(activeID, activeBuf) /\ activeBuf # <<>> => DOMAIN store' \subseteq DOMAIN appended
  BY DEF LogInv, StoredAppended, CSInv, ActiveAppended, Put
<1>3. DOMAIN appended \subseteq DOMAIN appended' \/ Restart
  BY DEF CSNext, csVars, AppendData, AppendActive, AppendRotate, AppendError, Seal, SealEmpty,
         SealPut, SealError, FlushActive, FlushError, Record
<1>4. StoredAppended'
  <2>1. CASE Restart
    BY <2>1 DEF Restart, StoredAppended
  <2>2. CASE ~Restart
    <3>1. UNCHANGED store \/ (Put(activeID, activeBuf) /\ activeBuf # <<>>)
      BY <2>2 DEF CSNext, csVars, AppendData, AppendActive, AppendRotate, AppendError, Seal,
                  SealEmpty, SealPut, SealError, PutError, FlushActive, FlushError, LogInv, DirtyNotEmpty
    <3>. QED
      BY <1>2, <1>3, <2>2, <3>1 DEF LogInv, StoredAppended
  <2>. QED
    BY <2>1, <2>2
<1>5. DirtyNotEmpty'
  <2>1. CASE \E data \in Data : AppendData(data)
    <3>1. PICK data \in Seq(Byte) \ {<<>>} : AppendData(data)
      BY <2>1, DataAssumption
    <3>2. activeBuf \in Seq(Byte)
      BY DEF LogInv, CSInv, CSTypeOK
    <3>3. activeBuf' # <<>>
      BY <3>1, <3>2 DEF AppendData, AppendActive, AppendRotate
    <3>. QED
      BY <3>3 DEF DirtyNotEmpty
  <2>2. CASE ~\E data \in Data : AppendData(data)
    <3>1. activeDirty' = FALSE \/ UNCHANGED <<activeDirty, activeBuf>>
      BY <2>2 DEF CSNext, csVars, AppendError, Seal, SealEmpty, SealPut, SealError, FlushActive,
                  FlushError, Restart
    <3>. QED
      BY <3>1, Zenon DEF LogInv, DirtyNotEmpty
  <2>. QED
    BY <2>1, <2>2
<1>. QED
  BY <1>1, <1>4, <1>5 DEF LogInv

\* A step of the chunk store that does not end the session only makes more of
\* the log durable, and only what the log already had.
LEMMA StoreHardens ==
    ASSUME LogInv, [CSNext]_csVars,
           UNCHANGED store \/ (Put(activeID, activeBuf) /\ activeBuf # <<>>)
    PROVE  Log!Prefixes(store, store') /\ Log!Prefixes(store', appended)
<1>. DEFINE Inside(f) == \A id \in DOMAIN f : f[id] \in Seq(Byte)
<1>1. Inside(store) /\ Inside(appended) /\ activeBuf \in Seq(Byte)
  BY DEF LogInv, CSInv, CSTypeOK
<1>2. Log!Prefixes(store, store')
  <2>1. StoreExtends \/ UNCHANGED csVars
    BY CSNextInv DEF LogInv
  <2>. QED
    BY <1>1, <2>1 DEF StoreExtends, csVars, Log!Prefixes
<1>3. ASSUME NEW id \in DOMAIN store, id # activeID
      PROVE  id \in DOMAIN appended /\ appended[id] = store[id]
  BY <1>3 DEF LogInv, StoredAppended, CSInv, AppendedReadable, Contents
<1>4. Log!Prefixes(store, appended)
  <2>1. activeID \in DOMAIN store => activeID \in DOMAIN appended /\ appended[activeID] = activeBuf
    BY DEF LogInv, StoredAppended, CSInv, AppendedReadable, Contents
  <2>. QED
    BY <1>1, <1>3, <2>1 DEF LogInv, CSInv, ActiveNotAliased, Log!Prefixes
<1>5. CASE Put(activeID, activeBuf) /\ activeBuf # <<>>
  <2>1. /\ DOMAIN store' = DOMAIN store \cup {activeID}
        /\ store'[activeID] = activeBuf
        /\ \A k \in DOMAIN store \ {activeID} : store'[k] = store[k]
    BY <1>5, PutActive DEF LogInv
  <2>2. activeID \in DOMAIN appended /\ appended[activeID] = activeBuf
    BY <1>5 DEF LogInv, CSInv, ActiveAppended, AppendedReadable, Contents
  <2>3. ASSUME NEW id \in DOMAIN store'
        PROVE  id \in DOMAIN appended /\ store'[id] = appended[id] /\ appended[id] \in Seq(Byte)
    BY <1>1, <1>3, <2>1, <2>2
  <2>4. Log!Prefixes(store', appended)
    BY <2>3 DEF Log!Prefixes
  <2>. QED
    BY <1>2, <2>4
<1>. QED
  BY <1>2, <1>4, <1>5

\* Every step of the chunk store is a step of the log.
LEMMA StepIsLogStep ==
    ASSUME LogInv, [CSNext]_csVars
    PROVE  [Log!Next]_(Log!logVars)
<1>. DEFINE seen == [id \in Readable |-> Contents(id)]
<1>1. seen = appended /\ seen' = appended'
  <2>1. LogInv'
    BY LogInvStep
  <2>2. ([id \in Readable |-> Contents(id)] = appended)'
    BY <2>1, ReadersSeeAppended, PTL
  <2>. QED
    BY <2>2, ReadersSeeAppended
<1>2. CASE Restart
  <2>1. appended' = store /\ UNCHANGED store
    BY <1>2 DEF Restart
  <2>. QED
    BY <1>1, <2>1 DEF Log!Next, Log!Crash
<1>3. ASSUME NEW data \in Data, AppendData(data)
      PROVE  Log!Next
  <2>1. PICK id \in ChunkIDs : Record(id, data)
    BY <1>3, ActiveSeq, NextIsFresh
       DEF AppendData, AppendActive, AppendRotate, OpenNext, LogInv, CSInv
  <2>2. Log!Prefixes(store, store') /\ Log!Prefixes(store', appended)
    BY <1>3, StoreHardens, Zenon DEF CSNext, AppendData, AppendActive, AppendRotate
  <2>3. Log!AppendTo(id, data)
    BY <1>1, <2>1, <2>2, Zenon DEF Record, Log!AppendTo, Log!Harden
  <2>. QED
    BY <2>3 DEF Log!Next
<1>4. CASE /\ UNCHANGED appended
           /\ UNCHANGED store \/ (Put(activeID, activeBuf) /\ activeBuf # <<>>)
  BY <1>1, <1>4, StoreHardens DEF Log!Next, Log!Flush, Log!Harden
<1>. QED
  BY <1>2, <1>3, <1>4
     DEF CSNext, csVars, AppendError, Seal, SealEmpty, SealPut, SealError, PutError, FlushActive,
         FlushError, LogInv, DirtyNotEmpty

\* A fresh chunk store is an empty log.
LEMMA LogInitInv == CSInit => LogInv /\ Log!Init
<1>. SUFFICES ASSUME CSInit PROVE LogInv /\ Log!Init
  OBVIOUS
<1>1. LogInv
  BY CSInitInv DEF CSInit, LogInv, StoredAppended, DirtyNotEmpty
<1>2. appended = [k \in {} |-> <<>>] /\ store = [k \in {} |-> <<>>]
  BY DEF CSInit
<1>. QED
  BY <1>1, <1>2, ReadersSeeAppended DEF Log!Init

\* The chunk store keeps the promise of the log: acknowledged bytes never move
\* or change, and a crash keeps exactly the durable beginning.
THEOREM ChunkStoreImplementsLog == CSSpec => ImplementsChunkLog
<1>1. CSSpec => []LogInv
  BY LogInitInv, LogInvStep, PTL DEF CSSpec
<1>. QED
  BY <1>1, LogInitInv, StepIsLogStep, PTL DEF CSSpec, ImplementsChunkLog, Log!Spec

\* So does the chunk store over the broker.
THEOREM BrokerImplementsLog == BrokerSpec => ImplementsChunkLog
BY BrokerImplementsChunkStore, ChunkStoreImplementsLog, PTL DEF ImplementsChunkStore

-----------------------------------------------------------------------------
(* Mount: the processes *)

Unreported == {"starting", "loaded", "mounted", "recorded"}
Reported == {"ready", "serving", "stopping", "flushing", "removing"}

TypeInv ==
    /\ parent \in [Daemon -> {"none", "waiting", "done", "failed"}]
    /\ daemon \in [Daemon -> Stages]
    /\ ends \in [Daemon -> SUBSET {"parent", "daemon"}]
    /\ idx \in [Daemon -> SUBSET Item]
    /\ target \in Daemon \cup {-1}

SetTypes == pidfile \subseteq Daemon /\ remote \subseteq Item

\* What the parent knows: until the daemon has reported, the pipe is open.
PipeInv ==
    \A d \in Daemon :
        /\ parent[d] = "none" <=> daemon[d] = "none"
        /\ daemon[d] \in Unreported =>
              parent[d] = "waiting" /\ "daemon" \in ends[d]
        /\ daemon[d] \in Reported \cup {"exited"} => d \in told

\* The invariant of the processes alone.
ProcInv == TypeInv /\ PipeInv /\ FailedMeansGone

\* It holds when nothing has been started.
LEMMA ProcInit == MountInit => ProcInv /\ SetTypes
BY DEF MountInit, ProcInv, TypeInv, SetTypes, PipeInv, FailedMeansGone, Stages,
       Unreported, Reported

\* PID files are daemons', and what is persisted is an index.
LEMMA SetStep == ProcInv /\ SetTypes /\ [MountNext]_mountVars => SetTypes'
<1>. SUFFICES ASSUME ProcInv, SetTypes, [MountNext]_mountVars PROVE SetTypes'
  OBVIOUS
<1>. USE DEF SetTypes, dataVars
<1>1. ASSUME NEW d \in Daemon, DaemonStep(d) PROVE SetTypes'
  <2>1. idx[d] \subseteq Item
    BY DEF ProcInv, TypeInv
  <2>. QED
    BY <1>1, <2>1 DEF DaemonStep, Load, MountFS, StartFails, WritePid, TellParent, Notify,
                      Receive, Unmount, FinalPersist, RemovePid
<1>2. ASSUME NEW d \in Daemon, Persist(d) PROVE SetTypes'
  BY <1>2 DEF Persist, ProcInv, TypeInv
<1>3. ASSUME UNCHANGED <<pidfile, remote>> PROVE SetTypes'
  BY <1>3
<1>. QED
  BY <1>1, <1>2, <1>3 DEF MountNext, Start, ParentReads, Kill, Terminate, Write, Scan, Signal,
                          mountVars

\* A daemon that is delivered a signal keeps running in its stage, or it had
\* not installed its handler and ends.
LEMMA DeliverCases ==
    ASSUME NEW d \in Daemon, Deliver(d)
    PROVE  \/ UNCHANGED <<daemon, ends, fs>>
           \/ Ends(d, "killed") /\ Alive(d)
BY DEF Deliver, Alive

\* The end of a process disturbs nothing another one relies on.
LEMMA EndsProc ==
    ASSUME ProcInv, NEW d \in Daemon, Alive(d), NEW how \in {"failed", "killed", "exited"},
           Ends(d, how), UNCHANGED <<parent, idx>>, told \subseteq told',
           how = "exited" => d \in told', target' \in Daemon \cup {-1}
    PROVE  ProcInv'
<1>1. TypeInv'
  BY DEF ProcInv, TypeInv, Ends, Goto, Stages
<1>2. \A e \in Daemon : daemon'[e] = IF e = d THEN how ELSE daemon[e]
  BY DEF ProcInv, TypeInv, Ends, Goto
<1>3. \A e \in Daemon : e # d => ends'[e] = ends[e]
  BY DEF ProcInv, TypeInv, Ends
<1>4. PipeInv'
  BY <1>2, <1>3 DEF ProcInv, PipeInv, Unreported, Reported, Alive
<1>5. FailedMeansGone'
  <2>1. daemon[d] \notin {"failed", "killed"}
    BY DEF Alive
  <2>. QED
    BY <1>2, <2>1 DEF ProcInv, FailedMeansGone
<1>. QED
  BY <1>1, <1>4, <1>5 DEF ProcInv

\* A daemon that goes on from one stage to the next.
LEMMA StageProc ==
    ASSUME ProcInv, NEW d \in Daemon, NEW from \in Stages, NEW to \in Stages,
           daemon[d] = from, Goto(d, to), UNCHANGED parent, told \subseteq told',
           idx' \in [Daemon -> SUBSET Item], target' = target,
           \/ from \in Unreported /\ to \in Unreported /\ UNCHANGED ends
           \/ from = "recorded" /\ to = "ready" /\ d \in told'
              /\ ends' = [ends EXCEPT ![d] = @ \ {"daemon"}]
           \/ from \in Reported /\ to \in Reported /\ UNCHANGED ends
    PROVE  ProcInv'
<1>1. TypeInv'
  BY Zenon DEF ProcInv, TypeInv, Goto
<1>2. \A e \in Daemon : daemon'[e] = IF e = d THEN to ELSE daemon[e]
  BY DEF ProcInv, TypeInv, Goto
<1>3. \A e \in Daemon : e # d => ends'[e] = ends[e]
  BY DEF ProcInv, TypeInv
<1>4. PipeInv' /\ FailedMeansGone'
  BY <1>2, <1>3 DEF ProcInv, PipeInv, FailedMeansGone, Unreported, Reported
<1>. QED
  BY <1>1, <1>4 DEF ProcInv

\* Every step keeps the invariant of the processes.
LEMMA ProcStep == ProcInv /\ SetTypes /\ [MountNext]_mountVars => ProcInv'
<1>. SUFFICES ASSUME ProcInv, SetTypes, [MountNext]_mountVars PROVE ProcInv'
  OBVIOUS
<1>1. ASSUME NEW d \in Daemon, Start(d) PROVE ProcInv'
  <2>1. /\ parent[d] = "none"
        /\ parent' = [parent EXCEPT ![d] = "waiting"]
        /\ daemon' = [daemon EXCEPT ![d] = "starting"]
        /\ ends' = [ends EXCEPT ![d] = {"daemon"}]
        /\ UNCHANGED <<told, idx, target>>
    BY <1>1 DEF Start, Goto, dataVars
  <2>2. TypeInv'
    BY <2>1 DEF ProcInv, TypeInv, Stages
  <2>3. PipeInv' /\ FailedMeansGone'
    BY <2>1 DEF ProcInv, TypeInv, PipeInv, FailedMeansGone, Unreported, Reported
  <2>. QED
    BY <2>2, <2>3 DEF ProcInv
<1>2. ASSUME NEW d \in Daemon, ParentReads(d) PROVE ProcInv'
  <2>1. /\ parent[d] = "waiting" /\ ends[d] = {}
        /\ parent' = [parent EXCEPT ![d] = IF d \in told THEN "done" ELSE "failed"]
        /\ UNCHANGED <<daemon, ends, told, idx, target>>
    BY <1>2 DEF ParentReads, dataVars
  <2>2. daemon[d] # "none" /\ daemon[d] \notin Unreported
    BY <2>1 DEF ProcInv, PipeInv
  <2>3. d \notin told => daemon[d] \in {"failed", "killed"}
    BY <2>2 DEF ProcInv, PipeInv, TypeInv, Stages, Unreported, Reported
  <2>4. TypeInv'
    BY <2>1 DEF ProcInv, TypeInv
  <2>5. PipeInv' /\ FailedMeansGone'
    BY <2>1, <2>2, <2>3 DEF ProcInv, TypeInv, PipeInv, FailedMeansGone
  <2>. QED
    BY <2>4, <2>5 DEF ProcInv
<1>3. ASSUME NEW d \in Daemon, DaemonStep(d) PROVE ProcInv'
  <2>. USE DEF dataVars, Stages, Unreported, Reported
  <2>1. idx \in [Daemon -> SUBSET Item]
    BY DEF ProcInv, TypeInv
  <2>2. CASE Load(d)
    <3>1. idx' \in [Daemon -> SUBSET Item]
      BY <2>1, <2>2 DEF Load, SetTypes
    <3>. QED
      BY <2>2, <3>1, StageProc DEF Load
  <2>3. CASE MountFS(d)
    BY <2>1, <2>3, StageProc DEF MountFS
  <2>4. CASE WritePid(d)
    BY <2>1, <2>4, StageProc DEF WritePid
  <2>5. CASE TellParent(d)
    BY <2>1, <2>5, StageProc, Zenon DEF TellParent
  <2>6. CASE Notify(d)
    BY <2>1, <2>6, StageProc DEF Notify
  <2>7. CASE Receive(d)
    BY <2>1, <2>7, StageProc DEF Receive
  <2>8. CASE Unmount(d)
    BY <2>1, <2>8, StageProc DEF Unmount
  <2>9. CASE FinalPersist(d)
    BY <2>1, <2>9, StageProc DEF FinalPersist
  <2>10. CASE StartFails(d)
    BY <2>10, EndsProc DEF StartFails, Alive, ProcInv, TypeInv
  <2>11. CASE RemovePid(d)
    <3>1. d \in told /\ Alive(d)
      BY <2>11 DEF RemovePid, ProcInv, PipeInv, Alive
    <3>. QED
      BY <2>11, <3>1, EndsProc DEF RemovePid, ProcInv, TypeInv
  <2>. QED
    BY <1>3, <2>2, <2>3, <2>4, <2>5, <2>6, <2>7, <2>8, <2>9, <2>10, <2>11 DEF DaemonStep
<1>4. ASSUME NEW d \in Daemon, Alive(d), Ends(d, "killed"), UNCHANGED <<parent, told, idx>>,
             target' \in Daemon \cup {-1}
      PROVE  ProcInv'
  BY <1>4, EndsProc
<1>5. ASSUME UNCHANGED <<parent, daemon, ends, told>>, target' \in Daemon \cup {-1},
             idx' \in [Daemon -> SUBSET Item]
      PROVE  ProcInv'
  BY <1>5 DEF ProcInv, TypeInv, PipeInv, FailedMeansGone
<1>6. ASSUME NEW d \in Daemon, Kill(d) PROVE ProcInv'
  BY <1>4, <1>6 DEF Kill, dataVars, ProcInv, TypeInv
<1>7. ASSUME NEW d \in Daemon, Terminate(d) PROVE ProcInv'
  BY <1>4, <1>5, <1>7, DeliverCases DEF Terminate, dataVars, ProcInv, TypeInv
<1>8. CASE Signal
  <2>1. target \in Daemon => ProcInv'
    BY <1>4, <1>5, <1>8, DeliverCases DEF Signal, dataVars, ProcInv, TypeInv
  <2>. QED
    BY <1>8, <2>1 DEF Signal, ProcInv, TypeInv
<1>. QED
  <2>1. ASSUME NEW d \in Daemon, Persist(d) \/ \E w \in Item : Write(d, w) PROVE ProcInv'
    <3>1. idx' \in [Daemon -> SUBSET Item]
      BY <2>1 DEF Persist, Write, ProcInv, TypeInv
    <3>. QED
      BY <1>5, <2>1, <3>1 DEF Persist, Write, procVars, ProcInv, TypeInv
  <2>2. CASE Scan
    <3>1. target' \in Daemon \cup {-1}
      BY <2>2 DEF Scan, SetTypes
    <3>. QED
      BY <1>5, <2>2, <3>1 DEF Scan, dataVars, ProcInv, TypeInv
  <2>3. CASE UNCHANGED mountVars
    BY <1>5, <2>3 DEF mountVars, procVars, dataVars, ProcInv, TypeInv
  <2>. QED
    BY <1>1, <1>2, <1>3, <1>6, <1>7, <1>8, <2>1, <2>2, <2>3 DEF MountNext

\* FailedMeansGone, for any daemons and whatever is killed or signalled when:
\* a failure that `fusey mount` reports is final.
THEOREM FailureIsFinal == MountSpec => []FailedMeansGone
<1>1. ProcInv /\ SetTypes /\ [MountNext]_mountVars => (ProcInv /\ SetTypes)'
  BY ProcStep, SetStep
<1>2. ProcInv => FailedMeansGone
  BY Zenon DEF ProcInv
<1>. QED
  BY ProcInit, <1>1, <1>2, PTL DEF MountSpec

-----------------------------------------------------------------------------
(* Only running daemons are reached *)

\* Requests and signals go to daemons that run; who has reported, and whose
\* index was saved, was started.
ReachInv ==
    /\ told \subseteq Daemon /\ saved \subseteq Daemon
    /\ \A d \in fs \cup sig : d \in Daemon /\ Alive(d)

\* A daemon leaves the mount table and loses its signals when it ends.
LEMMA ReachStep == ProcInv /\ ReachInv /\ [MountNext]_mountVars => ReachInv'
<1>. SUFFICES ASSUME ProcInv, ReachInv, [MountNext]_mountVars PROVE ReachInv'
  OBVIOUS
<1>. USE DEF dataVars
<1>1. ASSUME NEW d \in Daemon, NEW to \in Stages \ {"none", "exited", "failed", "killed"}, Goto(d, to),
             fs' \subseteq fs \cup {d}, sig' = sig, told' \subseteq told \cup {d},
             saved' \subseteq saved \cup {d}
      PROVE  ReachInv'
  <2>1. \A e \in Daemon : daemon'[e] = IF e = d THEN to ELSE daemon[e]
    BY <1>1 DEF Goto, ProcInv, TypeInv
  <2>. QED
    BY <1>1, <2>1 DEF ReachInv, Alive
<1>2. ASSUME NEW d \in Daemon, NEW how, Ends(d, how), UNCHANGED <<told, saved>>
      PROVE  ReachInv'
  <2>1. \A e \in Daemon : e # d => daemon'[e] = daemon[e]
    BY <1>2 DEF Ends, Goto, ProcInv, TypeInv
  <2>. QED
    BY <1>2, <2>1 DEF ReachInv, Alive, Ends
<1>3. ASSUME UNCHANGED <<daemon, fs, told, saved>>,
             \A d \in sig' : d \in sig \/ (d \in Daemon /\ Alive(d))
      PROVE  ReachInv'
  BY <1>3 DEF ReachInv, Alive
<1>4. ASSUME NEW d \in Daemon, DaemonStep(d) PROVE ReachInv'
  <2>. USE DEF Stages
  <2>1. CASE Load(d) \/ Notify(d) \/ Receive(d) \/ WritePid(d)
    BY <1>1, <2>1 DEF Load, Notify, Receive, WritePid
  <2>2. CASE MountFS(d)
    BY <1>1, <2>2 DEF MountFS
  <2>3. CASE TellParent(d)
    BY <1>1, <2>3 DEF TellParent
  <2>4. CASE Unmount(d)
    BY <1>1, <2>4 DEF Unmount
  <2>5. CASE FinalPersist(d)
    BY <1>1, <2>5 DEF FinalPersist
  <2>6. CASE StartFails(d) \/ RemovePid(d)
    BY <1>2, <2>6 DEF StartFails, RemovePid
  <2>. QED
    BY <1>4, <2>1, <2>2, <2>3, <2>4, <2>5, <2>6 DEF DaemonStep
<1>5. ASSUME NEW d \in Daemon, Alive(d), Deliver(d), UNCHANGED <<told, saved>> PROVE ReachInv'
  BY <1>2, <1>3, <1>5 DEF Deliver
<1>6. CASE Signal
  <2>1. target \in Daemon
    BY <1>6 DEF Signal, ProcInv, TypeInv
  <2>. QED
    BY <1>3, <1>5, <1>6, <2>1 DEF Signal
<1>7. ASSUME NEW d \in Daemon, Start(d) PROVE ReachInv'
  BY <1>1, <1>7 DEF Start, Stages
<1>8. ASSUME NEW d \in Daemon, Kill(d) PROVE ReachInv'
  BY <1>2, <1>8 DEF Kill
<1>. QED
  BY <1>3, <1>4, <1>5, <1>6, <1>7, <1>8
     DEF MountNext, ParentReads, Persist, Terminate, Write, Scan, procVars, mountVars

\* MountTypeOK, for any daemons, signals and kills: no request and no signal is
\* addressed to a daemon that has ended or was never started.
THEOREM MountTyped == MountSpec => []MountTypeOK
<1>1. MountInit => ReachInv
  BY DEF MountInit, ReachInv
<1>2. ProcInv /\ SetTypes /\ ReachInv /\ [MountNext]_mountVars => (ProcInv /\ SetTypes /\ ReachInv)'
  BY ProcStep, SetStep, ReachStep
<1>3. ProcInv /\ SetTypes /\ ReachInv => MountTypeOK
  BY DEF ProcInv, TypeInv, SetTypes, ReachInv, MountTypeOK
<1>. QED
  BY ProcInit, <1>1, <1>2, <1>3, PTL DEF MountSpec

-----------------------------------------------------------------------------
(* One owner *)

\* A daemon that has reported has a PID file, and no two daemons run.
OwnerInv ==
    /\ \A d \in Daemon : daemon[d] \in {"recorded"} \cup Reported => d \in pidfile
    /\ \A d, e \in Daemon : Alive(d) /\ Alive(e) => d = e

\* Who heeds both the parents and the PID files starts no second daemon.
LEMMA OwnerStep ==
    ASSUME Waits, "pidfile" \notin Faults
    PROVE  ProcInv /\ OwnerInv /\ [MountNext]_mountVars => OwnerInv'
<1>. SUFFICES ASSUME ProcInv, OwnerInv, [MountNext]_mountVars PROVE OwnerInv'
  BY Zenon
<1>. USE DEF dataVars
<1>1. ASSUME NEW d \in Daemon, Start(d) PROVE OwnerInv'
  <2>1. \A e \in Daemon : ~Alive(e)
    BY <1>1 DEF Start, MayMount, ProcInv, TypeInv, PipeInv, OwnerInv, Alive, Stages,
                Unreported, Reported
  <2>2. \A e \in Daemon : daemon'[e] = IF e = d THEN "starting" ELSE daemon[e]
    BY <1>1, Zenon DEF Start, Goto, ProcInv, TypeInv
  <2>. QED
    BY <1>1, <2>1, <2>2 DEF Start, OwnerInv, Alive, Reported
<1>2. ASSUME NEW d \in Daemon, NEW to \in Stages, Alive(d), Goto(d, to),
             to \in {"recorded"} \cup Reported => d \in pidfile',
             \A e \in pidfile : e # d => e \in pidfile'
      PROVE  OwnerInv'
  <2>1. \A e \in Daemon : daemon'[e] = IF e = d THEN to ELSE daemon[e]
    BY <1>2 DEF Goto, ProcInv, TypeInv
  <2>. QED
    BY <1>2, <2>1 DEF OwnerInv, Alive
<1>3. ASSUME UNCHANGED <<daemon, pidfile>> PROVE OwnerInv'
  BY <1>3 DEF OwnerInv, Alive
<1>4. ASSUME NEW d \in Daemon, DaemonStep(d) PROVE OwnerInv'
  <2>. USE DEF Stages, Reported, Alive
  <2>1. CASE Load(d) \/ MountFS(d)
    BY <1>2, <2>1 DEF Load, MountFS
  <2>2. CASE WritePid(d)
    BY <1>2, <2>2 DEF WritePid
  <2>3. CASE TellParent(d) \/ Notify(d) \/ Receive(d) \/ Unmount(d) \/ FinalPersist(d)
    <3>1. d \in pidfile /\ Alive(d) /\ UNCHANGED pidfile
      BY <2>3, Zenon DEF TellParent, Notify, Receive, Unmount, FinalPersist, OwnerInv
    <3>2. \E to \in Stages : Goto(d, to)
      BY <2>3 DEF TellParent, Notify, Receive, Unmount, FinalPersist
    <3>. QED
      BY <1>2, <3>1, <3>2, Zenon
  <2>4. CASE StartFails(d) \/ RemovePid(d)
    BY <1>2, <2>4 DEF StartFails, RemovePid, Ends
  <2>. QED
    BY <1>4, <2>1, <2>2, <2>3, <2>4 DEF DaemonStep
<1>5. ASSUME NEW d \in Daemon, Alive(d), Deliver(d), UNCHANGED pidfile PROVE OwnerInv'
  <2>1. CASE UNCHANGED <<daemon, ends, fs>>
    BY <1>3, <1>5, <2>1
  <2>2. CASE Ends(d, "killed")
    BY <1>2, <1>5, <2>2 DEF Ends, Stages, Reported
  <2>. QED
    BY <1>5, <2>1, <2>2, DeliverCases
<1>6. ASSUME NEW d \in Daemon, Kill(d) PROVE OwnerInv'
  BY <1>2, <1>6 DEF Kill, Ends, Stages, Reported
<1>7. CASE Signal
  <2>1. target \in Daemon
    BY <1>7 DEF Signal, ProcInv, TypeInv
  <2>. QED
    BY <1>3, <1>5, <1>7, <2>1 DEF Signal
<1>. QED
  BY <1>1, <1>3, <1>4, <1>5, <1>6, <1>7, Zenon
     DEF MountNext, ParentReads, Persist, Terminate, Write, Scan, procVars, mountVars

\* OneOwner, for any number of daemons: who waits for `fusey mount` to return
\* and for the PID file to go never runs two daemons on one index object,
\* provided the PID file is written.
THEOREM MountsAreDisjoint ==
    ASSUME Waits, "pidfile" \notin Faults
    PROVE  MountSpec => []OneOwner
<1>1. MountInit => OwnerInv
  BY DEF MountInit, OwnerInv, Alive, Reported
<1>2. ProcInv /\ SetTypes /\ OwnerInv /\ [MountNext]_mountVars
         => (ProcInv /\ SetTypes /\ OwnerInv)'
  BY ProcStep, SetStep, OwnerStep
<1>3. OwnerInv => OneOwner
  BY DEF OwnerInv, OneOwner, Owns, Alive
<1>. QED
  BY ProcInit, <1>1, <1>2, <1>3, PTL DEF MountSpec

-----------------------------------------------------------------------------
(* What was persisted stays *)

\* No request reaches a daemon whose index is being persisted for the last
\* time, the owner has read all there is in the index object, and what an
\* earlier daemon saved at its end is still there.
KeptInv ==
    /\ \A d \in fs : d \in Daemon /\ Owns(d) /\ daemon[d] # "flushing"
    /\ \A d \in Daemon : Owns(d) => remote \subseteq idx[d]
    /\ saved \subseteq Daemon
    /\ \A d \in saved : daemon[d] \in {"removing", "exited", "killed"}
    /\ \A d \in saved : daemon[d] \in {"removing", "exited"} => idx[d] \subseteq remote

\* Only the owner overwrites the index object, with all it held and more.
LEMMA KeptStep ==
    ASSUME Waits, "pidfile" \notin Faults, "busy" \notin Faults
    PROVE  ProcInv /\ OwnerInv /\ KeptInv /\ [MountNext]_mountVars => KeptInv'
<1>. SUFFICES ASSUME ProcInv, OwnerInv, KeptInv, [MountNext]_mountVars PROVE KeptInv'
  BY Zenon
<1>. USE DEF dataVars
<1>1. ASSUME NEW d \in Daemon, NEW to \in Stages, Goto(d, to),
             UNCHANGED <<idx, saved, remote>>, fs' \subseteq fs \cup {d},
             d \in fs' => to \in {"mounted", "recorded", "ready", "serving", "stopping"},
             \/ to = "killed"
             \/ daemon[d] = "none" /\ to = "starting"
             \/ daemon[d] \in {"starting", "loaded"} /\ to = "failed"
             \/ daemon[d] = "removing" /\ to = "exited"
             \/ Owns(d) /\ to \in {"mounted", "recorded", "ready", "serving", "stopping", "flushing"}
      PROVE  KeptInv'
  <2>1. \A e \in Daemon : daemon'[e] = IF e = d THEN to ELSE daemon[e]
    BY <1>1 DEF Goto, ProcInv, TypeInv
  <2>2. \A e \in fs' : e \in Daemon /\ Owns(e)' /\ daemon'[e] # "flushing"
    BY <1>1, <2>1 DEF KeptInv, Owns
  <2>3. \A e \in Daemon : Owns(e)' => remote' \subseteq idx'[e]
    BY <1>1, <2>1 DEF KeptInv, Owns
  <2>4. d \in saved => daemon[d] \in {"removing", "exited", "killed"}
    BY DEF KeptInv
  <2>5. d \in saved => to = "killed" \/ (daemon[d] = "removing" /\ to = "exited")
    BY <1>1, <2>4, Zenon DEF Owns
  <2>. QED
    BY <1>1, <2>1, <2>2, <2>3, <2>4, <2>5 DEF KeptInv
<1>2. ASSUME UNCHANGED <<daemon, fs, idx, saved, remote>> PROVE KeptInv'
  BY <1>2 DEF KeptInv, Owns
<1>3. ASSUME NEW d \in Daemon, Owns(d), idx' = idx, remote' \in {remote, idx[d]},
             fs' = fs, saved' = saved, daemon' = daemon
      PROVE  KeptInv'
  <2>1. remote \subseteq remote' /\ remote' \subseteq idx[d]
    BY <1>3 DEF KeptInv
  <2>2. \A e \in Daemon : Owns(e) => e = d
    BY <1>3 DEF OwnerInv, Alive, Owns
  <2>. QED
    BY <1>3, <2>1, <2>2 DEF KeptInv, Owns
<1>4. ASSUME NEW d \in Daemon, DaemonStep(d) PROVE KeptInv'
  <2>. USE DEF Stages
  <2>1. CASE Load(d)
    <3>1. \A e \in Daemon : /\ daemon'[e] = IF e = d THEN "loaded" ELSE daemon[e]
                            /\ idx'[e] = IF e = d THEN remote ELSE idx[e]
      BY <2>1 DEF Load, Goto, ProcInv, TypeInv
    <3>2. d \notin saved /\ d \notin fs
      BY <2>1 DEF Load, KeptInv, Owns
    <3>. QED
      BY <2>1, <3>1, <3>2 DEF Load, KeptInv, Owns
  <2>2. CASE MountFS(d)
    BY <1>1, <2>2 DEF MountFS, Owns
  <2>3. CASE WritePid(d)
    BY <1>1, <2>3 DEF WritePid, Owns
  <2>4. CASE TellParent(d)
    BY <1>1, <2>4 DEF TellParent, Owns
  <2>5. CASE Notify(d)
    BY <1>1, <2>5 DEF Notify, Owns
  <2>6. CASE Receive(d)
    BY <1>1, <2>6 DEF Receive, Owns
  <2>7. CASE Unmount(d)
    BY <1>1, <2>7 DEF Unmount, Owns
  <2>8. CASE FinalPersist(d)
    <3>1. /\ daemon[d] = "flushing" /\ idx' = idx /\ fs' = fs
          /\ saved' \in {saved, saved \cup {d}} /\ remote' \in {remote, idx[d]}
          /\ d \in saved' => d \in saved \/ remote' = idx[d]
          /\ \A e \in Daemon : daemon'[e] = IF e = d THEN "removing" ELSE daemon[e]
      BY <2>8 DEF FinalPersist, Goto, ProcInv, TypeInv
    <3>2. d \notin saved /\ d \notin fs
      BY <3>1 DEF KeptInv
    <3>3. remote \subseteq remote'
      BY <3>1 DEF KeptInv, Owns
    <3>4. \A e \in Daemon : ~Owns(e)'
      BY <3>1 DEF OwnerInv, Alive, Owns
    <3>. QED
      BY <3>1, <3>2, <3>3, <3>4 DEF KeptInv, Owns
  <2>9. CASE StartFails(d)
    BY <1>1, <2>9 DEF StartFails, Ends
  <2>10. CASE RemovePid(d)
    BY <1>1, <2>10 DEF RemovePid, Ends
  <2>. QED
    BY <1>4, <2>1, <2>2, <2>3, <2>4, <2>5, <2>6, <2>7, <2>8, <2>9, <2>10, Zenon DEF DaemonStep
<1>5. ASSUME NEW d \in Daemon, Start(d) PROVE KeptInv'
  <2>1. daemon[d] = "none" /\ d \notin fs
    BY <1>5 DEF Start, ProcInv, PipeInv, KeptInv, Owns
  <2>. QED
    BY <1>1, <1>5, <2>1 DEF Start, Stages
<1>6. ASSUME NEW d \in Daemon, Ends(d, "killed"), UNCHANGED dataVars PROVE KeptInv'
  BY <1>1, <1>6 DEF Ends, Stages
<1>7. ASSUME NEW d \in Daemon, Deliver(d), UNCHANGED dataVars PROVE KeptInv'
  BY <1>2, <1>6, <1>7, DeliverCases
<1>8. CASE Signal
  <2>1. target \in Daemon
    BY <1>8 DEF Signal, ProcInv, TypeInv
  <2>. QED
    BY <1>2, <1>7, <1>8, <2>1 DEF Signal
<1>9. ASSUME NEW d \in Daemon, Persist(d) PROVE KeptInv'
  BY <1>3, <1>9 DEF Persist, procVars, Owns
<1>10. ASSUME NEW d \in Daemon, NEW w \in Item, Write(d, w) PROVE KeptInv'
  <2>1. \A e \in Daemon : idx[e] \subseteq idx'[e] /\ (e # d => idx'[e] = idx[e])
    BY <1>10 DEF Write, ProcInv, TypeInv
  <2>2. d \notin saved
    BY <1>10 DEF Write, KeptInv, Owns
  <2>. QED
    BY <1>10, <2>1, <2>2 DEF Write, procVars, KeptInv, Owns
<1>. QED
  BY <1>2, <1>4, <1>5, <1>6, <1>7, <1>8, <1>9, <1>10, Zenon
     DEF MountNext, ParentReads, Kill, Terminate, Scan, mountVars, procVars

\* NoWriteLost, for any number of daemons, writes and kills: what a daemon has
\* persisted at its end no later daemon takes out of the index object,
\* provided PID files are written and Unmount succeeds.
THEOREM WritesSurviveHandOver ==
    ASSUME Waits, "pidfile" \notin Faults, "busy" \notin Faults
    PROVE  MountSpec => []NoWriteLost
<1>1. MountInit => OwnerInv /\ KeptInv
  BY DEF MountInit, OwnerInv, KeptInv, Owns, Alive, Reported
<1>2. ProcInv /\ SetTypes /\ OwnerInv /\ KeptInv /\ [MountNext]_mountVars
         => (ProcInv /\ SetTypes /\ OwnerInv /\ KeptInv)'
  BY ProcStep, SetStep, OwnerStep, KeptStep
<1>3. KeptInv => NoWriteLost
  BY DEF KeptInv, NoWriteLost
<1>. QED
  BY ProcInit, <1>1, <1>2, <1>3, PTL DEF MountSpec
=============================================================================
