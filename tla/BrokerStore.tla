----------------------------- MODULE BrokerStore ------------------------------
(***************************************************************************)
(* The chunk store on top of internal/chunks/broker.go: a Put is not one   *)
(* step but a loop (withRetry) of two requests, one to the broker for a    *)
(* presigned URL and one to the storage behind it, each of which can fail, *)
(* time out, or take effect without its answer arriving.  cs.mu is held    *)
(* from the first request to the last, so at most one call is under way;   *)
(* the process may be killed in any of its steps.                          *)
(*                                                                         *)
(* An upload the client has given up on may still reach the storage, but   *)
(* only before the call that sent it has returned.                         *)
(***************************************************************************)
EXTENDS ChunkStore

CONSTANT MaxAttempts   \* BrokerStore.maxAttempts

ASSUME MaxAttemptsAssumption == MaxAttempts \in Nat \ {0}

VARIABLES
    op,       \* the operation that holds cs.mu and waits for its Put
    arg,      \* the payload of a waiting Append
    attempt,  \* attempts begun by withRetry
    phase,    \* where the current attempt is
    late      \* an upload the client gave up on may still arrive

callVars == <<op, arg, attempt, phase, late>>
brokerVars == <<csVars, callVars>>

Free == op = "none"

\* The operation calls Put.
Begin(o, data) ==
    /\ Free
    /\ op' = o
    /\ arg' = data
    /\ attempt' = 1
    /\ phase' = "url"
    /\ late' = FALSE
    /\ UNCHANGED csVars

\* The call is over and cs.mu is released.
Return ==
    /\ op' = "none"
    /\ arg' = <<>>
    /\ attempt' = 0
    /\ phase' = "idle"
    /\ late' = FALSE

\* FlushActive with a dirty buffer.
BeginFlush == activeDirty /\ Begin("flush", <<>>)

\* Seal with a non-empty buffer.
BeginSeal == activeBuf # <<>> /\ Begin("seal", <<>>)

\* Append of a payload that does not fit the active chunk.
BeginAppend(data) ==
    /\ Len(data) <= MaxChunkSize
    /\ Overflows(data)
    /\ activeBuf # <<>>
    /\ Begin("append", data)

\* Mutant: the buffer can grow while it is being uploaded.
NoPutUnlocked == (SealEmpty \/ \E data \in Data : AppendActive(data)) /\ UNCHANGED callVars

\* The operations that end without a Put.
NoPut ==
    /\ Free
    /\ SealEmpty \/ \E data \in Data : AppendActive(data)
    /\ UNCHANGED callVars

-----------------------------------------------------------------------------
(* One attempt *)

\* Mutant: one attempt too many.
RetryableOnceMore(onWire) ==
    \/ /\ attempt <= MaxAttempts
       /\ phase' = "wait"
       /\ late' = onWire
       /\ UNCHANGED <<op, arg, attempt>>
    \/ /\ attempt > MaxAttempts
       /\ Return

\* The attempt failed with a retryableError: back off, or give the error to
\* the caller after the last attempt.
Retryable(onWire) ==
    \/ /\ attempt < MaxAttempts
       /\ phase' = "wait"
       /\ late' = onWire
       /\ UNCHANGED <<op, arg, attempt>>
    \/ /\ attempt = MaxAttempts
       /\ Return

\* uploadURL: the broker's 200.
URLGranted ==
    /\ phase = "url"
    /\ phase' = "sent"
    /\ UNCHANGED <<csVars, op, arg, attempt, late>>

\* uploadURL: no answer or a 5xx.
URLFailed ==
    /\ phase = "url"
    /\ Retryable(late)
    /\ UNCHANGED csVars

\* A status no retry can mend, from the broker (401, 404, another 4xx, a body
\* that does not decode) or from the storage.
Refused ==
    /\ phase \in {"url", "sent"}
    /\ Return
    /\ UNCHANGED csVars

\* The upload takes effect; its answer is on the way.
StoragePut ==
    /\ phase = "sent"
    /\ Put(activeID, activeBuf)
    /\ phase' = "stored"
    /\ UNCHANGED <<activeID, activeBuf, activeDirty, nextSeq, appended,
                   op, arg, attempt, late>>

\* The storage answers 403 (the URL has expired) or 5xx and has stored nothing.
StorageFailed ==
    /\ phase = "sent"
    /\ Retryable(late)
    /\ UNCHANGED csVars

\* The client times out or the connection breaks, before or after the effect.
NoAnswer ==
    /\ phase \in {"sent", "stored"}
    /\ Retryable(late \/ phase = "sent")
    /\ UNCHANGED csVars

\* An earlier attempt's upload arrives after all.
LateArrival ==
    /\ late
    /\ Put(activeID, activeBuf)
    /\ late' = FALSE
    /\ UNCHANGED <<activeID, activeBuf, activeDirty, nextSeq, appended,
                   op, arg, attempt, phase>>

\* Mutant: the attempts are not counted.
RetryUncounted ==
    /\ phase = "wait"
    /\ phase' = "url"
    /\ UNCHANGED <<csVars, op, arg, attempt, late>>

\* The backoff is over.
Retry ==
    /\ phase = "wait"
    /\ attempt' = attempt + 1
    /\ phase' = "url"
    /\ UNCHANGED <<csVars, op, arg, late>>

\* The caller's context was cancelled during the backoff.
Cancelled ==
    /\ phase = "wait"
    /\ Return
    /\ UNCHANGED csVars

\* Mutant: the flag of the sealed chunk is left to the next one.
FinishStaysDirty ==
    \/ /\ op = "flush"
       /\ activeDirty' = FALSE
       /\ UNCHANGED <<activeID, activeBuf, nextSeq, appended>>
    \/ /\ op = "seal"
       /\ OpenNext
       /\ activeBuf' = <<>>
       /\ UNCHANGED <<activeDirty, appended>>
    \/ /\ op = "append"
       /\ OpenNext
       /\ activeBuf' = arg
       /\ activeDirty' = TRUE
       /\ Record(chunkID(nextSeq), arg)

\* The caller's part once its bytes are stored: what FlushActive and
\* sealLocked do after Put has returned, and for Append the new extent.
Finish ==
    \/ /\ op = "flush"
       /\ activeDirty' = FALSE
       /\ UNCHANGED <<activeID, activeBuf, nextSeq, appended>>
    \/ /\ op = "seal"
       /\ OpenNext
       /\ activeBuf' = <<>>
       /\ activeDirty' = FALSE
       /\ UNCHANGED appended
    \/ /\ op = "append"
       /\ OpenNext
       /\ activeBuf' = arg
       /\ activeDirty' = TRUE
       /\ Record(chunkID(nextSeq), arg)

\* The storage's 2xx arrives: Put returns nil.
PutOK ==
    /\ phase = "stored"
    /\ Finish
    /\ Return
    /\ UNCHANGED store

-----------------------------------------------------------------------------

\* The process is killed, in a call or between calls, and a new one starts.
Killed == Restart /\ Return

BrokerInit ==
    /\ CSInit
    /\ op = "none"
    /\ arg = <<>>
    /\ attempt = 0
    /\ phase = "idle"
    /\ late = FALSE

\* The steps of the call that holds cs.mu.
CallStep ==
    \/ URLGranted
    \/ URLFailed
    \/ Refused
    \/ StoragePut
    \/ StorageFailed
    \/ NoAnswer
    \/ Retry
    \/ Cancelled
    \/ PutOK

BrokerNext ==
    \/ NoPut
    \/ BeginFlush
    \/ BeginSeal
    \/ \E data \in Data : BeginAppend(data)
    \/ CallStep
    \/ LateArrival
    \/ Killed

BrokerSpec == BrokerInit /\ [][BrokerNext]_brokerVars

\* A request ends by an answer or by the client's timeout and a backoff by its
\* timer, so a call that holds cs.mu always moves on.
FairBrokerSpec == BrokerSpec /\ WF_brokerVars(CallStep)

-----------------------------------------------------------------------------
(* Properties *)

\* Types, with the two limits of the code: no chunk outgrows cfg.ChunkSize in
\* memory or in the store, and an attempt is under way exactly while cs.mu is
\* held, its number within MaxAttempts.
BrokerTypeOK ==
    /\ CSTypeOK /\ ChunkSizeBound
    /\ op \in {"none", "flush", "seal", "append"}
    /\ arg \in IF op = "append" THEN Data ELSE {<<>>}
    /\ phase \in IF Free THEN {"idle"} ELSE {"url", "sent", "stored", "wait"}
    /\ attempt \in IF Free THEN {0} ELSE 1..MaxAttempts
    /\ late \in IF Free THEN {FALSE} ELSE BOOLEAN

\* The refinement.  To its callers a Put made of retried requests is the Put
\* of ChunkStore: it happened, or it failed and happened or not; retries,
\* repeated and late uploads are invisible.
ImplementsChunkStore == CSSpec

\* The chunks a reader can find bytes of.
Readable == DOMAIN store \cup (IF activeBuf = <<>> THEN {} ELSE {activeID})

Log == INSTANCE ChunkLog WITH
    ID <- ChunkIDs,
    log <- [id \in Readable |-> Contents(id)],
    durable <- store

\* The refinement, one level up.  The active chunk, sealing, flushing, retries
\* and recovery together are a set of append-only logs with a durable
\* beginning: no acknowledged byte moves or changes, a crash keeps exactly what
\* the store held, and no new chunk is opened over an old one.
ImplementsChunkLog == Log!Spec

\* A call gives cs.mu back: every read, write and persist of the daemon waits
\* for it (withRetry bounds the attempts).
CallEnds == (op # "none") ~> (op = "none")
=============================================================================
