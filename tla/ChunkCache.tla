----------------------------- MODULE ChunkCache -----------------------------
(***************************************************************************)
(* The disk cache of sealed chunks, internal/chunks/cache.go: readers that *)
(* miss fetch the whole chunk once, together, and are served from its file *)
(* afterwards.  c.mu is held from the second look at the file to the entry *)
(* in c.inflight; everything else interleaves.                             *)
(*                                                                         *)
(* A sealed chunk never changes; byte i of chunk c is the pair <<c, i>>.   *)
(* Requests lie within the chunk, as extents do.                           *)
(***************************************************************************)
EXTENDS Integers, Sequences

CONSTANTS
    Chunk,  \* chunk ids
    Size,   \* bytes of a chunk
    Proc    \* goroutines serving reads

ASSUME SizeAssumption == Size \in Nat \ {0}
ASSUME ChunkAssumption == Chunk # {}

VARIABLES
    sealed,    \* chunks readers may ask for; the others are still active
    object,    \* the backing store: chunk -> bytes
    file,      \* the cache directory: chunk -> bytes
    tmp,       \* temporary files there: chunk -> bytes
    inflight,  \* c.inflight: none, or the state of the entry's fetch
    pc,        \* where each reader is
    req,       \* its chunk, offset and length
    data,      \* the bytes a fetcher has
    result     \* what its last read returned

disk == <<file, tmp>>
vars == <<sealed, object, disk, inflight, pc, req, data, result>>

Absent == <<>>
Content(c) == [i \in 1..Size |-> <<c, i>>]
Slice(s, r) == SubSeq(s, r.off + 1, r.off + r.len)
Requests == {r \in [chunk : Chunk, off : 0..(Size - 1), len : 1..Size] : r.off + r.len <= Size}
Err == << <<"error", 0>> >>

Goto(p, l) == pc' = [pc EXCEPT ![p] = l]
Return(p, r) == Goto(p, "idle") /\ result' = [result EXCEPT ![p] = r]
C(p) == req[p].chunk

\* readFileSlice finds the file, and the file has all the bytes.
Cached(p) == Len(file[C(p)]) >= req[p].off + req[p].len

-----------------------------------------------------------------------------
(* Sealing *)

\* sealLocked uploads the chunk and puts it in the cache; a failing put is
\* ignored.
SealPut(c) ==
    /\ c \notin sealed
    /\ sealed' = sealed \cup {c}
    /\ object' = [object EXCEPT ![c] = Content(c)]
    /\ file' \in {file, [file EXCEPT ![c] = Content(c)]}
    /\ UNCHANGED <<tmp, inflight, pc, req, data, result>>

\* A compaction, in another process, deletes the object.
Delete(c) ==
    /\ c \in sealed /\ object[c] # Absent
    /\ object' = [object EXCEPT ![c] = Absent]
    /\ UNCHANGED <<sealed, disk, inflight, pc, req, data, result>>

-----------------------------------------------------------------------------
(* readRange *)

Read(p, r) ==
    /\ pc[p] = "idle" /\ r.chunk \in sealed
    /\ req' = [req EXCEPT ![p] = r]
    /\ result' = [result EXCEPT ![p] = Absent]
    /\ Goto(p, "fast")
    /\ UNCHANGED <<sealed, object, disk, inflight, data>>

FastPath(p) ==
    /\ pc[p] = "fast"
    /\ IF Cached(p) THEN Return(p, Slice(file[C(p)], req[p]))
       ELSE Goto(p, "lock") /\ UNCHANGED result
    /\ UNCHANGED <<sealed, object, disk, inflight, req, data>>

\* Where a reader goes that finds an entry: the channel of a finished fetch is
\* closed already.
Joined(entry) == CASE entry = "fetching" -> "wait" [] entry = "ok" -> "woken" [] entry = "failed" -> "fail"

\* Mutant: no second look at the file.
LockedNoRecheck(p) ==
    /\ pc[p] = "lock"
    /\ IF inflight[C(p)] # "none"
       THEN Goto(p, Joined(inflight[C(p)])) /\ UNCHANGED <<inflight, result>>
       ELSE /\ inflight' = [inflight EXCEPT ![C(p)] = "fetching"]
            /\ Goto(p, "size") /\ UNCHANGED result
    /\ UNCHANGED <<sealed, object, disk, req, data>>

\* Under c.mu: look at the file again, join a fetch, or become the fetcher.
Locked(p) ==
    /\ pc[p] = "lock"
    /\ IF Cached(p) THEN Return(p, Slice(file[C(p)], req[p])) /\ UNCHANGED inflight
       ELSE IF inflight[C(p)] # "none"
       THEN Goto(p, Joined(inflight[C(p)])) /\ UNCHANGED <<inflight, result>>
       ELSE /\ inflight' = [inflight EXCEPT ![C(p)] = "fetching"]
            /\ Goto(p, "size") /\ UNCHANGED result
    /\ UNCHANGED <<sealed, object, disk, req, data>>

\* fetchFullChunk: Size, then GetRange of all of it.
GetSize(p) ==
    /\ pc[p] = "size" /\ object[C(p)] # Absent
    /\ Goto(p, "get")
    /\ UNCHANGED <<sealed, object, disk, inflight, req, data, result>>

\* Mutant: the waiters are told before the file is in place.
GetRangeCloses(p) ==
    /\ pc[p] = "get" /\ object[C(p)] # Absent
    /\ data' = [data EXCEPT ![p] = object[C(p)]]
    /\ Goto(p, "closeOk")
    /\ UNCHANGED <<sealed, object, disk, inflight, req, result>>

GetRange(p) ==
    /\ pc[p] = "get" /\ object[C(p)] # Absent
    /\ data' = [data EXCEPT ![p] = object[C(p)]]
    /\ Goto(p, "create")
    /\ UNCHANGED <<sealed, object, disk, inflight, req, result>>

\* Mutant: the file is written in place, byte after byte.
FillInPlace(p) ==
    /\ pc[p] = "fill"
    /\ file' = [file EXCEPT ![C(p)] = SubSeq(data[p], 1, Len(@) + 1)]
    /\ Goto(p, IF file'[C(p)] = data[p] THEN "closeOk" ELSE "fill")
    /\ UNCHANGED <<sealed, object, tmp, inflight, req, data, result>>

\* writeAtomic: the bytes go to a temporary file that is renamed.
CreateTmp(p) ==
    /\ pc[p] = "create"
    /\ tmp' = [tmp EXCEPT ![C(p)] = Absent]
    /\ Goto(p, "fill")
    /\ UNCHANGED <<sealed, object, file, inflight, req, data, result>>

\* Not all at once.
FillTmp(p) ==
    /\ pc[p] = "fill"
    /\ tmp' = [tmp EXCEPT ![C(p)] = SubSeq(data[p], 1, Len(@) + 1)]
    /\ Goto(p, IF tmp'[C(p)] = data[p] THEN "rename" ELSE "fill")
    /\ UNCHANGED <<sealed, object, file, inflight, req, data, result>>

RenameTmp(p) ==
    /\ pc[p] = "rename"
    /\ file' = [file EXCEPT ![C(p)] = tmp[C(p)]]
    /\ tmp' = [tmp EXCEPT ![C(p)] = Absent]
    /\ Goto(p, "closeOk")
    /\ UNCHANGED <<sealed, object, inflight, req, data, result>>

\* The store or the disk fails, or the request is cancelled meanwhile.  A file
\* that cannot be renamed is removed, one that cannot be written stays.
FetchError(p) ==
    /\ pc[p] \in {"size", "get", "create", "fill", "rename"}
    /\ data' = [data EXCEPT ![p] = Absent]
    /\ tmp' = IF pc[p] = "rename" THEN [tmp EXCEPT ![C(p)] = Absent] ELSE tmp
    /\ Goto(p, "closeErr")
    /\ UNCHANGED <<sealed, object, file, inflight, req, result>>

\* Mutant: a fetch that fails leaves without closing the channel.
CloseOnSuccess(p) ==
    /\ pc[p] \in {"closeOk", "closeErr"}
    /\ inflight' = [inflight EXCEPT ![C(p)] = IF pc[p] = "closeOk" THEN "ok" ELSE @]
    /\ pc' = [q \in Proc |->
                IF q = p THEN "delete"
                ELSE IF pc[q] = "wait" /\ C(q) = C(p) THEN Joined(inflight'[C(p)])
                ELSE pc[q]]
    /\ UNCHANGED <<sealed, object, disk, req, data, result>>

\* inf.err is set and inf.ready closed: every waiter can go on.
Close(p) ==
    /\ pc[p] \in {"closeOk", "closeErr"}
    /\ inflight' = [inflight EXCEPT ![C(p)] = IF pc[p] = "closeOk" THEN "ok" ELSE "failed"]
    /\ pc' = [q \in Proc |->
                IF q = p THEN "delete"
                ELSE IF pc[q] = "wait" /\ C(q) = C(p)
                THEN Joined(inflight'[C(p)])
                ELSE pc[q]]
    /\ UNCHANGED <<sealed, object, disk, req, data, result>>

\* Mutant: the fetcher answers from the start of the chunk.
DeleteEntryNoOffset(p) ==
    /\ pc[p] = "delete"
    /\ inflight' = [inflight EXCEPT ![C(p)] = "none"]
    /\ Return(p, IF data[p] = Absent THEN Err ELSE SubSeq(data[p], 1, req[p].len))
    /\ data' = [data EXCEPT ![p] = Absent]
    /\ UNCHANGED <<sealed, object, disk, req>>

\* The entry leaves the map; the fetcher answers from the bytes it has.
DeleteEntry(p) ==
    /\ pc[p] = "delete"
    /\ inflight' = [inflight EXCEPT ![C(p)] = "none"]
    /\ Return(p, IF data[p] = Absent THEN Err ELSE Slice(data[p], req[p]))
    /\ data' = [data EXCEPT ![p] = Absent]
    /\ UNCHANGED <<sealed, object, disk, req>>

\* The fetch worked: read the file.
Woken(p) ==
    /\ pc[p] = "woken"
    /\ Return(p, IF Cached(p) THEN Slice(file[C(p)], req[p]) ELSE Err)
    /\ UNCHANGED <<sealed, object, disk, inflight, req, data>>

\* The fetch failed, or the waiter's own request was cancelled.
WaitError(p) ==
    /\ pc[p] \in {"fail", "wait"}
    /\ Return(p, Err)
    /\ UNCHANGED <<sealed, object, disk, inflight, req, data>>

-----------------------------------------------------------------------------
Init ==
    /\ sealed \in SUBSET Chunk
    /\ object = [c \in Chunk |-> IF c \in sealed THEN Content(c) ELSE Absent]
    /\ file = [c \in Chunk |-> Absent]
    /\ tmp = [c \in Chunk |-> Absent]
    /\ inflight = [c \in Chunk |-> "none"]
    /\ pc = [p \in Proc |-> "idle"]
    /\ req = [p \in Proc |-> [chunk |-> CHOOSE c \in Chunk : TRUE, off |-> 0, len |-> 1]]
    /\ data = [p \in Proc |-> Absent]
    /\ result = [p \in Proc |-> Absent]

Step(p) ==
    \/ FastPath(p) \/ Locked(p) \/ GetSize(p) \/ GetRange(p)
    \/ CreateTmp(p) \/ FillTmp(p) \/ RenameTmp(p) \/ FetchError(p)
    \/ Close(p) \/ DeleteEntry(p) \/ Woken(p) \/ WaitError(p)

Next ==
    \/ \E c \in Chunk : SealPut(c) \/ Delete(c)
    \/ \E p \in Proc : Step(p) \/ \E r \in Requests : Read(p, r)

\* A goroutine that can run does; that a caller gives up waiting is not assumed.
Fairness == \A p \in Proc : WF_vars(Step(p) /\ pc[p] # "wait")

Spec == Init /\ [][Next]_vars /\ Fairness

-----------------------------------------------------------------------------
(* Properties *)

\* A read that succeeds returns the bytes asked for, from memory, from the file
\* of another goroutine's fetch or from its own, also when the object is deleted
\* meanwhile.
ReadsRight == \A p \in Proc : result[p] \in {Absent, Err, Slice(Content(C(p)), req[p])}

\* No reader ever sees a partial file (writeAtomic).
FilesWhole == \A c \in Chunk : file[c] \in {Absent, Content(c)}

\* Once a chunk is cached it is never fetched again, and two goroutines never
\* fetch the same chunk (c.inflight and the second look under c.mu).
FetchedOnce ==
    /\ \A p \in Proc : pc[p] \in {"size", "get"} => file[C(p)] = Absent
    /\ \A p, q \in Proc : p # q /\ C(p) = C(q) =>
          ~({pc[p], pc[q]} \subseteq {"size", "get", "create", "fill", "rename"})

\* A waiter that is told the fetch worked finds its bytes on disk.
WaitersServed == \A p \in Proc : pc[p] = "woken" => Cached(p)

\* Every read ends: nobody waits for a fetch nobody is making.
ReadsEnd == \A p \in Proc : pc[p] # "idle" ~> pc[p] = "idle"
=============================================================================
