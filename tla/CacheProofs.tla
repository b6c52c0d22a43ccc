----------------------------- MODULE CacheProofs -----------------------------
(***************************************************************************)
(* The cache of sealed chunks, for any number of readers, chunks and bytes *)
(* and any failures.                                                       *)
(*                                                                         *)
(* The argument: an entry of c.inflight belongs to the one goroutine that  *)
(* made it, so one goroutine at a time writes the files of a chunk; what   *)
(* it renames into place is the whole chunk; and the entry says ok only    *)
(* once it has.                                                            *)
(***************************************************************************)
EXTENDS ChunkCache, TLAPS

\* Where a goroutine is while it fetches a chunk, closes the entry of its fetch
\* and deletes it, and where it can be at all.
Fetching == {"size", "get", "create", "fill", "rename"}
Closing == {"closeOk", "closeErr"}
Busy == Fetching \cup Closing \cup {"delete"}
Places == {"idle", "fast", "lock", "wait", "woken", "fail"} \cup Busy

\* Nothing, or the whole of a chunk.
Bytes == {Absent} \cup {Content(c) : c \in Chunk}

\* Types; a temporary file can hold anything.
CacheTypes ==
    /\ sealed \subseteq Chunk
    /\ object \in [Chunk -> Bytes] /\ file \in [Chunk -> Bytes]
    /\ DOMAIN tmp = Chunk
    /\ inflight \in [Chunk -> {"none", "fetching", "ok", "failed"}]
    /\ pc \in [Proc -> Places]
    /\ req \in [Proc -> Requests]
    /\ data \in [Proc -> Bytes]
    /\ DOMAIN result = Proc

\* Only sealed chunks are asked for.
AskedSealed == \A p \in Proc : pc[p] # "idle" => C(p) \in sealed

\* The entry of a fetch belongs to one goroutine, from the moment it is made
\* until it is deleted.
EntryHeld ==
    /\ \A p \in Proc : pc[p] \in Fetching \cup Closing => inflight[C(p)] = "fetching"
    /\ \A p \in Proc : pc[p] = "delete" => inflight[C(p)] \in {"ok", "failed"}
    /\ \A p, q \in Proc : p # q /\ C(p) = C(q) => ~(pc[p] \in Busy /\ pc[q] \in Busy)

\* What is where while a chunk is fetched.
BytesRight ==
    /\ \A c \in Chunk : object[c] \in {Absent, Content(c)}
    /\ \A c \in Chunk : inflight[c] = "ok" => file[c] = Content(c)
    /\ \A p \in Proc : pc[p] \in {"size", "get"} => file[C(p)] = Absent
    /\ \A p \in Proc : pc[p] \in {"closeOk", "woken"} => file[C(p)] = Content(C(p))
    /\ \A p \in Proc : data[p] = Absent \/ (pc[p] \in Busy /\ data[p] = Content(C(p)))
    /\ \A p \in Proc : pc[p] \in {"create", "fill", "rename"} => data[p] = Content(C(p))
    /\ \A p \in Proc : pc[p] = "rename" => tmp[C(p)] = Content(C(p))

\* The inductive invariant.
CacheInv == CacheTypes /\ AskedSealed /\ EntryHeld /\ BytesRight /\ FilesWhole /\ ReadsRight

-----------------------------------------------------------------------------
(* Files *)

\* A chunk is not empty.
LEMMA ContentWhole == \A c \in Chunk : Len(Content(c)) = Size /\ Content(c) # Absent
BY SizeAssumption DEF Content, Absent

\* A file that has the bytes asked for has all bytes of the chunk.
LEMMA CachedWhole ==
    ASSUME CacheTypes, FilesWhole, NEW p \in Proc
    PROVE  /\ C(p) \in Chunk
           /\ Cached(p) <=> file[C(p)] = Content(C(p))
           /\ ~Cached(p) <=> file[C(p)] = Absent
<1>1. req[p] \in Requests /\ C(p) \in Chunk
  BY DEF CacheTypes, C, Requests
<1>2. req[p].off + req[p].len \in 1..Size
  BY <1>1, SizeAssumption DEF Requests
<1>3. file[C(p)] \in {Absent, Content(C(p))}
  BY <1>1 DEF FilesWhole
<1>. QED
  BY <1>1, <1>2, <1>3, ContentWhole, SizeAssumption DEF Cached, Absent

-----------------------------------------------------------------------------
(* The steps *)

\* A goroutine that goes somewhere and changes nothing else but its answer.
LEMMA Moves ==
    ASSUME CacheInv, NEW p \in Proc, NEW l \in Places, Goto(p, l),
           UNCHANGED <<sealed, object, disk, inflight, req, data>>,
           pc[p] # "idle", l \in Busy => pc[p] \in Busy,
           pc[p] \in Busy => l \in Busy,
           l \in Fetching \cup Closing => pc[p] \in Fetching \cup Closing,
           l = "delete" => pc[p] = "delete",
           l \in {"size", "get", "closeOk"} => pc[p] \in {"size", "get"} /\ l # "closeOk",
           l = "woken" => file[C(p)] = Content(C(p)),
           l \in {"create", "fill", "rename"} => FALSE,
           \/ UNCHANGED result
           \/ \E r \in {Err, Slice(Content(C(p)), req[p])} : result' = [result EXCEPT ![p] = r]
    PROVE  CacheInv'
<1>1. CacheTypes'
  BY DEF CacheInv, CacheTypes, Goto, disk
<1>2. pc' = [pc EXCEPT ![p] = l] /\ \A q \in Proc : pc'[q] = IF q = p THEN l ELSE pc[q]
  BY DEF CacheInv, CacheTypes, Goto
<1>3. AskedSealed'
  BY <1>2 DEF CacheInv, AskedSealed, C
<1>4. EntryHeld'
  BY <1>2 DEF CacheInv, EntryHeld, C
<1>5. BytesRight'
  BY <1>2 DEF CacheInv, BytesRight, C, disk
<1>6. FilesWhole'
  BY DEF CacheInv, FilesWhole, disk
<1>7. ReadsRight'
  BY DEF CacheInv, CacheTypes, ReadsRight, C
<1>. QED
  BY <1>1, <1>3, <1>4, <1>5, <1>6, <1>7 DEF CacheInv

\* The steps of a fetch change, besides where its goroutine is, only the bytes
\* it holds and the temporary file.
LEMMA FetchMoves ==
    ASSUME CacheInv, NEW p \in Proc, NEW l \in {"get", "create", "fill", "rename", "closeErr"},
           Goto(p, l), pc[p] \in Fetching,
           UNCHANGED <<sealed, object, file, inflight, req, result>>,
           DOMAIN tmp' = Chunk, \A c \in Chunk \ {C(p)} : tmp'[c] = tmp[c],
           data' \in [Proc -> Bytes], \A q \in Proc \ {p} : data'[q] = data[q],
           data'[p] \in {Absent, Content(C(p))},
           l = "get" => pc[p] = "size",
           l \in {"create", "fill", "rename"} => data'[p] = Content(C(p)),
           l = "rename" => tmp'[C(p)] = Content(C(p))
    PROVE  CacheInv'
<1>1. CacheTypes'
  BY Zenon DEF CacheInv, CacheTypes, Goto, Places, Busy, Fetching, Closing
<1>2. \A q \in Proc : pc'[q] = IF q = p THEN l ELSE pc[q]
  BY DEF CacheInv, CacheTypes, Goto
<1>3. AskedSealed'
  BY <1>2 DEF CacheInv, AskedSealed, C, Fetching
<1>4. EntryHeld'
  BY <1>2 DEF CacheInv, EntryHeld, C, Fetching, Closing, Busy
<1>5. BytesRight'
  <2>1. \A q \in Proc : C(q)' = C(q) /\ C(q) \in Chunk
    BY DEF CacheInv, CacheTypes, C, Requests
  <2>2. \A q \in Proc : q # p /\ pc[q] \in Busy => C(q) # C(p)
    BY DEF CacheInv, EntryHeld, Busy
  <2>. QED
    BY <1>2, <2>1, <2>2 DEF CacheInv, BytesRight, Fetching, Closing, Busy
<1>6. FilesWhole' /\ ReadsRight'
  BY DEF CacheInv, FilesWhole, ReadsRight, C
<1>. QED
  BY <1>1, <1>3, <1>4, <1>5, <1>6 DEF CacheInv

\* A reader looks at the file, alone or after somebody else's fetch.
LEMMA ReaderSteps ==
    ASSUME CacheInv, NEW p \in Proc, FastPath(p) \/ Woken(p) \/ WaitError(p)
    PROVE  CacheInv'
<1>. USE DEF Places, Busy, Fetching, Closing
<1>1. /\ C(p) \in Chunk
      /\ Cached(p) <=> file[C(p)] = Content(C(p))
      /\ ~Cached(p) <=> file[C(p)] = Absent
  BY CachedWhole DEF CacheInv
<1>2. CASE FastPath(p)
  BY <1>1, <1>2, Moves DEF FastPath, Return
<1>3. CASE Woken(p)
  BY <1>1, <1>3, Moves, Zenon DEF Woken, Return
<1>4. CASE WaitError(p)
  BY <1>4, Moves, Zenon DEF WaitError, Return
<1>. QED
  BY <1>2, <1>3, <1>4

\* Under c.mu a reader finds the file, joins the fetch that is under way or
\* becomes the one who fetches.
LEMMA LockedInv == ASSUME CacheInv, NEW p \in Proc, Locked(p) PROVE CacheInv'
<1>. USE DEF Places, Busy, Fetching, Closing
<1>1. /\ C(p) \in Chunk
      /\ Cached(p) <=> file[C(p)] = Content(C(p))
      /\ ~Cached(p) <=> file[C(p)] = Absent
  BY CachedWhole DEF CacheInv
<1>2. CASE Cached(p)
  BY <1>1, <1>2, Moves DEF Locked, Return
<1>3. CASE ~Cached(p) /\ inflight[C(p)] # "none"
  <2>1. Joined(inflight[C(p)]) \in {"wait", "woken", "fail"}
    BY <1>1, <1>3 DEF CacheInv, CacheTypes, Joined
  <2>2. Joined(inflight[C(p)]) = "woken" => file[C(p)] = Content(C(p))
    BY <1>1, <1>3 DEF CacheInv, CacheTypes, Joined, BytesRight
  <2>. QED
    BY <1>3, <2>1, <2>2, Moves DEF Locked
<1>4. CASE ~Cached(p) /\ inflight[C(p)] = "none"
  <2>1. /\ pc[p] = "lock" /\ pc' = [pc EXCEPT ![p] = "size"]
        /\ inflight' = [inflight EXCEPT ![C(p)] = "fetching"]
        /\ UNCHANGED <<sealed, object, file, tmp, req, data, result>>
    BY <1>4 DEF Locked, Goto, disk
  <2>2. \A q \in Proc : pc'[q] = IF q = p THEN "size" ELSE pc[q]
    BY <2>1 DEF CacheInv, CacheTypes
  <2>3. \A q \in Proc : pc[q] \in Busy => C(q) # C(p)
    BY <1>4 DEF CacheInv, EntryHeld
  <2>4. \A c \in Chunk : inflight'[c] = IF c = C(p) THEN "fetching" ELSE inflight[c]
    BY <2>1 DEF CacheInv, CacheTypes
  <2>5. \A q \in Proc : C(q)' = C(q) /\ C(q) \in Chunk
    BY <2>1 DEF CacheInv, CacheTypes, C, Requests
  <2>6. CacheTypes'
    BY <1>1, <2>1 DEF CacheInv, CacheTypes
  <2>7. AskedSealed' /\ EntryHeld'
    BY <2>1, <2>2, <2>3, <2>4, <2>5 DEF CacheInv, AskedSealed, EntryHeld
  <2>8. BytesRight'
    BY <1>1, <1>4, <2>1, <2>2, <2>4, <2>5 DEF CacheInv, BytesRight
  <2>9. FilesWhole' /\ ReadsRight'
    BY <2>1 DEF CacheInv, FilesWhole, ReadsRight, C
  <2>. QED
    BY <2>6, <2>7, <2>8, <2>9 DEF CacheInv
<1>. QED
  BY <1>2, <1>3, <1>4

\* The fetch up to the rename.
LEMMA FetchSteps ==
    ASSUME CacheInv, NEW p \in Proc,
           GetSize(p) \/ GetRange(p) \/ CreateTmp(p) \/ FillTmp(p) \/ FetchError(p)
    PROVE  CacheInv'
<1>. USE DEF Fetching
<1>1. C(p) \in Chunk /\ data[p] \in Bytes
  BY DEF CacheInv, CacheTypes, C, Requests
<1>2. CASE GetSize(p)
  BY <1>1, <1>2, FetchMoves DEF GetSize, CacheInv, CacheTypes, BytesRight, Busy, disk
<1>3. CASE GetRange(p)
  <2>1. object[C(p)] = Content(C(p)) /\ object[C(p)] \in Bytes
    BY <1>1, <1>3 DEF GetRange, CacheInv, CacheTypes, BytesRight
  <2>2. data' = [data EXCEPT ![p] = Content(C(p))]
    BY <1>3, <2>1 DEF GetRange
  <2>3. data' \in [Proc -> Bytes] /\ data'[p] = Content(C(p)) /\ \A q \in Proc \ {p} : data'[q] = data[q]
    BY <2>1, <2>2, Zenon DEF CacheInv, CacheTypes
  <2>. QED
    BY <1>1, <1>3, <2>3, FetchMoves DEF GetRange, CacheInv, CacheTypes, disk
<1>4. CASE CreateTmp(p)
  BY <1>1, <1>4, FetchMoves DEF CreateTmp, CacheInv, CacheTypes, BytesRight, Busy
<1>5. CASE FillTmp(p)
  <2>1. data[p] = Content(C(p)) /\ data' = data /\ data \in [Proc -> Bytes]
    BY <1>5 DEF FillTmp, CacheInv, CacheTypes, BytesRight
  <2>2. DOMAIN tmp' = Chunk /\ \A c \in Chunk \ {C(p)} : tmp'[c] = tmp[c]
    BY <1>5 DEF FillTmp, CacheInv, CacheTypes
  <2>. QED
    BY <1>5, <2>1, <2>2, FetchMoves DEF FillTmp
<1>6. CASE FetchError(p)
  <2>1. DOMAIN tmp' = Chunk /\ \A c \in Chunk \ {C(p)} : tmp'[c] = tmp[c]
    BY <1>6 DEF FetchError, CacheInv, CacheTypes
  <2>2. data' \in [Proc -> Bytes] /\ data'[p] = Absent /\ \A q \in Proc \ {p} : data'[q] = data[q]
    BY <1>6 DEF FetchError, CacheInv, CacheTypes, Bytes
  <2>. QED
    BY <1>6, <2>1, <2>2, FetchMoves DEF FetchError
<1>. QED
  BY <1>2, <1>3, <1>4, <1>5, <1>6

\* writeAtomic puts the whole chunk in place.
LEMMA RenameInv == ASSUME CacheInv, NEW p \in Proc, RenameTmp(p) PROVE CacheInv'
<1>1. /\ pc[p] = "rename" /\ pc' = [pc EXCEPT ![p] = "closeOk"]
      /\ file' = [file EXCEPT ![C(p)] = Content(C(p))]
      /\ tmp' = [tmp EXCEPT ![C(p)] = Absent]
      /\ UNCHANGED <<sealed, object, inflight, req, data, result>>
  BY Zenon DEF RenameTmp, Goto, CacheInv, BytesRight
<1>2. \A q \in Proc : C(q)' = C(q) /\ C(q) \in Chunk
  BY <1>1 DEF CacheInv, CacheTypes, C, Requests
<1>3. \A q \in Proc : q # p /\ pc[q] \in Busy => C(q) # C(p)
  BY <1>1 DEF CacheInv, EntryHeld, Busy, Fetching
<1>4. \A q \in Proc : pc'[q] = IF q = p THEN "closeOk" ELSE pc[q]
  BY <1>1 DEF CacheInv, CacheTypes
<1>5. \A c \in Chunk : /\ file'[c] = IF c = C(p) THEN Content(c) ELSE file[c]
                       /\ c # C(p) => tmp'[c] = tmp[c]
  BY <1>1 DEF CacheInv, CacheTypes
<1>6. CacheTypes'
  BY <1>1, <1>2 DEF CacheInv, CacheTypes, Places, Busy, Closing, Bytes
<1>7. AskedSealed' /\ EntryHeld'
  BY <1>1, <1>2, <1>4 DEF CacheInv, AskedSealed, EntryHeld, Fetching, Closing, Busy
<1>8. BytesRight'
  BY <1>1, <1>2, <1>3, <1>4, <1>5 DEF CacheInv, BytesRight, Fetching, Closing, Busy
<1>9. FilesWhole' /\ ReadsRight'
  BY <1>1, <1>5 DEF CacheInv, FilesWhole, ReadsRight, C
<1>. QED
  BY <1>6, <1>7, <1>8, <1>9 DEF CacheInv

\* The fetch is over: the entry tells the waiters how it ended.
LEMMA CloseInv == ASSUME CacheInv, NEW p \in Proc, Close(p) PROVE CacheInv'
<1>. DEFINE e == IF pc[p] = "closeOk" THEN "ok" ELSE "failed"
<1>1. /\ pc[p] \in Closing /\ inflight' = [inflight EXCEPT ![C(p)] = e]
      /\ UNCHANGED <<sealed, object, file, tmp, req, data, result>>
  BY DEF Close, Closing, disk
<1>2. \A q \in Proc : C(q)' = C(q) /\ C(q) \in Chunk
  BY <1>1 DEF CacheInv, CacheTypes, C, Requests
<1>3. \A q \in Proc : q # p /\ pc[q] \in Busy => C(q) # C(p)
  BY <1>1 DEF CacheInv, EntryHeld, Busy
<1>4. \A c \in Chunk : inflight'[c] = IF c = C(p) THEN e ELSE inflight[c]
  BY <1>1 DEF CacheInv, CacheTypes
<1>5. Joined(inflight'[C(p)]) = IF pc[p] = "closeOk" THEN "woken" ELSE "fail"
  BY <1>2, <1>4 DEF Joined
<1>6. /\ pc' \in [Proc -> Places]
      /\ pc'[p] = "delete"
      /\ \A q \in Proc \ {p} : \/ pc'[q] = pc[q]
                               \/ /\ pc[q] = "wait" /\ C(q) = C(p)
                                  /\ pc'[q] = IF pc[p] = "closeOk" THEN "woken" ELSE "fail"
  BY <1>5 DEF Close, CacheInv, CacheTypes, Places, Busy
<1>7. CacheTypes'
  BY <1>1, <1>2, <1>6 DEF CacheInv, CacheTypes
<1>8. AskedSealed'
  BY <1>1, <1>2, <1>6 DEF CacheInv, AskedSealed, Closing
<1>9. EntryHeld'
  <2>1. \A q \in Proc : pc'[q] \in Busy => pc[q] \in Busy /\ (q # p => pc'[q] = pc[q])
    BY <1>1, <1>6 DEF Busy, Closing, Fetching
  <2>2. \A q \in Proc : pc'[q] = "delete" => inflight'[C(q)] \in {"ok", "failed"}
    BY <1>2, <1>3, <1>4, <2>1 DEF CacheInv, EntryHeld, Busy
  <2>3. \A q \in Proc : pc'[q] \in Fetching \cup Closing => inflight'[C(q)] = "fetching"
    BY <1>2, <1>3, <1>4, <1>6, <2>1 DEF CacheInv, EntryHeld, Busy, Fetching, Closing
  <2>. QED
    BY <1>2, <2>1, <2>2, <2>3 DEF CacheInv, EntryHeld
<1>10. BytesRight'
  BY <1>1, <1>2, <1>3, <1>4, <1>6 DEF CacheInv, BytesRight, Busy, Fetching, Closing
<1>11. FilesWhole' /\ ReadsRight'
  BY <1>1 DEF CacheInv, FilesWhole, ReadsRight, C
<1>. QED
  BY <1>7, <1>8, <1>9, <1>10, <1>11 DEF CacheInv

\* The entry is deleted by who made it.
LEMMA DeleteEntryInv == ASSUME CacheInv, NEW p \in Proc, DeleteEntry(p) PROVE CacheInv'
<1>1. /\ pc[p] = "delete" /\ pc' = [pc EXCEPT ![p] = "idle"]
      /\ inflight' = [inflight EXCEPT ![C(p)] = "none"]
      /\ data' = [data EXCEPT ![p] = Absent]
      /\ UNCHANGED <<sealed, object, file, tmp, req>>
  BY DEF DeleteEntry, Return, Goto, disk
<1>2. \A q \in Proc : C(q)' = C(q) /\ C(q) \in Chunk
  BY <1>1 DEF CacheInv, CacheTypes, C, Requests
<1>3. \A q \in Proc : q # p /\ pc[q] \in Busy => C(q) # C(p)
  BY <1>1 DEF CacheInv, EntryHeld, Busy
<1>4. \A q \in Proc : /\ pc'[q] = IF q = p THEN "idle" ELSE pc[q]
                      /\ data'[q] = IF q = p THEN Absent ELSE data[q]
  BY <1>1 DEF CacheInv, CacheTypes
<1>5. \A c \in Chunk : inflight'[c] = IF c = C(p) THEN "none" ELSE inflight[c]
  BY <1>1 DEF CacheInv, CacheTypes
<1>6. CacheTypes'
  BY <1>1, Zenon DEF DeleteEntry, Return, CacheInv, CacheTypes, Places, Bytes
<1>7. AskedSealed' /\ EntryHeld'
  BY <1>1, <1>2, <1>3, <1>4, <1>5 DEF CacheInv, AskedSealed, EntryHeld, Busy, Fetching, Closing
<1>8. BytesRight'
  BY <1>1, <1>2, <1>3, <1>4, <1>5 DEF CacheInv, BytesRight, Busy, Fetching, Closing
<1>9. ReadsRight'
  <2>1. data[p] \in {Absent, Content(C(p))}
    BY DEF CacheInv, BytesRight
  <2>2. \E r \in {Err, Slice(Content(C(p)), req[p])} : result' = [result EXCEPT ![p] = r]
    BY <2>1, Zenon DEF DeleteEntry, Return
  <2>. QED
    BY <1>1, <2>2 DEF CacheInv, CacheTypes, ReadsRight, C
<1>10. FilesWhole'
  BY <1>1 DEF CacheInv, FilesWhole
<1>. QED
  BY <1>6, <1>7, <1>8, <1>9, <1>10 DEF CacheInv

\* A read begins.
LEMMA ReadInv == ASSUME CacheInv, NEW p \in Proc, NEW r \in Requests, Read(p, r) PROVE CacheInv'
<1>1. /\ pc[p] = "idle" /\ pc' = [pc EXCEPT ![p] = "fast"] /\ r.chunk \in sealed
      /\ req' = [req EXCEPT ![p] = r] /\ result' = [result EXCEPT ![p] = Absent]
      /\ UNCHANGED <<sealed, object, file, tmp, inflight, data>>
  BY DEF Read, Goto, disk
<1>2. CacheTypes'
  BY <1>1 DEF CacheInv, CacheTypes, Places
<1>3. \A q \in Proc : /\ pc'[q] = IF q = p THEN "fast" ELSE pc[q]
                      /\ q # p => req'[q] = req[q] /\ result'[q] = result[q]
                      /\ q = p => req'[q] = r /\ result'[q] = Absent
  BY <1>1 DEF CacheInv, CacheTypes
<1>4. AskedSealed' /\ EntryHeld'
  BY <1>1, <1>3 DEF CacheInv, AskedSealed, EntryHeld, Busy, Fetching, Closing, C
<1>5. BytesRight'
  BY <1>1, <1>3 DEF CacheInv, BytesRight, Busy, Fetching, Closing, C
<1>6. FilesWhole' /\ ReadsRight'
  BY <1>1, <1>3 DEF CacheInv, FilesWhole, ReadsRight, C
<1>. QED
  BY <1>2, <1>4, <1>5, <1>6 DEF CacheInv

\* A chunk is sealed, or its object deleted by a compaction.
LEMMA StoreSteps == ASSUME CacheInv, NEW c \in Chunk, SealPut(c) \/ Delete(c) PROVE CacheInv'
<1>1. \A q \in Proc : C(q) \in Chunk /\ (pc[q] # "idle" => C(q) \in sealed)
  BY DEF CacheInv, CacheTypes, AskedSealed, C, Requests
<1>2. /\ sealed' \in SUBSET Chunk /\ sealed \subseteq sealed'
      /\ object' \in [Chunk -> Bytes] /\ \A d \in Chunk : object'[d] \in {Absent, Content(d)}
      /\ UNCHANGED <<tmp, inflight, pc, req, data, result>>
  BY DEF SealPut, Delete, disk, CacheInv, CacheTypes, Bytes, BytesRight
<1>3. /\ file' \in [Chunk -> Bytes]
      /\ \A d \in Chunk : file'[d] = file[d] \/ (d \notin sealed /\ file'[d] = Content(d))
      /\ \A d \in Chunk : file'[d] \in {Absent, Content(d)}
  <2>1. file \in [Chunk -> Bytes] /\ Content(c) \in Bytes
    BY DEF CacheInv, CacheTypes, Bytes
  <2>2. file' = file \/ (c \notin sealed /\ file' = [file EXCEPT ![c] = Content(c)])
    BY DEF SealPut, Delete, disk
  <2>. QED
    BY <2>1, <2>2 DEF CacheInv, FilesWhole
<1>4. CacheTypes' /\ AskedSealed' /\ EntryHeld' /\ ReadsRight'
  BY <1>2, <1>3 DEF CacheInv, CacheTypes, AskedSealed, EntryHeld, ReadsRight, C
<1>5. BytesRight'
  BY <1>1, <1>2, <1>3 DEF CacheInv, BytesRight, C
<1>. QED
  BY <1>3, <1>4, <1>5 DEF CacheInv, FilesWhole

\* Every step keeps the invariant.
LEMMA CacheStep == CacheInv /\ [Next]_vars => CacheInv'
<1>. SUFFICES ASSUME CacheInv, [Next]_vars PROVE CacheInv'
  OBVIOUS
<1>1. ASSUME NEW p \in Proc, Step(p) PROVE CacheInv'
  BY <1>1, ReaderSteps, LockedInv, FetchSteps, RenameInv, CloseInv, DeleteEntryInv DEF Step
<1>2. CASE UNCHANGED vars
  BY <1>2 DEF vars, disk, CacheInv, CacheTypes, AskedSealed, EntryHeld, BytesRight,
                 FilesWhole, ReadsRight, C
<1>. QED
  BY <1>1, <1>2, StoreSteps, ReadInv DEF Next

\* An empty cache satisfies it.
LEMMA CacheInit == Init => CacheInv
<1>. SUFFICES ASSUME Init PROVE CacheInv
  OBVIOUS
<1>1. [chunk |-> CHOOSE c \in Chunk : TRUE, off |-> 0, len |-> 1] \in Requests
  BY ChunkAssumption, SizeAssumption DEF Requests
<1>2. CacheTypes
  BY <1>1, Zenon DEF Init, CacheTypes, Bytes, Places
<1>3. AskedSealed /\ EntryHeld /\ ReadsRight
  BY DEF Init, AskedSealed, EntryHeld, ReadsRight, Busy, Fetching, Closing
<1>4. \A p \in Proc : C(p) \in Chunk
  BY <1>2 DEF CacheTypes, C, Requests
<1>5. BytesRight /\ FilesWhole
  BY <1>4 DEF Init, BytesRight, FilesWhole
<1>. QED
  BY <1>2, <1>3, <1>5 DEF CacheInv

-----------------------------------------------------------------------------
(* The theorems *)

\* The inductive invariant holds in every interleaving of readRange's callers,
\* sealing and compaction.
THEOREM CacheInvariant == Spec => []CacheInv
BY CacheInit, CacheStep, PTL DEF Spec

\* ReadsRight, for any readers: readRange returns an error or exactly the bytes
\* asked for, also when the object is deleted meanwhile.
THEOREM CachedReadsRight == Spec => []ReadsRight
BY CacheInvariant, PTL DEF CacheInv

\* FilesWhole: writeAtomic never lets a partial file be seen.
THEOREM CachedFilesWhole == Spec => []FilesWhole
BY CacheInvariant, PTL DEF CacheInv

\* FetchedOnce: a chunk on disk is not fetched again, and c.inflight lets no
\* two goroutines fetch the same chunk.
THEOREM ChunkFetchedOnce == Spec => []FetchedOnce
<1>1. CacheInv => FetchedOnce
  BY DEF CacheInv, EntryHeld, BytesRight, FetchedOnce, Busy, Fetching
<1>. QED
  BY <1>1, CacheInvariant, PTL

\* WaitersServed: who waited on a fetch that worked finds its bytes on disk.
THEOREM WaitersFindBytes == Spec => []WaitersServed
<1>1. CacheInv => WaitersServed
  BY CachedWhole DEF CacheInv, BytesRight, WaitersServed
<1>. QED
  BY <1>1, CacheInvariant, PTL
=============================================================================
