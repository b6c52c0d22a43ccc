----------------------------- MODULE FileDataInv ------------------------------
(***************************************************************************)
(* No extent of a file is ever stale, for any number of files, requests,   *)
(* writes and chunks.  The argument follows an extent from Append to the   *)
(* index: while its write is between Append and WriteExtent it leads to    *)
(* the bytes of that write (ExtOK); inside the loop of WriteExtent every   *)
(* surviving piece is a part of an extent that was fresh and lies outside  *)
(* the written range (OverlayOK), so giving that range to the new write    *)
(* leaves the pieces fresh.  Freshness is stated over the appended bytes,  *)
(* which only grow; the chunk store's own invariant (CSInv) says that they *)
(* are what a read finds.                                                  *)
(*                                                                         *)
(* This module has the invariant and the steps that leave the index alone: *)
(* a write up to the loop of WriteExtent, and the iterations of the loops  *)
(* of WriteExtent and trimExtents.  FileDataProofs has the others.         *)
(***************************************************************************)
EXTENDS FileData, ChunkStoreProofs

\* Fresh over the appended bytes app.
FreshAt(app, f, e, lat) ==
    /\ e.chunk \in DOMAIN app
    /\ e.chunkOff + e.len <= Len(app[e.chunk])
    /\ End(e) <= MaxFileSize
    /\ \A o \in e.fileOff..(End(e) - 1) :
           app[e.chunk][e.chunkOff + (o - e.fileOff) + 1]
               = [file |-> f, off |-> o, stamp |-> lat[o]]

\* x is a part of e: the same bytes at the same offsets.
Part(x, e) ==
    /\ x \in Extent
    /\ x.chunk = e.chunk
    /\ x.chunkOff - x.fileOff = e.chunkOff - e.fileOff
    /\ e.fileOff <= x.fileOff /\ End(x) <= End(e)

\* e and n share no offset of the file.
Apart(e, n) == End(e) <= n.fileOff \/ e.fileOff >= End(n)

\* The extents of every file are fresh and within its size.
IndexOK ==
    \A f \in live : \A i \in 1..Len(extents[f]) :
        FreshAt(appended, f, extents[f][i], latest[f]) /\ End(extents[f][i]) <= size[f]

\* The loops over an extent list run under idx.mu.
LockOK(p) == pc[p] \in {"overlay", "trim"} => idxLock = p /\ arg[p].file \in live

\* A write in progress is not empty and stays within the bound.
ArgOK(p) ==
    pc[p] \in {"space", "append", "extent", "overlay"} =>
        arg[p].len > 0 /\ arg[p].off + arg[p].len <= MaxFileSize

\* The extent of a write in progress leads to the bytes of that write.
ExtOK(p) ==
    pc[p] \in {"extent", "overlay"} =>
        /\ ext[p].fileOff = arg[p].off /\ ext[p].len = arg[p].len
        /\ FreshAt(appended, arg[p].file, ext[p], [o \in Offset |-> arg[p].stamp])

\* What the loop of WriteExtent has kept.
OverlayOK(p) ==
    pc[p] = "overlay" =>
        \A i \in 1..Len(out[p]) :
            /\ FreshAt(appended, arg[p].file, out[p][i], latest[arg[p].file])
            /\ End(out[p][i]) <= size[arg[p].file]
            /\ Apart(out[p][i], ext[p])

\* What the loop of trimExtents has kept.
TrimOK(p) ==
    pc[p] = "trim" =>
        \A i \in 1..Len(out[p]) :
            /\ FreshAt(appended, arg[p].file, out[p][i], latest[arg[p].file])
            /\ End(out[p][i]) <= arg[p].off

\* Before its loop, a request has kept nothing.
OutOK(p) == pc[p] \in {"idle", "space", "append", "extent"} => out[p] = <<>>

ReqOK(p) == LockOK(p) /\ OutOK(p) /\ ArgOK(p) /\ ExtOK(p) /\ OverlayOK(p) /\ TrimOK(p)

\* The inductive invariant.
FileInv ==
    /\ CSInv
    /\ FileTypeOK
    /\ IndexOK
    /\ \A p \in Proc : ReqOK(p)

-----------------------------------------------------------------------------
(* Extents *)

\* The fields of an extent.
LEMMA ExtentFields ==
    ASSUME NEW e \in Extent
    PROVE  /\ e.chunk \in ChunkIDs /\ e.chunkOff \in Nat /\ e.fileOff \in Nat
           /\ e.len \in Nat /\ e.len > 0
           /\ End(e) = e.fileOff + e.len /\ End(e) \in Nat
           /\ e = [chunk |-> e.chunk, chunkOff |-> e.chunkOff, len |-> e.len, fileOff |-> e.fileOff]
BY DEF Extent, End

\* A part of a fresh extent is fresh.
LEMMA PartFresh ==
    ASSUME NEW app, NEW f, NEW lat, NEW e \in Extent, NEW x, Part(x, e),
           FreshAt(app, f, e, lat),
           \A id \in DOMAIN app : Len(app[id]) \in Nat
    PROVE  FreshAt(app, f, x, lat)
<1>1. /\ x \in Extent /\ x.chunk = e.chunk
      /\ x.chunkOff - x.fileOff = e.chunkOff - e.fileOff
      /\ e.fileOff <= x.fileOff /\ End(x) <= End(e)
  BY DEF Part
<1>2. e.chunk \in DOMAIN app /\ Len(app[e.chunk]) \in Nat
  BY DEF FreshAt
<1>3. x.chunkOff + x.len <= Len(app[e.chunk]) /\ End(x) <= MaxFileSize
  <2>1. \A a, b, n, p, q, r, m \in Nat :
            a - b = p - q /\ p + r <= m /\ b + n <= q + r => a + n <= m
    OBVIOUS
  <2>2. \A i, j, k \in Nat : i <= j /\ j <= k => i <= k
    OBVIOUS
  <2>3. /\ x.chunkOff \in Nat /\ x.fileOff \in Nat /\ x.len \in Nat
        /\ End(x) = x.fileOff + x.len /\ End(x) \in Nat
        /\ e.chunkOff \in Nat /\ e.fileOff \in Nat /\ e.len \in Nat
        /\ End(e) = e.fileOff + e.len /\ End(e) \in Nat
    BY <1>1, ExtentFields, Zenon
  <2>4. e.chunkOff + e.len <= Len(app[e.chunk]) /\ End(e) <= MaxFileSize /\ MaxFileSize \in Nat
    BY BoundsAssumption DEF FreshAt
  <2>5. x.fileOff + x.len <= e.fileOff + e.len
    BY <1>1, <2>3, Zenon
  <2>6. x.chunkOff + x.len <= Len(app[e.chunk])
    BY ONLY <1>1, <1>2, <2>1, <2>3, <2>4, <2>5, Zenon
  <2>7. End(x) <= MaxFileSize
    BY ONLY <1>1, <2>2, <2>3, <2>4, Zenon
  <2>. QED
    BY <2>6, <2>7
<1>4. ASSUME NEW o \in x.fileOff..(End(x) - 1)
      PROVE  app[x.chunk][x.chunkOff + (o - x.fileOff) + 1]
                 = [file |-> f, off |-> o, stamp |-> lat[o]]
  <2>1. o \in e.fileOff..(End(e) - 1)
    <3>1. \A a, b, c, d \in Nat : a <= b /\ c <= d => \A i \in b..(c - 1) : i \in a..(d - 1)
      OBVIOUS
    <3>2. x.fileOff \in Nat /\ End(x) \in Nat /\ e.fileOff \in Nat /\ End(e) \in Nat
      BY <1>1, ExtentFields, Zenon
    <3>. QED
      BY <1>1, <3>1, <3>2, Zenon
  <2>2. x.chunkOff + (o - x.fileOff) + 1 = e.chunkOff + (o - e.fileOff) + 1
    <3>1. \A a, b, c, d, i \in Int : a - b = c - d => a + (i - b) + 1 = c + (i - d) + 1
      OBVIOUS
    <3>2. /\ x.chunkOff \in Int /\ x.fileOff \in Int
          /\ e.chunkOff \in Int /\ e.fileOff \in Int /\ o \in Int
      BY <1>1, ExtentFields
    <3>. QED
      BY ONLY <1>1, <3>1, <3>2
  <2>. QED
    BY <1>1, <2>1, <2>2 DEF FreshAt
<1>. QED
  BY <1>1, <1>2, <1>3, <1>4 DEF FreshAt

\* What one iteration of WriteExtent keeps are parts of the extent outside the
\* written range.
LEMMA SurvivingParts ==
    ASSUME NEW e \in Extent, NEW n \in Extent
    PROVE  /\ Surviving(e, n) \in Seq(Extent)
           /\ \A i \in 1..Len(Surviving(e, n)) :
                  Part(Surviving(e, n)[i], e) /\ Apart(Surviving(e, n)[i], n)
<1>1. CASE Apart(e, n)
  <2>1. Surviving(e, n) = <<e>>
    BY <1>1 DEF Surviving, Apart
  <2>. QED
    BY <1>1, <2>1, ExtentFields DEF Part
<1>2. CASE ~Apart(e, n)
  <2>1. Surviving(e, n) = Head1(e, n) \o Tail1(e, n)
    BY <1>2 DEF Surviving, Apart
  <2>2. /\ Head1(e, n) \in Seq(Extent)
        /\ \A i \in 1..Len(Head1(e, n)) : Part(Head1(e, n)[i], e) /\ Apart(Head1(e, n)[i], n)
    <3>. DEFINE h == [e EXCEPT !.len = n.fileOff - e.fileOff]
    <3>1. CASE e.fileOff < n.fileOff
      <4>1. Head1(e, n) = <<h>>
        BY <3>1 DEF Head1
      <4>2. /\ h \in Extent /\ h.chunk = e.chunk /\ h.chunkOff = e.chunkOff
            /\ h.fileOff = e.fileOff /\ h.len = n.fileOff - e.fileOff
        BY <3>1, ExtentFields DEF Extent
      <4>3. Part(h, e) /\ Apart(h, n)
        BY <1>2, <4>2, ExtentFields DEF Part, Apart, End
      <4>. HIDE DEF h
      <4>. QED
        BY <4>1, <4>2, <4>3
    <3>2. CASE ~(e.fileOff < n.fileOff)
      BY <3>2 DEF Head1
    <3>. QED
      BY <3>1, <3>2
  <2>3. /\ Tail1(e, n) \in Seq(Extent)
        /\ \A i \in 1..Len(Tail1(e, n)) : Part(Tail1(e, n)[i], e) /\ Apart(Tail1(e, n)[i], n)
    <3>. DEFINE t == [e EXCEPT !.chunkOff = e.chunkOff + (End(n) - e.fileOff),
                               !.len = End(e) - End(n), !.fileOff = End(n)]
    <3>1. CASE End(e) > End(n)
      <4>1. Tail1(e, n) = <<t>>
        BY <3>1 DEF Tail1
      <4>2. /\ t \in Extent /\ t.chunk = e.chunk
            /\ t.chunkOff = e.chunkOff + (End(n) - e.fileOff)
            /\ t.fileOff = End(n) /\ t.len = End(e) - End(n)
        <5>1. /\ e.chunkOff + (End(n) - e.fileOff) \in Nat
              /\ End(e) - End(n) \in Nat \ {0} /\ End(n) \in Nat
          BY <1>2, <3>1, ExtentFields DEF Apart
        <5>. QED
          BY <5>1, ExtentFields, Zenon DEF Extent
      <4>. HIDE DEF t
      <4>3. Part(t, e) /\ Apart(t, n)
        BY <1>2, <4>2, ExtentFields DEF Part, Apart, End
      <4>. QED
        BY <4>1, <4>2, <4>3
    <3>2. CASE ~(End(e) > End(n))
      BY <3>2 DEF Tail1
    <3>. QED
      BY <3>1, <3>2
  <2>. QED
    BY <2>1, <2>2, <2>3
<1>. QED
  BY <1>1, <1>2

\* What one iteration of trimExtents keeps is a part of the extent below the
\* new size.
LEMMA TrimmedParts ==
    ASSUME NEW e \in Extent, NEW n \in Nat
    PROVE  /\ Trimmed(e, n) \in Seq(Extent)
           /\ \A i \in 1..Len(Trimmed(e, n)) :
                  Part(Trimmed(e, n)[i], e) /\ End(Trimmed(e, n)[i]) <= n
<1>. DEFINE h == [e EXCEPT !.len = n - e.fileOff]
<1>1. CASE e.fileOff >= n
  BY <1>1 DEF Trimmed
<1>2. CASE e.fileOff < n /\ End(e) > n
  <2>1. Trimmed(e, n) = <<h>>
    BY <1>2, ExtentFields DEF Trimmed
  <2>2. /\ h \in Extent /\ h.chunk = e.chunk /\ h.chunkOff = e.chunkOff
        /\ h.fileOff = e.fileOff /\ h.len = n - e.fileOff
    BY <1>2, ExtentFields DEF Extent
  <2>3. Part(h, e) /\ End(h) <= n
    BY <1>2, <2>2, ExtentFields DEF Part, End
  <2>. HIDE DEF h
  <2>. QED
    BY <2>1, <2>2, <2>3
<1>3. CASE e.fileOff < n /\ ~(End(e) > n)
  <2>1. Trimmed(e, n) = <<e>>
    BY <1>3, ExtentFields DEF Trimmed
  <2>. QED
    BY <1>3, <2>1, ExtentFields DEF Part
<1>. QED
  BY <1>1, <1>2, <1>3, ExtentFields

-----------------------------------------------------------------------------
(* What a step leaves alone *)

\* The appended bytes are sequences.
LEMMA AppendedSeqs ==
    ASSUME CSInv
    PROVE  \A id \in DOMAIN appended : appended[id] \in Seq(Byte) /\ Len(appended[id]) \in Nat
BY DEF CSInv, CSTypeOK

\* A step without an Append.
LEMMA NothingAppended == ASSUME CSInv, UNCHANGED appended PROVE AppendedGrows
BY AppendedSeqs DEF AppendedGrows

\* Later appends leave an extent fresh.
LEMMA FreshGrows ==
    ASSUME CSInv, AppendedGrows, NEW f, NEW lat, NEW e \in Extent, FreshAt(appended, f, e, lat)
    PROVE  FreshAt(appended', f, e, lat)
<1>1. /\ e.chunk \in DOMAIN appended'
      /\ Len(appended[e.chunk]) \in Nat
      /\ Len(appended[e.chunk]) <= Len(appended'[e.chunk])
      /\ \A i \in 1..Len(appended[e.chunk]) : appended'[e.chunk][i] = appended[e.chunk][i]
  BY AppendedSeqs DEF FreshAt, AppendedGrows
<1>2. e.chunkOff + e.len <= Len(appended[e.chunk]) /\ End(e) <= MaxFileSize
  BY DEF FreshAt
<1>3. ASSUME NEW o \in e.fileOff..(End(e) - 1)
      PROVE  appended'[e.chunk][e.chunkOff + (o - e.fileOff) + 1]
                 = [file |-> f, off |-> o, stamp |-> lat[o]]
  <2>1. e.chunkOff + (o - e.fileOff) + 1 \in 1..Len(appended[e.chunk])
    <3>1. /\ e.chunkOff \in Nat /\ e.fileOff \in Nat /\ e.len \in Nat /\ o \in Int
          /\ End(e) = e.fileOff + e.len
      BY ExtentFields
    <3>2. \A c, l, b, i, n \in Int : 0 <= c /\ c + l <= n /\ b <= i /\ i <= b + l - 1
              => c + (i - b) + 1 \in 1..n
      OBVIOUS
    <3>3. e.fileOff <= o /\ o <= e.fileOff + e.len - 1
      BY <3>1
    <3>4. /\ e.chunkOff \in Int /\ e.fileOff \in Int /\ e.len \in Int
          /\ Len(appended[e.chunk]) \in Int /\ 0 <= e.chunkOff
      BY <1>1, <3>1
    <3>. QED
      BY ONLY <1>2, <3>1, <3>2, <3>3, <3>4, Zenon
  <2>2. appended[e.chunk][e.chunkOff + (o - e.fileOff) + 1]
            = [file |-> f, off |-> o, stamp |-> lat[o]]
    BY DEF FreshAt
  <2>. QED
    BY <1>1, <2>1, <2>2
<1>4. e.chunkOff + e.len <= Len(appended'[e.chunk])
  <2>1. e.chunkOff + e.len \in Int
    BY ExtentFields
  <2>. QED
    BY <1>1, <1>2, <2>1
<1>. QED
  BY <1>1, <1>2, <1>3, <1>4 DEF FreshAt

\* A request that is not at a point where something is required of it.
LEMMA AtRest ==
    ASSUME NEW p \in Proc,
           pc'[p] \notin {"space", "append", "extent", "overlay", "trim"},
           pc'[p] = "idle" => out'[p] = <<>>
    PROVE  ReqOK(p)'
BY DEF ReqOK, LockOK, OutOK, ArgOK, ExtOK, OverlayOK, TrimOK

\* The types of a request's variables.
LEMMA ReqTypes ==
    ASSUME FileTypeOK, NEW p \in Proc
    PROVE  /\ arg[p] \in Request
           /\ arg[p].file \in File /\ arg[p].off \in Nat /\ arg[p].len \in Nat
           /\ arg[p].stamp \in Stamp
           /\ ext[p] \in Extent /\ iter[p] \in Nat \ {0}
           /\ out[p] \in Seq(Extent)
           /\ \A i \in 1..Len(out[p]) : out[p][i] \in Extent
<1>1. arg[p] \in Request
  BY DEF FileTypeOK
<1>2. /\ arg[p].file \in File /\ arg[p].off \in 0..MaxFileSize
      /\ arg[p].len \in 0..MaxFileSize /\ arg[p].stamp \in Stamp
  BY <1>1 DEF Request
<1>3. ext[p] \in Extent /\ iter[p] \in Nat \ {0} /\ out[p] \in Seq(Extent)
  BY DEF FileTypeOK
<1>. QED
  BY <1>1, <1>2, <1>3, BoundsAssumption

\* The types of the index.
LEMMA IndexTypes ==
    ASSUME FileTypeOK, NEW f \in File
    PROVE  /\ size[f] \in 0..MaxFileSize /\ size[f] \in Nat
           /\ extents[f] \in Seq(Extent)
           /\ \A i \in 1..Len(extents[f]) : extents[f][i] \in Extent
           /\ latest[f] \in [Offset -> Stamp]
BY BoundsAssumption DEF FileTypeOK

\* A request that does not move, while appends happen elsewhere and the index
\* changes only if the request is outside the loops.
LEMMA ReqStable ==
    ASSUME FileInv, AppendedGrows, NEW p \in Proc,
           pc'[p] = pc[p], arg'[p] = arg[p], ext'[p] = ext[p], out'[p] = out[p],
           pc[p] \in {"overlay", "trim"} => UNCHANGED <<idxLock, live, size, latest>>
    PROVE  ReqOK(p)'
<1>. USE ReqTypes DEF FileInv
<1>1. LockOK(p)' /\ OutOK(p)' /\ ArgOK(p)'
  BY DEF ReqOK, LockOK, OutOK, ArgOK
<1>2. ExtOK(p)'
  BY FreshGrows, Zenon DEF ReqOK, ExtOK
<1>3. OverlayOK(p)'
  BY FreshGrows, Zenon DEF ReqOK, OverlayOK, Apart, End
<1>4. TrimOK(p)'
  BY FreshGrows, Zenon DEF ReqOK, TrimOK, End
<1>. QED
  BY <1>1, <1>2, <1>3, <1>4 DEF ReqOK

\* The index does not change, while appends happen.
LEMMA IndexStable ==
    ASSUME FileInv, AppendedGrows, UNCHANGED <<live, size, extents, latest>>
    PROVE  IndexOK'
<1>1. live \subseteq File
  BY DEF FileInv, FileTypeOK
<1>. QED
  BY <1>1, FreshGrows, IndexTypes DEF FileInv, IndexOK, End

\* A step of request p that leaves the extents alone.
LEMMA LocalStep ==
    ASSUME FileInv, NEW p \in Proc,
           CSInv', AppendedGrows, FileTypeOK',
           UNCHANGED <<live, size, extents, latest>>,
           UNCHANGED idxLock \/ idxLock = NoProc,
           \A q \in Proc \ {p} : /\ pc'[q] = pc[q] /\ arg'[q] = arg[q]
                                 /\ ext'[q] = ext[q] /\ out'[q] = out[q],
           ReqOK(p)'
    PROVE  FileInv'
<1>1. \A q \in Proc \ {p} : ReqOK(q)'
  <2>. TAKE q \in Proc \ {p}
  <2>1. pc[q] \in {"overlay", "trim"} => idxLock = q
    BY DEF FileInv, ReqOK, LockOK
  <2>2. pc[q] \in {"overlay", "trim"} => UNCHANGED <<idxLock, live, size, latest>>
    BY <2>1, NoProcAssumption
  <2>. QED
    BY <2>2, ReqStable
<1>2. IndexOK'
  BY IndexStable
<1>. QED
  BY <1>1, <1>2 DEF FileInv

-----------------------------------------------------------------------------
(* The steps of a request that leave the extents alone *)

\* A step outside the chunk store.
LEMMA StoreIdle == ASSUME CSInv, UNCHANGED csVars PROVE CSInv' /\ AppendedGrows
BY CSNextInv, NothingAppended DEF csVars

\* The locals of a request that answered.
LEMMA NoLocals ==
    /\ NoArg \in Request
    /\ NoExtent \in Extent
<1>1. (CHOOSE f \in File : TRUE) \in File
  BY FileAssumption
<1>2. chunkID(0) \in ChunkIDs
  BY ChunkIDsMember, MaxSeqAssumption
<1>. QED
  BY <1>1, <1>2, BoundsAssumption DEF NoArg, NoExtent, Extent, Stamp, Request

\* The variables of the other requests, when p moves.
Others(p) ==
    \A q \in Proc \ {p} : /\ pc'[q] = pc[q] /\ arg'[q] = arg[q]
                          /\ ext'[q] = ext[q] /\ out'[q] = out[q]

\* Request p answers.
LEMMA ReplyFrame ==
    ASSUME FileTypeOK, NEW p \in Proc, Reply(p)
    PROVE  /\ pc'[p] = "idle" /\ Others(p) /\ ReqOK(p)'
           /\ pc' \in [Proc -> Points]
           /\ arg' \in [Proc -> Request]
           /\ ext' \in [Proc -> Extent]
           /\ iter' \in [Proc -> Nat \ {0}]
           /\ out' \in [Proc -> Seq(Extent)]
<1>1. pc'[p] = "idle" /\ Others(p)
  BY DEF FileTypeOK, Reply, Goto, Others
<1>2. ReqOK(p)'
  <2>1. out'[p] = <<>>
    BY DEF FileTypeOK, Reply
  <2>. QED
    BY <1>1, <2>1, AtRest
<1>3. <<>> \in Seq(Extent)
  OBVIOUS
<1>4. /\ pc' = [pc EXCEPT ![p] = "idle"]
      /\ arg' = [arg EXCEPT ![p] = NoArg]
      /\ ext' = [ext EXCEPT ![p] = NoExtent]
      /\ iter' = [iter EXCEPT ![p] = 1]
      /\ out' = [out EXCEPT ![p] = <<>>]
  BY DEF Reply, Goto
<1>5. pc' \in [Proc -> Points]
  BY <1>4 DEF FileTypeOK, Points
<1>6. arg' \in [Proc -> Request]
  <2>1. NoArg \in Request
    BY NoLocals
  <2>2. arg \in [Proc -> Request]
    BY DEF FileTypeOK
  <2>. QED
    BY <1>4, <2>1, <2>2
<1>7. ext' \in [Proc -> Extent] /\ iter' \in [Proc -> Nat \ {0}]
  <2>1. NoExtent \in Extent
    BY NoLocals
  <2>2. ext' \in [Proc -> Extent]
    BY <1>4, <2>1 DEF FileTypeOK
  <2>3. iter' \in [Proc -> Nat \ {0}]
    BY <1>4 DEF FileTypeOK
  <2>. QED
    BY <2>2, <2>3
<1>8. out' \in [Proc -> Seq(Extent)]
  BY <1>3, <1>4 DEF FileTypeOK
<1>. QED
  BY <1>1, <1>2, <1>5, <1>6, <1>7, <1>8

\* A request that answers and leaves the index and the store as they are.
LEMMA ReplyInv ==
    ASSUME FileInv, NEW p \in Proc, Reply(p), CSInv', AppendedGrows,
           UNCHANGED <<indexVars, latest, writes>>,
           seen' \in [Proc -> [Offset -> SUBSET Stamp]]
    PROVE  FileInv'
<1>1. UNCHANGED <<live, size, extents, idxLock>>
  BY DEF indexVars
<1>2. FileTypeOK'
  BY <1>1, ReplyFrame, Zenon DEF FileInv, FileTypeOK
<1>. QED
  BY <1>1, <1>2, ReplyFrame, LocalStep DEF FileInv, Others


\* GetInode of a write.
LEMMA WriteStartInv ==
    ASSUME FileInv, NEW p \in Proc, NEW f \in File, NEW off \in Offset, NEW len \in WriteLens,
           WriteStart(p, f, off, len)
    PROVE  FileInv'
<1>. DEFINE a == [file |-> f, off |-> off, len |-> len,
                  grow |-> (off + len) - size[f], stamp |-> writes + 1]
<1>1. FileTypeOK /\ CSInv
  BY DEF FileInv
<1>2. /\ off \in Nat /\ len \in Nat /\ len > 0 /\ off + len <= MaxFileSize
      /\ writes' = writes + 1 /\ writes + 1 \in Stamp
      /\ arg' = [arg EXCEPT ![p] = a]
      /\ \E at \in {"space", "append"} : pc' = [pc EXCEPT ![p] = at]
      /\ UNCHANGED <<csVars, indexVars, ext, iter, out, buf, latest, seen>>
  <2>1. /\ off \in Nat /\ len \in Nat /\ len > 0 /\ off + len <= MaxFileSize
        /\ writes' = writes + 1
    BY BoundsAssumption DEF WriteStart, Offset
  <2>2. writes + 1 \in Stamp
    BY <1>1, BoundsAssumption DEF WriteStart, FileTypeOK, Stamp
  <2>3. /\ arg' = [arg EXCEPT ![p] = a]
        /\ \E at \in {"space", "append"} : pc' = [pc EXCEPT ![p] = at]
        /\ UNCHANGED <<csVars, indexVars, ext, iter, out, buf, latest, seen>>
    <3>1. \/ Goto(p, "space")
          \/ Goto(p, "append")
      BY DEF WriteStart
    <3>. QED
      BY <3>1 DEF WriteStart, Goto
  <2>. QED
    BY <2>1, <2>2, <2>3, Zenon
<1>3. a \in Request
  <2>1. (off + len) - size[f] \in Int
    BY <1>1, <1>2, IndexTypes
  <2>2. off \in 0..MaxFileSize /\ len \in 0..MaxFileSize
    BY <1>2, BoundsAssumption
  <2>. QED
    BY <1>2, <2>1, <2>2 DEF Request
<1>4. a.len = len /\ a.off = off
  OBVIOUS
<1>. HIDE DEF a
<1>5. FileTypeOK'
  BY <1>1, <1>2, <1>3 DEF FileTypeOK, indexVars, Points
<1>6. ReqOK(p)'
  <2>1. pc'[p] \in {"space", "append"} /\ arg'[p] = a
    BY <1>1, <1>2 DEF FileTypeOK
  <2>2. out'[p] = <<>>
    BY <1>2 DEF FileInv, ReqOK, OutOK, WriteStart
  <2>. QED
    BY <1>2, <1>4, <2>1, <2>2 DEF ReqOK, LockOK, OutOK, ArgOK, ExtOK, OverlayOK, TrimOK
<1>7. CSInv' /\ AppendedGrows
  BY <1>1, <1>2, StoreIdle
<1>8. \A q \in Proc \ {p} : /\ pc'[q] = pc[q] /\ arg'[q] = arg[q]
                            /\ ext'[q] = ext[q] /\ out'[q] = out[q]
  BY <1>1, <1>2 DEF FileTypeOK
<1>. QED
  BY <1>2, <1>5, <1>6, <1>7, <1>8, LocalStep DEF indexVars

\* The ENOSPC check.
LEMMA WriteSpaceInv ==
    ASSUME FileInv, NEW p \in Proc, WriteSpace(p)
    PROVE  FileInv'
<1>1. FileTypeOK /\ CSInv /\ ReqOK(p)
  BY DEF FileInv
<1>2. /\ pc[p] = "space"
      /\ UNCHANGED <<csVars, indexVars, histVars>>
      /\ Reply(p) \/ (Goto(p, "append") /\ UNCHANGED <<arg, ext, iter, out, buf>>)
  BY DEF WriteSpace
<1>3. CSInv' /\ AppendedGrows
  BY <1>1, <1>2, StoreIdle
<1>4. CASE Reply(p)
  BY <1>1, <1>2, <1>3, <1>4, ReplyInv DEF histVars, FileTypeOK
<1>5. CASE Goto(p, "append") /\ UNCHANGED <<arg, ext, iter, out, buf>>
  <2>1. pc'[p] = "append" /\ Others(p) /\ FileTypeOK'
    BY <1>1, <1>2, <1>5, Zenon DEF Goto, FileTypeOK, Others, indexVars, histVars, Points
  <2>2. ReqOK(p)'
    BY <1>1, <1>2, <1>5, <2>1, Zenon DEF ReqOK, LockOK, OutOK, ArgOK, ExtOK, OverlayOK, TrimOK
  <2>. QED
    BY <1>2, <1>3, <2>1, <2>2, LocalStep DEF Others, indexVars, histVars
<1>. QED
  BY <1>2, <1>4, <1>5

\* The payload of a write.
LEMMA PayloadBytes ==
    ASSUME FileInv, NEW p \in Proc, pc[p] = "append"
    PROVE  /\ Payload(arg[p]) \in Seq(Byte) \ {<<>>}
           /\ Len(Payload(arg[p])) = arg[p].len
           /\ \A i \in 1..arg[p].len : Payload(arg[p])[i]
                  = [file |-> arg[p].file, off |-> arg[p].off + i - 1, stamp |-> arg[p].stamp]
<1>. DEFINE a == arg[p]
<1>1. /\ a.file \in File /\ a.off \in Nat /\ a.len \in Nat /\ a.stamp \in Stamp
      /\ a.len > 0 /\ a.off + a.len <= MaxFileSize
  BY ReqTypes DEF FileInv, ReqOK, ArgOK
<1>. HIDE DEF a
<1>2. \A i \in 1..a.len : a.off + i - 1 \in Offset
  BY <1>1, BoundsAssumption DEF Offset
<1>3. \A i \in 1..a.len : [file |-> a.file, off |-> a.off + i - 1, stamp |-> a.stamp] \in Byte
  BY <1>1, <1>2, ByteAssumption
<1>4. /\ Payload(a) \in [1..a.len -> Byte]
      /\ \A i \in 1..a.len : Payload(a)[i]
             = [file |-> a.file, off |-> a.off + i - 1, stamp |-> a.stamp]
  BY <1>3 DEF Payload
<1>5. Payload(a) \in Seq(Byte) /\ Len(Payload(a)) = a.len
  BY <1>1, <1>4
<1>6. Payload(a) # <<>>
  BY <1>1, <1>5
<1>. QED
  BY <1>4, <1>5, <1>6 DEF a

\* An extent whose bytes are a payload is fresh for the write of that payload.
LEMMA PayloadFresh ==
    ASSUME NEW app, NEW e \in Extent, NEW a \in Request, NEW d,
           e.chunk \in DOMAIN app, e.len = a.len, e.fileOff = a.off,
           a.off + a.len <= MaxFileSize,
           e.chunkOff + a.len <= Len(app[e.chunk]),
           \A i \in 1..a.len : app[e.chunk][e.chunkOff + i] = d[i],
           \A i \in 1..a.len : d[i] = [file |-> a.file, off |-> a.off + i - 1, stamp |-> a.stamp]
    PROVE  FreshAt(app, a.file, e, [o \in Offset |-> a.stamp])
<1>. DEFINE lat == [o \in Offset |-> a.stamp]
<1>1. /\ a.off \in Nat /\ a.len \in Nat
      /\ e.chunkOff \in Nat /\ e.fileOff \in Nat /\ End(e) = e.fileOff + e.len
  BY ExtentFields, BoundsAssumption DEF Request
<1>2. ASSUME NEW o \in e.fileOff..(End(e) - 1)
      PROVE  app[e.chunk][e.chunkOff + (o - e.fileOff) + 1]
                 = [file |-> a.file, off |-> o, stamp |-> lat[o]]
  <2>1. o \in a.off..(a.off + a.len - 1)
    BY <1>1
  <2>2. o \in Offset /\ o - a.off + 1 \in 1..a.len /\ a.off + (o - a.off + 1) - 1 = o
    <3>1. \A b, l, i, m \in Int :
              0 <= b /\ b <= i /\ i <= b + l - 1 /\ b + l <= m =>
                  i \in 0..(m - 1) /\ i - b + 1 \in 1..l /\ b + (i - b + 1) - 1 = i
      OBVIOUS
    <3>2. /\ a.off \in Int /\ a.len \in Int /\ o \in Int /\ MaxFileSize \in Int
          /\ 0 <= a.off /\ a.off <= o /\ o <= a.off + a.len - 1
      BY <1>1, <2>1, BoundsAssumption
    <3>3. a.off + a.len <= MaxFileSize
      OBVIOUS
    <3>. QED
      BY ONLY <3>1, <3>2, <3>3 DEF Offset
  <2>3. e.chunkOff + (o - e.fileOff) + 1 = e.chunkOff + (o - a.off + 1)
    <3>1. \A c, b, i \in Int : c + (i - b) + 1 = c + (i - b + 1)
      OBVIOUS
    <3>2. e.chunkOff \in Int /\ a.off \in Int /\ o \in Int
      BY <1>1, <2>1
    <3>3. e.fileOff = a.off
      OBVIOUS
    <3>. QED
      BY ONLY <3>1, <3>2, <3>3
  <2>4. d[o - a.off + 1] = [file |-> a.file, off |-> o, stamp |-> a.stamp]
    BY <2>2
  <2>5. app[e.chunk][e.chunkOff + (o - a.off + 1)] = d[o - a.off + 1]
    BY <2>2
  <2>6. lat[o] = a.stamp
    BY <2>2
  <2>. QED
    BY <2>3, <2>4, <2>5, <2>6
<1>. HIDE DEF lat
<1>3. FreshAt(app, a.file, e, lat)
  BY <1>1, <1>2, Zenon DEF FreshAt
<1>. QED
  BY <1>3 DEF lat

\* Append: the extent leads to the payload.
LEMMA WriteAppendInv ==
    ASSUME FileInv, NEW p \in Proc, WriteAppend(p)
    PROVE  FileInv'
<1>. DEFINE a == arg[p]
            d == Payload(arg[p])
            e == [chunk |-> activeID', chunkOff |-> AppendOffset(d), len |-> a.len, fileOff |-> a.off]
<1>1. FileTypeOK /\ CSInv /\ ReqOK(p) /\ pc[p] = "append"
  BY DEF FileInv, WriteAppend
<1>2. /\ AppendData(d)
      /\ ext' = [ext EXCEPT ![p] = e]
      /\ pc' = [pc EXCEPT ![p] = "extent"]
      /\ UNCHANGED <<indexVars, arg, iter, out, buf, histVars>>
  BY Zenon DEF WriteAppend, Goto
<1>3. /\ a.file \in File /\ a.off \in Nat /\ a.len \in Nat /\ a.stamp \in Stamp
      /\ a.len > 0 /\ a.off + a.len <= MaxFileSize
  BY <1>1, ReqTypes DEF ReqOK, ArgOK
<1>4. /\ CSInv' /\ AppendedGrows
      /\ activeID' \in DOMAIN appended'
      /\ AppendOffset(d) \in Nat
      /\ AppendOffset(d) + Len(d) <= Len(appended'[activeID'])
      /\ \A i \in 1..Len(d) : appended'[activeID'][AppendOffset(d) + i] = d[i]
  BY <1>1, <1>2, PayloadBytes, AppendExtent, Zenon
<1>5. activeID' \in ChunkIDs
  BY <1>4, Zenon DEF CSInv, CSTypeOK
<1>6. /\ e \in Extent /\ e.chunk = activeID' /\ e.chunkOff = AppendOffset(d)
      /\ e.len = a.len /\ e.fileOff = a.off /\ End(e) = a.off + a.len
  <2>. HIDE DEF d, a
  <2>1. /\ e.chunk = activeID' /\ e.chunkOff = AppendOffset(d)
        /\ e.len = a.len /\ e.fileOff = a.off
    OBVIOUS
  <2>2. AppendOffset(d) \in Nat /\ a.off \in Nat /\ a.len \in Nat \ {0}
    BY <1>3, <1>4
  <2>3. e \in Extent
    BY <1>5, <2>2, Zenon DEF Extent
  <2>. QED
    BY <2>1, <2>3, Zenon DEF End
<1>. HIDE DEF e, d, a
<1>7. FreshAt(appended', a.file, e, [o \in Offset |-> a.stamp])
  <2>1. /\ a \in Request /\ Len(d) = a.len
        /\ \A i \in 1..a.len : d[i] = [file |-> a.file, off |-> a.off + i - 1, stamp |-> a.stamp]
    BY <1>1, PayloadBytes, ReqTypes, Zenon DEF d, a
  <2>2. /\ e.chunk \in DOMAIN appended'
        /\ e.chunkOff + a.len <= Len(appended'[e.chunk])
        /\ \A i \in 1..a.len : appended'[e.chunk][e.chunkOff + i] = d[i]
    BY <1>4, <1>6, <2>1
  <2>. QED
    BY <1>3, <1>6, <2>1, <2>2, PayloadFresh, Zenon
<1>8. /\ pc'[p] = "extent" /\ ext'[p] = e /\ arg'[p] = a /\ Others(p)
  BY <1>1, <1>2 DEF FileTypeOK, Others, a
<1>9. FileTypeOK'
  BY <1>1, <1>2, <1>6 DEF FileTypeOK, indexVars, histVars, Points
<1>10. ReqOK(p)'
  <2>1. out'[p] = <<>>
    BY <1>1, <1>2, Zenon DEF ReqOK, OutOK
  <2>. QED
    BY <1>3, <1>6, <1>7, <1>8, <2>1, Zenon DEF ReqOK, LockOK, OutOK, ArgOK, ExtOK, OverlayOK, TrimOK
<1>. QED
  BY <1>2, <1>4, <1>8, <1>9, <1>10, LocalStep DEF Others, indexVars, histVars

\* Append fails.
LEMMA WriteAppendErrorInv ==
    ASSUME FileInv, NEW p \in Proc, WriteAppendError(p)
    PROVE  FileInv'
<1>1. CSInv /\ FileTypeOK
  BY DEF FileInv
<1>2. Reply(p) /\ UNCHANGED <<indexVars, histVars>>
  BY DEF WriteAppendError
<1>3. CSInv' /\ AppendedGrows
  <2>1. CASE UNCHANGED csVars
    BY <1>1, <2>1, StoreIdle
  <2>2. CASE AppendError(Payload(arg[p]))
    BY <1>1, <2>2, FailedPut, NothingAppended, Zenon DEF AppendError, SealError
  <2>. QED
    BY <2>1, <2>2 DEF WriteAppendError
<1>. QED
  BY <1>1, <1>2, <1>3, ReplyInv DEF histVars, FileTypeOK

\* WriteExtent takes idx.mu, or finds the inode gone.
LEMMA WriteExtentInv ==
    ASSUME FileInv, NEW p \in Proc, WriteExtent(p)
    PROVE  FileInv'
<1>1. FileTypeOK /\ CSInv /\ ReqOK(p)
  BY DEF FileInv
<1>2. pc[p] = "extent" /\ idxLock = NoProc /\ UNCHANGED <<csVars, live, size, extents, histVars>>
  BY DEF WriteExtent
<1>3. CSInv' /\ AppendedGrows
  BY <1>1, <1>2, StoreIdle
<1>4. CASE Reply(p) /\ UNCHANGED idxLock
  BY <1>1, <1>2, <1>3, <1>4, ReplyInv DEF histVars, indexVars, FileTypeOK
<1>5. CASE /\ arg[p].file \in live
           /\ idxLock' = p
           /\ Goto(p, "overlay")
           /\ UNCHANGED <<arg, ext, iter, out, buf>>
  <2>1. pc'[p] = "overlay" /\ Others(p) /\ FileTypeOK'
    BY <1>1, <1>2, <1>5 DEF Goto, FileTypeOK, Others, histVars, Points
  <2>2. out'[p] = <<>>
    BY <1>1, <1>2, <1>5, Zenon DEF ReqOK, OutOK
  <2>3. ReqOK(p)'
    <3>1. UNCHANGED <<appended, live>> /\ arg'[p] = arg[p] /\ ext'[p] = ext[p]
      BY <1>2, <1>5, Zenon DEF csVars
    <3>2. ExtOK(p)' /\ ArgOK(p)'
      BY <1>1, <1>2, <2>1, <3>1 DEF ReqOK, ArgOK, ExtOK
    <3>3. LockOK(p)'
      BY <1>5, <3>1 DEF LockOK
    <3>4. OutOK(p)' /\ TrimOK(p)'
      BY <2>1, <2>2 DEF OutOK, TrimOK
    <3>5. OverlayOK(p)'
      BY <2>2 DEF OverlayOK
    <3>. QED
      BY <3>2, <3>3, <3>4, <3>5 DEF ReqOK
  <2>. QED
    BY <1>2, <1>3, <2>1, <2>3, LocalStep DEF Others, histVars
<1>. QED
  BY <1>4, <1>5, Zenon DEF WriteExtent

-----------------------------------------------------------------------------
(* The loops under idx.mu *)

\* Every element of a concatenation comes from one of its halves.
LEMMA ConcatElements ==
    ASSUME NEW S, NEW s \in Seq(S), NEW t \in Seq(S)
    PROVE  /\ s \o t \in Seq(S)
           /\ \A i \in 1..Len(s \o t) :
                  \/ \E j \in 1..Len(s) : (s \o t)[i] = s[j]
                  \/ \E j \in 1..Len(t) : (s \o t)[i] = t[j]
<1>1. s \o t \in Seq(S) /\ Len(s \o t) = Len(s) + Len(t)
  OBVIOUS
<1>2. ASSUME NEW i \in 1..Len(s \o t)
      PROVE  \/ \E j \in 1..Len(s) : (s \o t)[i] = s[j]
             \/ \E j \in 1..Len(t) : (s \o t)[i] = t[j]
  <2>1. CASE i <= Len(s)
    BY <1>1, <2>1
  <2>2. CASE i > Len(s)
    <3>1. i - Len(s) \in 1..Len(t) /\ (s \o t)[i] = t[i - Len(s)]
      BY <1>1, <2>2
    <3>. QED
      BY <3>1
  <2>. QED
    BY <1>1, <2>1, <2>2
<1>. QED
  BY <1>1, <1>2

\* A loop that has not ended is at an element of the list.
LEMMA IterRange ==
    ASSUME FileTypeOK, NEW p \in Proc, NEW f \in File, iter[p] <= Len(extents[f])
    PROVE  iter[p] \in 1..Len(extents[f])
<1>1. iter[p] \in Nat \ {0}
  BY ReqTypes
<1>2. Len(extents[f]) \in Nat
  BY IndexTypes
<1>. QED
  BY <1>1, <1>2

\* One iteration of the loop of WriteExtent: the element read is an extent of
\* the file or one already kept, and what is kept of it lies outside the
\* written range.
LEMMA OverlayStepInv ==
    ASSUME FileInv, NEW p \in Proc, OverlayStep(p)
    PROVE  FileInv'
<1>. DEFINE f == arg[p].file
            e == RangeElement(p)
            kept == Surviving(e, ext[p])
<1>1. FileTypeOK /\ CSInv /\ ReqOK(p) /\ IndexOK /\ pc[p] = "overlay"
  BY Zenon DEF FileInv, OverlayStep
<1>2. /\ iter[p] <= Len(extents[f])
      /\ out' = [out EXCEPT ![p] = out[p] \o kept]
      /\ iter' = [iter EXCEPT ![p] = iter[p] + 1]
      /\ UNCHANGED <<csVars, indexVars, pc, arg, ext, buf, histVars>>
  BY DEF OverlayStep
<1>3. /\ f \in live /\ f \in File /\ size[f] \in Nat
      /\ \A i \in 1..Len(out[p]) : /\ FreshAt(appended, f, out[p][i], latest[f])
                                   /\ End(out[p][i]) <= size[f]
                                   /\ Apart(out[p][i], ext[p])
  BY <1>1, ReqTypes, IndexTypes, Zenon DEF ReqOK, LockOK, OverlayOK
<1>4. e \in Extent /\ FreshAt(appended, f, e, latest[f]) /\ End(e) <= size[f]
  <2>1. CASE iter[p] <= Len(out[p])
    <3>1. e = out[p][iter[p]] /\ iter[p] \in 1..Len(out[p])
      BY <1>1, <2>1, ReqTypes DEF RangeElement
    <3>. QED
      BY <1>1, <1>3, <3>1, ReqTypes, Zenon
  <2>2. CASE ~(iter[p] <= Len(out[p]))
    <3>1. e = extents[f][iter[p]] /\ iter[p] \in 1..Len(extents[f])
      <4>1. e = extents[f][iter[p]]
        BY <2>2, Zenon DEF RangeElement
      <4>. QED
        BY <1>1, <1>2, <1>3, <4>1, IterRange, Zenon
    <3>. QED
      BY <1>1, <1>3, <3>1, IndexTypes, Zenon DEF IndexOK
  <2>. QED
    BY <2>1, <2>2, Zenon
<1>5. ext[p] \in Extent /\ out[p] \in Seq(Extent) /\ iter[p] \in Nat \ {0}
  BY <1>1, ReqTypes, Zenon
<1>. HIDE DEF f, e
<1>6. /\ kept \in Seq(Extent)
      /\ \A i \in 1..Len(kept) : Part(kept[i], e) /\ Apart(kept[i], ext[p])
  BY <1>4, <1>5, SurvivingParts, Zenon
<1>. HIDE DEF kept
<1>7. \A i \in 1..Len(kept) : FreshAt(appended, f, kept[i], latest[f]) /\ End(kept[i]) <= size[f]
  <2>. TAKE i \in 1..Len(kept)
  <2>1. Part(kept[i], e)
    BY <1>6, Zenon
  <2>2. FreshAt(appended, f, kept[i], latest[f])
    BY <1>1, <1>4, <2>1, PartFresh, AppendedSeqs, Zenon
  <2>3. End(kept[i]) <= size[f]
    <3>1. \A u, v, w \in Nat : u <= v /\ v <= w => u <= w
      OBVIOUS
    <3>2. /\ End(kept[i]) \in Nat /\ End(e) \in Nat /\ size[f] \in Nat
          /\ End(kept[i]) <= End(e) /\ End(e) <= size[f]
      BY <1>3, <1>4, <2>1, ExtentFields, Zenon DEF Part
    <3>. QED
      BY ONLY <3>1, <3>2, Zenon
  <2>. QED
    BY <2>2, <2>3
<1>8. /\ out[p] \o kept \in Seq(Extent)
      /\ \A i \in 1..Len(out[p] \o kept) :
            /\ FreshAt(appended, f, (out[p] \o kept)[i], latest[f])
            /\ End((out[p] \o kept)[i]) <= size[f]
            /\ Apart((out[p] \o kept)[i], ext[p])
  <2>. DEFINE both == out[p] \o kept
  <2>1. /\ both \in Seq(Extent)
        /\ \A i \in 1..Len(both) : \/ \E j \in 1..Len(out[p]) : both[i] = out[p][j]
                                  \/ \E j \in 1..Len(kept) : both[i] = kept[j]
    <3>1. out[p] \in Seq(Extent) /\ kept \in Seq(Extent)
      BY <1>5, <1>6, Zenon
    <3>. QED
      BY ONLY <3>1, ConcatElements
  <2>. HIDE DEF both
  <2>2. \A i \in 1..Len(both) : /\ FreshAt(appended, f, both[i], latest[f])
                               /\ End(both[i]) <= size[f]
                               /\ Apart(both[i], ext[p])
    <3>. TAKE i \in 1..Len(both)
    <3>1. CASE \E j \in 1..Len(out[p]) : both[i] = out[p][j]
      BY <1>3, <3>1, Zenon
    <3>2. CASE \E j \in 1..Len(kept) : both[i] = kept[j]
      BY <1>6, <1>7, <3>2, Zenon
    <3>. QED
      BY <2>1, <3>1, <3>2, Zenon
  <2>. QED
    BY <2>1, <2>2, Zenon DEF both
<1>9. FileTypeOK'
  <2>1. out' \in [Proc -> Seq(Extent)]
    BY <1>1, <1>2, <1>8, Zenon DEF FileTypeOK
  <2>2. iter[p] \in Nat \ {0} /\ iter \in [Proc -> Nat \ {0}]
    BY <1>1, Zenon DEF FileTypeOK
  <2>3. iter[p] + 1 \in Nat \ {0}
    BY ONLY <2>2
  <2>4. iter' \in [Proc -> Nat \ {0}]
    BY <1>2, <2>2, <2>3, Zenon
  <2>. QED
    BY <1>1, <1>2, <2>1, <2>4, Zenon DEF FileTypeOK, indexVars, histVars
<1>10. /\ out'[p] = out[p] \o kept /\ Others(p)
       /\ UNCHANGED <<appended, live, size, latest, extents, idxLock, pc, arg, ext>>
  BY <1>1, <1>2 DEF FileTypeOK, Others, csVars, indexVars, histVars
<1>11. ReqOK(p)'
  <2>1. LockOK(p)' /\ OutOK(p)' /\ ArgOK(p)' /\ ExtOK(p)' /\ TrimOK(p)'
    BY <1>1, <1>10, Zenon DEF ReqOK, LockOK, OutOK, ArgOK, ExtOK, TrimOK
  <2>2. OverlayOK(p)'
    BY <1>8, <1>10, Zenon DEF OverlayOK, f, Apart, End
  <2>. QED
    BY <2>1, <2>2 DEF ReqOK
<1>. QED
  BY <1>1, <1>2, <1>9, <1>10, <1>11, StoreIdle, LocalStep, Zenon DEF Others

\* One iteration of trimExtents.
LEMMA TrimStepInv ==
    ASSUME FileInv, NEW p \in Proc, TrimStep(p)
    PROVE  FileInv'
<1>. DEFINE f == arg[p].file
            e == extents[f][iter[p]]
            kept == Trimmed(e, arg[p].off)
<1>1. FileTypeOK /\ CSInv /\ ReqOK(p) /\ IndexOK /\ pc[p] = "trim"
  BY Zenon DEF FileInv, TrimStep
<1>2. /\ iter[p] <= Len(extents[f])
      /\ out' = [out EXCEPT ![p] = out[p] \o kept]
      /\ iter' = [iter EXCEPT ![p] = iter[p] + 1]
      /\ UNCHANGED <<csVars, indexVars, pc, arg, ext, buf, histVars>>
  BY Zenon DEF TrimStep
<1>3. /\ f \in live /\ f \in File /\ arg[p].off \in Nat
      /\ \A i \in 1..Len(out[p]) : /\ FreshAt(appended, f, out[p][i], latest[f])
                                   /\ End(out[p][i]) <= arg[p].off
  BY <1>1, ReqTypes, Zenon DEF ReqOK, LockOK, TrimOK
<1>4. e \in Extent /\ FreshAt(appended, f, e, latest[f])
  <2>1. iter[p] \in 1..Len(extents[f])
    BY <1>1, <1>2, <1>3, IterRange, Zenon
  <2>. QED
    BY <1>1, <1>3, <2>1, IndexTypes, Zenon DEF IndexOK
<1>5. out[p] \in Seq(Extent) /\ iter[p] \in Nat \ {0}
  BY <1>1, ReqTypes, Zenon
<1>. HIDE DEF f, e
<1>6. /\ kept \in Seq(Extent)
      /\ \A i \in 1..Len(kept) : Part(kept[i], e) /\ End(kept[i]) <= arg[p].off
  BY <1>3, <1>4, TrimmedParts, Zenon
<1>. HIDE DEF kept
<1>7. \A i \in 1..Len(kept) : FreshAt(appended, f, kept[i], latest[f])
  <2>. TAKE i \in 1..Len(kept)
  <2>1. Part(kept[i], e)
    BY <1>6, Zenon
  <2>. QED
    BY <1>1, <1>4, <2>1, PartFresh, AppendedSeqs
<1>8. /\ out[p] \o kept \in Seq(Extent)
      /\ \A i \in 1..Len(out[p] \o kept) :
            /\ FreshAt(appended, f, (out[p] \o kept)[i], latest[f])
            /\ End((out[p] \o kept)[i]) <= arg[p].off
  <2>. DEFINE both == out[p] \o kept
  <2>1. /\ both \in Seq(Extent)
        /\ \A i \in 1..Len(both) : \/ \E j \in 1..Len(out[p]) : both[i] = out[p][j]
                                  \/ \E j \in 1..Len(kept) : both[i] = kept[j]
    <3>1. out[p] \in Seq(Extent) /\ kept \in Seq(Extent)
      BY <1>5, <1>6, Zenon
    <3>. QED
      BY ONLY <3>1, ConcatElements
  <2>. HIDE DEF both
  <2>2. \A i \in 1..Len(both) : /\ FreshAt(appended, f, both[i], latest[f])
                               /\ End(both[i]) <= arg[p].off
    BY <1>3, <1>6, <1>7, <2>1, Zenon
  <2>. QED
    BY <2>1, <2>2 DEF both
<1>9. FileTypeOK'
  <2>1. out' \in [Proc -> Seq(Extent)]
    BY <1>1, <1>2, <1>8, Zenon DEF FileTypeOK
  <2>2. iter[p] \in Nat \ {0} /\ iter \in [Proc -> Nat \ {0}]
    BY <1>1, Zenon DEF FileTypeOK
  <2>3. iter[p] + 1 \in Nat \ {0}
    BY ONLY <2>2
  <2>4. iter' \in [Proc -> Nat \ {0}]
    BY <1>2, <2>2, <2>3, Zenon
  <2>. QED
    BY <1>1, <1>2, <2>1, <2>4, Zenon DEF FileTypeOK, indexVars, histVars
<1>10. /\ out'[p] = out[p] \o kept /\ Others(p)
       /\ UNCHANGED <<appended, live, size, latest, extents, idxLock, pc, arg, ext>>
  BY <1>1, <1>2 DEF FileTypeOK, Others, csVars, indexVars, histVars
<1>11. ReqOK(p)'
  <2>1. LockOK(p)' /\ OutOK(p)' /\ ArgOK(p)' /\ ExtOK(p)' /\ OverlayOK(p)'
    BY <1>1, <1>10, Zenon DEF ReqOK, LockOK, OutOK, ArgOK, ExtOK, OverlayOK
  <2>2. TrimOK(p)'
    BY <1>8, <1>10, Zenon DEF TrimOK, f, End
  <2>. QED
    BY <2>1, <2>2 DEF ReqOK
<1>. QED
  BY <1>1, <1>2, <1>9, <1>10, <1>11, StoreIdle, LocalStep, Zenon DEF Others
=============================================================================
