---------------------------- MODULE FileDataProofs ----------------------------
(***************************************************************************)
(* The steps that put a new extent list in place, the steps of reads, and  *)
(* the theorems: no extent of a file is ever stale, for any number of      *)
(* files, requests, writes and chunks.  FileDataInv tells the argument.    *)
(*                                                                         *)
(* Then the converse, that no byte is missing: as long as no write falls   *)
(* inside one extent (NoSplit), and writes of nearly one length never do,  *)
(* every byte written is covered by an extent and read back (KeepInv).     *)
(***************************************************************************)
EXTENDS FileDataInv

-----------------------------------------------------------------------------
(* The steps that change the extents *)

\* Freshness depends only on the offsets an extent covers.
LEMMA FreshAgree ==
    ASSUME NEW app, NEW f, NEW e, NEW lat, NEW lat2, FreshAt(app, f, e, lat),
           \A o \in e.fileOff..(End(e) - 1) : lat2[o] = lat[o]
    PROVE  FreshAt(app, f, e, lat2)
BY DEF FreshAt

\* The offsets of a fresh extent are within the bound.
LEMMA FreshOffsets ==
    ASSUME NEW app, NEW f, NEW e \in Extent, NEW lat, FreshAt(app, f, e, lat)
    PROVE  \A o \in e.fileOff..(End(e) - 1) : o \in Offset
<1>1. End(e) <= MaxFileSize /\ e.fileOff \in Nat /\ End(e) \in Nat
  BY ExtentFields DEF FreshAt
<1>. QED
  BY ONLY <1>1, BoundsAssumption DEF Offset

\* What readers of f may see after a change is well typed.
LEMMA ObserveTypes ==
    ASSUME FileTypeOK, NEW f \in File, NEW lat \in [Offset -> Stamp], Observe(f, lat)
    PROVE  /\ latest' \in [File -> [Offset -> Stamp]]
           /\ latest'[f] = lat
           /\ \A g \in File \ {f} : latest'[g] = latest[g]
           /\ seen' \in [Proc -> [Offset -> SUBSET Stamp]]
BY DEF FileTypeOK, Observe

\* The new list of a file is put in place by request p, the holder of idx.mu.
LEMMA CommitStep ==
    ASSUME FileInv, NEW p \in Proc, NEW f \in live, NEW list \in Seq(Extent),
           NEW n \in 0..MaxFileSize, NEW lat \in [Offset -> Stamp],
           pc[p] \in {"overlay", "trim"},
           UNCHANGED <<csVars, live, writes>>,
           extents' = [extents EXCEPT ![f] = list],
           size' = [size EXCEPT ![f] = n],
           idxLock' = NoProc, Reply(p), Observe(f, lat),
           \A i \in 1..Len(list) : FreshAt(appended, f, list[i], lat) /\ End(list[i]) <= n
    PROVE  FileInv'
<1>1. FileTypeOK /\ CSInv /\ IndexOK /\ f \in File
  BY DEF FileInv, FileTypeOK
<1>2. /\ latest' \in [File -> [Offset -> Stamp]]
      /\ latest'[f] = lat
      /\ \A g \in File \ {f} : latest'[g] = latest[g]
      /\ seen' \in [Proc -> [Offset -> SUBSET Stamp]]
  BY <1>1, ObserveTypes
<1>3. /\ extents' \in [File -> Seq(Extent)] /\ extents'[f] = list
      /\ \A g \in File \ {f} : extents'[g] = extents[g] /\ size'[g] = size[g]
      /\ size' \in [File -> 0..MaxFileSize] /\ size'[f] = n
  BY <1>1 DEF FileTypeOK
<1>4. FileTypeOK'
  BY <1>1, <1>2, <1>3, ReplyFrame, Zenon DEF FileTypeOK
<1>5. CSInv' /\ AppendedGrows /\ UNCHANGED appended
  BY <1>1, StoreIdle DEF csVars
<1>6. IndexOK'
  <2>. SUFFICES ASSUME NEW g \in live, NEW i \in 1..Len(extents'[g])
                PROVE  /\ FreshAt(appended', g, extents'[g][i], latest'[g])
                       /\ End(extents'[g][i]) <= size'[g]
    BY DEF IndexOK, End
  <2>1. CASE g = f
    <3>1. extents'[g] = list /\ latest'[g] = lat /\ size'[g] = n /\ appended' = appended
      BY <1>2, <1>3, <1>5, <2>1
    <3>2. FreshAt(appended, f, list[i], lat) /\ End(list[i]) <= n
      BY <3>1
    <3>. QED
      BY <2>1, <3>1, <3>2
  <2>2. CASE g # f
    <3>1. g \in File \ {f}
      BY <1>1, <2>2 DEF FileTypeOK
    <3>. QED
      BY <1>1, <1>2, <1>3, <1>5, <3>1, Zenon DEF IndexOK
  <2>. QED
    BY <2>1, <2>2
<1>7. \A q \in Proc \ {p} : ReqOK(q)'
  <2>. TAKE q \in Proc \ {p}
  <2>1. pc[q] \notin {"overlay", "trim"}
    BY DEF FileInv, ReqOK, LockOK
  <2>2. pc'[q] = pc[q] /\ arg'[q] = arg[q] /\ ext'[q] = ext[q] /\ out'[q] = out[q]
    BY <1>1, ReplyFrame DEF Others
  <2>. QED
    BY <1>5, <2>1, <2>2, ReqStable
<1>. QED
  BY <1>1, <1>4, <1>5, <1>6, <1>7, ReplyFrame DEF FileInv

\* WriteExtent replaces the list.
LEMMA WriteCommitInv ==
    ASSUME FileInv, NEW p \in Proc, WriteCommit(p)
    PROVE  FileInv'
<1>. DEFINE f == arg[p].file
            x == ext[p]
            lat == [o \in Offset |-> IF o \in arg[p].off..(End(x) - 1)
                                     THEN arg[p].stamp ELSE latest[f][o]]
            list == Append(out[p], x)
            n == Grown(size[f], x)
<1>1. FileTypeOK /\ CSInv /\ ReqOK(p) /\ pc[p] = "overlay"
  BY DEF FileInv, WriteCommit
<1>2. /\ extents' = [extents EXCEPT ![f] = list]
      /\ size' = [size EXCEPT ![f] = n]
      /\ idxLock' = NoProc /\ Reply(p) /\ Observe(f, lat)
      /\ UNCHANGED <<csVars, live, writes>>
  BY DEF WriteCommit
<1>3. /\ f \in live /\ f \in File /\ size[f] \in 0..MaxFileSize /\ latest[f] \in [Offset -> Stamp]
      /\ x \in Extent /\ out[p] \in Seq(Extent) /\ arg[p].stamp \in Stamp
      /\ \A i \in 1..Len(out[p]) : out[p][i] \in Extent
  BY <1>1, ReqTypes, IndexTypes DEF ReqOK, LockOK
<1>4. /\ x.fileOff = arg[p].off
      /\ FreshAt(appended, f, x, [o \in Offset |-> arg[p].stamp])
      /\ \A i \in 1..Len(out[p]) : /\ FreshAt(appended, f, out[p][i], latest[f])
                                   /\ End(out[p][i]) <= size[f]
                                   /\ Apart(out[p][i], x)
  BY <1>1 DEF ReqOK, ExtOK, OverlayOK
<1>. HIDE DEF f, x
<1>5. lat \in [Offset -> Stamp]
  BY <1>3
<1>6. FreshAt(appended, f, x, lat)
  <2>1. \A o \in x.fileOff..(End(x) - 1) : lat[o] = [q \in Offset |-> arg[p].stamp][o]
    BY <1>3, <1>4, FreshOffsets, Zenon
  <2>. QED
    BY <1>4, <2>1, FreshAgree
<1>7. \A i \in 1..Len(out[p]) : FreshAt(appended, f, out[p][i], lat)
  <2>. TAKE i \in 1..Len(out[p])
  <2>. DEFINE e == out[p][i]
  <2>1. e \in Extent /\ FreshAt(appended, f, e, latest[f]) /\ Apart(e, x)
    BY <1>3, <1>4
  <2>. HIDE DEF e
  <2>2. \A o \in e.fileOff..(End(e) - 1) : o \in Offset /\ o \notin x.fileOff..(End(x) - 1)
    <3>1. \A o \in e.fileOff..(End(e) - 1) : o \in Offset
      BY <2>1, FreshOffsets
    <3>2. e.fileOff \in Nat /\ End(e) \in Nat /\ x.fileOff \in Nat /\ End(x) \in Nat
      BY <1>3, <2>1, ExtentFields
    <3>3. \A o \in e.fileOff..(End(e) - 1) : o \notin x.fileOff..(End(x) - 1)
      BY <2>1, <3>2 DEF Apart
    <3>. QED
      BY <3>1, <3>3
  <2>3. \A o \in e.fileOff..(End(e) - 1) : lat[o] = latest[f][o]
    BY <1>4, <2>2
  <2>. HIDE DEF lat
  <2>4. FreshAt(appended, f, e, lat)
    BY <2>1, <2>3, FreshAgree
  <2>. QED
    BY <2>4 DEF e
<1>8. n \in 0..MaxFileSize /\ End(x) <= n /\ size[f] <= n
  <2>1. End(x) <= MaxFileSize /\ End(x) \in Nat
    BY <1>3, <1>4, ExtentFields DEF FreshAt
  <2>. DEFINE s == size[f]
              w == End(x)
  <2>2. n = IF w > s THEN w ELSE s
    BY Zenon DEF Grown
  <2>3. s \in Nat /\ s <= MaxFileSize /\ MaxFileSize \in Nat
    BY <1>3, BoundsAssumption
  <2>4. w \in Nat /\ w <= MaxFileSize
    BY <2>1, Zenon
  <2>. HIDE DEF n, s, w
  <2>5. n \in 0..MaxFileSize /\ w <= n /\ s <= n
    BY ONLY <2>2, <2>3, <2>4
  <2>. QED
    BY <2>5, Zenon DEF s, w
<1>. HIDE DEF lat, n
<1>9. /\ list \in Seq(Extent)
      /\ \A i \in 1..Len(list) : FreshAt(appended, f, list[i], lat) /\ End(list[i]) <= n
  <2>1. /\ list \in Seq(Extent) /\ Len(list) = Len(out[p]) + 1
        /\ list[Len(list)] = x /\ \A i \in 1..Len(out[p]) : list[i] = out[p][i]
    BY <1>3
  <2>. HIDE DEF list
  <2>2. \A i \in 1..Len(out[p]) : End(out[p][i]) <= n
    <3>. TAKE i \in 1..Len(out[p])
    <3>1. End(out[p][i]) \in Nat /\ End(out[p][i]) <= size[f] /\ size[f] \in Nat /\ n \in Nat
      <4>1. out[p][i] \in Extent /\ End(out[p][i]) <= size[f]
        BY <1>3, <1>4
      <4>2. End(out[p][i]) \in Nat
        BY <4>1, ExtentFields
      <4>3. size[f] \in Nat /\ n \in Nat
        BY <1>3, <1>8, BoundsAssumption
      <4>. QED
        BY <4>1, <4>2, <4>3
    <3>. QED
      BY <1>8, <3>1
  <2>. QED
    BY <1>3, <1>6, <1>7, <1>8, <2>1, <2>2
<1>. HIDE DEF list
<1>. QED
  BY <1>1, <1>2, <1>3, <1>5, <1>8, <1>9, CommitStep, Zenon

\* Setattr takes idx.mu.
LEMMA TruncateInv ==
    ASSUME FileInv, NEW p \in Proc, NEW f \in File, NEW n \in TruncSizes, Truncate(p, f, n)
    PROVE  FileInv'
<1>. DEFINE a == [file |-> f, off |-> n, len |-> 0, grow |-> 0, stamp |-> 0]
<1>1. FileTypeOK /\ CSInv /\ ReqOK(p)
  BY DEF FileInv
<1>2. /\ pc[p] = "idle" /\ idxLock = NoProc /\ f \in live
      /\ arg' = [arg EXCEPT ![p] = a]
      /\ idxLock' = p
      /\ pc' = [pc EXCEPT ![p] = "trim"]
      /\ UNCHANGED <<csVars, live, size, extents, ext, iter, out, buf, histVars>>
  BY DEF Truncate, Goto
<1>3. a \in Request /\ a.file = f
  BY BoundsAssumption DEF Request, Stamp
<1>. HIDE DEF a
<1>4. FileTypeOK'
  BY <1>1, <1>2, <1>3 DEF FileTypeOK, histVars, Points
<1>5. pc'[p] = "trim" /\ arg'[p] = a /\ out'[p] = <<>> /\ Others(p)
  BY <1>1, <1>2 DEF FileTypeOK, Others, ReqOK, OutOK
<1>6. ReqOK(p)'
  BY <1>2, <1>3, <1>5 DEF ReqOK, LockOK, OutOK, ArgOK, ExtOK, OverlayOK, TrimOK
<1>. QED
  BY <1>1, <1>2, <1>4, <1>5, <1>6, StoreIdle, LocalStep DEF Others, histVars

\* trimExtents replaces the list.
LEMMA TrimCommitInv ==
    ASSUME FileInv, NEW p \in Proc, TrimCommit(p)
    PROVE  FileInv'
<1>. DEFINE f == arg[p].file
            n == arg[p].off
            lat == [o \in Offset |-> IF o >= n THEN 0 ELSE latest[f][o]]
<1>1. FileTypeOK /\ CSInv /\ ReqOK(p) /\ pc[p] = "trim"
  BY DEF FileInv, TrimCommit
<1>2. /\ extents' = [extents EXCEPT ![f] = out[p]]
      /\ size' = [size EXCEPT ![f] = n]
      /\ idxLock' = NoProc /\ Reply(p) /\ Observe(f, lat)
      /\ UNCHANGED <<csVars, live, writes>>
  BY DEF TrimCommit
<1>3. /\ f \in live /\ n \in 0..MaxFileSize /\ latest[f] \in [Offset -> Stamp]
      /\ out[p] \in Seq(Extent)
      /\ \A i \in 1..Len(out[p]) : out[p][i] \in Extent
  <2>1. f \in File /\ arg[p] \in Request
    BY <1>1, ReqTypes
  <2>2. n \in 0..MaxFileSize
    BY <2>1 DEF Request
  <2>. QED
    BY <1>1, <2>1, <2>2, ReqTypes, IndexTypes DEF ReqOK, LockOK
<1>4. \A i \in 1..Len(out[p]) : /\ FreshAt(appended, f, out[p][i], latest[f])
                                /\ End(out[p][i]) <= n
  BY <1>1 DEF ReqOK, TrimOK
<1>. HIDE DEF f, n
<1>5. lat \in [Offset -> Stamp]
  <2>1. 0 \in Stamp
    BY BoundsAssumption DEF Stamp
  <2>. QED
    BY <1>3, <2>1
<1>6. \A i \in 1..Len(out[p]) : FreshAt(appended, f, out[p][i], lat)
  <2>. TAKE i \in 1..Len(out[p])
  <2>. DEFINE e == out[p][i]
  <2>1. e \in Extent /\ FreshAt(appended, f, e, latest[f]) /\ End(e) <= n
    BY <1>3, <1>4
  <2>. HIDE DEF e
  <2>2. \A o \in e.fileOff..(End(e) - 1) : o \in Offset
    BY <2>1, FreshOffsets
  <2>3. e.fileOff \in Nat /\ End(e) \in Nat /\ n \in Nat
    BY <1>3, <2>1, ExtentFields
  <2>4. \A o \in e.fileOff..(End(e) - 1) : ~(o >= n)
    BY <2>1, <2>3
  <2>5. \A o \in e.fileOff..(End(e) - 1) : lat[o] = latest[f][o]
    BY <2>2, <2>4
  <2>. HIDE DEF lat
  <2>6. FreshAt(appended, f, e, lat)
    BY <2>1, <2>5, FreshAgree
  <2>. QED
    BY <2>6 DEF e
<1>. HIDE DEF lat
<1>. QED
  BY <1>1, <1>2, <1>3, <1>4, <1>5, <1>6, CommitStep, Zenon

\* The last link of a file is removed.
LEMMA FreeInv ==
    ASSUME FileInv, NEW f \in File, Free(f)
    PROVE  FileInv'
<1>1. FileTypeOK /\ CSInv /\ IndexOK
  BY DEF FileInv
<1>2. /\ idxLock = NoProc /\ live' = live \ {f}
      /\ extents' = [extents EXCEPT ![f] = <<>>]
      /\ Observe(f, Unread)
      /\ UNCHANGED <<csVars, size, idxLock, writes>>
      /\ UNCHANGED <<pc, arg, ext, iter, out, buf>>
  BY DEF Free, reqVars
<1>3. Unread \in [Offset -> Stamp]
  BY BoundsAssumption DEF Unread, Stamp
<1>4. /\ latest' \in [File -> [Offset -> Stamp]]
      /\ \A g \in File \ {f} : latest'[g] = latest[g]
      /\ seen' \in [Proc -> [Offset -> SUBSET Stamp]]
  BY <1>1, <1>2, <1>3, ObserveTypes
<1>5. FileTypeOK'
  <2>1. <<>> \in Seq(Extent)
    OBVIOUS
  <2>2. extents' \in [File -> Seq(Extent)]
    BY <1>1, <1>2, <2>1 DEF FileTypeOK
  <2>. QED
    BY <1>1, <1>2, <1>4, <2>2 DEF FileTypeOK
<1>6. CSInv' /\ AppendedGrows /\ UNCHANGED appended
  BY <1>1, <1>2, StoreIdle DEF csVars
<1>7. IndexOK'
  <2>1. \A g \in live' : g \in live /\ g \in File \ {f} /\ extents'[g] = extents[g]
    BY <1>1, <1>2 DEF FileTypeOK
  <2>. QED
    BY <1>1, <1>2, <1>4, <1>6, <2>1 DEF IndexOK, End
<1>8. \A q \in Proc : ReqOK(q)'
  <2>. TAKE q \in Proc
  <2>1. pc[q] \notin {"overlay", "trim"}
    BY <1>2, NoProcAssumption DEF FileInv, ReqOK, LockOK
  <2>. QED
    BY <1>2, <1>6, <2>1, ReqStable
<1>. QED
  BY <1>5, <1>6, <1>7, <1>8 DEF FileInv

-----------------------------------------------------------------------------
(* Reads *)

\* A step of a read that does not answer.
LEMMA ReadMoves ==
    ASSUME FileInv, NEW p \in Proc, UNCHANGED <<csVars, indexVars, latest, writes>>,
           FileTypeOK', Others(p), pc'[p] \in {"getextents", "read", "sealed", "result"}
    PROVE  FileInv'
<1>1. CSInv' /\ AppendedGrows
  BY StoreIdle DEF FileInv
<1>2. ReqOK(p)'
  BY AtRest
<1>3. UNCHANGED <<live, size, extents, idxLock, latest>>
  BY DEF indexVars
<1>. QED
  BY <1>1, <1>2, <1>3, LocalStep DEF Others

\* A read that answers.
LEMMA ReadReplyInv ==
    ASSUME FileInv, NEW p \in Proc, UNCHANGED <<csVars, indexVars, latest, writes>>, ReadReply(p)
    PROVE  FileInv'
<1>1. CSInv' /\ AppendedGrows
  BY StoreIdle DEF FileInv
<1>2. NotSeen \in [Offset -> SUBSET Stamp]
  BY BoundsAssumption DEF NotSeen, Stamp
<1>3. seen' \in [Proc -> [Offset -> SUBSET Stamp]]
  BY <1>2 DEF ReadReply, FileInv, FileTypeOK
<1>. QED
  BY <1>1, <1>3, ReplyInv DEF ReadReply

\* GetInode of a read.
LEMMA ReadStartInv ==
    ASSUME FileInv, NEW p \in Proc, NEW f \in File, NEW r \in ReadRanges,
           ReadStart(p, f, r[1], r[2])
    PROVE  FileInv'
<1>. DEFINE off == r[1]
            len == IF r[1] + r[2] > size[f] THEN size[f] - r[1] ELSE r[2]
            a == [file |-> f, off |-> off, len |-> len, grow |-> 0, stamp |-> 0]
            s == [o \in Offset |-> {latest[f][o]}]
<1>1. FileTypeOK
  BY DEF FileInv
<1>2. r[1] \in Nat /\ r[2] \in Nat
  BY BoundsAssumption DEF Offset
<1>3. /\ off < size[f]
      /\ arg' = [arg EXCEPT ![p] = a]
      /\ seen' = [seen EXCEPT ![p] = s]
      /\ pc' = [pc EXCEPT ![p] = "getextents"]
      /\ UNCHANGED <<csVars, indexVars, ext, iter, out, buf, latest, writes>>
  BY DEF ReadStart, Goto
<1>4. a \in Request
  <2>1. off \in 0..MaxFileSize /\ len \in 0..MaxFileSize
    <3>1. size[f] \in Nat /\ size[f] <= MaxFileSize
      BY <1>1, IndexTypes, BoundsAssumption
    <3>2. off < size[f]
      BY <1>3
    <3>. QED
      BY ONLY <1>2, <3>1, <3>2, BoundsAssumption
  <2>2. 0 \in Stamp
    BY BoundsAssumption DEF Stamp
  <2>. HIDE DEF off, len
  <2>. QED
    BY <2>1, <2>2 DEF Request
<1>5. s \in [Offset -> SUBSET Stamp]
  BY <1>1, IndexTypes
<1>. HIDE DEF a, s
<1>6. FileTypeOK' /\ Others(p) /\ pc'[p] = "getextents"
  BY <1>1, <1>3, <1>4, <1>5, Zenon DEF FileTypeOK, Others, indexVars, Points
<1>. QED
  BY <1>3, <1>6, ReadMoves

\* GetExtents copies the list.
LEMMA GetExtentsInv ==
    ASSUME FileInv, NEW p \in Proc, GetExtents(p)
    PROVE  FileInv'
<1>1. FileTypeOK /\ UNCHANGED <<csVars, indexVars, latest, writes>>
  BY DEF FileInv, GetExtents
<1>2. CASE ReadReply(p)
  BY <1>1, <1>2, ReadReplyInv
<1>3. CASE /\ out' = [out EXCEPT ![p] = extents[arg[p].file]]
           /\ pc' = [pc EXCEPT ![p] = "read"]
           /\ UNCHANGED <<arg, ext, iter, seen>>
  <2>1. extents[arg[p].file] \in Seq(Extent)
    BY <1>1, ReqTypes, IndexTypes
  <2>2. FileTypeOK' /\ Others(p) /\ pc'[p] = "read"
    BY <1>1, <1>3, <2>1 DEF FileTypeOK, Others, indexVars, Points
  <2>. QED
    BY <1>1, <2>2, ReadMoves
<1>. QED
  BY <1>2, <1>3, Zenon DEF GetExtents, Goto

\* One extent of a read, from memory or from the store.
LEMMA ReadExtentInv ==
    ASSUME FileInv, NEW p \in Proc,
           ReadExtent(p) \/ ReadSealed(p) \/ ReadSealedError(p) \/ ReadDone(p) \/ ReadResult(p)
    PROVE  FileInv'
<1>1. FileTypeOK /\ UNCHANGED <<csVars, indexVars, latest, writes>>
  BY Zenon DEF FileInv, ReadExtent, ReadSealed, ReadSealedError, ReadDone, ReadResult, histVars
<1>2. CASE ReadReply(p)
  BY <1>1, <1>2, ReadReplyInv
<1>3. CASE /\ \E at \in {"read", "sealed", "result"} : pc' = [pc EXCEPT ![p] = at]
           /\ UNCHANGED iter \/ iter' = [iter EXCEPT ![p] = @ + 1]
           /\ UNCHANGED <<arg, ext, out, seen>>
  <2>1. /\ pc'[p] \in {"read", "sealed", "result"} /\ pc' \in [Proc -> Points]
        /\ \A q \in Proc \ {p} : pc'[q] = pc[q]
    BY <1>1, <1>3 DEF FileTypeOK, Points
  <2>2. iter' \in [Proc -> Nat \ {0}]
    <3>1. iter \in [Proc -> Nat \ {0}] /\ iter[p] + 1 \in Nat \ {0}
      BY <1>1 DEF FileTypeOK
    <3>2. CASE iter' = [iter EXCEPT ![p] = @ + 1]
      BY <3>1, <3>2
    <3>3. CASE UNCHANGED iter
      BY <3>1, <3>3
    <3>. QED
      BY <1>3, <3>2, <3>3
  <2>3. FileTypeOK' /\ Others(p)
    BY <1>1, <1>3, <2>1, <2>2, Zenon DEF FileTypeOK, Others, indexVars
  <2>. QED
    BY <1>1, <2>1, <2>3, ReadMoves
<1>4. CASE ReadExtent(p) /\ ~ReadReply(p)
  <2>1. /\ pc[p] = "read"
        /\ UNCHANGED pc \/ pc' = [pc EXCEPT ![p] = "sealed"]
        /\ UNCHANGED iter \/ iter' = [iter EXCEPT ![p] = @ + 1]
        /\ UNCHANGED <<arg, ext, out, seen>>
    <3>. DEFINE e == out[p][iter[p]]
    <3>1. \/ iter' = [iter EXCEPT ![p] = @ + 1] /\ UNCHANGED <<pc, arg, ext, out, buf, seen>>
          \/ Copy(p, e, activeBuf) /\ UNCHANGED <<pc, arg, ext, out, seen>>
          \/ Goto(p, "sealed") /\ UNCHANGED <<arg, ext, iter, out, buf, seen>>
      BY <1>4, Zenon DEF ReadExtent
    <3>2. pc[p] = "read"
      BY <1>4, Zenon DEF ReadExtent
    <3>. QED
      BY <3>1, <3>2, Zenon DEF Goto, Copy
  <2>2. pc' = [pc EXCEPT ![p] = "read"] \/ pc' = [pc EXCEPT ![p] = "sealed"]
    BY <1>1, <2>1 DEF FileTypeOK
  <2>. QED
    BY <1>3, <2>1, <2>2
<1>5. CASE ReadSealed(p)
  <2>1. /\ pc' = [pc EXCEPT ![p] = "read"]
        /\ iter' = [iter EXCEPT ![p] = @ + 1]
        /\ UNCHANGED <<arg, ext, out, seen>>
    BY <1>5, Zenon DEF ReadSealed, Goto, Copy, histVars
  <2>. QED
    BY <1>3, <2>1
<1>6. CASE ReadDone(p)
  <2>1. pc' = [pc EXCEPT ![p] = "result"] /\ UNCHANGED <<arg, ext, iter, out, seen>>
    BY <1>6 DEF ReadDone, Goto, histVars
  <2>. QED
    BY <1>3, <2>1
<1>. QED
  BY <1>2, <1>4, <1>5, <1>6 DEF ReadSealedError, ReadResult

-----------------------------------------------------------------------------
(* The theorems *)

\* No file has been written yet.
LEMMA FileInit == Init => FileInv
<1>. SUFFICES ASSUME Init PROVE FileInv
  OBVIOUS
<1>1. CSInv
  BY CSInitInv DEF Init
<1>2. \A f \in File : extents[f] = <<>>
  BY DEF Init
<1>3. FileTypeOK
  <2>1. <<>> \in Seq(Extent)
    OBVIOUS
  <2>2. extents \in [File -> Seq(Extent)] /\ out \in [Proc -> Seq(Extent)]
    BY <2>1 DEF Init
  <2>3. /\ live \subseteq File /\ idxLock \in Proc \cup {NoProc}
        /\ size \in [File -> 0..MaxFileSize]
        /\ pc \in [Proc -> Points] /\ iter \in [Proc -> Nat \ {0}]
    BY BoundsAssumption DEF Init, Points
  <2>4. arg \in [Proc -> Request] /\ ext \in [Proc -> Extent]
    BY NoLocals DEF Init
  <2>5. /\ latest \in [File -> [Offset -> Stamp]] /\ writes \in Stamp
        /\ seen \in [Proc -> [Offset -> SUBSET Stamp]]
    BY BoundsAssumption DEF Init, Unread, NotSeen, Stamp
  <2>. QED
    BY <2>2, <2>3, <2>4, <2>5 DEF FileTypeOK
<1>4. IndexOK
  BY <1>2, <1>3 DEF IndexOK, FileTypeOK
<1>5. \A p \in Proc : ReqOK(p)
  BY DEF Init, ReqOK, LockOK, OutOK, ArgOK, ExtOK, OverlayOK, TrimOK
<1>. QED
  BY <1>1, <1>3, <1>4, <1>5 DEF FileInv

\* A step of a request, a flush or an unlink keeps the invariant.
LEMMA FileNext == FileInv /\ [Next]_vars => FileInv'
<1>. SUFFICES ASSUME FileInv, [Next]_vars PROVE FileInv'
  OBVIOUS
<1>1. ASSUME NEW p \in Proc, WriteNext(p) PROVE FileInv'
  BY <1>1, WriteStartInv, WriteSpaceInv, WriteAppendInv, WriteAppendErrorInv,
     WriteExtentInv, OverlayStepInv, WriteCommitInv DEF WriteNext
<1>2. ASSUME NEW p \in Proc, SetattrNext(p) PROVE FileInv'
  BY <1>2, TruncateInv, TrimStepInv, TrimCommitInv DEF SetattrNext
<1>3. ASSUME NEW p \in Proc, ReadNext(p) PROVE FileInv'
  BY <1>3, ReadStartInv, GetExtentsInv, ReadExtentInv DEF ReadNext
<1>4. ASSUME CSInv', AppendedGrows, UNCHANGED <<indexVars, reqVars, histVars>> PROVE FileInv'
  <2>1. /\ UNCHANGED <<live, size, extents, idxLock, latest, writes, seen>>
        /\ UNCHANGED <<pc, arg, ext, iter, out>>
    BY <1>4 DEF indexVars, reqVars, histVars
  <2>2. FileTypeOK'
    BY <2>1, Zenon DEF FileInv, FileTypeOK
  <2>3. IndexOK' /\ \A q \in Proc : ReqOK(q)'
    BY <1>4, <2>1, IndexStable, ReqStable
  <2>. QED
    BY <1>4, <2>2, <2>3 DEF FileInv
<1>5. CASE Flush
  <2>1. CSInv /\ (FlushActive \/ FlushError) /\ UNCHANGED appended
    BY <1>5 DEF FileInv, Flush, FlushActive, FlushError
  <2>2. CSInv' /\ AppendedGrows
    BY <2>1, FlushInv, NothingAppended
  <2>. QED
    BY <1>4, <1>5, <2>2 DEF Flush
<1>6. CASE UNCHANGED vars
  BY <1>4, <1>6, StoreIdle DEF vars, FileInv
<1>. QED
  BY <1>1, <1>2, <1>3, <1>5, <1>6, FreeInv DEF Next, Quiet

\* The invariant holds in every reachable state.
THEOREM FileInvariant == Spec => []FileInv
BY FileInit, FileNext, PTL DEF Spec

\* The data path keeps its types.
THEOREM FileTyped == Spec => []TypeOK
<1>1. FileInv => TypeOK
  BY DEF FileInv, TypeOK, CSInv
<1>. QED
  BY <1>1, FileInvariant, PTL

\* No extent in the index leads to overwritten data, truncated data or another
\* file, whatever requests, flushes and failed uploads interleave (WriteExtent,
\* trimExtents): for every number of files, requests, writes and chunks.
THEOREM ExtentsNeverStale == Spec => []NoStaleExtents
<1>1. FileInv => NoStaleExtents
  <2>. SUFFICES ASSUME FileInv, NEW f \in live, NEW i \in DOMAIN extents[f]
                PROVE  Fresh(f, extents[f][i], latest[f])
    BY DEF NoStaleExtents
  <2>. DEFINE e == extents[f][i]
  <2>1. f \in File /\ i \in 1..Len(extents[f])
    BY IndexTypes DEF FileInv, FileTypeOK
  <2>2. FreshAt(appended, f, e, latest[f])
    BY <2>1 DEF FileInv, IndexOK
  <2>3. e.chunk \in DOMAIN appended
    BY <2>2 DEF FreshAt
  <2>4. /\ e.chunk = activeID \/ e.chunk \in DOMAIN store
        /\ Contents(e.chunk) = appended[e.chunk]
    BY <2>3 DEF FileInv, CSInv, AppendedReadable
  <2>. HIDE DEF e
  <2>5. Fresh(f, e, latest[f])
    BY <2>2, <2>4 DEF Fresh, FreshAt
  <2>. QED
    BY <2>5 DEF e
<1>. QED
  BY <1>1, FileInvariant, PTL

\* A file's size covers its extents: a later growth shows zeros, never the
\* bytes a truncate cut off (SetAttr, WriteExtent).
THEOREM SizeCoversExtents == Spec => []ExtentsWithinSize
<1>1. FileInv => ExtentsWithinSize
  <2>. SUFFICES ASSUME FileInv, NEW f \in live, NEW i \in DOMAIN extents[f]
                PROVE  End(extents[f][i]) <= size[f]
    BY DEF ExtentsWithinSize
  <2>1. f \in File /\ i \in 1..Len(extents[f])
    BY IndexTypes DEF FileInv, FileTypeOK
  <2>. QED
    BY <2>1 DEF FileInv, IndexOK
<1>. QED
  BY <1>1, FileInvariant, PTL

-----------------------------------------------------------------------------
(* Nothing is lost when no write splits an extent.  The loop of WriteExtent *)
(* then keeps at most one piece of each extent, what it has kept stays      *)
(* behind the element it reads although the two share an array, and each    *)
(* byte is in what is still to be read, in what is kept, or overwritten.    *)
(* A read copies from the extents of one moment, so its bytes are those of  *)
(* that moment.                                                             *)

\* From position from on, the list has an extent over offset o.
Covered(list, from, o) ==
    \E j \in from..Len(list) : list[j].fileOff <= o /\ o < End(list[j])

\* Every byte written and not truncated since is covered by an extent.
NothingLost ==
    \A f \in live : \A o \in Offset : latest[f][o] # 0 => Covered(extents[f], 1, o)

\* Before its loop, a request is at the first element.
AtFirst(p) == pc[p] \in {"idle", "space", "append", "extent", "getextents"} => iter[p] = 1

\* In the loop of WriteExtent: what is kept lies behind the element being read,
\* and a byte is in what is still to be read, in what is kept, or overwritten.
OverlayKeeps(p) ==
    pc[p] = "overlay" =>
        /\ Len(out[p]) < iter[p]
        /\ \A o \in Offset : latest[arg[p].file][o] # 0 =>
               \/ Covered(extents[arg[p].file], iter[p], o)
               \/ Covered(out[p], 1, o)
               \/ ext[p].fileOff <= o /\ o < End(ext[p])

\* In the loop of trimExtents, for the bytes below the new size.
TrimKeeps(p) ==
    pc[p] = "trim" =>
        \A o \in Offset : latest[arg[p].file][o] # 0 /\ o < arg[p].off =>
            \/ Covered(extents[arg[p].file], iter[p], o)
            \/ Covered(out[p], 1, o)

\* A read in progress has seen what its file holds now, and reads within it.
ReadSees(p) ==
    /\ pc[p] \in {"getextents", "read", "sealed"} =>
           \A o \in Offset : latest[arg[p].file][o] \in seen[p][o]
    /\ pc[p] \in {"getextents", "read", "sealed", "result"} =>
           arg[p].off + arg[p].len <= MaxFileSize

\* The byte of the write s at offset o of file f.
ByteOf(f, o, s) == [file |-> f, off |-> o, stamp |-> s]

\* The extents a read captured are those of one moment of the read, at which
\* the file held lat; each byte is already that of the moment, or is still to
\* be copied from an extent.
ReadAt(p, lat) ==
    /\ \A o \in Offset : lat[o] \in seen[p][o]
    /\ \A i \in 1..Len(out[p]) : FreshAt(appended, arg[p].file, out[p][i], lat)
    /\ \A o \in arg[p].off..(arg[p].off + arg[p].len - 1) :
           buf[p][o] = ByteOf(arg[p].file, o, lat[o]) \/ Covered(out[p], iter[p], o)

ReadKeeps(p) ==
    pc[p] \in {"read", "sealed"} => \E lat \in [Offset -> Stamp] : ReadAt(p, lat)

\* An extent being fetched is not in the active chunk.
FetchOK(p) ==
    pc[p] = "sealed" => iter[p] <= Len(out[p]) /\ out[p][iter[p]].chunk # activeID

\* A finished read has only bytes it saw.
ResultOK(p) ==
    pc[p] = "result" =>
        \A o \in arg[p].off..(arg[p].off + arg[p].len - 1) :
            /\ buf[p][o].file = arg[p].file /\ buf[p][o].off = o
            /\ buf[p][o].stamp \in seen[p][o]

KeepOK(p) == AtFirst(p) /\ OverlayKeeps(p) /\ TrimKeeps(p)
ReadOK(p) == ReadSees(p) /\ ReadKeeps(p) /\ FetchOK(p) /\ ResultOK(p)

\* No write lies strictly inside an extent of its file: the loop of WriteExtent
\* splits none.
NoSplit ==
    \A p \in Proc : pc[p] = "overlay" =>
        \A i \in 1..Len(extents[arg[p].file]) :
            ~(/\ extents[arg[p].file][i].fileOff < ext[p].fileOff
              /\ End(extents[arg[p].file][i]) > End(ext[p]))

\* The invariant: nothing is lost, and every request keeps to it.
KeepInv ==
    /\ FileInv
    /\ NothingLost
    /\ DOMAIN buf = Proc
    /\ \A p \in Proc : KeepOK(p) /\ ReadOK(p)

\* Request q does not move.
Still(q) ==
    /\ pc'[q] = pc[q] /\ arg'[q] = arg[q] /\ ext'[q] = ext[q]
    /\ iter'[q] = iter[q] /\ out'[q] = out[q] /\ buf'[q] = buf[q]

\* A read in progress sees every change of its file.
StillSees(q) ==
    /\ \A o \in Offset : seen[q][o] \subseteq seen'[q][o]
    /\ pc[q] \in {"getextents", "read", "sealed"} =>
           \A o \in Offset : latest'[arg[q].file][o] \in seen'[q][o]

\* Appended bytes stay, and a chunk that becomes active is a new one.
StoreStep ==
    /\ AppendedGrows
    /\ activeID' = activeID \/ activeID' \notin DOMAIN appended

\* No step takes appended bytes away.
LEMMA StoreSteps == ASSUME FileInv, [Next]_vars PROVE StoreStep
<1>1. CSInv
  BY DEF FileInv
<1>2. CASE UNCHANGED appended /\ UNCHANGED activeID
  BY <1>1, <1>2, NothingAppended DEF StoreStep
<1>3. ASSUME NEW p \in Proc, WriteAppend(p) PROVE StoreStep
  <2>. DEFINE d == Payload(arg[p])
  <2>1. AppendData(d) /\ d \in Seq(Byte) \ {<<>>}
    BY <1>3, PayloadBytes DEF WriteAppend
  <2>. HIDE DEF d
  <2>2. AppendedGrows
    BY <1>1, <2>1, AppendExtent
  <2>3. activeID' = activeID \/ activeID' \notin DOMAIN appended
    <3>1. CASE AppendActive(d)
      BY <3>1 DEF AppendActive
    <3>2. CASE AppendRotate(d)
      BY <1>1, <3>2, NextIsFresh DEF AppendRotate, OpenNext
    <3>. QED
      BY <2>1, <3>1, <3>2 DEF AppendData
  <2>. QED
    BY <2>2, <2>3, Zenon DEF StoreStep
<1>4. CASE UNCHANGED csVars
  BY <1>2, <1>4 DEF csVars
<1>5. ASSUME NEW p \in Proc, WriteNext(p) PROVE StoreStep
  <2>1. CASE WriteAppendError(p)
    BY <1>2, <1>4, <2>1 DEF WriteAppendError, AppendError, SealError
  <2>. QED
    BY <1>3, <1>4, <1>5, <2>1, Zenon
       DEF WriteNext, WriteStart, WriteSpace, WriteExtent, OverlayStep, WriteCommit
<1>6. ASSUME NEW p \in Proc, SetattrNext(p) PROVE StoreStep
  BY <1>4, <1>6, Zenon DEF SetattrNext, Truncate, TrimStep, TrimCommit
<1>7. ASSUME NEW p \in Proc, ReadNext(p) PROVE StoreStep
  BY <1>4, <1>7, Zenon
     DEF ReadNext, ReadStart, GetExtents, ReadExtent, ReadSealed, ReadSealedError, ReadDone, ReadResult
<1>8. CASE Flush
  BY <1>2, <1>8 DEF Flush, FlushActive, FlushError
<1>. QED
  BY <1>4, <1>5, <1>6, <1>7, <1>8 DEF Next, Free, Quiet, vars

\* The loop of a request that does not move.
LEMMA KeepStable ==
    ASSUME NEW q \in Proc, Still(q), KeepOK(q),
           pc[q] \in {"overlay", "trim"} => UNCHANGED <<extents, latest>>
    PROVE  KeepOK(q)'
<1>1. AtFirst(q)'
  BY DEF Still, KeepOK, AtFirst
<1>2. OverlayKeeps(q)'
  BY Zenon DEF Still, KeepOK, OverlayKeeps, Covered, End
<1>3. TrimKeeps(q)'
  BY Zenon DEF Still, KeepOK, TrimKeeps, Covered, End
<1>. QED
  BY <1>1, <1>2, <1>3 DEF KeepOK

\* A read that does not move.
LEMMA ReadStable ==
    ASSUME FileInv, StoreStep, NEW q \in Proc, Still(q), ReadOK(q), StillSees(q)
    PROVE  ReadOK(q)'
<1>1. ReadSees(q)'
  BY Zenon DEF Still, StillSees, ReadOK, ReadSees
<1>2. ReadKeeps(q)'
  <2>. SUFFICES ASSUME pc[q] \in {"read", "sealed"}
                PROVE  \E lat \in [Offset -> Stamp] : ReadAt(q, lat)'
    BY DEF Still, ReadKeeps
  <2>1. PICK lat \in [Offset -> Stamp] : ReadAt(q, lat)
    BY DEF ReadOK, ReadKeeps
  <2>2. \A o \in Offset : lat[o] \in seen'[q][o]
    BY <2>1, Zenon DEF ReadAt, StillSees
  <2>3. \A i \in 1..Len(out[q]) : FreshAt(appended', arg[q].file, out[q][i], lat)
    <3>. TAKE i \in 1..Len(out[q])
    <3>1. FreshAt(appended, arg[q].file, out[q][i], lat) /\ out[q][i] \in Extent
      BY <2>1, ReqTypes, Zenon DEF ReadAt, FileInv
    <3>. QED
      BY <3>1, FreshGrows, Zenon DEF FileInv, StoreStep
  <2>4. ReadAt(q, lat)'
    BY <2>1, <2>2, <2>3, Zenon DEF ReadAt, Still, Covered, End
  <2>. QED
    BY <2>4
<1>3. FetchOK(q)'
  <2>. SUFFICES ASSUME pc[q] = "sealed"
                PROVE  iter[q] <= Len(out[q]) /\ out[q][iter[q]].chunk # activeID'
    BY DEF Still, FetchOK
  <2>1. iter[q] <= Len(out[q]) /\ out[q][iter[q]].chunk # activeID
    BY DEF ReadOK, FetchOK
  <2>2. PICK lat \in [Offset -> Stamp] : ReadAt(q, lat)
    BY DEF ReadOK, ReadKeeps
  <2>3. iter[q] \in 1..Len(out[q])
    BY <2>1, ReqTypes DEF FileInv
  <2>4. out[q][iter[q]].chunk \in DOMAIN appended
    BY <2>2, <2>3, Zenon DEF ReadAt, FreshAt
  <2>. QED
    BY <2>1, <2>4, Zenon DEF StoreStep
<1>4. ResultOK(q)'
  <2>. SUFFICES ASSUME pc[q] = "result",
                       NEW o \in arg[q].off..(arg[q].off + arg[q].len - 1)
                PROVE  /\ buf[q][o].file = arg[q].file /\ buf[q][o].off = o
                       /\ buf[q][o].stamp \in seen'[q][o]
    BY Zenon DEF Still, ResultOK
  <2>1. arg[q].off + arg[q].len <= MaxFileSize
    BY Zenon DEF ReadOK, ReadSees
  <2>2. o \in Offset
    BY <2>1, ReqTypes, BoundsAssumption DEF Offset, FileInv
  <2>. QED
    BY <2>2, Zenon DEF ReadOK, ResultOK, StillSees
<1>. QED
  BY <1>1, <1>2, <1>3, <1>4 DEF ReadOK

\* A step that leaves what files hold alone.
LEMMA SeesSame ==
    ASSUME NEW q \in Proc, ReadSees(q), UNCHANGED latest, seen'[q] = seen[q]
    PROVE  StillSees(q)
BY Zenon DEF ReadSees, StillSees

\* A step that changes what a file holds.
LEMMA SeesChange ==
    ASSUME FileTypeOK, NEW q \in Proc, ReadSees(q),
           NEW f \in File, NEW lat \in [Offset -> Stamp], Observe(f, lat)
    PROVE  StillSees(q)
<1>1. /\ latest'[f] = lat /\ \A g \in File \ {f} : latest'[g] = latest[g]
      /\ arg[q].file \in File
  BY ObserveTypes, ReqTypes, Zenon
<1>2. CASE pc[q] \in {"getextents", "read", "sealed"} /\ arg[q].file = f
  <2>1. seen'[q] = [o \in Offset |-> seen[q][o] \cup {lat[o]}]
    BY <1>2, Zenon DEF Observe
  <2>. QED
    BY <1>1, <1>2, <2>1, Zenon DEF StillSees
<1>3. CASE ~(pc[q] \in {"getextents", "read", "sealed"} /\ arg[q].file = f)
  <2>1. seen'[q] = seen[q]
    BY <1>3, Zenon DEF Observe
  <2>. QED
    BY <1>1, <1>3, <2>1 DEF StillSees, ReadSees
<1>. QED
  BY <1>2, <1>3, Zenon

\* A step of request p that leaves the index alone.
LEMMA LocalKeeps ==
    ASSUME KeepInv, [Next]_vars, NEW p \in Proc,
           UNCHANGED <<live, extents, latest>>,
           \A q \in Proc \ {p} : Still(q) /\ seen'[q] = seen[q],
           DOMAIN buf' = Proc, KeepOK(p)', ReadOK(p)'
    PROVE  KeepInv'
<1>1. FileInv'
  BY FileNext DEF KeepInv
<1>2. NothingLost'
  BY Zenon DEF KeepInv, NothingLost, Covered, End
<1>3. ASSUME NEW q \in Proc \ {p} PROVE KeepOK(q)' /\ ReadOK(q)'
  <2>1. KeepOK(q)'
    BY <1>3, KeepStable, Zenon DEF KeepInv
  <2>2. ReadOK(q)'
    BY <1>3, SeesSame, ReadStable, StoreSteps, Zenon DEF KeepInv, ReadOK
  <2>. QED
    BY <2>1, <2>2
<1>. QED
  BY <1>1, <1>2, <1>3, Zenon DEF KeepInv

\* A step of request p that puts a new list of file f in place.
LEMMA CommitKeeps ==
    ASSUME KeepInv, [Next]_vars, NEW p \in Proc, NEW f \in File,
           NEW lat \in [Offset -> Stamp], Observe(f, lat),
           live' = live, \A g \in File \ {f} : extents'[g] = extents[g],
           pc[p] \in {"overlay", "trim"}, Reply(p),
           \A o \in Offset : lat[o] # 0 => Covered(extents'[f], 1, o)
    PROVE  KeepInv'
<1>1. FileInv' /\ FileTypeOK
  BY FileNext DEF KeepInv, FileInv
<1>2. /\ latest'[f] = lat /\ \A g \in File \ {f} : latest'[g] = latest[g]
      /\ live \subseteq File
  BY <1>1, ObserveTypes, Zenon DEF FileTypeOK
<1>3. NothingLost'
  <2>. SUFFICES ASSUME NEW g \in live, NEW o \in Offset, latest'[g][o] # 0
                PROVE  Covered(extents'[g], 1, o)
    BY Zenon DEF NothingLost, Covered, End
  <2>1. CASE g = f
    BY <1>2, <2>1, Zenon
  <2>2. CASE g # f
    BY <1>2, <2>2 DEF KeepInv, NothingLost
  <2>. QED
    BY <2>1, <2>2, Zenon
<1>4. DOMAIN buf' = Proc /\ pc'[p] = "idle" /\ iter'[p] = 1
  BY <1>1 DEF KeepInv, Reply, Goto, FileTypeOK
<1>5. KeepOK(p)' /\ ReadOK(p)'
  BY <1>4, Zenon DEF KeepOK, AtFirst, OverlayKeeps, TrimKeeps, ReadOK, ReadSees, ReadKeeps, FetchOK, ResultOK
<1>6. ASSUME NEW q \in Proc \ {p} PROVE KeepOK(q)' /\ ReadOK(q)'
  <2>1. pc[q] \notin {"overlay", "trim"}
    BY <1>6, Zenon DEF KeepInv, FileInv, ReqOK, LockOK
  <2>2. Still(q)
    BY <1>1, <1>6 DEF KeepInv, Reply, Goto, FileTypeOK, Still
  <2>3. KeepOK(q)'
    BY <1>6, <2>1, <2>2, KeepStable, Zenon DEF KeepInv
  <2>4. ReadOK(q)'
    BY <1>1, <1>6, <2>2, SeesChange, ReadStable, StoreSteps, Zenon DEF KeepInv, ReadOK
  <2>. QED
    BY <2>3, <2>4, Zenon
<1>. QED
  BY <1>1, <1>3, <1>4, <1>5, <1>6, Zenon DEF KeepInv

\* A request that answers without having changed the index.
LEMMA ReplyKeeps ==
    ASSUME KeepInv, [Next]_vars, NEW p \in Proc, Reply(p),
           UNCHANGED <<live, extents, latest>>,
           \A q \in Proc \ {p} : seen'[q] = seen[q]
    PROVE  KeepInv'
<1>1. FileTypeOK /\ DOMAIN buf = Proc
  BY Zenon DEF KeepInv, FileInv
<1>2. DOMAIN buf' = Proc /\ pc'[p] = "idle" /\ iter'[p] = 1
  BY <1>1, Zenon DEF Reply, Goto, FileTypeOK
<1>3. KeepOK(p)' /\ ReadOK(p)'
  BY <1>2, Zenon DEF KeepOK, AtFirst, OverlayKeeps, TrimKeeps, ReadOK, ReadSees, ReadKeeps, FetchOK, ResultOK
<1>4. \A q \in Proc \ {p} : Still(q)
  BY <1>1 DEF Reply, Goto, FileTypeOK, Still
<1>. QED
  BY <1>2, <1>3, <1>4, LocalKeeps, Zenon

\* A write on its way to WriteExtent.
LEMMA WriteKeeps ==
    ASSUME KeepInv, [Next]_vars, NEW p \in Proc,
           pc[p] \in {"idle", "space", "append"}, pc'[p] \in {"space", "append", "extent"},
           UNCHANGED <<live, extents, latest, iter, buf, seen>>,
           \A q \in Proc \ {p} : Still(q)
    PROVE  KeepInv'
<1>1. iter'[p] = 1
  BY DEF KeepInv, KeepOK, AtFirst
<1>2. KeepOK(p)' /\ ReadOK(p)'
  BY <1>1, Zenon DEF KeepOK, AtFirst, OverlayKeeps, TrimKeeps, ReadOK, ReadSees, ReadKeeps, FetchOK, ResultOK
<1>3. DOMAIN buf' = Proc
  BY DEF KeepInv
<1>. QED
  BY <1>2, <1>3, LocalKeeps

\* A request enters its loop over the extents of a live file.
LEMMA EnterKeeps ==
    ASSUME KeepInv, [Next]_vars, NEW p \in Proc,
           pc[p] \in {"idle", "extent"}, pc'[p] \in {"overlay", "trim"},
           arg'[p].file \in live,
           UNCHANGED <<live, extents, latest, iter, out, buf, seen>>,
           \A q \in Proc \ {p} : Still(q)
    PROVE  KeepInv'
<1>. DEFINE f == arg'[p].file
<1>1. iter'[p] = 1 /\ out'[p] = <<>>
  BY Zenon DEF KeepInv, KeepOK, AtFirst, FileInv, ReqOK, OutOK
<1>2. \A o \in Offset : latest'[f][o] # 0 => Covered(extents'[f], 1, o)
  BY Zenon DEF KeepInv, NothingLost
<1>. HIDE DEF f
<1>3. Len(out'[p]) < iter'[p]
  BY <1>1
<1>4. OverlayKeeps(p)'
  BY <1>1, <1>2, <1>3, Zenon DEF OverlayKeeps, f, Covered, End
<1>5. TrimKeeps(p)'
  BY <1>1, <1>2, Zenon DEF TrimKeeps, f, Covered, End
<1>6. KeepOK(p)' /\ ReadOK(p)'
  BY <1>4, <1>5, Zenon DEF KeepOK, AtFirst, ReadOK, ReadSees, ReadKeeps, FetchOK, ResultOK
<1>7. DOMAIN buf' = Proc
  BY DEF KeepInv
<1>. QED
  BY <1>6, <1>7, LocalKeeps, Zenon

-----------------------------------------------------------------------------
(* The loops, and the steps that put their result in place *)

\* Extent e lies over offset o.
Over(e, o) == e.fileOff <= o /\ o < End(e)

\* What is covered from position k on is covered by the element there or by a
\* later one.
LEMMA CoveredStep ==
    ASSUME NEW list \in Seq(Extent), NEW k \in Nat \ {0}, NEW o, Covered(list, k, o)
    PROVE  \/ k \in 1..Len(list) /\ Over(list[k], o)
           \/ Covered(list, k + 1, o)
<1>1. PICK j \in k..Len(list) : Over(list[j], o)
  BY DEF Covered, Over
<1>2. Len(list) \in Nat
  OBVIOUS
<1>3. CASE j = k
  <2>1. k \in 1..Len(list)
    BY <1>2, <1>3
  <2>. QED
    BY <1>1, <1>3, <2>1
<1>4. CASE j # k
  <2>1. j \in (k + 1)..Len(list)
    BY <1>2, <1>4
  <2>. QED
    BY <1>1, <2>1 DEF Covered, Over
<1>. QED
  BY <1>3, <1>4

\* Nothing is covered past the end of a list.
LEMMA CoveredEnd ==
    ASSUME NEW list \in Seq(Extent), NEW k \in Nat, k > Len(list), NEW o
    PROVE  ~Covered(list, k, o)
<1>1. Len(list) \in Nat
  OBVIOUS
<1>2. k..Len(list) = {}
  BY <1>1
<1>. QED
  BY <1>2 DEF Covered

\* Positions of a list of extents, and bytes a request asks for.
LEMMA Positions ==
    ASSUME NEW s \in Seq(Extent)
    PROVE  Len(s) \in Nat /\ \A k \in Nat \ {0} : k <= Len(s) => k \in 1..Len(s) /\ s[k] \in Extent
  OBVIOUS

\* The bytes of a request that stays within the largest size are offsets.
LEMMA AskedOffsets ==
    ASSUME NEW a \in Nat, NEW b \in Nat, NEW o \in a..(a + b - 1)
    PROVE  o \in Int /\ (a + b <= MaxFileSize => o \in Offset)
  BY BoundsAssumption DEF Offset

\* What a byte tells of itself.
LEMMA ByteFields ==
    ASSUME NEW f, NEW o, NEW s
    PROVE  ByteOf(f, o, s).file = f /\ ByteOf(f, o, s).off = o /\ ByteOf(f, o, s).stamp = s
  BY DEF ByteOf

\* A concatenation covers what its halves cover.
LEMMA CoveredConcat ==
    ASSUME NEW s \in Seq(Extent), NEW t \in Seq(Extent), NEW o,
           Covered(s, 1, o) \/ Covered(t, 1, o)
    PROVE  Covered(s \o t, 1, o)
<1>1. /\ Len(s) \in Nat /\ Len(t) \in Nat /\ Len(s \o t) = Len(s) + Len(t)
      /\ \A j \in 1..Len(s) : (s \o t)[j] = s[j]
      /\ \A j \in 1..Len(t) : (s \o t)[Len(s) + j] = t[j]
  OBVIOUS
<1>2. CASE Covered(s, 1, o)
  <2>1. PICK j \in 1..Len(s) : Over(s[j], o)
    BY <1>2 DEF Covered, Over
  <2>2. j \in 1..Len(s \o t) /\ (s \o t)[j] = s[j]
    BY <1>1
  <2>. QED
    BY <2>1, <2>2, Zenon DEF Covered, Over
<1>3. CASE Covered(t, 1, o)
  <2>1. PICK j \in 1..Len(t) : Over(t[j], o)
    BY <1>3 DEF Covered, Over
  <2>2. Len(s) + j \in 1..Len(s \o t) /\ (s \o t)[Len(s) + j] = t[j]
    BY <1>1
  <2>. QED
    BY <2>1, <2>2, Zenon DEF Covered, Over
<1>. QED
  BY <1>2, <1>3

\* A list that grows by one element at most.
LEMMA ConcatShort ==
    ASSUME NEW s \in Seq(Extent), NEW t \in Seq(Extent), NEW k \in Nat \ {0},
           Len(s) < k, Len(t) <= 1
    PROVE  Len(s \o t) < k + 1
<1>1. Len(s) \in Nat /\ Len(s \o t) = Len(s) + Len(t)
  OBVIOUS
<1>2. \A a, b, c \in Int : a < c /\ b <= 1 => a + b < c + 1
  OBVIOUS
<1>3. Len(t) \in Int
  OBVIOUS
<1>4. Len(s) \in Int /\ k \in Int
  OBVIOUS
<1>. QED
  BY <1>1, <1>2, <1>3, <1>4, Zenon

\* One element covers what it lies over.
LEMMA CoveredOne == ASSUME NEW e, NEW o, Over(e, o) PROVE Covered(<<e>>, 1, o)
<1>1. Len(<<e>>) = 1 /\ <<e>>[1] = e /\ 1 \in 1..1
  OBVIOUS
<1>. QED
  BY <1>1, Zenon DEF Covered, Over

\* What one iteration of WriteExtent keeps covers the extent outside the
\* written range, in one piece unless the write is strictly inside the extent.
LEMMA SurvivingCovers ==
    ASSUME NEW e \in Extent, NEW n \in Extent
    PROVE  /\ ~(e.fileOff < n.fileOff /\ End(e) > End(n)) => Len(Surviving(e, n)) <= 1
           /\ \A o \in Nat : Over(e, o) => Covered(Surviving(e, n), 1, o) \/ Over(n, o)
<1>. DEFINE h == [e EXCEPT !.len = n.fileOff - e.fileOff]
            t == [e EXCEPT !.chunkOff = e.chunkOff + (End(n) - e.fileOff),
                           !.len = End(e) - End(n), !.fileOff = End(n)]
<1>1. /\ e.fileOff \in Nat /\ End(e) \in Nat /\ n.fileOff \in Nat /\ End(n) \in Nat
      /\ n.fileOff < End(n)
  BY ExtentFields
<1>2. CASE Apart(e, n)
  <2>1. Surviving(e, n) = <<e>>
    BY <1>2 DEF Surviving, Apart
  <2>2. Len(<<e>>) <= 1
    OBVIOUS
  <2>. QED
    BY <2>1, <2>2, CoveredOne, Zenon
<1>3. CASE ~Apart(e, n)
  <2>1. Surviving(e, n) = Head1(e, n) \o Tail1(e, n)
    BY <1>3 DEF Surviving, Apart
  <2>2. /\ e.fileOff < n.fileOff => Head1(e, n) = <<h>>
        /\ ~(e.fileOff < n.fileOff) => Head1(e, n) = <<>>
        /\ End(e) > End(n) => Tail1(e, n) = <<t>>
        /\ ~(End(e) > End(n)) => Tail1(e, n) = <<>>
    BY DEF Head1, Tail1
  <2>3. /\ e.fileOff < n.fileOff => h \in Extent /\ h.fileOff = e.fileOff /\ End(h) = n.fileOff
        /\ End(e) > End(n) => t \in Extent /\ t.fileOff = End(n) /\ End(t) = End(e)
    <3>1. ASSUME e.fileOff < n.fileOff
          PROVE  h \in Extent /\ h.fileOff = e.fileOff /\ End(h) = n.fileOff
      <4>1. /\ n.fileOff - e.fileOff \in Nat \ {0}
            /\ e.fileOff + (n.fileOff - e.fileOff) = n.fileOff
        BY <1>1, <3>1
      <4>2. h \in Extent /\ h.fileOff = e.fileOff /\ h.len = n.fileOff - e.fileOff
        BY <4>1, ExtentFields, Zenon DEF Extent
      <4>. QED
        BY <4>1, <4>2, Zenon DEF End
    <3>2. ASSUME End(e) > End(n)
          PROVE  t \in Extent /\ t.fileOff = End(n) /\ End(t) = End(e)
      <4>1. /\ e.chunkOff + (End(n) - e.fileOff) \in Nat
            /\ End(e) - End(n) \in Nat \ {0} /\ End(n) \in Nat
            /\ End(n) + (End(e) - End(n)) = End(e)
        BY <1>1, <1>3, <3>2, ExtentFields DEF Apart
      <4>2. t \in Extent /\ t.fileOff = End(n) /\ t.len = End(e) - End(n)
        BY <4>1, ExtentFields, Zenon DEF Extent
      <4>. QED
        BY <4>1, <4>2, Zenon DEF End
    <3>. QED
      BY <3>1, <3>2, Zenon
  <2>. HIDE DEF h, t
  <2>4. Head1(e, n) \in Seq(Extent) /\ Tail1(e, n) \in Seq(Extent)
    <3>1. <<>> \in Seq(Extent) /\ \A x \in Extent : <<x>> \in Seq(Extent)
      OBVIOUS
    <3>. QED
      BY <2>2, <2>3, <3>1, Zenon
  <2>5. ~(e.fileOff < n.fileOff /\ End(e) > End(n)) => Len(Surviving(e, n)) <= 1
    BY <2>1, <2>2, <2>3
  <2>6. ASSUME NEW o \in Nat, Over(e, o), ~Over(n, o) PROVE Covered(Surviving(e, n), 1, o)
    <3>1. CASE o < n.fileOff
      <4>1. e.fileOff < n.fileOff /\ Over(h, o)
        BY <1>1, <2>3, <2>6, <3>1 DEF Over
      <4>. QED
        BY <2>1, <2>2, <2>4, <4>1, CoveredOne, CoveredConcat, Zenon
    <3>2. CASE ~(o < n.fileOff)
      <4>1. End(e) > End(n) /\ Over(t, o)
        BY <1>1, <2>3, <2>6, <3>2 DEF Over
      <4>. QED
        BY <2>1, <2>2, <2>4, <4>1, CoveredOne, CoveredConcat, Zenon
    <3>. QED
      BY <3>1, <3>2
  <2>. QED
    BY <2>5, <2>6, Zenon
<1>. QED
  BY <1>2, <1>3, Zenon

\* What one iteration of trimExtents keeps covers the extent below the new size.
LEMMA TrimmedCovers ==
    ASSUME NEW e \in Extent, NEW n \in Nat, NEW o \in Nat, Over(e, o), o < n
    PROVE  Covered(Trimmed(e, n), 1, o)
<1>. DEFINE h == [e EXCEPT !.len = n - e.fileOff]
<1>1. e.fileOff \in Nat /\ End(e) \in Nat /\ e.fileOff < n
  BY ExtentFields DEF Over
<1>2. CASE End(e) > n
  <2>1. Trimmed(e, n) = <<h>>
    BY <1>1, <1>2 DEF Trimmed
  <2>2. h.fileOff = e.fileOff /\ h.len = n - e.fileOff
    BY ExtentFields
  <2>. HIDE DEF h
  <2>3. Over(h, o)
    BY <1>1, <2>2 DEF Over, End
  <2>. QED
    BY <2>1, <2>3, CoveredOne
<1>3. CASE ~(End(e) > n)
  <2>1. Trimmed(e, n) = <<e>>
    BY <1>1, <1>3 DEF Trimmed
  <2>. QED
    BY <2>1, CoveredOne
<1>. QED
  BY <1>2, <1>3

\* One iteration of the loop of WriteExtent.
LEMMA OverlayStepKeeps ==
    ASSUME KeepInv, NoSplit, NEW p \in Proc, OverlayStep(p)
    PROVE  KeepInv'
<1>. DEFINE f == arg[p].file
            e == extents[f][iter[p]]
            k == iter[p]
            kept == Surviving(e, ext[p])
<1>1. /\ FileInv /\ FileTypeOK /\ DOMAIN buf = Proc /\ OverlayKeeps(p)
      /\ f \in File /\ extents[f] \in Seq(Extent)
      /\ ext[p] \in Extent /\ out[p] \in Seq(Extent) /\ k \in Nat \ {0}
  BY ReqTypes, IndexTypes, Zenon DEF KeepInv, FileInv, KeepOK
<1>2. /\ pc[p] = "overlay" /\ k <= Len(extents[f])
      /\ out' = [out EXCEPT ![p] = out[p] \o Surviving(RangeElement(p), ext[p])]
      /\ iter' = [iter EXCEPT ![p] = k + 1]
      /\ UNCHANGED <<csVars, indexVars, pc, arg, ext, buf, histVars>>
  BY Zenon DEF OverlayStep
<1>3. k \in 1..Len(extents[f]) /\ e \in Extent
  BY <1>1, <1>2, IterRange, IndexTypes, Zenon
<1>4. /\ Len(out[p]) < k
      /\ \A o \in Offset : latest[f][o] # 0 =>
             Covered(extents[f], k, o) \/ Covered(out[p], 1, o) \/ Over(ext[p], o)
  BY <1>1, <1>2, Zenon DEF OverlayKeeps, Over
<1>5. RangeElement(p) = e
  <2>1. Len(out[p]) \in Nat
    BY <1>1, Positions, Zenon
  <2>. QED
    BY <1>1, <1>4, <2>1 DEF RangeElement
<1>6. ~(e.fileOff < ext[p].fileOff /\ End(e) > End(ext[p]))
  BY <1>2, <1>3, Zenon DEF NoSplit
<1>7. /\ out'[p] = out[p] \o kept /\ iter'[p] = k + 1
      /\ UNCHANGED <<live, extents, latest, seen>> /\ UNCHANGED <<pc, arg, ext, buf>>
      /\ \A q \in Proc \ {p} : Still(q)
  BY <1>1, <1>2, <1>5, Zenon DEF FileTypeOK, Still, indexVars, histVars
<1>. HIDE DEF f, e, k
<1>8. /\ kept \in Seq(Extent) /\ Len(kept) <= 1
      /\ \A o \in Nat : Over(e, o) => Covered(kept, 1, o) \/ Over(ext[p], o)
  BY <1>1, <1>3, <1>6, SurvivingParts, SurvivingCovers, Zenon
<1>. HIDE DEF kept
<1>9. Len(out[p] \o kept) < k + 1
  BY <1>1, <1>4, <1>8, ConcatShort, Zenon
<1>10. ASSUME NEW o \in Offset, latest[f][o] # 0
       PROVE  \/ Covered(extents[f], k + 1, o)
              \/ Covered(out[p] \o kept, 1, o)
              \/ Over(ext[p], o)
  <2>0. o \in Nat
    BY BoundsAssumption DEF Offset
  <2>1. CASE Covered(extents[f], k, o)
    <3>1. Over(e, o) \/ Covered(extents[f], k + 1, o)
      BY <1>1, <2>1, CoveredStep, Zenon DEF e, k
    <3>. QED
      BY <1>1, <1>8, <2>0, <3>1, CoveredConcat, Zenon
  <2>2. CASE Covered(out[p], 1, o)
    BY <1>1, <1>8, <2>2, CoveredConcat, Zenon
  <2>. QED
    BY <1>4, <1>10, <2>1, <2>2, Zenon
<1>11. OverlayKeeps(p)'
  <2>1. \A o \in Offset : latest'[f][o] # 0 =>
            \/ Covered(extents'[f], iter'[p], o)
            \/ Covered(out'[p], 1, o)
            \/ Over(ext'[p], o)
    BY <1>7, <1>10, Zenon
  <2>2. Len(out'[p]) < iter'[p] /\ arg'[p].file = f
    BY <1>7, <1>9 DEF f
  <2>. QED
    BY <2>1, <2>2, Zenon DEF OverlayKeeps, Covered, Over, End
<1>12. KeepOK(p)' /\ ReadOK(p)'
  BY <1>2, <1>11, Zenon DEF KeepOK, AtFirst, TrimKeeps, ReadOK, ReadSees, ReadKeeps, FetchOK, ResultOK
<1>13. [Next]_vars
  BY Zenon DEF Next, WriteNext
<1>. QED
  BY <1>1, <1>7, <1>12, <1>13, LocalKeeps

\* One iteration of trimExtents.
LEMMA TrimStepKeeps ==
    ASSUME KeepInv, NEW p \in Proc, TrimStep(p)
    PROVE  KeepInv'
<1>. DEFINE f == arg[p].file
            e == extents[f][iter[p]]
            k == iter[p]
            kept == Trimmed(e, arg[p].off)
<1>1. /\ FileInv /\ FileTypeOK /\ DOMAIN buf = Proc /\ TrimKeeps(p)
      /\ f \in File /\ extents[f] \in Seq(Extent) /\ arg[p].off \in Nat
      /\ out[p] \in Seq(Extent) /\ k \in Nat \ {0}
  BY ReqTypes, IndexTypes, Zenon DEF KeepInv, FileInv, KeepOK
<1>2. /\ pc[p] = "trim" /\ k <= Len(extents[f])
      /\ out' = [out EXCEPT ![p] = out[p] \o kept]
      /\ iter' = [iter EXCEPT ![p] = k + 1]
      /\ UNCHANGED <<csVars, indexVars, pc, arg, ext, buf, histVars>>
  BY DEF TrimStep
<1>3. k \in 1..Len(extents[f]) /\ e \in Extent
  BY <1>1, <1>2, IterRange, IndexTypes, Zenon
<1>4. /\ out'[p] = out[p] \o kept /\ iter'[p] = k + 1
      /\ UNCHANGED <<live, extents, latest, seen>> /\ UNCHANGED <<pc, arg, ext, buf>>
      /\ \A q \in Proc \ {p} : Still(q)
  BY <1>1, <1>2, Zenon DEF FileTypeOK, Still, indexVars, histVars
<1>. HIDE DEF f, e, k
<1>5. kept \in Seq(Extent)
  BY <1>1, <1>3, TrimmedParts, Zenon
<1>6. ASSUME NEW o \in Offset, latest[f][o] # 0, o < arg[p].off
      PROVE  Covered(extents[f], k + 1, o) \/ Covered(out[p] \o kept, 1, o)
  <2>0. o \in Nat
    BY BoundsAssumption DEF Offset
  <2>1. CASE Covered(extents[f], k, o)
    <3>1. Over(e, o) \/ Covered(extents[f], k + 1, o)
      BY <1>1, <2>1, CoveredStep, Zenon DEF e, k
    <3>2. CASE Over(e, o)
      <4>1. Covered(kept, 1, o)
        BY <1>1, <1>3, <1>6, <2>0, <3>2, TrimmedCovers
      <4>. QED
        BY <1>1, <1>5, <4>1, CoveredConcat, Zenon
    <3>. QED
      BY <3>1, <3>2
  <2>2. CASE Covered(out[p], 1, o)
    BY <1>1, <1>5, <2>2, CoveredConcat, Zenon
  <2>. QED
    BY <1>1, <1>2, <1>6, <2>1, <2>2, Zenon DEF TrimKeeps, f, k
<1>. HIDE DEF kept
<1>7. TrimKeeps(p)'
  <2>1. \A o \in Offset : latest'[f][o] # 0 /\ o < arg'[p].off =>
            \/ Covered(extents'[f], iter'[p], o)
            \/ Covered(out'[p], 1, o)
    BY <1>4, <1>6, Zenon
  <2>2. arg'[p].file = f
    BY <1>4 DEF f
  <2>. QED
    BY <2>1, <2>2, Zenon DEF TrimKeeps, Covered, End
<1>8. KeepOK(p)' /\ ReadOK(p)'
  BY <1>2, <1>7, Zenon DEF KeepOK, AtFirst, OverlayKeeps, ReadOK, ReadSees, ReadKeeps, FetchOK, ResultOK
<1>9. [Next]_vars
  BY DEF Next, SetattrNext
<1>. QED
  BY <1>1, <1>4, <1>8, <1>9, LocalKeeps, Zenon

\* WriteExtent replaces the list: the new extent covers what it overwrote.
LEMMA WriteCommitKeeps ==
    ASSUME KeepInv, NEW p \in Proc, WriteCommit(p)
    PROVE  KeepInv'
<1>. DEFINE f == arg[p].file
            x == ext[p]
            lat == [o \in Offset |-> IF o \in arg[p].off..(End(x) - 1)
                                     THEN arg[p].stamp ELSE latest[f][o]]
<1>1. /\ FileInv /\ FileTypeOK /\ OverlayKeeps(p) /\ ExtOK(p)
      /\ f \in File /\ extents[f] \in Seq(Extent) /\ latest[f] \in [Offset -> Stamp]
      /\ x \in Extent /\ out[p] \in Seq(Extent) /\ iter[p] \in Nat \ {0} /\ arg[p].stamp \in Stamp
  BY ReqTypes, IndexTypes, Zenon DEF KeepInv, FileInv, KeepOK, ReqOK
<1>2. /\ pc[p] = "overlay" /\ iter[p] > Len(extents[f])
      /\ extents' = [extents EXCEPT ![f] = Append(out[p], x)]
      /\ live' = live /\ Reply(p) /\ Observe(f, lat)
  BY Zenon DEF WriteCommit
<1>3. x.fileOff = arg[p].off /\ arg[p].off \in Nat /\ End(x) \in Nat
  BY <1>1, <1>2, ExtentFields DEF ExtOK
<1>4. /\ lat \in [Offset -> Stamp]
      /\ \A o \in Offset : lat[o] # 0 => latest[f][o] # 0 \/ o \in arg[p].off..(End(x) - 1)
  BY <1>1, Zenon
<1>5. /\ extents'[f] = out[p] \o <<x>> /\ \A g \in File \ {f} : extents'[g] = extents[g]
      /\ <<x>> \in Seq(Extent)
  BY <1>1, <1>2 DEF FileTypeOK
<1>. HIDE DEF lat
<1>6. ASSUME NEW o \in Offset, lat[o] # 0 PROVE Covered(extents'[f], 1, o)
  <2>1. \/ Covered(extents[f], iter[p], o) \/ Covered(out[p], 1, o) \/ Over(x, o)
    <3>1. CASE latest[f][o] # 0
      BY <1>1, <1>2, <3>1, Zenon DEF OverlayKeeps, Over
    <3>2. CASE o \in arg[p].off..(End(x) - 1)
      <4>1. Over(x, o)
        BY <1>3, <3>2 DEF Over
      <4>. QED
        BY <4>1
    <3>. QED
      BY <1>4, <1>6, <3>1, <3>2, Zenon
  <2>2. ~Covered(extents[f], iter[p], o)
    BY <1>1, <1>2, CoveredEnd, Zenon
  <2>. QED
    BY <1>1, <1>5, <2>1, <2>2, CoveredOne, CoveredConcat, Zenon
<1>. HIDE DEF f, x
<1>7. [Next]_vars
  BY DEF Next, WriteNext
<1>. QED
  BY <1>1, <1>2, <1>4, <1>5, <1>6, <1>7, CommitKeeps, Zenon

\* trimExtents replaces the list.
LEMMA TrimCommitKeeps ==
    ASSUME KeepInv, NEW p \in Proc, TrimCommit(p)
    PROVE  KeepInv'
<1>. DEFINE f == arg[p].file
            n == arg[p].off
            lat == [o \in Offset |-> IF o >= n THEN 0 ELSE latest[f][o]]
<1>1. /\ FileInv /\ FileTypeOK /\ TrimKeeps(p)
      /\ f \in File /\ extents[f] \in Seq(Extent) /\ latest[f] \in [Offset -> Stamp]
      /\ n \in Nat /\ out[p] \in Seq(Extent) /\ iter[p] \in Nat \ {0}
  BY ReqTypes, IndexTypes, Zenon DEF KeepInv, FileInv, KeepOK
<1>2. /\ pc[p] = "trim" /\ iter[p] > Len(extents[f])
      /\ extents' = [extents EXCEPT ![f] = out[p]]
      /\ live' = live /\ Reply(p) /\ Observe(f, lat)
  BY Zenon DEF TrimCommit
<1>3. /\ lat \in [Offset -> Stamp]
      /\ \A o \in Offset : lat[o] # 0 => latest[f][o] # 0 /\ o < n
  <2>1. 0 \in Stamp /\ Offset \subseteq Nat
    BY BoundsAssumption DEF Stamp, Offset
  <2>. QED
    BY <1>1, <2>1
<1>4. extents'[f] = out[p] /\ \A g \in File \ {f} : extents'[g] = extents[g]
  BY <1>1, <1>2 DEF FileTypeOK
<1>. HIDE DEF lat
<1>5. ASSUME NEW o \in Offset, lat[o] # 0 PROVE Covered(extents'[f], 1, o)
  <2>1. \/ Covered(extents[f], iter[p], o) \/ Covered(out[p], 1, o)
    BY <1>1, <1>2, <1>3, <1>5, Zenon DEF TrimKeeps
  <2>2. ~Covered(extents[f], iter[p], o)
    BY <1>1, <1>2, CoveredEnd, Zenon
  <2>. QED
    BY <1>4, <2>1, <2>2, Zenon
<1>. HIDE DEF f, n
<1>6. [Next]_vars
  BY DEF Next, SetattrNext
<1>. QED
  BY <1>1, <1>2, <1>3, <1>4, <1>5, <1>6, CommitKeeps, Zenon

\* The last link of a file is removed: reads of it may see zeros.
LEMMA FreeKeeps ==
    ASSUME KeepInv, NEW f \in File, Free(f)
    PROVE  KeepInv'
<1>1. /\ idxLock = NoProc /\ live' = live \ {f}
      /\ extents' = [extents EXCEPT ![f] = <<>>]
      /\ Observe(f, Unread) /\ UNCHANGED <<pc, arg, ext, iter, out, buf>>
  BY DEF Free, reqVars
<1>2. Unread \in [Offset -> Stamp] /\ FileTypeOK /\ [Next]_vars
  BY BoundsAssumption DEF Unread, Stamp, KeepInv, FileInv, Next
<1>3. FileInv' /\ StoreStep
  BY <1>2, FileNext, StoreSteps, Zenon DEF KeepInv
<1>4. \A g \in File \ {f} : latest'[g] = latest[g] /\ extents'[g] = extents[g]
  BY <1>1, <1>2, ObserveTypes, Zenon DEF FileTypeOK
<1>5. NothingLost'
  <2>1. \A g \in live' : g \in live /\ g \in File \ {f}
    BY <1>1, <1>2 DEF FileTypeOK
  <2>. QED
    BY <1>4, <2>1, Zenon DEF KeepInv, NothingLost, Covered, End
<1>6. ASSUME NEW q \in Proc PROVE KeepOK(q)' /\ ReadOK(q)'
  <2>1. pc[q] \notin {"overlay", "trim"} /\ Still(q)
    BY <1>1, NoProcAssumption, Zenon DEF KeepInv, FileInv, ReqOK, LockOK, Still
  <2>2. KeepOK(q)'
    BY <2>1, KeepStable, Zenon DEF KeepInv
  <2>3. StillSees(q)
    BY <1>1, <1>2, SeesChange, Zenon DEF KeepInv, ReadOK
  <2>4. ReadOK(q)'
    BY <1>3, <2>1, <2>3, ReadStable, Zenon DEF KeepInv
  <2>. QED
    BY <2>2, <2>4
<1>. QED
  BY <1>1, <1>3, <1>5, <1>6 DEF KeepInv

-----------------------------------------------------------------------------
(* Reads copy the bytes of one moment *)

\* GetInode of a read: the file holds what the read has seen.
LEMMA ReadStartKeeps ==
    ASSUME KeepInv, NEW p \in Proc, NEW f \in File, NEW r \in ReadRanges,
           ReadStart(p, f, r[1], r[2])
    PROVE  KeepInv'
<1>. DEFINE off == r[1]
            len == IF r[1] + r[2] > size[f] THEN size[f] - r[1] ELSE r[2]
            a == [file |-> f, off |-> off, len |-> len, grow |-> 0, stamp |-> 0]
            s == [o \in Offset |-> {latest[f][o]}]
<1>1. FileTypeOK /\ DOMAIN buf = Proc /\ pc[p] = "idle" /\ iter[p] = 1
  BY Zenon DEF KeepInv, FileInv, ReadStart, KeepOK, AtFirst
<1>2. /\ off < size[f]
      /\ arg' = [arg EXCEPT ![p] = a]
      /\ seen' = [seen EXCEPT ![p] = s]
      /\ pc' = [pc EXCEPT ![p] = "getextents"]
      /\ UNCHANGED <<csVars, indexVars, ext, iter, out, buf, latest, writes>>
  BY DEF ReadStart, Goto
<1>3. a.file = f /\ a.off + a.len <= MaxFileSize
  <2>1. off \in Nat /\ r[2] \in Nat /\ size[f] \in Nat /\ size[f] <= MaxFileSize /\ MaxFileSize \in Nat
    <3>1. size[f] \in 0..MaxFileSize
      BY <1>1, IndexTypes, Zenon
    <3>2. r[1] \in Nat /\ r[2] \in Nat
      BY ONLY r \in ReadRanges, BoundsAssumption DEF Offset
    <3>. QED
      BY ONLY <3>1, <3>2, BoundsAssumption
  <2>2. off + len <= MaxFileSize
    BY ONLY <2>1
  <2>. HIDE DEF off, len
  <2>. QED
    BY <2>2, Zenon
<1>4. \A o \in Offset : latest[f][o] \in s[o]
  BY Zenon
<1>. HIDE DEF a, s
<1>5. /\ arg'[p] = a /\ seen'[p] = s /\ pc'[p] = "getextents" /\ iter'[p] = 1
      /\ UNCHANGED <<live, extents, latest, buf>>
      /\ \A q \in Proc \ {p} : Still(q) /\ seen'[q] = seen[q]
  BY <1>1, <1>2 DEF FileTypeOK, Still, indexVars
<1>6. ReadSees(p)'
  BY <1>3, <1>4, <1>5, Zenon DEF ReadSees
<1>7. KeepOK(p)' /\ ReadOK(p)'
  BY <1>5, <1>6, Zenon DEF KeepOK, AtFirst, OverlayKeeps, TrimKeeps, ReadOK, ReadKeeps, FetchOK, ResultOK
<1>8. [Next]_vars
  BY DEF Next, ReadNext
<1>. QED
  BY <1>1, <1>5, <1>7, <1>8, LocalKeeps, Zenon

\* GetExtents: the extents of this moment cover every byte that is not zero.
LEMMA GetExtentsKeeps ==
    ASSUME KeepInv, NEW p \in Proc, GetExtents(p)
    PROVE  KeepInv'
<1>. DEFINE f == arg[p].file
            lat == latest[f]
            b == [o \in Offset |-> [file |-> f, off |-> o, stamp |-> 0]]
<1>1. /\ FileTypeOK /\ DOMAIN buf = Proc /\ pc[p] = "getextents" /\ iter[p] = 1
      /\ UNCHANGED <<csVars, indexVars, latest, writes>> /\ [Next]_vars
  BY Zenon DEF KeepInv, FileInv, GetExtents, KeepOK, AtFirst, Next, ReadNext
<1>2. UNCHANGED <<live, extents, latest, appended>>
  BY <1>1, Zenon DEF indexVars, csVars
<1>3. CASE ReadReply(p)
  <2>1. Reply(p) /\ \A q \in Proc \ {p} : seen'[q] = seen[q]
    BY <1>1, <1>3, Zenon DEF ReadReply, FileTypeOK
  <2>. QED
    BY <1>1, <1>2, <2>1, ReplyKeeps, Zenon
<1>4. CASE /\ f \in live
           /\ out' = [out EXCEPT ![p] = extents[f]]
           /\ buf' = [buf EXCEPT ![p] = b]
           /\ pc' = [pc EXCEPT ![p] = "read"]
           /\ UNCHANGED <<arg, ext, iter, seen>>
  <2>. HIDE DEF b
  <2>1. /\ out'[p] = extents[f] /\ buf'[p] = b /\ pc'[p] = "read" /\ DOMAIN buf' = Proc
        /\ \A q \in Proc \ {p} : Still(q) /\ seen'[q] = seen[q]
    BY <1>1, <1>4, Zenon DEF FileTypeOK, Still
  <2>2. ReadSees(p) /\ ReadSees(p)' /\ lat \in [Offset -> Stamp]
    <3>1. ReadSees(p)
      BY DEF KeepInv, ReadOK
    <3>2. ReadSees(p)'
      BY <1>1, <1>2, <1>4, <2>1, <3>1, Zenon DEF ReadSees
    <3>. QED
      BY <1>1, <3>1, <3>2, ReqTypes, IndexTypes, Zenon
  <2>3. \A o \in Offset : lat[o] \in seen[p][o]
    BY <1>1, <2>2, Zenon DEF ReadSees
  <2>4. \A i \in 1..Len(extents[f]) : FreshAt(appended, f, extents[f][i], lat)
    BY <1>4, Zenon DEF KeepInv, FileInv, IndexOK
  <2>5. ASSUME NEW o \in arg[p].off..(arg[p].off + arg[p].len - 1)
        PROVE  b[o] = ByteOf(f, o, lat[o]) \/ Covered(extents[f], 1, o)
    <3>1. o \in Offset
      <4>1. arg[p].off + arg[p].len <= MaxFileSize /\ arg[p].off \in Nat /\ arg[p].len \in Nat
        BY <1>1, <2>2, ReqTypes, Zenon DEF ReadSees
      <4>. QED
        BY <4>1, AskedOffsets, Zenon
    <3>2. CASE lat[o] = 0
      BY <3>1, <3>2 DEF ByteOf, b
    <3>3. CASE lat[o] # 0
      BY <1>4, <3>1, <3>3, Zenon DEF KeepInv, NothingLost
    <3>. QED
      BY <3>2, <3>3, Zenon
  <2>6. \A w : w = lat => ReadAt(p, w)'
    <3>1. UNCHANGED <<arg, iter, seen, appended>> /\ iter[p] = 1
      BY <1>1, <1>2, <1>4, Zenon
    <3>. HIDE DEF lat
    <3>. QED
      BY <2>1, <2>3, <2>4, <2>5, <3>1, Zenon DEF ReadAt, ByteOf, Covered, End, f
  <2>7. ReadKeeps(p)'
    BY <2>2, <2>6 DEF ReadKeeps
  <2>8. KeepOK(p)' /\ ReadOK(p)'
    BY <2>1, <2>2, <2>7, Zenon DEF KeepOK, AtFirst, OverlayKeeps, TrimKeeps, ReadOK, FetchOK, ResultOK
  <2>. QED
    BY <1>1, <1>2, <2>1, <2>8, LocalKeeps, Zenon
<1>. QED
  BY <1>3, <1>4, Zenon DEF GetExtents, Goto

\* A read is done with one of its extents: the bytes it wanted of it are
\* those appended to its chunk.
LEMMA AdvanceKeeps ==
    ASSUME KeepInv, [Next]_vars, NEW p \in Proc,
           pc[p] \in {"read", "sealed"}, pc'[p] = "read", iter[p] <= Len(out[p]),
           \A o \in Wanted(out[p][iter[p]], arg[p]) :
               buf'[p][o] = appended[out[p][iter[p]].chunk]
                                [out[p][iter[p]].chunkOff + (o - out[p][iter[p]].fileOff) + 1],
           \A o \in Offset \ Wanted(out[p][iter[p]], arg[p]) : buf'[p][o] = buf[p][o],
           DOMAIN buf' = Proc, iter'[p] = iter[p] + 1, arg'[p] = arg[p], out'[p] = out[p],
           UNCHANGED <<live, extents, latest, seen, appended>>,
           \A q \in Proc \ {p} : Still(q)
    PROVE  KeepInv'
<1>. DEFINE e == out[p][iter[p]]
            f == arg[p].file
            k == iter[p]
<1>1. /\ FileTypeOK /\ out[p] \in Seq(Extent) /\ k \in Nat \ {0} /\ ReadOK(p)
      /\ arg[p].off \in Nat /\ arg[p].len \in Nat
  BY ReqTypes, Zenon DEF KeepInv, FileInv
<1>2. k \in 1..Len(out[p]) /\ e \in Extent
  BY <1>1, Positions, Zenon
<1>3. PICK lat \in [Offset -> Stamp] : ReadAt(p, lat)
  BY <1>1, Zenon DEF ReadOK, ReadKeeps
<1>. HIDE DEF e, f, k
<1>4. ASSUME NEW o \in arg[p].off..(arg[p].off + arg[p].len - 1)
      PROVE  buf'[p][o] = ByteOf(f, o, lat[o]) \/ Covered(out[p], k + 1, o)
  <2>1. arg[p].off + arg[p].len <= MaxFileSize
    BY <1>1, Zenon DEF ReadOK, ReadSees
  <2>2. o \in Offset
    BY <1>1, <2>1, AskedOffsets, Zenon
  <2>3. CASE o \in Wanted(e, arg[p])
    <3>1. Over(e, o)
      BY <2>3, Zenon DEF Wanted, Over
    <3>2. o \in e.fileOff..(End(e) - 1)
      <4>1. e.fileOff \in Nat /\ End(e) \in Nat /\ o \in Int
        BY <1>1, <1>2, ExtentFields, AskedOffsets, Zenon
      <4>. QED
        BY ONLY <3>1, <4>1 DEF Over
    <3>3. FreshAt(appended, f, e, lat)
      BY <1>2, <1>3, Zenon DEF ReadAt, e, f, k
    <3>4. appended[e.chunk][e.chunkOff + (o - e.fileOff) + 1] = ByteOf(f, o, lat[o])
      BY <3>2, <3>3, Zenon DEF FreshAt, ByteOf
    <3>5. buf'[p][o] = appended[e.chunk][e.chunkOff + (o - e.fileOff) + 1]
      BY <2>3, Zenon DEF e
    <3>. QED
      BY <3>4, <3>5, Zenon
  <2>4. CASE o \notin Wanted(e, arg[p])
    <3>1. buf'[p][o] = buf[p][o]
      BY <2>2, <2>4, Zenon DEF e
    <3>2. CASE buf[p][o] = ByteOf(f, o, lat[o])
      BY <3>1, <3>2, Zenon
    <3>3. CASE Covered(out[p], k, o)
      <4>1. ~Over(e, o)
        BY <2>4, Zenon DEF Wanted, Over
      <4>. QED
        BY <1>1, <3>3, <4>1, CoveredStep, Zenon DEF e, k
    <3>. QED
      BY <1>3, <3>2, <3>3, Zenon DEF ReadAt, f, k
  <2>. QED
    BY <2>3, <2>4, Zenon
<1>5. ReadAt(p, lat)'
  <2>1. iter'[p] = k + 1
    BY Zenon DEF k
  <2>. QED
    BY <1>3, <1>4, <2>1, Zenon DEF ReadAt, ByteOf, Covered, End, f
<1>6. ReadSees(p)'
  BY <1>1, Zenon DEF ReadOK, ReadSees
<1>7. KeepOK(p)' /\ ReadOK(p)'
  BY <1>5, <1>6, Zenon DEF KeepOK, AtFirst, OverlayKeeps, TrimKeeps, ReadOK, ReadKeeps, FetchOK, ResultOK
<1>. QED
  BY <1>7, LocalKeeps, Zenon

\* A read copies what it wants of one extent.
LEMMA CopyKeeps ==
    ASSUME KeepInv, [Next]_vars, NEW p \in Proc,
           pc[p] \in {"read", "sealed"}, pc'[p] = "read", iter[p] <= Len(out[p]),
           Copy(p, out[p][iter[p]], appended[out[p][iter[p]].chunk]),
           UNCHANGED <<live, extents, latest, seen, appended, arg, ext, out>>,
           \A q \in Proc \ {p} : pc'[q] = pc[q]
    PROVE  KeepInv'
<1>. DEFINE e == out[p][iter[p]]
<1>1. FileTypeOK /\ DOMAIN buf = Proc
  BY Zenon DEF KeepInv, FileInv
<1>2. /\ DOMAIN buf' = Proc /\ iter'[p] = iter[p] + 1
      /\ buf'[p] = [o \in Offset |->
                        IF o \in Wanted(e, arg[p])
                        THEN appended[e.chunk][e.chunkOff + (o - e.fileOff) + 1]
                        ELSE buf[p][o]]
      /\ \A q \in Proc \ {p} : Still(q)
  BY <1>1, Zenon DEF FileTypeOK, Still, Copy
<1>3. Wanted(e, arg[p]) \subseteq Offset
  <2>1. arg[p].off + arg[p].len <= MaxFileSize /\ arg[p].off \in Nat /\ arg[p].len \in Nat
    BY <1>1, ReqTypes, Zenon DEF KeepInv, ReadOK, ReadSees
  <2>2. arg[p].off..(arg[p].off + arg[p].len - 1) \subseteq Offset
    BY ONLY <2>1, BoundsAssumption DEF Offset
  <2>. QED
    BY <2>2, Zenon DEF Wanted
<1>. HIDE DEF e
<1>4. /\ \A o \in Wanted(e, arg[p]) :
             buf'[p][o] = appended[e.chunk][e.chunkOff + (o - e.fileOff) + 1]
      /\ \A o \in Offset \ Wanted(e, arg[p]) : buf'[p][o] = buf[p][o]
  BY <1>2, <1>3, Zenon
<1>5. UNCHANGED <<live, extents, latest, seen, appended>> /\ arg'[p] = arg[p] /\ out'[p] = out[p]
  BY Zenon
<1>. QED
  BY <1>2, <1>4, <1>5, AdvanceKeeps, Zenon DEF e

\* The chunk of an extent that a read is at holds what was appended to it.
LEMMA ReadBytes ==
    ASSUME KeepInv, NEW p \in Proc, pc[p] \in {"read", "sealed"}, iter[p] <= Len(out[p])
    PROVE  LET e == out[p][iter[p]]
           IN  e.chunk \in DOMAIN appended /\ Contents(e.chunk) = appended[e.chunk]
<1>1. PICK lat \in [Offset -> Stamp] : ReadAt(p, lat)
  BY DEF KeepInv, ReadOK, ReadKeeps
<1>2. iter[p] \in 1..Len(out[p])
  BY ReqTypes, Positions, Zenon DEF KeepInv, FileInv
<1>3. FreshAt(appended, arg[p].file, out[p][iter[p]], lat)
  BY <1>1, <1>2, Zenon DEF ReadAt
<1>. QED
  BY <1>3, Zenon DEF FreshAt, KeepInv, FileInv, CSInv, AppendedReadable

\* One extent of a read, from memory: skipped, copied, refused, or to be fetched.
LEMMA ReadExtentKeeps ==
    ASSUME KeepInv, NEW p \in Proc, ReadExtent(p)
    PROVE  KeepInv'
<1>. DEFINE e == out[p][iter[p]]
<1>1. /\ FileTypeOK /\ DOMAIN buf = Proc /\ pc[p] = "read" /\ iter[p] <= Len(out[p])
      /\ UNCHANGED <<csVars, indexVars, latest, writes>> /\ [Next]_vars
  BY Zenon DEF KeepInv, FileInv, ReadExtent, Next, ReadNext
<1>2. UNCHANGED <<live, extents, latest, appended, activeID>>
  BY <1>1, Zenon DEF indexVars, csVars
<1>3. CASE /\ Wanted(e, arg[p]) = {}
           /\ iter' = [iter EXCEPT ![p] = @ + 1]
           /\ UNCHANGED <<pc, arg, ext, out, buf, seen>>
  <2>1. iter'[p] = iter[p] + 1 /\ \A q \in Proc \ {p} : Still(q)
    BY <1>1, <1>3 DEF FileTypeOK, Still
  <2>. HIDE DEF e
  <2>2. \A o \in Wanted(e, arg[p]) : FALSE
    BY <1>3
  <2>. QED
    BY <1>1, <1>2, <1>3, <2>1, <2>2, AdvanceKeeps, Zenon DEF e
<1>4. CASE /\ e.chunk = activeID /\ Wanted(e, arg[p]) # {}
           /\ Copy(p, e, activeBuf)
           /\ UNCHANGED <<pc, arg, ext, out, seen>>
  <2>1. activeBuf = appended[e.chunk]
    BY <1>1, <1>4, ReadBytes, Zenon DEF Contents
  <2>2. Copy(p, e, appended[e.chunk])
    BY <1>4, <2>1, Zenon
  <2>3. /\ UNCHANGED <<live, extents, latest, seen, appended, arg, ext, out>>
        /\ pc[p] \in {"read", "sealed"} /\ pc'[p] = "read" /\ \A q \in Proc \ {p} : pc'[q] = pc[q]
    BY <1>1, <1>2, <1>4, Zenon
  <2>. QED
    BY <1>1, <2>2, <2>3, CopyKeeps, Zenon
<1>5. CASE ReadReply(p)
  <2>1. Reply(p) /\ \A q \in Proc \ {p} : seen'[q] = seen[q]
    BY <1>1, <1>5 DEF ReadReply, FileTypeOK
  <2>. QED
    BY <1>1, <1>2, <2>1, ReplyKeeps, Zenon
<1>6. CASE /\ e.chunk # activeID /\ pc' = [pc EXCEPT ![p] = "sealed"]
           /\ UNCHANGED <<arg, ext, iter, out, buf, seen>>
  <2>1. pc'[p] = "sealed" /\ \A q \in Proc \ {p} : Still(q)
    BY <1>1, <1>6 DEF FileTypeOK, Still
  <2>2. ReadSees(p)' /\ FetchOK(p)'
    BY <1>1, <1>2, <1>6, <2>1, Zenon DEF KeepInv, ReadOK, ReadSees, FetchOK
  <2>3. ReadKeeps(p)'
    <3>1. PICK lat \in [Offset -> Stamp] : ReadAt(p, lat)
      BY <1>1, Zenon DEF KeepInv, ReadOK, ReadKeeps
    <3>2. ReadAt(p, lat)'
      BY <1>2, <1>6, <3>1, Zenon DEF ReadAt, ByteOf, Covered, End
    <3>. QED
      BY <3>2 DEF ReadKeeps
  <2>4. KeepOK(p)' /\ ReadOK(p)'
    BY <2>1, <2>2, <2>3, Zenon DEF KeepOK, AtFirst, OverlayKeeps, TrimKeeps, ReadOK, ResultOK
  <2>. QED
    BY <1>1, <1>2, <1>6, <2>1, <2>4, LocalKeeps, Zenon
<1>. QED
  BY <1>3, <1>4, <1>5, <1>6, Zenon DEF ReadExtent, Goto

\* One extent of a read, fetched from the store: its chunk is not the active
\* one, so the object holds all that was appended to it.
LEMMA ReadSealedKeeps ==
    ASSUME KeepInv, NEW p \in Proc, ReadSealed(p)
    PROVE  KeepInv'
<1>. DEFINE e == out[p][iter[p]]
<1>1. /\ FileTypeOK /\ pc[p] = "sealed" /\ Copy(p, e, store[e.chunk])
      /\ pc' = [pc EXCEPT ![p] = "read"]
      /\ UNCHANGED <<csVars, indexVars, arg, ext, out, histVars>> /\ [Next]_vars
  BY Zenon DEF KeepInv, FileInv, ReadSealed, Goto, Next, ReadNext
<1>2. iter[p] <= Len(out[p]) /\ e.chunk # activeID
  BY <1>1, Zenon DEF KeepInv, ReadOK, FetchOK
<1>3. store[e.chunk] = appended[e.chunk]
  BY <1>1, <1>2, ReadBytes, Zenon DEF Contents
<1>4. Copy(p, e, appended[e.chunk])
  BY <1>1, <1>3, Zenon
<1>5. pc'[p] = "read" /\ \A q \in Proc \ {p} : pc'[q] = pc[q]
  BY <1>1, Zenon DEF FileTypeOK
<1>6. UNCHANGED <<live, extents, latest, seen, appended, arg, ext, out>>
  BY <1>1, Zenon DEF csVars, indexVars, histVars
<1>. QED
  BY <1>1, <1>2, <1>4, <1>5, <1>6, CopyKeeps, Zenon

\* A read that is done has passed every extent.
LEMMA ReadDoneKeeps ==
    ASSUME KeepInv, NEW p \in Proc, ReadDone(p)
    PROVE  KeepInv'
<1>1. /\ FileTypeOK /\ DOMAIN buf = Proc /\ pc[p] = "read" /\ iter[p] > Len(out[p])
      /\ pc' = [pc EXCEPT ![p] = "result"]
      /\ UNCHANGED <<csVars, indexVars, arg, ext, iter, out, buf, histVars>> /\ [Next]_vars
  BY Zenon DEF KeepInv, FileInv, ReadDone, Goto, Next, ReadNext
<1>2. /\ pc'[p] = "result" /\ \A q \in Proc \ {p} : Still(q)
      /\ UNCHANGED <<live, extents, latest, seen>>
  BY <1>1 DEF FileTypeOK, Still, indexVars, histVars
<1>3. PICK lat \in [Offset -> Stamp] : ReadAt(p, lat)
  BY <1>1, Zenon DEF KeepInv, ReadOK, ReadKeeps
<1>4. /\ arg[p].off + arg[p].len <= MaxFileSize /\ arg[p].off \in Nat /\ arg[p].len \in Nat
      /\ out[p] \in Seq(Extent) /\ iter[p] \in Nat
  BY <1>1, ReqTypes, Zenon DEF KeepInv, ReadOK, ReadSees
<1>5. ASSUME NEW o \in arg[p].off..(arg[p].off + arg[p].len - 1)
      PROVE  /\ buf[p][o].file = arg[p].file /\ buf[p][o].off = o
             /\ buf[p][o].stamp \in seen[p][o]
  <2>1. o \in Offset
    BY <1>4, AskedOffsets, Zenon
  <2>2. buf[p][o] = ByteOf(arg[p].file, o, lat[o])
    BY <1>1, <1>3, <1>4, CoveredEnd, Zenon DEF ReadAt
  <2>3. lat[o] \in seen[p][o]
    BY <1>3, <2>1, Zenon DEF ReadAt
  <2>. DEFINE b == ByteOf(arg[p].file, o, lat[o])
  <2>4. b.file = arg[p].file /\ b.off = o /\ b.stamp = lat[o]
    BY ByteFields
  <2>. HIDE DEF b
  <2>5. buf[p][o] = b
    BY <2>2, Zenon DEF b
  <2>6. /\ buf[p][o].file = arg[p].file /\ buf[p][o].off = o
        /\ buf[p][o].stamp = lat[o]
    BY <2>4, <2>5, Zenon
  <2>. QED
    BY <2>3, <2>6, Zenon
<1>6. ResultOK(p)'
  BY <1>1, <1>2, <1>5, Zenon DEF ResultOK
<1>7. ReadSees(p)'
  BY <1>1, <1>2, <1>4, Zenon DEF ReadSees
<1>8. KeepOK(p)' /\ ReadOK(p)'
  BY <1>2, <1>6, <1>7, Zenon DEF KeepOK, AtFirst, OverlayKeeps, TrimKeeps, ReadOK, ReadKeeps, FetchOK
<1>. QED
  BY <1>1, <1>2, <1>8, LocalKeeps, Zenon

-----------------------------------------------------------------------------

\* Nothing has been written yet.
LEMMA KeepInit == Init => KeepInv
<1>. SUFFICES ASSUME Init PROVE KeepInv
  OBVIOUS
<1>1. FileInv /\ DOMAIN buf = Proc
  BY FileInit, Zenon DEF Init
<1>2. NothingLost
  BY DEF Init, NothingLost, Unread
<1>3. \A p \in Proc : pc[p] = "idle" /\ iter[p] = 1
  BY DEF Init
<1>4. \A p \in Proc : KeepOK(p) /\ ReadOK(p)
  BY <1>3, Zenon DEF KeepOK, AtFirst, OverlayKeeps, TrimKeeps, ReadOK, ReadSees, ReadKeeps, FetchOK, ResultOK
<1>. QED
  BY <1>1, <1>2, <1>4, Zenon DEF KeepInv

\* The steps of a write.
LEMMA WriteNextKeeps ==
    ASSUME KeepInv, NoSplit, NEW p \in Proc, WriteNext(p)
    PROVE  KeepInv'
<1>1. FileTypeOK /\ [Next]_vars
  BY Zenon DEF KeepInv, FileInv, Next
<1>2. ASSUME NEW f \in File, NEW off \in Offset, NEW len \in WriteLens,
             WriteStart(p, f, off, len)
      PROVE  KeepInv'
  <2>1. /\ pc[p] = "idle" /\ pc'[p] \in {"space", "append"}
        /\ \A q \in Proc \ {p} : Still(q)
        /\ UNCHANGED <<live, extents, latest, iter, buf, seen>>
    BY <1>1, <1>2 DEF WriteStart, Goto, FileTypeOK, Still, indexVars
  <2>. QED
    BY <1>1, <2>1, WriteKeeps, Zenon
<1>3. CASE WriteSpace(p)
  <2>1. CASE Reply(p)
    BY <1>1, <1>3, <2>1, ReplyKeeps, Zenon DEF WriteSpace, indexVars, histVars
  <2>2. CASE Goto(p, "append") /\ UNCHANGED <<arg, ext, iter, out, buf>>
    <3>1. /\ pc[p] = "space" /\ pc'[p] = "append" /\ \A q \in Proc \ {p} : Still(q)
          /\ UNCHANGED <<live, extents, latest, iter, buf, seen>>
      BY <1>1, <1>3, <2>2 DEF WriteSpace, Goto, FileTypeOK, Still, indexVars, histVars
    <3>. QED
      BY <1>1, <3>1, WriteKeeps, Zenon
  <2>. QED
    BY <1>3, <2>1, <2>2, Zenon DEF WriteSpace
<1>4. CASE WriteAppend(p)
  <2>1. /\ pc[p] = "append" /\ pc'[p] = "extent" /\ \A q \in Proc \ {p} : Still(q)
        /\ UNCHANGED <<live, extents, latest, iter, buf, seen>>
    BY <1>1, <1>4 DEF WriteAppend, Goto, FileTypeOK, Still, indexVars, histVars
  <2>. QED
    BY <1>1, <2>1, WriteKeeps, Zenon
<1>5. CASE WriteAppendError(p)
  BY <1>1, <1>5, ReplyKeeps, Zenon DEF WriteAppendError, indexVars, histVars
<1>6. CASE WriteExtent(p)
  <2>1. CASE Reply(p)
    BY <1>1, <1>6, <2>1, ReplyKeeps, Zenon DEF WriteExtent, histVars
  <2>2. CASE arg[p].file \in live /\ Goto(p, "overlay") /\ UNCHANGED <<arg, ext, iter, out, buf>>
    <3>1. /\ pc[p] = "extent" /\ pc'[p] = "overlay" /\ \A q \in Proc \ {p} : Still(q)
          /\ arg'[p].file \in live
          /\ UNCHANGED <<live, extents, latest, iter, out, buf, seen>>
      BY <1>1, <1>6, <2>2 DEF WriteExtent, Goto, FileTypeOK, Still, histVars
    <3>. QED
      BY <1>1, <3>1, EnterKeeps, Zenon
  <2>. QED
    BY <1>6, <2>1, <2>2, Zenon DEF WriteExtent
<1>. QED
  BY <1>2, <1>3, <1>4, <1>5, <1>6, OverlayStepKeeps, WriteCommitKeeps, Zenon DEF WriteNext

\* A step keeps the invariant, unless a write is about to split an extent.
LEMMA KeepNext == KeepInv /\ NoSplit /\ [Next]_vars => KeepInv'
<1>. SUFFICES ASSUME KeepInv, NoSplit, [Next]_vars PROVE KeepInv'
  OBVIOUS
<1>1. FileTypeOK
  BY DEF KeepInv, FileInv
<1>2. ASSUME NEW p \in Proc, SetattrNext(p) PROVE KeepInv'
  <2>1. ASSUME NEW f \in File, NEW n \in TruncSizes, Truncate(p, f, n) PROVE KeepInv'
    <3>1. /\ pc[p] = "idle" /\ pc'[p] = "trim" /\ \A q \in Proc \ {p} : Still(q)
          /\ arg'[p].file \in live
          /\ UNCHANGED <<live, extents, latest, iter, out, buf, seen>>
      BY <1>1, <2>1, Zenon DEF Truncate, Goto, FileTypeOK, Still, histVars
    <3>. QED
      BY <3>1, EnterKeeps, Zenon
  <2>. QED
    BY <1>2, <2>1, TrimStepKeeps, TrimCommitKeeps DEF SetattrNext
<1>3. ASSUME NEW p \in Proc, ReadReply(p), UNCHANGED <<indexVars, latest>> PROVE KeepInv'
  <2>1. Reply(p) /\ (\A q \in Proc \ {p} : seen'[q] = seen[q]) /\ UNCHANGED <<live, extents, latest>>
    BY <1>1, <1>3, Zenon DEF ReadReply, FileTypeOK, indexVars
  <2>. QED
    BY <2>1, ReplyKeeps, Zenon
<1>4. ASSUME NEW p \in Proc, ReadNext(p) PROVE KeepInv'
  <2>1. CASE ReadSealedError(p) \/ ReadResult(p)
    BY <1>3, <2>1 DEF ReadSealedError, ReadResult
  <2>. QED
    BY <1>4, <2>1, ReadStartKeeps, GetExtentsKeeps, ReadExtentKeeps, ReadSealedKeeps, ReadDoneKeeps, Zenon
       DEF ReadNext
<1>5. CASE UNCHANGED <<indexVars, reqVars, histVars>>
  <2>1. /\ UNCHANGED <<live, extents, latest, seen, buf>>
        /\ \A q \in Proc : Still(q)
    BY <1>5 DEF indexVars, reqVars, histVars, Still
  <2>2. FileInv' /\ StoreStep
    BY FileNext, StoreSteps DEF KeepInv
  <2>3. NothingLost'
    BY <2>1, Zenon DEF KeepInv, NothingLost, Covered, End
  <2>4. ASSUME NEW q \in Proc PROVE KeepOK(q)' /\ ReadOK(q)'
    <3>1. KeepOK(q)'
      BY <2>1, KeepStable DEF KeepInv
    <3>2. StillSees(q)
      BY <2>1, SeesSame, Zenon DEF KeepInv, ReadOK
    <3>3. ReadOK(q)'
      BY <2>1, <2>2, <3>2, ReadStable, Zenon DEF KeepInv
    <3>. QED
      BY <3>1, <3>3, Zenon
  <2>. QED
    BY <2>1, <2>2, <2>3, <2>4, Zenon DEF KeepInv
<1>6. CASE Flush \/ Quiet \/ UNCHANGED vars
  BY <1>5, <1>6 DEF Flush, Quiet, vars
<1>. QED
  BY <1>2, <1>4, <1>6, WriteNextKeeps, FreeKeeps DEF Next

\* As long as no write lies strictly inside an extent of its file, the
\* invariant holds.
THEOREM KeepInvariant == Spec /\ []NoSplit => []KeepInv
BY KeepInit, KeepNext, PTL DEF Spec

\* The loop of WriteExtent loses bytes in one way only: it lets go of no byte
\* that was written and neither overwritten nor truncated since, whatever
\* interleaves, as long as no write lies strictly inside an extent of its file.
THEOREM BytesKeptWithoutSplits == Spec /\ []NoSplit => []NoLostBytes
<1>1. KeepInv => NoLostBytes
  <2>. SUFFICES ASSUME KeepInv, NEW f \in live, NEW o \in Offset, latest[f][o] # 0
                PROVE  \E i \in DOMAIN extents[f] :
                           extents[f][i].fileOff <= o /\ o < End(extents[f][i])
    BY Zenon DEF NoLostBytes
  <2>1. f \in File /\ DOMAIN extents[f] = 1..Len(extents[f])
    BY IndexTypes DEF KeepInv, FileInv, FileTypeOK
  <2>2. Covered(extents[f], 1, o)
    BY Zenon DEF KeepInv, NothingLost
  <2>. QED
    BY <2>1, <2>2 DEF Covered
<1>. QED
  BY <1>1, KeepInvariant, PTL

\* Read then returns, for each offset, the byte of the last write to it at one
\* moment of the read: FileHandle.Read against writes, truncates, unlinks,
\* seals and flushes.
THEOREM ReadsRegularWithoutSplits == Spec /\ []NoSplit => []ReadsRegular
<1>1. KeepInv => ReadsRegular
  BY Zenon DEF KeepInv, ReadOK, ResultOK, ReadsRegular
<1>. QED
  BY <1>1, KeepInvariant, PTL

-----------------------------------------------------------------------------
(* Writes whose lengths differ by at most a byte split no extent: no extent *)
(* is ever longer than a write by more than that.                           *)

EvenWrites == \A a, b \in WriteLens : a <= b + 1

Short(e) == \A w \in WriteLens : e.len <= w + 1

\* What a request holds is no longer than a write.
ShortReq(p) ==
    /\ pc[p] \in {"space", "append", "extent", "overlay"} => arg[p].len \in WriteLens
    /\ \A i \in 1..Len(out[p]) : Short(out[p][i])

ShortInv ==
    /\ \A f \in File : \A i \in 1..Len(extents[f]) : Short(extents[f][i])
    /\ \A p \in Proc : ShortReq(p)

\* A part of a short extent is short.
LEMMA ShortPart ==
    ASSUME NEW e \in Extent, Short(e), NEW x, Part(x, e)
    PROVE  Short(x)
<1>1. x \in Extent /\ e.fileOff <= x.fileOff /\ End(x) <= End(e)
  BY DEF Part
<1>2. /\ e.fileOff \in Int /\ e.len \in Int /\ End(e) = e.fileOff + e.len
      /\ x.fileOff \in Int /\ x.len \in Int /\ End(x) = x.fileOff + x.len
  BY <1>1, ExtentFields
<1>3. x.len <= e.len
  BY <1>1, <1>2
<1>4. \A a, b, c \in Int : a <= b /\ b <= c => a <= c
  OBVIOUS
<1>. SUFFICES ASSUME NEW w \in WriteLens PROVE x.len <= w + 1
  BY DEF Short
<1>5. w + 1 \in Int /\ e.len <= w + 1
  BY BoundsAssumption DEF Short
<1>. QED
  BY <1>2, <1>3, <1>4, <1>5

\* Short pieces are put behind short ones.
LEMMA ShortConcat ==
    ASSUME NEW s \in Seq(Extent), NEW t \in Seq(Extent),
           \A i \in 1..Len(s) : Short(s[i]), \A i \in 1..Len(t) : Short(t[i])
    PROVE  \A i \in 1..Len(s \o t) : Short((s \o t)[i])
BY ConcatElements

\* A step of request p that changes no extent.
LEMMA ShortLocal ==
    ASSUME ShortInv, NEW p \in Proc, UNCHANGED extents, ShortReq(p)',
           \A q \in Proc \ {p} : pc'[q] = pc[q] /\ arg'[q] = arg[q] /\ out'[q] = out[q]
    PROVE  ShortInv'
<1>1. ASSUME NEW q \in Proc \ {p} PROVE ShortReq(q)'
  BY <1>1, Zenon DEF ShortInv, ShortReq, Short
<1>2. \A f \in File : \A i \in 1..Len(extents'[f]) : Short(extents'[f][i])
  BY DEF ShortInv
<1>. QED
  BY <1>1, <1>2, Zenon DEF ShortInv, Short

\* A request that answers.
LEMMA ShortReply ==
    ASSUME FileTypeOK, ShortInv, NEW p \in Proc, Reply(p),
           \A f \in File : \A i \in 1..Len(extents'[f]) : Short(extents'[f][i])
    PROVE  ShortInv'
<1>1. pc'[p] = "idle" /\ out'[p] = <<>> /\ Others(p)
  BY Zenon DEF FileTypeOK, Reply, Goto, Others
<1>2. ShortReq(p)'
  BY <1>1 DEF ShortReq
<1>3. ASSUME NEW q \in Proc \ {p} PROVE ShortReq(q)'
  BY <1>1, <1>3, Zenon DEF ShortInv, ShortReq, Short, Others
<1>. QED
  BY <1>2, <1>3, Zenon DEF ShortInv, Short

\* A loop keeps parts of an extent.
LEMMA ShortLoop ==
    ASSUME FileInv, ShortInv, NEW p \in Proc, NEW e \in Extent, Short(e), NEW kept \in Seq(Extent),
           \A i \in 1..Len(kept) : Part(kept[i], e),
           out' = [out EXCEPT ![p] = out[p] \o kept],
           UNCHANGED <<pc, arg, extents>>
    PROVE  ShortInv'
<1>1. out[p] \in Seq(Extent) /\ FileTypeOK
  BY ReqTypes DEF FileInv
<1>2. out'[p] = out[p] \o kept /\ \A q \in Proc \ {p} : out'[q] = out[q]
  BY <1>1 DEF FileTypeOK
<1>3. \A i \in 1..Len(kept) : Short(kept[i])
  BY ShortPart, Zenon
<1>4. \A i \in 1..Len(out[p]) : Short(out[p][i])
  BY DEF ShortInv, ShortReq
<1>5. \A i \in 1..Len(out'[p]) : Short(out'[p][i])
  BY <1>1, <1>2, <1>3, <1>4, ShortConcat, Zenon
<1>6. ShortReq(p)'
  BY <1>5 DEF ShortInv, ShortReq, Short
<1>. QED
  BY <1>2, <1>6, ShortLocal, Zenon

\* The steps of a write.
LEMMA ShortWrite ==
    ASSUME EvenWrites, FileInv, ShortInv, NEW p \in Proc, WriteNext(p)
    PROVE  ShortInv'
<1>1. FileTypeOK /\ ReqOK(p) /\ ShortReq(p) /\ out[p] \in Seq(Extent) /\ ext[p] \in Extent
  BY ReqTypes, Zenon DEF FileInv, ShortInv
<1>2. CASE Reply(p) /\ UNCHANGED extents
  BY <1>1, <1>2, ShortReply, Zenon DEF ShortInv
<1>3. ASSUME NEW f \in File, NEW off \in Offset, NEW len \in WriteLens,
             WriteStart(p, f, off, len)
      PROVE  ShortInv'
  <2>1. /\ arg'[p].len = len /\ UNCHANGED <<extents, out>>
        /\ \A q \in Proc \ {p} : pc'[q] = pc[q] /\ arg'[q] = arg[q]
    BY <1>1, <1>3, Zenon DEF WriteStart, Goto, FileTypeOK, indexVars
  <2>2. ShortReq(p)'
    BY <1>1, <2>1, Zenon DEF ShortReq, Short
  <2>. QED
    BY <2>1, <2>2, ShortLocal
<1>4. CASE /\ pc[p] \in {"space", "append", "extent"}
           /\ \E at \in {"append", "extent", "overlay"} : pc' = [pc EXCEPT ![p] = at]
           /\ UNCHANGED <<extents, arg, out>>
  <2>1. /\ \A q \in Proc \ {p} : pc'[q] = pc[q]
    BY <1>1, <1>4, Zenon DEF FileTypeOK
  <2>2. ShortReq(p)'
    BY <1>1, <1>4, Zenon DEF ShortReq, Short
  <2>. QED
    BY <1>4, <2>1, <2>2, ShortLocal, Zenon
<1>5. CASE WriteSpace(p)
  BY <1>2, <1>4, <1>5, Zenon DEF WriteSpace, Goto, indexVars
<1>6. CASE WriteAppend(p)
  BY <1>4, <1>6, Zenon DEF WriteAppend, Goto, indexVars
<1>7. CASE WriteAppendError(p)
  BY <1>2, <1>7, Zenon DEF WriteAppendError, indexVars
<1>8. CASE WriteExtent(p)
  BY <1>2, <1>4, <1>8 DEF WriteExtent, Goto
<1>9. CASE OverlayStep(p)
  <2>. DEFINE e == RangeElement(p)
              kept == Surviving(e, ext[p])
  <2>1. /\ iter[p] <= Len(extents[arg[p].file])
        /\ out' = [out EXCEPT ![p] = out[p] \o kept] /\ UNCHANGED <<pc, arg, extents>>
    BY <1>9 DEF OverlayStep, indexVars
  <2>2. e \in Extent /\ Short(e)
    <3>1. arg[p].file \in File /\ iter[p] \in Nat \ {0}
      BY <1>1, ReqTypes
    <3>2. CASE iter[p] <= Len(out[p])
      <4>1. iter[p] \in 1..Len(out[p]) /\ e = out[p][iter[p]]
        BY <1>1, <3>1, <3>2 DEF RangeElement
      <4>. QED
        BY <1>1, <4>1, ReqTypes, Zenon DEF ShortReq
    <3>3. CASE ~(iter[p] <= Len(out[p]))
      <4>1. e = extents[arg[p].file][iter[p]]
        BY <3>3 DEF RangeElement
      <4>2. iter[p] \in 1..Len(extents[arg[p].file])
        BY <1>1, <2>1, <3>1, IterRange, Zenon
      <4>. QED
        BY <1>1, <3>1, <4>1, <4>2, IndexTypes, Zenon DEF ShortInv
    <3>. QED
      BY <3>2, <3>3, Zenon
  <2>. HIDE DEF e
  <2>3. kept \in Seq(Extent) /\ \A i \in 1..Len(kept) : Part(kept[i], e)
    BY <1>1, <2>2, SurvivingParts, Zenon
  <2>. HIDE DEF kept
  <2>. QED
    BY <2>1, <2>2, <2>3, ShortLoop, Zenon
<1>10. CASE WriteCommit(p)
  <2>. DEFINE f == arg[p].file
              list == Append(out[p], ext[p])
  <2>1. pc[p] = "overlay" /\ extents' = [extents EXCEPT ![f] = list] /\ Reply(p)
    BY <1>10, Zenon DEF WriteCommit
  <2>2. ext[p].len \in WriteLens
    BY <1>1, <2>1, Zenon DEF ReqOK, ExtOK, ShortReq
  <2>3. Short(ext[p])
    BY <2>2 DEF Short, EvenWrites
  <2>4. \A i \in 1..Len(list) : Short(list[i])
    <3>1. /\ Len(list) = Len(out[p]) + 1 /\ Len(out[p]) \in Nat
          /\ list[Len(list)] = ext[p] /\ \A i \in 1..Len(out[p]) : list[i] = out[p][i]
      BY <1>1
    <3>. HIDE DEF list
    <3>2. \A i \in 1..Len(list) : i \in 1..Len(out[p]) \/ i = Len(list)
      BY ONLY <3>1
    <3>. QED
      BY <1>1, <2>3, <3>1, <3>2, Zenon DEF ShortReq
  <2>. HIDE DEF list
  <2>5. \A g \in File : \A i \in 1..Len(extents'[g]) : Short(extents'[g][i])
    <3>1. f \in File /\ \A g \in File : extents'[g] = IF g = f THEN list ELSE extents[g]
      BY <1>1, <2>1, ReqTypes, Zenon DEF FileTypeOK
    <3>. QED
      BY <2>4, <3>1, Zenon DEF ShortInv
  <2>. QED
    BY <1>1, <2>1, <2>5, ShortReply, Zenon
<1>. QED
  BY <1>3, <1>5, <1>6, <1>7, <1>8, <1>9, <1>10, Zenon DEF WriteNext

\* Every other step.
LEMMA ShortNext == EvenWrites /\ FileInv /\ ShortInv /\ [Next]_vars => ShortInv'
<1>. SUFFICES ASSUME EvenWrites, FileInv, ShortInv, [Next]_vars PROVE ShortInv'
  OBVIOUS
<1>1. FileTypeOK
  BY DEF FileInv
<1>2. ASSUME NEW p \in Proc, SetattrNext(p) PROVE ShortInv'
  <2>1. out[p] \in Seq(Extent) /\ ShortReq(p) /\ arg[p].file \in File /\ arg[p].off \in Nat
    BY <1>1, ReqTypes, Zenon DEF ShortInv
  <2>2. ASSUME NEW f \in File, NEW n \in TruncSizes, Truncate(p, f, n) PROVE ShortInv'
    <3>1. /\ pc'[p] = "trim" /\ UNCHANGED <<extents, out>>
          /\ \A q \in Proc \ {p} : pc'[q] = pc[q] /\ arg'[q] = arg[q]
      BY <1>1, <2>2 DEF Truncate, Goto, FileTypeOK
    <3>2. ShortReq(p)'
      BY <2>1, <3>1, Zenon DEF ShortReq, Short
    <3>. QED
      BY <3>1, <3>2, ShortLocal, Zenon
  <2>3. CASE TrimStep(p)
    <3>. DEFINE e == extents[arg[p].file][iter[p]]
                kept == Trimmed(e, arg[p].off)
    <3>1. /\ iter[p] <= Len(extents[arg[p].file])
          /\ out' = [out EXCEPT ![p] = out[p] \o kept] /\ UNCHANGED <<pc, arg, extents>>
      BY <2>3, Zenon DEF TrimStep, indexVars
    <3>2. iter[p] \in 1..Len(extents[arg[p].file])
      BY <1>1, <2>1, <3>1, IterRange, Zenon
    <3>3. e \in Extent /\ Short(e)
      BY <1>1, <2>1, <3>2, IndexTypes, Zenon DEF ShortInv
    <3>. HIDE DEF e
    <3>4. kept \in Seq(Extent) /\ \A i \in 1..Len(kept) : Part(kept[i], e)
      BY <2>1, <3>3, TrimmedParts, Zenon
    <3>. HIDE DEF kept
    <3>. QED
      BY <3>1, <3>3, <3>4, ShortLoop, Zenon
  <2>4. CASE TrimCommit(p)
    <3>1. extents' = [extents EXCEPT ![arg[p].file] = out[p]] /\ Reply(p)
      BY <2>4 DEF TrimCommit
    <3>2. \A g \in File : extents'[g] = IF g = arg[p].file THEN out[p] ELSE extents[g]
      BY <1>1, <3>1 DEF FileTypeOK
    <3>3. \A g \in File : \A i \in 1..Len(extents'[g]) : Short(extents'[g][i])
      BY <2>1, <3>2, Zenon DEF ShortInv, ShortReq
    <3>. QED
      BY <1>1, <3>1, <3>3, ShortReply, Zenon
  <2>. QED
    BY <1>2, <2>2, <2>3, <2>4 DEF SetattrNext
<1>3. ASSUME NEW p \in Proc, Reply(p), UNCHANGED extents PROVE ShortInv'
  BY <1>1, <1>3, ShortReply, Zenon DEF ShortInv
<1>4. ASSUME NEW p \in Proc, UNCHANGED extents,
             pc'[p] \in {"getextents", "read", "sealed", "result"},
             \A q \in Proc \ {p} : pc'[q] = pc[q] /\ arg'[q] = arg[q] /\ out'[q] = out[q],
             out'[p] = out[p] \/ out'[p] = extents[arg[p].file]
      PROVE  ShortInv'
  <2>1. ShortReq(p)'
    BY <1>1, <1>4, ReqTypes, Zenon DEF ShortReq, ShortInv, Short
  <2>. QED
    BY <1>4, <2>1, ShortLocal, Zenon
<1>5. ASSUME NEW p \in Proc, ReadNext(p) PROVE ShortInv'
  <2>1. ASSUME NEW f \in File, NEW r \in ReadRanges, ReadStart(p, f, r[1], r[2]) PROVE ShortInv'
    BY <1>1, <1>4, <2>1, Zenon DEF ReadStart, Goto, FileTypeOK, indexVars
  <2>2. CASE GetExtents(p)
    BY <1>1, <1>3, <1>4, <2>2, Zenon DEF GetExtents, ReadReply, Goto, FileTypeOK, indexVars
  <2>3. CASE ReadExtent(p)
    <3>1. UNCHANGED extents
      BY <2>3, Zenon DEF ReadExtent, indexVars
    <3>2. CASE Reply(p)
      BY <1>3, <3>1, <3>2
    <3>3. CASE ~Reply(p)
      <4>1. /\ pc[p] = "read" /\ UNCHANGED <<arg, out>>
            /\ UNCHANGED pc \/ pc' = [pc EXCEPT ![p] = "sealed"]
        BY <2>3, <3>3, Zenon DEF ReadExtent, ReadReply, Goto
      <4>2. pc'[p] \in {"read", "sealed"} /\ \A q \in Proc \ {p} : pc'[q] = pc[q]
        BY <1>1, <4>1, Zenon DEF FileTypeOK
      <4>. QED
        BY <1>4, <3>1, <4>1, <4>2, Zenon
    <3>. QED
      BY <3>2, <3>3
  <2>4. CASE ReadSealed(p) \/ ReadDone(p)
    <3>1. /\ UNCHANGED <<extents, arg, out>>
          /\ \E at \in {"read", "result"} : pc' = [pc EXCEPT ![p] = at]
      BY <2>4, Zenon DEF ReadSealed, ReadDone, Goto, indexVars
    <3>2. pc'[p] \in {"read", "result"} /\ \A q \in Proc \ {p} : pc'[q] = pc[q]
      BY <1>1, <3>1 DEF FileTypeOK
    <3>. QED
      BY <1>4, <3>1, <3>2, Zenon
  <2>5. CASE ReadSealedError(p) \/ ReadResult(p)
    BY <1>3, <2>5 DEF ReadSealedError, ReadResult, ReadReply, indexVars
  <2>. QED
    BY <1>5, <2>1, <2>2, <2>3, <2>4, <2>5, Zenon DEF ReadNext
<1>6. ASSUME NEW f \in File, Free(f) PROVE ShortInv'
  <2>1. extents' = [extents EXCEPT ![f] = <<>>] /\ UNCHANGED <<pc, arg, out>>
    BY <1>6 DEF Free, reqVars
  <2>2. \A g \in File : \A i \in 1..Len(extents'[g]) : i \in 1..Len(extents[g]) /\ Short(extents'[g][i])
    BY <1>1, <2>1 DEF ShortInv, FileTypeOK
  <2>3. \A q \in Proc : ShortReq(q)'
    BY <2>1, Zenon DEF ShortInv, ShortReq, Short
  <2>. QED
    BY <2>2, <2>3, Zenon DEF ShortInv, Short
<1>7. CASE Flush \/ Quiet \/ UNCHANGED vars
  <2>1. UNCHANGED <<extents, pc, arg, out>>
    BY <1>7 DEF Flush, Quiet, vars, indexVars, reqVars
  <2>. QED
    BY <2>1, Zenon DEF ShortInv, ShortReq, Short
<1>. QED
  BY <1>2, <1>5, <1>6, <1>7, ShortWrite, Zenon DEF Next

\* Writes whose lengths differ by at most a byte never lie strictly inside an
\* extent.
THEOREM EvenWritesDoNotSplit == ASSUME EvenWrites PROVE Spec => []NoSplit
<1>1. Init => ShortInv
  BY DEF Init, ShortInv, ShortReq
<1>2. FileInv /\ ShortInv /\ [Next]_vars => ShortInv'
  BY ShortNext, Zenon
<1>3. FileInv /\ ShortInv => NoSplit
  <2>. SUFFICES ASSUME FileInv, ShortInv, NEW p \in Proc, pc[p] = "overlay",
                       NEW i \in 1..Len(extents[arg[p].file])
                PROVE  ~(/\ extents[arg[p].file][i].fileOff < ext[p].fileOff
                         /\ End(extents[arg[p].file][i]) > End(ext[p]))
    BY DEF NoSplit
  <2>. DEFINE e == extents[arg[p].file][i]
  <2>1. arg[p].file \in File /\ ext[p] \in Extent
    BY ReqTypes DEF FileInv
  <2>2. e \in Extent /\ Short(e)
    BY <2>1, IndexTypes, Zenon DEF FileInv, ShortInv
  <2>3. ext[p].len \in WriteLens
    BY Zenon DEF FileInv, ReqOK, ExtOK, ShortInv, ShortReq
  <2>. HIDE DEF e
  <2>4. e.len <= ext[p].len + 1
    BY <2>2, <2>3 DEF Short
  <2>5. ~(e.fileOff < ext[p].fileOff /\ End(e) > End(ext[p]))
    BY <2>1, <2>2, <2>4, ExtentFields
  <2>. QED
    BY <2>5, Zenon DEF e
<1>. QED
  BY <1>1, <1>2, <1>3, FileInvariant, PTL DEF Spec

\* No write of such lengths takes anything away but what it overwrites
\* (WriteExtent): for every number of files, requests and writes.
THEOREM EvenWritesKeepBytes == ASSUME EvenWrites PROVE Spec => []NoLostBytes
BY EvenWritesDoNotSplit, BytesKeptWithoutSplits, PTL

\* Nor does a read among such writes return a byte the file never had.
THEOREM EvenWritesReadRegular == ASSUME EvenWrites PROVE Spec => []ReadsRegular
BY EvenWritesDoNotSplit, ReadsRegularWithoutSplits, PTL
=============================================================================
