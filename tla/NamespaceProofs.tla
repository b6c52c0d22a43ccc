--------------------------- MODULE NamespaceProofs ---------------------------
(***************************************************************************)
(* The inode and directory maps of the index, for any number of requests   *)
(* served at once, any names and any limit on inode numbers, and across    *)
(* remounts, with and without the locks the VFS takes.                     *)
(*                                                                         *)
(* The argument: nlink is a count of a set of entries, so it is enough to  *)
(* follow how each operation changes the set of entries of one inode and   *)
(* the number recorded for it (Books).  Between CreateInode and            *)
(* AddDirEntry only the request knows of the new inode; what it knows      *)
(* (Requests) is what makes the entry it adds the first one of a           *)
(* directory.  What the locks of the VFS add (Locks) is that what Rmdir    *)
(* looked up is still there when it removes it.                            *)
(*                                                                         *)
(* With these locks every inode is reached from the root, but for those    *)
(* without any entry (Loose): the ones AddDirEntry is about to name, and   *)
(* the ones a kill left (ReachInv).  Reached is stated with sets closed    *)
(* under entries, like Below in Rename, so what a rename moves needs no    *)
(* induction over paths.                                                   *)
(***************************************************************************)
EXTENDS Namespace, FiniteSetTheorems, TLAPS

-----------------------------------------------------------------------------
(* Directory maps and link counts *)

\* A function (a Go map), and a directory map of such.
IsMap(f) == f = [x \in DOMAIN f |-> f[x]]
Tree(f) == IsMap(f) /\ \A d \in DOMAIN f : IsMap(f[d]) /\ DOMAIN f[d] \subseteq Name

\* The entries of a directory map, and those of one inode.
EntriesIn(f) == UNION {{<<d, n>> : n \in DOMAIN f[d]} : d \in DOMAIN f}
LinksIn(f, i) == {e \in EntriesIn(f) : f[e[1]][e[2]] = i}

\* A table of inodes: a directory has at most one entry besides itself.
Nodes(N) ==
    /\ IsMap(N) /\ DOMAIN N \subseteq Ino
    /\ \A i \in DOMAIN N : /\ N[i] \in [type : Types, nlink : Nat]
                           /\ N[i].type = "Directory" => N[i].nlink <= 2

\* What a directory counts itself.
Self(N, i) == IF N[i].type = "Directory" THEN 1 ELSE 0

\* nlink is the number of entries, except that one more is counted for the
\* inodes of X, whose entry is being moved or removed.
Counted(f, N, X) ==
    \A i \in DOMAIN N :
        /\ IsFiniteSet(LinksIn(f, i))
        /\ N[i].nlink = Cardinality(LinksIn(f, i)) + Self(N, i) + (IF i \in X THEN 1 ELSE 0)

\* Directories have a map, and entries lead to inodes.
Whole(f, N) ==
    /\ Tree(f) /\ Nodes(N)
    /\ DOMAIN f = {i \in DOMAIN N : N[i].type = "Directory"}
    /\ \A d \in DOMAIN f : \A n \in DOMAIN f[d] : f[d][n] \in DOMAIN N

\* The maps and the counts agree, up to the entries under way.
Books(f, N, X) == Whole(f, N) /\ Counted(f, N, X)

\* The directory map with an entry added or replaced, and with one removed.
BindIn(f, d, n, c) == [f EXCEPT ![d] = Put(f[d], n, c)]
UnbindIn(f, d, n) == [f EXCEPT ![d] = Delete(f[d], n)]

\* What it means to be an entry of an inode.
LEMMA LinksIff ==
    ASSUME NEW f, NEW i
    PROVE  /\ \A d \in DOMAIN f : \A n \in DOMAIN f[d] : <<d, n>> \in LinksIn(f, i) <=> f[d][n] = i
           /\ \A e \in LinksIn(f, i) : /\ e = <<e[1], e[2]>> /\ e[1] \in DOMAIN f
                                       /\ e[2] \in DOMAIN f[e[1]] /\ f[e[1]][e[2]] = i
  BY DEF LinksIn, EntriesIn

\* An inode without links is the value of no entry.
LEMMA NoLinks ==
    ASSUME NEW f, NEW i, LinksIn(f, i) = {}
    PROVE  \A d \in DOMAIN f : \A n \in DOMAIN f[d] : f[d][n] # i
<1>. TAKE d \in DOMAIN f
<1>. TAKE n \in DOMAIN f[d]
<1>1. <<d, n>> \in LinksIn(f, i) <=> f[d][n] = i
  BY LinksIff, Zenon
<1>. QED
  BY <1>1, Zenon

\* Adding an entry changes nothing else.
LEMMA BindFacts ==
    ASSUME NEW f, Tree(f), NEW d \in DOMAIN f, NEW n \in Name, NEW c
    PROVE  LET g == BindIn(f, d, n, c)
           IN  /\ Tree(g) /\ DOMAIN g = DOMAIN f
               /\ \A x \in DOMAIN f \ {d} : g[x] = f[x]
               /\ DOMAIN g[d] = DOMAIN f[d] \cup {n} /\ g[d][n] = c
               /\ \A k \in DOMAIN f[d] \ {n} : g[d][k] = f[d][k]
<1>. DEFINE g == BindIn(f, d, n, c)
<1>1. /\ DOMAIN g = DOMAIN f /\ g[d] = Put(f[d], n, c)
      /\ \A x \in DOMAIN f \ {d} : g[x] = f[x]
      /\ g = [x \in DOMAIN g |-> g[x]]
  BY DEF BindIn, Tree
<1>. HIDE DEF g
<1>2. /\ IsMap(g[d]) /\ DOMAIN g[d] = DOMAIN f[d] \cup {n} /\ g[d][n] = c
      /\ \A k \in DOMAIN f[d] \ {n} : g[d][k] = f[d][k]
  BY <1>1, Zenon DEF Tree, IsMap, Put
<1>3. Tree(g)
  <2>1. IsMap(g)
    BY <1>1, Zenon DEF IsMap
  <2>2. \A x \in DOMAIN g : x = d \/ (x \in DOMAIN f \ {d} /\ g[x] = f[x])
    BY <1>1, Zenon
  <2>3. DOMAIN g[d] \subseteq Name /\ \A x \in DOMAIN f : IsMap(f[x]) /\ DOMAIN f[x] \subseteq Name
    BY <1>2 DEF Tree
  <2>. QED
    BY <1>2, <2>1, <2>2, <2>3, Zenon DEF Tree
<1>. QED
  BY <1>1, <1>2, <1>3, Zenon DEF g

\* Removing an entry changes nothing else.
LEMMA UnbindFacts ==
    ASSUME NEW f, Tree(f), NEW d \in DOMAIN f, NEW n
    PROVE  LET g == UnbindIn(f, d, n)
           IN  /\ Tree(g) /\ DOMAIN g = DOMAIN f
               /\ \A x \in DOMAIN f \ {d} : g[x] = f[x]
               /\ DOMAIN g[d] = DOMAIN f[d] \ {n}
               /\ \A k \in DOMAIN f[d] \ {n} : g[d][k] = f[d][k]
<1>. DEFINE g == UnbindIn(f, d, n)
<1>1. /\ DOMAIN g = DOMAIN f /\ g[d] = Delete(f[d], n)
      /\ \A x \in DOMAIN f \ {d} : g[x] = f[x]
      /\ g = [x \in DOMAIN g |-> g[x]]
  BY DEF UnbindIn, Tree
<1>. HIDE DEF g
<1>2. /\ IsMap(g[d]) /\ DOMAIN g[d] = DOMAIN f[d] \ {n}
      /\ \A k \in DOMAIN f[d] \ {n} : g[d][k] = f[d][k]
  BY <1>1, Zenon DEF Tree, IsMap, Delete, Restrict
<1>3. Tree(g)
  <2>1. IsMap(g)
    BY <1>1, Zenon DEF IsMap
  <2>2. \A x \in DOMAIN g : x = d \/ (x \in DOMAIN f \ {d} /\ g[x] = f[x])
    BY <1>1, Zenon
  <2>3. DOMAIN g[d] \subseteq Name /\ \A x \in DOMAIN f : IsMap(f[x]) /\ DOMAIN f[x] \subseteq Name
    BY <1>2 DEF Tree
  <2>. QED
    BY <1>2, <2>1, <2>2, <2>3, Zenon DEF Tree
<1>. QED
  BY <1>1, <1>2, <1>3, Zenon DEF g

\* An entry added is one more entry of its inode and of no other.
LEMMA BindLinks ==
    ASSUME NEW f, Tree(f), NEW d \in DOMAIN f, NEW n \in Name \ DOMAIN f[d], NEW c, NEW i
    PROVE  /\ <<d, n>> \notin LinksIn(f, i)
           /\ LinksIn(BindIn(f, d, n, c), i) =
                IF i = c THEN LinksIn(f, i) \cup {<<d, n>>} ELSE LinksIn(f, i)
<1>. DEFINE g == BindIn(f, d, n, c)
<1>1. /\ DOMAIN g = DOMAIN f
      /\ \A x \in DOMAIN f \ {d} : g[x] = f[x]
      /\ DOMAIN g[d] = DOMAIN f[d] \cup {n} /\ g[d][n] = c
      /\ \A k \in DOMAIN f[d] : g[d][k] = f[d][k]
  BY BindFacts
<1>. HIDE DEF g
<1>2. <<d, n>> \notin LinksIn(f, i)
  BY LinksIff
<1>3. LinksIn(g, i) \subseteq IF i = c THEN LinksIn(f, i) \cup {<<d, n>>} ELSE LinksIn(f, i)
  <2>. SUFFICES ASSUME NEW e \in LinksIn(g, i)
                PROVE  e \in (IF i = c THEN LinksIn(f, i) \cup {<<d, n>>} ELSE LinksIn(f, i))
    OBVIOUS
  <2>1. /\ e = <<e[1], e[2]>> /\ e[1] \in DOMAIN f
        /\ e[2] \in DOMAIN g[e[1]] /\ g[e[1]][e[2]] = i
    BY <1>1, LinksIff
  <2>2. CASE e[1] = d /\ e[2] = n
    BY <1>1, <2>1, <2>2
  <2>3. CASE ~(e[1] = d /\ e[2] = n)
    <3>1. e[2] \in DOMAIN f[e[1]] /\ f[e[1]][e[2]] = i
      BY <1>1, <2>1, <2>3
    <3>. QED
      BY <2>1, <3>1, LinksIff
  <2>. QED
    BY <2>2, <2>3
<1>4. LinksIn(f, i) \subseteq LinksIn(g, i)
  <2>. SUFFICES ASSUME NEW e \in LinksIn(f, i) PROVE e \in LinksIn(g, i)
    OBVIOUS
  <2>1. /\ e = <<e[1], e[2]>> /\ e[1] \in DOMAIN f
        /\ e[2] \in DOMAIN f[e[1]] /\ f[e[1]][e[2]] = i
    BY LinksIff
  <2>2. e[1] \in DOMAIN g /\ e[2] \in DOMAIN g[e[1]] /\ g[e[1]][e[2]] = i
    BY <1>1, <2>1
  <2>. QED
    BY <2>1, <2>2, LinksIff
<1>5. i = c => <<d, n>> \in LinksIn(g, i)
  BY <1>1, LinksIff
<1>. QED
  BY <1>2, <1>3, <1>4, <1>5 DEF g

\* An entry removed is gone from its inode's and no other.
LEMMA UnbindLinks ==
    ASSUME NEW f, Tree(f), NEW d \in DOMAIN f, NEW n, NEW i
    PROVE  LinksIn(UnbindIn(f, d, n), i) = LinksIn(f, i) \ {<<d, n>>}
<1>. DEFINE g == UnbindIn(f, d, n)
<1>1. /\ DOMAIN g = DOMAIN f
      /\ \A x \in DOMAIN f \ {d} : g[x] = f[x]
      /\ DOMAIN g[d] = DOMAIN f[d] \ {n}
      /\ \A k \in DOMAIN f[d] \ {n} : g[d][k] = f[d][k]
  BY UnbindFacts
<1>. HIDE DEF g
<1>2. LinksIn(g, i) \subseteq LinksIn(f, i) \ {<<d, n>>}
  <2>. SUFFICES ASSUME NEW e \in LinksIn(g, i) PROVE e \in (LinksIn(f, i) \ {<<d, n>>})
    OBVIOUS
  <2>1. /\ e = <<e[1], e[2]>> /\ e[1] \in DOMAIN f
        /\ e[2] \in DOMAIN g[e[1]] /\ g[e[1]][e[2]] = i
    BY <1>1, LinksIff
  <2>2. e[2] \in DOMAIN f[e[1]] /\ f[e[1]][e[2]] = i /\ e # <<d, n>>
    BY <1>1, <2>1
  <2>. QED
    BY <2>1, <2>2, LinksIff
<1>3. LinksIn(f, i) \ {<<d, n>>} \subseteq LinksIn(g, i)
  <2>. SUFFICES ASSUME NEW e \in LinksIn(f, i) \ {<<d, n>>} PROVE e \in LinksIn(g, i)
    OBVIOUS
  <2>1. /\ e = <<e[1], e[2]>> /\ e[1] \in DOMAIN f
        /\ e[2] \in DOMAIN f[e[1]] /\ f[e[1]][e[2]] = i
    BY LinksIff
  <2>2. e[1] \in DOMAIN g /\ e[2] \in DOMAIN g[e[1]] /\ g[e[1]][e[2]] = i
    BY <1>1, <2>1
  <2>. QED
    BY <2>1, <2>2, LinksIff
<1>. QED
  BY <1>2, <1>3 DEF g

\* A map with the same directories whose entries lead to inodes is as good.
LEMMA WholeLinks ==
    ASSUME NEW f, NEW g, NEW N, Whole(f, N), Tree(g), DOMAIN g = DOMAIN f,
           \A d \in DOMAIN g : \A n \in DOMAIN g[d] : g[d][n] \in DOMAIN N
    PROVE  Whole(g, N)
  BY DEF Whole

\* RemoveDirEntry and Rename take an entry away: until nlink follows, it is
\* one too many.
LEMMA UnbindBooks ==
    ASSUME NEW f, NEW N, NEW X, Books(f, N, X), NEW d \in DOMAIN f, NEW n \in DOMAIN f[d],
           f[d][n] \notin X
    PROVE  Books(UnbindIn(f, d, n), N, X \cup {f[d][n]})
<1>. DEFINE g == UnbindIn(f, d, n)
            c == f[d][n]
<1>1. Tree(f) /\ Whole(f, N) /\ Counted(f, N, X)
  BY DEF Books, Whole
<1>2. Whole(g, N)
  <2>1. /\ Tree(g) /\ DOMAIN g = DOMAIN f
        /\ \A x \in DOMAIN f \ {d} : g[x] = f[x]
        /\ DOMAIN g[d] = DOMAIN f[d] \ {n}
        /\ \A k \in DOMAIN f[d] \ {n} : g[d][k] = f[d][k]
    BY <1>1, UnbindFacts
  <2>. HIDE DEF g
  <2>2. \A x \in DOMAIN g : \A k \in DOMAIN g[x] : g[x][k] \in DOMAIN N
    BY <1>1, <2>1 DEF Whole
  <2>. QED
    BY <1>1, <2>1, <2>2, WholeLinks
<1>3. Counted(g, N, X \cup {c})
  <2>. SUFFICES ASSUME NEW i \in DOMAIN N
                PROVE  /\ IsFiniteSet(LinksIn(g, i))
                       /\ N[i].nlink = Cardinality(LinksIn(g, i)) + Self(N, i)
                                           + (IF i \in X \cup {c} THEN 1 ELSE 0)
    BY DEF Counted
  <2>1. /\ IsFiniteSet(LinksIn(f, i))
        /\ N[i].nlink = Cardinality(LinksIn(f, i)) + Self(N, i) + (IF i \in X THEN 1 ELSE 0)
    BY <1>1 DEF Counted
  <2>2. LinksIn(g, i) = LinksIn(f, i) \ {<<d, n>>}
    BY <1>1, UnbindLinks
  <2>3. <<d, n>> \in LinksIn(f, i) <=> i = c
    BY LinksIff
  <2>. HIDE DEF g, c
  <2>4. /\ IsFiniteSet(LinksIn(g, i)) /\ Cardinality(LinksIn(f, i)) \in Nat
        /\ Cardinality(LinksIn(g, i)) = IF i = c THEN Cardinality(LinksIn(f, i)) - 1
                                                ELSE Cardinality(LinksIn(f, i))
    BY <2>1, <2>2, <2>3, FS_RemoveElement, FS_CardinalityType
  <2>5. Self(N, i) \in Nat
    BY DEF Self
  <2>6. c \notin X
    BY DEF c
  <2>. QED
    BY <2>1, <2>4, <2>5, <2>6
<1>. QED
  BY <1>2, <1>3 DEF Books

\* AddDirEntry and Rename add an entry: an inode with one too many is settled.
LEMMA BindBooks ==
    ASSUME NEW f, NEW N, NEW X, Books(f, N, X), NEW d \in DOMAIN f,
           NEW n \in Name \ DOMAIN f[d], NEW c \in X, c \in DOMAIN N
    PROVE  Books(BindIn(f, d, n, c), N, X \ {c})
<1>. DEFINE g == BindIn(f, d, n, c)
<1>1. Tree(f) /\ Whole(f, N) /\ Counted(f, N, X)
  BY DEF Books, Whole
<1>2. Whole(g, N)
  <2>1. /\ Tree(g) /\ DOMAIN g = DOMAIN f
        /\ \A x \in DOMAIN f \ {d} : g[x] = f[x]
        /\ DOMAIN g[d] = DOMAIN f[d] \cup {n} /\ g[d][n] = c
        /\ \A k \in DOMAIN f[d] \ {n} : g[d][k] = f[d][k]
    BY <1>1, BindFacts
  <2>. HIDE DEF g
  <2>2. \A x \in DOMAIN g : \A k \in DOMAIN g[x] : g[x][k] \in DOMAIN N
    BY <1>1, <2>1 DEF Whole
  <2>. QED
    BY <1>1, <2>1, <2>2, WholeLinks
<1>3. Counted(g, N, X \ {c})
  <2>. SUFFICES ASSUME NEW i \in DOMAIN N
                PROVE  /\ IsFiniteSet(LinksIn(g, i))
                       /\ N[i].nlink = Cardinality(LinksIn(g, i)) + Self(N, i)
                                           + (IF i \in X \ {c} THEN 1 ELSE 0)
    BY DEF Counted
  <2>1. /\ IsFiniteSet(LinksIn(f, i))
        /\ N[i].nlink = Cardinality(LinksIn(f, i)) + Self(N, i) + (IF i \in X THEN 1 ELSE 0)
    BY <1>1 DEF Counted
  <2>2. /\ <<d, n>> \notin LinksIn(f, i)
        /\ LinksIn(g, i) = IF i = c THEN LinksIn(f, i) \cup {<<d, n>>} ELSE LinksIn(f, i)
    BY <1>1, BindLinks
  <2>. HIDE DEF g
  <2>3. /\ IsFiniteSet(LinksIn(g, i)) /\ Cardinality(LinksIn(f, i)) \in Nat
        /\ Cardinality(LinksIn(g, i)) = IF i = c THEN Cardinality(LinksIn(f, i)) + 1
                                                ELSE Cardinality(LinksIn(f, i))
    BY <2>1, <2>2, FS_AddElement, FS_CardinalityType
  <2>4. Self(N, i) \in Nat
    BY DEF Self
  <2>. QED
    BY <2>1, <2>3, <2>4
<1>. QED
  BY <1>2, <1>3 DEF Books

\* A count that is zero is that of an inode without entries.
LEMMA CountSet ==
    ASSUME NEW f, NEW N, NEW X, Counted(f, N, X), NEW i \in DOMAIN N
    PROVE  /\ Cardinality(LinksIn(f, i)) \in Nat /\ Self(N, i) \in 0..1
           /\ N[i].nlink = Cardinality(LinksIn(f, i)) + Self(N, i) + (IF i \in X THEN 1 ELSE 0)
           /\ Cardinality(LinksIn(f, i)) = 0 => LinksIn(f, i) = {}
<1>1. /\ IsFiniteSet(LinksIn(f, i))
      /\ N[i].nlink = Cardinality(LinksIn(f, i)) + Self(N, i) + (IF i \in X THEN 1 ELSE 0)
  BY DEF Counted
<1>2. Cardinality(LinksIn(f, i)) \in Nat /\ (Cardinality(LinksIn(f, i)) = 0 => LinksIn(f, i) = {})
  BY <1>1, FS_CardinalityType, FS_EmptySet
<1>. QED
  BY <1>1, <1>2 DEF Self

\* The inode that has just lost an entry still counts it.
LEMMA OneMore ==
    ASSUME NEW f, NEW N, NEW c \in DOMAIN N, Counted(f, N, {c})
    PROVE  /\ Cardinality(LinksIn(f, c)) \in Nat /\ Self(N, c) \in 0..1
           /\ N[c].nlink = Cardinality(LinksIn(f, c)) + Self(N, c) + 1
           /\ Cardinality(LinksIn(f, c)) = 0 => LinksIn(f, c) = {}
  BY CountSet

\* nlink follows: the ++ of AddDirEntry and the -- of RemoveDirEntry.
LEMMA RecountBooks ==
    ASSUME NEW f, NEW N, NEW X, NEW Y, Books(f, N, X), NEW c \in DOMAIN N, NEW k \in Nat,
           N[c].type = "Directory" => k <= 2,
           k - (IF c \in Y THEN 1 ELSE 0) = N[c].nlink - (IF c \in X THEN 1 ELSE 0),
           \A i \in DOMAIN N \ {c} : i \in X <=> i \in Y
    PROVE  Books(f, [N EXCEPT ![c].nlink = k], Y)
<1>. DEFINE M == [N EXCEPT ![c].nlink = k]
<1>1. Whole(f, N) /\ Nodes(N) /\ Counted(f, N, X)
  BY DEF Books, Whole
<1>2. /\ DOMAIN M = DOMAIN N /\ IsMap(M)
      /\ \A i \in DOMAIN N : /\ M[i] \in [type : Types, nlink : Nat]
                             /\ M[i].type = N[i].type
                             /\ M[i].nlink = IF i = c THEN k ELSE N[i].nlink
  BY <1>1 DEF Nodes, IsMap
<1>. HIDE DEF M
<1>3. Nodes(M)
  BY <1>1, <1>2 DEF Nodes
<1>4. Whole(f, M)
  BY <1>1, <1>2, <1>3 DEF Whole
<1>5. Counted(f, M, Y)
  <2>. SUFFICES ASSUME NEW i \in DOMAIN N
                PROVE  /\ IsFiniteSet(LinksIn(f, i))
                       /\ M[i].nlink = Cardinality(LinksIn(f, i)) + Self(M, i)
                                           + (IF i \in Y THEN 1 ELSE 0)
    BY <1>2 DEF Counted
  <2>1. IsFiniteSet(LinksIn(f, i)) /\ N[i].nlink \in Nat /\ N[c].nlink \in Nat
    BY <1>1 DEF Counted, Nodes
  <2>2. Self(M, i) = Self(N, i)
    BY <1>2 DEF Self
  <2>. QED
    BY <1>1, <1>2, <2>1, <2>2, CountSet
<1>. QED
  BY <1>4, <1>5 DEF Books, M

\* The last entry is gone: the inode can be freed.
LEMMA DropBooks ==
    ASSUME NEW f, NEW N, NEW c \in DOMAIN N, Books(f, N, {c}),
           c \in DOMAIN f => DOMAIN f[c] = {}, N[c].nlink - 1 <= Self(N, c)
    PROVE  Books(Delete(f, c), Delete(N, c), {})
<1>. DEFINE g == Delete(f, c)
            M == Delete(N, c)
<1>1. Whole(f, N) /\ Tree(f) /\ Nodes(N) /\ Counted(f, N, {c})
  BY DEF Books, Whole
<1>2. /\ DOMAIN g = DOMAIN f \ {c} /\ \A x \in DOMAIN g : g[x] = f[x]
      /\ DOMAIN M = DOMAIN N \ {c} /\ \A x \in DOMAIN M : M[x] = N[x]
      /\ IsMap(g) /\ IsMap(M)
  BY DEF Delete, Restrict, IsMap
<1>. HIDE DEF g, M
<1>3. LinksIn(f, c) = {}
  BY <1>1, CountSet
<1>4. \A d \in DOMAIN g : \A n \in DOMAIN g[d] : g[d][n] \in DOMAIN M
  <2>. TAKE d \in DOMAIN g
  <2>. TAKE n \in DOMAIN g[d]
  <2>1. f[d][n] \in DOMAIN N
    BY <1>1, <1>2 DEF Whole
  <2>2. f[d][n] # c
    BY <1>2, <1>3, LinksIff, Zenon
  <2>. QED
    BY <1>2, <2>1, <2>2
<1>5. Nodes(M) /\ Tree(g)
  BY <1>1, <1>2 DEF Nodes, Tree
<1>6. Whole(g, M)
  BY <1>1, <1>2, <1>4, <1>5 DEF Whole
<1>7. \A i \in DOMAIN M : LinksIn(g, i) = LinksIn(f, i)
  <2>. TAKE i \in DOMAIN M
  <2>1. LinksIn(g, i) \subseteq LinksIn(f, i)
    <3>. SUFFICES ASSUME NEW e \in LinksIn(g, i) PROVE e \in LinksIn(f, i)
      OBVIOUS
    <3>1. /\ e = <<e[1], e[2]>> /\ e[1] \in DOMAIN f
          /\ e[2] \in DOMAIN f[e[1]] /\ f[e[1]][e[2]] = i
      BY <1>2, LinksIff
    <3>. QED
      BY <3>1, LinksIff
  <2>2. LinksIn(f, i) \subseteq LinksIn(g, i)
    <3>. SUFFICES ASSUME NEW e \in LinksIn(f, i) PROVE e \in LinksIn(g, i)
      OBVIOUS
    <3>1. /\ e = <<e[1], e[2]>> /\ e[1] \in DOMAIN f
          /\ e[2] \in DOMAIN f[e[1]] /\ f[e[1]][e[2]] = i
      BY LinksIff
    <3>2. e[1] \in DOMAIN g /\ e[2] \in DOMAIN g[e[1]] /\ g[e[1]][e[2]] = i
      BY <1>2, <3>1
    <3>. QED
      BY <3>1, <3>2, LinksIff
  <2>. QED
    BY <2>1, <2>2, Zenon
<1>8. Counted(g, M, {})
  BY <1>1, <1>2, <1>7 DEF Counted, Self
<1>. QED
  BY <1>6, <1>8 DEF Books, g, M

\* CreateInode: an inode without entries, a directory with an empty map.
LEMMA NewBooks ==
    ASSUME NEW f, NEW N, Books(f, N, {}), NEW i \in Ino \ DOMAIN N, NEW t \in Types
    PROVE  Books(IF t = "Directory" THEN Put(f, i, <<>>) ELSE f,
                 Put(N, i, [type |-> t, nlink |-> IF t = "Directory" THEN 1 ELSE 0]), {})
<1>. DEFINE g == IF t = "Directory" THEN Put(f, i, <<>>) ELSE f
            r == [type |-> t, nlink |-> IF t = "Directory" THEN 1 ELSE 0]
            M == Put(N, i, r)
<1>1. Whole(f, N) /\ Tree(f) /\ Nodes(N) /\ Counted(f, N, {})
  BY DEF Books, Whole
<1>2. r \in [type : Types, nlink : Nat] /\ r.type = t /\ r.nlink = (IF t = "Directory" THEN 1 ELSE 0)
  OBVIOUS
<1>. HIDE DEF r
<1>3. /\ DOMAIN M = DOMAIN N \cup {i} /\ IsMap(M) /\ M[i] = r
      /\ \A x \in DOMAIN N : M[x] = N[x]
  BY DEF Put, IsMap
<1>4. /\ DOMAIN g = DOMAIN f \cup (IF t = "Directory" THEN {i} ELSE {}) /\ IsMap(g)
      /\ \A x \in DOMAIN f : x # i => g[x] = f[x]
      /\ t = "Directory" => g[i] = <<>>
  BY <1>1, Zenon DEF Put, IsMap, Tree
<1>. HIDE DEF g, M
<1>5. i \notin DOMAIN f /\ DOMAIN f \subseteq DOMAIN N
  BY <1>1 DEF Whole
<1>6. IsMap(<<>>) /\ DOMAIN <<>> = {}
  BY DEF IsMap
<1>7. Tree(g)
  BY <1>1, <1>4, <1>5, <1>6 DEF Tree
<1>8. Nodes(M)
  BY <1>1, <1>2, <1>3 DEF Nodes
<1>9. \A d \in DOMAIN g : \A n \in DOMAIN g[d] : d \in DOMAIN f /\ n \in DOMAIN f[d] /\ g[d][n] = f[d][n]
  BY <1>4, <1>5, <1>6
<1>10. Whole(g, M)
  <2>1. DOMAIN g = {x \in DOMAIN M : M[x].type = "Directory"}
    BY <1>1, <1>2, <1>3, <1>4, <1>5 DEF Whole
  <2>2. \A d \in DOMAIN g : \A n \in DOMAIN g[d] : g[d][n] \in DOMAIN M
    BY <1>1, <1>3, <1>9 DEF Whole
  <2>. QED
    BY <1>7, <1>8, <2>1, <2>2 DEF Whole
<1>11. ASSUME NEW x PROVE LinksIn(g, x) = LinksIn(f, x)
  <2>1. LinksIn(g, x) \subseteq LinksIn(f, x)
    <3>. SUFFICES ASSUME NEW e \in LinksIn(g, x) PROVE e \in LinksIn(f, x)
      OBVIOUS
    <3>1. /\ e = <<e[1], e[2]>> /\ e[1] \in DOMAIN f
          /\ e[2] \in DOMAIN f[e[1]] /\ f[e[1]][e[2]] = x
      BY <1>9, LinksIff
    <3>. QED
      BY <3>1, LinksIff
  <2>2. LinksIn(f, x) \subseteq LinksIn(g, x)
    <3>. SUFFICES ASSUME NEW e \in LinksIn(f, x) PROVE e \in LinksIn(g, x)
      OBVIOUS
    <3>1. /\ e = <<e[1], e[2]>> /\ e[1] \in DOMAIN f
          /\ e[2] \in DOMAIN f[e[1]] /\ f[e[1]][e[2]] = x
      BY LinksIff
    <3>2. e[1] \in DOMAIN g /\ e[2] \in DOMAIN g[e[1]] /\ g[e[1]][e[2]] = x
      BY <1>4, <1>5, <3>1
    <3>. QED
      BY <3>1, <3>2, LinksIff
  <2>. QED
    BY <2>1, <2>2
<1>12. Counted(g, M, {})
  <2>1. LinksIn(f, i) = {}
    <3>1. \A e \in LinksIn(f, i) : FALSE
      BY <1>1, LinksIff DEF Whole
    <3>. QED
      BY <3>1
  <2>2. IsFiniteSet({}) /\ Cardinality({}) = 0
    BY FS_EmptySet
  <2>3. M[i].nlink = Cardinality(LinksIn(g, i)) + Self(M, i)
    BY <1>2, <1>3, <1>11, <2>1, <2>2 DEF Self
  <2>4. ASSUME NEW x \in DOMAIN N
        PROVE  /\ IsFiniteSet(LinksIn(g, x))
               /\ M[x].nlink = Cardinality(LinksIn(g, x)) + Self(M, x)
    <3>1. LinksIn(g, x) = LinksIn(f, x) /\ Self(M, x) = Self(N, x) /\ M[x] = N[x]
      BY <1>3, <1>11 DEF Self
    <3>2. /\ IsFiniteSet(LinksIn(f, x))
          /\ N[x].nlink = Cardinality(LinksIn(f, x)) + Self(N, x) + 0
      BY <1>1 DEF Counted
    <3>3. Cardinality(LinksIn(f, x)) \in Nat /\ Self(N, x) \in 0..1
      BY <3>2, FS_CardinalityType DEF Self
    <3>. QED
      BY <3>1, <3>2, <3>3
  <2>5. IsFiniteSet(LinksIn(g, i)) /\ Cardinality(LinksIn(g, i)) = 0 /\ Self(M, i) \in 0..1
    BY <1>11, <2>1, <2>2 DEF Self
  <2>6. ASSUME NEW x \in DOMAIN M
        PROVE  /\ IsFiniteSet(LinksIn(g, x))
               /\ M[x].nlink = Cardinality(LinksIn(g, x)) + Self(M, x) + 0
    <3>1. IsFiniteSet(LinksIn(g, x)) /\ M[x].nlink = Cardinality(LinksIn(g, x)) + Self(M, x)
      BY <1>3, <2>3, <2>4, <2>5
    <3>2. Cardinality(LinksIn(g, x)) \in Nat /\ Self(M, x) \in 0..1
      BY <3>1, FS_CardinalityType DEF Self
    <3>. QED
      BY <3>1, <3>2
  <2>. QED
    BY <2>6 DEF Counted
<1>. QED
  BY <1>10, <1>12 DEF Books, g, M, r

-----------------------------------------------------------------------------
(* The invariant *)

\* What is recorded of inodes besides is recorded of inodes that exist, and
\* numbers not yet handed out are larger than all in use.
Recorded ==
    /\ extents = {i \in DOMAIN inodes : inodes[i].type = "Regular"}
    /\ symlinks \subseteq DOMAIN inodes /\ DOMAIN xattrs \subseteq DOMAIN inodes
    /\ nextIno \in Nat \ {0} /\ \A i \in DOMAIN inodes : i < nextIno

\* Where a request can be, and where it is about to add an entry.
Places == {"idle", "add", "addlink", "target", "rmdir", "getinode"}
Adding == {"add", "addlink"}

\* What a request remembers.
Asked == [dir : Ino, name : Name, ino : Ino, type : Types, locks : SUBSET Ino]

\* Types of the requests.
ReqTypes == pc \in [Proc -> Places] /\ req \in [Proc -> Asked \cup {NoReq}]

\* The number a request remembers was handed out, and if it is in use it is
\* still the same kind of object: numbers are not used twice.
Sound(p) ==
    IF pc[p] = "idle" THEN req[p] = NoReq
    ELSE /\ req[p] \in Asked /\ req[p].ino < nextIno
         /\ req[p].ino \in DOMAIN inodes => inodes[req[p].ino].type = req[p].type

\* A directory about to get an entry is new and has none.
NewDir(p) ==
    pc[p] \in Adding /\ req[p].type = "Directory" /\ req[p].ino \in DOMAIN inodes =>
        inodes[req[p].ino].nlink = 1

\* No second request is about to add an entry to a new directory's number.
Alone(p, q) ==
    pc[p] \in Adding /\ pc[q] \in Adding /\ req[p].type = "Directory" => req[q].ino # req[p].ino

\* What requests rely on between their steps.
Requests ==
    /\ \A p \in Proc : Sound(p) /\ NewDir(p)
    /\ \A p \in Proc : \A q \in Proc \ {p} : Alone(p, q)

\* With the locks of the VFS: a request holds the lock of the directory it
\* adds to.
Holds(p) == pc[p] \in Adding => req[p].dir \in req[p].locks

\* With the locks of the VFS: what Rmdir looked up is still there.
Found(p) ==
    pc[p] = "rmdir" =>
        /\ {req[p].dir, req[p].ino} \subseteq req[p].locks /\ req[p].type = "Directory"
        /\ req[p].dir \in Dirs /\ req[p].name \in DOMAIN dirIndex[req[p].dir]
        /\ Child(req[p].dir, req[p].name) = req[p].ino

\* Locks exclude each other, and what they protect stays.
Locks ==
    serialised => /\ \A p \in Proc : \A q \in Proc \ {p} : req[p].locks \cap req[q].locks = {}
                  /\ \A p \in Proc : Holds(p) /\ Found(p)

\* The index by itself, and the inductive invariant.
IndexInv == Books(dirIndex, inodes, {}) /\ Recorded
NsInv == IndexInv /\ ReqTypes /\ Requests /\ Locks

-----------------------------------------------------------------------------
(* What a step must leave alone *)

\* A step that leaves the inodes requests know of alone, apart from c, and in
\* which only p's request moves, keeps what the others rely on.
LEMMA RequestsKept ==
    ASSUME ReqTypes, Requests, NEW p \in Proc, NEW c, nextIno \in Nat, nextIno' \in Nat,
           nextIno <= nextIno', DOMAIN inodes' \subseteq Nat,
           \A i \in DOMAIN inodes' \ {c} : i < nextIno => i \in DOMAIN inodes /\ inodes'[i] = inodes[i],
           c \in DOMAIN inodes' /\ c < nextIno =>
               c \in DOMAIN inodes /\ inodes'[c].type = inodes[c].type,
           \A q \in Proc \ {p} : /\ pc'[q] = pc[q] /\ req'[q] = req[q]
                                 /\ pc[q] \in Adding /\ req[q].type = "Directory" => req[q].ino # c,
           Sound(p)', NewDir(p)', \A q \in Proc \ {p} : Alone(p, q)' /\ Alone(q, p)'
    PROVE  Requests'
<1>1. ASSUME NEW q \in Proc \ {p} PROVE Sound(q)'
  <2>. SUFFICES ASSUME pc[q] # "idle"
                PROVE  /\ req[q] \in Asked /\ req[q].ino < nextIno'
                       /\ req[q].ino \in DOMAIN inodes' => inodes'[req[q].ino].type = req[q].type
    BY DEF Sound, Requests
  <2>1. /\ req[q] \in Asked /\ req[q].ino < nextIno
        /\ req[q].ino \in DOMAIN inodes => inodes[req[q].ino].type = req[q].type
    BY DEF Requests, Sound
  <2>2. req[q].ino \in Int
    BY <2>1, InoAssumption DEF Asked, Ino, RootIno
  <2>. QED
    BY <2>1, <2>2
<1>2. ASSUME NEW q \in Proc \ {p} PROVE NewDir(q)'
  <2>. SUFFICES ASSUME pc[q] \in Adding, req[q].type = "Directory", req[q].ino \in DOMAIN inodes'
                PROVE  inodes'[req[q].ino].nlink = 1
    BY DEF NewDir
  <2>1. req[q].ino < nextIno /\ req[q].ino # c
    BY DEF Requests, Sound, Adding
  <2>. QED
    BY <2>1 DEF Requests, NewDir
<1>3. ASSUME NEW q \in Proc \ {p}, NEW r \in Proc \ {q} PROVE Alone(q, r)'
  <2>1. CASE r = p
    BY <2>1
  <2>2. CASE r # p
    BY <2>2 DEF Requests, Alone
  <2>. QED
    BY <2>1, <2>2
<1>. QED
  BY <1>1, <1>2, <1>3 DEF Requests

\* A step that changes no directory outside S, which no other request has
\* locked, keeps what the locks protect.
LEMMA LocksKept ==
    ASSUME ReqTypes, Locks, NEW p \in Proc, NEW S, UNCHANGED serialised,
           \A q \in Proc \ {p} : /\ pc'[q] = pc[q] /\ req'[q] = req[q]
                                 /\ serialised => req[q].locks \cap S = {},
           serialised => req'[p].locks \subseteq S,
           \A d \in Dirs \ S : d \in DOMAIN dirIndex' /\ dirIndex'[d] = dirIndex[d],
           serialised => Holds(p)' /\ Found(p)'
    PROVE  Locks'
<1>. SUFFICES ASSUME serialised
              PROVE  /\ \A q \in Proc : \A r \in Proc \ {q} : req'[q].locks \cap req'[r].locks = {}
                     /\ \A q \in Proc : Holds(q)' /\ Found(q)'
  BY DEF Locks
<1>1. /\ \A q \in Proc : \A r \in Proc \ {q} : req[q].locks \cap req[r].locks = {}
      /\ \A q \in Proc : Holds(q) /\ Found(q)
  BY DEF Locks
<1>2. ASSUME NEW q \in Proc, NEW r \in Proc \ {q} PROVE req'[q].locks \cap req'[r].locks = {}
  BY <1>1
<1>3. ASSUME NEW q \in Proc \ {p} PROVE Holds(q)'
  BY <1>1 DEF Holds
<1>4. ASSUME NEW q \in Proc \ {p} PROVE Found(q)'
  <2>. SUFFICES ASSUME pc[q] = "rmdir"
                PROVE  /\ {req[q].dir, req[q].ino} \subseteq req[q].locks /\ req[q].type = "Directory"
                       /\ req[q].dir \in DOMAIN dirIndex'
                       /\ req[q].name \in DOMAIN dirIndex'[req[q].dir]
                       /\ dirIndex'[req[q].dir][req[q].name] = req[q].ino
    BY DEF Found, Child, Dirs
  <2>1. /\ {req[q].dir, req[q].ino} \subseteq req[q].locks /\ req[q].type = "Directory"
        /\ req[q].dir \in Dirs /\ req[q].name \in DOMAIN dirIndex[req[q].dir]
        /\ dirIndex[req[q].dir][req[q].name] = req[q].ino
    BY <1>1 DEF Found, Child
  <2>2. req[q].dir \notin S
    BY <2>1
  <2>. QED
    BY <2>1, <2>2
<1>. QED
  BY <1>2, <1>3, <1>4

\* The parts of IndexInv that the steps use.
LEMMA IndexFacts ==
    ASSUME IndexInv
    PROVE  /\ Whole(dirIndex, inodes) /\ Counted(dirIndex, inodes, {}) /\ Tree(dirIndex) /\ Nodes(inodes)
           /\ Dirs = {i \in DOMAIN inodes : IsDir(i)}
           /\ DOMAIN inodes \subseteq Ino /\ Ino \subseteq Nat
           /\ \A d \in Dirs : \A n \in DOMAIN dirIndex[d] : n \in Name /\ Child(d, n) \in DOMAIN inodes
           /\ \A i \in DOMAIN inodes : inodes[i] \in [type : Types, nlink : Nat]
<1>1. Whole(dirIndex, inodes) /\ Counted(dirIndex, inodes, {})
  BY DEF IndexInv, Books
<1>2. Tree(dirIndex) /\ Nodes(inodes) /\ Dirs = {i \in DOMAIN inodes : IsDir(i)}
  BY <1>1 DEF Whole, Dirs, IsDir
<1>3. \A d \in Dirs : \A n \in DOMAIN dirIndex[d] : n \in Name /\ Child(d, n) \in DOMAIN inodes
  BY <1>1, <1>2 DEF Whole, Tree, Dirs, Child
<1>4. Ino \subseteq Nat
  BY InoAssumption DEF Ino, RootIno
<1>. QED
  BY <1>1, <1>2, <1>3, <1>4 DEF Nodes

-----------------------------------------------------------------------------
(* The steps *)

\* A request begins and the index does not change (Link, Rmdir, Lookup).
LEMMA AskInv ==
    ASSUME NsInv, NEW p \in Proc, pc[p] = "idle", UNCHANGED <<index, serialised>>,
           NEW at \in Places \ {"idle"}, NEW r \in Asked, Goto(p, at), req' = [req EXCEPT ![p] = r],
           r.ino \in DOMAIN inodes, r.type = inodes[r.ino].type,
           at \in Adding => r.type # "Directory", Lock(p, r.locks),
           serialised => Holds(p)' /\ Found(p)'
    PROVE  NsInv'
<1>1. /\ IndexInv /\ ReqTypes /\ Requests /\ Locks
      /\ UNCHANGED <<inodes, dirIndex, extents, symlinks, xattrs, nextIno>>
  BY DEF NsInv, index
<1>2. /\ ReqTypes' /\ pc'[p] = at /\ req'[p] = r
      /\ \A q \in Proc \ {p} : pc'[q] = pc[q] /\ req'[q] = req[q]
  BY <1>1 DEF ReqTypes, Goto
<1>3. IndexInv'
  BY <1>1, Zenon DEF IndexInv, Recorded
<1>4. /\ nextIno \in Nat /\ DOMAIN inodes \subseteq Nat
      /\ \A i \in DOMAIN inodes : i < nextIno
  BY <1>1, IndexFacts, Zenon DEF IndexInv, Recorded
<1>5. Sound(p)' /\ NewDir(p)'
  BY <1>1, <1>2, <1>4 DEF Sound, NewDir
<1>6. ASSUME NEW q \in Proc \ {p} PROVE Alone(p, q)' /\ Alone(q, p)'
  BY <1>1, <1>2 DEF Alone, Requests, Sound, Adding
<1>7. Requests'
  <2>. DEFINE c == 0 - 1
  <2>1. /\ \A i \in DOMAIN inodes' \ {c} : i < nextIno => i \in DOMAIN inodes /\ inodes'[i] = inodes[i]
        /\ c \notin DOMAIN inodes'
    BY <1>1, <1>4
  <2>2. ASSUME NEW q \in Proc \ {p} PROVE pc[q] \in Adding /\ req[q].type = "Directory" => req[q].ino # c
    <3>1. pc[q] \in Adding => req[q] \in Asked
      BY <1>1 DEF Requests, Sound, Adding
    <3>2. pc[q] \in Adding => req[q].ino \in Nat
      BY <3>1, InoAssumption DEF Asked, Ino, RootIno
    <3>. QED
      BY <3>2
  <2>. HIDE DEF c
  <2>3. \A q \in Proc \ {p} : /\ pc'[q] = pc[q] /\ req'[q] = req[q]
                              /\ pc[q] \in Adding /\ req[q].type = "Directory" => req[q].ino # c
    BY <1>2, <2>2, Zenon
  <2>4. nextIno' \in Nat /\ nextIno <= nextIno' /\ DOMAIN inodes' \subseteq Nat
    BY <1>1, <1>4
  <2>. QED
    BY <1>1, <1>4, <1>5, <1>6, <2>1, <2>3, <2>4, RequestsKept, Zenon
<1>8. Locks'
  <2>. DEFINE S == r.locks
  <2>1. \A q \in Proc \ {p} : serialised => req[q].locks \cap S = {}
    BY DEF Lock
  <2>2. \A d \in Dirs \ S : d \in DOMAIN dirIndex' /\ dirIndex'[d] = dirIndex[d]
    BY <1>1 DEF Dirs
  <2>3. req'[p].locks \subseteq S
    BY <1>2
  <2>. HIDE DEF S
  <2>. QED
    BY <1>1, <1>2, <2>1, <2>2, <2>3, LocksKept
<1>. QED
  BY <1>2, <1>3, <1>7, <1>8 DEF NsInv

\* A request ends, the maps unchanged.
LEMMA ReplyInv ==
    ASSUME NsInv, NEW p \in Proc, Reply(p), symlinks' \subseteq DOMAIN inodes,
           UNCHANGED <<inodes, dirIndex, extents, xattrs, nextIno, serialised>>
    PROVE  NsInv'
<1>1. IndexInv /\ ReqTypes /\ Requests /\ Locks
  BY DEF NsInv
<1>2. /\ ReqTypes' /\ pc'[p] = "idle" /\ req'[p] = NoReq
      /\ \A q \in Proc \ {p} : pc'[q] = pc[q] /\ req'[q] = req[q]
  BY <1>1 DEF ReqTypes, Reply, Goto, Places
<1>3. IndexInv'
  BY <1>1, Zenon DEF IndexInv, Recorded
<1>4. Requests'
  BY <1>1, <1>2 DEF Requests, Sound, NewDir, Alone, Adding
<1>5. Locks'
  BY <1>1, <1>2 DEF Locks, Holds, Found, NoReq, Adding, Dirs, Child
<1>. QED
  BY <1>2, <1>3, <1>4, <1>5 DEF NsInv

\* CreateInode keeps the invariant.
LEMMA CreateInv ==
    ASSUME NsInv, NEW p \in Proc, NEW d \in Ino, NEW n \in Name, NEW t \in Types,
           CreateInode(p, d, n, t), UNCHANGED serialised
    PROVE  NsInv'
<1>. DEFINE c == nextIno
            r == [dir |-> d, name |-> n, ino |-> nextIno, type |-> t, locks |-> {d}]
            at == IF t = "Symlink" THEN "addlink" ELSE "add"
<1>1. /\ IndexInv /\ ReqTypes /\ Requests /\ Locks /\ Recorded
      /\ DOMAIN inodes \subseteq Nat
  BY IndexFacts DEF NsInv, IndexInv
<1>2. /\ inodes' = Put(inodes, c, [type |-> t, nlink |-> IF t = "Directory" THEN 1 ELSE 0])
      /\ extents' = IF t = "Regular" THEN extents \cup {c} ELSE extents
      /\ dirIndex' = IF t = "Directory" THEN Put(dirIndex, c, <<>>) ELSE dirIndex
      /\ nextIno' = nextIno + 1 /\ UNCHANGED <<symlinks, xattrs>>
      /\ pc[p] = "idle" /\ Lock(p, {d})
      /\ req' = [req EXCEPT ![p] = r] /\ pc' = [pc EXCEPT ![p] = at]
  BY DEF CreateInode, Goto
<1>3. c \in Ino \ DOMAIN inodes /\ nextIno \in Nat /\ nextIno' \in Nat /\ nextIno <= nextIno'
  BY <1>1, <1>2, InoAssumption DEF Recorded, Ino, RootIno, CreateInode
<1>4. r \in Asked /\ r.ino = c /\ r.type = t /\ r.locks = {d} /\ r.dir = d /\ at \in Adding
  BY <1>3, Zenon DEF Asked, Adding
<1>. HIDE DEF r, at
<1>5. /\ ReqTypes' /\ pc'[p] = at /\ req'[p] = r
      /\ \A q \in Proc \ {p} : pc'[q] = pc[q] /\ req'[q] = req[q]
  BY <1>1, <1>2, <1>4, Zenon DEF ReqTypes, Adding, Places
<1>6. Books(dirIndex', inodes', {})
  BY <1>1, <1>2, <1>3, NewBooks, Zenon DEF IndexInv
<1>7. /\ DOMAIN inodes' = DOMAIN inodes \cup {c} /\ inodes'[c].type = t
      /\ t = "Directory" => inodes'[c].nlink = 1
      /\ \A i \in DOMAIN inodes : inodes'[i] = inodes[i]
  BY <1>2, <1>3, Zenon DEF Put
<1>8. \A x \in Dirs : x \in DOMAIN dirIndex' /\ dirIndex'[x] = dirIndex[x]
  <2>1. c \notin Dirs
    BY <1>1, <1>3, IndexFacts, Zenon
  <2>. QED
    BY <1>2, <2>1 DEF Put, Dirs
<1>9. Recorded'
  <2>1. extents = {i \in DOMAIN inodes : inodes[i].type = "Regular"}
    BY <1>1, Zenon DEF Recorded
  <2>2. extents' = {i \in DOMAIN inodes' : inodes'[i].type = "Regular"}
    BY <1>2, <1>7, <2>1, Zenon
  <2>3. symlinks' \subseteq DOMAIN inodes' /\ DOMAIN xattrs' \subseteq DOMAIN inodes'
    BY <1>1, <1>2, <1>7, Zenon DEF Recorded
  <2>4. \A i \in DOMAIN inodes : i \in Nat /\ i < c
    BY <1>1, Zenon DEF Recorded
  <2>. HIDE DEF c
  <2>5. c \in Nat /\ nextIno' = c + 1
    BY <1>2, <1>3, Zenon DEF c
  <2>6. nextIno' \in Nat \ {0} /\ \A i \in DOMAIN inodes \cup {c} : i < nextIno'
    BY ONLY <2>4, <2>5
  <2>. QED
    BY <1>7, <2>2, <2>3, <2>6, Zenon DEF Recorded
<1>10. Sound(p)' /\ NewDir(p)'
  <2>1. pc'[p] # "idle"
    BY <1>4, <1>5 DEF Adding
  <2>2. c < nextIno'
    BY <1>2, <1>3
  <2>. QED
    BY <1>4, <1>5, <1>7, <2>1, <2>2, Zenon DEF Sound, NewDir
<1>11. \A q \in Proc \ {p} : /\ pc'[q] = pc[q] /\ req'[q] = req[q]
                             /\ pc[q] \in Adding => req[q].ino # c
  <2>. SUFFICES ASSUME NEW q \in Proc \ {p}, pc[q] \in Adding PROVE req[q].ino # c
    BY <1>5, Zenon
  <2>1. pc[q] # "idle"
    BY DEF Adding
  <2>2. req[q].ino < c
    BY <1>1, <2>1, Zenon DEF Requests, Sound
  <2>3. ~(c < c)
    BY <1>3
  <2>. QED
    BY <2>2, <2>3, Zenon
<1>12. \A q \in Proc \ {p} : Alone(p, q)' /\ Alone(q, p)'
  BY <1>4, <1>5, <1>11, Zenon DEF Alone
<1>13. Requests'
  <2>1. \A i \in DOMAIN inodes' \ {c} : i < nextIno => i \in DOMAIN inodes /\ inodes'[i] = inodes[i]
    BY <1>7
  <2>2. c \in DOMAIN inodes' /\ c < nextIno => c \in DOMAIN inodes /\ inodes'[c].type = inodes[c].type
    BY <1>3
  <2>3. DOMAIN inodes' \subseteq Nat
    BY <1>1, <1>3, <1>7
  <2>. HIDE DEF c
  <2>. QED
    BY <1>1, <1>3, <1>10, <1>11, <1>12, <2>1, <2>2, <2>3, RequestsKept, Zenon
<1>14. Locks'
  <2>1. \A q \in Proc \ {p} : /\ pc'[q] = pc[q] /\ req'[q] = req[q]
                              /\ serialised => req[q].locks \cap {d} = {}
    BY <1>2, <1>5, Zenon DEF Lock
  <2>2. \A x \in Dirs \ {d} : x \in DOMAIN dirIndex' /\ dirIndex'[x] = dirIndex[x]
    BY <1>8, Zenon
  <2>3. Holds(p)' /\ Found(p)' /\ req'[p].locks \subseteq {d}
    BY <1>4, <1>5, Zenon DEF Holds, Found, Adding
  <2>. QED
    BY <1>1, <2>1, <2>2, <2>3, LocksKept, Zenon
<1>. QED
  BY <1>5, <1>6, <1>9, <1>13, <1>14 DEF NsInv, IndexInv

\* AddDirEntry keeps it: the entry is counted.
LEMMA AddInv ==
    ASSUME NsInv, NEW p \in Proc, AddDirEntry(p), UNCHANGED serialised
    PROVE  NsInv'
<1>. DEFINE d == req[p].dir
            n == req[p].name
            c == req[p].ino
            k == inodes[c].nlink + 1
<1>1. /\ IndexInv /\ ReqTypes /\ Requests /\ Locks /\ Recorded
      /\ DOMAIN inodes \subseteq Nat /\ Books(dirIndex, inodes, {})
  BY IndexFacts, Zenon DEF NsInv, IndexInv
<1>2. /\ pc[p] \in Adding /\ d \in Dirs /\ c \in DOMAIN inodes /\ n \notin DOMAIN dirIndex[d]
      /\ dirIndex' = BindIn(dirIndex, d, n, c)
      /\ inodes' = [inodes EXCEPT ![c].nlink = k]
      /\ IF pc[p] = "addlink" THEN Goto(p, "target") /\ UNCHANGED req ELSE Reply(p)
      /\ UNCHANGED <<extents, symlinks, xattrs, nextIno>>
  BY DEF AddDirEntry, Adding, BindIn
<1>3. /\ req[p] \in Asked /\ n \in Name /\ inodes[c].type = req[p].type
      /\ inodes[c] \in [type : Types, nlink : Nat] /\ k \in Nat /\ inodes[c].nlink \in Nat
      /\ inodes[c].type = "Directory" => k <= 2
  BY <1>1, <1>2, IndexFacts DEF Requests, Sound, NewDir, Adding, Asked
<1>4. Books(dirIndex, inodes', {c})
  <2>. DEFINE X == {}
              Y == {c}
  <2>1. /\ k - (IF c \in Y THEN 1 ELSE 0) = inodes[c].nlink - (IF c \in X THEN 1 ELSE 0)
        /\ \A i \in DOMAIN inodes \ {c} : i \in X <=> i \in Y
    BY <1>3
  <2>2. Books(dirIndex, inodes, X)
    BY <1>1
  <2>. HIDE DEF c, k, X, Y
  <2>3. Books(dirIndex, [inodes EXCEPT ![c].nlink = k], Y)
    BY <1>2, <1>3, <2>1, <2>2, RecountBooks, Zenon
  <2>. QED
    BY <1>2, <2>3 DEF Y
<1>5. /\ DOMAIN inodes' = DOMAIN inodes
      /\ \A i \in DOMAIN inodes : /\ inodes'[i].type = inodes[i].type
                                  /\ i # c => inodes'[i] = inodes[i]
  BY <1>1, <1>2, <1>3, IndexFacts
<1>6. Books(dirIndex', inodes', {})
  <2>. HIDE DEF c, d, n
  <2>1. Books(BindIn(dirIndex, d, n, c), inodes', {c} \ {c})
    BY <1>2, <1>3, <1>4, <1>5, BindBooks, Zenon DEF Dirs
  <2>. QED
    BY <1>2, <2>1
<1>7. Recorded'
  BY <1>1, <1>2, <1>5 DEF Recorded
<1>8. /\ ReqTypes' /\ pc'[p] \in {"idle", "target"}
      /\ req'[p] = IF pc'[p] = "target" THEN req[p] ELSE NoReq
      /\ \A q \in Proc \ {p} : pc'[q] = pc[q] /\ req'[q] = req[q]
  BY <1>1, <1>2, Zenon DEF ReqTypes, Goto, Reply, Places
<1>9. Sound(p)' /\ NewDir(p)' /\ \A q \in Proc \ {p} : Alone(p, q)' /\ Alone(q, p)'
  BY <1>1, <1>2, <1>3, <1>5, <1>8, Zenon DEF Sound, NewDir, Alone, Adding, Requests
<1>10. Requests'
  <2>1. \A i \in DOMAIN inodes' \ {c} : i < nextIno => i \in DOMAIN inodes /\ inodes'[i] = inodes[i]
    BY <1>5, Zenon
  <2>2. c \in DOMAIN inodes' /\ c < nextIno => c \in DOMAIN inodes /\ inodes'[c].type = inodes[c].type
    BY <1>5
  <2>3. \A q \in Proc \ {p} : /\ pc'[q] = pc[q] /\ req'[q] = req[q]
                              /\ pc[q] \in Adding /\ req[q].type = "Directory" => req[q].ino # c
    BY <1>1, <1>2, <1>8 DEF Requests, Alone
  <2>4. nextIno \in Nat /\ nextIno' \in Nat /\ nextIno <= nextIno' /\ DOMAIN inodes' \subseteq Nat
    BY <1>1, <1>2, <1>5 DEF Recorded
  <2>. HIDE DEF c
  <2>. QED
    BY <1>1, <1>9, <2>1, <2>2, <2>3, <2>4, RequestsKept, Zenon
<1>11. Locks'
  <2>. DEFINE S == req[p].locks
  <2>1. \A q \in Proc \ {p} : /\ pc'[q] = pc[q] /\ req'[q] = req[q]
                              /\ serialised => req[q].locks \cap S = {}
    BY <1>1, <1>8 DEF Locks
  <2>2. \A x \in Dirs \ {d} : x \in DOMAIN dirIndex' /\ dirIndex'[x] = dirIndex[x]
    BY <1>2, Zenon DEF BindIn, Dirs
  <2>3. Holds(p)' /\ Found(p)' /\ req'[p].locks \subseteq S
    BY <1>8 DEF Holds, Found, Adding, NoReq
  <2>4. serialised => d \in S
    BY <1>1, <1>2 DEF Locks, Holds
  <2>. HIDE DEF S, d
  <2>5. CASE serialised
    <3>1. \A x \in Dirs \ S : x \in DOMAIN dirIndex' /\ dirIndex'[x] = dirIndex[x]
      BY <2>2, <2>4, <2>5
    <3>. QED
      BY <1>1, <2>1, <2>3, <3>1, LocksKept, Zenon
  <2>6. CASE ~serialised
    BY <2>6, Zenon DEF Locks
  <2>. QED
    BY <2>5, <2>6
<1>. QED
  BY <1>6, <1>7, <1>8, <1>10, <1>11, Zenon DEF NsInv, IndexInv

\* What DropLink does to the index when one entry of c has been removed.
LEMMA DropIndex ==
    ASSUME NEW dirs, NEW c \in DOMAIN inodes, Books(dirs, inodes, {c}), Recorded,
           c \in DOMAIN dirs => DOMAIN dirs[c] = {}, DropLink(c, dirs), UNCHANGED nextIno
    PROVE  /\ IndexInv'
           /\ \A i \in DOMAIN inodes' \ {c} : i \in DOMAIN inodes /\ inodes'[i] = inodes[i]
           /\ c \in DOMAIN inodes' => inodes'[c].type = inodes[c].type
           /\ \A d \in DOMAIN dirs \ {c} : d \in DOMAIN dirIndex' /\ dirIndex'[d] = dirs[d]
           /\ Cardinality(LinksIn(dirs, c)) = 0 => DOMAIN inodes' = DOMAIN inodes \ {c}
           /\ DOMAIN inodes' \subseteq DOMAIN inodes
<1>1. /\ Nodes(inodes) /\ Counted(dirs, inodes, {c}) /\ Self(inodes, c) = FreeThreshold(c)
      /\ inodes[c] \in [type : Types, nlink : Nat]
  BY Zenon DEF Books, Whole, Self, FreeThreshold, IsDir, Nodes
<1>2. /\ Cardinality(LinksIn(dirs, c)) \in Nat /\ Self(inodes, c) \in 0..1
      /\ inodes[c].nlink = Cardinality(LinksIn(dirs, c)) + Self(inodes, c) + 1
  BY <1>1, OneMore, Zenon
<1>3. CASE inodes[c].nlink - 1 <= FreeThreshold(c)
  <2>1. /\ inodes' = Delete(inodes, c) /\ dirIndex' = Delete(dirs, c)
        /\ extents' = extents \ {c} /\ symlinks' = symlinks \ {c} /\ xattrs' = Delete(xattrs, c)
    BY <1>3, Zenon DEF DropLink
  <2>2. Books(dirIndex', inodes', {})
    BY <1>1, <1>3, <2>1, DropBooks, Zenon
  <2>3. /\ DOMAIN inodes' = DOMAIN inodes \ {c} /\ DOMAIN xattrs' = DOMAIN xattrs \ {c}
        /\ \A i \in DOMAIN inodes' : inodes'[i] = inodes[i]
        /\ \A d \in DOMAIN dirs \ {c} : d \in DOMAIN dirIndex' /\ dirIndex'[d] = dirs[d]
    BY <2>1 DEF Delete, Restrict
  <2>4. Recorded'
    BY <2>1, <2>3 DEF Recorded
  <2>. QED
    BY <2>2, <2>3, <2>4 DEF IndexInv
<1>4. CASE ~(inodes[c].nlink - 1 <= FreeThreshold(c))
  <2>. DEFINE k == inodes[c].nlink - 1
              X == {c}
              Y == {}
  <2>1. /\ inodes' = [inodes EXCEPT ![c].nlink = k] /\ dirIndex' = dirs
        /\ UNCHANGED <<extents, symlinks, xattrs>>
    BY <1>4, Zenon DEF DropLink
  <2>2. /\ k \in Nat /\ (inodes[c].type = "Directory" => k <= 2)
        /\ k - (IF c \in Y THEN 1 ELSE 0) = inodes[c].nlink - (IF c \in X THEN 1 ELSE 0)
        /\ \A i \in DOMAIN inodes \ {c} : i \in X <=> i \in Y
    BY <1>1, <1>2 DEF Nodes
  <2>3. /\ DOMAIN inodes' = DOMAIN inodes /\ inodes'[c].type = inodes[c].type
        /\ \A i \in DOMAIN inodes \ {c} : inodes'[i] = inodes[i]
    BY <1>1, <2>1
  <2>4. Books(dirs, inodes, X)
    OBVIOUS
  <2>5. Cardinality(LinksIn(dirs, c)) # 0
    BY <1>1, <1>2, <1>4
  <2>. HIDE DEF k, X, Y
  <2>6. Books(dirs, [inodes EXCEPT ![c].nlink = k], Y)
    BY <2>2, <2>4, RecountBooks
  <2>7. Books(dirIndex', inodes', {})
    BY <2>1, <2>6 DEF Y
  <2>8. Recorded'
    BY <2>1, <2>3 DEF Recorded
  <2>. QED
    BY <2>1, <2>3, <2>5, <2>7, <2>8 DEF IndexInv
<1>. QED
  BY <1>3, <1>4, Zenon

\* An inode with an entry is not the new directory of another request.
LEMMA LinkedNotNew ==
    ASSUME NsInv, NEW d \in Dirs, NEW n \in DOMAIN dirIndex[d], NEW q \in Proc,
           pc[q] \in Adding, req[q].type = "Directory"
    PROVE  req[q].ino # Child(d, n)
<1>. SUFFICES ASSUME req[q].ino = Child(d, n) PROVE FALSE
  BY Zenon
<1>. DEFINE c == req[q].ino
<1>1. c \in DOMAIN inodes /\ Counted(dirIndex, inodes, {})
  BY IndexFacts, Zenon DEF NsInv
<1>2. inodes[c].type = "Directory" /\ inodes[c].nlink = 1
  BY <1>1 DEF NsInv, Requests, Sound, NewDir, Adding
<1>3. <<d, n>> \in LinksIn(dirIndex, c)
  BY LinksIff DEF Child, Dirs
<1>. HIDE DEF c
<1>4. /\ Cardinality(LinksIn(dirIndex, c)) \in Nat
      /\ inodes[c].nlink = Cardinality(LinksIn(dirIndex, c)) + Self(inodes, c) + 0
      /\ Cardinality(LinksIn(dirIndex, c)) = 0 => LinksIn(dirIndex, c) = {}
  <2>. DEFINE X == {}
  <2>1. Counted(dirIndex, inodes, X) /\ c \notin X
    BY <1>1, Zenon
  <2>. HIDE DEF X
  <2>. QED
    BY <1>1, <2>1, CountSet
<1>. QED
  BY <1>2, <1>3, <1>4 DEF Self

\* RemoveDirEntry keeps the index, frees nothing but the inode of the entry
\* and frees a directory always.
LEMMA RemoveIndex ==
    ASSUME NsInv, NEW d, NEW n, RemoveDirEntry(d, n)
    PROVE  /\ d \in Dirs /\ n \in DOMAIN dirIndex[d] /\ Child(d, n) \in DOMAIN inodes
           /\ IndexInv'
           /\ \A i \in DOMAIN inodes' \ {Child(d, n)} : i \in DOMAIN inodes /\ inodes'[i] = inodes[i]
           /\ Child(d, n) \in DOMAIN inodes' => inodes'[Child(d, n)].type = inodes[Child(d, n)].type
           /\ \A x \in Dirs \ {d, Child(d, n)} : x \in DOMAIN dirIndex' /\ dirIndex'[x] = dirIndex[x]
           /\ DOMAIN inodes' \subseteq DOMAIN inodes /\ UNCHANGED nextIno
           /\ IsDir(Child(d, n)) => DOMAIN inodes' = DOMAIN inodes \ {Child(d, n)}
<1>. DEFINE c == Child(d, n)
            dirs == UnbindIn(dirIndex, d, n)
<1>1. /\ d \in Dirs /\ n \in DOMAIN dirIndex[d] /\ ~NotEmpty(c) /\ DropLink(c, dirs) /\ UNCHANGED nextIno
  BY Zenon DEF RemoveDirEntry, Without, UnbindIn
<1>2. /\ Books(dirIndex, inodes, {}) /\ Recorded /\ c \in DOMAIN inodes
      /\ Tree(dirIndex) /\ Dirs = {i \in DOMAIN inodes : IsDir(i)} /\ Nodes(inodes)
  BY <1>1, IndexFacts DEF NsInv, IndexInv
<1>3. Books(dirs, inodes, {c})
  <2>1. Books(dirs, inodes, {} \cup {c})
    BY <1>1, <1>2, UnbindBooks, Zenon DEF Dirs, Child
  <2>. QED
    BY <2>1, Zenon
<1>4. DOMAIN dirs = Dirs /\ \A x \in Dirs \ {d} : dirs[x] = dirIndex[x]
  BY <1>1, <1>2, UnbindFacts DEF Dirs
<1>5. c \in DOMAIN dirs => DOMAIN dirs[c] = {}
  <2>. SUFFICES ASSUME c \in Dirs PROVE DOMAIN dirs[c] = {}
    BY <1>4, Zenon
  <2>1. dirIndex[c] = <<>>
    BY <1>1, <1>2 DEF NotEmpty
  <2>2. DOMAIN dirIndex[c] = {}
    BY <2>1
  <2>3. c # d
    BY <1>1, <2>2, Zenon
  <2>. QED
    BY <1>4, <2>2, <2>3
<1>6. IsDir(c) => Cardinality(LinksIn(dirs, c)) = 0
  <2>1. /\ Cardinality(LinksIn(dirs, c)) \in Nat
        /\ inodes[c].nlink = Cardinality(LinksIn(dirs, c)) + Self(inodes, c) + 1
    <3>1. Counted(dirs, inodes, {c}) /\ c \in DOMAIN inodes /\ c \in {c}
      BY <1>2, <1>3, Zenon DEF Books
    <3>. HIDE DEF c, dirs
    <3>. QED
      BY <3>1, CountSet
  <2>2. IsDir(c) => Self(inodes, c) = 1 /\ inodes[c].nlink <= 2
    BY <1>2 DEF IsDir, Self, Nodes
  <2>. QED
    BY <2>1, <2>2
<1>. HIDE DEF c, dirs
<1>7. /\ IndexInv'
      /\ \A i \in DOMAIN inodes' \ {c} : i \in DOMAIN inodes /\ inodes'[i] = inodes[i]
      /\ c \in DOMAIN inodes' => inodes'[c].type = inodes[c].type
      /\ \A x \in DOMAIN dirs \ {c} : x \in DOMAIN dirIndex' /\ dirIndex'[x] = dirs[x]
      /\ Cardinality(LinksIn(dirs, c)) = 0 => DOMAIN inodes' = DOMAIN inodes \ {c}
      /\ DOMAIN inodes' \subseteq DOMAIN inodes
  BY <1>1, <1>2, <1>3, <1>5, DropIndex, Zenon
<1>8. \A x \in Dirs \ {d, c} : x \in DOMAIN dirIndex' /\ dirIndex'[x] = dirIndex[x]
  BY <1>4, <1>7, Zenon
<1>. QED
  BY <1>1, <1>2, <1>6, <1>7, <1>8, Zenon DEF c

\* A step that removes entries within S, and of inodes at most c, keeps what
\* the other requests rely on.
LEMMA DropInv ==
    ASSUME NsInv, NEW p \in Proc, NEW c, NEW S, IndexInv', UNCHANGED <<nextIno, serialised>>,
           \A i \in DOMAIN inodes' \ {c} : i \in DOMAIN inodes /\ inodes'[i] = inodes[i],
           c \in DOMAIN inodes' => c \in DOMAIN inodes /\ inodes'[c].type = inodes[c].type,
           \A q \in Proc : pc[q] \in Adding /\ req[q].type = "Directory" => req[q].ino # c,
           Reply(p) \/ (pc[p] = "idle" /\ UNCHANGED <<pc, req>>),
           serialised => \A q \in Proc \ {p} : req[q].locks \cap S = {},
           \A x \in Dirs \ S : x \in DOMAIN dirIndex' /\ dirIndex'[x] = dirIndex[x]
    PROVE  NsInv'
<1>1. IndexInv /\ ReqTypes /\ Requests /\ Locks /\ nextIno \in Nat
  BY Zenon DEF NsInv, IndexInv, Recorded
<1>2. /\ ReqTypes' /\ pc'[p] = "idle" /\ req'[p] = NoReq
      /\ \A q \in Proc \ {p} : pc'[q] = pc[q] /\ req'[q] = req[q]
  BY <1>1, Zenon DEF ReqTypes, Reply, Goto, Places, Requests, Sound
<1>3. Sound(p)' /\ NewDir(p)' /\ \A q \in Proc \ {p} : Alone(p, q)' /\ Alone(q, p)'
  BY <1>2 DEF Sound, NewDir, Alone, Adding
<1>4. Requests'
  <2>1. DOMAIN inodes' \subseteq Nat
    <3>1. DOMAIN inodes \subseteq Nat
      BY <1>1, IndexFacts, Zenon
    <3>. QED
      BY <3>1
  <2>2. nextIno' \in Nat /\ nextIno <= nextIno'
    BY <1>1
  <2>3. \A q \in Proc \ {p} : /\ pc'[q] = pc[q] /\ req'[q] = req[q]
                              /\ pc[q] \in Adding /\ req[q].type = "Directory" => req[q].ino # c
    BY <1>2
  <2>. QED
    BY <1>1, <1>3, <2>1, <2>2, <2>3, RequestsKept, Zenon
<1>5. Locks'
  <2>1. \A q \in Proc \ {p} : /\ pc'[q] = pc[q] /\ req'[q] = req[q]
                              /\ serialised => req[q].locks \cap S = {}
    BY <1>2, Zenon
  <2>2. Holds(p)' /\ Found(p)' /\ req'[p].locks \subseteq S
    BY <1>2 DEF Holds, Found, Adding, NoReq
  <2>. QED
    BY <1>1, <2>1, <2>2, LocksKept, Zenon
<1>. QED
  BY <1>2, <1>4, <1>5, Zenon DEF NsInv

\* Unlink keeps the invariant.
LEMMA UnlinkInv ==
    ASSUME NsInv, NEW p \in Proc, NEW d \in Ino, NEW n \in Name, Unlink(p, d, n), UNCHANGED serialised
    PROVE  NsInv'
<1>. DEFINE c == Child(d, n)
<1>1. /\ pc[p] = "idle" /\ Lock(p, {d, c}) /\ RemoveDirEntry(d, n) /\ UNCHANGED <<pc, req>>
  BY DEF Unlink
<1>2. /\ d \in Dirs /\ n \in DOMAIN dirIndex[d] /\ c \in DOMAIN inodes /\ IndexInv'
      /\ \A i \in DOMAIN inodes' \ {c} : i \in DOMAIN inodes /\ inodes'[i] = inodes[i]
      /\ c \in DOMAIN inodes' => inodes'[c].type = inodes[c].type
      /\ \A x \in Dirs \ {d, c} : x \in DOMAIN dirIndex' /\ dirIndex'[x] = dirIndex[x]
      /\ UNCHANGED nextIno
  BY <1>1, RemoveIndex, Zenon
<1>3. \A q \in Proc : pc[q] \in Adding /\ req[q].type = "Directory" => req[q].ino # c
  BY <1>2, LinkedNotNew, Zenon
<1>. HIDE DEF c
<1>4. serialised => \A q \in Proc \ {p} : req[q].locks \cap {d, c} = {}
  BY <1>1 DEF Lock
<1>. QED
  BY <1>1, <1>2, <1>3, <1>4, DropInv, Zenon

\* So does Rmdir, and with the locks of the VFS it frees the directory its
\* lookup found and nothing else.
LEMMA RmdirInv ==
    ASSUME NsInv, NEW p \in Proc, Rmdir(p), UNCHANGED serialised
    PROVE  /\ NsInv'
           /\ serialised => /\ DOMAIN inodes \ DOMAIN inodes' = {req[p].ino}
                            /\ IsDir(req[p].ino)
<1>. DEFINE d == req[p].dir
            n == req[p].name
            c == Child(d, n)
            S == IF serialised THEN req[p].locks ELSE {d, c}
<1>1. pc[p] = "rmdir" /\ Reply(p) /\ RemoveDirEntry(d, n)
  BY DEF Rmdir
<1>. HIDE DEF d, n
<1>2. /\ d \in Dirs /\ n \in DOMAIN dirIndex[d] /\ c \in DOMAIN inodes /\ IndexInv'
      /\ \A i \in DOMAIN inodes' \ {c} : i \in DOMAIN inodes /\ inodes'[i] = inodes[i]
      /\ c \in DOMAIN inodes' => inodes'[c].type = inodes[c].type
      /\ \A x \in Dirs \ {d, c} : x \in DOMAIN dirIndex' /\ dirIndex'[x] = dirIndex[x]
      /\ UNCHANGED nextIno /\ DOMAIN inodes' \subseteq DOMAIN inodes
      /\ IsDir(c) => DOMAIN inodes' = DOMAIN inodes \ {c}
  BY <1>1, RemoveIndex, Zenon
<1>3. \A q \in Proc : pc[q] \in Adding /\ req[q].type = "Directory" => req[q].ino # c
  BY <1>2, LinkedNotNew, Zenon
<1>4. serialised => /\ {d, c} \subseteq req[p].locks /\ c = req[p].ino /\ req[p].type = "Directory"
                    /\ \A q \in Proc \ {p} : req[q].locks \cap req[p].locks = {}
  BY <1>1 DEF NsInv, Locks, Found, d, n
<1>. HIDE DEF c
<1>5. serialised => \A q \in Proc \ {p} : req[q].locks \cap S = {}
  BY <1>4
<1>6. \A x \in Dirs \ S : x \in DOMAIN dirIndex' /\ dirIndex'[x] = dirIndex[x]
  BY <1>2, <1>4
<1>7. NsInv'
  <2>. HIDE DEF S
  <2>. QED
    BY <1>1, <1>2, <1>3, <1>5, <1>6, DropInv, Zenon
<1>8. serialised => IsDir(req[p].ino)
  BY <1>1, <1>2, <1>4 DEF NsInv, Requests, Sound, IsDir
<1>. QED
  BY <1>2, <1>4, <1>7, <1>8

\* An assignment overwrites what a delete before it left.
LEMMA PutDelete == \A h, k, v : Put(Delete(h, k), k, v) = Put(h, k, v)
  BY Zenon DEF Put, Delete, Restrict

\* The directories outside X are as they are in dirIndex.
SameOutside(f, X) == \A x \in Dirs \ X : f[x] = dirIndex[x]

\* The directory map after a rename of d/n to e/m.
MovedIn(d, n, e, m) == BindIn(UnbindIn(dirIndex, d, n), e, m, Child(d, n))

\* A rename keeps the counts, and that of an inode it replaces is one too many.
LEMMA MoveBooks ==
    ASSUME IndexInv, NEW d \in Dirs, NEW n \in DOMAIN dirIndex[d], NEW e \in Dirs, NEW m \in Name,
           m \in DOMAIN dirIndex[e] => Child(e, m) # Child(d, n)
    PROVE  /\ m \notin DOMAIN dirIndex[e] => Books(MovedIn(d, n, e, m), inodes, {})
           /\ m \in DOMAIN dirIndex[e] => Books(MovedIn(d, n, e, m), inodes, {Child(e, m)})
           /\ DOMAIN MovedIn(d, n, e, m) = Dirs
           /\ SameOutside(MovedIn(d, n, e, m), {d, e})
<1>. DEFINE c == Child(d, n)
            moved == MovedIn(d, n, e, m)
            U == UnbindIn(dirIndex, d, n)
<1>1. Books(dirIndex, inodes, {}) /\ Tree(dirIndex) /\ c \in DOMAIN inodes
  BY IndexFacts, Zenon DEF IndexInv
<1>2. Books(U, inodes, {c})
  <2>1. Books(U, inodes, {} \cup {c})
    BY <1>1, UnbindBooks DEF Dirs, Child
  <2>. QED
    BY <2>1
<1>3. /\ Tree(U) /\ DOMAIN U = Dirs
      /\ \A x \in Dirs \ {d} : U[x] = dirIndex[x]
      /\ DOMAIN U[d] = DOMAIN dirIndex[d] \ {n}
      /\ \A k \in DOMAIN dirIndex[d] \ {n} : U[d][k] = dirIndex[d][k]
  BY <1>1, UnbindFacts DEF Dirs
<1>4. moved = BindIn(U, e, m, c)
  BY Zenon DEF MovedIn
<1>. HIDE DEF U
<1>5. DOMAIN moved = Dirs /\ SameOutside(moved, {d, e})
  BY <1>3, <1>4, BindFacts DEF SameOutside
<1>6. CASE m \notin DOMAIN dirIndex[e]
  <2>1. m \notin DOMAIN U[e]
    BY <1>3, <1>6, Zenon
  <2>. HIDE DEF c
  <2>2. Books(BindIn(U, e, m, c), inodes, {c} \ {c})
    BY <1>1, <1>2, <1>3, <2>1, BindBooks
  <2>3. {c} \ {c} = {}
    BY Zenon
  <2>. QED
    BY <1>4, <1>5, <1>6, <2>2, <2>3, Zenon
<1>7. CASE m \in DOMAIN dirIndex[e]
  <2>. DEFINE t == Child(e, m)
              V == UnbindIn(U, e, m)
  <2>1. t # c /\ m \in DOMAIN U[e] /\ U[e][m] = t
    <3>1. t # c
      BY <1>7
    <3>2. ~(e = d /\ m = n)
      BY <3>1, Zenon
    <3>. QED
      BY <1>3, <1>7, <3>1, <3>2 DEF Child
  <2>. HIDE DEF c, t
  <2>2. Books(V, inodes, {c} \cup {t})
    BY <1>2, <1>3, <2>1, UnbindBooks
  <2>3. /\ DOMAIN V = Dirs /\ DOMAIN V[e] = DOMAIN U[e] \ {m}
    BY <1>3, UnbindFacts
  <2>4. BindIn(V, e, m, c) = BindIn(U, e, m, c)
    <3>1. Put(V[e], m, c) = Put(U[e], m, c)
      BY <1>3, PutDelete DEF UnbindIn
    <3>2. BindIn(V, e, m, c) = [U EXCEPT ![e] = Put(V[e], m, c)]
      BY <1>3, Zenon DEF BindIn, UnbindIn
    <3>. QED
      BY <3>1, <3>2 DEF BindIn
  <2>. HIDE DEF V
  <2>5. Books(BindIn(V, e, m, c), inodes, ({c} \cup {t}) \ {c})
    <3>. DEFINE X == {c} \cup {t}
    <3>1. Books(V, inodes, X) /\ c \in X
      BY <2>2
    <3>. HIDE DEF X
    <3>2. m \in Name \ DOMAIN V[e]
      BY <2>3, Zenon
    <3>3. Books(BindIn(V, e, m, c), inodes, X \ {c})
      BY <1>1, <2>3, <3>1, <3>2, BindBooks
    <3>. QED
      BY <3>3 DEF X
  <2>6. ({c} \cup {t}) \ {c} = {t}
    BY <2>1
  <2>. QED
    BY <1>4, <1>5, <1>7, <2>4, <2>5, <2>6, Zenon DEF t
<1>. QED
  BY <1>6, <1>7

\* Rename keeps the invariant, with and without an entry in the way.
LEMMA RenameInv ==
    ASSUME NsInv, NEW p \in Proc, NEW d \in Ino, NEW n \in Name, NEW e \in Ino, NEW m \in Name,
           Rename(p, d, n, e, m), UNCHANGED serialised
    PROVE  NsInv'
<1>. DEFINE c == Child(d, n)
            t == Child(e, m)
            S == RenameLocks(d, n, e, m)
            moved == MovedIn(d, n, e, m)
<1>1. /\ pc[p] = "idle" /\ d \in Dirs /\ e \in Dirs /\ n \in DOMAIN dirIndex[d] /\ Lock(p, S)
      /\ m \in DOMAIN dirIndex[e] => t # c
      /\ IF m \notin DOMAIN dirIndex[e]
         THEN dirIndex' = moved /\ UNCHANGED <<inodes, extents, symlinks, xattrs>>
         ELSE ~NotEmpty(t) /\ DropLink(t, moved)
      /\ UNCHANGED <<nextIno, pc, req>>
  BY DEF Rename, RenameLegal, Parents, Without, MovedIn, BindIn, UnbindIn
<1>2. /\ IndexInv /\ Recorded /\ c \in DOMAIN inodes /\ Dirs = {i \in DOMAIN inodes : IsDir(i)}
  BY <1>1, IndexFacts, Zenon DEF NsInv, IndexInv
<1>3. /\ m \notin DOMAIN dirIndex[e] => Books(moved, inodes, {})
      /\ m \in DOMAIN dirIndex[e] => Books(moved, inodes, {t})
      /\ DOMAIN moved = Dirs /\ SameOutside(moved, {d, e})
  <2>1. /\ IndexInv /\ d \in Dirs /\ n \in DOMAIN dirIndex[d] /\ e \in Dirs
        /\ m \in DOMAIN dirIndex[e] => Child(e, m) # Child(d, n)
    BY <1>1, <1>2, Zenon
  <2>2. DOMAIN moved = Dirs
    BY <2>1, MoveBooks, Zenon
  <2>3. SameOutside(moved, {d, e})
    BY <2>1, MoveBooks, Zenon
  <2>4. m \notin DOMAIN dirIndex[e] => Books(moved, inodes, {})
    BY <2>1, MoveBooks, Zenon
  <2>5. m \in DOMAIN dirIndex[e] => Books(moved, inodes, {t})
    BY <2>1, MoveBooks, Zenon
  <2>. QED
    BY <2>2, <2>3, <2>4, <2>5, Zenon
<1>4. {d, e, c} \subseteq S /\ (m \in DOMAIN dirIndex[e] => t \in S)
  BY DEF RenameLocks
<1>5. serialised => \A q \in Proc \ {p} : req[q].locks \cap S = {}
  BY <1>1, Zenon DEF Lock
<1>6. CASE m \notin DOMAIN dirIndex[e]
  <2>1. dirIndex' = moved /\ UNCHANGED <<inodes, extents, symlinks, xattrs>>
    BY <1>1, <1>6
  <2>2. IndexInv'
    BY <1>1, <1>2, <1>3, <1>6, <2>1, Zenon DEF IndexInv, Recorded
  <2>3. \A q \in Proc : pc[q] \in Adding /\ req[q].type = "Directory" => req[q].ino # c
    BY <1>1, LinkedNotNew, Zenon
  <2>4. \A x \in Dirs \ S : x \in DOMAIN dirIndex' /\ dirIndex'[x] = dirIndex[x]
    BY <1>3, <1>4, <2>1, Zenon DEF SameOutside
  <2>5. /\ \A i \in DOMAIN inodes' \ {c} : i \in DOMAIN inodes /\ inodes'[i] = inodes[i]
        /\ c \in DOMAIN inodes' => c \in DOMAIN inodes /\ inodes'[c].type = inodes[c].type
    BY <2>1
  <2>. HIDE DEF c, S, moved
  <2>. QED
    BY <1>1, <1>5, <2>2, <2>3, <2>4, <2>5, DropInv, Zenon
<1>7. CASE m \in DOMAIN dirIndex[e]
  <2>1. ~NotEmpty(t) /\ DropLink(t, moved) /\ Books(moved, inodes, {t}) /\ t \in DOMAIN inodes
    BY <1>1, <1>2, <1>3, <1>7, IndexFacts, Zenon
  <2>2. t \in DOMAIN moved => DOMAIN moved[t] = {}
    <3>. SUFFICES ASSUME t \in Dirs PROVE DOMAIN moved[t] = {}
      BY <1>3, Zenon
    <3>1. dirIndex[t] = <<>>
      BY <1>2, <2>1 DEF NotEmpty
    <3>2. DOMAIN dirIndex[t] = {}
      BY <3>1
    <3>3. t # d /\ t # e
      BY <1>1, <1>7, <3>2
    <3>. QED
      BY <1>3, <3>2, <3>3, Zenon DEF SameOutside
  <2>3. \A q \in Proc : pc[q] \in Adding /\ req[q].type = "Directory" => req[q].ino # t
    BY <1>1, <1>7, LinkedNotNew, Zenon
  <2>. HIDE DEF t, S, moved
  <2>4. /\ IndexInv'
        /\ \A i \in DOMAIN inodes' \ {t} : i \in DOMAIN inodes /\ inodes'[i] = inodes[i]
        /\ t \in DOMAIN inodes' => inodes'[t].type = inodes[t].type
        /\ \A x \in DOMAIN moved \ {t} : x \in DOMAIN dirIndex' /\ dirIndex'[x] = moved[x]
    BY <1>1, <1>2, <2>1, <2>2, DropIndex, Zenon
  <2>5. \A x \in Dirs \ S : x \in DOMAIN dirIndex' /\ dirIndex'[x] = dirIndex[x]
    BY <1>3, <1>4, <1>7, <2>4, Zenon DEF SameOutside
  <2>. QED
    BY <1>1, <1>5, <2>1, <2>3, <2>4, <2>5, DropInv, Zenon
<1>. QED
  BY <1>6, <1>7, Zenon

-----------------------------------------------------------------------------
(* Snapshots *)

\* FromSnapshot rebuilds the directory map that Snapshot flattened.
LEMMA RoundTrip == ASSUME IndexInv PROVE SnapshotRoundTrip
<1>. DEFINE names(d) == {e.name : e \in {x \in DirEntries : x.parent = d}}
            child(d, n) == (CHOOSE e \in DirEntries : e.parent = d /\ e.name = n).child
            dirs == {e.parent : e \in DirEntries} \cup {i \in DOMAIN inodes : inodes[i].type = "Directory"}
<1>1. /\ \A e \in DirEntries : /\ e.parent \in Dirs /\ e.name \in DOMAIN dirIndex[e.parent]
                               /\ e.child = dirIndex[e.parent][e.name]
      /\ \A d \in Dirs : \A n \in DOMAIN dirIndex[d] :
            \E e \in DirEntries : e.parent = d /\ e.name = n
  <2>1. \A e \in Entries : /\ e[1] \in Dirs /\ e[2] \in DOMAIN dirIndex[e[1]]
    BY DEF Entries
  <2>2. \A d \in Dirs : \A n \in DOMAIN dirIndex[d] : <<d, n>> \in Entries
    BY DEF Entries
  <2>3. \A d \in Dirs : \A n \in DOMAIN dirIndex[d] :
            [parent |-> d, name |-> n, child |-> Child(d, n)] \in DirEntries
    <3>. SUFFICES ASSUME NEW d \in Dirs, NEW n \in DOMAIN dirIndex[d]
                  PROVE  [parent |-> d, name |-> n, child |-> Child(d, n)] \in DirEntries
      OBVIOUS
    <3>. DEFINE e == <<d, n>>
    <3>1. e \in Entries /\ e[1] = d /\ e[2] = n
      BY <2>2
    <3>. HIDE DEF e
    <3>. QED
      BY <3>1, Zenon DEF DirEntries
  <2>4. \A e \in DirEntries : /\ e.parent \in Dirs /\ e.name \in DOMAIN dirIndex[e.parent]
                              /\ e.child = dirIndex[e.parent][e.name]
    BY <2>1 DEF DirEntries, Child
  <2>. QED
    BY <2>3, <2>4, Zenon
<1>2. dirs = Dirs
  <2>1. Dirs = {i \in DOMAIN inodes : inodes[i].type = "Directory"}
    BY IndexFacts DEF IsDir
  <2>. QED
    BY <1>1, <2>1
<1>3. ASSUME NEW d \in Dirs PROVE [n \in names(d) |-> child(d, n)] = dirIndex[d]
  <2>1. names(d) = DOMAIN dirIndex[d]
    BY <1>1
  <2>2. ASSUME NEW n \in DOMAIN dirIndex[d] PROVE child(d, n) = dirIndex[d][n]
    BY <1>1
  <2>3. dirIndex[d] = [n \in DOMAIN dirIndex[d] |-> dirIndex[d][n]]
    BY IndexFacts, Zenon DEF Tree, IsMap, Dirs
  <2>. HIDE DEF names, child
  <2>. QED
    BY <2>1, <2>2, <2>3
<1>4. dirIndex = [d \in Dirs |-> dirIndex[d]]
  BY IndexFacts, Zenon DEF Tree, IsMap, Dirs
<1>5. Rebuilt(DirEntries, inodes) = [d \in dirs |-> [n \in names(d) |-> child(d, n)]]
  BY Zenon DEF Rebuilt
<1>. HIDE DEF dirs, names, child
<1>. QED
  BY <1>2, <1>3, <1>4, <1>5 DEF SnapshotRoundTrip

-----------------------------------------------------------------------------
(* Every step *)

\* The first steps of Link, Rmdir and Lookup.
LEMMA AskSteps ==
    ASSUME NsInv, NEW p \in Proc, NEW d \in Ino, NEW n \in Name, NEW t \in Ino,
           Link(p, d, n, t) \/ RmdirLookup(p, d, n) \/ Lookup(p, d, n), UNCHANGED serialised
    PROVE  NsInv'
<1>. DEFINE c == Child(d, n)
<1>1. /\ DOMAIN inodes \subseteq Ino
      /\ \A x \in Dirs : \A k \in DOMAIN dirIndex[x] : Child(x, k) \in DOMAIN inodes
      /\ \A i \in DOMAIN inodes : inodes[i].type \in Types
      /\ ReqTypes
  BY IndexFacts, Zenon DEF NsInv
<1>2. CASE Link(p, d, n, t)
  <2>. DEFINE r == Request(d, n, t, {d, t})
  <2>1. /\ pc[p] = "idle" /\ t \in DOMAIN inodes /\ ~IsDir(t) /\ Lock(p, {d, t})
        /\ Goto(p, "add") /\ req' = [req EXCEPT ![p] = r] /\ UNCHANGED index
    BY <1>2, Zenon DEF Link
  <2>2. /\ r \in Asked /\ r.ino = t /\ r.type = inodes[t].type /\ r.locks = {d, t} /\ r.dir = d
    BY <1>1, <2>1 DEF Request, Asked
  <2>. HIDE DEF r
  <2>3. Holds(p)' /\ Found(p)'
    BY <1>1, <2>1, <2>2, Zenon DEF Holds, Found, ReqTypes, Goto
  <2>. QED
    BY <2>1, <2>2, <2>3, AskInv, Zenon DEF IsDir, Places
<1>3. CASE RmdirLookup(p, d, n)
  <2>. DEFINE r == Request(d, n, c, {d, c})
  <2>1. /\ pc[p] = "idle" /\ d \in Dirs /\ n \in DOMAIN dirIndex[d] /\ IsDir(c) /\ Lock(p, {d, c})
        /\ Goto(p, "rmdir") /\ req' = [req EXCEPT ![p] = r] /\ UNCHANGED index
    BY <1>3 DEF RmdirLookup, Parents
  <2>2. /\ r \in Asked /\ r.ino = c /\ r.type = inodes[c].type /\ r.locks = {d, c} /\ r.dir = d
        /\ r.name = n /\ c \in DOMAIN inodes
    BY <1>1, <2>1, Zenon DEF Request, Asked
  <2>. HIDE DEF r
  <2>3. pc'[p] = "rmdir" /\ req'[p] = r /\ dirIndex' = dirIndex
    BY <1>1, <2>1, Zenon DEF ReqTypes, Goto, index
  <2>4. Holds(p)' /\ Found(p)'
    BY <2>1, <2>2, <2>3, Zenon DEF Holds, Found, Adding, IsDir, Dirs, Child
  <2>. HIDE DEF c
  <2>. QED
    BY <2>1, <2>2, <2>4, AskInv, Zenon DEF Adding, Places
<1>4. CASE Lookup(p, d, n)
  <2>. DEFINE r == Request(d, n, c, {})
  <2>1. /\ pc[p] = "idle" /\ d \in Dirs /\ n \in DOMAIN dirIndex[d]
        /\ Goto(p, "getinode") /\ req' = [req EXCEPT ![p] = r] /\ UNCHANGED index
    BY <1>4 DEF Lookup, Parents
  <2>2. /\ r \in Asked /\ r.ino = c /\ r.type = inodes[c].type /\ r.locks = {} /\ c \in DOMAIN inodes
    BY <1>1, <2>1, Zenon DEF Request, Asked
  <2>. HIDE DEF r
  <2>3. Holds(p)' /\ Found(p)' /\ Lock(p, r.locks)
    BY <1>1, <2>1, <2>2, Zenon DEF Holds, Found, ReqTypes, Goto, Adding, Lock
  <2>. HIDE DEF c
  <2>. QED
    BY <2>1, <2>2, <2>3, AskInv, Zenon DEF Adding, Places
<1>. QED
  BY <1>2, <1>3, <1>4

\* The last steps that leave the maps alone.
LEMMA ReplySteps ==
    ASSUME NsInv, NEW p \in Proc, UNCHANGED serialised,
           AddDirEntryError(p) \/ SetSymlink(p) \/ RmdirError(p) \/ LookupGetInode(p)
    PROVE  NsInv'
<1>1. symlinks \subseteq DOMAIN inodes
  BY Zenon DEF NsInv, IndexInv, Recorded
<1>2. /\ Reply(p) /\ symlinks' \subseteq DOMAIN inodes
      /\ UNCHANGED <<inodes, dirIndex, extents, xattrs, nextIno>>
  BY <1>1 DEF AddDirEntryError, SetSymlink, RmdirError, LookupGetInode, index
<1>. QED
  BY <1>2, ReplyInv

\* Requests and locks depend on nothing else.
LEMMA RestKept ==
    ASSUME NsInv, UNCHANGED <<inodes, dirIndex, nextIno, pc, req, serialised>>
    PROVE  ReqTypes' /\ Requests' /\ Locks'
<1>1. ReqTypes'
  BY Zenon DEF NsInv, ReqTypes
<1>2. Requests'
  BY Zenon DEF NsInv, Requests, Sound, NewDir, Alone
<1>3. \A p \in Proc : (Holds(p)' <=> Holds(p)) /\ (Found(p)' <=> Found(p))
  BY Zenon DEF Holds, Found, Child, Dirs
<1>4. Locks'
  BY <1>3, Zenon DEF NsInv, Locks
<1>. QED
  BY <1>1, <1>2, <1>4

\* Attributes are set on inodes that exist.
LEMMA XattrInv ==
    ASSUME NsInv, NEW p \in Proc, XattrNext(p), UNCHANGED serialised
    PROVE  NsInv'
<1>1. /\ UNCHANGED <<inodes, dirIndex, extents, symlinks, nextIno, pc, req, serialised>>
      /\ DOMAIN xattrs' \subseteq DOMAIN inodes
  <2>1. DOMAIN xattrs \subseteq DOMAIN inodes
    BY DEF NsInv, IndexInv, Recorded
  <2>. QED
    BY <2>1 DEF XattrNext, SetXattr, RemoveXattr, Put
<1>2. IndexInv'
  BY <1>1, Zenon DEF NsInv, IndexInv, Recorded
<1>. QED
  BY <1>1, <1>2, RestKept DEF NsInv

\* A remount forgets the requests and brings the same index back.
LEMMA RemountInv == ASSUME NsInv, Remount PROVE NsInv' /\ UNCHANGED index
<1>1. UNCHANGED <<inodes, dirIndex, extents, symlinks, xattrs, nextIno, serialised>>
  BY RoundTrip DEF Remount, SnapshotRoundTrip, NsInv
<1>2. IndexInv'
  BY <1>1, Zenon DEF NsInv, IndexInv, Recorded
<1>3. \A p \in Proc : pc'[p] = "idle" /\ req'[p] = NoReq
  BY DEF Remount
<1>4. ReqTypes'
  BY DEF Remount, ReqTypes, Places
<1>5. Requests'
  BY <1>3 DEF Requests, Sound, NewDir, Alone, Adding
<1>6. Locks'
  BY <1>3 DEF Locks, Holds, Found, Adding, NoReq
<1>. QED
  BY <1>1, <1>2, <1>4, <1>5, <1>6 DEF NsInv, index

\* The empty file system satisfies the invariant.
LEMMA NsInit == ASSUME Init PROVE NsInv
<1>. DEFINE none == [d \in {RootIno} |-> <<>>]
            root == [i \in {RootIno} |-> [type |-> "Directory", nlink |-> 1]]
<1>1. Tree(none) /\ EntriesIn(none) = {}
  BY DEF Tree, IsMap, EntriesIn
<1>2. Nodes(root)
  BY InoAssumption DEF Nodes, IsMap, Types, Ino, RootIno
<1>3. Whole(none, root)
  BY <1>1, <1>2 DEF Whole
<1>4. Counted(none, root, {})
  <2>1. \A i : LinksIn(none, i) = {}
    BY <1>1 DEF LinksIn
  <2>. HIDE DEF none
  <2>. QED
    BY <2>1, FS_EmptySet DEF Counted, Self
<1>5. IndexInv
  <2>. HIDE DEF none, root
  <2>1. Books(dirIndex, inodes, {})
    BY <1>3, <1>4, Zenon DEF Books, Init, none, root
  <2>2. Recorded
    BY InoAssumption DEF Init, Recorded, RootIno, Ino
  <2>. QED
    BY <2>1, <2>2 DEF IndexInv
<1>6. \A p \in Proc : pc[p] = "idle" /\ req[p] = NoReq
  BY DEF Init
<1>7. ReqTypes
  BY DEF Init, ReqTypes, Places
<1>8. Requests
  BY <1>6 DEF Requests, Sound, NewDir, Alone, Adding
<1>9. Locks
  BY <1>6 DEF Locks, Holds, Found, Adding, NoReq
<1>. QED
  BY <1>5, <1>7, <1>8, <1>9, Zenon DEF NsInv

\* The handlers of directory entries keep it.
LEMMA EntryStep == ASSUME NsInv, NEW p \in Proc, EntryNext(p), UNCHANGED serialised PROVE NsInv'
<1>1. ASSUME NEW d \in Ino, NEW n \in Name, Create(p, d, n) \/ Mkdir(p, d, n) \/ Symlink(p, d, n)
      PROVE  NsInv'
  <2>1. "Regular" \in Types /\ "Directory" \in Types /\ "Symlink" \in Types
    BY DEF Types
  <2>2. \E t \in Types : CreateInode(p, d, n, t)
    BY <1>1, <2>1, Zenon DEF Create, Mkdir, Symlink
  <2>. QED
    BY <2>2, CreateInv
<1>2. ASSUME NEW d \in Ino, NEW n \in Name, NEW t \in Ino, Link(p, d, n, t)
      PROVE  NsInv'
  BY <1>2, AskSteps
<1>3. ASSUME NEW d \in Ino, NEW n \in Name, Unlink(p, d, n)
      PROVE  NsInv'
  BY <1>3, UnlinkInv
<1>4. ASSUME NEW d \in Ino, NEW n \in Name, RmdirLookup(p, d, n) \/ Lookup(p, d, n)
      PROVE  NsInv'
  BY <1>4, AskSteps
<1>5. ASSUME NEW d \in Ino, NEW e \in Ino, NEW n \in Name, NEW m \in Name, Rename(p, d, n, e, m)
      PROVE  NsInv'
  BY <1>5, RenameInv
<1>6. CASE AddDirEntry(p)
  BY <1>6, AddInv
<1>7. CASE Rmdir(p)
  BY <1>7, RmdirInv
<1>8. CASE AddDirEntryError(p) \/ SetSymlink(p) \/ RmdirError(p) \/ LookupGetInode(p)
  BY <1>8, ReplySteps
<1>. QED
  BY <1>1, <1>2, <1>3, <1>4, <1>5, <1>6, <1>7, <1>8, Zenon DEF EntryNext

\* Every step keeps it.
LEMMA NsStep == ASSUME NsInv, [Next]_vars PROVE NsInv'
<1>1. CASE (\E p \in Proc : EntryNext(p) \/ XattrNext(p)) /\ UNCHANGED <<serialised, orphans>>
  BY <1>1, EntryStep, XattrInv
<1>2. CASE Remount
  BY <1>2, RemountInv
<1>3. CASE UNCHANGED vars
  <2>1. UNCHANGED <<inodes, dirIndex, extents, symlinks, xattrs, nextIno, pc, req, serialised>>
    BY <1>3 DEF vars, index
  <2>2. IndexInv'
    BY <2>1, Zenon DEF NsInv, IndexInv, Recorded
  <2>. QED
    BY <2>1, <2>2, RestKept DEF NsInv
<1>. QED
  BY <1>1, <1>2, <1>3 DEF Next, Quiet

-----------------------------------------------------------------------------
(* Reachability *)

\* A set of inodes that no entry leads out of, and one that no entry leads to.
Closed(f, S) == \A d \in DOMAIN f \cap S : \A n \in DOMAIN f[d] : f[d][n] \in S
Unnamed(f, i) == \A d \in DOMAIN f : \A n \in DOMAIN f[d] : f[d][n] # i

\* An inode alone: no entry leads to it or from it.
Bare(f, i) == Unnamed(f, i) /\ (i \in DOMAIN f => DOMAIN f[i] = {})

\* Of the inodes I, only those of L cannot be reached from the root.
Reached(f, I, L) ==
    \A S \in SUBSET I : RootIno \in S /\ Closed(f, S) => I \subseteq S \cup L

\* Requests about to add an entry, to a new inode (Create, Mkdir, Symlink) or
\* to the one they have locked (Link).
Pending(p) == pc[p] \in Adding
Fresh(p) == Pending(p) /\ req[p].ino \notin req[p].locks

\* The inodes without a name: what a kill left, and what is new.
Loose == orphans \cup {req[p].ino : p \in {q \in Proc : Fresh(q)}}

\* With the locks of the VFS: AddDirEntry will find its directory and inode
\* and the name free, and connect them.
Ready(p) ==
    Pending(p) =>
        /\ req[p].dir \in Dirs \ Loose /\ req[p].name \notin DOMAIN dirIndex[req[p].dir]
        /\ req[p].ino \in DOMAIN inodes
        /\ IF Fresh(p) THEN req[p].ino \notin orphans ELSE req[p].ino \notin Loose \cup Dirs

\* The parts of the invariant: the root, inodes without a name, requests.
RootOK == RootIno \in Dirs \ Loose /\ Unnamed(dirIndex, RootIno)
LooseOK == \A i \in Loose : i \in DOMAIN inodes /\ Bare(dirIndex, i)
ReadyOK ==
    /\ \A p \in Proc : Ready(p)
    /\ \A p \in Proc : \A q \in Proc \ {p} : Fresh(p) /\ Fresh(q) => req[p].ino # req[q].ino

\* With the locks of the VFS, what is not reached from the root is bare, and a
\* request is about to name it or was killed before it could.
ReachInv == RootOK /\ LooseOK /\ ReadyOK /\ Reached(dirIndex, DOMAIN inodes, Loose)
ReachOK == serialised => ReachInv

\* A file system that is reached but for L is reached but for L and c when an
\* entry of c goes, if c leads nowhere.
LEMMA ReachUnbind ==
    ASSUME NEW f, Tree(f), NEW I, NEW L, NEW d \in DOMAIN f, NEW n \in DOMAIN f[d], f[d][n] \in I,
           f[d][n] \in DOMAIN f => DOMAIN f[f[d][n]] = {}, Reached(f, I, L)
    PROVE  Reached(UnbindIn(f, d, n), I, L \cup {f[d][n]})
<1>. DEFINE g == UnbindIn(f, d, n)
            c == f[d][n]
<1>1. /\ DOMAIN g = DOMAIN f
      /\ \A x \in DOMAIN f \ {d} : g[x] = f[x]
      /\ DOMAIN g[d] = DOMAIN f[d] \ {n}
      /\ \A k \in DOMAIN f[d] \ {n} : g[d][k] = f[d][k]
  BY UnbindFacts
<1>2. c \in I /\ (c \in DOMAIN f => DOMAIN f[c] = {})
  OBVIOUS
<1>3. \A k \in DOMAIN f[d] : k = n => f[d][k] = c
  OBVIOUS
<1>. HIDE DEF g, c
<1>4. ASSUME NEW S \in SUBSET I, RootIno \in S, Closed(g, S)
      PROVE  I \subseteq S \cup (L \cup {c})
  <2>. DEFINE T == S \cup {c}
  <2>1. ASSUME NEW x \in DOMAIN f \cap T, NEW k \in DOMAIN f[x] PROVE f[x][k] \in T
    <3>1. x \in S
      BY <1>2, <2>1, Zenon
    <3>2. CASE x = d /\ k = n
      BY <1>3, <3>2, Zenon
    <3>3. CASE ~(x = d /\ k = n)
      <4>1. x \in DOMAIN g \cap S /\ k \in DOMAIN g[x] /\ g[x][k] = f[x][k]
        BY <1>1, <3>1, <3>3, Zenon
      <4>2. g[x][k] \in S
        BY <1>4, <4>1, Zenon DEF Closed
      <4>. QED
        BY <4>1, <4>2
    <3>. QED
      BY <3>2, <3>3, Zenon
  <2>2. Closed(f, T)
    BY <2>1, Zenon DEF Closed
  <2>3. T \in SUBSET I /\ RootIno \in T
    BY <1>2, <1>4, Zenon
  <2>. HIDE DEF T
  <2>4. I \subseteq T \cup L
    BY <2>2, <2>3, Zenon DEF Reached
  <2>. QED
    BY <2>4, Zenon DEF T
<1>. QED
  BY <1>4, Zenon DEF Reached, g, c

\* The maps after an entry is added to f and after one is taken out of it.
Bound(g, f, d, n, i) ==
    /\ Tree(g) /\ DOMAIN g = DOMAIN f
    /\ \A x \in DOMAIN f \ {d} : g[x] = f[x]
    /\ DOMAIN g[d] = DOMAIN f[d] \cup {n} /\ g[d][n] = i
    /\ \A k \in DOMAIN f[d] \ {n} : g[d][k] = f[d][k]
Unbound(g, f, d, n) ==
    /\ Tree(g) /\ DOMAIN g = DOMAIN f
    /\ \A x \in DOMAIN f \ {d} : g[x] = f[x]
    /\ DOMAIN g[d] = DOMAIN f[d] \ {n}
    /\ \A k \in DOMAIN f[d] \ {n} : g[d][k] = f[d][k]

\* BindIn gives that map.
LEMMA Binding ==
    ASSUME NEW f, Tree(f), NEW d \in DOMAIN f, NEW n \in Name, NEW i
    PROVE  Bound(BindIn(f, d, n, i), f, d, n, i)
  BY BindFacts DEF Bound

\* The same of an entry taken out.
LEMMA Unbinding ==
    ASSUME NEW f, Tree(f), NEW d \in DOMAIN f, NEW n
    PROVE  Unbound(UnbindIn(f, d, n), f, d, n)
  BY UnbindFacts DEF Unbound

\* A directory without entries.
LEMMA NoNames == ASSUME NEW f, f = <<>> PROVE DOMAIN f = {}
  OBVIOUS

\* The entries g after a rename of d/n to e/m, and those before.
Moved(g, d, n, e, m) ==
    /\ DOMAIN g = Dirs /\ m \in DOMAIN g[e] /\ g[e][m] = Child(d, n)
    /\ \A x \in Dirs : \A k \in DOMAIN dirIndex[x] :
           \/ x = d /\ k = n
           \/ x = e /\ k = m
           \/ k \in DOMAIN g[x] /\ g[x][k] = Child(x, k)
    /\ \A x \in Dirs : \A k \in DOMAIN g[x] :
           g[x][k] = Child(d, n) \/ (k \in DOMAIN dirIndex[x] /\ g[x][k] = Child(x, k))

\* MovedIn is that map.
LEMMA MoveEntries ==
    ASSUME IndexInv, NEW d \in Dirs, NEW n \in DOMAIN dirIndex[d], NEW e \in Dirs, NEW m \in Name
    PROVE  Moved(MovedIn(d, n, e, m), d, n, e, m)
<1>. DEFINE c == Child(d, n)
            U == UnbindIn(dirIndex, d, n)
            g == BindIn(U, e, m, c)
<1>1. Tree(dirIndex)
  BY IndexFacts, Zenon
<1>2. /\ Tree(U) /\ DOMAIN U = Dirs
      /\ \A x \in Dirs \ {d} : U[x] = dirIndex[x]
      /\ DOMAIN U[d] = DOMAIN dirIndex[d] \ {n}
      /\ \A k \in DOMAIN dirIndex[d] \ {n} : U[d][k] = dirIndex[d][k]
  <2>1. Unbound(U, dirIndex, d, n)
    BY <1>1, Unbinding, Zenon DEF Dirs
  <2>. HIDE DEF U
  <2>. QED
    BY <2>1, Zenon DEF Unbound, Dirs
<1>. HIDE DEF c, U
<1>3. /\ DOMAIN g = Dirs
      /\ \A x \in Dirs \ {e} : g[x] = U[x]
      /\ DOMAIN g[e] = DOMAIN U[e] \cup {m} /\ g[e][m] = c
      /\ \A k \in DOMAIN U[e] \ {m} : g[e][k] = U[e][k]
  <2>1. Bound(g, U, e, m, c)
    BY <1>2, Binding, Zenon
  <2>. HIDE DEF g
  <2>. QED
    BY <1>2, <2>1, Zenon DEF Bound
<1>. HIDE DEF g
<1>4. \A x \in Dirs : \A k \in DOMAIN dirIndex[x] :
          (x = d /\ k = n) \/ (k \in DOMAIN U[x] /\ U[x][k] = dirIndex[x][k])
  BY <1>2
<1>5. \A x \in Dirs : \A k \in DOMAIN U[x] :
          /\ k \in DOMAIN dirIndex[x] /\ U[x][k] = dirIndex[x][k]
          /\ (x = e /\ k = m) \/ (k \in DOMAIN g[x] /\ g[x][k] = U[x][k])
  BY <1>2, <1>3
<1>6. \A x \in Dirs : \A k \in DOMAIN g[x] : g[x][k] = c \/ (k \in DOMAIN U[x] /\ g[x][k] = U[x][k])
  BY <1>3
<1>7. \A x \in Dirs : \A k \in DOMAIN dirIndex[x] :
          \/ x = d /\ k = n
          \/ x = e /\ k = m
          \/ k \in DOMAIN g[x] /\ g[x][k] = dirIndex[x][k]
  BY <1>4, <1>5
<1>8. \A x \in Dirs : \A k \in DOMAIN g[x] :
          g[x][k] = c \/ (k \in DOMAIN dirIndex[x] /\ g[x][k] = dirIndex[x][k])
  BY <1>5, <1>6
<1>9. MovedIn(d, n, e, m) = g /\ m \in DOMAIN g[e]
  BY <1>3, Zenon DEF MovedIn, c, U, g
<1>10. Moved(g, d, n, e, m)
  BY <1>3, <1>7, <1>8, <1>9, Zenon DEF Moved, Child, c
<1>. QED
  BY <1>9, <1>10, Zenon

\* A rename of d/n to e/m leaves reached what was, apart from W: inodes that
\* lead nowhere and may lose an entry.  Below tells that e is not cut off with
\* what moves.
LEMMA ReachMove ==
    ASSUME IndexInv, NEW d \in Dirs, NEW n \in DOMAIN dirIndex[d], NEW L, NEW e \in Dirs \ L,
           NEW m \in Name, NEW W \in SUBSET DOMAIN inodes,
           m \in DOMAIN dirIndex[e] => Child(e, m) \in W,
           e \notin W, \A x \in W \cap Dirs : DOMAIN dirIndex[x] = {},
           IsDir(Child(d, n)) => ~Below(Child(d, n), e),
           Reached(dirIndex, DOMAIN inodes, L)
    PROVE  Reached(MovedIn(d, n, e, m), DOMAIN inodes, L \cup W)
<1>. DEFINE c == Child(d, n)
            g == MovedIn(d, n, e, m)
<1>1. /\ m \in DOMAIN g[e] /\ g[e][m] = c
      /\ DOMAIN g = Dirs
      /\ \A x \in Dirs : \A k \in DOMAIN dirIndex[x] :
             \/ x = d /\ k = n
             \/ x = e /\ k = m
             \/ k \in DOMAIN g[x] /\ g[x][k] = Child(x, k)
  <2>1. Moved(g, d, n, e, m)
    BY MoveEntries, Zenon
  <2>. HIDE DEF g
  <2>. QED
    BY <2>1, Zenon DEF Moved
<1>2. /\ Dirs = {i \in DOMAIN inodes : IsDir(i)}
      /\ \A x \in Dirs : \A k \in DOMAIN dirIndex[x] : k \in Name /\ Child(x, k) \in DOMAIN inodes
  BY IndexFacts, Zenon
<1>. DEFINE Plain == DOMAIN inodes \ Dirs
<1>3. PICK B \in SUBSET Dirs :
         /\ e \notin B /\ c \in B \cup Plain
         /\ \A x \in B : \A k \in DOMAIN dirIndex[x] : Child(x, k) \in B \cup Plain
  <2>1. CASE IsDir(c)
    <3>1. c \in DOMAIN inodes /\ ~Below(c, e)
      BY <1>2, <2>1, Zenon
    <3>. HIDE DEF c
    <3>2. PICK B \in SUBSET Dirs :
             /\ c \in B /\ e \notin B
             /\ \A x \in B, k \in Name : k \in DOMAIN dirIndex[x] /\ Child(x, k) \in Dirs
                                             => Child(x, k) \in B
      BY <3>1, Zenon DEF Below
    <3>3. \A x \in B : \A k \in DOMAIN dirIndex[x] : Child(x, k) \in B \cup Plain
      BY <1>2, <3>2, Zenon
    <3>. QED
      BY <3>2, <3>3, Zenon
  <2>2. CASE ~IsDir(c)
    <3>1. c \in Plain
      BY <1>2, <2>2, Zenon
    <3>2. {} \in SUBSET Dirs /\ e \notin {} /\ c \in {} \cup Plain
      BY <3>1, Zenon
    <3>. QED
      BY <3>2, Zenon
  <2>. QED
    BY <2>1, <2>2, Zenon
<1>4. \A x \in W : \A k \in DOMAIN dirIndex[x] : x \notin Dirs
  BY Zenon
<1>. HIDE DEF c, g, Plain
<1>5. ASSUME NEW S \in SUBSET DOMAIN inodes, RootIno \in S, Closed(g, S)
      PROVE  DOMAIN inodes \subseteq S \cup (L \cup W)
  <2>1. \A x \in Dirs \cap S : \A k \in DOMAIN dirIndex[x] : Child(x, k) \in S \cup {c} \cup W
    <3>. SUFFICES ASSUME NEW x \in Dirs \cap S, NEW k \in DOMAIN dirIndex[x]
                  PROVE  Child(x, k) \in S \cup {c} \cup W
      OBVIOUS
    <3>1. CASE x = d /\ k = n
      BY <3>1, Zenon DEF c
    <3>2. CASE x = e /\ k = m
      BY <3>2, Zenon
    <3>3. CASE k \in DOMAIN g[x] /\ g[x][k] = Child(x, k)
      <4>1. x \in DOMAIN g \cap S
        BY <1>1, Zenon
      <4>2. g[x][k] \in S
        BY <1>5, <3>3, <4>1, Zenon DEF Closed
      <4>. QED
        BY <3>3, <4>2
    <3>. QED
      BY <1>1, <3>1, <3>2, <3>3, Zenon
  <2>2. e \in S
    <3>. DEFINE T == S \cup B \cup Plain \cup W
    <3>1. ASSUME NEW x \in Dirs \cap T, NEW k \in DOMAIN dirIndex[x] PROVE Child(x, k) \in T
      <4>1. x \notin Plain /\ x \notin W
        BY <1>4, <3>1, Zenon DEF Plain
      <4>2. CASE x \in S
        BY <1>3, <2>1, <4>2, Zenon
      <4>3. CASE x \in B
        BY <1>3, <4>3, Zenon
      <4>. QED
        BY <4>1, <4>2, <4>3, Zenon
    <3>2. Closed(dirIndex, T)
      BY <3>1, Zenon DEF Closed, Child, Dirs
    <3>3. T \in SUBSET DOMAIN inodes /\ RootIno \in T
      BY <1>2, <1>5, Zenon DEF Plain
    <3>. HIDE DEF T
    <3>4. DOMAIN inodes \subseteq T \cup L
      BY <3>2, <3>3, Zenon DEF Reached
    <3>5. e \in DOMAIN inodes /\ e \notin Plain
      BY <1>2, Zenon DEF Plain
    <3>. QED
      BY <1>3, <3>4, <3>5, Zenon DEF T
  <2>3. c \in S
    BY <1>1, <1>5, <2>2, Zenon DEF Closed
  <2>. DEFINE T == S \cup W
  <2>4. ASSUME NEW x \in Dirs \cap T, NEW k \in DOMAIN dirIndex[x] PROVE Child(x, k) \in T
    BY <1>4, <2>1, <2>3, <2>4, Zenon
  <2>5. Closed(dirIndex, T)
    BY <2>4, Zenon DEF Closed, Child, Dirs
  <2>6. T \in SUBSET DOMAIN inodes /\ RootIno \in T
    BY <1>5, Zenon
  <2>. HIDE DEF T
  <2>7. DOMAIN inodes \subseteq T \cup L
    BY <2>5, <2>6, Zenon DEF Reached
  <2>. QED
    BY <2>7, Zenon DEF T
<1>. QED
  BY <1>5, Zenon DEF Reached, g

\* DropLink settles it: c is freed, or another entry of it is reached.
LEMMA ReachDrop ==
    ASSUME NEW dirs, NEW c \in DOMAIN inodes, Books(dirs, inodes, {c}), DropLink(c, dirs),
           c \in DOMAIN dirs => DOMAIN dirs[c] = {}, NEW L, \A x \in L \cap DOMAIN dirs : DOMAIN dirs[x] = {},
           Reached(dirs, DOMAIN inodes, L \cup {c})
    PROVE  Reached(dirIndex', DOMAIN inodes', L)
<1>1. /\ Nodes(inodes) /\ Counted(dirs, inodes, {c}) /\ Self(inodes, c) = FreeThreshold(c)
      /\ DOMAIN dirs \subseteq DOMAIN inodes
  <2>1. Whole(dirs, inodes) /\ Counted(dirs, inodes, {c})
    BY Zenon DEF Books
  <2>2. Self(inodes, c) = FreeThreshold(c)
    BY Zenon DEF Self, FreeThreshold, IsDir
  <2>3. DOMAIN dirs \subseteq DOMAIN inodes /\ Nodes(inodes)
    BY <2>1, Zenon DEF Whole
  <2>. QED
    BY <2>1, <2>2, <2>3
<1>2. /\ Cardinality(LinksIn(dirs, c)) \in Nat
      /\ Cardinality(LinksIn(dirs, c)) = 0 => LinksIn(dirs, c) = {}
      /\ Self(inodes, c) \in 0..1
      /\ inodes[c].nlink = Cardinality(LinksIn(dirs, c)) + Self(inodes, c) + 1
  BY <1>1, OneMore, Zenon
<1>3. CASE inodes[c].nlink - 1 <= FreeThreshold(c)
  <2>. DEFINE links == Cardinality(LinksIn(dirs, c))
              own == FreeThreshold(c)
              count == inodes[c].nlink
  <2>0. links \in Nat /\ own \in 0..1 /\ count = links + own + 1 /\ count - 1 <= own
    BY <1>1, <1>2, <1>3, Zenon
  <2>. HIDE DEF links, own, count
  <2>1. links = 0
    BY ONLY <2>0
  <2>2. \A x \in DOMAIN dirs : \A k \in DOMAIN dirs[x] : dirs[x][k] # c
    <3>1. LinksIn(dirs, c) = {}
      BY <1>2, <2>1, Zenon DEF links
    <3>. QED
      BY <3>1, NoLinks, Zenon
  <2>3. inodes' = Delete(inodes, c) /\ dirIndex' = Delete(dirs, c)
    BY <1>3, Zenon DEF DropLink
  <2>4. /\ DOMAIN inodes' = DOMAIN inodes \ {c} /\ DOMAIN dirIndex' = DOMAIN dirs \ {c}
        /\ \A x \in DOMAIN dirs \ {c} : dirIndex'[x] = dirs[x]
    BY <2>3 DEF Delete, Restrict
  <2>5. ASSUME NEW S \in SUBSET DOMAIN inodes', RootIno \in S, Closed(dirIndex', S)
        PROVE  DOMAIN inodes' \subseteq S \cup L
    <3>1. ASSUME NEW x \in DOMAIN dirs \cap S, NEW k \in DOMAIN dirs[x] PROVE dirs[x][k] \in S
      <4>1. x \in DOMAIN dirIndex' \cap S /\ dirIndex'[x] = dirs[x]
        BY <2>4, <2>5
      <4>. QED
        BY <2>5, <4>1, Zenon DEF Closed
    <3>2. Closed(dirs, S) /\ S \in SUBSET DOMAIN inodes
      BY <2>4, <3>1, Zenon DEF Closed
    <3>3. DOMAIN inodes \subseteq S \cup (L \cup {c})
      BY <2>5, <3>2, Zenon DEF Reached
    <3>. QED
      BY <2>4, <3>3, Zenon
  <2>. QED
    BY <2>5, Zenon DEF Reached
<1>4. CASE ~(inodes[c].nlink - 1 <= FreeThreshold(c))
  <2>1. Cardinality(LinksIn(dirs, c)) # 0
    BY <1>1, <1>2, <1>4
  <2>2. PICK l \in LinksIn(dirs, c) : TRUE
    <3>1. Cardinality({}) = 0
      BY FS_EmptySet, Zenon
    <3>. QED
      BY <2>1, <3>1, Zenon
  <2>. DEFINE x == l[1]
              k == l[2]
  <2>3. x \in DOMAIN dirs /\ k \in DOMAIN dirs[x] /\ dirs[x][k] = c
    BY LinksIff
  <2>. HIDE DEF x, k
  <2>4. x \notin L /\ x # c /\ x \in DOMAIN inodes
    BY <1>1, <2>3, Zenon
  <2>5. dirIndex' = dirs /\ DOMAIN inodes' = DOMAIN inodes
    <3>1. dirIndex' = dirs /\ inodes' = [inodes EXCEPT ![c].nlink = inodes[c].nlink - 1]
      BY <1>4, Zenon DEF DropLink
    <3>. QED
      BY <3>1
  <2>6. ASSUME NEW S \in SUBSET DOMAIN inodes, RootIno \in S, Closed(dirs, S)
        PROVE  DOMAIN inodes \subseteq S \cup L
    <3>1. DOMAIN inodes \subseteq S \cup (L \cup {c})
      BY <2>6, Zenon DEF Reached
    <3>2. x \in S
      BY <2>4, <3>1, Zenon
    <3>3. c \in S
      BY <2>3, <2>6, <3>2, Zenon DEF Closed
    <3>. QED
      BY <3>1, <3>3, Zenon
  <2>7. Reached(dirs, DOMAIN inodes, L)
    BY <2>6, Zenon DEF Reached
  <2>. QED
    BY <2>5, <2>7
<1>. QED
  BY <1>3, <1>4, Zenon

\* A step that changes nothing of what is outside X, none of which another
\* request has locked, gives no new names, and moves a request that is about
\* to add no entry.
LEMMA ReachKept ==
    ASSUME NsInv, serialised, ReachInv, NEW p \in Proc, NEW X, \A i \in X : i \notin Loose,
           ~Pending(p), pc'[p] \notin Adding,
           \A q \in Proc \ {p} : /\ pc'[q] = pc[q] /\ req'[q] = req[q]
                                 /\ \A i \in X : i \notin req[q].locks,
           UNCHANGED orphans, RootIno \in DOMAIN dirIndex', DOMAIN dirIndex' \subseteq Dirs,
           \A x \in Dirs \ X : x \in DOMAIN dirIndex' /\ dirIndex'[x] = dirIndex[x],
           \A i \in DOMAIN inodes \ X : i \in DOMAIN inodes',
           \A i : Unnamed(dirIndex, i) => Unnamed(dirIndex', i),
           Reached(dirIndex', DOMAIN inodes', Loose)
    PROVE  ReachInv'
<1>1. \A q \in Proc : /\ Pending(q)' <=> Pending(q)
                      /\ Fresh(q)' <=> Fresh(q)
                      /\ Pending(q) => q # p /\ req'[q] = req[q]
  BY Zenon DEF Pending, Fresh
<1>2. Loose' = Loose
  <2>1. \A q \in Proc : Fresh(q) => Pending(q)
    BY Zenon DEF Fresh
  <2>2. \A i : i \in Loose' <=> i \in Loose
    BY <1>1, <2>1 DEF Loose
  <2>. QED
    BY <2>2
<1>3. RootOK'
  BY <1>2, Zenon DEF ReachInv, RootOK, Dirs
<1>4. LooseOK'
  <2>. SUFFICES ASSUME NEW i \in Loose PROVE i \in DOMAIN inodes' /\ Bare(dirIndex', i)
    BY <1>2, Zenon DEF LooseOK
  <2>1. i \in DOMAIN inodes /\ Bare(dirIndex, i) /\ i \notin X
    BY Zenon DEF ReachInv, LooseOK
  <2>2. i \in DOMAIN dirIndex' => i \in Dirs /\ DOMAIN dirIndex'[i] = DOMAIN dirIndex[i]
    BY <2>1
  <2>. QED
    BY <2>1, <2>2, Zenon DEF Bare, Dirs
<1>5. ASSUME NEW q \in Proc PROVE Ready(q)'
  <2>. SUFFICES ASSUME Pending(q)
                PROVE  /\ req[q].dir \in DOMAIN dirIndex' /\ req[q].dir \notin Loose
                       /\ req[q].name \notin DOMAIN dirIndex'[req[q].dir]
                       /\ req[q].ino \in DOMAIN inodes'
                       /\ IF Fresh(q) THEN req[q].ino \notin orphans
                                      ELSE req[q].ino \notin Loose /\ req[q].ino \notin DOMAIN dirIndex'
    BY <1>1, <1>2 DEF Ready, Dirs
  <2>1. /\ req[q].dir \in Dirs /\ req[q].dir \notin Loose
        /\ req[q].name \notin DOMAIN dirIndex[req[q].dir]
        /\ req[q].ino \in DOMAIN inodes
        /\ IF Fresh(q) THEN req[q].ino \notin orphans ELSE req[q].ino \notin Loose /\ req[q].ino \notin Dirs
    BY DEF ReachInv, ReadyOK, Ready
  <2>2. q # p /\ req[q].dir \in req[q].locks
    BY <1>1 DEF NsInv, Locks, Holds, Pending
  <2>3. req[q].dir \notin X
    BY <2>2, Zenon
  <2>4. req[q].ino \notin X
    <3>1. CASE Fresh(q)
      <4>1. req[q].ino \in Loose
        BY <3>1 DEF Loose
      <4>. QED
        BY <4>1, Zenon
    <3>2. CASE ~Fresh(q)
      BY <2>2, <3>2, Zenon DEF Fresh
    <3>. QED
      BY <3>1, <3>2
  <2>. QED
    BY <2>1, <2>3, <2>4, Zenon
<1>6. ReadyOK'
  <2>1. \A q \in Proc : Fresh(q) => Pending(q)
    BY Zenon DEF Fresh
  <2>2. ASSUME NEW q \in Proc, NEW r \in Proc \ {q}, Fresh(q), Fresh(r)
        PROVE  req'[q].ino # req'[r].ino
    <3>1. req'[q] = req[q] /\ req'[r] = req[r] /\ req[q].ino # req[r].ino
      BY <1>1, <2>1, <2>2, Zenon DEF ReachInv, ReadyOK
    <3>. QED
      BY <3>1
  <2>. QED
    BY <1>1, <1>5, <2>2, Zenon DEF ReadyOK
<1>. QED
  BY <1>2, <1>3, <1>4, <1>6 DEF ReachInv

\* What has a name, or an entry, is not loose.
LEMMA NamedNotLoose ==
    ASSUME ReachInv
    PROVE  /\ \A i \in Named : i \notin Loose
           /\ \A d \in Dirs : \A n \in DOMAIN dirIndex[d] :
                  Child(d, n) # RootIno /\ Child(d, n) \notin Loose /\ d \notin Loose
           /\ \A i \in Loose \cap Dirs : DOMAIN dirIndex[i] = {}
<1>1. \A d \in Dirs : \A n \in DOMAIN dirIndex[d] :
          Child(d, n) # RootIno /\ Child(d, n) \notin Loose /\ d \notin Loose
  BY Zenon DEF ReachInv, RootOK, LooseOK, Bare, Unnamed, Child, Dirs
<1>2. \A i \in Loose \cap Dirs : DOMAIN dirIndex[i] = {}
  BY Zenon DEF ReachInv, LooseOK, Bare, Dirs
<1>3. \A e \in Entries : e[1] \in Dirs /\ e[2] \in DOMAIN dirIndex[e[1]]
  BY DEF Entries
<1>4. RootIno \notin Loose
  BY DEF ReachInv, RootOK
<1>. QED
  BY <1>1, <1>2, <1>3, <1>4, Zenon DEF Named

\* The maps DropLink leaves.
LEMMA DropMaps ==
    ASSUME NEW dirs, NEW c \in DOMAIN inodes, DropLink(c, dirs)
    PROVE  /\ \A i \in DOMAIN inodes \ {c} : i \in DOMAIN inodes'
           /\ DOMAIN dirIndex' \subseteq DOMAIN dirs
           /\ \A x \in DOMAIN dirs \ {c} : x \in DOMAIN dirIndex'
           /\ \A x \in DOMAIN dirIndex' : dirIndex'[x] = dirs[x]
<1>1. CASE inodes' = Delete(inodes, c) /\ dirIndex' = Delete(dirs, c)
  BY <1>1 DEF Delete, Restrict
<1>2. CASE inodes' = [inodes EXCEPT ![c].nlink = inodes[c].nlink - 1] /\ dirIndex' = dirs
  BY <1>2
<1>. QED
  BY <1>1, <1>2, Zenon DEF DropLink

\* RemoveDirEntry in a step of p, which has d and the inode of the entry locked.
LEMMA RemoveReach ==
    ASSUME NsInv, serialised, ReachInv, NEW p \in Proc, NEW d, NEW n, RemoveDirEntry(d, n),
           ~Pending(p), pc'[p] \notin Adding, UNCHANGED orphans,
           \A q \in Proc \ {p} : /\ pc'[q] = pc[q] /\ req'[q] = req[q]
                                 /\ d \notin req[q].locks /\ Child(d, n) \notin req[q].locks
    PROVE  ReachInv'
<1>. DEFINE c == Child(d, n)
            dirs == UnbindIn(dirIndex, d, n)
            X == {d, c}
<1>1. d \in Dirs /\ n \in DOMAIN dirIndex[d] /\ ~NotEmpty(c) /\ DropLink(c, dirs)
  BY Zenon DEF RemoveDirEntry, Without, UnbindIn
<1>2. /\ Books(dirIndex, inodes, {}) /\ c \in DOMAIN inodes /\ IndexInv
      /\ Tree(dirIndex) /\ Dirs = {i \in DOMAIN inodes : IsDir(i)}
  BY <1>1, IndexFacts, Zenon DEF NsInv, IndexInv
<1>3. Books(dirs, inodes, {c})
  <2>1. Books(dirs, inodes, {} \cup {c})
    BY <1>1, <1>2, UnbindBooks, Zenon DEF Dirs, Child
  <2>. QED
    BY <2>1, Zenon
<1>4. /\ DOMAIN dirs = Dirs /\ \A x \in Dirs \ {d} : dirs[x] = dirIndex[x]
      /\ DOMAIN dirs[d] = DOMAIN dirIndex[d] \ {n}
      /\ \A k \in DOMAIN dirIndex[d] \ {n} : dirs[d][k] = dirIndex[d][k]
  <2>1. Unbound(dirs, dirIndex, d, n)
    BY <1>1, <1>2, Unbinding, Zenon DEF Dirs
  <2>. HIDE DEF dirs
  <2>. QED
    BY <2>1, Zenon DEF Unbound, Dirs
<1>5. c # RootIno /\ c \notin Loose /\ d \notin Loose /\ \A i \in Loose \cap Dirs : DOMAIN dirIndex[i] = {}
  BY <1>1, NamedNotLoose, Zenon
<1>6. c \in Dirs => DOMAIN dirIndex[c] = {} /\ c # d
  <2>. SUFFICES ASSUME c \in Dirs PROVE DOMAIN dirIndex[c] = {}
    BY <1>1, Zenon
  <2>1. dirIndex[c] = <<>>
    BY <1>1, <1>2, Zenon DEF NotEmpty
  <2>. HIDE DEF c
  <2>. QED
    BY <2>1, NoNames, Zenon
<1>7. Reached(dirs, DOMAIN inodes, Loose \cup {c})
  BY <1>1, <1>2, <1>6, ReachUnbind, Zenon DEF ReachInv, Dirs, Child
<1>. HIDE DEF c, dirs
<1>8. /\ c \in DOMAIN dirs => DOMAIN dirs[c] = {}
      /\ \A x \in Loose \cap DOMAIN dirs : DOMAIN dirs[x] = {}
  BY <1>4, <1>5, <1>6
<1>9. Reached(dirIndex', DOMAIN inodes', Loose)
  BY <1>1, <1>2, <1>3, <1>7, <1>8, ReachDrop, Zenon
<1>10. /\ \A i \in DOMAIN inodes \ {c} : i \in DOMAIN inodes'
       /\ DOMAIN dirIndex' \subseteq DOMAIN dirs
       /\ \A x \in DOMAIN dirs \ {c} : x \in DOMAIN dirIndex'
       /\ \A x \in DOMAIN dirIndex' : dirIndex'[x] = dirs[x]
  BY <1>1, <1>2, DropMaps, Zenon
<1>11. ASSUME NEW i, Unnamed(dirIndex, i) PROVE Unnamed(dirIndex', i)
  <2>1. \A x \in Dirs : \A k \in DOMAIN dirs[x] : k \in DOMAIN dirIndex[x] /\ dirs[x][k] = dirIndex[x][k]
    BY <1>4
  <2>2. \A x \in Dirs : \A k \in DOMAIN dirIndex[x] : dirIndex[x][k] # i
    BY <1>11, Zenon DEF Unnamed, Dirs
  <2>3. \A x \in DOMAIN dirIndex' : x \in Dirs /\ dirIndex'[x] = dirs[x]
    BY <1>4, <1>10, Zenon
  <2>4. \A x \in DOMAIN dirIndex' : \A k \in DOMAIN dirIndex'[x] : dirIndex'[x][k] # i
    BY <2>1, <2>2, <2>3
  <2>. QED
    BY <2>4, Zenon DEF Unnamed
<1>12. /\ RootIno \in DOMAIN dirIndex' /\ DOMAIN dirIndex' \subseteq Dirs
       /\ \A x \in Dirs \ X : x \in DOMAIN dirIndex' /\ dirIndex'[x] = dirIndex[x]
       /\ \A i \in DOMAIN inodes \ X : i \in DOMAIN inodes'
       /\ \A i \in X : i \notin Loose
  <2>1. RootIno \in Dirs
    BY Zenon DEF ReachInv, RootOK
  <2>2. RootIno \in DOMAIN dirIndex' /\ DOMAIN dirIndex' \subseteq Dirs
    BY <1>4, <1>5, <1>10, <2>1, Zenon
  <2>3. \A x \in Dirs \ X : x \in DOMAIN dirIndex' /\ dirIndex'[x] = dirIndex[x]
    <3>. TAKE x \in Dirs \ X
    <3>1. x \in DOMAIN dirs \ {c} /\ x \in Dirs \ {d}
      BY <1>4, Zenon
    <3>. QED
      BY <1>4, <1>10, <3>1
  <2>4. \A i \in DOMAIN inodes \ X : i \in DOMAIN inodes'
    BY <1>10, Zenon
  <2>5. \A i \in X : i \notin Loose
    BY <1>5, Zenon
  <2>. QED
    BY <2>2, <2>3, <2>4, <2>5, Zenon
<1>13. \A q \in Proc \ {p} : pc'[q] = pc[q] /\ req'[q] = req[q] /\ \A i \in X : i \notin req[q].locks
  BY Zenon DEF c
<1>. HIDE DEF X
<1>. QED
  BY <1>9, <1>11, <1>12, <1>13, ReachKept, Zenon

\* Rename, with and without an entry in the way.
LEMMA RenameReach ==
    ASSUME NsInv, serialised, ReachInv, NEW p \in Proc,
           NEW d \in Ino, NEW n \in Name, NEW e \in Ino, NEW m \in Name,
           Rename(p, d, n, e, m), UNCHANGED orphans
    PROVE  ReachInv'
<1>. DEFINE c == Child(d, n)
            t == Child(e, m)
            X == RenameLocks(d, n, e, m)
            moved == MovedIn(d, n, e, m)
<1>1. /\ pc[p] = "idle" /\ d \in Dirs /\ e \in Dirs /\ d \in Named /\ e \in Named
      /\ n \in DOMAIN dirIndex[d] /\ Lock(p, X) /\ (IsDir(c) => ~Below(c, e))
      /\ m \in DOMAIN dirIndex[e] => t # c
      /\ IF m \notin DOMAIN dirIndex[e]
         THEN dirIndex' = moved /\ UNCHANGED <<inodes, extents, symlinks, xattrs>>
         ELSE ~NotEmpty(t) /\ DropLink(t, moved)
      /\ UNCHANGED <<pc, req>>
  BY DEF Rename, RenameLegal, Parents, Without, MovedIn, BindIn, UnbindIn
<1>2. IndexInv /\ c \in DOMAIN inodes /\ Dirs = {i \in DOMAIN inodes : IsDir(i)}
  BY <1>1, IndexFacts, Zenon DEF NsInv
<1>3. DOMAIN moved = Dirs /\ SameOutside(moved, {d, e})
  BY <1>1, <1>2, MoveBooks, Zenon
<1>4. /\ c # RootIno /\ c \notin Loose /\ d \notin Loose /\ e \notin Loose
      /\ m \in DOMAIN dirIndex[e] => t # RootIno /\ t \notin Loose
      /\ \A i \in Loose \cap Dirs : DOMAIN dirIndex[i] = {}
  BY <1>1, NamedNotLoose, Zenon
<1>5. ASSUME NEW i, Unnamed(dirIndex, i) PROVE Unnamed(moved, i)
  <2>. HIDE DEF moved, c, t, X
  <2>0. IndexInv /\ d \in Dirs /\ e \in Dirs /\ n \in DOMAIN dirIndex[d]
    BY <1>1, <1>2, Zenon
  <2>1. \A x \in Dirs : \A k \in DOMAIN moved[x] :
            moved[x][k] = Child(d, n) \/ (k \in DOMAIN dirIndex[x] /\ moved[x][k] = Child(x, k))
    <3>1. Moved(moved, d, n, e, m)
      BY <2>0, MoveEntries, Zenon DEF moved
    <3>. QED
      BY <3>1, Zenon DEF Moved
  <2>2. \A x \in Dirs : \A k \in DOMAIN dirIndex[x] : Child(x, k) # i
    BY <1>5, Zenon DEF Unnamed, Dirs, Child
  <2>3. \A x \in Dirs : \A k \in DOMAIN moved[x] : moved[x][k] # i
    BY <1>1, <2>1, <2>2
  <2>. QED
    BY <1>3, <2>3, Zenon DEF Unnamed
<1>6. /\ d \in X /\ e \in X /\ c \in X /\ (m \in DOMAIN dirIndex[e] => t \in X)
      /\ \A i \in X : i \in {d, e, c} \/ (m \in DOMAIN dirIndex[e] /\ i = t)
  BY DEF RenameLocks
<1>7. /\ \A i \in X : i \notin Loose
      /\ \A q \in Proc \ {p} : pc'[q] = pc[q] /\ req'[q] = req[q] /\ \A i \in X : i \notin req[q].locks
      /\ ~Pending(p) /\ pc'[p] \notin Adding
  <2>1. \A i \in X : i \notin Loose
    BY <1>4, <1>6, Zenon
  <2>2. \A q \in Proc \ {p} : \A i \in X : i \notin req[q].locks
    BY <1>1, Zenon DEF Lock
  <2>3. ~Pending(p) /\ pc'[p] \notin Adding
    BY <1>1 DEF Pending, Adding
  <2>. QED
    BY <1>1, <2>1, <2>2, <2>3, Zenon
<1>8. Reached(dirIndex, DOMAIN inodes, Loose) /\ RootIno \in Dirs
  BY Zenon DEF ReachInv, RootOK
<1>. DEFINE W == IF m \in DOMAIN dirIndex[e] THEN {t} ELSE {}
<1>9. /\ m \in DOMAIN dirIndex[e] => t \in DOMAIN inodes /\ e # t /\ d # t
      /\ \A x \in W : x \in Dirs => DOMAIN dirIndex[x] = {}
  <2>. SUFFICES ASSUME m \in DOMAIN dirIndex[e]
                PROVE  t \in DOMAIN inodes /\ e # t /\ d # t /\ (t \in Dirs => DOMAIN dirIndex[t] = {})
    BY Zenon
  <2>1. t \in DOMAIN inodes
    BY <1>1, <1>2, IndexFacts, Zenon
  <2>2. ASSUME t \in Dirs PROVE DOMAIN dirIndex[t] = {}
    <3>1. dirIndex[t] = <<>>
      BY <1>1, <1>2, <2>2, Zenon DEF NotEmpty
    <3>. HIDE DEF t
    <3>. QED
      BY <3>1
  <2>. QED
    BY <1>1, <2>1, <2>2, Zenon
<1>10. Reached(moved, DOMAIN inodes, Loose \cup W)
  <2>1. W \in SUBSET DOMAIN inodes /\ (m \in DOMAIN dirIndex[e] => Child(e, m) \in W) /\ e \notin W
    BY <1>9, Zenon
  <2>2. e \in Dirs \ Loose /\ \A x \in W \cap Dirs : DOMAIN dirIndex[x] = {}
    BY <1>1, <1>4, <1>9, Zenon
  <2>. HIDE DEF W
  <2>. QED
    BY <1>1, <1>2, <1>8, <2>1, <2>2, ReachMove, Zenon
<1>11. CASE m \notin DOMAIN dirIndex[e]
  <2>1. dirIndex' = moved /\ inodes' = inodes
    BY <1>1, <1>11
  <2>2. Reached(dirIndex', DOMAIN inodes', Loose)
    <3>1. Loose \cup W = Loose
      BY <1>11
    <3>. QED
      BY <1>10, <2>1, <3>1, Zenon
  <2>3. \A x \in Dirs \ X : x \in DOMAIN dirIndex' /\ dirIndex'[x] = dirIndex[x]
    BY <1>3, <1>6, <2>1, Zenon DEF SameOutside
  <2>4. RootIno \in DOMAIN dirIndex' /\ DOMAIN dirIndex' \subseteq Dirs
    BY <1>3, <1>8, <2>1, Zenon
  <2>5. \A i \in DOMAIN inodes \ X : i \in DOMAIN inodes'
    BY <2>1
  <2>6. \A i : Unnamed(dirIndex, i) => Unnamed(dirIndex', i)
    BY <1>5, <2>1, Zenon
  <2>. HIDE DEF X, moved
  <2>. QED
    BY <1>7, <2>2, <2>3, <2>4, <2>5, <2>6, ReachKept, Zenon
<1>12. CASE m \in DOMAIN dirIndex[e]
  <2>1. DropLink(t, moved) /\ t \in DOMAIN inodes
    BY <1>1, <1>9, <1>12, Zenon
  <2>2. Books(moved, inodes, {t})
    BY <1>1, <1>2, <1>12, MoveBooks, Zenon
  <2>3. /\ t \in DOMAIN moved => DOMAIN moved[t] = {}
        /\ \A x \in Loose \cap DOMAIN moved : DOMAIN moved[x] = {}
    <3>1. ASSUME NEW x \in Dirs, x # d, x # e, DOMAIN dirIndex[x] = {} PROVE DOMAIN moved[x] = {}
      <4>1. moved[x] = dirIndex[x]
        BY <1>3, <3>1, Zenon DEF SameOutside
      <4>. QED
        BY <3>1, <4>1, Zenon
    <3>2. t \in Dirs => t # d /\ t # e /\ DOMAIN dirIndex[t] = {}
      BY <1>9, <1>12, Zenon
    <3>3. \A x \in Loose \cap Dirs : x # d /\ x # e /\ DOMAIN dirIndex[x] = {}
      BY <1>4, Zenon
    <3>. HIDE DEF moved, t
    <3>. QED
      BY <1>3, <3>1, <3>2, <3>3, Zenon
  <2>4. Reached(moved, DOMAIN inodes, Loose \cup {t})
    BY <1>10, <1>12, Zenon
  <2>. HIDE DEF t, moved, X
  <2>5. Reached(dirIndex', DOMAIN inodes', Loose)
    BY <2>1, <2>2, <2>3, <2>4, ReachDrop, Zenon
  <2>6. /\ \A i \in DOMAIN inodes \ {t} : i \in DOMAIN inodes'
        /\ DOMAIN dirIndex' \subseteq DOMAIN moved
        /\ \A x \in DOMAIN moved \ {t} : x \in DOMAIN dirIndex'
        /\ \A x \in DOMAIN dirIndex' : dirIndex'[x] = moved[x]
    BY <2>1, DropMaps, Zenon
  <2>7. \A x \in Dirs \ X : x \in DOMAIN dirIndex' /\ dirIndex'[x] = dirIndex[x]
    <3>. TAKE x \in Dirs \ X
    <3>1. x # t /\ x \in Dirs \ {d, e} /\ x \in DOMAIN moved
      BY <1>3, <1>6, <1>12, Zenon
    <3>2. moved[x] = dirIndex[x]
      BY <1>3, <3>1, Zenon DEF SameOutside
    <3>. QED
      BY <2>6, <3>1, <3>2
  <2>8. RootIno \in DOMAIN dirIndex' /\ DOMAIN dirIndex' \subseteq Dirs
    BY <1>3, <1>4, <1>8, <1>12, <2>6, Zenon
  <2>9. \A i \in DOMAIN inodes \ X : i \in DOMAIN inodes'
    BY <1>6, <1>12, <2>6, Zenon
  <2>10. \A i : Unnamed(dirIndex, i) => Unnamed(dirIndex', i)
    BY <1>5, <2>6, Zenon DEF Unnamed
  <2>. QED
    BY <1>7, <2>5, <2>7, <2>8, <2>9, <2>10, ReachKept, Zenon
<1>. QED
  BY <1>11, <1>12, Zenon

\* CreateInode: the new inode is loose.
LEMMA CreateReach ==
    ASSUME NsInv, serialised, ReachInv, NEW p \in Proc, NEW d \in Ino, NEW n \in Name, NEW t \in Types,
           CreateInode(p, d, n, t), UNCHANGED orphans
    PROVE  ReachInv'
<1>. DEFINE c == nextIno
            r == [dir |-> d, name |-> n, ino |-> nextIno, type |-> t, locks |-> {d}]
            at == IF t = "Symlink" THEN "addlink" ELSE "add"
<1>1. /\ inodes' = Put(inodes, c, [type |-> t, nlink |-> IF t = "Directory" THEN 1 ELSE 0])
      /\ dirIndex' = IF t = "Directory" THEN Put(dirIndex, c, <<>>) ELSE dirIndex
      /\ pc[p] = "idle" /\ d \in Dirs /\ d \in Named /\ n \notin DOMAIN dirIndex[d]
      /\ req' = [req EXCEPT ![p] = r] /\ pc' = [pc EXCEPT ![p] = at]
  BY DEF CreateInode, Goto, Parents
<1>2. /\ IndexInv /\ ReqTypes /\ c \notin DOMAIN inodes /\ c \notin Dirs
      /\ \A x \in Dirs : \A k \in DOMAIN dirIndex[x] : Child(x, k) \in DOMAIN inodes
      /\ Dirs = {i \in DOMAIN inodes : IsDir(i)}
  <2>1. IndexInv /\ ReqTypes /\ Recorded
    BY Zenon DEF NsInv, IndexInv
  <2>2. c \notin DOMAIN inodes
    BY <2>1 DEF Recorded
  <2>. QED
    BY <2>1, <2>2, IndexFacts, Zenon
<1>3. r.dir = d /\ r.name = n /\ r.ino = c /\ r.locks = {d} /\ at \in Adding
  BY Zenon DEF Adding
<1>. HIDE DEF r, at
<1>4. /\ pc'[p] = at /\ req'[p] = r
      /\ \A q \in Proc \ {p} : pc'[q] = pc[q] /\ req'[q] = req[q]
  BY <1>1, <1>2, Zenon DEF ReqTypes
<1>5. DOMAIN inodes' = DOMAIN inodes \cup {c}
  BY <1>1, Zenon DEF Put
<1>6. /\ DOMAIN dirIndex' \subseteq Dirs \cup {c}
      /\ \A x \in Dirs : x \in DOMAIN dirIndex' /\ dirIndex'[x] = dirIndex[x]
      /\ c \in DOMAIN dirIndex' => DOMAIN dirIndex'[c] = {}
  <2>1. CASE t = "Directory"
    <3>1. dirIndex' = Put(dirIndex, c, <<>>)
      BY <1>1, <2>1, Zenon
    <3>2. /\ DOMAIN dirIndex' = Dirs \cup {c} /\ dirIndex'[c] = <<>>
          /\ \A x \in Dirs : x # c => dirIndex'[x] = dirIndex[x]
      BY <3>1, Zenon DEF Put, Dirs
    <3>3. DOMAIN <<>> = {}
      OBVIOUS
    <3>. QED
      BY <1>2, <3>2, <3>3, Zenon
  <2>2. CASE t # "Directory"
    BY <1>1, <1>2, <2>2, Zenon DEF Dirs
  <2>. QED
    BY <2>1, <2>2, Zenon
<1>7. /\ \A q \in Proc \ {p} : (Fresh(q)' <=> Fresh(q)) /\ (Pending(q)' <=> Pending(q))
      /\ ~Fresh(p) /\ ~Pending(p) /\ Fresh(p)' /\ Pending(p)'
  <2>1. ~Pending(p)
    BY <1>1 DEF Pending, Adding
  <2>2. c # d
    BY <1>1, <1>2, Zenon
  <2>3. Fresh(p)' /\ Pending(p)'
    BY <1>3, <1>4, <2>2 DEF Fresh, Pending
  <2>4. \A q \in Proc \ {p} : (Fresh(q)' <=> Fresh(q)) /\ (Pending(q)' <=> Pending(q))
    BY <1>4, Zenon DEF Fresh, Pending
  <2>. QED
    BY <2>1, <2>3, <2>4, Zenon DEF Fresh
<1>8. Loose' = Loose \cup {c}
  <2>1. \A i : i \in Loose' <=> i \in Loose \/ i = c
    BY <1>3, <1>4, <1>7 DEF Loose
  <2>. QED
    BY <2>1
<1>9. ASSUME NEW i, Unnamed(dirIndex, i) PROVE Unnamed(dirIndex', i)
  <2>1. \A x \in DOMAIN dirIndex' : \A k \in DOMAIN dirIndex'[x] : x \in Dirs /\ dirIndex'[x] = dirIndex[x]
    BY <1>6, Zenon
  <2>2. \A x \in Dirs : \A k \in DOMAIN dirIndex[x] : dirIndex[x][k] # i
    BY <1>9, Zenon DEF Unnamed, Dirs
  <2>3. \A x \in DOMAIN dirIndex' : \A k \in DOMAIN dirIndex'[x] : dirIndex'[x][k] # i
    BY <2>1, <2>2
  <2>. QED
    BY <2>3, Zenon DEF Unnamed
<1>10. RootOK'
  BY <1>2, <1>6, <1>8, <1>9, Zenon DEF ReachInv, RootOK, Dirs
<1>11. LooseOK'
  <2>1. Unnamed(dirIndex, c)
    <3>1. \A x \in Dirs : \A k \in DOMAIN dirIndex[x] : Child(x, k) # c
      BY <1>2, Zenon
    <3>. QED
      BY <3>1, Zenon DEF Unnamed, Child, Dirs
  <2>2. Bare(dirIndex', c) /\ c \in DOMAIN inodes'
    BY <1>5, <1>6, <1>9, <2>1, Zenon DEF Bare
  <2>3. ASSUME NEW i \in Loose PROVE i \in DOMAIN inodes' /\ Bare(dirIndex', i)
    <3>1. i \in DOMAIN inodes /\ Unnamed(dirIndex, i) /\ (i \in Dirs => DOMAIN dirIndex[i] = {})
      BY Zenon DEF ReachInv, LooseOK, Bare, Dirs
    <3>2. i \in DOMAIN dirIndex' => DOMAIN dirIndex'[i] = {}
      BY <1>2, <1>6, <3>1, Zenon
    <3>. QED
      BY <1>5, <1>9, <3>1, <3>2, Zenon DEF Bare
  <2>. QED
    BY <1>8, <2>2, <2>3, Zenon DEF LooseOK
<1>12. ASSUME NEW q \in Proc PROVE Ready(q)'
  <2>1. \A i \in orphans : i # c
    <3>1. \A i \in orphans : i \in Loose
      BY DEF Loose
    <3>. QED
      BY <1>2, <3>1, Zenon DEF ReachInv, LooseOK
  <2>2. CASE q = p
    <3>1. d \in DOMAIN dirIndex' /\ d \notin Loose' /\ n \notin DOMAIN dirIndex'[d]
      <4>1. d \notin Loose /\ d # c
        BY <1>1, <1>2, NamedNotLoose, Zenon
      <4>. QED
        BY <1>1, <1>6, <1>8, <4>1, Zenon
    <3>. QED
      BY <1>3, <1>4, <1>5, <1>7, <2>1, <2>2, <3>1 DEF Ready, Dirs
  <2>3. CASE q # p
    <3>. SUFFICES ASSUME Pending(q)
                  PROVE  /\ req[q].dir \in DOMAIN dirIndex' /\ req[q].dir \notin Loose'
                         /\ req[q].name \notin DOMAIN dirIndex'[req[q].dir]
                         /\ req[q].ino \in DOMAIN inodes'
                         /\ IF Fresh(q) THEN req[q].ino \notin orphans
                                        ELSE req[q].ino \notin Loose' /\ req[q].ino \notin DOMAIN dirIndex'
      BY <1>4, <1>7, <2>3, Zenon DEF Ready, Dirs
    <3>1. /\ req[q].dir \in Dirs /\ req[q].dir \notin Loose
          /\ req[q].name \notin DOMAIN dirIndex[req[q].dir]
          /\ req[q].ino \in DOMAIN inodes
          /\ IF Fresh(q) THEN req[q].ino \notin orphans ELSE req[q].ino \notin Loose /\ req[q].ino \notin Dirs
      BY DEF ReachInv, ReadyOK, Ready
    <3>2. req[q].dir # c /\ req[q].ino # c
      BY <1>2, <3>1, Zenon
    <3>. QED
      BY <1>5, <1>6, <1>8, <3>1, <3>2, Zenon
  <2>. QED
    BY <2>2, <2>3
<1>13. ReadyOK'
  <2>1. \A q \in Proc \ {p} : Fresh(q) => req[q].ino # c
    <3>1. \A q \in Proc : Fresh(q) => req[q].ino \in Loose
      BY DEF Loose
    <3>. QED
      BY <1>2, <3>1, Zenon DEF ReachInv, LooseOK
  <2>2. ASSUME NEW q \in Proc, NEW s \in Proc \ {q}, Fresh(q)', Fresh(s)'
        PROVE  req'[q].ino # req'[s].ino
    <3>1. CASE q = p
      BY <1>3, <1>4, <1>7, <2>1, <2>2, <3>1, Zenon
    <3>2. CASE s = p
      BY <1>3, <1>4, <1>7, <2>1, <2>2, <3>2, Zenon
    <3>3. CASE q # p /\ s # p
      <4>1. req[q].ino # req[s].ino
        BY <1>7, <2>2, <3>3, Zenon DEF ReachInv, ReadyOK
      <4>. QED
        BY <1>4, <3>3, <4>1
    <3>. QED
      BY <3>1, <3>2, <3>3, Zenon
  <2>. QED
    BY <1>12, <2>2, Zenon DEF ReadyOK
<1>14. Reached(dirIndex', DOMAIN inodes', Loose')
  <2>. SUFFICES ASSUME NEW S \in SUBSET DOMAIN inodes', RootIno \in S, Closed(dirIndex', S)
                PROVE  DOMAIN inodes' \subseteq S \cup Loose'
    BY Zenon DEF Reached
  <2>. DEFINE T == S \ {c}
  <2>1. ASSUME NEW x \in Dirs \cap T, NEW k \in DOMAIN dirIndex[x] PROVE dirIndex[x][k] \in T
    <3>1. x \in DOMAIN dirIndex' \cap S /\ dirIndex'[x] = dirIndex[x]
      BY <1>6, <2>1, Zenon
    <3>2. dirIndex[x][k] \in S
      BY <3>1, Zenon DEF Closed
    <3>3. Child(x, k) # c
      BY <1>2, <2>1, Zenon
    <3>. QED
      BY <3>2, <3>3, Zenon DEF Child
  <2>2. Closed(dirIndex, T)
    BY <2>1, Zenon DEF Closed, Dirs
  <2>3. T \in SUBSET DOMAIN inodes /\ RootIno \in T
    <3>1. RootIno \in Dirs
      BY Zenon DEF ReachInv, RootOK
    <3>. QED
      BY <1>2, <1>5, <3>1, Zenon
  <2>. HIDE DEF T
  <2>4. DOMAIN inodes \subseteq T \cup Loose
    BY <2>2, <2>3, Zenon DEF ReachInv, Reached
  <2>. QED
    BY <1>5, <1>8, <2>4, Zenon DEF T
<1>. QED
  BY <1>10, <1>11, <1>13, <1>14, Zenon DEF ReachInv

\* AddDirEntry: an inode that was loose has a name now.
LEMMA AddReach ==
    ASSUME NsInv, serialised, ReachInv, NEW p \in Proc, AddDirEntry(p), UNCHANGED orphans
    PROVE  ReachInv'
<1>. DEFINE d == req[p].dir
            n == req[p].name
            c == req[p].ino
<1>1. /\ pc[p] \in Adding /\ d \in Dirs /\ c \in DOMAIN inodes /\ n \notin DOMAIN dirIndex[d]
      /\ dirIndex' = BindIn(dirIndex, d, n, c)
      /\ inodes' = [inodes EXCEPT ![c].nlink = inodes[c].nlink + 1]
      /\ IF pc[p] = "addlink" THEN Goto(p, "target") /\ UNCHANGED req ELSE Reply(p)
  BY DEF AddDirEntry, Adding, BindIn
<1>2. /\ IndexInv /\ ReqTypes /\ Tree(dirIndex) /\ n \in Name
      /\ Dirs = {i \in DOMAIN inodes : IsDir(i)}
  <2>1. IndexInv /\ ReqTypes /\ req[p] \in Asked
    BY <1>1 DEF NsInv, Requests, Sound, Adding
  <2>2. n \in Name
    BY <2>1 DEF Asked
  <2>. QED
    BY <2>1, <2>2, IndexFacts, Zenon
<1>3. /\ d \notin Loose
      /\ IF Fresh(p) THEN c \in Loose /\ c \notin orphans ELSE c \notin Loose /\ c \notin Dirs
  <2>1. Pending(p) /\ Ready(p)
    BY <1>1, Zenon DEF Pending, ReachInv, ReadyOK
  <2>2. Fresh(p) => c \in Loose
    BY DEF Loose
  <2>. QED
    BY <2>1, <2>2, Zenon DEF Ready
<1>4. /\ pc'[p] \notin Adding /\ DOMAIN inodes' = DOMAIN inodes
      /\ \A q \in Proc \ {p} : pc'[q] = pc[q] /\ req'[q] = req[q]
  <2>1. pc'[p] \in {"idle", "target"} /\ \A q \in Proc \ {p} : pc'[q] = pc[q] /\ req'[q] = req[q]
    BY <1>1, <1>2, Zenon DEF ReqTypes, Goto, Reply
  <2>2. pc'[p] \notin Adding
    BY <2>1 DEF Adding
  <2>3. DOMAIN inodes' = DOMAIN inodes
    BY <1>1
  <2>. QED
    BY <2>1, <2>2, <2>3, Zenon
<1>. HIDE DEF d, n, c
<1>5. /\ DOMAIN dirIndex' = Dirs /\ n \in DOMAIN dirIndex'[d] /\ dirIndex'[d][n] = c
      /\ \A x \in Dirs : x # d => dirIndex'[x] = dirIndex[x]
      /\ \A k \in DOMAIN dirIndex[d] : k \in DOMAIN dirIndex'[d] /\ dirIndex'[d][k] = dirIndex[d][k]
      /\ \A k \in DOMAIN dirIndex'[d] : k = n \/ (k \in DOMAIN dirIndex[d] /\ dirIndex'[d][k] = dirIndex[d][k])
  BY <1>1, <1>2, BindFacts DEF Dirs
<1>6. /\ \A q \in Proc \ {p} : (Fresh(q)' <=> Fresh(q)) /\ (Pending(q)' <=> Pending(q))
      /\ ~Fresh(p)' /\ ~Pending(p)'
  BY <1>4, Zenon DEF Fresh, Pending
<1>7. \A i : i \in Loose' <=> i \in Loose /\ i # c
  <2>1. \A q \in Proc \ {p} : Fresh(q) => req[q].ino # c
    <3>1. \A q \in Proc : Fresh(q) => req[q].ino \in Loose
      BY DEF Loose
    <3>2. CASE Fresh(p)
      BY <3>2, Zenon DEF ReachInv, ReadyOK, c
    <3>3. CASE ~Fresh(p)
      BY <1>3, <3>1, <3>3, Zenon
    <3>. QED
      BY <3>2, <3>3, Zenon
  <2>2. c \notin orphans
    <3>1. \A i \in orphans : i \in Loose
      BY DEF Loose
    <3>. QED
      BY <1>3, <3>1, Zenon
  <2>3. \A i : i \in Loose <=> i \in orphans \/ \E q \in Proc : Fresh(q) /\ req[q].ino = i
    BY Zenon DEF Loose
  <2>4. \A i : i \in Loose' <=> i \in orphans \/ \E q \in Proc : Fresh(q)' /\ req'[q].ino = i
    BY Zenon DEF Loose
  <2>5. \A i : (\E q \in Proc : Fresh(q)' /\ req'[q].ino = i) <=>
               (\E q \in Proc \ {p} : Fresh(q) /\ req[q].ino = i)
    BY <1>4, <1>6, Zenon
  <2>6. \A i : i \in Loose => i \in orphans \/ i = c \/ \E q \in Proc \ {p} : Fresh(q) /\ req[q].ino = i
    BY <2>3, Zenon DEF c
  <2>. QED
    BY <2>1, <2>2, <2>3, <2>4, <2>5, <2>6, Zenon
<1>8. ASSUME NEW i, Unnamed(dirIndex, i), i # c PROVE Unnamed(dirIndex', i)
  <2>1. \A x \in Dirs : \A k \in DOMAIN dirIndex[x] : dirIndex[x][k] # i
    BY <1>8, Zenon DEF Unnamed, Dirs
  <2>2. \A x \in Dirs : \A k \in DOMAIN dirIndex'[x] : dirIndex'[x][k] # i
    BY <1>5, <1>8, <2>1
  <2>. QED
    BY <1>5, <2>2, Zenon DEF Unnamed
<1>9. RootOK'
  <2>1. RootIno \in Dirs /\ RootIno \notin Loose /\ Unnamed(dirIndex, RootIno)
    BY Zenon DEF ReachInv, RootOK
  <2>2. RootIno # c
    BY <1>3, <2>1, Zenon
  <2>. QED
    BY <1>5, <1>7, <1>8, <2>1, <2>2, Zenon DEF RootOK, Dirs
<1>10. LooseOK'
  <2>. SUFFICES ASSUME NEW i \in Loose, i # c PROVE i \in DOMAIN inodes' /\ Bare(dirIndex', i)
    BY <1>7, Zenon DEF LooseOK
  <2>1. i \in DOMAIN inodes /\ Unnamed(dirIndex, i) /\ (i \in Dirs => DOMAIN dirIndex[i] = {}) /\ i # d
    BY <1>3, Zenon DEF ReachInv, LooseOK, Bare, Dirs
  <2>2. i \in DOMAIN dirIndex' => DOMAIN dirIndex'[i] = {}
    BY <1>5, <2>1
  <2>. QED
    BY <1>4, <1>8, <2>1, <2>2, Zenon DEF Bare
<1>11. ASSUME NEW q \in Proc PROVE Ready(q)'
  <2>. SUFFICES ASSUME Pending(q), q # p
                PROVE  /\ req[q].dir \in DOMAIN dirIndex' /\ req[q].dir \notin Loose'
                       /\ req[q].name \notin DOMAIN dirIndex'[req[q].dir]
                       /\ req[q].ino \in DOMAIN inodes'
                       /\ IF Fresh(q) THEN req[q].ino \notin orphans
                                      ELSE req[q].ino \notin Loose' /\ req[q].ino \notin DOMAIN dirIndex'
    BY <1>4, <1>6 DEF Ready, Dirs
  <2>1. /\ req[q].dir \in Dirs /\ req[q].dir \notin Loose
        /\ req[q].name \notin DOMAIN dirIndex[req[q].dir]
        /\ req[q].ino \in DOMAIN inodes
        /\ IF Fresh(q) THEN req[q].ino \notin orphans ELSE req[q].ino \notin Loose /\ req[q].ino \notin Dirs
    BY DEF ReachInv, ReadyOK, Ready
  <2>2. req[q].dir # d
    <3>1. req[q].dir \in req[q].locks /\ d \in req[p].locks
      BY <1>1, Zenon DEF NsInv, Locks, Holds, Pending, d
    <3>2. req[q].locks \cap req[p].locks = {}
      BY Zenon DEF NsInv, Locks
    <3>. QED
      BY <3>1, <3>2, Zenon
  <2>3. req[q].dir \in DOMAIN dirIndex' /\ dirIndex'[req[q].dir] = dirIndex[req[q].dir]
    BY <1>5, <2>1, <2>2, Zenon
  <2>4. /\ req[q].dir \notin Loose'
        /\ ~Fresh(q) => req[q].ino \notin Loose' /\ req[q].ino \notin DOMAIN dirIndex'
    BY <1>5, <1>7, <2>1, Zenon
  <2>. QED
    BY <1>4, <2>1, <2>3, <2>4, Zenon
<1>12. ReadyOK'
  <2>1. ASSUME NEW q \in Proc, NEW s \in Proc \ {q}, Fresh(q)', Fresh(s)'
        PROVE  req'[q].ino # req'[s].ino
    <3>1. q # p /\ s # p /\ Fresh(q) /\ Fresh(s)
      BY <1>6, <2>1, Zenon
    <3>2. req[q].ino # req[s].ino /\ req'[q] = req[q] /\ req'[s] = req[s]
      BY <1>4, <3>1, Zenon DEF ReachInv, ReadyOK
    <3>. QED
      BY <3>2
  <2>. QED
    BY <1>11, <2>1, Zenon DEF ReadyOK
<1>13. Reached(dirIndex', DOMAIN inodes', Loose')
  <2>. SUFFICES ASSUME NEW S \in SUBSET DOMAIN inodes, RootIno \in S, Closed(dirIndex', S)
                PROVE  DOMAIN inodes \subseteq S \cup Loose'
    BY <1>4, Zenon DEF Reached
  <2>1. ASSUME NEW x \in Dirs \cap S, NEW k \in DOMAIN dirIndex[x] PROVE dirIndex[x][k] \in S
    <3>1. x \in DOMAIN dirIndex' \cap S /\ k \in DOMAIN dirIndex'[x] /\ dirIndex'[x][k] = dirIndex[x][k]
      BY <1>5, <2>1
    <3>2. dirIndex'[x][k] \in S
      BY <3>1, Zenon DEF Closed
    <3>. QED
      BY <3>1, <3>2
  <2>2. Closed(dirIndex, S)
    BY <2>1, Zenon DEF Closed, Dirs
  <2>3. DOMAIN inodes \subseteq S \cup Loose
    BY <2>2, Zenon DEF ReachInv, Reached
  <2>4. d \in S
    BY <1>1, <1>2, <1>3, <2>3, Zenon
  <2>5. c \in S
    <3>1. d \in DOMAIN dirIndex' \cap S
      BY <1>1, <1>5, <2>4, Zenon
    <3>2. dirIndex'[d][n] \in S
      BY <1>5, <3>1, Zenon DEF Closed
    <3>. QED
      BY <1>5, <3>2
  <2>. QED
    BY <1>7, <2>3, <2>5, Zenon
<1>. QED
  BY <1>9, <1>10, <1>12, <1>13, Zenon DEF ReachInv

\* AddDirEntry finds the name free and the inode there: it does not fail.
LEMMA NoAddError ==
    ASSUME ReachInv, NEW p \in Proc, AddDirEntryError(p)
    PROVE  FALSE
<1>1. /\ Pending(p)
      /\ req[p].dir \in Dirs /\ req[p].ino \in DOMAIN inodes => <<req[p].dir, req[p].name>> \in Entries
  BY DEF AddDirEntryError, Pending, Adding
<1>2. /\ req[p].dir \in Dirs /\ req[p].name \notin DOMAIN dirIndex[req[p].dir]
      /\ req[p].ino \in DOMAIN inodes
  BY <1>1, Zenon DEF ReachInv, ReadyOK, Ready
<1>3. <<req[p].dir, req[p].name>> \notin Entries
  BY <1>2 DEF Entries
<1>. QED
  BY <1>1, <1>2, <1>3, Zenon

\* Link begins: its inode has a name and is no directory.
LEMMA LinkReach ==
    ASSUME NsInv, serialised, ReachInv, NEW p \in Proc, NEW d \in Ino, NEW n \in Name, NEW t \in Ino,
           Link(p, d, n, t), UNCHANGED orphans
    PROVE  ReachInv'
<1>. DEFINE r == Request(d, n, t, {d, t})
<1>1. /\ pc[p] = "idle" /\ d \in Dirs /\ d \in Named /\ n \notin DOMAIN dirIndex[d]
      /\ t \in DOMAIN inodes /\ t \in Named /\ ~IsDir(t)
      /\ req' = [req EXCEPT ![p] = r] /\ pc' = [pc EXCEPT ![p] = "add"]
      /\ UNCHANGED <<inodes, dirIndex>>
  BY DEF Link, Parents, Goto, index
<1>2. r.dir = d /\ r.name = n /\ r.ino = t /\ r.locks = {d, t}
  BY DEF Request
<1>. HIDE DEF r
<1>3. /\ pc'[p] = "add" /\ req'[p] = r
      /\ \A q \in Proc \ {p} : pc'[q] = pc[q] /\ req'[q] = req[q]
  BY <1>1, Zenon DEF NsInv, ReqTypes
<1>4. d \notin Loose /\ t \notin Loose /\ t \notin Dirs
  BY <1>1, NamedNotLoose, IndexFacts, Zenon DEF NsInv
<1>5. /\ \A q \in Proc : Fresh(q)' <=> Fresh(q)
      /\ \A q \in Proc \ {p} : Pending(q)' <=> Pending(q)
      /\ \A q \in Proc : Fresh(q) => q # p
  <2>1. ~Pending(p) /\ ~Fresh(p)
    BY <1>1 DEF Fresh, Pending, Adding
  <2>2. ~Fresh(p)'
    BY <1>2, <1>3 DEF Fresh
  <2>. QED
    BY <1>3, <2>1, <2>2, Zenon DEF Fresh, Pending
<1>6. Loose' = Loose
  <2>1. \A i : i \in Loose' <=> i \in Loose
    BY <1>3, <1>5 DEF Loose
  <2>. QED
    BY <2>1
<1>7. RootOK' /\ LooseOK' /\ Reached(dirIndex', DOMAIN inodes', Loose')
  BY <1>1, <1>6, Zenon DEF ReachInv, RootOK, LooseOK, Dirs
<1>8. ASSUME NEW q \in Proc PROVE Ready(q)'
  <2>1. CASE q = p
    <3>1. req'[p].dir = d /\ req'[p].name = n /\ req'[p].ino = t
      BY <1>2, <1>3, Zenon
    <3>2. d \in Dirs' \ Loose' /\ n \notin DOMAIN dirIndex'[d] /\ t \in DOMAIN inodes'
      BY <1>1, <1>4, <1>6, Zenon DEF Dirs
    <3>3. ~Fresh(p)' /\ t \notin Loose' \cup Dirs'
      BY <1>1, <1>4, <1>5, <1>6, Zenon DEF Dirs
    <3>. QED
      BY <2>1, <3>1, <3>2, <3>3, Zenon DEF Ready
  <2>2. CASE q # p
    <3>1. Ready(q) /\ req'[q] = req[q] /\ (Pending(q)' <=> Pending(q)) /\ (Fresh(q)' <=> Fresh(q))
      BY <1>3, <1>5, <2>2, Zenon DEF ReachInv, ReadyOK
    <3>2. Dirs' = Dirs /\ dirIndex' = dirIndex /\ inodes' = inodes /\ orphans' = orphans
      BY <1>1, Zenon DEF Dirs
    <3>. QED
      BY <1>6, <3>1, <3>2, Zenon DEF Ready
  <2>. QED
    BY <2>1, <2>2, Zenon
<1>9. ReadyOK'
  <2>1. ASSUME NEW q \in Proc, NEW s \in Proc \ {q}, Fresh(q)', Fresh(s)'
        PROVE  req'[q].ino # req'[s].ino
    <3>1. q # p /\ s # p /\ Fresh(q) /\ Fresh(s)
      BY <1>5, <2>1, Zenon
    <3>2. req[q].ino # req[s].ino /\ req'[q] = req[q] /\ req'[s] = req[s]
      BY <1>3, <3>1, Zenon DEF ReachInv, ReadyOK
    <3>. QED
      BY <3>2
  <2>. QED
    BY <1>8, <2>1, Zenon DEF ReadyOK
<1>. QED
  BY <1>7, <1>9, Zenon DEF ReachInv

\* A step that leaves the maps alone and begins or ends no addition.
LEMMA QuietReach ==
    ASSUME NsInv, serialised, ReachInv, NEW p \in Proc, ~Pending(p), pc'[p] \notin Adding,
           \A q \in Proc \ {p} : pc'[q] = pc[q] /\ req'[q] = req[q],
           UNCHANGED <<inodes, dirIndex, orphans>>
    PROVE  ReachInv'
<1>. DEFINE X == {}
<1>1. /\ \A i \in X : i \notin Loose
      /\ \A q \in Proc \ {p} : pc'[q] = pc[q] /\ req'[q] = req[q] /\ \A i \in X : i \notin req[q].locks
  BY Zenon
<1>2. /\ RootIno \in DOMAIN dirIndex' /\ DOMAIN dirIndex' \subseteq Dirs
      /\ \A x \in Dirs \ X : x \in DOMAIN dirIndex' /\ dirIndex'[x] = dirIndex[x]
      /\ \A i \in DOMAIN inodes \ X : i \in DOMAIN inodes'
      /\ \A i : Unnamed(dirIndex, i) => Unnamed(dirIndex', i)
      /\ Reached(dirIndex', DOMAIN inodes', Loose)
      /\ UNCHANGED orphans
  BY Zenon DEF ReachInv, RootOK, Dirs
<1>. HIDE DEF X
<1>. QED
  BY <1>1, <1>2, ReachKept, Zenon

\* A kill and a remount: what has no name is bare and recorded as orphaned.
LEMMA RemountReach ==
    ASSUME NsInv, serialised, ReachInv, Remount
    PROVE  ReachInv'
<1>1. /\ UNCHANGED <<inodes, dirIndex>> /\ \A p \in Proc : pc'[p] = "idle"
      /\ orphans' = DOMAIN inodes \ Named
  BY RemountInv DEF Remount, index
<1>2. \A p \in Proc : ~Pending(p)' /\ ~Fresh(p)'
  BY <1>1 DEF Pending, Fresh, Adding
<1>3. Loose' = DOMAIN inodes \ Named
  <2>1. \A i : i \in Loose' <=> i \in orphans'
    BY <1>2, Zenon DEF Loose
  <2>. QED
    BY <1>1, <2>1
<1>4. /\ RootIno \in Dirs /\ RootIno \in Named /\ Unnamed(dirIndex, RootIno)
      /\ \A i \in Loose : i \notin Named /\ i \in DOMAIN inodes /\ Bare(dirIndex, i)
  <2>1. RootIno \in Named
    BY DEF Named
  <2>. QED
    BY <2>1, NamedNotLoose, Zenon DEF ReachInv, RootOK, LooseOK
<1>5. ASSUME NEW i \in DOMAIN inodes \ Named PROVE i \in Loose
  <2>. DEFINE S == DOMAIN inodes \ {i}
  <2>1. ASSUME NEW x \in Dirs, NEW k \in DOMAIN dirIndex[x] PROVE Child(x, k) \in S
    <3>. DEFINE en == <<x, k>>
    <3>1. en \in Entries /\ en[1] = x /\ en[2] = k
      BY <2>1 DEF Entries
    <3>. HIDE DEF en
    <3>2. Child(x, k) \in Named
      BY <3>1, Zenon DEF Named
    <3>3. Child(x, k) \in DOMAIN inodes
      BY <2>1, IndexFacts, Zenon DEF NsInv
    <3>. QED
      BY <3>2, <3>3, Zenon
  <2>2. Closed(dirIndex, S)
    BY <2>1, Zenon DEF Closed, Child, Dirs
  <2>3. S \in SUBSET DOMAIN inodes /\ RootIno \in S
    BY <1>4, IndexFacts, Zenon DEF NsInv
  <2>. HIDE DEF S
  <2>4. DOMAIN inodes \subseteq S \cup Loose
    BY <2>2, <2>3, Zenon DEF ReachInv, Reached
  <2>. QED
    BY <2>4, Zenon DEF S
<1>6. Loose' = Loose
  BY <1>3, <1>4, <1>5
<1>7. RootOK' /\ LooseOK' /\ Reached(dirIndex', DOMAIN inodes', Loose')
  BY <1>1, <1>6, Zenon DEF ReachInv, RootOK, LooseOK, Dirs
<1>8. ReadyOK'
  BY <1>2, Zenon DEF ReadyOK, Ready
<1>. QED
  BY <1>7, <1>8, Zenon DEF ReachInv

\* The empty file system: the root, and nothing else.
LEMMA ReachInit == ASSUME Init PROVE ReachInv
<1>1. \A p \in Proc : ~Pending(p) /\ ~Fresh(p)
  BY DEF Init, Pending, Fresh, Adding
<1>2. Loose = {}
  BY <1>1 DEF Loose, Init
<1>3. Dirs = {RootIno} /\ DOMAIN inodes = {RootIno} /\ DOMAIN dirIndex[RootIno] = {}
  BY DEF Init, Dirs
<1>4. RootOK
  BY <1>2, <1>3, Zenon DEF RootOK, Unnamed, Dirs
<1>5. LooseOK /\ ReadyOK
  BY <1>1, <1>2, Zenon DEF LooseOK, ReadyOK, Ready
<1>6. Reached(dirIndex, DOMAIN inodes, Loose)
  BY <1>3, Zenon DEF Reached
<1>. QED
  BY <1>4, <1>5, <1>6, Zenon DEF ReachInv

\* Unlink, with its directory and the inode locked.
LEMMA UnlinkReach ==
    ASSUME NsInv, serialised, ReachInv, NEW p \in Proc, NEW d, NEW n, Unlink(p, d, n), UNCHANGED orphans
    PROVE  ReachInv'
<1>1. pc[p] = "idle" /\ RemoveDirEntry(d, n) /\ UNCHANGED <<pc, req>> /\ Lock(p, {d, Child(d, n)})
  BY Zenon DEF Unlink
<1>2. ~Pending(p) /\ pc'[p] \notin Adding
  BY <1>1 DEF Pending, Adding
<1>3. \A q \in Proc \ {p} : /\ pc'[q] = pc[q] /\ req'[q] = req[q]
                            /\ d \notin req[q].locks /\ Child(d, n) \notin req[q].locks
  BY <1>1, Zenon DEF Lock
<1>. QED
  BY <1>1, <1>2, <1>3, RemoveReach, Zenon

\* Rmdir still has what its lookup locked.
LEMMA RmdirReach ==
    ASSUME NsInv, serialised, ReachInv, NEW p \in Proc, Rmdir(p), UNCHANGED orphans
    PROVE  ReachInv'
<1>. DEFINE d == req[p].dir
            n == req[p].name
<1>1. pc[p] = "rmdir" /\ RemoveDirEntry(d, n) /\ Reply(p) /\ ReqTypes
  BY Zenon DEF Rmdir, NsInv
<1>2. ~Pending(p) /\ pc'[p] \notin Adding
  BY <1>1 DEF Pending, Adding, Reply, Goto, ReqTypes
<1>3. \A q \in Proc \ {p} : pc'[q] = pc[q] /\ req'[q] = req[q]
  BY <1>1 DEF Reply, Goto, ReqTypes
<1>4. d \in req[p].locks /\ Child(d, n) \in req[p].locks
  <2>1. {d, req[p].ino} \subseteq req[p].locks /\ Child(d, n) = req[p].ino
    BY <1>1, Zenon DEF NsInv, Locks, Found
  <2>2. d \in req[p].locks /\ req[p].ino \in req[p].locks
    BY <2>1, Zenon
  <2>. QED
    BY <2>1, <2>2, Zenon
<1>5. \A q \in Proc \ {p} : d \notin req[q].locks /\ Child(d, n) \notin req[q].locks
  BY <1>4, Zenon DEF NsInv, Locks
<1>. QED
  BY <1>1, <1>2, <1>3, <1>5, RemoveReach, Zenon

\* The other steps of requests change no inode and no entry.
LEMMA OtherReach ==
    ASSUME NsInv, serialised, ReachInv, NEW p \in Proc, UNCHANGED orphans,
           \/ \E d \in Ino, n \in Name : RmdirLookup(p, d, n) \/ Lookup(p, d, n)
           \/ SetSymlink(p) \/ RmdirError(p) \/ LookupGetInode(p) \/ XattrNext(p)
    PROVE  ReachInv'
<1>. DEFINE still == pc' = pc /\ req' = req
            moved == \E at \in {"idle", "rmdir", "getinode"} : \E r :
                        pc' = [pc EXCEPT ![p] = at] /\ req' = [req EXCEPT ![p] = r]
            quiet == /\ pc[p] \in {"idle", "rmdir", "getinode", "target"} /\ UNCHANGED <<inodes, dirIndex>>
                     /\ still \/ moved
<1>1. ASSUME NEW d \in Ino, NEW n \in Name, RmdirLookup(p, d, n) \/ Lookup(p, d, n)
      PROVE  quiet
  BY <1>1, Zenon DEF RmdirLookup, Lookup, Goto, index
<1>2. ASSUME SetSymlink(p) \/ RmdirError(p) \/ LookupGetInode(p)
      PROVE  quiet
  BY <1>2, Zenon DEF SetSymlink, RmdirError, LookupGetInode, Reply, Goto, index
<1>3. ASSUME XattrNext(p)
      PROVE  quiet
  BY <1>3, Zenon DEF XattrNext, SetXattr, RemoveXattr
<1>4. quiet
  BY <1>1, <1>2, <1>3, Zenon
<1>5. ReqTypes
  BY Zenon DEF NsInv
<1>6. ~Pending(p) /\ pc'[p] \notin Adding
  BY <1>4, <1>5 DEF Pending, Adding, ReqTypes
<1>7. \A q \in Proc \ {p} : pc'[q] = pc[q] /\ req'[q] = req[q]
  BY <1>4, <1>5 DEF ReqTypes
<1>. QED
  BY <1>4, <1>6, <1>7, QuietReach, Zenon

\* One step per action: each keeps what is not loose reachable.
LEMMA ReachStep == ASSUME NsInv, ReachOK, [Next]_vars PROVE ReachOK'
<1>1. UNCHANGED serialised
  BY Zenon DEF Next, Quiet, Remount, vars
<1>. SUFFICES ASSUME serialised PROVE ReachInv'
  BY <1>1, Zenon DEF ReachOK
<1>2. ReachInv
  BY Zenon DEF ReachOK
<1>3. ASSUME NEW p \in Proc, EntryNext(p), UNCHANGED orphans PROVE ReachInv'
  <2>1. ASSUME NEW d \in Ino, NEW n \in Name, Create(p, d, n) \/ Mkdir(p, d, n) \/ Symlink(p, d, n)
        PROVE  ReachInv'
    <3>1. "Regular" \in Types /\ "Directory" \in Types /\ "Symlink" \in Types
      BY DEF Types
    <3>2. \E t \in Types : CreateInode(p, d, n, t)
      BY <2>1, <3>1, Zenon DEF Create, Mkdir, Symlink
    <3>. QED
      BY <1>2, <1>3, <3>2, CreateReach, Zenon
  <2>2. ASSUME NEW d \in Ino, NEW n \in Name, NEW t \in Ino, Link(p, d, n, t) PROVE ReachInv'
    BY <1>2, <1>3, <2>2, LinkReach, Zenon
  <2>3. ASSUME NEW d \in Ino, NEW n \in Name, Unlink(p, d, n) PROVE ReachInv'
    BY <1>2, <1>3, <2>3, UnlinkReach, Zenon
  <2>4. ASSUME NEW d \in Ino, NEW e \in Ino, NEW n \in Name, NEW m \in Name, Rename(p, d, n, e, m)
        PROVE  ReachInv'
    BY <1>2, <1>3, <2>4, RenameReach, Zenon
  <2>5. ASSUME AddDirEntry(p) PROVE ReachInv'
    BY <1>2, <1>3, <2>5, AddReach, Zenon
  <2>6. ASSUME AddDirEntryError(p) PROVE ReachInv'
    BY <1>2, <2>6, NoAddError, Zenon
  <2>7. ASSUME Rmdir(p) PROVE ReachInv'
    BY <1>2, <1>3, <2>7, RmdirReach, Zenon
  <2>8. ASSUME \/ \E d \in Ino, n \in Name : RmdirLookup(p, d, n) \/ Lookup(p, d, n)
               \/ SetSymlink(p) \/ RmdirError(p) \/ LookupGetInode(p)
        PROVE  ReachInv'
    BY <1>2, <1>3, <2>8, OtherReach, Zenon
  <2>. QED
    BY <1>3, <2>1, <2>2, <2>3, <2>4, <2>5, <2>6, <2>7, <2>8, Zenon DEF EntryNext
<1>4. ASSUME NEW p \in Proc, XattrNext(p), UNCHANGED orphans PROVE ReachInv'
  BY <1>2, <1>4, OtherReach, Zenon
<1>5. ASSUME Remount PROVE ReachInv'
  BY <1>2, <1>5, RemountReach, Zenon
<1>6. ASSUME UNCHANGED vars PROVE ReachInv'
  <2>1. UNCHANGED <<inodes, dirIndex, pc, req, orphans>>
    BY <1>6, Zenon DEF vars, index
  <2>. QED
    BY <1>2, <2>1, Zenon DEF ReachInv, RootOK, LooseOK, ReadyOK, Ready, Fresh, Pending, Loose, Dirs
<1>. QED
  BY <1>3, <1>4, <1>5, <1>6, Zenon DEF Next, Quiet

-----------------------------------------------------------------------------
(* The theorems *)

\* The inductive invariant holds in every state of every interleaving of the
\* handlers and in every state after a remount.
THEOREM NamespaceInvariant == Spec => []NsInv
  BY NsInit, NsStep, PTL DEF Spec

\* NoDangling: RemoveDirEntry and Rename free an inode with its last entry, and
\* with it all that is recorded of it, whatever requests are half way.
THEOREM NothingDangles == Spec => []NoDangling
<1>1. NsInv => NoDangling
  <2>. SUFFICES ASSUME NsInv PROVE NoDangling
    BY Zenon
  <2>1. Dirs = {i \in DOMAIN inodes : IsDir(i)} /\ Recorded
    BY IndexFacts DEF NsInv, IndexInv, IsDir
  <2>2. \A e \in Entries : Child(e[1], e[2]) \in DOMAIN inodes
    BY IndexFacts DEF NsInv, Entries
  <2>. QED
    BY <2>1, <2>2 DEF NoDangling, Recorded
<1>. QED
  BY <1>1, NamespaceInvariant, PTL

\* NlinkConsistent: nlink is the number of entries after every AddDirEntry,
\* RemoveDirEntry and Rename, hard links included.
THEOREM LinksCounted == Spec => []NlinkConsistent
<1>1. NsInv => NlinkConsistent
  <2>. SUFFICES ASSUME NsInv, NEW i \in DOMAIN inodes
                PROVE  inodes[i].nlink = Cardinality({e \in Entries : Child(e[1], e[2]) = i})
                                             + IF IsDir(i) THEN 1 ELSE 0
    BY DEF NlinkConsistent
  <2>1. {e \in Entries : Child(e[1], e[2]) = i} = LinksIn(dirIndex, i)
    BY Zenon DEF LinksIn, EntriesIn, Entries, Child, Dirs
  <2>2. /\ IsFiniteSet(LinksIn(dirIndex, i))
        /\ inodes[i].nlink = Cardinality(LinksIn(dirIndex, i)) + Self(inodes, i) + 0
    BY DEF NsInv, IndexInv, Books, Counted
  <2>3. Cardinality(LinksIn(dirIndex, i)) \in Nat
    BY <2>2, FS_CardinalityType
  <2>. DEFINE k == Cardinality(LinksIn(dirIndex, i))
  <2>4. Cardinality({e \in Entries : Child(e[1], e[2]) = i}) = k
    BY <2>1, Zenon
  <2>5. k \in Nat /\ inodes[i].nlink = k + Self(inodes, i) + 0
    BY <2>2, <2>3, Zenon
  <2>. HIDE DEF k
  <2>6. inodes[i].nlink = k + IF IsDir(i) THEN 1 ELSE 0
    BY <2>5 DEF Self, IsDir
  <2>. QED
    BY <2>4, <2>6, Zenon
<1>. QED
  BY <1>1, NamespaceInvariant, PTL

\* SnapshotRoundTrip: in every state FromSnapshot(Snapshot) has the same
\* directories with the same entries, empty ones included.
THEOREM SnapshotLosesNoDirectory == Spec => []SnapshotRoundTrip
  BY NamespaceInvariant, RoundTrip, PTL DEF NsInv

\* LookupSound: the inode GetInode finds for Lookup is the object the name was
\* bound to, although Lookup holds no lock between its steps.
THEOREM LookupFindsItsObject == Spec => []LookupSound
<1>1. NsInv => LookupSound
  BY DEF NsInv, LookupSound, Requests, Sound
<1>. QED
  BY <1>1, NamespaceInvariant, PTL

\* A step moves one request, and Rmdir's second step is Rmdir's only change.
LEMMA OneMoves ==
    ASSUME NEW q \in Proc, EntryNext(q) \/ XattrNext(q)
    PROVE  /\ UNCHANGED pc \/ \E at : Goto(q, at)
           /\ pc[q] = "rmdir" => Rmdir(q) \/ UNCHANGED index
<1>1. ASSUME NEW d \in Ino, NEW n \in Name, Create(q, d, n) \/ Mkdir(q, d, n) \/ Symlink(q, d, n)
      PROVE  pc[q] = "idle" /\ \E at : Goto(q, at)
  <2>1. \E t : CreateInode(q, d, n, t)
    BY <1>1, Zenon DEF Create, Mkdir, Symlink
  <2>. QED
    BY <2>1, Zenon DEF CreateInode
<1>2. ASSUME NEW d \in Ino, NEW n \in Name, NEW t \in Ino, Link(q, d, n, t)
      PROVE  pc[q] = "idle" /\ \E at : Goto(q, at)
  BY <1>2, Zenon DEF Link
<1>3. ASSUME NEW d \in Ino, NEW n \in Name, Unlink(q, d, n) \/ RmdirLookup(q, d, n) \/ Lookup(q, d, n)
      PROVE  pc[q] = "idle" /\ (UNCHANGED pc \/ \E at : Goto(q, at))
  BY <1>3, Zenon DEF Unlink, RmdirLookup, Lookup
<1>4. ASSUME NEW d \in Ino, NEW e \in Ino, NEW n \in Name, NEW m \in Name, Rename(q, d, n, e, m)
      PROVE  pc[q] = "idle" /\ UNCHANGED pc
  BY <1>4 DEF Rename
<1>5. ASSUME AddDirEntry(q) \/ AddDirEntryError(q) \/ SetSymlink(q) \/ LookupGetInode(q)
      PROVE  pc[q] # "rmdir" /\ \E at : Goto(q, at)
  <2>1. pc[q] # "rmdir"
    BY <1>5 DEF AddDirEntry, AddDirEntryError, SetSymlink, LookupGetInode
  <2>. QED
    BY <1>5, <2>1, Zenon DEF AddDirEntry, AddDirEntryError, SetSymlink, LookupGetInode, Reply
<1>6. ASSUME Rmdir(q) \/ RmdirError(q)
      PROVE  (\E at : Goto(q, at)) /\ (Rmdir(q) \/ UNCHANGED index)
  BY <1>6, Zenon DEF Rmdir, RmdirError, Reply
<1>7. ASSUME XattrNext(q) PROVE pc[q] = "idle" /\ UNCHANGED pc
  BY <1>7 DEF XattrNext, SetXattr, RemoveXattr
<1>8. "idle" # "rmdir"
  OBVIOUS
<1>. QED
  BY <1>1, <1>2, <1>3, <1>4, <1>5, <1>6, <1>7, <1>8, Zenon DEF EntryNext

\* RmdirRemovesDir: under the locks of the VFS, Rmdir removes the directory it
\* looked up and nothing else, although it takes idx.mu once for each.
THEOREM RmdirTakesADirectory == Spec => RmdirRemovesDir
<1>1. ASSUME NsInv, [Next]_vars PROVE RmdirStep
  <2>. SUFFICES ASSUME NEW p \in Proc, serialised, pc[p] = "rmdir", pc'[p] = "idle", index' # index
                PROVE  DOMAIN inodes \ DOMAIN inodes' = {req[p].ino} /\ IsDir(req[p].ino)
    BY Zenon DEF RmdirStep
  <2>1. ASSUME NEW q \in Proc, EntryNext(q) \/ XattrNext(q)
        PROVE  (q = p /\ Rmdir(p)) \/ UNCHANGED index
    <3>1. /\ UNCHANGED pc \/ \E at : Goto(q, at)
          /\ pc[q] = "rmdir" => Rmdir(q) \/ UNCHANGED index
      BY <2>1, OneMoves, Zenon
    <3>2. pc'[p] # pc[p]
      OBVIOUS
    <3>3. q = p
      BY <1>1, <3>1, <3>2 DEF NsInv, ReqTypes, Goto
    <3>. QED
      BY <3>1, <3>3, Zenon
  <2>2. Remount => UNCHANGED index
    BY <1>1, RemountInv
  <2>3. UNCHANGED vars => UNCHANGED index
    BY DEF vars
  <2>. QED
    BY <1>1, <2>1, <2>2, <2>3, RmdirInv, Zenon DEF Next, Quiet
<1>. QED
  BY <1>1, NamespaceInvariant, PTL DEF Spec, RmdirRemovesDir

\* AllReachable: when no request is being served every inode but what a kill
\* left is reached from the root; under the locks of the VFS no CreateInode,
\* AddDirEntry, RemoveDirEntry or Rename of any interleaving cuts a part off.
THEOREM EverythingReachable == Spec => []AllReachable
<1>1. ASSUME ReachOK PROVE AllReachable
  <2>. SUFFICES ASSUME serialised, \A p \in Proc : pc[p] = "idle", NEW S \in SUBSET DOMAIN inodes,
                       RootIno \in S, \A e \in Entries : e[1] \in S => Child(e[1], e[2]) \in S
                PROVE  DOMAIN inodes \subseteq S \cup orphans
    BY Zenon DEF AllReachable
  <2>1. \A p \in Proc : ~Fresh(p)
    BY DEF Fresh, Pending, Adding
  <2>2. Loose = orphans
    BY <2>1, Zenon DEF Loose
  <2>3. Closed(dirIndex, S)
    <3>. SUFFICES ASSUME NEW d \in Dirs, d \in S, NEW n \in DOMAIN dirIndex[d]
                  PROVE  dirIndex[d][n] \in S
      BY Zenon DEF Closed, Dirs
    <3>. DEFINE e == <<d, n>>
    <3>1. e \in Entries
      <4>1. e \in {<<d, k>> : k \in DOMAIN dirIndex[d]}
        BY Zenon
      <4>. QED
        BY <4>1, Zenon DEF Entries
    <3>2. e[1] = d /\ e[2] = n
      BY ONLY TRUE
    <3>. HIDE DEF e
    <3>3. Child(e[1], e[2]) \in S
      BY <3>1, <3>2, Zenon
    <3>4. Child(d, n) \in S
      BY <3>2, <3>3, Zenon
    <3>. QED
      BY <3>4, Zenon DEF Child
  <2>4. Reached(dirIndex, DOMAIN inodes, orphans)
    BY <1>1, <2>2, Zenon DEF ReachOK, ReachInv
  <2>. QED
    BY <2>3, <2>4, Zenon DEF Reached
<1>2. Init => ReachOK
  BY ReachInit, Zenon DEF ReachOK
<1>3. Spec => []ReachOK
  BY <1>2, NamespaceInvariant, ReachStep, PTL DEF Spec
<1>. QED
  BY <1>1, <1>3, PTL
=============================================================================
