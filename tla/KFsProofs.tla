----------------------------- MODULE KFsProofs -----------------------------
(***************************************************************************)
(* Theorems about the file layer, for any disk, any tables and any paths.  *)
(*                                                                         *)
(* The disk by itself: the link counts are the links there are, because    *)
(* directories are a tree (TreeOK); the bitmap is the blocks there are     *)
(* (BlocksExact).  Each operation on the disk is shown to keep both.       *)
(*                                                                         *)
(* The tables on top of it: the counts of files and nodes are exact        *)
(* (FileCounts, NodeCounts), so a node that somebody has is never freed    *)
(* (Anchored) and one without links that nobody has is never left          *)
(* (Orphans).  A slot without a process has either nothing or its unused   *)
(* tables of boot (Tables).                                                *)
(*                                                                         *)
(* ireclaim, the walks along a path and kfs_exit are loops; each turn      *)
(* keeps what a free, a step or a close keeps (Turns), by induction over   *)
(* the set of turns.                                                       *)
(***************************************************************************)
EXTENDS KFs, FiniteSetTheorems, WellFoundedInduction, TLAPS

(* What is no directory has no entries, what is free no links. *)
Plain(d) ==
    \A i \in Inums :
        /\ d.type[i] # "dir" => \A e \in Names : d.ent[i][e] = 0
        /\ d.type[i] = "free" => d.nlink[i] = 0

(* A directory without links is empty, one with links has its dots. *)
Dots(d) ==
    /\ d.type[ROOTINO] = "dir"
    /\ \A i \in Inums : d.type[i] = "dir" =>
          /\ d.nlink[i] = 0 => isdirempty(d, i)
          /\ d.nlink[i] # 0 => d.ent[i][".."] # 0

Child(d, j, e) == e # ".." /\ d.ent[j][e] # 0 /\ d.type[d.ent[j][e]] = "dir"

(* A directory has one entry, in the directory its dots name. *)
Tree(d) ==
    /\ \A j \in Inums, e \in Names : Child(d, j, e) =>
          /\ d.ent[j][e] # ROOTINO /\ d.ent[d.ent[j][e]][".."] = j
          /\ \A g \in Names \ {".."} : d.ent[j][g] = d.ent[j][e] => g = e
    /\ \A i \in Inums \ {ROOTINO} : d.type[i] = "dir" /\ d.nlink[i] # 0 =>
          \E e \in Names \ {".."} : d.ent[d.ent[i][".."]][e] = i

(* The counts are the links, of the free inodes as well. *)
Counted(d) == \A i \in Inums : d.nlink[i] = LinksTo(d, i)

TreeOK(d) == Plain(d) /\ Dots(d) /\ Tree(d) /\ Counted(d)
Sound(d) == d \in Disk /\ TreeOK(d) /\ BlocksExact(d)

(* The counts of files and nodes, as the descriptors of, the files t and the
   current directories cw have them; lf and lc are what is lost. *)
UsersIn(of, f) == {q \in Slots \X Fds : of[q[1]][q[2]] = f}
Having(t, n) == {f \in Files : t[f].node = n}
Being(cw, n) == {p \in Slots : cw[p] = n}

FileCounts(t, of, lf) == \A f \in Files : t[f].ref = Cardinality(UsersIn(of, f)) + lf[f]
NodeCounts(r, t, cw, lc) ==
    \A n \in Node : r[n] = Cardinality(Having(t, n)) + Cardinality(Being(cw, n)) + lc[n]

(* A file is free or has a node; what can be written is on the disk. *)
FilesOK(t) ==
    /\ t \in [Files -> File]
    /\ \A f \in Files :
          /\ t[f].ref = 0 => t[f] = NoFile
          /\ t[f].ref # 0 => t[f].node \in Node
          /\ t[f].type = "inode" /\ t[f].writable => t[f].node[1] = "x"

(* Who has an inode keeps it; who is without links is had by somebody. *)
Anchored(d, r) == \A i \in Inums : r[X(i)] # 0 => d.type[i] # "free"
Orphans(d, r) == \A i \in Inums : d.type[i] # "free" /\ d.nlink[i] = 0 => r[X(i)] # 0

Stable(d, r) == Sound(d) /\ r \in [Node -> Nat] /\ Anchored(d, r) /\ Orphans(d, r)

(* A world with exact counts. *)
Exact(w, of, cw, lf, lc) ==
    /\ Stable(w.disk, w.ref) /\ FilesOK(w.ft)
    /\ FileCounts(w.ft, of, lf) /\ NodeCounts(w.ref, w.ft, cw, lc)

(* The tables of boot, and the slots that still have them. *)
BootTable(p) == [fd \in Fds |-> IF fd <= BOOTFDS THEN BootFile(p, fd) ELSE 0]
Fresh == {p \in Slots \ live : cwd[p] # NoNode}

Tables ==
    /\ \A p \in live : cwd[p] \in Node
    /\ \A p \in Slots \ live : cwd[p] = NoNode => ofile[p] = [fd \in Fds |-> 0]
    /\ \A p \in Fresh :
          /\ cwd[p] = X(ROOTINO) /\ ofile[p] = BootTable(p)
          /\ \A fd \in 1..BOOTFDS : lostFd[BootFile(p, fd)] = 0
    /\ \A f \in Files : lostFd[f] # 0 => f \in BootFiles /\ lostFd[f] = 1
    /\ \A n \in Node : lostCwd[n] # 0 => n = X(ROOTINO)
    /\ lostCwd[X(ROOTINO)] + Cardinality(Fresh) < Cardinality(Slots)

(* The inductive invariant. *)
IInv ==
    TypeOK /\ Exact(World, ofile, cwd, lostFd, lostCwd) /\ Tables /\ NobodyStranded

-----------------------------------------------------------------------------
(* A non-empty set of naturals has a least element. *)
LEMMA LeastNat ==
    ASSUME NEW S \in SUBSET Nat, S # {}
    PROVE  \E m \in S : \A k \in S : m <= k
  <1> DEFINE R == {ss \in Nat \X Nat : ss[1] < ss[2]}
  <1>1. IsWellFoundedOn(R, Nat)
    BY NatLessThanWellFounded DEF OpToRel
  <1> HIDE DEF R
  <1>2. PICK m \in S : \A k \in S : ~(<<k, m>> \in R)
    BY <1>1, WFMin
  <1>3. \A k \in S : ~(k < m)
    BY <1>2 DEF R
  <1> QED BY <1>3

LEMMA LeastIn ==
    ASSUME NEW S \in SUBSET Nat, S # {}
    PROVE  Least(S) \in S
  <1>1. \E m \in S : \A k \in S : m <= k
    BY LeastNat
  <1> QED BY <1>1 DEF Least

(* What the proofs use of the parameters. *)
LEMMA Params ==
    /\ NINODES \in Nat /\ NBLOCKS \in Nat /\ NOFILE \in Nat /\ NFILE \in Nat
    /\ ROOTINO \in Inums /\ 1 \in Blocks /\ 0 \notin Inums /\ 0 \notin Blocks
    /\ Inums \subseteq Nat /\ Blocks \subseteq Nat /\ Files \subseteq Nat /\ Fds \subseteq Nat
    /\ 0..NINODES = Inums \cup {0} /\ 0..NBLOCKS = Blocks \cup {0} /\ 0..NFILE = Files \cup {0}
    /\ ".." \in Names /\ "dev" \in Names /\ "a" \in Names
    /\ IsFiniteSet(Names) /\ IsFiniteSet(Slots) /\ Slots \subseteq Nat /\ Slots # {}
    /\ IsFiniteSet(Inums) /\ IsFiniteSet(Files) /\ IsFiniteSet(Fds)
  <1>1. IsFiniteSet(1..NINODES) /\ IsFiniteSet(1..NFILE) /\ IsFiniteSet(1..NOFILE)
    BY FS_Interval, KFsAssumption
  <1> QED BY <1>1, KFsAssumption DEF Inums, Blocks, Files, Fds, ROOTINO

LEMMA DiskFields ==
    ASSUME NEW d \in Disk
    PROVE  /\ d.type \in [Inums -> {"free", "file", "dir"}]
           /\ d.nlink \in [Inums -> Nat]
           /\ d.ent \in [Inums -> [Names -> 0..NINODES]]
           /\ d.data \in [Inums -> SUBSET Blocks]
           /\ d.ind \in [Inums -> 0..NBLOCKS]
           /\ d.bitmap \in SUBSET Blocks
           /\ \A i \in Inums, e \in Names : d.ent[i][e] # 0 => d.ent[i][e] \in Inums
  <1>1. 0..NINODES = Inums \cup {0}
    BY Params
  <1>2. d.ent \in [Inums -> [Names -> 0..NINODES]]
    BY DEF Disk
  <1>3. \A i \in Inums, e \in Names : d.ent[i][e] \in 0..NINODES
    BY <1>2
  <1> QED BY <1>1, <1>3 DEF Disk

-----------------------------------------------------------------------------
(* Links.  The two sets LinksTo counts. *)
Ents(d, i) ==
    {q \in Inums \X (Names \ {".."}) : d.type[q[1]] = "dir" /\ d.ent[q[1]][q[2]] = i}
Subs(d, i) ==
    {j \in Inums \ {ROOTINO} :
        d.type[j] = "dir" /\ d.nlink[j] > 0 /\ d.ent[j][".."] = i}

LEMMA LinkSets ==
    ASSUME NEW d, NEW i
    PROVE  /\ IsFiniteSet(Ents(d, i)) /\ IsFiniteSet(Subs(d, i))
           /\ Cardinality(Ents(d, i)) \in Nat /\ Cardinality(Subs(d, i)) \in Nat
           /\ LinksTo(d, i) = Cardinality(Ents(d, i)) + Cardinality(Subs(d, i))
                              + IF i = ROOTINO THEN 1 ELSE 0
  <1>1. IsFiniteSet(Names \ {".."})
    BY Params, FS_RemoveElement
  <1>2. IsFiniteSet(Inums \X (Names \ {".."}))
    BY <1>1, Params, FS_Product
  <1>3. IsFiniteSet(Ents(d, i))
    <2>1. Ents(d, i) \in SUBSET (Inums \X (Names \ {".."}))
      BY DEF Ents
    <2> QED BY <1>2, <2>1, FS_Subset
  <1>4. IsFiniteSet(Subs(d, i))
    <2>1. Subs(d, i) \in SUBSET Inums
      BY DEF Subs
    <2> QED BY Params, <2>1, FS_Subset
  <1>5. Cardinality(Ents(d, i)) \in Nat /\ Cardinality(Subs(d, i)) \in Nat
    BY <1>3, <1>4, FS_CardinalityType
  <1> QED BY <1>3, <1>4, <1>5 DEF LinksTo, Ents, Subs

(* Counting one more and one less. *)
LEMMA OneMore ==
    ASSUME NEW S, NEW T, NEW x, IsFiniteSet(S), x \notin S, T = S \cup {x}
    PROVE  IsFiniteSet(T) /\ Cardinality(T) = Cardinality(S) + 1
  BY FS_AddElement

LEMMA OneLess ==
    ASSUME NEW S, NEW T, NEW x, IsFiniteSet(S), x \in S, T = S \ {x}
    PROVE  IsFiniteSet(T) /\ Cardinality(T) = Cardinality(S) - 1
  BY FS_RemoveElement

(* What only changes blocks leaves the tree alone. *)
SameTree(d, c) == c.type = d.type /\ c.nlink = d.nlink /\ c.ent = d.ent

LEMMA SameTreeOK ==
    ASSUME NEW d, NEW c, TreeOK(d), SameTree(d, c)
    PROVE  TreeOK(c)
  <1>1. Plain(c)
    BY DEF TreeOK, SameTree, Plain
  <1>2. Dots(c)
    BY DEF TreeOK, SameTree, Dots, isdirempty
  <1>3. Tree(c)
    BY DEF TreeOK, SameTree, Tree, Child
  <1>4. \A i : LinksTo(c, i) = LinksTo(d, i)
    BY DEF SameTree, LinksTo
  <1>5. Counted(c)
    BY <1>4 DEF TreeOK, SameTree, Counted
  <1> QED BY <1>1, <1>2, <1>3, <1>5 DEF TreeOK

(* An entry is a link: what is named has links, so it is not free. *)
LEMMA NamedHasLinks ==
    ASSUME NEW d \in Disk, TreeOK(d), NEW j \in Inums, NEW e \in Names \ {".."},
           d.ent[j][e] # 0
    PROVE  /\ d.type[j] = "dir" /\ d.nlink[j] > 0
           /\ d.ent[j][e] \in Inums /\ d.nlink[d.ent[j][e]] > 0
           /\ d.type[d.ent[j][e]] # "free"
  <1> DEFINE i == d.ent[j][e]
  <1>1. i \in Inums
    BY DiskFields
  <1>2. d.type[j] = "dir"
    BY DEF TreeOK, Plain
  <1>3. d.nlink[j] # 0
    BY <1>2 DEF TreeOK, Dots, isdirempty
  <1>4. <<j, e>> \in Ents(d, i)
    BY <1>2 DEF Ents
  <1>5. Cardinality(Ents(d, i)) # 0
    BY <1>4, LinkSets, FS_EmptySet
  <1>6. d.nlink[i] = LinksTo(d, i)
    BY <1>1 DEF TreeOK, Counted
  <1>7. d.nlink[i] > 0
    BY <1>5, <1>6, LinkSets
  <1>8. d.nlink[j] \in Nat
    BY DiskFields
  <1> QED BY <1>1, <1>2, <1>3, <1>7, <1>8 DEF TreeOK, Plain

LEMMA RootHasLinks ==
    ASSUME NEW d \in Disk, TreeOK(d)
    PROVE  d.nlink[ROOTINO] > 0 /\ d.type[ROOTINO] = "dir"
  <1>1. d.nlink[ROOTINO] = LinksTo(d, ROOTINO)
    BY Params DEF TreeOK, Counted
  <1>2. LinksTo(d, ROOTINO) > 0
    BY LinkSets
  <1> QED BY <1>1, <1>2 DEF TreeOK, Dots

-----------------------------------------------------------------------------
(* Blocks. *)

(* BlocksExact, block by block. *)
OneHolder(d) ==
    /\ \A b : b \in d.bitmap <=> \E i \in Inums : b \in Held(d, i)
    /\ \A i, j \in Inums : i # j => \A b : ~(b \in Held(d, i) /\ b \in Held(d, j))
    /\ \A i \in Inums : d.ind[i] \notin d.data[i]
                        /\ (d.type[i] = "free" => Held(d, i) = {})

LEMMA BlocksPointwise ==
    ASSUME NEW d
    PROVE  BlocksExact(d) <=> OneHolder(d)
  <1>1. (d.bitmap = UNION {Held(d, i) : i \in Inums})
        <=> \A b : b \in d.bitmap <=> \E i \in Inums : b \in Held(d, i)
    OBVIOUS
  <1>2. ASSUME NEW i \in Inums, NEW j \in Inums
        PROVE  (Held(d, i) \cap Held(d, j) = {})
               <=> \A b : ~(b \in Held(d, i) /\ b \in Held(d, j))
    OBVIOUS
  <1> QED BY <1>1, <1>2 DEF BlocksExact, OneHolder

(* Disk c is d with some free blocks added to inode i. *)
Grown(d, c, i) ==
    /\ c \in Disk /\ SameTree(d, c) /\ c.ind[i] \notin c.data[i]
    /\ \A j \in Inums \ {i} : c.data[j] = d.data[j] /\ c.ind[j] = d.ind[j]
    /\ \E N \in SUBSET FreeBlocks(d) :
          c.bitmap = d.bitmap \cup N /\ Held(c, i) = Held(d, i) \cup N

LEMMA GrownBlocks ==
    ASSUME NEW d, NEW c, NEW i \in Inums, d \in Disk, BlocksExact(d), Grown(d, c, i),
           d.type[i] # "free"
    PROVE  BlocksExact(c)
  <1>1. PICK N \in SUBSET FreeBlocks(d) :
            c.bitmap = d.bitmap \cup N /\ Held(c, i) = Held(d, i) \cup N
    BY DEF Grown
  <1>2. OneHolder(d)
    BY BlocksPointwise
  <1>3. \A j \in Inums \ {i} : Held(c, j) = Held(d, j)
    BY DEF Grown, Held
  <1>4. \A b \in N : b \notin d.bitmap
    BY DEF FreeBlocks
  <1>5. \A b : b \in c.bitmap <=> \E j \in Inums : b \in Held(c, j)
    BY <1>1, <1>2, <1>3 DEF OneHolder
  <1>6. \A j \in Inums, b \in N : b \notin Held(d, j)
    BY <1>2, <1>4 DEF OneHolder
  <1>7. \A j, k \in Inums : j # k => \A b : ~(b \in Held(c, j) /\ b \in Held(c, k))
    BY <1>1, <1>2, <1>3, <1>6 DEF OneHolder
  <1>8. \A j \in Inums : c.ind[j] \notin c.data[j] /\ (c.type[j] = "free" => Held(c, j) = {})
    BY <1>2, <1>3 DEF OneHolder, Grown, SameTree
  <1>9. OneHolder(c)
    BY <1>5, <1>7, <1>8 DEF OneHolder
  <1> QED BY <1>9, BlocksPointwise

(* Nothing changes for the blocks. *)
SameBlocks(d, c) ==
    /\ c.bitmap = d.bitmap /\ c.data = d.data /\ c.ind = d.ind
    /\ \A i \in Inums : c.type[i] = "free" => d.type[i] = "free"

LEMMA SameBlocksOK ==
    ASSUME NEW d, NEW c, BlocksExact(d), SameBlocks(d, c)
    PROVE  BlocksExact(c)
  <1>1. \A i \in Inums : Held(c, i) = Held(d, i)
    BY DEF SameBlocks, Held
  <1>2. OneHolder(d)
    BY BlocksPointwise
  <1>3. OneHolder(c)
    BY <1>1, <1>2 DEF OneHolder, SameBlocks
  <1> QED BY <1>3, BlocksPointwise

LEMMA FreeBlock ==
    ASSUME NEW d \in Disk, FreeBlocks(d) # {}
    PROVE  Least(FreeBlocks(d)) \in Blocks /\ Least(FreeBlocks(d)) \notin d.bitmap
  <1>1. FreeBlocks(d) \in SUBSET Nat
    BY Params DEF FreeBlocks
  <1> QED BY <1>1, LeastIn DEF FreeBlocks

(* A disk with a bitmap M and, for inode i, the data blocks B. *)
WithData(d, i, M, B) == [[d EXCEPT !.bitmap = M] EXCEPT !.data[i] = B]

LEMMA DataSet ==
    ASSUME NEW d \in Disk, NEW i \in Inums, NEW M \in SUBSET Blocks, NEW B \in SUBSET Blocks,
           NEW c, c = WithData(d, i, M, B)
    PROVE  /\ c \in Disk /\ SameTree(d, c) /\ c.bitmap = M
           /\ c.ind = d.ind /\ c.data = [d.data EXCEPT ![i] = B]
  BY DEF WithData, Disk, SameTree

LEMMA BmapGrows ==
    ASSUME NEW d \in Disk, BlocksExact(d), NEW i \in Inums
    PROVE  Grown(d, bmap(d, i), i)
  <1> DEFINE b == Least(FreeBlocks(d))
             d1 == [balloc(d) EXCEPT !.ind[i] = b]
             c == Least(FreeBlocks(d1))
             r == bmap(d, i)
  <1> USE DiskFields
  <1>0. OneHolder(d)
    BY BlocksPointwise
  <1>1. CASE FreeBlocks(d) = {}
    <2>1. r = d
      BY <1>1 DEF bmap
    <2>2. {} \in SUBSET FreeBlocks(d) /\ d.bitmap = d.bitmap \cup {}
          /\ Held(d, i) = Held(d, i) \cup {}
      OBVIOUS
    <2> QED BY <2>1, <2>2, <1>0 DEF Grown, SameTree, OneHolder
  <1>2. CASE FreeBlocks(d) # {}
    <2>1. b \in Blocks /\ b \notin d.bitmap /\ b # 0 /\ b \in FreeBlocks(d)
      BY <1>2, FreeBlock, Params DEF FreeBlocks
    <2>2. d.ind[i] # 0 => d.ind[i] \in d.bitmap
      BY <1>0 DEF OneHolder, Held
    <2>3. d.data[i] \subseteq d.bitmap
      BY <1>0 DEF OneHolder, Held
    <2> HIDE DEF b
    <2>4. d1 \in Disk /\ SameTree(d, d1) /\ d1.bitmap = d.bitmap \cup {b}
          /\ d1.data = d.data /\ d1.ind = [d.ind EXCEPT ![i] = b]
      BY <2>1, Params DEF Disk, SameTree, balloc, b
    <2>5. CASE Cardinality(d.data[i]) < NDIRECT \/ d.ind[i] # 0
      <3>1. r = [balloc(d) EXCEPT !.data[i] = @ \cup {b}]
        BY <1>2, <2>5 DEF bmap, b
      <3>2. r \in Disk /\ SameTree(d, r) /\ r.bitmap = d.bitmap \cup {b}
            /\ r.ind = d.ind /\ r.data = [d.data EXCEPT ![i] = @ \cup {b}]
        <4>1. balloc(d) = [d EXCEPT !.bitmap = @ \cup {b}]
          BY DEF balloc, b
        <4> DEFINE M == d.bitmap \cup {b}
                   B == d.data[i] \cup {b}
        <4>2. M \in SUBSET Blocks /\ B \in SUBSET Blocks
          BY <2>1
        <4>3. r = WithData(d, i, M, B)
          BY <3>1, <4>1 DEF Disk, WithData
        <4> HIDE DEF r, M, B
        <4>4. r \in Disk /\ SameTree(d, r) /\ r.bitmap = M
              /\ r.ind = d.ind /\ r.data = [d.data EXCEPT ![i] = B]
          BY <4>2, <4>3, DataSet
        <4> QED BY <4>4 DEF M, B
      <3> HIDE DEF r
      <3>3. Held(r, i) = Held(d, i) \cup {b}
        BY <3>2 DEF Held
      <3>4. r.ind[i] \notin r.data[i]
        BY <3>2, <2>1, <2>2, <1>0 DEF OneHolder
      <3>5. {b} \in SUBSET FreeBlocks(d)
        BY <2>1
      <3>6. \A j \in Inums \ {i} : r.data[j] = d.data[j] /\ r.ind[j] = d.ind[j]
        BY <3>2
      <3> QED BY <3>2, <3>3, <3>4, <3>5, <3>6 DEF Grown, r
    <2>6. CASE ~(Cardinality(d.data[i]) < NDIRECT \/ d.ind[i] # 0) /\ FreeBlocks(d1) = {}
      <3>1. r = d1
        BY <1>2, <2>6 DEF bmap, b
      <3>2. Held(d1, i) = Held(d, i) \cup {b}
        BY <2>1, <2>4, <2>6 DEF Held
      <3>3. d1.ind[i] \notin d1.data[i]
        BY <2>1, <2>3, <2>4
      <3>4. {b} \in SUBSET FreeBlocks(d)
        BY <2>1
      <3> HIDE DEF d1
      <3>5. \A j \in Inums \ {i} : d1.data[j] = d.data[j] /\ d1.ind[j] = d.ind[j]
        BY <2>4
      <3>6. Grown(d, d1, i)
        BY <3>2, <3>3, <3>4, <3>5, <2>4 DEF Grown
      <3> QED BY <3>1, <3>6
    <2>7. CASE ~(Cardinality(d.data[i]) < NDIRECT \/ d.ind[i] # 0) /\ FreeBlocks(d1) # {}
      <3>1. r = [balloc(d1) EXCEPT !.data[i] = @ \cup {c}]
        BY <1>2, <2>7 DEF bmap, b
      <3> HIDE DEF d1
      <3>2. c \in Blocks /\ c \notin d1.bitmap
        BY <2>4, <2>7, FreeBlock
      <3>3. r \in Disk /\ SameTree(d, r) /\ r.bitmap = d.bitmap \cup {b, c}
            /\ r.ind = [d.ind EXCEPT ![i] = b] /\ r.data = [d.data EXCEPT ![i] = @ \cup {c}]
        <4>1. balloc(d1) = [d1 EXCEPT !.bitmap = @ \cup {c}]
          BY DEF balloc
        <4> HIDE DEF c
        <4> DEFINE M == d1.bitmap \cup {c}
                   B == d1.data[i] \cup {c}
        <4>2. M \in SUBSET Blocks /\ B \in SUBSET Blocks
          BY <3>2, <2>4
        <4>3. r = WithData(d1, i, M, B)
          BY <3>1, <4>1, <2>4 DEF Disk, WithData
        <4> HIDE DEF r, M, B
        <4>4. r \in Disk /\ SameTree(d1, r) /\ r.bitmap = M
              /\ r.ind = d1.ind /\ r.data = [d1.data EXCEPT ![i] = B]
          BY <4>2, <4>3, <2>4, DataSet
        <4> QED BY <4>4, <2>4 DEF SameTree, M, B
      <3> HIDE DEF r, c
      <3>4. Held(r, i) = Held(d, i) \cup {b, c}
        BY <3>3, <2>1, <2>7 DEF Held
      <3>5. r.ind[i] \notin r.data[i]
        BY <3>2, <3>3, <2>1, <2>3, <2>4
      <3>6. {b, c} \in SUBSET FreeBlocks(d)
        BY <3>2, <2>1, <2>4 DEF FreeBlocks
      <3>7. \A j \in Inums \ {i} : r.data[j] = d.data[j] /\ r.ind[j] = d.ind[j]
        BY <3>3
      <3> QED BY <3>3, <3>4, <3>5, <3>6, <3>7 DEF Grown, r
    <2> QED BY <2>5, <2>6, <2>7
  <1> QED BY <1>1, <1>2

(* Disk c is d without the blocks of inode i. *)
Cut(d, c, i) ==
    /\ c \in Disk /\ c.bitmap = d.bitmap \ Held(d, i)
    /\ c.data = [d.data EXCEPT ![i] = {}] /\ c.ind = [d.ind EXCEPT ![i] = 0]

LEMMA CutBlocks ==
    ASSUME NEW d, NEW c, NEW i \in Inums, d \in Disk, BlocksExact(d), Cut(d, c, i),
           \A j \in Inums \ {i} : c.type[j] = d.type[j]
    PROVE  BlocksExact(c)
  <1> USE DiskFields
  <1>1. OneHolder(d)
    BY BlocksPointwise
  <1>2. Held(c, i) = {}
    BY DEF Cut, Held
  <1>3. \A j \in Inums \ {i} : Held(c, j) = Held(d, j)
    BY DEF Cut, Held
  <1>4. \A b : b \in c.bitmap <=> \E j \in Inums : b \in Held(c, j)
    BY <1>1, <1>2, <1>3 DEF OneHolder, Cut
  <1>5. \A j, k \in Inums : j # k => \A b : ~(b \in Held(c, j) /\ b \in Held(c, k))
    BY <1>1, <1>2, <1>3 DEF OneHolder
  <1>6. \A j \in Inums : c.ind[j] \notin c.data[j] /\ (c.type[j] = "free" => Held(c, j) = {})
    BY <1>1, <1>2, <1>3 DEF OneHolder, Cut
  <1>7. OneHolder(c)
    BY <1>4, <1>5, <1>6 DEF OneHolder
  <1> QED BY <1>7, BlocksPointwise

LEMMA ItruncCuts ==
    ASSUME NEW d \in Disk, NEW i \in Inums
    PROVE  Cut(d, itrunc(d, i), i) /\ SameTree(d, itrunc(d, i))
  BY DiskFields, Params DEF itrunc, Cut, SameTree, Disk

LEMMA ItruncIsSound ==
    ASSUME NEW d, Sound(d), NEW i \in Inums
    PROVE  Sound(itrunc(d, i)) /\ SameTree(d, itrunc(d, i))
  <1>1. Cut(d, itrunc(d, i), i) /\ SameTree(d, itrunc(d, i))
    BY ItruncCuts DEF Sound
  <1>2. BlocksExact(itrunc(d, i))
    BY <1>1, CutBlocks DEF Sound, SameTree
  <1> QED BY <1>1, <1>2, SameTreeOK DEF Sound, Cut

-----------------------------------------------------------------------------
(* The operations on the tree. *)

Types == [Inums -> {"free", "file", "dir"}]
Entries == [Inums -> [Names -> 0..NINODES]]

(* A disk with another tree. *)
WithTree(d, T, L, E) == [d EXCEPT !.type = T, !.nlink = L, !.ent = E]

LEMMA TreeSet ==
    ASSUME NEW d \in Disk, NEW T \in Types, NEW L \in [Inums -> Nat], NEW E \in Entries,
           NEW c, c = WithTree(d, T, L, E)
    PROVE  /\ c \in Disk /\ c.type = T /\ c.nlink = L /\ c.ent = E
           /\ c.bitmap = d.bitmap /\ c.data = d.data /\ c.ind = d.ind
  BY DEF WithTree, Disk, Types, Entries

(* Inode i, which has no links, is freed. *)
Freed(d, c, i) ==
    /\ c.type = [d.type EXCEPT ![i] = "free"] /\ c.nlink = d.nlink
    /\ c.ent = [d.ent EXCEPT ![i] = [e \in Names |-> 0]]

LEMMA FreedTree ==
    ASSUME NEW d \in Disk, TreeOK(d), NEW i \in Inums, d.nlink[i] = 0,
           NEW c \in Disk, Freed(d, c, i)
    PROVE  TreeOK(c)
  <1> USE DiskFields
  <1>1. i # ROOTINO
    BY RootHasLinks
  <1>2. \A e \in Names \ {".."} : d.ent[i][e] = 0
    BY NamedHasLinks
  <1>3. \A e \in Names : c.ent[i][e] = 0
    BY DEF Freed
  <1>4. \A j \in Inums \ {i} : c.type[j] = d.type[j] /\ c.ent[j] = d.ent[j]
    BY DEF Freed
  <1>5. c.type[i] = "free" /\ \A j \in Inums : c.nlink[j] = d.nlink[j]
    BY DEF Freed
  <1>6. Plain(c)
    BY <1>3, <1>4, <1>5 DEF TreeOK, Plain
  <1>7. Dots(c)
    <2>1. c.type[ROOTINO] = "dir"
      BY <1>1, <1>4, Params DEF TreeOK, Dots
    <2>2. ASSUME NEW j \in Inums, c.type[j] = "dir"
          PROVE  /\ c.nlink[j] = 0 => isdirempty(c, j)
                 /\ c.nlink[j] # 0 => c.ent[j][".."] # 0
      <3>1. j # i
        BY <2>2, <1>5
      <3> QED BY <2>2, <3>1, <1>4, <1>5 DEF TreeOK, Dots, isdirempty
    <2> QED BY <2>1, <2>2 DEF Dots
  <1>8. Tree(c)
    <2>1. ASSUME NEW j \in Inums, NEW e \in Names, Child(c, j, e)
          PROVE  /\ c.ent[j][e] # ROOTINO /\ c.ent[c.ent[j][e]][".."] = j
                 /\ \A g \in Names \ {".."} : c.ent[j][g] = c.ent[j][e] => g = e
      <3>1. j # i
        BY <2>1, <1>3 DEF Child
      <3>2. c.ent[j][e] = d.ent[j][e] /\ d.ent[j][e] \in Inums
        BY <2>1, <3>1, <1>4 DEF Child
      <3>3. d.ent[j][e] # i
        BY <2>1, <3>2, <1>5 DEF Child
      <3>4. Child(d, j, e)
        BY <2>1, <3>2, <3>3, <1>4 DEF Child
      <3> QED BY <3>1, <3>2, <3>3, <3>4, <1>4 DEF TreeOK, Tree
    <2>2. ASSUME NEW j \in Inums \ {ROOTINO}, c.type[j] = "dir", c.nlink[j] # 0
          PROVE  \E e \in Names \ {".."} : c.ent[c.ent[j][".."]][e] = j
      <3>1. j # i /\ d.type[j] = "dir" /\ d.nlink[j] # 0 /\ c.ent[j] = d.ent[j]
        BY <2>2, <1>4, <1>5
      <3>2. PICK e \in Names \ {".."} : d.ent[d.ent[j][".."]][e] = j
        BY <3>1 DEF TreeOK, Tree
      <3>3. d.ent[j][".."] \in Inums
        BY <3>1, Params DEF TreeOK, Dots
      <3>4. d.ent[j][".."] # i
        BY <3>2, <1>2, Params
      <3> QED BY <3>1, <3>2, <3>3, <3>4, <1>4
    <2> QED BY <2>1, <2>2 DEF Tree
  <1>9. ASSUME NEW k \in Inums PROVE LinksTo(c, k) = LinksTo(d, k)
    <2>1. Ents(c, k) = Ents(d, k)
      <3>1. ASSUME NEW j \in Inums, NEW e \in Names \ {".."}
            PROVE  c.type[j] = "dir" /\ c.ent[j][e] = k <=> d.type[j] = "dir" /\ d.ent[j][e] = k
        BY <1>2, <1>3, <1>4, Params
      <3> QED BY <3>1 DEF Ents
    <2>2. Subs(c, k) = Subs(d, k)
      <3>1. ASSUME NEW j \in Inums
            PROVE  c.type[j] = "dir" /\ c.nlink[j] > 0 /\ c.ent[j][".."] = k
                   <=> d.type[j] = "dir" /\ d.nlink[j] > 0 /\ d.ent[j][".."] = k
        BY <1>4, <1>5
      <3> QED BY <3>1 DEF Subs
    <2> QED BY <2>1, <2>2, LinkSets
  <1>10. Counted(c)
    BY <1>5, <1>9 DEF TreeOK, Counted
  <1> QED BY <1>6, <1>7, <1>8, <1>10 DEF TreeOK

LEMMA IfreeIs ==
    ASSUME NEW d \in Disk, NEW i \in Inums
    PROVE  Freed(d, ifree(d, i), i) /\ Cut(d, ifree(d, i), i)
  <1> DEFINE t == itrunc(d, i)
             z == [e \in Names |-> 0]
  <1>1. Cut(d, t, i) /\ SameTree(d, t)
    BY ItruncCuts
  <1>2. ifree(d, i) = [t EXCEPT !.type[i] = "free", !.ent[i] = z]
    BY DEF ifree
  <1>3. t \in Disk
    BY <1>1 DEF Cut
  <1>4. z \in [Names -> 0..NINODES]
    BY Params
  <1> HIDE DEF t, z
  <1>5. ifree(d, i) \in Disk
    <2> DEFINE T == [t.type EXCEPT ![i] = "free"]
               E == [t.ent EXCEPT ![i] = z]
               L == t.nlink
    <2>1. T \in Types /\ E \in Entries /\ L \in [Inums -> Nat]
      BY <1>3, <1>4, DiskFields DEF Types, Entries
    <2>2. ifree(d, i) = WithTree(t, T, L, E)
      BY <1>2, <1>3 DEF Disk, WithTree
    <2> HIDE DEF T, E, L
    <2> QED BY <2>1, <2>2, <1>3, TreeSet
  <1>6. /\ ifree(d, i).type = [t.type EXCEPT ![i] = "free"] /\ ifree(d, i).nlink = t.nlink
        /\ ifree(d, i).ent = [t.ent EXCEPT ![i] = z]
        /\ ifree(d, i).bitmap = t.bitmap /\ ifree(d, i).data = t.data /\ ifree(d, i).ind = t.ind
    BY <1>2, <1>3 DEF Disk
  <1> QED BY <1>1, <1>5, <1>6 DEF Freed, Cut, SameTree, z

LEMMA IfreeIsSound ==
    ASSUME NEW d, Sound(d), NEW i \in Inums, d.nlink[i] = 0
    PROVE  Sound(ifree(d, i)) /\ Freed(d, ifree(d, i), i)
  <1> DEFINE c == ifree(d, i)
  <1>1. d \in Disk /\ TreeOK(d) /\ BlocksExact(d)
    BY DEF Sound
  <1>2. Freed(d, c, i) /\ Cut(d, c, i) /\ c \in Disk
    BY <1>1, IfreeIs DEF Cut
  <1> HIDE DEF c
  <1>3. TreeOK(c)
    BY <1>1, <1>2, FreedTree
  <1>4. \A j \in Inums \ {i} : c.type[j] = d.type[j]
    BY <1>1, <1>2, DiskFields DEF Freed
  <1>5. BlocksExact(c)
    BY <1>1, <1>2, <1>4, CutBlocks
  <1> QED BY <1>2, <1>3, <1>5 DEF Sound, c

(* Free inode i becomes one of type ty, named so in the directory dp. *)
Made(d, c, i, dp, name, ty) ==
    /\ c \in Disk /\ c.type = [d.type EXCEPT ![i] = ty]
    /\ \A k \in Inums, e \in Names :
          c.ent[k][e] = IF k = dp /\ e = name THEN i
                        ELSE IF ty = "dir" /\ k = i /\ e = ".." THEN dp ELSE d.ent[k][e]
    /\ \A k \in Inums :
          c.nlink[k] = IF k = i THEN 1
                       ELSE IF ty = "dir" /\ k = dp THEN d.nlink[k] + 1 ELSE d.nlink[k]

(* A directory where a name is free. *)
Vacant(d, dp, name) ==
    /\ dp \in Inums /\ d.type[dp] = "dir" /\ d.nlink[dp] # 0
    /\ name \in Names /\ d.ent[dp][name] = 0

LEMMA NoDots ==
    ASSUME NEW d, TreeOK(d), NEW dp, NEW name, Vacant(d, dp, name)
    PROVE  name # ".."
  BY DEF TreeOK, Dots, Vacant

LEMMA MadeTree ==
    ASSUME NEW d \in Disk, TreeOK(d), NEW dp, NEW name, Vacant(d, dp, name),
           NEW i \in Inums, d.type[i] = "free", NEW ty \in {"file", "dir"},
           NEW c, Made(d, c, i, dp, name, ty)
    PROVE  TreeOK(c)
  <1> USE DiskFields
  <1>1. name # ".." /\ dp \in Inums /\ name \in Names /\ d.ent[dp][name] = 0
    BY NoDots DEF Vacant
  <1>2. i # dp /\ i # ROOTINO
    BY RootHasLinks DEF Vacant
  <1>3. c \in Disk /\ c.type[i] = ty /\ \A k \in Inums \ {i} : c.type[k] = d.type[k]
    BY DEF Made
  <1>4. \A e \in Names : d.ent[i][e] = 0
    BY DEF TreeOK, Plain
  <1>5. \A k \in Inums, e \in Names \ {".."} : d.ent[k][e] # i
    BY NamedHasLinks, Params
  <1>6. c.ent[dp][name] = i
    BY <1>1 DEF Made
  <1>7. \A k \in Inums, e \in Names \ {".."} : k # dp \/ e # name => c.ent[k][e] = d.ent[k][e]
    BY DEF Made
  <1>8. \A k \in Inums \ {i} : c.ent[k][".."] = d.ent[k][".."]
    BY <1>1, Params DEF Made
  <1>9. c.ent[i][".."] = IF ty = "dir" THEN dp ELSE 0
    BY <1>1, <1>2, <1>4, Params DEF Made
  <1>10. /\ c.nlink[i] = 1 /\ c.nlink[dp] = IF ty = "dir" THEN d.nlink[dp] + 1 ELSE d.nlink[dp]
         /\ \A k \in Inums \ {i, dp} : c.nlink[k] = d.nlink[k]
    BY <1>1, <1>2 DEF Made
  <1>11. d.nlink[dp] > 0 /\ d.type[dp] = "dir" /\ d.nlink[i] = 0
    BY DEF TreeOK, Plain, Vacant
  <1>12. \A e \in Names \ {".."} : c.ent[i][e] = 0
    BY <1>2, <1>4, <1>7
  <1>13. Plain(c)
    <2> SUFFICES ASSUME NEW k \in Inums
                 PROVE  /\ c.type[k] # "dir" => \A e \in Names : c.ent[k][e] = 0
                        /\ c.type[k] = "free" => c.nlink[k] = 0
      BY DEF Plain
    <2>1. CASE k = i
      BY <2>1, <1>3, <1>9, <1>12
    <2>2. CASE k = dp
      BY <2>2, <1>2, <1>3, <1>11
    <2>3. CASE k # i /\ k # dp
      <3>1. \A e \in Names : c.ent[k][e] = d.ent[k][e]
        BY <2>3, <1>7, <1>8
      <3> QED BY <2>3, <3>1, <1>3, <1>10 DEF TreeOK, Plain
    <2> QED BY <2>1, <2>2, <2>3
  <1>14. Dots(c)
    <2>1. c.type[ROOTINO] = "dir"
      BY <1>2, <1>3, Params DEF TreeOK, Dots
    <2>2. ASSUME NEW k \in Inums, c.type[k] = "dir"
          PROVE  /\ c.nlink[k] = 0 => isdirempty(c, k)
                 /\ c.nlink[k] # 0 => c.ent[k][".."] # 0
      <3>1. CASE k = i
        BY <2>2, <3>1, <1>1, <1>3, <1>9, <1>10, Params
      <3>2. CASE k = dp
        BY <3>2, <1>2, <1>8, <1>10, <1>11 DEF TreeOK, Dots
      <3>3. CASE k # i /\ k # dp
        <4>1. \A e \in Names : c.ent[k][e] = d.ent[k][e]
          BY <3>3, <1>7, <1>8
        <4> QED BY <2>2, <3>3, <4>1, <1>3, <1>10, Params DEF TreeOK, Dots, isdirempty
      <3> QED BY <3>1, <3>2, <3>3
    <2> QED BY <2>1, <2>2 DEF Dots
  <1>15. Tree(c)
    <2>1. ASSUME NEW j \in Inums, NEW e \in Names, Child(c, j, e)
          PROVE  /\ c.ent[j][e] # ROOTINO /\ c.ent[c.ent[j][e]][".."] = j
                 /\ \A g \in Names \ {".."} : c.ent[j][g] = c.ent[j][e] => g = e
      <3>0. e # ".."
        BY <2>1 DEF Child
      <3>1. CASE j = dp /\ e = name
        BY <2>1, <3>1, <1>2, <1>3, <1>5, <1>6, <1>7, <1>9 DEF Child
      <3>2. CASE ~(j = dp /\ e = name)
        <4>1. c.ent[j][e] = d.ent[j][e] /\ d.ent[j][e] \in Inums
          BY <2>1, <3>0, <3>2, <1>7 DEF Child
        <4>2. d.ent[j][e] # i
          BY <3>0, <1>5
        <4>3. Child(d, j, e)
          BY <2>1, <4>1, <4>2, <1>3 DEF Child
        <4>4. \A g \in Names \ {".."} : c.ent[j][g] = c.ent[j][e] => d.ent[j][g] = d.ent[j][e]
          BY <4>1, <4>2, <1>6, <1>7
        <4> QED BY <4>1, <4>2, <4>3, <4>4, <1>8 DEF TreeOK, Tree
      <3> QED BY <3>1, <3>2
    <2>2. ASSUME NEW k \in Inums \ {ROOTINO}, c.type[k] = "dir", c.nlink[k] # 0
          PROVE  \E e \in Names \ {".."} : c.ent[c.ent[k][".."]][e] = k
      <3>1. CASE k = i
        BY <2>2, <3>1, <1>1, <1>3, <1>6, <1>9
      <3>2. CASE k # i
        <4>1. d.type[k] = "dir" /\ d.nlink[k] # 0 /\ c.ent[k][".."] = d.ent[k][".."]
          BY <2>2, <3>2, <1>3, <1>8, <1>10, <1>11
        <4>2. PICK e \in Names \ {".."} : d.ent[d.ent[k][".."]][e] = k
          BY <4>1 DEF TreeOK, Tree
        <4>3. d.ent[k][".."] \in Inums
          BY <4>1, Params DEF TreeOK, Dots
        <4>4. ~(d.ent[k][".."] = dp /\ e = name)
          BY <4>2, <1>1, Params
        <4> QED BY <4>1, <4>2, <4>3, <4>4, <1>7
      <3> QED BY <3>1, <3>2
    <2> QED BY <2>1, <2>2 DEF Tree
  <1>16. ASSUME NEW k \in Inums PROVE c.nlink[k] = LinksTo(c, k)
    <2>1. d.nlink[k] = LinksTo(d, k)
      BY DEF TreeOK, Counted
    <2>2. Ents(c, k) = IF k = i THEN Ents(d, k) \cup {<<dp, name>>} ELSE Ents(d, k)
      <3>1. ASSUME NEW j \in Inums, NEW e \in Names \ {".."}
            PROVE  c.type[j] = "dir" /\ c.ent[j][e] = k
                   <=> (d.type[j] = "dir" /\ d.ent[j][e] = k) \/ (k = i /\ j = dp /\ e = name)
        <4>1. CASE j = dp /\ e = name
          BY <4>1, <1>1, <1>2, <1>3, <1>6, <1>11, Params
        <4>2. CASE ~(j = dp /\ e = name)
          <5>1. c.ent[j][e] = d.ent[j][e]
            BY <4>2, <1>7
          <5> QED BY <4>2, <5>1, <1>3, <1>4, Params
        <4> QED BY <4>1, <4>2
      <3>2. <<dp, name>> \in Inums \X (Names \ {".."})
        BY <1>1
      <3> QED BY <3>1, <3>2 DEF Ents
    <2>3. Subs(c, k) = IF ty = "dir" /\ k = dp THEN Subs(d, k) \cup {i} ELSE Subs(d, k)
      <3>1. ASSUME NEW j \in Inums
            PROVE  c.type[j] = "dir" /\ c.nlink[j] > 0 /\ c.ent[j][".."] = k
                   <=> (d.type[j] = "dir" /\ d.nlink[j] > 0 /\ d.ent[j][".."] = k)
                       \/ (j = i /\ ty = "dir" /\ k = dp)
        <4>1. CASE j = i
          BY <4>1, <1>3, <1>4, <1>9, <1>10, Params
        <4>2. CASE j # i
          <5>1. c.nlink[j] > 0 <=> d.nlink[j] > 0
            BY <4>2, <1>10, <1>11
          <5> QED BY <4>2, <5>1, <1>3, <1>8
        <4> QED BY <4>1, <4>2
      <3>2. Subs(c, k) = {j \in Inums \ {ROOTINO} :
                             (d.type[j] = "dir" /\ d.nlink[j] > 0 /\ d.ent[j][".."] = k)
                             \/ (j = i /\ ty = "dir" /\ k = dp)}
        BY <3>1 DEF Subs
      <3> QED BY <3>2, <1>2 DEF Subs
    <2>4. <<dp, name>> \notin Ents(d, i) /\ i \notin Subs(d, k)
      BY <1>1, <1>11, Params DEF Ents, Subs
    <2>5. CASE k = i
      <3>1. Cardinality(Ents(c, k)) = Cardinality(Ents(d, k)) + 1
        BY <2>2, <2>4, <2>5, OneMore, LinkSets
      <3>2. Subs(c, k) = Subs(d, k)
        BY <2>3, <2>5, <1>2
      <3> QED BY <2>1, <2>5, <3>1, <3>2, <1>10, <1>11, LinkSets
    <2>6. CASE k = dp /\ ty = "dir"
      <3>1. Cardinality(Subs(c, k)) = Cardinality(Subs(d, k)) + 1
        BY <2>3, <2>4, <2>6, OneMore, LinkSets
      <3>2. Ents(c, k) = Ents(d, k)
        BY <2>2, <2>6, <1>2
      <3> QED BY <2>1, <2>6, <3>1, <3>2, <1>10, LinkSets
    <2>7. CASE k # i /\ ~(k = dp /\ ty = "dir")
      <3>1. Ents(c, k) = Ents(d, k) /\ Subs(c, k) = Subs(d, k)
        BY <2>2, <2>3, <2>7
      <3> QED BY <2>1, <2>7, <3>1, <1>10, LinkSets
    <2> QED BY <2>5, <2>6, <2>7
  <1> QED BY <1>13, <1>14, <1>15, <1>16 DEF TreeOK, Counted

(* File i gets one more name. *)
Linked(d, c, i, dp, name) ==
    /\ c \in Disk /\ c.type = d.type
    /\ \A k \in Inums, e \in Names :
          c.ent[k][e] = IF k = dp /\ e = name THEN i ELSE d.ent[k][e]
    /\ \A k \in Inums : c.nlink[k] = IF k = i THEN d.nlink[k] + 1 ELSE d.nlink[k]

LEMMA LinkedTree ==
    ASSUME NEW d \in Disk, TreeOK(d), NEW dp, NEW name, Vacant(d, dp, name),
           NEW i \in Inums, d.type[i] = "file", NEW c, Linked(d, c, i, dp, name)
    PROVE  TreeOK(c)
  <1> USE DiskFields
  <1>1. name # ".." /\ dp \in Inums /\ name \in Names /\ d.ent[dp][name] = 0
    BY NoDots DEF Vacant
  <1>2. i # dp /\ d.type[dp] = "dir" /\ d.nlink[dp] # 0
    BY DEF Vacant
  <1>3. c \in Disk /\ c.type = d.type
    BY DEF Linked
  <1>4. c.ent[dp][name] = i
    BY <1>1 DEF Linked
  <1>5. \A k \in Inums, e \in Names : k # dp \/ e # name => c.ent[k][e] = d.ent[k][e]
    BY DEF Linked
  <1>6. c.nlink[i] = d.nlink[i] + 1 /\ \A k \in Inums \ {i} : c.nlink[k] = d.nlink[k]
    BY DEF Linked
  <1>7. Plain(c)
    <2> SUFFICES ASSUME NEW k \in Inums, d.type[k] # "dir"
                 PROVE  /\ \A e \in Names : c.ent[k][e] = 0
                        /\ d.type[k] = "free" => c.nlink[k] = 0
      BY <1>3 DEF Plain
    <2>1. \A e \in Names : c.ent[k][e] = d.ent[k][e]
      BY <1>2, <1>5
    <2>2. d.type[k] = "free" => c.nlink[k] = d.nlink[k]
      BY <1>6
    <2> QED BY <2>1, <2>2 DEF TreeOK, Plain
  <1>8. Dots(c)
    <2>1. ASSUME NEW k \in Inums, c.type[k] = "dir"
          PROVE  /\ c.nlink[k] = 0 => isdirempty(c, k)
                 /\ c.nlink[k] # 0 => c.ent[k][".."] # 0
      <3>1. c.nlink[k] = d.nlink[k] /\ c.ent[k][".."] = d.ent[k][".."]
        BY <2>1, <1>1, <1>3, <1>5, <1>6, Params
      <3>2. CASE k = dp
        BY <3>1, <3>2, <1>2 DEF TreeOK, Dots
      <3>3. CASE k # dp
        BY <2>1, <3>1, <3>3, <1>3, <1>5 DEF TreeOK, Dots, isdirempty
      <3> QED BY <3>2, <3>3
    <2> QED BY <2>1, <1>3 DEF TreeOK, Dots
  <1>9. Tree(c)
    <2>1. ASSUME NEW j \in Inums, NEW e \in Names, Child(c, j, e)
          PROVE  /\ c.ent[j][e] # ROOTINO /\ c.ent[c.ent[j][e]][".."] = j
                 /\ \A g \in Names \ {".."} : c.ent[j][g] = c.ent[j][e] => g = e
      <3>1. ~(j = dp /\ e = name)
        BY <2>1, <1>3, <1>4 DEF Child
      <3>2. c.ent[j][e] = d.ent[j][e] /\ d.ent[j][e] \in Inums /\ e # ".."
        BY <2>1, <3>1, <1>5 DEF Child
      <3>3. Child(d, j, e) /\ d.ent[j][e] # i
        BY <2>1, <3>2, <1>3 DEF Child
      <3>4. \A g \in Names \ {".."} : c.ent[j][g] = c.ent[j][e] => d.ent[j][g] = d.ent[j][e]
        BY <3>2, <3>3, <1>4, <1>5
      <3>5. c.ent[d.ent[j][e]][".."] = d.ent[d.ent[j][e]][".."]
        BY <3>2, <1>1, <1>5, Params
      <3> QED BY <3>2, <3>3, <3>4, <3>5 DEF TreeOK, Tree
    <2>2. ASSUME NEW k \in Inums \ {ROOTINO}, c.type[k] = "dir", c.nlink[k] # 0
          PROVE  \E e \in Names \ {".."} : c.ent[c.ent[k][".."]][e] = k
      <3>1. d.type[k] = "dir" /\ d.nlink[k] # 0 /\ c.ent[k][".."] = d.ent[k][".."]
        <4>1. k # i /\ d.type[k] = "dir"
          BY <2>2, <1>3
        <4>2. c.nlink[k] = d.nlink[k]
          BY <4>1, <1>6
        <4>3. c.ent[k][".."] = d.ent[k][".."]
          BY <1>1, <1>5, Params
        <4> QED BY <2>2, <4>1, <4>2, <4>3
      <3>2. PICK e \in Names \ {".."} : d.ent[d.ent[k][".."]][e] = k
        BY <3>1 DEF TreeOK, Tree
      <3>3. d.ent[k][".."] \in Inums
        BY <3>1, Params DEF TreeOK, Dots
      <3>4. ~(d.ent[k][".."] = dp /\ e = name)
        BY <3>2, <1>1, Params
      <3> QED BY <3>1, <3>2, <3>3, <3>4, <1>5
    <2> QED BY <2>1, <2>2 DEF Tree
  <1>10. ASSUME NEW k \in Inums PROVE c.nlink[k] = LinksTo(c, k)
    <2>1. d.nlink[k] = LinksTo(d, k)
      BY DEF TreeOK, Counted
    <2>2. Ents(c, k) = IF k = i THEN Ents(d, k) \cup {<<dp, name>>} ELSE Ents(d, k)
      <3>1. ASSUME NEW j \in Inums, NEW e \in Names \ {".."}
            PROVE  c.type[j] = "dir" /\ c.ent[j][e] = k
                   <=> (d.type[j] = "dir" /\ d.ent[j][e] = k) \/ (k = i /\ j = dp /\ e = name)
        <4>1. CASE j = dp /\ e = name
          BY <4>1, <1>1, <1>2, <1>3, <1>4, Params
        <4>2. CASE ~(j = dp /\ e = name)
          BY <4>2, <1>3, <1>5
        <4> QED BY <4>1, <4>2
      <3>2. <<dp, name>> \in Inums \X (Names \ {".."})
        BY <1>1
      <3> QED BY <3>1, <3>2 DEF Ents
    <2>3. Subs(c, k) = Subs(d, k)
      <3>1. ASSUME NEW j \in Inums
            PROVE  c.type[j] = "dir" /\ c.nlink[j] > 0 /\ c.ent[j][".."] = k
                   <=> d.type[j] = "dir" /\ d.nlink[j] > 0 /\ d.ent[j][".."] = k
        BY <1>1, <1>3, <1>5, <1>6, Params
      <3> QED BY <3>1 DEF Subs
    <2>4. <<dp, name>> \notin Ents(d, i)
      BY <1>1, Params DEF Ents
    <2>5. CASE k = i
      <3>1. Cardinality(Ents(c, k)) = Cardinality(Ents(d, k)) + 1
        BY <2>2, <2>4, <2>5, OneMore, LinkSets
      <3> QED BY <2>1, <2>3, <2>5, <3>1, <1>6, LinkSets
    <2>6. CASE k # i
      <3>1. Ents(c, k) = Ents(d, k)
        BY <2>2, <2>6
      <3> QED BY <2>1, <2>3, <2>6, <3>1, <1>6, LinkSets
    <2> QED BY <2>5, <2>6
  <1> QED BY <1>7, <1>8, <1>9, <1>10 DEF TreeOK, Counted

(* A name goes, and a link with it; with a directory also its dots. *)
Dropped(d, c, dp, name) ==
    LET i == d.ent[dp][name] IN
    /\ c \in Disk /\ c.type = d.type
    /\ \A k \in Inums, e \in Names :
          c.ent[k][e] = IF k = dp /\ e = name THEN 0 ELSE d.ent[k][e]
    /\ \A k \in Inums :
          c.nlink[k] = IF k = i THEN d.nlink[k] - 1
                       ELSE IF d.type[i] = "dir" /\ k = dp THEN d.nlink[k] - 1 ELSE d.nlink[k]

(* An empty directory that has a name has that one link, and its parent has
   another one. *)
LEMMA EmptyDir ==
    ASSUME NEW d \in Disk, TreeOK(d), NEW dp \in Inums, NEW name \in Names \ {".."},
           NEW i \in Inums, d.ent[dp][name] = i, d.type[i] = "dir", isdirempty(d, i)
    PROVE  /\ d.nlink[i] = 1 /\ i # dp /\ i # ROOTINO /\ d.ent[i][".."] = dp
           /\ d.nlink[dp] >= 2 /\ Ents(d, i) = {<<dp, name>>}
  <1> USE DiskFields
  <1>1. Child(d, dp, name)
    BY Params DEF Child
  <1>2. i # ROOTINO /\ d.ent[i][".."] = dp
    BY <1>1 DEF TreeOK, Tree
  <1>3. i # dp
    BY Params DEF isdirempty
  <1>4. d.type[dp] = "dir" /\ d.nlink[dp] > 0 /\ d.nlink[i] > 0
    BY NamedHasLinks, Params
  <1>5. \A j \in Inums, e \in Names \ {".."} : d.ent[j][e] = i => j = dp /\ e = name
    <2> SUFFICES ASSUME NEW j \in Inums, NEW e \in Names \ {".."}, d.ent[j][e] = i
                 PROVE  j = dp /\ e = name
      OBVIOUS
    <2>1. Child(d, j, e)
      BY Params DEF Child
    <2>2. j = dp
      BY <2>1, <1>2 DEF TreeOK, Tree
    <2> QED BY <2>2, <1>1 DEF TreeOK, Tree
  <1>6. Ents(d, i) = {<<dp, name>>}
    BY <1>4, <1>5 DEF Ents
  <1>7. Subs(d, i) = {}
    <2> SUFFICES ASSUME NEW j \in Subs(d, i) PROVE FALSE
      OBVIOUS
    <2>1. PICK e \in Names \ {".."} : d.ent[i][e] = j
      BY DEF Subs, TreeOK, Tree
    <2> QED BY <2>1, Params DEF isdirempty, Subs
  <1>8. d.nlink[i] = 1
    <2>1. d.nlink[i] = LinksTo(d, i)
      BY DEF TreeOK, Counted
    <2>2. Cardinality(Ents(d, i)) = 1 /\ Cardinality(Subs(d, i)) = 0
      BY <1>6, <1>7, FS_Singleton, FS_EmptySet
    <2> QED BY <2>1, <2>2, <1>2, LinkSets
  <1>9. d.nlink[dp] >= 2
    <2>1. d.nlink[dp] = LinksTo(d, dp)
      BY DEF TreeOK, Counted
    <2>2. i \in Subs(d, dp)
      BY <1>2, <1>4 DEF Subs
    <2>3. Cardinality(Subs(d, dp)) # 0
      BY <2>2, LinkSets, FS_EmptySet
    <2> DEFINE m == Cardinality(Ents(d, dp))
               n == Cardinality(Subs(d, dp))
    <2>6. /\ m \in Nat /\ n \in Nat /\ n # 0
          /\ dp = ROOTINO => d.nlink[dp] = m + n + 1
          /\ dp # ROOTINO => d.nlink[dp] = m + n
      BY <2>1, <2>3, LinkSets
    <2> HIDE DEF m, n
    <2>4. CASE dp = ROOTINO
      BY <2>4, <2>6
    <2>5. CASE dp # ROOTINO
      <3>1. PICK e \in Names \ {".."} : d.ent[d.ent[dp][".."]][e] = dp
        BY <2>5, <1>4 DEF TreeOK, Tree
      <3>2. d.ent[dp][".."] \in Inums
        BY <1>4, Params DEF TreeOK, Dots
      <3>3. d.type[d.ent[dp][".."]] = "dir"
        BY <3>1, <3>2, NamedHasLinks, Params
      <3>4. <<d.ent[dp][".."], e>> \in Ents(d, dp)
        BY <3>1, <3>2, <3>3 DEF Ents
      <3>5. m # 0
        BY <3>4, LinkSets, FS_EmptySet DEF m
      <3> QED BY <2>5, <2>6, <3>5
    <2> QED BY <2>4, <2>5
  <1> QED BY <1>2, <1>3, <1>6, <1>8, <1>9

LEMMA DroppedTree ==
    ASSUME NEW d \in Disk, TreeOK(d), NEW dp \in Inums, NEW name \in Names \ {".."},
           NEW i \in Inums, d.ent[dp][name] = i, d.type[i] = "dir" => isdirempty(d, i),
           NEW c, Dropped(d, c, dp, name)
    PROVE  TreeOK(c)
  <1> USE DiskFields
  <1>1. c \in Disk /\ c.type = d.type
    BY DEF Dropped
  <1>2. c.ent[dp][name] = 0
    BY DEF Dropped
  <1>3. \A k \in Inums, e \in Names : k # dp \/ e # name => c.ent[k][e] = d.ent[k][e]
    BY DEF Dropped
  <1>4. \A k \in Inums : c.ent[k][".."] = d.ent[k][".."]
    BY <1>3, Params
  <1>5. d.type[dp] = "dir" /\ d.nlink[dp] > 0 /\ d.nlink[i] > 0 /\ d.type[i] # "free"
    BY NamedHasLinks, Params
  <1>6. d.type[i] = "dir" =>
           /\ d.nlink[i] = 1 /\ i # dp /\ i # ROOTINO /\ d.ent[i][".."] = dp
           /\ d.nlink[dp] >= 2 /\ Ents(d, i) = {<<dp, name>>}
    BY EmptyDir
  <1>7. i # dp
    BY <1>5, <1>6
  <1>8. c.nlink[i] = d.nlink[i] - 1
    BY DEF Dropped
  <1>9. c.nlink[dp] = IF d.type[i] = "dir" THEN d.nlink[dp] - 1 ELSE d.nlink[dp]
    BY <1>7 DEF Dropped
  <1>10. \A k \in Inums \ {i, dp} : c.nlink[k] = d.nlink[k]
    BY DEF Dropped
  <1>11. \A k \in Inums \ {i} : c.nlink[k] > 0 <=> d.nlink[k] > 0
    <2>1. d.nlink[dp] \in Nat
      OBVIOUS
    <2>2. c.nlink[dp] > 0
      <3>1. CASE d.type[i] = "dir"
        BY <3>1, <2>1, <1>6, <1>9
      <3>2. CASE d.type[i] # "dir"
        BY <3>2, <1>5, <1>9
      <3> QED BY <3>1, <3>2
    <2>3. ASSUME NEW k \in Inums \ {i} PROVE c.nlink[k] > 0 <=> d.nlink[k] > 0
      <3>1. CASE k = dp
        BY <3>1, <2>2, <1>5
      <3>2. CASE k # dp
        BY <3>2, <1>10
      <3> QED BY <3>1, <3>2
    <2> QED BY <2>3
  <1>12. d.type[i] = "dir" => c.nlink[i] = 0
    BY <1>6, <1>8
  <1>13. Plain(c)
    <2> SUFFICES ASSUME NEW k \in Inums, d.type[k] # "dir"
                 PROVE  /\ \A e \in Names : c.ent[k][e] = 0
                        /\ d.type[k] = "free" => c.nlink[k] = 0
      BY <1>1 DEF Plain
    <2>1. \A e \in Names : c.ent[k][e] = d.ent[k][e]
      BY <1>3, <1>5
    <2>2. d.type[k] = "free" => c.nlink[k] = d.nlink[k]
      BY <1>5, <1>10
    <2> QED BY <2>1, <2>2 DEF TreeOK, Plain
  <1>14. Dots(c)
    <2>1. ASSUME NEW k \in Inums, d.type[k] = "dir"
          PROVE  /\ c.nlink[k] = 0 => isdirempty(c, k)
                 /\ c.nlink[k] # 0 => c.ent[k][".."] # 0
      <3>1. isdirempty(d, k) => isdirempty(c, k)
        BY <1>2, <1>3 DEF isdirempty
      <3>2. CASE k = i
        BY <2>1, <3>1, <3>2, <1>12
      <3>3. CASE k # i
        <4>1. c.nlink[k] \in Nat /\ d.nlink[k] \in Nat
          BY <1>1
        <4>2. c.nlink[k] = 0 <=> d.nlink[k] = 0
          BY <3>3, <4>1, <1>11
        <4> QED BY <2>1, <3>1, <4>2, <1>4 DEF TreeOK, Dots
      <3> QED BY <3>2, <3>3
    <2> QED BY <2>1, <1>1 DEF TreeOK, Dots
  <1>15. Tree(c)
    <2>1. ASSUME NEW j \in Inums, NEW e \in Names, Child(c, j, e)
          PROVE  /\ c.ent[j][e] # ROOTINO /\ c.ent[c.ent[j][e]][".."] = j
                 /\ \A g \in Names \ {".."} : c.ent[j][g] = c.ent[j][e] => g = e
      <3>1. ~(j = dp /\ e = name)
        BY <2>1, <1>2 DEF Child
      <3>2. c.ent[j][e] = d.ent[j][e] /\ d.ent[j][e] \in Inums /\ e # ".."
        BY <2>1, <3>1, <1>3 DEF Child
      <3>3. Child(d, j, e)
        BY <2>1, <3>2, <1>1 DEF Child
      <3>4. \A g \in Names \ {".."} : c.ent[j][g] = c.ent[j][e] => d.ent[j][g] = d.ent[j][e]
        BY <3>2, <1>2, <1>3, Params
      <3> QED BY <3>2, <3>3, <3>4, <1>4 DEF TreeOK, Tree
    <2>2. ASSUME NEW k \in Inums \ {ROOTINO}, c.type[k] = "dir", c.nlink[k] # 0
          PROVE  \E e \in Names \ {".."} : c.ent[c.ent[k][".."]][e] = k
      <3>0. c.nlink[k] \in Nat /\ d.nlink[k] \in Nat /\ d.type[k] = "dir"
        BY <2>2, <1>1
      <3>1. k # i
        BY <2>2, <3>0, <1>12
      <3>2. d.nlink[k] # 0
        BY <2>2, <3>0, <3>1, <1>11
      <3>3. PICK e \in Names \ {".."} : d.ent[d.ent[k][".."]][e] = k
        BY <3>0, <3>2 DEF TreeOK, Tree
      <3>4. d.ent[k][".."] \in Inums
        BY <3>0, <3>2, Params DEF TreeOK, Dots
      <3>5. ~(d.ent[k][".."] = dp /\ e = name)
        BY <3>1, <3>3
      <3> QED BY <3>3, <3>4, <3>5, <1>3, <1>4
    <2> QED BY <2>1, <2>2 DEF Tree
  <1>16. ASSUME NEW k \in Inums PROVE c.nlink[k] = LinksTo(c, k)
    <2>1. d.nlink[k] = LinksTo(d, k) /\ d.nlink[k] \in Nat
      BY DEF TreeOK, Counted
    <2>2. Ents(c, k) = IF k = i THEN Ents(d, k) \ {<<dp, name>>} ELSE Ents(d, k)
      <3>1. ASSUME NEW j \in Inums, NEW e \in Names \ {".."}
            PROVE  c.type[j] = "dir" /\ c.ent[j][e] = k
                   <=> (d.type[j] = "dir" /\ d.ent[j][e] = k) /\ ~(j = dp /\ e = name)
        <4>1. CASE j = dp /\ e = name
          BY <4>1, <1>2, Params
        <4>2. CASE ~(j = dp /\ e = name)
          BY <4>2, <1>1, <1>3
        <4> QED BY <4>1, <4>2
      <3> QED BY <3>1 DEF Ents
    <2>3. Subs(c, k) = IF d.type[i] = "dir" /\ k = dp THEN Subs(d, k) \ {i} ELSE Subs(d, k)
      <3>1. ASSUME NEW j \in Inums
            PROVE  c.type[j] = "dir" /\ c.nlink[j] > 0 /\ c.ent[j][".."] = k
                   <=> /\ d.type[j] = "dir" /\ d.nlink[j] > 0 /\ d.ent[j][".."] = k
                       /\ ~(d.type[i] = "dir" /\ k = dp /\ j = i)
        <4>1. CASE j = i
          BY <4>1, <1>1, <1>4, <1>6, <1>12
        <4>2. CASE j # i
          BY <4>2, <1>1, <1>4, <1>11
        <4> QED BY <4>1, <4>2
      <3> QED BY <3>1 DEF Subs
    <2>4. <<dp, name>> \in Ents(d, i)
      BY <1>5 DEF Ents
    <2>5. d.type[i] = "dir" => i \in Subs(d, dp)
      BY <1>5, <1>6 DEF Subs
    <2>6. CASE k = i
      <3>1. Cardinality(Ents(c, k)) = Cardinality(Ents(d, k)) - 1
        <4>1. Ents(c, k) = Ents(d, k) \ {<<dp, name>>} /\ <<dp, name>> \in Ents(d, k)
          BY <2>2, <2>4, <2>6
        <4>2. IsFiniteSet(Ents(d, k))
          BY LinkSets
        <4> QED BY <4>1, <4>2, OneLess
      <3>2. Subs(c, k) = Subs(d, k)
        BY <2>3, <2>6, <1>7
      <3> QED BY <2>1, <2>6, <3>1, <3>2, <1>8, LinkSets
    <2>7. CASE k = dp /\ d.type[i] = "dir"
      <3>1. Cardinality(Subs(c, k)) = Cardinality(Subs(d, k)) - 1
        BY <2>3, <2>5, <2>7, OneLess, LinkSets
      <3>2. Ents(c, k) = Ents(d, k)
        BY <2>2, <2>7, <1>7
      <3> QED BY <2>1, <2>7, <3>1, <3>2, <1>9, LinkSets
    <2>8. CASE k # i /\ ~(k = dp /\ d.type[i] = "dir")
      <3>1. Ents(c, k) = Ents(d, k) /\ Subs(c, k) = Subs(d, k)
        BY <2>2, <2>3, <2>8
      <3> QED BY <2>1, <2>8, <3>1, <1>9, <1>10, LinkSets
    <2> QED BY <2>6, <2>7, <2>8
  <1> QED BY <1>13, <1>14, <1>15, <1>16 DEF TreeOK, Counted

-----------------------------------------------------------------------------
(* The operators of the disk. *)

LEMMA BmapIsSound ==
    ASSUME NEW d, Sound(d), NEW i \in Inums, d.type[i] # "free"
    PROVE  Sound(bmap(d, i)) /\ SameTree(d, bmap(d, i))
  <1>1. d \in Disk /\ TreeOK(d) /\ BlocksExact(d)
    BY DEF Sound
  <1>2. Grown(d, bmap(d, i), i)
    BY <1>1, BmapGrows
  <1>3. SameTree(d, bmap(d, i)) /\ bmap(d, i) \in Disk
    BY <1>2 DEF Grown
  <1>4. TreeOK(bmap(d, i))
    BY <1>1, <1>3, SameTreeOK
  <1>5. BlocksExact(bmap(d, i))
    BY <1>1, <1>2, GrownBlocks
  <1> QED BY <1>3, <1>4, <1>5 DEF Sound

(* A new inode without dots: its type, its one link and its name. *)
Bare(d, i, dp, name, ty) ==
    [d EXCEPT !.type[i] = ty, !.nlink[i] = 1, !.ent[dp][name] = i]

IsBare(d, c, i, dp, name, ty) ==
    /\ c \in Disk /\ BlocksExact(c) /\ c.type = [d.type EXCEPT ![i] = ty]
    /\ c.nlink = [d.nlink EXCEPT ![i] = 1]
    /\ \A k \in Inums, e \in Names :
          c.ent[k][e] = IF k = dp /\ e = name THEN i ELSE d.ent[k][e]

LEMMA BareIs ==
    ASSUME NEW d \in Disk, NEW i \in Inums, NEW dp \in Inums, NEW name \in Names,
           NEW ty \in {"file", "dir"}, BlocksExact(d)
    PROVE  IsBare(d, Bare(d, i, dp, name, ty), i, dp, name, ty)
  <1> DEFINE c == Bare(d, i, dp, name, ty)
  <1> DEFINE T == [d.type EXCEPT ![i] = ty]
             L == [d.nlink EXCEPT ![i] = 1]
             E == [d.ent EXCEPT ![dp][name] = i]
  <1>1. T \in Types /\ E \in Entries /\ L \in [Inums -> Nat]
    BY DiskFields, Params DEF Types, Entries
  <1>2. c = WithTree(d, T, L, E)
    BY DEF Disk, WithTree, Bare
  <1>3. \A j \in Inums : T[j] = "free" => d.type[j] = "free"
    BY DiskFields
  <1>6. \A k \in Inums, e \in Names : E[k][e] = IF k = dp /\ e = name THEN i ELSE d.ent[k][e]
    BY DiskFields
  <1> HIDE DEF T, E, L, c
  <1>4. /\ c \in Disk /\ c.type = T /\ c.nlink = L /\ c.ent = E
        /\ c.bitmap = d.bitmap /\ c.data = d.data /\ c.ind = d.ind
    BY <1>1, <1>2, TreeSet
  <1>5. BlocksExact(c)
    BY <1>3, <1>4, SameBlocksOK DEF SameBlocks
  <1>7. IsBare(d, c, i, dp, name, ty)
    BY <1>4, <1>5, <1>6 DEF T, L, IsBare
  <1> QED BY <1>7 DEF c

LEMMA NewInodeIs ==
    ASSUME NEW d, Sound(d), NEW dp, NEW name, Vacant(d, dp, name), NEW ty \in {"file", "dir"},
           \E j \in Inums : d.type[j] = "free"
    PROVE  /\ Sound(NewInode(d, dp, name, ty))
           /\ \E i \in Inums : d.type[i] = "free"
                               /\ Made(d, NewInode(d, dp, name, ty), i, dp, name, ty)
  <1> DEFINE i == Least({j \in Inums : d.type[j] = "free"})
             f == Bare(d, i, dp, name, ty)
             r == NewInode(d, dp, name, ty)
  <1>1. d \in Disk /\ TreeOK(d) /\ BlocksExact(d)
    BY DEF Sound
  <1>2. i \in Inums /\ d.type[i] = "free"
    <2>1. {j \in Inums : d.type[j] = "free"} \in SUBSET Nat
      BY Params
    <2> QED BY <2>1, LeastIn
  <1>3. dp \in Inums /\ name \in Names /\ name # ".."
    BY <1>1, NoDots DEF Vacant
  <1>4. i # dp
    BY <1>2 DEF Vacant
  <1>5. r = IF ty = "file" THEN f
            ELSE [bmap(f, i) EXCEPT !.ent[i][".."] = dp, !.nlink[dp] = @ + 1]
    BY DEF NewInode, Bare
  <1>10. f = Bare(d, i, dp, name, ty)
    OBVIOUS
  <1> HIDE DEF i, f
  <1>11. IsBare(d, f, i, dp, name, ty)
    <2>1. IsBare(d, Bare(d, i, dp, name, ty), i, dp, name, ty)
      BY <1>1, <1>2, <1>3, BareIs
    <2> QED BY <2>1, <1>10
  <1>6. /\ f \in Disk /\ BlocksExact(f) /\ f.type = [d.type EXCEPT ![i] = ty]
        /\ f.nlink = [d.nlink EXCEPT ![i] = 1]
        /\ \A k \in Inums, e \in Names :
              f.ent[k][e] = IF k = dp /\ e = name THEN i ELSE d.ent[k][e]
    BY <1>11 DEF IsBare
  <1> HIDE DEF r
  <1>7. Made(d, r, i, dp, name, ty) /\ BlocksExact(r)
    <2>1. CASE ty = "file"
      <3>1. r = f
        BY <2>1, <1>5
      <3>2. \A k \in Inums, e \in Names :
               f.ent[k][e] = IF k = dp /\ e = name THEN i ELSE d.ent[k][e]
        BY <1>6
      <3>3. \A k \in Inums : f.nlink[k] = IF k = i THEN 1 ELSE d.nlink[k]
        BY <1>1, <1>6, DiskFields
      <3> QED BY <2>1, <3>1, <3>2, <3>3, <1>6 DEF Made
    <2>2. CASE ty = "dir"
      <3> DEFINE b == bmap(f, i)
                 L == [f.nlink EXCEPT ![dp] = @ + 1]
                 E == [f.ent EXCEPT ![i][".."] = dp]
                 T == f.type
      <3>1. Grown(f, b, i)
        BY <1>2, <1>6, BmapGrows
      <3>2. f.type[i] # "free"
        BY <2>2, <1>1, <1>2, <1>6, DiskFields
      <3>3. BlocksExact(b)
        BY <3>1, <3>2, <1>2, <1>6, GrownBlocks
      <3>4. b \in Disk /\ b.type = f.type /\ b.nlink = f.nlink /\ b.ent = f.ent
        BY <3>1 DEF Grown, SameTree
      <3>5. T \in Types /\ E \in Entries /\ L \in [Inums -> Nat]
        <4>1. /\ f.type \in Types /\ f.nlink \in [Inums -> Nat] /\ f.ent \in Entries
          BY <1>6, DiskFields DEF Types, Entries
        <4>2. dp \in 0..NINODES /\ ".." \in Names
          BY <1>3, Params
        <4> QED BY <4>1, <4>2, <1>2, <1>3 DEF Entries
      <3> HIDE DEF b
      <3>6. r = WithTree(b, T, L, E)
        BY <2>2, <3>4, <1>5 DEF Disk, WithTree, b
      <3>7. \A k \in Inums, e \in Names :
               E[k][e] = IF k = dp /\ e = name THEN i
                         ELSE IF k = i /\ e = ".." THEN dp ELSE d.ent[k][e]
        BY <1>1, <1>2, <1>3, <1>4, <1>6, DiskFields, Params
      <3>8. \A k \in Inums : L[k] = IF k = i THEN 1 ELSE IF k = dp THEN d.nlink[k] + 1
                                    ELSE d.nlink[k]
        BY <1>1, <1>2, <1>3, <1>4, <1>6, DiskFields
      <3> HIDE DEF L, E, T
      <3>9. /\ r \in Disk /\ r.type = T /\ r.nlink = L /\ r.ent = E
            /\ r.bitmap = b.bitmap /\ r.data = b.data /\ r.ind = b.ind
        BY <3>4, <3>5, <3>6, TreeSet
      <3>10. BlocksExact(r)
        BY <3>3, <3>4, <3>9, SameBlocksOK DEF SameBlocks, T
      <3> QED BY <2>2, <3>7, <3>8, <3>9, <3>10, <1>6 DEF Made, T
    <2> QED BY <2>1, <2>2
  <1>8. r \in Disk
    BY <1>7 DEF Made
  <1>9. TreeOK(r)
    BY <1>1, <1>2, <1>7, MadeTree
  <1> QED BY <1>2, <1>7, <1>8, <1>9 DEF Sound, r

LEMMA LinkIsSound ==
    ASSUME NEW d, Sound(d), NEW dp, NEW name, Vacant(d, dp, name),
           NEW i \in Inums, d.type[i] = "file",
           NEW c, c = [d EXCEPT !.nlink[i] = @ + 1, !.ent[dp][name] = i]
    PROVE  Sound(c) /\ Linked(d, c, i, dp, name)
  <1>1. d \in Disk /\ TreeOK(d) /\ BlocksExact(d)
    BY DEF Sound
  <1>2. dp \in Inums /\ name \in Names
    BY DEF Vacant
  <1> DEFINE T == d.type
             L == [d.nlink EXCEPT ![i] = @ + 1]
             E == [d.ent EXCEPT ![dp][name] = i]
             g == WithTree(d, T, L, E)
  <1>3. T \in Types /\ E \in Entries /\ L \in [Inums -> Nat]
    BY <1>1, <1>2, DiskFields, Params DEF Types, Entries
  <1>4. c = g
    BY <1>1 DEF Disk, WithTree
  <1>5. \A k \in Inums, e \in Names : E[k][e] = IF k = dp /\ e = name THEN i ELSE d.ent[k][e]
    BY <1>1, <1>2, DiskFields
  <1>6. \A k \in Inums : L[k] = IF k = i THEN d.nlink[k] + 1 ELSE d.nlink[k]
    BY <1>1, DiskFields
  <1> HIDE DEF T, E, L
  <1>7. /\ g \in Disk /\ g.type = T /\ g.nlink = L /\ g.ent = E
        /\ g.bitmap = d.bitmap /\ g.data = d.data /\ g.ind = d.ind
    BY <1>1, <1>3, TreeSet
  <1> HIDE DEF g
  <1>8. Linked(d, g, i, dp, name)
    BY <1>5, <1>6, <1>7 DEF Linked, T
  <1>9. TreeOK(g)
    BY <1>1, <1>8, LinkedTree
  <1>10. BlocksExact(g)
    <2>1. SameBlocks(d, g)
      BY <1>7 DEF SameBlocks, T
    <2> QED BY <2>1, <1>1, SameBlocksOK
  <1>11. Sound(g) /\ Linked(d, g, i, dp, name)
    BY <1>7, <1>8, <1>9, <1>10 DEF Sound
  <1> QED BY <1>4, <1>11

LEMMA UnlinkedIsSound ==
    ASSUME NEW d, Sound(d), NEW dp \in Inums, NEW name \in Names \ {".."},
           NEW i \in Inums, d.ent[dp][name] = i, d.type[i] = "dir" => isdirempty(d, i),
           NEW c, c = Unlinked(d, dp, name, i)
    PROVE  Sound(c) /\ Dropped(d, c, dp, name)
  <1>1. d \in Disk /\ TreeOK(d) /\ BlocksExact(d)
    BY DEF Sound
  <1>2. d.nlink[i] > 0 /\ d.nlink[dp] > 0 /\ d.type[dp] = "dir"
    BY <1>1, NamedHasLinks, Params
  <1>3. i # dp
    BY <1>1, <1>2, EmptyDir
  <1> DEFINE T == d.type
             E == [d.ent EXCEPT ![dp][name] = 0]
             M == [d.nlink EXCEPT ![i] = @ - 1]
             L == IF d.type[i] = "dir" THEN [M EXCEPT ![dp] = @ - 1] ELSE M
  <1>4. T \in Types /\ E \in Entries
    BY <1>1, DiskFields, Params DEF Types, Entries
  <1>5. M \in [Inums -> Nat] /\ M[dp] = d.nlink[dp]
    BY <1>1, <1>2, <1>3, DiskFields
  <1>6. L \in [Inums -> Nat]
    <2> HIDE DEF M
    <2> QED BY <1>2, <1>5
  <1>7. c = WithTree(d, T, L, E)
    <2> DEFINE d1 == [d EXCEPT !.ent[dp][name] = 0, !.nlink[i] = @ - 1]
    <2>2. c = IF d.type[i] = "dir" THEN [d1 EXCEPT !.nlink[dp] = @ - 1] ELSE d1
      BY DEF Unlinked
    <2>1. d1 = WithTree(d, T, M, E)
      BY <1>1 DEF Disk, WithTree
    <2> HIDE DEF T, M, E, d1
    <2>3. d1 \in Disk /\ d1.nlink = M
      BY <2>1, <1>1, <1>4, <1>5, TreeSet
    <2>4. CASE d.type[i] = "dir"
      <3>1. [d1 EXCEPT !.nlink[dp] = @ - 1] = WithTree(d, T, [M EXCEPT ![dp] = @ - 1], E)
        BY <2>1, <2>3, <1>1 DEF Disk, WithTree
      <3> QED BY <2>2, <2>4, <3>1
    <2>5. CASE d.type[i] # "dir"
      BY <2>1, <2>2, <2>5
    <2> QED BY <2>4, <2>5
  <1>8. \A k \in Inums, e \in Names : E[k][e] = IF k = dp /\ e = name THEN 0 ELSE d.ent[k][e]
    BY <1>1, DiskFields
  <1>9. \A k \in Inums :
           L[k] = IF k = i THEN d.nlink[k] - 1
                  ELSE IF d.type[i] = "dir" /\ k = dp THEN d.nlink[k] - 1 ELSE d.nlink[k]
    BY <1>1, <1>3, DiskFields
  <1> HIDE DEF T, E, L
  <1>10. /\ c \in Disk /\ c.type = T /\ c.nlink = L /\ c.ent = E
         /\ c.bitmap = d.bitmap /\ c.data = d.data /\ c.ind = d.ind
    BY <1>1, <1>4, <1>6, <1>7, TreeSet
  <1>11. Dropped(d, c, dp, name)
    BY <1>8, <1>9, <1>10 DEF Dropped, T
  <1>12. TreeOK(c)
    BY <1>1, <1>11, DroppedTree
  <1>13. BlocksExact(c)
    BY <1>1, <1>10, SameBlocksOK DEF SameBlocks, T
  <1> QED BY <1>10, <1>11, <1>12, <1>13 DEF Sound

-----------------------------------------------------------------------------
(* Loops. *)

(* Induction, for a set instead of a predicate. *)
LEMMA SetInduction ==
    ASSUME NEW S, 0 \in S, \A n \in Nat : n \in S => n + 1 \in S
    PROVE  Nat \subseteq S
  <1> SUFFICES ASSUME Nat \ S # {} PROVE FALSE
    OBVIOUS
  <1>1. PICK m \in Nat \ S : \A k \in Nat \ S : m <= k
    BY LeastNat
  <1> QED BY <1>1

(* A loop whose k-th turn leads from G[k - 1] to G[k] ends in G[n]. *)
LEMMA Turns ==
    ASSUME NEW n \in Nat, NEW G, NEW F, F[0] \in G[0],
           \A k \in 1..n : F[k - 1] \in G[k - 1] => F[k] \in G[k]
    PROVE  \A k \in 0..n : F[k] \in G[k]
  <1> DEFINE S == {k \in Nat : k <= n => F[k] \in G[k]}
  <1>1. 0 \in S
    OBVIOUS
  <1>2. ASSUME NEW k \in Nat, k \in S PROVE k + 1 \in S
    <2> SUFFICES ASSUME k + 1 <= n PROVE F[k + 1] \in G[k + 1]
      OBVIOUS
    <2>1. F[k] \in G[k] /\ k + 1 \in 1..n /\ (k + 1) - 1 = k
      BY <1>2
    <2> QED BY <2>1
  <1>3. Nat \subseteq S
    <2> HIDE DEF S
    <2> QED BY <1>1, <1>2, SetInduction
  <1> QED BY <1>3

(* There is such a loop: one that starts in a and takes the steps of step. *)
Iterates(g, G, n, a, step) ==
    /\ g = [k \in 0..n |-> g[k]] /\ g[0] = a
    /\ \A k \in 1..n : g[k - 1] \in G[k - 1] /\ g[k] = step[k][g[k - 1]]

LEMMA Recursion ==
    ASSUME NEW n \in Nat, NEW G, NEW a, a \in G[0], NEW step,
           \A k \in 1..n : \A x \in G[k - 1] : step[k][x] \in G[k]
    PROVE  \E g : Iterates(g, G, n, a, step)
  <1> DEFINE Ok(m, g) == /\ g = [k \in 0..m |-> g[k]] /\ g[0] = a /\ g[m] \in G[m]
                         /\ \A k \in 1..m : g[k - 1] \in G[k - 1] /\ g[k] = step[k][g[k - 1]]
             S == {m \in Nat : m <= n => \E g : Ok(m, g)}
  <1>1. 0 \in S
    <2>1. Ok(0, [i \in 0..0 |-> a])
      OBVIOUS
    <2> QED BY <2>1
  <1>2. ASSUME NEW m \in Nat, m \in S PROVE m + 1 \in S
    <2> SUFFICES ASSUME m + 1 <= n PROVE \E g : Ok(m + 1, g)
      OBVIOUS
    <2>1. PICK g : Ok(m, g)
      BY <1>2
    <2> DEFINE v == step[m + 1][g[m]]
               h == [i \in 0..(m + 1) |-> IF i = m + 1 THEN v ELSE g[i]]
    <2>2. m + 1 \in 1..n /\ (m + 1) - 1 = m /\ g[m] \in G[m]
      BY <2>1
    <2>3. v \in G[m + 1]
      BY <2>2
    <2> HIDE DEF v
    <2>4. h[m + 1] = v /\ \A k \in 0..m : h[k] = g[k]
      OBVIOUS
    <2>5. h = [k \in 0..(m + 1) |-> h[k]]
      OBVIOUS
    <2> HIDE DEF h
    <2>6. ASSUME NEW k \in 1..(m + 1)
          PROVE  h[k - 1] \in G[k - 1] /\ h[k] = step[k][h[k - 1]]
      <3>1. CASE k = m + 1
        <4>1. h[k - 1] = g[m] /\ h[k] = v /\ k - 1 = m
          BY <2>4, <3>1
        <4> QED BY <4>1, <3>1, <2>2 DEF v
      <3>2. CASE k \in 1..m
        <4>1. h[k - 1] = g[k - 1] /\ h[k] = g[k]
          BY <2>4, <3>2
        <4> QED BY <4>1, <3>2, <2>1
      <3> QED BY <3>1, <3>2
    <2>7. h[0] = a /\ h[m + 1] \in G[m + 1]
      BY <2>1, <2>3, <2>4
    <2>8. Ok(m + 1, h)
      BY <2>5, <2>6, <2>7
    <2> QED BY <2>8
  <1>3. n \in S
    <2> HIDE DEF S
    <2> QED BY <1>1, <1>2, SetInduction
  <1>4. \E g : Ok(n, g)
    BY <1>3
  <1> QED BY <1>4 DEF Iterates

(* ireclaim leaves a sound disk without orphans. *)
Kept(d) == \A i \in Inums : d.type[i] # "free" => d.nlink[i] # 0

LEMMA IreclaimIs ==
    ASSUME NEW d, Sound(d)
    PROVE  Sound(ireclaim(d)) /\ Kept(ireclaim(d))
  <1> DEFINE Turn(e, i) == IF e.type[i] # "free" /\ e.nlink[i] = 0 THEN ifree(e, i) ELSE e
             G == [k \in 0..NINODES |->
                     {e \in Disk : Sound(e) /\ \A j \in 1..k : e.type[j] # "free" => e.nlink[j] # 0}]
             step == [k \in 1..NINODES |-> [e \in G[k - 1] |-> Turn(e, k)]]
             F[k \in 0..NINODES] ==
               IF k = 0 THEN d
               ELSE IF F[k - 1].type[k] # "free" /\ F[k - 1].nlink[k] = 0
               THEN ifree(F[k - 1], k) ELSE F[k - 1]
  <1>0. NINODES \in Nat /\ Inums = 1..NINODES
    BY Params DEF Inums
  <1>1. ireclaim(d) = F[NINODES]
    BY DEF ireclaim
  <1>2. d \in G[0]
    BY <1>0 DEF Sound
  <1>3. ASSUME NEW k \in 1..NINODES, NEW e \in G[k - 1] PROVE Turn(e, k) \in G[k]
    <2>1. k - 1 \in 0..NINODES /\ k \in 0..NINODES /\ k \in Inums
      BY <1>0
    <2>2. e \in Disk /\ Sound(e) /\ \A j \in 1..(k - 1) : e.type[j] # "free" => e.nlink[j] # 0
      BY <2>1, <1>3
    <2>3. CASE e.type[k] # "free" /\ e.nlink[k] = 0
      <3>1. Sound(ifree(e, k)) /\ Freed(e, ifree(e, k), k)
        BY <2>1, <2>2, <2>3, IfreeIsSound
      <3>2. ifree(e, k) \in Disk
        BY <3>1 DEF Sound
      <3>3. \A j \in 1..k : j \in Inums /\ (j # k => j \in 1..(k - 1))
        BY <1>0
      <3>4. \A j \in 1..k : ifree(e, k).type[j] # "free" => ifree(e, k).nlink[j] # 0
        BY <2>1, <2>2, <3>1, <3>3, DiskFields DEF Freed
      <3>5. Turn(e, k) = ifree(e, k)
        BY <2>3
      <3> QED BY <2>1, <3>1, <3>2, <3>4, <3>5
    <2>4. CASE ~(e.type[k] # "free" /\ e.nlink[k] = 0)
      <3>1. \A j \in 1..k : e.type[j] # "free" => e.nlink[j] # 0
        <4>1. \A j \in 1..k : j # k => j \in 1..(k - 1)
          BY <1>0
        <4> QED BY <4>1, <2>2, <2>4
      <3> QED BY <2>1, <2>2, <2>4, <3>1
    <2> QED BY <2>3, <2>4
  <1>4. \A k \in 1..NINODES : \A x \in G[k - 1] : step[k][x] \in G[k]
    <2> HIDE DEF G, Turn
    <2> QED BY <1>3
  <1>5. PICK g : Iterates(g, G, NINODES, d, step)
    <2> HIDE DEF G, step
    <2> QED BY <1>0, <1>2, <1>4, Recursion
  <1> HIDE DEF G
  <1>6. g = [k \in 0..NINODES |->
               IF k = 0 THEN d
               ELSE IF g[k - 1].type[k] # "free" /\ g[k - 1].nlink[k] = 0
               THEN ifree(g[k - 1], k) ELSE g[k - 1]]
    <2>1. /\ g = [k \in 0..NINODES |-> g[k]] /\ g[0] = d
          /\ \A k \in 1..NINODES : g[k - 1] \in G[k - 1] /\ g[k] = step[k][g[k - 1]]
      BY <1>5 DEF Iterates
    <2>2. \A k \in 1..NINODES : g[k] = Turn(g[k - 1], k)
      <3> HIDE DEF Turn
      <3> QED BY <2>1
    <2>3. \A k \in 0..NINODES : k # 0 => k \in 1..NINODES
      BY <1>0
    <2>4. \A k \in 0..NINODES :
            g[k] = IF k = 0 THEN d
                   ELSE IF g[k - 1].type[k] # "free" /\ g[k - 1].nlink[k] = 0
                   THEN ifree(g[k - 1], k) ELSE g[k - 1]
      BY <2>1, <2>2, <2>3
    <2> QED BY <2>1, <2>4
  <1>7. F = [k \in 0..NINODES |->
               IF k = 0 THEN d
               ELSE IF F[k - 1].type[k] # "free" /\ F[k - 1].nlink[k] = 0
               THEN ifree(F[k - 1], k) ELSE F[k - 1]]
    BY <1>6
  <1> HIDE DEF F
  <1>8. F[0] = d /\ \A k \in 1..NINODES : F[k] = Turn(F[k - 1], k)
    <2>1. \A k \in 1..NINODES : k \in 0..NINODES /\ k # 0
      BY <1>0
    <2>2. 0 \in 0..NINODES
      BY <1>0
    <2> QED BY <1>7, <2>1, <2>2
  <1>9. \A k \in 0..NINODES : F[k] \in G[k]
    <2> HIDE DEF Turn
    <2>1. \A k \in 1..NINODES : F[k - 1] \in G[k - 1] => F[k] \in G[k]
      BY <1>3, <1>8
    <2> QED BY <1>0, <1>2, <1>8, <2>1, Turns
  <1>10. F[NINODES] \in G[NINODES] /\ NINODES \in 0..NINODES
    BY <1>0, <1>9
  <1> QED BY <1>0, <1>1, <1>10 DEF G, Kept

-----------------------------------------------------------------------------
(* Nodes and paths. *)

Xs == {X(i) : i \in Inums}
Ends == {NoNode, Oops}

LEMMA Nodes ==
    /\ \A i : X(i)[1] = "x" /\ X(i)[2] = i /\ ~fat_is(X(i)) /\ ~dev_is(X(i))
    /\ \A i, j : X(i) = X(j) => i = j
    /\ \A i \in Inums : X(i) \in Node
    /\ Node = Xs \cup {DevRoot, Console, FatRoot, FatFile}
    /\ \A n \in Node : n[1] = "x" => n[2] \in Inums /\ n = X(n[2])
    /\ NoNode \notin Node /\ Oops \notin Node
    /\ NoNode[1] # "x" /\ Oops[1] # "x" /\ ~fat_is(NoNode) /\ ~fat_is(Oops)
    /\ Console \in Node /\ DevRoot \in Node /\ FatRoot \in Node /\ FatFile \in Node
    /\ Console[1] # "x" /\ DevRoot[1] # "x" /\ FatRoot[1] # "x" /\ FatFile[1] # "x"
    /\ ~fat_is(Console) /\ ~fat_is(DevRoot) /\ fat_is(FatRoot) /\ fat_is(FatFile)
  <1>1. \A i : X(i)[1] = "x" /\ X(i)[2] = i /\ ~fat_is(X(i)) /\ ~dev_is(X(i))
    BY DEF X, fat_is, dev_is
  <1>2. \A i, j : X(i) = X(j) => i = j
    BY <1>1
  <1>3. /\ NoNode[1] = "none" /\ Oops[1] = "panic" /\ Console[1] = "dev" /\ DevRoot[1] = "dev"
        /\ FatRoot[1] = "fat" /\ FatFile[1] = "fat"
    BY DEF NoNode, Oops, Console, DevRoot, FatRoot, FatFile
  <1>4. Node = Xs \cup {DevRoot, Console, FatRoot, FatFile}
    BY DEF Node, Xs
  <1>5. \A n \in Xs : n[1] = "x" /\ n[2] \in Inums /\ n = X(n[2])
    BY <1>1 DEF Xs
  <1>6. \A i \in Inums : X(i) \in Xs
    BY DEF Xs
  <1> HIDE DEF Xs
  <1> QED BY <1>1, <1>2, <1>3, <1>4, <1>5, <1>6 DEF fat_is

LEMMA NodeTypeX ==
    ASSUME NEW n, n[1] = "x"
    PROVE  NodeType(n) = disk.type[n[2]]
  <1>1. n # Console /\ n # FatFile
    BY Nodes
  <1> QED BY <1>1 DEF NodeType

PathSet == [abs : BOOLEAN, el : Seq(Names)]

(* A walk along el: the nodes on the way stay in a set that every step keeps. *)
Walk(g, M, s, el, step) ==
    /\ g = [k \in 0..Len(el) |-> g[k]] /\ g[0] = s
    /\ \A k \in 1..Len(el) : g[k - 1] \in M /\ g[k] = step[el[k]][g[k - 1]]

LEMMA WalkExists ==
    ASSUME NEW M, NEW el \in Seq(Names), NEW s \in M, NEW step,
           \A x \in M, e \in Names : step[e][x] \in M
    PROVE  \E g : Walk(g, M, s, el, step)
  <1> DEFINE n == Len(el)
             G == [k \in 0..n |-> M]
             st == [k \in 1..n |-> [x \in M |-> step[el[k]][x]]]
  <1>0. n \in Nat /\ \A k \in 1..n : el[k] \in Names
    OBVIOUS
  <1> HIDE DEF n
  <1>1. s \in G[0]
    BY <1>0
  <1>2. \A k \in 1..n : \A x \in M : st[k][x] = step[el[k]][x] /\ step[el[k]][x] \in M
    BY <1>0
  <1>3. \A k \in 0..n : G[k] = M
    OBVIOUS
  <1> HIDE DEF G, st
  <1>4. \A k \in 1..n : \A x \in G[k - 1] : st[k][x] \in G[k]
    BY <1>0, <1>2, <1>3
  <1>5. PICK g : Iterates(g, G, n, s, st)
    BY <1>0, <1>1, <1>4, Recursion
  <1>6. /\ g = [k \in 0..n |-> g[k]] /\ g[0] = s
        /\ \A k \in 1..n : g[k - 1] \in G[k - 1] /\ g[k] = st[k][g[k - 1]]
    BY <1>5 DEF Iterates
  <1>7. ASSUME NEW k \in 1..n PROVE g[k - 1] \in M /\ g[k] = step[el[k]][g[k - 1]]
    <2>1. k - 1 \in 0..n
      BY <1>0
    <2>2. g[k - 1] \in M /\ g[k] = st[k][g[k - 1]]
      BY <2>1, <1>3, <1>6
    <2> QED BY <2>2, <1>2
  <1> QED BY <1>6, <1>7 DEF Walk, n

LEMMA WalkStays ==
    ASSUME NEW M, NEW n \in Nat, NEW F, F[0] \in M,
           \A k \in 1..n : F[k - 1] \in M => F[k] \in M
    PROVE  F[n] \in M
  <1> DEFINE G == [k \in 0..n |-> M]
  <1>1. \A k \in 0..n : G[k] = M
    OBVIOUS
  <1> HIDE DEF G
  <1>2. F[0] \in G[0] /\ \A k \in 1..n : F[k - 1] \in G[k - 1] => F[k] \in G[k]
    BY <1>1
  <1>3. \A k \in 0..n : F[k] \in G[k]
    BY <1>2, Turns
  <1> QED BY <1>1, <1>3

(* namei, within the file system of the disk. *)
LEMMA NameiStays ==
    ASSUME disk \in Disk, NEW p, NEW path, path.el \in Seq(Names), Start(p, path) \in Xs
    PROVE  namei(p, path) \in Xs \cup Ends
  <1> DEFINE M == Xs \cup Ends
             step == [e \in Names |-> [x \in M |-> NamexStep(x, e)]]
             el == path.el
             s == Start(p, path)
             n == Len(el)
             F[k \in 0..Len(path.el)] ==
               IF k = 0 THEN Start(p, path) ELSE NamexStep(F[k - 1], path.el[k])
  <1>1. namei(p, path) = F[n]
    BY DEF namei
  <1>2. ASSUME NEW x \in M, NEW e \in Names PROVE NamexStep(x, e) \in M
    <2>1. CASE x \in Ends
      BY <2>1 DEF NamexStep, Ends
    <2>2. CASE x \in Xs
      <3>1. x[2] \in Inums
        BY <2>2, Nodes DEF Xs
      <3>2. Entry(x[2], e) \in M
        <4>1. disk.ent[x[2]][e] = 0 \/ disk.ent[x[2]][e] \in Inums
          BY <3>1, DiskFields
        <4> QED BY <4>1 DEF Entry, Ends, Xs
      <3> QED BY <3>2 DEF NamexStep, Ends
    <2> QED BY <2>1, <2>2
  <1>3. s \in M /\ el \in Seq(Names)
    OBVIOUS
  <1>4. n \in Nat /\ \A k \in 1..n : el[k] \in Names
    BY <1>3
  <1>5. \A x \in M, e \in Names : step[e][x] = NamexStep(x, e)
    OBVIOUS
  <1>6. \A x \in M, e \in Names : step[e][x] \in M
    BY <1>2, <1>5
  <1>7. PICK g : Walk(g, M, s, el, step)
    <2> HIDE DEF M, step, s, el
    <2> QED BY <1>3, <1>6, WalkExists
  <1>8. g = [k \in 0..n |-> IF k = 0 THEN s ELSE NamexStep(g[k - 1], el[k])]
    <2> HIDE DEF M, step, s, el, F
    <2>1. /\ g = [k \in 0..n |-> g[k]] /\ g[0] = s
          /\ \A k \in 1..n : g[k - 1] \in M /\ g[k] = step[el[k]][g[k - 1]]
      BY <1>7 DEF Walk
    <2>2. \A k \in 1..n : g[k] = NamexStep(g[k - 1], el[k])
      BY <2>1, <1>4, <1>5
    <2>3. \A k \in 0..n : k # 0 => k \in 1..n
      BY <1>4
    <2>4. \A k \in 0..n : g[k] = IF k = 0 THEN s ELSE NamexStep(g[k - 1], el[k])
      BY <2>1, <2>2, <2>3
    <2> QED BY <2>1, <2>4
  <1>9. F = [k \in 0..n |-> IF k = 0 THEN s ELSE NamexStep(F[k - 1], el[k])]
    BY <1>8
  <1> HIDE DEF F, M, step, s, el, n
  <1>10. F[0] = s /\ \A k \in 1..n : F[k] = NamexStep(F[k - 1], el[k])
    <2>1. \A k \in 1..n : k \in 0..n /\ k # 0
      BY <1>4
    <2>2. 0 \in 0..n
      BY <1>4
    <2> QED BY <1>9, <2>1, <2>2
  <1>11. \A k \in 1..n : F[k - 1] \in M => F[k] \in M
    BY <1>2, <1>4, <1>10
  <1>12. F[n] \in M
    BY <1>3, <1>4, <1>10, <1>11, WalkStays
  <1> QED BY <1>1, <1>12 DEF M

Legal == {n \in Node \cup Ends : fat_is(n) => fatmnt # Unmounted}

LEMMA CrossedIsLegal ==
    ASSUME NEW n \in Xs \cup {NoNode}
    PROVE  Crossed(n) \in Legal
  <1>1. CASE n = NoNode
    BY <1>1, Nodes DEF Crossed, Legal, Ends
  <1>2. CASE n \in Xs
    <2>1. n \in Node /\ n[1] = "x" /\ n[2] \in Inums /\ ~fat_is(n)
      BY <1>2, Nodes DEF Xs
    <2>2. n[2] # 0 /\ Unmounted.inum = 0
      BY <2>1, Params DEF Unmounted
    <2>3. Crossed(n) \in {n, DevRoot} \/ (Crossed(n) = FatRoot /\ fatmnt.inum = n[2])
      BY DEF Crossed
    <2>4. fatmnt.inum = n[2] => fatmnt # Unmounted
      BY <2>2
    <2> QED BY <2>1, <2>3, <2>4, Nodes DEF Legal
  <1> QED BY <1>1, <1>2

(* vfs_walk, across the mounts: it ends on a volume that is mounted, or on one
   where it began. *)
LEMMA WalkIsLegal ==
    ASSUME disk \in Disk, NEW p, NEW path, path.el \in Seq(Names), Start(p, path) \in Legal
    PROVE  vfs_walk(p, path) \in Legal
  <1> DEFINE M == Legal
             step == [e \in Names |-> [x \in M |-> WalkStep(x, e)]]
             el == path.el
             s == Start(p, path)
             n == Len(el)
             F[k \in 0..Len(path.el)] ==
               IF k = 0 THEN Start(p, path) ELSE WalkStep(F[k - 1], path.el[k])
  <1>1. vfs_walk(p, path) = F[n]
    BY DEF vfs_walk
  <1>2. ASSUME NEW x \in M, NEW e \in Names PROVE WalkStep(x, e) \in M
    <2>0. x \in Node \cup Ends /\ (fat_is(x) => fatmnt # Unmounted)
      BY DEF Legal
    <2>1. CASE x \in Ends
      <3>1. WalkStep(x, e) = x
        BY <2>1 DEF WalkStep, Ends
      <3> QED BY <3>1
    <2>2. CASE x \in {DevRoot, Console, FatRoot, FatFile}
      <3>1. x \notin Ends
        BY <2>2, Nodes DEF Ends
      <3>2. CASE fat_is(x)
        <4>1. WalkStep(x, e) = fat_lookup(x, e)
          BY <3>1, <3>2 DEF WalkStep, Ends
        <4>2. fat_lookup(x, e) \in {FatFile, FatRoot, NoNode}
          BY DEF fat_lookup
        <4> QED BY <4>1, <4>2, <2>0, <3>2, Nodes DEF Legal, Ends
      <3>3. CASE ~fat_is(x)
        <4>1. dev_is(x)
          BY <2>2, <3>3, Nodes DEF dev_is, DevRoot, Console
        <4>2. WalkStep(x, e) = dev_lookup(x, e)
          BY <3>1, <3>3, <4>1 DEF WalkStep, Ends
        <4>3. dev_lookup(x, e) \in {Console, NoNode}
          BY DEF dev_lookup
        <4> QED BY <4>2, <4>3, Nodes DEF Legal, Ends
      <3> QED BY <3>2, <3>3
    <2>3. CASE x \in Xs
      <3>1. x[2] \in Inums /\ x \notin Ends /\ ~fat_is(x) /\ ~dev_is(x)
        BY <2>3, Nodes DEF Xs, Ends
      <3>2. WalkStep(x, e) \in {Oops, NoNode, Crossed(Entry(x[2], e))}
        BY <3>1 DEF WalkStep, Ends
      <3>3. Entry(x[2], e) \in Xs \cup {NoNode}
        <4>1. disk.ent[x[2]][e] = 0 \/ disk.ent[x[2]][e] \in Inums
          BY <3>1, DiskFields
        <4> QED BY <4>1 DEF Entry, Xs
      <3>4. Crossed(Entry(x[2], e)) \in M
        BY <3>3, CrossedIsLegal
      <3> QED BY <3>2, <3>4, Nodes DEF Legal, Ends
    <2> QED BY <2>0, <2>1, <2>2, <2>3, Nodes
  <1>3. s \in M /\ el \in Seq(Names)
    OBVIOUS
  <1>4. n \in Nat /\ \A k \in 1..n : el[k] \in Names
    BY <1>3
  <1>5. \A x \in M, e \in Names : step[e][x] = WalkStep(x, e)
    OBVIOUS
  <1>6. \A x \in M, e \in Names : step[e][x] \in M
    BY <1>2, <1>5
  <1>7. PICK g : Walk(g, M, s, el, step)
    <2> HIDE DEF M, step, s, el
    <2> QED BY <1>3, <1>6, WalkExists
  <1>8. g = [k \in 0..n |-> IF k = 0 THEN s ELSE WalkStep(g[k - 1], el[k])]
    <2> HIDE DEF M, step, s, el, F
    <2>1. /\ g = [k \in 0..n |-> g[k]] /\ g[0] = s
          /\ \A k \in 1..n : g[k - 1] \in M /\ g[k] = step[el[k]][g[k - 1]]
      BY <1>7 DEF Walk
    <2>2. \A k \in 1..n : g[k] = WalkStep(g[k - 1], el[k])
      BY <2>1, <1>4, <1>5
    <2>3. \A k \in 0..n : k # 0 => k \in 1..n
      BY <1>4
    <2>4. \A k \in 0..n : g[k] = IF k = 0 THEN s ELSE WalkStep(g[k - 1], el[k])
      BY <2>1, <2>2, <2>3
    <2> QED BY <2>1, <2>4
  <1>9. F = [k \in 0..n |-> IF k = 0 THEN s ELSE WalkStep(F[k - 1], el[k])]
    BY <1>8
  <1> HIDE DEF F, M, step, s, el, n
  <1>10. F[0] = s /\ \A k \in 1..n : F[k] = WalkStep(F[k - 1], el[k])
    <2>1. \A k \in 1..n : k \in 0..n /\ k # 0
      BY <1>4
    <2>2. 0 \in 0..n
      BY <1>4
    <2> QED BY <1>9, <2>1, <2>2
  <1>11. \A k \in 1..n : F[k - 1] \in M => F[k] \in M
    BY <1>2, <1>4, <1>10
  <1>12. F[n] \in M
    BY <1>3, <1>4, <1>10, <1>11, WalkStays
  <1> QED BY <1>1, <1>12 DEF M

-----------------------------------------------------------------------------
(* The directory a path names something in, and what it names. *)
LEMMA ParentIs ==
    ASSUME disk \in Disk, NEW p, NEW path \in PathSet, Start(p, path) \in Xs,
           nameiparent(p, path) \notin Ends
    PROVE  /\ nameiparent(p, path)[1] = "x" /\ nameiparent(p, path)[2] \in Inums
           /\ disk.type[nameiparent(p, path)[2]] = "dir"
           /\ disk.nlink[nameiparent(p, path)[2]] # 0
           /\ Last(path.el) \in Names
  <1> DEFINE front == [path EXCEPT !.el = Front(@)]
             dp == namei(p, front)
  <1>1. path.el # <<>> /\ path.el \in Seq(Names)
    BY DEF nameiparent, Ends, PathSet
  <1>2. Len(path.el) \in Nat /\ Len(path.el) # 0
    BY <1>1
  <1>3. Last(path.el) \in Names
    BY <1>1, <1>2 DEF Last
  <1>4. front.el = Front(path.el) /\ front.abs = path.abs
    BY DEF PathSet
  <1>5. Front(path.el) \in Seq(Names)
    BY <1>1, <1>2 DEF Front
  <1>6. Start(p, front) = Start(p, path)
    BY <1>4 DEF Start
  <1> HIDE DEF front
  <1>7. dp \in Xs \cup Ends
    BY <1>4, <1>5, <1>6, NameiStays
  <1>8. nameiparent(p, path) = dp /\ dp \notin Ends /\ IsDir(dp) /\ disk.nlink[dp[2]] # 0
    BY DEF nameiparent, Ends, front
  <1>9. dp[1] = "x" /\ dp[2] \in Inums
    BY <1>7, <1>8, Nodes DEF Xs
  <1>10. disk.type[dp[2]] = "dir"
    BY <1>8, <1>9, NodeTypeX DEF IsDir
  <1> QED BY <1>3, <1>8, <1>9, <1>10

LEMMA ResolveIsLegal ==
    ASSUME disk \in Disk, NEW p, NEW path \in PathSet,
           cwd[p] \in Node, fat_is(cwd[p]) => fatmnt # Unmounted
    PROVE  vfs_resolve(p, path) \in Legal
  <1>1. X(ROOTINO) \in Xs /\ X(ROOTINO) \in Legal
    BY Params, Nodes DEF Xs, Legal
  <1>2. cwd[p] \in Legal
    BY DEF Legal
  <1>3. path.el \in Seq(Names)
    BY DEF PathSet
  <1>4. Start(p, path) \in Legal
    BY <1>1, <1>2 DEF Start
  <1>5. vfs_walk(p, path) \in Legal
    BY <1>3, <1>4, WalkIsLegal
  <1>6. CASE cwd[p][1] = "x"
    <2>1. Start(p, path) \in Xs
      BY <1>1, <1>6, Nodes DEF Start
    <2>2. namei(p, path) \in Xs \cup Ends
      BY <1>3, <2>1, NameiStays
    <2>3. Crossed(Oops) = Oops
      BY Nodes DEF Crossed
    <2>4. Oops \in Legal /\ NoNode \in Legal
      BY Nodes DEF Legal, Ends
    <2>5. Crossed(namei(p, path)) \in Legal
      <3>1. CASE namei(p, path) = Oops
        BY <3>1, <2>3, <2>4
      <3>2. CASE namei(p, path) \in Xs \cup {NoNode}
        BY <3>2, CrossedIsLegal
      <3> QED BY <2>2, <3>1, <3>2 DEF Ends
    <2>6. namei(p, path) \in Legal
      <3>1. CASE namei(p, path) \in Xs
        BY <3>1, Nodes DEF Legal, Xs
      <3>2. CASE namei(p, path) \in Ends
        BY <3>2, <2>4 DEF Ends
      <3> QED BY <2>2, <3>1, <3>2
    <2> QED BY <1>5, <2>4, <2>5, <2>6 DEF vfs_resolve
  <1>7. CASE cwd[p][1] # "x"
    BY <1>5, <1>7 DEF vfs_resolve
  <1> QED BY <1>6, <1>7

(* Nothing is freed, and nothing loses its last link. *)
Grows(d, c) ==
    \A k \in Inums :
        \/ c.type[k] # "free" /\ c.nlink[k] # 0
        \/ c.type[k] = d.type[k] /\ c.nlink[k] = d.nlink[k]

LEMMA NewInodeGrows ==
    ASSUME NEW d, Sound(d), NEW dp, NEW name, Vacant(d, dp, name), NEW ty \in {"file", "dir"},
           \E j \in Inums : d.type[j] = "free"
    PROVE  /\ Sound(NewInode(d, dp, name, ty)) /\ Grows(d, NewInode(d, dp, name, ty))
           /\ NewInode(d, dp, name, ty).ent[dp][name] \in Inums
           /\ NewInode(d, dp, name, ty).type[NewInode(d, dp, name, ty).ent[dp][name]] = ty
  <1> DEFINE c == NewInode(d, dp, name, ty)
  <1>1. Sound(c) /\ \E i \in Inums : d.type[i] = "free" /\ Made(d, c, i, dp, name, ty)
    BY NewInodeIs
  <1> HIDE DEF c
  <1>2. PICK i \in Inums : d.type[i] = "free" /\ Made(d, c, i, dp, name, ty)
    BY <1>1
  <1>3. dp \in Inums /\ name \in Names /\ d.type[dp] = "dir" /\ d \in Disk
    BY DEF Vacant, Sound
  <1>4. d.type \in [Inums -> {"free", "file", "dir"}] /\ d.nlink \in [Inums -> Nat]
    BY <1>3, DiskFields
  <1>5. c.type[i] = ty /\ c.ent[dp][name] = i /\ \A k \in Inums \ {i} : c.type[k] = d.type[k]
    BY <1>2, <1>3, <1>4 DEF Made
  <1>6. \A k \in Inums : c.nlink[k] = IF k = i THEN 1
                          ELSE IF ty = "dir" /\ k = dp THEN d.nlink[k] + 1 ELSE d.nlink[k]
    BY <1>2 DEF Made
  <1>7. Grows(d, c)
    BY <1>3, <1>4, <1>5, <1>6 DEF Grows
  <1> QED BY <1>1, <1>5, <1>7 DEF c

LEMMA CreateIs ==
    ASSUME Sound(disk), NEW p, NEW path \in PathSet, Start(p, path) \in Xs,
           NEW ty \in {"file", "dir"}, create(p, path, ty).ip \notin Ends
    PROVE  /\ Sound(create(p, path, ty).disk) /\ Grows(disk, create(p, path, ty).disk)
           /\ create(p, path, ty).ip \in Xs
           /\ create(p, path, ty).disk.type[create(p, path, ty).ip[2]] = ty
  <1> DEFINE P == nameiparent(p, path)
             dp == P[2]
             name == Last(path.el)
             old == disk.ent[dp][name]
             fail == [ip |-> NoNode, disk |-> disk]
             none == \A i \in Inums : disk.type[i] # "free"
             d == NewInode(disk, dp, name, ty)
             c == create(p, path, ty)
  <1>1. c = IF P = NoNode THEN fail
            ELSE IF P = Oops THEN [fail EXCEPT !.ip = Oops]
            ELSE IF old # 0
            THEN IF ty = "file" /\ disk.type[old] = "file" THEN [fail EXCEPT !.ip = X(old)] ELSE fail
            ELSE IF none THEN fail
            ELSE IF ty = "dir" /\ FreeBlocks(disk) = {} THEN [fail EXCEPT !.ip = Oops]
            ELSE [ip |-> X(d.ent[dp][name]), disk |-> d]
    BY DEF create
  <1>2. disk \in Disk /\ c.ip # NoNode /\ c.ip # Oops
    BY DEF Sound, Ends
  <1> HIDE DEF P, c, d
  <1>3. P \notin Ends
    BY <1>1, <1>2 DEF Ends
  <1>4. dp \in Inums /\ disk.type[dp] = "dir" /\ disk.nlink[dp] # 0 /\ name \in Names
    BY <1>2, <1>3, ParentIs DEF P
  <1> HIDE DEF dp, name
  <1>5. CASE old # 0
    <2>1. c = [fail EXCEPT !.ip = X(old)] /\ ty = "file" /\ disk.type[old] = "file"
      BY <1>1, <1>2, <1>3, <1>5 DEF Ends
    <2>2. c.ip = X(old) /\ c.disk = disk
      BY <2>1
    <2>3. old \in Inums
      BY <1>2, <1>4, <1>5, DiskFields
    <2> QED BY <2>1, <2>2, <2>3, Nodes DEF Xs, Grows, c
  <1>6. CASE old = 0
    <2>1. ~none /\ c = [ip |-> X(d.ent[dp][name]), disk |-> d]
      BY <1>1, <1>2, <1>3, <1>6 DEF Ends
    <2>2. Vacant(disk, dp, name)
      BY <1>4, <1>6 DEF Vacant
    <2>3. /\ Sound(d) /\ Grows(disk, d) /\ d.ent[dp][name] \in Inums
          /\ d.type[d.ent[dp][name]] = ty
      BY <2>1, <2>2, NewInodeGrows DEF d
    <2>4. c.ip = X(d.ent[dp][name]) /\ c.disk = d
      BY <2>1
    <2> QED BY <2>3, <2>4, Nodes DEF Xs, c
  <1> QED BY <1>5, <1>6

-----------------------------------------------------------------------------
(* Counting users. *)

OfileSet == [Slots -> [Fds -> 0..NFILE]]
CwdSet == [Slots -> Node \cup {NoNode}]

LEMMA CountedSets ==
    /\ \A of, f : IsFiniteSet(UsersIn(of, f)) /\ Cardinality(UsersIn(of, f)) \in Nat
    /\ \A t, n : IsFiniteSet(Having(t, n)) /\ Cardinality(Having(t, n)) \in Nat
    /\ \A cw, n : IsFiniteSet(Being(cw, n)) /\ Cardinality(Being(cw, n)) \in Nat
  <1>1. IsFiniteSet(Slots \X Fds)
    BY Params, FS_Product
  <1>2. ASSUME NEW of, NEW f
        PROVE  IsFiniteSet(UsersIn(of, f)) /\ Cardinality(UsersIn(of, f)) \in Nat
    <2>1. UsersIn(of, f) \in SUBSET (Slots \X Fds)
      BY DEF UsersIn
    <2> QED BY <1>1, <2>1, FS_Subset, FS_CardinalityType
  <1>3. ASSUME NEW t, NEW n
        PROVE  IsFiniteSet(Having(t, n)) /\ Cardinality(Having(t, n)) \in Nat
    <2>1. Having(t, n) \in SUBSET Files
      BY DEF Having
    <2> QED BY Params, <2>1, FS_Subset, FS_CardinalityType
  <1>4. ASSUME NEW cw, NEW n
        PROVE  IsFiniteSet(Being(cw, n)) /\ Cardinality(Being(cw, n)) \in Nat
    <2>1. Being(cw, n) \in SUBSET Slots
      BY DEF Being
    <2> QED BY Params, <2>1, FS_Subset, FS_CardinalityType
  <1> QED BY <1>2, <1>3, <1>4

(* A descriptor, a file or a process leaves a for b. *)
UsersMoved(of, v, a, b) ==
    /\ Cardinality(UsersIn(v, b)) = Cardinality(UsersIn(of, b)) + 1
    /\ Cardinality(UsersIn(v, a)) = Cardinality(UsersIn(of, a)) - 1
    /\ Cardinality(UsersIn(of, a)) # 0
    /\ \A f : f # a /\ f # b => UsersIn(v, f) = UsersIn(of, f)

HavingMoved(t, u, a, b) ==
    /\ Cardinality(Having(u, b)) = Cardinality(Having(t, b)) + 1
    /\ Cardinality(Having(u, a)) = Cardinality(Having(t, a)) - 1
    /\ Cardinality(Having(t, a)) # 0
    /\ \A n : n # a /\ n # b => Having(u, n) = Having(t, n)

BeingMoved(cw, v, a, b) ==
    /\ Cardinality(Being(v, b)) = Cardinality(Being(cw, b)) + 1
    /\ Cardinality(Being(v, a)) = Cardinality(Being(cw, a)) - 1
    /\ Cardinality(Being(cw, a)) # 0
    /\ \A n : n # a /\ n # b => Being(v, n) = Being(cw, n)

LEMMA UsersMove ==
    ASSUME NEW of \in OfileSet, NEW p \in Slots, NEW fd \in Fds, NEW g \in 0..NFILE,
           NEW a, a = of[p][fd], a # g, NEW v, v = [of EXCEPT ![p][fd] = g]
    PROVE  v \in OfileSet /\ UsersMoved(of, v, a, g)
  <1> DEFINE x == <<p, fd>>
  <1>1. v \in OfileSet
    BY DEF OfileSet
  <1>2. \A q \in Slots \X Fds : v[q[1]][q[2]] = IF q = x THEN g ELSE of[q[1]][q[2]]
    BY DEF OfileSet
  <1>3. x \in Slots \X Fds /\ of[x[1]][x[2]] = a
    OBVIOUS
  <1> HIDE DEF x
  <1>4. UsersIn(v, g) = UsersIn(of, g) \cup {x} /\ x \notin UsersIn(of, g)
    BY <1>2, <1>3 DEF UsersIn
  <1>5. UsersIn(v, a) = UsersIn(of, a) \ {x} /\ x \in UsersIn(of, a)
    BY <1>2, <1>3 DEF UsersIn
  <1>6. \A f : f # a /\ f # g => UsersIn(v, f) = UsersIn(of, f)
    BY <1>2, <1>3 DEF UsersIn
  <1>7. Cardinality(UsersIn(v, g)) = Cardinality(UsersIn(of, g)) + 1
    BY <1>4, OneMore, CountedSets
  <1>8. Cardinality(UsersIn(v, a)) = Cardinality(UsersIn(of, a)) - 1
    BY <1>5, OneLess, CountedSets
  <1>9. Cardinality(UsersIn(of, a)) # 0
    BY <1>5, CountedSets, FS_EmptySet
  <1> QED BY <1>1, <1>6, <1>7, <1>8, <1>9 DEF UsersMoved

LEMMA HavingMove ==
    ASSUME NEW t, NEW u, NEW f \in Files, NEW a, NEW b, a # b, t[f].node = a, u[f].node = b,
           \A g \in Files \ {f} : u[g].node = t[g].node
    PROVE  HavingMoved(t, u, a, b)
  <1>1. Having(u, b) = Having(t, b) \cup {f} /\ f \notin Having(t, b)
    BY DEF Having
  <1>2. Having(u, a) = Having(t, a) \ {f} /\ f \in Having(t, a)
    BY DEF Having
  <1>3. \A n : n # a /\ n # b => Having(u, n) = Having(t, n)
    BY DEF Having
  <1>4. Cardinality(Having(u, b)) = Cardinality(Having(t, b)) + 1
    BY <1>1, OneMore, CountedSets
  <1>5. Cardinality(Having(u, a)) = Cardinality(Having(t, a)) - 1
    BY <1>2, OneLess, CountedSets
  <1>6. Cardinality(Having(t, a)) # 0
    BY <1>2, CountedSets, FS_EmptySet
  <1> QED BY <1>3, <1>4, <1>5, <1>6 DEF HavingMoved

LEMMA BeingMove ==
    ASSUME NEW cw \in CwdSet, NEW p \in Slots, NEW a, NEW b, a # b, cw[p] = a,
           NEW v, v = [cw EXCEPT ![p] = b]
    PROVE  BeingMoved(cw, v, a, b)
  <1>1. v[p] = b /\ \A q \in Slots \ {p} : v[q] = cw[q]
    BY DEF CwdSet
  <1>2. Being(v, b) = Being(cw, b) \cup {p} /\ p \notin Being(cw, b)
    BY <1>1 DEF Being
  <1>3. Being(v, a) = Being(cw, a) \ {p} /\ p \in Being(cw, a)
    BY <1>1 DEF Being
  <1>4. \A m : m # a /\ m # b => Being(v, m) = Being(cw, m)
    BY <1>1 DEF Being
  <1>5. Cardinality(Being(v, b)) = Cardinality(Being(cw, b)) + 1
    BY <1>2, OneMore, CountedSets
  <1>6. Cardinality(Being(v, a)) = Cardinality(Being(cw, a)) - 1
    BY <1>3, OneLess, CountedSets
  <1>7. Cardinality(Being(cw, a)) # 0
    BY <1>3, CountedSets, FS_EmptySet
  <1> QED BY <1>4, <1>5, <1>6, <1>7 DEF BeingMoved

(* Somebody is there. *)
LEMMA SomebodyIs ==
    ASSUME NEW cw, NEW p \in Slots
    PROVE  Cardinality(Being(cw, cw[p])) # 0
  <1>1. p \in Being(cw, cw[p])
    BY DEF Being
  <1> QED BY <1>1, CountedSets, FS_EmptySet

-----------------------------------------------------------------------------
(* References that come and go. *)
Worlds == [disk : Disk, ft : [Files -> File], ref : [Node -> Nat]]

LEMMA GrowsIsStable ==
    ASSUME NEW d, NEW c, NEW r, Stable(d, r), Sound(c), Grows(d, c)
    PROVE  Stable(c, r)
  BY DEF Stable, Grows, Anchored, Orphans

LEMMA DupIsStable ==
    ASSUME NEW d, NEW r, Stable(d, r), NEW n \in Node, n[1] = "x" => d.type[n[2]] # "free"
    PROVE  Stable(d, [r EXCEPT ![n] = @ + 1])
  <1> DEFINE v == [r EXCEPT ![n] = @ + 1]
  <1>1. r \in [Node -> Nat] /\ v \in [Node -> Nat]
    BY DEF Stable
  <1>2. \A m \in Node : v[m] = IF m = n THEN r[m] + 1 ELSE r[m]
    BY <1>1
  <1>3. \A i \in Inums : X(i) \in Node /\ X(i)[1] = "x" /\ X(i)[2] = i
    BY Nodes
  <1> HIDE DEF v
  <1>4. Anchored(d, v)
    BY <1>1, <1>2, <1>3 DEF Stable, Anchored
  <1>5. Orphans(d, v)
    BY <1>1, <1>2, <1>3 DEF Stable, Orphans
  <1> QED BY <1>1, <1>4, <1>5 DEF Stable, v

LEMMA IputIs ==
    ASSUME NEW w \in Worlds, Stable(w.disk, w.ref), NEW n \in Node, w.ref[n] # 0
    PROVE  /\ vfs_iput(w, n) \in Worlds /\ Stable(vfs_iput(w, n).disk, vfs_iput(w, n).ref)
           /\ vfs_iput(w, n).ft = w.ft /\ vfs_iput(w, n).ref = [w.ref EXCEPT ![n] = @ - 1]
  <1> DEFINE last == n[1] = "x" /\ w.ref[n] = 1 /\ w.disk.nlink[n[2]] = 0
             d == IF last THEN ifree(w.disk, n[2]) ELSE w.disk
             r == [w.ref EXCEPT ![n] = @ - 1]
             v == vfs_iput(w, n)
  <1>0. w.disk \in Disk /\ w.ref \in [Node -> Nat] /\ w.ft \in [Files -> File]
    BY DEF Worlds
  <1>1. v = [w EXCEPT !.ref = r, !.disk = d]
    BY DEF vfs_iput, Worlds
  <1>2. r \in [Node -> Nat] /\ \A m \in Node : r[m] = IF m = n THEN w.ref[m] - 1 ELSE w.ref[m]
    BY <1>0
  <1>3. \A i \in Inums : X(i) \in Node
    BY Nodes
  <1>4. n[1] = "x" => n[2] \in Inums /\ n = X(n[2]) /\ \A i \in Inums : X(i) = n => i = n[2]
    BY Nodes
  <1>5. Sound(d) /\ Anchored(d, r) /\ Orphans(d, r)
    <2> HIDE DEF r
    <2>1. CASE last
      <3> DEFINE c == ifree(w.disk, n[2])
      <3>1. Sound(c) /\ Freed(w.disk, c, n[2])
        BY <2>1, <1>4, IfreeIsSound DEF Stable
      <3>2. /\ c.type[n[2]] = "free"
            /\ \A i \in Inums \ {n[2]} : c.type[i] = w.disk.type[i] /\ c.nlink[i] = w.disk.nlink[i]
        BY <3>1, <1>0, <1>4, <2>1, DiskFields DEF Freed
      <3> HIDE DEF c
      <3>3. \A i \in Inums \ {n[2]} : r[X(i)] = w.ref[X(i)]
        BY <1>2, <1>3, <1>4, <2>1
      <3>4. r[X(n[2])] = 0
        BY <1>2, <1>4, <2>1
      <3>5. Anchored(c, r)
        BY <3>2, <3>3, <3>4 DEF Stable, Anchored
      <3>6. Orphans(c, r)
        BY <3>2, <3>3 DEF Stable, Orphans
      <3> QED BY <2>1, <3>1, <3>5, <3>6 DEF c
    <2>2. CASE ~last
      <3>1. \A i \in Inums : w.ref[X(i)] \in Nat
        BY <1>0, <1>3
      <3>2. Anchored(w.disk, r)
        BY <1>2, <1>3, <3>1 DEF Stable, Anchored
      <3>3. Orphans(w.disk, r)
        <4> SUFFICES ASSUME NEW i \in Inums, w.disk.type[i] # "free", w.disk.nlink[i] = 0
                     PROVE  r[X(i)] # 0
          BY DEF Orphans
        <4>1. w.ref[X(i)] # 0
          BY DEF Stable, Orphans
        <4>2. CASE X(i) = n
          <5>1. w.ref[n] # 1
            BY <2>2, <4>2, <1>4, Nodes
          <5> QED BY <5>1, <4>2, <4>1, <3>1, <1>2, <1>3
        <4>3. CASE X(i) # n
          BY <4>1, <4>3, <1>2, <1>3
        <4> QED BY <4>2, <4>3
      <3> QED BY <2>2, <3>2, <3>3 DEF Stable
    <2> QED BY <2>1, <2>2
  <1> HIDE DEF r, d
  <1>6. v.disk = d /\ v.ref = r /\ v.ft = w.ft /\ v \in Worlds
    <2>1. d \in Disk
      BY <1>5 DEF Sound
    <2> QED BY <1>1, <1>2, <2>1 DEF Worlds
  <1> QED BY <1>2, <1>5, <1>6 DEF Stable, r

(* Who has a file or a node is counted there. *)
LEMMA FileFields ==
    ASSUME NEW t, FilesOK(t), NEW f \in Files
    PROVE  /\ t[f] \in File /\ t[f].ref \in Nat /\ t[f].node \in Node \cup {NoNode}
           /\ t[f] = [ref |-> t[f].ref, type |-> t[f].type, node |-> t[f].node,
                      writable |-> t[f].writable]
           /\ (t[f].ref = 0 => t[f] = NoFile /\ t[f].node = NoNode)
           /\ (t[f].ref # 0 => t[f].node \in Node /\ t[f].node # NoNode)
  <1>1. t[f] \in File
    BY DEF FilesOK
  <1>2. NoNode \notin Node
    BY Nodes
  <1> QED BY <1>1, <1>2 DEF FilesOK, File, NoFile

(* fileclose, and the descriptor that is gone with it. *)
LEMMA CloseIs ==
    ASSUME NEW w \in Worlds, NEW of \in OfileSet, NEW cw, NEW lf \in [Files -> Nat],
           NEW lc \in [Node -> Nat], Exact(w, of, cw, lf, lc),
           NEW p \in Slots, NEW fd \in Fds, of[p][fd] # 0
    PROVE  /\ fileclose(w, of[p][fd]) \in Worlds
           /\ Exact(fileclose(w, of[p][fd]), [of EXCEPT ![p][fd] = 0], cw, lf, lc)
           /\ \A g \in Files : fileclose(w, of[p][fd]).ft[g].node \in {w.ft[g].node, NoNode}
  <1> DEFINE f == of[p][fd]
             of2 == [of EXCEPT ![p][fd] = 0]
             v == fileclose(w, f)
             n == w.ft[f].node
  <1>1. f \in Files /\ 0 \in 0..NFILE
    BY Params DEF OfileSet
  <1>2. /\ w.disk \in Disk /\ w.ref \in [Node -> Nat] /\ w.ft \in [Files -> File]
        /\ Stable(w.disk, w.ref) /\ FilesOK(w.ft)
        /\ FileCounts(w.ft, of, lf) /\ NodeCounts(w.ref, w.ft, cw, lc)
    BY DEF Worlds, Exact
  <1>3. /\ Cardinality(UsersIn(of2, f)) = Cardinality(UsersIn(of, f)) - 1
        /\ Cardinality(UsersIn(of, f)) # 0
        /\ \A g \in Files \ {f} : UsersIn(of2, g) = UsersIn(of, g)
    <2>1. \A g \in Files : g # 0
      BY DEF Files
    <2>2. f = of[p][fd] /\ f # 0 /\ of2 = [of EXCEPT ![p][fd] = 0]
      OBVIOUS
    <2> HIDE DEF of2, f
    <2>3. UsersMoved(of, of2, f, 0)
      BY <1>1, <2>2, UsersMove
    <2> QED BY <2>1, <2>3 DEF UsersMoved
  <1> HIDE DEF of2
  <1>4. \A g \in Files : Cardinality(UsersIn(of, g)) \in Nat /\ lf[g] \in Nat
    BY CountedSets
  <1>5. w.ft[f].ref # 0 /\ w.ft[f].ref = Cardinality(UsersIn(of, f)) + lf[f]
    BY <1>1, <1>2, <1>3, <1>4 DEF FileCounts
  <1>6. w.ft[f].ref \in Nat /\ n \in Node /\ n # NoNode
    BY <1>1, <1>2, <1>5, FileFields
  <1>7. CASE w.ft[f].ref > 1
    <2> DEFINE u == [w.ft EXCEPT ![f].ref = @ - 1]
    <2>1. v = [w EXCEPT !.ft = u]
      BY <1>7 DEF fileclose, Worlds
    <2>2. /\ u \in [Files -> File] /\ u[f].ref = w.ft[f].ref - 1
          /\ u[f].node = n /\ u[f].type = w.ft[f].type /\ u[f].writable = w.ft[f].writable
          /\ \A g \in Files \ {f} : u[g] = w.ft[g]
      BY <1>1, <1>2, <1>6, <1>7 DEF File
    <2> HIDE DEF u
    <2>3. v \in Worlds /\ v.disk = w.disk /\ v.ref = w.ref /\ v.ft = u
      BY <2>1, <2>2 DEF Worlds
    <2>4. FilesOK(u)
      BY <2>2, <1>1, <1>2, <1>6, <1>7 DEF FilesOK
    <2>5. FileCounts(u, of2, lf)
      BY <2>2, <1>1, <1>2, <1>3, <1>4, <1>5 DEF FileCounts
    <2>6. \A m : Having(u, m) = Having(w.ft, m)
      BY <2>2, <1>1 DEF Having
    <2>7. NodeCounts(w.ref, u, cw, lc)
      BY <2>6, <1>2 DEF NodeCounts
    <2>8. \A g \in Files : u[g].node = w.ft[g].node
      BY <2>2
    <2> QED BY <2>3, <2>4, <2>5, <2>7, <2>8, <1>2 DEF Exact, of2
  <1>8. CASE ~(w.ft[f].ref > 1)
    <2> DEFINE u == [w.ft EXCEPT ![f] = NoFile]
               c == [w EXCEPT !.ft = u]
               r == [w.ref EXCEPT ![n] = @ - 1]
    <2>1. v = vfs_iput(c, n)
      BY <1>6, <1>8 DEF fileclose, Worlds
    <2>2. NoFile \in File /\ NoFile.ref = 0 /\ NoFile.node = NoNode /\ NoFile.type # "inode"
      BY DEF NoFile, File
    <2>3. u \in [Files -> File] /\ u[f] = NoFile /\ \A g \in Files \ {f} : u[g] = w.ft[g]
      BY <1>1, <1>2, <2>2
    <2> HIDE DEF u
    <2>4. c \in Worlds /\ c.disk = w.disk /\ c.ref = w.ref /\ c.ft = u
      BY <2>3 DEF Worlds
    <2>5. /\ Cardinality(Having(u, n)) = Cardinality(Having(w.ft, n)) - 1
          /\ Cardinality(Having(w.ft, n)) # 0
          /\ \A m \in Node : m # n => Having(u, m) = Having(w.ft, m)
      <3>1. u[f].node # n /\ \A g \in Files \ {f} : u[g].node = w.ft[g].node
        BY <1>6, <2>2, <2>3
      <3>2. \A m \in Node : m # u[f].node
        BY <2>2, <2>3, Nodes
      <3>3. HavingMoved(w.ft, u, n, u[f].node)
        BY <3>1, <1>1, HavingMove
      <3> QED BY <3>2, <3>3 DEF HavingMoved
    <2>6. /\ Cardinality(Having(w.ft, n)) \in Nat /\ Cardinality(Being(cw, n)) \in Nat
          /\ lc[n] \in Nat
      BY <1>6, CountedSets
    <2>7. w.ref[n] = Cardinality(Having(w.ft, n)) + Cardinality(Being(cw, n)) + lc[n]
      BY <1>2, <1>6 DEF NodeCounts
    <2>8. w.ref[n] # 0
      <3> DEFINE a == Cardinality(Having(w.ft, n))
                 b == Cardinality(Being(cw, n))
      <3>1. a \in Nat /\ b \in Nat /\ lc[n] \in Nat /\ a # 0 /\ w.ref[n] = a + b + lc[n]
        BY <2>5, <2>6, <2>7
      <3> HIDE DEF a, b
      <3> QED BY <3>1
    <2> HIDE DEF c
    <2>9. v \in Worlds /\ Stable(v.disk, v.ref) /\ v.ft = u /\ v.ref = r
      BY <2>1, <2>4, <2>8, <1>2, <1>6, IputIs
    <2>10. FilesOK(u)
      BY <2>2, <2>3, <1>2 DEF FilesOK
    <2>11. FileCounts(u, of2, lf)
      <3>1. 0 = Cardinality(UsersIn(of2, f)) + lf[f]
        BY <1>1, <1>3, <1>4, <1>5, <1>6, <1>8
      <3>2. \A g \in Files \ {f} : u[g].ref = Cardinality(UsersIn(of2, g)) + lf[g]
        BY <2>3, <1>2, <1>3 DEF FileCounts
      <3>3. u[f].ref = 0
        BY <2>2, <2>3
      <3> QED BY <3>1, <3>2, <3>3 DEF FileCounts
    <2>12. NodeCounts(r, u, cw, lc)
      <3>1. r[n] = w.ref[n] - 1 /\ \A m \in Node \ {n} : r[m] = w.ref[m]
        BY <1>2, <1>6
      <3>2. r[n] = Cardinality(Having(u, n)) + Cardinality(Being(cw, n)) + lc[n]
        <4> DEFINE a == Cardinality(Having(w.ft, n))
                   a2 == Cardinality(Having(u, n))
                   b == Cardinality(Being(cw, n))
        <4>1. /\ a \in Nat /\ b \in Nat /\ lc[n] \in Nat /\ a2 = a - 1
              /\ r[n] = (a + b + lc[n]) - 1
          BY <3>1, <2>5, <2>6, <2>7
        <4> HIDE DEF a, b, a2, r
        <4>2. r[n] = a2 + b + lc[n]
          BY <4>1
        <4> QED BY <4>2 DEF a2, b
      <3> HIDE DEF r
      <3>3. \A m \in Node \ {n} :
               r[m] = Cardinality(Having(u, m)) + Cardinality(Being(cw, m)) + lc[m]
        BY <3>1, <2>5, <1>2 DEF NodeCounts
      <3> QED BY <3>2, <3>3 DEF NodeCounts
    <2>13. \A g \in Files : u[g].node \in {w.ft[g].node, NoNode}
      BY <2>2, <2>3
    <2> QED BY <2>9, <2>10, <2>11, <2>12, <2>13 DEF Exact, of2
  <1> QED BY <1>7, <1>8

(* CloseAll: the first k descriptors of p are gone after k turns. *)
Cleared(p, k) ==
    [ofile EXCEPT ![p] = [fd \in Fds |-> IF fd <= k THEN 0 ELSE ofile[p][fd]]]

LEMMA ClearedIs ==
    ASSUME ofile \in OfileSet, NEW p \in Slots
    PROVE  /\ Cleared(p, 0) = ofile
           /\ Cleared(p, NOFILE) = [ofile EXCEPT ![p] = [fd \in Fds |-> 0]]
           /\ \A k \in Fds : /\ Cleared(p, k - 1) \in OfileSet
                             /\ Cleared(p, k - 1)[p][k] = ofile[p][k]
                             /\ Cleared(p, k) = [Cleared(p, k - 1) EXCEPT ![p][k] = 0]
                             /\ ofile[p][k] = 0 => Cleared(p, k) = Cleared(p, k - 1)
  <1> USE DEF OfileSet
  <1>1. Fds = 1..NOFILE /\ NOFILE \in Nat /\ 0 \in 0..NFILE
    BY Params DEF Fds
  <1>2. ofile[p] \in [Fds -> 0..NFILE]
    OBVIOUS
  <1> DEFINE Row(k) == [fd \in Fds |-> IF fd <= k THEN 0 ELSE ofile[p][fd]]
  <1>3. Row(0) = ofile[p]
    BY <1>1, <1>2
  <1>4. Row(NOFILE) = [fd \in Fds |-> 0]
    BY <1>1
  <1>5. \A k \in Fds : Row(k - 1) \in [Fds -> 0..NFILE] /\ Row(k - 1)[k] = ofile[p][k]
    BY <1>1, <1>2
  <1>6. ASSUME NEW k \in Fds PROVE Row(k) = [Row(k - 1) EXCEPT ![k] = 0]
    <2>1. k \in Nat /\ \A fd \in Fds : fd \in Nat
      BY <1>1
    <2>2. \A fd \in Fds : fd <= k <=> (fd = k \/ fd <= k - 1)
      BY <2>1
    <2> QED BY <2>2
  <1>7. \A k \in Fds : ofile[p][k] = 0 => Row(k) = Row(k - 1)
    BY <1>1, <1>2
  <1>8. \A k : Cleared(p, k) = [ofile EXCEPT ![p] = Row(k)]
    BY DEF Cleared
  <1> HIDE DEF Row
  <1>9. Cleared(p, 0) = ofile
    BY <1>3, <1>8
  <1>10. ASSUME NEW k \in Fds
         PROVE  /\ Cleared(p, k - 1) \in OfileSet
                /\ Cleared(p, k - 1)[p][k] = ofile[p][k]
                /\ Cleared(p, k) = [Cleared(p, k - 1) EXCEPT ![p][k] = 0]
                /\ ofile[p][k] = 0 => Cleared(p, k) = Cleared(p, k - 1)
    <2> DEFINE r == Row(k - 1)
               q == [r EXCEPT ![k] = 0]
    <2>1. r \in [Fds -> 0..NFILE] /\ r[k] = ofile[p][k] /\ Row(k) = q
      BY <1>5, <1>6
    <2>2. Cleared(p, k - 1) = [ofile EXCEPT ![p] = r] /\ Cleared(p, k) = [ofile EXCEPT ![p] = q]
      BY <1>8, <2>1
    <2>3. [[ofile EXCEPT ![p] = r] EXCEPT ![p][k] = 0] = [ofile EXCEPT ![p] = q]
      <3> HIDE DEF r
      <3> QED OBVIOUS
    <2> HIDE DEF r, q
    <2> QED BY <2>1, <2>2, <2>3, <1>7, <1>8
  <1> QED BY <1>4, <1>8, <1>9, <1>10

LEMMA CloseAllIs ==
    ASSUME World \in Worlds, ofile \in OfileSet, lostFd \in [Files -> Nat],
           lostCwd \in [Node -> Nat], Exact(World, ofile, cwd, lostFd, lostCwd), NEW p \in Slots
    PROVE  /\ CloseAll(p) \in Worlds
           /\ Exact(CloseAll(p), [ofile EXCEPT ![p] = [fd \in Fds |-> 0]], cwd, lostFd, lostCwd)
           /\ \A g \in Files : CloseAll(p).ft[g].node \in {ft[g].node, NoNode}
  <1> DEFINE Turn(w, k) == IF ofile[p][k] = 0 THEN w ELSE fileclose(w, ofile[p][k])
             Ok(w, k) == /\ Exact(w, Cleared(p, k), cwd, lostFd, lostCwd)
                         /\ \A g \in Files : w.ft[g].node \in {ft[g].node, NoNode}
             G == [k \in 0..NOFILE |-> {w \in Worlds : Ok(w, k)}]
             step == [k \in 1..NOFILE |-> [w \in G[k - 1] |-> Turn(w, k)]]
             F[k \in 0..NOFILE] ==
               IF k = 0 THEN World
               ELSE IF ofile[p][k] = 0 THEN F[k - 1] ELSE fileclose(F[k - 1], ofile[p][k])
  <1>0. NOFILE \in Nat /\ Fds = 1..NOFILE
    BY Params DEF Fds
  <1>1. CloseAll(p) = F[NOFILE]
    BY DEF CloseAll
  <1>2. World \in G[0]
    <2>1. World.ft = ft
      BY DEF World
    <2>2. Ok(World, 0)
      BY <2>1, ClearedIs
    <2> QED BY <2>2, <1>0
  <1>3. ASSUME NEW k \in 1..NOFILE, NEW w \in G[k - 1] PROVE Turn(w, k) \in G[k]
    <2>1. k - 1 \in 0..NOFILE /\ k \in 0..NOFILE /\ k \in Fds
      BY <1>0
    <2>2. w \in Worlds /\ Ok(w, k - 1)
      BY <2>1, <1>3
    <2>3. /\ Cleared(p, k - 1) \in OfileSet /\ Cleared(p, k - 1)[p][k] = ofile[p][k]
          /\ Cleared(p, k) = [Cleared(p, k - 1) EXCEPT ![p][k] = 0]
          /\ ofile[p][k] = 0 => Cleared(p, k) = Cleared(p, k - 1)
      BY <2>1, ClearedIs
    <2>4. CASE ofile[p][k] = 0
      BY <2>1, <2>2, <2>3, <2>4
    <2>5. CASE ofile[p][k] # 0
      <3> DEFINE of == Cleared(p, k - 1)
                 v == fileclose(w, of[p][k])
      <3>1. of \in OfileSet /\ of[p][k] = ofile[p][k] /\ of[p][k] # 0
        BY <2>3, <2>5
      <3>2. Exact(w, of, cwd, lostFd, lostCwd)
        BY <2>2
      <3> HIDE DEF of
      <3>3. /\ v \in Worlds /\ Exact(v, [of EXCEPT ![p][k] = 0], cwd, lostFd, lostCwd)
            /\ \A g \in Files : v.ft[g].node \in {w.ft[g].node, NoNode}
        BY <3>1, <3>2, <2>1, <2>2, CloseIs
      <3> HIDE DEF v
      <3>4. Ok(v, k)
        BY <3>3, <2>2, <2>3 DEF of
      <3>5. Turn(w, k) = v
        BY <2>5, <3>1 DEF v
      <3> QED BY <2>1, <3>3, <3>4, <3>5
    <2> QED BY <2>4, <2>5
  <1>4. \A k \in 1..NOFILE : \A x \in G[k - 1] : step[k][x] \in G[k]
    <2> HIDE DEF G, Turn
    <2> QED BY <1>3
  <1>5. PICK g : Iterates(g, G, NOFILE, World, step)
    <2> HIDE DEF G, step
    <2> QED BY <1>0, <1>2, <1>4, Recursion
  <1> HIDE DEF G
  <1>6. g = [k \in 0..NOFILE |->
               IF k = 0 THEN World
               ELSE IF ofile[p][k] = 0 THEN g[k - 1] ELSE fileclose(g[k - 1], ofile[p][k])]
    <2>1. /\ g = [k \in 0..NOFILE |-> g[k]] /\ g[0] = World
          /\ \A k \in 1..NOFILE : g[k - 1] \in G[k - 1] /\ g[k] = step[k][g[k - 1]]
      BY <1>5 DEF Iterates
    <2>2. \A k \in 1..NOFILE : g[k] = Turn(g[k - 1], k)
      <3> HIDE DEF Turn
      <3> QED BY <2>1
    <2>3. \A k \in 0..NOFILE : k # 0 => k \in 1..NOFILE
      BY <1>0
    <2>4. \A k \in 0..NOFILE :
            g[k] = IF k = 0 THEN World
                   ELSE IF ofile[p][k] = 0 THEN g[k - 1] ELSE fileclose(g[k - 1], ofile[p][k])
      BY <2>1, <2>2, <2>3
    <2> QED BY <2>1, <2>4
  <1>7. F = [k \in 0..NOFILE |->
               IF k = 0 THEN World
               ELSE IF ofile[p][k] = 0 THEN F[k - 1] ELSE fileclose(F[k - 1], ofile[p][k])]
    BY <1>6
  <1> HIDE DEF F
  <1>8. F[0] = World /\ \A k \in 1..NOFILE : F[k] = Turn(F[k - 1], k)
    <2>1. \A k \in 1..NOFILE : k \in 0..NOFILE /\ k # 0
      BY <1>0
    <2>2. 0 \in 0..NOFILE
      BY <1>0
    <2> QED BY <1>7, <2>1, <2>2
  <1>9. \A k \in 0..NOFILE : F[k] \in G[k]
    <2> HIDE DEF Turn
    <2>1. \A k \in 1..NOFILE : F[k - 1] \in G[k - 1] => F[k] \in G[k]
      BY <1>3, <1>8
    <2> QED BY <1>0, <1>2, <1>8, <2>1, Turns
  <1>10. F[NOFILE] \in G[NOFILE] /\ NOFILE \in 0..NOFILE
    BY <1>0, <1>9
  <1>11. F[NOFILE] \in Worlds /\ Ok(F[NOFILE], NOFILE)
    BY <1>10 DEF G
  <1> QED BY <1>1, <1>11, ClearedIs

-----------------------------------------------------------------------------
(* The actions. *)
LEMMA Parts ==
    ASSUME IInv
    PROVE  /\ World \in Worlds /\ World.disk = disk /\ World.ft = ft /\ World.ref = ref
           /\ disk \in Disk /\ ft \in [Files -> File] /\ ref \in [Node -> Nat]
           /\ ofile \in OfileSet /\ cwd \in CwdSet
           /\ lostFd \in [Files -> Nat] /\ lostCwd \in [Node -> Nat]
           /\ Stable(disk, ref) /\ Sound(disk) /\ FilesOK(ft)
           /\ FileCounts(ft, ofile, lostFd) /\ NodeCounts(ref, ft, cwd, lostCwd)
           /\ live \subseteq Slots /\ Tables /\ NobodyStranded
  <1>1. World.disk = disk /\ World.ft = ft /\ World.ref = ref
    BY DEF World
  <1>2. World \in Worlds
    BY DEF IInv, TypeOK, World, Worlds
  <1> QED BY <1>1, <1>2 DEF IInv, Exact, TypeOK, OfileSet, CwdSet, Stable

(* A call of process p that leaves the mounts and the other tables alone. *)
Others(p) == \A q \in Slots \ {p} : cwd'[q] = cwd[q] /\ ofile'[q] = ofile[q]
Afloat == fatmnt = Unmounted =>
    (\A f \in Files : ~fat_is(ft'[f].node)) /\ (\A q \in Slots : ~fat_is(cwd'[q]))

LEMMA CallStep ==
    ASSUME IInv, NEW p \in live, UNCHANGED <<live, lost, stop, fatmnt, devmnt>>,
           consdir' \in BOOLEAN, Stable(disk', ref'), FilesOK(ft'),
           FileCounts(ft', ofile', lostFd), NodeCounts(ref', ft', cwd', lostCwd),
           ofile' \in OfileSet, cwd' \in CwdSet, cwd'[p] \in Node, Others(p), Afloat
    PROVE  IInv'
  <1>1. live' = live /\ lostFd' = lostFd /\ lostCwd' = lostCwd /\ fatmnt' = fatmnt
    BY DEF lost
  <1>2. live \subseteq Slots /\ Tables
    BY Parts
  <1>3. TypeOK'
    <2>1. disk' \in Disk /\ ref' \in [Node -> Nat] /\ ft' \in [Files -> File]
      BY DEF Stable, Sound, FilesOK
    <2> QED BY <1>1, <2>1 DEF IInv, TypeOK, OfileSet, CwdSet
  <1>4. Exact(World, ofile, cwd, lostFd, lostCwd)'
    <2>1. World'.disk = disk' /\ World'.ft = ft' /\ World'.ref = ref'
      BY DEF World
    <2> QED BY <1>1, <2>1 DEF Exact
  <1>5. Tables'
    <2>1. Fresh' = Fresh
      BY <1>1, <1>2 DEF Others, Fresh
    <2>2. \A q \in live : cwd'[q] \in Node
      BY <1>2 DEF Others, Tables
    <2>3. \A q \in Slots \ live : cwd'[q] = cwd[q] /\ ofile'[q] = ofile[q]
      BY DEF Others
    <2>4. \A q : BootTable(q)' = BootTable(q)
      BY DEF BootTable, BootFile, SlotNo
    <2>5. \A q \in Fresh : cwd'[q] = X(ROOTINO) /\ ofile'[q] = BootTable(q)
      BY <2>3, <1>2 DEF Fresh, Tables
    <2> QED BY <1>1, <1>2, <2>1, <2>2, <2>3, <2>5 DEF Tables, BootTable, BootFile, SlotNo
  <1>6. NobodyStranded'
    BY <1>1 DEF Afloat, NobodyStranded
  <1> QED BY <1>3, <1>4, <1>5, <1>6 DEF IInv

(* The same for a call that only changes the disk. *)
LEMMA DiskStep ==
    ASSUME IInv, NEW p \in live, Sound(disk'), Grows(disk, disk'),
           UNCHANGED <<ft, ref, ofile, cwd, mounts, tables>>
    PROVE  IInv'
  <1>1. /\ Stable(disk, ref) /\ FilesOK(ft) /\ ofile \in OfileSet /\ cwd \in CwdSet
        /\ FileCounts(ft, ofile, lostFd) /\ NodeCounts(ref, ft, cwd, lostCwd)
        /\ Tables /\ NobodyStranded
    BY Parts
  <1>2. Stable(disk', ref)
    BY <1>1, GrowsIsStable
  <1>3. /\ ft' = ft /\ ref' = ref /\ ofile' = ofile /\ cwd' = cwd
        /\ UNCHANGED <<live, lost, stop, fatmnt, devmnt>> /\ consdir' = consdir
    BY DEF mounts, tables
  <1>4. cwd'[p] \in Node /\ consdir' \in BOOLEAN
    BY <1>1, <1>3 DEF Tables, IInv, TypeOK
  <1>5. Others(p) /\ Afloat
    BY <1>1, <1>3 DEF Others, Afloat, NobodyStranded
  <1>6. /\ Stable(disk', ref') /\ FilesOK(ft') /\ FileCounts(ft', ofile', lostFd)
        /\ NodeCounts(ref', ft', cwd', lostCwd) /\ ofile' \in OfileSet /\ cwd' \in CwdSet
    BY <1>1, <1>2, <1>3
  <1> QED BY <1>3, <1>4, <1>5, <1>6, CallStep

(* Where a path of the plain file system starts. *)
LEMMA StartsOnDisk ==
    ASSUME IInv, NEW p \in live, NEW path, path \in Paths, ~fat_writepath(p, path)
    PROVE  path \in PathSet /\ Start(p, path) \in Xs
  <1>1. path \in PathSet
    BY KFsAssumption DEF PathSet
  <1>2. X(ROOTINO) \in Xs
    BY Params DEF Xs
  <1>3. cwd[p] \in Node
    BY Parts DEF Tables
  <1>4. ~path.abs => cwd[p] \in Xs
    <2>1. ~path.abs => cwd[p][1] = "x"
      BY DEF fat_writepath
    <2> QED BY <1>3, <2>1, Nodes
  <1> QED BY <1>1, <1>2, <1>4 DEF Start

LEMMA MkdirStep ==
    ASSUME IInv, NEW p \in Slots, NEW path \in Paths, Mkdir(p, path)
    PROVE  IInv'
  <1>1. p \in live /\ ~fat_writepath(p, path) /\ create(p, path, "dir").ip \notin Ends
    BY DEF Mkdir, Runs, Ends
  <1>2. path \in PathSet /\ Start(p, path) \in Xs /\ Sound(disk)
    BY <1>1, StartsOnDisk, Parts
  <1>3. Sound(create(p, path, "dir").disk) /\ Grows(disk, create(p, path, "dir").disk)
    BY <1>1, <1>2, CreateIs
  <1>4. /\ disk' = create(p, path, "dir").disk
        /\ UNCHANGED <<ft, ref, ofile, cwd, mounts, tables>>
    BY DEF Mkdir
  <1>5. Sound(disk') /\ Grows(disk, disk')
    BY <1>3, <1>4
  <1> QED BY <1>1, <1>4, <1>5, DiskStep

LEMMA LinkStep ==
    ASSUME IInv, NEW p \in Slots, NEW old \in Paths, NEW new \in Paths, Link(p, old, new)
    PROVE  IInv'
  <1> DEFINE ip == namei(p, old)
             P == nameiparent(p, new)
             dp == P[2]
             i == ip[2]
             name == Last(new.el)
             c == [disk EXCEPT !.nlink[i] = @ + 1, !.ent[dp][name] = i]
  <1>1. /\ p \in live /\ ~fat_writepath(p, old) /\ ~fat_writepath(p, new)
        /\ ip[1] = "x" /\ P[1] = "x" /\ NodeType(ip) = "file" /\ disk.ent[dp][name] = 0
        /\ disk' = c /\ UNCHANGED <<ft, ref, ofile, cwd, mounts, tables>>
    BY DEF Link, Runs
  <1>2. /\ Start(p, old) \in Xs /\ Start(p, new) \in Xs /\ new \in PathSet
        /\ old.el \in Seq(Names) /\ Sound(disk) /\ disk \in Disk
    BY <1>1, StartsOnDisk, Parts DEF PathSet
  <1>3. i \in Inums /\ disk.type[i] = "file"
    <2>1. ip \in Xs \cup Ends
      BY <1>2, NameiStays
    <2>2. ip \in Xs
      BY <2>1, <1>1, Nodes DEF Ends
    <2> QED BY <2>2, <1>1, Nodes, NodeTypeX DEF Xs
  <1>4. P \notin Ends
    BY <1>1, Nodes DEF Ends
  <1>5. dp \in Inums /\ disk.type[dp] = "dir" /\ disk.nlink[dp] # 0 /\ name \in Names
    BY <1>2, <1>4, ParentIs
  <1> HIDE DEF ip, P, name
  <1>6. Vacant(disk, dp, name)
    BY <1>1, <1>5 DEF Vacant
  <1> HIDE DEF dp, i
  <1>7. Sound(c) /\ Linked(disk, c, i, dp, name)
    BY <1>2, <1>3, <1>6, LinkIsSound
  <1> HIDE DEF c
  <1>8. Grows(disk, c)
    <2>1. disk.nlink \in [Inums -> Nat] /\ disk.type \in [Inums -> {"free", "file", "dir"}]
      BY <1>2, DiskFields
    <2>2. c.type = disk.type
      BY <1>7 DEF Linked
    <2>3. \A k \in Inums : c.nlink[k] = IF k = i THEN disk.nlink[k] + 1 ELSE disk.nlink[k]
      BY <1>7 DEF Linked
    <2> QED BY <2>1, <2>2, <2>3, <1>3 DEF Grows
  <1> QED BY <1>1, <1>7, <1>8, DiskStep

(* Who has a node is counted there. *)
LEMMA FileHolds ==
    ASSUME IInv, NEW f \in Files, ft[f].node \in Node
    PROVE  ref[ft[f].node] # 0
  <1> DEFINE n == ft[f].node
             a == Cardinality(Having(ft, n))
             b == Cardinality(Being(cwd, n))
  <1>1. f \in Having(ft, n)
    BY DEF Having
  <1>2. a \in Nat /\ b \in Nat /\ a # 0
    BY <1>1, CountedSets, FS_EmptySet
  <1>3. lostCwd[n] \in Nat /\ ref[n] = a + b + lostCwd[n]
    BY Parts DEF NodeCounts
  <1> HIDE DEF a, b, n
  <1>4. ref[n] # 0
    BY <1>2, <1>3
  <1> QED BY <1>4 DEF n

LEMMA DirHolds ==
    ASSUME IInv, NEW p \in Slots, cwd[p] \in Node
    PROVE  ref[cwd[p]] # 0
  <1> DEFINE n == cwd[p]
             a == Cardinality(Having(ft, n))
             b == Cardinality(Being(cwd, n))
  <1>2. a \in Nat /\ b \in Nat /\ b # 0
    BY CountedSets, SomebodyIs
  <1>3. lostCwd[n] \in Nat /\ ref[n] = a + b + lostCwd[n]
    BY Parts DEF NodeCounts
  <1> HIDE DEF a, b, n
  <1>4. ref[n] # 0
    BY <1>2, <1>3
  <1> QED BY <1>4 DEF n

LEMMA WriteStep ==
    ASSUME IInv, NEW p \in Slots, NEW fd \in Fds, Write(p, fd)
    PROVE  IInv'
  <1> DEFINE f == ofile[p][fd]
             n == ft[f].node
             i == n[2]
  <1>1. /\ p \in live /\ f # 0 /\ ft[f].type = "inode" /\ ft[f].writable
        /\ disk' = bmap(disk, i) /\ UNCHANGED <<ft, ref, ofile, cwd, mounts, tables>>
    BY DEF Write, Runs
  <1>2. f \in Files
    BY <1>1, Parts, Params DEF OfileSet
  <1>3. ft[f].ref # 0 /\ n[1] = "x"
    BY <1>1, <1>2, Parts DEF FilesOK, NoFile
  <1>4. n \in Node
    BY <1>2, <1>3, Parts DEF FilesOK
  <1>5. i \in Inums /\ n = X(i)
    BY <1>3, <1>4, Nodes
  <1>6. ref[X(i)] # 0
    BY <1>2, <1>4, <1>5, FileHolds
  <1> HIDE DEF i
  <1>7. disk.type[i] # "free" /\ Sound(disk)
    BY <1>5, <1>6, Parts DEF Stable, Anchored
  <1>8. Sound(bmap(disk, i)) /\ SameTree(disk, bmap(disk, i))
    BY <1>5, <1>7, BmapIsSound
  <1>9. Grows(disk, bmap(disk, i))
    BY <1>8 DEF Grows, SameTree
  <1> QED BY <1>1, <1>8, <1>9, DiskStep

(* A file and a descriptor for node n. *)
LEMMA InstallStep ==
    ASSUME IInv, NEW p \in live, NEW n \in Node, NEW d, Sound(d), Grows(disk, d),
           n[1] = "x" => d.type[n[2]] # "free", fat_is(n) => fatmnt # Unmounted,
           NEW writable \in BOOLEAN, NEW trunc, trunc => n[1] = "x",
           writable /\ NodeType(n) # "device" => n[1] = "x",
           Install(p, n, d, writable, trunc), UNCHANGED <<cwd, mounts, tables>>
    PROVE  IInv'
  <1> DEFINE f == Least(FreeFiles)
             fd == Least(FreeFds(p))
             ty == IF NodeType(n) = "device" THEN "device" ELSE "inode"
             rec == [ref |-> 1, type |-> ty, node |-> n, writable |-> writable]
             e == IF trunc /\ d.type[n[2]] = "file" THEN itrunc(d, n[2]) ELSE d
             t == [ft EXCEPT ![f] = rec]
             r == [ref EXCEPT ![n] = @ + 1]
             of == [ofile EXCEPT ![p][fd] = f]
  <1>1. /\ World \in Worlds /\ Stable(disk, ref) /\ FilesOK(ft) /\ ofile \in OfileSet
        /\ cwd \in CwdSet /\ FileCounts(ft, ofile, lostFd) /\ NodeCounts(ref, ft, cwd, lostCwd)
        /\ Tables /\ NobodyStranded /\ ref \in [Node -> Nat] /\ ft \in [Files -> File]
        /\ lostFd \in [Files -> Nat] /\ lostCwd \in [Node -> Nat] /\ p \in Slots
    BY Parts
  <1>2. CASE FreeFiles = {} \/ FreeFds(p) = {}
    <2>1. disk' = d /\ UNCHANGED <<ft, ref, ofile, cwd, mounts, tables>>
      BY <1>2 DEF Install
    <2> QED BY <2>1, DiskStep
  <1>3. CASE FreeFiles # {} /\ FreeFds(p) # {}
    <2>1. /\ Become(Dup([World EXCEPT !.ft[f] = rec, !.disk = e], n)) /\ ofile' = of
      BY <1>3 DEF Install
    <2>2. disk' = e /\ ft' = t /\ ref' = r
      BY <2>1 DEF Become, Dup, World
    <2>3. f \in Files /\ ft[f].ref = 0
      <3>1. FreeFiles \in SUBSET Nat /\ FreeFiles # {}
        BY <1>3, Params DEF FreeFiles
      <3>2. f \in FreeFiles
        BY <3>1, LeastIn
      <3> QED BY <3>2 DEF FreeFiles
    <2>4. fd \in Fds /\ ofile[p][fd] = 0
      <3>1. FreeFds(p) \in SUBSET Nat /\ FreeFds(p) # {}
        BY <1>3, Params DEF FreeFds
      <3>2. fd \in FreeFds(p)
        BY <3>1, LeastIn
      <3> QED BY <3>2 DEF FreeFds
    <2>5. rec \in File /\ rec.ref = 1 /\ rec.node = n /\ rec.type = ty /\ rec.writable = writable
      BY DEF File
    <2>6. ty = "inode" /\ writable => n[1] = "x"
      OBVIOUS
    <2>7. Sound(e) /\ SameTree(d, e)
      <3>1. CASE trunc /\ d.type[n[2]] = "file"
        <4>1. n[2] \in Inums
          BY <3>1, Nodes
        <4> QED BY <3>1, <4>1, ItruncIsSound
      <3>2. CASE ~(trunc /\ d.type[n[2]] = "file")
        BY <3>2 DEF SameTree
      <3> QED BY <3>1, <3>2
    <2> HIDE DEF e, f, fd, ty, rec
    <2>8. Stable(e, ref)
      <3>1. Stable(d, ref)
        BY <1>1, GrowsIsStable
      <3>2. Grows(d, e)
        BY <2>7 DEF SameTree, Grows
      <3> QED BY <3>1, <3>2, <2>7, GrowsIsStable
    <2>9. Stable(e, r)
      <3>1. n[1] = "x" => e.type[n[2]] # "free"
        BY <2>7 DEF SameTree
      <3> QED BY <3>1, <2>8, DupIsStable
    <2>10. t \in [Files -> File] /\ t[f] = rec /\ \A g \in Files \ {f} : t[g] = ft[g]
      BY <1>1, <2>3, <2>5
    <2>11. r[n] = ref[n] + 1 /\ \A m \in Node \ {n} : r[m] = ref[m]
      BY <1>1
    <2> HIDE DEF t, r
    <2>12. FilesOK(t)
      BY <1>1, <2>5, <2>6, <2>10 DEF FilesOK
    <2>13. of \in OfileSet /\ UsersMoved(ofile, of, 0, f)
      <3>1. 0 # f /\ f \in 0..NFILE /\ 0 = ofile[p][fd]
        BY <2>3, <2>4, Params DEF Files
      <3>2. of = [ofile EXCEPT ![p][fd] = f]
        OBVIOUS
      <3> HIDE DEF of
      <3> QED BY <3>1, <3>2, <1>1, <2>4, UsersMove
    <2>14. Others(p)
      <3>1. cwd' = cwd /\ ofile' = of
        BY <2>1
      <3> QED BY <3>1, <1>1 DEF Others, OfileSet
    <2> HIDE DEF of
    <2>15. FileCounts(t, of, lostFd)
      <3> DEFINE u == Cardinality(UsersIn(ofile, f))
                 v == Cardinality(UsersIn(of, f))
      <3>1. u \in Nat /\ lostFd[f] \in Nat /\ ft[f].ref = u + lostFd[f] /\ v = u + 1
        BY <1>1, <2>3, <2>13, CountedSets DEF FileCounts, UsersMoved
      <3> HIDE DEF u, v
      <3>2. t[f].ref = v + lostFd[f]
        BY <3>1, <2>3, <2>5, <2>10
      <3>3. \A g \in Files \ {f} : g # 0
        BY DEF Files
      <3>4. \A g \in Files \ {f} : UsersIn(of, g) = UsersIn(ofile, g)
        BY <3>3, <2>13 DEF UsersMoved
      <3>5. \A g \in Files \ {f} : t[g].ref = Cardinality(UsersIn(of, g)) + lostFd[g]
        BY <3>4, <2>10, <1>1 DEF FileCounts
      <3> QED BY <3>2, <3>5 DEF FileCounts, v
    <2>16. NodeCounts(r, t, cwd, lostCwd)
      <3>1. HavingMoved(ft, t, NoNode, n)
        <4>1. ft[f].node = NoNode /\ t[f].node = n /\ NoNode # n
          <5>1. ft[f].node = NoNode
            BY <1>1, <2>3 DEF FilesOK, NoFile
          <5>2. NoNode # n
            BY Nodes
          <5> QED BY <5>1, <5>2, <2>5, <2>10
        <4>2. \A g \in Files \ {f} : t[g].node = ft[g].node
          BY <2>10
        <4> QED BY <4>1, <4>2, <2>3, HavingMove
      <3> DEFINE a == Cardinality(Having(ft, n))
                 b == Cardinality(Being(cwd, n))
                 c == Cardinality(Having(t, n))
      <3>2. /\ a \in Nat /\ b \in Nat /\ lostCwd[n] \in Nat /\ c = a + 1
            /\ ref[n] = a + b + lostCwd[n]
        BY <1>1, <3>1, CountedSets DEF NodeCounts, HavingMoved
      <3> HIDE DEF a, b, c
      <3>3. r[n] = c + b + lostCwd[n]
        BY <3>2, <2>11
      <3>4. \A m \in Node \ {n} : Having(t, m) = Having(ft, m)
        BY <3>1, Nodes DEF HavingMoved
      <3>5. \A m \in Node \ {n} :
               r[m] = Cardinality(Having(t, m)) + Cardinality(Being(cwd, m)) + lostCwd[m]
        BY <3>4, <2>11, <1>1 DEF NodeCounts
      <3> QED BY <3>3, <3>5 DEF NodeCounts, b, c
    <2>17. Afloat
      <3>1. \A g \in Files : t[g].node = n \/ t[g].node = ft[g].node
        BY <2>5, <2>10
      <3>2. cwd' = cwd /\ ft' = t
        BY <2>2
      <3> QED BY <3>1, <3>2, <1>1 DEF Afloat, NobodyStranded
    <2>18. /\ UNCHANGED <<live, lost, stop, fatmnt, devmnt>> /\ consdir' = consdir /\ cwd' = cwd
      BY DEF mounts, tables
    <2>19. consdir' \in BOOLEAN /\ cwd'[p] \in Node
      BY <2>18, <1>1 DEF IInv, TypeOK, Tables
    <2>20. /\ Stable(disk', ref') /\ FilesOK(ft') /\ FileCounts(ft', ofile', lostFd)
           /\ NodeCounts(ref', ft', cwd', lostCwd) /\ ofile' \in OfileSet /\ cwd' \in CwdSet
      BY <1>1, <2>1, <2>2, <2>9, <2>12, <2>13, <2>15, <2>16, <2>18
    <2> QED BY <2>14, <2>17, <2>18, <2>19, <2>20, CallStep
  <1> QED BY <1>2, <1>3

LEMMA OpenCreateStep ==
    ASSUME IInv, NEW p \in Slots, NEW path \in Paths, NEW wr \in BOOLEAN, NEW tr \in BOOLEAN,
           OpenCreate(p, path, wr, tr)
    PROVE  IInv'
  <1> DEFINE c == create(p, path, "file")
             n == c.ip
             d == c.disk
  <1>1. /\ p \in live /\ ~fat_writepath(p, path) /\ n \notin Ends
        /\ Install(p, n, d, wr, tr) /\ UNCHANGED <<cwd, mounts, tables>>
    BY DEF OpenCreate, Runs, Ends
  <1>2. path \in PathSet /\ Start(p, path) \in Xs /\ Sound(disk)
    BY <1>1, StartsOnDisk, Parts
  <1>3. Sound(d) /\ Grows(disk, d) /\ n \in Xs /\ d.type[n[2]] = "file"
    BY <1>1, <1>2, CreateIs
  <1> HIDE DEF c, n, d
  <1>4. n \in Node /\ n[1] = "x" /\ ~fat_is(n)
    BY <1>3, Nodes DEF Xs
  <1>5. d.type[n[2]] # "free"
    BY <1>3
  <1> QED BY <1>1, <1>3, <1>4, <1>5, InstallStep

LEMMA OpenStep ==
    ASSUME IInv, NEW p \in Slots, NEW path \in Paths, NEW wr \in BOOLEAN, NEW tr \in BOOLEAN,
           Open(p, path, wr, tr)
    PROVE  IInv'
  <1> DEFINE n == vfs_resolve(p, path)
             w == wr /\ (n[1] = "x" \/ NodeType(n) = "device")
             t == tr /\ n[1] = "x"
  <1>1. /\ p \in live /\ n \notin Ends /\ NodeType(n) # "free"
        /\ Install(p, n, disk, w, t) /\ UNCHANGED <<cwd, mounts, tables>>
    BY DEF Open, Runs, Ends
  <1>2. path \in PathSet /\ cwd[p] \in Node /\ (fat_is(cwd[p]) => fatmnt # Unmounted)
        /\ disk \in Disk /\ Sound(disk)
    BY <1>1, KFsAssumption, Parts DEF PathSet, Tables, NobodyStranded
  <1>3. n \in Legal
    BY <1>2, ResolveIsLegal
  <1> HIDE DEF n
  <1>4. n \in Node /\ (fat_is(n) => fatmnt # Unmounted)
    BY <1>1, <1>3 DEF Legal
  <1>5. n[1] = "x" => disk.type[n[2]] # "free"
    BY <1>1, NodeTypeX
  <1>6. /\ w \in BOOLEAN /\ (t => n[1] = "x")
        /\ (w /\ NodeType(n) # "device" => n[1] = "x")
    OBVIOUS
  <1>7. Grows(disk, disk)
    BY DEF Grows
  <1> HIDE DEF w, t
  <1> QED BY <1>1, <1>2, <1>4, <1>5, <1>6, <1>7, InstallStep

LEMMA CloseStep ==
    ASSUME IInv, NEW p \in Slots, NEW fd \in Fds, Close(p, fd)
    PROVE  IInv'
  <1> DEFINE v == fileclose(World, ofile[p][fd])
             of == [ofile EXCEPT ![p][fd] = 0]
  <1>1. /\ p \in live /\ ofile[p][fd] # 0 /\ ofile' = of
        /\ disk' = v.disk /\ ft' = v.ft /\ ref' = v.ref /\ UNCHANGED <<cwd, mounts, tables>>
    BY DEF Close, Runs, Become
  <1>2. /\ World \in Worlds /\ World.ft = ft /\ ofile \in OfileSet /\ cwd \in CwdSet
        /\ lostFd \in [Files -> Nat] /\ lostCwd \in [Node -> Nat] /\ Tables /\ NobodyStranded
    BY Parts
  <1>3. Exact(World, ofile, cwd, lostFd, lostCwd)
    BY DEF IInv
  <1>4. Exact(v, of, cwd, lostFd, lostCwd) /\ \A g \in Files : v.ft[g].node \in {ft[g].node, NoNode}
    BY <1>1, <1>2, <1>3, CloseIs
  <1> HIDE DEF v
  <1>5. /\ UNCHANGED <<live, lost, stop, fatmnt, devmnt>> /\ consdir' = consdir /\ cwd' = cwd
    BY <1>1 DEF mounts, tables
  <1>6. consdir' \in BOOLEAN /\ cwd'[p] \in Node
    BY <1>1, <1>2, <1>5 DEF IInv, TypeOK, Tables
  <1>7. of \in OfileSet
    BY <1>2, Params DEF OfileSet
  <1>8. Others(p)
    BY <1>1, <1>2, <1>5 DEF Others, OfileSet
  <1>9. Afloat
    BY <1>1, <1>2, <1>4, <1>5, Nodes DEF Afloat, NobodyStranded
  <1> HIDE DEF of
  <1>10. /\ Stable(disk', ref') /\ FilesOK(ft') /\ FileCounts(ft', ofile', lostFd)
         /\ NodeCounts(ref', ft', cwd', lostCwd) /\ ofile' \in OfileSet /\ cwd' \in CwdSet
    BY <1>1, <1>2, <1>4, <1>5, <1>7 DEF Exact
  <1> QED BY <1>1, <1>5, <1>6, <1>8, <1>9, <1>10, CallStep

LEMMA DupFdStep ==
    ASSUME IInv, NEW p \in Slots, NEW fd \in Fds, DupFd(p, fd)
    PROVE  IInv'
  <1> DEFINE f == ofile[p][fd]
             fd2 == Least(FreeFds(p))
             of == [ofile EXCEPT ![p][fd2] = f]
             t == [ft EXCEPT ![f].ref = @ + 1]
  <1>1. /\ p \in live /\ f # 0 /\ FreeFds(p) # {} /\ ofile' = of /\ ft' = t
        /\ UNCHANGED <<disk, ref, cwd, mounts, tables>>
    BY DEF DupFd, Runs
  <1>2. /\ Stable(disk, ref) /\ FilesOK(ft) /\ ofile \in OfileSet
        /\ cwd \in CwdSet /\ FileCounts(ft, ofile, lostFd) /\ NodeCounts(ref, ft, cwd, lostCwd)
        /\ Tables /\ NobodyStranded /\ ft \in [Files -> File] /\ lostFd \in [Files -> Nat]
    BY Parts
  <1>3. f \in Files /\ f \in 0..NFILE
    BY <1>1, <1>2, Params DEF OfileSet
  <1>4. fd2 \in Fds /\ ofile[p][fd2] = 0
    <2>1. FreeFds(p) \in SUBSET Nat
      BY Params DEF FreeFds
    <2>2. fd2 \in FreeFds(p)
      BY <1>1, <2>1, LeastIn
    <2> QED BY <2>2 DEF FreeFds
  <1> HIDE DEF fd2
  <1>5. Others(p)
    BY <1>1, <1>2 DEF Others, OfileSet
  <1>6. of \in OfileSet /\ UsersMoved(ofile, of, 0, f)
    <2>1. of = [ofile EXCEPT ![p][fd2] = f] /\ 0 # f /\ 0 = ofile[p][fd2]
      BY <1>1, <1>4
    <2> HIDE DEF of, f
    <2> QED BY <2>1, <1>2, <1>3, <1>4, UsersMove
  <1> HIDE DEF of, f
  <1>7. ft[f].ref # 0 /\ ft[f].ref \in Nat
    <2> DEFINE u == Cardinality(UsersIn(ofile, f))
    <2>1. \E q \in Slots \X Fds : ofile[q[1]][q[2]] = f
      <3>1. <<p, fd>> \in Slots \X Fds /\ ofile[<<p, fd>>[1]][<<p, fd>>[2]] = f
        BY DEF f
      <3> QED BY <3>1
    <2>2. UsersIn(ofile, f) # {}
      BY <2>1 DEF UsersIn
    <2>3. u # 0 /\ u \in Nat /\ lostFd[f] \in Nat /\ ft[f].ref = u + lostFd[f]
      BY <2>2, <1>2, <1>3, CountedSets, FS_EmptySet DEF FileCounts
    <2> HIDE DEF u
    <2> QED BY <2>3
  <1>8. /\ t \in [Files -> File] /\ t[f].ref = ft[f].ref + 1
        /\ t[f].node = ft[f].node /\ t[f].type = ft[f].type /\ t[f].writable = ft[f].writable
        /\ \A g \in Files \ {f} : t[g] = ft[g]
    BY <1>2, <1>3, <1>7 DEF File
  <1> HIDE DEF t
  <1>9. FilesOK(t)
    BY <1>2, <1>7, <1>8 DEF FilesOK
  <1>10. FileCounts(t, of, lostFd)
    <2> DEFINE u == Cardinality(UsersIn(ofile, f))
               v == Cardinality(UsersIn(of, f))
    <2>1. u \in Nat /\ lostFd[f] \in Nat /\ ft[f].ref = u + lostFd[f] /\ v = u + 1
      BY <1>2, <1>3, <1>6, CountedSets DEF FileCounts, UsersMoved
    <2> HIDE DEF u, v
    <2>2. t[f].ref = v + lostFd[f]
      BY <2>1, <1>8
    <2>3. \A g \in Files \ {f} : g # 0
      BY DEF Files
    <2>4. \A g \in Files \ {f} : UsersIn(of, g) = UsersIn(ofile, g)
      BY <2>3, <1>6 DEF UsersMoved
    <2>5. \A g \in Files \ {f} : t[g].ref = Cardinality(UsersIn(of, g)) + lostFd[g]
      BY <2>4, <1>8, <1>2 DEF FileCounts
    <2> QED BY <2>2, <2>5 DEF FileCounts, v
  <1>11. \A g \in Files : t[g].node = ft[g].node
    BY <1>8
  <1>12. NodeCounts(ref, t, cwd, lostCwd)
    <2>1. \A m : Having(t, m) = Having(ft, m)
      BY <1>11 DEF Having
    <2> QED BY <2>1, <1>2 DEF NodeCounts
  <1>13. /\ UNCHANGED <<live, lost, stop, fatmnt, devmnt>> /\ consdir' = consdir
         /\ cwd' = cwd /\ ref' = ref /\ disk' = disk
    BY <1>1 DEF mounts, tables
  <1>14. consdir' \in BOOLEAN /\ cwd'[p] \in Node
    BY <1>1, <1>2, <1>13 DEF IInv, TypeOK, Tables
  <1>15. Afloat
    BY <1>1, <1>2, <1>11, <1>13 DEF Afloat, NobodyStranded
  <1>16. /\ Stable(disk', ref') /\ FilesOK(ft') /\ FileCounts(ft', ofile', lostFd)
         /\ NodeCounts(ref', ft', cwd', lostCwd) /\ ofile' \in OfileSet /\ cwd' \in CwdSet
    BY <1>1, <1>2, <1>6, <1>9, <1>10, <1>12, <1>13
  <1> QED BY <1>1, <1>5, <1>13, <1>14, <1>15, <1>16, CallStep

LEMMA UnlinkStep ==
    ASSUME IInv, NEW p \in Slots, NEW path \in Paths, Unlink(p, path)
    PROVE  IInv'
  <1> DEFINE P == nameiparent(p, path)
             dp == P[2]
             name == Last(path.el)
             n == Entry(dp, name)
             i == disk.ent[dp][name]
             u == Unlinked(disk, dp, name, n[2])
             w == Dup([World EXCEPT !.disk = u], n)
             v == vfs_iput(w, n)
  <1>1. /\ p \in live /\ ~fat_writepath(p, path) /\ P[1] = "x" /\ name # ".." /\ n # NoNode
        /\ (IsDir(n) => isdirempty(disk, n[2]))
        /\ disk' = v.disk /\ ft' = v.ft /\ ref' = v.ref
        /\ UNCHANGED <<ofile, cwd, mounts, tables>>
    BY DEF Unlink, Runs, Become
  <1>2. path \in PathSet /\ Start(p, path) \in Xs
    BY <1>1, StartsOnDisk
  <1>3. /\ World \in Worlds /\ World.disk = disk /\ World.ft = ft /\ World.ref = ref
        /\ Stable(disk, ref) /\ Sound(disk) /\ disk \in Disk
        /\ ref \in [Node -> Nat] /\ FilesOK(ft) /\ ofile \in OfileSet
        /\ cwd \in CwdSet /\ FileCounts(ft, ofile, lostFd) /\ NodeCounts(ref, ft, cwd, lostCwd)
        /\ Tables /\ NobodyStranded
    BY Parts
  <1>4. P \notin Ends
    BY <1>1, Nodes DEF Ends
  <1>5. dp \in Inums /\ name \in Names
    BY <1>2, <1>3, <1>4, ParentIs
  <1>6. n = X(i) /\ i # 0
    BY <1>1 DEF Entry
  <1>7. i \in Inums /\ n[1] = "x" /\ n[2] = i /\ n \in Node
    <2>1. i \in Inums
      BY <1>3, <1>5, <1>6, DiskFields
    <2> QED BY <2>1, <1>6, Nodes
  <1>8. disk.type[i] = "dir" => isdirempty(disk, i)
    BY <1>1, <1>7, NodeTypeX DEF IsDir
  <1> HIDE DEF n, P
  <1>9. disk.type[i] # "free" /\ disk.nlink[i] > 0 /\ disk.nlink[dp] > 0 /\ TreeOK(disk)
    <2>1. TreeOK(disk)
      BY <1>3 DEF Sound
    <2> QED BY <2>1, <1>1, <1>3, <1>5, <1>6, NamedHasLinks
  <1>10. disk.type[i] = "dir" => disk.nlink[dp] >= 2
    BY <1>1, <1>3, <1>5, <1>7, <1>8, <1>9, EmptyDir
  <1> HIDE DEF dp, name
  <1>11. Sound(u) /\ Dropped(disk, u, dp, name)
    <2>1. u = Unlinked(disk, dp, name, i)
      BY <1>7
    <2> HIDE DEF u
    <2> QED BY <2>1, <1>1, <1>3, <1>5, <1>7, <1>8, UnlinkedIsSound
  <1> HIDE DEF u
  <1>12. /\ u \in Disk /\ u.type = disk.type
         /\ \A k \in Inums :
               u.nlink[k] = IF k = i THEN disk.nlink[k] - 1
                            ELSE IF disk.type[i] = "dir" /\ k = dp THEN disk.nlink[k] - 1
                            ELSE disk.nlink[k]
    BY <1>11 DEF Dropped
  <1> DEFINE r == [ref EXCEPT ![n] = @ + 1]
  <1>13. r \in [Node -> Nat] /\ r[n] = ref[n] + 1 /\ \A m \in Node \ {n} : r[m] = ref[m]
    BY <1>3, <1>7
  <1>14. w \in Worlds /\ w.disk = u /\ w.ft = ft /\ w.ref = r
    <2> DEFINE y == [World EXCEPT !.disk = u]
    <2>1. y = [disk |-> u, ft |-> ft, ref |-> ref]
      BY DEF World
    <2>2. w = [disk |-> u, ft |-> ft, ref |-> r]
      <3>1. w = [y EXCEPT !.ref[n] = @ + 1]
        BY DEF Dup
      <3> HIDE DEF y, w
      <3> QED BY <3>1, <2>1
    <2> HIDE DEF w, r, y
    <2> QED BY <2>2, <1>3, <1>12, <1>13 DEF Worlds, FilesOK
  <1> HIDE DEF r, w
  <1>15. [r EXCEPT ![n] = @ - 1] = ref
    <2> DEFINE q == [r EXCEPT ![n] = @ - 1]
    <2>1. q = [m \in Node |-> q[m]] /\ q[n] = r[n] - 1 /\ \A m \in Node \ {n} : q[m] = r[m]
      BY <1>7, <1>13
    <2> HIDE DEF q
    <2>2. ref = [m \in Node |-> ref[m]] /\ ref[n] \in Nat
      BY <1>3, <1>7
    <2>3. \A m \in Node : q[m] = ref[m]
      BY <2>1, <2>2, <1>13
    <2>4. q = ref
      BY <2>1, <2>2, <2>3
    <2> QED BY <2>4 DEF q
  <1>16. Stable(u, r)
    <2>1. \A k \in Inums : X(k) \in Node /\ ref[X(k)] \in Nat /\ (k # i => X(k) # n)
      BY <1>3, <1>6, Nodes DEF n
    <2>2. r[X(i)] # 0
      BY <2>1, <1>6, <1>7, <1>13
    <2>3. \A k \in Inums : k # i => r[X(k)] = ref[X(k)]
      BY <2>1, <1>13
    <2>4. Anchored(u, r)
      BY <2>3, <1>3, <1>9, <1>12 DEF Stable, Anchored
    <2>5. \A k \in Inums : k # i /\ u.nlink[k] = 0 => disk.nlink[k] = 0
      <3>1. \A k \in Inums : disk.nlink[k] \in Nat
        BY <1>3, DiskFields
      <3> QED BY <3>1, <1>5, <1>10, <1>12
    <2>6. Orphans(u, r)
      BY <2>2, <2>3, <2>5, <1>3, <1>12 DEF Stable, Orphans
    <2> QED BY <2>4, <2>6, <1>11, <1>13 DEF Stable
  <1>17. w.ref[n] # 0
    BY <1>3, <1>7, <1>13, <1>14
  <1>18. Stable(v.disk, v.ref) /\ v.ft = ft /\ v.ref = ref
    BY <1>7, <1>14, <1>15, <1>16, <1>17, IputIs
  <1> HIDE DEF v
  <1>19. /\ UNCHANGED <<live, lost, stop, fatmnt, devmnt>> /\ consdir' = consdir
         /\ cwd' = cwd /\ ref' = ref /\ ft' = ft /\ ofile' = ofile
    BY <1>1, <1>18 DEF mounts, tables
  <1>20. consdir' \in BOOLEAN /\ cwd'[p] \in Node
    BY <1>1, <1>3, <1>19 DEF IInv, TypeOK, Tables
  <1>21. Afloat /\ Others(p)
    BY <1>3, <1>19 DEF Afloat, NobodyStranded, Others
  <1>22. /\ Stable(disk', ref') /\ FilesOK(ft') /\ FileCounts(ft', ofile', lostFd)
         /\ NodeCounts(ref', ft', cwd', lostCwd) /\ ofile' \in OfileSet /\ cwd' \in CwdSet
    BY <1>1, <1>3, <1>18, <1>19
  <1> QED BY <1>1, <1>19, <1>20, <1>21, <1>22, CallStep

LEMMA ChdirStep ==
    ASSUME IInv, NEW p \in Slots, NEW path \in Paths, Chdir(p, path)
    PROVE  IInv'
  <1> DEFINE n == vfs_resolve(p, path)
             a == cwd[p]
             w == Dup(World, n)
             v == vfs_iput(w, a)
             cw == [cwd EXCEPT ![p] = n]
             r == [ref EXCEPT ![n] = @ + 1]
             r2 == [r EXCEPT ![a] = @ - 1]
  <1>1. /\ p \in live /\ n \in Node /\ (IsDir(n) \/ n = Console)
        /\ consdir' = (consdir \/ n = Console)
        /\ disk' = v.disk /\ ft' = v.ft /\ ref' = v.ref /\ cwd' = cw
        /\ UNCHANGED <<ofile, fatmnt, devmnt, tables>>
    BY DEF Chdir, Runs, Become
  <1>2. /\ World \in Worlds /\ World.disk = disk /\ World.ft = ft /\ World.ref = ref
        /\ Stable(disk, ref) /\ disk \in Disk /\ ft \in [Files -> File]
        /\ ref \in [Node -> Nat] /\ FilesOK(ft) /\ ofile \in OfileSet
        /\ cwd \in CwdSet /\ FileCounts(ft, ofile, lostFd) /\ NodeCounts(ref, ft, cwd, lostCwd)
        /\ Tables /\ NobodyStranded /\ lostCwd \in [Node -> Nat]
    BY Parts
  <1>3. path \in PathSet /\ a \in Node /\ (fat_is(a) => fatmnt # Unmounted)
    BY <1>1, <1>2, KFsAssumption DEF PathSet, Tables, NobodyStranded
  <1>4. fat_is(n) => fatmnt # Unmounted
    BY <1>2, <1>3, ResolveIsLegal DEF Legal
  <1>5. n[1] = "x" => disk.type[n[2]] # "free"
    BY <1>1, NodeTypeX, Nodes DEF IsDir
  <1>6. ref[a] # 0
    BY <1>3, DirHolds
  <1> HIDE DEF n, a
  <1>7. cw \in CwdSet /\ cw[p] = n /\ \A q \in Slots \ {p} : cw[q] = cwd[q]
    BY <1>1, <1>2 DEF CwdSet
  <1>8. r \in [Node -> Nat] /\ \A m \in Node : r[m] = IF m = n THEN ref[m] + 1 ELSE ref[m]
    BY <1>1, <1>2
  <1>9. Stable(disk, r)
    BY <1>1, <1>2, <1>5, DupIsStable
  <1>10. w \in Worlds /\ w.disk = disk /\ w.ft = ft /\ w.ref = r
    <2>1. w = [disk |-> disk, ft |-> ft, ref |-> r]
      BY DEF Dup, World
    <2> HIDE DEF w, r
    <2> QED BY <2>1, <1>2, <1>8 DEF Worlds
  <1> HIDE DEF w, r
  <1>11. r[a] # 0 /\ r[a] \in Nat
    BY <1>2, <1>3, <1>6, <1>8
  <1>12. Stable(v.disk, v.ref) /\ v.ft = ft /\ v.ref = r2
    BY <1>3, <1>9, <1>10, <1>11, IputIs
  <1> HIDE DEF v
  <1>13. \A m \in Node : r2[m] = IF m = a THEN r[m] - 1 ELSE r[m]
    BY <1>3, <1>8
  <1> HIDE DEF r2
  <1>14. NodeCounts(r2, ft, cw, lostCwd)
    <2>1. CASE n = a
      <3>1. cw = cwd
        BY <2>1, <1>2 DEF a, CwdSet
      <3>2. \A m \in Node : r2[m] = ref[m]
        BY <2>1, <1>2, <1>8, <1>13
      <3> QED BY <3>1, <3>2, <1>2 DEF NodeCounts
    <2>2. CASE n # a
      <3>1. BeingMoved(cwd, cw, a, n)
        <4>1. cwd[p] = a /\ a # n /\ cw = [cwd EXCEPT ![p] = n]
          BY <2>2 DEF a
        <4> HIDE DEF cw
        <4> QED BY <4>1, <1>2, BeingMove
      <3> HIDE DEF cw
      <3> DEFINE h(m) == Cardinality(Having(ft, m))
                 b(m) == Cardinality(Being(cwd, m))
                 c(m) == Cardinality(Being(cw, m))
      <3>2. \A m \in Node : h(m) \in Nat /\ b(m) \in Nat /\ lostCwd[m] \in Nat
                            /\ ref[m] = h(m) + b(m) + lostCwd[m]
        BY <1>2, CountedSets DEF NodeCounts
      <3>3. c(n) = b(n) + 1 /\ c(a) = b(a) - 1 /\ \A m \in Node : m # a /\ m # n => c(m) = b(m)
        BY <3>1 DEF BeingMoved
      <3> HIDE DEF h, b, c
      <3>4. ASSUME NEW m \in Node PROVE r2[m] = h(m) + c(m) + lostCwd[m]
        <4>1. /\ h(m) \in Nat /\ b(m) \in Nat /\ lostCwd[m] \in Nat
              /\ ref[m] = h(m) + b(m) + lostCwd[m]
          BY <3>2
        <4>2. CASE m = n
          <5>1. r2[m] = ref[m] + 1 /\ c(m) = b(m) + 1
            BY <4>2, <2>2, <3>3, <1>8, <1>13
          <5> QED BY <4>1, <5>1
        <4>3. CASE m = a
          <5>1. r2[m] = ref[m] - 1 /\ c(m) = b(m) - 1
            BY <4>3, <2>2, <3>3, <1>8, <1>13
          <5> QED BY <4>1, <5>1
        <4>4. CASE m # n /\ m # a
          <5>1. r2[m] = ref[m] /\ c(m) = b(m)
            BY <4>4, <3>3, <1>8, <1>13
          <5> QED BY <4>1, <5>1
        <4> QED BY <4>2, <4>3, <4>4
      <3> QED BY <3>4 DEF NodeCounts, h, c
    <2> QED BY <2>1, <2>2
  <1> HIDE DEF cw
  <1>15. /\ UNCHANGED <<live, lost, stop, fatmnt, devmnt>> /\ ofile' = ofile
    BY <1>1 DEF tables
  <1>16. consdir' \in BOOLEAN /\ cwd'[p] \in Node
    BY <1>1, <1>7 DEF IInv, TypeOK
  <1>17. Others(p)
    BY <1>1, <1>7, <1>15 DEF Others
  <1>18. Afloat
    BY <1>1, <1>2, <1>4, <1>7, <1>12 DEF Afloat, NobodyStranded
  <1>19. /\ Stable(disk', ref') /\ FilesOK(ft') /\ FileCounts(ft', ofile', lostFd)
         /\ NodeCounts(ref', ft', cwd', lostCwd) /\ ofile' \in OfileSet /\ cwd' \in CwdSet
    BY <1>1, <1>2, <1>7, <1>12, <1>14, <1>15
  <1> QED BY <1>1, <1>15, <1>16, <1>17, <1>18, <1>19, CallStep

(* Tables depends on nothing else. *)
LEMMA SameTables ==
    ASSUME Tables, UNCHANGED <<live, cwd, ofile, lostFd, lostCwd>>
    PROVE  Tables'
  BY DEF Tables, Fresh, BootTable, BootFile, SlotNo

LEMMA SameExact ==
    ASSUME Exact(World, ofile, cwd, lostFd, lostCwd),
           UNCHANGED <<disk, ft, ref, ofile, cwd, lostFd, lostCwd>>
    PROVE  Exact(World, ofile, cwd, lostFd, lostCwd)'
  <1>1. World' = World
    BY DEF World
  <1> QED BY <1>1

LEMMA MountStep ==
    ASSUME IInv, NEW p \in Slots, NEW path \in Paths, Mount(p, path)
    PROVE  IInv'
  <1> DEFINE n == namei(p, [path EXCEPT !.abs = TRUE])
             r == [m \in Node |-> IF fat_is(m) THEN 0 ELSE ref[m]]
  <1>1. /\ p \in live /\ fatmnt = Unmounted /\ path.el # <<>> /\ n[1] = "x"
        /\ fatmnt' = [el |-> path.el, inum |-> n[2]] /\ ref' = r
        /\ UNCHANGED <<disk, ft, ofile, cwd, devmnt, consdir, tables>>
    BY DEF Mount, Runs
  <1>2. /\ disk \in Disk /\ ref \in [Node -> Nat] /\ NodeCounts(ref, ft, cwd, lostCwd)
        /\ Tables /\ NobodyStranded /\ lostCwd \in [Node -> Nat]
    BY Parts
  <1>3. ASSUME NEW m \in Node, fat_is(m) PROVE ref[m] = 0
    <2>1. Having(ft, m) = {} /\ Being(cwd, m) = {}
      BY <1>1, <1>2, <1>3 DEF NobodyStranded, Having, Being
    <2>2. Cardinality(Having(ft, m)) = 0 /\ Cardinality(Being(cwd, m)) = 0
      BY <2>1, FS_EmptySet
    <2>3. lostCwd[m] = 0
      BY <1>2, <1>3, Nodes DEF Tables
    <2> QED BY <2>2, <2>3, <1>2 DEF NodeCounts
  <1>4. ref' = ref
    <2>1. \A m \in Node : r[m] = ref[m]
      BY <1>3
    <2> QED BY <2>1, <1>1, <1>2
  <1>5. n[2] \in Inums /\ fatmnt'.inum = n[2] /\ fatmnt' # Unmounted
    <2>1. path \in PathSet
      BY KFsAssumption DEF PathSet
    <2> DEFINE q == [path EXCEPT !.abs = TRUE]
    <2>2. q.el \in Seq(Names) /\ q.abs = TRUE
      BY <2>1 DEF PathSet
    <2> HIDE DEF q
    <2>3. Start(p, q) \in Xs
      BY <2>2, Params DEF Start, Xs
    <2>4. namei(p, q) \in Xs \cup Ends
      BY <2>2, <2>3, <1>2, NameiStays
    <2>5. n[2] \in Inums
      BY <2>4, <1>1, Nodes DEF q, Xs, Ends
    <2> HIDE DEF n
    <2>6. fatmnt'.el = path.el /\ Unmounted.el = <<>>
      BY <1>1 DEF Unmounted
    <2>7. fatmnt' # Unmounted
      BY <2>6, <1>1
    <2> QED BY <1>1, <2>5, <2>7
  <1>6. UNCHANGED <<disk, ft, ref, ofile, cwd, live, lostFd, lostCwd, devmnt, consdir, stop>>
    BY <1>1, <1>4 DEF tables, lost
  <1>7. TypeOK'
    <2>1. fatmnt'.inum \in 0..NINODES
      BY <1>5, Params
    <2> QED BY <1>6, <2>1 DEF IInv, TypeOK
  <1>8. Exact(World, ofile, cwd, lostFd, lostCwd)' /\ Tables'
    BY <1>2, <1>6, SameExact, SameTables DEF IInv
  <1>9. NobodyStranded'
    BY <1>5 DEF NobodyStranded
  <1> QED BY <1>7, <1>8, <1>9 DEF IInv

LEMMA UmountStep ==
    ASSUME IInv, NEW p \in Slots, NEW path \in Paths, Umount(p, path)
    PROVE  IInv'
  <1>1. /\ p \in live /\ ~fat_busy /\ fatmnt' = Unmounted
        /\ UNCHANGED <<disk, ft, ref, ofile, cwd, devmnt, consdir, tables>>
    BY DEF Umount, Runs
  <1>2. /\ ref \in [Node -> Nat] /\ Tables /\ cwd \in CwdSet /\ FilesOK(ft)
    BY Parts
  <1>3. \A n \in Node : fat_is(n) => ref[n] = 0
    BY <1>1, <1>2 DEF fat_busy
  <1>4. \A f \in Files : ~fat_is(ft[f].node)
    <2> SUFFICES ASSUME NEW f \in Files, fat_is(ft[f].node) PROVE FALSE
      OBVIOUS
    <2>1. ft[f].node \in Node
      <3>1. ft[f].node \in Node \cup {NoNode}
        BY <1>2 DEF FilesOK, File
      <3> QED BY <3>1, Nodes
    <2> QED BY <2>1, <1>3, FileHolds
  <1>5. \A q \in Slots : ~fat_is(cwd[q])
    <2> SUFFICES ASSUME NEW q \in Slots, fat_is(cwd[q]) PROVE FALSE
      OBVIOUS
    <2>1. cwd[q] \in Node
      BY <1>2, Nodes DEF CwdSet
    <2> QED BY <2>1, <1>3, DirHolds
  <1>6. UNCHANGED <<disk, ft, ref, ofile, cwd, live, lostFd, lostCwd, devmnt, consdir, stop>>
    BY <1>1 DEF tables, lost
  <1>7. TypeOK'
    <2>1. fatmnt'.inum \in 0..NINODES
      BY <1>1, Params DEF Unmounted
    <2> QED BY <1>6, <2>1 DEF IInv, TypeOK
  <1>8. Exact(World, ofile, cwd, lostFd, lostCwd)' /\ Tables'
    BY <1>2, <1>6, SameExact, SameTables DEF IInv
  <1>9. NobodyStranded'
    BY <1>4, <1>5, <1>6 DEF NobodyStranded
  <1> QED BY <1>7, <1>8, <1>9 DEF IInv

LEMMA PanicsStep ==
    ASSUME IInv, NEW p \in Slots, NEW path \in Paths, Panics(p, path)
    PROVE  IInv'
  <1>1. /\ stop' \in {"create dots", "ilock: no type"}
        /\ UNCHANGED <<disk, ft, ofile, cwd, ref, live, mounts, lost>>
    BY DEF Panics
  <1>2. UNCHANGED <<disk, ft, ref, ofile, cwd, live, lostFd, lostCwd, fatmnt, devmnt, consdir>>
    BY <1>1 DEF mounts, lost
  <1>3. TypeOK'
    BY <1>1, <1>2 DEF IInv, TypeOK
  <1>4. Exact(World, ofile, cwd, lostFd, lostCwd)' /\ Tables'
    BY <1>2, SameExact, SameTables DEF IInv
  <1>5. NobodyStranded'
    BY <1>2 DEF IInv, NobodyStranded
  <1> QED BY <1>3, <1>4, <1>5 DEF IInv

LEMMA ExitStep ==
    ASSUME IInv, NEW p \in Slots, Exit(p)
    PROVE  IInv'
  <1> DEFINE of == [ofile EXCEPT ![p] = [fd \in Fds |-> 0]]
             cw == [cwd EXCEPT ![p] = NoNode]
             w == CloseAll(p)
             a == cwd[p]
             v == vfs_iput(w, a)
             r == [w.ref EXCEPT ![a] = @ - 1]
  <1>1. /\ p \in live /\ live' = live \ {p} /\ ofile' = of /\ cwd' = cw
        /\ disk' = v.disk /\ ft' = v.ft /\ ref' = v.ref /\ UNCHANGED <<mounts, lost, stop>>
    BY DEF Exit, Runs, Become, kfs_exit
  <1>2. /\ World \in Worlds /\ ofile \in OfileSet /\ cwd \in CwdSet /\ live \subseteq Slots
        /\ lostFd \in [Files -> Nat] /\ lostCwd \in [Node -> Nat] /\ Tables /\ NobodyStranded
    BY Parts
  <1>3. Exact(World, ofile, cwd, lostFd, lostCwd)
    BY DEF IInv
  <1>4. /\ w \in Worlds /\ Exact(w, of, cwd, lostFd, lostCwd)
        /\ \A g \in Files : w.ft[g].node \in {ft[g].node, NoNode}
    BY <1>2, <1>3, CloseAllIs
  <1> HIDE DEF w
  <1>5. /\ Stable(w.disk, w.ref) /\ FilesOK(w.ft) /\ FileCounts(w.ft, of, lostFd)
        /\ NodeCounts(w.ref, w.ft, cwd, lostCwd)
    BY <1>4 DEF Exact
  <1>6. a \in Node /\ a # NoNode
    BY <1>1, <1>2, Nodes DEF Tables
  <1>7. of \in OfileSet /\ of[p] = [fd \in Fds |-> 0] /\ \A q \in Slots \ {p} : of[q] = ofile[q]
    BY <1>2, Params DEF OfileSet
  <1>8. cw \in CwdSet /\ cw[p] = NoNode /\ \A q \in Slots \ {p} : cw[q] = cwd[q]
    BY <1>2 DEF CwdSet
  <1>9. BeingMoved(cwd, cw, a, NoNode)
    <2>1. cwd[p] = a /\ cw = [cwd EXCEPT ![p] = NoNode]
      OBVIOUS
    <2> HIDE DEF a, cw
    <2> QED BY <2>1, <1>2, <1>6, BeingMove
  <1> HIDE DEF a, cw, of
  <1>10. w.ref \in [Node -> Nat]
    BY <1>5 DEF Stable
  <1> DEFINE h(m) == Cardinality(Having(w.ft, m))
             b(m) == Cardinality(Being(cwd, m))
             c(m) == Cardinality(Being(cw, m))
  <1>11. \A m \in Node : /\ h(m) \in Nat /\ b(m) \in Nat /\ lostCwd[m] \in Nat
                         /\ w.ref[m] = h(m) + b(m) + lostCwd[m]
    BY <1>2, <1>5, CountedSets DEF NodeCounts
  <1>12. c(a) = b(a) - 1 /\ b(a) # 0 /\ \A m \in Node : m # a => c(m) = b(m)
    BY <1>9, Nodes DEF BeingMoved
  <1> HIDE DEF h, b, c
  <1>13. w.ref[a] # 0
    BY <1>6, <1>11, <1>12
  <1>14. Stable(v.disk, v.ref) /\ v.ft = w.ft /\ v.ref = r
    BY <1>4, <1>5, <1>6, <1>13, IputIs
  <1> HIDE DEF v
  <1>15. r[a] = w.ref[a] - 1 /\ \A m \in Node \ {a} : r[m] = w.ref[m]
    BY <1>6, <1>10
  <1> HIDE DEF r
  <1>16. NodeCounts(r, w.ft, cw, lostCwd)
    <2>1. r[a] = h(a) + c(a) + lostCwd[a]
      BY <1>6, <1>11, <1>12, <1>15
    <2>2. \A m \in Node \ {a} : r[m] = h(m) + c(m) + lostCwd[m]
      BY <1>11, <1>12, <1>15
    <2> QED BY <2>1, <2>2 DEF NodeCounts, h, c
  <1>17. /\ lostFd' = lostFd /\ lostCwd' = lostCwd /\ fatmnt' = fatmnt /\ devmnt' = devmnt
         /\ consdir' = consdir /\ stop' = stop
    BY <1>1 DEF mounts, lost
  <1>18. Exact(World, ofile, cwd, lostFd, lostCwd)'
    <2>1. World'.disk = disk' /\ World'.ft = ft' /\ World'.ref = ref'
      BY DEF World
    <2> QED BY <2>1, <1>1, <1>5, <1>14, <1>16, <1>17 DEF Exact
  <1>19. TypeOK'
    <2>1. disk' \in Disk /\ ref' \in [Node -> Nat] /\ ft' \in [Files -> File]
      BY <1>1, <1>5, <1>14 DEF Stable, Sound, FilesOK
    <2> QED BY <1>1, <1>2, <1>7, <1>8, <1>17, <2>1 DEF IInv, TypeOK, OfileSet, CwdSet
  <1>20. Tables'
    <2>1. Fresh' = Fresh
      BY <1>1, <1>2, <1>8 DEF Fresh
    <2>2. \A q \in Slots \ live' : cwd'[q] = NoNode => ofile'[q] = [fd \in Fds |-> 0]
      BY <1>1, <1>2, <1>7, <1>8 DEF Tables
    <2>3. \A q \in live' : cwd'[q] \in Node
      BY <1>1, <1>2, <1>8 DEF Tables
    <2>4. \A q \in Fresh : cwd'[q] = cwd[q] /\ ofile'[q] = ofile[q]
      BY <1>1, <1>7, <1>8 DEF Fresh
    <2> QED BY <2>1, <2>2, <2>3, <2>4, <1>2, <1>17 DEF Tables, BootTable, BootFile, SlotNo
  <1>21. NobodyStranded'
    <2>1. \A g \in Files : ft'[g].node \in {ft[g].node, NoNode}
      BY <1>1, <1>4, <1>14
    <2> QED BY <2>1, <1>1, <1>2, <1>8, <1>17, Nodes DEF NobodyStranded
  <1> QED BY <1>18, <1>19, <1>20, <1>21 DEF IInv

-----------------------------------------------------------------------------
(* The tables of boot: every slot has files of its own. *)
Below(p) == {q \in Slots : q < p}

LEMMA SlotNos ==
    /\ Cardinality(Slots) \in Nat
    /\ \A p \in Slots : SlotNo(p) \in Nat /\ SlotNo(p) < Cardinality(Slots)
    /\ \A p, q \in Slots : p < q => SlotNo(p) < SlotNo(q)
  <1>1. \A p : SlotNo(p) = Cardinality(Below(p))
    BY DEF SlotNo, Below
  <1>2. \A p : Below(p) \in SUBSET Slots /\ IsFiniteSet(Below(p)) /\ Cardinality(Below(p)) \in Nat
    <2>1. \A p : Below(p) \in SUBSET Slots
      BY DEF Below
    <2> QED BY <2>1, Params, FS_Subset, FS_CardinalityType
  <1>3. ASSUME NEW p \in Slots, NEW S, IsFiniteSet(S), Cardinality(S) \in Nat,
               Below(p) \subseteq S, p \in S
        PROVE  Cardinality(Below(p)) < Cardinality(S)
    <2>1. p \notin Below(p)
      BY Params DEF Below
    <2>2. Cardinality(Below(p)) <= Cardinality(S) /\ (Cardinality(S) = Cardinality(Below(p)) => S = Below(p))
      BY <1>3, FS_Subset
    <2>3. Cardinality(S) # Cardinality(Below(p))
      BY <2>1, <2>2, <1>3
    <2>4. Cardinality(Below(p)) \in Nat
      BY <1>2
    <2> DEFINE x == Cardinality(Below(p))
               y == Cardinality(S)
    <2>5. x \in Nat /\ y \in Nat /\ x <= y /\ y # x
      BY <2>2, <2>3, <2>4, <1>3
    <2> HIDE DEF x, y
    <2>6. x < y
      BY <2>5
    <2> QED BY <2>6 DEF x, y
  <1>4. Cardinality(Slots) \in Nat
    BY Params, FS_CardinalityType
  <1>5. \A p \in Slots : SlotNo(p) \in Nat /\ SlotNo(p) < Cardinality(Slots)
    BY <1>1, <1>2, <1>3, <1>4, Params
  <1>6. ASSUME NEW p \in Slots, NEW q \in Slots, p < q PROVE SlotNo(p) < SlotNo(q)
    <2>0. p \in Nat /\ q \in Nat /\ \A x \in Slots : x \in Nat
      BY Params
    <2>1. Below(p) \subseteq Below(q) /\ p \in Below(q)
      <3>1. p \in Below(q)
        BY <1>6 DEF Below
      <3>2. \A x \in Slots : x < p => x < q
        BY <1>6, <2>0
      <3> QED BY <3>1, <3>2 DEF Below
    <2> QED BY <2>1, <1>1, <1>2, <1>3
  <1> QED BY <1>4, <1>5, <1>6

LEMMA Scaled ==
    ASSUME NEW b \in Nat, NEW s \in Nat, NEW t \in Nat, s < t
    PROVE  s * b \in Nat /\ t * b \in Nat /\ s * b + b <= t * b
  <1> DEFINE k == t - (s + 1)
  <1>1. k \in Nat /\ t = s + 1 + k
    OBVIOUS
  <1> HIDE DEF k
  <1>2. t * b = s * b + b + k * b
    BY <1>1
  <1>3. k * b \in Nat /\ s * b \in Nat
    BY <1>1
  <1> QED BY <1>2, <1>3

LEMMA BootFileIs ==
    /\ BOOTFDS \in Nat /\ BootFiles \subseteq Files
    /\ \A p \in Slots, fd \in 1..BOOTFDS : BootFile(p, fd) \in BootFiles
    /\ \A p, q \in Slots, fd, gd \in 1..BOOTFDS :
          BootFile(p, fd) = BootFile(q, gd) => p = q /\ fd = gd
  <1> DEFINE N == Cardinality(Slots)
  <1>1. BOOTFDS \in Nat /\ N \in Nat /\ BOOTFDS * N <= NFILE /\ NFILE \in Nat /\ BOOTFDS * N \in Nat
    BY KFsAssumption, SlotNos
  <1>2. BootFiles = 1..(BOOTFDS * N)
    BY DEF BootFiles
  <1>3. \A p \in Slots : SlotNo(p) \in Nat /\ SlotNo(p) < N
    BY SlotNos
  <1>4. BootFiles \subseteq Files
    <2> DEFINE m == BOOTFDS * N
    <2>1. m \in Nat /\ m <= NFILE /\ NFILE \in Nat /\ BootFiles = 1..m
      BY <1>1, <1>2
    <2> HIDE DEF m
    <2> QED BY <2>1 DEF Files
  <1> HIDE DEF N
  <1>5. ASSUME NEW p \in Slots, NEW fd \in 1..BOOTFDS PROVE BootFile(p, fd) \in BootFiles
    <2> DEFINE x == SlotNo(p) * BOOTFDS
               y == N * BOOTFDS
    <2>1. x \in Nat /\ y \in Nat /\ x + BOOTFDS <= y
      BY <1>1, <1>3, Scaled
    <2>2. y = BOOTFDS * N
      BY <1>1
    <2>3. BootFile(p, fd) = x + fd
      BY DEF BootFile
    <2> HIDE DEF x, y
    <2>4. x + fd \in 1..y
      BY <2>1, <1>1
    <2> QED BY <2>2, <2>3, <2>4, <1>2
  <1>6. ASSUME NEW p \in Slots, NEW q \in Slots, NEW fd \in 1..BOOTFDS, NEW gd \in 1..BOOTFDS,
               p < q
        PROVE  BootFile(p, fd) < BootFile(q, gd)
    <2> DEFINE x == SlotNo(p) * BOOTFDS
               y == SlotNo(q) * BOOTFDS
    <2>1. x \in Nat /\ y \in Nat /\ x + BOOTFDS <= y
      BY <1>1, <1>3, <1>6, SlotNos, Scaled
    <2>2. BootFile(p, fd) = x + fd /\ BootFile(q, gd) = y + gd
      BY DEF BootFile
    <2> HIDE DEF x, y
    <2> QED BY <2>1, <2>2, <1>1
  <1>7. ASSUME NEW p \in Slots, NEW q \in Slots, NEW fd \in 1..BOOTFDS, NEW gd \in 1..BOOTFDS,
               BootFile(p, fd) = BootFile(q, gd)
        PROVE  p = q /\ fd = gd
    <2>1. \A s \in Slots, e \in 1..BOOTFDS : BootFile(s, e) \in Nat
      <3>1. BootFiles \subseteq Nat
        BY <1>4, Params
      <3> QED BY <1>5, <3>1
    <2>2. ~(p < q) /\ ~(q < p)
      BY <1>6, <1>7, <2>1
    <2>3. p = q
      BY <2>2, Params
    <2> DEFINE x == SlotNo(p) * BOOTFDS
    <2>4. x \in Nat
      BY <1>1, <1>3
    <2>5. x + fd = x + gd
      BY <1>7, <2>3 DEF BootFile
    <2> HIDE DEF x
    <2>6. fd = gd
      BY <2>4, <2>5, <1>1
    <2> QED BY <2>3, <2>6
  <1> QED BY <1>1, <1>4, <1>5, <1>7

(* Every file of boot has one user. *)
LEMMA BootUsers ==
    ASSUME NEW of, of = [p \in Slots |-> BootTable(p)]
    PROVE  /\ of \in OfileSet
           /\ \A f \in BootFiles : Cardinality(UsersIn(of, f)) = 1
           /\ \A f \in Files \ BootFiles : Cardinality(UsersIn(of, f)) = 0
  <1> DEFINE D == Slots \X (1..BOOTFDS)
             b == [q \in D |-> BootFile(q[1], q[2])]
  <1>1. /\ BOOTFDS \in Nat /\ BootFiles \subseteq Files /\ 1..BOOTFDS \subseteq Fds
        /\ \A fd \in Fds : fd \in Nat /\ (fd <= BOOTFDS => fd \in 1..BOOTFDS)
    <2>1. BOOTFDS \in 1..NOFILE /\ NOFILE \in Nat
      BY KFsAssumption
    <2> QED BY <2>1, BootFileIs DEF Fds
  <1>2. \A q \in D : BootFile(q[1], q[2]) \in BootFiles
    BY BootFileIs
  <1>3. \A q, s \in D : BootFile(q[1], q[2]) = BootFile(s[1], s[2]) => q = s
    BY BootFileIs
  <1>4. b \in Injection(D, BootFiles)
    <2> HIDE DEF D
    <2>1. b \in [D -> BootFiles]
      BY <1>2
    <2>2. IsInjective(b)
      BY <1>3 DEF IsInjective
    <2> QED BY <2>1, <2>2 DEF Injection
  <1>5. IsFiniteSet(D) /\ Cardinality(D) = Cardinality(Slots) * BOOTFDS
    <2>1. IsFiniteSet(1..BOOTFDS) /\ Cardinality(1..BOOTFDS) = BOOTFDS
      BY <1>1, FS_Interval
    <2> QED BY <2>1, Params, FS_Product
  <1>6. IsFiniteSet(BootFiles) /\ Cardinality(BootFiles) = BOOTFDS * Cardinality(Slots)
    <2> DEFINE m == BOOTFDS * Cardinality(Slots)
    <2>1. m \in Nat /\ BootFiles = 1..m
      BY <1>1, SlotNos DEF BootFiles
    <2> HIDE DEF m
    <2>2. IsFiniteSet(1..m) /\ Cardinality(1..m) = m
      BY <2>1, FS_Interval
    <2> QED BY <2>1, <2>2 DEF m
  <1>7. Cardinality(D) = Cardinality(BootFiles)
    BY <1>1, <1>5, <1>6, SlotNos
  <1>8. \A f \in BootFiles : \E q \in D : BootFile(q[1], q[2]) = f
    <2>1. b \in Surjection(D, BootFiles)
      <3> HIDE DEF D, b
      <3> QED BY <1>4, <1>6, <1>7, FS_Injection
    <2>2. \A f \in BootFiles : \E q \in D : b[q] = f
      BY <2>1 DEF Surjection
    <2> QED BY <2>2
  <1>9. \A q \in Slots \X Fds :
           of[q[1]][q[2]] = IF q[2] <= BOOTFDS THEN BootFile(q[1], q[2]) ELSE 0
    BY DEF BootTable
  <1>10. \A q \in Slots \X Fds : q[2] <= BOOTFDS => q \in D
    BY <1>1
  <1>11. \A q \in D : q \in Slots \X Fds /\ q[2] <= BOOTFDS
    BY <1>1
  <1>12. \A f \in Files : f # 0
    BY DEF Files
  <1>13. of \in OfileSet
    <2>1. \A p \in Slots, fd \in Fds :
            (IF fd <= BOOTFDS THEN BootFile(p, fd) ELSE 0) \in 0..NFILE
      BY <1>1, BootFileIs, Params
    <2> QED BY <2>1 DEF OfileSet, BootTable
  <1> HIDE DEF D, b
  <1>14. ASSUME NEW f \in BootFiles PROVE Cardinality(UsersIn(of, f)) = 1
    <2>1. PICK q \in D : BootFile(q[1], q[2]) = f
      BY <1>8
    <2>2. f # 0
      BY <1>1, <1>12
    <2>3. UsersIn(of, f) = {q}
      <3>1. q \in UsersIn(of, f)
        BY <2>1, <1>9, <1>11 DEF UsersIn
      <3>2. \A s \in UsersIn(of, f) : s = q
        BY <2>1, <2>2, <1>3, <1>9, <1>10 DEF UsersIn
      <3> QED BY <3>1, <3>2
    <2> QED BY <2>3, FS_Singleton
  <1>15. ASSUME NEW f \in Files \ BootFiles PROVE Cardinality(UsersIn(of, f)) = 0
    <2>1. UsersIn(of, f) = {}
      <3> SUFFICES ASSUME NEW s \in UsersIn(of, f) PROVE FALSE
        OBVIOUS
      <3>1. s \in Slots \X Fds /\ of[s[1]][s[2]] = f
        BY DEF UsersIn
      <3>2. f # 0
        BY <1>12
      <3> QED BY <3>1, <3>2, <1>2, <1>9, <1>10
    <2> QED BY <2>1, FS_EmptySet
  <1> QED BY <1>13, <1>14, <1>15

-----------------------------------------------------------------------------
(* The first disk and every boot. *)
LEMMA GoldenIsSound == Sound(golden)
  <1> DEFINE d == golden
  <1>0. /\ ROOTINO \in Inums /\ ROOTINO # 0 /\ 0 \in 0..NINODES /\ ROOTINO \in 0..NINODES
        /\ 1 \in Blocks /\ 0 \in 0..NBLOCKS /\ ".." \in Names /\ 0 \notin Blocks
    BY Params DEF ROOTINO
  <1>1. d \in Disk
    BY <1>0 DEF golden, Disk
  <1>2. /\ \A i \in Inums : d.type[i] = IF i = ROOTINO THEN "dir" ELSE "free"
        /\ \A i \in Inums : d.nlink[i] = IF i = ROOTINO THEN 1 ELSE 0
        /\ \A i \in Inums, e \in Names : d.ent[i][e] = IF i = ROOTINO /\ e = ".." THEN ROOTINO ELSE 0
        /\ \A i \in Inums : d.data[i] = IF i = ROOTINO THEN {1} ELSE {}
        /\ \A i \in Inums : d.ind[i] = 0
        /\ d.bitmap = {1}
    BY DEF golden
  <1> HIDE DEF d
  <1>3. Plain(d)
    BY <1>2 DEF Plain
  <1>4. Dots(d)
    BY <1>0, <1>2 DEF Dots, isdirempty
  <1>5. Tree(d)
    BY <1>0, <1>2 DEF Tree, Child
  <1>6. Counted(d)
    <2> SUFFICES ASSUME NEW i \in Inums PROVE d.nlink[i] = LinksTo(d, i)
      BY DEF Counted
    <2>1. Ents(d, i) = {}
      <3>0. i # 0
        BY Params
      <3>1. \A j \in Inums, e \in Names \ {".."} : d.ent[j][e] = 0
        BY <1>2
      <3> QED BY <3>0, <3>1 DEF Ents
    <2>2. Subs(d, i) = {}
      BY <1>2 DEF Subs
    <2>3. Cardinality(Ents(d, i)) = 0 /\ Cardinality(Subs(d, i)) = 0
      BY <2>1, <2>2, FS_EmptySet
    <2> QED BY <2>3, <1>2, LinkSets
  <1>7. BlocksExact(d)
    <2>1. \A i \in Inums : Held(d, i) = IF i = ROOTINO THEN {1} ELSE {}
      BY <1>2 DEF Held
    <2>2. UNION {Held(d, i) : i \in Inums} = {1}
      BY <2>1, <1>0
    <2>3. \A i \in Inums : d.ind[i] \notin d.data[i] /\ (d.type[i] = "free" => Held(d, i) = {})
      BY <2>1, <1>2
    <2>4. \A i, j \in Inums : i # j => Held(d, i) \cap Held(d, j) = {}
      BY <2>1
    <2> QED BY <2>2, <2>3, <2>4, <1>2 DEF BlocksExact
  <1>8. Sound(d)
    BY <1>1, <1>3, <1>4, <1>5, <1>6, <1>7 DEF Sound, TreeOK
  <1> QED BY <1>8 DEF d

LEMMA BootDisk ==
    ASSUME Sound(disk), Boot(disk)
    PROVE  Sound(disk') /\ Kept(disk') /\ devmnt' \in 0..NINODES
  <1> DEFINE d == ireclaim(disk)
             dev == d.ent[ROOTINO]["dev"]
             none == \A i \in Inums : d.type[i] # "free"
             full == dev = 0 /\ ~none /\ FreeBlocks(d) = {}
             c == NewInode(d, ROOTINO, "dev", "dir")
             d1 == IF dev # 0 \/ none \/ full THEN d ELSE c
  <1>1. disk' = d1 /\ devmnt' = d1.ent[ROOTINO]["dev"]
    BY DEF Boot
  <1>2. Sound(d) /\ Kept(d)
    BY IreclaimIs
  <1> HIDE DEF d
  <1>3. d \in Disk /\ TreeOK(d)
    BY <1>2 DEF Sound
  <1>4. d.type[ROOTINO] = "dir" /\ d.nlink[ROOTINO] # 0
    BY <1>2, <1>3, Params DEF TreeOK, Dots, Kept
  <1>5. Sound(d1) /\ Kept(d1)
    <2>1. CASE dev # 0 \/ none \/ full
      BY <2>1, <1>2
    <2>2. CASE ~(dev # 0 \/ none \/ full)
      <3>1. Vacant(d, ROOTINO, "dev")
        BY <2>2, <1>4, Params DEF Vacant
      <3>2. \E j \in Inums : d.type[j] = "free"
        BY <2>2
      <3>3. "dir" \in {"file", "dir"}
        OBVIOUS
      <3>4. Sound(c) /\ Grows(d, c)
        BY <3>1, <3>2, <3>3, <1>2, NewInodeGrows
      <3> HIDE DEF c
      <3>5. Kept(c)
        BY <3>4, <1>2 DEF Kept, Grows
      <3> QED BY <2>2, <3>4, <3>5
    <2> QED BY <2>1, <2>2
  <1> HIDE DEF d1
  <1>6. d1.ent[ROOTINO]["dev"] \in 0..NINODES
    <2>1. d1 \in Disk
      BY <1>5 DEF Sound
    <2> QED BY <2>1, DiskFields, Params
  <1> QED BY <1>1, <1>5, <1>6

LEMMA BootStep ==
    ASSUME Sound(disk), Boot(disk)
    PROVE  IInv'
  <1> DEFINE rec == [ref |-> 1, type |-> "device", node |-> Console, writable |-> TRUE]
             N == Cardinality(Slots)
             M == Cardinality(BootFiles)
  <1>1. /\ stop' \in {"create dots", ""}
        /\ ft' = [f \in Files |-> IF f \in BootFiles THEN rec ELSE NoFile]
        /\ ofile' = [p \in Slots |-> BootTable(p)]
        /\ cwd' = [p \in Slots |-> X(ROOTINO)]
        /\ ref' = [n \in Node |-> CASE n = X(ROOTINO) -> N [] n = Console -> M [] OTHER -> 0]
        /\ live' = {Least(Slots)} /\ fatmnt' = Unmounted /\ consdir' = FALSE
        /\ lostFd' = [f \in Files |-> 0] /\ lostCwd' = [n \in Node |-> 0]
    BY DEF Boot, BootTable
  <1>2. Sound(disk') /\ Kept(disk') /\ devmnt' \in 0..NINODES
    BY BootDisk
  <1>3. rec \in File /\ rec.ref = 1 /\ rec.node = Console /\ rec.type = "device"
    BY Nodes DEF File
  <1>4. NoFile \in File /\ NoFile.ref = 0 /\ NoFile.node = NoNode /\ NoFile.type = "none"
    BY DEF File, NoFile
  <1> HIDE DEF rec
  <1>5. /\ IsFiniteSet(BootFiles) /\ M \in Nat /\ N \in Nat /\ BootFiles \subseteq Files
    <2>1. BootFiles \in SUBSET Files
      BY BootFileIs
    <2> QED BY <2>1, Params, FS_Subset, FS_CardinalityType
  <1>6. X(ROOTINO) \in Node /\ Console \in Node /\ X(ROOTINO) # Console
    BY Params, Nodes
  <1>7. ref'[X(ROOTINO)] = N /\ ref'[Console] = M
        /\ \A n \in Node : n # X(ROOTINO) /\ n # Console => ref'[n] = 0
    BY <1>1, <1>6
  <1>8. ref' \in [Node -> Nat]
    <2>1. \A n \in Node : ref'[n] \in Nat
      BY <1>5, <1>7
    <2> DEFINE B(n) == CASE n = X(ROOTINO) -> N [] n = Console -> M [] OTHER -> 0
    <2>2. ref' = [n \in Node |-> B(n)]
      BY <1>1
    <2> HIDE DEF B
    <2>3. ref' = [n \in Node |-> ref'[n]]
      BY <2>2
    <2> QED BY <2>1, <2>3
  <1>9. Stable(disk', ref')
    <2>1. disk'.type[ROOTINO] = "dir"
      BY <1>2 DEF Sound, TreeOK, Dots
    <2>2. Anchored(disk', ref')
      BY <2>1, <1>6, <1>7, Nodes DEF Anchored
    <2>3. Orphans(disk', ref')
      BY <1>2 DEF Orphans, Kept
    <2> QED BY <1>2, <1>8, <2>2, <2>3 DEF Stable
  <1>10. FilesOK(ft')
    <2>1. \A f \in Files : ft'[f] = IF f \in BootFiles THEN rec ELSE NoFile
      BY <1>1
    <2>2. ft' \in [Files -> File]
      BY <1>1, <1>3, <1>4
    <2> QED BY <2>1, <2>2, <1>3, <1>4, <1>6 DEF FilesOK
  <1>11. /\ ofile' \in OfileSet
         /\ \A f \in BootFiles : Cardinality(UsersIn(ofile', f)) = 1
         /\ \A f \in Files \ BootFiles : Cardinality(UsersIn(ofile', f)) = 0
    BY <1>1, BootUsers
  <1>12. FileCounts(ft', ofile', lostFd')
    <2>1. \A f \in Files : lostFd'[f] = 0
      BY <1>1
    <2>2. \A f \in Files : ft'[f].ref = IF f \in BootFiles THEN 1 ELSE 0
      BY <1>1, <1>3, <1>4
    <2> QED BY <2>1, <2>2, <1>11 DEF FileCounts
  <1>13. NodeCounts(ref', ft', cwd', lostCwd')
    <2> SUFFICES ASSUME NEW n \in Node
                 PROVE  ref'[n] = Cardinality(Having(ft', n)) + Cardinality(Being(cwd', n)) + lostCwd'[n]
      BY DEF NodeCounts
    <2>1. lostCwd'[n] = 0
      BY <1>1
    <2>2. n # NoNode
      BY Nodes
    <2>3. Having(ft', n) = IF n = Console THEN BootFiles ELSE {}
      <3>1. \A f \in Files : ft'[f].node = IF f \in BootFiles THEN Console ELSE NoNode
        BY <1>1, <1>3, <1>4
      <3> QED BY <3>1, <2>2, <1>5 DEF Having
    <2>4. Being(cwd', n) = IF n = X(ROOTINO) THEN Slots ELSE {}
      BY <1>1 DEF Being
    <2>5. Cardinality({}) = 0
      BY FS_EmptySet
    <2>6. CASE n = X(ROOTINO)
      BY <2>1, <2>3, <2>4, <2>5, <2>6, <1>5, <1>6, <1>7
    <2>7. CASE n = Console
      BY <2>1, <2>3, <2>4, <2>5, <2>7, <1>5, <1>6, <1>7
    <2>8. CASE n # X(ROOTINO) /\ n # Console
      BY <2>1, <2>3, <2>4, <2>5, <2>8, <1>7
    <2> QED BY <2>6, <2>7, <2>8
  <1>14. cwd' \in CwdSet /\ \A p \in Slots : cwd'[p] = X(ROOTINO)
    BY <1>1, <1>6 DEF CwdSet
  <1>15. Least(Slots) \in Slots
    BY Params, LeastIn
  <1>16. TypeOK'
    <2>1. fatmnt'.inum \in 0..NINODES
      BY <1>1, Params DEF Unmounted
    <2>2. disk' \in Disk /\ ft' \in [Files -> File]
      BY <1>2, <1>10 DEF Sound, FilesOK
    <2>3. lostFd' \in [Files -> Nat] /\ lostCwd' \in [Node -> Nat]
      BY <1>1
    <2>4. live' \subseteq Slots /\ consdir' \in BOOLEAN
          /\ stop' \in {"off", "", "create dots", "ilock: no type"}
      BY <1>1, <1>15
    <2> QED BY <1>2, <1>8, <1>11, <1>14, <2>1, <2>2, <2>3, <2>4 DEF TypeOK, OfileSet, CwdSet
  <1>17. Exact(World, ofile, cwd, lostFd, lostCwd)'
    <2>1. World'.disk = disk' /\ World'.ft = ft' /\ World'.ref = ref'
      BY DEF World
    <2> QED BY <2>1, <1>9, <1>10, <1>12, <1>13 DEF Exact
  <1>18. Tables'
    <2>1. Fresh' = Slots \ {Least(Slots)}
      BY <1>1, <1>6, <1>14, Nodes DEF Fresh
    <2>2. Cardinality(Fresh') = N - 1
      BY <2>1, <1>15, Params, OneLess
    <2>3. \A q \in Slots : ofile'[q] = BootTable(q)
      BY <1>1
    <2>4. \A f \in Files : lostFd'[f] = 0
      BY <1>1
    <2>5. \A n \in Node : lostCwd'[n] = 0
      BY <1>1
    <2>6. \A q \in live' : cwd'[q] \in Node
      BY <1>1, <1>6, <1>14, <1>15
    <2>7. \A q \in Slots \ live' : cwd'[q] # NoNode
      BY <1>6, <1>14, Nodes
    <2>8. \A q \in Fresh' : /\ cwd'[q] = X(ROOTINO) /\ ofile'[q] = BootTable(q)
                            /\ \A fd \in 1..BOOTFDS : lostFd'[BootFile(q, fd)] = 0
      BY <2>1, <2>3, <2>4, <1>14, BootFileIs
    <2>9. lostCwd'[X(ROOTINO)] + Cardinality(Fresh') < N
      BY <2>2, <2>5, <1>5, <1>6
    <2> HIDE DEF N
    <2> QED BY <2>4, <2>5, <2>6, <2>7, <2>8, <2>9 DEF Tables, BootTable, BootFile, SlotNo, N
  <1>19. NobodyStranded'
    <2>1. \A f \in Files : ft'[f].node \in {Console, NoNode}
      BY <1>1, <1>3, <1>4
    <2> QED BY <2>1, <1>14, Nodes DEF NobodyStranded
  <1> QED BY <1>16, <1>17, <1>18, <1>19 DEF IInv

LEMMA InitStep ==
    ASSUME Init
    PROVE  IInv
  <1>1. /\ disk = golden /\ ft = [f \in Files |-> NoFile]
        /\ ofile = [p \in Slots |-> [fd \in Fds |-> 0]] /\ cwd = [p \in Slots |-> NoNode]
        /\ ref = [n \in Node |-> 0] /\ live = {} /\ fatmnt = Unmounted /\ devmnt = 0
        /\ consdir = FALSE /\ stop = "off"
        /\ lostFd = [f \in Files |-> 0] /\ lostCwd = [n \in Node |-> 0]
    BY DEF Init
  <1>2. Sound(disk) /\ Kept(disk)
    <2>1. Kept(golden)
      BY DEF golden, Kept
    <2> QED BY <2>1, <1>1, GoldenIsSound
  <1>3. NoFile \in File /\ NoFile.ref = 0 /\ NoFile.node = NoNode /\ NoFile.type = "none"
    BY DEF File, NoFile
  <1>4. NoNode \notin Node /\ ~fat_is(NoNode) /\ \A i \in Inums : X(i) \in Node
    BY Nodes
  <1>5. Stable(disk, ref)
    BY <1>1, <1>2, <1>4 DEF Stable, Anchored, Orphans, Kept
  <1>6. FilesOK(ft)
    BY <1>1, <1>3 DEF FilesOK
  <1>7. FileCounts(ft, ofile, lostFd)
    <2> SUFFICES ASSUME NEW f \in Files PROVE ft[f].ref = Cardinality(UsersIn(ofile, f)) + lostFd[f]
      BY DEF FileCounts
    <2>1. f # 0
      BY DEF Files
    <2>2. UsersIn(ofile, f) = {}
      BY <1>1, <2>1 DEF UsersIn
    <2> QED BY <2>2, <1>1, <1>3, FS_EmptySet
  <1>8. NodeCounts(ref, ft, cwd, lostCwd)
    <2> SUFFICES ASSUME NEW n \in Node
                 PROVE  ref[n] = Cardinality(Having(ft, n)) + Cardinality(Being(cwd, n)) + lostCwd[n]
      BY DEF NodeCounts
    <2>1. Having(ft, n) = {} /\ Being(cwd, n) = {}
      BY <1>1, <1>3, <1>4 DEF Having, Being
    <2>2. Cardinality({}) = 0
      BY FS_EmptySet
    <2>3. ref[n] = 0 /\ lostCwd[n] = 0
      BY <1>1
    <2> QED BY <2>1, <2>2, <2>3
  <1>9. TypeOK
    <2>1. fatmnt.inum \in 0..NINODES /\ devmnt \in 0..NINODES /\ 0 \in 0..NFILE
      BY <1>1, Params DEF Unmounted
    <2>2. disk \in Disk
      BY <1>2 DEF Sound
    <2> QED BY <1>1, <1>3, <2>1, <2>2 DEF TypeOK
  <1>10. Exact(World, ofile, cwd, lostFd, lostCwd)
    <2>1. World.disk = disk /\ World.ft = ft /\ World.ref = ref
      BY DEF World
    <2> QED BY <2>1, <1>5, <1>6, <1>7, <1>8 DEF Exact
  <1>11. Tables
    <2>1. Fresh = {}
      BY <1>1 DEF Fresh
    <2>2. Cardinality(Fresh) = 0
      BY <2>1, FS_EmptySet
    <2>3. Cardinality(Slots) \in Nat /\ Cardinality(Slots) # 0
      BY Params, FS_EmptySet, FS_CardinalityType
    <2>4. lostCwd[X(ROOTINO)] = 0
      BY <1>1, <1>4, Params
    <2>5. lostCwd[X(ROOTINO)] + Cardinality(Fresh) < Cardinality(Slots)
      BY <2>2, <2>3, <2>4
    <2>6. /\ \A f \in Files : lostFd[f] = 0
          /\ \A n \in Node : lostCwd[n] = 0
          /\ \A p \in Slots : ofile[p] = [fd \in Fds |-> 0]
      BY <1>1
    <2> QED BY <2>1, <2>5, <2>6, <1>1 DEF Tables
  <1>12. NobodyStranded
    BY <1>1, <1>3, <1>4 DEF NobodyStranded
  <1> QED BY <1>9, <1>10, <1>11, <1>12 DEF IInv

-----------------------------------------------------------------------------
(* fork: the table of slot c is written over with the one of p. *)
UsedBy(of, q, f) == {fd \in Fds : of[q][fd] = f}

LEMMA SplitUsers ==
    ASSUME NEW of, NEW c \in Slots, NEW f
    PROVE  /\ IsFiniteSet(UsedBy(of, c, f)) /\ Cardinality(UsedBy(of, c, f)) \in Nat
           /\ IsFiniteSet({q \in UsersIn(of, f) : q[1] # c})
           /\ Cardinality({q \in UsersIn(of, f) : q[1] # c}) \in Nat
           /\ Cardinality(UsersIn(of, f)) = Cardinality({q \in UsersIn(of, f) : q[1] # c})
                                            + Cardinality(UsedBy(of, c, f))
  <1> DEFINE R == {q \in UsersIn(of, f) : q[1] # c}
             U == UsedBy(of, c, f)
             P == {c} \X U
  <1>1. IsFiniteSet(U) /\ Cardinality(U) \in Nat
    <2>1. U \in SUBSET Fds
      BY DEF UsedBy
    <2> QED BY <2>1, Params, FS_Subset, FS_CardinalityType
  <1>2. IsFiniteSet(R) /\ Cardinality(R) \in Nat
    <2>1. R \in SUBSET UsersIn(of, f)
      OBVIOUS
    <2> QED BY <2>1, CountedSets, FS_Subset, FS_CardinalityType
  <1>3. UsersIn(of, f) = R \cup P /\ R \cap P = {}
    BY DEF UsersIn, UsedBy
  <1> HIDE DEF R, U
  <1>4. IsFiniteSet({c}) /\ Cardinality({c}) = 1
    BY FS_Singleton
  <1>5. IsFiniteSet(P) /\ Cardinality(P) = Cardinality(U)
    <2>1. IsFiniteSet(P) /\ Cardinality(P) = Cardinality({c}) * Cardinality(U)
      BY <1>1, <1>4, FS_Product
    <2> QED BY <2>1, <1>1, <1>4
  <1> HIDE DEF P
  <1>6. Cardinality(R \cup P) = Cardinality(R) + Cardinality(P)
    <2>1. Cardinality(R \cup P) = Cardinality(R) + Cardinality(P) - Cardinality(R \cap P)
      BY <1>2, <1>5, FS_Union
    <2>2. Cardinality(R \cap P) = 0
      BY <1>3, FS_EmptySet
    <2> QED BY <2>1, <2>2, <1>1, <1>2, <1>5
  <1> QED BY <1>1, <1>2, <1>3, <1>5, <1>6 DEF R, U

(* v is of with the descriptors of slot p copied to slot c. *)
Copied(v, of, c, p) ==
    /\ p \in Slots /\ c \in Slots
    /\ v[c] = of[p] /\ \A q \in Slots \ {c} : v[q] = of[q]

LEMMA ForkUsers ==
    ASSUME NEW of, NEW v, NEW p, NEW c, NEW f, Copied(v, of, c, p)
    PROVE  Cardinality(UsersIn(v, f)) + Cardinality(UsedBy(of, c, f))
             = Cardinality(UsersIn(of, f)) + Cardinality(UsedBy(of, p, f))
  <1>2. UsedBy(v, c, f) = UsedBy(of, p, f)
    BY DEF UsedBy, Copied
  <1>3. {q \in UsersIn(v, f) : q[1] # c} = {q \in UsersIn(of, f) : q[1] # c}
    BY DEF UsersIn, Copied
  <1> DEFINE r == Cardinality({q \in UsersIn(of, f) : q[1] # c})
             a == Cardinality(UsedBy(of, c, f))
             b == Cardinality(UsedBy(of, p, f))
             x == Cardinality(UsersIn(of, f))
             y == Cardinality(UsersIn(v, f))
  <1>4. r \in Nat /\ a \in Nat /\ x = r + a
    BY SplitUsers DEF Copied
  <1>5. y = r + b /\ b \in Nat
    <2>1. /\ Cardinality(UsedBy(v, c, f)) \in Nat
          /\ y = Cardinality({q \in UsersIn(v, f) : q[1] # c}) + Cardinality(UsedBy(v, c, f))
      BY SplitUsers DEF Copied
    <2> QED BY <2>1, <1>2, <1>3
  <1> HIDE DEF r, a, b, x, y
  <1>6. y + a = x + b
    BY <1>4, <1>5
  <1> QED BY <1>6 DEF a, b, x, y

(* What fork overwrites in an unused slot is at most its files of boot. *)
LEMMA LossOfFork ==
    ASSUME Tables, NEW c \in Slots \ live, NEW f \in Files,
           Cardinality(UsedBy(ofile, c, f)) # 0
    PROVE  /\ c \in Fresh /\ Cardinality(UsedBy(ofile, c, f)) = 1
           /\ \E fd \in 1..BOOTFDS : f = BootFile(c, fd)
  <1>1. UsedBy(ofile, c, f) # {}
    BY FS_EmptySet
  <1>2. PICK fd \in Fds : ofile[c][fd] = f
    BY <1>1 DEF UsedBy
  <1>3. f # 0
    BY DEF Files
  <1>4. c \in Fresh
    <2>1. ofile[c] # [e \in Fds |-> 0]
      BY <1>2, <1>3
    <2> QED BY <2>1 DEF Tables, Fresh
  <1>5. ofile[c] = BootTable(c)
    BY <1>4 DEF Tables
  <1>6. \A e \in Fds : ofile[c][e] = f => e \in 1..BOOTFDS /\ f = BootFile(c, e)
    <2>1. \A e \in Fds : ofile[c][e] = f => e <= BOOTFDS /\ f = BootFile(c, e)
      BY <1>5, <1>3 DEF BootTable
    <2>2. \A e \in Fds : e \in Nat /\ 1 <= e
      BY Params DEF Fds
    <2> QED BY <2>1, <2>2, BootFileIs
  <1>7. UsedBy(ofile, c, f) = {fd}
    <2>1. \A e \in Fds : ofile[c][e] = f => e = fd
      BY <1>2, <1>6, BootFileIs
    <2> QED BY <1>2, <2>1 DEF UsedBy
  <1> QED BY <1>2, <1>4, <1>6, <1>7, FS_Singleton

LEMMA ForkStep ==
    ASSUME IInv, NEW p \in Slots, Fork(p)
    PROVE  IInv'
  <1> DEFINE c == Least(Slots \ live)
             of == [ofile EXCEPT ![c] = ofile[p]]
             cw == [cwd EXCEPT ![c] = cwd[p]]
             n == cwd[p]
             a == cwd[c]
             r == [ref EXCEPT ![n] = @ + 1]
             use(q, f) == Cardinality(UsedBy(ofile, q, f))
             t == [f \in Files |-> [ft[f] EXCEPT !.ref = @ + use(p, f)]]
             lf == [f \in Files |-> lostFd[f] + use(c, f)]
             lc == [m \in Node |-> lostCwd[m] + IF a = m THEN 1 ELSE 0]
  <1>1. /\ p \in live /\ live # Slots /\ live' = live \cup {c} /\ ofile' = of /\ cwd' = cw
        /\ ref' = r /\ ft' = t /\ lostFd' = lf /\ lostCwd' = lc
        /\ UNCHANGED <<disk, mounts, stop>>
    BY DEF Fork, Runs, UsedBy
  <1>2. /\ Stable(disk, ref) /\ disk \in Disk /\ ft \in [Files -> File]
        /\ ref \in [Node -> Nat] /\ FilesOK(ft) /\ ofile \in OfileSet
        /\ cwd \in CwdSet /\ FileCounts(ft, ofile, lostFd) /\ NodeCounts(ref, ft, cwd, lostCwd)
        /\ Tables /\ NobodyStranded /\ lostFd \in [Files -> Nat] /\ lostCwd \in [Node -> Nat]
        /\ live \subseteq Slots
    BY Parts
  <1>3. c \in Slots /\ c \notin live /\ p # c
    <2>1. Slots \ live \in SUBSET Nat /\ Slots \ live # {}
      BY <1>1, <1>2, Params
    <2>2. c \in Slots \ live
      BY <2>1, LeastIn
    <2> QED BY <2>2, <1>1
  <1> HIDE DEF c
  <1>4. n \in Node
    BY <1>1, <1>2 DEF Tables
  <1>5. a = NoNode \/ a = X(ROOTINO)
    BY <1>2, <1>3 DEF Tables, Fresh
  <1>6. of \in OfileSet /\ of[c] = ofile[p] /\ \A q \in Slots \ {c} : of[q] = ofile[q]
    BY <1>2, <1>3 DEF OfileSet
  <1>7. cw \in CwdSet /\ cw[c] = n /\ \A q \in Slots \ {c} : cw[q] = cwd[q]
    BY <1>2, <1>3 DEF CwdSet
  <1>8. \A f : use(p, f) \in Nat /\ use(c, f) \in Nat
    BY <1>3, SplitUsers
  <1>9. \A f : Cardinality(UsersIn(of, f)) + use(c, f) = Cardinality(UsersIn(ofile, f)) + use(p, f)
    <2> HIDE DEF of
    <2>1. Copied(of, ofile, c, p)
      BY <1>3, <1>6 DEF Copied
    <2>2. \A f : Cardinality(UsersIn(of, f)) + Cardinality(UsedBy(ofile, c, f))
                   = Cardinality(UsersIn(ofile, f)) + Cardinality(UsedBy(ofile, p, f))
      BY <2>1, ForkUsers
    <2> QED BY <2>2
  <1>10. ASSUME NEW f \in Files, ft[f].ref = 0 PROVE use(p, f) = 0
    <2> DEFINE u == Cardinality(UsersIn(ofile, f))
               k == Cardinality({q \in UsersIn(ofile, f) : q[1] # p})
               b == use(p, f)
    <2>1. u \in Nat /\ lostFd[f] \in Nat /\ ft[f].ref = u + lostFd[f]
      BY <1>2, CountedSets DEF FileCounts
    <2>2. k \in Nat /\ b \in Nat /\ u = k + b
      BY SplitUsers
    <2> HIDE DEF u, k, b
    <2>3. b = 0
      BY <2>1, <2>2, <1>10
    <2> QED BY <2>3 DEF b
  <1>11. lf \in [Files -> Nat] /\ \A f \in Files : lf[f] = lostFd[f] + use(c, f)
    BY <1>2, <1>8
  <1>12. \A f \in Files : t[f] = [ft[f] EXCEPT !.ref = @ + use(p, f)]
    OBVIOUS
  <1> HIDE DEF use, lf
  <1>13. /\ t \in [Files -> File]
         /\ \A f \in Files : /\ t[f].ref = ft[f].ref + use(p, f) /\ t[f].node = ft[f].node
                             /\ t[f].type = ft[f].type /\ t[f].writable = ft[f].writable
                             /\ (use(p, f) = 0 => t[f] = ft[f])
    <2>1. ASSUME NEW f \in Files
          PROVE  /\ t[f] \in File
                 /\ t[f].ref = ft[f].ref + use(p, f) /\ t[f].node = ft[f].node
                 /\ t[f].type = ft[f].type /\ t[f].writable = ft[f].writable
                 /\ (use(p, f) = 0 => t[f] = ft[f])
      <3> DEFINE g == ft[f]
                 k == use(p, f)
                 h == t[f]
      <3>1. g \in File /\ k \in Nat /\ h = [g EXCEPT !.ref = @ + k]
        BY <1>2, <1>8, <1>12
      <3> HIDE DEF g, k, h
      <3>2. /\ h \in File /\ h.ref = g.ref + k /\ h.node = g.node /\ h.type = g.type
            /\ h.writable = g.writable /\ (k = 0 => h = g)
        BY <3>1 DEF File
      <3> QED BY <3>2 DEF g, k, h
    <2>2. t = [f \in Files |-> t[f]]
      OBVIOUS
    <2> HIDE DEF t
    <2> QED BY <2>1, <2>2
  <1> HIDE DEF t
  <1>14. FilesOK(t)
    <2>1. ASSUME NEW f \in Files, t[f].ref = 0 PROVE t[f] = NoFile
      <3>1. ft[f].ref \in Nat /\ use(p, f) \in Nat
        BY <1>2, <1>8 DEF File
      <3>2. ft[f].ref = 0 /\ use(p, f) = 0
        BY <3>1, <2>1, <1>13
      <3> QED BY <3>2, <1>2, <1>13 DEF FilesOK
    <2>2. ASSUME NEW f \in Files, t[f].ref # 0 PROVE t[f].node \in Node
      <3>1. ft[f].ref # 0
        <4>1. CASE ft[f].ref = 0
          BY <4>1, <1>10, <1>13, <2>2
        <4> QED BY <4>1
      <3> QED BY <3>1, <1>2, <1>13 DEF FilesOK
    <2>3. \A f \in Files : t[f].type = "inode" /\ t[f].writable => t[f].node[1] = "x"
      BY <1>2, <1>13 DEF FilesOK
    <2> QED BY <2>1, <2>2, <2>3, <1>13 DEF FilesOK
  <1>15. FileCounts(t, of, lf)
    <2> SUFFICES ASSUME NEW f \in Files PROVE t[f].ref = Cardinality(UsersIn(of, f)) + lf[f]
      BY DEF FileCounts
    <2> DEFINE u == Cardinality(UsersIn(ofile, f))
               v == Cardinality(UsersIn(of, f))
               k == use(p, f)
               l == use(c, f)
    <2>1. u \in Nat /\ v \in Nat /\ k \in Nat /\ l \in Nat /\ lostFd[f] \in Nat
      BY <1>2, <1>8, CountedSets
    <2>2. v + l = u + k /\ ft[f].ref = u + lostFd[f]
      BY <1>2, <1>9 DEF FileCounts
    <2>3. lf[f] = lostFd[f] + l /\ t[f].ref = ft[f].ref + k
      BY <1>11, <1>13
    <2> HIDE DEF u, v, k, l
    <2>4. t[f].ref = v + lf[f]
      BY <2>1, <2>2, <2>3
    <2> QED BY <2>4 DEF v
  <1> HIDE DEF n
  <1>16. /\ lc \in [Node -> Nat]
         /\ \A m \in Node : lc[m] = lostCwd[m] + IF a = m THEN 1 ELSE 0
    BY <1>2
  <1> HIDE DEF a, lc
  <1>17. r \in [Node -> Nat] /\ \A m \in Node : r[m] = IF m = n THEN ref[m] + 1 ELSE ref[m]
    BY <1>2, <1>4
  <1>18. Stable(disk, r)
    <2>1. ref[n] # 0
      BY <1>4, DirHolds DEF n
    <2>2. n[1] = "x" => n[2] \in Inums /\ n = X(n[2])
      BY <1>4, Nodes
    <2>3. n[1] = "x" => disk.type[n[2]] # "free"
      BY <2>1, <2>2, <1>2 DEF Stable, Anchored
    <2> QED BY <2>3, <1>2, <1>4, DupIsStable
  <1> HIDE DEF r
  <1>19. NodeCounts(r, t, cw, lc)
    <2>1. \A m : Having(t, m) = Having(ft, m)
      BY <1>13 DEF Having
    <2> DEFINE h(m) == Cardinality(Having(ft, m))
               x(m) == Cardinality(Being(cwd, m))
               y(m) == Cardinality(Being(cw, m))
    <2>2. \A m \in Node : h(m) \in Nat /\ x(m) \in Nat /\ lostCwd[m] \in Nat
                          /\ ref[m] = h(m) + x(m) + lostCwd[m]
      BY <1>2, CountedSets DEF NodeCounts
    <2>3. \A m \in Node : /\ (a # n /\ m = n => y(m) = x(m) + 1)
                          /\ (a # n /\ m = a => y(m) = x(m) - 1)
                          /\ ((a = n \/ (m # a /\ m # n)) => y(m) = x(m))
      <3>1. CASE a = n
        <4>1. cw = cwd
          BY <3>1, <1>2, <1>3 DEF a, n, CwdSet
        <4> QED BY <4>1, <3>1
      <3>2. CASE a # n
        <4>1. cwd[c] = a /\ cw = [cwd EXCEPT ![c] = n]
          BY DEF a, n
        <4> HIDE DEF cw
        <4>2. BeingMoved(cwd, cw, a, n)
          BY <4>1, <3>2, <1>2, <1>3, BeingMove
        <4> QED BY <4>2, <3>2 DEF BeingMoved
      <3> QED BY <3>1, <3>2
    <2> HIDE DEF h, x, y, cw
    <2>4. ASSUME NEW m \in Node PROVE r[m] = h(m) + y(m) + lc[m]
      <3>1. h(m) \in Nat /\ x(m) \in Nat /\ lostCwd[m] \in Nat
            /\ ref[m] = h(m) + x(m) + lostCwd[m]
        BY <2>2
      <3>2. CASE m = n /\ m = a
        <4>1. r[m] = ref[m] + 1 /\ y(m) = x(m) /\ lc[m] = lostCwd[m] + 1
          BY <3>2, <2>3, <1>16, <1>17
        <4> QED BY <3>1, <4>1
      <3>3. CASE m = n /\ m # a
        <4>1. r[m] = ref[m] + 1 /\ y(m) = x(m) + 1 /\ lc[m] = lostCwd[m]
          BY <3>1, <3>3, <2>3, <1>16, <1>17
        <4> QED BY <3>1, <4>1
      <3>4. CASE m # n /\ m = a
        <4>1. r[m] = ref[m] /\ y(m) = x(m) - 1 /\ lc[m] = lostCwd[m] + 1
          BY <3>1, <3>4, <2>3, <1>16, <1>17
        <4> QED BY <3>1, <4>1
      <3>5. CASE m # n /\ m # a
        <4>1. r[m] = ref[m] /\ y(m) = x(m) /\ lc[m] = lostCwd[m]
          BY <3>1, <3>5, <2>3, <1>16, <1>17
        <4> QED BY <3>1, <4>1
      <3> QED BY <3>2, <3>3, <3>4, <3>5
    <2> QED BY <2>1, <2>4 DEF NodeCounts, h, y
  <1> HIDE DEF of, cw
  <1>20. fatmnt' = fatmnt /\ devmnt' = devmnt /\ consdir' = consdir /\ stop' = stop /\ disk' = disk
    BY <1>1 DEF mounts
  <1>21. Exact(World, ofile, cwd, lostFd, lostCwd)'
    <2>1. World'.disk = disk' /\ World'.ft = ft' /\ World'.ref = ref'
      BY DEF World
    <2> QED BY <2>1, <1>1, <1>14, <1>15, <1>18, <1>19, <1>20 DEF Exact
  <1>22. TypeOK'
    BY <1>1, <1>2, <1>3, <1>6, <1>7, <1>11, <1>13, <1>16, <1>17, <1>20
       DEF IInv, TypeOK, OfileSet, CwdSet
  <1>23. NobodyStranded'
    <2>1. fatmnt = Unmounted => ~fat_is(n)
      BY <1>2 DEF NobodyStranded, n
    <2> QED BY <2>1, <1>1, <1>2, <1>7, <1>13, <1>20 DEF NobodyStranded
  <1>24. Fresh' = Fresh \ {c}
    BY <1>1, <1>2, <1>3, <1>7 DEF Fresh
  <1>25. \A q \in live' : cwd'[q] \in Node
    BY <1>1, <1>2, <1>4, <1>7 DEF Tables
  <1>26. \A q \in Slots \ live' : cwd'[q] = cwd[q] /\ ofile'[q] = ofile[q] /\ q \in Slots \ live
    BY <1>1, <1>6, <1>7
  <1>27. \A f \in Files : lf[f] # 0 => f \in BootFiles /\ lf[f] = 1
    <2> SUFFICES ASSUME NEW f \in Files, lf[f] # 0 PROVE f \in BootFiles /\ lf[f] = 1
      OBVIOUS
    <2>1. lf[f] = lostFd[f] + use(c, f) /\ lostFd[f] \in Nat /\ use(c, f) \in Nat
      BY <1>2, <1>8, <1>11
    <2>2. CASE use(c, f) = 0
      <3>1. lf[f] = lostFd[f]
        BY <2>1, <2>2
      <3> QED BY <3>1, <1>2 DEF Tables
    <2>3. CASE use(c, f) # 0
      <3>1. c \in Fresh /\ use(c, f) = 1 /\ \E fd \in 1..BOOTFDS : f = BootFile(c, fd)
        BY <2>3, <1>2, <1>3, LossOfFork DEF use
      <3>2. PICK fd \in 1..BOOTFDS : f = BootFile(c, fd)
        BY <3>1
      <3>3. f \in BootFiles /\ lostFd[f] = 0
        BY <3>1, <3>2, <1>2, <1>3, BootFileIs DEF Tables
      <3> QED BY <3>1, <3>3, <2>1
    <2> QED BY <2>2, <2>3
  <1>28. ASSUME NEW q \in Fresh \ {c}, NEW fd \in 1..BOOTFDS PROVE lf[BootFile(q, fd)] = 0
    <2> DEFINE f == BootFile(q, fd)
    <2>1. q \in Slots /\ f \in Files /\ lostFd[f] = 0
      BY <1>2, BootFileIs DEF Tables, Fresh
    <2>2. use(c, f) = 0
      <3> SUFFICES ASSUME use(c, f) # 0 PROVE FALSE
        OBVIOUS
      <3> HIDE DEF f
      <3>1. PICK gd \in 1..BOOTFDS : f = BootFile(c, gd)
        BY <2>1, <1>2, <1>3, LossOfFork DEF use
      <3>2. q = c
        BY <3>1, <2>1, <1>3, BootFileIs DEF f
      <3> QED BY <3>2
    <2>3. lf[f] = lostFd[f] + use(c, f)
      BY <2>1, <1>11
    <2> QED BY <2>1, <2>2, <2>3
  <1>29. \A m \in Node : lc[m] # 0 => m = X(ROOTINO)
    <2> SUFFICES ASSUME NEW m \in Node, m # X(ROOTINO) PROVE lc[m] = 0
      OBVIOUS
    <2>1. a # m
      BY <1>5, Nodes
    <2>2. lostCwd[m] = 0
      BY <1>2 DEF Tables
    <2> QED BY <2>1, <2>2, <1>16
  <1>30. lc[X(ROOTINO)] + Cardinality(Fresh \ {c}) < Cardinality(Slots)
    <2> DEFINE k == Cardinality(Fresh)
               s == Cardinality(Slots)
               l == lostCwd[X(ROOTINO)]
               j == Cardinality(Fresh \ {c})
    <2>1. IsFiniteSet(Fresh)
      <3>1. Fresh \in SUBSET Slots
        BY DEF Fresh
      <3> QED BY <3>1, Params, FS_Subset
    <2>2. k \in Nat /\ s \in Nat /\ l \in Nat /\ l + k < s /\ X(ROOTINO) \in Node
      <3>1. X(ROOTINO) \in Node
        BY Params, Nodes
      <3> QED BY <3>1, <2>1, <1>2, Params, FS_CardinalityType DEF Tables
    <2>3. CASE a = NoNode
      <3>1. Fresh \ {c} = Fresh /\ a # X(ROOTINO)
        BY <2>3, <2>2, Nodes DEF Fresh, a
      <3>2. lc[X(ROOTINO)] = l /\ j = k
        BY <3>1, <2>2, <1>16
      <3> QED BY <3>2, <2>2
    <2>4. CASE a # NoNode
      <3>1. c \in Fresh /\ a = X(ROOTINO)
        BY <2>4, <1>3, <1>5 DEF Fresh, a
      <3>2. j = k - 1
        BY <3>1, <2>1, OneLess
      <3>3. lc[X(ROOTINO)] = l + 1
        BY <3>1, <2>2, <1>16
      <3> HIDE DEF j, k, s, l
      <3>4. lc[X(ROOTINO)] + j < s
        BY <3>2, <3>3, <2>2
      <3> QED BY <3>4 DEF j, s
    <2> QED BY <2>3, <2>4
  <1>31. Tables'
    <2>1. \A q \in Fresh' : q \in Fresh \ {c} /\ q \in Slots \ live'
      BY <1>24 DEF Fresh
    <2>2. \A q : BootTable(q)' = BootTable(q)
      BY DEF BootTable, BootFile, SlotNo
    <2>3. \A q \in Fresh' : cwd'[q] = X(ROOTINO) /\ ofile'[q] = BootTable(q)
      BY <2>1, <1>2, <1>26 DEF Tables
    <2>4. \A q \in Fresh', fd \in 1..BOOTFDS : lostFd'[BootFile(q, fd)] = 0
      BY <2>1, <1>1, <1>28
    <2>5. \A q \in Slots \ live' : cwd'[q] = NoNode => ofile'[q] = [fd \in Fds |-> 0]
      BY <1>2, <1>26 DEF Tables
    <2>6. lostCwd'[X(ROOTINO)] + Cardinality(Fresh') < Cardinality(Slots)
      BY <1>1, <1>24, <1>30
    <2>7. /\ \A f \in Files : lostFd'[f] # 0 => f \in BootFiles /\ lostFd'[f] = 1
          /\ \A m \in Node : lostCwd'[m] # 0 => m = X(ROOTINO)
      BY <1>1, <1>27, <1>29
    <2> QED BY <2>3, <2>4, <2>5, <2>6, <2>7, <1>25
            DEF Tables, BootTable, BootFile, SlotNo, BootFiles
  <1> QED BY <1>21, <1>22, <1>23, <1>31 DEF IInv

-----------------------------------------------------------------------------
(* The theorems. *)
LEMMA StepKeeps ==
    ASSUME IInv, [Next]_vars
    PROVE  IInv'
  <1>1. ASSUME NEW p \in Slots, NEW path \in Paths, NEW w \in BOOLEAN, NEW t \in BOOLEAN,
               OpenCreate(p, path, w, t) \/ Open(p, path, w, t)
        PROVE  IInv'
    BY <1>1, OpenCreateStep, OpenStep
  <1>2. ASSUME NEW p \in Slots, NEW path \in Paths,
               \/ Mkdir(p, path) \/ Unlink(p, path) \/ Chdir(p, path)
               \/ Mount(p, path) \/ Umount(p, path) \/ Panics(p, path)
        PROVE  IInv'
    BY <1>2, MkdirStep, UnlinkStep, ChdirStep, MountStep, UmountStep, PanicsStep
  <1>3. ASSUME NEW p \in Slots, NEW path \in Paths, NEW new \in Paths, Link(p, path, new)
        PROVE  IInv'
    BY <1>3, LinkStep
  <1>4. ASSUME NEW p \in Slots, NEW fd \in Fds, Close(p, fd) \/ DupFd(p, fd) \/ Write(p, fd)
        PROVE  IInv'
    BY <1>4, CloseStep, DupFdStep, WriteStep
  <1>5. ASSUME NEW p \in Slots, Fork(p) \/ Exit(p)
        PROVE  IInv'
    BY <1>5, ForkStep, ExitStep
  <1>6. CASE Reboot
    <2>1. Sound(disk)
      BY Parts
    <2> QED BY <2>1, <1>6, BootStep DEF Reboot
  <1>7. CASE UNCHANGED vars
    <2>1. UNCHANGED <<disk, ft, ref, ofile, cwd, live, lostFd, lostCwd,
                      fatmnt, devmnt, consdir, stop>>
      BY <1>7 DEF vars, mounts, tables, lost
    <2>2. Exact(World, ofile, cwd, lostFd, lostCwd)' /\ Tables'
      BY <2>1, SameExact, SameTables DEF IInv
    <2>3. TypeOK' /\ NobodyStranded'
      BY <2>1 DEF IInv, TypeOK, NobodyStranded
    <2> QED BY <2>2, <2>3 DEF IInv
  <1> QED BY <1>1, <1>2, <1>3, <1>4, <1>5, <1>6, <1>7 DEF Next

(* The disk is sound, the counts are exact, the tables of slots without a
   process are empty or those of boot, after any sequence of file calls, forks,
   exits, panics and power cycles. *)
THEOREM FsInvariance == Spec => []IInv
  <1>1. Init => IInv
    BY InitStep
  <1>2. IInv /\ [Next]_vars => IInv'
    BY StepKeeps
  <1> QED BY <1>1, <1>2, PTL DEF Spec

LEMMA IInvGives ==
    ASSUME IInv
    PROVE  RefsExact /\ DiskInv /\ OnlyBootTablesLost /\ NobodyStranded
  <1>1. /\ Stable(disk, ref) /\ Sound(disk) /\ FileCounts(ft, ofile, lostFd)
        /\ NodeCounts(ref, ft, cwd, lostCwd) /\ Tables /\ ref \in [Node -> Nat]
        /\ lostFd \in [Files -> Nat] /\ lostCwd \in [Node -> Nat] /\ NobodyStranded
    BY Parts
  <1>2. RefsExact
    <2>1. \A f \in Files : ft[f].ref = Users(f) + lostFd[f]
      BY <1>1 DEF FileCounts, Users, UsersIn
    <2>2. \A n \in Node : ref[n] = Cardinality({f \in Files : ft[f].node = n})
                                   + Cardinality({p \in Slots : cwd[p] = n}) + lostCwd[n]
      BY <1>1 DEF NodeCounts, Having, Being
    <2> QED BY <2>1, <2>2 DEF RefsExact
  <1>3. DiskInv
    <2>1. LinksExact(disk) /\ BlocksExact(disk)
      BY <1>1 DEF Sound, TreeOK, Counted, LinksExact
    <2>2. OrphanHeld
      <3>1. \A i \in Inums : ref[X(i)] \in Nat
        BY <1>1, Nodes
      <3>2. \A i \in Inums : disk.type[i] # "free" /\ disk.nlink[i] = 0 => ref[X(i)] # 0
        BY <1>1 DEF Stable, Orphans
      <3>3. ASSUME NEW i \in Inums, disk.type[i] # "free", disk.nlink[i] = 0
            PROVE  ref[X(i)] > 0
        <4>1. ref[X(i)] \in Nat /\ ref[X(i)] # 0
          BY <3>1, <3>2, <3>3
        <4> QED BY <4>1
      <3> QED BY <3>3 DEF OrphanHeld
    <2> QED BY <2>1, <2>2 DEF DiskInv, IInv
  <1>4. OnlyBootTablesLost
    <2>1. \A f \in Files : lostFd[f] > 0 => f \in BootFiles /\ lostFd[f] <= 1
      BY <1>1 DEF Tables
    <2> DEFINE k == Cardinality(Fresh)
               s == Cardinality(Slots)
    <2>2. k \in Nat /\ s \in Nat
      <3>1. Fresh \in SUBSET Slots
        BY DEF Fresh
      <3> QED BY <3>1, Params, FS_Subset, FS_CardinalityType
    <2>3. \A n \in Node : lostCwd[n] > 0 => n = X(ROOTINO)
      BY <1>1 DEF Tables
    <2>4. X(ROOTINO) \in Node /\ lostCwd[X(ROOTINO)] \in Nat /\ lostCwd[X(ROOTINO)] + k < s
      BY <1>1, Params, Nodes DEF Tables
    <2> HIDE DEF k, s
    <2>5. lostCwd[X(ROOTINO)] < s
      BY <2>2, <2>4
    <2> QED BY <2>1, <2>3, <2>5 DEF OnlyBootTablesLost, s
  <1> QED BY <1>1, <1>2, <1>3, <1>4

(* fileclose, iput and fat_busy decide by exact counts: an open file's ref is
   the number of its descriptors, a node's the number of files and current
   directories on it, plus what a fork into a slot overwrote. *)
THEOREM CountsAreExact == Spec => []RefsExact
  BY FsInvariance, IInvGives, PTL

(* nlink is the number of links, the bitmap is the blocks in use, each in one
   inode, and an inode without links is held by somebody: through every create,
   link, unlink, write, truncate, iput and ireclaim, out of space or not, and
   whenever the power fails after a sync. *)
THEOREM DiskIsSound == Spec => []DiskInv
  BY FsInvariance, IInvGives, PTL

(* kfs_fork overwrites at most the descriptors and the root directory kfs_start
   gave the slot, each once: the references it loses are bounded. *)
THEOREM LossIsBounded == Spec => []OnlyBootTablesLost
  BY FsInvariance, IInvGives, PTL

(* kfs_umount never pulls the volume from under a file or a current directory. *)
THEOREM VolumeStays == Spec => []NobodyStranded
  BY FsInvariance, IInvGives, PTL
=============================================================================
