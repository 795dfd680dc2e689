-------------------------------- MODULE KFs --------------------------------
(***************************************************************************)
(* The file layer: descriptors and the file table (kernel/file.c), inodes, *)
(* directories and blocks (kernel/fs.c), the system calls on them, path    *)
(* resolution across the mounts and the tables of a fork or an exit        *)
(* (dma/kfsglue.c), what kdev.c and kfat.c add as synthetic nodes, and     *)
(* what a power failure leaves of it all.                                  *)
(*                                                                         *)
(* Every system call is one step: the kernel is not preemptible and the    *)
(* file layer never sleeps.  Between two calls an inode's in-memory copy   *)
(* and its dinode agree (every change is followed by iupdate), so there is *)
(* one copy here.  References taken and given back within one call are not *)
(* shown.  Contents of files, offsets and sizes below a block are left     *)
(* out: a write is the block it adds.  Pipes are in KPipe.                 *)
(***************************************************************************)
EXTENDS Integers, Sequences, FiniteSets, SequencesExt

CONSTANTS
    Slots,      \* KNPROC process slots; the least one runs at boot
    NOFILE,     \* descriptors of a process
    NFILE,      \* entries of the file table
    BOOTFDS,    \* descriptors kfs_start opens for a slot (3 in the code)
    NINODES,    \* inodes of the disk; no more than itable has entries
    NBLOCKS,    \* data blocks of the disk
    NDIRECT,    \* direct blocks of an inode
    NINDIRECT,  \* blocks an indirect block points to
    Names,      \* names in paths and directories; a directory's first block
                \* has room for all of them
    Paths       \* paths the programs use: [abs |-> BOOLEAN, el |-> names]

ASSUME KFsAssumption ==
    /\ IsFiniteSet(Slots) /\ Slots # {} /\ Slots \subseteq Nat
    /\ NOFILE \in Nat /\ NFILE \in Nat /\ BOOTFDS \in 1..NOFILE
    /\ BOOTFDS * Cardinality(Slots) <= NFILE
    /\ NINODES \in Nat \ {0} /\ NBLOCKS \in Nat \ {0}
    /\ NDIRECT \in Nat \ {0} /\ NINDIRECT \in Nat
    /\ IsFiniteSet(Names) /\ {"..", "dev", "console", "a"} \subseteq Names
    /\ Paths \subseteq [abs : BOOLEAN, el : Seq(Names)]

VARIABLES
    disk,       \* the RAM disk: dinodes, directories, bitmap
    ft,         \* ftable.file
    ofile,      \* fsproc[].ofile, 0 where free
    cwd,        \* fsproc[].cwd
    ref,        \* ref[n]: the reference count of node n's inode
    live,       \* slots with a process
    fatmnt,     \* where the vfat volume is mounted, or Unmounted
    devmnt,     \* the inode number behind /dev
    consdir,    \* TRUE: the console's node has been read over as a directory
    stop,       \* "off", what the kernel has panicked with, or "" if it runs
    lostFd,     \* per file, the descriptors a fork overwrote (history)
    lostCwd     \* per node, the current directories a fork overwrote (history)

lost == <<lostFd, lostCwd>>
vars == <<disk, ft, ofile, cwd, ref, live, fatmnt, devmnt, consdir, stop, lost>>

Inums == 1..NINODES
Blocks == 1..NBLOCKS
Files == 1..NFILE
Fds == 1..NOFILE
ROOTINO == 1
Least(S) == CHOOSE x \in S : \A y \in S : x <= y

(* A struct inode: one of the disk, of devfs or of the vfat volume.  The
   volume has a root with one file "a". *)
X(i) == <<"x", i>>
DevRoot == <<"dev", "root">>
Console == <<"dev", "console">>
FatRoot == <<"fat", "root">>
FatFile == <<"fat", "file">>
Node == {X(i) : i \in Inums} \cup {DevRoot, Console, FatRoot, FatFile}
fat_is(n) == n[1] = "fat"
dev_is(n) == n[1] = "dev"

NoNode == <<"none", 0>>      \* a null pointer
Oops == <<"panic", 0>>       \* the kernel has panicked on the way

Unmounted == [el |-> <<>>, inum |-> 0]

Disk == [type : [Inums -> {"free", "file", "dir"}],
         nlink : [Inums -> Nat],
         ent : [Inums -> [Names -> 0..NINODES]],
         data : [Inums -> SUBSET Blocks],
         ind : [Inums -> 0..NBLOCKS],
         bitmap : SUBSET Blocks]

File == [ref : Nat, type : {"none", "inode", "device"},
         node : Node \cup {NoNode}, writable : BOOLEAN]

TypeOK ==
    /\ disk \in Disk
    /\ ft \in [Files -> File]
    /\ ofile \in [Slots -> [Fds -> 0..NFILE]]
    /\ cwd \in [Slots -> Node \cup {NoNode}]
    /\ ref \in [Node -> Nat]
    /\ live \subseteq Slots
    /\ fatmnt.inum \in 0..NINODES
    /\ devmnt \in 0..NINODES
    /\ consdir \in BOOLEAN
    /\ stop \in {"off", "", "create dots", "ilock: no type"}
    /\ lostFd \in [Files -> Nat]
    /\ lostCwd \in [Node -> Nat]

-----------------------------------------------------------------------------
(* Blocks and inodes (fs.c), as functions of the disk. *)

FreeBlocks(d) == Blocks \ d.bitmap
Held(d, i) == d.data[i] \cup ({d.ind[i]} \ {0})

(* bmap of the block after the last one, for writei: a direct block, or one
   behind the indirect block, which is allocated first and stays when there
   is none left for the data. *)
balloc(d) == [d EXCEPT !.bitmap = @ \cup {Least(FreeBlocks(d))}]

bmap(d, i) ==
    LET b == Least(FreeBlocks(d))
        d1 == [balloc(d) EXCEPT !.ind[i] = b]
        c == Least(FreeBlocks(d1))
    IN IF FreeBlocks(d) = {} THEN d
       ELSE IF Cardinality(d.data[i]) < NDIRECT \/ d.ind[i] # 0
       THEN [balloc(d) EXCEPT !.data[i] = @ \cup {b}]
       ELSE IF FreeBlocks(d1) = {} THEN d1
       ELSE [balloc(d1) EXCEPT !.data[i] = @ \cup {c}]

itrunc(d, i) ==
    [d EXCEPT !.bitmap = @ \ Held(d, i), !.data[i] = {}, !.ind[i] = 0]

(* iput of the last reference to an inode without links frees it. *)
ifree(d, i) ==
    [itrunc(d, i) EXCEPT !.type[i] = "free", !.ent[i] = [e \in Names |-> 0]]

Mut_ireclaim(d) == d                  \* orphans are left alone
ireclaim(d) ==
    LET done[i \in 0..NINODES] ==
          IF i = 0 THEN d
          ELSE LET e == done[i - 1]
               IN IF e.type[i] # "free" /\ e.nlink[i] = 0 THEN ifree(e, i) ELSE e
    IN done[NINODES]

isdirempty(d, i) == \A e \in Names \ {".."} : d.ent[i][e] = 0

(* create's new inode i of a type in directory dp.  A directory gets its
   dots, for which it needs a block. *)
NewInode(d, dp, name, type) ==
    LET i == Least({j \in Inums : d.type[j] = "free"})
        file == [d EXCEPT !.type[i] = type, !.nlink[i] = 1, !.ent[dp][name] = i]
    IN IF type = "file" THEN file
       ELSE [bmap(file, i) EXCEPT !.ent[i][".."] = dp, !.nlink[dp] = @ + 1]

-----------------------------------------------------------------------------
(* References.  A world is [disk, ft, ref]. *)

World == [disk |-> disk, ft |-> ft, ref |-> ref]

Become(w) == disk' = w.disk /\ ft' = w.ft /\ ref' = w.ref

(* idup, fat_dup, dev_dup: all of them ref++. *)
Dup(w, n) == [w EXCEPT !.ref[n] = @ + 1]

vfs_iput(w, n) ==
    LET last == n[1] = "x" /\ w.ref[n] = 1 /\ w.disk.nlink[n[2]] = 0
    IN [w EXCEPT !.ref[n] = @ - 1,
                 !.disk = IF last THEN ifree(@, n[2]) ELSE @]

NoFile == [ref |-> 0, type |-> "none", node |-> NoNode, writable |-> FALSE]

fileclose(w, f) ==
    IF w.ft[f].ref > 1 THEN [w EXCEPT !.ft[f].ref = @ - 1]
    ELSE LET closed == [w EXCEPT !.ft[f] = NoFile]
         IN IF w.ft[f].node = NoNode THEN closed
            ELSE vfs_iput(closed, w.ft[f].node)

FreeFiles == {f \in Files : ft[f].ref = 0}
FreeFds(p) == {fd \in Fds : ofile[p][fd] = 0}

-----------------------------------------------------------------------------
(* Paths. *)

NodeType(n) ==
    CASE n[1] = "x" -> disk.type[n[2]]
      [] n = Console -> IF consdir THEN "dir" ELSE "device"
      [] n = FatFile -> "file"
      [] OTHER -> "dir"

IsDir(n) == NodeType(n) = "dir"

Entry(i, e) == IF disk.ent[i][e] = 0 THEN NoNode ELSE X(disk.ent[i][e])

(* One step of namex: ilock, the tests, dirlookup. *)
NamexStep(n, e) ==
    IF n \in {NoNode, Oops} THEN n
    ELSE IF NodeType(n) = "free" THEN Oops              \* "ilock: no type"
    ELSE IF ~IsDir(n) \/ disk.nlink[n[2]] = 0 THEN NoNode
    ELSE Entry(n[2], e)

Start(p, path) == IF path.abs THEN X(ROOTINO) ELSE cwd[p]

namei(p, path) ==
    LET at[k \in 0..Len(path.el)] ==
          IF k = 0 THEN Start(p, path) ELSE NamexStep(at[k - 1], path.el[k])
    IN at[Len(path.el)]

nameiparent(p, path) ==
    LET dp == namei(p, [path EXCEPT !.el = Front(@)])
    IN IF path.el = <<>> \/ dp = NoNode THEN NoNode
       ELSE IF dp = Oops \/ NodeType(dp) = "free" THEN Oops
       ELSE IF ~IsDir(dp) \/ disk.nlink[dp[2]] = 0 THEN NoNode ELSE dp

fat_lookup(n, e) ==
    CASE n = FatRoot /\ e = "a" -> FatFile
      [] n = FatRoot /\ e = ".." -> FatRoot
      [] OTHER -> NoNode

dev_lookup(n, e) == IF n = DevRoot /\ e = "console" THEN Console ELSE NoNode

(* The inode of a mount point is swapped for the root behind it. *)
Crossed(n) ==
    IF n[1] # "x" THEN n
    ELSE IF fatmnt.inum = n[2] THEN FatRoot
    ELSE IF devmnt = n[2] THEN DevRoot ELSE n

WalkStep(n, e) ==
    IF n \in {NoNode, Oops} THEN n
    ELSE IF fat_is(n) THEN fat_lookup(n, e)
    ELSE IF dev_is(n) THEN dev_lookup(n, e)
    ELSE IF NodeType(n) = "free" THEN Oops              \* "ilock: no type"
    ELSE IF NodeType(n) = "file" THEN NoNode
    ELSE Crossed(Entry(n[2], e))

vfs_walk(p, path) ==
    LET at[k \in 0..Len(path.el)] ==
          IF k = 0 THEN Start(p, path) ELSE WalkStep(at[k - 1], path.el[k])
    IN at[Len(path.el)]

fat_prefix(path) == fatmnt # Unmounted /\ path.abs /\ IsPrefix(fatmnt.el, path.el)
dev_prefix(path) == devmnt # 0 /\ path.abs /\ IsPrefix(<<"dev">>, path.el)

vfs_resolve(p, path) ==
    LET ip == namei(p, path)
        walked == vfs_walk(p, path)
    IN IF fatmnt = Unmounted /\ devmnt = 0 /\ cwd[p][1] = "x" THEN ip
       ELSE IF cwd[p][1] # "x" \/ fat_prefix(path) \/ dev_prefix(path) THEN walked
       ELSE IF ip # NoNode THEN Crossed(ip)
       ELSE IF walked[1] = "x" THEN NoNode ELSE walked

fat_writepath(p, path) ==
    \/ fat_prefix(path) \/ dev_prefix(path)
    \/ ~path.abs /\ cwd[p][1] # "x"

(* create: the inode a path names afterwards and the disk afterwards. *)
create(p, path, type) ==
    LET dp == nameiparent(p, path)
        old == disk.ent[dp[2]][Last(path.el)]
        fail == [ip |-> NoNode, disk |-> disk]
    IN IF dp = NoNode THEN fail
       ELSE IF dp = Oops THEN [fail EXCEPT !.ip = Oops]
       ELSE IF old # 0
       THEN IF type = "file" /\ disk.type[old] = "file"
            THEN [fail EXCEPT !.ip = X(old)] ELSE fail
       ELSE IF \A i \in Inums : disk.type[i] # "free" THEN fail
       ELSE IF type = "dir" /\ FreeBlocks(disk) = {}
       THEN [fail EXCEPT !.ip = Oops]                   \* "create dots"
       ELSE LET d == NewInode(disk, dp[2], Last(path.el), type)
            IN [ip |-> X(d.ent[dp[2]][Last(path.el)]), disk |-> d]

-----------------------------------------------------------------------------
(* kfs_start on a disk: what ireclaim and the check for /dev make of it, and
   the tables every slot gets. *)
SlotNo(p) == Cardinality({q \in Slots : q < p})
BootFile(p, fd) == SlotNo(p) * BOOTFDS + fd
BootFiles == 1..(BOOTFDS * Cardinality(Slots))

Boot(image) ==
    LET d == ireclaim(image)
        dev == d.ent[ROOTINO]["dev"]
        none == \A i \in Inums : d.type[i] # "free"
        full == dev = 0 /\ ~none /\ FreeBlocks(d) = {}
        d1 == IF dev # 0 \/ none \/ full THEN d ELSE NewInode(d, ROOTINO, "dev", "dir")
    IN /\ disk' = d1
       /\ devmnt' = d1.ent[ROOTINO]["dev"]
       /\ stop' = IF full THEN "create dots" ELSE ""
       /\ ft' = [f \in Files |->
                   IF f \in BootFiles
                   THEN [ref |-> 1, type |-> "device", node |-> Console, writable |-> TRUE]
                   ELSE NoFile]
       /\ ofile' = [p \in Slots |-> [fd \in Fds |->
                      IF fd <= BOOTFDS THEN BootFile(p, fd) ELSE 0]]
       /\ cwd' = [p \in Slots |-> X(ROOTINO)]
       /\ ref' = [n \in Node |-> CASE n = X(ROOTINO) -> Cardinality(Slots)
                                   [] n = Console -> Cardinality(BootFiles)
                                   [] OTHER -> 0]
       /\ live' = {Least(Slots)}
       /\ fatmnt' = Unmounted
       /\ consdir' = FALSE
       /\ lostFd' = [f \in Files |-> 0]
       /\ lostCwd' = [n \in Node |-> 0]

(* The build's disk: a root and nothing else. *)
golden ==
    [type |-> [i \in Inums |-> IF i = ROOTINO THEN "dir" ELSE "free"],
     nlink |-> [i \in Inums |-> IF i = ROOTINO THEN 1 ELSE 0],
     ent |-> [i \in Inums |-> [e \in Names |->
                IF i = ROOTINO /\ e = ".." THEN ROOTINO ELSE 0]],
     data |-> [i \in Inums |-> IF i = ROOTINO THEN {1} ELSE {}],
     ind |-> [i \in Inums |-> 0],
     bitmap |-> {1}]

Init ==
    /\ disk = golden
    /\ ft = [f \in Files |-> NoFile]
    /\ ofile = [p \in Slots |-> [fd \in Fds |-> 0]]
    /\ cwd = [p \in Slots |-> NoNode]
    /\ ref = [n \in Node |-> 0]
    /\ live = {}
    /\ fatmnt = Unmounted /\ devmnt = 0 /\ consdir = FALSE
    /\ stop = "off"
    /\ lostFd = [f \in Files |-> 0]
    /\ lostCwd = [n \in Node |-> 0]

-----------------------------------------------------------------------------
(* System calls of process p.  Calls that change nothing are left out, the
   refused ones among them. *)

Runs(p) == stop = "" /\ p \in live

mounts == <<fatmnt, devmnt, consdir>>
tables == <<live, lost, stop>>

(* The tail of kfs_open: a file, a descriptor, and the node in it; or, when
   there is none left, only what create did to the disk. *)
Install(p, n, d, writable, trunc) ==
    LET f == Least(FreeFiles)
        fd == Least(FreeFds(p))
        type == IF NodeType(n) = "device" THEN "device" ELSE "inode"
    IN IF FreeFiles = {} \/ FreeFds(p) = {}
       THEN disk' = d /\ UNCHANGED <<ft, ref, ofile>>
       ELSE /\ Become(Dup([World EXCEPT
                   !.ft[f] = [ref |-> 1, type |-> type, node |-> n, writable |-> writable],
                   !.disk = IF trunc /\ d.type[n[2]] = "file" THEN itrunc(d, n[2]) ELSE d], n))
            /\ ofile' = [ofile EXCEPT ![p][fd] = f]

(* kfs_open: w is O_WRONLY or O_RDWR, t is O_TRUNC; neither is O_RDONLY. *)
OpenCreate(p, path, w, t) ==
    LET c == create(p, path, "file")
    IN /\ Runs(p) /\ ~fat_writepath(p, path)
       /\ c.ip \notin {NoNode, Oops}
       /\ Install(p, c.ip, c.disk, w, t)
       /\ UNCHANGED <<cwd, mounts, tables>>

Open(p, path, w, t) ==
    LET n == vfs_resolve(p, path)
    IN /\ Runs(p)
       /\ w \/ t => ~fat_writepath(p, path)
       /\ n \notin {NoNode, Oops} /\ NodeType(n) # "free"
       /\ n[1] = "x" /\ (w \/ t) => ~IsDir(n)
       /\ Install(p, n, disk, w /\ (n[1] = "x" \/ NodeType(n) = "device"), t /\ n[1] = "x")
       /\ UNCHANGED <<cwd, mounts, tables>>

Mkdir(p, path) ==
    LET c == create(p, path, "dir")
    IN /\ Runs(p) /\ ~fat_writepath(p, path)
       /\ c.ip \notin {NoNode, Oops}
       /\ disk' = c.disk
       /\ UNCHANGED <<ft, ref, ofile, cwd, mounts, tables>>

Close(p, fd) ==
    /\ Runs(p) /\ ofile[p][fd] # 0
    /\ ofile' = [ofile EXCEPT ![p][fd] = 0]
    /\ Become(fileclose(World, ofile[p][fd]))
    /\ UNCHANGED <<cwd, mounts, tables>>

DupFd(p, fd) ==
    /\ Runs(p) /\ ofile[p][fd] # 0 /\ FreeFds(p) # {}
    /\ ofile' = [ofile EXCEPT ![p][Least(FreeFds(p))] = ofile[p][fd]]
    /\ ft' = [ft EXCEPT ![ofile[p][fd]].ref = @ + 1]
    /\ UNCHANGED <<disk, ref, cwd, mounts, tables>>

(* filewrite at the end of the file. *)
Write(p, fd) ==
    LET f == ft[ofile[p][fd]]
        i == f.node[2]
    IN /\ Runs(p) /\ ofile[p][fd] # 0
       /\ f.type = "inode" /\ f.writable
       /\ Cardinality(disk.data[i]) < NDIRECT + NINDIRECT
       /\ disk' = bmap(disk, i)
       /\ UNCHANGED <<ft, ref, ofile, cwd, mounts, tables>>

(* kfs_link: the count goes up first, and down again if dirlink fails. *)
Link(p, old, new) ==
    LET ip == namei(p, old)
        dp == nameiparent(p, new)
        name == Last(new.el)
    IN /\ Runs(p) /\ ~fat_writepath(p, old) /\ ~fat_writepath(p, new)
       /\ ip[1] = "x" /\ dp[1] = "x"
       /\ NodeType(ip) = "file"
       /\ disk.ent[dp[2]][name] = 0
       /\ disk' = [disk EXCEPT !.nlink[ip[2]] = @ + 1, !.ent[dp[2]][name] = ip[2]]
       /\ UNCHANGED <<ft, ref, ofile, cwd, mounts, tables>>

(* The last link of an inode nobody has open goes, and the inode with it. *)
Unlinked(d, dp, name, i) ==
    LET d1 == [d EXCEPT !.ent[dp][name] = 0, !.nlink[i] = @ - 1]
    IN IF d.type[i] = "dir" THEN [d1 EXCEPT !.nlink[dp] = @ - 1] ELSE d1

Unlink(p, path) ==
    LET dp == nameiparent(p, path)
        name == Last(path.el)
        n == Entry(dp[2], name)
    IN /\ Runs(p) /\ ~fat_writepath(p, path)
       /\ dp[1] = "x" /\ name # ".." /\ n # NoNode
       /\ IsDir(n) => isdirempty(disk, n[2])
       /\ Become(vfs_iput(Dup([World EXCEPT !.disk = Unlinked(disk, dp[2], name, n[2])], n), n))
       /\ UNCHANGED <<ofile, cwd, mounts, tables>>

(* kfs_chdir.  A devfs node goes through ilock, which fills it from the
   dinode of its number: the console's becomes a copy of the root. *)
Chdir(p, path) ==
    LET n == vfs_resolve(p, path)
    IN /\ Runs(p)
       /\ n \in Node \ {DevRoot}
       /\ IsDir(n) \/ n = Console
       /\ consdir' = (consdir \/ n = Console)
       /\ Become(vfs_iput(Dup(World, n), cwd[p]))
       /\ cwd' = [cwd EXCEPT ![p] = n]
       /\ UNCHANGED <<ofile, fatmnt, devmnt, tables>>

(* kfs_mount of a volume that is in order.  A relative mount point has to be
   the one of its absolute form. *)
Mount(p, path) ==
    LET absolute == [path EXCEPT !.abs = TRUE]
        n == namei(p, absolute)
    IN /\ Runs(p)
       /\ fatmnt = Unmounted /\ path.el # <<>>
       /\ path.abs \/ (cwd[p][1] = "x" /\ namei(p, path) = n)
       /\ n[1] = "x" /\ IsDir(n)
       /\ fatmnt' = [el |-> path.el, inum |-> n[2]]
       /\ ref' = [m \in Node |-> IF fat_is(m) THEN 0 ELSE ref[m]]
       /\ UNCHANGED <<disk, ft, ofile, cwd, devmnt, consdir, tables>>

Mut_fat_busy == \E f \in Files : fat_is(ft[f].node)      \* a cwd is forgotten
fat_busy == \E n \in Node : fat_is(n) /\ ref[n] > 0

Umount(p, path) ==
    /\ Runs(p)
    /\ fatmnt # Unmounted /\ path.el = fatmnt.el
    /\ ~fat_busy
    /\ fatmnt' = Unmounted
    /\ UNCHANGED <<disk, ft, ref, ofile, cwd, devmnt, consdir, tables>>

(* kfs_forkcopy into the first free slot, whatever its table holds. *)
Fork(p) ==
    LET c == Least(Slots \ live)
        Uses(q, f) == Cardinality({fd \in Fds : ofile[q][fd] = f})
    IN /\ Runs(p) /\ live # Slots
       /\ live' = live \cup {c}
       /\ ofile' = [ofile EXCEPT ![c] = ofile[p]]
       /\ ft' = [f \in Files |-> [ft[f] EXCEPT !.ref = @ + Uses(p, f)]]
       /\ cwd' = [cwd EXCEPT ![c] = cwd[p]]
       /\ ref' = [ref EXCEPT ![cwd[p]] = @ + 1]
       /\ lostFd' = [f \in Files |-> lostFd[f] + Uses(c, f)]
       /\ lostCwd' = [n \in Node |-> lostCwd[n] + IF cwd[c] = n THEN 1 ELSE 0]
       /\ UNCHANGED <<disk, mounts, stop>>

(* kfs_exit closes the descriptors one by one and puts the current directory. *)
CloseAll(p) ==
    LET done[fd \in 0..NOFILE] ==
          IF fd = 0 THEN World
          ELSE IF ofile[p][fd] = 0 THEN done[fd - 1]
          ELSE fileclose(done[fd - 1], ofile[p][fd])
    IN done[NOFILE]

Mut_kfs_exit(p) == CloseAll(p)                     \* the cwd is not put
kfs_exit(p) == vfs_iput(CloseAll(p), cwd[p])

Mut_Exit(p) ==                                     \* kfs_exit is not called
    /\ Runs(p)
    /\ live' = live \ {p}
    /\ UNCHANGED <<disk, ft, ref, ofile, cwd, mounts, lost, stop>>
Exit(p) ==
    /\ Runs(p)
    /\ live' = live \ {p}
    /\ ofile' = [ofile EXCEPT ![p] = [fd \in Fds |-> 0]]
    /\ cwd' = [cwd EXCEPT ![p] = NoNode]
    /\ Become(kfs_exit(p))
    /\ UNCHANGED <<mounts, lost, stop>>

(* Calls the kernel does not come back from. *)
Panics(p, path) ==
    LET made == create(p, path, "dir")
    IN /\ Runs(p)
       /\ \/ /\ ~fat_writepath(p, path) /\ made.ip = Oops /\ nameiparent(p, path) # Oops
             /\ stop' = "create dots"
          \/ /\ \/ vfs_resolve(p, path) \in {Oops, DevRoot}      \* kfs_chdir
                \/ ~fat_writepath(p, path) /\ nameiparent(p, path) = Oops
             /\ stop' = "ilock: no type"
       /\ UNCHANGED <<disk, ft, ofile, cwd, ref, live, mounts, lost>>

(* SYS_sync and a power cycle: the next boot finds the disk of the sync, all
   of it or nothing (KFlash).  What was done between the two is lost, so the
   boots reached are those of a power cycle right after the sync; a call that
   panics leaves the disk of before here, for it is never synced. *)
Reboot == Boot(disk)

Next ==
    \/ \E p \in Slots, path \in Paths :
          \/ \E w, t \in BOOLEAN : OpenCreate(p, path, w, t) \/ Open(p, path, w, t)
          \/ Mkdir(p, path) \/ Unlink(p, path) \/ Chdir(p, path)
          \/ Mount(p, path) \/ Umount(p, path) \/ Panics(p, path)
          \/ \E new \in Paths : Link(p, path, new)
    \/ \E p \in Slots, fd \in Fds : Close(p, fd) \/ DupFd(p, fd) \/ Write(p, fd)
    \/ \E p \in Slots : Fork(p) \/ Exit(p)
    \/ Reboot

Spec == Init /\ [][Next]_vars

-----------------------------------------------------------------------------
(* Every descriptor, current directory and directory entry that points at
   something is counted there once. *)

Users(f) == Cardinality({q \in Slots \X Fds : ofile[q[1]][q[2]] = f})

(* The reference counts of files and nodes are exact, except for what a fork
   into a slot overwrote: so an inode is freed and a volume unmounted exactly
   when nobody uses it. *)
RefsExact ==
    stop = "" =>
        /\ \A f \in Files : ft[f].ref = Users(f) + lostFd[f]
        /\ \A n \in Node :
              ref[n] = Cardinality({f \in Files : ft[f].node = n})
                       + Cardinality({p \in Slots : cwd[p] = n}) + lostCwd[n]

(* Links to i: entries, the ".." of linked subdirectories, and the root's
   own. *)
LinksTo(d, i) ==
    Cardinality({q \in Inums \X (Names \ {".."}) :
                    d.type[q[1]] = "dir" /\ d.ent[q[1]][q[2]] = i})
    + Cardinality({j \in Inums \ {ROOTINO} :
                    d.type[j] = "dir" /\ d.nlink[j] > 0 /\ d.ent[j][".."] = i})
    + IF i = ROOTINO THEN 1 ELSE 0

LinksExact(d) ==
    \A i \in Inums : d.type[i] # "free" => d.nlink[i] = LinksTo(d, i)

(* Every allocated block belongs to exactly one inode. *)
BlocksExact(d) ==
    /\ d.bitmap = UNION {Held(d, i) : i \in Inums}
    /\ \A i, j \in Inums : i # j => Held(d, i) \cap Held(d, j) = {}
    /\ \A i \in Inums : d.ind[i] \notin d.data[i]
                        /\ (d.type[i] = "free" => Held(d, i) = {})

(* An inode without links is one that somebody still has open: nothing else
   is leaked, in particular not by an unlink, a sync and a power failure. *)
OrphanHeld ==
    stop = "" => \A i \in Inums :
        disk.type[i] # "free" /\ disk.nlink[i] = 0 => ref[X(i)] > 0

DiskInv == TypeOK /\ LinksExact(disk) /\ BlocksExact(disk) /\ OrphanHeld

(* What a fork overwrites is a table of kfs_start that no process has used:
   the loss is bounded by the slots. *)
OnlyBootTablesLost ==
    /\ \A f \in Files : lostFd[f] > 0 => f \in BootFiles /\ lostFd[f] <= 1
    /\ \A n \in Node : lostCwd[n] > 0 => n = X(ROOTINO) /\ lostCwd[n] < Cardinality(Slots)

(* A volume is mounted as long as anybody is in it. *)
NobodyStranded ==
    fatmnt = Unmounted =>
        /\ \A f \in Files : ~fat_is(ft[f].node)
        /\ \A p \in Slots : ~fat_is(cwd[p])

(* "the plain-fs corners (a deleted cwd's dangling '..') behave exactly as
   upstream": no path the file system itself resolves makes ilock panic. *)
NoDanglingWalk ==
    stop = "" => \A p \in live, path \in Paths : vfs_resolve(p, path) # Oops
=============================================================================
