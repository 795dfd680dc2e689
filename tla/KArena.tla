------------------------------- MODULE KArena -------------------------------
(***************************************************************************)
(* The arena: the one region that exec images, argument areas and heap     *)
(* chunks of every process are carved from, in units of 256 bytes.         *)
(*                                                                         *)
(* kalloc takes the lowest free block that fits, kalloc_top the top of the *)
(* highest one, kfree merges a block with its free neighbours.  A block    *)
(* begins with a header unit that holds its size.  The free list is kept   *)
(* in address order by kfree's walk and by splitting in place, so it is a  *)
(* set of blocks here.  A pointer to a block is the block; 0 is Null.      *)
(*                                                                         *)
(* Who shares an image with whom is module KProc's matter: a slot here is  *)
(* what it owns, its rows of execmem and heapmem.                          *)
(***************************************************************************)
EXTENDS Integers, FiniteSets, FiniteSetsExt

CONSTANTS
    Slots,      \* process slots
    Units,      \* size of [arena, arena_end)
    Images,     \* programs: [text, data, home], in units; see SYS_exec
    HEAPCHUNK,  \* the size a first sbrk asks for
    Asks        \* what programs ask of a first sbrk

ASSUME KArenaAssumption ==
    /\ Units \in Nat \ {0}
    /\ Images \subseteq [text : Nat \ {0}, data : Nat \ {0}, home : Nat]
    /\ HEAPCHUNK \in Nat
    /\ Asks \subseteq Nat

VARIABLES
    free,       \* kfreelist
    mem         \* mem[s]: execmem[s] (text, data, argv) and heapmem[s]

vars == <<free, mem>>

Block == [at : 0..(Units - 1), size : 1..Units]
Null == [at |-> 0, size |-> 0]
Owned == [text : Block \cup {Null}, data : Block \cup {Null},
          argv : Block \cup {Null}, heap : Block \cup {Null}]
Nothing == [text |-> Null, data |-> Null, argv |-> Null, heap |-> Null]

End(b) == b.at + b.size
Extent(b) == b.at .. (End(b) - 1)
Payload(b) == (b.at + 1) .. (End(b) - 1)

TypeOK ==
    /\ free \subseteq Block
    /\ mem \in [Slots -> Owned]

Init ==
    /\ free = {[at |-> 0, size |-> Units]}
    /\ mem = [s \in Slots |-> Nothing]

-----------------------------------------------------------------------------
(* The allocator.  n counts payload units; the header burns one more. *)

Fitting(f, n) == {b \in f : b.size >= n + 1}
Splits(b, n) == b.size - (n + 1) >= 2

kalloc(f, n) ==
    IF Fitting(f, n) = {} THEN [free |-> f, got |-> Null]
    ELSE LET h == CHOOSE b \in Fitting(f, n) : \A c \in Fitting(f, n) : b.at <= c.at
             rest == [at |-> h.at + n + 1, size |-> h.size - (n + 1)]
         IN  IF Splits(h, n)
             THEN [free |-> (f \ {h}) \cup {rest}, got |-> [h EXCEPT !.size = n + 1]]
             ELSE [free |-> f \ {h}, got |-> h]

Mut_ShrunkBy(h, n) == [h EXCEPT !.size = @ - n]
ShrunkBy(h, n) == [h EXCEPT !.size = @ - (n + 1)]

kalloc_top(f, n) ==
    IF Fitting(f, n) = {} THEN [free |-> f, got |-> Null]
    ELSE LET h == CHOOSE b \in Fitting(f, n) : \A c \in Fitting(f, n) : b.at >= c.at
         IN  IF Splits(h, n)
             THEN [free |-> (f \ {h}) \cup {ShrunkBy(h, n)},
                   got |-> [at |-> End(h) - (n + 1), size |-> n + 1]]
             ELSE [free |-> f \ {h}, got |-> h]

Mut_Neighbours(f, h) == {b \in f : b.at = End(h)}
(* The free blocks that touch h, above and below. *)
Neighbours(f, h) == {b \in f : b.at = End(h) \/ End(b) = h.at}

kfree(f, h) ==
    IF h = Null THEN f
    ELSE LET all == Neighbours(f, h) \cup {h}
             at == Min({b.at : b \in all})
         IN  (f \ all) \cup {[at |-> at, size |-> Max({End(b) : b \in all}) - at]}

kfree_exec(f, m) == kfree(kfree(kfree(kfree(f, m.text), m.data), m.argv), m.heap)

-----------------------------------------------------------------------------
(* SYS_exec.  Text and data of a relocatable image are claimed one after the
   other, the second also when the first has failed.  An image linked to a
   fixed home keeps its text in flash; its RAM-resident text and its data are
   one claim and must get exactly that place. *)
Claim(f, im) ==
    IF im.home # 0
    THEN LET d == kalloc(f, im.text + im.data)
         IN  [free |-> d.free, text |-> Null, data |-> d.got]
    ELSE LET t == kalloc(f, im.text)
             d == kalloc(t.free, im.data)
         IN  [free |-> d.free, text |-> t.got, data |-> d.got]

Placed(c, im) ==
    /\ c.data # Null
    /\ IF im.home # 0 THEN c.data.at + 1 = im.home ELSE c.text # Null

(* The failure paths give back what was claimed; the read of the file may also
   fail after both claims succeeded. *)
Mut_GiveBack(c) == kfree(c.free, c.data)
GiveBack(c) == kfree(kfree(c.free, c.text), c.data)

ExecRefused(im, readOk) ==
    LET c == Claim(free, im) IN
    /\ ~(Placed(c, im) /\ readOk)
    /\ free' = GiveBack(c)
    /\ UNCHANGED mem

(* The old image and heap go back first, then the argument area is taken. *)
Exec(s, im, args) ==
    LET c == Claim(free, im)
        f == kfree_exec(c.free, mem[s])
        a == IF args THEN kalloc(f, 1) ELSE [free |-> f, got |-> Null]
    IN
    /\ Placed(c, im)
    /\ free' = a.free
    /\ mem' = [mem EXCEPT ![s] = [text |-> c.text, data |-> c.data, argv |-> a.got,
                                  heap |-> Null]]

(* ksbrk: the first call asks for HEAPCHUNK and halves down to what was asked. *)
Halvings == {n \in 0..HEAPCHUNK : \E k \in 0..HEAPCHUNK : n = (HEAPCHUNK + 2^k - 1) \div 2^k}
Tried(want) == {want} \cup {h \in Halvings : h > want}

Sbrk(s, want) ==
    LET fits == {n \in Tried(want) : Fitting(free, n) # {}}
        c == kalloc_top(free, Max(fits))
    IN
    /\ mem[s].heap = Null
    /\ fits # {}
    /\ free' = c.free
    /\ mem' = [mem EXCEPT ![s].heap = c.got]

(* terminate, which calls kfree_exec. *)
Exit(s) ==
    /\ free' = kfree_exec(free, mem[s])
    /\ mem' = [mem EXCEPT ![s] = Nothing]

Next ==
    \/ \E im \in Images, readOk \in BOOLEAN : ExecRefused(im, readOk)
    \/ \E s \in Slots, im \in Images, args \in BOOLEAN : Exec(s, im, args)
    \/ \E s \in Slots, want \in Asks : Sbrk(s, want)
    \/ \E s \in Slots : Exit(s)

Spec == Init /\ [][Next]_vars

-----------------------------------------------------------------------------
Fields == {"text", "data", "argv", "heap"}
Owners(u) == {o \in Slots \X Fields : u \in Extent(mem[o[1]][o[2]])}
FreeAt(u) == {b \in free : u \in Extent(b)}

(* Every unit is free or has one owner that will free it: none is handed out
   twice and none is lost, by any sequence of execs, refused execs, heap
   requests and exits, so spawn sessions do not exhaust the arena. *)
Partition ==
    \A u \in 0..(Units - 1) : Cardinality(Owners(u)) + Cardinality(FreeAt(u)) = 1

(* First fit with coalescing: no two free blocks touch, so a request fails only
   when no contiguous stretch of free units is long enough. *)
Coalesced ==
    \A b, c \in free : End(b) # c.at

(* The type of the blocks, none of them empty, their owners, and merging. *)
ArenaInv == TypeOK /\ Partition /\ Coalesced

(* An exec that fails leaves the arena exactly as it found it: the claims it
   gives back merge into the blocks they were split from. *)
RefusalIsClean ==
    [][\A im \in Images, readOk \in BOOLEAN :
           ExecRefused(im, readOk) => UNCHANGED free]_vars

(* SYS_exec's comment "copy the caller's vector + strings into a fresh area":
   the area does not lie over the data of the image that makes the call, from
   which the vector and the strings are still being read.  It is not true of
   the code: the README shows how relocatable programs break it. *)
ArgvIsFresh ==
    [][\A s \in Slots :
           mem'[s].data # mem[s].data =>
               Extent(mem'[s].argv) \cap Payload(mem[s].data) = {}]_vars
=============================================================================
