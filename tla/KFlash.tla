------------------------------- MODULE KFlash -------------------------------
(***************************************************************************)
(* Persistence of the RAM disk in the flash slot: kflash_sync and          *)
(* kflash_slot_gen of target/xv6/dma/kflash.c, the dirty map that          *)
(* log_write keeps (kbio.c), and the staging of the disk at boot           *)
(* (target/firmware/main.c).  The power can fail between any two flash     *)
(* operations and in the middle of one.                                    *)
(*                                                                         *)
(* A sector's content is one value; a sector that is erased or half        *)
(* programmed is Torn.  The word-sum checksum is represented by the image  *)
(* it was computed from, so two different images never collide.            *)
(***************************************************************************)
EXTENDS Naturals

CONSTANTS
    NSECT,      \* dma_disksize / FLASH_SECTOR
    Vals,       \* contents of a sector
    golden,     \* the build's disk image
    Torn,       \* neither erased nor programmed reliably
    None,       \* no image
    MaxGen,     \* bound: generations
    TornSum     \* TRUE: an interrupted write of the header page can leave
                \* magic, length and goldsum readable and the checksum not

Sectors == 1..NSECT
Image == [Sectors -> Vals]

ASSUME KFlashAssumption ==
    /\ NSECT \in Nat \ {0}
    /\ golden \in Image
    /\ Torn \notin Vals
    /\ None \notin Image
    /\ MaxGen \in Nat
    /\ TornSum \in BOOLEAN

VARIABLES
    ram,        \* the RAM disk
    fs_dirty,   \* the sectors log_write has seen since the last sync
    fs_gen,     \* generation last seen or written
    flash,      \* the slot's image sectors
    hdr,        \* the slot's header: ok (magic, length and goldsum match),
                \* generation and checksum
    pc,         \* "run", "off", or the flash operation sync is in
    todo,       \* sectors the sync in progress still has to write
    promise,    \* the image the last sync returned 0 for, until the next
                \* sync begins (history)
    may         \* what a boot may come up with (history)

slot == <<flash, hdr>>
vars == <<ram, fs_dirty, fs_gen, flash, hdr, pc, todo, promise, may>>

Header == [ok : BOOLEAN, gen : 0..MaxGen, sum : Image \cup {None}]
Erased == [ok |-> FALSE, gen |-> 0, sum |-> None]

TypeOK ==
    /\ ram \in Image
    /\ fs_dirty \subseteq Sectors
    /\ fs_gen \in 0..MaxGen
    /\ flash \in [Sectors -> Vals \cup {Torn}]
    /\ hdr \in Header
    /\ pc \in {"run", "off", "hdrErase", "sector", "prog", "hdrProg"}
    /\ todo \subseteq Sectors
    /\ promise \in Image \cup {None}
    /\ may \subseteq Image

(* What the firmware stages: the slot's image if header and checksum are
   right, else the golden one. *)
Staged == IF hdr.ok /\ hdr.sum = flash THEN flash ELSE golden

(* kflash_slot_gen: what the kernel reads of the same header. *)
kflash_slot_gen == IF hdr.ok THEN hdr.gen ELSE 0

(* A fresh board, or one that ran another build, before its first boot. *)
Init ==
    /\ ram = golden
    /\ fs_dirty = {}
    /\ fs_gen = 0
    /\ flash = [i \in Sectors |-> Torn]
    /\ hdr = Erased
    /\ pc = "run"
    /\ todo = {}
    /\ promise = None
    /\ may = {golden}

-----------------------------------------------------------------------------
(* The file layer modifies a block: log_write. *)
Mut_LogWrite(i) == fs_dirty                       \* a write without log_write
LogWrite(i) == fs_dirty \cup {i}

Write(i, v) ==
    /\ pc = "run"
    /\ ram' = [ram EXCEPT ![i] = v]
    /\ fs_dirty' = LogWrite(i)
    /\ UNCHANGED <<fs_gen, slot, pc, todo, promise, may>>

(* kflash_sync: every sector when the slot does not hold the generation we
   know, else the dirty ones. *)
Full == kflash_slot_gen # fs_gen \/ fs_gen = 0

SyncNothing ==
    /\ pc = "run"
    /\ ~Full /\ fs_dirty = {}
    /\ promise' = ram
    /\ UNCHANGED <<ram, fs_dirty, fs_gen, slot, pc, todo, may>>

(* flash_erase4k(base) begins: "Invalidate first". *)
Mut_SyncStart == "sector"                         \* the old header stays
SyncStart == "hdrErase"

SyncBegin ==
    /\ pc = "run" /\ fs_gen < MaxGen
    /\ Full \/ fs_dirty # {}
    /\ todo' = IF Full THEN Sectors ELSE fs_dirty
    /\ pc' = SyncStart
    /\ promise' = None
    /\ may' = {golden, Staged, ram}
    /\ UNCHANGED <<ram, fs_dirty, fs_gen, slot>>

HdrErased ==
    /\ pc = "hdrErase"
    /\ hdr' = Erased
    /\ pc' = "sector"
    /\ UNCHANGED <<ram, fs_dirty, fs_gen, flash, todo, promise, may>>

(* flash_write_sector, in ascending order: erase, then program. *)
IsNext(i) == i \in todo /\ \A j \in todo : i <= j

SectorErase(i) ==
    /\ pc = "sector" /\ IsNext(i)
    /\ flash' = [flash EXCEPT ![i] = Torn]
    /\ pc' = "prog"
    /\ UNCHANGED <<ram, fs_dirty, fs_gen, hdr, todo, promise, may>>

SectorProg(i) ==
    /\ pc = "prog" /\ IsNext(i)
    /\ flash' = [flash EXCEPT ![i] = ram[i]]
    /\ todo' = todo \ {i}
    /\ pc' = "sector"
    /\ UNCHANGED <<ram, fs_dirty, fs_gen, hdr, promise, may>>

(* flash_prog_page(base, hdr): the header last. *)
HdrBegin ==
    /\ pc = "sector" /\ todo = {}
    /\ pc' = "hdrProg"
    /\ UNCHANGED <<ram, fs_dirty, fs_gen, slot, todo, promise, may>>

NewHeader == [ok |-> TRUE, gen |-> fs_gen + 1, sum |-> ram]

HdrDone ==
    /\ pc = "hdrProg"
    /\ hdr' = NewHeader
    /\ fs_gen' = fs_gen + 1
    /\ fs_dirty' = {}
    /\ pc' = "run"
    /\ promise' = ram
    /\ UNCHANGED <<ram, flash, todo, may>>

(* The power fails.  An interrupted erase or program of the header page
   leaves any of its words as it was, as it should be or in between; the
   generation is not covered by any check. *)
Remains(h) ==
    {Erased} \cup
    {[ok |-> TRUE, gen |-> g, sum |-> s] :
        g \in 0..MaxGen, s \in {h.sum} \cup (IF TornSum THEN {None} ELSE {})}

PowerFails ==
    /\ pc # "off"
    /\ \/ pc = "hdrErase" /\ hdr.ok /\ hdr' \in Remains(hdr)
       \/ pc = "hdrProg" /\ hdr' \in Remains(NewHeader)
       \/ ~(pc = "hdrErase" /\ hdr.ok) /\ pc # "hdrProg" /\ UNCHANGED hdr
    /\ pc' = "off"
    /\ todo' = {}
    /\ UNCHANGED <<ram, fs_dirty, fs_gen, flash, promise, may>>

(* The firmware stages the disk; kflash_init. *)
Boot ==
    /\ pc = "off"
    /\ ram' = Staged
    /\ fs_dirty' = {}
    /\ fs_gen' = kflash_slot_gen
    /\ pc' = "run"
    /\ UNCHANGED <<slot, todo, promise, may>>

Next ==
    \/ \E i \in Sectors, v \in Vals : Write(i, v)
    \/ SyncNothing \/ SyncBegin \/ HdrErased
    \/ \E i \in Sectors : SectorErase(i) \/ SectorProg(i)
    \/ HdrBegin \/ HdrDone \/ PowerFails \/ Boot

Spec == Init /\ [][Next]_vars

-----------------------------------------------------------------------------
(* sync() returned 0: whenever the power fails after that, the next boot
   comes up with exactly the disk of that moment. *)
Durable == promise # None => Staged = promise

(* A torn sync never shows: a boot comes up with the golden disk, with what
   the slot held before, or with what was being written, never a mixture. *)
AllOrNothing == Staged \in may

(* An incremental sync is enough: while the kernel trusts the slot, a sector
   whose dirty bit is clear is the same in the slot and in the RAM disk. *)
CleanIsSynced ==
    pc = "run" /\ fs_gen # 0 /\ ~Full =>
        \A i \in Sectors \ fs_dirty : flash[i] = ram[i]

(* The type of the disk and of the slot, and what the dirty map leaves out. *)
FlashInv == TypeOK /\ CleanIsSynced

(* The slot and the RAM disk as the users of sync() see them. *)
Phase == IF pc = "run" THEN "on" ELSE IF pc = "off" THEN "off" ELSE "syncing"

Safe == INSTANCE SafeDisk WITH
    DiskImage <- Image,
    factory <- golden,
    Nothing <- None,
    work <- ram,
    stable <- Staged,
    phase <- Phase,
    acked <- promise

(* kflash_sync, the firmware's staging and kflash_slot_gen together implement
   a disk that loses only whole syncs: what the next boot finds changes only
   inside kflash_sync, from the old image to the golden one and to the new
   one, never back and never to a mixture, and is the new one when it
   returns. *)
IsSafeDisk == Safe!DiskSpec
=============================================================================
