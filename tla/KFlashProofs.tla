---------------------------- MODULE KFlashProofs ----------------------------
(***************************************************************************)
(* Theorems about KFlash for every number of sectors, every content and    *)
(* every golden image, for headers whose checksum word is not torn alone   *)
(* (~TornSum; the README shows what happens otherwise).                    *)
(*                                                                         *)
(* The argument: a header that reads as valid vouches for the whole image  *)
(* (Vouches), it is gone while sectors change (Invalidated), the kernel    *)
(* knows the generation it carries (GenKnown), the sectors that need no    *)
(* writing already agree with the RAM disk (Agree), and the history        *)
(* variables say what they should while a sync is in progress (Pending).   *)
(***************************************************************************)
EXTENDS KFlash, TLAPS

Syncing == {"hdrErase", "sector", "prog", "hdrProg"}

Vouches == hdr.ok => hdr.sum = flash /\ flash \in Image
Invalidated == pc \in {"sector", "prog", "hdrProg"} => ~hdr.ok
GenKnown == pc \in {"run", "hdrErase"} => fs_gen = kflash_slot_gen
Agree ==
    /\ pc = "run" /\ hdr.ok => \A i \in Sectors \ fs_dirty : flash[i] = ram[i]
    /\ pc \in Syncing => \A i \in Sectors \ todo : flash[i] = ram[i]
    /\ pc = "hdrProg" => todo = {}
Pending ==
    /\ golden \in may
    /\ pc \in Syncing => promise = None /\ ram \in may /\ fs_gen < MaxGen

IInv == TypeOK /\ Vouches /\ Invalidated /\ GenKnown /\ Agree /\ Pending
             /\ Durable /\ AllOrNothing

(* Two images that agree everywhere are the same. *)
LEMMA SameImage ==
    ASSUME NEW f \in [Sectors -> Vals \cup {Torn}], NEW g \in Image,
           \A i \in Sectors : f[i] = g[i]
    PROVE  f = g /\ f \in Image
  BY DEF Image

(* What a boot stages is an image. *)
LEMMA StagedIsImage ==
    ASSUME TypeOK, Vouches
    PROVE  Staged \in Image
  BY KFlashAssumption DEF TypeOK, Vouches, Staged

LEMMA InitInv == Init => IInv
  <1> SUFFICES ASSUME Init PROVE IInv
    OBVIOUS
  <1>1. golden \in Image /\ golden # None
    BY KFlashAssumption
  <1>2. Staged = golden /\ kflash_slot_gen = 0 /\ ~hdr.ok
    BY DEF Init, Erased, Staged, kflash_slot_gen
  <1>3. TypeOK
    BY <1>1, KFlashAssumption DEF Init, TypeOK, Header, Erased
  <1>4. Vouches /\ Invalidated /\ GenKnown /\ Agree /\ Pending
    BY <1>2 DEF Init, Vouches, Invalidated, GenKnown, Agree, Pending, Syncing
  <1>5. Durable /\ AllOrNothing
    BY <1>2 DEF Init, Durable, AllOrNothing
  <1> QED BY <1>3, <1>4, <1>5 DEF IInv

(* Nothing that a property looks at depends on more than flash and hdr. *)
LEMMA SlotUnchanged ==
    ASSUME UNCHANGED slot
    PROVE  Staged' = Staged /\ kflash_slot_gen' = kflash_slot_gen /\ hdr'.ok = hdr.ok
  BY DEF slot, Staged, kflash_slot_gen

LEMMA StepWrite ==
    ASSUME IInv, NEW i \in Sectors, NEW v \in Vals, Write(i, v)
    PROVE  IInv'
  <1> USE DEF Write, LogWrite
  <1>1. Staged' = Staged /\ kflash_slot_gen' = kflash_slot_gen /\ hdr'.ok = hdr.ok
    BY SlotUnchanged
  <1>2. TypeOK'
    BY DEF IInv, TypeOK, slot, Image
  <1>3. Vouches' /\ Invalidated' /\ GenKnown' /\ Pending'
    BY <1>1 DEF IInv, Vouches, Invalidated, GenKnown, Pending, Syncing, slot
  <1>4. Agree'
    BY <1>1 DEF IInv, Agree, Syncing, slot, TypeOK, Image
  <1>5. Durable' /\ AllOrNothing'
    BY <1>1 DEF IInv, Durable, AllOrNothing
  <1> QED BY <1>2, <1>3, <1>4, <1>5 DEF IInv

(* A sync with nothing to do: the slot holds the RAM disk already. *)
LEMMA StepSyncNothing ==
    ASSUME IInv, SyncNothing
    PROVE  IInv'
  <1> USE DEF SyncNothing
  <1>1. Staged' = Staged /\ kflash_slot_gen' = kflash_slot_gen /\ hdr'.ok = hdr.ok
    BY SlotUnchanged
  <1>2. hdr.ok
    BY DEF IInv, Full, kflash_slot_gen
  <1>3. \A i \in Sectors : flash[i] = ram[i]
    BY <1>2 DEF IInv, Agree
  <1>4. flash = ram
    BY <1>3, SameImage DEF IInv, TypeOK
  <1>5. Staged = ram
    BY <1>2, <1>4 DEF IInv, Vouches, Staged
  <1>6. TypeOK' /\ Vouches' /\ Invalidated' /\ GenKnown' /\ Agree'
    BY <1>1 DEF IInv, TypeOK, Vouches, Invalidated, GenKnown, Agree, Syncing, slot
  <1>7. Pending' /\ Durable' /\ AllOrNothing'
    BY <1>1, <1>5 DEF IInv, Pending, Durable, AllOrNothing, Syncing
  <1> QED BY <1>6, <1>7 DEF IInv

(* A sync begins: the sectors it leaves out agree already. *)
LEMMA StepSyncBegin ==
    ASSUME IInv, SyncBegin
    PROVE  IInv'
  <1> USE DEF SyncBegin, SyncStart
  <1>1. Staged' = Staged /\ kflash_slot_gen' = kflash_slot_gen /\ hdr'.ok = hdr.ok
    BY SlotUnchanged
  <1>2. Staged \in Image /\ golden \in Image
    BY StagedIsImage, KFlashAssumption DEF IInv
  <1>3. TypeOK'
    BY <1>2 DEF IInv, TypeOK, slot
  <1>4. Vouches' /\ Invalidated' /\ GenKnown'
    BY <1>1 DEF IInv, Vouches, Invalidated, GenKnown, slot
  <1>5. ~Full => hdr.ok
    BY DEF IInv, Full, kflash_slot_gen
  <1>6. \A i \in Sectors \ todo' : flash[i] = ram[i]
    BY <1>5 DEF IInv, Agree
  <1>7. Agree'
    BY <1>6 DEF Agree, Syncing, slot
  <1>8. Pending' /\ Durable' /\ AllOrNothing'
    BY <1>1 DEF Pending, Durable, AllOrNothing
  <1> QED BY <1>3, <1>4, <1>7, <1>8 DEF IInv

(* The header is gone; a boot would now come up with the golden disk. *)
LEMMA StepHdrErased ==
    ASSUME IInv, HdrErased
    PROVE  IInv'
  <1> USE DEF HdrErased
  <1>1. Staged' = golden /\ ~hdr'.ok
    BY DEF Erased, Staged
  <1>2. TypeOK'
    BY KFlashAssumption DEF IInv, TypeOK, Header, Erased
  <1>3. Vouches' /\ Invalidated' /\ GenKnown' /\ Agree'
    BY <1>1 DEF IInv, Vouches, Invalidated, GenKnown, Agree, Syncing
  <1>4. Pending' /\ Durable' /\ AllOrNothing'
    BY <1>1 DEF IInv, Pending, Durable, AllOrNothing, Syncing
  <1> QED BY <1>2, <1>3, <1>4 DEF IInv

LEMMA StepSector ==
    ASSUME IInv, NEW i \in Sectors, SectorErase(i) \/ SectorProg(i)
    PROVE  IInv'
  <1>1. ~hdr.ok /\ hdr' = hdr /\ pc \in {"sector", "prog"} /\ pc' \in {"sector", "prog"}
    BY DEF IInv, Invalidated, SectorErase, SectorProg
  <1>2. UNCHANGED <<ram, fs_dirty, fs_gen, promise, may>>
    BY DEF SectorErase, SectorProg
  <1>3. Staged = golden /\ Staged' = golden
    BY <1>1 DEF Staged
  <1>4. TypeOK'
    BY <1>1, <1>2 DEF IInv, TypeOK, Image, SectorErase, SectorProg
  <1>5. Vouches' /\ Invalidated' /\ GenKnown'
    BY <1>1 DEF Vouches, Invalidated, GenKnown
  <1>6. \A j \in Sectors \ todo' : flash'[j] = ram[j]
    BY DEF IInv, TypeOK, Agree, Syncing, SectorErase, SectorProg, IsNext
  <1>7. Agree'
    BY <1>1, <1>2, <1>6 DEF Agree, Syncing
  <1>8. Pending' /\ Durable' /\ AllOrNothing'
    BY <1>1, <1>2, <1>3 DEF IInv, Pending, Durable, AllOrNothing, Syncing
  <1> QED BY <1>4, <1>5, <1>7, <1>8 DEF IInv

LEMMA StepHdrBegin ==
    ASSUME IInv, HdrBegin
    PROVE  IInv'
  <1> USE DEF HdrBegin
  <1>1. Staged' = Staged /\ kflash_slot_gen' = kflash_slot_gen /\ hdr'.ok = hdr.ok
    BY SlotUnchanged
  <1>2. TypeOK' /\ Vouches' /\ Invalidated' /\ GenKnown' /\ Agree'
    BY <1>1 DEF IInv, TypeOK, Vouches, Invalidated, GenKnown, Agree, Syncing, slot
  <1>3. Pending' /\ Durable' /\ AllOrNothing'
    BY <1>1 DEF IInv, Pending, Durable, AllOrNothing, Syncing
  <1> QED BY <1>2, <1>3 DEF IInv

(* In hdrProg every sector has been written. *)
LEMMA AllWritten ==
    ASSUME IInv, pc = "hdrProg"
    PROVE  flash = ram /\ flash \in Image /\ ram \in may /\ fs_gen + 1 \in 1..MaxGen
  <1>1. \A i \in Sectors : flash[i] = ram[i]
    BY DEF IInv, Agree, Syncing
  <1>2. flash = ram /\ flash \in Image
    BY <1>1, SameImage DEF IInv, TypeOK
  <1>3. ram \in may /\ fs_gen < MaxGen /\ fs_gen \in 0..MaxGen
    BY DEF IInv, Pending, Syncing, TypeOK
  <1> QED BY <1>2, <1>3, KFlashAssumption

(* The commit. *)
LEMMA StepHdrDone ==
    ASSUME IInv, HdrDone
    PROVE  IInv'
  <1> USE DEF HdrDone
  <1>1. flash = ram /\ flash \in Image /\ ram \in may /\ fs_gen + 1 \in 1..MaxGen
    BY AllWritten
  <1>2. hdr'.ok /\ hdr'.gen = fs_gen' /\ hdr'.sum = ram /\ hdr' \in Header
    BY <1>1 DEF NewHeader, Header
  <1>3. Staged' = ram
    BY <1>1, <1>2 DEF Staged
  <1>4. TypeOK'
    BY <1>1, <1>2 DEF IInv, TypeOK
  <1>5. Vouches' /\ Invalidated' /\ GenKnown' /\ Agree'
    BY <1>1, <1>2 DEF Vouches, Invalidated, GenKnown, Agree, Syncing, kflash_slot_gen
  <1>6. Pending' /\ Durable' /\ AllOrNothing'
    BY <1>1, <1>3 DEF IInv, Pending, Durable, AllOrNothing, Syncing
  <1> QED BY <1>4, <1>5, <1>6 DEF IInv

(* What an interrupted write of the header page h can leave. *)
LEMMA RemainsOf ==
    ASSUME ~TornSum, NEW h, h.sum \in Image, NEW r \in Remains(h)
    PROVE  r \in Header /\ (r.ok => r.sum = h.sum)
  <1>1. CASE r = Erased
    <2>1. Erased \in Header
      BY KFlashAssumption DEF Erased, Header
    <2>2. ~Erased.ok
      BY DEF Erased
    <2> QED BY <1>1, <2>1, <2>2
  <1>2. CASE r # Erased
    <2>1. PICK g \in 0..MaxGen : r = [ok |-> TRUE, gen |-> g, sum |-> h.sum]
      BY <1>2 DEF Remains
    <2> QED BY <2>1 DEF Header
  <1> QED BY <1>1, <1>2

(* Whatever an interrupted header write leaves vouches for the image. *)
LEMMA StepPowerFails ==
    ASSUME ~TornSum, IInv, PowerFails
    PROVE  IInv'
  <1>1. /\ UNCHANGED <<ram, fs_dirty, fs_gen, flash, promise, may>>
        /\ pc' = "off" /\ todo' = {}
    BY DEF PowerFails
  <1>2. CASE pc = "hdrErase" /\ hdr.ok /\ hdr' \in Remains(hdr)
    <2>1. hdr.sum = flash /\ flash \in Image /\ Staged = flash
      BY <1>2 DEF IInv, Vouches, Staged
    <2>2. hdr' \in Header /\ (hdr'.ok => hdr'.sum = flash)
      BY <1>2, <2>1, RemainsOf
    <2>3. hdr' \in Header /\ Vouches'
      BY <1>1, <2>1, <2>2 DEF Vouches
    <2>4. Staged' \in {golden, Staged}
      BY <1>1, <2>1 DEF Staged
    <2>5. promise = None
      BY <1>2 DEF IInv, Pending, Syncing
    <2>6. TypeOK' /\ Invalidated' /\ GenKnown' /\ Agree' /\ Pending'
      BY <1>1, <2>3 DEF IInv, TypeOK, Invalidated, GenKnown, Agree, Pending, Syncing
    <2>7. Durable' /\ AllOrNothing'
      BY <1>1, <2>4, <2>5 DEF IInv, Pending, Durable, AllOrNothing
    <2> QED BY <2>3, <2>6, <2>7 DEF IInv
  <1>3. CASE pc = "hdrProg" /\ hdr' \in Remains(NewHeader)
    <2>1. NewHeader.sum = ram
      BY DEF NewHeader
    <2>2. flash = ram /\ flash \in Image /\ ram \in may
      BY <1>3, AllWritten
    <2>3. hdr' \in Header /\ Vouches'
      BY <1>1, <1>3, <2>1, <2>2, RemainsOf DEF Vouches
    <2>4. Staged' \in {golden, ram}
      BY <1>1, <2>2 DEF Staged
    <2>5. promise = None
      BY <1>3 DEF IInv, Pending, Syncing
    <2>6. TypeOK' /\ Invalidated' /\ GenKnown' /\ Agree' /\ Pending'
      BY <1>1, <2>3 DEF IInv, TypeOK, Invalidated, GenKnown, Agree, Pending, Syncing
    <2>7. Durable' /\ AllOrNothing'
      BY <1>1, <2>2, <2>4, <2>5 DEF IInv, Pending, Durable, AllOrNothing
    <2> QED BY <2>3, <2>6, <2>7 DEF IInv
  <1>4. CASE UNCHANGED hdr
    <2>1. Staged' = Staged
      BY <1>1, <1>4 DEF Staged
    <2>2. TypeOK' /\ Vouches' /\ Invalidated' /\ GenKnown' /\ Agree' /\ Pending'
      BY <1>1, <1>4 DEF IInv, TypeOK, Vouches, Invalidated, GenKnown, Agree,
                        Pending, Syncing
    <2>3. Durable' /\ AllOrNothing'
      BY <1>1, <2>1 DEF IInv, Durable, AllOrNothing
    <2> QED BY <2>2, <2>3 DEF IInv
  <1> QED BY <1>2, <1>3, <1>4 DEF PowerFails

LEMMA StepBoot ==
    ASSUME IInv, Boot
    PROVE  IInv'
  <1> USE DEF Boot
  <1>1. Staged' = Staged /\ kflash_slot_gen' = kflash_slot_gen /\ hdr'.ok = hdr.ok
    BY SlotUnchanged
  <1>2. Staged \in Image
    BY StagedIsImage DEF IInv
  <1>3. kflash_slot_gen \in 0..MaxGen
    BY KFlashAssumption DEF IInv, TypeOK, Header, kflash_slot_gen
  <1>4. TypeOK'
    BY <1>2, <1>3 DEF IInv, TypeOK, slot
  <1>5. hdr.ok => flash = ram'
    BY DEF IInv, Vouches, Staged
  <1>6. Vouches' /\ Invalidated' /\ GenKnown' /\ Agree'
    BY <1>1, <1>5 DEF IInv, Vouches, Invalidated, GenKnown, Agree, Syncing, slot
  <1>7. Pending' /\ Durable' /\ AllOrNothing'
    BY <1>1 DEF IInv, Pending, Durable, AllOrNothing, Syncing
  <1> QED BY <1>4, <1>6, <1>7 DEF IInv

LEMMA StepInv ==
    ASSUME ~TornSum, IInv, [Next]_vars
    PROVE  IInv'
  <1>1. CASE UNCHANGED vars
    BY <1>1 DEF vars, IInv, TypeOK, Vouches, Invalidated, GenKnown, Agree, Pending,
                Durable, AllOrNothing, Staged, kflash_slot_gen, Syncing
  <1>2. ASSUME NEW i \in Sectors, NEW v \in Vals, Write(i, v) PROVE IInv'
    BY <1>2, StepWrite
  <1>3. CASE SyncNothing
    BY <1>3, StepSyncNothing
  <1>4. CASE SyncBegin
    BY <1>4, StepSyncBegin
  <1>5. CASE HdrErased
    BY <1>5, StepHdrErased
  <1>6. ASSUME NEW i \in Sectors, SectorErase(i) \/ SectorProg(i) PROVE IInv'
    BY <1>6, StepSector
  <1>7. CASE HdrBegin
    BY <1>7, StepHdrBegin
  <1>8. CASE HdrDone
    BY <1>8, StepHdrDone
  <1>9. CASE PowerFails
    BY <1>9, StepPowerFails
  <1>10. CASE Boot
    BY <1>10, StepBoot
  <1> QED BY <1>1, <1>2, <1>3, <1>4, <1>5, <1>6, <1>7, <1>8, <1>9, <1>10 DEF Next

(* The inductive invariant holds in every reachable state. *)
THEOREM FlashInvariance == ASSUME ~TornSum PROVE Spec => []IInv
  BY InitInv, StepInv, PTL DEF Spec

(* Type correctness of the flash slot and the RAM disk. *)
THEOREM FlashTypeCorrect == ASSUME ~TornSum PROVE Spec => []TypeOK
  <1>1. IInv => TypeOK
    BY DEF IInv
  <1> QED BY <1>1, FlashInvariance, PTL

(* kflash_sync: what sync() returned 0 for is what the next boot stages,
   whenever the power fails. *)
THEOREM SyncIsDurable == ASSUME ~TornSum PROVE Spec => []Durable
  <1>1. IInv => Durable
    BY DEF IInv
  <1> QED BY <1>1, FlashInvariance, PTL

(* A sync that the power interrupts anywhere leaves the golden disk, the old
   one or the new one. *)
THEOREM SyncIsAtomic == ASSUME ~TornSum PROVE Spec => []AllOrNothing
  <1>1. IInv => AllOrNothing
    BY DEF IInv
  <1> QED BY <1>1, FlashInvariance, PTL

(* The dirty map is complete: an incremental sync writes enough; and the
   variables keep their types. *)
THEOREM DirtyMapSuffices == ASSUME ~TornSum PROVE Spec => []FlashInv
  <1>1. IInv => FlashInv
    BY DEF IInv, Agree, FlashInv, CleanIsSynced, Full, kflash_slot_gen
  <1> QED BY <1>1, FlashInvariance, PTL

-----------------------------------------------------------------------------
(* The refinement.  Every step of the flash protocol is a step of the safe
   disk or leaves it alone. *)

LEMMA InitRefines == Init => Safe!DiskInit
  BY DEF Init, Safe!DiskInit, Staged, Erased, Phase

LEMMA StepRefines ==
    ASSUME ~TornSum, IInv, IInv', [Next]_vars
    PROVE  [Safe!DiskNext]_(Safe!sdkvars)
  <1> USE DEF Safe!sdkvars
  <1>1. TypeOK /\ TypeOK' /\ Staged \in Image
    BY StagedIsImage DEF IInv
  <1>2. /\ pc = "run" => Phase = "on"
        /\ pc = "off" => Phase = "off"
        /\ pc \in Syncing => Phase = "syncing"
    BY DEF Phase, Syncing
  <1>3. /\ pc' = "run" => Phase' = "on"
        /\ pc' = "off" => Phase' = "off"
        /\ pc' \in Syncing => Phase' = "syncing"
    BY DEF Phase, Syncing
  <1>4. CASE UNCHANGED vars
    BY <1>4 DEF vars, Phase, Staged
  <1>5. ASSUME NEW i \in Sectors, NEW v \in Vals, Write(i, v)
        PROVE  Safe!Modify
    <2>1. Staged' = Staged
      BY <1>5, SlotUnchanged DEF Write
    <2>2. ram' \in Image
      BY <1>1 DEF TypeOK
    <2> QED BY <1>2, <1>3, <1>5, <2>1, <2>2 DEF Write, Safe!Modify
  <1>6. ASSUME SyncNothing PROVE Safe!SyncIdle
    <2>1. Staged' = Staged
      BY <1>6, SlotUnchanged DEF SyncNothing
    <2>2. promise' = ram /\ ram # None /\ ram' = ram
      BY <1>1, <1>6, KFlashAssumption DEF SyncNothing, TypeOK
    <2>3. Staged' = promise'
      BY <2>2 DEF IInv, Durable
    <2> QED BY <1>2, <1>3, <1>6, <2>1, <2>2, <2>3 DEF SyncNothing, Safe!SyncIdle
  <1>7. ASSUME SyncBegin PROVE Safe!SyncCall
    <2>1. Staged' = Staged
      BY <1>7, SlotUnchanged DEF SyncBegin
    <2> QED BY <1>2, <1>3, <1>7, <2>1 DEF SyncBegin, SyncStart, Syncing, Safe!SyncCall
  <1>8. ASSUME HdrErased PROVE Safe!Saving
    <2>1. Staged' = golden
      BY <1>8 DEF HdrErased, Erased, Staged
    <2> QED BY <1>2, <1>3, <1>8, <2>1 DEF HdrErased, Syncing, Safe!Saving
  <1>9. ASSUME NEW i \in Sectors, SectorErase(i) \/ SectorProg(i)
        PROVE  UNCHANGED Safe!sdkvars
    <2>1. ~hdr.ok /\ ~hdr'.ok
      BY <1>9 DEF IInv, Invalidated, SectorErase, SectorProg
    <2>2. Staged' = Staged
      BY <2>1 DEF Staged
    <2> QED BY <1>2, <1>3, <1>9, <2>2 DEF SectorErase, SectorProg, Syncing
  <1>10. ASSUME HdrBegin PROVE UNCHANGED Safe!sdkvars
    <2>1. Staged' = Staged
      BY <1>10, SlotUnchanged DEF HdrBegin
    <2> QED BY <1>2, <1>3, <1>10, <2>1 DEF HdrBegin, Syncing
  <1>11. ASSUME HdrDone PROVE Safe!SyncAnswer
    <2>1. promise' = ram /\ ram # None /\ ram' = ram
      BY <1>1, <1>11, KFlashAssumption DEF HdrDone, TypeOK
    <2>2. Staged' = ram
      BY <2>1 DEF IInv, Durable
    <2> QED BY <1>2, <1>3, <1>11, <2>1, <2>2 DEF HdrDone, Syncing, Safe!SyncAnswer
  <1>12. ASSUME PowerFails PROVE Safe!PowerLoss
    <2>1. /\ pc # "off" /\ pc' = "off"
          /\ UNCHANGED <<ram, promise, flash>>
      BY <1>12 DEF PowerFails
    <2>2. Phase # "off" /\ Phase' = "off"
      BY <2>1 DEF Phase
    <2>3. CASE pc = "hdrErase" /\ hdr.ok /\ hdr' \in Remains(hdr)
      <3>1. hdr.sum = flash /\ flash \in Image
        BY <2>3 DEF IInv, Vouches
      <3>2. Staged' \in {Staged, golden}
        BY <2>1, <2>3, <3>1, RemainsOf DEF Staged
      <3> QED BY <1>2, <2>1, <2>2, <2>3, <3>2 DEF Syncing, Safe!PowerLoss
    <2>4. CASE pc = "hdrProg" /\ hdr' \in Remains(NewHeader)
      <3>1. flash = ram
        BY <2>4, AllWritten
      <3>2. Staged' \in {golden, ram}
        BY <2>1, <3>1 DEF Staged
      <3> QED BY <1>2, <2>1, <2>2, <2>4, <3>2 DEF Syncing, Safe!PowerLoss
    <2>5. CASE UNCHANGED hdr
      <3>1. Staged' = Staged
        BY <2>1, <2>5 DEF Staged
      <3> QED BY <2>1, <2>2, <3>1 DEF Safe!PowerLoss
    <2> QED BY <1>12, <2>3, <2>4, <2>5 DEF PowerFails
  <1>13. ASSUME Boot PROVE Safe!PowerUp
    <2>1. Staged' = Staged
      BY <1>13, SlotUnchanged DEF Boot
    <2> QED BY <1>2, <1>3, <1>13, <2>1 DEF Boot, Safe!PowerUp
  <1> QED
    BY <1>4, <1>5, <1>6, <1>7, <1>8, <1>9, <1>10, <1>11, <1>12, <1>13
    DEF Next, Safe!DiskNext

(* kflash_sync, the staging at boot and kflash_slot_gen implement the safe
   disk: what a boot would find changes only inside a sync, from the old image
   to the golden one and to the new one, for any disk and any power failure. *)
THEOREM FlashIsSafeDisk == ASSUME ~TornSum PROVE Spec => IsSafeDisk
  <1>1. IInv /\ IInv' /\ [Next]_vars => [Safe!DiskNext]_(Safe!sdkvars)
    BY StepRefines
  <1> QED
    BY <1>1, InitRefines, FlashInvariance, PTL DEF Spec, IsSafeDisk, Safe!DiskSpec
=============================================================================
