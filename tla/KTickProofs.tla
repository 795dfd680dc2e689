---------------------------- MODULE KTickProofs ----------------------------
(***************************************************************************)
(* Proofs about time: the tick's delivery (KTick) and the sleeps it ends   *)
(* (KTimer, from the middle of the module on).                             *)
(*                                                                         *)
(* KTick: theorems for every set of processes and dispatch words.          *)
(*                                                                         *)
(* None of KTick's safety properties is inductive: each is about what user *)
(* mode sees, and rests on where the fire is while the kernel runs.  The   *)
(* inductive invariant IInv follows a fire through the kernel: an          *)
(* uncounted fire leaves a token (a patched cell that a site ahead will    *)
(* test, a site in its income phase, or the detour itself), and as long as *)
(* console DMA has not been on since the entry, a token is a fire.         *)
(***************************************************************************)
EXTENDS KTick, KTimer, TLAPS, WellFoundedInduction

(* The kernel before, during and after the time the injector is aimed at
   tickpending. *)
Early == {"enterDisp", "aimPending"}
Mid == {"enterPend", "detour", "body", "exitDisp", "retarget"}
Late == {"exitPend", "drain", "aimWake", "rearm"}
InKernel == pc \in Early \cup Mid \cup Late
Outer == {"user", "park", "eoi", "kenter"}

Control ==
    /\ pc \in Plain => phase = "test"
    /\ pc = "user" => ~parked
    /\ pc = "park" => parked
    /\ pc \in Early \cup Mid => ~parked
    /\ pc = "kenter" /\ kind = "sys" => ~parked
    /\ pc = "eoi" => kind = "tick" /\ patched[curDisp]
    /\ pc = "detour" => kind = "tick"
    /\ pc = "enterDisp" => entryDisp # "none"
    /\ pc \in {"aimPending", "enterPend", "body"} /\ kind = "sys"
         => entryDisp # "none"
    /\ pc \in Early \cup {"enterPend", "detour", "body"} /\ entryDisp # "none"
         => entryDisp = disp[curr]
    /\ pc \in {"enterDisp", "exitDisp"} /\ phase \in {"clear", "income"}
         => entryDisp # "none"
    /\ pc \in Site /\ phase = "clear" => patched[CellOf(pc)]

Aims ==
    /\ pc \in Outer \cup Late => injAt = curDisp
    /\ pc \in Early => injAt = IF entryDisp = "none" THEN "parkvec" ELSE entryDisp
    /\ pc \in Mid => injAt = "tickpending"
    /\ ~consOn => wakeAt = "scrap" /\ ~wakeDue
    /\ pc \in Early \cup Mid \cup {"exitPend", "drain", "aimWake"}
         => wakeAt = "scrap"
    /\ pc \in Outer \cup {"rearm"} /\ consOn => wakeAt = curDisp

Clean ==
    /\ pc \in Outer \cup Early \cup {"drain", "aimWake", "rearm"}
         => ~patched["tickpending"]
    /\ pc = "exitPend" /\ phase = "income" => ~patched["tickpending"]
    /\ pc \in Outer \cup Late
         => \A p \in Procs : patched[disp[p]] => disp[p] = curDisp
    /\ pc \in Early \cup Mid
         => \A p \in Procs : patched[disp[p]] => disp[p] = entryDisp
    /\ pc = "retarget" => \A p \in Procs : ~patched[disp[p]]
    /\ pc = "exitDisp" /\ phase = "income" => ~patched[entryDisp]

Balance ==
    /\ InKernel /\ rearm => ~armed /\ owed = 0
    /\ ~(InKernel /\ rearm) => owed = IF armed THEN 0 ELSE 1
    /\ InKernel /\ tickTaken => rearm /\ consOn

(* The places a fire can be while the kernel runs. *)
TokEntry == pc \in Early \cup Mid /\ pc # "retarget"
            /\ entryDisp # "none" /\ patched[entryDisp]
TokPending == patched["tickpending"]
TokIncome == phase = "income"
TokDetour == kind = "tick" /\ pc \in Early \cup {"enterPend", "detour"}
TokExit == pc \in Late /\ patched[curDisp]

Tokens ==
    /\ InKernel /\ ~armed /\ ~rearm
         => TokEntry \/ TokPending \/ TokIncome \/ TokDetour \/ TokExit
    /\ pc \in {"user", "park"} /\ ~armed => patched[curDisp]
    /\ pc = "kenter" /\ ~armed => kind = "tick" \/ patched[curDisp]

(* No wake can have been mistaken for the timer in this entry: console DMA is
   off, or came on after the fire was counted. *)
PlainCount == ~consOn \/ (rearm /\ ~tickTaken /\ pc # "rearm")

OneToken ==
    /\ InKernel /\ PlainCount
         => /\ TokEntry \/ TokPending \/ TokIncome \/ TokDetour \/ TokExit
                 => ~armed /\ ~rearm
            /\ TokEntry => ~TokPending /\ ~TokIncome /\ ~TokDetour
            /\ TokPending => ~TokIncome /\ ~TokDetour /\ ~TokExit
            /\ TokIncome => ~TokDetour /\ ~TokExit
    /\ pc \in {"user", "park", "eoi"} /\ ~consOn /\ patched[curDisp] => ~armed
    /\ pc = "kenter" /\ ~consOn
         => /\ kind = "tick" => ~armed /\ ~patched[curDisp]
            /\ patched[curDisp] => ~armed

IInv == TypeOK /\ Control /\ Aims /\ Clean /\ Balance /\ Tokens /\ OneToken

(* Facts and definitions that nearly every step below needs. *)
USE KTickAssumption
    DEF Cells, Place, Plain, Site, Phase, Early, Mid, Late, Outer, InKernel,
        CellOf, curDisp, Goto, chan, kern

(* IInv survives a timer fire. *)
LEMMA StepTimerFire == ASSUME IInv, TimerFire PROVE IInv'
<1>1. TypeOK'
  <2>1. patched' \in [Cells -> BOOLEAN]
    BY DEF IInv, TypeOK, TimerFire
  <2>2. owed' = 1
    BY DEF IInv, TypeOK, Balance, TimerFire
  <2>3. armed' \in BOOLEAN
    BY DEF TimerFire
  <2>4. QED
    BY <2>1, <2>2, <2>3 DEF IInv, TypeOK, TimerFire
<1>2. Control'
  BY DEF IInv, TypeOK, Control, TimerFire
<1>3. Aims'
  BY DEF IInv, TypeOK, Aims, TimerFire
<1>4. Clean'
  BY DEF IInv, TypeOK, Clean, Control, Aims, TimerFire
<1>5. Balance'
  BY DEF IInv, TypeOK, Balance, TimerFire
<1>6. Tokens'
  BY DEF IInv, TypeOK, Tokens, Control, Aims, TokEntry, TokPending, TokIncome,
         TokDetour, TokExit, PlainCount, TimerFire
<1>7. OneToken'
  BY DEF IInv, TypeOK, OneToken, Control, Aims, Clean, Balance, TokEntry,
         TokPending, TokIncome, TokDetour, TokExit, PlainCount, TimerFire
<1> QED
  BY <1>1, <1>2, <1>3, <1>4, <1>5, <1>6, <1>7 DEF IInv

(* IInv survives a received byte. *)
LEMMA StepRxByte == ASSUME IInv, RxByte PROVE IInv'
<1>1. TypeOK'
  BY DEF IInv, TypeOK, RxByte
<1>2. Control'
  BY DEF IInv, TypeOK, Control, RxByte
<1>3. Aims'
  BY DEF IInv, TypeOK, Aims, RxByte
<1>4. Clean'
  BY DEF IInv, TypeOK, Clean, RxByte
<1>5. Balance'
  BY DEF IInv, TypeOK, Balance, RxByte
<1>6. Tokens'
  BY DEF IInv, TypeOK, Tokens, TokEntry, TokPending, TokIncome, TokDetour,
         TokExit, PlainCount, RxByte
<1>7. OneToken'
  BY DEF IInv, TypeOK, OneToken, TokEntry, TokPending, TokIncome, TokDetour,
         TokExit, PlainCount, RxByte
<1> QED
  BY <1>1, <1>2, <1>3, <1>4, <1>5, <1>6, <1>7 DEF IInv

(* IInv survives a console wake. *)
LEMMA StepWakeFire == ASSUME IInv, WakeFire PROVE IInv'
<1>1. TypeOK'
  <2>1. patched' \in [Cells -> BOOLEAN]
    BY DEF IInv, TypeOK, WakeFire
  <2>2. wakeDue' \in BOOLEAN
    BY DEF WakeFire
  <2>3. QED
    BY <2>1, <2>2 DEF IInv, TypeOK, WakeFire
<1>2. Control'
  BY DEF IInv, TypeOK, Control, WakeFire
<1>3. Aims'
  BY DEF IInv, TypeOK, Aims, WakeFire
<1>4. Clean'
  BY DEF IInv, TypeOK, Clean, Control, Aims, WakeFire
<1>5. Balance'
  BY DEF IInv, TypeOK, Balance, WakeFire
<1>6. Tokens'
  BY DEF IInv, TypeOK, Tokens, TokEntry, TokPending, TokIncome, TokDetour,
         TokExit, PlainCount, WakeFire
<1>7. OneToken'
  BY DEF IInv, TypeOK, OneToken, Control, Aims, TokEntry, TokPending,
         TokIncome, TokDetour, TokExit, PlainCount, WakeFire
<1> QED
  BY <1>1, <1>2, <1>3, <1>4, <1>5, <1>6, <1>7 DEF IInv

(* IInv survives a safepoint that finds the vector. *)
LEMMA StepDetour == ASSUME IInv, Detour PROVE IInv'
<1>1. TypeOK'
  BY DEF IInv, TypeOK, Detour
<1>2. Control'
  BY DEF IInv, TypeOK, Control, Detour
<1>3. Aims'
  BY DEF IInv, TypeOK, Aims, Detour
<1>4. Clean'
  BY DEF IInv, TypeOK, Clean, Detour
<1>5. Balance'
  BY DEF IInv, TypeOK, Balance, Detour
<1>6. Tokens'
  BY DEF IInv, TypeOK, Tokens, TokEntry, TokPending, TokIncome, TokDetour,
         TokExit, PlainCount, Detour
<1>7. OneToken'
  BY DEF IInv, TypeOK, OneToken, TokEntry, TokPending, TokIncome, TokDetour,
         TokExit, PlainCount, Detour
<1> QED
  BY <1>1, <1>2, <1>3, <1>4, <1>5, <1>6, <1>7 DEF IInv

(* IInv survives a system call. *)
LEMMA StepSyscall == ASSUME IInv, Syscall PROVE IInv'
<1>1. TypeOK'
  BY DEF IInv, TypeOK, Syscall
<1>2. Control'
  BY DEF IInv, TypeOK, Control, Syscall
<1>3. Aims'
  BY DEF IInv, TypeOK, Aims, Syscall
<1>4. Clean'
  BY DEF IInv, TypeOK, Clean, Syscall
<1>5. Balance'
  BY DEF IInv, TypeOK, Balance, Syscall
<1>6. Tokens'
  BY DEF IInv, TypeOK, Tokens, TokEntry, TokPending, TokIncome, TokDetour,
         TokExit, PlainCount, Syscall
<1>7. OneToken'
  BY DEF IInv, TypeOK, OneToken, TokEntry, TokPending, TokIncome, TokDetour,
         TokExit, PlainCount, Syscall
<1> QED
  BY <1>1, <1>2, <1>3, <1>4, <1>5, <1>6, <1>7 DEF IInv

(* IInv survives sched_entry's restore of the dispatch word. *)
LEMMA StepEoi == ASSUME IInv, Eoi PROVE IInv'
<1>1. TypeOK'
  BY DEF IInv, TypeOK, Eoi
<1>2. Control'
  BY DEF IInv, TypeOK, Control, Eoi
<1>3. Aims'
  BY DEF IInv, TypeOK, Aims, Eoi
<1>4. Clean'
  BY DEF IInv, TypeOK, Clean, Eoi
<1>5. Balance'
  BY DEF IInv, TypeOK, Balance, Eoi
<1>6. Tokens'
  BY DEF IInv, TypeOK, Tokens, Control, TokEntry, TokPending, TokIncome,
         TokDetour, TokExit, PlainCount, Eoi
<1>7. OneToken'
  BY DEF IInv, TypeOK, OneToken, Control, TokEntry, TokPending, TokIncome,
         TokDetour, TokExit, PlainCount, Eoi
<1> QED
  BY <1>1, <1>2, <1>3, <1>4, <1>5, <1>6, <1>7 DEF IInv

(* IInv survives kenter's opening. *)
LEMMA StepKenter == ASSUME IInv, Kenter PROVE IInv'
<1>1. TypeOK'
  <2>1. /\ entryDisp' \in Words \cup {"none"}
        /\ pc' \in Place /\ phase' \in Phase
    BY DEF IInv, TypeOK, Kenter
  <2>2. /\ rearm' \in BOOLEAN /\ tickTaken' \in BOOLEAN
        /\ parked' \in BOOLEAN /\ waspark' \in BOOLEAN
    BY Zenon DEF IInv, TypeOK, Kenter
  <2>3. wakeAt' \in Cells \cup {"scrap"}
    BY DEF Kenter
  <2>4. QED
    BY <2>1, <2>2, <2>3 DEF IInv, TypeOK, Kenter
<1>2. Control'
  BY DEF IInv, TypeOK, Control, Kenter
<1>3. Aims'
  BY DEF IInv, TypeOK, Aims, Kenter
<1>4. Clean'
  BY DEF IInv, TypeOK, Clean, Kenter
<1>5. Balance'
  BY DEF IInv, TypeOK, Balance, Kenter
<1>6. Tokens'
  BY DEF IInv, TypeOK, Tokens, Control, TokEntry, TokPending, TokIncome,
         TokDetour, TokExit, PlainCount, Kenter
<1>7. OneToken'
  BY DEF IInv, TypeOK, OneToken, Control, Aims, Clean, TokEntry, TokPending,
         TokIncome, TokDetour, TokExit, PlainCount, Kenter
<1> QED
  BY <1>1, <1>2, <1>3, <1>4, <1>5, <1>6, <1>7 DEF IInv

(* IInv survives the test of a consumption site. *)
LEMMA StepTest == ASSUME IInv, NEW s \in Site, Test(s) PROVE IInv'
<1>1. TypeOK'
  BY DEF IInv, TypeOK, Test, AfterSite
<1>2. Control'
  BY DEF IInv, TypeOK, Control, Test, AfterSite
<1>3. Aims'
  BY DEF IInv, TypeOK, Aims, Test, AfterSite
<1>4. Clean'
  BY DEF IInv, TypeOK, Clean, Test, AfterSite
<1>5. Balance'
  BY DEF IInv, TypeOK, Balance, Test, AfterSite
<1>6. Tokens'
  BY DEF IInv, TypeOK, Tokens, TokEntry, TokPending, TokIncome, TokDetour,
         TokExit, PlainCount, Test, AfterSite
<1>7. OneToken'
  BY DEF IInv, TypeOK, OneToken, TokEntry, TokPending, TokIncome, TokDetour,
         TokExit, PlainCount, Test, AfterSite
<1> QED
  BY <1>1, <1>2, <1>3, <1>4, <1>5, <1>6, <1>7 DEF IInv

(* IInv survives a site's restore of its cell. *)
LEMMA StepClear == ASSUME IInv, NEW s \in Site, Clear(s) PROVE IInv'
<1>1. TypeOK'
  BY DEF IInv, TypeOK, Control, Clear
<1>2. Control'
  BY DEF IInv, TypeOK, Control, Clear
<1>3. Aims'
  BY DEF IInv, TypeOK, Aims, Clear
<1>4. Clean'
  BY DEF IInv, TypeOK, Clean, Control, Clear
<1>5. Balance'
  BY DEF IInv, TypeOK, Balance, Clear
<1>6. Tokens'
  BY DEF IInv, TypeOK, Tokens, TokEntry, TokPending, TokIncome, TokDetour,
         TokExit, PlainCount, Clear
<1>7. OneToken'
  BY DEF IInv, TypeOK, OneToken, Control, TokEntry, TokPending, TokIncome,
         TokDetour, TokExit, PlainCount, Clear
<1> QED
  BY <1>1, <1>2, <1>3, <1>4, <1>5, <1>6, <1>7 DEF IInv

(* IInv survives a site's fire_income. *)
LEMMA StepIncome == ASSUME IInv, NEW s \in Site, Income(s) PROVE IInv'
<1>1. TypeOK'
  BY DEF IInv, TypeOK, Control, Aims, Clean, Balance, OneToken, TokEntry,
         TokPending, TokIncome, TokDetour, TokExit, PlainCount, Income,
         AfterSite, FireIncome, CountsAsTick, ConsPoll
<1>2. Control'
  BY DEF IInv, TypeOK, Control, Income, AfterSite, FireIncome, CountsAsTick,
         ConsPoll
<1>3. Aims'
  BY DEF IInv, TypeOK, Aims, Income, AfterSite, FireIncome, CountsAsTick,
         ConsPoll
<1>4. Clean'
  BY DEF IInv, TypeOK, Clean, Income, AfterSite, FireIncome, CountsAsTick,
         ConsPoll
<1>5. Balance'
  <2>1. CountsAsTick => ~armed /\ ~rearm
    BY DEF IInv, TypeOK, Control, Balance, OneToken, TokEntry, TokPending,
           TokIncome, TokDetour, TokExit, PlainCount, Income, CountsAsTick
  <2>2. CountsAsTick => owed = 1
    BY <2>1 DEF IInv, Balance
  <2>3. CASE CountsAsTick
    <3>1. rearm' /\ owed' = owed - 1 /\ ~armed'
      BY <2>1, <2>3, Zenon DEF Income, FireIncome
    <3>2. tickTaken' => consOn'
      BY <2>3 DEF IInv, TypeOK, Balance, Income, FireIncome, ConsPoll
    <3>3. InKernel'
      BY DEF IInv, Control, Income, AfterSite
    <3>4. QED
      BY <2>2, <2>3, <3>1, <3>2, <3>3 DEF Balance
  <2>4. CASE ~CountsAsTick
    BY <2>4
       DEF IInv, TypeOK, Control, Balance, Income, FireIncome, ConsPoll, AfterSite,
           CountsAsTick
  <2>5. QED
    BY <2>3, <2>4
<1>6. Tokens'
  BY DEF IInv, TypeOK, Tokens, Control, Aims, Clean, Balance, TokEntry,
         TokPending, TokIncome, TokDetour, TokExit, PlainCount, Income,
         AfterSite, FireIncome, CountsAsTick, ConsPoll
<1>7. OneToken'
  BY DEF IInv, TypeOK, OneToken, TokEntry, TokPending, TokIncome, TokDetour,
         TokExit, PlainCount, Income, AfterSite, FireIncome, CountsAsTick,
         ConsPoll
<1> QED
  BY <1>1, <1>2, <1>3, <1>4, <1>5, <1>6, <1>7 DEF IInv

(* IInv survives kenter's retarget to tickpending. *)
LEMMA StepAimPending == ASSUME IInv, AimPending PROVE IInv'
<1>1. TypeOK'
  BY DEF IInv, TypeOK, AimPending
<1>2. Control'
  BY DEF IInv, TypeOK, Control, AimPending
<1>3. Aims'
  BY DEF IInv, TypeOK, Aims, AimPending
<1>4. Clean'
  BY DEF IInv, TypeOK, Clean, AimPending
<1>5. Balance'
  BY DEF IInv, TypeOK, Balance, AimPending
<1>6. Tokens'
  BY DEF IInv, TypeOK, Tokens, Control, TokEntry, TokPending, TokIncome,
         TokDetour, TokExit, PlainCount, AimPending
<1>7. OneToken'
  BY DEF IInv, TypeOK, OneToken, TokEntry, TokPending, TokIncome, TokDetour,
         TokExit, PlainCount, AimPending
<1> QED
  BY <1>1, <1>2, <1>3, <1>4, <1>5, <1>6, <1>7 DEF IInv

(* IInv survives dma_ktick's own fire_income. *)
LEMMA StepDetourIncome == ASSUME IInv, DetourIncome PROVE IInv'
<1>1. TypeOK'
  BY DEF IInv, TypeOK, Control, Aims, Clean, Balance, OneToken, TokEntry,
         TokPending, TokIncome, TokDetour, TokExit, PlainCount, DetourIncome,
         FireIncome, CountsAsTick, ConsPoll
<1>2. Control'
  BY DEF IInv, TypeOK, Control, DetourIncome, FireIncome, CountsAsTick,
         ConsPoll
<1>3. Aims'
  BY DEF IInv, TypeOK, Aims, DetourIncome, FireIncome, CountsAsTick, ConsPoll
<1>4. Clean'
  BY DEF IInv, TypeOK, Clean, DetourIncome, FireIncome, CountsAsTick, ConsPoll
<1>5. Balance'
  <2>1. CountsAsTick => ~armed /\ ~rearm
    BY DEF IInv, TypeOK, Control, Balance, OneToken, TokEntry, TokPending,
           TokIncome, TokDetour, TokExit, PlainCount, DetourIncome, CountsAsTick
  <2>2. CountsAsTick => owed = 1
    BY <2>1 DEF IInv, Balance
  <2>3. CASE CountsAsTick
    <3>1. rearm' /\ owed' = owed - 1 /\ ~armed'
      BY <2>1, <2>3, Zenon DEF DetourIncome, FireIncome
    <3>2. tickTaken' => consOn'
      BY <2>3 DEF IInv, TypeOK, Balance, DetourIncome, FireIncome, ConsPoll
    <3>3. InKernel'
      BY DEF IInv, Control, DetourIncome
    <3>4. QED
      BY <2>2, <2>3, <3>1, <3>2, <3>3 DEF Balance
  <2>4. CASE ~CountsAsTick
    BY <2>4
       DEF IInv, TypeOK, Control, Balance, DetourIncome, FireIncome, ConsPoll,
           CountsAsTick
  <2>5. QED
    BY <2>3, <2>4
<1>6. Tokens'
  BY DEF IInv, TypeOK, Tokens, Control, Aims, Clean, Balance, TokEntry,
         TokPending, TokIncome, TokDetour, TokExit, PlainCount, DetourIncome,
         FireIncome, CountsAsTick, ConsPoll
<1>7. OneToken'
  BY DEF IInv, TypeOK, OneToken, Control, TokEntry, TokPending, TokIncome,
         TokDetour, TokExit, PlainCount, DetourIncome, FireIncome,
         CountsAsTick, ConsPoll
<1> QED
  BY <1>1, <1>2, <1>3, <1>4, <1>5, <1>6, <1>7 DEF IInv

(* IInv survives the body of dma_ktick. *)
LEMMA StepTickBody == ASSUME IInv, TickBody PROVE IInv'
<1>1. TypeOK'
  BY DEF IInv, TypeOK, TickBody, ExitStart
<1>2. Control'
  BY DEF IInv, TypeOK, Control, TickBody, ExitStart
<1>3. Aims'
  BY DEF IInv, TypeOK, Aims, TickBody, ExitStart
<1>4. Clean'
  BY DEF IInv, TypeOK, Clean, TickBody, ExitStart
<1>5. Balance'
  BY DEF IInv, TypeOK, Balance, TickBody, ExitStart
<1>6. Tokens'
  BY DEF IInv, TypeOK, Tokens, Control, TokEntry, TokPending, TokIncome,
         TokDetour, TokExit, PlainCount, TickBody, ExitStart
<1>7. OneToken'
  BY DEF IInv, TypeOK, OneToken, TokEntry, TokPending, TokIncome, TokDetour,
         TokExit, PlainCount, TickBody, ExitStart
<1> QED
  BY <1>1, <1>2, <1>3, <1>4, <1>5, <1>6, <1>7 DEF IInv

(* IInv survives the body of an ordinary system call. *)
LEMMA StepSysBody == ASSUME IInv, SysBody PROVE IInv'
<1>1. TypeOK'
  BY DEF IInv, TypeOK, SysBody, ExitStart
<1>2. Control'
  BY DEF IInv, TypeOK, Control, SysBody, ExitStart
<1>3. Aims'
  BY DEF IInv, TypeOK, Aims, SysBody, ExitStart
<1>4. Clean'
  BY DEF IInv, TypeOK, Clean, SysBody, ExitStart
<1>5. Balance'
  BY DEF IInv, TypeOK, Balance, SysBody, ExitStart
<1>6. Tokens'
  BY DEF IInv, TypeOK, Tokens, Control, TokEntry, TokPending, TokIncome,
         TokDetour, TokExit, PlainCount, SysBody, ExitStart
<1>7. OneToken'
  BY DEF IInv, TypeOK, OneToken, TokEntry, TokPending, TokIncome, TokDetour,
         TokExit, PlainCount, SysBody, ExitStart
<1> QED
  BY <1>1, <1>2, <1>3, <1>4, <1>5, <1>6, <1>7 DEF IInv

(* IInv survives fork. *)
LEMMA StepForkBody == ASSUME IInv, NEW c \in Procs, ForkBody(c) PROVE IInv'
<1>1. TypeOK'
  BY DEF IInv, TypeOK, ForkBody, ExitStart
<1>2. Control'
  BY DEF IInv, TypeOK, Control, ForkBody, ExitStart
<1>3. Aims'
  BY DEF IInv, TypeOK, Aims, ForkBody, ExitStart
<1>4. Clean'
  BY DEF IInv, TypeOK, Clean, ForkBody, ExitStart
<1>5. Balance'
  BY DEF IInv, TypeOK, Balance, ForkBody, ExitStart
<1>6. Tokens'
  BY DEF IInv, TypeOK, Tokens, Control, TokEntry, TokPending, TokIncome,
         TokDetour, TokExit, PlainCount, ForkBody, ExitStart
<1>7. OneToken'
  BY DEF IInv, TypeOK, OneToken, TokEntry, TokPending, TokIncome, TokDetour,
         TokExit, PlainCount, ForkBody, ExitStart
<1> QED
  BY <1>1, <1>2, <1>3, <1>4, <1>5, <1>6, <1>7 DEF IInv

(* IInv survives exec. *)
LEMMA StepExecBody == ASSUME IInv, NEW w \in Words, ExecBody(w) PROVE IInv'
<1>1. TypeOK'
  BY DEF IInv, TypeOK, ExecBody, ExitStart
<1>2. Control'
  BY DEF IInv, TypeOK, Control, ExecBody, ExitStart
<1>3. Aims'
  BY DEF IInv, TypeOK, Aims, ExecBody, ExitStart
<1>4. Clean'
  BY DEF IInv, TypeOK, Clean, ExecBody, ExitStart
<1>5. Balance'
  BY DEF IInv, TypeOK, Balance, ExecBody, ExitStart
<1>6. Tokens'
  BY DEF IInv, TypeOK, Tokens, Control, TokEntry, TokPending, TokIncome,
         TokDetour, TokExit, PlainCount, ExecBody, ExitStart
<1>7. OneToken'
  BY DEF IInv, TypeOK, OneToken, TokEntry, TokPending, TokIncome, TokDetour,
         TokExit, PlainCount, ExecBody, ExitStart
<1> QED
  BY <1>1, <1>2, <1>3, <1>4, <1>5, <1>6, <1>7 DEF IInv

(* IInv survives the retarget on the way out. *)
LEMMA StepRetarget == ASSUME IInv, Retarget PROVE IInv'
<1>1. TypeOK'
  <2>1. patched' \in [Cells -> BOOLEAN]
    BY DEF IInv, TypeOK, Retarget
  <2>2. parked' \in BOOLEAN
    BY DEF IInv, TypeOK, Retarget
  <2>3. injAt' \in Cells /\ curr' \in Procs
    BY DEF IInv, TypeOK, Retarget
  <2>4. QED
    BY <2>1, <2>2, <2>3 DEF IInv, TypeOK, Retarget
<1>2. Control'
  BY DEF IInv, TypeOK, Control, Retarget
<1>3. Aims'
  BY DEF IInv, TypeOK, Aims, Control, Retarget
<1>4. Clean'
  BY DEF IInv, TypeOK, Clean, Retarget
<1>5. Balance'
  BY DEF IInv, TypeOK, Balance, Retarget
<1>6. Tokens'
  BY DEF IInv, TypeOK, Tokens, Control, TokEntry, TokPending, TokIncome,
         TokDetour, TokExit, PlainCount, Retarget
<1>7. OneToken'
  BY DEF IInv, TypeOK, OneToken, Control, Aims, Clean, TokEntry, TokPending,
         TokIncome, TokDetour, TokExit, PlainCount, Retarget
<1> QED
  BY <1>1, <1>2, <1>3, <1>4, <1>5, <1>6, <1>7 DEF IInv

(* IInv survives the console drain on the way out. *)
LEMMA StepDrain == ASSUME IInv, Drain PROVE IInv'
<1>1. TypeOK'
  BY DEF IInv, TypeOK, Control, Aims, Clean, Drain, ConsPoll
<1>2. Control'
  BY DEF IInv, TypeOK, Control, Drain, ConsPoll
<1>3. Aims'
  BY DEF IInv, TypeOK, Aims, Drain, ConsPoll
<1>4. Clean'
  BY DEF IInv, TypeOK, Clean, Drain, ConsPoll
<1>5. Balance'
  BY DEF IInv, TypeOK, Balance, Drain, ConsPoll
<1>6. Tokens'
  BY DEF IInv, TypeOK, Tokens, Control, TokEntry, TokPending, TokIncome,
         TokDetour, TokExit, PlainCount, Drain, ConsPoll
<1>7. OneToken'
  BY DEF IInv, TypeOK, OneToken, TokEntry, TokPending, TokIncome, TokDetour,
         TokExit, PlainCount, Drain, ConsPoll
<1> QED
  BY <1>1, <1>2, <1>3, <1>4, <1>5, <1>6, <1>7 DEF IInv

(* IInv survives aiming the console wake on the way out. *)
LEMMA StepAimWake == ASSUME IInv, AimWake PROVE IInv'
<1>1. TypeOK'
  BY DEF IInv, TypeOK, AimWake
<1>2. Control'
  BY DEF IInv, TypeOK, Control, AimWake
<1>3. Aims'
  BY DEF IInv, TypeOK, Aims, AimWake
<1>4. Clean'
  BY DEF IInv, TypeOK, Clean, AimWake
<1>5. Balance'
  BY DEF IInv, TypeOK, Balance, AimWake
<1>6. Tokens'
  BY DEF IInv, TypeOK, Tokens, Control, TokEntry, TokPending, TokIncome,
         TokDetour, TokExit, PlainCount, AimWake
<1>7. OneToken'
  BY DEF IInv, TypeOK, OneToken, TokEntry, TokPending, TokIncome, TokDetour,
         TokExit, PlainCount, AimWake
<1> QED
  BY <1>1, <1>2, <1>3, <1>4, <1>5, <1>6, <1>7 DEF IInv

(* IInv survives the re-arm and the jump out of the kernel. *)
LEMMA StepLeave == ASSUME IInv, Leave PROVE IInv'
<1>1. TypeOK'
  BY DEF IInv, TypeOK, Leave
<1>2. Control'
  BY DEF IInv, TypeOK, Control, Leave
<1>3. Aims'
  BY DEF IInv, TypeOK, Aims, Leave
<1>4. Clean'
  BY DEF IInv, TypeOK, Clean, Leave
<1>5. Balance'
  BY DEF IInv, TypeOK, Balance, Leave
<1>6. Tokens'
  BY DEF IInv, TypeOK, Tokens, Control, Aims, Clean, TokEntry, TokPending,
         TokIncome, TokDetour, TokExit, PlainCount, Leave
<1>7. OneToken'
  BY DEF IInv, TypeOK, OneToken, TokEntry, TokPending, TokIncome, TokDetour,
         TokExit, PlainCount, Leave
<1> QED
  BY <1>1, <1>2, <1>3, <1>4, <1>5, <1>6, <1>7 DEF IInv

(* IInv holds when the firmware has started slot 0 and armed the injector. *)
LEMMA InitIInv == Init => IInv
<1> SUFFICES ASSUME Init PROVE IInv
  OBVIOUS
<1>1. TypeOK
  BY DEF Init, TypeOK
<1>2. Control /\ Aims /\ Clean
  BY <1>1 DEF Init, TypeOK, Control, Aims, Clean
<1>3. Balance /\ Tokens /\ OneToken
  BY <1>1 DEF Init, TypeOK, Balance, Tokens, OneToken, TokEntry, TokPending,
              TokIncome, TokDetour, TokExit, PlainCount
<1> QED
  BY <1>1, <1>2, <1>3 DEF IInv

(* IInv survives every step of the kernel and of the two channels. *)
LEMMA StepIInv == IInv /\ [Next]_vars => IInv'
<1> SUFFICES ASSUME IInv, [Next]_vars PROVE IInv'
  OBVIOUS
<1>1. CASE TimerFire BY <1>1, StepTimerFire
<1>2. CASE RxByte BY <1>2, StepRxByte
<1>3. CASE WakeFire BY <1>3, StepWakeFire
<1>4. CASE Detour BY <1>4, StepDetour
<1>5. CASE Syscall BY <1>5, StepSyscall
<1>6. CASE Kernel
  BY <1>6, StepEoi, StepKenter, StepAimPending, StepDetourIncome, StepRetarget,
     StepDrain, StepAimWake, StepLeave, StepTickBody, StepSysBody, StepTest,
     StepClear, StepIncome, StepForkBody, StepExecBody, Zenon
     DEF Kernel
<1>7. CASE UNCHANGED vars
  <2>1. TypeOK' /\ Control' /\ Aims' /\ Clean'
    BY <1>7 DEF IInv, vars, TypeOK, Control, Aims, Clean
  <2>2. Balance' /\ Tokens' /\ OneToken'
    BY <1>7 DEF IInv, vars, Balance, Tokens, OneToken, TokEntry, TokPending,
                TokIncome, TokDetour, TokExit, PlainCount
  <2> QED
    BY <2>1, <2>2 DEF IInv
<1> QED
  BY <1>1, <1>2, <1>3, <1>4, <1>5, <1>6, <1>7 DEF Next

(* IInv holds in every reachable state. *)
THEOREM Invariance == Spec => []IInv
  BY InitIInv, StepIInv, PTL DEF Spec

(* The variables keep their types; in particular the number of fires not yet
   counted is 0 or 1, for any number of processes and images. *)
THEOREM TypeCorrect == Spec => []TypeOK
<1>1. IInv => TypeOK
  BY DEF IInv
<1> QED
  BY <1>1, Invariance, PTL

(* fire_income counts every timer fire exactly once and kexit never re-arms
   the injector over an uncounted fire. *)
THEOREM TicksCountedOnce == Spec => []CountedOnce
<1>1. IInv => CountedOnce
  BY DEF IInv, TypeOK, Balance, CountedOnce
<1> QED
  BY <1>1, Invariance, PTL

(* The hang that kexit's second look at entry_disp closed cannot happen: out
   of the kernel, a spent injector means a detour the machine will take. *)
THEOREM FiresNotLost == Spec => []NoLostFire
<1>1. IInv => NoLostFire
  BY DEF IInv, Tokens, NoLostFire
<1> QED
  BY <1>1, Invariance, PTL

(* A context switch never leaves a patched dispatch word behind, and the
   variables keep their types. *)
THEOREM PatchesNotLeft == Spec => []TickInv
<1>1. IInv => TickInv
  BY DEF IInv, Control, Clean, NoStrayPatch, TickInv
<1> QED
  BY <1>1, Invariance, PTL

-----------------------------------------------------------------------------
(***************************************************************************)
(* KTimer: theorems for any number of processes, any width of the          *)
(* microsecond counter and any sequence of sleeps, wake-ups and ticks, as  *)
(* long as the longest sleep and the longest gap between two ticks stay    *)
(* together within the horizon of the signed comparison (Horizon).         *)
(*                                                                         *)
(* The argument: a deadline is where the time a process has left says it   *)
(* is on the circle of words (Deadlines), and the cached next_us is the    *)
(* place of a time g that no sleeper undercuts and that the last tick has  *)
(* not missed (Hint).  Both times lie within half the circle of now, so    *)
(* the signed differences compare them as the integers they are.           *)
(***************************************************************************)

(* wake_us's comment: "the horizon is 2^31 us". *)
Horizon == MaxSleep + MaxLate < Half

Deadlines == \A p \in asleep : wake_us[p] = Wrap(now + left[p])

IsHint(g) ==
    /\ g + since >= 0
    /\ next_us = Wrap(now + g)
    /\ \A p \in asleep : g <= left[p]

Hint ==
    /\ asleep # {} => ntimed # 0
    /\ ntimed # 0 => \E g \in -MaxLate..MaxSleep : IsHint(g)

TimerIInv == TimerTypeOK /\ NoOversleep /\ Deadlines /\ Hint

-----------------------------------------------------------------------------
(* Arithmetic of words. *)

LEMMA LeastNat ==
    ASSUME NEW S \in SUBSET Nat, S # {}
    PROVE  \E m \in S : \A k \in S : m <= k
  <1> DEFINE R == {ss \in Nat \X Nat : ss[1] < ss[2]}
  <1>1. IsWellFoundedOn(R, Nat)
    BY NatLessThanWellFounded DEF OpToRel
  <1> HIDE DEF R
  <1>2. PICK m \in S : \A k \in S : ~(<<k, m>> \in R)
    BY <1>1, WFMin
  <1>3. \A k \in S : ~(k < m)
    BY <1>2 DEF R
  <1> QED BY <1>3

LEMMA ModRange ==
    ASSUME NEW a \in Int, NEW m \in Nat, m > 0
    PROVE  a % m \in 0..(m - 1) /\ \E q \in Int : a = (q * m) + (a % m)
  OBVIOUS

LEMMA ModUnique ==
    ASSUME NEW a \in Int, NEW m \in Nat, m > 0, NEW q \in Int, NEW r \in 0..(m - 1),
           a = (q * m) + r
    PROVE  a % m = r
  OBVIOUS

(* A word plus a displacement is the sum, wrapped. *)
LEMMA ModPlus ==
    ASSUME NEW a \in Int, NEW b \in Int, NEW m \in Nat, m > 0
    PROVE  ((a % m) + b) % m = (a + b) % m
  <1>1. PICK q \in Int : a = (q * m) + (a % m)
    BY ModRange
  <1>2. PICK c \in Int : c = a + b
    OBVIOUS
  <1>3. PICK r \in Int : c = (r * m) + (c % m)
    BY ModRange
  <1>4. PICK d \in Int : d = (a % m) + b
    BY ModRange
  <1>5. PICK k \in Int : k = r - q
    OBVIOUS
  <1>6. d = (k * m) + (c % m)
    BY <1>1, <1>2, <1>3, <1>4, <1>5, ModRange
  <1>7. d % m = c % m
    BY <1>6, ModRange, ModUnique
  <1> QED BY <1>2, <1>4, <1>7

(* The difference of two words is the difference, wrapped. *)
LEMMA ModMinus ==
    ASSUME NEW a \in Int, NEW b \in Int, NEW m \in Nat, m > 0
    PROVE  ((a % m) - (b % m)) % m = (a - b) % m
  <1>1. PICK q \in Int : a = (q * m) + (a % m)
    BY ModRange
  <1>2. PICK s \in Int : b = (s * m) + (b % m)
    BY ModRange
  <1>3. PICK r \in Int : a - b = (r * m) + ((a - b) % m)
    BY ModRange
  <1>4. (a % m) - (b % m) = ((r - q + s) * m) + ((a - b) % m)
    BY <1>1, <1>2, <1>3, ModRange
  <1> QED BY <1>4, ModRange, ModUnique

LEMMA WrapType == \A x \in Int : Wrap(x) \in Word
  BY KTimerAssumption, ModRange DEF Wrap, Word

LEMMA WrapPlus == \A a, b \in Int : Wrap(Wrap(a) + b) = Wrap(a + b)
  <1> SUFFICES ASSUME NEW a \in Int, NEW b \in Int
               PROVE  Wrap(Wrap(a) + b) = Wrap(a + b)
    OBVIOUS
  <1>1. PICK m \in Nat : m > 0 /\ m = 2 * Half
    BY KTimerAssumption
  <1>2. ((a % m) + b) % m = (a + b) % m
    BY <1>1, ModPlus
  <1> QED BY <1>1, <1>2 DEF Wrap

(* Two times less than half the circle apart compare as integers. *)
LEMMA DiffIs ==
    ASSUME NEW n \in Int, NEW a \in Int, NEW b \in Int, a - b < Half, -Half <= a - b
    PROVE  Diff(Wrap(n + a), Wrap(n + b)) = a - b
  <1> DEFINE m == 2 * Half
  <1>1. m \in Nat /\ m > 0 /\ Half \in Nat
    BY KTimerAssumption
  <1>2. Wrap(Wrap(n + a) - Wrap(n + b)) = (a - b) % m
    <2>1. PICK x \in Int : x = n + a
      OBVIOUS
    <2>2. PICK y \in Int : y = n + b
      OBVIOUS
    <2>3. ((x % m) - (y % m)) % m = (x - y) % m
      BY <1>1, ModMinus
    <2>4. x - y = a - b
      BY <2>1, <2>2
    <2> QED BY <2>1, <2>2, <2>3, <2>4 DEF Wrap
  <1>3. CASE a - b >= 0
    <2>1. (a - b) % m = a - b
      BY <1>1, <1>3, ModUnique
    <2> QED BY <1>1, <1>2, <2>1 DEF Diff
  <1>4. CASE a - b < 0
    <2>1. a - b = ((-1) * m) + (a - b + m) /\ a - b + m \in 0..(m - 1)
      BY <1>1, <1>4
    <2>2. (a - b) % m = a - b + m
      BY <1>1, <2>1, ModUnique
    <2> QED BY <1>1, <1>2, <1>4, <2>2 DEF Diff
  <1> QED BY <1>3, <1>4

(* A word is its own wrap: now is the time 0 away from now. *)
LEMMA NowIs == \A n \in Word : Wrap(n + 0) = n
  BY KTimerAssumption, ModUnique DEF Wrap, Word

(* The word x is the place of the time a from now. *)
At(x, a) == x = Wrap(now + a)

LEMMA DiffAt ==
    ASSUME now \in Int, NEW x, NEW y, NEW a \in Int, NEW b \in Int, At(x, a), At(y, b),
           a - b < Half, -Half <= a - b
    PROVE  Diff(x, y) = a - b
  BY DiffIs DEF At

-----------------------------------------------------------------------------
(* The two comparisons the walk and the gates make. *)

LEMMA Ranges ==
    ASSUME Horizon, TimerTypeOK
    PROVE  /\ Half \in Nat /\ MaxSleep \in Nat /\ MaxLate \in Nat
           /\ MaxSleep + MaxLate < Half
           /\ now \in Int /\ since \in 0..MaxLate
           /\ \A p \in asleep : p \in Slots /\ left[p] \in Int /\ left[p] <= MaxSleep
  BY KTimerAssumption DEF Horizon, TimerTypeOK, Word

(* The walk finds due exactly who has no time left. *)
LEMMA DueIs ==
    ASSUME Horizon, TimerIInv, NEW p \in asleep
    PROVE  Due(p) <=> left[p] <= 0
  <1>1. /\ Half \in Nat /\ MaxSleep + MaxLate < Half /\ now \in Int /\ now \in Word
        /\ left[p] \in Int /\ left[p] <= MaxSleep /\ -left[p] <= MaxLate
        /\ MaxSleep \in Nat /\ MaxLate \in Nat
    BY Ranges DEF TimerIInv, TimerTypeOK, NoOversleep
  <1>2. At(wake_us[p], left[p]) /\ At(now, 0)
    BY <1>1, NowIs DEF TimerIInv, Deadlines, At
  <1>3. Diff(now, wake_us[p]) = 0 - left[p]
    BY <1>1, <1>2, DiffAt
  <1> QED BY <1>1, <1>3 DEF Due

(* The gate opens exactly when the hint's time has come. *)
LEMMA GateIs ==
    ASSUME Horizon, TimerIInv, NEW g \in -MaxLate..MaxSleep, IsHint(g)
    PROVE  Diff(now, next_us) = -g
  <1>1. /\ Half \in Nat /\ MaxSleep + MaxLate < Half /\ now \in Int /\ now \in Word
        /\ MaxSleep \in Nat /\ MaxLate \in Nat
    BY Ranges DEF TimerIInv, TimerTypeOK
  <1>2. At(next_us, g) /\ At(now, 0)
    BY <1>1, NowIs DEF IsHint, At
  <1>3. Diff(now, next_us) = 0 - g
    BY <1>1, <1>2, DiffAt
  <1> QED BY <1>1, <1>3

(* Of some sleepers with time left one is soonest, and Soonest is where its
   time says. *)
LEMMA SoonestIs ==
    ASSUME Horizon, TimerIInv, NEW S \in SUBSET asleep, S # {}, \A p \in S : left[p] > 0
    PROVE  \E g \in 0..MaxSleep : Soonest(S) = Wrap(now + g) /\ \A p \in S : g <= left[p]
  <1>1. /\ Half \in Nat /\ MaxSleep \in Nat /\ MaxLate \in Nat
        /\ MaxSleep + MaxLate < Half /\ now \in Int
        /\ \A p \in S : left[p] \in Nat /\ left[p] <= MaxSleep
    BY Ranges DEF TimerIInv
  <1>2. \A p \in S : wake_us[p] = Wrap(now + left[p])
    BY DEF TimerIInv, Deadlines
  <1>3. \A p, q \in S : Diff(wake_us[p], wake_us[q]) = left[p] - left[q]
    <2>1. \A p \in S : At(wake_us[p], left[p])
      BY <1>2 DEF At
    <2> QED BY <1>1, <2>1, DiffAt
  <1>4. PICK k \in {left[p] : p \in S} : \A j \in {left[p] : p \in S} : k <= j
    <2>1. {left[p] : p \in S} \in SUBSET Nat /\ {left[p] : p \in S} # {}
      BY <1>1
    <2> QED BY <2>1, LeastNat
  <1>5. PICK q \in S : k = left[q]
    OBVIOUS
  <1>6. \A p \in S : Diff(wake_us[p], wake_us[q]) >= 0
    <2>1. \A p \in S : left[q] <= left[p]
      BY <1>4, <1>5
    <2> QED BY <1>1, <1>3, <2>1
  <1>7. Soonest(S) \in {wake_us[p] : p \in S} /\ \A p \in S : Diff(wake_us[p], Soonest(S)) >= 0
    BY <1>6 DEF Soonest
  <1>8. PICK r \in S : Soonest(S) = wake_us[r]
    BY <1>7
  <1>9. \A p \in S : left[p] >= left[r]
    BY <1>1, <1>3, <1>7, <1>8
  <1> QED BY <1>1, <1>2, <1>8, <1>9

-----------------------------------------------------------------------------
LEMMA TimerInitIInv == TimerInit => TimerIInv
  BY KTimerAssumption DEF TimerInit, TimerIInv, TimerTypeOK, NoOversleep, Deadlines, Hint, Word

LEMMA StepAdvance == ASSUME Horizon, TimerIInv, Advance PROVE TimerIInv'
  <1> USE DEF Advance
  <1>1. /\ Half \in Nat /\ MaxSleep \in Nat /\ MaxLate \in Nat
        /\ now \in Int /\ since \in 0..MaxLate
        /\ \A p \in asleep : p \in Slots /\ left[p] \in Int /\ left[p] <= MaxSleep
    BY Ranges DEF TimerIInv
  <1>2. \A p \in asleep : left'[p] = left[p] - 1
    BY <1>1 DEF TimerIInv, NoOversleep, TimerTypeOK
  <1>3. now' = Wrap(now + 1) /\ now' \in Word /\ now + 1 \in Int
    BY <1>1, WrapType
  <1>4. TimerTypeOK'
    BY <1>1, <1>3 DEF TimerIInv, TimerTypeOK
  <1>5. NoOversleep'
    BY <1>1, <1>2 DEF TimerIInv, NoOversleep
  <1>6. \A k \in Int : Wrap(now' + (k - 1)) = Wrap(now + k)
    <2> SUFFICES ASSUME NEW k \in Int PROVE Wrap(now' + (k - 1)) = Wrap(now + k)
      OBVIOUS
    <2>1. PICK a \in Int : a = now + 1
      BY <1>1
    <2>2. PICK b \in Int : b = k - 1
      OBVIOUS
    <2>3. Wrap(Wrap(a) + b) = Wrap(a + b) /\ a + b = now + k
      BY <1>1, <2>1, <2>2, WrapPlus
    <2> QED BY <1>3, <2>1, <2>2, <2>3
  <1>7. Deadlines'
    BY <1>1, <1>2, <1>6 DEF TimerIInv, Deadlines
  <1>8. Hint'
    <2>1. SUFFICES ASSUME ntimed # 0
                   PROVE  \E g \in -MaxLate..MaxSleep : IsHint(g)'
      BY DEF Hint, TimerIInv
    <2>2. PICK g \in -MaxLate..MaxSleep : IsHint(g)
      BY <2>1 DEF TimerIInv, Hint
    <2>3. g - 1 \in -MaxLate..MaxSleep
      BY <1>1, <2>2 DEF IsHint
    <2>4. IsHint(g - 1)'
      BY <1>1, <1>2, <1>6, <2>2 DEF IsHint
    <2> QED BY <2>3, <2>4
  <1> QED BY <1>4, <1>5, <1>7, <1>8 DEF TimerIInv

LEMMA StepSleep ==
    ASSUME Horizon, TimerIInv, NEW p \in Slots, NEW us \in 0..MaxSleep, Sleep(p, us)
    PROVE  TimerIInv'
  <1> USE DEF Sleep
  <1>1. /\ Half \in Nat /\ MaxSleep \in Nat /\ MaxLate \in Nat
        /\ MaxSleep + MaxLate < Half
        /\ now \in Int /\ since \in 0..MaxLate
        /\ \A q \in asleep : q \in Slots /\ left[q] \in Int /\ left[q] <= MaxSleep
    BY Ranges DEF TimerIInv
  <1>2. Wrap(now + us) \in Word
    BY <1>1, WrapType
  <1>3. /\ left'[p] = us /\ wake_us'[p] = Wrap(now + us)
        /\ \A q \in asleep : q # p /\ left'[q] = left[q] /\ wake_us'[q] = wake_us[q]
    BY <1>1 DEF TimerIInv, TimerTypeOK
  <1>4. TimerTypeOK'
    BY <1>1, <1>2 DEF TimerIInv, TimerTypeOK, arm_timed
  <1>5. NoOversleep' /\ Deadlines'
    BY <1>1, <1>3 DEF TimerIInv, NoOversleep, Deadlines
  <1>6. ntimed' # 0
    BY DEF arm_timed, TimerIInv, TimerTypeOK
  <1>7. \E g \in -MaxLate..MaxSleep : IsHint(g)'
    <2>1. CASE ntimed = 0
      <3>1. asleep = {} /\ next_us' = Wrap(now + us)
        BY <2>1 DEF TimerIInv, Hint, arm_timed
      <3>2. us \in -MaxLate..MaxSleep /\ IsHint(us)'
        BY <1>1, <1>3, <3>1 DEF IsHint
      <3> QED BY <3>2
    <2>2. CASE ntimed # 0
      <3>1. PICK g \in -MaxLate..MaxSleep : IsHint(g)
        BY <2>2 DEF TimerIInv, Hint
      <3>2. Diff(Wrap(now + us), next_us) = us - g
        <4>1. At(Wrap(now + us), us) /\ At(next_us, g)
          BY <3>1 DEF IsHint, At
        <4> QED BY <1>1, <4>1, DiffAt
      <3>3. CASE us - g < 0
        <4>1. next_us' = Wrap(now + us)
          BY <3>2, <3>3 DEF arm_timed
        <4>2. us \in -MaxLate..MaxSleep /\ IsHint(us)'
          BY <1>1, <1>3, <3>1, <3>3, <4>1 DEF IsHint
        <4> QED BY <4>2
      <3>4. CASE ~(us - g < 0)
        <4>1. next_us' = next_us
          BY <2>2, <3>2, <3>4 DEF arm_timed
        <4>2. IsHint(g)'
          BY <1>1, <1>3, <3>1, <3>4, <4>1 DEF IsHint
        <4> QED BY <4>2
      <3> QED BY <3>3, <3>4
    <2> QED BY <2>1, <2>2
  <1> QED BY <1>4, <1>5, <1>6, <1>7 DEF TimerIInv, Hint

(* Somebody else ends a sleep: the hint only becomes early. *)
LEMMA StepOtherWake ==
    ASSUME Horizon, TimerIInv, NEW p \in Slots, OtherWake(p)
    PROVE  TimerIInv'
  <1> USE DEF OtherWake
  <1>1. MaxSleep \in Nat /\ MaxLate \in Nat /\ Half \in Nat /\ Half > 1
    BY KTimerAssumption
  <1>2. \A q \in asleep' : q \in asleep /\ left'[q] = left[q] /\ wake_us'[q] = wake_us[q]
    BY DEF TimerIInv, TimerTypeOK
  <1>3. TimerTypeOK'
    BY <1>1 DEF TimerIInv, TimerTypeOK, Word
  <1>4. NoOversleep' /\ Deadlines'
    BY <1>2 DEF TimerIInv, NoOversleep, Deadlines
  <1>5. Hint'
    <2>1. ASSUME NEW g \in -MaxLate..MaxSleep, IsHint(g) PROVE IsHint(g)'
      BY <1>2, <2>1 DEF IsHint
    <2> QED BY <2>1 DEF TimerIInv, Hint
  <1> QED BY <1>3, <1>4, <1>5 DEF TimerIInv

(* After a tick nobody who is still asleep is due, whether the gates let the
   walk run or not. *)
LEMMA TickLeaves ==
    ASSUME Horizon, TimerIInv, Tick
    PROVE  /\ asleep' \subseteq asleep
           /\ \A p \in asleep' : left[p] > 0
           /\ \A p \in asleep \ asleep' : left[p] <= 0
           /\ asleep' # {} => ntimed' # 0
           /\ ntimed' \in Nat /\ next_us' \in Word
           /\ ntimed' # 0 => \E g \in 0..MaxSleep :
                 next_us' = Wrap(now + g) /\ \A p \in asleep' : g <= left[p]
  <1>1. /\ Half \in Nat /\ MaxSleep \in Nat /\ MaxLate \in Nat
        /\ now \in Int /\ Half > 1
        /\ \A p \in asleep : p \in Slots /\ left[p] \in Int /\ left[p] <= MaxSleep
    BY Ranges, KTimerAssumption DEF TimerIInv
  <1>2. CASE GatesOpen
    <2>1. tick_wake
      BY <1>2 DEF Tick
    <2>2. /\ asleep' \subseteq asleep
          /\ \A p \in asleep' : left[p] > 0
          /\ \A p \in asleep \ asleep' : left[p] <= 0
      BY <1>1, <2>1, DueIs DEF tick_wake
    <2>3. CASE asleep' = {}
      <3>1. ntimed' = 0 /\ next_us' = 0 /\ 0 \in Word
        BY <1>1, <2>1, <2>3 DEF tick_wake, Word
      <3> QED BY <2>2, <2>3, <3>1
    <2>4. CASE asleep' # {}
      <3>1. ntimed' = 1 /\ next_us' = Soonest(asleep')
        BY <2>1, <2>4 DEF tick_wake
      <3>2. PICK g \in 0..MaxSleep :
              Soonest(asleep') = Wrap(now + g) /\ \A p \in asleep' : g <= left[p]
        BY <2>2, <2>4, SoonestIs
      <3>3. Wrap(now + g) \in Word
        BY <1>1, WrapType
      <3> QED BY <2>2, <3>1, <3>2, <3>3
    <2> QED BY <2>3, <2>4
  <1>3. CASE ~GatesOpen
    <2>1. UNCHANGED <<asleep, ntimed, next_us>>
      BY <1>3 DEF Tick
    <2>2. ntimed \in Nat /\ next_us \in Word /\ (asleep # {} => ntimed # 0)
      BY DEF TimerIInv, TimerTypeOK, Hint
    <2>3. CASE ntimed = 0
      BY <2>1, <2>2, <2>3
    <2>4. CASE ntimed # 0
      <3>1. PICK g \in -MaxLate..MaxSleep : IsHint(g)
        BY <2>4 DEF TimerIInv, Hint
      <3>2. g > 0
        BY <1>1, <1>3, <2>4, <3>1, GateIs DEF GatesOpen
      <3>3. g \in 0..MaxSleep /\ next_us = Wrap(now + g) /\ \A p \in asleep : g <= left[p]
        BY <3>1, <3>2 DEF IsHint
      <3>4. \A p \in asleep : left[p] > 0
        BY <1>1, <3>2, <3>3
      <3> QED BY <2>1, <2>2, <3>3, <3>4
    <2> QED BY <2>3, <2>4
  <1> QED BY <1>2, <1>3

LEMMA StepTick == ASSUME Horizon, TimerIInv, Tick PROVE TimerIInv'
  <1>1. /\ Half \in Nat /\ Half > 1 /\ MaxSleep \in Nat /\ MaxLate \in Nat
        /\ \A p \in asleep : p \in Slots /\ left[p] \in Int /\ left[p] <= MaxSleep
    BY Ranges, KTimerAssumption DEF TimerIInv
  <1>2. /\ asleep' \subseteq asleep
        /\ \A p \in asleep' : left[p] > 0
        /\ asleep' # {} => ntimed' # 0
        /\ ntimed' \in Nat /\ next_us' \in Word
        /\ ntimed' # 0 => \E g \in 0..MaxSleep :
               next_us' = Wrap(now + g) /\ \A p \in asleep' : g <= left[p]
    BY TickLeaves
  <1>3. /\ left' = [p \in Slots |-> IF p \in asleep' THEN left[p] ELSE 0]
        /\ wake_us' = [p \in Slots |-> IF p \in asleep' THEN wake_us[p] ELSE 0]
        /\ since' = 0 /\ now' = now
    BY DEF Tick
  <1>4. \A p \in asleep' : left'[p] = left[p] /\ wake_us'[p] = wake_us[p]
    BY <1>1, <1>2, <1>3
  <1>5. TimerTypeOK'
    BY <1>1, <1>2, <1>3 DEF TimerIInv, TimerTypeOK, Word
  <1>6. NoOversleep' /\ Deadlines'
    BY <1>1, <1>2, <1>3, <1>4 DEF TimerIInv, NoOversleep, Deadlines
  <1>7. Hint'
    <2>1. ASSUME ntimed' # 0 PROVE \E g \in -MaxLate..MaxSleep : IsHint(g)'
      <3>1. PICK g \in 0..MaxSleep :
              next_us' = Wrap(now + g) /\ \A p \in asleep' : g <= left[p]
        BY <1>2, <2>1
      <3>2. g \in -MaxLate..MaxSleep /\ IsHint(g)'
        BY <1>1, <1>3, <1>4, <3>1 DEF IsHint
      <3> QED BY <3>2
    <2> QED BY <1>2, <2>1 DEF Hint
  <1> QED BY <1>5, <1>6, <1>7 DEF TimerIInv

LEMMA TimerStepIInv == ASSUME Horizon, TimerIInv, [TimerNext]_timervars PROVE TimerIInv'
  <1>1. CASE UNCHANGED timervars
    BY <1>1 DEF timervars, TimerIInv, TimerTypeOK, NoOversleep, Deadlines, Hint, IsHint
  <1>2. CASE Advance
    BY <1>2, StepAdvance
  <1>3. CASE Tick
    BY <1>3, StepTick
  <1>4. ASSUME NEW p \in Slots, NEW us \in 0..MaxSleep, Sleep(p, us) PROVE TimerIInv'
    BY <1>4, StepSleep
  <1>5. ASSUME NEW p \in Slots, OtherWake(p) PROVE TimerIInv'
    BY <1>5, StepOtherWake
  <1> QED BY <1>1, <1>2, <1>3, <1>4, <1>5 DEF TimerNext

(* The inductive invariant holds in every reachable state. *)
THEOREM TimerInvariance == ASSUME Horizon PROVE TimerSpec => []TimerIInv
  BY TimerInitIInv, TimerStepIInv, PTL DEF TimerSpec

(* The hints of arm_timed and tick_wake are one-sided for any table, any
   counter and any history of sleeps: next_us is never later than a sleeper's
   deadline and ntimed is not 0 while there is one. *)
THEOREM HintsNeverLate == ASSUME Horizon PROVE TimerSpec => []TimerInv
  <1>1. ASSUME TimerIInv PROVE TimerInv
    <2>1. ASSUME NEW p \in asleep PROVE ntimed # 0 /\ Diff(wake_us[p], next_us) >= 0
      <3>1. PICK g \in -MaxLate..MaxSleep : IsHint(g)
        BY <1>1, <2>1 DEF TimerIInv, Hint
      <3>2. /\ g <= left[p] /\ next_us = Wrap(now + g) /\ wake_us[p] = Wrap(now + left[p])
            /\ left[p] \in Int /\ left[p] <= MaxSleep /\ now \in Int /\ Half \in Nat
            /\ MaxSleep + MaxLate < Half /\ MaxSleep \in Nat /\ MaxLate \in Nat
        BY <1>1, <3>1, Ranges DEF TimerIInv, Deadlines, IsHint
      <3>3. At(wake_us[p], left[p]) /\ At(next_us, g)
        BY <3>2 DEF At
      <3>4. Diff(wake_us[p], next_us) = left[p] - g
        BY <3>2, <3>3, DiffAt
      <3> QED BY <1>1, <3>2, <3>4 DEF TimerIInv, Hint
    <2> QED BY <1>1, <2>1 DEF TimerIInv, TimerInv, NeverStaleLate
  <1> QED BY <1>1, TimerInvariance, PTL

(* Nobody sleeps past the tick that follows its deadline. *)
THEOREM NobodyOversleeps == ASSUME Horizon PROVE TimerSpec => []NoOversleep
  <1>1. TimerIInv => NoOversleep
    BY DEF TimerIInv
  <1> QED BY <1>1, TimerInvariance, PTL

(* tick_wake wakes nobody before its time. *)
THEOREM NobodyWokenEarly == ASSUME Horizon PROVE TimerSpec => NoEarlyWake
  <1>1. TimerIInv /\ [TimerNext]_timervars => [Tick => \A p \in asleep \ asleep' : left[p] <= 0]_timervars
    BY TickLeaves
  <1> QED BY <1>1, TimerInvariance, PTL DEF TimerSpec, NoEarlyWake
=============================================================================
