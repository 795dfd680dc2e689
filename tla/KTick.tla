------------------------------- MODULE KTick -------------------------------
(***************************************************************************)
(* Delivery of the scheduler tick on the DMA machine.                      *)
(*                                                                         *)
(* A one-shot DMA channel (the tick injector) patches the dispatch word of *)
(* the running process with the scheduler vector; the process detours into *)
(* kernel.dasm's sched_entry at its next safepoint.  While the kernel runs *)
(* the injector is aimed at the kernel's own word tickpending, and it is   *)
(* re-armed only on the way out and only when the kernel has counted the   *)
(* previous fire.  With console DMA a second channel, the wake channel,    *)
(* patches the same words whenever a received byte lands in the RX ring.   *)
(*                                                                         *)
(* The kernel is one sequential thread; the two channels act between any   *)
(* two of its records.  One action below is therefore one access of the    *)
(* kernel to a word or a register that a channel also touches.  Which      *)
(* process the scheduler picks is left open here: module KProc decides it. *)
(***************************************************************************)
EXTENDS Naturals

CONSTANTS
    Procs,      \* process slots
    Words,      \* dispatch words of process images
    ConsRings,  \* TRUE on boards whose kernel is linked with kcons.c
    FgShell     \* TRUE when fgpid # 0: the kernel drains the console

ASSUME KTickAssumption ==
    /\ "parkvec" \notin Words
    /\ "tickpending" \notin Words
    /\ "scrap" \notin Words
    /\ "none" \notin Words
    /\ ConsRings \in BOOLEAN
    /\ FgShell \in BOOLEAN

(* Words a channel can patch whose value the kernel looks at again. *)
Cells == Words \cup {"parkvec", "tickpending"}

VARIABLES
    patched,    \* patched[c]: cell c holds the scheduler vector
    armed,      \* the injector's TRANS_COUNT is 1: one fire is to come
    injAt,      \* the injector's WRITE_ADDR
    wakeAt,     \* the wake channel's WRITE_ADDR
    consOn,     \* kcons.c cons_on
    rx,         \* a byte has come in since cons_poll last looked at the RX
                \* ring (or UART FIFO)
    wakeDue,    \* the RX channel has chained to the wake channel
    pc,         \* where the machine is; see Place
    phase,      \* the step of a consumption site; see Phase
    kind,       \* which stub entered the kernel: "tick" or "sys"
    curr,       \* the current process
    next,       \* the process swtch or the syscall leaves to; "park"
    disp,       \* disp[p]: p's dispatch word, proc[p].pdispatch
    entryDisp,  \* entry_disp: the word aimed at when the kernel was entered
    rearm,      \* a fire was counted in this entry
    tickTaken,  \* tick_taken: with console DMA, the same, to count it once
    parked,     \* the kernel left into the park loop
    waspark,    \* this entry came from the park loop
    owed        \* timer fires minus ticks counted (a history variable)

chan == <<patched, armed, injAt, wakeAt, rx, wakeDue>>
kern == <<kind, curr, next, disp, entryDisp, parked, waspark>>
vars == <<patched, armed, injAt, wakeAt, consOn, rx, wakeDue, pc, phase, kind,
          curr, next, disp, entryDisp, rearm, tickTaken, parked, waspark, owed>>

(***************************************************************************)
(* A consumption site reads a cell ("test"), restores it ("clear") and     *)
(* calls fire_income ("income").  The four sites are the two halves of     *)
(* kenter and the two of kexit / the park path of swtch; dma_ktick calls   *)
(* fire_income once more for the detour that brought it there.             *)
(***************************************************************************)
Site == {"enterDisp", "enterPend", "exitDisp", "exitPend"}
Phase == {"test", "clear", "income"}
Plain == {"user", "park", "eoi", "kenter", "aimPending", "detour", "body",
          "retarget", "drain", "aimWake", "rearm"}
Place == Site \cup Plain

Goto(l) == pc' = l /\ phase' = "test"

TypeOK ==
    /\ patched \in [Cells -> BOOLEAN]
    /\ armed \in BOOLEAN
    /\ injAt \in Cells
    /\ wakeAt \in Cells \cup {"scrap"}
    /\ consOn \in BOOLEAN
    /\ rx \in BOOLEAN
    /\ wakeDue \in BOOLEAN
    /\ pc \in Place
    /\ phase \in Phase
    /\ kind \in {"tick", "sys"}
    /\ curr \in Procs
    /\ next \in Procs \cup {"park"}
    /\ disp \in [Procs -> Words]
    /\ entryDisp \in Words \cup {"none"}
    /\ rearm \in BOOLEAN
    /\ tickTaken \in BOOLEAN
    /\ parked \in BOOLEAN
    /\ waspark \in BOOLEAN
    /\ owed \in {0, 1}

(***************************************************************************)
(* arm_tick_ch: the loader wires every image, starts slot 0 and arms the   *)
(* injector onto its dispatch word.                                        *)
(***************************************************************************)
Init ==
    /\ patched = [c \in Cells |-> FALSE]
    /\ armed = TRUE
    /\ wakeAt = "scrap"
    /\ consOn = FALSE
    /\ rx = FALSE
    /\ wakeDue = FALSE
    /\ pc = "user"
    /\ phase = "test"
    /\ kind = "sys"
    /\ curr \in Procs
    /\ next = curr
    /\ disp \in [Procs -> Words]
    /\ injAt = disp[curr]
    /\ entryDisp = "none"
    /\ rearm = FALSE
    /\ tickTaken = FALSE
    /\ parked = FALSE
    /\ waspark = FALSE
    /\ owed = 0

-----------------------------------------------------------------------------
(* The hardware. *)

(* TIMER1's pulse lets the injector copy vecSched over its target. *)
TimerFire ==
    /\ armed
    /\ armed' = FALSE
    /\ patched' = [patched EXCEPT ![injAt] = TRUE]
    /\ owed' = owed + 1
    /\ UNCHANGED <<injAt, wakeAt, consOn, rx, wakeDue, pc, phase, rearm, tickTaken, kern>>

(* A byte arrives.  With console DMA the RX channel lands it in the ring and
   chains to the wake channel; it is not re-armed until that one has run. *)
RxByte ==
    /\ ~wakeDue
    /\ rx' = TRUE
    /\ wakeDue' = consOn
    /\ UNCHANGED <<patched, armed, injAt, wakeAt, consOn, pc, phase, rearm, tickTaken,
                   owed, kern>>

WakeFire ==
    /\ wakeDue
    /\ wakeDue' = FALSE
    /\ patched' = IF wakeAt = "scrap" THEN patched
                  ELSE [patched EXCEPT ![wakeAt] = TRUE]
    /\ UNCHANGED <<armed, injAt, wakeAt, consOn, rx, pc, phase, rearm, tickTaken,
                   owed, kern>>

-----------------------------------------------------------------------------
(* User mode and the kernel.dasm stubs. *)

(* The word the running code jumps through: the process's dispatch word at a
   safepoint, parkvec in the park loop.  kw_pcurdisp holds its address. *)
curDisp == IF parked THEN "parkvec" ELSE disp[curr]

(* A safepoint, or one turn of parkloop, that finds the vector. *)
Detour ==
    /\ pc \in {"user", "park"}
    /\ patched[curDisp]
    /\ kind' = "tick"
    /\ Goto("eoi")
    /\ UNCHANGED <<chan, consOn, curr, next, disp, entryDisp, rearm, tickTaken,
                   parked, waspark, owed>>

(* usys calls sys_entry: no safepoint, no EOI. *)
Syscall ==
    /\ pc = "user"
    /\ kind' = "sys"
    /\ Goto("kenter")
    /\ UNCHANGED <<chan, consOn, curr, next, disp, entryDisp, rearm, tickTaken,
                   parked, waspark, owed>>

(* sched_entry's first record: *pCurDisp := curThunk. *)
Eoi ==
    /\ pc = "eoi"
    /\ patched' = [patched EXCEPT ![curDisp] = FALSE]
    /\ Goto("kenter")
    /\ UNCHANGED <<armed, injAt, wakeAt, rx, wakeDue, consOn, kern, rearm,
                   tickTaken, owed>>

-----------------------------------------------------------------------------
(* The kernel. *)

(* kenter up to its first test: the flags, kcons_aim(0), entry_disp.
   The first entry's kboot_init prints the banner, which brings console DMA up
   (here an entry may, as long as it is off). *)
Kenter ==
    /\ pc = "kenter"
    /\ rearm' = FALSE
    /\ tickTaken' = FALSE
    /\ wakeAt' = "scrap"
    /\ consOn' \in {consOn, consOn \/ ConsRings}
    /\ waspark' = parked
    /\ parked' = FALSE
    /\ IF parked
       THEN /\ entryDisp' = "none"
            /\ Goto("aimPending")
       ELSE /\ entryDisp' = disp[curr]
            /\ Goto("enterDisp")
    /\ UNCHANGED <<patched, armed, injAt, rx, wakeDue, kind, curr, next, disp, owed>>

(* The cell a site looks at. *)
Mut_CellOf(s) ==                     \* kexit looks at proc[curr].pdispatch
    IF s = "enterDisp" THEN entryDisp
    ELSE IF s = "exitDisp" THEN disp[curr] ELSE "tickpending"
CellOf(s) == IF s \in {"enterDisp", "exitDisp"} THEN entryDisp ELSE "tickpending"

(* Where control goes when site s is done. *)
AfterSite(s) ==
    CASE s = "enterDisp" -> "aimPending"
      [] s = "enterPend" -> IF kind = "tick" THEN "detour" ELSE "body"
      [] s = "exitDisp"  -> "retarget"
      [] s = "exitPend"  -> "drain"

Test(s) ==
    /\ pc = s /\ phase = "test"
    /\ IF CellOf(s) # "none" /\ patched[CellOf(s)]
       THEN phase' = "clear" /\ UNCHANGED pc
       ELSE Goto(AfterSite(s))
    /\ UNCHANGED <<chan, consOn, kern, rearm, tickTaken, owed>>

Clear(s) ==
    /\ pc = s /\ phase = "clear"
    /\ patched' = [patched EXCEPT ![CellOf(s)] = FALSE]
    /\ phase' = "income"
    /\ UNCHANGED <<pc, armed, injAt, wakeAt, rx, wakeDue, consOn, kern, rearm,
                   tickTaken, owed>>

(* cons_poll as a whole: it looks at what waits (what it takes and what the
   backpressure of a full line buffer leaves is KCons' subject).  Its echo can be the first console
   output, which brings console DMA up (kcons_tx, cons_dma_init). *)
Mut_ConsPoll == UNCHANGED <<rx, consOn>>       \* only SYS_read drains
ConsPoll ==
    /\ rx' = (rx /\ ~FgShell)
    /\ \/ consOn' = consOn
       \/ FgShell /\ rx /\ consOn' = (consOn \/ ConsRings)

(* fire_income: a consumed fire is the timer's unless console DMA is on and
   the injector is still armed or its fire has been counted. *)
Mut_CountsAsTick == ~consOn \/ ~armed         \* tick_taken forgotten
CountsAsTick == ~consOn \/ (~armed /\ ~tickTaken)

FireIncome ==
    /\ rearm' = (rearm \/ CountsAsTick)
    /\ tickTaken' = (tickTaken \/ (consOn /\ CountsAsTick))
    /\ owed' = IF CountsAsTick THEN owed - 1 ELSE owed
    /\ ConsPoll
    /\ UNCHANGED <<patched, armed, injAt, wakeAt, wakeDue>>

Income(s) ==
    /\ pc = s /\ phase = "income"
    /\ FireIncome
    /\ Goto(AfterSite(s))
    /\ UNCHANGED kern

(* kenter: INJ_WRITE_ADDR = &tickpending. *)
AimPending ==
    /\ pc = "aimPending"
    /\ injAt' = "tickpending"
    /\ Goto("enterPend")
    /\ UNCHANGED <<patched, armed, wakeAt, rx, wakeDue, consOn, kern, rearm,
                   tickTaken, owed>>

(* dma_ktick: fire_income() for the delivered detour. *)
DetourIncome ==
    /\ pc = "detour"
    /\ FireIncome
    /\ Goto("body")
    /\ UNCHANGED kern

(* kexit and the park path of swtch begin by looking at entry_disp again. *)
Mut_ExitStart == "retarget"          \* a kexit without that second look
ExitStart == "exitDisp"

(* The rest of dma_ktick: the scheduler picks anyone, or parks. *)
TickBody ==
    /\ pc = "body" /\ kind = "tick"
    /\ next' \in Procs \cup {"park"}
    /\ Goto(ExitStart)
    /\ UNCHANGED <<chan, consOn, kind, curr, disp, entryDisp, parked, waspark,
                   rearm, tickTaken, owed>>

(* A syscall that returns or blocks.  Its first console output brings
   console DMA up with the wake channel aimed at the scrap word. *)
SysBody ==
    /\ pc = "body" /\ kind = "sys"
    /\ next' \in Procs \cup {"park"}
    /\ consOn' \in {consOn, consOn \/ ConsRings}
    /\ Goto(ExitStart)
    /\ UNCHANGED <<chan, kind, curr, disp, entryDisp, parked, waspark, rearm,
                   tickTaken, owed>>

(* fork: a free slot gets the caller's image, its dispatch word included. *)
ForkBody(c) ==
    /\ pc = "body" /\ kind = "sys"
    /\ c # curr
    /\ disp' = [disp EXCEPT ![c] = disp[curr]]
    /\ next' \in Procs
    /\ Goto(ExitStart)
    /\ UNCHANGED <<chan, consOn, kind, curr, entryDisp, parked, waspark, rearm,
                   tickTaken, owed>>

(* exec: a fresh image whose dispatch word is preset to its thunk; entry_disp
   keeps the word of the old one. *)
ExecBody(w) ==
    /\ pc = "body" /\ kind = "sys"
    /\ \A p \in Procs : disp[p] # w
    /\ disp' = [disp EXCEPT ![curr] = w]
    /\ patched' = [patched EXCEPT ![w] = FALSE]
    /\ next' = curr
    /\ Goto(ExitStart)
    /\ UNCHANGED <<armed, injAt, wakeAt, rx, wakeDue, consOn, kind, curr,
                   entryDisp, parked, waspark, rearm, tickTaken, owed>>

(* kexit: publish next and INJ_WRITE_ADDR = p->pdispatch; the park path of
   swtch: reset parkvec, publish the park cells and aim at parkvec. *)
Retarget ==
    /\ pc = "retarget"
    /\ IF next = "park"
       THEN /\ patched' = [patched EXCEPT !["parkvec"] = FALSE]
            /\ injAt' = "parkvec"
            /\ parked' = TRUE
            /\ UNCHANGED curr
       ELSE /\ injAt' = disp[next]
            /\ curr' = next
            /\ UNCHANGED <<patched, parked>>
    /\ Goto("exitPend")
    /\ UNCHANGED <<armed, wakeAt, rx, wakeDue, consOn, kind, next, disp,
                   entryDisp, waspark, rearm, tickTaken, owed>>

(* With console DMA on: take what arrived while the wake was aimed away. *)
Drain ==
    /\ pc = "drain"
    /\ IF consOn THEN ConsPoll ELSE UNCHANGED <<rx, consOn>>
    /\ Goto("aimWake")
    /\ UNCHANGED <<patched, armed, injAt, wakeAt, wakeDue, kern, rearm,
                   tickTaken, owed>>

(* kcons_aim(p->pdispatch) or kcons_aim(kw_parkvec). *)
AimWake ==
    /\ pc = "aimWake"
    /\ wakeAt' = IF consOn THEN curDisp ELSE wakeAt
    /\ Goto("rearm")
    /\ UNCHANGED <<patched, armed, injAt, rx, wakeDue, consOn, kern, rearm,
                   tickTaken, owed>>

(* if (rearm) INJ_COUNT_TRIG = 1, and the jump through nextResume. *)
Leave ==
    /\ pc = "rearm"
    /\ armed' = (armed \/ rearm)
    /\ Goto(IF parked THEN "park" ELSE "user")
    /\ UNCHANGED <<patched, injAt, wakeAt, rx, wakeDue, consOn, kern, rearm,
                   tickTaken, owed>>

Kernel ==
    \/ Eoi \/ Kenter \/ AimPending \/ DetourIncome \/ Retarget \/ Drain
    \/ AimWake \/ Leave \/ TickBody \/ SysBody
    \/ \E s \in Site : Test(s) \/ Clear(s) \/ Income(s)
    \/ \E c \in Procs : ForkBody(c)
    \/ \E w \in Words : ExecBody(w)

Next == TimerFire \/ RxByte \/ WakeFire \/ Detour \/ Syscall \/ Kernel

Spec == Init /\ [][Next]_vars

(* The timer keeps pulsing, a chained channel runs, the machine fetches its
   next record, and compiled code reaches its next safepoint (dmacc puts one
   on every back edge).  No process is obliged to make a system call. *)
FairSpec ==
    /\ Spec
    /\ WF_vars(TimerFire)
    /\ WF_vars(WakeFire)
    /\ WF_vars(Kernel)
    /\ WF_vars(Detour)

-----------------------------------------------------------------------------
(* Every timer fire is counted exactly once: no step counts a tick that did
   not fire, and the injector is not re-armed while a fire is uncounted. *)
CountedOnce ==
    /\ owed \in {0, 1}
    /\ armed => owed = 0

(* The silicon hang of kproc.c's entry_disp comment: outside the kernel, a
   fire that has not been counted is visible in the very word the machine
   jumps through, so it will be taken. *)
NoLostFire ==
    pc \in {"user", "park"} /\ ~armed => patched[curDisp]

(* No process but the running one is left with a patched dispatch word, so a
   later switch never resumes into a detour nobody fired. *)
NoStrayPatch ==
    pc = "user" =>
        /\ \A p \in Procs : patched[disp[p]] => disp[p] = disp[curr]
        /\ ~patched["tickpending"]

(* The types of the protocol's words and registers, the number of uncounted
   fires among them, and the state a user program is left with. *)
TickInv == TypeOK /\ NoStrayPatch

(* The timer never dies: whatever the interleaving, the injector is re-armed
   after each fire. *)
TimerLives == ~armed ~> armed

(* Whenever a byte comes in, cons_poll is called after it: neither the wake
   channel nor the tick is aimed away for good. *)
InputSeen == (FgShell /\ rx) ~> ~rx

(* What kcons.c says of the wake channel: input is an interrupt and does not
   wait for the next tick.  Outside the kernel, a byte nobody has looked at has
   a wake on the word the machine jumps through, or on its way there. *)
InputInterrupts ==
    FgShell /\ consOn /\ rx /\ pc \in {"user", "park"} => patched[curDisp] \/ wakeDue
=============================================================================
