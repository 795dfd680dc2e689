------------------------------- MODULE KProc -------------------------------
(***************************************************************************)
(* The process table of target/xv6/dma/kproc.c: vfork, exec, exit, wait,   *)
(* kill, timed sleeps, select, Ctrl-C and signal handlers, sbrk's chunk    *)
(* ownership, and the round-robin scheduler with its filler and park loop. *)
(*                                                                         *)
(* The kernel is not preemptible, but one kernel entry is not one step: a  *)
(* tick or a console byte that lands in it is consumed at its beginning    *)
(* (kenter) or at its end (kexit, the park path of swtch), on both sides   *)
(* of the point where the next process was picked.  An entry is therefore  *)
(* "enter" (income), the body, "exit1" (income), publication of the next   *)
(* process, "exit2" (income) and the jump out.                             *)
(*                                                                         *)
(* A record of proc stands for struct proc together with the slot's rows   *)
(* of execmem and heapmem.  Image and heap addresses are names, and only   *)
(* who holds and who owns them is kept.                                    *)
(***************************************************************************)
EXTENDS Naturals, FiniteSets

CONSTANTS
    NPROC,     \* slots of the process table
    MaxPid,    \* bound: no fork beyond this pid
    HasInit,   \* initpid # 0: slot 2 holds the orphan adopter
    Workloads  \* sets of system calls and console events that occur together

ASSUME KProcAssumption ==
    /\ NPROC \in Nat /\ NPROC >= 2
    /\ MaxPid \in Nat /\ MaxPid >= 2
    /\ HasInit \in BOOLEAN

VARIABLES
    ops,       \* the workload of this behaviour
    proc,      \* the table
    ctx,       \* ctx[m]: whose resume point image m's usys sigctx holds: a
               \* pid, InHandler for a point inside a handler, 0 for none
    nextpid,
    curr,      \* slot of the current process (stale while parked)
    next,      \* slot the kernel will leave to; 0 is the park loop
    mode,      \* see above; "user" and "park" are outside the kernel
    kind,      \* "sys" or "tick": the stub that entered the kernel
    waspark    \* the entry came from the park loop

vars == <<ops, proc, ctx, nextpid, curr, next, mode, kind, waspark>>

Slots == 1..NPROC
None == 0
fgpid == 1
initpid == IF HasInit THEN 2 ELSE 0

(* Boot images are named by their slot; the arena has room for one image per
   slot and one more, which exec needs while the old image is still there. *)
BootImages == 1..2
Arena == 3..(NPROC + 3)
Images == BootImages \cup Arena
Chunks == 1..NPROC

InHandler == MaxPid + 1

State == {"UNUSED", "SLEEPING", "RUNNABLE", "RUNNING", "ZOMBIE"}
(* Sleep channels are address tokens: 0, a proc struct (its slot), &ticks,
   &selwait_to and &selwait_inf. *)
ticks == NPROC + 1
selwait_to == NPROC + 2
selwait_inf == NPROC + 3
Chan == 0..(NPROC + 3)

ProcRecord ==
    [state : State, pid : 0..MaxPid, ppid : 0..MaxPid, chan : Chan,
     killed : BOOLEAN, img : Images, execmem : Arena \cup {None},
     heap : Chunks \cup {None}, heapmem : Chunks \cup {None},
     sigctx : BOOLEAN, sigpend : 0..2, at : {"main", "handler"}]

TypeOK ==
    /\ ops \in Workloads
    /\ proc \in [Slots -> ProcRecord]
    /\ ctx \in [Images -> 0..(MaxPid + 1)]
    /\ nextpid \in 1..(MaxPid + 1)
    /\ curr \in Slots
    /\ next \in 0..NPROC
    /\ mode \in {"user", "park", "enter", "exit1", "exit2"}
    /\ kind \in {"sys", "tick"}
    /\ waspark \in BOOLEAN

(* wireKernel: the loader fills slot 1 (the shell, running) and slot 2 (the
   adopter, a busy loop without system calls). *)
Init ==
    /\ ops \in Workloads
    /\ proc = [i \in Slots |->
         [state |-> CASE i = 1 -> "RUNNING"
                      [] i = 2 /\ HasInit -> "RUNNABLE"
                      [] OTHER -> "UNUSED",
          pid |-> IF i = 1 \/ (i = 2 /\ HasInit) THEN i ELSE 0,
          ppid |-> 0, chan |-> None, killed |-> FALSE,
          img |-> IF i = 2 THEN 2 ELSE 1, execmem |-> None, heap |-> None,
          heapmem |-> None, sigctx |-> FALSE, sigpend |-> 0, at |-> "main"]]
    /\ ctx = [m \in Images |-> 0]
    /\ nextpid = IF HasInit THEN 3 ELSE 2
    /\ curr = 1
    /\ next = 1
    /\ mode = "user"
    /\ kind = "sys"
    /\ waspark = FALSE

-----------------------------------------------------------------------------
(* Operations on a process table pr. *)

Used(pr, i) == pr[i].state # "UNUSED"
Live(pr, i) == pr[i].state \notin {"UNUSED", "ZOMBIE"}
Least(S) == CHOOSE x \in S : \A y \in S : x <= y
Greatest(S) == CHOOSE x \in S : \A y \in S : x >= y

Mut_Woken(p) == [p EXCEPT !.chan = None, !.state = "RUNNING"]
Woken(p) == [p EXCEPT !.chan = None, !.state = "RUNNABLE"]
SleepOn(p, c) == [p EXCEPT !.chan = c, !.state = "SLEEPING"]

(* pick(): the next RUNNABLE slot after curr, curr itself last; the adopter
   only when nobody else is. *)
After(c, off) == ((c - 1 + off) % NPROC) + 1

Mut_pick(pr, c) ==                    \* always the lowest ready slot
    LET ready == {i \in Slots : pr[i].state = "RUNNABLE"}
        peers == {i \in ready : pr[i].pid # initpid}
    IN IF peers # {} THEN Least(peers)
       ELSE IF ready # {} THEN Least(ready) ELSE 0

pick(pr, c) ==
    LET ready == {off \in 1..NPROC : pr[After(c, off)].state = "RUNNABLE"}
        peers == {off \in ready : pr[After(c, off)].pid # initpid}
    IN IF peers # {} THEN After(c, Least(peers))
       ELSE IF ready # {} THEN After(c, Least(ready)) ELSE 0

(* The suspended vfork ancestors of slot i: asleep on i, on their child's
   proc struct, and so on up. *)
VforkParents(pr, i) ==
    {q \in Slots : pr[q].state = "SLEEPING" /\ pr[q].chan = i}

VforkChain(pr, i) ==
    LET up[k \in 0..NPROC] ==
          IF k = 0 THEN VforkParents(pr, i)
          ELSE up[k-1] \cup UNION {VforkParents(pr, q) : q \in up[k-1]}
    IN up[NPROC]

vfork_release(pr, i) ==
    [q \in Slots |-> IF q \in VforkParents(pr, i) THEN Woken(pr[q]) ELSE pr[q]]

(* exec hands the child's heap to the suspended parents. *)
vfork_sync_brk(pr, i) ==
    [q \in Slots |-> IF q \in VforkChain(pr, i)
                     THEN [pr[q] EXCEPT !.heap = pr[i].heap] ELSE pr[q]]

kfree_exec(pr, i) ==
    [pr EXCEPT ![i] = [@ EXCEPT !.execmem = None, !.heapmem = None,
                                !.heap = None, !.sigctx = FALSE, !.sigpend = 0]]

(* The parent that is blocked in wait() takes the status itself. *)
Waiter(pr, i) ==
    {q \in Slots : /\ pr[q].pid = pr[i].ppid
                   /\ pr[q].state = "SLEEPING"
                   /\ pr[q].chan = q}

Mut_Reparent(pr, i) ==                \* zombies go to the adopter, too
    [q \in Slots |->
       IF initpid # 0 /\ q # i /\ Used(pr, q) /\ pr[q].ppid = pr[i].pid
       THEN [pr[q] EXCEPT !.ppid = initpid] ELSE pr[q]]

Reparent(pr, i) ==
    [q \in Slots |->
       IF initpid # 0 /\ q # i /\ Used(pr, q) /\ pr[q].ppid = pr[i].pid
       THEN [pr[q] EXCEPT !.ppid = initpid,
                          !.state = IF @ = "ZOMBIE" THEN "UNUSED" ELSE @]
       ELSE pr[q]]

(* A terminate() that forgets the blocked waiter. *)
Mut_terminate(pr, i) ==
    LET left == Reparent(vfork_release(kfree_exec(pr, i), i), i)
    IN [left EXCEPT ![i].killed = FALSE,
                    ![i].state = IF initpid # 0 /\ left[i].ppid = initpid
                                 THEN "UNUSED" ELSE "ZOMBIE"]

terminate(pr, i) ==
    LET left == Reparent(vfork_release(kfree_exec(pr, i), i), i)
        reaper == Waiter(left, i)
        gone == reaper # {} \/ (initpid # 0 /\ left[i].ppid = initpid)
    IN [q \in Slots |->
          IF q = i THEN [left[i] EXCEPT !.killed = FALSE,
                           !.state = IF gone THEN "UNUSED" ELSE "ZOMBIE"]
          ELSE IF q \in reaper THEN Woken(left[q]) ELSE left[q]]

(* Ctrl-C. *)
Mut_sigint_one(pr, i) ==              \* no drop while in the handler
    CASE pr[i].sigctx ->
           [pr EXCEPT ![i].sigpend = 1,
                      ![i].chan = IF pr[i].state = "SLEEPING" THEN None ELSE @,
                      ![i].state = IF @ = "SLEEPING" THEN "RUNNABLE" ELSE @]
      [] ~pr[i].sigctx /\ pr[i].state = "SLEEPING" -> terminate(pr, i)
      [] OTHER -> [pr EXCEPT ![i].killed = TRUE]

sigint_one(pr, i) ==
    CASE pr[i].sigctx /\ pr[i].sigpend # 0 -> pr
      [] pr[i].sigctx /\ pr[i].sigpend = 0 ->
           [pr EXCEPT ![i].sigpend = 1,
                      ![i].chan = IF pr[i].state = "SLEEPING" THEN None ELSE @,
                      ![i].state = IF @ = "SLEEPING" THEN "RUNNABLE" ELSE @]
      [] ~pr[i].sigctx /\ pr[i].state = "SLEEPING" -> terminate(pr, i)
      [] OTHER -> [pr EXCEPT ![i].killed = TRUE]

Subtree(pr, root) ==
    LET down[k \in 0..NPROC] ==
          IF k = 0 THEN {root}
          ELSE down[k-1] \cup
               {q \in Slots : /\ Used(pr, q) /\ pr[q].ppid # 0
                              /\ \E r \in down[k-1] : pr[r].pid = pr[q].ppid}
    IN {q \in down[NPROC] : Live(pr, q)}

(* The job in front of the shell: the youngest live child while it waits, or
   the vfork child it is suspended on.  A set with at most one element. *)
ForegroundRoot(pr) ==
    LET shells == {i \in Slots : Used(pr, i) /\ pr[i].pid = fgpid
                                 /\ pr[i].state = "SLEEPING"}
    IN IF shells = {} THEN {}
       ELSE LET sh == Least(shells)
                kids == {i \in Slots : Live(pr, i) /\ pr[i].ppid = fgpid}
            IN IF pr[sh].chan = sh
               THEN {i \in kids : \A j \in kids : pr[i].pid >= pr[j].pid}
               ELSE {i \in Slots : pr[sh].chan = i /\ Used(pr, i)}

Victims(pr) == UNION {Subtree(pr, root) : root \in ForegroundRoot(pr)}

deliver_sigint(pr) ==
    LET victims == Victims(pr)
        done[k \in 0..NPROC] ==
          IF k = 0 THEN pr
          ELSE IF k \in victims THEN sigint_one(done[k-1], k)
          ELSE done[k-1]
    IN done[NPROC]

(* Asleep in fork() until the child execs or exits.  Unless the workload has
   "hit", no kill and no Ctrl-C is aimed at such a process. *)
Suspended(i) == proc[i].state = "SLEEPING" /\ proc[i].chan \in Slots \ {i}
MayHit(i) == Suspended(i) => "hit" \in ops

-----------------------------------------------------------------------------
(* Entering the kernel and the income consumed there. *)

SysEnter ==
    /\ mode = "user" /\ proc[curr].pid # initpid
    /\ mode' = "enter" /\ kind' = "sys" /\ waspark' = FALSE
    /\ UNCHANGED <<ops, proc, ctx, nextpid, curr, next>>

TickEnter ==
    /\ mode = "user"
    /\ mode' = "enter" /\ kind' = "tick" /\ waspark' = FALSE
    /\ UNCHANGED <<ops, proc, ctx, nextpid, curr, next>>

ParkWake ==
    /\ mode = "park"
    /\ mode' = "enter" /\ kind' = "tick" /\ waspark' = TRUE
    /\ UNCHANGED <<ops, proc, ctx, nextpid, curr, next>>

Income == mode \in {"enter", "exit1", "exit2"}

(* tick_wake: a tick that finds deadlines due (KTimer says which). *)
TickWake(due) ==
    /\ Income
    /\ due # {}
    /\ \A i \in due : proc[i].state = "SLEEPING" /\ proc[i].chan \in {ticks, selwait_to}
    /\ proc' = [i \in Slots |-> IF i \in due THEN Woken(proc[i]) ELSE proc[i]]
    /\ UNCHANGED <<ops, ctx, nextpid, curr, next, mode, kind, waspark>>

(* cons_poll commits a line: sel_wake. *)
SelWake ==
    LET sel == {i \in Slots : proc[i].state = "SLEEPING"
                              /\ proc[i].chan \in {selwait_to, selwait_inf}}
    IN /\ Income /\ sel # {}
       /\ proc' = [i \in Slots |-> IF i \in sel THEN Woken(proc[i]) ELSE proc[i]]
       /\ UNCHANGED <<ops, ctx, nextpid, curr, next, mode, kind, waspark>>

(* cons_poll meets a Ctrl-C. *)
CtrlC ==
    /\ Income /\ "ctrlc" \in ops
    /\ \A v \in Victims(proc) : MayHit(v)
    /\ proc' = deliver_sigint(proc)
    /\ proc' # proc
    /\ UNCHANGED <<ops, ctx, nextpid, curr, next, mode, kind, waspark>>

-----------------------------------------------------------------------------
(* Leaving it. *)

(* swtch(), from table pr. *)
Swtch(pr) ==
    /\ proc' = pr
    /\ next' = pick(pr, curr)
    /\ mode' = "exit1"
    /\ UNCHANGED <<ops, nextpid, curr, kind, waspark>>

(* The system call returns to its caller. *)
Return(pr) ==
    /\ proc' = [pr EXCEPT ![curr].state = "RUNNING"]
    /\ next' = curr
    /\ mode' = "exit1"
    /\ UNCHANGED <<ops, curr, kind, waspark>>

(* kexit: a pending SIGINT with a handler diverts the resume; curr = next. *)
Publish ==
    /\ mode = "exit1"
    /\ mode' = "exit2"
    /\ IF next = 0
       THEN UNCHANGED <<proc, ctx, curr>>
       ELSE LET p == proc[next] IN
            /\ curr' = next
            /\ IF p.sigpend = 1 /\ p.sigctx
               THEN /\ ctx' = [ctx EXCEPT ![p.img] =
                                 IF p.at = "main" THEN p.pid ELSE InHandler]
                    /\ proc' = [proc EXCEPT ![next].sigpend = 2,
                                            ![next].at = "handler"]
               ELSE UNCHANGED <<proc, ctx>>
    /\ UNCHANGED <<ops, nextpid, next, kind, waspark>>

Leave ==
    /\ mode = "exit2"
    /\ mode' = IF next = 0 THEN "park" ELSE "user"
    /\ UNCHANGED <<ops, proc, ctx, nextpid, curr, next, kind, waspark>>

-----------------------------------------------------------------------------
(* dma_ktick. *)
Mut_DiesAtTick(p) == FALSE            \* kill enforced only by system calls
DiesAtTick(p) == p.killed

Ktick ==
    /\ mode = "enter" /\ kind = "tick"
    /\ IF waspark THEN Swtch(proc)
       ELSE IF DiesAtTick(proc[curr]) THEN Swtch(terminate(proc, curr))
       ELSE Swtch([proc EXCEPT ![curr].state =
                     IF @ = "RUNNING" THEN "RUNNABLE" ELSE @])
    /\ UNCHANGED ctx

(* dma_ksyscall: a pending kill lands before the call is looked at. *)
KilledAtEntry ==
    /\ mode = "enter" /\ kind = "sys"
    /\ proc[curr].killed
    /\ Swtch(terminate(proc, curr))
    /\ UNCHANGED ctx

Call(op) == mode = "enter" /\ kind = "sys" /\ ~proc[curr].killed /\ op \in ops

(* Every call that only answers, the failures of the others included. *)
SysAnswer ==
    /\ Call("answer")
    /\ Return(proc)
    /\ UNCHANGED <<ctx, nextpid>>

SysPause ==
    /\ Call("pause")
    /\ Swtch([proc EXCEPT ![curr] = SleepOn(@, ticks)])
    /\ UNCHANGED ctx

SysSelect(c) ==
    /\ Call("select")
    /\ Swtch([proc EXCEPT ![curr] = SleepOn(@, c)])
    /\ UNCHANGED ctx

Children(i) == {q \in Slots : Used(proc, q) /\ proc[q].ppid = proc[i].pid}

SysWait ==
    LET kids == Children(curr)
        zomb == {q \in kids : proc[q].state = "ZOMBIE"}
    IN /\ Call("wait")
       /\ CASE zomb # {} -> Return([proc EXCEPT ![Greatest(zomb)].state = "UNUSED"])
                            /\ UNCHANGED nextpid
            [] kids = {} -> Return(proc) /\ UNCHANGED nextpid
            [] OTHER     -> Swtch([proc EXCEPT ![curr] = SleepOn(@, curr)])
       /\ UNCHANGED ctx

(* The child gets the parent's struct but owns neither image nor heap.  A
   handler keeps to leaf work (usys.c's contract) and does not fork. *)
Mut_ForkChild(p, slot, pid) ==        \* ownership copied with the struct
    [p EXCEPT !.pid = pid, !.ppid = p.pid, !.chan = None, !.state = "RUNNABLE"]
ForkChild(p, slot, pid) ==
    [p EXCEPT !.pid = pid, !.ppid = p.pid, !.chan = None, !.state = "RUNNABLE",
              !.execmem = slot.execmem, !.heapmem = slot.heapmem]

Mut_ForkParent(p, ci) == [p EXCEPT !.state = "RUNNABLE"]    \* not suspended
ForkParent(p, ci) == SleepOn(p, ci)

SysFork ==
    LET free == {i \in Slots : ~Used(proc, i)}
        ci == Least(free)
    IN /\ Call("fork") /\ proc[curr].at = "main" /\ nextpid <= MaxPid /\ free # {}
       /\ LET pr == [proc EXCEPT ![ci] = ForkChild(proc[curr], @, nextpid),
                                 ![curr] = ForkParent(@, ci)]
          IN /\ proc' = pr
             /\ next' = pick(pr, curr)
       /\ nextpid' = nextpid + 1
       /\ mode' = "exit1"
       /\ UNCHANGED <<ops, ctx, curr, kind, waspark>>

(* kalloc gives what nobody owns (and, so that a dangling name stays visible,
   what nobody still uses). *)
FreeImages == {m \in Arena : \A i \in Slots :
                 proc[i].execmem # m /\ (Live(proc, i) => proc[i].img # m)}
FreeChunks == {h \in Chunks : \A i \in Slots :
                 proc[i].heapmem # h /\ (Live(proc, i) => proc[i].heap # h)}

(* The new image is loaded, then the caller's own old one is freed, then a
   suspended parent is released. *)
Exec(pr, i, m) ==
    vfork_release([kfree_exec(vfork_sync_brk(pr, i), i) EXCEPT
                     ![i].execmem = m, ![i].img = m, ![i].at = "main"], i)

SysExec ==
    /\ Call("exec") /\ FreeImages # {}
    /\ LET m == Least(FreeImages) IN
       /\ Return(Exec(proc, curr, m))
       /\ ctx' = [ctx EXCEPT ![m] = 0]
    /\ UNCHANGED nextpid

SysExit ==
    /\ Call("exit")
    /\ Swtch(terminate(proc, curr))
    /\ UNCHANGED ctx

SysKill(pid) ==
    LET hit == {i \in Slots : Used(proc, i) /\ proc[i].pid = pid}
        v == Least(hit)
    IN /\ Call("kill") /\ hit # {} /\ proc[v].state # "ZOMBIE" /\ MayHit(v)
       /\ CASE v = curr -> Swtch(terminate(proc, curr))
            [] v # curr /\ proc[v].state = "SLEEPING" ->
                 Return(terminate(proc, v)) /\ UNCHANGED nextpid
            [] OTHER -> Return([proc EXCEPT ![v].killed = TRUE]) /\ UNCHANGED nextpid
       /\ UNCHANGED ctx

(* ksbrk: the first call allocates the chunk; a vfork child introduces it to
   the suspended chain and hoists its ownership to the top. *)
Mut_Sbrk(pr, i, h) ==                 \* the chunk stays with the child
    [q \in Slots |-> IF q \in VforkChain(pr, i) \cup {i}
       THEN [pr[q] EXCEPT !.heap = h, !.heapmem = IF q = i THEN h ELSE @]
       ELSE pr[q]]
Sbrk(pr, i, h) ==
    LET chain == VforkChain(pr, i)
        top == IF chain = {} THEN i
               ELSE CHOOSE q \in chain : VforkParents(pr, q) = {}
    IN [q \in Slots |->
          IF q \notin chain \cup {i} THEN pr[q]
          ELSE [pr[q] EXCEPT !.heap = h, !.heapmem = IF q = top THEN h ELSE None]]

(* Later calls only move the break inside the chunk, which is not kept. *)
SysSbrk ==
    /\ Call("sbrk") /\ proc[curr].heap = None /\ FreeChunks # {}
    /\ Return(Sbrk(proc, curr, Least(FreeChunks)))
    /\ UNCHANGED <<ctx, nextpid>>

(* signal(), made by programs in an image of their own (vi, trap, the hwtools);
   programs that re-register inside their handler are "resignal". *)
SysSignal(on) ==
    /\ \/ Call("signal") /\ proc[curr].at = "main"
       \/ Call("resignal") /\ proc[curr].at = "handler"
    /\ proc[curr].img = proc[curr].execmem
    /\ Return([proc EXCEPT ![curr].sigctx = on, ![curr].sigpend = 0])
    /\ UNCHANGED <<ctx, nextpid>>

(* The stub's handler returned. *)
SysSigreturn ==
    /\ mode = "enter" /\ kind = "sys" /\ ~proc[curr].killed
    /\ proc[curr].at = "handler" /\ proc[curr].sigctx
    /\ Return([proc EXCEPT ![curr].sigpend = 0, ![curr].at =
                 IF ctx[proc[curr].img] = InHandler THEN "handler" ELSE "main"])
    /\ UNCHANGED <<ctx, nextpid>>

Kernel ==
    \/ Publish \/ Leave \/ Ktick \/ KilledAtEntry \/ SysAnswer \/ SysPause
    \/ \E c \in {selwait_to, selwait_inf} : SysSelect(c)
    \/ SysWait \/ SysFork \/ SysExec \/ SysExit
    \/ \E pid \in 1..MaxPid : SysKill(pid)
    \/ SysSbrk
    \/ \E on \in BOOLEAN : SysSignal(on)
    \/ SysSigreturn

Next ==
    \/ SysEnter \/ TickEnter \/ ParkWake
    \/ \E due \in SUBSET Slots : TickWake(due)
    \/ SelWake \/ CtrlC
    \/ Kernel

Spec == Init /\ [][Next]_vars

(* The kernel runs to completion.  The timer never dies (KTick), so a fire
   breaks the park loop and finds a process that computes and makes no calls:
   nothing takes the fire off its dispatch word before its safepoint does. *)
FairSpec ==
    /\ Spec
    /\ WF_vars(Kernel)
    /\ WF_vars(TickEnter)
    /\ WF_vars(ParkWake)

(* A premise on the programs, not on the kernel.  kenter and kexit take a fire
   off the dispatch word and a call that does not block returns to its caller
   without pick(), so a process that only makes such calls may absorb every
   fire.  It is ruled out here: safepoints meet fires again and again, or the
   calls come to an end. *)
FiresReachSafepoints == []<><<TickEnter>>_vars \/ <>[][~SysEnter]_vars

-----------------------------------------------------------------------------
(* pick() only considers RUNNABLE slots, so a process left RUNNING while
   another one is current would never run again. *)
RunningIsCurr ==
    \A i \in Slots : proc[i].state = "RUNNING" => i = curr /\ mode # "park"

(* A process asleep in wait() has a live child to wake it, and none that is
   already a zombie: the exiting child deposits, nobody re-scans. *)
WaiterHasChild ==
    \A i \in Slots : proc[i].state = "SLEEPING" /\ proc[i].chan = i =>
        /\ \E q \in Children(i) : Live(proc, q)
        /\ \A q \in Children(i) : proc[q].state # "ZOMBIE"

(* A process suspended in fork() is waiting for a live child of its own that
   still runs in its image; anything else would never release it. *)
SuspendedOnChild ==
    \A i \in Slots, j \in Slots :
        proc[i].state = "SLEEPING" /\ proc[i].chan = j /\ i # j =>
            /\ Live(proc, j)
            /\ proc[j].ppid = proc[i].pid
            /\ proc[j].img = proc[i].img

(* Nobody sleeps in wait() or fork() on something that cannot happen. *)
SleepersServed == WaiterHasChild /\ SuspendedOnChild

(* vfork semantics (SYS_fork's comment): of the processes that share an image
   all but one are suspended. *)
OneRunsInImage ==
    \A i, j \in Slots :
        Live(proc, i) /\ Live(proc, j) /\ i # j /\ proc[i].img = proc[j].img
            => Suspended(i) \/ Suspended(j)

(* No live process runs in, or will be resumed in, an image that has been
   given back to the arena, and exactly one process will give it back. *)
ImageHeld ==
    \A i \in Slots : Live(proc, i) =>
        \/ proc[i].img \in BootImages
        \/ Cardinality({j \in Slots : proc[j].execmem = proc[i].img}) = 1

(* Nor does its break point into a freed heap chunk, or one that will be freed
   twice: ownership hoisted by ksbrk to the top of the vfork chain outlives the
   child's exec or exit. *)
HeapHeld ==
    \A i \in Slots : Live(proc, i) /\ proc[i].heap # None =>
        Cardinality({j \in Slots : proc[j].heapmem = proc[i].heap}) = 1

(* Everything a live process uses has one owner that will free it. *)
MemoryHeld == ImageHeld /\ HeapHeld

(* With an adopter every zombie but the root shell has a live parent that can
   reap it, and that is not the adopter, which never waits: slots are not
   lost. *)
ZombieHasParent ==
    HasInit => \A i \in Slots : proc[i].state = "ZOMBIE" /\ proc[i].ppid # 0 =>
        /\ proc[i].ppid # initpid
        /\ \E q \in Slots : Live(proc, q) /\ proc[q].pid = proc[i].ppid

(* The type of the table, who may be RUNNING in it and who a ZOMBIE. *)
TableInv == TypeOK /\ RunningIsCurr /\ ZombieHasParent

(* A process in its SIGINT handler will return to the point the signal
   interrupted: the saved resume has not been overwritten by a second one. *)
HandlerReturns ==
    \A i \in Slots : Live(proc, i) /\ proc[i].at = "handler"
        => ctx[proc[i].img] = proc[i].pid

(* Round robin: if no process absorbs the fires, whoever is RUNNABLE and not
   the filler gets the processor, or stops being RUNNABLE (a Ctrl-C cannot
   unready it, death can). *)
RunnableRuns ==
    FiresReachSafepoints => \A i \in Slots :
        (proc[i].state = "RUNNABLE" /\ proc[i].pid # initpid)
            ~> (proc[i].state # "RUNNABLE" \/ (curr = i /\ mode = "user"))

(* kill() of a process that is not asleep takes effect: it dies at its next
   kernel entry, and it gets there if no process absorbs the fires. *)
KillLands ==
    FiresReachSafepoints => \A i \in Slots :
        (proc[i].killed /\ proc[i].pid # initpid) ~> ~Live(proc, i)
=============================================================================
