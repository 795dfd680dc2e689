---------------------------- MODULE KProcProofs ----------------------------
(***************************************************************************)
(* Theorems about the process table, for any number of slots and pids,     *)
(* with and without the adopter, and for any mixture of system calls in    *)
(* which no kill or Ctrl-C meets a process that is suspended in fork()     *)
(* and no handler is registered inside a handler (Calm; the README shows   *)
(* what the code does otherwise).                                          *)
(*                                                                         *)
(* The argument: the live processes in an image are a chain, ordered by    *)
(* pid, in which each one but the youngest is asleep in fork() on the next *)
(* (Suspends, Order).  Whoever runs is the youngest of its chain, whoever  *)
(* owns the image or the heap chunk is the oldest (ImageOwners,            *)
(* HeapOwners); so an owner that execs or exits is alone in its image, and *)
(* a walk up the chain from the runner meets everybody.                    *)
(*                                                                         *)
(* The operations of the table are first described by what they do to its  *)
(* fields (Mild, Died, Execed, Forked, Grown) and shown to keep Good; the  *)
(* steps of a kernel entry are then put together from them.                *)
(***************************************************************************)
EXTENDS KProc, WellFoundedInduction, FiniteSetTheorems, TLAPS

(* No kill is aimed at a suspended process, no signal() made in a handler. *)
Calm == \A w \in Workloads : "hit" \notin w /\ "resignal" \notin w

(* Slot i runs or could; is asleep in wait(); is asleep in fork(). *)
Ready(pr, i) == pr[i].state \in {"RUNNABLE", "RUNNING"}
Waits(pr, i) == pr[i].state = "SLEEPING" /\ pr[i].chan = i
Susp(pr, i) == pr[i].state = "SLEEPING" /\ pr[i].chan \in Slots \ {i}
(* Two live processes in one image. *)
Same(pr, i, j) == Live(pr, i) /\ Live(pr, j) /\ pr[i].img = pr[j].img

(* A pid names one slot; nobody is its own parent, and the adopter has none. *)
Pids(pr) ==
    /\ \A i \in Slots : Used(pr, i) =>
          /\ pr[i].pid >= 1 /\ pr[i].ppid # pr[i].pid
          /\ pr[i].pid = initpid => pr[i].ppid = 0
    /\ \A i, j \in Slots : Used(pr, i) /\ Used(pr, j) /\ pr[i].pid = pr[j].pid => i = j

(* wait() only sleeps while a child lives and none is a zombie. *)
Waiters(pr) ==
    \A i \in Slots : Waits(pr, i) =>
        /\ \E q \in Slots : Live(pr, q) /\ pr[q].ppid = pr[i].pid
        /\ \A q \in Slots : pr[q].state = "ZOMBIE" => pr[q].ppid # pr[i].pid

(* With an adopter, whoever has a parent has a live one, or the adopter, and
   the adopter leaves no zombies. *)
Parents(pr) ==
    HasInit => \A i \in Slots : Used(pr, i) /\ pr[i].ppid # 0 =>
        \/ pr[i].ppid = initpid /\ pr[i].state # "ZOMBIE"
        \/ pr[i].ppid # initpid /\ \E q \in Slots : Live(pr, q) /\ pr[q].pid = pr[i].ppid

(* fork() sleeps on a younger live child in the same image. *)
Suspends(pr) ==
    \A i \in Slots : Susp(pr, i) =>
        /\ Same(pr, i, pr[i].chan)
        /\ pr[pr[i].chan].ppid = pr[i].pid
        /\ pr[i].pid < pr[pr[i].chan].pid

(* The chain of an image: an older member is suspended, on somebody who is
   not younger than any other member that is younger than itself. *)
Order(pr) ==
    \A i, j \in Slots : Same(pr, i, j) /\ pr[i].pid < pr[j].pid =>
        Susp(pr, i) /\ pr[pr[i].chan].pid <= pr[j].pid

(* The owner of an image is its oldest member, and every image that came from
   the arena has one. *)
ImageOwners(pr) ==
    /\ \A j \in Slots : pr[j].execmem # None =>
          /\ Live(pr, j) /\ pr[j].execmem = pr[j].img
          /\ \A i \in Slots : Same(pr, i, j) => pr[j].pid <= pr[i].pid
    /\ \A i \in Slots : Live(pr, i) /\ pr[i].img \notin BootImages =>
          \E j \in Slots : pr[j].execmem = pr[i].img

(* The same for a heap chunk; the members of an image share their heap. *)
HeapOwners(pr) ==
    /\ \A j \in Slots : pr[j].heapmem # None =>
          /\ Live(pr, j) /\ pr[j].heapmem = pr[j].heap
          /\ \A i \in Slots : Live(pr, i) /\ pr[i].heap = pr[j].heap =>
                pr[i].img = pr[j].img /\ pr[j].pid <= pr[i].pid
    /\ \A i \in Slots : Live(pr, i) /\ pr[i].heap # None =>
          \E j \in Slots : pr[j].heapmem = pr[i].heap
    /\ \A i, j \in Slots : Same(pr, i, j) => pr[i].heap = pr[j].heap

(* Who is in its handler will not be interrupted again and has not forked. *)
Handlers(pr) ==
    \A i \in Slots : Live(pr, i) /\ pr[i].at = "handler" =>
        pr[i].sigctx /\ pr[i].sigpend = 2 /\ ~Susp(pr, i)

Good(pr) ==
    /\ pr \in [Slots -> ProcRecord]
    /\ Pids(pr) /\ Waiters(pr) /\ Parents(pr) /\ Suspends(pr) /\ Order(pr)
    /\ ImageOwners(pr) /\ HeapOwners(pr) /\ Handlers(pr)

(* Pids are given out in order; the resume point saved in an image is that of
   the process that is in its handler there. *)
Born(pr, n) == initpid < n /\ \A i \in Slots : pr[i].pid < n
Resumes(pr, c) ==
    \A i \in Slots : Live(pr, i) /\ pr[i].at = "handler" => c[pr[i].img] = pr[i].pid

(* Who is RUNNING, and whom the kernel works for and leaves to. *)
Running ==
    \A i \in Slots : proc[i].state = "RUNNING" =>
        /\ i = curr /\ mode # "park" /\ ~(mode = "enter" /\ waspark)
        /\ mode \in {"exit1", "exit2"} => next = curr

Control ==
    /\ mode = "user" \/ (mode = "enter" /\ ~waspark) => Ready(proc, curr)
    /\ mode \in {"exit1", "exit2"} /\ next # 0 => Ready(proc, next)
    /\ mode = "exit2" /\ next # 0 => curr = next
    /\ mode = "enter" /\ kind = "sys" => ~waspark

(* The inductive invariant. *)
IInv ==
    /\ TypeOK /\ Good(proc) /\ Born(proc, nextpid) /\ Resumes(proc, ctx)
    /\ Running /\ Control

-----------------------------------------------------------------------------
(* A non-empty set of naturals has a least element. *)
LEMMA LeastNat ==
    ASSUME NEW S \in SUBSET Nat, S # {}
    PROVE  \E m \in S : \A k \in S : m <= k
  <1> DEFINE R == {ss \in Nat \X Nat : ss[1] < ss[2]}
  <1>1. IsWellFoundedOn(R, Nat)
    BY NatLessThanWellFounded DEF OpToRel
  <1> HIDE DEF R
  <1>2. PICK m \in S : \A k \in S : ~(<<k, m>> \in R)
    BY <1>1, WFMin
  <1>3. \A k \in S : ~(k < m)
    BY <1>2 DEF R
  <1> QED BY <1>3

(* Induction, for a set instead of a predicate. *)
LEMMA SetInduction ==
    ASSUME NEW S, 0 \in S, \A n \in Nat : n \in S => n + 1 \in S
    PROVE  Nat \subseteq S
  <1> SUFFICES ASSUME Nat \ S # {} PROVE FALSE
    OBVIOUS
  <1>1. PICK m \in Nat \ S : \A k \in Nat \ S : m <= k
    BY LeastNat
  <1> QED BY <1>1

(* A function defined by recursion on 0..n exists. *)
StepsOn(D, n) == [1..n -> [D -> D]]
Iterates(g, D, n, a, step) ==
    g \in [0..n -> D] /\ g[0] = a /\ \A i \in 1..n : g[i] = step[i][g[i - 1]]

LEMMA Recursion ==
    ASSUME NEW D, NEW n \in Nat, NEW a \in D, NEW step \in StepsOn(D, n)
    PROVE  \E g : Iterates(g, D, n, a, step)
  <1> USE DEF StepsOn
  <1> DEFINE Ok(m, g) == g[0] = a /\ \A i \in 1..m : g[i] = step[i][g[i - 1]]
             S == {m \in Nat : m <= n => \E g \in [0..m -> D] : Ok(m, g)}
  <1>1. 0 \in S
    <2>1. [i \in 0..0 |-> a] \in [0..0 -> D] /\ Ok(0, [i \in 0..0 |-> a])
      OBVIOUS
    <2> QED BY <2>1
  <1>2. ASSUME NEW m \in Nat, m \in S PROVE m + 1 \in S
    <2> SUFFICES ASSUME m + 1 <= n PROVE \E g \in [0..(m + 1) -> D] : Ok(m + 1, g)
      OBVIOUS
    <2>1. PICK g \in [0..m -> D] : Ok(m, g)
      BY <1>2
    <2> DEFINE h == [i \in 0..(m + 1) |-> IF i = m + 1 THEN step[m + 1][g[m]] ELSE g[i]]
    <2>2. m + 1 \in 1..n /\ step[m + 1][g[m]] \in D
      OBVIOUS
    <2>3. h \in [0..(m + 1) -> D]
      BY <2>2
    <2>4. Ok(m + 1, h)
      BY <2>1, <2>3
    <2> QED BY <2>3, <2>4
  <1> HIDE DEF S
  <1>3. n \in S
    BY <1>1, <1>2, SetInduction
  <1> QED BY <1>3 DEF S, Iterates

-----------------------------------------------------------------------------
(* What the proofs use of the parameters. *)
LEMMA Params ==
    /\ NPROC \in Nat /\ NPROC >= 2 /\ MaxPid \in Nat /\ MaxPid >= 2
    /\ HasInit \in BOOLEAN /\ initpid \in 0..MaxPid /\ (~HasInit => initpid = 0)
    /\ (HasInit => initpid = 2)
    /\ None \in Chan /\ ticks \in Chan /\ selwait_to \in Chan /\ selwait_inf \in Chan
    /\ Slots \subseteq Chan /\ None = 0 /\ None \notin Slots
    /\ ticks \notin Slots /\ selwait_to \notin Slots /\ selwait_inf \notin Slots
  BY KProcAssumption DEF initpid, Chan, None, ticks, selwait_to, selwait_inf, Slots

LEMMA FieldTypes ==
    ASSUME NEW p \in ProcRecord
    PROVE  /\ p.state \in State /\ p.pid \in 0..MaxPid /\ p.ppid \in 0..MaxPid
           /\ p.pid \in Nat /\ p.ppid \in Nat
           /\ p.chan \in Chan /\ p.killed \in BOOLEAN /\ p.img \in Images
           /\ p.execmem \in Arena \cup {None} /\ p.heap \in Chunks \cup {None}
           /\ p.heapmem \in Chunks \cup {None} /\ p.sigctx \in BOOLEAN
           /\ p.sigpend \in 0..2 /\ p.at \in {"main", "handler"}
  BY Params DEF ProcRecord

(* What a process is and owns. *)
Bones(p, r) ==
    /\ r.pid = p.pid /\ r.ppid = p.ppid /\ r.img = p.img
    /\ r.execmem = p.execmem /\ r.heap = p.heap /\ r.heapmem = p.heapmem

Signals(p, r) == r.sigctx = p.sigctx /\ r.sigpend = p.sigpend /\ r.at = p.at

LEMMA WokenIs ==
    ASSUME NEW p \in ProcRecord
    PROVE  /\ Woken(p) \in ProcRecord /\ Bones(p, Woken(p)) /\ Signals(p, Woken(p))
           /\ Woken(p).state = "RUNNABLE" /\ Woken(p).chan = None
  <1>1. None \in Chan /\ "RUNNABLE" \in State
    BY Params DEF State
  <1> QED BY <1>1 DEF ProcRecord, Woken, Bones, Signals

LEMMA SleepOnIs ==
    ASSUME NEW p \in ProcRecord, NEW c \in Chan
    PROVE  /\ SleepOn(p, c) \in ProcRecord /\ Bones(p, SleepOn(p, c))
           /\ Signals(p, SleepOn(p, c))
           /\ SleepOn(p, c).state = "SLEEPING" /\ SleepOn(p, c).chan = c
  <1>1. "SLEEPING" \in State
    BY DEF State
  <1> QED BY <1>1 DEF ProcRecord, SleepOn, Bones, Signals

-----------------------------------------------------------------------------
(* A process that may wait: somebody will wake it. *)
MayWait(pr, i) ==
    /\ \E q \in Slots : Live(pr, q) /\ pr[q].ppid = pr[i].pid
    /\ \A q \in Slots : pr[q].state = "ZOMBIE" => pr[q].ppid # pr[i].pid

(* A change that leaves the processes what they are, lets no vfork parent go
   and suspends none. *)
Mild(pr, tr) ==
    /\ tr \in [Slots -> ProcRecord]
    /\ \A q \in Slots :
          /\ Bones(pr[q], tr[q])
          /\ Live(tr, q) <=> Live(pr, q)
          /\ tr[q].state = "ZOMBIE" => pr[q].state = "ZOMBIE"
          /\ Susp(pr, q) \/ Susp(tr, q) => tr[q].state = pr[q].state /\ tr[q].chan = pr[q].chan
          /\ Waits(tr, q) => Waits(pr, q) \/ MayWait(pr, q)
          /\ Live(tr, q) /\ tr[q].at = "handler" => tr[q].sigctx /\ tr[q].sigpend = 2 /\ ~Susp(tr, q)

LEMMA MildIsGood ==
    ASSUME NEW pr, NEW tr, Good(pr), Mild(pr, tr)
    PROVE  Good(tr)
  <1>1. pr \in [Slots -> ProcRecord] /\ tr \in [Slots -> ProcRecord]
    BY DEF Good, Mild
  <1>2. \A q \in Slots : Susp(tr, q) <=> Susp(pr, q)
    BY DEF Mild, Susp
  <1>3. \A q \in Slots : Susp(tr, q) => tr[q].chan = pr[q].chan
    BY DEF Mild
  <1>4. \A i, j \in Slots : Same(tr, i, j) <=> Same(pr, i, j)
    BY DEF Mild, Same, Bones
  <1>5. \A q \in Slots : Used(tr, q) => Used(pr, q)
    BY DEF Mild, Used, Live
  <1>6. Pids(tr)
    BY <1>5 DEF Good, Mild, Pids, Bones
  <1>7. Waiters(tr)
    BY DEF Good, Mild, Waiters, Bones, MayWait
  <1>8. Parents(tr)
    BY <1>5 DEF Good, Mild, Parents, Bones
  <1>9. \A q \in Slots : Susp(pr, q) => pr[q].chan \in Slots
    BY DEF Susp
  <1>10. Suspends(tr)
    BY <1>2, <1>3, <1>4, <1>9 DEF Good, Mild, Suspends, Bones
  <1>11. Order(tr)
    BY <1>2, <1>3, <1>4, <1>9 DEF Good, Mild, Order, Bones
  <1>12. ImageOwners(tr)
    BY <1>4 DEF Good, Mild, ImageOwners, Bones
  <1>13. HeapOwners(tr)
    BY <1>4 DEF Good, Mild, HeapOwners, Bones
  <1>14. Handlers(tr)
    BY DEF Mild, Handlers
  <1> QED BY <1>1, <1>6, <1>7, <1>8, <1>10, <1>11, <1>12, <1>13, <1>14 DEF Good

-----------------------------------------------------------------------------
(* Process i leaves the table tr it had in pr: terminate. *)
Orphan(pr, i, q) == HasInit /\ Used(pr, q) /\ pr[q].ppid = pr[i].pid

(* The parent that waits for i, or is suspended on it. *)
Released(pr, i, q) ==
    \/ Waits(pr, q) /\ pr[q].pid = pr[i].ppid
    \/ Susp(pr, q) /\ pr[q].chan = i

Died(pr, tr, i) ==
    /\ tr \in [Slots -> ProcRecord]
    /\ ~Live(tr, i)
    /\ tr[i].pid = pr[i].pid /\ tr[i].ppid = pr[i].ppid
    /\ tr[i].execmem = None /\ tr[i].heapmem = None
    /\ tr[i].state = "ZOMBIE" =>
          /\ \A q \in Slots \ {i} : pr[q].pid = pr[i].ppid => ~Waits(pr, q)
          /\ HasInit => pr[i].ppid # initpid
    /\ \A q \in Slots \ {i} :
          /\ tr[q].pid = pr[q].pid /\ tr[q].img = pr[q].img
          /\ tr[q].execmem = pr[q].execmem
          /\ tr[q].heap = pr[q].heap /\ tr[q].heapmem = pr[q].heapmem
          /\ Signals(pr[q], tr[q])
          /\ Orphan(pr, i, q) => tr[q].ppid = initpid /\ tr[q].state # "ZOMBIE"
          /\ ~Orphan(pr, i, q) => tr[q].ppid = pr[q].ppid
          /\ Live(tr, q) <=> Live(pr, q)
          /\ Used(tr, q) => Used(pr, q)
          /\ \/ /\ Released(pr, i, q)
                /\ tr[q].state = "RUNNABLE"
             \/ /\ ~Released(pr, i, q)
                /\ tr[q].chan = pr[q].chan
                /\ tr[q].state = pr[q].state \/ ~Live(pr, q)

LEMMA DiedIsGood ==
    ASSUME NEW pr, NEW tr, NEW i \in Slots, Good(pr), Live(pr, i), ~Susp(pr, i), Died(pr, tr, i)
    PROVE  Good(tr)
  <1>1. /\ pr \in [Slots -> ProcRecord] /\ tr \in [Slots -> ProcRecord]
        /\ \A q \in Slots : pr[q].pid \in Nat
    BY FieldTypes DEF Good, Died
  <1>2. \A q \in Slots : Susp(tr, q) =>
          q # i /\ Susp(pr, q) /\ tr[q].chan = pr[q].chan /\ pr[q].chan # i /\ pr[q].chan \in Slots
    BY DEF Died, Susp, Live, Released
  <1>3. \A q \in Slots : Waits(tr, q) => q # i /\ Waits(pr, q) /\ pr[q].pid # pr[i].ppid
    BY DEF Died, Waits, Live, Released
  <1>4. \A q \in Slots : Live(tr, q) => q # i /\ Live(pr, q)
    BY DEF Died
  <1>5. \A j, k \in Slots : Same(tr, j, k) => Same(pr, j, k) /\ j # i /\ k # i
    BY <1>4 DEF Died, Same
  (* Nobody else in the image of a process that is not suspended is younger. *)
  <1>6. \A k \in Slots : Same(pr, i, k) => pr[k].pid <= pr[i].pid
    BY <1>1 DEF Good, Order, Same
  <1>7. \A k \in Slots : Same(pr, i, k) /\ pr[i].pid <= pr[k].pid => k = i
    BY <1>1, <1>6 DEF Good, Pids, Same, Used, Live
  <1>8. \A q \in Slots : Used(tr, q) => Used(pr, q)
    BY DEF Died, Used, Live
  <1>9. \A q \in Slots : Used(pr, q) => pr[q].pid >= 1
    BY DEF Good, Pids
  <1>10. \A q \in Slots : Used(pr, q) /\ q # i => pr[q].pid # pr[i].pid
    BY DEF Good, Pids, Used, Live
  <1>11. Pids(tr)
    <2>1. ASSUME NEW q \in Slots, Used(tr, q)
          PROVE  tr[q].pid >= 1 /\ tr[q].ppid # tr[q].pid /\ (tr[q].pid = initpid => tr[q].ppid = 0)
      <3>1. /\ Used(pr, q) /\ pr[q].pid >= 1 /\ pr[q].ppid # pr[q].pid
            /\ pr[q].pid = initpid => pr[q].ppid = 0
        BY <1>8, <2>1 DEF Good, Pids
      <3>2. tr[q].pid = pr[q].pid
        BY DEF Died
      <3>3. CASE q # i /\ Orphan(pr, i, q)
        <4>1. tr[q].ppid = initpid /\ pr[q].ppid = pr[i].pid
          BY <3>3 DEF Died, Orphan
        <4>2. pr[i].pid >= 1
          BY <1>9 DEF Used, Live
        <4> QED BY <3>1, <3>2, <4>1, <4>2
      <3>4. CASE ~(q # i /\ Orphan(pr, i, q))
        BY <3>1, <3>2, <3>4 DEF Died
      <3> QED BY <3>3, <3>4
    <2>2. ASSUME NEW j \in Slots, NEW k \in Slots, Used(tr, j), Used(tr, k), tr[j].pid = tr[k].pid
          PROVE  j = k
      BY <1>8, <2>2 DEF Died, Good, Pids
    <2> QED BY <2>1, <2>2 DEF Pids
  <1>12. Waiters(tr)
    <2> SUFFICES ASSUME NEW k \in Slots, Waits(tr, k)
                 PROVE  /\ \E q \in Slots : Live(tr, q) /\ tr[q].ppid = tr[k].pid
                        /\ \A q \in Slots : tr[q].state = "ZOMBIE" => tr[q].ppid # tr[k].pid
      BY DEF Waiters
    <2>1. k # i /\ Waits(pr, k) /\ pr[k].pid # pr[i].ppid /\ tr[k].pid = pr[k].pid
      BY <1>3 DEF Died
    <2>2. pr[k].pid # pr[i].pid
      BY <1>10, <2>1 DEF Waits, Used
    <2>3. PICK q \in Slots : Live(pr, q) /\ pr[q].ppid = pr[k].pid
      BY <2>1 DEF Good, Waiters
    <2>4. Live(tr, q) /\ tr[q].ppid = tr[k].pid
      BY <2>1, <2>2, <2>3 DEF Died, Orphan
    <2>5. \A z \in Slots : tr[z].state = "ZOMBIE" => tr[z].ppid # tr[k].pid
      <3> SUFFICES ASSUME NEW z \in Slots, tr[z].state = "ZOMBIE" PROVE tr[z].ppid # tr[k].pid
        OBVIOUS
      <3>1. CASE z = i
        BY <2>1, <3>1 DEF Died
      <3>2. CASE z # i
        <4>1. ~Orphan(pr, i, z) /\ pr[z].state = "ZOMBIE" /\ tr[z].ppid = pr[z].ppid
          BY <3>2 DEF Died, Live, Used
        <4> QED BY <2>1, <4>1 DEF Good, Waiters
      <3> QED BY <3>1, <3>2
    <2> QED BY <2>4, <2>5
  <1>13. Parents(tr)
    <2> SUFFICES ASSUME HasInit, NEW k \in Slots, Used(tr, k), tr[k].ppid # 0
                 PROVE  \/ tr[k].ppid = initpid /\ tr[k].state # "ZOMBIE"
                        \/ /\ tr[k].ppid # initpid
                           /\ \E q \in Slots : Live(tr, q) /\ tr[q].pid = tr[k].ppid
      BY DEF Parents
    <2>1. CASE k = i
      <3>1. tr[i].state = "ZOMBIE" /\ tr[i].ppid = pr[i].ppid /\ pr[i].ppid # initpid
        BY <2>1 DEF Died, Live, Used
      <3>2. PICK q \in Slots : Live(pr, q) /\ pr[q].pid = pr[i].ppid
        BY <2>1, <3>1 DEF Good, Parents, Used, Live
      <3>3. q # i
        BY <3>2 DEF Good, Pids, Used, Live
      <3> QED BY <2>1, <3>1, <3>2, <3>3 DEF Died
    <2>2. CASE k # i /\ Orphan(pr, i, k)
      BY <2>2 DEF Died
    <2>3. CASE k # i /\ ~Orphan(pr, i, k)
      <3>1. tr[k].ppid = pr[k].ppid /\ Used(pr, k) /\ pr[k].ppid # pr[i].pid
        BY <2>3, <1>8 DEF Died, Orphan
      <3>2. CASE pr[k].ppid = initpid /\ pr[k].state # "ZOMBIE"
        <4>1. Live(pr, k)
          BY <3>1, <3>2 DEF Used, Live
        <4> QED BY <2>3, <3>1, <3>2, <4>1 DEF Died, Live
      <3>3. CASE pr[k].ppid # initpid /\ \E q \in Slots : Live(pr, q) /\ pr[q].pid = pr[k].ppid
        <4>1. PICK q \in Slots : Live(pr, q) /\ pr[q].pid = pr[k].ppid
          BY <3>3
        <4> QED BY <3>1, <3>3, <4>1 DEF Died
      <3> QED BY <3>1, <3>2, <3>3 DEF Good, Parents
    <2> QED BY <2>1, <2>2, <2>3
  <1>14. Suspends(tr)
    <2> SUFFICES ASSUME NEW k \in Slots, Susp(tr, k)
                 PROVE  /\ Same(tr, k, tr[k].chan)
                        /\ tr[tr[k].chan].ppid = tr[k].pid
                        /\ tr[k].pid < tr[tr[k].chan].pid
      BY DEF Suspends
    <2>1. PICK c \in Slots : c = pr[k].chan /\ c # i
      BY <1>2
    <2>2. k # i /\ Susp(pr, k) /\ tr[k].chan = c
      BY <1>2, <2>1
    <2>3. Same(pr, k, c) /\ pr[c].ppid = pr[k].pid /\ pr[k].pid < pr[c].pid
      BY <2>1, <2>2 DEF Good, Suspends
    <2>4. ~Orphan(pr, i, c)
      BY <1>10, <2>2, <2>3 DEF Orphan, Susp, Used
    <2> QED BY <2>1, <2>2, <2>3, <2>4 DEF Died, Same
  <1>15. Order(tr)
    <2> SUFFICES ASSUME NEW a \in Slots, NEW b \in Slots, Same(tr, a, b), tr[a].pid < tr[b].pid
                 PROVE  Susp(tr, a) /\ tr[tr[a].chan].pid <= tr[b].pid
      BY DEF Order
    <2>1. Same(pr, a, b) /\ a # i /\ b # i /\ tr[a].pid = pr[a].pid /\ tr[b].pid = pr[b].pid
      BY <1>5 DEF Died
    <2>2. Susp(pr, a) /\ pr[pr[a].chan].pid <= pr[b].pid
      BY <2>1 DEF Good, Order
    <2>3. PICK c \in Slots : c = pr[a].chan
      BY <2>2 DEF Susp
    <2>4. Same(pr, a, c)
      BY <2>2, <2>3 DEF Good, Suspends
    <2>5. c # i
      BY <1>7, <2>1, <2>2, <2>3, <2>4 DEF Same
    <2>6. tr[a].chan = c /\ tr[a].state = "SLEEPING"
      BY <2>1, <2>2, <2>3, <2>5 DEF Died, Susp, Waits, Live, Released
    <2> QED BY <2>1, <2>2, <2>3, <2>5, <2>6 DEF Died, Susp
  <1>16. ImageOwners(tr)
    <2>1. ASSUME NEW j \in Slots, tr[j].execmem # None
          PROVE  /\ Live(tr, j) /\ tr[j].execmem = tr[j].img
                 /\ \A k \in Slots : Same(tr, k, j) => tr[j].pid <= tr[k].pid
      <3>1. j # i /\ tr[j].execmem = pr[j].execmem
        BY <2>1 DEF Died
      <3> QED BY <1>5, <2>1, <3>1 DEF Good, ImageOwners, Died
    <2>2. ASSUME NEW k \in Slots, Live(tr, k), tr[k].img \notin BootImages
          PROVE  \E j \in Slots : tr[j].execmem = tr[k].img
      <3>1. k # i /\ Live(pr, k) /\ tr[k].img = pr[k].img
        BY <1>4, <2>2 DEF Died
      <3>2. PICK j \in Slots : pr[j].execmem = pr[k].img
        BY <2>2, <3>1 DEF Good, ImageOwners
      <3>3. j # i
        <4>1. SUFFICES ASSUME j = i PROVE FALSE
          OBVIOUS
        <4>2. pr[i].execmem # None
          BY <1>1, <3>2, <4>1, FieldTypes, Params DEF Images, BootImages, Arena
        <4>3. Same(pr, k, i) /\ Same(pr, i, k)
          BY <3>1, <3>2, <4>1, <4>2 DEF Good, ImageOwners, Same
        <4>4. pr[i].pid <= pr[k].pid
          BY <4>2, <4>3 DEF Good, ImageOwners
        <4> QED BY <1>7, <3>1, <4>3, <4>4
      <3> QED BY <3>1, <3>2, <3>3 DEF Died
    <2> QED BY <2>1, <2>2 DEF ImageOwners
  <1>17. HeapOwners(tr)
    <2>1. ASSUME NEW j \in Slots, tr[j].heapmem # None
          PROVE  /\ Live(tr, j) /\ tr[j].heapmem = tr[j].heap
                 /\ \A k \in Slots : Live(tr, k) /\ tr[k].heap = tr[j].heap =>
                       tr[k].img = tr[j].img /\ tr[j].pid <= tr[k].pid
      <3>1. j # i /\ tr[j].heapmem = pr[j].heapmem
        BY <2>1 DEF Died
      <3> QED BY <1>4, <2>1, <3>1 DEF Good, HeapOwners, Died
    <2>2. ASSUME NEW k \in Slots, Live(tr, k), tr[k].heap # None
          PROVE  \E j \in Slots : tr[j].heapmem = tr[k].heap
      <3>1. k # i /\ Live(pr, k) /\ tr[k].heap = pr[k].heap
        BY <1>4, <2>2 DEF Died
      <3>2. PICK j \in Slots : pr[j].heapmem = pr[k].heap
        BY <2>2, <3>1 DEF Good, HeapOwners
      <3>3. j # i
        <4>1. SUFFICES ASSUME j = i PROVE FALSE
          OBVIOUS
        <4>2. pr[i].heapmem # None /\ pr[i].heap = pr[k].heap
          BY <2>2, <3>1, <3>2, <4>1 DEF Good, HeapOwners
        <4>3. Same(pr, i, k) /\ pr[i].pid <= pr[k].pid
          BY <3>1, <4>2 DEF Good, HeapOwners, Same
        <4> QED BY <1>7, <3>1, <4>3
      <3> QED BY <3>1, <3>2, <3>3 DEF Died
    <2>3. \A a, b \in Slots : Same(tr, a, b) => tr[a].heap = tr[b].heap
      BY <1>5 DEF Good, HeapOwners, Died
    <2> QED BY <2>1, <2>2, <2>3 DEF HeapOwners
  <1>18. Handlers(tr)
    BY <1>2, <1>4 DEF Good, Handlers, Died, Signals
  <1> QED BY <1>1, <1>11, <1>12, <1>13, <1>14, <1>15, <1>16, <1>17, <1>18 DEF Good

LEMMA FreedIs ==
    ASSUME NEW pr \in [Slots -> ProcRecord], NEW i \in Slots
    PROVE  LET kf == kfree_exec(pr, i)
           IN /\ kf \in [Slots -> ProcRecord]
              /\ \A q \in Slots \ {i} : kf[q] = pr[q]
              /\ kf[i].pid = pr[i].pid /\ kf[i].ppid = pr[i].ppid
              /\ kf[i].state = pr[i].state /\ kf[i].chan = pr[i].chan
              /\ kf[i].killed = pr[i].killed
              /\ kf[i].img = pr[i].img /\ kf[i].at = pr[i].at
              /\ kf[i].execmem = None /\ kf[i].heapmem = None /\ kf[i].heap = None
              /\ ~kf[i].sigctx /\ kf[i].sigpend = 0
  <1> DEFINE p == pr[i]
             r == [p EXCEPT !.execmem = None, !.heapmem = None, !.heap = None,
                            !.sigctx = FALSE, !.sigpend = 0]
  <1>1. p \in ProcRecord
    OBVIOUS
  <1>2. kfree_exec(pr, i) = [pr EXCEPT ![i] = r]
    BY DEF kfree_exec
  <1> HIDE DEF p
  <1>3. /\ r.pid = p.pid /\ r.ppid = p.ppid /\ r.state = p.state /\ r.chan = p.chan
        /\ r.killed = p.killed /\ r.img = p.img /\ r.at = p.at
        /\ r.execmem = None /\ r.heapmem = None /\ r.heap = None
        /\ r.sigctx = FALSE /\ r.sigpend = 0
    BY <1>1 DEF ProcRecord
  <1>4. r \in ProcRecord
    <2>1. None \in Arena \cup {None} /\ None \in Chunks \cup {None} /\ 0 \in 0..2
      OBVIOUS
    <2> QED BY <1>1, <2>1 DEF ProcRecord
  <1> HIDE DEF r
  <1> QED BY <1>2, <1>3, <1>4 DEF p

LEMMA ReleasedIs ==
    ASSUME NEW pr \in [Slots -> ProcRecord], NEW i \in Slots
    PROVE  LET vr == vfork_release(pr, i)
           IN /\ vr \in [Slots -> ProcRecord]
              /\ \A q \in Slots :
                    vr[q] = IF q \in VforkParents(pr, i) THEN Woken(pr[q]) ELSE pr[q]
  BY WokenIs DEF vfork_release

(* Reparent changes a record to this one. *)
Adopted(p) == [p EXCEPT !.ppid = initpid, !.state = IF @ = "ZOMBIE" THEN "UNUSED" ELSE @]

LEMMA AdoptedIs ==
    ASSUME NEW p \in ProcRecord
    PROVE  LET r == Adopted(p)
           IN /\ r \in ProcRecord /\ Signals(p, r)
              /\ r.pid = p.pid /\ r.img = p.img /\ r.chan = p.chan
              /\ r.execmem = p.execmem /\ r.heap = p.heap /\ r.heapmem = p.heapmem
              /\ r.ppid = initpid
              /\ r.state = IF p.state = "ZOMBIE" THEN "UNUSED" ELSE p.state
  <1>1. initpid \in 0..MaxPid /\ "UNUSED" \in State
    BY Params DEF State
  <1> QED BY <1>1 DEF Adopted, ProcRecord, Signals

LEMMA ReparentIs ==
    ASSUME NEW pr \in [Slots -> ProcRecord], NEW i \in Slots
    PROVE  LET rp == Reparent(pr, i)
           IN /\ rp \in [Slots -> ProcRecord]
              /\ \A q \in Slots :
                    rp[q] = IF q # i /\ Orphan(pr, i, q) THEN Adopted(pr[q]) ELSE pr[q]
  <1>1. initpid # 0 <=> HasInit
    BY Params
  <1>2. Reparent(pr, i) =
          [q \in Slots |-> IF q # i /\ Orphan(pr, i, q) THEN Adopted(pr[q]) ELSE pr[q]]
    BY <1>1 DEF Reparent, Orphan, Adopted
  <1> QED BY <1>2, AdoptedIs

(* The record of the process that has gone. *)
Buried(p, gone) == [p EXCEPT !.killed = FALSE, !.state = IF gone THEN "UNUSED" ELSE "ZOMBIE"]

LEMMA BuriedIs ==
    ASSUME NEW p \in ProcRecord, NEW gone \in BOOLEAN
    PROVE  LET r == Buried(p, gone)
           IN /\ r \in ProcRecord /\ Bones(p, r)
              /\ r.state = IF gone THEN "UNUSED" ELSE "ZOMBIE"
  <1>1. "UNUSED" \in State /\ "ZOMBIE" \in State
    BY DEF State
  <1> QED BY <1>1 DEF Buried, ProcRecord, Bones

LEMMA TerminateIs ==
    ASSUME NEW pr, NEW i \in Slots, Good(pr), Live(pr, i), ~Susp(pr, i)
    PROVE  Died(pr, terminate(pr, i), i)
  <1>0. pr \in [Slots -> ProcRecord]
    BY DEF Good
  <1> DEFINE kf == kfree_exec(pr, i)
             vr == vfork_release(kf, i)
             left == Reparent(vr, i)
             reaper == Waiter(left, i)
             gone == reaper # {} \/ (initpid # 0 /\ left[i].ppid = initpid)
             tr == terminate(pr, i)
  <1>1. tr = [q \in Slots |->
          IF q = i THEN Buried(left[i], gone)
          ELSE IF q \in reaper THEN Woken(left[q]) ELSE left[q]]
    BY DEF terminate, Buried
  <1>2. /\ kf \in [Slots -> ProcRecord]
        /\ \A q \in Slots \ {i} : kf[q] = pr[q]
        /\ kf[i].pid = pr[i].pid /\ kf[i].ppid = pr[i].ppid
        /\ kf[i].state = pr[i].state /\ kf[i].chan = pr[i].chan
        /\ kf[i].execmem = None /\ kf[i].heapmem = None
    BY <1>0, FreedIs
  <1> HIDE DEF kf
  <1>3. /\ vr \in [Slots -> ProcRecord]
        /\ \A q \in Slots : vr[q] = IF q \in VforkParents(kf, i) THEN Woken(kf[q]) ELSE kf[q]
    BY <1>2, ReleasedIs
  <1> HIDE DEF vr
  <1>4. /\ left \in [Slots -> ProcRecord]
        /\ \A q \in Slots : left[q] = IF q # i /\ Orphan(vr, i, q) THEN Adopted(vr[q]) ELSE vr[q]
    BY <1>3, ReparentIs
  <1> HIDE DEF left
  <1>5. /\ left[i].pid = pr[i].pid /\ left[i].ppid = pr[i].ppid
        /\ left[i].execmem = None /\ left[i].heapmem = None
    BY <1>2, <1>3, <1>4, WokenIs DEF Bones
  <1>6. ~Waits(left, i)
    BY <1>2, <1>3, <1>4, WokenIs, Params DEF Waits, VforkParents
  <1>7. i \notin reaper
    BY <1>6 DEF Waiter, Waits
  (* The others, up to the reaper. *)
  <1>8. ASSUME NEW q \in Slots \ {i}
        PROVE  /\ vr[q] = IF Susp(pr, q) /\ pr[q].chan = i THEN Woken(pr[q]) ELSE pr[q]
               /\ Orphan(vr, i, q) <=> Orphan(pr, i, q)
    <2>1. q \in VforkParents(kf, i) <=> Susp(pr, q) /\ pr[q].chan = i
      BY <1>2 DEF VforkParents, Susp
    <2>2. vr[q] = IF Susp(pr, q) /\ pr[q].chan = i THEN Woken(pr[q]) ELSE pr[q]
      BY <1>2, <1>3, <2>1
    <2>3. Bones(pr[q], vr[q]) /\ (Used(vr, q) <=> Used(pr, q)) /\ vr[i].pid = pr[i].pid
      BY <1>0, <1>2, <1>3, <2>2, WokenIs DEF Bones, Used, Susp
    <2> QED BY <2>2, <2>3 DEF Orphan, Bones
  <1>9. ASSUME NEW q \in Slots \ {i}
        PROVE  /\ left[q].pid = pr[q].pid /\ left[q].img = pr[q].img
               /\ left[q].execmem = pr[q].execmem
               /\ left[q].heap = pr[q].heap /\ left[q].heapmem = pr[q].heapmem
               /\ Signals(pr[q], left[q])
               /\ left[q].ppid = IF Orphan(pr, i, q) THEN initpid ELSE pr[q].ppid
               /\ Orphan(pr, i, q) => left[q].state # "ZOMBIE"
               /\ Live(left, q) <=> Live(pr, q)
               /\ Used(left, q) => Used(pr, q)
               /\ Waits(left, q) <=> Waits(pr, q)
               /\ IF Susp(pr, q) /\ pr[q].chan = i THEN left[q].state = "RUNNABLE"
                  ELSE /\ left[q].chan = pr[q].chan
                       /\ left[q].state = pr[q].state \/ ~Live(pr, q)
    <2>1. vr[q] \in ProcRecord /\ Signals(pr[q], vr[q]) /\ Bones(pr[q], vr[q])
      BY <1>0, <1>3, <1>8, WokenIs DEF Signals, Bones
    <2>2. /\ Live(vr, q) <=> Live(pr, q)
          /\ Used(vr, q) <=> Used(pr, q)
          /\ Waits(vr, q) <=> Waits(pr, q)
          /\ vr[q].state = "ZOMBIE" <=> pr[q].state = "ZOMBIE"
          /\ IF Susp(pr, q) /\ pr[q].chan = i THEN vr[q].state = "RUNNABLE"
             ELSE vr[q].chan = pr[q].chan /\ vr[q].state = pr[q].state
      BY <1>0, <1>8, WokenIs, Params DEF Live, Used, Waits, Susp
    <2>3. CASE Orphan(pr, i, q)
      <3>1. left[q] = Adopted(vr[q])
        BY <1>4, <1>8, <2>3
      <3>2. /\ Signals(vr[q], left[q])
            /\ left[q].pid = vr[q].pid /\ left[q].img = vr[q].img /\ left[q].chan = vr[q].chan
            /\ left[q].execmem = vr[q].execmem /\ left[q].heap = vr[q].heap
            /\ left[q].heapmem = vr[q].heapmem /\ left[q].ppid = initpid
            /\ left[q].state = IF vr[q].state = "ZOMBIE" THEN "UNUSED" ELSE vr[q].state
        BY <2>1, <3>1, AdoptedIs
      <3> QED BY <2>1, <2>2, <2>3, <3>2 DEF Signals, Bones, Live, Used, Waits, Susp
    <2>4. CASE ~Orphan(pr, i, q)
      <3>1. left[q] = vr[q]
        BY <1>4, <1>8, <2>4
      <3> QED BY <2>1, <2>2, <2>4, <3>1 DEF Signals, Bones, Live, Used, Waits
    <2> QED BY <2>3, <2>4
  <1>10. \A q \in Slots \ {i} : q \in reaper <=> Waits(pr, q) /\ pr[q].pid = pr[i].ppid
    BY <1>5, <1>9 DEF Waiter, Waits
  <1>11. gone \in BOOLEAN
    OBVIOUS
  <1>12. /\ ~gone => \A q \in Slots \ {i} : pr[q].pid = pr[i].ppid => ~Waits(pr, q)
         /\ ~gone /\ HasInit => pr[i].ppid # initpid
    BY <1>5, <1>10, Params
  <1> HIDE DEF reaper, gone, tr
  <1>13. tr \in [Slots -> ProcRecord]
    BY <1>1, <1>4, <1>11, WokenIs, BuriedIs
  <1>14. /\ tr[i].pid = pr[i].pid /\ tr[i].ppid = pr[i].ppid
         /\ tr[i].execmem = None /\ tr[i].heapmem = None
         /\ tr[i].state = IF gone THEN "UNUSED" ELSE "ZOMBIE"
    BY <1>1, <1>4, <1>5, <1>11, BuriedIs DEF Bones
  <1>15. ASSUME NEW q \in Slots \ {i}
         PROVE  /\ tr[q].pid = pr[q].pid /\ tr[q].img = pr[q].img
                /\ tr[q].execmem = pr[q].execmem
                /\ tr[q].heap = pr[q].heap /\ tr[q].heapmem = pr[q].heapmem
                /\ Signals(pr[q], tr[q])
                /\ Orphan(pr, i, q) => tr[q].ppid = initpid /\ tr[q].state # "ZOMBIE"
                /\ ~Orphan(pr, i, q) => tr[q].ppid = pr[q].ppid
                /\ Live(tr, q) <=> Live(pr, q)
                /\ Used(tr, q) => Used(pr, q)
                /\ \/ /\ Released(pr, i, q)
                      /\ tr[q].state = "RUNNABLE"
                   \/ /\ ~Released(pr, i, q)
                      /\ tr[q].chan = pr[q].chan
                      /\ tr[q].state = pr[q].state \/ ~Live(pr, q)
    <2>1. CASE q \in reaper
      <3>1. tr[q] = Woken(left[q]) /\ left[q] \in ProcRecord
        BY <1>1, <1>4, <2>1
      <3>2. /\ Bones(left[q], tr[q]) /\ Signals(left[q], tr[q])
            /\ tr[q].state = "RUNNABLE"
        BY <3>1, WokenIs
      <3>3. Waits(pr, q) /\ pr[q].pid = pr[i].ppid
        BY <1>10, <2>1
      <3> QED BY <1>9, <3>2, <3>3 DEF Bones, Signals, Released, Live, Used, Waits
    <2>2. CASE q \notin reaper
      <3>1. tr[q] = left[q] /\ ~(Waits(pr, q) /\ pr[q].pid = pr[i].ppid)
        BY <1>1, <1>10, <2>2
      <3> QED BY <1>9, <3>1 DEF Released, Live, Used, Signals
    <2> QED BY <2>1, <2>2
  <1>16. ~Live(tr, i)
    BY <1>14 DEF Live
  <1>17. tr[i].state = "ZOMBIE" => ~gone
    BY <1>14
  <1> QED BY <1>12, <1>13, <1>14, <1>15, <1>16, <1>17 DEF Died, tr

-----------------------------------------------------------------------------
(* Process i, which runs, is in a new image m: exec. *)
Execed(pr, tr, i, m) ==
    /\ tr \in [Slots -> ProcRecord]
    /\ \A q \in Slots :
          /\ tr[q].pid = pr[q].pid /\ tr[q].ppid = pr[q].ppid
          /\ tr[q].state = "ZOMBIE" <=> pr[q].state = "ZOMBIE"
          /\ Live(tr, q) <=> Live(pr, q)
    /\ tr[i].state = pr[i].state /\ tr[i].execmem = m /\ tr[i].img = m
    /\ tr[i].heap = None /\ tr[i].heapmem = None /\ tr[i].at = "main"
    /\ \A q \in Slots \ {i} :
          /\ Bones(pr[q], tr[q]) /\ Signals(pr[q], tr[q])
          /\ IF Susp(pr, q) /\ pr[q].chan = i
             THEN tr[q].state = "RUNNABLE"
             ELSE tr[q].state = pr[q].state /\ tr[q].chan = pr[q].chan

Unclaimed(pr, m) ==
    m \in Arena /\ \A q \in Slots : pr[q].execmem # m /\ (Live(pr, q) => pr[q].img # m)

LEMMA ExecedIsGood ==
    ASSUME NEW pr, NEW tr, NEW i \in Slots, NEW m, Good(pr), Ready(pr, i),
           Unclaimed(pr, m), Execed(pr, tr, i, m)
    PROVE  Good(tr)
  <1>1. /\ pr \in [Slots -> ProcRecord] /\ tr \in [Slots -> ProcRecord]
        /\ \A q \in Slots : pr[q].pid \in Nat
    BY FieldTypes DEF Good, Execed
  <1>2. Live(pr, i) /\ ~Susp(pr, i) /\ ~Waits(pr, i) /\ ~Susp(tr, i) /\ ~Waits(tr, i)
    BY DEF Ready, Live, Susp, Waits, Execed
  <1>3. \A q \in Slots : Susp(tr, q) =>
          q # i /\ Susp(pr, q) /\ tr[q].chan = pr[q].chan /\ pr[q].chan # i /\ pr[q].chan \in Slots
    BY <1>2 DEF Execed, Susp
  <1>4. \A q \in Slots : Waits(tr, q) => Waits(pr, q)
    BY <1>2 DEF Execed, Waits
  <1>5. \A j, k \in Slots : Same(tr, j, k) /\ j # k => Same(pr, j, k) /\ j # i /\ k # i
    BY DEF Execed, Same, Unclaimed, Bones
  <1>6. \A k \in Slots : Same(pr, i, k) => pr[k].pid <= pr[i].pid
    BY <1>1, <1>2 DEF Good, Order, Same
  <1>7. \A k \in Slots : Same(pr, i, k) /\ pr[i].pid <= pr[k].pid => k = i
    BY <1>1, <1>6 DEF Good, Pids, Same, Used, Live
  <1>8. \A q \in Slots : Used(tr, q) <=> Used(pr, q)
    BY DEF Execed, Used, Live
  <1>9. Pids(tr)
    BY <1>8 DEF Good, Pids, Execed
  <1>10. Waiters(tr)
    BY <1>4 DEF Good, Waiters, Execed
  <1>11. Parents(tr)
    BY <1>8 DEF Good, Parents, Execed
  <1>12. Suspends(tr)
    <2> SUFFICES ASSUME NEW k \in Slots, Susp(tr, k)
                 PROVE  /\ Same(tr, k, tr[k].chan)
                        /\ tr[tr[k].chan].ppid = tr[k].pid
                        /\ tr[k].pid < tr[tr[k].chan].pid
      BY DEF Suspends
    <2>1. PICK c \in Slots : c = pr[k].chan /\ c # i
      BY <1>3
    <2>2. k # i /\ Susp(pr, k) /\ tr[k].chan = c
      BY <1>3, <2>1
    <2>3. Same(pr, k, c) /\ pr[c].ppid = pr[k].pid /\ pr[k].pid < pr[c].pid
      BY <2>1, <2>2 DEF Good, Suspends
    <2> QED BY <2>1, <2>2, <2>3 DEF Execed, Same, Bones
  <1>13. Order(tr)
    <2> SUFFICES ASSUME NEW a \in Slots, NEW b \in Slots, Same(tr, a, b), tr[a].pid < tr[b].pid
                 PROVE  Susp(tr, a) /\ tr[tr[a].chan].pid <= tr[b].pid
      BY DEF Order
    <2>0. a # b
      BY <1>1 DEF Execed
    <2>1. Same(pr, a, b) /\ a # i /\ b # i /\ tr[a].pid = pr[a].pid /\ tr[b].pid = pr[b].pid
      BY <1>5, <2>0 DEF Execed
    <2>2. Susp(pr, a) /\ pr[pr[a].chan].pid <= pr[b].pid
      BY <2>1 DEF Good, Order
    <2>3. PICK c \in Slots : c = pr[a].chan
      BY <2>2 DEF Susp
    <2>4. Same(pr, a, c)
      BY <2>2, <2>3 DEF Good, Suspends
    <2>5. c # i
      BY <1>7, <2>1, <2>2, <2>3, <2>4 DEF Same
    <2>6. tr[a].chan = c /\ tr[a].state = "SLEEPING"
      BY <2>1, <2>2, <2>3, <2>5 DEF Execed, Susp
    <2> QED BY <2>1, <2>2, <2>3, <2>5, <2>6 DEF Execed, Susp
  <1>14. ImageOwners(tr)
    <2>1. ASSUME NEW j \in Slots, tr[j].execmem # None
          PROVE  /\ Live(tr, j) /\ tr[j].execmem = tr[j].img
                 /\ \A k \in Slots : Same(tr, k, j) => tr[j].pid <= tr[k].pid
      <3>1. ASSUME NEW k \in Slots, Same(tr, k, j) PROVE tr[j].pid <= tr[k].pid
        <4>1. CASE k = j
          BY <1>1, <4>1 DEF Execed
        <4>2. CASE k # j
          <5>1. Same(pr, k, j) /\ j # i /\ tr[j].execmem = pr[j].execmem
            BY <1>5, <3>1, <4>2 DEF Execed, Bones
          <5> QED BY <2>1, <5>1 DEF Good, ImageOwners, Execed
        <4> QED BY <4>1, <4>2
      <3>2. Live(tr, j) /\ tr[j].execmem = tr[j].img
        BY <1>2, <2>1 DEF Good, ImageOwners, Execed, Bones
      <3> QED BY <3>1, <3>2
    <2>2. ASSUME NEW k \in Slots, Live(tr, k), tr[k].img \notin BootImages
          PROVE  \E j \in Slots : tr[j].execmem = tr[k].img
      <3>0. CASE k = i
        BY <3>0 DEF Execed
      <3>1. CASE k # i
        <4>1. Live(pr, k) /\ tr[k].img = pr[k].img
          BY <2>2, <3>1 DEF Execed, Bones
        <4>2. PICK j \in Slots : pr[j].execmem = pr[k].img
          BY <2>2, <4>1 DEF Good, ImageOwners
        <4>3. j # i
          <5>1. SUFFICES ASSUME j = i PROVE FALSE
            OBVIOUS
          <5>2. pr[i].execmem # None
            BY <1>1, <2>2, <4>1, <4>2, <5>1, FieldTypes, Params DEF Images, BootImages, Arena
          <5>3. Same(pr, k, i) /\ Same(pr, i, k)
            BY <4>1, <4>2, <5>1, <5>2 DEF Good, ImageOwners, Same
          <5>4. pr[i].pid <= pr[k].pid
            BY <5>2, <5>3 DEF Good, ImageOwners
          <5> QED BY <1>7, <3>1, <5>3, <5>4
        <4> QED BY <4>1, <4>2, <4>3 DEF Execed, Bones
      <3> QED BY <3>0, <3>1
    <2> QED BY <2>1, <2>2 DEF ImageOwners
  <1>15. HeapOwners(tr)
    <2>1. ASSUME NEW j \in Slots, tr[j].heapmem # None
          PROVE  /\ Live(tr, j) /\ tr[j].heapmem = tr[j].heap
                 /\ \A k \in Slots : Live(tr, k) /\ tr[k].heap = tr[j].heap =>
                       tr[k].img = tr[j].img /\ tr[j].pid <= tr[k].pid
      <3>1. j # i /\ tr[j].heapmem = pr[j].heapmem
        BY <2>1 DEF Execed, Bones
      <3>2. Live(tr, j) /\ tr[j].heapmem = tr[j].heap
        BY <2>1, <3>1 DEF Good, HeapOwners, Execed, Bones
      <3>3. \A k \in Slots : Live(tr, k) /\ tr[k].heap = tr[j].heap => k # i
        BY <2>1, <3>2 DEF Execed
      <3> QED BY <2>1, <3>1, <3>2, <3>3 DEF Good, HeapOwners, Execed, Bones
    <2>2. ASSUME NEW k \in Slots, Live(tr, k), tr[k].heap # None
          PROVE  \E j \in Slots : tr[j].heapmem = tr[k].heap
      <3>1. k # i /\ Live(pr, k) /\ tr[k].heap = pr[k].heap
        BY <2>2 DEF Execed, Bones
      <3>2. PICK j \in Slots : pr[j].heapmem = pr[k].heap
        BY <2>2, <3>1 DEF Good, HeapOwners
      <3>3. j # i
        <4>1. SUFFICES ASSUME j = i PROVE FALSE
          OBVIOUS
        <4>2. pr[i].heapmem # None /\ pr[i].heap = pr[k].heap
          BY <2>2, <3>1, <3>2, <4>1 DEF Good, HeapOwners
        <4>3. Same(pr, i, k) /\ pr[i].pid <= pr[k].pid
          BY <3>1, <4>2 DEF Good, HeapOwners, Same
        <4> QED BY <1>7, <3>1, <4>3
      <3> QED BY <3>1, <3>2, <3>3 DEF Execed, Bones
    <2>3. ASSUME NEW a \in Slots, NEW b \in Slots, Same(tr, a, b)
          PROVE  tr[a].heap = tr[b].heap
      <3>1. CASE a = b
        BY <3>1
      <3>2. CASE a # b
        BY <1>5, <2>3, <3>2 DEF Good, HeapOwners, Execed, Bones
      <3> QED BY <3>1, <3>2
    <2> QED BY <2>1, <2>2, <2>3 DEF HeapOwners
  <1>16. Handlers(tr)
    BY <1>3 DEF Good, Handlers, Execed, Signals
  <1> QED BY <1>1, <1>9, <1>10, <1>11, <1>12, <1>13, <1>14, <1>15, <1>16 DEF Good

(* Whoever is asleep in fork() on a member of an image is in it. *)
LEMMA ChainInImage ==
    ASSUME NEW pr, NEW i \in Slots, Good(pr), Ready(pr, i)
    PROVE  /\ VforkChain(pr, i) \subseteq {q \in Slots : q # i /\ Same(pr, q, i)}
           /\ \E up : /\ up \in [0..NPROC -> SUBSET Slots]
                      /\ up[0] = VforkParents(pr, i)
                      /\ \A k \in 1..NPROC :
                            up[k] = up[k-1] \cup UNION {VforkParents(pr, q) : q \in up[k-1]}
                      /\ VforkChain(pr, i) = up[NPROC]
  <1> DEFINE M == {q \in Slots : q # i /\ Same(pr, q, i)}
             D == SUBSET M
             a == VforkParents(pr, i)
             Turn(u) == u \cup UNION {VforkParents(pr, q) : q \in u}
             step == [k \in 1..NPROC |-> [u \in D |-> Turn(u)]]
             F[k \in 0..NPROC] == IF k = 0 THEN a ELSE Turn(F[k-1])
  <1>0. pr \in [Slots -> ProcRecord] /\ NPROC \in Nat /\ \A q \in Slots : pr[q].pid \in Nat
    BY FieldTypes, Params DEF Good
  <1>1. VforkChain(pr, i) = F[NPROC]
    BY DEF VforkChain
  <1>2. ASSUME NEW q \in Slots, NEW r \in VforkParents(pr, q), r # q
        PROVE  r \in Slots /\ Susp(pr, r) /\ Same(pr, r, q)
    <2>1. r \in Slots /\ Susp(pr, r) /\ pr[r].chan = q
      BY <1>2 DEF VforkParents, Susp
    <2> QED BY <2>1 DEF Good, Suspends
  <1>3. a \in D
    <2> SUFFICES ASSUME NEW r \in a PROVE r \in M
      OBVIOUS
    <2>1. r # i
      BY DEF VforkParents, Ready
    <2> QED BY <1>2, <2>1
  <1>4. ASSUME NEW u \in D PROVE Turn(u) \in D
    <2> SUFFICES ASSUME NEW q \in u, NEW r \in VforkParents(pr, q) PROVE r \in M
      OBVIOUS
    <2>1. q \in Slots /\ q # i /\ Same(pr, q, i)
      OBVIOUS
    <2>2. CASE r = q
      BY <2>1, <2>2
    <2>3. CASE r # q
      <3>1. r \in Slots /\ Susp(pr, r) /\ Same(pr, r, q)
        BY <1>2, <2>1, <2>3
      <3>2. r # i
        BY <3>1 DEF Susp, Ready
      <3> QED BY <2>1, <3>1, <3>2 DEF Same
    <2> QED BY <2>2, <2>3
  <1>5. step \in StepsOn(D, NPROC)
    <2> HIDE DEF Turn, D
    <2> QED BY <1>4 DEF StepsOn
  <1>6. PICK g : Iterates(g, D, NPROC, a, step)
    <2> HIDE DEF step, D, a
    <2> QED BY <1>0, <1>3, <1>5, Recursion
  <1>7. /\ g \in [0..NPROC -> D] /\ g[0] = a
        /\ \A k \in 1..NPROC : g[k] = step[k][g[k - 1]]
    BY <1>6 DEF Iterates
  <1>8. g = [k \in 0..NPROC |-> IF k = 0 THEN a ELSE Turn(g[k-1])]
    <2> HIDE DEF Turn, D, a
    <2>1. \A k \in 0..NPROC : k # 0 => k \in 1..NPROC /\ k - 1 \in 0..NPROC
      BY <1>0
    <2>2. \A k \in 0..NPROC : g[k] = IF k = 0 THEN a ELSE Turn(g[k-1])
      BY <1>7, <2>1
    <2> QED BY <1>7, <2>2
  <1>9. F = [k \in 0..NPROC |-> IF k = 0 THEN a ELSE Turn(F[k-1])]
    <2> HIDE DEF Turn, a
    <2> QED BY <1>8
  <1> HIDE DEF F
  <1>10. F[0] = a /\ \A k \in 1..NPROC : F[k] = Turn(F[k-1])
    <2> HIDE DEF Turn, a
    <2> QED BY <1>0, <1>9
  <1> DEFINE S == {k \in Nat : k <= NPROC => F[k] \in D}
  <1>11. 0 \in S
    BY <1>3, <1>10
  <1>12. ASSUME NEW k \in Nat, k \in S PROVE k + 1 \in S
    <2> SUFFICES ASSUME k + 1 <= NPROC PROVE F[k + 1] \in D
      OBVIOUS
    <2>1. F[k] \in D /\ k + 1 \in 1..NPROC /\ (k + 1) - 1 = k
      BY <1>0, <1>12
    <2>2. F[k + 1] = Turn(F[k])
      BY <1>10, <2>1
    <2> HIDE DEF Turn, D
    <2> QED BY <1>4, <2>1, <2>2
  <1>13. Nat \subseteq S
    <2> HIDE DEF S
    <2> QED BY <1>11, <1>12, SetInduction
  <1>14. \A k \in 0..NPROC : F[k] \in D
    <2> HIDE DEF D
    <2> QED BY <1>0, <1>13
  <1>15. F \in [0..NPROC -> SUBSET Slots]
    <2>1. D \subseteq SUBSET Slots
      OBVIOUS
    <2> HIDE DEF D, Turn, a
    <2> QED BY <1>9, <1>14, <2>1
  <1>16. F[NPROC] \in D
    <2> HIDE DEF D
    <2> QED BY <1>0, <1>14
  <1> QED BY <1>1, <1>10, <1>15, <1>16

(* The parents already have the heap that exec would hand to them. *)
LEMMA SyncBrkIs ==
    ASSUME NEW pr, NEW i \in Slots, Good(pr), Ready(pr, i)
    PROVE  vfork_sync_brk(pr, i) = pr
  <1>1. pr \in [Slots -> ProcRecord]
    BY DEF Good
  <1>2. \A q \in VforkChain(pr, i) : q \in Slots /\ pr[q].heap = pr[i].heap
    BY ChainInImage DEF Good, HeapOwners
  <1>3. \A q \in VforkChain(pr, i) : [pr[q] EXCEPT !.heap = pr[i].heap] = pr[q]
    <2> SUFFICES ASSUME NEW p \in ProcRecord PROVE [p EXCEPT !.heap = p.heap] = p
      BY <1>1, <1>2
    <2> QED BY DEF ProcRecord
  <1> QED BY <1>1, <1>3 DEF vfork_sync_brk

Loaded(p, m) == [p EXCEPT !.execmem = m, !.img = m, !.at = "main"]

LEMMA LoadedIs ==
    ASSUME NEW p \in ProcRecord, NEW m \in Arena
    PROVE  LET r == Loaded(p, m)
           IN /\ r \in ProcRecord
              /\ r.pid = p.pid /\ r.ppid = p.ppid /\ r.state = p.state /\ r.chan = p.chan
              /\ r.execmem = m /\ r.img = m /\ r.at = "main"
              /\ r.heap = p.heap /\ r.heapmem = p.heapmem
  <1>1. m \in Images /\ m \in Arena \cup {None} /\ "main" \in {"main", "handler"}
    BY DEF Images
  <1> QED BY <1>1 DEF Loaded, ProcRecord

LEMMA ExecIs ==
    ASSUME NEW pr, NEW i \in Slots, NEW m, Good(pr), Ready(pr, i), Unclaimed(pr, m)
    PROVE  Execed(pr, Exec(pr, i, m), i, m)
  <1>0. pr \in [Slots -> ProcRecord] /\ m \in Arena
    BY DEF Good, Unclaimed
  <1> DEFINE kf == kfree_exec(pr, i)
             ld == [kf EXCEPT ![i] = Loaded(kf[i], m)]
             tr == Exec(pr, i, m)
  <1>2. /\ kf \in [Slots -> ProcRecord]
        /\ \A q \in Slots \ {i} : kf[q] = pr[q]
        /\ kf[i].pid = pr[i].pid /\ kf[i].ppid = pr[i].ppid
        /\ kf[i].state = pr[i].state /\ kf[i].chan = pr[i].chan
        /\ kf[i].heap = None /\ kf[i].heapmem = None
    BY <1>0, FreedIs
  <1>3. tr = vfork_release(ld, i)
    <2>1. tr = vfork_release([kf EXCEPT ![i].execmem = m, ![i].img = m, ![i].at = "main"], i)
      BY SyncBrkIs DEF Exec
    <2> HIDE DEF kf
    <2>2. [kf EXCEPT ![i].execmem = m, ![i].img = m, ![i].at = "main"] = ld
      BY <1>2 DEF Loaded
    <2> QED BY <2>1, <2>2
  <1> HIDE DEF kf
  <1>4. /\ ld \in [Slots -> ProcRecord] /\ ld[i] = Loaded(kf[i], m)
        /\ \A q \in Slots \ {i} : ld[q] = pr[q]
    BY <1>0, <1>2, LoadedIs
  <1> HIDE DEF ld
  <1>5. /\ ld[i].pid = pr[i].pid /\ ld[i].ppid = pr[i].ppid /\ ld[i].state = pr[i].state
        /\ ld[i].execmem = m /\ ld[i].img = m /\ ld[i].at = "main"
        /\ ld[i].heap = None /\ ld[i].heapmem = None
    BY <1>0, <1>2, <1>4, LoadedIs
  <1>6. /\ tr \in [Slots -> ProcRecord]
        /\ \A q \in Slots :
              tr[q] = IF q \in VforkParents(ld, i) THEN Woken(ld[q]) ELSE ld[q]
    BY <1>3, <1>4, ReleasedIs
  <1> HIDE DEF tr
  <1>7. tr[i] = ld[i]
    BY <1>5, <1>6 DEF VforkParents, Ready
  <1>8. ASSUME NEW q \in Slots \ {i}
        PROVE  /\ Bones(pr[q], tr[q]) /\ Signals(pr[q], tr[q])
               /\ IF Susp(pr, q) /\ pr[q].chan = i
                  THEN tr[q].state = "RUNNABLE"
                  ELSE tr[q].state = pr[q].state /\ tr[q].chan = pr[q].chan
    <2>1. q \in VforkParents(ld, i) <=> Susp(pr, q) /\ pr[q].chan = i
      BY <1>4 DEF VforkParents, Susp
    <2>2. tr[q] = IF Susp(pr, q) /\ pr[q].chan = i THEN Woken(pr[q]) ELSE pr[q]
      BY <1>4, <1>6, <2>1
    <2> QED BY <1>0, <2>2, WokenIs DEF Bones, Signals
  <1>9. ASSUME NEW q \in Slots
        PROVE  /\ tr[q].pid = pr[q].pid /\ tr[q].ppid = pr[q].ppid
               /\ tr[q].state = "ZOMBIE" <=> pr[q].state = "ZOMBIE"
               /\ Live(tr, q) <=> Live(pr, q)
    BY <1>5, <1>7, <1>8 DEF Bones, Live, Susp
  <1> QED BY <1>5, <1>6, <1>7, <1>8, <1>9 DEF Execed, tr

-----------------------------------------------------------------------------
(* Process i is suspended on a child in slot c that shares all it has: fork. *)
Forked(pr, tr, i, c, n) ==
    /\ tr \in [Slots -> ProcRecord]
    /\ \A q \in Slots \ {i, c} : tr[q] = pr[q]
    /\ Bones(pr[i], tr[i]) /\ Signals(pr[i], tr[i])
    /\ tr[i].state = "SLEEPING" /\ tr[i].chan = c
    /\ tr[c].pid = n /\ tr[c].ppid = pr[i].pid
    /\ tr[c].state = "RUNNABLE" /\ tr[c].img = pr[i].img /\ tr[c].heap = pr[i].heap
    /\ tr[c].execmem = pr[c].execmem /\ tr[c].heapmem = pr[c].heapmem
    /\ Signals(pr[i], tr[c])

LEMMA ForkedIsGood ==
    ASSUME NEW pr, NEW tr, NEW i \in Slots, NEW c \in Slots, NEW n \in Nat, Good(pr), Born(pr, n),
           Ready(pr, i), pr[i].at = "main", ~Used(pr, c), Forked(pr, tr, i, c, n)
    PROVE  Good(tr)
  <1>1. /\ pr \in [Slots -> ProcRecord] /\ tr \in [Slots -> ProcRecord]
        /\ \A q \in Slots : pr[q].pid \in Nat
    BY FieldTypes DEF Good, Forked
  <1>2. i # c /\ Live(pr, i) /\ ~Live(pr, c) /\ ~Susp(pr, i) /\ ~Waits(pr, i)
    BY DEF Ready, Live, Used, Susp, Waits
  <1>3. /\ Susp(tr, i) /\ ~Waits(tr, i) /\ ~Susp(tr, c) /\ ~Waits(tr, c)
        /\ Live(tr, i) /\ Live(tr, c)
    BY <1>2 DEF Forked, Susp, Waits, Live
  <1>4. \A q \in Slots \ {i, c} :
          /\ tr[q] = pr[q]
          /\ Susp(tr, q) <=> Susp(pr, q)
          /\ Waits(tr, q) <=> Waits(pr, q)
          /\ Live(tr, q) <=> Live(pr, q)
          /\ Used(tr, q) <=> Used(pr, q)
    BY DEF Forked, Susp, Waits, Live, Used
  <1>5. /\ pr[c].execmem = None /\ pr[c].heapmem = None
        /\ tr[c].execmem = None /\ tr[c].heapmem = None
    BY <1>2 DEF Good, ImageOwners, HeapOwners, Forked
  <1>6. \A k \in Slots : Same(pr, i, k) => pr[k].pid <= pr[i].pid
    BY <1>1, <1>2 DEF Good, Order, Same
  <1>7. /\ \A q \in Slots : pr[q].pid < n
        /\ initpid < n /\ n >= 1
    BY <1>1, Params DEF Born
  <1>8. /\ \A q \in Slots \ {c} : tr[q].pid = pr[q].pid /\ tr[q].ppid = pr[q].ppid /\ tr[q].img = pr[q].img
        /\ \A q \in Slots \ {c} : tr[q].execmem = pr[q].execmem /\ tr[q].heap = pr[q].heap
        /\ \A q \in Slots \ {c} : tr[q].heapmem = pr[q].heapmem
        /\ \A q \in Slots \ {c} : Live(tr, q) <=> Live(pr, q)
        /\ \A q \in Slots \ {c} : Used(tr, q) <=> Used(pr, q)
        /\ \A q \in Slots \ {c} : tr[q].state = "ZOMBIE" <=> pr[q].state = "ZOMBIE"
    BY <1>2, <1>4 DEF Forked, Bones, Ready, Live, Used
  <1>9. /\ tr[c].pid = n /\ tr[c].ppid = pr[i].pid /\ tr[c].img = pr[i].img
        /\ tr[c].heap = pr[i].heap /\ tr[c].state = "RUNNABLE"
        /\ tr[i].chan = c
    BY DEF Forked
  <1>10. Pids(tr)
    <2>1. ASSUME NEW q \in Slots, Used(tr, q)
          PROVE  tr[q].pid >= 1 /\ tr[q].ppid # tr[q].pid /\ (tr[q].pid = initpid => tr[q].ppid = 0)
      <3>1. CASE q = c
        BY <1>1, <1>7, <1>9, <3>1, Params
      <3>2. CASE q # c
        BY <1>8, <2>1, <3>2 DEF Good, Pids
      <3> QED BY <3>1, <3>2
    <2>2. ASSUME NEW j \in Slots, NEW k \in Slots, Used(tr, j), Used(tr, k), tr[j].pid = tr[k].pid
          PROVE  j = k
      <3>1. CASE j = c \/ k = c
        BY <1>1, <1>7, <1>8, <1>9, <2>2, <3>1
      <3>2. CASE j # c /\ k # c
        BY <1>8, <2>2, <3>2 DEF Good, Pids
      <3> QED BY <3>1, <3>2
    <2> QED BY <2>1, <2>2 DEF Pids
  <1>11. Waiters(tr)
    <2> SUFFICES ASSUME NEW k \in Slots, Waits(tr, k)
                 PROVE  /\ \E q \in Slots : Live(tr, q) /\ tr[q].ppid = tr[k].pid
                        /\ \A q \in Slots : tr[q].state = "ZOMBIE" => tr[q].ppid # tr[k].pid
      BY DEF Waiters
    <2>1. k # c /\ k # i /\ Waits(pr, k) /\ tr[k].pid = pr[k].pid
      BY <1>3, <1>4, <1>8
    <2>2. PICK q \in Slots : Live(pr, q) /\ pr[q].ppid = pr[k].pid
      BY <2>1 DEF Good, Waiters
    <2>3. Live(tr, q) /\ tr[q].ppid = tr[k].pid
      BY <1>2, <1>8, <2>1, <2>2
    <2>4. \A z \in Slots : tr[z].state = "ZOMBIE" => tr[z].ppid # tr[k].pid
      BY <1>8, <1>9, <2>1 DEF Good, Waiters
    <2> QED BY <2>3, <2>4
  <1>12. Parents(tr)
    <2> SUFFICES ASSUME HasInit, NEW k \in Slots, Used(tr, k), tr[k].ppid # 0
                 PROVE  \/ tr[k].ppid = initpid /\ tr[k].state # "ZOMBIE"
                        \/ /\ tr[k].ppid # initpid
                           /\ \E q \in Slots : Live(tr, q) /\ tr[q].pid = tr[k].ppid
      BY DEF Parents
    <2>1. CASE k = c
      BY <1>2, <1>3, <1>8, <1>9, <2>1
    <2>2. CASE k # c
      <3>1. \/ pr[k].ppid = initpid /\ pr[k].state # "ZOMBIE"
            \/ /\ pr[k].ppid # initpid
               /\ \E q \in Slots : Live(pr, q) /\ pr[q].pid = pr[k].ppid
        BY <1>8, <2>2 DEF Good, Parents
      <3> QED BY <1>2, <1>8, <2>2, <3>1
    <2> QED BY <2>1, <2>2
  <1>13. Suspends(tr)
    <2> SUFFICES ASSUME NEW k \in Slots, Susp(tr, k)
                 PROVE  /\ Same(tr, k, tr[k].chan)
                        /\ tr[tr[k].chan].ppid = tr[k].pid
                        /\ tr[k].pid < tr[tr[k].chan].pid
      BY DEF Suspends
    <2>1. CASE k = i
      <3>1. Same(tr, i, c)
        BY <1>2, <1>3, <1>8, <1>9 DEF Same
      <3> QED BY <1>2, <1>7, <1>8, <1>9, <2>1, <3>1
    <2>2. CASE k # i
      <3>1. k # c /\ Susp(pr, k) /\ tr[k] = pr[k]
        BY <1>3, <1>4, <2>2
      <3>2. PICK d \in Slots : d = pr[k].chan
        BY <3>1 DEF Susp
      <3>3. Same(pr, k, d) /\ pr[d].ppid = pr[k].pid /\ pr[k].pid < pr[d].pid
        BY <3>1, <3>2 DEF Good, Suspends
      <3>4. d # c
        BY <1>2, <3>3 DEF Same
      <3> QED BY <1>8, <3>1, <3>2, <3>3, <3>4 DEF Same
    <2> QED BY <2>1, <2>2
  <1>14. Order(tr)
    <2> SUFFICES ASSUME NEW a \in Slots, NEW b \in Slots, Same(tr, a, b), tr[a].pid < tr[b].pid
                 PROVE  Susp(tr, a) /\ tr[tr[a].chan].pid <= tr[b].pid
      BY DEF Order
    <2>1. a # c
      <3>1. b # c => tr[b].pid < n
        BY <1>7, <1>8
      <3>2. b = c => tr[b].pid = n
        BY <1>9
      <3>3. tr[b].pid \in Nat
        BY <1>1, <1>8, <1>9
      <3> QED BY <1>9, <3>1, <3>2, <3>3
    <2>2. CASE a = i
      <3>1. b = c
        <4>1. SUFFICES ASSUME b # c PROVE FALSE
          OBVIOUS
        <4>2. Same(pr, i, b) /\ pr[i].pid < pr[b].pid
          BY <1>2, <1>8, <2>2, <4>1 DEF Same
        <4> QED BY <1>1, <1>6, <4>2
      <3> QED BY <1>3, <1>9, <2>2, <3>1
    <2>3. CASE a # i
      <3>1. Same(pr, a, IF b = c THEN i ELSE b)
        BY <1>2, <1>8, <1>9, <2>1 DEF Same
      <3>2. PICK e \in Slots : e = (IF b = c THEN i ELSE b) /\ Same(pr, a, e)
        BY <3>1
      <3>3. pr[a].pid < pr[e].pid /\ pr[e].pid <= tr[b].pid
        <4>1. CASE b = c
          <5>1. e = i /\ Same(pr, i, a) /\ pr[a].pid <= pr[i].pid
            BY <1>6, <3>2, <4>1 DEF Same
          <5>2. pr[a].pid # pr[i].pid
            BY <2>3, <5>1 DEF Good, Pids, Same, Live, Used
          <5> QED BY <1>1, <1>7, <1>9, <4>1, <5>1, <5>2
        <4>2. CASE b # c
          BY <1>1, <1>8, <2>1, <3>2, <4>2
        <4> QED BY <4>1, <4>2
      <3>4. Susp(pr, a) /\ pr[pr[a].chan].pid <= pr[e].pid
        BY <3>2, <3>3 DEF Good, Order
      <3>5. PICK d \in Slots : d = pr[a].chan
        BY <3>4 DEF Susp
      <3>6. d # c
        BY <1>2, <3>4, <3>5 DEF Good, Suspends, Same
      <3>7. Susp(tr, a) /\ tr[a].chan = d /\ tr[d].pid = pr[d].pid
        BY <1>4, <1>8, <2>1, <2>3, <3>4, <3>5, <3>6
      <3>8. tr[b].pid \in Nat
        BY <1>1, <1>8, <1>9
      <3>9. pr[d].pid <= pr[e].pid /\ pr[d].pid \in Nat /\ pr[e].pid \in Nat
        BY <1>1, <3>4, <3>5
      <3> QED BY <3>3, <3>7, <3>8, <3>9
    <2> QED BY <2>2, <2>3
  <1>15. ImageOwners(tr)
    <2>1. ASSUME NEW j \in Slots, tr[j].execmem # None
          PROVE  /\ Live(tr, j) /\ tr[j].execmem = tr[j].img
                 /\ \A k \in Slots : Same(tr, k, j) => tr[j].pid <= tr[k].pid
      <3>1. /\ j # c /\ Live(pr, j) /\ pr[j].execmem = pr[j].img /\ pr[j].execmem # None
            /\ \A k \in Slots : Same(pr, k, j) => pr[j].pid <= pr[k].pid
        BY <1>5, <1>8, <2>1 DEF Good, ImageOwners
      <3>2. ASSUME NEW k \in Slots, Same(tr, k, j) PROVE tr[j].pid <= tr[k].pid
        <4>1. CASE k = c
          BY <1>1, <1>7, <1>8, <1>9, <3>1, <4>1
        <4>2. CASE k # c
          BY <1>8, <3>1, <3>2, <4>2 DEF Same
        <4> QED BY <4>1, <4>2
      <3> QED BY <1>8, <3>1, <3>2
    <2>2. ASSUME NEW k \in Slots, Live(tr, k), tr[k].img \notin BootImages
          PROVE  \E j \in Slots : tr[j].execmem = tr[k].img
      <3>1. PICK e \in Slots : e = IF k = c THEN i ELSE k
        OBVIOUS
      <3>2. Live(pr, e) /\ pr[e].img = tr[k].img
        BY <1>2, <1>8, <1>9, <2>2, <3>1
      <3>3. PICK j \in Slots : pr[j].execmem = tr[k].img
        BY <2>2, <3>2 DEF Good, ImageOwners
      <3>4. tr[k].img # None
        BY <1>1, FieldTypes, Params DEF Images, BootImages, Arena
      <3> QED BY <1>5, <1>8, <3>3, <3>4
    <2> QED BY <2>1, <2>2 DEF ImageOwners
  <1>16. HeapOwners(tr)
    <2>1. ASSUME NEW j \in Slots, tr[j].heapmem # None
          PROVE  /\ Live(tr, j) /\ tr[j].heapmem = tr[j].heap
                 /\ \A k \in Slots : Live(tr, k) /\ tr[k].heap = tr[j].heap =>
                       tr[k].img = tr[j].img /\ tr[j].pid <= tr[k].pid
      <3>1. /\ j # c /\ Live(pr, j) /\ pr[j].heapmem = pr[j].heap
            /\ \A k \in Slots : Live(pr, k) /\ pr[k].heap = pr[j].heap =>
                  pr[k].img = pr[j].img /\ pr[j].pid <= pr[k].pid
        BY <1>5, <1>8, <2>1 DEF Good, HeapOwners
      <3>2. ASSUME NEW k \in Slots, Live(tr, k), tr[k].heap = tr[j].heap
            PROVE  tr[k].img = tr[j].img /\ tr[j].pid <= tr[k].pid
        <4>1. CASE k = c
          <5>1. pr[i].heap = pr[j].heap /\ pr[i].img = pr[j].img
            BY <1>2, <1>8, <1>9, <3>1, <3>2, <4>1
          <5> QED BY <1>1, <1>7, <1>8, <1>9, <3>1, <4>1, <5>1
        <4>2. CASE k # c
          BY <1>8, <3>1, <3>2, <4>2
        <4> QED BY <4>1, <4>2
      <3> QED BY <1>8, <3>1, <3>2
    <2>2. ASSUME NEW k \in Slots, Live(tr, k), tr[k].heap # None
          PROVE  \E j \in Slots : tr[j].heapmem = tr[k].heap
      <3>1. PICK e \in Slots : e = IF k = c THEN i ELSE k
        OBVIOUS
      <3>2. Live(pr, e) /\ pr[e].heap = tr[k].heap
        BY <1>2, <1>8, <1>9, <2>2, <3>1
      <3>3. PICK j \in Slots : pr[j].heapmem = tr[k].heap
        BY <2>2, <3>2 DEF Good, HeapOwners
      <3> QED BY <1>5, <1>8, <2>2, <3>3
    <2>3. ASSUME NEW a \in Slots, NEW b \in Slots, Same(tr, a, b)
          PROVE  tr[a].heap = tr[b].heap
      <3>1. PICK d \in Slots, e \in Slots : d = (IF a = c THEN i ELSE a) /\ e = (IF b = c THEN i ELSE b)
        OBVIOUS
      <3>2. Same(pr, d, e) /\ pr[d].heap = tr[a].heap /\ pr[e].heap = tr[b].heap
        BY <1>2, <1>8, <1>9, <2>3, <3>1 DEF Same
      <3> QED BY <3>2 DEF Good, HeapOwners
    <2> QED BY <2>1, <2>2, <2>3 DEF HeapOwners
  <1>17. Handlers(tr)
    <2>1. tr[c].at = "main" /\ tr[i].at = "main"
      BY DEF Forked, Signals
    <2> QED BY <1>4, <2>1 DEF Good, Handlers
  <1> QED BY <1>1, <1>10, <1>11, <1>12, <1>13, <1>14, <1>15, <1>16, <1>17 DEF Good

LEMMA ForkChildIs ==
    ASSUME NEW p \in ProcRecord, NEW s \in ProcRecord, NEW n \in 0..MaxPid
    PROVE  LET r == ForkChild(p, s, n)
           IN /\ r \in ProcRecord
              /\ r.pid = n /\ r.ppid = p.pid /\ r.state = "RUNNABLE"
              /\ r.img = p.img /\ r.heap = p.heap
              /\ r.execmem = s.execmem /\ r.heapmem = s.heapmem
              /\ Signals(p, r)
  <1>1. None \in Chan /\ "RUNNABLE" \in State
    BY Params DEF State
  <1> QED BY <1>1 DEF ForkChild, ProcRecord, Signals

LEMMA ForkIs ==
    ASSUME NEW pr \in [Slots -> ProcRecord], NEW i \in Slots, NEW c \in Slots, i # c,
           NEW n \in 0..MaxPid
    PROVE  Forked(pr, [pr EXCEPT ![c] = ForkChild(pr[i], @, n), ![i] = ForkParent(@, c)], i, c, n)
  <1> DEFINE child == ForkChild(pr[i], pr[c], n)
             parent == ForkParent(pr[i], c)
             tr == [pr EXCEPT ![c] = ForkChild(pr[i], @, n), ![i] = ForkParent(@, c)]
  <1>1. /\ child \in ProcRecord
        /\ child.pid = n /\ child.ppid = pr[i].pid /\ child.state = "RUNNABLE"
        /\ child.img = pr[i].img /\ child.heap = pr[i].heap
        /\ child.execmem = pr[c].execmem /\ child.heapmem = pr[c].heapmem
        /\ Signals(pr[i], child)
    BY ForkChildIs
  <1>2. /\ parent \in ProcRecord /\ Bones(pr[i], parent) /\ Signals(pr[i], parent)
        /\ parent.state = "SLEEPING" /\ parent.chan = c
    BY SleepOnIs, Params DEF ForkParent
  <1>3. tr = [q \in Slots |-> IF q = c THEN child ELSE IF q = i THEN parent ELSE pr[q]]
    OBVIOUS
  <1> HIDE DEF child, parent, tr
  <1>4. /\ tr \in [Slots -> ProcRecord] /\ tr[c] = child /\ tr[i] = parent
        /\ \A q \in Slots \ {i, c} : tr[q] = pr[q]
    BY <1>1, <1>2, <1>3
  <1>5. Forked(pr, tr, i, c, n)
    BY <1>1, <1>2, <1>4 DEF Forked
  <1> QED BY <1>5 DEF tr

-----------------------------------------------------------------------------
(* The members of the image of i have a first heap chunk h: sbrk. *)
Grown(pr, tr, i, h, top) ==
    /\ tr \in [Slots -> ProcRecord]
    /\ top \in Slots /\ Same(pr, top, i)
    /\ \A k \in Slots : Same(pr, k, i) => pr[top].pid <= pr[k].pid
    /\ \A q \in Slots :
          /\ tr[q].pid = pr[q].pid /\ tr[q].ppid = pr[q].ppid /\ tr[q].img = pr[q].img
          /\ tr[q].execmem = pr[q].execmem /\ Signals(pr[q], tr[q])
          /\ tr[q].state = pr[q].state /\ tr[q].chan = pr[q].chan
          /\ IF Same(pr, q, i)
             THEN tr[q].heap = h /\ tr[q].heapmem = IF q = top THEN h ELSE None
             ELSE tr[q].heap = pr[q].heap /\ tr[q].heapmem = pr[q].heapmem

Unmapped(pr, h) ==
    h \in Chunks /\ \A q \in Slots : pr[q].heapmem # h /\ (Live(pr, q) => pr[q].heap # h)

LEMMA GrownIsGood ==
    ASSUME NEW pr, NEW tr, NEW i \in Slots, NEW h, NEW top, Good(pr), Live(pr, i),
           pr[i].heap = None, Unmapped(pr, h), Grown(pr, tr, i, h, top)
    PROVE  Good(tr)
  <1>1. /\ pr \in [Slots -> ProcRecord] /\ tr \in [Slots -> ProcRecord]
        /\ \A q \in Slots : pr[q].pid \in Nat
    BY FieldTypes DEF Good, Grown
  <1>2. \A q \in Slots :
          /\ Susp(tr, q) <=> Susp(pr, q)
          /\ Waits(tr, q) <=> Waits(pr, q)
          /\ Live(tr, q) <=> Live(pr, q)
          /\ Used(tr, q) <=> Used(pr, q)
    BY DEF Grown, Susp, Waits, Live, Used
  <1>3. \A j, k \in Slots : Same(tr, j, k) <=> Same(pr, j, k)
    BY <1>2 DEF Grown, Same
  <1>4. \A q \in Slots : Same(pr, q, i) => pr[q].heap = None /\ pr[q].heapmem = None /\ Live(pr, q)
    BY DEF Good, HeapOwners, Same
  <1>5. h # None
    BY Params DEF Unmapped, Chunks
  <1>6. Pids(tr) /\ Waiters(tr) /\ Parents(tr)
    BY <1>2 DEF Good, Pids, Waiters, Parents, Grown
  <1>7. \A q \in Slots : Susp(pr, q) => pr[q].chan \in Slots
    BY DEF Susp
  <1>8. Suspends(tr) /\ Order(tr)
    BY <1>2, <1>3, <1>7 DEF Good, Suspends, Order, Grown
  <1>9. ImageOwners(tr)
    BY <1>2, <1>3 DEF Good, ImageOwners, Grown
  <1>10. HeapOwners(tr)
    <2>1. ASSUME NEW j \in Slots, tr[j].heapmem # None
          PROVE  /\ Live(tr, j) /\ tr[j].heapmem = tr[j].heap
                 /\ \A k \in Slots : Live(tr, k) /\ tr[k].heap = tr[j].heap =>
                       tr[k].img = tr[j].img /\ tr[j].pid <= tr[k].pid
      <3>1. CASE Same(pr, j, i)
        <4>1. j = top /\ tr[j].heapmem = h /\ tr[j].heap = h
          BY <2>1, <3>1 DEF Grown
        <4>2. ASSUME NEW k \in Slots, Live(tr, k), tr[k].heap = h PROVE Same(pr, k, i)
          BY <1>2, <4>2 DEF Grown, Unmapped
        <4> QED BY <1>2, <3>1, <4>1, <4>2 DEF Grown, Same
      <3>2. CASE ~Same(pr, j, i)
        <4>1. tr[j].heap = pr[j].heap /\ tr[j].heapmem = pr[j].heapmem /\ pr[j].heapmem # h
          BY <3>2 DEF Grown, Unmapped
        <4>2. Live(pr, j) /\ pr[j].heapmem = pr[j].heap
          BY <2>1, <4>1 DEF Good, HeapOwners
        <4>3. ASSUME NEW k \in Slots, Live(tr, k), tr[k].heap = tr[j].heap
              PROVE  tr[k].img = tr[j].img /\ tr[j].pid <= tr[k].pid
          <5>1. ~Same(pr, k, i) /\ tr[k].heap = pr[k].heap /\ Live(pr, k)
            BY <1>2, <4>1, <4>2, <4>3 DEF Grown
          <5> QED BY <2>1, <4>1, <4>3, <5>1 DEF Good, HeapOwners, Grown
        <4> QED BY <1>2, <4>1, <4>2, <4>3
      <3> QED BY <3>1, <3>2
    <2>2. ASSUME NEW k \in Slots, Live(tr, k), tr[k].heap # None
          PROVE  \E j \in Slots : tr[j].heapmem = tr[k].heap
      <3>1. CASE Same(pr, k, i)
        BY <3>1 DEF Grown
      <3>2. CASE ~Same(pr, k, i)
        <4>1. tr[k].heap = pr[k].heap /\ Live(pr, k)
          BY <1>2, <2>2, <3>2 DEF Grown
        <4>2. PICK j \in Slots : pr[j].heapmem = pr[k].heap
          BY <2>2, <4>1 DEF Good, HeapOwners
        <4>3. ~Same(pr, j, i)
          BY <1>4, <2>2, <4>1, <4>2
        <4> QED BY <4>1, <4>2, <4>3 DEF Grown
      <3> QED BY <3>1, <3>2
    <2>3. ASSUME NEW a \in Slots, NEW b \in Slots, Same(tr, a, b)
          PROVE  tr[a].heap = tr[b].heap
      <3>1. Same(pr, a, b) /\ (Same(pr, a, i) <=> Same(pr, b, i))
        BY <1>3, <2>3 DEF Same
      <3> QED BY <3>1 DEF Good, HeapOwners, Grown
    <2> QED BY <2>1, <2>2, <2>3 DEF HeapOwners
  <1>11. Handlers(tr)
    BY <1>2 DEF Good, Handlers, Grown, Signals
  <1> QED BY <1>1, <1>6, <1>8, <1>9, <1>10, <1>11 DEF Good

(* The walk up from i meets everybody in its image: a member is followed, in
   the order of pids, by the one it is asleep on, and at most NPROC are. *)
LEMMA ChainIsImage ==
    ASSUME NEW pr, NEW i \in Slots, Good(pr), Ready(pr, i)
    PROVE  VforkChain(pr, i) = {q \in Slots : q # i /\ Same(pr, q, i)}
  <1>0. pr \in [Slots -> ProcRecord] /\ NPROC \in Nat /\ \A q \in Slots : pr[q].pid \in Nat
    BY FieldTypes, Params DEF Good
  <1>1. PICK up : /\ up \in [0..NPROC -> SUBSET Slots]
                  /\ up[0] = VforkParents(pr, i)
                  /\ \A k \in 1..NPROC :
                        up[k] = up[k-1] \cup UNION {VforkParents(pr, q) : q \in up[k-1]}
                  /\ VforkChain(pr, i) = up[NPROC]
    BY ChainInImage
  <1> DEFINE M == {q \in Slots : Same(pr, q, i)}
             Above(j) == {q \in M : pr[j].pid < pr[q].pid}
  <1>2. IsFiniteSet(Slots) /\ Cardinality(Slots) = NPROC
    BY <1>0, FS_Interval DEF Slots
  <1>3. ASSUME NEW j \in M
        PROVE  IsFiniteSet(Above(j)) /\ Cardinality(Above(j)) \in Nat /\ Cardinality(Above(j)) <= NPROC
    <2>1. Above(j) \subseteq Slots
      OBVIOUS
    <2> HIDE DEF Above
    <2>2. IsFiniteSet(Above(j)) /\ Cardinality(Above(j)) <= NPROC
      BY <1>2, <2>1, FS_Subset
    <2> QED BY <2>2, FS_CardinalityType
  <1>4. ASSUME NEW j \in M, j # i
        PROVE  /\ pr[j].chan \in M /\ pr[j].pid < pr[pr[j].chan].pid
               /\ pr[pr[j].chan].pid <= pr[i].pid
               /\ j \in VforkParents(pr, pr[j].chan)
    <2>1. pr[j].pid < pr[i].pid
      <3>1. ~(pr[i].pid < pr[j].pid)
        BY DEF Good, Order, Same, Ready, Susp
      <3>2. pr[i].pid # pr[j].pid
        BY <1>4 DEF Good, Pids, Same, Live, Used
      <3> QED BY <1>0, <3>1, <3>2
    <2>2. Susp(pr, j) /\ pr[pr[j].chan].pid <= pr[i].pid
      BY <2>1 DEF Good, Order
    <2>3. pr[j].chan \in Slots /\ Same(pr, j, pr[j].chan) /\ pr[j].pid < pr[pr[j].chan].pid
      BY <2>2 DEF Good, Suspends, Susp
    <2> QED BY <2>2, <2>3 DEF Same, VforkParents, Susp
  <1>5. ASSUME NEW j \in M, j # i
        PROVE  Cardinality(Above(pr[j].chan)) < Cardinality(Above(j))
    <2>1. PICK c \in M : c = pr[j].chan /\ pr[j].pid < pr[c].pid
      BY <1>4, <1>5
    <2>2. Above(c) \subseteq Above(j) /\ c \in Above(j) /\ c \notin Above(c)
      BY <1>0, <2>1
    <2>3. Above(c) # Above(j)
      BY <2>2
    <2> HIDE DEF Above, M
    <2> QED BY <1>3, <2>1, <2>2, <2>3, FS_Subset
  <1> DEFINE S == {k \in Nat : k <= NPROC =>
                     \A j \in M : j # i /\ Cardinality(Above(j)) <= k + 1 => j \in up[k]}
  <1>6. 0 \in S
    <2> SUFFICES ASSUME NEW j \in M, j # i, Cardinality(Above(j)) <= 0 + 1 PROVE j \in up[0]
      OBVIOUS
    <2>1. PICK c \in M : c = pr[j].chan /\ j \in VforkParents(pr, c) /\ pr[c].pid <= pr[i].pid
      BY <1>4
    <2>2. Cardinality(Above(c)) = 0
      <3>1. Cardinality(Above(c)) < Cardinality(Above(j))
        BY <1>5, <2>1
      <3>2. Cardinality(Above(c)) \in Nat /\ Cardinality(Above(j)) \in Nat
        BY <1>3
      <3> HIDE DEF Above
      <3> QED BY <3>1, <3>2
    <2>3. Above(c) = {}
      <3> HIDE DEF Above
      <3> QED BY <1>3, <2>2, FS_EmptySet
    <2>4. c = i
      <3>1. i \in M
        BY DEF Same, Ready, Live
      <3>2. ~(pr[c].pid < pr[i].pid)
        BY <2>3, <3>1
      <3>3. pr[c].pid = pr[i].pid
        BY <1>0, <2>1, <3>2
      <3> QED BY <3>3 DEF Good, Pids, Same, Live, Used
    <2> QED BY <1>1, <2>1, <2>4
  <1>7. ASSUME NEW k \in Nat, k \in S PROVE k + 1 \in S
    <2> SUFFICES ASSUME k + 1 <= NPROC, NEW j \in M, j # i, Cardinality(Above(j)) <= (k + 1) + 1
                 PROVE  j \in up[k + 1]
      OBVIOUS
    <2>0. k + 1 \in 1..NPROC /\ (k + 1) - 1 = k /\ k <= NPROC
      BY <1>0
    <2>1. up[k + 1] = up[k] \cup UNION {VforkParents(pr, q) : q \in up[k]}
      BY <1>1, <2>0
    <2>2. PICK c \in M : c = pr[j].chan /\ j \in VforkParents(pr, c) /\ pr[c].pid <= pr[i].pid
      BY <1>4
    <2>3. CASE c # i
      <3>1. Cardinality(Above(c)) < Cardinality(Above(j))
        BY <1>5, <2>2
      <3>2. Cardinality(Above(c)) \in Nat /\ Cardinality(Above(j)) \in Nat
        BY <1>3
      <3>3. Cardinality(Above(c)) <= k + 1
        <4> HIDE DEF Above
        <4> QED BY <3>1, <3>2
      <3>4. c \in up[k]
        BY <1>7, <2>0, <2>3, <3>3
      <3> QED BY <2>1, <2>2, <3>4
    <2>4. CASE c = i
      <3>1. j \in up[0]
        BY <1>1, <2>2, <2>4
      <3> DEFINE R == {n \in Nat : n <= NPROC => j \in up[n]}
      <3>2. 0 \in R
        BY <3>1
      <3>3. ASSUME NEW n \in Nat, n \in R PROVE n + 1 \in R
        <4> SUFFICES ASSUME n + 1 <= NPROC PROVE j \in up[n + 1]
          OBVIOUS
        <4>1. n + 1 \in 1..NPROC /\ (n + 1) - 1 = n /\ n <= NPROC
          BY <1>0
        <4>2. up[n] \subseteq up[n + 1]
          BY <1>1, <4>1
        <4> QED BY <3>3, <4>1, <4>2
      <3>4. Nat \subseteq R
        <4> HIDE DEF R
        <4> QED BY <3>2, <3>3, SetInduction
      <3>5. k + 1 \in R
        <4> HIDE DEF R
        <4> QED BY <3>4
      <3> QED BY <3>5
    <2> QED BY <2>3, <2>4
  <1>8. NPROC \in S
    <2> HIDE DEF S
    <2> QED BY <1>0, <1>6, <1>7, SetInduction
  <1>9. ASSUME NEW j \in M, j # i PROVE j \in VforkChain(pr, i)
    <2>1. Cardinality(Above(j)) <= NPROC + 1
      <3>1. Cardinality(Above(j)) \in Nat /\ Cardinality(Above(j)) <= NPROC
        BY <1>3
      <3> HIDE DEF Above
      <3> QED BY <1>0, <3>1
    <2> QED BY <1>0, <1>1, <1>8, <1>9, <2>1
  <1>10. VforkChain(pr, i) \subseteq {q \in Slots : q # i /\ Same(pr, q, i)}
    BY ChainInImage
  <1> QED BY <1>9, <1>10

(* ksbrk's walk up ends at the oldest process of the image. *)
LEMMA TopIsOldest ==
    ASSUME NEW pr, NEW i \in Slots, Good(pr), Ready(pr, i), NEW M,
           M = {q \in Slots : Same(pr, q, i)}
    PROVE  /\ \A q \in Slots : Same(pr, q, i) /\ VforkParents(pr, q) = {} =>
                 \A r \in Slots : Same(pr, r, i) => pr[q].pid <= pr[r].pid
           /\ \E q \in M : VforkParents(pr, q) \subseteq {q} /\ (q # i => VforkParents(pr, q) = {})
  <1>0. pr \in [Slots -> ProcRecord] /\ \A q \in Slots : pr[q].pid \in Nat
    BY FieldTypes DEF Good
  <1>1. i \in M
    BY DEF Same, Ready, Live
  <1>2. ASSUME NEW q \in M, NEW r \in M, pr[r].pid < pr[q].pid
        PROVE  \E s \in M : s # q /\ s \in VforkParents(pr, q)
    (* The youngest of those that are older than q is asleep on q. *)
    <2> DEFINE D == {pr[q].pid - pr[s].pid : s \in {s \in M : pr[s].pid < pr[q].pid}}
    <2>1. D \in SUBSET Nat /\ D # {}
      <3>1. \A s \in M : pr[s].pid \in Nat
        BY <1>0
      <3> QED BY <1>2, <3>1
    <2>2. PICK m \in D : \A k \in D : m <= k
      <3> HIDE DEF D
      <3> QED BY <2>1, LeastNat
    <2>3. PICK s \in M : pr[s].pid < pr[q].pid /\ m = pr[q].pid - pr[s].pid
      BY <2>2
    <2>4. Same(pr, s, q) /\ Susp(pr, s) /\ pr[pr[s].chan].pid <= pr[q].pid
      BY <2>3 DEF Good, Order, Same
    <2>5. PICK c \in Slots : c = pr[s].chan /\ Same(pr, s, c) /\ pr[s].pid < pr[c].pid
      BY <2>4 DEF Good, Suspends, Susp
    <2>6. c \in M
      BY <2>5 DEF Same
    <2>7. ~(pr[c].pid < pr[q].pid)
      <3>1. SUFFICES ASSUME pr[c].pid < pr[q].pid PROVE FALSE
        OBVIOUS
      <3>2. pr[q].pid - pr[c].pid \in D
        BY <2>6, <3>1
      <3>3. m <= pr[q].pid - pr[c].pid
        BY <2>2, <3>2
      <3>4. pr[q].pid \in Nat /\ pr[c].pid \in Nat /\ pr[s].pid \in Nat
        BY <1>0
      <3> QED BY <2>3, <2>5, <3>3, <3>4
    <2>8. pr[c].pid = pr[q].pid
      BY <1>0, <2>4, <2>5, <2>7
    <2>9. c = q
      BY <2>6, <2>8 DEF Good, Pids, Same, Live, Used
    <2>10. s \in VforkParents(pr, q) /\ s # q
      BY <2>4, <2>5, <2>9 DEF VforkParents, Susp
    <2> QED BY <2>10
  <1>3. ASSUME NEW q \in M, VforkParents(pr, q) = {}, NEW r \in M
        PROVE  pr[q].pid <= pr[r].pid
    <2>1. ~(pr[r].pid < pr[q].pid)
      BY <1>2, <1>3
    <2> QED BY <1>0, <2>1
  <1>4. \E q \in M : VforkParents(pr, q) \subseteq {q} /\ (q # i => VforkParents(pr, q) = {})
    <2> DEFINE P == {pr[q].pid : q \in M}
    <2>1. P \in SUBSET Nat /\ P # {}
      BY <1>0, <1>1
    <2>2. PICK m \in P : \A k \in P : m <= k
      <3> HIDE DEF P
      <3> QED BY <2>1, LeastNat
    <2>3. PICK q \in M : pr[q].pid = m
      BY <2>2
    <2>4. \A r \in VforkParents(pr, q) : r = q
      <3> SUFFICES ASSUME NEW r \in VforkParents(pr, q), r # q PROVE FALSE
        OBVIOUS
      <3>1. r \in Slots /\ Susp(pr, r) /\ pr[r].chan = q
        BY DEF VforkParents, Susp
      <3>2. Same(pr, r, q) /\ pr[r].pid < pr[q].pid
        BY <3>1 DEF Good, Suspends
      <3>3. r \in M /\ m <= pr[r].pid
        BY <2>2, <3>1, <3>2 DEF Same
      <3> QED BY <1>0, <2>3, <3>2, <3>3
    <2>5. q # i => q \notin VforkParents(pr, q)
      <3> SUFFICES ASSUME q # i PROVE q \notin VforkParents(pr, q)
        OBVIOUS
      <3>1. m <= pr[i].pid /\ pr[q].pid # pr[i].pid
        BY <1>1, <2>2 DEF Good, Pids, Same, Live, Used
      <3>2. pr[q].pid < pr[i].pid
        BY <1>0, <2>3, <3>1
      <3>3. Susp(pr, q)
        BY <3>2 DEF Good, Order
      <3> QED BY <3>3 DEF VforkParents, Susp
    <2> QED BY <2>4, <2>5
  <1> QED BY <1>3, <1>4

Mapped(p, h, x) == [p EXCEPT !.heap = h, !.heapmem = x]

LEMMA MappedIs ==
    ASSUME NEW p \in ProcRecord, NEW h \in Chunks, NEW x \in Chunks \cup {None}
    PROVE  LET r == Mapped(p, h, x)
           IN /\ r \in ProcRecord
              /\ r.pid = p.pid /\ r.ppid = p.ppid /\ r.img = p.img
              /\ r.execmem = p.execmem /\ Signals(p, r)
              /\ r.state = p.state /\ r.chan = p.chan /\ r.heap = h /\ r.heapmem = x
  <1>1. h \in Chunks \cup {None}
    OBVIOUS
  <1> QED BY <1>1 DEF ProcRecord, Signals, Mapped

LEMMA SbrkIs ==
    ASSUME NEW pr, NEW i \in Slots, NEW h, Good(pr), Ready(pr, i), Unmapped(pr, h)
    PROVE  \E top \in Slots : Grown(pr, Sbrk(pr, i, h), i, h, top)
  <1>0. pr \in [Slots -> ProcRecord] /\ h \in Chunks
    BY DEF Good, Unmapped
  <1> DEFINE M == {q \in Slots : Same(pr, q, i)}
             chain == VforkChain(pr, i)
             top == IF chain = {} THEN i ELSE CHOOSE q \in chain : VforkParents(pr, q) = {}
             tr == Sbrk(pr, i, h)
  <1>1. chain = M \ {i} /\ i \in M
    BY ChainIsImage DEF Same, Ready, Live
  <1>2. tr = [q \in Slots |->
          IF q \notin chain \cup {i} THEN pr[q]
          ELSE Mapped(pr[q], h, IF q = top THEN h ELSE None)]
    BY DEF Sbrk, Mapped
  <1>3. ASSUME NEW q \in M PROVE VforkParents(pr, q) \cap {q} # {} => q = i
    <2> SUFFICES ASSUME q \in VforkParents(pr, q), q # i PROVE FALSE
      OBVIOUS
    <2>1. Waits(pr, q)
      BY DEF VforkParents, Waits
    <2>2. Susp(pr, q)
      <3>1. pr[q].pid \in Nat /\ pr[i].pid \in Nat
        BY <1>0, FieldTypes
      <3>2. pr[q].pid # pr[i].pid
        BY DEF Good, Pids, Same, Live, Used
      <3>3. ~(pr[i].pid < pr[q].pid)
        BY DEF Good, Order, Same, Ready, Susp
      <3>4. pr[q].pid < pr[i].pid
        BY <3>1, <3>2, <3>3
      <3> QED BY <3>4 DEF Good, Order
    <2> QED BY <2>1, <2>2 DEF Susp, Waits
  <1>4. i \notin VforkParents(pr, i)
    BY DEF VforkParents, Ready
  <1>5. \A q \in Slots : Same(pr, q, i) /\ VforkParents(pr, q) = {} =>
          \A r \in Slots : Same(pr, r, i) => pr[q].pid <= pr[r].pid
    BY TopIsOldest
  <1>6. top \in M /\ VforkParents(pr, top) = {}
    <2>1. PICK q \in M : VforkParents(pr, q) \subseteq {q} /\ (q # i => VforkParents(pr, q) = {})
      BY TopIsOldest
    <2>2. VforkParents(pr, q) = {}
      BY <1>4, <2>1
    <2>3. CASE chain = {}
      BY <1>1, <2>2, <2>3
    <2>4. CASE chain # {}
      <3>1. q # i
        <4>1. SUFFICES ASSUME q = i PROVE FALSE
          OBVIOUS
        <4>2. PICK r \in chain : TRUE
          BY <2>4
        <4>3. \A s \in M : pr[i].pid <= pr[s].pid
          BY <1>1, <1>5, <2>2, <4>1
        <4>4. r \in M /\ r # i /\ pr[i].pid <= pr[r].pid
          BY <1>1, <4>2, <4>3
        <4>5. pr[r].pid # pr[i].pid
          BY <4>4 DEF Good, Pids, Same, Live, Used
        <4>6. pr[i].pid < pr[r].pid
          BY <1>0, <4>4, <4>5, FieldTypes
        <4>7. Susp(pr, i)
          BY <4>4, <4>6 DEF Good, Order, Same
        <4> QED BY <4>7 DEF Susp, Ready
      <3>2. \E r \in chain : VforkParents(pr, r) = {}
        BY <1>1, <2>2, <3>1
      <3> HIDE DEF chain, M
      <3>3. top \in chain /\ VforkParents(pr, top) = {}
        BY <2>4, <3>2
      <3> QED BY <1>1, <3>3
    <2> QED BY <2>3, <2>4
  <1>7. \A r \in M : pr[top].pid <= pr[r].pid
    <2> HIDE DEF top
    <2> QED BY <1>5, <1>6
  <1> HIDE DEF top, chain, tr
  <1>8. ASSUME NEW q \in Slots
        PROVE  tr[q] = IF Same(pr, q, i)
                       THEN Mapped(pr[q], h, IF q = top THEN h ELSE None)
                       ELSE pr[q]
    BY <1>1, <1>2
  <1>9. tr \in [Slots -> ProcRecord]
    <2>1. \A q \in Slots : tr[q] \in ProcRecord
      BY <1>0, <1>8, MappedIs
    <2> QED BY <1>2, <2>1
  <1>10. ASSUME NEW q \in Slots
         PROVE  /\ tr[q].pid = pr[q].pid /\ tr[q].ppid = pr[q].ppid /\ tr[q].img = pr[q].img
                /\ tr[q].execmem = pr[q].execmem /\ Signals(pr[q], tr[q])
                /\ tr[q].state = pr[q].state /\ tr[q].chan = pr[q].chan
                /\ IF Same(pr, q, i)
                   THEN tr[q].heap = h /\ tr[q].heapmem = IF q = top THEN h ELSE None
                   ELSE tr[q].heap = pr[q].heap /\ tr[q].heapmem = pr[q].heapmem
    <2>1. CASE Same(pr, q, i)
      <3>1. PICK x \in Chunks \cup {None} : x = IF q = top THEN h ELSE None
        BY <1>0
      <3>2. tr[q] = Mapped(pr[q], h, x) /\ pr[q] \in ProcRecord
        BY <1>0, <1>8, <2>1, <3>1
      <3> QED BY <1>0, <2>1, <3>1, <3>2, MappedIs
    <2>2. CASE ~Same(pr, q, i)
      BY <1>8, <2>2 DEF Signals
    <2> QED BY <2>1, <2>2
  <1>11. Grown(pr, tr, i, h, top)
    BY <1>6, <1>7, <1>9, <1>10 DEF Grown
  <1> QED BY <1>6, <1>11 DEF tr

-----------------------------------------------------------------------------
(* What Ctrl-C and a kill leave as it is: who is who, who runs, and that
   nobody is suspended who was not. *)
Keeps(pr, tr) ==
    \A q \in Slots :
        /\ tr[q].pid = pr[q].pid
        /\ Live(tr, q) => Live(pr, q) /\ tr[q].img = pr[q].img /\ tr[q].at = pr[q].at
        /\ Susp(tr, q) => Susp(pr, q)
        /\ Ready(pr, q) => Ready(tr, q)
        /\ tr[q].state = "RUNNING" => pr[q].state = "RUNNING"

LEMMA DiedKeeps ==
    ASSUME NEW pr, NEW tr, NEW i \in Slots, Live(pr, i), Died(pr, tr, i)
    PROVE  /\ \A q \in Slots : tr[q].pid = pr[q].pid
           /\ \A q \in Slots : Live(tr, q) =>
                 q # i /\ Live(pr, q) /\ tr[q].img = pr[q].img /\ tr[q].at = pr[q].at
           /\ \A q \in Slots : Susp(tr, q) => Susp(pr, q)
           /\ \A q \in Slots \ {i} : Ready(pr, q) => Ready(tr, q)
           /\ \A q \in Slots : tr[q].state = "RUNNING" => q # i /\ pr[q].state = "RUNNING"
  BY DEF Died, Live, Susp, Ready, Released, Waits, Signals

LEMMA SigintOne ==
    ASSUME NEW pr, NEW i \in Slots, Good(pr), ~Susp(pr, i)
    PROVE  Good(sigint_one(pr, i)) /\ Keeps(pr, sigint_one(pr, i))
  <1> DEFINE tr == sigint_one(pr, i)
             p == pr[i]
  <1>0. pr \in [Slots -> ProcRecord] /\ p \in ProcRecord /\ p.sigctx \in BOOLEAN
    BY FieldTypes DEF Good
  <1>1. CASE p.sigctx /\ p.sigpend # 0
    <2>1. tr = pr
      BY <1>1 DEF sigint_one
    <2> QED BY <2>1 DEF Keeps
  <1>2. CASE p.sigctx /\ p.sigpend = 0
    <2> DEFINE c == IF p.state = "SLEEPING" THEN None ELSE p.chan
               s == IF p.state = "SLEEPING" THEN "RUNNABLE" ELSE p.state
               r == [p EXCEPT !.sigpend = 1, !.chan = c, !.state = s]
    <2>1. c \in Chan /\ s \in State /\ 1 \in 0..2
      BY <1>0, FieldTypes, Params DEF State
    <2>2. tr = [pr EXCEPT ![i] = r]
      BY <1>0, <1>2 DEF sigint_one
    <2> HIDE DEF c, s, p
    <2>3. /\ r \in ProcRecord /\ Bones(p, r) /\ r.chan = c /\ r.state = s
          /\ r.at = p.at /\ r.sigpend = 1 /\ r.sigctx = p.sigctx
      BY <1>0, <2>1 DEF ProcRecord, Bones
    <2> HIDE DEF r, tr
    <2>4. tr \in [Slots -> ProcRecord] /\ tr[i] = r /\ \A q \in Slots \ {i} : tr[q] = pr[q]
      BY <1>0, <2>2, <2>3
    <2>5. ~(Live(pr, i) /\ p.at = "handler")
      BY <1>2 DEF Good, Handlers, p
    <2>6. /\ Live(tr, i) <=> Live(pr, i)
          /\ ~Susp(tr, i) /\ ~Waits(tr, i)
          /\ tr[i].state = "ZOMBIE" <=> pr[i].state = "ZOMBIE"
          /\ tr[i].state = "RUNNING" <=> pr[i].state = "RUNNING"
          /\ Ready(pr, i) => Ready(tr, i)
      BY <2>3, <2>4, Params DEF Live, Susp, Waits, Ready, c, s, p
    <2>7. Mild(pr, tr)
      <3>1. ASSUME NEW q \in Slots
            PROVE  /\ Bones(pr[q], tr[q])
                   /\ Live(tr, q) <=> Live(pr, q)
                   /\ tr[q].state = "ZOMBIE" => pr[q].state = "ZOMBIE"
                   /\ Susp(pr, q) \/ Susp(tr, q) => tr[q].state = pr[q].state /\ tr[q].chan = pr[q].chan
                   /\ Waits(tr, q) => Waits(pr, q) \/ MayWait(pr, q)
                   /\ Live(tr, q) /\ tr[q].at = "handler" =>
                         tr[q].sigctx /\ tr[q].sigpend = 2 /\ ~Susp(tr, q)
        <4>1. CASE q = i
          BY <2>3, <2>4, <2>5, <2>6, <4>1 DEF p
        <4>2. CASE q # i
          BY <2>4, <4>2 DEF Bones, Live, Susp, Waits, Good, Handlers
        <4> QED BY <4>1, <4>2
      <3> QED BY <2>4, <3>1 DEF Mild
    <2>8. Good(tr)
      BY <2>7, MildIsGood
    <2>9. Keeps(pr, tr)
      BY <2>3, <2>4, <2>6 DEF Keeps, Bones, Live, Susp, Ready, p
    <2> QED BY <2>8, <2>9 DEF tr
  <1>3. CASE ~p.sigctx /\ p.state = "SLEEPING"
    <2>1. tr = terminate(pr, i) /\ Live(pr, i) /\ ~Ready(pr, i)
      BY <1>3 DEF sigint_one, Live, Ready
    <2> HIDE DEF tr
    <2>2. Died(pr, tr, i)
      BY <2>1, TerminateIs
    <2>3. Good(tr)
      BY <2>1, <2>2, DiedIsGood
    <2>4. Keeps(pr, tr)
      BY <2>1, <2>2, DiedKeeps DEF Keeps
    <2> QED BY <2>3, <2>4 DEF tr
  <1>4. CASE ~p.sigctx /\ p.state # "SLEEPING"
    <2> DEFINE r == [p EXCEPT !.killed = TRUE]
    <2>2. tr = [pr EXCEPT ![i] = r]
      BY <1>0, <1>4 DEF sigint_one
    <2> HIDE DEF p
    <2>3. r \in ProcRecord /\ Bones(p, r) /\ Signals(p, r) /\ r.state = p.state /\ r.chan = p.chan
      BY <1>0 DEF ProcRecord, Bones, Signals
    <2> HIDE DEF r, tr
    <2>4. tr \in [Slots -> ProcRecord] /\ tr[i] = r /\ \A q \in Slots \ {i} : tr[q] = pr[q]
      BY <1>0, <2>2, <2>3
    <2>5. \A q \in Slots : /\ Bones(pr[q], tr[q]) /\ Signals(pr[q], tr[q])
                           /\ tr[q].state = pr[q].state /\ tr[q].chan = pr[q].chan
      BY <2>3, <2>4 DEF Bones, Signals, p
    <2>6. Mild(pr, tr) /\ Keeps(pr, tr)
      BY <2>4, <2>5 DEF Mild, Keeps, Bones, Signals, Live, Susp, Waits, Ready, Good, Handlers
    <2> QED BY <2>6, MildIsGood DEF tr
  <1> QED BY <1>0, <1>1, <1>2, <1>3, <1>4

(* deliver_sigint visits its victims one after the other. *)
LEMMA DeliverSigint ==
    ASSUME NEW pr, Good(pr), \A v \in Victims(pr) : v \in Slots => ~Susp(pr, v)
    PROVE  Good(deliver_sigint(pr)) /\ Keeps(pr, deliver_sigint(pr))
  <1> DEFINE V == Victims(pr)
             Table == [Slots -> ProcRecord]
             D == {t \in Table : Good(t) /\ Keeps(pr, t)}
             Turn(k, t) == IF k \in V THEN sigint_one(t, k) ELSE t
             step == [k \in 1..NPROC |-> [t \in D |-> Turn(k, t)]]
             F[k \in 0..NPROC] ==
               IF k = 0 THEN pr ELSE IF k \in V THEN sigint_one(F[k-1], k) ELSE F[k-1]
  <1>0. NPROC \in Nat /\ pr \in Table /\ Slots = 1..NPROC
    BY Params DEF Good, Slots
  <1>1. deliver_sigint(pr) = F[NPROC]
    BY DEF deliver_sigint
  <1>2. ASSUME NEW k \in 1..NPROC, NEW t \in D PROVE Turn(k, t) \in D
    <2>1. Good(t) /\ Keeps(pr, t) /\ k \in Slots
      BY <1>0
    <2>2. CASE k \in V
      <3>1. ~Susp(pr, k)
        BY <2>1, <2>2
      <3>2. ~Susp(t, k)
        BY <2>1, <3>1 DEF Keeps
      <3>3. Good(sigint_one(t, k)) /\ Keeps(t, sigint_one(t, k))
        BY <2>1, <3>2, SigintOne
      <3>4. Keeps(pr, sigint_one(t, k))
        BY <2>1, <3>3 DEF Keeps
      <3>5. sigint_one(t, k) \in Table
        BY <3>3 DEF Good
      <3> QED BY <2>2, <3>3, <3>4, <3>5
    <2>3. CASE k \notin V
      BY <2>3
    <2> QED BY <2>2, <2>3
  <1>3. pr \in D
    BY <1>0 DEF Keeps
  <1> HIDE DEF V, D
  <1>4. step \in StepsOn(D, NPROC)
    <2> HIDE DEF Turn
    <2> QED BY <1>2 DEF StepsOn
  <1>5. PICK g : Iterates(g, D, NPROC, pr, step)
    <2> HIDE DEF step
    <2> QED BY <1>0, <1>3, <1>4, Recursion
  <1>6. /\ g \in [0..NPROC -> D] /\ g[0] = pr
        /\ \A k \in 1..NPROC : g[k] = step[k][g[k - 1]]
    BY <1>5 DEF Iterates
  <1>7. \A k \in 1..NPROC : g[k] = Turn(k, g[k - 1])
    <2> HIDE DEF Turn
    <2>1. \A k \in 1..NPROC : k - 1 \in 0..NPROC
      BY <1>0
    <2> QED BY <1>6, <2>1
  <1>8. g = [k \in 0..NPROC |->
               IF k = 0 THEN pr ELSE IF k \in V THEN sigint_one(g[k-1], k) ELSE g[k-1]]
    <2>1. \A k \in 0..NPROC : k # 0 => k \in 1..NPROC
      BY <1>0
    <2>2. \A k \in 0..NPROC :
            g[k] = IF k = 0 THEN pr ELSE IF k \in V THEN sigint_one(g[k-1], k) ELSE g[k-1]
      BY <1>6, <1>7, <2>1
    <2> QED BY <1>6, <2>2
  <1>9. F = [k \in 0..NPROC |->
               IF k = 0 THEN pr ELSE IF k \in V THEN sigint_one(F[k-1], k) ELSE F[k-1]]
    BY <1>8
  <1> HIDE DEF F
  <1>10. F[0] = pr /\ \A k \in 1..NPROC : F[k] = Turn(k, F[k-1])
    <2>1. \A k \in 1..NPROC : k \in 0..NPROC /\ k # 0
      BY <1>0
    <2>2. 0 \in 0..NPROC
      BY <1>0
    <2> QED BY <1>9, <2>1, <2>2
  <1> HIDE DEF Turn
  <1> DEFINE S == {k \in Nat : k <= NPROC => F[k] \in D}
  <1>11. 0 \in S
    BY <1>3, <1>10
  <1>12. ASSUME NEW k \in Nat, k \in S PROVE k + 1 \in S
    <2> SUFFICES ASSUME k + 1 <= NPROC PROVE F[k + 1] \in D
      OBVIOUS
    <2>1. F[k] \in D /\ k + 1 \in 1..NPROC /\ (k + 1) - 1 = k
      BY <1>0, <1>12
    <2>2. F[k + 1] = Turn(k + 1, F[k])
      BY <1>10, <2>1
    <2> QED BY <1>2, <2>1, <2>2
  <1>13. Nat \subseteq S
    <2> HIDE DEF S
    <2> QED BY <1>11, <1>12, SetInduction
  <1>14. F[NPROC] \in D
    BY <1>0, <1>13
  <1> QED BY <1>1, <1>14 DEF D

(* pick finds a RUNNABLE slot, or nothing. *)
LEMMA PickIs ==
    ASSUME NEW pr, NEW c \in Slots
    PROVE  pick(pr, c) \in 0..NPROC /\ (pick(pr, c) # 0 => pr[pick(pr, c)].state = "RUNNABLE")
  <1> DEFINE ready == {off \in 1..NPROC : pr[After(c, off)].state = "RUNNABLE"}
             peers == {off \in ready : pr[After(c, off)].pid # initpid}
  <1>0. NPROC \in Nat /\ NPROC > 0
    BY Params
  <1>1. \A off \in 1..NPROC : After(c, off) \in 1..NPROC
    BY <1>0 DEF After, Slots
  <1>2. ASSUME NEW T, T \subseteq 1..NPROC, T # {} PROVE Least(T) \in T
    <2>1. \E m \in T : \A k \in T : m <= k
      BY <1>0, <1>2, LeastNat
    <2> QED BY <2>1 DEF Least
  <1>3. peers \subseteq 1..NPROC /\ ready \subseteq 1..NPROC
    OBVIOUS
  <1>4. pick(pr, c) = IF peers # {} THEN After(c, Least(peers))
                      ELSE IF ready # {} THEN After(c, Least(ready)) ELSE 0
    BY DEF pick
  <1>5. CASE peers # {}
    <2>1. Least(peers) \in ready
      BY <1>2, <1>3, <1>5
    <2> QED BY <1>1, <1>4, <1>5, <2>1
  <1>6. CASE peers = {} /\ ready # {}
    <2>1. Least(ready) \in ready
      BY <1>2, <1>3, <1>6
    <2> QED BY <1>1, <1>4, <1>6, <2>1
  <1>7. CASE peers = {} /\ ready = {}
    BY <1>0, <1>4, <1>7
  <1> QED BY <1>5, <1>6, <1>7

(* One record changes. *)
LEMMA OneChanges ==
    ASSUME NEW pr, NEW tr, NEW i \in Slots, NEW r \in ProcRecord, Good(pr),
           tr = [pr EXCEPT ![i] = r],
           Bones(pr[i], r),
           Live(tr, i) <=> Live(pr, i),
           r.state = "ZOMBIE" => pr[i].state = "ZOMBIE",
           Susp(pr, i) \/ Susp(tr, i) => r.state = pr[i].state /\ r.chan = pr[i].chan,
           Waits(tr, i) => Waits(pr, i) \/ MayWait(pr, i),
           Live(tr, i) /\ r.at = "handler" => r.sigctx /\ r.sigpend = 2 /\ ~Susp(tr, i)
    PROVE  Good(tr) /\ tr[i] = r /\ \A q \in Slots \ {i} : tr[q] = pr[q]
  <1>0. pr \in [Slots -> ProcRecord]
    BY DEF Good
  <1>1. tr \in [Slots -> ProcRecord] /\ tr[i] = r /\ \A q \in Slots \ {i} : tr[q] = pr[q]
    BY <1>0
  <1>2. ASSUME NEW q \in Slots
        PROVE  /\ Bones(pr[q], tr[q])
               /\ Live(tr, q) <=> Live(pr, q)
               /\ tr[q].state = "ZOMBIE" => pr[q].state = "ZOMBIE"
               /\ Susp(pr, q) \/ Susp(tr, q) => tr[q].state = pr[q].state /\ tr[q].chan = pr[q].chan
               /\ Waits(tr, q) => Waits(pr, q) \/ MayWait(pr, q)
               /\ Live(tr, q) /\ tr[q].at = "handler" =>
                     tr[q].sigctx /\ tr[q].sigpend = 2 /\ ~Susp(tr, q)
    <2>1. CASE q = i
      BY <1>1, <2>1
    <2>2. CASE q # i
      BY <1>1, <2>2 DEF Bones, Live, Susp, Waits, Good, Handlers
    <2> QED BY <2>1, <2>2
  <1>3. Mild(pr, tr)
    BY <1>1, <1>2 DEF Mild
  <1> QED BY <1>1, <1>3, MildIsGood

(* What is known of the processes of tr from those of pr. *)
Ident(pr, tr) ==
    \A q \in Slots :
        /\ tr[q].pid = pr[q].pid
        /\ Live(tr, q) /\ tr[q].at = "handler" =>
              Live(pr, q) /\ pr[q].at = "handler" /\ tr[q].img = pr[q].img

LEMMA IdentBorn ==
    ASSUME NEW pr, NEW tr, NEW n, NEW c, Ident(pr, tr), Born(pr, n), Resumes(pr, c)
    PROVE  Born(tr, n) /\ Resumes(tr, c)
  BY DEF Ident, Born, Resumes

(* A process that runs goes on, or stops running for a tick. *)
SetState(pr, i, s) == [pr EXCEPT ![i].state = s]

LEMMA StateChanges ==
    ASSUME NEW pr, NEW i \in Slots, NEW s \in {"RUNNABLE", "RUNNING"}, Good(pr), Ready(pr, i)
    PROVE  LET tr == SetState(pr, i, s)
           IN /\ Good(tr) /\ Ident(pr, tr) /\ tr[i].state = s
              /\ \A q \in Slots \ {i} : tr[q] = pr[q]
  <1> DEFINE tr == SetState(pr, i, s)
             p == pr[i]
             r == [p EXCEPT !.state = s]
  <1>0. pr \in [Slots -> ProcRecord] /\ p \in ProcRecord
    BY DEF Good
  <1>1. tr = [pr EXCEPT ![i] = r]
    BY <1>0 DEF SetState
  <1>2. Ready(pr, i) /\ p.state = pr[i].state /\ p.chan = pr[i].chan
    OBVIOUS
  <1>3. /\ r \in ProcRecord /\ Bones(p, r) /\ Signals(p, r) /\ r.state = s
    <2>1. s \in State
      BY DEF State
    <2> HIDE DEF p
    <2> QED BY <1>0, <2>1 DEF ProcRecord, Bones, Signals
  <1> HIDE DEF r, tr
  <1>4. tr[i] = r /\ \A q \in Slots \ {i} : tr[q] = pr[q]
    BY <1>0, <1>1
  <1>5. /\ Live(tr, i) /\ Live(pr, i) /\ ~Susp(tr, i) /\ ~Susp(pr, i) /\ ~Waits(tr, i)
        /\ r.state # "ZOMBIE"
    BY <1>3, <1>4 DEF Live, Susp, Waits, Ready
  <1>6. r.at = "handler" => r.sigctx /\ r.sigpend = 2
    BY <1>3, <1>5 DEF Good, Handlers, Signals
  <1>7. Good(tr)
    BY <1>1, <1>3, <1>5, <1>6, OneChanges
  <1>8. Ident(pr, tr)
    BY <1>3, <1>4, <1>5 DEF Ident, Bones, Signals, Live
  <1> QED BY <1>3, <1>4, <1>7, <1>8 DEF tr

(* A process that runs falls asleep, on nobody or in wait(). *)
LEMMA FallsAsleep ==
    ASSUME NEW pr, NEW i \in Slots, NEW c \in Chan, Good(pr), Ready(pr, i),
           c \notin Slots \/ (c = i /\ MayWait(pr, i))
    PROVE  LET tr == [pr EXCEPT ![i] = SleepOn(@, c)]
           IN /\ Good(tr) /\ Ident(pr, tr) /\ tr[i].state = "SLEEPING"
              /\ \A q \in Slots \ {i} : tr[q] = pr[q]
  <1> DEFINE tr == [pr EXCEPT ![i] = SleepOn(@, c)]
             r == SleepOn(pr[i], c)
  <1>0. pr \in [Slots -> ProcRecord]
    BY DEF Good
  <1>1. tr = [pr EXCEPT ![i] = r]
    BY <1>0
  <1>2. /\ r \in ProcRecord /\ Bones(pr[i], r) /\ Signals(pr[i], r)
        /\ r.state = "SLEEPING" /\ r.chan = c
    BY <1>0, SleepOnIs
  <1> HIDE DEF r, tr
  <1>3. tr[i] = r /\ \A q \in Slots \ {i} : tr[q] = pr[q]
    BY <1>0, <1>1
  <1>4. /\ Live(tr, i) /\ Live(pr, i) /\ ~Susp(tr, i) /\ ~Susp(pr, i)
        /\ r.state # "ZOMBIE"
        /\ Waits(tr, i) => MayWait(pr, i)
    BY <1>2, <1>3 DEF Live, Susp, Waits, Ready
  <1>5. r.at = "handler" => r.sigctx /\ r.sigpend = 2
    BY <1>2, <1>4 DEF Good, Handlers, Signals
  <1>6. Good(tr)
    BY <1>1, <1>2, <1>4, <1>5, OneChanges
  <1>7. Ident(pr, tr)
    BY <1>2, <1>3, <1>4 DEF Ident, Bones, Signals, Live
  <1> QED BY <1>2, <1>3, <1>6, <1>7 DEF tr

(* A zombie is reaped. *)
LEMMA Reaped ==
    ASSUME NEW pr, NEW z \in Slots, Good(pr), pr[z].state = "ZOMBIE"
    PROVE  LET tr == [pr EXCEPT ![z].state = "UNUSED"]
           IN /\ Good(tr) /\ Ident(pr, tr) /\ tr[z].state = "UNUSED"
              /\ \A q \in Slots \ {z} : tr[q] = pr[q]
  <1> DEFINE tr == [pr EXCEPT ![z].state = "UNUSED"]
             p == pr[z]
             r == [p EXCEPT !.state = "UNUSED"]
  <1>0. pr \in [Slots -> ProcRecord] /\ p \in ProcRecord
    BY DEF Good
  <1>1. tr = [pr EXCEPT ![z] = r]
    BY <1>0
  <1>2. r \in ProcRecord /\ Bones(p, r) /\ r.state = "UNUSED"
    <2>1. "UNUSED" \in State
      BY DEF State
    <2> HIDE DEF p
    <2> QED BY <1>0, <2>1 DEF ProcRecord, Bones
  <1> HIDE DEF r, tr
  <1>3. tr[z] = r /\ \A q \in Slots \ {z} : tr[q] = pr[q]
    BY <1>0, <1>1
  <1>4. ~Live(tr, z) /\ ~Live(pr, z) /\ ~Susp(tr, z) /\ ~Susp(pr, z) /\ ~Waits(tr, z)
    BY <1>2, <1>3 DEF Live, Susp, Waits
  <1>5. Good(tr)
    BY <1>1, <1>2, <1>4, OneChanges
  <1>6. Ident(pr, tr)
    BY <1>2, <1>3, <1>4 DEF Ident, Bones, Live
  <1> QED BY <1>2, <1>3, <1>5, <1>6 DEF tr

(* A process is marked to die. *)
LEMMA Marked ==
    ASSUME NEW pr, NEW v \in Slots, Good(pr)
    PROVE  LET tr == [pr EXCEPT ![v].killed = TRUE]
           IN /\ Good(tr) /\ Ident(pr, tr)
              /\ \A q \in Slots : tr[q].state = pr[q].state
  <1> DEFINE tr == [pr EXCEPT ![v].killed = TRUE]
             p == pr[v]
             r == [p EXCEPT !.killed = TRUE]
  <1>0. pr \in [Slots -> ProcRecord] /\ p \in ProcRecord
    BY DEF Good
  <1>1. tr = [pr EXCEPT ![v] = r]
    BY <1>0
  <1>2. r \in ProcRecord /\ Bones(p, r) /\ Signals(p, r) /\ r.state = p.state /\ r.chan = p.chan
    <2> HIDE DEF p
    <2> QED BY <1>0 DEF ProcRecord, Bones, Signals
  <1> HIDE DEF r, tr
  <1>3. tr[v] = r /\ \A q \in Slots \ {v} : tr[q] = pr[q]
    BY <1>0, <1>1
  <1>4. /\ Live(tr, v) <=> Live(pr, v)
        /\ Susp(tr, v) <=> Susp(pr, v)
        /\ Waits(tr, v) <=> Waits(pr, v)
    BY <1>2, <1>3 DEF Live, Susp, Waits
  <1>5. Live(tr, v) /\ r.at = "handler" => r.sigctx /\ r.sigpend = 2 /\ ~Susp(tr, v)
    BY <1>2, <1>4 DEF Good, Handlers, Signals
  <1>6. Good(tr)
    BY <1>1, <1>2, <1>4, <1>5, OneChanges
  <1>7. Ident(pr, tr)
    BY <1>2, <1>3, <1>4 DEF Ident, Bones, Signals, Live
  <1>8. \A q \in Slots : tr[q].state = pr[q].state
    BY <1>2, <1>3
  <1> QED BY <1>6, <1>7, <1>8 DEF tr

(* A process that runs has its signal state changed. *)
LEMMA SignalsChange ==
    ASSUME NEW pr, NEW tr, NEW i \in Slots, NEW r \in ProcRecord, Good(pr), Ready(pr, i),
           tr = [pr EXCEPT ![i] = r],
           Bones(pr[i], r), r.state = pr[i].state, r.chan = pr[i].chan,
           r.at = "handler" => r.sigctx /\ r.sigpend = 2
    PROVE  /\ Good(tr) /\ tr[i] = r
           /\ \A q \in Slots \ {i} : tr[q] = pr[q]
  <1>0. pr \in [Slots -> ProcRecord]
    BY DEF Good
  <1>1. tr[i] = r
    BY <1>0
  <1>2. /\ Live(tr, i) /\ Live(pr, i) /\ ~Susp(tr, i) /\ ~Susp(pr, i) /\ ~Waits(tr, i)
        /\ r.state # "ZOMBIE"
    BY <1>1 DEF Live, Susp, Waits, Ready
  <1>3. Live(tr, i) <=> Live(pr, i)
    BY <1>2
  <1>4. Live(tr, i) /\ r.at = "handler" => r.sigctx /\ r.sigpend = 2 /\ ~Susp(tr, i)
    BY <1>2
  <1>5. Susp(pr, i) \/ Susp(tr, i) => r.state = pr[i].state /\ r.chan = pr[i].chan
    BY <1>2
  <1>6. Waits(tr, i) => Waits(pr, i) \/ MayWait(pr, i)
    BY <1>2
  <1>7. Good(tr)
    BY <1>2, <1>3, <1>4, <1>5, <1>6, OneChanges
  <1> QED BY <1>0, <1>1, <1>7

(* The three changes of signal state: the resume is diverted to the handler,
   the handler returns, a handler is registered or removed. *)
Diverted(p) == [p EXCEPT !.sigpend = 2, !.at = "handler"]
Returned(p) == [p EXCEPT !.sigpend = 0, !.at = "main"]
Registered(p, on) == [p EXCEPT !.sigctx = on, !.sigpend = 0]

LEMMA SignalRecords ==
    ASSUME NEW p \in ProcRecord, NEW on \in BOOLEAN
    PROVE  /\ LET r == Diverted(p)
              IN /\ r \in ProcRecord /\ Bones(p, r) /\ r.state = p.state /\ r.chan = p.chan
                 /\ r.sigctx = p.sigctx /\ r.sigpend = 2 /\ r.at = "handler"
           /\ LET r == Returned(p)
              IN /\ r \in ProcRecord /\ Bones(p, r) /\ r.state = p.state /\ r.chan = p.chan
                 /\ r.at = "main"
           /\ LET r == Registered(p, on)
              IN /\ r \in ProcRecord /\ Bones(p, r) /\ r.state = p.state /\ r.chan = p.chan
                 /\ r.at = p.at
  <1>1. 0 \in 0..2 /\ 2 \in 0..2
    OBVIOUS
  <1>2. /\ Diverted(p) \in ProcRecord /\ Bones(p, Diverted(p))
        /\ Diverted(p).state = p.state /\ Diverted(p).chan = p.chan
        /\ Diverted(p).sigctx = p.sigctx /\ Diverted(p).sigpend = 2 /\ Diverted(p).at = "handler"
    BY <1>1 DEF ProcRecord, Bones, Diverted
  <1>3. /\ Returned(p) \in ProcRecord /\ Bones(p, Returned(p))
        /\ Returned(p).state = p.state /\ Returned(p).chan = p.chan /\ Returned(p).at = "main"
    BY <1>1 DEF ProcRecord, Bones, Returned
  <1>4. /\ Registered(p, on) \in ProcRecord /\ Bones(p, Registered(p, on))
        /\ Registered(p, on).state = p.state /\ Registered(p, on).chan = p.chan
        /\ Registered(p, on).at = p.at
    BY <1>1 DEF ProcRecord, Bones, Registered
  <1> QED BY <1>2, <1>3, <1>4

-----------------------------------------------------------------------------
(* The steps.  What the income of a kernel entry does to the table. *)
LEMMA IncomeStep ==
    ASSUME IInv, Good(proc'), Keeps(proc, proc'),
           UNCHANGED <<ops, ctx, nextpid, curr, next, mode, kind, waspark>>
    PROVE  IInv'
  <1>1. Ident(proc, proc')
    BY DEF Keeps, Ident
  <1>2. Born(proc', nextpid') /\ Resumes(proc', ctx')
    BY <1>1, IdentBorn DEF IInv
  <1>3. TypeOK'
    BY DEF IInv, TypeOK, Good
  <1>4. Running'
    BY DEF IInv, Running, Keeps
  <1>5. Control'
    <2>1. next # 0 => next \in Slots
      BY Params DEF IInv, TypeOK, Slots
    <2>2. curr \in Slots
      BY DEF IInv, TypeOK
    <2> QED BY <2>1, <2>2 DEF IInv, Control, Keeps
  <1> QED BY <1>2, <1>3, <1>4, <1>5 DEF IInv

(* swtch() to whoever is next in table tr. *)
LEMMA SwtchStep ==
    ASSUME IInv, NEW tr, proc' = tr, next' = pick(tr, curr), mode' = "exit1",
           UNCHANGED <<ops, ctx, curr, kind, waspark>>,
           nextpid' \in 1..(MaxPid + 1),
           Good(tr), Born(tr, nextpid'), Resumes(tr, ctx),
           \A q \in Slots : tr[q].state # "RUNNING"
    PROVE  IInv'
  <1>1. curr \in Slots
    BY DEF IInv, TypeOK
  <1>2. next' \in 0..NPROC /\ (next' # 0 => tr[next'].state = "RUNNABLE")
    BY <1>1, PickIs
  <1>3. TypeOK'
    BY <1>2 DEF IInv, TypeOK, Good
  <1>4. Running'
    BY DEF Running
  <1>5. Control'
    BY <1>2 DEF Control, Ready
  <1> QED BY <1>3, <1>4, <1>5 DEF IInv

(* A system call returns to its caller with table tr. *)
LEMMA ReturnStep ==
    ASSUME IInv, mode = "enter", kind = "sys", NEW tr, Return(tr), nextpid' = nextpid,
           ctx' \in [Images -> 0..(MaxPid + 1)],
           Good(tr), Born(tr, nextpid), Resumes(tr, ctx'), Ready(tr, curr),
           \A q \in Slots \ {curr} : tr[q].state # "RUNNING"
    PROVE  IInv'
  <1>1. curr \in Slots
    BY DEF IInv, TypeOK
  <1> DEFINE ur == [tr EXCEPT ![curr].state = "RUNNING"]
  <1>2. /\ Good(ur) /\ Ident(tr, ur) /\ ur[curr].state = "RUNNING"
        /\ \A q \in Slots \ {curr} : ur[q] = tr[q]
    <2>1. ur = SetState(tr, curr, "RUNNING") /\ "RUNNING" \in {"RUNNABLE", "RUNNING"}
      BY DEF SetState
    <2> HIDE DEF ur
    <2> QED BY <1>1, <2>1, StateChanges
  <1>3. proc' = ur /\ next' = curr /\ mode' = "exit1" /\ UNCHANGED <<ops, curr, kind, waspark>>
    BY DEF Return
  <1> HIDE DEF ur
  <1>4. Born(ur, nextpid) /\ Resumes(ur, ctx')
    BY <1>2, IdentBorn
  <1>5. TypeOK'
    BY <1>1, <1>2, <1>3, Params DEF IInv, TypeOK, Good, Slots
  <1>6. Running'
    BY <1>1, <1>2, <1>3 DEF Running
  <1>7. Control'
    BY <1>1, <1>2, <1>3 DEF Control, Ready
  <1> QED BY <1>2, <1>3, <1>4, <1>5, <1>6, <1>7 DEF IInv

(* In the kernel on behalf of a process, that process is the one that runs. *)
LEMMA OnBehalf ==
    ASSUME IInv, mode = "enter", ~waspark
    PROVE  /\ curr \in Slots /\ Ready(proc, curr) /\ Live(proc, curr) /\ ~Susp(proc, curr)
           /\ \A q \in Slots \ {curr} : proc[q].state # "RUNNING"
  BY DEF IInv, TypeOK, Control, Running, Ready, Live, Susp

LEMMA OnBehalfOfCall ==
    ASSUME IInv, mode = "enter", kind = "sys"
    PROVE  /\ curr \in Slots /\ Ready(proc, curr) /\ Live(proc, curr) /\ ~Susp(proc, curr)
           /\ \A q \in Slots \ {curr} : proc[q].state # "RUNNING"
  <1>1. ~waspark
    BY DEF IInv, Control
  <1> QED BY <1>1, OnBehalf

(* Wakeups that have to do with neither wait() nor fork(). *)
LEMMA WakeStep ==
    ASSUME IInv, NEW D \in SUBSET Slots,
           \A i \in D : proc[i].state = "SLEEPING" /\ proc[i].chan \notin Slots,
           proc' = [i \in Slots |-> IF i \in D THEN Woken(proc[i]) ELSE proc[i]],
           UNCHANGED <<ops, ctx, nextpid, curr, next, mode, kind, waspark>>
    PROVE  IInv'
  <1>0. Good(proc) /\ proc \in [Slots -> ProcRecord]
    BY DEF IInv, Good
  <1> DEFINE tr == proc'
  <1>1. /\ tr \in [Slots -> ProcRecord]
        /\ \A q \in D : tr[q] = Woken(proc[q])
        /\ \A q \in Slots \ D : tr[q] = proc[q]
    BY <1>0, WokenIs
  <1> HIDE DEF tr
  <1>2. \A q \in Slots : /\ Bones(proc[q], tr[q]) /\ Signals(proc[q], tr[q])
                         /\ q \in D => tr[q].state = "RUNNABLE" /\ tr[q].chan = None
                         /\ q \notin D => tr[q] = proc[q]
    BY <1>0, <1>1, WokenIs DEF Bones, Signals
  <1>3. Mild(proc, tr) /\ Keeps(proc, tr)
    <2>1. ASSUME NEW q \in D
          PROVE  /\ Live(tr, q) /\ Live(proc, q) /\ ~Susp(tr, q) /\ ~Susp(proc, q)
                 /\ ~Waits(tr, q) /\ Ready(tr, q) /\ ~Ready(proc, q)
                 /\ tr[q].state = "RUNNABLE"
      BY <1>2, Params DEF Live, Susp, Waits, Ready
    <2>2. ASSUME NEW q \in Slots \ D
          PROVE  /\ Live(tr, q) <=> Live(proc, q)
                 /\ Susp(tr, q) <=> Susp(proc, q)
                 /\ Waits(tr, q) <=> Waits(proc, q)
                 /\ Ready(tr, q) <=> Ready(proc, q)
      BY <1>2 DEF Live, Susp, Waits, Ready
    <2>3. Keeps(proc, tr)
      BY <1>2, <2>1, <2>2 DEF Keeps, Bones, Signals
    <2>4. ASSUME NEW q \in Slots
          PROVE  Live(tr, q) /\ tr[q].at = "handler" =>
                    tr[q].sigctx /\ tr[q].sigpend = 2 /\ ~Susp(tr, q)
      BY <1>0, <1>2, <2>1, <2>2 DEF Good, Handlers, Signals
    <2> QED BY <1>1, <1>2, <2>1, <2>2, <2>3, <2>4 DEF Mild
  <1>4. Good(tr)
    BY <1>0, <1>3, MildIsGood
  <1> QED BY <1>3, <1>4, IncomeStep DEF tr

(* The process of slot i dies and another one is switched to. *)
LEMMA DeathOfCurr ==
    ASSUME IInv, mode = "enter", ~waspark, Swtch(terminate(proc, curr)), UNCHANGED ctx
    PROVE  IInv'
  <1> DEFINE tr == terminate(proc, curr)
  <1>1. /\ curr \in Slots /\ Ready(proc, curr) /\ Live(proc, curr) /\ ~Susp(proc, curr)
        /\ \A q \in Slots \ {curr} : proc[q].state # "RUNNING"
    BY OnBehalf
  <1>2. Good(proc) /\ Born(proc, nextpid) /\ Resumes(proc, ctx)
    BY DEF IInv
  <1>3. Died(proc, tr, curr)
    BY <1>1, <1>2, TerminateIs
  <1>4. /\ proc' = tr /\ next' = pick(tr, curr) /\ mode' = "exit1"
        /\ UNCHANGED <<ops, ctx, nextpid, curr, kind, waspark>>
    BY DEF Swtch
  <1> HIDE DEF tr
  <1>5. Good(tr)
    BY <1>1, <1>2, <1>3, DiedIsGood
  <1>6. Ident(proc, tr) /\ \A q \in Slots : tr[q].state # "RUNNING"
    BY <1>1, <1>3, DiedKeeps DEF Ident
  <1>7. Born(tr, nextpid) /\ Resumes(tr, ctx)
    BY <1>2, <1>6, IdentBorn
  <1>8. nextpid' \in 1..(MaxPid + 1) /\ Born(tr, nextpid')
    BY <1>4, <1>7 DEF IInv, TypeOK
  <1> QED BY <1>4, <1>5, <1>6, <1>7, <1>8, SwtchStep

(* The current process falls asleep. *)
LEMMA SleepOfCurr ==
    ASSUME IInv, mode = "enter", kind = "sys", NEW c \in Chan,
           c \notin Slots \/ (c = curr /\ MayWait(proc, curr)),
           Swtch([proc EXCEPT ![curr] = SleepOn(@, c)]), UNCHANGED ctx
    PROVE  IInv'
  <1> DEFINE tr == [proc EXCEPT ![curr] = SleepOn(@, c)]
  <1>1. /\ curr \in Slots /\ Ready(proc, curr)
        /\ \A q \in Slots \ {curr} : proc[q].state # "RUNNING"
    BY OnBehalfOfCall
  <1>2. Good(proc) /\ Born(proc, nextpid) /\ Resumes(proc, ctx)
    BY DEF IInv
  <1>3. /\ Good(tr) /\ Ident(proc, tr) /\ tr[curr].state = "SLEEPING"
        /\ \A q \in Slots \ {curr} : tr[q] = proc[q]
    BY <1>1, <1>2, FallsAsleep
  <1>4. /\ proc' = tr /\ next' = pick(tr, curr) /\ mode' = "exit1"
        /\ UNCHANGED <<ops, ctx, nextpid, curr, kind, waspark>>
    BY DEF Swtch
  <1> HIDE DEF tr
  <1>5. \A q \in Slots : tr[q].state # "RUNNING"
    BY <1>1, <1>3
  <1>6. Born(tr, nextpid) /\ Resumes(tr, ctx)
    BY <1>2, <1>3, IdentBorn
  <1>7. nextpid' \in 1..(MaxPid + 1) /\ Born(tr, nextpid')
    BY <1>4, <1>6 DEF IInv, TypeOK
  <1> QED BY <1>3, <1>4, <1>5, <1>6, <1>7, SwtchStep

(* A call returns with a table that differs little. *)
LEMMA AnswerStep ==
    ASSUME IInv, mode = "enter", kind = "sys", NEW tr, Return(tr), UNCHANGED <<ctx, nextpid>>,
           Good(tr), Ident(proc, tr), Ready(tr, curr),
           \A q \in Slots \ {curr} : tr[q].state # "RUNNING"
    PROVE  IInv'
  <1>1. Born(proc, nextpid) /\ Resumes(proc, ctx) /\ ctx \in [Images -> 0..(MaxPid + 1)]
    BY DEF IInv, TypeOK
  <1>2. Born(tr, nextpid) /\ Resumes(tr, ctx)
    BY <1>1, IdentBorn
  <1>3. ctx' = ctx /\ nextpid' = nextpid
    OBVIOUS
  <1> QED BY <1>1, <1>2, <1>3, ReturnStep

-----------------------------------------------------------------------------
(* One lemma per action. *)

LEMMA InitInv == Init => IInv
  <1> SUFFICES ASSUME Init PROVE IInv
    OBVIOUS
  <1>0. 1 \in Slots /\ 2 \in Slots
    BY Params DEF Slots
  <1> DEFINE rec(i) ==
         [state |-> CASE i = 1 -> "RUNNING"
                      [] i = 2 /\ HasInit -> "RUNNABLE"
                      [] OTHER -> "UNUSED",
          pid |-> IF i = 1 \/ (i = 2 /\ HasInit) THEN i ELSE 0,
          ppid |-> 0, chan |-> None, killed |-> FALSE,
          img |-> IF i = 2 THEN 2 ELSE 1, execmem |-> None, heap |-> None,
          heapmem |-> None, sigctx |-> FALSE, sigpend |-> 0, at |-> "main"]
  <1>1. proc = [i \in Slots |-> rec(i)]
    BY DEF Init
  <1>2. ASSUME NEW i \in Slots
        PROVE  /\ rec(i) \in ProcRecord
               /\ rec(i).state = IF i = 1 THEN "RUNNING"
                                 ELSE IF i = 2 /\ HasInit THEN "RUNNABLE" ELSE "UNUSED"
               /\ rec(i).pid = IF i = 1 \/ (i = 2 /\ HasInit) THEN i ELSE 0
               /\ rec(i).ppid = 0
               /\ rec(i).img = IF i = 2 THEN 2 ELSE 1
               /\ rec(i).execmem = None /\ rec(i).heap = None /\ rec(i).heapmem = None
               /\ rec(i).at = "main"
    <2> DEFINE s == CASE i = 1 -> "RUNNING" [] i = 2 /\ HasInit -> "RUNNABLE" [] OTHER -> "UNUSED"
               n == IF i = 1 \/ (i = 2 /\ HasInit) THEN i ELSE 0
               m == IF i = 2 THEN 2 ELSE 1
    <2>1. /\ s = IF i = 1 THEN "RUNNING" ELSE IF i = 2 /\ HasInit THEN "RUNNABLE" ELSE "UNUSED"
          /\ s \in State
      BY DEF State
    <2>2. n \in 0..MaxPid /\ 0 \in 0..MaxPid /\ 0 \in 0..2
      BY Params
    <2>3. m \in Images
      BY DEF Images, BootImages
    <2>4. None \in Chan
      BY Params
    <2> HIDE DEF s, n, m
    <2>5. [state |-> s, pid |-> n, ppid |-> 0, chan |-> None, killed |-> FALSE, img |-> m,
           execmem |-> None, heap |-> None, heapmem |-> None, sigctx |-> FALSE,
           sigpend |-> 0, at |-> "main"] \in ProcRecord
      BY <2>1, <2>2, <2>3, <2>4 DEF ProcRecord
    <2> QED BY <2>1, <2>5 DEF s, n, m
  <1> HIDE DEF rec
  <1>3. proc \in [Slots -> ProcRecord]
    BY <1>1, <1>2
  <1>4. ASSUME NEW i \in Slots
        PROVE  /\ proc[i].state = IF i = 1 THEN "RUNNING"
                                  ELSE IF i = 2 /\ HasInit THEN "RUNNABLE" ELSE "UNUSED"
               /\ proc[i].pid = IF i = 1 \/ (i = 2 /\ HasInit) THEN i ELSE 0
               /\ proc[i].ppid = 0
               /\ proc[i].img = IF i = 2 THEN 2 ELSE 1
               /\ proc[i].execmem = None /\ proc[i].heap = None /\ proc[i].heapmem = None
               /\ proc[i].at = "main"
    BY <1>1, <1>2
  <1>5. Pids(proc)
    BY <1>4, Params DEF Pids, Used, Slots
  <1>6. Waiters(proc) /\ Suspends(proc)
    BY <1>4 DEF Waiters, Suspends, Waits, Susp
  <1>7. Parents(proc)
    BY <1>4 DEF Parents
  <1>8. \A i, j \in Slots : Same(proc, i, j) => i = j
    BY <1>4 DEF Same, Live
  <1>9. Order(proc)
    <2>1. \A i \in Slots : proc[i].pid \in Nat
      BY <1>3, FieldTypes
    <2> QED BY <1>8, <2>1 DEF Order
  <1>10. ImageOwners(proc) /\ HeapOwners(proc)
    BY <1>4 DEF ImageOwners, HeapOwners, BootImages
  <1>11. Handlers(proc) /\ Resumes(proc, ctx)
    BY <1>4 DEF Handlers, Resumes
  <1>12. Born(proc, nextpid) /\ nextpid \in 1..(MaxPid + 1)
    BY <1>4, Params DEF Born, Init
  <1>13. TypeOK
    <2>1. 0 \in 0..(MaxPid + 1) /\ 1 \in 0..NPROC
      BY Params
    <2>2. /\ ops \in Workloads /\ curr \in Slots /\ next \in 0..NPROC
          /\ mode = "user" /\ kind = "sys" /\ waspark = FALSE
      BY <1>0, <2>1 DEF Init
    <2>3. ctx \in [Images -> 0..(MaxPid + 1)]
      BY <2>1 DEF Init
    <2> QED BY <1>3, <1>12, <2>2, <2>3 DEF TypeOK
  <1>14. Running /\ Control
    BY <1>0, <1>4 DEF Running, Control, Init, Ready
  <1> QED BY <1>3, <1>5, <1>6, <1>7, <1>9, <1>10, <1>11, <1>12, <1>13, <1>14 DEF IInv, Good

LEMMA EnterStep ==
    ASSUME IInv, SysEnter \/ TickEnter \/ ParkWake \/ Leave
    PROVE  IInv'
  <1>0. UNCHANGED <<ops, proc, ctx, nextpid, curr, next>>
    BY DEF SysEnter, TickEnter, ParkWake, Leave
  <1>1. TypeOK'
    BY <1>0 DEF IInv, TypeOK, SysEnter, TickEnter, ParkWake, Leave
  <1>2. Good(proc') /\ Born(proc', nextpid') /\ Resumes(proc', ctx')
    BY <1>0 DEF IInv
  <1>3. curr # 0
    BY Params DEF IInv, TypeOK, Slots
  <1>4. Running'
    BY <1>0, <1>3 DEF IInv, Running, SysEnter, TickEnter, ParkWake, Leave
  <1>5. Control'
    BY <1>0 DEF IInv, Control, SysEnter, TickEnter, ParkWake, Leave
  <1> QED BY <1>1, <1>2, <1>4, <1>5 DEF IInv

LEMMA WakeSteps ==
    ASSUME IInv, (\E due \in SUBSET Slots : TickWake(due)) \/ SelWake
    PROVE  IInv'
  <1>1. ASSUME NEW due \in SUBSET Slots, TickWake(due) PROVE IInv'
    <2>1. \A i \in due : proc[i].state = "SLEEPING" /\ proc[i].chan \notin Slots
      BY <1>1, Params DEF TickWake
    <2> QED BY <1>1, <2>1, WakeStep DEF TickWake
  <1>2. CASE SelWake
    <2> DEFINE sel == {i \in Slots : proc[i].state = "SLEEPING"
                                     /\ proc[i].chan \in {selwait_to, selwait_inf}}
    <2>1. /\ sel \in SUBSET Slots
          /\ \A i \in sel : proc[i].state = "SLEEPING" /\ proc[i].chan \notin Slots
      BY Params
    <2>2. /\ proc' = [i \in Slots |-> IF i \in sel THEN Woken(proc[i]) ELSE proc[i]]
          /\ UNCHANGED <<ops, ctx, nextpid, curr, next, mode, kind, waspark>>
      BY <1>2 DEF SelWake
    <2> HIDE DEF sel
    <2> QED BY <2>1, <2>2, WakeStep
  <1> QED BY <1>1, <1>2

(* Unless the workload says so, a suspended process is left alone. *)
LEMMA NoHit ==
    ASSUME Calm, IInv, NEW v \in Slots, MayHit(v)
    PROVE  ~Susp(proc, v)
  BY DEF Calm, IInv, TypeOK, MayHit, Suspended, Susp

LEMMA CtrlCStep ==
    ASSUME Calm, IInv, CtrlC
    PROVE  IInv'
  <1>1. \A v \in Victims(proc) : v \in Slots => ~Susp(proc, v)
    BY NoHit DEF CtrlC
  <1>2. Good(deliver_sigint(proc)) /\ Keeps(proc, deliver_sigint(proc))
    BY <1>1, DeliverSigint DEF IInv
  <1>3. Good(proc') /\ Keeps(proc, proc')
    BY <1>2 DEF CtrlC
  <1> QED BY <1>3, IncomeStep DEF CtrlC

LEMMA PublishStep ==
    ASSUME IInv, Publish
    PROVE  IInv'
  <1>0. /\ mode = "exit1" /\ mode' = "exit2"
        /\ UNCHANGED <<ops, nextpid, next, kind, waspark>>
        /\ Good(proc) /\ Born(proc, nextpid) /\ Resumes(proc, ctx)
        /\ next \in 0..NPROC /\ (next # 0 => next \in Slots) /\ curr \in Slots /\ curr # 0
    BY Params DEF Publish, IInv, TypeOK, Slots
  <1>1. CASE next = 0
    <2>1. UNCHANGED <<proc, ctx, curr>>
      BY <1>1 DEF Publish
    <2> QED BY <1>0, <1>1, <2>1 DEF IInv, TypeOK, Running, Control
  <1>2. CASE next # 0 /\ ~(proc[next].sigpend = 1 /\ proc[next].sigctx)
    <2>1. UNCHANGED <<proc, ctx>> /\ curr' = next
      BY <1>2 DEF Publish
    <2> QED BY <1>0, <1>2, <2>1 DEF IInv, TypeOK, Running, Control
  <1>3. CASE next # 0 /\ proc[next].sigpend = 1 /\ proc[next].sigctx
    <2> DEFINE p == proc[next]
               r == Diverted(p)
               c == [ctx EXCEPT ![p.img] = IF p.at = "main" THEN p.pid ELSE InHandler]
    <2>1. curr' = next /\ ctx' = c
      BY <1>3 DEF Publish
    <2>2. proc \in [Slots -> ProcRecord] /\ p \in ProcRecord /\ next \in Slots /\ Ready(proc, next)
      BY <1>0, <1>3 DEF Good, IInv, Control
    <2>3. proc' = [proc EXCEPT ![next] = r]
      BY <1>3, <2>2 DEF Publish, Diverted
    <2>4. p.at = "main" /\ p.pid \in 0..MaxPid /\ p.img \in Images
      <3>1. p.at # "handler"
        BY <1>0, <1>3, <2>2 DEF Good, Handlers, Ready, Live
      <3> QED BY <2>2, <3>1, FieldTypes
    <2>5. c = [ctx EXCEPT ![p.img] = p.pid]
      BY <2>4
    <2>6. /\ r \in ProcRecord /\ Bones(p, r) /\ r.state = p.state /\ r.chan = p.chan
          /\ r.sigctx = p.sigctx /\ r.sigpend = 2 /\ r.at = "handler"
      BY <2>2, SignalRecords
    <2> DEFINE tr == proc'
    <2> HIDE DEF r, c, tr
    <2>7. tr = [proc EXCEPT ![next] = r]
      BY <2>3 DEF tr
    <2>8. /\ Good(tr) /\ tr[next] = r
          /\ \A q \in Slots \ {next} : tr[q] = proc[q]
      BY <1>0, <1>3, <2>2, <2>6, <2>7, SignalsChange
    <2>9. Born(tr, nextpid)
      BY <1>0, <2>6, <2>8 DEF Born, Bones
    <2>10. ctx \in [Images -> 0..(MaxPid + 1)] /\ c \in [Images -> 0..(MaxPid + 1)]
      <3>1. p.pid \in 0..(MaxPid + 1)
        BY <2>4, Params
      <3> QED BY <2>4, <2>5, <3>1 DEF IInv, TypeOK
    (* Nobody else in this image is in its handler: it would not be asleep. *)
    <2>11. Resumes(tr, c)
      <3> SUFFICES ASSUME NEW q \in Slots, Live(tr, q), tr[q].at = "handler"
                   PROVE  c[tr[q].img] = tr[q].pid
        BY DEF Resumes
      <3>1. CASE q = next
        BY <2>4, <2>5, <2>6, <2>8, <2>10, <3>1 DEF Bones
      <3>2. CASE q # next
        <4>1. tr[q] = proc[q] /\ Live(proc, q) /\ proc[q].at = "handler"
          BY <2>8, <3>2 DEF Live
        <4>2. ctx[proc[q].img] = proc[q].pid /\ ~Susp(proc, q)
          BY <1>0, <4>1 DEF Resumes, Good, Handlers
        <4>3. proc[q].img # p.img
          <5>1. SUFFICES ASSUME proc[q].img = p.img PROVE FALSE
            OBVIOUS
          <5>2. Same(proc, q, next) /\ Same(proc, next, q) /\ ~Susp(proc, next)
            BY <2>2, <4>1, <5>1 DEF Same, Ready, Live, Susp
          <5>3. ~(proc[q].pid < proc[next].pid) /\ ~(proc[next].pid < proc[q].pid)
            BY <1>0, <2>2, <4>2, <5>2 DEF Good, Order
          <5>4. proc[q].pid \in Nat /\ proc[next].pid \in Nat
            BY <2>2, FieldTypes
          <5>5. proc[q].pid = proc[next].pid
            BY <5>3, <5>4
          <5> QED BY <1>0, <2>2, <3>2, <4>1, <5>2, <5>5 DEF Good, Pids, Same, Live, Used
        <4>4. proc[q].img \in Images
          BY <2>2, FieldTypes
        <4> QED BY <2>4, <2>5, <2>10, <4>1, <4>2, <4>3, <4>4
      <3> QED BY <3>1, <3>2
    <2>12. TypeOK'
      BY <1>0, <2>1, <2>2, <2>8, <2>10 DEF IInv, TypeOK, Good, tr
    <2>13. \A q \in Slots : tr[q].state = proc[q].state
      BY <2>6, <2>8
    <2>14. Running'
      BY <1>0, <2>1, <2>13 DEF IInv, Running, tr
    <2>15. Control'
      BY <1>0, <2>1, <2>2, <2>13 DEF Control, Ready, tr
    <2> QED BY <1>0, <2>1, <2>8, <2>9, <2>11, <2>12, <2>14, <2>15 DEF IInv, tr
  <1> QED BY <1>1, <1>2, <1>3

LEMMA KtickStep ==
    ASSUME IInv, Ktick
    PROVE  IInv'
  <1>0. /\ mode = "enter" /\ ctx' = ctx
        /\ Good(proc) /\ Born(proc, nextpid) /\ Resumes(proc, ctx)
    BY DEF Ktick, IInv
  <1>1. CASE waspark
    <2>1. /\ proc' = proc /\ next' = pick(proc, curr) /\ mode' = "exit1"
          /\ UNCHANGED <<ops, ctx, nextpid, curr, kind, waspark>>
      BY <1>1 DEF Ktick, Swtch
    <2>2. \A q \in Slots : proc[q].state # "RUNNING"
      BY <1>0, <1>1 DEF IInv, Running
    <2>3. nextpid' \in 1..(MaxPid + 1) /\ Born(proc, nextpid')
      BY <1>0, <2>1 DEF IInv, TypeOK
    <2> QED BY <1>0, <2>1, <2>2, <2>3, SwtchStep
  <1>2. CASE ~waspark /\ DiesAtTick(proc[curr])
    <2>1. Swtch(terminate(proc, curr))
      BY <1>2 DEF Ktick
    <2> QED BY <1>0, <1>2, <2>1, DeathOfCurr
  <1>3. CASE ~waspark /\ ~DiesAtTick(proc[curr])
    <2> DEFINE tr == [proc EXCEPT ![curr].state = IF @ = "RUNNING" THEN "RUNNABLE" ELSE @]
    <2>1. /\ proc' = tr /\ next' = pick(tr, curr) /\ mode' = "exit1"
          /\ UNCHANGED <<ops, ctx, nextpid, curr, kind, waspark>>
      BY <1>3 DEF Ktick, Swtch
    <2>2. /\ curr \in Slots /\ Ready(proc, curr)
          /\ \A q \in Slots \ {curr} : proc[q].state # "RUNNING"
      BY <1>0, <1>3, OnBehalf
    <2>3. tr = [proc EXCEPT ![curr].state = "RUNNABLE"]
      BY <2>2 DEF Ready
    <2> HIDE DEF tr
    <2>4. /\ Good(tr) /\ Ident(proc, tr) /\ tr[curr].state = "RUNNABLE"
          /\ \A q \in Slots \ {curr} : tr[q] = proc[q]
      <3>1. Good(proc) /\ Ready(proc, curr) /\ curr \in Slots
        BY <1>0, <2>2
      <3>2. tr = SetState(proc, curr, "RUNNABLE") /\ "RUNNABLE" \in {"RUNNABLE", "RUNNING"}
        BY <2>3 DEF SetState
      <3> QED BY <3>1, <3>2, StateChanges
    <2>5. \A q \in Slots : tr[q].state # "RUNNING"
      BY <2>2, <2>4
    <2>6. Born(tr, nextpid) /\ Resumes(tr, ctx)
      BY <1>0, <2>4, IdentBorn
    <2>7. nextpid' \in 1..(MaxPid + 1) /\ Born(tr, nextpid')
      BY <2>1, <2>6 DEF IInv, TypeOK
    <2> QED BY <2>1, <2>4, <2>5, <2>6, <2>7, SwtchStep
  <1> QED BY <1>1, <1>2, <1>3

LEMMA DeathSteps ==
    ASSUME IInv, KilledAtEntry \/ SysExit
    PROVE  IInv'
  <1>1. mode = "enter" /\ kind = "sys" /\ Swtch(terminate(proc, curr)) /\ ctx' = ctx
    BY DEF KilledAtEntry, SysExit, Call
  <1>2. ~waspark
    BY <1>1 DEF IInv, Control
  <1> QED BY <1>1, <1>2, DeathOfCurr

LEMMA AnswerSteps ==
    ASSUME IInv, SysAnswer
    PROVE  IInv'
  <1>1. mode = "enter" /\ kind = "sys" /\ Return(proc) /\ UNCHANGED <<ctx, nextpid>>
    BY DEF SysAnswer, Call
  <1>2. Good(proc) /\ Ident(proc, proc)
    BY DEF IInv, Ident
  <1>3. Ready(proc, curr) /\ \A q \in Slots \ {curr} : proc[q].state # "RUNNING"
    BY <1>1, OnBehalfOfCall
  <1> QED BY <1>1, <1>2, <1>3, AnswerStep

LEMMA SleepSteps ==
    ASSUME IInv, SysPause \/ \E c \in {selwait_to, selwait_inf} : SysSelect(c)
    PROVE  IInv'
  <1>1. ASSUME NEW c \in {ticks, selwait_to, selwait_inf}, mode = "enter", kind = "sys",
               Swtch([proc EXCEPT ![curr] = SleepOn(@, c)]), ctx' = ctx
        PROVE  IInv'
    <2>1. c \in Chan /\ c \notin Slots
      BY Params
    <2> QED BY <1>1, <2>1, SleepOfCurr
  <1> QED BY <1>1 DEF SysPause, SysSelect, Call

LEMMA WaitStep ==
    ASSUME IInv, SysWait
    PROVE  IInv'
  <1> DEFINE kids == Children(curr)
             zomb == {q \in kids : proc[q].state = "ZOMBIE"}
  <1>1. /\ mode = "enter" /\ kind = "sys" /\ ctx' = ctx
        /\ Good(proc) /\ proc \in [Slots -> ProcRecord]
    BY DEF SysWait, Call, IInv, Good
  <1>2. /\ curr \in Slots /\ Ready(proc, curr)
        /\ \A q \in Slots \ {curr} : proc[q].state # "RUNNING"
    BY <1>1, OnBehalfOfCall
  <1>3. CASE zomb # {}
    <2> DEFINE z == Greatest(zomb)
    <2>1. Return([proc EXCEPT ![z].state = "UNUSED"]) /\ nextpid' = nextpid
      BY <1>3 DEF SysWait
    <2>2. z \in Slots /\ proc[z].state = "ZOMBIE"
      <3>1. zomb \subseteq Slots /\ \A q \in zomb : proc[q].state = "ZOMBIE"
        BY DEF Children
      <3> HIDE DEF zomb
      <3> DEFINE D == {NPROC - q : q \in zomb}
      <3>2. D \in SUBSET Nat /\ D # {}
        <4>1. \A q \in zomb : NPROC - q \in Nat
          BY <3>1, Params DEF Slots
        <4> QED BY <1>3, <4>1
      <3>3. PICK m \in D : \A k \in D : m <= k
        <4> HIDE DEF D
        <4> QED BY <3>2, LeastNat
      <3>4. PICK q \in zomb : m = NPROC - q
        BY <3>3
      <3>5. \A r \in zomb : q >= r
        <4> TAKE r \in zomb
        <4>1. m <= NPROC - r
          BY <3>3
        <4>2. q \in Nat /\ r \in Nat
          BY <3>1 DEF Slots
        <4> QED BY <3>4, <4>1, <4>2, Params
      <3>6. Greatest(zomb) \in zomb
        BY <3>5 DEF Greatest
      <3> QED BY <3>1, <3>6
    <2> HIDE DEF z
    <2> DEFINE tr == [proc EXCEPT ![z].state = "UNUSED"]
    <2>3. /\ Good(tr) /\ Ident(proc, tr) /\ tr[z].state = "UNUSED"
          /\ \A q \in Slots \ {z} : tr[q] = proc[q]
      BY <1>1, <2>2, Reaped
    <2> HIDE DEF tr
    <2>4. z # curr
      BY <1>2, <2>2 DEF Ready
    <2>5. Ready(tr, curr) /\ \A q \in Slots \ {curr} : tr[q].state # "RUNNING"
      BY <1>2, <2>3, <2>4 DEF Ready
    <2> QED BY <1>1, <2>1, <2>3, <2>5, AnswerStep DEF tr
  <1>4. CASE zomb = {} /\ kids = {}
    <2>1. Return(proc) /\ nextpid' = nextpid
      BY <1>4 DEF SysWait
    <2>2. Ident(proc, proc)
      BY DEF Ident
    <2> QED BY <1>1, <1>2, <2>1, <2>2, AnswerStep
  <1>5. CASE zomb = {} /\ kids # {}
    <2>1. Swtch([proc EXCEPT ![curr] = SleepOn(@, curr)])
      BY <1>5 DEF SysWait
    <2>2. MayWait(proc, curr)
      <3>1. PICK q \in Slots : Used(proc, q) /\ proc[q].ppid = proc[curr].pid
        BY <1>5 DEF Children
      <3>2. \A r \in Slots : proc[r].state = "ZOMBIE" => proc[r].ppid # proc[curr].pid
        BY <1>5 DEF Children, Used
      <3> QED BY <3>1, <3>2 DEF MayWait, Live, Used
    <2>3. curr \in Chan
      BY <1>2, Params
    <2> QED BY <1>1, <2>1, <2>2, <2>3, SleepOfCurr
  <1> QED BY <1>3, <1>4, <1>5

LEMMA LeastIs ==
    ASSUME NEW S, S \subseteq Nat, S # {}
    PROVE  Least(S) \in S
  <1>1. \E m \in S : \A k \in S : m <= k
    BY LeastNat
  <1> QED BY <1>1 DEF Least

LEMMA ForkStep ==
    ASSUME IInv, SysFork
    PROVE  IInv'
  <1> DEFINE free == {i \in Slots : ~Used(proc, i)}
             c == Least(free)
             tr == [proc EXCEPT ![c] = ForkChild(proc[curr], @, nextpid), ![curr] = ForkParent(@, c)]
  <1>1. /\ mode = "enter" /\ kind = "sys"
        /\ proc[curr].at = "main" /\ nextpid <= MaxPid /\ free # {}
        /\ proc' = tr /\ next' = pick(tr, curr) /\ nextpid' = nextpid + 1 /\ mode' = "exit1"
        /\ UNCHANGED <<ops, ctx, curr, kind, waspark>>
    BY DEF SysFork, Call
  <1>2. /\ curr \in Slots /\ Ready(proc, curr)
        /\ \A q \in Slots \ {curr} : proc[q].state # "RUNNING"
    BY <1>1, OnBehalfOfCall
  <1>3. /\ Good(proc) /\ proc \in [Slots -> ProcRecord] /\ Born(proc, nextpid)
        /\ Resumes(proc, ctx) /\ nextpid \in 1..(MaxPid + 1)
    BY DEF IInv, Good, TypeOK
  <1>4. c \in Slots /\ ~Used(proc, c)
    <2>1. free \subseteq Nat /\ free \subseteq Slots /\ \A q \in free : ~Used(proc, q)
      BY DEF Slots
    <2> HIDE DEF free
    <2>2. c \in free
      BY <1>1, <2>1, LeastIs
    <2> QED BY <2>1, <2>2
  <1> HIDE DEF c, free
  <1>5. nextpid \in 0..MaxPid /\ nextpid \in Nat /\ curr # c
    BY <1>1, <1>2, <1>3, <1>4, Params DEF Ready, Used
  <1>6. Forked(proc, tr, curr, c, nextpid)
    BY <1>2, <1>3, <1>4, <1>5, ForkIs
  <1> HIDE DEF tr
  <1>7. Good(tr)
    BY <1>1, <1>2, <1>3, <1>4, <1>5, <1>6, ForkedIsGood
  <1>8. \A q \in Slots : tr[q].state # "RUNNING"
    BY <1>2, <1>6 DEF Forked
  <1>9. Born(tr, nextpid')
    <2>1. \A q \in Slots : proc[q].pid \in Nat
      BY <1>3, FieldTypes
    <2>2. \A q \in Slots \ {c} : tr[q].pid = proc[q].pid
      BY <1>6 DEF Forked, Bones
    <2>3. tr[c].pid = nextpid
      BY <1>6 DEF Forked
    <2> QED BY <1>1, <1>3, <1>5, <2>1, <2>2, <2>3, Params DEF Born
  <1>10. Resumes(tr, ctx)
    <2>1. tr[c].at = "main" /\ tr[curr].at = "main"
      BY <1>1, <1>6 DEF Forked, Signals
    <2>2. \A q \in Slots \ {c, curr} : tr[q] = proc[q]
      BY <1>6 DEF Forked
    <2> QED BY <1>3, <2>1, <2>2 DEF Resumes, Live
  <1>11. nextpid' \in 1..(MaxPid + 1)
    BY <1>1, <1>5, Params
  <1> QED BY <1>1, <1>7, <1>8, <1>9, <1>10, <1>11, SwtchStep

LEMMA ExecStep ==
    ASSUME IInv, SysExec
    PROVE  IInv'
  <1> DEFINE m == Least(FreeImages)
             tr == Exec(proc, curr, m)
             c == [ctx EXCEPT ![m] = 0]
  <1>1. /\ mode = "enter" /\ kind = "sys" /\ FreeImages # {}
        /\ Return(tr) /\ ctx' = c /\ nextpid' = nextpid
    BY DEF SysExec, Call
  <1>2. /\ curr \in Slots /\ Ready(proc, curr)
        /\ \A q \in Slots \ {curr} : proc[q].state # "RUNNING"
    BY <1>1, OnBehalfOfCall
  <1>3. /\ Good(proc) /\ Born(proc, nextpid) /\ Resumes(proc, ctx)
        /\ ctx \in [Images -> 0..(MaxPid + 1)] /\ proc \in [Slots -> ProcRecord]
    BY DEF IInv, TypeOK, Good
  <1>4. Unclaimed(proc, m)
    <2>1. /\ FreeImages \subseteq Nat
          /\ \A f \in FreeImages : Unclaimed(proc, f)
      BY Params DEF FreeImages, Unclaimed, Arena
    <2> QED BY <1>1, <2>1, LeastIs
  <1> HIDE DEF m
  <1>5. Execed(proc, tr, curr, m)
    BY <1>2, <1>3, <1>4, ExecIs
  <1> HIDE DEF tr
  <1>6. Good(tr)
    BY <1>2, <1>3, <1>4, <1>5, ExecedIsGood
  <1>7. Ready(tr, curr) /\ \A q \in Slots \ {curr} : tr[q].state # "RUNNING"
    BY <1>2, <1>5 DEF Execed, Ready
  <1>8. Born(tr, nextpid)
    BY <1>3, <1>5 DEF Born, Execed
  <1>9. m \in Images /\ c \in [Images -> 0..(MaxPid + 1)]
    <2>1. m \in Images /\ 0 \in 0..(MaxPid + 1)
      BY <1>4, Params DEF Unclaimed, Images
    <2> QED BY <1>3, <2>1
  <1>10. Resumes(tr, c)
    <2> SUFFICES ASSUME NEW q \in Slots, Live(tr, q), tr[q].at = "handler"
                 PROVE  c[tr[q].img] = tr[q].pid
      BY DEF Resumes
    <2>1. q # curr
      BY <1>5 DEF Execed
    <2>2. /\ Live(proc, q) /\ proc[q].at = "handler" /\ tr[q].img = proc[q].img
          /\ tr[q].pid = proc[q].pid
      BY <1>5, <2>1 DEF Execed, Bones, Signals
    <2>3. proc[q].img # m /\ proc[q].img \in Images
      BY <1>3, <1>4, <2>2, FieldTypes DEF Unclaimed
    <2> QED BY <1>3, <1>9, <2>2, <2>3 DEF Resumes
  <1> HIDE DEF c
  <1>11. Resumes(tr, ctx') /\ ctx' \in [Images -> 0..(MaxPid + 1)]
    BY <1>1, <1>9, <1>10
  <1> QED BY <1>1, <1>6, <1>7, <1>8, <1>11, ReturnStep

LEMMA KillStep ==
    ASSUME Calm, IInv, NEW pid \in 1..MaxPid, SysKill(pid)
    PROVE  IInv'
  <1> DEFINE hit == {i \in Slots : Used(proc, i) /\ proc[i].pid = pid}
             v == Least(hit)
  <1>1. /\ mode = "enter" /\ kind = "sys" /\ hit # {} /\ proc[v].state # "ZOMBIE" /\ MayHit(v)
        /\ ctx' = ctx
    BY DEF SysKill, Call
  <1>2. /\ curr \in Slots /\ Ready(proc, curr)
        /\ \A q \in Slots \ {curr} : proc[q].state # "RUNNING"
    BY <1>1, OnBehalfOfCall
  <1>3. v \in Slots /\ Used(proc, v)
    <2>1. hit \subseteq Nat /\ hit \subseteq Slots /\ \A q \in hit : Used(proc, q)
      BY DEF Slots
    <2> HIDE DEF hit
    <2>2. v \in hit
      BY <1>1, <2>1, LeastIs
    <2> QED BY <2>1, <2>2
  <1>4. Good(proc) /\ ~waspark
    BY <1>1 DEF IInv, Control
  <1>5. CASE v = curr
    <2>1. Swtch(terminate(proc, curr))
      BY <1>5 DEF SysKill
    <2> QED BY <1>1, <1>4, <2>1, DeathOfCurr
  <1>6. CASE v # curr /\ proc[v].state = "SLEEPING"
    <2> DEFINE tr == terminate(proc, v)
    <2>1. Return(tr) /\ nextpid' = nextpid
      BY <1>6 DEF SysKill
    <2> HIDE DEF v
    <2>2. Live(proc, v) /\ ~Susp(proc, v)
      BY <1>1, <1>3, <1>6, NoHit DEF Live
    <2>3. Died(proc, tr, v)
      BY <1>3, <1>4, <2>2, TerminateIs
    <2> HIDE DEF tr
    <2>4. Good(tr)
      BY <1>3, <1>4, <2>2, <2>3, DiedIsGood
    <2>5. Ident(proc, tr) /\ Ready(tr, curr) /\ \A q \in Slots \ {curr} : tr[q].state # "RUNNING"
      BY <1>2, <1>3, <1>6, <2>2, <2>3, DiedKeeps DEF Ident
    <2> QED BY <1>1, <2>1, <2>4, <2>5, AnswerStep
  <1>7. CASE v # curr /\ proc[v].state # "SLEEPING"
    <2> DEFINE tr == [proc EXCEPT ![v].killed = TRUE]
    <2>1. Return(tr) /\ nextpid' = nextpid
      BY <1>7 DEF SysKill
    <2> HIDE DEF v
    <2>2. Good(tr) /\ Ident(proc, tr) /\ \A q \in Slots : tr[q].state = proc[q].state
      BY <1>3, <1>4, Marked
    <2> HIDE DEF tr
    <2>3. Ready(tr, curr) /\ \A q \in Slots \ {curr} : tr[q].state # "RUNNING"
      BY <1>2, <2>2 DEF Ready
    <2> QED BY <1>1, <2>1, <2>2, <2>3, AnswerStep
  <1> QED BY <1>5, <1>6, <1>7

LEMMA SbrkStep ==
    ASSUME IInv, SysSbrk
    PROVE  IInv'
  <1> DEFINE h == Least(FreeChunks)
             tr == Sbrk(proc, curr, h)
  <1>1. /\ mode = "enter" /\ kind = "sys" /\ FreeChunks # {} /\ proc[curr].heap = None
        /\ Return(tr) /\ ctx' = ctx /\ nextpid' = nextpid
    BY DEF SysSbrk, Call
  <1>2. /\ curr \in Slots /\ Ready(proc, curr) /\ Live(proc, curr)
        /\ \A q \in Slots \ {curr} : proc[q].state # "RUNNING"
    BY <1>1, OnBehalfOfCall
  <1>3. Good(proc)
    BY DEF IInv
  <1>4. Unmapped(proc, h)
    <2>1. /\ FreeChunks \subseteq Nat
          /\ \A f \in FreeChunks : Unmapped(proc, f)
      BY Params DEF FreeChunks, Unmapped, Chunks
    <2> QED BY <1>1, <2>1, LeastIs
  <1> HIDE DEF h
  <1>5. PICK top \in Slots : Grown(proc, tr, curr, h, top)
    BY <1>2, <1>3, <1>4, SbrkIs
  <1> HIDE DEF tr
  <1>6. Good(tr)
    BY <1>1, <1>2, <1>3, <1>4, <1>5, GrownIsGood
  <1>7. Ready(tr, curr) /\ \A q \in Slots \ {curr} : tr[q].state # "RUNNING"
    BY <1>2, <1>5 DEF Grown, Ready
  <1>8. Ident(proc, tr)
    BY <1>5 DEF Grown, Ident, Live, Signals
  <1> QED BY <1>1, <1>6, <1>7, <1>8, AnswerStep

LEMMA SignalStep ==
    ASSUME Calm, IInv, NEW on \in BOOLEAN, SysSignal(on)
    PROVE  IInv'
  <1> DEFINE p == proc[curr]
             r == Registered(p, on)
             tr == [proc EXCEPT ![curr].sigctx = on, ![curr].sigpend = 0]
  <1>1. /\ mode = "enter" /\ kind = "sys" /\ p.at = "main"
        /\ Return(tr) /\ ctx' = ctx /\ nextpid' = nextpid
    BY DEF SysSignal, Call, Calm, IInv, TypeOK
  <1>2. /\ curr \in Slots /\ Ready(proc, curr)
        /\ \A q \in Slots \ {curr} : proc[q].state # "RUNNING"
    BY <1>1, OnBehalfOfCall
  <1>3. Good(proc) /\ p \in ProcRecord /\ proc \in [Slots -> ProcRecord]
    BY <1>2 DEF IInv, Good
  <1>4. tr = [proc EXCEPT ![curr] = r]
    BY <1>2, <1>3 DEF Registered
  <1>5. r \in ProcRecord /\ Bones(p, r) /\ r.state = p.state /\ r.chan = p.chan /\ r.at = p.at
    BY <1>3, SignalRecords
  <1> HIDE DEF r, tr
  <1>6. Good(tr) /\ tr[curr] = r /\ \A q \in Slots \ {curr} : tr[q] = proc[q]
    BY <1>1, <1>2, <1>3, <1>4, <1>5, SignalsChange
  <1>7. Ready(tr, curr) /\ \A q \in Slots \ {curr} : tr[q].state # "RUNNING"
    BY <1>2, <1>5, <1>6 DEF Ready
  <1>8. Ident(proc, tr)
    BY <1>1, <1>5, <1>6 DEF Ident, Bones, Live
  <1> QED BY <1>1, <1>6, <1>7, <1>8, AnswerStep

LEMMA SigreturnStep ==
    ASSUME IInv, SysSigreturn
    PROVE  IInv'
  <1> DEFINE p == proc[curr]
             r == Returned(p)
             tr == [proc EXCEPT ![curr].sigpend = 0, ![curr].at =
                      IF ctx[proc[curr].img] = InHandler THEN "handler" ELSE "main"]
  <1>1. /\ mode = "enter" /\ kind = "sys" /\ p.at = "handler"
        /\ Return(tr) /\ ctx' = ctx /\ nextpid' = nextpid
    BY DEF SysSigreturn
  <1>2. /\ curr \in Slots /\ Ready(proc, curr) /\ Live(proc, curr)
        /\ \A q \in Slots \ {curr} : proc[q].state # "RUNNING"
    BY <1>1, OnBehalfOfCall
  <1>3. Good(proc) /\ p \in ProcRecord /\ proc \in [Slots -> ProcRecord] /\ Resumes(proc, ctx)
    BY <1>2 DEF IInv, Good
  <1>4. ctx[proc[curr].img] # InHandler
    <2>1. ctx[proc[curr].img] = p.pid /\ p.pid \in 0..MaxPid
      BY <1>1, <1>2, <1>3, FieldTypes DEF Resumes
    <2> QED BY <2>1, Params DEF InHandler
  <1>5. tr = [proc EXCEPT ![curr] = r]
    BY <1>2, <1>3, <1>4 DEF Returned
  <1>6. r \in ProcRecord /\ Bones(p, r) /\ r.state = p.state /\ r.chan = p.chan /\ r.at = "main"
    <2>1. TRUE \in BOOLEAN
      OBVIOUS
    <2> QED BY <1>3, <2>1, SignalRecords
  <1> HIDE DEF r, tr
  <1>7. Good(tr) /\ tr[curr] = r /\ \A q \in Slots \ {curr} : tr[q] = proc[q]
    BY <1>2, <1>3, <1>5, <1>6, SignalsChange
  <1>8. Ready(tr, curr) /\ \A q \in Slots \ {curr} : tr[q].state # "RUNNING"
    BY <1>2, <1>6, <1>7 DEF Ready
  <1>9. Ident(proc, tr)
    BY <1>6, <1>7 DEF Ident, Bones, Live
  <1> QED BY <1>1, <1>7, <1>8, <1>9, AnswerStep

LEMMA StepInv ==
    ASSUME Calm, IInv, [Next]_vars
    PROVE  IInv'
  <1>1. CASE SysEnter \/ TickEnter \/ ParkWake \/ Leave
    BY <1>1, EnterStep
  <1>2. CASE (\E due \in SUBSET Slots : TickWake(due)) \/ SelWake
    BY <1>2, WakeSteps
  <1>3. CASE CtrlC
    BY <1>3, CtrlCStep
  <1>4. CASE Publish
    BY <1>4, PublishStep
  <1>5. CASE Ktick
    BY <1>5, KtickStep
  <1>6. CASE KilledAtEntry \/ SysExit
    BY <1>6, DeathSteps
  <1>7. CASE SysAnswer
    BY <1>7, AnswerSteps
  <1>8. CASE SysPause \/ \E c \in {selwait_to, selwait_inf} : SysSelect(c)
    BY <1>8, SleepSteps
  <1>9. CASE SysWait
    BY <1>9, WaitStep
  <1>10. CASE SysFork
    BY <1>10, ForkStep
  <1>11. CASE SysExec
    BY <1>11, ExecStep
  <1>12. CASE \E pid \in 1..MaxPid : SysKill(pid)
    BY <1>12, KillStep
  <1>13. CASE SysSbrk
    BY <1>13, SbrkStep
  <1>14. CASE \E on \in BOOLEAN : SysSignal(on)
    BY <1>14, SignalStep
  <1>15. CASE SysSigreturn
    BY <1>15, SigreturnStep
  <1>16. CASE UNCHANGED vars
    <2>1. UNCHANGED <<ops, proc, ctx, nextpid, curr, next, mode, kind, waspark>>
      BY <1>16 DEF vars
    <2> QED BY <2>1 DEF IInv, TypeOK, Running, Control
  <1> QED BY <1>1, <1>2, <1>3, <1>4, <1>5, <1>6, <1>7, <1>8, <1>9, <1>10, <1>11, <1>12,
             <1>13, <1>14, <1>15, <1>16 DEF Next, Kernel

-----------------------------------------------------------------------------
(* The table, who runs in it and the control of a kernel entry fit together in
   every state, for workloads that aim no kill at a process suspended in fork
   and re-register no handler inside one. *)
THEOREM ProcInvariance ==
    ASSUME Calm
    PROVE  Spec => []IInv
  <1>1. Init => IInv
    BY InitInv
  <1>2. IInv /\ [Next]_vars => IInv'
    BY StepInv
  <1> QED BY <1>1, <1>2, PTL DEF Spec

(* The table keeps its type, only the current process is RUNNING, and with an
   adopter every zombie has a live parent that is not the adopter itself:
   swtch, terminate, reparenting. *)
THEOREM TableIsSound ==
    ASSUME Calm
    PROVE  Spec => []TableInv
  <1>1. IInv => TableInv
    <2> SUFFICES ASSUME IInv PROVE TableInv
      OBVIOUS
    <2>1. TypeOK /\ RunningIsCurr
      BY DEF IInv, Running, RunningIsCurr
    <2>2. ZombieHasParent
      BY DEF IInv, Good, Parents, Used, ZombieHasParent
    <2> QED BY <2>1, <2>2 DEF TableInv
  <1> QED BY <1>1, ProcInvariance, PTL

(* Nobody sleeps in wait() without a live child or beside a zombie, nor in
   fork() on anything but a live child in its own image. *)
THEOREM NobodySleepsInVain ==
    ASSUME Calm
    PROVE  Spec => []SleepersServed
  <1>1. IInv => SleepersServed
    <2> SUFFICES ASSUME IInv PROVE SleepersServed
      OBVIOUS
    <2>1. WaiterHasChild
      BY DEF IInv, Good, Waiters, Waits, WaiterHasChild, Children, Used, Live
    <2>2. SuspendedOnChild
      BY DEF IInv, Good, Suspends, Susp, Same, SuspendedOnChild
    <2> QED BY <2>1, <2>2 DEF SleepersServed
  <1> QED BY <1>1, ProcInvariance, PTL

(* Of the processes that share an image all but one are suspended: the vfork
   chain is ordered by pid, and only its youngest runs. *)
THEOREM ImageRunsOne ==
    ASSUME Calm
    PROVE  Spec => []OneRunsInImage
  <1>1. IInv => OneRunsInImage
    <2> SUFFICES ASSUME IInv, NEW i \in Slots, NEW j \in Slots, Live(proc, i), Live(proc, j),
                        i # j, proc[i].img = proc[j].img
                 PROVE  Suspended(i) \/ Suspended(j)
      BY DEF OneRunsInImage
    <2>1. Same(proc, i, j) /\ Same(proc, j, i)
      BY DEF Same
    <2>2. proc[i].pid # proc[j].pid
      BY DEF IInv, Good, Pids, Live, Used
    <2>3. proc[i].pid \in Nat /\ proc[j].pid \in Nat
      BY FieldTypes DEF IInv, Good
    <2>4. proc[i].pid < proc[j].pid \/ proc[j].pid < proc[i].pid
      BY <2>2, <2>3
    <2>5. Susp(proc, i) \/ Susp(proc, j)
      BY <2>1, <2>4 DEF IInv, Good, Order
    <2> QED BY <2>5 DEF Susp, Suspended
  <1> QED BY <1>1, ProcInvariance, PTL

(* The image and the heap of a live process have exactly one owner, who will
   give them back, across exec, exit, kill and ksbrk's hoisting. *)
THEOREM MemoryIsHeld ==
    ASSUME Calm
    PROVE  Spec => []MemoryHeld
  <1>1. IInv => MemoryHeld
    <2> SUFFICES ASSUME IInv PROVE MemoryHeld
      OBVIOUS
    <2>0. proc \in [Slots -> ProcRecord] /\ \A q \in Slots : proc[q].pid \in Nat
      BY FieldTypes DEF IInv, Good
    <2>1. ImageHeld
      <3> SUFFICES ASSUME NEW i \in Slots, Live(proc, i), proc[i].img \notin BootImages
                   PROVE  Cardinality({j \in Slots : proc[j].execmem = proc[i].img}) = 1
        BY DEF ImageHeld
      <3> DEFINE O == {j \in Slots : proc[j].execmem = proc[i].img}
      <3>1. PICK j \in Slots : proc[j].execmem = proc[i].img
        BY DEF IInv, Good, ImageOwners
      <3>2. proc[i].img # None
        BY <2>0, FieldTypes, Params DEF Images, BootImages, Arena
      <3>3. ASSUME NEW k \in Slots, proc[k].execmem = proc[i].img PROVE k = j
        <4>1. Same(proc, k, j) /\ Same(proc, j, k)
          BY <3>1, <3>2, <3>3 DEF IInv, Good, ImageOwners, Same
        <4>2. proc[j].pid <= proc[k].pid /\ proc[k].pid <= proc[j].pid
          BY <3>1, <3>2, <3>3, <4>1 DEF IInv, Good, ImageOwners
        <4>3. proc[j].pid = proc[k].pid
          BY <2>0, <4>2
        <4> QED BY <4>1, <4>3 DEF IInv, Good, Pids, Same, Live, Used
      <3>4. O = {j}
        BY <3>1, <3>3
      <3> HIDE DEF O
      <3>5. Cardinality(O) = 1
        BY <3>4, FS_Singleton
      <3> QED BY <3>5 DEF O
    <2>2. HeapHeld
      <3> SUFFICES ASSUME NEW i \in Slots, Live(proc, i), proc[i].heap # None
                   PROVE  Cardinality({j \in Slots : proc[j].heapmem = proc[i].heap}) = 1
        BY DEF HeapHeld
      <3> DEFINE O == {j \in Slots : proc[j].heapmem = proc[i].heap}
      <3>1. PICK j \in Slots : proc[j].heapmem = proc[i].heap
        BY DEF IInv, Good, HeapOwners
      <3>3. ASSUME NEW k \in Slots, proc[k].heapmem = proc[i].heap PROVE k = j
        <4>1. /\ Live(proc, j) /\ Live(proc, k)
              /\ proc[j].heap = proc[i].heap /\ proc[k].heap = proc[i].heap
          BY <3>1, <3>3 DEF IInv, Good, HeapOwners
        <4>2. proc[j].pid <= proc[k].pid /\ proc[k].pid <= proc[j].pid
          BY <3>1, <3>3, <4>1 DEF IInv, Good, HeapOwners
        <4>3. proc[j].pid = proc[k].pid
          BY <2>0, <4>2
        <4> QED BY <4>1, <4>3 DEF IInv, Good, Pids, Live, Used
      <3>4. O = {j}
        BY <3>1, <3>3
      <3> HIDE DEF O
      <3>5. Cardinality(O) = 1
        BY <3>4, FS_Singleton
      <3> QED BY <3>5 DEF O
    <2> QED BY <2>1, <2>2 DEF MemoryHeld
  <1> QED BY <1>1, ProcInvariance, PTL

(* A process in its SIGINT handler returns to where the signal met it: the
   image's one saved resume point is its own. *)
THEOREM HandlersReturn ==
    ASSUME Calm
    PROVE  Spec => []HandlerReturns
  <1>1. IInv => HandlerReturns
    BY DEF IInv, Resumes, HandlerReturns
  <1> QED BY <1>1, ProcInvariance, PTL
=============================================================================
