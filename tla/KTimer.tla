------------------------------- MODULE KTimer -------------------------------
(***************************************************************************)
(* Timed sleeps of target/xv6/dma/kproc.c: SYS_pause and a SYS_select with *)
(* a timeout arm a wallclock deadline (arm_timed); a tick (tick_income)    *)
(* wakes whoever is due.  The walk over the table is skipped behind two    *)
(* cached values, ntimed and next_us, and everything is compared as signed *)
(* differences of a free-running microsecond counter that wraps.           *)
(***************************************************************************)
EXTENDS Integers, FiniteSets

CONSTANTS
    Slots,      \* process slots
    Half,       \* 2^31 in the code: half the range of TIMERAWL
    MaxSleep,   \* bound: the longest sleep a program asks for
    MaxLate     \* bound: the longest time between two counted ticks

ASSUME KTimerAssumption ==
    /\ IsFiniteSet(Slots)
    /\ Half \in Nat /\ Half > 1
    /\ MaxSleep \in Nat /\ MaxSleep < Half
    /\ MaxLate \in Nat /\ MaxLate > 0

VARIABLES
    now,        \* TIMERAWL
    asleep,     \* the processes SLEEPING on &ticks or &selwait_to
    wake_us,    \* wake_us[p]: the deadline, meaningful while p is asleep
    ntimed,
    next_us,
    left,       \* left[p]: the time p still has to sleep, without wrap-around
                \* (history; negative when p has overslept, which is counted
                \* up to MaxLate + 1)
    since       \* the time since the last counted tick (history)

timervars == <<now, asleep, wake_us, ntimed, next_us, left, since>>

Word == 0..(2 * Half - 1)
Wrap(x) == x % (2 * Half)

(* (int)(a - b): the signed difference of two words. *)
Diff(a, b) == LET d == Wrap(a - b) IN IF d < Half THEN d ELSE d - 2 * Half

TimerTypeOK ==
    /\ now \in Word
    /\ asleep \subseteq Slots
    /\ wake_us \in [Slots -> Word]
    /\ ntimed \in Nat
    /\ next_us \in Word
    /\ left \in [Slots -> (-MaxLate - 1)..MaxSleep]
    /\ since \in 0..MaxLate

(* The counter has been running for any time when the kernel starts. *)
TimerInit ==
    /\ now \in Word
    /\ asleep = {}
    /\ wake_us = [p \in Slots |-> 0]
    /\ ntimed = 0
    /\ next_us = 0
    /\ left = [p \in Slots |-> 0]
    /\ since = 0

(* A microsecond passes. *)
Advance ==
    /\ since < MaxLate
    /\ now' = Wrap(now + 1)
    /\ since' = since + 1
    /\ left' = [p \in Slots |-> IF p \in asleep /\ left[p] >= -MaxLate
                              THEN left[p] - 1 ELSE left[p]]
    /\ UNCHANGED <<asleep, wake_us, ntimed, next_us>>

(* arm_timed(p, d) and the sleep that follows it. *)
Mut_arm_timed(d) ==                   \* the new deadline is always the next
    /\ next_us' = d
    /\ ntimed' = ntimed + 1
Mut_arm_timedUncounted(d) ==          \* the sleeper is not counted
    /\ next_us' = IF ntimed = 0 \/ Diff(d, next_us) < 0 THEN d ELSE next_us
    /\ ntimed' = ntimed
arm_timed(d) ==
    /\ next_us' = IF ntimed = 0 \/ Diff(d, next_us) < 0 THEN d ELSE next_us
    /\ ntimed' = ntimed + 1

Sleep(p, us) ==
    /\ p \notin asleep
    /\ asleep' = asleep \cup {p}
    /\ left' = [left EXCEPT ![p] = us]
    /\ wake_us' = [wake_us EXCEPT ![p] = Wrap(now + us)]
    /\ arm_timed(Wrap(now + us))
    /\ UNCHANGED <<now, since>>

(* sel_wake, sigint_one, kill: somebody else ends the sleep and leaves the
   two cached values alone. *)
OtherWake(p) ==
    /\ p \in asleep
    /\ asleep' = asleep \ {p}
    /\ left' = [left EXCEPT ![p] = 0]
    /\ wake_us' = [wake_us EXCEPT ![p] = 0]
    /\ UNCHANGED <<now, ntimed, next_us, since>>

Mut_Due(p) == Diff(now, wake_us[p]) >= -1     \* off by one
Due(p) == Diff(now, wake_us[p]) >= 0

(* The least deadline of a set of sleepers, in the order of the walk's
   signed comparisons. *)
Soonest(S) == CHOOSE d \in {wake_us[p] : p \in S} :
                 \A p \in S : Diff(wake_us[p], d) >= 0

tick_wake ==
    /\ asleep' = {p \in asleep : ~Due(p)}
    /\ ntimed' = IF asleep' = {} THEN 0 ELSE 1
    /\ next_us' = IF asleep' = {} THEN 0 ELSE Soonest(asleep')

(* tick_income's part: the two gates. *)
Mut_GatesOpen == ntimed # 0 /\ now >= next_us      \* an unsigned comparison
GatesOpen == ntimed # 0 /\ Diff(now, next_us) >= 0

Tick ==
    /\ IF GatesOpen THEN tick_wake ELSE UNCHANGED <<asleep, ntimed, next_us>>
    /\ left' = [p \in Slots |-> IF p \in asleep' THEN left[p] ELSE 0]
    /\ wake_us' = [p \in Slots |-> IF p \in asleep' THEN wake_us[p] ELSE 0]
    /\ since' = 0
    /\ UNCHANGED now

(* A bound: ntimed is only a hint, and is cut back by every walk. *)
MaxTimed == Cardinality(Slots) + 1

TimerNext ==
    \/ Advance
    \/ Tick
    \/ \E p \in Slots, us \in 0..MaxSleep : ntimed < MaxTimed /\ Sleep(p, us)
    \/ \E p \in Slots : OtherWake(p)

TimerSpec == TimerInit /\ [][TimerNext]_timervars

(* Time passes, and KTick's TimerLives: the tick keeps coming. *)
TimerFairSpec == TimerSpec /\ WF_timervars(Advance) /\ WF_timervars(Tick)

-----------------------------------------------------------------------------
(* next_us is never stale-LATE (the comment above next_us): no sleeper's
   deadline lies before the cached one, whatever was armed, woken by others
   and walked before, and across the counter's wrap. *)
NeverStaleLate ==
    \A p \in asleep : ntimed # 0 /\ Diff(wake_us[p], next_us) >= 0

(* The type of the state and the one-sided invariant of the two hints. *)
TimerInv == TimerTypeOK /\ NeverStaleLate

(* Nobody oversleeps: a process past its deadline has been so only since the
   last tick. *)
NoOversleep == \A p \in asleep : left[p] + since >= 0

(* A tick never ends a sleep before its time. *)
NoEarlyWake == [][Tick => \A p \in asleep \ asleep' : left[p] <= 0]_timervars

(* Every timed sleep ends. *)
SleepEnds == \A p \in Slots : p \in asleep ~> p \notin asleep
=============================================================================
