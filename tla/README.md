# Verification of the dma-cpu kernel

`dma-cpu` runs programs on the DMA controller of an RP2350: a chain of channel
records is the instruction stream, and the CPU cores only start it. On that
machine the repository puts a port of xv6. This directory holds TLA+ models of
the port's own kernel code, the model-checking configurations, and proofs.

The kernel is one sequential thread without kernel stacks and without
interrupts. What makes it hard is what runs beside it and across it: DMA
channels that patch dispatch words and drain rings between any two of its
records, sleeping processes that only a *peer* can complete, images shared by
vfork, hints that may be stale in one direction only, and power failures in the
middle of a flash write.

## 1. Inventory

Paths are relative to `src/target/xv6/dma/` unless they begin with `src/`.

| component | state | operations | module |
|---|---|---|---|
| tick delivery (`kproc.c` kenter/kexit, `src/host/prog/hil/kernel.dasm`) | dispatch words, injector and wake channel registers, `tickpending`, `entry_disp`, `rearm`, `tick_taken` | detour, system-call entry, the four places a fire is consumed, retarget, drain, re-arm, park | `KTick` |
| process table (`kproc.c`) | `proc[]`, `execmem`, `heapmem`, `curr`, `nextpid`, signal contexts | fork, exec, wait, exit, kill, pause, select, sbrk, signal, sigreturn, tick, Ctrl-C, swtch | `KProc` |
| timed sleeps (`kproc.c`) | `wake_us`, `ntimed`, `next_us` | arm_timed, tick_wake, other wakers | `KTimer` |
| pipes (`kpipe.c`, descriptors of `kfsglue.c`) | ring, open ends, mailboxes of sleepers | read, write, close, exit, fork, pipe | `KPipe` |
| flash persistence (`kflash.c`, `kbio.c`, `src/target/firmware/main.c`) | RAM disk, dirty map, generation, slot header and sectors | log_write, sync, power failure, boot | `KFlash` |
| console input (`kproc.c`, `usys.c`) | RX bytes, `cons_r/w/e`, raw mode and its owner | cons_poll, read, select, ttyraw, death | `KCons` |
| console output (`kcons.c`, the loan in `ksd.c`) | TX ring, `ctx_head/tail/prog`, channel registers | kcons_tx, kcons_kick, drain, borrow | `KConsTx`, checked in `KSd` |
| arena (`kproc.c`) | free list, block headers, owners | kalloc, kalloc_top, kfree by exec, first sbrk, exit | `KArena` |
| file layer (`kfsglue.c`, `src/target/xv6/kernel/fs.c`, `file.c`) | descriptors and cwd of every slot, file table, reference counts, inodes, directories, bitmap, mounts | open, create, close, dup, write, mkdir, link, unlink, chdir, mount, umount, fork, exit, boot | `KFs` |
| SD card (`ksd.c`, its callers in `kfat.c`) | CS, card, drain channel, FIFO, `sd_slow`, `sd_burst_state`, sector cache | init, single and multi-block read, retries, ladder, fall-backs | `KSd` |
| FAT (`kfat.c`), devfs (`kdev.c`) | nodes and their references, the mount | lookup, mount, unmount | `KFs`; chains, names and device texts are not modelled |
| GPIO, frame buffer, copy engine (`kgpio.c`, `kfb.c`, `kfbcon.c`, `kdma.c`) | registers, pixels; the console's parser, cursor underline and owner | register access, kfbcon_putc, SYS_fb | not modelled |
| loader, emulator, assembler, compiler, image builders (`src/target/loader`, `src/host`) | batch data | translation | not modelled |
| user programs, libc, game, BusyBox | | | not modelled |

Interactions. A system call is a jump through a dispatch word into `sys_entry`,
with its arguments in the image's mailbox; the tick is the same jump, put there
by a channel. `KTick` is about getting into and out of the kernel; `KProc`
about what happens in between, with `KTick`'s income points kept (a tick or a
Ctrl-C is consumed at entry, before the next process is published, or after).
`KTimer` says which sleepers a tick wakes (`TickWake` in `KProc` takes any set),
`KCons` says when a line is committed (`SelWake`, `CtrlC` in `KProc`), `KPipe`
and `KCons` use `KProc`'s sleep and completion, `KArena` hands out what `KProc`
knows as image and chunk names, `KConsTx` is kicked at every kernel exit.
`KSd` extends `KConsTx`: the SD driver and the console ring share a channel,
and the driver's own messages go through the ring. `KFs` is above the block
layer: that a sync saves its disk whole or not at all is what `KFlash` shows.

Hard behaviours, and where they are listed: `PROJECT.json` names each hazard at
its line. The properties follow them: fires counted once and never lost; nobody
asleep on something that cannot happen; one owner for every image and chunk;
one runner per image; deadlines never skipped; bytes in order through three
paths; a sync that survives a power failure; backpressure that ends; exact
reference and link counts through every call and crash; a card that may fail at
any point without wrong data or an endless retry, as long as it hears its
CMD18 and CMD12.

## 2. Modules and how they follow the code

Every definition that models code is listed with its lines in `PROJECT.json`
("map"). Names are the source's where TLA+ allows. `Mut_X` beside a definition
`X` is a plausible bug of the same code; each checked property has one that
breaks it.

**KTick.** One action is one access of the kernel to a word or a register that
a channel also touches; `TimerFire`, `RxByte` and `WakeFire` may happen between
any two. `pc` names the place in kernel.dasm/kenter/kexit, `phase` the step
within a consumption site: read the cell, restore it, call `fire_income`.
`owed` is a history variable: fires minus counted ticks. Which process is
picked is left open. Console DMA is brought up by the banner that kboot_init
prints in the first `kenter`, or by a later write; `Kenter` allows it at every
entry, which includes the first.

**KProc.** A record of `proc` is `struct proc` with the slot's rows of
`execmem` and `heapmem`. An entry is `enter` (income), body, `exit1` (income),
publication, `exit2` (income), leave. Each system call is one action with all
it calls: `terminate` is kfree_exec, vfork_release, reparenting, the deposit
with a waiter and the state of the slot, in this order. Images and chunks are
names. A name somebody still uses is not handed out again, so that a dangling
one stays visible. `ops` is fixed at boot: the workload of the behaviour.
Unless the workload has "hit", no kill and no Ctrl-C is aimed at a process that
is suspended in fork (section 5 says why). A handler does not fork (usys.c asks
handlers to keep to leaf work). `SysSignal` is only taken by a process that has
exec'd an image of its own (`img = execmem`). SYS_signal itself does not test
that: it is a restriction of the programs, which install their handlers after
their exec, and the resume point a signal saves is kept per image.

**KTimer.** Words are modulo `2 * Half`; `Diff` is the signed difference of the
code. `left` and `since` are histories in true time against which the code's
modular decisions are judged. Its specification's names begin with Timer, so
that one module can extend it together with KTick.

**KPipe.** A byte is numbered by its writer, so order, loss and duplication are
visible. `mail` is the sleeper's mailbox, of which the peer copies, advances and
completes. `DoneWhileAsleep` is what the system call's exit path (`setret`)
leaves in `done` of a call that fell asleep.

**KFlash.** A sector is a value, or `Torn`. A sync is the sequence of flash
operations of `kflash_sync`: header erase, per sector erase and program, header
program. `PowerFails` leaves the operation in progress half done; `Boot` stages
the slot's image if header and checksum agree and else the golden image.
`TornSum` says whether an interrupted header program may leave everything but
the checksum readable.

**KCons.** `lines` and `edit` are the committed and the open part of `cons_buf`.
`Polled` is the loop of `cons_poll` with its full-buffer test. A read is
`usys.c`'s: SYS_read, and SYS_select while that answers -2.

**KConsTx.** Cursors wrap at `W`, the channel drains one byte per step and the
kernel reads its count register once per step, as the code does. `Borrow` and
`Restore` are the loan to `ksd.c`.

**KSd.** Extends KConsTx. `at` is where the driver is within a session; one
action is one exchange with the card, with the outcomes that exchange can have.
The inner loops (waiting for ready, for a token, for the drain) are one step
each; the guards that bound the waits on a running clock are taken as long
enough. Any command may be refused, and one that the card has taken may be
misheard, so that the driver takes it for refused. A single block the driver
does not read ends with the next wait for ready or with the deselect; a run
(CMD18) has only CMD12 to end it, which is sent once and whose answer is not
looked at. When the card does not hear it, or when CMD18 itself was misheard,
the card is `adrift`: its bytes are taken for answers, tokens and data, until a
bring-up succeeds (CMD0 resets it). `unheard` is the history of that. `fast` is
the SPI clock, which sd_init_card raises at its end and the ladder lowers. `lba`, `dst` and `cache` carry the number of the sector whose bytes
they hold, 0 for anything else, so that a wrong, partial or stale sector is
visible. `SpanBegin` to `SpanDone` are the read of a contiguous span in
fat_readi, `CacheMiss` and `CacheDone` are sdsec. `print` counts the driver's
own messages: while it is not 0 the driver is inside kconswrite, and KConsTx
moves.

**KFs.** A system call is one action: the kernel is not preempted and the file
layer does not sleep. `disk` is the file system on the RAM disk, with an
inode's copy in memory and its dinode as one (iupdate follows every change);
`ft`, `ofile`, `cwd` and `ref` are what is only in memory. Path resolution is
translated function by function: `namei` and `nameiparent` (namex),
`vfs_walk`, `vfs_resolve`, the prefix tests, as recursive functions over the
names of the path; `CloseAll` is the loop of kfs_exit. `Exit` frees the slot at once,
where in the code it is a ZOMBIE until wait(): fork finds it earlier here, so
every order of the code is included. `ireclaim`, the check for /dev and the descriptors of every slot are
`Boot`. `Reboot` is sync and power cycle in one: a boot only sees the disk of
the last sync, so the disks it can see are those right after one. `lostFd` and
`lostCwd` are histories of what kfs_forkcopy overwrites.

**ByteStream, SafeDisk.** What a pipe and what sync() promise, without any of
the machinery. `KPipe` maps its ring, counters and results to a queue that
bytes enter and leave in order and whose end is seen only behind the last byte.
`KFlash` maps header, sectors and progress to one stable image that only a sync
changes, and only to the golden one or the one being saved; `stable` is
`Staged`, what the firmware would come up with.

**KArena.** Units of 256 bytes; a block is an address and a size, its header
unit included. The free list is a set, because kfree's walk and the in-place
splits keep it in address order. `Exec` and `ExecRefused` follow SYS_exec: two
claims one after the other, or one at a fixed home, giving back on failure,
then releasing the old image and taking the argument area.

Abstractions that matter: the *content* of images, files and messages is left
out; console echo is left out; `fd` numbers are left out of KPipe; the checksum
of an image is the image, so two images never collide.

## 3. Runs

Every run checks deadlock except `cons` (when all readers are dead and all
bytes have come, nothing is left to do).

| run | instance | what it shows |
|---|---|---|
| tick | 2 processes, 3 dispatch words, console DMA coming up at any time | `TickInv` (types, no patch left behind), `CountedOnce`, `NoLostFire`; the timer and the input wake never die (`TimerLives`, `InputSeen`) |
| proc | 4 slots, 2 forks beyond shell and adopter, 4 workloads | `TableInv` (types, who is RUNNING, zombies have a parent that can reap them and is not the adopter), `SleepersServed`, `OneRunsInImage`, `MemoryHeld` (images and chunks), `HandlerReturns` |
| proc_live | 3 slots, no adopter, sleeps; kill of anybody | `RunnableRuns`, `KillLands`, unless a process absorbs every fire |
| kill_image | as proc, with "hit" | violation of `ImageHeld` |
| timer | 3 sleepers, 12-value clock, sleeps up to 3, ticks up to 2 late | `TimerInv` (never stale-late), `NoOversleep`, `NoEarlyWake`, `SleepEnds` |
| pipe | 3 processes, ring of 2, 3 bytes each, calls up to 3 bytes | `PipeInv` (sleepers can be completed), `IsByteStream` (refinement), `SleepersReleased` |
| pipe_count | 2 processes, a 4-byte write through a ring of 2 | violation of `WriteCount` |
| flash | 3 sectors, 3 generations | `FlashInv` (types, the dirty map suffices), `Durable`, `AllOrNothing`, `IsSafeDisk` (refinement) |
| cons | buffer of 2, 4 bytes, 2 readers | `ConsInv` (types, order, a full buffer is readable, raw mode has a live owner), `SleeperHasNoInput`, `CommittedStays`, `InputTaken` |
| sd | ring of 2, words modulo 4, 2 sectors, 2 tries, 1 cache entry | `SdInv` (types, burst, session closed, clock), `WireInOrder`, `DataIsRight`, `DegradesForGood`, `OutputReachesWire`, `TxReturns`, `ReadReturns` |
| fs | 2 slots, 2 descriptors each, 2 files, 3 inodes, 4 blocks, 6 paths | `DiskInv` (links, blocks, orphans), `RefsExact`, `OnlyBootTablesLost`, `NobodyStranded` |
| arena | 13 units, 3 owners, 3 programs | `ArenaInv` (one owner per unit, merging), `RefusalIsClean` |

Why the bounds are enough. Tick: three words give exec a fresh word while the
old one and another process's are live; every interleaving of the channels with
one kernel entry and the next is in. Proc: two forks beyond the boot processes
give nested vforks, slot reuse after a reap, orphans and adoptees; the
workloads split the system calls so that the calls that interact are together.
Timer: the clock wraps many times within a behaviour, three sleepers are the
least for a minimum that is stale while two others are armed. Pipe: three bytes
through a ring of two fill it, block, and leave a remainder to be fed. Cons: a
buffer of two is full while bytes wait behind it. Arena: thirteen units hold
one large and two small programs with holes, and are exhausted by four. Sd: two
sectors make a run that may fail in its first or its second block, one cache
entry makes every miss an eviction, two tries make a retry; a ring of two is
filled by the driver's messages while it drains. Fs: three inodes are the
root, /dev and one more, so that creation meets a full inode table and a freed
inode is used again; with one direct block the second block of a file is behind
the indirect one. The root, /dev and a file of that length would take five
blocks and there are four, so the disk fills up inside that allocation, and a
file is left with an indirect block and no data behind it; two slots of two
descriptors over a file table of two make every table run out. The names
include the mount point, the console and "..", and a file and a directory
share the name a.

Fairness. `KTick`: the hardware acts (timer, wake channel), the kernel runs
on, a process reaches its next safepoint (the compiler puts one in every loop).
`KProc`: weak fairness of the kernel, since nothing can stop it, and of waking
from the park loop. Of the tick entry only weak fairness, too: `KTick` shows
that the timer never dies, so a process that computes and makes no calls has a
fire on its dispatch word at one of its next safepoints. A system call, on the
other hand, uses a fire up: kenter (kproc.c 1164-1172) and kexit (1218, 1241)
take it off the word and count it, and dma_ksyscall (2013-2017) goes back to
the same process without pick(). A process that loops on calls which do not
block may so absorb every fire. `RunnableRuns` and `KillLands` are therefore
stated under a premise on the programs, `FiresReachSafepoints`: safepoints meet
fires again and again, or the calls come to an end. Without the premise TLC
refutes both with such a loop. `KTimer`: time passes and ticks
come. `KPipe`: only that a running program ends some day; that it reads or
writes is not assumed. `KCons`: the kernel polls, and of the readers that are
runnable some one goes on. `KSd`: the channel drains and the SPI clocks, the
kernel runs on in the ring's code and in the driver (which is a loop of bounded
waits), and it is left and entered again and again.

## 4. Proofs

Eight modules prove theorems, for every value of the constants that meets the
named assumption of the module (`KTickAssumption` and so on). Each safety
theorem has the form `Spec => []P`, where `P` is the definition the run checks;
where it needs a hypothesis on the constants it is an `ASSUME` of the theorem,
and section 5 shows what happens in the code without it.

| module | theorems (property) | hypothesis |
|---|---|---|
| KTickProofs (KTick) | `PatchesNotLeft` (TickInv), `TicksCountedOnce` (CountedOnce), `FiresNotLost` (NoLostFire) | |
| KProcProofs | `TableIsSound` (TableInv), `NobodySleepsInVain` (SleepersServed), `ImageRunsOne` (OneRunsInImage), `MemoryIsHeld` (MemoryHeld), `HandlersReturn` (HandlerReturns) | `Calm`: no kill or Ctrl-C meets a process suspended in fork(), no signal() is made inside a handler |
| KTickProofs (KTimer) | `HintsNeverLate` (TimerInv), `NobodyOversleeps` (NoOversleep), `NobodyWokenEarly` (NoEarlyWake) | `Horizon`: the longest sleep and the latest tick together stay below half of the clock |
| KPipeProofs | `SleepersHavePeers` (PipeInv), `PipeIsByteStream` (IsByteStream) | `Use`: one reader, as pipelines have it, and no empty calls |
| KFlashProofs | `DirtyMapSuffices` (FlashInv), `SyncIsDurable` (Durable), `SyncIsAtomic` (AllOrNothing), `FlashIsSafeDisk` (IsSafeDisk) | `~TornSum` |
| KConsProofs | `TypedIsInOrder` (ConsInv), `BackspaceStops` (CommittedStays), `NobodySleepsOnInput` (SleeperHasNoInput) | the last one only: `~Background` |
| KSdProofs | `SessionsAreClosed` (SdInv), `OutputInOrder` (WireInOrder), `ReadsAreRight` (DataIsRight), `DegradationIsForGood` (DegradesForGood) | |
| KArenaProofs | `ArenaIsPartitioned` (ArenaInv), `RefusedExecIsClean` (RefusalIsClean) | |
| KFsProofs | `CountsAreExact` (RefsExact), `DiskIsSound` (DiskInv), `LossIsBounded` (OnlyBootTablesLost), `VolumeStays` (NobodyStranded) | |

Two of them are refinements: every step of `KFlash` is a step of `SafeDisk`
under the mapping of section 2 or leaves it alone, and every step of `KPipe` is
one of `ByteStream`. `NobodyWokenEarly`, `BackspaceStops`,
`DegradationIsForGood` and `RefusedExecIsClean` are action properties.

*KTick.* `NoLostFire` is not inductive: inside the kernel a fire is not in the
current dispatch word. `IInv` says where it is. `Control` ties `pc`, `phase`,
`kind` and the park flags together; `Aims` says where both channels point at
each place; `Clean` which cells cannot be patched there; `Balance` ties `owed`
to `armed` and `rearm`. The core is `Tokens`: while the injector is neither
armed nor owed a re-arm, the fire is in one of five places (the word that was
current at entry, `tickpending`, a site that has restored the cell and not yet
counted, the detour itself, or the word of the process the kernel leaves to),
all of which are still ahead on the kernel's path. `OneToken` says that without
console DMA, where a fire is not identified by the injector's count, it is in
only one of them, so it is counted once.

*KProc.* None of the five is inductive; what carries them is the shape of a
chain of forks. The live processes in an image are ordered by pid, and each one
but the youngest is asleep in fork() on the next (`Suspends`, `Order`). Whoever
is ready is the youngest of its chain; whoever owns the image or the heap chunk
is the oldest (`ImageOwners`, `HeapOwners`). So an owner that execs or exits is
alone in its image and gives back what nobody else uses, and the walk of ksbrk
up the suspended parents from the runner meets everybody who has the old heap.
`Parents` is why a child's exit finds who waits for it, `Waiters` what wait()
has looked at before it sleeps, `Handlers` and `Resumes` why a second signal
does not overwrite a saved resume point. The operations of the table are first
described by what they do to its fields (`Mild`, `Died`, `Execed`, `Forked`,
`Grown`), each of which keeps these parts (`Good`); `Running` and `Control` tie
the table to the place within the kernel entry. A kill at a suspended process
breaks `ImageOwners` (run `kill_image`), and signal() in a handler breaks
`Handlers`; section 5 has both.

*KTimer.* A deadline is a word of a clock that wraps, so an order of deadlines
means nothing by itself. `Deadlines` says that each is where the time a sleeper
has left puts it on the circle, and `Hint` that the cached `next_us` is the
place of some time that no sleeper undercuts and the last tick has not missed.
Both lie within half of the circle of now under `Horizon`, and there the signed
difference of two words is the difference of the times.

*KPipe.* `PipeInv` is not inductive. `Readers` (a reader that sleeps is the
only one) is why one deposit leaves no reader behind; `Writers` (a sleeping
writer's mailbox points behind its last byte) is why a feed continues its
stream; `Gone` is why the last close is seen. For the refinement, a call that
moves bytes straight between a caller and a sleeper is the abstract step that
puts them into the queue and takes them out again.

*KFlash.* `IInv` adds to the properties: `Vouches`, a header that is in order
has the checksum of what is in the sectors; `Invalidated`, from the erase of
the header to its programming it is not in order; `GenKnown`, the generation in
RAM is the slot's; `Agree`, sectors that are not dirty (or, in a sync, no longer
to be written) are the same in both places; `Pending`, during a sync nothing is
promised and the disk being written is among what may come up. `TornSum` breaks
`Vouches`; section 5 says what follows.

*KCons.* `ConsInv` compares neighbours in three sequences put together, which
says too little about the ends when one of them is empty. `Cuts` says instead
that two numbers separate what is committed, what is being edited and what is
still in the receive ring; each byte cons_poll takes moves at most one of them.
cons_poll's loop is a recursive function; its induction is `Recursion`, a lemma
over a set of records that each turn of the loop keeps.

*KSd.* The ring: `Cursors` (what is sent is what was reclaimed and what the
burst has drained), `InPlace` (the channel reads where the next byte lies) and
`Room` (a store only happens with room). Cursors are words, but two of them are
never more than a ring apart. The driver: `Session` says what card, chip select
and channel are doing at each place, a card adrift included, and that it is
adrift only if a run was left unheard; `Trusted` that DMA is only under way while
none has wedged, `Clean` that the FIFO holds no old byte from the command on,
`Wanted` and `Delivered` what the transfer so far has brought while no run was
left unheard. `SdInv` needs them because its fault shows a command later than
its cause. `DegradationIsForGood` is about DMA only: a wedged drain is the last
one. The clock is not for good (`StaysSlow`, section 5), and `ClockIsSet` in `SdInv` is
what holds of it: a card that is up is read fast unless the ladder was taken.

*KArena.* A free list is `Good` for a set of used units when it covers exactly
the others and two of its blocks always have a used unit between them. A call
is followed by what it does to that set. `OneList` says that the set determines
the list, so an exec that took blocks and gave them back restores the very
list, wherever the splits were.

*KFs.* `Sound` is about the disk by itself. `LinksExact` is not inductive: an
unlink takes one off the count of the directory it removes from because the
".." of what it removes was one of the links, so that ".." must name the
directory the entry is in. `Tree` says so, and that a directory has only one
entry; `Dots`, that one without links is empty and one with links has its "..";
`Counted` holds the counts of the free inodes too, which is why nothing names
a new one before create does. Blocks are followed one by one (`OneHolder`) through bmap, which
may get the indirect block and not the data block, and through truncation. Each
operation of fs.c is a lemma about disks. An open that creates the file and
then finds no descriptor leaves the disk as create made it, and that is sound.

Above it `Exact` ties memory and disk together: `FileCounts` and `NodeCounts`
are `RefsExact`; `Anchored` (a node somebody has is not free) is why a
descriptor and a current directory always lead to an inode; `Orphans` (an inode
without links is had by somebody) is why the last iput frees it, and the boot's
ireclaim after a power failure. `Tables` is about slots without a process: they
have nothing, or still what kfs_start gave them (`Fresh`), and a fork loses
exactly that. That these descriptors are the only ones on their files is a
counting argument over the boot files (`BootFileIs`, `BootUsers`).
`NobodyStranded` is inductive beside the counts, since fat_busy reads them.
`ireclaim`, the walks along a path and kfs_exit's loop are recursive functions
whose turns keep an invariant (`Recursion`, `Turns`). There is no hypothesis
beyond `KFsAssumption`: names are finitely many, paths are made of them, and
the file table has room for the descriptors of boot.

Only model-checked: the liveness properties (liveness under fairness is outside
the prover's reach). Every invariant and every action property of a passing run
is stated by a theorem. The library's induction theorems have an
operator as parameter, which the installed provers cannot instantiate; where a
proof needs induction it is over a *set* (`SetInduction`, from the least
element of a set of naturals), and what KConsProofs, KPipeProofs, KProcProofs
and KFsProofs show of a recursive function that way is an invariant of its
turns, not a closed form.

## 5. Where the code and its comments disagree

With a run:

- **kill_image.** SYS_kill ends a SLEEPING process at once. If it sleeps in
  fork(), its image goes back to the arena while its vfork child runs in it.
  The same happens when Ctrl-C reaches it (`sigint_one`). With the same
  workload `OneRunsInImage` fails too: a grandchild that kills the suspended
  process between makes the first one runnable in the image it runs in itself.
- **pipe_count.** `done` of a mailbox is the pipe's progress count and the
  system call's completion flag; `setret` stores 1 after the pipe stored its
  progress, so a write that slept returns a wrong count.

Stated as an invariant of the module named and refuted by TLC with the
constants of its run; no configuration of its own is kept:

- KTick, `InputInterrupts`: kexit and the park path drain the RX ring and aim
  the wake channel afterwards (kproc.c 1253). A byte that lands in between
  fires the wake into the scrap word: it waits for the next tick or the next
  byte, though kcons.c:12 says that "input becomes an interrupt" and stops
  "waiting for the next timer tick". Nothing is lost (`InputSeen`), only late.
- KSd, `PartialNeverLeaks`: CMD12's answer is not looked at (ksd.c 475, 484)
  and a misheard CMD18 is left without a CMD12 (469-472). The card sends on,
  and the sectors the caller then reads one by one are answered out of the old
  run with return value 0, though ksd.c:455 says that "partial data never
  leaks". How likely bytes of the run pass for an answer, a token and a block
  is not modelled. `DataIsRight` is what holds.
- KSd, `StaysSlow`: sd_init_card sets the fast clock (ksd.c 247) and leaves
  `sd_slow` set. After the next mount the card runs fast again, and the ladder,
  which only looks at `sd_slow`, is not there any more, though ksd.c:306 says
  "stay at init speed" and 308 "permanently".

Seen with other constants of the same modules, and kept out of the runs above
by the constant named:

- KFlash, `TornSum = TRUE`: the firmware checks the image checksum,
  `kflash_slot_gen` does not. After a header program torn in the checksum word
  only, the firmware stages the golden image, the kernel believes the slot, and
  an incremental sync publishes sectors that nobody wrote in this session
  (`Durable` fails). The comment promises 0 "when the slot does not hold a
  valid image of our size".
- KFs, `Paths <- DeepPaths`, one slot, four inodes: mkdir a and a/b, chdir
  a/b, remove both, then resolve ../b. namex refuses the directory without
  links, so vfs_resolve tries vfs_walk, which steps to the freed parent and
  locks it: ilock panics (`NoDanglingWalk` fails), though the comment says
  that a deleted cwd's dangling ".." behaves "exactly as upstream" and the
  result of the walk is thrown away for that reason.
- KTimer, `MaxSleep = 5`: near the horizon of 2^31 us a late tick makes
  `arm_timed`'s signed difference overflow and the cache skip an earlier
  deadline (`NoOversleep` fails). The comments promise the full horizon.
- KPipe, `Pipeline = FALSE`: with two readers asleep a write serves one and
  puts the rest in the ring; the next write overtakes it (`IsByteStream` fails).
- KPipe, `MinLen = 0`: a zero-length write completes a sleeping reader with 0,
  which it takes for the end (`IsByteStream` fails).
- KCons, `Background = TRUE`: ttyraw(1) commits a half-typed line without
  sel_wake; another process asleep in read() sleeps on (`SleeperHasNoInput`
  fails).
- KCons, `CtrlCSeen` under `PollSpec`: type-ahead that fills the buffer keeps a
  Ctrl-C behind it unseen while nobody reads.
- KProc, workload with "signal", "resignal" and "ctrlc": `signal()` inside a
  handler clears `sigpend`, and a second Ctrl-C overwrites the saved resume
  (`HandlerReturns` fails).
- KArena, `ArgvIsFresh` with relocatable programs only: when a hole below the
  text took the data, a re-exec frees both and puts the argument area over the
  strings it is about to copy.

Seen while translating, modelled as the code is, without a run of their own:

- kfs_chdir passes a devfs node to ilock, which fills it from the RAM disk:
  chdir("/dev") panics, chdir("/dev/console") turns the console's node into a
  directory (`Chdir`, `Panics`, `consdir` of KFs).
- mkdir on a full disk panics ("create dots"), where upstream fails the call.
- the directory behind /dev or a mount point can be removed by a relative path
  and its inode used again; the mount then answers at the new one.
- fat_readi, fat_sd_rawread and sdsec drop the result of a failed sector read:
  the caller gets a full count, though ksd.c says that "partial data never
  leaks". `DataIsRight` of KSd is about reads that return 0.
- a process that loops on system calls which do not block can absorb every
  fire and keep the processor (section 3, fairness). No comment promises the
  contrary.
- kcons_rx: the RX ring has no flow control; a producer that laps it loses a
  kilobyte. KCons takes the ring as long enough, as the code does.
- SYS_exec: a short read in the relocation stream ends its loop and exec goes
  on. Images have no content here.

## 6. Not modelled

The emulator, assembler, compiler, loader and image builders are batch
programs: sequential, without persistent state, and correct or not by what they
compute for every input, which is beyond bounded checking. GPIO and the
texts of the device nodes hold no state the properties could tell apart. The
frame buffer console does keep state, the escape parser, the cursor underline
and the owner of the screen; no other component reads it, and it is left to the
plan. The SPI and flash command sequences are taken as their effect. FAT
chains, long names and the BPB are decoded by pure functions of a read-only
volume. The user programs, the libc, the game and the vendored BusyBox are
above the system-call boundary; with the generated image tables of the firmware
they are most of the repository's lines and none of its kernel.

## 7. Plan

1. A composition of KTick's income with KProc, and of KTimer with KProc's
   TickWake.
2. An abstract byte stream for KConsTx as well.
3. The frame buffer console: kfbcon_putc and its escape parser, kfbcon_cursor
   at the end of a batch, SYS_fb and the release by terminate, with the
   underline standing at most once and only at the cursor, and an owner's
   screen that no console byte disturbs.
