-------------------------------- MODULE KSd --------------------------------
(***************************************************************************)
(* The SD card (target/xv6/dma/ksd.c) and the two ways kfat.c reads it: a  *)
(* span of sectors into the caller's buffer and a sector into the cache.   *)
(* Composed with KConsTx: a payload borrows the console's TX channel for   *)
(* its clocks when that is idle, and the driver's own messages go through  *)
(* the ring.                                                               *)
(*                                                                         *)
(* The card (external) may fail any command, token or transfer, and a      *)
(* command it has taken may be misheard: its answer is lost.  A run whose  *)
(* beginning or whose end is misheard goes on with nobody to stop it: the  *)
(* card is adrift, and its bytes are taken for answers, tokens and data.   *)
(* A card that a bring-up succeeds with has been reset by its CMD0.        *)
(* Polling loops are one step with the outcomes they can have; the guards  *)
(* of the waits on a running clock are taken as long enough.               *)
(***************************************************************************)
EXTENDS KConsTx

CONSTANTS
    NSEC,       \* sectors of the card, the span a file read asks for
    Tries,      \* attempts of a command in one session: 4 in the code
    NSDCACHE    \* entries of the sector cache

ASSUME KSdAssumption ==
    NSEC \in Nat \ {0, 1} /\ Tries \in Nat \ {0} /\ NSDCACHE \in Nat \ {0}

VARIABLES
    up,             \* sd_sectors # 0
    sd_slow,        \* the fast clock has failed
    fast,           \* the SPI clock: 25 MHz, else the identification clock
    sd_burst_state, \* 0 untried, 1 works, 2 failed
    sel,            \* CS is low
    card,           \* the card: "ready", sending a "block" or a "run", or
                    \* "adrift": sending a run that nobody is reading
    unheard,        \* history: a run was left so since the last bring-up
    ch11,           \* the drain channel is armed
    stale,          \* bytes of an earlier exchange are in the RX FIFO
    at,             \* where the driver is, "idle" when it has returned
    mode,           \* "run" (CMD18), "burst" or "polled" (CMD17)
    tries,          \* commands sent in this session
    ret,            \* 0 or -1: what the driver returned last
    print,          \* messages the driver has still to print
    want,           \* the caller: "none", "span" or "cache"
    lba,            \* the sector being read; in a run, the next one of it
    dst,            \* the caller's buffer: the sector whose bytes a place
                    \* holds, 0 for anything else
    cache,          \* sdcache, likewise
    sdtag,          \* sdtag: the sector an entry answers for, 0 for none
    sdvict          \* sdvict

driver == <<up, sd_slow, fast, sd_burst_state, sel, card, unheard, ch11, stale,
            at, mode, tries, ret>>
caller == <<want, lba, dst, cache, sdtag, sdvict>>
sdvars == <<driver, print, caller>>
allvars == <<vars, sdvars>>

Sector == 1..NSEC
Entry == 0..(NSDCACHE - 1)

SdTypeOK ==
    /\ up \in BOOLEAN /\ sd_slow \in BOOLEAN /\ fast \in BOOLEAN /\ unheard \in BOOLEAN
    /\ sd_burst_state \in 0..2
    /\ sel \in BOOLEAN /\ ch11 \in BOOLEAN /\ stale \in BOOLEAN
    /\ card \in {"ready", "block", "run", "adrift"}
    /\ at \in {"idle", "select", "cmd", "token", "payload", "drain", "poll", "stop"}
    /\ mode \in {"run", "burst", "polled"}
    /\ tries \in 0..Tries
    /\ ret \in {0, 1}
    /\ print \in 0..2
    /\ want \in {"none", "span", "cache"}
    /\ lba \in 1..(NSEC + 1)
    /\ dst \in [Sector -> 0..NSEC]
    /\ cache \in [Entry -> 0..NSEC]
    /\ sdtag \in [Entry -> 0..NSEC]
    /\ sdvict \in Entry

SdInit ==
    /\ Init
    /\ up = FALSE /\ sd_slow = FALSE /\ fast = FALSE /\ sd_burst_state = 0
    /\ sel = FALSE /\ card = "ready" /\ unheard = FALSE /\ ch11 = FALSE /\ stale = FALSE
    /\ at = "idle" /\ mode = "polled" /\ tries = 0 /\ ret = 0
    /\ print = 0
    /\ want = "none" /\ lba = 1
    /\ dst = [s \in Sector |-> 0]
    /\ cache = [v \in Entry |-> 0] /\ sdtag = [v \in Entry |-> 0] /\ sdvict = 0

-----------------------------------------------------------------------------
(* The bytes of the sector under way land in the caller's buffer or in the
   cache entry: the whole of it, or junk. *)
Fill(x) ==
    IF want = "span"
    THEN dst' = [dst EXCEPT ![lba] = x] /\ UNCHANGED cache
    ELSE cache' = [cache EXCEPT ![sdvict] = x] /\ UNCHANGED dst

(* What a transfer brings: the sector asked for, or another one when the card
   is adrift. *)
Sent == IF card = "adrift" THEN {0, lba} ELSE {lba}

(* cs(0): a deselected card gives up a single block. *)
Deselected(c) == IF c = "block" THEN "ready" ELSE c
Deselect == sel' = FALSE /\ card' = Deselected(card)

Returns(r) == at' = "idle" /\ ret' = r

(* The driver moves on when its messages are in the ring and the console code
   has come back. *)
Steps(where) == at = where /\ print = 0 /\ pc = "kernel"

(* cs(1) and the next attempt. *)
Select ==
    /\ Steps("select")
    /\ sel' = TRUE /\ tries' = 0
    /\ at' = "cmd"
    /\ UNCHANGED <<vars, up, sd_slow, fast, sd_burst_state, card, unheard, ch11, stale,
                   mode, ret, print, caller>>

(* What a failed session leaves: a run gives up, a single read tries once
   more on the slow clock (sd_begin_read_any).  says: messages so far. *)
Mut_Ladder(says) ==                   \* sd_slow is not looked at
    /\ sd_slow' = TRUE /\ fast' = FALSE
    /\ at' = "select" /\ print' = says + 1 /\ UNCHANGED ret
Ladder(says) ==
    IF mode = "run" \/ sd_slow
    THEN /\ Returns(1) /\ print' = (IF mode = "run" THEN 0 ELSE says)
         /\ UNCHANGED <<sd_slow, fast>>
    ELSE /\ sd_slow' = TRUE /\ fast' = FALSE
         /\ at' = "select" /\ print' = says + 1 /\ UNCHANGED ret

(* sd_wait_ready and CMD17 or CMD18.  sd_cmd empties the RX FIFO first. *)
Mut_EmptyFifo == stale                \* it does not
EmptyFifo == FALSE

(* An answer of 0: the card's, or a byte of a card adrift, which does not take
   the command. *)
CmdAccepted ==
    /\ Steps("cmd")
    /\ stale' = EmptyFifo
    /\ card' = CASE card = "adrift" -> card
               [] mode = "run"      -> "run"
               [] OTHER             -> "block"
    /\ at' = "token" /\ tries' = 0
    /\ UNCHANGED <<vars, up, sd_slow, fast, sd_burst_state, sel, unheard, ch11, mode, ret,
                   print, caller>>

(* A command the driver takes for refused may have been taken: the wait-ready
   before the next attempt or the deselect ends a block, nothing ends a run. *)
AfterRefusal ==
    IF card # "ready" THEN {card} ELSE {card, IF mode = "run" THEN "adrift" ELSE "block"}

CmdFails ==
    /\ Steps("cmd")
    /\ stale' = EmptyFifo
    /\ tries' = tries + 1
    /\ \E c \in AfterRefusal :
          /\ unheard' = (unheard \/ c = "adrift")
          /\ IF tries' < Tries
             THEN card' = c /\ UNCHANGED <<sel, at, ret, sd_slow, fast, print>>
             ELSE sel' = FALSE /\ card' = Deselected(c) /\ Ladder(1)
    /\ UNCHANGED <<vars, up, sd_burst_state, ch11, mode, caller>>

(* sd_token_wait. *)
TokenArrives ==
    /\ Steps("token")
    /\ at' = IF mode = "polled" THEN "poll" ELSE "payload"
    /\ UNCHANGED <<vars, up, sd_slow, fast, sd_burst_state, sel, card, unheard, ch11, stale,
                   mode, tries, ret,
                   print, caller>>

TokenFails ==
    /\ Steps("token")
    /\ IF mode = "run"
       THEN at' = "stop" /\ ret' = 1 /\ UNCHANGED <<sel, card, sd_slow, fast, print>>
       ELSE Deselect /\ Ladder(0)
    /\ UNCHANGED <<vars, up, sd_burst_state, unheard, ch11, stale, mode, tries, caller>>

(* sd_read_polled's loop. *)
Poll ==
    /\ Steps("poll")
    /\ \E x \in Sent : Fill(IF stale THEN 0 ELSE x)
    /\ Deselect
    /\ Returns(0)
    /\ UNCHANGED <<vars, up, sd_slow, fast, sd_burst_state, unheard, ch11, stale, mode,
                   tries, print,
                   want, lba, sdtag, sdvict>>

(* sd_payload: ch11 drains, the console's channel feeds if it is idle, else
   the machine does. *)
Payload ==
    /\ Steps("payload")
    /\ Borrow \/ (~NotBusy /\ UNCHANGED vars)
    /\ stale' = FALSE
    /\ ch11' = TRUE
    /\ Fill(0)
    /\ at' = "drain"
    /\ UNCHANGED <<up, sd_slow, fast, sd_burst_state, sel, card, unheard, mode, tries, ret,
                   print,
                   want, lba, sdtag, sdvict>>

(* The drain is over: a single block is the sector, a run goes on. *)
Drained ==
    /\ Steps("drain")
    /\ ch11' = FALSE
    /\ \E x \in Sent : Fill(x)
    /\ IF mode = "run"
       THEN /\ lba' = lba + 1
            /\ IF lba = NSEC THEN at' = "stop" /\ ret' = 0
               ELSE at' = "token" /\ UNCHANGED ret
            /\ UNCHANGED <<sel, card, sd_burst_state>>
       ELSE /\ sd_burst_state' = 1
            /\ Deselect
            /\ Returns(0)
            /\ UNCHANGED lba
    /\ UNCHANGED <<vars, up, sd_slow, fast, unheard, stale, mode, tries, print,
                   want, sdtag, sdvict>>

(* The drain has wedged: the channel is aborted, bytes stay behind.  A run
   stops; a single read starts over, polled. *)
Mut_AbortDrain == ch11                \* ch11 stays armed
AbortDrain == FALSE

Wedged ==
    /\ Steps("drain")
    /\ ch11' = AbortDrain
    /\ stale' = TRUE
    /\ sd_burst_state' = 2
    /\ print' = IF sd_burst_state = 2 THEN 0 ELSE 1
    /\ IF mode = "run"
       THEN at' = "stop" /\ ret' = 1 /\ UNCHANGED <<sel, card, mode>>
       ELSE at' = "select" /\ mode' = "polled" /\ Deselect /\ UNCHANGED ret
    /\ UNCHANGED <<vars, up, sd_slow, fast, unheard, tries, caller>>

(* CMD12 ends a run, finished or not, if the card hears it: it is sent once
   and its answer is not looked at. *)
Stop(heard) ==
    /\ Steps("stop")
    /\ stale' = EmptyFifo
    /\ card' = IF heard THEN "ready" ELSE "adrift"
    /\ unheard' = (unheard \/ ~heard)
    /\ sel' = FALSE
    /\ sd_burst_state' = IF ret = 0 THEN 1 ELSE sd_burst_state
    /\ Returns(ret)
    /\ UNCHANGED <<vars, up, sd_slow, fast, ch11, mode, tries, print, caller>>

-----------------------------------------------------------------------------
(* The callers. *)

Idle == Steps("idle") /\ want = "none"

(* sd_read_sector: polled or in a burst. *)
ReadSector ==
    /\ at' = "select"
    /\ mode' = IF sd_burst_state = 2 THEN "polled" ELSE "burst"
    /\ UNCHANGED ret

(* The caller has its result; what the driver keeps of it is of no further
   use. *)
Over == want' = "none" /\ lba' = 1 /\ tries' = 0 /\ mode' = "polled" /\ ret' = 0

(* ksd_read_run, when nothing has gone wrong yet. *)
Mut_RunAllowed == ~sd_slow      \* a wedged drain is tried again
RunAllowed == ~sd_slow /\ sd_burst_state # 2

(* fat_readi of a contiguous span: one run, and sector by sector when that is
   refused or fails.  The result of a sector's read is not looked at. *)
SpanBegin ==
    /\ Idle /\ up
    /\ want' = "span" /\ lba' = 1
    /\ IF RunAllowed THEN at' = "select" /\ mode' = "run" /\ UNCHANGED ret ELSE ReadSector
    /\ UNCHANGED <<vars, up, sd_slow, fast, sd_burst_state, sel, card, unheard, ch11, stale,
                   tries, print,
                   dst, cache, sdtag, sdvict>>

SpanNext ==
    LET failed == mode = "run" /\ ret # 0
    IN /\ Steps("idle") /\ want = "span"
       /\ failed \/ (mode # "run" /\ lba < NSEC)
       /\ lba' = IF failed THEN 1 ELSE lba + 1
       /\ ReadSector
       /\ UNCHANGED <<vars, up, sd_slow, fast, sd_burst_state, sel, card, unheard, ch11,
                      stale, tries, print,
                      want, dst, cache, sdtag, sdvict>>

SpanDone ==
    /\ Steps("idle") /\ want = "span"
    /\ IF mode = "run" THEN ret = 0 ELSE lba = NSEC
    /\ Over
    /\ dst' = [s \in Sector |-> 0]
    /\ UNCHANGED <<vars, up, sd_slow, fast, sd_burst_state, sel, card, unheard, ch11, stale,
                   at, print,
                   cache, sdtag, sdvict>>

(* sdsec, on a miss. *)
CacheMiss(s) ==
    /\ Idle /\ up /\ \A v \in Entry : sdtag[v] # s
    /\ want' = "cache" /\ lba' = s
    /\ sdtag' = [sdtag EXCEPT ![sdvict] = 0]
    /\ ReadSector
    /\ UNCHANGED <<vars, up, sd_slow, fast, sd_burst_state, sel, card, unheard, ch11, stale,
                   tries, print,
                   dst, cache, sdvict>>

Mut_TagOf == lba                      \* a failed read is cached, too
TagOf == IF ret = 0 THEN lba ELSE 0

CacheDone ==
    /\ Steps("idle") /\ want = "cache"
    /\ Over
    /\ sdtag' = [sdtag EXCEPT ![sdvict] = TagOf]
    /\ sdvict' = (sdvict + 1) % NSDCACHE
    /\ UNCHANGED <<vars, up, sd_slow, fast, sd_burst_state, sel, card, unheard, ch11, stale,
                   at, print,
                   dst, cache>>

(* sd_up, when the card is not up or a mount forces it: sd_init_card.  It works
   at the identification clock and ends at the fast one, sd_slow or not; one
   that fails does so before or after that, and before or after the reset.
   It leaves the cache's tags, unless fat_unmount came before; there is no read
   before one that succeeds. *)
BringUp(ok) ==
    /\ Idle
    /\ up' = ok
    /\ print' = 1
    /\ stale' = FALSE
    /\ fast' \in IF ok THEN {TRUE} ELSE BOOLEAN
    /\ card' \in IF ok THEN {"ready"} ELSE {card, "ready"}
    /\ unheard' = (unheard /\ ~ok)
    /\ sdtag' = [v \in Entry |-> 0] \/ (~ok /\ UNCHANGED sdtag)
    /\ UNCHANGED <<vars, sd_slow, sd_burst_state, sel, ch11, at, mode, tries, ret,
                   want, lba, dst, cache, sdvict>>

-----------------------------------------------------------------------------
(* The console under the driver.  A process's output waits until the read is
   over; the driver's messages do not. *)
Say ==
    /\ Idle \/ print > 0
    /\ TxBegin
    /\ print' = IF print > 0 THEN print - 1 ELSE 0
    /\ UNCHANGED <<driver, caller>>

Hardware == (Drain \/ Clock) /\ UNCHANGED sdvars
Console == Kernel /\ UNCHANGED sdvars
Out == Idle /\ Exit /\ UNCHANGED sdvars
In == Enter /\ UNCHANGED sdvars

Driver ==
    \/ Select \/ CmdAccepted \/ CmdFails \/ TokenArrives \/ TokenFails
    \/ Poll \/ Payload \/ Drained \/ Wedged \/ \E heard \in BOOLEAN : Stop(heard)
    \/ SpanNext \/ SpanDone \/ CacheDone

SdNext ==
    \/ Hardware \/ Console \/ Out \/ In \/ Say
    \/ Driver
    \/ SpanBegin \/ \E s \in Sector : CacheMiss(s)
    \/ \E ok \in BOOLEAN : BringUp(ok)

SdSpec == SdInit /\ [][SdNext]_allvars

(* The UART and the SPI take their bytes, the machine runs and does not stop
   in the driver, and the kernel is left and entered again and again (KTick:
   the tick keeps coming). *)
SdFairSpec ==
    /\ SdSpec
    /\ WF_allvars(Drain /\ UNCHANGED sdvars) /\ WF_allvars(Clock /\ UNCHANGED sdvars)
    /\ WF_allvars(Console) /\ SF_allvars(Out) /\ WF_allvars(In)
    /\ WF_allvars(Driver) /\ WF_allvars(print > 0 /\ Say)

-----------------------------------------------------------------------------
(* Whenever ksd.c has returned, by whichever of its exits, the session is
   closed: CS high, the drain channel not armed, the console's channel given
   back, and the card not sending unless the beginning or the end of a run was
   misheard. *)
SessionClosed ==
    /\ at = "idle" => ~sel /\ ~ch11 /\ user = "cons" /\ card \in {"ready", "adrift"}
    /\ card = "adrift" => unheard

(* A card that is up is read at 25 MHz unless the ladder was taken. *)
ClockIsSet == up => fast \/ sd_slow

(* The types of the driver and of the ring, the burst, the session and the
   clock. *)
SdInv == SdTypeOK /\ TxInv /\ SessionClosed /\ ClockIsSet

(* What ksd_read_run's comment says of any failure: the session is closed, and
   since the caller reads the span again no partial data leaks.  A span read
   with return value 0 is the sectors asked for. *)
PartialNeverLeaks ==
    at = "idle" /\ ret = 0 /\ want = "span" =>
        IF mode = "run" THEN \A s \in Sector : dst[s] = s ELSE dst[lba] = lba

(* A read that returned 0 delivered the sectors asked for, whatever failed and
   was retried on the way, and a cache entry holds what its tag says, as long
   as the card was not left in a run since it was brought up. *)
DataIsRight ==
    ~unheard => PartialNeverLeaks /\ \A v \in Entry : sdtag[v] # 0 => cache[v] = sdtag[v]

(* What the comments of sd_slow and of the ladder say: once the fast clock has
   failed the card stays at the identification clock. *)
StaysSlow == sd_slow => ~fast

(* Degradation is for good: once a drain has wedged no payload is transferred
   by DMA again and the console's channel is not borrowed any more. *)
DegradesForGood ==
    [][sd_burst_state = 2 => sd_burst_state' = 2 /\ ~ch11' /\ user' = "cons"]_allvars

(* Every read returns: the retries, the ladder and the fall-backs end, and
   the driver's messages find their way into the ring. *)
ReadReturns == (at # "idle") ~> (at = "idle")
=============================================================================
