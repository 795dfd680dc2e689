------------------------------ MODULE KConsTx ------------------------------
(***************************************************************************)
(* Console output through the TX ring (target/xv6/dma/kcons.c): the kernel *)
(* stores bytes, a DMA channel paced by the UART drains them in bursts.    *)
(* The two share the ring and the channel's TRANS_COUNT; ksd.c borrows the *)
(* same channel for the clocks of an SD transfer while it is idle.         *)
(*                                                                         *)
(* The cursors are free-running words that wrap at W, a multiple of the    *)
(* ring's size.  The value of a byte is its number, modulo W.              *)
(***************************************************************************)
EXTENDS Naturals

CONSTANTS
    TXSZ,     \* CONS_TXSZ
    W,        \* 2^32 in the code
    SdCount   \* transfers of a borrow: 512 in the code

ASSUME KConsTxAssumption ==
    /\ TXSZ \in Nat \ {0}
    /\ W \in Nat /\ W > TXSZ /\ W % TXSZ = 0
    /\ SdCount \in Nat \ {0}

VARIABLES
    ring,     \* the bytes
    head,     \* ctx_head
    tail,     \* ctx_tail
    prog,     \* ctx_prog: bytes handed to the running burst
    count,    \* the channel's TRANS_COUNT
    rd,       \* the channel's READ_ADDR, as an offset into the ring
    user,     \* what the channel's registers are set up for: "cons" or "sd"
    sent,     \* bytes the UART has taken (history)
    pc        \* where the kernel is

vars == <<ring, head, tail, prog, count, rd, user, sent, pc>>

Word == 0..(W - 1)
Slot == 0..(TXSZ - 1)
Add(a, b) == (a + b) % W
Sub(a, b) == (a + W - b) % W

TypeOK ==
    /\ ring \in [Slot -> Word]
    /\ head \in Word /\ tail \in Word
    /\ prog \in 0..TXSZ
    /\ count \in 0..(IF user = "sd" THEN SdCount ELSE TXSZ)
    /\ rd \in Slot
    /\ user \in {"cons", "sd"}
    /\ sent \in Word
    /\ pc \in {"user", "kernel", "wait", "space", "store", "borrow"}

(* cons_dma_init. *)
Init ==
    /\ ring = [i \in Slot |-> 0]
    /\ head = 0 /\ tail = 0 /\ prog = 0
    /\ count = 0 /\ rd = 0 /\ user = "cons"
    /\ sent = 0
    /\ pc = "kernel"

-----------------------------------------------------------------------------
(* The channel moves one byte. *)
Drain ==
    /\ user = "cons" /\ count > 0
    /\ count' = count - 1
    /\ rd' = (rd + 1) % TXSZ
    /\ sent' = Add(sent, 1)
    /\ UNCHANGED <<ring, head, tail, prog, user, pc>>

Clock ==
    /\ user = "sd" /\ count > 0
    /\ count' = count - 1
    /\ UNCHANGED <<ring, head, tail, prog, rd, user, sent, pc>>

-----------------------------------------------------------------------------
(* kcons_kick.  A burst that is over is reclaimed and the rest handed on. *)
Kick ==
    IF count # 0 THEN UNCHANGED <<tail, prog, count>>
    ELSE /\ tail' = Add(tail, prog)
         /\ prog' = Sub(head, tail')
         /\ count' = prog'

(* kcons_tx: kick, test for space, and again until there is some. *)
TxBegin ==
    /\ pc = "kernel"
    /\ pc' = "wait"
    /\ UNCHANGED <<ring, head, tail, prog, count, rd, user, sent>>

Mut_TxKick ==                         \* waits without handing the ring over
    /\ pc = "wait"
    /\ pc' = "space"
    /\ UNCHANGED <<ring, head, tail, prog, count, rd, user, sent>>
TxKick ==
    /\ pc = "wait"
    /\ Kick
    /\ pc' = "space"
    /\ UNCHANGED <<ring, head, rd, user, sent>>

drained == Sub(prog, count)
Used == Sub(Sub(head, tail), drained)

HasSpace == Used < TXSZ

TxSpace ==
    /\ pc = "space"
    /\ pc' = IF HasSpace THEN "store" ELSE "wait"
    /\ UNCHANGED <<ring, head, tail, prog, count, rd, user, sent>>

TxStore ==
    /\ pc = "store"
    /\ ring' = [ring EXCEPT ![head % TXSZ] = head]
    /\ head' = Add(head, 1)
    /\ pc' = "kernel"
    /\ UNCHANGED <<tail, prog, count, rd, user, sent>>

(* kexit and the park path of swtch kick; the next entry is a tick away. *)
Mut_ExitKick == UNCHANGED <<tail, prog, count>>      \* only a full ring kicks
ExitKick == Kick

Exit ==
    /\ pc = "kernel"
    /\ ExitKick
    /\ pc' = "user"
    /\ UNCHANGED <<ring, head, rd, user, sent>>

Enter ==
    /\ pc = "user"
    /\ pc' = "kernel"
    /\ UNCHANGED <<ring, head, tail, prog, count, rd, user, sent>>

(* sd_payload borrows the channel when it is not BUSY, waits for the end of
   its transfer and restores the registers. *)
Mut_NotBusy == TRUE                   \* no look at BUSY
NotBusy == count = 0

Borrow ==
    /\ pc = "kernel" /\ NotBusy
    /\ user' = "sd"
    /\ count' = SdCount
    /\ pc' = "borrow"
    /\ UNCHANGED <<ring, head, tail, prog, rd, sent>>

Restore ==
    /\ pc = "borrow" /\ count = 0
    /\ user' = "cons"
    /\ pc' = "kernel"
    /\ UNCHANGED <<ring, head, tail, prog, count, rd, sent>>

Kernel == TxKick \/ TxSpace \/ TxStore \/ Restore

Next ==
    \/ Drain \/ Clock
    \/ TxBegin \/ Exit \/ Enter \/ Borrow
    \/ Kernel

Spec == Init /\ [][Next]_vars

-----------------------------------------------------------------------------
Queued == Sub(head, sent)

(* What has been queued and not sent is intact in the ring, at the place the
   channel will read it: no byte is overwritten before it is on the wire, none
   is sent twice or out of turn, across the wrap of ring and cursors. *)
WireInOrder ==
    /\ Queued <= TXSZ
    /\ \A k \in 0..(TXSZ - 1) : k < Queued =>
          ring[(rd + k) % TXSZ] = Add(sent, k)

(* The burst never reaches beyond what has been queued: the channel does not
   send stale ring contents. *)
BurstIsQueued == user = "cons" => count <= Queued

(* The type of the cursors (a full ring is never overfilled) and what a
   burst may cover. *)
TxInv == TypeOK /\ BurstIsQueued

(* Every byte queued reaches the wire, though a burst that is still running
   at kexit leaves the rest of the ring for a later entry. *)
OutputReachesWire ==
    \A b \in Word : (Queued > 0 /\ sent = b) ~> (sent # b)

(* kcons_tx always finds space in the end. *)
TxReturns == (pc = "wait") ~> (pc = "kernel")
=============================================================================
