------------------------------- MODULE KCons -------------------------------
(***************************************************************************)
(* Console input of target/xv6/dma/kproc.c: the line discipline (cons_poll)*)
(* between the received bytes and the readers, raw mode, and the blocking  *)
(* read of usys.c, which is a SYS_read and, while that answers -2, a       *)
(* SYS_select that sleeps until something is committed.                    *)
(*                                                                         *)
(* A byte is <<kind, k>>, the k-th one received.  cons_buf is one buffer:  *)
(* lines are its bytes between cons_r and cons_w, edit those between       *)
(* cons_w and cons_e.                                                      *)
(***************************************************************************)
EXTENDS Naturals, Sequences, SequencesExt

CONSTANTS
    Procs,       \* processes that read the console
    RawUsers,    \* those of them that switch raw mode (readline, vi, show)
    Background,  \* TRUE: one of them may go raw while another one is asleep
                 \* in read(); FALSE: the shell's foreground discipline
    Keys,        \* kinds of bytes that are received
    INPUT_BUF,   \* bytes of cons_buf
    MaxBytes,    \* bound: bytes received; fewer than the RX ring holds
    MaxRead      \* bound: the longest read

Kind == {"char", "return", "newline", "backspace", "intr"}

ASSUME KConsAssumption ==
    /\ Keys \subseteq Kind
    /\ RawUsers \subseteq Procs
    /\ "none" \notin Procs
    /\ Background \in BOOLEAN
    /\ INPUT_BUF \in Nat \ {0}
    /\ MaxBytes \in Nat
    /\ MaxRead \in Nat \ {0}

VARIABLES
    rx,        \* bytes in the RX ring or the UART FIFO
    lines,     \* committed: what a read may take
    edit,      \* typed, and still open to backspace
    raw,       \* cons_raw
    rawpid,    \* cons_raw_pid
    st,        \* st[p]: "run", "retry" (read has answered -2), asleep in
               \* "select", or "dead"
    arrived,   \* bytes received so far (history)
    last       \* the number of the byte a read took last (history)

vars == <<rx, lines, edit, raw, rawpid, st, arrived, last>>

Byte == Kind \X (1..MaxBytes)
NoPid == "none"

TypeOK ==
    /\ Range(rx) \cup Range(lines) \cup Range(edit) \subseteq Byte
    /\ Len(lines) + Len(edit) <= INPUT_BUF
    /\ raw \in BOOLEAN
    /\ rawpid \in Procs \cup {NoPid}
    /\ st \in [Procs -> {"run", "retry", "select", "dead"}]
    /\ arrived \in 0..MaxBytes
    /\ last \in 0..MaxBytes

Init ==
    /\ rx = <<>> /\ lines = <<>> /\ edit = <<>>
    /\ raw = FALSE /\ rawpid = NoPid
    /\ st = [p \in Procs |-> "run"]
    /\ arrived = 0 /\ last = 0

-----------------------------------------------------------------------------
(* cons_poll.  A record s is the buffer while the loop runs, s.n the number
   of bytes it has taken. *)
Full(s) == Len(s.lines) + Len(s.edit) >= INPUT_BUF

Mut_Commits(s, b) == b[1] = "newline"             \* not when the buffer fills
Commits(s, b) == b[1] = "newline" \/ Len(s.lines) + Len(s.edit) + 1 = INPUT_BUF

Mut_Erase(s) ==                                   \* cons_e # cons_r
    IF s.edit # <<>> THEN [s EXCEPT !.edit = Front(@)]
    ELSE IF s.lines # <<>> THEN [s EXCEPT !.lines = Front(@)] ELSE s
Erase(s) == IF s.edit = <<>> THEN s ELSE [s EXCEPT !.edit = Front(@)]

(* cons_w = cons_e, behind b. *)
Commit(s, b) == [lines |-> s.lines \o Append(s.edit, b), edit |-> <<>>, n |-> s.n]

Insert(s, b) == IF Commits(s, b) THEN Commit(s, b) ELSE [s EXCEPT !.edit = Append(@, b)]

Cook(s, b) ==
    CASE raw -> Commit(s, b)
      [] ~raw /\ b[1] = "intr" -> s               \* deliver_sigint: KProc
      [] ~raw /\ b[1] = "backspace" -> Erase(s)
      [] OTHER -> Insert(s, IF b[1] = "return" THEN <<"newline", b[2]>> ELSE b)

RoomFor(s) == ~Full(s)

Polled ==
    LET after[k \in 0..Len(rx)] ==
          IF k = 0 THEN [lines |-> lines, edit |-> edit, n |-> 0]
          ELSE LET s == after[k-1]
               IN IF s.n = k - 1 /\ RoomFor(s)
                  THEN [Cook(s, rx[k]) EXCEPT !.n = k] ELSE s
    IN after[Len(rx)]

(* sel_wake, when cons_w has moved. *)
Mut_SelWake(status, committed) == status          \* readers poll by themselves
SelWake(status, committed) ==
    [p \in Procs |-> IF committed /\ status[p] = "select" THEN "run"
                     ELSE status[p]]

(* A kernel entry or exit with input waiting (KTick says when). *)
Poll ==
    LET s == Polled
    IN /\ rx # <<>>
       /\ rx' = SubSeq(rx, s.n + 1, Len(rx))
       /\ lines' = s.lines
       /\ edit' = s.edit
       /\ st' = SelWake(st, s.lines # lines)
       /\ UNCHANGED <<raw, rawpid, arrived, last>>

Arrive(kind) ==
    /\ arrived < MaxBytes
    /\ rx' = Append(rx, <<kind, arrived + 1>>)
    /\ arrived' = arrived + 1
    /\ UNCHANGED <<lines, edit, raw, rawpid, st, last>>

-----------------------------------------------------------------------------
(* kconsread: cons_poll, then up to n bytes and not beyond a newline. *)
Taken(s, n) ==
    LET stop == {k \in 1..Len(s) : s[k][1] = "newline" \/ k = n}
    IN IF stop = {} THEN Len(s)
       ELSE CHOOSE k \in stop : \A j \in stop : k <= j

Mut_Rest(s, k) ==                                 \* stops before the newline
    SubSeq(s, IF k > 0 /\ s[k][1] = "newline" THEN k ELSE k + 1, Len(s))
Rest(s, k) == SubSeq(s, k + 1, Len(s))

Read(p, n) ==
    LET s == Polled
        buf == s.lines
        got == Taken(buf, n)
        woken == SelWake(st, buf # lines)
    IN /\ st[p] = "run"
       /\ rx' = SubSeq(rx, s.n + 1, Len(rx))
       /\ edit' = s.edit
       /\ lines' = Rest(buf, got)
       /\ st' = [woken EXCEPT ![p] = IF buf = <<>> THEN "retry" ELSE "run"]
       /\ last' = IF got = 0 THEN last ELSE buf[got][2]
       /\ UNCHANGED <<raw, rawpid, arrived>>

(* SYS_select without a timeout, on the console. *)
Select(p) ==
    /\ st[p] = "retry"
    /\ st' = [st EXCEPT ![p] = IF lines # <<>> THEN "run" ELSE "select"]
    /\ UNCHANGED <<rx, lines, edit, raw, rawpid, arrived, last>>

(* SYS_ttyraw(1) commits a half-typed line and wakes nobody. *)
RawOn(p) ==
    /\ p \in RawUsers /\ st[p] = "run"
    /\ Background \/ \A q \in Procs \ {p} : st[q] # "select"
    /\ raw' = TRUE /\ rawpid' = p
    /\ lines' = lines \o edit /\ edit' = <<>>
    /\ UNCHANGED <<rx, st, arrived, last>>

RawOff(p) ==
    /\ p \in RawUsers /\ st[p] = "run"
    /\ raw' = FALSE /\ rawpid' = NoPid
    /\ UNCHANGED <<rx, lines, edit, st, arrived, last>>

(* terminate, of a process that runs or sleeps. *)
Mut_Cooked(p) == FALSE                            \* only ttyraw(0) restores
Cooked(p) == raw /\ rawpid = p

Die(p) ==
    /\ st[p] # "dead"
    /\ st' = [st EXCEPT ![p] = "dead"]
    /\ raw' = (raw /\ ~Cooked(p))
    /\ rawpid' = IF Cooked(p) THEN NoPid ELSE rawpid
    /\ UNCHANGED <<rx, lines, edit, arrived, last>>

Next ==
    \/ Poll
    \/ \E kind \in Keys : Arrive(kind)
    \/ \E p \in Procs : \/ \E n \in 1..MaxRead : Read(p, n)
                        \/ Select(p) \/ RawOn(p) \/ RawOff(p) \/ Die(p)

Spec == Init /\ [][Next]_vars

(* The kernel is entered again and again (KTick). *)
PollSpec == Spec /\ WF_vars(Poll)

(* And somebody reads: while a process in read() is runnable, one of them
   goes on. *)
FairSpec ==
    /\ PollSpec
    /\ WF_vars(\E p \in Procs : Read(p, MaxRead) \/ Select(p))

-----------------------------------------------------------------------------
(* A full buffer has something to read in it (cons_poll commits when the
   buffer fills), so the backpressure is ended by the next read. *)
FullIsReadable ==
    Len(lines) + Len(edit) = INPUT_BUF => lines # <<>>

(* Backspace edits the open line only: what has been committed is handed out
   to readers, in the order it was typed and nothing twice. *)
CommittedStays ==
    [][\/ IsPrefix(lines, lines')
       \/ \E p \in Procs, n \in 1..MaxRead : Read(p, n)]_vars

(* Bytes are handed out in the order of their arrival, across lines, modes
   and readers. *)
InOrder ==
    LET q == lines \o edit \o rx
    IN \A i \in 1..Len(q) : q[i][2] > (IF i = 1 THEN last ELSE q[i-1][2])

(* Nobody sleeps while there is committed input (usys.c on select: "block
   until a read on some fd in mask would not spin"). *)
SleeperHasNoInput ==
    (\E p \in Procs : st[p] = "select") => lines = <<>>

(* Raw mode belongs to a live process: a dying editor cannot leave the shell
   without echo and without Ctrl-C. *)
RawOwnerLives == raw => rawpid # NoPid /\ st[rawpid] # "dead"

(* The type of the state (cons_buf is never overfilled), the order of the
   bytes in it, no deadlock of a full buffer, no orphaned raw mode. *)
ConsInv == TypeOK /\ InOrder /\ FullIsReadable /\ RawOwnerLives

(* Ctrl-C is seen even when the foreground job reads nothing (the comment in
   tick_income): it does not stay behind other input.  It is not true of the
   code under PollSpec: the README shows how a full buffer breaks it. *)
CtrlCSeen ==
    \A k \in 1..MaxBytes : <<"intr", k>> \in Range(rx) ~> <<"intr", k>> \notin Range(rx)

(* As long as somebody reads, no byte is held back forever. *)
InputTaken ==
    (rx # <<>>) ~> (rx = <<>> \/ \A p \in Procs : st[p] = "dead")
=============================================================================
