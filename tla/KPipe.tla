------------------------------- MODULE KPipe -------------------------------
(***************************************************************************)
(* Pipes (target/xv6/dma/kpipe.c).  There are no kernel stacks, so a call  *)
(* that has to wait sleeps with its arguments in its mailbox and the peer  *)
(* completes it: a write copies into a sleeping reader's buffer, a read    *)
(* feeds a sleeping writer's remainder into the ring, the last close of an *)
(* end completes the sleepers of the other one.                            *)
(*                                                                         *)
(* A byte is <<p, k>>, the k-th byte process p has offered to this pipe.   *)
(* System calls are atomic: the kernel is not preemptible and none of      *)
(* these calls looks at anything the tick changes.                         *)
(***************************************************************************)
EXTENDS Integers, Sequences, FiniteSets, SequencesExt

CONSTANTS
    NPROC,      \* process slots
    PIPESIZE,   \* bytes of the ring
    MaxBytes,   \* bound: bytes one process offers
    MinLen,     \* the shortest write a program issues, 0 or 1
    MaxLen,     \* the longest read or write
    Pipeline    \* TRUE: the pipe is used as sh's pipelines use it: one
                \* process reads, and who reads or writes holds only that end

ASSUME KPipeAssumption ==
    /\ NPROC \in Nat \ {0}
    /\ PIPESIZE \in Nat \ {0}
    /\ MaxBytes \in Nat
    /\ MinLen \in {0, 1}
    /\ MaxLen \in Nat
    /\ Pipeline \in BOOLEAN

VARIABLES
    holds,  \* holds[p]: the ends p has a file descriptor for
    st,     \* st[p]: "run", asleep in "read" or "write", "unborn", "dead"
    mail,   \* mail[p]: the arguments of p's sleeping call
    res,    \* res[p]: the call p made last and its result, -3 while asleep
    ring,   \* the bytes between nread and nwrite
    sent,   \* sent[p]: bytes of p that went into the pipe (history)
    base,   \* base[p]: sent[p] when p's last write began (history)
    got     \* got[p]: p's bytes in the order readers got them (history)

vars == <<holds, st, mail, res, ring, sent, base, got>>

Procs == 1..NPROC
Ends == {"r", "w"}
Least(S) == CHOOSE x \in S : \A y \in S : x <= y
LesserOf(a, b) == IF a <= b THEN a ELSE b

(* struct dma_sysmail: a1 is the buffer (the number of bytes before it), a2
   the bytes left, done the progress of a writer. *)
Mail == [a1 : 0..MaxBytes, a2 : 0..MaxLen, done : 0..(MaxBytes + 1)]

Byte == Procs \X (1..MaxBytes)
Result == {"none", "read", "write"} \X (-3..(MaxBytes + MaxLen + 1))

TypeOK ==
    /\ holds \in [Procs -> SUBSET Ends]
    /\ st \in [Procs -> {"unborn", "run", "read", "write", "dead"}]
    /\ mail \in [Procs -> Mail]
    /\ res \in [Procs -> Result]
    /\ Range(ring) \subseteq Byte /\ Len(ring) <= PIPESIZE
    /\ sent \in [Procs -> 0..MaxBytes]
    /\ base \in [Procs -> 0..MaxBytes]
    /\ \A p \in Procs : Range(got[p]) \subseteq 1..MaxBytes

NoMail == [a1 |-> 0, a2 |-> 0, done |-> 0]

(* A process has called pipe() and holds both ends. *)
Init ==
    /\ holds = [q \in Procs |-> IF q = 1 THEN Ends ELSE {}]
    /\ st = [q \in Procs |-> IF q = 1 THEN "run" ELSE "unborn"]
    /\ mail = [q \in Procs |-> NoMail]
    /\ res = [q \in Procs |-> <<"none", 0>>]
    /\ ring = <<>>
    /\ sent = [q \in Procs |-> 0]
    /\ base = [q \in Procs |-> 0]
    /\ got = [q \in Procs |-> <<>>]

(* readopen and writeopen: cleared by the fileclose of the last descriptor. *)
Open(h, e) == \E p \in Procs : e \in h[p]
readopen == Open(holds, "r")
writeopen == Open(holds, "w")

(* The pipe as its readers and writers see it. *)
Stream == INSTANCE ByteStream WITH
    Sources <- Procs,
    MaxMove <- MaxLen,
    queue <- ring,
    put <- sent,
    open <- writeopen,
    eof <- {p \in Procs : res[p] = <<"read", 0>>}

Sleepers(call) == {p \in Procs : st[p] = call}

(* Bytes a+1 .. a+n of p. *)
Bytes(p, a, n) == [k \in 1..n |-> <<p, a + k>>]

(* The bytes s are copied into a reader's buffer. *)
HandOut(s) == got' = [p \in Procs |-> got[p] \o Stream!NumbersOf(p, s)]

MayUse(p, e) ==
    /\ st[p] = "run" /\ e \in holds[p]
    /\ Pipeline => /\ holds[p] = {e}
                   /\ e = "r" => \A q \in Procs \ {p} : "r" \in holds[q] => "w" \in holds[q]

-----------------------------------------------------------------------------
(* piperead, its pull_writer included. *)

Fed(w, room) == LesserOf(mail[w].a2, room)

Mut_AfterPull(w, fed) ==                          \* the buffer does not advance
    [mail[w] EXCEPT !.a2 = @ - fed, !.done = @ + fed]
AfterPull(w, fed) ==
    [a1 |-> mail[w].a1 + fed, a2 |-> mail[w].a2 - fed,
     done |-> mail[w].done + fed]

Read(p, n) ==
    LET k == LesserOf(n, Len(ring))
        rest == SubSeq(ring, k + 1, Len(ring))
        ws == Sleepers("write")
        w == Least(ws)
        fed == IF ws = {} THEN 0 ELSE Fed(w, PIPESIZE - Len(rest))
        complete == ws # {} /\ fed = mail[w].a2
        blocks == k = 0 /\ writeopen
    IN /\ MayUse(p, "r")
       /\ HandOut(SubSeq(ring, 1, k))
       /\ ring' = IF ws = {} THEN rest ELSE rest \o Bytes(w, mail[w].a1, fed)
       /\ sent' = [q \in Procs |-> IF q \in ws /\ q = w THEN sent[q] + fed ELSE sent[q]]
       /\ st' = [q \in Procs |-> IF q = p /\ blocks THEN "read"
                                 ELSE IF complete /\ q = w THEN "run" ELSE st[q]]
       /\ res' = [q \in Procs |->
                    IF q = p THEN <<"read", IF blocks THEN -3 ELSE k>>
                    ELSE IF complete /\ q = w THEN <<"write", mail[w].done + fed>>
                    ELSE res[q]]
       /\ mail' = [q \in Procs |->
                     IF q = p /\ blocks THEN [NoMail EXCEPT !.a2 = n]
                     ELSE IF complete /\ q = w THEN NoMail
                     ELSE IF q \in ws /\ q = w THEN AfterPull(w, fed)
                     ELSE mail[q]]
       /\ UNCHANGED <<holds, base>>

(* pipewrite: first into a sleeping reader's buffer, then into the ring. *)
Mut_BlockedReaders == {}                          \* only through the ring
BlockedReaders == Sleepers("read")

(* The writer stores its progress in mail.done, but dma_ksyscall then calls
   setret(p, -3) for the sleeping process, and setret sets done to 1. *)
DoneWhileAsleep(done) == 1

WriteRefused(p) ==
    /\ MayUse(p, "w")
    /\ ~readopen
    /\ res' = [res EXCEPT ![p] = <<"write", -1>>]
    /\ base' = [base EXCEPT ![p] = sent[p]]
    /\ UNCHANGED <<holds, st, mail, ring, sent, got>>

Write(p, n) ==
    LET rs == BlockedReaders
        r == Least(rs)
        d == IF rs = {} THEN 0 ELSE LesserOf(mail[r].a2, n)
        f == LesserOf(n - d, PIPESIZE - Len(ring))
        done == d + f
        blocks == done < n
    IN /\ MayUse(p, "w")
       /\ readopen
       /\ sent[p] + n <= MaxBytes
       /\ HandOut(Bytes(p, sent[p], d))
       /\ ring' = ring \o Bytes(p, sent[p] + d, f)
       /\ sent' = [sent EXCEPT ![p] = @ + done]
       /\ base' = [base EXCEPT ![p] = sent[p]]
       /\ st' = [q \in Procs |-> IF q = p /\ blocks THEN "write"
                                 ELSE IF q \in rs /\ q = r THEN "run" ELSE st[q]]
       /\ res' = [q \in Procs |->
                    IF q = p THEN <<"write", IF blocks THEN -3 ELSE n>>
                    ELSE IF q \in rs /\ q = r THEN <<"read", d>> ELSE res[q]]
       /\ mail' = [q \in Procs |->
                     IF q = p /\ blocks
                     THEN [a1 |-> sent[p] + done, a2 |-> n - done,
                           done |-> DoneWhileAsleep(done)]
                     ELSE IF q \in rs /\ q = r THEN NoMail ELSE mail[q]]
       /\ UNCHANGED holds

(* fileclose of the ends E of p, and pipeclose for the ones nobody holds any
   more: EOF for sleeping readers, a short count for sleeping writers. *)
Mut_Completed(h) ==                               \* readers only
    {q \in Procs : st[q] = "read" /\ ~Open(h, "w")}
Completed(h) ==
    {q \in Procs : \/ st[q] = "read" /\ ~Open(h, "w")
                   \/ st[q] = "write" /\ ~Open(h, "r")}

CloseEnds(p, E, gone) ==
    LET h == [holds EXCEPT ![p] = @ \ E]
        done == Completed(h) \ gone
    IN /\ holds' = h
       /\ st' = [q \in Procs |-> IF q \in gone THEN "dead"
                                 ELSE IF q \in done THEN "run" ELSE st[q]]
       /\ mail' = [q \in Procs |-> IF q \in done \cup gone THEN NoMail ELSE mail[q]]
       /\ res' = [q \in Procs |->
                    IF q \in gone THEN <<"none", 0>>
                    ELSE IF q \notin done THEN res[q]
                    ELSE IF st[q] = "read" THEN <<"read", 0>>
                    ELSE <<"write", mail[q].done>>]
       /\ UNCHANGED <<ring, sent, base, got>>

Close(p, e) ==
    /\ st[p] = "run" /\ e \in holds[p]
    /\ CloseEnds(p, {e}, {})

(* terminate -> kfs_exit, of a process that runs or sleeps. *)
Exit(p) ==
    /\ holds[p] # {}
    /\ CloseEnds(p, Ends, {p})

(* sigint_one on a sleeper with a handler: the call returns -1. *)
Interrupt(p) ==
    /\ st[p] \in {"read", "write"}
    /\ st' = [st EXCEPT ![p] = "run"]
    /\ res' = [res EXCEPT ![p] = <<st[p], -1>>]
    /\ mail' = [mail EXCEPT ![p] = NoMail]
    /\ UNCHANGED <<holds, ring, sent, base, got>>

(* kfs_forkcopy: the child has the parent's descriptors. *)
Fork(p) ==
    LET free == {q \in Procs : st[q] = "unborn"}
    IN /\ st[p] = "run" /\ holds[p] # {} /\ free # {}
       /\ holds' = [holds EXCEPT ![Least(free)] = holds[p]]
       /\ st' = [st EXCEPT ![Least(free)] = "run"]
       /\ UNCHANGED <<mail, res, ring, sent, base, got>>

(* pipealloc once both ends are closed: inuse is clear, the ring is reset. *)
Pipe(p) ==
    /\ ~readopen /\ ~writeopen
    /\ st' = [q \in Procs |-> IF q = p THEN "run" ELSE "unborn"]
    /\ holds' = [holds EXCEPT ![p] = Ends]
    /\ ring' = <<>>
    /\ res' = [q \in Procs |-> <<"none", 0>>]
    /\ sent' = [q \in Procs |-> 0]
    /\ base' = sent'
    /\ got' = [q \in Procs |-> <<>>]
    /\ UNCHANGED mail

Next ==
    \/ \E p \in Procs, n \in 1..MaxLen : Read(p, n)
    \/ \E p \in Procs, n \in MinLen..MaxLen : Write(p, n)
    \/ \E p \in Procs, e \in Ends : Close(p, e)
    \/ \E p \in Procs : WriteRefused(p) \/ Exit(p) \/ Interrupt(p) \/ Pipe(p) \/ Fork(p)

Spec == Init /\ [][Next]_vars

(* Programs end: who is not blocked exits some day. *)
FairSpec == Spec /\ \A p \in Procs : WF_vars(st[p] = "run" /\ Exit(p))

-----------------------------------------------------------------------------
(* Both sides never sleep at once: a reader sleeps only on an empty pipe and
   with no writer waiting to be fed. *)
NoMutualSleep ==
    Sleepers("read") # {} => ring = <<>> /\ Sleepers("write") = {}

(* A sleeper has a peer that can complete it: no wake-up was missed when the
   other end was closed. *)
SleeperHasPeer ==
    /\ Sleepers("read") # {} => writeopen
    /\ Sleepers("write") # {} => readopen /\ ring # <<>>

(* The type of the state, and that every sleeper of piperead and pipewrite
   can still be completed by a peer that is not itself asleep on it. *)
PipeInv == TypeOK /\ NoMutualSleep /\ SleeperHasPeer

(* kpipe.c implements a byte stream.  Whichever of the three ways a byte took
   (the ring, a deposit in a sleeping reader's buffer, a feed from a sleeping
   writer's), each process's bytes come out in the order it wrote them,
   without a gap or a repetition, and a read returns 0 only when every writer
   has closed and everything has been read. *)
IsByteStream == Stream!StreamSpec

(* write() returns the number of bytes that went into the pipe ("progress
   accumulates in mail.done"). *)
WriteCount ==
    \A p \in Procs : res[p][1] = "write" /\ res[p][2] >= 0
        => res[p][2] = sent[p] - base[p]

(* A blocked process of a pipeline does not wait forever. *)
SleepersReleased ==
    \A p \in Procs : st[p] \in {"read", "write"} ~> st[p] \notin {"read", "write"}
=============================================================================
