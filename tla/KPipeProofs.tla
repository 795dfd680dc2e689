---------------------------- MODULE KPipeProofs ----------------------------
(***************************************************************************)
(* Theorems about the pipe, for any number of processes, any size of the   *)
(* ring and any lengths of the calls, when it is used as pipelines use it. *)
(*                                                                         *)
(* PipeInv alone is not inductive.  That a reader which sleeps was alone   *)
(* (Readers) is what lets one deposit leave no reader behind; that a       *)
(* sleeping writer's mailbox still points behind its last byte (Writers)   *)
(* is what makes a feed continue its stream; and neither holds the other   *)
(* end, so the last close it waits for is not its own.                     *)
(***************************************************************************)
EXTENDS KPipe, WellFoundedInduction, TLAPS

(* How a shell's pipeline uses a pipe: whoever reads or writes has closed the
   end it does not use, one process reads, and nobody writes nothing. *)
Use == Pipeline /\ MinLen = 1

(* TypeOK, with the sequences as members of a set of sequences. *)
Types ==
    /\ holds \in [Procs -> SUBSET Ends]
    /\ st \in [Procs -> {"unborn", "run", "read", "write", "dead"}]
    /\ mail \in [Procs -> Mail]
    /\ res \in [Procs -> Result]
    /\ ring \in Seq(Byte) /\ Len(ring) <= PIPESIZE
    /\ sent \in [Procs -> 0..MaxBytes]
    /\ base \in [Procs -> 0..MaxBytes]
    /\ got \in [Procs -> Seq(1..MaxBytes)]

(* Who has exited, or was never forked, holds no end. *)
Gone == \A p \in Procs : st[p] \in {"unborn", "dead"} => holds[p] = {}

(* A sleeping writer has bytes left, and they follow the ones it has sent. *)
Writers ==
    \A p \in Procs : st[p] = "write" =>
        /\ holds[p] = {"w"}
        /\ mail[p].a1 = sent[p]
        /\ mail[p].a2 >= 1 /\ mail[p].a1 + mail[p].a2 <= MaxBytes
        /\ mail[p].done + mail[p].a2 <= MaxBytes + 1

(* A sleeping reader wants at least a byte, and is the only one. *)
Readers ==
    \A p \in Procs : st[p] = "read" =>
        /\ holds[p] = {"r"}
        /\ mail[p].a2 >= 1
        /\ \A q \in Procs : st[q] = "read" => q = p

(* The inductive invariant. *)
IInv == Types /\ Gone /\ Writers /\ Readers /\ NoMutualSleep /\ SleeperHasPeer

-----------------------------------------------------------------------------
(* A non-empty set of naturals has a least element. *)
LEMMA LeastNat ==
    ASSUME NEW S \in SUBSET Nat, S # {}
    PROVE  \E m \in S : \A k \in S : m <= k
  <1> DEFINE R == {ss \in Nat \X Nat : ss[1] < ss[2]}
  <1>1. IsWellFoundedOn(R, Nat)
    BY NatLessThanWellFounded DEF OpToRel
  <1> HIDE DEF R
  <1>2. PICK m \in S : \A k \in S : ~(<<k, m>> \in R)
    BY <1>1, WFMin
  <1>3. \A k \in S : ~(k < m)
    BY <1>2 DEF R
  <1> QED BY <1>3

(* Induction, for a set instead of a predicate. *)
LEMMA SetInduction ==
    ASSUME NEW S, 0 \in S, \A n \in Nat : n \in S => n + 1 \in S
    PROVE  Nat \subseteq S
  <1> SUFFICES ASSUME Nat \ S # {} PROVE FALSE
    OBVIOUS
  <1>1. PICK m \in Nat \ S : \A k \in Nat \ S : m <= k
    BY LeastNat
  <1> QED BY <1>1

(* A function defined by recursion on 0..n exists. *)
StepsOn(D, n) == [1..n -> [D -> D]]
Iterates(g, D, n, a, step) ==
    g \in [0..n -> D] /\ g[0] = a /\ \A i \in 1..n : g[i] = step[i][g[i - 1]]

LEMMA Recursion ==
    ASSUME NEW D, NEW n \in Nat, NEW a \in D, NEW step \in StepsOn(D, n)
    PROVE  \E g : Iterates(g, D, n, a, step)
  <1> USE DEF StepsOn
  <1> DEFINE Ok(m, g) == g[0] = a /\ \A i \in 1..m : g[i] = step[i][g[i - 1]]
             S == {m \in Nat : m <= n => \E g \in [0..m -> D] : Ok(m, g)}
  <1>1. 0 \in S
    <2>1. [i \in 0..0 |-> a] \in [0..0 -> D] /\ Ok(0, [i \in 0..0 |-> a])
      OBVIOUS
    <2> QED BY <2>1
  <1>2. ASSUME NEW m \in Nat, m \in S PROVE m + 1 \in S
    <2> SUFFICES ASSUME m + 1 <= n PROVE \E g \in [0..(m + 1) -> D] : Ok(m + 1, g)
      OBVIOUS
    <2>1. PICK g \in [0..m -> D] : Ok(m, g)
      BY <1>2
    <2> DEFINE h == [i \in 0..(m + 1) |-> IF i = m + 1 THEN step[m + 1][g[m]] ELSE g[i]]
    <2>2. m + 1 \in 1..n /\ step[m + 1][g[m]] \in D
      OBVIOUS
    <2>3. h \in [0..(m + 1) -> D]
      BY <2>2
    <2>4. Ok(m + 1, h)
      BY <2>1, <2>3
    <2> QED BY <2>3, <2>4
  <1> HIDE DEF S
  <1>3. n \in S
    BY <1>1, <1>2, SetInduction
  <1> QED BY <1>3 DEF S, Iterates

(* The numbers of p's bytes in s are a sequence of numbers of bytes. *)
LEMMA NumbersAre ==
    ASSUME NEW p, NEW s \in Seq(Byte)
    PROVE  /\ Stream!NumbersOf(p, s) \in Seq(1..MaxBytes)
           /\ s = <<>> => Stream!NumbersOf(p, s) = <<>>
  <1> DEFINE D == Seq(1..MaxBytes)
             A(k, x) == IF s[k][1] = p THEN Append(x, s[k][2]) ELSE x
             step == [k \in 1..Len(s) |-> [x \in D |-> A(k, x)]]
             F == CHOOSE f : f = [k \in 0..Len(s) |-> IF k = 0 THEN <<>> ELSE A(k, f[k-1])]
  <1>1. Stream!NumbersOf(p, s) = F[Len(s)]
    BY DEF Stream!NumbersOf
  <1>2. ASSUME NEW k \in 1..Len(s), NEW x \in D PROVE A(k, x) \in D
    <2>1. s[k] \in Byte
      OBVIOUS
    <2>2. s[k][2] \in 1..MaxBytes
      BY <2>1 DEF Byte
    <2>3. Append(x, s[k][2]) \in D
      BY <2>2
    <2> QED BY <2>3
  <1>3. Len(s) \in Nat /\ <<>> \in D
    OBVIOUS
  <1> HIDE DEF A, D
  <1>4. step \in [1..Len(s) -> [D -> D]]
    BY <1>2
  <1>5. PICK g \in [0..Len(s) -> D] : g[0] = <<>> /\ \A i \in 1..Len(s) : g[i] = step[i][g[i - 1]]
    <2> HIDE DEF step
    <2>1. PICK n \in Nat, e \in D : n = Len(s) /\ e = <<>>
      BY <1>3
    <2>2. step \in StepsOn(D, n)
      BY <1>4, <2>1 DEF StepsOn
    <2>3. \E g : Iterates(g, D, n, e, step)
      BY <2>2, Recursion
    <2> QED BY <2>1, <2>3 DEF Iterates
  <1>6. g = [k \in 0..Len(s) |-> IF k = 0 THEN <<>> ELSE A(k, g[k-1])]
    <2>1. \A k \in 0..Len(s) : k # 0 => k \in 1..Len(s) /\ k - 1 \in 0..Len(s)
      BY <1>3
    <2>2. \A k \in 0..Len(s) : g[k] = IF k = 0 THEN <<>> ELSE A(k, g[k-1])
      BY <1>5, <2>1
    <2> QED BY <2>2
  <1>7. F = [k \in 0..Len(s) |-> IF k = 0 THEN <<>> ELSE A(k, F[k-1])]
    BY <1>6
  <1> HIDE DEF F
  <1>8. F[0] = <<>> /\ \A k \in 1..Len(s) : F[k] = A(k, F[k-1])
    BY <1>3, <1>7
  <1> DEFINE S == {k \in Nat : k <= Len(s) => F[k] \in D}
  <1>9. 0 \in S
    BY <1>3, <1>8
  <1>10. ASSUME NEW k \in Nat, k \in S PROVE k + 1 \in S
    <2> SUFFICES ASSUME k + 1 <= Len(s) PROVE F[k + 1] \in D
      OBVIOUS
    <2>1. F[k] \in D /\ k + 1 \in 1..Len(s) /\ (k + 1) - 1 = k
      BY <1>3, <1>10
    <2>2. F[k + 1] = A(k + 1, F[k])
      BY <1>8, <2>1
    <2> QED BY <1>2, <2>1, <2>2
  <1> HIDE DEF S
  <1>11. Len(s) \in S
    BY <1>3, <1>9, <1>10, SetInduction
  <1> QED BY <1>1, <1>3, <1>8, <1>11 DEF S, D

-----------------------------------------------------------------------------
(* What the proofs use of the parameters. *)
LEMMA Params ==
    /\ NPROC \in Nat /\ PIPESIZE \in Nat /\ PIPESIZE > 0 /\ MaxBytes \in Nat /\ MaxLen \in Nat
    /\ MinLen \in {0, 1} /\ Pipeline \in BOOLEAN
  BY KPipeAssumption

LEMMA LeastIs ==
    ASSUME NEW S \in SUBSET Procs, S # {}
    PROVE  Least(S) \in S
  <1>1. S \in SUBSET Nat
    BY Params DEF Procs
  <1>2. \E m \in S : \A k \in S : m <= k
    BY <1>1, LeastNat
  <1> QED BY <1>2 DEF Least

LEMMA Lesser ==
    ASSUME NEW a \in Nat, NEW b \in Nat
    PROVE  /\ LesserOf(a, b) \in Nat /\ LesserOf(a, b) <= a /\ LesserOf(a, b) <= b
           /\ LesserOf(a, b) = a \/ LesserOf(a, b) = b
  BY DEF LesserOf

LEMMA BytesAre ==
    ASSUME NEW p \in Procs, NEW a \in Nat, NEW n \in Nat, a + n <= MaxBytes
    PROVE  Bytes(p, a, n) \in Seq(Byte) /\ Len(Bytes(p, a, n)) = n
  <1>1. \A k \in 1..n : <<p, a + k>> \in Byte
    BY Params DEF Byte
  <1> QED BY <1>1 DEF Bytes

LEMMA RangeIn ==
    ASSUME NEW S, NEW s \in Seq(S)
    PROVE  Range(s) \subseteq S
  BY DEF Range

LEMMA Joined ==
    ASSUME NEW a \in Seq(Byte), NEW b \in Seq(Byte)
    PROVE  a \o b \in Seq(Byte) /\ Len(a \o b) = Len(a) + Len(b)
  OBVIOUS

LEMMA Handed ==
    ASSUME Types, NEW s \in Seq(Byte), HandOut(s)
    PROVE  /\ got' \in [Procs -> Seq(1..MaxBytes)]
           /\ s = <<>> => got' = got
  <1>1. \A p \in Procs : /\ Stream!NumbersOf(p, s) \in Seq(1..MaxBytes)
                         /\ s = <<>> => Stream!NumbersOf(p, s) = <<>>
    BY NumbersAre
  <1>2. \A p \in Procs : got[p] \in Seq(1..MaxBytes)
    BY DEF Types
  <1>3. \A p \in Procs : got[p] \o Stream!NumbersOf(p, s) \in Seq(1..MaxBytes)
    BY <1>1, <1>2
  <1>4. ASSUME s = <<>> PROVE got' = got
    <2>1. \A p \in Procs : got[p] \o Stream!NumbersOf(p, s) = got[p]
      BY <1>1, <1>2, <1>4
    <2> QED BY <2>1 DEF HandOut, Types
  <1> QED BY <1>3, <1>4 DEF HandOut

LEMMA MailIs ==
    ASSUME NEW m \in Mail
    PROVE  m.a1 \in 0..MaxBytes /\ m.a2 \in 0..MaxLen /\ m.done \in 0..(MaxBytes + 1)
  BY DEF Mail

LEMMA NoMailIs == NoMail \in Mail /\ \A n \in 0..MaxLen : [NoMail EXCEPT !.a2 = n] \in Mail
  BY Params DEF NoMail, Mail

(* The values a read works with: the bytes it takes, what they leave in the
   ring, the writer it pulls from and how much. *)
Taken(n) == LesserOf(n, Len(ring))
Rest(n) == SubSeq(ring, Taken(n) + 1, Len(ring))
Asleep == Sleepers("write")
Pulled == Least(Asleep)
Pull(n) == IF Asleep = {} THEN 0 ELSE Fed(Pulled, PIPESIZE - Len(Rest(n)))
Finished(n) == Asleep # {} /\ Pull(n) = mail[Pulled].a2
Starved(n) == Taken(n) = 0 /\ writeopen

LEMMA ReadDoes ==
    ASSUME NEW p, NEW n, Read(p, n)
    PROVE  /\ HandOut(SubSeq(ring, 1, Taken(n)))
           /\ ring' = IF Asleep = {} THEN Rest(n)
                      ELSE Rest(n) \o Bytes(Pulled, mail[Pulled].a1, Pull(n))
           /\ sent' = [q \in Procs |-> IF q \in Asleep /\ q = Pulled THEN sent[q] + Pull(n)
                                       ELSE sent[q]]
           /\ st' = [q \in Procs |-> IF q = p /\ Starved(n) THEN "read"
                                     ELSE IF Finished(n) /\ q = Pulled THEN "run" ELSE st[q]]
           /\ res' = [q \in Procs |->
                        IF q = p THEN <<"read", IF Starved(n) THEN -3 ELSE Taken(n)>>
                        ELSE IF Finished(n) /\ q = Pulled
                        THEN <<"write", mail[Pulled].done + Pull(n)>> ELSE res[q]]
           /\ mail' = [q \in Procs |->
                         IF q = p /\ Starved(n) THEN [NoMail EXCEPT !.a2 = n]
                         ELSE IF Finished(n) /\ q = Pulled THEN NoMail
                         ELSE IF q \in Asleep /\ q = Pulled THEN AfterPull(Pulled, Pull(n))
                         ELSE mail[q]]
           /\ UNCHANGED <<holds, base>>
  BY DEF Read, Taken, Rest, Asleep, Pulled, Pull, Finished, Starved

LEMMA ReadValues ==
    ASSUME IInv, Use, NEW p \in Procs, NEW n \in 1..MaxLen, Read(p, n)
    PROVE  /\ st[p] = "run" /\ holds[p] = {"r"} /\ p \notin Asleep
           /\ \A q \in Procs : st[q] = "read" => FALSE
           /\ Taken(n) \in Nat /\ Taken(n) <= n /\ Taken(n) <= Len(ring)
           /\ Taken(n) = 0 => ring = <<>> /\ Asleep = {}
           /\ Rest(n) \in Seq(Byte) /\ Len(Rest(n)) = Len(ring) - Taken(n)
           /\ SubSeq(ring, 1, Taken(n)) \in Seq(Byte)
           /\ Taken(n) = 0 => SubSeq(ring, 1, Taken(n)) = <<>> /\ Rest(n) = <<>>
           /\ Pull(n) \in Nat
           /\ Asleep = {} => Pull(n) = 0
           /\ Asleep # {} => /\ Pulled \in Procs /\ st[Pulled] = "write" /\ Pulled \in Asleep
                             /\ Pulled # p
                             /\ Pull(n) >= 1 /\ Pull(n) <= mail[Pulled].a2
                             /\ Pull(n) <= PIPESIZE - Len(Rest(n))
                             /\ writeopen
  <1>1. ring \in Seq(Byte) /\ Len(ring) \in Nat /\ Len(ring) <= PIPESIZE
    BY DEF IInv, Types
  <1>2. n \in Nat /\ n >= 1
    BY Params
  <1>3. Taken(n) \in Nat /\ Taken(n) <= n /\ Taken(n) <= Len(ring)
        /\ (Taken(n) = n \/ Taken(n) = Len(ring))
    BY <1>1, <1>2, Lesser DEF Taken
  <1>4. Taken(n) = 0 => ring = <<>>
    BY <1>1, <1>2, <1>3
  <1>5. PICK k \in Nat : k = Taken(n) /\ k <= Len(ring)
    BY <1>3
  <1>6. Rest(n) \in Seq(Byte) /\ Len(Rest(n)) = Len(ring) - k /\ (k = 0 => Rest(n) = ring)
    BY <1>1, <1>5 DEF Rest
  <1>7. SubSeq(ring, 1, k) \in Seq(Byte) /\ (k = 0 => SubSeq(ring, 1, k) = <<>>)
    BY <1>1, <1>5
  <1>8. st[p] = "run" /\ holds[p] = {"r"} /\ p \notin Asleep
        /\ \A q \in Procs \ {p} : "r" \in holds[q] => "w" \in holds[q]
    BY DEF Read, MayUse, Use, Asleep, Sleepers
  <1>9. ASSUME NEW q \in Procs, st[q] = "read" PROVE FALSE
    <2>1. holds[q] = {"r"} /\ q # p
      BY <1>8, <1>9 DEF IInv, Readers
    <2> QED BY <1>8, <2>1
  <1>10. Asleep # {} => ring # <<>>
    BY DEF IInv, SleeperHasPeer, Asleep
  <1>11. ASSUME Asleep # {}
         PROVE  /\ Pulled \in Procs /\ st[Pulled] = "write" /\ Pulled \in Asleep /\ Pulled # p
                /\ Pull(n) \in Nat /\ Pull(n) >= 1 /\ Pull(n) <= mail[Pulled].a2
                /\ Pull(n) <= PIPESIZE - Len(Rest(n))
                /\ writeopen
    <2>1. Pulled \in Asleep
      BY <1>11, LeastIs DEF Pulled, Asleep, Sleepers
    <2>2. Pulled \in Procs /\ st[Pulled] = "write" /\ Pulled # p
      BY <1>8, <2>1 DEF Asleep, Sleepers
    <2>3. writeopen
      BY <2>2 DEF IInv, Writers, writeopen, Open
    <2>4. mail[Pulled].a2 \in Nat /\ mail[Pulled].a2 >= 1
      BY <2>2, MailIs, Params DEF IInv, Types, Writers
    <2>5. k > 0
      BY <1>4, <1>5, <1>10, <1>11
    <2>6. Len(Rest(n)) \in Nat /\ Len(Rest(n)) < PIPESIZE
      BY <1>1, <1>5, <1>6, <2>5, Params
    <2>7. PICK room \in Nat : room = PIPESIZE - Len(Rest(n)) /\ room >= 1
      BY <2>6, Params
    <2>8. Pull(n) = LesserOf(mail[Pulled].a2, room)
      BY <1>11, <2>7 DEF Fed, Pull
    <2> QED BY <2>1, <2>2, <2>3, <2>4, <2>7, <2>8, Lesser
  <1>12. Asleep = {} => Pull(n) = 0
    BY DEF Pull
  <1> QED BY <1>3, <1>4, <1>5, <1>6, <1>7, <1>8, <1>9, <1>10, <1>11, <1>12

LEMMA ReadKeeps ==
    ASSUME IInv, Use, NEW p \in Procs, NEW n \in 1..MaxLen, Read(p, n)
    PROVE  IInv'
  <1> DEFINE w == Pulled
             fed == Pull(n)
  <1>1. Types /\ Gone /\ Writers /\ Readers /\ NoMutualSleep /\ SleeperHasPeer
    BY DEF IInv
  <1>2. /\ st[p] = "run" /\ holds[p] = {"r"} /\ p \notin Asleep
        /\ \A q \in Procs : st[q] # "read"
        /\ Taken(n) \in Nat /\ Taken(n) <= n /\ Taken(n) <= Len(ring)
        /\ Taken(n) = 0 => ring = <<>> /\ Asleep = {}
        /\ Rest(n) \in Seq(Byte) /\ Len(Rest(n)) = Len(ring) - Taken(n)
        /\ SubSeq(ring, 1, Taken(n)) \in Seq(Byte)
        /\ Taken(n) = 0 => SubSeq(ring, 1, Taken(n)) = <<>> /\ Rest(n) = <<>>
        /\ fed \in Nat
        /\ Asleep = {} => fed = 0
        /\ Asleep # {} => /\ w \in Procs /\ st[w] = "write" /\ w \in Asleep /\ w # p
                          /\ fed >= 1 /\ fed <= mail[w].a2 /\ fed <= PIPESIZE - Len(Rest(n))
                          /\ writeopen
    BY ReadValues
  <1>3. /\ HandOut(SubSeq(ring, 1, Taken(n)))
        /\ ring' = IF Asleep = {} THEN Rest(n) ELSE Rest(n) \o Bytes(w, mail[w].a1, fed)
        /\ sent' = [q \in Procs |-> IF q \in Asleep /\ q = w THEN sent[q] + fed ELSE sent[q]]
        /\ st' = [q \in Procs |-> IF q = p /\ Starved(n) THEN "read"
                                  ELSE IF Finished(n) /\ q = w THEN "run" ELSE st[q]]
        /\ res' = [q \in Procs |->
                     IF q = p THEN <<"read", IF Starved(n) THEN -3 ELSE Taken(n)>>
                     ELSE IF Finished(n) /\ q = w THEN <<"write", mail[w].done + fed>>
                     ELSE res[q]]
        /\ mail' = [q \in Procs |->
                      IF q = p /\ Starved(n) THEN [NoMail EXCEPT !.a2 = n]
                      ELSE IF Finished(n) /\ q = w THEN NoMail
                      ELSE IF q \in Asleep /\ q = w THEN AfterPull(w, fed)
                      ELSE mail[q]]
        /\ UNCHANGED <<holds, base>>
    BY ReadDoes
  <1>4. /\ Finished(n) <=> Asleep # {} /\ fed = mail[w].a2
        /\ Starved(n) <=> Taken(n) = 0 /\ writeopen
    BY DEF Finished, Starved
  <1>5. \A q \in Procs : q \in Asleep <=> st[q] = "write"
    BY DEF Asleep, Sleepers
  <1> HIDE DEF w, fed
  <1>6. ASSUME Asleep # {}
        PROVE  /\ mail[w] \in Mail /\ mail[w].a1 = sent[w] /\ mail[w].a1 \in Nat
               /\ mail[w].a2 \in Nat /\ mail[w].a2 <= MaxLen /\ mail[w].done \in Nat
               /\ mail[w].a1 + fed <= MaxBytes /\ mail[w].done + fed <= MaxBytes + 1
               /\ mail[w].a1 + mail[w].a2 <= MaxBytes
               /\ mail[w].done + mail[w].a2 <= MaxBytes + 1
               /\ holds[w] = {"w"}
               /\ Bytes(w, mail[w].a1, fed) \in Seq(Byte)
               /\ Len(Bytes(w, mail[w].a1, fed)) = fed
    <2>1. mail[w] \in Mail
      BY <1>1, <1>2, <1>6 DEF Types
    <2>2. mail[w].a1 \in Nat /\ mail[w].a2 \in Nat /\ mail[w].a2 <= MaxLen /\ mail[w].done \in Nat
      BY <2>1, MailIs, Params
    <2>3. /\ mail[w].a1 = sent[w] /\ mail[w].a1 + mail[w].a2 <= MaxBytes
          /\ mail[w].done + mail[w].a2 <= MaxBytes + 1 /\ holds[w] = {"w"}
      BY <1>1, <1>2, <1>6 DEF Writers
    <2>4. fed \in Nat /\ fed <= mail[w].a2 /\ w \in Procs
      BY <1>2, <1>6
    <2>5. mail[w].a1 + fed <= MaxBytes /\ mail[w].done + fed <= MaxBytes + 1
      BY <2>2, <2>3, <2>4, Params
    <2>6. Bytes(w, mail[w].a1, fed) \in Seq(Byte) /\ Len(Bytes(w, mail[w].a1, fed)) = fed
      BY <2>2, <2>4, <2>5, BytesAre
    <2> QED BY <2>1, <2>2, <2>3, <2>5, <2>6
  <1>7. ASSUME Asleep # {}
        PROVE  AfterPull(w, fed) \in Mail
    <2>1. fed \in Nat /\ fed <= mail[w].a2
      BY <1>2, <1>7
    <2>2. /\ mail[w].a1 \in Nat /\ mail[w].a2 \in Nat /\ mail[w].a2 <= MaxLen
          /\ mail[w].done \in Nat
          /\ mail[w].a1 + fed <= MaxBytes /\ mail[w].done + fed <= MaxBytes + 1
      BY <1>6, <1>7
    <2> QED BY <2>1, <2>2, Params DEF AfterPull, Mail
  <1>8. ring' \in Seq(Byte) /\ Len(ring') <= PIPESIZE /\ Len(ring') = Len(Rest(n)) + fed
    <2>1. Len(ring) \in Nat /\ Len(ring) <= PIPESIZE /\ Len(Rest(n)) \in Nat
      BY <1>1, <1>2 DEF Types
    <2>2. CASE Asleep = {}
      BY <1>2, <1>3, <2>1, <2>2, Params
    <2>3. CASE Asleep # {}
      <3>1. ring' = Rest(n) \o Bytes(w, mail[w].a1, fed)
        BY <1>3, <2>3
      <3>2. /\ Bytes(w, mail[w].a1, fed) \in Seq(Byte) /\ Len(Bytes(w, mail[w].a1, fed)) = fed
            /\ Rest(n) \in Seq(Byte) /\ fed \in Nat /\ fed <= PIPESIZE - Len(Rest(n))
        BY <1>2, <1>6, <2>3
      <3>3. ring' \in Seq(Byte) /\ Len(ring') = Len(Rest(n)) + fed
        BY <3>1, <3>2, Joined
      <3> QED BY <2>1, <3>2, <3>3, Params
    <2> QED BY <2>2, <2>3
  <1>9. Types'
    <2>1. holds' \in [Procs -> SUBSET Ends] /\ base' \in [Procs -> 0..MaxBytes]
      BY <1>1, <1>3 DEF Types
    <2>2. st' \in [Procs -> {"unborn", "run", "read", "write", "dead"}]
      BY <1>1, <1>3 DEF Types
    <2>3. mail' \in [Procs -> Mail]
      <3>1. [NoMail EXCEPT !.a2 = n] \in Mail /\ NoMail \in Mail
        BY NoMailIs, Params
      <3> QED BY <1>1, <1>3, <1>7, <3>1 DEF Types
    <2>4. res' \in [Procs -> Result]
      <3>1. Len(ring) <= PIPESIZE
        BY <1>1 DEF Types
      <3>2. <<"read", IF Starved(n) THEN -3 ELSE Taken(n)>> \in Result
        <4>1. PICK k \in -3..(MaxBytes + MaxLen + 1) : k = IF Starved(n) THEN -3 ELSE Taken(n)
          BY <1>2, Params
        <4> QED BY <4>1 DEF Result
      <3>3. ASSUME Finished(n) PROVE <<"write", mail[w].done + fed>> \in Result
        <4>1. mail[w].done \in Nat /\ fed \in Nat /\ mail[w].done + fed <= MaxBytes + 1
          BY <1>2, <1>4, <1>6, <3>3
        <4>2. PICK k \in -3..(MaxBytes + MaxLen + 1) : k = mail[w].done + fed
          BY <4>1, Params
        <4> QED BY <4>2 DEF Result
      <3> QED BY <1>1, <1>3, <3>2, <3>3 DEF Types
    <2>5. sent' \in [Procs -> 0..MaxBytes]
      <3>1. \A q \in Procs : q \in Asleep /\ q = w => sent[q] + fed \in 0..MaxBytes
        <4> SUFFICES ASSUME w \in Procs, w \in Asleep PROVE sent[w] + fed \in 0..MaxBytes
          OBVIOUS
        <4>1. sent[w] = mail[w].a1 /\ mail[w].a1 \in Nat /\ fed \in Nat /\ mail[w].a1 + fed <= MaxBytes
          BY <1>2, <1>6
        <4> QED BY <4>1, Params
      <3> QED BY <1>1, <1>3, <3>1 DEF Types
    <2>6. got' \in [Procs -> Seq(1..MaxBytes)]
      BY <1>1, <1>2, <1>3, Handed
    <2> QED BY <1>8, <2>1, <2>2, <2>3, <2>4, <2>5, <2>6 DEF Types
  <1>10. Gone'
    BY <1>1, <1>2, <1>3, <1>4 DEF Gone, Types
  <1>11. Writers'
    <2> SUFFICES ASSUME NEW q \in Procs, st'[q] = "write"
                 PROVE  /\ holds[q] = {"w"} /\ mail'[q].a1 = sent'[q]
                        /\ mail'[q].a2 >= 1 /\ mail'[q].a1 + mail'[q].a2 <= MaxBytes
                        /\ mail'[q].done + mail'[q].a2 <= MaxBytes + 1
      BY <1>3 DEF Writers
    <2>1. st[q] = "write" /\ q \in Asleep /\ q # p
      BY <1>2, <1>3, <1>5
    <2>2. CASE q = w
      <3>1. ~Finished(n)
        BY <1>2, <1>3, <2>1, <2>2
      <3>2. mail'[q] = AfterPull(w, fed) /\ sent'[q] = sent[w] + fed /\ fed # mail[w].a2
        BY <1>3, <1>4, <2>1, <2>2, <3>1
      <3>3. /\ mail'[q].a1 = mail[w].a1 + fed /\ mail'[q].a2 = mail[w].a2 - fed
            /\ mail'[q].done = mail[w].done + fed
        BY <3>2 DEF AfterPull
      <3>4. /\ fed \in Nat /\ fed <= mail[w].a2 /\ mail[w].a1 = sent[w] /\ mail[w].a1 \in Nat
            /\ mail[w].a2 \in Nat /\ mail[w].done \in Nat /\ holds[w] = {"w"}
            /\ mail[w].a1 + mail[w].a2 <= MaxBytes /\ mail[w].done + mail[w].a2 <= MaxBytes + 1
        BY <1>2, <1>6, <2>1
      <3> QED BY <2>2, <3>2, <3>3, <3>4, Params
    <2>3. CASE q # w
      <3>1. mail'[q] = mail[q] /\ sent'[q] = sent[q]
        BY <1>3, <2>1, <2>3
      <3> QED BY <1>1, <2>1, <3>1 DEF Writers
    <2> QED BY <2>2, <2>3
  <1>12. Readers'
    <2> SUFFICES ASSUME NEW q \in Procs, st'[q] = "read"
                 PROVE  /\ holds[q] = {"r"} /\ mail'[q].a2 >= 1
                        /\ \A r \in Procs : st'[r] = "read" => r = q
      BY <1>3 DEF Readers
    <2>1. q = p /\ Starved(n) /\ \A r \in Procs : st'[r] = "read" => r = p
      BY <1>2, <1>3
    <2>2. mail'[q] = [NoMail EXCEPT !.a2 = n]
      BY <1>3, <2>1
    <2>3. mail'[q].a2 = n
      BY <2>2 DEF NoMail
    <2> QED BY <1>2, <2>1, <2>3, Params
  <1>13. NoMutualSleep' /\ SleeperHasPeer'
    <2>1. writeopen' = writeopen /\ readopen' = readopen
      BY <1>3 DEF writeopen, readopen, Open
    <2>2. CASE Starved(n)
      <3>1. Asleep = {} /\ ring' = <<>> /\ writeopen
        BY <1>2, <1>3, <1>4, <2>2
      <3>2. \A q \in Procs : st'[q] # "write"
        BY <1>3, <1>5, <3>1
      <3> QED BY <2>1, <3>1, <3>2 DEF NoMutualSleep, SleeperHasPeer, Sleepers
    <2>3. CASE ~Starved(n)
      <3>1. \A q \in Procs : st'[q] # "read"
        BY <1>2, <1>3, <2>3
      <3>2. ASSUME NEW q \in Procs, st'[q] = "write" PROVE readopen /\ ring' # <<>>
        <4>1. Asleep # {}
          BY <1>3, <1>5, <3>2
        <4>2. readopen
          BY <1>1, <4>1 DEF SleeperHasPeer, Asleep
        <4>3. Len(ring') # 0
          BY <1>1, <1>2, <1>8, <4>1 DEF Types
        <4> QED BY <4>2, <4>3
      <3> QED BY <2>1, <3>1, <3>2 DEF NoMutualSleep, SleeperHasPeer, Sleepers
    <2> QED BY <2>2, <2>3
  <1> QED BY <1>9, <1>10, <1>11, <1>12, <1>13 DEF IInv

-----------------------------------------------------------------------------
(* The values a write works with: the reader it serves, what it deposits there
   and what it stores. *)
Served == Least(BlockedReaders)
Deposit(n) == IF BlockedReaders = {} THEN 0 ELSE LesserOf(mail[Served].a2, n)
Stored(n) == LesserOf(n - Deposit(n), PIPESIZE - Len(ring))
Moved(n) == Deposit(n) + Stored(n)

LEMMA WriteDoes ==
    ASSUME NEW p, NEW n, Write(p, n)
    PROVE  /\ HandOut(Bytes(p, sent[p], Deposit(n)))
           /\ ring' = ring \o Bytes(p, sent[p] + Deposit(n), Stored(n))
           /\ sent' = [sent EXCEPT ![p] = @ + Moved(n)]
           /\ base' = [base EXCEPT ![p] = sent[p]]
           /\ st' = [q \in Procs |-> IF q = p /\ Moved(n) < n THEN "write"
                                     ELSE IF q \in BlockedReaders /\ q = Served THEN "run"
                                     ELSE st[q]]
           /\ res' = [q \in Procs |->
                        IF q = p THEN <<"write", IF Moved(n) < n THEN -3 ELSE n>>
                        ELSE IF q \in BlockedReaders /\ q = Served THEN <<"read", Deposit(n)>>
                        ELSE res[q]]
           /\ mail' = [q \in Procs |->
                         IF q = p /\ Moved(n) < n
                         THEN [a1 |-> sent[p] + Moved(n), a2 |-> n - Moved(n), done |-> 1]
                         ELSE IF q \in BlockedReaders /\ q = Served THEN NoMail ELSE mail[q]]
           /\ UNCHANGED holds
           /\ st[p] = "run" /\ "w" \in holds[p] /\ readopen /\ sent[p] + n <= MaxBytes
           /\ Pipeline => holds[p] = {"w"}
  BY DEF Write, MayUse, Served, Deposit, Stored, Moved, DoneWhileAsleep

LEMMA WriteValues ==
    ASSUME IInv, Use, NEW p \in Procs, NEW n \in MinLen..MaxLen, Write(p, n)
    PROVE  /\ n \in Nat /\ n >= 1 /\ n <= MaxLen /\ sent[p] \in Nat
           /\ Deposit(n) \in Nat /\ Stored(n) \in Nat /\ Moved(n) <= n
           /\ Moved(n) = Deposit(n) + Stored(n)
           /\ Stored(n) <= PIPESIZE - Len(ring)
           /\ Moved(n) < n => Stored(n) = PIPESIZE - Len(ring)
           /\ Deposit(n) > 0 => ring = <<>> /\ BlockedReaders # {}
           /\ BlockedReaders # {} => /\ Served \in Procs /\ Served \in BlockedReaders
                                     /\ Served # p /\ Deposit(n) >= 1
                                     /\ \A q \in Procs : st[q] = "read" => q = Served
                                     /\ ring = <<>>
  <1>1. n \in Nat /\ n >= 1 /\ n <= MaxLen
    BY Params DEF Use
  <1>2. sent[p] \in Nat /\ Len(ring) \in Nat /\ Len(ring) <= PIPESIZE
    BY Params DEF IInv, Types
  <1>3. ASSUME BlockedReaders # {}
        PROVE  /\ Served \in Procs /\ Served \in BlockedReaders /\ Served # p
               /\ Deposit(n) \in Nat /\ Deposit(n) <= n /\ Deposit(n) >= 1
               /\ \A q \in Procs : st[q] = "read" => q = Served
               /\ ring = <<>>
    <2>1. Served \in BlockedReaders
      BY <1>3, LeastIs DEF Served, BlockedReaders, Sleepers
    <2>2. Served \in Procs /\ st[Served] = "read"
      BY <2>1 DEF BlockedReaders, Sleepers
    <2>3. Served # p
      BY <2>2, WriteDoes
    <2>4. mail[Served].a2 \in Nat /\ mail[Served].a2 >= 1
      BY <2>2, MailIs, Params DEF IInv, Types, Readers
    <2>5. Deposit(n) \in Nat /\ Deposit(n) <= n /\ Deposit(n) >= 1
      BY <1>1, <1>3, <2>4, Lesser DEF Deposit
    <2>6. ring = <<>> /\ \A q \in Procs : st[q] = "read" => q = Served
      BY <1>3, <2>2 DEF IInv, NoMutualSleep, Readers, BlockedReaders
    <2> QED BY <2>1, <2>2, <2>3, <2>5, <2>6
  <1>4. BlockedReaders = {} => Deposit(n) = 0
    BY DEF Deposit
  <1>5. Deposit(n) \in Nat /\ Deposit(n) <= n
    BY <1>1, <1>3, <1>4
  <1>6. PICK a \in Nat, b \in Nat : a = n - Deposit(n) /\ b = PIPESIZE - Len(ring)
    <2>1. n - Deposit(n) \in Nat
      BY <1>1, <1>5
    <2>2. PIPESIZE - Len(ring) \in Nat
      BY <1>2, Params
    <2> QED BY <2>1, <2>2
  <1>7. Stored(n) = LesserOf(a, b)
    BY <1>6 DEF Stored
  <1>8. Stored(n) \in Nat /\ Stored(n) <= a /\ Stored(n) <= b /\ (Stored(n) = a \/ Stored(n) = b)
    BY <1>7, Lesser
  <1>9. Moved(n) = Deposit(n) + Stored(n)
    BY DEF Moved
  <1>10. Moved(n) <= n /\ (Moved(n) < n => Stored(n) = b)
    BY <1>1, <1>5, <1>6, <1>8, <1>9
  <1> QED BY <1>1, <1>2, <1>3, <1>4, <1>5, <1>6, <1>8, <1>9, <1>10

LEMMA WriteKeeps ==
    ASSUME IInv, Use, NEW p \in Procs, NEW n \in MinLen..MaxLen, Write(p, n)
    PROVE  IInv'
  <1> DEFINE r == Served
             rs == BlockedReaders
             d == Deposit(n)
             f == Stored(n)
             m == Moved(n)
             blocks == m < n
  <1>1. Types /\ Gone /\ Writers /\ Readers /\ NoMutualSleep /\ SleeperHasPeer
    BY DEF IInv
  <1>2. /\ HandOut(Bytes(p, sent[p], d))
        /\ ring' = ring \o Bytes(p, sent[p] + d, f)
        /\ sent' = [sent EXCEPT ![p] = @ + m]
        /\ base' = [base EXCEPT ![p] = sent[p]]
        /\ st' = [q \in Procs |-> IF q = p /\ blocks THEN "write"
                                  ELSE IF q \in rs /\ q = r THEN "run" ELSE st[q]]
        /\ res' = [q \in Procs |->
                     IF q = p THEN <<"write", IF blocks THEN -3 ELSE n>>
                     ELSE IF q \in rs /\ q = r THEN <<"read", d>> ELSE res[q]]
        /\ mail' = [q \in Procs |->
                      IF q = p /\ blocks
                      THEN [a1 |-> sent[p] + m, a2 |-> n - m, done |-> 1]
                      ELSE IF q \in rs /\ q = r THEN NoMail ELSE mail[q]]
        /\ UNCHANGED holds
        /\ st[p] = "run" /\ readopen /\ sent[p] + n <= MaxBytes /\ holds[p] = {"w"}
    BY WriteDoes DEF Use
  <1>3. /\ n \in Nat /\ n >= 1 /\ n <= MaxLen /\ sent[p] \in Nat
        /\ d \in Nat /\ f \in Nat /\ m \in Nat /\ m <= n /\ m = d + f
        /\ f <= PIPESIZE - Len(ring)
        /\ blocks => f = PIPESIZE - Len(ring)
    BY WriteValues
  <1>4. rs # {} => /\ r \in Procs /\ r \in rs /\ r # p /\ ring = <<>>
                   /\ \A q \in Procs : st[q] = "read" => q = r
    BY WriteValues
  <1>5. \A q \in Procs : q \in rs <=> st[q] = "read"
    BY DEF BlockedReaders, Sleepers
  <1> HIDE DEF r, rs, d, f, m
  <1>6. Bytes(p, sent[p], d) \in Seq(Byte)
    BY <1>2, <1>3, BytesAre, Params
  <1>7. /\ Bytes(p, sent[p] + d, f) \in Seq(Byte)
        /\ Len(Bytes(p, sent[p] + d, f)) = f
    <2>1. PICK a \in Nat : a = sent[p] + d /\ a + f <= MaxBytes
      BY <1>2, <1>3, Params
    <2> QED BY <1>3, <2>1, BytesAre
  <1>8. ring \in Seq(Byte) /\ Len(ring) \in Nat /\ Len(ring) <= PIPESIZE
    BY <1>1 DEF Types
  <1>9. ring' \in Seq(Byte) /\ Len(ring') = Len(ring) + f
    BY <1>2, <1>7, <1>8, Joined
  <1>10. Types'
    <2>1. st' \in [Procs -> {"unborn", "run", "read", "write", "dead"}]
      BY <1>1, <1>2 DEF Types
    <2>2. mail' \in [Procs -> Mail]
      <3>1. blocks => [a1 |-> sent[p] + m, a2 |-> n - m, done |-> 1] \in Mail
        BY <1>2, <1>3, Params DEF Mail
      <3> QED BY <1>1, <1>2, <3>1, NoMailIs DEF Types
    <2>3. res' \in [Procs -> Result]
      <3>1. PICK k \in -3..(MaxBytes + MaxLen + 1) : k = IF blocks THEN -3 ELSE n
        BY <1>3, Params
      <3>2. d \in -3..(MaxBytes + MaxLen + 1)
        BY <1>3, Params
      <3> QED BY <1>1, <1>2, <3>1, <3>2 DEF Types, Result
    <2>4. sent' \in [Procs -> 0..MaxBytes] /\ base' \in [Procs -> 0..MaxBytes]
      <3>1. sent[p] + m \in 0..MaxBytes /\ sent[p] \in 0..MaxBytes
        BY <1>2, <1>3, Params
      <3> QED BY <1>1, <1>2, <3>1 DEF Types
    <2>5. got' \in [Procs -> Seq(1..MaxBytes)]
      BY <1>1, <1>2, <1>6, Handed
    <2>6. Len(ring') <= PIPESIZE
      BY <1>3, <1>8, <1>9, Params
    <2> QED BY <1>1, <1>2, <1>9, <2>1, <2>2, <2>3, <2>4, <2>5, <2>6 DEF Types
  <1>11. Gone'
    BY <1>1, <1>2 DEF Gone, Types
  <1>12. Writers'
    <2> SUFFICES ASSUME NEW q \in Procs, st'[q] = "write"
                 PROVE  /\ holds[q] = {"w"} /\ mail'[q].a1 = sent'[q]
                        /\ mail'[q].a2 >= 1 /\ mail'[q].a1 + mail'[q].a2 <= MaxBytes
                        /\ mail'[q].done + mail'[q].a2 <= MaxBytes + 1
      BY <1>2 DEF Writers
    <2>1. CASE q = p
      <3>1. blocks /\ mail'[q] = [a1 |-> sent[p] + m, a2 |-> n - m, done |-> 1]
        BY <1>2, <2>1
      <3>2. mail'[q].a1 = sent[p] + m /\ mail'[q].a2 = n - m /\ mail'[q].done = 1
        BY <3>1
      <3>3. sent'[q] = sent[p] + m
        BY <1>1, <1>2, <2>1 DEF Types
      <3>4. n \in Nat /\ m \in Nat /\ m < n /\ sent[p] \in Nat /\ sent[p] + n <= MaxBytes
            /\ holds[p] = {"w"}
        BY <1>2, <1>3, <3>1
      <3> QED BY <2>1, <3>2, <3>3, <3>4, Params
    <2>2. CASE q # p
      <3>1. st[q] = "write" /\ q \notin rs
        BY <1>2, <1>5, <2>2
      <3>2. mail'[q] = mail[q] /\ sent'[q] = sent[q]
        BY <1>1, <1>2, <2>2, <3>1 DEF Types
      <3> QED BY <1>1, <3>1, <3>2 DEF Writers
    <2> QED BY <2>1, <2>2
  <1>13. \A q \in Procs : st'[q] # "read"
    BY <1>2, <1>4, <1>5
  <1>14. NoMutualSleep' /\ SleeperHasPeer' /\ Readers'
    <2>1. writeopen' = writeopen /\ readopen' = readopen
      BY <1>2 DEF writeopen, readopen, Open
    <2>2. ASSUME NEW q \in Procs, st'[q] = "write" PROVE ring' # <<>>
      <3>1. CASE q = p
        <4>1. Len(ring') # 0
          BY <1>2, <1>3, <1>8, <1>9, <2>2, <3>1, Params
        <4> QED BY <4>1
      <3>2. CASE q # p
        <4>1. st[q] = "write"
          BY <1>2, <2>2, <3>2
        <4>2. ring # <<>>
          BY <1>1, <4>1 DEF SleeperHasPeer, Sleepers
        <4>3. Len(ring') # 0
          BY <1>3, <1>8, <1>9, <4>2
        <4> QED BY <4>3
      <3> QED BY <3>1, <3>2
    <2> QED BY <1>2, <1>13, <2>1, <2>2 DEF NoMutualSleep, SleeperHasPeer, Sleepers, Readers
  <1> QED BY <1>10, <1>11, <1>12, <1>14 DEF IInv

-----------------------------------------------------------------------------
LEMMA WriteRefusedKeeps ==
    ASSUME IInv, NEW p \in Procs, WriteRefused(p)
    PROVE  IInv'
  <1> USE DEF WriteRefused
  <1>1. <<"write", -1>> \in Result
    BY Params DEF Result
  <1>2. Types'
    BY <1>1 DEF IInv, Types
  <1>3. Gone' /\ Writers' /\ Readers'
    BY DEF IInv, Gone, Writers, Readers
  <1>4. NoMutualSleep' /\ SleeperHasPeer'
    BY DEF IInv, NoMutualSleep, SleeperHasPeer, Sleepers, writeopen, readopen, Open
  <1> QED BY <1>2, <1>3, <1>4 DEF IInv

(* The last close of an end completes the sleepers of the other. *)
LEMMA CloseKeeps ==
    ASSUME IInv, NEW p \in Procs, NEW E \in SUBSET Ends, NEW gone, CloseEnds(p, E, gone),
           \/ gone = {} /\ st[p] = "run"
           \/ gone = {p} /\ E = Ends
    PROVE  IInv'
  <1> DEFINE h == [holds EXCEPT ![p] = @ \ E]
             over == Completed(h) \ gone
  <1>1. Types /\ Gone /\ Writers /\ Readers /\ NoMutualSleep /\ SleeperHasPeer
    BY DEF IInv
  <1>2. /\ holds' = h
        /\ st' = [q \in Procs |-> IF q \in gone THEN "dead"
                                  ELSE IF q \in over THEN "run" ELSE st[q]]
        /\ mail' = [q \in Procs |-> IF q \in over \cup gone THEN NoMail ELSE mail[q]]
        /\ res' = [q \in Procs |->
                     IF q \in gone THEN <<"none", 0>>
                     ELSE IF q \notin over THEN res[q]
                     ELSE IF st[q] = "read" THEN <<"read", 0>>
                     ELSE <<"write", mail[q].done>>]
        /\ UNCHANGED <<ring, sent, base, got>>
    BY DEF CloseEnds
  <1>3. \A q \in Procs : q \in over =>
           \/ st[q] = "read" /\ ~Open(h, "w")
           \/ st[q] = "write" /\ ~Open(h, "r")
    BY DEF Completed
  <1>4. \A q \in Procs : q \notin over /\ q \notin gone =>
           /\ st[q] = "read" => Open(h, "w")
           /\ st[q] = "write" => Open(h, "r")
    BY DEF Completed
  <1>5. h \in [Procs -> SUBSET Ends] /\ \A q \in Procs \ {p} : h[q] = holds[q]
    BY <1>1 DEF Types
  <1>6. p \in gone => h[p] = {}
    BY <1>1 DEF Types
  <1> HIDE DEF h, over
  <1>7. Types'
    <2>1. st' \in [Procs -> {"unborn", "run", "read", "write", "dead"}]
      BY <1>1, <1>2 DEF Types
    <2>2. mail' \in [Procs -> Mail]
      BY <1>1, <1>2, NoMailIs DEF Types
    <2>3. res' \in [Procs -> Result]
      <3>1. <<"none", 0>> \in Result /\ <<"read", 0>> \in Result
        BY Params DEF Result
      <3>2. \A q \in Procs : <<"write", mail[q].done>> \in Result
        <4> SUFFICES ASSUME NEW q \in Procs PROVE <<"write", mail[q].done>> \in Result
          OBVIOUS
        <4>1. mail[q].done \in 0..(MaxBytes + 1)
          BY <1>1, MailIs DEF Types
        <4>2. PICK k \in -3..(MaxBytes + MaxLen + 1) : k = mail[q].done
          BY <4>1, Params
        <4> QED BY <4>2 DEF Result
      <3> QED BY <1>1, <1>2, <3>1, <3>2 DEF Types
    <2> QED BY <1>1, <1>2, <1>5, <2>1, <2>2, <2>3 DEF Types
  <1>8. \A q \in Procs : st'[q] \in {"read", "write"} =>
           q \notin over /\ q \notin gone /\ st'[q] = st[q] /\ mail'[q] = mail[q]
    BY <1>2
  <1>9. \A q \in Procs : st'[q] \in {"read", "write"} => holds'[q] = holds[q]
    BY <1>2, <1>5, <1>8
  <1>10. Gone'
    BY <1>1, <1>2, <1>3, <1>5, <1>6 DEF Gone
  <1>11. Writers' /\ Readers'
    BY <1>1, <1>2, <1>8, <1>9 DEF Writers, Readers
  <1>12. NoMutualSleep' /\ SleeperHasPeer'
    <2>1. writeopen' = Open(h, "w") /\ readopen' = Open(h, "r")
      BY <1>2 DEF writeopen, readopen, Open
    <2> QED BY <1>1, <1>2, <1>4, <1>8, <2>1 DEF NoMutualSleep, SleeperHasPeer, Sleepers
  <1> QED BY <1>7, <1>10, <1>11, <1>12 DEF IInv

LEMMA InterruptKeeps ==
    ASSUME IInv, NEW p \in Procs, Interrupt(p)
    PROVE  IInv'
  <1> USE DEF Interrupt
  <1>1. Types /\ Gone /\ Writers /\ Readers /\ NoMutualSleep /\ SleeperHasPeer
    BY DEF IInv
  <1>2. Types'
    <2>1. <<st[p], -1>> \in Result
      BY Params DEF Result
    <2> QED BY <1>1, <2>1, NoMailIs DEF Types
  <1>3. \A q \in Procs : st'[q] \in {"read", "write", "unborn", "dead"} =>
           st'[q] = st[q] /\ mail'[q] = mail[q]
    BY <1>1 DEF Types
  <1>4. Gone' /\ Writers' /\ Readers'
    BY <1>1, <1>3 DEF Gone, Writers, Readers
  <1>5. NoMutualSleep' /\ SleeperHasPeer'
    BY <1>1, <1>3 DEF NoMutualSleep, SleeperHasPeer, Sleepers, writeopen, readopen, Open
  <1> QED BY <1>2, <1>4, <1>5 DEF IInv

LEMMA ForkKeeps ==
    ASSUME IInv, NEW p \in Procs, Fork(p)
    PROVE  IInv'
  <1> DEFINE free == {q \in Procs : st[q] = "unborn"}
             c == Least(free)
  <1>1. Types /\ Gone /\ Writers /\ Readers /\ NoMutualSleep /\ SleeperHasPeer
    BY DEF IInv
  <1>2. /\ st[p] = "run" /\ free # {}
        /\ holds' = [holds EXCEPT ![c] = holds[p]]
        /\ st' = [st EXCEPT ![c] = "run"]
        /\ UNCHANGED <<mail, res, ring, sent, base, got>>
    BY DEF Fork
  <1>3. c \in free
    BY <1>2, LeastIs
  <1>4. c \in Procs /\ st[c] = "unborn" /\ holds[c] = {}
    BY <1>1, <1>3 DEF Gone
  <1> HIDE DEF c, free
  <1>5. Types'
    BY <1>1, <1>2, <1>4 DEF Types
  <1>6. st'[c] = "run" /\ \A q \in Procs \ {c} : st'[q] = st[q] /\ holds'[q] = holds[q]
    BY <1>1, <1>2, <1>4 DEF Types
  <1>7. Gone' /\ Writers' /\ Readers'
    BY <1>1, <1>2, <1>6 DEF Gone, Writers, Readers
  <1>8. (writeopen => writeopen') /\ (readopen => readopen')
    BY <1>4, <1>6 DEF writeopen, readopen, Open
  <1>9. NoMutualSleep' /\ SleeperHasPeer'
    BY <1>1, <1>2, <1>6, <1>8 DEF NoMutualSleep, SleeperHasPeer, Sleepers
  <1> QED BY <1>5, <1>7, <1>9 DEF IInv

LEMMA PipeKeeps ==
    ASSUME IInv, NEW p \in Procs, Pipe(p)
    PROVE  IInv'
  <1> USE DEF Pipe
  <1>1. Types /\ \A q \in Procs : holds[q] = {}
    BY DEF IInv, Types, writeopen, readopen, Open, Ends
  <1>2. Types'
    <2>1. <<"none", 0>> \in Result /\ 0 \in 0..MaxBytes /\ PIPESIZE >= 0
      BY Params DEF Result
    <2>2. ring' \in Seq(Byte) /\ Len(ring') = 0 /\ got' \in [Procs -> Seq(1..MaxBytes)]
      OBVIOUS
    <2> QED BY <1>1, <2>1, <2>2 DEF Types
  <1>3. \A q \in Procs : st'[q] \in {"run", "unborn"} /\ (st'[q] = "unborn" => holds'[q] = {})
    BY <1>1 DEF Types
  <1>4. Gone' /\ Writers' /\ Readers' /\ NoMutualSleep' /\ SleeperHasPeer'
    BY <1>3 DEF Gone, Writers, Readers, NoMutualSleep, SleeperHasPeer, Sleepers
  <1> QED BY <1>2, <1>4 DEF IInv

LEMMA StutterKeeps == ASSUME IInv, UNCHANGED vars PROVE IInv'
  BY DEF IInv, vars, Types, Gone, Writers, Readers, NoMutualSleep, SleeperHasPeer, Sleepers,
         writeopen, readopen, Open

LEMMA InitIInv == Init => IInv
  <1> SUFFICES ASSUME Init PROVE IInv
    OBVIOUS
  <1> USE DEF Init
  <1>1. Types
    <2>1. <<"none", 0>> \in Result /\ 0 \in 0..MaxBytes /\ PIPESIZE >= 0
      BY Params DEF Result
    <2>2. ring \in Seq(Byte) /\ Len(ring) = 0 /\ got \in [Procs -> Seq(1..MaxBytes)]
      OBVIOUS
    <2> QED BY <2>1, <2>2, NoMailIs DEF Types
  <1>2. Gone /\ Writers /\ Readers /\ NoMutualSleep /\ SleeperHasPeer
    BY DEF Gone, Writers, Readers, NoMutualSleep, SleeperHasPeer, Sleepers
  <1> QED BY <1>1, <1>2 DEF IInv

LEMMA StepKeeps == ASSUME IInv, Use, [Next]_vars PROVE IInv'
  <1>1. ASSUME NEW p \in Procs, NEW n \in 1..MaxLen, Read(p, n) PROVE IInv'
    BY <1>1, ReadKeeps
  <1>2. ASSUME NEW p \in Procs, NEW n \in MinLen..MaxLen, Write(p, n) PROVE IInv'
    BY <1>2, WriteKeeps
  <1>3. ASSUME NEW p \in Procs, NEW e \in Ends, Close(p, e) PROVE IInv'
    <2>1. {e} \in SUBSET Ends /\ CloseEnds(p, {e}, {}) /\ st[p] = "run"
      BY <1>3 DEF Close
    <2> QED BY <2>1, CloseKeeps
  <1>4. ASSUME NEW p \in Procs, Exit(p) PROVE IInv'
    <2>1. Ends \in SUBSET Ends /\ CloseEnds(p, Ends, {p})
      BY <1>4 DEF Exit
    <2> QED BY <2>1, CloseKeeps
  <1>5. ASSUME NEW p \in Procs, WriteRefused(p) \/ Interrupt(p) \/ Pipe(p) \/ Fork(p) PROVE IInv'
    BY <1>5, WriteRefusedKeeps, InterruptKeeps, PipeKeeps, ForkKeeps
  <1>6. CASE UNCHANGED vars
    BY <1>6, StutterKeeps
  <1> QED BY <1>1, <1>2, <1>3, <1>4, <1>5, <1>6 DEF Next

(* Every reachable state of a pipe that a pipeline uses satisfies the
   inductive invariant. *)
THEOREM PipeInvariance == ASSUME Use PROVE Spec => []IInv
  <1>1. IInv /\ [Next]_vars => IInv'
    BY StepKeeps
  <1> QED BY InitIInv, <1>1, PTL DEF Spec

(* A pipe that a pipeline uses never has both sides asleep, and every sleeper
   has a peer that can complete it: no wake-up is missed by a read, a write, a
   close or an exit. *)
THEOREM SleepersHavePeers == ASSUME Use PROVE Spec => []PipeInv
  <1>1. IInv => PipeInv
    <2> SUFFICES ASSUME IInv PROVE PipeInv
      OBVIOUS
    <2>1. Range(ring) \subseteq Byte
      BY RangeIn DEF IInv, Types
    <2>2. \A p \in Procs : Range(got[p]) \subseteq 1..MaxBytes
      BY RangeIn DEF IInv, Types
    <2> QED BY <2>1, <2>2 DEF IInv, Types, TypeOK, PipeInv
  <1> QED BY PipeInvariance, <1>1, PTL

-----------------------------------------------------------------------------
(* The refinement.  Told is who has been told of the end of the file. *)
Told == {p \in Procs : res[p] = <<"read", 0>>}

(* A step that moves n bytes of p in and k bytes out. *)
Moves(p, n, k) ==
    LET all == ring \o Bytes(p, sent[p], n)
    IN /\ writeopen \/ n = 0
       /\ ring' = SubSeq(all, k + 1, Len(all))
       /\ sent' = [sent EXCEPT ![p] = @ + n]
       /\ HandOut(SubSeq(all, 1, k))
       /\ Told' \subseteq Told
       /\ writeopen' = writeopen

LEMMA MoveIs ==
    ASSUME Types, NEW p \in Procs, NEW n \in 0..MaxLen, NEW k \in Nat,
           sent[p] + n <= MaxBytes, k <= Len(ring) + n, Moves(p, n, k)
    PROVE  Stream!StreamNext
  <1> DEFINE all == ring \o Bytes(p, sent[p], n)
  <1>1. all = ring \o [j \in 1..n |-> <<p, sent[p] + j>>]
    BY DEF Bytes
  <1>2. n \in Nat /\ n <= MaxLen /\ sent[p] \in Nat /\ ring \in Seq(Byte) /\ Len(ring) \in Nat
    BY Params DEF Types
  <1>3. Len(all) = Len(ring) + n
    BY <1>2, BytesAre, Joined
  <1>4. k \in 0..(Len(ring) + MaxLen)
    BY <1>2, Params
  <1>5. Stream!Move(p, n, k)
    BY <1>1, <1>3 DEF Stream!Move, Moves, HandOut, Told
  <1> QED BY <1>4, <1>5 DEF Stream!StreamNext

(* Nothing moves; the last writer may leave and readers learn of it. *)
LEMMA TellIs ==
    ASSUME writeopen' => writeopen,
           Told' \subseteq Told \/ (~writeopen' /\ ring = <<>>),
           UNCHANGED <<ring, sent, got>>
    PROVE  Stream!StreamNext
  BY DEF Stream!StreamNext, Stream!Tell, Told

(* Cutting a concatenation inside its first part. *)
LEMMA SplitAt ==
    ASSUME NEW s \in Seq(Byte), NEW t \in Seq(Byte), NEW k \in Nat, k <= Len(s)
    PROVE  /\ SubSeq(s \o t, 1, k) = SubSeq(s, 1, k)
           /\ SubSeq(s \o t, k + 1, Len(s \o t)) = SubSeq(s, k + 1, Len(s)) \o t
  <1>1. s \o t \in Seq(Byte) /\ Len(s \o t) = Len(s) + Len(t) /\ Len(s) \in Nat /\ Len(t) \in Nat
    OBVIOUS
  <1>2. SubSeq(s \o t, 1, k) = SubSeq(s, 1, k)
    BY <1>1
  <1> DEFINE a == SubSeq(s \o t, k + 1, Len(s \o t))
             b == SubSeq(s, k + 1, Len(s)) \o t
  <1>3. a \in Seq(Byte) /\ Len(a) = Len(s) + Len(t) - k
    BY <1>1
  <1>4. SubSeq(s, k + 1, Len(s)) \in Seq(Byte) /\ Len(SubSeq(s, k + 1, Len(s))) = Len(s) - k
    BY <1>1
  <1>5. b \in Seq(Byte) /\ Len(b) = Len(s) - k + Len(t)
    BY <1>1, <1>4
  <1>6. ASSUME NEW j \in 1..Len(a) PROVE a[j] = b[j]
    <2>0. j \in Nat /\ j >= 1 /\ j <= Len(s) + Len(t) - k /\ Len(s) - k \in Nat
      BY <1>1, <1>3
    <2>1. a[j] = (s \o t)[k + j]
      <3>1. PICK u \in Seq(Byte) : u = s \o t /\ Len(u) = Len(s) + Len(t)
        BY <1>1
      <3>2. SubSeq(u, k + 1, Len(u))[j] = u[k + j]
        BY <1>1, <2>0, <3>1
      <3> QED BY <3>1, <3>2
    <2>2. CASE j <= Len(s) - k
      <3>1. b[j] = SubSeq(s, k + 1, Len(s))[j]
        BY <1>1, <1>4, <2>2
      <3>2. SubSeq(s, k + 1, Len(s))[j] = s[k + j]
        BY <1>1, <2>2
      <3>3. (s \o t)[k + j] = s[k + j]
        BY <1>1, <2>2
      <3> QED BY <2>1, <3>1, <3>2, <3>3
    <2>3. CASE j > Len(s) - k
      <3>1. b[j] = t[j - (Len(s) - k)]
        BY <1>1, <1>3, <1>4, <2>3
      <3>2. (s \o t)[k + j] = t[k + j - Len(s)]
        BY <1>1, <1>3, <2>3
      <3>3. j - (Len(s) - k) = k + j - Len(s)
        BY <1>1, <1>3
      <3> QED BY <2>1, <3>1, <3>2, <3>3
    <2>4. j <= Len(s) - k \/ j > Len(s) - k
      BY <2>0
    <2> QED BY <2>2, <2>3, <2>4
  <1> HIDE DEF a, b
  <1>7. a = b
    BY <1>1, <1>3, <1>5, <1>6
  <1> QED BY <1>2, <1>7 DEF a, b

(* A run of bytes is cut into two runs. *)
LEMMA BytesSplit ==
    ASSUME NEW p \in Procs, NEW a \in Nat, NEW d \in Nat, NEW f \in Nat, a + d + f <= MaxBytes
    PROVE  /\ SubSeq(Bytes(p, a, d + f), 1, d) = Bytes(p, a, d)
           /\ SubSeq(Bytes(p, a, d + f), d + 1, d + f) = Bytes(p, a + d, f)
  <1>1. /\ Bytes(p, a, d + f) \in Seq(Byte) /\ Len(Bytes(p, a, d + f)) = d + f
        /\ Bytes(p, a, d) \in Seq(Byte) /\ Len(Bytes(p, a, d)) = d
        /\ Bytes(p, a + d, f) \in Seq(Byte) /\ Len(Bytes(p, a + d, f)) = f
    <2>1. a + d \in Nat /\ d + f \in Nat /\ a + (d + f) <= MaxBytes /\ (a + d) + f <= MaxBytes
          /\ a + d <= MaxBytes
      BY Params
    <2> QED BY <2>1, BytesAre
  <1>2. /\ \A j \in 1..(d + f) : Bytes(p, a, d + f)[j] = <<p, a + j>>
        /\ \A j \in 1..d : Bytes(p, a, d)[j] = <<p, a + j>>
        /\ \A j \in 1..f : Bytes(p, a + d, f)[j] = <<p, (a + d) + j>>
    BY DEF Bytes
  <1> DEFINE x == SubSeq(Bytes(p, a, d + f), 1, d)
             y == SubSeq(Bytes(p, a, d + f), d + 1, d + f)
  <1>3. /\ x \in Seq(Byte) /\ Len(x) = d /\ y \in Seq(Byte) /\ Len(y) = f
        /\ \A j \in 1..d : x[j] = Bytes(p, a, d + f)[j]
        /\ \A j \in 1..f : y[j] = Bytes(p, a, d + f)[d + j]
    BY <1>1
  <1> HIDE DEF x, y
  <1>4. \A j \in 1..d : x[j] = Bytes(p, a, d)[j]
    <2> SUFFICES ASSUME NEW j \in 1..d PROVE x[j] = Bytes(p, a, d)[j]
      OBVIOUS
    <2>1. j \in 1..(d + f)
      OBVIOUS
    <2> QED BY <1>2, <1>3, <2>1
  <1>5. \A j \in 1..f : y[j] = Bytes(p, a + d, f)[j]
    <2> SUFFICES ASSUME NEW j \in 1..f PROVE y[j] = Bytes(p, a + d, f)[j]
      OBVIOUS
    <2>1. d + j \in 1..(d + f) /\ a + (d + j) = (a + d) + j
      OBVIOUS
    <2> QED BY <1>2, <1>3, <2>1
  <1>6. x = Bytes(p, a, d) /\ y = Bytes(p, a + d, f)
    BY <1>1, <1>3, <1>4, <1>5
  <1> QED BY <1>6 DEF x, y

LEMMA ReadRefines ==
    ASSUME IInv, Use, NEW p \in Procs, NEW n \in 1..MaxLen, Read(p, n)
    PROVE  Stream!StreamNext
  <1> DEFINE k == Taken(n)
             w == Pulled
             fed == Pull(n)
  <1>1. Types /\ Writers
    BY DEF IInv
  <1>2. /\ k \in Nat /\ k <= Len(ring)
        /\ k = 0 => ring = <<>> /\ Asleep = {}
        /\ SubSeq(ring, 1, k) \in Seq(Byte)
        /\ k = 0 => SubSeq(ring, 1, k) = <<>> /\ Rest(n) = <<>>
        /\ fed \in Nat
        /\ Asleep # {} => /\ w \in Procs /\ st[w] = "write" /\ w \in Asleep
                          /\ fed <= mail[w].a2 /\ writeopen
    BY ReadValues
  <1>3. /\ HandOut(SubSeq(ring, 1, k))
        /\ ring' = IF Asleep = {} THEN Rest(n) ELSE Rest(n) \o Bytes(w, mail[w].a1, fed)
        /\ sent' = [q \in Procs |-> IF q \in Asleep /\ q = w THEN sent[q] + fed ELSE sent[q]]
        /\ res' = [q \in Procs |->
                     IF q = p THEN <<"read", IF Starved(n) THEN -3 ELSE k>>
                     ELSE IF Finished(n) /\ q = w THEN <<"write", mail[w].done + fed>>
                     ELSE res[q]]
        /\ UNCHANGED holds
    BY ReadDoes
  <1>4. Starved(n) <=> k = 0 /\ writeopen
    BY DEF Starved
  <1>5. Rest(n) = SubSeq(ring, k + 1, Len(ring))
    BY DEF Rest
  <1> HIDE DEF k, w, fed
  <1>6. writeopen' = writeopen
    BY <1>3 DEF writeopen, Open
  <1>7. ring \in Seq(Byte) /\ Len(ring) \in Nat /\ sent \in [Procs -> 0..MaxBytes]
    BY <1>1 DEF Types
  <1>8. CASE k = 0 /\ ~writeopen
    <2>1. Asleep = {} /\ ring = <<>> /\ ring' = ring
      BY <1>2, <1>3, <1>8
    <2>2. sent' = sent
      BY <1>3, <1>7, <2>1
    <2>3. got' = got
      BY <1>1, <1>2, <1>3, <1>8, Handed
    <2> QED BY <1>6, <1>8, <2>1, <2>2, <2>3, TellIs
  <1>9. CASE ~(k = 0 /\ ~writeopen)
    <2>1. Told' \subseteq Told
      <3>1. (IF Starved(n) THEN -3 ELSE k) # 0
        BY <1>4, <1>9
      <3>2. \A q \in Procs : res'[q] = <<"read", 0>> => res[q] = <<"read", 0>>
        BY <1>3, <3>1
      <3> QED BY <3>2 DEF Told
    <2>2. CASE Asleep = {}
      <3>1. Bytes(p, sent[p], 0) = <<>>
        BY DEF Bytes
      <3>2. ring \o Bytes(p, sent[p], 0) = ring
        BY <1>7, <3>1
      <3>3. sent' = [sent EXCEPT ![p] = @ + 0]
        <4>1. sent' = sent
          BY <1>3, <1>7, <2>2
        <4>2. sent[p] + 0 = sent[p]
          BY <1>7, Params
        <4> QED BY <1>7, <4>1, <4>2
      <3>4. Moves(p, 0, k)
        BY <1>3, <1>5, <1>6, <2>1, <2>2, <3>2, <3>3 DEF Moves
      <3>5. 0 \in 0..MaxLen /\ sent[p] + 0 <= MaxBytes /\ k <= Len(ring) + 0
        BY <1>2, <1>7, Params
      <3> QED BY <1>1, <1>2, <3>4, <3>5, MoveIs
    <2>3. CASE Asleep # {}
      <3>1. w \in Procs /\ w \in Asleep /\ fed \in Nat /\ writeopen
        BY <1>2, <2>3
      <3>2. mail[w].a1 = sent[w] /\ sent[w] \in Nat /\ fed <= MaxLen /\ sent[w] + fed <= MaxBytes
        <4>1. mail[w] \in Mail /\ fed <= mail[w].a2 /\ st[w] = "write"
          BY <1>1, <1>2, <2>3 DEF Types
        <4>2. mail[w].a1 \in Nat /\ mail[w].a2 \in Nat /\ mail[w].a2 <= MaxLen
          BY <4>1, MailIs, Params
        <4>3. mail[w].a1 = sent[w] /\ mail[w].a1 + mail[w].a2 <= MaxBytes
          BY <1>1, <3>1, <4>1 DEF Writers
        <4> QED BY <3>1, <4>1, <4>2, <4>3, Params
      <3>3. PICK t \in Seq(Byte) : t = Bytes(w, sent[w], fed)
        BY <3>1, <3>2, BytesAre
      <3>4. ring' = Rest(n) \o t
        BY <1>3, <2>3, <3>2, <3>3
      <3>5. /\ SubSeq(ring \o t, 1, k) = SubSeq(ring, 1, k)
            /\ SubSeq(ring \o t, k + 1, Len(ring \o t)) = Rest(n) \o t
        <4>1. /\ SubSeq(ring \o t, 1, k) = SubSeq(ring, 1, k)
              /\ SubSeq(ring \o t, k + 1, Len(ring \o t)) = SubSeq(ring, k + 1, Len(ring)) \o t
          BY <1>2, <1>7, SplitAt
        <4> QED BY <1>5, <4>1
      <3>6. sent' = [sent EXCEPT ![w] = @ + fed]
        BY <1>3, <1>7, <3>1
      <3>7. Moves(w, fed, k)
        BY <1>3, <1>6, <2>1, <3>1, <3>3, <3>4, <3>5, <3>6 DEF Moves
      <3>8. fed \in 0..MaxLen /\ k <= Len(ring) + fed
        BY <1>2, <1>7, <3>1, <3>2, Params
      <3> QED BY <1>1, <1>2, <3>1, <3>2, <3>7, <3>8, MoveIs
    <2> QED BY <2>2, <2>3
  <1> QED BY <1>8, <1>9

LEMMA WriteRefines ==
    ASSUME IInv, Use, NEW p \in Procs, NEW n \in MinLen..MaxLen, Write(p, n)
    PROVE  Stream!StreamNext
  <1> DEFINE d == Deposit(n)
             f == Stored(n)
             m == Moved(n)
  <1>1. Types
    BY DEF IInv
  <1>2. /\ HandOut(Bytes(p, sent[p], d))
        /\ ring' = ring \o Bytes(p, sent[p] + d, f)
        /\ sent' = [sent EXCEPT ![p] = @ + m]
        /\ res' = [q \in Procs |->
                     IF q = p THEN <<"write", IF m < n THEN -3 ELSE n>>
                     ELSE IF q \in BlockedReaders /\ q = Served THEN <<"read", d>>
                     ELSE res[q]]
        /\ UNCHANGED holds
        /\ "w" \in holds[p] /\ sent[p] + n <= MaxBytes
    BY WriteDoes
  <1>3. /\ n \in Nat /\ n <= MaxLen /\ sent[p] \in Nat
        /\ d \in Nat /\ f \in Nat /\ m \in Nat /\ m <= n /\ m = d + f
        /\ d > 0 => ring = <<>>
        /\ BlockedReaders # {} => d >= 1
    BY WriteValues
  <1> HIDE DEF d, f, m
  <1>4. writeopen /\ writeopen' = writeopen
    BY <1>2 DEF writeopen, Open
  <1>5. Told' \subseteq Told
    <2>1. \A q \in Procs : q \in BlockedReaders => d # 0
      BY <1>3
    <2>2. \A q \in Procs : res'[q] = <<"read", 0>> => res[q] = <<"read", 0>>
      BY <1>2, <2>1
    <2> QED BY <2>2 DEF Told
  <1>6. ring \in Seq(Byte) /\ Len(ring) \in Nat
    BY <1>1 DEF Types
  <1>7. PICK t \in Seq(Byte) : t = Bytes(p, sent[p], m) /\ Len(t) = m
    <2>1. sent[p] + m <= MaxBytes
      BY <1>2, <1>3, Params
    <2> QED BY <1>3, <2>1, BytesAre
  <1>8. /\ SubSeq(ring \o t, 1, d) = Bytes(p, sent[p], d)
        /\ SubSeq(ring \o t, d + 1, Len(ring \o t)) = ring \o Bytes(p, sent[p] + d, f)
    <2>1. CASE d = 0
      <3>1. sent[p] + d = sent[p] /\ m = f
        BY <1>3, <2>1
      <3>2. Bytes(p, sent[p], d) = <<>>
        BY <2>1 DEF Bytes
      <3>3. SubSeq(ring \o t, 1, 0) = <<>>
        BY <1>6
      <3>4. SubSeq(ring \o t, 0 + 1, Len(ring \o t)) = ring \o t
        BY <1>6
      <3> QED BY <1>7, <2>1, <3>1, <3>2, <3>3, <3>4
    <2>2. CASE d > 0
      <3>1. ring \o t = t /\ ring \o Bytes(p, sent[p] + d, f) = Bytes(p, sent[p] + d, f)
        <4>1. PICK a \in Nat : a = sent[p] + d /\ a + f <= MaxBytes
          BY <1>2, <1>3, Params
        <4>2. Bytes(p, a, f) \in Seq(Byte)
          BY <1>3, <4>1, BytesAre
        <4> QED BY <1>3, <1>7, <2>2, <4>1, <4>2
      <3>2. sent[p] + d + f <= MaxBytes
        BY <1>2, <1>3, Params
      <3>3. /\ SubSeq(t, 1, d) = Bytes(p, sent[p], d)
            /\ SubSeq(t, d + 1, d + f) = Bytes(p, sent[p] + d, f)
        <4>1. /\ SubSeq(Bytes(p, sent[p], d + f), 1, d) = Bytes(p, sent[p], d)
              /\ SubSeq(Bytes(p, sent[p], d + f), d + 1, d + f) = Bytes(p, sent[p] + d, f)
          <5>1. sent[p] \in Nat /\ d \in Nat /\ f \in Nat
            BY <1>3
          <5> QED BY <3>2, <5>1, BytesSplit
        <4> QED BY <1>3, <1>7, <4>1
      <3>4. Len(t) = d + f
        BY <1>3, <1>7
      <3> QED BY <3>1, <3>3, <3>4
    <2>3. d = 0 \/ d > 0
      BY <1>3
    <2> QED BY <2>1, <2>2, <2>3
  <1>9. Moves(p, m, d)
    BY <1>2, <1>4, <1>5, <1>7, <1>8 DEF Moves
  <1>10. m \in 0..MaxLen /\ d <= Len(ring) + m /\ sent[p] + m <= MaxBytes
    BY <1>2, <1>3, <1>6, Params
  <1> QED BY <1>1, <1>3, <1>9, <1>10, MoveIs

LEMMA CloseRefines ==
    ASSUME IInv, NEW p \in Procs, NEW E \in SUBSET Ends, NEW gone, CloseEnds(p, E, gone)
    PROVE  Stream!StreamNext
  <1> DEFINE h == [holds EXCEPT ![p] = @ \ E]
             over == Completed(h) \ gone
  <1>1. /\ holds' = h
        /\ res' = [q \in Procs |->
                     IF q \in gone THEN <<"none", 0>>
                     ELSE IF q \notin over THEN res[q]
                     ELSE IF st[q] = "read" THEN <<"read", 0>>
                     ELSE <<"write", mail[q].done>>]
        /\ UNCHANGED <<ring, sent, got>>
    BY DEF CloseEnds
  <1>2. \A q \in Procs : q \in over => (st[q] = "read" /\ ~Open(h, "w")) \/ st[q] = "write"
    BY DEF Completed
  <1>3. \A q \in Procs : h[q] \subseteq holds[q]
    BY DEF IInv, Types
  <1> HIDE DEF h, over
  <1>4. writeopen' = Open(h, "w") /\ (Open(h, "w") => writeopen)
    BY <1>1, <1>3 DEF writeopen, Open
  <1>5. CASE \E q \in Procs : st[q] = "read" /\ ~Open(h, "w")
    <2>1. ring = <<>>
      BY <1>5 DEF IInv, NoMutualSleep, Sleepers
    <2> QED BY <1>1, <1>4, <1>5, <2>1, TellIs
  <1>6. CASE ~\E q \in Procs : st[q] = "read" /\ ~Open(h, "w")
    <2>1. \A q \in Procs : res'[q] = <<"read", 0>> => res[q] = <<"read", 0>>
      BY <1>1, <1>2, <1>6
    <2>2. Told' \subseteq Told
      BY <2>1 DEF Told
    <2> QED BY <1>1, <1>4, <2>2, TellIs
  <1> QED BY <1>5, <1>6

LEMMA QuietRefines ==
    ASSUME IInv, NEW p \in Procs, WriteRefused(p) \/ Interrupt(p) \/ Fork(p)
    PROVE  Stream!StreamNext
  <1>1. UNCHANGED <<ring, sent, got>>
    BY DEF WriteRefused, Interrupt, Fork
  <1>2. \A q \in Procs : res'[q] = <<"read", 0>> => res[q] = <<"read", 0>>
    BY DEF WriteRefused, Interrupt, Fork, IInv, Types
  <1>3. Told' \subseteq Told
    BY <1>2 DEF Told
  <1>4. writeopen' => writeopen
    <2>1. CASE WriteRefused(p) \/ Interrupt(p)
      BY <2>1 DEF WriteRefused, Interrupt, writeopen, Open
    <2>2. CASE Fork(p)
      <3>1. \A q \in Procs : holds'[q] = holds[q] \/ holds'[q] = holds[p]
        BY <2>2 DEF Fork, IInv, Types
      <3> QED BY <3>1 DEF writeopen, Open
    <2> QED BY <2>1, <2>2
  <1> QED BY <1>1, <1>3, <1>4, TellIs

LEMMA PipeRefines ==
    ASSUME IInv, NEW p \in Procs, Pipe(p)
    PROVE  Stream!StreamNext
  <1>1. writeopen'
    BY DEF Pipe, IInv, Types, writeopen, Open, Ends
  <1>2. Told' = {}
    BY DEF Pipe, Told
  <1> QED BY <1>1, <1>2 DEF Pipe, Stream!StreamNext, Stream!Renew, Told

LEMMA InitRefines == Init => Stream!StreamInit
  <1> SUFFICES ASSUME Init PROVE Stream!StreamInit
    OBVIOUS
  <1>1. writeopen
    BY KPipeAssumption DEF Init, writeopen, Open, Procs, Ends
  <1>2. Told = {}
    BY DEF Init, Told
  <1> QED BY <1>1, <1>2 DEF Init, Stream!StreamInit, Told

LEMMA StepRefines ==
    ASSUME IInv, Use, [Next]_vars
    PROVE  [Stream!StreamNext]_(Stream!bsvars)
  <1>1. ASSUME NEW p \in Procs, NEW n \in 1..MaxLen, Read(p, n) PROVE Stream!StreamNext
    BY <1>1, ReadRefines
  <1>2. ASSUME NEW p \in Procs, NEW n \in MinLen..MaxLen, Write(p, n) PROVE Stream!StreamNext
    BY <1>2, WriteRefines
  <1>3. ASSUME NEW p \in Procs, NEW e \in Ends, Close(p, e) PROVE Stream!StreamNext
    <2>1. {e} \in SUBSET Ends /\ CloseEnds(p, {e}, {})
      BY <1>3 DEF Close
    <2> QED BY <2>1, CloseRefines
  <1>4. ASSUME NEW p \in Procs, Exit(p) PROVE Stream!StreamNext
    <2>1. Ends \in SUBSET Ends /\ CloseEnds(p, Ends, {p})
      BY <1>4 DEF Exit
    <2> QED BY <2>1, CloseRefines
  <1>5. ASSUME NEW p \in Procs, WriteRefused(p) \/ Interrupt(p) \/ Pipe(p) \/ Fork(p)
        PROVE  Stream!StreamNext
    BY <1>5, QuietRefines, PipeRefines
  <1>6. ASSUME UNCHANGED vars PROVE UNCHANGED Stream!bsvars
    BY <1>6 DEF vars, Stream!bsvars, writeopen, Open
  <1> QED BY <1>1, <1>2, <1>3, <1>4, <1>5, <1>6 DEF Next

(* kpipe.c, used by a pipeline, implements a byte stream: whichever of the
   three ways a byte takes (the ring, a sleeping reader's buffer, a sleeping
   writer's remainder) it comes out once and in order, and a read returns 0 only
   behind the last byte of the last writer. *)
THEOREM PipeIsByteStream == ASSUME Use PROVE Spec => IsByteStream
  <1>1. IInv /\ [Next]_vars => [Stream!StreamNext]_(Stream!bsvars)
    BY StepRefines
  <1> QED BY InitRefines, PipeInvariance, <1>1, PTL DEF Spec, IsByteStream, Stream!StreamSpec
=============================================================================
