---------------------------- MODULE KConsProofs ----------------------------
(***************************************************************************)
(* Theorems about console input, for any processes, any buffer size and    *)
(* any mixture of keys.                                                    *)
(*                                                                         *)
(* InOrder speaks about neighbours in three sequences put together.  What  *)
(* is inductive is that there are two numbers which separate the bytes of  *)
(* the three (Cuts): every byte cons_poll takes moves one of them, and a   *)
(* backspace moves neither.                                                *)
(***************************************************************************)
EXTENDS KCons, WellFoundedInduction, TLAPS

(* The bytes of s have numbers above lo and up to hi, and they increase. *)
Between(lo, s, hi) ==
    /\ lo <= hi
    /\ \A i \in 1..Len(s) : lo < s[i][2] /\ s[i][2] <= hi
    /\ \A i, j \in 1..Len(s) : i < j => s[i][2] < s[j][2]

Numbers == 0..MaxBytes

(* Two numbers separate what is committed, what is typed and what is not yet
   looked at. *)
Cuts(from, l, e, r, to) ==
    \E b, c \in Numbers : Between(from, l, b) /\ Between(b, e, c) /\ Between(c, r, to)

Types ==
    /\ rx \in Seq(Byte) /\ lines \in Seq(Byte) /\ edit \in Seq(Byte)
    /\ Len(lines) + Len(edit) <= INPUT_BUF
    /\ raw \in BOOLEAN
    /\ rawpid \in Procs \cup {NoPid}
    /\ st \in [Procs -> {"run", "retry", "select", "dead"}]
    /\ arrived \in Numbers /\ last \in Numbers

(* The inductive invariant, without the sleepers. *)
BufferInv ==
    /\ Types
    /\ Cuts(last, lines, edit, rx, arrived)
    /\ FullIsReadable
    /\ RawOwnerLives

-----------------------------------------------------------------------------
(* A non-empty set of naturals has a least element. *)
LEMMA LeastNat ==
    ASSUME NEW S \in SUBSET Nat, S # {}
    PROVE  \E m \in S : \A k \in S : m <= k
  <1> DEFINE R == {ss \in Nat \X Nat : ss[1] < ss[2]}
  <1>1. IsWellFoundedOn(R, Nat)
    BY NatLessThanWellFounded DEF OpToRel
  <1> HIDE DEF R
  <1>2. PICK m \in S : \A k \in S : ~(<<k, m>> \in R)
    BY <1>1, WFMin
  <1>3. \A k \in S : ~(k < m)
    BY <1>2 DEF R
  <1> QED BY <1>3

(* Induction, for a set instead of a predicate. *)
LEMMA SetInduction ==
    ASSUME NEW S, 0 \in S, \A n \in Nat : n \in S => n + 1 \in S
    PROVE  Nat \subseteq S
  <1> SUFFICES ASSUME Nat \ S # {} PROVE FALSE
    OBVIOUS
  <1>1. PICK m \in Nat \ S : \A k \in Nat \ S : m <= k
    BY LeastNat
  <1> QED BY <1>1

(* A function defined by recursion on 0..n exists. *)
StepsOn(D, n) == [1..n -> [D -> D]]
Iterates(g, D, n, a, step) ==
    g \in [0..n -> D] /\ g[0] = a /\ \A i \in 1..n : g[i] = step[i][g[i - 1]]

LEMMA Recursion ==
    ASSUME NEW D, NEW n \in Nat, NEW a \in D, NEW step \in StepsOn(D, n)
    PROVE  \E g : Iterates(g, D, n, a, step)
  <1> USE DEF StepsOn
  <1> DEFINE Ok(m, g) == g[0] = a /\ \A i \in 1..m : g[i] = step[i][g[i - 1]]
             S == {m \in Nat : m <= n => \E g \in [0..m -> D] : Ok(m, g)}
  <1>1. 0 \in S
    <2>1. [i \in 0..0 |-> a] \in [0..0 -> D] /\ Ok(0, [i \in 0..0 |-> a])
      OBVIOUS
    <2> QED BY <2>1
  <1>2. ASSUME NEW m \in Nat, m \in S PROVE m + 1 \in S
    <2> SUFFICES ASSUME m + 1 <= n PROVE \E g \in [0..(m + 1) -> D] : Ok(m + 1, g)
      OBVIOUS
    <2>1. PICK g \in [0..m -> D] : Ok(m, g)
      BY <1>2
    <2> DEFINE h == [i \in 0..(m + 1) |-> IF i = m + 1 THEN step[m + 1][g[m]] ELSE g[i]]
    <2>2. m + 1 \in 1..n /\ step[m + 1][g[m]] \in D
      OBVIOUS
    <2>3. h \in [0..(m + 1) -> D]
      BY <2>2
    <2>4. Ok(m + 1, h)
      BY <2>1, <2>3
    <2> QED BY <2>3, <2>4
  <1> HIDE DEF S
  <1>3. n \in S
    BY <1>1, <1>2, SetInduction
  <1> QED BY <1>3 DEF S, Iterates

-----------------------------------------------------------------------------
(* What the proofs use of the parameters. *)
LEMMA Params ==
    /\ INPUT_BUF \in Nat /\ INPUT_BUF > 0 /\ MaxBytes \in Nat /\ MaxRead \in Nat
    /\ NoPid \notin Procs /\ Keys \subseteq Kind /\ Background \in BOOLEAN
  BY KConsAssumption DEF NoPid

LEMMA ByteIs ==
    ASSUME NEW b \in Byte
    PROVE  b[1] \in Kind /\ b[2] \in Numbers /\ b[2] \in Nat /\ <<"newline", b[2]>> \in Byte
  BY Params DEF Byte, Numbers, Kind

LEMMA ElementIs ==
    ASSUME NEW s \in Seq(Byte), NEW i \in 1..Len(s)
    PROVE  s[i] \in Byte /\ s[i][2] \in Nat
  <1>1. s[i] \in Byte
    OBVIOUS
  <1> QED BY <1>1, ByteIs

LEMMA Empty == \A n \in Numbers : Between(n, <<>>, n)
  BY Params DEF Between, Numbers

LEMMA Weaker ==
    ASSUME NEW s \in Seq(Byte), NEW a \in Numbers, NEW b \in Numbers, NEW c \in Numbers,
           a <= b, Between(b, s, c)
    PROVE  Between(a, s, c)
  <1>1. \A i \in 1..Len(s) : s[i][2] \in Nat
    BY ElementIs
  <1>2. a \in Nat /\ b \in Nat /\ c \in Nat
    BY Params DEF Numbers
  <1> QED BY <1>1, <1>2 DEF Between

(* Two runs of bytes joined. *)
LEMMA Joined ==
    ASSUME NEW s \in Seq(Byte), NEW t \in Seq(Byte), NEW a \in Numbers, NEW b \in Numbers,
           NEW c \in Numbers, Between(a, s, b), Between(b, t, c)
    PROVE  s \o t \in Seq(Byte) /\ Len(s \o t) = Len(s) + Len(t) /\ Between(a, s \o t, c)
  <1>1. a \in Nat /\ b \in Nat /\ c \in Nat
    BY Params DEF Numbers
  <1>2. PICK m \in Nat, n \in Nat : m = Len(s) /\ n = Len(t)
    OBVIOUS
  <1>3. PICK u \in Seq(Byte) : u = s \o t /\ Len(u) = m + n
    <2>1. s \o t \in Seq(Byte) /\ Len(s \o t) = Len(s) + Len(t)
      OBVIOUS
    <2> QED BY <1>2, <2>1
  <1>4. ASSUME NEW i \in 1..(m + n)
        PROVE  \/ i \in 1..m /\ u[i] = s[i]
               \/ i > m /\ i - m \in 1..n /\ u[i] = t[i - m]
    <2>1. CASE i <= m
      BY <1>2, <1>3, <2>1
    <2>2. CASE i > m
      BY <1>2, <1>3, <2>2
    <2> QED BY <2>1, <2>2
  <1>5. /\ \A i \in 1..m : a < s[i][2] /\ s[i][2] <= b /\ s[i][2] \in Nat
        /\ \A i, j \in 1..m : i < j => s[i][2] < s[j][2]
    <2>1. \A i \in 1..m : s[i][2] \in Nat
      BY <1>2, ElementIs
    <2> QED BY <1>2, <2>1 DEF Between
  <1>6. /\ \A i \in 1..n : b < t[i][2] /\ t[i][2] <= c /\ t[i][2] \in Nat
        /\ \A i, j \in 1..n : i < j => t[i][2] < t[j][2]
    <2>1. \A i \in 1..n : t[i][2] \in Nat
      BY <1>2, ElementIs
    <2> QED BY <1>2, <2>1 DEF Between
  <1>7. a <= b /\ b <= c
    BY DEF Between
  <1>8. ASSUME NEW i \in 1..(m + n) PROVE a < u[i][2] /\ u[i][2] <= c
    <2>1. CASE i \in 1..m /\ u[i] = s[i]
      <3>1. PICK x \in Nat : x = s[i][2] /\ a < x /\ x <= b
        BY <1>5, <2>1
      <3> QED BY <1>1, <1>7, <2>1, <3>1
    <2>2. CASE i - m \in 1..n /\ u[i] = t[i - m]
      <3>1. PICK x \in Nat : x = t[i - m][2] /\ b < x /\ x <= c
        BY <1>6, <2>2
      <3> QED BY <1>1, <1>7, <2>2, <3>1
    <2> QED BY <1>4, <2>1, <2>2
  <1>9. ASSUME NEW i \in 1..(m + n), NEW j \in 1..(m + n), i < j PROVE u[i][2] < u[j][2]
    <2>1. CASE j \in 1..m /\ u[j] = s[j]
      <3>1. i \in 1..m /\ u[i] = s[i]
        BY <1>4, <1>9, <2>1
      <3> QED BY <1>5, <1>9, <2>1, <3>1
    <2>2. CASE j - m \in 1..n /\ u[j] = t[j - m]
      <3>1. PICK y \in Nat : y = t[j - m][2] /\ b < y
        BY <1>6, <2>2
      <3>2. CASE i \in 1..m /\ u[i] = s[i]
        <4>1. PICK x \in Nat : x = s[i][2] /\ x <= b
          BY <1>5, <3>2
        <4> QED BY <1>1, <2>2, <3>1, <3>2, <4>1
      <3>3. CASE i - m \in 1..n /\ u[i] = t[i - m]
        <4>1. i - m < j - m
          BY <1>9
        <4> QED BY <1>6, <2>2, <3>3, <4>1
      <3> QED BY <1>4, <3>2, <3>3
    <2> QED BY <1>4, <2>1, <2>2
  <1>10. Between(a, u, c)
    <2>1. a <= c
      BY <1>1, <1>7
    <2> QED BY <1>3, <1>8, <1>9, <2>1 DEF Between
  <1> QED BY <1>2, <1>3, <1>10

(* One byte is a run, if its number is above what came before. *)
LEMMA Single ==
    ASSUME NEW x \in Byte, NEW a \in Numbers, a < x[2]
    PROVE  <<x>> \in Seq(Byte) /\ Between(a, <<x>>, x[2])
  <1>1. a \in Nat /\ x[2] \in Nat
    <2>1. x[2] \in Nat
      BY ByteIs
    <2> QED BY <2>1, Params DEF Numbers
  <1>2. Len(<<x>>) = 1 /\ <<x>>[1] = x
    OBVIOUS
  <1> QED BY <1>1, <1>2 DEF Between

LEMMA Appended ==
    ASSUME NEW s \in Seq(Byte), NEW x \in Byte, NEW a \in Numbers, NEW b \in Numbers,
           Between(a, s, b), b < x[2]
    PROVE  /\ Append(s, x) \in Seq(Byte) /\ Len(Append(s, x)) = Len(s) + 1
           /\ Between(a, Append(s, x), x[2])
  <1>1. Append(s, x) = s \o <<x>> /\ Append(s, x) \in Seq(Byte) /\ Len(Append(s, x)) = Len(s) + 1
    OBVIOUS
  <1>2. <<x>> \in Seq(Byte) /\ Between(b, <<x>>, x[2]) /\ x[2] \in Numbers
    BY Single, ByteIs
  <1>3. Between(a, s \o <<x>>, x[2])
    BY <1>2, Joined
  <1> QED BY <1>1, <1>3

(* What is left of a run behind its k-th byte. *)
LEMMA Dropped ==
    ASSUME NEW s \in Seq(Byte), NEW a \in Numbers, NEW b \in Numbers, Between(a, s, b),
           NEW k \in 1..Len(s)
    PROVE  /\ SubSeq(s, k + 1, Len(s)) \in Seq(Byte)
           /\ Len(SubSeq(s, k + 1, Len(s))) = Len(s) - k
           /\ s[k] \in Byte /\ a < s[k][2]
           /\ Between(s[k][2], SubSeq(s, k + 1, Len(s)), b)
  <1>1. PICK n \in Nat : n = Len(s)
    OBVIOUS
  <1>2. PICK t \in Seq(Byte) : t = SubSeq(s, k + 1, n) /\ Len(t) = n - k
    <2>1. SubSeq(s, k + 1, n) \in Seq(Byte) /\ Len(SubSeq(s, k + 1, n)) = n - k
      BY <1>1
    <2> QED BY <2>1
  <1>3. \A i \in 1..(n - k) : t[i] = s[k + i]
    BY <1>1, <1>2
  <1>4. k \in 1..n /\ k \in Nat
    BY <1>1
  <1>5. /\ \A i \in 1..n : a < s[i][2] /\ s[i][2] <= b
        /\ \A i, j \in 1..n : i < j => s[i][2] < s[j][2]
    BY <1>1 DEF Between
  <1>6. \A i \in 1..(n - k) : k + i \in 1..n /\ k < k + i
    BY <1>1, <1>4
  <1>7. \A i \in 1..(n - k) : s[k][2] < t[i][2] /\ t[i][2] <= b
    BY <1>3, <1>4, <1>5, <1>6
  <1>8. \A i, j \in 1..(n - k) : i < j => t[i][2] < t[j][2]
    <2> SUFFICES ASSUME NEW i \in 1..(n - k), NEW j \in 1..(n - k), i < j
                 PROVE  t[i][2] < t[j][2]
      OBVIOUS
    <2>1. k + i < k + j
      BY <1>1, <1>4
    <2> QED BY <1>3, <1>5, <1>6, <2>1
  <1>9. Between(s[k][2], t, b)
    BY <1>2, <1>4, <1>5, <1>7, <1>8 DEF Between
  <1> QED BY <1>1, <1>2, <1>4, <1>5, <1>9

(* And what is in front of it. *)
LEMMA Shortened ==
    ASSUME NEW s \in Seq(Byte), NEW a \in Numbers, NEW b \in Numbers, Between(a, s, b),
           s # <<>>
    PROVE  /\ Front(s) \in Seq(Byte) /\ Len(Front(s)) = Len(s) - 1
           /\ Between(a, Front(s), b)
  <1>1. PICK n \in Nat : n = Len(s) /\ n >= 1
    OBVIOUS
  <1>2. PICK t \in Seq(Byte) : t = Front(s) /\ Len(t) = n - 1 /\ \A i \in 1..(n - 1) : t[i] = s[i]
    <2>1. /\ SubSeq(s, 1, n - 1) \in Seq(Byte) /\ Len(SubSeq(s, 1, n - 1)) = n - 1
          /\ \A i \in 1..(n - 1) : SubSeq(s, 1, n - 1)[i] = s[i]
      BY <1>1
    <2> QED BY <1>1, <2>1 DEF Front
  <1>3. \A i \in 1..(n - 1) : i \in 1..n
    BY <1>1
  <1>4. Between(a, t, b)
    BY <1>1, <1>2, <1>3 DEF Between
  <1> QED BY <1>1, <1>2, <1>4

LEMMA Assoc ==
    ASSUME NEW s \in Seq(Byte), NEW t \in Seq(Byte), NEW u \in Seq(Byte)
    PROVE  (s \o t) \o u = s \o (t \o u)
  <1>1. PICK l \in Nat, m \in Nat, n \in Nat : l = Len(s) /\ m = Len(t) /\ n = Len(u)
    OBVIOUS
  <1>2. PICK x \in Seq(Byte), y \in Seq(Byte) : x = s \o t /\ y = t \o u
                                               /\ Len(x) = l + m /\ Len(y) = m + n
    <2>1. /\ s \o t \in Seq(Byte) /\ Len(s \o t) = Len(s) + Len(t)
          /\ t \o u \in Seq(Byte) /\ Len(t \o u) = Len(t) + Len(u)
      OBVIOUS
    <2> QED BY <1>1, <2>1
  <1>3. PICK v \in Seq(Byte), w \in Seq(Byte) : v = x \o u /\ w = s \o y
                                               /\ Len(v) = l + m + n /\ Len(w) = l + m + n
    <2>1. /\ x \o u \in Seq(Byte) /\ Len(x \o u) = Len(x) + Len(u)
          /\ s \o y \in Seq(Byte) /\ Len(s \o y) = Len(s) + Len(y)
      OBVIOUS
    <2>2. Len(x \o u) = l + m + n /\ Len(s \o y) = l + m + n
      BY <1>1, <1>2, <2>1
    <2> QED BY <2>1, <2>2
  <1>4. ASSUME NEW i \in 1..(l + m + n) PROVE v[i] = w[i]
    <2>1. CASE i <= l
      BY <1>1, <1>2, <1>3, <2>1
    <2>2. CASE i > l /\ i <= l + m
      <3>1. v[i] = x[i] /\ x[i] = t[i - l]
        BY <1>1, <1>2, <1>3, <2>2
      <3>2. w[i] = y[i - l] /\ y[i - l] = t[i - l]
        BY <1>1, <1>2, <1>3, <2>2
      <3> QED BY <3>1, <3>2
    <2>3. CASE i > l + m
      <3>1. v[i] = u[i - (l + m)]
        BY <1>1, <1>2, <1>3, <2>3
      <3>2. w[i] = y[i - l] /\ y[i - l] = u[(i - l) - m]
        BY <1>1, <1>2, <1>3, <2>3
      <3>3. i - (l + m) = (i - l) - m
        OBVIOUS
      <3> QED BY <3>1, <3>2, <3>3
    <2> QED BY <2>1, <2>2, <2>3
  <1>5. v = w
    BY <1>3, <1>4
  <1> QED BY <1>2, <1>3, <1>5

-----------------------------------------------------------------------------
(* The loop of cons_poll.  A buffer is fine when it satisfies the invariant
   together with the bytes not yet looked at, and what was committed before
   the loop is still there. *)
Buffers == [lines : Seq(Byte), edit : Seq(Byte), n : 0..Len(rx)]
Unread(k) == SubSeq(rx, k + 1, Len(rx))
Used(s) == Len(s.lines) + Len(s.edit)

Fine(s) ==
    /\ Used(s) <= INPUT_BUF
    /\ Used(s) = INPUT_BUF => s.lines # <<>>
    /\ Cuts(last, s.lines, s.edit, Unread(s.n), arrived)
    /\ \E t \in Seq(Byte) : s.lines = lines \o t

FineBuffers == {s \in Buffers : Fine(s)}

(* One turn of the loop. *)
Buffer(l, e, k) == [lines |-> l, edit |-> e, n |-> k]
Typing(s, e) == [s EXCEPT !.edit = e]
At(s, k) == [s EXCEPT !.n = k]
Turn(k, s) == IF s.n = k - 1 /\ RoomFor(s) THEN At(Cook(s, rx[k]), k) ELSE s

LEMMA BufferIs ==
    ASSUME NEW s \in Buffers
    PROVE  /\ s.lines \in Seq(Byte) /\ s.edit \in Seq(Byte) /\ s.n \in 0..Len(rx)
           /\ Len(s.lines) \in Nat /\ Len(s.edit) \in Nat
  BY DEF Buffers

LEMMA Stepped ==
    ASSUME NEW s \in Buffers, NEW x, NEW e, NEW k
    PROVE  /\ At(Commit(s, x), k) = Buffer(s.lines \o Append(s.edit, x), <<>>, k)
           /\ At(Typing(s, e), k) = Buffer(s.lines, e, k)
           /\ At(s, k) = Buffer(s.lines, s.edit, k)
  <1>1. PICK a, b, c : s = [lines |-> a, edit |-> b, n |-> c]
    BY DEF Buffers
  <1>2. s.lines = a /\ s.edit = b
    BY <1>1
  <1>3. [s EXCEPT !.edit = e] = [lines |-> a, edit |-> e, n |-> c]
    BY <1>1
  <1>4. [[lines |-> a, edit |-> e, n |-> c] EXCEPT !.n = k] = [lines |-> a, edit |-> e, n |-> k]
    OBVIOUS
  <1>5. [s EXCEPT !.n = k] = [lines |-> a, edit |-> b, n |-> k]
    BY <1>1
  <1>6. PICK l, d : Commit(s, x) = [lines |-> l, edit |-> <<>>, n |-> d] /\ l = s.lines \o Append(s.edit, x)
    BY DEF Commit
  <1>7. [[lines |-> l, edit |-> <<>>, n |-> d] EXCEPT !.n = k] = [lines |-> l, edit |-> <<>>, n |-> k]
    OBVIOUS
  <1> QED BY <1>2, <1>3, <1>4, <1>5, <1>6, <1>7 DEF At, Buffer, Typing

LEMMA CookDoes ==
    ASSUME Types, NEW s \in Buffers, NEW b \in Byte
    PROVE  \E x \in Byte :
             /\ x[2] = b[2]
             /\ \/ Cook(s, b) = Commit(s, x)
                \/ Cook(s, b) = s
                \/ s.edit # <<>> /\ Cook(s, b) = Typing(s, Front(s.edit))
                \/ Used(s) + 1 # INPUT_BUF /\ Cook(s, b) = Typing(s, Append(s.edit, x))
  <1>1. CASE raw
    BY <1>1 DEF Cook
  <1>2. CASE ~raw /\ b[1] = "intr"
    BY <1>2 DEF Cook
  <1>3. CASE ~raw /\ b[1] = "backspace"
    <2>1. Cook(s, b) = Erase(s)
      BY <1>3 DEF Cook
    <2> QED BY <2>1 DEF Erase, Typing
  <1>4. CASE ~raw /\ b[1] # "intr" /\ b[1] # "backspace"
    <2>1. PICK x \in Byte : x = IF b[1] = "return" THEN <<"newline", b[2]>> ELSE b
      BY ByteIs
    <2>2. x[2] = b[2]
      BY <2>1
    <2>3. Cook(s, b) = Insert(s, x)
      BY <1>4, <2>1 DEF Cook
    <2>4. CASE Commits(s, x)
      BY <2>2, <2>3, <2>4 DEF Insert
    <2>5. CASE ~Commits(s, x)
      <3>1. Used(s) + 1 # INPUT_BUF
        BY <2>5 DEF Commits, Used
      <3> QED BY <2>2, <2>3, <2>5, <3>1 DEF Insert, Typing
    <2> QED BY <2>4, <2>5
  <1> QED BY <1>1, <1>2, <1>3, <1>4 DEF Types

LEMMA TurnKeeps ==
    ASSUME BufferInv, NEW k \in 1..Len(rx), NEW s \in FineBuffers
    PROVE  Turn(k, s) \in FineBuffers
  <1>1. /\ s \in Buffers /\ s.lines \in Seq(Byte) /\ s.edit \in Seq(Byte)
        /\ Len(s.lines) \in Nat /\ Len(s.edit) \in Nat
    BY BufferIs DEF FineBuffers
  <1>2. /\ rx \in Seq(Byte) /\ lines \in Seq(Byte) /\ arrived \in Numbers /\ last \in Numbers
    BY DEF BufferInv, Types
  <1>0. SUFFICES ASSUME s.n = k - 1, RoomFor(s)
                 PROVE  At(Cook(s, rx[k]), k) \in FineBuffers
    BY DEF Turn
  <1>3. PICK p \in Nat, q \in Nat : p = Len(s.lines) /\ q = Len(s.edit)
    BY <1>1
  <1>16. PICK size \in Nat : size = INPUT_BUF
    BY Params
  <1>17. p + q < size
    <2>1. ~(p + q >= size)
      BY <1>0, <1>3, <1>16 DEF RoomFor, Full
    <2> QED BY <2>1
  <1>4. PICK b, c \in Numbers : /\ Between(last, s.lines, b) /\ Between(b, s.edit, c)
                                /\ Between(c, Unread(k - 1), arrived)
    BY <1>0 DEF FineBuffers, Fine, Cuts
  <1>5. PICK t \in Seq(Byte) : s.lines = lines \o t
    BY DEF FineBuffers, Fine
  <1>6. /\ rx[k] \in Byte /\ c < rx[k][2] /\ rx[k][2] \in Numbers
        /\ Unread(k) \in Seq(Byte) /\ Between(rx[k][2], Unread(k), arrived)
    <2>1. PICK u \in Seq(Byte) : u = Unread(k - 1) /\ Len(u) = Len(rx) - (k - 1)
                                 /\ \A i \in 1..Len(u) : u[i] = rx[(k - 1) + i]
      <3>1. /\ Unread(k - 1) \in Seq(Byte) /\ Len(Unread(k - 1)) = Len(rx) - (k - 1)
            /\ \A i \in 1..Len(Unread(k - 1)) : Unread(k - 1)[i] = rx[(k - 1) + i]
        BY <1>2 DEF Unread
      <3> QED BY <3>1
    <2>2. 1 \in 1..Len(u) /\ u[1] = rx[k]
      BY <1>2, <2>1
    <2>3. SubSeq(u, 1 + 1, Len(u)) = Unread(k)
      <3>1. PICK v \in Seq(Byte) : v = SubSeq(u, 1 + 1, Len(u)) /\ Len(v) = Len(rx) - k
                                   /\ \A i \in 1..Len(v) : v[i] = u[i + 1]
        <4>1. /\ SubSeq(u, 1 + 1, Len(u)) \in Seq(Byte)
              /\ Len(SubSeq(u, 1 + 1, Len(u))) = Len(rx) - k
              /\ \A i \in 1..Len(SubSeq(u, 1 + 1, Len(u))) :
                    SubSeq(u, 1 + 1, Len(u))[i] = u[i + 1]
          BY <1>2, <2>1, <2>2
        <4> QED BY <4>1
      <3>2. PICK w \in Seq(Byte) : w = Unread(k) /\ Len(w) = Len(rx) - k
                                   /\ \A i \in 1..Len(w) : w[i] = rx[k + i]
        <4>1. /\ Unread(k) \in Seq(Byte) /\ Len(Unread(k)) = Len(rx) - k
              /\ \A i \in 1..Len(Unread(k)) : Unread(k)[i] = rx[k + i]
          <5>1. PICK m \in Nat : m = Len(rx) /\ k \in 1..m
            BY <1>2
          <5>2. /\ SubSeq(rx, k + 1, m) \in Seq(Byte) /\ Len(SubSeq(rx, k + 1, m)) = m - k
            BY <1>2, <5>1
          <5>3. \A i \in 1..(m - k) : SubSeq(rx, k + 1, m)[i] = rx[k + i]
            BY <1>2, <5>1
          <5> QED BY <5>1, <5>2, <5>3 DEF Unread
        <4> QED BY <4>1
      <3>3. \A i \in 1..Len(v) : v[i] = w[i]
        <4> SUFFICES ASSUME NEW i \in 1..Len(v) PROVE v[i] = w[i]
          OBVIOUS
        <4>1. Len(rx) \in Nat /\ i \in Nat /\ i >= 1 /\ i <= Len(rx) - k
          BY <1>2, <3>1
        <4>2. i + 1 \in 1..Len(u) /\ (k - 1) + (i + 1) = k + i
          BY <2>1, <4>1
        <4>3. u[i + 1] = rx[k + i]
          BY <2>1, <4>2
        <4> QED BY <3>1, <3>2, <4>3
      <3>4. v = w
        BY <3>1, <3>2, <3>3
      <3> QED BY <3>1, <3>2, <3>4
    <2>4. /\ SubSeq(u, 1 + 1, Len(u)) \in Seq(Byte) /\ u[1] \in Byte /\ c < u[1][2]
          /\ Between(u[1][2], SubSeq(u, 1 + 1, Len(u)), arrived)
      BY <1>2, <1>4, <2>1, <2>2, Dropped
    <2> QED BY <2>2, <2>3, <2>4, ByteIs
  <1>7. PICK x \in Byte :
             /\ x[2] = rx[k][2]
             /\ \/ Cook(s, rx[k]) = Commit(s, x)
                \/ Cook(s, rx[k]) = s
                \/ s.edit # <<>> /\ Cook(s, rx[k]) = Typing(s, Front(s.edit))
                \/ Used(s) + 1 # INPUT_BUF /\ Cook(s, rx[k]) = Typing(s, Append(s.edit, x))
    BY <1>1, <1>6, CookDoes DEF BufferInv
  <1>8. PICK y \in Numbers : y = x[2] /\ c < y /\ Between(y, Unread(k), arrived)
    BY <1>6, <1>7
  <1>9. ASSUME NEW l \in Seq(Byte), NEW e \in Seq(Byte), Len(l) + Len(e) <= INPUT_BUF,
               Len(l) + Len(e) = INPUT_BUF => l # <<>>,
               NEW i \in Numbers, NEW j \in Numbers,
               Between(last, l, i), Between(i, e, j), Between(j, Unread(k), arrived),
               NEW v \in Seq(Byte), l = lines \o v
        PROVE  Buffer(l, e, k) \in FineBuffers
    <2>1. PICK r : r = Buffer(l, e, k)
      OBVIOUS
    <2>2. r.lines = l /\ r.edit = e /\ r.n = k
      BY <2>1 DEF Buffer
    <2>3. r \in Buffers
      BY <1>2, <2>1 DEF Buffers, Buffer
    <2>4. Cuts(last, r.lines, r.edit, Unread(r.n), arrived)
      BY <1>9, <2>2 DEF Cuts
    <2> QED BY <1>9, <2>1, <2>2, <2>3, <2>4 DEF FineBuffers, Fine, Used
  <1>10. /\ Append(s.edit, x) \in Seq(Byte) /\ Len(Append(s.edit, x)) = Len(s.edit) + 1
         /\ Between(b, Append(s.edit, x), y)
    BY <1>1, <1>4, <1>8, Appended
  <1>12. CASE Cook(s, rx[k]) = Commit(s, x)
    <2>1. PICK a \in Seq(Byte) : a = Append(s.edit, x) /\ Len(a) = Len(s.edit) + 1
                                 /\ Between(b, a, y)
      BY <1>10
    <2>2. s.lines \o a \in Seq(Byte) /\ Len(s.lines \o a) = Len(s.lines) + Len(a)
          /\ Between(last, s.lines \o a, y)
      BY <1>1, <1>2, <1>4, <1>8, <2>1, Joined
    <2>3. At(Cook(s, rx[k]), k) = Buffer(s.lines \o a, <<>>, k)
      <3>1. At(Commit(s, x), k)
              = Buffer(s.lines \o Append(s.edit, x), <<>>, k)
        BY <1>1, Stepped
      <3> QED BY <1>12, <2>1, <3>1
    <2>4. <<>> \in Seq(Byte) /\ Len(<<>>) = 0 /\ Between(y, <<>>, y)
      BY <1>8, Empty
    <2>5. s.lines \o a = lines \o (t \o a) /\ t \o a \in Seq(Byte)
      <3>1. (lines \o t) \o a = lines \o (t \o a)
        BY <1>2, <1>5, <2>1, Assoc
      <3>2. t \o a \in Seq(Byte)
        BY <1>5, <2>1
      <3> QED BY <1>5, <3>1, <3>2
    <2>6. PICK l \in Seq(Byte) : l = s.lines \o a /\ Len(l) = p + q + 1
      <3>1. Len(s.lines \o a) = p + (q + 1)
        BY <1>3, <2>1, <2>2
      <3>2. p + (q + 1) = p + q + 1
        OBVIOUS
      <3> QED BY <2>2, <3>1, <3>2
    <2>7. Len(l) <= INPUT_BUF /\ l # <<>>
      <3>1. p + q + 1 <= size /\ p + q + 1 # 0
        BY <1>17
      <3> QED BY <1>16, <2>6, <3>1
    <2>8. Buffer(l, <<>>, k) \in FineBuffers
      <3>1. Len(l) + Len(<<>>) <= INPUT_BUF
        BY <2>4, <2>7
      <3> QED BY <1>8, <1>9, <2>2, <2>4, <2>5, <2>6, <2>7, <3>1
    <2> QED BY <2>3, <2>6, <2>8
  <1>13. CASE Cook(s, rx[k]) = s
    <2>1. At(Cook(s, rx[k]), k) = Buffer(s.lines, s.edit, k)
      BY <1>1, <1>13, Stepped
    <2>2. Between(c, Unread(k), arrived)
      <3>1. c <= y
        BY <1>8, Params DEF Numbers
      <3> QED BY <1>2, <1>6, <1>8, <3>1, Weaker
    <2>3. p + q <= size /\ p + q # size
      BY <1>17
    <2>4. /\ Len(s.lines) + Len(s.edit) <= INPUT_BUF
          /\ Len(s.lines) + Len(s.edit) = INPUT_BUF => s.lines # <<>>
      BY <1>3, <1>16, <2>3
    <2>5. Buffer(s.lines, s.edit, k) \in FineBuffers
      BY <1>1, <1>4, <1>5, <1>9, <2>2, <2>4
    <2> QED BY <2>1, <2>5
  <1>14. CASE s.edit # <<>> /\ Cook(s, rx[k]) = Typing(s, Front(s.edit))
    <2>1. PICK e \in Seq(Byte) : e = Front(s.edit) /\ Len(e) = Len(s.edit) - 1
                                 /\ Between(b, e, c)
      BY <1>1, <1>4, <1>14, Shortened
    <2>2. At(Cook(s, rx[k]), k) = Buffer(s.lines, e, k)
      <3>1. At(Typing(s, e), k) = Buffer(s.lines, e, k)
        BY <1>1, Stepped
      <3>2. Cook(s, rx[k]) = Typing(s, e)
        BY <1>14, <2>1
      <3> QED BY <3>1, <3>2
    <2>3. Between(c, Unread(k), arrived)
      <3>1. c <= y
        BY <1>8, Params DEF Numbers
      <3> QED BY <1>2, <1>6, <1>8, <3>1, Weaker
    <2>4. p + (q - 1) <= size /\ p + (q - 1) # size
      BY <1>17
    <2>5. /\ Len(s.lines) + Len(e) <= INPUT_BUF
          /\ Len(s.lines) + Len(e) = INPUT_BUF => s.lines # <<>>
      BY <1>3, <1>16, <2>1, <2>4
    <2>6. Buffer(s.lines, e, k) \in FineBuffers
      BY <1>1, <1>4, <1>5, <1>9, <2>1, <2>3, <2>5
    <2> QED BY <2>2, <2>6
  <1>15. CASE Used(s) + 1 # INPUT_BUF /\ Cook(s, rx[k]) = Typing(s, Append(s.edit, x))
    <2>1. PICK e \in Seq(Byte) : e = Append(s.edit, x) /\ Len(e) = Len(s.edit) + 1
                                 /\ Between(b, e, y)
      BY <1>10
    <2>2. At(Cook(s, rx[k]), k) = Buffer(s.lines, e, k)
      <3>1. At(Typing(s, e), k) = Buffer(s.lines, e, k)
        BY <1>1, Stepped
      <3>2. Cook(s, rx[k]) = Typing(s, e)
        BY <1>15, <2>1
      <3> QED BY <3>1, <3>2
    <2>3. p + q + 1 # size
      BY <1>3, <1>15, <1>16 DEF Used
    <2>6. p + (q + 1) <= size /\ p + (q + 1) # size
      BY <1>17, <2>3
    <2>4. /\ Len(s.lines) + Len(e) <= INPUT_BUF
          /\ Len(s.lines) + Len(e) = INPUT_BUF => s.lines # <<>>
      BY <1>3, <1>16, <2>1, <2>6
    <2>5. Buffer(s.lines, e, k) \in FineBuffers
      BY <1>1, <1>4, <1>5, <1>8, <1>9, <2>1, <2>4
    <2> QED BY <2>2, <2>5
  <1> QED BY <1>7, <1>12, <1>13, <1>14, <1>15

(* cons_poll ends with a fine buffer. *)
LEMMA PolledIs ==
    ASSUME BufferInv
    PROVE  Polled \in FineBuffers
  <1> DEFINE D == FineBuffers
             a == [lines |-> lines, edit |-> edit, n |-> 0]
             step == [k \in 1..Len(rx) |-> [x \in D |-> Turn(k, x)]]
             F == CHOOSE f : f = [k \in 0..Len(rx) |-> IF k = 0 THEN a ELSE Turn(k, f[k-1])]
  <1>1. Polled = F[Len(rx)]
    BY DEF Polled, Turn, At
  <1>2. ASSUME NEW k \in 1..Len(rx), NEW x \in D PROVE Turn(k, x) \in D
    BY TurnKeeps
  <1>3. Len(rx) \in Nat /\ rx \in Seq(Byte)
    BY DEF BufferInv, Types
  <1>4. a \in D
    <2>1. lines \in Seq(Byte) /\ edit \in Seq(Byte)
      BY DEF BufferInv, Types
    <2>2. a \in Buffers /\ a.lines = lines /\ a.edit = edit /\ a.n = 0
      BY <1>3, <2>1 DEF Buffers
    <2>3. Unread(0) = rx
      BY <1>3 DEF Unread
    <2>4. lines = lines \o <<>> /\ <<>> \in Seq(Byte)
      BY <2>1
    <2> HIDE DEF a
    <2>5. Fine(a)
      BY <2>2, <2>3, <2>4 DEF Fine, BufferInv, Types, FullIsReadable, Used
    <2> QED BY <2>2, <2>5 DEF FineBuffers
  <1> HIDE DEF D, a
  <1>5. step \in StepsOn(D, Len(rx))
    BY <1>2 DEF StepsOn
  <1>6. PICK g : Iterates(g, D, Len(rx), a, step)
    <2> HIDE DEF step
    <2> QED BY <1>3, <1>4, <1>5, Recursion
  <1>7. /\ g \in [0..Len(rx) -> D] /\ g[0] = a
        /\ \A i \in 1..Len(rx) : g[i] = step[i][g[i - 1]]
    BY <1>6 DEF Iterates
  <1>8. g = [k \in 0..Len(rx) |-> IF k = 0 THEN a ELSE Turn(k, g[k-1])]
    <2>1. \A k \in 0..Len(rx) : k # 0 => k \in 1..Len(rx) /\ k - 1 \in 0..Len(rx)
      BY <1>3
    <2>2. \A k \in 0..Len(rx) : g[k] = IF k = 0 THEN a ELSE Turn(k, g[k-1])
      BY <1>7, <2>1
    <2> QED BY <1>7, <2>2
  <1>9. F = [k \in 0..Len(rx) |-> IF k = 0 THEN a ELSE Turn(k, F[k-1])]
    BY <1>8
  <1> HIDE DEF F
  <1>10. F[0] = a /\ \A k \in 1..Len(rx) : F[k] = Turn(k, F[k-1])
    BY <1>3, <1>9
  <1> DEFINE S == {k \in Nat : k <= Len(rx) => F[k] \in D}
  <1>11. 0 \in S
    BY <1>4, <1>10
  <1>12. ASSUME NEW k \in Nat, k \in S PROVE k + 1 \in S
    <2> SUFFICES ASSUME k + 1 <= Len(rx) PROVE F[k + 1] \in D
      OBVIOUS
    <2>1. F[k] \in D /\ k + 1 \in 1..Len(rx) /\ (k + 1) - 1 = k
      BY <1>3, <1>12
    <2>2. F[k + 1] = Turn(k + 1, F[k])
      BY <1>10, <2>1
    <2> QED BY <1>2, <2>1, <2>2
  <1> HIDE DEF S
  <1>13. Len(rx) \in S
    BY <1>3, <1>11, <1>12, SetInduction
  <1> QED BY <1>1, <1>3, <1>13 DEF S, D

-----------------------------------------------------------------------------
(* What cons_poll leaves: l committed, e typed, r not taken. *)
Room(l, e) == Len(l) + Len(e) <= INPUT_BUF /\ (Len(l) + Len(e) = INPUT_BUF => l # <<>>)
Leaves(l, e, r) == l = Polled.lines /\ e = Polled.edit /\ r = SubSeq(rx, Polled.n + 1, Len(rx))

LEMMA PollLeaves ==
    ASSUME BufferInv
    PROVE  \E l, e, r, t \in Seq(Byte) :
              Leaves(l, e, r) /\ Room(l, e) /\ Cuts(last, l, e, r, arrived) /\ l = lines \o t
  <1>1. PICK s \in FineBuffers : s = Polled
    BY PolledIs
  <1>2. s \in Buffers /\ s.lines \in Seq(Byte) /\ s.edit \in Seq(Byte) /\ s.n \in 0..Len(rx)
    BY BufferIs DEF FineBuffers
  <1>3. Unread(s.n) \in Seq(Byte)
    <2>1. rx \in Seq(Byte)
      BY DEF BufferInv, Types
    <2>2. PICK k \in 0..Len(rx) : k = s.n
      BY <1>2
    <2>3. SubSeq(rx, k + 1, Len(rx)) \in Seq(Byte)
      BY <2>1
    <2> QED BY <2>2, <2>3 DEF Unread
  <1>4. Room(s.lines, s.edit) /\ Cuts(last, s.lines, s.edit, Unread(s.n), arrived)
    BY DEF FineBuffers, Fine, Used, Room
  <1>5. PICK t \in Seq(Byte) : s.lines = lines \o t
    BY DEF FineBuffers, Fine
  <1>6. Leaves(s.lines, s.edit, Unread(s.n))
    BY <1>1 DEF Leaves, Unread
  <1> QED BY <1>2, <1>3, <1>4, <1>5, <1>6

(* kconsread takes something when there is something, and no more. *)
LEMMA TakenIs ==
    ASSUME NEW s \in Seq(Byte), NEW n \in Nat, n >= 1
    PROVE  Taken(s, n) \in 0..Len(s) /\ (s # <<>> => Taken(s, n) >= 1)
  <1> DEFINE stop == {k \in 1..Len(s) : s[k][1] = "newline" \/ k = n}
  <1>1. Len(s) \in Nat /\ (s # <<>> => Len(s) >= 1)
    OBVIOUS
  <1>2. CASE stop = {}
    <2>1. Taken(s, n) = Len(s)
      BY <1>2 DEF Taken
    <2> QED BY <1>1, <2>1
  <1>3. CASE stop # {}
    <2>1. stop \in SUBSET Nat
      BY <1>1
    <2>2. \E k \in stop : \A j \in stop : k <= j
      BY <1>3, <2>1, LeastNat
    <2>3. Taken(s, n) = CHOOSE k \in stop : \A j \in stop : k <= j
      BY <1>3 DEF Taken
    <2> HIDE DEF stop
    <2>4. Taken(s, n) \in stop
      BY <2>2, <2>3
    <2>5. Taken(s, n) \in 1..Len(s)
      BY <2>4 DEF stop
    <2> QED BY <1>1, <2>5
  <1> QED BY <1>2, <1>3

LEMMA Prefixed ==
    ASSUME NEW s \in Seq(Byte), NEW t \in Seq(Byte)
    PROVE  IsPrefix(s, s \o t)
  <1>1. Len(s) <= Len(s \o t)
    OBVIOUS
  <1>2. SubSeq(s, 1, Len(s)) = s
    OBVIOUS
  <1>3. SubSeq(s \o t, 1, Len(s)) = s
    OBVIOUS
  <1> QED BY <1>1, <1>2, <1>3 DEF IsPrefix

(* Waking kills and revives nobody. *)
LEMMA WakeIs ==
    ASSUME Types, NEW c
    PROVE  /\ SelWake(st, c) \in [Procs -> {"run", "retry", "select", "dead"}]
           /\ \A p \in Procs : SelWake(st, c)[p] = "dead" <=> st[p] = "dead"
           /\ \A p \in Procs : SelWake(st, c)[p] = "select" => st[p] = "select" /\ ~c
  BY DEF SelWake, Types

LEMMA PollKeeps == ASSUME BufferInv, Poll PROVE BufferInv'
  <1>1. Types /\ RawOwnerLives
    BY DEF BufferInv
  <1>2. PICK l, e, r \in Seq(Byte) :
           Leaves(l, e, r) /\ Room(l, e) /\ Cuts(last, l, e, r, arrived)
    BY PollLeaves
  <1>3. PICK c : rx' = r /\ lines' = l /\ edit' = e /\ st' = SelWake(st, c)
    BY <1>2 DEF Poll, Leaves
  <1>4. UNCHANGED <<raw, rawpid, arrived, last>>
    BY DEF Poll
  <1>5. Types'
    BY <1>1, <1>2, <1>3, <1>4, WakeIs DEF Types, Room
  <1>6. Cuts(last, lines, edit, rx, arrived)' /\ FullIsReadable'
    BY <1>2, <1>3, <1>4 DEF Cuts, FullIsReadable, Room
  <1>7. RawOwnerLives'
    <2>1. \A p \in Procs : st'[p] = "dead" <=> st[p] = "dead"
      BY <1>1, <1>3, WakeIs
    <2> QED BY <1>1, <1>4, <2>1 DEF RawOwnerLives, Types
  <1> QED BY <1>5, <1>6, <1>7 DEF BufferInv

LEMMA ReadKeeps ==
    ASSUME BufferInv, NEW p \in Procs, NEW n \in 1..MaxRead, Read(p, n)
    PROVE  BufferInv'
  <1>1. Types /\ RawOwnerLives
    BY DEF BufferInv
  <1>2. PICK l, e, r \in Seq(Byte) :
           Leaves(l, e, r) /\ Room(l, e) /\ Cuts(last, l, e, r, arrived)
    BY PollLeaves
  <1>3. PICK k : k = Taken(l, n)
    OBVIOUS
  <1>4. /\ st[p] = "run"
        /\ rx' = r /\ edit' = e /\ lines' = SubSeq(l, k + 1, Len(l))
        /\ last' = (IF k = 0 THEN last ELSE l[k][2])
        /\ UNCHANGED <<raw, rawpid, arrived>>
    BY <1>2, <1>3 DEF Read, Leaves, Rest
  <1>5. PICK c, x : x \in {"run", "retry"} /\ st' = [SelWake(st, c) EXCEPT ![p] = x]
    BY DEF Read
  <1>6. k \in 0..Len(l) /\ (l # <<>> => k >= 1)
    <2>1. n \in Nat /\ n >= 1
      BY Params
    <2> QED BY <1>2, <1>3, <2>1, TakenIs
  <1>7. \A q \in Procs : st'[q] = "dead" <=> st[q] = "dead"
    BY <1>1, <1>4, <1>5, WakeIs
  <1>8. /\ lines' \in Seq(Byte) /\ last' \in Numbers
        /\ Cuts(last', lines', e, r, arrived)
        /\ Room(lines', e)
    <2>1. PICK b, c2 \in Numbers :
             Between(last, l, b) /\ Between(b, e, c2) /\ Between(c2, r, arrived)
      BY <1>2 DEF Cuts
    <2>2. CASE k = 0
      <3>1. l = <<>> /\ lines' = l /\ last' = last
        BY <1>2, <1>4, <1>6, <2>2
      <3> QED BY <1>1, <1>2, <3>1 DEF Types
    <2>3. CASE k # 0
      <3>1. k \in 1..Len(l)
        BY <1>6, <2>3
      <3>2. last \in Numbers
        BY <1>1 DEF Types
      <3>3. /\ SubSeq(l, k + 1, Len(l)) \in Seq(Byte)
            /\ Len(SubSeq(l, k + 1, Len(l))) = Len(l) - k
            /\ l[k] \in Byte
            /\ Between(l[k][2], SubSeq(l, k + 1, Len(l)), b)
        BY <2>1, <3>1, <3>2, Dropped
      <3>4. last' = l[k][2] /\ last' \in Numbers
        BY <1>4, <2>3, <3>3, ByteIs
      <3>5. Cuts(last', lines', e, r, arrived)
        BY <1>4, <2>1, <3>3, <3>4 DEF Cuts
      <3>6. PICK m \in Nat, j \in Nat, size \in Nat : m = Len(l) /\ j = Len(e) /\ size = INPUT_BUF
        BY Params
      <3>7. m + j <= size /\ k \in Nat /\ k >= 1 /\ k <= m
        BY <1>2, <3>1, <3>6 DEF Room
      <3>8. m - k + j <= size /\ m - k + j # size
        BY <3>7
      <3>9. Len(lines') = m - k
        BY <1>4, <3>3, <3>6
      <3>10. Room(lines', e)
        BY <3>6, <3>8, <3>9 DEF Room
      <3> QED BY <1>4, <3>3, <3>4, <3>5, <3>10
    <2> QED BY <2>2, <2>3
  <1>9. Types'
    <2>1. st' \in [Procs -> {"run", "retry", "select", "dead"}]
      BY <1>1, <1>5, WakeIs
    <2> QED BY <1>1, <1>2, <1>4, <1>8, <2>1 DEF Types, Room
  <1>10. Cuts(last, lines, edit, rx, arrived)' /\ FullIsReadable'
    BY <1>4, <1>8 DEF Cuts, FullIsReadable, Room
  <1>11. RawOwnerLives'
    BY <1>1, <1>4, <1>7 DEF RawOwnerLives, Types
  <1> QED BY <1>9, <1>10, <1>11 DEF BufferInv

LEMMA ArriveKeeps ==
    ASSUME BufferInv, NEW kind \in Keys, Arrive(kind)
    PROVE  BufferInv'
  <1>1. Types /\ FullIsReadable /\ RawOwnerLives
    BY DEF BufferInv
  <1>2. /\ arrived < MaxBytes
        /\ rx' = Append(rx, <<kind, arrived + 1>>)
        /\ arrived' = arrived + 1
        /\ UNCHANGED <<lines, edit, raw, rawpid, st, last>>
    BY DEF Arrive
  <1>3. arrived \in Nat /\ arrived \in Numbers /\ arrived + 1 \in 1..MaxBytes
    BY <1>1, <1>2, Params DEF Types, Numbers
  <1>4. PICK x \in Byte : x = <<kind, arrived + 1>>
    <2>1. kind \in Kind
      BY Params
    <2> QED BY <1>3, <2>1 DEF Byte
  <1>5. x[2] = arrived + 1 /\ arrived < x[2] /\ x[2] \in Numbers
    BY <1>3, <1>4, Params DEF Numbers
  <1>6. PICK b, c \in Numbers :
           Between(last, lines, b) /\ Between(b, edit, c) /\ Between(c, rx, arrived)
    BY DEF BufferInv, Cuts
  <1>7. Append(rx, x) \in Seq(Byte) /\ Between(c, Append(rx, x), x[2])
    BY <1>1, <1>3, <1>5, <1>6, Appended DEF Types
  <1>8. rx' = Append(rx, x) /\ arrived' = x[2]
    BY <1>2, <1>4, <1>5
  <1>9. Types'
    BY <1>1, <1>2, <1>5, <1>7, <1>8 DEF Types
  <1>10. Cuts(last, lines, edit, rx, arrived)'
    BY <1>2, <1>6, <1>7, <1>8 DEF Cuts
  <1>11. FullIsReadable' /\ RawOwnerLives'
    BY <1>1, <1>2 DEF FullIsReadable, RawOwnerLives
  <1> QED BY <1>9, <1>10, <1>11 DEF BufferInv

LEMMA RawOnKeeps ==
    ASSUME BufferInv, NEW p \in Procs, RawOn(p)
    PROVE  BufferInv' /\ IsPrefix(lines, lines')
  <1>1. Types
    BY DEF BufferInv
  <1>2. /\ st[p] = "run" /\ raw' = TRUE /\ rawpid' = p
        /\ lines' = lines \o edit /\ edit' = <<>>
        /\ UNCHANGED <<rx, st, arrived, last>>
    BY DEF RawOn
  <1>3. lines \in Seq(Byte) /\ edit \in Seq(Byte) /\ last \in Numbers
    BY <1>1 DEF Types
  <1>4. PICK b, c \in Numbers :
           Between(last, lines, b) /\ Between(b, edit, c) /\ Between(c, rx, arrived)
    BY DEF BufferInv, Cuts
  <1>5. /\ lines \o edit \in Seq(Byte) /\ Len(lines \o edit) = Len(lines) + Len(edit)
        /\ Between(last, lines \o edit, c)
    BY <1>3, <1>4, Joined
  <1>6. <<>> \in Seq(Byte) /\ Len(<<>>) = 0 /\ Between(c, <<>>, c)
    BY Empty
  <1>7. Cuts(last, lines, edit, rx, arrived)'
    BY <1>2, <1>4, <1>5, <1>6 DEF Cuts
  <1>8. Len(lines') + Len(edit') = Len(lines) + Len(edit)
    BY <1>2, <1>3, <1>5, <1>6
  <1>9. Types'
    <2>1. Len(lines') + Len(edit') <= INPUT_BUF
      BY <1>1, <1>8 DEF Types
    <2> QED BY <1>1, <1>2, <1>5, <1>6, <2>1 DEF Types
  <1>10. FullIsReadable'
    <2> SUFFICES ASSUME lines' = <<>> PROVE Len(lines') + Len(edit') # INPUT_BUF
      BY DEF FullIsReadable
    <2> QED BY <1>2, <1>6, Params
  <1>11. RawOwnerLives'
    BY <1>1, <1>2, Params DEF RawOwnerLives, Types
  <1>12. IsPrefix(lines, lines')
    BY <1>2, <1>3, Prefixed
  <1> QED BY <1>7, <1>9, <1>10, <1>11, <1>12 DEF BufferInv

LEMMA OthersKeep ==
    ASSUME BufferInv,
           \/ \E p \in Procs : Select(p) \/ RawOff(p) \/ Die(p)
           \/ UNCHANGED vars
    PROVE  BufferInv' /\ lines' = lines
  <1>1. UNCHANGED <<rx, lines, edit, arrived, last>>
    BY DEF Select, RawOff, Die, vars
  <1>2. Types'
    BY <1>1 DEF BufferInv, Types, Select, RawOff, Die, Cooked, vars
  <1>3. Cuts(last, lines, edit, rx, arrived)' /\ FullIsReadable'
    BY <1>1 DEF BufferInv, Cuts, FullIsReadable
  <1>4. RawOwnerLives'
    BY Params DEF BufferInv, Types, RawOwnerLives, Select, RawOff, Die, Cooked, vars
  <1> QED BY <1>1, <1>2, <1>3, <1>4 DEF BufferInv

LEMMA InitBuffer == Init => BufferInv
  <1> SUFFICES ASSUME Init PROVE BufferInv
    OBVIOUS
  <1>1. 0 \in Numbers /\ Between(0, <<>>, 0)
    BY Params, Empty DEF Numbers
  <1>2. <<>> \in Seq(Byte) /\ Len(<<>>) = 0
    OBVIOUS
  <1>3. Types
    <2>1. Len(lines) + Len(edit) <= INPUT_BUF
      BY <1>2, Params DEF Init
    <2> QED BY <1>1, <1>2, <2>1 DEF Init, Types
  <1>4. Cuts(last, lines, edit, rx, arrived)
    BY <1>1 DEF Init, Cuts
  <1>5. FullIsReadable
    BY <1>2, Params DEF Init, FullIsReadable
  <1>6. RawOwnerLives
    BY DEF Init, RawOwnerLives
  <1> QED BY <1>3, <1>4, <1>5, <1>6 DEF BufferInv

LEMMA StepKeeps == ASSUME BufferInv, [Next]_vars PROVE BufferInv'
  <1>1. ASSUME NEW p \in Procs, NEW n \in 1..MaxRead, Read(p, n) PROVE BufferInv'
    BY <1>1, ReadKeeps
  <1>2. ASSUME NEW kind \in Keys, Arrive(kind) PROVE BufferInv'
    BY <1>2, ArriveKeeps
  <1>3. ASSUME NEW p \in Procs, RawOn(p) PROVE BufferInv'
    BY <1>3, RawOnKeeps
  <1> QED BY <1>1, <1>2, <1>3, PollKeeps, OthersKeep DEF Next

(* Every reachable state of the console satisfies the inductive invariant. *)
THEOREM ConsInvariance == Spec => []BufferInv
  <1>1. BufferInv /\ [Next]_vars => BufferInv'
    BY StepKeeps
  <1> QED BY InitBuffer, <1>1, PTL DEF Spec

(* cons_buf is never overfilled, its bytes are in the order they were typed
   across lines, modes and readers, a full buffer has something to read in it,
   and raw mode never outlives its owner. *)
THEOREM TypedIsInOrder == Spec => []ConsInv
  <1>1. BufferInv => ConsInv
    <2> SUFFICES ASSUME BufferInv PROVE ConsInv
      OBVIOUS
    <2>1. TypeOK
      <3>1. Range(rx) \subseteq Byte /\ Range(lines) \subseteq Byte /\ Range(edit) \subseteq Byte
        BY DEF BufferInv, Types, Range
      <3> QED BY <3>1 DEF BufferInv, Types, TypeOK, Numbers
    <2>2. InOrder
      <3>1. /\ lines \in Seq(Byte) /\ edit \in Seq(Byte) /\ rx \in Seq(Byte)
            /\ last \in Numbers /\ arrived \in Numbers
        BY DEF BufferInv, Types
      <3>2. PICK b, c \in Numbers :
               Between(last, lines, b) /\ Between(b, edit, c) /\ Between(c, rx, arrived)
        BY DEF BufferInv, Cuts
      <3>3. lines \o edit \in Seq(Byte) /\ Between(last, lines \o edit, c)
        BY <3>1, <3>2, Joined
      <3>4. PICK q \in Seq(Byte) : q = (lines \o edit) \o rx /\ Between(last, q, arrived)
        BY <3>1, <3>2, <3>3, Joined
      <3>5. ASSUME NEW i \in 1..Len(q)
            PROVE  q[i][2] > (IF i = 1 THEN last ELSE q[i-1][2])
        <4>1. q[i][2] \in Nat /\ last \in Nat
          BY <3>1, ElementIs, Params DEF Numbers
        <4>2. CASE i = 1
          BY <3>4, <4>1, <4>2 DEF Between
        <4>3. CASE i # 1
          <5>1. i - 1 \in 1..Len(q) /\ i - 1 < i
            BY <4>3
          <5>2. q[i-1][2] < q[i][2]
            BY <3>4, <5>1 DEF Between
          <5>3. q[i-1][2] \in Nat
            BY <5>1, ElementIs
          <5> QED BY <4>1, <4>3, <5>2, <5>3
        <4> QED BY <4>2, <4>3
      <3> QED BY <3>4, <3>5 DEF InOrder
    <2> QED BY <2>1, <2>2 DEF ConsInv, BufferInv
  <1> QED BY ConsInvariance, <1>1, PTL

(* A step other than a read only adds to what has been committed: backspace
   never reaches behind the open line. *)
THEOREM BackspaceStops == Spec => CommittedStays
  <1>1. ASSUME BufferInv, [Next]_vars
        PROVE  [\/ IsPrefix(lines, lines')
                \/ \E p \in Procs, n \in 1..MaxRead : Read(p, n)]_vars
    <2>1. lines \in Seq(Byte)
      BY <1>1 DEF BufferInv, Types
    <2>2. lines' = lines => IsPrefix(lines, lines')
      <3>1. lines \o <<>> = lines /\ <<>> \in Seq(Byte)
        BY <2>1
      <3>2. IsPrefix(lines, lines \o <<>>)
        BY <2>1, <3>1, Prefixed
      <3> QED BY <3>1, <3>2
    <2>3. ASSUME Poll PROVE IsPrefix(lines, lines')
      <3>1. PICK l, t \in Seq(Byte) : l = Polled.lines /\ l = lines \o t
        BY <1>1, PollLeaves DEF Leaves
      <3>2. lines' = l
        BY <2>3, <3>1 DEF Poll
      <3> QED BY <2>1, <3>1, <3>2, Prefixed
    <2>4. ASSUME NEW p \in Procs, RawOn(p) PROVE IsPrefix(lines, lines')
      BY <1>1, <2>4, RawOnKeeps
    <2>5. ASSUME NEW kind \in Keys, Arrive(kind) PROVE lines' = lines
      BY <2>5 DEF Arrive
    <2>6. ASSUME NEW p \in Procs, Select(p) \/ RawOff(p) \/ Die(p) PROVE lines' = lines
      BY <2>6 DEF Select, RawOff, Die
    <2> QED BY <1>1, <2>2, <2>3, <2>4, <2>5, <2>6 DEF Next
  <1>2. BufferInv /\ [Next]_vars
          => [\/ IsPrefix(lines, lines')
              \/ \E p \in Procs, n \in 1..MaxRead : Read(p, n)]_vars
    BY <1>1
  <1> QED BY ConsInvariance, <1>2, PTL DEF Spec, CommittedStays

(* While nobody goes raw over a reader that is asleep, no process sleeps in
   read() with committed input in the buffer: every commit wakes. *)
THEOREM NobodySleepsOnInput == ASSUME ~Background PROVE Spec => []SleeperHasNoInput
  <1>1. Init => SleeperHasNoInput
    BY DEF Init, SleeperHasNoInput
  <1>2. ASSUME BufferInv, SleeperHasNoInput, [Next]_vars PROVE SleeperHasNoInput'
    <2>1. Types
      BY <1>2 DEF BufferInv
    <2>2. ASSUME Poll PROVE SleeperHasNoInput'
      <3>1. PICK l : lines' = l /\ st' = SelWake(st, l # lines)
        BY <2>2 DEF Poll
      <3>2. \A p \in Procs : st'[p] = "select" => st[p] = "select" /\ l = lines
        BY <2>1, <3>1, WakeIs
      <3> QED BY <1>2, <3>1, <3>2 DEF SleeperHasNoInput
    <2>3. ASSUME NEW p \in Procs, NEW n \in 1..MaxRead, Read(p, n) PROVE SleeperHasNoInput'
      <3>1. PICK l \in Seq(Byte) : l = Polled.lines
        BY <1>2, PollLeaves DEF Leaves
      <3>2. PICK x : /\ x \in {"run", "retry"} /\ st' = [SelWake(st, l # lines) EXCEPT ![p] = x]
                     /\ lines' = SubSeq(l, Taken(l, n) + 1, Len(l))
        BY <2>3, <3>1 DEF Read, Rest
      <3>3. \A q \in Procs : st'[q] = "select" => st[q] = "select" /\ l = lines
        BY <2>1, <3>2, WakeIs
      <3>4. ASSUME NEW q \in Procs, st'[q] = "select" PROVE lines' = <<>>
        <4>1. l = <<>>
          BY <1>2, <3>3, <3>4 DEF SleeperHasNoInput
        <4>2. Taken(l, n) \in 0..0
          <5>1. n \in Nat /\ n >= 1
            BY Params
          <5> QED BY <3>1, <4>1, <5>1, TakenIs
        <4> QED BY <3>2, <4>1, <4>2
      <3> QED BY <3>4 DEF SleeperHasNoInput
    <2>4. ASSUME NEW p \in Procs, RawOn(p) PROVE SleeperHasNoInput'
      BY <2>4 DEF RawOn, SleeperHasNoInput
    <2>5. ASSUME NEW kind \in Keys, Arrive(kind) PROVE SleeperHasNoInput'
      BY <1>2, <2>5 DEF Arrive, SleeperHasNoInput
    <2>6. ASSUME NEW p \in Procs, Select(p) \/ RawOff(p) \/ Die(p) PROVE SleeperHasNoInput'
      BY <1>2, <2>1, <2>6 DEF Select, RawOff, Die, SleeperHasNoInput, Types
    <2>7. CASE UNCHANGED vars
      BY <1>2, <2>7 DEF vars, SleeperHasNoInput
    <2> QED BY <1>2, <2>2, <2>3, <2>4, <2>5, <2>6, <2>7 DEF Next
  <1>3. BufferInv /\ SleeperHasNoInput /\ [Next]_vars => SleeperHasNoInput'
    BY <1>2
  <1> QED BY ConsInvariance, <1>1, <1>3, PTL DEF Spec
=============================================================================
