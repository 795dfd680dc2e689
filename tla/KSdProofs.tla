----------------------------- MODULE KSdProofs -----------------------------
(***************************************************************************)
(* Theorems about the SD driver and the console ring it shares a channel   *)
(* with, for every ring, every width of its cursors, every size of card    *)
(* and cache and every number of retries.                                  *)
(*                                                                         *)
(* The ring: the bytes sent are the reclaimed ones and what the burst has  *)
(* drained (Cursors), the channel reads where the byte after them lies     *)
(* (InPlace), and a store only happens with room left (Room).  Cursors are *)
(* words; two of them are never more than a ring apart, so sums and        *)
(* differences are those of integers but for one wrap.                     *)
(*                                                                         *)
(* The driver: what CS and the drain channel are doing follows from where  *)
(* the driver is, and so does what the card is doing unless a run went     *)
(* unheard (Session); a DMA transfer is only under way while none has ever *)
(* wedged, and the clock is the fast one until it fails (Trusted); the     *)
(* FIFO is clean from the command on (Clean), and what has been delivered  *)
(* is right unless a run went unheard (Delivered).                         *)
(***************************************************************************)
EXTENDS KSd, Integers, TLAPS

Cursors ==
    /\ user = "sd" <=> pc = "borrow"
    /\ user = "cons" => count <= prog /\ sent = Add(tail, prog - count)
    /\ user = "sd" => sent = Add(tail, prog)
    /\ BurstIsQueued

InPlace == rd = sent % TXSZ

Room == pc = "store" => Queued < TXSZ

RingInv == TypeOK /\ Cursors /\ InPlace /\ Room /\ WireInOrder

Busy == {"token", "payload", "drain", "poll"}

Session ==
    /\ card = "adrift" => unheard
    /\ at \in {"idle", "select"} => ~sel /\ card \in {"ready", "adrift"}
    /\ at = "cmd" => tries < Tries /\ card # "run" /\ (card = "block" => mode # "run")
    /\ at \in Busy => card \in {"adrift", IF mode = "run" THEN "run" ELSE "block"}
    /\ at = "stop" => mode = "run"
    /\ at = "poll" => mode = "polled"
    /\ at \in {"payload", "drain"} => mode # "polled"
    /\ ch11 => at = "drain"
    /\ pc = "borrow" => at = "drain"
    /\ pc = "user" => at = "idle" /\ want = "none"

Trusted ==
    /\ sd_burst_state = 2 /\ at \notin {"idle", "stop"} => mode = "polled"
    /\ at = "stop" /\ ret = 0 => sd_burst_state # 2
    /\ ClockIsSet

Clean == at \in Busy => ~stale

Wanted ==
    /\ at # "idle" => want # "none"
    /\ mode = "run" => want = "span"
    /\ at \notin {"idle", "stop"} => lba <= NSEC
    /\ mode # "run" => lba <= NSEC

Delivered ==
    /\ at \in {"idle", "stop"} /\ mode = "run" /\ ret = 0 => lba = NSEC + 1
    /\ want = "cache" => sdtag[sdvict] = 0
    /\ ~unheard =>
          /\ mode = "run" /\ (at # "idle" \/ ret = 0) =>
                \A s \in Sector : s < lba => dst[s] = s
          /\ at = "idle" /\ ret = 0 /\ mode # "run" =>
                /\ want = "span" => dst[lba] = lba
                /\ want = "cache" => cache[sdvict] = lba
          /\ \A v \in Entry : sdtag[v] # 0 => cache[v] = sdtag[v]

DriverInv == SdTypeOK /\ Session /\ Trusted /\ Clean /\ Wanted /\ Delivered

IInv == RingInv /\ DriverInv

-----------------------------------------------------------------------------
(* Arithmetic of the cursors. *)

LEMMA ModRange ==
    ASSUME NEW a \in Int, NEW m \in Nat, m > 0
    PROVE  a % m \in 0..(m - 1) /\ \E q \in Int : a = (q * m) + (a % m)
  OBVIOUS

LEMMA ModUnique ==
    ASSUME NEW a \in Int, NEW m \in Nat, m > 0, NEW q \in Int, NEW r \in 0..(m - 1),
           a = (q * m) + r
    PROVE  a % m = r
  OBVIOUS

(* Below twice the modulus there is at most one wrap. *)
LEMMA ModOnce ==
    ASSUME NEW a \in Nat, NEW m \in Nat, m > 0, a < 2 * m
    PROVE  a % m = IF a < m THEN a ELSE a - m
  <1>1. CASE a < m
    BY <1>1, ModUnique
  <1>2. CASE ~(a < m)
    <2>1. a = (1 * m) + (a - m) /\ a - m \in 0..(m - 1)
      BY <1>2
    <2> QED BY <1>2, <2>1, ModUnique
  <1> QED BY <1>1, <1>2

LEMMA Sizes == TXSZ \in Nat /\ TXSZ > 0 /\ W \in Nat /\ TXSZ < W /\ SdCount \in Nat /\ SdCount > 0
  BY KConsTxAssumption

LEMMA AddIs ==
    ASSUME NEW a \in Word, NEW b \in 0..TXSZ
    PROVE  Add(a, b) = IF a + b < W THEN a + b ELSE a + b - W
  <1>1. a + b \in Nat /\ a + b < 2 * W /\ W > 0 /\ W \in Nat
    BY Sizes DEF Word
  <1>2. PICK c \in Nat : c = a + b
    BY <1>1
  <1>3. c % W = IF c < W THEN c ELSE c - W
    BY <1>1, <1>2, ModOnce
  <1> QED BY <1>1, <1>2, <1>3 DEF Add, Word

LEMMA SubIs ==
    ASSUME NEW a \in Word, NEW b \in Word
    PROVE  Sub(a, b) = IF b <= a THEN a - b ELSE a - b + W
  <1>1. a + W - b \in Nat /\ a + W - b < 2 * W /\ W > 0 /\ W \in Nat
    BY Sizes DEF Word
  <1>2. PICK c \in Nat : c = a + W - b
    BY <1>1
  <1>3. c % W = IF c < W THEN c ELSE c - W
    BY <1>1, <1>2, ModOnce
  <1> QED BY <1>1, <1>2, <1>3 DEF Sub, Word

LEMMA WordOps ==
    /\ \A a \in Word, b \in 0..TXSZ : Add(a, b) \in Word
    /\ \A a, b \in Word : Sub(a, b) \in Word
  <1>1. ASSUME NEW a \in Word, NEW b \in 0..TXSZ PROVE Add(a, b) \in Word
    BY AddIs, Sizes DEF Word
  <1>2. ASSUME NEW a \in Word, NEW b \in Word PROVE Sub(a, b) \in Word
    BY SubIs, Sizes DEF Word
  <1> QED BY <1>1, <1>2

LEMMA SlotIs ==
    ASSUME NEW r \in Slot, NEW k \in 0..TXSZ
    PROVE  (r + k) % TXSZ = IF r + k < TXSZ THEN r + k ELSE r + k - TXSZ
  <1>1. r + k \in Nat /\ r + k < 2 * TXSZ /\ TXSZ > 0 /\ TXSZ \in Nat
    BY Sizes DEF Slot
  <1>2. PICK c \in Nat : c = r + k
    BY <1>1
  <1>3. c % TXSZ = IF c < TXSZ THEN c ELSE c - TXSZ
    BY <1>1, <1>2, ModOnce
  <1> QED BY <1>1, <1>2, <1>3 DEF Slot

(* The ring's size divides the words, so the place of a byte in the ring
   follows its number across the wrap. *)
LEMMA SlotOfSum ==
    ASSUME NEW a \in Word, NEW k \in 0..TXSZ
    PROVE  /\ a % TXSZ \in Slot
           /\ Add(a, k) % TXSZ = ((a % TXSZ) + k) % TXSZ
  <1>1. PICK m \in Nat : m = TXSZ /\ m > 0
    BY Sizes
  <1>2. PICK r \in 0..(m - 1), q \in Int : r = a % m /\ a = (q * m) + r
    BY <1>1, ModRange DEF Word
  <1>3. PICK w \in Int : W = w * m
    <2>1. W \in Int /\ W % m = 0
      BY <1>1, KConsTxAssumption
    <2>2. PICK w \in Int : W = (w * m) + (W % m)
      BY <1>1, <2>1, ModRange
    <2> QED BY <2>1, <2>2
  <1>4. PICK b \in Int : b = r + k
    BY <1>1, <1>2
  <1>5. PICK u \in Int : b = (u * m) + (b % m)
    BY <1>1, ModRange
  <1>6. b % m \in 0..(m - 1)
    BY <1>1, ModRange
  <1>7. PICK c \in Int : c = Add(a, k)
    BY WordOps DEF Word
  <1>8. c = a + k \/ c = a + k - W
    BY <1>7, AddIs
  <1>9. CASE c = a + k
    <2>1. PICK v \in Int : v = q + u
      OBVIOUS
    <2>2. c = (v * m) + (b % m)
      BY <1>1, <1>2, <1>4, <1>5, <1>6, <1>9, <2>1
    <2>3. c % m = b % m
      BY <1>1, <1>6, <2>2, ModUnique
    <2> QED BY <1>1, <1>2, <1>4, <1>7, <2>3 DEF Slot
  <1>10. CASE c = a + k - W
    <2>1. PICK v \in Int : v = q + u - w
      OBVIOUS
    <2>2. c = (v * m) + (b % m)
      BY <1>1, <1>2, <1>3, <1>4, <1>5, <1>6, <1>10, <2>1
    <2>3. c % m = b % m
      BY <1>1, <1>6, <2>2, ModUnique
    <2> QED BY <1>1, <1>2, <1>4, <1>7, <2>3 DEF Slot
  <1> QED BY <1>8, <1>9, <1>10

-----------------------------------------------------------------------------
(* The ring. *)

LEMMA RingTypes ==
    ASSUME RingInv
    PROVE  /\ TXSZ \in Nat /\ TXSZ > 0 /\ W \in Nat /\ TXSZ < W
           /\ ring \in [Slot -> Word] /\ head \in Word /\ tail \in Word /\ sent \in Word
           /\ prog \in 0..TXSZ /\ count \in Nat /\ rd \in Slot
           /\ user \in {"cons", "sd"}
           /\ Queued \in 0..TXSZ
           /\ Queued = IF sent <= head THEN head - sent ELSE head - sent + W
  <1>1. TypeOK /\ Queued <= TXSZ
    BY DEF RingInv, WireInOrder
  <1>2. head \in Word /\ sent \in Word
    BY <1>1 DEF TypeOK
  <1>3. Queued \in Word /\ Queued = IF sent <= head THEN head - sent ELSE head - sent + W
    BY <1>2, SubIs, WordOps DEF Queued
  <1> QED BY <1>1, <1>2, <1>3, Sizes DEF TypeOK, Word

(* Nothing but the kernel's place changes. *)
LEMMA RingPc ==
    ASSUME RingInv, UNCHANGED <<ring, head, tail, prog, count, rd, user, sent>>,
           pc' \in {"user", "kernel", "wait", "space", "store"},
           user = "cons", pc' = "store" => Queued < TXSZ
    PROVE  RingInv'
  BY DEF RingInv, TypeOK, Cursors, BurstIsQueued, InPlace, Room, WireInOrder, Queued, Slot

LEMMA RingDrain == ASSUME RingInv, Drain PROVE RingInv'
  <1> USE DEF Drain
  <1>1. /\ TXSZ \in Nat /\ TXSZ > 0 /\ W \in Nat /\ TXSZ < W
        /\ ring \in [Slot -> Word] /\ head \in Word /\ tail \in Word /\ sent \in Word
        /\ prog \in 0..TXSZ /\ count \in Nat /\ rd \in Slot
        /\ Queued \in 0..TXSZ
        /\ Queued = IF sent <= head THEN head - sent ELSE head - sent + W
    BY RingTypes
  <1>2. count <= prog /\ sent = Add(tail, prog - count) /\ count <= Queued
    BY DEF RingInv, Cursors, BurstIsQueued
  <1>3. 1 \in 0..TXSZ /\ sent' = Add(sent, 1) /\ sent' \in Word
    BY <1>1, WordOps
  <1>4. sent' = IF sent + 1 < W THEN sent + 1 ELSE sent + 1 - W
    BY <1>1, <1>3, AddIs
  <1>5. Queued' = Sub(head, sent')
    BY DEF Queued
  <1>6. Queued' = IF sent' <= head THEN head - sent' ELSE head - sent' + W
    BY <1>1, <1>3, <1>5, SubIs
  <1>7. Queued' = Queued - 1
    BY <1>1, <1>2, <1>4, <1>6 DEF Word
  <1>8. rd' \in Slot /\ rd' = IF rd + 1 < TXSZ THEN rd + 1 ELSE rd + 1 - TXSZ
    BY <1>1, <1>3, SlotIs DEF Slot
  <1>9. TypeOK'
    BY <1>1, <1>3, <1>8 DEF RingInv, TypeOK
  <1>10. Cursors'
    <2>1. PICK m \in 0..TXSZ, n \in 0..TXSZ : m = prog - count /\ n = prog - count'
      BY <1>1, <1>2
    <2>2. Add(tail, m) = IF tail + m < W THEN tail + m ELSE tail + m - W
      BY <1>1, AddIs
    <2>3. Add(tail, n) = IF tail + n < W THEN tail + n ELSE tail + n - W
      BY <1>1, AddIs
    <2>4. sent' = Add(tail, n)
      BY <1>1, <1>2, <1>4, <2>1, <2>2, <2>3 DEF Word
    <2>5. sent' = Add(tail', prog' - count')
      BY <2>1, <2>4
    <2> QED BY <1>1, <1>2, <1>7, <2>5 DEF RingInv, Cursors, BurstIsQueued
  <1>11. InPlace'
    BY <1>1, <1>3, SlotOfSum DEF RingInv, InPlace
  <1>12. Room'
    BY <1>1, <1>7 DEF RingInv, Room
  <1>13. ASSUME NEW k \in 0..(TXSZ - 1), k < Queued'
         PROVE  ring[(rd' + k) % TXSZ] = Add(sent', k)
    <2>1. PICK j \in 0..(TXSZ - 1) : j = k + 1
      BY <1>1, <1>7, <1>13
    <2>2. ring[(rd + j) % TXSZ] = Add(sent, j)
      BY <1>1, <1>7, <1>13, <2>1 DEF RingInv, WireInOrder
    <2>3. (rd + j) % TXSZ = (rd' + k) % TXSZ
      <3>1. (rd + j) % TXSZ = IF rd + j < TXSZ THEN rd + j ELSE rd + j - TXSZ
        BY <1>1, SlotIs
      <3>2. (rd' + k) % TXSZ = IF rd' + k < TXSZ THEN rd' + k ELSE rd' + k - TXSZ
        BY <1>1, <1>8, SlotIs
      <3> QED BY <1>1, <1>8, <2>1, <3>1, <3>2 DEF Slot
    <2>4. Add(sent, j) = Add(sent', k)
      <3>1. Add(sent, j) = IF sent + j < W THEN sent + j ELSE sent + j - W
        BY <1>1, AddIs
      <3>2. Add(sent', k) = IF sent' + k < W THEN sent' + k ELSE sent' + k - W
        BY <1>1, <1>3, AddIs
      <3> QED BY <1>1, <1>4, <2>1, <3>1, <3>2 DEF Word
    <2> QED BY <2>2, <2>3, <2>4
  <1>14. WireInOrder'
    BY <1>1, <1>7, <1>13 DEF WireInOrder
  <1> QED BY <1>9, <1>10, <1>11, <1>12, <1>14 DEF RingInv

LEMMA RingClock == ASSUME RingInv, Clock PROVE RingInv'
  <1> USE DEF Clock
  <1>1. count' \in 0..SdCount
    BY Sizes DEF RingInv, TypeOK
  <1>2. TypeOK'
    BY <1>1 DEF RingInv, TypeOK
  <1> QED BY <1>2 DEF RingInv, Cursors, BurstIsQueued, InPlace, Room, WireInOrder, Queued

(* A burst that is over is reclaimed: tail catches up with sent, and what is
   queued is the new burst. *)
LEMMA RingKick ==
    ASSUME RingInv, Kick, UNCHANGED <<ring, head, rd, user, sent>>, user = "cons",
           pc' \in {"user", "kernel", "wait", "space"}
    PROVE  RingInv'
  <1>1. CASE count # 0
    <2>1. UNCHANGED <<tail, prog, count>>
      BY <1>1 DEF Kick
    <2> QED BY <2>1, RingPc
  <1>2. CASE count = 0
    <2>1. /\ TXSZ \in Nat /\ TXSZ > 0 /\ W \in Nat /\ TXSZ < W
          /\ head \in Word /\ tail \in Word /\ sent \in Word
          /\ prog \in 0..TXSZ /\ Queued \in 0..TXSZ
      BY RingTypes
    <2>2. sent = Add(tail, prog)
      BY <1>2, <2>1 DEF RingInv, Cursors
    <2>3. tail' = sent /\ prog' = Queued /\ count' = Queued
      BY <1>2, <2>2 DEF Kick, Queued
    <2>4. sent = Add(sent, 0)
      BY <2>1, AddIs DEF Word
    <2>5. sent' = Add(tail', prog' - count')
      BY <2>1, <2>3, <2>4
    <2>6. Queued' = Queued
      BY DEF Queued
    <2>7. TypeOK'
      BY <2>1, <2>3 DEF RingInv, TypeOK
    <2>8. Cursors'
      BY <2>1, <2>3, <2>5, <2>6 DEF RingInv, Cursors, BurstIsQueued
    <2>9. InPlace' /\ Room' /\ WireInOrder'
      BY <2>6 DEF RingInv, InPlace, Room, WireInOrder
    <2> QED BY <2>7, <2>8, <2>9 DEF RingInv
  <1> QED BY <1>1, <1>2

(* The test for space is exact: Used is what has not been sent. *)
LEMMA UsedIsQueued ==
    ASSUME RingInv, user = "cons"
    PROVE  Used = Queued
  <1>1. /\ TXSZ \in Nat /\ TXSZ > 0 /\ W \in Nat /\ TXSZ < W
        /\ head \in Word /\ tail \in Word /\ sent \in Word
        /\ prog \in 0..TXSZ /\ count \in Nat
        /\ Queued = IF sent <= head THEN head - sent ELSE head - sent + W
    BY RingTypes
  <1>2. count <= prog /\ sent = Add(tail, prog - count)
    BY DEF RingInv, Cursors
  <1>3. PICK d \in 0..TXSZ : d = prog - count
    BY <1>1, <1>2
  <1>4. drained = d
    <2>1. prog \in Word /\ count \in Word
      BY <1>1, <1>2 DEF Word
    <2> QED BY <1>1, <1>2, <1>3, <2>1, SubIs DEF drained
  <1>5. sent = IF tail + d < W THEN tail + d ELSE tail + d - W
    BY <1>1, <1>2, <1>3, AddIs
  <1>6. PICK u \in Word : u = Sub(head, tail)
    BY <1>1, WordOps
  <1>7. u = IF tail <= head THEN head - tail ELSE head - tail + W
    BY <1>1, <1>6, SubIs
  <1>8. Sub(u, d) = IF d <= u THEN u - d ELSE u - d + W
    <2>1. d \in Word
      BY <1>1 DEF Word
    <2> QED BY <2>1, SubIs
  <1>9. Used = Sub(u, d)
    BY <1>4, <1>6 DEF Used
  <1> QED BY <1>1, <1>3, <1>5, <1>7, <1>8, <1>9 DEF Word

(* The store goes behind what is queued, in the one place that is free. *)
LEMMA RingStore == ASSUME RingInv, TxStore PROVE RingInv'
  <1> USE DEF TxStore
  <1>1. /\ TXSZ \in Nat /\ TXSZ > 0 /\ W \in Nat /\ TXSZ < W
        /\ ring \in [Slot -> Word] /\ head \in Word /\ tail \in Word /\ sent \in Word
        /\ prog \in 0..TXSZ /\ count \in Nat /\ rd \in Slot
        /\ user \in {"cons", "sd"}
        /\ Queued \in 0..TXSZ
        /\ Queued = IF sent <= head THEN head - sent ELSE head - sent + W
    BY RingTypes
  <1>2. Queued < TXSZ /\ rd = sent % TXSZ /\ user = "cons"
    BY <1>1 DEF RingInv, Room, InPlace, Cursors
  <1>3. 1 \in 0..TXSZ /\ head' \in Word
    BY <1>1, WordOps
  <1>4. head' = IF head + 1 < W THEN head + 1 ELSE head + 1 - W
    BY <1>1, <1>3, AddIs
  <1>5. Queued' = Sub(head', sent)
    BY DEF Queued
  <1>6. Queued' = IF sent <= head' THEN head' - sent ELSE head' - sent + W
    BY <1>1, <1>3, <1>5, SubIs
  <1>7. Queued' = Queued + 1
    BY <1>1, <1>2, <1>4, <1>6 DEF Word
  <1>8. Add(sent, Queued) = head
    <2>1. Add(sent, Queued) = IF sent + Queued < W THEN sent + Queued ELSE sent + Queued - W
      BY <1>1, AddIs
    <2> QED BY <1>1, <2>1 DEF Word
  <1>9. head % TXSZ \in Slot /\ head % TXSZ = (rd + Queued) % TXSZ
    BY <1>1, <1>2, <1>8, SlotOfSum
  <1>10. (rd + Queued) % TXSZ = IF rd + Queued < TXSZ THEN rd + Queued ELSE rd + Queued - TXSZ
    BY <1>1, SlotIs
  <1>11. TypeOK'
    BY <1>1, <1>3, <1>9 DEF RingInv, TypeOK
  <1>12. Cursors'
    BY <1>1, <1>7 DEF RingInv, Cursors, BurstIsQueued
  <1>13. InPlace' /\ Room'
    BY DEF RingInv, InPlace, Room
  <1>14. ASSUME NEW k \in 0..(TXSZ - 1), k < Queued'
         PROVE  ring'[(rd + k) % TXSZ] = Add(sent, k)
    <2>1. (rd + k) % TXSZ = IF rd + k < TXSZ THEN rd + k ELSE rd + k - TXSZ
      BY <1>1, SlotIs
    <2>2. CASE k = Queued
      <3>1. ring'[head % TXSZ] = head
        BY <1>1, <1>9
      <3> QED BY <1>8, <1>9, <2>2, <3>1
    <2>3. CASE k # Queued
      <3>1. k < Queued
        BY <1>1, <1>7, <1>14, <2>3
      <3>2. PICK i \in Slot : i = (rd + k) % TXSZ
        BY <1>1, <2>1 DEF Slot
      <3>3. i # head % TXSZ
        <4>1. PICK h \in Slot : h = head % TXSZ
          BY <1>9
        <4>2. h = IF rd + Queued < TXSZ THEN rd + Queued ELSE rd + Queued - TXSZ
          BY <1>9, <1>10, <4>1
        <4>3. i = IF rd + k < TXSZ THEN rd + k ELSE rd + k - TXSZ
          BY <2>1, <3>2
        <4>4. i # h
          BY <1>1, <1>2, <3>1, <4>2, <4>3 DEF Slot
        <4> QED BY <4>1, <4>4
      <3>4. ring'[i] = ring[i]
        BY <1>1, <1>9, <3>3
      <3>5. ring[i] = Add(sent, k)
        BY <3>1, <3>2 DEF RingInv, WireInOrder
      <3> QED BY <3>2, <3>4, <3>5
    <2> QED BY <2>2, <2>3
  <1>15. WireInOrder'
    BY <1>1, <1>2, <1>7, <1>14 DEF WireInOrder
  <1> QED BY <1>11, <1>12, <1>13, <1>15 DEF RingInv

(* The channel is lent and given back between two bursts. *)
LEMMA RingBorrow == ASSUME RingInv, Borrow PROVE RingInv'
  <1> USE DEF Borrow, NotBusy
  <1>1. Queued' = Queued /\ count = 0 /\ user = "cons"
    BY DEF RingInv, Cursors, Queued, TypeOK
  <1>2. prog - count = prog
    BY <1>1, RingTypes
  <1>3. TypeOK'
    BY Sizes DEF RingInv, TypeOK
  <1>4. Cursors'
    BY <1>1, <1>2 DEF RingInv, Cursors, BurstIsQueued
  <1>5. InPlace' /\ Room' /\ WireInOrder'
    BY <1>1 DEF RingInv, InPlace, Room, WireInOrder
  <1> QED BY <1>3, <1>4, <1>5 DEF RingInv

LEMMA RingRestore == ASSUME RingInv, Restore PROVE RingInv'
  <1> USE DEF Restore
  <1>1. Queued' = Queued /\ count = 0 /\ user = "sd"
    BY DEF RingInv, Cursors, Queued, TypeOK
  <1>2. prog - count = prog /\ Queued \in Nat /\ prog >= 0 /\ prog \in Nat
    BY <1>1, RingTypes
  <1>3. TypeOK'
    BY Sizes DEF RingInv, TypeOK
  <1>4. Cursors'
    BY <1>1, <1>2 DEF RingInv, Cursors, BurstIsQueued
  <1>5. InPlace' /\ Room' /\ WireInOrder'
    BY <1>1 DEF RingInv, InPlace, Room, WireInOrder
  <1> QED BY <1>3, <1>4, <1>5 DEF RingInv

LEMMA RingKernel == ASSUME RingInv, Kernel PROVE RingInv'
  <1>1. CASE TxKick
    <2>1. user = "cons"
      BY <1>1, RingTypes DEF TxKick, RingInv, Cursors
    <2> QED BY <1>1, <2>1, RingKick DEF TxKick
  <1>2. CASE TxSpace
    <2>1. user = "cons"
      BY <1>2, RingTypes DEF TxSpace, RingInv, Cursors
    <2>2. pc' = "store" => Queued < TXSZ
      BY <1>2, <2>1, UsedIsQueued DEF TxSpace, HasSpace
    <2> QED BY <1>2, <2>1, <2>2, RingPc DEF TxSpace
  <1>3. CASE TxStore
    BY <1>3, RingStore
  <1>4. CASE Restore
    BY <1>4, RingRestore
  <1> QED BY <1>1, <1>2, <1>3, <1>4 DEF Kernel

LEMMA RingEnds == ASSUME RingInv, TxBegin \/ Exit \/ Enter PROVE RingInv'
  <1>1. user = "cons"
    BY RingTypes DEF TxBegin, Exit, Enter, RingInv, Cursors
  <1>2. CASE TxBegin
    BY <1>1, <1>2, RingPc DEF TxBegin
  <1>3. CASE Exit
    BY <1>1, <1>3, RingKick DEF Exit, ExitKick
  <1>4. CASE Enter
    BY <1>1, <1>4, RingPc DEF Enter
  <1> QED BY <1>2, <1>3, <1>4

LEMMA RingStays == ASSUME RingInv, UNCHANGED vars PROVE RingInv'
  BY DEF vars, RingInv, TypeOK, Cursors, BurstIsQueued, InPlace, Room, WireInOrder, Queued
-----------------------------------------------------------------------------
(* The driver. *)

FlagTypes ==
    /\ up \in BOOLEAN /\ sd_slow \in BOOLEAN /\ fast \in BOOLEAN
    /\ sel \in BOOLEAN /\ unheard \in BOOLEAN
    /\ ch11 \in BOOLEAN /\ stale \in BOOLEAN

PlaceTypes ==
    /\ sd_burst_state \in 0..2
    /\ card \in {"ready", "block", "run", "adrift"}
    /\ at \in {"idle", "select", "cmd", "token", "payload", "drain", "poll", "stop"}
    /\ mode \in {"run", "burst", "polled"}
    /\ tries \in 0..Tries /\ ret \in {0, 1} /\ print \in 0..2
    /\ want \in {"none", "span", "cache"}

DataTypes ==
    /\ lba \in 1..(NSEC + 1)
    /\ dst \in [Sector -> 0..NSEC]
    /\ cache \in [Entry -> 0..NSEC] /\ sdtag \in [Entry -> 0..NSEC]
    /\ sdvict \in Entry

LEMMA Sectors == NSEC \in Nat /\ NSEC > 1 /\ Tries \in Nat /\ Tries > 0
                 /\ NSDCACHE \in Nat /\ NSDCACHE > 0
  BY KSdAssumption

(* Fill touches one sector of the buffer or one entry of the cache. *)
LEMMA FillIs ==
    ASSUME SdTypeOK, lba <= NSEC, NEW x \in 0..NSEC, Fill(x)
    PROVE  /\ dst' \in [Sector -> 0..NSEC] /\ cache' \in [Entry -> 0..NSEC]
           /\ lba \in Sector
           /\ want = "span" => /\ dst'[lba] = x /\ cache' = cache
                              /\ \A s \in Sector : s # lba => dst'[s] = dst[s]
           /\ want # "span" => /\ cache'[sdvict] = x /\ dst' = dst
                              /\ \A v \in Entry : v # sdvict => cache'[v] = cache[v]
  <1>1. lba \in Sector /\ sdvict \in Entry
    BY Sectors DEF SdTypeOK, Sector
  <1> QED BY <1>1 DEF Fill, SdTypeOK

LEMMA SelectKeeps == ASSUME DriverInv, Select PROVE DriverInv'
  <1> USE Sectors DEF DriverInv, Select, Steps, vars, caller
  <1>1. SdTypeOK'
    <2>1. FlagTypes'
      BY DEF SdTypeOK, FlagTypes
    <2>2. PlaceTypes'
      BY DEF SdTypeOK, Session, PlaceTypes
    <2>3. DataTypes'
      BY DEF SdTypeOK, DataTypes, Session, Wanted, Sector, Entry
    <2> QED BY <2>1, <2>2, <2>3 DEF SdTypeOK, FlagTypes, PlaceTypes, DataTypes
  <1>2. Session'
    BY DEF Session, Busy, SdTypeOK
  <1>3. Trusted'
    BY DEF Trusted, ClockIsSet, SdTypeOK
  <1>4. Clean'
    BY DEF Clean, Busy, SdTypeOK
  <1>5. Wanted'
    BY DEF Wanted, SdTypeOK
  <1>6. Delivered'
    BY DEF Delivered, SdTypeOK, Sector, Entry, Wanted
  <1> QED BY <1>1, <1>2, <1>3, <1>4, <1>5, <1>6

LEMMA CmdAcceptedKeeps == ASSUME DriverInv, CmdAccepted PROVE DriverInv'
  <1> USE Sectors DEF DriverInv, CmdAccepted, Steps, EmptyFifo, vars, caller
  <1>1. SdTypeOK'
    <2>1. FlagTypes'
      BY DEF SdTypeOK, FlagTypes
    <2>2. PlaceTypes'
      BY DEF SdTypeOK, Session, PlaceTypes
    <2>3. DataTypes'
      BY DEF SdTypeOK, DataTypes, Session, Wanted, Sector, Entry
    <2> QED BY <2>1, <2>2, <2>3 DEF SdTypeOK, FlagTypes, PlaceTypes, DataTypes
  <1>2. Session'
    BY DEF Session, Busy, SdTypeOK
  <1>3. Trusted'
    BY DEF Trusted, ClockIsSet, SdTypeOK
  <1>4. Clean'
    BY DEF Clean, Busy, SdTypeOK
  <1>5. Wanted'
    BY DEF Wanted, SdTypeOK
  <1>6. Delivered'
    BY DEF Delivered, SdTypeOK, Sector, Entry, Wanted
  <1> QED BY <1>1, <1>2, <1>3, <1>4, <1>5, <1>6

LEMMA CmdFailsKeeps == ASSUME DriverInv, CmdFails PROVE DriverInv'
  <1> USE Sectors DEF DriverInv, CmdFails, Steps, EmptyFifo, Ladder, Returns, vars, caller
  <1>0. PICK c \in {"ready", "block", "adrift"} :
           /\ c = "block" => mode # "run"
           /\ c = "adrift" => unheard'
           /\ unheard => unheard'
           /\ IF tries + 1 < Tries
              THEN card' = c /\ UNCHANGED <<sel, at, ret, sd_slow, fast, print>>
              ELSE /\ sel' = FALSE /\ card' = IF c = "block" THEN "ready" ELSE c
                   /\ Ladder(1)
    <2>1. PICK c \in AfterRefusal :
             /\ unheard' = (unheard \/ c = "adrift")
             /\ IF tries + 1 < Tries
                THEN card' = c /\ UNCHANGED <<sel, at, ret, sd_slow, fast, print>>
                ELSE sel' = FALSE /\ card' = Deselected(c) /\ Ladder(1)
      OBVIOUS
    <2>2. card \in {"ready", "block", "adrift"} /\ (card = "block" => mode # "run")
      BY DEF Session, SdTypeOK
    <2>3. c \in {card, IF mode = "run" THEN "adrift" ELSE "block"}
      BY <2>1 DEF AfterRefusal
    <2>4. c \in {"ready", "block", "adrift"} /\ (c = "block" => mode # "run")
      BY <2>2, <2>3
    <2> QED BY <2>1, <2>4 DEF Deselected
  <1>1. SdTypeOK'
    <2>1. FlagTypes'
      BY DEF SdTypeOK, FlagTypes
    <2>2. PlaceTypes'
      <3>1. tries + 1 \in 0..Tries
        BY DEF SdTypeOK, Session
      <3>2. CASE tries + 1 < Tries
        BY <1>0, <3>1, <3>2 DEF SdTypeOK, PlaceTypes
      <3>3. CASE ~(tries + 1 < Tries)
        BY <1>0, <3>1, <3>3 DEF SdTypeOK, PlaceTypes
      <3> QED BY <3>2, <3>3
    <2>3. DataTypes'
      BY DEF SdTypeOK, DataTypes, Session, Wanted, Sector, Entry
    <2> QED BY <2>1, <2>2, <2>3 DEF SdTypeOK, FlagTypes, PlaceTypes, DataTypes
  <1>2. Session'
    BY <1>0 DEF Session, Busy, SdTypeOK
  <1>3. Trusted'
    BY DEF Trusted, ClockIsSet, SdTypeOK
  <1>4. Clean'
    BY DEF Clean, Busy, SdTypeOK
  <1>5. Wanted'
    BY DEF Wanted, SdTypeOK
  <1>6. Delivered'
    BY DEF Delivered, SdTypeOK, Sector, Entry, Wanted
  <1> QED BY <1>1, <1>2, <1>3, <1>4, <1>5, <1>6

LEMMA TokenArrivesKeeps == ASSUME DriverInv, TokenArrives PROVE DriverInv'
  <1> USE Sectors DEF DriverInv, TokenArrives, Steps, vars, caller
  <1>1. SdTypeOK'
    <2>1. FlagTypes'
      BY DEF SdTypeOK, FlagTypes
    <2>2. PlaceTypes'
      BY DEF SdTypeOK, Session, PlaceTypes
    <2>3. DataTypes'
      BY DEF SdTypeOK, DataTypes, Session, Wanted, Sector, Entry
    <2> QED BY <2>1, <2>2, <2>3 DEF SdTypeOK, FlagTypes, PlaceTypes, DataTypes
  <1>2. Session'
    BY DEF Session, Busy, SdTypeOK
  <1>3. Trusted'
    BY DEF Trusted, ClockIsSet, SdTypeOK
  <1>4. Clean'
    BY DEF Clean, Busy, SdTypeOK
  <1>5. Wanted'
    BY DEF Wanted, SdTypeOK
  <1>6. Delivered'
    BY DEF Delivered, SdTypeOK, Sector, Entry, Wanted
  <1> QED BY <1>1, <1>2, <1>3, <1>4, <1>5, <1>6

LEMMA TokenFailsKeeps == ASSUME DriverInv, TokenFails PROVE DriverInv'
  <1> USE Sectors DEF DriverInv, TokenFails, Steps, Deselect, Deselected, Ladder, Returns, vars, caller
  <1>1. SdTypeOK'
    <2>1. FlagTypes'
      BY DEF SdTypeOK, FlagTypes
    <2>2. PlaceTypes'
      BY DEF SdTypeOK, Session, PlaceTypes
    <2>3. DataTypes'
      BY DEF SdTypeOK, DataTypes, Session, Wanted, Sector, Entry
    <2> QED BY <2>1, <2>2, <2>3 DEF SdTypeOK, FlagTypes, PlaceTypes, DataTypes
  <1>2. Session'
    BY DEF Session, Busy, SdTypeOK
  <1>3. Trusted'
    BY DEF Trusted, ClockIsSet, SdTypeOK
  <1>4. Clean'
    BY DEF Clean, Busy, SdTypeOK
  <1>5. Wanted'
    BY DEF Wanted, SdTypeOK
  <1>6. Delivered'
    BY DEF Delivered, SdTypeOK, Sector, Entry, Wanted
  <1> QED BY <1>1, <1>2, <1>3, <1>4, <1>5, <1>6

LEMMA PollKeeps == ASSUME DriverInv, Poll PROVE DriverInv'
  <1> USE Sectors DEF DriverInv, Poll, Steps, Deselect, Deselected, Returns, vars, caller
  <1>0. /\ SdTypeOK /\ lba <= NSEC /\ lba \in Nat /\ want # "none"
        /\ dst' \in [Sector -> 0..NSEC] /\ cache' \in [Entry -> 0..NSEC]
        /\ lba \in Sector
        /\ want = "span" => /\ (~unheard => dst'[lba] = lba) /\ cache' = cache
                           /\ \A s \in Sector : s # lba => dst'[s] = dst[s]
        /\ want # "span" => /\ (~unheard => cache'[sdvict] = lba) /\ dst' = dst
                           /\ \A v \in Entry : v # sdvict => cache'[v] = cache[v]
    <2>1. lba <= NSEC /\ lba \in Nat /\ want # "none"
      BY DEF Wanted, SdTypeOK
    <2>2. ~stale /\ (~unheard => Sent = {lba}) /\ Sent \subseteq 0..NSEC
      BY <2>1 DEF Clean, Busy, Sent, Session
    <2>3. PICK x \in 0..NSEC : (~unheard => x = lba) /\ Fill(x)
      BY <2>2
    <2> QED BY <2>1, <2>3, FillIs
  <1>1. SdTypeOK'
    <2>1. FlagTypes'
      BY DEF SdTypeOK, FlagTypes
    <2>2. PlaceTypes'
      BY DEF SdTypeOK, Session, PlaceTypes
    <2>3. DataTypes'
      BY <1>0 DEF SdTypeOK, DataTypes
    <2> QED BY <2>1, <2>2, <2>3 DEF SdTypeOK, FlagTypes, PlaceTypes, DataTypes
  <1>2. Session'
    BY DEF Session, Busy, SdTypeOK
  <1>3. Trusted'
    BY DEF Trusted, ClockIsSet, SdTypeOK
  <1>4. Clean'
    BY DEF Clean, Busy, SdTypeOK
  <1>5. Wanted'
    BY DEF Wanted, SdTypeOK
  <1>6. Delivered'
    BY <1>0 DEF Delivered, SdTypeOK, Sector, Entry, Wanted, Session
  <1> QED BY <1>1, <1>2, <1>3, <1>4, <1>5, <1>6

LEMMA PayloadKeeps == ASSUME DriverInv, Payload PROVE DriverInv'
  <1> USE Sectors DEF DriverInv, Payload, Steps, Borrow, NotBusy, vars, caller
  <1>0. /\ SdTypeOK /\ lba <= NSEC /\ lba \in Nat /\ want # "none"
        /\ dst' \in [Sector -> 0..NSEC] /\ cache' \in [Entry -> 0..NSEC]
        /\ lba \in Sector
        /\ want = "span" => /\ dst'[lba] = 0 /\ cache' = cache
                           /\ \A s \in Sector : s # lba => dst'[s] = dst[s]
        /\ want # "span" => /\ cache'[sdvict] = 0 /\ dst' = dst
                           /\ \A v \in Entry : v # sdvict => cache'[v] = cache[v]
    <2>1. lba <= NSEC /\ lba \in Nat /\ want # "none"
      BY DEF Wanted, SdTypeOK
    <2>2. 0 \in 0..NSEC /\ Fill(0)
      OBVIOUS
    <2> QED BY <2>1, <2>2, FillIs
  <1>1. SdTypeOK'
    <2>1. FlagTypes'
      BY DEF SdTypeOK, FlagTypes
    <2>2. PlaceTypes'
      BY DEF SdTypeOK, Session, PlaceTypes
    <2>3. DataTypes'
      BY <1>0 DEF SdTypeOK, DataTypes
    <2> QED BY <2>1, <2>2, <2>3 DEF SdTypeOK, FlagTypes, PlaceTypes, DataTypes
  <1>2. Session'
    BY DEF Session, Busy, SdTypeOK
  <1>3. Trusted'
    BY DEF Trusted, ClockIsSet, SdTypeOK
  <1>4. Clean'
    BY DEF Clean, Busy, SdTypeOK
  <1>5. Wanted'
    BY DEF Wanted, SdTypeOK
  <1>6. Delivered'
    BY <1>0 DEF Delivered, SdTypeOK, Sector, Entry, Wanted
  <1> QED BY <1>1, <1>2, <1>3, <1>4, <1>5, <1>6

LEMMA DrainedKeeps == ASSUME DriverInv, Drained PROVE DriverInv'
  <1> USE Sectors DEF DriverInv, Drained, Steps, Deselect, Deselected, Returns, vars, caller
  <1>0. /\ SdTypeOK /\ lba <= NSEC /\ lba \in Nat /\ want # "none"
        /\ dst' \in [Sector -> 0..NSEC] /\ cache' \in [Entry -> 0..NSEC]
        /\ lba \in Sector
        /\ want = "span" => /\ (~unheard => dst'[lba] = lba) /\ cache' = cache
                           /\ \A s \in Sector : s # lba => dst'[s] = dst[s]
        /\ want # "span" => /\ (~unheard => cache'[sdvict] = lba) /\ dst' = dst
                           /\ \A v \in Entry : v # sdvict => cache'[v] = cache[v]
    <2>1. lba <= NSEC /\ lba \in Nat /\ want # "none"
      BY DEF Wanted, SdTypeOK
    <2>2. (~unheard => Sent = {lba}) /\ Sent \subseteq 0..NSEC
      BY <2>1 DEF Sent, Session
    <2>3. PICK x \in 0..NSEC : (~unheard => x = lba) /\ Fill(x)
      BY <2>2
    <2> QED BY <2>1, <2>3, FillIs
  <1>1. SdTypeOK'
    <2>1. FlagTypes'
      BY DEF SdTypeOK, FlagTypes
    <2>2. PlaceTypes'
      BY DEF SdTypeOK, Session, PlaceTypes
    <2>3. DataTypes'
      BY <1>0 DEF SdTypeOK, DataTypes
    <2> QED BY <2>1, <2>2, <2>3 DEF SdTypeOK, FlagTypes, PlaceTypes, DataTypes
  <1>2. Session'
    BY DEF Session, Busy, SdTypeOK
  <1>3. Trusted'
    BY DEF Trusted, ClockIsSet, SdTypeOK
  <1>4. Clean'
    BY DEF Clean, Busy, SdTypeOK
  <1>5. Wanted'
    BY DEF Wanted, SdTypeOK
  <1>6. Delivered'
    <2>1. ~unheard => \A v \in Entry : sdtag'[v] # 0 => cache'[v] = sdtag'[v]
      BY <1>0 DEF Delivered, SdTypeOK
    <2>2. CASE mode = "run"
      <3>1. want = "span"
        BY <2>2 DEF Wanted
      <3>2. ~unheard => \A s \in Sector : s < lba + 1 => dst'[s] = s
        BY <1>0, <2>2, <3>1 DEF Delivered, Sector
      <3> QED BY <1>0, <2>1, <2>2, <3>1, <3>2 DEF Delivered
    <2>3. CASE mode # "run"
      BY <1>0, <2>1, <2>3 DEF Delivered, SdTypeOK
    <2> QED BY <2>2, <2>3
  <1> QED BY <1>1, <1>2, <1>3, <1>4, <1>5, <1>6

LEMMA WedgedKeeps == ASSUME DriverInv, Wedged PROVE DriverInv'
  <1> USE Sectors DEF DriverInv, Wedged, Steps, AbortDrain, Deselect, Deselected, vars, caller
  <1>1. SdTypeOK'
    <2>1. FlagTypes'
      BY DEF SdTypeOK, FlagTypes
    <2>2. PlaceTypes'
      BY DEF SdTypeOK, Session, PlaceTypes
    <2>3. DataTypes'
      BY DEF SdTypeOK, DataTypes, Session, Wanted, Sector, Entry
    <2> QED BY <2>1, <2>2, <2>3 DEF SdTypeOK, FlagTypes, PlaceTypes, DataTypes
  <1>2. Session'
    BY DEF Session, Busy, SdTypeOK
  <1>3. Trusted'
    BY DEF Trusted, ClockIsSet, SdTypeOK
  <1>4. Clean'
    BY DEF Clean, Busy, SdTypeOK
  <1>5. Wanted'
    BY DEF Wanted, SdTypeOK
  <1>6. Delivered'
    BY DEF Delivered, SdTypeOK, Sector, Entry, Wanted
  <1> QED BY <1>1, <1>2, <1>3, <1>4, <1>5, <1>6

LEMMA StopKeeps == ASSUME DriverInv, NEW heard \in BOOLEAN, Stop(heard) PROVE DriverInv'
  <1> USE Sectors DEF DriverInv, Stop, Steps, EmptyFifo, Returns, vars, caller
  <1>1. SdTypeOK'
    <2>1. FlagTypes'
      BY DEF SdTypeOK, FlagTypes
    <2>2. PlaceTypes'
      BY DEF SdTypeOK, Session, PlaceTypes
    <2>3. DataTypes'
      BY DEF SdTypeOK, DataTypes, Session, Wanted, Sector, Entry
    <2> QED BY <2>1, <2>2, <2>3 DEF SdTypeOK, FlagTypes, PlaceTypes, DataTypes
  <1>2. Session'
    BY DEF Session, Busy, SdTypeOK
  <1>3. Trusted'
    BY DEF Trusted, ClockIsSet, SdTypeOK
  <1>4. Clean'
    BY DEF Clean, Busy, SdTypeOK
  <1>5. Wanted'
    BY DEF Wanted, SdTypeOK
  <1>6. Delivered'
    BY DEF Delivered, SdTypeOK, Sector, Entry, Wanted, Session
  <1> QED BY <1>1, <1>2, <1>3, <1>4, <1>5, <1>6

LEMMA SpanBeginKeeps == ASSUME DriverInv, SpanBegin PROVE DriverInv'
  <1> USE Sectors DEF DriverInv, SpanBegin, Steps, Idle, RunAllowed, ReadSector, vars, caller
  <1>1. SdTypeOK'
    <2>1. FlagTypes'
      BY DEF SdTypeOK, FlagTypes
    <2>2. PlaceTypes'
      BY DEF SdTypeOK, Session, PlaceTypes
    <2>3. DataTypes'
      BY DEF SdTypeOK, DataTypes, Session, Wanted, Sector, Entry
    <2> QED BY <2>1, <2>2, <2>3 DEF SdTypeOK, FlagTypes, PlaceTypes, DataTypes
  <1>2. Session'
    BY DEF Session, Busy, SdTypeOK
  <1>3. Trusted'
    BY DEF Trusted, ClockIsSet, SdTypeOK
  <1>4. Clean'
    BY DEF Clean, Busy, SdTypeOK
  <1>5. Wanted'
    BY DEF Wanted, SdTypeOK
  <1>6. Delivered'
    BY DEF Delivered, SdTypeOK, Sector, Entry, Wanted
  <1> QED BY <1>1, <1>2, <1>3, <1>4, <1>5, <1>6

LEMMA SpanNextKeeps == ASSUME DriverInv, SpanNext PROVE DriverInv'
  <1> USE Sectors DEF DriverInv, SpanNext, Steps, ReadSector, vars, caller
  <1>1. SdTypeOK'
    <2>1. FlagTypes'
      BY DEF SdTypeOK, FlagTypes
    <2>2. PlaceTypes'
      BY DEF SdTypeOK, Session, PlaceTypes
    <2>3. DataTypes'
      BY DEF SdTypeOK, DataTypes, Session, Wanted, Sector, Entry
    <2> QED BY <2>1, <2>2, <2>3 DEF SdTypeOK, FlagTypes, PlaceTypes, DataTypes
  <1>2. Session'
    BY DEF Session, Busy, SdTypeOK
  <1>3. Trusted'
    BY DEF Trusted, ClockIsSet, SdTypeOK
  <1>4. Clean'
    BY DEF Clean, Busy, SdTypeOK
  <1>5. Wanted'
    BY DEF Wanted, SdTypeOK
  <1>6. Delivered'
    BY DEF Delivered, SdTypeOK, Sector, Entry, Wanted
  <1> QED BY <1>1, <1>2, <1>3, <1>4, <1>5, <1>6

LEMMA SpanDoneKeeps == ASSUME DriverInv, SpanDone PROVE DriverInv'
  <1> USE Sectors DEF DriverInv, SpanDone, Steps, Over, vars, caller
  <1>1. SdTypeOK'
    <2>1. FlagTypes'
      BY DEF SdTypeOK, FlagTypes
    <2>2. PlaceTypes'
      BY DEF SdTypeOK, Session, PlaceTypes
    <2>3. DataTypes'
      BY DEF SdTypeOK, DataTypes, Session, Wanted, Sector, Entry
    <2> QED BY <2>1, <2>2, <2>3 DEF SdTypeOK, FlagTypes, PlaceTypes, DataTypes
  <1>2. Session'
    BY DEF Session, Busy, SdTypeOK
  <1>3. Trusted'
    BY DEF Trusted, ClockIsSet, SdTypeOK
  <1>4. Clean'
    BY DEF Clean, Busy, SdTypeOK
  <1>5. Wanted'
    BY DEF Wanted, SdTypeOK
  <1>6. Delivered'
    BY DEF Delivered, SdTypeOK, Sector, Entry, Wanted
  <1> QED BY <1>1, <1>2, <1>3, <1>4, <1>5, <1>6

LEMMA CacheDoneKeeps == ASSUME DriverInv, CacheDone PROVE DriverInv'
  <1> USE Sectors DEF DriverInv, CacheDone, Steps, Over, TagOf, vars, caller
  <1>1. SdTypeOK'
    <2>1. FlagTypes'
      BY DEF SdTypeOK, FlagTypes
    <2>2. PlaceTypes'
      BY DEF SdTypeOK, Session, PlaceTypes
    <2>3. DataTypes'
      BY DEF SdTypeOK, DataTypes, Session, Wanted, Sector, Entry
    <2> QED BY <2>1, <2>2, <2>3 DEF SdTypeOK, FlagTypes, PlaceTypes, DataTypes
  <1>2. Session'
    BY DEF Session, Busy, SdTypeOK
  <1>3. Trusted'
    BY DEF Trusted, ClockIsSet, SdTypeOK
  <1>4. Clean'
    BY DEF Clean, Busy, SdTypeOK
  <1>5. Wanted'
    BY DEF Wanted, SdTypeOK
  <1>6. Delivered'
    BY DEF Delivered, SdTypeOK, Sector, Entry, Wanted
  <1> QED BY <1>1, <1>2, <1>3, <1>4, <1>5, <1>6

LEMMA CacheMissKeeps == ASSUME DriverInv, NEW s \in Sector, CacheMiss(s) PROVE DriverInv'
  <1> USE Sectors DEF DriverInv, CacheMiss, Steps, Idle, ReadSector, vars, caller
  <1>1. SdTypeOK'
    <2>1. FlagTypes'
      BY DEF SdTypeOK, FlagTypes
    <2>2. PlaceTypes'
      BY DEF SdTypeOK, Session, PlaceTypes
    <2>3. DataTypes'
      BY DEF SdTypeOK, DataTypes, Session, Wanted, Sector, Entry
    <2> QED BY <2>1, <2>2, <2>3 DEF SdTypeOK, FlagTypes, PlaceTypes, DataTypes
  <1>2. Session'
    BY DEF Session, Busy, SdTypeOK
  <1>3. Trusted'
    BY DEF Trusted, ClockIsSet, SdTypeOK
  <1>4. Clean'
    BY DEF Clean, Busy, SdTypeOK
  <1>5. Wanted'
    BY DEF Wanted, SdTypeOK, Sector
  <1>6. Delivered'
    BY DEF Delivered, SdTypeOK, Sector, Entry, Wanted
  <1> QED BY <1>1, <1>2, <1>3, <1>4, <1>5, <1>6

LEMMA BringUpKeeps == ASSUME DriverInv, NEW ok \in BOOLEAN, BringUp(ok) PROVE DriverInv'
  <1> USE Sectors DEF DriverInv, BringUp, Steps, Idle, vars, caller
  <1>1. SdTypeOK'
    <2>1. FlagTypes'
      BY DEF SdTypeOK, FlagTypes
    <2>2. PlaceTypes'
      BY DEF SdTypeOK, Session, PlaceTypes
    <2>3. DataTypes'
      BY DEF SdTypeOK, DataTypes, Session, Wanted, Sector, Entry
    <2> QED BY <2>1, <2>2, <2>3 DEF SdTypeOK, FlagTypes, PlaceTypes, DataTypes
  <1>2. Session'
    BY DEF Session, Busy, SdTypeOK
  <1>3. Trusted'
    BY DEF Trusted, ClockIsSet, SdTypeOK
  <1>4. Clean'
    BY DEF Clean, Busy, SdTypeOK
  <1>5. Wanted'
    BY DEF Wanted, SdTypeOK
  <1>6. Delivered'
    BY DEF Delivered, SdTypeOK, Sector, Entry, Wanted
  <1> QED BY <1>1, <1>2, <1>3, <1>4, <1>5, <1>6

LEMMA SayKeeps == ASSUME DriverInv, Say PROVE DriverInv'
  <1> USE Sectors DEF DriverInv, Say, Steps, Idle, TxBegin, driver, vars, caller
  <1>1. SdTypeOK'
    <2>1. FlagTypes'
      BY DEF SdTypeOK, FlagTypes
    <2>2. PlaceTypes'
      BY DEF SdTypeOK, Session, PlaceTypes
    <2>3. DataTypes'
      BY DEF SdTypeOK, DataTypes, Session, Wanted, Sector, Entry
    <2> QED BY <2>1, <2>2, <2>3 DEF SdTypeOK, FlagTypes, PlaceTypes, DataTypes
  <1>2. Session'
    BY DEF Session, Busy, SdTypeOK
  <1>3. Trusted'
    BY DEF Trusted, ClockIsSet, SdTypeOK
  <1>4. Clean'
    BY DEF Clean, Busy, SdTypeOK
  <1>5. Wanted'
    BY DEF Wanted, SdTypeOK
  <1>6. Delivered'
    BY DEF Delivered, SdTypeOK, Sector, Entry, Wanted
  <1> QED BY <1>1, <1>2, <1>3, <1>4, <1>5, <1>6

(* What the console and the hardware do leaves the driver alone; only a borrow
   and an exit mark the kernel's place. *)
LEMMA ConsoleKeeps ==
    ASSUME DriverInv, UNCHANGED sdvars, pc' = "borrow" => pc = "borrow",
           pc' = "user" => pc = "user" \/ Idle
    PROVE  DriverInv'
  <1> USE DEF DriverInv, sdvars, driver, caller
  <1>1. SdTypeOK' /\ Trusted' /\ Clean' /\ Wanted' /\ Delivered'
    BY DEF SdTypeOK, Trusted, ClockIsSet, Clean, Wanted, Delivered
  <1>2. Session'
    BY DEF Session, Idle, Steps
  <1> QED BY <1>1, <1>2

-----------------------------------------------------------------------------
LEMMA InitIInv == SdInit => IInv
  <1> SUFFICES ASSUME SdInit PROVE IInv
    OBVIOUS
  <1> USE DEF SdInit, Init
  <1>1. Add(0, 0) = 0 /\ Sub(0, 0) = 0 /\ 0 % TXSZ = 0
    <2>1. 0 \in Word /\ 0 \in 0..TXSZ /\ 0 \in Slot
      BY Sizes DEF Word, Slot
    <2> QED BY <2>1, Sizes, AddIs, SubIs, ModOnce
  <1>2. RingInv
    BY <1>1, Sizes DEF RingInv, TypeOK, Cursors, BurstIsQueued, InPlace, Room, WireInOrder,
                       Queued, Word, Slot
  <1>3. SdTypeOK
    <2>1. FlagTypes
      BY DEF FlagTypes
    <2>2. PlaceTypes
      BY Sectors DEF PlaceTypes
    <2>3. DataTypes
      BY Sectors DEF DataTypes, Sector, Entry
    <2> QED BY <2>1, <2>2, <2>3 DEF SdTypeOK, FlagTypes, PlaceTypes, DataTypes
  <1>4. Session /\ Trusted /\ Clean /\ Wanted /\ Delivered
    BY Sectors DEF Session, Trusted, ClockIsSet, Clean, Busy, Wanted, Delivered
  <1> QED BY <1>2, <1>3, <1>4 DEF IInv, DriverInv

LEMMA StepRing == ASSUME RingInv, [SdNext]_allvars PROVE RingInv'
  <1>1. CASE Hardware
    BY <1>1, RingDrain, RingClock DEF Hardware
  <1>2. CASE Console
    BY <1>2, RingKernel DEF Console
  <1>3. CASE Out \/ In \/ Say
    BY <1>3, RingEnds DEF Out, In, Say
  <1>4. CASE Payload
    BY <1>4, RingBorrow, RingStays DEF Payload
  <1>5. ASSUME UNCHANGED vars PROVE RingInv'
    BY <1>5, RingStays
  <1>6. CASE Driver
    BY <1>4, <1>5, <1>6 DEF Driver, Select, CmdAccepted, CmdFails, TokenArrives, TokenFails,
       Poll, Drained, Wedged, Stop, SpanNext, SpanDone, CacheDone
  <1>7. CASE SpanBegin
    BY <1>5, <1>7 DEF SpanBegin
  <1>8. ASSUME NEW s \in Sector, CacheMiss(s) PROVE RingInv'
    BY <1>5, <1>8 DEF CacheMiss
  <1>9. ASSUME NEW ok \in BOOLEAN, BringUp(ok) PROVE RingInv'
    BY <1>5, <1>9 DEF BringUp
  <1>10. CASE UNCHANGED allvars
    BY <1>5, <1>10 DEF allvars
  <1> QED BY <1>1, <1>2, <1>3, <1>6, <1>7, <1>8, <1>9, <1>10 DEF SdNext

LEMMA StepDriver == ASSUME DriverInv, [SdNext]_allvars PROVE DriverInv'
  <1>1. CASE Hardware
    BY <1>1, ConsoleKeeps DEF Hardware, Drain, Clock
  <1>2. CASE Console
    BY <1>2, ConsoleKeeps DEF Console, Kernel, TxKick, TxSpace, TxStore, Restore
  <1>3. CASE Out
    BY <1>3, ConsoleKeeps DEF Out, Exit
  <1>4. CASE In
    BY <1>4, ConsoleKeeps DEF In, Enter
  <1>5. CASE Say
    BY <1>5, SayKeeps
  <1>6. CASE Driver
    BY <1>6, SelectKeeps, CmdAcceptedKeeps, CmdFailsKeeps, TokenArrivesKeeps, TokenFailsKeeps,
       PollKeeps, PayloadKeeps, DrainedKeeps, WedgedKeeps, StopKeeps, SpanNextKeeps,
       SpanDoneKeeps, CacheDoneKeeps DEF Driver
  <1>7. CASE SpanBegin
    BY <1>7, SpanBeginKeeps
  <1>8. CASE \E s \in Sector : CacheMiss(s)
    BY <1>8, CacheMissKeeps
  <1>9. CASE \E ok \in BOOLEAN : BringUp(ok)
    BY <1>9, BringUpKeeps
  <1>10. CASE UNCHANGED allvars
    BY <1>10, ConsoleKeeps DEF allvars, vars
  <1> QED BY <1>1, <1>2, <1>3, <1>4, <1>5, <1>6, <1>7, <1>8, <1>9, <1>10 DEF SdNext

(* Every reachable state of the driver and its ring satisfies the inductive
   invariant. *)
THEOREM SdInvariance == SdSpec => []IInv
  <1>1. IInv /\ [SdNext]_allvars => IInv'
    BY StepRing, StepDriver DEF IInv
  <1> QED BY InitIInv, <1>1, PTL DEF SdSpec

(* Whenever ksd.c has returned, by whichever of its exits, CS is high, the drain
   channel is not armed, the console has its channel back, and the card is not
   sending unless the beginning or the end of a run was misheard since it was
   brought up; cursors and burst stay within the ring. *)
THEOREM SessionsAreClosed == SdSpec => []SdInv
  <1>1. IInv => SdInv
    <2> SUFFICES ASSUME IInv PROVE SdInv
      OBVIOUS
    <2>1. SdTypeOK /\ TypeOK /\ BurstIsQueued
      BY DEF IInv, RingInv, DriverInv, Cursors
    <2>2. SessionClosed
      BY <2>1 DEF IInv, RingInv, DriverInv, Cursors, Session, SessionClosed, TypeOK
    <2> QED BY <2>1, <2>2 DEF SdInv, TxInv, IInv, DriverInv, Trusted
  <1> QED BY SdInvariance, <1>1, PTL

(* Console output is neither overwritten in the ring nor sent twice or out of
   turn, whatever the SD driver does with the channel in between. *)
THEOREM OutputInOrder == SdSpec => []WireInOrder
  <1>1. IInv => WireInOrder
    BY DEF IInv, RingInv
  <1> QED BY SdInvariance, <1>1, PTL

(* A read that returned 0 delivered the sectors asked for, and a cache entry
   holds what its tag says, unless a run was left going since the card was
   brought up. *)
THEOREM ReadsAreRight == SdSpec => []DataIsRight
  <1>1. IInv => DataIsRight
    <2> SUFFICES ASSUME IInv, ~unheard
                 PROVE  /\ PartialNeverLeaks
                        /\ \A v \in Entry : sdtag[v] # 0 => cache[v] = sdtag[v]
      BY DEF DataIsRight
    <2>1. SdTypeOK /\ Wanted /\ Delivered
      BY DEF IInv, DriverInv
    <2>2. ASSUME at = "idle", ret = 0, want = "span"
          PROVE  IF mode = "run" THEN \A s \in Sector : dst[s] = s ELSE dst[lba] = lba
      <3>1. CASE mode = "run"
        <4>1. lba = NSEC + 1
          BY <2>1, <2>2, <3>1 DEF Delivered
        <4>2. \A s \in Sector : s < lba
          BY <4>1, Sectors DEF Sector
        <4> QED BY <2>1, <2>2, <3>1, <4>2 DEF Delivered
      <3>2. CASE mode # "run"
        BY <2>1, <2>2, <3>2 DEF Delivered
      <3> QED BY <3>1, <3>2
    <2> QED BY <2>1, <2>2 DEF Delivered, PartialNeverLeaks
  <1> QED BY SdInvariance, <1>1, PTL

(* Once a drain has wedged, no payload is transferred by DMA again and the
   console's channel is not borrowed any more, through resets of the card
   too. *)
THEOREM DegradationIsForGood == SdSpec => DegradesForGood
  <1>1. IInv /\ [SdNext]_allvars =>
           [sd_burst_state = 2 => sd_burst_state' = 2 /\ ~ch11' /\ user' = "cons"]_allvars
    <2> SUFFICES ASSUME IInv, SdNext, sd_burst_state = 2
                 PROVE  sd_burst_state' = 2 /\ ~ch11' /\ user' = "cons"
      OBVIOUS
    <2>1. SdTypeOK /\ TypeOK /\ Session /\ Trusted /\ Cursors
      BY DEF IInv, RingInv, DriverInv
    <2>2. at # "payload" /\ at # "drain" /\ (at = "stop" => ret # 0)
      BY <2>1 DEF Session, Trusted
    <2>3. ~ch11 /\ user = "cons"
      BY <2>1, <2>2 DEF Session, Cursors, TypeOK
    <2>4. ~Payload /\ ~Drained /\ ~Wedged /\ pc # "borrow"
      BY <2>1, <2>2 DEF Payload, Drained, Wedged, Steps, Session
    <2>5. sd_burst_state' = 2 /\ ch11' = ch11
      BY <2>2, <2>4 DEF SdNext, Hardware, Console, Out, In, Say, Driver, Select,
         CmdAccepted, CmdFails, TokenArrives, TokenFails, Poll, Stop, SpanNext, SpanDone,
         CacheDone, SpanBegin, CacheMiss, BringUp, Steps, sdvars, driver
    <2>6. user' = user
      BY <2>4 DEF SdNext, Hardware, Drain, Clock, Console, Kernel, TxKick, TxSpace, TxStore,
         Restore, Out, Exit, In, Enter, Say, TxBegin, Driver, Select, CmdAccepted, CmdFails,
         TokenArrives, TokenFails, Poll, Stop, SpanNext, SpanDone, CacheDone, SpanBegin,
         CacheMiss, BringUp, vars
    <2> QED BY <2>3, <2>5, <2>6
  <1> QED BY SdInvariance, <1>1, PTL DEF SdSpec, DegradesForGood
=============================================================================
