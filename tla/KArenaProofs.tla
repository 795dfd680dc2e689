---------------------------- MODULE KArenaProofs ----------------------------
(***************************************************************************)
(* Theorems about the arena, for every size, every set of programs and any *)
(* number of slots.                                                        *)
(*                                                                         *)
(* The free list is good for a set U of units in use when it covers        *)
(* exactly the others and any two of its blocks have a used unit between   *)
(* them (Good).  Allocating adds the block to U, freeing removes it, so a  *)
(* call's net effect on U is all one has to follow.  A good list is the    *)
(* only one for its U (OneList): what was taken and given back leaves the  *)
(* very same list.                                                         *)
(***************************************************************************)
EXTENDS KArena, WellFoundedInduction, FiniteSetTheorems, TLAPS

Unit == 0..(Units - 1)

Apart(b, c) == End(b) < c.at \/ End(c) < b.at

Good(f, U) ==
    /\ f \subseteq Block
    /\ \A b \in f : End(b) <= Units
    /\ \A b, c \in f : b # c => Apart(b, c)
    /\ U \subseteq Unit
    /\ \A u \in Unit : u \in U <=> \A b \in f : u \notin Extent(b)

(* What a slot may own: nothing, or a block inside the arena. *)
Held == {b \in Block : End(b) <= Units} \cup {Null}

HeldRow == [text : Held, data : Held, argv : Held, heap : Held]
UnitsOf(r) == Extent(r.text) \cup Extent(r.data) \cup Extent(r.argv) \cup Extent(r.heap)
InUse == UNION {UnitsOf(mem[s]) : s \in Slots}

Scattered(r) ==
    /\ Extent(r.text) \cap Extent(r.data) = {}
    /\ Extent(r.text) \cap Extent(r.argv) = {}
    /\ Extent(r.text) \cap Extent(r.heap) = {}
    /\ Extent(r.data) \cap Extent(r.argv) = {}
    /\ Extent(r.data) \cap Extent(r.heap) = {}
    /\ Extent(r.argv) \cap Extent(r.heap) = {}

IInv ==
    /\ mem \in [Slots -> HeldRow]
    /\ \A s \in Slots : Scattered(mem[s])
    /\ \A s, q \in Slots : s # q => UnitsOf(mem[s]) \cap UnitsOf(mem[q]) = {}
    /\ Good(free, InUse)

-----------------------------------------------------------------------------
LEMMA LeastNat ==
    ASSUME NEW S \in SUBSET Nat, S # {}
    PROVE  \E m \in S : \A k \in S : m <= k
  <1> DEFINE R == {ss \in Nat \X Nat : ss[1] < ss[2]}
  <1>1. IsWellFoundedOn(R, Nat)
    BY NatLessThanWellFounded DEF OpToRel
  <1> HIDE DEF R
  <1>2. PICK m \in S : \A k \in S : ~(<<k, m>> \in R)
    BY <1>1, WFMin
  <1>3. \A k \in S : ~(k < m)
    BY <1>2 DEF R
  <1> QED BY <1>3

LEMMA GreatestNat ==
    ASSUME NEW S \in SUBSET Nat, S # {}, NEW top \in Nat, \A k \in S : k <= top
    PROVE  \E m \in S : \A k \in S : m >= k
  <1> DEFINE T == {top - k : k \in S}
  <1>1. T \in SUBSET Nat /\ T # {}
    <2>1. PICK k \in S : TRUE
      OBVIOUS
    <2>2. top - k \in T
      OBVIOUS
    <2> QED BY <2>2
  <1>2. PICK t \in T : \A k \in T : t <= k
    BY <1>1, LeastNat
  <1>3. PICK m \in S : t = top - m
    OBVIOUS
  <1>4. \A k \in S : top - m <= top - k
    BY <1>2, <1>3
  <1> QED BY <1>4

LEMMA Blocks ==
    /\ Units \in Nat /\ Units > 0
    /\ \A b \in Block : b.at \in Nat /\ b.size \in Nat /\ b.size > 0 /\ End(b) \in Nat
                        /\ End(b) = b.at + b.size /\ b.at < End(b) /\ b.at < Units
    /\ \A b \in Block, u \in Int : u \in Extent(b) <=> b.at <= u /\ u < End(b)
    /\ Extent(Null) = {}
    /\ Null \notin Block
    /\ \A b, c \in Block : b.at = c.at /\ End(b) = End(c) => b = c
  <1> USE KArenaAssumption
  <1>1. Units \in Nat /\ Units > 0
    OBVIOUS
  <1>2. ASSUME NEW b \in Block
        PROVE  b.at \in Nat /\ b.size \in Nat /\ b.size > 0 /\ End(b) \in Nat
               /\ End(b) = b.at + b.size /\ b.at < End(b) /\ b.at < Units
    BY DEF Block, End
  <1>3. ASSUME NEW b \in Block, NEW u \in Int
        PROVE  u \in Extent(b) <=> b.at <= u /\ u < End(b)
    BY <1>2 DEF Extent
  <1>4. Extent(Null) = {}
    BY DEF Extent, Null, End
  <1>5. Null \notin Block
    BY DEF Block, Null
  <1>6. ASSUME NEW b \in Block, NEW c \in Block, b.at = c.at, End(b) = End(c) PROVE b = c
    BY <1>6 DEF Block, End
  <1> QED BY <1>1, <1>2, <1>3, <1>4, <1>5, <1>6

(* The blocks between the used units are determined by them. *)
LEMMA OneListHalf ==
    ASSUME NEW f, NEW g, NEW U, Good(f, U), Good(g, U), NEW b \in f
    PROVE  b \in g
  <1>1. b \in Block /\ f \subseteq Block /\ g \subseteq Block
    BY DEF Good
  <1>2. /\ b.at \in Unit /\ End(b) <= Units /\ b.at \in Nat /\ End(b) \in Nat /\ b.at < End(b)
        /\ b.at \in Extent(b)
    BY <1>1, Blocks DEF Good, Unit
  <1>3. PICK c \in g : b.at \in Extent(c)
    BY <1>2 DEF Good
  <1>4. /\ c \in Block /\ c.at \in Nat /\ End(c) \in Nat /\ c.at < End(c) /\ End(c) <= Units
        /\ c.at <= b.at /\ b.at < End(c)
    BY <1>1, <1>2, <1>3, Blocks DEF Good
  <1>5. ASSUME NEW u \in Unit, u \in Extent(b) PROVE \E d \in g : u \in Extent(d)
    BY <1>5 DEF Good
  <1>6. ASSUME NEW u \in Unit, u \in Extent(c) PROVE \E d \in f : u \in Extent(d)
    BY <1>6 DEF Good
  <1>7. c.at = b.at
    <2> SUFFICES ASSUME c.at < b.at PROVE FALSE
      BY <1>2, <1>4
    <2>1. PICK u \in Unit : u = b.at - 1
      BY <1>2, <1>4, Blocks DEF Unit
    <2>2. u \in Extent(c)
      BY <1>2, <1>4, <2>1, Blocks DEF Unit
    <2>3. PICK d \in f : u \in Extent(d)
      BY <1>6, <2>2
    <2>4. d \in Block /\ d.at \in Nat /\ End(d) \in Nat /\ d.at <= u /\ u < End(d)
      BY <1>1, <2>3, Blocks DEF Unit
    <2>5. d # b
      BY <1>2, <2>1, <2>4
    <2>6. Apart(d, b)
      BY <2>5 DEF Good
    <2> QED BY <1>2, <2>1, <2>4, <2>6 DEF Apart
  <1>8. End(c) = End(b)
    <2>1. CASE End(b) < End(c)
      <3>1. PICK u \in Unit : u = End(b)
        BY <1>2, <1>4, <2>1, Blocks DEF Unit
      <3>2. u \in Extent(c)
        BY <1>2, <1>4, <2>1, <3>1, Blocks DEF Unit
      <3>3. PICK d \in f : u \in Extent(d)
        BY <1>6, <3>2
      <3>4. d \in Block /\ d.at \in Nat /\ End(d) \in Nat /\ d.at <= u /\ u < End(d)
        BY <1>1, <3>3, Blocks DEF Unit
      <3>5. d # b
        BY <1>2, <3>1, <3>4
      <3>6. Apart(d, b)
        BY <3>5 DEF Good
      <3> QED BY <1>2, <3>1, <3>4, <3>6 DEF Apart
    <2>2. CASE End(c) < End(b)
      <3>1. PICK u \in Unit : u = End(c)
        BY <1>2, <1>4, <2>2, Blocks DEF Unit
      <3>2. u \in Extent(b)
        BY <1>1, <1>2, <1>4, <2>2, <3>1, Blocks DEF Unit
      <3>3. PICK d \in g : u \in Extent(d)
        BY <1>5, <3>2
      <3>4. d \in Block /\ d.at \in Nat /\ End(d) \in Nat /\ d.at <= u /\ u < End(d)
        BY <1>1, <3>3, Blocks DEF Unit
      <3>5. d # c
        BY <1>4, <3>1, <3>4
      <3>6. Apart(d, c)
        BY <3>5 DEF Good
      <3> QED BY <1>4, <3>1, <3>4, <3>6 DEF Apart
    <2> QED BY <1>2, <1>4, <2>1, <2>2
  <1> QED BY <1>1, <1>4, <1>7, <1>8, Blocks

LEMMA OneList ==
    ASSUME NEW f, NEW g, NEW U, Good(f, U), Good(g, U)
    PROVE  f = g
  <1>1. \A b \in f : b \in g
    BY OneListHalf
  <1>2. \A b \in g : b \in f
    BY OneListHalf
  <1> QED BY <1>1, <1>2

-----------------------------------------------------------------------------
(* kalloc and kalloc_top. *)

LEMMA TakeAll ==
    ASSUME NEW f, NEW U, Good(f, U), NEW h \in f
    PROVE  /\ h \in Held /\ Extent(h) \cap U = {}
           /\ Good(f \ {h}, U \cup Extent(h))
  <1>1. h \in Block /\ f \subseteq Block /\ h \in Held
    BY DEF Good, Held
  <1>2. \A u \in Extent(h) : u \in Unit
    BY <1>1, Blocks DEF Good, Extent, Unit
  <1>3. Extent(h) \cap U = {}
    BY <1>2 DEF Good
  <1>4. ASSUME NEW u \in Unit
        PROVE  u \in U \cup Extent(h) <=> \A b \in f \ {h} : u \notin Extent(b)
    <2>1. ASSUME u \in Extent(h), NEW b \in f \ {h} PROVE u \notin Extent(b)
      <3>1. Apart(b, h) /\ b \in Block
        BY <2>1, <1>1 DEF Good
      <3> QED BY <1>1, <2>1, <3>1, Blocks DEF Apart, Unit
    <2> QED BY <2>1 DEF Good
  <1>5. Good(f \ {h}, U \cup Extent(h))
    BY <1>1, <1>2, <1>4 DEF Good
  <1> QED BY <1>1, <1>3, <1>5

(* The block h is split into r, which stays, and g, which is handed out. *)
LEMMA TakePart ==
    ASSUME NEW f, NEW U, Good(f, U), NEW h \in f, NEW r \in Block, NEW g \in Block,
           \/ r.at = h.at /\ End(r) = g.at /\ End(g) = End(h)
           \/ g.at = h.at /\ End(g) = r.at /\ End(r) = End(h)
    PROVE  /\ g \in Held /\ Extent(g) \cap U = {}
           /\ Good((f \ {h}) \cup {r}, U \cup Extent(g))
  <1> DEFINE new == (f \ {h}) \cup {r}
  <1>1. h \in Block /\ f \subseteq Block /\ End(h) <= Units
    BY DEF Good
  <1>2. /\ h.at \in Nat /\ End(h) \in Nat /\ r.at \in Nat /\ End(r) \in Nat
        /\ g.at \in Nat /\ End(g) \in Nat /\ r.at < End(r) /\ g.at < End(g)
    BY <1>1, Blocks
  <1>3. g \in Held /\ End(r) <= Units
    BY <1>1, <1>2, Blocks DEF Held
  <1>4. \A u \in Unit : u \in Extent(h) <=> u \in Extent(g) \/ u \in Extent(r)
    BY <1>1, <1>2, Blocks DEF Unit
  <1>5. \A u \in Unit : ~(u \in Extent(g) /\ u \in Extent(r))
    BY <1>2, Blocks DEF Unit
  <1>6. \A u \in Extent(g) : u \in Unit
    BY <1>1, <1>2, Blocks DEF Extent, Unit
  <1>7. Extent(g) \cap U = {}
    BY <1>4, <1>6 DEF Good
  <1>8. \A b \in f \ {h} : Apart(b, h) /\ b \in Block /\ End(b) \in Nat /\ b.at \in Nat
    BY <1>1, Blocks DEF Good
  <1>9. \A b \in f \ {h} : Apart(b, r) /\ Apart(r, b)
    BY <1>2, <1>8 DEF Apart
  <1>10. ASSUME NEW u \in Unit
         PROVE  u \in U \cup Extent(g) <=> \A b \in new : u \notin Extent(b)
    <2>1. ASSUME u \in Extent(g), NEW b \in f \ {h} PROVE u \notin Extent(b)
      BY <1>1, <1>2, <1>4, <1>8, <2>1, Blocks DEF Apart, Unit
    <2>2. u \in U <=> \A b \in f : u \notin Extent(b)
      BY DEF Good
    <2> QED BY <1>4, <1>5, <2>1, <2>2
  <1>11. Good(new, U \cup Extent(g))
    BY <1>1, <1>3, <1>6, <1>9, <1>10 DEF Good
  <1> QED BY <1>3, <1>7, <1>11

(* What both allocators promise. *)
Allots(c, f, U) ==
    /\ c.got \in Held /\ Extent(c.got) \cap U = {}
    /\ Good(c.free, U \cup Extent(c.got))

LEMMA Refuses ==
    ASSUME NEW f, NEW U, Good(f, U)
    PROVE  Allots([free |-> f, got |-> Null], f, U)
  <1>1. U \cup Extent(Null) = U
    BY Blocks
  <1> QED BY <1>1, Blocks DEF Allots, Held

LEMMA KallocAllots ==
    ASSUME NEW f, NEW U, Good(f, U), NEW n \in Nat
    PROVE  Allots(kalloc(f, n), f, U)
  <1>1. CASE Fitting(f, n) = {}
    BY <1>1, Refuses DEF kalloc
  <1>2. CASE Fitting(f, n) # {}
    <2> DEFINE F == Fitting(f, n)
               h == CHOOSE b \in F : \A c \in F : b.at <= c.at
               rest == [at |-> h.at + n + 1, size |-> h.size - (n + 1)]
               g == [h EXCEPT !.size = n + 1]
    <2>1. F \subseteq Block /\ F \subseteq f
      BY DEF Fitting, Good
    <2>2. \E b \in F : \A c \in F : b.at <= c.at
      <3>1. {b.at : b \in F} \in SUBSET Nat /\ {b.at : b \in F} # {}
        BY <1>2, <2>1, Blocks
      <3>2. PICK m \in {b.at : b \in F} : \A k \in {b.at : b \in F} : m <= k
        BY <3>1, LeastNat
      <3> QED BY <3>2
    <2>3. h \in F
      BY <2>2
    <2> HIDE DEF h
    <2>4. h \in f /\ h \in Block /\ h.size \in Nat /\ h.size >= n + 1 /\ h.at \in Nat
          /\ End(h) = h.at + h.size /\ End(h) <= Units
      BY <2>1, <2>3, Blocks DEF Fitting, Good
    <2>5. CASE Splits(h, n)
      <3>1. rest \in Block /\ g \in Block
        BY <2>4, <2>5, Blocks DEF Splits, Block
      <3>2. g.at = h.at /\ End(g) = rest.at /\ End(rest) = End(h)
        BY <2>4 DEF End, Block
      <3>3. kalloc(f, n) = [free |-> (f \ {h}) \cup {rest}, got |-> g]
        BY <1>2, <2>5 DEF kalloc, h
      <3> HIDE DEF g, rest
      <3> QED BY <2>4, <3>1, <3>2, <3>3, TakePart DEF Allots
    <2>6. CASE ~Splits(h, n)
      <3>1. kalloc(f, n) = [free |-> f \ {h}, got |-> h]
        BY <1>2, <2>6 DEF kalloc, h
      <3> QED BY <2>4, <3>1, TakeAll DEF Allots
    <2> QED BY <2>5, <2>6
  <1> QED BY <1>1, <1>2

LEMMA KallocTopAllots ==
    ASSUME NEW f, NEW U, Good(f, U), NEW n \in Nat
    PROVE  Allots(kalloc_top(f, n), f, U)
  <1>1. CASE Fitting(f, n) = {}
    BY <1>1, Refuses DEF kalloc_top
  <1>2. CASE Fitting(f, n) # {}
    <2> DEFINE F == Fitting(f, n)
               h == CHOOSE b \in F : \A c \in F : b.at >= c.at
               rest == ShrunkBy(h, n)
               g == [at |-> End(h) - (n + 1), size |-> n + 1]
    <2>1. F \subseteq Block /\ F \subseteq f
      BY DEF Fitting, Good
    <2>2. \E b \in F : \A c \in F : b.at >= c.at
      <3>1. /\ {b.at : b \in F} \in SUBSET Nat /\ {b.at : b \in F} # {}
            /\ \A k \in {b.at : b \in F} : k <= Units
        BY <1>2, <2>1, Blocks
      <3>2. Units \in Nat
        BY Blocks
      <3>3. PICK m \in {b.at : b \in F} : \A k \in {b.at : b \in F} : m >= k
        BY <3>1, <3>2, GreatestNat
      <3> QED BY <3>3
    <2>3. h \in F
      BY <2>2
    <2> HIDE DEF h
    <2>4. h \in f /\ h \in Block /\ h.size \in Nat /\ h.size >= n + 1 /\ h.at \in Nat
          /\ End(h) = h.at + h.size /\ End(h) <= Units
      BY <2>1, <2>3, Blocks DEF Fitting, Good
    <2>5. CASE Splits(h, n)
      <3>1. rest \in Block /\ g \in Block
        BY <2>4, <2>5, Blocks DEF Splits, Block, ShrunkBy
      <3>2. rest.at = h.at /\ End(rest) = g.at /\ End(g) = End(h)
        BY <2>4 DEF End, Block, ShrunkBy
      <3>3. kalloc_top(f, n) = [free |-> (f \ {h}) \cup {rest}, got |-> g]
        BY <1>2, <2>5 DEF kalloc_top, h
      <3> HIDE DEF g, rest
      <3>4. /\ g \in Held /\ Extent(g) \cap U = {}
            /\ Good((f \ {h}) \cup {rest}, U \cup Extent(g))
        BY <2>4, <3>1, <3>2, TakePart
      <3> QED BY <3>3, <3>4 DEF Allots
    <2>6. CASE ~Splits(h, n)
      <3>1. kalloc_top(f, n) = [free |-> f \ {h}, got |-> h]
        BY <1>2, <2>6 DEF kalloc_top, h
      <3> QED BY <2>4, <3>1, TakeAll DEF Allots
    <2> QED BY <2>5, <2>6
  <1> QED BY <1>1, <1>2

-----------------------------------------------------------------------------
(* kfree. *)

LEMMA KfreeGives ==
    ASSUME NEW f, NEW U, Good(f, U), NEW h \in Held, Extent(h) \subseteq U
    PROVE  Good(kfree(f, h), U \ Extent(h))
  <1>1. CASE h = Null
    <2>1. U \ Extent(h) = U /\ kfree(f, h) = f
      BY <1>1, Blocks DEF kfree
    <2> QED BY <2>1
  <1>2. CASE h # Null
    <2> DEFINE all == Neighbours(f, h) \cup {h}
               ats == {b.at : b \in all}
               ends == {End(b) : b \in all}
               lo == Min(ats)
               hi == Max(ends)
               new == [at |-> lo, size |-> hi - lo]
    <2>1. h \in Block /\ End(h) <= Units /\ f \subseteq Block /\ all \subseteq Block
      BY <1>2 DEF Held, Good, Neighbours
    <2>2. /\ h.at \in Nat /\ End(h) \in Nat /\ h.at < End(h)
          /\ \A b \in all : b.at \in Nat /\ End(b) \in Nat /\ b.at < End(b) /\ End(b) <= Units
          /\ \A b \in f : b.at \in Nat /\ End(b) \in Nat /\ b.at < End(b) /\ End(b) <= Units
      BY <2>1, Blocks DEF Neighbours, Good
    <2>3. lo \in ats /\ \A k \in ats : lo <= k
      <3>1. ats \in SUBSET Nat /\ ats # {}
        BY <2>2
      <3>2. \E m \in ats : \A k \in ats : m <= k
        BY <3>1, LeastNat
      <3> QED BY <3>2 DEF Min
    <2>4. hi \in ends /\ \A k \in ends : hi >= k
      <3>1. ends \in SUBSET Nat /\ ends # {} /\ Units \in Nat /\ \A k \in ends : k <= Units
        BY <2>2, Blocks
      <3>2. \E m \in ends : \A k \in ends : m >= k
        BY <3>1, GreatestNat
      <3> QED BY <3>2 DEF Max
    <2>5. PICK m \in all : lo = m.at
      BY <2>3
    <2>6. PICK t \in all : hi = End(t)
      BY <2>4
    <2>7. \A b \in all : lo <= b.at /\ End(b) <= hi
      BY <2>3, <2>4
    <2>8. kfree(f, h) = (f \ all) \cup {new}
      BY <1>2 DEF kfree
    <2> HIDE DEF lo, hi
    <2>9. /\ lo \in Nat /\ hi \in Nat /\ lo <= h.at /\ End(h) <= hi /\ hi <= Units
      BY <2>2, <2>5, <2>6, <2>7
    <2>10. new \in Block /\ new.at = lo /\ End(new) = hi
      BY <2>2, <2>9, Blocks DEF Block, End
    <2> HIDE DEF new
    <2>11. ASSUME NEW u \in Unit
           PROVE  u \in Extent(new) <=> \E b \in all : u \in Extent(b)
      <3>1. u \in Extent(new) <=> lo <= u /\ u < hi
        BY <2>10, Blocks DEF Unit
      <3>2. \A b \in all : u \in Extent(b) <=> b.at <= u /\ u < End(b)
        BY <2>1, Blocks DEF Unit
      <3>3. ASSUME NEW b \in all, u \in Extent(b) PROVE lo <= u /\ u < hi
        BY <2>2, <2>7, <2>9, <3>2, <3>3 DEF Unit
      <3>4. m = h \/ End(m) = h.at
        BY <2>2, <2>5, <2>9 DEF Neighbours
      <3>5. t = h \/ t.at = End(h)
        BY <2>2, <2>6, <2>9 DEF Neighbours
      <3>6. ASSUME lo <= u, u < hi PROVE \E b \in all : u \in Extent(b)
        <4>1. u \in Extent(m) \/ u \in Extent(h) \/ u \in Extent(t)
          BY <2>2, <2>5, <2>6, <3>2, <3>4, <3>5, <3>6 DEF Unit
        <4> QED BY <4>1
      <3> QED BY <3>1, <3>3, <3>6
    <2>12. Extent(h) \subseteq Unit
      BY <2>1, <2>2, Blocks DEF Extent, Unit
    <2>13. \A b \in f \ all : Apart(b, h)
      <3> SUFFICES ASSUME NEW b \in f \ all PROVE Apart(b, h)
        OBVIOUS
      <3>1. b.at # End(h) /\ End(b) # h.at
        BY DEF Neighbours
      <3>2. ASSUME b.at < End(h), h.at < End(b) PROVE FALSE
        <4>1. PICK u \in Unit : u = IF b.at < h.at THEN h.at ELSE b.at
          BY <2>2, <3>2, Blocks DEF Unit
        <4>2. u \in Extent(h) /\ u \in Extent(b)
          BY <2>1, <2>2, <3>2, <4>1, Blocks DEF Unit
        <4> QED BY <4>2 DEF Good
      <3> QED BY <2>2, <3>1, <3>2 DEF Apart
    <2>14. \A b \in f \ all : Apart(b, new) /\ Apart(new, b)
      <3> SUFFICES ASSUME NEW b \in f \ all PROVE Apart(b, new) /\ Apart(new, b)
        OBVIOUS
      <3>1. Apart(b, h) /\ Apart(b, m) /\ Apart(b, t)
        BY <2>13 DEF Good, Neighbours
      <3>2. (m = h \/ End(m) = h.at) /\ (t = h \/ t.at = End(h))
        BY <2>2, <2>5, <2>6, <2>9 DEF Neighbours
      <3> QED BY <2>2, <2>5, <2>6, <2>10, <3>1, <3>2 DEF Apart
    <2>15. ASSUME NEW u \in Unit
           PROVE  u \in U \ Extent(h) <=> \A b \in (f \ all) \cup {new} : u \notin Extent(b)
      <3>1. u \in U <=> \A b \in f : u \notin Extent(b)
        BY DEF Good
      <3>2. all = {b \in f : b \in Neighbours(f, h)} \cup {h}
        BY DEF Neighbours
      <3>3. u \in Extent(h) => u \in U
        OBVIOUS
      <3> HIDE DEF all
      <3> QED BY <2>11, <3>1, <3>2, <3>3
    <2>16. Good((f \ all) \cup {new}, U \ Extent(h))
      BY <2>1, <2>2, <2>9, <2>10, <2>14, <2>15 DEF Good
    <2> QED BY <2>8, <2>16
  <1> QED BY <1>1, <1>2

LEMMA KfreeExecGives ==
    ASSUME NEW f, NEW U, Good(f, U), NEW r \in HeldRow, Scattered(r), UnitsOf(r) \subseteq U
    PROVE  Good(kfree_exec(f, r), U \ UnitsOf(r))
  <1>1. r.text \in Held /\ r.data \in Held /\ r.argv \in Held /\ r.heap \in Held
    BY DEF HeldRow
  <1> DEFINE T == Extent(r.text)
             D == Extent(r.data)
             A == Extent(r.argv)
             H == Extent(r.heap)
             f1 == kfree(f, r.text)
             f2 == kfree(f1, r.data)
             f3 == kfree(f2, r.argv)
             f4 == kfree(f3, r.heap)
  <1>2. T \subseteq U /\ D \subseteq U \ T /\ A \subseteq (U \ T) \ D
        /\ H \subseteq ((U \ T) \ D) \ A
    BY DEF Scattered, UnitsOf
  <1>3. U \ UnitsOf(r) = (((U \ T) \ D) \ A) \ H
    BY DEF UnitsOf
  <1>4. kfree_exec(f, r) = f4
    BY DEF kfree_exec
  <1>5. Good(f1, U \ T)
    BY <1>1, <1>2, KfreeGives
  <1> HIDE DEF f1
  <1>6. Good(f2, (U \ T) \ D)
    BY <1>1, <1>2, <1>5, KfreeGives
  <1> HIDE DEF f2
  <1>7. Good(f3, ((U \ T) \ D) \ A)
    BY <1>1, <1>2, <1>6, KfreeGives
  <1> HIDE DEF f3
  <1>8. Good(f4, (((U \ T) \ D) \ A) \ H)
    BY <1>1, <1>2, <1>7, KfreeGives
  <1> QED BY <1>3, <1>4, <1>8

-----------------------------------------------------------------------------
(* The system calls. *)

(* A slot's row is replaced. *)
LEMMA RowReplaced ==
    ASSUME IInv, NEW s \in Slots, NEW r \in HeldRow, Scattered(r),
           UnitsOf(r) \cap (InUse \ UnitsOf(mem[s])) = {},
           mem' = [mem EXCEPT ![s] = r],
           Good(free', (InUse \ UnitsOf(mem[s])) \cup UnitsOf(r))
    PROVE  IInv'
  <1>1. mem' \in [Slots -> HeldRow] /\ mem'[s] = r /\ \A q \in Slots \ {s} : mem'[q] = mem[q]
    BY DEF IInv
  <1>2. \A q \in Slots : Scattered(mem'[q])
    BY <1>1 DEF IInv
  <1>3. \A q \in Slots \ {s} : UnitsOf(mem[q]) \subseteq InUse \ UnitsOf(mem[s])
    BY DEF IInv, InUse
  <1>4. \A p, q \in Slots : p # q => UnitsOf(mem'[p]) \cap UnitsOf(mem'[q]) = {}
    BY <1>1, <1>3 DEF IInv
  <1>5. InUse' = UNION {UnitsOf(mem'[q]) : q \in Slots}
    BY DEF InUse
  <1>6. \A u : u \in InUse' <=> u \in (InUse \ UnitsOf(mem[s])) \cup UnitsOf(r)
    BY <1>1, <1>3, <1>5 DEF InUse
  <1>7. InUse' = (InUse \ UnitsOf(mem[s])) \cup UnitsOf(r)
    BY <1>6
  <1>8. Good(free', InUse')
    BY <1>7
  <1>9. Good(free, InUse)'
    BY <1>8 DEF Good, InUse
  <1> QED BY <1>1, <1>2, <1>4, <1>9 DEF IInv

LEMMA ClaimIs ==
    ASSUME NEW f, NEW U, Good(f, U), NEW im \in Images, NEW c, c = Claim(f, im)
    PROVE  /\ c.text \in Held /\ c.data \in Held
           /\ Extent(c.text) \cap U = {} /\ Extent(c.data) \cap U = {}
           /\ Extent(c.text) \cap Extent(c.data) = {}
           /\ Good(c.free, (U \cup Extent(c.text)) \cup Extent(c.data))
  <1>1. im.text \in Nat /\ im.data \in Nat /\ im.text + im.data \in Nat
    BY KArenaAssumption
  <1>2. CASE im.home # 0
    <2>1. PICK n \in Nat : n = im.text + im.data
      BY <1>1
    <2>2. Allots(kalloc(f, n), f, U)
      BY KallocAllots
    <2>3. c.text = Null /\ c.data = kalloc(f, n).got /\ c.free = kalloc(f, n).free
      BY <1>2, <2>1 DEF Claim
    <2>4. Null \in Held /\ Extent(Null) = {} /\ U \cup {} = U
      BY Blocks DEF Held
    <2> QED BY <2>2, <2>3, <2>4 DEF Allots
  <1>3. CASE im.home = 0
    <2> DEFINE t == kalloc(f, im.text)
               d == kalloc(t.free, im.data)
    <2>1. c.text = t.got /\ c.data = d.got /\ c.free = d.free
      BY <1>3 DEF Claim
    <2>2. Allots(t, f, U)
      BY <1>1, KallocAllots
    <2>3. Good(t.free, U \cup Extent(t.got))
      BY <2>2 DEF Allots
    <2> HIDE DEF t
    <2>4. Allots(d, t.free, U \cup Extent(t.got))
      BY <1>1, <2>3, KallocAllots
    <2> HIDE DEF d
    <2> QED BY <2>1, <2>2, <2>4 DEF Allots
  <1> QED BY <1>2, <1>3

(* What a refused exec claims it gives back, and there is one good list. *)
LEMMA RefusedExec ==
    ASSUME IInv, NEW im \in Images, NEW readOk \in BOOLEAN, ExecRefused(im, readOk)
    PROVE  UNCHANGED <<free, mem>>
  <1> DEFINE c == Claim(free, im)
  <1>1. Good(free, InUse)
    BY DEF IInv
  <1>2. /\ c.text \in Held /\ c.data \in Held
        /\ Extent(c.text) \cap InUse = {} /\ Extent(c.data) \cap InUse = {}
        /\ Extent(c.text) \cap Extent(c.data) = {}
        /\ Good(c.free, (InUse \cup Extent(c.text)) \cup Extent(c.data))
    BY <1>1, ClaimIs
  <1>3. free' = kfree(kfree(c.free, c.text), c.data) /\ mem' = mem
    BY DEF ExecRefused, GiveBack
  <1> HIDE DEF c
  <1>4. Good(kfree(c.free, c.text), InUse \cup Extent(c.data))
    <2>1. Extent(c.text) \subseteq (InUse \cup Extent(c.text)) \cup Extent(c.data)
      OBVIOUS
    <2>2. ((InUse \cup Extent(c.text)) \cup Extent(c.data)) \ Extent(c.text)
            = InUse \cup Extent(c.data)
      BY <1>2
    <2> QED BY <1>2, <2>1, <2>2, KfreeGives
  <1>5. Good(kfree(kfree(c.free, c.text), c.data), InUse)
    <2>1. Extent(c.data) \subseteq InUse \cup Extent(c.data)
      OBVIOUS
    <2>2. (InUse \cup Extent(c.data)) \ Extent(c.data) = InUse
      BY <1>2
    <2> QED BY <1>2, <1>4, <2>1, <2>2, KfreeGives
  <1>6. kfree(kfree(c.free, c.text), c.data) = free
    BY <1>1, <1>5, OneList
  <1> QED BY <1>3, <1>6

LEMMA SlotFacts ==
    ASSUME IInv, NEW s \in Slots
    PROVE  /\ mem[s] \in HeldRow /\ Scattered(mem[s]) /\ UnitsOf(mem[s]) \subseteq InUse
           /\ Good(free, InUse)
  BY DEF IInv, InUse

LEMMA ExecKeeps ==
    ASSUME IInv, NEW s \in Slots, NEW im \in Images, NEW args \in BOOLEAN, Exec(s, im, args)
    PROVE  IInv'
  <1> DEFINE c == Claim(free, im)
             f == kfree_exec(c.free, mem[s])
             a == IF args THEN kalloc(f, 1) ELSE [free |-> f, got |-> Null]
             r == [text |-> c.text, data |-> c.data, argv |-> a.got, heap |-> Null]
             V == InUse \cup Extent(c.text) \cup Extent(c.data)
             M == UnitsOf(mem[s])
  <1>1. mem[s] \in HeldRow /\ Scattered(mem[s]) /\ M \subseteq InUse /\ Good(free, InUse)
    BY SlotFacts
  <1>2. /\ c.text \in Held /\ c.data \in Held
        /\ Extent(c.text) \cap InUse = {} /\ Extent(c.data) \cap InUse = {}
        /\ Extent(c.text) \cap Extent(c.data) = {}
        /\ Good(c.free, V)
    BY <1>1, ClaimIs
  <1>3. free' = a.free /\ mem' = [mem EXCEPT ![s] = r]
    BY DEF Exec
  <1> HIDE DEF c
  <1>4. Good(f, V \ M)
    <2>1. M \subseteq V
      BY <1>1
    <2> QED BY <1>1, <1>2, <2>1, KfreeExecGives
  <1> HIDE DEF f, M, V
  <1>5. Allots(a, f, V \ M)
    BY <1>4, KallocAllots, Refuses
  <1> HIDE DEF a
  <1>6. a.got \in Held /\ Extent(a.got) \cap (V \ M) = {} /\ Good(a.free, (V \ M) \cup Extent(a.got))
    BY <1>5 DEF Allots
  <1>7. Null \in Held /\ Extent(Null) = {}
    BY Blocks DEF Held
  <1>8. /\ r \in HeldRow
        /\ UnitsOf(r) = Extent(c.text) \cup Extent(c.data) \cup Extent(a.got)
    BY <1>2, <1>6, <1>7 DEF HeldRow, UnitsOf
  <1>9. Extent(c.text) \cap M = {} /\ Extent(c.data) \cap M = {}
    BY <1>1, <1>2 DEF M
  <1>10. Scattered(r)
    BY <1>2, <1>6, <1>7, <1>9 DEF Scattered, V
  <1>11. UnitsOf(r) \cap (InUse \ M) = {}
    BY <1>2, <1>6, <1>8 DEF V
  <1>12. (V \ M) \cup Extent(a.got) = (InUse \ M) \cup UnitsOf(r)
    BY <1>8, <1>9 DEF V
  <1> HIDE DEF r
  <1> QED BY <1>3, <1>6, <1>8, <1>10, <1>11, <1>12, RowReplaced DEF M

LEMMA SbrkKeeps ==
    ASSUME IInv, NEW s \in Slots, NEW want \in Asks, Sbrk(s, want)
    PROVE  IInv'
  <1> DEFINE fits == {n \in Tried(want) : Fitting(free, n) # {}}
             c == kalloc_top(free, Max(fits))
             r == [mem[s] EXCEPT !.heap = c.got]
  <1>1. mem[s] \in HeldRow /\ Scattered(mem[s]) /\ UnitsOf(mem[s]) \subseteq InUse
        /\ Good(free, InUse) /\ mem \in [Slots -> HeldRow]
    BY SlotFacts DEF IInv
  <1>2. fits # {} /\ mem[s].heap = Null /\ free' = c.free /\ mem' = [mem EXCEPT ![s] = r]
    BY <1>1 DEF Sbrk
  <1>3. Max(fits) \in Nat
    <2>1. fits \in SUBSET Nat
      BY KArenaAssumption DEF Tried, Halvings
    <2>2. \A n \in fits : n <= Units
      <3> SUFFICES ASSUME NEW n \in fits PROVE n <= Units
        OBVIOUS
      <3>1. PICK b \in free : b.size >= n + 1
        BY DEF Fitting
      <3> QED BY <1>1, <2>1, <3>1, Blocks DEF Good, Block
    <2>3. \E m \in fits : \A k \in fits : m >= k
      BY <1>2, <2>1, <2>2, GreatestNat, Blocks
    <2> QED BY <2>1, <2>3 DEF Max
  <1>4. Allots(c, free, InUse)
    BY <1>1, <1>3, KallocTopAllots
  <1> HIDE DEF c
  <1>5. c.got \in Held /\ Extent(c.got) \cap InUse = {} /\ Good(c.free, InUse \cup Extent(c.got))
    BY <1>4 DEF Allots
  <1>6. /\ r \in HeldRow /\ r.text = mem[s].text /\ r.data = mem[s].data
        /\ r.argv = mem[s].argv /\ r.heap = c.got
    BY <1>1, <1>5 DEF HeldRow
  <1> HIDE DEF r
  <1>7. Extent(mem[s].heap) = {}
    BY <1>2, Blocks
  <1>8. UnitsOf(r) = UnitsOf(mem[s]) \cup Extent(c.got)
    BY <1>6, <1>7 DEF UnitsOf
  <1>9. Scattered(r)
    BY <1>1, <1>5, <1>6 DEF Scattered, UnitsOf
  <1>10. UnitsOf(r) \cap (InUse \ UnitsOf(mem[s])) = {}
    BY <1>5, <1>8
  <1>11. (InUse \ UnitsOf(mem[s])) \cup UnitsOf(r) = InUse \cup Extent(c.got)
    BY <1>1, <1>8
  <1> QED BY <1>2, <1>5, <1>6, <1>9, <1>10, <1>11, RowReplaced

LEMMA ExitKeeps ==
    ASSUME IInv, NEW s \in Slots, Exit(s)
    PROVE  IInv'
  <1>1. mem[s] \in HeldRow /\ Scattered(mem[s]) /\ UnitsOf(mem[s]) \subseteq InUse
        /\ Good(free, InUse)
    BY SlotFacts
  <1>2. Good(kfree_exec(free, mem[s]), InUse \ UnitsOf(mem[s]))
    BY <1>1, KfreeExecGives
  <1>3. Nothing \in HeldRow /\ Scattered(Nothing) /\ UnitsOf(Nothing) = {}
    BY Blocks DEF Nothing, HeldRow, Held, Scattered, UnitsOf
  <1>4. (InUse \ UnitsOf(mem[s])) \cup UnitsOf(Nothing) = InUse \ UnitsOf(mem[s])
        /\ UnitsOf(Nothing) \cap (InUse \ UnitsOf(mem[s])) = {}
    BY <1>3
  <1> QED BY <1>2, <1>3, <1>4, RowReplaced DEF Exit

LEMMA Unchanged == ASSUME IInv, UNCHANGED vars PROVE IInv'
  BY DEF IInv, vars, InUse, Good

LEMMA InitIInv == Init => IInv
  <1> SUFFICES ASSUME Init PROVE IInv
    OBVIOUS
  <1> DEFINE b == [at |-> 0, size |-> Units]
  <1>1. Nothing \in HeldRow /\ Scattered(Nothing) /\ UnitsOf(Nothing) = {}
    BY Blocks DEF Nothing, HeldRow, Held, Scattered, UnitsOf
  <1>2. b \in Block /\ End(b) = Units
    BY Blocks DEF Block, End
  <1>3. InUse = {}
    BY <1>1 DEF Init, InUse
  <1>4. \A u \in Unit : u \in Extent(b)
    BY <1>2, Blocks DEF Unit
  <1>5. Good(free, {})
    BY <1>2, <1>4, Blocks DEF Good, Init
  <1> QED BY <1>1, <1>3, <1>5 DEF Init, IInv

(* Every reachable state of the arena satisfies the inductive invariant. *)
THEOREM ArenaInvariance == Spec => []IInv
  <1>1. IInv /\ [Next]_vars => IInv'
    <2> SUFFICES ASSUME IInv, [Next]_vars PROVE IInv'
      OBVIOUS
    <2>1. ASSUME NEW im \in Images, NEW readOk \in BOOLEAN, ExecRefused(im, readOk) PROVE IInv'
      BY <2>1, RefusedExec, Unchanged DEF vars
    <2>2. ASSUME NEW s \in Slots, NEW im \in Images, NEW args \in BOOLEAN, Exec(s, im, args)
          PROVE  IInv'
      BY <2>2, ExecKeeps
    <2>3. ASSUME NEW s \in Slots, NEW want \in Asks, Sbrk(s, want) PROVE IInv'
      BY <2>3, SbrkKeeps
    <2>4. ASSUME NEW s \in Slots, Exit(s) PROVE IInv'
      BY <2>4, ExitKeeps
    <2>5. CASE UNCHANGED vars
      BY <2>5, Unchanged
    <2> QED BY <2>1, <2>2, <2>3, <2>4, <2>5 DEF Next
  <1> QED BY InitIInv, <1>1, PTL DEF Spec

(* Every unit of the arena is free or has one owner that will free it, and no
   two free blocks touch, after any sequence of execs, refused execs, heap
   requests and exits: nothing is handed out twice and nothing leaks. *)
THEOREM ArenaIsPartitioned == Spec => []ArenaInv
  <1>1. IInv => ArenaInv
    <2> SUFFICES ASSUME IInv PROVE ArenaInv
      OBVIOUS
    <2>1. TypeOK
      <3>1. Held \subseteq Block \cup {Null}
        BY DEF Held
      <3> QED BY <3>1 DEF IInv, TypeOK, Good, HeldRow, Owned
    <2>2. Coalesced
      <3> SUFFICES ASSUME NEW b \in free, NEW c \in free, End(b) = c.at PROVE FALSE
        BY DEF Coalesced
      <3>1. b \in Block /\ c \in Block /\ (b # c => Apart(b, c))
        BY DEF IInv, Good
      <3> QED BY <3>1, Blocks DEF Apart
    <2>3. ASSUME NEW u \in Unit
          PROVE  Cardinality(Owners(u)) + Cardinality(FreeAt(u)) = 1
      <3>1. ASSUME NEW o \in Owners(u), NEW q \in Owners(u) PROVE o = q
        <4>1. PICK s \in Slots, x \in Fields : o = <<s, x>> /\ u \in Extent(mem[s][x])
          BY DEF Owners
        <4>2. PICK p \in Slots, y \in Fields : q = <<p, y>> /\ u \in Extent(mem[p][y])
          BY DEF Owners
        <4>3. u \in UnitsOf(mem[s]) /\ u \in UnitsOf(mem[p])
          BY <4>1, <4>2 DEF UnitsOf, Fields
        <4>4. s = p
          BY <4>3 DEF IInv
        <4>5. x = y
          BY <4>1, <4>2, <4>4 DEF IInv, Scattered, Fields
        <4> QED BY <4>1, <4>2, <4>4, <4>5
      <3>2. ASSUME NEW b \in FreeAt(u), NEW c \in FreeAt(u) PROVE b = c
        <4>1. b \in Block /\ c \in Block /\ (b # c => Apart(b, c))
          BY DEF IInv, Good, FreeAt
        <4>2. b.at <= u /\ u < End(b) /\ c.at <= u /\ u < End(c)
          BY <4>1, Blocks DEF FreeAt, Unit
        <4> QED BY <4>1, <4>2, Blocks DEF Apart, Unit
      <3>3. u \in InUse <=> Owners(u) # {}
        <4>1. ASSUME NEW o \in Owners(u) PROVE u \in InUse
          <5>1. PICK s \in Slots, x \in Fields : u \in Extent(mem[s][x])
            BY DEF Owners
          <5> QED BY <5>1 DEF InUse, UnitsOf, Fields
        <4>2. ASSUME u \in InUse PROVE Owners(u) # {}
          <5>1. PICK s \in Slots : u \in UnitsOf(mem[s])
            BY <4>2 DEF InUse
          <5>2. PICK x \in Fields : u \in Extent(mem[s][x])
            BY <5>1 DEF UnitsOf, Fields
          <5>3. <<s, x>> \in Owners(u)
            BY <5>2 DEF Owners
          <5> QED BY <5>3
        <4> QED BY <4>1, <4>2
      <3>4. u \in InUse <=> FreeAt(u) = {}
        BY DEF IInv, Good, FreeAt
      <3>5. CASE u \in InUse
        <4>1. PICK o : Owners(u) = {o}
          BY <3>1, <3>3, <3>5
        <4>2. Cardinality(Owners(u)) = 1
          BY <4>1, FS_Singleton
        <4>3. Cardinality(FreeAt(u)) = 0
          BY <3>4, <3>5, FS_EmptySet
        <4> QED BY <4>2, <4>3
      <3>6. CASE u \notin InUse
        <4>1. PICK b : FreeAt(u) = {b}
          BY <3>2, <3>4, <3>6
        <4>2. Cardinality(FreeAt(u)) = 1
          BY <4>1, FS_Singleton
        <4>3. Cardinality(Owners(u)) = 0
          BY <3>3, <3>6, FS_EmptySet
        <4> QED BY <4>2, <4>3
      <3> QED BY <3>5, <3>6
    <2>4. Partition
      BY <2>3 DEF Partition, Unit
    <2> QED BY <2>1, <2>2, <2>4 DEF ArenaInv
  <1> QED BY ArenaInvariance, <1>1, PTL

(* An exec that fails, for want of space, of its fixed place or of the file,
   leaves the free list exactly as it found it. *)
THEOREM RefusedExecIsClean == Spec => RefusalIsClean
  <1>1. IInv /\ [Next]_vars =>
           [\A im \in Images, readOk \in BOOLEAN :
               ExecRefused(im, readOk) => UNCHANGED free]_vars
    BY RefusedExec
  <1> QED BY ArenaInvariance, <1>1, PTL DEF Spec, RefusalIsClean
=============================================================================
