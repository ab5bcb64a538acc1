-------------------------- MODULE VideoMixerProofs --------------------------
(***************************************************************************)
(* The video mixer: for any number of participants, mosaics and calls and  *)
(* any layouts, a mosaic is consistent, shows the right participants, and  *)
(* its pictures are current.                                               *)
(*                                                                         *)
(* The lock that makes a call of the mixer one step (lstVideosUse, of the  *)
(* class Use): for any number of threads it excludes users while it is     *)
(* owned, loses no wake-up and implements the readers-writer lock RWLock.  *)
(***************************************************************************)
EXTENDS VideoMixer, UseLock, FiniteSetTheorems, WellFoundedInduction, NaturalsInduction, TLAPS

-----------------------------------------------------------------------------
(* What is true of a mosaic.                                               *)

\* A mosaic with n slots
MosaicOf(n) ==
    [obj    : Object,
     slots  : [0..(n - 1) -> SlotValue],
     pos    : [0..(n - 1) -> Part \cup {0}],
     oldPos : [0..(n - 1) -> Part \cup {0, -1}],
     score  : UNION {[ps -> Int] : ps \in SUBSET Part},
     fixed  : UNION {[ps -> {0, 1}] : ps \in SUBSET Part},
     vad    : Part \cup {0},
     hide   : BOOLEAN,
     image  : [0..(n - 1) -> Part \cup {0}],
     stale  : SUBSET (0..(n - 1))]
Typed(x) == (\E n \in Nat : x \in MosaicOf(n)) /\ DOMAIN x.fixed = DOMAIN x.score

\* Scores are those given to participants that have not spoken, or ranks
Scored(x) ==
    /\ \A p \in DOMAIN x.score : x.score[p] = -p \/ x.score[p] \in 1..MaxPart
    /\ \A p, q \in DOMAIN x.score : x.score[p] = x.score[q] => p = q

IsSet(x, p) == \E i \in Slot(x) : x.slots[i] = p
Counted(x) ==
    /\ \A p \in DOMAIN x.score : x.fixed[p] = IF IsSet(x, p) THEN 1 ELSE 0
    /\ \A i, j \in Slot(x) : x.slots[i] = x.slots[j] /\ x.slots[i] > 0 => i = j

Spoken(x) == x.vad # 0 => HasParticipant(x, x.vad) /\ IsVADShown(x)

Pictured(x) == \A i \in Slot(x) : x.image[i] \in {0, x.oldPos[i]}

\* Before and after the positions are worked out
Ready(x) == Typed(x) /\ Scored(x) /\ Counted(x) /\ Spoken(x) /\ Pictured(x)

Once(x) ==
    \A i, j \in Slot(x) :
        x.pos[i] = x.pos[j] /\ x.pos[i] # 0 /\ x.slots[i] # SlotVAD /\ x.slots[j] # SlotVAD => i = j
IsOpen(x, i) == i \in Slot(x) /\ x.slots[i] = SlotFree
Ordered(x) ==
    \A i, j \in Slot(x) : IsOpen(x, i) /\ IsOpen(x, j) /\ i < j /\ x.pos[j] # 0
        => x.pos[i] # 0 /\ x.score[x.pos[i]] > x.score[x.pos[j]]
Waits(x, p) == /\ \A i \in Slot(x) : x.slots[i] # p /\ (IsOpen(x, i) => x.pos[i] # p)
               /\ ~(p = x.vad /\ x.hide)
NobodyLeftOut(x) ==
    \A p \in DOMAIN x.score : Waits(x, p) =>
        \A i \in Slot(x) : IsOpen(x, i) => x.pos[i] # 0 /\ x.score[x.pos[i]] > x.score[p]
Placed(x) ==
    /\ \A i \in Slot(x) : x.slots[i] > 0 => HasParticipant(x, x.slots[i])
    /\ \A i \in Slot(x) : x.slots[i] = SlotVAD => x.pos[i] = x.vad
    /\ Once(x) /\ Ordered(x) /\ NobodyLeftOut(x)

Sound(x) == Ready(x) /\ Placed(x)

-----------------------------------------------------------------------------
(* Numbers and finite sets.                                                *)

\* A set of natural numbers has a least element.
LEMMA Least ==
    ASSUME NEW T, T \subseteq Nat, T # {}
    PROVE  \E x \in T : \A y \in T : x <= y
<1> DEFINE R == {ss \in Nat \X Nat : ss[1] < ss[2]}
<1>1. IsWellFoundedOn(R, Nat)
  BY NatLessThanWellFounded DEF OpToRel
<1> HIDE DEF R
<1>2. PICK x \in T : \A y \in T : ~(<<y, x>> \in R)
  BY <1>1, WFMin
<1>3. ASSUME NEW y \in T PROVE x <= y
  <2>1. ~(<<y, x>> \in R)
    BY <1>2
  <2>2. ~(y < x)
    BY <2>1 DEF R
  <2> QED
    BY <2>2
<1> QED
  BY <1>3

\* Induction over a set of natural numbers.
LEMMA Induction ==
    ASSUME NEW S, 0 \in S, \A n \in Nat : n \in S => n + 1 \in S
    PROVE  Nat \subseteq S
<1> SUFFICES ASSUME NEW m \in Nat, m \notin S PROVE FALSE
  OBVIOUS
<1> DEFINE T == {n \in Nat : n \notin S}
<1>1. PICK x \in T : \A y \in T : x <= y
  BY Least
<1>2. x # 0
  OBVIOUS
<1>3. x - 1 \in Nat /\ x - 1 \notin T
  BY <1>1, <1>2
<1> QED
  BY <1>3

\* Participants are finitely many, and never one of the values of a slot.
LEMMA Parts ==
    /\ MaxPart \in Nat /\ Part \subseteq Nat /\ IsFiniteSet(Part) /\ Cardinality(Part) = MaxPart
    /\ \A p \in Part : p > 0 /\ p # SlotFree /\ p # SlotLocked /\ p # SlotVAD
    /\ SlotFree = 0 /\ SlotLocked = -1 /\ SlotVAD = -2
    /\ \A v \in SlotValue : v \in Int /\ (v > 0 <=> v \in Part)
                            /\ (v \notin Part => v \in {SlotFree, SlotLocked, SlotVAD})
<1>1. MaxPart \in Nat /\ Part = 1..MaxPart
  BY PartAssumption DEF Part
<1>2. IsFiniteSet(1..MaxPart) /\ Cardinality(1..MaxPart) = MaxPart
  BY <1>1, FS_Interval
<1> QED
  BY <1>1, <1>2 DEF Part, SlotFree, SlotLocked, SlotVAD, SlotValue

\* The fields of a mosaic
LEMMA Fields ==
    ASSUME NEW x, Typed(x)
    PROVE  /\ \E n \in Nat : Slot(x) = 0..(n - 1) /\ x \in MosaicOf(n)
           /\ Slot(x) \subseteq Nat
           /\ \A i \in Slot(x) : /\ x.slots[i] \in SlotValue /\ x.pos[i] \in Part \cup {0}
                                 /\ x.image[i] \in Part \cup {0}
           /\ DOMAIN x.score \subseteq Part /\ DOMAIN x.fixed = DOMAIN x.score
           /\ \A p \in DOMAIN x.score : x.score[p] \in Int /\ x.fixed[p] \in {0, 1}
           /\ x.obj \in Object /\ x.vad \in Part \cup {0} /\ x.hide \in BOOLEAN
<1>1. PICK n \in Nat : x \in MosaicOf(n)
  BY DEF Typed
<1>2. /\ x.slots \in [0..(n - 1) -> SlotValue] /\ x.pos \in [0..(n - 1) -> Part \cup {0}]
      /\ x.image \in [0..(n - 1) -> Part \cup {0}]
      /\ x.obj \in Object /\ x.vad \in Part \cup {0} /\ x.hide \in BOOLEAN
  BY <1>1 DEF MosaicOf
<1>3. Slot(x) = 0..(n - 1)
  BY <1>2 DEF Slot
<1>4. PICK ps \in SUBSET Part : x.score \in [ps -> Int]
  BY <1>1 DEF MosaicOf
<1>5. PICK qs \in SUBSET Part : x.fixed \in [qs -> {0, 1}]
  BY <1>1 DEF MosaicOf
<1>6. DOMAIN x.fixed = DOMAIN x.score
  BY DEF Typed
<1> QED
  BY <1>1, <1>2, <1>3, <1>4, <1>5, <1>6

-----------------------------------------------------------------------------
(* CalculatePositions.                                                     *)

\* The first of some participants in the order of a mosaic
LEMMA FirstIsFirst ==
    ASSUME NEW m, Typed(m), Scored(m), NEW ps \in SUBSET (DOMAIN m.score), ps # {}
    PROVE  First(m, ps) \in ps /\ \A q \in ps : m.score[q] <= m.score[First(m, ps)]
<1>1. \A p \in ps : m.score[p] \in Int /\ MaxPart - m.score[p] \in Nat
  <2> SUFFICES ASSUME NEW p \in DOMAIN m.score
               PROVE  m.score[p] \in Int /\ MaxPart - m.score[p] \in Nat
    OBVIOUS
  <2>1. p \in Nat /\ MaxPart \in Nat
    BY Fields, Parts
  <2>2. m.score[p] = -p \/ m.score[p] \in 1..MaxPart
    BY DEF Scored
  <2> QED
    BY <2>1, <2>2
<1> DEFINE T == {MaxPart - m.score[p] : p \in ps}
<1>2. T \subseteq Nat /\ T # {}
  BY <1>1
<1>3. PICK t \in T : \A y \in T : t <= y
  BY <1>2, Least
<1>4. PICK p \in ps : t = MaxPart - m.score[p]
  BY <1>3
<1>5. ASSUME NEW q \in ps PROVE m.score[q] <= m.score[p]
  <2>1. MaxPart - m.score[p] <= MaxPart - m.score[q]
    BY <1>3, <1>4
  <2> QED
    BY <1>1, <2>1, Parts
<1> QED
  BY <1>5 DEF First

\* The walk has a state for every number of slots.
LEMMA WalkExists ==
    ASSUME NEW m, NEW n \in Nat
    PROVE  \E g : g = [k \in 0..n |-> IF k = 0 THEN [rest |-> DOMAIN m.score, shown |-> 0]
                                      ELSE Place(m, k - 1, g[k - 1].rest)]
<1> DEFINE start == [rest |-> DOMAIN m.score, shown |-> 0]
           IsWalk(g, l) == g = [k \in 0..l |-> IF k = 0 THEN start ELSE Place(m, k - 1, g[k - 1].rest)]
           S == {l \in Nat : \E g : IsWalk(g, l)}
<1>1. 0 \in S
  <2>1. IsWalk([k \in 0..0 |-> start], 0)
    OBVIOUS
  <2> QED
    BY <2>1
<1> HIDE DEF start
<1>2. ASSUME NEW l \in Nat, l \in S PROVE l + 1 \in S
  <2>1. PICK g : IsWalk(g, l)
    BY <1>2
  <2>2. PICK h : h = [k \in 0..(l + 1) |-> IF k <= l THEN g[k] ELSE Place(m, l, g[l].rest)]
    OBVIOUS
  <2>3. ASSUME NEW k \in 0..(l + 1)
        PROVE  h[k] = IF k = 0 THEN start ELSE Place(m, k - 1, h[k - 1].rest)
    <3>1. CASE k = 0
      BY <2>1, <2>2, <3>1
    <3>2. CASE k # 0 /\ k <= l
      <4>1. k \in 0..l /\ k - 1 \in 0..l
        BY <3>2
      <4>2. h[k - 1] = g[k - 1] /\ h[k] = g[k]
        BY <2>2, <4>1
      <4>3. g[k] = Place(m, k - 1, g[k - 1].rest)
        BY <2>1, <3>2, <4>1
      <4> QED
        BY <3>2, <4>2, <4>3
    <3>3. CASE k = l + 1
      <4>1. k # 0 /\ k - 1 = l /\ k - 1 \in 0..(l + 1) /\ ~(k <= l) /\ l <= l
        BY <3>3
      <4>2. h[k - 1] = g[l] /\ h[k] = Place(m, l, g[l].rest)
        BY <2>2, <4>1
      <4> QED
        BY <4>1, <4>2
    <3> QED
      BY <3>1, <3>2, <3>3
  <2>4. IsWalk(h, l + 1)
    BY <2>2, <2>3
  <2> QED
    BY <2>4
<1> HIDE DEF S
<1>3. n \in S
  BY <1>1, <1>2, Induction
<1> QED
  BY <1>3 DEF S, start

\* The walk, step by step
LEMMA WalkSteps ==
    ASSUME NEW m, NEW n \in Nat, Slot(m) = 0..(n - 1)
    PROVE  /\ Walk(m)[0] = [rest |-> DOMAIN m.score, shown |-> 0]
           /\ \A i \in 0..(n - 1) : Walk(m)[i + 1] = Place(m, i, Walk(m)[i].rest)
<1>1. Cardinality(Slot(m)) = n
  BY FS_Interval
<1>2. Walk(m) = [k \in 0..n |-> IF k = 0 THEN [rest |-> DOMAIN m.score, shown |-> 0]
                                ELSE Place(m, k - 1, Walk(m)[k - 1].rest)]
  <2>1. Cardinality(Slot(m)) \in Nat
    BY <1>1
  <2> DEFINE c == Cardinality(Slot(m))
             W == CHOOSE g : g = [k \in 0..c |-> IF k = 0 THEN [rest |-> DOMAIN m.score, shown |-> 0]
                                                 ELSE Place(m, k - 1, g[k - 1].rest)]
  <2>2. Walk(m) = W
    BY DEF Walk
  <2>3. W = [k \in 0..c |-> IF k = 0 THEN [rest |-> DOMAIN m.score, shown |-> 0]
                            ELSE Place(m, k - 1, W[k - 1].rest)]
    <3> HIDE DEF c
    <3>1. c \in Nat
      BY <2>1 DEF c
    <3> QED
      BY <3>1, WalkExists
  <2> HIDE DEF W
  <2> QED
    BY <1>1, <2>2, <2>3
<1>3. Walk(m)[0] = [rest |-> DOMAIN m.score, shown |-> 0]
  BY <1>2
<1>4. ASSUME NEW i \in 0..(n - 1) PROVE Walk(m)[i + 1] = Place(m, i, Walk(m)[i].rest)
  <2>1. i + 1 \in 0..n /\ i + 1 # 0 /\ (i + 1) - 1 = i
    OBVIOUS
  <2> QED
    BY <1>2, <2>1
<1> QED
  BY <1>3, <1>4

\* The walk up to slot k: who is shown, and who is still ahead of the iterator.  A participant
\* who is not passed over is ahead or is shown, those shown come before those ahead.
Walked(m, w, k) ==
    /\ w[k].rest \subseteq DOMAIN m.score
    /\ \A j \in 0..(k - 1) : IsFree(m, j) =>
          \/ w[j + 1].shown = 0 /\ w[k].rest = {}
          \/ /\ w[j + 1].shown \in DOMAIN m.score /\ ~IsSkipped(m, w[j + 1].shown)
             /\ \A q \in w[k].rest : m.score[q] < m.score[w[j + 1].shown]
    /\ \A j \in 0..(k - 1) : ~IsFree(m, j) =>
          w[j + 1].shown = Fixed(m, j)
    /\ \A i, j \in 0..(k - 1) : /\ IsFree(m, i) /\ IsFree(m, j) /\ i < j
                                /\ w[j + 1].shown # 0
          => w[i + 1].shown # 0 /\ m.score[w[i + 1].shown] > m.score[w[j + 1].shown]
    /\ \A p \in DOMAIN m.score : \/ IsSkipped(m, p) \/ p \in w[k].rest
                                 \/ \E j \in 0..(k - 1) : IsFree(m, j) /\ w[j + 1].shown = p

\* A step of the walk keeps it.
LEMMA PlaceKeeps ==
    ASSUME NEW m, Typed(m), Scored(m), NEW w, NEW k \in Slot(m), Walked(m, w, k),
           w[k + 1] = Place(m, k, w[k].rest)
    PROVE  Walked(m, w, k + 1)
<1> DEFINE rest == w[k].rest
           left == {p \in rest : ~IsSkipped(m, p)}
           first == First(m, left)
<1>1. /\ rest \subseteq DOMAIN m.score /\ DOMAIN m.score \subseteq Part /\ k \in Nat
      /\ \A p \in DOMAIN m.score : m.score[p] \in Int /\ p # 0
      /\ \A p, q \in DOMAIN m.score : m.score[p] = m.score[q] => p = q
  BY Fields, Parts DEF Walked, Scored
<1>2. \A j \in 0..((k + 1) - 1) : j \in 0..(k - 1) \/ j = k
  BY <1>1
<1>3. CASE IsFree(m, k) /\ left # {}
  <2>1. w[k + 1] = [rest |-> Behind(m, rest, first), shown |-> first]
    BY <1>3 DEF Place
  <2>2. first \in left /\ \A q \in left : m.score[q] <= m.score[first]
    BY <1>1, <1>3, FirstIsFirst
  <2> HIDE DEF first
  <2>3. /\ w[k + 1].shown = first /\ w[k + 1].rest = {q \in rest : m.score[q] < m.score[first]}
        /\ first \in rest /\ first \in DOMAIN m.score /\ ~IsSkipped(m, first) /\ first # 0
    BY <1>1, <2>1, <2>2 DEF Behind
  <2>4. w[k + 1].rest \subseteq rest
    BY <2>3
  <2>5. \A j \in 0..(k - 1) : IsFree(m, j) =>
           /\ w[j + 1].shown \in DOMAIN m.score /\ ~IsSkipped(m, w[j + 1].shown)
           /\ \A q \in rest : m.score[q] < m.score[w[j + 1].shown]
    BY <2>3 DEF Walked
  <2>6. \A j \in 0..((k + 1) - 1) : IsFree(m, j) =>
           /\ w[j + 1].shown \in DOMAIN m.score /\ ~IsSkipped(m, w[j + 1].shown)
           /\ \A q \in w[k + 1].rest : m.score[q] < m.score[w[j + 1].shown]
    BY <1>2, <2>3, <2>4, <2>5
  <2>7. \A j \in 0..((k + 1) - 1) : ~IsFree(m, j) =>
          w[j + 1].shown = Fixed(m, j)
    BY <1>2, <1>3 DEF Walked
  <2>8. \A i, j \in 0..((k + 1) - 1) : /\ IsFree(m, i) /\ IsFree(m, j) /\ i < j
                                       /\ w[j + 1].shown # 0
          => w[i + 1].shown # 0 /\ m.score[w[i + 1].shown] > m.score[w[j + 1].shown]
    <3> SUFFICES ASSUME NEW i \in 0..((k + 1) - 1), NEW j \in 0..((k + 1) - 1),
                        IsFree(m, i), IsFree(m, j), i < j, w[j + 1].shown # 0
                 PROVE  w[i + 1].shown # 0 /\ m.score[w[i + 1].shown] > m.score[w[j + 1].shown]
      OBVIOUS
    <3>1. i \in 0..(k - 1)
      BY <1>1
    <3>2. CASE j \in 0..(k - 1)
      BY <3>1, <3>2 DEF Walked
    <3>3. CASE j = k
      <4>1. /\ w[i + 1].shown \in DOMAIN m.score
            /\ m.score[first] < m.score[w[i + 1].shown]
        BY <2>3, <2>5, <3>1
      <4> QED
        BY <1>1, <2>3, <3>3, <4>1
    <3> QED
      BY <1>2, <3>2, <3>3
  <2>9. ASSUME NEW p \in DOMAIN m.score, ~IsSkipped(m, p), p \notin w[k + 1].rest
        PROVE  \E j \in 0..((k + 1) - 1) : IsFree(m, j) /\ w[j + 1].shown = p
    <3>1. CASE p \in rest
      <4>1. m.score[p] <= m.score[first] /\ ~(m.score[p] < m.score[first])
        BY <2>2, <2>3, <2>9, <3>1
      <4>2. p = first
        BY <1>1, <2>3, <4>1
      <4> QED
        BY <1>1, <1>3, <2>3, <4>2
    <3>2. CASE p \notin rest
      <4>1. PICK j \in 0..(k - 1) : IsFree(m, j) /\ w[j + 1].shown = p
        BY <2>9, <3>2 DEF Walked
      <4> QED
        BY <1>1, <4>1
    <3> QED
      BY <3>1, <3>2
  <2>10. w[k + 1].rest \subseteq DOMAIN m.score
    BY <1>1, <2>4
  <2> QED
    BY <2>6, <2>7, <2>8, <2>9, <2>10 DEF Walked
<1>4. CASE IsFree(m, k) /\ left = {}
  <2>1. w[k + 1].rest = {} /\ w[k + 1].shown = 0
    BY <1>4 DEF Place
  <2>2. \A j \in 0..((k + 1) - 1) : IsFree(m, j) =>
           \/ w[j + 1].shown = 0
           \/ w[j + 1].shown \in DOMAIN m.score /\ ~IsSkipped(m, w[j + 1].shown)
    BY <1>2, <2>1 DEF Walked
  <2>3. \A j \in 0..((k + 1) - 1) : ~IsFree(m, j) =>
          w[j + 1].shown = Fixed(m, j)
    BY <1>2, <1>4 DEF Walked
  <2>4. \A i, j \in 0..((k + 1) - 1) : /\ IsFree(m, i) /\ IsFree(m, j) /\ i < j
                                       /\ w[j + 1].shown # 0
          => w[i + 1].shown # 0 /\ m.score[w[i + 1].shown] > m.score[w[j + 1].shown]
    <3> SUFFICES ASSUME NEW i \in 0..((k + 1) - 1), NEW j \in 0..((k + 1) - 1),
                        IsFree(m, i), IsFree(m, j), i < j, w[j + 1].shown # 0
                 PROVE  w[i + 1].shown # 0 /\ m.score[w[i + 1].shown] > m.score[w[j + 1].shown]
      OBVIOUS
    <3>1. j # k /\ i \in 0..(k - 1)
      BY <1>1, <2>1
    <3>2. j \in 0..(k - 1)
      BY <1>2, <3>1
    <3> QED
      BY <3>1, <3>2 DEF Walked
  <2>5. ASSUME NEW p \in DOMAIN m.score, ~IsSkipped(m, p)
        PROVE  \E j \in 0..((k + 1) - 1) : IsFree(m, j) /\ w[j + 1].shown = p
    <3>1. p \notin rest
      BY <1>4, <2>5
    <3>2. PICK j \in 0..(k - 1) : IsFree(m, j) /\ w[j + 1].shown = p
      BY <2>5, <3>1 DEF Walked
    <3> QED
      BY <1>1, <3>2
  <2> QED
    BY <2>1, <2>2, <2>3, <2>4, <2>5 DEF Walked
<1>5. CASE ~IsFree(m, k)
  <2>1. /\ w[k + 1].rest = rest
        /\ w[k + 1].shown = Fixed(m, k)
    BY <1>5 DEF Place
  <2>2. \A j \in 0..((k + 1) - 1) : IsFree(m, j) => j \in 0..(k - 1)
    BY <1>2, <1>5
  <2>3. \A j \in 0..((k + 1) - 1) : ~IsFree(m, j) =>
          w[j + 1].shown = Fixed(m, j)
    BY <1>2, <2>1 DEF Walked
  <2>4. \A j \in 0..(k - 1) : j \in 0..((k + 1) - 1)
    BY <1>1
  <2> QED
    BY <2>1, <2>2, <2>3, <2>4 DEF Walked
<1> QED
  BY <1>3, <1>4, <1>5

\* The whole walk
LEMMA WalkedAll ==
    ASSUME NEW m, Typed(m), Scored(m), NEW n \in Nat, Slot(m) = 0..(n - 1)
    PROVE  Walked(m, Walk(m), n)
<1> DEFINE S == {k \in Nat : k <= n => Walked(m, Walk(m), k)}
<1>1. 0 \in S
  <2>1. Walk(m)[0] = [rest |-> DOMAIN m.score, shown |-> 0]
    BY WalkSteps
  <2>2. Walk(m)[0].rest = DOMAIN m.score
    BY <2>1
  <2>3. Walked(m, Walk(m), 0)
    BY <2>2 DEF Walked
  <2> QED
    BY <2>3
<1>2. ASSUME NEW k \in Nat, k \in S PROVE k + 1 \in S
  <2>1. SUFFICES ASSUME k + 1 <= n PROVE Walked(m, Walk(m), k + 1)
    OBVIOUS
  <2>2. k \in 0..(n - 1) /\ Walked(m, Walk(m), k)
    BY <1>2, <2>1
  <2>3. Walk(m)[k + 1] = Place(m, k, Walk(m)[k].rest)
    BY <2>2, WalkSteps
  <2> QED
    BY <2>2, <2>3, PlaceKeeps
<1> HIDE DEF S
<1>3. n \in S
  BY <1>1, <1>2, Induction
<1> QED
  BY <1>3 DEF S

\* The fields that CalculatePositions sets, and those it leaves
LEMMA CalculatedFields ==
    ASSUME NEW m, Typed(m)
    PROVE  \A x : x = CalculatePositions(m) =>
           /\ Slot(x) = Slot(m)
           /\ x.score = m.score /\ x.fixed = m.fixed /\ x.vad = m.vad /\ x.hide = m.hide
           /\ x.obj = m.obj /\ x.oldPos = m.oldPos /\ x.image = m.image /\ x.stale = m.stale
           /\ x.pos = [i \in Slot(m) |-> Walk(m)[i + 1].shown]
           /\ x.slots = [i \in Slot(m) |-> IF IsFree(m, i) THEN SlotFree ELSE m.slots[i]]
<1> TAKE x
<1> HAVE x = CalculatePositions(m)
<1>1. PICK n \in Nat : m \in MosaicOf(n)
  BY DEF Typed
<1>2. x = [m EXCEPT !.pos   = [i \in Slot(m) |-> Walk(m)[i + 1].shown],
                    !.slots = [i \in Slot(m) |-> IF IsFree(m, i) THEN SlotFree ELSE m.slots[i]]]
  BY DEF CalculatePositions
<1>3. /\ x.score = m.score /\ x.fixed = m.fixed /\ x.vad = m.vad /\ x.hide = m.hide
      /\ x.obj = m.obj /\ x.oldPos = m.oldPos /\ x.image = m.image /\ x.stale = m.stale
      /\ x.pos = [i \in Slot(m) |-> Walk(m)[i + 1].shown]
      /\ x.slots = [i \in Slot(m) |-> IF IsFree(m, i) THEN SlotFree ELSE m.slots[i]]
  BY <1>1, <1>2 DEF MosaicOf
<1> QED
  BY <1>3 DEF Slot

\* Working out the positions makes a mosaic sound.
LEMMA Calculated ==
    ASSUME NEW m, Ready(m)
    PROVE  Sound(CalculatePositions(m))
<1> DEFINE x == CalculatePositions(m)
           w == Walk(m)
<1>1. Typed(m) /\ Scored(m) /\ Counted(m) /\ Spoken(m) /\ Pictured(m)
  BY DEF Ready
<1>2. PICK n \in Nat : Slot(m) = 0..(n - 1) /\ m \in MosaicOf(n)
  BY <1>1, Fields
<1>3. Walked(m, w, n)
  BY <1>1, <1>2, WalkedAll
<1>4. /\ Slot(x) = Slot(m)
      /\ x.score = m.score /\ x.fixed = m.fixed /\ x.vad = m.vad /\ x.hide = m.hide
      /\ x.obj = m.obj /\ x.oldPos = m.oldPos /\ x.image = m.image /\ x.stale = m.stale
      /\ \A i \in Slot(m) : x.pos[i] = w[i + 1].shown
      /\ \A i \in Slot(m) : x.slots[i] = IF IsFree(m, i) THEN SlotFree ELSE m.slots[i]
  <2>1. x = CalculatePositions(m)
    OBVIOUS
  <2> HIDE DEF x
  <2>2. Slot(x) = Slot(m)
    BY <1>1, <2>1, CalculatedFields, Zenon
  <2>3. x.score = m.score /\ x.fixed = m.fixed /\ x.vad = m.vad /\ x.hide = m.hide
    BY <1>1, <2>1, CalculatedFields, Zenon
  <2>4. x.obj = m.obj /\ x.oldPos = m.oldPos /\ x.image = m.image /\ x.stale = m.stale
    BY <1>1, <2>1, CalculatedFields, Zenon
  <2>5. x.pos = [i \in Slot(m) |-> w[i + 1].shown]
    BY <1>1, <2>1, CalculatedFields, Zenon
  <2>6. x.slots = [i \in Slot(m) |-> IF IsFree(m, i) THEN SlotFree ELSE m.slots[i]]
    BY <1>1, <2>1, CalculatedFields, Zenon
  <2> QED
    BY <2>2, <2>5, <2>6, <2>3, <2>4
<1>5. /\ DOMAIN m.score \subseteq Part /\ DOMAIN m.fixed = DOMAIN m.score /\ m.vad \in Part \cup {0}
      /\ \A i \in Slot(m) : m.slots[i] \in SlotValue /\ i \in Nat
      /\ \A p \in DOMAIN m.score : m.score[p] \in Int /\ m.fixed[p] \in {0, 1} /\ p # 0
  BY <1>1, Fields, Parts
<1> HIDE DEF x, w
\* The slots, free and not
<1>6. ASSUME NEW i \in Slot(m), IsFree(m, i)
      PROVE  /\ x.slots[i] = SlotFree
             /\ \/ x.pos[i] = 0 /\ w[n].rest = {}
                \/ /\ x.pos[i] \in DOMAIN m.score /\ ~IsSkipped(m, x.pos[i])
                   /\ \A q \in w[n].rest : m.score[q] < m.score[x.pos[i]]
  BY <1>2, <1>3, <1>4, <1>6 DEF Walked
<1>7. ASSUME NEW i \in Slot(m), ~IsFree(m, i)
      PROVE  /\ x.slots[i] = m.slots[i] /\ x.slots[i] # SlotFree /\ x.pos[i] = Fixed(m, i)
             /\ x.slots[i] > 0 => HasParticipant(m, x.slots[i])
  <2>1. x.slots[i] = m.slots[i] /\ x.pos[i] = Fixed(m, i)
    BY <1>2, <1>3, <1>4, <1>7 DEF Walked
  <2> QED
    BY <1>7, <2>1 DEF IsFree
<1>8. ASSUME NEW i \in Slot(m)
      PROVE  /\ x.slots[i] \in SlotValue /\ x.pos[i] \in Part \cup {0}
             /\ x.slots[i] = SlotVAD <=> m.slots[i] = SlotVAD
  <2>1. CASE IsFree(m, i)
    BY <1>5, <1>6, <2>1, Parts DEF IsFree, SlotValue
  <2>2. CASE ~IsFree(m, i)
    BY <1>5, <1>7, <2>2, Parts DEF Fixed
  <2> QED
    BY <2>1, <2>2
<1>9. ASSUME NEW p \in DOMAIN m.score, NEW i \in Slot(m)
      PROVE  x.slots[i] = p <=> m.slots[i] = p
  <2>1. p \in Part /\ p # SlotFree
    BY <1>5, Parts
  <2>2. m.slots[i] = p => ~IsFree(m, i)
    BY <2>1 DEF IsFree, HasParticipant
  <2> QED
    BY <1>4, <2>1, <2>2
\* It is typed, and what is true of the slots stays so.
<1>10. Typed(x)
  <2>1. /\ m.obj \in Object /\ m.oldPos \in [0..(n - 1) -> Part \cup {0, -1}]
        /\ m.score \in UNION {[ps -> Int] : ps \in SUBSET Part}
        /\ m.fixed \in UNION {[ps -> {0, 1}] : ps \in SUBSET Part}
        /\ m.vad \in Part \cup {0} /\ m.hide \in BOOLEAN
        /\ m.image \in [0..(n - 1) -> Part \cup {0}] /\ m.stale \in SUBSET (0..(n - 1))
    BY <1>2 DEF MosaicOf
  <2>2. x = [m EXCEPT !.pos = x.pos, !.slots = x.slots]
    <3>1. x = [m EXCEPT !.pos   = [i \in Slot(m) |-> Walk(m)[i + 1].shown],
                        !.slots = [i \in Slot(m) |-> IF IsFree(m, i) THEN SlotFree ELSE m.slots[i]]]
      BY DEF CalculatePositions, x
    <3> QED
      BY <1>1, <3>1, CalculatedFields DEF x
  <2>3. x.pos = [i \in Slot(m) |-> Walk(m)[i + 1].shown]
    BY <1>1, CalculatedFields DEF x
  <2>4. x.slots = [i \in Slot(m) |-> IF IsFree(m, i) THEN SlotFree ELSE m.slots[i]]
    BY <1>1, CalculatedFields DEF x
  <2>5. x.pos \in [0..(n - 1) -> Part \cup {0}] /\ x.slots \in [0..(n - 1) -> SlotValue]
    BY <1>2, <1>8, <2>3, <2>4
  <2>6. m = [obj |-> m.obj, slots |-> m.slots, pos |-> m.pos, oldPos |-> m.oldPos, score |-> m.score,
             fixed |-> m.fixed, vad |-> m.vad, hide |-> m.hide, image |-> m.image, stale |-> m.stale]
    BY <1>2 DEF MosaicOf
  <2>7. x = [obj |-> m.obj, slots |-> x.slots, pos |-> x.pos, oldPos |-> m.oldPos, score |-> m.score,
             fixed |-> m.fixed, vad |-> m.vad, hide |-> m.hide, image |-> m.image, stale |-> m.stale]
    BY <2>2, <2>6
  <2>8. x \in MosaicOf(n)
    BY <2>1, <2>5, <2>7 DEF MosaicOf
  <2> QED
    BY <1>1, <1>4, <2>8 DEF Typed
<1>11. Scored(x) /\ Pictured(x)
  BY <1>1, <1>4 DEF Scored, Pictured
<1>12. Counted(x)
  <2>1. \A p \in DOMAIN m.score : IsSet(x, p) <=> IsSet(m, p)
    BY <1>4, <1>9 DEF IsSet
  <2>2. \A p \in DOMAIN x.score : x.fixed[p] = IF IsSet(x, p) THEN 1 ELSE 0
    BY <1>1, <1>4, <2>1 DEF Counted
  <2>3. \A i \in Slot(m) : x.slots[i] > 0 => x.slots[i] = m.slots[i]
    BY <1>4, Parts
  <2>4. \A i, j \in Slot(x) : x.slots[i] = x.slots[j] /\ x.slots[i] > 0 => i = j
    BY <1>1, <1>4, <2>3 DEF Counted
  <2> QED
    BY <2>2, <2>4 DEF Counted
<1>13. Spoken(x)
  BY <1>1, <1>4, <1>8 DEF Spoken, HasParticipant, IsVADShown
\* Who is shown
<1>14. \A i \in Slot(x) : x.slots[i] > 0 => HasParticipant(x, x.slots[i])
  BY <1>4, <1>6, <1>7, Parts DEF HasParticipant
<1>15. \A i \in Slot(x) : x.slots[i] = SlotVAD => x.pos[i] = x.vad
  <2> SUFFICES ASSUME NEW i \in Slot(m), x.slots[i] = SlotVAD PROVE x.pos[i] = m.vad
    BY <1>4
  <2>1. ~IsFree(m, i) /\ m.slots[i] = SlotVAD
    BY <1>6, <1>8, Parts
  <2> QED
    BY <1>7, <2>1, Parts DEF Fixed
<1>16. ASSUME NEW i \in Slot(m), x.slots[i] # SlotVAD, x.pos[i] # 0, ~IsFree(m, i)
       PROVE  x.pos[i] = m.slots[i] /\ m.slots[i] \in DOMAIN m.score /\ m.fixed[m.slots[i]] = 1
  <2>1. m.slots[i] # SlotVAD /\ m.slots[i] # SlotFree /\ m.slots[i] # SlotLocked
    BY <1>7, <1>16 DEF Fixed
  <2>2. m.slots[i] \in Part /\ m.slots[i] > 0 /\ x.pos[i] = m.slots[i]
    BY <1>5, <1>7, <1>16, <2>1, Parts DEF Fixed
  <2>3. m.slots[i] \in DOMAIN m.score
    BY <1>7, <1>16, <2>2 DEF HasParticipant
  <2> QED
    BY <1>1, <2>2, <2>3 DEF Counted, IsSet
<1>17. ASSUME NEW i \in Slot(m), IsFree(m, i), x.pos[i] # 0
       PROVE  x.pos[i] \in DOMAIN m.score /\ m.fixed[x.pos[i]] = 0 /\ m.score[x.pos[i]] \in Int
  <2>1. x.pos[i] \in DOMAIN m.score /\ ~IsSkipped(m, x.pos[i])
    BY <1>6, <1>17
  <2> QED
    BY <1>5, <2>1 DEF IsSkipped
<1>18. ASSUME NEW i \in Slot(m), NEW j \in Slot(m), IsFree(m, i), IsFree(m, j), i < j, x.pos[j] # 0
       PROVE  x.pos[i] # 0 /\ m.score[x.pos[i]] > m.score[x.pos[j]]
  BY <1>2, <1>3, <1>4, <1>18 DEF Walked
<1>19. Once(x)
  <2> SUFFICES ASSUME NEW i \in Slot(x), NEW j \in Slot(x), x.pos[i] = x.pos[j], x.pos[i] # 0,
                      x.slots[i] # SlotVAD, x.slots[j] # SlotVAD
               PROVE  i = j
    BY DEF Once
  <2>1. i \in Slot(m) /\ j \in Slot(m)
    BY <1>4
  <2>2. CASE IsFree(m, i) /\ IsFree(m, j)
    <3>1. ~(i < j) /\ ~(j < i)
      BY <1>17, <1>18, <2>1, <2>2
    <3> QED
      BY <1>5, <2>1, <3>1
  <2>3. CASE IsFree(m, i) /\ ~IsFree(m, j)
    BY <1>16, <1>17, <2>1, <2>3
  <2>4. CASE ~IsFree(m, i) /\ IsFree(m, j)
    BY <1>16, <1>17, <2>1, <2>4
  <2>5. CASE ~IsFree(m, i) /\ ~IsFree(m, j)
    <3>1. m.slots[i] = m.slots[j] /\ m.slots[i] > 0
      BY <1>5, <1>16, <2>1, <2>5, Parts
    <3> QED
      BY <1>1, <2>1, <3>1 DEF Counted
  <2> QED
    BY <2>2, <2>3, <2>4, <2>5
<1>20. \A i : IsOpen(x, i) <=> i \in Slot(m) /\ IsFree(m, i)
  BY <1>4, <1>6, <1>7 DEF IsOpen
<1>21. Ordered(x)
  BY <1>4, <1>18, <1>20 DEF Ordered
<1>22. NobodyLeftOut(x)
  <2> SUFFICES ASSUME NEW p \in DOMAIN m.score, Waits(x, p), NEW i \in Slot(m), IsFree(m, i)
               PROVE  x.pos[i] # 0 /\ m.score[x.pos[i]] > m.score[p]
    BY <1>4, <1>20 DEF NobodyLeftOut
  <2>1. m.fixed[p] = 0
    <3>1. ~IsSet(m, p)
      BY <1>4, <1>9 DEF Waits, IsSet
    <3> QED
      BY <1>1, <3>1 DEF Counted
  <2>2. ~IsSkipped(m, p)
    BY <1>4, <2>1 DEF IsSkipped, Waits
  <2>3. \A j \in 0..(n - 1) : ~(IsFree(m, j) /\ w[j + 1].shown = p)
    BY <1>2, <1>4, <1>20 DEF Waits
  <2>4. p \in w[n].rest
    BY <1>3, <2>2, <2>3 DEF Walked
  <2>5. x.pos[i] \in DOMAIN m.score /\ m.score[p] < m.score[x.pos[i]]
    BY <1>6, <2>4
  <2> QED
    BY <1>5, <2>5
<1>23. Placed(x)
  BY <1>14, <1>15, <1>19, <1>21, <1>22 DEF Placed
<1> QED
  BY <1>10, <1>11, <1>12, <1>13, <1>23 DEF Sound, Ready, x

-----------------------------------------------------------------------------
(* The other methods, before the positions are worked out.                 *)

\* The values of a function on a finite set
LEMMA Values ==
    ASSUME NEW f, NEW D, IsFiniteSet(D)
    PROVE  LET V == {f[x] : x \in D}
           IN  IsFiniteSet(V) /\ Cardinality(V) \in Nat /\ Cardinality(V) <= Cardinality(D)
<1> DEFINE V == {f[x] : x \in D}
           g == [x \in D |-> f[x]]
<1>1. g \in Surjection(D, V)
  BY DEF Surjection
<1>2. IsFiniteSet(V) /\ Cardinality(V) <= Cardinality(D)
  BY <1>1, FS_Surjection
<1> QED
  BY <1>2, FS_CardinalityType

\* Ranking keeps the order of the scores of those who have spoken.
LEMMA RankedScores ==
    ASSUME NEW f, DOMAIN f \subseteq Part,
           \A p \in DOMAIN f : f[p] \in Int /\ (f[p] = -p \/ f[p] > 0),
           \A p, q \in DOMAIN f : f[p] = f[q] => p = q
    PROVE  /\ DOMAIN Ranked(f) = DOMAIN f
           /\ Ranked(f) \in [DOMAIN f -> Int]
           /\ \A p \in DOMAIN f : Ranked(f)[p] = -p \/ Ranked(f)[p] \in 1..MaxPart
           /\ \A p, q \in DOMAIN f : Ranked(f)[p] = Ranked(f)[q] => p = q
<1> DEFINE D == DOMAIN f
           Upto(p) == {r \in D : f[r] > 0 /\ f[r] <= f[p]}
           U(p) == {f[q] : q \in Upto(p)}
           R == Ranked(f)
<1>1. \A p \in D : p \in Nat /\ p > 0 /\ MaxPart \in Nat
  BY Parts
<1>2. /\ DOMAIN R = D
      /\ \A p \in D : R[p] = IF f[p] < 0 THEN f[p] ELSE Cardinality(U(p))
  BY DEF Ranked
<1>3. ASSUME NEW p \in D
      PROVE  /\ IsFiniteSet(U(p)) /\ Cardinality(U(p)) \in Nat /\ Cardinality(U(p)) <= MaxPart
             /\ f[p] > 0 => Cardinality(U(p)) > 0 /\ f[p] \in U(p)
  <2>1. Upto(p) \subseteq Part
    OBVIOUS
  <2>2. IsFiniteSet(Upto(p)) /\ Cardinality(Upto(p)) <= MaxPart /\ Cardinality(Upto(p)) \in Nat
    BY <2>1, Parts, FS_Subset, FS_CardinalityType
  <2> HIDE DEF Upto
  <2>3. IsFiniteSet(U(p)) /\ Cardinality(U(p)) \in Nat /\ Cardinality(U(p)) <= Cardinality(Upto(p))
    BY <2>2, Values
  <2>4. ASSUME f[p] > 0 PROVE f[p] \in U(p) /\ Cardinality(U(p)) > 0
    <3>1. p \in Upto(p)
      BY <2>4 DEF Upto
    <3>2. f[p] \in U(p)
      BY <3>1
    <3>3. U(p) # {}
      BY <3>2
    <3> HIDE DEF U
    <3>4. Cardinality(U(p)) # 0
      BY <2>3, <3>3, FS_EmptySet
    <3> QED
      BY <2>3, <3>2, <3>4
  <2> HIDE DEF U
  <2> QED
    BY <1>1, <2>2, <2>3, <2>4
<1>4. ASSUME NEW p \in D, NEW q \in D, f[p] > 0, f[p] < f[q]
      PROVE  Cardinality(U(p)) < Cardinality(U(q))
  <2>1. U(p) \subseteq U(q)
    <3>1. Upto(p) \subseteq Upto(q)
      BY <1>4
    <3> QED
      BY <3>1
  <2>2. f[q] \notin U(p) /\ f[q] > 0
    BY <1>4
  <2>3. f[q] \in U(q)
    BY <1>3, <2>2
  <2> HIDE DEF U
  <2>4. U(p) \in SUBSET U(q) /\ U(p) # U(q)
    BY <2>1, <2>2, <2>3
  <2>5. Cardinality(U(p)) <= Cardinality(U(q)) /\ Cardinality(U(p)) # Cardinality(U(q))
    BY <1>3, <2>4, FS_Subset
  <2> QED
    BY <1>3, <2>5
<1> HIDE DEF U, R
<1>5. ASSUME NEW p \in D
      PROVE  \/ f[p] < 0 /\ R[p] = f[p] /\ R[p] = -p
             \/ f[p] > 0 /\ R[p] = Cardinality(U(p)) /\ R[p] \in 1..MaxPart
  BY <1>1, <1>2, <1>3
<1>6. ASSUME NEW p \in D, NEW q \in D, R[p] = R[q] PROVE p = q
  <2>1. CASE f[p] < 0 \/ f[q] < 0
    BY <1>1, <1>5, <1>6, <2>1
  <2>2. CASE f[p] > 0 /\ f[q] > 0
    <3>1. ~(f[p] < f[q]) /\ ~(f[q] < f[p])
      BY <1>3, <1>4, <1>5, <1>6, <2>2
    <3> QED
      BY <3>1
  <2> QED
    BY <1>1, <1>5, <2>1, <2>2
<1>7. \A p \in D : R[p] \in Int
  BY <1>1, <1>5
<1>8. R \in [D -> Int]
  BY <1>2, <1>7 DEF R, Ranked
<1> QED
  BY <1>2, <1>5, <1>6, <1>8 DEF R

\* What calls leave of a mosaic
Kept(x, m) == /\ Slot(x) = Slot(m) /\ x.obj = m.obj
              /\ x.oldPos = m.oldPos /\ x.image = m.image /\ x.stale = m.stale

\* A mosaic with other participants, scores, slots or speaker
LEMMA Rebuilt ==
    ASSUME NEW m, Typed(m), NEW slots, NEW pos, NEW score, NEW fixed, NEW vad, NEW hide,
           slots \in [Slot(m) -> SlotValue], pos \in [Slot(m) -> Part \cup {0}],
           DOMAIN score \subseteq Part, score \in [DOMAIN score -> Int],
           fixed \in [DOMAIN score -> {0, 1}], vad \in Part \cup {0}, hide \in BOOLEAN
    PROVE  \A x : x = [obj |-> m.obj, slots |-> slots, pos |-> pos, oldPos |-> m.oldPos,
                       score |-> score, fixed |-> fixed, vad |-> vad, hide |-> hide,
                       image |-> m.image, stale |-> m.stale]
              => Typed(x) /\ Kept(x, m)
<1> TAKE x
<1> HAVE x = [obj |-> m.obj, slots |-> slots, pos |-> pos, oldPos |-> m.oldPos,
              score |-> score, fixed |-> fixed, vad |-> vad, hide |-> hide,
              image |-> m.image, stale |-> m.stale]
<1>1. PICK n \in Nat : Slot(m) = 0..(n - 1) /\ m \in MosaicOf(n)
  BY Fields
<1>2. /\ m.obj \in Object /\ m.oldPos \in [0..(n - 1) -> Part \cup {0, -1}]
      /\ m.image \in [0..(n - 1) -> Part \cup {0}] /\ m.stale \in SUBSET (0..(n - 1))
  BY <1>1 DEF MosaicOf
<1>3. /\ score \in UNION {[ps -> Int] : ps \in SUBSET Part}
      /\ fixed \in UNION {[ps -> {0, 1}] : ps \in SUBSET Part}
  OBVIOUS
<1>4. x \in MosaicOf(n)
  BY <1>1, <1>2, <1>3 DEF MosaicOf
<1>5. DOMAIN x.fixed = DOMAIN x.score /\ DOMAIN x.slots = Slot(m)
  OBVIOUS
<1> QED
  BY <1>4, <1>5 DEF Typed, Kept, Slot

\* A mosaic is its fields.
LEMMA Whole ==
    ASSUME NEW m, Typed(m)
    PROVE  m = [obj |-> m.obj, slots |-> m.slots, pos |-> m.pos, oldPos |-> m.oldPos,
                score |-> m.score, fixed |-> m.fixed, vad |-> m.vad, hide |-> m.hide,
                image |-> m.image, stale |-> m.stale]
BY DEF Typed, MosaicOf

\* The fields as functions
LEMMA Parted ==
    ASSUME NEW m, Typed(m)
    PROVE  /\ m.slots \in [Slot(m) -> SlotValue] /\ m.pos \in [Slot(m) -> Part \cup {0}]
           /\ DOMAIN m.score \subseteq Part /\ m.score \in [DOMAIN m.score -> Int]
           /\ m.fixed \in [DOMAIN m.score -> {0, 1}] /\ m.vad \in Part \cup {0} /\ m.hide \in BOOLEAN
<1>1. PICK n \in Nat : Slot(m) = 0..(n - 1) /\ m \in MosaicOf(n)
  BY Fields
<1>3. /\ m.slots \in [Slot(m) -> SlotValue] /\ m.pos \in [Slot(m) -> Part \cup {0}]
      /\ m.vad \in Part \cup {0} /\ m.hide \in BOOLEAN
  BY <1>1 DEF MosaicOf
<1>4. PICK ps \in SUBSET Part : m.score \in [ps -> Int]
  BY <1>1 DEF MosaicOf
<1>5. PICK qs \in SUBSET Part : m.fixed \in [qs -> {0, 1}]
  BY <1>1 DEF MosaicOf
<1>6. DOMAIN m.fixed = DOMAIN m.score
  BY DEF Typed
<1> QED
  BY <1>3, <1>4, <1>5, <1>6

\* A call that leaves the pictures and the counters
LEMMA StillPictured ==
    ASSUME NEW m, NEW x, Pictured(m), Kept(x, m)
    PROVE  Pictured(x)
BY DEF Pictured, Kept

\* Working out the positions leaves the rest.
LEMMA CalculatedKept ==
    ASSUME NEW m, Typed(m)
    PROVE  Kept(CalculatePositions(m), m)
<1>1. PICK x : x = CalculatePositions(m)
  OBVIOUS
<1>2. Slot(x) = Slot(m) /\ x.obj = m.obj
  BY <1>1, CalculatedFields
<1>3. x.oldPos = m.oldPos /\ x.image = m.image /\ x.stale = m.stale
  BY <1>1, CalculatedFields
<1> QED
  BY <1>1, <1>2, <1>3 DEF Kept

\* A participant arrives.
LEMMA AddKeeps ==
    ASSUME NEW m, Sound(m), NEW p \in Part
    PROVE  Ready(AddParticipant(m, p, -p)) /\ Kept(AddParticipant(m, p, -p), m)
<1> DEFINE x == AddParticipant(m, p, -p)
<1>1. Ready(m) /\ Placed(m) /\ Typed(m) /\ Scored(m) /\ Counted(m) /\ Spoken(m) /\ Pictured(m)
  BY DEF Sound, Ready
<1>2. CASE HasParticipant(m, p)
  BY <1>1, <1>2 DEF AddParticipant, Kept
<1>3. CASE ~HasParticipant(m, p)
  <2> DEFINE score == [q \in DOMAIN m.score \cup {p} |-> IF q = p THEN -p ELSE m.score[q]]
             fixed == [q \in DOMAIN m.score \cup {p} |-> IF q = p THEN 0 ELSE m.fixed[q]]
  <2>1. DOMAIN m.fixed = DOMAIN m.score /\ p \notin DOMAIN m.score /\ DOMAIN m.score \subseteq Part
    BY <1>1, <1>3, Fields DEF HasParticipant
  <2>2. x = [m EXCEPT !.score = score, !.fixed = fixed]
    <3>1. x = [m EXCEPT !.score = [q \in DOMAIN m.score \cup {p} |-> IF q = p THEN -p ELSE m.score[q]],
                        !.fixed = [q \in DOMAIN m.fixed \cup {p} |-> IF q = p THEN 0 ELSE m.fixed[q]]]
      BY <1>3 DEF AddParticipant
    <3> QED
      BY <2>1, <3>1
  <2>3. /\ DOMAIN score = DOMAIN m.score \cup {p} /\ score \in [DOMAIN score -> Int]
        /\ DOMAIN score \subseteq Part /\ fixed \in [DOMAIN score -> {0, 1}]
    BY <1>1, <2>1, Parted, Parts
  <2>4. /\ score[p] = -p /\ \A q \in DOMAIN m.score : score[q] = m.score[q]
        /\ fixed[p] = 0 /\ \A q \in DOMAIN m.score : fixed[q] = m.fixed[q]
    BY <2>1
  <2> HIDE DEF score, fixed, x
  <2>5. x = [obj |-> m.obj, slots |-> m.slots, pos |-> m.pos, oldPos |-> m.oldPos, score |-> score,
             fixed |-> fixed, vad |-> m.vad, hide |-> m.hide, image |-> m.image, stale |-> m.stale]
    <3>1. m = [obj |-> m.obj, slots |-> m.slots, pos |-> m.pos, oldPos |-> m.oldPos,
               score |-> m.score, fixed |-> m.fixed, vad |-> m.vad, hide |-> m.hide,
               image |-> m.image, stale |-> m.stale]
      BY <1>1, Whole
    <3> QED
      BY <2>2, <3>1
  <2>6. Typed(x) /\ Kept(x, m)
    <3>1. /\ m.slots \in [Slot(m) -> SlotValue] /\ m.pos \in [Slot(m) -> Part \cup {0}]
          /\ m.vad \in Part \cup {0} /\ m.hide \in BOOLEAN
      BY <1>1, Parted
    <3> QED
      BY <1>1, <2>3, <2>5, <3>1, Rebuilt
  <2>7. /\ x.slots = m.slots /\ x.score = score /\ x.fixed = fixed /\ x.vad = m.vad
        /\ DOMAIN x.score = DOMAIN m.score \cup {p} /\ Slot(x) = Slot(m)
    <3>1. x.slots = m.slots /\ x.score = score /\ x.fixed = fixed /\ x.vad = m.vad
      BY <2>5
    <3> QED
      BY <2>3, <3>1 DEF Slot
  <2>8. Scored(x)
    <3> SUFFICES /\ \A q \in DOMAIN x.score : x.score[q] = -q \/ x.score[q] \in 1..MaxPart
                 /\ \A q, r \in DOMAIN x.score : x.score[q] = x.score[r] => q = r
      BY DEF Scored
    <3>1. \A q \in Part : q \in Nat /\ q > 0
      BY Parts
    <3>2. \A q \in DOMAIN m.score : m.score[q] = -q \/ m.score[q] \in 1..MaxPart
      BY <1>1 DEF Scored
    <3>3. \A q, r \in DOMAIN m.score : m.score[q] = m.score[r] => q = r
      BY <1>1 DEF Scored
    <3>4. \A q \in DOMAIN m.score : m.score[q] # -p
      BY <2>1, <3>1, <3>2
    <3> QED
      BY <2>1, <2>4, <2>7, <3>2, <3>3, <3>4
  <2>9. Counted(x)
    <3>1. \A i \in Slot(m) : m.slots[i] # p
      BY <1>1, <1>3, Parts DEF Placed
    <3> QED
      BY <1>1, <2>4, <2>7, <3>1 DEF Counted, IsSet
  <2>10. Spoken(x)
    BY <1>1, <2>7 DEF Spoken, HasParticipant, IsVADShown
  <2> QED
    BY <1>1, <2>6, <2>8, <2>9, <2>10, StillPictured DEF Ready, x
<1> QED
  BY <1>2, <1>3

\* A participant leaves, and the others are ranked without it.
LEMMA RemoveKeeps ==
    ASSUME NEW m, Sound(m), NEW p \in Part
    PROVE  Ready(RemoveParticipant(m, p)) /\ Kept(RemoveParticipant(m, p), m)
<1> DEFINE x == RemoveParticipant(m, p)
<1>1. Ready(m) /\ Placed(m) /\ Typed(m) /\ Scored(m) /\ Counted(m) /\ Spoken(m) /\ Pictured(m)
  BY DEF Sound, Ready
<1>2. CASE ~HasParticipant(m, p)
  BY <1>1, <1>2 DEF RemoveParticipant, Kept
<1>3. CASE HasParticipant(m, p)
  <2> DEFINE rest == DOMAIN m.score \ {p}
             left == [q \in rest |-> m.score[q]]
             score == Ranked(left)
             fixed == [q \in rest |-> m.fixed[q]]
             vad == IF m.vad = p THEN 0 ELSE m.vad
             slots == [i \in Slot(m) |-> IF m.slots[i] = p THEN SlotFree ELSE m.slots[i]]
             pos == [i \in Slot(m) |-> IF m.slots[i] = p THEN 0 ELSE m.pos[i]]
  <2>1. x = [m EXCEPT !.score = score, !.fixed = fixed, !.vad = vad, !.slots = slots, !.pos = pos]
    BY <1>3 DEF RemoveParticipant
  <2>2. p # SlotFree /\ p # SlotVAD /\ SlotFree = 0 /\ p # 0 /\ SlotFree \in SlotValue
    BY Parts DEF SlotValue
  <2>3. /\ m.slots \in [Slot(m) -> SlotValue] /\ m.pos \in [Slot(m) -> Part \cup {0}]
        /\ DOMAIN m.score \subseteq Part /\ m.score \in [DOMAIN m.score -> Int]
        /\ m.fixed \in [DOMAIN m.score -> {0, 1}] /\ m.vad \in Part \cup {0} /\ m.hide \in BOOLEAN
    BY <1>1, Parted
  <2>4. /\ rest \subseteq DOMAIN m.score /\ p \notin rest
        /\ slots \in [Slot(m) -> SlotValue] /\ pos \in [Slot(m) -> Part \cup {0}]
        /\ fixed \in [rest -> {0, 1}] /\ vad \in Part \cup {0}
    BY <2>2, <2>3
  <2>5. /\ DOMAIN score = rest /\ score \in [rest -> Int]
        /\ \A q \in rest : score[q] = -q \/ score[q] \in 1..MaxPart
        /\ \A q, r \in rest : score[q] = score[r] => q = r
    <3>1. /\ DOMAIN left = rest /\ rest \subseteq Part
          /\ \A q \in rest : left[q] \in Int /\ (left[q] = -q \/ left[q] > 0)
          /\ \A q, r \in rest : left[q] = left[r] => q = r
      BY <1>1, <2>3, Parts DEF Scored
    <3> HIDE DEF left
    <3> QED
      BY <3>1, RankedScores
  <2>6. /\ \A q \in rest : fixed[q] = m.fixed[q]
        /\ \A i \in Slot(m) : slots[i] = IF m.slots[i] = p THEN SlotFree ELSE m.slots[i]
    OBVIOUS
  <2> HIDE DEF score, fixed, vad, slots, pos, rest, x, left
  <2>7. x = [obj |-> m.obj, slots |-> slots, pos |-> pos, oldPos |-> m.oldPos, score |-> score,
             fixed |-> fixed, vad |-> vad, hide |-> m.hide, image |-> m.image, stale |-> m.stale]
    <3>1. m = [obj |-> m.obj, slots |-> m.slots, pos |-> m.pos, oldPos |-> m.oldPos,
               score |-> m.score, fixed |-> m.fixed, vad |-> m.vad, hide |-> m.hide,
               image |-> m.image, stale |-> m.stale]
      BY <1>1, Whole
    <3> QED
      BY <2>1, <3>1
  <2>8. Typed(x) /\ Kept(x, m)
    <3>1. DOMAIN score \subseteq Part /\ score \in [DOMAIN score -> Int] /\ fixed \in [DOMAIN score -> {0, 1}]
      BY <2>3, <2>4, <2>5
    <3> QED
      BY <1>1, <2>3, <2>4, <2>7, <3>1, Rebuilt
  <2>9. /\ x.slots = slots /\ x.score = score /\ x.fixed = fixed /\ x.vad = vad
        /\ DOMAIN x.score = rest /\ Slot(x) = Slot(m)
    <3>1. x.slots = slots /\ x.score = score /\ x.fixed = fixed /\ x.vad = vad
      BY <2>7
    <3> QED
      BY <2>5, <2>8, <3>1 DEF Kept
  <2>10. Scored(x)
    BY <2>5, <2>9 DEF Scored
  <2>11. Counted(x)
    <3>1. \A q \in rest : q \in Part /\ q # p /\ q # SlotFree
      BY <2>3, <2>4, Parts
    <3>2. ASSUME NEW q \in rest PROVE IsSet(x, q) <=> IsSet(m, q)
      BY <2>6, <2>9, <3>1 DEF IsSet
    <3>3. \A q \in DOMAIN x.score : x.fixed[q] = IF IsSet(x, q) THEN 1 ELSE 0
      BY <1>1, <2>4, <2>6, <2>9, <3>2 DEF Counted
    <3>4. \A i \in Slot(m) : slots[i] > 0 => slots[i] = m.slots[i]
      BY <2>2, <2>6
    <3>5. \A i, j \in Slot(x) : x.slots[i] = x.slots[j] /\ x.slots[i] > 0 => i = j
      BY <1>1, <2>9, <3>4 DEF Counted
    <3> QED
      BY <3>3, <3>5 DEF Counted
  <2>12. Spoken(x)
    <3> SUFFICES ASSUME vad # 0 PROVE HasParticipant(x, vad) /\ IsVADShown(x)
      BY <2>9 DEF Spoken
    <3>1. vad = m.vad /\ m.vad # p /\ m.vad # 0
      BY DEF vad
    <3>2. vad \in DOMAIN m.score /\ \E i \in Slot(m) : m.slots[i] = SlotVAD
      BY <1>1, <3>1 DEF Spoken, HasParticipant, IsVADShown
    <3> QED
      BY <2>2, <2>6, <2>9, <3>1, <3>2 DEF HasParticipant, IsVADShown, rest
  <2> QED
    BY <1>1, <2>8, <2>10, <2>11, <2>12, StillPictured DEF Ready, x
<1> QED
  BY <1>2, <1>3

\* Another speaker, or none; and a speaker gets the highest score.
LEMMA SpeakerKeeps ==
    ASSUME NEW m, Ready(m), NEW p \in Part, HasParticipant(m, p), IsVADShown(m), NEW hide \in BOOLEAN
    PROVE  Ready(SetVADParticipant(m, p, hide)) /\ Kept(SetVADParticipant(m, p, hide), m)
<1> DEFINE x == SetVADParticipant(m, p, hide)
<1>1. Typed(m) /\ Scored(m) /\ Counted(m) /\ Spoken(m) /\ Pictured(m)
  BY DEF Ready
<1>2. x = [m EXCEPT !.vad = p, !.hide = hide]
  BY DEF SetVADParticipant
<1> HIDE DEF x
<1>3. x = [obj |-> m.obj, slots |-> m.slots, pos |-> m.pos, oldPos |-> m.oldPos, score |-> m.score,
           fixed |-> m.fixed, vad |-> p, hide |-> hide, image |-> m.image, stale |-> m.stale]
  <2>1. m = [obj |-> m.obj, slots |-> m.slots, pos |-> m.pos, oldPos |-> m.oldPos,
             score |-> m.score, fixed |-> m.fixed, vad |-> m.vad, hide |-> m.hide,
             image |-> m.image, stale |-> m.stale]
    BY <1>1, Whole
  <2> QED
    BY <1>2, <2>1
<1>4. Typed(x) /\ Kept(x, m)
  <2>1. /\ m.slots \in [Slot(m) -> SlotValue] /\ m.pos \in [Slot(m) -> Part \cup {0}]
        /\ DOMAIN m.score \subseteq Part /\ m.score \in [DOMAIN m.score -> Int]
        /\ m.fixed \in [DOMAIN m.score -> {0, 1}] /\ p \in Part \cup {0}
    BY <1>1, Parted
  <2> QED
    BY <1>1, <1>3, <2>1, Rebuilt
<1>5. x.slots = m.slots /\ x.score = m.score /\ x.fixed = m.fixed /\ x.vad = p
  BY <1>3
<1>6. Scored(x) /\ Counted(x) /\ Spoken(x)
  BY <1>1, <1>4, <1>5 DEF Scored, Counted, Spoken, Kept, IsSet, HasParticipant, IsVADShown
<1> QED
  BY <1>1, <1>4, <1>6, StillPictured DEF Ready, x

\* SetScore: the score of one participant rises, the ranks are given anew.
LEMMA ScoreKeeps ==
    ASSUME NEW m, Ready(m), NEW p
    PROVE  Ready(SetScore(m, p)) /\ Kept(SetScore(m, p), m)
<1> DEFINE x == SetScore(m, p)
<1>1. Typed(m) /\ Scored(m) /\ Counted(m) /\ Spoken(m) /\ Pictured(m)
  BY DEF Ready
<1>2. CASE ~HasParticipant(m, p)
  BY <1>2 DEF SetScore, Kept
<1>3. CASE HasParticipant(m, p)
  <2> DEFINE now == [m.score EXCEPT ![p] = MaxPart + 1]
             score == Ranked(now)
  <2>1. x = [m EXCEPT !.score = score]
    BY <1>3 DEF SetScore
  <2>2. /\ m.slots \in [Slot(m) -> SlotValue] /\ m.pos \in [Slot(m) -> Part \cup {0}]
        /\ DOMAIN m.score \subseteq Part /\ m.score \in [DOMAIN m.score -> Int]
        /\ m.fixed \in [DOMAIN m.score -> {0, 1}] /\ m.vad \in Part \cup {0} /\ m.hide \in BOOLEAN
    BY <1>1, Parted
  <2>3. /\ DOMAIN score = DOMAIN m.score /\ score \in [DOMAIN m.score -> Int]
        /\ \A q \in DOMAIN m.score : score[q] = -q \/ score[q] \in 1..MaxPart
        /\ \A q, r \in DOMAIN m.score : score[q] = score[r] => q = r
    <3>1. \A q \in DOMAIN m.score : q > 0 /\ q \in Nat /\ MaxPart \in Nat
      BY <2>2, Parts
    <3>2. /\ DOMAIN now = DOMAIN m.score /\ DOMAIN m.score \subseteq Part
          /\ \A q \in DOMAIN now : now[q] = IF q = p THEN MaxPart + 1 ELSE m.score[q]
      BY <2>2
    <3>3. /\ \A q \in DOMAIN now : now[q] \in Int /\ (now[q] = -q \/ now[q] > 0)
          /\ \A q, r \in DOMAIN now : now[q] = now[r] => q = r
      <4>1. \A q \in DOMAIN m.score : m.score[q] = -q \/ m.score[q] \in 1..MaxPart
        BY <1>1 DEF Scored
      <4>2. \A q, r \in DOMAIN m.score : m.score[q] = m.score[r] => q = r
        BY <1>1 DEF Scored
      <4>3. \A q \in DOMAIN m.score : m.score[q] # MaxPart + 1
        BY <3>1, <4>1
      <4> HIDE DEF now
      <4>4. \A q \in DOMAIN now : now[q] \in Int /\ (now[q] = -q \/ now[q] > 0)
        BY <3>1, <3>2, <4>1
      <4>5. \A q, r \in DOMAIN now : now[q] = now[r] => q = r
        BY <3>2, <4>2, <4>3
      <4> QED
        BY <4>4, <4>5
    <3> HIDE DEF now
    <3> QED
      BY <3>2, <3>3, RankedScores
  <2> HIDE DEF score, x
  <2>4. x = [obj |-> m.obj, slots |-> m.slots, pos |-> m.pos, oldPos |-> m.oldPos, score |-> score,
             fixed |-> m.fixed, vad |-> m.vad, hide |-> m.hide, image |-> m.image, stale |-> m.stale]
    <3>1. m = [obj |-> m.obj, slots |-> m.slots, pos |-> m.pos, oldPos |-> m.oldPos,
               score |-> m.score, fixed |-> m.fixed, vad |-> m.vad, hide |-> m.hide,
               image |-> m.image, stale |-> m.stale]
      BY <1>1, Whole
    <3> QED
      BY <2>1, <3>1
  <2>5. Typed(x) /\ Kept(x, m)
    <3>1. DOMAIN score \subseteq Part /\ score \in [DOMAIN score -> Int] /\ m.fixed \in [DOMAIN score -> {0, 1}]
      BY <2>2, <2>3
    <3> QED
      BY <1>1, <2>2, <2>4, <3>1, Rebuilt
  <2>6. x.slots = m.slots /\ x.score = score /\ x.fixed = m.fixed /\ x.vad = m.vad
    BY <2>4
  <2>7. Scored(x)
    BY <2>3, <2>6 DEF Scored
  <2>8. Counted(x) /\ Spoken(x)
    BY <1>1, <2>3, <2>5, <2>6 DEF Counted, Spoken, Kept, IsSet, HasParticipant, IsVADShown
  <2> QED
    BY <1>1, <2>5, <2>7, <2>8, StillPictured DEF Ready, x
<1> QED
  BY <1>2, <1>3

\* A slot is set to one that has no slot.
LEMMA SlotKeeps ==
    ASSUME NEW m, Ready(m), NEW num, NEW id \in SlotValue,
           id > 0 => \A i \in Slot(m) : m.slots[i] # id
    PROVE  \A x : x = SetSlot(m, num, id) =>
           /\ Ready(x) /\ Kept(x, m) /\ x.score = m.score
           /\ \A i \in Slot(m) : x.slots[i] = IF i = num THEN id ELSE m.slots[i]
<1> TAKE x
<1> HAVE x = SetSlot(m, num, id)
<1>1. Typed(m) /\ Scored(m) /\ Counted(m) /\ Spoken(m) /\ Pictured(m)
  BY DEF Ready
<1>2. CASE num \notin Slot(m)
  BY <1>2 DEF SetSlot, Kept
<1>3. CASE num \in Slot(m)
  <2> DEFINE old == m.slots[num]
             slots == [m.slots EXCEPT ![num] = id]
             fixed == [q \in DOMAIN m.fixed |->
                         CASE q = id /\ old # id  -> m.fixed[q] + 1
                           [] q = old /\ old # id -> m.fixed[q] - 1
                           [] OTHER               -> m.fixed[q]]
             set == [m EXCEPT !.slots = slots, !.fixed = fixed]
             vad == IF old = SlotVAD /\ ~IsVADShown(set) THEN 0 ELSE m.vad
  <2>1. x = [m EXCEPT !.slots = slots, !.fixed = fixed, !.vad = vad]
    <3>1. m = [obj |-> m.obj, slots |-> m.slots, pos |-> m.pos, oldPos |-> m.oldPos,
               score |-> m.score, fixed |-> m.fixed, vad |-> m.vad, hide |-> m.hide,
               image |-> m.image, stale |-> m.stale]
      BY <1>1, Whole
    <3>2. set.vad = m.vad
      BY <3>1
    <3>3. [m EXCEPT !.slots[num] = id, !.fixed = fixed] = set
      BY <3>1
    <3>4. x = [set EXCEPT !.vad = vad]
      BY <1>3, <3>2, <3>3 DEF SetSlot
    <3> HIDE DEF fixed, vad, slots
    <3> QED
      BY <3>1, <3>4
  <2>2. /\ m.slots \in [Slot(m) -> SlotValue] /\ m.pos \in [Slot(m) -> Part \cup {0}]
        /\ DOMAIN m.score \subseteq Part /\ m.score \in [DOMAIN m.score -> Int]
        /\ m.fixed \in [DOMAIN m.score -> {0, 1}] /\ m.vad \in Part \cup {0} /\ m.hide \in BOOLEAN
    BY <1>1, Parted
  <2>3. slots \in [Slot(m) -> SlotValue] /\ \A i \in Slot(m) : slots[i] = IF i = num THEN id ELSE m.slots[i]
    BY <1>3, <2>2
  <2>4. ASSUME NEW q \in DOMAIN m.score
        PROVE  fixed[q] = IF \E i \in Slot(m) : slots[i] = q THEN 1 ELSE 0
    <3>1. q > 0
      BY <2>2, Parts
    <3>2. fixed[q] = IF q = id /\ old # id THEN m.fixed[q] + 1
                     ELSE IF q = old /\ old # id THEN m.fixed[q] - 1 ELSE m.fixed[q]
      BY <2>2
    <3>3. m.fixed[q] = IF \E i \in Slot(m) : m.slots[i] = q THEN 1 ELSE 0
      BY <1>1 DEF Counted, IsSet
    <3> HIDE DEF fixed, slots
    <3>4. CASE q = id
      <4>1. \A i \in Slot(m) : m.slots[i] # q
        BY <3>1, <3>4
      <4> QED
        BY <1>3, <2>3, <3>2, <3>3, <3>4, <4>1
    <3>5. CASE q # id /\ q = old
      <4>1. \A i \in Slot(m) : m.slots[i] = q => i = num
        BY <1>1, <1>3, <3>1, <3>5 DEF Counted
      <4> QED
        BY <1>3, <2>3, <3>2, <3>3, <3>5, <4>1
    <3>6. CASE q # id /\ q # old
      BY <1>3, <2>3, <3>2, <3>3, <3>6
    <3> QED
      BY <3>4, <3>5, <3>6
  <2>5. DOMAIN fixed = DOMAIN m.score
    BY <2>2
  <2>6. fixed \in [DOMAIN m.score -> {0, 1}]
    <3>1. fixed = [q \in DOMAIN m.score |-> fixed[q]]
      BY <2>2
    <3> HIDE DEF fixed
    <3> QED
      BY <2>4, <3>1
  <2>7. (vad = 0 \/ (vad = m.vad /\ \E i \in Slot(m) : m.slots[i] = SlotVAD)) =>
           (vad = 0 \/ \E i \in Slot(m) : slots[i] = SlotVAD)
    <3>1. set.slots = slots
      <4>1. m = [obj |-> m.obj, slots |-> m.slots, pos |-> m.pos, oldPos |-> m.oldPos,
                 score |-> m.score, fixed |-> m.fixed, vad |-> m.vad, hide |-> m.hide,
                 image |-> m.image, stale |-> m.stale]
        BY <1>1, Whole
      <4> QED
        BY <4>1
    <3>2. IsVADShown(set) <=> \E i \in Slot(m) : slots[i] = SlotVAD
      <4> HIDE DEF set, slots
      <4> QED
        BY <2>3, <3>1 DEF IsVADShown, Slot
    <3> HIDE DEF slots, set
    <3> QED
      BY <1>3, <2>3, <3>2
  <2>8. vad \in {0, m.vad}
    OBVIOUS
  <2> HIDE DEF vad, slots, fixed, set
  <2>9. x = [obj |-> m.obj, slots |-> slots, pos |-> m.pos, oldPos |-> m.oldPos, score |-> m.score,
             fixed |-> fixed, vad |-> vad, hide |-> m.hide, image |-> m.image, stale |-> m.stale]
    <3>1. m = [obj |-> m.obj, slots |-> m.slots, pos |-> m.pos, oldPos |-> m.oldPos,
               score |-> m.score, fixed |-> m.fixed, vad |-> m.vad, hide |-> m.hide,
               image |-> m.image, stale |-> m.stale]
      BY <1>1, Whole
    <3> QED
      BY <2>1, <3>1
  <2>10. Typed(x) /\ Kept(x, m)
    <3>1. vad \in Part \cup {0} /\ slots \in [Slot(m) -> SlotValue] /\ fixed \in [DOMAIN m.score -> {0, 1}]
      BY <2>2, <2>3, <2>6, <2>8
    <3>2. \A y : y = [obj |-> m.obj, slots |-> slots, pos |-> m.pos, oldPos |-> m.oldPos,
                      score |-> m.score, fixed |-> fixed, vad |-> vad, hide |-> m.hide,
                      image |-> m.image, stale |-> m.stale]
              => Typed(y) /\ Kept(y, m)
      BY <1>1, <2>2, <3>1, Rebuilt, SMTT(60)
    <3> QED
      BY <2>9, <3>2
  <2>11. x.slots = slots /\ x.score = m.score /\ x.fixed = fixed /\ x.vad = vad /\ Slot(x) = Slot(m)
    <3>1. x.slots = slots /\ x.score = m.score /\ x.fixed = fixed /\ x.vad = vad
      BY <2>9
    <3> QED
      BY <2>10, <3>1 DEF Kept
  <2>12. Scored(x)
    BY <1>1, <2>11 DEF Scored
  <2>13. Counted(x)
    <3>1. \A q \in DOMAIN x.score : x.fixed[q] = IF IsSet(x, q) THEN 1 ELSE 0
      BY <2>4, <2>11 DEF IsSet
    <3>2. \A i, j \in Slot(m) : slots[i] = slots[j] /\ slots[i] > 0 => i = j
      BY <1>1, <2>3 DEF Counted
    <3> QED
      BY <2>11, <3>1, <3>2 DEF Counted
  <2>14. Spoken(x)
    BY <1>1, <2>7, <2>8, <2>11 DEF Spoken, HasParticipant, IsVADShown
  <2> QED
    BY <1>1, <2>3, <2>10, <2>11, <2>12, <2>13, <2>14, StillPictured DEF Ready
<1> QED
  BY <1>2, <1>3

\* VideoMixer::SetSlot
LEMMA SetSlotKeeps ==
    ASSUME NEW m, Sound(m), NEW num, NEW id \in SlotValue
    PROVE  /\ Ready(SetSlot(FreedOf(m, id), num, id))
           /\ Kept(SetSlot(FreedOf(m, id), num, id), m)
<1> DEFINE y == FreedOf(m, id)
<1>1. Ready(m) /\ Typed(m) /\ Counted(m)
  BY DEF Sound, Ready
<1>2. Ready(y) /\ Kept(y, m) /\ (id > 0 => \A i \in Slot(y) : y.slots[i] # id)
  <2> DEFINE old == {i \in Slot(m) : m.slots[i] = id}
  <2>1. CASE ~(id > 0 /\ old # {})
    <3>1. y = m
      BY <2>1 DEF FreedOf
    <3> QED
      BY <1>1, <2>1, <3>1 DEF Kept
  <2>2. CASE id > 0 /\ old # {}
    <3> DEFINE k == CHOOSE i \in old : \A j \in old : i <= j
    <3>1. y = SetSlot(m, k, SlotFree)
      BY <2>2 DEF FreedOf
    <3>2. k \in old
      <4>1. old \subseteq Nat
        BY <1>1, Fields
      <4>2. \E i \in old : \A j \in old : i <= j
        <5> HIDE DEF old
        <5> QED
          BY <2>2, <4>1, Least
      <4> QED
        BY <4>2
    <3>3. \A i \in Slot(m) : i # k => m.slots[i] # id
      BY <1>1, <2>2, <3>2 DEF Counted
    <3>4. SlotFree \in SlotValue /\ ~(SlotFree > 0) /\ SlotFree = 0
      BY Parts DEF SlotValue
    <3> HIDE DEF k, y
    <3>5. /\ Ready(y) /\ Kept(y, m)
          /\ \A i \in Slot(m) : y.slots[i] = IF i = k THEN SlotFree ELSE m.slots[i]
      BY <1>1, <3>1, <3>4, SlotKeeps
    <3> QED
      BY <2>2, <3>3, <3>4, <3>5 DEF Kept
  <2> QED
    BY <2>1, <2>2
<1> HIDE DEF y
<1>3. Ready(SetSlot(y, num, id)) /\ Kept(SetSlot(y, num, id), y)
  BY <1>2, SlotKeeps
<1>4. Kept(SetSlot(y, num, id), m)
  BY <1>2, <1>3 DEF Kept
<1> QED
  BY <1>3, <1>4 DEF y

\* A new mosaic with participants and slots
Made(obj, n, score, fixed, slots, hide) ==
    [obj |-> obj, slots |-> slots, pos |-> [i \in 0..(n - 1) |-> 0], oldPos |-> [i \in 0..(n - 1) |-> -1],
     score |-> score, fixed |-> fixed, vad |-> 0, hide |-> hide,
     image |-> [i \in 0..(n - 1) |-> 0], stale |-> {}]

\* Each has one slot at most.
Fits(n, score, fixed, slots) ==
    /\ DOMAIN score \subseteq Part /\ score \in [DOMAIN score -> Int]
    /\ \A p \in DOMAIN score : score[p] = -p \/ score[p] \in 1..MaxPart
    /\ \A p, q \in DOMAIN score : score[p] = score[q] => p = q
    /\ slots \in [0..(n - 1) -> SlotValue]
    /\ \A i, j \in 0..(n - 1) : slots[i] = slots[j] /\ slots[i] > 0 => i = j
    /\ fixed \in [DOMAIN score -> {0, 1}]
    /\ \A p \in DOMAIN score : fixed[p] = IF \E i \in 0..(n - 1) : slots[i] = p THEN 1 ELSE 0

\* A new mosaic made from participants and slots that fit is as a mosaic has to be.
LEMMA MadeReady ==
    ASSUME NEW obj \in Object, NEW n \in Nat, NEW score, NEW fixed, NEW slots, NEW hide \in BOOLEAN,
           Fits(n, score, fixed, slots)
    PROVE  /\ Ready(Made(obj, n, score, fixed, slots, hide))
           /\ Made(obj, n, score, fixed, slots, hide).obj = obj
           /\ Made(obj, n, score, fixed, slots, hide).stale = {}
<1> DEFINE slot == 0..(n - 1)
           zero == [i \in slot |-> 0]
           out == [i \in slot |-> -1]
           x == Made(obj, n, score, fixed, slots, hide)
<1>1. x = [obj |-> obj, slots |-> slots, pos |-> zero, oldPos |-> out, score |-> score,
           fixed |-> fixed, vad |-> 0, hide |-> hide, image |-> zero, stale |-> {}]
  BY DEF Made
<1>2. zero \in [slot -> Part \cup {0}] /\ out \in [slot -> Part \cup {0, -1}] /\ \A i \in slot : zero[i] = 0
  OBVIOUS
<1> HIDE DEF zero, out, x
<1>3. /\ x.obj = obj /\ x.stale = {} /\ x.score = score /\ x.fixed = fixed /\ x.slots = slots
      /\ x.vad = 0 /\ x.image = zero
  BY <1>1
<1>4. x \in MosaicOf(n)
  <2>1. /\ score \in UNION {[ps -> Int] : ps \in SUBSET Part}
        /\ fixed \in UNION {[ps -> {0, 1}] : ps \in SUBSET Part}
        /\ slots \in [0..(n - 1) -> SlotValue]
    BY DEF Fits
  <2> QED
    BY <1>1, <1>2, <2>1 DEF MosaicOf
<1>5. DOMAIN x.fixed = DOMAIN x.score /\ Slot(x) = slot
  BY <1>3 DEF Slot, Fits
<1>6. Typed(x)
  BY <1>4, <1>5 DEF Typed
<1>7. Scored(x)
  BY <1>3 DEF Scored, Fits
<1>8. Counted(x)
  BY <1>3, <1>5 DEF Counted, IsSet, Fits
<1>9. Spoken(x) /\ Pictured(x)
  BY <1>2, <1>3, <1>5 DEF Spoken, Pictured
<1> QED
  BY <1>3, <1>6, <1>7, <1>8, <1>9 DEF Ready, x

\* An empty one
LEMMA NewReady ==
    ASSUME NEW obj \in Object, NEW n \in Nat
    PROVE  /\ Ready(NewMosaic(obj, n)) /\ NewMosaic(obj, n).obj = obj
           /\ NewMosaic(obj, n).stale = {}
<1> DEFINE slots == [i \in 0..(n - 1) |-> SlotFree]
           none == <<>>
           no == FALSE
<1>1. /\ DOMAIN none = {} /\ none \in [DOMAIN none -> Int] /\ none \in [DOMAIN none -> {0, 1}]
      /\ DOMAIN none \subseteq Part
  OBVIOUS
<1>2. slots \in [0..(n - 1) -> SlotValue] /\ \A i \in 0..(n - 1) : ~(slots[i] > 0)
  BY Parts DEF SlotValue
<1>3. NewMosaic(obj, n) = Made(obj, n, none, none, slots, no)
  BY DEF NewMosaic, Made
<1>4. no \in BOOLEAN
  OBVIOUS
<1> HIDE DEF slots, none, no
<1>5. Fits(n, none, none, slots)
  BY <1>1, <1>2 DEF Fits
<1> QED
  BY <1>3, <1>5, <1>4, MadeReady

\* The number of slots set to one participant
LEMMA Counting ==
    ASSUME NEW S, NEW f, NEW p, \A i, j \in S : f[i] = p /\ f[j] = p => i = j
    PROVE  Cardinality({i \in S : f[i] = p}) = IF \E i \in S : f[i] = p THEN 1 ELSE 0
<1> DEFINE own == {i \in S : f[i] = p}
<1>1. CASE \E i \in S : f[i] = p
  <2>1. PICK i \in S : f[i] = p
    BY <1>1
  <2>2. own = {i}
    BY <2>1
  <2> QED
    BY <1>1, <2>2, FS_Singleton
<1>2. CASE ~\E i \in S : f[i] = p
  <2>1. own = {}
    BY <1>2
  <2> QED
    BY <1>2, <2>1, FS_EmptySet
<1> QED
  BY <1>1, <1>2

\* SetCompositionType: the new mosaic with the participants and slots of the old one
LEMMA CopyReady ==
    ASSUME NEW old, Sound(old), NEW obj \in Object, NEW n \in Nat
    PROVE  \A x : x = CopyTo(NewMosaic(obj, n), old) => Ready(x) /\ x.obj = obj /\ x.stale = {}
<1> DEFINE new == NewMosaic(obj, n)
           slot == 0..(n - 1)
           zero == [i \in slot |-> 0]
           out == [i \in slot |-> -1]
           kept == {p \in Part : HasSource(p) /\ HasParticipant(old, p)}
           was == [p \in kept |-> old.score[p]]
           score == Ranked(was)
           none == [p \in kept |-> 0]
           slots == [i \in slot |-> IF i \in DOMAIN old.slots THEN old.slots[i] ELSE SlotFree]
           fixed == [q \in kept |-> none[q] + Cardinality({i \in slot : slots[i] = q})]
           hide == vadMode = "FullVAD"
           no == FALSE
           empty == <<>>
<1>1. Typed(old) /\ Scored(old) /\ Counted(old)
  BY DEF Sound, Ready
<1>2. kept \subseteq DOMAIN old.score /\ kept \subseteq Part
  BY DEF HasParticipant
<1>3. /\ DOMAIN score = kept /\ score \in [kept -> Int]
      /\ \A p \in kept : score[p] = -p \/ score[p] \in 1..MaxPart
      /\ \A p, q \in kept : score[p] = score[q] => p = q
  <2>1. \A p \in DOMAIN old.score : /\ old.score[p] \in Int
                                    /\ old.score[p] = -p \/ old.score[p] > 0
    BY <1>1, Fields, Parts DEF Scored
  <2>2. /\ DOMAIN was = kept
        /\ \A p \in DOMAIN was : was[p] \in Int /\ (was[p] = -p \/ was[p] > 0)
        /\ \A p, q \in DOMAIN was : was[p] = was[q] => p = q
    BY <1>1, <1>2, <2>1 DEF Scored
  <2> HIDE DEF was, kept
  <2> QED
    BY <1>2, <2>2, RankedScores
<1>4. /\ slots \in [slot -> SlotValue]
      /\ \A i, j \in slot : slots[i] = slots[j] /\ slots[i] > 0 => i = j
  <2>1. old.slots \in [Slot(old) -> SlotValue] /\ DOMAIN old.slots = Slot(old)
    BY <1>1, Parted
  <2>2. SlotFree \in SlotValue /\ ~(SlotFree > 0)
    BY Parts DEF SlotValue
  <2>3. \A i, j \in Slot(old) : old.slots[i] = old.slots[j] /\ old.slots[i] > 0 => i = j
    BY <1>1 DEF Counted
  <2>4. \A i \in slot : slots[i] > 0 => i \in Slot(old) /\ slots[i] = old.slots[i]
    BY <2>1, <2>2
  <2>5. slots \in [slot -> SlotValue]
    BY <2>1, <2>2
  <2> HIDE DEF slots
  <2>6. \A i, j \in slot : slots[i] = slots[j] /\ slots[i] > 0 => i = j
    BY <2>3, <2>4
  <2> QED
    BY <2>5, <2>6
<1> HIDE DEF score
<1>5. ASSUME NEW q \in kept
      PROVE  fixed[q] = IF \E i \in slot : slots[i] = q THEN 1 ELSE 0
  <2>1. q > 0 /\ fixed[q] = 0 + Cardinality({i \in slot : slots[i] = q})
    BY <1>2, Parts
  <2> HIDE DEF slots, fixed, slot
  <2>2. \A i, j \in slot : slots[i] = q /\ slots[j] = q => i = j
    BY <1>4, <2>1
  <2>3. Cardinality({i \in slot : slots[i] = q}) = IF \E i \in slot : slots[i] = q THEN 1 ELSE 0
    BY <2>2, Counting
  <2> QED
    BY <2>1, <2>3
<1>6. fixed \in [kept -> {0, 1}]
  <2>1. DOMAIN fixed = kept /\ fixed = [q \in kept |-> fixed[q]]
    OBVIOUS
  <2> HIDE DEF fixed, kept
  <2> QED
    BY <1>5, <2>1
<1>7. Fits(n, score, fixed, slots)
  <2> HIDE DEF slots, fixed, kept
  <2> QED
    BY <1>2, <1>3, <1>4, <1>5, <1>6 DEF Fits
\* It is that mosaic.
<1>8. new = [obj |-> obj, slots |-> [i \in slot |-> SlotFree], pos |-> zero, oldPos |-> out, score |-> empty,
             fixed |-> empty, vad |-> 0, hide |-> no, image |-> zero, stale |-> {}]
  BY DEF NewMosaic
<1> DEFINE open == [i \in slot |-> SlotFree]
<1>9. PICK added : added = [new EXCEPT !.score = score, !.fixed = none]
  OBVIOUS
<1>10. added = [obj |-> obj, slots |-> open, pos |-> zero, oldPos |-> out, score |-> score,
               fixed |-> none, vad |-> 0, hide |-> no, image |-> zero, stale |-> {}]
  <2>1. new = [obj |-> obj, slots |-> open, pos |-> zero, oldPos |-> out, score |-> empty,
               fixed |-> empty, vad |-> 0, hide |-> no, image |-> zero, stale |-> {}]
    BY <1>8
  <2> HIDE DEF new, open, zero, out, none, no, empty
  <2> QED
    BY <1>9, <2>1
<1>11. added.slots = open /\ Slot(added) = slot /\ added.fixed = none /\ DOMAIN none = kept /\ new.vad = 0
  BY <1>8, <1>10 DEF Slot
<1> HIDE DEF none, slot
<1>12. SetSlots(added, old.slots) = [added EXCEPT !.slots = slots, !.fixed = fixed]
  BY <1>11 DEF SetSlots
<1>13. CopyTo(new, old) = SetVADParticipant(SetSlots(added, old.slots), 0, hide)
  BY <1>11, <1>9 DEF CopyTo, score, none
<1> HIDE DEF slots, fixed, new, open, zero, out, hide, no, empty
<1>14. PICK set : set = [added EXCEPT !.slots = slots, !.fixed = fixed]
  OBVIOUS
<1>15. PICK x : x = CopyTo(new, old)
  OBVIOUS
<1>16. x = [obj |-> obj, slots |-> slots, pos |-> zero, oldPos |-> out, score |-> score,
            fixed |-> fixed, vad |-> 0, hide |-> hide, image |-> zero, stale |-> {}]
  <2>1. set = [obj |-> obj, slots |-> slots, pos |-> zero, oldPos |-> out, score |-> score,
               fixed |-> fixed, vad |-> 0, hide |-> no, image |-> zero, stale |-> {}]
    BY <1>10, <1>14
  <2>2. x = [set EXCEPT !.vad = 0, !.hide = hide]
    BY <1>12, <1>13, <1>14, <1>15 DEF SetVADParticipant
  <2> QED
    BY <2>1, <2>2
<1>17. x = Made(obj, n, score, fixed, slots, hide)
  BY <1>16 DEF Made, zero, out, slot
<1>18. hide \in BOOLEAN
  BY DEF hide
<1> HIDE DEF kept
<1>19. Ready(x) /\ x.obj = obj /\ x.stale = {}
  BY <1>7, <1>18, <1>17, MadeReady
<1> QED
  BY <1>15, <1>19 DEF new

\* Pictures do not matter for who is shown where.
LEMMA Repainted ==
    ASSUME NEW m, Sound(m), NEW oldPos, NEW image, NEW stale,
           oldPos \in [Slot(m) -> Part \cup {0, -1}], image \in [Slot(m) -> Part \cup {0}],
           stale \subseteq Slot(m), \A i \in Slot(m) : image[i] \in {0, oldPos[i]}
    PROVE  \A x : x = [obj |-> m.obj, slots |-> m.slots, pos |-> m.pos, oldPos |-> oldPos,
                       score |-> m.score, fixed |-> m.fixed, vad |-> m.vad, hide |-> m.hide,
                       image |-> image, stale |-> stale]
              => Sound(x) /\ x.obj = m.obj /\ x.oldPos = oldPos /\ x.stale = stale
<1> TAKE x
<1> HAVE x = [obj |-> m.obj, slots |-> m.slots, pos |-> m.pos, oldPos |-> oldPos,
              score |-> m.score, fixed |-> m.fixed, vad |-> m.vad, hide |-> m.hide,
              image |-> image, stale |-> stale]
<1>1. Ready(m) /\ Placed(m) /\ Typed(m) /\ Scored(m) /\ Counted(m) /\ Spoken(m)
  BY DEF Sound, Ready
<1>2. /\ x.obj = m.obj /\ x.slots = m.slots /\ x.pos = m.pos /\ x.oldPos = oldPos
      /\ x.score = m.score /\ x.fixed = m.fixed /\ x.vad = m.vad /\ x.hide = m.hide
      /\ x.image = image /\ x.stale = stale
  OBVIOUS
<1>3. Slot(x) = Slot(m)
  BY <1>2 DEF Slot
<1>4. Typed(x)
  <2>1. PICK n \in Nat : Slot(m) = 0..(n - 1) /\ m \in MosaicOf(n)
    BY <1>1, Fields
  <2>2. /\ m.obj \in Object /\ m.slots \in [0..(n - 1) -> SlotValue] /\ m.pos \in [0..(n - 1) -> Part \cup {0}]
        /\ m.score \in UNION {[ps -> Int] : ps \in SUBSET Part}
        /\ m.fixed \in UNION {[ps -> {0, 1}] : ps \in SUBSET Part}
        /\ m.vad \in Part \cup {0} /\ m.hide \in BOOLEAN
    BY <2>1 DEF MosaicOf
  <2>3. /\ oldPos \in [0..(n - 1) -> Part \cup {0, -1}] /\ image \in [0..(n - 1) -> Part \cup {0}]
        /\ stale \in SUBSET (0..(n - 1))
    BY <2>1
  <2>4. x \in MosaicOf(n)
    BY <2>2, <2>3 DEF MosaicOf
  <2> QED
    BY <1>1, <1>2, <2>4 DEF Typed
<1>5. Scored(x) /\ Counted(x) /\ Spoken(x)
  BY <1>1, <1>2, <1>3 DEF Scored, Counted, Spoken, IsSet, HasParticipant, IsVADShown
<1>6. Pictured(x)
  BY <1>2, <1>3 DEF Pictured
<1>7. Placed(x)
  <2>1. Once(x) /\ Ordered(x)
    BY <1>1, <1>2, <1>3 DEF Placed, Once, Ordered, IsOpen
  <2>2. \A i : IsOpen(x, i) <=> IsOpen(m, i)
    BY <1>2, <1>3 DEF IsOpen
  <2>3. \A p : Waits(x, p) <=> Waits(m, p)
    BY <1>2, <1>3, <2>2 DEF Waits
  <2>4. NobodyLeftOut(x)
    BY <1>1, <1>2, <1>3, <2>2, <2>3 DEF Placed, NobodyLeftOut
  <2> QED
    BY <1>1, <1>2, <1>3, <2>1, <2>4 DEF Placed, HasParticipant
<1> QED
  BY <1>2, <1>4, <1>5, <1>6, <1>7 DEF Sound, Ready

\* Other slots are stale.
LEMMA Restaled ==
    ASSUME NEW m, Sound(m), NEW stale, stale \subseteq Slot(m)
    PROVE  \A x : x = [m EXCEPT !.stale = stale]
              => Sound(x) /\ x.obj = m.obj /\ x.oldPos = m.oldPos /\ x.stale = stale /\ Slot(x) = Slot(m)
<1> TAKE x
<1> HAVE x = [m EXCEPT !.stale = stale]
<1>1. Typed(m) /\ Pictured(m)
  BY DEF Sound, Ready
<1>2. m = [obj |-> m.obj, slots |-> m.slots, pos |-> m.pos, oldPos |-> m.oldPos,
           score |-> m.score, fixed |-> m.fixed, vad |-> m.vad, hide |-> m.hide,
           image |-> m.image, stale |-> m.stale]
  BY <1>1, Whole
<1>3. x = [obj |-> m.obj, slots |-> m.slots, pos |-> m.pos, oldPos |-> m.oldPos,
           score |-> m.score, fixed |-> m.fixed, vad |-> m.vad, hide |-> m.hide,
           image |-> m.image, stale |-> stale]
  BY <1>2
<1>4. m.oldPos \in [Slot(m) -> Part \cup {0, -1}] /\ m.image \in [Slot(m) -> Part \cup {0}]
  <2>1. PICK n \in Nat : Slot(m) = 0..(n - 1) /\ m \in MosaicOf(n)
    BY <1>1, Fields
  <2> QED
    BY <2>1 DEF MosaicOf
<1>5. \A i \in Slot(m) : m.image[i] \in {0, m.oldPos[i]}
  BY <1>1 DEF Pictured
<1>6. Sound(x) /\ x.obj = m.obj /\ x.oldPos = m.oldPos /\ x.stale = stale
  BY <1>3, <1>4, <1>5, Repainted
<1>7. x.slots = m.slots
  BY <1>3
<1> QED
  BY <1>6, <1>7 DEF Slot

\* The mixer paints the slots.
LEMMA PaintedSound ==
    ASSUME NEW now, NEW m \in DOMAIN now, Sound(now[m])
    PROVE  \A x : x = Painted(now)[m] =>
              /\ Sound(x) /\ x.obj = now[m].obj
              /\ \A i \in x.stale : /\ i \in Slot(now[m]) /\ i \in now[m].stale
                                    /\ x.oldPos[i] = now[m].oldPos[i] /\ x.oldPos[i] = now[m].pos[i]
                                    /\ ~Updates(m, i, now)
<1> DEFINE y == now[m]
           image == [i \in Slot(y) |-> CASE Updates(m, i, now) -> y.pos[i]
                                         [] Cleans(m, i, now)  -> 0
                                         [] OTHER              -> y.image[i]]
           stale == {i \in y.stale : ~Updates(m, i, now) /\ ~Cleans(m, i, now)}
<1> TAKE x
<1> HAVE x = Painted(now)[m]
<1>1. Typed(y) /\ Pictured(y)
  BY DEF Sound, Ready
<1>2. x = [y EXCEPT !.oldPos = y.pos, !.image = image, !.stale = stale]
  BY DEF Painted
<1>3. y = [obj |-> y.obj, slots |-> y.slots, pos |-> y.pos, oldPos |-> y.oldPos,
           score |-> y.score, fixed |-> y.fixed, vad |-> y.vad, hide |-> y.hide,
           image |-> y.image, stale |-> y.stale]
  BY <1>1, Whole
<1>4. /\ y.pos \in [Slot(y) -> Part \cup {0}] /\ y.pos \in [Slot(y) -> Part \cup {0, -1}]
      /\ y.image \in [Slot(y) -> Part \cup {0}] /\ y.stale \subseteq Slot(y)
  <2>1. PICK n \in Nat : Slot(y) = 0..(n - 1) /\ y \in MosaicOf(n)
    BY <1>1, Fields
  <2>2. /\ y.pos \in [Slot(y) -> Part \cup {0}]
        /\ y.image \in [Slot(y) -> Part \cup {0}] /\ y.stale \subseteq Slot(y)
    BY <2>1 DEF MosaicOf
  <2> QED
    BY <2>2
<1>5. ASSUME NEW i \in Slot(y), ~Updates(m, i, now), ~Cleans(m, i, now)
      PROVE  y.oldPos[i] = y.pos[i]
  BY <1>5 DEF Updates, Cleans
<1>6. ASSUME NEW i \in Slot(y)
      PROVE  image[i] \in {0, y.pos[i]}
  <2>1. Updates(m, i, now) => ~Cleans(m, i, now)
    BY DEF Updates, Cleans
  <2>2. image[i] = IF Updates(m, i, now) THEN y.pos[i] ELSE IF Cleans(m, i, now) THEN 0 ELSE y.image[i]
    BY <2>1
  <2>3. ~Updates(m, i, now) /\ ~Cleans(m, i, now) => y.image[i] \in {0, y.pos[i]}
    BY <1>1, <1>5 DEF Pictured
  <2> HIDE DEF image
  <2> QED
    BY <2>2, <2>3
<1>7. image \in [Slot(y) -> Part \cup {0}]
  <2>1. image = [i \in Slot(y) |-> image[i]]
    OBVIOUS
  <2> HIDE DEF image
  <2> QED
    BY <1>4, <1>6, <2>1
<1>8. stale \subseteq Slot(y) /\ \A i \in stale : i \in y.stale /\ y.oldPos[i] = y.pos[i] /\ ~Updates(m, i, now)
  BY <1>4, <1>5
<1> HIDE DEF image, stale
<1>9. x = [obj |-> y.obj, slots |-> y.slots, pos |-> y.pos, oldPos |-> y.pos,
           score |-> y.score, fixed |-> y.fixed, vad |-> y.vad, hide |-> y.hide,
           image |-> image, stale |-> stale]
  <2> HIDE DEF y
  <2> QED
    BY <1>2, <1>3
<1>10. Sound(x) /\ x.obj = y.obj /\ x.oldPos = y.pos /\ x.stale = stale
  <2>1. Sound(y)
    OBVIOUS
  <2> HIDE DEF y
  <2> QED
    BY <2>1, <1>4, <1>6, <1>7, <1>8, <1>9, Repainted
<1> QED
  BY <1>8, <1>10

\* Choosing the speaker leaves a mosaic sound.
LEMMA SpeakerSound ==
    ASSUME NEW m, Sound(m), NEW p \in Speakers(m)
    PROVE  Sound(WithSpeaker(m, p)) /\ Kept(WithSpeaker(m, p), m)
<1> DEFINE hide == vadMode = "FullVAD"
           set == SetVADParticipant(m, p, hide)
<1>1. CASE p = m.vad
  BY <1>1 DEF WithSpeaker, Kept
<1>2. CASE p # m.vad
  <2>1. p \in Part /\ HasParticipant(m, p) /\ IsVADShown(m)
    <3> DEFINE present == {q \in Part : HasSource(q) /\ HasParticipant(m, q)}
    <3>1. ~(vadMode = "NoVAD" \/ ~IsVADShown(m)) /\ p \in present
      BY <1>2 DEF Speakers
    <3> QED
      BY <3>1
  <2>2. Ready(m) /\ hide \in BOOLEAN
    BY DEF Sound
  <2> HIDE DEF hide
  <2>3. Ready(set) /\ Kept(set, m)
    BY <2>1, <2>2, SpeakerKeeps
  <2> HIDE DEF set
  <2>4. Ready(SetScore(set, m.vad)) /\ Kept(SetScore(set, m.vad), m)
    BY <2>3, ScoreKeeps DEF Kept
  <2>5. PICK y : /\ y = IF m.vad # 0 /\ hide THEN SetScore(set, m.vad) ELSE set
                 /\ Ready(y) /\ Kept(y, m)
    BY <2>3, <2>4
  <2>6. WithSpeaker(m, p) = CalculatePositions(y)
    BY <1>2, <2>5 DEF WithSpeaker, set, hide
  <2>7. Sound(CalculatePositions(y)) /\ Kept(CalculatePositions(y), y)
    BY <2>5, Calculated, CalculatedKept DEF Ready
  <2> QED
    BY <2>5, <2>6, <2>7 DEF Kept
<1> QED
  BY <1>1, <1>2

-----------------------------------------------------------------------------
(* The mixer.                                                              *)

Source == [mosaic : Object \cup {Null}, state : {"created", "inited", "ended"}, isChanged : BOOLEAN]

\* A stale slot is the slot of a source that sends, or sent, pictures.
Said(x, sources) ==
    \A i \in x.stale : /\ x.oldPos[i] \in DOMAIN sources /\ sources[x.oldPos[i]].state # "created"
                       /\ sources[x.oldPos[i]].state = "inited" => sources[x.oldPos[i]].isChanged
Good(ms, sources) == \A m \in DOMAIN ms : Sound(ms[m]) /\ Said(ms[m], sources)
Seen(ms, sources) ==
    /\ DOMAIN sources \subseteq Part
    /\ \A p \in DOMAIN sources : sources[p] \in Source
    /\ \A p \in DOMAIN sources : \/ sources[p].mosaic = Null
                                 \/ \E m \in DOMAIN ms : sources[p].mosaic = ms[m].obj
Numbered == DOMAIN mosaics \subseteq 0..(maxMosaics - 1) /\ maxMosaics \in 0..MaxMosaic
Stepping == mixer \in {"deliver", "wait", "mix", "off", "ended"} /\ ending \in Part \cup {0}

IInv == Numbered /\ Good(mosaics, videos) /\ Seen(mosaics, videos) /\ Stepping

\* A call about one mosaic
LEMMA ChangedKeeps ==
    ASSUME IInv, NEW m, Live(m), NEW y, Ready(y), Kept(y, mosaics[m]), Changed(m, y)
    PROVE  Good(mosaics', videos) /\ Seen(mosaics', videos) /\ DOMAIN mosaics' = DOMAIN mosaics
<1> DEFINE x == CalculatePositions(y)
<1>1. m \in DOMAIN mosaics /\ DOMAIN mosaics' = DOMAIN mosaics
  BY DEF Live, Changed, With
<1>2. mosaics'[m] = x /\ \A k \in DOMAIN mosaics : k # m => mosaics'[k] = mosaics[k]
  BY <1>1 DEF Changed, With
<1>3. Sound(x) /\ Kept(x, y)
  BY Calculated, CalculatedKept DEF Ready
<1> HIDE DEF x
<1>4. x.obj = mosaics[m].obj /\ x.stale = mosaics[m].stale /\ x.oldPos = mosaics[m].oldPos
  BY <1>3 DEF Kept
<1>5. \A k \in DOMAIN mosaics : /\ Sound(mosaics'[k]) /\ mosaics'[k].obj = mosaics[k].obj
                                /\ mosaics'[k].stale = mosaics[k].stale
                                /\ mosaics'[k].oldPos = mosaics[k].oldPos
  BY <1>1, <1>2, <1>3, <1>4 DEF IInv, Good
<1>6. Good(mosaics', videos)
  BY <1>1, <1>5 DEF IInv, Good, Said
<1>7. Seen(mosaics', videos)
  BY <1>1, <1>5 DEF IInv, Seen
<1> QED
  BY <1>1, <1>6, <1>7

\* There is an object for a new mosaic.
LEMMA FreshObject ==
    ASSUME Numbered
    PROVE  (CHOOSE o \in Object : o \notin Objects) \in Object \ Objects
<1>1. MaxMosaic \in Nat
  BY MixerAssumption
<1>2. IsFiniteSet(DOMAIN mosaics) /\ Cardinality(DOMAIN mosaics) <= MaxMosaic /\ Cardinality(DOMAIN mosaics) \in Nat
  <2>1. DOMAIN mosaics \subseteq 0..(MaxMosaic - 1)
    BY <1>1 DEF Numbered
  <2>2. IsFiniteSet(0..(MaxMosaic - 1)) /\ Cardinality(0..(MaxMosaic - 1)) = MaxMosaic
    BY <1>1, FS_Interval
  <2> QED
    BY <2>1, <2>2, FS_Subset, FS_CardinalityType
<1> DEFINE obj == [m \in DOMAIN mosaics |-> mosaics[m].obj]
<1>3. Objects = {obj[m] : m \in DOMAIN mosaics}
  BY DEF Objects
<1>4. IsFiniteSet(Objects) /\ Cardinality(Objects) <= Cardinality(DOMAIN mosaics) /\ Cardinality(Objects) \in Nat
  <2> HIDE DEF obj
  <2> QED
    BY <1>2, <1>3, Values
<1>5. IsFiniteSet(Object) /\ Cardinality(Object) = MaxMosaic + 1
  BY <1>1, FS_Interval DEF Object
<1>6. \E o \in Object : o \notin Objects
  <2> SUFFICES ASSUME Object \subseteq Objects PROVE FALSE
    OBVIOUS
  <2>1. Cardinality(Object) <= Cardinality(Objects)
    BY <1>4, FS_Subset
  <2> QED
    BY <1>1, <1>2, <1>4, <1>5, <2>1
<1> QED
  BY <1>6

\* A new mosaic, for an old one or not
LEMMA CompositionKeeps ==
    ASSUME IInv, NEW m, NEW n \in NumSlots, SetCompositionType(m, n)
    PROVE  Good(mosaics', videos') /\ Seen(mosaics', videos') /\ DOMAIN mosaics' = DOMAIN mosaics \cup {m}
<1> DEFINE o == CHOOSE o \in Object : o \notin Objects
           new == NewMosaic(o, n)
<1>1. o \in Object /\ o # Null /\ n \in Nat
  <2>1. o \in Object
    BY FreshObject DEF IInv
  <2> HIDE DEF o
  <2> QED
    BY <2>1, MixerAssumption DEF Object, Null
<1>2. Ready(new) /\ new.obj = o /\ new.stale = {}
  <2> HIDE DEF o
  <2> QED
    BY <1>1, NewReady
<1>3. PICK y : /\ Ready(y) /\ y.obj = o /\ y.stale = {} /\ Changed(m, y)
               /\ videos' = IF Live(m) THEN Redirect(mosaics[m].obj, o) ELSE videos
  <2>1. CASE Live(m)
    <3>1. PICK y : y = CopyTo(new, mosaics[m])
      OBVIOUS
    <3>2. Changed(m, y) /\ videos' = Redirect(mosaics[m].obj, o)
      BY <1>2, <2>1, <3>1 DEF SetCompositionType
    <3>3. Sound(mosaics[m])
      BY <2>1 DEF IInv, Good, Live
    <3> HIDE DEF o
    <3>4. Ready(y) /\ y.obj = o /\ y.stale = {}
      BY <1>1, <3>1, <3>3, CopyReady
    <3> QED
      BY <2>1, <3>2, <3>4
  <2>2. CASE ~Live(m)
    BY <1>2, <2>2 DEF SetCompositionType
  <2> QED
    BY <2>1, <2>2
<1> DEFINE x == CalculatePositions(y)
<1> HIDE DEF o
<1>4. Sound(x) /\ x.obj = o /\ x.stale = {}
  BY <1>3, Calculated, CalculatedKept DEF Ready, Kept
<1>5. /\ DOMAIN mosaics' = DOMAIN mosaics \cup {m} /\ mosaics'[m] = x
      /\ \A k \in DOMAIN mosaics : k # m => mosaics'[k] = mosaics[k]
  BY <1>3 DEF Changed, With
<1> HIDE DEF x
<1>6. /\ DOMAIN videos' = DOMAIN videos
      /\ \A p \in DOMAIN videos : /\ videos'[p].state = videos[p].state /\ videos'[p].isChanged = videos[p].isChanged
                                  /\ videos'[p] \in Source
                                  /\ \/ videos'[p].mosaic = o
                                     \/ /\ videos'[p].mosaic = videos[p].mosaic
                                        /\ Live(m) => videos[p].mosaic # mosaics[m].obj
  <2>1. \A p \in DOMAIN videos : videos[p] \in Source
    BY DEF IInv, Seen
  <2>2. \A p \in DOMAIN videos : [videos[p] EXCEPT !.mosaic = o] \in Source
    BY <1>1, <2>1 DEF Source
  <2>3. \A p \in DOMAIN videos : /\ [videos[p] EXCEPT !.mosaic = o].mosaic = o
                                 /\ [videos[p] EXCEPT !.mosaic = o].state = videos[p].state
                                 /\ [videos[p] EXCEPT !.mosaic = o].isChanged = videos[p].isChanged
    BY <2>1 DEF Source
  <2>4. CASE Live(m)
    BY <1>3, <2>1, <2>2, <2>3, <2>4 DEF Redirect
  <2>5. CASE ~Live(m)
    BY <1>3, <2>1, <2>5
  <2> QED
    BY <2>4, <2>5
<1>7. Good(mosaics', videos')
  <2> SUFFICES ASSUME NEW k \in DOMAIN mosaics' PROVE Sound(mosaics'[k]) /\ Said(mosaics'[k], videos')
    BY DEF Good
  <2>1. CASE k = m
    BY <1>4, <1>5, <2>1 DEF Said
  <2>2. CASE k # m
    BY <1>5, <1>6, <2>2 DEF IInv, Good, Said
  <2> QED
    BY <2>1, <2>2
<1>8. Seen(mosaics', videos')
  <2> SUFFICES ASSUME NEW p \in DOMAIN videos'
               PROVE  \/ videos'[p].mosaic = Null
                      \/ \E k \in DOMAIN mosaics' : videos'[p].mosaic = mosaics'[k].obj
    BY <1>6 DEF IInv, Seen
  <2>1. CASE videos'[p].mosaic = o
    BY <1>4, <1>5, <2>1
  <2>2. CASE videos'[p].mosaic # o
    <3>1. videos'[p].mosaic = videos[p].mosaic /\ (Live(m) => videos[p].mosaic # mosaics[m].obj)
      BY <1>6, <2>2
    <3>2. \/ videos[p].mosaic = Null
          \/ \E k \in DOMAIN mosaics : videos[p].mosaic = mosaics[k].obj
      BY <1>6 DEF IInv, Seen
    <3> QED
      BY <1>5, <3>1, <3>2 DEF Live
  <2> QED
    BY <2>1, <2>2
<1> QED
  BY <1>5, <1>7, <1>8

\* The participants joined have their sources and are in the first mosaic.
LEMMA InitKeeps ==
    ASSUME Init
    PROVE  IInv
<1>1. PICK n \in NumSlots : mosaics = [m \in {0} |->
           CalculatePositions([NewMosaic(1, n) EXCEPT !.score = [p \in Joined |-> -p],
                                                      !.fixed = [p \in Joined |-> 0]])]
  BY DEF Init
<1> DEFINE slot == 0..(n - 1)
           zero == [i \in slot |-> 0]
           out == [i \in slot |-> -1]
           score == [p \in Joined |-> -p]
           fixed == [p \in Joined |-> 0]
           slots == [i \in slot |-> SlotFree]
           no == FALSE
           empty == <<>>
           new == NewMosaic(1, n)
<1>2. /\ n \in Nat /\ 1 \in Object /\ no \in BOOLEAN /\ MaxMosaic \in Nat /\ MaxMosaic > 0
      /\ Joined \subseteq Part /\ \A p \in Joined : p \in Nat /\ p > 0
  BY MixerAssumption, Parts DEF Object
<1>3. Fits(n, score, fixed, slots)
  <2>1. /\ DOMAIN score = Joined /\ score \in [Joined -> Int] /\ fixed \in [Joined -> {0, 1}]
        /\ \A p \in Joined : score[p] = -p /\ fixed[p] = 0
    BY <1>2
  <2>2. slots \in [slot -> SlotValue] /\ \A i \in slot : slots[i] = 0
    BY Parts DEF SlotValue
  <2> HIDE DEF score, fixed, slots
  <2>3. \A p, q \in Joined : score[p] = score[q] => p = q
    BY <1>2, <2>1
  <2> QED
    BY <1>2, <2>1, <2>2, <2>3 DEF Fits
<1>4. PICK y : y = [new EXCEPT !.score = score, !.fixed = fixed]
  OBVIOUS
<1>5. y = Made(1, n, score, fixed, slots, no)
  <2>1. new = [obj |-> 1, slots |-> slots, pos |-> zero, oldPos |-> out, score |-> empty,
               fixed |-> empty, vad |-> 0, hide |-> no, image |-> zero, stale |-> {}]
    BY DEF NewMosaic
  <2> HIDE DEF new, slots, zero, out, score, fixed, no, empty
  <2>2. y = [obj |-> 1, slots |-> slots, pos |-> zero, oldPos |-> out, score |-> score,
             fixed |-> fixed, vad |-> 0, hide |-> no, image |-> zero, stale |-> {}]
    BY <1>4, <2>1
  <2> QED
    BY <2>2 DEF Made, zero, out
<1>6. mosaics = [m \in {0} |-> CalculatePositions(y)]
  BY <1>1, <1>4
<1> HIDE DEF score, fixed, slots, no, new
<1>7. Ready(y) /\ y.obj = 1 /\ y.stale = {}
  BY <1>2, <1>3, <1>5, MadeReady
<1> DEFINE x == CalculatePositions(y)
<1>8. Sound(x) /\ x.obj = 1 /\ x.stale = {}
  BY <1>7, Calculated, CalculatedKept DEF Ready, Kept
<1> HIDE DEF x
<1>9. DOMAIN mosaics = {0} /\ mosaics[0] = x
  BY <1>6 DEF x
<1>10. Good(mosaics, videos)
  BY <1>8, <1>9 DEF Good, Said
<1>11. Seen(mosaics, videos)
  <2>1. videos = [p \in Joined |-> [NewSource EXCEPT !.mosaic = 1, !.state = "inited"]]
    BY DEF Init
  <2>2. PICK src : src = [NewSource EXCEPT !.mosaic = 1, !.state = "inited"]
    OBVIOUS
  <2>3. NewSource \in [mosaic : {Null}, state : {"created"}, isChanged : BOOLEAN]
    BY DEF NewSource
  <2>4. src \in Source /\ src.mosaic = 1
    BY <1>2, <2>2, <2>3 DEF Source
  <2>5. DOMAIN videos = Joined /\ \A p \in Joined : videos[p] = src
    BY <2>1, <2>2
  <2> QED
    BY <1>2, <1>8, <1>9, <2>4, <2>5 DEF Seen
<1>12. Numbered /\ Stepping
  BY <1>2, <1>9 DEF Init, Numbered, Stepping
<1> QED
  BY <1>10, <1>11, <1>12 DEF IInv

\* The steps about sources
LEMMA SourceSteps ==
    ASSUME IInv, NEW p \in Part, NEW m \in MosaicId,
           CreateMixer(p) \/ InitMixer(p, m) \/ SetMixerMosaic(p, m) \/ EndMixer(p)
    PROVE  IInv'
<1>1. /\ mosaics' = mosaics /\ maxMosaics' = maxMosaics
      /\ DOMAIN videos \subseteq Part /\ \A q \in DOMAIN videos : videos[q] \in Source
  BY DEF CreateMixer, InitMixer, SetMixerMosaic, EndMixer, IInv, Seen
<1>2. Stepping'
  <2>1. mixer' \in {"deliver", "wait", "mix", "off", "ended"}
    BY DEF CreateMixer, InitMixer, SetMixerMosaic, EndMixer, IInv, Stepping, Signal
  <2>2. ending' \in Part \cup {0}
    BY DEF CreateMixer, InitMixer, SetMixerMosaic, EndMixer, IInv, Stepping
  <2> QED
    BY <2>1, <2>2 DEF Stepping
<1>3. Numbered'
  BY <1>1 DEF IInv, Numbered
<1>4. PICK r : /\ DOMAIN videos' = DOMAIN videos \cup {p} /\ videos'[p] = r
               /\ \A q \in DOMAIN videos : q # p => videos'[q] = videos[q]
               /\ r \in Source
               /\ r.mosaic = Null \/ \E k \in DOMAIN mosaics : r.mosaic = mosaics[k].obj
               /\ HasSource(p) => /\ r.isChanged = videos[p].isChanged
                                  /\ r.state = "inited" => videos[p].state \in {"created", "inited"}
                                  /\ r.state = "created" => videos[p].state = "created"
  <2>1. CASE CreateMixer(p)
    <3>1. NewSource \in Source /\ NewSource.mosaic = Null
      BY DEF NewSource, Source
    <3>2. videos' = With(videos, p, NewSource) /\ ~HasSource(p)
      BY <2>1 DEF CreateMixer
    <3>3. /\ DOMAIN videos' = DOMAIN videos \cup {p} /\ videos'[p] = NewSource
          /\ \A q \in DOMAIN videos : q # p => videos'[q] = videos[q]
      BY <3>2 DEF With
    <3> QED
      BY <3>1, <3>2, <3>3
  <2>2. CASE ~CreateMixer(p)
    <3>1. HasSource(p) /\ p \in DOMAIN videos /\ videos[p] \in Source
      BY <1>1, <2>2 DEF InitMixer, SetMixerMosaic, EndMixer, HasSource
    <3>3. \A k \in DOMAIN mosaics : mosaics[k].obj \in Object
      BY Fields DEF IInv, Good, Sound, Ready
    <3>4. videos[p].mosaic = Null \/ \E k \in DOMAIN mosaics : videos[p].mosaic = mosaics[k].obj
      BY <3>1 DEF IInv, Seen
    <3>5. PICK obj : obj = IF Live(m) THEN mosaics[m].obj ELSE videos[p].mosaic
      OBVIOUS
    <3>6. PICK now : now = IF Live(m) THEN mosaics[m].obj ELSE Null
      OBVIOUS
    <3>7. /\ obj \in Object \cup {Null} /\ now \in Object \cup {Null}
          /\ obj = Null \/ \E k \in DOMAIN mosaics : obj = mosaics[k].obj
          /\ now = Null \/ \E k \in DOMAIN mosaics : now = mosaics[k].obj
      BY <3>1, <3>3, <3>4, <3>5, <3>6 DEF Live, Source
    <3>8. CASE InitMixer(p, m)
      <4>1. videos' = [videos EXCEPT ![p].state = "inited", ![p].mosaic = obj] /\ videos[p].state = "created"
        BY <3>1, <3>5, <3>8 DEF InitMixer
      <4>2. PICK r : r = videos'[p]
        OBVIOUS
      <4>3. /\ DOMAIN videos' = DOMAIN videos \cup {p}
            /\ \A q \in DOMAIN videos : q # p => videos'[q] = videos[q]
        BY <3>1, <4>1
      <4>4. r \in Source /\ r.state = "inited" /\ r.mosaic = obj /\ r.isChanged = videos[p].isChanged
        BY <3>1, <3>7, <4>1, <4>2 DEF Source
      <4> QED
        BY <3>7, <4>1, <4>2, <4>3, <4>4
    <3>9. CASE SetMixerMosaic(p, m)
      <4>1. videos' = [videos EXCEPT ![p].mosaic = now]
        BY <3>1, <3>6, <3>9 DEF SetMixerMosaic
      <4>2. PICK r : r = videos'[p]
        OBVIOUS
      <4>3. /\ DOMAIN videos' = DOMAIN videos \cup {p}
            /\ \A q \in DOMAIN videos : q # p => videos'[q] = videos[q]
        BY <3>1, <4>1
      <4>4. r \in Source /\ r.state = videos[p].state /\ r.mosaic = now /\ r.isChanged = videos[p].isChanged
        BY <3>1, <3>7, <4>1, <4>2 DEF Source
      <4> QED
        BY <3>7, <4>2, <4>3, <4>4
    <3>10. CASE EndMixer(p)
      <4>1. videos' = [videos EXCEPT ![p].state = "ended", ![p].mosaic = Null]
        BY <3>10 DEF EndMixer
      <4>2. PICK r : r = videos'[p]
        OBVIOUS
      <4>3. /\ DOMAIN videos' = DOMAIN videos \cup {p}
            /\ \A q \in DOMAIN videos : q # p => videos'[q] = videos[q]
        BY <3>1, <4>1
      <4>4. r \in Source /\ r.state = "ended" /\ r.mosaic = Null /\ r.isChanged = videos[p].isChanged
        BY <3>1, <4>1, <4>2 DEF Source
      <4> QED
        BY <4>2, <4>3, <4>4
    <3> QED
      BY <2>2, <3>8, <3>9, <3>10
  <2> QED
    BY <2>1, <2>2
<1>5. /\ DOMAIN videos' = DOMAIN videos \cup {p} /\ videos'[p] = r
      /\ \A q \in DOMAIN videos : q # p => videos'[q] = videos[q]
  BY <1>4
<1>6. Good(mosaics', videos')
  <2> SUFFICES ASSUME NEW k \in DOMAIN mosaics PROVE Sound(mosaics[k]) /\ Said(mosaics[k], videos')
    BY <1>1 DEF Good
  <2>1. Sound(mosaics[k]) /\ Said(mosaics[k], videos)
    BY DEF IInv, Good
  <2> SUFFICES ASSUME NEW i \in mosaics[k].stale, NEW q, q = mosaics[k].oldPos[i]
               PROVE  /\ q \in DOMAIN videos' /\ videos'[q].state # "created"
                      /\ videos'[q].state = "inited" => videos'[q].isChanged
    BY <2>1 DEF Said
  <2>2. /\ q \in DOMAIN videos /\ videos[q].state # "created"
        /\ videos[q].state = "inited" => videos[q].isChanged
    BY <2>1 DEF Said
  <2>3. CASE q = p
    BY <1>4, <1>5, <2>2, <2>3 DEF HasSource
  <2>4. CASE q # p
    BY <1>5, <2>2, <2>4
  <2> QED
    BY <2>3, <2>4
<1>7. Seen(mosaics', videos')
  BY <1>1, <1>4, <1>5 DEF IInv, Seen
<1> QED
  BY <1>2, <1>3, <1>6, <1>7 DEF IInv

\* The steps about one mosaic
LEMMA CallKeeps ==
    ASSUME IInv, NEW m, Live(m), NEW y, Ready(y), Kept(y, mosaics[m]), Changed(m, y),
           UNCHANGED <<maxMosaics, videos, ending>>, UNCHANGED mixer \/ Signal
    PROVE  IInv'
<1>1. Good(mosaics', videos') /\ Seen(mosaics', videos') /\ DOMAIN mosaics' = DOMAIN mosaics
  BY ChangedKeeps
<1>2. Numbered' /\ Stepping'
  BY <1>1 DEF IInv, Numbered, Stepping, Signal
<1> QED
  BY <1>1, <1>2 DEF IInv

\* Calls that add a participant to a mosaic, or take it away
LEMMA ParticipantSteps ==
    ASSUME IInv, NEW m, NEW p \in Part, AddMosaicParticipant(m, p) \/ RemoveMosaicParticipant(m, p)
    PROVE  IInv'
<1>1. /\ Live(m) /\ UNCHANGED <<maxMosaics, videos, ending>> /\ UNCHANGED mixer
  BY DEF AddMosaicParticipant, RemoveMosaicParticipant
<1>2. Sound(mosaics[m])
  BY <1>1 DEF IInv, Good, Live
<1>3. PICK y : Ready(y) /\ Kept(y, mosaics[m]) /\ Changed(m, y)
  <2>1. CASE AddMosaicParticipant(m, p)
    BY <1>2, <2>1, AddKeeps DEF AddMosaicParticipant
  <2>2. CASE RemoveMosaicParticipant(m, p)
    BY <1>2, <2>2, RemoveKeeps DEF RemoveMosaicParticipant
  <2> QED
    BY <2>1, <2>2
<1> QED
  BY <1>1, <1>3, CallKeeps

\* Calls that set a slot of a mosaic
LEMMA SlotSteps ==
    ASSUME IInv, NEW m, NEW num, NEW id \in SlotValue, SetSlotInMosaic(m, num, id)
    PROVE  IInv'
<1>1. /\ Live(m) /\ UNCHANGED <<maxMosaics, videos, ending>> /\ Signal
      /\ Changed(m, SetSlot(FreedOf(mosaics[m], id), num, id))
  BY DEF SetSlotInMosaic
<1>2. Sound(mosaics[m])
  BY <1>1 DEF IInv, Good, Live
<1> QED
  BY <1>1, <1>2, SetSlotKeeps, CallKeeps

\* CreateMosaic and SetCompositionType
LEMMA CompositionSteps ==
    ASSUME IInv, NEW m, NEW n \in NumSlots, CreateMosaic(n) \/ (m \in MosaicId /\ ChangeMosaic(m, n))
    PROVE  IInv'
<1>1. /\ DOMAIN mosaics \subseteq 0..(maxMosaics - 1) /\ maxMosaics \in 0..MaxMosaic /\ MaxMosaic \in Nat
  BY MixerAssumption DEF IInv, Numbered
<1>2. CASE CreateMosaic(n)
  <2>1. /\ Good(mosaics', videos') /\ Seen(mosaics', videos')
        /\ DOMAIN mosaics' = DOMAIN mosaics \cup {maxMosaics}
    BY <1>2, CompositionKeeps DEF CreateMosaic
  <2>2. maxMosaics' = maxMosaics + 1 /\ maxMosaics < MaxMosaic
    BY <1>2 DEF CreateMosaic
  <2>3. Numbered'
    BY <1>1, <2>1, <2>2 DEF Numbered
  <2>4. Stepping'
    BY <1>2 DEF CreateMosaic, SetCompositionType, Signal, IInv, Stepping
  <2> QED
    BY <2>1, <2>3, <2>4 DEF IInv
<1>3. CASE m \in MosaicId /\ ChangeMosaic(m, n)
  <2>1. Good(mosaics', videos') /\ Seen(mosaics', videos') /\ DOMAIN mosaics' = DOMAIN mosaics \cup {m}
    BY <1>3, CompositionKeeps DEF ChangeMosaic
  <2>2. maxMosaics' = maxMosaics /\ m < maxMosaics /\ m \in 0..(MaxMosaic - 1)
    BY <1>3 DEF ChangeMosaic, MosaicId
  <2>3. Numbered'
    BY <1>1, <2>1, <2>2 DEF Numbered
  <2>4. Stepping'
    BY <1>3 DEF ChangeMosaic, SetCompositionType, Signal, IInv, Stepping
  <2> QED
    BY <2>1, <2>3, <2>4 DEF IInv
<1> QED
  BY <1>2, <1>3

\* DeleteMosaic: the sources that have it are left without one.
LEMMA DeleteMosaicKeeps ==
    ASSUME IInv, NEW m, DeleteMosaic(m)
    PROVE  IInv'
<1>1. /\ videos' = Redirect(mosaics[m].obj, Null) /\ mosaics' = Without(mosaics, m) /\ Live(m)
      /\ maxMosaics' = maxMosaics /\ mixer' = mixer /\ ending' = ending
  BY DEF DeleteMosaic
<1>2. /\ DOMAIN mosaics' = DOMAIN mosaics \ {m}
      /\ \A k \in DOMAIN mosaics' : mosaics'[k] = mosaics[k]
  BY <1>1 DEF Without
<1>3. \A p \in DOMAIN videos : videos[p] \in Source
  BY DEF IInv, Seen
<1>4. /\ DOMAIN videos' = DOMAIN videos
      /\ \A p \in DOMAIN videos : /\ videos'[p].state = videos[p].state /\ videos'[p].isChanged = videos[p].isChanged
                                  /\ videos'[p] \in Source
                                  /\ \/ videos'[p].mosaic = Null
                                     \/ videos'[p].mosaic = videos[p].mosaic /\ videos[p].mosaic # mosaics[m].obj
  <2>1. \A p \in DOMAIN videos : [videos[p] EXCEPT !.mosaic = Null] \in Source
    BY <1>3 DEF Source
  <2>2. \A p \in DOMAIN videos : /\ [videos[p] EXCEPT !.mosaic = Null].mosaic = Null
                                 /\ [videos[p] EXCEPT !.mosaic = Null].state = videos[p].state
                                 /\ [videos[p] EXCEPT !.mosaic = Null].isChanged = videos[p].isChanged
    BY <1>3 DEF Source
  <2> QED
    BY <1>1, <1>3, <2>1, <2>2 DEF Redirect
<1>5. Good(mosaics', videos')
  BY <1>2, <1>4 DEF IInv, Good, Said
<1>6. Seen(mosaics', videos')
  BY <1>2, <1>4 DEF IInv, Seen
<1>7. Numbered' /\ Stepping'
  BY <1>1, <1>2 DEF IInv, Numbered, Stepping
<1> QED
  BY <1>5, <1>6, <1>7 DEF IInv

\* A participant is taken out of every mosaic.
LEMMA EndMixerRemoveKeeps ==
    ASSUME IInv, EndMixerRemove
    PROVE  IInv'
<1>1. ending \in Part /\ DOMAIN mosaics' = DOMAIN mosaics /\ videos' = videos /\ maxMosaics' = maxMosaics
  BY DEF EndMixerRemove, IInv, Stepping
<1>2. ASSUME NEW m \in DOMAIN mosaics
      PROVE  Sound(mosaics'[m]) /\ Kept(mosaics'[m], mosaics[m])
  <2>1. Sound(mosaics[m])
    BY DEF IInv, Good
  <2>2. mosaics'[m] = IF HasParticipant(mosaics[m], ending)
                      THEN CalculatePositions(RemoveParticipant(mosaics[m], ending)) ELSE mosaics[m]
    BY DEF EndMixerRemove
  <2>3. PICK y : y = RemoveParticipant(mosaics[m], ending)
    OBVIOUS
  <2>4. Ready(y) /\ Kept(y, mosaics[m])
    BY <1>1, <2>1, <2>3, RemoveKeeps
  <2>5. Sound(CalculatePositions(y)) /\ Kept(CalculatePositions(y), y)
    BY <2>4, Calculated, CalculatedKept DEF Ready
  <2>6. Kept(CalculatePositions(y), mosaics[m])
    BY <2>4, <2>5 DEF Kept
  <2>7. Kept(mosaics[m], mosaics[m])
    BY DEF Kept
  <2> QED
    BY <2>1, <2>2, <2>3, <2>5, <2>6, <2>7
<1>3. \A m \in DOMAIN mosaics : /\ mosaics'[m].obj = mosaics[m].obj /\ mosaics'[m].stale = mosaics[m].stale
                                /\ mosaics'[m].oldPos = mosaics[m].oldPos
  BY <1>2 DEF Kept
<1>4. Good(mosaics', videos')
  BY <1>1, <1>2, <1>3 DEF IInv, Good, Said
<1>5. Seen(mosaics', videos')
  BY <1>1, <1>3 DEF IInv, Seen
<1>6. Numbered'
  BY <1>1 DEF IInv, Numbered
<1>7. Stepping'
  BY DEF EndMixerRemove, Signal, IInv, Stepping
<1> QED
  BY <1>4, <1>5, <1>6, <1>7 DEF IInv

\* DeleteMixer: the source of a participant that has left every mosaic goes.
LEMMA DeleteMixerKeeps ==
    ASSUME IInv, NEW p, DeleteMixer(p)
    PROVE  IInv'
<1>1. /\ videos' = Without(videos, p) /\ DOMAIN mosaics' = DOMAIN mosaics
      /\ maxMosaics' = maxMosaics /\ ending' = ending /\ mixer' = mixer
  BY DEF DeleteMixer
<1>2. DOMAIN videos' = DOMAIN videos \ {p} /\ \A q \in DOMAIN videos' : videos'[q] = videos[q]
  BY <1>1 DEF Without
<1>3. ASSUME NEW m \in DOMAIN mosaics
      PROVE  /\ Sound(mosaics'[m]) /\ mosaics'[m].obj = mosaics[m].obj
             /\ mosaics'[m].oldPos = mosaics[m].oldPos
             /\ mosaics'[m].stale = {i \in mosaics[m].stale : mosaics[m].oldPos[i] # p}
  <2>1. PICK stale : stale = {i \in mosaics[m].stale : mosaics[m].oldPos[i] # p}
    OBVIOUS
  <2>2. mosaics'[m] = [mosaics[m] EXCEPT !.stale = stale]
    BY <2>1 DEF DeleteMixer
  <2>3. Sound(mosaics[m]) /\ Typed(mosaics[m])
    BY DEF IInv, Good, Sound, Ready
  <2>4. mosaics[m].stale \subseteq Slot(mosaics[m])
    <3>1. PICK n \in Nat : Slot(mosaics[m]) = 0..(n - 1) /\ mosaics[m] \in MosaicOf(n)
      BY <2>3, Fields
    <3> QED
      BY <3>1 DEF MosaicOf
  <2>5. stale \subseteq Slot(mosaics[m])
    BY <2>1, <2>4
  <2> QED
    BY <2>1, <2>2, <2>3, <2>5, Restaled
<1>4. Good(mosaics', videos')
  BY <1>1, <1>2, <1>3 DEF IInv, Good, Said
<1>5. Seen(mosaics', videos')
  BY <1>1, <1>2, <1>3 DEF IInv, Seen
<1>6. Numbered' /\ Stepping'
  BY <1>1 DEF IInv, Numbered, Stepping
<1> QED
  BY <1>4, <1>5, <1>6 DEF IInv

\* A participant sends a picture: the slots that show it are out of date.
LEMMA NextFrameKeeps ==
    ASSUME IInv, NEW p, NextFrame(p)
    PROVE  IInv'
<1>1. /\ p \in DOMAIN videos /\ videos[p].state = "inited" /\ DOMAIN mosaics' = DOMAIN mosaics
      /\ videos' = [videos EXCEPT ![p].isChanged = TRUE]
      /\ maxMosaics' = maxMosaics /\ ending' = ending
  BY DEF NextFrame, HasSource
<1>2. videos[p] \in Source
  BY <1>1 DEF IInv, Seen
<1>3. PICK r : r = videos'[p]
  OBVIOUS
<1>4. r \in Source /\ r.isChanged /\ r.state = "inited" /\ r.mosaic = videos[p].mosaic
  BY <1>1, <1>2, <1>3 DEF Source
<1>5. DOMAIN videos' = DOMAIN videos /\ \A q \in DOMAIN videos : q # p => videos'[q] = videos[q]
  BY <1>1
<1>6. ASSUME NEW m \in DOMAIN mosaics
      PROVE  /\ Sound(mosaics'[m]) /\ mosaics'[m].obj = mosaics[m].obj
             /\ mosaics'[m].oldPos = mosaics[m].oldPos
             /\ \A i \in mosaics'[m].stale : i \in mosaics[m].stale \/ mosaics[m].oldPos[i] = p
  <2>1. PICK stale : stale = mosaics[m].stale \cup {i \in Slot(mosaics[m]) : mosaics[m].oldPos[i] = p}
    OBVIOUS
  <2>2. mosaics'[m] = [mosaics[m] EXCEPT !.stale = stale]
    BY <2>1 DEF NextFrame
  <2>3. Sound(mosaics[m]) /\ Typed(mosaics[m])
    BY DEF IInv, Good, Sound, Ready
  <2>4. mosaics[m].stale \subseteq Slot(mosaics[m])
    <3>1. PICK n \in Nat : Slot(mosaics[m]) = 0..(n - 1) /\ mosaics[m] \in MosaicOf(n)
      BY <2>3, Fields
    <3> QED
      BY <3>1 DEF MosaicOf
  <2>5. stale \subseteq Slot(mosaics[m])
    BY <2>1, <2>4
  <2>6. /\ Sound(mosaics'[m]) /\ mosaics'[m].obj = mosaics[m].obj
        /\ mosaics'[m].oldPos = mosaics[m].oldPos /\ mosaics'[m].stale = stale
    BY <2>2, <2>3, <2>5, Restaled
  <2> QED
    BY <2>1, <2>6
<1>7. Good(mosaics', videos')
  <2> SUFFICES ASSUME NEW m \in DOMAIN mosaics PROVE Said(mosaics'[m], videos')
    BY <1>1, <1>6 DEF Good
  <2>1. ASSUME NEW i \in mosaics'[m].stale, NEW q, q = mosaics'[m].oldPos[i]
        PROVE  /\ q \in DOMAIN videos' /\ videos'[q].state # "created"
               /\ videos'[q].state = "inited" => videos'[q].isChanged
    <3>1. q = mosaics[m].oldPos[i]
      BY <1>6, <2>1
    <3>2. CASE q = p
      BY <1>1, <1>3, <1>4, <1>5, <3>2
    <3>3. CASE q # p
      <4>1. i \in mosaics[m].stale
        BY <1>6, <3>1, <3>3
      <4> QED
        BY <1>5, <3>1, <3>3, <4>1 DEF IInv, Good, Said
    <3> QED
      BY <3>2, <3>3
  <2> QED
    BY <2>1 DEF Said
<1>8. Seen(mosaics', videos')
  <2>1. \A q \in DOMAIN videos : videos'[q] \in Source /\ videos'[q].mosaic = videos[q].mosaic
    BY <1>3, <1>4, <1>5 DEF IInv, Seen
  <2>2. DOMAIN mosaics' = DOMAIN mosaics /\ \A m \in DOMAIN mosaics : mosaics'[m].obj = mosaics[m].obj
    BY <1>1, <1>6
  <2> QED
    BY <1>5, <2>1, <2>2 DEF IInv, Seen
<1>9. Numbered' /\ Stepping'
  BY <1>1 DEF NextFrame, Signal, IInv, Numbered, Stepping
<1> QED
  BY <1>7, <1>8, <1>9 DEF IInv

\* A pass of the thread
LEMMA MixKeeps ==
    ASSUME IInv, Mix
    PROVE  IInv'
<1>0. PICK speaker \in [DOMAIN mosaics -> Part \cup {0}] :
         LET now == [m \in DOMAIN mosaics |-> WithSpeaker(mosaics[m], speaker[m])]
         IN  /\ \A m \in DOMAIN mosaics : speaker[m] \in Speakers(mosaics[m])
             /\ mosaics' = Painted(now)
             /\ videos' = [p \in DOMAIN videos |-> IF Taken(p, now) THEN [videos[p] EXCEPT !.isChanged = FALSE]
                                                  ELSE videos[p]]
  BY DEF Mix
<1>1. PICK now :
         /\ now = [m \in DOMAIN mosaics |-> WithSpeaker(mosaics[m], speaker[m])]
         /\ \A m \in DOMAIN mosaics : speaker[m] \in Speakers(mosaics[m])
         /\ mosaics' = Painted(now)
         /\ videos' = [p \in DOMAIN videos |-> IF Taken(p, now) THEN [videos[p] EXCEPT !.isChanged = FALSE]
                                              ELSE videos[p]]
  BY <1>0
<1>2. DOMAIN now = DOMAIN mosaics /\ DOMAIN mosaics' = DOMAIN mosaics
  BY <1>1 DEF Painted
<1>3. ASSUME NEW m \in DOMAIN mosaics
      PROVE  Sound(now[m]) /\ Kept(now[m], mosaics[m])
  <2>1. Sound(mosaics[m]) /\ now[m] = WithSpeaker(mosaics[m], speaker[m])
    BY <1>1 DEF IInv, Good
  <2> QED
    BY <1>1, <2>1, SpeakerSound
<1>4. ASSUME NEW m \in DOMAIN mosaics
      PROVE  /\ Sound(mosaics'[m]) /\ mosaics'[m].obj = mosaics[m].obj
             /\ \A i \in mosaics'[m].stale :
                   /\ i \in mosaics[m].stale /\ mosaics'[m].oldPos[i] = mosaics[m].oldPos[i]
                   /\ mosaics'[m].oldPos[i] = now[m].pos[i] /\ ~Updates(m, i, now)
  <2>1. Sound(now[m]) /\ m \in DOMAIN now /\ mosaics'[m] = Painted(now)[m]
    BY <1>1, <1>2, <1>3
  <2>2. PICK x : x = mosaics'[m]
    OBVIOUS
  <2>3. /\ Sound(x) /\ x.obj = now[m].obj
        /\ \A i \in x.stale : /\ i \in Slot(now[m]) /\ i \in now[m].stale
                              /\ x.oldPos[i] = now[m].oldPos[i] /\ x.oldPos[i] = now[m].pos[i]
                              /\ ~Updates(m, i, now)
    BY <2>1, <2>2, PaintedSound
  <2> QED
    BY <1>3, <2>2, <2>3 DEF Kept
<1>5. /\ DOMAIN videos' = DOMAIN videos
      /\ \A p \in DOMAIN videos : /\ videos'[p] \in Source /\ videos'[p].mosaic = videos[p].mosaic
                                  /\ videos'[p].state = videos[p].state
  <2>1. \A p \in DOMAIN videos : videos[p] \in Source
    BY DEF IInv, Seen
  <2> SUFFICES ASSUME NEW p \in DOMAIN videos
               PROVE  /\ videos'[p] \in Source /\ videos'[p].mosaic = videos[p].mosaic
                      /\ videos'[p].state = videos[p].state
    BY <1>1
  <2>2. PICK r : r = videos'[p]
    OBVIOUS
  <2>3. CASE Taken(p, now)
    <3>1. r = [videos[p] EXCEPT !.isChanged = FALSE]
      BY <1>1, <2>2, <2>3
    <3>2. r \in Source /\ r.mosaic = videos[p].mosaic /\ r.state = videos[p].state
      BY <2>1, <3>1 DEF Source
    <3> QED
      BY <2>2, <3>2
  <2>4. CASE ~Taken(p, now)
    BY <1>1, <2>1, <2>4
  <2> QED
    BY <2>3, <2>4
<1>6. Good(mosaics', videos')
  <2> SUFFICES ASSUME NEW m \in DOMAIN mosaics PROVE Said(mosaics'[m], videos')
    BY <1>2, <1>4 DEF Good
  <2> SUFFICES ASSUME NEW i \in mosaics'[m].stale, NEW q, q = mosaics'[m].oldPos[i]
               PROVE  q \in DOMAIN videos' /\ videos'[q].state # "created" /\ videos'[q].state # "inited"
    BY DEF Said
  <2>1. /\ i \in mosaics[m].stale /\ q = mosaics[m].oldPos[i] /\ q = now[m].pos[i] /\ ~Updates(m, i, now)
    BY <1>4
  <2>2. /\ q \in DOMAIN videos /\ videos[q].state # "created"
        /\ videos[q].state = "inited" => videos[q].isChanged
    BY <2>1 DEF IInv, Good, Said
  <2>3. q # 0
    BY <2>2, Parts DEF IInv, Seen
  <2>4. videos[q].state # "inited"
    BY <2>1, <2>2, <2>3 DEF Updates, IsChanged, HasSource
  <2> QED
    BY <1>5, <2>2, <2>4
<1>7. Seen(mosaics', videos')
  BY <1>2, <1>4, <1>5 DEF IInv, Seen
<1>8. Numbered' /\ Stepping'
  BY <1>2 DEF Mix, IInv, Numbered, Stepping
<1> QED
  BY <1>6, <1>7, <1>8 DEF IInv

\* The steps of the thread, and of End, that leave the mosaics or all of them
LEMMA PlainSteps ==
    ASSUME IInv, Deliver \/ Timeout \/ End \/ EndJoined
    PROVE  IInv'
<1>1. CASE Deliver \/ Timeout \/ End
  <2>1. mosaics' = mosaics /\ videos' = videos /\ maxMosaics' = maxMosaics /\ ending' = ending
    BY <1>1 DEF Deliver, Timeout, End
  <2>2. mixer' \in {"deliver", "wait", "mix", "off", "ended"}
    BY <1>1 DEF Deliver, Timeout, End, Signal, IInv, Stepping
  <2> QED
    BY <2>1, <2>2 DEF IInv, Numbered, Good, Seen, Stepping
<1>2. CASE EndJoined
  <2> DEFINE none == <<>>
  <2>1. mosaics' = none /\ videos' = none /\ DOMAIN none = {}
    BY <1>2 DEF EndJoined
  <2>2. mixer' = "ended" /\ maxMosaics' = maxMosaics /\ ending' = ending
    BY <1>2 DEF EndJoined
  <2> HIDE DEF none
  <2> QED
    BY <2>1, <2>2 DEF IInv, Numbered, Good, Seen, Stepping
<1> QED
  BY <1>1, <1>2

\* The invariant is inductive.
LEMMA IInvStep == IInv /\ [Next]_vars => IInv'
<1> SUFFICES ASSUME IInv, [Next]_vars PROVE IInv'
  OBVIOUS
<1>1. ASSUME NEW p \in Part, CreateMixer(p) \/ EndMixer(p) PROVE IInv'
  <2>1. 0 \in MosaicId
    BY MixerAssumption DEF MosaicId
  <2> QED
    BY <1>1, <2>1, SourceSteps
<1>2. ASSUME NEW p \in Part, NEW m \in MosaicId, InitMixer(p, m) \/ SetMixerMosaic(p, m) PROVE IInv'
  BY <1>2, SourceSteps
<1>3. ASSUME NEW p \in Part, NEW m \in MosaicId, AddMosaicParticipant(m, p) \/ RemoveMosaicParticipant(m, p)
      PROVE  IInv'
  BY <1>3, ParticipantSteps
<1>4. ASSUME NEW m \in MosaicId, NEW num \in 0..Max(NumSlots), NEW id \in SlotValue, SetSlotInMosaic(m, num, id)
      PROVE  IInv'
  BY <1>4, SlotSteps
<1>5. ASSUME NEW m \in MosaicId, NEW n \in NumSlots, ChangeMosaic(m, n) PROVE IInv'
  BY <1>5, CompositionSteps
<1>6. ASSUME NEW n \in NumSlots, CreateMosaic(n) PROVE IInv'
  BY <1>6, CompositionSteps
<1>7. CASE UNCHANGED vars
  BY <1>7 DEF vars, IInv, Numbered, Good, Seen, Stepping
<1>8. ASSUME NEW p \in Part, DeleteMixer(p) \/ NextFrame(p) PROVE IInv'
  BY <1>8, DeleteMixerKeeps, NextFrameKeeps
<1>9. ASSUME NEW m \in MosaicId, DeleteMosaic(m) PROVE IInv'
  BY <1>9, DeleteMosaicKeeps
<1>10. CASE EndMixerRemove
  BY <1>10, EndMixerRemoveKeeps
<1>11. CASE Deliver \/ Timeout \/ End \/ EndJoined
  BY <1>11, PlainSteps
<1>12. CASE Mix
  BY <1>12, MixKeeps
<1>13. CASE Control
  BY <1>1, <1>2, <1>3, <1>4, <1>5, <1>6, <1>8, <1>9, <1>10, <1>11, <1>13 DEF Control
<1>14. CASE MixerThread
  BY <1>11, <1>12, <1>14 DEF MixerThread
<1> QED
  BY <1>7, <1>8, <1>13, <1>14 DEF Next

\* videomixer.cpp, mosaic.cpp: whatever the calls, every mosaic has its positions
\* worked out for the participants, slots and speaker it has, sources have live
\* mosaics, and a slot that is out of date has a source that says so.
THEOREM Invariance == Spec => []IInv
<1>1. Init => IInv
  BY InitKeeps
<1> QED
  BY <1>1, IInvStep, PTL DEF Spec

-----------------------------------------------------------------------------
(* What the runs check.                                                    *)

\* mosaic.cpp: over any sequence of slots set, layouts, arrivals, departures and
\* new speakers, scores stay unique, isFixed is the number of slots of a
\* participant, one at most, and slots are set to participants of the mosaic only.
THEOREM MosaicsStayConsistent == Spec => []MosaicsAreConsistent
<1>1. IInv => MosaicsAreConsistent
  <2> SUFFICES ASSUME IInv PROVE MosaicsAreConsistent
    OBVIOUS
  <2>1. ASSUME NEW m \in DOMAIN mosaics, NEW x, x = mosaics[m]
        PROVE  Sound(x) /\ Ready(x) /\ Typed(x) /\ Scored(x) /\ Counted(x) /\ Placed(x)
    BY <2>1 DEF IInv, Good, Sound, Ready
  <2>2. ASSUME NEW m \in DOMAIN mosaics, NEW x, x = mosaics[m], NEW p \in DOMAIN x.score
        PROVE  LET own == {i \in Slot(x) : x.slots[i] = p}
               IN  /\ x.fixed[p] = Cardinality(own) /\ Cardinality(own) <= 1
                   /\ x.fixed[p] \in 0..Cardinality(Slot(x))
    <3> DEFINE own == {i \in Slot(x) : x.slots[i] = p}
    <3>1. p > 0
      BY <2>1, <2>2, Fields, Parts
    <3>2. \A i, j \in Slot(x) : x.slots[i] = p /\ x.slots[j] = p => i = j
      BY <2>1, <2>2, <3>1 DEF Counted
    <3>3. PICK slots, slot : slots = x.slots /\ slot = Slot(x)
      OBVIOUS
    <3>4. \A i, j \in slot : slots[i] = p /\ slots[j] = p => i = j
      BY <3>2, <3>3
    <3>5. Cardinality({i \in slot : slots[i] = p}) = IF \E i \in slot : slots[i] = p THEN 1 ELSE 0
      BY <3>4, Counting
    <3>6. Cardinality(own) = IF IsSet(x, p) THEN 1 ELSE 0
      BY <3>3, <3>5 DEF IsSet
    <3>7. x.fixed[p] = Cardinality(own) /\ Cardinality(own) \in {0, 1}
      BY <2>1, <2>2, <3>6 DEF Counted
    <3>8. IsFiniteSet(Slot(x)) /\ Cardinality(Slot(x)) \in Nat
      <4>1. PICK n \in Nat : Slot(x) = 0..(n - 1)
        BY <2>1, <2>2, Fields
      <4> QED
        BY <4>1, FS_Interval, FS_CardinalityType
    <3>9. Cardinality(own) <= Cardinality(Slot(x))
      BY <3>8, FS_Subset
    <3> HIDE DEF own
    <3> QED
      BY <3>7, <3>8, <3>9 DEF own
  <2>3. TypeOK
    <3>1. ASSUME NEW m \in DOMAIN mosaics
          PROVE  /\ mosaics[m].obj \in Object
                 /\ DOMAIN mosaics[m].score \subseteq Part
                 /\ mosaics[m].fixed \in [DOMAIN mosaics[m].score -> 0..Cardinality(Slot(mosaics[m]))]
                 /\ mosaics[m].vad \in Part \cup {0}
                 /\ \A i \in Slot(mosaics[m]) :
                       /\ mosaics[m].slots[i] \in SlotValue
                       /\ mosaics[m].pos[i] \in Part \cup {0}
                       /\ mosaics[m].image[i] \in Part \cup {0}
      <4>1. PICK x : x = mosaics[m]
        OBVIOUS
      <4>2. Typed(x)
        BY <2>1, <4>1
      <4>3. x.fixed \in [DOMAIN x.score -> {0, 1}]
        BY <4>2, Parted
      <4>4. \A p \in DOMAIN x.score : x.fixed[p] \in 0..Cardinality(Slot(x))
        BY <2>2, <4>1
      <4>5. x.fixed \in [DOMAIN x.score -> 0..Cardinality(Slot(x))]
        BY <4>3, <4>4
      <4> QED
        BY <4>1, <4>2, <4>5, Fields
    <3>2. \A p \in DOMAIN videos : videos[p].mosaic \in Object \cup {Null}
      BY DEF IInv, Seen, Source
    <3> QED
      BY <3>1, <3>2 DEF TypeOK, IInv, Stepping
  <2>4. ScoresAreUnique
    BY <2>1 DEF ScoresAreUnique, LiveMosaics, Scored
  <2>5. FixedCountsSlots
    <3> SUFFICES ASSUME NEW m \in DOMAIN mosaics, NEW x, x = mosaics[m]
                 PROVE  /\ \A p \in DOMAIN x.fixed :
                              LET own == {i \in Slot(x) : x.slots[i] = p}
                              IN  x.fixed[p] = Cardinality(own) /\ Cardinality(own) <= 1
                        /\ \A i \in Slot(x) : x.slots[i] > 0 => HasParticipant(x, x.slots[i])
      BY DEF FixedCountsSlots, LiveMosaics
    <3>1. DOMAIN x.fixed = DOMAIN x.score
      BY <2>1 DEF Typed
    <3>2. \A i \in Slot(x) : x.slots[i] > 0 => HasParticipant(x, x.slots[i])
      BY <2>1 DEF Placed
    <3> QED
      BY <2>2, <3>1, <3>2
  <2> QED
    BY <2>3, <2>4, <2>5 DEF MosaicsAreConsistent
<1> QED
  BY <1>1, Invariance, PTL

\* mosaic.cpp CalculatePositions, SetVADParticipant: nobody is shown twice, the
\* free slots go by score and nobody is left out of them for a lower score, and
\* the speaker is one of the mosaic whom a slot shows.
THEOREM TheRightOnesAreShown == Spec => []SlotsShowTheRightOnes
<1>1. IInv => SlotsShowTheRightOnes
  <2> SUFFICES ASSUME IInv PROVE SlotsShowTheRightOnes
    OBVIOUS
  <2>1. ASSUME NEW m \in DOMAIN mosaics, NEW x, x = mosaics[m]
        PROVE  Spoken(x) /\ Placed(x)
    BY <2>1 DEF IInv, Good, Sound, Ready
  <2>2. ASSUME NEW m \in DOMAIN mosaics, NEW x, x = mosaics[m]
        PROVE  LET free  == {i \in Slot(x) : x.slots[i] = SlotFree}
                   shown == {x.pos[i] : i \in free} \ {0}
                   waits == {p \in DOMAIN x.score : /\ p \notin shown
                                                   /\ \A i \in Slot(x) : x.slots[i] # p
                                                   /\ ~(p = x.vad /\ x.hide)}
               IN  /\ \A i, j \in Slot(x) :
                         x.pos[i] = x.pos[j] /\ x.pos[i] # 0 /\ x.slots[i] # SlotVAD /\ x.slots[j] # SlotVAD => i = j
                   /\ \A i, j \in free : i < j /\ x.pos[j] # 0 => x.pos[i] # 0 /\ x.score[x.pos[i]] > x.score[x.pos[j]]
                   /\ \A p \in waits, i \in free : x.pos[i] # 0 /\ x.score[x.pos[i]] > x.score[p]
    <3> DEFINE free  == {i \in Slot(x) : x.slots[i] = SlotFree}
               shown == {x.pos[i] : i \in free} \ {0}
               waits == {p \in DOMAIN x.score : /\ p \notin shown
                                               /\ \A i \in Slot(x) : x.slots[i] # p
                                               /\ ~(p = x.vad /\ x.hide)}
    <3>1. Once(x) /\ Ordered(x) /\ NobodyLeftOut(x) /\ Typed(x)
      BY <2>1, <2>2 DEF Placed, IInv, Good, Sound, Ready
    <3>2. \A i : i \in free <=> IsOpen(x, i)
      BY DEF IsOpen
    <3>3. ASSUME NEW p \in waits, NEW i \in free
          PROVE  x.pos[i] # 0 /\ x.score[x.pos[i]] > x.score[p]
      <4>1. p # 0 /\ p \in DOMAIN x.score
        BY <3>1, Fields, Parts
      <4>2. Waits(x, p)
        BY <4>1 DEF Waits, IsOpen
      <4> QED
        BY <3>1, <3>2, <4>1, <4>2 DEF NobodyLeftOut
    <3>4. \A i, j \in Slot(x) :
             x.pos[i] = x.pos[j] /\ x.pos[i] # 0 /\ x.slots[i] # SlotVAD /\ x.slots[j] # SlotVAD => i = j
      BY <3>1 DEF Once
    <3>5. \A i, j \in free : i < j /\ x.pos[j] # 0 => x.pos[i] # 0 /\ x.score[x.pos[i]] > x.score[x.pos[j]]
      BY <3>1, <3>2 DEF Ordered, IsOpen
    <3> QED
      BY <3>3, <3>4, <3>5
  <2>3. PositionsAreFair
    BY <2>2 DEF PositionsAreFair, LiveMosaics
  <2>4. SpeakerIsShown
    BY <2>1 DEF SpeakerIsShown, LiveMosaics, Spoken, Placed, IsVADShown
  <2> QED
    BY <2>3, <2>4 DEF SlotsShowTheRightOnes
<1> QED
  BY <1>1, Invariance, PTL

\* videomixer.cpp SetCompositionType and DeleteMosaic: the thread sends a source a
\* mosaic that is still there, or none.
THEOREM SourcesSeeLive == Spec => []SourcesSeeLiveMosaics
<1>1. IInv => SourcesSeeLiveMosaics
  BY DEF IInv, Seen, SourcesSeeLiveMosaics, Objects
<1> QED
  BY <1>1, Invariance, PTL

\* videomixer.cpp MixVideo, pipevideooutput.cpp IsChanged and GetFrame: a slot keeps
\* nobody else's picture, and shows the last one of its participant, or the output
\* says to the next pass that it has changed.
THEOREM PicturesStayCurrent == Spec => []PicturesAreCurrent
<1>1. IInv => PicturesAreCurrent
  <2> SUFFICES ASSUME IInv PROVE PicturesAreCurrent
    OBVIOUS
  <2>1. NobodyElsesPicture
    BY DEF NobodyElsesPicture, LiveMosaics, IInv, Good, Sound, Ready, Pictured
  <2>2. NoPictureForgotten
    BY DEF NoPictureForgotten, LiveMosaics, IInv, Good, Said
  <2> QED
    BY <2>1, <2>2 DEF PicturesAreCurrent
<1> QED
  BY <1>1, Invariance, PTL

-----------------------------------------------------------------------------
(* The lock.  Its inductive invariant                                      *)

\* Each mutex is held by exactly the thread whose place in the code says so.
MutexesHeld ==
    /\ \A t \in Thread : lock = t <=> pc[t] \in HoldsLock
    /\ \A t \in Thread : mutex = t <=> pc[t] \in HoldsMutex

\* cont counts the users.
ContCountsUsers == cont = Cardinality(Users)

\* An owner found cont at 0, and nobody has become a user since.
OwnedIsUnused == Owners # {} => Users = {}

UseInv == UseTypeOK /\ MutexesHeld /\ ContCountsUsers /\ OwnedIsUnused

-----------------------------------------------------------------------------

\* The set that cont counts is finite.
LEMMA UsersFinite == IsFiniteSet(Users) /\ IsFiniteSet(Users)'
<1>1. Users \subseteq Thread /\ Users' \subseteq Thread
  BY DEF Users, At
<1> QED  BY <1>1, FS_Subset, UseLockAssumption

\* Every step but the two on cont leaves the set of users alone.
LEMMA CountPreserved ==
  ASSUME UseInv, UNCHANGED cont, Users' = Users
  PROVE  ContCountsUsers'
BY DEF UseInv, ContCountsUsers

\* Nobody has called the lock yet.
LEMMA InitUseInv == UseInit => UseInv
<1> SUFFICES ASSUME UseInit PROVE UseInv  OBVIOUS
<1>1. UseTypeOK
  BY UseLockAssumption DEF UseInit, UseTypeOK, PC
<1>2. MutexesHeld
  BY UseLockAssumption DEF UseInit, MutexesHeld, HoldsLock, HoldsMutex
<1>3. Users = {} /\ Owners = {}
  BY DEF UseInit, Users, Owners, At
<1>4. ContCountsUsers
  BY <1>3, FS_EmptySet DEF UseInit, ContCountsUsers
<1> QED  BY <1>1, <1>2, <1>3, <1>4 DEF UseInv, OwnedIsUnused

\* DecUse is called by a user, so that cont is not 0 when it is decremented.
LEMMA NextUseTypeOK == UseTypeOK /\ MutexesHeld /\ ContCountsUsers /\ [UseNext]_useVars => UseTypeOK'
<1> SUFFICES ASSUME UseTypeOK, MutexesHeld, ContCountsUsers, [UseNext]_useVars PROVE UseTypeOK'  OBVIOUS
<1> USE UseLockAssumption DEF UseTypeOK, PC
<1>1. CASE UNCHANGED useVars  BY <1>1 DEF useVars
<1>2. ASSUME NEW t \in Thread, Enter(t) \/ Step(t) \/ SpuriousWakeup(t) PROVE UseTypeOK'
  <2>1. CASE Enter(t)  BY <2>1 DEF Enter, Goto
  <2>2. CASE IncUse(t)
    BY <2>2 DEF IncUse, IncUseLock, IncUseMutex, IncUseCont, IncUseUnlock, LockLock, LockMutex, UnlockLock, Goto
  <2>3. CASE DecUseCont(t)
    <3>1. t \in Users  BY <2>3 DEF DecUseCont, Goto, Users, At
    <3>2. cont # 0  BY <3>1, UsersFinite, FS_EmptySet DEF ContCountsUsers
    <3> QED  BY <2>3, <3>2 DEF DecUseCont, Goto
  <2>4. CASE DecUseMutex(t)  BY <2>4 DEF DecUseMutex, LockMutex, Goto
  <2>5. CASE DecUseSignal(t)  BY <2>5 DEF DecUseSignal
  <2>6. CASE WaitUnusedAndLock(t)
    BY <2>6 DEF WaitUnusedAndLock, WaitLock, WaitMutex, WaitTest, WaitWoken, LockLock, LockMutex, Goto
  <2>7. CASE Unlock(t)  BY <2>7 DEF Unlock, UnlockMutex, UnlockUnlock, UnlockLock, Goto
  <2>8. CASE SpuriousWakeup(t)  BY <2>8 DEF SpuriousWakeup, Goto
  <2> QED  BY <1>2, <2>1, <2>2, <2>3, <2>4, <2>5, <2>6, <2>7, <2>8 DEF Step, DecUse
<1> QED  BY <1>1, <1>2 DEF UseNext

\* A mutex goes with the place of a thread in the code.
LEMMA NextMutexesHeld == UseTypeOK /\ MutexesHeld /\ [UseNext]_useVars => MutexesHeld'
<1> SUFFICES ASSUME UseTypeOK, MutexesHeld, [UseNext]_useVars PROVE MutexesHeld'  OBVIOUS
<1> USE UseLockAssumption DEF UseTypeOK, MutexesHeld, HoldsLock, HoldsMutex
<1>1. CASE UNCHANGED useVars  BY <1>1 DEF useVars
<1>2. ASSUME NEW t \in Thread, Enter(t) \/ Step(t) \/ SpuriousWakeup(t) PROVE MutexesHeld'
  <2>1. CASE Enter(t)  BY <2>1 DEF Enter, Goto
  <2>2. CASE IncUse(t)
    BY <2>2 DEF IncUse, IncUseLock, IncUseMutex, IncUseCont, IncUseUnlock, LockLock, LockMutex, UnlockLock, Goto
  <2>3. CASE DecUseCont(t)  BY <2>3 DEF DecUseCont, Goto
  <2>4. CASE DecUseMutex(t)  BY <2>4 DEF DecUseMutex, LockMutex, Goto
  <2>5. CASE DecUseSignal(t)  BY <2>5 DEF DecUseSignal
  <2>6. CASE WaitUnusedAndLock(t)
    BY <2>6 DEF WaitUnusedAndLock, WaitLock, WaitMutex, WaitTest, WaitWoken, LockLock, LockMutex, Goto
  <2>7. CASE Unlock(t)  BY <2>7 DEF Unlock, UnlockMutex, UnlockUnlock, UnlockLock, Goto
  <2>8. CASE SpuriousWakeup(t)  BY <2>8 DEF SpuriousWakeup, Goto
  <2> QED  BY <1>2, <2>1, <2>2, <2>3, <2>4, <2>5, <2>6, <2>7, <2>8 DEF Step, DecUse
<1> QED  BY <1>1, <1>2 DEF UseNext

\* cont goes up and down with the set of users.
LEMMA NextContCountsUsers == UseInv /\ [UseNext]_useVars => ContCountsUsers'
<1> SUFFICES ASSUME UseInv, [UseNext]_useVars PROVE ContCountsUsers'  OBVIOUS
<1>0. UseTypeOK  BY DEF UseInv
<1>1. CASE UNCHANGED useVars
  BY <1>1, CountPreserved DEF useVars, Users, At
<1>2. ASSUME NEW t \in Thread, Enter(t) \/ Step(t) \/ SpuriousWakeup(t) PROVE ContCountsUsers'
  <2>1. CASE IncUseCont(t)
    <3>1. t \notin Users /\ Users' = Users \cup {t}
      BY <1>0, <2>1 DEF UseTypeOK, IncUseCont, Goto, Users, At
    <3>2. Cardinality(Users') = Cardinality(Users) + 1
      BY <3>1, UsersFinite, FS_AddElement
    <3> QED  BY <2>1, <3>2 DEF UseInv, ContCountsUsers, IncUseCont
  <2>2. CASE DecUseCont(t)
    <3>1. t \in Users /\ Users' = Users \ {t}
      BY <1>0, <2>2 DEF UseTypeOK, DecUseCont, Goto, Users, At
    <3>2. Cardinality(Users') = Cardinality(Users) - 1
      BY <3>1, UsersFinite, FS_RemoveElement
    <3> QED  BY <2>2, <3>2 DEF UseInv, ContCountsUsers, DecUseCont
  <2>3. ASSUME ~IncUseCont(t), ~DecUseCont(t) PROVE UNCHANGED cont /\ Users' = Users
    <3> USE <1>0, <2>3 DEF UseTypeOK, Users, At
    <3>1. CASE Enter(t)  BY <3>1 DEF Enter, Goto
    <3>2. CASE IncUse(t)
      BY <3>2 DEF IncUse, IncUseLock, IncUseMutex, IncUseUnlock, LockLock, LockMutex, UnlockLock, Goto
    <3>3. CASE DecUseMutex(t)  BY <3>3 DEF DecUseMutex, LockMutex, Goto
    <3>4. CASE DecUseSignal(t)  BY <3>4 DEF DecUseSignal
    <3>5. CASE WaitUnusedAndLock(t)
      BY <3>5 DEF WaitUnusedAndLock, WaitLock, WaitMutex, WaitTest, WaitWoken, LockLock, LockMutex, Goto
    <3>6. CASE Unlock(t)  BY <3>6 DEF Unlock, UnlockMutex, UnlockUnlock, UnlockLock, Goto
    <3>7. CASE SpuriousWakeup(t)  BY <3>7 DEF SpuriousWakeup, Goto
    <3> QED  BY <1>2, <3>1, <3>2, <3>3, <3>4, <3>5, <3>6, <3>7 DEF Step, DecUse
  <2> QED  BY <2>1, <2>2, <2>3, CountPreserved
<1> QED  BY <1>1, <1>2 DEF UseNext

\* A thread that becomes a user holds "lock", and so does an owner.
LEMMA NextOwnedIsUnused == UseInv /\ [UseNext]_useVars => OwnedIsUnused'
<1> SUFFICES ASSUME UseInv, [UseNext]_useVars PROVE OwnedIsUnused'  OBVIOUS
<1> USE DEF OwnedIsUnused
<1>0. UseTypeOK /\ MutexesHeld /\ OwnedIsUnused  BY DEF UseInv
<1>1. CASE UNCHANGED useVars  BY <1>0, <1>1 DEF useVars, Users, Owners, At
<1>2. ASSUME NEW t \in Thread, Enter(t) \/ Step(t) \/ SpuriousWakeup(t) PROVE OwnedIsUnused'
  <2>1. CASE WaitTest(t)
    <3>1. CASE cont = 0
      <4>1. Users = {}  BY <3>1, UsersFinite, FS_EmptySet DEF UseInv, ContCountsUsers
      <4>2. Users' = Users  BY <1>0, <2>1, <3>1 DEF UseTypeOK, WaitTest, Goto, Users, At
      <4> QED  BY <4>1, <4>2
    <3>2. CASE cont # 0
      BY <1>0, <2>1, <3>2 DEF UseTypeOK, WaitTest, Goto, Users, Owners, At
    <3> QED  BY <3>1, <3>2
  <2>2. CASE IncUseCont(t)
    <3>1. Owners = {}
      BY <1>0, <2>2 DEF MutexesHeld, HoldsLock, IncUseCont, Goto, Owners, At
    <3>2. Owners' = {}
      BY <1>0, <2>2, <3>1 DEF UseTypeOK, IncUseCont, Goto, Owners, At
    <3> QED  BY <3>2
  <2>3. ASSUME ~WaitTest(t), ~IncUseCont(t) PROVE Owners' \subseteq Owners /\ Users' \subseteq Users
    <3> USE <1>0, <2>3 DEF UseTypeOK, Users, Owners, At
    <3>1. CASE Enter(t)  BY <3>1 DEF Enter, Goto
    <3>2. CASE IncUse(t)
      BY <3>2 DEF IncUse, IncUseLock, IncUseMutex, IncUseUnlock, LockLock, LockMutex, UnlockLock, Goto
    <3>3. CASE DecUse(t)  BY <3>3 DEF DecUse, DecUseMutex, DecUseCont, DecUseSignal, LockMutex, Goto
    <3>4. CASE WaitUnusedAndLock(t)
      BY <3>4 DEF WaitUnusedAndLock, WaitLock, WaitMutex, WaitWoken, LockLock, LockMutex, Goto
    <3>5. CASE Unlock(t)  BY <3>5 DEF Unlock, UnlockMutex, UnlockUnlock, UnlockLock, Goto
    <3>6. CASE SpuriousWakeup(t)  BY <3>6 DEF SpuriousWakeup, Goto
    <3> QED  BY <1>2, <3>1, <3>2, <3>3, <3>4, <3>5, <3>6 DEF Step
  <2> QED  BY <1>0, <2>1, <2>2, <2>3
<1> QED  BY <1>1, <1>2 DEF UseNext

\* The invariant of the lock is inductive.
LEMMA NextUseInv == UseInv /\ [UseNext]_useVars => UseInv'
BY NextUseTypeOK, NextMutexesHeld, NextContCountsUsers, NextOwnedIsUnused DEF UseInv

\* Hence it holds however many threads call.
LEMMA UseInvariant == UseSpec => []UseInv
BY InitUseInv, NextUseInv, PTL DEF UseSpec

-----------------------------------------------------------------------------

\* Every state of the lock has its type: in particular cont, an int that
\* DecUse decrements without a test, never goes below 0.
THEOREM LockTypeCorrect == UseSpec => []UseTypeOK
BY UseInvariant, PTL DEF UseInv

\* use.h: between WaitUnusedAndLock and Unlock a thread has the object for
\* itself, however many threads call IncUse or WaitUnusedAndLock meanwhile.
THEOREM OwnerExcludes == UseSpec => []OwnerExcludesUsers
<1>1. UseInv => OwnerExcludesUsers
  BY DEF UseInv, MutexesHeld, OwnedIsUnused, OwnerExcludesUsers, HoldsLock, Owners, At
<1> QED  BY <1>1, UseInvariant, PTL

\* use.h: DecUse may signal after it has released mutex, because the waiting
\* thread tests cont and goes to sleep under mutex.
THEOREM WakeupNotLost == UseSpec => []NoLostWakeup
<1>1. UseInit => NoLostWakeup
  BY DEF UseInit, NoLostWakeup, At
<1>2. UseTypeOK /\ NoLostWakeup /\ [UseNext]_useVars => NoLostWakeup'
  <2> SUFFICES ASSUME UseTypeOK, NoLostWakeup, [UseNext]_useVars PROVE NoLostWakeup'  OBVIOUS
  <2> USE DEF UseTypeOK, NoLostWakeup, At
  <2>1. CASE UNCHANGED useVars  BY <2>1 DEF useVars
  <2>2. ASSUME NEW t \in Thread, Enter(t) \/ Step(t) \/ SpuriousWakeup(t) PROVE NoLostWakeup'
    <3>1. CASE Enter(t)  BY <3>1 DEF Enter, Goto
    <3>2. CASE IncUseCont(t)  BY <3>2 DEF IncUseCont, Goto
    <3>3. CASE IncUseLock(t) \/ IncUseMutex(t) \/ IncUseUnlock(t)
      BY <3>3 DEF IncUseLock, IncUseMutex, IncUseUnlock, LockLock, LockMutex, UnlockLock, Goto
    <3>4. CASE DecUseMutex(t)  BY <3>4 DEF DecUseMutex, LockMutex, Goto
    <3>5. CASE DecUseCont(t)  BY <3>5 DEF DecUseCont, Goto
    <3>6. CASE DecUseSignal(t)  BY <3>6 DEF DecUseSignal
    <3>7. CASE WaitTest(t)  BY <3>7 DEF WaitTest, Goto
    <3>8. CASE WaitLock(t) \/ WaitMutex(t) \/ WaitWoken(t)
      BY <3>8 DEF WaitLock, WaitMutex, WaitWoken, LockLock, LockMutex, Goto
    <3>9. CASE Unlock(t)  BY <3>9 DEF Unlock, UnlockMutex, UnlockUnlock, UnlockLock, Goto
    <3>10. CASE SpuriousWakeup(t)  BY <3>10 DEF SpuriousWakeup, Goto
    <3> QED  BY <2>2, <3>1, <3>2, <3>3, <3>4, <3>5, <3>6, <3>7, <3>8, <3>9, <3>10
             DEF Step, IncUse, DecUse, WaitUnusedAndLock
  <2> QED  BY <2>1, <2>2 DEF UseNext
<1> QED  BY <1>1, <1>2, LockTypeCorrect, PTL DEF UseSpec

-----------------------------------------------------------------------------
(* use.h implements the readers-writer lock                                *)

\* How the operators of RWLock change a lock value.
LEMMA LockValues ==
  ASSUME NEW u, NEW c, NEW o, NEW t, NEW l, l = [users |-> u, claim |-> c, owner |-> o]
  PROVE  /\ l.users = u /\ l.claim = c /\ l.owner = o
         /\ RW!IncUse(l, t) = [users |-> u \cup {t}, claim |-> c, owner |-> o]
         /\ RW!DecUse(l, t) = [users |-> u \ {t}, claim |-> c, owner |-> o]
         /\ RW!Claimed(l, t) = [users |-> u, claim |-> t, owner |-> o]
         /\ RW!Owned(l, t) = [users |-> u, claim |-> c, owner |-> t]
         /\ RW!Unlock(l) = [users |-> u, claim |-> NoThread, owner |-> NoThread]
<1>1. l.users = u /\ l.claim = c /\ l.owner = o  OBVIOUS
<1>2. RW!IncUse(l, t) = [users |-> u \cup {t}, claim |-> c, owner |-> o]  BY <1>1 DEF RW!IncUse
<1>3. RW!DecUse(l, t) = [users |-> u \ {t}, claim |-> c, owner |-> o]  BY <1>1 DEF RW!DecUse
<1>4. RW!Claimed(l, t) = [users |-> u, claim |-> t, owner |-> o]  BY DEF RW!Claimed
<1>5. RW!Owned(l, t) = [users |-> u, claim |-> c, owner |-> t]  BY DEF RW!Owned
<1>6. RW!Unlock(l) = [users |-> u, claim |-> NoThread, owner |-> NoThread]  BY <1>1 DEF RW!Unlock
<1> QED  BY <1>1, <1>2, <1>3, <1>4, <1>5, <1>6

\* The parts of RWState determine it, before and after a step.
LEMMA StateUnchanged ==
  ASSUME Users' = Users, Claimant' = Claimant, Owner' = Owner
  PROVE  UNCHANGED RWState
BY DEF RWState

\* The calls that only take or release a mutex, or change nothing a caller of
\* the lock can see, leave its state as it is.
LEMMA HiddenSteps ==
  ASSUME UseInv, NEW t \in Thread,
         \/ Enter(t) \/ IncUseLock(t) \/ IncUseMutex(t) \/ IncUseUnlock(t)
         \/ DecUseMutex(t) \/ DecUseSignal(t) \/ WaitMutex(t) \/ WaitWoken(t)
         \/ UnlockMutex(t) \/ SpuriousWakeup(t) \/ (WaitTest(t) /\ cont # 0)
  PROVE  UNCHANGED RWState
<1>0. UseTypeOK /\ MutexesHeld /\ NoThread \notin Thread  BY UseLockAssumption DEF UseInv
<1> USE <1>0 DEF UseTypeOK, MutexesHeld, HoldsLock, Users, Owner, Owners, Claimant, Claims, At
<1>1. CASE Enter(t)
  <2>1. Users' = Users /\ Claimant' = Claimant /\ Owner' = Owner  BY <1>1 DEF Enter, Goto
  <2> QED  BY <2>1, StateUnchanged
<1>2. CASE IncUseLock(t)
  <2>1. Users' = Users /\ Claimant' = Claimant /\ Owner' = Owner  BY <1>2 DEF IncUseLock, LockLock, Goto
  <2> QED  BY <2>1, StateUnchanged
<1>3. CASE IncUseMutex(t)
  <2>1. Users' = Users /\ Claimant' = Claimant /\ Owner' = Owner  BY <1>3 DEF IncUseMutex, LockMutex, Goto
  <2> QED  BY <2>1, StateUnchanged
<1>4. CASE IncUseUnlock(t)
  <2>1. Users' = Users /\ Claimant' = Claimant /\ Owner' = Owner  BY <1>4 DEF IncUseUnlock, UnlockLock, Goto
  <2> QED  BY <2>1, StateUnchanged
<1>5. CASE DecUseMutex(t)
  <2>1. Users' = Users /\ Claimant' = Claimant /\ Owner' = Owner  BY <1>5 DEF DecUseMutex, LockMutex, Goto
  <2> QED  BY <2>1, StateUnchanged
<1>6. CASE DecUseSignal(t)
  <2>1. Users' = Users /\ Claimant' = Claimant /\ Owner' = Owner  BY <1>6 DEF DecUseSignal
  <2> QED  BY <2>1, StateUnchanged
<1>7. CASE WaitMutex(t)
  <2>1. Users' = Users /\ Claimant' = Claimant /\ Owner' = Owner  BY <1>7 DEF WaitMutex, LockMutex, Goto
  <2> QED  BY <2>1, StateUnchanged
<1>8. CASE WaitWoken(t)
  <2>1. Users' = Users /\ Claimant' = Claimant /\ Owner' = Owner  BY <1>8 DEF WaitWoken, LockMutex, Goto
  <2> QED  BY <2>1, StateUnchanged
<1>9. CASE UnlockMutex(t)
  <2>1. Users' = Users /\ Claimant' = Claimant /\ Owner' = Owner  BY <1>9 DEF UnlockMutex, Goto
  <2> QED  BY <2>1, StateUnchanged
<1>10. CASE SpuriousWakeup(t)
  <2>1. Users' = Users /\ Claimant' = Claimant /\ Owner' = Owner  BY <1>10 DEF SpuriousWakeup, Goto
  <2> QED  BY <2>1, StateUnchanged
<1>11. CASE WaitTest(t) /\ cont # 0
  <2>1. Users' = Users /\ Claimant' = Claimant /\ Owner' = Owner  BY <1>11 DEF WaitTest, Goto
  <2> QED  BY <2>1, StateUnchanged
<1> QED  BY <1>1, <1>2, <1>3, <1>4, <1>5, <1>6, <1>7, <1>8, <1>9, <1>10, <1>11

\* use.h implements RWLock: incrementing cont is its Use step, decrementing it
\* Leave, taking "lock" in WaitUnusedAndLock Claim, finding cont at 0 Own, and
\* the last call of Unlock Release; every other call changes nothing.
THEOREM UseRefinement == UseSpec => ImplementsRWLock
<1>1. UseInit => RW!Init
  BY UseLockAssumption DEF UseInit, RW!Init, RW!Unlocked, RWState, Users, Owner, Owners, Claimant, Claims, At
<1>2. UseInv /\ [UseNext]_useVars => [RW!Next]_RWState
  <2> SUFFICES ASSUME UseInv, [UseNext]_useVars PROVE [RW!Next]_RWState  OBVIOUS
  <2>0. UseTypeOK /\ MutexesHeld /\ OwnedIsUnused /\ NoThread \notin Thread
    BY UseLockAssumption DEF UseInv
  <2>1. CASE UNCHANGED useVars
    BY <2>1 DEF useVars, RWState, Users, Owner, Owners, Claimant, At
  <2>2. ASSUME NEW t \in Thread, Enter(t) \/ Step(t) \/ SpuriousWakeup(t)
        PROVE  [RW!Next]_RWState
    <3>1. CASE IncUseCont(t)
      <4>1. /\ t \notin Users /\ Users' = Users \cup {t}
            /\ Claimant = NoThread /\ Claimant' = NoThread /\ Owner' = Owner
        BY <2>0, <3>1 DEF UseTypeOK, MutexesHeld, HoldsLock, IncUseCont, Goto, Users, Owner, Owners, Claimant, Claims, At
      <4>2. RWState.users = Users /\ RWState.claim = Claimant /\ RWState.owner = Owner
        BY DEF RWState
      <4>3. RW!IncUse(RWState, t) = [users |-> Users \cup {t}, claim |-> Claimant, owner |-> Owner]
        BY LockValues DEF RWState
      <4>4. RWState' = [users |-> Users \cup {t}, claim |-> Claimant, owner |-> Owner]
        BY <4>1 DEF RWState
      <4>5. RW!Use(t)
        BY <4>1, <4>2, <4>3, <4>4 DEF RW!Use, RW!CanIncUse
      <4> QED  BY <4>5 DEF RW!Next
    <3>2. CASE DecUseCont(t)
      <4>1. /\ t \in Users /\ Users' = Users \ {t}
            /\ Claimant' = Claimant /\ Owner' = Owner
        BY <2>0, <3>2 DEF UseTypeOK, DecUseCont, Goto, Users, Owner, Owners, Claimant, Claims, At
      <4>2. RWState.users = Users /\ RWState.claim = Claimant /\ RWState.owner = Owner
        BY DEF RWState
      <4>3. RW!DecUse(RWState, t) = [users |-> Users \ {t}, claim |-> Claimant, owner |-> Owner]
        BY LockValues DEF RWState
      <4>4. RWState' = [users |-> Users \ {t}, claim |-> Claimant, owner |-> Owner]
        BY <4>1 DEF RWState
      <4>5. RW!Leave(t)
        BY <4>1, <4>2, <4>3, <4>4 DEF RW!Leave
      <4> QED  BY <4>5 DEF RW!Next
    <3>3. CASE WaitLock(t)
      <4>1. /\ t \notin Users /\ Users' = Users
            /\ Claimant = NoThread /\ Claimant' = t /\ Owner' = Owner
        BY <2>0, <3>3 DEF UseTypeOK, WaitLock, LockLock, Goto, Users, Owner, Owners, Claimant, Claims, At
      <4>2. RWState.users = Users /\ RWState.claim = Claimant /\ RWState.owner = Owner
        BY DEF RWState
      <4>3. RW!Claimed(RWState, t) = [users |-> Users, claim |-> t, owner |-> Owner]
        BY LockValues DEF RWState
      <4>4. RWState' = [users |-> Users, claim |-> t, owner |-> Owner]
        BY <4>1 DEF RWState
      <4>5. RW!Claim(t)
        BY <4>1, <4>2, <4>3, <4>4 DEF RW!Claim, RW!CanClaim
      <4> QED  BY <4>5 DEF RW!Next
    <3>4. CASE WaitTest(t) /\ cont = 0
      <4>1. Users = {}
        BY <3>4, UsersFinite, FS_EmptySet DEF UseInv, ContCountsUsers
      <4>2. /\ Users' = Users /\ Claimant = t /\ Claimant' = t
            /\ Owner = NoThread /\ Owner' = t
        BY <2>0, <3>4 DEF UseTypeOK, MutexesHeld, HoldsLock, WaitTest, Goto, Users, Owner, Owners, Claimant, Claims, At
      <4>3. RWState.users = Users /\ RWState.claim = Claimant /\ RWState.owner = Owner
        BY DEF RWState
      <4>4. RW!Owned(RWState, t) = [users |-> Users, claim |-> Claimant, owner |-> t]
        BY LockValues DEF RWState
      <4>5. RWState' = [users |-> Users, claim |-> Claimant, owner |-> t]
        BY <4>1, <4>2 DEF RWState
      <4>6. RW!Own(t)
        BY <2>0, <4>1, <4>2, <4>3, <4>4, <4>5 DEF RW!Own, RW!IsUnused
      <4> QED  BY <4>6 DEF RW!Next
    <3>5. CASE UnlockUnlock(t)
      <4>1. /\ Users' = Users /\ Claimant = t /\ Claimant' = NoThread
            /\ Owner = t /\ Owner' = NoThread
        BY <2>0, <3>5 DEF UseTypeOK, MutexesHeld, HoldsLock, UnlockUnlock, UnlockLock, Goto, Users, Owner, Owners, Claimant, Claims, At
      <4>2. RWState.users = Users /\ RWState.claim = Claimant /\ RWState.owner = Owner
        BY DEF RWState
      <4>3. RW!Unlock(RWState) = [users |-> Users, claim |-> NoThread, owner |-> NoThread]
        BY LockValues DEF RWState
      <4>4. RWState' = [users |-> Users, claim |-> NoThread, owner |-> NoThread]
        BY <4>1 DEF RWState
      <4>5. RW!Release(t)
        BY <4>1, <4>2, <4>3, <4>4 DEF RW!Release
      <4> QED  BY <4>5 DEF RW!Next
    <3> QED  BY <2>2, <3>1, <3>2, <3>3, <3>4, <3>5, HiddenSteps
             DEF Step, IncUse, DecUse, WaitUnusedAndLock, Unlock
  <2> QED  BY <2>1, <2>2 DEF UseNext
<1> QED  BY <1>1, <1>2, UseInvariant, PTL DEF UseSpec, ImplementsRWLock, RW!Spec

=============================================================================
