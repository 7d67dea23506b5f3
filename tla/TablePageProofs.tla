--------------------------- MODULE TablePageProofs ---------------------------
(***************************************************************************)
(* Proof that a table page keeps its records apart, its list of deleted    *)
(* slots exact and its space usable, and that it implements a map from     *)
(* slots to records, for every page, slot and tuple size, when no other    *)
(* call comes between the update a page has no room for and the deletion   *)
(* that follows it.                                                        *)
(***************************************************************************)
EXTENDS TablePage, FiniteSetTheorems, WellFoundedInduction, TLAPS

(* A page with n slots. *)
PageState(n) ==
  [bytes : [Address -> Byte \cup {Other}],
   slots : [0 .. n - 1 -> Slot],
   alive_tuple_count : Nat,
   deleted_tuple_count : Nat,
   free_space_offset : 0 .. PageSize,
   free_list_head : SlotId \cup {INVALID_SLOT_ID}]

Apart(p, r, s) ==
  \/ p.slots[r].offset + p.slots[r].length <= p.slots[s].offset
  \/ p.slots[s].offset + p.slots[s].length <= p.slots[r].offset

(* The bodies of the live slots, but that of skip, lie apart from each     *)
(* other above the free space; together they leave at least that much.     *)
BodiesFit(p, skip) ==
  /\ \A s \in Kept(p, skip) :
       /\ p.slots[s].length >= 1
       /\ p.slots[s].offset >= p.free_space_offset
       /\ p.slots[s].offset + p.slots[s].length <= PageSize
  /\ \A r, s \in Kept(p, skip) : r # s => Apart(p, r, s)
  /\ p.free_space_offset <= NewOffset(p, skip)[SlotCount(p) - 1]

(* f is the list of deleted slots, from its head to its end. *)
Links(p, f) ==
  LET c == p.deleted_tuple_count
  IN  /\ f[0] = p.free_list_head /\ f[c] = INVALID_SLOT_ID
      /\ \A i \in 0 .. c - 1 :
           f[i] \in Deleted(p) /\ p.slots[f[i]].offset = f[i + 1]
      /\ \A i, j \in 0 .. c - 1 : f[i] = f[j] => i = j
      /\ \A s \in Deleted(p) : \E i \in 0 .. c - 1 : f[i] = s

SlotsCounted(p) ==
  /\ p.alive_tuple_count = Cardinality(Live(p))
  /\ p.deleted_tuple_count = Cardinality(Deleted(p))
  /\ \E f \in [0 .. p.deleted_tuple_count -> 0 .. PageSize] : Links(p, f)

Sound(p, skip) ==
  /\ SlotCount(p) \in Nat /\ p \in PageState(SlotCount(p))
  /\ SlotAreaEnd(p) <= p.free_space_offset
  /\ BodiesFit(p, skip)
  /\ SlotsCounted(p)

(* At most one record is being moved off the page. *)
IInv ==
  \E skip \in Live(page) \cup {INVALID_SLOT_ID} :
    /\ moving = {skip} \ {INVALID_SLOT_ID}
    /\ Sound(page, skip)

-------------------------------------------------------------------------------
(* Numbers. *)

LEMMA Sizes ==
  /\ PageSize \in Nat /\ HeaderSize \in Nat /\ SlotSize \in Nat \ {0}
  /\ HeaderSize + SlotSize < PageSize
  /\ MaxLength \in Nat
  /\ INVALID_SLOT_ID = PageSize
  /\ Address = 0 .. PageSize - 1
BY TablePageConstants DEF INVALID_SLOT_ID, Address

LEMMA Division ==
  ASSUME NEW n \in Nat, NEW k \in Nat \ {0}, NEW m \in Nat, n * k <= m
  PROVE  n <= m \div k /\ m \div k <= m
<1> DEFINE d == m \div k
<1>1. m < (d + 1) * k /\ d \in Nat /\ d <= m
  OBVIOUS
<1> HIDE DEF d
<1>2. ASSUME n >= d + 1 PROVE n * k >= (d + 1) * k
  <2>1. n * k - (d + 1) * k = (n - (d + 1)) * k
    BY <1>1
  <2>2. n - (d + 1) \in Nat
    BY <1>1, <1>2
  <2>3. (n - (d + 1)) * k \in Nat
    BY <2>2
  <2> QED
    BY <1>1, <2>1, <2>3
<1>3. n <= d
  BY <1>1, <1>2
<1> QED
  BY <1>1, <1>3 DEF d

(* There is a slot id for every slot that fits. *)
LEMMA SlotIds ==
  /\ SlotId \subseteq 0 .. PageSize - 1
  /\ IsFiniteSet(SlotId)
  /\ \A n \in Nat : HeaderSize + n * SlotSize <= PageSize =>
       0 .. n - 1 \subseteq SlotId /\ n <= Cardinality(SlotId)
<1> DEFINE m == PageSize - HeaderSize
           d == m \div SlotSize
<1>1. m \in Nat /\ m <= PageSize /\ SlotSize \in Nat \ {0} /\ PageSize \in Nat
  BY Sizes
<1>2. d \in Nat /\ d <= m
  BY <1>1
<1>3. SlotId = 0 .. d - 1
  BY DEF SlotId
<1> HIDE DEF d
<1>4. IsFiniteSet(SlotId) /\ Cardinality(SlotId) = d
  BY <1>2, <1>3, FS_Interval
<1>5. ASSUME NEW n \in Nat, HeaderSize + n * SlotSize <= PageSize
      PROVE  n <= d
  <2>1. n * SlotSize <= m
    <3>1. n * SlotSize \in Nat
      BY <1>1
    <3> QED
      BY <1>5, <3>1, Sizes
  <2> HIDE DEF m
  <2> QED
    BY <1>1, <2>1, Division DEF d
<1> HIDE DEF m
<1>6. SlotId \subseteq 0 .. PageSize - 1
  BY <1>1, <1>2, <1>3
<1>7. ASSUME NEW n \in Nat, HeaderSize + n * SlotSize <= PageSize
      PROVE  0 .. n - 1 \subseteq SlotId
  BY <1>2, <1>3, <1>5, <1>7
<1> QED
  BY <1>4, <1>5, <1>6, <1>7

LEMMA AllNumbers ==
  ASSUME NEW S, 0 \in S, \A n \in Nat : n \in S => n + 1 \in S
  PROVE  Nat \subseteq S
<1> SUFFICES ASSUME Nat \ S # {} PROVE FALSE
  OBVIOUS
<1>1. PICK x \in Nat \ S : \A y \in Nat \ S : ~ (<<y, x>> \in OpToRel(<, Nat))
  <2>1. Nat \ S \in SUBSET Nat
    OBVIOUS
  <2> QED
    BY <2>1, NatLessThanWellFounded, WFMin
<1>2. x # 0 /\ x - 1 \in Nat
  OBVIOUS
<1>3. CASE x - 1 \in S
  BY <1>2, <1>3
<1>4. CASE x - 1 \notin S
  <2>1. x - 1 \in Nat \ S /\ x - 1 < x
    BY <1>2, <1>4
  <2>2. <<x - 1, x>> \in OpToRel(<, Nat)
    BY <1>1, <2>1 DEF OpToRel
  <2> QED
    BY <1>1, <2>1, <2>2
<1> QED
  BY <1>3, <1>4

(* A loop that starts with a and takes w[i] off in round i has a result    *)
(* after each round.                                                       *)
LEMMA Rounds ==
  ASSUME NEW m \in Nat, NEW a \in Int, NEW w \in [0 .. m - 1 -> Int]
  PROVE  \E g \in [0 .. m -> Int] :
           g = [n \in 0 .. m |-> IF n = 0 THEN a ELSE g[n - 1] - w[n - 1]]
<1> DEFINE R(g, k) == [n \in 0 .. k |-> IF n = 0 THEN a ELSE g[n - 1] - w[n - 1]]
           S == {k \in Nat : k <= m => \E g \in [0 .. k -> Int] : g = R(g, k)}
<1>1. 0 \in S
  <2> DEFINE g == [n \in 0 .. 0 |-> a]
  <2>1. g \in [0 .. 0 -> Int] /\ g = R(g, 0)
    OBVIOUS
  <2> QED
    BY <2>1
<1>2. ASSUME NEW k \in Nat, k \in S PROVE k + 1 \in S
  <2> SUFFICES ASSUME k + 1 <= m
               PROVE  \E g \in [0 .. k + 1 -> Int] : g = R(g, k + 1)
    OBVIOUS
  <2>1. PICK g \in [0 .. k -> Int] : g = R(g, k)
    BY <1>2
  <2> DEFINE h == [n \in 0 .. k + 1 |-> IF n <= k THEN g[n] ELSE g[k] - w[k]]
  <2>2. h \in [0 .. k + 1 -> Int]
    OBVIOUS
  <2>3. ASSUME NEW n \in 0 .. k + 1 PROVE h[n] = R(h, k + 1)[n]
    <3>1. CASE n = 0
      BY <2>1, <3>1
    <3>2. CASE n \in 1 .. k
      <4>1. h[n] = g[n] /\ h[n - 1] = g[n - 1]
        BY <3>2
      <4>2. g[n] = R(g, k)[n]
        BY <2>1
      <4> QED
        BY <3>2, <4>1, <4>2
    <3>3. CASE n = k + 1
      <4>1. h[n - 1] = g[k] /\ n - 1 = k
        BY <3>3
      <4> QED
        BY <3>3, <4>1
    <3> QED
      BY <3>1, <3>2, <3>3
  <2>4. h = R(h, k + 1)
    BY <2>3
  <2> HIDE DEF h
  <2> QED
    BY <2>2, <2>4
<1> HIDE DEF S
<1>3. Nat \subseteq S
  BY <1>1, <1>2, AllNumbers
<1>4. m \in S /\ m <= m
  BY <1>3
<1>5. \E g \in [0 .. m -> Int] : g = R(g, m)
  <2> HIDE DEF R
  <2> QED
    BY <1>4 DEF S
<1> QED
  BY <1>5

-------------------------------------------------------------------------------
(* Slots. *)

(* What the header, the array and the slots of a page amount to. *)
LEMMA Slots ==
  ASSUME NEW p, NEW n \in Nat, p.slots \in [0 .. n - 1 -> Slot]
  PROVE  /\ SlotCount(p) = n /\ DOMAIN p.slots = 0 .. n - 1
         /\ SlotAreaEnd(p) = HeaderSize + n * SlotSize
         /\ n * SlotSize \in Nat /\ SlotAreaEnd(p) \in Nat
         /\ Live(p) \subseteq 0 .. n - 1 /\ Deleted(p) \subseteq 0 .. n - 1
         /\ IsFiniteSet(Live(p)) /\ IsFiniteSet(Deleted(p))
         /\ Cardinality(Live(p)) \in Nat /\ Cardinality(Deleted(p)) \in Nat
         /\ Cardinality(Live(p)) + Cardinality(Deleted(p)) = n
<1>1. DOMAIN p.slots = 0 .. n - 1
  OBVIOUS
<1>2. IsFiniteSet(0 .. n - 1) /\ Cardinality(0 .. n - 1) = n
  BY FS_Interval
<1>3. SlotCount(p) = n
  BY <1>1, <1>2 DEF SlotCount
<1>4. n * SlotSize \in Nat /\ SlotAreaEnd(p) = HeaderSize + n * SlotSize
        /\ SlotAreaEnd(p) \in Nat
  BY <1>3, Sizes DEF SlotAreaEnd
<1>5. Live(p) \subseteq 0 .. n - 1 /\ Deleted(p) = (0 .. n - 1) \ Live(p)
  BY <1>1 DEF Live, Deleted
<1>6. IsFiniteSet(Live(p)) /\ IsFiniteSet(Deleted(p))
  BY <1>2, <1>5, FS_Subset
<1>7. Cardinality(Live(p)) \in Nat /\ Cardinality(Deleted(p)) \in Nat
  BY <1>6, FS_CardinalityType
<1> DEFINE live == Cardinality(Live(p))
           deleted == Cardinality(Deleted(p))
<1>8. live + deleted = n
  <2>1. Live(p) \cup Deleted(p) = 0 .. n - 1 /\ Live(p) \cap Deleted(p) = {}
    BY <1>5
  <2>2. Cardinality(Live(p) \cup Deleted(p)) =
          Cardinality(Live(p)) + Cardinality(Deleted(p))
            - Cardinality(Live(p) \cap Deleted(p))
    BY <1>6, FS_Union
  <2>3. Cardinality(Live(p) \cap Deleted(p)) = 0
    BY <2>1, FS_EmptySet
  <2> QED
    <3>1. n = live + deleted - 0 /\ live \in Nat /\ deleted \in Nat
      BY <1>2, <1>7, <2>1, <2>2, <2>3
    <3> HIDE DEF live, deleted
    <3> QED
      BY <3>1
<1> QED
  BY <1>1, <1>3, <1>4, <1>5, <1>6, <1>7, <1>8

-------------------------------------------------------------------------------
(* The offsets CompactTupleBodies gives out. *)

Weight(p, skip, i) == IF i \in Kept(p, skip) THEN p.slots[i].length ELSE 0

LEMMA Weights ==
  ASSUME NEW p, NEW n \in Nat, p.slots \in [0 .. n - 1 -> Slot], NEW skip,
         NEW i \in 0 .. n - 1
  PROVE  Weight(p, skip, i) \in Nat /\ p.slots[i] \in Slot
<1>1. p.slots[i] \in Slot /\ p.slots[i].length \in Nat
  BY Sizes DEF Slot
<1> QED
  BY <1>1 DEF Weight

(* The loop of CompactTupleBodies, one slot a round. *)
LEMMA Offsets ==
  ASSUME NEW p, NEW n \in Nat, p.slots \in [0 .. n - 1 -> Slot], NEW skip
  PROVE  /\ NewOffset(p, skip) \in [-1 .. n - 1 -> Int]
         /\ NewOffset(p, skip)[-1] = PageSize
         /\ \A i \in 0 .. n - 1 :
              NewOffset(p, skip)[i] = NewOffset(p, skip)[i - 1] - Weight(p, skip, i)
<1> DEFINE R(g) ==
             [k \in 0 .. n |->
                IF k = 0 THEN PageSize
                ELSE g[k - 1] - (IF k - 1 \in Kept(p, skip)
                                 THEN p.slots[k - 1].length ELSE 0)]
           w == [i \in 0 .. n - 1 |-> Weight(p, skip, i)]
<1>1. w \in [0 .. n - 1 -> Int] /\ PageSize \in Int
  BY Weights, Sizes
<1>2. PICK g \in [0 .. n -> Int] :
        g = [k \in 0 .. n |-> IF k = 0 THEN PageSize ELSE g[k - 1] - w[k - 1]]
  <2> HIDE DEF w
  <2> QED
    BY <1>1, Rounds
<1>3. g = R(g)
  <2>1. ASSUME NEW k \in 0 .. n PROVE g[k] = R(g)[k]
    <3>1. CASE k = 0
      BY <1>2, <3>1
    <3>2. CASE k # 0
      <4>1. k - 1 \in 0 .. n - 1 /\ g[k] = g[k - 1] - w[k - 1]
        BY <1>2, <3>2
      <4> QED
        BY <3>2, <4>1 DEF Weight
    <3> QED
      BY <3>1, <3>2
  <2> QED
    BY <1>2, <2>1
<1> DEFINE end == CHOOSE h : h = R(h)
<1>4. end = R(end)
  <2> HIDE DEF R
  <2> QED
    BY <1>3
<1>5. NewOffset(p, skip) = [s \in -1 .. n - 1 |-> end[s + 1]]
  <2>1. SlotCount(p) = n
    BY Slots
  <2> QED
    BY <2>1 DEF NewOffset
<1> HIDE DEF end
<1>6. \A k \in 0 .. n : end[k] \in Int
  <2> DEFINE S == {k \in Nat : k <= n => end[k] \in Int}
  <2>1. 0 \in S
    BY <1>4, Sizes
  <2>2. ASSUME NEW k \in Nat, k \in S PROVE k + 1 \in S
    <3> SUFFICES ASSUME k + 1 <= n PROVE end[k + 1] \in Int
      OBVIOUS
    <3>1. /\ k + 1 \in 0 .. n /\ k + 1 # 0 /\ (k + 1) - 1 = k /\ k \in 0 .. n - 1
          /\ end[k] \in Int
      BY <2>2
    <3>2. end[k + 1] = end[k] - Weight(p, skip, k)
      BY <1>4, <3>1 DEF Weight
    <3> QED
      BY <3>1, <3>2, Weights, SMTT(30)
  <2> HIDE DEF S
  <2>3. Nat \subseteq S
    BY <2>1, <2>2, AllNumbers
  <2>4. ASSUME NEW k \in 0 .. n PROVE end[k] \in Int
    <3>1. k \in S /\ k <= n
      BY <2>3
    <3> QED
      BY <3>1 DEF S
  <2> QED
    BY <2>4
<1>7. NewOffset(p, skip) \in [-1 .. n - 1 -> Int]
  BY <1>5, <1>6
<1>8. NewOffset(p, skip)[-1] = PageSize
  <2>1. -1 \in -1 .. n - 1 /\ (-1) + 1 = 0 /\ 0 \in 0 .. n
    OBVIOUS
  <2>2. NewOffset(p, skip)[-1] = end[0]
    BY <1>5, <2>1
  <2> QED
    BY <1>4, <2>1, <2>2
<1>9. ASSUME NEW i \in 0 .. n - 1
      PROVE  NewOffset(p, skip)[i] = NewOffset(p, skip)[i - 1] - Weight(p, skip, i)
  <2>1. /\ i \in -1 .. n - 1 /\ i - 1 \in -1 .. n - 1 /\ (i - 1) + 1 = i
        /\ i + 1 \in 0 .. n /\ i + 1 # 0 /\ (i + 1) - 1 = i
    OBVIOUS
  <2>2. NewOffset(p, skip)[i] = end[i + 1] /\ NewOffset(p, skip)[i - 1] = end[i]
    BY <1>5, <2>1
  <2>3. end[i + 1] = end[i] - Weight(p, skip, i)
    BY <1>4, <2>1 DEF Weight
  <2> QED
    BY <2>2, <2>3
<1> QED
  BY <1>7, <1>8, <1>9

(* Later slots get lower offsets. *)
LEMMA OffsetsFall ==
  ASSUME NEW p, NEW n \in Nat, p.slots \in [0 .. n - 1 -> Slot], NEW skip
  PROVE  \A j \in -1 .. n - 1 : \A i \in -1 .. j :
           NewOffset(p, skip)[j] <= NewOffset(p, skip)[i]
<1> DEFINE to == NewOffset(p, skip)
<1>1. /\ \A i \in -1 .. n - 1 : to[i] \in Int
      /\ \A i \in 0 .. n - 1 : to[i] = to[i - 1] - Weight(p, skip, i)
  BY Offsets
<1> HIDE DEF to
<1> DEFINE S == {k \in Nat : k <= n => \A i \in -1 .. k - 1 : to[k - 1] <= to[i]}
<1>2. 0 \in S
  BY <1>1
<1>3. ASSUME NEW k \in Nat, k \in S PROVE k + 1 \in S
  <2> SUFFICES ASSUME k + 1 <= n, NEW i \in -1 .. k PROVE to[k] <= to[i]
    OBVIOUS
  <2>1. k \in 0 .. n - 1 /\ k - 1 \in -1 .. n - 1 /\ i \in -1 .. n - 1
    OBVIOUS
  <2>2. to[k] = to[k - 1] - Weight(p, skip, k) /\ Weight(p, skip, k) \in Nat
          /\ to[k - 1] \in Int /\ to[i] \in Int
    BY <1>1, <2>1, Weights
  <2>3. CASE i = k
    BY <2>2, <2>3
  <2>4. CASE i # k
    <3>1. to[k - 1] <= to[i]
      BY <1>3, <2>4
    <3> QED
      BY <2>2, <3>1
  <2> QED
    BY <2>3, <2>4
<1> HIDE DEF S
<1>4. Nat \subseteq S
  BY <1>2, <1>3, AllNumbers
<1>5. ASSUME NEW j \in -1 .. n - 1, NEW i \in -1 .. j PROVE to[j] <= to[i]
  <2>1. j + 1 \in S /\ j + 1 <= n /\ (j + 1) - 1 = j
    BY <1>4
  <2> QED
    BY <2>1 DEF S
<1> QED
  BY <1>5 DEF to

(* Pages p and q, with n and m slots, agree on what is kept of the first l *)
(* slots, but for slot s.                                                  *)
DifferAt(s, p, n, skip, q, m, skip1, l) ==
  /\ n \in Nat /\ p.slots \in [0 .. n - 1 -> Slot]
  /\ m \in Nat /\ q.slots \in [0 .. m - 1 -> Slot]
  /\ s \in Nat /\ l \in Nat /\ l <= n /\ l <= m
  /\ \A i \in (0 .. l - 1) \ {s} : Weight(q, skip1, i) = Weight(p, skip, i)

(* From that slot on, the offsets differ by the difference of its weights. *)
LEMMA OffsetsDiffer ==
  ASSUME NEW s, NEW p, NEW n, NEW skip, NEW q, NEW m, NEW skip1, NEW l,
         DifferAt(s, p, n, skip, q, m, skip1, l)
  PROVE  \A i \in 0 .. l :
           NewOffset(q, skip1)[i - 1] = NewOffset(p, skip)[i - 1]
             + (IF s < i THEN Weight(p, skip, s) - Weight(q, skip1, s) ELSE 0)
<1>0. /\ n \in Nat /\ p.slots \in [0 .. n - 1 -> Slot]
      /\ m \in Nat /\ q.slots \in [0 .. m - 1 -> Slot]
      /\ s \in Nat /\ l \in Nat /\ l <= n /\ l <= m
      /\ \A i \in (0 .. l - 1) \ {s} : Weight(q, skip1, i) = Weight(p, skip, i)
  BY DEF DifferAt
<1> DEFINE a == NewOffset(p, skip)
           b == NewOffset(q, skip1)
           x == Weight(p, skip, s) - Weight(q, skip1, s)
<1>1. /\ a[-1] = PageSize /\ \A i \in -1 .. n - 1 : a[i] \in Int
      /\ \A i \in 0 .. n - 1 : a[i] = a[i - 1] - Weight(p, skip, i)
      /\ b[-1] = PageSize /\ \A i \in -1 .. m - 1 : b[i] \in Int
      /\ \A i \in 0 .. m - 1 : b[i] = b[i - 1] - Weight(q, skip1, i)
  BY <1>0, Offsets
<1> HIDE DEF a, b
<1> DEFINE S == {i \in Nat : i <= l =>
                   b[i - 1] = a[i - 1] + (IF s < i THEN x ELSE 0)}
<1>2. 0 \in S
  BY <1>0, <1>1, Sizes
<1>3. ASSUME NEW i \in Nat, i \in S PROVE i + 1 \in S
  <2>0. (i + 1) - 1 = i
    OBVIOUS
  <2> SUFFICES ASSUME i + 1 <= l
               PROVE  b[i] = a[i] + (IF s < i + 1 THEN x ELSE 0)
    <3> HIDE DEF x
    <3> QED
      BY <2>0
  <2>1. /\ i \in 0 .. n - 1 /\ i \in 0 .. m - 1 /\ i \in 0 .. l - 1
        /\ i - 1 \in -1 .. n - 1 /\ i - 1 \in -1 .. m - 1
    BY <1>0
  <2>2. /\ a[i] = a[i - 1] - Weight(p, skip, i) /\ a[i - 1] \in Int
        /\ b[i] = b[i - 1] - Weight(q, skip1, i) /\ b[i - 1] \in Int
        /\ Weight(p, skip, i) \in Nat /\ Weight(q, skip1, i) \in Nat
    BY <1>0, <1>1, <2>1, Weights
  <2>3. b[i - 1] = a[i - 1] + (IF s < i THEN x ELSE 0)
    BY <1>0, <1>3
  <2>4. CASE s = i
    <3>1. b[i - 1] = a[i - 1] /\ x = Weight(p, skip, i) - Weight(q, skip1, i)
      BY <1>0, <2>2, <2>3, <2>4
    <3> HIDE DEF x
    <3> QED
      BY <1>0, <2>2, <2>4, <3>1
  <2>5. CASE s < i
    <3>1. s \in 0 .. n - 1 /\ s \in 0 .. m - 1
      BY <1>0, <2>1, <2>5
    <3>2. x \in Int
      BY <1>0, <3>1, Weights
    <3>3. Weight(q, skip1, i) = Weight(p, skip, i)
      BY <1>0, <2>1, <2>5
    <3> HIDE DEF x
    <3> QED
      BY <1>0, <2>2, <2>3, <2>5, <3>2, <3>3
  <2>6. CASE s > i
    <3>1. Weight(q, skip1, i) = Weight(p, skip, i) /\ b[i - 1] = a[i - 1]
      BY <1>0, <2>1, <2>2, <2>3, <2>6
    <3> QED
      BY <1>0, <2>2, <2>6, <3>1
  <2> QED
    BY <1>0, <2>4, <2>5, <2>6
<1> HIDE DEF S
<1>4. Nat \subseteq S
  BY <1>0, <1>2, <1>3, AllNumbers
<1>5. ASSUME NEW i \in 0 .. l
      PROVE  b[i - 1] = a[i - 1] + (IF s < i THEN x ELSE 0)
  <2>1. i \in S /\ i <= l
    BY <1>0, <1>4
  <2> QED
    BY <1>0, <2>1 DEF S
<1> QED
  BY <1>5 DEF a, b, x

(* Where they agree on all slots, there is the same room.                  *)
LEMMA OffsetsAgree ==
  ASSUME NEW p, NEW n, NEW skip, NEW q, NEW skip1,
         DifferAt(n, p, n, skip, q, n, skip1, n)
  PROVE  NewOffset(q, skip1)[n - 1] = NewOffset(p, skip)[n - 1]
<1>1. n \in 0 .. n /\ ~(n < n)
  BY DEF DifferAt
<1>2. NewOffset(q, skip1)[n - 1] = NewOffset(p, skip)[n - 1] + 0
  BY <1>1, OffsetsDiffer
<1>3. n \in Nat /\ p.slots \in [0 .. n - 1 -> Slot] /\ n - 1 \in -1 .. n - 1
  BY DEF DifferAt
<1>4. NewOffset(p, skip)[n - 1] \in Int
  BY <1>3, Offsets
<1> QED
  BY <1>2, <1>4

-------------------------------------------------------------------------------
(* Compaction. *)

(* What is known of the page when its records are sound. *)
LEMMA SoundParts ==
  ASSUME NEW p, NEW skip, Sound(p, skip), NEW n, n = SlotCount(p)
  PROVE  /\ n \in Nat /\ DOMAIN p.slots = 0 .. n - 1
         /\ p.slots \in [0 .. n - 1 -> Slot]
         /\ p.bytes \in [Address -> Byte \cup {Other}]
         /\ p.free_space_offset \in 0 .. PageSize
         /\ SlotAreaEnd(p) = HeaderSize + n * SlotSize /\ SlotAreaEnd(p) \in Nat
         /\ HeaderSize <= SlotAreaEnd(p)
         /\ SlotAreaEnd(p) <= p.free_space_offset
         /\ Kept(p, skip) \subseteq 0 .. n - 1 /\ Live(p) \subseteq 0 .. n - 1
         /\ 0 .. n - 1 \subseteq SlotId /\ INVALID_SLOT_ID \notin 0 .. n - 1
         /\ n <= Cardinality(SlotId)
<1>1. n \in Nat /\ p \in PageState(n)
  BY DEF Sound
<1>2. /\ p.slots \in [0 .. n - 1 -> Slot]
      /\ p.bytes \in [Address -> Byte \cup {Other}]
      /\ p.free_space_offset \in 0 .. PageSize
  BY <1>1 DEF PageState
<1>3. /\ DOMAIN p.slots = 0 .. n - 1 /\ Live(p) \subseteq 0 .. n - 1
      /\ SlotAreaEnd(p) = HeaderSize + n * SlotSize
      /\ n * SlotSize \in Nat /\ SlotAreaEnd(p) \in Nat
  BY <1>1, <1>2, Slots
<1>4. SlotAreaEnd(p) <= p.free_space_offset
  BY DEF Sound
<1>5. HeaderSize + n * SlotSize <= PageSize /\ HeaderSize <= SlotAreaEnd(p)
  BY <1>2, <1>3, <1>4, Sizes
<1>6. 0 .. n - 1 \subseteq SlotId /\ n <= Cardinality(SlotId)
  BY <1>1, <1>5, SlotIds
<1>7. INVALID_SLOT_ID \notin 0 .. n - 1
  BY <1>6, SlotIds, Sizes
<1> QED
  BY <1>1, <1>2, <1>3, <1>4, <1>5, <1>6, <1>7 DEF Kept

(* Without one of its records a page is sound too. *)
LEMMA SkipOne ==
  ASSUME NEW p, Sound(p, INVALID_SLOT_ID), NEW s \in Live(p)
  PROVE  Sound(p, s)
<1> DEFINE n == SlotCount(p)
           to == NewOffset(p, INVALID_SLOT_ID)
           to1 == NewOffset(p, s)
<1>1. /\ n \in Nat /\ p.slots \in [0 .. n - 1 -> Slot] /\ s \in 0 .. n - 1
      /\ INVALID_SLOT_ID \notin 0 .. n - 1 /\ Live(p) \subseteq 0 .. n - 1
      /\ p.free_space_offset \in Int
  BY SoundParts
<1>2. Kept(p, INVALID_SLOT_ID) = Live(p) /\ Kept(p, s) = Live(p) \ {s}
  BY <1>1 DEF Kept
<1>3. /\ Weight(p, s, s) = 0
      /\ \A i \in (0 .. n - 1) \ {s} :
           Weight(p, s, i) = Weight(p, INVALID_SLOT_ID, i)
  BY <1>2 DEF Weight
<1>4. \A i \in 0 .. n :
        to1[i - 1] = to[i - 1] + (IF s < i
              THEN Weight(p, INVALID_SLOT_ID, s) - Weight(p, s, s) ELSE 0)
  <2>1. DifferAt(s, p, n, INVALID_SLOT_ID, p, n, s, n)
    BY <1>1, <1>3 DEF DifferAt
  <2> QED
    BY <2>1, OffsetsDiffer
<1>5. to1[n - 1] = to[n - 1] + Weight(p, INVALID_SLOT_ID, s)
  <2>1. n \in 0 .. n /\ s < n /\ Weight(p, INVALID_SLOT_ID, s) \in Nat
    BY <1>1, Weights
  <2> QED
    BY <1>3, <1>4, <2>1
<1>6. to[n - 1] \in Int /\ Weight(p, INVALID_SLOT_ID, s) \in Nat
  <2>1. n - 1 \in -1 .. n - 1
    BY <1>1
  <2> QED
    BY <1>1, <2>1, Offsets, Weights
<1>7. p.free_space_offset <= to[n - 1]
  BY DEF Sound, BodiesFit
<1> HIDE DEF to, to1
<1>8. p.free_space_offset <= to1[n - 1]
  BY <1>1, <1>5, <1>6, <1>7
<1>9. BodiesFit(p, s)
  BY <1>2, <1>8 DEF Sound, BodiesFit, to1
<1> QED
  BY <1>9 DEF Sound

(* Where CompactTupleBodies places the bodies it keeps. *)
LEMMA PlacesOfBodies ==
  ASSUME NEW p, NEW skip, Sound(p, skip), NEW n, n = SlotCount(p),
         NEW to, to = NewOffset(p, skip)
  PROVE  /\ to[n - 1] \in p.free_space_offset .. PageSize
         /\ \A s \in Kept(p, skip) :
              /\ p.slots[s].offset \in Nat /\ p.slots[s].length \in Nat \ {0}
              /\ p.slots[s].offset >= p.free_space_offset
              /\ p.slots[s].offset + p.slots[s].length <= PageSize
              /\ to[s] \in to[n - 1] .. PageSize
              /\ to[s] + p.slots[s].length <= PageSize
         /\ \A r, s \in Kept(p, skip) :
              r < s => to[s] + p.slots[s].length <= to[r]
<1>1. /\ n \in Nat /\ p.slots \in [0 .. n - 1 -> Slot]
      /\ p.free_space_offset \in 0 .. PageSize
      /\ Kept(p, skip) \subseteq 0 .. n - 1
  BY SoundParts
<1>2. /\ \A i \in -1 .. n - 1 : to[i] \in Int
      /\ to[-1] = PageSize
      /\ \A i \in 0 .. n - 1 : to[i] = to[i - 1] - Weight(p, skip, i)
  <2>1. /\ to \in [-1 .. n - 1 -> Int]
        /\ to[-1] = PageSize
        /\ \A i \in 0 .. n - 1 : to[i] = to[i - 1] - Weight(p, skip, i)
    BY <1>1, Offsets
  <2> QED
    BY <2>1
<1>3. \A j \in -1 .. n - 1 : \A i \in -1 .. j : to[j] <= to[i]
  BY <1>1, OffsetsFall
<1>4. p.free_space_offset <= to[n - 1]
  BY DEF Sound, BodiesFit
<1>5. to[n - 1] \in p.free_space_offset .. PageSize
  <2>1. n - 1 \in -1 .. n - 1 /\ -1 \in -1 .. n - 1
    BY <1>1
  <2>2. to[n - 1] \in Int /\ to[n - 1] <= PageSize
    BY <1>1, <1>2, <1>3, <2>1
  <2> QED
    BY <1>1, <1>4, <2>2, Sizes
<1>6. ASSUME NEW s \in Kept(p, skip)
      PROVE  /\ p.slots[s].offset \in Nat /\ p.slots[s].length \in Nat \ {0}
             /\ p.slots[s].offset >= p.free_space_offset
             /\ p.slots[s].offset + p.slots[s].length <= PageSize
             /\ to[s] \in to[n - 1] .. PageSize
             /\ to[s] + p.slots[s].length = to[s - 1]
             /\ to[s - 1] <= PageSize
  <2>1. /\ s \in 0 .. n - 1 /\ s \in -1 .. n - 1 /\ s - 1 \in -1 .. n - 1
        /\ n - 1 \in -1 .. n - 1
    BY <1>1
  <2>2. p.slots[s] \in Slot /\ Weight(p, skip, s) = p.slots[s].length
    BY <1>1, <2>1, Weights DEF Weight
  <2>3. p.slots[s].offset \in Nat /\ p.slots[s].length \in Nat
    BY <2>2, Sizes DEF Slot
  <2>4. /\ p.slots[s].length >= 1
        /\ p.slots[s].offset >= p.free_space_offset
        /\ p.slots[s].offset + p.slots[s].length <= PageSize
    BY DEF Sound, BodiesFit
  <2>5. /\ to[n - 1] <= to[s] /\ to[s - 1] <= to[-1]
        /\ to[s] = to[s - 1] - p.slots[s].length
        /\ to[s] \in Int /\ to[s - 1] \in Int /\ to[n - 1] \in Int
    BY <1>2, <1>3, <2>1, <2>2
  <2> QED
    BY <1>2, <2>3, <2>4, <2>5, Sizes
<1>7. ASSUME NEW r \in Kept(p, skip), NEW s \in Kept(p, skip), r < s
      PROVE  to[s] + p.slots[s].length <= to[r]
  <2>1. r \in -1 .. s - 1 /\ s - 1 \in -1 .. n - 1
    BY <1>1, <1>7
  <2>2. to[s - 1] <= to[r]
    BY <1>3, <2>1
  <2> QED
    BY <1>6, <2>2
<1>8. \A s \in Kept(p, skip) : to[s] + p.slots[s].length <= PageSize
  BY <1>6
<1> QED
  BY <1>5, <1>6, <1>7, <1>8

(* Page q has the slots and the records of page p, but for what it has in  *)
(* slot skip; only the places of their bodies may differ.                  *)
SameRecords(p, q, skip) ==
  /\ DOMAIN q.slots = DOMAIN p.slots
  /\ Live(q) = Live(p)
  /\ \A s \in DOMAIN p.slots : q.slots[s].length = p.slots[s].length
  /\ \A s \in DOMAIN p.slots \ Kept(p, skip) : q.slots[s] = p.slots[s]
  /\ \A s \in Kept(p, skip) : GetTuple(q, s) = GetTuple(p, s)
  /\ q.free_list_head = p.free_list_head
  /\ q.alive_tuple_count = p.alive_tuple_count
  /\ q.deleted_tuple_count = p.deleted_tuple_count

(* The list of deleted slots and the counters do not depend on bodies.     *)
SameList(p, q) ==
  /\ DOMAIN q.slots = DOMAIN p.slots
  /\ Live(q) = Live(p)
  /\ \A s \in Deleted(p) : q.slots[s] = p.slots[s]
  /\ q.free_list_head = p.free_list_head
  /\ q.alive_tuple_count = p.alive_tuple_count
  /\ q.deleted_tuple_count = p.deleted_tuple_count

LEMMA SameCounts ==
  ASSUME NEW p, NEW q, SameList(p, q), SlotsCounted(p)
  PROVE  SlotsCounted(q)
<1>1. Live(q) = Live(p) /\ Deleted(q) = Deleted(p)
  BY DEF SameList, Deleted
<1>2. \A f : Links(p, f) => Links(q, f)
  BY <1>1 DEF SameList, Links
<1> QED
  BY <1>1, <1>2 DEF SameList, SlotsCounted

LEMMA SameRecordsSameList ==
  ASSUME NEW p, NEW q, NEW skip, SameRecords(p, q, skip)
  PROVE  SameList(p, q)
BY DEF SameRecords, SameList, Deleted, Kept

(* Bodies that are moved where they do not overlap arrive unchanged.       *)
LEMMA BodiesArrive ==
  ASSUME NEW p, NEW skip, Sound(p, skip), NEW n, n = SlotCount(p),
         NEW to, to = NewOffset(p, skip),
         NEW moved, moved = MoveBodies(p, Kept(p, skip), to)
  PROVE  /\ moved \in [Address -> Byte \cup {Other}]
         /\ \A s \in Kept(p, skip) : \A i \in 1 .. p.slots[s].length :
              moved[to[s] + i - 1] = p.bytes[p.slots[s].offset + i - 1]
<1> DEFINE kept == Kept(p, skip)
           In(a, s) == a \in to[s] .. to[s] + p.slots[s].length - 1
<1>1. /\ to[n - 1] \in p.free_space_offset .. PageSize
      /\ \A s \in kept :
           /\ p.slots[s].offset \in Nat /\ p.slots[s].length \in Nat \ {0}
           /\ p.slots[s].offset >= p.free_space_offset
           /\ p.slots[s].offset + p.slots[s].length <= PageSize
           /\ to[s] \in to[n - 1] .. PageSize
           /\ to[s] + p.slots[s].length <= PageSize
      /\ \A r, s \in kept : r < s => to[s] + p.slots[s].length <= to[r]
  BY PlacesOfBodies
<1>2. /\ p.bytes \in [Address -> Byte \cup {Other}]
      /\ p.free_space_offset \in 0 .. PageSize
      /\ kept \subseteq 0 .. n - 1
  BY SoundParts
<1>3. ASSUME NEW s \in kept
      PROVE  to[s] \in Nat /\ p.slots[s].offset \in Nat
               /\ p.slots[s].length \in Nat
  BY <1>1, <1>2, <1>3, Sizes
<1>4. ASSUME NEW a \in Address, NEW s \in kept, In(a, s)
      PROVE  /\ p.slots[s].offset + a - to[s] \in Address
             /\ \A r \in kept : In(a, r) => r = s
  <2>1. p.slots[s].offset + a - to[s] \in Address
    <3> DEFINE from == p.slots[s].offset
               len == p.slots[s].length
    <3>1. /\ from \in Nat /\ len \in Nat /\ to[s] \in Nat /\ a \in Nat
          /\ from + len <= PageSize /\ a >= to[s] /\ a <= to[s] + len - 1
      BY <1>1, <1>3, <1>4, Sizes
    <3> HIDE DEF from, len
    <3>2. from + a - to[s] \in 0 .. PageSize - 1
      BY <3>1, Sizes
    <3> QED
      BY <3>2, Sizes DEF from
  <2>2. ASSUME NEW r \in kept, In(a, r), r # s PROVE FALSE
    <3>1. r < s \/ s < r
      BY <1>2, <2>2
    <3>2. r \in Int /\ s \in Int /\ a \in Nat
      BY <1>2, Sizes
    <3> QED
      BY <1>1, <1>3, <1>4, <2>2, <3>1, <3>2
  <2> QED
    BY <2>1, <2>2
<1>5. moved = [a \in Address |->
                IF \E s \in kept : In(a, s)
                THEN LET s == CHOOSE r \in kept : In(a, r)
                     IN  p.bytes[p.slots[s].offset + a - to[s]]
                ELSE p.bytes[a]]
  BY DEF MoveBodies
<1>6. ASSUME NEW a \in Address, NEW s \in kept, In(a, s)
      PROVE  moved[a] = p.bytes[p.slots[s].offset + a - to[s]]
  <2>1. (CHOOSE r \in kept : In(a, r)) = s
    <3> HIDE DEF In, kept
    <3> QED
      BY <1>4, <1>6
  <2> QED
    BY <1>5, <1>6, <2>1
<1>7. ASSUME NEW a \in Address PROVE moved[a] \in Byte \cup {Other}
  <2>1. CASE \E s \in kept : In(a, s)
    <3>1. PICK s \in kept : In(a, s)
      BY <2>1
    <3>2. p.slots[s].offset + a - to[s] \in Address
      BY <1>4, <3>1
    <3>3. moved[a] = p.bytes[p.slots[s].offset + a - to[s]]
      BY <1>6, <3>1
    <3>4. \A x \in Address : p.bytes[x] \in Byte \cup {Other}
      BY <1>2
    <3> QED
      BY <3>2, <3>3, <3>4
  <2>2. CASE ~\E s \in kept : In(a, s)
    <3>1. moved[a] = p.bytes[a]
      BY <1>5, <2>2
    <3> QED
      BY <1>2, <3>1
  <2> QED
    BY <2>1, <2>2
<1>8. moved \in [Address -> Byte \cup {Other}]
  BY <1>5, <1>7
<1>9. ASSUME NEW s \in kept, NEW i \in 1 .. p.slots[s].length
      PROVE  moved[to[s] + i - 1] = p.bytes[p.slots[s].offset + i - 1]
  <2> DEFINE a == to[s] + i - 1
  <2>1. a \in Address /\ In(a, s) /\ p.slots[s].offset + a - to[s]
                                      = p.slots[s].offset + i - 1
    BY <1>1, <1>3, Sizes, SMTT(30)
  <2>2. moved[a] = p.bytes[p.slots[s].offset + a - to[s]]
    BY <1>6, <2>1
  <2> QED
    BY <2>1, <2>2
<1> QED
  BY <1>8, <1>9

(* CompactTupleBodies never fails on a sound page, keeps its records, and  *)
(* leaves no gap.                                                          *)
LEMMA Compacts ==
  ASSUME NEW p, NEW skip, Sound(p, skip)
  PROVE  /\ CompactTupleBodies(p, skip).ok
         /\ Sound(CompactTupleBodies(p, skip).page, skip)
         /\ SameRecords(p, CompactTupleBodies(p, skip).page, skip)
         /\ CompactTupleBodies(p, skip).page.free_space_offset
              = NewOffset(p, skip)[SlotCount(p) - 1]
         /\ SlotAreaEnd(CompactTupleBodies(p, skip).page) = SlotAreaEnd(p)
<1> DEFINE n == SlotCount(p)
           kept == Kept(p, skip)
           to == NewOffset(p, skip)
           moved == MoveBodies(p, kept, to)
           slots == [s \in DOMAIN p.slots |->
                       IF s \in kept THEN [p.slots[s] EXCEPT !.offset = to[s]]
                                     ELSE p.slots[s]]
           q == [p EXCEPT !.slots = slots, !.bytes = moved,
                          !.free_space_offset = to[n - 1]]
<1>1. /\ to[n - 1] \in p.free_space_offset .. PageSize
      /\ \A s \in kept :
           /\ p.slots[s].offset \in Nat /\ p.slots[s].length \in Nat \ {0}
           /\ p.slots[s].offset >= p.free_space_offset
           /\ p.slots[s].offset + p.slots[s].length <= PageSize
           /\ to[s] \in to[n - 1] .. PageSize
           /\ to[s] + p.slots[s].length <= PageSize
      /\ \A r, s \in kept : r < s => to[s] + p.slots[s].length <= to[r]
  BY PlacesOfBodies
<1>2. /\ n \in Nat /\ DOMAIN p.slots = 0 .. n - 1
      /\ p.slots \in [0 .. n - 1 -> Slot]
      /\ p.free_space_offset \in 0 .. PageSize
      /\ SlotAreaEnd(p) \in Nat /\ HeaderSize <= SlotAreaEnd(p)
      /\ SlotAreaEnd(p) <= p.free_space_offset
      /\ kept \subseteq 0 .. n - 1
  BY SoundParts
<1>3. p \in PageState(n)
  BY DEF Sound
<1>4. moved \in [Address -> Byte \cup {Other}]
        /\ \A s \in kept : \A i \in 1 .. p.slots[s].length :
             moved[to[s] + i - 1] = p.bytes[p.slots[s].offset + i - 1]
  BY BodiesArrive
<1> HIDE DEF to, moved, kept, n
<1>5. ASSUME NEW s \in kept PROVE ~CannotPlace(p, s, to)
  <2>1. /\ p.slots[s].length # 0 /\ ~(p.slots[s].offset < HeaderSize)
        /\ ~(p.slots[s].offset + p.slots[s].length > PageSize)
        /\ ~(to[s] < 0)
    BY <1>1, <1>2, Sizes
  <2> QED
    BY <2>1 DEF CannotPlace
<1>6. to[n - 1] >= SlotAreaEnd(p)
  BY <1>1, <1>2
<1>7. CompactTupleBodies(p, skip) = [ok |-> TRUE, page |-> q]
  <2> DEFINE stuck == {s \in kept : CannotPlace(p, s, to)}
             placed == {s \in kept : \A b \in stuck : s < b}
  <2>1. stuck = {} /\ placed = kept
    BY <1>5
  <2> QED
    BY <1>6, <2>1 DEF CompactTupleBodies, kept, to, moved, n
<1>8. slots \in [0 .. n - 1 -> Slot]
  <2>1. ASSUME NEW s \in kept PROVE to[s] \in 0 .. PageSize
    BY <1>1, <1>2, Sizes
  <2>2. ASSUME NEW s \in 0 .. n - 1 PROVE slots[s] \in Slot
    BY <1>2, <2>1 DEF Slot
  <2> QED
    BY <1>2, <2>2
<1>9. /\ \A s \in kept : /\ slots[s].offset = to[s]
                         /\ slots[s].length = p.slots[s].length
                         /\ slots[s].deleted = p.slots[s].deleted
      /\ \A s \in (0 .. n - 1) \ kept : slots[s] = p.slots[s]
  BY <1>2 DEF Slot
<1>10. /\ q \in PageState(n)
       /\ q.slots = slots /\ q.bytes = moved
       /\ q.free_space_offset = to[n - 1]
       /\ q.free_list_head = p.free_list_head
       /\ q.alive_tuple_count = p.alive_tuple_count
       /\ q.deleted_tuple_count = p.deleted_tuple_count
  <2>1. to[n - 1] \in 0 .. PageSize
    BY <1>1, <1>2, Sizes
  <2> HIDE DEF slots
  <2> QED
    BY <1>3, <1>4, <1>8, <2>1 DEF PageState
<1> HIDE DEF slots, q
<1>11. /\ DOMAIN q.slots = DOMAIN p.slots /\ SlotCount(q) = n
       /\ SlotAreaEnd(q) = SlotAreaEnd(p)
  BY <1>2, <1>8, <1>10 DEF SlotCount, SlotAreaEnd, n
<1>12. Live(q) = Live(p) /\ Kept(q, skip) = kept
  <2>1. \A s \in 0 .. n - 1 : q.slots[s].deleted = p.slots[s].deleted
    BY <1>9, <1>10
  <2> QED
    BY <1>2, <1>11, <2>1 DEF Live, Kept, kept
<1>13. \A s \in 0 .. n - 1 : q.slots[s].length = p.slots[s].length
  BY <1>9, <1>10
<1>14. SameRecords(p, q, skip)
  <2>1. ASSUME NEW s \in kept PROVE GetTuple(q, s) = GetTuple(p, s)
    <3>1. s \in 0 .. n - 1 /\ q.slots[s].length = p.slots[s].length
            /\ q.slots[s].offset = to[s]
      BY <1>2, <1>9, <1>10
    <3> QED
      BY <1>4, <1>10, <3>1 DEF GetTuple
  <2> QED
    BY <1>2, <1>9, <1>10, <1>11, <1>12, <1>13, <2>1 DEF SameRecords, kept
<1>15. NewOffset(q, skip)[n - 1] = to[n - 1]
  <2>1. \A i \in 0 .. n - 1 : Weight(q, skip, i) = Weight(p, skip, i)
    BY <1>12, <1>13 DEF Weight, kept
  <2>2. DifferAt(n, p, n, skip, q, n, skip, n)
    BY <1>2, <1>8, <1>10, <2>1 DEF DifferAt
  <2> QED
    BY <2>2, OffsetsAgree DEF to
<1>16. BodiesFit(q, skip)
  <2>1. ASSUME NEW s \in kept
        PROVE  /\ q.slots[s].length >= 1
               /\ q.slots[s].offset >= q.free_space_offset
               /\ q.slots[s].offset + q.slots[s].length <= PageSize
    BY <1>1, <1>2, <1>9, <1>10
  <2>2. ASSUME NEW r \in kept, NEW s \in kept, r # s PROVE Apart(q, r, s)
    <3>1. r < s \/ s < r
      BY <1>2, <2>2
    <3> QED
      BY <1>1, <1>9, <1>10, <3>1 DEF Apart
  <2>3. q.free_space_offset <= NewOffset(q, skip)[SlotCount(q) - 1]
    BY <1>1, <1>2, <1>10, <1>11, <1>15
  <2> QED
    BY <1>12, <2>1, <2>2, <2>3 DEF BodiesFit
<1>17. Sound(q, skip)
  <2>1. SlotsCounted(q)
    BY <1>14, SameRecordsSameList, SameCounts DEF Sound
  <2> QED
    BY <1>2, <1>6, <1>10, <1>11, <1>16, <2>1 DEF Sound
<1> QED
  BY <1>7, <1>10, <1>11, <1>14, <1>17 DEF n, to

(* Insert and update find the page sound when they have compacted it, or   *)
(* not; it is then short of space only if its records leave too little.    *)
LEMMA CompactsIfNeeded ==
  ASSUME NEW p, NEW skip, Sound(p, skip), NEW needed,
         NEW c, c = CompactIfNeeded(p, needed, skip)
  PROVE  /\ c.ok /\ Sound(c.page, skip) /\ SameRecords(p, c.page, skip)
         /\ SlotAreaEnd(c.page) = SlotAreaEnd(p)
         /\ FreeSpace(c.page) < needed =>
              c.page.free_space_offset = NewOffset(p, skip)[SlotCount(p) - 1]
<1>1. CASE FreeSpace(p) < needed
  BY <1>1, Compacts DEF CompactIfNeeded
<1>2. CASE ~(FreeSpace(p) < needed)
  <2>1. c.ok /\ c.page = p
    BY <1>2 DEF CompactIfNeeded
  <2>2. SameRecords(p, p, skip)
    BY DEF SameRecords
  <2> QED
    BY <1>2, <2>1, <2>2
<1> QED
  BY <1>1, <1>2

LEMMA FreeSpaceIs ==
  ASSUME NEW p, NEW skip, Sound(p, skip)
  PROVE  /\ FreeSpace(p) = p.free_space_offset - SlotAreaEnd(p)
         /\ FreeSpace(p) \in Nat
<1>1. /\ p.free_space_offset \in 0 .. PageSize /\ SlotAreaEnd(p) \in Nat
      /\ SlotAreaEnd(p) <= p.free_space_offset
  BY SoundParts
<1> QED
  BY <1>1, Sizes DEF FreeSpace

(* The counters of a sound page need no repair.                            *)
LEMMA NothingToRepair ==
  ASSUME NEW p, NEW skip, Sound(p, skip)
  PROVE  RepairTupleCounters(p) = p
<1> DEFINE n == SlotCount(p)
<1>1. n \in Nat /\ p.slots \in [0 .. n - 1 -> Slot]
  BY SoundParts
<1>2. Cardinality(Live(p)) + Cardinality(Deleted(p)) = n
  BY <1>1, Slots
<1> QED
  BY <1>2 DEF Sound, SlotsCounted, RepairTupleCounters

-------------------------------------------------------------------------------
(* A tuple is placed. *)

LEMMA Tuples ==
  ASSUME NEW t \in Tuple
  PROVE  /\ Len(t) \in 0 .. MaxLength
         /\ t \in [1 .. Len(t) -> Byte]
<1>1. PICK n \in 0 .. MaxLength : t \in [1 .. n -> Byte]
  BY DEF Tuple
<1>2. n \in Nat
  BY <1>1, Sizes
<1>3. t \in Seq(Byte) /\ Len(t) = n
  BY <1>1, <1>2
<1> QED
  BY <1>1, <1>3

(* The page p has room for tuple t in slot s, one of its n slots or a new  *)
(* one, with which it has m.                                               *)
HasRoom(p, n, s, m, t) ==
  /\ n \in Nat /\ s \in 0 .. n /\ m = (IF s < n THEN n ELSE n + 1)
  /\ p \in PageState(n)
  /\ t \in Tuple /\ Len(t) >= 1
  /\ HeaderSize + m * SlotSize + Len(t) <= p.free_space_offset
  /\ BodiesFit(p, s)

LEMMA TuplePlaced ==
  ASSUME NEW p, NEW n, NEW s, NEW m, NEW t, HasRoom(p, n, s, m, t),
         NEW q, q = PlaceTuple(p, s, t)
  PROVE  /\ q \in PageState(m) /\ m \in Nat
         /\ BodiesFit(q, INVALID_SLOT_ID)
         /\ HeaderSize + m * SlotSize <= q.free_space_offset
         /\ Live(q) = Live(p) \cup {s}
         /\ \A r \in Live(p) \ {s} : GetTuple(q, r) = GetTuple(p, r)
         /\ GetTuple(q, s) = t
         /\ \A r \in (0 .. n - 1) \ {s} : q.slots[r] = p.slots[r]
         /\ q.free_list_head = p.free_list_head
         /\ q.alive_tuple_count = p.alive_tuple_count
         /\ q.deleted_tuple_count = p.deleted_tuple_count
<1> DEFINE at == p.free_space_offset - Len(t)
           kept == Live(p) \ {s}
           bytes == [a \in Address |-> IF a \in at .. at + Len(t) - 1
                                       THEN t[a - at + 1] ELSE p.bytes[a]]
           new == [offset |-> at, length |-> Len(t), deleted |-> FALSE]
           slots == [r \in DOMAIN p.slots \cup {s} |->
                       IF r = s THEN new ELSE p.slots[r]]
<1>1. /\ n \in Nat /\ s \in 0 .. n /\ m = (IF s < n THEN n ELSE n + 1)
      /\ p \in PageState(n)
      /\ Len(t) >= 1 /\ Len(t) \in Nat /\ t \in [1 .. Len(t) -> Byte]
      /\ HeaderSize + m * SlotSize + Len(t) <= p.free_space_offset
      /\ BodiesFit(p, s)
  BY Tuples, Sizes DEF HasRoom
<1>2. /\ p.slots \in [0 .. n - 1 -> Slot]
      /\ p.bytes \in [Address -> Byte \cup {Other}]
      /\ p.free_space_offset \in 0 .. PageSize
  BY <1>1 DEF PageState
<1>3. /\ DOMAIN p.slots = 0 .. n - 1 /\ Live(p) \subseteq 0 .. n - 1
      /\ SlotCount(p) = n
  BY <1>1, <1>2, Slots
<1>4. m \in Nat /\ m * SlotSize \in Nat /\ (0 .. n - 1) \cup {s} = 0 .. m - 1
        /\ s \in 0 .. m - 1
  BY <1>1, Sizes
<1>5. /\ at \in 0 .. PageSize - 1 /\ at + Len(t) = p.free_space_offset
      /\ HeaderSize + m * SlotSize <= at
  <2>1. HeaderSize + m * SlotSize \in Nat
    BY <1>4, Sizes
  <2> QED
    BY <1>1, <1>2, <2>1, Sizes, SMTT(30)
<1>6. q = [p EXCEPT !.bytes = bytes, !.free_space_offset = at, !.slots = slots]
  BY DEF PlaceTuple, WriteBody
<1> HIDE DEF at
<1>7. bytes \in [Address -> Byte \cup {Other}]
  <2>1. ASSUME NEW a \in Address PROVE bytes[a] \in Byte \cup {Other}
    <3>1. CASE a \in at .. at + Len(t) - 1
      <4>1. a - at + 1 \in 1 .. Len(t)
        BY <1>1, <1>5, <3>1, Sizes
      <4> QED
        BY <1>1, <3>1, <4>1
    <3>2. CASE a \notin at .. at + Len(t) - 1
      BY <1>2, <3>2
    <3> QED
      BY <3>1, <3>2
  <2> QED
    BY <2>1
<1>8. slots \in [0 .. m - 1 -> Slot]
  <2>1. new \in Slot
    BY <1>1, <1>2, <1>5, Sizes DEF Slot
  <2> HIDE DEF new
  <2> QED
    BY <1>2, <1>3, <1>4, <2>1
<1>9. /\ slots[s] = new
      /\ \A r \in (0 .. n - 1) \ {s} : slots[r] = p.slots[r]
  BY <1>3
<1> HIDE DEF slots
<1>10. /\ q \in PageState(m)
       /\ q.bytes = bytes /\ q.free_space_offset = at /\ q.slots = slots
       /\ q.free_list_head = p.free_list_head
       /\ q.alive_tuple_count = p.alive_tuple_count
       /\ q.deleted_tuple_count = p.deleted_tuple_count
  <2>1. at \in 0 .. PageSize
    BY <1>5, Sizes
  <2> HIDE DEF bytes
  <2> QED
    BY <1>1, <1>6, <1>7, <1>8, <2>1 DEF PageState
<1>11. SlotCount(q) = m /\ DOMAIN q.slots = 0 .. m - 1
  BY <1>4, <1>8, <1>10, Slots
<1>12. Live(q) = kept \cup {s}
  <2>1. ~q.slots[s].deleted
    BY <1>9, <1>10
  <2>2. \A r \in (0 .. m - 1) \ {s} : r \in 0 .. n - 1 /\ q.slots[r] = p.slots[r]
    BY <1>4, <1>9, <1>10
  <2> QED
    BY <1>3, <1>4, <1>11, <2>1, <2>2 DEF Live
<1>13. INVALID_SLOT_ID \notin 0 .. m - 1
  <2>1. HeaderSize + m * SlotSize <= PageSize
    <3>1. HeaderSize + m * SlotSize \in Nat
      BY <1>4, Sizes
    <3> QED
      BY <1>5, <3>1, Sizes
  <2>2. 0 .. m - 1 \subseteq 0 .. PageSize - 1
    BY <1>4, <2>1, SlotIds
  <2> QED
    BY <2>2, Sizes
<1>14. Kept(q, INVALID_SLOT_ID) = kept \cup {s} /\ Kept(p, s) = kept
  BY <1>3, <1>4, <1>12, <1>13 DEF Kept
<1>15. ASSUME NEW r \in kept
       PROVE  /\ q.slots[r] = p.slots[r]
              /\ p.slots[r].length \in Nat /\ p.slots[r].length >= 1
              /\ p.slots[r].offset \in Nat
              /\ p.slots[r].offset >= p.free_space_offset
              /\ p.slots[r].offset + p.slots[r].length <= PageSize
  <2>1. r \in 0 .. n - 1 /\ r # s /\ p.slots[r] \in Slot
    BY <1>2, <1>3
  <2>2. p.slots[r].length \in Nat /\ p.slots[r].offset \in Nat
    BY <2>1, Sizes DEF Slot
  <2> QED
    BY <1>1, <1>9, <1>10, <1>14, <2>1, <2>2 DEF BodiesFit
<1>16. ASSUME NEW r \in kept PROVE GetTuple(q, r) = GetTuple(p, r)
  <2>1. ASSUME NEW i \in 1 .. p.slots[r].length
        PROVE  q.bytes[p.slots[r].offset + i - 1]
                 = p.bytes[p.slots[r].offset + i - 1]
    <3> DEFINE a == p.slots[r].offset + i - 1
    <3>1. a \in Address /\ a \notin at .. at + Len(t) - 1
      BY <1>2, <1>5, <1>15, Sizes, SMTT(30)
    <3> QED
      BY <1>10, <3>1
  <2> QED
    BY <1>15, <2>1 DEF GetTuple
<1>17. GetTuple(q, s) = t
  <2>1. q.slots[s].offset = at /\ q.slots[s].length = Len(t)
    BY <1>9, <1>10
  <2>2. ASSUME NEW i \in 1 .. Len(t) PROVE q.bytes[at + i - 1] = t[i]
    <3>1. at + i - 1 \in Address /\ at + i - 1 \in at .. at + Len(t) - 1
            /\ (at + i - 1) - at + 1 = i
      BY <1>1, <1>2, <1>5, Sizes
    <3> QED
      BY <1>10, <3>1
  <2> QED
    BY <1>1, <2>1, <2>2 DEF GetTuple
<1>18. NewOffset(q, INVALID_SLOT_ID)[m - 1] = NewOffset(p, s)[n - 1] - Len(t)
         /\ NewOffset(p, s)[n - 1] \in Int
  <2> DEFINE to == NewOffset(p, s)
             to1 == NewOffset(q, INVALID_SLOT_ID)
  <2>1. /\ \A i \in (0 .. n - 1) \ {s} :
             Weight(q, INVALID_SLOT_ID, i) = Weight(p, s, i)
        /\ Weight(q, INVALID_SLOT_ID, s) = Len(t) /\ Weight(p, s, s) = 0
    BY <1>9, <1>10, <1>14, <1>15 DEF Weight
  <2>2. DifferAt(s, p, n, s, q, m, INVALID_SLOT_ID, n)
    BY <1>1, <1>2, <1>4, <1>8, <1>10, <2>1 DEF DifferAt
  <2>3. n \in 0 .. n /\ n - 1 \in -1 .. n - 1
    BY <1>1
  <2>4. to1[n - 1] = to[n - 1] + (IF s < n THEN 0 - Len(t) ELSE 0)
    BY <2>1, <2>2, <2>3, OffsetsDiffer
  <2>5. to[n - 1] \in Int
    BY <1>1, <1>2, <2>3, Offsets
  <2>6. CASE s < n
    BY <1>1, <2>4, <2>5, <2>6
  <2>7. CASE s = n
    <3>1. m = n + 1 /\ n \in 0 .. m - 1 /\ m - 1 = n
      BY <1>1, <2>7
    <3>2. to1[n] = to1[n - 1] - Weight(q, INVALID_SLOT_ID, n)
      <4>1. q.slots \in [0 .. m - 1 -> Slot]
        BY <1>8, <1>10
      <4>2. \A i \in 0 .. m - 1 :
              to1[i] = to1[i - 1] - Weight(q, INVALID_SLOT_ID, i)
        BY <1>4, <4>1, Offsets
      <4> QED
        BY <3>1, <4>2
    <3> HIDE DEF to, to1
    <3>3. to1[n] = to[n - 1] - Len(t)
      BY <1>1, <2>1, <2>4, <2>5, <2>7, <3>2
    <3> QED
      BY <2>5, <3>1, <3>3 DEF to, to1
  <2> QED
    BY <1>1, <2>6, <2>7
<1>19. BodiesFit(q, INVALID_SLOT_ID)
  <2>1. ASSUME NEW r \in kept \cup {s}
        PROVE  /\ q.slots[r].length >= 1
               /\ q.slots[r].offset >= q.free_space_offset
               /\ q.slots[r].offset + q.slots[r].length <= PageSize
    <3>1. CASE r = s
      BY <1>1, <1>2, <1>5, <1>9, <1>10, <3>1, Sizes
    <3>2. CASE r # s
      <4>1. /\ q.slots[r].length >= 1
            /\ q.slots[r].offset \in Nat
            /\ q.slots[r].offset >= p.free_space_offset
            /\ q.slots[r].offset + q.slots[r].length <= PageSize
        BY <1>15, <3>2
      <4>2. at <= p.free_space_offset /\ at \in Nat /\ p.free_space_offset \in Nat
        BY <1>1, <1>2, <1>5, Sizes
      <4> QED
        BY <1>10, <4>1, <4>2
    <3> QED
      BY <3>1, <3>2
  <2>2. ASSUME NEW r \in kept, NEW u \in kept, r # u PROVE Apart(q, r, u)
    BY <1>1, <1>14, <1>15, <2>2 DEF BodiesFit, Apart
  <2>3. ASSUME NEW r \in kept PROVE Apart(q, r, s) /\ Apart(q, s, r)
    <3>1. /\ q.slots[s].offset + q.slots[s].length = p.free_space_offset
          /\ q.slots[r].offset >= p.free_space_offset
      <4>1. q.slots[s].offset = at /\ q.slots[s].length = Len(t)
        BY <1>9, <1>10
      <4> QED
        BY <1>5, <1>15, <4>1
    <3> QED
      BY <3>1 DEF Apart
  <2>4. q.free_space_offset <= NewOffset(q, INVALID_SLOT_ID)[SlotCount(q) - 1]
    <3>1. p.free_space_offset <= NewOffset(p, s)[n - 1]
      BY <1>1, <1>3 DEF BodiesFit
    <3>2. p.free_space_offset \in Nat /\ at = p.free_space_offset - Len(t)
      BY <1>2, Sizes DEF at
    <3> QED
      BY <1>1, <1>10, <1>11, <1>18, <3>1, <3>2
  <2> QED
    BY <1>14, <2>1, <2>2, <2>3, <2>4 DEF BodiesFit
<1>20. Live(q) = Live(p) \cup {s}
  BY <1>12
<1> QED
  BY <1>4, <1>5, <1>9, <1>10, <1>16, <1>17, <1>19, <1>20

(* A record is overwritten by one that is not longer. *)
Shortens(p, s, t) ==
  /\ Sound(p, INVALID_SLOT_ID) /\ s \in Live(p)
  /\ t \in Tuple /\ Len(t) >= 1 /\ Len(t) <= p.slots[s].length

Overwritten(p, s, t) ==
  [WriteBody(p, p.slots[s].offset, t) EXCEPT !.slots[s].length = Len(t)]

LEMMA UpdatedInPlace ==
  ASSUME NEW p, NEW s, NEW t, Shortens(p, s, t),
         NEW q, q = Overwritten(p, s, t)
  PROVE  /\ Sound(q, INVALID_SLOT_ID)
         /\ Live(q) = Live(p)
         /\ \A r \in Live(p) \ {s} : GetTuple(q, r) = GetTuple(p, r)
         /\ GetTuple(q, s) = t
<1> DEFINE n == SlotCount(p)
           at == p.slots[s].offset
           len == p.slots[s].length
           bytes == [a \in Address |-> IF a \in at .. at + Len(t) - 1
                                       THEN t[a - at + 1] ELSE p.bytes[a]]
           slots == [p.slots EXCEPT ![s].length = Len(t)]
<1>1. /\ Sound(p, INVALID_SLOT_ID) /\ s \in Live(p)
      /\ Len(t) >= 1 /\ Len(t) \in Nat /\ t \in [1 .. Len(t) -> Byte]
      /\ Len(t) <= len
  BY Tuples, Sizes DEF Shortens
<1>2. /\ n \in Nat /\ DOMAIN p.slots = 0 .. n - 1
      /\ p \in PageState(n)
      /\ p.slots \in [0 .. n - 1 -> Slot]
      /\ p.bytes \in [Address -> Byte \cup {Other}]
      /\ p.free_space_offset \in 0 .. PageSize
      /\ Kept(p, INVALID_SLOT_ID) = Live(p)
      /\ Live(p) \subseteq 0 .. n - 1 /\ s \in 0 .. n - 1
      /\ SlotAreaEnd(p) <= p.free_space_offset
  BY <1>1, SoundParts DEF Sound, Kept
<1>3. ASSUME NEW r \in Live(p)
      PROVE  /\ p.slots[r].length \in Nat /\ p.slots[r].length >= 1
             /\ p.slots[r].offset \in Nat
             /\ p.slots[r].offset >= p.free_space_offset
             /\ p.slots[r].offset + p.slots[r].length <= PageSize
  <2>1. p.slots[r] \in Slot
    BY <1>2
  <2>2. p.slots[r].length \in Nat /\ p.slots[r].offset \in Nat
    BY <2>1, Sizes DEF Slot
  <2> QED
    BY <1>1, <1>2, <2>2 DEF Sound, BodiesFit
<1>4. at \in Nat /\ len \in Nat /\ at + len <= PageSize
        /\ at >= p.free_space_offset
  BY <1>1, <1>3
<1>5. q = [p EXCEPT !.bytes = bytes, !.slots = slots]
  BY <1>2 DEF Overwritten, WriteBody, PageState
<1> HIDE DEF at, len
<1>6. bytes \in [Address -> Byte \cup {Other}]
  <2>1. ASSUME NEW a \in Address PROVE bytes[a] \in Byte \cup {Other}
    <3>1. CASE a \in at .. at + Len(t) - 1
      <4>1. a - at + 1 \in 1 .. Len(t)
        BY <1>1, <1>4, <3>1, Sizes
      <4> QED
        BY <1>1, <3>1, <4>1
    <3>2. CASE a \notin at .. at + Len(t) - 1
      BY <1>2, <3>2
    <3> QED
      BY <3>1, <3>2
  <2> QED
    BY <2>1
<1>7. /\ slots \in [0 .. n - 1 -> Slot]
      /\ slots[s].offset = at /\ slots[s].length = Len(t)
      /\ slots[s].deleted = p.slots[s].deleted
      /\ \A r \in (0 .. n - 1) \ {s} : slots[r] = p.slots[r]
  <2>1. Len(t) \in 0 .. PageSize
    BY <1>1, <1>4, Sizes
  <2> QED
    BY <1>2, <2>1 DEF Slot, at
<1> HIDE DEF slots
<1>8. /\ q \in PageState(n)
      /\ q.bytes = bytes /\ q.slots = slots
      /\ q.free_space_offset = p.free_space_offset
      /\ q.free_list_head = p.free_list_head
      /\ q.alive_tuple_count = p.alive_tuple_count
      /\ q.deleted_tuple_count = p.deleted_tuple_count
  <2> HIDE DEF bytes
  <2> QED
    BY <1>2, <1>5, <1>6, <1>7 DEF PageState
<1>9. /\ DOMAIN q.slots = DOMAIN p.slots /\ SlotCount(q) = n
      /\ SlotAreaEnd(q) = SlotAreaEnd(p)
  BY <1>2, <1>7, <1>8 DEF SlotCount, SlotAreaEnd
<1>10. /\ Live(q) = Live(p)
       /\ Kept(q, INVALID_SLOT_ID) = Live(p)
  <2>1. \A r \in 0 .. n - 1 : q.slots[r].deleted = p.slots[r].deleted
    BY <1>7, <1>8
  <2>2. Live(q) = Live(p)
    BY <1>2, <1>9, <2>1 DEF Live
  <2> QED
    BY <1>2, <2>2 DEF Kept
<1>11. SlotsCounted(q)
  <2>1. \A r \in Deleted(p) : q.slots[r] = p.slots[r]
    BY <1>1, <1>2, <1>7, <1>8 DEF Deleted
  <2>2. SameList(p, q)
    BY <1>8, <1>9, <1>10, <2>1 DEF SameList
  <2> QED
    BY <1>1, <2>2, SameCounts DEF Sound
<1>12. ASSUME NEW r \in Live(p) \ {s}
       PROVE  /\ q.slots[r] = p.slots[r] /\ Apart(p, r, s) /\ Apart(p, s, r)
  BY <1>1, <1>2, <1>7, <1>8 DEF Sound, BodiesFit
<1>13. ASSUME NEW r \in Live(p) \ {s} PROVE GetTuple(q, r) = GetTuple(p, r)
  <2> DEFINE off == p.slots[r].offset
             l == p.slots[r].length
  <2>1. /\ off \in Nat /\ l \in Nat /\ off + l <= PageSize
        /\ off + l <= at \/ at + len <= off
    BY <1>3, <1>12 DEF Apart, at, len
  <2>2. GetTuple(p, r) = [i \in 1 .. l |-> p.bytes[off + i - 1]]
    BY DEF GetTuple
  <2>3. GetTuple(q, r) = [i \in 1 .. l |-> q.bytes[off + i - 1]]
    BY <1>12 DEF GetTuple
  <2> HIDE DEF off, l
  <2>4. ASSUME NEW i \in 1 .. l
        PROVE  q.bytes[off + i - 1] = p.bytes[off + i - 1]
    <3> DEFINE a == off + i - 1
    <3>1. a \in Address /\ a \notin at .. at + Len(t) - 1
      BY <1>1, <1>4, <2>1, Sizes
    <3> QED
      BY <1>8, <3>1
  <2> QED
    BY <2>2, <2>3, <2>4
<1>14. GetTuple(q, s) = t
  <2>1. ASSUME NEW i \in 1 .. Len(t) PROVE q.bytes[at + i - 1] = t[i]
    <3>1. at + i - 1 \in Address /\ at + i - 1 \in at .. at + Len(t) - 1
            /\ (at + i - 1) - at + 1 = i
      BY <1>1, <1>4, Sizes
    <3> QED
      BY <1>8, <3>1
  <2> QED
    BY <1>1, <1>7, <1>8, <2>1 DEF GetTuple
<1>15. NewOffset(p, INVALID_SLOT_ID)[n - 1] <= NewOffset(q, INVALID_SLOT_ID)[n - 1]
         /\ NewOffset(p, INVALID_SLOT_ID)[n - 1] \in Int
         /\ NewOffset(q, INVALID_SLOT_ID)[n - 1] \in Int
  <2> DEFINE to == NewOffset(p, INVALID_SLOT_ID)
             to1 == NewOffset(q, INVALID_SLOT_ID)
  <2>1. /\ \A i \in (0 .. n - 1) \ {s} :
             Weight(q, INVALID_SLOT_ID, i) = Weight(p, INVALID_SLOT_ID, i)
        /\ Weight(q, INVALID_SLOT_ID, s) = Len(t)
        /\ Weight(p, INVALID_SLOT_ID, s) = len
    <3>1. \A i \in (0 .. n - 1) \ {s} : q.slots[i] = p.slots[i]
      BY <1>7, <1>8
    <3>2. q.slots[s].length = Len(t)
      BY <1>7, <1>8
    <3>3. /\ Kept(q, INVALID_SLOT_ID) = Live(p)
          /\ Kept(p, INVALID_SLOT_ID) = Live(p) /\ s \in Live(p)
      BY <1>1, <1>2, <1>10
    <3>4. \A i \in (0 .. n - 1) \ {s} :
            Weight(q, INVALID_SLOT_ID, i) = Weight(p, INVALID_SLOT_ID, i)
      BY <3>1, <3>3 DEF Weight
    <3>5. Weight(q, INVALID_SLOT_ID, s) = Len(t)
      BY <3>2, <3>3 DEF Weight
    <3>6. Weight(p, INVALID_SLOT_ID, s) = len
      BY <3>3 DEF Weight, len
    <3> QED
      BY <3>4, <3>5, <3>6
  <2>2. DifferAt(s, p, n, INVALID_SLOT_ID, q, n, INVALID_SLOT_ID, n)
    BY <1>2, <1>7, <1>8, <2>1 DEF DifferAt
  <2>3. n \in 0 .. n /\ n - 1 \in -1 .. n - 1 /\ s < n
    BY <1>2
  <2>4. to1[n - 1] = to[n - 1] + (len - Len(t))
    <3>1. to1[n - 1] = to[n - 1]
            + (IF s < n THEN Weight(p, INVALID_SLOT_ID, s)
                               - Weight(q, INVALID_SLOT_ID, s) ELSE 0)
      BY <2>2, <2>3, OffsetsDiffer
    <3> HIDE DEF n, to, to1
    <3> QED
      BY <2>1, <2>3, <3>1
  <2>5. to[n - 1] \in Int
    BY <1>2, <2>3, Offsets
  <2> HIDE DEF to, to1
  <2>6. to[n - 1] <= to1[n - 1] /\ to1[n - 1] \in Int
    BY <1>1, <1>4, <2>4, <2>5
  <2> QED
    BY <2>5, <2>6 DEF to, to1
<1>16. BodiesFit(q, INVALID_SLOT_ID)
  <2>1. ASSUME NEW r \in Live(p)
        PROVE  /\ q.slots[r].length \in Nat
               /\ q.slots[r].length >= 1
               /\ q.slots[r].length <= p.slots[r].length
               /\ q.slots[r].offset = p.slots[r].offset
    <3>1. CASE r = s
      BY <1>1, <1>7, <1>8, <3>1 DEF at, len
    <3>2. CASE r # s
      BY <1>3, <1>12, <3>2
    <3> QED
      BY <3>1, <3>2
  <2>2. ASSUME NEW r \in Live(p)
        PROVE  /\ q.slots[r].length >= 1
               /\ q.slots[r].offset >= q.free_space_offset
               /\ q.slots[r].offset + q.slots[r].length <= PageSize
    <3> DEFINE off == q.slots[r].offset
               l == q.slots[r].length
               l0 == p.slots[r].length
    <3>1. /\ l \in Nat /\ l >= 1 /\ l <= l0 /\ l0 \in Nat /\ off \in Nat
          /\ off >= q.free_space_offset /\ off + l0 <= PageSize
      BY <1>3, <1>8, <2>1
    <3> HIDE DEF off, l, l0
    <3>2. l >= 1 /\ off >= q.free_space_offset /\ off + l <= PageSize
      BY <3>1, Sizes
    <3> QED
      BY <3>2 DEF off, l
  <2>3. ASSUME NEW r \in Live(p), NEW u \in Live(p), r # u PROVE Apart(q, r, u)
    <3> DEFINE x == q.slots[r].offset
               y == q.slots[u].offset
               l == q.slots[r].length
               l0 == p.slots[r].length
               k == q.slots[u].length
               k0 == p.slots[u].length
    <3>1. x + l0 <= y \/ y + k0 <= x
      <4>1. Apart(p, r, u)
        BY <1>1, <1>2, <2>3 DEF Sound, BodiesFit
      <4>2. x = p.slots[r].offset /\ y = p.slots[u].offset
        BY <2>1
      <4> QED
        BY <4>1, <4>2 DEF Apart
    <3>2. /\ x \in Nat /\ y \in Nat /\ l \in Nat /\ l0 \in Nat /\ l <= l0
          /\ k \in Nat /\ k0 \in Nat /\ k <= k0
      BY <1>3, <2>1
    <3> HIDE DEF x, y, l, l0, k, k0
    <3>3. x + l <= y \/ y + k <= x
      BY <3>1, <3>2
    <3> QED
      BY <3>3 DEF Apart, x, y, l, k
  <2>4. q.free_space_offset <= NewOffset(q, INVALID_SLOT_ID)[SlotCount(q) - 1]
    <3>1. p.free_space_offset <= NewOffset(p, INVALID_SLOT_ID)[n - 1]
      BY <1>1 DEF Sound, BodiesFit
    <3> QED
      BY <1>2, <1>8, <1>9, <1>15, <3>1
  <2> QED
    BY <1>10, <2>2, <2>3, <2>4 DEF BodiesFit
<1>17. Sound(q, INVALID_SLOT_ID)
  BY <1>2, <1>8, <1>9, <1>11, <1>16 DEF Sound
<1> QED
  BY <1>10, <1>13, <1>14, <1>17

-------------------------------------------------------------------------------
(* Slots are deleted and used again. *)

LEMMA DeletedLinked ==
  ASSUME NEW p, NEW s, Sound(p, s), s \in Live(p),
         NEW q, q = LinkDeleted(p, s)
  PROVE  /\ Sound(q, INVALID_SLOT_ID)
         /\ Live(q) = Live(p) \ {s}
         /\ \A r \in Live(q) : GetTuple(q, r) = GetTuple(p, r)
<1> DEFINE n == SlotCount(p)
           c == p.deleted_tuple_count
           head == p.free_list_head
           new == [p.slots[s] EXCEPT !.offset = head, !.deleted = TRUE]
           slots == [p.slots EXCEPT ![s] = new]
           alive == IF p.alive_tuple_count > 0 THEN p.alive_tuple_count - 1
                    ELSE p.alive_tuple_count
<1>1. /\ n \in Nat /\ DOMAIN p.slots = 0 .. n - 1
      /\ p \in PageState(n)
      /\ p.slots \in [0 .. n - 1 -> Slot]
      /\ p.free_space_offset \in 0 .. PageSize
      /\ head \in SlotId \cup {INVALID_SLOT_ID}
      /\ p.alive_tuple_count \in Nat /\ c \in Nat
      /\ Live(p) \subseteq 0 .. n - 1 /\ s \in 0 .. n - 1
      /\ INVALID_SLOT_ID \notin 0 .. n - 1 /\ 0 .. n - 1 \subseteq SlotId
      /\ SlotAreaEnd(p) <= p.free_space_offset
      /\ BodiesFit(p, s) /\ SlotsCounted(p)
  BY SoundParts DEF Sound, PageState
<1>2. /\ p.alive_tuple_count = Cardinality(Live(p)) /\ IsFiniteSet(Live(p))
      /\ c = Cardinality(Deleted(p)) /\ IsFiniteSet(Deleted(p))
      /\ Deleted(p) = (0 .. n - 1) \ Live(p)
  BY <1>1, Slots DEF SlotsCounted, Deleted
<1>3. q = [p EXCEPT !.slots = slots, !.free_list_head = s,
                    !.alive_tuple_count = alive,
                    !.deleted_tuple_count = c + 1]
  <2>1. LinkDeleted(p, s) =
          [p EXCEPT !.slots[s].offset = head, !.slots[s].deleted = TRUE,
                    !.free_list_head = s, !.alive_tuple_count = alive,
                    !.deleted_tuple_count = c + 1]
    BY <1>1 DEF LinkDeleted, PageState
  <2>2. [[p.slots EXCEPT ![s].offset = head] EXCEPT ![s].deleted = TRUE] = slots
    BY <1>1
  <2> QED
    BY <1>1, <2>1, <2>2 DEF PageState
<1>4. new \in Slot /\ new.deleted /\ new.offset = head
        /\ new.length = p.slots[s].length
  <2>1. head \in 0 .. PageSize
    <3>1. SlotId \subseteq 0 .. PageSize - 1
      BY SlotIds
    <3> HIDE DEF head
    <3> QED
      BY <1>1, <3>1, Sizes
  <2> QED
    BY <1>1, <2>1 DEF Slot
<1> HIDE DEF new
<1>5. /\ slots \in [0 .. n - 1 -> Slot]
      /\ slots[s] = new
      /\ \A r \in (0 .. n - 1) \ {s} : slots[r] = p.slots[r]
  BY <1>1, <1>4
<1> HIDE DEF slots
<1>6. alive = Cardinality(Live(p) \ {s}) /\ alive \in Nat
  <2>1. /\ Cardinality(Live(p) \ {s}) = Cardinality(Live(p)) - 1
        /\ Cardinality(Live(p) \ {s}) \in Nat
    BY <1>2, FS_RemoveElement, FS_CardinalityType
  <2> QED
    BY <1>1, <1>2, <2>1
<1>7. Cardinality(Deleted(p) \cup {s}) = c + 1 /\ s \notin Deleted(p)
  BY <1>2, FS_AddElement
<1> HIDE DEF alive
<1>8. /\ q \in PageState(n)
      /\ q.slots = slots /\ q.bytes = p.bytes
      /\ q.free_space_offset = p.free_space_offset
      /\ q.free_list_head = s
      /\ q.alive_tuple_count = alive /\ q.deleted_tuple_count = c + 1
  <2>1. s \in SlotId \cup {INVALID_SLOT_ID} /\ c + 1 \in Nat
    BY <1>1
  <2> QED
    BY <1>1, <1>3, <1>5, <1>6, <2>1 DEF PageState
<1>9. /\ DOMAIN q.slots = 0 .. n - 1 /\ SlotCount(q) = n
      /\ SlotAreaEnd(q) = SlotAreaEnd(p)
  BY <1>1, <1>5, <1>8 DEF SlotCount, SlotAreaEnd
<1>10. Live(q) = Live(p) \ {s} /\ Deleted(q) = Deleted(p) \cup {s}
  <2>1. Live(q) = Live(p) \ {s}
    <3>1. ASSUME NEW r \in 0 .. n - 1
          PROVE  r \in Live(q) <=> r \in Live(p) /\ r # s
      <4>1. CASE r = s
        BY <1>4, <1>5, <1>8, <4>1 DEF Live
      <4>2. CASE r # s
        BY <1>1, <1>5, <1>8, <1>9, <4>2 DEF Live
      <4> QED
        BY <4>1, <4>2
    <3>2. Live(q) \subseteq 0 .. n - 1
      BY <1>9 DEF Live
    <3> QED
      BY <1>1, <3>1, <3>2
  <2> QED
    BY <1>1, <1>2, <1>9, <2>1 DEF Deleted
<1>11. Kept(q, INVALID_SLOT_ID) = Kept(p, s) /\ Kept(p, s) = Live(p) \ {s}
  BY <1>1, <1>10 DEF Kept
<1>12. ASSUME NEW r \in Live(p) \ {s} PROVE q.slots[r] = p.slots[r]
  BY <1>1, <1>5, <1>8
<1>13. ASSUME NEW r \in Live(q) PROVE GetTuple(q, r) = GetTuple(p, r)
  BY <1>8, <1>10, <1>12 DEF GetTuple
<1>14. BodiesFit(q, INVALID_SLOT_ID)
  <2>1. NewOffset(q, INVALID_SLOT_ID)[n - 1] = NewOffset(p, s)[n - 1]
    <3>1. \A i \in 0 .. n - 1 : Weight(q, INVALID_SLOT_ID, i) = Weight(p, s, i)
      BY <1>11, <1>12 DEF Weight
    <3>2. DifferAt(n, p, n, s, q, n, INVALID_SLOT_ID, n)
      BY <1>1, <1>5, <1>8, <3>1 DEF DifferAt
    <3> QED
      BY <3>2, OffsetsAgree
  <2> QED
    BY <1>1, <1>8, <1>9, <1>11, <1>12, <2>1 DEF BodiesFit, Apart
<1>15. SlotsCounted(q)
  <2>1. PICK f \in [0 .. c -> 0 .. PageSize] : Links(p, f)
    BY <1>1 DEF SlotsCounted
  <2> DEFINE g == [i \in 0 .. c + 1 |-> IF i = 0 THEN s ELSE f[i - 1]]
  <2>2. /\ f[0] = head /\ f[c] = INVALID_SLOT_ID
        /\ \A i \in 0 .. c - 1 :
             f[i] \in Deleted(p) /\ p.slots[f[i]].offset = f[i + 1]
        /\ \A i, j \in 0 .. c - 1 : f[i] = f[j] => i = j
        /\ \A r \in Deleted(p) : \E i \in 0 .. c - 1 : f[i] = r
    BY <2>1 DEF Links
  <2>3. g \in [0 .. c + 1 -> 0 .. PageSize]
    <3>1. s \in 0 .. PageSize
      BY <1>1, SlotIds, Sizes
    <3> QED
      BY <1>1, <3>1
  <2>4. g[0] = s /\ \A i \in 1 .. c + 1 : g[i] = f[i - 1]
    BY <1>1
  <2> HIDE DEF g
  <2>5. g[0] = q.free_list_head /\ g[c + 1] = INVALID_SLOT_ID
    <3>1. c + 1 \in 1 .. c + 1 /\ (c + 1) - 1 = c
      BY <1>1
    <3> QED
      BY <1>8, <2>2, <2>4, <3>1
  <2>6. ASSUME NEW i \in 0 .. c
        PROVE  g[i] \in Deleted(q) /\ q.slots[g[i]].offset = g[i + 1]
    <3>1. CASE i = 0
      <4>1. g[1] = head
        BY <1>1, <2>2, <2>4
      <4> QED
        BY <1>4, <1>5, <1>8, <1>10, <2>4, <3>1, <4>1
    <3>2. CASE i # 0
      <4>1. /\ i \in 1 .. c + 1 /\ i + 1 \in 1 .. c + 1 /\ i - 1 \in 0 .. c - 1
            /\ (i - 1) + 1 = i /\ (i + 1) - 1 = i
        BY <1>1, <3>2
      <4>2. /\ g[i] = f[i - 1] /\ g[i + 1] = f[i]
            /\ f[i - 1] \in Deleted(p) /\ p.slots[f[i - 1]].offset = f[i]
        BY <2>2, <2>4, <4>1
      <4>3. q.slots[f[i - 1]] = p.slots[f[i - 1]]
        BY <1>2, <1>5, <1>7, <1>8, <4>2
      <4> QED
        BY <1>10, <4>2, <4>3
    <3> QED
      BY <3>1, <3>2
  <2>7. ASSUME NEW i \in 0 .. c, NEW j \in 0 .. c, g[i] = g[j] PROVE i = j
    <3>1. \A k \in 1 .. c : k - 1 \in 0 .. c - 1 /\ g[k] = f[k - 1]
                              /\ g[k] # s
      <4> TAKE k \in 1 .. c
      <4>1. k - 1 \in 0 .. c - 1 /\ k \in 1 .. c + 1
        BY <1>1
      <4> QED
        BY <1>7, <2>2, <2>4, <4>1
    <3>2. CASE i = 0 /\ j = 0
      BY <3>2
    <3>3. CASE i # 0 /\ j # 0
      <4>1. i \in 1 .. c /\ j \in 1 .. c
        BY <1>1, <3>3
      <4>2. f[i - 1] = f[j - 1]
        BY <2>7, <3>1, <4>1
      <4>3. i - 1 = j - 1
        BY <2>2, <3>1, <4>1, <4>2
      <4> QED
        BY <1>1, <4>1, <4>3
    <3>4. CASE i = 0 /\ j # 0
      <4>1. j \in 1 .. c
        BY <1>1, <3>4
      <4> QED
        BY <2>4, <2>7, <3>1, <3>4, <4>1
    <3>5. CASE i # 0 /\ j = 0
      <4>1. i \in 1 .. c
        BY <1>1, <3>5
      <4> QED
        BY <2>4, <2>7, <3>1, <3>5, <4>1
    <3> QED
      BY <3>2, <3>3, <3>4, <3>5
  <2>8. ASSUME NEW r \in Deleted(q) PROVE \E i \in 0 .. c : g[i] = r
    <3>1. CASE r = s
      BY <1>1, <2>4, <3>1
    <3>2. CASE r # s
      <4>1. PICK i \in 0 .. c - 1 : f[i] = r
        BY <1>10, <2>2, <3>2
      <4>2. i + 1 \in 1 .. c + 1 /\ i + 1 \in 0 .. c /\ (i + 1) - 1 = i
        BY <1>1
      <4> QED
        BY <2>4, <4>1, <4>2
    <3> QED
      BY <3>1, <3>2
  <2>9. (c + 1) - 1 = c
    BY <1>1
  <2>10. Links(q, g)
    BY <1>8, <2>5, <2>6, <2>7, <2>8, <2>9 DEF Links
  <2> QED
    BY <1>6, <1>7, <1>8, <1>10, <2>3, <2>10 DEF SlotsCounted
<1>16. Sound(q, INVALID_SLOT_ID)
  BY <1>1, <1>8, <1>9, <1>14, <1>15 DEF Sound
<1> QED
  BY <1>10, <1>13, <1>16

LEMMA FitsAlike ==
  ASSUME NEW p, NEW n \in Nat, p.slots \in [0 .. n - 1 -> Slot],
         NEW q, q.slots = p.slots, q.free_space_offset = p.free_space_offset,
         NEW skip, NEW skip1, Kept(q, skip1) = Kept(p, skip), BodiesFit(p, skip)
  PROVE  BodiesFit(q, skip1)
<1>1. SlotCount(p) = n /\ SlotCount(q) = n
  BY Slots
<1>2. NewOffset(q, skip1)[n - 1] = NewOffset(p, skip)[n - 1]
  <2>1. \A i \in 0 .. n - 1 : Weight(q, skip1, i) = Weight(p, skip, i)
    BY DEF Weight
  <2>2. DifferAt(n, p, n, skip, q, n, skip1, n)
    BY <2>1 DEF DifferAt
  <2> QED
    BY <2>2, OffsetsAgree
<1> QED
  BY <1>1, <1>2 DEF BodiesFit, Apart

(* The slot InsertTuple reuses, the head of the list, is deleted.          *)
LEMMA HeadReusable ==
  ASSUME NEW p, NEW skip, Sound(p, skip), Reuses(p)
  PROVE  /\ ReusableHead(p)
         /\ p.deleted_tuple_count \in Nat \ {0}
         /\ p.free_list_head \in Deleted(p)
         /\ p.slots[p.free_list_head].offset \in SlotId \cup {INVALID_SLOT_ID}
<1> DEFINE n == SlotCount(p)
           c == p.deleted_tuple_count
           head == p.free_list_head
<1>1. /\ n \in Nat /\ DOMAIN p.slots = 0 .. n - 1 /\ c \in Nat
      /\ 0 .. n - 1 \subseteq SlotId
  BY SoundParts DEF Sound, PageState
<1>2. PICK f \in [0 .. c -> 0 .. PageSize] : Links(p, f)
  BY DEF Sound, SlotsCounted
<1>3. /\ f[0] = head /\ f[c] = INVALID_SLOT_ID
      /\ \A i \in 0 .. c - 1 :
           f[i] \in Deleted(p) /\ p.slots[f[i]].offset = f[i + 1]
  BY <1>2 DEF Links
<1>4. c # 0 /\ 0 \in 0 .. c - 1
  BY <1>1, <1>3 DEF Reuses
<1>5. head \in Deleted(p) /\ p.slots[head].offset = f[1]
  BY <1>3, <1>4
<1>6. f[1] = INVALID_SLOT_ID \/ f[1] \in Deleted(p)
  <2>1. c = 1 \/ 1 \in 0 .. c - 1
    BY <1>1, <1>4
  <2> QED
    BY <1>3, <2>1
<1>7. Deleted(p) \subseteq 0 .. n - 1 /\ p.slots[head].deleted
  BY <1>1, <1>5 DEF Deleted, Live
<1>8. head < n /\ (f[1] = INVALID_SLOT_ID \/ f[1] < n)
  BY <1>1, <1>5, <1>6, <1>7
<1>9. ReusableHead(p)
  BY <1>5, <1>7, <1>8 DEF ReusableHead
<1> QED
  BY <1>1, <1>4, <1>5, <1>6, <1>7, <1>9

(* The page has room for tuple t, and no other claim to it is left.        *)
Accepts(p, t) ==
  /\ Sound(p, INVALID_SLOT_ID)
  /\ t \in Tuple /\ Len(t) >= 1
  /\ Needed(p, t) <= FreeSpace(p)

LEMMA SlotIsTaken ==
  ASSUME NEW p, NEW t, Accepts(p, t), NEW n, n = SlotCount(p),
         NEW q, q = TakeSlot(p), NEW s, s = SlotTaken(p),
         NEW m, m = (IF Reuses(p) THEN n ELSE n + 1)
  PROVE  /\ HasRoom(q, n, s, m, t)
         /\ q.slots = p.slots /\ Live(q) = Live(p) /\ s \notin Live(p)
         /\ \A r \in Live(p) : GetTuple(q, r) = GetTuple(p, r)
         /\ q.alive_tuple_count = p.alive_tuple_count
         /\ q.deleted_tuple_count = p.deleted_tuple_count - (IF Reuses(p) THEN 1 ELSE 0)
         /\ q.free_list_head = (IF Reuses(p) THEN p.slots[p.free_list_head].offset
                                             ELSE p.free_list_head)
<1>1. /\ Sound(p, INVALID_SLOT_ID) /\ t \in Tuple /\ Len(t) >= 1 /\ Len(t) \in Nat
      /\ Needed(p, t) <= FreeSpace(p)
  BY Tuples, Sizes DEF Accepts
<1>2. /\ n \in Nat /\ DOMAIN p.slots = 0 .. n - 1
      /\ p \in PageState(n) /\ BodiesFit(p, INVALID_SLOT_ID)
      /\ p.slots \in [0 .. n - 1 -> Slot]
      /\ p.bytes \in [Address -> Byte \cup {Other}]
      /\ p.free_space_offset \in 0 .. PageSize
      /\ Live(p) \subseteq 0 .. n - 1
      /\ Kept(p, INVALID_SLOT_ID) = Live(p)
      /\ SlotAreaEnd(p) = HeaderSize + n * SlotSize /\ SlotAreaEnd(p) \in Nat
      /\ SlotAreaEnd(p) <= p.free_space_offset
  BY <1>1, SoundParts DEF Sound, Kept
<1>3. FreeSpace(p) = p.free_space_offset - SlotAreaEnd(p)
  BY <1>1, FreeSpaceIs
<1>4. CASE Reuses(p)
  <2> DEFINE head == p.slots[p.free_list_head].offset
             c == p.deleted_tuple_count
  <2>1. /\ c \in Nat \ {0} /\ s \in Deleted(p) /\ s = p.free_list_head
        /\ head \in SlotId \cup {INVALID_SLOT_ID}
    BY <1>1, <1>4, HeadReusable DEF SlotTaken
  <2>2. q = [p EXCEPT !.free_list_head = head, !.deleted_tuple_count = c - 1]
    BY <1>2, <1>4 DEF TakeSlot, PageState
  <2> HIDE DEF head
  <2>3. /\ q \in PageState(n) /\ q.slots = p.slots /\ q.bytes = p.bytes
        /\ q.free_space_offset = p.free_space_offset
        /\ q.free_list_head = head /\ q.deleted_tuple_count = c - 1
        /\ q.alive_tuple_count = p.alive_tuple_count
    <3>1. c - 1 \in Nat
      BY <2>1
    <3> QED
      BY <1>2, <2>1, <2>2, <3>1 DEF PageState
  <2>4. Live(q) = Live(p) /\ s \notin Live(p) /\ s \in 0 .. n - 1
    BY <1>2, <2>1, <2>3 DEF Live, Deleted
  <2>5. BodiesFit(q, s)
    <3>1. Kept(q, s) = Kept(p, INVALID_SLOT_ID)
      BY <1>2, <2>4 DEF Kept
    <3> QED
      BY <1>2, <2>3, <3>1, FitsAlike
  <2>6. HeaderSize + m * SlotSize + Len(t) <= p.free_space_offset
    <3>1. m = n /\ Needed(p, t) = Len(t)
      BY <1>1, <1>4 DEF Needed
    <3>2. n * SlotSize \in Nat
      BY <1>2, Sizes
    <3> QED
      BY <1>1, <1>2, <1>3, <3>1, <3>2, Sizes, SMTT(30)
  <2>7. HasRoom(q, n, s, m, t)
    <3>1. s \in 0 .. n /\ s < n /\ m = n
      BY <1>2, <1>4, <2>4
    <3> QED
      BY <1>1, <1>2, <2>3, <2>5, <2>6, <3>1 DEF HasRoom
  <2>8. \A r \in Live(p) : GetTuple(q, r) = GetTuple(p, r)
    BY <2>3 DEF GetTuple
  <2> QED
    BY <1>4, <2>3, <2>4, <2>7, <2>8 DEF head
<1>5. CASE ~Reuses(p)
  <2> DEFINE end == SlotAreaEnd(p)
             bytes == [a \in Address |-> IF a \in end .. end + SlotSize - 1
                                         THEN Other ELSE p.bytes[a]]
  <2>1. q = [p EXCEPT !.bytes = bytes]
    BY <1>2, <1>5 DEF TakeSlot
  <2>2. bytes \in [Address -> Byte \cup {Other}]
    BY <1>2
  <2>3. \A a \in Address : a >= end + SlotSize => bytes[a] = p.bytes[a]
    BY <1>2, Sizes
  <2> HIDE DEF bytes
  <2>4. /\ q \in PageState(n) /\ q.slots = p.slots /\ q.bytes = bytes
        /\ q.free_space_offset = p.free_space_offset
        /\ q.free_list_head = p.free_list_head
        /\ q.deleted_tuple_count = p.deleted_tuple_count
        /\ q.alive_tuple_count = p.alive_tuple_count
    BY <1>2, <2>1, <2>2 DEF PageState
  <2>5. Live(q) = Live(p) /\ s = n /\ s \notin Live(p)
    BY <1>2, <1>5, <2>4 DEF Live, SlotTaken
  <2>6. BodiesFit(q, s)
    <3>1. Kept(q, s) = Kept(p, INVALID_SLOT_ID)
      BY <1>2, <2>5 DEF Kept
    <3> QED
      BY <1>2, <2>4, <3>1, FitsAlike
  <2>7. /\ end + SlotSize + Len(t) <= p.free_space_offset
        /\ HeaderSize + m * SlotSize = end + SlotSize /\ m = n + 1
    <3>1. m = n + 1 /\ Needed(p, t) = Len(t) + SlotSize
      BY <1>1, <1>5 DEF Needed
    <3>2. n * SlotSize \in Nat /\ (n + 1) * SlotSize = n * SlotSize + SlotSize
      BY <1>2, Sizes, SMTT(30)
    <3>3. HeaderSize + m * SlotSize = end + SlotSize
      <4>1. end = HeaderSize + n * SlotSize
        BY <1>2
      <4> HIDE DEF end
      <4> QED
        BY <3>1, <3>2, <4>1, Sizes
    <3>4. /\ Len(t) + SlotSize <= p.free_space_offset - end
          /\ end \in Nat /\ p.free_space_offset \in Nat
      BY <1>1, <1>2, <1>3, <3>1, Sizes
    <3>5. end + SlotSize + Len(t) <= p.free_space_offset
      <4> HIDE DEF end
      <4> QED
        BY <1>1, <3>4, Sizes
    <3> QED
      BY <3>1, <3>3, <3>5
  <2>8. HasRoom(q, n, s, m, t)
    <3>1. s \in 0 .. n /\ ~(s < n) /\ m = n + 1
      BY <1>2, <2>5, <2>7
    <3>2. HeaderSize + m * SlotSize + Len(t) <= q.free_space_offset
      BY <2>4, <2>7
    <3> QED
      BY <1>1, <1>2, <2>4, <2>6, <3>1, <3>2 DEF HasRoom
  <2>9. ASSUME NEW r \in Live(p) PROVE GetTuple(q, r) = GetTuple(p, r)
    <3> DEFINE off == p.slots[r].offset
               l == p.slots[r].length
    <3>1. /\ off \in Nat /\ l \in Nat /\ off + l <= PageSize
          /\ off >= p.free_space_offset
      <4>1. off \in Nat /\ l \in Nat
        <5>1. p.slots[r] \in Slot
          BY <1>2
        <5> QED
          BY <5>1, Sizes DEF Slot
      <4> QED
        BY <1>2, <4>1 DEF BodiesFit
    <3>2. /\ GetTuple(p, r) = [i \in 1 .. l |-> p.bytes[off + i - 1]]
          /\ GetTuple(q, r) = [i \in 1 .. l |-> bytes[off + i - 1]]
      BY <2>4 DEF GetTuple
    <3> HIDE DEF off, l
    <3>3. ASSUME NEW i \in 1 .. l
          PROVE  bytes[off + i - 1] = p.bytes[off + i - 1]
      <4>1. /\ end + SlotSize + Len(t) <= p.free_space_offset
            /\ end \in Nat /\ p.free_space_offset \in Nat
        <5>1. p.free_space_offset \in Nat /\ end \in Nat
          BY <1>2, Sizes
        <5> HIDE DEF end
        <5> QED
          BY <2>7, <5>1
      <4>2. off + i - 1 \in Address /\ off + i - 1 >= end + SlotSize
        <5> HIDE DEF end
        <5> QED
          BY <1>1, <3>1, <4>1, Sizes
      <4> QED
        BY <2>3, <4>2
    <3> QED
      BY <3>2, <3>3
  <2>10. p.deleted_tuple_count - 0 = p.deleted_tuple_count
    BY <1>2 DEF PageState
  <2> QED
    BY <1>5, <2>4, <2>5, <2>8, <2>9, <2>10
<1> QED
  BY <1>4, <1>5

(* The list of deleted slots without its head, when that is reused; all of *)
(* it when the tuple gets a new slot.                                      *)
LEMMA ListAfterTaking ==
  ASSUME NEW p, NEW skip, Sound(p, skip), NEW s, s = SlotTaken(p),
         NEW q, q.slots \in [DOMAIN p.slots \cup {s} -> Slot],
         ~q.slots[s].deleted,
         \A r \in DOMAIN p.slots \ {s} : q.slots[r] = p.slots[r],
         q.alive_tuple_count = p.alive_tuple_count + 1,
         q.deleted_tuple_count = p.deleted_tuple_count - (IF Reuses(p) THEN 1 ELSE 0),
         q.free_list_head = (IF Reuses(p) THEN p.slots[p.free_list_head].offset
                                             ELSE p.free_list_head)
  PROVE  SlotsCounted(q)
<1> DEFINE n == SlotCount(p)
           c == p.deleted_tuple_count
           d == q.deleted_tuple_count
<1>1. /\ n \in Nat /\ DOMAIN p.slots = 0 .. n - 1 /\ c \in Nat
      /\ p.slots \in [0 .. n - 1 -> Slot]
      /\ Live(p) \subseteq 0 .. n - 1
  BY SoundParts DEF Sound, PageState
<1>2. /\ p.alive_tuple_count = Cardinality(Live(p)) /\ IsFiniteSet(Live(p))
      /\ c = Cardinality(Deleted(p)) /\ IsFiniteSet(Deleted(p))
      /\ Cardinality(Live(p)) \in Nat
      /\ Deleted(p) = (0 .. n - 1) \ Live(p)
  BY <1>1, Slots DEF Sound, SlotsCounted, Deleted
<1>3. PICK f \in [0 .. c -> 0 .. PageSize] : Links(p, f)
  BY DEF Sound, SlotsCounted
<1>4. /\ f[0] = p.free_list_head /\ f[c] = INVALID_SLOT_ID
      /\ \A i \in 0 .. c - 1 :
           f[i] \in Deleted(p) /\ p.slots[f[i]].offset = f[i + 1]
      /\ \A i, j \in 0 .. c - 1 : f[i] = f[j] => i = j
      /\ \A r \in Deleted(p) : \E i \in 0 .. c - 1 : f[i] = r
  BY <1>3 DEF Links
<1>5. s \notin Live(p)
  BY <1>1, HeadReusable DEF SlotTaken, Deleted
<1>6. Live(q) = Live(p) \cup {s} /\ Deleted(q) = Deleted(p) \ {s}
  <2>1. DOMAIN q.slots = (0 .. n - 1) \cup {s}
    BY <1>1
  <2>2. Live(q) = Live(p) \cup {s}
    BY <1>1, <2>1 DEF Live
  <2> QED
    BY <1>1, <2>1, <2>2 DEF Live, Deleted
<1>7. q.alive_tuple_count = Cardinality(Live(q))
  <2>1. Cardinality(Live(p) \cup {s}) = Cardinality(Live(p)) + 1
    BY <1>2, <1>5, FS_AddElement
  <2> QED
    BY <1>2, <1>6, <2>1
<1>8. CASE ~Reuses(p)
  <2>1. Deleted(q) = Deleted(p) /\ d = c /\ q.free_list_head = p.free_list_head
    BY <1>1, <1>2, <1>6, <1>8 DEF SlotTaken
  <2>2. \A r \in Deleted(p) : q.slots[r] = p.slots[r]
    BY <1>1, <1>2, <1>8 DEF SlotTaken
  <2>3. Links(q, f)
    BY <1>4, <2>1, <2>2 DEF Links
  <2> QED
    BY <1>2, <1>3, <1>7, <2>1, <2>3 DEF SlotsCounted
<1>9. CASE Reuses(p)
  <2>1. /\ s = p.free_list_head /\ s \in Deleted(p)
        /\ q.free_list_head = p.slots[s].offset
        /\ c \in Nat \ {0} /\ d = c - 1 /\ d \in Nat
    BY <1>9, HeadReusable DEF SlotTaken
  <2>2. d = Cardinality(Deleted(q))
    BY <1>2, <1>6, <2>1, FS_RemoveElement
  <2> DEFINE g == [i \in 0 .. d |-> f[i + 1]]
  <2>3. /\ g \in [0 .. d -> 0 .. PageSize]
        /\ \A i \in 0 .. d : g[i] = f[i + 1]
    BY <2>1
  <2> HIDE DEF g, d
  <2>4. g[0] = q.free_list_head /\ g[d] = INVALID_SLOT_ID
    <3>1. 0 \in 0 .. d /\ d \in 0 .. d /\ d + 1 = c /\ 0 \in 0 .. c - 1 /\ 0 + 1 = 1
      BY <2>1
    <3>2. f[0] = s /\ p.slots[f[0]].offset = f[1]
      BY <1>4, <2>1, <3>1, SMTT(30)
    <3> QED
      BY <1>4, <2>1, <2>3, <3>1, <3>2
  <2>5. ASSUME NEW i \in 0 .. d - 1
        PROVE  g[i] \in Deleted(q) /\ q.slots[g[i]].offset = g[i + 1]
    <3>1. /\ i + 1 \in 0 .. c - 1 /\ 0 \in 0 .. c - 1 /\ i + 1 # 0
          /\ i \in 0 .. d /\ i + 1 \in 0 .. d
      BY <2>1
    <3>2. /\ f[i + 1] \in Deleted(p) /\ f[i + 1] # f[0]
          /\ p.slots[f[i + 1]].offset = f[(i + 1) + 1]
      BY <1>4, <3>1
    <3>3. q.slots[f[i + 1]] = p.slots[f[i + 1]] /\ f[i + 1] \in Deleted(q)
      BY <1>1, <1>2, <1>4, <1>6, <2>1, <3>2
    <3> QED
      BY <2>3, <3>1, <3>2, <3>3
  <2>6. ASSUME NEW i \in 0 .. d - 1, NEW j \in 0 .. d - 1, g[i] = g[j]
        PROVE  i = j
    <3>1. /\ i + 1 \in 0 .. c - 1 /\ j + 1 \in 0 .. c - 1
          /\ i \in 0 .. d /\ j \in 0 .. d
      BY <2>1
    <3>2. i + 1 = j + 1
      BY <1>4, <2>3, <2>6, <3>1
    <3> QED
      BY <2>1, <3>2
  <2>7. ASSUME NEW r \in Deleted(q) PROVE \E i \in 0 .. d - 1 : g[i] = r
    <3>1. r \in Deleted(p) /\ r # s
      BY <1>6
    <3>2. PICK i \in 0 .. c - 1 : f[i] = r
      BY <1>4, <3>1
    <3>3. i # 0
      BY <1>4, <2>1, <3>1, <3>2
    <3>4. i - 1 \in 0 .. d - 1 /\ i - 1 \in 0 .. d /\ (i - 1) + 1 = i
      BY <2>1, <3>3
    <3> QED
      BY <2>3, <3>2, <3>4
  <2>8. Links(q, g)
    BY <2>4, <2>5, <2>6, <2>7 DEF Links, d
  <2> QED
    BY <1>7, <2>2, <2>3, <2>8 DEF SlotsCounted, d
<1> QED
  BY <1>8, <1>9

LEMMA Inserted ==
  ASSUME NEW p, NEW t, Accepts(p, t), NEW s, s = SlotTaken(p),
         NEW r, r = [PlaceTuple(TakeSlot(p), s, t) EXCEPT
                       !.alive_tuple_count = @ + 1]
  PROVE  /\ Sound(r, INVALID_SLOT_ID)
         /\ s \in SlotId /\ s \notin Live(p)
         /\ Live(r) = Live(p) \cup {s}
         /\ GetTuple(r, s) = t
         /\ \A u \in Live(p) : GetTuple(r, u) = GetTuple(p, u)
<1> DEFINE n == SlotCount(p)
           m == IF Reuses(p) THEN n ELSE n + 1
           q == TakeSlot(p)
           b == PlaceTuple(q, s, t)
           alive == p.alive_tuple_count
<1>1. /\ HasRoom(q, n, s, m, t)
      /\ q.slots = p.slots /\ Live(q) = Live(p) /\ s \notin Live(p)
      /\ \A u \in Live(p) : GetTuple(q, u) = GetTuple(p, u)
      /\ q.alive_tuple_count = alive
      /\ q.deleted_tuple_count = p.deleted_tuple_count - (IF Reuses(p) THEN 1 ELSE 0)
      /\ q.free_list_head = (IF Reuses(p) THEN p.slots[p.free_list_head].offset
                                          ELSE p.free_list_head)
  BY SlotIsTaken
<1> HIDE DEF q
<1>2. /\ b \in PageState(m) /\ m \in Nat
      /\ BodiesFit(b, INVALID_SLOT_ID)
      /\ HeaderSize + m * SlotSize <= b.free_space_offset
      /\ Live(b) = Live(q) \cup {s}
      /\ \A u \in Live(q) \ {s} : GetTuple(b, u) = GetTuple(q, u)
      /\ GetTuple(b, s) = t
      /\ \A u \in (0 .. n - 1) \ {s} : b.slots[u] = q.slots[u]
      /\ b.free_list_head = q.free_list_head
      /\ b.alive_tuple_count = q.alive_tuple_count
      /\ b.deleted_tuple_count = q.deleted_tuple_count
  BY <1>1, TuplePlaced
<1>3. r = [b EXCEPT !.alive_tuple_count = b.alive_tuple_count + 1]
  BY DEF q
<1> HIDE DEF b, m
<1>4. /\ r \in PageState(m)
      /\ r.slots = b.slots /\ r.bytes = b.bytes
      /\ r.free_space_offset = b.free_space_offset
      /\ r.free_list_head = b.free_list_head
      /\ r.alive_tuple_count = b.alive_tuple_count + 1
      /\ r.deleted_tuple_count = b.deleted_tuple_count
  <2>1. b.alive_tuple_count + 1 \in Nat
    BY <1>2 DEF PageState
  <2> QED
    BY <1>2, <1>3, <2>1 DEF PageState
<1>5. /\ b.slots \in [0 .. m - 1 -> Slot] /\ SlotCount(r) = m
      /\ SlotAreaEnd(r) = HeaderSize + m * SlotSize
  <2>1. b.slots \in [0 .. m - 1 -> Slot] /\ r.slots \in [0 .. m - 1 -> Slot]
    BY <1>2, <1>4 DEF PageState
  <2> QED
    BY <1>2, <2>1, Slots
<1>6. Live(r) = Live(b) /\ \A u \in Live(b) : GetTuple(r, u) = GetTuple(b, u)
  BY <1>4 DEF Live, GetTuple
<1>7. /\ Sound(p, INVALID_SLOT_ID)
      /\ n \in Nat /\ DOMAIN p.slots = 0 .. n - 1
      /\ s \in 0 .. n /\ m = (IF s < n THEN n ELSE n + 1)
  BY <1>1, SoundParts DEF Accepts, HasRoom
<1>8. (0 .. n - 1) \cup {s} = 0 .. m - 1 /\ s \in 0 .. m - 1
  BY <1>7
<1>9. BodiesFit(r, INVALID_SLOT_ID)
  <2>1. Kept(r, INVALID_SLOT_ID) = Kept(b, INVALID_SLOT_ID)
    BY <1>6 DEF Kept
  <2> QED
    BY <1>2, <1>4, <1>5, <2>1, FitsAlike
<1>10. SlotsCounted(r)
  <2>1. s \in Live(r)
    BY <1>2, <1>6
  <2>2. /\ r.slots \in [DOMAIN p.slots \cup {s} -> Slot] /\ ~r.slots[s].deleted
        /\ \A u \in DOMAIN p.slots \ {s} : r.slots[u] = p.slots[u]
    BY <1>1, <1>2, <1>4, <1>5, <1>7, <1>8, <2>1 DEF Live
  <2>3. /\ r.alive_tuple_count = p.alive_tuple_count + 1
        /\ r.deleted_tuple_count
             = p.deleted_tuple_count - (IF Reuses(p) THEN 1 ELSE 0)
        /\ r.free_list_head = (IF Reuses(p) THEN p.slots[p.free_list_head].offset
                                            ELSE p.free_list_head)
    BY <1>1, <1>2, <1>4
  <2> QED
    BY <1>7, <2>2, <2>3, ListAfterTaking
<1>11. Sound(r, INVALID_SLOT_ID)
  BY <1>2, <1>4, <1>5, <1>9, <1>10 DEF Sound
<1>12. s \in SlotId
  <2>1. 0 .. m - 1 \subseteq SlotId
    BY <1>5, <1>11, SoundParts
  <2> QED
    BY <1>8, <2>1
<1> QED
  BY <1>1, <1>2, <1>6, <1>11, <1>12

(* An updated record that no longer fits where it was goes elsewhere.      *)
LEMMA PlacedAgain ==
  ASSUME NEW p, NEW s, Sound(p, s), s \in Live(p),
         NEW t \in Tuple, Len(t) >= 1, Len(t) <= FreeSpace(p),
         NEW q, q = PlaceTuple(p, s, t)
  PROVE  /\ Sound(q, INVALID_SLOT_ID)
         /\ Live(q) = Live(p)
         /\ GetTuple(q, s) = t
         /\ \A r \in Live(p) \ {s} : GetTuple(q, r) = GetTuple(p, r)
<1> DEFINE n == SlotCount(p)
<1>1. /\ n \in Nat /\ DOMAIN p.slots = 0 .. n - 1 /\ s \in 0 .. n - 1
      /\ p \in PageState(n) /\ BodiesFit(p, s) /\ SlotsCounted(p)
      /\ Live(p) \subseteq 0 .. n - 1
      /\ p.free_space_offset \in 0 .. PageSize
      /\ SlotAreaEnd(p) = HeaderSize + n * SlotSize /\ SlotAreaEnd(p) \in Nat
  BY SoundParts DEF Sound
<1>2. HasRoom(p, n, s, n, t)
  <2>1. SlotAreaEnd(p) + Len(t) <= p.free_space_offset
    <3>1. FreeSpace(p) = p.free_space_offset - SlotAreaEnd(p)
      BY FreeSpaceIs
    <3>2. Len(t) \in Nat
      BY Tuples, Sizes
    <3> QED
      BY <1>1, <3>1, <3>2, Sizes
  <2> QED
    BY <1>1, <2>1 DEF HasRoom
<1>3. /\ q \in PageState(n)
      /\ BodiesFit(q, INVALID_SLOT_ID)
      /\ HeaderSize + n * SlotSize <= q.free_space_offset
      /\ Live(q) = Live(p) \cup {s}
      /\ \A r \in Live(p) \ {s} : GetTuple(q, r) = GetTuple(p, r)
      /\ GetTuple(q, s) = t
      /\ \A r \in (0 .. n - 1) \ {s} : q.slots[r] = p.slots[r]
      /\ q.free_list_head = p.free_list_head
      /\ q.alive_tuple_count = p.alive_tuple_count
      /\ q.deleted_tuple_count = p.deleted_tuple_count
  BY <1>2, TuplePlaced
<1>4. /\ DOMAIN q.slots = 0 .. n - 1 /\ SlotCount(q) = n
      /\ SlotAreaEnd(q) = HeaderSize + n * SlotSize
  <2>1. q.slots \in [0 .. n - 1 -> Slot]
    BY <1>3 DEF PageState
  <2> QED
    BY <1>1, <2>1, Slots
<1>5. SlotsCounted(q)
  <2>1. SameList(p, q)
    BY <1>1, <1>3, <1>4 DEF SameList, Deleted
  <2> QED
    BY <1>1, <2>1, SameCounts
<1> QED
  BY <1>1, <1>3, <1>4, <1>5 DEF Sound

-------------------------------------------------------------------------------
(* What the operations do to a sound page. *)

(* The records of the slots in others are left alone. *)
Spares(p, q, others) == \A r \in others : GetTuple(q, r) = GetTuple(p, r)

(* The live bodies, but that of skip, leave less room than is needed.      *)
TooFull(p, skip, needed) ==
  NewOffset(p, skip)[SlotCount(p) - 1] - SlotAreaEnd(p) < needed

LEMMA Compacted ==
  ASSUME NEW p, NEW skip, Sound(p, skip), NEW needed,
         NEW c, c = CompactIfNeeded(p, needed, skip)
  PROVE  /\ c.ok /\ Sound(c.page, skip)
         /\ Live(c.page) = Live(p) /\ Spares(p, c.page, Kept(p, skip))
         /\ c.page.free_list_head = p.free_list_head
         /\ FreeSpace(c.page) < needed => TooFull(p, skip, needed)
<1>1. /\ c.ok /\ Sound(c.page, skip) /\ SameRecords(p, c.page, skip)
      /\ SlotAreaEnd(c.page) = SlotAreaEnd(p)
      /\ FreeSpace(c.page) < needed =>
           c.page.free_space_offset = NewOffset(p, skip)[SlotCount(p) - 1]
  BY CompactsIfNeeded
<1>2. FreeSpace(c.page) = c.page.free_space_offset - SlotAreaEnd(c.page)
  BY <1>1, FreeSpaceIs
<1> QED
  BY <1>1, <1>2 DEF SameRecords, Spares, TooFull

InsertOutcome(p, t, o) ==
  /\ Sound(o.page, INVALID_SLOT_ID)
  /\ \/ /\ o.error = "none"
        /\ \E s \in SlotId \ Live(p) :
             /\ Live(o.page) = Live(p) \cup {s}
             /\ GetTuple(o.page, s) = t
     \/ /\ o.error \in {"InvalidTupleSize", "InsufficientSpace"}
        /\ Live(o.page) = Live(p)
  /\ Spares(p, o.page, Live(p))
  /\ o.error = "InsufficientSpace" =>
       TooFull(p, INVALID_SLOT_ID, Needed(p, t))

LEMMA InsertTupleDoes ==
  ASSUME NEW p, Sound(p, INVALID_SLOT_ID), NEW t \in Tuple,
         NEW o, o = InsertTuple(p, t)
  PROVE  InsertOutcome(p, t, o)
<1> DEFINE c == CompactIfNeeded(p, Needed(p, t), INVALID_SLOT_ID)
           q == c.page
           r == [PlaceTuple(TakeSlot(q), SlotTaken(q), t) EXCEPT
                   !.alive_tuple_count = @ + 1]
<1>1. RepairTupleCounters(p) = p
  BY NothingToRepair
<1>2. Kept(p, INVALID_SLOT_ID) = Live(p)
  BY SoundParts DEF Kept
<1>3. /\ c.ok /\ Sound(q, INVALID_SLOT_ID)
      /\ Live(q) = Live(p) /\ Spares(p, q, Live(p))
      /\ q.free_list_head = p.free_list_head
      /\ FreeSpace(q) < Needed(p, t) =>
           TooFull(p, INVALID_SLOT_ID, Needed(p, t))
  BY <1>2, Compacted
<1>4. /\ Reuses(p) => ReusableHead(p)
      /\ Reuses(q) => q.deleted_tuple_count # 0
  BY <1>3, HeadReusable
<1>5. Needed(q, t) = Needed(p, t)
  BY <1>3 DEF Needed, Reuses
<1>6. o = IF ~ValidSize(t) THEN Outcome(p, "InvalidTupleSize")
          ELSE IF FreeSpace(q) < Needed(q, t)
               THEN Outcome(q, "InsufficientSpace")
          ELSE Outcome(r, "none")
  BY <1>1, <1>3, <1>4 DEF InsertTuple
<1> HIDE DEF c, r
<1>7. CASE ~ValidSize(t)
  BY <1>6, <1>7 DEF Outcome, Spares, InsertOutcome
<1>8. CASE ValidSize(t) /\ FreeSpace(q) < Needed(q, t)
  BY <1>3, <1>5, <1>6, <1>8 DEF Outcome, InsertOutcome
<1>9. CASE ValidSize(t) /\ ~(FreeSpace(q) < Needed(q, t))
  <2>1. o = Outcome(r, "none")
    BY <1>6, <1>9
  <2>2. Accepts(q, t)
    <3>1. Len(t) \in Nat /\ Len(t) >= 1
      BY <1>9, Tuples, Sizes DEF ValidSize
    <3>2. FreeSpace(q) \in Nat /\ Needed(q, t) \in Nat
      BY <1>3, <3>1, FreeSpaceIs, Sizes DEF Needed
    <3> QED
      BY <1>3, <1>9, <3>1, <3>2 DEF Accepts
  <2> DEFINE s == SlotTaken(q)
  <2>3. /\ Sound(r, INVALID_SLOT_ID)
        /\ s \in SlotId /\ s \notin Live(q)
        /\ Live(r) = Live(q) \cup {s}
        /\ GetTuple(r, s) = t
        /\ \A u \in Live(q) : GetTuple(r, u) = GetTuple(q, u)
    BY <2>2, Inserted DEF r
  <2>4. Spares(p, r, Live(p))
    BY <1>3, <2>3 DEF Spares
  <2> HIDE DEF s
  <2>5. \E u \in SlotId \ Live(p) : /\ Live(r) = Live(p) \cup {u}
                                    /\ GetTuple(r, u) = t
    BY <1>3, <2>3
  <2> QED
    BY <2>1, <2>3, <2>4, <2>5 DEF Outcome, InsertOutcome
<1> QED
  BY <1>7, <1>8, <1>9

UpdateOutcome(p, s, t, o) ==
  \/ /\ o.error = "none" /\ s \in Live(p)
     /\ Sound(o.page, INVALID_SLOT_ID)
     /\ Live(o.page) = Live(p) /\ GetTuple(o.page, s) = t
     /\ Spares(p, o.page, Live(p) \ {s})
  \/ /\ o.error = "InsufficientSpace" /\ s \in Live(p)
     /\ Sound(o.page, s)
     /\ Live(o.page) = Live(p) /\ Spares(p, o.page, Live(p) \ {s})
     /\ TooFull(p, s, Len(t))
  \/ /\ o.error \in {"SlotOutOfRange", "SlotAlreadyDeleted", "InvalidTupleSize"}
     /\ o.page = p

LEMMA UpdateTupleDoes ==
  ASSUME NEW p, Sound(p, INVALID_SLOT_ID), NEW s, NEW t \in Tuple,
         NEW o, o = UpdateTuple(p, s, t)
  PROVE  UpdateOutcome(p, s, t, o)
<1> DEFINE c == CompactIfNeeded(p, Len(t), s)
           q == c.page
<1>1. RepairTupleCounters(p) = p
  BY NothingToRepair
<1>2. CASE s \notin Live(p) \/ ~ValidSize(t)
  BY <1>1, <1>2 DEF UpdateTuple, Outcome, Live, UpdateOutcome
<1>3. CASE s \in Live(p) /\ ValidSize(t)
  <2>1. s \in DOMAIN p.slots /\ ~p.slots[s].deleted
    BY <1>3 DEF Live
  <2>2. Len(t) \in Nat /\ Len(t) >= 1
    BY <1>3, Tuples, Sizes DEF ValidSize
  <2>3. Sound(p, s) /\ Kept(p, s) = Live(p) \ {s}
    BY <1>3, SkipOne DEF Kept
  <2>4. /\ c.ok /\ Sound(q, s)
        /\ Live(q) = Live(p) /\ Spares(p, q, Live(p) \ {s})
        /\ FreeSpace(q) < Len(t) => TooFull(p, s, Len(t))
    <3>1. /\ c.ok /\ Sound(q, s)
          /\ Live(q) = Live(p) /\ Spares(p, q, Kept(p, s))
          /\ FreeSpace(q) < Len(t) => TooFull(p, s, Len(t))
      <4> DEFINE b == CompactIfNeeded(p, Len(t), s)
      <4>1. /\ b.ok /\ Sound(b.page, s)
            /\ Live(b.page) = Live(p) /\ Spares(p, b.page, Kept(p, s))
            /\ FreeSpace(b.page) < Len(t) => TooFull(p, s, Len(t))
        BY <2>3, Compacted
      <4> QED
        BY <4>1
    <3> QED
      BY <2>3, <3>1
  <2>5. o = IF Len(t) <= p.slots[s].length
            THEN Outcome(Overwritten(p, s, t), "none")
            ELSE IF FreeSpace(q) < Len(t) THEN Outcome(q, "InsufficientSpace")
            ELSE Outcome(PlaceTuple(q, s, t), "none")
    BY <1>1, <1>3, <2>1, <2>4 DEF UpdateTuple, Overwritten
  <2> HIDE DEF c
  <2>6. CASE Len(t) <= p.slots[s].length
    <3>1. Shortens(p, s, t)
      BY <1>3, <2>2, <2>6 DEF Shortens
    <3> DEFINE r == Overwritten(p, s, t)
    <3>2. /\ Sound(r, INVALID_SLOT_ID) /\ Live(r) = Live(p)
          /\ \A u \in Live(p) \ {s} : GetTuple(r, u) = GetTuple(p, u)
          /\ GetTuple(r, s) = t
      BY <3>1, UpdatedInPlace
    <3>3. o = Outcome(r, "none")
      BY <2>5, <2>6
    <3> HIDE DEF r
    <3> QED
      BY <1>3, <3>2, <3>3 DEF Outcome, Spares, UpdateOutcome
  <2>7. CASE ~(Len(t) <= p.slots[s].length) /\ FreeSpace(q) < Len(t)
    BY <1>3, <2>4, <2>5, <2>7 DEF Outcome, UpdateOutcome
  <2>8. CASE ~(Len(t) <= p.slots[s].length) /\ ~(FreeSpace(q) < Len(t))
    <3> DEFINE r == PlaceTuple(q, s, t)
    <3>1. Len(t) <= FreeSpace(q)
      BY <2>2, <2>4, <2>8, FreeSpaceIs
    <3>2. /\ Sound(r, INVALID_SLOT_ID) /\ Live(r) = Live(q)
          /\ \A u \in Live(q) \ {s} : GetTuple(r, u) = GetTuple(q, u)
          /\ GetTuple(r, s) = t
      BY <1>3, <2>2, <2>4, <3>1, PlacedAgain
    <3>3. o = Outcome(r, "none")
      BY <2>5, <2>8
    <3> HIDE DEF r
    <3> QED
      BY <1>3, <2>4, <3>2, <3>3 DEF Outcome, Spares, UpdateOutcome
  <2> QED
    BY <2>6, <2>7, <2>8
<1> QED
  BY <1>2, <1>3

DeleteOutcome(p, s, o) ==
  \/ /\ o.error = "none" /\ s \in Live(p)
     /\ Sound(o.page, INVALID_SLOT_ID)
     /\ Live(o.page) = Live(p) \ {s}
     /\ Spares(p, o.page, Live(p) \ {s})
  \/ /\ o.error \in {"SlotOutOfRange", "SlotAlreadyDeleted"}
     /\ o.page = p /\ s \notin Live(p)

LEMMA MarkDelTupleDoes ==
  ASSUME NEW p, NEW skip, Sound(p, skip), NEW s,
         s \in Live(p) => Sound(p, s),
         NEW o, o = MarkDelTuple(p, s)
  PROVE  DeleteOutcome(p, s, o)
<1> DEFINE c == CompactTupleBodies(p, s)
           q == c.page
<1>1. RepairTupleCounters(p) = p
  BY NothingToRepair
<1>2. CASE s \notin Live(p)
  BY <1>1, <1>2 DEF MarkDelTuple, Outcome, Live, DeleteOutcome
<1>3. CASE s \in Live(p)
  <2>1. s \in DOMAIN p.slots /\ ~p.slots[s].deleted
    BY <1>3 DEF Live
  <2>2. /\ c.ok /\ Sound(q, s) /\ Live(q) = Live(p)
        /\ Spares(p, q, Live(p) \ {s})
    BY <1>3, Compacts DEF SameRecords, Spares, Kept
  <2> DEFINE r == LinkDeleted(q, s)
  <2>3. /\ Sound(r, INVALID_SLOT_ID)
        /\ Live(r) = Live(q) \ {s}
        /\ \A u \in Live(r) : GetTuple(r, u) = GetTuple(q, u)
    BY <1>3, <2>2, DeletedLinked
  <2>4. o = Outcome(r, "none")
    BY <1>1, <2>1, <2>2 DEF MarkDelTuple
  <2> HIDE DEF r, c
  <2>5. Spares(p, r, Live(p) \ {s})
    BY <2>2, <2>3 DEF Spares
  <2> QED
    BY <1>3, <2>2, <2>3, <2>4, <2>5 DEF Outcome, DeleteOutcome
<1> QED
  BY <1>2, <1>3

-------------------------------------------------------------------------------
(* The invariant. *)

(* What IInv says in the two cases there are.                              *)
LEMMA Cases ==
  ASSUME IInv
  PROVE  \/ moving = {} /\ Sound(page, INVALID_SLOT_ID)
         \/ \E s \in Live(page) : moving = {s} /\ Sound(page, s)
BY DEF IInv

LEMMA InitHolds == Init => IInv
<1> SUFFICES ASSUME Init PROVE IInv
  OBVIOUS
<1> DEFINE p == InitForNewPage
<1>1. page = p /\ moving = {}
  BY DEF Init
<1>2. p \in PageState(0) /\ p.slots \in [0 .. 0 - 1 -> Slot] /\ DOMAIN p.slots = {}
  <2>1. 0 .. 0 - 1 = {}
    OBVIOUS
  <2>2. [s \in {} |-> [offset |-> 0, length |-> 0, deleted |-> FALSE]]
          \in [0 .. 0 - 1 -> Slot]
    BY <2>1
  <2>3. [a \in Address |-> Other] \in [Address -> Byte \cup {Other}]
    OBVIOUS
  <2>4. PageSize \in 0 .. PageSize
    BY Sizes
  <2> QED
    BY <2>1, <2>2, <2>3, <2>4, Sizes DEF InitForNewPage, PageState
<1>3. /\ p.alive_tuple_count = 0 /\ p.deleted_tuple_count = 0
      /\ p.free_space_offset = PageSize /\ p.free_list_head = INVALID_SLOT_ID
  BY DEF InitForNewPage
<1> HIDE DEF p
<1>4. SlotCount(p) = 0 /\ SlotAreaEnd(p) = HeaderSize
  <2>1. SlotCount(p) = 0 /\ SlotAreaEnd(p) = HeaderSize + 0 * SlotSize
    BY <1>2, Slots
  <2> QED
    BY <2>1, Sizes
<1>5. Live(p) = {} /\ Deleted(p) = {} /\ Kept(p, INVALID_SLOT_ID) = {}
  BY <1>2 DEF Live, Deleted, Kept
<1>6. BodiesFit(p, INVALID_SLOT_ID)
  <2>1. NewOffset(p, INVALID_SLOT_ID)[0 - 1] = PageSize
    <3>1. NewOffset(p, INVALID_SLOT_ID)[-1] = PageSize
      BY <1>2, Offsets
    <3> QED
      BY <3>1
  <2>2. p.free_space_offset <= NewOffset(p, INVALID_SLOT_ID)[SlotCount(p) - 1]
    BY <1>3, <1>4, <2>1, Sizes
  <2> QED
    BY <1>5, <2>2 DEF BodiesFit
<1>7. SlotsCounted(p)
  <2>1. Cardinality({}) = 0
    BY FS_EmptySet
  <2> DEFINE f == [i \in 0 .. 0 |-> INVALID_SLOT_ID]
  <2>2. f \in [0 .. 0 -> 0 .. PageSize] /\ f[0] = INVALID_SLOT_ID
    BY Sizes
  <2> HIDE DEF f
  <2>3. Links(p, f)
    BY <1>3, <1>5, <2>2 DEF Links
  <2> QED
    BY <1>3, <1>5, <2>1, <2>2, <2>3 DEF SlotsCounted
<1>8. Sound(p, INVALID_SLOT_ID)
  BY <1>2, <1>3, <1>4, <1>6, <1>7, Sizes DEF Sound
<1> QED
  BY <1>1, <1>8 DEF IInv

LEMMA InsertKeeps ==
  ASSUME ~Interrupted, IInv, NEW t \in Tuple, Insert(t)
  PROVE  IInv'
<1>1. moving = {} /\ moving' = {} /\ page' = InsertTuple(page, t).page
  BY DEF Insert, Reachable
<1>2. Sound(page, INVALID_SLOT_ID)
  BY <1>1, Cases
<1>3. Sound(page', INVALID_SLOT_ID)
  BY <1>1, <1>2, InsertTupleDoes DEF InsertOutcome
<1> QED
  BY <1>1, <1>3 DEF IInv

LEMMA UpdateKeeps ==
  ASSUME ~Interrupted, IInv, NEW s \in SlotId, NEW t \in Tuple, Update(s, t)
  PROVE  IInv'
<1> DEFINE o == UpdateTuple(page, s, t)
<1>1. /\ moving = {} /\ page' = o.page
      /\ moving' = (IF o.error = "InsufficientSpace" THEN {s} ELSE {})
  BY DEF Update, Reachable
<1>2. Sound(page, INVALID_SLOT_ID)
  BY <1>1, Cases
<1>3. UpdateOutcome(page, s, t, o)
  BY <1>2, UpdateTupleDoes
<1> HIDE DEF o
<1>4. CASE o.error = "InsufficientSpace"
  <2>1. Sound(page', s) /\ s \in Live(page') /\ moving' = {s}
    BY <1>1, <1>3, <1>4 DEF UpdateOutcome
  <2>2. s # INVALID_SLOT_ID
    BY SlotIds, Sizes
  <2> QED
    BY <2>1, <2>2 DEF IInv
<1>5. CASE o.error # "InsufficientSpace"
  <2>1. Sound(page', INVALID_SLOT_ID) /\ moving' = {}
    BY <1>1, <1>2, <1>3, <1>5 DEF UpdateOutcome
  <2> QED
    BY <2>1 DEF IInv
<1> QED
  BY <1>4, <1>5

LEMMA DeleteKeeps ==
  ASSUME ~Interrupted, IInv, NEW s \in SlotId, Delete(s)
  PROVE  IInv'
<1> DEFINE o == MarkDelTuple(page, s)
<1>1. /\ moving = {} \/ s \in moving
      /\ page' = o.page
      /\ moving' = IF o.error = "none" THEN moving \ {s} ELSE moving
  BY DEF Delete, Reachable
<1>2. PICK skip \in Live(page) \cup {INVALID_SLOT_ID} :
        /\ moving = {skip} \ {INVALID_SLOT_ID} /\ Sound(page, skip)
  BY DEF IInv
<1>3. s \in Live(page) => Sound(page, s)
  <2>1. s # INVALID_SLOT_ID
    BY SlotIds, Sizes
  <2> QED
    BY <1>1, <1>2, <2>1, SkipOne
<1>4. DeleteOutcome(page, s, o)
  BY <1>2, <1>3, MarkDelTupleDoes
<1> HIDE DEF o
<1>5. CASE o.error = "none"
  <2>1. Sound(page', INVALID_SLOT_ID) /\ moving' = {}
    BY <1>1, <1>2, <1>4, <1>5 DEF DeleteOutcome
  <2> QED
    BY <2>1 DEF IInv
<1>6. CASE o.error # "none"
  <2>1. page' = page /\ moving' = moving
    BY <1>1, <1>4, <1>6 DEF DeleteOutcome
  <2> QED
    BY <1>2, <2>1 DEF IInv
<1> QED
  BY <1>5, <1>6

LEMMA StepKeeps ==
  ASSUME ~Interrupted, IInv, [Next]_vars
  PROVE  IInv'
<1>1. CASE \E t \in Tuple : Insert(t)
  BY <1>1, InsertKeeps
<1>2. CASE \E s \in SlotId, t \in Tuple : Update(s, t)
  BY <1>2, UpdateKeeps
<1>3. CASE \E s \in SlotId : Delete(s)
  BY <1>3, DeleteKeeps
<1>4. CASE UNCHANGED vars
  <2>1. page' = page /\ moving' = moving
    BY <1>4 DEF vars
  <2> QED
    BY <2>1 DEF IInv
<1> QED
  BY <1>1, <1>2, <1>3, <1>4 DEF Next

LEMMA Invariance ==
  ASSUME ~Interrupted
  PROVE  Spec => []IInv
<1>1. IInv /\ [Next]_vars => IInv'
  BY StepKeeps
<1> QED
  BY <1>1, InitHolds, PTL DEF Spec

-------------------------------------------------------------------------------
(* The properties. *)

(* The slots whose records readers reach are those whose bodies fit.       *)
LEMMA VisibleSlots ==
  ASSUME ~Interrupted, NEW skip, moving = {skip} \ {INVALID_SLOT_ID},
         Sound(page, skip)
  PROVE  DOMAIN Visible = Kept(page, skip)
<1>1. INVALID_SLOT_ID \notin Live(page)
  BY SoundParts
<1> QED
  BY <1>1 DEF Visible, Kept

LEMMA ListFollowed ==
  ASSUME NEW p, NEW skip, Sound(p, skip), NEW c, c = Cardinality(Deleted(p)),
         NEW f \in [0 .. c -> 0 .. PageSize], Links(p, f),
         c = p.deleted_tuple_count
  PROVE  \A i \in 0 .. c : FreeListHop(p)[i] = f[i]
<1> DEFINE R(h) == [i \in 0 .. c |->
                      IF i = 0 THEN p.free_list_head
                      ELSE IF h[i - 1] \in Deleted(p)
                           THEN p.slots[h[i - 1]].offset
                           ELSE INVALID_SLOT_ID]
           hop == CHOOSE h : h = R(h)
<1>1. c \in Nat
  BY DEF Sound, PageState
<1>2. /\ f[0] = p.free_list_head
      /\ \A i \in 0 .. c - 1 :
           f[i] \in Deleted(p) /\ p.slots[f[i]].offset = f[i + 1]
  BY DEF Links
<1>3. f = R(f)
  <2>1. ASSUME NEW i \in 0 .. c PROVE f[i] = R(f)[i]
    <3>1. CASE i = 0
      BY <1>2, <3>1
    <3>2. CASE i # 0
      <4>1. i - 1 \in 0 .. c - 1 /\ (i - 1) + 1 = i
        BY <1>1, <3>2
      <4> QED
        BY <1>2, <3>2, <4>1
    <3> QED
      BY <3>1, <3>2
  <2> QED
    BY <2>1
<1>4. hop = R(hop)
  <2> HIDE DEF R
  <2> QED
    BY <1>3
<1>5. FreeListHop(p) = hop
  BY DEF FreeListHop
<1> HIDE DEF hop
<1> DEFINE S == {i \in Nat : i <= c => hop[i] = f[i]}
<1>6. 0 \in S
  BY <1>1, <1>2, <1>4
<1>7. ASSUME NEW i \in Nat, i \in S PROVE i + 1 \in S
  <2> SUFFICES ASSUME i + 1 <= c PROVE hop[i + 1] = f[i + 1]
    BY <1>1
  <2>1. /\ i + 1 \in 0 .. c /\ i + 1 # 0 /\ (i + 1) - 1 = i /\ i \in 0 .. c - 1
        /\ i <= c
    BY <1>1
  <2>2. hop[i] = f[i]
    BY <1>7, <2>1
  <2>3. hop[i + 1] = R(hop)[i + 1]
    BY <1>4
  <2> QED
    BY <1>2, <2>1, <2>2, <2>3
<1> HIDE DEF S
<1>8. Nat \subseteq S
  BY <1>6, <1>7, AllNumbers
<1>9. ASSUME NEW i \in 0 .. c PROVE hop[i] = f[i]
  <2>1. i \in S /\ i <= c
    BY <1>1, <1>8
  <2> QED
    BY <2>1 DEF S
<1> QED
  BY <1>5, <1>9

LEMMA SoundPage ==
  ASSUME ~Interrupted, IInv
  PROVE  PageIsSound
<1>1. PICK skip \in Live(page) \cup {INVALID_SLOT_ID} :
        /\ moving = {skip} \ {INVALID_SLOT_ID} /\ Sound(page, skip)
  BY DEF IInv
<1> DEFINE n == SlotCount(page)
           c == page.deleted_tuple_count
<1>2. /\ n \in Nat /\ DOMAIN page.slots = 0 .. n - 1
      /\ page \in PageState(n)
      /\ page.slots \in [0 .. n - 1 -> Slot]
      /\ page.free_space_offset \in 0 .. PageSize
      /\ SlotAreaEnd(page) \in Nat /\ HeaderSize <= SlotAreaEnd(page)
      /\ SlotAreaEnd(page) <= page.free_space_offset
      /\ n <= Cardinality(SlotId)
      /\ Live(page) \subseteq 0 .. n - 1 /\ Kept(page, skip) \subseteq 0 .. n - 1
  BY <1>1, SoundParts DEF Sound
<1>3. /\ page.alive_tuple_count = Cardinality(Live(page))
      /\ c = Cardinality(Deleted(page)) /\ c \in Nat
      /\ Cardinality(Live(page)) \in Nat
      /\ Cardinality(Live(page)) + c = n
  BY <1>1, <1>2, Slots DEF Sound, SlotsCounted
<1>4. TypeOK
  <2>1. /\ page.bytes \in [Address -> Byte \cup {Other}]
        /\ page.free_list_head \in SlotId \cup {INVALID_SLOT_ID}
        /\ DOMAIN page = {"bytes", "slots", "alive_tuple_count",
                          "deleted_tuple_count", "free_space_offset",
                          "free_list_head"}
        /\ \A s \in DOMAIN page.slots : page.slots[s] \in Slot
    BY <1>2 DEF PageState
  <2>2. Cardinality(SlotId) \in Nat
    BY SlotIds, FS_CardinalityType
  <2>3. /\ page.alive_tuple_count \in 0 .. Cardinality(SlotId)
        /\ c \in 0 .. Cardinality(SlotId)
        /\ n \in 0 .. Cardinality(SlotId)
    <3> DEFINE live == Cardinality(Live(page))
               all == Cardinality(SlotId)
    <3>1. /\ live \in Nat /\ c \in Nat /\ n \in Nat /\ all \in Nat
          /\ live + c = n /\ n <= all /\ page.alive_tuple_count = live
      BY <1>2, <1>3, <2>2
    <3> HIDE DEF live, c, n, all
    <3>2. live \in 0 .. all /\ c \in 0 .. all /\ n \in 0 .. all
      BY <3>1
    <3> QED
      BY <3>1, <3>2 DEF all
  <2>4. page.free_space_offset \in HeaderSize .. PageSize
    BY <1>2, Sizes
  <2>5. moving \subseteq Live(page)
    BY <1>1
  <2> QED
    BY <1>2, <2>1, <2>3, <2>4, <2>5 DEF TypeOK
<1>5. BodiesAreDisjoint
  <2>1. DOMAIN Visible = Kept(page, skip)
    BY <1>1, VisibleSlots
  <2>2. /\ \A s \in Kept(page, skip) :
             /\ page.slots[s].length >= 1
             /\ page.slots[s].offset >= page.free_space_offset
             /\ page.slots[s].offset + page.slots[s].length <= PageSize
        /\ \A r, s \in Kept(page, skip) : r # s => Apart(page, r, s)
    BY <1>1 DEF Sound, BodiesFit
  <2>3. ASSUME NEW s \in Kept(page, skip)
        PROVE  page.slots[s].offset \in Nat /\ page.slots[s].length \in Nat
    <3>1. page.slots[s] \in Slot
      BY <1>2
    <3> QED
      BY <3>1, Sizes DEF Slot
  <2>4. ASSUME NEW s \in Kept(page, skip)
        PROVE  /\ Readable(page, s)
               /\ Body(page, s) \subseteq page.free_space_offset .. PageSize - 1
    <3> DEFINE off == page.slots[s].offset
               len == page.slots[s].length
    <3>1. /\ off \in Nat /\ len \in Nat /\ len >= 1
          /\ off >= page.free_space_offset /\ off + len <= PageSize
          /\ s \in Live(page)
      BY <2>2, <2>3 DEF Kept
    <3>2. Readable(page, s)
      BY <3>1 DEF Readable
    <3> HIDE DEF off, len
    <3>3. off .. off + len - 1 \subseteq page.free_space_offset .. PageSize - 1
      BY <1>2, <3>1, Sizes
    <3> QED
      BY <3>2, <3>3 DEF Body, off, len
  <2>5. ASSUME NEW s \in Kept(page, skip), NEW r \in Kept(page, skip) \ {s}
        PROVE  Body(page, s) \cap Body(page, r) = {}
    <3>1. Apart(page, r, s)
      BY <2>2
    <3> QED
      BY <2>3, <3>1 DEF Apart, Body
  <2> QED
    BY <1>2, <2>1, <2>4, <2>5 DEF BodiesAreDisjoint
<1>6. FreeListIsExact
  <2>1. PICK f \in [0 .. c -> 0 .. PageSize] : Links(page, f)
    BY <1>1 DEF Sound, SlotsCounted
  <2> DEFINE hop == FreeListHop(page)
  <2>2. \A i \in 0 .. c : hop[i] = f[i]
    BY <1>1, <1>3, <2>1, ListFollowed
  <2> HIDE DEF hop
  <2>3. /\ f[c] = INVALID_SLOT_ID
        /\ \A i \in 0 .. c - 1 : f[i] \in Deleted(page)
        /\ \A s \in Deleted(page) : \E i \in 0 .. c - 1 : f[i] = s
    BY <2>1 DEF Links
  <2>4. c \in 0 .. c /\ 0 .. c - 1 \subseteq 0 .. c
    BY <1>3
  <2>5. {hop[i] : i \in 0 .. c - 1} = Deleted(page)
    BY <2>2, <2>3, <2>4
  <2>6. hop[c] = INVALID_SLOT_ID
    BY <2>2, <2>3, <2>4
  <2> QED
    BY <1>3, <2>5, <2>6 DEF FreeListIsExact, hop
<1> QED
  BY <1>4, <1>5, <1>6 DEF PageIsSound

(* TablePage::InsertTuple, UpdateTuple and MarkDelTuple, in any order,     *)
(* keep the bodies of the records apart from each other, from the slots    *)
(* and from the free space, and the list of deleted slots and the counters *)
(* exact, whatever the sizes of the page, its slots and the tuples.        *)
THEOREM RecordsStaySound ==
  ASSUME ~Interrupted
  PROVE  Spec => []PageIsSound
<1>1. IInv => PageIsSound
  BY SoundPage
<1> QED
  BY <1>1, Invariance, PTL

-------------------------------------------------------------------------------
(* Room. *)

(* What compaction leaves is what the bodies it keeps do not take.         *)
LEMMA RoomLeft ==
  ASSUME NEW p, NEW skip, Sound(p, skip), NEW kept, kept = Kept(p, skip)
  PROVE  /\ BodyBytes(p, kept) \in Int
         /\ NewOffset(p, skip)[SlotCount(p) - 1] = PageSize - BodyBytes(p, kept)
<1> DEFINE n == SlotCount(p)
           to == NewOffset(p, skip)
           R(h) == [k \in 0 .. n |->
                      IF k = 0 THEN 0
                      ELSE h[k - 1] + (IF k - 1 \in kept
                                       THEN p.slots[k - 1].length ELSE 0)]
           g == [k \in 0 .. n |-> PageSize - to[k - 1]]
           sum == CHOOSE h : h = R(h)
<1>1. n \in Nat /\ p.slots \in [0 .. n - 1 -> Slot]
  BY SoundParts
<1>2. /\ \A i \in -1 .. n - 1 : to[i] \in Int
      /\ to[-1] = PageSize
      /\ \A i \in 0 .. n - 1 : to[i] = to[i - 1] - Weight(p, skip, i)
  <2>1. to \in [-1 .. n - 1 -> Int]
    BY <1>1, Offsets
  <2>2. to[-1] = PageSize
    BY <1>1, Offsets
  <2>3. \A i \in 0 .. n - 1 : to[i] = to[i - 1] - Weight(p, skip, i)
    BY <1>1, Offsets
  <2> HIDE DEF to
  <2> QED
    BY <2>1, <2>2, <2>3
<1> HIDE DEF to
<1>3. \A k \in 0 .. n : g[k] = R(g)[k]
  <2> TAKE k \in 0 .. n
  <2>1. CASE k = 0
    <3>1. k - 1 = -1
      BY <2>1
    <3> QED
      BY <1>2, <2>1, <3>1, Sizes
  <2>2. CASE k # 0
    <3>1. /\ k - 1 \in 0 .. n - 1 /\ k - 1 \in 0 .. n /\ (k - 1) - 1 = k - 2
          /\ k - 2 \in -1 .. n - 1 /\ k - 1 \in -1 .. n - 1
      BY <1>1, <2>2
    <3>2. /\ to[k - 1] = to[k - 2] - Weight(p, skip, k - 1)
          /\ to[k - 1] \in Int /\ to[k - 2] \in Int
          /\ Weight(p, skip, k - 1) \in Nat
      BY <1>1, <1>2, <3>1, Weights
    <3>3. g[k] = PageSize - to[k - 1] /\ g[k - 1] = PageSize - to[k - 2]
      BY <3>1
    <3>4. R(g)[k] = g[k - 1] + Weight(p, skip, k - 1)
      BY <2>2 DEF Weight
    <3> HIDE DEF g, R
    <3> QED
      BY <3>2, <3>3, <3>4, Sizes
  <2> QED
    BY <2>1, <2>2
<1>4. g = R(g)
  BY <1>3
<1>5. sum = R(sum)
  <2> HIDE DEF R, g
  <2> QED
    BY <1>4
<1>6. BodyBytes(p, kept) = sum[n]
  BY DEF BodyBytes
<1> HIDE DEF sum
<1> DEFINE S == {k \in Nat : k <= n => sum[k] = g[k]}
<1>7. 0 \in S
  <2>1. sum[0] = 0 /\ g[0] = 0
    <3>1. 0 \in 0 .. n /\ R(g)[0] = 0 /\ R(sum)[0] = 0
      BY <1>1
    <3> HIDE DEF R, g
    <3> QED
      BY <1>4, <1>5, <3>1
  <2> HIDE DEF g
  <2> QED
    BY <2>1
<1>8. ASSUME NEW k \in Nat, k \in S PROVE k + 1 \in S
  <2> SUFFICES ASSUME k + 1 <= n PROVE sum[k + 1] = g[k + 1]
    OBVIOUS
  <2>1. k + 1 \in 0 .. n /\ k + 1 # 0 /\ (k + 1) - 1 = k /\ k <= n
    BY <1>1
  <2>2. sum[k] = g[k]
    BY <1>8, <2>1
  <2>3. R(sum)[k + 1] = R(g)[k + 1]
    <3> HIDE DEF g
    <3> QED
      BY <2>1, <2>2
  <2> HIDE DEF R, g
  <2> QED
    BY <1>4, <1>5, <2>3
<1> HIDE DEF S
<1>9. Nat \subseteq S
  BY <1>7, <1>8, AllNumbers
<1>10. sum[n] = g[n]
  <2>1. n \in S /\ n <= n
    BY <1>1, <1>9
  <2> HIDE DEF g
  <2> QED
    BY <2>1 DEF S
<1>11. g[n] = PageSize - to[n - 1] /\ to[n - 1] \in Int
  <2>1. n \in 0 .. n /\ n - 1 \in -1 .. n - 1
    BY <1>1
  <2> QED
    BY <1>2, <2>1
<1> HIDE DEF g
<1>12. to[n - 1] = PageSize - sum[n] /\ sum[n] \in Int
  BY <1>10, <1>11, Sizes
<1> QED
  BY <1>6, <1>12 DEF to

LEMMA TooFullMeansNoRoom ==
  ASSUME NEW skip, Sound(page, skip), NEW needed \in Int,
         TooFull(page, skip, needed)
  PROVE  Room(Kept(page, skip)) < needed
<1> DEFINE n == SlotCount(page)
           to == NewOffset(page, skip)[n - 1]
           end == SlotAreaEnd(page)
           bytes == BodyBytes(page, Kept(page, skip))
<1>1. n \in Nat /\ page.slots \in [0 .. n - 1 -> Slot] /\ end \in Nat
  BY SoundParts
<1>2. to \in Int
  <2>1. n - 1 \in -1 .. n - 1
    BY <1>1
  <2> QED
    BY <1>1, <2>1, Offsets
<1>3. to = PageSize - bytes /\ bytes \in Int
  BY RoomLeft
<1>4. to - end < needed
  BY DEF TooFull
<1>5. Room(Kept(page, skip)) = PageSize - end - bytes
  BY DEF Room
<1> HIDE DEF to, end, bytes
<1> QED
  BY <1>1, <1>2, <1>3, <1>4, <1>5, Sizes

(* TablePage::InsertTuple and UpdateTuple answer "not enough space" only   *)
(* where even a compacted page leaves too little of it, and no operation   *)
(* reports a corrupted list or a slot with invalid content.                *)
THEOREM RefusalsAreTrue ==
  ASSUME ~Interrupted
  PROVE  Spec => []RefusesOnlyWhenFull
<1>1. ASSUME IInv PROVE RefusesOnlyWhenFull
  <2> SUFFICES ASSUME moving = {}
               PROVE  /\ \A t \in Tuple :
                           InsertTuple(page, t).error = "InsufficientSpace" =>
                             Room(Live(page)) < Needed(page, t)
                      /\ \A s \in Live(page), t \in Tuple :
                           UpdateTuple(page, s, t).error = "InsufficientSpace" =>
                             Room(Live(page) \ {s}) < Len(t)
                      /\ \A s \in SlotId, t \in Tuple :
                           {InsertTuple(page, t).error,
                            UpdateTuple(page, s, t).error,
                            MarkDelTuple(page, s).error}
                             \cap {"FreeListCorrupted", "InvalidSlotContent"} = {}
    BY DEF RefusesOnlyWhenFull
  <2>1. Sound(page, INVALID_SLOT_ID) /\ Kept(page, INVALID_SLOT_ID) = Live(page)
    BY <1>1, Cases, SoundParts DEF Kept
  <2>2. ASSUME NEW t \in Tuple
        PROVE  Len(t) \in Int /\ Needed(page, t) \in Int
    BY Tuples, Sizes DEF Needed
  <2>3. ASSUME NEW t \in Tuple
        PROVE  InsertOutcome(page, t, InsertTuple(page, t))
    BY <2>1, InsertTupleDoes
  <2>4. ASSUME NEW s, NEW t \in Tuple
        PROVE  UpdateOutcome(page, s, t, UpdateTuple(page, s, t))
    BY <2>1, UpdateTupleDoes
  <2>5. ASSUME NEW s PROVE DeleteOutcome(page, s, MarkDelTuple(page, s))
    BY <2>1, SkipOne, MarkDelTupleDoes
  <2>6. ASSUME NEW t \in Tuple,
               InsertTuple(page, t).error = "InsufficientSpace"
        PROVE  Room(Live(page)) < Needed(page, t)
    <3>1. TooFull(page, INVALID_SLOT_ID, Needed(page, t))
      BY <2>3, <2>6 DEF InsertOutcome
    <3> QED
      BY <2>1, <2>2, <3>1, TooFullMeansNoRoom
  <2>7. ASSUME NEW s \in Live(page), NEW t \in Tuple,
               UpdateTuple(page, s, t).error = "InsufficientSpace"
        PROVE  Room(Live(page) \ {s}) < Len(t)
    <3> DEFINE o == UpdateTuple(page, s, t)
    <3>1. UpdateOutcome(page, s, t, o)
      BY <2>4
    <3>2. o.error = "InsufficientSpace"
      BY <2>7
    <3> HIDE DEF o
    <3>3. TooFull(page, s, Len(t))
      BY <3>1, <3>2 DEF UpdateOutcome
    <3>4. Sound(page, s) /\ Kept(page, s) = Live(page) \ {s}
      BY <2>1, SkipOne DEF Kept
    <3> QED
      BY <2>2, <3>3, <3>4, TooFullMeansNoRoom
  <2>8. ASSUME NEW s \in SlotId, NEW t \in Tuple
        PROVE  {InsertTuple(page, t).error, UpdateTuple(page, s, t).error,
                MarkDelTuple(page, s).error}
                 \cap {"FreeListCorrupted", "InvalidSlotContent"} = {}
    <3> DEFINE a == InsertTuple(page, t)
               b == UpdateTuple(page, s, t)
               d == MarkDelTuple(page, s)
    <3>1. InsertOutcome(page, t, a) /\ UpdateOutcome(page, s, t, b)
            /\ DeleteOutcome(page, s, d)
      BY <2>3, <2>4, <2>5
    <3> HIDE DEF a, b, d
    <3>2. a.error \in {"none", "InvalidTupleSize", "InsufficientSpace"}
      BY <3>1 DEF InsertOutcome
    <3>3. b.error \in {"none", "InsufficientSpace", "SlotOutOfRange",
                       "SlotAlreadyDeleted", "InvalidTupleSize"}
      BY <3>1 DEF UpdateOutcome
    <3>4. d.error \in {"none", "SlotOutOfRange", "SlotAlreadyDeleted"}
      BY <3>1 DEF DeleteOutcome
    <3>5. {a.error, b.error, d.error}
            \cap {"FreeListCorrupted", "InvalidSlotContent"} = {}
      BY <3>2, <3>3, <3>4
    <3> QED
      BY <3>5 DEF a, b, d
  <2> QED
    BY <2>6, <2>7, <2>8
<1> QED
  BY <1>1, Invariance, PTL

-------------------------------------------------------------------------------
(* The abstract specification. *)

LEMMA VisibleIs ==
  ASSUME ~Interrupted
  PROVE  Visible = [r \in Live(page) \ moving |-> GetTuple(page, r)]
BY DEF Visible

LEMMA VisibleBecomes ==
  ASSUME ~Interrupted
  PROVE  Visible' = [r \in Live(page') \ moving' |-> GetTuple(page', r)]
BY DEF Visible, Live, GetTuple

LEMMA InsertRefines ==
  ASSUME ~Interrupted, IInv, NEW t \in Tuple, Insert(t)
  PROVE  [Abstract!Next]_Visible
<1> DEFINE o == InsertTuple(page, t)
<1>1. moving = {} /\ moving' = {} /\ page' = o.page
  BY DEF Insert, Reachable
<1>2. InsertOutcome(page, t, o)
  BY <1>1, Cases, InsertTupleDoes
<1> HIDE DEF o
<1>3. /\ Visible = [r \in Live(page) |-> GetTuple(page, r)]
      /\ Visible' = [r \in Live(o.page) |-> GetTuple(o.page, r)]
      /\ Spares(page, o.page, Live(page))
  BY <1>1, <1>2, VisibleIs, VisibleBecomes DEF InsertOutcome
<1>4. CASE o.error = "none"
  <2>1. PICK s \in SlotId \ Live(page) : /\ Live(o.page) = Live(page) \cup {s}
                                         /\ GetTuple(o.page, s) = t
    BY <1>2, <1>4 DEF InsertOutcome
  <2>2. Visible' = [r \in DOMAIN Visible \cup {s} |->
                      IF r = s THEN t ELSE Visible[r]]
    BY <1>3, <2>1 DEF Spares
  <2>3. Abstract!Put(s, t)
    BY <1>3, <2>1, <2>2 DEF Abstract!Put
  <2> QED
    BY <2>3 DEF Abstract!Next
<1>5. CASE o.error # "none"
  <2>1. Live(o.page) = Live(page)
    BY <1>2, <1>5 DEF InsertOutcome
  <2>2. Visible' = Visible
    BY <1>3, <2>1 DEF Spares
  <2> QED
    BY <2>2
<1> QED
  BY <1>4, <1>5

LEMMA UpdateRefines ==
  ASSUME ~Interrupted, IInv, NEW s \in SlotId, NEW t \in Tuple, Update(s, t)
  PROVE  [Abstract!Next]_Visible
<1> DEFINE o == UpdateTuple(page, s, t)
<1>1. /\ moving = {} /\ page' = o.page
      /\ moving' = (IF o.error = "InsufficientSpace" THEN {s} ELSE {})
  BY DEF Update, Reachable
<1>2. UpdateOutcome(page, s, t, o)
  BY <1>1, Cases, UpdateTupleDoes
<1> HIDE DEF o
<1>3. /\ Visible = [r \in Live(page) |-> GetTuple(page, r)]
      /\ Visible' = [r \in Live(o.page) \ moving' |-> GetTuple(o.page, r)]
  BY <1>1, VisibleIs, VisibleBecomes
<1>4. CASE o.error = "none"
  <2>1. /\ s \in Live(page) /\ Live(o.page) = Live(page)
        /\ GetTuple(o.page, s) = t /\ Spares(page, o.page, Live(page) \ {s})
        /\ moving' = {}
    BY <1>1, <1>2, <1>4 DEF UpdateOutcome
  <2>2. Visible' = [Visible EXCEPT ![s] = t]
    BY <1>3, <2>1 DEF Spares
  <2>3. Abstract!Overwrite(s, t)
    BY <1>3, <2>1, <2>2 DEF Abstract!Overwrite
  <2> QED
    BY <2>3 DEF Abstract!Next
<1>5. CASE o.error = "InsufficientSpace"
  <2>1. /\ s \in Live(page) /\ Live(o.page) = Live(page)
        /\ Spares(page, o.page, Live(page) \ {s})
        /\ moving' = {s}
    BY <1>1, <1>2, <1>5 DEF UpdateOutcome
  <2>2. Visible' = [r \in DOMAIN Visible \ {s} |-> Visible[r]]
    BY <1>3, <2>1 DEF Spares
  <2>3. Abstract!Remove(s)
    BY <1>3, <2>1, <2>2 DEF Abstract!Remove
  <2> QED
    BY <2>3 DEF Abstract!Next
<1>6. CASE o.error \notin {"none", "InsufficientSpace"}
  <2>1. o.page = page /\ moving' = {}
    BY <1>1, <1>2, <1>6 DEF UpdateOutcome
  <2>2. Visible' = Visible
    BY <1>3, <2>1
  <2> QED
    BY <2>2
<1> QED
  BY <1>4, <1>5, <1>6

(* A record that is being moved off the page is gone already.              *)
LEMMA DeleteRefines ==
  ASSUME ~Interrupted, IInv, NEW s \in SlotId, Delete(s)
  PROVE  [Abstract!Next]_Visible
<1> DEFINE o == MarkDelTuple(page, s)
<1>1. /\ moving = {} \/ s \in moving
      /\ page' = o.page
      /\ moving' = IF o.error = "none" THEN moving \ {s} ELSE moving
  BY DEF Delete, Reachable
<1>2. PICK skip \in Live(page) \cup {INVALID_SLOT_ID} :
        /\ moving = {skip} \ {INVALID_SLOT_ID} /\ Sound(page, skip)
  BY DEF IInv
<1>3. s \in Live(page) => Sound(page, s)
  <2>1. s # INVALID_SLOT_ID
    BY SlotIds, Sizes
  <2> QED
    BY <1>1, <1>2, <2>1, SkipOne
<1>4. DeleteOutcome(page, s, o)
  BY <1>2, <1>3, MarkDelTupleDoes
<1> HIDE DEF o
<1>5. /\ Visible = [r \in Live(page) \ moving |-> GetTuple(page, r)]
      /\ Visible' = [r \in Live(o.page) \ moving' |-> GetTuple(o.page, r)]
  BY <1>1, VisibleIs, VisibleBecomes
<1>6. CASE o.error = "none"
  <2>1. /\ s \in Live(page) /\ Live(o.page) = Live(page) \ {s}
        /\ Spares(page, o.page, Live(page) \ {s})
        /\ moving \subseteq {s} /\ moving' = {}
    BY <1>1, <1>2, <1>4, <1>6 DEF DeleteOutcome
  <2>2. Visible' = [r \in Live(page) \ {s} |-> GetTuple(page, r)]
    BY <1>5, <2>1 DEF Spares
  <2>3. CASE moving = {}
    <3>1. Visible' = [r \in DOMAIN Visible \ {s} |-> Visible[r]]
      BY <1>5, <2>2, <2>3
    <3>2. Abstract!Remove(s)
      BY <1>5, <2>1, <2>3, <3>1 DEF Abstract!Remove
    <3> QED
      BY <3>2 DEF Abstract!Next
  <2>4. CASE moving = {s}
    BY <1>5, <2>2, <2>4
  <2> QED
    BY <2>1, <2>3, <2>4
<1>7. CASE o.error # "none"
  <2>1. o.page = page /\ moving' = moving
    BY <1>1, <1>4, <1>7 DEF DeleteOutcome
  <2>2. Visible' = Visible
    BY <1>5, <2>1
  <2> QED
    BY <2>2
<1> QED
  BY <1>6, <1>7

(* To its readers a table page is a map from slots to records: insertion,  *)
(* update, deletion, compaction and the reuse of slots each change at most *)
(* the record they are about.                                              *)
THEOREM PageImplementsRecords ==
  ASSUME ~Interrupted
  PROVE  Spec => ImplementsRecords
<1>1. Init => Abstract!Init
  <2> SUFFICES ASSUME Init PROVE Visible = [s \in {} |-> {}]
    BY DEF Abstract!Init
  <2>1. DOMAIN page.slots = {}
    BY DEF Init, InitForNewPage
  <2>2. Live(page) = {}
    BY <2>1 DEF Live
  <2> QED
    BY <2>2 DEF Visible
<1>2. ASSUME IInv, [Next]_vars PROVE [Abstract!Next]_Visible
  <2>1. CASE \E t \in Tuple : Insert(t)
    BY <1>2, <2>1, InsertRefines
  <2>2. CASE \E s \in SlotId, t \in Tuple : Update(s, t)
    BY <1>2, <2>2, UpdateRefines
  <2>3. CASE \E s \in SlotId : Delete(s)
    BY <1>2, <2>3, DeleteRefines
  <2>4. CASE UNCHANGED vars
    <3>1. page' = page /\ moving' = moving
      BY <2>4 DEF vars
    <3>2. Visible' = Visible
      BY <3>1, VisibleIs, VisibleBecomes
    <3> QED
      BY <3>2
  <2> QED
    BY <1>2, <2>1, <2>2, <2>3, <2>4 DEF Next
<1> QED
  BY <1>1, <1>2, Invariance, PTL DEF Spec, ImplementsRecords, Abstract!Spec
===============================================================================
