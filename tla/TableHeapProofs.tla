---------------------------- MODULE TableHeapProofs ----------------------------
(***************************************************************************)
(* Proofs about TableHeap, for any number of threads, tables, records and  *)
(* pages.  Any number of steps may have a failing call of the pool, but    *)
(* none a second one, in its own rollback (NoneFailsAgain: AllocateNewPage *)
(* and ReclaimPageIfEmpty give a page up then).  Under that assumption the *)
(* chains are sound, whether or not clients are careful; when they are, no *)
(* record is lost, none comes into sight or goes but by the calls that     *)
(* insert and delete it, and a scan meets each record that stays once.     *)
(***************************************************************************)
EXTENDS TableHeap, FiniteSetTheorems, WellFoundedInduction, TLAPS

(* When a call of the pool has failed or was refused in a step, the calls  *)
(* that take the step back do not fail.                                    *)
NoneFailsAgain == ~FailsAgain

(* c names n pages, each linked to the next, from f on to the last.        *)
IsPath(m, f, n, c) ==
  /\ n \in Nat /\ c \in [0 .. n -> Page \cup {INVALID_PAGE_ID}]
  /\ c[0] = f /\ c[n] = INVALID_PAGE_ID
  /\ \A k \in 0 .. n - 1 : c[k] \in Page /\ m[c[k]].next = c[k + 1]
  /\ \A j, k \in 0 .. n - 1 : c[j] = c[k] => j = k

(* The pages of S are linked, from f on to the last.                       *)
Linked(m, f, S) ==
  \E n \in Nat : \E c : IsPath(m, f, n, c) /\ S = {c[k] : k \in 0 .. n - 1}

(* A page never promises more room than its directory leaves. *)
Slot == [rec : Rec \cup {NoRec}, length : Nat]
PageState == [use : {"fresh", "freed", "heap"}, slots : Seq(Slot),
              free : 0 .. Capacity, next : PageIds]
PageTyped(p) == p \in PageState /\ p.free + Len(p.slots) <= Capacity
PagesTyped(m) == m \in [Page -> PageState] /\ \A p \in Page : PageTyped(m[p])

RidTyped(i) == i \in Rids /\ (i # NoRid => i.heap \in Heap /\ i.page \in Page)
RidsTyped(x) == x \in [Rec -> Rids] /\ \A r \in Rec : RidTyped(x[r])

(* A call knows where what it inserts or deletes is. *)
CallState ==
  [pc : {"idle", "find", "allocate", "link", "put", "putnew", "mark", "reclaim", "drop"},
   op : {"none", "insert", "delete", "move", "undo"},
   heap : Heap \cup {NoRec}, rec : Rec \cup {NoRec}, size : Nat, at : PageIds,
   tried : SUBSET Page, old : Rids, new : Rids, next : PageIds, prev : PageIds]
CallTyped(k) ==
  /\ k \in CallState
  /\ k.pc # "idle" => k.heap \in Heap /\ k.rec \in Rec
  /\ k.pc \in {"find", "allocate", "link", "put", "putnew"} =>
       /\ k.size \in Length /\ k.op \in {"insert", "move"}
       /\ k.op = "move" => k.old.page \in Page
  /\ k.pc \in {"link", "put", "putnew"} => k.at \in Page
  /\ k.pc \in {"mark", "reclaim", "drop"} =>
       /\ k.op \in {"delete", "move", "undo"} /\ k.old.page \in Page
       /\ k.op # "delete" => k.new.heap \in Heap /\ k.new.page \in Page
CallsTyped(k) == k \in [Thread -> CallState] /\ \A t \in Thread : CallTyped(k[t])

HeapsTyped(x) == x \in [Heap -> PageIds]

Typed ==
  /\ wal \in BOOLEAN /\ PagesTyped(pages) /\ CallsTyped(task) /\ RidsTyped(rids)
  /\ HeapsTyped(first_page_id) /\ HeapsTyped(tail_page_id)
  /\ free_space_map \in [Heap -> SUBSET Page]
  /\ faults \in 0 .. MaxFaults

(* What a call has in its hands. *)
Deletes(k) == IF k.op = "undo" THEN k.new ELSE k.old
Hand(k) == CASE k.pc = "link" -> {k.at}
             [] k.pc = "drop" -> {Deletes(k).page}
             [] OTHER -> {}

(* A page taken out of its chain can be put back where it was, and what is *)
(* remembered as the tail is in the chain or is that page.                 *)
Detached(m, first, tail, k, C) ==
  LET h == k.heap
      p == Deletes(k).page
  IN  /\ m[p].next = k.next /\ k.next \in C[h] \cup {INVALID_PAGE_ID}
      /\ IF k.prev = INVALID_PAGE_ID THEN first[h] = k.next
                                     ELSE k.prev \in C[h] /\ m[k.prev].next = k.next
      /\ tail[h] \in C[h] \cup {p, INVALID_PAGE_ID}

(* C are the pages of each chain: they are linked, and the pages of tables *)
(* are each in one chain or in one hand.                                   *)
Chained(m, first, tail, k, C) ==
  /\ C \in [Heap -> SUBSET Page]
  /\ \A h \in Heap : Linked(m, first[h], C[h])
  /\ \A h, g \in Heap : \A p : p \in C[h] /\ p \in C[g] => h = g
  /\ \A p \in Page : m[p].use = "heap" <=>
       (\E h \in Heap : p \in C[h]) \/ (\E t \in Thread : p \in Hand(k[t]))
  /\ \A t \in Thread, h \in Heap : \A p : ~ (p \in Hand(k[t]) /\ p \in C[h])
  /\ \A t, u \in Thread : \A p : p \in Hand(k[t]) /\ p \in Hand(k[u]) => t = u
  /\ \A t, u \in Thread :
       k[t].pc = "drop" /\ k[u].pc = "drop" /\ k[t].heap = k[u].heap => t = u
  /\ \A t \in Thread : k[t].pc = "link" => m[k[t].at].next = INVALID_PAGE_ID
  /\ \A t \in Thread : k[t].pc = "drop" => Detached(m, first, tail, k[t], C)
  /\ \A h \in Heap : \/ tail[h] \in C[h] \cup {INVALID_PAGE_ID}
                     \/ \E t \in Thread : k[t].pc = "drop" /\ k[t].heap = h

Sound(C) == Typed /\ Chained(pages, first_page_id, tail_page_id, task, C)

IInv == \E C : Sound(C)

-------------------------------------------------------------------------------
(* Numbers. *)

LEMMA AllNumbers ==
  ASSUME NEW S, 0 \in S, \A n \in Nat : n \in S => n + 1 \in S
  PROVE  Nat \subseteq S
<1> SUFFICES ASSUME Nat \ S # {} PROVE FALSE
  OBVIOUS
<1>1. PICK x \in Nat \ S : \A y \in Nat \ S : ~ (<<y, x>> \in OpToRel(<, Nat))
  <2>1. Nat \ S \in SUBSET Nat
    OBVIOUS
  <2> QED
    BY <2>1, NatLessThanWellFounded, WFMin
<1>2. x # 0 /\ x - 1 \in Nat
  OBVIOUS
<1>3. CASE x - 1 \in S
  BY <1>2, <1>3
<1>4. CASE x - 1 \notin S
  <2>1. x - 1 \in Nat \ S /\ x - 1 < x
    BY <1>2, <1>4
  <2>2. <<x - 1, x>> \in OpToRel(<, Nat)
    BY <1>1, <2>1 DEF OpToRel
  <2> QED
    BY <1>1, <2>1, <2>2
<1> QED
  BY <1>3, <1>4

LEMMA LeastIsLeast ==
  ASSUME NEW S \in SUBSET Nat, S # {}
  PROVE  Min(S) \in S /\ \A y \in S : Min(S) <= y
<1>1. PICK x \in S : \A y \in S : ~ (<<y, x>> \in OpToRel(<, Nat))
  BY NatLessThanWellFounded, WFMin
<1>2. \A y \in S : x <= y
  <2> SUFFICES ASSUME NEW y \in S, ~ (x <= y) PROVE FALSE
    OBVIOUS
  <2>1. <<y, x>> \in OpToRel(<, Nat)
    BY DEF OpToRel
  <2> QED
    BY <1>1, <2>1
<1> QED
  BY <1>1, <1>2 DEF Min

LEMMA PagesAre ==
  ASSUME TableHeapConstants
  PROVE  /\ MaxPage \in Nat \ {0} /\ Page = 1 .. MaxPage
         /\ INVALID_PAGE_ID \in Nat /\ INVALID_PAGE_ID \notin Page
         /\ 0 \notin Page /\ Page \subseteq Nat
<1>1. MaxPage \in Nat \ {0}
  BY DEF TableHeapConstants
<1> QED
  BY <1>1 DEF Page, INVALID_PAGE_ID

-------------------------------------------------------------------------------
(* Linked pages.                                                           *)

LEMMA LinkedParts ==
  ASSUME TableHeapConstants, NEW m, NEW f, NEW S, Linked(m, f, S)
  PROVE  /\ S \subseteq Page
         /\ f \in S \cup {INVALID_PAGE_ID}
         /\ S = {} <=> f = INVALID_PAGE_ID
         /\ \A q \in S : m[q].next \in S \cup {INVALID_PAGE_ID} /\ m[q].next # q
<1>0. PICK n \in Nat : \E c : IsPath(m, f, n, c) /\ S = {c[k] : k \in 0 .. n - 1}
  BY DEF Linked
<1>1. PICK c : IsPath(m, f, n, c) /\ S = {c[k] : k \in 0 .. n - 1}
  BY <1>0
<1>2. n = 0 \/ n - 1 \in Nat
  OBVIOUS
<1>3. S \subseteq Page /\ (n = 0 => S = {}) /\ (n # 0 => c[0] \in S)
  BY <1>1, <1>2 DEF IsPath
<1>4. ASSUME NEW q \in S PROVE m[q].next \in S \cup {INVALID_PAGE_ID} /\ m[q].next # q
  <2>1. PICK k \in 0 .. n - 1 : q = c[k]
    BY <1>1
  <2>2. m[q].next = c[k + 1] /\ c[n] = INVALID_PAGE_ID /\ q \in Page
    BY <1>1, <2>1 DEF IsPath
  <2>3. CASE k + 1 = n
    <3>1. m[q].next = INVALID_PAGE_ID
      BY <2>2, <2>3
    <3> QED
      BY <2>2, <3>1, PagesAre
  <2>4. CASE k + 1 # n
    <3>1. k + 1 \in 0 .. n - 1 /\ k + 1 # k
      BY <2>4
    <3>2. c[k + 1] \in S /\ c[k + 1] # c[k]
      BY <1>1, <3>1 DEF IsPath
    <3> QED
      BY <2>1, <2>2, <3>2
  <2> QED
    BY <2>3, <2>4
<1>5. INVALID_PAGE_ID \notin Page
  BY PagesAre
<1>6. S = {} => f = INVALID_PAGE_ID
  <2>1. S = {} => n = 0
    BY <1>3
  <2> QED
    BY <1>1, <2>1 DEF IsPath
<1>7. S # {} => f \in S
  <2>1. S # {} => n # 0
    BY <1>3
  <2> QED
    BY <1>1, <1>3, <2>1 DEF IsPath
<1> QED
  BY <1>3, <1>4, <1>5, <1>6, <1>7

(* Other pages, and all but the links of these, may change.                *)
LEMMA LinkedSame ==
  ASSUME NEW m, NEW f, NEW S, Linked(m, f, S), NEW w, \A q \in S : w[q].next = m[q].next
  PROVE  Linked(w, f, S)
<1>0. PICK n \in Nat : \E c : IsPath(m, f, n, c) /\ S = {c[k] : k \in 0 .. n - 1}
  BY DEF Linked
<1>1. PICK c : IsPath(m, f, n, c) /\ S = {c[k] : k \in 0 .. n - 1}
  BY <1>0
<1>2. \A k \in 0 .. n - 1 : c[k] \in S
  BY <1>1
<1>3. IsPath(w, f, n, c)
  BY <1>1, <1>2 DEF IsPath
<1>4. \E e : IsPath(w, f, n, e) /\ S = {e[k] : k \in 0 .. n - 1}
  BY <1>1, <1>3
<1> QED
  BY <1>4 DEF Linked

(* The pages from one of them on are linked.                               *)
LEMMA LinkedFrom ==
  ASSUME TableHeapConstants, NEW m, NEW f, NEW S, Linked(m, f, S),
         NEW x \in S \cup {INVALID_PAGE_ID}
  PROVE  \E T \in SUBSET S : Linked(m, x, T)
<1>0. PICK n \in Nat : \E c : IsPath(m, f, n, c) /\ S = {c[k] : k \in 0 .. n - 1}
  BY DEF Linked
<1>1. PICK c : IsPath(m, f, n, c) /\ S = {c[k] : k \in 0 .. n - 1}
  BY <1>0
<1>2. PICK i \in 0 .. n : c[i] = x
  BY <1>1 DEF IsPath
<1> DEFINE d == [k \in 0 .. n - i |-> c[k + i]]
           T == {d[k] : k \in 0 .. n - i - 1}
<1>3. n - i \in Nat /\ \A k \in 0 .. n - i : k + i \in 0 .. n
  OBVIOUS
<1>4. \A k \in 0 .. n - i - 1 : k + i \in 0 .. n - 1 /\ k \in 0 .. n - i
                                /\ k + 1 \in 0 .. n - i /\ (k + 1) + i = (k + i) + 1
  OBVIOUS
<1>5. d \in [0 .. n - i -> Page \cup {INVALID_PAGE_ID}] /\ d[0] = x /\ d[n - i] = INVALID_PAGE_ID
  BY <1>1, <1>2, <1>3 DEF IsPath
<1>6. \A k \in 0 .. n - i - 1 : d[k] = c[k + i] /\ d[k + 1] = c[(k + i) + 1]
  BY <1>4
<1>7. \A k \in 0 .. n - i - 1 : d[k] \in Page /\ m[d[k]].next = d[k + 1]
  BY <1>1, <1>4, <1>6 DEF IsPath
<1>8. \A j, k \in 0 .. n - i - 1 : d[j] = d[k] => j = k
  <2> SUFFICES ASSUME NEW j \in 0 .. n - i - 1, NEW k \in 0 .. n - i - 1, d[j] = d[k]
               PROVE  j = k
    OBVIOUS
  <2>1. j + i = k + i
    BY <1>1, <1>4, <1>6 DEF IsPath
  <2> QED
    BY <2>1
<1>9. T \subseteq S
  BY <1>1, <1>4, <1>6
<1>10. IsPath(m, x, n - i, d)
  <2> HIDE DEF d
  <2> QED
    BY <1>3, <1>5, <1>7, <1>8 DEF IsPath
<1>11. Linked(m, x, T)
  <2> HIDE DEF d
  <2>1. \E e : IsPath(m, x, n - i, e) /\ T = {e[k] : k \in 0 .. (n - i) - 1}
    BY <1>10
  <2> QED
    BY <1>3, <2>1 DEF Linked
<1> QED
  BY <1>9, <1>11

(* A page before the first.                                                *)
LEMMA LinkedBefore ==
  ASSUME TableHeapConstants, NEW m, NEW f, NEW S, Linked(m, f, S),
         NEW p \in Page \ S, m[p].next = f
  PROVE  Linked(m, p, S \cup {p})
<1>0. PICK n \in Nat : \E c : IsPath(m, f, n, c) /\ S = {c[k] : k \in 0 .. n - 1}
  BY DEF Linked
<1>1. PICK c : IsPath(m, f, n, c) /\ S = {c[k] : k \in 0 .. n - 1}
  BY <1>0
<1> DEFINE d == [k \in 0 .. n + 1 |-> IF k = 0 THEN p ELSE c[k - 1]]
<1>2. \A k \in 0 .. n + 1 : k # 0 => k - 1 \in 0 .. n
  OBVIOUS
<1>3. d \in [0 .. n + 1 -> Page \cup {INVALID_PAGE_ID}]
  BY <1>1, <1>2 DEF IsPath
<1>4. d[0] = p /\ d[n + 1] = INVALID_PAGE_ID
  BY <1>1 DEF IsPath
<1>5. \A k \in 0 .. n : d[k + 1] = c[k]
  OBVIOUS
<1>6. \A k \in 0 .. n : k # 0 => k - 1 \in 0 .. n - 1 /\ d[k] = c[k - 1]
  OBVIOUS
<1>7. \A k \in 0 .. (n + 1) - 1 : d[k] \in Page /\ m[d[k]].next = d[k + 1]
  <2>0. (n + 1) - 1 = n
    OBVIOUS
  <2> SUFFICES ASSUME NEW k \in 0 .. n PROVE d[k] \in Page /\ m[d[k]].next = d[k + 1]
    BY <2>0
  <2>1. CASE k = 0
    BY <1>1, <1>4, <1>5, <2>1 DEF IsPath
  <2>2. CASE k # 0
    <3>1. (k - 1) + 1 = k
      OBVIOUS
    <3>2. k - 1 \in 0 .. n - 1 /\ d[k] = c[k - 1] /\ d[k + 1] = c[k]
      BY <1>5, <1>6, <2>2
    <3>3. c[k - 1] \in Page /\ m[c[k - 1]].next = c[(k - 1) + 1]
      BY <1>1, <3>2 DEF IsPath
    <3> QED
      BY <3>1, <3>2, <3>3
  <2> QED
    BY <2>1, <2>2
<1>8. \A j, k \in 0 .. (n + 1) - 1 : d[j] = d[k] => j = k
  <2>0. (n + 1) - 1 = n
    OBVIOUS
  <2> SUFFICES ASSUME NEW j \in 0 .. n, NEW k \in 0 .. n, d[j] = d[k], j # k PROVE FALSE
    BY <2>0
  <2>1. \A i \in 0 .. n : i # 0 => d[i] \in S
    BY <1>1, <1>6
  <2>2. j # 0 /\ k # 0
    BY <1>4, <2>1
  <2>3. j - 1 = k - 1
    BY <1>1, <1>6, <2>2 DEF IsPath
  <2> QED
    BY <2>3
<1>9. S \cup {p} = {d[k] : k \in 0 .. (n + 1) - 1}
  <2>1. \A k \in 0 .. n - 1 : k + 1 \in 0 .. (n + 1) - 1 /\ d[k + 1] = c[k]
    BY <1>5
  <2>2. S \cup {p} \subseteq {d[k] : k \in 0 .. (n + 1) - 1}
    <3>1. \A q \in S : \E k \in 0 .. n - 1 : q = c[k]
      BY <1>1
    <3>2. 0 \in 0 .. (n + 1) - 1
      OBVIOUS
    <3> HIDE DEF d
    <3> QED
      BY <1>4, <2>1, <3>1, <3>2
  <2>3. {d[k] : k \in 0 .. (n + 1) - 1} \subseteq S \cup {p}
    BY <1>1, <1>4, <1>6
  <2> QED
    BY <2>2, <2>3
<1>10. IsPath(m, p, n + 1, d)
  <2> HIDE DEF d
  <2> QED
    BY <1>3, <1>4, <1>7, <1>8 DEF IsPath
<1> QED
  <2> HIDE DEF d
  <2>1. \E e : IsPath(m, p, n + 1, e) /\ S \cup {p} = {e[k] : k \in 0 .. (n + 1) - 1}
    BY <1>9, <1>10
  <2>2. n + 1 \in Nat
    OBVIOUS
  <2> QED
    BY <2>1, <2>2 DEF Linked

(* All but the first.                                                      *)
LEMMA LinkedAfter ==
  ASSUME TableHeapConstants, NEW m, NEW p \in Page, NEW S, Linked(m, p, S)
  PROVE  Linked(m, m[p].next, S \ {p})
<1>0. PICK n \in Nat : \E c : IsPath(m, p, n, c) /\ S = {c[k] : k \in 0 .. n - 1}
  BY DEF Linked
<1>1. PICK c : IsPath(m, p, n, c) /\ S = {c[k] : k \in 0 .. n - 1}
  BY <1>0
<1>2. n # 0 /\ n - 1 \in Nat
  <2>1. n # 0
    BY <1>1, PagesAre DEF IsPath
  <2> QED
    BY <2>1
<1> DEFINE d == [k \in 0 .. n - 1 |-> c[k + 1]]
<1>3. d \in [0 .. n - 1 -> Page \cup {INVALID_PAGE_ID}]
  BY <1>1 DEF IsPath
<1>4. d[0] = m[p].next /\ d[n - 1] = INVALID_PAGE_ID
  BY <1>1, <1>2 DEF IsPath
<1>5. \A k \in 0 .. (n - 1) - 1 : k + 1 \in 0 .. n - 1 /\ d[k] = c[k + 1]
                                  /\ d[k + 1] = c[(k + 1) + 1]
  OBVIOUS
<1>6. \A k \in 0 .. (n - 1) - 1 : d[k] \in Page /\ m[d[k]].next = d[k + 1]
  BY <1>1, <1>5 DEF IsPath
<1>7. \A j, k \in 0 .. (n - 1) - 1 : d[j] = d[k] => j = k
  <2> SUFFICES ASSUME NEW j \in 0 .. (n - 1) - 1, NEW k \in 0 .. (n - 1) - 1, d[j] = d[k]
               PROVE  j = k
    OBVIOUS
  <2>1. j + 1 = k + 1
    BY <1>1, <1>5 DEF IsPath
  <2> QED
    BY <2>1
<1>8. S \ {p} = {d[k] : k \in 0 .. (n - 1) - 1}
  <2>1. ASSUME NEW q \in S \ {p} PROVE q \in {d[k] : k \in 0 .. (n - 1) - 1}
    <3>1. PICK k \in 0 .. n - 1 : q = c[k]
      BY <1>1
    <3>2. k # 0
      BY <1>1, <3>1 DEF IsPath
    <3>3. k - 1 \in 0 .. (n - 1) - 1 /\ d[k - 1] = c[k]
      BY <3>2
    <3> QED
      BY <3>1, <3>3
  <2>2. ASSUME NEW k \in 0 .. (n - 1) - 1 PROVE d[k] \in S \ {p}
    <3>1. c[k + 1] # c[0]
      BY <1>1, <1>2, <1>5 DEF IsPath
    <3> QED
      BY <1>1, <1>5, <3>1 DEF IsPath
  <2> QED
    BY <2>1, <2>2
<1>9. IsPath(m, m[p].next, n - 1, d)
  <2> HIDE DEF d
  <2> QED
    BY <1>2, <1>3, <1>4, <1>6, <1>7 DEF IsPath
<1> QED
  <2>1. n - 1 \in Nat
    BY <1>2
  <2> HIDE DEF d
  <2>2. \E c1 : IsPath(m, m[p].next, n - 1, c1) /\ S \ {p} = {c1[k] : k \in 0 .. (n - 1) - 1}
    BY <1>8, <1>9
  <2> QED
    BY <2>1, <2>2 DEF Linked

(* A page behind one of them.                                              *)
LEMMA LinkedBehind ==
  ASSUME TableHeapConstants, NEW m, NEW f, NEW S, Linked(m, f, S), NEW q \in S,
         NEW p \in Page \ S, NEW w, w[q].next = p, w[p].next = m[q].next,
         \A r \in S \ {q} : w[r].next = m[r].next
  PROVE  Linked(w, f, S \cup {p})
<1>0. PICK n \in Nat : \E c : IsPath(m, f, n, c) /\ S = {c[k] : k \in 0 .. n - 1}
  BY DEF Linked
<1>1. PICK c : IsPath(m, f, n, c) /\ S = {c[k] : k \in 0 .. n - 1}
  BY <1>0
<1>2. PICK i \in 0 .. n - 1 : q = c[i]
  BY <1>1
<1> DEFINE d == [k \in 0 .. n + 1 |-> IF k <= i THEN c[k] ELSE IF k = i + 1 THEN p ELSE c[k - 1]]
<1>3. /\ \A k \in 0 .. i : k \in 0 .. n - 1 /\ k \in 0 .. n /\ d[k] = c[k]
      /\ i + 1 \in 0 .. n /\ d[i + 1] = p
      /\ \A k \in i + 2 .. n + 1 : k - 1 \in 0 .. n /\ d[k] = c[k - 1]
      /\ \A k \in 0 .. n + 1 : k \in 0 .. i \/ k = i + 1 \/ k \in i + 2 .. n + 1
      /\ n + 1 \in i + 2 .. n + 1 /\ (n + 1) - 1 = n /\ 0 \in 0 .. i
  OBVIOUS
<1>4. d \in [0 .. n + 1 -> Page \cup {INVALID_PAGE_ID}] /\ d[0] = f /\ d[n + 1] = INVALID_PAGE_ID
  <2>1. \A k \in 0 .. n : c[k] \in Page \cup {INVALID_PAGE_ID}
    BY <1>1 DEF IsPath
  <2>2. \A k \in 0 .. n + 1 : d[k] \in Page \cup {INVALID_PAGE_ID}
    BY <1>3, <2>1
  <2> QED
    BY <1>1, <1>3, <2>2 DEF IsPath
<1>5. \A k \in 0 .. n - 1 : c[k] \in S /\ c[k] # p /\ (k # i => w[c[k]].next = c[k + 1])
  <2> SUFFICES ASSUME NEW k \in 0 .. n - 1
               PROVE  c[k] \in S /\ c[k] # p /\ (k # i => w[c[k]].next = c[k + 1])
    OBVIOUS
  <2>1. c[k] \in S /\ (k # i => c[k] # q) /\ m[c[k]].next = c[k + 1]
    BY <1>1, <1>2 DEF IsPath
  <2> QED
    BY <2>1
<1>6. m[q].next = c[i + 1]
  BY <1>1, <1>2 DEF IsPath
<1>7. \A k \in 0 .. n : d[k] \in Page /\ w[d[k]].next = d[k + 1]
  <2> SUFFICES ASSUME NEW k \in 0 .. n PROVE d[k] \in Page /\ w[d[k]].next = d[k + 1]
    OBVIOUS
  <2> HIDE DEF d
  <2>1. CASE k \in 0 .. i /\ k # i
    <3>1. k + 1 \in 0 .. i /\ k \in 0 .. n - 1
      BY <2>1
    <3>2. d[k] = c[k] /\ d[k + 1] = c[k + 1]
      BY <1>3, <2>1, <3>1
    <3> QED
      BY <1>1, <1>5, <2>1, <3>1, <3>2 DEF IsPath
  <2>2. CASE k = i
    <3>1. d[k] = q /\ d[k + 1] = p /\ q \in Page
      BY <1>1, <1>2, <1>3, <2>2 DEF IsPath
    <3> QED
      BY <3>1
  <2>3. CASE k = i + 1
    <3>1. k + 1 = i + 2 /\ k + 1 \in i + 2 .. n + 1 /\ (k + 1) - 1 = i + 1
      BY <2>3
    <3>2. d[k] = p /\ d[k + 1] = c[i + 1]
      BY <1>3, <2>3, <3>1
    <3> QED
      BY <1>6, <3>2
  <2>4. CASE k \in i + 2 .. n
    <3>1. /\ k \in i + 2 .. n + 1 /\ k + 1 \in i + 2 .. n + 1 /\ (k + 1) - 1 = (k - 1) + 1
          /\ k - 1 \in 0 .. n - 1 /\ k - 1 # i
      BY <2>4
    <3>2. d[k] = c[k - 1] /\ d[k + 1] = c[(k - 1) + 1]
      BY <1>3, <3>1
    <3>3. c[k - 1] \in Page
      BY <1>1, <3>1 DEF IsPath
    <3> QED
      BY <1>5, <3>1, <3>2, <3>3
  <2>5. k \in 0 .. i \/ k = i + 1 \/ k \in i + 2 .. n
    OBVIOUS
  <2> QED
    BY <2>1, <2>2, <2>3, <2>4, <2>5
<1>8. \A j, k \in 0 .. n : d[j] = d[k] => j = k
  <2> DEFINE o(k) == IF k <= i THEN k ELSE k - 1
  <2>1. \A k \in 0 .. n : k # i + 1 => o(k) \in 0 .. n - 1 /\ d[k] = c[o(k)]
    OBVIOUS
  <2>2. \A j, k \in 0 .. n : j # i + 1 /\ k # i + 1 /\ o(j) = o(k) => j = k
    OBVIOUS
  <2>3. \A k \in 0 .. n : k # i + 1 => d[k] # p
    <3> HIDE DEF d, o
    <3> QED
      BY <1>5, <2>1
  <2>4. d[i + 1] = p
    BY <1>3
  <2>5. \A j, k \in 0 .. n : j # i + 1 /\ k # i + 1 /\ d[j] = d[k] => j = k
    <3> HIDE DEF d, o
    <3> QED
      BY <1>1, <2>1, <2>2 DEF IsPath
  <2> HIDE DEF d, o
  <2> QED
    BY <2>3, <2>4, <2>5
<1>9. S \cup {p} = {d[k] : k \in 0 .. (n + 1) - 1}
  <2>1. ASSUME NEW x \in S \cup {p} PROVE \E k \in 0 .. n : x = d[k]
    <3>1. CASE x = p
      BY <1>3, <3>1
    <3>2. CASE x \in S
      <4>1. PICK k \in 0 .. n - 1 : x = c[k]
        BY <1>1, <3>2
      <4>2. CASE k <= i
        BY <1>3, <4>1, <4>2
      <4>3. CASE ~ (k <= i)
        <5>1. k + 1 \in i + 2 .. n + 1 /\ k + 1 \in 0 .. n /\ (k + 1) - 1 = k
          BY <4>3
        <5> QED
          BY <1>3, <4>1, <5>1
      <4> QED
        BY <4>2, <4>3
    <3> QED
      BY <3>1, <3>2
  <2>2. ASSUME NEW k \in 0 .. n PROVE d[k] \in S \cup {p}
    <3>1. k \in 0 .. i \/ k = i + 1 \/ (k \in i + 2 .. n + 1 /\ k - 1 \in 0 .. n - 1)
      OBVIOUS
    <3> HIDE DEF d
    <3> QED
      BY <1>3, <1>5, <3>1
  <2> HIDE DEF d
  <2> QED
    BY <1>3, <2>1, <2>2
<1>10. IsPath(w, f, n + 1, d)
  <2>1. n + 1 \in Nat /\ (n + 1) - 1 = n
    OBVIOUS
  <2> HIDE DEF d
  <2> QED
    BY <1>4, <1>7, <1>8, <2>1 DEF IsPath
<1> QED
  <2>1. n + 1 \in Nat
    OBVIOUS
  <2> HIDE DEF d
  <2>2. \E c1 : IsPath(w, f, n + 1, c1) /\ S \cup {p} = {c1[k] : k \in 0 .. (n + 1) - 1}
    BY <1>9, <1>10
  <2> QED
    BY <2>1, <2>2 DEF Linked

(* All but one of them that has another before it.                         *)
LEMMA LinkedWithout ==
  ASSUME TableHeapConstants, NEW m, NEW f, NEW S, Linked(m, f, S), NEW q \in S,
         NEW p \in Page, m[q].next = p, NEW w, w[q].next = m[p].next,
         \A r \in S \ {p, q} : w[r].next = m[r].next
  PROVE  p \in S /\ q # p /\ Linked(w, f, S \ {p})
<1>0. PICK n \in Nat : \E c : IsPath(m, f, n, c) /\ S = {c[k] : k \in 0 .. n - 1}
  BY DEF Linked
<1>1. PICK c : IsPath(m, f, n, c) /\ S = {c[k] : k \in 0 .. n - 1}
  BY <1>0
<1>2. PICK i \in 0 .. n - 1 : q = c[i]
  BY <1>1
<1>3. p \in S /\ q # p
  BY LinkedParts, PagesAre
<1>4. m[q].next = c[i + 1] /\ p = c[i + 1]
  BY <1>1, <1>2 DEF IsPath
<1>5. i + 1 \in 0 .. n - 1
  <2>1. c[n] \notin Page
    BY <1>1, PagesAre DEF IsPath
  <2>2. i + 1 # n
    BY <1>4, <2>1
  <2> QED
    BY <2>2
<1>6. m[p].next = c[(i + 1) + 1]
  BY <1>1, <1>4, <1>5 DEF IsPath
<1> DEFINE d == [k \in 0 .. n - 1 |-> IF k <= i THEN c[k] ELSE c[k + 1]]
<1>7. /\ \A k \in 0 .. i : k \in 0 .. n - 1 /\ k \in 0 .. n /\ d[k] = c[k]
      /\ \A k \in i + 1 .. n - 1 : k + 1 \in 0 .. n /\ d[k] = c[k + 1]
      /\ \A k \in 0 .. n - 1 : k \in 0 .. i \/ k \in i + 1 .. n - 1
      /\ n - 1 \in i + 1 .. n - 1 /\ (n - 1) + 1 = n /\ n - 1 \in Nat /\ 0 \in 0 .. i
  BY <1>5
<1>8. d \in [0 .. n - 1 -> Page \cup {INVALID_PAGE_ID}] /\ d[0] = f /\ d[n - 1] = INVALID_PAGE_ID
  <2>1. \A k \in 0 .. n : c[k] \in Page \cup {INVALID_PAGE_ID}
    BY <1>1 DEF IsPath
  <2>2. \A k \in 0 .. n - 1 : d[k] \in Page \cup {INVALID_PAGE_ID}
    BY <1>7, <2>1
  <2> QED
    BY <1>1, <1>7, <2>2 DEF IsPath
<1>9. \A k \in 0 .. n - 1 : c[k] \in S /\ (k # i + 1 => c[k] # p)
                            /\ (k # i /\ k # i + 1 => w[c[k]].next = c[k + 1])
  <2> SUFFICES ASSUME NEW k \in 0 .. n - 1
               PROVE  c[k] \in S /\ (k # i + 1 => c[k] # p)
                      /\ (k # i /\ k # i + 1 => w[c[k]].next = c[k + 1])
    OBVIOUS
  <2>1. c[k] \in S /\ (k # i => c[k] # q) /\ (k # i + 1 => c[k] # p) /\ m[c[k]].next = c[k + 1]
    BY <1>1, <1>2, <1>4, <1>5 DEF IsPath
  <2> QED
    BY <2>1
<1>10. \A k \in 0 .. (n - 1) - 1 : d[k] \in Page /\ w[d[k]].next = d[k + 1]
  <2> SUFFICES ASSUME NEW k \in 0 .. (n - 1) - 1 PROVE d[k] \in Page /\ w[d[k]].next = d[k + 1]
    OBVIOUS
  <2> HIDE DEF d
  <2>1. CASE k \in 0 .. i /\ k # i
    <3>1. k + 1 \in 0 .. i /\ k \in 0 .. n - 1 /\ k # i + 1
      BY <2>1
    <3>2. d[k] = c[k] /\ d[k + 1] = c[k + 1]
      BY <1>7, <2>1, <3>1
    <3> QED
      BY <1>1, <1>9, <2>1, <3>1, <3>2 DEF IsPath
  <2>2. CASE k = i
    <3>1. k + 1 \in i + 1 .. n - 1
      BY <1>5, <2>2
    <3>2. d[k] = q /\ d[k + 1] = c[(i + 1) + 1] /\ q \in Page
      BY <1>1, <1>2, <1>7, <2>2, <3>1 DEF IsPath
    <3> QED
      BY <1>6, <3>2
  <2>3. CASE k \in i + 1 .. (n - 1) - 1
    <3>1. /\ k \in i + 1 .. n - 1 /\ k + 1 \in i + 1 .. n - 1
          /\ k + 1 \in 0 .. n - 1 /\ k + 1 # i /\ k + 1 # i + 1
      BY <2>3
    <3>2. d[k] = c[k + 1] /\ d[k + 1] = c[(k + 1) + 1]
      BY <1>7, <3>1
    <3>3. c[k + 1] \in Page
      BY <1>1, <3>1 DEF IsPath
    <3> QED
      BY <1>9, <3>1, <3>2, <3>3
  <2>4. k \in 0 .. i \/ k \in i + 1 .. (n - 1) - 1
    OBVIOUS
  <2> QED
    BY <2>1, <2>2, <2>3, <2>4
<1> DEFINE o(k) == IF k <= i THEN k ELSE k + 1
<1>11. \A k \in 0 .. (n - 1) - 1 : o(k) \in 0 .. n - 1 /\ o(k) # i + 1 /\ d[k] = c[o(k)]
  BY <1>5
<1>12. \A j, k \in 0 .. (n - 1) - 1 : d[j] = d[k] => j = k
  <2>1. \A j, k \in 0 .. (n - 1) - 1 : o(j) = o(k) => j = k
    OBVIOUS
  <2> HIDE DEF d, o
  <2> QED
    BY <1>1, <1>11, <2>1 DEF IsPath
<1>13. S \ {p} = {d[k] : k \in 0 .. (n - 1) - 1}
  <2>1. ASSUME NEW x \in S \ {p} PROVE \E k \in 0 .. (n - 1) - 1 : x = d[k]
    <3>1. PICK k \in 0 .. n - 1 : x = c[k]
      BY <1>1
    <3>2. k # i + 1
      BY <1>4, <3>1
    <3>3. CASE k <= i
      <4>1. k \in 0 .. (n - 1) - 1 /\ k \in 0 .. i
        BY <1>5, <3>3
      <4> QED
        BY <1>7, <3>1, <4>1
    <3>4. CASE ~ (k <= i)
      <4>1. k - 1 \in 0 .. (n - 1) - 1 /\ k - 1 \in i + 1 .. n - 1 /\ (k - 1) + 1 = k
        BY <3>2, <3>4
      <4> QED
        BY <1>7, <3>1, <4>1
    <3> QED
      BY <3>3, <3>4
  <2>2. ASSUME NEW k \in 0 .. (n - 1) - 1 PROVE d[k] \in S \ {p}
    <3> HIDE DEF d, o
    <3> QED
      BY <1>9, <1>11
  <2> HIDE DEF d
  <2> QED
    BY <2>1, <2>2
<1>14. IsPath(w, f, n - 1, d)
  <2> HIDE DEF d
  <2> QED
    BY <1>7, <1>8, <1>10, <1>12 DEF IsPath
<1> QED
  <2>1. n - 1 \in Nat
    BY <1>7
  <2> HIDE DEF d
  <2>2. \E c1 : IsPath(w, f, n - 1, c1) /\ S \ {p} = {c1[k] : k \in 0 .. (n - 1) - 1}
    BY <1>13, <1>14
  <2> QED
    BY <1>3, <2>1, <2>2 DEF Linked

(* No page is met twice, so a path is no longer than the file.             *)
LEMMA PathLength ==
  ASSUME TableHeapConstants, NEW m, NEW f, NEW n, NEW c, IsPath(m, f, n, c)
  PROVE  n \in 0 .. MaxPage
<1>0. n \in Nat /\ MaxPage \in Nat
  BY PagesAre DEF IsPath
<1>1. IsFiniteSet(Page) /\ Cardinality(Page) = MaxPage
  <2>1. 1 \in Int /\ MaxPage \in Int /\ Page = 1 .. MaxPage /\ ~ (1 > MaxPage)
    BY <1>0, PagesAre
  <2>2. IsFiniteSet(1 .. MaxPage) /\ Cardinality(1 .. MaxPage) = MaxPage - 1 + 1
    BY <2>1, FS_Interval
  <2> QED
    BY <1>0, <2>1, <2>2
<1>2. CASE n = 0
  BY <1>0, <1>2
<1>3. CASE n # 0
  <2> DEFINE I == 0 .. n - 1
             g == [k \in I |-> c[k]]
  <2>1. IsFiniteSet(I) /\ Cardinality(I) = n
    <3>1. 0 \in Int /\ n - 1 \in Int /\ ~ (0 > n - 1) /\ (n - 1) - 0 + 1 = n
      BY <1>0, <1>3
    <3> QED
      BY <3>1, FS_Interval
  <2>2. g \in [I -> Page] /\ \A j, k \in I : g[j] = g[k] => j = k
    BY DEF IsPath
  <2>3. ~ (MaxPage < n)
    <3> HIDE DEF I, g
    <3>1. SUFFICES ASSUME MaxPage < n PROVE FALSE
      OBVIOUS
    <3>2. \E j, k \in I : j # k /\ g[j] = g[k]
      BY <1>1, <2>1, <2>2, <3>1, FS_PigeonHole
    <3> QED
      BY <2>2, <3>2
  <2> QED
    BY <1>0, <2>3
<1> QED
  BY <1>2, <1>3

-------------------------------------------------------------------------------
(* Walks.                                                                  *)

(* The pages met from the first of linked pages on are these, in order.    *)
LEMMA PathIs ==
  ASSUME TableHeapConstants, NEW f, NEW n, NEW c, IsPath(pages, f, n, c)
  PROVE  /\ n \in 0 .. MaxPage
         /\ DOMAIN Path(f) = 0 .. MaxPage
         /\ \A k \in 0 .. MaxPage : Path(f)[k] = IF k <= n THEN c[k] ELSE INVALID_PAGE_ID
<1>0. n \in 0 .. MaxPage /\ MaxPage \in Nat /\ INVALID_PAGE_ID \notin Page
  BY PathLength, PagesAre
<1> DEFINE hop(h, k) == IF k = 0 THEN f ELSE NextOf(h[k - 1])
           R(h) == [k \in 0 .. MaxPage |-> hop(h, k)]
           at == CHOOSE h : h = R(h)
           g == [k \in 0 .. MaxPage |-> IF k <= n THEN c[k] ELSE INVALID_PAGE_ID]
<1>1. g = R(g)
  <2>1. ASSUME NEW k \in 0 .. MaxPage PROVE g[k] = hop(g, k)
    <3>1. CASE k = 0
      BY <1>0, <3>1 DEF IsPath
    <3>2. CASE k # 0 /\ k - 1 < n
      <4>1. k - 1 \in 0 .. n - 1 /\ k - 1 \in 0 .. MaxPage /\ (k - 1) + 1 = k /\ k <= n /\ k - 1 <= n
        BY <1>0, <3>2
      <4>2. g[k - 1] = c[k - 1] /\ g[k] = c[k]
        BY <4>1
      <4>3. c[k - 1] \in Page /\ pages[c[k - 1]].next = c[k]
        BY <4>1 DEF IsPath
      <4> HIDE DEF g
      <4> QED
        BY <3>2, <4>2, <4>3 DEF NextOf
    <3>3. CASE k # 0 /\ ~ (k - 1 < n)
      <4>1. k - 1 \in 0 .. MaxPage /\ ~ (k <= n) /\ (k - 1 = n \/ ~ (k - 1 <= n))
        BY <1>0, <3>3
      <4>2. g[k - 1] = INVALID_PAGE_ID /\ g[k] = INVALID_PAGE_ID
        BY <4>1 DEF IsPath
      <4> HIDE DEF g
      <4> QED
        BY <1>0, <3>3, <4>2 DEF NextOf
    <3> QED
      BY <3>1, <3>2, <3>3
  <2> HIDE DEF hop
  <2> QED
    BY <2>1
<1>2. at = R(at)
  <2> HIDE DEF R
  <2> QED
    BY <1>1
<1> HIDE DEF at
<1>3. /\ DOMAIN at = 0 .. MaxPage
      /\ \A k \in 0 .. MaxPage : at[k] = hop(at, k) /\ g[k] = hop(g, k)
  <2> HIDE DEF g, hop
  <2> QED
    BY <1>1, <1>2
<1> DEFINE S == {k \in Nat : k \in 0 .. MaxPage => at[k] = g[k]}
<1>4. 0 \in S
  <2>1. 0 \in 0 .. MaxPage
    BY <1>0
  <2> HIDE DEF g
  <2> QED
    BY <1>3, <2>1
<1>5. ASSUME NEW k \in Nat, k \in S PROVE k + 1 \in S
  <2> SUFFICES ASSUME k + 1 \in 0 .. MaxPage PROVE at[k + 1] = g[k + 1]
    OBVIOUS
  <2> HIDE DEF g
  <2>1. k \in 0 .. MaxPage /\ (k + 1) - 1 = k /\ k + 1 # 0
    BY <1>0
  <2>2. at[k] = g[k]
    BY <1>5, <2>1
  <2> QED
    BY <1>3, <2>1, <2>2
<1>6. Nat \subseteq S
  <2>1. \A k \in Nat : k \in S => k + 1 \in S
    BY <1>5
  <2> HIDE DEF S
  <2> QED
    BY <1>4, <2>1, AllNumbers
<1>7. \A k \in 0 .. MaxPage : at[k] = IF k <= n THEN c[k] ELSE INVALID_PAGE_ID
  <2> SUFFICES ASSUME NEW k \in 0 .. MaxPage PROVE at[k] = g[k]
    OBVIOUS
  <2> HIDE DEF S
  <2>1. k \in S
    BY <1>0, <1>6
  <2> HIDE DEF g
  <2> QED
    BY <2>1 DEF S
<1>8. Path(f) = at
  BY DEF Path, at
<1> QED
  BY <1>0, <1>3, <1>7, <1>8

(* So a chain is what is linked from its first page on, and ends.          *)
LEMMA ChainIs ==
  ASSUME TableHeapConstants, NEW h, NEW S, Linked(pages, first_page_id[h], S)
  PROVE  Chain(h) = S /\ \E k \in 0 .. MaxPage : Path(first_page_id[h])[k] = INVALID_PAGE_ID
<1>0. PICK n \in Nat : \E c : IsPath(pages, first_page_id[h], n, c) /\ S = {c[k] : k \in 0 .. n - 1}
  BY DEF Linked
<1>1. PICK c : IsPath(pages, first_page_id[h], n, c) /\ S = {c[k] : k \in 0 .. n - 1}
  BY <1>0
<1> DEFINE at == Path(first_page_id[h])
<1>2. /\ n \in 0 .. MaxPage /\ DOMAIN at = 0 .. MaxPage
      /\ \A k \in 0 .. MaxPage : at[k] = IF k <= n THEN c[k] ELSE INVALID_PAGE_ID
  BY <1>1, PathIs
<1> HIDE DEF at
<1>3. at[n] = INVALID_PAGE_ID
  BY <1>1, <1>2 DEF IsPath
<1>4. \A k \in 0 .. n - 1 : k \in 0 .. MaxPage /\ at[k] = c[k] /\ c[k] \in Page
  BY <1>1, <1>2, PagesAre DEF IsPath
<1>5. \A k \in 0 .. MaxPage : at[k] \in Page => k \in 0 .. n - 1
  <2> SUFFICES ASSUME NEW k \in 0 .. MaxPage, k \notin 0 .. n - 1 PROVE at[k] \notin Page
    OBVIOUS
  <2>1. k = n \/ ~ (k <= n)
    OBVIOUS
  <2> QED
    BY <1>2, <1>3, <2>1, PagesAre
<1>6. {at[k] : k \in 0 .. MaxPage} \cap Page = S
  <2>1. \A x \in S : \E k \in 0 .. MaxPage : x = at[k] /\ x \in Page
    BY <1>1, <1>4
  <2>2. \A k \in 0 .. MaxPage : at[k] \in Page => at[k] \in S
    BY <1>1, <1>4, <1>5
  <2> QED
    BY <2>1, <2>2
<1> QED
  BY <1>2, <1>3, <1>6 DEF Chain, at

(* Where a walk from one of linked pages, or from none, ends.              *)
LEMMA WalkStays ==
  ASSUME TableHeapConstants, NEW f, NEW S, Linked(pages, f, S),
         NEW x \in S \cup {INVALID_PAGE_ID}, NEW Wanted, NEW w \in Walks(x, Wanted)
  PROVE  /\ w.failed \in BOOLEAN /\ (w.failed => MayFail)
         /\ w.met \subseteq S
         /\ w.stop \in S \cup {INVALID_PAGE_ID}
         /\ w.last \in S \cup {INVALID_PAGE_ID}
         /\ Found(w) => w.stop \in S \cap Wanted
<1>0. PICK T \in SUBSET S : Linked(pages, x, T)
  BY LinkedFrom
<1>1. PICK n \in Nat : \E c : IsPath(pages, x, n, c) /\ T = {c[k] : k \in 0 .. n - 1}
  BY <1>0 DEF Linked
<1>2. PICK c : IsPath(pages, x, n, c) /\ T = {c[k] : k \in 0 .. n - 1}
  BY <1>1
<1> DEFINE at == Path(x)
           Ends == {k \in DOMAIN at : at[k] \notin Page \/ at[k] \in Wanted}
           end == Min(Ends)
           outcomes == {o \in (0 .. end) \X BOOLEAN :
                          IF o[2] THEN MayFail /\ at[o[1]] \in Page
                                  ELSE o[1] = end}
<1>3. /\ n \in 0 .. MaxPage /\ DOMAIN at = 0 .. MaxPage
      /\ \A k \in 0 .. MaxPage : at[k] = IF k <= n THEN c[k] ELSE INVALID_PAGE_ID
  BY <1>2, PathIs
<1>4. PICK o \in outcomes :
        w = [stop |-> at[o[1]], failed |-> o[2],
             met |-> {at[i] : i \in 0 .. o[1] - 1},
             last |-> IF o[1] = 0 THEN INVALID_PAGE_ID ELSE at[o[1] - 1]]
  BY DEF Walks
<1> HIDE DEF at
<1>5. at[n] = INVALID_PAGE_ID
  BY <1>2, <1>3 DEF IsPath
<1>6. n \in Ends /\ Ends \in SUBSET Nat
  BY <1>3, <1>5, PagesAre
<1>7. end \in Ends /\ end <= n /\ end \in Nat
  <2> HIDE DEF Ends
  <2> QED
    BY <1>6, LeastIsLeast
<1>8. \A k \in 0 .. n - 1 : at[k] \in S
  BY <1>2, <1>3
<1>9. /\ o[1] \in 0 .. end /\ o[2] \in BOOLEAN
      /\ IF o[2] THEN MayFail /\ at[o[1]] \in Page ELSE o[1] = end
  BY <1>4
<1> HIDE DEF end, outcomes
<1>10. o[1] \in 0 .. n /\ (o[1] = n \/ o[1] \in 0 .. n - 1)
  BY <1>7, <1>9
<1>11. at[o[1]] \in S \cup {INVALID_PAGE_ID}
  BY <1>5, <1>8, <1>10
<1>12. \A i \in 0 .. o[1] - 1 : at[i] \in S
  BY <1>8, <1>10
<1>13. o[1] = 0 \/ o[1] - 1 \in 0 .. o[1] - 1
  BY <1>10
<1>14. w.met \subseteq S /\ w.last \in S \cup {INVALID_PAGE_ID}
  BY <1>4, <1>12, <1>13
<1>15. ASSUME Found(w) PROVE w.stop \in S \cap Wanted
  <2>1. ~ o[2] /\ o[1] = end /\ at[end] \in Page
    BY <1>4, <1>9, <1>15 DEF Found
  <2>2. at[end] \in Wanted /\ at[end] # INVALID_PAGE_ID
    BY <1>7, <2>1, PagesAre DEF Ends
  <2> QED
    BY <1>4, <1>11, <2>1, <2>2
<1> QED
  BY <1>4, <1>9, <1>11, <1>14, <1>15

-------------------------------------------------------------------------------
(* Pages.                                                                  *)

LEMMA CompactedIs ==
  ASSUME TableHeapConstants, NEW p \in PageState, NEW skip
  PROVE  Compacted(p, skip) \in Int /\ Compacted(p, skip) <= Capacity - Len(p.slots)
<1> DEFINE S == Live(p) \ {skip}
<1>1. Len(p.slots) \in Nat /\ DOMAIN p.slots = 1 .. Len(p.slots) /\ Capacity \in Nat
  BY DEF PageState, TableHeapConstants
<1>2. IsFiniteSet(1 .. Len(p.slots)) /\ IsFiniteSet(1 .. Capacity)
  <2>1. 1 \in Int /\ Len(p.slots) \in Int /\ Capacity \in Int
    BY <1>1
  <2> QED
    BY <2>1, FS_Interval
<1>3. IsFiniteSet(S)
  <2>1. S \in SUBSET (1 .. Len(p.slots))
    BY <1>1 DEF Live
  <2> QED
    BY <1>2, <2>1, FS_Subset
<1>4. IsFiniteSet(Bodies(p, S))
  <2>1. IsFiniteSet(S \X (1 .. Capacity))
    BY <1>2, <1>3, FS_Product
  <2>2. Bodies(p, S) \in SUBSET (S \X (1 .. Capacity))
    BY DEF Bodies
  <2> QED
    BY <2>1, <2>2, FS_Subset
<1>5. Cardinality(Bodies(p, S)) \in Nat
  BY <1>4, FS_CardinalityType
<1> QED
  BY <1>1, <1>5 DEF Compacted, SlotSize

LEMMA SlotsAre ==
  ASSUME TableHeapConstants
  PROVE  MaxSlots = Capacity /\ Capacity \in Nat /\ 1 \in Nat
         /\ \A n \in Length : n \in Nat /\ n < Capacity
         /\ Min(Length) \in Length /\ Max(Length) \in Length
<1>1. Capacity \in Nat /\ Length \subseteq 1 .. Capacity - 1 /\ Length # {}
  BY DEF TableHeapConstants
<1>2. MaxSlots = Capacity
  BY <1>1 DEF MaxSlots, SlotSize
<1>3. Min(Length) \in Length
  BY <1>1, LeastIsLeast
<1>4. Max(Length) \in Length
  <2> DEFINE gap == {Capacity - n : n \in Length}
  <2>1. gap \in SUBSET Nat /\ gap # {}
    BY <1>1
  <2>2. Min(gap) \in gap /\ \A y \in gap : Min(gap) <= y
    <3> HIDE DEF gap
    <3> QED
      BY <2>1, LeastIsLeast
  <2>3. PICK n \in Length : Min(gap) = Capacity - n
    BY <2>2
  <2>4. \A y \in Length : n >= y
    <3> SUFFICES ASSUME NEW y \in Length PROVE n >= y
      OBVIOUS
    <3>1. Capacity - n <= Capacity - y
      BY <2>2, <2>3
    <3> QED
      BY <1>1, <3>1
  <2> QED
    BY <2>4 DEF Max
<1> QED
  BY <1>1, <1>2, <1>3, <1>4

(* An insertion keeps a page a page, and where it is linked.               *)
LEMMA InsertTyped ==
  ASSUME TableHeapConstants, NEW p, PageTyped(p), NEW r \in Rec, NEW n \in Length
  PROVE  LET result == PageInsert(p, r, n)
         IN  /\ PageTyped(result.page)
             /\ result.page.use = p.use /\ result.page.next = p.next
             /\ result.error = "none" => result.slot \in 0 .. MaxSlots
<1> DEFINE reuses == DOMAIN p.slots \ Live(p)
           need == n + (IF reuses = {} THEN SlotSize ELSE 0)
           free == IF p.free < need THEN Compacted(p, 0) ELSE p.free
           slot == IF reuses = {} THEN Len(p.slots) + 1 ELSE Min(reuses)
           record == [rec |-> r, length |-> n]
           len == Len(p.slots)
           end == Max({slot, len})
           new == [s \in 1 .. end |-> IF s = slot THEN record ELSE p.slots[s]]
<1>1. /\ p \in PageState /\ p.free \in Nat /\ len \in Nat /\ p.free + len <= Capacity
      /\ p.slots \in Seq(Slot) /\ DOMAIN p.slots = 1 .. len
      /\ \A s \in 1 .. len : p.slots[s] \in Slot
  BY SlotsAre DEF PageTyped, PageState
<1>2. n \in Nat /\ Capacity \in Nat /\ record \in Slot /\ MaxSlots = Capacity
  BY SlotsAre DEF Slot
<1>3. free \in Int /\ free + len <= Capacity
  <2>1. Compacted(p, 0) \in Int /\ Compacted(p, 0) <= Capacity - len
    BY <1>1, CompactedIs
  <2> QED
    BY <1>1, <1>2, <2>1
<1>4. /\ slot \in 1 .. len + 1 /\ end \in {len, len + 1} /\ slot <= end
      /\ end = len + 1 => reuses = {} /\ slot = len + 1
      /\ end = len => slot \in 1 .. len
  <2>1. CASE reuses = {}
    <3>1. end = len + 1 /\ slot = len + 1
      BY <1>1, <2>1 DEF Max
    <3> HIDE DEF end, slot
    <3> QED
      BY <1>1, <2>1, <3>1
  <2>2. CASE reuses # {}
    <3>1. reuses \in SUBSET Nat /\ reuses \subseteq 1 .. len
      BY <1>1
    <3>2. slot \in 1 .. len
      <4>1. Min(reuses) \in reuses
        <5> HIDE DEF reuses
        <5> QED
          BY <2>2, <3>1, LeastIsLeast
      <4> QED
        BY <2>2, <3>1, <4>1
    <3>3. end = len
      <4> HIDE DEF slot
      <4> QED
        BY <1>1, <3>2 DEF Max
    <3> QED
      BY <1>1, <2>2, <3>2, <3>3
  <2> QED
    BY <2>1, <2>2
<1>5. new \in Seq(Slot) /\ Len(new) = end
  <2>1. end \in Nat /\ \A s \in 1 .. end : s # slot => s \in 1 .. len
    <3> HIDE DEF slot, end
    <3> QED
      BY <1>1, <1>4
  <2>2. \A s \in 1 .. end : (IF s = slot THEN record ELSE p.slots[s]) \in Slot
    <3> HIDE DEF slot, end, record
    <3> QED
      BY <1>1, <1>2, <2>1
  <2>3. new \in [1 .. end -> Slot]
    <3> HIDE DEF slot, end, record
    <3> QED
      BY <2>2
  <2> HIDE DEF new, end
  <2> QED
    BY <2>1, <2>3
<1> HIDE DEF new, end, slot, record
<1>6. CASE p.use # "heap"
  BY <1>6 DEF PageInsert, Result
<1>7. CASE p.use = "heap" /\ free < 0
  BY <1>7 DEF PageInsert, Result
<1>8. CASE p.use = "heap" /\ ~ (free < 0) /\ free < need
  <2> DEFINE q == [p EXCEPT !.free = free]
  <2>1. PageInsert(p, r, n) = Result(q, "InsufficientSpace", 0)
    BY <1>8 DEF PageInsert
  <2>2. free \in 0 .. Capacity
    <3> HIDE DEF free
    <3> QED
      BY <1>1, <1>2, <1>3, <1>8
  <2>3. PageTyped(q) /\ q.use = p.use /\ q.next = p.next
    <3> HIDE DEF free
    <3> QED
      BY <1>1, <1>3, <2>2 DEF PageTyped, PageState
  <2> HIDE DEF q
  <2> QED
    BY <2>1, <2>3 DEF Result
<1>9. CASE p.use = "heap" /\ ~ (free < 0) /\ ~ (free < need)
  <2> DEFINE q == [p EXCEPT !.free = free - need, !.slots = new]
  <2>1. PageInsert(p, r, n) = Result(q, "none", slot)
    BY <1>9 DEF PageInsert, new, end, slot, record
  <2>2. /\ free - need \in 0 .. Capacity /\ (free - need) + end <= Capacity
        /\ slot \in 0 .. MaxSlots
    <3>1. need = IF reuses = {} THEN n + 1 ELSE n
      BY <1>2 DEF SlotSize
    <3> HIDE DEF free, need, reuses
    <3> QED
      BY <1>1, <1>2, <1>3, <1>4, <1>9, <3>1
  <2>3. PageTyped(q) /\ q.use = p.use /\ q.next = p.next
    <3> HIDE DEF free, need
    <3> QED
      BY <1>1, <1>5, <2>2 DEF PageTyped, PageState
  <2> HIDE DEF q
  <2> QED
    BY <2>1, <2>2, <2>3 DEF Result
<1> QED
  BY <1>6, <1>7, <1>8, <1>9

LEMMA DeleteTyped ==
  ASSUME TableHeapConstants, NEW p, PageTyped(p), NEW s
  PROVE  LET result == PageDelete(p, s)
         IN  /\ PageTyped(result.page)
             /\ result.page.use = p.use /\ result.page.next = p.next
<1> DEFINE free == Compacted(p, s)
           gone == [rec |-> NoRec, length |-> 0]
           q == [p EXCEPT !.free = free, !.slots[s] = gone]
<1>1. p \in PageState /\ Len(p.slots) \in Nat /\ Capacity \in Nat
  BY SlotsAre DEF PageTyped, PageState
<1>2. free \in Int /\ free <= Capacity - Len(p.slots)
  BY <1>1, CompactedIs
<1>3. CASE s \notin Live(p) \/ free < 0
  BY <1>3 DEF PageDelete, Result
<1>4. CASE s \in Live(p) /\ ~ (free < 0)
  <2>1. PageDelete(p, s) = Result(q, "none", s)
    BY <1>4 DEF PageDelete
  <2>2. s \in 1 .. Len(p.slots) /\ p.slots \in Seq(Slot) /\ gone \in Slot
    BY <1>1, <1>4 DEF Live, PageState, Slot
  <2>3. [p.slots EXCEPT ![s] = gone] \in Seq(Slot)
        /\ Len([p.slots EXCEPT ![s] = gone]) = Len(p.slots)
    <3> HIDE DEF gone
    <3> QED
      BY <2>2
  <2>4. PageTyped(q) /\ q.use = p.use /\ q.next = p.next
    <3> HIDE DEF free
    <3>1. free \in 0 .. Capacity /\ free + Len(p.slots) <= Capacity
      BY <1>1, <1>2, <1>4
    <3> DEFINE kept == [p.slots EXCEPT ![s] = gone]
    <3>2. q = [p EXCEPT !.free = free, !.slots = kept]
      OBVIOUS
    <3> HIDE DEF kept, q
    <3> QED
      BY <1>1, <2>3, <3>1, <3>2 DEF PageTyped, PageState, kept
  <2> HIDE DEF q
  <2> QED
    BY <2>1, <2>4 DEF Result
<1> QED
  BY <1>3, <1>4

LEMMA UpdateTyped ==
  ASSUME TableHeapConstants, NEW p, PageTyped(p), NEW s, NEW n \in Length
  PROVE  LET result == PageUpdate(p, s, n)
         IN  /\ PageTyped(result.page)
             /\ result.page.use = p.use /\ result.page.next = p.next
<1> DEFINE free == IF p.free < n THEN Compacted(p, s) ELSE p.free
           changed == [p.slots EXCEPT ![s].length = n]
<1>1. /\ p \in PageState /\ Len(p.slots) \in Nat /\ Capacity \in Nat /\ n \in Nat
      /\ p.free \in Nat /\ p.free + Len(p.slots) <= Capacity
  BY SlotsAre DEF PageTyped, PageState
<1>2. free \in Int /\ free + Len(p.slots) <= Capacity
  <2>1. Compacted(p, s) \in Int /\ Compacted(p, s) <= Capacity - Len(p.slots)
    BY <1>1, CompactedIs
  <2> QED
    BY <1>1, <2>1
<1>3. CASE s \notin Live(p)
  BY <1>3 DEF PageUpdate, Result
<1>4. CASE s \in Live(p)
  <2>1. changed \in Seq(Slot) /\ Len(changed) = Len(p.slots)
    <3>1. s \in 1 .. Len(p.slots) /\ p.slots \in Seq(Slot)
      BY <1>1, <1>4 DEF Live, PageState
    <3>2. [p.slots[s] EXCEPT !.length = n] \in Slot
      <4>1. p.slots[s] \in Slot
        BY <3>1
      <4> QED
        BY <1>1, <4>1 DEF Slot
    <3> QED
      BY <3>1, <3>2
  <2> HIDE DEF changed
  <2>2. CASE n <= p.slots[s].length
    <3> DEFINE q == [p EXCEPT !.slots = changed]
    <3>1. PageUpdate(p, s, n) = Result(q, "none", s)
      BY <1>4, <2>2 DEF PageUpdate, changed
    <3>2. PageTyped(q) /\ q.use = p.use /\ q.next = p.next
      BY <1>1, <2>1 DEF PageTyped, PageState
    <3> HIDE DEF q
    <3> QED
      BY <3>1, <3>2 DEF Result
  <2>3. CASE ~ (n <= p.slots[s].length) /\ free < 0
    BY <1>4, <2>3 DEF PageUpdate, Result
  <2>4. CASE ~ (n <= p.slots[s].length) /\ ~ (free < 0) /\ free < n
    <3> DEFINE q == [p EXCEPT !.free = free]
    <3>1. PageUpdate(p, s, n) = Result(q, "InsufficientSpace", s)
      BY <1>4, <2>4 DEF PageUpdate
    <3>2. PageTyped(q) /\ q.use = p.use /\ q.next = p.next
      <4>1. free \in 0 .. Capacity /\ free + Len(p.slots) <= Capacity
        BY <1>1, <1>2, <2>4
      <4> HIDE DEF free
      <4>2. /\ q \in PageState /\ q.use = p.use /\ q.next = p.next
            /\ q.free = free /\ q.slots = p.slots
        BY <1>1, <4>1 DEF PageState
      <4> QED
        BY <4>1, <4>2 DEF PageTyped
    <3> HIDE DEF q
    <3> QED
      BY <3>1, <3>2 DEF Result
  <2>5. CASE ~ (n <= p.slots[s].length) /\ ~ (free < 0) /\ ~ (free < n)
    <3> DEFINE q == [p EXCEPT !.free = free - n, !.slots = changed]
    <3>1. PageUpdate(p, s, n) = Result(q, "none", s)
      BY <1>4, <2>5 DEF PageUpdate, changed
    <3>2. PageTyped(q) /\ q.use = p.use /\ q.next = p.next
      <4> HIDE DEF free
      <4>1. free - n \in 0 .. Capacity /\ (free - n) + Len(p.slots) <= Capacity
        BY <1>1, <1>2, <2>5
      <4> QED
        BY <1>1, <2>1, <4>1 DEF PageTyped, PageState
    <3> HIDE DEF q
    <3> QED
      BY <3>1, <3>2 DEF Result
  <2> QED
    BY <2>2, <2>3, <2>4, <2>5
<1> QED
  BY <1>3, <1>4

-------------------------------------------------------------------------------
(* One page, one call, one table changes.                                  *)

(* A link is set. *)
Relinked(m, w, q, x) == w = [m EXCEPT ![q].next = x]

LEMMA LinkSet ==
  ASSUME NEW m, PagesTyped(m), NEW q \in Page, NEW x \in PageIds,
         NEW w, Relinked(m, w, q, x)
  PROVE  /\ PagesTyped(w) /\ w[q].next = x
         /\ \A p \in Page : w[p].use = m[p].use
         /\ \A p \in Page \ {q} : w[p] = m[p]
<1> DEFINE y == [m[q] EXCEPT !.next = x]
<1>1. m \in [Page -> PageState] /\ PageTyped(m[q]) /\ m[q] \in PageState
  BY DEF PagesTyped
<1>2. y.next = x /\ y.use = m[q].use /\ y.slots = m[q].slots /\ y.free = m[q].free /\ y \in PageState
  BY <1>1 DEF PageState
<1>3. PageTyped(y)
  <2> HIDE DEF y
  <2> QED
    BY <1>1, <1>2 DEF PageTyped
<1>4. w = [m EXCEPT ![q] = y]
  BY <1>1 DEF Relinked
<1> HIDE DEF y
<1>5. PagesTyped(w) /\ w[q] = y /\ \A p \in Page \ {q} : w[p] = m[p]
  BY <1>1, <1>2, <1>3, <1>4 DEF PagesTyped
<1> QED
  BY <1>2, <1>4, <1>5

(* The link behind which a page belongs is set.                            *)
LEMMA LinkedBack ==
  ASSUME TableHeapConstants, NEW m, PagesTyped(m), NEW f, NEW S, Linked(m, f, S),
         NEW q \in S, NEW p \in Page \ S, m[p].next = m[q].next,
         NEW w, Relinked(m, w, q, p)
  PROVE  Linked(w, f, S \cup {p})
<1>1. q \in Page /\ p \in PageIds /\ q # p /\ S \subseteq Page
  BY LinkedParts DEF PageIds
<1>2. w[q].next = p /\ \A r \in Page \ {q} : w[r] = m[r]
  BY <1>1, LinkSet
<1>3. w[p].next = m[q].next /\ \A r \in S \ {q} : w[r].next = m[r].next
  BY <1>1, <1>2
<1> QED
  BY <1>2, <1>3, LinkedBehind

LEMMA NewStates ==
  ASSUME TableHeapConstants
  PROVE  /\ PageTyped(InitForNewPage) /\ PageTyped(Freed) /\ PageTyped(Fresh)
         /\ InitForNewPage.use = "heap" /\ InitForNewPage.next = INVALID_PAGE_ID
         /\ Freed.use # "heap" /\ Fresh.use # "heap"
<1>1. <<>> \in Seq(Slot) /\ Len(<<>>) = 0 /\ Capacity \in Nat
  BY SlotsAre
<1> QED
  BY <1>1 DEF PageTyped, PageState, InitForNewPage, Freed, Fresh, PageIds

LEMMA CallSet ==
  ASSUME CallsTyped(task), NEW t \in Thread, NEW k, CallTyped(k), Continue(t, k)
  PROVE  /\ CallsTyped(task') /\ task'[t] = k
         /\ \A u \in Thread \ {t} : task'[u] = task[u]
<1>1. k \in CallState
  BY DEF CallTyped
<1> QED
  BY <1>1 DEF CallsTyped, Continue

LEMMA IdleTyped ==
  ASSUME TableHeapConstants
  PROVE  /\ CallTyped(Idle) /\ Idle.pc = "idle" /\ Hand(Idle) = {}
         /\ NoRid \in Rids /\ RidTyped(NoRid)
<1>1. NoRid \in Rids
  BY SlotsAre DEF NoRid, Rids
<1>2. Idle \in CallState /\ Idle.pc = "idle"
  BY <1>1 DEF CallState, Idle, PageIds
<1> QED
  BY <1>1, <1>2 DEF CallTyped, RidTyped, Hand

LEMMA CallIs ==
  ASSUME CallsTyped(task), NEW t \in Thread
  PROVE  CallTyped(task[t]) /\ task[t] \in CallState
BY DEF CallsTyped

LEMMA HandIs ==
  ASSUME NEW k, CallTyped(k)
  PROVE  Hand(k) \subseteq Page
         /\ (k.pc = "link" => Hand(k) = {k.at})
         /\ (k.pc = "drop" => Hand(k) = {Deletes(k).page})
         /\ (k.pc \notin {"link", "drop"} => Hand(k) = {})
<1>1. k.pc = "drop" => Deletes(k).page \in Page
  BY DEF CallTyped, Deletes
<1>2. k.pc = "link" => k.at \in Page
  BY DEF CallTyped
<1> QED
  BY <1>1, <1>2 DEF Hand

(* The pages of chains and hands are pages of tables.                      *)
LEMMA ChainedPages ==
  ASSUME NEW m, NEW f, NEW l, NEW k, NEW C, CallsTyped(k), Chained(m, f, l, k, C)
  PROVE  /\ \A h \in Heap : C[h] \subseteq Page
         /\ \A h \in Heap : \A p \in C[h] : m[p].use = "heap"
         /\ \A t \in Thread : \A p \in Hand(k[t]) : p \in Page /\ m[p].use = "heap"
<1>1. \A h \in Heap : C[h] \subseteq Page
  BY DEF Chained
<1>2. \A t \in Thread : Hand(k[t]) \subseteq Page
  BY HandIs DEF CallsTyped
<1>3. \A p \in Page : m[p].use = "heap" <=>
       (\E h \in Heap : p \in C[h]) \/ (\E t \in Thread : p \in Hand(k[t]))
  BY DEF Chained
<1> QED
  BY <1>1, <1>2, <1>3

(* Slots and room of pages, and calls that neither have nor get a page in  *)
(* hand, are no matter to the chains.                                      *)
LEMMA QuietKeeps ==
  ASSUME NEW m, NEW f, NEW l, NEW k, NEW C, CallsTyped(k), Chained(m, f, l, k, C),
         NEW w, \A p \in Page : w[p].next = m[p].next /\ w[p].use = m[p].use,
         NEW j, CallsTyped(j),
         \A t \in Thread : \/ j[t] = k[t]
                           \/ k[t].pc \notin {"link", "drop"} /\ j[t].pc \notin {"link", "drop"}
  PROVE  Chained(w, f, l, j, C)
<1>1. \A t \in Thread : Hand(j[t]) = Hand(k[t])
  BY HandIs DEF CallsTyped
<1>2. \A t \in Thread : /\ j[t].pc = "drop" <=> k[t].pc = "drop"
                        /\ j[t].pc = "link" <=> k[t].pc = "link"
                        /\ j[t].pc \in {"drop", "link"} => j[t] = k[t]
  OBVIOUS
<1>3. /\ \A h \in Heap : C[h] \subseteq Page
      /\ \A t \in Thread : Hand(k[t]) \subseteq Page
  BY ChainedPages
<1>4. C \in [Heap -> SUBSET Page]
  BY DEF Chained
<1>5. \A h \in Heap : Linked(w, f[h], C[h])
  <2> SUFFICES ASSUME NEW h \in Heap PROVE Linked(w, f[h], C[h])
    OBVIOUS
  <2>1. Linked(m, f[h], C[h])
    BY DEF Chained
  <2> QED
    BY <1>3, <2>1, LinkedSame
<1>6. \A h, g \in Heap : \A p : p \in C[h] /\ p \in C[g] => h = g
  BY DEF Chained
<1>7. \A p \in Page : w[p].use = "heap" <=>
       (\E h \in Heap : p \in C[h]) \/ (\E t \in Thread : p \in Hand(j[t]))
  <2>1. \A p \in Page : m[p].use = "heap" <=>
          (\E h \in Heap : p \in C[h]) \/ (\E t \in Thread : p \in Hand(k[t]))
    BY DEF Chained
  <2> QED
    BY <1>1, <2>1
<1>8. \A t \in Thread, h \in Heap : \A p : ~ (p \in Hand(j[t]) /\ p \in C[h])
  BY <1>1 DEF Chained
<1>9. \A t, u \in Thread : \A p : p \in Hand(j[t]) /\ p \in Hand(j[u]) => t = u
  <2>1. \A t, u \in Thread : \A p : p \in Hand(k[t]) /\ p \in Hand(k[u]) => t = u
    BY DEF Chained
  <2> QED
    BY <1>1, <2>1
<1>10. \A t, u \in Thread :
         j[t].pc = "drop" /\ j[u].pc = "drop" /\ j[t].heap = j[u].heap => t = u
  <2>1. \A t, u \in Thread :
          k[t].pc = "drop" /\ k[u].pc = "drop" /\ k[t].heap = k[u].heap => t = u
    BY DEF Chained
  <2> QED
    BY <1>2, <2>1
<1>11. \A t \in Thread : j[t].pc = "link" => w[j[t].at].next = INVALID_PAGE_ID
  <2>1. \A t \in Thread : k[t].pc = "link" => m[k[t].at].next = INVALID_PAGE_ID /\ k[t].at \in Page
    BY DEF Chained, CallsTyped, CallTyped
  <2> QED
    BY <1>2, <2>1
<1>12. ASSUME NEW t \in Thread, j[t].pc = "drop" PROVE Detached(w, f, l, j[t], C)
  <2>1. j[t] = k[t] /\ k[t].pc = "drop" /\ k[t].heap \in Heap /\ Deletes(k[t]).page \in Page
    BY <1>2, <1>12 DEF CallsTyped, CallTyped, Deletes
  <2>2. Detached(m, f, l, k[t], C)
    BY <2>1 DEF Chained
  <2> QED
    BY <1>3, <2>1, <2>2 DEF Detached
<1>13. \A h \in Heap : \/ l[h] \in C[h] \cup {INVALID_PAGE_ID}
                       \/ \E t \in Thread : j[t].pc = "drop" /\ j[t].heap = h
  <2>1. \A h \in Heap : \/ l[h] \in C[h] \cup {INVALID_PAGE_ID}
                        \/ \E t \in Thread : k[t].pc = "drop" /\ k[t].heap = h
    BY DEF Chained
  <2> QED
    BY <1>2, <2>1
<1> QED
  BY <1>4, <1>5, <1>6, <1>7, <1>8, <1>9, <1>10, <1>11, <1>12, <1>13 DEF Chained

(* What a call may become without a page in hand. *)
Quiet(k) == k.pc \notin {"link", "drop"}
QuietCall(t) ==
  /\ CallsTyped(task') /\ Quiet(task'[t])
  /\ \A u \in Thread \ {t} : task'[u] = task[u]

LEMMA ReturnKeeps ==
  ASSUME TableHeapConstants, CallsTyped(task), NEW t \in Thread, Return(t)
  PROVE  QuietCall(t) /\ task'[t] = Idle
<1>1. CallTyped(Idle) /\ Quiet(Idle) /\ Continue(t, Idle)
  BY IdleTyped DEF Return, Quiet
<1> QED
  BY <1>1, CallSet DEF QuietCall

LEMMA RidSet ==
  ASSUME RidsTyped(rids), NEW r \in Rec, NEW i, RidTyped(i)
  PROVE  RidsTyped([rids EXCEPT ![r] = i])
<1>1. i \in Rids
  BY DEF RidTyped
<1> QED
  BY <1>1 DEF RidsTyped

(* The end of a deletion, of a move, or of one that is taken back.         *)
LEMMA AnswerKeeps ==
  ASSUME TableHeapConstants, CallsTyped(task), RidsTyped(rids), NEW t \in Thread,
         task[t].pc \in {"mark", "reclaim", "drop"}, NEW done \in BOOLEAN, Answer(t, done)
  PROVE  /\ QuietCall(t) /\ RidsTyped(rids')
         /\ done => task'[t] = Idle
<1> DEFINE k == task[t]
<1>1. CallTyped(k) /\ k \in CallState
  BY CallIs
<1>2. k.rec \in Rec
  BY <1>1 DEF CallTyped
<1>3. CASE k.op = "delete"
  <2>1. Return(t) /\ rids' = [rids EXCEPT ![k.rec] = IF done THEN NoRid ELSE @]
    BY <1>3 DEF Answer
  <2>2. RidTyped(rids[k.rec]) /\ RidTyped(NoRid) /\ rids \in [Rec -> Rids]
    BY <1>2, IdleTyped DEF RidsTyped
  <2>3. rids' = [rids EXCEPT ![k.rec] = IF done THEN NoRid ELSE rids[k.rec]]
    BY <2>1
  <2>4. RidTyped(IF done THEN NoRid ELSE rids[k.rec])
    BY <2>2
  <2>5. RidsTyped(rids')
    BY <1>2, <2>3, <2>4, RidSet
  <2> QED
    BY <2>1, <2>5, ReturnKeeps
<1>4. CASE k.op = "move" /\ done
  <2>1. Return(t) /\ rids' = [rids EXCEPT ![k.rec] = k.new]
    BY <1>4 DEF Answer
  <2>2. RidTyped(k.new)
    BY <1>1, <1>4 DEF CallTyped, CallState, RidTyped
  <2>3. RidsTyped(rids')
    BY <1>2, <2>1, <2>2, RidSet
  <2> QED
    BY <2>1, <2>3, ReturnKeeps
<1>5. CASE k.op = "move" /\ ~ done
  <2> DEFINE j == [k EXCEPT !.op = "undo", !.pc = "mark"]
  <2>1. Continue(t, j) /\ rids' = rids
    BY <1>5 DEF Answer
  <2>2. CallTyped(j) /\ Quiet(j)
    BY <1>1, <1>5 DEF CallTyped, CallState, Quiet
  <2> HIDE DEF j
  <2>3. QuietCall(t)
    BY <2>1, <2>2, CallSet DEF QuietCall
  <2> QED
    BY <1>5, <2>1, <2>3
<1>6. CASE k.op \notin {"delete", "move"}
  <2>1. Return(t) /\ rids' = rids
    BY <1>6 DEF Answer
  <2> QED
    BY <2>1, ReturnKeeps
<1> QED
  BY <1>3, <1>4, <1>5, <1>6

LEMMA InsertedKeeps ==
  ASSUME TableHeapConstants, CallsTyped(task), RidsTyped(rids), NEW t \in Thread,
         task[t].pc \in {"put", "putnew"}, NEW s \in 0 .. MaxSlots,
         Inserted(t, RidAt(task[t].heap, task[t].at, s))
  PROVE  QuietCall(t) /\ RidsTyped(rids')
<1> DEFINE k == task[t]
           i == RidAt(k.heap, k.at, s)
<1>1. CallTyped(k) /\ k \in CallState
  BY CallIs
<1>2. k.rec \in Rec /\ k.heap \in Heap /\ k.at \in Page
  BY <1>1 DEF CallTyped
<1>3. RidTyped(i) /\ i.heap \in Heap /\ i.page \in Page /\ i \in Rids
  BY <1>2 DEF RidTyped, Rids, RidAt
<1> HIDE DEF i
<1>4. CASE k.op = "insert"
  <2>1. Return(t) /\ rids' = [rids EXCEPT ![k.rec] = i]
    BY <1>4 DEF Inserted, i
  <2>2. RidsTyped(rids')
    BY <1>2, <1>3, <2>1, RidSet
  <2> QED
    BY <2>1, <2>2, ReturnKeeps
<1>5. CASE k.op # "insert"
  <2> DEFINE j == [k EXCEPT !.pc = "mark", !.new = i, !.at = INVALID_PAGE_ID, !.tried = {}]
  <2>1. Continue(t, j) /\ rids' = rids
    BY <1>5 DEF Inserted, i
  <2>2. CallTyped(j) /\ Quiet(j)
    BY <1>1, <1>3, <1>5 DEF CallTyped, CallState, Quiet, PageIds
  <2> HIDE DEF j
  <2>3. QuietCall(t)
    BY <2>1, <2>2, CallSet DEF QuietCall
  <2> QED
    BY <2>1, <2>3
<1> QED
  BY <1>4, <1>5

(* A step that changes no chain.                                           *)
LEMMA QuietStep ==
  ASSUME NEW C, Sound(C), Typed', UNCHANGED <<first_page_id, tail_page_id>>,
         \A p \in Page : pages'[p].next = pages[p].next /\ pages'[p].use = pages[p].use,
         \/ UNCHANGED task
         \/ \E t \in Thread : QuietCall(t) /\ Quiet(task[t])
  PROVE  Sound(C)'
<1>1. CallsTyped(task) /\ CallsTyped(task')
  BY DEF Sound, Typed
<1>2. \A t \in Thread : \/ task'[t] = task[t]
                        \/ /\ task[t].pc \notin {"link", "drop"}
                           /\ task'[t].pc \notin {"link", "drop"}
  BY DEF QuietCall, Quiet
<1>3. Chained(pages, first_page_id, tail_page_id, task, C)
  BY DEF Sound
<1>4. Chained(pages', first_page_id, tail_page_id, task', C)
  BY <1>1, <1>2, <1>3, QuietKeeps
<1> QED
  BY <1>4 DEF Sound

LEMMA MapSet ==
  ASSUME NEW C, Sound(C), NEW h \in Heap, NEW S \in SUBSET Page, UpdateFreeSpaceMap(h, S)
  PROVE  free_space_map' \in [Heap -> SUBSET Page]
BY DEF Sound, Typed, UpdateFreeSpaceMap

LEMMA FaultsAre ==
  ASSUME TableHeapConstants, faults \in 0 .. MaxFaults, NEW failed \in BOOLEAN, failed => MayFail,
         Costs(failed)
  PROVE  faults' \in 0 .. MaxFaults
<1>1. MaxFaults \in Nat
  BY DEF TableHeapConstants
<1> QED
  BY <1>1 DEF Costs, MayFail

LEMMA FailsCost ==
  ASSUME TableHeapConstants, faults \in 0 .. MaxFaults, Fails
  PROVE  faults' \in 0 .. MaxFaults
BY FaultsAre DEF Fails

(* A page gets other slots or another room, but stays where it is linked.  *)
LEMMA PageChanged ==
  ASSUME NEW C, Sound(C), NEW p \in Page, NEW x, PageTyped(x),
         x.use = pages[p].use, x.next = pages[p].next, pages' = [pages EXCEPT ![p] = x]
  PROVE  /\ PagesTyped(pages')
         /\ \A q \in Page : pages'[q].next = pages[q].next /\ pages'[q].use = pages[q].use
<1>1. PagesTyped(pages)
  BY DEF Sound, Typed
<1>2. PagesTyped(pages') /\ pages'[p] = x /\ \A q \in Page \ {p} : pages'[q] = pages[q]
  <2>1. x \in PageState
    BY DEF PageTyped
  <2> QED
    BY <1>1, <2>1 DEF PagesTyped
<1>3. ASSUME NEW q \in Page
      PROVE  pages'[q].next = pages[q].next /\ pages'[q].use = pages[q].use
  BY <1>2
<1> QED
  BY <1>2, <1>3

-------------------------------------------------------------------------------
(* Calls begin.                                                            *)

LEMMA CallInsertKeeps ==
  ASSUME TableHeapConstants, NEW C, Sound(C), NEW t \in Thread, NEW h \in Heap,
         NEW r \in Rec, NEW n \in Length, CallInsert(t, h, r, n)
  PROVE  Sound(C)'
<1> DEFINE k == [Idle EXCEPT !.pc = "find", !.op = "insert", !.heap = h, !.rec = r, !.size = n]
<1>1. Continue(t, k) /\ At(t, "idle")
      /\ UNCHANGED <<wal, pages, heapvars, rids, scan, faults>>
  BY DEF CallInsert
<1>2. CallTyped(k) /\ Quiet(k)
  <2>1. Idle \in CallState /\ n \in Nat
    BY IdleTyped, SlotsAre DEF CallTyped
  <2>2. k \in CallState /\ k.pc = "find" /\ k.heap = h /\ k.rec = r /\ k.size = n /\ k.op = "insert"
    BY <2>1 DEF CallState, Idle
  <2> HIDE DEF k
  <2> QED
    BY <2>2 DEF CallTyped, Quiet
<1> HIDE DEF k
<1>3. CallsTyped(task) /\ Quiet(task[t])
  BY <1>1 DEF Sound, Typed, At, Quiet
<1>4. QuietCall(t)
  BY <1>1, <1>2, <1>3, CallSet DEF QuietCall
<1>5. Typed'
  BY <1>1, <1>4 DEF Sound, Typed, QuietCall, heapvars
<1> QED
  BY <1>1, <1>3, <1>4, <1>5, QuietStep DEF heapvars

LEMMA CallDeleteKeeps ==
  ASSUME TableHeapConstants, NEW C, Sound(C), NEW t \in Thread, NEW r \in Rec, CallDelete(t, r)
  PROVE  Sound(C)'
<1> DEFINE k == [Idle EXCEPT !.pc = "mark", !.op = "delete", !.rec = r,
                             !.heap = rids[r].heap, !.old = rids[r]]
<1>1. /\ Continue(t, k) /\ At(t, "idle") /\ rids[r] # NoRid
      /\ UNCHANGED <<wal, pages, heapvars, rids, faults>>
  BY DEF CallDelete, MayChange
<1>2. CallTyped(k) /\ Quiet(k)
  <2>1. Idle \in CallState
    BY IdleTyped DEF CallTyped
  <2>2. rids[r] \in Rids /\ rids[r].heap \in Heap /\ rids[r].page \in Page
    BY <1>1 DEF Sound, Typed, RidsTyped, RidTyped
  <2>3. /\ k \in CallState /\ k.pc = "mark" /\ k.heap = rids[r].heap /\ k.rec = r
        /\ k.op = "delete" /\ k.old = rids[r]
    BY <2>1, <2>2 DEF CallState, Idle
  <2> HIDE DEF k
  <2> QED
    BY <2>2, <2>3 DEF CallTyped, Quiet
<1> HIDE DEF k
<1>3. CallsTyped(task) /\ Quiet(task[t])
  BY <1>1 DEF Sound, Typed, At, Quiet
<1>4. QuietCall(t)
  BY <1>1, <1>2, <1>3, CallSet DEF QuietCall
<1>5. Typed'
  BY <1>1, <1>4 DEF Sound, Typed, QuietCall, heapvars
<1> QED
  BY <1>1, <1>3, <1>4, <1>5, QuietStep DEF heapvars

LEMMA CallUpdateKeeps ==
  ASSUME TableHeapConstants, NEW C, Sound(C), NEW t \in Thread, NEW r \in Rec,
         NEW n \in Length, CallUpdate(t, r, n)
  PROVE  Sound(C)'
<1> DEFINE rid == rids[r]
           result == PageUpdate(pages[rid.page], rid.slot, n)
           k == [Idle EXCEPT !.pc = "find", !.op = "move", !.heap = rid.heap, !.rec = r,
                             !.size = n, !.old = rid]
<1>1. /\ At(t, "idle") /\ rid # NoRid
      /\ UNCHANGED <<wal, first_page_id, tail_page_id, rids>>
      /\ \/ /\ pages' = [pages EXCEPT ![rid.page] = result.page]
            /\ UpdateFreeSpaceMap(rid.heap, {rid.page})
            /\ Continue(t, k) \/ UNCHANGED task
            /\ UNCHANGED faults
         \/ Fails /\ UNCHANGED <<pages, free_space_map, task>>
  BY DEF CallUpdate, MayChange
<1>2. rid \in Rids /\ rid.heap \in Heap /\ rid.page \in Page
  BY <1>1 DEF Sound, Typed, RidsTyped, RidTyped
<1>3. CallTyped(k) /\ Quiet(k)
  <2>1. Idle \in CallState /\ n \in Nat
    BY IdleTyped, SlotsAre DEF CallTyped
  <2>2. /\ k \in CallState /\ k.pc = "find" /\ k.heap = rid.heap /\ k.rec = r
        /\ k.op = "move" /\ k.old = rid /\ k.size = n
    BY <1>2, <2>1 DEF CallState, Idle
  <2> HIDE DEF k, rid
  <2> QED
    BY <1>2, <2>2 DEF CallTyped, Quiet
<1>4. CallsTyped(task) /\ Quiet(task[t]) /\ PagesTyped(pages) /\ faults \in 0 .. MaxFaults
  BY <1>1 DEF Sound, Typed, At, Quiet
<1>5. /\ PageTyped(result.page) /\ result.page.use = pages[rid.page].use
      /\ result.page.next = pages[rid.page].next
  BY <1>2, <1>4, UpdateTyped DEF PagesTyped
<1> HIDE DEF k, result, rid
<1>6. CASE pages' = [pages EXCEPT ![rid.page] = result.page]
           /\ UpdateFreeSpaceMap(rid.heap, {rid.page})
           /\ (Continue(t, k) \/ UNCHANGED task) /\ UNCHANGED faults
  <2>1. /\ PagesTyped(pages')
        /\ \A q \in Page : pages'[q].next = pages[q].next /\ pages'[q].use = pages[q].use
    BY <1>2, <1>5, <1>6, PageChanged
  <2>2. QuietCall(t) \/ UNCHANGED task
    BY <1>3, <1>4, <1>6, CallSet DEF QuietCall
  <2>3. free_space_map' \in [Heap -> SUBSET Page]
    BY <1>2, <1>6, MapSet
  <2>4. Typed'
    BY <1>1, <1>6, <2>1, <2>2, <2>3 DEF Sound, Typed, QuietCall
  <2> QED
    BY <1>1, <1>4, <2>1, <2>2, <2>4, QuietStep
<1>7. CASE Fails /\ UNCHANGED <<pages, free_space_map, task>>
  <2>1. Typed'
    BY <1>1, <1>4, <1>7, FailsCost DEF Sound, Typed
  <2> QED
    BY <1>1, <1>7, <2>1, QuietStep
<1> QED
  BY <1>1, <1>6, <1>7

-------------------------------------------------------------------------------
(* Calls look for room.                                                    *)

LEMMA GrowKeeps ==
  ASSUME TableHeapConstants, CallsTyped(task), NEW t \in Thread, At(t, "find"), Grow(t)
  PROVE  QuietCall(t)
<1> DEFINE k == [task[t] EXCEPT !.pc = "allocate", !.tried = {}]
<1>1. CallTyped(task[t]) /\ task[t] \in CallState /\ task[t].pc = "find"
  BY CallIs DEF At
<1>2. CallTyped(k) /\ Quiet(k) /\ Continue(t, k)
  BY <1>1 DEF CallTyped, CallState, Quiet, Grow
<1> HIDE DEF k
<1> QED
  BY <1>2, CallSet DEF QuietCall

LEMMA TargetKeeps ==
  ASSUME TableHeapConstants, CallsTyped(task), NEW t \in Thread, At(t, "find"),
         NEW p \in Page, Target(t, p)
  PROVE  QuietCall(t)
<1>1. CASE p \in task[t].tried
  BY <1>1, GrowKeeps DEF Target
<1>2. CASE p \notin task[t].tried
  <2> DEFINE k == [task[t] EXCEPT !.pc = "put", !.at = p, !.tried = @ \cup {p}]
  <2>1. CallTyped(task[t]) /\ task[t] \in CallState /\ task[t].pc = "find"
    BY CallIs DEF At
  <2>2. CallTyped(k) /\ Quiet(k) /\ Continue(t, k)
    BY <1>2, <2>1 DEF CallTyped, CallState, Quiet, Target, PageIds
  <2> HIDE DEF k
  <2> QED
    BY <2>2, CallSet DEF QuietCall
<1> QED
  BY <1>1, <1>2

LEMMA ProbeKeeps ==
  ASSUME TableHeapConstants, NEW C, Sound(C), NEW t \in Thread, NEW p \in Page, Probe(t, p)
  PROVE  Sound(C)'
<1>1. /\ At(t, "find")
      /\ UNCHANGED <<wal, pages, first_page_id, tail_page_id, rids, scan>>
      /\ \/ Target(t, p) /\ UNCHANGED <<free_space_map, faults>>
         \/ /\ Fails /\ UNCHANGED task
            /\ free_space_map' = [free_space_map EXCEPT ![task[t].heap] = @ \ {p}]
  BY DEF Probe
<1>2. CallsTyped(task) /\ Quiet(task[t]) /\ faults \in 0 .. MaxFaults
      /\ free_space_map \in [Heap -> SUBSET Page]
  BY <1>1 DEF Sound, Typed, At, Quiet
<1>3. CASE Target(t, p) /\ UNCHANGED <<free_space_map, faults>>
  <2>1. QuietCall(t)
    BY <1>1, <1>2, <1>3, TargetKeeps
  <2>2. Typed'
    BY <1>1, <1>3, <2>1 DEF Sound, Typed, QuietCall
  <2> QED
    BY <1>1, <1>2, <2>1, <2>2, QuietStep
<1>4. CASE /\ Fails /\ UNCHANGED task
           /\ free_space_map' = [free_space_map EXCEPT ![task[t].heap] = @ \ {p}]
  <2>1. faults' \in 0 .. MaxFaults
    BY <1>2, <1>4, FailsCost
  <2>2. free_space_map' \in [Heap -> SUBSET Page]
    BY <1>2, <1>4
  <2>3. Typed'
    BY <1>1, <1>4, <2>1, <2>2 DEF Sound, Typed
  <2> QED
    BY <1>1, <1>4, <2>3, QuietStep
<1> QED
  BY <1>1, <1>3, <1>4

LEMMA WalkKeeps ==
  ASSUME TableHeapConstants, NEW C, Sound(C), NEW t \in Thread, Walk(t)
  PROVE  Sound(C)'
<1> DEFINE h == task[t].heap
           roomy == {p \in Page : pages[p].free >= task[t].size}
<1>1. /\ At(t, "find") /\ UNCHANGED <<wal, pages, first_page_id, tail_page_id, rids, scan>>
      /\ \E w \in Walks(first_page_id[h], roomy) :
           /\ UpdateFreeSpaceMap(h, w.met \cup (IF Found(w) THEN {w.stop} ELSE {}))
           /\ IF Found(w) THEN Target(t, w.stop) ELSE Grow(t)
           /\ Costs(w.failed)
  BY DEF Walk
<1>2. CallsTyped(task) /\ Quiet(task[t]) /\ faults \in 0 .. MaxFaults /\ CallTyped(task[t])
  BY <1>1 DEF Sound, Typed, At, Quiet, CallsTyped
<1>3. h \in Heap
  BY <1>1, <1>2 DEF CallTyped, At
<1> HIDE DEF roomy
<1>4. PICK w \in Walks(first_page_id[h], roomy) :
           /\ UpdateFreeSpaceMap(h, w.met \cup (IF Found(w) THEN {w.stop} ELSE {}))
           /\ IF Found(w) THEN Target(t, w.stop) ELSE Grow(t)
           /\ Costs(w.failed)
  BY <1>1
<1>5. Linked(pages, first_page_id[h], C[h])
  BY <1>3 DEF Sound, Chained
<1>6. first_page_id[h] \in C[h] \cup {INVALID_PAGE_ID} /\ C[h] \subseteq Page
  BY <1>5, LinkedParts
<1>7. /\ w.failed \in BOOLEAN /\ (w.failed => MayFail) /\ w.met \subseteq C[h]
      /\ (Found(w) => w.stop \in C[h] \cap roomy)
  BY <1>5, <1>6, WalkStays
<1>8. w.met \cup (IF Found(w) THEN {w.stop} ELSE {}) \in SUBSET Page
  BY <1>6, <1>7
<1>9. free_space_map' \in [Heap -> SUBSET Page]
  BY <1>3, <1>4, <1>8, MapSet
<1>10. faults' \in 0 .. MaxFaults
  BY <1>2, <1>4, <1>7, FaultsAre
<1>11. QuietCall(t)
  <2>1. CASE Found(w)
    BY <1>1, <1>2, <1>4, <1>6, <1>7, <2>1, TargetKeeps
  <2>2. CASE ~ Found(w)
    BY <1>1, <1>2, <1>4, <2>2, GrowKeeps
  <2> QED
    BY <2>1, <2>2
<1>12. Typed'
  BY <1>1, <1>9, <1>10, <1>11 DEF Sound, Typed, QuietCall
<1> QED
  BY <1>1, <1>2, <1>11, <1>12, QuietStep

-------------------------------------------------------------------------------
(* Records come and go.                                                    *)

LEMMA PutKeeps ==
  ASSUME TableHeapConstants, NEW C, Sound(C), NEW t \in Thread, Put(t)
  PROVE  Sound(C)'
<1> DEFINE h == task[t].heap
           p == task[t].at
           result == PageInsert(pages[p], task[t].rec, task[t].size)
           k == [task[t] EXCEPT !.pc = "find", !.at = INVALID_PAGE_ID]
<1>1. /\ task[t].pc \in {"put", "putnew"}
      /\ UNCHANGED <<wal, first_page_id, tail_page_id, scan>>
      /\ \/ /\ pages' = [pages EXCEPT ![p] = result.page]
            /\ UpdateFreeSpaceMap(h, {p}) /\ UNCHANGED faults
            /\ \/ result.error = "none" /\ Inserted(t, RidAt(h, p, result.slot))
               \/ Continue(t, k) /\ UNCHANGED rids
               \/ Return(t) /\ UNCHANGED rids
         \/ Fails /\ Return(t) /\ UNCHANGED <<pages, free_space_map, rids>>
  BY DEF Put
<1>2. CallsTyped(task) /\ Quiet(task[t]) /\ PagesTyped(pages) /\ faults \in 0 .. MaxFaults
      /\ RidsTyped(rids) /\ CallTyped(task[t]) /\ task[t] \in CallState
  BY <1>1, CallIs DEF Sound, Typed, Quiet
<1>3. h \in Heap /\ p \in Page /\ task[t].rec \in Rec /\ task[t].size \in Length
  BY <1>1, <1>2 DEF CallTyped
<1>4. /\ PageTyped(result.page) /\ result.page.use = pages[p].use
      /\ result.page.next = pages[p].next
      /\ result.error = "none" => result.slot \in 0 .. MaxSlots
  BY <1>2, <1>3, InsertTyped DEF PagesTyped
<1>5. CallTyped(k) /\ Quiet(k)
  BY <1>1, <1>2 DEF CallTyped, CallState, Quiet, PageIds
<1> HIDE DEF k, result
<1>6. CASE /\ pages' = [pages EXCEPT ![p] = result.page]
           /\ UpdateFreeSpaceMap(h, {p}) /\ UNCHANGED faults
           /\ \/ result.error = "none" /\ Inserted(t, RidAt(h, p, result.slot))
              \/ Continue(t, k) /\ UNCHANGED rids
              \/ Return(t) /\ UNCHANGED rids
  <2>1. /\ PagesTyped(pages')
        /\ \A q \in Page : pages'[q].next = pages[q].next /\ pages'[q].use = pages[q].use
    BY <1>3, <1>4, <1>6, PageChanged
  <2>2. free_space_map' \in [Heap -> SUBSET Page]
    BY <1>3, <1>6, MapSet
  <2>3. QuietCall(t) /\ RidsTyped(rids')
    <3>1. CASE result.error = "none" /\ Inserted(t, RidAt(h, p, result.slot))
      BY <1>1, <1>2, <1>4, <3>1, InsertedKeeps
    <3>2. CASE Continue(t, k) /\ UNCHANGED rids
      BY <1>2, <1>5, <3>2, CallSet DEF QuietCall
    <3>3. CASE Return(t) /\ UNCHANGED rids
      BY <1>2, <3>3, ReturnKeeps
    <3> QED
      BY <1>6, <3>1, <3>2, <3>3
  <2>4. Typed'
    BY <1>1, <1>6, <2>1, <2>2, <2>3 DEF Sound, Typed, QuietCall
  <2> QED
    BY <1>1, <1>2, <2>1, <2>3, <2>4, QuietStep
<1>7. CASE Fails /\ Return(t) /\ UNCHANGED <<pages, free_space_map, rids>>
  <2>1. QuietCall(t) /\ faults' \in 0 .. MaxFaults
    BY <1>2, <1>7, ReturnKeeps, FailsCost
  <2>2. Typed'
    BY <1>1, <1>7, <2>1 DEF Sound, Typed, QuietCall
  <2> QED
    BY <1>1, <1>2, <1>7, <2>1, <2>2, QuietStep
<1> QED
  BY <1>1, <1>6, <1>7

LEMMA DoomedIs ==
  ASSUME CallsTyped(task), NEW t \in Thread, task[t].pc \in {"mark", "reclaim", "drop"}
  PROVE  /\ task[t].heap \in Heap
         /\ Doomed(t) = Deletes(task[t]) /\ Doomed(t) \in Rids /\ Doomed(t).page \in Page
<1>1. CallTyped(task[t]) /\ task[t] \in CallState
  BY CallIs
<1> QED
  BY <1>1 DEF CallTyped, CallState, Doomed, Deletes

LEMMA MarkKeeps ==
  ASSUME TableHeapConstants, NEW C, Sound(C), NEW t \in Thread, Mark(t)
  PROVE  Sound(C)'
<1> DEFINE h == task[t].heap
           rid == Doomed(t)
           result == PageDelete(pages[rid.page], rid.slot)
           k == [task[t] EXCEPT !.pc = "reclaim"]
<1>1. /\ task[t].pc = "mark"
      /\ UNCHANGED <<wal, first_page_id, tail_page_id, scan>>
      /\ \/ /\ pages' = [pages EXCEPT ![rid.page] = result.page]
            /\ UpdateFreeSpaceMap(h, {rid.page}) /\ UNCHANGED faults
            /\ \/ Continue(t, k) /\ UNCHANGED rids
               \/ Answer(t, result.error = "none")
         \/ Fails /\ Answer(t, FALSE) /\ UNCHANGED <<pages, free_space_map>>
  BY DEF Mark, At
<1>2. CallsTyped(task) /\ Quiet(task[t]) /\ PagesTyped(pages) /\ faults \in 0 .. MaxFaults
      /\ RidsTyped(rids) /\ CallTyped(task[t]) /\ task[t] \in CallState
  BY <1>1, CallIs DEF Sound, Typed, Quiet
<1>3. h \in Heap /\ rid.page \in Page
  BY <1>1, <1>2, DoomedIs
<1>4. /\ PageTyped(result.page) /\ result.page.use = pages[rid.page].use
      /\ result.page.next = pages[rid.page].next
  BY <1>2, <1>3, DeleteTyped DEF PagesTyped
<1>5. CallTyped(k) /\ Quiet(k)
  BY <1>1, <1>2 DEF CallTyped, CallState, Quiet
<1> HIDE DEF k, result, rid
<1>6. CASE /\ pages' = [pages EXCEPT ![rid.page] = result.page]
           /\ UpdateFreeSpaceMap(h, {rid.page}) /\ UNCHANGED faults
           /\ \/ Continue(t, k) /\ UNCHANGED rids
              \/ Answer(t, result.error = "none")
  <2>1. /\ PagesTyped(pages')
        /\ \A q \in Page : pages'[q].next = pages[q].next /\ pages'[q].use = pages[q].use
    BY <1>3, <1>4, <1>6, PageChanged
  <2>2. free_space_map' \in [Heap -> SUBSET Page]
    BY <1>3, <1>6, MapSet
  <2>3. QuietCall(t) /\ RidsTyped(rids')
    <3>1. CASE Continue(t, k) /\ UNCHANGED rids
      BY <1>2, <1>5, <3>1, CallSet DEF QuietCall
    <3>2. CASE Answer(t, result.error = "none")
      <4>1. (result.error = "none") \in BOOLEAN
        OBVIOUS
      <4> QED
        BY <1>1, <1>2, <3>2, <4>1, AnswerKeeps
    <3> QED
      BY <1>6, <3>1, <3>2
  <2>4. Typed'
    BY <1>1, <1>6, <2>1, <2>2, <2>3 DEF Sound, Typed, QuietCall
  <2> QED
    BY <1>1, <1>2, <2>1, <2>3, <2>4, QuietStep
<1>7. CASE Fails /\ Answer(t, FALSE) /\ UNCHANGED <<pages, free_space_map>>
  <2>1. QuietCall(t) /\ RidsTyped(rids') /\ faults' \in 0 .. MaxFaults
    BY <1>1, <1>2, <1>7, AnswerKeeps, FailsCost
  <2>2. Typed'
    BY <1>1, <1>7, <2>1 DEF Sound, Typed, QuietCall
  <2> QED
    BY <1>1, <1>2, <1>7, <2>1, <2>2, QuietStep
<1> QED
  BY <1>1, <1>6, <1>7

(* A scan is no matter to the tables.                                      *)
LEMMA ScanKeeps ==
  ASSUME NEW C, Sound(C), UNCHANGED <<wal, pages, heapvars, task, rids, faults>>
  PROVE  Sound(C)'
BY DEF Sound, Typed, Chained, heapvars

-------------------------------------------------------------------------------
(* A page is allocated and linked.                                         *)

(* A page in use by no table gets into the hands of a call.                *)
LEMMA TakenUp ==
  ASSUME TableHeapConstants, NEW C, Sound(C), NEW t \in Thread, At(t, "allocate"),
         NEW p \in Page, pages[p].use # "heap",
         pages' = [pages EXCEPT ![p] = InitForNewPage],
         Continue(t, [task[t] EXCEPT !.pc = "link", !.at = p]),
         UNCHANGED <<wal, heapvars, rids, faults>>
  PROVE  Sound(C)'
<1> DEFINE k == [task[t] EXCEPT !.pc = "link", !.at = p]
           m == pages
           f == first_page_id
           l == tail_page_id
<1>1. /\ CallsTyped(task) /\ CallTyped(task[t]) /\ task[t] \in CallState /\ PagesTyped(m)
      /\ task[t].pc = "allocate" /\ Chained(m, f, l, task, C)
  BY CallIs DEF Sound, Typed, At
<1>2. CallTyped(k) /\ k.pc = "link" /\ k.at = p
  BY <1>1 DEF CallTyped, CallState, PageIds
<1> HIDE DEF k
<1>3. /\ CallsTyped(task') /\ task'[t] = k /\ \A u \in Thread \ {t} : task'[u] = task[u]
  BY <1>1, <1>2, CallSet DEF k
<1>4. PageTyped(InitForNewPage)
  BY NewStates
<1>5. /\ PagesTyped(pages') /\ pages'[p] = InitForNewPage
      /\ \A q \in Page \ {p} : pages'[q] = pages[q]
  <2>1. InitForNewPage \in PageState
    BY <1>4 DEF PageTyped
  <2> QED
    BY <1>1, <1>4, <2>1 DEF PagesTyped
<1>6. /\ PagesTyped(pages') /\ pages'[p].use = "heap" /\ pages'[p].next = INVALID_PAGE_ID
      /\ \A q \in Page \ {p} : pages'[q] = pages[q]
  BY <1>5, NewStates
<1>7. Typed'
  BY <1>3, <1>6 DEF Sound, Typed, heapvars
<1>8. /\ \A h \in Heap : C[h] \subseteq Page
      /\ \A h \in Heap : \A q \in C[h] : m[q].use = "heap"
      /\ \A u \in Thread : \A q \in Hand(task[u]) : q \in Page /\ m[q].use = "heap"
  BY <1>1, ChainedPages
<1>9. \A h \in Heap : p \notin C[h]
  BY <1>8
<1>10. \A u \in Thread : p \notin Hand(task[u])
  BY <1>8
<1>11. Hand(k) = {p} /\ Hand(task[t]) = {}
  BY <1>1, <1>2, HandIs
<1>12. \A u \in Thread \ {t} : Hand(task'[u]) = Hand(task[u])
  BY <1>3
<1>13. Chained(pages', f, l, task', C)
  <2>1. C \in [Heap -> SUBSET Page]
    BY <1>1 DEF Chained
  <2>2. \A h \in Heap : Linked(pages', f[h], C[h])
    <3> SUFFICES ASSUME NEW h \in Heap PROVE Linked(pages', f[h], C[h])
      OBVIOUS
    <3>1. Linked(m, f[h], C[h])
      BY <1>1 DEF Chained
    <3>2. \A q \in C[h] : pages'[q].next = m[q].next
      BY <1>6, <1>8, <1>9
    <3> QED
      BY <3>1, <3>2, LinkedSame
  <2>3. \A h, g \in Heap : \A q : q \in C[h] /\ q \in C[g] => h = g
    BY <1>1 DEF Chained
  <2>4. \A q \in Page : pages'[q].use = "heap" <=>
          (\E h \in Heap : q \in C[h]) \/ (\E u \in Thread : q \in Hand(task'[u]))
    <3>1. \A q \in Page : m[q].use = "heap" <=>
            (\E h \in Heap : q \in C[h]) \/ (\E u \in Thread : q \in Hand(task[u]))
      BY <1>1 DEF Chained
    <3> SUFFICES ASSUME NEW q \in Page
                 PROVE  pages'[q].use = "heap" <=>
                   (\E h \in Heap : q \in C[h]) \/ (\E u \in Thread : q \in Hand(task'[u]))
      OBVIOUS
    <3>2. CASE q = p
      BY <1>3, <1>6, <1>11, <3>2
    <3>3. CASE q # p
      BY <1>3, <1>6, <1>11, <1>12, <3>1, <3>3
    <3> QED
      BY <3>2, <3>3
  <2>5. \A u \in Thread, h \in Heap : \A q : ~ (q \in Hand(task'[u]) /\ q \in C[h])
    <3>1. \A u \in Thread, h \in Heap : \A q : ~ (q \in Hand(task[u]) /\ q \in C[h])
      BY <1>1 DEF Chained
    <3> QED
      BY <1>3, <1>9, <1>11, <1>12, <3>1
  <2>6. \A u, v \in Thread : \A q : q \in Hand(task'[u]) /\ q \in Hand(task'[v]) => u = v
    <3>1. \A u, v \in Thread : \A q : q \in Hand(task[u]) /\ q \in Hand(task[v]) => u = v
      BY <1>1 DEF Chained
    <3> QED
      BY <1>3, <1>10, <1>11, <1>12, <3>1
  <2>7. \A u, v \in Thread :
          task'[u].pc = "drop" /\ task'[v].pc = "drop" /\ task'[u].heap = task'[v].heap => u = v
    <3>1. \A u, v \in Thread :
            task[u].pc = "drop" /\ task[v].pc = "drop" /\ task[u].heap = task[v].heap => u = v
      BY <1>1 DEF Chained
    <3> QED
      BY <1>2, <1>3, <3>1
  <2>8. \A u \in Thread : task'[u].pc = "link" => pages'[task'[u].at].next = INVALID_PAGE_ID
    <3> SUFFICES ASSUME NEW u \in Thread, task'[u].pc = "link"
                 PROVE  pages'[task'[u].at].next = INVALID_PAGE_ID
      OBVIOUS
    <3>1. CASE u = t
      BY <1>2, <1>3, <1>6, <3>1
    <3>2. CASE u # t
      <4>1. task'[u] = task[u] /\ task[u].pc = "link" /\ CallTyped(task[u])
        BY <1>1, <1>3, <3>2, CallIs
      <4>2. m[task[u].at].next = INVALID_PAGE_ID /\ task[u].at \in Hand(task[u])
        BY <1>1, <4>1, HandIs DEF Chained
      <4> QED
        BY <1>6, <1>8, <1>10, <4>1, <4>2
    <3> QED
      BY <3>1, <3>2
  <2>9. ASSUME NEW u \in Thread, task'[u].pc = "drop" PROVE Detached(pages', f, l, task'[u], C)
    <3>1. u # t /\ task'[u] = task[u] /\ task[u].pc = "drop"
      BY <1>2, <1>3, <2>9
    <3>2. CallTyped(task[u]) /\ Detached(m, f, l, task[u], C)
      BY <1>1, <3>1, CallIs DEF Chained
    <3>3. task[u].heap \in Heap /\ Deletes(task[u]).page \in Hand(task[u])
      BY <3>1, <3>2, HandIs DEF CallTyped
    <3>4. Deletes(task[u]).page \in Page \ {p} /\ C[task[u].heap] \subseteq Page \ {p}
      BY <1>8, <1>9, <1>10, <3>3
    <3> QED
      BY <1>6, <3>1, <3>2, <3>4 DEF Detached
  <2>10. \A h \in Heap : \/ l[h] \in C[h] \cup {INVALID_PAGE_ID}
                         \/ \E u \in Thread : task'[u].pc = "drop" /\ task'[u].heap = h
    <3>1. \A h \in Heap : \/ l[h] \in C[h] \cup {INVALID_PAGE_ID}
                          \/ \E u \in Thread : task[u].pc = "drop" /\ task[u].heap = h
      BY <1>1 DEF Chained
    <3>2. \A u \in Thread : task[u].pc = "drop" => task'[u] = task[u]
      BY <1>1, <1>3
    <3> QED
      BY <3>1, <3>2
  <2> QED
    BY <2>1, <2>2, <2>3, <2>4, <2>5, <2>6, <2>7, <2>8, <2>9, <2>10 DEF Chained
<1> QED
  BY <1>7, <1>13 DEF Sound, heapvars

LEMMA NewPageKeeps ==
  ASSUME TableHeapConstants, NEW C, Sound(C), NEW t \in Thread, NewPage(t)
  PROVE  Sound(C)'
<1>1. CASE \E p \in NewPages :
             /\ pages' = [pages EXCEPT ![p] = InitForNewPage]
             /\ Continue(t, [task[t] EXCEPT !.pc = "link", !.at = p])
             /\ UNCHANGED faults
  <2>1. PICK p \in NewPages :
             /\ pages' = [pages EXCEPT ![p] = InitForNewPage]
             /\ Continue(t, [task[t] EXCEPT !.pc = "link", !.at = p])
             /\ UNCHANGED faults
    BY <1>1
  <2>2. p \in Page /\ pages[p].use # "heap"
    <3> DEFINE of(use) == {q \in Page : pages[q].use = use}
    <3>1. CASE of("freed") # {}
      BY <3>1 DEF NewPages
    <3>2. CASE of("freed") = {}
      BY <3>2 DEF NewPages
    <3> QED
      BY <3>1, <3>2
  <2> QED
    BY <2>1, <2>2, TakenUp DEF NewPage
<1>2. CASE (UNCHANGED faults \/ Fails) /\ Return(t) /\ UNCHANGED pages
  <2>1. /\ CallsTyped(task) /\ Quiet(task[t]) /\ faults \in 0 .. MaxFaults
        /\ UNCHANGED <<wal, heapvars, rids, scan>>
    BY DEF Sound, Typed, NewPage, Quiet, At
  <2>2. QuietCall(t) /\ faults' \in 0 .. MaxFaults
    BY <1>2, <2>1, ReturnKeeps, FailsCost
  <2>3. Typed'
    BY <1>2, <2>1, <2>2 DEF Sound, Typed, QuietCall, heapvars
  <2> QED
    BY <1>2, <2>1, <2>2, <2>3, QuietStep DEF heapvars
<1> QED
  BY <1>1, <1>2 DEF NewPage

(* The pages in chain A and in the hands of call t of k become those in S  *)
(* and in the hands of call t of j, or leave the tables.                   *)
Passes(m, w, k, j, t, h, A, S) ==
  /\ \A u \in Thread \ {t} : j[u] = k[u] /\ ~ (k[u].pc = "drop" /\ k[u].heap = h)
  /\ k[t].pc = "drop" => k[t].heap = h
  /\ j[t].pc = "drop" => j[t].heap = h
  /\ j[t].pc # "link"
  /\ \A p : p \in S \/ p \in Hand(j[t]) => p \in A \/ p \in Hand(k[t])
  /\ \A p : ~ (p \in S /\ p \in Hand(j[t]))
  /\ \A p \in Page :
       IF p \in A \/ p \in Hand(k[t])
       THEN w[p].use = "heap" <=> p \in S \/ p \in Hand(j[t])
       ELSE w[p] = m[p]

SameElse(x, y, h) == \A g \in Heap \ {h} : x[g] = y[g]
With(C, h, S) == [C EXCEPT ![h] = S]

(* One chain changes: its pages and those in the hands of one call go from *)
(* the one to the other, or are given back.                                *)
LEMMA ChainChanges ==
  ASSUME TableHeapConstants, NEW m, NEW f, NEW l, NEW k, NEW C,
         PagesTyped(m), CallsTyped(k), Chained(m, f, l, k, C),
         NEW w, NEW e, NEW b, NEW j, CallsTyped(j),
         NEW t \in Thread, NEW h \in Heap, NEW S \in SUBSET Page,
         Passes(m, w, k, j, t, h, C[h], S), SameElse(e, f, h), SameElse(b, l, h),
         Linked(w, e[h], S),
         j[t].pc = "drop" => Detached(w, e, b, j[t], With(C, h, S)),
         b[h] \in S \cup {INVALID_PAGE_ID} \/ j[t].pc = "drop"
  PROVE  Chained(w, e, b, j, With(C, h, S))
<1> DEFINE D == With(C, h, S)
<1> USE DEF Passes, SameElse
<1>1. /\ C \in [Heap -> SUBSET Page] /\ D \in [Heap -> SUBSET Page]
      /\ D[h] = S /\ \A g \in Heap \ {h} : D[g] = C[g]
  BY DEF Chained, With
<1> HIDE DEF D
<1>2. /\ \A g \in Heap : C[g] \subseteq Page
      /\ \A g \in Heap : \A q \in C[g] : m[q].use = "heap"
      /\ \A u \in Thread : \A q \in Hand(k[u]) : q \in Page /\ m[q].use = "heap"
  BY ChainedPages
<1>3. /\ \A g, i \in Heap : \A p : p \in C[g] /\ p \in C[i] => g = i
      /\ \A u \in Thread, g \in Heap : \A p : ~ (p \in Hand(k[u]) /\ p \in C[g])
      /\ \A u, v \in Thread : \A p : p \in Hand(k[u]) /\ p \in Hand(k[v]) => u = v
  BY DEF Chained
<1>4. \A g \in Heap \ {h} : \A p \in C[g] : p \notin C[h] /\ p \notin Hand(k[t]) /\ w[p] = m[p]
  BY <1>2, <1>3
<1>5. \A u \in Thread \ {t} : \A p \in Hand(k[u]) :
        p \notin C[h] /\ p \notin Hand(k[t]) /\ w[p] = m[p]
  BY <1>2, <1>3
<1>6. \A u \in Thread \ {t} : Hand(j[u]) = Hand(k[u])
  OBVIOUS
<1>7. \A g \in Heap : Linked(w, e[g], D[g])
  <2> SUFFICES ASSUME NEW g \in Heap PROVE Linked(w, e[g], D[g])
    OBVIOUS
  <2>1. CASE g = h
    BY <1>1, <2>1
  <2>2. CASE g # h
    <3>1. Linked(m, f[g], C[g])
      BY DEF Chained
    <3>2. \A q \in C[g] : w[q].next = m[q].next
      BY <1>4, <2>2
    <3>3. Linked(w, f[g], C[g])
      BY <3>1, <3>2, LinkedSame
    <3> QED
      BY <1>1, <2>2, <3>3
  <2> QED
    BY <2>1, <2>2
<1>8. \A g, i \in Heap : \A p : p \in D[g] /\ p \in D[i] => g = i
  BY <1>1, <1>3, <1>4
<1>9. \A p \in Page : w[p].use = "heap" <=>
        (\E g \in Heap : p \in D[g]) \/ (\E u \in Thread : p \in Hand(j[u]))
  <2>1. \A p \in Page : m[p].use = "heap" <=>
          (\E g \in Heap : p \in C[g]) \/ (\E u \in Thread : p \in Hand(k[u]))
    BY DEF Chained
  <2> SUFFICES ASSUME NEW p \in Page
               PROVE  w[p].use = "heap" <=>
                 (\E g \in Heap : p \in D[g]) \/ (\E u \in Thread : p \in Hand(j[u]))
    OBVIOUS
  <2>2. CASE p \in C[h] \/ p \in Hand(k[t])
    <3>1. \A g \in Heap \ {h} : p \notin D[g]
      BY <1>1, <1>4, <2>2
    <3>2. \A u \in Thread \ {t} : p \notin Hand(j[u])
      BY <1>5, <1>6, <2>2
    <3>3. w[p].use = "heap" <=> p \in S \/ p \in Hand(j[t])
      BY <2>2
    <3> QED
      BY <1>1, <3>1, <3>2, <3>3
  <2>3. CASE ~ (p \in C[h] \/ p \in Hand(k[t]))
    <3>1. w[p] = m[p] /\ p \notin S /\ p \notin Hand(j[t])
      BY <2>3
    <3>2. (\E g \in Heap : p \in D[g]) <=> \E g \in Heap : p \in C[g]
      BY <1>1, <2>3, <3>1
    <3>3. (\E u \in Thread : p \in Hand(j[u])) <=> \E u \in Thread : p \in Hand(k[u])
      BY <1>6, <2>3, <3>1
    <3> QED
      BY <2>1, <3>1, <3>2, <3>3
  <2> QED
    BY <2>2, <2>3
<1>10. \A u \in Thread, g \in Heap : \A p : ~ (p \in Hand(j[u]) /\ p \in D[g])
  <2> SUFFICES ASSUME NEW u \in Thread, NEW g \in Heap, NEW p, p \in Hand(j[u]), p \in D[g]
               PROVE  FALSE
    OBVIOUS
  <2>1. CASE u = t /\ g = h
    BY <1>1, <2>1
  <2>2. CASE u = t /\ g # h
    BY <1>1, <1>4, <2>2
  <2>3. CASE u # t /\ g = h
    BY <1>1, <1>5, <1>6, <2>3
  <2>4. CASE u # t /\ g # h
    BY <1>1, <1>3, <1>6, <2>4
  <2> QED
    BY <2>1, <2>2, <2>3, <2>4
<1>11. \A u, v \in Thread : \A p : p \in Hand(j[u]) /\ p \in Hand(j[v]) => u = v
  <2> SUFFICES ASSUME NEW u \in Thread, NEW v \in Thread, NEW p,
                      p \in Hand(j[u]), p \in Hand(j[v]), u # v
               PROVE  FALSE
    OBVIOUS
  <2>1. CASE u = t
    BY <1>5, <1>6, <2>1
  <2>2. CASE v = t
    BY <1>5, <1>6, <2>2
  <2>3. CASE u # t /\ v # t
    BY <1>3, <1>6, <2>3
  <2> QED
    BY <2>1, <2>2, <2>3
<1>12. \A u, v \in Thread :
         j[u].pc = "drop" /\ j[v].pc = "drop" /\ j[u].heap = j[v].heap => u = v
  <2>1. \A u, v \in Thread :
          k[u].pc = "drop" /\ k[v].pc = "drop" /\ k[u].heap = k[v].heap => u = v
    BY DEF Chained
  <2> QED
    BY <2>1
<1>13. \A u \in Thread : j[u].pc = "link" => w[j[u].at].next = INVALID_PAGE_ID
  <2> SUFFICES ASSUME NEW u \in Thread, j[u].pc = "link"
               PROVE  w[j[u].at].next = INVALID_PAGE_ID
    OBVIOUS
  <2>1. u # t /\ j[u] = k[u] /\ k[u].pc = "link" /\ CallTyped(k[u])
    BY DEF CallsTyped
  <2>2. m[k[u].at].next = INVALID_PAGE_ID /\ k[u].at \in Hand(k[u])
    BY <2>1, HandIs DEF Chained
  <2> QED
    BY <1>5, <2>1, <2>2
<1>14. ASSUME NEW u \in Thread, j[u].pc = "drop" PROVE Detached(w, e, b, j[u], D)
  <2>1. CASE u = t
    BY <1>14, <2>1 DEF D
  <2>2. CASE u # t
    <3> DEFINE g == k[u].heap
               p == Deletes(k[u]).page
    <3>1. j[u] = k[u] /\ k[u].pc = "drop" /\ CallTyped(k[u])
      BY <1>14, <2>2 DEF CallsTyped
    <3>2. g \in Heap \ {h} /\ p \in Hand(k[u]) /\ Detached(m, f, l, k[u], C)
      BY <2>2, <3>1, HandIs DEF CallTyped, Chained
    <3>3. w[p] = m[p] /\ e[g] = f[g] /\ b[g] = l[g] /\ D[g] = C[g]
      BY <1>1, <1>5, <2>2, <3>2
    <3>4. k[u].prev \in C[g] => w[k[u].prev] = m[k[u].prev]
      BY <1>4, <3>2
    <3>5. /\ m[p].next = k[u].next /\ k[u].next \in C[g] \cup {INVALID_PAGE_ID}
          /\ IF k[u].prev = INVALID_PAGE_ID
             THEN f[g] = k[u].next
             ELSE k[u].prev \in C[g] /\ m[k[u].prev].next = k[u].next
          /\ l[g] \in C[g] \cup {p, INVALID_PAGE_ID}
      BY <3>2 DEF Detached
    <3> QED
      BY <3>1, <3>3, <3>4, <3>5 DEF Detached
  <2> QED
    BY <2>1, <2>2
<1>15. \A g \in Heap : \/ b[g] \in D[g] \cup {INVALID_PAGE_ID}
                       \/ \E u \in Thread : j[u].pc = "drop" /\ j[u].heap = g
  <2> SUFFICES ASSUME NEW g \in Heap
               PROVE  \/ b[g] \in D[g] \cup {INVALID_PAGE_ID}
                      \/ \E u \in Thread : j[u].pc = "drop" /\ j[u].heap = g
    OBVIOUS
  <2>1. CASE g = h
    BY <1>1, <2>1
  <2>2. CASE g # h
    <3>1. \/ l[g] \in C[g] \cup {INVALID_PAGE_ID}
          \/ \E u \in Thread : k[u].pc = "drop" /\ k[u].heap = g
      BY DEF Chained
    <3>2. CASE l[g] \in C[g] \cup {INVALID_PAGE_ID}
      BY <1>1, <2>2, <3>2
    <3>3. CASE \E u \in Thread : k[u].pc = "drop" /\ k[u].heap = g
      <4>1. PICK u \in Thread : k[u].pc = "drop" /\ k[u].heap = g
        BY <3>3
      <4>2. u # t
        BY <2>2, <4>1
      <4> QED
        BY <4>1, <4>2
    <3> QED
      BY <3>1, <3>2, <3>3
  <2> QED
    BY <2>1, <2>2
<1> QED
  BY <1>1, <1>7, <1>8, <1>9, <1>10, <1>11, <1>12, <1>13, <1>14, <1>15 DEF Chained, D

(* Link when the deletion of the page that cannot be linked does not fail, *)
(* and one walk at most does.                                              *)
PlainLink(t) ==
  LET h == task[t].heap
      p == task[t].at
      refresh == IF tail_page_id[h] # INVALID_PAGE_ID
                 THEN {[last |-> tail_page_id[h], failed |-> FALSE]}
                 ELSE Refreshed(h)
  IN  /\ At(t, "link") /\ ~Latched(h)
      /\ \/ /\ first_page_id[h] = INVALID_PAGE_ID
            /\ first_page_id' = [first_page_id EXCEPT ![h] = p]
            /\ tail_page_id' = [tail_page_id EXCEPT ![h] = p]
            /\ Continue(t, [task[t] EXCEPT !.pc = "putnew"])
            /\ UpdateFreeSpaceMap(h, {p})
            /\ UNCHANGED <<pages, faults>>
         \/ /\ first_page_id[h] # INVALID_PAGE_ID
            /\ \E w1 \in refresh :
                 \E w2 \in Walks(w1.last, Unlinked) :
                   /\ ~(w1.failed /\ w2.failed)
                   /\ IF Found(w2)
                      THEN /\ pages' = [pages EXCEPT ![w2.stop].next = p]
                           /\ tail_page_id' = [tail_page_id EXCEPT ![h] = p]
                           /\ Continue(t, [task[t] EXCEPT !.pc = "putnew"])
                           /\ UpdateFreeSpaceMap(h, {p})
                      ELSE /\ Deleted(p)
                           /\ tail_page_id' = [tail_page_id EXCEPT ![h] = w2.stop]
                           /\ Return(t)
                           /\ UNCHANGED free_space_map
                   /\ Costs(w1.failed \/ w2.failed)
            /\ UNCHANGED first_page_id
      /\ UNCHANGED <<wal, rids, scan>>

LEMMA LinkOnce ==
  ASSUME NoneFailsAgain, faults \in Int, NEW t, Link(t)
  PROVE  PlainLink(t)
<1> DEFINE h == task[t].heap
           p == task[t].at
           refresh == IF tail_page_id[h] # INVALID_PAGE_ID
                      THEN {[last |-> tail_page_id[h], failed |-> FALSE]}
                      ELSE Refreshed(h)
           First == /\ first_page_id[h] = INVALID_PAGE_ID
                    /\ first_page_id' = [first_page_id EXCEPT ![h] = p]
                    /\ tail_page_id' = [tail_page_id EXCEPT ![h] = p]
                    /\ Continue(t, [task[t] EXCEPT !.pc = "putnew"])
                    /\ UpdateFreeSpaceMap(h, {p})
                    /\ UNCHANGED <<pages, faults>>
           Ends(w2) == IF Found(w2)
                       THEN /\ pages' = [pages EXCEPT ![w2.stop].next = p]
                            /\ tail_page_id' = [tail_page_id EXCEPT ![h] = p]
                            /\ Continue(t, [task[t] EXCEPT !.pc = "putnew"])
                            /\ UpdateFreeSpaceMap(h, {p})
                       ELSE /\ Deleted(p)
                            /\ tail_page_id' = [tail_page_id EXCEPT ![h] = w2.stop]
                            /\ Return(t)
                            /\ UNCHANGED free_space_map
<1>1. Again = {FALSE}
  BY DEF Again, NoneFailsAgain
<1>2. /\ At(t, "link") /\ ~Latched(h)
      /\ UNCHANGED <<wal, rids, scan>>
  BY DEF Link
<1>3. CASE First
  BY <1>2, <1>3 DEF PlainLink
<1>4. CASE /\ first_page_id[h] # INVALID_PAGE_ID
           /\ \E w1 \in refresh :
                \E w2 \in Walks(w1.last, Unlinked) :
                  /\ ~(w1.failed /\ w2.failed)
                  /\ Ends(w2)
                  /\ CostsAll(One(w1.failed) + One(w2.failed) + One(FALSE))
           /\ UNCHANGED first_page_id
  <2>1. PICK w1 \in refresh : \E w2 \in Walks(w1.last, Unlinked) :
                  /\ ~(w1.failed /\ w2.failed)
                  /\ Ends(w2)
                  /\ CostsAll(One(w1.failed) + One(w2.failed) + One(FALSE))
    BY <1>4
  <2>2. PICK w2 \in Walks(w1.last, Unlinked) :
                  /\ ~(w1.failed /\ w2.failed)
                  /\ Ends(w2)
                  /\ CostsAll(One(w1.failed) + One(w2.failed) + One(FALSE))
    BY <2>1
  <2> HIDE DEF Ends, refresh
  <2>3. Costs(w1.failed \/ w2.failed)
    <3>1. /\ ~(w1.failed /\ w2.failed)
          /\ faults' = faults - (One(w1.failed) + One(w2.failed) + One(FALSE))
      BY <2>2 DEF CostsAll
    <3>2. One(w1.failed) + One(w2.failed) + One(FALSE)
            = IF w1.failed \/ w2.failed THEN 1 ELSE 0
      BY <3>1 DEF One
    <3> QED
      BY <3>1, <3>2 DEF Costs
  <2>4. /\ first_page_id[h] # INVALID_PAGE_ID
        /\ \E x1 \in refresh :
             \E x2 \in Walks(x1.last, Unlinked) :
               /\ ~(x1.failed /\ x2.failed)
               /\ Ends(x2)
               /\ Costs(x1.failed \/ x2.failed)
        /\ UNCHANGED first_page_id
    BY <1>4, <2>2, <2>3
  <2> QED
    BY <1>2, <2>4 DEF PlainLink, Ends, refresh
<1>5. \/ First
      \/ /\ first_page_id[h] # INVALID_PAGE_ID
         /\ \E w1 \in refresh :
              \E w2 \in Walks(w1.last, Unlinked) :
                /\ ~(w1.failed /\ w2.failed)
                /\ Ends(w2)
                /\ CostsAll(One(w1.failed) + One(w2.failed) + One(FALSE))
         /\ UNCHANGED first_page_id
  BY <1>1 DEF Link, NoneFailsAgain
<1> HIDE DEF First, Ends, refresh
<1> QED
  BY <1>3, <1>4, <1>5

LEMMA LinkKeeps ==
  ASSUME TableHeapConstants, NoneFailsAgain, NEW C, Sound(C), NEW t \in Thread, Link(t)
  PROVE  IInv'
<1> DEFINE k == task[t]
           h == k.heap
           p == k.at
           j == [k EXCEPT !.pc = "putnew"]
           refresh == IF tail_page_id[h] # INVALID_PAGE_ID
                      THEN {[last |-> tail_page_id[h], failed |-> FALSE]}
                      ELSE Refreshed(h)
<1>1. /\ CallsTyped(task) /\ CallTyped(k) /\ k \in CallState /\ PagesTyped(pages)
      /\ RidsTyped(rids) /\ HeapsTyped(first_page_id) /\ HeapsTyped(tail_page_id)
      /\ faults \in 0 .. MaxFaults
      /\ Chained(pages, first_page_id, tail_page_id, task, C)
  BY CallIs DEF Sound, Typed
<1>0. PlainLink(t)
  BY <1>1, LinkOnce
<1>2. k.pc = "link" /\ h \in Heap /\ p \in Page /\ Hand(k) = {p}
  BY <1>0, <1>1, HandIs DEF PlainLink, At, CallTyped
<1>3. \A u \in Thread : ~ (task[u].pc = "drop" /\ task[u].heap = h)
  BY <1>0 DEF PlainLink, Latched, At
<1>4. /\ Linked(pages, first_page_id[h], C[h]) /\ C[h] \subseteq Page
      /\ pages[p].next = INVALID_PAGE_ID /\ pages[p].use = "heap" /\ p \notin C[h]
      /\ tail_page_id[h] \in C[h] \cup {INVALID_PAGE_ID}
      /\ \A q \in C[h] : pages[q].use = "heap"
  BY <1>1, <1>2, <1>3, ChainedPages DEF Chained
<1>5. /\ first_page_id[h] \in C[h] \cup {INVALID_PAGE_ID}
      /\ C[h] = {} <=> first_page_id[h] = INVALID_PAGE_ID
  BY <1>4, LinkedParts
<1>6. CallTyped(j) /\ Quiet(j) /\ Hand(j) = {}
  <2>1. CallTyped(j) /\ j.pc = "putnew"
    BY <1>1, <1>2 DEF CallTyped, CallState
  <2> HIDE DEF j
  <2> QED
    BY <2>1, HandIs DEF Quiet
<1>7. p \in PageIds /\ INVALID_PAGE_ID \notin Page /\ INVALID_PAGE_ID \in PageIds
  BY <1>2, PagesAre DEF PageIds
<1>8. UNCHANGED <<wal, rids, scan>>
  BY <1>0 DEF PlainLink
<1>9. CASE /\ first_page_id[h] = INVALID_PAGE_ID
           /\ first_page_id' = [first_page_id EXCEPT ![h] = p]
           /\ tail_page_id' = [tail_page_id EXCEPT ![h] = p]
           /\ Continue(t, j) /\ UpdateFreeSpaceMap(h, {p})
           /\ UNCHANGED <<pages, faults>>
  <2>1. /\ CallsTyped(task') /\ task'[t] = j /\ \A u \in Thread \ {t} : task'[u] = task[u]
    BY <1>1, <1>6, <1>9, CallSet
  <2>2. /\ HeapsTyped(first_page_id') /\ HeapsTyped(tail_page_id')
        /\ first_page_id'[h] = p /\ tail_page_id'[h] = p
        /\ \A g \in Heap \ {h} : first_page_id'[g] = first_page_id[g]
                                 /\ tail_page_id'[g] = tail_page_id[g]
    BY <1>1, <1>2, <1>7, <1>9 DEF HeapsTyped
  <2>3. free_space_map' \in [Heap -> SUBSET Page]
    BY <1>2, <1>9, MapSet
  <2>4. Typed'
    BY <1>1, <1>8, <1>9, <2>1, <2>2, <2>3 DEF Sound, Typed
  <2> DEFINE S == {p}
  <2>5. C[h] = {}
    BY <1>5, <1>9
  <2>6. Linked(pages, p, C[h] \cup {p})
    BY <1>2, <1>4, <1>9, LinkedBefore
  <2>7. Linked(pages', first_page_id'[h], S)
    BY <1>9, <2>2, <2>5, <2>6
  <2>8. S \in SUBSET Page /\ \A q : ~ (q \in S /\ q \in Hand(task'[t]))
    BY <1>2, <1>6, <2>1
  <2>9. \A q : q \in S \/ q \in Hand(task'[t]) => q \in C[h] \/ q \in Hand(task[t])
    BY <1>2, <1>6, <2>1
  <2>10. \A q \in Page :
           IF q \in C[h] \/ q \in Hand(task[t])
           THEN pages'[q].use = "heap" <=> q \in S \/ q \in Hand(task'[t])
           ELSE pages'[q] = pages[q]
    BY <1>2, <1>4, <1>6, <1>9, <2>1, <2>5
  <2>11. tail_page_id'[h] \in S
    BY <2>2
  <2> HIDE DEF S, j
  <2>12. Chained(pages', first_page_id', tail_page_id', task', With(C, h, S))
    <3>1. /\ Passes(pages, pages', task, task', t, h, C[h], S)
          /\ SameElse(first_page_id', first_page_id, h)
          /\ SameElse(tail_page_id', tail_page_id, h)
      BY <1>2, <1>3, <1>6, <2>1, <2>2, <2>8, <2>9, <2>10 DEF Passes, SameElse, Quiet
    <3>2. task'[t].pc # "drop"
      BY <1>6, <2>1 DEF Quiet
    <3> QED
      BY <1>1, <1>2, <2>1, <2>7, <2>8, <2>11, <3>1, <3>2, ChainChanges
  <2> QED
    BY <2>4, <2>12 DEF IInv, Sound
<1>10. CASE /\ first_page_id[h] # INVALID_PAGE_ID
            /\ \E w1 \in refresh :
                 \E w2 \in Walks(w1.last, Unlinked) :
                   /\ ~(w1.failed /\ w2.failed)
                   /\ IF Found(w2)
                      THEN /\ pages' = [pages EXCEPT ![w2.stop].next = p]
                           /\ tail_page_id' = [tail_page_id EXCEPT ![h] = p]
                           /\ Continue(t, j)
                           /\ UpdateFreeSpaceMap(h, {p})
                      ELSE /\ Deleted(p)
                           /\ tail_page_id' = [tail_page_id EXCEPT ![h] = w2.stop]
                           /\ Return(t)
                           /\ UNCHANGED free_space_map
                   /\ Costs(w1.failed \/ w2.failed)
            /\ UNCHANGED first_page_id
  <2> HIDE DEF j, refresh
  <2>1. PICK w1 \in refresh :
              \E w2 \in Walks(w1.last, Unlinked) :
                   /\ IF Found(w2)
                      THEN /\ pages' = [pages EXCEPT ![w2.stop].next = p]
                           /\ tail_page_id' = [tail_page_id EXCEPT ![h] = p]
                           /\ Continue(t, j)
                           /\ UpdateFreeSpaceMap(h, {p})
                      ELSE /\ Deleted(p)
                           /\ tail_page_id' = [tail_page_id EXCEPT ![h] = w2.stop]
                           /\ Return(t)
                           /\ UNCHANGED free_space_map
                   /\ Costs(w1.failed \/ w2.failed)
    BY <1>10
  <2>2. PICK w2 \in Walks(w1.last, Unlinked) :
                   /\ IF Found(w2)
                      THEN /\ pages' = [pages EXCEPT ![w2.stop].next = p]
                           /\ tail_page_id' = [tail_page_id EXCEPT ![h] = p]
                           /\ Continue(t, j)
                           /\ UpdateFreeSpaceMap(h, {p})
                      ELSE /\ Deleted(p)
                           /\ tail_page_id' = [tail_page_id EXCEPT ![h] = w2.stop]
                           /\ Return(t)
                           /\ UNCHANGED free_space_map
                   /\ Costs(w1.failed \/ w2.failed)
    BY <2>1
  <2>3. /\ w1.last \in C[h] \cup {INVALID_PAGE_ID}
        /\ w1.failed \in BOOLEAN /\ (w1.failed => MayFail)
    <3>1. CASE tail_page_id[h] # INVALID_PAGE_ID
      <4>1. w1 = [last |-> tail_page_id[h], failed |-> FALSE]
        BY <3>1 DEF refresh
      <4> QED
        BY <1>4, <4>1
    <3>2. CASE tail_page_id[h] = INVALID_PAGE_ID
      <4>1. w1 \in Walks(first_page_id[h], {})
        BY <3>2 DEF refresh, Refreshed
      <4> QED
        BY <1>4, <1>5, <4>1, WalkStays
    <3> QED
      BY <3>1, <3>2
  <2>4. /\ w2.failed \in BOOLEAN /\ (w2.failed => MayFail)
        /\ w2.stop \in C[h] \cup {INVALID_PAGE_ID}
        /\ (Found(w2) => w2.stop \in C[h] \cap Unlinked)
    BY <1>4, <2>3, WalkStays
  <2>5. faults' \in 0 .. MaxFaults
    <3>1. (w1.failed \/ w2.failed) \in BOOLEAN /\ (w1.failed \/ w2.failed => MayFail)
      BY <2>3, <2>4
    <3> QED
      BY <1>1, <2>2, <3>1, FaultsAre
  <2>6. first_page_id' = first_page_id
    BY <1>10
  <2>7. CASE Found(w2)
    <3> DEFINE q == w2.stop
               S == C[h] \cup {p}
    <3>1. q \in C[h] /\ q \in Page /\ pages[q].next = INVALID_PAGE_ID /\ q # p
      BY <1>4, <2>4, <2>7 DEF Unlinked
    <3>2. /\ pages' = [pages EXCEPT ![q].next = p]
          /\ tail_page_id' = [tail_page_id EXCEPT ![h] = p]
          /\ Continue(t, j) /\ UpdateFreeSpaceMap(h, {p})
      BY <2>2, <2>7
    <3> HIDE DEF q
    <3>3. Relinked(pages, pages', q, p)
      BY <3>2 DEF Relinked
    <3>4. /\ PagesTyped(pages') /\ pages'[q].next = p
          /\ \A r \in Page : pages'[r].use = pages[r].use
          /\ \A r \in Page \ {q} : pages'[r] = pages[r]
      BY <1>1, <1>7, <3>1, <3>3, LinkSet
    <3>5. /\ CallsTyped(task') /\ task'[t] = j /\ \A u \in Thread \ {t} : task'[u] = task[u]
      BY <1>1, <1>6, <3>2, CallSet
    <3>6. /\ HeapsTyped(tail_page_id') /\ tail_page_id'[h] = p
          /\ \A g \in Heap \ {h} : tail_page_id'[g] = tail_page_id[g]
      BY <1>1, <1>2, <1>7, <3>2 DEF HeapsTyped
    <3>7. free_space_map' \in [Heap -> SUBSET Page]
      BY <1>2, <3>2, MapSet
    <3>8. Typed'
      BY <1>1, <1>8, <2>5, <2>6, <3>4, <3>5, <3>6, <3>7 DEF Sound, Typed
    <3>9. p \in Page \ C[h] /\ pages[p].next = pages[q].next
      BY <1>2, <1>4, <3>1
    <3>10. Linked(pages', first_page_id[h], C[h] \cup {p})
      BY <1>1, <1>4, <3>1, <3>3, <3>9, LinkedBack
    <3>11. Linked(pages', first_page_id'[h], S)
      BY <2>6, <3>10
    <3>12. S \in SUBSET Page /\ \A r : ~ (r \in S /\ r \in Hand(task'[t]))
      BY <1>2, <1>4, <1>6, <3>5
    <3>13. \A r : r \in S \/ r \in Hand(task'[t]) => r \in C[h] \/ r \in Hand(task[t])
      BY <1>2, <1>6, <3>5
    <3>14. \A r \in Page :
             IF r \in C[h] \/ r \in Hand(task[t])
             THEN pages'[r].use = "heap" <=> r \in S \/ r \in Hand(task'[t])
             ELSE pages'[r] = pages[r]
      BY <1>2, <1>4, <1>6, <3>1, <3>4, <3>5
    <3>15. tail_page_id'[h] \in S /\ task'[t].pc \notin {"link", "drop"}
      BY <1>6, <3>5, <3>6 DEF Quiet
    <3> HIDE DEF S
    <3>16. Chained(pages', first_page_id', tail_page_id', task', With(C, h, S))
      <4>1. /\ Passes(pages, pages', task, task', t, h, C[h], S)
            /\ SameElse(first_page_id', first_page_id, h)
            /\ SameElse(tail_page_id', tail_page_id, h)
        BY <1>2, <1>3, <2>6, <3>5, <3>6, <3>12, <3>13, <3>14, <3>15 DEF Passes, SameElse
      <4> QED
        BY <1>1, <1>2, <3>5, <3>11, <3>12, <3>15, <4>1, ChainChanges
    <3> QED
      BY <3>8, <3>16 DEF IInv, Sound
  <2>8. CASE ~ Found(w2)
    <3>1. /\ pages' = [pages EXCEPT ![p] = Freed]
          /\ tail_page_id' = [tail_page_id EXCEPT ![h] = w2.stop]
          /\ Return(t) /\ UNCHANGED free_space_map
      BY <2>2, <2>8 DEF Deleted
    <3>2. /\ PagesTyped(pages') /\ pages'[p] = Freed /\ Freed.use # "heap"
          /\ \A r \in Page \ {p} : pages'[r] = pages[r]
      <4>1. PageTyped(Freed) /\ Freed \in PageState /\ Freed.use # "heap"
        BY NewStates DEF PageTyped
      <4> QED
        BY <1>1, <1>2, <3>1, <4>1 DEF PagesTyped
    <3>3. QuietCall(t) /\ task'[t] = Idle
      BY <1>1, <3>1, ReturnKeeps
    <3>4. w2.stop \in PageIds
      BY <1>4, <1>7, <2>4 DEF PageIds
    <3>5. /\ HeapsTyped(tail_page_id') /\ tail_page_id'[h] = w2.stop
          /\ \A g \in Heap \ {h} : tail_page_id'[g] = tail_page_id[g]
      BY <1>1, <1>2, <3>1, <3>4 DEF HeapsTyped
    <3>6. Typed'
      BY <1>1, <1>8, <2>5, <2>6, <3>1, <3>2, <3>3, <3>5 DEF Sound, Typed, QuietCall
    <3> DEFINE S == C[h]
    <3>7. Hand(task'[t]) = {} /\ task'[t].pc \notin {"link", "drop"}
      BY <3>3, IdleTyped
    <3>8. \A r \in S : pages'[r].next = pages[r].next
      BY <1>4, <3>2
    <3>9. Linked(pages', first_page_id'[h], S)
      BY <1>4, <2>6, <3>8, LinkedSame
    <3>10. /\ S \in SUBSET Page /\ \A r : ~ (r \in S /\ r \in Hand(task'[t]))
           /\ \A r : r \in S \/ r \in Hand(task'[t]) => r \in C[h] \/ r \in Hand(task[t])
      BY <1>4, <3>7
    <3>11. \A r \in Page :
             IF r \in C[h] \/ r \in Hand(task[t])
             THEN pages'[r].use = "heap" <=> r \in S \/ r \in Hand(task'[t])
             ELSE pages'[r] = pages[r]
      BY <1>2, <1>4, <3>2, <3>7
    <3>12. tail_page_id'[h] \in S \cup {INVALID_PAGE_ID}
      BY <2>4, <3>5
    <3>13. CallsTyped(task') /\ \A u \in Thread \ {t} : task'[u] = task[u]
      BY <3>3 DEF QuietCall
    <3> HIDE DEF S
    <3>14. Chained(pages', first_page_id', tail_page_id', task', With(C, h, S))
      <4>1. /\ Passes(pages, pages', task, task', t, h, C[h], S)
            /\ SameElse(first_page_id', first_page_id, h)
            /\ SameElse(tail_page_id', tail_page_id, h)
        BY <1>2, <1>3, <2>6, <3>5, <3>7, <3>10, <3>11, <3>13 DEF Passes, SameElse
      <4> QED
        BY <1>1, <1>2, <3>7, <3>9, <3>10, <3>12, <3>13, <4>1, ChainChanges
    <3> QED
      BY <3>6, <3>14 DEF IInv, Sound
  <2> QED
    BY <2>7, <2>8
<1> QED
  BY <1>0, <1>9, <1>10 DEF PlainLink

-------------------------------------------------------------------------------
(* A page is taken out of its chain, and deleted or put back.              *)

(* A call has the page it takes out, and what it was linked to, in hand.   *)
LEMMA DetachKeeps ==
  ASSUME TableHeapConstants, NEW C, Sound(C), NEW t \in Thread, At(t, "reclaim"),
         NEW h, h = task[t].heap, ~ Latched(h),
         NEW p, p = Doomed(t).page, NEW after, after = pages[p].next,
         NEW prev \in PageIds,
         Continue(t, [task[t] EXCEPT !.pc = "drop", !.prev = prev, !.next = after]),
         UNCHANGED <<wal, tail_page_id, free_space_map, rids>>,
         faults' \in 0 .. MaxFaults,
         PagesTyped(pages'), HeapsTyped(first_page_id'),
         \A q \in Page \ C[h] : pages'[q] = pages[q],
         \A q \in Page : pages'[q].use = pages[q].use,
         pages'[p].next = after,
         SameElse(first_page_id', first_page_id, h),
         p \in C[h], Linked(pages', first_page_id'[h], C[h] \ {p}),
         IF prev = INVALID_PAGE_ID
         THEN first_page_id'[h] = after
         ELSE prev \in C[h] \ {p} /\ pages'[prev].next = after
  PROVE  IInv'
<1> DEFINE k == task[t]
           j == [k EXCEPT !.pc = "drop", !.prev = prev, !.next = after]
           S == C[h] \ {p}
<1>1. /\ CallsTyped(task) /\ CallTyped(k) /\ k \in CallState /\ PagesTyped(pages)
      /\ RidsTyped(rids) /\ HeapsTyped(first_page_id) /\ HeapsTyped(tail_page_id)
      /\ Chained(pages, first_page_id, tail_page_id, task, C) /\ k.pc = "reclaim"
  BY CallIs DEF Sound, Typed, At
<1>2. h \in Heap /\ p \in Page /\ Deletes(k).page = p /\ Hand(k) = {}
  BY <1>1, DoomedIs, HandIs
<1>3. \A u \in Thread : ~ (task[u].pc = "drop" /\ task[u].heap = h)
  BY DEF Latched, At
<1>4. after \in PageIds
  BY <1>1, <1>2 DEF PagesTyped, PageState
<1>5. /\ CallTyped(j) /\ j.pc = "drop" /\ j.heap = h /\ j.prev = prev /\ j.next = after
      /\ Deletes(j).page = p
  BY <1>1, <1>2, <1>4 DEF CallTyped, CallState, Deletes
<1> HIDE DEF j
<1>6. /\ CallsTyped(task') /\ task'[t] = j /\ \A u \in Thread \ {t} : task'[u] = task[u]
  BY <1>1, <1>5, CallSet DEF j
<1>7. Typed'
  BY <1>6 DEF Sound, Typed
<1>8. Hand(task'[t]) = {p}
  BY <1>5, <1>6, HandIs
<1>9. /\ C[h] \subseteq Page /\ \A q \in C[h] : pages[q].use = "heap"
      /\ tail_page_id[h] \in C[h] \cup {INVALID_PAGE_ID}
      /\ C \in [Heap -> SUBSET Page] /\ Linked(pages, first_page_id[h], C[h])
  <2>1. C[h] \subseteq Page /\ \A q \in C[h] : pages[q].use = "heap"
    BY <1>1, <1>2, ChainedPages
  <2>2. /\ C \in [Heap -> SUBSET Page] /\ Linked(pages, first_page_id[h], C[h])
    BY <1>1, <1>2 DEF Chained
  <2>3. tail_page_id[h] \in C[h] \cup {INVALID_PAGE_ID}
    BY <1>1, <1>2, <1>3 DEF Chained
  <2> QED
    BY <2>1, <2>2, <2>3
<1>10. Passes(pages, pages', task, task', t, h, C[h], S)
  <2>1. \A q \in Page :
          IF q \in C[h] \/ q \in Hand(task[t])
          THEN pages'[q].use = "heap" <=> q \in S \/ q \in Hand(task'[t])
          ELSE pages'[q] = pages[q]
    BY <1>2, <1>8, <1>9
  <2>2. /\ \A q : q \in S \/ q \in Hand(task'[t]) => q \in C[h] \/ q \in Hand(task[t])
        /\ \A q : ~ (q \in S /\ q \in Hand(task'[t]))
    BY <1>8
  <2> HIDE DEF S
  <2> QED
    BY <1>1, <1>3, <1>5, <1>6, <2>1, <2>2 DEF Passes
<1>11. SameElse(tail_page_id', tail_page_id, h)
  BY DEF SameElse
<1>12. Detached(pages', first_page_id', tail_page_id', task'[t], With(C, h, S))
  <2>1. With(C, h, S)[h] = S
    BY <1>2, <1>9 DEF With
  <2>2. after \in S \cup {INVALID_PAGE_ID}
    <3>1. after \in C[h] \cup {INVALID_PAGE_ID} /\ after # p
      BY <1>9, LinkedParts
    <3> QED
      BY <3>1
  <2>3. tail_page_id'[h] \in S \cup {p, INVALID_PAGE_ID}
    BY <1>9
  <2>4. IF prev = INVALID_PAGE_ID
        THEN first_page_id'[h] = after
        ELSE prev \in S /\ pages'[prev].next = after
    OBVIOUS
  <2> HIDE DEF S
  <2> QED
    BY <1>5, <1>6, <2>1, <2>2, <2>3, <2>4 DEF Detached
<1>13. S \in SUBSET Page
  BY <1>9
<1>14. task'[t].pc = "drop"
  BY <1>5, <1>6
<1>15. Chained(pages', first_page_id', tail_page_id', task', With(C, h, S))
  <2> HIDE DEF S
  <2>1. Linked(pages', first_page_id'[h], S)
    BY DEF S
  <2> QED
    BY <1>1, <1>2, <1>6, <1>10, <1>11, <1>12, <1>13, <1>14, <2>1, ChainChanges
<1> QED
  BY <1>7, <1>15 DEF IInv, Sound

(* The page before is linked past the page taken out.                      *)
LEMMA BehindKeeps ==
  ASSUME TableHeapConstants, NEW C, Sound(C), NEW t \in Thread, At(t, "reclaim"),
         NEW h, h = task[t].heap, ~ Latched(h),
         NEW p, p = Doomed(t).page, NEW after, after = pages[p].next,
         NEW q \in C[h], pages[q].next = p,
         Relinked(pages, pages', q, after),
         Continue(t, [task[t] EXCEPT !.pc = "drop", !.prev = q, !.next = after]),
         UNCHANGED <<wal, first_page_id, tail_page_id, free_space_map, rids>>,
         faults' \in 0 .. MaxFaults
  PROVE  IInv'
<1>1. /\ CallsTyped(task) /\ PagesTyped(pages) /\ HeapsTyped(first_page_id)
      /\ Chained(pages, first_page_id, tail_page_id, task, C)
  BY DEF Sound, Typed
<1>2. h \in Heap /\ p \in Page
  BY <1>1, DoomedIs DEF At
<1>3. Linked(pages, first_page_id[h], C[h]) /\ C[h] \subseteq Page
  BY <1>1, <1>2, ChainedPages DEF Chained
<1>4. /\ PagesTyped(pages') /\ pages'[q].next = after
      /\ \A r \in Page : pages'[r].use = pages[r].use
      /\ \A r \in Page \ {q} : pages'[r] = pages[r]
      /\ p \in C[h] /\ q # p /\ Linked(pages', first_page_id[h], C[h] \ {p})
  <2>1. /\ PagesTyped(pages') /\ pages'[q].next = after
        /\ \A r \in Page : pages'[r].use = pages[r].use
        /\ \A r \in Page \ {q} : pages'[r] = pages[r]
    <3>1. q \in Page /\ after \in PageIds
      BY <1>1, <1>2, <1>3 DEF PagesTyped, PageState
    <3> QED
      BY <1>1, <3>1, LinkSet
  <2>2. pages'[q].next = pages[p].next /\ \A r \in C[h] \ {p, q} : pages'[r].next = pages[r].next
    BY <1>3, <2>1
  <2>3. p \in C[h] /\ q # p
    BY <1>2, <1>3, LinkedParts, PagesAre
  <2>4. Linked(pages', first_page_id[h], C[h] \ {p})
    BY <1>2, <1>3, <2>2, LinkedWithout
  <2> QED
    BY <2>1, <2>3, <2>4
<1>5. pages'[p].next = after /\ \A r \in Page \ C[h] : pages'[r] = pages[r]
  BY <1>2, <1>3, <1>4
<1>6. q \in PageIds /\ q # INVALID_PAGE_ID
  BY <1>3, PagesAre DEF PageIds
<1>7. /\ first_page_id' = first_page_id /\ HeapsTyped(first_page_id')
      /\ SameElse(first_page_id', first_page_id, h)
      /\ UNCHANGED <<wal, tail_page_id, free_space_map, rids>>
  BY <1>1 DEF SameElse
<1>8. /\ Linked(pages', first_page_id'[h], C[h] \ {p})
      /\ IF q = INVALID_PAGE_ID
         THEN first_page_id'[h] = after
         ELSE q \in C[h] \ {p} /\ pages'[q].next = after
  BY <1>4, <1>6, <1>7
<1> QED
  BY <1>4, <1>5, <1>6, <1>7, <1>8, DetachKeeps

LEMMA ReclaimKeeps ==
  ASSUME TableHeapConstants, NEW C, Sound(C), NEW t \in Thread, Reclaim(t)
  PROVE  IInv'
<1> DEFINE h == task[t].heap
           p == Doomed(t).page
           after == pages[p].next
           before == {q \in Page : pages[q].next = p}
           j(prev) == [task[t] EXCEPT !.pc = "drop", !.prev = prev, !.next = after]
<1>1. /\ CallsTyped(task) /\ CallTyped(task[t]) /\ PagesTyped(pages) /\ RidsTyped(rids)
      /\ HeapsTyped(first_page_id) /\ faults \in 0 .. MaxFaults
      /\ Chained(pages, first_page_id, tail_page_id, task, C)
  BY CallIs DEF Sound, Typed
<1>2. /\ At(t, "reclaim") /\ task[t].pc = "reclaim" /\ ~ Latched(h)
      /\ UNCHANGED <<wal, tail_page_id, free_space_map, scan>>
  BY DEF Reclaim, At
<1>3. h \in Heap /\ p \in Page
  BY <1>1, <1>2, DoomedIs
<1>4. /\ Linked(pages, first_page_id[h], C[h]) /\ C[h] \subseteq Page
      /\ first_page_id[h] \in C[h] \cup {INVALID_PAGE_ID}
  BY <1>1, <1>3, ChainedPages, LinkedParts DEF Chained
<1>5. INVALID_PAGE_ID \notin Page /\ INVALID_PAGE_ID \in PageIds /\ Page \subseteq PageIds
      /\ after \in PageIds
  BY <1>1, <1>3, PagesAre DEF PageIds, PagesTyped, PageState
<1>6. ASSUME Answer(t, TRUE), UNCHANGED <<pages, first_page_id>>, faults' \in 0 .. MaxFaults
      PROVE  IInv'
  <2>1. QuietCall(t) /\ RidsTyped(rids') /\ Quiet(task[t])
    BY <1>1, <1>2, <1>6, AnswerKeeps DEF Quiet
  <2>2. Typed'
    BY <1>2, <1>6, <2>1 DEF Sound, Typed, QuietCall
  <2>3. Sound(C)'
    BY <1>2, <1>6, <2>1, <2>2, QuietStep
  <2> QED
    BY <2>3 DEF IInv
<1>7. CASE Answer(t, TRUE) /\ UNCHANGED <<pages, first_page_id, faults>>
  BY <1>1, <1>6, <1>7
<1>8. CASE Fails /\ Answer(t, TRUE) /\ UNCHANGED <<pages, first_page_id>>
  BY <1>1, <1>6, <1>8, FailsCost
<1>9. CASE /\ first_page_id[h] = p
           /\ first_page_id' = [first_page_id EXCEPT ![h] = after]
           /\ Continue(t, j(INVALID_PAGE_ID)) /\ UNCHANGED rids
           /\ UNCHANGED <<pages, faults>>
  <2>1. /\ HeapsTyped(first_page_id') /\ first_page_id'[h] = after
        /\ SameElse(first_page_id', first_page_id, h)
    BY <1>1, <1>3, <1>5, <1>9 DEF HeapsTyped, SameElse
  <2>2. p \in C[h]
    BY <1>3, <1>4, <1>5, <1>9
  <2>3. Linked(pages, after, C[h] \ {p})
    BY <1>3, <1>4, <1>9, LinkedAfter
  <2>4. Linked(pages', first_page_id'[h], C[h] \ {p})
    BY <1>9, <2>1, <2>3
  <2>5. /\ pages'[p].next = after /\ PagesTyped(pages') /\ faults' \in 0 .. MaxFaults
        /\ \A q \in Page : pages'[q] = pages[q]
    BY <1>1, <1>9
  <2> QED
    BY <1>2, <1>5, <1>9, <2>1, <2>2, <2>4, <2>5, DetachKeeps
<1>10. CASE /\ first_page_id[h] # p
            /\ \E w \in Walks(first_page_id[h], before) :
                 /\ IF Found(w)
                    THEN /\ pages' = [pages EXCEPT ![w.stop].next = after]
                         /\ Continue(t, j(w.stop)) /\ UNCHANGED rids
                    ELSE Answer(t, TRUE) /\ UNCHANGED pages
                 /\ Costs(w.failed)
            /\ UNCHANGED first_page_id
  <2> HIDE DEF before
  <2>1. PICK w \in Walks(first_page_id[h], before) :
                 /\ IF Found(w)
                    THEN /\ pages' = [pages EXCEPT ![w.stop].next = after]
                         /\ Continue(t, j(w.stop)) /\ UNCHANGED rids
                    ELSE Answer(t, TRUE) /\ UNCHANGED pages
                 /\ Costs(w.failed)
    BY <1>10
  <2>2. /\ w.failed \in BOOLEAN /\ (w.failed => MayFail)
        /\ Found(w) => w.stop \in C[h] \cap before
    BY <1>4, WalkStays
  <2>3. faults' \in 0 .. MaxFaults
    BY <1>1, <2>1, <2>2, FaultsAre
  <2>4. CASE ~ Found(w)
    BY <1>6, <1>10, <2>1, <2>3, <2>4
  <2>5. CASE Found(w)
    <3> DEFINE q == w.stop
    <3>1. /\ pages' = [pages EXCEPT ![q].next = after] /\ Continue(t, j(q)) /\ UNCHANGED rids
      BY <2>1, <2>5
    <3>2. q \in C[h] /\ pages[q].next = p
      BY <2>2, <2>5 DEF before
    <3>3. h = task[t].heap /\ p = Doomed(t).page /\ after = pages[p].next /\ At(t, "reclaim")
      BY <1>2
    <3>4. Relinked(pages, pages', q, after)
      BY <3>1 DEF Relinked
    <3>5. Continue(t, [task[t] EXCEPT !.pc = "drop", !.prev = q, !.next = after])
      BY <3>1
    <3> HIDE DEF q, p, h, after
    <3> QED
      BY <1>2, <1>10, <2>3, <3>1, <3>2, <3>3, <3>4, <3>5, BehindKeeps
  <2> QED
    BY <2>4, <2>5
<1> QED
  BY <1>7, <1>8, <1>9, <1>10 DEF Reclaim

(* What is known of a page in the hands of a call that took it out.        *)
LEMMA DropIs ==
  ASSUME TableHeapConstants, NEW C, Sound(C), NEW t \in Thread, At(t, "drop"),
         NEW h, h = task[t].heap, NEW p, p = Doomed(t).page
  PROVE  /\ h \in Heap /\ p \in Page /\ Hand(task[t]) = {p} /\ p \notin C[h]
         /\ \A u \in Thread \ {t} : ~ (task[u].pc = "drop" /\ task[u].heap = h)
         /\ Linked(pages, first_page_id[h], C[h]) /\ C[h] \subseteq Page
         /\ \A q \in C[h] \cup {p} : pages[q].use = "heap"
         /\ pages[p].next = task[t].next /\ task[t].next \in C[h] \cup {INVALID_PAGE_ID}
         /\ IF task[t].prev = INVALID_PAGE_ID
            THEN first_page_id[h] = task[t].next
            ELSE task[t].prev \in C[h] /\ pages[task[t].prev].next = task[t].next
         /\ tail_page_id[h] \in C[h] \cup {p, INVALID_PAGE_ID}
<1>1. /\ CallsTyped(task) /\ CallTyped(task[t]) /\ task[t].pc = "drop"
      /\ Chained(pages, first_page_id, tail_page_id, task, C)
  BY CallIs DEF Sound, Typed, At
<1>2. h \in Heap /\ p \in Page /\ Deletes(task[t]) = Doomed(t) /\ Hand(task[t]) = {p}
  BY <1>1, DoomedIs, HandIs
<1>3. Detached(pages, first_page_id, tail_page_id, task[t], C)
  BY <1>1 DEF Chained
<1>4. /\ pages[p].next = task[t].next /\ task[t].next \in C[h] \cup {INVALID_PAGE_ID}
      /\ IF task[t].prev = INVALID_PAGE_ID
         THEN first_page_id[h] = task[t].next
         ELSE task[t].prev \in C[h] /\ pages[task[t].prev].next = task[t].next
      /\ tail_page_id[h] \in C[h] \cup {p, INVALID_PAGE_ID}
  BY <1>2, <1>3 DEF Detached
<1>5. p \notin C[h] /\ Linked(pages, first_page_id[h], C[h])
  BY <1>1, <1>2 DEF Chained
<1>6. \A u \in Thread \ {t} : ~ (task[u].pc = "drop" /\ task[u].heap = h)
  BY <1>1 DEF Chained
<1>7. C[h] \subseteq Page /\ \A q \in C[h] \cup {p} : pages[q].use = "heap"
  BY <1>1, <1>2, ChainedPages
<1> QED
  BY <1>2, <1>4, <1>5, <1>6, <1>7

(* The page is in its chain again, or is nobody's.                         *)
LEMMA DropEnds ==
  ASSUME TableHeapConstants, NEW C, Sound(C), NEW t \in Thread, At(t, "drop"),
         NEW h, h = task[t].heap, NEW p, p = Doomed(t).page,
         NEW S, S = C[h] \/ S = C[h] \cup {p},
         Answer(t, TRUE), UNCHANGED wal, faults' \in 0 .. MaxFaults,
         free_space_map' \in [Heap -> SUBSET Page],
         PagesTyped(pages'), HeapsTyped(first_page_id'), HeapsTyped(tail_page_id'),
         SameElse(first_page_id', first_page_id, h), SameElse(tail_page_id', tail_page_id, h),
         \A q \in Page \ (C[h] \cup {p}) : pages'[q] = pages[q],
         \A q \in C[h] : pages'[q].use = pages[q].use,
         pages'[p].use = "heap" <=> p \in S,
         Linked(pages', first_page_id'[h], S),
         tail_page_id'[h] \in S \cup {INVALID_PAGE_ID}
  PROVE  IInv'
<1>1. /\ CallsTyped(task) /\ RidsTyped(rids) /\ PagesTyped(pages) /\ task[t].pc = "drop"
      /\ Chained(pages, first_page_id, tail_page_id, task, C)
  BY DEF Sound, Typed, At
<1>2. /\ h \in Heap /\ p \in Page /\ Hand(task[t]) = {p} /\ p \notin C[h] /\ C[h] \subseteq Page
      /\ \A u \in Thread \ {t} : ~ (task[u].pc = "drop" /\ task[u].heap = h)
      /\ \A q \in C[h] \cup {p} : pages[q].use = "heap"
  <2>1. h \in Heap /\ p \in Page /\ Hand(task[t]) = {p} /\ p \notin C[h] /\ C[h] \subseteq Page
    BY DropIs
  <2>2. \A u \in Thread \ {t} : ~ (task[u].pc = "drop" /\ task[u].heap = h)
    BY DropIs
  <2>3. \A q \in C[h] \cup {p} : pages[q].use = "heap"
    BY DropIs
  <2> QED
    BY <2>1, <2>2, <2>3
<1>3. QuietCall(t) /\ RidsTyped(rids') /\ task'[t] = Idle
  BY <1>1, AnswerKeeps
<1>4. /\ CallsTyped(task') /\ \A u \in Thread \ {t} : task'[u] = task[u]
  BY <1>3 DEF QuietCall
<1>5. Hand(task'[t]) = {} /\ task'[t].pc = "idle"
  BY <1>3, IdleTyped
<1>6. Typed'
  BY <1>3, <1>4 DEF Sound, Typed
<1>7. S \in SUBSET Page
  BY <1>2
<1>8. \A q \in Page :
        IF q \in C[h] \/ q \in Hand(task[t])
        THEN pages'[q].use = "heap" <=> q \in S \/ q \in Hand(task'[t])
        ELSE pages'[q] = pages[q]
  BY <1>2, <1>5
<1>9. \A q : q \in S \/ q \in Hand(task'[t]) => q \in C[h] \/ q \in Hand(task[t])
  BY <1>2, <1>5
<1>10. Passes(pages, pages', task, task', t, h, C[h], S)
  BY <1>2, <1>4, <1>5, <1>8, <1>9 DEF Passes
<1>11. Chained(pages', first_page_id', tail_page_id', task', With(C, h, S))
  BY <1>1, <1>2, <1>4, <1>5, <1>7, <1>10, ChainChanges
<1> QED
  BY <1>6, <1>11 DEF IInv, Sound

(* A tail is remembered.                                                   *)
LEMMA TailSet ==
  ASSUME HeapsTyped(tail_page_id), NEW h \in Heap, NEW x \in PageIds,
         tail_page_id' = [tail_page_id EXCEPT ![h] = x]
  PROVE  /\ HeapsTyped(tail_page_id') /\ tail_page_id'[h] = x
         /\ SameElse(tail_page_id', tail_page_id, h)
BY DEF HeapsTyped, SameElse

(* The page is deleted.                                                    *)
LEMMA DeletedKeeps ==
  ASSUME TableHeapConstants, NEW C, Sound(C), NEW t \in Thread, At(t, "drop"),
         NEW h, h = task[t].heap, NEW p, p = Doomed(t).page,
         Deleted(p), free_space_map' = [free_space_map EXCEPT ![h] = @ \ {p}],
         NEW x \in C[h] \cup {INVALID_PAGE_ID},
         tail_page_id' = [tail_page_id EXCEPT ![h] = x],
         UNCHANGED <<wal, first_page_id>>, faults' \in 0 .. MaxFaults, Answer(t, TRUE)
  PROVE  IInv'
<1>1. /\ PagesTyped(pages) /\ HeapsTyped(first_page_id) /\ HeapsTyped(tail_page_id)
      /\ free_space_map \in [Heap -> SUBSET Page]
  BY DEF Sound, Typed
<1>2. h \in Heap /\ p \in Page /\ p \notin C[h] /\ C[h] \subseteq Page
  BY DropIs
<1>3. Linked(pages, first_page_id[h], C[h])
  BY DropIs
<1>4. /\ PagesTyped(pages') /\ pages'[p].use # "heap"
      /\ \A q \in Page \ {p} : pages'[q] = pages[q]
  <2>1. PageTyped(Freed) /\ Freed \in PageState /\ Freed.use # "heap"
    BY NewStates DEF PageTyped
  <2> QED
    BY <1>1, <1>2, <2>1 DEF Deleted, PagesTyped
<1>5. x \in PageIds
  BY <1>2 DEF PageIds
<1>6. /\ HeapsTyped(tail_page_id') /\ tail_page_id'[h] = x
      /\ SameElse(tail_page_id', tail_page_id, h)
  BY <1>1, <1>2, <1>5, TailSet
<1>7. /\ HeapsTyped(first_page_id') /\ SameElse(first_page_id', first_page_id, h)
      /\ free_space_map' \in [Heap -> SUBSET Page] /\ first_page_id' = first_page_id
  BY <1>1, <1>2 DEF SameElse
<1> DEFINE S == C[h]
<1>8. \A q \in S : pages'[q].next = pages[q].next
  BY <1>2, <1>4
<1>9. Linked(pages', first_page_id'[h], S)
  BY <1>3, <1>7, <1>8, LinkedSame
<1>10. /\ \A q \in Page \ (C[h] \cup {p}) : pages'[q] = pages[q]
       /\ \A q \in C[h] : pages'[q].use = pages[q].use
       /\ pages'[p].use = "heap" <=> p \in S
       /\ S = C[h] \/ S = C[h] \cup {p}
       /\ tail_page_id'[h] \in S \cup {INVALID_PAGE_ID}
  BY <1>2, <1>4, <1>6
<1> HIDE DEF S
<1> QED
  BY <1>4, <1>6, <1>7, <1>9, <1>10, DropEnds

(* The page comes back to its place.                                       *)
LEMMA PutBackKeeps ==
  ASSUME TableHeapConstants, NEW C, Sound(C), NEW t \in Thread, At(t, "drop"),
         NEW h, h = task[t].heap, NEW p, p = Doomed(t).page,
         NEW prev, prev = task[t].prev,
         IF prev = INVALID_PAGE_ID
         THEN first_page_id' = [first_page_id EXCEPT ![h] = p] /\ UNCHANGED pages
         ELSE Relinked(pages, pages', prev, p) /\ UNCHANGED first_page_id,
         NEW x \in C[h] \cup {p, INVALID_PAGE_ID},
         tail_page_id' = [tail_page_id EXCEPT ![h] = x],
         UNCHANGED <<wal, free_space_map>>, faults' \in 0 .. MaxFaults, Answer(t, TRUE)
  PROVE  IInv'
<1>1. /\ PagesTyped(pages) /\ HeapsTyped(first_page_id) /\ HeapsTyped(tail_page_id)
      /\ free_space_map \in [Heap -> SUBSET Page]
  BY DEF Sound, Typed
<1>2. h \in Heap /\ p \in Page /\ p \notin C[h] /\ C[h] \subseteq Page
  BY DropIs
<1>3. Linked(pages, first_page_id[h], C[h])
  BY DropIs
<1>4. pages[p].use = "heap" /\ pages[p].next = task[t].next
  BY DropIs
<1>5. IF prev = INVALID_PAGE_ID
      THEN first_page_id[h] = task[t].next
      ELSE prev \in C[h] /\ pages[prev].next = task[t].next
  BY DropIs
<1>6. x \in PageIds /\ p \in PageIds
  BY <1>2 DEF PageIds
<1>7. /\ HeapsTyped(tail_page_id') /\ tail_page_id'[h] = x
      /\ SameElse(tail_page_id', tail_page_id, h)
  BY <1>1, <1>2, <1>6, TailSet
<1>8. free_space_map' \in [Heap -> SUBSET Page]
  BY <1>1
<1> DEFINE S == C[h] \cup {p}
<1>9. S = C[h] \cup {p} /\ p \in S /\ tail_page_id'[h] \in S \cup {INVALID_PAGE_ID}
  BY <1>7
<1>10. CASE prev = INVALID_PAGE_ID
  <2>1. first_page_id' = [first_page_id EXCEPT ![h] = p] /\ pages' = pages
    BY <1>10
  <2>2. /\ HeapsTyped(first_page_id') /\ first_page_id'[h] = p
        /\ SameElse(first_page_id', first_page_id, h)
    BY <1>1, <1>2, <1>6, <2>1 DEF HeapsTyped, SameElse
  <2>3. pages[p].next = first_page_id[h]
    BY <1>4, <1>5, <1>10
  <2>4. Linked(pages, p, C[h] \cup {p})
    BY <1>2, <1>3, <2>3, LinkedBefore
  <2>5. Linked(pages', first_page_id'[h], S)
    BY <2>1, <2>2, <2>4
  <2>6. /\ PagesTyped(pages') /\ pages'[p].use = "heap"
        /\ \A q \in Page \ (C[h] \cup {p}) : pages'[q] = pages[q]
        /\ \A q \in C[h] : pages'[q].use = pages[q].use
    BY <1>1, <1>4, <2>1
  <2> HIDE DEF S
  <2> QED
    BY <1>7, <1>8, <1>9, <2>2, <2>5, <2>6, DropEnds
<1>11. CASE prev # INVALID_PAGE_ID
  <2>1. Relinked(pages, pages', prev, p) /\ first_page_id' = first_page_id
    BY <1>11
  <2>2. prev \in C[h] /\ prev \in Page /\ pages[p].next = pages[prev].next /\ prev # p
    BY <1>2, <1>4, <1>5, <1>11
  <2>3. /\ PagesTyped(pages') /\ pages'[prev].next = p
        /\ \A q \in Page : pages'[q].use = pages[q].use
        /\ \A q \in Page \ {prev} : pages'[q] = pages[q]
    BY <1>1, <1>6, <2>1, <2>2, LinkSet
  <2>4. pages'[p].next = pages[prev].next /\ p \in Page \ C[h]
    BY <1>2, <2>2, <2>3
  <2>5. \A q \in C[h] \ {prev} : pages'[q].next = pages[q].next
    BY <1>2, <2>3
  <2>6. Linked(pages', first_page_id[h], C[h] \cup {p})
    BY <1>1, <1>2, <1>3, <2>1, <2>2, LinkedBack
  <2>7. Linked(pages', first_page_id'[h], S)
    BY <2>1, <2>6
  <2>8. HeapsTyped(first_page_id') /\ SameElse(first_page_id', first_page_id, h)
    BY <1>1, <2>1 DEF SameElse
  <2>9. /\ pages'[p].use = "heap"
        /\ \A q \in Page \ (C[h] \cup {p}) : pages'[q] = pages[q]
        /\ \A q \in C[h] : pages'[q].use = pages[q].use
    BY <1>2, <1>4, <2>2, <2>3
  <2> HIDE DEF S
  <2> QED
    BY <1>7, <1>8, <1>9, <2>3, <2>7, <2>8, <2>9, DropEnds
<1> QED
  BY <1>10, <1>11

(* Drop, with its parts, when the rollback of a refused deletion does not  *)
(* fail.                                                                   *)
PlainBack(t) ==
  LET h == task[t].heap
      p == Doomed(t).page
      prev == task[t].prev
  IN  IF prev = INVALID_PAGE_ID
      THEN /\ first_page_id' = [first_page_id EXCEPT ![h] = p]
           /\ UNCHANGED pages
      ELSE /\ pages' = [pages EXCEPT ![prev].next =
                           IF @ = task[t].next THEN p ELSE @]
           /\ UNCHANGED first_page_id

PlainTails(t) ==
  LET h == task[t].heap
      p == Doomed(t).page
      behind == {w \in Walks(task[t].next, {}) : ~w.failed}
  IN  IF tail_page_id[h] # INVALID_PAGE_ID THEN {tail_page_id[h]}
      ELSE {IF w.last = INVALID_PAGE_ID THEN p ELSE w.last : w \in behind}

PlainDrop(t) ==
  LET h == task[t].heap
      p == Doomed(t).page
      prev == task[t].prev
      tail == CASE first_page_id[h] = INVALID_PAGE_ID -> INVALID_PAGE_ID
                [] tail_page_id[h] = p -> prev
                [] OTHER -> tail_page_id[h]
      refresh == IF /\ first_page_id[h] # INVALID_PAGE_ID
                    /\ tail_page_id[h] = p /\ prev = INVALID_PAGE_ID
                 THEN Refreshed(h) ELSE {[last |-> tail, failed |-> FALSE]}
  IN  /\ At(t, "drop")
      /\ \/ /\ ~Pinned(p)
            /\ Deleted(p)
            /\ free_space_map' = [free_space_map EXCEPT ![h] = @ \ {p}]
            /\ \E w \in refresh :
                 /\ tail_page_id' = [tail_page_id EXCEPT ![h] = w.last]
                 /\ Costs(w.failed)
            /\ UNCHANGED first_page_id
         \/ /\ IF Pinned(p) THEN UNCHANGED faults ELSE Fails
            /\ PlainBack(t)
            /\ \E x \in PlainTails(t) : tail_page_id' = [tail_page_id EXCEPT ![h] = x]
            /\ UNCHANGED free_space_map
      /\ Answer(t, TRUE)
      /\ UNCHANGED <<wal, scan>>

LEMMA DropOnce ==
  ASSUME NoneFailsAgain, faults \in Int, NEW t, Drop(t)
  PROVE  PlainDrop(t)
<1> DEFINE h == task[t].heap
           p == Doomed(t).page
           prev == task[t].prev
           tail == CASE first_page_id[h] = INVALID_PAGE_ID -> INVALID_PAGE_ID
                     [] tail_page_id[h] = p -> prev
                     [] OTHER -> tail_page_id[h]
           refresh == IF /\ first_page_id[h] # INVALID_PAGE_ID
                         /\ tail_page_id[h] = p /\ prev = INVALID_PAGE_ID
                      THEN Refreshed(h) ELSE {[last |-> tail, failed |-> FALSE]}
           Gone == /\ ~Pinned(p)
                   /\ Deleted(p)
                   /\ free_space_map' = [free_space_map EXCEPT ![h] = @ \ {p}]
                   /\ \E w \in refresh :
                        /\ tail_page_id' = [tail_page_id EXCEPT ![h] = w.last]
                        /\ Costs(w.failed)
                   /\ UNCHANGED first_page_id
           Kept == /\ Pinned(p) \/ MayFail
                   /\ \E out \in Again : \E w \in TailsBack(t, out) :
                        /\ out => prev # INVALID_PAGE_ID
                        /\ PutBack(t, out)
                        /\ tail_page_id' = [tail_page_id EXCEPT ![h] = w.last]
                        /\ CostsAll(One(~Pinned(p)) + One(out) + One(w.failed))
                   /\ UNCHANGED free_space_map
           tails == PlainTails(t)
           PlainKept == /\ IF Pinned(p) THEN UNCHANGED faults ELSE Fails
                        /\ PlainBack(t)
                        /\ \E x \in tails : tail_page_id' = [tail_page_id EXCEPT ![h] = x]
                        /\ UNCHANGED free_space_map
<1>1. Again = {FALSE}
  BY DEF Again, NoneFailsAgain
<1>2. /\ At(t, "drop") /\ (Gone \/ Kept)
      /\ Answer(t, TRUE) /\ UNCHANGED <<wal, scan>>
  BY DEF Drop
<1>3. PutBack(t, FALSE) => PlainBack(t)
  BY DEF PutBack, PlainBack
<1>4. \A w \in TailsBack(t, FALSE) : w.failed = FALSE /\ w.last \in tails
  <2> DEFINE behind == {w \in Walks(task[t].next, {}) : ~w.failed}
  <2>1. CASE tail_page_id[h] # INVALID_PAGE_ID
    BY <2>1 DEF TailsBack, PlainTails
  <2>2. CASE tail_page_id[h] = INVALID_PAGE_ID
    <3>1. TailsBack(t, FALSE)
            = {[last |-> IF w.last = INVALID_PAGE_ID THEN p ELSE w.last,
                failed |-> FALSE] : w \in behind}
      BY <1>1, <2>2 DEF TailsBack
    <3>2. tails = {IF w.last = INVALID_PAGE_ID THEN p ELSE w.last : w \in behind}
      BY <2>2 DEF PlainTails
    <3> HIDE DEF behind, tails
    <3>3. TAKE w \in TailsBack(t, FALSE)
    <3>4. PICK v \in behind :
            w = [last |-> IF v.last = INVALID_PAGE_ID THEN p ELSE v.last,
                 failed |-> FALSE]
      BY <3>1
    <3>5. w.last = (IF v.last = INVALID_PAGE_ID THEN p ELSE v.last) /\ w.failed = FALSE
      BY <3>4
    <3> QED
      BY <3>2, <3>5
  <2> QED
    BY <2>1, <2>2
<1>5. ASSUME Kept PROVE PlainKept
  <2> HIDE DEF tails
  <2>1. PICK w \in TailsBack(t, FALSE) :
          /\ PutBack(t, FALSE)
          /\ tail_page_id' = [tail_page_id EXCEPT ![h] = w.last]
          /\ CostsAll(One(~Pinned(p)) + One(FALSE) + One(w.failed))
    BY <1>1, <1>5
  <2>2. w.failed = FALSE /\ w.last \in tails
    BY <1>4
  <2>3. IF Pinned(p) THEN UNCHANGED faults ELSE Fails
    <3>1. /\ faults' = faults - (One(~Pinned(p)) + One(FALSE) + One(w.failed))
          /\ Pinned(p) \/ MayFail
      BY <1>5, <2>1 DEF CostsAll
    <3>2. One(~Pinned(p)) + One(FALSE) + One(w.failed) = IF Pinned(p) THEN 0 ELSE 1
      BY <2>2 DEF One
    <3>3. faults' = faults - IF Pinned(p) THEN 0 ELSE 1
      BY <3>1, <3>2
    <3>4. CASE Pinned(p)
      BY <3>3, <3>4
    <3>5. CASE ~Pinned(p)
      BY <3>1, <3>3, <3>5 DEF Fails, Costs
    <3> QED
      BY <3>4, <3>5
  <2>4. PlainBack(t)
    BY <1>3, <2>1
  <2>5. \E x \in tails : tail_page_id' = [tail_page_id EXCEPT ![h] = x]
    BY <2>1, <2>2
  <2>6. UNCHANGED free_space_map
    BY <1>5
  <2> QED
    BY <2>3, <2>4, <2>5, <2>6
<1>6. Gone \/ PlainKept
  <2> HIDE DEF Gone, Kept, PlainKept
  <2> QED
    BY <1>2, <1>5
<1> QED
  BY <1>2, <1>6 DEF PlainDrop

LEMMA DropKeeps ==
  ASSUME TableHeapConstants, NoneFailsAgain, NEW C, Sound(C), NEW t \in Thread, Drop(t)
  PROVE  IInv'
<1> DEFINE h == task[t].heap
           p == Doomed(t).page
           prev == task[t].prev
           tail == CASE first_page_id[h] = INVALID_PAGE_ID -> INVALID_PAGE_ID
                     [] tail_page_id[h] = p -> prev
                     [] OTHER -> tail_page_id[h]
           refresh == IF /\ first_page_id[h] # INVALID_PAGE_ID
                         /\ tail_page_id[h] = p /\ prev = INVALID_PAGE_ID
                      THEN Refreshed(h) ELSE {[last |-> tail, failed |-> FALSE]}
           behind == {w \in Walks(task[t].next, {}) : ~w.failed}
           tails == IF tail_page_id[h] # INVALID_PAGE_ID THEN {tail_page_id[h]}
                    ELSE {IF w.last = INVALID_PAGE_ID THEN p ELSE w.last : w \in behind}
<1>1. HeapsTyped(tail_page_id) /\ PagesTyped(pages) /\ faults \in 0 .. MaxFaults
  BY DEF Sound, Typed
<1>0. PlainDrop(t)
  BY <1>1, DropOnce
<1>2. At(t, "drop") /\ Answer(t, TRUE) /\ UNCHANGED wal
  BY <1>0 DEF PlainDrop, PlainBack, PlainTails
<1>3. /\ h \in Heap /\ p \in Page /\ p \notin C[h] /\ C[h] \subseteq Page
      /\ Linked(pages, first_page_id[h], C[h])
      /\ task[t].next \in C[h] \cup {INVALID_PAGE_ID}
  BY <1>2, DropIs
<1>4. /\ tail_page_id[h] \in C[h] \cup {p, INVALID_PAGE_ID}
      /\ prev \in C[h] \cup {INVALID_PAGE_ID}
  BY <1>2, DropIs
<1>5. /\ first_page_id[h] \in C[h] \cup {INVALID_PAGE_ID}
      /\ first_page_id[h] = INVALID_PAGE_ID => C[h] = {}
      /\ INVALID_PAGE_ID \notin Page
  BY <1>3, LinkedParts, PagesAre
<1>6. CASE /\ Deleted(p)
           /\ free_space_map' = [free_space_map EXCEPT ![h] = @ \ {p}]
           /\ \E w \in refresh :
                /\ tail_page_id' = [tail_page_id EXCEPT ![h] = w.last]
                /\ Costs(w.failed)
           /\ UNCHANGED first_page_id
  <2> HIDE DEF refresh
  <2>1. PICK w \in refresh : /\ tail_page_id' = [tail_page_id EXCEPT ![h] = w.last]
                             /\ Costs(w.failed)
    BY <1>6
  <2>2. /\ w.last \in C[h] \cup {INVALID_PAGE_ID}
        /\ w.failed \in BOOLEAN /\ (w.failed => MayFail)
    <3>1. CASE w \in Refreshed(h)
      BY <1>3, <1>5, <3>1, WalkStays DEF Refreshed
    <3>2. CASE /\ w = [last |-> tail, failed |-> FALSE]
               /\ ~ /\ first_page_id[h] # INVALID_PAGE_ID
                    /\ tail_page_id[h] = p /\ prev = INVALID_PAGE_ID
      <4>1. CASE first_page_id[h] = INVALID_PAGE_ID
        <5>1. prev = INVALID_PAGE_ID
          BY <1>4, <1>5, <4>1
        <5>2. tail = INVALID_PAGE_ID
          BY <4>1, <5>1
        <5> HIDE DEF tail
        <5> QED
          BY <3>2, <5>2
      <4>2. CASE first_page_id[h] # INVALID_PAGE_ID /\ tail_page_id[h] = p
        <5>1. tail = prev
          BY <4>2
        <5> HIDE DEF tail
        <5> QED
          BY <1>4, <3>2, <5>1
      <4>3. CASE first_page_id[h] # INVALID_PAGE_ID /\ tail_page_id[h] # p
        <5>1. tail = tail_page_id[h]
          BY <4>3
        <5> HIDE DEF tail
        <5> QED
          BY <1>4, <3>2, <4>3, <5>1
      <4> QED
        BY <4>1, <4>2, <4>3
    <3> QED
      BY <3>1, <3>2 DEF refresh
  <2>3. faults' \in 0 .. MaxFaults
    BY <1>1, <2>1, <2>2, FaultsAre
  <2> DEFINE x == w.last
  <2>4. x \in C[h] \cup {INVALID_PAGE_ID} /\ tail_page_id' = [tail_page_id EXCEPT ![h] = x]
    BY <2>1, <2>2
  <2>5. h = task[t].heap /\ p = Doomed(t).page
    OBVIOUS
  <2>6. UNCHANGED <<wal, first_page_id>>
    BY <1>2, <1>6
  <2> HIDE DEF x, h, p
  <2> QED
    BY <1>2, <1>6, <2>3, <2>4, <2>5, <2>6, DeletedKeeps
<1>7. CASE /\ IF Pinned(p) THEN UNCHANGED faults ELSE Fails
           /\ IF prev = INVALID_PAGE_ID
              THEN /\ first_page_id' = [first_page_id EXCEPT ![h] = p]
                   /\ UNCHANGED pages
              ELSE /\ pages' = [pages EXCEPT ![prev].next =
                                  IF @ = task[t].next THEN p ELSE @]
                   /\ UNCHANGED first_page_id
           /\ \E x \in tails : tail_page_id' = [tail_page_id EXCEPT ![h] = x]
           /\ UNCHANGED free_space_map
  <2>1. PICK x \in tails : tail_page_id' = [tail_page_id EXCEPT ![h] = x]
    BY <1>7
  <2>2. \A w \in behind : w.last \in C[h] \cup {INVALID_PAGE_ID}
    <3>1. \A w \in behind : w \in Walks(task[t].next, {})
      BY DEF behind
    <3> QED
      BY <1>3, <3>1, WalkStays
  <2>3. x \in C[h] \cup {p, INVALID_PAGE_ID}
    <3> HIDE DEF behind
    <3>1. CASE tail_page_id[h] # INVALID_PAGE_ID
      BY <1>4, <3>1
    <3>2. CASE tail_page_id[h] = INVALID_PAGE_ID
      <4>1. PICK w \in behind : x = IF w.last = INVALID_PAGE_ID THEN p ELSE w.last
        BY <3>2
      <4> QED
        BY <2>2, <4>1
    <3> QED
      BY <3>1, <3>2
  <2> HIDE DEF behind, tails
  <2>4. faults' \in 0 .. MaxFaults
    BY <1>1, <1>7, FailsCost
  <2>5. prev # INVALID_PAGE_ID => pages[prev].next = task[t].next
    BY <1>2, DropIs
  <2>6. IF prev = INVALID_PAGE_ID
        THEN first_page_id' = [first_page_id EXCEPT ![h] = p] /\ UNCHANGED pages
        ELSE Relinked(pages, pages', prev, p) /\ UNCHANGED first_page_id
    BY <1>7, <2>5 DEF Relinked
  <2>7. x \in C[h] \cup {p, INVALID_PAGE_ID} /\ tail_page_id' = [tail_page_id EXCEPT ![h] = x]
    BY <2>1, <2>3
  <2>8. h = task[t].heap /\ p = Doomed(t).page /\ prev = task[t].prev
    OBVIOUS
  <2>9. UNCHANGED <<wal, free_space_map>>
    BY <1>2, <1>7
  <2> HIDE DEF h, p, prev
  <2> QED
    BY <1>2, <2>4, <2>6, <2>7, <2>8, <2>9, PutBackKeeps
<1> QED
  BY <1>0, <1>6, <1>7 DEF PlainDrop, PlainBack, PlainTails

-------------------------------------------------------------------------------
(* The invariant.                                                          *)

LEMMA LinkedNone ==
  ASSUME NEW m
  PROVE  Linked(m, INVALID_PAGE_ID, {})
<1> DEFINE c == [k \in 0 .. 0 |-> INVALID_PAGE_ID]
<1>1. 0 .. 0 - 1 = {} /\ 0 \in 0 .. 0 /\ 0 \in Nat
  OBVIOUS
<1>2. IsPath(m, INVALID_PAGE_ID, 0, c)
  BY <1>1 DEF IsPath
<1> HIDE DEF c
<1>3. \E e : IsPath(m, INVALID_PAGE_ID, 0, e) /\ {} = {e[k] : k \in 0 .. 0 - 1}
  BY <1>1, <1>2
<1> QED
  BY <1>1, <1>3 DEF Linked

LEMMA InitSound ==
  ASSUME TableHeapConstants, Init
  PROVE  IInv
<1> DEFINE h == CHOOSE g \in Heap : TRUE
<1>1. PICK n \in 1 .. 2 :
        pages = [p \in Page |-> CASE p < n -> [InitForNewPage EXCEPT !.next = p + 1]
                                  [] p = n -> InitForNewPage
                                  [] p > n -> Fresh]
  <2>1. (IF wal THEN 2 ELSE 1) \in {1, 2}
    OBVIOUS
  <2>2. 1 .. (IF wal THEN 2 ELSE 1) \subseteq 1 .. 2
    BY <2>1
  <2> QED
    BY <2>2 DEF Init
<1>2. h \in Heap
  BY DEF TableHeapConstants
<1>3. /\ first_page_id = [g \in Heap |-> IF g = h THEN 1 ELSE INVALID_PAGE_ID]
      /\ tail_page_id = [g \in Heap |-> INVALID_PAGE_ID]
      /\ free_space_map = [g \in Heap |-> {}]
      /\ task = [t \in Thread |-> Idle] /\ rids = [r \in Rec |-> NoRid]
      /\ faults = MaxFaults /\ wal \in BOOLEAN
  BY DEF Init
<1> DEFINE S == {p \in Page : p <= n}
           C == [g \in Heap |-> IF g = h THEN S ELSE {}]
<1> HIDE DEF h
<1>4. /\ MaxPage \in Nat \ {0} /\ Page = 1 .. MaxPage /\ INVALID_PAGE_ID = MaxPage + 1
      /\ 1 \in Page /\ INVALID_PAGE_ID \notin Page
  BY PagesAre DEF INVALID_PAGE_ID
<1>5. \A p \in Page :
        /\ PageTyped(pages[p]) /\ pages[p] \in PageState
        /\ pages[p].use = "heap" <=> p \in S
        /\ p = n => pages[p].next = INVALID_PAGE_ID
        /\ p < n => pages[p].next = p + 1
  <2> SUFFICES ASSUME NEW p \in Page
               PROVE  /\ PageTyped(pages[p]) /\ pages[p] \in PageState
                      /\ pages[p].use = "heap" <=> p \in S
                      /\ p = n => pages[p].next = INVALID_PAGE_ID
                      /\ p < n => pages[p].next = p + 1
    OBVIOUS
  <2>1. CASE p < n
    <3> DEFINE x == [InitForNewPage EXCEPT !.next = p + 1]
    <3>1. pages[p] = x
      BY <1>1, <1>4, <2>1
    <3>2. p + 1 \in PageIds
      BY <1>4, <2>1 DEF PageIds
    <3>3. /\ x.use = "heap" /\ x.next = p + 1 /\ x.slots = InitForNewPage.slots
          /\ x.free = InitForNewPage.free /\ x \in PageState
      BY <3>2, NewStates DEF PageTyped, PageState, InitForNewPage
    <3>4. PageTyped(x)
      <4> HIDE DEF x
      <4> QED
        BY <3>3, NewStates DEF PageTyped
    <3> HIDE DEF x
    <3> QED
      BY <1>4, <2>1, <3>1, <3>3, <3>4
  <2>2. CASE p = n
    <3>1. pages[p] = InitForNewPage
      BY <1>1, <1>4, <2>2
    <3> QED
      BY <1>4, <2>2, <3>1, NewStates DEF PageTyped
  <2>3. CASE p > n
    <3>1. pages[p] = Fresh
      BY <1>1, <1>4, <2>3
    <3> QED
      BY <1>4, <2>3, <3>1, NewStates DEF PageTyped
  <2> QED
    BY <1>4, <2>1, <2>2, <2>3
<1>6. Linked(pages, 1, S)
  <2>1. Linked(pages, INVALID_PAGE_ID, {})
    BY LinkedNone
  <2>2. CASE n = 1
    <3>1. pages[1].next = INVALID_PAGE_ID /\ 1 \in Page \ {}
      BY <1>4, <1>5, <2>2
    <3>2. Linked(pages, 1, {} \cup {1})
      BY <2>1, <3>1, LinkedBefore
    <3>3. S = {} \cup {1}
      BY <1>4, <2>2
    <3> QED
      BY <3>2, <3>3
  <2>3. CASE n = 2 /\ MaxPage = 1
    <3>1. pages[1].next = INVALID_PAGE_ID /\ 1 \in Page \ {}
      BY <1>4, <1>5, <2>3
    <3>2. Linked(pages, 1, {} \cup {1})
      BY <2>1, <3>1, LinkedBefore
    <3>3. S = {} \cup {1}
      BY <1>4, <2>3
    <3> QED
      BY <3>2, <3>3
  <2>4. CASE n = 2 /\ MaxPage # 1
    <3>1. pages[2].next = INVALID_PAGE_ID /\ 2 \in Page \ {}
      BY <1>4, <1>5, <2>4
    <3>2. Linked(pages, 2, {} \cup {2})
      BY <2>1, <3>1, LinkedBefore
    <3>3. pages[1].next = 2 /\ 1 \in Page \ ({} \cup {2})
      BY <1>4, <1>5, <2>4
    <3>4. Linked(pages, 1, ({} \cup {2}) \cup {1})
      BY <3>2, <3>3, LinkedBefore
    <3>5. S = ({} \cup {2}) \cup {1}
      BY <1>4, <2>4
    <3> QED
      BY <3>4, <3>5
  <2> QED
    BY <2>2, <2>3, <2>4
<1>7. Typed
  <2>1. PagesTyped(pages)
    BY <1>1, <1>5 DEF PagesTyped
  <2>2. CallsTyped(task) /\ RidsTyped(rids)
    BY <1>3, IdleTyped DEF CallsTyped, RidsTyped, CallTyped
  <2>3. HeapsTyped(first_page_id) /\ HeapsTyped(tail_page_id) /\ faults \in 0 .. MaxFaults
    BY <1>3, <1>4 DEF HeapsTyped, PageIds, TableHeapConstants
  <2> QED
    BY <1>3, <2>1, <2>2, <2>3 DEF Typed
<1>8. /\ C \in [Heap -> SUBSET Page] /\ C[h] = S /\ \A g \in Heap \ {h} : C[g] = {}
  BY <1>2
<1> HIDE DEF C, S
<1>9. Chained(pages, first_page_id, tail_page_id, task, C)
  <2>1. \A g \in Heap : Linked(pages, first_page_id[g], C[g])
    <3>1. first_page_id[h] = 1 /\ \A g \in Heap \ {h} : first_page_id[g] = INVALID_PAGE_ID
      BY <1>2, <1>3
    <3> QED
      BY <1>6, <1>8, <3>1, LinkedNone
  <2>2. \A t \in Thread : Hand(task[t]) = {} /\ task[t].pc = "idle"
    BY <1>3, IdleTyped
  <2>3. \A p \in Page : pages[p].use = "heap" <=>
          (\E g \in Heap : p \in C[g]) \/ (\E t \in Thread : p \in Hand(task[t]))
    BY <1>2, <1>5, <1>8, <2>2
  <2>4. \A g, i \in Heap : \A p : p \in C[g] /\ p \in C[i] => g = i
    BY <1>8
  <2>5. \A g \in Heap : tail_page_id[g] = INVALID_PAGE_ID
    BY <1>3
  <2> QED
    BY <1>8, <2>1, <2>2, <2>3, <2>4, <2>5 DEF Chained
<1> QED
  BY <1>7, <1>9 DEF IInv, Sound

LEMMA StepKeeps ==
  ASSUME TableHeapConstants, NoneFailsAgain, IInv, [Next]_vars
  PROVE  IInv'
<1>1. PICK C : Sound(C)
  BY DEF IInv
<1>2. ASSUME Sound(C)' PROVE IInv'
  BY <1>2 DEF IInv
<1>3. CASE UNCHANGED vars
  BY <1>1, <1>2, <1>3, ScanKeeps DEF vars
<1>4. CASE Scan
  <2>1. UNCHANGED <<wal, pages, heapvars, task, rids, faults>>
    BY <1>4 DEF Scan, ScanNext, ScanEnd, Begin
  <2> QED
    BY <1>1, <1>2, <2>1, ScanKeeps
<1>5. ASSUME NEW t \in Thread, Call(t) PROVE IInv'
  <2>1. Min(Length) \in Length /\ Max(Length) \in Length
    BY SlotsAre
  <2>2. PICK r \in Rec : \/ \E h \in Heap : CallInsert(t, h, r, Min(Length))
                         \/ CallUpdate(t, r, Max(Length))
                         \/ CallDelete(t, r)
    BY <1>5 DEF Call
  <2> QED
    BY <1>1, <1>2, <2>1, <2>2, CallInsertKeeps, CallUpdateKeeps, CallDeleteKeeps
<1>6. ASSUME NEW t \in Thread, Insertion(t) PROVE IInv'
  BY <1>1, <1>2, <1>6, WalkKeeps, NewPageKeeps, LinkKeeps, PutKeeps, ProbeKeeps DEF Insertion
<1>7. ASSUME NEW t \in Thread, Deletion(t) PROVE IInv'
  BY <1>1, <1>2, <1>7, MarkKeeps, ReclaimKeeps, DropKeeps DEF Deletion
<1> QED
  BY <1>3, <1>4, <1>5, <1>6, <1>7 DEF Next, Step

(* Every state has sound chains, and calls that know what they hold.       *)
LEMMA Invariance ==
  ASSUME TableHeapConstants, NoneFailsAgain
  PROVE  Spec => []IInv
<1>1. Init => IInv
  BY InitSound
<1>2. IInv /\ [Next]_vars => IInv'
  BY StepKeeps
<1> QED
  BY <1>1, <1>2, PTL DEF Spec

LEMMA SoundChains ==
  ASSUME TableHeapConstants, IInv
  PROVE  ChainsAreSound
<1>1. PICK C : Sound(C)
  BY DEF IInv
<1>2. /\ wal \in BOOLEAN /\ PagesTyped(pages) /\ CallsTyped(task) /\ RidsTyped(rids)
      /\ HeapsTyped(first_page_id) /\ HeapsTyped(tail_page_id)
      /\ free_space_map \in [Heap -> SUBSET Page] /\ faults \in 0 .. MaxFaults
      /\ Chained(pages, first_page_id, tail_page_id, task, C)
  BY <1>1 DEF Sound, Typed
<1>3. TypeOK
  <2>1. \A p \in Page :
          /\ pages[p].use \in {"fresh", "freed", "heap"} /\ pages[p].next \in PageIds
          /\ pages[p].free \in 0 .. Capacity /\ Len(pages[p].slots) <= MaxSlots
    <3> SUFFICES ASSUME NEW p \in Page
                 PROVE  /\ pages[p].use \in {"fresh", "freed", "heap"} /\ pages[p].next \in PageIds
                        /\ pages[p].free \in 0 .. Capacity /\ Len(pages[p].slots) <= MaxSlots
      OBVIOUS
    <3>1. pages[p] \in PageState /\ pages[p].free + Len(pages[p].slots) <= Capacity
      BY <1>2 DEF PagesTyped, PageTyped
    <3>2. pages[p].free \in 0 .. Capacity /\ Len(pages[p].slots) \in Nat
          /\ MaxSlots = Capacity /\ Capacity \in Nat
      BY <3>1, SlotsAre DEF PageState
    <3> QED
      BY <3>1, <3>2 DEF PageState
  <2>2. \A t \in Thread : task[t].old \in Rids /\ task[t].new \in Rids
    BY <1>2, CallIs DEF CallState
  <2>3. rids \in [Rec -> Rids]
    BY <1>2 DEF RidsTyped
  <2> QED
    BY <1>2, <2>1, <2>2, <2>3 DEF TypeOK, HeapsTyped
<1>4. \A h \in Heap : /\ Chain(h) = C[h]
                      /\ \E k \in 0 .. MaxPage : Path(first_page_id[h])[k] = INVALID_PAGE_ID
  BY <1>2, ChainIs DEF Chained
<1>5. \A t \in Thread : InHand(t) = Hand(task[t])
  BY DEF InHand, Hand, At, Doomed, Deletes
<1>6. \A h, g \in Heap : h # g => Chain(h) \cap Chain(g) = {}
  <2>1. \A h, g \in Heap : \A p : p \in C[h] /\ p \in C[g] => h = g
    BY <1>2 DEF Chained
  <2> QED
    BY <1>4, <2>1
<1>7. {p \in Page : pages[p].use = "heap"} =
        (UNION {Chain(h) : h \in Heap}) \cup UNION {InHand(t) : t \in Thread}
  <2>1. \A p \in Page : pages[p].use = "heap" <=>
          (\E h \in Heap : p \in C[h]) \/ (\E t \in Thread : p \in Hand(task[t]))
    BY <1>2 DEF Chained
  <2>2. /\ \A h \in Heap : C[h] \subseteq Page
        /\ \A t \in Thread : Hand(task[t]) \subseteq Page
    BY <1>2, ChainedPages
  <2> DEFINE chained == UNION {Chain(h) : h \in Heap}
             held == UNION {InHand(t) : t \in Thread}
  <2>3. \A p : p \in chained <=> \E h \in Heap : p \in Chain(h)
    OBVIOUS
  <2>4. \A p : p \in held <=> \E t \in Thread : p \in InHand(t)
    OBVIOUS
  <2> HIDE DEF chained, held
  <2>5. {p \in Page : pages[p].use = "heap"} = chained \cup held
    BY <1>4, <1>5, <2>1, <2>2, <2>3, <2>4
  <2> QED
    BY <2>5 DEF chained, held
<1>8. \A t \in Thread, h \in Heap : InHand(t) \cap Chain(h) = {}
  <2>1. \A t \in Thread, h \in Heap : \A p : ~ (p \in Hand(task[t]) /\ p \in C[h])
    BY <1>2 DEF Chained
  <2> QED
    BY <1>4, <1>5, <2>1
<1>9. \A h \in Heap : tail_page_id[h] # INVALID_PAGE_ID /\ ~ Latched(h) =>
                        tail_page_id[h] \in Chain(h)
  <2>1. \A h \in Heap : \/ tail_page_id[h] \in C[h] \cup {INVALID_PAGE_ID}
                        \/ \E t \in Thread : task[t].pc = "drop" /\ task[t].heap = h
    BY <1>2 DEF Chained
  <2> QED
    BY <1>4, <2>1 DEF Latched, At
<1> QED
  BY <1>3, <1>4, <1>6, <1>7, <1>8, <1>9 DEF ChainsAreSound

(* As long as the rollback of a failed step does not fail itself, and      *)
(* whatever calls of several threads meet in a table, whichever steps of   *)
(* them fail, and wherever two of them let each other in, AllocateNewPage  *)
(* and ReclaimPageIfEmpty neither lose nor share a page, every chain ends, *)
(* and the tail remembered is one of its pages.                            *)
THEOREM ChainsStaySound ==
  ASSUME NoneFailsAgain
  PROVE  Spec => []ChainsAreSound
<1>1. IInv => ChainsAreSound
  BY TableHeapConstants, SoundChains
<1>2. Spec => []IInv
  BY TableHeapConstants, Invariance
<1> QED
  BY <1>1, <1>2, PTL

-------------------------------------------------------------------------------
(* Records in pages.                                                       *)

(* What a slot of a page holds. *)
RecIn(p, s) == IF s \in DOMAIN p.slots THEN p.slots[s].rec ELSE NoRec

LEMMA LengthsAre ==
  ASSUME TableHeapConstants
  PROVE  /\ Min(Length) \in Nat \ {0} /\ Max(Length) \in Nat /\ Capacity \in Nat
         /\ Min(Length) <= Max(Length) /\ Max(Length) < Capacity
<1>1. Min(Length) \in Length /\ Max(Length) \in Length
  BY SlotsAre
<1>2. Length \subseteq 1 .. Capacity - 1 /\ Capacity \in Nat /\ Length # {}
  BY DEF TableHeapConstants
<1>3. Length \in SUBSET Nat
  BY <1>2
<1>4. Min(Length) <= Max(Length)
  BY <1>1, <1>2, <1>3, LeastIsLeast
<1>5. Min(Length) \in 1 .. Capacity - 1 /\ Max(Length) \in 1 .. Capacity - 1
  BY <1>1, <1>2
<1> QED
  BY <1>2, <1>4, <1>5

(* Bodies of other slots may change. *)
LEMMA BodiesSame ==
  ASSUME NEW p, NEW q, NEW S, \A s \in S : q.slots[s].length = p.slots[s].length
  PROVE  Bodies(q, S) = Bodies(p, S)
<1>1. \A u \in S \X (1 .. Capacity) : u[1] \in S
  OBVIOUS
<1> QED
  BY <1>1 DEF Bodies

LEMMA BodiesAreFinite ==
  ASSUME TableHeapConstants, NEW p \in PageState, NEW S \in SUBSET DOMAIN p.slots
  PROVE  IsFiniteSet(Bodies(p, S)) /\ Cardinality(Bodies(p, S)) \in Nat
<1>1. Len(p.slots) \in Nat /\ DOMAIN p.slots = 1 .. Len(p.slots) /\ Capacity \in Nat
  BY DEF PageState, TableHeapConstants
<1>2. IsFiniteSet(1 .. Len(p.slots)) /\ IsFiniteSet(1 .. Capacity)
  <2>1. 1 \in Int /\ Len(p.slots) \in Int /\ Capacity \in Int
    BY <1>1
  <2> QED
    BY <2>1, FS_Interval
<1>3. IsFiniteSet(S)
  BY <1>1, <1>2, FS_Subset
<1>4. IsFiniteSet(S \X (1 .. Capacity))
  BY <1>2, <1>3, FS_Product
<1>5. Bodies(p, S) \in SUBSET (S \X (1 .. Capacity))
  BY DEF Bodies
<1>6. IsFiniteSet(Bodies(p, S))
  BY <1>4, <1>5, FS_Subset
<1> QED
  BY <1>6, FS_CardinalityType

(* A body takes its length. *)
LEMMA BodyTakes ==
  ASSUME TableHeapConstants, NEW p \in PageState, NEW S \in SUBSET DOMAIN p.slots,
         NEW s \in DOMAIN p.slots, s \notin S,
         NEW n \in 0 .. Capacity, p.slots[s].length = n
  PROVE  Cardinality(Bodies(p, S \cup {s})) = Cardinality(Bodies(p, S)) + n
<1> DEFINE A == Bodies(p, S)
           B == {s} \X (1 .. n)
<1>1. Capacity \in Nat /\ n \in Nat /\ n <= Capacity
  BY DEF TableHeapConstants
<1>2. IsFiniteSet(A) /\ Cardinality(A) \in Nat
  BY BodiesAreFinite
<1>3. IsFiniteSet(1 .. n) /\ Cardinality(1 .. n) = n
  <2>1. 1 \in Int /\ n \in Int
    BY <1>1
  <2>2. Cardinality(1 .. n) = IF 1 > n THEN 0 ELSE n - 1 + 1
    BY <2>1, FS_Interval
  <2> QED
    BY <1>1, <2>1, <2>2, FS_Interval
<1>4. IsFiniteSet({s}) /\ Cardinality({s}) = 1
  BY FS_Singleton
<1>5. IsFiniteSet(B) /\ Cardinality(B) = n
  <2>1. IsFiniteSet(B) /\ Cardinality(B) = Cardinality({s}) * Cardinality(1 .. n)
    BY <1>3, <1>4, FS_Product
  <2> QED
    BY <1>1, <1>3, <1>4, <2>1
<1>6. Bodies(p, S \cup {s}) = A \cup B
  <2>1. ASSUME NEW u \in (S \cup {s}) \X (1 .. Capacity), u[2] <= p.slots[u[1]].length
        PROVE  u \in A \cup B
    <3>1. u = <<u[1], u[2]>> /\ u[1] \in S \cup {s} /\ u[2] \in 1 .. Capacity
      OBVIOUS
    <3>2. CASE u[1] \in S
      BY <2>1, <3>1, <3>2 DEF Bodies
    <3>3. CASE u[1] = s
      <4>1. u[2] \in 1 .. n
        BY <1>1, <2>1, <3>1, <3>3
      <4> QED
        BY <3>1, <3>3, <4>1
    <3> QED
      BY <3>1, <3>2, <3>3
  <2>2. ASSUME NEW u \in B
        PROVE  u \in (S \cup {s}) \X (1 .. Capacity) /\ u[2] <= p.slots[u[1]].length
    <3>1. u = <<u[1], u[2]>> /\ u[1] = s /\ u[2] \in 1 .. n
      OBVIOUS
    <3>2. u[2] \in 1 .. Capacity /\ u[2] <= n
      BY <1>1, <3>1
    <3> QED
      BY <3>1, <3>2
  <2>3. ASSUME NEW u \in A
        PROVE  u \in (S \cup {s}) \X (1 .. Capacity) /\ u[2] <= p.slots[u[1]].length
    BY DEF Bodies
  <2> HIDE DEF B
  <2> QED
    BY <2>1, <2>2, <2>3 DEF Bodies
<1>7. A \cap B = {}
  BY DEF Bodies
<1>8. Cardinality(A \cup B) = Cardinality(A) + n
  <2> HIDE DEF A, B
  <2>1. Cardinality(A \cup B) = Cardinality(A) + Cardinality(B) - Cardinality(A \cap B)
    BY <1>2, <1>5, FS_Union
  <2>2. Cardinality({}) = 0
    BY FS_EmptySet
  <2>3. Cardinality(A \cap B) = 0
    BY <1>7, <2>2
  <2> QED
    BY <1>1, <1>2, <1>5, <2>1, <2>3
<1> QED
  BY <1>6, <1>8

(* The records of a page are short or long ones, and it never promises     *)
(* more room than there is but for the body of one short record: the one   *)
(* an update that did not fit has counted as free.                         *)
Roomy(p) ==
  /\ \A s \in Live(p) : p.slots[s].length \in {Min(Length), Max(Length)}
  /\ p.free <= Compacted(p, 0) + Min(Length)

LEMMA LiveIs ==
  ASSUME NEW p \in PageState
  PROVE  /\ Len(p.slots) \in Nat /\ DOMAIN p.slots = 1 .. Len(p.slots)
         /\ Live(p) \in SUBSET DOMAIN p.slots /\ Live(p) \ {0} = Live(p)
         /\ \A s : s \in Live(p) <=> RecIn(p, s) # NoRec
         /\ \A s \in DOMAIN p.slots : p.slots[s] \in Slot
BY DEF PageState, Live, RecIn

LEMMA CompactedWithout ==
  ASSUME TableHeapConstants, NEW p \in PageState, Roomy(p), NEW s \in Live(p)
  PROVE  /\ Compacted(p, 0) \in Int /\ p.slots[s].length \in Nat
         /\ Compacted(p, s) = Compacted(p, 0) + p.slots[s].length
<1> DEFINE n == p.slots[s].length
           rest == Live(p) \ {s}
<1>1. n \in {Min(Length), Max(Length)}
  BY DEF Roomy
<1>2. n \in 0 .. Capacity /\ n \in Nat /\ Capacity \in Nat
  BY <1>1, LengthsAre
<1>3. s \in DOMAIN p.slots /\ rest \in SUBSET DOMAIN p.slots /\ s \notin rest
      /\ Live(p) = rest \cup {s} /\ Len(p.slots) \in Nat
  BY LiveIs
<1>4. Cardinality(Bodies(p, rest)) \in Nat
  BY <1>3, BodiesAreFinite
<1>5. Cardinality(Bodies(p, rest \cup {s})) = Cardinality(Bodies(p, rest)) + n
  <2> HIDE DEF rest
  <2> QED
    BY <1>2, <1>3, BodyTakes
<1>6. Compacted(p, s) = Capacity - Len(p.slots) - Cardinality(Bodies(p, rest))
  BY <1>2, <1>3, <1>4 DEF Compacted, SlotSize
<1>7. Compacted(p, 0) = Capacity - Len(p.slots) - Cardinality(Bodies(p, rest \cup {s}))
  <2>1. Live(p) \ {0} = rest \cup {s}
    BY <1>3, LiveIs
  <2>2. SlotSize * Len(p.slots) = Len(p.slots)
    BY <1>3 DEF SlotSize
  <2> QED
    BY <2>1, <2>2 DEF Compacted
<1> HIDE DEF rest, n
<1>8. Compacted(p, s) = Compacted(p, 0) + n /\ Compacted(p, 0) \in Int
  BY <1>2, <1>3, <1>4, <1>5, <1>6, <1>7
<1> QED
  BY <1>2, <1>8 DEF n

(* Slots that hold the same lengths take the same room. *)
LEMMA CompactedSame ==
  ASSUME TableHeapConstants, NEW p \in PageState, NEW q \in PageState, Live(q) = Live(p),
         Len(q.slots) = Len(p.slots),
         \A s \in Live(p) : q.slots[s].length = p.slots[s].length
  PROVE  Compacted(q, 0) = Compacted(p, 0)
<1>1. Bodies(q, Live(p)) = Bodies(p, Live(p))
  BY BodiesSame
<1> QED
  BY <1>1, LiveIs DEF Compacted

(* An insertion puts its record into a slot that holds none, or nothing.   *)
LEMMA InsertRecords ==
  ASSUME TableHeapConstants, NEW p, PageTyped(p), Roomy(p), NEW r \in Rec,
         NEW n \in {Min(Length), Max(Length)}, n \in Length
  PROVE  LET result == PageInsert(p, r, n)
         IN  /\ Roomy(result.page)
             /\ result.error = "none" =>
                  /\ RecIn(p, result.slot) = NoRec
                  /\ \A s : RecIn(result.page, s) = IF s = result.slot THEN r ELSE RecIn(p, s)
             /\ result.error # "none" =>
                  \A s : RecIn(result.page, s) = RecIn(p, s)
<1> DEFINE reuses == DOMAIN p.slots \ Live(p)
           need == n + (IF reuses = {} THEN SlotSize ELSE 0)
           free == IF p.free < need THEN Compacted(p, 0) ELSE p.free
           slot == IF reuses = {} THEN Len(p.slots) + 1 ELSE Min(reuses)
           record == [rec |-> r, length |-> n]
           len == Len(p.slots)
           end == Max({slot, len})
           new == [s \in 1 .. end |-> IF s = slot THEN record ELSE p.slots[s]]
<1>1. /\ p \in PageState /\ p.free \in Nat /\ len \in Nat
      /\ p.slots \in Seq(Slot) /\ DOMAIN p.slots = 1 .. len
      /\ Live(p) \subseteq 1 .. len
  BY SlotsAre, LiveIs DEF PageTyped, PageState
<1>2. /\ n \in Nat \ {0} /\ Capacity \in Nat /\ n \in 0 .. Capacity /\ r # NoRec
      /\ Min(Length) \in Nat
  BY LengthsAre DEF TableHeapConstants
<1>3. /\ Compacted(p, 0) \in Int /\ p.free <= Compacted(p, 0) + Min(Length)
      /\ free \in Int /\ free <= Compacted(p, 0) + Min(Length)
  <2>1. Compacted(p, 0) \in Int
    BY <1>1, CompactedIs
  <2> QED
    BY <1>1, <1>2, <2>1 DEF Roomy
<1>4. /\ slot \in 1 .. len + 1 /\ end \in {len, len + 1} /\ slot <= end
      /\ slot \notin Live(p)
      /\ IF reuses = {} THEN end = len + 1 /\ slot = len + 1
                        ELSE end = len /\ slot \in 1 .. len
  <2>1. CASE reuses = {}
    <3>1. end = len + 1 /\ slot = len + 1
      BY <1>1, <2>1 DEF Max
    <3> HIDE DEF end, slot
    <3> QED
      BY <1>1, <2>1, <3>1
  <2>2. CASE reuses # {}
    <3>1. reuses \in SUBSET Nat /\ reuses \subseteq 1 .. len
      BY <1>1
    <3>2. slot \in reuses
      <4>1. Min(reuses) \in reuses
        <5> HIDE DEF reuses
        <5> QED
          BY <2>2, <3>1, LeastIsLeast
      <4> QED
        BY <2>2, <3>1, <4>1
    <3>3. end = len
      <4> HIDE DEF slot, reuses
      <4>1. slot \in 1 .. len
        BY <3>1, <3>2
      <4> QED
        BY <1>1, <4>1 DEF Max
    <3> HIDE DEF slot, end
    <3> QED
      BY <1>1, <2>2, <3>1, <3>2, <3>3
  <2> QED
    BY <2>1, <2>2
<1> HIDE DEF slot, end
<1>5. CASE p.use # "heap"
  BY <1>5 DEF PageInsert, Result
<1>6. CASE p.use = "heap" /\ free < 0
  BY <1>6 DEF PageInsert, Result
<1>7. CASE p.use = "heap" /\ ~ (free < 0) /\ free < need
  <2> DEFINE q == [p EXCEPT !.free = free]
  <2>1. PageInsert(p, r, n) = Result(q, "InsufficientSpace", 0)
    BY <1>7 DEF PageInsert
  <2>2. q.slots = p.slots /\ q.free = free
    BY <1>1 DEF PageState
  <2> HIDE DEF q, free
  <2>3. Live(q) = Live(p) /\ \A s : RecIn(q, s) = RecIn(p, s)
    BY <2>2 DEF Live, RecIn
  <2>4. Compacted(q, 0) = Compacted(p, 0)
    BY <2>2, <2>3 DEF Compacted, Bodies
  <2>5. Roomy(q)
    BY <1>3, <2>2, <2>3, <2>4 DEF Roomy
  <2> QED
    BY <2>1, <2>3, <2>5 DEF Result
<1>8. CASE p.use = "heap" /\ ~ (free < 0) /\ ~ (free < need)
  <2> DEFINE q == [p EXCEPT !.free = free - need, !.slots = new]
  <2>1. PageInsert(p, r, n) = Result(q, "none", slot)
    BY <1>8 DEF PageInsert, new, end, slot, record
  <2>2. q.slots = new /\ q.free = free - need
    BY <1>1 DEF PageState
  <2>3. q \in PageState
    <3>1. PageTyped(Result(q, "none", slot).page)
      BY <2>1, InsertTyped
    <3> QED
      BY <3>1 DEF PageTyped, Result
  <2>4. /\ DOMAIN new = 1 .. end /\ new[slot] = record /\ record.rec = r /\ record.length = n
        /\ \A s \in 1 .. end : s # slot => new[s] = p.slots[s]
    BY <1>1, <1>4
  <2>5. \A s \in 1 .. end : s # slot => s \in 1 .. len
    BY <1>1, <1>4
  <2>6. Len(q.slots) = end /\ DOMAIN q.slots = 1 .. end
    <3>1. DOMAIN q.slots = 1 .. Len(q.slots) /\ Len(q.slots) \in Nat
      BY <2>3, LiveIs
    <3> HIDE DEF new, q
    <3> QED
      BY <1>1, <1>4, <2>2, <2>4, <3>1
  <2> HIDE DEF new, record, q
  <2>7. RecIn(p, slot) = NoRec
    BY <1>1, <1>4, LiveIs
  <2>8. ASSUME NEW s PROVE RecIn(q, s) = IF s = slot THEN r ELSE RecIn(p, s)
    <3>1. CASE s = slot
      BY <1>1, <1>4, <2>2, <2>4, <3>1 DEF RecIn
    <3>2. CASE s # slot
      <4>1. s \in 1 .. end <=> s \in 1 .. len
        BY <1>1, <1>4, <2>5, <3>2
      <4> QED
        BY <1>1, <2>2, <2>4, <3>2, <4>1 DEF RecIn
    <3> QED
      BY <3>1, <3>2
  <2>9. Live(q) = Live(p) \cup {slot}
    <3>1. \A s : s \in Live(q) <=> s \in Live(p) \/ s = slot
      BY <1>1, <1>2, <2>3, <2>8, LiveIs
    <3> QED
      BY <3>1
  <2>10. \A s \in Live(p) : q.slots[s] = p.slots[s]
    BY <1>1, <1>4, <2>2, <2>4
  <2>11. Cardinality(Bodies(q, Live(q))) = Cardinality(Bodies(p, Live(p))) + n
    <3>1. q.slots[slot].length = n /\ slot \in DOMAIN q.slots
      BY <1>1, <1>4, <2>2, <2>4
    <3>2. Live(p) \in SUBSET DOMAIN q.slots
      BY <2>3, <2>9, LiveIs
    <3>3. Cardinality(Bodies(q, Live(p) \cup {slot})) = Cardinality(Bodies(q, Live(p))) + n
      BY <1>2, <1>4, <2>3, <3>1, <3>2, BodyTakes
    <3>4. Bodies(q, Live(p)) = Bodies(p, Live(p))
      BY <2>10, BodiesSame
    <3> QED
      BY <2>9, <3>3, <3>4
  <2>12. Compacted(q, 0) = Compacted(p, 0) - need
    <3>1. Cardinality(Bodies(p, Live(p))) \in Nat
      BY <1>1, BodiesAreFinite, LiveIs
    <3>2. /\ Compacted(p, 0) = Capacity - len - Cardinality(Bodies(p, Live(p)))
          /\ Compacted(q, 0) = Capacity - end - Cardinality(Bodies(q, Live(q)))
      <4>1. 1 * len = len /\ 1 * end = end
        BY <1>1, <1>4
      <4>2. Live(p) \ {0} = Live(p) /\ Live(q) \ {0} = Live(q)
        BY <1>1, <2>3, LiveIs
      <4> QED
        BY <2>6, <4>1, <4>2 DEF Compacted, SlotSize
    <3>3. end = IF reuses = {} THEN len + 1 ELSE len
      BY <1>4
    <3>4. need = IF reuses = {} THEN n + 1 ELSE n
      BY <1>2 DEF SlotSize
    <3> HIDE DEF need, reuses
    <3> QED
      BY <1>1, <1>2, <2>11, <3>1, <3>2, <3>3, <3>4
  <2>13. need \in Int
    BY <1>2 DEF SlotSize
  <2>14. Roomy(q)
    <3>1. \A s \in Live(q) : q.slots[s].length \in {Min(Length), Max(Length)}
      BY <1>1, <1>4, <2>2, <2>4, <2>9, <2>10 DEF Roomy
    <3> HIDE DEF need, free
    <3>2. q.free <= Compacted(q, 0) + Min(Length)
      BY <1>2, <1>3, <2>2, <2>12, <2>13
    <3> QED
      BY <3>1, <3>2 DEF Roomy
  <2> QED
    BY <2>1, <2>7, <2>8, <2>14 DEF Result
<1> QED
  BY <1>5, <1>6, <1>7, <1>8

(* A record that is there can be deleted, and no other goes with it.       *)
LEMMA DeleteRecords ==
  ASSUME TableHeapConstants, NEW p, PageTyped(p), Roomy(p), NEW s
  PROVE  LET result == PageDelete(p, s)
         IN  /\ Roomy(result.page)
             /\ RecIn(p, s) # NoRec =>
                  /\ result.error = "none"
                  /\ \A i : RecIn(result.page, i) = IF i = s THEN NoRec ELSE RecIn(p, i)
             /\ RecIn(p, s) = NoRec => result.page = p
<1> DEFINE free == Compacted(p, s)
           gone == [rec |-> NoRec, length |-> 0]
           kept == [p.slots EXCEPT ![s] = gone]
           q == [p EXCEPT !.free = free, !.slots = kept]
<1>1. /\ p \in PageState /\ Len(p.slots) \in Nat /\ DOMAIN p.slots = 1 .. Len(p.slots)
      /\ p.slots \in Seq(Slot) /\ p.free \in Nat /\ Live(p) \subseteq 1 .. Len(p.slots)
  BY LiveIs DEF PageTyped, PageState
<1>2. CASE s \notin Live(p)
  <2>1. RecIn(p, s) = NoRec
    BY <1>1, <1>2, LiveIs
  <2> QED
    BY <1>2, <2>1 DEF PageDelete, Result
<1>3. CASE s \in Live(p)
  <2>1. /\ Compacted(p, 0) \in Int /\ p.slots[s].length \in {Min(Length), Max(Length)}
        /\ p.free <= Compacted(p, 0) + Min(Length)
        /\ free = Compacted(p, 0) + p.slots[s].length
        /\ Min(Length) \in Nat /\ Max(Length) \in Nat /\ Min(Length) <= Max(Length)
    BY <1>1, <1>3, CompactedWithout, LengthsAre DEF Roomy
  <2>2. ~ (free < 0) /\ free \in Int
    <3> HIDE DEF free
    <3> DEFINE len == p.slots[s].length
    <3>1. len \in {Min(Length), Max(Length)} /\ free = Compacted(p, 0) + len
      BY <2>1
    <3> HIDE DEF len
    <3>2. len \in Nat /\ Min(Length) <= len
      BY <2>1, <3>1
    <3> DEFINE all == Compacted(p, 0)
               least == Min(Length)
               room == p.free
    <3>3. /\ all \in Int /\ least \in Nat /\ room \in Nat /\ room <= all + least
          /\ len \in Nat /\ least <= len /\ free = all + len
      BY <1>1, <2>1, <3>1, <3>2
    <3> HIDE DEF all, least, room
    <3> QED
      BY <3>3
  <2>3. PageDelete(p, s) = Result(q, "none", s)
    BY <1>3, <2>2 DEF PageDelete
  <2>4. q \in PageState
    <3>1. PageTyped(Result(q, "none", s).page)
      BY <2>3, DeleteTyped
    <3> QED
      BY <3>1 DEF PageTyped, Result
  <2>5. q.slots = kept /\ q.free = free
    BY <1>1 DEF PageState
  <2>6. /\ DOMAIN kept = 1 .. Len(p.slots) /\ Len(kept) = Len(p.slots) /\ kept[s].rec = NoRec
        /\ \A i \in 1 .. Len(p.slots) : i # s => kept[i] = p.slots[i]
    BY <1>1, <1>3
  <2> HIDE DEF kept, q, gone
  <2>7. ASSUME NEW i PROVE RecIn(q, i) = IF i = s THEN NoRec ELSE RecIn(p, i)
    BY <1>1, <1>3, <2>5, <2>6 DEF RecIn
  <2>8. Live(q) = Live(p) \ {s}
    <3>1. \A i : i \in Live(q) <=> i \in Live(p) /\ i # s
      BY <1>1, <2>4, <2>7, LiveIs
    <3> QED
      BY <3>1
  <2>9. \A i \in Live(q) : q.slots[i] = p.slots[i]
    BY <1>1, <2>5, <2>6, <2>8
  <2>10. Compacted(q, 0) = free
    <3>1. Bodies(q, Live(q)) = Bodies(p, Live(q))
      BY <2>9, BodiesSame
    <3>2. Live(q) \ {0} = Live(q)
      BY <2>4, LiveIs
    <3> QED
      BY <2>5, <2>6, <2>8, <3>1, <3>2 DEF Compacted
  <2>11. Roomy(q)
    <3>1. \A i \in Live(q) : q.slots[i].length \in {Min(Length), Max(Length)}
      BY <2>8, <2>9 DEF Roomy
    <3> HIDE DEF free
    <3>2. q.free <= Compacted(q, 0) + Min(Length)
      BY <2>1, <2>2, <2>5, <2>10
    <3> QED
      BY <3>1, <3>2 DEF Roomy
  <2>12. RecIn(p, s) # NoRec
    BY <1>1, <1>3, LiveIs
  <2> QED
    BY <2>3, <2>7, <2>11, <2>12 DEF Result
<1> QED
  BY <1>2, <1>3

(* An update leaves each record where it is.                               *)
LEMMA UpdateRecords ==
  ASSUME TableHeapConstants, NEW p, PageTyped(p), Roomy(p), NEW s,
         NEW n, n = Max(Length)
  PROVE  LET result == PageUpdate(p, s, n)
         IN  Roomy(result.page) /\ \A i : RecIn(result.page, i) = RecIn(p, i)
<1> DEFINE free == IF p.free < n THEN Compacted(p, s) ELSE p.free
           len == p.slots[s].length
           changed == [p.slots EXCEPT ![s].length = n]
<1>1. /\ p \in PageState /\ Len(p.slots) \in Nat /\ DOMAIN p.slots = 1 .. Len(p.slots)
      /\ p.slots \in Seq(Slot) /\ p.free \in Nat /\ Live(p) \subseteq 1 .. Len(p.slots)
  BY LiveIs DEF PageTyped, PageState
<1>2. CASE s \notin Live(p)
  BY <1>2 DEF PageUpdate, Result
<1>3. ASSUME s \in Live(p)
      PROVE  Roomy(PageUpdate(p, s, n).page)
             /\ \A i : RecIn(PageUpdate(p, s, n).page, i) = RecIn(p, i)
  <2>1. /\ Compacted(p, 0) \in Int /\ len \in {Min(Length), n}
        /\ p.free <= Compacted(p, 0) + Min(Length)
        /\ Compacted(p, s) = Compacted(p, 0) + len
        /\ Min(Length) \in Nat /\ n \in Nat /\ Min(Length) <= n /\ n \in 0 .. Capacity
    BY <1>1, <1>3, CompactedWithout, LengthsAre DEF Roomy
  <2>2. n <= len <=> len = n
    <3> HIDE DEF len
    <3> QED
      BY <2>1
  <2>3. free \in Int
    <3> HIDE DEF len
    <3> QED
      BY <1>1, <2>1
  <2>4. CASE n <= len
    <3>1. p.slots[s] \in Slot
      BY <1>1, <1>3
    <3>2. [p.slots[s] EXCEPT !.length = n] = p.slots[s]
      BY <2>2, <2>4, <3>1 DEF Slot
    <3>3. changed = p.slots
      <4>1. changed = [p.slots EXCEPT ![s] = [p.slots[s] EXCEPT !.length = n]]
        OBVIOUS
      <4>2. changed = [p.slots EXCEPT ![s] = p.slots[s]]
        BY <3>2, <4>1
      <4>3. p.slots \in [1 .. Len(p.slots) -> Slot]
        BY <1>1
      <4> HIDE DEF changed
      <4> QED
        BY <4>2, <4>3
    <3>4. [p EXCEPT !.slots = changed] = p
      BY <1>1, <3>3 DEF PageState
    <3>5. [p EXCEPT !.slots[s].length = n] = [p EXCEPT !.slots = changed]
      OBVIOUS
    <3>6. PageUpdate(p, s, n) = Result(p, "none", s)
      BY <1>3, <2>4, <3>4, <3>5 DEF PageUpdate
    <3> QED
      BY <3>6 DEF Result
  <2>5. CASE ~ (n <= len) /\ free < 0
    BY <1>3, <2>5 DEF PageUpdate, Result
  <2>6. CASE ~ (n <= len) /\ ~ (free < 0) /\ free < n
    <3> DEFINE q == [p EXCEPT !.free = free]
    <3>1. PageUpdate(p, s, n) = Result(q, "InsufficientSpace", s)
      BY <1>3, <2>6 DEF PageUpdate
    <3>2. q.slots = p.slots /\ q.free = free
      BY <1>1 DEF PageState
    <3>3. free <= Compacted(p, 0) + Min(Length)
      <4> HIDE DEF len
      <4> QED
        BY <1>1, <2>1, <2>2, <2>6
    <3> HIDE DEF q, free
    <3>4. Live(q) = Live(p) /\ \A i : RecIn(q, i) = RecIn(p, i)
      BY <3>2 DEF Live, RecIn
    <3>5. Compacted(q, 0) = Compacted(p, 0)
      BY <3>2, <3>4 DEF Compacted, Bodies
    <3>6. Roomy(q)
      BY <3>2, <3>3, <3>4, <3>5 DEF Roomy
    <3> QED
      BY <3>1, <3>4, <3>6 DEF Result
  <2>7. CASE ~ (n <= len) /\ ~ (free < 0) /\ ~ (free < n)
    <3> DEFINE q == [p EXCEPT !.free = free - n, !.slots = changed]
    <3>1. PageUpdate(p, s, n) = Result(q, "none", s)
      BY <1>3, <2>7 DEF PageUpdate, changed
    <3>2. q \in PageState
      <4>1. n \in Length
        BY SlotsAre
      <4>2. PageTyped(Result(q, "none", s).page)
        BY <3>1, <4>1, UpdateTyped
      <4> QED
        BY <4>2 DEF PageTyped, Result
    <3>3. q.slots = changed /\ q.free = free - n
      BY <1>1 DEF PageState
    <3>4. /\ DOMAIN changed = 1 .. Len(p.slots) /\ Len(changed) = Len(p.slots)
          /\ changed[s].length = n /\ changed[s].rec = p.slots[s].rec
          /\ \A i \in 1 .. Len(p.slots) : i # s => changed[i] = p.slots[i]
      <4>1. p.slots[s] \in Slot
        BY <1>1, <1>3
      <4>2. [p.slots[s] EXCEPT !.length = n].length = n
            /\ [p.slots[s] EXCEPT !.length = n].rec = p.slots[s].rec
        BY <4>1 DEF Slot
      <4> DEFINE body == [p.slots[s] EXCEPT !.length = n]
      <4>3. changed = [p.slots EXCEPT ![s] = body]
        OBVIOUS
      <4> HIDE DEF body, changed
      <4>4. changed[s] = body
        BY <1>1, <1>3, <4>3
      <4>5. DOMAIN changed = 1 .. Len(p.slots)
            /\ \A i \in 1 .. Len(p.slots) : i # s => changed[i] = p.slots[i]
        BY <1>1, <1>3, <4>3
      <4>6. p.slots \in [1 .. Len(p.slots) -> Slot]
        BY <1>1
      <4>7. Len(changed) = Len(p.slots)
        BY <1>1, <4>3
      <4> QED
        BY <4>2, <4>4, <4>5, <4>7 DEF body
    <3> HIDE DEF changed, q
    <3>5. \A i : RecIn(q, i) = RecIn(p, i)
      BY <1>1, <1>3, <3>3, <3>4 DEF RecIn
    <3>6. Live(q) = Live(p)
      <4>1. \A i : i \in Live(q) <=> i \in Live(p)
        BY <1>1, <3>2, <3>5, LiveIs
      <4> QED
        BY <4>1
    <3>7. Compacted(q, 0) = Compacted(p, s) - n
      <4> DEFINE rest == Live(p) \ {s}
      <4>1. /\ s \in DOMAIN q.slots /\ rest \in SUBSET DOMAIN q.slots /\ s \notin rest
            /\ Live(p) = rest \cup {s} /\ rest \in SUBSET DOMAIN p.slots
        BY <1>1, <1>3, <3>3, <3>4
      <4>2. q.slots[s].length = n
        BY <3>3, <3>4
      <4>3. \A i \in rest : q.slots[i].length = p.slots[i].length
        BY <1>1, <3>3, <3>4
      <4>4. Live(p) \ {s, 0} = rest /\ Live(q) \ {0} = rest \cup {s}
        BY <1>1, <3>2, <3>6, <4>1, LiveIs
      <4> HIDE DEF rest
      <4>5. Cardinality(Bodies(q, rest \cup {s})) = Cardinality(Bodies(q, rest)) + n
        BY <2>1, <3>2, <4>1, <4>2, BodyTakes
      <4>6. Bodies(q, rest) = Bodies(p, rest) /\ Cardinality(Bodies(p, rest)) \in Nat
        BY <1>1, <4>1, <4>3, BodiesSame, BodiesAreFinite
      <4>7. Compacted(p, s) = Capacity - Len(p.slots) - Cardinality(Bodies(p, rest))
        <5>1. 1 * Len(p.slots) = Len(p.slots)
          BY <1>1
        <5> QED
          BY <5>1 DEF Compacted, SlotSize, rest
      <4>8. Compacted(q, 0) = Capacity - Len(p.slots) - Cardinality(Bodies(q, rest \cup {s}))
        <5>1. 1 * Len(p.slots) = Len(p.slots)
          BY <1>1
        <5> QED
          BY <3>3, <3>4, <4>4, <5>1 DEF Compacted, SlotSize
      <4> QED
        BY <1>1, <2>1, <4>5, <4>6, <4>7, <4>8, LengthsAre
    <3>8. Roomy(q)
      <4>1. \A i \in Live(q) : q.slots[i].length \in {Min(Length), Max(Length)}
        BY <1>1, <1>3, <3>3, <3>4, <3>6 DEF Roomy
      <4>2. free - n <= (Compacted(p, s) - n) + Min(Length)
        <5> HIDE DEF len
        <5> QED
          BY <1>1, <2>1
      <4> QED
        BY <3>3, <3>7, <4>1, <4>2 DEF Roomy
    <3> QED
      BY <3>1, <3>5, <3>8 DEF Result
  <2> QED
    BY <2>4, <2>5, <2>6, <2>7
<1> QED
  BY <1>2, <1>3

LEMMA NewRecords ==
  ASSUME TableHeapConstants
  PROVE  /\ Roomy(InitForNewPage) /\ Roomy(Freed) /\ Roomy(Fresh)
         /\ \A s : /\ RecIn(InitForNewPage, s) = NoRec
                   /\ RecIn(Freed, s) = NoRec /\ RecIn(Fresh, s) = NoRec
<1>1. ASSUME NEW p \in PageState, p.slots = <<>>, p.free <= Capacity
      PROVE  Roomy(p) /\ \A s : RecIn(p, s) = NoRec
  <2>1. \A s : RecIn(p, s) = NoRec
    BY <1>1 DEF RecIn
  <2>2. Live(p) = {}
    BY <2>1, LiveIs
  <2>3. Bodies(p, {}) = {} /\ Live(p) \ {0} = {}
    BY <2>2 DEF Bodies
  <2>4. Compacted(p, 0) = Capacity
    <3>1. Len(p.slots) = 0 /\ Capacity \in Nat
      BY <1>1, SlotsAre
    <3>2. Cardinality(Bodies(p, {})) = 0
      BY <2>3, FS_EmptySet
    <3>3. Compacted(p, 0) = Capacity - 1 * Len(p.slots) - Cardinality(Bodies(p, {}))
      BY <2>3 DEF Compacted, SlotSize
    <3> QED
      BY <3>1, <3>2, <3>3
  <2> QED
    BY <1>1, <2>1, <2>2, <2>4, LengthsAre DEF Roomy, PageState
<1>2. /\ InitForNewPage \in PageState /\ Freed \in PageState /\ Fresh \in PageState
  BY NewStates DEF PageTyped
<1>3. /\ InitForNewPage.slots = <<>> /\ Freed.slots = <<>> /\ Fresh.slots = <<>>
      /\ InitForNewPage.free <= Capacity /\ Freed.free <= Capacity /\ Fresh.free <= Capacity
  BY SlotsAre DEF InitForNewPage, Freed, Fresh
<1> QED
  BY <1>1, <1>2, <1>3

-------------------------------------------------------------------------------
(* Where records are.                                                      *)

(* A record is where an id says. *)
Stands(m, C, i, r) ==
  i.heap \in Heap /\ i.page \in C[i.heap] /\ RecIn(m[i.page], i.slot) = r
Seen(m, C, r) == \E i \in Rids : Stands(m, C, i, r)

(* The places a call has its record at, and those a record is to be at:    *)
(* where its call has it, or else where its client was told.               *)
Keeps(k) ==
  {k.old, k.new} \ {NoRid, IF k.pc \in {"reclaim", "drop"} THEN Deletes(k) ELSE NoRid}
Held(k, x, r) ==
  IF k[Owner[r]].rec = r THEN Keeps(k[Owner[r]]) ELSE {x[r]} \ {NoRid}

(* Records are where they are to be, and, as long as no more than one call *)
(* of the pool has failed, nowhere else.                                   *)
Whole == faults + 1 >= MaxFaults
Standing(m, C, k, x, w) ==
  \A r \in Rec : \A i \in Rids : /\ i \in Held(k, x, r) => Stands(m, C, i, r)
                                 /\ w /\ Stands(m, C, i, r) => i \in Held(k, x, r)

(* A call works for the owner of its record, and knows where it was. *)
Knows(k, x, t) ==
  /\ k.pc = "idle" => k = Idle
  /\ k.pc # "idle" => Owner[k.rec] = t
  /\ k.op = "insert" => k.old = NoRid /\ x[k.rec] = NoRid
  /\ k.op \in {"delete", "move", "undo"} => k.old = x[k.rec] /\ k.old.heap = k.heap
  /\ k.op = "delete" \/ k.pc \notin {"mark", "reclaim", "drop"} => k.new = NoRid
  /\ k.op \in {"move", "undo"} /\ k.pc \in {"mark", "reclaim", "drop"} =>
       k.new.heap = k.heap /\ k.new # k.old
  /\ k.pc \in {"find", "allocate", "link", "put", "putnew"} =>
       k.size \in {Min(Length), Max(Length)}

(* Without a log, one call is under way at a time; with one, no page is    *)
(* taken out of its chain.                                                 *)
Apart(w, k) ==
  /\ ~ w => \A t, u \in Thread : k[t].pc # "idle" /\ k[u].pc # "idle" => t = u
  /\ w => \A t \in Thread : k[t].pc \notin {"reclaim", "drop"}

(* The free-space map of a table knows pages of its chain, and the one a   *)
(* call is about to delete; an insertion goes to a page of its chain.      *)
InPlace(x, k, C) ==
  /\ \A h \in Heap : \A p \in x[h] :
       \/ p \in C[h]
       \/ \E t \in Thread : k[t].pc = "drop" /\ k[t].heap = h /\ p \in Hand(k[t])
  /\ \A t \in Thread : k[t].pc \in {"put", "putnew"} => k[t].at \in C[k[t].heap]

(* Nothing is in a page that is in somebody's hands. *)
Blank(p) == \A s : RecIn(p, s) = NoRec
EmptyHands(m, k) == \A t \in Thread : \A p \in Hand(k[t]) : Blank(m[p])

Recorded(C) ==
  /\ \A t \in Thread : Knows(task[t], rids, t)
  /\ \A t \in Thread : task[t].op = "undo" => faults < MaxFaults
  /\ Apart(wal, task) /\ InPlace(free_space_map, task, C) /\ EmptyHands(pages, task)
  /\ \A p \in Page : Roomy(pages[p])
  /\ Standing(pages, C, task, rids, Whole)

(* What a step may do to the records that can be seen, and to places. *)
ComesAndGoes(C, D) ==
  \A r \in Rec :
    /\ Seen(pages', D, r) /\ ~ Seen(pages, C, r) => r \in Working("insert")
    /\ Seen(pages, C, r) /\ ~ Seen(pages', D, r) => r \in Working("delete")
    /\ \A i \in Rids : Stands(pages, C, i, r) /\ ~ Stands(pages', D, i, r) =>
         \E t \in Thread : task[t].pc = "mark" /\ i = Deletes(task[t])

(* What is linked from a page on is determined. *)
LEMMA LinkedOnce ==
  ASSUME TableHeapConstants, NEW m, NEW f, NEW S, NEW T, Linked(m, f, S), Linked(m, f, T)
  PROVE  S = T
<1>1. PICK n \in Nat : \E c : IsPath(m, f, n, c) /\ S = {c[k] : k \in 0 .. n - 1}
  BY DEF Linked
<1>2. PICK c : IsPath(m, f, n, c) /\ S = {c[k] : k \in 0 .. n - 1}
  BY <1>1
<1>3. PICK l \in Nat : \E e : IsPath(m, f, l, e) /\ T = {e[k] : k \in 0 .. l - 1}
  BY DEF Linked
<1>4. PICK e : IsPath(m, f, l, e) /\ T = {e[k] : k \in 0 .. l - 1}
  BY <1>3
<1> DEFINE A == {k \in Nat : k <= n /\ k <= l => c[k] = e[k]}
<1>5. 0 \in A
  BY <1>2, <1>4 DEF IsPath
<1>6. ASSUME NEW k \in Nat, k \in A PROVE k + 1 \in A
  <2> SUFFICES ASSUME k + 1 <= n, k + 1 <= l PROVE c[k + 1] = e[k + 1]
    OBVIOUS
  <2>1. k \in 0 .. n - 1 /\ k \in 0 .. l - 1 /\ k <= n /\ k <= l
    OBVIOUS
  <2>2. c[k] = e[k]
    BY <1>6, <2>1
  <2>3. m[c[k]].next = c[k + 1] /\ m[e[k]].next = e[k + 1]
    BY <1>2, <1>4, <2>1 DEF IsPath
  <2> QED
    BY <2>2, <2>3
<1>7. Nat \subseteq A
  <2>1. \A k \in Nat : k \in A => k + 1 \in A
    BY <1>6
  <2> HIDE DEF A
  <2> QED
    BY <1>5, <2>1, AllNumbers
<1>8. \A k \in Nat : k <= n /\ k <= l => c[k] = e[k]
  BY <1>7
<1>9. ~ (n < l)
  <2> SUFFICES ASSUME n < l PROVE FALSE
    OBVIOUS
  <2>1. c[n] = e[n] /\ n \in 0 .. l - 1
    BY <1>8
  <2> QED
    BY <1>2, <1>4, <2>1, PagesAre DEF IsPath
<1>10. ~ (l < n)
  <2> SUFFICES ASSUME l < n PROVE FALSE
    OBVIOUS
  <2>1. c[l] = e[l] /\ l \in 0 .. n - 1
    BY <1>8
  <2> QED
    BY <1>2, <1>4, <2>1, PagesAre DEF IsPath
<1>11. n = l
  BY <1>9, <1>10
<1>12. \A k \in 0 .. n - 1 : c[k] = e[k]
  BY <1>8, <1>11
<1> QED
  BY <1>2, <1>4, <1>11, <1>12

(* The pages of the other chains stay, and a page in nobody's hands stays  *)
(* where it is.                                                            *)
LEMMA ChainsMove ==
  ASSUME TableHeapConstants, NEW C, Sound(C), NEW D, Sound(D)', NEW t \in Thread,
         NEW h \in Heap, \A u \in Thread \ {t} : task'[u] = task[u],
         \A g \in Heap \ {h} : first_page_id'[g] = first_page_id[g],
         \A g \in Heap \ {h} : \A q \in C[g] : pages'[q].next = pages[q].next
  PROVE  /\ \A g \in Heap \ {h} : D[g] = C[g]
         /\ \A q \in Page : /\ pages'[q].use = pages[q].use
                            /\ q \notin Hand(task[t]) /\ q \notin Hand(task'[t])
                            => (q \in D[h] <=> q \in C[h])
         /\ \A q \in Hand(task'[t]) : \A g \in Heap : q \notin D[g]
         /\ \A q \in Hand(task[t]) : \A g \in Heap : q \notin C[g]
         /\ \A q \in Hand(task[t]) : q \notin Hand(task'[t]) /\ pages'[q].use = "heap" => q \in D[h]
<1>1. Chained(pages, first_page_id, tail_page_id, task, C) /\ CallsTyped(task)
  BY DEF Sound, Typed
<1>2. Chained(pages', first_page_id', tail_page_id', task', D) /\ CallsTyped(task')
  BY DEF Sound, Typed
<1>3. \A g \in Heap \ {h} : D[g] = C[g]
  <2> SUFFICES ASSUME NEW g \in Heap \ {h} PROVE D[g] = C[g]
    OBVIOUS
  <2>1. Linked(pages, first_page_id[g], C[g])
    BY <1>1 DEF Chained
  <2>2. Linked(pages', first_page_id'[g], D[g])
    BY <1>2 DEF Chained
  <2>3. Linked(pages', first_page_id[g], C[g])
    BY <2>1, LinkedSame
  <2>4. Linked(pages', first_page_id'[g], C[g])
    BY <2>3
  <2> QED
    BY <2>2, <2>4, LinkedOnce
<1>4. /\ \A q \in Page : pages[q].use = "heap" <=>
           (\E g \in Heap : q \in C[g]) \/ (\E u \in Thread : q \in Hand(task[u]))
      /\ \A g, i \in Heap : \A q : q \in C[g] /\ q \in C[i] => g = i
      /\ \A u \in Thread, g \in Heap : \A q : ~ (q \in Hand(task[u]) /\ q \in C[g])
      /\ \A u, v \in Thread : \A q : q \in Hand(task[u]) /\ q \in Hand(task[v]) => u = v
  BY <1>1 DEF Chained
<1>5. /\ \A q \in Page : pages'[q].use = "heap" <=>
           (\E g \in Heap : q \in D[g]) \/ (\E u \in Thread : q \in Hand(task'[u]))
      /\ \A g, i \in Heap : \A q : q \in D[g] /\ q \in D[i] => g = i
      /\ \A u \in Thread, g \in Heap : \A q : ~ (q \in Hand(task'[u]) /\ q \in D[g])
  BY <1>2 DEF Chained
<1>6. \A u \in Thread : Hand(task[u]) \subseteq Page
  BY <1>1, ChainedPages
<1>7. \A u \in Thread \ {t} : Hand(task'[u]) = Hand(task[u])
  OBVIOUS
<1>8. ASSUME NEW q \in Page, pages'[q].use = pages[q].use,
             q \notin Hand(task[t]), q \notin Hand(task'[t])
      PROVE  q \in D[h] <=> q \in C[h]
  <2>1. \A u \in Thread : q \in Hand(task'[u]) <=> q \in Hand(task[u])
    BY <1>7, <1>8
  <2>2. q \in C[h] => q \in D[h]
    BY <1>3, <1>4, <1>5, <1>8, <2>1
  <2>3. q \in D[h] => q \in C[h]
    BY <1>3, <1>4, <1>5, <1>8, <2>1
  <2> QED
    BY <2>2, <2>3
<1>9. ASSUME NEW q \in Hand(task[t]), q \notin Hand(task'[t]), pages'[q].use = "heap"
      PROVE  q \in D[h]
  <2>1. \A u \in Thread : q \notin Hand(task'[u])
    BY <1>4, <1>7, <1>9
  <2> QED
    BY <1>3, <1>4, <1>5, <1>6, <1>9, <2>1
<1> QED
  BY <1>3, <1>4, <1>5, <1>8, <1>9

(* Nothing stands in hands, and what is elsewhere stays where it is. *)
LEMMA StandsStill ==
  ASSUME TableHeapConstants, NEW C, Sound(C), NEW D, Sound(D)', NEW t \in Thread,
         NEW h \in Heap, \A u \in Thread \ {t} : task'[u] = task[u],
         \A g \in Heap \ {h} : first_page_id'[g] = first_page_id[g],
         \A g \in Heap \ {h} : \A q \in C[g] : pages'[q].next = pages[q].next,
         \A q \in Page : q \notin Hand(task[t]) /\ q \notin Hand(task'[t]) =>
           pages'[q].use = pages[q].use /\ \A s : RecIn(pages'[q], s) = RecIn(pages[q], s),
         \A q \in Hand(task[t]) \cup Hand(task'[t]) : Blank(pages[q]) /\ Blank(pages'[q])
  PROVE  \A r \in Rec : \A i : Stands(pages', D, i, r) <=> Stands(pages, C, i, r)
<1>1. /\ \A g \in Heap \ {h} : D[g] = C[g]
      /\ \A q \in Page : q \notin Hand(task[t]) /\ q \notin Hand(task'[t]) =>
           (q \in D[h] <=> q \in C[h])
  BY ChainsMove
<1>2. /\ \A g \in Heap : C[g] \subseteq Page /\ D[g] \subseteq Page
      /\ NoRec \notin Rec
  BY ChainedPages DEF Sound, Typed, TableHeapConstants
<1>3. ASSUME NEW r \in Rec, NEW i PROVE Stands(pages', D, i, r) <=> Stands(pages, C, i, r)
  <2>1. CASE i.page \in Hand(task[t]) \cup Hand(task'[t])
    BY <1>2, <2>1 DEF Stands, Blank
  <2>2. CASE ~ (i.page \in Hand(task[t]) \cup Hand(task'[t]))
    <3>1. i.heap \in Heap => (i.page \in D[i.heap] <=> i.page \in C[i.heap])
      BY <1>1, <1>2, <2>2
    <3>2. i.page \in Page => RecIn(pages'[i.page], i.slot) = RecIn(pages[i.page], i.slot)
      BY <2>2
    <3> QED
      BY <1>2, <3>1, <3>2 DEF Stands
  <2> QED
    BY <2>1, <2>2
<1> QED
  BY <1>3

LEMMA StandingKept ==
  ASSUME NEW m, NEW C, NEW k, NEW x, NEW w, Standing(m, C, k, x, w),
         NEW n, NEW D, NEW j, NEW y, NEW v,
         \A r \in Rec : \A i : Stands(n, D, i, r) <=> Stands(m, C, i, r),
         \A r \in Rec : Held(j, y, r) = Held(k, x, r),
         v => w
  PROVE  Standing(n, D, j, y, v)
BY DEF Standing

LEMMA StillSeen ==
  ASSUME NEW C, NEW D,
         \A r \in Rec : \A i : Stands(pages', D, i, r) <=> Stands(pages, C, i, r)
  PROVE  ComesAndGoes(C, D)
BY DEF ComesAndGoes, Seen

(* What a step of one call has to keep. *)
LEMMA RecordedStep ==
  ASSUME TableHeapConstants, NEW C, Sound(C), Recorded(C), NEW D, Sound(D)',
         NEW t \in Thread, \A u \in Thread \ {t} : task'[u] = task[u],
         UNCHANGED wal, faults' <= faults,
         \A r \in Rec : Owner[r] # t => rids'[r] = rids[r],
         Knows(task'[t], rids', t), task'[t].op = "undo" => faults' < MaxFaults,
         ~ wal => task[t].pc # "idle" \/ \A u \in Thread : task[u].pc = "idle",
         wal => task'[t].pc \notin {"reclaim", "drop"},
         InPlace(free_space_map', task', D),
         \A p \in Hand(task'[t]) : Blank(pages'[p]),
         \A u \in Thread \ {t} : \A p \in Hand(task[u]) : Blank(pages[p]) => Blank(pages'[p]),
         \A p \in Page : Roomy(pages'[p]),
         Standing(pages', D, task', rids', Whole')
  PROVE  Recorded(D)'
<1>1. CallsTyped(task) /\ faults \in Int /\ faults' \in Int /\ MaxFaults \in Int
  BY DEF Sound, Typed, TableHeapConstants
<1>2. \A u \in Thread : Knows(task'[u], rids', u)
  <2> SUFFICES ASSUME NEW u \in Thread, u # t PROVE Knows(task'[u], rids', u)
    OBVIOUS
  <2>1. Knows(task[u], rids, u) /\ task'[u] = task[u]
    BY DEF Recorded
  <2>2. task[u].pc # "idle" => task[u].rec \in Rec /\ Owner[task[u].rec] = u
    BY <1>1, <2>1 DEF CallsTyped, CallTyped, Knows
  <2>3. task[u].pc # "idle" => rids'[task[u].rec] = rids[task[u].rec]
    BY <2>2
  <2>4. task[u].pc = "idle" => task[u].op = "none"
    BY <2>1 DEF Knows, Idle
  <2> QED
    BY <2>1, <2>3, <2>4 DEF Knows
<1>3. \A u \in Thread : task'[u].op = "undo" => faults' < MaxFaults
  <2> SUFFICES ASSUME NEW u \in Thread, u # t, task'[u].op = "undo" PROVE faults' < MaxFaults
    OBVIOUS
  <2>1. faults < MaxFaults
    BY DEF Recorded
  <2> QED
    BY <1>1, <2>1
<1>4. Apart(wal', task')
  BY DEF Recorded, Apart
<1>5. EmptyHands(pages', task')
  BY DEF Recorded, EmptyHands
<1> QED
  BY <1>2, <1>3, <1>4, <1>5 DEF Recorded

(* What a call holds its own record at, and no other. *)
LEMMA HeldElse ==
  ASSUME TableHeapConstants, CallsTyped(task), NEW t \in Thread,
         Knows(task[t], rids, t), Knows(task'[t], rids', t), CallsTyped(task'),
         \A u \in Thread \ {t} : task'[u] = task[u],
         NEW r \in Rec, rids'[r] = rids[r],
         task[t].pc = "idle" \/ task[t].rec # r, task'[t].pc = "idle" \/ task'[t].rec # r
  PROVE  Held(task', rids', r) = Held(task, rids, r)
<1>1. NoRec \notin Rec /\ Owner[r] \in Thread
  BY DEF TableHeapConstants
<1>2. task[t].rec # r /\ task'[t].rec # r
  BY <1>1 DEF Knows, Idle
<1> QED
  BY <1>1, <1>2 DEF Held

LEMMA HeldBy ==
  ASSUME TableHeapConstants, CallsTyped(task), NEW t \in Thread,
         Knows(task[t], rids, t), task[t].pc # "idle"
  PROVE  /\ task[t].rec \in Rec /\ Owner[task[t].rec] = t
         /\ Held(task, rids, task[t].rec) = Keeps(task[t])
BY DEF CallsTyped, CallTyped, Knows, Held

(* A call goes on with what it has. *)
LEMMA HeldSame ==
  ASSUME TableHeapConstants, CallsTyped(task), NEW t \in Thread,
         \A u \in Thread \ {t} : task'[u] = task[u], UNCHANGED rids,
         task'[t].rec = task[t].rec, Keeps(task'[t]) = Keeps(task[t])
  PROVE  \A r \in Rec : Held(task', rids', r) = Held(task, rids, r)
<1>1. \A r \in Rec : Owner[r] \in Thread
  BY DEF TableHeapConstants
<1> QED
  BY <1>1 DEF Held

(* A call that ends before it changes its record leaves it where it was. *)
LEMMA HeldReturn ==
  ASSUME TableHeapConstants, CallsTyped(task), NEW t \in Thread, Knows(task[t], rids, t),
         task[t].pc \in {"find", "allocate", "link", "put", "putnew"},
         Return(t), UNCHANGED rids
  PROVE  /\ \A r \in Rec : Held(task', rids', r) = Held(task, rids, r)
         /\ Knows(task'[t], rids', t) /\ task'[t] = Idle
<1>1. /\ CallsTyped(task') /\ task'[t] = Idle /\ \A u \in Thread \ {t} : task'[u] = task[u]
  BY IdleTyped, CallSet DEF Return
<1>2. Knows(task'[t], rids', t)
  BY <1>1 DEF Knows, Idle
<1>3. /\ task[t].rec \in Rec /\ Owner[task[t].rec] = t
      /\ Held(task, rids, task[t].rec) = Keeps(task[t])
  BY HeldBy
<1>4. Held(task', rids', task[t].rec) = Keeps(task[t])
  <2>1. NoRec \notin Rec
    BY DEF TableHeapConstants
  <2>2. Held(task', rids', task[t].rec) = {rids[task[t].rec]} \ {NoRid}
    BY <1>1, <1>3, <2>1 DEF Held, Idle
  <2>3. task[t].op \in {"insert", "move"}
    BY DEF CallsTyped, CallTyped
  <2>4. /\ task[t].new = NoRid
        /\ task[t].op = "insert" => task[t].old = NoRid /\ rids[task[t].rec] = NoRid
        /\ task[t].op = "move" => task[t].old = rids[task[t].rec]
    BY DEF Knows
  <2> QED
    BY <2>2, <2>3, <2>4 DEF Keeps
<1>5. ASSUME NEW r \in Rec, r # task[t].rec PROVE Held(task', rids', r) = Held(task, rids, r)
  <2>1. rids'[r] = rids[r] /\ task'[t].pc = "idle" /\ task[t].rec # r
    BY <1>1, <1>5 DEF Idle
  <2> QED
    BY <1>1, <1>2, <2>1, HeldElse
<1> QED
  BY <1>1, <1>2, <1>3, <1>4, <1>5

LEMMA ContinueIs ==
  ASSUME CallsTyped(task), NEW t \in Thread, NEW k, Continue(t, k)
  PROVE  task'[t] = k /\ \A u \in Thread \ {t} : task'[u] = task[u]
BY DEF CallsTyped, Continue

LEMMA WholeKept ==
  ASSUME TableHeapConstants, faults \in 0 .. MaxFaults, faults' \in 0 .. MaxFaults,
         faults' <= faults
  PROVE  Whole' => Whole
<1>1. MaxFaults \in Nat
  BY DEF TableHeapConstants
<1>2. faults \in Int /\ faults' \in Int /\ MaxFaults \in Int
  BY <1>1
<1>3. \A a, b, m \in Int : a <= b /\ a + 1 >= m => b + 1 >= m
  OBVIOUS
<1> QED
  BY <1>2, <1>3 DEF Whole

(* A step that neither moves a page nor a record. *)
LEMMA QuietRecords ==
  ASSUME TableHeapConstants, NEW C, Sound(C), Recorded(C), Sound(C)', NEW t \in Thread,
         \A u \in Thread \ {t} : task'[u] = task[u], Quiet(task[t]), Quiet(task'[t]),
         UNCHANGED wal, faults' <= faults,
         \A r \in Rec : Owner[r] # t => rids'[r] = rids[r],
         Knows(task'[t], rids', t), task'[t].op = "undo" => faults' < MaxFaults,
         ~ wal => task[t].pc # "idle" \/ \A u \in Thread : task[u].pc = "idle",
         wal => task'[t].pc # "reclaim",
         \A h \in Heap : \A p \in free_space_map'[h] : p \in free_space_map[h] \/ p \in C[h],
         task'[t].pc \in {"put", "putnew"} => task'[t].at \in C[task'[t].heap],
         \A p \in Page : Roomy(pages'[p]) /\ \A s : RecIn(pages'[p], s) = RecIn(pages[p], s),
         \A r \in Rec : Held(task', rids', r) = Held(task, rids, r)
  PROVE  Recorded(C)' /\ ComesAndGoes(C, C)
<1>1. \A g \in Heap : C[g] \subseteq Page
  BY ChainedPages DEF Sound, Typed
<1>2. \A r \in Rec : \A i : Stands(pages', C, i, r) <=> Stands(pages, C, i, r)
  BY <1>1 DEF Stands
<1>3. Whole' => Whole
  BY WholeKept DEF Sound, Typed
<1>4. Standing(pages, C, task, rids, Whole)
  BY DEF Recorded
<1>5. Standing(pages', C, task', rids', Whole')
  BY <1>2, <1>3, <1>4, StandingKept
<1>6. InPlace(free_space_map', task', C)
  <2>1. InPlace(free_space_map, task, C)
    BY DEF Recorded
  <2>2. \A u \in Thread : task[u].pc = "drop" => task'[u] = task[u]
    BY DEF Quiet
  <2> QED
    BY <2>1, <2>2 DEF InPlace
<1>7. \A u \in Thread : Hand(task[u]) \subseteq Page
  BY ChainedPages DEF Sound, Typed
<1>8. Hand(task'[t]) = {}
  BY DEF Hand, Quiet
<1>9. \A u \in Thread \ {t} : \A p \in Hand(task[u]) : Blank(pages[p]) => Blank(pages'[p])
  BY <1>7 DEF Blank
<1>10. task'[t].pc # "drop"
  BY DEF Quiet
<1>11. Recorded(C)'
  BY <1>5, <1>6, <1>8, <1>9, <1>10, RecordedStep
<1>12. ComesAndGoes(C, C)
  BY <1>2, StillSeen
<1> QED
  BY <1>11, <1>12

LEMMA AllIdle ==
  ASSUME Careful, NEW t \in Thread, At(t, "idle"), Alone
  PROVE  ~ wal => \A u \in Thread : task[u].pc = "idle"
BY DEF Alone, At

LEMMA RoomyPages ==
  ASSUME NEW C, Recorded(C)
  PROVE  /\ \A p \in Page : Roomy(pages[p])
         /\ \A t \in Thread : Knows(task[t], rids, t)
         /\ \A t \in Thread : task[t].op = "undo" => faults < MaxFaults
BY DEF Recorded

LEMMA CallInsertRecords ==
  ASSUME TableHeapConstants, Careful, NEW C, Sound(C), Recorded(C), NEW t \in Thread,
         NEW h \in Heap, NEW r \in Rec, Owner[r] = t, CallInsert(t, h, r, Min(Length))
  PROVE  Sound(C)' /\ Recorded(C)' /\ ComesAndGoes(C, C)
<1> DEFINE k == [Idle EXCEPT !.pc = "find", !.op = "insert", !.heap = h, !.rec = r,
                             !.size = Min(Length)]
<1>1. /\ Continue(t, k) /\ task[t].pc = "idle" /\ rids[r] = NoRid
      /\ UNCHANGED <<wal, pages, heapvars, rids, scan, faults>>
      /\ ~ wal => \A u \in Thread : task[u].pc = "idle"
  BY AllIdle DEF CallInsert, At
<1>2. Sound(C)'
  BY SlotsAre, CallInsertKeeps
<1>3. /\ k.pc = "find" /\ k.op = "insert" /\ k.rec = r /\ k.size = Min(Length)
      /\ k.old = NoRid /\ k.new = NoRid
  BY DEF Idle
<1> HIDE DEF k
<1>4. CallsTyped(task) /\ CallsTyped(task')
  BY <1>2 DEF Sound, Typed
<1>5. task'[t] = k /\ \A u \in Thread \ {t} : task'[u] = task[u]
  BY <1>1, <1>4, ContinueIs
<1>6. Knows(task[t], rids, t) /\ Knows(task'[t], rids', t)
  BY <1>1, <1>3, <1>5, RoomyPages DEF Knows
<1>7. \A x \in Rec : Held(task', rids', x) = Held(task, rids, x)
  <2>1. Held(task', rids', r) = Held(task, rids, r)
    <3>1. task[t].rec # r
      BY <1>1, <1>6 DEF Knows, Idle, TableHeapConstants
    <3> QED
      BY <1>1, <1>3, <1>5, <3>1 DEF Held, Keeps
  <2>2. ASSUME NEW x \in Rec, x # r PROVE Held(task', rids', x) = Held(task, rids, x)
    <3>1. rids'[x] = rids[x] /\ task'[t].rec # x
      BY <1>1, <1>3, <1>5, <2>2
    <3> QED
      BY <1>1, <1>4, <1>5, <1>6, <3>1, HeldElse
  <2> QED
    BY <2>1, <2>2
<1>8. /\ Quiet(task[t]) /\ Quiet(task'[t])
      /\ task'[t].pc \notin {"put", "putnew", "reclaim"} /\ task'[t].op # "undo"
  BY <1>1, <1>3, <1>5 DEF Quiet
<1>9. /\ UNCHANGED wal /\ faults' <= faults /\ rids' = rids /\ free_space_map' = free_space_map
      /\ pages' = pages
  BY <1>1 DEF heapvars, Sound, Typed
<1>10. Recorded(C)' /\ ComesAndGoes(C, C)
  BY <1>1, <1>2, <1>5, <1>6, <1>7, <1>8, <1>9, RoomyPages, QuietRecords
<1> QED
  BY <1>2, <1>10

(* A record a client may change is where the client was told. *)
LEMMA ChangedIs ==
  ASSUME TableHeapConstants, NEW C, Sound(C), Recorded(C), NEW r \in Rec, MayChange(r)
  PROVE  /\ rids[r] \in Rids /\ rids[r] # NoRid
         /\ rids[r].heap \in Heap /\ rids[r].page \in Page
         /\ Held(task, rids, r) = {rids[r]}
         /\ Stands(pages, C, rids[r], r)
<1>1. rids[r] # NoRid /\ \A u \in Thread : task[u].rec # r
  BY DEF MayChange, Free
<1>2. rids[r] \in Rids /\ rids[r].heap \in Heap /\ rids[r].page \in Page
  BY <1>1 DEF Sound, Typed, RidsTyped, RidTyped
<1>3. Owner[r] \in Thread
  BY DEF TableHeapConstants
<1>4. Held(task, rids, r) = {rids[r]}
  BY <1>1, <1>3 DEF Held
<1>5. Stands(pages, C, rids[r], r)
  BY <1>2, <1>4 DEF Recorded, Standing
<1> QED
  BY <1>1, <1>2, <1>4, <1>5

(* A call begins to change a record. *)
LEMMA ChangeHolds ==
  ASSUME TableHeapConstants, NEW C, Sound(C), Recorded(C), CallsTyped(task'),
         NEW t \in Thread, NEW r \in Rec, Owner[r] = t, MayChange(r),
         task[t].pc = "idle", \A u \in Thread \ {t} : task'[u] = task[u], UNCHANGED rids,
         Knows(task'[t], rids', t), task'[t].rec = r, task'[t].old = rids[r],
         task'[t].pc \notin {"reclaim", "drop", "idle"}, task'[t].new = NoRid
  PROVE  \A x \in Rec : Held(task', rids', x) = Held(task, rids, x)
<1>1. CallsTyped(task) /\ Knows(task[t], rids, t)
  BY RoomyPages DEF Sound, Typed
<1>2. Held(task, rids, r) = {rids[r]} /\ rids[r] # NoRid
  BY ChangedIs
<1>3. Held(task', rids', r) = {rids[r]}
  BY <1>2 DEF Held, Keeps
<1>4. ASSUME NEW x \in Rec, x # r PROVE Held(task', rids', x) = Held(task, rids, x)
  <2>1. rids'[x] = rids[x] /\ task'[t].rec # x
    BY <1>4
  <2> QED
    BY <1>1, <2>1, HeldElse
<1> QED
  BY <1>2, <1>3, <1>4

LEMMA CallDeleteRecords ==
  ASSUME TableHeapConstants, Careful, NEW C, Sound(C), Recorded(C), NEW t \in Thread,
         NEW r \in Rec, Owner[r] = t, CallDelete(t, r)
  PROVE  Sound(C)' /\ Recorded(C)' /\ ComesAndGoes(C, C)
<1> DEFINE k == [Idle EXCEPT !.pc = "mark", !.op = "delete", !.rec = r,
                             !.heap = rids[r].heap, !.old = rids[r]]
<1>1. /\ Continue(t, k) /\ task[t].pc = "idle" /\ MayChange(r)
      /\ UNCHANGED <<wal, pages, heapvars, rids, faults>>
      /\ ~ wal => \A u \in Thread : task[u].pc = "idle"
  BY AllIdle DEF CallDelete, At, MayChange
<1>2. Sound(C)'
  BY CallDeleteKeeps
<1>3. /\ k.pc = "mark" /\ k.op = "delete" /\ k.rec = r /\ k.heap = rids[r].heap
      /\ k.old = rids[r] /\ k.new = NoRid
  BY DEF Idle
<1> HIDE DEF k
<1>4. CallsTyped(task) /\ CallsTyped(task')
  BY <1>2 DEF Sound, Typed
<1>5. task'[t] = k /\ \A u \in Thread \ {t} : task'[u] = task[u]
  BY <1>1, <1>4, ContinueIs
<1>6. Knows(task'[t], rids', t)
  BY <1>1, <1>3, <1>5 DEF Knows
<1>7. \A x \in Rec : Held(task', rids', x) = Held(task, rids, x)
  BY <1>1, <1>3, <1>4, <1>5, <1>6, ChangeHolds
<1>8. /\ Quiet(task[t]) /\ Quiet(task'[t])
      /\ task'[t].pc \notin {"put", "putnew", "reclaim"} /\ task'[t].op # "undo"
  BY <1>1, <1>3, <1>5 DEF Quiet
<1>9. /\ UNCHANGED wal /\ faults' <= faults /\ rids' = rids /\ free_space_map' = free_space_map
      /\ pages' = pages
  BY <1>1 DEF heapvars, Sound, Typed
<1>10. Recorded(C)' /\ ComesAndGoes(C, C)
  BY <1>1, <1>2, <1>5, <1>6, <1>7, <1>8, <1>9, RoomyPages, QuietRecords
<1> QED
  BY <1>2, <1>10

(* The map of a table gets pages. *)
LEMMA MapGets ==
  ASSUME NEW C, Sound(C), NEW h \in Heap, NEW S, UpdateFreeSpaceMap(h, S),
         S \subseteq C[h]
  PROVE  \A g \in Heap : \A p \in free_space_map'[g] : p \in free_space_map[g] \/ p \in C[g]
<1>1. free_space_map \in [Heap -> SUBSET Page]
  BY DEF Sound, Typed
<1>2. free_space_map' = [free_space_map EXCEPT ![h] = free_space_map[h] \cup S]
  BY DEF UpdateFreeSpaceMap
<1> QED
  BY <1>1, <1>2

(* A page whose records stay where they are is as good as the old one. *)
LEMMA SameRecords ==
  ASSUME NEW C, Sound(C), Recorded(C), NEW p \in Page, NEW x,
         pages' = [pages EXCEPT ![p] = x],
         Roomy(x), \A s : RecIn(x, s) = RecIn(pages[p], s)
  PROVE  \A q \in Page : Roomy(pages'[q]) /\ \A s : RecIn(pages'[q], s) = RecIn(pages[q], s)
<1>1. pages \in [Page -> PageState]
  BY DEF Sound, Typed, PagesTyped
<1>2. pages'[p] = x /\ \A q \in Page \ {p} : pages'[q] = pages[q]
  BY <1>1
<1>3. \A q \in Page : Roomy(pages[q])
  BY RoomyPages
<1> QED
  BY <1>2, <1>3

LEMMA FailCosts ==
  ASSUME TableHeapConstants, NEW C, Sound(C), NEW failed \in BOOLEAN, Costs(failed)
  PROVE  /\ faults' <= faults /\ (failed => faults' = faults - 1)
         /\ (~ failed => faults' = faults)
         /\ faults \in Int /\ MaxFaults \in Int /\ faults <= MaxFaults
<1>1. faults \in 0 .. MaxFaults /\ MaxFaults \in Nat
  BY DEF Sound, Typed, TableHeapConstants
<1> QED
  BY <1>1 DEF Costs

LEMMA CallUpdateRecords ==
  ASSUME TableHeapConstants, Careful, NEW C, Sound(C), Recorded(C), NEW t \in Thread,
         NEW r \in Rec, Owner[r] = t, CallUpdate(t, r, Max(Length))
  PROVE  Sound(C)' /\ Recorded(C)' /\ ComesAndGoes(C, C)
<1> DEFINE rid == rids[r]
           n == Max(Length)
           result == PageUpdate(pages[rid.page], rid.slot, n)
           k == [Idle EXCEPT !.pc = "find", !.op = "move", !.heap = rid.heap, !.rec = r,
                             !.size = n, !.old = rid]
<1>1. /\ task[t].pc = "idle" /\ MayChange(r)
      /\ UNCHANGED <<wal, first_page_id, tail_page_id, rids>>
      /\ \/ /\ pages' = [pages EXCEPT ![rid.page] = result.page]
            /\ UpdateFreeSpaceMap(rid.heap, {rid.page})
            /\ Continue(t, k) \/ UNCHANGED task
            /\ UNCHANGED faults
         \/ Fails /\ UNCHANGED <<pages, free_space_map, task>>
      /\ ~ wal => \A u \in Thread : task[u].pc = "idle"
  BY AllIdle DEF CallUpdate, At, MayChange
<1>2. Sound(C)'
  BY SlotsAre, CallUpdateKeeps
<1>3. /\ k.pc = "find" /\ k.op = "move" /\ k.rec = r /\ k.heap = rid.heap
      /\ k.old = rid /\ k.new = NoRid /\ k.size = n
  BY DEF Idle
<1> HIDE DEF k
<1>4. CallsTyped(task) /\ CallsTyped(task') /\ PagesTyped(pages)
  BY <1>2 DEF Sound, Typed
<1>5. rid.heap \in Heap /\ rid.page \in Page /\ rid.page \in C[rid.heap]
  BY <1>1, ChangedIs DEF Stands
<1>6. /\ \A q \in Page : Roomy(pages'[q]) /\ \A s : RecIn(pages'[q], s) = RecIn(pages[q], s)
      /\ \A g \in Heap : \A p \in free_space_map'[g] : p \in free_space_map[g] \/ p \in C[g]
      /\ faults' <= faults
  <2>1. CASE /\ pages' = [pages EXCEPT ![rid.page] = result.page]
             /\ UpdateFreeSpaceMap(rid.heap, {rid.page}) /\ UNCHANGED faults
    <3>1. PageTyped(pages[rid.page]) /\ Roomy(pages[rid.page])
      BY <1>4, <1>5, RoomyPages DEF PagesTyped
    <3>2. Roomy(result.page) /\ \A s : RecIn(result.page, s) = RecIn(pages[rid.page], s)
      BY <3>1, UpdateRecords
    <3> HIDE DEF result
    <3>3. \A q \in Page : Roomy(pages'[q]) /\ \A s : RecIn(pages'[q], s) = RecIn(pages[q], s)
      BY <1>5, <2>1, <3>2, SameRecords
    <3>4. \A g \in Heap : \A p \in free_space_map'[g] : p \in free_space_map[g] \/ p \in C[g]
      BY <1>5, <2>1, MapGets
    <3>5. faults' <= faults
      BY <2>1 DEF Sound, Typed
    <3> QED
      BY <3>3, <3>4, <3>5
  <2>2. CASE Fails /\ UNCHANGED <<pages, free_space_map, task>>
    BY <2>2, RoomyPages, FailCosts DEF Fails
  <2> QED
    BY <1>1, <2>1, <2>2
<1> HIDE DEF result
<1>7. Continue(t, k) \/ UNCHANGED task
  BY <1>1
<1>8. CASE UNCHANGED task
  <2>1. Quiet(task[t]) /\ Quiet(task'[t]) /\ task'[t].op # "undo"
        /\ task'[t].pc \notin {"put", "putnew", "reclaim"}
    BY <1>1, <1>8, RoomyPages DEF Knows, Idle, Quiet
  <2>2. \A x \in Rec : Held(task', rids', x) = Held(task, rids, x)
    BY <1>1, <1>8
  <2>3. Knows(task'[t], rids', t)
    BY <1>1, <1>8, RoomyPages
  <2>4. rids' = rids /\ wal' = wal /\ \A u \in Thread \ {t} : task'[u] = task[u]
    BY <1>1, <1>8
  <2> QED
    BY <1>1, <1>2, <1>6, <2>1, <2>2, <2>3, <2>4, QuietRecords
<1>9. CASE Continue(t, k)
  <2>1. task'[t] = k /\ \A u \in Thread \ {t} : task'[u] = task[u]
    BY <1>4, <1>9, ContinueIs
  <2>2. Knows(task'[t], rids', t)
    BY <1>1, <1>3, <2>1 DEF Knows
  <2>3. \A x \in Rec : Held(task', rids', x) = Held(task, rids, x)
    BY <1>1, <1>3, <1>4, <2>1, <2>2, ChangeHolds
  <2>4. Quiet(task[t]) /\ Quiet(task'[t]) /\ task'[t].op # "undo"
        /\ task'[t].pc \notin {"put", "putnew", "reclaim"}
    BY <1>1, <1>3, <2>1 DEF Quiet
  <2>5. rids' = rids /\ wal' = wal
    BY <1>1
  <2> QED
    BY <1>1, <1>2, <1>6, <2>1, <2>2, <2>3, <2>4, <2>5, QuietRecords
<1> QED
  BY <1>7, <1>8, <1>9

(* An insertion goes on. *)
Inserting == {"find", "allocate", "link", "put", "putnew"}

LEMMA GoesOn ==
  ASSUME TableHeapConstants, CallsTyped(task), NEW t \in Thread, Knows(task[t], rids, t),
         task[t].pc \in Inserting, NEW k, k.pc \in Inserting, Continue(t, k), rids' = rids,
         k.op = task[t].op, k.rec = task[t].rec, k.heap = task[t].heap,
         k.size = task[t].size, k.old = task[t].old, k.new = task[t].new
  PROVE  /\ task'[t] = k /\ \A u \in Thread \ {t} : task'[u] = task[u]
         /\ Knows(task'[t], rids', t) /\ task'[t].op # "undo"
         /\ task'[t].pc \notin {"idle", "mark", "reclaim", "drop"}
         /\ \A r \in Rec : Held(task', rids', r) = Held(task, rids, r)
<1>1. task'[t] = k /\ \A u \in Thread \ {t} : task'[u] = task[u]
  BY ContinueIs
<1>2. CallTyped(task[t]) /\ task[t].op \in {"insert", "move"}
  BY CallIs DEF CallTyped, Inserting
<1>3. Knows(task'[t], rids', t)
  BY <1>1, <1>2 DEF Knows, Inserting
<1>4. Keeps(task'[t]) = Keeps(task[t])
  BY <1>1 DEF Keeps, Inserting
<1>5. task'[t].rec = task[t].rec /\ UNCHANGED rids
  BY <1>1
<1>6. \A r \in Rec : Held(task', rids', r) = Held(task, rids, r)
  BY <1>1, <1>4, <1>5, HeldSame
<1> QED
  BY <1>1, <1>2, <1>3, <1>6 DEF Inserting

LEMMA GrowRecords ==
  ASSUME TableHeapConstants, NEW C, Sound(C), Recorded(C), NEW t \in Thread,
         At(t, "find"), Grow(t), rids' = rids
  PROVE  /\ \A u \in Thread \ {t} : task'[u] = task[u]
         /\ task'[t].pc = "allocate"
         /\ Knows(task'[t], rids', t) /\ task'[t].op # "undo"
         /\ \A r \in Rec : Held(task', rids', r) = Held(task, rids, r)
<1> DEFINE k == [task[t] EXCEPT !.pc = "allocate", !.tried = {}]
<1>1. /\ CallsTyped(task) /\ task[t] \in CallState /\ task[t].pc \in Inserting
      /\ Knows(task[t], rids, t)
  BY CallIs, RoomyPages DEF Sound, Typed, At, Inserting
<1>2. /\ k.pc = "allocate" /\ k.op = task[t].op /\ k.rec = task[t].rec
      /\ k.heap = task[t].heap /\ k.size = task[t].size /\ k.old = task[t].old
      /\ k.new = task[t].new /\ Continue(t, k)
  BY <1>1 DEF CallState, Grow
<1> HIDE DEF k
<1>3. k.pc \in Inserting
  BY <1>2 DEF Inserting
<1> QED
  BY <1>1, <1>2, <1>3, GoesOn

LEMMA TargetRecords ==
  ASSUME TableHeapConstants, NEW C, Sound(C), Recorded(C), NEW t \in Thread,
         At(t, "find"), NEW p \in C[task[t].heap], Target(t, p), rids' = rids
  PROVE  /\ \A u \in Thread \ {t} : task'[u] = task[u]
         /\ task'[t].pc \in {"put", "allocate"}
         /\ task'[t].pc = "put" => task'[t].at \in C[task'[t].heap]
         /\ Knows(task'[t], rids', t) /\ task'[t].op # "undo"
         /\ \A r \in Rec : Held(task', rids', r) = Held(task, rids, r)
<1>1. CASE Grow(t)
  BY <1>1, GrowRecords
<1>2. CASE ~ Grow(t)
  <2> DEFINE k == [task[t] EXCEPT !.pc = "put", !.at = p, !.tried = @ \cup {p}]
  <2>1. /\ CallsTyped(task) /\ task[t] \in CallState /\ task[t].pc \in Inserting
        /\ Knows(task[t], rids, t)
    BY CallIs, RoomyPages DEF Sound, Typed, At, Inserting
  <2>2. Continue(t, k)
    BY <1>2 DEF Target
  <2>3. /\ k.pc = "put" /\ k.op = task[t].op /\ k.rec = task[t].rec /\ k.at = p
        /\ k.heap = task[t].heap /\ k.size = task[t].size /\ k.old = task[t].old
        /\ k.new = task[t].new
    BY <2>1 DEF CallState
  <2> HIDE DEF k
  <2>4. k.pc \in Inserting
    BY <2>3 DEF Inserting
  <2>5. /\ task'[t] = k /\ \A u \in Thread \ {t} : task'[u] = task[u]
        /\ Knows(task'[t], rids', t) /\ task'[t].op # "undo"
        /\ \A r \in Rec : Held(task', rids', r) = Held(task, rids, r)
    BY <2>1, <2>2, <2>3, <2>4, GoesOn
  <2> QED
    BY <2>3, <2>5
<1> QED
  BY <1>1, <1>2

(* Nobody deletes a page of the table while it is searched without a log,  *)
(* and with one nobody ever does.                                          *)
LEMMA NobodyDrops ==
  ASSUME NEW C, Sound(C), Recorded(C), NEW t \in Thread, task[t].pc \notin {"idle", "drop"}
  PROVE  /\ \A u \in Thread : task[u].pc # "drop"
         /\ \A h \in Heap : free_space_map[h] \subseteq C[h]
<1>1. \A u \in Thread : task[u].pc # "drop"
  BY DEF Recorded, Apart, Sound, Typed
<1> QED
  BY <1>1 DEF Recorded, InPlace

LEMMA ProbeRecords ==
  ASSUME TableHeapConstants, NEW C, Sound(C), Recorded(C), NEW t \in Thread,
         NEW p \in Page, Probe(t, p)
  PROVE  Sound(C)' /\ Recorded(C)' /\ ComesAndGoes(C, C)
<1>1. /\ At(t, "find") /\ p \in free_space_map[task[t].heap]
      /\ wal' = wal /\ pages' = pages /\ rids' = rids
      /\ \/ Target(t, p) /\ UNCHANGED <<free_space_map, faults>>
         \/ /\ Fails /\ UNCHANGED task
            /\ free_space_map' = [free_space_map EXCEPT ![task[t].heap] = @ \ {p}]
  BY DEF Probe
<1>2. Sound(C)'
  BY ProbeKeeps
<1>3. /\ CallsTyped(task) /\ CallTyped(task[t]) /\ task[t].pc = "find" /\ Quiet(task[t])
      /\ free_space_map \in [Heap -> SUBSET Page]
  BY <1>1, CallIs DEF Sound, Typed, At, Quiet
<1>4. task[t].heap \in Heap
  BY <1>3 DEF CallTyped
<1>5. p \in C[task[t].heap]
  BY <1>1, <1>3, <1>4, NobodyDrops
<1>6. \A q \in Page : Roomy(pages'[q]) /\ \A s : RecIn(pages'[q], s) = RecIn(pages[q], s)
  BY <1>1, RoomyPages
<1>7. UNCHANGED wal /\ UNCHANGED rids
  BY <1>1
<1>8. CASE Target(t, p) /\ UNCHANGED <<free_space_map, faults>>
  <2>1. /\ \A u \in Thread \ {t} : task'[u] = task[u]
        /\ task'[t].pc \in {"put", "allocate"}
        /\ task'[t].pc = "put" => task'[t].at \in C[task'[t].heap]
        /\ Knows(task'[t], rids', t) /\ task'[t].op # "undo"
        /\ \A r \in Rec : Held(task', rids', r) = Held(task, rids, r)
    BY <1>1, <1>5, <1>8, TargetRecords
  <2>2. Quiet(task'[t]) /\ task'[t].pc \notin {"putnew", "reclaim"}
    BY <2>1 DEF Quiet
  <2>3. faults' <= faults /\ free_space_map' = free_space_map
    BY <1>8 DEF Sound, Typed
  <2> QED
    BY <1>2, <1>3, <1>6, <1>7, <2>1, <2>2, <2>3, QuietRecords
<1>9. CASE /\ Fails /\ UNCHANGED task
           /\ free_space_map' = [free_space_map EXCEPT ![task[t].heap] = @ \ {p}]
  <2>1. /\ \A u \in Thread \ {t} : task'[u] = task[u]
        /\ task'[t] = task[t] /\ Quiet(task'[t])
        /\ task'[t].pc \notin {"put", "putnew", "reclaim"}
    BY <1>3, <1>9
  <2>2. \A r \in Rec : Held(task', rids', r) = Held(task, rids, r)
    BY <1>1, <1>9
  <2>3. Knows(task'[t], rids', t) /\ task'[t].op # "undo"
    <3>1. task[t].op # "undo"
      BY <1>3 DEF CallTyped
    <3> QED
      BY <1>1, <2>1, <3>1, RoomyPages
  <2>4. faults' <= faults
    BY <1>9, FailCosts DEF Fails
  <2>5. \A h \in Heap : \A q \in free_space_map'[h] : q \in free_space_map[h] \/ q \in C[h]
    <3>1. free_space_map' =
            [free_space_map EXCEPT ![task[t].heap] = free_space_map[task[t].heap] \ {p}]
      BY <1>9
    <3> QED
      BY <1>3, <1>4, <3>1
  <2> QED
    BY <1>2, <1>3, <1>6, <1>7, <2>1, <2>2, <2>3, <2>4, <2>5, QuietRecords
<1> QED
  BY <1>1, <1>8, <1>9

LEMMA WalkRecords ==
  ASSUME TableHeapConstants, NEW C, Sound(C), Recorded(C), NEW t \in Thread, Walk(t)
  PROVE  Sound(C)' /\ Recorded(C)' /\ ComesAndGoes(C, C)
<1> DEFINE h == task[t].heap
           roomy == {p \in Page : pages[p].free >= task[t].size}
<1>1. /\ At(t, "find") /\ wal' = wal /\ pages' = pages /\ rids' = rids
      /\ \E w \in Walks(first_page_id[h], roomy) :
           /\ UpdateFreeSpaceMap(h, w.met \cup (IF Found(w) THEN {w.stop} ELSE {}))
           /\ IF Found(w) THEN Target(t, w.stop) ELSE Grow(t)
           /\ Costs(w.failed)
  BY DEF Walk
<1>2. Sound(C)'
  BY WalkKeeps
<1>3. CallsTyped(task) /\ CallTyped(task[t]) /\ task[t].pc = "find" /\ Quiet(task[t])
  BY <1>1, CallIs DEF Sound, Typed, At, Quiet
<1>4. h \in Heap
  BY <1>3 DEF CallTyped
<1> HIDE DEF roomy
<1>5. PICK w \in Walks(first_page_id[h], roomy) :
           /\ UpdateFreeSpaceMap(h, w.met \cup (IF Found(w) THEN {w.stop} ELSE {}))
           /\ IF Found(w) THEN Target(t, w.stop) ELSE Grow(t)
           /\ Costs(w.failed)
  BY <1>1
<1>6. Linked(pages, first_page_id[h], C[h])
  BY <1>4 DEF Sound, Chained
<1>7. first_page_id[h] \in C[h] \cup {INVALID_PAGE_ID}
  BY <1>6, LinkedParts
<1>8. /\ w.failed \in BOOLEAN /\ w.met \subseteq C[h] /\ (Found(w) => w.stop \in C[h])
  BY <1>6, <1>7, WalkStays
<1>9. \A q \in Page : Roomy(pages'[q]) /\ \A s : RecIn(pages'[q], s) = RecIn(pages[q], s)
  BY <1>1, RoomyPages
<1>10. faults' <= faults
  BY <1>5, <1>8, FailCosts
<1>11. \A g \in Heap : \A p \in free_space_map'[g] : p \in free_space_map[g] \/ p \in C[g]
  <2>1. w.met \cup (IF Found(w) THEN {w.stop} ELSE {}) \subseteq C[h]
    BY <1>8
  <2> QED
    BY <1>4, <1>5, <2>1, MapGets
<1>12. /\ \A u \in Thread \ {t} : task'[u] = task[u]
       /\ task'[t].pc \in {"put", "allocate"}
       /\ task'[t].pc = "put" => task'[t].at \in C[task'[t].heap]
       /\ Knows(task'[t], rids', t) /\ task'[t].op # "undo"
       /\ \A r \in Rec : Held(task', rids', r) = Held(task, rids, r)
  <2>1. CASE Found(w)
    BY <1>1, <1>5, <1>8, <2>1, TargetRecords
  <2>2. CASE ~ Found(w)
    BY <1>1, <1>5, <2>2, GrowRecords
  <2> QED
    BY <2>1, <2>2
<1>13. Quiet(task'[t]) /\ task'[t].pc \notin {"putnew", "reclaim"}
  BY <1>12 DEF Quiet
<1>14. UNCHANGED wal /\ UNCHANGED rids
  BY <1>1
<1>15. Recorded(C)' /\ ComesAndGoes(C, C)
  BY <1>2, <1>3, <1>9, <1>10, <1>11, <1>12, <1>13, <1>14, QuietRecords
<1> QED
  BY <1>2, <1>15

(* A new page holds no record, and nothing is looked for in it. *)
LEMMA NewPageRecords ==
  ASSUME TableHeapConstants, NEW C, Sound(C), Recorded(C), NEW t \in Thread, NewPage(t)
  PROVE  Sound(C)' /\ Recorded(C)' /\ ComesAndGoes(C, C)
<1>1. /\ At(t, "allocate") /\ wal' = wal /\ rids' = rids /\ free_space_map' = free_space_map
      /\ UNCHANGED <<wal, heapvars, rids, scan>>
  BY DEF NewPage, heapvars
<1>2. Sound(C)'
  BY NewPageKeeps
<1>3. /\ CallsTyped(task) /\ CallsTyped(task') /\ CallTyped(task[t]) /\ task[t] \in CallState
      /\ task[t].pc = "allocate" /\ task[t].pc \in Inserting /\ Knows(task[t], rids, t)
      /\ Hand(task[t]) = {}
  BY <1>1, <1>2, CallIs, RoomyPages DEF Sound, Typed, At, Inserting, Hand
<1>4. /\ \A h \in Heap : C[h] \subseteq Page
      /\ \A h \in Heap : \A q \in C[h] : pages[q].use = "heap"
      /\ \A u \in Thread : \A q \in Hand(task[u]) : q \in Page /\ pages[q].use = "heap"
  BY ChainedPages DEF Sound, Typed
<1>5. UNCHANGED wal /\ UNCHANGED rids /\ \A r \in Rec : Owner[r] # t => rids'[r] = rids[r]
  BY <1>1
<1>6. CASE \E p \in NewPages :
             /\ pages' = [pages EXCEPT ![p] = InitForNewPage]
             /\ Continue(t, [task[t] EXCEPT !.pc = "link", !.at = p])
             /\ UNCHANGED faults
  <2>1. PICK p \in NewPages :
             /\ pages' = [pages EXCEPT ![p] = InitForNewPage]
             /\ Continue(t, [task[t] EXCEPT !.pc = "link", !.at = p])
             /\ UNCHANGED faults
    BY <1>6
  <2>2. p \in Page /\ pages[p].use # "heap"
    <3> DEFINE of(use) == {q \in Page : pages[q].use = use}
    <3>1. CASE of("freed") # {}
      BY <3>1 DEF NewPages
    <3>2. CASE of("freed") = {}
      BY <3>2 DEF NewPages
    <3> QED
      BY <3>1, <3>2
  <2> DEFINE k == [task[t] EXCEPT !.pc = "link", !.at = p]
  <2>3. /\ k.pc = "link" /\ k.op = task[t].op /\ k.rec = task[t].rec /\ k.at = p
        /\ k.heap = task[t].heap /\ k.size = task[t].size /\ k.old = task[t].old
        /\ k.new = task[t].new /\ Continue(t, k)
    BY <1>3, <2>1 DEF CallState
  <2> HIDE DEF k
  <2>4. k.pc \in Inserting
    BY <2>3 DEF Inserting
  <2>5. /\ task'[t] = k /\ \A u \in Thread \ {t} : task'[u] = task[u]
        /\ Knows(task'[t], rids', t) /\ task'[t].op # "undo"
        /\ task'[t].pc \notin {"idle", "mark", "reclaim", "drop"}
        /\ \A r \in Rec : Held(task', rids', r) = Held(task, rids, r)
    BY <1>1, <1>3, <2>3, <2>4, GoesOn
  <2>6. pages \in [Page -> PageState]
    BY DEF Sound, Typed, PagesTyped
  <2>7. pages'[p] = InitForNewPage /\ \A q \in Page \ {p} : pages'[q] = pages[q]
    BY <2>1, <2>2, <2>6
  <2>8. Hand(task'[t]) = {p}
    BY <2>3, <2>5 DEF Hand
  <2>9. \A h \in Heap : p \notin C[h]
    BY <1>4, <2>2
  <2>10. \A r \in Rec : \A i : Stands(pages', C, i, r) <=> Stands(pages, C, i, r)
    BY <1>4, <2>7, <2>9 DEF Stands
  <2>11. Whole' = Whole /\ faults' <= faults
    BY <2>1 DEF Whole, Sound, Typed
  <2>12. Standing(pages', C, task', rids', Whole')
    <3>1. Standing(pages, C, task, rids, Whole)
      BY DEF Recorded
    <3>2. Whole' => Whole
      BY <2>11
    <3> QED
      BY <2>5, <2>10, <3>1, <3>2, StandingKept
  <2>13. InPlace(free_space_map', task', C)
    <3>1. InPlace(free_space_map, task, C) /\ task'[t].pc = "link" /\ task[t].pc # "drop"
      BY <1>3, <2>3, <2>5 DEF Recorded
    <3>2. \A u \in Thread : task[u].pc = "drop" => task'[u] = task[u]
      BY <2>5, <3>1
    <3>3. \A u \in Thread : task'[u].pc \in {"put", "putnew"} => task'[u] = task[u]
      BY <2>5, <3>1
    <3> QED
      BY <1>1, <3>1, <3>2, <3>3 DEF InPlace
  <2>14. \A q \in Page : Roomy(pages'[q])
    BY <2>7, RoomyPages, NewRecords
  <2>15. \A q \in Hand(task'[t]) : Blank(pages'[q])
    BY <2>7, <2>8, NewRecords DEF Blank
  <2>16. \A u \in Thread \ {t} : \A q \in Hand(task[u]) : Blank(pages[q]) => Blank(pages'[q])
    BY <1>4, <2>2, <2>7
  <2>17. task[t].pc # "idle" /\ task'[t].pc \notin {"reclaim", "drop"}
    BY <1>3, <2>5
  <2>18. Recorded(C)'
    BY <1>2, <1>5, <2>5, <2>11, <2>12, <2>13, <2>14, <2>15, <2>16, <2>17, RecordedStep
  <2>19. ComesAndGoes(C, C)
    BY <2>10, StillSeen
  <2> QED
    BY <1>2, <2>18, <2>19
<1>7. CASE (UNCHANGED faults \/ Fails) /\ Return(t) /\ UNCHANGED pages
  <2>1. /\ \A r \in Rec : Held(task', rids', r) = Held(task, rids, r)
        /\ Knows(task'[t], rids', t) /\ task'[t] = Idle
    BY <1>3, <1>5, <1>7, HeldReturn DEF Inserting
  <2>2. \A u \in Thread \ {t} : task'[u] = task[u]
    BY <1>3, <1>7, ReturnKeeps DEF QuietCall
  <2>3. faults' <= faults
    <3>1. faults \in Int
      BY DEF Sound, Typed
    <3>2. CASE UNCHANGED faults
      BY <3>1, <3>2
    <3>3. CASE Fails
      BY <3>3, FailCosts DEF Fails
    <3> QED
      BY <1>7, <3>2, <3>3
  <2>4. /\ Quiet(task[t]) /\ Quiet(task'[t]) /\ task'[t].op # "undo"
        /\ task'[t].pc \notin {"put", "putnew", "reclaim"} /\ task[t].pc # "idle"
    BY <1>3, <2>1 DEF Quiet, Idle
  <2>5. \A q \in Page : Roomy(pages'[q]) /\ \A s : RecIn(pages'[q], s) = RecIn(pages[q], s)
    BY <1>7, RoomyPages
  <2>6. Recorded(C)' /\ ComesAndGoes(C, C)
    BY <1>1, <1>2, <1>5, <2>1, <2>2, <2>3, <2>4, <2>5, QuietRecords
  <2> QED
    BY <1>2, <2>6
<1> QED
  BY <1>6, <1>7 DEF NewPage

(* The link of a page is no matter to its records. *)
LEMMA NextIsNoMatter ==
  ASSUME NEW p \in PageState, NEW x, NEW q, q = [p EXCEPT !.next = x]
  PROVE  /\ Roomy(p) => Roomy(q)
         /\ \A s : RecIn(q, s) = RecIn(p, s)
         /\ Live(q) = Live(p) /\ q.slots = p.slots
<1>1. q.slots = p.slots /\ q.free = p.free
  BY DEF PageState
<1>2. Live(q) = Live(p) /\ \A s : RecIn(q, s) = RecIn(p, s)
  BY <1>1 DEF Live, RecIn
<1>3. Compacted(q, 0) = Compacted(p, 0)
  BY <1>1, <1>2 DEF Compacted, Bodies
<1> QED
  BY <1>1, <1>2, <1>3 DEF Roomy

LEMMA PagesRelinked ==
  ASSUME NEW C, Sound(C), Recorded(C), NEW q \in Page, NEW x \in PageIds,
         Relinked(pages, pages', q, x)
  PROVE  /\ \A r \in Page : /\ pages'[r].use = pages[r].use /\ Roomy(pages'[r])
                            /\ \A s : RecIn(pages'[r], s) = RecIn(pages[r], s)
         /\ \A r \in Page \ {q} : pages'[r] = pages[r]
<1>1. PagesTyped(pages) /\ pages \in [Page -> PageState] /\ \A r \in Page : Roomy(pages[r])
  BY RoomyPages DEF Sound, Typed, PagesTyped
<1>2. /\ \A r \in Page : pages'[r].use = pages[r].use
      /\ \A r \in Page \ {q} : pages'[r] = pages[r]
  BY <1>1, LinkSet
<1> DEFINE y == pages[q]
           z == pages'[q]
<1>3. y \in PageState /\ Roomy(y) /\ z = [y EXCEPT !.next = x]
  BY <1>1 DEF Relinked
<1>4. Roomy(z) /\ \A s : RecIn(z, s) = RecIn(y, s)
  <2> HIDE DEF y, z
  <2> QED
    BY <1>3, NextIsNoMatter
<1> QED
  BY <1>1, <1>2, <1>4

(* A step leaves other tables than h and what is in other pages than p.    *)
ElseKept(C, h, p) ==
  /\ \A g \in Heap \ {h} : first_page_id'[g] = first_page_id[g]
  /\ \A g \in Heap \ {h} : \A q \in C[g] : pages'[q].next = pages[q].next
  /\ \A q \in Page \ {p} : /\ pages'[q].use = pages[q].use /\ Roomy(pages'[q])
                           /\ \A s : RecIn(pages'[q], s) = RecIn(pages[q], s)
  /\ (Blank(pages[p]) => Blank(pages'[p])) /\ Roomy(pages'[p])

(* The page in hand is linked, or given back. *)
LEMMA LinkEnds ==
  ASSUME TableHeapConstants, NEW C, Sound(C), Recorded(C), NEW D, Sound(D)', NEW t \in Thread,
         At(t, "link"), NEW h, h = task[t].heap, NEW p, p = task[t].at,
         \A u \in Thread \ {t} : task'[u] = task[u], UNCHANGED <<wal, rids>>,
         faults' <= faults,
         ElseKept(C, h, p),
         \A r \in Rec : Held(task', rids', r) = Held(task, rids, r),
         Knows(task'[t], rids', t), task'[t].op # "undo", task'[t].pc \in {"idle", "putnew"},
         task'[t].pc = "putnew" =>
           pages'[p].use = "heap" /\ task'[t].at = p /\ task'[t].heap = h,
         \A g \in Heap : \A q \in free_space_map'[g] :
           q \in free_space_map[g] \/ (q = p /\ g = h /\ task'[t].pc = "putnew")
  PROVE  Recorded(D)' /\ ComesAndGoes(C, D)
<1> USE DEF ElseKept
<1>1. /\ CallsTyped(task) /\ CallTyped(task[t]) /\ task[t].pc = "link"
      /\ wal' = wal /\ rids' = rids
  BY CallIs DEF Sound, Typed, At
<1>2. h \in Heap /\ p \in Page /\ Hand(task[t]) = {p} /\ Hand(task'[t]) = {}
  BY <1>1 DEF CallTyped, Hand
<1>3. Blank(pages[p]) /\ Blank(pages'[p])
  BY <1>2 DEF Recorded, EmptyHands
<1>4. /\ \A g \in Heap \ {h} : D[g] = C[g]
      /\ \A q \in Page : pages'[q].use = pages[q].use /\ q \notin Hand(task[t])
                         /\ q \notin Hand(task'[t]) => (q \in D[h] <=> q \in C[h])
      /\ \A g \in Heap : p \notin C[g]
      /\ pages'[p].use = "heap" => p \in D[h]
  BY <1>2, ChainsMove
<1>5. \A g \in Heap : C[g] \subseteq Page
  BY ChainedPages DEF Sound, Typed
<1>6. \A g \in Heap : C[g] \subseteq D[g]
  BY <1>2, <1>4, <1>5
<1>7. \A r \in Rec : \A i : Stands(pages', D, i, r) <=> Stands(pages, C, i, r)
  <2>1. \A q \in Page : q \notin Hand(task[t]) /\ q \notin Hand(task'[t]) =>
          pages'[q].use = pages[q].use /\ \A s : RecIn(pages'[q], s) = RecIn(pages[q], s)
    BY <1>2
  <2>2. \A q \in Hand(task[t]) \cup Hand(task'[t]) : Blank(pages[q]) /\ Blank(pages'[q])
    BY <1>2, <1>3
  <2> QED
    BY <1>2, <2>1, <2>2, StandsStill
<1>8. Standing(pages', D, task', rids', Whole')
  <2>1. Standing(pages, C, task, rids, Whole)
    BY DEF Recorded
  <2>2. Whole' => Whole
    BY WholeKept DEF Sound, Typed
  <2> QED
    BY <1>7, <2>1, <2>2, StandingKept
<1>9. InPlace(free_space_map', task', D)
  <2>1. /\ \A g \in Heap : free_space_map[g] \subseteq C[g]
        /\ \A u \in Thread : task[u].pc \in {"put", "putnew"} => task[u].at \in C[task[u].heap]
    BY <1>1, NobodyDrops DEF Recorded, InPlace
  <2>2. \A g \in Heap : \A q \in free_space_map'[g] : q \in D[g]
    BY <1>2, <1>4, <1>6, <2>1
  <2>3. ASSUME NEW u \in Thread, task'[u].pc \in {"put", "putnew"}
        PROVE  task'[u].at \in D[task'[u].heap]
    <3>1. CASE u = t
      BY <1>4, <2>3, <3>1
    <3>2. CASE u # t
      <4>1. task'[u] = task[u] /\ CallTyped(task[u]) /\ task[u].at \in C[task[u].heap]
        BY <1>1, <2>1, <2>3, <3>2, CallIs
      <4>2. task[u].heap \in Heap
        BY <2>3, <4>1 DEF CallTyped
      <4> QED
        BY <1>6, <4>1, <4>2
    <3> QED
      BY <3>1, <3>2
  <2> QED
    BY <2>2, <2>3 DEF InPlace
<1>10. \A q \in Page : Roomy(pages'[q])
  BY <1>2
<1>11. \A u \in Thread \ {t} : \A q \in Hand(task[u]) : Blank(pages[q]) => Blank(pages'[q])
  <2>1. \A u \in Thread : \A q \in Hand(task[u]) : q \in Page
    BY ChainedPages DEF Sound, Typed
  <2> QED
    BY <1>2, <1>3, <2>1 DEF Blank
<1>12. /\ task[t].pc # "idle" /\ task'[t].pc \notin {"reclaim", "drop"}
       /\ UNCHANGED wal /\ \A r \in Rec : Owner[r] # t => rids'[r] = rids[r]
       /\ \A q \in Hand(task'[t]) : Blank(pages'[q])
  BY <1>1, <1>2
<1>13. Recorded(D)'
  BY <1>8, <1>9, <1>10, <1>11, <1>12, RecordedStep
<1>14. ComesAndGoes(C, D)
  BY <1>7, StillSeen
<1> QED
  BY <1>13, <1>14

LEMMA LinkRecords ==
  ASSUME TableHeapConstants, NoneFailsAgain, NEW C, Sound(C), Recorded(C),
         NEW t \in Thread, Link(t)
  PROVE  \E D : Sound(D)' /\ Recorded(D)' /\ ComesAndGoes(C, D)
<1> DEFINE k == task[t]
           h == k.heap
           p == k.at
           j == [k EXCEPT !.pc = "putnew"]
           refresh == IF tail_page_id[h] # INVALID_PAGE_ID
                      THEN {[last |-> tail_page_id[h], failed |-> FALSE]}
                      ELSE Refreshed(h)
<1>1. /\ CallsTyped(task) /\ CallTyped(k) /\ k \in CallState /\ PagesTyped(pages)
      /\ pages \in [Page -> PageState]
      /\ HeapsTyped(first_page_id) /\ HeapsTyped(tail_page_id)
      /\ Chained(pages, first_page_id, tail_page_id, task, C)
      /\ free_space_map \in [Heap -> SUBSET Page] /\ faults \in Int
  BY CallIs DEF Sound, Typed, PagesTyped
<1>0. PlainLink(t)
  BY <1>1, LinkOnce
<1>2. /\ k.pc = "link" /\ h \in Heap /\ p \in Page /\ Hand(k) = {p}
      /\ k.pc \in Inserting /\ Knows(k, rids, t)
  BY <1>0, <1>1, HandIs, RoomyPages DEF PlainLink, At, CallTyped, Inserting
<1>3. \A u \in Thread : ~ (task[u].pc = "drop" /\ task[u].heap = h)
  BY <1>0 DEF PlainLink, Latched, At
<1>4. /\ Linked(pages, first_page_id[h], C[h])
      /\ pages[p].use = "heap" /\ \A g \in Heap : p \notin C[g]
      /\ tail_page_id[h] \in C[h] \cup {INVALID_PAGE_ID}
      /\ \A g, i \in Heap : \A q : q \in C[g] /\ q \in C[i] => g = i
      /\ \A g \in Heap : C[g] \subseteq Page
  BY <1>1, <1>2, <1>3, ChainedPages DEF Chained
<1>5. first_page_id[h] \in C[h] \cup {INVALID_PAGE_ID}
  BY <1>4, LinkedParts
<1>6. PICK D : Sound(D)'
  BY LinkKeeps DEF IInv
<1>7. UNCHANGED <<wal, rids>> /\ At(t, "link") /\ rids' = rids /\ UNCHANGED rids
  BY <1>0 DEF PlainLink
<1>8. /\ j.pc = "putnew" /\ j.at = p /\ j.heap = h /\ j.op = k.op /\ j.rec = k.rec
      /\ j.size = k.size /\ j.old = k.old /\ j.new = k.new /\ j.pc \in Inserting
  BY <1>1 DEF CallState, Inserting
<1>9. ASSUME Continue(t, j)
      PROVE  /\ task'[t] = j /\ \A u \in Thread \ {t} : task'[u] = task[u]
             /\ Knows(task'[t], rids', t) /\ task'[t].op # "undo"
             /\ \A r \in Rec : Held(task', rids', r) = Held(task, rids, r)
  <2> HIDE DEF j
  <2> QED
    BY <1>1, <1>2, <1>7, <1>8, <1>9, GoesOn
<1>10. ASSUME UpdateFreeSpaceMap(h, {p})
       PROVE  \A g \in Heap : \A q \in free_space_map'[g] :
                q \in free_space_map[g] \/ (q = p /\ g = h)
  <2>1. free_space_map' = [free_space_map EXCEPT ![h] = free_space_map[h] \cup {p}]
    BY <1>10 DEF UpdateFreeSpaceMap
  <2> QED
    BY <1>1, <1>2, <2>1
<1> HIDE DEF j
<1>11. CASE /\ first_page_id' = [first_page_id EXCEPT ![h] = p]
            /\ Continue(t, j) /\ UpdateFreeSpaceMap(h, {p})
            /\ UNCHANGED <<pages, faults>>
  <2>1. \A g \in Heap \ {h} : first_page_id'[g] = first_page_id[g]
    BY <1>1, <1>2, <1>11 DEF HeapsTyped
  <2>2. /\ pages' = pages /\ faults' <= faults
        /\ \A q \in Page : Roomy(pages'[q])
    BY <1>1, <1>11, RoomyPages
  <2>3. /\ \A g \in Heap \ {h} : \A q \in C[g] : pages'[q].next = pages[q].next
        /\ \A q \in Page \ {p} : /\ pages'[q].use = pages[q].use /\ Roomy(pages'[q])
                                 /\ \A s : RecIn(pages'[q], s) = RecIn(pages[q], s)
        /\ (Blank(pages[p]) => Blank(pages'[p])) /\ Roomy(pages'[p])
        /\ pages'[p].use = "heap"
    BY <1>2, <1>4, <2>2
  <2>4. Recorded(D)' /\ ComesAndGoes(C, D)
    <3>1. ElseKept(C, h, p)
      BY <2>1, <2>3 DEF ElseKept
    <3> QED
      BY <1>6, <1>7, <1>8, <1>9, <1>10, <1>11, <2>2, <2>3, <3>1, LinkEnds
  <2> QED
    BY <1>6, <2>4
<1>12. CASE /\ \E w1 \in refresh :
                 \E w2 \in Walks(w1.last, Unlinked) :
                   /\ ~(w1.failed /\ w2.failed)
                   /\ IF Found(w2)
                      THEN /\ pages' = [pages EXCEPT ![w2.stop].next = p]
                           /\ tail_page_id' = [tail_page_id EXCEPT ![h] = p]
                           /\ Continue(t, j)
                           /\ UpdateFreeSpaceMap(h, {p})
                      ELSE /\ Deleted(p)
                           /\ tail_page_id' = [tail_page_id EXCEPT ![h] = w2.stop]
                           /\ Return(t)
                           /\ UNCHANGED free_space_map
                   /\ Costs(w1.failed \/ w2.failed)
            /\ UNCHANGED first_page_id
  <2> HIDE DEF refresh
  <2>1. PICK w1 \in refresh :
              \E w2 \in Walks(w1.last, Unlinked) :
                   /\ IF Found(w2)
                      THEN /\ pages' = [pages EXCEPT ![w2.stop].next = p]
                           /\ Continue(t, j)
                           /\ UpdateFreeSpaceMap(h, {p})
                      ELSE /\ Deleted(p)
                           /\ Return(t)
                           /\ UNCHANGED free_space_map
                   /\ Costs(w1.failed \/ w2.failed)
    BY <1>12
  <2>2. PICK w2 \in Walks(w1.last, Unlinked) :
                   /\ IF Found(w2)
                      THEN /\ pages' = [pages EXCEPT ![w2.stop].next = p]
                           /\ Continue(t, j)
                           /\ UpdateFreeSpaceMap(h, {p})
                      ELSE /\ Deleted(p)
                           /\ Return(t)
                           /\ UNCHANGED free_space_map
                   /\ Costs(w1.failed \/ w2.failed)
    BY <2>1
  <2>3. w1.last \in C[h] \cup {INVALID_PAGE_ID}
    <3>1. CASE tail_page_id[h] # INVALID_PAGE_ID
      <4>1. w1 = [last |-> tail_page_id[h], failed |-> FALSE]
        BY <3>1 DEF refresh
      <4> QED
        BY <1>4, <4>1
    <3>2. CASE tail_page_id[h] = INVALID_PAGE_ID
      <4>1. w1 \in Walks(first_page_id[h], {})
        BY <3>2 DEF refresh, Refreshed
      <4> QED
        BY <1>4, <1>5, <4>1, WalkStays
    <3> QED
      BY <3>1, <3>2
  <2>4. Found(w2) => w2.stop \in C[h]
    BY <1>4, <2>3, WalkStays
  <2>5. faults' <= faults
    <3>1. (w1.failed \/ w2.failed) \in BOOLEAN
      OBVIOUS
    <3> QED
      BY <2>2, <3>1, FailCosts
  <2>6. \A g \in Heap \ {h} : first_page_id'[g] = first_page_id[g]
    BY <1>12
  <2>7. CASE Found(w2)
    <3> DEFINE q == w2.stop
    <3>1. q \in C[h] /\ q \in Page /\ q # p /\ p \in PageIds
      BY <1>2, <1>4, <2>4, <2>7 DEF PageIds
    <3>2. /\ pages' = [pages EXCEPT ![q].next = p]
          /\ Continue(t, j) /\ UpdateFreeSpaceMap(h, {p})
      BY <2>2, <2>7
    <3> HIDE DEF q
    <3>4. Relinked(pages, pages', q, p)
      BY <3>2 DEF Relinked
    <3>5. /\ \A r \in Page : /\ pages'[r].use = pages[r].use /\ Roomy(pages'[r])
                             /\ \A s : RecIn(pages'[r], s) = RecIn(pages[r], s)
          /\ \A r \in Page \ {q} : pages'[r] = pages[r]
      BY <3>1, <3>4, PagesRelinked
    <3>6. Roomy(pages'[q]) /\ \A s : RecIn(pages'[q], s) = RecIn(pages[q], s)
      BY <3>1, <3>5
    <3>7. /\ \A g \in Heap \ {h} : \A r \in C[g] : pages'[r].next = pages[r].next
          /\ \A r \in Page \ {p} : /\ pages'[r].use = pages[r].use /\ Roomy(pages'[r])
                                   /\ \A s : RecIn(pages'[r], s) = RecIn(pages[r], s)
          /\ (Blank(pages[p]) => Blank(pages'[p])) /\ Roomy(pages'[p])
          /\ pages'[p].use = "heap"
      <4>1. \A g \in Heap \ {h} : q \notin C[g]
        BY <1>2, <1>4, <3>1
      <4>2. pages'[p] = pages[p] /\ Roomy(pages[p])
        BY <1>2, <3>1, <3>5, RoomyPages
      <4>3. \A r \in Page : Roomy(pages[r])
        BY RoomyPages
      <4> QED
        BY <1>4, <3>5, <3>6, <4>1, <4>2, <4>3
    <3>8. /\ task'[t] = j /\ \A u \in Thread \ {t} : task'[u] = task[u]
          /\ Knows(task'[t], rids', t) /\ task'[t].op # "undo"
          /\ task'[t].pc = "putnew" /\ task'[t].at = p /\ task'[t].heap = h
          /\ \A r \in Rec : Held(task', rids', r) = Held(task, rids, r)
      BY <1>8, <1>9, <3>2
    <3>9. \A g \in Heap : \A r \in free_space_map'[g] :
            r \in free_space_map[g] \/ (r = p /\ g = h /\ task'[t].pc = "putnew")
      BY <1>10, <3>2, <3>8
    <3>10. /\ task'[t].pc \in {"idle", "putnew"}
           /\ task'[t].pc = "putnew" =>
                pages'[p].use = "heap" /\ task'[t].at = p /\ task'[t].heap = h
      BY <3>7, <3>8
    <3>11. /\ \A u \in Thread \ {t} : task'[u] = task[u]
           /\ Knows(task'[t], rids', t) /\ task'[t].op # "undo"
           /\ \A r \in Rec : Held(task', rids', r) = Held(task, rids, r)
      BY <3>8
    <3>12. h = task[t].heap /\ p = task[t].at /\ ElseKept(C, h, p)
      BY <2>6, <3>7 DEF ElseKept
    <3> HIDE DEF h, p, k
    <3>13. Recorded(D)' /\ ComesAndGoes(C, D)
      BY <1>6, <1>7, <2>5, <3>9, <3>10, <3>11, <3>12, LinkEnds
    <3> QED
      BY <1>6, <3>13
  <2>8. CASE ~ Found(w2)
    <3>1. /\ pages' = [pages EXCEPT ![p] = Freed]
          /\ Return(t) /\ UNCHANGED free_space_map
      BY <2>2, <2>8 DEF Deleted
    <3>2. pages'[p] = Freed /\ \A r \in Page \ {p} : pages'[r] = pages[r]
      BY <1>1, <1>2, <3>1
    <3>3. /\ \A r \in Rec : Held(task', rids', r) = Held(task, rids, r)
          /\ Knows(task'[t], rids', t) /\ task'[t] = Idle
      BY <1>1, <1>2, <1>7, <3>1, HeldReturn DEF Inserting
    <3>4. /\ \A u \in Thread \ {t} : task'[u] = task[u]
          /\ task'[t].pc = "idle" /\ task'[t].op # "undo"
      BY <1>1, <3>1, <3>3, ReturnKeeps DEF QuietCall, Idle
    <3>5. /\ \A g \in Heap \ {h} : \A r \in C[g] : pages'[r].next = pages[r].next
          /\ \A r \in Page \ {p} : /\ pages'[r].use = pages[r].use /\ Roomy(pages'[r])
                                   /\ \A s : RecIn(pages'[r], s) = RecIn(pages[r], s)
          /\ (Blank(pages[p]) => Blank(pages'[p])) /\ Roomy(pages'[p])
      BY <1>4, <3>2, NewRecords, RoomyPages DEF Blank
    <3>6. ElseKept(C, h, p)
      BY <2>6, <3>5 DEF ElseKept
    <3>7. Recorded(D)' /\ ComesAndGoes(C, D)
      BY <1>6, <1>7, <2>5, <3>1, <3>3, <3>4, <3>6, LinkEnds
    <3> QED
      BY <1>6, <3>7
  <2> QED
    BY <2>7, <2>8
<1> QED
  BY <1>0, <1>11, <1>12 DEF PlainLink, j

(* A step that moves no page. *)
LEMMA QuietEnds ==
  ASSUME TableHeapConstants, NEW C, Sound(C), Recorded(C), Sound(C)', NEW t \in Thread,
         \A u \in Thread \ {t} : task'[u] = task[u], Quiet(task[t]), Quiet(task'[t]),
         UNCHANGED wal, faults' <= faults,
         \A r \in Rec : Owner[r] # t => rids'[r] = rids[r],
         Knows(task'[t], rids', t), task'[t].op = "undo" => faults' < MaxFaults,
         task[t].pc # "idle", wal => task'[t].pc # "reclaim",
         \A h \in Heap : \A p \in free_space_map'[h] : p \in free_space_map[h] \/ p \in C[h],
         task'[t].pc \in {"put", "putnew"} => task'[t].at \in C[task'[t].heap],
         NEW p, NEW h \in Heap, p \in C[h], \A q \in Page \ {p} : pages'[q] = pages[q],
         Roomy(pages'[p]),
         Standing(pages', C, task', rids', Whole')
  PROVE  Recorded(C)'
<1>1. InPlace(free_space_map', task', C)
  <2>1. InPlace(free_space_map, task, C)
    BY DEF Recorded
  <2>2. \A u \in Thread : task[u].pc = "drop" => task'[u] = task[u]
    BY DEF Quiet
  <2> QED
    BY <2>1, <2>2 DEF InPlace
<1>2. Hand(task'[t]) = {} /\ task'[t].pc # "drop"
  BY DEF Hand, Quiet
<1>3. \A u \in Thread \ {t} : \A q \in Hand(task[u]) : Blank(pages[q]) => Blank(pages'[q])
  <2>1. \A u \in Thread : \A q \in Hand(task[u]) : q \in Page
    BY ChainedPages DEF Sound, Typed
  <2>2. \A u \in Thread : p \notin Hand(task[u])
    BY DEF Sound, Chained
  <2> QED
    BY <2>1, <2>2
<1>4. \A q \in Page : Roomy(pages'[q])
  BY RoomyPages
<1> QED
  BY <1>1, <1>2, <1>3, <1>4, RecordedStep

(* An id is a place in one page. *)
LEMMA PlaceIs ==
  ASSUME NEW C, Sound(C), NEW h \in Heap, NEW p \in C[h], NEW s, NEW i \in Rids,
         i.heap \in Heap, i.page = p, i.page \in C[i.heap], i.slot = s
  PROVE  i = RidAt(h, p, s)
<1>1. i.heap = h
  BY DEF Sound, Chained
<1> QED
  BY <1>1 DEF Rids, RidAt

(* What an insertion puts into a page of its table: a record at a place    *)
(* that held none.                                                         *)
LEMMA InsertedStands ==
  ASSUME TableHeapConstants, NEW C, Sound(C), Recorded(C), NEW h \in Heap, NEW p \in C[h],
         NEW r \in Rec, NEW s \in 0 .. MaxSlots, \A q \in Page \ {p} : pages'[q] = pages[q],
         RecIn(pages[p], s) = NoRec,
         \A x : RecIn(pages'[p], x) = IF x = s THEN r ELSE RecIn(pages[p], x)
  PROVE  /\ RidAt(h, p, s) \in Rids /\ RidAt(h, p, s) # NoRid
         /\ \A x \in Rec : ~ Stands(pages, C, RidAt(h, p, s), x)
         /\ \A x \in Rec : \A i \in Rids :
              Stands(pages', C, i, x) <=> \/ Stands(pages, C, i, x)
                                          \/ i = RidAt(h, p, s) /\ x = r
<1> DEFINE new == RidAt(h, p, s)
<1>1. NoRec \notin Rec /\ \A g \in Heap : C[g] \subseteq Page
  BY ChainedPages DEF Sound, Typed, TableHeapConstants
<1>2. new.heap = h /\ new.page = p /\ new.slot = s /\ p \in Page
  BY <1>1 DEF RidAt
<1>3. new \in Rids
  BY <1>2 DEF Rids, RidAt
<1>4. new # NoRid
  <2>1. NoRid.page \notin Page
    BY PagesAre DEF NoRid
  <2> QED
    BY <1>2, <2>1
<1>5. \A x \in Rec : ~ Stands(pages, C, new, x)
  BY <1>1, <1>2 DEF Stands
<1>6. ASSUME NEW x \in Rec, NEW i \in Rids
      PROVE  Stands(pages', C, i, x) <=> Stands(pages, C, i, x) \/ (i = new /\ x = r)
  <2>1. CASE i.heap \in Heap /\ i.page \in C[i.heap] /\ i.page = p /\ i.slot = s
    <3>1. i = new
      BY <2>1, PlaceIs
    <3> HIDE DEF new
    <3> QED
      BY <1>1, <1>2, <2>1, <3>1 DEF Stands
  <2>2. CASE ~ (i.heap \in Heap /\ i.page \in C[i.heap])
    <3>1. i # new
      BY <1>2, <2>2
    <3> QED
      BY <2>2, <3>1 DEF Stands
  <2>3. CASE i.heap \in Heap /\ i.page \in C[i.heap] /\ ~ (i.page = p /\ i.slot = s)
    <3>1. i # new /\ i.page \in Page
      BY <1>1, <1>2, <2>3
    <3>2. RecIn(pages'[i.page], i.slot) = RecIn(pages[i.page], i.slot)
      BY <2>3, <3>1
    <3> QED
      BY <3>1, <3>2 DEF Stands
  <2> QED
    BY <2>1, <2>2, <2>3
<1> QED
  BY <1>3, <1>4, <1>5, <1>6

(* An insertion is answered, or the old place of a moved record is next.   *)
LEMMA InsertedHolds ==
  ASSUME TableHeapConstants, NEW C, Sound(C), Recorded(C), Sound(C)', NEW t \in Thread,
         task[t].pc \in {"put", "putnew"}, NEW i \in Rids, i # NoRid, i.heap = task[t].heap,
         \A x \in Rec : ~ Stands(pages, C, i, x), Inserted(t, i)
  PROVE  /\ \A u \in Thread \ {t} : task'[u] = task[u]
         /\ task'[t].pc \in {"idle", "mark"} /\ task'[t].op # "undo"
         /\ Knows(task'[t], rids', t)
         /\ \A r \in Rec : Owner[r] # t => rids'[r] = rids[r]
         /\ \A r \in Rec : Held(task', rids', r) =
              IF r = task[t].rec THEN Held(task, rids, r) \cup {i} ELSE Held(task, rids, r)
         /\ task[t].op = "insert" \/ Seen(pages, C, task[t].rec)
<1> DEFINE k == task[t]
           r0 == k.rec
<1>1. /\ CallsTyped(task) /\ CallsTyped(task') /\ CallTyped(k) /\ k \in CallState
      /\ rids \in [Rec -> Rids] /\ Knows(k, rids, t)
  BY CallIs, RoomyPages DEF Sound, Typed, RidsTyped
<1>2. /\ r0 \in Rec /\ Owner[r0] = t /\ Held(task, rids, r0) = Keeps(k)
      /\ k.op \in {"insert", "move"} /\ k.new = NoRid /\ NoRec \notin Rec
  BY <1>1, HeldBy DEF CallTyped, Knows, TableHeapConstants
<1>3. CASE k.op = "insert"
  <2>1. Return(t) /\ rids' = [rids EXCEPT ![r0] = i]
    BY <1>3 DEF Inserted
  <2>2. /\ rids'[r0] = i /\ \A r \in Rec \ {r0} : rids'[r] = rids[r]
        /\ task'[t] = Idle /\ \A u \in Thread \ {t} : task'[u] = task[u]
    BY <1>1, <1>2, <2>1, ReturnKeeps DEF QuietCall
  <2>3. Knows(task'[t], rids', t) /\ Idle.rec = NoRec /\ Idle.pc = "idle" /\ Idle.op = "none"
    BY <2>2 DEF Knows, Idle
  <2>4. Held(task, rids, r0) = {}
    BY <1>1, <1>2, <1>3 DEF Keeps, Knows
  <2>5. Held(task', rids', r0) = {i}
    BY <1>2, <2>2, <2>3 DEF Held
  <2>6. ASSUME NEW r \in Rec, r # r0 PROVE Held(task', rids', r) = Held(task, rids, r)
    <3>1. rids'[r] = rids[r]
      BY <2>2, <2>6
    <3> QED
      BY <1>1, <2>2, <2>3, <2>6, <3>1, HeldElse
  <2> QED
    BY <1>2, <1>3, <2>2, <2>3, <2>4, <2>5, <2>6
<1>4. CASE k.op = "move"
  <2> DEFINE j == [k EXCEPT !.pc = "mark", !.new = i, !.at = INVALID_PAGE_ID, !.tried = {}]
  <2>1. Continue(t, j) /\ rids' = rids
    BY <1>4 DEF Inserted
  <2>2. /\ j.pc = "mark" /\ j.op = "move" /\ j.new = i /\ j.old = k.old /\ j.rec = r0
        /\ j.heap = k.heap
    BY <1>1, <1>4 DEF CallState
  <2> HIDE DEF j
  <2>3. task'[t] = j /\ \A u \in Thread \ {t} : task'[u] = task[u]
    BY <1>1, <2>1, ContinueIs
  <2>4. /\ k.old = rids[r0] /\ k.old.heap = k.heap /\ k.old # NoRid /\ k.old \in Rids
    <3>1. k.old = rids[r0] /\ k.old.heap = k.heap
      BY <1>1, <1>4 DEF Knows
    <3>2. k.old.page \in Page
      BY <1>1, <1>4 DEF CallTyped
    <3>3. NoRid.page \notin Page
      BY PagesAre DEF NoRid
    <3> QED
      BY <1>1, <1>2, <3>1, <3>2, <3>3
  <2>5. Held(task, rids, r0) = {k.old} /\ k.old \in Held(task, rids, r0)
    BY <1>2, <2>4 DEF Keeps
  <2>6. Stands(pages, C, k.old, r0)
    BY <1>2, <2>4, <2>5 DEF Recorded, Standing
  <2>7. k.old # i /\ Seen(pages, C, r0)
    BY <1>2, <2>4, <2>6 DEF Seen
  <2>8. Knows(task'[t], rids', t)
    BY <1>2, <2>1, <2>2, <2>3, <2>4, <2>7 DEF Knows
  <2>9. Held(task', rids', r0) = {k.old, i}
    BY <1>2, <2>2, <2>3, <2>4 DEF Held, Keeps
  <2>10. ASSUME NEW r \in Rec, r # r0 PROVE Held(task', rids', r) = Held(task, rids, r)
    <3>1. rids'[r] = rids[r] /\ task'[t].rec # r /\ task[t].rec # r
      BY <2>1, <2>2, <2>3, <2>10
    <3> QED
      BY <1>1, <2>3, <2>8, <3>1, HeldElse
  <2>11. Held(task', rids', r0) = Held(task, rids, r0) \cup {i}
    BY <2>5, <2>9
  <2> QED
    BY <2>1, <2>2, <2>3, <2>7, <2>8, <2>10, <2>11
<1> QED
  BY <1>2, <1>3, <1>4

LEMMA PutRecords ==
  ASSUME TableHeapConstants, NEW C, Sound(C), Recorded(C), NEW t \in Thread, Put(t)
  PROVE  Sound(C)' /\ Recorded(C)' /\ ComesAndGoes(C, C)
<1> DEFINE k == task[t]
           h == k.heap
           p == k.at
           r0 == k.rec
           result == PageInsert(pages[p], r0, k.size)
           j == [k EXCEPT !.pc = "find", !.at = INVALID_PAGE_ID]
           i == RidAt(h, p, result.slot)
<1>1. /\ k.pc \in {"put", "putnew"} /\ UNCHANGED wal
      /\ \/ /\ pages' = [pages EXCEPT ![p] = result.page]
            /\ UpdateFreeSpaceMap(h, {p}) /\ UNCHANGED faults
            /\ CASE result.error = "none" -> Inserted(t, i)
                 [] result.error = "InsufficientSpace" /\ At(t, "put") ->
                      Continue(t, j) /\ UNCHANGED rids
                 [] OTHER -> Return(t) /\ UNCHANGED rids
         \/ Fails /\ Return(t) /\ UNCHANGED <<pages, free_space_map, rids>>
  BY DEF Put
<1>2. Sound(C)'
  BY PutKeeps
<1>3. /\ CallsTyped(task) /\ CallTyped(k) /\ k \in CallState /\ Quiet(k)
      /\ PagesTyped(pages) /\ pages \in [Page -> PageState] /\ Knows(k, rids, t)
      /\ k.pc \in Inserting /\ k.pc # "idle" /\ faults \in Int
  BY <1>1, CallIs, RoomyPages DEF Sound, Typed, PagesTyped, Quiet, Inserting
<1>4. /\ h \in Heap /\ p \in Page /\ r0 \in Rec /\ k.size \in Length
      /\ k.size \in {Min(Length), Max(Length)} /\ p \in C[h]
  BY <1>1, <1>3 DEF CallTyped, Knows, Recorded, InPlace
<1>5. PageTyped(pages[p]) /\ Roomy(pages[p])
  BY <1>3, <1>4, RoomyPages DEF PagesTyped
<1>6. /\ Roomy(result.page)
      /\ result.error = "none" => /\ result.slot \in 0 .. MaxSlots
                                  /\ RecIn(pages[p], result.slot) = NoRec
                                  /\ \A s : RecIn(result.page, s) =
                                       IF s = result.slot THEN r0 ELSE RecIn(pages[p], s)
      /\ result.error # "none" => \A s : RecIn(result.page, s) = RecIn(pages[p], s)
  <2>1. result.error = "none" => result.slot \in 0 .. MaxSlots
    BY <1>4, <1>5, InsertTyped
  <2>2. /\ Roomy(result.page)
        /\ result.error = "none" =>
             /\ RecIn(pages[p], result.slot) = NoRec
             /\ \A s : RecIn(result.page, s) =
                  IF s = result.slot THEN r0 ELSE RecIn(pages[p], s)
        /\ result.error # "none" => \A s : RecIn(result.page, s) = RecIn(pages[p], s)
    BY <1>4, <1>5, InsertRecords
  <2> HIDE DEF result
  <2> QED
    BY <2>1, <2>2
<1>7. /\ j.pc = "find" /\ j.heap = h /\ j.op = k.op /\ j.rec = r0
      /\ j.size = k.size /\ j.old = k.old /\ j.new = k.new /\ j.pc \in Inserting
  BY <1>3 DEF CallState, Inserting
<1> HIDE DEF result, j
<1>8. ASSUME pages' = [pages EXCEPT ![p] = result.page], UpdateFreeSpaceMap(h, {p}),
             UNCHANGED faults
      PROVE  /\ pages'[p] = result.page /\ \A q \in Page \ {p} : pages'[q] = pages[q]
             /\ \A g \in Heap : \A q \in free_space_map'[g] : q \in free_space_map[g] \/ q \in C[g]
             /\ faults' <= faults /\ Whole' = Whole
  <2>1. pages'[p] = result.page /\ \A q \in Page \ {p} : pages'[q] = pages[q]
    BY <1>3, <1>4, <1>8
  <2>2. \A g \in Heap : \A q \in free_space_map'[g] : q \in free_space_map[g] \/ q \in C[g]
    BY <1>4, <1>8, MapGets
  <2>3. faults' <= faults /\ Whole' = Whole
    BY <1>3, <1>8 DEF Whole
  <2> QED
    BY <2>1, <2>2, <2>3
<1>9. CASE /\ pages' = [pages EXCEPT ![p] = result.page]
           /\ UpdateFreeSpaceMap(h, {p}) /\ UNCHANGED faults
           /\ result.error = "none" /\ Inserted(t, i)
  <2>1. /\ pages'[p] = result.page /\ \A q \in Page \ {p} : pages'[q] = pages[q]
        /\ \A g \in Heap : \A q \in free_space_map'[g] : q \in free_space_map[g] \/ q \in C[g]
        /\ faults' <= faults /\ Whole' = Whole
    BY <1>8, <1>9
  <2>2. /\ i \in Rids /\ i # NoRid
        /\ \A x \in Rec : ~ Stands(pages, C, i, x)
        /\ \A x \in Rec : \A y \in Rids :
             Stands(pages', C, y, x) <=> Stands(pages, C, y, x) \/ (y = i /\ x = r0)
    <3>1. /\ result.slot \in 0 .. MaxSlots
          /\ RecIn(pages[p], result.slot) = NoRec
      BY <1>6, <1>9
    <3>2. \A s : RecIn(pages'[p], s) = IF s = result.slot THEN r0 ELSE RecIn(pages[p], s)
      BY <1>6, <1>9, <2>1
    <3> QED
      BY <1>4, <2>1, <3>1, <3>2, InsertedStands
  <2>3. i.heap = h
    BY DEF RidAt
  <2> HIDE DEF i
  <2>4. /\ \A u \in Thread \ {t} : task'[u] = task[u]
        /\ task'[t].pc \in {"idle", "mark"} /\ task'[t].op # "undo"
        /\ Knows(task'[t], rids', t)
        /\ \A r \in Rec : Owner[r] # t => rids'[r] = rids[r]
        /\ \A r \in Rec : Held(task', rids', r) =
             IF r = r0 THEN Held(task, rids, r) \cup {i} ELSE Held(task, rids, r)
        /\ k.op = "insert" \/ Seen(pages, C, r0)
    BY <1>1, <1>2, <1>9, <2>2, <2>3, InsertedHolds
  <2>5. Standing(pages', C, task', rids', Whole')
    <3>1. Standing(pages, C, task, rids, Whole)
      BY DEF Recorded
    <3>2. ASSUME NEW r \in Rec, NEW y \in Rids
          PROVE  /\ y \in Held(task', rids', r) => Stands(pages', C, y, r)
                 /\ Whole' /\ Stands(pages', C, y, r) => y \in Held(task', rids', r)
      <4>1. /\ y \in Held(task, rids, r) => Stands(pages, C, y, r)
            /\ Whole /\ Stands(pages, C, y, r) => y \in Held(task, rids, r)
        BY <3>1 DEF Standing
      <4>2. Stands(pages', C, y, r) <=> Stands(pages, C, y, r) \/ (y = i /\ r = r0)
        BY <2>2
      <4>3. y \in Held(task', rids', r) <=> y \in Held(task, rids, r) \/ (y = i /\ r = r0)
        BY <2>4
      <4> QED
        BY <2>1, <4>1, <4>2, <4>3
    <3> QED
      BY <3>2 DEF Standing
  <2>6. ComesAndGoes(C, C)
    <3>1. ASSUME NEW r \in Rec, Seen(pages', C, r), ~ Seen(pages, C, r) PROVE r \in Working("insert")
      <4>1. r = r0
        BY <2>2, <3>1 DEF Seen
      <4>2. k.op = "insert"
        BY <2>4, <3>1, <4>1
      <4> QED
        BY <4>1, <4>2 DEF Working
    <3>2. ASSUME NEW r \in Rec, Seen(pages, C, r) PROVE Seen(pages', C, r)
      BY <2>2, <3>2 DEF Seen
    <3> QED
      BY <2>2, <3>1, <3>2 DEF ComesAndGoes
  <2>7. Quiet(task'[t]) /\ task'[t].pc \notin {"put", "putnew", "reclaim"}
    BY <2>4 DEF Quiet
  <2>8. Roomy(pages'[p])
    BY <1>6, <2>1
  <2>9. Recorded(C)'
    BY <1>1, <1>2, <1>3, <1>4, <2>1, <2>4, <2>5, <2>7, <2>8, QuietEnds
  <2> QED
    BY <1>2, <2>6, <2>9
<1>10. ASSUME /\ \A u \in Thread \ {t} : task'[u] = task[u]
              /\ Knows(task'[t], rids', t) /\ task'[t].op # "undo"
              /\ task'[t].pc \in {"find", "idle"}
              /\ \A r \in Rec : Held(task', rids', r) = Held(task, rids, r),
              UNCHANGED rids, faults' <= faults,
              \A g \in Heap : \A q \in free_space_map'[g] : q \in free_space_map[g] \/ q \in C[g],
              \A q \in Page : Roomy(pages'[q]) /\ \A s : RecIn(pages'[q], s) = RecIn(pages[q], s)
       PROVE  Recorded(C)' /\ ComesAndGoes(C, C)
  <2>1. Quiet(task'[t]) /\ task'[t].pc \notin {"put", "putnew", "reclaim"}
    BY <1>10 DEF Quiet
  <2>2. \A r \in Rec : Owner[r] # t => rids'[r] = rids[r]
    BY <1>10
  <2> QED
    BY <1>1, <1>2, <1>3, <1>10, <2>1, <2>2, QuietRecords
<1>11. ASSUME Return(t), UNCHANGED rids
       PROVE  /\ \A u \in Thread \ {t} : task'[u] = task[u]
              /\ Knows(task'[t], rids', t) /\ task'[t].op # "undo"
              /\ task'[t].pc \in {"find", "idle"}
              /\ \A r \in Rec : Held(task', rids', r) = Held(task, rids, r)
  <2>1. /\ \A r \in Rec : Held(task', rids', r) = Held(task, rids, r)
        /\ Knows(task'[t], rids', t) /\ task'[t] = Idle
    BY <1>3, <1>11, HeldReturn DEF Inserting
  <2>2. \A u \in Thread \ {t} : task'[u] = task[u]
    BY <1>3, <1>11, ReturnKeeps DEF QuietCall
  <2> QED
    BY <2>1, <2>2 DEF Idle
<1>12. CASE /\ pages' = [pages EXCEPT ![p] = result.page]
            /\ UpdateFreeSpaceMap(h, {p}) /\ UNCHANGED faults
            /\ result.error # "none" /\ UNCHANGED rids
            /\ Continue(t, j) \/ Return(t)
  <2>1. /\ \A g \in Heap : \A q \in free_space_map'[g] : q \in free_space_map[g] \/ q \in C[g]
        /\ faults' <= faults
    BY <1>8, <1>12
  <2>2. \A q \in Page : Roomy(pages'[q]) /\ \A s : RecIn(pages'[q], s) = RecIn(pages[q], s)
    BY <1>4, <1>6, <1>12, SameRecords
  <2>3. /\ \A u \in Thread \ {t} : task'[u] = task[u]
        /\ Knows(task'[t], rids', t) /\ task'[t].op # "undo"
        /\ task'[t].pc \in {"find", "idle"}
        /\ \A r \in Rec : Held(task', rids', r) = Held(task, rids, r)
    <3>1. CASE Return(t)
      BY <1>11, <1>12, <3>1
    <3>2. CASE Continue(t, j)
      <4>1. rids' = rids
        BY <1>12
      <4> QED
        BY <1>3, <1>7, <3>2, <4>1, GoesOn
    <3> QED
      BY <1>12, <3>1, <3>2
  <2> QED
    BY <1>2, <1>10, <1>12, <2>1, <2>2, <2>3
<1>13. CASE Fails /\ Return(t) /\ UNCHANGED <<pages, free_space_map, rids>>
  <2>1. \A g \in Heap : \A q \in free_space_map'[g] : q \in free_space_map[g] \/ q \in C[g]
    BY <1>13
  <2>2. \A q \in Page : Roomy(pages'[q]) /\ \A s : RecIn(pages'[q], s) = RecIn(pages[q], s)
    BY <1>13, RoomyPages
  <2>3. faults' <= faults
    BY <1>13, FailCosts DEF Fails
  <2> QED
    BY <1>2, <1>10, <1>11, <1>13, <2>1, <2>2, <2>3
<1> QED
  <2> HIDE DEF i
  <2> QED
    BY <1>1, <1>9, <1>12, <1>13

(* What a call holds once the record it deletes is gone from its page. *)
Rest(k) == {k.old, k.new} \ {NoRid, Deletes(k)}

LEMMA ChangerIs ==
  ASSUME TableHeapConstants, NEW C, Sound(C), Recorded(C), NEW t \in Thread,
         NEW k, k = task[t], k.pc \in {"mark", "reclaim", "drop"}
  PROVE  /\ CallsTyped(task) /\ CallTyped(k) /\ k \in CallState /\ rids \in [Rec -> Rids]
         /\ k.rec \in Rec /\ Owner[k.rec] = t /\ Held(task, rids, k.rec) = Keeps(k)
         /\ Knows(k, rids, t) /\ k.op \in {"delete", "move", "undo"}
         /\ k.old = rids[k.rec] /\ k.old.heap = k.heap /\ k.heap \in Heap
         /\ k.old # NoRid /\ k.old \in Rids /\ k.new \in Rids
         /\ k.op = "delete" => k.new = NoRid
         /\ k.op # "delete" => k.new # NoRid /\ k.new.heap = k.heap /\ k.new # k.old
         /\ NoRec \notin Rec
<1>1. /\ CallsTyped(task) /\ CallTyped(k) /\ k \in CallState /\ rids \in [Rec -> Rids]
      /\ Knows(k, rids, t)
  BY CallIs, RoomyPages DEF Sound, Typed, RidsTyped
<1>2. k.rec \in Rec /\ Owner[k.rec] = t /\ Held(task, rids, k.rec) = Keeps(k)
  BY <1>1, HeldBy
<1>3. /\ k.op \in {"delete", "move", "undo"} /\ k.old.page \in Page /\ k.heap \in Heap
      /\ k.op # "delete" => k.new.page \in Page
      /\ k.old \in Rids /\ k.new \in Rids
  BY <1>1 DEF CallTyped, CallState
<1>4. NoRid.page \notin Page
  BY PagesAre DEF NoRid
<1>5. /\ k.old = rids[k.rec] /\ k.old.heap = k.heap
      /\ k.op = "delete" => k.new = NoRid
      /\ k.op # "delete" => k.new.heap = k.heap /\ k.new # k.old
  BY <1>1, <1>3 DEF Knows
<1>6. NoRec \notin Rec
  BY DEF TableHeapConstants
<1>7. k.old # NoRid /\ (k.op # "delete" => k.new # NoRid)
  BY <1>3, <1>4
<1> QED
  BY <1>1, <1>2, <1>3, <1>5, <1>6, <1>7

LEMMA AnswerHolds ==
  ASSUME TableHeapConstants, NEW C, Sound(C), Recorded(C), NEW t \in Thread,
         task[t].pc \in {"mark", "reclaim", "drop"}, Answer(t, TRUE), CallsTyped(task')
  PROVE  /\ task'[t] = Idle /\ \A u \in Thread \ {t} : task'[u] = task[u]
         /\ Knows(task'[t], rids', t) /\ task'[t].pc = "idle" /\ task'[t].op = "none"
         /\ \A r \in Rec : Owner[r] # t => rids'[r] = rids[r]
         /\ \A r \in Rec : Held(task', rids', r) =
              IF r = task[t].rec THEN Rest(task[t]) ELSE Held(task, rids, r)
<1> DEFINE k == task[t]
           r0 == k.rec
<1>1. /\ CallsTyped(task) /\ CallTyped(k) /\ k \in CallState /\ rids \in [Rec -> Rids]
      /\ r0 \in Rec /\ Owner[r0] = t /\ Knows(k, rids, t)
      /\ k.op \in {"delete", "move", "undo"} /\ k.old = rids[r0]
      /\ k.old # NoRid /\ k.old \in Rids /\ k.new \in Rids
      /\ k.op = "delete" => k.new = NoRid
      /\ k.op # "delete" => k.new # NoRid /\ k.new.heap = k.heap /\ k.new # k.old
      /\ NoRec \notin Rec
  BY ChangerIs
<1> DEFINE told == CASE k.op = "delete" -> NoRid
                     [] k.op = "move" -> k.new
                     [] k.op = "undo" -> k.old
<1>2. Return(t) /\ rids' = [rids EXCEPT ![r0] = told]
  <2>1. CASE k.op = "delete"
    BY <1>1, <2>1 DEF Answer
  <2>2. CASE k.op = "move"
    BY <1>1, <2>2 DEF Answer
  <2>3. CASE k.op = "undo"
    <3>1. Return(t) /\ rids' = rids /\ told = rids[r0]
      BY <1>1, <2>3 DEF Answer
    <3> HIDE DEF told
    <3> QED
      BY <1>1, <3>1
  <2> QED
    BY <1>1, <2>1, <2>2, <2>3
<1>3. {told} \ {NoRid} = Rest(k)
  <2>1. CASE k.op = "delete"
    BY <1>1, <2>1 DEF Rest, Deletes
  <2>2. CASE k.op = "move"
    BY <1>1, <2>2 DEF Rest, Deletes
  <2>3. CASE k.op = "undo"
    BY <1>1, <2>3 DEF Rest, Deletes
  <2> QED
    BY <1>1, <2>1, <2>2, <2>3
<1> HIDE DEF told
<1>4. rids'[r0] = told /\ \A r \in Rec \ {r0} : rids'[r] = rids[r]
  BY <1>1, <1>2
<1>5. task'[t] = Idle /\ \A u \in Thread \ {t} : task'[u] = task[u]
  BY <1>1, <1>2, ReturnKeeps DEF QuietCall
<1>6. Knows(task'[t], rids', t) /\ Idle.rec = NoRec /\ Idle.pc = "idle" /\ Idle.op = "none"
  BY <1>5 DEF Knows, Idle
<1>7. Held(task', rids', r0) = Rest(k)
  BY <1>1, <1>3, <1>4, <1>5, <1>6 DEF Held
<1>8. ASSUME NEW r \in Rec, r # r0 PROVE Held(task', rids', r) = Held(task, rids, r)
  <2>1. rids'[r] = rids[r]
    BY <1>4, <1>8
  <2> QED
    BY <1>1, <1>5, <1>6, <1>8, <2>1, HeldElse
<1> QED
  BY <1>1, <1>4, <1>5, <1>6, <1>7, <1>8

(* A deletion that fails leaves the record where it is; when it was the    *)
(* copy a failed move made, the client is told of the old place only.      *)
LEMMA RefusalHolds ==
  ASSUME TableHeapConstants, NEW C, Sound(C), Recorded(C), NEW t \in Thread,
         task[t].pc = "mark", Answer(t, FALSE), CallsTyped(task')
  PROVE  /\ \A u \in Thread \ {t} : task'[u] = task[u]
         /\ Knows(task'[t], rids', t) /\ task'[t].pc \in {"idle", "mark"}
         /\ rids' = rids
         /\ \A r \in Rec : /\ Held(task', rids', r) \subseteq Held(task, rids, r)
                           /\ task[t].op # "undo" => Held(task', rids', r) = Held(task, rids, r)
<1> DEFINE k == task[t]
           r0 == k.rec
<1>1. /\ CallsTyped(task) /\ CallTyped(k) /\ k \in CallState /\ rids \in [Rec -> Rids]
      /\ r0 \in Rec /\ Owner[r0] = t /\ Knows(k, rids, t) /\ Held(task, rids, r0) = Keeps(k)
      /\ k.op \in {"delete", "move", "undo"} /\ k.old = rids[r0] /\ k.old.heap = k.heap
      /\ k.old # NoRid
      /\ k.op = "delete" => k.new = NoRid
      /\ k.op # "delete" => k.new # NoRid /\ k.new.heap = k.heap /\ k.new # k.old
      /\ NoRec \notin Rec
  BY ChangerIs
<1>2. rids' = rids
  <2>1. CASE k.op = "delete"
    <3>1. rids' = [rids EXCEPT ![r0] = rids[r0]]
      BY <1>1, <2>1 DEF Answer
    <3> QED
      BY <1>1, <3>1
  <2>2. CASE k.op # "delete"
    BY <1>1, <2>2 DEF Answer
  <2> QED
    BY <2>1, <2>2
<1>3. CASE k.op = "move"
  <2> DEFINE j == [k EXCEPT !.op = "undo", !.pc = "mark"]
  <2>1. Continue(t, j)
    BY <1>3 DEF Answer
  <2>2. /\ j.pc = "mark" /\ j.op = "undo" /\ j.rec = r0 /\ j.heap = k.heap
        /\ j.old = k.old /\ j.new = k.new
    BY <1>1 DEF CallState
  <2> HIDE DEF j
  <2>3. task'[t] = j /\ \A u \in Thread \ {t} : task'[u] = task[u]
    BY <1>1, <2>1, ContinueIs
  <2>4. Knows(task'[t], rids', t)
    BY <1>1, <1>2, <1>3, <2>2, <2>3 DEF Knows
  <2>5. Keeps(task'[t]) = Keeps(task[t]) /\ task'[t].rec = task[t].rec /\ UNCHANGED rids
    BY <1>2, <2>2, <2>3 DEF Keeps
  <2>6. \A r \in Rec : Held(task', rids', r) = Held(task, rids, r)
    BY <1>1, <2>3, <2>5, HeldSame
  <2> QED
    BY <1>2, <2>2, <2>3, <2>4, <2>6
<1>4. CASE k.op # "move"
  <2>1. Return(t)
    BY <1>1, <1>4 DEF Answer
  <2>2. task'[t] = Idle /\ \A u \in Thread \ {t} : task'[u] = task[u]
    BY <1>1, <2>1, ReturnKeeps DEF QuietCall
  <2>3. Knows(task'[t], rids', t) /\ Idle.rec = NoRec /\ Idle.pc = "idle" /\ Idle.op = "none"
    BY <2>2 DEF Knows, Idle
  <2>4. Held(task', rids', r0) = {k.old}
    BY <1>1, <1>2, <2>2, <2>3 DEF Held
  <2>5. /\ Held(task', rids', r0) \subseteq Keeps(k)
        /\ k.op # "undo" => Held(task', rids', r0) = Keeps(k)
    BY <1>1, <1>4, <2>4 DEF Keeps
  <2>6. ASSUME NEW r \in Rec, r # r0 PROVE Held(task', rids', r) = Held(task, rids, r)
    <3>1. rids'[r] = rids[r]
      BY <1>2
    <3> QED
      BY <1>1, <2>2, <2>3, <2>6, <3>1, HeldElse
  <2> QED
    BY <1>1, <1>2, <2>2, <2>3, <2>5, <2>6
<1> QED
  BY <1>3, <1>4

(* What a deletion takes out of a page of its table: one record. *)
LEMMA DeletedStands ==
  ASSUME TableHeapConstants, NEW C, Sound(C), Recorded(C), NEW i \in Rids, NEW r \in Rec,
         Stands(pages, C, i, r), \A q \in Page \ {i.page} : pages'[q] = pages[q],
         \A x : RecIn(pages'[i.page], x) = IF x = i.slot THEN NoRec ELSE RecIn(pages[i.page], x)
  PROVE  /\ \A x \in Rec : \A y \in Rids :
              Stands(pages', C, y, x) <=> Stands(pages, C, y, x) /\ y # i
         /\ \A x \in Rec : Stands(pages, C, i, x) => x = r
<1>1. NoRec \notin Rec /\ \A g \in Heap : C[g] \subseteq Page
  BY ChainedPages DEF Sound, Typed, TableHeapConstants
<1>2. i.heap \in Heap /\ i.page \in C[i.heap] /\ i.page \in Page
  BY <1>1 DEF Stands
<1>3. i = RidAt(i.heap, i.page, i.slot)
  BY <1>2, PlaceIs
<1>4. ASSUME NEW x \in Rec, NEW y \in Rids
      PROVE  Stands(pages', C, y, x) <=> Stands(pages, C, y, x) /\ y # i
  <2>1. CASE y.heap \in Heap /\ y.page \in C[y.heap] /\ y.page = i.page /\ y.slot = i.slot
    <3>1. y = i
      BY <1>2, <1>3, <2>1, PlaceIs
    <3> QED
      BY <1>1, <2>1, <3>1 DEF Stands
  <2>2. CASE ~ (y.heap \in Heap /\ y.page \in C[y.heap])
    BY <2>2 DEF Stands
  <2>3. CASE y.heap \in Heap /\ y.page \in C[y.heap] /\ ~ (y.page = i.page /\ y.slot = i.slot)
    <3>1. y # i /\ y.page \in Page
      BY <1>1, <2>3
    <3>2. RecIn(pages'[y.page], y.slot) = RecIn(pages[y.page], y.slot)
      BY <2>3, <3>1
    <3> QED
      BY <3>1, <3>2 DEF Stands
  <2> QED
    BY <2>1, <2>2, <2>3
<1>5. \A x \in Rec : Stands(pages, C, i, x) => x = r
  BY DEF Stands
<1> QED
  BY <1>4, <1>5

LEMMA MarkRecords ==
  ASSUME TableHeapConstants, NEW C, Sound(C), Recorded(C), NEW t \in Thread, Mark(t)
  PROVE  Sound(C)' /\ Recorded(C)' /\ ComesAndGoes(C, C)
<1> DEFINE k == task[t]
           h == k.heap
           r0 == k.rec
           rid == Doomed(t)
           p == rid.page
           result == PageDelete(pages[p], rid.slot)
           j == [k EXCEPT !.pc = "reclaim"]
<1>1. /\ k.pc = "mark" /\ UNCHANGED wal
      /\ \/ /\ pages' = [pages EXCEPT ![p] = result.page]
            /\ UpdateFreeSpaceMap(h, {p}) /\ UNCHANGED faults
            /\ IF result.error = "none" /\ ~wal
               THEN Continue(t, j) /\ UNCHANGED rids
               ELSE Answer(t, result.error = "none")
         \/ Fails /\ Answer(t, FALSE) /\ UNCHANGED <<pages, free_space_map>>
  BY DEF Mark, At
<1>2. Sound(C)'
  BY MarkKeeps
<1>3. /\ CallsTyped(task) /\ k \in CallState /\ rids \in [Rec -> Rids]
      /\ r0 \in Rec /\ Owner[r0] = t /\ Held(task, rids, r0) = Keeps(k)
      /\ Knows(k, rids, t) /\ k.op \in {"delete", "move", "undo"}
      /\ k.old.heap = h /\ h \in Heap /\ k.old # NoRid /\ k.old \in Rids /\ k.new \in Rids
      /\ k.old = rids[r0]
      /\ k.op = "delete" => k.new = NoRid
      /\ k.op # "delete" => k.new # NoRid /\ k.new.heap = h /\ k.new # k.old
  BY <1>1, ChangerIs
<1>4. CallsTyped(task') /\ Quiet(k) /\ PagesTyped(pages) /\ pages \in [Page -> PageState]
      /\ faults \in 0 .. MaxFaults /\ faults' \in 0 .. MaxFaults /\ MaxFaults \in Nat
  BY <1>1, <1>2 DEF Sound, Typed, Quiet, PagesTyped, TableHeapConstants
<1>5. rid = Deletes(k) /\ rid \in Rids /\ rid # NoRid /\ rid.heap = h
  BY <1>3 DEF Doomed, Deletes
<1>6. Keeps(k) = {k.old, k.new} \ {NoRid} /\ rid \in Keeps(k) /\ Rest(k) = Keeps(k) \ {rid}
  BY <1>1, <1>3, <1>5 DEF Keeps, Rest, Deletes
<1>7. Standing(pages, C, task, rids, Whole)
  BY DEF Recorded
<1>8. Stands(pages, C, rid, r0) /\ p \in C[h] /\ p \in Page
  <2>1. Stands(pages, C, rid, r0)
    BY <1>3, <1>5, <1>6, <1>7 DEF Standing
  <2> QED
    BY <1>5, <2>1, ChainedPages DEF Stands, Sound, Typed
<1>9. PageTyped(pages[p]) /\ Roomy(pages[p]) /\ RecIn(pages[p], rid.slot) # NoRec
  BY <1>3, <1>4, <1>8, RoomyPages DEF PagesTyped, Stands, TableHeapConstants
<1>10. /\ Roomy(result.page) /\ result.error = "none"
       /\ \A i : RecIn(result.page, i) = IF i = rid.slot THEN NoRec ELSE RecIn(pages[p], i)
  BY <1>9, DeleteRecords
<1>11. j.pc = "reclaim" /\ j.op = k.op /\ j.rec = r0 /\ j.heap = h /\ j.old = k.old /\ j.new = k.new
  BY <1>3 DEF CallState
<1> HIDE DEF result, j, rid
<1>12. CASE /\ pages' = [pages EXCEPT ![p] = result.page]
            /\ UpdateFreeSpaceMap(h, {p}) /\ UNCHANGED faults
            /\ IF result.error = "none" /\ ~wal
               THEN Continue(t, j) /\ UNCHANGED rids
               ELSE Answer(t, result.error = "none")
  <2>1. pages'[p] = result.page /\ \A q \in Page \ {p} : pages'[q] = pages[q]
    BY <1>4, <1>8, <1>12
  <2>2. \A g \in Heap : \A q \in free_space_map'[g] : q \in free_space_map[g] \/ q \in C[g]
    BY <1>3, <1>8, <1>12, MapGets
  <2>3. faults' <= faults /\ Whole' = Whole
    BY <1>4, <1>12 DEF Whole
  <2>4. /\ \A x \in Rec : \A y \in Rids :
             Stands(pages', C, y, x) <=> Stands(pages, C, y, x) /\ y # rid
        /\ \A x \in Rec : Stands(pages, C, rid, x) => x = r0
    <3>1. \A x : RecIn(pages'[p], x) = IF x = rid.slot THEN NoRec ELSE RecIn(pages[p], x)
      BY <1>10, <2>1
    <3> QED
      BY <1>3, <1>5, <1>8, <2>1, <3>1, DeletedStands
  <2>5. /\ \A u \in Thread \ {t} : task'[u] = task[u]
        /\ Knows(task'[t], rids', t)
        /\ \A r \in Rec : Owner[r] # t => rids'[r] = rids[r]
        /\ \A r \in Rec : Held(task', rids', r) =
             IF r = r0 THEN Rest(k) ELSE Held(task, rids, r)
        /\ task'[t].pc \in {"idle", "reclaim"} /\ (wal => task'[t].pc # "reclaim")
        /\ task'[t].op = "undo" => task[t].op = "undo"
    <3>1. CASE ~ wal
      <4>1. Continue(t, j) /\ rids' = rids
        BY <1>10, <1>12, <3>1
      <4>2. task'[t] = j /\ \A u \in Thread \ {t} : task'[u] = task[u]
        BY <1>3, <4>1, ContinueIs
      <4>3. Knows(task'[t], rids', t)
        BY <1>1, <1>3, <1>11, <4>1, <4>2 DEF Knows
      <4>4. Held(task', rids', r0) = Rest(k)
        BY <1>3, <1>11, <4>2 DEF Held, Keeps, Rest, Deletes
      <4>5. ASSUME NEW r \in Rec, r # r0 PROVE Held(task', rids', r) = Held(task, rids, r)
        <5>1. rids'[r] = rids[r] /\ task'[t].rec # r
          BY <1>11, <4>1, <4>2, <4>5
        <5> QED
          BY <1>3, <1>4, <4>2, <4>3, <4>5, <5>1, HeldElse
      <4> QED
        BY <1>11, <3>1, <4>1, <4>2, <4>3, <4>4, <4>5
    <3>2. CASE wal
      <4>1. Answer(t, TRUE)
        BY <1>10, <1>12, <3>2
      <4>2. /\ \A u \in Thread \ {t} : task'[u] = task[u]
            /\ Knows(task'[t], rids', t) /\ task'[t].pc = "idle" /\ task'[t].op = "none"
            /\ \A r \in Rec : Owner[r] # t => rids'[r] = rids[r]
            /\ \A r \in Rec : Held(task', rids', r) =
                 IF r = task[t].rec THEN Rest(task[t]) ELSE Held(task, rids, r)
        BY <1>1, <1>4, <4>1, AnswerHolds
      <4> QED
        BY <4>2
    <3> QED
      BY <3>1, <3>2
  <2>6. Standing(pages', C, task', rids', Whole')
    <3>1. ASSUME NEW r \in Rec, NEW y \in Rids
          PROVE  /\ y \in Held(task', rids', r) => Stands(pages', C, y, r)
                 /\ Whole' /\ Stands(pages', C, y, r) => y \in Held(task', rids', r)
      <4>1. /\ y \in Held(task, rids, r) => Stands(pages, C, y, r)
            /\ Whole /\ Stands(pages, C, y, r) => y \in Held(task, rids, r)
        BY <1>7 DEF Standing
      <4>2. Stands(pages', C, y, r) <=> Stands(pages, C, y, r) /\ y # rid
        BY <2>4
      <4>3. Stands(pages, C, y, r) /\ y = rid => r = r0
        BY <2>4
      <4>4. y \in Held(task', rids', r) <=> y \in Held(task, rids, r) /\ ~ (y = rid /\ r = r0)
        BY <1>3, <1>6, <2>5
      <4> QED
        BY <2>3, <4>1, <4>2, <4>3, <4>4
    <3> QED
      BY <3>1 DEF Standing
  <2>7. ComesAndGoes(C, C)
    <3>1. \A r \in Rec : Seen(pages', C, r) => Seen(pages, C, r)
      BY <2>4 DEF Seen
    <3>2. ASSUME NEW r \in Rec, Seen(pages, C, r), ~ Seen(pages', C, r)
          PROVE  r \in Working("delete")
      <4>1. r = r0
        BY <2>4, <3>2 DEF Seen
      <4>2. k.op = "delete"
        <5>1. ASSUME NEW y \in Rest(k) PROVE FALSE
          <6>1. y \in Held(task', rids', r0) /\ y \in Rids
            BY <1>3, <1>6, <2>5, <5>1
          <6>2. Stands(pages', C, y, r0)
            BY <1>3, <2>6, <6>1 DEF Standing
          <6> QED
            BY <3>2, <4>1, <6>1, <6>2 DEF Seen
        <5>2. k.op # "delete" => Rest(k) # {}
          BY <1>3 DEF Rest, Deletes
        <5> QED
          BY <5>1, <5>2
      <4> QED
        BY <4>1, <4>2 DEF Working
    <3>3. \A r \in Rec : \A y \in Rids :
            Stands(pages, C, y, r) /\ ~ Stands(pages', C, y, r) => y = Deletes(k)
      BY <1>5, <2>4
    <3> QED
      BY <1>1, <3>1, <3>2, <3>3 DEF ComesAndGoes
  <2>8. Quiet(task'[t]) /\ task'[t].pc \notin {"put", "putnew"}
    BY <2>5 DEF Quiet
  <2>9. Roomy(pages'[p]) /\ k.pc # "idle"
    BY <1>1, <1>10, <2>1
  <2>10. task'[t].op = "undo" => faults' < MaxFaults
    BY <1>12, <2>5, RoomyPages
  <2>11. Recorded(C)'
    BY <1>1, <1>2, <1>3, <1>4, <1>8, <2>1, <2>2, <2>3, <2>5, <2>6, <2>8, <2>9, <2>10, QuietEnds
  <2> QED
    BY <1>2, <2>7, <2>11
<1>13. CASE Fails /\ Answer(t, FALSE) /\ UNCHANGED <<pages, free_space_map>>
  <2>1. /\ \A u \in Thread \ {t} : task'[u] = task[u]
        /\ Knows(task'[t], rids', t) /\ task'[t].pc \in {"idle", "mark"}
        /\ rids' = rids
        /\ \A r \in Rec : /\ Held(task', rids', r) \subseteq Held(task, rids, r)
                          /\ k.op # "undo" => Held(task', rids', r) = Held(task, rids, r)
    BY <1>1, <1>4, <1>13, RefusalHolds
  <2>2. faults' = faults - 1 /\ faults' <= faults /\ faults' < MaxFaults
    <3>1. Costs(TRUE)
      BY <1>13 DEF Fails
    <3>2. faults' = faults - 1
      BY <3>1, FailCosts
    <3> QED
      BY <1>4, <3>2
  <2>3. \A r \in Rec : \A y : Stands(pages', C, y, r) <=> Stands(pages, C, y, r)
    BY <1>13 DEF Stands
  <2>4. k.op = "undo" => ~ Whole'
    <3>1. k.op = "undo" => faults < MaxFaults
      BY RoomyPages
    <3>2. \A a, b, m \in Int : b = a - 1 /\ a < m => ~ (b + 1 >= m)
      OBVIOUS
    <3> QED
      BY <1>4, <2>2, <3>1, <3>2 DEF Whole
  <2>5. Whole' => Whole
    BY <1>4, <2>2, WholeKept
  <2>6. Standing(pages', C, task', rids', Whole')
    BY <1>7, <2>1, <2>3, <2>4, <2>5 DEF Standing
  <2>7. ComesAndGoes(C, C)
    BY <2>3, StillSeen
  <2>8. Quiet(task'[t]) /\ task'[t].pc \notin {"put", "putnew", "reclaim"} /\ k.pc # "idle"
    BY <1>1, <2>1 DEF Quiet
  <2>9. /\ \A q \in Page \ {p} : pages'[q] = pages[q]
        /\ Roomy(pages'[p])
        /\ \A g \in Heap : \A q \in free_space_map'[g] : q \in free_space_map[g] \/ q \in C[g]
        /\ \A r \in Rec : Owner[r] # t => rids'[r] = rids[r]
    BY <1>9, <1>13, <2>1
  <2>10. Recorded(C)'
    BY <1>1, <1>2, <1>3, <1>4, <1>8, <2>1, <2>2, <2>6, <2>8, <2>9, QuietEnds
  <2> QED
    BY <1>2, <2>7, <2>10
<1> QED
  BY <1>1, <1>12, <1>13

(* Only calls of a heap without log reclaim pages, one at a time. *)
LEMMA NoLog ==
  ASSUME NEW C, Sound(C), Recorded(C), NEW t \in Thread, task[t].pc \in {"reclaim", "drop"}
  PROVE  ~ wal /\ \A u \in Thread \ {t} : task[u].pc = "idle"
BY DEF Recorded, Apart, Sound, Typed

(* The page is taken out of its chain. *)
LEMMA DetachRecords ==
  ASSUME TableHeapConstants, NEW C, Sound(C), Recorded(C), NEW D, Sound(D)', NEW t \in Thread,
         task[t].pc = "reclaim", NEW h, h = task[t].heap, NEW p, p = Doomed(t).page,
         NEW prev, NEW after,
         Continue(t, [task[t] EXCEPT !.pc = "drop", !.prev = prev, !.next = after]),
         Empty(p), UNCHANGED <<wal, free_space_map, rids>>, faults' <= faults,
         \A g \in Heap \ {h} : first_page_id'[g] = first_page_id[g],
         \A g \in Heap \ {h} : \A q \in C[g] : pages'[q].next = pages[q].next,
         \A q \in Page : /\ pages'[q].use = pages[q].use /\ Roomy(pages'[q])
                         /\ \A s : RecIn(pages'[q], s) = RecIn(pages[q], s)
  PROVE  Recorded(D)' /\ ComesAndGoes(C, D)
<1> DEFINE k == task[t]
           j == [k EXCEPT !.pc = "drop", !.prev = prev, !.next = after]
<1>1. /\ CallsTyped(task) /\ CallTyped(k) /\ k \in CallState /\ Knows(k, rids, t)
      /\ k.op \in {"delete", "move", "undo"}
      /\ wal' = wal /\ free_space_map' = free_space_map /\ rids' = rids /\ UNCHANGED rids
      /\ pages \in [Page -> PageState]
  BY ChangerIs DEF Sound, Typed, PagesTyped
<1>2. h \in Heap /\ p \in Page /\ p = Deletes(k).page /\ Hand(k) = {}
  BY <1>1, DoomedIs DEF Hand
<1>3. /\ j.pc = "drop" /\ j.op = k.op /\ j.rec = k.rec /\ j.heap = h
      /\ j.old = k.old /\ j.new = k.new
  BY <1>1 DEF CallState
<1> HIDE DEF j
<1>4. task'[t] = j /\ \A u \in Thread \ {t} : task'[u] = task[u]
  BY <1>1, ContinueIs DEF j
<1>5. Hand(task'[t]) = {p}
  BY <1>2, <1>3, <1>4 DEF Hand, Deletes
<1>6. Knows(task'[t], rids', t) /\ (task'[t].op = "undo" => faults' < MaxFaults)
  <2>1. Knows(task'[t], rids', t)
    BY <1>1, <1>3, <1>4 DEF Knows
  <2>2. /\ k.op = "undo" => faults < MaxFaults
        /\ faults \in Int /\ faults' \in Int /\ MaxFaults \in Int
    BY RoomyPages DEF Sound, Typed, TableHeapConstants
  <2> QED
    BY <1>3, <1>4, <2>1, <2>2
<1>7. \A r \in Rec : Held(task', rids', r) = Held(task, rids, r)
  <2>1. Keeps(task'[t]) = Keeps(task[t]) /\ task'[t].rec = task[t].rec
    BY <1>3, <1>4 DEF Keeps, Deletes
  <2> QED
    BY <1>1, <1>4, <2>1, HeldSame
<1>8. Blank(pages[p]) /\ Blank(pages'[p])
  <2>1. Live(pages[p]) = {} /\ pages[p] \in PageState
    BY <1>1, <1>2 DEF Empty
  <2>2. Blank(pages[p])
    BY <2>1, LiveIs DEF Blank
  <2> QED
    BY <1>2, <2>2 DEF Blank
<1>9. \A r \in Rec : \A i : Stands(pages', D, i, r) <=> Stands(pages, C, i, r)
  <2>1. \A q \in Page : q \notin Hand(task[t]) /\ q \notin Hand(task'[t]) =>
          pages'[q].use = pages[q].use /\ \A s : RecIn(pages'[q], s) = RecIn(pages[q], s)
    OBVIOUS
  <2>2. \A q \in Hand(task[t]) \cup Hand(task'[t]) : Blank(pages[q]) /\ Blank(pages'[q])
    BY <1>2, <1>5, <1>8
  <2> QED
    BY <1>2, <1>4, <2>1, <2>2, StandsStill
<1>10. Standing(pages', D, task', rids', Whole')
  <2>1. Standing(pages, C, task, rids, Whole)
    BY DEF Recorded
  <2>2. Whole' => Whole
    BY WholeKept DEF Sound, Typed
  <2> QED
    BY <1>7, <1>9, <2>1, <2>2, StandingKept
<1>11. ~ wal /\ \A u \in Thread \ {t} : task[u].pc = "idle"
  BY NoLog
<1>12. InPlace(free_space_map', task', D)
  <2>1. /\ \A g \in Heap \ {h} : D[g] = C[g]
        /\ \A q \in Page : pages'[q].use = pages[q].use /\ q \notin Hand(task[t])
                           /\ q \notin Hand(task'[t]) => (q \in D[h] <=> q \in C[h])
    BY <1>2, <1>4, ChainsMove
  <2>2. \A g \in Heap : free_space_map[g] \subseteq C[g] /\ C[g] \subseteq Page
    BY NobodyDrops, ChainedPages DEF Sound, Typed
  <2>3. ASSUME NEW g \in Heap, NEW q \in free_space_map[g]
        PROVE  \/ q \in D[g]
               \/ \E u \in Thread : task'[u].pc = "drop" /\ task'[u].heap = g /\ q \in Hand(task'[u])
    <3>1. q \in C[g] /\ q \in Page
      BY <2>2, <2>3
    <3>2. CASE g # h
      BY <2>1, <3>1, <3>2
    <3>3. CASE g = h /\ q # p
      BY <1>2, <1>5, <2>1, <3>1, <3>3
    <3>4. CASE g = h /\ q = p
      BY <1>3, <1>4, <1>5, <3>4
    <3> QED
      BY <3>2, <3>3, <3>4
  <2>4. \A u \in Thread : task'[u].pc \notin {"put", "putnew"}
    BY <1>3, <1>4, <1>11
  <2> QED
    BY <1>1, <2>3, <2>4 DEF InPlace
<1>13. /\ \A q \in Hand(task'[t]) : Blank(pages'[q])
       /\ \A u \in Thread \ {t} : \A q \in Hand(task[u]) : Blank(pages[q]) => Blank(pages'[q])
  <2>1. \A u \in Thread \ {t} : Hand(task[u]) = {}
    BY <1>11 DEF Hand
  <2> QED
    BY <1>5, <1>8, <2>1
<1>14. /\ UNCHANGED wal /\ task[t].pc # "idle"
       /\ \A r \in Rec : Owner[r] # t => rids'[r] = rids[r]
       /\ wal => task'[t].pc \notin {"reclaim", "drop"}
       /\ \A q \in Page : Roomy(pages'[q])
  BY <1>1, <1>11
<1>15. Recorded(D)'
  BY <1>4, <1>6, <1>10, <1>12, <1>13, <1>14, RecordedStep
<1>16. ComesAndGoes(C, D)
  BY <1>9, StillSeen
<1> QED
  BY <1>15, <1>16

LEMMA ReclaimRecords ==
  ASSUME TableHeapConstants, NEW C, Sound(C), Recorded(C), NEW t \in Thread, Reclaim(t)
  PROVE  \E D : Sound(D)' /\ Recorded(D)' /\ ComesAndGoes(C, D)
<1> DEFINE h == task[t].heap
           p == Doomed(t).page
           after == pages[p].next
           before == {q \in Page : pages[q].next = p}
           j(prev) == [task[t] EXCEPT !.pc = "drop", !.prev = prev, !.next = after]
<1>1. /\ CallsTyped(task) /\ CallTyped(task[t]) /\ PagesTyped(pages) /\ RidsTyped(rids)
      /\ HeapsTyped(first_page_id) /\ faults \in 0 .. MaxFaults /\ faults \in Int
      /\ Chained(pages, first_page_id, tail_page_id, task, C) /\ pages \in [Page -> PageState]
  BY CallIs DEF Sound, Typed, PagesTyped
<1>2. /\ At(t, "reclaim") /\ task[t].pc = "reclaim" /\ ~ Latched(h)
      /\ UNCHANGED <<wal, tail_page_id, free_space_map, scan>>
  BY DEF Reclaim, At
<1>3. h \in Heap /\ p \in Page
  BY <1>1, <1>2, DoomedIs
<1>4. /\ Linked(pages, first_page_id[h], C[h]) /\ C[h] \subseteq Page
      /\ first_page_id[h] \in C[h] \cup {INVALID_PAGE_ID}
      /\ \A g, i \in Heap : \A q : q \in C[g] /\ q \in C[i] => g = i
  BY <1>1, <1>3, ChainedPages, LinkedParts DEF Chained
<1>5. after \in PageIds
  BY <1>1, <1>3 DEF PagesTyped, PageState
<1>6. \A q \in Page : Roomy(pages[q])
  BY RoomyPages
<1>7. ASSUME Answer(t, TRUE), UNCHANGED <<pages, first_page_id>>, faults' \in 0 .. MaxFaults,
             faults' <= faults
      PROVE  \E D : Sound(D)' /\ Recorded(D)' /\ ComesAndGoes(C, D)
  <2>1. QuietCall(t) /\ RidsTyped(rids') /\ Quiet(task[t])
    BY <1>1, <1>2, <1>7, AnswerKeeps DEF Quiet
  <2>2. Typed'
    BY <1>2, <1>7, <2>1 DEF Sound, Typed, QuietCall
  <2>3. Sound(C)'
    BY <1>2, <1>7, <2>1, <2>2, QuietStep
  <2>4. /\ \A u \in Thread \ {t} : task'[u] = task[u]
        /\ Knows(task'[t], rids', t) /\ task'[t].pc = "idle" /\ task'[t].op = "none"
        /\ \A r \in Rec : Owner[r] # t => rids'[r] = rids[r]
        /\ \A r \in Rec : Held(task', rids', r) =
             IF r = task[t].rec THEN Rest(task[t]) ELSE Held(task, rids, r)
    BY <1>2, <1>7, <2>1, AnswerHolds DEF QuietCall
  <2>5. \A r \in Rec : Held(task', rids', r) = Held(task, rids, r)
    <3>1. Held(task, rids, task[t].rec) = Keeps(task[t])
      BY <1>2, ChangerIs
    <3>2. Keeps(task[t]) = Rest(task[t])
      BY <1>2 DEF Keeps, Rest
    <3> QED
      BY <2>4, <3>1, <3>2
  <2>6. /\ Quiet(task'[t]) /\ task'[t].pc \notin {"put", "putnew", "reclaim"}
        /\ task'[t].op # "undo" /\ task[t].pc # "idle"
    BY <1>2, <2>4 DEF Quiet
  <2>7. /\ \A q \in Page : Roomy(pages'[q]) /\ \A s : RecIn(pages'[q], s) = RecIn(pages[q], s)
        /\ \A g \in Heap : \A q \in free_space_map'[g] : q \in free_space_map[g] \/ q \in C[g]
        /\ UNCHANGED wal
    BY <1>2, <1>6, <1>7
  <2>8. /\ \A u \in Thread \ {t} : task'[u] = task[u]
        /\ Knows(task'[t], rids', t) /\ faults' <= faults
        /\ \A r \in Rec : Owner[r] # t => rids'[r] = rids[r]
    BY <1>7, <2>4
  <2> HIDE DEF h, p, after, before
  <2>9. Recorded(C)' /\ ComesAndGoes(C, C)
    BY <2>1, <2>3, <2>5, <2>6, <2>7, <2>8, QuietRecords
  <2> QED
    BY <2>3, <2>9
<1>8. CASE Answer(t, TRUE) /\ UNCHANGED <<pages, first_page_id, faults>>
  <2>1. faults' <= faults /\ faults' \in 0 .. MaxFaults
    BY <1>1, <1>8
  <2> QED
    BY <1>7, <1>8, <2>1
<1>9. CASE Fails /\ Answer(t, TRUE) /\ UNCHANGED <<pages, first_page_id>>
  <2>1. faults' <= faults /\ faults' \in 0 .. MaxFaults
    BY <1>1, <1>9, FailsCost, FailCosts DEF Fails
  <2> QED
    BY <1>7, <1>9, <2>1
<1>10. CASE /\ Empty(p) /\ first_page_id[h] = p
            /\ first_page_id' = [first_page_id EXCEPT ![h] = after]
            /\ Continue(t, j(INVALID_PAGE_ID)) /\ UNCHANGED rids
            /\ UNCHANGED <<pages, faults>>
  <2>1. PICK D : Sound(D)'
    BY ReclaimKeeps DEF IInv
  <2>2. \A g \in Heap \ {h} : first_page_id'[g] = first_page_id[g]
    BY <1>1, <1>3, <1>10 DEF HeapsTyped
  <2>3. /\ \A g \in Heap \ {h} : \A q \in C[g] : pages'[q].next = pages[q].next
        /\ \A q \in Page : /\ pages'[q].use = pages[q].use /\ Roomy(pages'[q])
                           /\ \A s : RecIn(pages'[q], s) = RecIn(pages[q], s)
        /\ faults' <= faults
    BY <1>1, <1>6, <1>10
  <2>4. /\ Continue(t, [task[t] EXCEPT !.pc = "drop", !.prev = INVALID_PAGE_ID, !.next = after])
        /\ UNCHANGED <<wal, free_space_map, rids>> /\ Empty(p)
        /\ h = task[t].heap /\ p = Doomed(t).page
    BY <1>2, <1>10
  <2> HIDE DEF h, p, after
  <2>5. Recorded(D)' /\ ComesAndGoes(C, D)
    BY <1>2, <2>1, <2>2, <2>3, <2>4, DetachRecords
  <2> QED
    BY <2>1, <2>5
<1>11. CASE /\ Empty(p)
            /\ \E w \in Walks(first_page_id[h], before) :
                 /\ IF Found(w)
                    THEN /\ pages' = [pages EXCEPT ![w.stop].next = after]
                         /\ Continue(t, j(w.stop)) /\ UNCHANGED rids
                    ELSE Answer(t, TRUE) /\ UNCHANGED pages
                 /\ Costs(w.failed)
            /\ UNCHANGED first_page_id
  <2> HIDE DEF before
  <2>1. PICK w \in Walks(first_page_id[h], before) :
                 /\ IF Found(w)
                    THEN /\ pages' = [pages EXCEPT ![w.stop].next = after]
                         /\ Continue(t, j(w.stop)) /\ UNCHANGED rids
                    ELSE Answer(t, TRUE) /\ UNCHANGED pages
                 /\ Costs(w.failed)
    BY <1>11
  <2>2. /\ w.failed \in BOOLEAN /\ (w.failed => MayFail)
        /\ Found(w) => w.stop \in C[h]
    BY <1>4, WalkStays
  <2>3. faults' \in 0 .. MaxFaults /\ faults' <= faults
    BY <1>1, <2>1, <2>2, FaultsAre, FailCosts
  <2>4. CASE ~ Found(w)
    BY <1>7, <1>11, <2>1, <2>3, <2>4
  <2>5. CASE Found(w)
    <3> DEFINE q == w.stop
    <3>1. /\ pages' = [pages EXCEPT ![q].next = after] /\ Continue(t, j(q)) /\ UNCHANGED rids
      BY <2>1, <2>5
    <3>2. q \in C[h] /\ q \in Page
      BY <1>4, <2>2, <2>5
    <3> HIDE DEF q
    <3>3. Relinked(pages, pages', q, after)
      BY <3>1 DEF Relinked
    <3>4. /\ \A r \in Page : /\ pages'[r].use = pages[r].use /\ Roomy(pages'[r])
                             /\ \A s : RecIn(pages'[r], s) = RecIn(pages[r], s)
          /\ \A r \in Page \ {q} : pages'[r] = pages[r]
      <4>1. after \in PageIds
        BY <1>5
      <4> HIDE DEF h, p, after
      <4> QED
        BY <3>2, <3>3, <4>1, PagesRelinked
    <3>5. \A g \in Heap \ {h} : \A r \in C[g] : pages'[r].next = pages[r].next
      <4>1. \A g \in Heap : C[g] \subseteq Page
        BY <1>1, ChainedPages
      <4>2. \A g \in Heap \ {h} : q \notin C[g]
        BY <1>3, <1>4, <3>2
      <4> QED
        BY <3>4, <4>1, <4>2
    <3>6. PICK D : Sound(D)'
      BY ReclaimKeeps DEF IInv
    <3>7. /\ Continue(t, [task[t] EXCEPT !.pc = "drop", !.prev = q, !.next = after])
          /\ UNCHANGED <<wal, free_space_map, rids>> /\ Empty(p)
          /\ h = task[t].heap /\ p = Doomed(t).page
          /\ \A g \in Heap \ {h} : first_page_id'[g] = first_page_id[g]
      BY <1>2, <1>11, <3>1
    <3> HIDE DEF h, p, after
    <3>8. Recorded(D)' /\ ComesAndGoes(C, D)
      BY <1>2, <2>3, <3>4, <3>5, <3>6, <3>7, DetachRecords
    <3> QED
      BY <3>6, <3>8
  <2> QED
    BY <2>4, <2>5
<1> QED
  BY <1>8, <1>9, <1>10, <1>11 DEF Reclaim

(* The page in hand is deleted, or back in its chain. *)
LEMMA DropRecords ==
  ASSUME TableHeapConstants, NoneFailsAgain, NEW C, Sound(C), Recorded(C),
         NEW t \in Thread, Drop(t)
  PROVE  \E D : Sound(D)' /\ Recorded(D)' /\ ComesAndGoes(C, D)
<1> DEFINE k == task[t]
           h == k.heap
           p == Doomed(t).page
           prev == k.prev
           tail == CASE first_page_id[h] = INVALID_PAGE_ID -> INVALID_PAGE_ID
                     [] tail_page_id[h] = p -> prev
                     [] OTHER -> tail_page_id[h]
           refresh == IF /\ first_page_id[h] # INVALID_PAGE_ID
                         /\ tail_page_id[h] = p /\ prev = INVALID_PAGE_ID
                      THEN Refreshed(h) ELSE {[last |-> tail, failed |-> FALSE]}
<1>1. /\ At(t, "drop") /\ k.pc = "drop" /\ Answer(t, TRUE) /\ UNCHANGED wal
      /\ \/ /\ Deleted(p)
            /\ free_space_map' = [free_space_map EXCEPT ![h] = @ \ {p}]
            /\ \E w \in refresh : Costs(w.failed)
            /\ UNCHANGED first_page_id
         \/ /\ IF Pinned(p) THEN UNCHANGED faults ELSE Fails
            /\ IF prev = INVALID_PAGE_ID
               THEN /\ first_page_id' = [first_page_id EXCEPT ![h] = p]
                    /\ UNCHANGED pages
               ELSE /\ pages' = [pages EXCEPT ![prev].next =
                                   IF @ = task[t].next THEN p ELSE @]
                    /\ UNCHANGED first_page_id
            /\ UNCHANGED free_space_map
  <2>1. PlainDrop(t)
    BY DropOnce DEF Sound, Typed
  <2> QED
    BY <2>1 DEF PlainDrop, PlainBack, PlainTails, At
<1>2. PICK D : Sound(D)'
  BY DropKeeps DEF IInv
<1>3. /\ h \in Heap /\ p \in Page /\ Hand(k) = {p}
      /\ \A g \in Heap : p \notin C[g] /\ C[g] \subseteq Page
      /\ prev \in C[h] \cup {INVALID_PAGE_ID}
      /\ Linked(pages, first_page_id[h], C[h])
      /\ first_page_id[h] \in C[h] \cup {INVALID_PAGE_ID}
      /\ pages[p].use = "heap"
      /\ prev # INVALID_PAGE_ID => pages[prev].next = task[t].next
  <2>1. /\ h \in Heap /\ p \in Page /\ Hand(k) = {p}
        /\ prev \in C[h] \cup {INVALID_PAGE_ID}
        /\ Linked(pages, first_page_id[h], C[h])
        /\ pages[p].use = "heap"
        /\ prev # INVALID_PAGE_ID => pages[prev].next = task[t].next
    <3>1. /\ h = task[t].heap /\ p = Doomed(t).page /\ prev = task[t].prev /\ k = task[t]
          /\ At(t, "drop")
      BY <1>1
    <3> HIDE DEF h, p, prev, k
    <3>2. /\ h \in Heap /\ p \in Page /\ Hand(task[t]) = {p}
          /\ Linked(pages, first_page_id[h], C[h])
          /\ \A q \in C[h] \cup {p} : pages[q].use = "heap"
          /\ IF task[t].prev = INVALID_PAGE_ID
             THEN first_page_id[h] = task[t].next
             ELSE task[t].prev \in C[h] /\ pages[task[t].prev].next = task[t].next
      BY <3>1, DropIs
    <3> QED
      BY <3>1, <3>2
  <2>2. \A g \in Heap : p \notin C[g] /\ C[g] \subseteq Page
    BY <2>1, ChainedPages DEF Sound, Chained, Typed
  <2>3. first_page_id[h] \in C[h] \cup {INVALID_PAGE_ID}
    BY <2>1, LinkedParts
  <2> QED
    BY <2>1, <2>2, <2>3
<1>4. /\ PagesTyped(pages) /\ pages \in [Page -> PageState] /\ HeapsTyped(first_page_id)
      /\ CallsTyped(task') /\ free_space_map \in [Heap -> SUBSET Page] /\ faults \in Int
      /\ \A g, i \in Heap : \A q : q \in C[g] /\ q \in C[i] => g = i
      /\ INVALID_PAGE_ID \notin Page /\ \A q \in Page : Roomy(pages[q])
      /\ p \in PageIds
  BY <1>2, <1>3, PagesAre, RoomyPages DEF Sound, Typed, PagesTyped, Chained, PageIds
<1>5. /\ task'[t] = Idle /\ \A u \in Thread \ {t} : task'[u] = task[u]
      /\ Knows(task'[t], rids', t) /\ task'[t].pc = "idle" /\ task'[t].op = "none"
      /\ \A r \in Rec : Owner[r] # t => rids'[r] = rids[r]
      /\ \A r \in Rec : Held(task', rids', r) =
           IF r = k.rec THEN Rest(k) ELSE Held(task, rids, r)
  BY <1>1, <1>4, AnswerHolds
<1>6. \A r \in Rec : Held(task', rids', r) = Held(task, rids, r)
  <2>1. Held(task, rids, k.rec) = Keeps(k)
    BY <1>1, ChangerIs
  <2>2. Keeps(k) = Rest(k)
    BY <1>1 DEF Keeps, Rest
  <2> QED
    BY <1>5, <2>1, <2>2
<1>7. ~ wal /\ \A u \in Thread \ {t} : task[u].pc = "idle"
  BY <1>1, NoLog
<1>8. Blank(pages[p])
  BY <1>3 DEF Recorded, EmptyHands
<1>9. Hand(task'[t]) = {}
  BY <1>5 DEF Hand
<1>10. /\ \A q \in Page \ {p} : /\ pages'[q].use = pages[q].use /\ Roomy(pages'[q])
                                /\ \A s : RecIn(pages'[q], s) = RecIn(pages[q], s)
       /\ \A g \in Heap \ {h} : \A q \in C[g] : pages'[q].next = pages[q].next
       /\ \A g \in Heap \ {h} : first_page_id'[g] = first_page_id[g]
       /\ Blank(pages'[p]) /\ Roomy(pages'[p]) /\ faults' <= faults
       /\ \A g \in Heap : \A q \in free_space_map'[g] : q \in free_space_map[g]
       /\ p \in free_space_map'[h] => pages'[p].use = "heap"
  <2>1. CASE /\ Deleted(p)
             /\ free_space_map' = [free_space_map EXCEPT ![h] = @ \ {p}]
             /\ \E w \in refresh : Costs(w.failed)
             /\ UNCHANGED first_page_id
    <3> HIDE DEF refresh, tail
    <3>1. pages'[p] = Freed /\ \A q \in Page \ {p} : pages'[q] = pages[q]
      BY <1>3, <1>4, <2>1 DEF Deleted
    <3>2. PICK w \in refresh : Costs(w.failed)
      BY <2>1
    <3>3. w.failed \in BOOLEAN
      <4>1. CASE w \in Refreshed(h)
        BY <1>3, <4>1, WalkStays DEF Refreshed
      <4>2. CASE w = [last |-> tail, failed |-> FALSE]
        BY <4>2
      <4> QED
        BY <4>1, <4>2 DEF refresh
    <3>4. faults' <= faults
      BY <3>2, <3>3, FailCosts
    <3>5. /\ \A g \in Heap : \A q \in free_space_map'[g] : q \in free_space_map[g]
          /\ p \notin free_space_map'[h]
      <4>1. free_space_map' = [free_space_map EXCEPT ![h] = free_space_map[h] \ {p}]
        BY <2>1
      <4> QED
        BY <1>3, <1>4, <4>1
    <3>6. Blank(Freed) /\ Roomy(Freed)
      BY NewRecords DEF Blank
    <3>7. first_page_id' = first_page_id
      BY <2>1
    <3> HIDE DEF p, h
    <3> QED
      BY <1>3, <1>4, <3>1, <3>4, <3>5, <3>6, <3>7
  <2>2. CASE /\ IF Pinned(p) THEN UNCHANGED faults ELSE Fails
             /\ IF prev = INVALID_PAGE_ID
                THEN /\ first_page_id' = [first_page_id EXCEPT ![h] = p]
                     /\ UNCHANGED pages
                ELSE /\ pages' = [pages EXCEPT ![prev].next =
                                    IF @ = task[t].next THEN p ELSE @]
                     /\ UNCHANGED first_page_id
             /\ UNCHANGED free_space_map
    <3>1. faults' <= faults
      <4>1. CASE UNCHANGED faults
        BY <1>4, <4>1
      <4>2. CASE Fails
        BY <4>2, FailCosts DEF Fails
      <4> QED
        BY <2>2, <4>1, <4>2
    <3>2. free_space_map' = free_space_map
      BY <2>2
    <3>3. CASE prev = INVALID_PAGE_ID
      <4>1. pages' = pages /\ \A g \in Heap \ {h} : first_page_id'[g] = first_page_id[g]
        BY <1>3, <1>4, <2>2, <3>3 DEF HeapsTyped
      <4> HIDE DEF p, h, prev
      <4> QED
        BY <1>3, <1>4, <1>8, <3>1, <3>2, <4>1
    <3>4. CASE prev # INVALID_PAGE_ID
      <4>1. /\ prev \in C[h] /\ prev \in Page /\ prev # p
            /\ Relinked(pages, pages', prev, p) /\ first_page_id' = first_page_id
        <5>1. pages[prev].next = task[t].next
          BY <1>3, <3>4
        <5> QED
          BY <1>3, <2>2, <3>4, <5>1 DEF Relinked
      <4>2. /\ \A r \in Page : /\ pages'[r].use = pages[r].use /\ Roomy(pages'[r])
                               /\ \A s : RecIn(pages'[r], s) = RecIn(pages[r], s)
            /\ \A r \in Page \ {prev} : pages'[r] = pages[r]
        <5>1. p \in PageIds
          BY <1>4
        <5> HIDE DEF h, p, prev, k
        <5> QED
          BY <4>1, <5>1, PagesRelinked
      <4>3. \A g \in Heap \ {h} : prev \notin C[g]
        BY <1>3, <1>4, <4>1
      <4>4. \A g \in Heap \ {h} : \A q \in C[g] : pages'[q].next = pages[q].next
        BY <1>3, <4>2, <4>3
      <4>5. Blank(pages'[p])
        BY <1>3, <1>8, <4>2 DEF Blank
      <4> HIDE DEF p, h, prev
      <4> QED
        BY <1>3, <1>4, <3>1, <3>2, <4>1, <4>2, <4>4, <4>5
    <3> QED
      BY <3>3, <3>4
  <2> HIDE DEF refresh, tail
  <2> QED
    BY <1>1, <2>1, <2>2
<1> HIDE DEF h, p, prev
<1>11. /\ \A g \in Heap \ {h} : D[g] = C[g]
       /\ \A q \in Page : pages'[q].use = pages[q].use /\ q \notin Hand(task[t])
                          /\ q \notin Hand(task'[t]) => (q \in D[h] <=> q \in C[h])
       /\ \A q \in Hand(task[t]) : q \notin Hand(task'[t]) /\ pages'[q].use = "heap" => q \in D[h]
  BY <1>2, <1>3, <1>5, <1>10, ChainsMove
<1>12. \A r \in Rec : \A i : Stands(pages', D, i, r) <=> Stands(pages, C, i, r)
  <2>1. \A q \in Page : q \notin Hand(task[t]) /\ q \notin Hand(task'[t]) =>
          pages'[q].use = pages[q].use /\ \A s : RecIn(pages'[q], s) = RecIn(pages[q], s)
    BY <1>3, <1>10
  <2>2. \A q \in Hand(task[t]) \cup Hand(task'[t]) : Blank(pages[q]) /\ Blank(pages'[q])
    BY <1>3, <1>8, <1>9, <1>10
  <2> QED
    BY <1>2, <1>3, <1>5, <1>10, <2>1, <2>2, StandsStill
<1>13. Standing(pages', D, task', rids', Whole')
  <2>1. Standing(pages, C, task, rids, Whole)
    BY DEF Recorded
  <2>2. Whole' => Whole
    BY <1>2, <1>10, WholeKept DEF Sound, Typed
  <2> QED
    BY <1>6, <1>12, <2>1, <2>2, StandingKept
<1>14. InPlace(free_space_map', task', D)
  <2>1. ASSUME NEW g \in Heap, NEW q \in free_space_map'[g] PROVE q \in D[g]
    <3>1. q \in free_space_map[g]
      BY <1>10, <2>1
    <3>2. q \in C[g] \/ (g = h /\ q = p)
      <4>1. \/ q \in C[g]
            \/ \E u \in Thread : task[u].pc = "drop" /\ task[u].heap = g /\ q \in Hand(task[u])
        BY <3>1 DEF Recorded, InPlace
      <4> QED
        BY <1>3, <1>7, <4>1 DEF h
    <3>3. CASE g = h /\ q = p
      BY <1>3, <1>9, <1>10, <1>11, <2>1, <3>3
    <3>4. CASE g = h /\ q \in C[g]
      <4>1. q \in Page \ {p} /\ q \notin Hand(task[t]) /\ q \notin Hand(task'[t])
        BY <1>3, <1>9, <3>4
      <4> QED
        BY <1>10, <1>11, <3>4, <4>1
    <3>5. CASE g # h /\ q \in C[g]
      BY <1>11, <3>5
    <3> QED
      BY <3>2, <3>3, <3>4, <3>5
  <2>2. \A u \in Thread : task'[u].pc \notin {"put", "putnew"}
    BY <1>5, <1>7
  <2> QED
    BY <2>1, <2>2 DEF InPlace
<1>15. /\ \A q \in Hand(task'[t]) : Blank(pages'[q])
       /\ \A u \in Thread \ {t} : \A q \in Hand(task[u]) : Blank(pages[q]) => Blank(pages'[q])
       /\ \A q \in Page : Roomy(pages'[q])
       /\ task[t].pc # "idle" /\ task'[t].pc \notin {"reclaim", "drop"} /\ task'[t].op # "undo"
  <2>1. \A u \in Thread \ {t} : Hand(task[u]) = {}
    BY <1>7 DEF Hand
  <2> QED
    BY <1>1, <1>5, <1>9, <1>10, <2>1
<1>16. Recorded(D)'
  BY <1>1, <1>2, <1>5, <1>10, <1>13, <1>14, <1>15, RecordedStep
<1>17. ComesAndGoes(C, D)
  BY <1>12, StillSeen
<1> QED
  BY <1>2, <1>16, <1>17

-------------------------------------------------------------------------------
(* Every state and every step.                                             *)

RecordsInv == \E C : Sound(C) /\ Recorded(C)

LEMMA InitRecords ==
  ASSUME TableHeapConstants, Init
  PROVE  RecordsInv
<1>1. PICK C : Sound(C)
  BY InitSound DEF IInv
<1>2. PICK n \in 1 .. (IF wal THEN 2 ELSE 1) :
        pages = [p \in Page |-> CASE p < n -> [InitForNewPage EXCEPT !.next = p + 1]
                                  [] p = n -> InitForNewPage
                                  [] p > n -> Fresh]
  BY DEF Init
<1>3. /\ free_space_map = [g \in Heap |-> {}] /\ faults = MaxFaults /\ MaxFaults \in Nat
      /\ task = [t \in Thread |-> Idle] /\ rids = [r \in Rec |-> NoRid]
  BY DEF Init, TableHeapConstants
<1>4. \A t \in Thread : task[t] = Idle /\ task[t].pc = "idle" /\ task[t].op = "none"
                        /\ task[t].rec = NoRec /\ task[t].new = NoRid /\ Hand(task[t]) = {}
  BY <1>3 DEF Idle, Hand
<1>5. ASSUME NEW p \in Page PROVE Roomy(pages[p]) /\ \A s : RecIn(pages[p], s) = NoRec
  <2>1. p \in Int /\ n \in Int /\ (wal \/ ~ wal)
    BY <1>2, PagesAre DEF Page
  <2>2. p < n \/ p = n \/ p > n
    BY <2>1
  <2>3. CASE p < n
    <3>1. ~ (p = n) /\ ~ (p > n)
      BY <2>1, <2>3
    <3>2. pages[p] = [InitForNewPage EXCEPT !.next = p + 1]
      BY <1>2, <2>3, <3>1
    <3>3. pages[p] \in PageState /\ InitForNewPage \in PageState
      BY <1>1, NewStates DEF Sound, Typed, PagesTyped, PageTyped
    <3>4. pages[p].slots = InitForNewPage.slots /\ pages[p].free = InitForNewPage.free
      BY <3>2 DEF InitForNewPage
    <3> QED
      BY <3>4, NewRecords DEF Roomy, RecIn, Live, Compacted, Bodies
  <2>4. CASE p = n
    BY <1>2, <2>1, <2>4, NewRecords
  <2>5. CASE p > n
    BY <1>2, <2>1, <2>5, NewRecords
  <2> QED
    BY <2>2, <2>3, <2>4, <2>5
<1>6. \A t \in Thread : Knows(task[t], rids, t)
  BY <1>4 DEF Knows
<1>7. Apart(wal, task) /\ InPlace(free_space_map, task, C) /\ EmptyHands(pages, task)
  BY <1>3, <1>4 DEF Apart, InPlace, EmptyHands
<1>8. Standing(pages, C, task, rids, Whole)
  <2>1. NoRec \notin Rec /\ \A r \in Rec : Owner[r] \in Thread
    BY DEF TableHeapConstants
  <2>2. \A r \in Rec : Held(task, rids, r) = {}
    BY <1>3, <1>4, <2>1 DEF Held
  <2>3. \A g \in Heap : C[g] \subseteq Page
    BY <1>1, ChainedPages DEF Sound, Typed
  <2>4. \A r \in Rec : \A i : ~ Stands(pages, C, i, r)
    BY <1>5, <2>1, <2>3 DEF Stands
  <2> QED
    BY <2>2, <2>4 DEF Standing
<1>9. Recorded(C)
  BY <1>4, <1>5, <1>6, <1>7, <1>8 DEF Recorded
<1> QED
  BY <1>1, <1>9 DEF RecordsInv

(* The iterator changes nothing. *)
LEMMA ScanRecords ==
  ASSUME NEW C, Sound(C), Recorded(C), UNCHANGED <<wal, pages, heapvars, task, rids, faults>>
  PROVE  Sound(C)' /\ Recorded(C)' /\ ComesAndGoes(C, C)
<1>1. Sound(C)'
  BY ScanKeeps
<1>2. Recorded(C)'
  BY DEF Recorded, Knows, Apart, InPlace, EmptyHands, Standing, Held, Stands, Whole, heapvars
<1>3. ComesAndGoes(C, C)
  BY DEF ComesAndGoes, Seen, Stands
<1> QED
  BY <1>1, <1>2, <1>3

LEMMA StepRecords ==
  ASSUME TableHeapConstants, NoneFailsAgain, Careful, NEW C, Sound(C), Recorded(C), [Next]_vars
  PROVE  \E D : Sound(D)' /\ Recorded(D)' /\ ComesAndGoes(C, D)
<1>1. CASE UNCHANGED vars
  BY <1>1, ScanRecords DEF vars
<1>2. CASE Scan
  <2>1. UNCHANGED <<wal, pages, heapvars, task, rids, faults>>
    BY <1>2 DEF Scan, ScanNext, ScanEnd, Begin
  <2> QED
    BY <2>1, ScanRecords
<1>3. ASSUME NEW t \in Thread, Call(t)
      PROVE  \E D : Sound(D)' /\ Recorded(D)' /\ ComesAndGoes(C, D)
  <2>1. PICK r \in Rec : /\ Owner[r] = t
                         /\ \/ \E h \in Heap : CallInsert(t, h, r, Min(Length))
                            \/ CallUpdate(t, r, Max(Length))
                            \/ CallDelete(t, r)
    BY <1>3 DEF Call
  <2> QED
    BY <2>1, CallInsertRecords, CallUpdateRecords, CallDeleteRecords
<1>4. ASSUME NEW t \in Thread, Insertion(t)
      PROVE  \E D : Sound(D)' /\ Recorded(D)' /\ ComesAndGoes(C, D)
  BY <1>4, WalkRecords, NewPageRecords, LinkRecords, PutRecords, ProbeRecords DEF Insertion
<1>5. ASSUME NEW t \in Thread, Deletion(t)
      PROVE  \E D : Sound(D)' /\ Recorded(D)' /\ ComesAndGoes(C, D)
  BY <1>5, MarkRecords, ReclaimRecords, DropRecords DEF Deletion
<1> QED
  BY <1>1, <1>2, <1>3, <1>4, <1>5 DEF Next, Step

-------------------------------------------------------------------------------
(* The properties. *)

(* The places of a table are those where records stand. *)
LEMMA PlacesAre ==
  ASSUME TableHeapConstants, NEW C, Sound(C)
  PROVE  /\ \A r \in Rec : {i \in Places : RecordAt(i) = r} =
                             {i \in Rids : Stands(pages, C, i, r)}
         /\ Visible = {r \in Rec : Seen(pages, C, r)}
<1>1. \A h \in Heap : Chain(h) = C[h] /\ C[h] \subseteq Page
  BY ChainIs, ChainedPages DEF Sound, Typed, Chained
<1>2. ASSUME NEW h \in Heap, NEW p \in C[h], NEW s \in Live(pages[p])
      PROVE  LET i == RidAt(h, p, s)
             IN  /\ i \in Rids /\ i.heap = h /\ i.page = p /\ i.slot = s
                 /\ RecordAt(i) \in Rec /\ RecordAt(i) = RecIn(pages[p], s)
  <2>1. p \in Page /\ pages[p] \in PageState /\ pages[p].free + Len(pages[p].slots) <= Capacity
    BY <1>1 DEF Sound, Typed, PagesTyped, PageTyped
  <2>2. /\ s \in 1 .. Len(pages[p].slots) /\ s \in DOMAIN pages[p].slots
        /\ pages[p].slots[s] \in Slot /\ Len(pages[p].slots) \in Nat
        /\ pages[p].slots[s].rec # NoRec
    BY <2>1, LiveIs DEF Live
  <2>3. pages[p].free \in Nat /\ MaxSlots = Capacity /\ Capacity \in Nat
    BY <2>1, SlotsAre DEF PageState
  <2>4. s \in 0 .. MaxSlots
    BY <2>1, <2>2, <2>3
  <2>5. pages[p].slots[s].rec \in Rec
    BY <2>2 DEF Slot
  <2> QED
    BY <2>1, <2>2, <2>4, <2>5 DEF RidAt, Rids, RecordAt, RecIn
<1>3. ASSUME NEW i \in Places
      PROVE  /\ i \in Rids /\ RecordAt(i) \in Rec
             /\ \A r \in Rec : RecordAt(i) = r <=> Stands(pages, C, i, r)
  <2>1. PICK h \in Heap : i \in UNION {{RidAt(h, p, s) : s \in Live(pages[p])} : p \in Chain(h)}
    BY DEF Places
  <2>2. PICK p \in C[h] : i \in {RidAt(h, p, s) : s \in Live(pages[p])}
    BY <1>1, <2>1
  <2>3. PICK s \in Live(pages[p]) : i = RidAt(h, p, s)
    BY <2>2
  <2> QED
    BY <1>2, <2>3 DEF Stands
<1>4. ASSUME NEW r \in Rec, NEW i \in Rids, Stands(pages, C, i, r)
      PROVE  i \in Places /\ RecordAt(i) = r
  <2>1. i.heap \in Heap /\ i.page \in C[i.heap] /\ RecIn(pages[i.page], i.slot) = r
    BY <1>4 DEF Stands
  <2>2. i.page \in Page /\ pages[i.page] \in PageState /\ r # NoRec
    BY <1>1, <2>1 DEF Sound, Typed, PagesTyped, TableHeapConstants
  <2>3. i.slot \in Live(pages[i.page])
    BY <2>1, <2>2, LiveIs
  <2>4. i = RidAt(i.heap, i.page, i.slot)
    BY DEF Rids, RidAt
  <2>5. i \in {RidAt(i.heap, i.page, s) : s \in Live(pages[i.page])}
    BY <2>3, <2>4
  <2>6. i \in UNION {{RidAt(i.heap, p, s) : s \in Live(pages[p])} : p \in Chain(i.heap)}
    BY <1>1, <2>1, <2>5
  <2>7. i \in Places
    BY <2>1, <2>6 DEF Places
  <2> QED
    BY <1>2, <2>1, <2>3, <2>4, <2>7
<1>5. \A r \in Rec : {i \in Places : RecordAt(i) = r} = {i \in Rids : Stands(pages, C, i, r)}
  BY <1>3, <1>4
<1>6. Visible = {r \in Rec : Seen(pages, C, r)}
  BY <1>3, <1>4 DEF Visible, Seen
<1> QED
  BY <1>5, <1>6

LEMMA SeenAre ==
  ASSUME TableHeapConstants
  PROVE  \A C : Sound(C) => Visible = {r \in Rec : Seen(pages, C, r)}
BY PlacesAre

LEMMA SeenThen ==
  (\A C : Sound(C) => Visible = {r \in Rec : Seen(pages, C, r)})'
<1>1. \A C : Sound(C) => Visible = {r \in Rec : Seen(pages, C, r)}
  BY TableHeapConstants, SeenAre
<1> QED
  BY <1>1, PTL

LEMMA RecordsMove ==
  ASSUME TableHeapConstants, NoneFailsAgain, Careful, RecordsInv, [Next]_vars
  PROVE  /\ RecordsInv'
         /\ Visible' \ Visible \subseteq Working("insert")
         /\ Visible \ Visible' \subseteq Working("delete")
<1>1. PICK C : Sound(C) /\ Recorded(C)
  BY DEF RecordsInv
<1>2. PICK D : Sound(D)' /\ Recorded(D)' /\ ComesAndGoes(C, D)
  BY <1>1, StepRecords
<1>3. Visible = {r \in Rec : Seen(pages, C, r)}
  BY <1>1, SeenAre
<1>4. (\A E : Sound(E) => Visible = {r \in Rec : Seen(pages, E, r)})'
  BY SeenThen
<1>5. Visible' = {r \in Rec : Seen(pages', D, r)}
  BY <1>2, <1>4
<1>6. RecordsInv'
  BY <1>2 DEF RecordsInv
<1> QED
  BY <1>2, <1>3, <1>5, <1>6 DEF ComesAndGoes

(* Every state has its records where calls and clients have them. *)
LEMMA RecordsInvariance ==
  ASSUME TableHeapConstants, NoneFailsAgain, Careful
  PROVE  Spec => []RecordsInv
<1>1. Init => RecordsInv
  BY InitRecords
<1>2. RecordsInv /\ [Next]_vars => RecordsInv'
  BY RecordsMove
<1> QED
  BY <1>1, <1>2, PTL DEF Spec

(* As long as clients are careful and the rollback of a failed step does   *)
(* not fail itself, a record comes into a table only by InsertTuple and    *)
(* goes only by DeleteTuple: UpdateTuple, when it moves a record and when  *)
(* the move fails and is taken back, has it in sight at every moment, and  *)
(* what AllocateNewPage and ReclaimPageIfEmpty do to the chain hides       *)
(* nothing.                                                                *)
THEOREM RecordsStayInSight ==
  ASSUME NoneFailsAgain, Careful
  PROVE  Spec => RecordsComeAndGoByCalls
<1>1. RecordsInv /\ [Next]_vars => [/\ Visible' \ Visible \subseteq Working("insert")
                                    /\ Visible \ Visible' \subseteq Working("delete")]_vars
  BY TableHeapConstants, RecordsMove
<1>2. Spec => []RecordsInv
  BY TableHeapConstants, RecordsInvariance
<1> QED
  BY <1>1, <1>2, PTL DEF Spec, RecordsComeAndGoByCalls

(* What is said of a record by what holds it. *)
LEMMA FoundIs ==
  ASSUME TableHeapConstants, NEW C, Sound(C), Recorded(C), NEW r \in Rec
  PROVE  LET of == {i \in Places : RecordAt(i) = r}
         IN  /\ Free(r) => {rids[r]} \ {NoRid} \subseteq of
             /\ Whole => IF Free(r) THEN of = {rids[r]} \ {NoRid}
                                    ELSE Cardinality(of) <= 2
<1> DEFINE of == {i \in Places : RecordAt(i) = r}
           k == task[Owner[r]]
<1>1. of = {i \in Rids : Stands(pages, C, i, r)}
  BY PlacesAre
<1>2. Owner[r] \in Thread /\ r # NoRec
  BY DEF TableHeapConstants
<1>3. k.old \in Rids /\ k.new \in Rids /\ rids[r] \in Rids
  BY <1>2, CallIs DEF Sound, Typed, CallState, RidsTyped
<1>4. Held(task, rids, r) \subseteq Rids
  BY <1>3 DEF Held, Keeps
<1>5. /\ \A i \in Rids : i \in Held(task, rids, r) => Stands(pages, C, i, r)
      /\ Whole => \A i \in Rids : Stands(pages, C, i, r) => i \in Held(task, rids, r)
  BY DEF Recorded, Standing
<1> HIDE DEF of
<1>6. Held(task, rids, r) \subseteq of /\ (Whole => of = Held(task, rids, r))
  BY <1>1, <1>4, <1>5
<1>7. Free(r) => Held(task, rids, r) = {rids[r]} \ {NoRid}
  BY <1>2 DEF Free, Held
<1>8. ASSUME ~ Free(r) PROVE Cardinality(Held(task, rids, r)) <= 2
  <2>1. PICK t \in Thread : task[t].rec = r
    BY <1>8 DEF Free
  <2>2. Knows(task[t], rids, t)
    BY RoomyPages
  <2>3. Owner[r] = t
    BY <1>2, <2>1, <2>2 DEF Knows, Idle
  <2>4. Held(task, rids, r) \subseteq {k.old, k.new}
    BY <2>1, <2>3 DEF Held, Keeps
  <2>5. IsFiniteSet({k.old, k.new}) /\ Cardinality({k.old, k.new}) <= 2
    <3> HIDE DEF k
    <3>1. IsFiniteSet({k.old}) /\ Cardinality({k.old}) = 1
      BY FS_Singleton
    <3>2. /\ IsFiniteSet({k.old} \cup {k.new})
          /\ Cardinality({k.old} \cup {k.new}) =
               IF k.new \in {k.old} THEN Cardinality({k.old}) ELSE Cardinality({k.old}) + 1
      <4>1. IsFiniteSet({k.old})
        BY <3>1
      <4> QED
        BY <4>1, FS_AddElement
    <3>3. {k.old, k.new} = {k.old} \cup {k.new}
      OBVIOUS
    <3>4. Cardinality({k.old} \cup {k.new}) <= 2
      <4>1. CASE k.new \in {k.old}
        BY <3>1, <3>2, <4>1
      <4>2. CASE k.new \notin {k.old}
        BY <3>1, <3>2, <4>2
      <4> QED
        BY <4>1, <4>2
    <3> QED
      BY <3>2, <3>3, <3>4
  <2>6. /\ Cardinality(Held(task, rids, r)) <= Cardinality({k.old, k.new})
        /\ IsFiniteSet(Held(task, rids, r))
    BY <2>4, <2>5, FS_Subset
  <2>7. Cardinality(Held(task, rids, r)) \in Nat /\ Cardinality({k.old, k.new}) \in Nat
    BY <2>5, <2>6, FS_CardinalityType
  <2> QED
    BY <2>5, <2>6, <2>7
<1>9. /\ Free(r) => {rids[r]} \ {NoRid} \subseteq of
      /\ Whole => IF Free(r) THEN of = {rids[r]} \ {NoRid} ELSE Cardinality(of) <= 2
  BY <1>6, <1>7, <1>8
<1> QED
  BY <1>9 DEF of

(* As long as clients are careful and the rollback of a failed step does   *)
(* not fail itself, no failure loses a record: one that nobody is working  *)
(* on is where its client was told, however many steps have failed; and    *)
(* until a second one has, it is nowhere else.                             *)
THEOREM NoRecordIsLost ==
  ASSUME NoneFailsAgain, Careful
  PROVE  Spec => [](/\ \A r \in Rec : Free(r) /\ rids[r] # NoRid =>
                         rids[r] \in Places /\ RecordAt(rids[r]) = r
                    /\ faults >= MaxFaults - 1 => AnsweredRecordsAreFound)
<1>1. ASSUME RecordsInv
      PROVE  /\ \A r \in Rec : Free(r) /\ rids[r] # NoRid =>
                  rids[r] \in Places /\ RecordAt(rids[r]) = r
             /\ faults >= MaxFaults - 1 => AnsweredRecordsAreFound
  <2>1. PICK C : Sound(C) /\ Recorded(C)
    BY <1>1 DEF RecordsInv
  <2>2. faults \in Int /\ MaxFaults \in Int
    BY <2>1, TableHeapConstants DEF Sound, Typed, TableHeapConstants
  <2>3. faults >= MaxFaults - 1 => Whole
    BY <2>2 DEF Whole
  <2>4. \A r \in Rec : Free(r) => {rids[r]} \ {NoRid} \subseteq {i \in Places : RecordAt(i) = r}
    BY <2>1, TableHeapConstants, FoundIs
  <2>5. Whole => AnsweredRecordsAreFound
    BY <2>1, TableHeapConstants, FoundIs DEF AnsweredRecordsAreFound
  <2>6. \A r \in Rec : Free(r) /\ rids[r] # NoRid =>
                         rids[r] \in Places /\ RecordAt(rids[r]) = r
    BY <2>4
  <2> QED
    BY <2>3, <2>5, <2>6
<1>2. Spec => []RecordsInv
  BY TableHeapConstants, RecordsInvariance
<1> QED
  BY <1>1, <1>2, PTL

(* As long as clients are careful and no more than one call of the pool    *)
(* fails in all, a record is where its client was told and nowhere else,   *)
(* and is at no more than two places while a call works on it.  (When the  *)
(* removal from the old place fails, and the removal from the new one      *)
(* after it, UpdateTuple answers with an error and leaves the record at    *)
(* both.)                                                                  *)
THEOREM RecordsAreFound ==
  ASSUME NoneFailsAgain, Careful, MaxFaults <= 1
  PROVE  Spec => []AnsweredRecordsAreFound
<1>1. ASSUME RecordsInv PROVE AnsweredRecordsAreFound
  <2>1. PICK C : Sound(C) /\ Recorded(C)
    BY <1>1 DEF RecordsInv
  <2>2. faults \in Nat /\ MaxFaults \in Nat
    BY <2>1, TableHeapConstants DEF Sound, Typed, TableHeapConstants
  <2>3. Whole
    BY <2>2 DEF Whole
  <2> QED
    BY <2>1, <2>3, TableHeapConstants, FoundIs DEF AnsweredRecordsAreFound
<1>2. Spec => []RecordsInv
  BY TableHeapConstants, RecordsInvariance
<1> QED
  BY <1>1, <1>2, PTL

-------------------------------------------------------------------------------
(* The iterator.                                                           *)

(* A place a scan at slot s of page p, with the pages U from there on, has *)
(* still to pass.                                                          *)
Ahead(i, U, p, s) == i.page \in U /\ (i.page = p => s <= i.slot)

ScanState == [pc : {"closed", "read", "end"}, page : PageIds, slot : Nat,
              due : SUBSET Rec, got : SUBSET Rec, twice : SUBSET Rec]

(* A call has still to take its record from where the client was told. *)
Leaving(k) == k.op \in {"move", "delete"} /\ k.pc \notin {"reclaim", "drop"}

(* Records that are due are ahead of an open scan, those it has got are    *)
(* not, and neither is what calls delete.                                  *)
Passing(sc, k, x, U) ==
  /\ \A r \in sc.due : Ahead(x[r], U, sc.page, sc.slot)
  /\ \A r \in sc.got : ~ Ahead(x[r], U, sc.page, sc.slot)
  /\ \A t \in Thread : Leaving(k[t]) => ~ Ahead(k[t].old, U, sc.page, sc.slot)

Scanned(C) ==
  /\ scan \in ScanState /\ scan.twice = {} /\ scan.due \cap scan.got = {}
  /\ scan.pc # "read" => scan.due = {}
  /\ scan.pc = "closed" => scan.got = {}
  /\ scan.pc # "closed" => ~ wal /\ faults = MaxFaults
  /\ \A r \in scan.due \cup scan.got : rids[r] # NoRid /\ Free(r)
  /\ scan.pc = "read" =>
       /\ \E h \in Heap : scan.page \in C[h]
       /\ scan.slot \in Live(pages[scan.page])
       /\ \E U : Linked(pages, scan.page, U) /\ Passing(scan, task, rids, U)

(* From slot s of page f on, with the pages S from there on, v is where    *)
(* the first record is, with the pages U from there on; or there is none.  *)
SkipsNone(f, S, s, v) ==
  /\ v.page \in S \cup {INVALID_PAGE_ID} /\ v.slot \in Nat
  /\ v.page \notin Page => \A q \in S : \A i \in Live(pages[q]) : q = f /\ ~ (s <= i)
  /\ v.page \in Page =>
       /\ v.slot \in Live(pages[v.page]) /\ (v.page = f => s <= v.slot)
       /\ \E U \in SUBSET S :
            /\ Linked(pages, v.page, U) /\ (v.page # f => f \notin U)
            /\ \A q \in S : \A i \in Live(pages[q]) :
                 (q = f => s <= i) => q \in U /\ (q = v.page => v.slot <= i)

(* AdvanceToNextValid skips no record. *)
LEMMA NextValidIs ==
  ASSUME TableHeapConstants, PagesTyped(pages), NEW f, NEW S, Linked(pages, f, S),
         NEW s \in Nat, NEW v, v = NextValid(f, s)
  PROVE  SkipsNone(f, S, s, v)
<1>1. PICK n \in Nat : \E c : IsPath(pages, f, n, c) /\ S = {c[k] : k \in 0 .. n - 1}
  BY DEF Linked
<1>2. PICK c : IsPath(pages, f, n, c) /\ S = {c[k] : k \in 0 .. n - 1}
  BY <1>1
<1> DEFINE at == Path(f)
           live(k) == {i \in Live(pages[at[k]]) : k = 0 => i >= s}
           Ends == {k \in DOMAIN at : at[k] \notin Page \/ live(k) # {}}
           end == Min(Ends)
<1>3. /\ n \in 0 .. MaxPage /\ DOMAIN at = 0 .. MaxPage
      /\ \A k \in 0 .. MaxPage : at[k] = IF k <= n THEN c[k] ELSE INVALID_PAGE_ID
  BY <1>2, PathIs
<1>4. v = IF at[end] \in Page THEN [page |-> at[end], slot |-> Min(live(end))]
                              ELSE [page |-> INVALID_PAGE_ID, slot |-> 0]
  BY DEF NextValid
<1>5. S \subseteq Page /\ INVALID_PAGE_ID \notin Page /\ MaxPage \in Nat
  BY LinkedParts, PagesAre
<1>6. \A k \in 0 .. n : at[k] = c[k] /\ k \in 0 .. MaxPage
  BY <1>3
<1>7. /\ c[n] = INVALID_PAGE_ID /\ c[0] = f
      /\ \A k \in 0 .. n - 1 : c[k] \in Page /\ pages[c[k]].next = c[k + 1] /\ k \in 0 .. n
      /\ \A j, k \in 0 .. n - 1 : c[j] = c[k] => j = k
  BY <1>2 DEF IsPath
<1> HIDE DEF at
<1>8. n \in Ends /\ Ends \in SUBSET Nat /\ Ends # {}
  BY <1>3, <1>5, <1>6, <1>7
<1>9. end \in Ends /\ end \in Nat /\ \A k \in Ends : end <= k
  <2> HIDE DEF Ends
  <2> QED
    BY <1>8, LeastIsLeast
<1>10. end \in 0 .. n
  BY <1>8, <1>9
<1>11. \A k \in 0 .. n - 1 : ~ (end <= k) => live(k) = {}
  BY <1>3, <1>6, <1>7, <1>9
<1>12. \A q \in Page : Live(pages[q]) \in SUBSET Nat
  <2>1. \A q \in Page : pages[q] \in PageState
    BY DEF PagesTyped
  <2> QED
    BY <2>1, LiveIs
<1>13. CASE end = n
  <2>1. at[end] \notin Page
    BY <1>5, <1>6, <1>7, <1>10, <1>13
  <2>2. v.page = INVALID_PAGE_ID /\ v.slot = 0
    BY <1>4, <2>1
  <2>3. ASSUME NEW q \in S, NEW i \in Live(pages[q]) PROVE q = f /\ ~ (s <= i)
    <3>1. PICK k \in 0 .. n - 1 : q = c[k]
      BY <1>2
    <3>2. live(k) = {} /\ at[k] = c[k]
      <4>1. ~ (end <= k) /\ k \in 0 .. n
        BY <1>13, <3>1
      <4>2. at[k] = c[k]
        BY <1>6, <4>1
      <4>3. live(k) = {}
        <5> HIDE DEF live, end
        <5> QED
          BY <1>11, <3>1, <4>1
      <4> QED
        BY <4>2, <4>3
    <3>3. k = 0 /\ ~ (i >= s)
      BY <2>3, <3>1, <3>2
    <3>4. i \in Nat
      BY <1>5, <1>12
    <3> QED
      BY <1>7, <3>1, <3>3, <3>4
  <2> QED
    BY <1>5, <2>2, <2>3 DEF SkipsNone
<1>14. CASE end # n
  <2> DEFINE p == c[end]
             l == n - end
             e == [k \in 0 .. l |-> c[end + k]]
             U == {e[k] : k \in 0 .. l - 1}
             x == Min(live(end))
  <2>1. end \in 0 .. n - 1 /\ l \in Nat
    BY <1>10, <1>14
  <2>2. at[end] = p /\ p \in Page /\ p \in S
    BY <1>2, <1>6, <1>7, <1>10, <2>1
  <2>3. v.page = p /\ v.slot = x
    BY <1>4, <2>2
  <2>4. live(end) # {} /\ live(end) \in SUBSET Nat
    BY <1>9, <1>12, <2>2
  <2>5. x \in live(end) /\ \A i \in live(end) : x <= i
    <3> HIDE DEF live
    <3> QED
      BY <2>4, LeastIsLeast
  <2>6. x \in Live(pages[p]) /\ x \in Nat /\ (p = f => s <= x)
    <3>1. x \in Live(pages[p]) /\ x \in Nat /\ (end = 0 => x >= s)
      BY <2>2, <2>4, <2>5
    <3>2. p = f => end = 0
      BY <1>7, <2>1
    <3> HIDE DEF x
    <3> QED
      BY <3>1, <3>2
  <2>7. /\ \A k \in 0 .. l : end + k \in 0 .. n /\ e[k] = c[end + k]
        /\ \A k \in 0 .. l - 1 : end + k \in 0 .. n - 1 /\ e[k] = c[end + k]
    <3>1. n \in Nat /\ end \in Nat /\ l \in Nat /\ l = n - end
      BY <1>9, <2>1
    <3>2. \A k \in 0 .. l : e[k] = c[end + k]
      OBVIOUS
    <3> HIDE DEF e, l, end
    <3>3. \A k \in 0 .. l - 1 : k \in 0 .. l
      BY <3>1
    <3>4. /\ \A k \in 0 .. l : end + k \in 0 .. n
          /\ \A k \in 0 .. l - 1 : end + k \in 0 .. n - 1
      BY <3>1
    <3> QED
      BY <3>2, <3>3, <3>4
  <2>8. IsPath(pages, p, l, e)
    <3>1. e \in [0 .. l -> Page \cup {INVALID_PAGE_ID}]
      <4>1. c \in [0 .. n -> Page \cup {INVALID_PAGE_ID}]
        BY <1>2 DEF IsPath
      <4> QED
        BY <2>7, <4>1
    <3>2. e[0] = p /\ e[l] = INVALID_PAGE_ID
      <4>1. 0 \in 0 .. l /\ l \in 0 .. l /\ end + 0 = end /\ end + l = n
        BY <1>9, <2>1
      <4> HIDE DEF l, e
      <4> QED
        BY <1>7, <2>7, <4>1
    <3>3. \A k \in 0 .. l - 1 : e[k] \in Page /\ pages[e[k]].next = e[k + 1]
      <4> SUFFICES ASSUME NEW k \in 0 .. l - 1
                   PROVE  e[k] \in Page /\ pages[e[k]].next = e[k + 1]
        OBVIOUS
      <4>1. k + 1 \in 0 .. l /\ end + (k + 1) = (end + k) + 1 /\ end + k \in 0 .. n - 1
        BY <1>9, <2>1, <2>7
      <4>2. e[k + 1] = c[(end + k) + 1] /\ e[k] = c[end + k]
        BY <2>7, <4>1
      <4> HIDE DEF e, l
      <4> QED
        BY <1>7, <4>1, <4>2
    <3>4. \A j, k \in 0 .. l - 1 : e[j] = e[k] => j = k
      <4> SUFFICES ASSUME NEW j \in 0 .. l - 1, NEW k \in 0 .. l - 1, e[j] = e[k] PROVE j = k
        OBVIOUS
      <4>1. c[end + j] = c[end + k] /\ end + j \in 0 .. n - 1 /\ end + k \in 0 .. n - 1
        BY <2>7
      <4>2. end + j = end + k
        BY <1>7, <4>1
      <4> QED
        BY <1>9, <2>1, <4>2
    <3> HIDE DEF e, l
    <3> QED
      BY <2>1, <3>1, <3>2, <3>3, <3>4 DEF IsPath
  <2>9. U \in SUBSET S /\ Linked(pages, p, U)
    <3>1. U \in SUBSET S
      BY <1>2, <2>7
    <3> HIDE DEF e, l, p
    <3> QED
      BY <2>1, <2>8, <3>1 DEF Linked
  <2>10. p # f => f \notin U
    <3> SUFFICES ASSUME NEW k \in 0 .. l - 1, e[k] = f PROVE p = f
      OBVIOUS
    <3>1. end + k \in 0 .. n - 1 /\ c[end + k] = c[0] /\ 0 \in 0 .. n - 1
      BY <1>7, <2>1, <2>7
    <3>2. end + k = 0
      BY <1>7, <3>1
    <3>3. end = 0
      BY <1>9, <3>2
    <3> QED
      BY <1>7, <3>3
  <2>11. ASSUME NEW q \in S, NEW i \in Live(pages[q]), q = f => s <= i
         PROVE  q \in U /\ (q = p => x <= i)
    <3>1. PICK k \in 0 .. n - 1 : q = c[k]
      BY <1>2
    <3>2. at[k] = c[k] /\ (k = 0 => q = f) /\ i \in Nat
      BY <1>5, <1>6, <1>7, <1>12, <3>1
    <3>3. i \in live(k)
      BY <2>11, <3>1, <3>2
    <3>4. end <= k
      BY <1>11, <3>1, <3>3
    <3>5. q \in U
      <4>1. k - end \in 0 .. l - 1 /\ end + (k - end) = k
        BY <1>9, <2>1, <3>1, <3>4
      <4>2. e[k - end] = c[k]
        BY <2>7, <4>1
      <4> QED
        BY <3>1, <4>1, <4>2
    <3>6. q = p => k = end
      BY <1>7, <2>1, <3>1
    <3>7. q = p => x <= i
      BY <2>5, <3>3, <3>6
    <3> QED
      BY <3>5, <3>7
  <2> HIDE DEF U, x, p
  <2> QED
    BY <2>2, <2>3, <2>6, <2>9, <2>10, <2>11 DEF SkipsNone
<1> QED
  BY <1>13, <1>14

(* As no call fails while a scan is open, each record is at its place and  *)
(* nowhere else.                                                           *)
LEMMA PlacedIs ==
  ASSUME TableHeapConstants, NEW C, Sound(C), Recorded(C), faults = MaxFaults
  PROVE  /\ \A r \in Rec : Free(r) /\ rids[r] # NoRid =>
              /\ rids[r] \in Rids /\ Stands(pages, C, rids[r], r)
              /\ \A i \in Rids : Stands(pages, C, i, r) => i = rids[r]
         /\ \A t \in Thread : Leaving(task[t]) =>
              /\ task[t].old \in Rids /\ \E r \in Rec : Stands(pages, C, task[t].old, r)
         /\ \A t \in Thread : task[t].pc = "mark" =>
              Leaving(task[t]) /\ Deletes(task[t]) = task[t].old
<1>1. Whole /\ Standing(pages, C, task, rids, Whole) /\ MaxFaults \in Nat
  BY DEF Recorded, Whole, TableHeapConstants
<1>2. ASSUME NEW r \in Rec, Free(r), rids[r] # NoRid
      PROVE  /\ rids[r] \in Rids /\ Stands(pages, C, rids[r], r)
             /\ \A i \in Rids : Stands(pages, C, i, r) => i = rids[r]
  <2>1. Owner[r] \in Thread /\ rids[r] \in Rids
    BY DEF TableHeapConstants, Sound, Typed, RidsTyped
  <2>2. Held(task, rids, r) = {rids[r]}
    BY <1>2, <2>1 DEF Held, Free
  <2> QED
    BY <1>1, <2>1, <2>2 DEF Standing
<1>3. \A t \in Thread : Knows(task[t], rids, t) /\ CallTyped(task[t]) /\ task[t] \in CallState
  BY RoomyPages, CallIs DEF Sound, Typed
<1>4. \A t \in Thread : task[t].op # "undo"
  <2>1. MaxFaults \in Int /\ ~ (faults < MaxFaults)
    BY <1>1
  <2> QED
    BY <2>1, RoomyPages
<1>5. ASSUME NEW t \in Thread, Leaving(task[t])
      PROVE  /\ task[t].old \in Rids /\ \E r \in Rec : Stands(pages, C, task[t].old, r)
  <2>1. task[t].pc # "idle" /\ task[t].op \in {"move", "delete"}
        /\ task[t].pc \notin {"reclaim", "drop"}
    BY <1>3, <1>5 DEF Leaving, Knows, Idle
  <2>2. /\ task[t].rec \in Rec /\ Held(task, rids, task[t].rec) = Keeps(task[t])
        /\ task[t].old \in Rids
    BY <1>3, <2>1, HeldBy DEF Sound, Typed, CallState, CallTyped
  <2>3. task[t].old.page \in Page
    BY <1>3, <2>1 DEF CallTyped, CallState
  <2>4. task[t].old # NoRid
    BY <2>3, PagesAre DEF NoRid
  <2>5. task[t].old \in Keeps(task[t])
    BY <2>1, <2>4 DEF Keeps
  <2> QED
    BY <1>1, <2>2, <2>5 DEF Standing
<1>6. ASSUME NEW t \in Thread, task[t].pc = "mark"
      PROVE  Leaving(task[t]) /\ Deletes(task[t]) = task[t].old
  <2>1. task[t].op \in {"delete", "move"}
    BY <1>3, <1>4, <1>6 DEF CallTyped
  <2> QED
    BY <1>6, <2>1 DEF Leaving, Deletes
<1> QED
  BY <1>2, <1>5, <1>6

(* Where an open scan is. *)
LEMMA ScanPlace ==
  ASSUME TableHeapConstants, NEW C, Sound(C), Recorded(C), Scanned(C), scan.pc = "read",
         NEW h \in Heap, scan.page \in C[h]
  PROVE  LET i == RidAt(h, scan.page, scan.slot)
             r == RecIn(pages[scan.page], scan.slot)
         IN  /\ scan.page \in Page /\ i \in Rids /\ i.page = scan.page /\ i.slot = scan.slot
             /\ r \in Rec /\ Stands(pages, C, i, r)
<1>1. \A g \in Heap : Chain(g) = C[g] /\ C[g] \subseteq Page
  BY ChainIs, ChainedPages DEF Sound, Typed, Chained
<1> DEFINE p == scan.page
           s == scan.slot
           i == RidAt(h, p, s)
<1>2. p \in Page /\ s \in Live(pages[p]) /\ pages[p] \in PageState
  BY <1>1 DEF Scanned, Sound, Typed, PagesTyped
<1>3. s \in DOMAIN pages[p].slots /\ pages[p].slots[s] \in Slot
  BY <1>2, LiveIs
<1>4. RecIn(pages[p], s) \in Rec /\ RecIn(pages[p], s) = RecordAt(i) /\ i.page = p /\ i.slot = s
  BY <1>2, <1>3 DEF RecIn, Slot, Live, RecordAt, RidAt
<1>5. i \in Places
  <2>1. i \in {RidAt(h, p, x) : x \in Live(pages[p])}
    BY <1>2
  <2>2. i \in UNION {{RidAt(h, q, x) : x \in Live(pages[q])} : q \in Chain(h)}
    BY <1>1, <2>1
  <2> QED
    BY <2>2 DEF Places
<1> HIDE DEF i
<1>6. i \in {y \in Rids : Stands(pages, C, y, RecIn(pages[p], s))}
  BY <1>4, <1>5, PlacesAre
<1> QED
  BY <1>2, <1>4, <1>6 DEF i

(* The pages an open scan has before it, and those it has after a step.    *)
Onward(C) ==
  \A U : scan.pc = "read" /\ Linked(pages, scan.page, U) /\ Live(pages[scan.page]) # {}
         /\ (\E h \in Heap : scan.page \in C[h] /\ U \subseteq C[h]) =>
    \E V : /\ Linked(pages', scan.page, V)
           /\ \A q \in V \ U : \A g \in Heap : q \notin C[g]
           /\ \A q \in U \ V : Live(pages[q]) = {}

LEMMA OnwardPages ==
  ASSUME TableHeapConstants, NEW C, Sound(C), NEW h \in Heap, NEW p \in C[h], NEW U,
         Linked(pages, p, U)
  PROVE  U \subseteq C[h] /\ p \in U
<1>1. Linked(pages, first_page_id[h], C[h]) /\ C[h] \subseteq Page
  BY ChainedPages DEF Sound, Typed, Chained
<1>2. PICK T \in SUBSET C[h] : Linked(pages, p, T)
  BY <1>1, LinkedFrom
<1>3. T = U
  BY <1>2, LinkedOnce
<1>4. p \in U \cup {INVALID_PAGE_ID} /\ p # INVALID_PAGE_ID
  BY <1>1, LinkedParts, PagesAre
<1> QED
  BY <1>2, <1>3, <1>4

(* What clients and calls do leaves an open scan where it is, with the     *)
(* same records before it.                                                 *)
LEMMA ScanStays ==
  ASSUME TableHeapConstants, NEW C, Sound(C), Recorded(C), Scanned(C), NEW D, Sound(D)',
         ComesAndGoes(C, D), Onward(C),
         scan.pc # "closed", UNCHANGED wal, faults' = faults,
         scan' \in ScanState, scan'.pc = scan.pc, scan'.page = scan.page,
         scan'.slot = scan.slot, scan'.twice = scan.twice,
         scan'.due \subseteq scan.due, scan'.got \subseteq scan.got,
         \A r \in scan'.due \cup scan'.got :
           rids'[r] = rids[r] /\ \A t \in Thread : task'[t].rec # r,
         \A t \in Thread : Leaving(task'[t]) =>
           \/ Leaving(task[t]) /\ task'[t].old = task[t].old
           \/ \E r \in scan.got : task'[t].old = rids[r]
  PROVE  Scanned(D)'
<1>1. /\ scan \in ScanState /\ scan.twice = {} /\ scan.due \cap scan.got = {}
      /\ scan.pc # "read" => scan.due = {}
      /\ ~ wal /\ faults = MaxFaults
      /\ \A r \in scan.due \cup scan.got : rids[r] # NoRid /\ Free(r)
      /\ scan.due \subseteq Rec /\ scan.got \subseteq Rec
  BY DEF Scanned, ScanState
<1>2. /\ scan'.twice = {} /\ scan'.due \cap scan'.got = {}
      /\ scan'.pc # "read" => scan'.due = {}
      /\ scan'.pc # "closed" /\ ~ wal' /\ faults' = MaxFaults
      /\ \A r \in scan'.due \cup scan'.got : rids'[r] # NoRid /\ Free(r)'
  BY <1>1 DEF Free
<1>3. CASE scan.pc # "read"
  BY <1>2, <1>3 DEF Scanned
<1>4. CASE scan.pc = "read"
  <2> DEFINE p == scan.page
             s == scan.slot
  <2>1. PICK h \in Heap : p \in C[h]
    BY <1>4 DEF Scanned
  <2>2. PICK U : Linked(pages, p, U) /\ Passing(scan, task, rids, U)
    BY <1>4 DEF Scanned
  <2>3. U \subseteq C[h] /\ p \in U
    BY <2>1, <2>2, OnwardPages
  <2> DEFINE i == RidAt(h, p, s)
             x == RecIn(pages[p], s)
  <2>4. /\ p \in Page /\ i \in Rids /\ i.page = p /\ i.slot = s
        /\ x \in Rec /\ Stands(pages, C, i, x)
    BY <1>4, <2>1, ScanPlace
  <2>5. s \in Live(pages[p]) /\ s \in Nat
    BY <1>1, <1>4 DEF Scanned, ScanState
  <2>6. /\ \A r \in Rec : Free(r) /\ rids[r] # NoRid =>
             rids[r] \in Rids /\ Stands(pages, C, rids[r], r)
        /\ \A t \in Thread : Leaving(task[t]) =>
             task[t].old \in Rids /\ \E r \in Rec : Stands(pages, C, task[t].old, r)
        /\ \A t \in Thread : task[t].pc = "mark" =>
             Leaving(task[t]) /\ Deletes(task[t]) = task[t].old
    BY <1>1, PlacedIs
  <2>7. Ahead(i, U, p, s)
    BY <2>3, <2>4, <2>5 DEF Ahead
  <2>8. Stands(pages', D, i, x)
    <3> SUFFICES ASSUME ~ Stands(pages', D, i, x) PROVE FALSE
      OBVIOUS
    <3>1. PICK t \in Thread : task[t].pc = "mark" /\ i = Deletes(task[t])
      BY <2>4 DEF ComesAndGoes
    <3>2. Leaving(task[t]) /\ i = task[t].old
      BY <2>6, <3>1
    <3> HIDE DEF i, x, p, s
    <3>3. ~ Ahead(i, U, scan.page, scan.slot)
      BY <2>2, <3>2 DEF Passing
    <3> QED
      BY <2>7, <3>3 DEF p, s
  <2>9. PICK V : /\ Linked(pages', p, V)
                 /\ \A q \in V \ U : \A g \in Heap : q \notin C[g]
                 /\ \A q \in U \ V : Live(pages[q]) = {}
    BY <1>4, <2>1, <2>2, <2>3, <2>5 DEF Onward
  <2>10. \E g \in Heap : p \in D[g]
    BY <2>4, <2>8 DEF Stands
  <2>11. s \in Live(pages'[p])
    <3>1. pages'[p] \in PageState
      BY <2>4 DEF Sound, Typed, PagesTyped
    <3>2. RecIn(pages'[p], s) \in Rec
      BY <2>4, <2>8 DEF Stands
    <3> QED
      BY <3>1, <3>2, LiveIs DEF TableHeapConstants
  <2>12. ASSUME NEW y, NEW r \in Rec, Stands(pages, C, y, r)
         PROVE  Ahead(y, V, p, s) <=> Ahead(y, U, p, s)
    <3>1. y.heap \in Heap /\ y.page \in C[y.heap] /\ RecIn(pages[y.page], y.slot) = r
      BY <2>12 DEF Stands
    <3>2. y.page \in Page /\ pages[y.page] \in PageState
      BY <3>1, ChainedPages DEF Sound, Typed, PagesTyped
    <3>3. Live(pages[y.page]) # {}
      BY <3>1, <3>2, LiveIs DEF TableHeapConstants
    <3>4. y.page \in U <=> y.page \in V
      BY <2>9, <3>1, <3>3
    <3> QED
      BY <3>4 DEF Ahead
  <2> HIDE DEF i, x
  <2>13. Passing(scan', task', rids', V)
    <3>1. scan'.page = p /\ scan'.slot = s
      OBVIOUS
    <3>2. ASSUME NEW r \in scan'.due PROVE Ahead(rids'[r], V, p, s)
      <4>1. r \in scan.due /\ r \in Rec /\ rids'[r] = rids[r]
        BY <1>1
      <4>2. Ahead(rids[r], U, p, s)
        BY <2>2, <4>1 DEF Passing
      <4>3. Stands(pages, C, rids[r], r)
        BY <1>1, <2>6, <4>1
      <4> HIDE DEF p, s
      <4> QED
        BY <2>12, <4>1, <4>2, <4>3
    <3>3. ASSUME NEW r \in scan.got PROVE ~ Ahead(rids[r], V, p, s)
      <4>1. r \in Rec /\ Stands(pages, C, rids[r], r)
        BY <1>1, <2>6
      <4>2. ~ Ahead(rids[r], U, p, s)
        BY <2>2 DEF Passing
      <4> HIDE DEF p, s
      <4> QED
        BY <2>12, <4>1, <4>2
    <3>4. ASSUME NEW r \in scan'.got PROVE ~ Ahead(rids'[r], V, p, s)
      BY <3>3
    <3>5. ASSUME NEW t \in Thread, Leaving(task'[t]) PROVE ~ Ahead(task'[t].old, V, p, s)
      <4>1. CASE Leaving(task[t]) /\ task'[t].old = task[t].old
        <5>1. ~ Ahead(task[t].old, U, p, s)
          BY <2>2, <4>1 DEF Passing
        <5>2. \E r \in Rec : Stands(pages, C, task[t].old, r)
          BY <2>6, <4>1
        <5> HIDE DEF p, s
        <5> QED
          BY <2>12, <4>1, <5>1, <5>2
      <4>2. CASE \E r \in scan.got : task'[t].old = rids[r]
        BY <3>3, <4>2
      <4> QED
        BY <3>5, <4>1, <4>2
    <3> HIDE DEF p, s
    <3> QED
      BY <3>1, <3>2, <3>4, <3>5 DEF Passing
  <2>14. /\ \E g \in Heap : scan'.page \in D[g]
         /\ scan'.slot \in Live(pages'[scan'.page])
         /\ \E W : Linked(pages', scan'.page, W) /\ Passing(scan', task', rids', W)
    BY <2>9, <2>10, <2>11, <2>13
  <2> QED
    BY <1>2, <2>14 DEF Scanned
<1> QED
  BY <1>3, <1>4

(* The iterator is opened. *)
LEMMA BeginScanned ==
  ASSUME TableHeapConstants, Careful, NEW C, Sound(C), Recorded(C), Scanned(C),
         NEW h \in Heap, Begin(h)
  PROVE  Scanned(C)'
<1> DEFINE v == NextValid(first_page_id[h], 1)
           due == {r \in Rec : rids[r].heap = h /\ Free(r)}
<1>1. /\ scan' = [Position(Closed, v) EXCEPT !.due = due]
      /\ wal' = wal /\ pages' = pages /\ rids' = rids /\ task' = task /\ faults' = faults
      /\ ~ wal /\ faults = MaxFaults /\ \A t \in Thread : task[t].pc = "idle"
  BY DEF Begin, Alone, At
<1>2. /\ PagesTyped(pages) /\ Linked(pages, first_page_id[h], C[h])
      /\ \A g \in Heap : C[g] \subseteq Page
      /\ INVALID_PAGE_ID \notin Page /\ 1 \in Nat
  BY ChainedPages, PagesAre DEF Sound, Typed, Chained
<1>3. /\ v.page \in C[h] \cup {INVALID_PAGE_ID} /\ v.slot \in Nat
      /\ v.page \notin Page =>
           \A q \in C[h] : \A i \in Live(pages[q]) : q = first_page_id[h] /\ ~ (1 <= i)
      /\ v.page \in Page =>
           /\ v.slot \in Live(pages[v.page])
           /\ \E U \in SUBSET C[h] :
                /\ Linked(pages, v.page, U)
                /\ \A q \in C[h] : \A i \in Live(pages[q]) :
                     (q = first_page_id[h] => 1 <= i) => q \in U /\ (q = v.page => v.slot <= i)
  <2> HIDE DEF v
  <2>1. v = NextValid(first_page_id[h], 1)
    BY DEF v
  <2> QED
    <3> DEFINE f == first_page_id[h]
               S == C[h]
               s == 1
    <3>1. s \in Nat /\ Linked(pages, f, S) /\ v = NextValid(f, s)
      BY <1>2, <2>1
    <3> HIDE DEF f, S, s
    <3>2. SkipsNone(f, S, s, v)
      BY <1>2, <3>1, NextValidIs
    <3> QED
      BY <3>2 DEF SkipsNone, f, S, s
<1> HIDE DEF v, due
<1>4. /\ scan'.page = v.page /\ scan'.slot = v.slot /\ scan'.due = due
      /\ scan'.got = {} /\ scan'.twice = {} /\ scan' \in ScanState
      /\ scan'.pc = IF v.page = INVALID_PAGE_ID THEN "end" ELSE "read"
  BY <1>1, <1>2, <1>3 DEF Position, Closed, ScanState, due, PageIds
<1>5. \A t \in Thread : ~ Leaving(task[t])
  <2>1. \A t \in Thread : task[t] = Idle
    BY <1>1, RoomyPages DEF Knows
  <2> QED
    BY <2>1 DEF Leaving, Idle
<1>6. ASSUME NEW r \in due
      PROVE  /\ r \in Rec /\ Free(r) /\ rids[r] # NoRid
             /\ rids[r].page \in C[h] /\ rids[r].slot \in Live(pages[rids[r].page])
             /\ 1 <= rids[r].slot
  <2>1. r \in Rec /\ Free(r) /\ rids[r].heap = h
    BY DEF due
  <2>2. rids[r] # NoRid
    BY <2>1 DEF NoRid, TableHeapConstants
  <2>3. Stands(pages, C, rids[r], r)
    BY <1>1, <2>1, <2>2, PlacedIs
  <2>4. rids[r].page \in C[h] /\ RecIn(pages[rids[r].page], rids[r].slot) = r
    BY <2>1, <2>3 DEF Stands
  <2>5. pages[rids[r].page] \in PageState
    BY <1>2, <2>4 DEF PagesTyped
  <2>6. rids[r].slot \in Live(pages[rids[r].page])
    BY <2>1, <2>4, <2>5, LiveIs DEF TableHeapConstants
  <2>7. rids[r].slot \in 1 .. Len(pages[rids[r].page].slots) /\ Len(pages[rids[r].page].slots) \in Nat
    BY <2>5, <2>6, LiveIs
  <2> QED
    BY <2>1, <2>2, <2>4, <2>6, <2>7
<1>7. CASE v.page \notin Page
  <2>1. v.page = INVALID_PAGE_ID /\ due = {}
    BY <1>2, <1>3, <1>6, <1>7
  <2> QED
    BY <1>1, <1>4, <1>6, <2>1 DEF Scanned, Free
<1>8. CASE v.page \in Page
  <2>1. PICK U \in SUBSET C[h] :
          /\ Linked(pages, v.page, U)
          /\ \A q \in C[h] : \A i \in Live(pages[q]) :
               (q = first_page_id[h] => 1 <= i) => q \in U /\ (q = v.page => v.slot <= i)
    BY <1>3, <1>8
  <2>2. scan'.pc = "read" /\ v.page \in C[h]
    BY <1>2, <1>3, <1>4, <1>8
  <2>3. Passing(scan', task', rids', U)
    BY <1>1, <1>4, <1>5, <1>6, <2>1 DEF Passing, Ahead
  <2>4. /\ \E g \in Heap : scan'.page \in C[g]
        /\ scan'.slot \in Live(pages'[scan'.page])
        /\ \E W : Linked(pages', scan'.page, W) /\ Passing(scan', task', rids', W)
    BY <1>1, <1>3, <1>4, <1>8, <2>1, <2>2, <2>3
  <2>5. \A r \in scan'.due \cup scan'.got : rids'[r] # NoRid /\ Free(r)'
    BY <1>1, <1>4, <1>6 DEF Free
  <2> QED
    BY <1>1, <1>4, <2>2, <2>4, <2>5 DEF Scanned
<1> QED
  BY <1>7, <1>8

(* The iterator is read and moved on. *)
LEMMA NextScanned ==
  ASSUME TableHeapConstants, NEW C, Sound(C), Recorded(C), Scanned(C), ScanNext
  PROVE  Scanned(C)'
<1> DEFINE p == scan.page
           s == scan.slot
           r == RecIn(pages[p], s)
           v == NextValid(p, s + 1)
           due == scan.due \ {r}
           got == scan.got \cup (scan.due \cap {r})
<1>1. /\ scan \in ScanState /\ scan.twice = {} /\ scan.due \cap scan.got = {}
      /\ ~ wal /\ faults = MaxFaults /\ scan.pc = "read"
      /\ \A x \in scan.due \cup scan.got : rids[x] # NoRid /\ Free(x)
      /\ scan.due \subseteq Rec /\ scan.got \subseteq Rec /\ s \in Nat
      /\ s \in Live(pages[p])
      /\ wal' = wal /\ pages' = pages /\ rids' = rids /\ task' = task /\ faults' = faults
  BY DEF Scanned, ScanState, ScanNext
<1>2. PICK h \in Heap : p \in C[h]
  BY <1>1 DEF Scanned
<1>3. PICK U : Linked(pages, p, U) /\ Passing(scan, task, rids, U)
  BY <1>1 DEF Scanned
<1>4. U \subseteq C[h] /\ p \in U
  BY <1>2, <1>3, OnwardPages
<1> DEFINE i == RidAt(h, p, s)
<1>5. /\ p \in Page /\ i \in Rids /\ i.page = p /\ i.slot = s
      /\ r \in Rec /\ Stands(pages, C, i, r)
  BY <1>1, <1>2, ScanPlace
<1>6. scan' = [Position(scan, v) EXCEPT !.due = @ \ {r},
                 !.got = @ \cup (scan.due \cap {r}), !.twice = @ \cup (scan.got \cap {r})]
  <2>1. pages[p].slots[s].rec = r
    BY <1>1 DEF Live, RecIn
  <2> QED
    BY <1>1, <2>1 DEF ScanNext
<1>7. /\ v.page \in U \cup {INVALID_PAGE_ID} /\ v.slot \in Nat
      /\ v.page \notin Page =>
           \A q \in U : \A y \in Live(pages[q]) : q = p /\ ~ (s + 1 <= y)
      /\ v.page \in Page =>
           /\ v.slot \in Live(pages[v.page]) /\ (v.page = p => s + 1 <= v.slot)
           /\ \E W \in SUBSET U :
                /\ Linked(pages, v.page, W) /\ (v.page # p => p \notin W)
                /\ \A q \in U : \A y \in Live(pages[q]) :
                     (q = p => s + 1 <= y) => q \in W /\ (q = v.page => v.slot <= y)
  <2>1. s + 1 \in Nat /\ PagesTyped(pages) /\ v = NextValid(p, s + 1)
    BY <1>1 DEF Sound, Typed
  <2> HIDE DEF v, p, s
  <2> QED
    <3> DEFINE n == s + 1
    <3>1. n \in Nat /\ v = NextValid(p, n)
      BY <2>1
    <3> HIDE DEF n
    <3>2. SkipsNone(p, U, n, v)
      BY <1>3, <2>1, <3>1, NextValidIs
    <3> QED
      BY <3>2 DEF SkipsNone, n
<1> HIDE DEF v, i, r
<1>8. INVALID_PAGE_ID \notin Page /\ C[h] \subseteq Page /\ pages \in [Page -> PageState]
  BY PagesAre, ChainedPages DEF Sound, Typed, PagesTyped
<1>9. /\ scan'.page = v.page /\ scan'.slot = v.slot /\ scan'.due = due /\ scan'.got = got
      /\ scan'.twice = scan.got \cap {r} /\ scan' \in ScanState
      /\ scan'.pc = IF v.page = INVALID_PAGE_ID THEN "end" ELSE "read"
  <2>1. v.page \in PageIds
    BY <1>4, <1>7, <1>8 DEF PageIds
  <2> QED
    BY <1>1, <1>6, <1>7, <2>1 DEF Position, ScanState
<1>10. /\ \A x \in Rec : Free(x) /\ rids[x] # NoRid =>
             /\ rids[x] \in Rids /\ Stands(pages, C, rids[x], x)
             /\ \A y \in Rids : Stands(pages, C, y, x) => y = rids[x]
       /\ \A t \in Thread : Leaving(task[t]) => task[t].old \in Rids
  BY <1>1, PlacedIs
<1>11. r \in scan.due \cup scan.got => rids[r] = i
  BY <1>1, <1>5, <1>10
<1>12. r \notin scan.got
  <2> SUFFICES ASSUME r \in scan.got PROVE FALSE
    OBVIOUS
  <2>1. ~ Ahead(rids[r], U, p, s)
    BY <1>3 DEF Passing
  <2>2. s <= s
    BY <1>1
  <2> HIDE DEF p, s
  <2> QED
    BY <1>4, <1>5, <1>11, <2>1, <2>2 DEF Ahead
<1>13. ASSUME NEW x \in due
       PROVE  /\ rids[x].page \in U /\ rids[x].slot \in Live(pages[rids[x].page])
              /\ rids[x].page = p => s + 1 <= rids[x].slot
  <2>1. x \in scan.due /\ x \in Rec /\ x # r /\ Stands(pages, C, rids[x], x)
    BY <1>1, <1>10
  <2>2. Ahead(rids[x], U, p, s)
    BY <1>3, <2>1 DEF Passing
  <2>3. rids[x].page \in U /\ (rids[x].page = p => s <= rids[x].slot)
    BY <2>2 DEF Ahead
  <2>4. rids[x].page \in Page /\ RecIn(pages[rids[x].page], rids[x].slot) = x
    BY <1>4, <1>8, <2>1, <2>3 DEF Stands
  <2>5. rids[x].slot \in Live(pages[rids[x].page])
    BY <1>8, <2>1, <2>4, LiveIs DEF TableHeapConstants
  <2>6. rids[x].page = p => rids[x].slot # s
    BY <2>1, <2>4 DEF r
  <2>7. rids[x].slot \in Nat
    BY <1>8, <2>4, <2>5, LiveIs
  <2> HIDE DEF p, s
  <2> QED
    BY <1>1, <2>3, <2>5, <2>6, <2>7
<1>14. \A x \in scan'.due \cup scan'.got : rids'[x] # NoRid /\ Free(x)'
  BY <1>1, <1>9 DEF Free
<1>15. scan'.due \cap scan'.got = {} /\ scan'.twice = {}
  BY <1>1, <1>9, <1>12
<1>16. CASE v.page \notin Page
  <2>1. v.page = INVALID_PAGE_ID
    BY <1>4, <1>7, <1>8, <1>16
  <2>2. due = {}
    BY <1>7, <1>13, <1>16
  <2> QED
    BY <1>1, <1>9, <1>14, <1>15, <2>1, <2>2 DEF Scanned
<1>17. CASE v.page \in Page
  <2>1. PICK W \in SUBSET U :
          /\ Linked(pages, v.page, W) /\ (v.page # p => p \notin W)
          /\ \A q \in U : \A y \in Live(pages[q]) :
               (q = p => s + 1 <= y) => q \in W /\ (q = v.page => v.slot <= y)
    BY <1>7, <1>17
  <2>2. scan'.pc = "read" /\ v.page \in C[h] /\ v.slot \in Live(pages[v.page])
        /\ (v.page = p => s + 1 <= v.slot)
    BY <1>4, <1>7, <1>8, <1>9, <1>17
  <2>3. ASSUME NEW y \in Rids, Ahead(y, W, v.page, v.slot)
        PROVE  Ahead(y, U, p, s) /\ (y.page = p => y.slot # s)
    <3>1. y.page \in U /\ y.page \in W /\ (y.page = v.page => v.slot <= y.slot)
      BY <2>1, <2>3 DEF Ahead
    <3>2. y.slot \in Int /\ s \in Int /\ v.slot \in Int
      BY <1>1, <1>7, SlotsAre DEF Rids
    <3>3. y.page = p => s + 1 <= y.slot
      <4> HIDE DEF p, s
      <4>1. y.page = p => v.page = p
        BY <2>1, <3>1
      <4>2. y.page = p => s + 1 <= v.slot /\ v.slot <= y.slot
        BY <2>2, <3>1, <4>1
      <4> QED
        BY <3>2, <4>2
    <3> HIDE DEF p, s
    <3> QED
      BY <3>1, <3>2, <3>3 DEF Ahead
  <2>4. \A x \in due : Ahead(rids[x], W, v.page, v.slot)
    BY <1>13, <2>1 DEF Ahead
  <2>5. ASSUME NEW x \in got PROVE ~ Ahead(rids[x], W, v.page, v.slot)
    <3>1. x \in Rec /\ rids[x] \in Rids
      BY <1>1, <1>10
    <3>2. CASE x \in scan.got
      <4>1. ~ Ahead(rids[x], U, p, s)
        BY <1>3, <3>2 DEF Passing
      <4> QED
        BY <2>3, <3>1, <4>1
    <3>3. CASE x = r /\ r \in scan.due
      <4>1. rids[x].page = p /\ rids[x].slot = s
        BY <1>5, <1>11, <3>3
      <4> QED
        BY <2>3, <3>1, <4>1
    <3> QED
      BY <3>2, <3>3
  <2>6. ASSUME NEW t \in Thread, Leaving(task[t])
        PROVE  ~ Ahead(task[t].old, W, v.page, v.slot)
    <3>1. ~ Ahead(task[t].old, U, p, s)
      BY <1>3, <2>6 DEF Passing
    <3> QED
      BY <1>10, <2>3, <2>6, <3>1
  <2>7. Passing(scan', task', rids', W)
    BY <1>1, <1>9, <2>4, <2>5, <2>6 DEF Passing
  <2>8. /\ \E g \in Heap : scan'.page \in C[g]
        /\ scan'.slot \in Live(pages'[scan'.page])
        /\ \E X : Linked(pages', scan'.page, X) /\ Passing(scan', task', rids', X)
    BY <1>1, <1>9, <2>1, <2>2, <2>7
  <2> QED
    BY <1>1, <1>9, <1>14, <1>15, <2>2, <2>8 DEF Scanned
<1> QED
  BY <1>16, <1>17

(* No call of the pool fails while a scan is open. *)
LEMMA NoneFails ==
  ASSUME scan.pc # "closed"
  PROVE  /\ ~ Fails
         /\ \A f, W : \A w \in Walks(f, W) : w.failed = FALSE
<1>1. ~ MayFail
  BY DEF MayFail
<1>2. ASSUME NEW f, NEW W, NEW w \in Walks(f, W) PROVE w.failed = FALSE
  <2> DEFINE at == Path(f)
             end == Min({k \in DOMAIN at : at[k] \notin Page \/ at[k] \in W})
             outcomes == {o \in (0 .. end) \X BOOLEAN :
                            IF o[2] THEN MayFail /\ at[o[1]] \in Page ELSE o[1] = end}
  <2>1. w \in {[stop |-> at[o[1]], failed |-> o[2],
                met |-> {at[i] : i \in 0 .. o[1] - 1},
                last |-> IF o[1] = 0 THEN INVALID_PAGE_ID ELSE at[o[1] - 1]] :
                 o \in outcomes}
    BY <1>2 DEF Walks
  <2>2. \A o \in outcomes : o[2] = FALSE
    <3> HIDE DEF end, at
    <3> QED
      BY <1>1
  <2> HIDE DEF outcomes, at
  <2> QED
    BY <2>1, <2>2
<1> QED
  BY <1>1, <1>2 DEF Fails

LEMMA NothingCosts ==
  ASSUME TableHeapConstants, NEW C, Sound(C)
  PROVE  Costs(FALSE) => faults' = faults
BY DEF Costs, Sound, Typed

(* The chains before and after a step that changes the link of one page.   *)
LEMMA SameLinks ==
  ASSUME NEW C, \A h \in Heap : \A q \in C[h] : pages'[q].next = pages[q].next
  PROVE  Onward(C)
<1> SUFFICES ASSUME NEW U, Linked(pages, scan.page, U), NEW h \in Heap, U \subseteq C[h]
             PROVE  \E V : /\ Linked(pages', scan.page, V)
                           /\ \A q \in V \ U : \A g \in Heap : q \notin C[g]
                           /\ \A q \in U \ V : Live(pages[q]) = {}
  BY DEF Onward
<1> DEFINE f == scan.page
           w == pages'
           m == pages
<1>1. \A q \in U : w[q].next = m[q].next
  OBVIOUS
<1>2. Linked(m, f, U)
  OBVIOUS
<1> HIDE DEF f, w, m
<1>3. Linked(w, f, U)
  BY <1>1, <1>2, LinkedSame
<1> QED
  BY <1>3 DEF f, w

LEMMA LinkOnward ==
  ASSUME TableHeapConstants, NEW C, Sound(C), NEW t \in Thread, At(t, "link"),
         NEW p, p = task[t].at, NEW h \in Heap, NEW q \in C[h], pages[q].next = INVALID_PAGE_ID,
         Relinked(pages, pages', q, p)
  PROVE  Onward(C)
<1> SUFFICES ASSUME NEW U, Linked(pages, scan.page, U), NEW g \in Heap, U \subseteq C[g]
             PROVE  \E V : /\ Linked(pages', scan.page, V)
                           /\ \A x \in V \ U : \A i \in Heap : x \notin C[i]
                           /\ \A x \in U \ V : Live(pages[x]) = {}
  BY DEF Onward
<1>1. /\ CallsTyped(task) /\ CallTyped(task[t]) /\ PagesTyped(pages)
      /\ \A i \in Heap : C[i] \subseteq Page
      /\ Chained(pages, first_page_id, tail_page_id, task, C)
  BY CallIs, ChainedPages DEF Sound, Typed
<1>2. /\ task[t].pc = "link" /\ p \in Page /\ Hand(task[t]) = {p} /\ p \in PageIds
  BY <1>1, HandIs DEF At, CallTyped, PageIds
<1>3. pages[p].next = INVALID_PAGE_ID /\ \A i \in Heap : p \notin C[i]
  BY <1>1, <1>2 DEF Chained
<1>4. q \in Page /\ q # p
  BY <1>1, <1>3
<1> DEFINE f == scan.page
           w == pages'
           m == pages
<1>5. w[q].next = p /\ \A x \in Page \ {q} : w[x] = m[x]
  BY <1>1, <1>2, <1>4, LinkSet
<1>6. CASE q \in U
  <2>1. /\ Linked(m, f, U) /\ w[p].next = m[q].next /\ p \in Page \ U
        /\ \A x \in U \ {q} : w[x].next = m[x].next
    BY <1>1, <1>2, <1>3, <1>4, <1>5
  <2> HIDE DEF f, w, m
  <2>2. Linked(w, f, U \cup {p})
    BY <1>5, <1>6, <2>1, LinkedBehind
  <2>3. \A x \in (U \cup {p}) \ U : \A i \in Heap : x \notin C[i]
    BY <1>3
  <2> QED
    BY <2>2, <2>3 DEF f, w
<1>7. CASE q \notin U
  <2>1. Linked(m, f, U) /\ \A x \in U : w[x].next = m[x].next
    BY <1>1, <1>5, <1>7
  <2> HIDE DEF f, w, m
  <2>2. Linked(w, f, U)
    BY <2>1, LinkedSame
  <2> QED
    BY <2>2 DEF f, w
<1> QED
  BY <1>6, <1>7

LEMMA ReclaimOnward ==
  ASSUME TableHeapConstants, NEW C, Sound(C), NEW h \in Heap, NEW q \in C[h],
         NEW p \in Page, pages[q].next = p, Empty(p),
         Relinked(pages, pages', q, pages[p].next)
  PROVE  Onward(C)
<1> SUFFICES ASSUME NEW U, Linked(pages, scan.page, U), NEW g \in Heap, U \subseteq C[g]
             PROVE  \E V : /\ Linked(pages', scan.page, V)
                           /\ \A x \in V \ U : \A i \in Heap : x \notin C[i]
                           /\ \A x \in U \ V : Live(pages[x]) = {}
  BY DEF Onward
<1>1. PagesTyped(pages) /\ \A i \in Heap : C[i] \subseteq Page
  BY ChainedPages DEF Sound, Typed
<1>2. q \in Page /\ pages[p].next \in PageIds
  BY <1>1 DEF PagesTyped, PageState
<1> DEFINE f == scan.page
           w == pages'
           m == pages
<1>3. w[q].next = m[p].next /\ \A x \in Page \ {q} : w[x] = m[x]
  BY <1>1, <1>2, LinkSet
<1>4. CASE q \in U
  <2>1. /\ Linked(m, f, U) /\ m[q].next = p
        /\ \A x \in U \ {p, q} : w[x].next = m[x].next
    BY <1>1, <1>3
  <2>2. \A x \in U \ (U \ {p}) : Live(pages[x]) = {}
    BY DEF Empty
  <2> HIDE DEF f, w, m
  <2>3. Linked(w, f, U \ {p})
    BY <1>3, <1>4, <2>1, LinkedWithout
  <2>4. (U \ {p}) \ U = {}
    OBVIOUS
  <2> QED
    BY <2>2, <2>3, <2>4 DEF f, w
<1>5. CASE q \notin U
  <2>1. Linked(m, f, U) /\ \A x \in U : w[x].next = m[x].next
    BY <1>1, <1>3, <1>5
  <2> HIDE DEF f, w, m
  <2>2. Linked(w, f, U)
    BY <2>1, LinkedSame
  <2> QED
    BY <2>2 DEF f, w
<1> QED
  BY <1>4, <1>5

(* No step of a call moves a record an open scan has still to pass.        *)
LEMMA InsertionOnward ==
  ASSUME TableHeapConstants, NoneFailsAgain, NEW C, Sound(C), scan.pc # "closed",
         NEW t \in Thread, Insertion(t)
  PROVE  Onward(C) /\ faults' = faults
<1>1. /\ CallsTyped(task) /\ CallTyped(task[t]) /\ PagesTyped(pages)
      /\ pages \in [Page -> PageState]
      /\ \A h \in Heap : C[h] \subseteq Page
      /\ \A h \in Heap : \A q \in C[h] : pages[q].use = "heap"
      /\ Chained(pages, first_page_id, tail_page_id, task, C)
  BY CallIs, ChainedPages DEF Sound, Typed, PagesTyped
<1>2. ~ Fails /\ (Costs(FALSE) => faults' = faults)
  BY NoneFails, NothingCosts
<1>3. ASSUME NEW p \in Page, Probe(t, p) PROVE Onward(C) /\ faults' = faults
  <2>1. pages' = pages /\ faults' = faults
    BY <1>2, <1>3 DEF Probe
  <2> QED
    BY <2>1, SameLinks
<1>4. ASSUME Walk(t) PROVE Onward(C) /\ faults' = faults
  <2>1. pages' = pages /\ \E f, W : \E w \in Walks(f, W) : Costs(w.failed)
    BY <1>4 DEF Walk
  <2>2. faults' = faults
    BY <1>2, <2>1, NoneFails
  <2> QED
    BY <2>1, <2>2, SameLinks
<1>5. ASSUME NewPage(t) PROVE Onward(C) /\ faults' = faults
  <2>1. CASE \E p \in NewPages : /\ pages' = [pages EXCEPT ![p] = InitForNewPage]
                                 /\ UNCHANGED faults
    <3>1. PICK p \in NewPages : /\ pages' = [pages EXCEPT ![p] = InitForNewPage]
                                /\ UNCHANGED faults
      BY <2>1
    <3>2. pages[p].use # "heap"
      <4> DEFINE of(use) == {q \in Page : pages[q].use = use}
      <4>1. CASE of("freed") # {}
        BY <4>1 DEF NewPages
      <4>2. CASE of("freed") = {}
        BY <4>2 DEF NewPages
      <4> QED
        BY <4>1, <4>2
    <3>3. \A h \in Heap : \A q \in C[h] : pages'[q].next = pages[q].next
      BY <1>1, <3>1, <3>2
    <3> QED
      BY <3>1, <3>3, SameLinks
  <2>2. CASE pages' = pages /\ faults' = faults
    BY <2>2, SameLinks
  <2> QED
    BY <1>2, <1>5, <2>1, <2>2 DEF NewPage
<1>6. ASSUME Link(t) PROVE Onward(C) /\ faults' = faults
  <2> DEFINE h == task[t].heap
             p == task[t].at
             refresh == IF tail_page_id[h] # INVALID_PAGE_ID
                        THEN {[last |-> tail_page_id[h], failed |-> FALSE]}
                        ELSE Refreshed(h)
  <2>1. /\ At(t, "link") /\ task[t].pc = "link" /\ h \in Heap /\ p \in Page
        /\ Hand(task[t]) = {p}
    BY <1>1, <1>6, HandIs DEF Link, At, CallTyped
  <2>2. \A g \in Heap : p \notin C[g]
    BY <1>1, <2>1 DEF Chained
  <2>3. CASE pages' = pages /\ faults' = faults
    BY <2>3, SameLinks
  <2>4. CASE \E w1 \in refresh : \E w2 \in Walks(w1.last, Unlinked) :
               /\ IF Found(w2) THEN pages' = [pages EXCEPT ![w2.stop].next = p]
                               ELSE Deleted(p)
               /\ Costs(w1.failed \/ w2.failed)
    <3> HIDE DEF refresh
    <3>1. PICK w1 \in refresh : \E w2 \in Walks(w1.last, Unlinked) :
               /\ IF Found(w2) THEN pages' = [pages EXCEPT ![w2.stop].next = p]
                               ELSE Deleted(p)
               /\ Costs(w1.failed \/ w2.failed)
      BY <2>4
    <3>2. PICK w2 \in Walks(w1.last, Unlinked) :
               /\ IF Found(w2) THEN pages' = [pages EXCEPT ![w2.stop].next = p]
                               ELSE Deleted(p)
               /\ Costs(w1.failed \/ w2.failed)
      BY <3>1
    <3>3. Linked(pages, first_page_id[h], C[h])
      BY <1>1, <2>1 DEF Chained
    <3>4. first_page_id[h] \in C[h] \cup {INVALID_PAGE_ID}
      BY <3>3, LinkedParts
    <3>5. w1.last \in C[h] \cup {INVALID_PAGE_ID} /\ w1.failed = FALSE
      <4>1. CASE tail_page_id[h] # INVALID_PAGE_ID
        <5>1. w1 = [last |-> tail_page_id[h], failed |-> FALSE]
          BY <4>1 DEF refresh
        <5>2. tail_page_id[h] \in C[h] \cup {INVALID_PAGE_ID}
          BY <1>1, <1>6, <2>1 DEF Chained, Link, Latched, At
        <5> QED
          BY <5>1, <5>2
      <4>2. CASE tail_page_id[h] = INVALID_PAGE_ID
        <5>1. w1 \in Walks(first_page_id[h], {})
          BY <4>2 DEF refresh, Refreshed
        <5>2. w1.last \in C[h] \cup {INVALID_PAGE_ID}
          BY <3>3, <3>4, <5>1, WalkStays
        <5>3. w1.failed = FALSE
          BY <5>1, NoneFails
        <5> QED
          BY <5>2, <5>3
      <4> QED
        BY <4>1, <4>2
    <3>6. w2.failed = FALSE
      BY NoneFails
    <3>7. faults' = faults
      <4>1. (w1.failed \/ w2.failed) = FALSE
        BY <3>5, <3>6
      <4> QED
        BY <1>2, <3>2, <4>1
    <3>8. CASE Found(w2)
      <4>1. w2.stop \in C[h] /\ w2.stop \in Unlinked
        BY <3>3, <3>5, <3>8, WalkStays
      <4>2. pages[w2.stop].next = INVALID_PAGE_ID
        BY <4>1 DEF Unlinked
      <4>3. Relinked(pages, pages', w2.stop, p)
        BY <3>2, <3>8 DEF Relinked
      <4> QED
        BY <2>1, <3>7, <4>1, <4>2, <4>3, LinkOnward
    <3>9. CASE ~ Found(w2)
      <4>1. pages' = [pages EXCEPT ![p] = Freed]
        BY <3>2, <3>9 DEF Deleted
      <4>2. \A g \in Heap : \A q \in C[g] : pages'[q].next = pages[q].next
        BY <1>1, <2>2, <4>1
      <4> QED
        BY <3>7, <4>2, SameLinks
    <3> QED
      BY <3>8, <3>9
  <2> QED
    <3>1. \/ pages' = pages /\ faults' = faults
          \/ \E w1 \in refresh : \E w2 \in Walks(w1.last, Unlinked) :
               /\ IF Found(w2) THEN pages' = [pages EXCEPT ![w2.stop].next = p]
                               ELSE Deleted(p)
               /\ Costs(w1.failed \/ w2.failed)
      <4>1. faults \in Int
        BY DEF Sound, Typed, TableHeapConstants
      <4>2. PlainLink(t)
        BY <1>6, <4>1, LinkOnce
      <4> QED
        BY <4>2 DEF PlainLink
    <3> QED
      BY <2>3, <2>4, <3>1
<1>7. ASSUME Put(t) PROVE Onward(C) /\ faults' = faults
  <2> DEFINE p == task[t].at
             x == PageInsert(pages[p], task[t].rec, task[t].size).page
  <2>1. pages' = [pages EXCEPT ![p] = x] /\ faults' = faults
    BY <1>2, <1>7 DEF Put
  <2>2. p \in Page /\ task[t].rec \in Rec /\ task[t].size \in Length /\ PageTyped(pages[p])
    BY <1>1, <1>7 DEF Put, CallTyped, PagesTyped
  <2>3. PageTyped(x) /\ x.use = pages[p].use /\ x.next = pages[p].next
    BY <2>2, InsertTyped
  <2> HIDE DEF x
  <2>4. \A q \in Page : pages'[q].next = pages[q].next
    BY <2>1, <2>2, <2>3, PageChanged
  <2> QED
    BY <1>1, <2>1, <2>4, SameLinks
<1> QED
  BY <1>3, <1>4, <1>5, <1>6, <1>7 DEF Insertion

LEMMA DeletionOnward ==
  ASSUME TableHeapConstants, NoneFailsAgain, NEW C, Sound(C), scan.pc # "closed",
         NEW t \in Thread, Deletion(t)
  PROVE  Onward(C) /\ faults' = faults
<1>1. /\ CallsTyped(task) /\ CallTyped(task[t]) /\ PagesTyped(pages)
      /\ pages \in [Page -> PageState]
      /\ \A h \in Heap : C[h] \subseteq Page
      /\ Chained(pages, first_page_id, tail_page_id, task, C)
  BY CallIs, ChainedPages DEF Sound, Typed, PagesTyped
<1>2. ~ Fails /\ (Costs(FALSE) => faults' = faults)
  BY NoneFails, NothingCosts
<1> DEFINE h == task[t].heap
           i == Doomed(t)
           p == i.page
<1>3. h \in Heap /\ p \in Page
  BY <1>1, DoomedIs DEF Deletion, Mark, Reclaim, Drop, At
<1>4. ASSUME Mark(t) PROVE Onward(C) /\ faults' = faults
  <2> DEFINE x == PageDelete(pages[p], i.slot).page
  <2>1. pages' = [pages EXCEPT ![p] = x] /\ faults' = faults
    BY <1>2, <1>4 DEF Mark
  <2>2. PageTyped(pages[p])
    BY <1>1, <1>3 DEF PagesTyped
  <2>3. PageTyped(x) /\ x.use = pages[p].use /\ x.next = pages[p].next
    BY <2>2, DeleteTyped
  <2> HIDE DEF x, p
  <2>4. \A q \in Page : pages'[q].next = pages[q].next
    BY <1>3, <2>1, <2>3, PageChanged
  <2> QED
    BY <1>1, <2>1, <2>4, SameLinks
<1>5. ASSUME Reclaim(t) PROVE Onward(C) /\ faults' = faults
  <2> DEFINE before == {q \in Page : pages[q].next = p}
  <2>1. CASE pages' = pages /\ faults' = faults
    BY <2>1, SameLinks
  <2>2. CASE /\ Empty(p)
             /\ \E w \in Walks(first_page_id[h], before) :
                  /\ IF Found(w) THEN pages' = [pages EXCEPT ![w.stop].next = pages[p].next]
                                 ELSE UNCHANGED pages
                  /\ Costs(w.failed)
    <3>1. PICK w \in Walks(first_page_id[h], before) :
                  /\ IF Found(w) THEN pages' = [pages EXCEPT ![w.stop].next = pages[p].next]
                                 ELSE UNCHANGED pages
                  /\ Costs(w.failed)
      BY <2>2
    <3>2. faults' = faults
      BY <1>2, <3>1, NoneFails
    <3>3. Linked(pages, first_page_id[h], C[h])
      BY <1>1, <1>3 DEF Chained
    <3>4. first_page_id[h] \in C[h] \cup {INVALID_PAGE_ID}
      BY <3>3, LinkedParts
    <3>5. CASE Found(w)
      <4>1. w.stop \in C[h] /\ w.stop \in before
        BY <3>3, <3>4, <3>5, WalkStays
      <4>2. pages[w.stop].next = p
        BY <4>1
      <4>3. Relinked(pages, pages', w.stop, pages[p].next)
        BY <3>1, <3>5 DEF Relinked
      <4> HIDE DEF p
      <4>4. Onward(C)
        BY <1>3, <2>2, <4>1, <4>2, <4>3, ReclaimOnward
      <4> QED
        BY <3>2, <4>4
    <3>6. CASE ~ Found(w)
      BY <3>1, <3>2, <3>6, SameLinks
    <3> QED
      BY <3>5, <3>6
  <2> QED
    <3>1. \/ pages' = pages /\ faults' = faults
          \/ /\ Empty(p)
             /\ \E w \in Walks(first_page_id[h], before) :
                  /\ IF Found(w) THEN pages' = [pages EXCEPT ![w.stop].next = pages[p].next]
                                 ELSE UNCHANGED pages
                  /\ Costs(w.failed)
      BY <1>2, <1>5 DEF Reclaim
    <3> QED
      BY <2>1, <2>2, <3>1
<1>6. ASSUME Drop(t) PROVE Onward(C) /\ faults' = faults
  <2>1. At(t, "drop") /\ p \notin C[h] /\ Hand(task[t]) = {p}
    BY <1>6, DropIs DEF Drop
  <2>2. \A g \in Heap : p \notin C[g]
    BY <1>1, <2>1 DEF Chained
  <2>3. ~ Pinned(p)
    <3> SUFFICES ASSUME NEW u \in Thread, task[u].pc = "link", task[u].at = p PROVE FALSE
      BY DEF Pinned, At
    <3>1. CallTyped(task[u])
      BY <1>1, CallIs
    <3>2. p \in Hand(task[u]) /\ p \in Hand(task[t])
      BY <2>1, <3>1, HandIs
    <3>3. u = t
      BY <1>1, <3>2 DEF Chained
    <3> QED
      BY <2>1, <3>3 DEF At
  <2> DEFINE tail == CASE first_page_id[h] = INVALID_PAGE_ID -> INVALID_PAGE_ID
                       [] tail_page_id[h] = p -> task[t].prev
                       [] OTHER -> tail_page_id[h]
             refresh == IF /\ first_page_id[h] # INVALID_PAGE_ID
                           /\ tail_page_id[h] = p /\ task[t].prev = INVALID_PAGE_ID
                        THEN Refreshed(h) ELSE {[last |-> tail, failed |-> FALSE]}
  <2>4. pages' = [pages EXCEPT ![p] = Freed] /\ \E w \in refresh : Costs(w.failed)
    <3>1. faults \in Int
      BY DEF Sound, Typed, TableHeapConstants
    <3>2. PlainDrop(t)
      BY <1>6, <3>1, DropOnce
    <3> QED
      BY <1>2, <2>3, <3>2 DEF PlainDrop, Deleted
  <2>5. faults' = faults
    <3> HIDE DEF tail
    <3>1. ASSUME NEW w \in refresh PROVE w.failed = FALSE
      <4>1. w \in Walks(first_page_id[h], {}) \/ w = [last |-> tail, failed |-> FALSE]
        BY DEF Refreshed
      <4>2. CASE w \in Walks(first_page_id[h], {})
        BY <4>2, NoneFails
      <4>3. CASE w = [last |-> tail, failed |-> FALSE]
        BY <4>3
      <4> QED
        BY <4>1, <4>2, <4>3
    <3> HIDE DEF refresh
    <3> QED
      BY <1>2, <2>4, <3>1
  <2>6. \A g \in Heap : \A q \in C[g] : pages'[q].next = pages[q].next
    BY <1>1, <2>2, <2>4
  <2> QED
    BY <2>5, <2>6, SameLinks
<1> QED
  BY <1>4, <1>5, <1>6 DEF Deletion

(* A call changes what it knows of its own record only, and takes no other *)
(* from its place.                                                         *)
Steady(t) ==
  /\ \A u \in Thread \ {t} : task'[u] = task[u]
  /\ task'[t].rec \in {task[t].rec, NoRec}
  /\ Leaving(task'[t]) => Leaving(task[t]) /\ task'[t].old = task[t].old
  /\ \A r \in Rec : r # task[t].rec => rids'[r] = rids[r]

LEMMA SteadyCall ==
  ASSUME TableHeapConstants, NEW C, Sound(C), NEW t \in Thread, NEW k, Continue(t, k),
         \/ k = Idle
         \/ /\ k.rec = task[t].rec /\ k.old = task[t].old
            /\ Leaving(k) => Leaving(task[t]),
         rids' = rids \/ \E i : rids' = [rids EXCEPT ![task[t].rec] = i]
  PROVE  Steady(t)
<1>1. task'[t] = k /\ \A u \in Thread \ {t} : task'[u] = task[u]
  BY ContinueIs DEF Sound, Typed
<1>2. \A r \in Rec : r # task[t].rec => rids'[r] = rids[r]
  BY DEF Sound, Typed, RidsTyped
<1>3. Idle.rec = NoRec /\ ~ Leaving(Idle)
  BY DEF Idle, Leaving
<1> QED
  BY <1>1, <1>2, <1>3 DEF Steady

LEMMA SteadyAnswer ==
  ASSUME TableHeapConstants, NEW C, Sound(C), NEW t \in Thread, NEW done, Answer(t, done)
  PROVE  Steady(t)
<1> DEFINE k == [task[t] EXCEPT !.op = "undo", !.pc = "mark"]
<1>1. task[t] \in CallState
  BY CallIs DEF Sound, Typed
<1>2. \/ Continue(t, Idle)
      \/ Continue(t, k)
  BY DEF Answer, Return
<1>3. rids' = rids \/ \E i : rids' = [rids EXCEPT ![task[t].rec] = i]
  BY DEF Answer
<1>4. k.rec = task[t].rec /\ k.old = task[t].old /\ ~ Leaving(k)
  BY <1>1 DEF CallState, Leaving
<1> HIDE DEF k
<1> QED
  BY <1>2, <1>3, <1>4, SteadyCall

LEMMA InsertionSteady ==
  ASSUME TableHeapConstants, NEW C, Sound(C), NEW t \in Thread, Insertion(t)
  PROVE  Steady(t)
<1>1. task[t] \in CallState /\ (task[t].pc \in Inserting => task[t].op \in {"insert", "move"})
  BY CallIs DEF Sound, Typed, CallTyped, Inserting
<1>2. ASSUME NEW k, Continue(t, k), k.rec = task[t].rec, k.old = task[t].old,
             k.op = task[t].op, task[t].pc \in Inserting,
             rids' = rids
      PROVE  Steady(t)
  <2>1. Leaving(k) => Leaving(task[t])
    BY <1>2 DEF Leaving, Inserting
  <2> QED
    BY <1>2, <2>1, SteadyCall
<1>3. ASSUME Grow(t), task[t].pc \in Inserting, rids' = rids PROVE Steady(t)
  <2> DEFINE k == [task[t] EXCEPT !.pc = "allocate", !.tried = {}]
  <2>1. Continue(t, k) /\ k.rec = task[t].rec /\ k.old = task[t].old /\ k.op = task[t].op
    BY <1>1, <1>3 DEF Grow, CallState
  <2> HIDE DEF k
  <2> QED
    BY <1>2, <1>3, <2>1
<1>4. ASSUME NEW p, Target(t, p), task[t].pc \in Inserting, rids' = rids PROVE Steady(t)
  <2> DEFINE k == [task[t] EXCEPT !.pc = "put", !.at = p, !.tried = @ \cup {p}]
  <2>1. Grow(t) \/ Continue(t, k)
    BY <1>4 DEF Target
  <2>2. k.rec = task[t].rec /\ k.old = task[t].old /\ k.op = task[t].op
    BY <1>1 DEF CallState
  <2> HIDE DEF k
  <2> QED
    BY <1>2, <1>3, <1>4, <2>1, <2>2
<1>5. ASSUME Return(t), rids' = rids PROVE Steady(t)
  BY <1>5, SteadyCall DEF Return
<1>6. ASSUME NEW p, Probe(t, p) PROVE Steady(t)
  <2>1. task[t].pc \in Inserting /\ rids' = rids
    BY <1>6 DEF Probe, At, Inserting
  <2>2. CASE Target(t, p)
    BY <1>4, <2>1, <2>2
  <2>3. CASE task' = task
    BY <2>1, <2>3 DEF Steady
  <2> QED
    BY <1>6, <2>2, <2>3 DEF Probe
<1>7. ASSUME Walk(t) PROVE Steady(t)
  <2>1. task[t].pc \in Inserting /\ rids' = rids
    BY <1>7 DEF Walk, At, Inserting
  <2>2. Grow(t) \/ \E p : Target(t, p)
    BY <1>7 DEF Walk
  <2> QED
    BY <1>3, <1>4, <2>1, <2>2
<1>8. ASSUME NewPage(t) PROVE Steady(t)
  <2>1. task[t].pc \in Inserting /\ rids' = rids
    BY <1>8 DEF NewPage, At, Inserting
  <2>2. \/ Return(t)
        \/ \E p : Continue(t, [task[t] EXCEPT !.pc = "link", !.at = p])
    BY <1>8 DEF NewPage
  <2>3. ASSUME NEW p, Continue(t, [task[t] EXCEPT !.pc = "link", !.at = p]) PROVE Steady(t)
    <3> DEFINE k == [task[t] EXCEPT !.pc = "link", !.at = p]
    <3>1. Continue(t, k) /\ k.rec = task[t].rec /\ k.old = task[t].old /\ k.op = task[t].op
      BY <1>1, <2>3 DEF CallState
    <3> HIDE DEF k
    <3> QED
      BY <1>2, <2>1, <3>1
  <2> QED
    BY <1>5, <2>1, <2>2, <2>3
<1>9. ASSUME Link(t) PROVE Steady(t)
  <2> DEFINE k == [task[t] EXCEPT !.pc = "putnew"]
  <2>1. task[t].pc \in Inserting /\ rids' = rids
    BY <1>9 DEF Link, At, Inserting
  <2>2. Return(t) \/ Continue(t, k)
    BY <1>9 DEF Link
  <2>3. k.rec = task[t].rec /\ k.old = task[t].old /\ k.op = task[t].op
    BY <1>1 DEF CallState
  <2> HIDE DEF k
  <2> QED
    BY <1>2, <1>5, <2>1, <2>2, <2>3
<1>10. ASSUME Put(t) PROVE Steady(t)
  <2> DEFINE j == [task[t] EXCEPT !.pc = "find", !.at = INVALID_PAGE_ID]
  <2>1. task[t].pc \in Inserting
    BY <1>10 DEF Put, Inserting
  <2>2. \/ \E i : Inserted(t, i)
        \/ Continue(t, j) /\ rids' = rids
        \/ Return(t) /\ rids' = rids
    BY <1>10 DEF Put
  <2>3. j.rec = task[t].rec /\ j.old = task[t].old /\ j.op = task[t].op
    BY <1>1 DEF CallState
  <2> HIDE DEF j
  <2>4. ASSUME NEW i, Inserted(t, i) PROVE Steady(t)
    <3> DEFINE k == [task[t] EXCEPT !.pc = "mark", !.new = i,
                                    !.at = INVALID_PAGE_ID, !.tried = {}]
    <3>1. \/ Continue(t, Idle) /\ rids' = [rids EXCEPT ![task[t].rec] = i]
          \/ Continue(t, k) /\ rids' = rids
      BY <2>4 DEF Inserted, Return
    <3>2. k.rec = task[t].rec /\ k.old = task[t].old /\ k.op = task[t].op
      BY <1>1 DEF CallState
    <3> HIDE DEF k
    <3> QED
      BY <1>2, <2>1, <3>1, <3>2, SteadyCall
  <2> QED
    BY <1>2, <1>5, <2>1, <2>2, <2>3, <2>4
<1> QED
  BY <1>6, <1>7, <1>8, <1>9, <1>10 DEF Insertion

LEMMA DeletionSteady ==
  ASSUME TableHeapConstants, NEW C, Sound(C), NEW t \in Thread, Deletion(t)
  PROVE  Steady(t)
<1>1. task[t] \in CallState
  BY CallIs DEF Sound, Typed
<1>2. ASSUME Mark(t) PROVE Steady(t)
  <2> DEFINE k == [task[t] EXCEPT !.pc = "reclaim"]
           rid == Doomed(t)
           result == PageDelete(pages[rid.page], rid.slot)
  <2>1. \/ Continue(t, k) /\ UNCHANGED rids
        \/ Answer(t, result.error = "none")
        \/ Answer(t, FALSE)
    BY <1>2 DEF Mark
  <2>2. k.rec = task[t].rec /\ k.old = task[t].old /\ ~ Leaving(k)
    BY <1>1 DEF CallState, Leaving
  <2> HIDE DEF k, result, rid
  <2>3. CASE Answer(t, result.error = "none")
    BY <2>3, SteadyAnswer
  <2>4. CASE Answer(t, FALSE)
    BY <2>4, SteadyAnswer
  <2> QED
    BY <2>1, <2>2, <2>3, <2>4, SteadyCall
<1>3. ASSUME Reclaim(t) PROVE Steady(t)
  <2>1. \/ Answer(t, TRUE)
        \/ \E x, y : /\ Continue(t, [task[t] EXCEPT !.pc = "drop", !.prev = x, !.next = y])
                     /\ rids' = rids
    BY <1>3 DEF Reclaim
  <2>2. ASSUME NEW x, NEW y, rids' = rids,
               Continue(t, [task[t] EXCEPT !.pc = "drop", !.prev = x, !.next = y])
        PROVE  Steady(t)
    <3> DEFINE k == [task[t] EXCEPT !.pc = "drop", !.prev = x, !.next = y]
    <3>1. Continue(t, k) /\ k.rec = task[t].rec /\ k.old = task[t].old /\ ~ Leaving(k)
      BY <1>1, <2>2 DEF CallState, Leaving
    <3> HIDE DEF k
    <3> QED
      BY <2>2, <3>1, SteadyCall
  <2> QED
    BY <2>1, <2>2, SteadyAnswer
<1>4. ASSUME Drop(t) PROVE Steady(t)
  BY <1>4, SteadyAnswer DEF Drop
<1> QED
  BY <1>2, <1>3, <1>4 DEF Deletion

(* While no scan is open there is nothing to say. *)
LEMMA ClosedScanned ==
  ASSUME NEW C, Scanned(C), NEW D, scan.pc = "closed", scan' = scan \/ \E r : Touch(r)
  PROVE  Scanned(D)'
<1>1. /\ scan \in ScanState /\ scan.twice = {} /\ scan.due = {} /\ scan.got = {}
  BY DEF Scanned
<1>2. /\ scan' \in ScanState /\ scan'.twice = {} /\ scan'.due = {} /\ scan'.got = {}
      /\ scan'.pc = "closed"
  BY <1>1 DEF Touch, ScanState
<1> QED
  BY <1>2 DEF Scanned

LEMMA StepScanned ==
  ASSUME TableHeapConstants, NoneFailsAgain, NEW C, Sound(C), Recorded(C), Scanned(C),
         NEW D, Sound(D)', ComesAndGoes(C, D), NEW t \in Thread, Insertion(t) \/ Deletion(t)
  PROVE  Scanned(D)'
<1>1. scan' = scan /\ wal' = wal
  BY DEF Insertion, Deletion, Walk, NewPage, Link, Put, Probe, Mark, Reclaim, Drop
<1>2. CASE scan.pc = "closed"
  BY <1>1, <1>2, ClosedScanned
<1>3. CASE scan.pc # "closed"
  <2>1. Onward(C) /\ faults' = faults
    BY <1>3, InsertionOnward, DeletionOnward
  <2>2. Steady(t)
    BY InsertionSteady, DeletionSteady
  <2>3. ASSUME NEW r \in scan.due \cup scan.got
        PROVE  rids'[r] = rids[r] /\ \A u \in Thread : task'[u].rec # r
    <3>1. r \in Rec /\ Free(r) /\ r # NoRec
      BY DEF Scanned, ScanState, TableHeapConstants
    <3> QED
      BY <2>2, <3>1 DEF Steady, Free
  <2>4. \A u \in Thread : Leaving(task'[u]) => Leaving(task[u]) /\ task'[u].old = task[u].old
    BY <2>2 DEF Steady
  <2>5. /\ scan' \in ScanState /\ scan'.pc = scan.pc /\ scan'.page = scan.page
        /\ scan'.slot = scan.slot /\ scan'.twice = scan.twice
        /\ scan'.due \subseteq scan.due /\ scan'.got \subseteq scan.got
        /\ scan'.due = scan.due /\ scan'.got = scan.got
    BY <1>1 DEF Scanned
  <2> QED
    BY <1>1, <1>3, <2>1, <2>3, <2>4, <2>5, ScanStays
<1> QED
  BY <1>2, <1>3

(* A careful client changes no record an open scan has still to meet.      *)
LEMMA CallScanned ==
  ASSUME TableHeapConstants, Careful, NEW C, Sound(C), Recorded(C), Scanned(C), NEW D,
         Sound(D)', ComesAndGoes(C, D), NEW t \in Thread, NEW r \in Rec,
         \/ \E h \in Heap : CallInsert(t, h, r, Min(Length))
         \/ CallUpdate(t, r, Max(Length))
         \/ CallDelete(t, r)
  PROVE  Scanned(D)'
<1>1. wal' = wal /\ rids' = rids /\ task[t].pc = "idle" /\ (scan' = scan \/ Touch(r))
  BY DEF CallInsert, CallUpdate, CallDelete, At
<1>2. CASE scan.pc = "closed"
  BY <1>1, <1>2, ClosedScanned
<1>3. CASE scan.pc # "closed"
  <2>1. /\ scan \in ScanState /\ ~ wal
        /\ \A x \in scan.due \cup scan.got : rids[x] # NoRid /\ Free(x)
    BY <1>3 DEF Scanned
  <2>2. ~ Fails
    BY <1>3, NoneFails
  <2>3. CallsTyped(task) /\ PagesTyped(pages) /\ \A h \in Heap : C[h] \subseteq Page
    BY ChainedPages DEF Sound, Typed
  <2>4. MayChange(r) => r \in scan.got
    BY <1>3, <2>1 DEF MayChange
  <2>5. ASSUME scan' \in ScanState, scan'.pc = scan.pc, scan'.page = scan.page,
               scan'.slot = scan.slot, scan'.twice = scan.twice,
               scan'.due \subseteq scan.due, scan'.got \subseteq scan.got,
               Onward(C), faults' = faults,
               \A u \in Thread \ {t} : task'[u] = task[u],
               \A x \in scan'.due \cup scan'.got : task'[t].rec # x,
               Leaving(task'[t]) => r \in scan.got /\ task'[t].old = rids[r]
        PROVE  Scanned(D)'
    <3>1. ASSUME NEW x \in scan'.due \cup scan'.got
          PROVE  rids'[x] = rids[x] /\ \A u \in Thread : task'[u].rec # x
      <4>1. x \in scan.due \cup scan.got
        BY <2>5
      <4> QED
        BY <1>1, <2>1, <2>5, <4>1 DEF Free
    <3>2. ASSUME NEW u \in Thread, Leaving(task'[u])
          PROVE  \/ Leaving(task[u]) /\ task'[u].old = task[u].old
                 \/ \E x \in scan.got : task'[u].old = rids[x]
      <4>1. CASE u = t
        BY <2>5, <3>2, <4>1
      <4>2. CASE u # t
        BY <2>5, <3>2, <4>2
      <4> QED
        BY <4>1, <4>2
    <3> QED
      BY <1>1, <1>3, <2>5, <3>1, <3>2, ScanStays
  <2>6. ASSUME Touch(r)
        PROVE  /\ scan' \in ScanState /\ scan'.pc = scan.pc /\ scan'.page = scan.page
               /\ scan'.slot = scan.slot /\ scan'.twice = scan.twice
               /\ scan'.due = scan.due \ {r} /\ scan'.got = scan.got \ {r}
    BY <2>1, <2>6 DEF Touch, ScanState
  <2>7. ASSUME pages' = pages PROVE Onward(C)
    BY <2>7, SameLinks
  <2>8. ASSUME NEW h \in Heap, CallInsert(t, h, r, Min(Length)) PROVE Scanned(D)'
    <3> DEFINE k == [Idle EXCEPT !.pc = "find", !.op = "insert", !.heap = h,
                                 !.rec = r, !.size = Min(Length)]
    <3>1. /\ Continue(t, k) /\ k.rec = r /\ ~ Leaving(k) /\ scan' = scan
          /\ pages' = pages /\ faults' = faults /\ rids[r] = NoRid
      BY <2>8 DEF CallInsert, Idle, Leaving
    <3>2. task'[t] = k /\ \A u \in Thread \ {t} : task'[u] = task[u]
      BY <2>3, <3>1, ContinueIs
    <3> HIDE DEF k
    <3> QED
      BY <2>1, <2>5, <2>7, <3>1, <3>2
  <2>9. ASSUME CallDelete(t, r) PROVE Scanned(D)'
    <3> DEFINE k == [Idle EXCEPT !.pc = "mark", !.op = "delete", !.rec = r,
                                 !.heap = rids[r].heap, !.old = rids[r]]
    <3>1. /\ Continue(t, k) /\ k.rec = r /\ k.old = rids[r] /\ Touch(r) /\ MayChange(r)
          /\ pages' = pages /\ faults' = faults
      BY <2>9 DEF CallDelete, Idle
    <3>2. task'[t] = k /\ \A u \in Thread \ {t} : task'[u] = task[u]
      BY <2>3, <3>1, ContinueIs
    <3> HIDE DEF k
    <3> QED
      BY <2>4, <2>5, <2>6, <2>7, <3>1, <3>2
  <2>10. ASSUME CallUpdate(t, r, Max(Length)) PROVE Scanned(D)'
    <3> DEFINE i == rids[r]
               x == PageUpdate(pages[i.page], i.slot, Max(Length)).page
               k == [Idle EXCEPT !.pc = "find", !.op = "move", !.heap = i.heap, !.rec = r,
                                 !.size = Max(Length), !.old = i]
    <3>1. /\ MayChange(r) /\ Touch(r) /\ pages' = [pages EXCEPT ![i.page] = x]
          /\ faults' = faults /\ (Continue(t, k) \/ task' = task)
      BY <2>2, <2>10 DEF CallUpdate
    <3>2. i.page \in Page
      BY <3>1, ChangedIs
    <3>3. PageTyped(x) /\ x.use = pages[i.page].use /\ x.next = pages[i.page].next
      <4> DEFINE y == pages[i.page]
                 s == i.slot
                 n == Max(Length)
                 result == PageUpdate(y, s, n)
      <4>1. PageTyped(y) /\ n \in Length
        BY <2>3, <3>2, SlotsAre DEF PagesTyped
      <4>2. x = result.page
        OBVIOUS
      <4> HIDE DEF k, n, s, y
      <4>3. PageTyped(result.page) /\ result.page.use = y.use /\ result.page.next = y.next
        BY <4>1, UpdateTyped
      <4> HIDE DEF x, result
      <4> QED
        BY <4>2, <4>3 DEF y
    <3>4. k.rec = r /\ k.old = i
      BY DEF Idle
    <3> HIDE DEF x, k
    <3>5. \A q \in Page : pages'[q].next = pages[q].next
      <4> HIDE DEF i
      <4> QED
        BY <3>1, <3>2, <3>3, PageChanged
    <3>6. Onward(C)
      BY <2>3, <3>5, SameLinks
    <3>7. CASE Continue(t, k)
      <4>1. task'[t] = k /\ \A u \in Thread \ {t} : task'[u] = task[u]
        BY <2>3, <3>7, ContinueIs
      <4> QED
        BY <2>4, <2>5, <2>6, <3>1, <3>4, <3>6, <4>1
    <3>8. CASE task' = task
      <4>1. task[t] = Idle /\ Idle.rec = NoRec /\ ~ Leaving(Idle)
        BY <1>1, RoomyPages DEF Knows, Idle, Leaving
      <4>2. \A y \in scan.due \cup scan.got : y # NoRec
        BY <2>1 DEF ScanState, TableHeapConstants
      <4> QED
        BY <2>5, <2>6, <3>1, <3>6, <3>8, <4>1, <4>2
    <3> QED
      BY <3>1, <3>7, <3>8
  <2> QED
    BY <2>8, <2>9, <2>10
<1> QED
  BY <1>2, <1>3

-------------------------------------------------------------------------------
(* The inductive invariant, with an iterator: the records that are due are *)
(* ahead of it.                                                            *)
ScanInv == \E C : Sound(C) /\ Recorded(C) /\ Scanned(C)

LEMMA InitScanned ==
  ASSUME TableHeapConstants, Init
  PROVE  ScanInv
<1>1. PICK C : Sound(C) /\ Recorded(C)
  BY InitRecords DEF RecordsInv
<1>2. scan = Closed
  BY DEF Init
<1>3. INVALID_PAGE_ID \in PageIds /\ 0 \in Nat
  BY DEF PageIds
<1>4. Scanned(C)
  BY <1>2, <1>3 DEF Scanned, Closed, ScanState
<1> QED
  BY <1>1, <1>4 DEF ScanInv

LEMMA ScanMoves ==
  ASSUME TableHeapConstants, NoneFailsAgain, Careful, ScanInv, [Next]_vars
  PROVE  ScanInv'
<1>1. PICK C : Sound(C) /\ Recorded(C) /\ Scanned(C)
  BY DEF ScanInv
<1>2. CASE UNCHANGED vars
  <2>1. Sound(C)' /\ Recorded(C)'
    BY <1>1, <1>2, ScanRecords DEF vars
  <2>2. Scanned(C)'
    BY <1>1, <1>2 DEF vars, Scanned, Passing, Free
  <2> QED
    BY <2>1, <2>2 DEF ScanInv
<1>3. CASE Scan
  <2>1. UNCHANGED <<wal, pages, heapvars, task, rids, faults>>
    BY <1>3 DEF Scan, ScanNext, ScanEnd, Begin
  <2>2. Sound(C)' /\ Recorded(C)'
    BY <1>1, <2>1, ScanRecords
  <2>3. ASSUME ScanEnd PROVE Scanned(C)'
    <3>1. scan' = Closed /\ INVALID_PAGE_ID \in PageIds /\ 0 \in Nat
      BY <2>3 DEF ScanEnd, PageIds
    <3> QED
      BY <3>1 DEF Scanned, Closed, ScanState
  <2>4. Scanned(C)'
    BY <1>1, <1>3, <2>3, BeginScanned, NextScanned DEF Scan
  <2> QED
    BY <2>2, <2>4 DEF ScanInv
<1>4. CASE \E t \in Thread : Call(t) \/ Insertion(t) \/ Deletion(t)
  <2>1. PICK t \in Thread : Call(t) \/ Insertion(t) \/ Deletion(t)
    BY <1>4
  <2>2. PICK D : Sound(D)' /\ Recorded(D)' /\ ComesAndGoes(C, D)
    BY <1>1, StepRecords
  <2>3. ASSUME Call(t) PROVE Scanned(D)'
    <3>1. PICK r \in Rec : \/ \E h \in Heap : CallInsert(t, h, r, Min(Length))
                           \/ CallUpdate(t, r, Max(Length))
                           \/ CallDelete(t, r)
      BY <2>3 DEF Call
    <3> QED
      BY <1>1, <2>2, <3>1, CallScanned
  <2>4. ASSUME Insertion(t) \/ Deletion(t) PROVE Scanned(D)'
    BY <1>1, <2>2, <2>4, StepScanned
  <2>5. Scanned(D)'
    BY <2>1, <2>3, <2>4
  <2> QED
    BY <2>2, <2>5 DEF ScanInv
<1> QED
  BY <1>2, <1>3, <1>4 DEF Next, Step

(* As long as clients of a heap without log change only what an open scan  *)
(* has passed, a scan meets each record that was in the table when it      *)
(* began, and that nobody has begun to change since, exactly once: not     *)
(* again after it was moved ahead of the scan, and not too late because    *)
(* the page before it was reclaimed.                                       *)
THEOREM ScansAreExact ==
  ASSUME NoneFailsAgain, Careful
  PROVE  Spec => []ScanIsExact
<1>1. Init => ScanInv
  BY TableHeapConstants, InitScanned
<1>2. ScanInv /\ [Next]_vars => ScanInv'
  BY TableHeapConstants, ScanMoves
<1>3. ScanInv => ScanIsExact
  BY DEF ScanInv, Scanned, ScanIsExact
<1> QED
  BY <1>1, <1>2, <1>3, PTL DEF Spec
===============================================================================
