--------------------------- MODULE DiskClientProofs ---------------------------
(***************************************************************************)
(* Proof that DiskClient hands out no page in use, loses none, and writes  *)
(* links over freed pages only, although any file access may fail: header  *)
(* writes too, behind which the list in memory and the one in the file     *)
(* part.  For any number of pages.                                         *)
(***************************************************************************)
EXTENDS DiskClient, FiniteSetTheorems, WellFoundedInduction, TLAPS

Ends == {INVALID_PAGE_ID}

(* The links of the pages in F stay in F and lead downwards by r, so they  *)
(* end.                                                                    *)
Ranked(d, F, r) ==
  \A p \in F :
    NextFree(d, p) \in F \cup Ends
      /\ (NextFree(d, p) \in F => r[NextFree(d, p)] < r[p])

(* The free list in memory, and the one in the file, run through F.        *)
Leads(d, F) == F \subseteq 1 .. d.next - 1 /\ d.free \in F \cup Ends

(* F has the pages of both lists, which may share their ends.              *)
FreeForest(d, F) ==
  /\ Leads(d, F)
  /\ F \subseteq 1 .. d.header.next - 1
  /\ d.header.free \in F \cup Ends
  /\ \E k \in Nat, r \in [Page -> Nat] :
       (\A p \in Page : r[p] <= k) /\ Ranked(d, F, r)

(* What is in memory is not behind the header, nor before the file.        *)
InStep(d) ==
  /\ 1 <= d.header.next /\ d.header.next <= d.next /\ d.next <= d.size
  /\ d.catalog \in (1 .. d.next - 1) \cup Ends
  /\ d.header.catalog \in (1 .. d.header.next - 1) \cup Ends

(* Pages in use are not on the lists; while no header write has failed,    *)
(* every page is accounted for.                                            *)
Sound(d, inUse, given, written) ==
  /\ d \in Disk /\ InStep(d)
  /\ inUse \cup given \subseteq 1 .. d.header.next - 1
  /\ written \in BOOLEAN
  /\ \E F \in SUBSET Page : FreeForest(d, F) /\ F \cap inUse = {}
  /\ written => /\ HeaderIsWritten(d)
                /\ inUse \cup given \cup FreePages(d) = 1 .. d.next - 1

IInv == Sound(disk, owned, limbo, intact)

(* Page ids, and the ids that are none, as numbers.                        *)
LEMMA PageIds ==
  /\ MaxPage \in Nat /\ MaxPage >= 1
  /\ Page = 1 .. MaxPage
  /\ INVALID_PAGE_ID = MaxPage + 1
  /\ PageRef = 0 .. MaxPage + 2
  /\ Ends = {MaxPage + 1}
  /\ Data \cap Link = {}
  /\ Zero \in Data
BY DiskConstants, DataIsNotALink
   DEF Page, INVALID_PAGE_ID, PageRef, MagicAsPage, Ends

-------------------------------------------------------------------------------
(* The walk along the free list. *)

LEMMA AllNumbers ==
  ASSUME NEW S, 0 \in S, \A n \in Nat : n \in S => n + 1 \in S
  PROVE  Nat \subseteq S
<1> SUFFICES ASSUME Nat \ S # {} PROVE FALSE
  OBVIOUS
<1>1. PICK x \in Nat \ S : \A y \in Nat \ S : ~ (<<y, x>> \in OpToRel(<, Nat))
  <2>1. Nat \ S \in SUBSET Nat
    OBVIOUS
  <2> QED
    BY <2>1, NatLessThanWellFounded, WFMin
<1>2. x # 0 /\ x - 1 \in Nat
  OBVIOUS
<1>3. CASE x - 1 \in S
  BY <1>2, <1>3
<1>4. CASE x - 1 \notin S
  <2>1. x - 1 \in Nat \ S /\ x - 1 < x
    BY <1>2, <1>4
  <2>2. <<x - 1, x>> \in OpToRel(<, Nat)
    BY <1>1, <2>1 DEF OpToRel
  <2> QED
    BY <1>1, <2>1, <2>2
<1> QED
  BY <1>3, <1>4

(* One hop; at the end, at page 0 and past the allocated pages it stays.   *)
Onward(d, p) == IF p \in Page /\ p < d.next THEN NextFree(d, p) ELSE p

(* The walk, hop by hop.                                                   *)
LEMMA Hops ==
  ASSUME NEW d
  PROVE  /\ FreeListHop(d)[0] = d.free
         /\ \A n \in 1 .. MaxPage + 2 :
              FreeListHop(d)[n] = Onward(d, FreeListHop(d)[n - 1])
<1> DEFINE R(g, m) ==
             [n \in 0 .. m |-> IF n = 0 THEN d.free
                               ELSE IF g[n - 1] \in Page /\ g[n - 1] < d.next
                                    THEN NextFree(d, g[n - 1]) ELSE g[n - 1]]
           S == {m \in Nat : \E g : g = R(g, m)}
<1>1. 0 \in S
  <2>1. [n \in 0 .. 0 |-> d.free] = R([n \in 0 .. 0 |-> d.free], 0)
    OBVIOUS
  <2> QED
    BY <2>1
<1>2. ASSUME NEW m \in Nat, m \in S PROVE m + 1 \in S
  <2>1. PICK g : g = R(g, m)
    BY <1>2
  <2> DEFINE h == [n \in 0 .. m + 1 |->
                     IF n <= m THEN g[n]
                     ELSE IF g[m] \in Page /\ g[m] < d.next
                          THEN NextFree(d, g[m]) ELSE g[m]]
  <2>2. ASSUME NEW n \in 0 .. m + 1
        PROVE  h[n] = R(h, m + 1)[n]
    <3>1. CASE n = 0
      BY <2>1, <3>1
    <3>2. CASE n \in 1 .. m
      <4>1. h[n] = g[n] /\ h[n - 1] = g[n - 1]
        BY <3>2
      <4>2. g[n] = R(g, m)[n]
        BY <2>1
      <4> QED
        BY <3>2, <4>1, <4>2
    <3>3. CASE n = m + 1
      <4>1. h[n - 1] = g[m] /\ n - 1 = m
        BY <3>3
      <4> QED
        BY <3>3, <4>1
    <3> QED
      BY <3>1, <3>2, <3>3
  <2>3. h = R(h, m + 1)
    BY <2>2
  <2> HIDE DEF h
  <2> QED
    BY <2>3
<1>3. MaxPage + 2 \in S
  <2> HIDE DEF S
  <2> QED
    BY <1>1, <1>2, AllNumbers, PageIds
<1>4. FreeListHop(d) = R(FreeListHop(d), MaxPage + 2)
  <2>1. FreeListHop(d) = CHOOSE g : g = R(g, MaxPage + 2)
    BY PageIds DEF FreeListHop
  <2>2. \E g : g = R(g, MaxPage + 2)
    BY <1>3
  <2> HIDE DEF R
  <2> QED
    BY <2>1, <2>2
<1> DEFINE h == FreeListHop(d)
<1>5. h = R(h, MaxPage + 2)
  BY <1>4
<1> HIDE DEF h
<1>6. h[0] = d.free
  <2>1. 0 \in 0 .. MaxPage + 2
    BY PageIds
  <2> QED
    BY <1>5, <2>1
<1>7. ASSUME NEW n \in 1 .. MaxPage + 2 PROVE h[n] = Onward(d, h[n - 1])
  <2>1. n \in 0 .. MaxPage + 2 /\ n # 0
    BY PageIds
  <2> QED
    BY <1>5, <2>1 DEF Onward
<1> QED
  BY <1>6, <1>7 DEF h

(* A walk through ranked pages goes down until it ends.                    *)
LEMMA WalkDescends ==
  ASSUME NEW d \in Disk, NEW F \in SUBSET Page, Leads(d, F),
         NEW r \in [Page -> Nat], Ranked(d, F, r)
  PROVE  /\ \A n \in PageRef : FreeListHop(d)[n] \in F \cup Ends
         /\ \A n \in 0 .. MaxPage + 1 :
              /\ FreeListHop(d)[n] \in F =>
                   FreeListHop(d)[n + 1] = NextFree(d, FreeListHop(d)[n])
              /\ FreeListHop(d)[n] \in Ends => FreeListHop(d)[n + 1] \in Ends
         /\ \A n, m \in PageRef :
              n < m /\ FreeListHop(d)[m] \in F =>
                /\ FreeListHop(d)[n] \in F
                /\ r[FreeListHop(d)[m]] < r[FreeListHop(d)[n]]
<1> DEFINE h == FreeListHop(d)
           S == {m \in Nat : m \in PageRef => h[m] \in F \cup Ends}
           T == {m \in Nat : m \in PageRef =>
                   \A n \in PageRef : n < m /\ h[m] \in F =>
                     h[n] \in F /\ r[h[m]] < r[h[n]]}
<1>0. /\ h[0] = d.free
      /\ \A n \in 1 .. MaxPage + 2 : h[n] = Onward(d, h[n - 1])
  BY Hops
<1> HIDE DEF h
<1>1. \A p \in F : Onward(d, p) = NextFree(d, p)
  BY PageIds DEF Onward, Leads, Disk
<1>2. \A p \in Ends : Onward(d, p) = p
  BY PageIds DEF Onward, Disk
<1>3. 0 \in S
  BY <1>0 DEF Leads
<1>4. ASSUME NEW m \in Nat, m \in S PROVE m + 1 \in S
  <2>1. CASE m + 1 \in PageRef
    <3>1. m \in PageRef /\ m + 1 \in 1 .. MaxPage + 2
      BY <2>1, PageIds
    <3>2. h[m] \in F \cup Ends /\ h[m + 1] = Onward(d, h[m])
      BY <1>0, <1>4, <3>1
    <3> QED
      BY <1>1, <1>2, <3>2 DEF Ranked
  <2> QED
    BY <1>4, <2>1
<1>5. \A n \in PageRef : h[n] \in F \cup Ends
  <2>1. Nat \subseteq S
    <3> HIDE DEF S
    <3> QED
      BY <1>3, <1>4, AllNumbers
  <2> QED
    BY <2>1, PageIds
<1>6. \A n \in 0 .. MaxPage + 1 :
        /\ h[n] \in F => h[n + 1] = NextFree(d, h[n])
        /\ h[n] \in Ends => h[n + 1] \in Ends
  <2> TAKE n \in 0 .. MaxPage + 1
  <2>1. n + 1 \in 1 .. MaxPage + 2 /\ (n + 1) - 1 = n
    BY PageIds
  <2>2. h[n + 1] = Onward(d, h[n])
    BY <1>0, <2>1
  <2> QED
    BY <1>1, <1>2, <2>2
<1>7. 0 \in T
  BY PageIds
<1>8. ASSUME NEW m \in Nat, m \in T PROVE m + 1 \in T
  <2> SUFFICES ASSUME m + 1 \in PageRef, NEW n \in PageRef, n < m + 1,
                      h[m + 1] \in F
               PROVE  h[n] \in F /\ r[h[m + 1]] < r[h[n]]
    OBVIOUS
  <2>1. m \in PageRef /\ m \in 0 .. MaxPage + 1 /\ F \cap Ends = {}
    BY PageIds
  <2>2. h[m] \in F /\ h[m + 1] = NextFree(d, h[m])
    BY <1>5, <1>6, <2>1
  <2>3. r[h[m + 1]] < r[h[m]]
    BY <2>2 DEF Ranked
  <2>4. CASE n = m
    BY <2>2, <2>3, <2>4
  <2>5. CASE n < m
    <3>1. h[n] \in F /\ r[h[m]] < r[h[n]]
      BY <1>8, <2>1, <2>2, <2>5
    <3>2. r[h[m]] \in Nat /\ r[h[n]] \in Nat /\ r[h[m + 1]] \in Nat
      BY <2>2, <3>1
    <3> QED
      BY <2>3, <3>1, <3>2
  <2> QED
    BY <2>4, <2>5, PageIds
<1>9. \A m \in PageRef : m \in T
  <2>1. Nat \subseteq T
    <3> HIDE DEF T
    <3> QED
      BY <1>7, <1>8, AllNumbers
  <2> QED
    BY <2>1, PageIds
<1> QED
  BY <1>5, <1>6, <1>9 DEF h

(* It ends after as many hops as there are pages.                          *)
LEMMA WalkEnds ==
  ASSUME NEW d \in Disk, NEW F \in SUBSET Page, Leads(d, F),
         NEW r \in [Page -> Nat], Ranked(d, F, r)
  PROVE  \A n \in MaxPage .. MaxPage + 2 : FreeListHop(d)[n] = INVALID_PAGE_ID
<1> DEFINE h == FreeListHop(d)
<1>1. /\ \A n \in PageRef : h[n] \in F \cup Ends
      /\ \A n \in 0 .. MaxPage + 1 : h[n] \in Ends => h[n + 1] \in Ends
      /\ \A n, m \in PageRef :
           n < m /\ h[m] \in F => h[n] \in F /\ r[h[m]] < r[h[n]]
  BY WalkDescends
<1> HIDE DEF h
<1>2. ASSUME h[MaxPage] \in F PROVE FALSE
  <2> DEFINE f == [n \in 0 .. MaxPage |-> h[n]]
  <2>1. \A n \in 0 .. MaxPage : h[n] \in F
    BY <1>1, <1>2, PageIds
  <2>2. f \in [0 .. MaxPage -> Page]
    BY <2>1
  <2>3. /\ IsFiniteSet(0 .. MaxPage) /\ IsFiniteSet(Page)
        /\ Cardinality(Page) < Cardinality(0 .. MaxPage)
    BY PageIds, FS_Interval
  <2>4. PICK x \in 0 .. MaxPage, y \in 0 .. MaxPage : x # y /\ f[x] = f[y]
    <3> HIDE DEF f
    <3> QED
      BY <2>2, <2>3, FS_PigeonHole
  <2>5. h[x] = h[y] /\ h[x] \in F /\ r[h[x]] \in Nat
    BY <2>1, <2>4
  <2>6. x < y \/ y < x
    BY <2>4
  <2> QED
    BY <1>1, <2>5, <2>6, PageIds
<1>3. h[MaxPage] \in Ends
  BY <1>1, <1>2, PageIds
<1>4. h[MaxPage + 1] \in Ends
  BY <1>1, <1>3, PageIds
<1>5. h[MaxPage + 2] \in Ends
  BY <1>1, <1>4, PageIds
<1> QED
  BY <1>3, <1>4, <1>5, PageIds DEF h

(* A walk is the same where head and links are.                            *)
LEMMA ListStays ==
  ASSUME NEW d \in Disk, NEW e \in Disk, NEW F \in SUBSET Page,
         Leads(d, F), Leads(e, F), e.free = d.free,
         NEW r \in [Page -> Nat], Ranked(d, F, r), Ranked(e, F, r),
         \A p \in F : NextFree(e, p) = NextFree(d, p)
  PROVE  FreePages(e) = FreePages(d)
<1> DEFINE h == FreeListHop(d)
           g == FreeListHop(e)
           S == {n \in Nat : n \in PageRef => g[n] = h[n]}
<1>1. /\ \A n \in PageRef : h[n] \in F \cup Ends
      /\ \A n \in 0 .. MaxPage + 1 :
           /\ h[n] \in F => h[n + 1] = NextFree(d, h[n])
           /\ h[n] \in Ends => h[n + 1] \in Ends
      /\ h[0] = d.free
  BY WalkDescends, Hops
<1>2. /\ \A n \in 0 .. MaxPage + 1 :
           /\ g[n] \in F => g[n + 1] = NextFree(e, g[n])
           /\ g[n] \in Ends => g[n + 1] \in Ends
      /\ g[0] = e.free
  BY WalkDescends, Hops
<1> HIDE DEF h, g
<1>3. 0 \in S
  BY <1>1, <1>2
<1>4. ASSUME NEW n \in Nat, n \in S PROVE n + 1 \in S
  <2> SUFFICES ASSUME n + 1 \in PageRef PROVE g[n + 1] = h[n + 1]
    OBVIOUS
  <2>1. n \in PageRef /\ n \in 0 .. MaxPage + 1
    BY PageIds
  <2>2. g[n] = h[n] /\ h[n] \in F \cup Ends
    BY <1>1, <1>4, <2>1
  <2> QED
    BY <1>1, <1>2, <2>1, <2>2, PageIds
<1>5. \A n \in PageRef : g[n] = h[n]
  <2>1. Nat \subseteq S
    <3> HIDE DEF S
    <3> QED
      BY <1>3, <1>4, AllNumbers
  <2> QED
    BY <2>1, PageIds
<1> QED
  BY <1>5 DEF FreePages, g, h

(* A list of d runs through F and ends.                                    *)
Walkable(d, F) ==
  /\ d \in Disk /\ F \subseteq Page /\ Leads(d, F)
  /\ \E r \in [Page -> Nat] : Ranked(d, F, r)

(* The walk from the second page of a list meets all but the first.        *)
LEMMA ListPops ==
  ASSUME NEW d, NEW F, Walkable(d, F), d.free \in F,
         NEW e, NEW G, Walkable(e, G), G \subseteq F,
         e.free = NextFree(d, d.free),
         \A p \in G : NextFree(e, p) = NextFree(d, p)
  PROVE  FreePages(d) = FreePages(e) \cup {d.free}
<1> DEFINE h == FreeListHop(d)
           g == FreeListHop(e)
           S == {n \in Nat : n \in 0 .. MaxPage + 1 => g[n] = h[n + 1]}
<1>0. /\ d \in Disk /\ F \in SUBSET Page /\ Leads(d, F)
      /\ e \in Disk /\ G \in SUBSET Page /\ Leads(e, G)
      /\ F \cap Ends = {}
  BY PageIds DEF Walkable
<1> PICK r \in [Page -> Nat] : Ranked(d, F, r)
  BY DEF Walkable
<1> PICK s \in [Page -> Nat] : Ranked(e, G, s)
  BY DEF Walkable
<1>1. /\ \A n \in 0 .. MaxPage + 1 :
           /\ h[n] \in F => h[n + 1] = NextFree(d, h[n])
           /\ h[n] \in Ends => h[n + 1] \in Ends
      /\ h[0] = d.free
  BY <1>0, WalkDescends, Hops
<1>2. /\ \A n \in PageRef : g[n] \in G \cup Ends
      /\ \A n \in 0 .. MaxPage + 1 :
           /\ g[n] \in G => g[n + 1] = NextFree(e, g[n])
           /\ g[n] \in Ends => g[n + 1] \in Ends
      /\ g[0] = e.free
  BY <1>0, WalkDescends, Hops
<1>3. g[MaxPage + 2] = INVALID_PAGE_ID
  <2>1. \A n \in MaxPage .. MaxPage + 2 : g[n] = INVALID_PAGE_ID
    BY <1>0, WalkEnds
  <2> HIDE DEF g
  <2> QED
    BY <2>1, PageIds
<1> HIDE DEF h, g
<1>4. 0 \in S
  <2>1. 0 \in 0 .. MaxPage + 1 /\ 0 + 1 = 1
    BY PageIds
  <2>2. h[0 + 1] = NextFree(d, d.free)
    BY <1>1, <2>1
  <2> QED
    BY <1>2, <2>2
<1>5. ASSUME NEW n \in Nat, n \in S PROVE n + 1 \in S
  <2> SUFFICES ASSUME n + 1 \in 0 .. MaxPage + 1
               PROVE  g[n + 1] = h[(n + 1) + 1]
    OBVIOUS
  <2>1. n \in PageRef /\ n \in 0 .. MaxPage + 1
    BY PageIds
  <2>2. g[n] = h[n + 1] /\ g[n] \in G \cup Ends
    BY <1>2, <1>5, <2>1
  <2>3. CASE g[n] \in G
    <3>1. g[n + 1] = NextFree(d, h[n + 1])
      BY <1>2, <2>1, <2>2, <2>3
    <3>2. h[(n + 1) + 1] = NextFree(d, h[n + 1])
      BY <1>1, <2>2, <2>3
    <3> QED
      BY <3>1, <3>2
  <2>4. CASE g[n] \in Ends
    <3>1. g[n + 1] \in Ends
      BY <1>2, <2>1, <2>4
    <3>2. h[(n + 1) + 1] \in Ends
      BY <1>1, <2>2, <2>4
    <3> QED
      BY <3>1, <3>2, PageIds
  <2> QED
    BY <2>2, <2>3, <2>4
<1>6. ASSUME NEW n \in 0 .. MaxPage + 1 PROVE g[n] = h[n + 1]
  <2>1. Nat \subseteq S
    <3> HIDE DEF S
    <3> QED
      BY <1>4, <1>5, AllNumbers
  <2> QED
    BY <2>1, PageIds
<1> DEFINE A == {h[n] : n \in PageRef}
           B == {g[n] : n \in PageRef}
<1>7. ASSUME NEW n \in PageRef PROVE h[n] \in B \cup {d.free}
  <2>1. CASE n = 0
    BY <1>1, <2>1
  <2>2. CASE n # 0
    <3>1. n - 1 \in 0 .. MaxPage + 1 /\ n - 1 \in PageRef /\ (n - 1) + 1 = n
      BY <2>2, PageIds
    <3> QED
      BY <1>6, <3>1
  <2> QED
    BY <2>1, <2>2
<1>8. ASSUME NEW n \in PageRef PROVE g[n] \in A \cup Ends
  <2>1. CASE n = MaxPage + 2
    BY <1>3, <2>1, PageIds
  <2>2. CASE n # MaxPage + 2
    <3>1. n \in 0 .. MaxPage + 1 /\ n + 1 \in PageRef
      BY <2>2, PageIds
    <3> QED
      BY <1>6, <3>1
  <2> QED
    BY <2>1, <2>2
<1>9. d.free \in A /\ d.free # INVALID_PAGE_ID
  <2>1. 0 \in PageRef
    BY PageIds
  <2> QED
    BY <1>0, <1>1, <2>1 DEF Ends
<1>10. FreePages(d) = A \ Ends /\ FreePages(e) = B \ Ends
  BY DEF FreePages, g, h, Ends
<1> QED
  BY <1>7, <1>8, <1>9, <1>10 DEF Ends

-------------------------------------------------------------------------------
(* What the operations of the disk do to the pages on the free lists. *)

(* Links are read from the pages of F only. *)
LEMMA RankedElsewhere ==
  ASSUME NEW d \in Disk, NEW e \in Disk, NEW F \in SUBSET Page,
         \A p \in F : e.pages[p] = d.pages[p]
  PROVE  /\ \A p \in F : NextFree(e, p) = NextFree(d, p)
         /\ \A r : Ranked(d, F, r) => Ranked(e, F, r)
<1>1. \A p \in F : NextFree(e, p) = NextFree(d, p)
  BY PageIds DEF NextFree
<1> QED
  BY <1>1 DEF Ranked

(* What was written as a link is read as one.                              *)
LEMMA NextFreeIsLink ==
  ASSUME NEW d \in Disk, NEW p \in Page, NEW q, d.pages[p] = LinkTo(q)
  PROVE  q \in PageRef => NextFree(d, p) = q
<1>1. q \in PageRef => LinkTo(q) \in Link /\ LinkTo(q).nextFree = q
  BY DEF Link, LinkTo
<1> QED
  BY <1>1, PageIds DEF NextFree

(* Writing the header makes it agree with memory and moves no page.        *)
LEMMA HeaderPersists ==
  ASSUME NEW d \in Disk, InStep(d), NEW ok \in BOOLEAN
  PROVE  /\ PersistHeader(d, ok) \in Disk
         /\ InStep(PersistHeader(d, ok))
         /\ PersistHeader(d, ok).pages = d.pages
         /\ PersistHeader(d, ok).next = d.next
         /\ PersistHeader(d, ok).free = d.free
         /\ PersistHeader(d, ok).header =
              IF ok THEN [next |-> d.next, free |-> d.free,
                          catalog |-> d.catalog]
                    ELSE d.header
         /\ ok => HeaderIsWritten(PersistHeader(d, ok))
         /\ ~ok => PersistHeader(d, ok) = d
         /\ \A F \in SUBSET Page :
              FreeForest(d, F) => /\ FreeForest(PersistHeader(d, ok), F)
                                  /\ FreePages(PersistHeader(d, ok)) = FreePages(d)
<1> DEFINE e == PersistHeader(d, ok)
<1>1. CASE ~ok
  BY <1>1 DEF PersistHeader
<1>2. CASE ok
  <2> DEFINE h == [next |-> d.next, free |-> d.free, catalog |-> d.catalog]
  <2>1. e = [d EXCEPT !.header = h] /\ h \in Header
    BY <1>2 DEF PersistHeader, Disk, Header
  <2>2. /\ e \in Disk /\ e.header = h /\ e.pages = d.pages /\ e.size = d.size
        /\ e.next = d.next /\ e.free = d.free /\ e.catalog = d.catalog
    BY <2>1 DEF Disk
  <2>3. h.next = d.next /\ h.catalog = d.catalog /\ h.free = d.free
    OBVIOUS
  <2> HIDE DEF e
  <2>5. HeaderIsWritten(e)
    BY <2>2 DEF HeaderIsWritten
  <2> HIDE DEF h
  <2>6. InStep(e)
    BY <2>2, <2>3, PageIds DEF InStep, Disk, Header
  <2>4. ASSUME NEW F \in SUBSET Page, FreeForest(d, F)
        PROVE  FreeForest(e, F) /\ FreePages(e) = FreePages(d)
    <3>1. /\ \A r : Ranked(d, F, r) => Ranked(e, F, r)
          /\ \A p \in F : NextFree(e, p) = NextFree(d, p)
      BY <2>2, RankedElsewhere
    <3>2. Leads(e, F) /\ F \subseteq 1 .. e.header.next - 1
            /\ e.header.free \in F \cup Ends
      BY <2>2, <2>3, <2>4 DEF FreeForest, Leads
    <3>3. FreeForest(e, F)
      BY <2>4, <3>1, <3>2 DEF FreeForest
    <3>4. FreePages(e) = FreePages(d)
      BY <2>2, <2>4, <3>1, <3>2, ListStays DEF FreeForest
    <3> QED
      BY <3>3, <3>4
  <2> QED
    BY <1>2, <2>2, <2>4, <2>5, <2>6 DEF e, h
<1> QED
  BY <1>1, <1>2

(* The disks whose header an allocation or a deallocation writes.          *)
Popped(d) == [d EXCEPT !.free = NextFree(d, d.free)]
Grown(d) == [Write(d, d.next, Zero) EXCEPT !.next = d.next + 1]
Pushed(d, p) == [Write(d, p, LinkTo(d.free)) EXCEPT !.free = p]

(* The head of the list in memory leaves F, and with it whatever leads to  *)
(* it, once the header is written.                                         *)
LEMMA HeadLeaves ==
  ASSUME NEW d \in Disk, InStep(d), NEW F \in SUBSET Page, FreeForest(d, F),
         d.free # INVALID_PAGE_ID
  PROVE  /\ d.free \in F
         /\ Popped(d) \in Disk /\ InStep(Popped(d))
         /\ FreeForest(Popped(d), F) /\ Popped(d).free # d.free
         /\ \E G \in SUBSET (F \ {d.free}) :
              FreeForest(PersistHeader(Popped(d), TRUE), G)
         /\ FreePages(d) = FreePages(PersistHeader(Popped(d), TRUE)) \cup {d.free}
<1> DEFINE e == Popped(d)
<1>e. e = [d EXCEPT !.free = NextFree(d, d.free)]
  BY DEF Popped
<1> HIDE DEF e
<1>1. d.free \in F /\ d.free \in Page
  BY PageIds DEF FreeForest, Leads
<1>2. PICK k \in Nat, r \in [Page -> Nat] :
        (\A p \in Page : r[p] <= k) /\ Ranked(d, F, r)
  BY DEF FreeForest
<1>3. /\ NextFree(d, d.free) \in F \cup Ends
      /\ NextFree(d, d.free) \in F => r[NextFree(d, d.free)] < r[d.free]
  BY <1>1, <1>2 DEF Ranked
<1>4. r[d.free] \in Nat
  BY <1>1, <1>2
<1>5. NextFree(d, d.free) # d.free /\ NextFree(d, d.free) \in PageRef
  <2> DEFINE x == NextFree(d, d.free)
  <2> HIDE DEF x
  <2>1. x = d.free => r[x] < r[x] /\ r[x] \in Nat
    BY <1>1, <1>3, <1>4 DEF x
  <2>2. x \in PageRef
    <3>1. F \cup Ends \subseteq PageRef
      BY PageIds
    <3> QED
      BY <1>3, <3>1 DEF x
  <2> QED
    BY <2>1, <2>2 DEF x
<1>6. /\ e \in Disk /\ e.pages = d.pages /\ e.header = d.header
      /\ e.size = d.size /\ e.next = d.next /\ e.catalog = d.catalog
      /\ e.free = NextFree(d, d.free)
  BY <1>e, <1>5 DEF Disk
<1>7. InStep(e)
  BY <1>6 DEF InStep
<1>8. \A r1 : Ranked(d, F, r1) => Ranked(e, F, r1)
  BY <1>6, RankedElsewhere
<1>9. FreeForest(e, F)
  BY <1>3, <1>6, <1>8 DEF FreeForest, Leads
<1> DEFINE w == PersistHeader(e, TRUE)
           G == {p \in F : r[p] < r[d.free]}
<1>10. /\ w \in Disk /\ w.pages = d.pages /\ w.next = d.next
       /\ w.free = NextFree(d, d.free) /\ w.header.next = d.next
       /\ w.header.free = NextFree(d, d.free)
  <2>1. /\ w \in Disk /\ w.pages = e.pages /\ w.next = e.next
        /\ w.free = e.free
        /\ w.header = [next |-> e.next, free |-> e.free, catalog |-> e.catalog]
    BY <1>6, <1>7, HeaderPersists
  <2> HIDE DEF w
  <2> QED
    BY <1>6, <2>1
<1> HIDE DEF w
<1>11. G \in SUBSET (F \ {d.free})
  BY <1>4
<1>12. Ranked(w, G, r)
  <2>1. \A p \in F : NextFree(w, p) = NextFree(d, p)
    BY <1>10, RankedElsewhere
  <2>2. ASSUME NEW p \in G
        PROVE  /\ NextFree(w, p) \in G \cup Ends
               /\ NextFree(w, p) \in G => r[NextFree(w, p)] < r[p]
    <3>1. /\ NextFree(w, p) \in F \cup Ends
          /\ NextFree(w, p) \in F => r[NextFree(w, p)] < r[p]
      BY <1>2, <2>1, <2>2 DEF Ranked
    <3>2. \A q \in F : r[q] \in Nat
      BY <1>2
    <3> QED
      BY <1>1, <2>2, <3>1, <3>2
  <2> QED
    BY <2>2 DEF Ranked
<1>13. FreeForest(w, G)
  <2>1. NextFree(d, d.free) \in G \cup Ends
    BY <1>3
  <2>2. G \subseteq 1 .. d.next - 1
    BY DEF FreeForest, Leads
  <2> QED
    BY <1>2, <1>10, <1>12, <2>1, <2>2 DEF FreeForest, Leads
<1>14. FreePages(d) = FreePages(w) \cup {d.free}
  <2>1. /\ Ranked(w, F, r)
        /\ \A p \in F : NextFree(w, p) = NextFree(d, p)
    BY <1>2, <1>10, RankedElsewhere
  <2>2. Leads(w, F) /\ Leads(d, F)
    BY <1>3, <1>10 DEF FreeForest, Leads
  <2>3. Walkable(d, F) /\ Walkable(w, F)
    BY <1>2, <1>10, <2>1, <2>2 DEF Walkable
  <2> QED
    BY <1>1, <1>10, <2>1, <2>3, ListPops
<1> QED
  BY <1>1, <1>5, <1>6, <1>7, <1>9, <1>11, <1>13, <1>14 DEF w, e

(* A page past all that the header knows is added.                         *)
LEMMA FileGrows ==
  ASSUME NEW d \in Disk, InStep(d), d.next \in Page
  PROVE  /\ Grown(d) \in Disk /\ InStep(Grown(d))
         /\ Grown(d).next = d.next + 1 /\ Grown(d).free = d.free
         /\ Grown(d).header = d.header
         /\ \A p \in Page \ {d.next} : Grown(d).pages[p] = d.pages[p]
         /\ \A F \in SUBSET Page :
              FreeForest(d, F) => /\ FreeForest(Grown(d), F)
                                  /\ FreePages(Grown(d)) = FreePages(d)
<1> DEFINE e == Grown(d)
<1>e. e = [Write(d, d.next, Zero) EXCEPT !.next = d.next + 1]
  BY DEF Grown
<1> HIDE DEF e
<1> DEFINE pages == [d.pages EXCEPT ![d.next] = Zero]
           size == IF d.next = d.size THEN d.next + 1 ELSE d.size
<1>1. e = [d EXCEPT !.pages = pages, !.size = size, !.next = d.next + 1]
  BY <1>e DEF Write, Disk
<1>2. pages \in [Page -> Content] /\ size \in 1 .. MaxPage + 1
        /\ d.next + 1 \in PageRef /\ d.next + 1 <= size
  BY PageIds DEF Disk, Content, InStep
<1>3. /\ e \in Disk /\ e.pages = pages /\ e.size = size /\ e.next = d.next + 1
      /\ e.free = d.free /\ e.header = d.header /\ e.catalog = d.catalog
  BY <1>1, <1>2 DEF Disk
<1>4. \A p \in Page \ {d.next} : e.pages[p] = d.pages[p]
  BY <1>3 DEF Disk
<1>5. InStep(e)
  <2>1. d.next \in Nat /\ d.header.next \in Nat /\ d.next + 1 <= e.size
    BY <1>2, <1>3, PageIds DEF Disk, Header
  <2> HIDE DEF pages, size
  <2>2. 1 <= e.header.next /\ e.header.next <= e.next /\ e.next <= e.size
    BY <1>3, <2>1 DEF InStep
  <2>3. e.catalog \in (1 .. e.next - 1) \cup Ends
    BY <1>3, <2>1 DEF InStep
  <2>4. e.header.catalog \in (1 .. e.header.next - 1) \cup Ends
    BY <1>3 DEF InStep
  <2> QED
    BY <2>2, <2>3, <2>4 DEF InStep
<1>6. ASSUME NEW F \in SUBSET Page, FreeForest(d, F)
      PROVE  FreeForest(e, F) /\ FreePages(e) = FreePages(d)
  <2>1. d.next \notin F
    BY <1>6, PageIds DEF FreeForest, Leads
  <2>2. /\ \A r : Ranked(d, F, r) => Ranked(e, F, r)
        /\ \A p \in F : NextFree(e, p) = NextFree(d, p)
    <3>1. \A p \in F : e.pages[p] = d.pages[p]
      BY <1>4, <2>1
    <3> HIDE DEF pages, size
    <3> QED
      BY <1>3, <3>1, RankedElsewhere
  <2>3. Leads(e, F)
    BY <1>3, <1>6, PageIds DEF FreeForest, Leads
  <2>4. FreeForest(e, F)
    BY <1>3, <1>6, <2>2, <2>3 DEF FreeForest
  <2>5. FreePages(e) = FreePages(d)
    BY <1>3, <1>6, <2>2, <2>3, ListStays DEF FreeForest
  <2> QED
    BY <2>4, <2>5
<1> QED
  BY <1>3, <1>4, <1>5, <1>6 DEF e

(* What the walk of DeallocatePage has met leads nowhere else.             *)
LEMMA WalkAvoids ==
  ASSUME NEW d \in Disk, NEW F \in SUBSET Page, Leads(d, F),
         NEW r \in [Page -> Nat], Ranked(d, F, r),
         NEW p \in Page, MayJoinFreeList(d, p)
  PROVE  \E L \in SUBSET (F \ {p}) :
           /\ d.free \in L \cup Ends
           /\ \A q \in L : NextFree(d, q) \in L \cup Ends
<1> DEFINE h == FreeListHop(d)
<1>1. /\ \A n \in PageRef : h[n] \in F \cup Ends
      /\ \A n \in 0 .. MaxPage + 1 : h[n] \in F => h[n + 1] = NextFree(d, h[n])
      /\ h[0] = d.free
  BY WalkDescends, Hops
<1>2. PICK n \in 0 .. d.next :
        h[n] = INVALID_PAGE_ID /\ \A m \in 0 .. n - 1 : h[m] # p
  BY DEF MayJoinFreeList
<1> HIDE DEF h
<1>3. d.next \in PageRef /\ n \in PageRef /\ 0 .. n - 1 \subseteq 0 .. MaxPage + 1
  BY PageIds DEF Disk
<1> DEFINE L == F \cap {h[m] : m \in 0 .. n - 1}
<1>4. L \in SUBSET (F \ {p})
  BY <1>2
<1>5. ASSUME NEW m \in 0 .. n PROVE h[m] \in L \cup Ends
  <2>1. CASE m = n
    BY <1>2, <2>1, PageIds
  <2>2. CASE m \in 0 .. n - 1
    <3>1. m \in PageRef
      BY <1>3, <2>2, PageIds
    <3> QED
      BY <1>1, <2>2, <3>1
  <2> QED
    BY <1>3, <2>1, <2>2, PageIds
<1>6. d.free \in L \cup Ends
  <2>1. 0 \in 0 .. n
    BY <1>3, PageIds
  <2> HIDE DEF L
  <2> QED
    BY <1>1, <1>5, <2>1
<1>7. ASSUME NEW q \in L PROVE NextFree(d, q) \in L \cup Ends
  <2>1. PICK m \in 0 .. n - 1 : q = h[m]
    BY <1>7
  <2>2. m + 1 \in 0 .. n /\ m \in 0 .. MaxPage + 1 /\ q \in F
    BY <1>3, <1>7, PageIds
  <2>3. h[m + 1] = NextFree(d, q)
    BY <1>1, <2>1, <2>2
  <2> HIDE DEF L
  <2> QED
    BY <1>5, <2>2, <2>3
<1> QED
  BY <1>4, <1>6, <1>7

(* The freed page is put before the pages the walk has met: these keep     *)
(* their ranks, every other page is ranked above them.                     *)
LEMMA PageJoins ==
  ASSUME NEW d \in Disk, InStep(d), NEW F \in SUBSET Page, FreeForest(d, F),
         NEW p \in 1 .. d.header.next - 1, MayJoinFreeList(d, p)
  PROVE  /\ Pushed(d, p) \in Disk /\ InStep(Pushed(d, p))
         /\ FreeForest(Pushed(d, p), F \cup {p})
         /\ Pushed(d, p).next = d.next /\ Pushed(d, p).free = p
         /\ Pushed(d, p).header = d.header
         /\ \A q \in Page \ {p} : Pushed(d, p).pages[q] = d.pages[q]
         /\ FreePages(Pushed(d, p)) = FreePages(d) \cup {p}
         /\ d.free # p
<1> DEFINE e == Pushed(d, p)
<1>e. e = [Write(d, p, LinkTo(d.free)) EXCEPT !.free = p]
  BY DEF Pushed
<1> HIDE DEF e
<1> DEFINE pages == [d.pages EXCEPT ![p] = LinkTo(d.free)]
           H == F \cup {p}
<1>1. p \in Page /\ p < d.size /\ p < d.next /\ p \in PageRef
  BY PageIds DEF InStep, Disk, Header
<1>2. e = [d EXCEPT !.pages = pages, !.free = p]
  <2>1. p # d.size
    BY <1>1, PageIds DEF Disk
  <2>2. Write(d, p, LinkTo(d.free)) = [d EXCEPT !.pages = pages]
    BY <1>1, <2>1 DEF Write, Disk
  <2> QED
    BY <1>e, <2>2 DEF Disk
<1>3. d.free \in PageRef /\ LinkTo(d.free) \in Content
        /\ pages \in [Page -> Content]
  BY DEF Disk, Content, LinkTo, Link
<1>4. /\ e \in Disk /\ e.pages = pages /\ e.size = d.size /\ e.next = d.next
      /\ e.free = p /\ e.header = d.header /\ e.catalog = d.catalog
  BY <1>1, <1>2, <1>3 DEF Disk
<1>5. InStep(e)
  BY <1>4 DEF InStep
<1>6. e.pages[p] = LinkTo(d.free) /\ \A q \in Page \ {p} : e.pages[q] = d.pages[q]
  BY <1>1, <1>4 DEF Disk
<1> HIDE DEF pages
<1>7. NextFree(e, p) = d.free
  BY <1>1, <1>3, <1>4, <1>6, NextFreeIsLink
<1>8. \A q \in F \ {p} : NextFree(e, q) = NextFree(d, q)
  <2>1. F \ {p} \in SUBSET Page /\ \A q \in F \ {p} : e.pages[q] = d.pages[q]
    BY <1>6
  <2> QED
    BY <1>4, <2>1, RankedElsewhere
<1>9. PICK k \in Nat, r \in [Page -> Nat] :
        (\A q \in Page : r[q] <= k) /\ Ranked(d, F, r)
  BY DEF FreeForest
<1>10. PICK L \in SUBSET (F \ {p}) :
         /\ d.free \in L \cup Ends
         /\ \A q \in L : NextFree(d, q) \in L \cup Ends
  <2>1. r \in [Page -> Nat] /\ Leads(d, F)
    BY <1>9 DEF FreeForest
  <2> QED
    BY <1>1, <1>9, <2>1, WalkAvoids
<1> DEFINE s == [q \in Page |-> IF q \in L THEN r[q] ELSE r[q] + k + 1]
<1>11. s \in [Page -> Nat] /\ k + k + 1 \in Nat
         /\ \A q \in Page : s[q] <= k + k + 1
  BY <1>9
<1>12. \A q \in Page : r[q] \in Nat /\ r[q] <= k
  BY <1>9
<1>13. ASSUME NEW q \in H
       PROVE  /\ NextFree(e, q) \in H \cup Ends
              /\ NextFree(e, q) \in H => s[NextFree(e, q)] < s[q]
  <2> DEFINE x == NextFree(e, q)
  <2>1. CASE q = p
    <3>1. x \in L \cup Ends /\ p \notin L /\ p \in Page /\ L \subseteq Page
      BY <1>1, <1>7, <1>10, <2>1
    <3>2. s[p] = r[p] + k + 1 /\ \A y \in L : s[y] = r[y]
      BY <3>1
    <3>3. x \in H => x \in L
      BY <3>1, <1>1, PageIds
    <3> HIDE DEF s
    <3> QED
      BY <1>9, <1>12, <2>1, <3>1, <3>2, <3>3
  <2>2. CASE q \in L
    <3>1. x \in L \cup Ends /\ q \in F \ {p} /\ x = NextFree(d, q)
      BY <1>8, <1>10, <2>2
    <3>2. x \in H => x \in L
      BY <3>1, <1>1, PageIds
    <3>3. \A y \in L : s[y] = r[y]
      OBVIOUS
    <3>4. x \in L => r[x] < r[q]
      BY <1>9, <3>1 DEF Ranked
    <3> HIDE DEF s
    <3> QED
      BY <2>2, <3>1, <3>2, <3>3, <3>4
  <2>3. CASE q \in F \ {p} /\ q \notin L
    <3>1. x = NextFree(d, q) /\ x \in F \cup Ends /\ (x \in F => r[x] < r[q])
      BY <1>8, <1>9, <2>3 DEF Ranked
    <3>2. s[q] = r[q] + k + 1
      BY <2>3
    <3>3. x \in F => s[x] = r[x] \/ s[x] = r[x] + k + 1
      OBVIOUS
    <3>4. x \in H => x \in F
      BY <3>1, <1>1, PageIds
    <3> HIDE DEF s
    <3> QED
      BY <1>9, <1>12, <2>3, <3>1, <3>2, <3>3, <3>4
  <2> QED
    BY <1>13, <2>1, <2>2, <2>3
<1>14. Ranked(e, H, s)
  <2> HIDE DEF s, H
  <2> QED
    BY <1>13 DEF Ranked
<1>15. /\ Leads(e, H) /\ H \subseteq 1 .. e.header.next - 1
       /\ e.header.free \in H \cup Ends
  <2>1. p \in 1 .. d.next - 1
    BY <1>1, PageIds DEF Disk
  <2>2. e.free \in H \cup Ends /\ e.header.free \in H \cup Ends
    BY <1>4 DEF FreeForest
  <2>3. H \subseteq 1 .. e.next - 1 /\ H \subseteq 1 .. e.header.next - 1
    BY <1>4, <2>1 DEF FreeForest, Leads
  <2> QED
    BY <2>2, <2>3 DEF Leads
<1>16. FreeForest(e, H)
  <2> HIDE DEF s, H
  <2> QED
    BY <1>11, <1>14, <1>15 DEF FreeForest
<1>17. FreePages(e) = FreePages(d) \cup {p}
  <2>1. L \subseteq H /\ Walkable(d, L)
    <3>1. Ranked(d, L, r)
      BY <1>9, <1>10 DEF Ranked
    <3>2. Leads(d, L)
      BY <1>10 DEF FreeForest, Leads
    <3> QED
      BY <3>1, <3>2 DEF Walkable
  <2>2. \A q \in L : NextFree(d, q) = NextFree(e, q)
    BY <1>8
  <2>3. H \in SUBSET Page /\ e.free \in H /\ d.free = NextFree(e, e.free)
    BY <1>1, <1>4, <1>7
  <2> HIDE DEF s, H
  <2>5. Walkable(e, H)
    BY <1>4, <1>11, <1>14, <1>15, <2>3 DEF Walkable
  <2>4. FreePages(e) = FreePages(d) \cup {e.free}
    BY <2>1, <2>2, <2>3, <2>5, ListPops
  <2> QED
    BY <1>4, <2>4
<1>18. d.free # p
  BY <1>1, <1>10, PageIds
<1> QED
  BY <1>4, <1>5, <1>6, <1>16, <1>17, <1>18 DEF e

-------------------------------------------------------------------------------
(* The operations keep Sound. *)

(* Pages in use and given back are pages, and the bounds are numbers.      *)
LEMMA SoundParts ==
  ASSUME NEW d, NEW o, NEW l, NEW i, Sound(d, o, l, i)
  PROVE  /\ o \subseteq Page /\ l \subseteq Page
         /\ INVALID_PAGE_ID \notin o \cup l
         /\ d.header.next \in Nat /\ d.next \in Nat /\ d.size \in Nat
<1>1. /\ d.header.next \in Nat /\ d.next \in Nat /\ d.size \in 1 .. MaxPage + 1
      /\ d.header.next <= d.next /\ d.next <= d.size
      /\ o \cup l \subseteq 1 .. d.header.next - 1
  BY PageIds DEF Sound, InStep, Disk, Header
<1> QED
  BY <1>1, PageIds

(* The ways an allocation can end, with the disk each leaves.              *)
LEMMA AllocateEnds ==
  ASSUME NEW d, NEW a \in AllocatePage(d)
  PROVE  \/ a = AllocateFailed(d)
         \/ /\ d.free # INVALID_PAGE_ID
            /\ \/ a = Allocated(PersistHeader(Popped(d), TRUE), d.free)
               \/ a = AllocateFailed(Popped(d))
         \/ /\ d.next \in Page
            /\ \/ a = Allocated(PersistHeader(Grown(d), TRUE), d.next)
               \/ a = AllocateFailed(Grown(d))
<1>1. CASE d.free # INVALID_PAGE_ID
  BY <1>1 DEF AllocatePage, RecycleHead, Popped
<1>2. CASE d.free = INVALID_PAGE_ID
  <2>1. TRUE \in WriteEnds(d, d.next) => d.next \in Page
    BY DEF WriteEnds
  <2> QED
    BY <1>2, <2>1 DEF AllocatePage, AppendPage, WriteEnds, Grown
<1> QED
  BY <1>1, <1>2

(* A page that is handed out leaves the lists in memory and in the file,   *)
(* or nothing is handed out.                                               *)
LEMMA AllocateKeeps ==
  ASSUME NEW d, NEW o, NEW l, NEW i, Sound(d, o, l, i),
         NEW a \in AllocatePage(d)
  PROVE  Sound(a.disk, o \cup ({a.page} \ Ends), l \ {a.page},
               i /\ HeaderIsWritten(a.disk))
<1>0. /\ d \in Disk /\ InStep(d) /\ i \in BOOLEAN
      /\ o \cup l \subseteq 1 .. d.header.next - 1
      /\ i => /\ HeaderIsWritten(d)
              /\ o \cup l \cup FreePages(d) = 1 .. d.next - 1
      /\ d.header.next \in Nat /\ d.next \in Nat
      /\ INVALID_PAGE_ID \notin o \cup l
      /\ d.header.next <= d.next
  BY SoundParts DEF Sound, InStep
<1>1. PICK F \in SUBSET Page : FreeForest(d, F) /\ F \cap o = {}
  BY DEF Sound
<1>2. ASSUME NEW e, a = AllocateFailed(e)
      PROVE  /\ a.disk = e /\ a.page = INVALID_PAGE_ID
             /\ o \cup ({a.page} \ Ends) = o /\ l \ {a.page} = l
  BY <1>0, <1>2, PageIds DEF AllocateFailed, Allocated
<1>3. CASE a = AllocateFailed(d)
  BY <1>0, <1>1, <1>2, <1>3 DEF Sound
<1>4. ASSUME d.free # INVALID_PAGE_ID,
             \/ a = Allocated(PersistHeader(Popped(d), TRUE), d.free)
             \/ a = AllocateFailed(Popped(d))
      PROVE  Sound(a.disk, o \cup ({a.page} \ Ends), l \ {a.page},
                   i /\ HeaderIsWritten(a.disk))
  <2> DEFINE e == Popped(d)
             w == PersistHeader(e, TRUE)
  <2>1. /\ d.free \in F /\ e \in Disk /\ InStep(e) /\ FreeForest(e, F)
        /\ e.free # d.free
        /\ \E G \in SUBSET (F \ {d.free}) : FreeForest(w, G)
        /\ FreePages(d) = FreePages(w) \cup {d.free}
    BY <1>0, <1>1, <1>4, HeadLeaves
  <2>2. e.header = d.header /\ e.next = d.next
    BY <1>0, <1>4 DEF Disk, Popped
  <2> HIDE DEF e
  <2>3. CASE a = AllocateFailed(e)
    <3>1. i => ~HeaderIsWritten(e)
      BY <1>0, <2>1, <2>2 DEF HeaderIsWritten
    <3> QED
      BY <1>0, <1>1, <1>2, <2>1, <2>2, <2>3, <3>1 DEF Sound
  <2>4. CASE a = Allocated(w, d.free)
    <3>1. a.disk = w /\ a.page = d.free
      BY <2>4 DEF Allocated
    <3>2. /\ w \in Disk /\ InStep(w) /\ w.next = e.next
          /\ w.header = [next |-> e.next, free |-> e.free,
                         catalog |-> e.catalog]
          /\ HeaderIsWritten(w)
      BY <2>1, HeaderPersists
    <3>3. PICK G \in SUBSET (F \ {d.free}) : FreeForest(w, G)
      BY <2>1
    <3> HIDE DEF w
    <3>4. w.header.next = d.next /\ w.next = d.next
      BY <2>2, <3>2
    <3>5. d.free \in 1 .. d.header.next - 1
      BY <1>1, <2>1 DEF FreeForest
    <3>6. o \cup {d.free} \cup (l \ {d.free}) \subseteq 1 .. w.header.next - 1
      BY <1>0, <3>4, <3>5
    <3>7. G \in SUBSET Page /\ G \cap (o \cup {d.free}) = {}
      BY <1>1
    <3>8. i => (o \cup {d.free}) \cup (l \ {d.free}) \cup FreePages(w)
                 = 1 .. w.next - 1
      BY <1>0, <2>1, <3>4
    <3>9. {a.page} \ Ends = {d.free}
      BY <1>4, <3>1 DEF Ends
    <3>10. Sound(w, o \cup {d.free}, l \ {d.free}, i /\ HeaderIsWritten(w))
      BY <1>0, <3>2, <3>3, <3>6, <3>7, <3>8 DEF Sound
    <3> QED
      BY <3>1, <3>9, <3>10
  <2> QED
    BY <1>4, <2>3, <2>4 DEF e
<1>5. ASSUME d.next \in Page,
             \/ a = Allocated(PersistHeader(Grown(d), TRUE), d.next)
             \/ a = AllocateFailed(Grown(d))
      PROVE  Sound(a.disk, o \cup ({a.page} \ Ends), l \ {a.page},
                   i /\ HeaderIsWritten(a.disk))
  <2> DEFINE e == Grown(d)
             w == PersistHeader(e, TRUE)
  <2>1. /\ e \in Disk /\ InStep(e) /\ FreeForest(e, F)
        /\ e.next = d.next + 1 /\ e.header = d.header
        /\ FreePages(e) = FreePages(d)
    BY <1>0, <1>1, <1>5, FileGrows
  <2> HIDE DEF e
  <2>2. CASE a = AllocateFailed(e)
    <3>1. i => ~HeaderIsWritten(e)
      BY <1>0, <2>1 DEF HeaderIsWritten
    <3> QED
      BY <1>0, <1>1, <1>2, <2>1, <2>2, <3>1 DEF Sound
  <2>3. CASE a = Allocated(w, d.next)
    <3>1. a.disk = w /\ a.page = d.next
      BY <2>3 DEF Allocated
    <3>2. /\ w \in Disk /\ InStep(w) /\ w.next = e.next
          /\ w.header = [next |-> e.next, free |-> e.free,
                         catalog |-> e.catalog]
          /\ HeaderIsWritten(w)
      BY <2>1, HeaderPersists
    <3>3. FreeForest(w, F) /\ FreePages(w) = FreePages(d)
      BY <2>1, HeaderPersists
    <3> HIDE DEF w
    <3>4. w.header.next = d.next + 1 /\ w.next = d.next + 1
      BY <2>1, <3>2
    <3>5. d.next \notin o /\ d.next \notin l /\ d.next \notin F /\ 1 <= d.next
      BY <1>0, <1>1, <1>5, PageIds DEF FreeForest, Leads
    <3>6. (o \cup {d.next}) \cup (l \ {d.next}) \subseteq 1 .. w.header.next - 1
      BY <1>0, <3>4, <3>5
    <3>7. F \cap (o \cup {d.next}) = {}
      BY <1>1, <3>5
    <3>8. i => (o \cup {d.next}) \cup (l \ {d.next}) \cup FreePages(w)
                 = 1 .. w.next - 1
      <4>1. l \ {d.next} = l
        BY <3>5
      <4>2. (1 .. d.next - 1) \cup {d.next} = 1 .. w.next - 1
        BY <1>0, <3>4, <3>5
      <4> QED
        BY <1>0, <3>3, <4>1, <4>2
    <3>9. {a.page} \ Ends = {d.next}
      BY <1>5, <3>1, PageIds
    <3>10. Sound(w, o \cup {d.next}, l \ {d.next}, i /\ HeaderIsWritten(w))
      BY <1>0, <3>2, <3>3, <3>6, <3>7, <3>8 DEF Sound
    <3> QED
      BY <3>1, <3>9, <3>10
  <2> QED
    BY <1>5, <2>2, <2>3 DEF e
<1> QED
  BY <1>3, <1>4, <1>5, AllocateEnds

(* The ways a deallocation can end.                                        *)
LEMMA DeallocateEnds ==
  ASSUME NEW d, NEW p, NEW a \in DeallocatePage(d, p)
  PROVE  \/ a = Deallocated(d, FALSE)
         \/ /\ p \in Page /\ MayJoinFreeList(d, p)
            /\ \E ok \in BOOLEAN :
                 a = Deallocated(PersistHeader(Pushed(d, p), ok), ok)
BY DEF DeallocatePage, PushFree, HeaderEnds, Pushed

(* A page that is given back joins the list in memory, whether or not the  *)
(* header can be written.                                                  *)
LEMMA DeallocateKeeps ==
  ASSUME NEW d, NEW o, NEW l, NEW i, Sound(d, o, l, i),
         NEW p \in o \cup l, NEW a \in DeallocatePage(d, p)
  PROVE  Sound(a.disk, o \ {p}, IF a.ok THEN l \ {p} ELSE l \cup {p},
               i /\ HeaderIsWritten(a.disk))
<1>0. /\ d \in Disk /\ InStep(d) /\ i \in BOOLEAN
      /\ o \cup l \subseteq 1 .. d.header.next - 1
      /\ i => /\ HeaderIsWritten(d)
              /\ o \cup l \cup FreePages(d) = 1 .. d.next - 1
      /\ d.header.next \in Nat /\ d.next \in Nat
      /\ d.header.next <= d.next
      /\ p \in 1 .. d.header.next - 1
  BY SoundParts DEF Sound, InStep
<1>1. PICK F \in SUBSET Page : FreeForest(d, F) /\ F \cap o = {}
  BY DEF Sound
<1> DEFINE e == Pushed(d, p)
<1>2. CASE a = Deallocated(d, FALSE)
  <2>1. a.disk = d /\ a.ok = FALSE
    BY <1>2 DEF Deallocated
  <2>2. (o \ {p}) \cup (l \cup {p}) = o \cup l /\ F \cap (o \ {p}) = {}
    BY <1>1
  <2>3. Sound(d, o \ {p}, l \cup {p}, i /\ HeaderIsWritten(d))
    BY <1>0, <1>1, <2>2 DEF Sound
  <2> QED
    BY <2>1, <2>3
<1>3. ASSUME p \in Page, MayJoinFreeList(d, p), NEW ok \in BOOLEAN,
             a = Deallocated(PersistHeader(e, ok), ok)
      PROVE  Sound(a.disk, o \ {p}, IF a.ok THEN l \ {p} ELSE l \cup {p},
                   i /\ HeaderIsWritten(a.disk))
  <2> DEFINE w == PersistHeader(e, ok)
             H == F \cup {p}
  <2>1. a.disk = w /\ a.ok = ok
    BY <1>3 DEF Deallocated
  <2>2. /\ e \in Disk /\ InStep(e) /\ FreeForest(e, H)
        /\ e.next = d.next /\ e.free = p /\ e.header = d.header
        /\ \A q \in Page \ {p} : e.pages[q] = d.pages[q]
        /\ FreePages(e) = FreePages(d) \cup {p} /\ d.free # p
    BY <1>0, <1>1, <1>3, PageJoins
  <2> HIDE DEF e
  <2>3. H \in SUBSET Page /\ H \cap (o \ {p}) = {}
    BY <1>1, <1>3
  <2> HIDE DEF H
  <2>4. /\ w \in Disk /\ InStep(w) /\ w.pages = e.pages /\ w.next = e.next
        /\ w.header = IF ok THEN [next |-> e.next, free |-> e.free,
                                  catalog |-> e.catalog]
                            ELSE e.header
        /\ ok => HeaderIsWritten(w)
        /\ ~ok => w = e
        /\ FreeForest(w, H) /\ FreePages(w) = FreePages(e)
    BY <1>3, <2>2, <2>3, HeaderPersists
  <2> HIDE DEF w
  <2>5. 1 .. d.header.next - 1 \subseteq 1 .. w.header.next - 1
    BY <1>0, <2>2, <2>4
  <2>6. CASE ok
    <3>1. i => (o \ {p}) \cup (l \ {p}) \cup FreePages(w) = 1 .. w.next - 1
      BY <1>0, <2>2, <2>4
    <3>2. (o \ {p}) \cup (l \ {p}) \subseteq 1 .. w.header.next - 1
      BY <1>0, <2>5
    <3>3. Sound(w, o \ {p}, l \ {p}, i /\ HeaderIsWritten(w))
      BY <1>0, <2>3, <2>4, <3>1, <3>2 DEF Sound
    <3> QED
      BY <2>1, <2>2, <2>4, <2>6, <3>3
  <2>7. CASE ~ok
    <3>1. i => ~HeaderIsWritten(w)
      BY <1>0, <2>2, <2>4, <2>7 DEF HeaderIsWritten
    <3>2. (o \ {p}) \cup (l \cup {p}) \subseteq 1 .. w.header.next - 1
      BY <1>0, <2>5
    <3>3. Sound(w, o \ {p}, l \cup {p}, i /\ HeaderIsWritten(w))
      BY <1>0, <2>3, <2>4, <3>1, <3>2 DEF Sound
    <3> QED
      BY <2>1, <2>2, <2>4, <2>7, <3>3
  <2> QED
    BY <1>3, <2>6, <2>7
<1> QED
  BY <1>2, <1>3, DeallocateEnds

(* A deallocation writes the page it frees only.                           *)
LEMMA DeallocateWrites ==
  ASSUME NEW d, NEW o, NEW l, NEW i, Sound(d, o, l, i),
         NEW p \in o \cup l, NEW a \in DeallocatePage(d, p),
         NEW q \in Page \ {p}
  PROVE  a.disk.pages[q] = d.pages[q]
<1>0. /\ d \in Disk /\ InStep(d) /\ p \in 1 .. d.header.next - 1
  BY DEF Sound
<1>1. PICK F \in SUBSET Page : FreeForest(d, F)
  BY DEF Sound
<1>2. CASE a = Deallocated(d, FALSE)
  BY <1>2 DEF Deallocated
<1>3. ASSUME p \in Page, MayJoinFreeList(d, p), NEW ok \in BOOLEAN,
             a = Deallocated(PersistHeader(Pushed(d, p), ok), ok)
      PROVE  a.disk.pages[q] = d.pages[q]
  <2>1. /\ Pushed(d, p) \in Disk /\ InStep(Pushed(d, p))
        /\ \A x \in Page \ {p} : Pushed(d, p).pages[x] = d.pages[x]
    BY <1>0, <1>1, <1>3, PageJoins
  <2>2. PersistHeader(Pushed(d, p), ok).pages = Pushed(d, p).pages
    BY <2>1, HeaderPersists
  <2>3. a.disk = PersistHeader(Pushed(d, p), ok)
    BY <1>3 DEF Deallocated
  <2> QED
    BY <2>1, <2>2, <2>3
<1> QED
  BY <1>2, <1>3, DeallocateEnds

(* An allocation writes no page in use. *)
LEMMA AllocateWrites ==
  ASSUME NEW d, NEW o, NEW l, NEW i, Sound(d, o, l, i),
         NEW a \in AllocatePage(d), NEW q \in o
  PROVE  a.disk.pages[q] = d.pages[q]
<1>0. /\ d \in Disk /\ InStep(d) /\ q \in Page
      /\ q \in 1 .. d.header.next - 1
      /\ d.header.next \in Nat /\ d.next \in Nat
      /\ d.header.next <= d.next
  BY SoundParts DEF Sound, InStep
<1>1. PICK F \in SUBSET Page : FreeForest(d, F) /\ F \cap o = {}
  BY DEF Sound
<1>2. CASE /\ d.free # INVALID_PAGE_ID
           /\ \/ a = Allocated(PersistHeader(Popped(d), TRUE), d.free)
              \/ a = AllocateFailed(Popped(d))
  <2>1. Popped(d) \in Disk /\ InStep(Popped(d))
    BY <1>0, <1>1, <1>2, HeadLeaves
  <2>2. Popped(d).pages = d.pages
    BY <1>0 DEF Popped, Disk
  <2>3. PersistHeader(Popped(d), TRUE).pages = Popped(d).pages
    BY <2>1, HeaderPersists
  <2>4. CASE a = Allocated(PersistHeader(Popped(d), TRUE), d.free)
    <3>1. a.disk = PersistHeader(Popped(d), TRUE)
      BY <2>4 DEF Allocated
    <3> QED
      BY <2>2, <2>3, <3>1
  <2>5. CASE a = AllocateFailed(Popped(d))
    <3>1. a.disk = Popped(d)
      BY <2>5 DEF AllocateFailed, Allocated
    <3> QED
      BY <2>2, <3>1
  <2> QED
    BY <1>2, <2>4, <2>5
<1>3. CASE /\ d.next \in Page
           /\ \/ a = Allocated(PersistHeader(Grown(d), TRUE), d.next)
              \/ a = AllocateFailed(Grown(d))
  <2>1. /\ Grown(d) \in Disk /\ InStep(Grown(d))
        /\ \A p \in Page \ {d.next} : Grown(d).pages[p] = d.pages[p]
    BY <1>0, <1>3, FileGrows
  <2>2. Grown(d).pages[q] = d.pages[q]
    BY <1>0, <2>1
  <2>3. PersistHeader(Grown(d), TRUE).pages = Grown(d).pages
    BY <2>1, HeaderPersists
  <2>4. CASE a = Allocated(PersistHeader(Grown(d), TRUE), d.next)
    <3>1. a.disk = PersistHeader(Grown(d), TRUE)
      BY <2>4 DEF Allocated
    <3> QED
      BY <2>2, <2>3, <3>1
  <2>5. CASE a = AllocateFailed(Grown(d))
    <3>1. a.disk = Grown(d)
      BY <2>5 DEF AllocateFailed, Allocated
    <3> QED
      BY <2>2, <3>1
  <2> QED
    BY <1>3, <2>4, <2>5
<1>4. CASE a = AllocateFailed(d)
  BY <1>4 DEF AllocateFailed, Allocated
<1> QED
  BY <1>2, <1>3, <1>4, AllocateEnds

(* An owner's write moves no page.                                         *)
LEMMA UpdateKeeps ==
  ASSUME NEW d, NEW o, NEW l, NEW i, Sound(d, o, l, i), NEW p \in o,
         NEW c \in Data
  PROVE  /\ Sound(Write(d, p, c), o, l, i)
         /\ \A q \in Page \ {p} : Write(d, p, c).pages[q] = d.pages[q]
<1> DEFINE e == Write(d, p, c)
           pages == [d.pages EXCEPT ![p] = c]
<1>0. /\ d \in Disk /\ InStep(d) /\ p \in Page
      /\ p \in 1 .. d.header.next - 1
      /\ d.header.next \in Nat /\ d.next \in Nat /\ d.size \in Nat
      /\ d.header.next <= d.next /\ d.next <= d.size
  BY SoundParts DEF Sound, InStep
<1>1. PICK F \in SUBSET Page : FreeForest(d, F) /\ F \cap o = {}
  BY DEF Sound
<1>2. e = [d EXCEPT !.pages = pages]
  <2>1. p # d.size
    BY <1>0
  <2> QED
    BY <1>0, <2>1 DEF Write, Disk
<1>3. pages \in [Page -> Content] /\ \A q \in Page \ {p} : pages[q] = d.pages[q]
  BY <1>0 DEF Disk, Content
<1> HIDE DEF pages, e
<1>4. /\ e \in Disk /\ e.pages = pages /\ e.size = d.size /\ e.next = d.next
      /\ e.free = d.free /\ e.header = d.header /\ e.catalog = d.catalog
  BY <1>0, <1>2, <1>3 DEF Disk
<1>5. InStep(e)
  BY <1>0, <1>4 DEF InStep
<1>6. \A q \in F : e.pages[q] = d.pages[q]
  BY <1>1, <1>3, <1>4
<1>7. /\ \A r : Ranked(d, F, r) => Ranked(e, F, r)
      /\ \A q \in F : NextFree(e, q) = NextFree(d, q)
  BY <1>0, <1>4, <1>6, RankedElsewhere
<1>8. Leads(e, F) /\ Leads(d, F)
  BY <1>1, <1>4 DEF FreeForest, Leads
<1>9. FreeForest(e, F)
  BY <1>1, <1>4, <1>7, <1>8 DEF FreeForest
<1>10. FreePages(e) = FreePages(d)
  BY <1>0, <1>1, <1>4, <1>7, <1>8, ListStays DEF FreeForest
<1>11. Sound(e, o, l, i)
  BY <1>1, <1>4, <1>5, <1>9, <1>10 DEF Sound, HeaderIsWritten
<1> QED
  BY <1>3, <1>4, <1>11 DEF e

(* A new catalog entry, with the header, which may fail, moves no page.    *)
LEMMA SetCatalogKeeps ==
  ASSUME NEW d, NEW o, NEW l, NEW i, Sound(d, o, l, i),
         NEW p \in Page \cup {0, INVALID_PAGE_ID},
         NEW a \in SetCatalogMetaPageId(d, p)
  PROVE  /\ Sound(a.disk, o, l, i /\ HeaderIsWritten(a.disk))
         /\ a.disk.pages = d.pages
<1>0. /\ d \in Disk /\ InStep(d) /\ i \in BOOLEAN
      /\ o \cup l \subseteq 1 .. d.header.next - 1
      /\ i => /\ HeaderIsWritten(d)
              /\ o \cup l \cup FreePages(d) = 1 .. d.next - 1
      /\ d.header.next \in Nat /\ d.next \in Nat
      /\ d.header.next <= d.next
  BY SoundParts DEF Sound, InStep
<1>1. PICK F \in SUBSET Page : FreeForest(d, F) /\ F \cap o = {}
  BY DEF Sound
<1>2. CASE a = Deallocated(d, FALSE)
  <2>1. a.disk = d
    BY <1>2 DEF Deallocated
  <2>2. Sound(d, o, l, i /\ HeaderIsWritten(d))
    BY <1>0, <1>1 DEF Sound
  <2> QED
    BY <2>1, <2>2
<1>3. ASSUME p # 0, p = INVALID_PAGE_ID \/ p < d.next, NEW ok \in BOOLEAN,
             a = Deallocated(PersistHeader([d EXCEPT !.catalog = p], ok), ok)
      PROVE  /\ Sound(a.disk, o, l, i /\ HeaderIsWritten(a.disk))
             /\ a.disk.pages = d.pages
  <2> DEFINE e == [d EXCEPT !.catalog = p]
             w == PersistHeader(e, ok)
  <2>1. a.disk = w
    BY <1>3 DEF Deallocated
  <2>2. p \in PageRef /\ p \in (1 .. d.next - 1) \cup Ends
    BY <1>0, <1>3, PageIds
  <2>3. /\ e \in Disk /\ e.pages = d.pages /\ e.size = d.size
        /\ e.next = d.next /\ e.free = d.free /\ e.header = d.header
        /\ e.catalog = p
    BY <1>0, <2>2 DEF Disk
  <2> HIDE DEF e
  <2>4. InStep(e)
    BY <1>0, <2>2, <2>3 DEF InStep
  <2>5. /\ \A r : Ranked(d, F, r) => Ranked(e, F, r)
        /\ \A q \in F : NextFree(e, q) = NextFree(d, q)
    BY <1>0, <2>3, RankedElsewhere
  <2>6. Leads(e, F) /\ Leads(d, F)
    BY <1>1, <2>3 DEF FreeForest, Leads
  <2>7. FreeForest(e, F)
    BY <1>1, <2>3, <2>5, <2>6 DEF FreeForest
  <2>8. FreePages(e) = FreePages(d)
    BY <1>0, <1>1, <2>3, <2>5, <2>6, ListStays DEF FreeForest
  <2>9. /\ w \in Disk /\ InStep(w) /\ w.pages = e.pages /\ w.next = e.next
        /\ w.header = IF ok THEN [next |-> e.next, free |-> e.free,
                                  catalog |-> e.catalog]
                            ELSE e.header
        /\ FreeForest(w, F) /\ FreePages(w) = FreePages(e)
    BY <1>3, <2>3, <2>4, <2>7, HeaderPersists
  <2> HIDE DEF w
  <2>10. o \cup l \subseteq 1 .. w.header.next - 1
    BY <1>0, <2>3, <2>9
  <2>11. Sound(w, o, l, i /\ HeaderIsWritten(w))
    BY <1>0, <1>1, <2>3, <2>8, <2>9, <2>10 DEF Sound
  <2> QED
    BY <2>1, <2>3, <2>9, <2>11
<1>4. \/ a = Deallocated(d, FALSE)
      \/ /\ p # 0 /\ (p = INVALID_PAGE_ID \/ p < d.next)
         /\ \E ok \in BOOLEAN :
              a = Deallocated(PersistHeader([d EXCEPT !.catalog = p], ok), ok)
  <2>1. p >= d.next \/ p < d.next
    BY <1>0, PageIds
  <2> QED
    BY <2>1 DEF SetCatalogMetaPageId, HeaderEnds
<1> QED
  BY <1>2, <1>3, <1>4

(* The reopened file has the list the header names. *)
LEMMA ReopenKeeps ==
  ASSUME NEW d, NEW o, NEW l, NEW i, Sound(d, o, l, i)
  PROVE  Sound(Reopen(d), o, l, i) /\ Reopen(d).pages = d.pages
<1> DEFINE e == Reopen(d)
<1>0. /\ d \in Disk /\ InStep(d) /\ i \in BOOLEAN
      /\ o \cup l \subseteq 1 .. d.header.next - 1
      /\ i => /\ HeaderIsWritten(d)
              /\ o \cup l \cup FreePages(d) = 1 .. d.next - 1
      /\ d.header \in Header
      /\ d.header.next \in Nat /\ d.next \in Nat /\ d.size \in Nat
      /\ 1 <= d.header.next /\ d.header.next <= d.next /\ d.next <= d.size
      /\ d.header.catalog \in (1 .. d.header.next - 1) \cup Ends
  BY SoundParts DEF Sound, InStep, Disk
<1>1. PICK F \in SUBSET Page : FreeForest(d, F) /\ F \cap o = {}
  BY DEF Sound
<1>2. d.header.catalog # 0
  BY <1>0, PageIds
<1>3. e = [d EXCEPT !.next = d.header.next, !.free = d.header.free,
                    !.catalog = d.header.catalog]
  <2>1. /\ (IF d.header.next < 1 THEN 1 ELSE d.header.next) = d.header.next
        /\ (IF d.header.catalog = 0 THEN INVALID_PAGE_ID
                                    ELSE d.header.catalog) = d.header.catalog
    BY <1>0, <1>2
  <2> QED
    BY <2>1, Zenon DEF Reopen
<1>4. /\ e \in Disk /\ e.pages = d.pages /\ e.size = d.size
      /\ e.header = d.header /\ e.next = d.header.next
      /\ e.free = d.header.free /\ e.catalog = d.header.catalog
  BY <1>0, <1>3 DEF Disk, Header
<1> HIDE DEF e
<1>5. InStep(e)
  BY <1>0, <1>4 DEF InStep
<1>6. HeaderIsWritten(e)
  BY <1>0, <1>4 DEF HeaderIsWritten, Header
<1>7. /\ \A r : Ranked(d, F, r) => Ranked(e, F, r)
      /\ \A q \in F : NextFree(e, q) = NextFree(d, q)
  BY <1>0, <1>4, RankedElsewhere
<1>8. Leads(e, F) /\ Leads(d, F)
  BY <1>1, <1>4 DEF FreeForest, Leads
<1>9. FreeForest(e, F)
  BY <1>1, <1>4, <1>7, <1>8 DEF FreeForest
<1>10. i => e.free = d.free /\ e.next = d.next
  BY <1>0, <1>4 DEF HeaderIsWritten
<1>11. i => FreePages(e) = FreePages(d)
  BY <1>0, <1>1, <1>4, <1>7, <1>8, <1>10, ListStays DEF FreeForest
<1>12. Sound(e, o, l, i)
  BY <1>0, <1>1, <1>4, <1>5, <1>6, <1>9, <1>10, <1>11 DEF Sound
<1> QED
  BY <1>4, <1>12 DEF e

-------------------------------------------------------------------------------
(* Steps and theorems. *)

(* A new file is sound.                                                    *)
LEMMA InitSound == Init => IInv
<1> SUFFICES ASSUME Init PROVE IInv
  OBVIOUS
<1> DEFINE d == NewFile
           h == [next |-> 1, free |-> INVALID_PAGE_ID,
                 catalog |-> INVALID_PAGE_ID]
           pages == [p \in Page |-> Zero]
<1>1. disk = d /\ owned = {} /\ limbo = {} /\ intact = TRUE
  BY DEF Init
<1>2. /\ d.header = h /\ d.next = 1 /\ d.free = INVALID_PAGE_ID
      /\ d.catalog = INVALID_PAGE_ID /\ d.size = 1 /\ d.pages = pages
  BY DEF NewFile
<1>3. d \in Disk
  <2>1. pages \in [Page -> Content] /\ h \in Header
    BY PageIds DEF Content, Header
  <2>2. 1 \in PageRef /\ INVALID_PAGE_ID \in PageRef /\ 1 \in 1 .. MaxPage + 1
    BY PageIds
  <2> QED
    BY <2>1, <2>2 DEF NewFile, Disk
<1> HIDE DEF d
<1>4. InStep(d) /\ HeaderIsWritten(d)
  BY <1>2 DEF InStep, HeaderIsWritten, Ends
<1> DEFINE r == [p \in Page |-> 0]
<1>5. /\ r \in [Page -> Nat] /\ \A p \in Page : r[p] <= 0
      /\ Ranked(d, {}, r) /\ Leads(d, {})
  BY <1>2 DEF Ranked, Leads, Ends
<1> HIDE DEF r
<1>6. FreeForest(d, {})
  BY <1>2, <1>5 DEF FreeForest, Ends
<1>7. FreePages(d) = {}
  <2>1. \A n \in PageRef : FreeListHop(d)[n] \in Ends
    BY <1>3, <1>5, WalkDescends
  <2> QED
    BY <2>1 DEF FreePages, Ends
<1> QED
  BY <1>1, <1>2, <1>3, <1>4, <1>6, <1>7 DEF IInv, Sound

(* Every step keeps the invariant.                                         *)
LEMMA StepSound == IInv /\ [Next]_vars => IInv'
<1> SUFFICES ASSUME IInv, [Next]_vars PROVE IInv'
  OBVIOUS
<1>1. Sound(disk, owned, limbo, intact)
  BY DEF IInv
<1>2. CASE Allocate
  <2>1. PICK a \in AllocatePage(disk) :
          /\ disk' = a.disk
          /\ owned' = owned \cup ({a.page} \ Ends)
          /\ limbo' = limbo \ {a.page}
          /\ intact' = (intact /\ HeaderIsWritten(a.disk))
    BY <1>2 DEF Allocate, NotesHeader, Ends
  <2> QED
    BY <1>1, <2>1, AllocateKeeps DEF IInv
<1>3. ASSUME NEW p \in Page, Deallocate(p) PROVE IInv'
  <2>1. PICK a \in DeallocatePage(disk, p) :
          /\ disk' = a.disk
          /\ owned' = owned \ {p}
          /\ limbo' = IF a.ok THEN limbo \ {p} ELSE limbo \cup {p}
          /\ intact' = (intact /\ HeaderIsWritten(a.disk))
          /\ p \in owned \cup limbo
    BY <1>3 DEF Deallocate, NotesHeader
  <2> QED
    BY <1>1, <2>1, DeallocateKeeps DEF IInv
<1>4. ASSUME NEW p \in Page, NEW c \in Data, UpdatePage(p, c) PROVE IInv'
  <2>1. /\ disk' = Write(disk, p, c) \/ disk' = disk
        /\ p \in owned
        /\ owned' = owned /\ limbo' = limbo /\ intact' = intact
    BY <1>4 DEF UpdatePage
  <2> QED
    BY <1>1, <2>1, UpdateKeeps DEF IInv
<1>5. ASSUME NEW p \in Page \cup {0, INVALID_PAGE_ID}, SetCatalog(p)
      PROVE  IInv'
  <2>1. PICK a \in SetCatalogMetaPageId(disk, p) :
          /\ disk' = a.disk
          /\ owned' = owned /\ limbo' = limbo
          /\ intact' = (intact /\ HeaderIsWritten(a.disk))
    BY <1>5 DEF SetCatalog, NotesHeader
  <2> QED
    BY <1>1, <2>1, SetCatalogKeeps DEF IInv
<1>6. CASE CrashAndReopen
  BY <1>1, <1>6, ReopenKeeps DEF CrashAndReopen, IInv
<1>7. CASE UNCHANGED vars
  BY <1>1, <1>7 DEF vars, IInv
<1> QED
  BY <1>2, <1>3, <1>4, <1>5, <1>6, <1>7 DEF Next

(* The invariant always holds.                                             *)
LEMMA SoundHolds == Spec => []IInv
BY InitSound, StepSound, PTL DEF Spec

(* A sound disk hands out what is not in use. *)
LEMMA SoundHandsOut ==
  ASSUME NEW d, NEW l, NEW i, Sound(d, owned, l, i)
  PROVE  HandsOutOnlyFreePages(d)
<1>1. /\ d \in Disk /\ owned \subseteq Page /\ d.next \in Nat
      /\ d.header.next \in Nat /\ d.header.next <= d.next
      /\ owned \subseteq 1 .. d.header.next - 1
  BY SoundParts DEF Sound, InStep
<1>2. PICK F \in SUBSET Page : FreeForest(d, F) /\ F \cap owned = {}
  BY DEF Sound
<1>3. PICK r \in [Page -> Nat] : Ranked(d, F, r)
  BY <1>2 DEF FreeForest
<1>4. Leads(d, F) /\ F \subseteq 1 .. d.header.next - 1
  BY <1>2 DEF FreeForest
<1>5. \A n \in PageRef : FreeListHop(d)[n] \in F \cup Ends
  BY <1>1, <1>3, <1>4, WalkDescends
<1>6. FreePages(d) \subseteq F
  BY <1>5 DEF FreePages, Ends
<1>7. FreeListHop(d)[MaxPage] = INVALID_PAGE_ID
  <2>1. MaxPage \in MaxPage .. MaxPage + 2
    BY PageIds
  <2> QED
    BY <1>1, <1>3, <1>4, <2>1, WalkEnds
<1>8. \A p \in F \cup owned : p < d.next
  BY <1>1, <1>4
<1> QED
  BY <1>1, <1>2, <1>6, <1>7, <1>8 DEF HandsOutOnlyFreePages

(* Neither in memory nor in the file does the free list ever lead to a     *)
(* page in use, run in a circle or leave the file: the disk manager may be *)
(* interrupted, or an access to the file may fail, at any of its steps.    *)
THEOREM NoReuse == Spec => []NoPageInUseIsReused
<1>1. IInv => NoPageInUseIsReused
  <2> SUFFICES ASSUME IInv PROVE NoPageInUseIsReused
    OBVIOUS
  <2>1. Sound(disk, owned, limbo, intact)
    BY DEF IInv
  <2>2. TypeOK
    BY <2>1, SoundParts DEF Sound, TypeOK
  <2>3. Sound(Reopen(disk), owned, limbo, intact)
    BY <2>1, ReopenKeeps
  <2> QED
    BY <2>1, <2>2, <2>3, SoundHandsOut DEF NoPageInUseIsReused
<1> QED
  BY <1>1, SoundHolds, PTL

(* While no header write has failed, no page is lost. *)
THEOREM NoLoss == Spec => []NoPageIsLost
<1>1. IInv => NoPageIsLost
  BY DEF IInv, Sound, NoPageIsLost
<1> QED
  BY <1>1, SoundHolds, PTL

(* The catalog entry in the header is a page of the file it describes. *)
THEOREM CatalogStays == Spec => []CatalogEntryExists
<1>1. IInv => CatalogEntryExists
  BY DEF IInv, Sound, InStep, CatalogEntryExists, Ends
<1> QED
  BY <1>1, SoundHolds, PTL

(* The content of a page in use changes by its owner's writes only: no     *)
(* link and no zero page is written over it.                               *)
THEOREM OwnersWrite == Spec => OnlyTheOwnerWrites
<1> DEFINE A == \A p \in owned \cap owned' :
                  disk'.pages[p] # disk.pages[p] =>
                    \E c \in Data : UpdatePage(p, c)
<1>1. IInv /\ [Next]_vars => [A]_vars
  <2> SUFFICES ASSUME IInv, Next, NEW q \in owned \cap owned',
                      disk'.pages[q] # disk.pages[q]
               PROVE  \E c \in Data : UpdatePage(q, c)
    BY DEF vars
  <2>1. Sound(disk, owned, limbo, intact) /\ owned \subseteq Page /\ q \in Page
    BY SoundParts DEF IInv
  <2>2. CASE Allocate
    <3>1. PICK a \in AllocatePage(disk) : disk' = a.disk
      BY <2>2 DEF Allocate
    <3>2. a.disk.pages[q] = disk.pages[q]
      BY <2>1, <3>1, AllocateWrites
    <3> QED
      BY <3>1, <3>2
  <2>3. ASSUME NEW p \in Page, Deallocate(p) PROVE FALSE
    <3>1. PICK a \in DeallocatePage(disk, p) :
            /\ disk' = a.disk /\ owned' = owned \ {p} /\ p \in owned \cup limbo
      BY <2>3 DEF Deallocate
    <3>2. q \in Page \ {p}
      BY <2>1, <3>1
    <3>3. a.disk.pages[q] = disk.pages[q]
      BY <2>1, <3>1, <3>2, DeallocateWrites
    <3> QED
      BY <3>1, <3>3
  <2>4. ASSUME NEW p \in Page, NEW c \in Data, UpdatePage(p, c)
        PROVE  \E c1 \in Data : UpdatePage(q, c1)
    <3>1. p \in owned /\ (disk' = Write(disk, p, c) \/ disk' = disk)
      BY <2>4 DEF UpdatePage
    <3>2. \A x \in Page \ {p} : disk'.pages[x] = disk.pages[x]
      BY <2>1, <3>1, UpdateKeeps
    <3>3. q = p
      BY <2>1, <3>2
    <3> QED
      BY <2>4, <3>3
  <2>5. ASSUME NEW p \in Page \cup {0, INVALID_PAGE_ID}, SetCatalog(p)
        PROVE  FALSE
    <3>1. PICK a \in SetCatalogMetaPageId(disk, p) : disk' = a.disk
      BY <2>5 DEF SetCatalog
    <3> QED
      BY <2>1, <3>1, SetCatalogKeeps
  <2>6. CASE CrashAndReopen
    BY <2>1, <2>6, ReopenKeeps DEF CrashAndReopen
  <2> QED
    BY <2>2, <2>3, <2>4, <2>5, <2>6 DEF Next
<1> QED
  BY <1>1, SoundHolds, PTL DEF Spec, OnlyTheOwnerWrites
===============================================================================
