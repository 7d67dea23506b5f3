----------------------------- MODULE CatalogProofs -----------------------------
(***************************************************************************)
(* What holds of the catalog of Catalog.tla at any time, and proofs of its *)
(* properties from that.                                                   *)
(*                                                                         *)
(* The invariant relates three things: memory and what the pages of the    *)
(* chain hold (FileSound, Told), the pages of each table, index, call, of  *)
(* the chain, of what waits and of what is lost, which share none and are  *)
(* what was handed out (PagesSound), and the oids (Counted).  Only what    *)
(* the file says of first pages depends on whether they are reclaimed.     *)
(* That the file describes memory at any time needs that failures come     *)
(* before it begins to change, FailuresAreTakenBack.                       *)
(***************************************************************************)
EXTENDS Catalog, FiniteSetTheorems, SequenceTheorems, WellFoundedInduction, TLAPS

(* A call of the pool or the disk that fails fails before the metadata has *)
(* begun to change, and an index that could not be dropped comes back.     *)
FailuresAreTakenBack == GivesUp = {}

(* A table's name and heap, an index's place in the catalog and its pages. *)
Shapes(T, X) ==
  /\ T \in [DOMAIN T -> [name : Name, heap : Seq(Page)]]
  /\ X \in [DOMAIN X -> [table : DOMAIN T, name : IndexName,
                         header : Page, tree : SUBSET Page]]
  /\ \A o \in DOMAIN T : T[o].heap # <<>> /\ IsInjective(T[o].heap)
  /\ \A x \in DOMAIN X : X[x].header \notin X[x].tree
  /\ \A o, q \in DOMAIN T : T[o].name = T[q].name => o = q

Tasks ==
  {Idle} \cup [op : {"create"}, name : Name, page : Page]
         \cup [op : {"index"}, oid : 0 .. MaxOid - 1, name : IndexName]

CallsOf(k, op) == {t \in Thread : k[t].op = op}

(* The oids the file has, a and b, and those in memory, are large enough,  *)
(* and calls under way can have theirs.                                    *)
Counted(a, b) ==
  /\ a \in 0 .. next_table_oid /\ b \in 0 .. next_index_oid
  /\ DOMAIN tables \cup given \subseteq 0 .. a - 1
  /\ DOMAIN indexes \subseteq 0 .. b - 1
  /\ next_table_oid \in Nat /\ next_index_oid \in Nat
  /\ next_table_oid + Cardinality(CallsOf(task, "create")) <= MaxOid
  /\ next_index_oid + Cardinality(CallsOf(task, "index")) <= MaxOid

(* C are the pages from the first one on, each linked to the next.         *)
IsChain(m, entry, C) ==
  /\ C \in Seq(Page) /\ IsInjective(C)
  /\ entry = IF C = <<>> THEN INVALID_PAGE_ID ELSE C[1]
  /\ \A i \in DOMAIN C :
       m[C[i]].next = IF i < Len(C) THEN C[i + 1] ELSE INVALID_PAGE_ID

Describes(m, C, s) ==
  /\ Len(C) = Parts(s)
  /\ \A i \in DOMAIN C : m[C[i]].payload = Part(s, i)

(* The file describes what is in memory, or was never written.             *)
FileSound(m, entry, C, s, a, b) ==
  /\ IsChain(m, entry, C)
  /\ IF C = <<>> THEN a = 0 /\ b = 0 ELSE Describes(m, C, s)

IndexPages(X) == UNION {TreePages(X[x]) : x \in DOMAIN X}
CallPages(k) == {k[t].page : t \in CallsOf(k, "create")}

(* The pages u are those of the six kinds, and each is of one kind.        *)
Parted(u, H, X, K, M, P, L) ==
  \A p :
    /\ p \in u <=> \/ p \in H \/ p \in X \/ p \in K
                   \/ p \in M \/ p \in P \/ p \in L
    /\ p \in H => p \notin X /\ p \notin K /\ p \notin M /\ p \notin P /\ p \notin L
    /\ p \in X => p \notin K /\ p \notin M /\ p \notin P /\ p \notin L
    /\ p \in K => p \notin M /\ p \notin P /\ p \notin L
    /\ p \in M => p \notin P /\ p \notin L
    /\ p \in P => p \notin L

(* No two tables, indexes or calls share a page.                           *)
HeapsApart(T) ==
  \A o, q \in DOMAIN T : \A p : p \in Range(T[o].heap) /\ p \in Range(T[q].heap) => o = q

TreesApart(X) ==
  \A x, y \in DOMAIN X : \A p : p \in TreePages(X[x]) /\ p \in TreePages(X[y]) => x = y

CallsApart(k) ==
  \A t, u \in CallsOf(k, "create") : k[t].page = k[u].page => t = u

PagesSound(C) ==
  /\ used \subseteq Page
  /\ pinned \subseteq HeapPages(tables) \cup IndexPages(indexes) \cup pending_reclaim
  /\ Parted(used, HeapPages(tables), IndexPages(indexes), CallPages(task),
            Range(C), pending_reclaim, lost)
  /\ HeapsApart(tables) /\ TreesApart(indexes) /\ CallsApart(task)

(* The tables as the file was last told of them: it may have another first *)
(* page for a heap that has lost its own.                                  *)
Told(T, G) ==
  /\ DOMAIN G = DOMAIN T
  /\ \A o \in DOMAIN T :
       /\ G[o].name = T[o].name
       /\ G[o].heap \in Seq(Page) /\ G[o].heap # <<>>
       /\ HeadsMayGo \/ FirstPageId(G[o].heap) = FirstPageId(T[o].heap)

Sound(C, G, a, b) ==
  /\ Shapes(tables, indexes) /\ Told(tables, G)
  /\ task \in [Thread -> Tasks]
  /\ Counted(a, b)
  /\ FileSound(meta, catalog_meta_page_id, C,
               BuildMetaSnapshot(G, indexes, a, b), a, b)
  /\ PagesSound(C)

IInv == \E C \in Seq(Page), a, b \in Nat : \E G : Sound(C, G, a, b)

-------------------------------------------------------------------------------
(* Numbers and sequences.                                                  *)

LEMMA AllNumbers ==
  ASSUME NEW S, 0 \in S, \A n \in Nat : n \in S => n + 1 \in S
  PROVE  Nat \subseteq S
<1> SUFFICES ASSUME Nat \ S # {} PROVE FALSE
  OBVIOUS
<1>1. PICK x \in Nat \ S : \A y \in Nat \ S : ~ (<<y, x>> \in OpToRel(<, Nat))
  <2>1. Nat \ S \in SUBSET Nat
    OBVIOUS
  <2> QED
    BY <2>1, NatLessThanWellFounded, WFMin
<1>2. x # 0 /\ x - 1 \in Nat
  OBVIOUS
<1>3. CASE x - 1 \in S
  BY <1>2, <1>3
<1>4. CASE x - 1 \notin S
  <2>1. x - 1 \in Nat \ S /\ x - 1 < x
    BY <1>2, <1>4
  <2>2. <<x - 1, x>> \in OpToRel(<, Nat)
    BY <1>1, <2>1 DEF OpToRel
  <2> QED
    BY <1>1, <2>1, <2>2
<1> QED
  BY <1>3, <1>4

(* Taking an element out of a sequence.                                    *)
LEMMA Removed ==
  ASSUME NEW S, NEW s \in Seq(S), NEW i \in 1 .. Len(s)
  PROVE  /\ RemoveAt(s, i) \in Seq(S)
         /\ Len(RemoveAt(s, i)) = Len(s) - 1
         /\ \A j \in 1 .. Len(s) - 1 :
              RemoveAt(s, i)[j] = IF j < i THEN s[j] ELSE s[j + 1]
<1> DEFINE front == SubSeq(s, 1, i - 1)
           back == SubSeq(s, i + 1, Len(s))
<1>1. /\ front \in Seq(S) /\ Len(front) = i - 1
      /\ \A j \in 1 .. i - 1 : front[j] = s[j]
  <2>1. \A j \in 1 .. i - 1 : s[j] \in S
    OBVIOUS
  <2> QED
    BY <2>1, SubSeqProperties
<1>2. /\ back \in Seq(S) /\ Len(back) = Len(s) - i
      /\ \A j \in 1 .. Len(s) - i : back[j] = s[i + j]
  <2>1. \A j \in i + 1 .. Len(s) : s[j] \in S
    OBVIOUS
  <2>2. /\ back \in Seq(S)
        /\ Len(back) = IF i + 1 <= Len(s) THEN Len(s) - (i + 1) + 1 ELSE 0
        /\ \A j \in 1 .. Len(s) - (i + 1) + 1 : back[j] = s[(i + 1) + j - 1]
    BY <2>1, SubSeqProperties
  <2> QED
    BY <2>2
<1> HIDE DEF front, back
<1>3. /\ front \o back \in Seq(S)
      /\ Len(front \o back) = Len(front) + Len(back)
      /\ \A j \in 1 .. Len(front) + Len(back) :
           (front \o back)[j] = IF j <= Len(front) THEN front[j]
                               ELSE back[j - Len(front)]
  BY <1>1, <1>2, ConcatProperties
<1>4. RemoveAt(s, i) = front \o back
  BY DEF RemoveAt, front, back
<1>5. /\ Len(front) + Len(back) = Len(s) - 1
      /\ \A j \in 1 .. Len(s) - 1 :
           IF j < i THEN j <= Len(front) /\ j \in 1 .. i - 1
           ELSE ~ (j <= Len(front)) /\ j - Len(front) \in 1 .. Len(s) - i
                /\ i + (j - Len(front)) = j + 1
  BY <1>1, <1>2
<1>6. ASSUME NEW j \in 1 .. Len(s) - 1
      PROVE  (front \o back)[j] = IF j < i THEN s[j] ELSE s[j + 1]
  <2>1. (front \o back)[j] = IF j <= Len(front) THEN front[j]
                             ELSE back[j - Len(front)]
    BY <1>3, <1>5
  <2>2. CASE j < i
    BY <1>1, <1>5, <2>1, <2>2
  <2>3. CASE ~ (j < i)
    BY <1>2, <1>5, <2>1, <2>3
  <2> QED
    BY <2>2, <2>3
<1> QED
  BY <1>3, <1>4, <1>5, <1>6

(* So much of the lowest elements of a set of numbers there is.            *)
Lowers(s, m, free) ==
  /\ s \in [1 .. m -> free]
  /\ \A i \in 1 .. m : \A j \in 1 .. i - 1 : s[j] < s[i]
  /\ \A p \in free \ Range(s) : \A i \in 1 .. m : s[i] < p

LEMMA OneLower ==
  ASSUME NEW free \in SUBSET Nat, NEW m \in Nat, NEW s, Lowers(s, m, free),
         ~ (free \subseteq Range(s))
  PROVE  \E t : Lowers(t, m + 1, free)
<1> DEFINE rest == free \ Range(s)
<1>1. PICK q \in rest : \A y \in rest : ~ (<<y, q>> \in OpToRel(<, Nat))
  <2>1. rest \in SUBSET Nat /\ rest # {}
    OBVIOUS
  <2> QED
    BY <2>1, NatLessThanWellFounded, WFMin
<1>2. \A y \in rest : y >= q
  <2>1. rest \subseteq Nat
    OBVIOUS
  <2> HIDE DEF rest
  <2>2. \A y \in rest : y < q => <<y, q>> \in OpToRel(<, Nat)
    BY <1>1, <2>1 DEF OpToRel
  <2>3. q \in Nat /\ \A y \in rest : ~ (y < q) /\ y \in Nat
    BY <1>1, <2>1, <2>2
  <2> QED
    BY <2>3
<1>3. q \in free /\ \A i \in 1 .. m : s[i] < q
  BY <1>1 DEF Lowers
<1> HIDE DEF rest
<1> DEFINE t == [i \in 1 .. m + 1 |-> IF i = m + 1 THEN q ELSE s[i]]
<1>4. t \in [1 .. m + 1 -> free]
  BY <1>3 DEF Lowers
<1>5. \A i \in 1 .. m + 1 : \A j \in 1 .. i - 1 : t[j] < t[i]
  BY <1>3 DEF Lowers
<1>6. \A p \in free \ Range(t) : \A i \in 1 .. m + 1 : t[i] < p
  <2> SUFFICES ASSUME NEW p \in free \ Range(t), NEW i \in 1 .. m + 1
               PROVE  t[i] < p
    OBVIOUS
  <2>1. p # q
    BY DEF Range
  <2>2. p \notin Range(s)
    <3>1. \A j \in 1 .. m : t[j] = s[j] /\ j \in DOMAIN t
      OBVIOUS
    <3>2. DOMAIN s = 1 .. m
      BY DEF Lowers
    <3> QED
      BY <3>1, <3>2 DEF Range
  <2>3. p \in rest /\ q < p
    BY <1>2, <2>1, <2>2, <1>3 DEF rest
  <2> QED
    BY <2>2, <2>3, <1>3 DEF Lowers
<1> QED
  BY <1>4, <1>5, <1>6 DEF Lowers

LEMMA LowersExist ==
  ASSUME NEW free \in SUBSET Nat, IsFiniteSet(free),
         NEW m \in Nat, m <= Cardinality(free)
  PROVE  \E s : Lowers(s, m, free)
<1>0. Cardinality(free) \in Nat
  BY FS_CardinalityType
<1> DEFINE S == {k \in Nat : k <= Cardinality(free) => \E s : Lowers(s, k, free)}
<1>1. 0 \in S
  <2>1. Lowers([i \in 1 .. 0 |-> 0], 0, free)
    BY DEF Lowers
  <2> QED
    BY <2>1
<1>2. ASSUME NEW k \in Nat, k \in S, k + 1 <= Cardinality(free)
      PROVE  \E s : Lowers(s, k + 1, free)
  <2>1. PICK s : Lowers(s, k, free)
    BY <1>2, <1>0
  <2>2. ASSUME free \subseteq Range(s) PROVE FALSE
    <3>1. s \in Surjection(1 .. k, free)
      BY <2>1, <2>2 DEF Lowers, Surjection, Range
    <3>2. Cardinality(free) <= k
      BY <3>1, FS_SurjCardinalityBound DEF ExistsSurjection
    <3> QED
      BY <1>0, <1>2, <3>2
  <2> QED
    BY <2>1, <2>2, OneLower
<1>3. \A k \in Nat : k \in S => k + 1 \in S
  BY <1>2
<1>4. Nat \subseteq S
  <2> HIDE DEF S
  <2> QED
    BY <1>1, <1>3, AllNumbers
<1> QED
  BY <1>4

(* NewPage hands out different pages, all of them free.                    *)
LEMMA LowestIs ==
  ASSUME CatalogConstants, NEW n \in Nat, NEW free \in SUBSET Page
  PROVE  /\ Lowest(n, free) \in Seq(free)
         /\ Len(Lowest(n, free)) <= n
         /\ \A i, j \in 1 .. Len(Lowest(n, free)) :
              Lowest(n, free)[i] = Lowest(n, free)[j] => i = j
<1>1. IsFiniteSet(free)
  <2>1. 1 \in Int /\ MaxPage \in Int /\ Page = 1 .. MaxPage
    BY DEF Page, CatalogConstants
  <2>2. IsFiniteSet(Page)
    BY <2>1, FS_Interval
  <2> QED
    BY <2>2, FS_Subset
<1>1b. free \subseteq Nat
  BY DEF Page
<1>2. Cardinality(free) \in Nat
  BY <1>1, FS_CardinalityType
<1> DEFINE m == IF n > Cardinality(free) THEN Cardinality(free) ELSE n
<1>3. m \in Nat /\ m <= Cardinality(free) /\ m <= n
  BY <1>2
<1> HIDE DEF m
<1>4. \E s : Lowers(s, m, free)
  BY <1>1, <1>1b, <1>3, LowersExist
<1> DEFINE t == Lowest(n, free)
<1>5. t = CHOOSE s \in [1 .. m -> free] :
        /\ \A i \in 1 .. m : \A j \in 1 .. i - 1 : s[j] < s[i]
        /\ \A p \in free \ Range(s) : \A i \in 1 .. m : s[i] < p
  BY DEF Lowest, m
<1> HIDE DEF t
<1>6. Lowers(t, m, free)
  BY <1>4, <1>5 DEF Lowers
<1>7. t \in Seq(free) /\ Len(t) = m
  BY <1>3, <1>6 DEF Lowers
<1>8. \A i, j \in 1 .. m : t[i] = t[j] => i = j
  <2>1. \A i \in 1 .. m : t[i] \in Nat
    BY <1>1b, <1>6 DEF Lowers
  <2> QED
    BY <1>3, <1>6, <2>1 DEF Lowers
<1> QED
  BY <1>3, <1>7, <1>8 DEF t

-------------------------------------------------------------------------------
(* The chain of pages and what it says.                                    *)

LEMMA ChainLength ==
  ASSUME CatalogConstants, NEW C \in Seq(Page), IsInjective(C)
  PROVE  Len(C) \in 0 .. MaxPage
<1>1. IsFiniteSet(Page) /\ Cardinality(Page) = MaxPage
  <2>1. 1 \in Int /\ MaxPage \in Int /\ Page = 1 .. MaxPage /\ MaxPage \in Nat
    BY DEF Page, CatalogConstants
  <2>2. /\ IsFiniteSet(1 .. MaxPage)
        /\ Cardinality(1 .. MaxPage) = IF 1 > MaxPage THEN 0 ELSE MaxPage - 1 + 1
    BY <2>1, FS_Interval
  <2> QED
    BY <2>1, <2>2
<1>2. Len(C) \in Nat /\ DOMAIN C = 1 .. Len(C) /\ C \in [1 .. Len(C) -> Page]
  BY LenProperties
<1>3. Cardinality(1 .. Len(C)) = Len(C)
  <2>1. 1 \in Int /\ Len(C) \in Int
    BY <1>2
  <2>2. Cardinality(1 .. Len(C)) = IF 1 > Len(C) THEN 0 ELSE Len(C) - 1 + 1
    BY <2>1, FS_Interval
  <2> QED
    BY <1>2, <2>2
<1>4. C \in Injection(1 .. Len(C), Page)
  BY <1>2 DEF Injection, IsInjective
<1>5. Cardinality(1 .. Len(C)) <= Cardinality(Page)
  BY <1>1, <1>4, FS_Injection
<1> QED
  BY <1>1, <1>2, <1>3, <1>5

(* WriteCatalogMetaPayload and ReadCatalogMetaPayload meet the pages of    *)
(* the chain, in order, and stop behind the last.                          *)
LEMMA MetaChainIs ==
  ASSUME CatalogConstants, NEW C, NEW p, IsChain(meta, p, C)
  PROVE  MetaChain(p) = C
<1>0. /\ C \in Seq(Page) /\ IsInjective(C) /\ MaxPage \in Nat
      /\ Len(C) \in 0 .. MaxPage /\ DOMAIN C = 1 .. Len(C)
      /\ \A i \in 1 .. Len(C) : C[i] \in Page
      /\ C # <<>> <=> Len(C) # 0
      /\ INVALID_PAGE_ID \notin Page
  BY ChainLength DEF IsChain, CatalogConstants, INVALID_PAGE_ID, Page
<1>1. /\ p = IF C = <<>> THEN INVALID_PAGE_ID ELSE C[1]
      /\ \A i \in 1 .. Len(C) :
           meta[C[i]].next = IF i < Len(C) THEN C[i + 1] ELSE INVALID_PAGE_ID
  BY <1>0 DEF IsChain
<1> DEFINE hop(h, i) ==
             IF i = 1 THEN p
             ELSE IF h[i - 1] \in Page THEN meta[h[i - 1]].next ELSE INVALID_PAGE_ID
           R(h) == [i \in 1 .. MaxPage + 1 |-> hop(h, i)]
           at == CHOOSE h : h = R(h)
           g == [i \in 1 .. MaxPage + 1 |->
                   IF i <= Len(C) THEN C[i] ELSE INVALID_PAGE_ID]
<1>2. g = R(g)
  <2>1. ASSUME NEW i \in 1 .. MaxPage + 1 PROVE g[i] = hop(g, i)
    <3>1. CASE i = 1
      BY <1>0, <1>1, <3>1
    <3>2. CASE i # 1 /\ i - 1 <= Len(C)
      <4>1. i - 1 \in 1 .. Len(C) /\ i - 1 \in 1 .. MaxPage + 1 /\ (i - 1) + 1 = i
        BY <1>0, <3>2
      <4>2. g[i - 1] = C[i - 1] /\ C[i - 1] \in Page
        BY <1>0, <4>1
      <4>3. hop(g, i) = IF i - 1 < Len(C) THEN C[i] ELSE INVALID_PAGE_ID
        BY <1>1, <3>2, <4>1, <4>2
      <4>4. (i - 1 < Len(C)) = (i <= Len(C))
        BY <1>0
      <4> QED
        BY <4>3, <4>4
    <3>3. CASE i # 1 /\ ~ (i - 1 <= Len(C))
      <4>1. i - 1 \in 1 .. MaxPage + 1 /\ ~ (i <= Len(C))
        BY <1>0, <3>3
      <4>2. g[i - 1] = INVALID_PAGE_ID /\ g[i] = INVALID_PAGE_ID
        BY <3>3, <4>1
      <4> QED
        BY <1>0, <3>3, <4>2
    <3> QED
      BY <3>1, <3>2, <3>3
  <2> HIDE DEF hop
  <2> QED
    BY <2>1
<1>3. at = R(at)
  <2> HIDE DEF R
  <2> QED
    BY <1>2
<1> HIDE DEF at
<1>4. /\ DOMAIN at = 1 .. MaxPage + 1 /\ DOMAIN g = 1 .. MaxPage + 1
      /\ \A i \in 1 .. MaxPage + 1 : at[i] = hop(at, i) /\ g[i] = hop(g, i)
  <2> HIDE DEF g, hop
  <2> QED
    BY <1>2, <1>3
<1> DEFINE S == {i \in Nat : i \in 1 .. MaxPage + 1 => at[i] = g[i]}
<1>5. 0 \in S
  OBVIOUS
<1>6. ASSUME NEW i \in Nat, i \in S PROVE i + 1 \in S
  <2> SUFFICES ASSUME i + 1 \in 1 .. MaxPage + 1 PROVE at[i + 1] = g[i + 1]
    OBVIOUS
  <2> HIDE DEF g
  <2>1. CASE i = 0
    BY <1>4, <2>1
  <2>2. CASE i # 0
    <3>1. i \in 1 .. MaxPage + 1 /\ (i + 1) - 1 = i /\ i + 1 # 1
      BY <1>0, <2>2
    <3>2. at[i] = g[i]
      BY <1>6, <3>1
    <3> QED
      BY <1>4, <3>1, <3>2
  <2> QED
    BY <2>1, <2>2
<1>7. Nat \subseteq S
  <2>1. \A i \in Nat : i \in S => i + 1 \in S
    BY <1>6
  <2> HIDE DEF S
  <2> QED
    BY <1>5, <2>1, AllNumbers
<1>8. \A i \in 1 .. MaxPage + 1 : at[i] = IF i <= Len(C) THEN C[i] ELSE INVALID_PAGE_ID
  <2> SUFFICES ASSUME NEW i \in 1 .. MaxPage + 1 PROVE at[i] = g[i]
    OBVIOUS
  <2> HIDE DEF S
  <2>1. i \in S
    BY <1>0, <1>7
  <2> HIDE DEF g
  <2> QED
    BY <2>1 DEF S
<1>9. {i \in DOMAIN at : at[i] \in Page} = 1 .. Len(C)
  BY <1>0, <1>4, <1>8
<1>10. Cardinality(1 .. Len(C)) = Len(C)
  <2>1. 1 \in Int /\ Len(C) \in Int
    BY <1>0
  <2>2. Cardinality(1 .. Len(C)) = IF 1 > Len(C) THEN 0 ELSE Len(C) - 1 + 1
    BY <2>1, FS_Interval
  <2> QED
    BY <1>0, <2>2
<1>11. MetaChain(p) = SubSeq(at, 1, Len(C))
  BY <1>9, <1>10 DEF MetaChain, at
<1>12. /\ SubSeq(at, 1, Len(C)) \in Seq(Page)
       /\ Len(SubSeq(at, 1, Len(C))) = Len(C)
       /\ \A i \in 1 .. Len(C) : SubSeq(at, 1, Len(C))[i] = C[i]
  <2>1. /\ 1 \in Int /\ Len(C) \in Int /\ Len(C) \in Nat
        /\ \A i \in 1 .. Len(C) : at[i] = C[i] /\ at[i] \in Page
    BY <1>0, <1>8
  <2>2. /\ SubSeq(at, 1, Len(C)) \in Seq(Page)
        /\ Len(SubSeq(at, 1, Len(C))) = IF 1 <= Len(C) THEN Len(C) - 1 + 1 ELSE 0
        /\ \A i \in 1 .. Len(C) - 1 + 1 : SubSeq(at, 1, Len(C))[i] = at[1 + i - 1]
    BY <2>1, SubSeqProperties
  <2> QED
    BY <2>1, <2>2
<1> QED
  BY <1>0, <1>11, <1>12, SeqEqual

(* A snapshot has finitely many entries, so it has some number of parts.   *)
LEMMA SnapshotParts ==
  ASSUME CatalogConstants, NEW T, NEW X, NEW a, NEW b,
         IsFiniteSet(DOMAIN T), IsFiniteSet(DOMAIN X)
  PROVE  Parts(BuildMetaSnapshot(T, X, a, b)) \in Nat \ {0}
<1> DEFINE s == BuildMetaSnapshot(T, X, a, b)
           f == [o \in DOMAIN T |-> [oid |-> o, name |-> T[o].name,
                                     first |-> FirstPageId(T[o].heap)]]
           g == [o \in DOMAIN X |-> [oid |-> o, table |-> X[o].table,
                                     name |-> X[o].name, header |-> X[o].header]]
<1>1. s.tables = {f[o] : o \in DOMAIN T} /\ s.indexes = {g[o] : o \in DOMAIN X}
  BY DEF BuildMetaSnapshot
<1>2. DOMAIN f = DOMAIN T /\ DOMAIN g = DOMAIN X
  OBVIOUS
<1> HIDE DEF s, f, g
<1>3. f \in Surjection(DOMAIN T, s.tables) /\ g \in Surjection(DOMAIN X, s.indexes)
  <2>1. f \in [DOMAIN T -> s.tables] /\ g \in [DOMAIN X -> s.indexes]
    <3>1. f = [o \in DOMAIN T |-> f[o]] /\ g = [o \in DOMAIN X |-> g[o]]
      BY DEF f, g
    <3> QED
      BY <1>1, <3>1
  <2> QED
    BY <1>1, <2>1 DEF Surjection
<1>4. IsFiniteSet(s.tables) /\ IsFiniteSet(s.indexes)
  BY <1>3, FS_Surjection
<1> DEFINE e == Cardinality(s.tables) + Cardinality(s.indexes)
<1>5. e \in Nat
  BY <1>4, FS_CardinalityType
<1>6. Parts(s) = IF e = 0 THEN 1 ELSE (e + PerPage - 1) \div PerPage
  BY DEF Parts
<1> HIDE DEF e
<1>7. ASSUME e # 0 PROVE (e + PerPage - 1) \div PerPage \in Nat \ {0}
  <2> DEFINE x == e + PerPage - 1
  <2>1. x \in Nat /\ PerPage \in Nat \ {0} /\ x >= PerPage
    BY <1>5, <1>7 DEF CatalogConstants
  <2> HIDE DEF x
  <2>2. x \div PerPage \in Nat /\ x \div PerPage >= 1
    BY <2>1
  <2> QED
    BY <2>2 DEF x
<1> QED
  BY <1>6, <1>7 DEF s

(* LoadCatalogMeta finds what is in memory, with the oids of the file.     *)
LEMMA LoadedIs ==
  ASSUME CatalogConstants, NEW C, NEW G, NEW a \in Nat, NEW b \in Nat,
         Shapes(tables, indexes), Told(tables, G),
         DOMAIN tables \subseteq 0 .. a - 1, DOMAIN indexes \subseteq 0 .. b - 1,
         FileSound(meta, catalog_meta_page_id, C,
                   BuildMetaSnapshot(G, indexes, a, b), a, b)
  PROVE  Loaded = {BuildMetaSnapshot(G, indexes, a, b)}
<1> DEFINE s == BuildMetaSnapshot(G, indexes, a, b)
<1>1. MetaChain(catalog_meta_page_id) = C
  BY MetaChainIs DEF FileSound
<1>2. CASE C = <<>>
  <2>1. a = 0 /\ b = 0 /\ catalog_meta_page_id = INVALID_PAGE_ID
    BY <1>2 DEF FileSound, IsChain
  <2>2. DOMAIN G = {} /\ DOMAIN indexes = {} /\ DOMAIN <<>> = {}
    <3>1. DOMAIN tables = {} /\ DOMAIN indexes = {}
      <4>1. 0 .. a - 1 = {} /\ 0 .. b - 1 = {}
        BY <2>1
      <4> QED
        BY <4>1
    <3>2. DOMAIN G = DOMAIN tables
      BY DEF Told
    <3>3. DOMAIN <<>> = {}
      OBVIOUS
    <3> QED
      BY <3>1, <3>2, <3>3
  <2>3. s = Empty
    BY <2>1, <2>2 DEF BuildMetaSnapshot, Empty
  <2> QED
    BY <2>1, <2>3 DEF Loaded
<1>3. CASE C # <<>>
  <2>1. /\ C \in Seq(Page) /\ Len(C) \in Nat \ {0} /\ DOMAIN C = 1 .. Len(C)
        /\ 1 \in 1 .. Len(C)
        /\ catalog_meta_page_id = C[1] /\ Len(C) = Parts(s)
        /\ \A i \in DOMAIN C : meta[C[i]].payload = Part(s, i)
    BY <1>3 DEF FileSound, IsChain, Describes
  <2>2. catalog_meta_page_id # INVALID_PAGE_ID
    BY <2>1 DEF Page, INVALID_PAGE_ID, CatalogConstants
  <2> DEFINE payload == [i \in DOMAIN C |-> meta[C[i]].payload]
  <2>3. payload = [i \in 1 .. Parts(s) |-> Part(s, i)]
    <3> HIDE DEF s
    <3> QED
      BY <2>1
  <2>4. payload[1].of = s
    <3> HIDE DEF s
    <3>1. payload[1] = Part(s, 1)
      BY <2>1, <2>3
    <3> HIDE DEF payload
    <3> QED
      BY <3>1 DEF Part
  <2> HIDE DEF payload
  <2>5. ASSUME NEW t \in s.tables
        PROVE  /\ t.first # INVALID_PAGE_ID /\ t.oid < s.next_table
               /\ t.oid \in DOMAIN tables /\ t.name = tables[t.oid].name
               /\ t = [oid |-> t.oid, name |-> G[t.oid].name,
                       first |-> FirstPageId(G[t.oid].heap)]
    <3>1. PICK o \in DOMAIN tables :
            t = [oid |-> o, name |-> G[o].name,
                 first |-> FirstPageId(G[o].heap)]
      BY DEF BuildMetaSnapshot, Told
    <3>2. G[o].heap \in Seq(Page) /\ G[o].heap # <<>> /\ G[o].name = tables[o].name
      BY DEF Told
    <3>3. FirstPageId(G[o].heap) \in Page
      BY <3>2 DEF FirstPageId
    <3>4. s.next_table = a /\ o < a
      BY DEF BuildMetaSnapshot
    <3> QED
      BY <3>1, <3>2, <3>3, <3>4 DEF Page, INVALID_PAGE_ID, CatalogConstants
  <2>6. ASSUME NEW x \in s.indexes
        PROVE  x.oid < s.next_index /\ \E t \in s.tables : t.oid = x.table
    <3>1. PICK o \in DOMAIN indexes :
            x = [oid |-> o, table |-> indexes[o].table,
                 name |-> indexes[o].name, header |-> indexes[o].header]
      BY DEF BuildMetaSnapshot
    <3>2. s.next_index = b /\ o < b
      BY DEF BuildMetaSnapshot
    <3>3. indexes[o].table \in DOMAIN G
      BY DEF Shapes, Told
    <3>4. [oid |-> indexes[o].table, name |-> G[indexes[o].table].name,
           first |-> FirstPageId(G[indexes[o].table].heap)] \in s.tables
      BY <3>3 DEF BuildMetaSnapshot
    <3> QED
      BY <3>1, <3>2, <3>4
  <2>7. ASSUME NEW t \in s.tables, NEW u \in s.tables, t # u
        PROVE  t.name # u.name /\ t.oid # u.oid
    <3>1. t.oid # u.oid
      BY <2>5, <2>7
    <3>2. tables[t.oid].name # tables[u.oid].name
      BY <2>5, <3>1 DEF Shapes
    <3> QED
      BY <2>5, <3>1, <3>2
  <2> HIDE DEF s
  <2>8. ReadCatalogMeta = {s}
    <3> DEFINE good(w) ==
                 /\ payload = [i \in 1 .. Parts(w) |-> Part(w, i)]
                 /\ \A t \in w.tables :
                      t.first # INVALID_PAGE_ID /\ t.oid < w.next_table
                 /\ \A x \in w.indexes : x.oid < w.next_index
    <3>1. ReadCatalogMeta = IF good(payload[1].of) THEN {payload[1].of} ELSE {}
      BY <1>1 DEF ReadCatalogMeta, payload
    <3>2. \A t \in s.tables : t.first # INVALID_PAGE_ID /\ t.oid < s.next_table
      BY <2>5
    <3>3. \A x \in s.indexes : x.oid < s.next_index
      BY <2>6
    <3>4. good(s)
      BY <2>3, <3>2, <3>3
    <3> HIDE DEF good
    <3> QED
      BY <2>4, <3>1, <3>4
  <2> QED
    BY <2>2, <2>6, <2>7, <2>8 DEF Loaded, Rebuilt, s
<1> QED
  BY <1>2, <1>3

(* What PersistCatalogMetaLocked leaves, when the pages u were handed out  *)
(* and C is the chain it finds: either what the file says stays, and new   *)
(* pages are lost, or a chain D takes C's place and describes s.           *)
PersistOutcome(u, s, C, r) ==
  \/ /\ r.ok = FALSE
     /\ r.entry = catalog_meta_page_id /\ r.meta = meta
     /\ r.lost \subseteq Page \ u /\ r.used = u \cup r.lost
  \/ /\ r.ok = TRUE /\ r.lost = {}
     /\ \E D \in Seq(Page) :
          /\ D # <<>> /\ IsChain(r.meta, r.entry, D) /\ Describes(r.meta, D, s)
          /\ \A p \in Range(D) : p \in u => p \in Range(C)
          /\ \A p : p \in r.used <=> (p \in u /\ p \notin Range(C)) \/ p \in Range(D)

LEMMA ElementsOf ==
  ASSUME NEW S, NEW s \in Seq(S)
  PROVE  /\ Range(s) \subseteq S
         /\ \A i \in 1 .. Len(s) : s[i] \in Range(s)
         /\ \A p \in Range(s) : \E i \in 1 .. Len(s) : s[i] = p
<1>1. DOMAIN s = 1 .. Len(s) /\ s \in [1 .. Len(s) -> S]
  BY LenProperties
<1> QED
  BY <1>1 DEF Range

LEMMA PersistDoes ==
  ASSUME CatalogConstants, FailuresAreTakenBack, NEW C, IsChain(meta, catalog_meta_page_id, C),
         NEW u \in SUBSET Page, Range(C) \subseteq u,
         NEW s, Parts(s) \in Nat \ {0}, NEW r \in Persisted(u, s)
  PROVE  PersistOutcome(u, s, C, r)
<1> DEFINE need == Parts(s)
           n == IF need > Len(C) THEN need - Len(C) ELSE 0
           more == Lowest(n, Page \ u)
           chain == C \o more
           extra == {chain[i] : i \in need + 1 .. Len(chain)}
<1>1. MetaChain(catalog_meta_page_id) = C
  BY MetaChainIs
<1>2. /\ C \in Seq(Page) /\ Len(C) \in Nat
      /\ \A i, j \in 1 .. Len(C) : C[i] = C[j] => i = j
  BY LenProperties DEF IsChain, IsInjective
<1>3. n \in Nat /\ need \in Nat \ {0}
  BY <1>2
<1> HIDE DEF n
<1>4. /\ more \in Seq(Page \ u) /\ Len(more) <= n /\ Len(more) \in Nat
      /\ \A i, j \in 1 .. Len(more) : more[i] = more[j] => i = j
  BY <1>3, LowestIs, LenProperties
<1>5. \/ \E k \in 0 .. Len(more) :
           r = [ok |-> FALSE, used |-> u \cup Range(SubSeq(more, 1, k)),
                entry |-> catalog_meta_page_id, meta |-> meta,
                lost |-> Range(SubSeq(more, 1, k))]
      \/ /\ Len(chain) >= need
         /\ r = [ok |-> TRUE, used |-> (u \cup Range(more)) \ extra,
                 entry |-> chain[1], meta |-> Written(s, chain), lost |-> {}]
  <2>1. "entry" \notin GivesUp /\ "write" \notin GivesUp
    BY DEF FailuresAreTakenBack
  <2> HIDE DEF more
  <2> QED
    BY <1>1, <2>1 DEF Persisted, n, more
<1> HIDE DEF more
<1>6. ASSUME NEW k \in 0 .. Len(more),
             r = [ok |-> FALSE, used |-> u \cup Range(SubSeq(more, 1, k)),
                  entry |-> catalog_meta_page_id, meta |-> meta,
                  lost |-> Range(SubSeq(more, 1, k))]
      PROVE  PersistOutcome(u, s, C, r)
  <2>1. \A i \in 1 .. k : more[i] \in Page \ u
    BY <1>4
  <2>2. SubSeq(more, 1, k) \in Seq(Page \ u)
    <3>1. 1 \in Int /\ k \in Int
      BY <1>4
    <3> QED
      BY <2>1, <3>1, SubSeqProperties
  <2>3. Range(SubSeq(more, 1, k)) \subseteq Page \ u
    BY <2>2, ElementsOf
  <2> QED
    BY <1>6, <2>3 DEF PersistOutcome
<1>7. /\ chain \in Seq(Page) /\ Len(chain) = Len(C) + Len(more)
      /\ \A i \in 1 .. Len(C) + Len(more) :
           chain[i] = IF i <= Len(C) THEN C[i] ELSE more[i - Len(C)]
  <2>1. more \in Seq(Page)
    BY <1>4
  <2> QED
    BY <1>2, <2>1, ConcatProperties
<1> HIDE DEF chain, extra, need
<1>8. \A i \in 1 .. Len(C) : C[i] \in u
  BY <1>2, ElementsOf
<1>9. \A i \in 1 .. Len(more) : more[i] \in Page /\ more[i] \notin u
  BY <1>4
<1>10. ASSUME NEW i \in 1 .. Len(chain), NEW j \in 1 .. Len(chain),
              chain[i] = chain[j]
       PROVE  i = j
  <2>1. CASE i <= Len(C) /\ j <= Len(C)
    BY <1>2, <1>4, <1>7, <1>10, <2>1
  <2>2. CASE i > Len(C) /\ j > Len(C)
    <3>1. /\ i - Len(C) \in 1 .. Len(more) /\ j - Len(C) \in 1 .. Len(more)
          /\ more[i - Len(C)] = more[j - Len(C)]
      BY <1>2, <1>4, <1>7, <1>10, <2>2
    <3> QED
      BY <1>2, <1>4, <3>1
  <2>3. CASE i <= Len(C) /\ j > Len(C)
    <3>1. /\ i \in 1 .. Len(C) /\ j - Len(C) \in 1 .. Len(more)
          /\ C[i] = more[j - Len(C)]
      BY <1>2, <1>4, <1>7, <1>10, <2>3
    <3> QED
      BY <1>8, <1>9, <3>1
  <2>4. CASE i > Len(C) /\ j <= Len(C)
    <3>1. /\ j \in 1 .. Len(C) /\ i - Len(C) \in 1 .. Len(more)
          /\ C[j] = more[i - Len(C)]
      BY <1>2, <1>4, <1>7, <1>10, <2>4
    <3> QED
      BY <1>8, <1>9, <3>1
  <2> QED
    BY <1>2, <1>4, <1>7, <2>1, <2>2, <2>3, <2>4
<1>11. ASSUME Len(chain) >= need,
              r = [ok |-> TRUE, used |-> (u \cup Range(more)) \ extra,
                   entry |-> chain[1], meta |-> Written(s, chain), lost |-> {}]
       PROVE  PersistOutcome(u, s, C, r)
  <2> DEFINE D == SubSeq(chain, 1, need)
             W == Written(s, chain)
  <2>1. /\ D \in Seq(Page) /\ Len(D) = need /\ DOMAIN D = 1 .. need
        /\ \A i \in 1 .. need : D[i] = chain[i] /\ chain[i] \in Page
    <3>1. /\ 1 \in Int /\ need \in Int /\ need >= 1
          /\ \A i \in 1 .. need : i \in 1 .. Len(chain) /\ chain[i] \in Page
      BY <1>2, <1>3, <1>4, <1>7, <1>11
    <3>2. /\ D \in Seq(Page) /\ Len(D) = IF 1 <= need THEN need - 1 + 1 ELSE 0
          /\ \A i \in 1 .. need - 1 + 1 : D[i] = chain[1 + i - 1]
      BY <3>1, SubSeqProperties
    <3>3. DOMAIN D = 1 .. Len(D)
      BY <3>2, LenProperties
    <3> HIDE DEF D
    <3> QED
      BY <3>1, <3>2, <3>3
  <2> HIDE DEF D
  <2>2. ASSUME NEW i \in 1 .. need
        PROVE  W[D[i]] = [payload |-> Part(s, i),
                          next |-> IF i < need THEN D[i + 1] ELSE INVALID_PAGE_ID]
    <3> DEFINE j == CHOOSE k \in 1 .. need : chain[k] = D[i]
    <3>1. j \in 1 .. need /\ chain[j] = chain[i]
      BY <2>1
    <3>2. i \in 1 .. Len(chain) /\ j \in 1 .. Len(chain)
      BY <1>2, <1>3, <1>4, <1>7, <1>11, <3>1
    <3>3. j = i
      BY <1>10, <3>1, <3>2
    <3>4. D[i] \in Page /\ \E k \in 1 .. need : chain[k] = D[i]
      BY <2>1
    <3> HIDE DEF j
    <3>5. W[D[i]] = [payload |-> Part(s, j),
                     next |-> IF j < need THEN chain[j + 1] ELSE INVALID_PAGE_ID]
      BY <3>4 DEF Written, j, need
    <3>6. i < need => D[i + 1] = chain[i + 1]
      BY <1>3, <2>1
    <3> QED
      BY <3>3, <3>5, <3>6
  <2>20. \A i \in 1 .. need :
           /\ W[D[i]].payload = Part(s, i)
           /\ W[D[i]].next = IF i < need THEN D[i + 1] ELSE INVALID_PAGE_ID
    <3> SUFFICES ASSUME NEW i \in 1 .. need
                 PROVE  /\ W[D[i]].payload = Part(s, i)
                        /\ W[D[i]].next = IF i < need THEN D[i + 1]
                                          ELSE INVALID_PAGE_ID
      OBVIOUS
    <3> DEFINE e == W[D[i]]
    <3>1. e = [payload |-> Part(s, i),
               next |-> IF i < need THEN D[i + 1] ELSE INVALID_PAGE_ID]
      BY <2>2
    <3> HIDE DEF e
    <3>2. e.payload = Part(s, i)
          /\ e.next = IF i < need THEN D[i + 1] ELSE INVALID_PAGE_ID
      BY <3>1
    <3> QED
      BY <3>2 DEF e
  <2> HIDE DEF W
  <2>3. D # <<>> /\ r.entry = D[1]
    BY <1>3, <1>11, <2>1
  <2>4. IsInjective(D)
    <3>1. \A i \in 1 .. need : i \in 1 .. Len(chain)
      BY <1>2, <1>3, <1>4, <1>7, <1>11
    <3> QED
      BY <1>10, <2>1, <3>1 DEF IsInjective
  <2>5. IsChain(W, r.entry, D)
    BY <2>1, <2>20, <2>3, <2>4 DEF IsChain
  <2>6. Describes(W, D, s)
    BY <2>1, <2>20 DEF Describes, need
  <2>7. r.meta = W /\ r.ok = TRUE /\ r.lost = {} /\ r.used = (u \cup Range(more)) \ extra
    BY <1>11 DEF W
  <2>8. \A p : p \in Range(more) <=> \E i \in 1 .. Len(more) : more[i] = p
    BY <1>4, ElementsOf
  <2>9. \A p : p \in Range(C) <=> \E i \in 1 .. Len(C) : C[i] = p
    BY <1>2, ElementsOf
  <2>10. \A p : p \in Range(D) <=> \E i \in 1 .. need : chain[i] = p
    BY <2>1, ElementsOf
  <2>11. \A p : p \in extra <=> \E i \in need + 1 .. Len(chain) : chain[i] = p
    BY DEF extra
  <2>12. \A i \in 1 .. Len(chain) :
           \/ i \in 1 .. Len(C) /\ chain[i] = C[i]
           \/ i - Len(C) \in 1 .. Len(more) /\ chain[i] = more[i - Len(C)]
    BY <1>2, <1>4, <1>7
  <2>13. /\ \A i \in 1 .. Len(C) : i \in 1 .. Len(chain) /\ chain[i] = C[i]
         /\ \A i \in 1 .. Len(more) :
              i + Len(C) \in 1 .. Len(chain) /\ chain[i + Len(C)] = more[i]
    <3>1. \A i \in 1 .. Len(C) : i \in 1 .. Len(chain) /\ chain[i] = C[i]
      BY <1>2, <1>4, <1>7
    <3>2. ASSUME NEW i \in 1 .. Len(more)
          PROVE  i + Len(C) \in 1 .. Len(chain) /\ chain[i + Len(C)] = more[i]
      <4>1. /\ i + Len(C) \in 1 .. Len(C) + Len(more) /\ ~ (i + Len(C) <= Len(C))
            /\ (i + Len(C)) - Len(C) = i
        BY <1>2, <1>4
      <4> QED
        BY <1>7, <4>1
    <3> QED
      BY <3>1, <3>2
  <2>14. \A p : p \in Range(C) \/ p \in Range(more)
                  <=> \E i \in 1 .. Len(chain) : chain[i] = p
    <3>1. ASSUME NEW p, NEW i \in 1 .. Len(chain), chain[i] = p
          PROVE  p \in Range(C) \/ p \in Range(more)
      BY ONLY <2>8, <2>9, <2>12, <3>1
    <3>2. ASSUME NEW p, p \in Range(C) \/ p \in Range(more)
          PROVE  \E i \in 1 .. Len(chain) : chain[i] = p
      BY ONLY <2>8, <2>9, <2>13, <3>2
    <3> QED
      BY ONLY <3>1, <3>2, Zenon
  <2>15. \A p : p \in Range(C) \/ p \in Range(more)
                  <=> p \in Range(D) \/ p \in extra
    <3>1. /\ \A i \in 1 .. Len(chain) : i \in 1 .. need \/ i \in need + 1 .. Len(chain)
          /\ \A i \in 1 .. need : i \in 1 .. Len(chain)
          /\ \A i \in need + 1 .. Len(chain) : i \in 1 .. Len(chain)
      BY <1>2, <1>3, <1>4, <1>7, <1>11
    <3> QED
      BY <2>10, <2>11, <2>14, <3>1
  <2>16. \A p : ~ (p \in Range(D) /\ p \in extra)
    <3>1. ASSUME NEW i \in 1 .. need, NEW j \in need + 1 .. Len(chain),
                 chain[i] = chain[j]
          PROVE  FALSE
      <4>1. i \in 1 .. Len(chain) /\ j \in 1 .. Len(chain) /\ i # j
        BY <1>2, <1>3, <1>4, <1>7, <1>11
      <4> QED
        BY <1>10, <3>1, <4>1
    <3> QED
      BY <2>10, <2>11, <3>1
  <2>17. \A p : p \in Range(more) => p \notin u
    BY <1>9, <2>8
  <2>18. \A p : p \in Range(C) => p \in u
    OBVIOUS
  <2>19. /\ \A p \in Range(D) : p \in u => p \in Range(C)
         /\ \A p : p \in r.used <=> (p \in u /\ p \notin Range(C)) \/ p \in Range(D)
    BY <2>7, <2>15, <2>16, <2>17, <2>18
  <2> QED
    BY <2>1, <2>3, <2>5, <2>6, <2>7, <2>19 DEF PersistOutcome
<1> QED
  BY <1>5, <1>6, <1>11

-------------------------------------------------------------------------------
(* Tables, indexes and calls, one of them changed.                         *)

LEMMA RangeOfAppend ==
  ASSUME NEW S, NEW s \in Seq(S), NEW e \in S
  PROVE  /\ Append(s, e) \in Seq(S) /\ Append(s, e) # <<>>
         /\ \A p : p \in Range(Append(s, e)) <=> p \in Range(s) \/ p = e
         /\ s # <<>> => Append(s, e)[1] = s[1]
         /\ IsInjective(s) /\ e \notin Range(s) => IsInjective(Append(s, e))
<1> DEFINE t == Append(s, e)
<1>1. /\ t \in Seq(S) /\ t # <<>> /\ Len(t) = Len(s) + 1 /\ Len(s) \in Nat
      /\ \A i \in 1 .. Len(s) : t[i] = s[i]
      /\ t[Len(s) + 1] = e
  BY AppendProperties, LenProperties
<1> HIDE DEF t
<1>2. DOMAIN t = 1 .. Len(s) + 1 /\ DOMAIN s = 1 .. Len(s)
  BY <1>1, LenProperties
<1>3. ASSUME NEW p PROVE p \in Range(t) <=> p \in Range(s) \/ p = e
  <2>1. p \in Range(t) <=> \E i \in 1 .. Len(s) + 1 : t[i] = p
    BY <1>2 DEF Range
  <2>2. p \in Range(s) <=> \E i \in 1 .. Len(s) : s[i] = p
    BY <1>2 DEF Range
  <2>3. /\ \A i \in 1 .. Len(s) + 1 : i \in 1 .. Len(s) \/ i = Len(s) + 1
        /\ \A i \in 1 .. Len(s) : i \in 1 .. Len(s) + 1
        /\ Len(s) + 1 \in 1 .. Len(s) + 1
    BY <1>1
  <2> QED
    BY <1>1, <2>1, <2>2, <2>3
<1>4. s # <<>> => t[1] = s[1]
  <2>1. s # <<>> => Len(s) # 0
    OBVIOUS
  <2> QED
    BY <1>1, <2>1
<1>5. ASSUME IsInjective(s), e \notin Range(s),
             NEW i \in 1 .. Len(s) + 1, NEW j \in 1 .. Len(s) + 1, t[i] = t[j]
      PROVE  i = j
  <2>1. \A k \in 1 .. Len(s) : s[k] # e
    BY <1>2, <1>5 DEF Range
  <2>2. \A k, l \in 1 .. Len(s) : s[k] = s[l] => k = l
    BY <1>2, <1>5 DEF IsInjective
  <2>3. /\ i \in 1 .. Len(s) \/ i = Len(s) + 1
        /\ j \in 1 .. Len(s) \/ j = Len(s) + 1
    BY <1>1
  <2> QED
    BY <1>1, <1>5, <2>1, <2>2, <2>3
<1>6. IsInjective(s) /\ e \notin Range(s) => IsInjective(t)
  BY <1>2, <1>5 DEF IsInjective
<1> QED
  BY <1>1, <1>3, <1>4, <1>6 DEF t

LEMMA RangeOfRemoved ==
  ASSUME NEW S, NEW s \in Seq(S), IsInjective(s), NEW i \in 1 .. Len(s), Len(s) > 1
  PROVE  /\ RemoveAt(s, i) \in Seq(S) /\ RemoveAt(s, i) # <<>>
         /\ \A p : p \in Range(RemoveAt(s, i)) <=> p \in Range(s) /\ p # s[i]
         /\ i > 1 => RemoveAt(s, i)[1] = s[1]
         /\ IsInjective(RemoveAt(s, i))
<1> DEFINE t == RemoveAt(s, i)
<1>1. /\ t \in Seq(S) /\ Len(t) = Len(s) - 1 /\ Len(s) \in Nat
      /\ \A j \in 1 .. Len(s) - 1 : t[j] = IF j < i THEN s[j] ELSE s[j + 1]
  BY Removed, LenProperties
<1> HIDE DEF t
<1>2. DOMAIN t = 1 .. Len(s) - 1 /\ DOMAIN s = 1 .. Len(s)
  BY <1>1, LenProperties
<1>3. \A j, k \in 1 .. Len(s) : s[j] = s[k] => j = k
  BY <1>2 DEF IsInjective
<1>4. ASSUME NEW p PROVE p \in Range(t) <=> p \in Range(s) /\ p # s[i]
  <2>1. p \in Range(t) <=> \E j \in 1 .. Len(s) - 1 : t[j] = p
    BY <1>2 DEF Range
  <2>2. p \in Range(s) <=> \E j \in 1 .. Len(s) : s[j] = p
    BY <1>2 DEF Range
  <2>3. ASSUME NEW j \in 1 .. Len(s) - 1, t[j] = p
        PROVE  p # s[i] /\ \E k \in 1 .. Len(s) : s[k] = p
    <3>1. CASE j < i
      <4>1. j \in 1 .. Len(s) /\ j # i
        BY <1>1, <3>1
      <4> QED
        BY <1>1, <1>3, <2>3, <3>1, <4>1
    <3>2. CASE ~ (j < i)
      <4>1. j + 1 \in 1 .. Len(s) /\ j + 1 # i
        BY <1>1, <3>2
      <4> QED
        BY <1>1, <1>3, <2>3, <3>2, <4>1
    <3> QED
      BY <3>1, <3>2
  <2>4. ASSUME NEW k \in 1 .. Len(s), s[k] = p, p # s[i]
        PROVE  \E j \in 1 .. Len(s) - 1 : t[j] = p
    <3>1. CASE k < i
      <4>1. k \in 1 .. Len(s) - 1
        BY <1>1, <3>1
      <4> QED
        BY <1>1, <2>4, <3>1, <4>1
    <3>2. CASE k > i
      <4>1. k - 1 \in 1 .. Len(s) - 1 /\ ~ (k - 1 < i) /\ (k - 1) + 1 = k
        BY <1>1, <3>2
      <4> QED
        BY <1>1, <2>4, <4>1
    <3> QED
      BY <1>1, <2>4, <3>1, <3>2
  <2> QED
    BY <2>1, <2>2, <2>3, <2>4
<1>5. t # <<>> /\ (i > 1 => t[1] = s[1])
  <2>1. 1 \in 1 .. Len(s) - 1 /\ Len(t) # 0
    BY <1>1
  <2> QED
    BY <1>1, <2>1
<1>6. ASSUME NEW j \in 1 .. Len(s) - 1, NEW k \in 1 .. Len(s) - 1, t[j] = t[k]
      PROVE  j = k
  <2> DEFINE at(x) == IF x < i THEN x ELSE x + 1
  <2>1. at(j) \in 1 .. Len(s) /\ at(k) \in 1 .. Len(s)
    BY <1>1
  <2>2. t[j] = s[at(j)] /\ t[k] = s[at(k)]
    BY <1>1
  <2>3. at(j) = at(k)
    BY <1>3, <1>6, <2>1, <2>2
  <2> QED
    BY <2>3
<1>7. IsInjective(t)
  BY <1>2, <1>6 DEF IsInjective
<1> QED
  BY <1>1, <1>4, <1>5, <1>7 DEF t

(* What the file says of indexes is the same.                              *)
SameEntries(X, X2) ==
  /\ DOMAIN X2 = DOMAIN X
  /\ \A x \in DOMAIN X : /\ X2[x].table = X[x].table
                         /\ X2[x].name = X[x].name
                         /\ X2[x].header = X[x].header

LEMMA SameSnapshot ==
  ASSUME NEW X, NEW X2, SameEntries(X, X2)
  PROVE  \A T, a, b : BuildMetaSnapshot(T, X2, a, b) = BuildMetaSnapshot(T, X, a, b)
<1>1. {[oid |-> o, table |-> X2[o].table, name |-> X2[o].name,
        header |-> X2[o].header] : o \in DOMAIN X2}
      = {[oid |-> o, table |-> X[o].table, name |-> X[o].name,
          header |-> X[o].header] : o \in DOMAIN X}
  BY DEF SameEntries
<1> QED
  BY <1>1 DEF BuildMetaSnapshot

(* A heap that keeps its first page, unless heads may go.                  *)
NewHeap(T, X, T2, o, h) ==
  /\ o \in DOMAIN T /\ h \in Seq(Page)
  /\ Shapes(T, X) /\ HeapsApart(T)
  /\ T2 = [T EXCEPT ![o].heap = h]
  /\ h # <<>> /\ IsInjective(h) /\ (HeadsMayGo \/ h[1] = T[o].heap[1])

HeapReplaced(T, X, T2, o, h) ==
  /\ DOMAIN T2 = DOMAIN T /\ Shapes(T2, X)
  /\ \A G : Told(T, G) => Told(T2, G)
  /\ \A p : p \in HeapPages(T2) <=>
       \/ p \in Range(h)
       \/ p \in HeapPages(T) /\ p \notin Range(T[o].heap)
  /\ (\A p \in Range(h) : p \in Range(T[o].heap) \/ p \notin HeapPages(T))
     => HeapsApart(T2)

LEMMA HeapChanges ==
  ASSUME NEW T, NEW X, NEW T2, NEW o, NEW h, NewHeap(T, X, T2, o, h)
  PROVE  HeapReplaced(T, X, T2, o, h)
<1>0. /\ o \in DOMAIN T /\ h \in Seq(Page)
      /\ Shapes(T, X) /\ HeapsApart(T)
      /\ T2 = [T EXCEPT ![o].heap = h]
      /\ h # <<>> /\ IsInjective(h) /\ (HeadsMayGo \/ h[1] = T[o].heap[1])
  BY DEF NewHeap
<1>1. /\ T \in [DOMAIN T -> [name : Name, heap : Seq(Page)]]
      /\ \A q \in DOMAIN T : T[q].heap # <<>> /\ IsInjective(T[q].heap)
  BY <1>0 DEF Shapes
<1>2. T[o] \in [name : Name, heap : Seq(Page)]
  BY <1>0, <1>1
<1>3. /\ DOMAIN T2 = DOMAIN T
      /\ T2[o] = [name |-> T[o].name, heap |-> h]
      /\ \A q \in DOMAIN T : q # o => T2[q] = T[q]
      /\ T2 = [q \in DOMAIN T |-> T2[q]]
  BY <1>0, <1>2
<1>4. T2[o].name = T[o].name /\ T2[o].heap = h
  BY <1>0, <1>3
<1>5. \A q \in DOMAIN T : T2[q] \in [name : Name, heap : Seq(Page)]
  BY <1>0, <1>1, <1>2, <1>3
<1>6. T2 \in [DOMAIN T2 -> [name : Name, heap : Seq(Page)]]
  BY <1>0, <1>3, <1>5
<1>7. Shapes(T2, X)
  <2>1. X \in [DOMAIN X -> [table : DOMAIN T2, name : IndexName,
                            header : Page, tree : SUBSET Page]]
    BY <1>0, <1>3 DEF Shapes
  <2>2. \A q \in DOMAIN T2 : T2[q].heap # <<>> /\ IsInjective(T2[q].heap)
    BY <1>0, <1>1, <1>3, <1>4
  <2>3. \A q, r \in DOMAIN T2 : T2[q].name = T2[r].name => q = r
    <3>1. \A q \in DOMAIN T : T2[q].name = T[q].name
      BY <1>0, <1>3, <1>4
    <3> QED
      BY <1>0, <1>3, <3>1 DEF Shapes
  <2>4. \A x \in DOMAIN X : X[x].header \notin X[x].tree
    BY <1>0 DEF Shapes
  <2> QED
    BY <1>0, <1>6, <2>1, <2>2, <2>3, <2>4 DEF Shapes
<1>8. ASSUME NEW G, Told(T, G) PROVE Told(T2, G)
  <2>1. \A q \in DOMAIN T :
          /\ T2[q].name = T[q].name
          /\ HeadsMayGo \/ FirstPageId(T2[q].heap) = FirstPageId(T[q].heap)
    BY <1>0, <1>1, <1>3, <1>4 DEF FirstPageId
  <2>2. \A q \in DOMAIN T :
          HeadsMayGo \/ FirstPageId(G[q].heap) = FirstPageId(T2[q].heap)
    BY <1>8, <2>1 DEF Told
  <2>3. /\ DOMAIN G = DOMAIN T2
        /\ \A q \in DOMAIN T2 : /\ G[q].name = T2[q].name
                                /\ G[q].heap \in Seq(Page) /\ G[q].heap # <<>>
    BY <1>3, <1>8, <2>1 DEF Told
  <2> QED
    BY <1>3, <2>2, <2>3 DEF Told
<1>9. /\ \A q \in DOMAIN T : q # o => T2[q].heap = T[q].heap
      /\ T2[o].heap = h /\ DOMAIN T2 = DOMAIN T
  BY <1>0, <1>3, <1>4
<1>10. /\ \A p : p \in HeapPages(T2) <=> \E q \in DOMAIN T : p \in Range(T2[q].heap)
       /\ \A p : p \in HeapPages(T) <=> \E q \in DOMAIN T : p \in Range(T[q].heap)
  BY <1>0, <1>9 DEF HeapPages
<1>11. \A p : p \in HeapPages(T2) <=>
              \/ p \in Range(h)
              \/ p \in HeapPages(T) /\ p \notin Range(T[o].heap)
  BY <1>0, <1>9, <1>10 DEF HeapsApart
<1>12. (\A p \in Range(h) : p \in Range(T[o].heap) \/ p \notin HeapPages(T))
       => HeapsApart(T2)
  <2>1. o \in DOMAIN T /\ HeapsApart(T)
    BY <1>0
  <2> QED
    BY <1>9, <1>10, <2>1 DEF HeapsApart
<1> QED
  BY <1>3, <1>7, <1>8, <1>11, <1>12 DEF HeapReplaced

(* A tree under the same header.                                           *)
NewTree(T, X, X2, x, h) ==
  /\ x \in DOMAIN X /\ h \in SUBSET Page
  /\ Shapes(T, X) /\ TreesApart(X)
  /\ X2 = [X EXCEPT ![x].tree = h] /\ X[x].header \notin h

TreeReplaced(T, X, X2, x, h) ==
  /\ DOMAIN X2 = DOMAIN X /\ Shapes(T, X2)
  /\ \A G, a, b : BuildMetaSnapshot(G, X2, a, b) = BuildMetaSnapshot(G, X, a, b)
  /\ \A p : p \in IndexPages(X2) <=>
       \/ p \in h
       \/ p \in IndexPages(X) /\ p \notin X[x].tree
  /\ (\A p \in h : p \in X[x].tree \/ p \notin IndexPages(X))
     => TreesApart(X2)

LEMMA TreeChanges ==
  ASSUME NEW T, NEW X, NEW X2, NEW x, NEW h, NewTree(T, X, X2, x, h)
  PROVE  TreeReplaced(T, X, X2, x, h)
<1>0. /\ x \in DOMAIN X /\ h \in SUBSET Page
      /\ Shapes(T, X) /\ TreesApart(X)
      /\ X2 = [X EXCEPT ![x].tree = h] /\ X[x].header \notin h
  BY DEF NewTree
<1> DEFINE Entry == [table : DOMAIN T, name : IndexName,
                     header : Page, tree : SUBSET Page]
<1>1. /\ X \in [DOMAIN X -> Entry]
      /\ \A y \in DOMAIN X : X[y].header \notin X[y].tree
  BY <1>0 DEF Shapes
<1>2. X[x] \in Entry
  BY <1>0, <1>1
<1>3. /\ DOMAIN X2 = DOMAIN X
      /\ X2[x] = [table |-> X[x].table, name |-> X[x].name,
                  header |-> X[x].header, tree |-> h]
      /\ \A y \in DOMAIN X : y # x => X2[y] = X[y]
      /\ X2 = [y \in DOMAIN X |-> X2[y]]
  BY <1>0, <1>2
<1>4. /\ X2[x].table = X[x].table /\ X2[x].name = X[x].name
      /\ X2[x].header = X[x].header /\ X2[x].tree = h
  BY <1>0, <1>3
<1>5. \A y \in DOMAIN X : X2[y] \in Entry
  BY <1>0, <1>1, <1>2, <1>3
<1>6. X2 \in [DOMAIN X2 -> Entry]
  BY <1>0, <1>3, <1>5
<1>7. Shapes(T, X2)
  <2>1. \A y \in DOMAIN X2 : X2[y].header \notin X2[y].tree
    BY <1>0, <1>1, <1>3, <1>4
  <2> QED
    BY <1>0, <1>6, <2>1 DEF Shapes
<1>8. \A G, a, b : BuildMetaSnapshot(G, X2, a, b) = BuildMetaSnapshot(G, X, a, b)
  <2>1. \A y \in DOMAIN X : /\ X2[y].table = X[y].table
                            /\ X2[y].name = X[y].name
                            /\ X2[y].header = X[y].header
    BY <1>0, <1>3, <1>4
  <2>2. SameEntries(X, X2)
    BY <1>0, <1>3, <2>1 DEF SameEntries
  <2> QED
    BY <2>2, SameSnapshot
<1>9. /\ \A y \in DOMAIN X : y # x => TreePages(X2[y]) = TreePages(X[y])
      /\ \A p : p \in TreePages(X2[x]) <=> p = X[x].header \/ p \in h
      /\ \A p : p \in TreePages(X[x]) <=> p = X[x].header \/ p \in X[x].tree
      /\ DOMAIN X2 = DOMAIN X
  BY <1>0, <1>3, <1>4 DEF TreePages
<1>10. /\ \A p : p \in IndexPages(X2) <=> \E y \in DOMAIN X : p \in TreePages(X2[y])
       /\ \A p : p \in IndexPages(X) <=> \E y \in DOMAIN X : p \in TreePages(X[y])
  BY <1>0, <1>9 DEF IndexPages
<1>11. X[x].header \notin X[x].tree
  BY <1>0, <1>1
<1>12. \A p : p \in IndexPages(X2) <=>
              \/ p \in h
              \/ p \in IndexPages(X) /\ p \notin X[x].tree
  BY <1>0, <1>9, <1>10, <1>11 DEF TreesApart
<1>13. (\A p \in h : p \in X[x].tree \/ p \notin IndexPages(X)) => TreesApart(X2)
  BY <1>0, <1>9, <1>10 DEF TreesApart
<1> QED
  BY <1>3, <1>7, <1>8, <1>12, <1>13 DEF TreeReplaced

(* A table more, and an index more.                                        *)
NewTable(T, X, T2, o, n, p) ==
  /\ n \in Name /\ p \in Page
  /\ Shapes(T, X) /\ HeapsApart(T) /\ o \notin DOMAIN T
  /\ \A q \in DOMAIN T : T[q].name # n
  /\ p \notin HeapPages(T)
  /\ T2 = With(T, o, [name |-> n, heap |-> <<p>>])

TableThere(T, X, T2, o, p) ==
  /\ DOMAIN T2 = DOMAIN T \cup {o}
  /\ Shapes(T2, X) /\ HeapsApart(T2)
  /\ HeapPages(T2) = HeapPages(T) \cup {p}

LEMMA TableAdded ==
  ASSUME NEW T, NEW X, NEW T2, NEW o, NEW n, NEW p, NewTable(T, X, T2, o, n, p)
  PROVE  TableThere(T, X, T2, o, p)
<1> USE DEF NewTable
<1> DEFINE e == [name |-> n, heap |-> <<p>>]
           h == <<p>>
<1>1. /\ h \in Seq(Page) /\ h # <<>> /\ DOMAIN h = {1} /\ h[1] = p
  OBVIOUS
<1> HIDE DEF h
<1>2. Range(h) = {p} /\ IsInjective(h)
  BY <1>1 DEF Range, IsInjective
<1>3. /\ e \in [name : Name, heap : Seq(Page)] /\ e.name = n /\ e.heap = h
  BY <1>1 DEF h
<1>4. /\ DOMAIN T2 = DOMAIN T \cup {o} /\ T2[o] = e
      /\ \A q \in DOMAIN T : T2[q] = T[q]
      /\ T2 = [q \in DOMAIN T2 |-> T2[q]]
  BY DEF With
<1> HIDE DEF e
<1>5. T2[o].name = n /\ T2[o].heap = h
  BY <1>3, <1>4
<1>6. T2 \in [DOMAIN T2 -> [name : Name, heap : Seq(Page)]]
  <2>1. \A q \in DOMAIN T : T[q] \in [name : Name, heap : Seq(Page)]
    BY DEF Shapes
  <2>2. \A q \in DOMAIN T2 : T2[q] \in [name : Name, heap : Seq(Page)]
    BY <1>3, <1>4, <2>1
  <2> QED
    BY <1>4, <2>2
<1>7. X \in [DOMAIN X -> [table : DOMAIN T2, name : IndexName,
                          header : Page, tree : SUBSET Page]]
  <2>1. \A x \in DOMAIN X : X[x] \in [table : DOMAIN T, name : IndexName,
                                      header : Page, tree : SUBSET Page]
    BY DEF Shapes
  <2>2. \A x \in DOMAIN X : X[x] \in [table : DOMAIN T2, name : IndexName,
                                      header : Page, tree : SUBSET Page]
    BY <1>4, <2>1
  <2>3. X = [x \in DOMAIN X |-> X[x]]
    BY DEF Shapes
  <2> QED
    BY <2>2, <2>3
<1>8. Shapes(T2, X)
  <2>1. \A q \in DOMAIN T2 : T2[q].heap # <<>> /\ IsInjective(T2[q].heap)
    BY <1>1, <1>2, <1>4, <1>5 DEF Shapes
  <2>2. \A q, r \in DOMAIN T2 : T2[q].name = T2[r].name => q = r
    BY <1>4, <1>5 DEF Shapes
  <2>3. \A x \in DOMAIN X : X[x].header \notin X[x].tree
    BY DEF Shapes
  <2> QED
    BY <1>6, <1>7, <2>1, <2>2, <2>3 DEF Shapes
<1>9. /\ \A q : q \in HeapPages(T) <=> \E r \in DOMAIN T : q \in Range(T[r].heap)
      /\ \A q : q \in HeapPages(T2) <=> \E r \in DOMAIN T2 : q \in Range(T2[r].heap)
  BY DEF HeapPages
<1>10. HeapPages(T2) = HeapPages(T) \cup {p}
  BY <1>2, <1>4, <1>5, <1>9
<1>11. HeapsApart(T2)
  BY <1>2, <1>4, <1>5, <1>9 DEF HeapsApart
<1> QED
  BY <1>4, <1>8, <1>10, <1>11 DEF TableThere

NewIndex(T, X, X2, o, e) ==
  /\ Shapes(T, X) /\ TreesApart(X) /\ o \notin DOMAIN X
  /\ e \in [table : DOMAIN T, name : IndexName, header : Page, tree : SUBSET Page]
  /\ e.header \notin e.tree
  /\ \A p \in TreePages(e) : p \notin IndexPages(X)
  /\ X2 = With(X, o, e)

IndexThere(T, X, X2, o, e) ==
  /\ DOMAIN X2 = DOMAIN X \cup {o}
  /\ Shapes(T, X2) /\ TreesApart(X2)
  /\ IndexPages(X2) = IndexPages(X) \cup TreePages(e)

LEMMA IndexAdded ==
  ASSUME NEW T, NEW X, NEW X2, NEW o, NEW e, NewIndex(T, X, X2, o, e)
  PROVE  IndexThere(T, X, X2, o, e)
<1> USE DEF NewIndex
<1> DEFINE Entry == [table : DOMAIN T, name : IndexName,
                     header : Page, tree : SUBSET Page]
<1>1. /\ DOMAIN X2 = DOMAIN X \cup {o} /\ X2[o] = e
      /\ \A y \in DOMAIN X : X2[y] = X[y]
      /\ X2 = [y \in DOMAIN X2 |-> X2[y]]
  BY DEF With
<1>2. X2 \in [DOMAIN X2 -> Entry]
  <2>1. \A y \in DOMAIN X : X[y] \in Entry
    BY DEF Shapes
  <2>2. \A y \in DOMAIN X2 : X2[y] \in Entry
    BY <1>1, <2>1
  <2> HIDE DEF Entry
  <2> QED
    BY <1>1, <2>2
<1>3. Shapes(T, X2)
  <2>1. \A y \in DOMAIN X2 : X2[y].header \notin X2[y].tree
    BY <1>1 DEF Shapes
  <2> QED
    BY <1>2, <2>1 DEF Shapes
<1>4. /\ \A q : q \in IndexPages(X) <=> \E r \in DOMAIN X : q \in TreePages(X[r])
      /\ \A q : q \in IndexPages(X2) <=> \E r \in DOMAIN X2 : q \in TreePages(X2[r])
  BY DEF IndexPages
<1>5. IndexPages(X2) = IndexPages(X) \cup TreePages(e)
  BY <1>1, <1>4
<1>6. TreesApart(X2)
  BY <1>1, <1>4 DEF TreesApart
<1> QED
  BY <1>1, <1>3, <1>5, <1>6 DEF IndexThere

(* Tables oids and indexes xs go, those of these tables among them.        *)
OldOnes(T, X, T2, X2, oids, xs, gone) ==
  /\ Shapes(T, X) /\ HeapsApart(T) /\ TreesApart(X)
  /\ oids \subseteq DOMAIN T /\ xs \subseteq DOMAIN X
  /\ \A x \in DOMAIN X : X[x].table \in oids => x \in xs
  /\ T2 = Without(T, oids) /\ X2 = Without(X, xs)
  /\ gone = Collected(T, X, oids, xs)
  /\ \A p : ~ (p \in HeapPages(T) /\ p \in IndexPages(X))

OnesGone(T, X, T2, X2, gone) ==
  /\ DOMAIN T2 \subseteq DOMAIN T /\ DOMAIN X2 \subseteq DOMAIN X
  /\ Shapes(T2, X2) /\ HeapsApart(T2) /\ TreesApart(X2)
  /\ HeapPages(T2) = HeapPages(T) \ gone
  /\ IndexPages(X2) = IndexPages(X) \ gone
  /\ gone \subseteq HeapPages(T) \cup IndexPages(X)

LEMMA Dropped ==
  ASSUME NEW T, NEW X, NEW T2, NEW X2, NEW oids, NEW xs, NEW gone,
         OldOnes(T, X, T2, X2, oids, xs, gone)
  PROVE  OnesGone(T, X, T2, X2, gone)
<1> USE DEF OldOnes
<1>1. /\ DOMAIN T2 = DOMAIN T \ oids /\ \A o \in DOMAIN T2 : T2[o] = T[o]
      /\ T2 = [o \in DOMAIN T2 |-> T2[o]]
      /\ DOMAIN X2 = DOMAIN X \ xs /\ \A x \in DOMAIN X2 : X2[x] = X[x]
      /\ X2 = [x \in DOMAIN X2 |-> X2[x]]
  BY DEF Without
<1>2. T2 \in [DOMAIN T2 -> [name : Name, heap : Seq(Page)]]
  <2>1. \A q \in DOMAIN T : T[q] \in [name : Name, heap : Seq(Page)]
    BY DEF Shapes
  <2>2. \A q \in DOMAIN T2 : T2[q] \in [name : Name, heap : Seq(Page)]
    BY <1>1, <2>1
  <2> QED
    BY <1>1, <2>2
<1>3. X2 \in [DOMAIN X2 -> [table : DOMAIN T2, name : IndexName,
                            header : Page, tree : SUBSET Page]]
  <2>1. \A x \in DOMAIN X : X[x] \in [table : DOMAIN T, name : IndexName,
                                      header : Page, tree : SUBSET Page]
    BY DEF Shapes
  <2>2. ASSUME NEW x \in DOMAIN X2
        PROVE  X2[x] \in [table : DOMAIN T2, name : IndexName,
                          header : Page, tree : SUBSET Page]
    <3>1. x \in DOMAIN X /\ x \notin xs /\ X2[x] = X[x]
      BY <1>1
    <3>2. X[x].table \in DOMAIN T /\ X[x].table \notin oids
      BY <2>1, <3>1
    <3>3. X[x].table \in DOMAIN T2
      BY <1>1, <3>2
    <3> QED
      BY <2>1, <3>1, <3>3
  <2> QED
    BY <1>1, <2>2
<1>4. Shapes(T2, X2)
  <2>1. \A q \in DOMAIN T2 : T2[q].heap # <<>> /\ IsInjective(T2[q].heap)
    BY <1>1 DEF Shapes
  <2>2. \A q, r \in DOMAIN T2 : T2[q].name = T2[r].name => q = r
    BY <1>1 DEF Shapes
  <2>3. \A x \in DOMAIN X2 : X2[x].header \notin X2[x].tree
    BY <1>1 DEF Shapes
  <2> QED
    BY <1>2, <1>3, <2>1, <2>2, <2>3 DEF Shapes
<1>5. HeapsApart(T2) /\ TreesApart(X2)
  BY <1>1 DEF HeapsApart, TreesApart
<1>6. /\ \A q : q \in HeapPages(T) <=> \E r \in DOMAIN T : q \in Range(T[r].heap)
      /\ \A q : q \in HeapPages(T2) <=> \E r \in DOMAIN T2 : q \in Range(T2[r].heap)
      /\ \A q : q \in IndexPages(X) <=> \E r \in DOMAIN X : q \in TreePages(X[r])
      /\ \A q : q \in IndexPages(X2) <=> \E r \in DOMAIN X2 : q \in TreePages(X2[r])
  BY DEF HeapPages, IndexPages
<1>7. \A q : q \in gone <=> \/ \E r \in oids : q \in Range(T[r].heap)
                            \/ \E r \in xs : q \in TreePages(X[r])
  <2> DEFINE hs == UNION {Range(T[o].heap) : o \in oids}
             ts == UNION {TreePages(X[x]) : x \in xs}
  <2>1. \A q : q \in hs <=> \E r \in oids : q \in Range(T[r].heap)
    OBVIOUS
  <2>2. \A q : q \in ts <=> \E r \in xs : q \in TreePages(X[r])
    OBVIOUS
  <2>3. gone = hs \cup ts
    BY DEF Collected
  <2> HIDE DEF hs, ts
  <2> QED
    BY <2>1, <2>2, <2>3
<1>8. gone \subseteq HeapPages(T) \cup IndexPages(X)
  BY <1>6, <1>7
<1>9. HeapPages(T2) = HeapPages(T) \ gone
  BY <1>1, <1>6, <1>7 DEF HeapsApart
<1>10. IndexPages(X2) = IndexPages(X) \ gone
  BY <1>1, <1>6, <1>7 DEF TreesApart
<1> QED
  BY <1>1, <1>4, <1>5, <1>8, <1>9, <1>10 DEF OnesGone

(* A thread begins or ends a call.                                         *)
NewCall(k, t, e, k2) ==
  /\ k \in [Thread -> Tasks] /\ t \in Thread /\ e \in Tasks
  /\ k2 = [k EXCEPT ![t] = e]
  /\ k[t] = Idle /\ CallsApart(k)
  /\ e.op = "create" => e.page \notin CallPages(k)

CallBegun(k, t, e, k2) ==
  /\ k2 \in [Thread -> Tasks] /\ CallsApart(k2)
  /\ \A op \in {"create", "index"} :
       Cardinality(CallsOf(k2, op)) =
         IF e.op = op THEN Cardinality(CallsOf(k, op)) + 1
         ELSE Cardinality(CallsOf(k, op))
  /\ CallPages(k2) = IF e.op = "create" THEN CallPages(k) \cup {e.page}
                     ELSE CallPages(k)

LEMMA CallBegins ==
  ASSUME CatalogConstants, NEW k, NEW t, NEW e, NEW k2, NewCall(k, t, e, k2)
  PROVE  CallBegun(k, t, e, k2)
<1>0. /\ k \in [Thread -> Tasks] /\ t \in Thread /\ e \in Tasks
      /\ k2 = [k EXCEPT ![t] = e]
      /\ k[t] = Idle /\ CallsApart(k)
      /\ e.op = "create" => e.page \notin CallPages(k)
  BY DEF NewCall
<1>1. k2 \in [Thread -> Tasks] /\ k2[t] = e /\ \A u \in Thread : u # t => k2[u] = k[u]
  BY <1>0
<1>2. k[t].op = "none" /\ t \in Thread
  BY <1>0 DEF Idle
<1>3. ASSUME NEW op \in {"create", "index"}
      PROVE  /\ t \notin CallsOf(k, op)
             /\ CallsOf(k2, op) = IF e.op = op THEN CallsOf(k, op) \cup {t}
                                  ELSE CallsOf(k, op)
             /\ IsFiniteSet(CallsOf(k, op))
  <2>1. CallsOf(k, op) \in SUBSET Thread
    BY DEF CallsOf
  <2>2. IsFiniteSet(CallsOf(k, op))
    BY <2>1, FS_Subset DEF CatalogConstants
  <2> QED
    BY <1>1, <1>2, <2>2 DEF CallsOf
<1>4. ASSUME NEW op \in {"create", "index"}
      PROVE  Cardinality(CallsOf(k2, op)) =
                IF e.op = op THEN Cardinality(CallsOf(k, op)) + 1
                ELSE Cardinality(CallsOf(k, op))
  BY <1>3, FS_AddElement
<1>5. /\ \A u \in CallsOf(k, "create") : u \in Thread /\ u # t /\ k2[u] = k[u]
      /\ CallsOf(k2, "create") = IF e.op = "create" THEN CallsOf(k, "create") \cup {t}
                                 ELSE CallsOf(k, "create")
  BY <1>1, <1>3 DEF CallsOf
<1>6. CallPages(k2) = IF e.op = "create" THEN CallPages(k) \cup {e.page}
                      ELSE CallPages(k)
  BY <1>1, <1>5 DEF CallPages
<1>7. CallsApart(k2)
  BY <1>0, <1>1, <1>5 DEF CallsApart, CallPages
<1> QED
  BY <1>1, <1>4, <1>6, <1>7 DEF CallBegun

CallEnded(k, t, k2) ==
  /\ k2 \in [Thread -> Tasks] /\ CallsApart(k2)
  /\ \A op \in {"create", "index"} :
       Cardinality(CallsOf(k2, op)) =
         IF k[t].op = op THEN Cardinality(CallsOf(k, op)) - 1
         ELSE Cardinality(CallsOf(k, op))
  /\ CallPages(k2) = IF k[t].op = "create" THEN CallPages(k) \ {k[t].page}
                     ELSE CallPages(k)

LEMMA CallEnds ==
  ASSUME CatalogConstants, NEW k \in [Thread -> Tasks], NEW t \in Thread,
         NEW k2, k2 = [k EXCEPT ![t] = Idle], CallsApart(k)
  PROVE  CallEnded(k, t, k2)
<1>1. k2 \in [Thread -> Tasks] /\ k2[t] = Idle /\ \A u \in Thread : u # t => k2[u] = k[u]
  BY DEF Tasks
<1>2. Idle.op = "none"
  BY DEF Idle
<1>3. ASSUME NEW op \in {"create", "index"}
      PROVE  /\ CallsOf(k2, op) = CallsOf(k, op) \ {t}
             /\ t \in CallsOf(k, op) <=> k[t].op = op
             /\ IsFiniteSet(CallsOf(k, op))
  <2>1. CallsOf(k, op) \in SUBSET Thread
    BY DEF CallsOf
  <2>2. IsFiniteSet(CallsOf(k, op))
    BY <2>1, FS_Subset DEF CatalogConstants
  <2> QED
    BY <1>1, <1>2, <2>2 DEF CallsOf
<1>4. ASSUME NEW op \in {"create", "index"}
      PROVE  Cardinality(CallsOf(k2, op)) =
                IF k[t].op = op THEN Cardinality(CallsOf(k, op)) - 1
                ELSE Cardinality(CallsOf(k, op))
  <2> DEFINE S == CallsOf(k, op)
  <2>1. /\ CallsOf(k2, op) = S \ {t}
        /\ t \in S <=> k[t].op = op
        /\ IsFiniteSet(S)
    BY <1>3
  <2> HIDE DEF S
  <2>2. Cardinality(S \ {t}) = IF t \in S THEN Cardinality(S) - 1 ELSE Cardinality(S)
    BY <2>1, FS_RemoveElement
  <2>3. Cardinality(CallsOf(k2, op)) = IF k[t].op = op THEN Cardinality(S) - 1
                                       ELSE Cardinality(S)
    <3>1. CASE k[t].op = op
      BY <2>1, <2>2, <3>1
    <3>2. CASE k[t].op # op
      BY <2>1, <2>2, <3>2
    <3> QED
      BY <3>1, <3>2
  <2> QED
    BY <2>3 DEF S
<1>5. /\ CallsOf(k2, "create") = CallsOf(k, "create") \ {t}
      /\ t \in CallsOf(k, "create") <=> k[t].op = "create"
      /\ \A u \in CallsOf(k2, "create") : u \in CallsOf(k, "create") /\ k2[u] = k[u]
  BY <1>1, <1>3 DEF CallsOf
<1>6. CallPages(k2) = IF k[t].op = "create" THEN CallPages(k) \ {k[t].page}
                      ELSE CallPages(k)
  <2>1. \A p : p \in CallPages(k) <=> \E u \in CallsOf(k, "create") : k[u].page = p
    BY DEF CallPages
  <2>2. \A p : p \in CallPages(k2) <=> \E u \in CallsOf(k2, "create") : k2[u].page = p
    BY DEF CallPages
  <2>3. \A p : p \in CallPages(k2) <=>
                \E u \in CallsOf(k, "create") : u # t /\ k[u].page = p
    <3>1. /\ CallsOf(k2, "create") = CallsOf(k, "create") \ {t}
          /\ \A u \in CallsOf(k2, "create") : k2[u].page = k[u].page
      BY <1>5
    <3> QED
      BY ONLY <2>2, <3>1
  <2>4. CASE k[t].op = "create"
    <3>1. t \in CallsOf(k, "create")
      BY <1>5, <2>4
    <3>2. \A u \in CallsOf(k, "create") : k[u].page = k[t].page <=> u = t
      BY <3>1 DEF CallsApart
    <3>3. \A p : p \in CallPages(k2) <=> p \in CallPages(k) /\ p # k[t].page
      BY <2>1, <2>3, <3>2
    <3> QED
      BY <2>4, <3>3
  <2>5. CASE k[t].op # "create"
    <3>1. t \notin CallsOf(k, "create")
      BY <1>5, <2>5
    <3>2. \A p : p \in CallPages(k2) <=> p \in CallPages(k)
      BY <2>1, <2>3, <3>1
    <3> QED
      BY <2>5, <3>2
  <2> QED
    BY <2>4, <2>5
<1>7. CallsApart(k2)
  BY <1>5 DEF CallsApart
<1> QED
  BY <1>1, <1>4, <1>6, <1>7 DEF CallEnded

-------------------------------------------------------------------------------
(* The pages, one kind more or less.                                       *)

LEMMA PageJoins ==
  ASSUME NEW u, NEW H, NEW X, NEW K, NEW M, NEW P, NEW L, NEW N,
         Parted(u, H, X, K, M, P, L), \A p \in N : p \notin u
  PROVE  /\ Parted(u \cup N, H \cup N, X, K, M, P, L)
         /\ Parted(u \cup N, H, X \cup N, K, M, P, L)
         /\ Parted(u \cup N, H, X, K \cup N, M, P, L)
         /\ Parted(u \cup N, H, X, K, M, P, L \cup N)
BY DEF Parted

LEMMA PageLeaves ==
  ASSUME NEW u, NEW H, NEW X, NEW K, NEW M, NEW P, NEW L, NEW N,
         Parted(u, H, X, K, M, P, L)
  PROVE  /\ N \subseteq H => Parted(u \ N, H \ N, X, K, M, P, L)
         /\ N \subseteq X => Parted(u \ N, H, X \ N, K, M, P, L)
         /\ N \subseteq K => Parted(u \ N, H, X, K \ N, M, P, L)
         /\ N \subseteq P => Parted(u \ N, H, X, K, M, P \ N, L)
BY DEF Parted

(* TryReclaimPendingPagesLocked.                                           *)
LEMMA ReclaimLeaves ==
  ASSUME NEW u, NEW H, NEW X, NEW K, NEW M, NEW P, NEW L,
         Parted(u, H, X, K, M, P, L)
  PROVE  Parted(Reclaimed(u, P).used, H, X, K, M, Reclaimed(u, P).pending, L)
<1>1. /\ Reclaimed(u, P).used = u \ (P \ pinned)
      /\ Reclaimed(u, P).pending = P \cap pinned
  BY DEF Reclaimed
<1>2. Parted(u \ (P \ pinned), H, X, K, M, P \cap pinned, L)
  BY DEF Parted
<1> QED
  BY <1>1, <1>2

(* PersistCatalogMetaLocked, with the pages of the six kinds.              *)
PersistLeaves(C, H, X, K, P, L, s, r) ==
  \/ /\ r.ok = FALSE
     /\ r.entry = catalog_meta_page_id /\ r.meta = meta
     /\ r.used \subseteq Page
     /\ Parted(r.used, H, X, K, Range(C), P, L \cup r.lost)
  \/ /\ r.ok = TRUE /\ r.lost = {}
     /\ r.used \subseteq Page
     /\ \E D \in Seq(Page) :
          /\ D # <<>> /\ IsChain(r.meta, r.entry, D) /\ Describes(r.meta, D, s)
          /\ Parted(r.used, H, X, K, Range(D), P, L)

LEMMA PersistParts ==
  ASSUME CatalogConstants, FailuresAreTakenBack, NEW C, IsChain(meta, catalog_meta_page_id, C),
         NEW u \in SUBSET Page, NEW H, NEW X, NEW K, NEW P, NEW L,
         Parted(u, H, X, K, Range(C), P, L),
         NEW s, Parts(s) \in Nat \ {0}, NEW r \in Persisted(u, s)
  PROVE  PersistLeaves(C, H, X, K, P, L, s, r)
<1>1. Range(C) \subseteq u
  BY DEF Parted
<1>2. PersistOutcome(u, s, C, r)
  BY <1>1, PersistDoes
<1>3. CASE r.ok = FALSE
  <2>1. /\ r.entry = catalog_meta_page_id /\ r.meta = meta
        /\ r.lost \subseteq Page \ u /\ r.used = u \cup r.lost
    BY <1>2, <1>3 DEF PersistOutcome
  <2>2. Parted(u \cup r.lost, H, X, K, Range(C), P, L \cup r.lost)
    BY <2>1, PageJoins
  <2> QED
    BY <1>3, <2>1, <2>2 DEF PersistLeaves
<1>4. CASE r.ok = TRUE
  <2>1. r.lost = {}
    BY <1>2, <1>4 DEF PersistOutcome
  <2>2. PICK D \in Seq(Page) :
          /\ D # <<>> /\ IsChain(r.meta, r.entry, D) /\ Describes(r.meta, D, s)
          /\ \A p \in Range(D) : p \in u => p \in Range(C)
          /\ \A p : p \in r.used <=> (p \in u /\ p \notin Range(C)) \/ p \in Range(D)
    BY <1>2, <1>4 DEF PersistOutcome
  <2>3. Range(D) \subseteq Page
    BY ElementsOf
  <2>4. r.used \subseteq Page
    BY <2>2, <2>3
  <2>5. Parted(r.used, H, X, K, Range(D), P, L)
    BY <2>2 DEF Parted
  <2> QED
    BY <1>4, <2>1, <2>2, <2>4, <2>5 DEF PersistLeaves
<1> QED
  BY <1>2, <1>3, <1>4 DEF PersistOutcome

-------------------------------------------------------------------------------
(* What every call finds.                                                  *)

LEMMA OidsAreFinite ==
  ASSUME NEW T, NEW a \in Nat, DOMAIN T \subseteq 0 .. a - 1
  PROVE  IsFiniteSet(DOMAIN T)
<1>1. 0 \in Int /\ a - 1 \in Int
  OBVIOUS
<1>2. IsFiniteSet(0 .. a - 1)
  BY <1>1, FS_Interval
<1> QED
  BY <1>2, FS_Subset

(* Sound says of used that it is parted, and that what is pinned is there. *)
LEMMA AfterReclaim ==
  ASSUME NEW C, PagesSound(C)
  PROVE  LET free == Reclaimed(used, pending_reclaim)
         IN  /\ free.used \in SUBSET Page
             /\ free.pending = pending_reclaim \cap pinned
             /\ pinned \subseteq HeapPages(tables) \cup IndexPages(indexes)
                                   \cup free.pending
             /\ Parted(free.used, HeapPages(tables), IndexPages(indexes),
                       CallPages(task), Range(C), free.pending, lost)
<1>1. /\ Reclaimed(used, pending_reclaim).used = used \ (pending_reclaim \ pinned)
      /\ Reclaimed(used, pending_reclaim).pending = pending_reclaim \cap pinned
  BY DEF Reclaimed
<1>2. Parted(Reclaimed(used, pending_reclaim).used, HeapPages(tables),
             IndexPages(indexes), CallPages(task), Range(C),
             Reclaimed(used, pending_reclaim).pending, lost)
  BY ReclaimLeaves DEF PagesSound
<1> QED
  BY <1>1, <1>2 DEF PagesSound

LEMMA FreePages ==
  ASSUME CatalogConstants, NEW n \in Nat, NEW u
  PROVE  /\ Range(Lowest(n, Page \ u)) \subseteq Page \ u
         /\ Lowest(n, Page \ u) \in Seq(Page \ u)
BY LowestIs, ElementsOf

-------------------------------------------------------------------------------
(* Each action keeps the invariant.                                        *)

LEMMA PinKeeps ==
  ASSUME NEW C, NEW G, NEW a, NEW b, Sound(C, G, a, b), Pin
  PROVE  Sound(C, G, a, b)'
<1>1. /\ UNCHANGED <<tables, indexes, next_table_oid, next_index_oid,
                     catalog_meta_page_id, meta, pending_reclaim, used, task,
                     given, lost>>
      /\ pinned' \subseteq HeapPages(tables) \cup IndexPages(indexes)
                             \cup pending_reclaim
  <2>1. PICK p \in HeapPages(tables) \cup UNION {indexes[x].tree : x \in DOMAIN indexes} :
          pinned' = pinned \cup {p}
    BY DEF Pin
  <2>2. p \in HeapPages(tables) \cup IndexPages(indexes)
    BY <2>1 DEF IndexPages, TreePages
  <2> QED
    BY <2>1, <2>2 DEF Pin, memory, file, Sound, PagesSound
<1> QED
  BY <1>1 DEF Sound, PagesSound, Counted

LEMMA UnpinKeeps ==
  ASSUME NEW C, NEW G, NEW a, NEW b, Sound(C, G, a, b), Unpin
  PROVE  Sound(C, G, a, b)'
<1>1. /\ UNCHANGED <<tables, indexes, next_table_oid, next_index_oid,
                     catalog_meta_page_id, meta, pending_reclaim, used, task,
                     given, lost>>
      /\ pinned' \subseteq HeapPages(tables) \cup IndexPages(indexes)
                             \cup pending_reclaim
  BY DEF Unpin, memory, file, Sound, PagesSound
<1> QED
  BY <1>1 DEF Sound, PagesSound, Counted

LEMMA GrowTableKeeps ==
  ASSUME CatalogConstants, NEW C, NEW G, NEW a, NEW b, Sound(C, G, a, b),
         NEW o \in DOMAIN tables, GrowTable(o)
  PROVE  Sound(C, G, a, b)'
<1>1. PICK p \in Range(Lowest(1, Page \ used)) :
        /\ tables' = [tables EXCEPT ![o].heap = Append(@, p)]
        /\ used' = used \cup {p}
        /\ UNCHANGED <<indexes, next_table_oid, next_index_oid,
                       catalog_meta_page_id, meta,
                       pending_reclaim, pinned, task, given, lost>>
  BY DEF GrowTable, file
<1>2. p \in Page /\ p \notin used
  BY FreePages
<1> DEFINE h == Append(tables[o].heap, p)
<1>3. tables[o].heap \in Seq(Page) /\ tables[o].heap # <<>> /\ IsInjective(tables[o].heap)
  BY DEF Sound, Shapes
<1>4. p \notin HeapPages(tables) /\ \A q \in Range(tables[o].heap) : q \in HeapPages(tables)
  BY <1>2 DEF Sound, PagesSound, Parted, HeapPages
<1>5. /\ h \in Seq(Page) /\ h # <<>> /\ h[1] = tables[o].heap[1] /\ IsInjective(h)
      /\ \A q : q \in Range(h) <=> q \in Range(tables[o].heap) \/ q = p
  BY <1>2, <1>3, <1>4, RangeOfAppend
<1> HIDE DEF h
<1>6. tables' = [tables EXCEPT ![o].heap = h]
  BY <1>1 DEF h
<1>7. NewHeap(tables, indexes, tables', o, h)
  BY <1>3, <1>5, <1>6 DEF Sound, PagesSound, NewHeap
<1>8. /\ DOMAIN tables' = DOMAIN tables /\ Shapes(tables', indexes)
      /\ Told(tables', G)
      /\ \A q : q \in HeapPages(tables') <=>
              \/ q \in Range(h)
              \/ q \in HeapPages(tables) /\ q \notin Range(tables[o].heap)
      /\ (\A q \in Range(h) : q \in Range(tables[o].heap) \/ q \notin HeapPages(tables))
            => HeapsApart(tables')
  <2>1. HeapReplaced(tables, indexes, tables', o, h)
    BY <1>7, HeapChanges
  <2> QED
    BY <2>1 DEF HeapReplaced, Sound
<1>9. HeapPages(tables') = HeapPages(tables) \cup {p} /\ HeapsApart(tables')
  BY <1>4, <1>5, <1>8
<1>10. Parted(used \cup {p}, HeapPages(tables) \cup {p}, IndexPages(indexes),
              CallPages(task), Range(C), pending_reclaim, lost)
  BY <1>2, PageJoins DEF Sound, PagesSound
<1>11. PagesSound(C)'
  BY <1>1, <1>2, <1>9, <1>10 DEF Sound, PagesSound
<1>12. Counted(a, b)'
  BY <1>1, <1>8 DEF Sound, Counted
<1> QED
  BY <1>1, <1>8, <1>11, <1>12 DEF Sound

LEMMA ShrinkTableKeeps ==
  ASSUME NEW C, NEW G, NEW a, NEW b, Sound(C, G, a, b),
         NEW o \in DOMAIN tables, ShrinkTable(o)
  PROVE  Sound(C, G, a, b)'
<1>1. PICK i \in DOMAIN tables[o].heap :
        /\ i > 1 \/ (HeadsMayGo /\ Len(tables[o].heap) > 1)
        /\ tables[o].heap[i] \notin pinned
        /\ tables' = [tables EXCEPT ![o].heap = RemoveAt(@, i)]
        /\ used' = used \ {tables[o].heap[i]}
        /\ UNCHANGED <<indexes, next_table_oid, next_index_oid,
                       catalog_meta_page_id, meta,
                       pending_reclaim, pinned, task, given, lost>>
  BY DEF ShrinkTable, file
<1> DEFINE h == RemoveAt(tables[o].heap, i)
           p == tables[o].heap[i]
<1>3. /\ tables[o].heap \in Seq(Page) /\ tables[o].heap # <<>>
      /\ IsInjective(tables[o].heap) /\ i \in 1 .. Len(tables[o].heap)
  BY LenProperties DEF Sound, Shapes
<1>4. /\ p \in Range(tables[o].heap)
      /\ \A q \in Range(tables[o].heap) : q \in HeapPages(tables)
  BY <1>3, ElementsOf DEF HeapPages
<1>5. /\ h \in Seq(Page) /\ h # <<>> /\ IsInjective(h)
      /\ HeadsMayGo \/ h[1] = tables[o].heap[1]
      /\ \A q : q \in Range(h) <=> q \in Range(tables[o].heap) /\ q # p
  <2>1. Len(tables[o].heap) > 1 /\ (HeadsMayGo \/ i > 1)
    BY <1>1, <1>3
  <2> QED
    BY <1>3, <2>1, RangeOfRemoved
<1>6. tables' = [tables EXCEPT ![o].heap = h]
  BY <1>1
<1>2. p \notin pinned /\ used' = used \ {p}
  BY <1>1
<1> HIDE DEF h, p
<1>7. NewHeap(tables, indexes, tables', o, h)
  BY <1>3, <1>5, <1>6 DEF Sound, PagesSound, NewHeap
<1>8. /\ DOMAIN tables' = DOMAIN tables /\ Shapes(tables', indexes)
      /\ Told(tables', G)
      /\ \A q : q \in HeapPages(tables') <=>
              \/ q \in Range(h)
              \/ q \in HeapPages(tables) /\ q \notin Range(tables[o].heap)
      /\ (\A q \in Range(h) : q \in Range(tables[o].heap) \/ q \notin HeapPages(tables))
            => HeapsApart(tables')
  <2>1. HeapReplaced(tables, indexes, tables', o, h)
    BY <1>7, HeapChanges
  <2> QED
    BY <2>1 DEF HeapReplaced, Sound
<1>9. HeapPages(tables') = HeapPages(tables) \ {p} /\ HeapsApart(tables')
  BY <1>4, <1>5, <1>8
<1>10. Parted(used \ {p}, HeapPages(tables) \ {p}, IndexPages(indexes),
              CallPages(task), Range(C), pending_reclaim, lost)
  BY <1>4, PageLeaves DEF Sound, PagesSound
<1>11. PagesSound(C)'
  BY <1>1, <1>2, <1>9, <1>10 DEF Sound, PagesSound
<1>12. Counted(a, b)'
  BY <1>1, <1>8 DEF Sound, Counted
<1> QED
  BY <1>1, <1>8, <1>11, <1>12 DEF Sound

LEMMA GrowIndexKeeps ==
  ASSUME CatalogConstants, NEW C, NEW G, NEW a, NEW b, Sound(C, G, a, b),
         NEW x \in DOMAIN indexes, GrowIndex(x)
  PROVE  Sound(C, G, a, b)'
<1>1. PICK p \in Range(Lowest(1, Page \ used)) :
        /\ indexes' = [indexes EXCEPT ![x].tree = @ \cup {p}]
        /\ used' = used \cup {p}
        /\ UNCHANGED <<tables, next_table_oid, next_index_oid,
                       catalog_meta_page_id, meta,
                       pending_reclaim, pinned, task, given, lost>>
  BY DEF GrowIndex, file
<1>2. p \in Page /\ p \notin used
  BY FreePages
<1> DEFINE h == indexes[x].tree \cup {p}
<1>3. indexes[x].tree \in SUBSET Page /\ indexes[x].header \notin indexes[x].tree
  BY DEF Sound, Shapes
<1>4. /\ p \notin IndexPages(indexes)
      /\ \A q \in indexes[x].tree : q \in IndexPages(indexes)
      /\ indexes[x].header \in IndexPages(indexes)
  BY <1>2 DEF Sound, PagesSound, Parted, IndexPages, TreePages
<1>5. h \in SUBSET Page /\ indexes[x].header \notin h
  BY <1>2, <1>3, <1>4
<1>6. indexes' = [indexes EXCEPT ![x].tree = h]
  BY <1>1
<1>7. NewTree(tables, indexes, indexes', x, h)
  BY <1>5, <1>6 DEF Sound, PagesSound, NewTree
<1>13. \A q : q \in h <=> q \in indexes[x].tree \/ q = p
  OBVIOUS
<1> HIDE DEF h
<1>8. /\ DOMAIN indexes' = DOMAIN indexes /\ Shapes(tables, indexes')
      /\ BuildMetaSnapshot(G, indexes', a, b) = BuildMetaSnapshot(G, indexes, a, b)
      /\ \A q : q \in IndexPages(indexes') <=>
              \/ q \in h
              \/ q \in IndexPages(indexes) /\ q \notin indexes[x].tree
      /\ (\A q \in h : q \in indexes[x].tree \/ q \notin IndexPages(indexes))
            => TreesApart(indexes')
  <2>1. TreeReplaced(tables, indexes, indexes', x, h)
    BY <1>7, TreeChanges
  <2> QED
    BY <2>1 DEF TreeReplaced
<1>9. IndexPages(indexes') = IndexPages(indexes) \cup {p} /\ TreesApart(indexes')
  BY <1>4, <1>8, <1>13
<1>10. Parted(used \cup {p}, HeapPages(tables), IndexPages(indexes) \cup {p},
              CallPages(task), Range(C), pending_reclaim, lost)
  BY <1>2, PageJoins DEF Sound, PagesSound
<1>11. PagesSound(C)'
  BY <1>1, <1>2, <1>9, <1>10 DEF Sound, PagesSound
<1>12. Counted(a, b)'
  BY <1>1, <1>8 DEF Sound, Counted
<1> QED
  BY <1>1, <1>8, <1>11, <1>12 DEF Sound

LEMMA ShrinkIndexKeeps ==
  ASSUME NEW C, NEW G, NEW a, NEW b, Sound(C, G, a, b),
         NEW x \in DOMAIN indexes, ShrinkIndex(x)
  PROVE  Sound(C, G, a, b)'
<1>1. PICK p \in indexes[x].tree \ pinned :
        /\ indexes' = [indexes EXCEPT ![x].tree = @ \ {p}]
        /\ used' = used \ {p}
        /\ UNCHANGED <<tables, next_table_oid, next_index_oid,
                       catalog_meta_page_id, meta,
                       pending_reclaim, pinned, task, given, lost>>
  BY DEF ShrinkIndex, file
<1> DEFINE h == indexes[x].tree \ {p}
<1>3. indexes[x].tree \in SUBSET Page /\ indexes[x].header \notin indexes[x].tree
  BY DEF Sound, Shapes
<1>4. \A q \in indexes[x].tree : q \in IndexPages(indexes)
  BY DEF IndexPages, TreePages
<1>5. h \in SUBSET Page /\ indexes[x].header \notin h
  BY <1>3
<1>6. indexes' = [indexes EXCEPT ![x].tree = h]
  BY <1>1
<1>7. NewTree(tables, indexes, indexes', x, h)
  BY <1>5, <1>6 DEF Sound, PagesSound, NewTree
<1>13. \A q : q \in h <=> q \in indexes[x].tree /\ q # p
  OBVIOUS
<1> HIDE DEF h
<1>8. /\ DOMAIN indexes' = DOMAIN indexes /\ Shapes(tables, indexes')
      /\ BuildMetaSnapshot(G, indexes', a, b) = BuildMetaSnapshot(G, indexes, a, b)
      /\ \A q : q \in IndexPages(indexes') <=>
              \/ q \in h
              \/ q \in IndexPages(indexes) /\ q \notin indexes[x].tree
      /\ (\A q \in h : q \in indexes[x].tree \/ q \notin IndexPages(indexes))
            => TreesApart(indexes')
  <2>1. TreeReplaced(tables, indexes, indexes', x, h)
    BY <1>7, TreeChanges
  <2> QED
    BY <2>1 DEF TreeReplaced
<1>9. IndexPages(indexes') = IndexPages(indexes) \ {p} /\ TreesApart(indexes')
  BY <1>4, <1>8, <1>13
<1>10. Parted(used \ {p}, HeapPages(tables), IndexPages(indexes) \ {p},
              CallPages(task), Range(C), pending_reclaim, lost)
  BY <1>1, <1>4, PageLeaves DEF Sound, PagesSound
<1>11. PagesSound(C)'
  BY <1>1, <1>9, <1>10 DEF Sound, PagesSound
<1>12. Counted(a, b)'
  BY <1>1, <1>8 DEF Sound, Counted
<1> QED
  BY <1>1, <1>8, <1>11, <1>12 DEF Sound

LEMMA StartCreateTableKeeps ==
  ASSUME CatalogConstants, NEW C, NEW G, NEW a, NEW b, Sound(C, G, a, b),
         NEW t \in Thread, NEW n \in Name, StartCreateTable(t, n)
  PROVE  Sound(C, G, a, b)'
<1>1. PICK p \in Range(Lowest(1, Page \ used)) :
        /\ used' = used \cup {p}
        /\ task' = [task EXCEPT ![t] = [op |-> "create", name |-> n, page |-> p]]
  BY DEF StartCreateTable
<1>2. /\ task[t] = Idle
      /\ next_table_oid + Cardinality(Calls("create")) < MaxOid
      /\ UNCHANGED <<tables, indexes, next_table_oid, next_index_oid,
                     catalog_meta_page_id, meta, pending_reclaim, pinned, given, lost>>
  BY DEF StartCreateTable, memory, file
<1>3. p \in Page /\ p \notin used
  BY FreePages
<1> DEFINE e == [op |-> "create", name |-> n, page |-> p]
<1>4. e \in Tasks /\ e.op = "create" /\ e.page = p
  BY <1>3 DEF Tasks
<1>5. task' = [task EXCEPT ![t] = e]
  BY <1>1
<1> HIDE DEF e
<1>6. task \in [Thread -> Tasks] /\ CallsApart(task) /\ p \notin CallPages(task)
  BY <1>3 DEF Sound, PagesSound, Parted
<1>7. /\ task' \in [Thread -> Tasks] /\ CallsApart(task')
      /\ \A op \in {"create", "index"} :
           Cardinality(CallsOf(task', op)) =
             IF e.op = op THEN Cardinality(CallsOf(task, op)) + 1
             ELSE Cardinality(CallsOf(task, op))
      /\ CallPages(task') = IF e.op = "create" THEN CallPages(task) \cup {e.page}
                            ELSE CallPages(task)
  <2>1. NewCall(task, t, e, task')
    BY <1>2, <1>4, <1>5, <1>6 DEF NewCall
  <2>2. CallBegun(task, t, e, task')
    BY <2>1, CallBegins
  <2> QED
    BY <2>2 DEF CallBegun
<1>8. /\ Cardinality(CallsOf(task', "create")) = Cardinality(CallsOf(task, "create")) + 1
      /\ Cardinality(CallsOf(task', "index")) = Cardinality(CallsOf(task, "index"))
      /\ CallPages(task') = CallPages(task) \cup {p}
  BY <1>4, <1>7
<1>9. Calls("create") = CallsOf(task, "create")
  BY DEF Calls, CallsOf
<1>10. Counted(a, b)'
  <2>1. Cardinality(CallsOf(task, "create")) \in Nat
    <3>1. CallsOf(task, "create") \in SUBSET Thread
      BY DEF CallsOf
    <3>2. IsFiniteSet(CallsOf(task, "create"))
      BY <3>1, FS_Subset DEF CatalogConstants
    <3> QED
      BY <3>2, FS_CardinalityType
  <2>2. next_table_oid \in Nat /\ MaxOid \in Nat
    BY DEF Sound, Counted, CatalogConstants
  <2>3. next_table_oid + Cardinality(CallsOf(task', "create")) <= MaxOid
    BY <1>2, <1>8, <1>9, <2>1, <2>2
  <2> QED
    BY <1>2, <1>8, <2>3 DEF Sound, Counted
<1>11. Parted(used \cup {p}, HeapPages(tables), IndexPages(indexes),
              CallPages(task) \cup {p}, Range(C), pending_reclaim, lost)
  BY <1>3, PageJoins DEF Sound, PagesSound
<1>12. PagesSound(C)'
  BY <1>1, <1>2, <1>3, <1>7, <1>8, <1>11 DEF Sound, PagesSound
<1> QED
  BY <1>2, <1>7, <1>10, <1>12 DEF Sound

LEMMA StartCreateIndexKeeps ==
  ASSUME CatalogConstants, NEW C, NEW G, NEW a, NEW b, Sound(C, G, a, b),
         NEW t \in Thread, NEW n \in Name, NEW name \in IndexName,
         StartCreateIndex(t, n, name)
  PROVE  Sound(C, G, a, b)'
<1>1. PICK o \in Named(n) :
        task' = [task EXCEPT ![t] = [op |-> "index", oid |-> o, name |-> name]]
  BY DEF StartCreateIndex
<1>2. /\ task[t] = Idle
      /\ next_index_oid + Cardinality(Calls("index")) < MaxOid
      /\ UNCHANGED <<tables, indexes, next_table_oid, next_index_oid,
                     catalog_meta_page_id, meta, pending_reclaim, used, pinned,
                     given, lost>>
  BY DEF StartCreateIndex, memory, file
<1>13. \A op : Cardinality(CallsOf(task, op)) \in Nat
  <2> SUFFICES ASSUME NEW op PROVE Cardinality(CallsOf(task, op)) \in Nat
    OBVIOUS
  <2>1. CallsOf(task, op) \in SUBSET Thread
    BY DEF CallsOf
  <2>2. IsFiniteSet(CallsOf(task, op))
    BY <2>1, FS_Subset DEF CatalogConstants
  <2> QED
    BY <2>2, FS_CardinalityType
<1>3. o \in 0 .. MaxOid - 1
  <2>1. o \in DOMAIN tables
    BY DEF Named
  <2>2. /\ o \in 0 .. a - 1 /\ a \in 0 .. next_table_oid /\ next_table_oid \in Nat
        /\ next_table_oid + Cardinality(CallsOf(task, "create")) <= MaxOid
        /\ MaxOid \in Nat
    BY <2>1 DEF Sound, Counted, CatalogConstants
  <2> QED
    BY <1>13, <2>2
<1> DEFINE e == [op |-> "index", oid |-> o, name |-> name]
<1>4. e \in Tasks /\ e.op = "index"
  BY <1>3 DEF Tasks
<1>5. task' = [task EXCEPT ![t] = e]
  BY <1>1
<1> HIDE DEF e
<1>6. task \in [Thread -> Tasks] /\ CallsApart(task)
  BY DEF Sound, PagesSound
<1>7. /\ task' \in [Thread -> Tasks] /\ CallsApart(task')
      /\ \A op \in {"create", "index"} :
           Cardinality(CallsOf(task', op)) =
             IF e.op = op THEN Cardinality(CallsOf(task, op)) + 1
             ELSE Cardinality(CallsOf(task, op))
      /\ CallPages(task') = IF e.op = "create" THEN CallPages(task) \cup {e.page}
                            ELSE CallPages(task)
  <2>1. NewCall(task, t, e, task')
    BY <1>2, <1>4, <1>5, <1>6 DEF NewCall
  <2>2. CallBegun(task, t, e, task')
    BY <2>1, CallBegins
  <2> QED
    BY <2>2 DEF CallBegun
<1>8. /\ Cardinality(CallsOf(task', "create")) = Cardinality(CallsOf(task, "create"))
      /\ Cardinality(CallsOf(task', "index")) = Cardinality(CallsOf(task, "index")) + 1
      /\ CallPages(task') = CallPages(task)
  BY <1>4, <1>7
<1>9. Calls("index") = CallsOf(task, "index")
  BY DEF Calls, CallsOf
<1>10. Counted(a, b)'
  <2>2. next_index_oid \in Nat /\ MaxOid \in Nat
    BY DEF Sound, Counted, CatalogConstants
  <2>3. next_index_oid + Cardinality(CallsOf(task', "index")) <= MaxOid
    BY <1>2, <1>8, <1>9, <1>13, <2>2
  <2> QED
    BY <1>2, <1>8, <2>3 DEF Sound, Counted
<1>12. PagesSound(C)'
  BY <1>2, <1>7, <1>8 DEF Sound, PagesSound
<1> QED
  BY <1>2, <1>7, <1>10, <1>12 DEF Sound

(* A snapshot just written tells of all tables as they are.                *)
LEMMA ToldAll ==
  ASSUME NEW T, NEW X, Shapes(T, X)
  PROVE  Told(T, T)
BY DEF Told, Shapes

(* There are finitely many calls.                                          *)
LEMMA CallsCount ==
  ASSUME CatalogConstants, NEW k
  PROVE  \A op : Cardinality(CallsOf(k, op)) \in Nat
<1> SUFFICES ASSUME NEW op PROVE Cardinality(CallsOf(k, op)) \in Nat
  OBVIOUS
<1>1. CallsOf(k, op) \in SUBSET Thread
  BY DEF CallsOf
<1>2. IsFiniteSet(CallsOf(k, op))
  BY <1>1, FS_Subset DEF CatalogConstants
<1> QED
  BY <1>2, FS_CardinalityType

LEMMA CreateTableKeeps ==
  ASSUME CatalogConstants, FailuresAreTakenBack, NEW C \in Seq(Page), NEW G, NEW a \in Nat, NEW b \in Nat,
         Sound(C, G, a, b), NEW t \in Thread, CreateTable(t)
  PROVE  IInv'
<1> DEFINE page == task[t].page
           name == task[t].name
           oid == next_table_oid
           F == Reclaimed(used, pending_reclaim).used
           P == Reclaimed(used, pending_reclaim).pending
           T == With(tables, oid, [name |-> name, heap |-> <<page>>])
           s == BuildMetaSnapshot(T, indexes, oid + 1, next_index_oid)
           Refused == /\ used' = F \ {page}
                      /\ UNCHANGED <<tables, indexes, next_table_oid, next_index_oid,
                                     catalog_meta_page_id, meta, given, lost>>
           Done(r) == /\ tables' = IF r.ok THEN T ELSE tables
                      /\ used' = IF r.ok THEN r.used ELSE r.used \ {page}
                      /\ given' = IF r.ok THEN given \cup {oid} ELSE given
                      /\ catalog_meta_page_id' = r.entry /\ meta' = r.meta
                      /\ lost' = lost \cup r.lost
<1>1. /\ task[t].op = "create" /\ task' = [task EXCEPT ![t] = Idle]
      /\ pending_reclaim' = P /\ pinned' = pinned
      /\ \/ Refused
         \/ /\ Named(name) = {} /\ next_table_oid' = oid + 1
            /\ \E r \in Persisted(F, s) : Done(r)
            /\ UNCHANGED <<indexes, next_index_oid>>
  BY DEF CreateTable, memory, file
<1>2. page \in Page /\ name \in Name
  <2>1. task[t] \in Tasks /\ task[t].op = "create"
    BY <1>1 DEF Sound
  <2> QED
    BY <2>1 DEF Tasks, Idle
<1>3. /\ task' \in [Thread -> Tasks] /\ CallsApart(task')
      /\ Cardinality(CallsOf(task', "create")) = Cardinality(CallsOf(task, "create")) - 1
      /\ Cardinality(CallsOf(task', "index")) = Cardinality(CallsOf(task, "index"))
      /\ CallPages(task') = CallPages(task) \ {page}
  <2>1. CallEnded(task, t, task')
    BY <1>1, CallEnds DEF Sound, PagesSound
  <2> QED
    BY <1>1, <2>1 DEF CallEnded
<1>4. page \in CallPages(task)
  BY <1>1 DEF CallPages, CallsOf
<1>5. /\ F \in SUBSET Page
      /\ pinned \subseteq HeapPages(tables) \cup IndexPages(indexes) \cup P
      /\ Parted(F, HeapPages(tables), IndexPages(indexes), CallPages(task),
                Range(C), P, lost)
  BY AfterReclaim DEF Sound
<1>6. \A op : Cardinality(CallsOf(task, op)) \in Nat
  BY CallsCount
<1>7. /\ a \in 0 .. oid /\ b \in 0 .. next_index_oid
      /\ DOMAIN tables \cup given \subseteq 0 .. a - 1
      /\ DOMAIN indexes \subseteq 0 .. b - 1
      /\ oid \in Nat /\ next_index_oid \in Nat /\ MaxOid \in Nat
      /\ oid + Cardinality(CallsOf(task, "create")) <= MaxOid
      /\ next_index_oid + Cardinality(CallsOf(task, "index")) <= MaxOid
  BY DEF Sound, Counted, CatalogConstants
<1>8. /\ Shapes(tables, indexes) /\ Told(tables, G)
      /\ HeapsApart(tables) /\ TreesApart(indexes)
      /\ FileSound(meta, catalog_meta_page_id, C,
                   BuildMetaSnapshot(G, indexes, a, b), a, b)
      /\ IsChain(meta, catalog_meta_page_id, C)
  BY DEF Sound, PagesSound, FileSound
<1> HIDE DEF page, name, F, P, T, s, Refused, Done
<1>9. CASE Refused
  <2>1. /\ used' = F \ {page}
        /\ UNCHANGED <<tables, indexes, next_table_oid, next_index_oid,
                       catalog_meta_page_id, meta, given, lost>>
    BY <1>9 DEF Refused
  <2>2. Parted(F \ {page}, HeapPages(tables), IndexPages(indexes),
               CallPages(task) \ {page}, Range(C), P, lost)
    BY <1>4, <1>5, PageLeaves
  <2>3. PagesSound(C)'
    BY <1>1, <1>3, <1>5, <1>8, <2>1, <2>2 DEF PagesSound
  <2>4. Counted(a, b)'
    BY <1>3, <1>6, <1>7, <2>1 DEF Counted
  <2>5. Sound(C, G, a, b)'
    BY <1>3, <1>8, <2>1, <2>3, <2>4 DEF Sound
  <2> QED
    BY <2>5 DEF IInv
<1>10. ASSUME Named(name) = {}, next_table_oid' = oid + 1,
              NEW r \in Persisted(F, s), Done(r), UNCHANGED <<indexes, next_index_oid>>
       PROVE  IInv'
  <2>1. /\ tables' = IF r.ok THEN T ELSE tables
        /\ used' = IF r.ok THEN r.used ELSE r.used \ {page}
        /\ given' = IF r.ok THEN given \cup {oid} ELSE given
        /\ catalog_meta_page_id' = r.entry /\ meta' = r.meta
        /\ lost' = lost \cup r.lost
    BY <1>10 DEF Done
  <2>2. /\ oid \notin DOMAIN tables /\ page \notin HeapPages(tables)
        /\ \A q \in DOMAIN tables : tables[q].name # name
    BY <1>4, <1>5, <1>7, <1>10 DEF Named, Parted
  <2>3. /\ DOMAIN T = DOMAIN tables \cup {oid}
        /\ Shapes(T, indexes) /\ HeapsApart(T)
        /\ HeapPages(T) = HeapPages(tables) \cup {page}
    <3>1. T = With(tables, oid, [name |-> name, heap |-> <<page>>])
      BY DEF T
    <3>2. NewTable(tables, indexes, T, oid, name, page)
      BY <1>2, <1>8, <2>2, <3>1 DEF NewTable
    <3>3. TableThere(tables, indexes, T, oid, page)
      BY <3>2, TableAdded
    <3> QED
      BY <3>3 DEF TableThere
  <2>4. Parts(s) \in Nat \ {0}
    <3>1. DOMAIN T \subseteq 0 .. (oid + 1) - 1 /\ oid + 1 \in Nat
      BY <1>7, <2>3
    <3>2. IsFiniteSet(DOMAIN T)
      BY <3>1, OidsAreFinite
    <3>3. IsFiniteSet(DOMAIN indexes)
      BY <1>7, OidsAreFinite
    <3> QED
      BY <3>2, <3>3, SnapshotParts DEF s
  <2>5. PersistLeaves(C, HeapPages(tables), IndexPages(indexes), CallPages(task),
                      P, lost, s, r)
    BY <1>5, <1>8, <2>4, PersistParts
  <2>6. CASE r.ok = FALSE
    <3>1. /\ r.entry = catalog_meta_page_id /\ r.meta = meta /\ r.used \subseteq Page
          /\ Parted(r.used, HeapPages(tables), IndexPages(indexes), CallPages(task),
                    Range(C), P, lost \cup r.lost)
      BY <2>5, <2>6 DEF PersistLeaves
    <3>2. Parted(r.used \ {page}, HeapPages(tables), IndexPages(indexes),
                 CallPages(task) \ {page}, Range(C), P, lost \cup r.lost)
      BY <1>4, <3>1, PageLeaves
    <3>3. /\ UNCHANGED <<tables, indexes, next_index_oid, catalog_meta_page_id, meta, given>>
          /\ used' = r.used \ {page} /\ lost' = lost \cup r.lost
      BY <1>10, <2>1, <2>6, <3>1
    <3>4. PagesSound(C)'
      BY <1>1, <1>3, <1>5, <1>8, <3>1, <3>2, <3>3 DEF PagesSound
    <3>5. Counted(a, b)'
      BY <1>3, <1>6, <1>7, <1>10, <3>3 DEF Counted
    <3>6. Sound(C, G, a, b)'
      BY <1>3, <1>8, <3>3, <3>4, <3>5 DEF Sound
    <3> QED
      BY <3>6 DEF IInv
  <2>7. CASE r.ok = TRUE
    <3>1. r.lost = {} /\ r.used \subseteq Page
      BY <2>5, <2>7 DEF PersistLeaves
    <3>2. PICK D \in Seq(Page) :
            /\ D # <<>> /\ IsChain(r.meta, r.entry, D) /\ Describes(r.meta, D, s)
            /\ Parted(r.used, HeapPages(tables), IndexPages(indexes), CallPages(task),
                      Range(D), P, lost)
      BY <2>5, <2>7 DEF PersistLeaves
    <3>3. Parted(r.used, HeapPages(tables) \cup {page}, IndexPages(indexes),
                 CallPages(task) \ {page}, Range(D), P, lost)
      BY <1>4, <3>2 DEF Parted
    <3>4. /\ tables' = T /\ UNCHANGED <<indexes, next_index_oid>>
          /\ used' = r.used /\ lost' = lost /\ given' = given \cup {oid}
          /\ catalog_meta_page_id' = r.entry /\ meta' = r.meta
          /\ next_table_oid' = oid + 1
      BY <1>10, <2>1, <2>7, <3>1
    <3>5. PagesSound(D)'
      <4>1. pinned \subseteq HeapPages(T) \cup IndexPages(indexes) \cup P
        BY <1>5, <2>3
      <4> QED
        BY <1>1, <1>3, <1>8, <2>3, <3>1, <3>3, <3>4, <4>1 DEF PagesSound
    <3>6. PICK c \in Nat, d \in Nat : c = oid + 1 /\ d = next_index_oid
      BY <1>7
    <3>7. Counted(c, d)'
      BY <1>3, <1>6, <1>7, <2>3, <3>4, <3>6 DEF Counted
    <3>8. FileSound(meta', catalog_meta_page_id', D,
                    BuildMetaSnapshot(tables', indexes', c, d), c, d)
      BY <3>2, <3>4, <3>6 DEF FileSound, s
    <3>9. PICK G2 : G2 = T /\ Told(T, G2)
      BY <2>3, ToldAll
    <3>10. Sound(D, G2, c, d)'
      BY <1>3, <2>3, <3>4, <3>5, <3>7, <3>8, <3>9 DEF Sound
    <3> QED
      BY <3>10 DEF IInv
  <2> QED
    BY <2>5, <2>6, <2>7 DEF PersistLeaves
<1> QED
  BY <1>1, <1>9, <1>10

LEMMA CreateIndexKeeps ==
  ASSUME CatalogConstants, FailuresAreTakenBack, NEW C \in Seq(Page), NEW G, NEW a \in Nat, NEW b \in Nat,
         Sound(C, G, a, b), NEW t \in Thread, CreateIndex(t)
  PROVE  IInv'
<1> DEFINE o == task[t].oid
           name == task[t].name
           oid == next_index_oid
           F == Reclaimed(used, pending_reclaim).used
           P == Reclaimed(used, pending_reclaim).pending
           fresh == Lowest(2, Page \ F)
           refused == \/ o \notin DOMAIN tables
                      \/ \E x \in IndexesOf(o) : indexes[x].name = name
                      \/ fresh = <<>>
           new(k) == [table |-> o, name |-> name, header |-> fresh[1],
                      tree |-> Range(SubSeq(fresh, 2, k))]
           u(k) == F \cup TreePages(new(k))
           X(k) == With(indexes, oid, new(k))
           backfill(k) == [ok |-> FALSE, used |-> u(k), meta |-> meta,
                           entry |-> catalog_meta_page_id, lost |-> {}]
           s(k) == BuildMetaSnapshot(tables, X(k), next_table_oid, oid + 1)
           Refused == /\ used' = F
                      /\ UNCHANGED <<tables, indexes, next_table_oid, next_index_oid,
                                     catalog_meta_page_id, meta, lost>>
           Done(k, r) ==
             /\ indexes' = IF r.ok THEN X(k) ELSE indexes
             /\ next_index_oid' = IF r.ok THEN oid + 1 ELSE oid
             /\ used' = IF r.ok THEN r.used ELSE r.used \ {new(k).header}
             /\ lost' = lost \cup r.lost \cup (IF r.ok THEN {} ELSE new(k).tree)
             /\ catalog_meta_page_id' = r.entry /\ meta' = r.meta
<1>1. /\ task[t].op = "index" /\ task' = [task EXCEPT ![t] = Idle]
      /\ pending_reclaim' = P /\ UNCHANGED <<pinned, given>>
      /\ \/ Refused
         \/ /\ ~refused
            /\ \E k \in 1 .. Len(fresh) :
                 \E r \in {backfill(k)} \cup Persisted(u(k), s(k)) : Done(k, r)
            /\ UNCHANGED <<tables, next_table_oid>>
  BY DEF CreateIndex, memory, file
<1>2. name \in IndexName
  <2>1. task[t] \in Tasks /\ task[t].op = "index"
    BY <1>1 DEF Sound
  <2> QED
    BY <2>1 DEF Tasks, Idle
<1>3. /\ task' \in [Thread -> Tasks] /\ CallsApart(task')
      /\ Cardinality(CallsOf(task', "create")) = Cardinality(CallsOf(task, "create"))
      /\ Cardinality(CallsOf(task', "index")) = Cardinality(CallsOf(task, "index")) - 1
      /\ CallPages(task') = CallPages(task)
  <2>1. CallEnded(task, t, task')
    BY <1>1, CallEnds DEF Sound, PagesSound
  <2> QED
    BY <1>1, <2>1 DEF CallEnded
<1>5. /\ F \in SUBSET Page
      /\ pinned \subseteq HeapPages(tables) \cup IndexPages(indexes) \cup P
      /\ Parted(F, HeapPages(tables), IndexPages(indexes), CallPages(task),
                Range(C), P, lost)
  BY AfterReclaim DEF Sound
<1>6. \A op : Cardinality(CallsOf(task, op)) \in Nat
  BY CallsCount
<1>7. /\ a \in 0 .. next_table_oid /\ b \in 0 .. oid
      /\ DOMAIN tables \cup given \subseteq 0 .. a - 1
      /\ DOMAIN indexes \subseteq 0 .. b - 1
      /\ oid \in Nat /\ next_table_oid \in Nat /\ MaxOid \in Nat
      /\ next_table_oid + Cardinality(CallsOf(task, "create")) <= MaxOid
      /\ oid + Cardinality(CallsOf(task, "index")) <= MaxOid
  BY DEF Sound, Counted, CatalogConstants
<1>8. /\ Shapes(tables, indexes) /\ Told(tables, G)
      /\ HeapsApart(tables) /\ TreesApart(indexes)
      /\ FileSound(meta, catalog_meta_page_id, C,
                   BuildMetaSnapshot(G, indexes, a, b), a, b)
      /\ IsChain(meta, catalog_meta_page_id, C)
  BY DEF Sound, PagesSound, FileSound
<1>4. /\ fresh \in Seq(Page \ F) /\ Len(fresh) \in Nat
      /\ \A i, j \in 1 .. Len(fresh) : fresh[i] = fresh[j] => i = j
  <2>1. 2 \in Nat /\ Page \ F \in SUBSET Page
    OBVIOUS
  <2> HIDE DEF F
  <2> QED
    BY <2>1, LowestIs, LenProperties
<1> HIDE DEF o, name, F, P, fresh, refused, u, X, s, Refused, Done
<1>9. CASE Refused
  <2>1. /\ used' = F
        /\ UNCHANGED <<tables, indexes, next_table_oid, next_index_oid,
                       catalog_meta_page_id, meta, lost>>
    BY <1>9 DEF Refused
  <2>3. PagesSound(C)'
    BY <1>1, <1>3, <1>5, <1>8, <2>1 DEF PagesSound
  <2>4. Counted(a, b)'
    BY <1>1, <1>3, <1>6, <1>7, <2>1 DEF Counted
  <2>5. Sound(C, G, a, b)'
    BY <1>3, <1>8, <2>1, <2>3, <2>4 DEF Sound
  <2> QED
    BY <2>5 DEF IInv
<1>10. ASSUME ~refused, NEW k \in 1 .. Len(fresh),
              NEW r \in {backfill(k)} \cup Persisted(u(k), s(k)), Done(k, r),
              UNCHANGED <<tables, next_table_oid>>
       PROVE  IInv'
  <2> DEFINE header == fresh[1]
             tree == Range(SubSeq(fresh, 2, k))
             e == new(k)
             N == {header} \cup tree
  <2>1. o \in DOMAIN tables
    BY <1>10 DEF refused
  <2>2. header \in Page /\ header \notin F
    BY <1>4, <1>10
  <2>3. tree \subseteq Page \ F /\ header \notin tree
    <3> DEFINE rest == SubSeq(fresh, 2, k)
    <3>1. /\ 2 \in Int /\ k \in Int
          /\ \A i \in 2 .. k : i \in 1 .. Len(fresh) /\ fresh[i] \in Page \ F
      BY <1>4, <1>10
    <3>2. /\ rest \in Seq(Page \ F)
          /\ Len(rest) = IF 2 <= k THEN k - 2 + 1 ELSE 0
          /\ \A i \in 1 .. k - 2 + 1 : rest[i] = fresh[2 + i - 1]
      BY <3>1, SubSeqProperties
    <3> HIDE DEF rest
    <3>3. ASSUME NEW i \in 1 .. Len(rest) PROVE rest[i] # header
      <4>1. /\ i \in 1 .. k - 2 + 1 /\ 2 + i - 1 = i + 1 /\ i + 1 \in 1 .. Len(fresh)
            /\ i + 1 # 1 /\ 1 \in 1 .. Len(fresh)
        BY <1>4, <1>10, <3>1, <3>2
      <4> QED
        BY <1>4, <3>2, <4>1
    <3>4. /\ Range(rest) \subseteq Page \ F
          /\ \A p \in Range(rest) : \E i \in 1 .. Len(rest) : rest[i] = p
      <4>1. rest \in Seq(Page \ F)
        BY <3>2
      <4> QED
        BY ONLY <4>1, ElementsOf
    <3>5. header \notin Range(rest)
      BY ONLY <3>3, <3>4, Zenon
    <3> QED
      BY <3>4, <3>5 DEF rest
  <2>4. /\ e = [table |-> o, name |-> name, header |-> header, tree |-> tree]
        /\ TreePages(e) = N /\ e.header = header /\ e.tree = tree
    BY DEF TreePages
  <2> HIDE DEF header, tree, e
  <2>5. e \in [table : DOMAIN tables, name : IndexName, header : Page, tree : SUBSET Page]
    BY <1>2, <2>1, <2>2, <2>3, <2>4
  <2>6. \A p \in N : p \notin F /\ p \notin IndexPages(indexes) /\ p \in Page
    BY <1>5, <2>2, <2>3 DEF Parted
  <2>7. X(k) = With(indexes, oid, e) /\ u(k) = F \cup N /\ u(k) \in SUBSET Page
    BY <2>2, <2>3, <2>4, <1>5 DEF X, u, e
  <2>8. /\ DOMAIN X(k) = DOMAIN indexes \cup {oid}
        /\ Shapes(tables, X(k)) /\ TreesApart(X(k))
        /\ IndexPages(X(k)) = IndexPages(indexes) \cup N
    <3>1. oid \notin DOMAIN indexes
      BY <1>7
    <3>2. NewIndex(tables, indexes, X(k), oid, e)
      BY <1>8, <2>3, <2>4, <2>5, <2>6, <2>7, <3>1 DEF NewIndex
    <3>3. IndexThere(tables, indexes, X(k), oid, e)
      BY <3>2, IndexAdded
    <3> QED
      BY <2>4, <3>3 DEF IndexThere
  <2>9. /\ indexes' = IF r.ok THEN X(k) ELSE indexes
        /\ next_index_oid' = IF r.ok THEN oid + 1 ELSE oid
        /\ used' = IF r.ok THEN r.used ELSE r.used \ {header}
        /\ lost' = lost \cup r.lost \cup (IF r.ok THEN {} ELSE tree)
        /\ catalog_meta_page_id' = r.entry /\ meta' = r.meta
    BY <1>10, <2>4 DEF Done, e
  <2>10. Parts(s(k)) \in Nat \ {0}
    <3>1. DOMAIN X(k) \subseteq 0 .. (oid + 1) - 1 /\ oid + 1 \in Nat
      BY <1>7, <2>8
    <3>2. IsFiniteSet(DOMAIN X(k))
      BY <3>1, OidsAreFinite
    <3>3. IsFiniteSet(DOMAIN tables)
      BY <1>7, OidsAreFinite
    <3> QED
      BY <3>2, <3>3, SnapshotParts DEF s
  <2>11. Parted(u(k), HeapPages(tables), IndexPages(indexes) \cup N, CallPages(task),
                Range(C), P, lost)
    <3>1. \A p \in N : p \notin F
      BY <2>6
    <3> HIDE DEF N
    <3>2. Parted(F \cup N, HeapPages(tables), IndexPages(indexes) \cup N,
                 CallPages(task), Range(C), P, lost)
      BY <1>5, <3>1, PageJoins
    <3> QED
      BY <2>7, <3>2
  <2>12. PersistLeaves(C, HeapPages(tables), IndexPages(indexes) \cup N,
                       CallPages(task), P, lost, s(k), r)
    <3>1. CASE r \in Persisted(u(k), s(k))
      BY <1>8, <2>7, <2>10, <2>11, <3>1, PersistParts
    <3>2. CASE r = backfill(k)
      <4>1. /\ r.ok = FALSE /\ r.entry = catalog_meta_page_id /\ r.meta = meta
            /\ r.used = u(k) /\ r.lost = {}
        BY <3>2
      <4>2. lost \cup r.lost = lost
        BY <4>1
      <4> QED
        BY <2>7, <2>11, <4>1, <4>2 DEF PersistLeaves
    <3> QED
      BY <1>10, <3>1, <3>2
  <2>13. CASE r.ok = FALSE
    <3>1. /\ r.entry = catalog_meta_page_id /\ r.meta = meta /\ r.used \subseteq Page
          /\ Parted(r.used, HeapPages(tables), IndexPages(indexes) \cup N,
                    CallPages(task), Range(C), P, lost \cup r.lost)
      BY <2>12, <2>13 DEF PersistLeaves
    <3>2. Parted(r.used \ {header}, HeapPages(tables), IndexPages(indexes),
                 CallPages(task), Range(C), P, lost \cup r.lost \cup tree)
      BY <2>3, <2>6, <3>1 DEF Parted
    <3>3. /\ UNCHANGED <<tables, indexes, next_table_oid, next_index_oid,
                         catalog_meta_page_id, meta, given>>
          /\ used' = r.used \ {header} /\ lost' = lost \cup r.lost \cup tree
      BY <1>1, <1>10, <2>9, <2>13, <3>1
    <3>4. PagesSound(C)'
      BY <1>1, <1>3, <1>5, <1>8, <3>1, <3>2, <3>3 DEF PagesSound
    <3>5. Counted(a, b)'
      BY <1>3, <1>6, <1>7, <3>3 DEF Counted
    <3>6. Sound(C, G, a, b)'
      BY <1>3, <1>8, <3>3, <3>4, <3>5 DEF Sound
    <3> QED
      BY <3>6 DEF IInv
  <2>14. CASE r.ok = TRUE
    <3>1. r.lost = {} /\ r.used \subseteq Page
      BY <2>12, <2>14 DEF PersistLeaves
    <3>2. PICK D \in Seq(Page) :
            /\ D # <<>> /\ IsChain(r.meta, r.entry, D) /\ Describes(r.meta, D, s(k))
            /\ Parted(r.used, HeapPages(tables), IndexPages(indexes) \cup N,
                      CallPages(task), Range(D), P, lost)
      BY <2>12, <2>14 DEF PersistLeaves
    <3>4. /\ indexes' = X(k) /\ UNCHANGED <<tables, next_table_oid, given>>
          /\ used' = r.used /\ lost' = lost
          /\ catalog_meta_page_id' = r.entry /\ meta' = r.meta
          /\ next_index_oid' = oid + 1
      BY <1>1, <1>10, <2>9, <2>14, <3>1
    <3>5. PagesSound(D)'
      <4>1. pinned \subseteq HeapPages(tables) \cup IndexPages(X(k)) \cup P
        BY <1>5, <2>8
      <4>2. Parted(r.used, HeapPages(tables), IndexPages(X(k)), CallPages(task'),
                   Range(D), P, lost)
        BY <1>3, <2>8, <3>2
      <4>3. HeapsApart(tables) /\ TreesApart(X(k)) /\ CallsApart(task')
        BY <1>3, <1>8, <2>8
      <4> QED
        BY <1>1, <3>1, <3>4, <4>1, <4>2, <4>3 DEF PagesSound
    <3>6. PICK c \in Nat, d \in Nat : c = next_table_oid /\ d = oid + 1
      BY <1>7
    <3>7. Counted(c, d)'
      <4>1. /\ DOMAIN tables \cup given \subseteq 0 .. c - 1
            /\ DOMAIN X(k) \subseteq 0 .. d - 1
        BY <1>7, <2>8, <3>6
      <4>2. /\ c \in 0 .. next_table_oid /\ d \in 0 .. oid + 1 /\ oid + 1 \in Nat
            /\ (oid + 1) + Cardinality(CallsOf(task', "index")) <= MaxOid
        BY <1>3, <1>6, <1>7, <3>6
      <4> QED
        BY <1>3, <1>7, <3>4, <4>1, <4>2 DEF Counted
    <3>8. FileSound(meta', catalog_meta_page_id', D,
                    BuildMetaSnapshot(tables', indexes', c, d), c, d)
      BY <3>2, <3>4, <3>6 DEF FileSound, s
    <3>9. PICK G2 : G2 = tables /\ Told(tables, G2)
      BY <1>8, ToldAll
    <3>10. Sound(D, G2, c, d)'
      BY <1>3, <2>8, <3>4, <3>5, <3>7, <3>8, <3>9 DEF Sound
    <3> QED
      BY <3>10 DEF IInv
  <2> QED
    BY <2>12, <2>13, <2>14 DEF PersistLeaves
<1> QED
  BY <1>1, <1>9, <1>10

LEMMA DropKeeps ==
  ASSUME CatalogConstants, FailuresAreTakenBack, NEW C \in Seq(Page), NEW G, NEW a \in Nat, NEW b \in Nat,
         Sound(C, G, a, b), NEW oids, NEW xs,
         oids \subseteq DOMAIN tables, xs \subseteq DOMAIN indexes,
         \A x \in DOMAIN indexes : indexes[x].table \in oids => x \in xs,
         Drop(oids, xs)
  PROVE  IInv'
<1> DEFINE F == Reclaimed(used, pending_reclaim).used
           P == Reclaimed(used, pending_reclaim).pending
           T == Without(tables, oids)
           X == Without(indexes, xs)
           s == BuildMetaSnapshot(T, X, next_table_oid, next_index_oid)
           all == Collected(tables, indexes, oids, xs)
           gone(r) == IF r.ok THEN all ELSE {}
           rest(r) == Reclaimed(r.used, P \cup gone(r))
           Done(r) == /\ tables' = IF r.ok THEN T ELSE tables
                      /\ indexes' = IF r.ok THEN X ELSE indexes
                      /\ catalog_meta_page_id' = r.entry /\ meta' = r.meta
                      /\ used' = rest(r).used /\ pending_reclaim' = rest(r).pending
                      /\ lost' = lost \cup r.lost
<1>1. PICK r \in Persisted(F, s) : Done(r)
  <2>1. {b0 \in {FALSE} : oids = {} /\ "restore" \in GivesUp} = {}
    BY DEF FailuresAreTakenBack
  <2>2. PICK r \in Persisted(F, s),
             back \in {TRUE} \cup {b0 \in {FALSE} : oids = {} /\ "restore" \in GivesUp} :
          /\ tables' = IF r.ok THEN T ELSE tables
          /\ indexes' = IF r.ok \/ ~back THEN X ELSE indexes
          /\ catalog_meta_page_id' = r.entry /\ meta' = r.meta
          /\ used' = rest(r).used /\ pending_reclaim' = rest(r).pending
          /\ lost' = lost \cup r.lost \cup (IF r.ok \/ back THEN {} ELSE all)
    BY DEF Drop
  <2>3. back = TRUE
    BY <2>1
  <2> HIDE DEF F, P, T, X, s, all, rest
  <2>4. Done(r)
    BY <2>2, <2>3
  <2> QED
    BY <2>4
<1>2. UNCHANGED <<next_table_oid, next_index_oid, pinned, task, given>>
  BY DEF Drop
<1>3. \A v, Q : /\ Reclaimed(v, Q).used = v \ (Q \ pinned)
                /\ Reclaimed(v, Q).pending = Q \cap pinned
  BY DEF Reclaimed
<1>5. /\ F \in SUBSET Page
      /\ pinned \subseteq HeapPages(tables) \cup IndexPages(indexes) \cup P
      /\ Parted(F, HeapPages(tables), IndexPages(indexes), CallPages(task),
                Range(C), P, lost)
  BY AfterReclaim DEF Sound
<1>6. \A op : Cardinality(CallsOf(task, op)) \in Nat
  BY CallsCount
<1>7. /\ a \in 0 .. next_table_oid /\ b \in 0 .. next_index_oid
      /\ DOMAIN tables \cup given \subseteq 0 .. a - 1
      /\ DOMAIN indexes \subseteq 0 .. b - 1
      /\ next_index_oid \in Nat /\ next_table_oid \in Nat /\ MaxOid \in Nat
      /\ next_table_oid + Cardinality(CallsOf(task, "create")) <= MaxOid
      /\ next_index_oid + Cardinality(CallsOf(task, "index")) <= MaxOid
  BY DEF Sound, Counted, CatalogConstants
<1>8. /\ Shapes(tables, indexes) /\ Told(tables, G)
      /\ HeapsApart(tables) /\ TreesApart(indexes)
      /\ FileSound(meta, catalog_meta_page_id, C,
                   BuildMetaSnapshot(G, indexes, a, b), a, b)
      /\ IsChain(meta, catalog_meta_page_id, C)
      /\ task \in [Thread -> Tasks] /\ CallsApart(task)
  BY DEF Sound, PagesSound, FileSound
<1> HIDE DEF F, P, T, X, s, Done, all
<1>9. /\ tables' = IF r.ok THEN T ELSE tables
      /\ indexes' = IF r.ok THEN X ELSE indexes
      /\ catalog_meta_page_id' = r.entry /\ meta' = r.meta
      /\ used' = r.used \ ((P \cup gone(r)) \ pinned)
      /\ pending_reclaim' = (P \cup gone(r)) \cap pinned
      /\ lost' = lost \cup r.lost
  <2> HIDE DEF gone
  <2> QED
    BY <1>1, <1>3 DEF Done
<1>10. /\ DOMAIN T \subseteq DOMAIN tables /\ DOMAIN X \subseteq DOMAIN indexes
       /\ Shapes(T, X) /\ HeapsApart(T) /\ TreesApart(X)
       /\ HeapPages(T) = HeapPages(tables) \ all
       /\ IndexPages(X) = IndexPages(indexes) \ all
       /\ all \subseteq HeapPages(tables) \cup IndexPages(indexes)
  <2>1. \A p : ~ (p \in HeapPages(tables) /\ p \in IndexPages(indexes))
    BY <1>5 DEF Parted
  <2>2. OldOnes(tables, indexes, T, X, oids, xs, all)
    BY <1>8, <2>1 DEF OldOnes, T, X, all
  <2>3. OnesGone(tables, indexes, T, X, all)
    BY <2>2, Dropped
  <2> QED
    BY <2>3 DEF OnesGone
<1>11. Parts(s) \in Nat \ {0}
  <2>1. IsFiniteSet(DOMAIN tables) /\ IsFiniteSet(DOMAIN indexes)
    BY <1>7, OidsAreFinite
  <2>2. IsFiniteSet(DOMAIN T) /\ IsFiniteSet(DOMAIN X)
    BY <1>10, <2>1, FS_Subset
  <2> QED
    BY <2>2, SnapshotParts DEF s
<1>12. PersistLeaves(C, HeapPages(tables), IndexPages(indexes), CallPages(task),
                     P, lost, s, r)
  BY <1>1, <1>5, <1>8, <1>11, PersistParts
<1>13. CASE r.ok = FALSE
  <2>1. /\ r.entry = catalog_meta_page_id /\ r.meta = meta /\ r.used \subseteq Page
        /\ Parted(r.used, HeapPages(tables), IndexPages(indexes), CallPages(task),
                  Range(C), P, lost \cup r.lost)
    BY <1>12, <1>13 DEF PersistLeaves
  <2>2. /\ UNCHANGED <<tables, indexes, catalog_meta_page_id, meta>>
        /\ used' = r.used \ (P \ pinned) /\ pending_reclaim' = P \cap pinned
        /\ lost' = lost \cup r.lost
    BY <1>9, <1>13, <2>1
  <2>3. Parted(r.used \ (P \ pinned), HeapPages(tables), IndexPages(indexes),
               CallPages(task), Range(C), P \cap pinned, lost \cup r.lost)
    <3>1. Parted(Reclaimed(r.used, P).used, HeapPages(tables), IndexPages(indexes),
                 CallPages(task), Range(C), Reclaimed(r.used, P).pending,
                 lost \cup r.lost)
      BY <2>1, ReclaimLeaves
    <3> QED
      BY <1>3, <3>1
  <2>4. PagesSound(C)'
    BY <1>2, <1>5, <1>8, <2>1, <2>2, <2>3 DEF PagesSound
  <2>5. Counted(a, b)'
    BY <1>2, <1>7, <2>2 DEF Counted
  <2>6. Sound(C, G, a, b)'
    BY <1>2, <1>8, <2>2, <2>4, <2>5 DEF Sound
  <2> QED
    BY <2>6 DEF IInv
<1>14. CASE r.ok = TRUE
  <2>1. r.lost = {} /\ r.used \subseteq Page
    BY <1>12, <1>14 DEF PersistLeaves
  <2>2. PICK D \in Seq(Page) :
          /\ D # <<>> /\ IsChain(r.meta, r.entry, D) /\ Describes(r.meta, D, s)
          /\ Parted(r.used, HeapPages(tables), IndexPages(indexes), CallPages(task),
                    Range(D), P, lost)
    BY <1>12, <1>14 DEF PersistLeaves
  <2>3. /\ tables' = T /\ indexes' = X
        /\ used' = r.used \ ((P \cup all) \ pinned)
        /\ pending_reclaim' = (P \cup all) \cap pinned
        /\ lost' = lost
        /\ catalog_meta_page_id' = r.entry /\ meta' = r.meta
    BY <1>9, <1>14, <2>1
  <2>4. Parted(r.used, HeapPages(T), IndexPages(X), CallPages(task),
               Range(D), P \cup all, lost)
    BY <1>10, <2>2 DEF Parted
  <2>5. Parted(r.used \ ((P \cup all) \ pinned), HeapPages(T), IndexPages(X),
               CallPages(task), Range(D), (P \cup all) \cap pinned, lost)
    <3> DEFINE Q == P \cup all
    <3> HIDE DEF Q
    <3>1. Parted(r.used, HeapPages(T), IndexPages(X), CallPages(task),
                 Range(D), Q, lost)
      BY <2>4 DEF Q
    <3>2. Parted(Reclaimed(r.used, Q).used, HeapPages(T), IndexPages(X),
                 CallPages(task), Range(D), Reclaimed(r.used, Q).pending, lost)
      BY <3>1, ReclaimLeaves
    <3>3. Parted(r.used \ (Q \ pinned), HeapPages(T), IndexPages(X),
                 CallPages(task), Range(D), Q \cap pinned, lost)
      BY <1>3, <3>2
    <3> QED
      BY <3>3 DEF Q
  <2>6. PagesSound(D)'
    <3>1. pinned \subseteq HeapPages(T) \cup IndexPages(X) \cup ((P \cup all) \cap pinned)
      BY <1>5, <1>10
    <3> QED
      BY <1>2, <1>8, <1>10, <2>1, <2>3, <2>5, <3>1 DEF PagesSound
  <2>7. PICK c \in Nat, d \in Nat : c = next_table_oid /\ d = next_index_oid
    BY <1>7
  <2>8. Counted(c, d)'
    BY <1>2, <1>6, <1>7, <1>10, <2>3, <2>7 DEF Counted
  <2>9. FileSound(meta', catalog_meta_page_id', D,
                  BuildMetaSnapshot(tables', indexes', c, d), c, d)
    BY <2>2, <2>3, <2>7 DEF FileSound, s
  <2>10. PICK G2 : G2 = T /\ Told(T, G2)
    BY <1>10, ToldAll
  <2>11. Sound(D, G2, c, d)'
    BY <1>2, <1>8, <1>10, <2>3, <2>6, <2>8, <2>9, <2>10 DEF Sound
  <2> QED
    BY <2>11 DEF IInv
<1> QED
  BY <1>12, <1>13, <1>14 DEF PersistLeaves

(* What the file says of tables and indexes is what they were.             *)
TablesOf(s, T) ==
  [o \in {e.oid : e \in s.tables} |->
     LET e == CHOOSE d \in s.tables : d.oid = o
     IN  [name |-> e.name, heap |-> T[o].heap]]

IndexesIn(s, X) ==
  [x \in {e.oid : e \in s.indexes} |->
     LET e == CHOOSE d \in s.indexes : d.oid = x
     IN  [table |-> e.table, name |-> e.name, header |-> e.header,
          tree |-> X[x].tree]]

LEMMA Reloaded ==
  ASSUME NEW T, NEW G, NEW X, NEW a, NEW b, Shapes(T, X), Told(T, G)
  PROVE  /\ TablesOf(BuildMetaSnapshot(G, X, a, b), T) = T
         /\ IndexesIn(BuildMetaSnapshot(G, X, a, b), X) = X
<1> DEFINE s == BuildMetaSnapshot(G, X, a, b)
           t(o) == [oid |-> o, name |-> G[o].name, first |-> FirstPageId(G[o].heap)]
           i(x) == [oid |-> x, table |-> X[x].table, name |-> X[x].name,
                    header |-> X[x].header]
<1>1. /\ s.tables = {t(o) : o \in DOMAIN T} /\ s.indexes = {i(x) : x \in DOMAIN X}
      /\ s.next_table = a /\ s.next_index = b
  BY DEF BuildMetaSnapshot, Told
<1>2. /\ \A o \in DOMAIN T : t(o).oid = o /\ t(o).name = T[o].name
      /\ \A x : /\ i(x).oid = x /\ i(x).table = X[x].table
                /\ i(x).name = X[x].name /\ i(x).header = X[x].header
  BY DEF Told
<1> HIDE DEF s, t, i
<1>3. {e.oid : e \in s.tables} = DOMAIN T /\ {e.oid : e \in s.indexes} = DOMAIN X
  <2>1. {e.oid : e \in s.tables} = {t(o).oid : o \in DOMAIN T}
    BY <1>1
  <2>2. {e.oid : e \in s.indexes} = {i(x).oid : x \in DOMAIN X}
    BY <1>1
  <2>3. {t(o).oid : o \in DOMAIN T} = DOMAIN T /\ {i(x).oid : x \in DOMAIN X} = DOMAIN X
    BY <1>2
  <2> QED
    BY <2>1, <2>2, <2>3
<1>4. \A o \in DOMAIN T : (CHOOSE d \in s.tables : d.oid = o) = t(o)
  BY <1>1, <1>2
<1>5. \A x \in DOMAIN X : (CHOOSE d \in s.indexes : d.oid = x) = i(x)
  BY <1>1, <1>2
<1>6. /\ \A o \in DOMAIN T : T[o] \in [name : Name, heap : Seq(Page)]
      /\ \A x \in DOMAIN X : X[x] \in [table : DOMAIN T, name : IndexName,
                                       header : Page, tree : SUBSET Page]
      /\ T = [o \in DOMAIN T |-> T[o]] /\ X = [x \in DOMAIN X |-> X[x]]
  BY DEF Shapes
<1>7. \A o \in DOMAIN T : T[o] = [name |-> t(o).name, heap |-> T[o].heap]
  BY <1>2, <1>6
<1>8. \A x \in DOMAIN X : X[x] = [table |-> i(x).table, name |-> i(x).name,
                                  header |-> i(x).header, tree |-> X[x].tree]
  BY <1>2, <1>6
<1>9. T = [o \in {e.oid : e \in s.tables} |->
             [name |-> (CHOOSE d \in s.tables : d.oid = o).name, heap |-> T[o].heap]]
  <2>1. T = [o \in DOMAIN T |-> [name |-> t(o).name, heap |-> T[o].heap]]
    BY <1>6, <1>7
  <2>2. [o \in DOMAIN T |->
            [name |-> (CHOOSE d \in s.tables : d.oid = o).name, heap |-> T[o].heap]]
        = [o \in DOMAIN T |-> [name |-> t(o).name, heap |-> T[o].heap]]
    BY <1>4
  <2> QED
    BY <1>3, <2>1, <2>2
<1>10. X = [x \in {e.oid : e \in s.indexes} |->
              [table |-> (CHOOSE d \in s.indexes : d.oid = x).table,
               name |-> (CHOOSE d \in s.indexes : d.oid = x).name,
               header |-> (CHOOSE d \in s.indexes : d.oid = x).header,
               tree |-> X[x].tree]]
  <2>1. X = [x \in DOMAIN X |-> [table |-> i(x).table, name |-> i(x).name,
                                 header |-> i(x).header, tree |-> X[x].tree]]
    BY <1>6, <1>8
  <2>2. [x \in DOMAIN X |->
              [table |-> (CHOOSE d \in s.indexes : d.oid = x).table,
               name |-> (CHOOSE d \in s.indexes : d.oid = x).name,
               header |-> (CHOOSE d \in s.indexes : d.oid = x).header,
               tree |-> X[x].tree]]
        = [x \in DOMAIN X |-> [table |-> i(x).table, name |-> i(x).name,
                               header |-> i(x).header, tree |-> X[x].tree]]
    BY <1>5
  <2> QED
    BY <1>3, <2>1, <2>2
<1> QED
  BY <1>9, <1>10 DEF s, TablesOf, IndexesIn

LEMMA ReopenKeeps ==
  ASSUME CatalogConstants, NEW C \in Seq(Page), NEW G, NEW a \in Nat, NEW b \in Nat,
         Sound(C, G, a, b), Reopen
  PROVE  Sound(C, G, a, b)'
<1> DEFINE s == BuildMetaSnapshot(G, indexes, a, b)
<1>1. Loaded = {s}
  <2>1. /\ Shapes(tables, indexes) /\ Told(tables, G)
        /\ DOMAIN tables \subseteq 0 .. a - 1 /\ DOMAIN indexes \subseteq 0 .. b - 1
        /\ FileSound(meta, catalog_meta_page_id, C, s, a, b)
    BY DEF Sound, Counted
  <2> QED
    BY <2>1, LoadedIs
<1>2. /\ tables' = TablesOf(s, tables) /\ indexes' = IndexesIn(s, indexes)
      /\ next_table_oid' = s.next_table /\ next_index_oid' = s.next_index
  <2> HIDE DEF s
  <2> QED
    BY <1>1 DEF Reopen, TablesOf, IndexesIn
<1>3. /\ \A t \in Thread : task[t] = Idle
      /\ pinned = {} /\ pending_reclaim' = {} /\ lost' = lost \cup pending_reclaim
      /\ UNCHANGED <<catalog_meta_page_id, meta, used, pinned, task, given>>
  BY DEF Reopen, file
<1>4. /\ tables' = tables /\ indexes' = indexes
      /\ next_table_oid' = a /\ next_index_oid' = b
  <2>1. Shapes(tables, indexes) /\ Told(tables, G)
    BY DEF Sound
  <2>2. s.next_table = a /\ s.next_index = b
    BY DEF BuildMetaSnapshot
  <2> QED
    BY <1>2, <2>1, <2>2, Reloaded
<1>5. Counted(a, b)'
  <2>1. CallsOf(task, "create") = {} /\ CallsOf(task, "index") = {}
    BY <1>3 DEF CallsOf, Idle
  <2>2. Cardinality({}) = 0
    BY FS_EmptySet
  <2>3. /\ a \in 0 .. next_table_oid /\ b \in 0 .. next_index_oid
        /\ next_table_oid \in Nat /\ next_index_oid \in Nat /\ MaxOid \in Nat
        /\ next_table_oid + 0 <= MaxOid /\ next_index_oid + 0 <= MaxOid
        /\ DOMAIN tables \cup given \subseteq 0 .. a - 1
        /\ DOMAIN indexes \subseteq 0 .. b - 1
    BY <2>1, <2>2 DEF Sound, Counted, CatalogConstants
  <2>4. Cardinality(CallsOf(task', "create")) = 0 /\ Cardinality(CallsOf(task', "index")) = 0
    BY <1>3, <2>1, <2>2
  <2>5. a \in 0 .. a /\ b \in 0 .. b /\ a + 0 <= MaxOid /\ b + 0 <= MaxOid
    BY <2>3
  <2> QED
    BY <1>3, <1>4, <2>3, <2>4, <2>5 DEF Counted
<1>6. Parted(used, HeapPages(tables), IndexPages(indexes), CallPages(task),
             Range(C), {}, lost \cup pending_reclaim)
  BY DEF Sound, PagesSound, Parted
<1>7. PagesSound(C)'
  BY <1>3, <1>4, <1>6 DEF Sound, PagesSound
<1> QED
  BY <1>3, <1>4, <1>5, <1>7 DEF Sound

-------------------------------------------------------------------------------
LEMMA InitSound ==
  ASSUME CatalogConstants, Init
  PROVE  IInv
<1>1. /\ tables = <<>> /\ indexes = <<>>
      /\ next_table_oid = 0 /\ next_index_oid = 0
      /\ pending_reclaim = {} /\ used = {} /\ pinned = {}
      /\ catalog_meta_page_id = INVALID_PAGE_ID
      /\ task = [t \in Thread |-> Idle]
      /\ given = {} /\ lost = {} /\ MaxOid \in Nat
  BY DEF Init, CatalogConstants
<1> DEFINE E == <<>>
<1>2. /\ DOMAIN E = {} /\ E \in Seq(Page) /\ Len(E) = 0
      /\ E = [x \in DOMAIN E |-> E[x]]
  OBVIOUS
<1>3. tables = E /\ indexes = E
  BY <1>1
<1> HIDE DEF E
<1>4. CallsOf(task, "create") = {} /\ CallsOf(task, "index") = {}
  BY <1>1 DEF CallsOf, Idle
<1>5. Cardinality({}) = 0
  BY FS_EmptySet
<1>6. Shapes(tables, indexes)
  <2>1. \A S : E \in [DOMAIN E -> S]
    BY <1>2
  <2> QED
    BY <1>2, <1>3, <2>1 DEF Shapes
<1>7. Counted(0, 0)
  <2>1. DOMAIN tables \cup given = {} /\ DOMAIN indexes = {}
    BY <1>1, <1>2, <1>3
  <2>2. /\ Cardinality(CallsOf(task, "create")) = 0
        /\ Cardinality(CallsOf(task, "index")) = 0
    BY <1>4, <1>5
  <2> QED
    BY <1>1, <2>1, <2>2 DEF Counted
<1>8. Range(E) = {} /\ HeapPages(E) = {} /\ IndexPages(E) = {} /\ CallPages(task) = {}
  <2>1. Range(E) = {}
    BY <1>2 DEF Range
  <2>2. HeapPages(E) = {} /\ IndexPages(E) = {}
    BY <1>2 DEF HeapPages, IndexPages
  <2>3. CallPages(task) = {}
    BY <1>4 DEF CallPages
  <2> QED
    BY <2>1, <2>2, <2>3
<1>9. PagesSound(E)
  <2>1. HeapsApart(tables) /\ TreesApart(indexes) /\ CallsApart(task)
    BY <1>2, <1>3, <1>4 DEF HeapsApart, TreesApart, CallsApart
  <2>2. Parted({}, {}, {}, {}, {}, {}, {})
    BY DEF Parted
  <2> QED
    BY <1>1, <1>3, <1>8, <2>1, <2>2 DEF PagesSound
<1>10. FileSound(meta, catalog_meta_page_id, E,
                 BuildMetaSnapshot(E, indexes, 0, 0), 0, 0)
  <2>1. IsChain(meta, catalog_meta_page_id, E)
    <3>1. IsInjective(E) /\ E = <<>>
      BY <1>2 DEF IsInjective, E
    <3> QED
      BY <1>1, <1>2, <3>1 DEF IsChain
  <2> QED
    BY <2>1 DEF FileSound, E
<1>11. task \in [Thread -> Tasks]
  BY <1>1 DEF Tasks
<1>12. Sound(E, E, 0, 0)
  <2>1. Told(tables, E)
    BY <1>2, <1>3 DEF Told
  <2> QED
    BY <1>6, <1>7, <1>9, <1>10, <1>11, <2>1 DEF Sound
<1> QED
  <2>1. E \in Seq(Page) /\ 0 \in Nat
    BY <1>2
  <2> QED
    BY <1>12, <2>1, Zenon DEF IInv

LEMMA StepKeeps ==
  ASSUME CatalogConstants, FailuresAreTakenBack, IInv, [Next]_vars
  PROVE  IInv'
<1>1. PICK C \in Seq(Page), a \in Nat, b \in Nat : \E G : Sound(C, G, a, b)
  BY DEF IInv
<1>13. PICK G : Sound(C, G, a, b)
  BY <1>1
<1>0. Sound(C, G, a, b)' => IInv'
  BY DEF IInv
<1>2. ASSUME NEW t \in Thread, NEW n \in Name, StartCreateTable(t, n) PROVE IInv'
  BY <1>0, <1>13, <1>2, StartCreateTableKeeps
<1>3. ASSUME NEW t \in Thread, CreateTable(t) PROVE IInv'
  BY <1>0, <1>13, <1>3, CreateTableKeeps
<1>4. ASSUME NEW t \in Thread, NEW n \in Name, NEW x \in IndexName,
             StartCreateIndex(t, n, x)
      PROVE  IInv'
  BY <1>0, <1>13, <1>4, StartCreateIndexKeeps
<1>5. ASSUME NEW t \in Thread, CreateIndex(t) PROVE IInv'
  BY <1>0, <1>13, <1>5, CreateIndexKeeps
<1>6. ASSUME NEW t \in Thread, DropIndex(t) PROVE IInv'
  <2>1. PICK x \in DOMAIN indexes : Drop({}, {x})
    BY <1>6 DEF DropIndex
  <2> DEFINE oids == {}
             xs == {x}
  <2>2. /\ oids \subseteq DOMAIN tables /\ xs \subseteq DOMAIN indexes
        /\ \A y \in DOMAIN indexes : indexes[y].table \in oids => y \in xs
        /\ Drop(oids, xs)
    BY <2>1
  <2> HIDE DEF oids, xs
  <2> QED
    BY <1>13, <2>2, DropKeeps
<1>7. ASSUME NEW t \in Thread, DropTable(t) PROVE IInv'
  <2>1. PICK o \in DOMAIN tables : Drop({o}, IndexesOf(o))
    BY <1>7 DEF DropTable
  <2> DEFINE oids == {o}
             xs == IndexesOf(o)
  <2>2. /\ oids \subseteq DOMAIN tables /\ xs \subseteq DOMAIN indexes
        /\ \A y \in DOMAIN indexes : indexes[y].table \in oids => y \in xs
        /\ Drop(oids, xs)
    BY <2>1 DEF IndexesOf
  <2> HIDE DEF oids, xs
  <2> QED
    BY <1>13, <2>2, DropKeeps
<1>8. ASSUME NEW o \in DOMAIN tables, GrowTable(o) \/ ShrinkTable(o) PROVE IInv'
  BY <1>0, <1>13, <1>8, GrowTableKeeps, ShrinkTableKeeps
<1>9. ASSUME NEW x \in DOMAIN indexes, GrowIndex(x) \/ ShrinkIndex(x) PROVE IInv'
  BY <1>0, <1>13, <1>9, GrowIndexKeeps, ShrinkIndexKeeps
<1>10. CASE Pin \/ Unpin
  BY <1>0, <1>13, <1>10, PinKeeps, UnpinKeeps
<1>11. CASE Reopen
  BY <1>0, <1>13, <1>11, ReopenKeeps
<1>12. CASE UNCHANGED vars
  <2>1. Sound(C, G, a, b)'
    BY <1>12, <1>13 DEF vars, memory, file, Sound, Counted, PagesSound
  <2> QED
    BY <1>0, <2>1
<1> QED
  BY <1>2, <1>3, <1>4, <1>5, <1>6, <1>7, <1>8, <1>9, <1>10, <1>11, <1>12 DEF Next

(* The catalog is sound at any time, whatever calls fail before the pages  *)
(* of the metadata begin to change.                                        *)
LEMMA Invariance ==
  ASSUME FailuresAreTakenBack
  PROVE  Spec => []IInv
<1>1. Init => IInv
  BY CatalogConstants, InitSound
<1>2. IInv /\ [Next]_vars => IInv'
  BY CatalogConstants, StepKeeps
<1> QED
  BY <1>1, <1>2, PTL DEF Spec

-------------------------------------------------------------------------------
(* What the invariant says.                                                *)

LEMMA SoundIsTyped ==
  ASSUME CatalogConstants, NEW C \in Seq(Page), NEW G, NEW a \in Nat, NEW b \in Nat,
         Sound(C, G, a, b)
  PROVE  TypeOK /\ pinned \subseteq used
<1>1. /\ a \in 0 .. next_table_oid /\ b \in 0 .. next_index_oid
      /\ DOMAIN tables \cup given \subseteq 0 .. a - 1
      /\ next_table_oid \in Nat /\ next_index_oid \in Nat /\ MaxOid \in Nat
      /\ next_table_oid <= MaxOid /\ next_index_oid <= MaxOid
  <2>1. \A op : Cardinality(CallsOf(task, op)) \in Nat
    BY CallsCount
  <2> QED
    BY <2>1 DEF Sound, Counted, CatalogConstants
<1>2. /\ DOMAIN tables \subseteq 0 .. MaxOid - 1 /\ given \subseteq 0 .. MaxOid - 1
      /\ next_table_oid \in 0 .. MaxOid /\ next_index_oid \in 0 .. MaxOid
  BY <1>1
<1>3. \A o \in DOMAIN tables : /\ tables[o].name \in Name
                               /\ tables[o].heap \in Seq(Page) /\ tables[o].heap # <<>>
  BY DEF Sound, Shapes
<1>4. \A x \in DOMAIN indexes :
        /\ indexes[x].table \in DOMAIN tables /\ indexes[x].name \in IndexName
        /\ indexes[x].header \in Page /\ indexes[x].tree \subseteq Page
  BY DEF Sound, Shapes
<1>5. /\ pending_reclaim \cup used \cup pinned \cup lost \subseteq Page
      /\ pinned \subseteq used
  BY DEF Sound, PagesSound, Parted
<1>6. catalog_meta_page_id \in Page \cup {INVALID_PAGE_ID}
  <2>1. catalog_meta_page_id = IF C = <<>> THEN INVALID_PAGE_ID ELSE C[1]
    BY DEF Sound, FileSound, IsChain
  <2> QED
    BY <2>1
<1>7. \A t \in Thread : task[t].op \in {"none", "create", "index"}
  BY DEF Sound, Tasks, Idle
<1> QED
  BY <1>2, <1>3, <1>4, <1>5, <1>6, <1>7 DEF TypeOK

(* The owners of a page are of the kinds that the invariant tells apart.   *)
LEMMA OwnersAre ==
  ASSUME CatalogConstants, NEW C, NEW G, NEW a, NEW b, Sound(C, G, a, b), NEW p, NEW x
  PROVE  x \in Owner(p) <=>
           \/ \E o \in DOMAIN tables : p \in Range(tables[o].heap) /\ x = <<"table", o>>
           \/ \E i \in DOMAIN indexes : p \in TreePages(indexes[i]) /\ x = <<"index", i>>
           \/ \E t \in CallsOf(task, "create") : task[t].page = p /\ x = <<"call", t>>
           \/ p \in Range(C) /\ x = <<"meta", 0>>
           \/ p \in pending_reclaim /\ x = <<"pending", 0>>
           \/ p \in lost /\ x = <<"nobody", 0>>
<1>1. Range(C) = ChainPages
  BY MetaChainIs DEF ChainPages, Sound, FileSound
<1>2. Calls("create") = CallsOf(task, "create")
  BY DEF Calls, CallsOf
<1> DEFINE O1 == {<<"table", o>> : o \in {q \in DOMAIN tables : p \in Range(tables[q].heap)}}
           O2 == {<<"index", i>> : i \in {q \in DOMAIN indexes : p \in TreePages(indexes[q])}}
           O3 == {<<"call", t>> : t \in {u \in Calls("create") : task[u].page = p}}
           O4 == {y \in {<<"meta", 0>>} : p \in ChainPages}
           O5 == {y \in {<<"pending", 0>>} : p \in pending_reclaim}
           O6 == {y \in {<<"nobody", 0>>} : p \in lost}
<1>3. Owner(p) = O1 \cup O2 \cup O3 \cup O4 \cup O5 \cup O6
  BY DEF Owner
<1>4. x \in O1 <=> \E o \in DOMAIN tables : p \in Range(tables[o].heap) /\ x = <<"table", o>>
  OBVIOUS
<1>5. x \in O2 <=> \E i \in DOMAIN indexes : p \in TreePages(indexes[i]) /\ x = <<"index", i>>
  OBVIOUS
<1>6. x \in O3 <=> \E t \in CallsOf(task, "create") : task[t].page = p /\ x = <<"call", t>>
  <2> DEFINE mine == {u \in Calls("create") : task[u].page = p}
  <2>1. \A t : t \in mine <=> t \in CallsOf(task, "create") /\ task[t].page = p
    BY <1>2
  <2>2. x \in O3 <=> \E t \in mine : x = <<"call", t>>
    OBVIOUS
  <2> HIDE DEF mine, O3
  <2> QED
    BY <2>1, <2>2
<1>7. x \in O4 <=> p \in Range(C) /\ x = <<"meta", 0>>
  BY <1>1
<1>8. x \in O5 <=> p \in pending_reclaim /\ x = <<"pending", 0>>
  OBVIOUS
<1>9. x \in O6 <=> p \in lost /\ x = <<"nobody", 0>>
  OBVIOUS
<1> HIDE DEF O1, O2, O3, O4, O5, O6
<1> QED
  BY <1>3, <1>4, <1>5, <1>6, <1>7, <1>8, <1>9

LEMMA OneOwner ==
  ASSUME CatalogConstants, NEW C, NEW G, NEW a, NEW b, Sound(C, G, a, b), NEW p
  PROVE  Cardinality(Owner(p)) <= 1
<1>1. ASSUME NEW x \in Owner(p), NEW y \in Owner(p) PROVE x = y
  <2>1. /\ \A o, q \in DOMAIN tables :
             p \in Range(tables[o].heap) /\ p \in Range(tables[q].heap) => o = q
        /\ \A i, j \in DOMAIN indexes :
             p \in TreePages(indexes[i]) /\ p \in TreePages(indexes[j]) => i = j
        /\ \A t, u \in CallsOf(task, "create") :
             task[t].page = p /\ task[u].page = p => t = u
    BY DEF Sound, PagesSound, HeapsApart, TreesApart, CallsApart
  <2>2. /\ \A o \in DOMAIN tables : p \in Range(tables[o].heap) => p \in HeapPages(tables)
        /\ \A i \in DOMAIN indexes : p \in TreePages(indexes[i]) => p \in IndexPages(indexes)
        /\ \A t \in CallsOf(task, "create") : task[t].page = p => p \in CallPages(task)
    BY DEF HeapPages, IndexPages, CallPages
  <2>3. Parted(used, HeapPages(tables), IndexPages(indexes), CallPages(task),
               Range(C), pending_reclaim, lost)
    BY DEF Sound, PagesSound
  <2>4. CASE \E o \in DOMAIN tables : p \in Range(tables[o].heap) /\ x = <<"table", o>>
    BY <2>1, <2>2, <2>3, <2>4, OwnersAre DEF Parted
  <2>5. CASE \E i \in DOMAIN indexes : p \in TreePages(indexes[i]) /\ x = <<"index", i>>
    BY <2>1, <2>2, <2>3, <2>5, OwnersAre DEF Parted
  <2>6. CASE \E t \in CallsOf(task, "create") : task[t].page = p /\ x = <<"call", t>>
    BY <2>1, <2>2, <2>3, <2>6, OwnersAre DEF Parted
  <2>7. CASE \/ p \in Range(C) /\ x = <<"meta", 0>>
             \/ p \in pending_reclaim /\ x = <<"pending", 0>>
             \/ p \in lost /\ x = <<"nobody", 0>>
    BY <2>1, <2>2, <2>3, <2>7, OwnersAre DEF Parted
  <2> QED
    BY <2>4, <2>5, <2>6, <2>7, OwnersAre
<1>2. CASE Owner(p) = {}
  BY <1>2, FS_EmptySet
<1>3. CASE Owner(p) # {}
  <2>1. PICK x : x \in Owner(p)
    BY <1>3
  <2>2. Owner(p) = {x}
    BY <1>1, <2>1
  <2>3. Cardinality({x}) = 1
    BY FS_Singleton
  <2> QED
    BY <2>2, <2>3
<1> QED
  BY <1>2, <1>3

(* A page is of one of the kinds when it has an owner.                     *)
LEMMA OwnedIsUsed ==
  ASSUME CatalogConstants, NEW C, NEW G, NEW a, NEW b, Sound(C, G, a, b), NEW p
  PROVE  p \in used <=> Owner(p) # {}
<1>1. /\ p \in HeapPages(tables) <=> \E o \in DOMAIN tables : p \in Range(tables[o].heap)
      /\ p \in IndexPages(indexes) <=> \E i \in DOMAIN indexes : p \in TreePages(indexes[i])
      /\ p \in CallPages(task) <=> \E t \in CallsOf(task, "create") : task[t].page = p
  BY DEF HeapPages, IndexPages, CallPages
<1>2. p \in used <=>
        \/ p \in HeapPages(tables) \/ p \in IndexPages(indexes) \/ p \in CallPages(task)
        \/ p \in Range(C) \/ p \in pending_reclaim \/ p \in lost
  BY DEF Sound, PagesSound, Parted
<1>3. ASSUME NEW x, x \in Owner(p) PROVE p \in used
  BY <1>1, <1>2, <1>3, OwnersAre
<1>4. ASSUME p \in used PROVE \E x : x \in Owner(p)
  <2>1. \A x :
          \/ \E o \in DOMAIN tables : p \in Range(tables[o].heap) /\ x = <<"table", o>>
          \/ \E i \in DOMAIN indexes : p \in TreePages(indexes[i]) /\ x = <<"index", i>>
          \/ \E t \in CallsOf(task, "create") : task[t].page = p /\ x = <<"call", t>>
          \/ p \in Range(C) /\ x = <<"meta", 0>>
          \/ p \in pending_reclaim /\ x = <<"pending", 0>>
          \/ p \in lost /\ x = <<"nobody", 0>>
          => x \in Owner(p)
    BY OwnersAre
  <2>2. CASE p \in HeapPages(tables)
    BY <1>1, <2>1, <2>2
  <2>3. CASE p \in IndexPages(indexes)
    BY <1>1, <2>1, <2>3
  <2>4. CASE p \in CallPages(task)
    BY <1>1, <2>1, <2>4
  <2>5. CASE p \in Range(C) \/ p \in pending_reclaim \/ p \in lost
    BY <2>1, <2>5
  <2> QED
    BY <1>2, <1>4, <2>2, <2>3, <2>4, <2>5
<1> QED
  BY <1>3, <1>4

(* Tables, indexes, the metadata, calls under way, what waits to be        *)
(* deleted and what is lost share no page, and nobody has a page pinned    *)
(* that NewPage would hand out: for any number of threads, tables and      *)
(* pages, whatever fails before the pages of the metadata begin to change. *)
THEOREM OnePageOneOwner ==
  ASSUME FailuresAreTakenBack
  PROVE  Spec => []NoPageHasTwoOwners
<1>1. IInv => NoPageHasTwoOwners
  <2> SUFFICES ASSUME NEW C \in Seq(Page), NEW G, NEW a \in Nat, NEW b \in Nat,
                      Sound(C, G, a, b)
               PROVE  NoPageHasTwoOwners
    BY DEF IInv
  <2>1. TypeOK /\ pinned \subseteq used
    BY CatalogConstants, SoundIsTyped
  <2>2. \A p \in Page : Cardinality(Owner(p)) <= 1
    BY CatalogConstants, OneOwner
  <2> QED
    BY <2>1, <2>2 DEF NoPageHasTwoOwners
<1> QED
  BY <1>1, Invariance, PTL

(* The pages handed out are those with an owner, the lost ones counted:    *)
(* no call that fails before the pages of the metadata begin to change     *)
(* forgets a page but those lost names.                                    *)
THEOREM NoPageIsForgotten ==
  ASSUME FailuresAreTakenBack
  PROVE  Spec => []PagesAreAccountedFor
<1>1. IInv => PagesAreAccountedFor
  <2> SUFFICES ASSUME NEW C \in Seq(Page), NEW G, NEW a \in Nat, NEW b \in Nat,
                      Sound(C, G, a, b)
               PROVE  PagesAreAccountedFor
    BY DEF IInv
  <2>1. \A p : p \in used <=> Owner(p) # {}
    BY CatalogConstants, OwnedIsUsed
  <2>2. used \subseteq Page
    BY DEF Sound, PagesSound
  <2> QED
    BY <2>1, <2>2 DEF PagesAreAccountedFor
<1> QED
  BY <1>1, Invariance, PTL

(* The oid of a table that a caller was given is below next_table_oid, in  *)
(* memory and in the file, so that no later table has it; under the same   *)
(* condition.                                                              *)
THEOREM OidsAreGivenOnce ==
  ASSUME FailuresAreTakenBack
  PROVE  Spec => []OidsAreNotReused
<1>1. IInv => OidsAreNotReused
  <2> SUFFICES ASSUME NEW C \in Seq(Page), NEW G, NEW a \in Nat, NEW b \in Nat,
                      Sound(C, G, a, b)
               PROVE  OidsAreNotReused
    BY DEF IInv
  <2>1. Loaded = {BuildMetaSnapshot(G, indexes, a, b)}
    BY CatalogConstants, LoadedIs DEF Sound, Counted
  <2>2. BuildMetaSnapshot(G, indexes, a, b).next_table = a
    BY DEF BuildMetaSnapshot
  <2>3. \A o \in given : o < a /\ o < next_table_oid
    BY DEF Sound, Counted
  <2> QED
    BY <2>1, <2>2, <2>3 DEF OidsAreNotReused
<1> QED
  BY <1>1, Invariance, PTL

(* Opened at any time between two calls, the catalog has the tables and    *)
(* indexes it has now, with their first pages, as long as no first page is *)
(* reclaimed and failures come before the pages of the metadata begin to   *)
(* change: a flush of a written page, SetCatalogMetaPageId and what        *)
(* follows it, or the LoadIndex of a rollback that fails refutes it.       *)
THEOREM ReopeningFindsAll ==
  ASSUME ~HeadsMayGo, FailuresAreTakenBack
  PROVE  Spec => []ReopenRestoresCatalog
<1>1. IInv => ReopenRestoresCatalog
  <2> SUFFICES ASSUME NEW C \in Seq(Page), NEW G, NEW a \in Nat, NEW b \in Nat,
                      Sound(C, G, a, b)
               PROVE  ReopenRestoresCatalog
    BY DEF IInv
  <2> DEFINE s == BuildMetaSnapshot(G, indexes, a, b)
             now == BuildMetaSnapshot(tables, indexes, next_table_oid, next_index_oid)
  <2>1. Loaded = {s}
    BY CatalogConstants, LoadedIs DEF Sound, Counted
  <2>2. s.tables = now.tables /\ s.indexes = now.indexes
    BY DEF BuildMetaSnapshot, Sound, Told
  <2> HIDE DEF s, now
  <2>3. \E r \in Loaded : r.tables = now.tables /\ r.indexes = now.indexes
    BY <2>1, <2>2
  <2> QED
    BY <2>3 DEF ReopenRestoresCatalog, now
<1> QED
  BY <1>1, Invariance, PTL
===============================================================================
